SPECIFICATION QueuesSpec
CONSTANTS
  w1 = w1
  w2 = w2
  w3 = w3
  s1 = s1
  s2 = s2
  Worker <- MCWorker
  BUFFER_SIZE = 2
  Schedules <- MCSchedules
  Sender <- MCSender
  MSGS = 2
  QUEUE_BUF_SIZE = 2
  OcmRounds = 3
  CON_INIT_VAL = 2
  ProConRounds = 3
INVARIANTS
  PoolInv
  ActorInv
  OverrunInv
PROPERTIES
  IsAChannel
  QueuesDeliver
