SPECIFICATION RacesSpec
CONSTANTS
  Receiver = {1, 2}
  FILE_SIZE = 4
  BUFFER_SIZE = 2
  MaxUnsigned = 15
  MaxCalls = 4
  Client = {"c1", "c2"}
  MaxLength = 2
  MaxFrames = 3
  Consumer = {"c1", "c2"}
  Top = 1
  MaxItems = 4
  Sender = {"s1", "s2"}
  MSGS = 2
  QUEUE_BUF_SIZE = 2
  Rounds = 2
INVARIANTS
  RacesInv
PROPERTIES
  FramesAreSteady
