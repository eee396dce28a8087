SPECIFICATION TotalsSpec
CONSTANTS
  w0 = w0
  w1 = w1
  w2 = w2
  Worker = {w0, w1, w2}
  Worker0 = w0
  BloomWorker = {w1, w2}
  FilterWords = 3
  VECT_SIZE = 6
  Vertex = {1, 2, 3, 4}
  WordOf <- MCWordOf
  Member = {1, 2, 3}
  Filters <- MCFilters
  trials = 2
  MaxTrial = 4
  TimeWorker = {w1}
  Micro = 3
  StartTimes <- MCStartTimes
  Times <- MCReadings
  Second = 4
  SleepMicro = 2
  MaxSec = 1
  MaxNsec = 6
  MaxClock = 14
  ThreadsOf <- MCThreads
  RoundsOf <- MCTimes
  PartSize = 2
  Rows = 2
  CountersMaxElement = 3
  size = 4
  ForkMaxElement = 2
  Tickets = 4
  Numbers = 3
  Talkers = 3
  Turns = 2
  Checked <- MCChecked
  num_threads = 3
  NUM_BUCKETS = 2
  NUM_KEYS = 4
  MaxKey = 2
  nthreads = 2
  Words = 3
  MaxAddresses = 2
  Buttons = {1, 2}
  MaxRest = 2
  MaxLit = 3
INVARIANTS
  TotalsInv
  SharedDataInv
  WorkersInv
  BloomInv
PROPERTIES
  TotalsEnd
