SPECIFICATION FairSpec
CONSTANTS
  BSIZE = 3
  NUMITEMS = 7
  TextLen = 7
INVARIANTS
  BufferInv
PROPERTIES
  IsAChannel
  TextIsDelivered
