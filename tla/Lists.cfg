SPECIFICATION ListsSpec
CONSTANTS
  p1 = p1
  p2 = p2
  c1 = c1
  c2 = c2
  v1 = v1
  v2 = v2
  w1 = w1
  w2 = w2
  u1 = u1
  u2 = u2
  Producer <- MCProducer
  Consumer <- MCConsumer
  MaxNodes = 3
  Popper <- MCPopper
  Value <- MCValue
  MaxElements = 3
  MaxListed = 5
  Operator <- MCOperator
  MaxValue = 2
  MaxOperations = 2
  Displayer <- MCOperator
  Jobs = 3
  User <- MCUser
  Arrival <- MCArrival
  Duration <- MCDuration
INVARIANTS
  StackInv
  SemListInv
  RacyListsInv
PROPERTIES
  IsAStack
  SemIsAStack
  ListsAreEmptied
