SPECIFICATION FairSpec
CONSTANTS
  RoundsWithConditions = 5
INVARIANTS
  CountInv
PROPERTIES
  CountsToTheEnd
