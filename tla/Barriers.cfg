SPECIFICATION BarriersSpec
CONSTANTS
  N = 4
  Hunger = 2
  GRID_SIZE = 7
  nthreads = 3
  Locked = {0, 6}
  FirstPlate <- MCFirstPlate
  Relax <- Average
  MaxIterations = 3
  Rounds = 3
INVARIANTS
  TableInv
  PlateInv
  MembarrierInv
PROPERTIES
  IsSynchronous
  BarriersEnd
