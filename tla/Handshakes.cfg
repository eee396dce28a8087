SPECIFICATION HandshakesSpec
CONSTANTS
  c1 = c1
  c2 = c2
  c3 = c3
  w1 = w1
  w2 = w2
  w3 = w3
  Creature <- MCCreature
  StartColors <- MCStartColors
  total_meetings_to_run = 3
  Turns = 2
  MAX_COUNT = 4
  MaxIdle = 3
  MAX_CHANNEL = 2
  MaxNumbers = 2
  Worker <- MCWorker
  my_index <- MCIndex
  length = 5
  Million = 3
  MaxClock = 4
  w_iterations = 10
  w_drop_cache = TRUE
  MaxLines = 3
  N = 3
  MaxNumber = 3
INVARIANTS
  ChameneosInv
  MeasuredInv
  AnswersInv
  TurnsInv
PROPERTIES
  IsARendezvous
  HandshakesEnd
