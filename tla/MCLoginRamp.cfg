CONSTANTS
  N = 4
  Slots = 2
  Capacity = 4
  Timeout = 4
  Period = 2
  Pause = 1
  Total = 8
  Horizon = 14
SPECIFICATION Spec
CHECK_DEADLOCK FALSE
INVARIANTS
  GeneratorHasRoom
  KeptAlive
  ReadyMeansConnected
PROPERTIES
  RampEnds
