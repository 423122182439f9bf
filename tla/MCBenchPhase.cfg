CONSTANTS
  rare = rare
  frequent = frequent
  Actors <- MCActors
  Scorers <- MCScorers
  Every <- MCEvery
  Deadline = 8
  Longest = 5
  Lag = 1
  Horizon = 16
SPECIFICATION Spec
CHECK_DEADLOCK FALSE
INVARIANTS
  EverySlotAccounted
  LoadEndsInTime
  VerifiesEveryReceipt
PROPERTIES
  PhaseEnds
