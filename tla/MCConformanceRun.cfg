CONSTANTS
  Order <- Pair
  Corpus <- MixedCorpus
  Configs <- AnyConfigs
  Vars <- TheVars
  Nested <- NoNested
  Sessions <- TheSessions
  Statuses <- OneStatus
  Bodies <- TheBodies
SPECIFICATION Spec
INVARIANTS
  SameStepsToBoth
  StillValid
  DryRunHolds
  IdentityBeforeSteps
  PassedProofIsComplete
  MutationNeedsEveryGate
  NoDifferenceLost
PROPERTIES
  KeepsVerdict
  RunEnds
CHECK_DEADLOCK FALSE
