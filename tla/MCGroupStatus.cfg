CONSTANTS
  Order <- Pair
  Corpus <- GroupCorpus
  Configs <- ProofConfigs
  Vars <- TheVars
  Nested <- NoNested
  Sessions <- TheSessions
  Statuses <- TheStatuses
  Bodies <- OneBody
SPECIFICATION Spec
INVARIANTS
  StatusesCompareByDefault
CHECK_DEADLOCK FALSE
