SPECIFICATION Spec
CHECK_DEADLOCK FALSE
CONSTANTS
  Roles <- MCRoles
  Kinds <- MCKinds
  MaxTries = 2
  MaxCases = 2
INVARIANTS
  LeftoversAreReported
  VariablesNameSessions
  NoServerLeft
PROPERTIES
  MainEnds
