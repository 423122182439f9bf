SPECIFICATION Spec
CHECK_DEADLOCK FALSE
CONSTANTS
  None = None
  Ping = 4
  Handled <- MCHandled
  Routes <- MCRoutes
  Policies <- MCPolicies
  PolicyPackets <- MCPolicyPackets
  Waivers <- MCWaivers
  ReadbackRoutes <- MCReadback
  Projects <- MCProjects
INVARIANTS
  EveryPacketIsWitnessed
  SurfaceIsCovered
  WaiverIsLast
