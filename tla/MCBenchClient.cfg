CONSTANTS
  c1 = c1
  c2 = c2
  c3 = c3
  Callers <- MCCallers
  Capacity = 2
  MaxBody = 1
  ReadSize = 1
  Last = 2
  Fractions <- MCFractions
  MaxResponses = 3
SYMMETRY MCSymmetry
SPECIFICATION ReportSpec
INVARIANTS
  SlotsMatchRequests
  QuantilesAreTight
