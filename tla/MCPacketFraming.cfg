CONSTANTS
  HeaderSize = 7
  MaxPayload = 2
  MaxCount = 2
  MaxBytes = 26
  MaxDeclared = 3
SPECIFICATION FramingSpec
CHECK_DEADLOCK FALSE
INVARIANTS
  Tiling
  CompleteIsWhole
  DiagnosticsPoint
