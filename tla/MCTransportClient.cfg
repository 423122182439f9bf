CONSTANTS
  MaxCalls = 4
  MaxVersion = 2
SPECIFICATION Spec
CHECK_DEADLOCK FALSE
INVARIANTS
  ExpiredEndsTraffic
  AnswersTheCheckedRequest
PROPERTIES
  EveryCallReturns
  KeepsPromise
