CONSTANTS
  MaxCalls = 2
  MaxBody = 1
  ChunkedKeepAlive = TRUE
SPECIFICATION Spec
CHECK_DEADLOCK FALSE
INVARIANTS
  RequestsIntact
