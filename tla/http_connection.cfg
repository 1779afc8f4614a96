CONSTANTS
  MaxCalls = 3
  MaxBody = 2
  ChunkedKeepAlive = FALSE
SPECIFICATION Spec
CHECK_DEADLOCK FALSE
INVARIANTS
  RequestsIntact
  AnswersMatch
  OnlyEmptyAnswersStall
