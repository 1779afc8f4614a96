CONSTANTS
  Tasks = {t1, t2}
  MaxPieces = 2
  MaxErrors = 1
  Big = {t1}
SPECIFICATION CallsSpec
CHECK_DEADLOCK FALSE
INVARIANTS
  CalledBackOnce
  ResultTellsTheCause
PROPERTIES
  EchoAnswerKept
  TimedWaitsEnd
  CallsEnd
