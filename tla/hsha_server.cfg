SPECIFICATION Spec
CONSTANTS
  Files <- MCFiles
  Required <- MCRequired
  Requests = {r1, r2}
  InWaits = {2}
  OutWaits = {0}
  Rate = 2
  Hundred = 4
  MaxCount = 2
CHECK_DEADLOCK FALSE
INVARIANTS
  DivisorCounted
  UnitsExact
PROPERTIES
  ConfigMeans
  RejectionEnds
