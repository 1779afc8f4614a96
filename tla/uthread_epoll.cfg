CONSTANTS
  Tasks = {t1, t2, t3, t4}
  MaxErrors = 1
SPECIFICATION Spec
CHECK_DEADLOCK FALSE
SYMMETRY Symmetry
INVARIANTS
  FreeListExact
  UnfinishedExact
  ResumesTheWaiter
  WaitersReachable
  ReturnsWhenAllDone
