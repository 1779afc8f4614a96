CONSTANTS
  Sockets = {s1, s2, s3, s4, s5, s6}
  Timeouts = {1, 2}
  Infinity = 5
  IntRange = 4
  MaxTime = 1
  None = None
SPECIFICATION Spec
SYMMETRY Symmetry
INVARIANTS
  HeapExact
  TimersFollowSockets
PROPERTIES
  NeverEarly
  ImplementsTimerSet
