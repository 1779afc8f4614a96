CONSTANTS
  Sockets = {s1, s2}
  Timeouts = {1, 3}
  Infinity = 15
  IntRange = 4
  MaxTime = 4
  None = None
SPECIFICATION Spec
PROPERTIES
  OnlyDueTimersExpire
