CONSTANTS
  Producers = {io}
  Consumers = {w1, w2}
  Closers = {s1, s2}
  Gated = {io}
  Polling = {}
  MaxLen = 2
  MaxPush = 3
  Value = {1, 2, 3}
  NoThread = NoThread
SPECIFICATION PoolSpec
CHECK_DEADLOCK FALSE
INVARIANTS
  TypeOK
  SizeNeverOverstates
  NoLostWakeup
  SoleGatedProducerBound
  IOThreadNeverWaits
  AnsweredOnce
PROPERTIES
  ImplementsFifo
  DestructorEnds
