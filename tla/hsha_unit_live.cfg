CONSTANTS
  Conns = {c1, c2}
  Cells = {a1, a2}
  Workers = {w1}
  MaxConnections = 2
  MaxQueueLength = 1
  MaxAcceptQueue = 0
  MaxRequests = 1
  MaxBlocks = 1
  None = None
SPECIFICATION Spec
PROPERTIES
  EverythingReturned
