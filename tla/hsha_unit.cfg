CONSTANTS
  Conns = {c1, c2, c3}
  Cells = {a1, a2, a3}
  Workers = {w1, w2}
  MaxConnections = 2
  MaxQueueLength = 1
  MaxAcceptQueue = 0
  MaxRequests = 2
  MaxBlocks = 1
  None = None
SPECIFICATION Spec
SYMMETRY Symmetry
INVARIANTS
  SocketPointersValid
  AnswerMatchesRequest
  Accounted
  Limits
