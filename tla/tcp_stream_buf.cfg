CONSTANTS
  Byte = {a, b}
  None = None
  buf_size_ = 2
  MaxWritten = 5
SPECIFICATION BufSpec
CHECK_DEADLOCK FALSE
INVARIANTS
  BufTypeOK
  NothingLostOrRepeated
  FlushedIsSent
