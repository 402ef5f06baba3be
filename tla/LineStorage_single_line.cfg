\* The only line of a log has no line feed, and the log grows.
SPECIFICATION Spec
CONSTANTS
  BLOCK_SIZE = 2
  OneByte = 2
  TwoBytes = 3
  UINT32_MAX = 9
  Readers = {}
  Worker = worker
  MaxPos = 4
  MaxBatch = 1
  MaxLines = 3
  MaxAllocated = 6
  ReallocMoves = FALSE
  FakeLines = TRUE
  LongFakes = FALSE
  Reloads = FALSE
INVARIANTS
  FakeIsRemoved
CHECK_DEADLOCK FALSE
