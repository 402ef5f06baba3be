\* The three uses of the storage.
SPECIFICATION MCSpec
CONSTANTS
  BLOCK_SIZE = 3
  OneByte = 2
  TwoBytes = 3
  UINT32_MAX = 5
  Readers = {gui, search}
  Worker = worker
  MaxPos = 9
  MaxBatch = 2
  MaxLines = 8
  MaxAllocated = 10
  ReallocMoves = FALSE
  FakeLines = TRUE
  LongFakes = FALSE
  Reloads = FALSE
INVARIANTS
  ReadyToAppend
  BlocksOwnedThroughout
PROPERTIES
  EmulatesVector
CHECK_DEADLOCK FALSE
