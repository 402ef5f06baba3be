\* A log that is truncated, rotated and removed as it is read.
SPECIFICATION Spec
CONSTANTS
  Inodes = {f1, f2}
  NoInode = NoInode
  ChunkSize = 1
  MaxSize = 2
  MaxDiskChanges = 2
  MaxUserActions = 1
  AppendOnly = FALSE
  MemoryFailures = TRUE
SYMMETRY FileSymmetry
INVARIANTS
  TypeOK
  OperationTracked
  StartNeverWaitsForIndexing
PROPERTIES
  PositionsIncrease
CHECK_DEADLOCK FALSE
