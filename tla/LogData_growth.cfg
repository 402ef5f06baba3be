\* The log grows while it is indexed.
SPECIFICATION FairSpec
CONSTANTS
  Inodes = {f1}
  NoInode = NoInode
  ChunkSize = 1
  MaxSize = 2
  MaxDiskChanges = 2
  MaxUserActions = 0
  AppendOnly = TRUE
  MemoryFailures = FALSE
PROPERTIES
  GrowthIsShown
CHECK_DEADLOCK FALSE
