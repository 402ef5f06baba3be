\* The threads run: nothing hangs.
SPECIFICATION FairSpec
CONSTANTS
  Inodes = {f1}
  NoInode = NoInode
  ChunkSize = 1
  MaxSize = 1
  MaxDiskChanges = 2
  MaxUserActions = 1
  AppendOnly = FALSE
  MemoryFailures = TRUE
PROPERTIES
  FileChangedThenFinished
  ClosingEnds
  GuiResponds
CHECK_DEADLOCK FALSE
