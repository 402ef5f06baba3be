\* A log that only grows, with reloads, interruptions and allocation failures.
SPECIFICATION Spec
CONSTANTS
  Inodes = {f1}
  NoInode = NoInode
  ChunkSize = 2
  MaxSize = 3
  MaxDiskChanges = 3
  MaxUserActions = 2
  AppendOnly = TRUE
  MemoryFailures = TRUE
INVARIANTS
  
  
  QuietMeansLastLineShown
  CutShortMeansReplaced
CHECK_DEADLOCK FALSE
