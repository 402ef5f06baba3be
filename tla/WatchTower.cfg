SPECIFICATION FairSpec
CONSTANTS
  Tabs = {t1, t2}
  Names = {"log", "log1"}
  Dirs = {"d"}
  DirOf <- OneDirectory
  Inodes = {i1, i2, i3}
  MaxFileOps = 3
  MaxRegisters = 2
INVARIANTS Consistent QuietMeansWatched 
PROPERTY TowerStops
CHECK_DEADLOCK FALSE
