SPECIFICATION MCSpec
CONSTANTS
  Regexps = {"r"}
  nbLinesInChunk = 2
  MaxLines = 3
  MaxLoads = 1
  MaxUserActions = 2
  UserActions = {"search", "stop", "stopLoading", "refresh", "reload", "edit"}
  Truncations = TRUE
INVARIANTS TypeOK FoundIsPrefix QuietMeansShown QuietMeansRefreshed InterruptionIsWaitedFor QuietMeansRestarted
PROPERTY GuiResponds
CHECK_DEADLOCK FALSE
