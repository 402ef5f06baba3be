SPECIFICATION Spec
CONSTANTS
  Regexps = {"r"}
  nbLinesInChunk = 2
  MaxLines = 3
  MaxLoads = 1
  MaxUserActions = 2
  UserActions = {"search", "refresh"}
  Truncations = FALSE
INVARIANT ListedInOrder
CHECK_DEADLOCK FALSE
