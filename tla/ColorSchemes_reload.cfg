SPECIFICATION Spec
CONSTANTS
  Schemes = {"dark", "light"}
  MaxWindows = 2
  MaxActions = 4
INVARIANT OfferedIsFound
CHECK_DEADLOCK FALSE
