SPECIFICATION FairSpec
CONSTANTS
  MaxActions <- ActionsOf
  MaxLines = 3
  Patterns = {"p", "q"}
  NoPattern = "none"
  LogLines <- SomeLines
  MaxDepth = 3
  ViewHeights = {2, 3}
  MaxColumn = 1
  Length <- LengthOf
  Matching = {{0, 2}}
  OverviewHeights = {2}
  Files = {"f", "h"}
  MaxWindows = 2
  MaxCrawlers = 3
  Processes = {"p", "q"}
  Texts = {"s", "t"}
  maxNumberOfRecentSearches = 2
  MAX_NUMBER_OF_FILES = 1
  Schemes = {"dark", "light"}
  Bytes = {65, 194, 128, 240, 144}
  MaxSize = 4
  MaxChanges = 1
  LineLength = 3
  Screen <- ScreenColumns
  Selections <- SomeSelections
  PatternMatches <- SomeMatches
  highlightScope <- UserScopes
  Rules <- SomeRules
  SchemeScopes = {"a", "b", "c", "h"}
INVARIANTS
  TypeOK
  
  ScreenIsCurrent LinesAreVisible
  FilteredIsMerge RangeIsMarked
    PinnedAreKept
  
  Utf8Recognised GrownFileIsRead
  UpperIsKept SchemeIsThere
PROPERTY SearchReturns
CHECK_DEADLOCK FALSE
