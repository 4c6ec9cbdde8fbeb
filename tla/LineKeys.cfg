SPECIFICATION TTYSpec
CONSTANTS
  Trees <- MCTrees
  Commands = {}
  Views = {TRUE}
  MaxStops = 2
  Timeouts = FALSE
  Keys = {":", "c", "o"}
  HistoryLimit = 2
  MaxLine = 1
  MaxRan = 3
INVARIANTS
  BrowsingShowsHistory
  HistoryIsRecent
  ExitClosesLine
CHECK_DEADLOCK FALSE
