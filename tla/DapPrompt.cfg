SPECIFICATION PromptSpec
CONSTANTS
  Actions = {"continue"}
  Queries = {"stackTrace", "scopes"}
  Threads = {1, 2}
  MaxSeq = 7
  MaxOpens = 2
  MaxOutputs = 4
  OutputCap = 2
  Console = {2}
  Timeouts = FALSE
  Crashes = FALSE
INVARIANTS
  StopIsReal
  ThreadIsCurrent
  CloseDisposes
  OutputIsComplete
PROPERTIES
  SessionSafety
  NoStopIsMissed
CHECK_DEADLOCK FALSE
