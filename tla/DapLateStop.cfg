SPECIFICATION Spec
CONSTANTS
  Actions = {"continue"}
  Queries = {"stackTrace", "scopes"}
  Threads = {1}
  MaxSeq = 6
  MaxOpens = 1
  MaxOutputs = 0
  OutputCap = 2
  Console = {2}
  Timeouts = TRUE
  Crashes = FALSE
INVARIANTS
  StopIsReal
CHECK_DEADLOCK FALSE
