SPECIFICATION TimedSpec
CONSTANTS
  Actions = {"continue"}
  Queries = {"scopes"}
  Threads = {1, 2}
  MaxSeq = 5
  MaxOpens = 2
  MaxOutputs = 1
  OutputCap = 2
  Console = {2}
  Timeouts = TRUE
  Crashes = TRUE
INVARIANTS
  AnswerMatches
  ClosedIsClean
  EndMatchesMode
PROPERTIES
  CallsReturn
CHECK_DEADLOCK FALSE
