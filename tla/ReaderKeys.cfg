SPECIFICATION LiveSpec
CONSTANTS
  Kinds = {"quit", "esc", "bracket", "other"}
  MaxKeys = 4
INVARIANTS
  InOrder
  NothingLost
  EndOfInputLast
  NoReadAhead
PROPERTIES
  CancelStopsLoop
  StreamSafety
  StreamLive
CHECK_DEADLOCK FALSE
