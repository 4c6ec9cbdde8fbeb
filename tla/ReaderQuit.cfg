SPECIFICATION LiveSpec
CONSTANTS
  Kinds = {"quit", "esc"}
  MaxKeys = 6
PROPERTIES
  QuitKeyQuits
CHECK_DEADLOCK FALSE
