SPECIFICATION StartSpec
CONSTANTS
  Bad <- MCBad
  Marked <- MCMarked
  Bootstrap <- MCBootstrap
  Files = {"main.go"}
  Lines = {1, 2}
  Conditions = {"none"}
  Sites <- MCSites
  NoSite <- MCNoSite
  Site <- MCSite
  MaxId = 6
  Losses = TRUE
  Clears = FALSE
INVARIANTS
  StartTypeOK
  NothingLeftRunning
  ExitCodeTells
  MarksAreBreakpoints
PROPERTIES
  StartupEnds
CHECK_DEADLOCK FALSE
