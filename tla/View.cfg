SPECIFICATION Spec
CONSTANTS
  Trees <- MCTrees
  Commands <- MCCommands
  Views = {TRUE, FALSE}
  MaxStops = 3
  Timeouts = TRUE
INVARIANTS
  InspectionIsCurrent
  NamedIsShown
  ExitedIsFinal
PROPERTIES
  BranchesStayOpen
CHECK_DEADLOCK FALSE
