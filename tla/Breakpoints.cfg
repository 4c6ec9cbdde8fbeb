SPECIFICATION Spec
CONSTANTS
  Bad <- MCBad
  Files = {"main.go"}
  Lines = {1, 2}
  Conditions = {"none", "hits > 3"}
  MaxId = 6
  Losses = TRUE
  Clears = TRUE
INVARIANTS
  OncePerSpot
  ListedIsInstalled
PROPERTIES
  CreatedIsCurrent
  SuccessHeals
  ClearRemovesOne
