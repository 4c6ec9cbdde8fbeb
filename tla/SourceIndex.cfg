SPECIFICATION Spec
CONSTANTS
  Paths = {"a.go", "b.go"}
  Edited = {"a.go"}
  Calls = {1, 2}
  MaxTime = 3
INVARIANTS
  HitIsCurrent
  ResultIsFresh
PROPERTIES
  CallsEnd
CHECK_DEADLOCK FALSE
