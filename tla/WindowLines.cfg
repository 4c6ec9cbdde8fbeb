SPECIFICATION Spec
CONSTANTS
  Kinds = {"word", "op", "deref", "nl", "crnl", "line", "mark", "block", "blockStar", "blockText", "raw"}
  MaxTokens = 5
  Heights = {5, 6, 7, 8, 9}
INVARIANTS
  CurrentLineIsShown
CHECK_DEADLOCK FALSE
