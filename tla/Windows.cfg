SPECIFICATION Spec
CONSTANTS
  Kinds = {"word", "op", "deref", "nl", "crnl", "line", "mark", "block", "blockStar", "blockText", "blockCR", "raw", "rawCR"}
  MaxTokens = 5
  Heights = {5, 6, 7, 8, 9}
INVARIANTS
  WindowShowsLine
  WindowFitsScreen
  MarksMeanNextCode
CHECK_DEADLOCK FALSE
