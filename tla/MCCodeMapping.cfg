SPECIFICATION Spec
CONSTANTS
  PageSize = 3
  Refusals = {"next", "code", "uses", "values", "protect"}
  Pages = 8
  Lengths = {1, 3}
  MaxSize = 5
  MaxRegexes = 2
INVARIANTS
  MemoryAccounted
  CodeKept
CHECK_DEADLOCK FALSE
