CONSTANTS
  Patterns <- MCPatterns
  Code <- MCCode
  Garbage = {0, 99}
  SizeMax = 31
SPECIFICATION Spec
CHECK_DEADLOCK FALSE
INVARIANTS
  RangeHasAStart
  ClassesCanonical
  LexIsReference
PROPERTY
  LexEnds
