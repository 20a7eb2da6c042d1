CONSTANTS
  Tokens <- MCTokens
  MaxTokens = 4
  MaxClasses = 2
  StackCapacity = 2
  MinAllocation = 2
  Failing = {"concatenation"}
SPECIFICATION Spec
CHECK_DEADLOCK FALSE
INVARIANTS
  FailuresAreHygienic
