CONSTANTS
  Tokens <- MCTokens
  MaxTokens = 6
  MaxClasses = 2
  StackCapacity = 2
  MinAllocation = 2
  Failing = {"regex", "node", "operators", "classes", "bytecode", "trees",
             "concatenation"}
SPECIFICATION Spec
CHECK_DEADLOCK FALSE
INVARIANTS
  StacksConsistent
  BlocksAccounted
  ParsesGrammar
