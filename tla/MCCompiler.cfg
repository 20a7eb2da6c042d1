CONSTANTS
  Chars = {10, 97, 98}
  Newline = 10
  BuiltinClasses <- MCBuiltin
  WordClass = 1
  OneByteMax = 3
  TwoByteMax = 6
  Patterns <- MCTreesCompiled
  StackCapacity = 5
  SizeLimit = 65536
  MaxGroups = 2
SPECIFICATION Spec
INVARIANTS
  BlocksOwned
  FitsCapacity
  CompilesTree
  EmitsWellFormed
  EmitsFlaggedJoins
