CONSTANTS
  Chars = {10, 97, 98}
  Newline = 10
  BuiltinClasses <- MCBuiltin
  WordClass = 1
  OneByteMax = 255
  TwoByteMax = 65535
  MaxText = 3
  SharedFlags = FALSE
  Texts <- MCTexts
  Regexes <- MCRegexes
SPECIFICATION OnceSpec
CHECK_DEADLOCK FALSE
INVARIANTS
  DistinctThreads
  LeftmostFirst
  MatchIsReference
PROPERTIES
  MatchOnlyImproves
  CallsReturn
