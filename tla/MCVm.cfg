CONSTANTS
  Chars = {10, 97, 98}
  Newline = 10
  BuiltinClasses <- MCBuiltin
  WordClass = 1
  OneByteMax = 255
  TwoByteMax = 65535
  b1 = b1
  b2 = b2
  NoBuffer = NoBuffer
  FlagsPerWord = 2
  MaxWords = 60
  Buffers <- MCBuffers
  Texts <- MCTexts
  Regexes <- MCRegexes
SPECIFICATION FairSpec
INVARIANTS
  BufferOwned
  BlocksDisjoint
  OneOwner
  FreeIsFree
  ListIntact
  CodeSafe
  NoBlockLost
PROPERTIES
  ImplementsPike
  CallsReturn
