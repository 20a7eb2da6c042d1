CONSTANTS
  Chars = {10, 97, 98}
  Newline = 10
  BuiltinClasses <- MCBuiltin
  WordClass = 1
  OneByteMax = 255
  TwoByteMax = 65535
  b1 = b1
  b2 = b2
  NoBuffer = NoBuffer
  RegisterFlags = 8
  MaxWords = 60
  Buffers <- MCBuffers
  Texts <- MCTexts
  Regexes <- FewAndMany
SPECIFICATION FairSpec
INVARIANTS
  BufferOwned
  BlocksDisjoint
  StatesOwned
  MemoryBounded
PROPERTIES
  ImplementsPike
  CallsReturn
