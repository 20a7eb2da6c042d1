SPECIFICATION Spec
CONSTANTS
  Instructions <- EachForm
  Registers <- SomeRegisters
  Memories <- SomeMemories
  Immediates <- SomeImmediates
INVARIANT
  Decodes
