CONSTANTS
  ByteBits = 2
  NrRegisters = 3
  TextSegStart = 8
  AddressSpaceEnd = 60
  DataSegStart = 64
  StackSegEnd = 73
  BodyLength = 4
  MaxSteps = 4
  MaxCycles = 22
  Programs <- ResolvedPrograms
SPECIFICATION Spec
INVARIANT OperandsFresh
PROPERTY ImplementsSequential
CHECK_DEADLOCK FALSE
