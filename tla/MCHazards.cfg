CONSTANTS
  ByteBits = 2
  NrRegisters = 3
  TextSegStart = 8
  AddressSpaceEnd = 160
  DataSegStart = 64
  StackSegEnd = 73
  BodyLength = 3
  MaxSteps = 10
  MaxCycles = 45
  Programs <- AllPrograms
SPECIFICATION FairSpec
INVARIANTS TypeOK WriteBackNeverFails LoadUseInterlock JumpShadowEmpty FillBound CPIBound CompletesInOrder
PROPERTY FinishesAsSequential
CHECK_DEADLOCK FALSE
