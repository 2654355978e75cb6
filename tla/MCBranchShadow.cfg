CONSTANTS
  ByteBits = 2
  NrRegisters = 3
  TextSegStart = 8
  AddressSpaceEnd = 60
  DataSegStart = 64
  StackSegEnd = 73
  BodyLength = 3
  MaxSteps = 6
  MaxCycles = 30
  Programs <- BranchShadowPrograms
SPECIFICATION FairSpec
PROPERTY TakenBranchRedirects
CHECK_DEADLOCK FALSE
