CONSTANTS
  ByteBits = 3
  NrRegisters = 22
  TextSegStart = 64
  AddressSpaceEnd = 1024
  DataSegStart = 640
  StackSegEnd = 656
  MaxCycles = 90
  MaxElements = 10
  Programs <- TestPrograms
SPECIFICATION TraceSpec
INVARIANTS FollowsTrace EndsWithTraceRegisters
CHECK_DEADLOCK FALSE
