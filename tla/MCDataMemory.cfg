CONSTANTS
  ByteBits = 1
  DataSegStart = 8
  StackSegEnd = 49
  InitialBufSize = 6
  Accesses <- MCAccesses
  StoredValues <- MCValues
SPECIFICATION BoundedSpec
INVARIANT TypeOK
PROPERTY ImplementsMemory
CHECK_DEADLOCK FALSE
