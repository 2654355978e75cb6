CONSTANTS
  ByteBits = 1
  DataSegStart = 8
  StackSegEnd = 61
  InitialBufSize = 10
  Accesses = {}
  StoredValues <- MCValues
SPECIFICATION UseSpec
INVARIANT LoadsFromBuffers
CHECK_DEADLOCK FALSE
