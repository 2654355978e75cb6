CONSTANTS
  ByteBits = 2
  DataSegStart = 16
  StackSegEnd = 24
  TextSegStart = 4
  AddressSpaceEnd = 64
  NrRegisters = 3
  MaxElements = 2
  InitialInstrBufSize = 1
  MaxErrors = 12
  Sources <- DerailedSources
SPECIFICATION FairSpec
PROPERTY ParsingReturns
CHECK_DEADLOCK FALSE
