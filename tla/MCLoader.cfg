CONSTANTS
  ByteBits = 2
  DataSegStart = 16
  StackSegEnd = 24
  TextSegStart = 4
  AddressSpaceEnd = 64
  NrRegisters = 3
  MaxElements = 2
  InitialInstrBufSize = 1
  MaxErrors = 12
  Sources <- AllSources
SPECIFICATION FairSpec
INVARIANTS TypeOK TablesConsistent HoldsLinkedProgram LoadsAssembled AcceptsTheLanguage LoadsTheProgram LoadsWhatLinks ReportsEachWrongLine NamesExpectedTokens
PROPERTY EndsUnlessDerailed
CHECK_DEADLOCK FALSE
