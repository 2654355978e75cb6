CONSTANTS
  ByteBits = 1
  NrRegisters = 3
SPECIFICATION Spec
INVARIANTS ComputesMIPSWord BranchComparesWords OnlySumsFail
CHECK_DEADLOCK FALSE
