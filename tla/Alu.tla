-------------------------------- MODULE Alu --------------------------------
(***************************************************************************)
(* The ALU of the Ex stage: the switch of ComputeNextMemStage (update.c)   *)
(* and the range check that follows it.                                    *)
(***************************************************************************)
EXTENDS MachineWords, Instructions

\* The pseudo instructions have no case in the switch: reaching the Ex stage
\* they end the simulation with an error.
Unhandled(type) == type \in Pseudo

\* Mutant: the bits shifted out are kept.
MutantShiftLeft(v, n) == v * 2^ShiftCount(n)

\* Mutant: the operand is not made unsigned.
MutantShiftRight(v, n) ==
  IF n = 0 THEN DONT_CARE ELSE v \div 2^ShiftCount(n)

\* Shifts left and keeps 32 bits; a negative operand whose bit 31 is set
\* after the shift stays negative.
ShiftLeft(v, n) ==
  LET low == IF ShiftCount(n) >= WordBits THEN 0 ELSE MaskWord(v * 2^ShiftCount(n))
  IN  IF v < 0 /\ low >= WordSize \div 2 THEN low - WordSize ELSE low

\* A shift by nothing leaves the result at the DONT_CARE that
\* ClearMemStage stored.
ShiftRight(v, n) ==
  IF n = 0 THEN DONT_CARE
  ELSE IF ShiftCount(n) >= WordBits THEN 0
  ELSE MaskWord(v) \div 2^ShiftCount(n)

Truth(b) == IF b THEN 1 ELSE 0

\* next_mem->alu_result, from the operands the Ex stage holds.
AluResult(type, rs_value, rt_value, imm_value) ==
  CASE type = "ADD" -> rs_value + rt_value
    [] type \in {"ADDI"} \cup Loads \cup Stores -> rs_value + imm_value
    [] type \in {"SUB"} \cup Branches -> rs_value - rt_value
    [] type = "AND"   -> BitAnd(rs_value, rt_value)
    [] type = "ANDI"  -> BitAnd(rs_value, imm_value)
    [] type = "OR"    -> BitOr(rs_value, rt_value)
    [] type = "ORI"   -> BitOr(rs_value, imm_value)
    [] type = "NOR"   -> BitNor(rs_value, rt_value)
    [] type = "SLL"   -> ShiftLeft(rs_value, imm_value)
    [] type = "SRL"   -> ShiftRight(rs_value, imm_value)
    [] type = "SLT"   -> Truth(rs_value < rt_value)
    [] type = "SLTI"  -> Truth(rs_value < imm_value)
    [] type = "SLTU"  -> Truth(MaskWord(rs_value) < MaskWord(rt_value))
    [] type = "SLTIU" -> Truth(MaskWord(rs_value) < MaskWord(imm_value))
    [] type = "LUI"   -> imm_value * HalfSize
    [] OTHER -> DONT_CARE

\* Mutant: no check for underflow.
MutantAluFails(type, rs_value, rt_value, imm_value) ==
  \/ Unhandled(type)
  \/ AluResult(type, rs_value, rt_value, imm_value) >= WordSize

\* The check after the switch: the result must fit a register.
AluFails(type, rs_value, rt_value, imm_value) ==
  \/ Unhandled(type)
  \/ ~FitsRegister(AluResult(type, rs_value, rt_value, imm_value))

\* Mutant: != for ==.
MutantZeroFlag(alu_result) == Truth(alu_result # 0)

\* The ALU's zero output, as the C int it is stored in.
ZeroFlag(alu_result) == Truth(alu_result = 0)
=============================================================================
