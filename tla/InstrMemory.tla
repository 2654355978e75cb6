---------------------------- MODULE InstrMemory ----------------------------
(***************************************************************************)
(* Reading the instruction memory (instr_memory.c).  The linked program is *)
(* a sequence of instructions, one every four bytes from TextSegStart on;  *)
(* the rest of the address space reads as bubbles.                         *)
(***************************************************************************)
EXTENDS Instructions

CONSTANTS
  TextSegStart,      \* TEXT_SEG_START, 0x00400000 in the code
  AddressSpaceEnd    \* 2^32 in the code

ASSUME TextAssumption ==
  /\ TextSegStart \in Nat
  /\ TextSegStart % 4 = 0
  /\ AddressSpaceEnd \in Nat

\* ValidateAddress: what an instruction fetch needs of its address.
ValidInstrAddress(address) ==
  /\ TextSegStart <= address
  /\ address < AddressSpaceEnd
  /\ address % 4 = 0

\* The place of an address in the program.
InstrIndex(address) == (address - TextSegStart) \div 4 + 1

ReadFromInstrMemory(instrs, address) ==
  IF InstrIndex(address) \in DOMAIN instrs THEN instrs[InstrIndex(address)] ELSE Bubble
=============================================================================
