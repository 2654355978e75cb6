---------------------------- MODULE Instructions ----------------------------
(***************************************************************************)
(* The instructions of the simulated MIPS program (instructions.h and      *)
(* instructions.c): their types, categories and register operands.         *)
(***************************************************************************)
EXTENDS Integers, Sequences

CONSTANT NrRegisters   \* 32 in the code

ASSUME RegistersAssumption == NrRegisters \in Nat \ {0}

\* The value of an operand field that an instruction does not use, and the
\* line number of an instruction that comes from no source line.
DONT_CARE == -1

ZERO == 0              \* the register that always reads as 0
RegNr == 0 .. NrRegisters - 1

Loads  == {"LW", "LH", "LHU", "LB", "LBU"}
Stores == {"SW", "SH", "SB"}
Branches == {"BEQ", "BNE"}
RegisterOps == {"ADD", "SUB", "AND", "OR", "NOR", "SLT", "SLTU"}
ImmediateOps == {"ADDI", "ANDI", "ORI", "SLL", "SRL", "SLTI", "SLTIU"}
Pseudo == {"MOV", "LI", "INCR", "DECR"}

InstrType ==
  Loads \cup Stores \cup Branches \cup RegisterOps \cup ImmediateOps \cup Pseudo
    \cup {"NOP", "LUI", "J", "SYSCALL"}

Instr ==
  [type : InstrType, line_nr : Int, rd : RegNr \cup {DONT_CARE},
   rs : RegNr \cup {DONT_CARE}, rt : RegNr \cup {DONT_CARE}, imm : Int]

-----------------------------------------------------------------------------
(* The constructors.  ValidateRegisterOperand holds of every operand that  *)
(* is a member of RegNr or DONT_CARE.                                      *)

CreateInstr_Empty(type, line) ==
  [type |-> type, line_nr |-> line, rd |-> DONT_CARE, rs |-> DONT_CARE,
   rt |-> DONT_CARE, imm |-> DONT_CARE]

CreateInstr_RRR(type, rd, rs, rt, line) ==
  [CreateInstr_Empty(type, line) EXCEPT !.rd = rd, !.rs = rs, !.rt = rt]

CreateInstr_RR(type, rd, rs, line) ==
  [CreateInstr_Empty(type, line) EXCEPT !.rd = rd, !.rs = rs]

CreateInstr_RRI(type, rs, rt, imm, line) ==
  [CreateInstr_Empty(type, line) EXCEPT !.rs = rs, !.rt = rt, !.imm = imm]

CreateInstr_RI(type, rt, imm, line) ==
  [CreateInstr_Empty(type, line) EXCEPT !.rt = rt, !.imm = imm]

CreateInstr_I(type, imm, line) ==
  [CreateInstr_Empty(type, line) EXCEPT !.imm = imm]

\* The bubble: an instruction that was generated, not read from the program.
Bubble == CreateInstr_Empty("NOP", DONT_CARE)

-----------------------------------------------------------------------------
GetInstrCategory(type) ==
  CASE type \in {"ADD", "SUB", "ADDI", "ANDI", "ORI", "AND", "OR", "NOR", "SLL", "SRL"}
         -> "ARITHMETIC_LOGICAL"
    [] type \in Loads \cup {"LUI"} -> "LOAD"
    [] type \in Stores -> "STORE"
    [] type \in Branches \cup {"SLT", "SLTU", "SLTI", "SLTIU", "J"} -> "PROGRAM_CONTROL"
    [] OTHER -> "OTHER"

\* The register the instruction writes, or DONT_CARE.
GetRegWrittenByInstr(instr) ==
  CASE instr.type \in RegisterOps \cup {"MOV"} -> instr.rd
    [] instr.type \in ImmediateOps \cup Loads \cup {"LUI", "LI", "INCR", "DECR"} -> instr.rt
    [] OTHER -> DONT_CARE

\* The registers the instruction reads in its rs and its rt position.
GetRegsReadByInstr(instr) ==
  CASE instr.type \in RegisterOps \cup Stores \cup Branches
         -> [rs |-> instr.rs, rt |-> instr.rt]
    [] instr.type \in ImmediateOps \cup Loads -> [rs |-> instr.rs, rt |-> DONT_CARE]
    [] instr.type \in {"INCR", "DECR"} -> [rs |-> instr.rt, rt |-> DONT_CARE]
    [] OTHER -> [rs |-> DONT_CARE, rt |-> DONT_CARE]

-----------------------------------------------------------------------------
(* What the parser and the linker leave of a program.                      *)

\* An instruction of the type begins with the token: it says what operands follow.
WrittenAs(type, token) ==
  \/ type \in RegisterOps /\ token = "RRR_INSTR"
  \/ type = "MOV" /\ token = "RR_INSTR"
  \/ type \in ImmediateOps \cup Branches /\ token = "RRI_INSTR"
  \/ type \in Loads \cup Stores /\ token = "RIR_INSTR"
  \/ type \in {"LUI", "LI", "INCR", "DECR"} /\ token = "RI_INSTR"
  \/ type = "J" /\ token = "I_INSTR"
  \/ type \in {"NOP", "SYSCALL"} /\ token = "EMPTY_INSTR"

\* The instruction stands on a line of the source; a bubble does not.
FromProgram(i) == i.line_nr # DONT_CARE

\* The instruction has the registers of its format.
HasOperands(i) ==
  /\ i.type \in RegisterOps => {i.rd, i.rs, i.rt} \subseteq RegNr
  /\ i.type \in ImmediateOps \cup Loads \cup Stores \cup Branches
       => {i.rs, i.rt} \subseteq RegNr
  /\ i.type = "LUI" => i.rt \in RegNr

\* Every instruction is the only one of its line and has its registers.
Assembled(code) ==
  /\ \A k \in DOMAIN code : FromProgram(code[k]) /\ HasOperands(code[k])
  /\ \A j, k \in DOMAIN code : code[j].line_nr = code[k].line_nr => j = k
=============================================================================
