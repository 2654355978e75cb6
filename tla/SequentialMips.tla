--------------------------- MODULE SequentialMips ---------------------------
(***************************************************************************)
(* What the pipeline promises: the MIPS machine that executes one          *)
(* instruction at a time, each seeing everything its predecessors did.     *)
(* The ALU and the byte memory are those of the simulator; which registers *)
(* an instruction reads and writes, and where control goes next, is stated *)
(* here from the instruction formats and not from the pipeline's helpers.  *)
(***************************************************************************)
EXTENDS Alu, InstrMemory, ByteMemory

\* The programs that may be run: records of the linked instructions, the
\* address of __start, and the data memory after parsing.
CONSTANT Programs

VARIABLES
  instrs,     \* the program, which never changes
  pc,         \* address of the next instruction, DONT_CARE once halted
  contents,   \* the register file
  mem,        \* the data memory
  mode,       \* "running" or "halted"
  retired     \* instructions executed that are not nops

seqVars == <<instrs, pc, contents, mem, mode, retired>>

-----------------------------------------------------------------------------
\* The address past the last instruction.  Nothing but nops follows it, so
\* a program counter beyond it is as good as this one.
ProgramEnd(code) == TextSegStart + 4 * Len(code)

Clip(code, address) == IF address > ProgramEnd(code) THEN ProgramEnd(code) ELSE address

Register(c, r) == IF r \in {ZERO, DONT_CARE} THEN 0 ELSE c[r]

\* How many bytes a load or a store moves.
AccessSize(type) ==
  CASE type \in {"LW", "SW"} -> 4
    [] type \in {"LH", "LHU", "SH"} -> 2
    [] type \in {"LB", "LBU", "SB"} -> 1

\* The register of the result in the instruction's format; ZERO for none.
Destination(i) ==
  CASE i.type \in RegisterOps -> i.rd
    [] i.type \in ImmediateOps \cup Loads \cup {"LUI"} -> i.rt
    [] OTHER -> ZERO

\* The number the ALU computes for an instruction in a machine state m.
Computed(i, m) ==
  AluResult(i.type, Register(m.contents, i.rs), Register(m.contents, i.rt), i.imm)

\* The instruction cannot complete: an unknown instruction, a result that
\* fits no register, a bad data address, or a value no store accepts.
Traps(i, m) ==
  \/ i.type \in Pseudo
  \/ ~FitsRegister(Computed(i, m))
  \/ /\ i.type \in Loads \cup Stores
     /\ ~ValidDataAddress(Computed(i, m), AccessSize(i.type))
  \/ /\ i.type \in Stores
     /\ ~WriteFits(Register(m.contents, i.rt), AccessSize(i.type))

Taken(i, m) ==
  \/ i.type = "BEQ" /\ Register(m.contents, i.rs) = Register(m.contents, i.rt)
  \/ i.type = "BNE" /\ Register(m.contents, i.rs) # Register(m.contents, i.rt)

Successor(i, m) == IF i.type = "J" \/ Taken(i, m) THEN i.imm ELSE m.pc + 4

Result(i, m) ==
  IF i.type \in Loads
    THEN ReadFromDataMemory(m.mem, Computed(i, m), AccessSize(i.type),
                            i.type \in {"LHU", "LBU"})
    ELSE Computed(i, m)

\* The machine after executing instruction i, which does not trap.
Executed(code, i, m) ==
  [pc       |-> IF i.type = "SYSCALL" THEN DONT_CARE ELSE Clip(code, Successor(i, m)),
   contents |-> IF Destination(i) = ZERO THEN m.contents
                ELSE [m.contents EXCEPT ![Destination(i)] = Result(i, m)],
   mem      |-> IF i.type \in Stores
                  THEN WriteToDataMemory(m.mem, Computed(i, m),
                                         Register(m.contents, i.rt), AccessSize(i.type))
                  ELSE m.mem,
   mode     |-> IF i.type = "SYSCALL" THEN "halted" ELSE m.mode,
   retired  |-> m.retired + Truth(i.type # "NOP")]

-----------------------------------------------------------------------------
Machine ==
  [pc |-> pc, contents |-> contents, mem |-> mem, mode |-> mode, retired |-> retired]

\* The machine starts at the entry point, or past the program if that lies
\* beyond it.
AtEntry ==
  \/ /\ pc <= ProgramEnd(instrs)
     /\ [instrs |-> instrs, start |-> pc, data |-> mem] \in Programs
  \/ /\ pc = ProgramEnd(instrs)
     /\ \E p \in Programs : p.instrs = instrs /\ p.data = mem /\ p.start > pc

Init ==
  /\ AtEntry
  /\ contents = [r \in RegNr |-> 0]
  /\ mode = "running"
  /\ retired = 0

\* One instruction.
Execute ==
  LET i == ReadFromInstrMemory(instrs, pc)
      m == Executed(instrs, i, Machine)
  IN  /\ mode = "running"
      /\ InstrIndex(pc) \in DOMAIN instrs
      /\ ~Traps(i, Machine)
      /\ pc' = m.pc
      /\ contents' = m.contents
      /\ mem' = m.mem
      /\ mode' = m.mode
      /\ retired' = m.retired
      /\ UNCHANGED instrs

Next == Execute

Spec == Init /\ [][Next]_seqVars
=============================================================================
