-------------------------- MODULE PipelineHazards --------------------------
(***************************************************************************)
(* What HandleHazards resolves: the programs without a hazard it misses,   *)
(* and the properties that stalling, flushing and forwarding are for.      *)
(***************************************************************************)
EXTENDS Pipeline

-----------------------------------------------------------------------------
(* The programs whose hazards are resolved.                                *)

Reads(i, r) == r # DONT_CARE /\ r \in {GetRegsReadByInstr(i).rs, GetRegsReadByInstr(i).rt}

\* No instruction names register zero as its destination: a result for it
\* would be forwarded, although the register file ignores it.
ZeroUnwritten(code) == \A k \in DOMAIN code : GetRegWrittenByInstr(code[k]) # ZERO

\* No instruction reads one register twice, except zero: only one of the two
\* operands would receive a forwarded result.
OperandsDiffer(code) ==
  \A k \in DOMAIN code :
    GetRegsReadByInstr(code[k]).rs = GetRegsReadByInstr(code[k]).rt
      => GetRegsReadByInstr(code[k]).rs \in {DONT_CARE, ZERO}

\* The second instruction after a branch is not a jump: it would redirect the
\* fetch in the cycle in which the branch does.
NoJumpInShadow(code) ==
  \A k \in DOMAIN code :
    code[k].type \in Branches /\ k + 2 \in DOMAIN code => code[k + 2].type # "J"

\* The two instructions after a branch are not a load and a use of it: the
\* stall would undo the branch.
NoLoadUseInShadow(code) ==
  \A k \in DOMAIN code :
    /\ code[k].type \in Branches
    /\ k + 2 \in DOMAIN code
    /\ GetInstrCategory(code[k + 1].type) = "LOAD"
    => ~Reads(code[k + 2], code[k + 1].rt)

\* No store follows a syscall: it would be done in the last cycle.
NoStoreAfterSyscall(code) ==
  \A k \in DOMAIN code :
    code[k].type = "SYSCALL" /\ k + 1 \in DOMAIN code => code[k + 1].type \notin Stores

HazardsResolved(code) ==
  /\ ZeroUnwritten(code)
  /\ OperandsDiffer(code)
  /\ NoJumpInShadow(code)
  /\ NoLoadUseInShadow(code)
  /\ NoStoreAfterSyscall(code)

\* Control stays in the program until a syscall ends it, and every instruction
\* counts as retired.
SelfContained(code) ==
  /\ code # <<>> /\ code[Len(code)].type = "SYSCALL"
  /\ \A k \in DOMAIN code :
       /\ code[k].type # "NOP"
       /\ code[k].type \in Branches \cup {"J"} => InstrIndex(code[k].imm) \in DOMAIN code

-----------------------------------------------------------------------------
(* The properties of every program.                                        *)

\* The state is well formed, and every register, operand, ALU result and
\* result waiting in WB is a number a register can hold: the range checks of
\* ComputeNextMemStage and the loads leave nothing else (update.c).
TypeOK ==
  /\ instrs \in Seq(Instr)
  /\ mem \in [MemoryAddresses -> Byte]
  /\ contents \in [RegNr -> RegValue]
  /\ if_stage \in [pc : Int, instr : Instr]
  /\ id_stage \in [instr : Instr]
  /\ ex_stage \in [instr : Instr, rs_value : RegValue, rt_value : RegValue,
                   imm_value : Int]
  /\ mem_stage \in [instr : Instr, rt_value : RegValue, alu_result : RegValue,
                    zero : {0, 1}, branch_target : Int]
  /\ wb_stage \in [instr : Instr, result : RegValue]
  /\ nr_cycles \in 0 .. MaxCycles
  /\ nr_instr_retired \in Nat
  /\ status \in {"running", "finished"} \cup Errors

\* WriteToRegisterFile never refuses a value (register_file.c): whatever
\* reached WB was checked two cycles before, or came from memory.
WriteBackNeverFails == status # "register_error"

\* No instruction computes with a register that a load is still reading:
\* the load-use stall keeps them two cycles apart (update.c, HandleHazards).
LoadUseInterlock ==
  GetInstrCategory(mem_stage.instr.type) = "LOAD"
    => \A r \in RegNr : Writes(mem_stage.instr, r) => ~Reads(ex_stage.instr, r)

\* Behind a jump in Ex there is a bubble: the instruction fetched behind it was
\* cancelled in the cycle in which the jump left ID (update.c, ComputeNextIDStage).
JumpShadowEmpty == ex_stage.instr.type = "J" => id_stage = ClearedID

\* Filling the pipeline takes four cycles in which nothing retires, and no
\* cycle retires two instructions, so the CPI that GetCPI reports is more
\* than one; a program that finished retired at least its syscall, so GetCPI
\* does not divide by zero (pipeline.c).
FillBound ==
  /\ nr_instr_retired = 0 \/ nr_instr_retired + 4 <= nr_cycles
  /\ status = "finished" => nr_instr_retired > 0

\* Nothing costs more than a taken branch: after the four cycles that fill the
\* pipeline, an instruction retires in every four, until the program ends, whatever
\* its hazards are (update.c, HandleHazards; pipeline.c, GetCPI).  A program that
\* control leaves, or with nops in it, may run for any time and retire nothing.
CPIBound == SelfContained(instrs) => nr_cycles <= 4 * nr_instr_retired + 4

-----------------------------------------------------------------------------
(* The property of forwarding.                                             *)

\* What the instruction in Ex has to see in a register: the result of the
\* one in Mem, else that of the one in WB, else the register itself.
FreshValue(r) ==
  IF Writes(mem_stage.instr, r) THEN ComputedWB.result
  ELSE ReadRegister(UpdatedRegisters, r)

\* Both operands in Ex are what the registers hold once the instructions
\* ahead are complete: the forwarding chose the youngest result, for rs and
\* for rt (update.c, HandleHazards; pipeline.h, ExStage).  The pseudo
\* instructions are left out: Ex has no case for them.
OperandsFresh ==
  LET read == GetRegsReadByInstr(ex_stage.instr)
  IN  ex_stage.instr.type \notin Pseudo
        => /\ read.rs # DONT_CARE => ex_stage.rs_value = FreshValue(read.rs)
           /\ read.rt # DONT_CARE => ex_stage.rt_value = FreshValue(read.rt)

-----------------------------------------------------------------------------
(* What comments say of operands, of taken branches and of stores, and the *)
(* code does not keep to in every case.                                    *)

\* rs_value is "the value read from the register given by rs in the ID stage"
\* and rt_value the same for rt (pipeline.h, ExStage): if both name one
\* register they are the same value.
OneRegisterOneValue ==
  LET read == GetRegsReadByInstr(ex_stage.instr)
  IN  read.rs = read.rt /\ read.rs # DONT_CARE => ex_stage.rs_value = ex_stage.rt_value

\* "If there is a branch instruction in the Mem stage, and the branch
\* condition is true, select the branch target as the next PC" (update.c,
\* ComputeNextIFStage): whatever the instructions behind the branch are, which
\* are not to be executed, and whatever else happens in that cycle.
TakenBranchRedirects ==
  [][BranchTaken => if_stage'.pc = mem_stage.branch_target]_vars

\* WriteToDataMemory is given the value and "how much of the value to write"
\* (data_memory.h): a store takes the low bytes of any value and none is
\* refused.
StoresTakeLowBytes == status # "store_error"
=============================================================================
