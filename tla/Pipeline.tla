------------------------------ MODULE Pipeline ------------------------------
(***************************************************************************)
(* The five-stage pipeline (pipeline.c, update.c).  Each turn of the loop  *)
(* of RunProgram is one clock cycle and one step here: the stages' next    *)
(* states are computed from the current ones, HandleHazards corrects them, *)
(* and all are stored at once.  An error ends the process in the middle of *)
(* the cycle.                                                              *)
(***************************************************************************)
EXTENDS Alu, InstrMemory, ByteMemory

CONSTANTS
  Programs,    \* what InitMemory can produce: [instrs, start, data] records
  MaxCycles    \* bound on nr_cycles, a counter without one in the code

ASSUME MaxCyclesAssumption == MaxCycles \in Nat

\* The parser and the linker build well formed instructions and bytes.
ASSUME ProgramsAssumption ==
  Programs \subseteq [instrs : Seq(Instr), start : Int, data : [MemoryAddresses -> Byte]]

VARIABLES
  instrs,      \* the instruction memory; written only before the program runs
  mem,         \* the data memory
  contents,    \* the register file
  if_stage, id_stage, ex_stage, mem_stage, wb_stage,
  nr_cycles, nr_instr_retired,
  status       \* "running", "finished" or the error that ended the process

vars == <<instrs, mem, contents, if_stage, id_stage, ex_stage, mem_stage, wb_stage,
          nr_cycles, nr_instr_retired, status>>

-----------------------------------------------------------------------------
(* The contents ClearIDStage, ClearExStage, ... leave in a stage.          *)

ClearedID == [instr |-> Bubble]

ClearedEx ==
  [instr |-> Bubble, rs_value |-> DONT_CARE, rt_value |-> DONT_CARE,
   imm_value |-> DONT_CARE]

ClearedMem ==
  [instr |-> Bubble, rt_value |-> DONT_CARE, alu_result |-> DONT_CARE, zero |-> 0,
   branch_target |-> DONT_CARE]

ClearedWB == [instr |-> Bubble, result |-> DONT_CARE]

-----------------------------------------------------------------------------
(* The register file.  It is written in the first half of the cycle, so    *)
(* the instruction in ID reads what the one in WB writes.                  *)

ReadRegister(c, r) == IF r = ZERO THEN 0 ELSE c[r]

WriteToRegisterFile(c, r, value) == IF r = ZERO THEN c ELSE [c EXCEPT ![r] = value]

WrittenBack == GetRegWrittenByInstr(wb_stage.instr)

\* UpdateRegisterFile.
UpdatedRegisters ==
  IF WrittenBack = DONT_CARE THEN contents
  ELSE WriteToRegisterFile(contents, WrittenBack, wb_stage.result)

-----------------------------------------------------------------------------
(* The next state each stage would have without hazards.                   *)

\* The branch in the Mem stage is to be taken.
BranchTaken ==
  \/ mem_stage.instr.type = "BEQ" /\ mem_stage.zero # 0
  \/ mem_stage.instr.type = "BNE" /\ mem_stage.zero = 0

NextPC ==
  IF id_stage.instr.type = "J" THEN id_stage.instr.imm
  ELSE IF BranchTaken THEN mem_stage.branch_target
  ELSE if_stage.pc + 4

ComputedIF == [pc |-> NextPC, instr |-> ReadFromInstrMemory(instrs, NextPC)]

\* Mutant: the instruction behind a jump is not cancelled.
MutantComputedID == [instr |-> ReadFromInstrMemory(instrs, if_stage.pc)]

ComputedID ==
  IF id_stage.instr.type = "J" THEN ClearedID
  ELSE [instr |-> ReadFromInstrMemory(instrs, if_stage.pc)]

\* Mutant: the registers are read before WB writes them.
MutantOperandValue(r) == IF r = DONT_CARE THEN DONT_CARE ELSE ReadRegister(contents, r)

OperandValue(r) == IF r = DONT_CARE THEN DONT_CARE ELSE ReadRegister(UpdatedRegisters, r)

ComputedEx ==
  [instr     |-> id_stage.instr,
   rs_value  |-> OperandValue(id_stage.instr.rs),
   rt_value  |-> OperandValue(id_stage.instr.rt),
   imm_value |-> id_stage.instr.imm]

ExAlu == AluResult(ex_stage.instr.type, ex_stage.rs_value, ex_stage.rt_value,
                   ex_stage.imm_value)

ComputedMem ==
  [instr         |-> ex_stage.instr,
   rt_value      |-> ex_stage.rt_value,
   alu_result    |-> ExAlu,
   zero          |-> ZeroFlag(ExAlu),
   branch_target |-> IF ex_stage.instr.type \in Branches THEN ex_stage.imm_value
                     ELSE DONT_CARE]

\* How many bytes the load or store in the Mem stage moves.
MemBytes ==
  CASE mem_stage.instr.type \in {"LW", "SW"} -> 4
    [] mem_stage.instr.type \in {"LH", "LHU", "SH"} -> 2
    [] mem_stage.instr.type \in {"LB", "LBU", "SB"} -> 1

\* Loads sign-extend unless their name ends in U.
LoadsUnsigned == mem_stage.instr.type \in {"LHU", "LBU"}

LoadedValue == ReadFromDataMemory(mem, mem_stage.alu_result, MemBytes, LoadsUnsigned)

ComputedWB ==
  [instr  |-> mem_stage.instr,
   result |-> CASE mem_stage.instr.type \in Loads -> LoadedValue
                [] mem_stage.instr.type \in Stores -> DONT_CARE
                [] OTHER -> mem_stage.alu_result]

\* The data memory once the instruction in Mem has accessed it.
UpdatedMemory ==
  IF mem_stage.instr.type \in Stores
    THEN WriteToDataMemory(mem, mem_stage.alu_result, mem_stage.rt_value, MemBytes)
    ELSE mem

-----------------------------------------------------------------------------
(* HandleHazards.                                                          *)

ReadByID == GetRegsReadByInstr(id_stage.instr)

Writes(instr, r) == r # DONT_CARE /\ GetRegWrittenByInstr(instr) = r

\* The instruction in Ex writes a register that the one in ID reads.
ExConflict == Writes(ex_stage.instr, ReadByID.rs) \/ Writes(ex_stage.instr, ReadByID.rt)

\* Mutant: only the rs operand is compared.
MutantLoadUse ==
  /\ Writes(ex_stage.instr, ReadByID.rs)
  /\ GetInstrCategory(ex_stage.instr.type) = "LOAD"

LoadUse == ExConflict /\ GetInstrCategory(ex_stage.instr.type) = "LOAD"

\* Mutant: the flush leaves the instruction that goes to Ex.
MutantFlushedEx == ComputedEx

\* The flush after a taken branch, before any value is forwarded.
FlushedID  == IF BranchTaken THEN ClearedID ELSE ComputedID
FlushedEx  == IF BranchTaken THEN ClearedEx ELSE ComputedEx
FlushedMem == IF BranchTaken THEN ClearedMem ELSE ComputedMem

\* Forwarding from Mem supplies one operand, rs before rt.
ForwardedFromMem ==
  IF Writes(mem_stage.instr, ReadByID.rs)
    THEN [FlushedEx EXCEPT !.rs_value = ComputedWB.result]
  ELSE IF Writes(mem_stage.instr, ReadByID.rt)
    THEN [FlushedEx EXCEPT !.rt_value = ComputedWB.result]
  ELSE FlushedEx

\* Mutant: a result from Mem excludes one from Ex.
MutantForwardedFromEx ==
  IF ForwardedFromMem # FlushedEx THEN ForwardedFromMem
  ELSE IF Writes(ex_stage.instr, ReadByID.rs)
    THEN [FlushedEx EXCEPT !.rs_value = FlushedMem.alu_result]
  ELSE IF ExConflict THEN [FlushedEx EXCEPT !.rt_value = FlushedMem.alu_result]
  ELSE FlushedEx

\* Forwarding from Ex comes second: the younger result wins.
ForwardedFromEx ==
  IF Writes(ex_stage.instr, ReadByID.rs)
    THEN [ForwardedFromMem EXCEPT !.rs_value = FlushedMem.alu_result]
  ELSE IF ExConflict
    THEN [ForwardedFromMem EXCEPT !.rt_value = FlushedMem.alu_result]
  ELSE ForwardedFromMem

\* Mutants: the stall lets IF go on; it leaves the load in Ex; a taken branch
\* lets the instruction in Ex go on.
MutantNextIF  == ComputedIF
MutantNextEx  == IF LoadUse THEN ex_stage ELSE ForwardedFromEx
MutantNextMem == ComputedMem

\* A load in Ex whose result ID needs holds IF and ID for a cycle.
NextIF  == IF LoadUse THEN if_stage ELSE ComputedIF
NextID  == IF LoadUse THEN id_stage ELSE FlushedID
NextEx  == IF LoadUse THEN ClearedEx ELSE ForwardedFromEx
NextMem == FlushedMem
NextWB  == ComputedWB

-----------------------------------------------------------------------------
(* The errors that end the process, in the order the cycle meets them.     *)

\* ValidateWrittenValue.
WriteBackError == WrittenBack # DONT_CARE /\ ~FitsRegister(wb_stage.result)

FetchError ==
  \/ ~ValidInstrAddress(NextPC)
  \/ id_stage.instr.type # "J" /\ ~ValidInstrAddress(if_stage.pc)

ExError == AluFails(ex_stage.instr.type, ex_stage.rs_value, ex_stage.rt_value,
                    ex_stage.imm_value)

DataAccess == mem_stage.instr.type \in Loads \cup Stores

AddressError == DataAccess /\ ~ValidDataAddress(mem_stage.alu_result, MemBytes)

StoreError == /\ mem_stage.instr.type \in Stores
              /\ ~WriteFits(mem_stage.rt_value, MemBytes)

CycleError ==
  IF WriteBackError THEN "register_error"
  ELSE IF FetchError THEN "fetch_error"
  ELSE IF ExError THEN "alu_error"
  ELSE IF AddressError THEN "address_error"
  ELSE IF StoreError THEN "store_error"
  ELSE "none"

Errors == {"register_error", "fetch_error", "alu_error", "address_error", "store_error"}

-----------------------------------------------------------------------------
\* InitRegisterFile is never called: every register is 0.
InitPipeline(program) ==
  /\ instrs = program.instrs
  /\ mem = program.data
  /\ contents = [r \in RegNr |-> 0]
  /\ if_stage = [pc |-> program.start,
                 instr |-> ReadFromInstrMemory(program.instrs, program.start)]
  /\ id_stage = ClearedID
  /\ ex_stage = ClearedEx
  /\ mem_stage = ClearedMem
  /\ wb_stage = ClearedWB
  /\ nr_cycles = 0
  /\ nr_instr_retired = 0
  /\ status = "running"

Init == \E p \in Programs : InitPipeline(p)

\* Mutant: counts the instruction that enters WB.
MutantRetires == mem_stage.instr.type # "NOP"

\* Mutant: counts only instructions that write a register.
MutantRetiresWriting == WrittenBack # DONT_CARE

\* The instruction leaving WB counts as retired.
Retires == wb_stage.instr.type # "NOP"

InLoop == status = "running" /\ nr_cycles < MaxCycles

\* A turn of the loop: counts, and UpdatePipelineState.  The turn that finds
\* a syscall in WB is the last one.
Tick ==
  /\ InLoop
  /\ CycleError = "none"
  /\ nr_cycles' = nr_cycles + 1
  /\ nr_instr_retired' = nr_instr_retired + Truth(Retires)
  /\ contents' = UpdatedRegisters
  /\ mem' = UpdatedMemory
  /\ if_stage' = NextIF
  /\ id_stage' = NextID
  /\ ex_stage' = NextEx
  /\ mem_stage' = NextMem
  /\ wb_stage' = NextWB
  /\ status' = IF wb_stage.instr.type = "SYSCALL" THEN "finished" ELSE "running"
  /\ UNCHANGED instrs

\* The process exits before the cycle is complete; nothing outlives it.
Abort ==
  /\ InLoop
  /\ CycleError \in Errors
  /\ status' = CycleError
  /\ UNCHANGED <<instrs, mem, contents, if_stage, id_stage, ex_stage, mem_stage,
                 wb_stage, nr_cycles, nr_instr_retired>>

Next == Tick \/ Abort

Spec == Init /\ [][Next]_vars

\* The loop never pauses: a turn that can be taken is taken.
FairSpec == Spec /\ WF_vars(Next)
=============================================================================
