--------------------------- MODULE PipelineProofs ---------------------------
(***************************************************************************)
(* Proofs about the pipeline, for every set of well formed programs, every *)
(* number of registers, every size of a byte and every memory layout: its  *)
(* type correctness, and that stalling, flushing and forwarding            *)
(* (update.c, HandleHazards) do what PipelineHazards states.               *)
(***************************************************************************)
EXTENDS PipelineHazards, ByteMemoryProofs, TLAPS

-----------------------------------------------------------------------------
(* Values, instructions and cleared stages.                                *)

\* What a register can hold includes 0 and the DONT_CARE of unused fields.
LEMMA RegValues == RegValue \subseteq Int /\ DONT_CARE \in RegValue /\ 0 \in RegValue
BY Sizes DEF RegValue, RegMin, DONT_CARE

\* The bubble is an instruction.
LEMMA BubbleTyped == Bubble \in Instr
BY DEF Bubble, CreateInstr_Empty, Instr, InstrType, DONT_CARE

\* The registers of a well formed instruction are registers or DONT_CARE.
LEMMA OperandsTyped ==
  ASSUME NEW i \in Instr
  PROVE  /\ GetRegWrittenByInstr(i) \in RegNr \cup {DONT_CARE}
         /\ GetRegsReadByInstr(i) \in [rs : RegNr \cup {DONT_CARE},
                                      rt : RegNr \cup {DONT_CARE}]
<1>1. /\ i.rd \in RegNr \cup {DONT_CARE}
      /\ i.rs \in RegNr \cup {DONT_CARE}
      /\ i.rt \in RegNr \cup {DONT_CARE}
  BY DEF Instr
<1>2. GetRegWrittenByInstr(i) \in RegNr \cup {DONT_CARE}
  BY <1>1 DEF GetRegWrittenByInstr
<1>3. GetRegsReadByInstr(i) \in [rs : RegNr \cup {DONT_CARE}, rt : RegNr \cup {DONT_CARE}]
  BY <1>1 DEF GetRegsReadByInstr
<1> QED
  BY <1>2, <1>3

\* A fetch gives an instruction at every address, in the program or not.
LEMMA FetchTyped ==
  ASSUME NEW code \in Seq(Instr), NEW a \in Int
  PROVE  ReadFromInstrMemory(code, a) \in Instr
BY BubbleTyped DEF ReadFromInstrMemory

\* The cleared stages are well typed.
LEMMA ClearedTyped ==
  /\ ClearedID \in [instr : Instr]
  /\ ClearedEx \in [instr : Instr, rs_value : RegValue, rt_value : RegValue, imm_value : Int]
  /\ ClearedMem \in [instr : Instr, rt_value : RegValue, alu_result : RegValue,
                     zero : {0, 1}, branch_target : Int]
  /\ ClearedWB \in [instr : Instr, result : RegValue]
  /\ DONT_CARE \in Int
BY BubbleTyped, RegValues DEF ClearedID, ClearedEx, ClearedMem, ClearedWB

\* A cycle is completed when it meets none of the errors.
LEMMA NoErrors ==
  CycleError = "none"
    <=> ~WriteBackError /\ ~FetchError /\ ~ExError /\ ~AddressError /\ ~StoreError
BY DEF CycleError

-----------------------------------------------------------------------------
(* Type correctness.                                                       *)

\* InitPipeline leaves a well typed state.
LEMMA InitTyped == Init => TypeOK
<1> SUFFICES ASSUME NEW p \in Programs,
                    instrs = p.instrs, mem = p.data,
                    contents = [r \in RegNr |-> 0],
                    if_stage = [pc |-> p.start,
                                instr |-> ReadFromInstrMemory(p.instrs, p.start)],
                    id_stage = ClearedID, ex_stage = ClearedEx,
                    mem_stage = ClearedMem, wb_stage = ClearedWB,
                    nr_cycles = 0, nr_instr_retired = 0, status = "running"
             PROVE  TypeOK
  BY DEF Init, InitPipeline
<1>1. p.instrs \in Seq(Instr) /\ p.start \in Int /\ p.data \in [MemoryAddresses -> Byte]
  BY ProgramsAssumption
<1>2. ReadFromInstrMemory(p.instrs, p.start) \in Instr
  BY <1>1, FetchTyped
<1> QED
  BY <1>1, <1>2, RegValues, ClearedTyped, MaxCyclesAssumption DEF TypeOK

\* The ComputeNext functions keep the types in a cycle without an error.
LEMMA ComputedTyped ==
  ASSUME TypeOK, CycleError = "none"
  PROVE  /\ UpdatedRegisters \in [RegNr -> RegValue]
         /\ UpdatedMemory \in [MemoryAddresses -> Byte]
         /\ ComputedIF \in [pc : Int, instr : Instr]
         /\ ComputedID \in [instr : Instr]
         /\ ComputedEx \in [instr : Instr, rs_value : RegValue, rt_value : RegValue,
                           imm_value : Int]
         /\ ComputedMem \in [instr : Instr, rt_value : RegValue, alu_result : RegValue,
                            zero : {0, 1}, branch_target : Int]
         /\ ComputedWB \in [instr : Instr, result : RegValue]
<1> USE DEF TypeOK
<1>1. UpdatedRegisters \in [RegNr -> RegValue]
  BY OperandsTyped DEF UpdatedRegisters, WrittenBack, WriteToRegisterFile
<1>2. /\ id_stage.instr \in Instr /\ id_stage.instr.imm \in Int
      /\ ex_stage.instr \in Instr /\ mem_stage.instr \in Instr
      /\ mem_stage.branch_target \in Int /\ if_stage.pc \in Int
      /\ mem_stage.alu_result \in Int /\ mem_stage.rt_value \in Int
      /\ ex_stage.imm_value \in Int
  BY RegValues DEF Instr
<1>3. UpdatedMemory \in [MemoryAddresses -> Byte]
  <2>1. CASE mem_stage.instr.type \in Stores
    <3>1. MemBytes \in {1, 2, 4}
      BY <2>1 DEF MemBytes, Stores
    <3> QED
      BY <1>2, <2>1, <3>1, StoreKeepsBytes DEF UpdatedMemory
  <2>2. CASE mem_stage.instr.type \notin Stores
    BY <2>2 DEF UpdatedMemory
  <2> QED
    BY <2>1, <2>2
<1>4. NextPC \in Int
  BY <1>2 DEF NextPC
<1>5. ComputedIF \in [pc : Int, instr : Instr]
  BY <1>4, FetchTyped DEF ComputedIF
<1>6. ComputedID \in [instr : Instr]
  BY <1>2, FetchTyped, ClearedTyped DEF ComputedID
<1>7. ComputedEx \in [instr : Instr, rs_value : RegValue, rt_value : RegValue,
                     imm_value : Int]
  <2>1. \A r \in RegNr \cup {DONT_CARE} : OperandValue(r) \in RegValue
    BY <1>1, RegValues DEF OperandValue, ReadRegister
  <2>2. id_stage.instr.rs \in RegNr \cup {DONT_CARE} /\ id_stage.instr.rt \in RegNr \cup {DONT_CARE}
    BY <1>2 DEF Instr
  <2> QED
    BY <1>2, <2>1, <2>2 DEF ComputedEx
<1>8. ComputedMem \in [instr : Instr, rt_value : RegValue, alu_result : RegValue,
                      zero : {0, 1}, branch_target : Int]
  <2>1. ExAlu \in RegValue
    BY NoErrors DEF ExError, AluFails, FitsRegister, ExAlu
  <2>2. ZeroFlag(ExAlu) \in {0, 1}
    BY DEF ZeroFlag, Truth
  <2> QED
    BY <1>2, <2>1, <2>2, ClearedTyped DEF ComputedMem
<1>9. ComputedWB \in [instr : Instr, result : RegValue]
  <2>1. CASE mem_stage.instr.type \in Loads
    <3>1. MemBytes \in {1, 2, 4}
      BY <2>1 DEF MemBytes, Loads
    <3>2. ValidDataAddress(mem_stage.alu_result, MemBytes)
      BY <2>1, NoErrors DEF AddressError, DataAccess
    <3>3. LoadsUnsigned \in BOOLEAN
      BY DEF LoadsUnsigned
    <3>4. LoadedValue \in RegValue
      BY <1>2, <3>1, <3>2, <3>3, LoadInRange DEF LoadedValue
    <3> QED
      BY <1>2, <2>1, <3>4 DEF ComputedWB, Loads, Stores
  <2>2. CASE mem_stage.instr.type \notin Loads
    BY <1>2, <2>2, RegValues DEF ComputedWB
  <2> QED
    BY <2>1, <2>2
<1> QED
  BY <1>1, <1>3, <1>5, <1>6, <1>7, <1>8, <1>9

\* So do the corrections of HandleHazards: a whole turn of the loop does.
LEMMA TickTyped ==
  ASSUME TypeOK, Tick
  PROVE  TypeOK'
<1>1. CycleError = "none"
  BY DEF Tick
<1> USE <1>1, ComputedTyped, ClearedTyped
<1>2. /\ FlushedID \in [instr : Instr]
      /\ FlushedEx \in [instr : Instr, rs_value : RegValue, rt_value : RegValue,
                        imm_value : Int]
      /\ FlushedMem \in [instr : Instr, rt_value : RegValue, alu_result : RegValue,
                         zero : {0, 1}, branch_target : Int]
  BY DEF FlushedID, FlushedEx, FlushedMem
<1>3. ForwardedFromMem \in [instr : Instr, rs_value : RegValue, rt_value : RegValue,
                           imm_value : Int]
  BY <1>2 DEF ForwardedFromMem
<1>4. ForwardedFromEx \in [instr : Instr, rs_value : RegValue, rt_value : RegValue,
                          imm_value : Int]
  BY <1>2, <1>3 DEF ForwardedFromEx
<1>5. /\ NextIF \in [pc : Int, instr : Instr]
      /\ NextID \in [instr : Instr]
      /\ NextEx \in [instr : Instr, rs_value : RegValue, rt_value : RegValue,
                     imm_value : Int]
      /\ NextMem \in [instr : Instr, rt_value : RegValue, alu_result : RegValue,
                      zero : {0, 1}, branch_target : Int]
      /\ NextWB \in [instr : Instr, result : RegValue]
  BY <1>2, <1>4 DEF NextIF, NextID, NextEx, NextMem, NextWB, TypeOK
<1>6. nr_cycles' \in 0 .. MaxCycles /\ nr_instr_retired' \in Nat
  BY MaxCyclesAssumption DEF TypeOK, Tick, InLoop, Truth
<1> QED
  BY <1>5, <1>6 DEF TypeOK, Tick

\* Ending the process changes nothing but the status.
LEMMA AbortTyped ==
  ASSUME TypeOK, Abort
  PROVE  TypeOK'
BY DEF TypeOK, Abort

\* For programs of any length, registers, operands and results never leave the
\* range of a register: one check of the ALU's result per instruction is
\* enough (update.c, ComputeNextMemStage).  TypeOK is inductive.
THEOREM Typing == Spec => []TypeOK
<1>1. Init => TypeOK
  BY InitTyped
<1>2. TypeOK /\ [Next]_vars => TypeOK'
  <2> SUFFICES ASSUME TypeOK, [Next]_vars PROVE TypeOK'
    OBVIOUS
  <2>1. CASE Tick
    BY <2>1, TickTyped
  <2>2. CASE Abort
    BY <2>2, AbortTyped
  <2>3. CASE UNCHANGED vars
    BY <2>3 DEF vars, TypeOK
  <2> QED
    BY <2>1, <2>2, <2>3 DEF Next
<1> QED
  BY <1>1, <1>2, PTL DEF Spec

\* WriteToRegisterFile never refuses the value that WB hands it
\* (register_file.c, ValidateWrittenValue).
THEOREM WriteBackSafe == Spec => []WriteBackNeverFails
<1>1. Init => WriteBackNeverFails
  BY DEF Init, InitPipeline, WriteBackNeverFails
<1>2. TypeOK /\ WriteBackNeverFails /\ [Next]_vars => WriteBackNeverFails'
  <2> SUFFICES ASSUME TypeOK, WriteBackNeverFails, [Next]_vars
               PROVE  WriteBackNeverFails'
    OBVIOUS
  <2>1. ~WriteBackError
    BY DEF TypeOK, WriteBackError, FitsRegister
  <2>2. CASE Tick
    BY <2>2 DEF Tick, WriteBackNeverFails
  <2>3. CASE Abort
    BY <2>1, <2>3 DEF Abort, CycleError, WriteBackNeverFails
  <2>4. CASE UNCHANGED vars
    BY <2>4 DEF vars, WriteBackNeverFails
  <2> QED
    BY <2>2, <2>3, <2>4 DEF Next
<1> QED
  BY <1>1, <1>2, Typing, PTL DEF Spec

-----------------------------------------------------------------------------
(* Stalls and flushes.                                                     *)

\* Ex receives the instruction in ID, unless it is stalled or flushed:
\* forwarding changes only operands.
LEMMA NextExInstr ==
  NextEx.instr = IF LoadUse \/ BranchTaken THEN Bubble ELSE id_stage.instr
<1>1. FlushedEx.instr = IF BranchTaken THEN Bubble ELSE id_stage.instr
  BY DEF FlushedEx, ClearedEx, ComputedEx
<1>2. DOMAIN FlushedEx = {"instr", "rs_value", "rt_value", "imm_value"}
  BY DEF FlushedEx, ClearedEx, ComputedEx
<1>3. /\ ForwardedFromMem.instr = FlushedEx.instr
      /\ DOMAIN ForwardedFromMem = {"instr", "rs_value", "rt_value", "imm_value"}
  BY <1>2 DEF ForwardedFromMem
<1>4. ForwardedFromEx.instr = FlushedEx.instr
  BY <1>3 DEF ForwardedFromEx
<1> QED
  BY <1>1, <1>4 DEF NextEx, ClearedEx

\* Mem receives the instruction in Ex, unless it is flushed.
LEMMA NextMemInstr ==
  NextMem.instr = IF BranchTaken THEN Bubble ELSE ex_stage.instr
BY DEF NextMem, FlushedMem, ClearedMem, ComputedMem

\* A bubble reads nothing, writes nothing and is no load.
LEMMA BubbleIdle ==
  /\ Bubble.type = "NOP"
  /\ GetInstrCategory(Bubble.type) # "LOAD"
  /\ GetRegsReadByInstr(Bubble) = [rs |-> DONT_CARE, rt |-> DONT_CARE]
  /\ GetRegWrittenByInstr(Bubble) = DONT_CARE
<1>1. Bubble.type = "NOP"
  BY DEF Bubble, CreateInstr_Empty
<1> QED
  BY <1>1 DEF GetInstrCategory, GetRegsReadByInstr, GetRegWrittenByInstr, Loads, Stores,
              Branches, RegisterOps, ImmediateOps

\* What a turn of the loop does with the instructions and the program counter.
LEMMA TickMoves ==
  ASSUME Tick
  PROVE  /\ instrs' = instrs
         /\ wb_stage'.instr = mem_stage.instr
         /\ mem_stage'.instr = IF BranchTaken THEN Bubble ELSE ex_stage.instr
         /\ ex_stage'.instr = IF LoadUse \/ BranchTaken THEN Bubble ELSE id_stage.instr
         /\ id_stage'.instr = IF LoadUse THEN id_stage.instr
                              ELSE IF BranchTaken \/ id_stage.instr.type = "J" THEN Bubble
                              ELSE ReadFromInstrMemory(instrs, if_stage.pc)
         /\ if_stage'.pc = IF LoadUse THEN if_stage.pc ELSE NextPC
<1>1. wb_stage'.instr = mem_stage.instr
  BY DEF Tick, NextWB, ComputedWB
<1>2. id_stage'.instr = IF LoadUse THEN id_stage.instr
                        ELSE IF BranchTaken \/ id_stage.instr.type = "J" THEN Bubble
                        ELSE ReadFromInstrMemory(instrs, if_stage.pc)
  BY DEF Tick, NextID, FlushedID, ComputedID, ClearedID
<1>3. if_stage'.pc = IF LoadUse THEN if_stage.pc ELSE NextPC
  BY DEF Tick, NextIF, ComputedIF
<1> QED
  BY <1>1, <1>2, <1>3, NextExInstr, NextMemInstr DEF Tick

\* The load-use stall works for every program (update.c, HandleHazards): Mem
\* and Ex receive a load and a use of it only if no stall was due.
THEOREM Interlocked == Spec => []LoadUseInterlock
<1>1. Init => LoadUseInterlock
  BY BubbleIdle DEF Init, InitPipeline, LoadUseInterlock, ClearedMem
<1>2. LoadUseInterlock /\ [Next]_vars => LoadUseInterlock'
  <2> SUFFICES ASSUME LoadUseInterlock, [Next]_vars PROVE LoadUseInterlock'
    OBVIOUS
  <2>1. CASE Tick
    <3> SUFFICES ASSUME GetInstrCategory(mem_stage'.instr.type) = "LOAD",
                        NEW r \in RegNr, Writes(mem_stage'.instr, r),
                        Reads(ex_stage'.instr, r)
                 PROVE  FALSE
      BY DEF LoadUseInterlock
    <3>1. mem_stage'.instr = ex_stage.instr /\ ~BranchTaken
      BY <2>1, NextMemInstr, BubbleIdle DEF Tick
    <3>2. ex_stage'.instr = id_stage.instr /\ ~LoadUse
      BY <2>1, <3>1, NextExInstr, BubbleIdle DEF Tick, Reads
    <3>3. r = ReadByID.rs \/ r = ReadByID.rt
      BY <3>2 DEF Reads, ReadByID
    <3> QED
      BY <3>1, <3>2, <3>3 DEF LoadUse, ExConflict
  <2>2. CASE Abort
    BY <2>2 DEF Abort, LoadUseInterlock
  <2>3. CASE UNCHANGED vars
    BY <2>3 DEF vars, LoadUseInterlock
  <2> QED
    BY <2>1, <2>2, <2>3 DEF Next
<1> QED
  BY <1>1, <1>2, PTL DEF Spec

\* The slot behind a jump is empty in every program, also when the jump waited
\* for a load or a branch was taken in that cycle (update.c,
\* ComputeNextIDStage).
THEOREM JumpShadow == Spec => []JumpShadowEmpty
<1>1. Init => JumpShadowEmpty
  BY DEF Init, InitPipeline, JumpShadowEmpty
<1>2. JumpShadowEmpty /\ [Next]_vars => JumpShadowEmpty'
  <2> SUFFICES ASSUME JumpShadowEmpty, [Next]_vars PROVE JumpShadowEmpty'
    OBVIOUS
  <2>1. CASE Tick
    <3> SUFFICES ASSUME ex_stage'.instr.type = "J" PROVE id_stage' = ClearedID
      BY DEF JumpShadowEmpty
    <3>1. id_stage.instr.type = "J" /\ ~LoadUse /\ ~BranchTaken
      BY <2>1, NextExInstr, BubbleIdle DEF Tick
    <3> QED
      BY <2>1, <3>1 DEF Tick, NextID, FlushedID, ComputedID
  <2>2. CASE Abort
    BY <2>2 DEF Abort, JumpShadowEmpty
  <2>3. CASE UNCHANGED vars
    BY <2>3 DEF vars, JumpShadowEmpty
  <2> QED
    BY <2>1, <2>2, <2>3 DEF Next
<1> QED
  BY <1>1, <1>2, PTL DEF Spec

-----------------------------------------------------------------------------
\* While the pipeline fills, the stages that no instruction has reached yet
\* hold nops.
Filling ==
  /\ nr_cycles = 0 => id_stage.instr.type = "NOP"
  /\ nr_cycles < 2 => ex_stage.instr.type = "NOP"
  /\ nr_cycles < 3 => mem_stage.instr.type = "NOP"
  /\ nr_cycles < 4 => wb_stage.instr.type = "NOP"

\* Of every program at most one instruction per cycle retires, from the fifth
\* cycle on, and one that finished retired something (pipeline.c, RunProgram).
\* FillBound is not inductive: Filling says why nothing retires before.
THEOREM FillBounded == Spec => []FillBound
<1>1. Init => Filling /\ FillBound
  BY BubbleIdle DEF Init, InitPipeline, Filling, FillBound, ClearedID, ClearedEx, ClearedMem, ClearedWB
<1>2. TypeOK /\ Filling /\ FillBound /\ [Next]_vars => Filling' /\ FillBound'
  <2> SUFFICES ASSUME TypeOK, Filling, FillBound, [Next]_vars
               PROVE  Filling' /\ FillBound'
    OBVIOUS
  <2> USE DEF Filling, FillBound
  <2>1. CASE Tick
    <3>1. nr_cycles \in Nat /\ nr_instr_retired \in Nat /\ nr_cycles' = nr_cycles + 1
      BY <2>1, MaxCyclesAssumption DEF TypeOK, Tick
    <3>2. Filling'
      <4>1. ex_stage'.instr.type \in {"NOP", id_stage.instr.type}
        BY <2>1, NextExInstr, BubbleIdle DEF Tick
      <4>2. mem_stage'.instr.type \in {"NOP", ex_stage.instr.type}
        BY <2>1, NextMemInstr, BubbleIdle DEF Tick
      <4>3. wb_stage'.instr.type = mem_stage.instr.type
        BY <2>1 DEF Tick, NextWB, ComputedWB
      <4> QED
        BY <3>1, <4>1, <4>2, <4>3
    <3>3. CASE Retires
      <4>1. nr_instr_retired' = nr_instr_retired + 1
        BY <2>1, <3>3 DEF Tick, Truth
      <4>2. nr_cycles >= 4
        BY <3>1, <3>3 DEF Retires
      <4> QED
        BY <3>1, <3>2, <4>1, <4>2
    <3>4. CASE ~Retires
      <4>1. nr_instr_retired' = nr_instr_retired
        BY <2>1, <3>1, <3>4 DEF Tick, Truth
      <4>2. status' # "finished"
        BY <2>1, <3>4 DEF Tick, Retires
      <4> QED
        BY <3>1, <3>2, <4>1, <4>2
    <3> QED
      BY <3>3, <3>4
  <2>2. CASE Abort
    BY <2>2 DEF Abort, Errors
  <2>3. CASE UNCHANGED vars
    BY <2>3 DEF vars
  <2> QED
    BY <2>1, <2>2, <2>3 DEF Next
<1> QED
  BY <1>1, <1>2, Typing, PTL DEF Spec

-----------------------------------------------------------------------------
(* Forwarding.  The instructions in the stages come from the program, so   *)
(* what is assumed of the program holds of them.                           *)

\* An instruction whose result and operands forwarding gets right.
Forwardable(i) ==
  /\ GetRegWrittenByInstr(i) # ZERO
  /\ GetRegsReadByInstr(i).rs = GetRegsReadByInstr(i).rt
       => GetRegsReadByInstr(i).rs \in {DONT_CARE, ZERO}

StagesForwardable ==
  /\ \A k \in DOMAIN instrs : Forwardable(instrs[k])
  /\ Forwardable(id_stage.instr)
  /\ Forwardable(ex_stage.instr)
  /\ Forwardable(mem_stage.instr)

\* A bubble neither writes zero nor reads a register twice.
LEMMA BubbleForwardable == Forwardable(Bubble)
BY BubbleIdle DEF Forwardable, DONT_CARE, ZERO

\* It holds of the empty stages and of the program by assumption.
LEMMA ForwardableInit ==
  ASSUME \A p \in Programs : ZeroUnwritten(p.instrs) /\ OperandsDiffer(p.instrs), Init
  PROVE  StagesForwardable
BY BubbleForwardable DEF Init, InitPipeline, StagesForwardable, ZeroUnwritten, OperandsDiffer, Forwardable,
   ClearedID, ClearedEx, ClearedMem

\* Instructions only move from stage to stage, or become bubbles.
LEMMA ForwardableTick ==
  ASSUME StagesForwardable, Tick
  PROVE  StagesForwardable'
<1>1. Forwardable(ex_stage'.instr)
  BY NextExInstr, BubbleForwardable DEF Tick, StagesForwardable
<1>2. Forwardable(mem_stage'.instr)
  BY NextMemInstr, BubbleForwardable DEF Tick, StagesForwardable
<1>3. Forwardable(id_stage'.instr)
  <2>1. \A a : Forwardable(ReadFromInstrMemory(instrs, a))
    BY BubbleForwardable DEF ReadFromInstrMemory, StagesForwardable
  <2>2. NextID.instr \in {id_stage.instr, Bubble, ReadFromInstrMemory(instrs, if_stage.pc)}
    BY DEF NextID, FlushedID, ComputedID, ClearedID
  <2> QED
    BY <2>1, <2>2, BubbleForwardable DEF Tick, StagesForwardable
<1>4. instrs' = instrs
  BY DEF Tick
<1> QED
  BY <1>1, <1>2, <1>3, <1>4 DEF StagesForwardable

\* Apart from the pseudo instructions, an instruction reads in its rs and rt
\* positions the registers of its rs and rt fields.
LEMMA OperandFields ==
  ASSUME NEW i, i.type \notin Pseudo
  PROVE  /\ GetRegsReadByInstr(i).rs \in {DONT_CARE, i.rs}
         /\ GetRegsReadByInstr(i).rt \in {DONT_CARE, i.rt}
BY DEF GetRegsReadByInstr, Pseudo

\* What the Mem stage hands on when the instruction that was in Ex is no load.
LEMMA ResultPassesMem ==
  ASSUME Tick, ~BranchTaken, GetInstrCategory(ex_stage.instr.type) # "LOAD",
         GetRegWrittenByInstr(ex_stage.instr) # DONT_CARE
  PROVE  (ComputedWB)'.result = ComputedMem.alu_result
<1>1. mem_stage' = ComputedMem
  BY DEF Tick, NextMem, FlushedMem
<1>2. ex_stage.instr.type \notin Loads
  BY DEF GetInstrCategory, Loads, Stores, Branches
<1>3. ex_stage.instr.type \notin Stores
  BY DEF GetRegWrittenByInstr, Loads, Stores, RegisterOps, ImmediateOps
<1> QED
  BY <1>1, <1>2, <1>3 DEF ComputedWB, ComputedMem

\* What the register file holds in the next cycle's second half.
LEMMA NextUpdatedRegisters ==
  ASSUME TypeOK, Tick, NEW r \in RegNr, r # ZERO
  PROVE  ReadRegister((UpdatedRegisters)', r)
           = IF Writes(mem_stage.instr, r) THEN ComputedWB.result
             ELSE ReadRegister(UpdatedRegisters, r)
<1>1. /\ contents' = UpdatedRegisters
      /\ wb_stage'.instr = mem_stage.instr
      /\ wb_stage'.result = ComputedWB.result
  BY DEF Tick, NextWB, ComputedWB
<1>2. UpdatedRegisters \in [RegNr -> RegValue]
  BY ComputedTyped DEF Tick
<1>3. r # DONT_CARE
  BY DEF RegNr, DONT_CARE
<1> QED
  BY <1>1, <1>2, <1>3 DEF ReadRegister, UpdatedRegisters, WrittenBack, WriteToRegisterFile,
     Writes

\* The operands that reach Ex are fresh: forwarding from Ex, then from Mem, then
\* the register file gives the youngest result of each.
LEMMA FreshTick ==
  ASSUME TypeOK, StagesForwardable, Tick
  PROVE  OperandsFresh'
<1> DEFINE rs == ReadByID.rs
           rt == ReadByID.rt
<1> SUFFICES ASSUME ex_stage'.instr.type \notin Pseudo
             PROVE  /\ GetRegsReadByInstr(ex_stage'.instr).rs # DONT_CARE
                        => ex_stage'.rs_value
                             = (FreshValue(GetRegsReadByInstr(ex_stage.instr).rs))'
                    /\ GetRegsReadByInstr(ex_stage'.instr).rt # DONT_CARE
                        => ex_stage'.rt_value
                             = (FreshValue(GetRegsReadByInstr(ex_stage.instr).rt))'
  BY DEF OperandsFresh
<1>1. CASE LoadUse \/ BranchTaken
  BY <1>1, NextExInstr, BubbleIdle DEF Tick
<1>2. CASE ~LoadUse /\ ~BranchTaken
  <2>1. /\ ex_stage' = ForwardedFromEx
        /\ mem_stage' = ComputedMem
        /\ ex_stage'.instr = id_stage.instr
        /\ mem_stage'.instr = ex_stage.instr
        /\ FlushedEx = ComputedEx /\ FlushedMem = ComputedMem
    BY <1>2, NextExInstr, NextMemInstr DEF Tick, NextEx, NextMem, FlushedMem, FlushedEx
  <2>2. /\ rs \in RegNr \cup {DONT_CARE} /\ rt \in RegNr \cup {DONT_CARE}
        /\ rs \in {DONT_CARE, id_stage.instr.rs} /\ rt \in {DONT_CARE, id_stage.instr.rt}
    BY <2>1, OperandsTyped, OperandFields DEF TypeOK, ReadByID
  <2>3. /\ rs # DONT_CARE => ComputedEx.rs_value = ReadRegister(UpdatedRegisters, rs)
        /\ rt # DONT_CARE => ComputedEx.rt_value = ReadRegister(UpdatedRegisters, rt)
    BY <2>2 DEF ComputedEx, OperandValue
  <2>4. /\ GetRegWrittenByInstr(ex_stage.instr) # ZERO
        /\ GetRegWrittenByInstr(mem_stage.instr) # ZERO
        /\ rs = rt => rs \in {DONT_CARE, ZERO}
    BY DEF StagesForwardable, Forwardable, ReadByID
  <2>5. \A r : Writes(ex_stage.instr, r) /\ r \in {rs, rt}
                => (ComputedWB)'.result = ComputedMem.alu_result
    BY <1>2, ResultPassesMem DEF LoadUse, ExConflict, Writes
  <2>6. ASSUME NEW r \in RegNr, r \in {rs, rt}
        PROVE  (FreshValue(r))' = IF Writes(ex_stage.instr, r) THEN ComputedMem.alu_result
                                ELSE IF Writes(mem_stage.instr, r) THEN ComputedWB.result
                                ELSE ReadRegister(UpdatedRegisters, r)
    <3>1. (FreshValue(r))' = IF Writes(ex_stage.instr, r) THEN (ComputedWB)'.result
                             ELSE ReadRegister((UpdatedRegisters)', r)
      BY <2>1 DEF FreshValue, Writes
    <3>2. CASE r = ZERO
      BY <2>4, <2>6, <3>1, <3>2 DEF Writes, ReadRegister
    <3>3. CASE r # ZERO
      BY <2>5, <2>6, <3>1, <3>3, NextUpdatedRegisters
    <3> QED
      BY <3>2, <3>3
  <2>7. DOMAIN ComputedEx = {"instr", "rs_value", "rt_value", "imm_value"}
    BY DEF ComputedEx
  <2>8. rs # DONT_CARE
          => ForwardedFromEx.rs_value
               = IF Writes(ex_stage.instr, rs) THEN ComputedMem.alu_result
                 ELSE IF Writes(mem_stage.instr, rs) THEN ComputedWB.result
                 ELSE ReadRegister(UpdatedRegisters, rs)
    BY <2>1, <2>3, <2>7 DEF ForwardedFromEx, ForwardedFromMem
  <2>9. rt # DONT_CARE
          => ForwardedFromEx.rt_value
               = IF Writes(ex_stage.instr, rt) THEN ComputedMem.alu_result
                 ELSE IF Writes(mem_stage.instr, rt) THEN ComputedWB.result
                 ELSE ReadRegister(UpdatedRegisters, rt)
    BY <2>1, <2>3, <2>4, <2>7 DEF ForwardedFromEx, ForwardedFromMem, ExConflict, Writes
  <2>10. GetRegsReadByInstr(ex_stage'.instr) = ReadByID
    BY <2>1 DEF ReadByID
  <2> QED
    BY <2>1, <2>2, <2>6, <2>8, <2>9, <2>10
<1> QED
  BY <1>1, <1>2

\* For programs that write nothing to register zero and read no register twice
\* in one instruction, forwarding is complete: every operand in Ex is what the
\* instructions ahead make of the register (update.c, HandleHazards).
THEOREM Forwarding ==
  ASSUME \A p \in Programs : ZeroUnwritten(p.instrs) /\ OperandsDiffer(p.instrs)
  PROVE  Spec => []OperandsFresh
<1>1. Init => StagesForwardable /\ OperandsFresh
  BY ForwardableInit, BubbleIdle DEF Init, InitPipeline, OperandsFresh, ClearedEx
<1>2. TypeOK /\ StagesForwardable /\ OperandsFresh /\ [Next]_vars
        => StagesForwardable' /\ OperandsFresh'
  <2> SUFFICES ASSUME TypeOK, StagesForwardable, OperandsFresh, [Next]_vars
               PROVE  StagesForwardable' /\ OperandsFresh'
    OBVIOUS
  <2>1. CASE Tick
    BY <2>1, ForwardableTick, FreshTick
  <2>2. CASE UNCHANGED <<instrs, mem, contents, if_stage, id_stage, ex_stage, mem_stage,
                         wb_stage>>
    BY <2>2 DEF StagesForwardable, OperandsFresh, FreshValue, ComputedWB, LoadedValue,
       LoadsUnsigned, MemBytes, UpdatedRegisters, WrittenBack
  <2> QED
    BY <2>1, <2>2 DEF Next, Abort, vars
<1> QED
  BY <1>1, <1>2, Typing, PTL DEF Spec
=============================================================================
