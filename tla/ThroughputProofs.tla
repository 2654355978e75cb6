-------------------------- MODULE ThroughputProofs --------------------------
(***************************************************************************)
(* Proof that the pipeline retires an instruction in every four cycles     *)
(* once it is filled, whatever its hazards cost, as long as control does   *)
(* not leave the program (pipeline.c, RunProgram, GetCPI).                 *)
(***************************************************************************)
EXTENDS PipelineProofs

-----------------------------------------------------------------------------
(* The inductive invariant.                                                *)

IsNop(i) == i.type = "NOP"

\* The oldest instruction in flight is this many cycles away from retiring.
ToRetire ==
  IF ~IsNop(wb_stage.instr) THEN 0
  ELSE IF ~IsNop(mem_stage.instr) THEN 1
  ELSE IF ~IsNop(ex_stage.instr) THEN 2
  ELSE IF ~IsNop(id_stage.instr) THEN 3
  ELSE 4

InProgram(address) == InstrIndex(address) \in DOMAIN instrs

\* An instruction that redirects the fetch keeps it in the program.
StaysIn(i) == i.type \in Branches \cup {"J"} => InProgram(i.imm)

\* The targets in the stages are addresses of the program.
TargetsIn ==
  /\ StaysIn(id_stage.instr)
  /\ ex_stage.instr.type \in Branches => InProgram(ex_stage.imm_value)
  /\ mem_stage.instr.type \in Branches => InProgram(mem_stage.branch_target)

\* The fetch leaves the program only behind a syscall.
Fetching ==
  \/ InProgram(if_stage.pc)
  \/ \E i \in {id_stage.instr, ex_stage.instr, mem_stage.instr, wb_stage.instr} :
       i.type = "SYSCALL"

\* The account of the cycles, while the program runs.
Account ==
  status # "finished" => Fetching /\ nr_cycles + ToRetire <= 4 * nr_instr_retired + 4

\* What holds of a program that control does not leave.
ThroughputInv == SelfContained(instrs) => TargetsIn /\ Account /\ CPIBound

-----------------------------------------------------------------------------
\* A bubble is no jump and no branch.
LEMMA BubbleStaysIn == StaysIn(Bubble)
BY BubbleIdle DEF StaysIn, Branches

\* The instructions of the program stay in it.
LEMMA FetchStaysIn ==
  ASSUME SelfContained(instrs), NEW a
  PROVE  StaysIn(ReadFromInstrMemory(instrs, a))
BY BubbleStaysIn DEF ReadFromInstrMemory, SelfContained, StaysIn, InProgram

\* The immediate value of a branch follows it into Ex.
LEMMA NextExImmediate ==
  NextEx.instr.type \in Branches => NextEx.instr = id_stage.instr /\ NextEx.imm_value = id_stage.instr.imm
<1> SUFFICES ASSUME NextEx.instr.type \in Branches
             PROVE  NextEx.instr = id_stage.instr /\ NextEx.imm_value = id_stage.instr.imm
  OBVIOUS
<1>1. ~LoadUse /\ ~BranchTaken /\ NextEx.instr = id_stage.instr
  BY NextExInstr, BubbleIdle DEF Branches
<1>2. NextEx = ForwardedFromEx /\ FlushedEx = ComputedEx
  BY <1>1 DEF NextEx, FlushedEx
<1>3. /\ ComputedEx.imm_value = id_stage.instr.imm
      /\ DOMAIN ComputedEx = {"instr", "rs_value", "rt_value", "imm_value"}
  BY DEF ComputedEx
<1>4. ForwardedFromEx.imm_value = id_stage.instr.imm
  BY <1>2, <1>3 DEF ForwardedFromEx, ForwardedFromMem
<1> QED
  BY <1>1, <1>2, <1>4

\* The targets stay in the program.
LEMMA TickTargets ==
  ASSUME SelfContained(instrs), TargetsIn, Tick
  PROVE  (TargetsIn)'
<1>1. instrs' = instrs
  BY DEF Tick
<1>2. StaysIn(id_stage'.instr)
  BY FetchStaysIn, BubbleStaysIn
     DEF Tick, NextID, FlushedID, ComputedID, ClearedID, TargetsIn
<1>3. ex_stage'.instr.type \in Branches => InProgram(ex_stage'.imm_value)
  BY NextExImmediate DEF Tick, TargetsIn, StaysIn
<1>4. mem_stage'.instr.type \in Branches => InProgram(mem_stage'.branch_target)
  BY BubbleIdle DEF Tick, NextMem, FlushedMem, ComputedMem, ClearedMem, TargetsIn, Branches
<1> QED
  BY <1>1, <1>2, <1>3, <1>4 DEF TargetsIn, StaysIn, InProgram

\* Once a syscall is in flight it is not lost before it ends the program.
LEMMA TickFetching ==
  ASSUME TypeOK, SelfContained(instrs), TargetsIn, Fetching, Tick, status' # "finished"
  PROVE  (Fetching)'
<1>1. wb_stage.instr.type # "SYSCALL"
  BY DEF Tick
<1>2. id_stage.instr.type = "SYSCALL" => ~LoadUse
  BY DEF LoadUse, ExConflict, Writes, ReadByID, GetRegsReadByInstr, RegisterOps, Stores,
         Branches, ImmediateOps, Loads
<1>3. ex_stage.instr.type = "SYSCALL" => ~LoadUse
  BY DEF LoadUse, GetInstrCategory, Loads, Stores, Branches
<1>4. mem_stage.instr.type = "SYSCALL" => ~BranchTaken
  BY DEF BranchTaken
<1>5. CASE LoadUse
  BY <1>1, <1>2, <1>3, <1>5, TickMoves DEF Fetching, InProgram
<1>6. CASE ~LoadUse /\ id_stage.instr.type = "J"
  <2>1. if_stage'.pc = id_stage.instr.imm
    BY <1>6, TickMoves DEF NextPC
  <2> QED
    BY <1>6, <2>1, TickMoves DEF Fetching, InProgram, TargetsIn, StaysIn
<1>7. CASE ~LoadUse /\ id_stage.instr.type # "J" /\ BranchTaken
  <2>1. if_stage'.pc = mem_stage.branch_target /\ mem_stage.instr.type \in Branches
    BY <1>7, TickMoves DEF NextPC, BranchTaken, Branches
  <2> QED
    BY <2>1, TickMoves DEF Fetching, InProgram, TargetsIn
<1>8. CASE ~LoadUse /\ id_stage.instr.type # "J" /\ ~BranchTaken
  <2>1. /\ ex_stage'.instr = id_stage.instr /\ mem_stage'.instr = ex_stage.instr
        /\ id_stage'.instr = ReadFromInstrMemory(instrs, if_stage.pc)
        /\ if_stage'.pc = if_stage.pc + 4
    BY <1>8, TickMoves DEF NextPC
  <2>2. CASE InProgram(if_stage.pc)
    <3>1. InstrIndex(if_stage'.pc) = InstrIndex(if_stage.pc) + 1
      BY <2>1, TextAssumption DEF InstrIndex, TypeOK
    <3>2. CASE InstrIndex(if_stage.pc) = Len(instrs)
      BY <2>1, <2>2, <3>2 DEF Fetching, InProgram, ReadFromInstrMemory, SelfContained
    <3>3. CASE InstrIndex(if_stage.pc) # Len(instrs)
      BY <2>2, <3>1, <3>3, TickMoves DEF Fetching, InProgram, TypeOK
    <3> QED
      BY <3>2, <3>3
  <2>3. CASE ~InProgram(if_stage.pc)
    BY <1>1, <2>1, <2>3, TickMoves DEF Fetching
  <2> QED
    BY <2>2, <2>3
<1> QED
  BY <1>5, <1>6, <1>7, <1>8

\* Retiring an instruction pays for four cycles.
LEMMA FourCycles ==
  ASSUME NEW c \in Nat, NEW n \in Nat, NEW d \in Nat, c + d <= 4 * n + 4
  PROVE  /\ c <= 4 * n + 4
         /\ \A e \in 0 .. 3 : /\ e <= d - 1 => c + 1 + e <= 4 * n + 4
                             /\ c + 1 + e <= 4 * (n + 1) + 4
OBVIOUS

\* The account after a turn: an instruction retires, and another one has been
\* fetched behind it, or the oldest one moves on, which no stall and no flush
\* prevents.
LEMMA TickAccount ==
  ASSUME TypeOK, SelfContained(instrs), Account, CPIBound, Tick, status' # "finished",
         (Fetching)'
  PROVE  (nr_cycles + ToRetire <= 4 * nr_instr_retired + 4)'
<1>1. /\ nr_cycles \in Nat /\ nr_instr_retired \in Nat /\ ToRetire \in 0 .. 4
      /\ nr_cycles + ToRetire <= 4 * nr_instr_retired + 4
      /\ nr_cycles' = nr_cycles + 1
  BY MaxCyclesAssumption DEF Tick, InLoop, TypeOK, Account, ToRetire
<1>2. wb_stage.instr.type # "SYSCALL" /\ Fetching
  BY DEF Tick, InLoop, Account
<1>3. ~IsNop(mem_stage.instr) => (ToRetire)' = 0
  BY TickMoves DEF ToRetire
<1>4. IsNop(mem_stage.instr) => ~BranchTaken
  BY DEF IsNop, BranchTaken
<1>5. IsNop(mem_stage.instr) /\ ~IsNop(ex_stage.instr) => (ToRetire)' \in {0, 1}
  BY <1>4, TickMoves DEF ToRetire
<1>6. IsNop(ex_stage.instr) => ~LoadUse
  BY DEF IsNop, LoadUse, GetInstrCategory, Loads, Stores, Branches
<1>7. IsNop(mem_stage.instr) /\ IsNop(ex_stage.instr) /\ ~IsNop(id_stage.instr)
        => (ToRetire)' \in {0, 1, 2}
  BY <1>4, <1>6, TickMoves DEF ToRetire
<1>8. IsNop(mem_stage.instr) /\ IsNop(ex_stage.instr) /\ IsNop(id_stage.instr)
        => (ToRetire)' \in 0 .. 3
  <2> SUFFICES ASSUME IsNop(mem_stage.instr), IsNop(ex_stage.instr), IsNop(id_stage.instr)
               PROVE  (ToRetire)' \in 0 .. 3
    OBVIOUS
  <2>1. InProgram(if_stage.pc)
    BY <1>2 DEF Fetching, IsNop
  <2>2. ~IsNop(ReadFromInstrMemory(instrs, if_stage.pc))
    BY <2>1 DEF InProgram, ReadFromInstrMemory, SelfContained, IsNop
  <2>3. id_stage'.instr = ReadFromInstrMemory(instrs, if_stage.pc)
    BY <1>4, <1>6, TickMoves DEF IsNop
  <2> QED
    BY <2>2, <2>3 DEF ToRetire
<1>9. (ToRetire)' \in 0 .. 3
  BY <1>3, <1>5, <1>7, <1>8
<1>10. /\ (ToRetire)' <= ToRetire - 1
             => nr_cycles + 1 + (ToRetire)' <= 4 * nr_instr_retired + 4
       /\ nr_cycles + 1 + (ToRetire)' <= 4 * (nr_instr_retired + 1) + 4
  <2>1. ToRetire \in Nat
    BY <1>1
  <2> QED
    BY <1>1, <1>9, <2>1, FourCycles
<1>11. CASE IsNop(wb_stage.instr)
  <2>1. (ToRetire)' <= ToRetire - 1
    BY <1>3, <1>5, <1>7, <1>8, <1>11 DEF ToRetire
  <2>2. nr_instr_retired' = nr_instr_retired
    BY <1>1, <1>11 DEF Tick, Retires, Truth, IsNop
  <2> QED
    BY <1>1, <1>10, <2>1, <2>2
<1>12. CASE ~IsNop(wb_stage.instr)
  <2>1. nr_instr_retired' = nr_instr_retired + 1
    BY <1>12 DEF Tick, Retires, Truth, IsNop
  <2> QED
    BY <1>1, <1>10, <2>1
<1> QED
  BY <1>11, <1>12

\* Of every program that begins at one of its instructions and that control does not
\* leave before its syscall, the CPI is at most four, apart from the cycles that fill
\* the pipeline: no combination of stalls, flushes and jumps costs more (pipeline.c,
\* GetCPI; update.c, HandleHazards).
THEOREM Throughput ==
  ASSUME \A p \in Programs : SelfContained(p.instrs) => InstrIndex(p.start) \in DOMAIN p.instrs
  PROVE  Spec => []CPIBound
<1>1. Init => ThroughputInv
  <2> SUFFICES ASSUME NEW p \in Programs, InitPipeline(p), SelfContained(instrs)
               PROVE  TargetsIn /\ Account /\ CPIBound
    BY DEF Init, ThroughputInv
  <2>1. /\ instrs = p.instrs /\ if_stage.pc = p.start
        /\ nr_cycles = 0 /\ nr_instr_retired = 0
        /\ id_stage.instr = Bubble /\ ex_stage.instr = Bubble
        /\ mem_stage.instr = Bubble /\ wb_stage.instr = Bubble
    BY DEF InitPipeline, ClearedID, ClearedEx, ClearedMem, ClearedWB
  <2>2. TargetsIn
    BY <2>1, BubbleIdle, BubbleStaysIn DEF TargetsIn, Branches
  <2>3. Account /\ CPIBound
    BY <2>1, BubbleIdle DEF Account, CPIBound, Fetching, InProgram, ToRetire, IsNop
  <2> QED
    BY <2>2, <2>3
<1>2. TypeOK /\ ThroughputInv /\ [Next]_vars => ThroughputInv'
  <2> SUFFICES ASSUME TypeOK, ThroughputInv, [Next]_vars, SelfContained(instrs)'
               PROVE  (TargetsIn /\ Account /\ CPIBound)'
    BY DEF ThroughputInv
  <2>0. SelfContained(instrs) /\ TargetsIn /\ Account /\ CPIBound
    BY DEF ThroughputInv, Next, Tick, Abort, vars
  <2>1. CASE Tick
    <3>1. (TargetsIn)'
      BY <2>0, <2>1, TickTargets
    <3>2. (Account)'
      <4> SUFFICES ASSUME status' # "finished" PROVE (Account)'
        BY DEF Account
      <4>1. (Fetching)'
        BY <2>0, <2>1, TickFetching DEF Account, Tick, InLoop
      <4> QED
        BY <2>0, <2>1, <4>1, TickAccount DEF Account
    <3>3. (CPIBound)'
      <4>1. /\ nr_cycles' = nr_cycles + 1 /\ nr_cycles \in Nat /\ nr_instr_retired \in Nat
            /\ nr_instr_retired' \in {nr_instr_retired, nr_instr_retired + 1}
            /\ status' = "finished" => nr_instr_retired' = nr_instr_retired + 1
        BY <2>1, MaxCyclesAssumption DEF Tick, TypeOK, Retires, Truth
      <4>2. CASE status' = "finished"
        BY <2>0, <4>1, <4>2 DEF CPIBound
      <4>3. CASE status' # "finished"
        <5>1. (ToRetire)' \in Nat
          BY DEF ToRetire
        <5>2. nr_cycles' + (ToRetire)' <= 4 * nr_instr_retired' + 4
          BY <3>2, <4>3 DEF Account
        <5>3. nr_cycles' \in Nat /\ nr_instr_retired' \in Nat
          BY <4>1
        <5> QED
          BY <5>1, <5>2, <5>3, FourCycles DEF CPIBound
      <4> QED
        BY <4>2, <4>3
    <3> QED
      BY <3>1, <3>2, <3>3
  <2>2. CASE Abort \/ UNCHANGED vars
    <3>1. /\ UNCHANGED <<instrs, if_stage, id_stage, ex_stage, mem_stage, wb_stage,
                         nr_cycles, nr_instr_retired>>
          /\ status' # "finished" => status # "finished"
      BY <2>2 DEF Abort, vars, InLoop
    <3> QED
      BY <2>0, <3>1 DEF TargetsIn, StaysIn, InProgram, Account, Fetching, ToRetire, CPIBound
  <2> QED
    BY <2>1, <2>2 DEF Next
<1>3. ThroughputInv => CPIBound
  BY DEF ThroughputInv, CPIBound
<1> QED
  BY <1>1, <1>2, <1>3, Typing, PTL DEF Spec
=============================================================================
