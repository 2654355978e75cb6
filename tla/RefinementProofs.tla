-------------------------- MODULE RefinementProofs --------------------------
(***************************************************************************)
(* Proof that the pipeline implements the sequential machine, for every    *)
(* program whose hazards HandleHazards resolves (update.c), every size of  *)
(* a byte, number of registers and memory layout.                          *)
(***************************************************************************)
EXTENDS PipelineRefinement, PipelineProofs

-----------------------------------------------------------------------------
(* The order of the instructions in the stages, which is what the proof    *)
(* adds to the invariants of PipelineProofs.                               *)

\* What is assumed of the program that runs.
GoodProgram == HazardsResolved(instrs) /\ Assembled(instrs)

\* What is enough for control to take the right path.
GoodControl == NoJumpInShadow(instrs) /\ NoLoadUseInShadow(instrs) /\ Assembled(instrs)

\* Where control goes after an instruction, as long as no branch is taken.
After(i) == IF i.type = "J" THEN i.imm ELSE AddressOf(i) + 4

\* The oldest address that is in ID or waits to be fetched, and the oldest in
\* Ex or behind it.
FromID ==
  IF FromProgram(id_stage.instr) THEN AddressOf(id_stage.instr) ELSE if_stage.pc

FromEx == IF FromProgram(ex_stage.instr) THEN AddressOf(ex_stage.instr) ELSE FromID

\* A stage holds a bubble or an instruction of the program.
IsInFlight(i) == i = Bubble \/ \E k \in DOMAIN instrs : i = instrs[k]

InFlight ==
  /\ IsInFlight(id_stage.instr)
  /\ IsInFlight(ex_stage.instr)
  /\ IsInFlight(mem_stage.instr)

\* Behind each instruction stands the one that control goes to after it; the
\* bubbles between them do not count.
Consecutive ==
  /\ FromProgram(id_stage.instr) => if_stage.pc = AddressOf(id_stage.instr) + 4
  /\ FromProgram(ex_stage.instr) => Clipped(FromID) = Clipped(After(ex_stage.instr))
  /\ FromProgram(mem_stage.instr) => Clipped(FromEx) = Clipped(After(mem_stage.instr))

\* No bubble comes directly behind a branch, unless the program ends there.
BranchFollowed ==
  /\ ex_stage.instr.type \in Branches /\ ~FromProgram(id_stage.instr)
       => if_stage.pc >= ProgramEnd
  /\ mem_stage.instr.type \in Branches /\ FromProgram(id_stage.instr)
       => FromProgram(ex_stage.instr)

\* The instruction in Mem in the last cycle is no store.
SyscallShadow == wb_stage.instr.type = "SYSCALL" => mem_stage.instr.type \notin Stores

Ordered == InFlight /\ Consecutive /\ BranchFollowed /\ SyscallShadow

-----------------------------------------------------------------------------
(* Addresses of the program.                                               *)

\* An instruction of the program has one address, that of its place.
LEMMA Places ==
  ASSUME instrs \in Seq(Instr), Assembled(instrs), NEW k \in DOMAIN instrs
  PROVE  /\ FromProgram(instrs[k])
         /\ AddressOf(instrs[k]) = TextSegStart + 4 * (k - 1)
<1>1. \A j \in DOMAIN instrs : instrs[j].line_nr = instrs[k].line_nr <=> j = k
  BY DEF Assembled
<1>2. (CHOOSE j \in DOMAIN instrs : instrs[j].line_nr = instrs[k].line_nr) = k
  BY <1>1
<1> QED
  BY <1>2 DEF Assembled, AddressOf

\* The bubble has no place in the program.
LEMMA BubbleNotFromProgram == ~FromProgram(Bubble)
BY DEF FromProgram, Bubble, CreateInstr_Empty

\* The address of an instruction in flight is where it can be fetched.
LEMMA InFlightPlace ==
  ASSUME instrs \in Seq(Instr), Assembled(instrs), NEW i, IsInFlight(i), FromProgram(i)
  PROVE  \E k \in DOMAIN instrs :
           /\ i = instrs[k]
           /\ k \in 1 .. Len(instrs)
           /\ AddressOf(i) = TextSegStart + 4 * (k - 1)
           /\ InstrIndex(AddressOf(i)) = k
<1>1. PICK k \in DOMAIN instrs : i = instrs[k]
  BY BubbleNotFromProgram DEF IsInFlight
<1>2. AddressOf(i) = TextSegStart + 4 * (k - 1) /\ k \in 1 .. Len(instrs)
  BY <1>1, Places
<1>3. InstrIndex(AddressOf(i)) = k
  BY <1>2, TextAssumption DEF InstrIndex
<1> QED
  BY <1>1, <1>2, <1>3

\* What a fetch from a valid address gives: the instruction of that address, or
\* a bubble past the end.
LEMMA FetchPlace ==
  ASSUME instrs \in Seq(Instr), Assembled(instrs), NEW a \in Int, ValidInstrAddress(a),
         NEW i, i = ReadFromInstrMemory(instrs, a)
  PROVE  /\ IsInFlight(i)
         /\ FromProgram(i) => AddressOf(i) = a /\ a < ProgramEnd
         /\ ~FromProgram(i) => i = Bubble /\ a >= ProgramEnd
<1>1. /\ InstrIndex(a) \in Nat \ {0}
      /\ a = TextSegStart + 4 * (InstrIndex(a) - 1)
  BY TextAssumption DEF ValidInstrAddress, InstrIndex
<1>2. CASE InstrIndex(a) \in DOMAIN instrs
  <2>1. i = instrs[InstrIndex(a)]
    BY <1>2 DEF ReadFromInstrMemory
  <2>2. InstrIndex(a) \in 1 .. Len(instrs)
    BY <1>2
  <2>3. a < ProgramEnd
    BY <1>1, <2>2, TextAssumption DEF ProgramEnd
  <2> QED
    BY <1>1, <1>2, <2>1, <2>3, Places DEF IsInFlight
<1>3. CASE InstrIndex(a) \notin DOMAIN instrs
  <2>1. i = Bubble
    BY <1>3 DEF ReadFromInstrMemory
  <2>2. InstrIndex(a) > Len(instrs)
    BY <1>1, <1>3
  <2>3. a >= ProgramEnd
    BY <1>1, <2>2, TextAssumption DEF ProgramEnd
  <2> QED
    BY <2>1, <2>3, BubbleNotFromProgram DEF IsInFlight
<1> QED
  BY <1>2, <1>3

-----------------------------------------------------------------------------
(* The order of the stages is kept.                                        *)

\* The program does not change, so neither does an address in it.
LEMMA AddressStays ==
  ASSUME instrs' = instrs, NEW i
  PROVE  (AddressOf(i))' = AddressOf(i)
BY DEF AddressOf

\* The instruction that enters ID in a turn without stall, branch or jump.
LEMMA TickFetches ==
  ASSUME TypeOK, Assembled(instrs), Tick, id_stage.instr.type # "J",
         NEW i, i = ReadFromInstrMemory(instrs, if_stage.pc)
  PROVE  /\ if_stage.pc \in Int
         /\ IsInFlight(i)
         /\ FromProgram(i) => AddressOf(i) = if_stage.pc /\ if_stage.pc < ProgramEnd
         /\ ~FromProgram(i) => i = Bubble /\ if_stage.pc >= ProgramEnd
<1>1. ValidInstrAddress(if_stage.pc)
  BY NoErrors DEF Tick, FetchError
<1>2. if_stage.pc \in Int /\ instrs \in Seq(Instr)
  BY DEF TypeOK
<1> QED
  BY <1>1, <1>2, FetchPlace

\* Each stage holds a bubble or an instruction of the program.
LEMMA TickInFlight ==
  ASSUME TypeOK, Assembled(instrs), InFlight, Tick
  PROVE  InFlight'
<1>1. \A i : IsInFlight(i) => (IsInFlight(i))'
  BY TickMoves DEF IsInFlight
<1>2. IsInFlight(Bubble)
  BY DEF IsInFlight
<1>3. IsInFlight(id_stage'.instr)
  BY <1>2, TickMoves, TickFetches DEF InFlight
<1>4. IsInFlight(ex_stage'.instr) /\ IsInFlight(mem_stage'.instr)
  BY <1>2, TickMoves DEF InFlight
<1> QED
  BY <1>1, <1>3, <1>4 DEF InFlight

\* The cycle in which a branch is taken leaves bubbles in Ex and Mem.
LEMMA TakenConsecutive ==
  ASSUME Consecutive, BranchFollowed, Tick, BranchTaken
  PROVE  (Consecutive /\ BranchFollowed)'
<1>1. /\ ex_stage'.instr = Bubble /\ mem_stage'.instr = Bubble
      /\ \/ id_stage'.instr = Bubble
         \/ id_stage'.instr = id_stage.instr /\ if_stage'.pc = if_stage.pc
  BY TickMoves
<1>2. \A i : (AddressOf(i))' = AddressOf(i)
  BY TickMoves, AddressStays
<1> QED
  BY <1>1, <1>2, BubbleNotFromProgram, BubbleIdle DEF Consecutive, BranchFollowed, Branches

\* Whatever moves, what is in Ex or behind it begins where ID began, unless a
\* branch is taken; addresses past the program count as one.
LEMMA FrontKept ==
  ASSUME TypeOK, Assembled(instrs), InFlight, Tick, ~BranchTaken
  PROVE  Clipped((FromEx)') = Clipped(FromID)
<1>1. /\ \A i : (AddressOf(i))' = AddressOf(i)
      /\ ProgramEnd \in Int
  BY TickMoves, AddressStays, TextAssumption DEF ProgramEnd, TypeOK
<1>2. CASE LoadUse
  <2>1. /\ ex_stage'.instr = Bubble /\ id_stage'.instr = id_stage.instr
        /\ if_stage'.pc = if_stage.pc
    BY <1>2, TickMoves
  <2> QED
    BY <1>1, <2>1, BubbleNotFromProgram DEF FromEx, FromID
<1>3. CASE ~LoadUse /\ FromProgram(id_stage.instr)
  BY <1>1, <1>3, TickMoves DEF FromEx, FromID
<1>4. CASE ~LoadUse /\ ~FromProgram(id_stage.instr)
  <2>1. id_stage.instr.type # "J"
    BY <1>4, BubbleIdle, Places DEF InFlight, IsInFlight, TypeOK
  <2>2. /\ ex_stage'.instr = id_stage.instr
        /\ id_stage'.instr = ReadFromInstrMemory(instrs, if_stage.pc)
        /\ if_stage'.pc = if_stage.pc + 4
    BY <1>4, <2>1, TickMoves DEF NextPC
  <2>3. Clipped((FromID)') = Clipped(if_stage.pc)
    BY <1>1, <2>1, <2>2, TickFetches DEF FromID, Clipped
  <2> QED
    BY <1>4, <2>2, <2>3 DEF FromEx, FromID
<1> QED
  BY <1>2, <1>3, <1>4

\* So does a stall in Ex, while IF and ID wait.
LEMMA StalledConsecutive ==
  ASSUME TypeOK, Assembled(instrs), InFlight, Consecutive, BranchFollowed, Tick,
         ~BranchTaken, LoadUse
  PROVE  (Consecutive /\ BranchFollowed)'
<1>1. /\ ex_stage'.instr = Bubble /\ mem_stage'.instr = ex_stage.instr
      /\ id_stage'.instr = id_stage.instr /\ if_stage'.pc = if_stage.pc
      /\ instrs' = instrs
  BY TickMoves
<1>2. \A i : (AddressOf(i))' = AddressOf(i)
  BY TickMoves, AddressStays
<1>3. \A a : (Clipped(a))' = Clipped(a)
  BY <1>1 DEF Clipped, ProgramEnd
<1>4. mem_stage'.instr.type \notin Branches
  BY <1>1 DEF LoadUse, GetInstrCategory, Branches, Loads, Stores
<1> QED
  BY <1>1, <1>2, <1>3, <1>4, FrontKept, BubbleNotFromProgram, BubbleIdle
     DEF Consecutive, BranchFollowed, After, Branches

\* When every stage moves on, ID fetches what follows the instruction in it, or
\* nothing behind a jump.
LEMMA MovedConsecutive ==
  ASSUME TypeOK, Assembled(instrs), InFlight, Consecutive, BranchFollowed, Tick,
         ~BranchTaken, ~LoadUse
  PROVE  (Consecutive /\ BranchFollowed)'
<1>1. /\ ex_stage'.instr = id_stage.instr /\ mem_stage'.instr = ex_stage.instr
      /\ instrs' = instrs
      /\ if_stage'.pc = NextPC
  BY TickMoves
<1>2. \A i : (AddressOf(i))' = AddressOf(i) /\ (After(i))' = After(i)
  BY TickMoves, AddressStays DEF After
<1>3. /\ \A a : (Clipped(a))' = Clipped(a)
      /\ (ProgramEnd)' = ProgramEnd /\ ProgramEnd \in Int
  BY <1>1, TextAssumption DEF Clipped, ProgramEnd, TypeOK
<1>4. FromProgram(mem_stage'.instr)
        => (Clipped(FromEx))' = (Clipped(After(mem_stage.instr)))'
  BY <1>1, <1>2, <1>3, FrontKept DEF Consecutive
<1> DEFINE fetched == ReadFromInstrMemory(instrs, if_stage.pc)
<1>5. CASE id_stage.instr.type = "J"
  <2>1. id_stage'.instr = Bubble /\ if_stage'.pc = id_stage.instr.imm
    BY <1>1, <1>5, TickMoves DEF NextPC
  <2>2. FromProgram(id_stage.instr)
    BY <1>5, BubbleIdle, Places DEF InFlight, IsInFlight, TypeOK
  <2>3. (FromID)' = After(ex_stage'.instr)
    BY <1>1, <1>5, <2>1, BubbleNotFromProgram DEF FromID, After
  <2>4. (Consecutive)'
    BY <1>2, <1>3, <1>4, <2>1, <2>3, BubbleNotFromProgram DEF Consecutive
  <2>5. (BranchFollowed)'
    BY <1>1, <1>5, <2>1, <2>2, BubbleNotFromProgram DEF BranchFollowed, Branches
  <2> QED
    BY <2>4, <2>5
<1>6. CASE id_stage.instr.type # "J"
  <2>1. /\ id_stage'.instr = fetched /\ if_stage'.pc = if_stage.pc + 4
        /\ if_stage.pc \in Int
    BY <1>1, <1>6, TickMoves DEF NextPC, TypeOK
  <2>2. /\ FromProgram(fetched) => AddressOf(fetched) = if_stage.pc /\ if_stage.pc < ProgramEnd
        /\ ~FromProgram(fetched) => if_stage.pc >= ProgramEnd
    BY <1>6, TickFetches
  <2>3. Clipped((FromID)') = Clipped(if_stage.pc)
    BY <1>2, <1>3, <2>1, <2>2 DEF FromID, Clipped
  <2>4. FromProgram(ex_stage'.instr) => Clipped((FromID)') = Clipped(After(ex_stage'.instr))
    BY <1>1, <1>6, <2>3 DEF Consecutive, After
  <2>5. FromProgram(id_stage'.instr) => if_stage'.pc = (AddressOf(id_stage.instr))' + 4
    BY <1>2, <2>1, <2>2
  <2>6. (Consecutive)'
    BY <1>2, <1>3, <1>4, <2>4, <2>5 DEF Consecutive
  <2>7. (BranchFollowed)'
    BY <1>1, <1>3, <2>1, <2>2 DEF BranchFollowed
  <2> QED
    BY <2>6, <2>7
<1> QED
  BY <1>5, <1>6

\* Of two instructions in flight that stand one behind the other, the second is
\* the next one of the program.
LEMMA NextPlace ==
  ASSUME instrs \in Seq(Instr), Assembled(instrs),
         NEW i, IsInFlight(i), FromProgram(i), NEW j, IsInFlight(j), FromProgram(j),
         Clipped(AddressOf(j)) = Clipped(AddressOf(i) + 4)
  PROVE  \A k \in DOMAIN instrs :
           i = instrs[k] => k + 1 \in DOMAIN instrs /\ j = instrs[k + 1]
<1> SUFFICES ASSUME NEW k \in DOMAIN instrs, i = instrs[k]
             PROVE  k + 1 \in DOMAIN instrs /\ j = instrs[k + 1]
  OBVIOUS
<1>1. AddressOf(i) = TextSegStart + 4 * (k - 1) /\ k \in 1 .. Len(instrs)
  BY Places
<1>2. PICK m \in DOMAIN instrs :
        j = instrs[m] /\ m \in 1 .. Len(instrs) /\ AddressOf(j) = TextSegStart + 4 * (m - 1)
  BY InFlightPlace
<1>3. Clipped(AddressOf(j)) = AddressOf(j) /\ AddressOf(j) < ProgramEnd
  <2>1. m \in Int /\ Len(instrs) \in Int /\ m <= Len(instrs) /\ TextSegStart \in Int
    BY <1>2, TextAssumption
  <2>2. TextSegStart + 4 * (m - 1) < TextSegStart + 4 * Len(instrs)
    BY <2>1
  <2>3. AddressOf(j) \in Int /\ ProgramEnd \in Int /\ AddressOf(j) < ProgramEnd
    BY <1>2, <2>1, <2>2 DEF ProgramEnd
  <2> QED
    BY <2>3 DEF Clipped
<1>4. Clipped(AddressOf(i) + 4) = TextSegStart + 4 * k
  <2>1. k \in Int /\ Len(instrs) \in Int /\ k <= Len(instrs) /\ TextSegStart \in Int
    BY <1>1, TextAssumption
  <2>2. /\ TextSegStart + 4 * (k - 1) + 4 = TextSegStart + 4 * k
        /\ TextSegStart + 4 * k <= TextSegStart + 4 * Len(instrs)
    BY <2>1
  <2>3. AddressOf(i) + 4 = TextSegStart + 4 * k
    BY <1>1, <2>2
  <2>4. ~(AddressOf(i) + 4 > ProgramEnd)
    BY <2>1, <2>2, <2>3 DEF ProgramEnd
  <2> QED
    BY <2>3, <2>4 DEF Clipped
<1>5. m = k + 1
  <2>1. TextSegStart + 4 * (m - 1) = TextSegStart + 4 * k
    BY <1>2, <1>3, <1>4
  <2>2. m \in Int /\ k \in Int /\ TextSegStart \in Int
    BY <1>1, <1>2, TextAssumption
  <2>3. 4 * (m - 1) = 4 * k
    BY <2>1, <2>2
  <2> QED
    BY <2>2, <2>3
<1> QED
  BY <1>2, <1>5

\* No store is in Mem while a syscall is in WB.
LEMMA TickSyscallShadow ==
  ASSUME TypeOK, GoodProgram, InFlight, Consecutive, Tick
  PROVE  (SyscallShadow)'
<1> SUFFICES ASSUME mem_stage.instr.type = "SYSCALL", mem_stage'.instr.type \in Stores
             PROVE  FALSE
  BY TickMoves DEF SyscallShadow
<1>1. mem_stage'.instr = ex_stage.instr
  BY TickMoves, BubbleIdle DEF Stores
<1>2. FromProgram(mem_stage.instr) /\ FromProgram(ex_stage.instr)
  BY <1>1, BubbleIdle, Places DEF InFlight, IsInFlight, GoodProgram, TypeOK, Stores
<1>3. Clipped(AddressOf(ex_stage.instr)) = Clipped(AddressOf(mem_stage.instr) + 4)
  BY <1>2 DEF Consecutive, FromEx, After
<1>4. PICK k \in DOMAIN instrs : mem_stage.instr = instrs[k]
  BY <1>2, BubbleNotFromProgram DEF InFlight, IsInFlight
<1>5. k + 1 \in DOMAIN instrs /\ ex_stage.instr = instrs[k + 1]
  BY <1>2, <1>3, <1>4, NextPlace DEF InFlight, GoodProgram, TypeOK
<1> QED
  BY <1>1, <1>4, <1>5 DEF GoodProgram, HazardsResolved, NoStoreAfterSyscall

\* The order of the instructions survives every turn of the loop.
LEMMA TickOrdered ==
  ASSUME TypeOK, GoodProgram, Ordered, Tick
  PROVE  (Ordered)'
<1>1. (Consecutive /\ BranchFollowed)'
  BY TakenConsecutive, StalledConsecutive, MovedConsecutive DEF Ordered, GoodProgram
<1>2. (InFlight)' /\ (SyscallShadow)'
  BY TickInFlight, TickSyscallShadow DEF Ordered, GoodProgram
<1> QED
  BY <1>1, <1>2 DEF Ordered

\* When a branch is taken there is no jump in ID, and no load in Ex whose result
\* ID needs: nothing else moves the program counter in that cycle.
LEMMA ShadowClear ==
  ASSUME TypeOK, GoodControl, JumpShadowEmpty, InFlight, Consecutive, BranchFollowed,
         BranchTaken
  PROVE  ~LoadUse /\ id_stage.instr.type # "J"
<1>1. mem_stage.instr.type \in Branches
  BY DEF BranchTaken, Branches
<1>2. \A i : IsInFlight(i) => i = Bubble \/ FromProgram(i)
  BY Places DEF IsInFlight, GoodControl, TypeOK
<1>3. FromProgram(mem_stage.instr)
  BY <1>1, <1>2, BubbleIdle DEF InFlight, Branches
<1>4. PICK k \in DOMAIN instrs : mem_stage.instr = instrs[k]
  BY <1>3, BubbleNotFromProgram DEF InFlight, IsInFlight
<1>5. ASSUME FromProgram(id_stage.instr)
      PROVE  /\ k + 1 \in DOMAIN instrs /\ ex_stage.instr = instrs[k + 1]
             /\ k + 2 \in DOMAIN instrs /\ id_stage.instr = instrs[k + 2]
  <2>1. FromProgram(ex_stage.instr)
    BY <1>1, <1>5 DEF BranchFollowed
  <2>2. Clipped(AddressOf(ex_stage.instr)) = Clipped(AddressOf(mem_stage.instr) + 4)
    BY <1>1, <1>3, <2>1 DEF Consecutive, FromEx, After, Branches
  <2>3. k + 1 \in DOMAIN instrs /\ ex_stage.instr = instrs[k + 1]
    BY <1>3, <1>4, <2>1, <2>2, NextPlace DEF InFlight, GoodControl, TypeOK
  <2>4. ex_stage.instr.type # "J"
    BY <1>5, BubbleNotFromProgram DEF JumpShadowEmpty, ClearedID
  <2>5. Clipped(AddressOf(id_stage.instr)) = Clipped(AddressOf(ex_stage.instr) + 4)
    BY <1>5, <2>1, <2>4 DEF Consecutive, FromID, After
  <2>6. k + 1 + 1 \in DOMAIN instrs /\ id_stage.instr = instrs[k + 1 + 1]
    BY <1>5, <2>1, <2>3, <2>5, NextPlace DEF InFlight, GoodControl, TypeOK
  <2>7. k + 1 + 1 = k + 2
    BY DEF TypeOK
  <2> QED
    BY <2>3, <2>6, <2>7
<1>6. id_stage.instr.type # "J"
  <2> SUFFICES ASSUME id_stage.instr.type = "J" PROVE FALSE
    OBVIOUS
  <2>1. FromProgram(id_stage.instr)
    BY <1>2, BubbleIdle DEF InFlight
  <2> QED
    BY <1>1, <1>4, <1>5, <2>1 DEF GoodControl, NoJumpInShadow
<1>7. ~LoadUse
  <2> SUFFICES ASSUME LoadUse PROVE FALSE
    OBVIOUS
  <2>1. id_stage.instr # Bubble
    BY BubbleIdle DEF LoadUse, ExConflict, Writes, ReadByID
  <2>2. FromProgram(id_stage.instr)
    BY <1>2, <2>1 DEF InFlight
  <2>3. GetRegWrittenByInstr(ex_stage.instr) = ex_stage.instr.rt
    BY DEF LoadUse, GetInstrCategory, GetRegWrittenByInstr, Loads, Stores, RegisterOps,
           ImmediateOps
  <2>4. Reads(id_stage.instr, ex_stage.instr.rt)
    BY <2>3 DEF LoadUse, ExConflict, Writes, Reads, ReadByID
  <2> QED
    BY <1>1, <1>4, <1>5, <2>2, <2>4 DEF GoodControl, NoLoadUseInShadow, LoadUse
<1> QED
  BY <1>6, <1>7

\* Where Mem begins after a turn, when no branch is taken.
LEMMA FrontAdvances ==
  ASSUME TypeOK, Assembled(instrs), InFlight, Tick, ~BranchTaken
  PROVE  Clipped((OldestPC)') = Clipped(FromEx)
<1>1. /\ \A i : (AddressOf(i))' = AddressOf(i)
      /\ mem_stage'.instr = ex_stage.instr
  BY TickMoves, AddressStays
<1>2. CASE FromProgram(ex_stage.instr)
  BY <1>1, <1>2 DEF OldestPC, FromEx
<1>3. CASE ~FromProgram(ex_stage.instr)
  <2>1. (OldestPC)' = (FromEx)' /\ FromEx = FromID
    BY <1>1, <1>3 DEF OldestPC, FromEx, FromID
  <2> QED
    BY <2>1, FrontKept
<1> QED
  BY <1>2, <1>3

-----------------------------------------------------------------------------
(* Instructions complete along the path of control.                        *)

\* The immediate value goes with the instruction in Ex.
ImmediateKept == FromProgram(ex_stage.instr) => ex_stage.imm_value = ex_stage.instr.imm

\* What a branch in Mem goes by is its own.
BranchKept ==
  LET i == mem_stage.instr
  IN  FromProgram(i) =>
        /\ mem_stage.zero = ZeroFlag(mem_stage.alu_result)
        /\ i.type \in Branches => mem_stage.branch_target = i.imm

\* The immediate value follows the instruction into Ex.
LEMMA TickImmediate ==
  ASSUME Tick
  PROVE  (ImmediateKept)'
<1>1. CASE LoadUse \/ BranchTaken
  BY <1>1, TickMoves, BubbleNotFromProgram DEF ImmediateKept
<1>2. CASE ~LoadUse /\ ~BranchTaken
  <2>1. ex_stage' = ForwardedFromEx /\ FlushedEx = ComputedEx
    BY <1>2 DEF Tick, NextEx, FlushedEx
  <2>2. /\ ComputedEx.imm_value = id_stage.instr.imm
        /\ DOMAIN ComputedEx = {"instr", "rs_value", "rt_value", "imm_value"}
    BY DEF ComputedEx
  <2>3. ForwardedFromEx.imm_value = id_stage.instr.imm
    BY <2>1, <2>2 DEF ForwardedFromEx, ForwardedFromMem
  <2> QED
    BY <1>2, <2>1, <2>3, TickMoves DEF ImmediateKept
<1> QED
  BY <1>1, <1>2

\* The zero flag and the target follow a branch into Mem.
LEMMA TickBranch ==
  ASSUME ImmediateKept, Tick
  PROVE  (BranchKept)'
<1>1. CASE BranchTaken
  BY <1>1, TickMoves, BubbleNotFromProgram DEF BranchKept
<1>2. CASE ~BranchTaken
  BY <1>2 DEF Tick, NextMem, FlushedMem, ComputedMem, BranchKept, ImmediateKept
<1> QED
  BY <1>1, <1>2

\* The inductive invariant, for the programs the property is about.
ControlInv ==
  GoodControl =>
    /\ InFlight /\ Consecutive /\ BranchFollowed
    /\ ImmediateKept /\ BranchKept
    /\ CompletesInOrder

\* The instruction that enters WB is followed by the one control goes to.
LEMMA TickCompletes ==
  ASSUME TypeOK, JumpShadowEmpty, GoodControl, InFlight, Consecutive, BranchFollowed,
         BranchKept, Tick
  PROVE  (CompletesInOrder)'
<1> DEFINE i == mem_stage.instr
<1>1. /\ wb_stage'.instr = i /\ instrs' = instrs
      /\ i.type \in Branches => wb_stage'.result = mem_stage.alu_result
  BY DEF Tick, NextWB, ComputedWB, Loads, Stores, Branches
<1>2. /\ \A x : (AddressOf(x))' = AddressOf(x)
      /\ \A a : (Clipped(a))' = Clipped(a)
  BY <1>1, AddressStays DEF Clipped, ProgramEnd
<1> SUFFICES ASSUME FromProgram(i) PROVE Clipped((OldestPC)') = Clipped((Successor)')
  BY <1>1, <1>2 DEF CompletesInOrder
<1>3. (WasTaken)' <=> BranchTaken
  <2>1. CASE i.type \in Branches
    <3>1. mem_stage.zero = IF mem_stage.alu_result = 0 THEN 1 ELSE 0
      BY DEF BranchKept, ZeroFlag, Truth
    <3> QED
      BY <1>1, <2>1, <3>1 DEF WasTaken, BranchTaken
  <2>2. CASE i.type \notin Branches
    BY <1>1, <2>2 DEF WasTaken, BranchTaken, Branches
  <2> QED
    BY <2>1, <2>2
<1>4. CASE BranchTaken
  <2>1. ~LoadUse /\ id_stage.instr.type # "J"
    BY <1>4, ShadowClear
  <2>2. /\ if_stage'.pc = mem_stage.branch_target
        /\ mem_stage'.instr = Bubble /\ ex_stage'.instr = Bubble /\ id_stage'.instr = Bubble
    BY <1>4, <2>1, TickMoves DEF NextPC
  <2>3. (OldestPC)' = mem_stage.branch_target
    BY <2>2, BubbleNotFromProgram DEF OldestPC
  <2>4. mem_stage.branch_target = i.imm
    BY <1>4 DEF BranchKept, BranchTaken, Branches
  <2>5. (Successor)' = i.imm
    BY <1>1, <1>3, <1>4 DEF Successor
  <2> QED
    BY <2>3, <2>4, <2>5
<1>5. CASE ~BranchTaken
  <2>1. Clipped((OldestPC)') = Clipped(FromEx)
    BY <1>5, FrontAdvances DEF GoodControl
  <2>2. Clipped(FromEx) = Clipped(After(i))
    BY DEF Consecutive
  <2>3. (Successor)' = After(i)
    BY <1>1, <1>2, <1>3, <1>5 DEF Successor, After
  <2> QED
    BY <2>1, <2>2, <2>3
<1> QED
  BY <1>4, <1>5

\* Of every assembled program in which no jump and no load with its use stands behind
\* a branch, the instructions that reach WB do so along the path of control, whatever
\* values they compute and however the program ends (update.c, HandleHazards,
\* ComputeNextIFStage).
THEOREM ControlPath ==
  ASSUME \A p \in Programs : Assembled(p.instrs)
  PROVE  Spec => []CompletesInOrder
<1>1. Init => Assembled(instrs) /\ ControlInv
  <2> SUFFICES ASSUME Init PROVE Assembled(instrs) /\ ControlInv
    OBVIOUS
  <2>1. Assembled(instrs)
    BY DEF Init, InitPipeline
  <2>2. /\ id_stage.instr = Bubble /\ ex_stage.instr = Bubble
        /\ mem_stage.instr = Bubble /\ wb_stage.instr = Bubble
    BY DEF Init, InitPipeline, ClearedID, ClearedEx, ClearedMem, ClearedWB
  <2>3. InFlight /\ Consecutive /\ BranchFollowed
    BY <2>2, BubbleIdle, BubbleNotFromProgram
       DEF InFlight, IsInFlight, Consecutive, BranchFollowed, Branches
  <2>4. ImmediateKept /\ BranchKept /\ CompletesInOrder
    BY <2>2, BubbleNotFromProgram DEF ImmediateKept, BranchKept, CompletesInOrder
  <2> QED
    BY <2>1, <2>3, <2>4 DEF ControlInv
<1>2. /\ TypeOK /\ JumpShadowEmpty /\ Assembled(instrs) /\ ControlInv
      /\ [Next]_vars
      => Assembled(instrs)' /\ ControlInv'
  <2> SUFFICES ASSUME TypeOK, JumpShadowEmpty, Assembled(instrs), ControlInv, [Next]_vars
               PROVE  Assembled(instrs)' /\ ControlInv'
    OBVIOUS
  <2>1. instrs' = instrs
    BY DEF Next, Tick, Abort, vars
  <2> SUFFICES ASSUME GoodControl
               PROVE  (InFlight /\ Consecutive /\ BranchFollowed /\ ImmediateKept
                       /\ BranchKept /\ CompletesInOrder)'
    BY <2>1 DEF ControlInv, GoodControl
  <2>2. /\ InFlight /\ Consecutive /\ BranchFollowed
        /\ ImmediateKept /\ BranchKept /\ CompletesInOrder
    BY DEF ControlInv
  <2>3. CASE Tick
    <3>1. (Consecutive /\ BranchFollowed)'
      BY <2>2, <2>3, TakenConsecutive, StalledConsecutive, MovedConsecutive
    <3>2. (InFlight)' /\ (ImmediateKept)' /\ (BranchKept)' /\ (CompletesInOrder)'
      BY <2>2, <2>3, TickInFlight, TickImmediate, TickBranch, TickCompletes
    <3> QED
      BY <3>1, <3>2
  <2>4. CASE Abort \/ UNCHANGED vars
    <3>1. UNCHANGED <<instrs, if_stage, id_stage, ex_stage, mem_stage, wb_stage>>
      BY <2>4 DEF Abort, vars
    <3>2. \A i : (AddressOf(i))' = AddressOf(i)
      BY <3>1, AddressStays
    <3>3. (InFlight /\ Consecutive /\ BranchFollowed)'
      BY <2>2, <3>1, <3>2 DEF InFlight, IsInFlight, Consecutive, BranchFollowed, Clipped,
         ProgramEnd, FromEx, FromID, After
    <3>4. (ImmediateKept /\ BranchKept)'
      BY <2>2, <3>1 DEF ImmediateKept, BranchKept
    <3>5. (CompletesInOrder)'
      BY <2>2, <3>1, <3>2 DEF CompletesInOrder, Clipped, ProgramEnd, OldestPC, Successor,
         WasTaken
    <3> QED
      BY <3>3, <3>4, <3>5
  <2> QED
    BY <2>3, <2>4 DEF Next
<1>3. Assembled(instrs) /\ ControlInv => CompletesInOrder
  BY DEF ControlInv, GoodControl, CompletesInOrder
<1> QED
  BY <1>1, <1>2, <1>3, Typing, JumpShadow, PTL DEF Spec

-----------------------------------------------------------------------------
(* The Mem stage holds what the sequential machine computes.               *)

\* What the instruction in Mem has to read: everything ahead of it is done.
Operand(r) == ReadRegister(UpdatedRegisters, r)

MemFresh ==
  LET i == mem_stage.instr
  IN  FromProgram(i) =>
        /\ i.type \notin Pseudo
        /\ mem_stage.alu_result = AluResult(i.type, Operand(i.rs), Operand(i.rt), i.imm)
        /\ mem_stage.zero = ZeroFlag(mem_stage.alu_result)
        /\ i.type \in Stores => mem_stage.rt_value = Operand(i.rt)
        /\ i.type \in Branches => mem_stage.branch_target = i.imm

\* No register is the DONT_CARE of an unused field.
LEMMA RegNrProper == DONT_CARE \notin RegNr
BY DEF DONT_CARE, RegNr

\* The instructions that have to read a register of their format do so.
LEMMA ReadsFormat ==
  ASSUME NEW i, HasOperands(i)
  PROVE  /\ i.type \in RegisterOps \cup Stores \cup Branches
              => /\ GetRegsReadByInstr(i) = [rs |-> i.rs, rt |-> i.rt]
                 /\ i.rs # DONT_CARE /\ i.rt # DONT_CARE
         /\ i.type \in ImmediateOps \cup Loads
              => GetRegsReadByInstr(i).rs = i.rs /\ i.rs # DONT_CARE
<1>1. CASE i.type \in RegisterOps \cup Stores \cup Branches
  <2>1. i.rs \in RegNr /\ i.rt \in RegNr
    BY <1>1 DEF HasOperands
  <2>2. i.type \notin ImmediateOps \cup Loads \cup {"INCR", "DECR"}
    BY <1>1 DEF RegisterOps, Stores, Branches, ImmediateOps, Loads
  <2>3. GetRegsReadByInstr(i) = [rs |-> i.rs, rt |-> i.rt]
    BY <1>1, <2>2, Zenon DEF GetRegsReadByInstr
  <2> QED
    BY <2>1, <2>2, <2>3, RegNrProper
<1>2. CASE i.type \in ImmediateOps \cup Loads
  <2>1. i.type \notin RegisterOps \cup Stores \cup Branches \cup {"INCR", "DECR"}
    BY <1>2 DEF RegisterOps, Stores, Branches, ImmediateOps, Loads
  <2>2. GetRegsReadByInstr(i).rs = i.rs
    BY <1>2, <2>1 DEF GetRegsReadByInstr
  <2> QED
    BY <1>2, <2>1, <2>2, RegNrProper DEF HasOperands
<1> QED
  BY <1>1, <1>2

\* The ALU looks only at the operands that the instruction reads.
LEMMA AluReads ==
  ASSUME NEW i, i.type \in InstrType \ Pseudo, HasOperands(i), NEW x, NEW y, NEW u, NEW v,
         GetRegsReadByInstr(i).rs # DONT_CARE => x = u,
         GetRegsReadByInstr(i).rt # DONT_CARE => y = v
  PROVE  AluResult(i.type, x, y, i.imm) = AluResult(i.type, u, v, i.imm)
<1>1. CASE i.type \in RegisterOps \cup Branches
  <2>1. x = u /\ y = v
    BY <1>1, ReadsFormat
  <2> QED
    BY <2>1
<1>2. CASE i.type \in ImmediateOps \cup Loads \cup Stores
  <2>1. x = u
    BY <1>2, ReadsFormat
  <2> QED
    BY <1>2, <2>1 DEF AluResult, ImmediateOps, Loads, Stores, Branches
<1>3. CASE i.type \in {"NOP", "LUI", "J", "SYSCALL"}
  BY <1>3 DEF AluResult, Loads, Stores, Branches
<1> QED
  BY <1>1, <1>2, <1>3 DEF InstrType

\* What was fresh in Ex is what the registers hold when the instruction is in Mem.
LEMMA FreshOperand ==
  ASSUME TypeOK, StagesForwardable, Tick, NEW r \in RegNr
  PROVE  (Operand(r))' = FreshValue(r)
<1>1. CASE r = ZERO
  BY <1>1 DEF Operand, ReadRegister, FreshValue, Writes, StagesForwardable, Forwardable
<1>2. CASE r # ZERO
  BY <1>2, NextUpdatedRegisters DEF Operand, FreshValue
<1> QED
  BY <1>1, <1>2

\* The instruction that enters Mem has been computed from those operands.
LEMMA TickMemFresh ==
  ASSUME TypeOK, GoodProgram, StagesForwardable, InFlight, OperandsFresh, ImmediateKept, Tick
  PROVE  (MemFresh)'
<1> SUFFICES ASSUME NEW i, i = ex_stage.instr, FromProgram(mem_stage'.instr)
             PROVE  (MemFresh)'
  BY DEF MemFresh
<1> DEFINE read == GetRegsReadByInstr(i)
<1>1. ~BranchTaken /\ mem_stage'.instr = i /\ FromProgram(i)
  BY TickMoves, BubbleNotFromProgram
<1>2. mem_stage' = ComputedMem
  BY <1>1 DEF Tick, NextMem, FlushedMem
<1>3. i.type \notin Pseudo
  BY NoErrors DEF Tick, ExError, AluFails, Unhandled
<1>4. /\ i \in Instr /\ HasOperands(i)
      /\ read \in [rs : RegNr \cup {DONT_CARE}, rt : RegNr \cup {DONT_CARE}]
  <2>1. HasOperands(i)
    BY <1>1, BubbleNotFromProgram DEF InFlight, IsInFlight, GoodProgram, Assembled
  <2> QED
    BY <2>1, OperandsTyped DEF TypeOK
<1>5. /\ read.rs # DONT_CARE => read.rs = i.rs /\ ex_stage.rs_value = (Operand(i.rs))'
      /\ read.rt # DONT_CARE => read.rt = i.rt /\ ex_stage.rt_value = (Operand(i.rt))'
  <2>1. read.rs \in {DONT_CARE, i.rs} /\ read.rt \in {DONT_CARE, i.rt}
    BY <1>3, OperandFields
  <2>2. /\ read.rs # DONT_CARE => ex_stage.rs_value = FreshValue(read.rs)
        /\ read.rt # DONT_CARE => ex_stage.rt_value = FreshValue(read.rt)
    BY <1>3 DEF OperandsFresh
  <2> QED
    BY <1>4, <2>1, <2>2, FreshOperand
<1>6. mem_stage'.alu_result
        = AluResult(i.type, (Operand(i.rs))', (Operand(i.rt))', i.imm)
  <2>1. mem_stage'.alu_result = AluResult(i.type, ex_stage.rs_value, ex_stage.rt_value, i.imm)
    BY <1>1, <1>2 DEF ComputedMem, ExAlu, ImmediateKept
  <2> QED
    BY <1>3, <1>4, <1>5, <2>1, AluReads DEF Instr
<1>7. i.type \in Stores => mem_stage'.rt_value = (Operand(i.rt))'
  <2>1. i.type \in Stores => read.rt # DONT_CARE
    BY <1>4, ReadsFormat
  <2> QED
    BY <1>2, <1>5, <2>1 DEF ComputedMem
<1>8. mem_stage'.zero = ZeroFlag(mem_stage'.alu_result)
  BY <1>2 DEF ComputedMem
<1>9. i.type \in Branches => mem_stage'.branch_target = i.imm
  BY <1>1, <1>2 DEF ComputedMem, ImmediateKept
<1> QED
  BY <1>1, <1>3, <1>6, <1>7, <1>8, <1>9 DEF MemFresh

-----------------------------------------------------------------------------
(* The instance of SequentialMips has its own copy of the ALU, the         *)
(* instruction memory and the data memory.                                 *)

\* The sets of instruction types are the same.
LEMMA SameTypes ==
  /\ Sequential!Loads = Loads /\ Sequential!Stores = Stores
  /\ Sequential!Branches = Branches /\ Sequential!RegisterOps = RegisterOps
  /\ Sequential!ImmediateOps = ImmediateOps /\ Sequential!Pseudo = Pseudo
  /\ Sequential!RegNr = RegNr /\ Sequential!DONT_CARE = DONT_CARE /\ Sequential!ZERO = ZERO
BY DEF Sequential!Loads, Loads, Sequential!Stores, Stores, Sequential!Branches, Branches,
   Sequential!RegisterOps, RegisterOps, Sequential!ImmediateOps, ImmediateOps,
   Sequential!Pseudo, Pseudo, Sequential!RegNr, RegNr, Sequential!DONT_CARE, DONT_CARE,
   Sequential!ZERO, ZERO

\* So are the sizes of the integers.
LEMMA SameSizes ==
  /\ Sequential!ByteSize = ByteSize /\ Sequential!WordBits = WordBits
  /\ Sequential!HalfSize = HalfSize /\ Sequential!WordSize = WordSize
  /\ Sequential!RegValue = RegValue
BY DEF Sequential!ByteSize, ByteSize, Sequential!WordBits, WordBits, Sequential!HalfSize,
   HalfSize, Sequential!WordSize, WordSize, Sequential!RegValue, RegValue, Sequential!RegMin,
   RegMin

\* And the operators on words.
LEMMA SameWords ==
  ASSUME NEW v, NEW w
  PROVE  /\ Sequential!MaskWord(v) = MaskWord(v)
         /\ Sequential!ShiftCount(v) = ShiftCount(v)
         /\ Sequential!BitAnd(v, w) = BitAnd(v, w)
         /\ Sequential!BitOr(v, w) = BitOr(v, w)
         /\ Sequential!BitNor(v, w) = BitNor(v, w)
         /\ Sequential!FitsRegister(v) = FitsRegister(v)
<1>1. \A S : Sequential!FromBits(S) = FromBits(S)
  BY SameSizes DEF Sequential!FromBits, FromBits
<1>2. Sequential!Bits(v) = Bits(v) /\ Sequential!Bits(w) = Bits(w)
  BY SameSizes DEF Sequential!Bits, Bits
<1>3. /\ Sequential!BitAnd(v, w) = BitAnd(v, w)
      /\ Sequential!BitOr(v, w) = BitOr(v, w)
      /\ Sequential!BitNor(v, w) = BitNor(v, w)
  BY <1>1, <1>2 DEF Sequential!BitAnd, BitAnd, Sequential!BitOr, BitOr, Sequential!BitNor,
     BitNor
<1> QED
  BY <1>3, SameSizes DEF Sequential!MaskWord, MaskWord, Sequential!ShiftCount, ShiftCount,
     Sequential!FitsRegister, FitsRegister

\* And the ALU.
LEMMA SameAlu ==
  ASSUME NEW type, NEW x, NEW y, NEW imm
  PROVE  Sequential!AluResult(type, x, y, imm) = AluResult(type, x, y, imm)
<1>1. \A v, n : /\ Sequential!ShiftLeft(v, n) = ShiftLeft(v, n)
                /\ Sequential!ShiftRight(v, n) = ShiftRight(v, n)
  BY SameWords, SameSizes, SameTypes DEF Sequential!ShiftLeft, ShiftLeft,
     Sequential!ShiftRight, ShiftRight
<1>2. \A b : Sequential!Truth(b) = Truth(b)
  BY DEF Sequential!Truth, Truth
<1> QED
  BY <1>1, <1>2, SameWords, SameTypes, SameSizes DEF Sequential!AluResult, AluResult

\* And the two memories.
LEMMA SameMemories ==
  ASSUME NEW a, NEW n, NEW v, NEW b, NEW m, NEW code
  PROVE  /\ Sequential!ReadFromInstrMemory(code, a) = ReadFromInstrMemory(code, a)
         /\ Sequential!InstrIndex(a) = InstrIndex(a)
         /\ Sequential!ValidDataAddress(a, n) = ValidDataAddress(a, n)
         /\ Sequential!WriteFits(v, n) = WriteFits(v, n)
         /\ Sequential!ReadFromDataMemory(m, a, n, b) = ReadFromDataMemory(m, a, n, b)
         /\ Sequential!WriteToDataMemory(m, a, v, n) = WriteToDataMemory(m, a, v, n)
<1>1. /\ Sequential!InstrIndex(a) = InstrIndex(a)
      /\ Sequential!Bubble = Bubble
  BY SameTypes DEF Sequential!InstrIndex, InstrIndex, Sequential!Bubble, Bubble,
     Sequential!CreateInstr_Empty, CreateInstr_Empty
<1>2. /\ Sequential!Capacity(n) = Capacity(n)
      /\ Sequential!ReadFromBuffer(m, a, n) = ReadFromBuffer(m, a, n)
      /\ \A k : Sequential!ByteOf(v, k) = ByteOf(v, k)
      /\ Sequential!MemoryAddresses = MemoryAddresses
  BY SameSizes DEF Sequential!Capacity, Capacity, Sequential!ReadFromBuffer, ReadFromBuffer,
     Sequential!ByteOf, ByteOf, Sequential!MemoryAddresses, MemoryAddresses
<1> QED
  BY <1>1, <1>2 DEF Sequential!ReadFromInstrMemory, ReadFromInstrMemory,
     Sequential!ValidDataAddress, ValidDataAddress, Sequential!WriteFits, WriteFits,
     Sequential!ReadFromDataMemory, ReadFromDataMemory, Sequential!WriteToDataMemory,
     WriteToDataMemory

-----------------------------------------------------------------------------
(* One turn of the loop against one instruction of the sequential machine. *)

\* The invariant under which a turn does what the sequential machine does.
RefinementInv ==
  /\ TypeOK /\ GoodProgram /\ StagesForwardable
  /\ OperandsFresh /\ JumpShadowEmpty
  /\ Ordered /\ ImmediateKept /\ MemFresh

\* The two ways to read a register agree.
LEMMA SameRegister ==
  ASSUME NEW c, NEW r \in RegNr
  PROVE  Sequential!Register(c, r) = ReadRegister(c, r)
BY SameTypes, RegNrProper DEF Sequential!Register, ReadRegister

\* The turn after a syscall has left Mem, the last one, changes nothing that the
\* sequential machine has: nothing but its end is left to come.
LEMMA LastTurn ==
  ASSUME RefinementInv, Tick, wb_stage.instr.type = "SYSCALL"
  PROVE  UNCHANGED Sequential!seqVars
<1>1. status = "running" /\ status' = "finished"
  BY DEF Tick, InLoop
<1>2. mem' = mem
  BY DEF Tick, UpdatedMemory, RefinementInv, Ordered, SyscallShadow
<1>3. contents' = UpdatedRegisters /\ instrs' = instrs
  BY DEF Tick
<1>4. nr_instr_retired' = nr_instr_retired + 1
  BY DEF Tick, Retires, Truth
<1>5. /\ Halted /\ (Halted)'
      /\ SeqContents' = SeqContents /\ SeqMode' = SeqMode /\ SeqPC' = SeqPC
  BY <1>1, <1>3 DEF Halted, SeqContents, SeqMode, SeqPC
<1>6. SeqRetired' = SeqRetired
  BY <1>1, <1>4 DEF SeqRetired, Truth
<1> QED
  BY <1>2, <1>3, <1>5, <1>6 DEF Sequential!seqVars

\* While the program runs, what WB receives is already counted and written.
LEMMA TurnCounts ==
  ASSUME RefinementInv, Tick, wb_stage.instr.type # "SYSCALL"
  PROVE  /\ status = "running" /\ status' = "running"
         /\ ~Halted /\ ((Halted)' <=> mem_stage.instr.type = "SYSCALL")
         /\ SeqContents = UpdatedRegisters
         /\ SeqContents' = IF GetRegWrittenByInstr(mem_stage.instr) = DONT_CARE
                             THEN UpdatedRegisters
                             ELSE WriteToRegisterFile(UpdatedRegisters,
                                                      GetRegWrittenByInstr(mem_stage.instr),
                                                      ComputedWB.result)
         /\ SeqRetired' = SeqRetired + Truth(mem_stage.instr.type # "NOP")
<1>1. /\ status = "running" /\ status' = "running"
      /\ wb_stage' = ComputedWB /\ ComputedWB.instr = mem_stage.instr
      /\ contents' = UpdatedRegisters
      /\ nr_instr_retired' = nr_instr_retired + Truth(wb_stage.instr.type # "NOP")
  BY DEF Tick, InLoop, NextWB, ComputedWB, Retires
<1>2. ~Halted /\ ((Halted)' <=> mem_stage.instr.type = "SYSCALL")
  BY <1>1 DEF Halted
<1>3. /\ SeqContents = UpdatedRegisters
      /\ SeqContents' = (UpdatedRegisters)'
  BY <1>1 DEF SeqContents
<1>4. (UpdatedRegisters)' = IF GetRegWrittenByInstr(mem_stage.instr) = DONT_CARE
                             THEN UpdatedRegisters
                             ELSE WriteToRegisterFile(UpdatedRegisters,
                                                      GetRegWrittenByInstr(mem_stage.instr),
                                                      ComputedWB.result)
  BY <1>1 DEF UpdatedRegisters, WrittenBack
<1>5. SeqRetired' = SeqRetired + Truth(mem_stage.instr.type # "NOP")
  BY <1>1 DEF SeqRetired
<1> QED
  BY <1>1, <1>2, <1>3, <1>4, <1>5

\* A turn with a bubble in Mem is no step of the sequential machine.
LEMMA IdleTurn ==
  ASSUME RefinementInv, Tick, wb_stage.instr.type # "SYSCALL",
         ~FromProgram(mem_stage.instr)
  PROVE  UNCHANGED Sequential!seqVars
<1>1. mem_stage.instr = Bubble
  BY Places DEF RefinementInv, Ordered, InFlight, IsInFlight, GoodProgram, TypeOK
<1>2. ~BranchTaken
  BY <1>1, BubbleIdle DEF BranchTaken
<1>3. SeqContents' = SeqContents /\ SeqMode' = SeqMode
  BY <1>1, BubbleIdle, TurnCounts DEF SeqMode
<1>4. SeqRetired' = SeqRetired
  BY <1>1, BubbleIdle, TurnCounts DEF SeqRetired, Truth, RefinementInv, TypeOK
<1>5. mem' = mem /\ instrs' = instrs
  BY <1>1, BubbleIdle DEF Tick, UpdatedMemory, Stores
<1>6. SeqPC' = SeqPC
  <2>1. Clipped((OldestPC)') = Clipped(OldestPC)
    BY <1>1, <1>2, BubbleNotFromProgram, FrontAdvances
       DEF OldestPC, FromEx, FromID, RefinementInv, GoodProgram, Ordered
  <2>2. \A a : (Clipped(a))' = Clipped(a)
    BY <1>5 DEF Clipped, ProgramEnd
  <2>3. ~Halted /\ ~(Halted)'
    BY <1>1, BubbleIdle, TurnCounts
  <2>4. SeqPC = Clipped(OldestPC) /\ SeqPC' = (Clipped(OldestPC))'
    BY <2>3 DEF SeqPC, Clipped
  <2> QED
    BY <2>1, <2>2, <2>4
<1> QED
  BY <1>3, <1>4, <1>5, <1>6 DEF Sequential!seqVars

\* What the Mem stage holds is what the sequential machine computes.
LEMMA SameComputation ==
  ASSUME RefinementInv, NEW i, i = mem_stage.instr, FromProgram(i),
         NEW m, m.contents = UpdatedRegisters
  PROVE  /\ i \in Instr /\ HasOperands(i) /\ i.type \notin Pseudo
         /\ Sequential!Computed(i, m) = mem_stage.alu_result
         /\ i.type \in Stores => Sequential!Register(m.contents, i.rt) = mem_stage.rt_value
         /\ Sequential!Taken(i, m) <=> BranchTaken
<1>1. i \in Instr /\ HasOperands(i) /\ i.type \notin Pseudo
  <2>1. HasOperands(i)
    BY BubbleNotFromProgram
       DEF RefinementInv, Ordered, InFlight, IsInFlight, GoodProgram, Assembled
  <2> QED
    BY <2>1 DEF RefinementInv, TypeOK, MemFresh
<1> DEFINE read == GetRegsReadByInstr(i)
           x == Sequential!Register(m.contents, i.rs)
           y == Sequential!Register(m.contents, i.rt)
<1>2. \A r \in RegNr : Sequential!Register(m.contents, r) = Operand(r)
  BY SameRegister DEF Operand
<1>3. /\ read.rs # DONT_CARE => Operand(i.rs) = x
      /\ read.rt # DONT_CARE => Operand(i.rt) = y
  BY <1>1, <1>2, OperandFields DEF Instr
<1>4. Sequential!Computed(i, m) = mem_stage.alu_result
  <2>1. Sequential!Computed(i, m) = AluResult(i.type, x, y, i.imm)
    BY SameAlu DEF Sequential!Computed
  <2>2. AluResult(i.type, Operand(i.rs), Operand(i.rt), i.imm) = AluResult(i.type, x, y, i.imm)
    BY <1>1, <1>3, AluReads DEF Instr
  <2> QED
    BY <2>1, <2>2 DEF RefinementInv, MemFresh
<1>5. i.type \in Stores => y = mem_stage.rt_value
  BY <1>2, <1>1 DEF RefinementInv, MemFresh, HasOperands
<1>6. Sequential!Taken(i, m) <=> BranchTaken
  <2>1. CASE i.type \in Branches
    <3>1. i.rs \in RegNr /\ i.rt \in RegNr
      BY <1>1, <2>1 DEF HasOperands
    <3>2. x = Operand(i.rs) /\ y = Operand(i.rt)
      BY <1>2, <3>1
    <3>3. Operand(i.rs) \in Int /\ Operand(i.rt) \in Int
      BY <3>1, RegValues DEF RefinementInv, TypeOK, Operand, UpdatedRegisters, ReadRegister,
         WriteToRegisterFile
    <3>4. mem_stage.alu_result = Operand(i.rs) - Operand(i.rt)
      BY <2>1 DEF RefinementInv, MemFresh, AluResult, Loads, Stores, Branches
    <3>5. mem_stage.zero = IF x = y THEN 1 ELSE 0
      BY <3>2, <3>3, <3>4 DEF RefinementInv, MemFresh, ZeroFlag, Truth
    <3> QED
      BY <3>5 DEF Sequential!Taken, BranchTaken
  <2>2. CASE i.type \notin Branches
    BY <2>2 DEF Sequential!Taken, BranchTaken, Branches
  <2> QED
    BY <2>1, <2>2
<1> QED
  BY <1>1, <1>4, <1>5, <1>6

\* An instruction that the pipeline completes does not trap.
LEMMA CompletesUntrapped ==
  ASSUME RefinementInv, Tick, NEW i, i = mem_stage.instr, FromProgram(i),
         NEW m, m.contents = UpdatedRegisters
  PROVE  ~Sequential!Traps(i, m)
<1>1. i.type \notin Pseudo
  BY SameComputation
<1>2. FitsRegister(mem_stage.alu_result)
  BY DEF RefinementInv, TypeOK, FitsRegister
<1>3. i.type \in Loads \cup Stores => Sequential!AccessSize(i.type) = MemBytes
  BY DEF Sequential!AccessSize, MemBytes
<1>4. i.type \in Loads \cup Stores => ValidDataAddress(mem_stage.alu_result, MemBytes)
  BY NoErrors DEF Tick, AddressError, DataAccess
<1>5. i.type \in Stores => WriteFits(mem_stage.rt_value, MemBytes)
  BY NoErrors DEF Tick, StoreError
<1> QED
  BY <1>1, <1>2, <1>3, <1>4, <1>5, SameComputation, SameTypes, SameWords, SameMemories
     DEF Sequential!Traps

\* The registers after it.
LEMMA SameContents ==
  ASSUME RefinementInv, Tick, wb_stage.instr.type # "SYSCALL",
         NEW i, i = mem_stage.instr, FromProgram(i),
         NEW m, m.contents = UpdatedRegisters, m.mem = mem
  PROVE  SeqContents' = Sequential!Executed(instrs, i, m).contents
<1> DEFINE r == GetRegWrittenByInstr(i)
<1>1. i \in Instr /\ HasOperands(i) /\ i.type \notin Pseudo
  BY SameComputation
<1>2. r # ZERO
  BY DEF RefinementInv, StagesForwardable, Forwardable
<1>3. Sequential!Destination(i) = IF r = DONT_CARE THEN ZERO ELSE r
  <2>1. CASE i.type \in RegisterOps
    <3>1. i.type \notin ImmediateOps \cup Loads \cup {"LUI", "LI", "INCR", "DECR"}
      BY <2>1 DEF RegisterOps, ImmediateOps, Loads
    <3>2. i.rd \in RegNr
      BY <1>1, <2>1 DEF HasOperands
    <3> QED
      BY <2>1, <3>1, <3>2, SameTypes, RegNrProper
         DEF Sequential!Destination, GetRegWrittenByInstr
  <2>2. CASE i.type \in ImmediateOps \cup Loads \cup {"LUI"}
    <3>1. i.type \notin RegisterOps \cup {"MOV"}
      BY <2>2 DEF RegisterOps, ImmediateOps, Loads
    <3>2. i.rt \in RegNr
      BY <1>1, <2>2 DEF HasOperands
    <3> QED
      BY <2>2, <3>1, <3>2, SameTypes, RegNrProper
         DEF Sequential!Destination, GetRegWrittenByInstr
  <2>3. CASE i.type \notin RegisterOps \cup ImmediateOps \cup Loads \cup {"LUI"}
    BY <1>1, <2>3, SameTypes DEF Sequential!Destination, GetRegWrittenByInstr, Pseudo
  <2> QED
    BY <2>1, <2>2, <2>3
<1>4. r # DONT_CARE => Sequential!Result(i, m) = ComputedWB.result
  <2>1. CASE i.type \in Loads
    <3>1. Sequential!AccessSize(i.type) = MemBytes
      BY <2>1 DEF Sequential!AccessSize, MemBytes
    <3>2. (i.type \in {"LHU", "LBU"}) = LoadsUnsigned
      BY DEF LoadsUnsigned
    <3> QED
      BY <2>1, <3>1, <3>2, SameComputation, SameTypes, SameMemories
         DEF Sequential!Result, ComputedWB, LoadedValue, Loads, Stores
  <2>2. CASE i.type \notin Loads
    <3>1. r # DONT_CARE => i.type \notin Stores
      BY DEF GetRegWrittenByInstr, Loads, Stores, RegisterOps, ImmediateOps
    <3> QED
      BY <2>2, <3>1, SameComputation, SameTypes DEF Sequential!Result, ComputedWB
  <2> QED
    BY <2>1, <2>2
<1>5. SeqContents' = IF r = DONT_CARE THEN UpdatedRegisters
                     ELSE [UpdatedRegisters EXCEPT ![r] = ComputedWB.result]
  BY <1>2, TurnCounts DEF WriteToRegisterFile
<1>6. Sequential!Executed(instrs, i, m).contents
        = IF r = DONT_CARE THEN UpdatedRegisters
          ELSE [UpdatedRegisters EXCEPT ![r] = ComputedWB.result]
  BY <1>2, <1>3, <1>4, SameTypes DEF Sequential!Executed
<1> QED
  BY <1>5, <1>6

\* The program counter after it.
LEMMA SamePC ==
  ASSUME RefinementInv, Tick, wb_stage.instr.type # "SYSCALL",
         NEW i, i = mem_stage.instr, FromProgram(i),
         NEW m, m.contents = UpdatedRegisters, m.pc = AddressOf(i)
  PROVE  SeqPC' = Sequential!Executed(instrs, i, m).pc
<1>1. \A a : Sequential!Clip(instrs, a) = Clipped(a) /\ (Clipped(a))' = Clipped(a)
  BY TickMoves DEF Sequential!Clip, Clipped, Sequential!ProgramEnd, ProgramEnd
<1>2. Sequential!Taken(i, m) <=> BranchTaken
  BY SameComputation
<1>3. CASE i.type = "SYSCALL"
  BY <1>3, TurnCounts, SameTypes DEF SeqPC, Sequential!Executed
<1>4. CASE i.type # "SYSCALL"
  <2>1. SeqPC' = Clipped((OldestPC)')
    BY <1>1, <1>4, TurnCounts DEF SeqPC, Clipped
  <2>2. Clipped((OldestPC)') = Clipped(Sequential!Successor(i, m))
    <3>1. CASE BranchTaken
      <4>1. ~LoadUse /\ id_stage.instr.type # "J"
        BY <3>1, ShadowClear DEF RefinementInv, Ordered, GoodProgram, HazardsResolved, GoodControl
      <4>2. /\ if_stage'.pc = mem_stage.branch_target
            /\ mem_stage'.instr = Bubble /\ ex_stage'.instr = Bubble
            /\ id_stage'.instr = Bubble
        BY <3>1, <4>1, TickMoves DEF NextPC
      <4>3. (OldestPC)' = mem_stage.branch_target
        BY <4>2, BubbleNotFromProgram DEF OldestPC
      <4>4. mem_stage.branch_target = i.imm
        BY <3>1 DEF RefinementInv, MemFresh, BranchTaken, Branches
      <4> QED
        BY <1>2, <3>1, <4>3, <4>4 DEF Sequential!Successor
    <3>2. CASE ~BranchTaken
      <4>1. Clipped((OldestPC)') = Clipped(FromEx)
        BY <3>2, FrontAdvances DEF RefinementInv, GoodProgram, Ordered
      <4>2. Clipped(FromEx) = Clipped(After(i))
        BY DEF RefinementInv, Ordered, Consecutive
      <4> QED
        BY <1>2, <3>2, <4>1, <4>2 DEF Sequential!Successor, After
    <3> QED
      BY <3>1, <3>2
  <2> QED
    BY <1>1, <1>4, <2>1, <2>2 DEF Sequential!Executed
<1> QED
  BY <1>3, <1>4

\* A turn with an instruction in Mem executes it.
LEMMA ExecutingTurn ==
  ASSUME RefinementInv, Tick, wb_stage.instr.type # "SYSCALL",
         FromProgram(mem_stage.instr)
  PROVE  Sequential!Execute
<1> SUFFICES ASSUME NEW i, i = mem_stage.instr, NEW m, m = Sequential!Machine
             PROVE  Sequential!Execute
  OBVIOUS
<1>1. /\ m.contents = UpdatedRegisters /\ m.mem = mem /\ m.retired = SeqRetired
      /\ m.mode = SeqMode /\ m.pc = SeqPC
  BY TurnCounts DEF Sequential!Machine
<1>2. PICK k \in DOMAIN instrs :
        /\ i = instrs[k] /\ k \in 1 .. Len(instrs)
        /\ AddressOf(i) = TextSegStart + 4 * (k - 1) /\ InstrIndex(AddressOf(i)) = k
  BY InFlightPlace DEF RefinementInv, TypeOK, GoodProgram, Ordered, InFlight
<1>3. SeqPC = AddressOf(i)
  <2>1. AddressOf(i) <= ProgramEnd
    BY <1>2, TextAssumption DEF ProgramEnd
  <2> QED
    BY <1>2, <2>1, TurnCounts, TextAssumption DEF SeqPC, OldestPC, ProgramEnd
<1>4. /\ Sequential!InstrIndex(SeqPC) \in DOMAIN instrs
      /\ Sequential!ReadFromInstrMemory(instrs, SeqPC) = i
  BY <1>2, <1>3, SameMemories DEF ReadFromInstrMemory
<1>5. SeqMode = "running" /\ ~Sequential!Traps(i, m)
  BY <1>1, TurnCounts, CompletesUntrapped DEF SeqMode
<1>6. SeqPC' = Sequential!Executed(instrs, i, m).pc
  BY <1>1, <1>3, SamePC
<1>7. SeqContents' = Sequential!Executed(instrs, i, m).contents
  BY <1>1, SameContents
<1>8. mem' = Sequential!Executed(instrs, i, m).mem
  <2>1. i.type \in Stores => Sequential!AccessSize(i.type) = MemBytes
    BY DEF Sequential!AccessSize, MemBytes
  <2> QED
    BY <1>1, <2>1, SameComputation, SameTypes, SameMemories
       DEF Sequential!Executed, Tick, UpdatedMemory
<1>9. SeqMode' = Sequential!Executed(instrs, i, m).mode
  BY <1>1, <1>5, TurnCounts DEF SeqMode, Sequential!Executed
<1>10. SeqRetired' = Sequential!Executed(instrs, i, m).retired
  BY <1>1, TurnCounts DEF Sequential!Executed, Sequential!Truth, Truth
<1>11. instrs' = instrs
  BY DEF Tick
<1> QED
  BY <1>4, <1>5, <1>6, <1>7, <1>8, <1>9, <1>10, <1>11 DEF Sequential!Execute

-----------------------------------------------------------------------------
(* The refinement.                                                         *)

\* The pipeline starts where the sequential machine does.
LEMMA StartsAtEntry ==
  ASSUME Init
  PROVE  Sequential!Init
<1>1. PICK p \in Programs : InitPipeline(p)
  BY DEF Init
<1>2. /\ p = [instrs |-> p.instrs, start |-> p.start, data |-> p.data]
      /\ p.start \in Int /\ p.instrs \in Seq(Instr)
  BY ProgramsAssumption
<1>3. /\ instrs = p.instrs /\ mem = p.data /\ if_stage.pc = p.start
      /\ contents = [r \in RegNr |-> 0]
      /\ status = "running" /\ nr_instr_retired = 0
      /\ id_stage.instr = Bubble /\ ex_stage.instr = Bubble
      /\ mem_stage.instr = Bubble /\ wb_stage.instr = Bubble
  BY <1>1 DEF InitPipeline, ClearedID, ClearedEx, ClearedMem, ClearedWB
<1>4. ~Halted
  BY <1>3, BubbleIdle DEF Halted
<1>5. SeqPC = Clipped(p.start)
  BY <1>3, <1>4, BubbleNotFromProgram DEF SeqPC, OldestPC, Clipped
<1>6. Sequential!AtEntry
  <2>1. Sequential!ProgramEnd(instrs) = ProgramEnd /\ ProgramEnd \in Int
    BY <1>2, <1>3, TextAssumption DEF Sequential!ProgramEnd, ProgramEnd
  <2>2. CASE p.start > ProgramEnd
    BY <1>3, <1>5, <2>1, <2>2 DEF Sequential!AtEntry, Clipped
  <2>3. CASE p.start <= ProgramEnd
    <3>1. SeqPC = p.start
      BY <1>2, <1>5, <2>1, <2>3 DEF Clipped
    <3>2. [instrs |-> instrs, start |-> SeqPC, data |-> mem] \in Programs
      BY <1>2, <1>3, <3>1
    <3> QED
      BY <2>1, <2>3, <3>1, <3>2 DEF Sequential!AtEntry
  <2> QED
    BY <1>2, <2>1, <2>2, <2>3
<1>7. SeqContents = [r \in RegNr |-> 0] /\ SeqMode = "running" /\ SeqRetired = 0
  BY <1>3, <1>4, BubbleIdle DEF SeqContents, SeqMode, SeqRetired, UpdatedRegisters,
     WrittenBack, Truth
<1> QED
  BY <1>6, <1>7, SameTypes DEF Sequential!Init

\* The part of the invariant that PipelineProofs does not prove.
OrderInv ==
  /\ GoodProgram /\ StagesForwardable /\ OperandsFresh
  /\ Ordered /\ ImmediateKept /\ MemFresh

\* It holds of the empty pipeline.
LEMMA OrderInit ==
  ASSUME \A p \in Programs : HazardsResolved(p.instrs) /\ Assembled(p.instrs), Init
  PROVE  OrderInv
<1>1. GoodProgram
  BY DEF Init, InitPipeline, GoodProgram
<1>2. StagesForwardable
  BY ForwardableInit DEF HazardsResolved
<1>3. /\ id_stage.instr = Bubble /\ ex_stage.instr = Bubble
      /\ mem_stage.instr = Bubble /\ wb_stage.instr = Bubble
  BY DEF Init, InitPipeline, ClearedID, ClearedEx, ClearedMem, ClearedWB
<1>4. OperandsFresh
  BY <1>3, BubbleIdle DEF OperandsFresh
<1>5. Ordered
  BY <1>3, BubbleIdle, BubbleNotFromProgram
     DEF Ordered, InFlight, IsInFlight, Consecutive, BranchFollowed, SyscallShadow, Branches
<1>6. ImmediateKept /\ MemFresh
  BY <1>3, BubbleNotFromProgram DEF ImmediateKept, MemFresh
<1> QED
  BY <1>1, <1>2, <1>4, <1>5, <1>6 DEF OrderInv

\* A turn of the loop keeps it.
LEMMA OrderTick ==
  ASSUME TypeOK, JumpShadowEmpty, OrderInv, Tick
  PROVE  (OrderInv)'
<1>1. (GoodProgram)'
  BY TickMoves DEF OrderInv, GoodProgram
<1>2. (StagesForwardable)' /\ (OperandsFresh)'
  BY ForwardableTick, FreshTick DEF OrderInv
<1>3. (Ordered)'
  BY TickOrdered DEF OrderInv
<1>4. (ImmediateKept)' /\ (MemFresh)'
  BY TickImmediate, TickMemFresh DEF OrderInv, Ordered
<1> QED
  BY <1>1, <1>2, <1>3, <1>4 DEF OrderInv

\* Ending the process, or doing nothing, changes none of what they speak of.
LEMMA OrderAbort ==
  ASSUME OrderInv, UNCHANGED <<instrs, mem, contents, if_stage, id_stage, ex_stage,
                               mem_stage, wb_stage>>
  PROVE  (OrderInv)'
<1> USE DEF OrderInv
<1>1. (GoodProgram)' /\ (StagesForwardable)'
  BY DEF GoodProgram, StagesForwardable
<1>2. (OperandsFresh)'
  BY DEF OperandsFresh, FreshValue, ComputedWB, LoadedValue, LoadsUnsigned, MemBytes,
     UpdatedRegisters, WrittenBack
<1>3. \A i : (AddressOf(i))' = AddressOf(i)
  BY DEF AddressOf
<1>4. (Ordered)'
  BY <1>3 DEF Ordered, InFlight, IsInFlight, Consecutive, BranchFollowed, SyscallShadow,
     Clipped, ProgramEnd, FromEx, FromID, After
<1>5. (ImmediateKept)' /\ (MemFresh)'
  BY DEF ImmediateKept, MemFresh, Operand, UpdatedRegisters, WrittenBack
<1> QED
  BY <1>1, <1>2, <1>4, <1>5

\* Ending the process with an error is no step of the sequential machine.
LEMMA AbortIdle ==
  ASSUME Abort \/ UNCHANGED vars
  PROVE  UNCHANGED Sequential!seqVars
<1>1. UNCHANGED <<instrs, mem, contents, if_stage, id_stage, ex_stage, mem_stage, wb_stage,
                  nr_instr_retired>>
  BY DEF Abort, vars
<1>2. status' = "finished" <=> status = "finished"
  BY DEF Abort, vars, InLoop, Errors
<1>3. /\ (UpdatedRegisters)' = UpdatedRegisters
      /\ (Halted)' <=> Halted
      /\ (OldestPC)' = OldestPC
      /\ (ProgramEnd)' = ProgramEnd
  BY <1>1, <1>2 DEF UpdatedRegisters, WrittenBack, Halted, OldestPC, AddressOf, ProgramEnd
<1> QED
  BY <1>1, <1>2, <1>3 DEF Sequential!seqVars, SeqPC, SeqContents, SeqMode, SeqRetired

\* Every run of the pipeline on programs whose hazards are resolved, as the parser
\* leaves them, is a run of the sequential machine: stalls, flushes and bubbles
\* are invisible, and so is the end with an error (update.c, HandleHazards;
\* pipeline.c, RunProgram).
THEOREM Implementation ==
  ASSUME \A p \in Programs : HazardsResolved(p.instrs) /\ Assembled(p.instrs)
  PROVE  Spec => ImplementsSequential
<1>1. Init => OrderInv /\ Sequential!Init
  BY OrderInit, StartsAtEntry
<1>2. TypeOK /\ JumpShadowEmpty /\ OrderInv /\ [Next]_vars
        => OrderInv' /\ [Sequential!Next]_(Sequential!seqVars)
  <2> SUFFICES ASSUME TypeOK, JumpShadowEmpty, OrderInv, [Next]_vars
               PROVE  OrderInv' /\ [Sequential!Next]_(Sequential!seqVars)
    OBVIOUS
  <2>1. RefinementInv
    BY DEF RefinementInv, OrderInv
  <2>2. CASE Tick
    <3>1. (OrderInv)'
      BY <2>2, OrderTick
    <3>2. Sequential!Execute \/ UNCHANGED Sequential!seqVars
      BY <2>1, <2>2, LastTurn, IdleTurn, ExecutingTurn
    <3> QED
      BY <3>1, <3>2 DEF Sequential!Next
  <2>3. CASE Abort \/ UNCHANGED vars
    <3>1. (OrderInv)'
      BY <2>3, OrderAbort DEF Abort, vars
    <3> QED
      BY <2>3, <3>1, AbortIdle
  <2> QED
    BY <2>2, <2>3 DEF Next
<1> QED
  BY <1>1, <1>2, Typing, JumpShadow, PTL DEF Spec, ImplementsSequential, Sequential!Spec
=============================================================================
