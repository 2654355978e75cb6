----------------------------- MODULE MCPipeline -----------------------------
(***************************************************************************)
(* Small programs for the pipeline: a beginning that sets a register, a    *)
(* body of any BodyLength instructions of an alphabet, and an end that     *)
(* changes a second register before the syscall.                           *)
(***************************************************************************)
EXTENDS PipelineRefinement

CONSTANTS
  BodyLength,    \* instructions between the beginning and the end
  MaxSteps       \* bound on the instructions executed one at a time

R1 == 1
R2 == 2
Cell == DataSegStart        \* the labelled word that loads and stores use

\* One instruction per source line, the k-th on line k.
Numbered(code) == [k \in DOMAIN code |-> [code[k] EXCEPT !.line_nr = k]]

Addi(rs, rt, imm) == CreateInstr_RRI("ADDI", rs, rt, imm, DONT_CARE)

Prologue == <<Addi(ZERO, R1, 2)>>

Epilogue == <<Addi(R1, R2, 5), CreateInstr_Empty("SYSCALL", DONT_CARE)>>

\* The first instruction of the body and the one after it; a branch on equality
\* may also go to the last one.
Ends == {TextSegStart + 4 * k : k \in {Len(Prologue), Len(Prologue) + BodyLength}}
Targets == Ends \cup {TextSegStart + 4 * (Len(Prologue) + BodyLength - 1)}

Straight ==
  {Addi(R1, R1, 1),
   Addi(R1, R2, -3),
   CreateInstr_RRR("ADD", R1, R2, R1, DONT_CARE),
   CreateInstr_RRI("LW", ZERO, R1, Cell, DONT_CARE),
   CreateInstr_RRI("SW", ZERO, R1, Cell, DONT_CARE),
   CreateInstr_Empty("SYSCALL", DONT_CARE)}

Control ==
  {CreateInstr_I("J", a, DONT_CARE) : a \in Ends}
    \cup {CreateInstr_RRI("BEQ", R1, R2, a, DONT_CARE) : a \in Targets}
    \cup {CreateInstr_RRI("BNE", R2, ZERO, a, DONT_CARE) : a \in Ends}

\* Hazards that HandleHazards misses, and instructions that end the process;
\* a jump to a data label runs through nops to the end of the address space,
\* or fails at once if the label is not aligned.
Awkward ==
  {Addi(R1, ZERO, 3),
   Addi(R2, R2, -100),
   CreateInstr_RRR("ADD", R1, R1, R1, DONT_CARE),
   CreateInstr_RRI("SB", ZERO, R1, Cell, DONT_CARE),
   CreateInstr_RRI("LH", ZERO, R2, Cell + 1, DONT_CARE),
   CreateInstr_RR("MOV", R2, R1, DONT_CARE),
   CreateInstr_I("J", Cell, DONT_CARE),
   CreateInstr_I("J", Cell + 1, DONT_CARE)}

Codes(alphabet) ==
  {Numbered(Prologue \o body \o Epilogue) : body \in [1 .. BodyLength -> alphabet]}

Loaded(codes) ==
  [instrs : codes, start : {TextSegStart},
   data : {WriteToDataMemory(ZeroMemory, Cell, 7, 4)}]

ResolvedCodes == {code \in Codes(Straight \cup Control) : HazardsResolved(code)}

AllCodes == Codes(Straight \cup Control \cup Awkward)

\* Programs in which a jump, a load and its use, or an addition that overflows
\* stands in the two slots behind a branch.
BranchShadowCodes ==
  {code \in Codes(Straight \cup Control) :
     ~NoJumpInShadow(code) \/ ~NoLoadUseInShadow(code)}
    \cup {code \in Codes(Control \cup {Addi(R1, R2, -100), Addi(R2, R2, -100)}) :
            HazardsResolved(code)}

\* Programs with an instruction that reads one register twice.
SameOperandCodes ==
  {code \in Codes({Addi(R1, R1, 1), CreateInstr_RRR("ADD", R2, R1, R1, DONT_CARE)}) :
     ZeroUnwritten(code) /\ ~OperandsDiffer(code)}

\* Programs that store a byte of a register which may hold more than a byte.
ByteStoreCodes ==
  Codes({Addi(R1, R1, 1), CreateInstr_RRI("SB", ZERO, R1, Cell, DONT_CARE)})

ResolvedPrograms == Loaded(ResolvedCodes)
AllPrograms == Loaded(AllCodes)
BranchShadowPrograms == Loaded(BranchShadowCodes)
SameOperandPrograms == Loaded(SameOperandCodes)
ByteStorePrograms == Loaded(ByteStoreCodes)
-----------------------------------------------------------------------------
(* Finishing.  MaxCycles has to allow for the slowest run: four cycles per *)
(* instruction and four to fill the pipeline.                              *)

ASSUME StepsAssumption == MaxCycles >= 4 * MaxSteps + 5

\* The sequential machine after at most n instructions of the program in memory.
SequentialRun ==
  LET run[n \in 0 .. MaxSteps] ==
        IF n = 0
          THEN [pc |-> SeqPC, contents |-> contents, mem |-> mem, mode |-> "running",
                retired |-> 0]
          ELSE LET m == run[n - 1]
                   i == ReadFromInstrMemory(instrs, m.pc)
               IN  IF m.mode = "halted" \/ Sequential!Traps(i, m) THEN m
                   ELSE Sequential!Executed(instrs, i, m)
  IN  run[MaxSteps]

\* Under the fairness of the loop in RunProgram, a program whose hazards are
\* resolved and that reaches its syscall when it is executed one instruction at
\* a time finishes in the pipeline: no stall repeats for ever, no branch or jump
\* is lost and nothing on a wrong path ends the process (pipeline.c, update.c).
\* The awkward instructions, which do end it on a wrong path, are left out.
FinishesAsSequential ==
  nr_cycles = 0 /\ instrs \in ResolvedCodes /\ SequentialRun.mode = "halted"
    ~> status = "finished"
=============================================================================
