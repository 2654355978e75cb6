------------------------- MODULE PipelineRefinement -------------------------
(***************************************************************************)
(* The pipeline implements the sequential machine, for the programs whose  *)
(* hazards HandleHazards resolves.  An instruction takes effect when it    *)
(* leaves the Mem stage: its store is done then and its result, though     *)
(* still in WB, is what every later instruction reads.                     *)
(***************************************************************************)
EXTENDS PipelineHazards

-----------------------------------------------------------------------------
(* The refinement mapping.                                                 *)

AddressOf(i) ==
  TextSegStart
    + 4 * ((CHOOSE k \in DOMAIN instrs : instrs[k].line_nr = i.line_nr) - 1)

\* The address of the oldest instruction that has not taken effect.
OldestPC ==
  IF FromProgram(mem_stage.instr) THEN AddressOf(mem_stage.instr)
  ELSE IF FromProgram(ex_stage.instr) THEN AddressOf(ex_stage.instr)
  ELSE IF FromProgram(id_stage.instr) THEN AddressOf(id_stage.instr)
  ELSE if_stage.pc

\* A syscall has taken effect.
Halted == status = "finished" \/ wb_stage.instr.type = "SYSCALL"

ProgramEnd == TextSegStart + 4 * Len(instrs)

SeqPC ==
  IF Halted THEN DONT_CARE ELSE IF OldestPC > ProgramEnd THEN ProgramEnd ELSE OldestPC

\* What the register file holds once the instruction in WB has written it.
\* After the last cycle WB holds an instruction that must not take effect.
SeqContents == IF status = "finished" THEN contents ELSE UpdatedRegisters

SeqMode == IF Halted THEN "halted" ELSE "running"

\* The instruction in WB is counted when it leaves it.
SeqRetired ==
  IF status = "finished" THEN nr_instr_retired
  ELSE nr_instr_retired + Truth(wb_stage.instr.type # "NOP")

Sequential == INSTANCE SequentialMips WITH
         pc <- SeqPC, contents <- SeqContents, mode <- SeqMode, retired <- SeqRetired

\* Every run of the pipeline is one of the sequential machine: the same
\* instructions take effect in the same order, on the same registers and
\* memory, and the same number of them is counted as retired (update.c,
\* HandleHazards, and pipeline.c, RunProgram).
ImplementsSequential == Sequential!Spec

-----------------------------------------------------------------------------
(* Control alone, also where the values are wrong.                         *)

\* The instruction in WB was a branch that was taken: what it brings there is
\* the difference of its operands.
WasTaken ==
  \/ wb_stage.instr.type = "BEQ" /\ wb_stage.result = 0
  \/ wb_stage.instr.type = "BNE" /\ wb_stage.result # 0

\* The address control goes to after the instruction in WB.
Successor ==
  IF wb_stage.instr.type = "J" \/ WasTaken THEN wb_stage.instr.imm
  ELSE AddressOf(wb_stage.instr) + 4

\* The next address to complete; all those past the program count as one.
Clipped(address) == IF address > ProgramEnd THEN ProgramEnd ELSE address

\* Instructions reach WB along the path of control: behind the one in WB, with
\* nothing but bubbles between them, comes the one control goes to after it.  What
\* was fetched behind a jump or a taken branch is gone by then, and what a stall
\* held was neither lost nor done twice (update.c, HandleHazards, ComputeNextIFStage,
\* ComputeNextIDStage).  It needs two parts of HazardsResolved only; the values may
\* be those of an unresolved hazard, and an error may end the program at any time.
CompletesInOrder ==
  /\ NoJumpInShadow(instrs)
  /\ NoLoadUseInShadow(instrs)
  /\ FromProgram(wb_stage.instr)
  => Clipped(OldestPC) = Clipped(Successor)
=============================================================================
