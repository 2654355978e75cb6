------------------------------ MODULE MCTraces ------------------------------
(***************************************************************************)
(* The programs of Tests/ and what their reference traces in Traces/ show: *)
(* the instruction fetched and the retired count of every cycle, and the   *)
(* registers at the end.  The pipeline runs what the texts of the programs *)
(* stand for by the lexical rules and the meaning of the language, which   *)
(* the lexer and the loader are checked to implement.  Each program is     *)
(* also run with four nops behind every instruction, so that it has no     *)
(* hazard left.                                                            *)
(***************************************************************************)
EXTENDS PipelineHazards, LexicalRules, AssemblyLanguage

LOCAL INSTANCE SequencesExt

\* The registers the programs use; $s0 to $s5 follow each other.
v0 == 2
t(n) == 8 + n
s(n) == 16 + n

-----------------------------------------------------------------------------
(* The files, line by line.                                                *)

BasicProgram == <<
  "__start:\n", " addi $t1, $t1, 150\n", " addi $t2, $t2, 48\n", " addi $t3, $t3, 21\n",
  " nop\n", " nop\n", " nop\n", " and $t4, $t1, $t2\n", " ori $t5, $t3, 16\n",
  " sub $t6, $t1, $t2\n", " nop\n", " addi $v0, $v0, 10\n", " syscall\n">>

BranchFalse == <<
  "__start:\n", "addi $t1, $t1, 9\n", "addi $t2, $t2, 5\n", "nop\n", "nop\n",
  "beq $t1, $t2, L1\n", "sub $t3, $t1, $t2\n", "or $t4, $t1, $t2\n", "L1:\n",
  "addi $v0, $v0, 10\n", "syscall\n">>

BranchTrue == <<
  "__start:\n", "addi $t1, $t1, 9\n", "addi $t2, $t2, 5\n", "nop\n", "nop\n",
  "bne $t1, $t2, L1\n", "sub $t3, $t1, $t2\n", "or $t4, $t1, $t2\n", "L1:\n",
  "addi $v0, $v0, 10\n", "syscall\n">>

ForwardingAlternating == <<
  ".globl __start\n", ".data\n", "\n", ".text\n",
  "#jmm01: To check if data forwarding is done correctly\n", "__start: \n",
  "\taddi $s0, $zero, 1\n", "\taddi $s1, $zero, 2\n", "\taddi $s2, $zero, 3\n",
  "\taddi $s3, $zero, 4\n", "\taddi $s4, $zero, 5\n", "\n",
  "\t#s5: Sum of \"vector\"\n", "\taddi $s5, $zero, 0\n", "\n", "\tadd $s5, $s5, $s0\n",
  "\tadd $s5, $s1, $s5\n", "\tadd $s5, $s5, $s2\n", "\tadd $s5, $s3, $s5\n",
  "\tadd $s5, $s5, $s4 # $s5 = 1+2+3+4+5 = 15\n", "\t\n", "end: \n",
  "\taddi $v0, $zero, 10\n", "\tsyscall\n">>

ForwardingLoads == <<
  ".globl __start\n", ".data\n", "EXPECTED: .word 15\n", ".text\n", "__start: \n", "\n",
  "\taddi $s0, $zero, 15\n", "\taddi $s2, $zero, 0\n", "\tnop\n",
  "\tlw $s1, EXPECTED\n", "\tand $s2, $s0, $s1\n", "end: \n", "\taddi $v0, $zero, 10\n",
  "\tsyscall\n">>

ForwardingSimple == <<
  "__start:\n", " addi $t1, $t1, 1\n", " addi $t2, $t2, 2\n", " or $t4, $t1, $t2\n",
  " addi $v0, $v0, 10\n", " syscall\n">>

JumpInstruction == <<
  "__start:\n", "j Label1\n", "sub $t3, $t1, $t2\n", "or $t4, $t1, $t2\n",
  "sub $t5, $t1, $t2\n", "Label1:\n", "ori $t6, $t2, 99\n", "addi $v0, $v0, 10\n",
  "syscall\n">>

\* The registers that are not 0 in the last cycle of a trace.
Registers(pairs) ==
  [r \in RegNr |-> IF \E p \in pairs : p[1] = r
                     THEN (CHOOSE p \in pairs : p[1] = r)[2] ELSE 0]

\* A test: its file, then per cycle of its trace the index of the instruction
\* in IF and the retired count, then the registers at the end.
Tests ==
  <<[text |-> BasicProgram,
     fetched |-> <<1, 2, 3, 4, 5, 6, 7, 8, 9, 10, 11, 12, 13, 14, 15, 16>>,
     retired |-> <<0, 0, 0, 0, 0, 1, 2, 3, 3, 3, 3, 4, 5, 6, 6, 7>>,
     registers |-> Registers({<<v0, 10>>, <<t(1), 150>>, <<t(2), 48>>, <<t(3), 21>>,
                              <<t(4), 16>>, <<t(5), 21>>, <<t(6), 102>>})],
    [text |-> BranchFalse,
     fetched |-> <<1, 2, 3, 4, 5, 6, 7, 8, 9, 10, 11, 12, 13>>,
     retired |-> <<0, 0, 0, 0, 0, 1, 2, 2, 2, 3, 4, 5, 6>>,
     registers |-> Registers({<<v0, 10>>, <<t(1), 9>>, <<t(2), 5>>, <<t(3), 4>>,
                              <<t(4), 13>>})],
    [text |-> BranchTrue,
     fetched |-> <<1, 2, 3, 4, 5, 6, 7, 8, 8, 9, 10, 11, 12, 13>>,
     retired |-> <<0, 0, 0, 0, 0, 1, 2, 2, 2, 3, 3, 3, 3, 4>>,
     registers |-> Registers({<<v0, 10>>, <<t(1), 9>>, <<t(2), 5>>})],
    [text |-> ForwardingAlternating,
     fetched |-> <<1, 2, 3, 4, 5, 6, 7, 8, 9, 10, 11, 12, 13, 14, 15, 16, 17>>,
     retired |-> <<0, 0, 0, 0, 0, 1, 2, 3, 4, 5, 6, 7, 8, 9, 10, 11, 12>>,
     registers |-> Registers({<<v0, 10>>, <<s(0), 1>>, <<s(1), 2>>, <<s(2), 3>>,
                              <<s(3), 4>>, <<s(4), 5>>, <<s(5), 15>>})],
    [text |-> ForwardingLoads,
     fetched |-> <<1, 2, 3, 4, 5, 6, 6, 7, 8, 9, 10, 11>>,
     retired |-> <<0, 0, 0, 0, 0, 1, 2, 2, 3, 3, 4, 5>>,
     registers |-> Registers({<<v0, 10>>, <<s(0), 15>>, <<s(1), 15>>, <<s(2), 15>>})],
    [text |-> ForwardingSimple,
     fetched |-> <<1, 2, 3, 4, 5, 6, 7, 8, 9>>,
     retired |-> <<0, 0, 0, 0, 0, 1, 2, 3, 4>>,
     registers |-> Registers({<<v0, 10>>, <<t(1), 1>>, <<t(2), 2>>, <<t(4), 3>>})],
    [text |-> JumpInstruction,
     fetched |-> <<1, 2, 5, 6, 7, 8, 9, 10, 11>>,
     retired |-> <<0, 0, 0, 0, 0, 1, 1, 2, 3>>,
     registers |-> Registers({<<v0, 10>>, <<t(6), 99>>})]>>

-----------------------------------------------------------------------------
(* From the text to the program.                                           *)

\* The tokens of one line, by the lexical rules: no token goes on on the next.
TokensOfLine(line) ==
  LET text == Characters(line)
      tokens[k \in 1 .. Len(text) + 1] ==
        LET rest == From(text, k)
            rule == MatchingRule(rest)
            length == TokenLength(rest)
        IN  IF rest = <<>> THEN <<>>
            ELSE IF rule \in Blanks THEN tokens[k + length]
            ELSE <<TokenOf(rule, SubSeq(rest, 1, length))>> \o tokens[k + length]
  IN  tokens[1]

\* What the parser assumes of the tokens holds of those the rules return (Parser,
\* SourcesAssumption).
ASSUME LexedAssumption ==
  /\ \A k \in DOMAIN InstrRules : WrittenAs(InstrRules[k][2], InstrRules[k][3])
  /\ \A k \in DOMAIN RegisterRules : RegisterRules[k][2] \in Nat

\* The tokens of a file; its end counts as one more end of a line.
TokensOfFile(lines) ==
  FoldLeft(LAMBDA tokens, line : tokens \o TokensOfLine(line), <<>>, lines)
    \o <<NewlineToken>>

\* What is loaded for a file.
Load(lines) == Image(Meaning(Split(TokensOfFile(lines)).done))

\* With n nops behind each instruction, instruction k is at this index.
PaddedIndex(k, n) == (n + 1) * (k - 1) + 1

PaddedAddress(address, n) == TextSegStart + 4 * (PaddedIndex(InstrIndex(address), n) - 1)

\* The instruction in a padded program, its target moved as far as the others.
Moved(instr, n) ==
  IF instr.type \in Branches \cup {"J"} THEN [instr EXCEPT !.imm = PaddedAddress(@, n)]
  ELSE instr

\* The program with n nops behind each instruction, one per line.
Padded(code, n) ==
  [k \in 1 .. (n + 1) * Len(code) |->
     [(IF k % (n + 1) = 1 % (n + 1) THEN Moved(code[(k - 1) \div (n + 1) + 1], n) ELSE Bubble)
        EXCEPT !.line_nr = k]]

Paddings == {0, 4}

PaddedProgram(image, n) ==
  [instrs |-> Padded(image.instrs, n), start |-> PaddedAddress(image.start, n),
   data |-> image.data]

Images == {[nr |-> k, image |-> Load(Tests[k].text)] : k \in DOMAIN Tests}

TestRuns ==
  {[nr |-> i.nr, padding |-> n, program |-> PaddedProgram(i.image, n)] :
     i \in Images, n \in Paddings}

TestPrograms == {run.program : run \in TestRuns}

VARIABLE test     \* the number of the test, and how many nops pad its program

TraceInit ==
  \E run \in TestRuns :
    /\ InitPipeline(run.program)
    /\ test = [nr |-> run.nr, padding |-> run.padding]

TraceSpec == TraceInit /\ [][Next /\ UNCHANGED test]_<<vars, test>>

\* Instruction memory index of the instruction in IF.
Fetched == InstrIndex(if_stage.pc)

\* Cycle by cycle the pipeline fetches and retires what the reference trace
\* of the program shows, and it ends after the last cycle of the trace
\* (Makefile, test; Traces/*.html).
FollowsTrace ==
  LET trace == Tests[test.nr]
  IN  test.padding = 0
        => IF status = "running"
             THEN /\ nr_cycles < Len(trace.fetched)
                  /\ Fetched = trace.fetched[nr_cycles + 1]
                  /\ nr_instr_retired = trace.retired[nr_cycles + 1]
             ELSE status = "finished" /\ nr_cycles = Len(trace.fetched)

\* The program ends with the registers of the last cycle of its trace, with
\* hazards as without them: stalls, flushes and forwarding change how long a
\* program takes and not what it computes (update.c, HandleHazards).
EndsWithTraceRegisters ==
  status # "running" => status = "finished" /\ contents = Tests[test.nr].registers
=============================================================================
