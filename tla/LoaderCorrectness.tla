------------------------- MODULE LoaderCorrectness -------------------------
(***************************************************************************)
(* What the parser and the linker make of a program, against what the      *)
(* program means (AssemblyLanguage).                                       *)
(***************************************************************************)
EXTENDS Loader, AssemblyLanguage

ParserEnded == status # "parsing"
Ended == phase \notin {"parsing", "linking"}

ProgramMeaning == Meaning(Split(source).done)

\* The parser accepts the programs of the language and no others: an error on
\* one line is neither forgotten nor taken for the end of the program, and no
\* allowed program fails an assertion (mips_parser.c, the tables and the
\* actions of the rules; mips_parser.h, mips_parser_parse).
AcceptsTheLanguage == ParserEnded => (status = "accepted" <=> Assembles(source))

\* What is loaded is what the program means: every instruction at its address
\* with the operands its syntax gives it, every label at the place of what
\* follows it, also when that stands on a later line or was defined after its
\* use, and every byte of data; beyond the program only nops are fetched
\* (mips_parser.c, yyparse; pipeline.c, LinkMIPSProgram; instr_memory.c).
LoadsTheProgram ==
  phase = "loaded" =>
    LET image == Image(ProgramMeaning)
    IN  /\ pc = image.start
        /\ data_mem = image.data
        /\ \A k \in 1 .. Len(instrs) + 1 :
             LET address == TextSegStart + 4 * (k - 1)
             IN  ReadFromInstrMemory(instrs, address)
                   = ReadFromInstrMemory(image.instrs, address)

\* A program is loaded if and only if it assembles and links: an operand that
\* cannot be resolved, a missing entry point or one that cannot be fetched from
\* always ends the process before the pipeline starts (pipeline.c,
\* LinkMIPSProgram, InitPipeline).
LoadsWhatLinks ==
  Ended => (phase = "loaded" <=> Assembles(source) /\ Links(ProgramMeaning))

\* An error costs its own line only: when the parser gives up at the end of the
\* file, it has counted every wrong line once where the error was found and once
\* where the line was dropped, and no other line (mips_parser.c, yyerrlab,
\* yyerrlab1, rule 9).
ReportsEachWrongLine ==
  status = "failed" => yynerrs = 2 * WrongStatements(source)

\* The statement the parser is in, as far as it has been shifted.
Shifted == Names(Split(SubSeq(source, 1, next - 1)).rest)

\* The statement so far can be followed by the end of its line; anything can
\* once the line has been found wrong.
MayEnd == Shifted \in StatementShapes(Len(Shifted)) \cup {LabelPrefix} \/ yynerrs > 0

\* An error message names, as expected, only tokens with which the line could
\* have gone on, in spite of the reductions made before the error was noticed
\* (mips_parser.c, yypcontext_expected_tokens).
NamesExpectedTokens ==
  Running /\ ToDo = 0 =>
    \A t \in ExpectedTokens :
      IF t = "NEWLINE" THEN MayEnd ELSE Begins(Append(Shifted, t))

\* A call of the parser returns, as its documentation promises, or ends the
\* process (mips_parser.h, mips_parser_parse).
ParsingReturns == <>ParserEnded

\* Loading always comes to an end, unless a line goes on with a token that no
\* statement has there (mips_parser.c, rule 9; pipeline.c, InitPipeline).
EndsUnlessDerailed == ~Derails(source) ~> Ended
=============================================================================
