------------------------------- MODULE Parser -------------------------------
(***************************************************************************)
(* mips_parser_parse (mips_parser.c): the LR automaton, its recovery from  *)
(* errors, and the actions of the rules, which collect the instructions    *)
(* and fill the data memory and the symbol table.  The lexer is behind     *)
(* `source`, the tokens of the program text.                               *)
(***************************************************************************)
EXTENDS ParserStacks, InstrMemory, ByteMemory, SymbolTable, FiniteSets

CONSTANTS
  Sources,        \* the programs: sequences of [token, string, integer] records
  MaxErrors       \* bound on yynerrs, a counter without one in the code

ASSUME SourcesAssumption ==
  /\ \A s \in Sources :
       /\ s \in Seq([token : Tokens, string : STRING, integer : Int])
       /\ \A k \in DOMAIN s :
            /\ s[k].token \in OpcodeTokens => WrittenAs(s[k].string, s[k].token)
            /\ s[k].token = "REGISTER" => s[k].integer \in Nat
  /\ MaxErrors \in Nat \ {0}

VARIABLES
  source,           \* the tokens of the program, which never change
  next,             \* how many of them have been read
  stack,            \* yyss, yyvs and yyls: the states, with values and lines
  yychar,           \* the lookahead token, or EMPTY
  yyerrstatus,      \* how many tokens to shift before errors are reported again
  yynerrs,
  cur_segment, cur_data_addr, cur_instr_addr,
  instr_buf,        \* the parsed instructions, with their labels
  data_mem,         \* the data memory
  elements,         \* the symbol table
  status            \* "parsing" or how the call ended

lrVars == <<stack, yychar, yyerrstatus, yynerrs>>
dataVars == <<cur_data_addr, data_mem>>
instrVars == <<cur_instr_addr, instr_buf>>
programVars == <<cur_segment, dataVars, instrVars, elements>>
parserVars == <<source, next, lrVars, programVars, status>>

-----------------------------------------------------------------------------
NO_LABEL == ""          \* a null pointer in the code

\* A semantic value is an integer or a string (a label or the type of an
\* instruction); of its location only the first line is used.
Located(string, integer, line) == [string |-> string, integer |-> integer, line |-> line]

\* Nothing reads the value of a nonterminal or of the end of the file.
NoValue(line) == Located("", DONT_CARE, line)

WithToken(name, value) ==
  [token |-> name, string |-> value.string, integer |-> value.integer, line |-> value.line]

EMPTY == WithToken("none", NoValue(DONT_CARE))

Entry(state, value) ==
  [state |-> state, string |-> value.string, integer |-> value.integer, line |-> value.line]

\* The line of token number n.
Line(n) == 1 + Cardinality({k \in 1 .. n - 1 : source[k].token = "NEWLINE"})

\* Mutant: the end of the file is one more end of a line.
MutantToken(n) ==
  IF n \in DOMAIN source
    THEN WithToken(source[n].token, Located(source[n].string, source[n].integer, Line(n)))
    ELSE WithToken("NEWLINE", NoValue(Line(Len(source) + 1)))

\* What the lexer returns for token number n: the end of the file after the last.
Token(n) ==
  IF n \in DOMAIN source
    THEN WithToken(source[n].token, Located(source[n].string, source[n].integer, Line(n)))
    ELSE WithToken("end of file", NoValue(Line(Len(source) + 1)))

-----------------------------------------------------------------------------
State == stack[Len(stack)].state

NeedsToken == ~yypact_value_is_default(State) /\ yychar = EMPTY

\* What is to be done in the present state: see Decision.
ToDo ==
  IF yypact_value_is_default(State) THEN -yydefact[State]
  ELSE Decision(State, yytranslate[yychar.token])

Running == status = "parsing" /\ State # YYFINAL /\ ~NeedsToken

\* The part of the stack below the last n entries.
Below(n) == SubSeq(stack, 1, Len(stack) - n)

\* yyvsp[k], as the actions of the rules use it.
Integer(k) == stack[Len(stack) + k].integer
String(k) == stack[Len(stack) + k].string

\* The stack after the reduction by a rule.
Reduced(rule) ==
  LET rest == Below(yyr2[rule])
      line == stack[Len(rest) + (IF yyr2[rule] = 0 THEN 0 ELSE 1)].line
  IN  Append(rest, Entry(Goto(rule, rest[Len(rest)].state), NoValue(line)))

Reduce(rule) == Running /\ ToDo = -rule

\* yynerrs goes no further than its bound.
Counted(n) == IF n < MaxErrors THEN n + 1 ELSE n

-----------------------------------------------------------------------------
(* Errors.                                                                 *)

\* The places of the stack from which the parse can go on with an error token.
CanRecover(entries) == {k \in DOMAIN entries : ShiftsError(entries[k].state)}

\* yyerrlab1: pops states until one accepts the error token, and shifts it;
\* gives up if there is none.
Recover(entries) ==
  LET k == CHOOSE k \in CanRecover(entries) : \A j \in CanRecover(entries) : j <= k
  IN  IF CanRecover(entries) = {}
        THEN /\ status' = "failed"
             /\ UNCHANGED <<stack, yyerrstatus>>
        ELSE /\ stack' = Append(SubSeq(entries, 1, k),
                                Entry(Decision(entries[k].state, YYSYMBOL_YYerror),
                                      NoValue(yychar.line)))
             /\ yyerrstatus' = 3
             /\ UNCHANGED status

\* Mutant: a token that was an error is not tried again.
MutantDiscards == TRUE

\* The lookahead was kept after the last error, and was an error again.
Discards == yyerrstatus = 3

\* yyerrlab.
SyntaxError ==
  /\ Running
  /\ ToDo = 0
  /\ yynerrs' = IF yyerrstatus = 0 THEN Counted(yynerrs) ELSE yynerrs
  /\ IF Discards /\ yychar.token = "end of file"
       THEN /\ status' = "failed"
            /\ UNCHANGED <<stack, yyerrstatus, yychar>>
       ELSE /\ yychar' = IF Discards THEN EMPTY ELSE yychar
            /\ Recover(stack)
  /\ UNCHANGED <<source, next, programVars>>

\* YYERROR in the action of a rule.
RaiseError(rule) ==
  /\ yynerrs' = Counted(yynerrs)
  /\ Recover(Below(yyr2[rule]))
  /\ UNCHANGED <<yychar, source, next, programVars>>

\* The process ends in the action of a rule.
Exit(how) ==
  /\ status' = how
  /\ UNCHANGED <<source, next, lrVars, programVars>>

\* Mutant: an entry is taken for that of the token before.
MutantExpectedTokens ==
  LET expected == {t \in Tokens : t # "error" /\ HasEntry(State, yytranslate[t] + 1)}
  IN  IF Cardinality(expected) <= 4 THEN expected ELSE {}

\* Which tokens the message names beside the unexpected one: all that have an
\* entry, unless they are too many.
ExpectedTokens ==
  LET expected == {t \in Tokens : t # "error" /\ HasEntry(State, yytranslate[t])}
  IN  IF Cardinality(expected) <= 4 THEN expected ELSE {}

-----------------------------------------------------------------------------
(* Reading, shifting, and the rules that do nothing but reduce.            *)

ReadToken ==
  /\ status = "parsing"
  /\ State # YYFINAL
  /\ NeedsToken
  /\ yychar' = Token(next + 1)
  /\ next' = IF next < Len(source) THEN next + 1 ELSE next
  /\ UNCHANGED <<source, stack, yyerrstatus, yynerrs, programVars, status>>

Shift ==
  /\ Running
  /\ ToDo > 0
  /\ stack' = Append(stack, Entry(ToDo, yychar))
  /\ yyerrstatus' = IF yyerrstatus = 0 THEN 0 ELSE yyerrstatus - 1
  /\ yychar' = EMPTY
  /\ UNCHANGED <<source, next, yynerrs, programVars, status>>

Accept ==
  /\ status = "parsing"
  /\ State = YYFINAL
  /\ status' = "accepted"
  /\ UNCHANGED <<source, next, lrVars, programVars>>

PlainRules == {3, 4, 5, 6, 7, 8, 11, 12, 14, 15, 16, 17, 20, 21, 22, 23, 24, 25}

ReducePlain ==
  \E rule \in PlainRules :
    /\ Reduce(rule)
    /\ stack' = Reduced(rule)
    /\ UNCHANGED <<source, next, yychar, yyerrstatus, yynerrs, programVars, status>>

\* start: prog
ReduceStart ==
  /\ Reduce(2)
  /\ IF yynerrs > 0
       THEN Exit("failed")
       ELSE /\ stack' = Reduced(2)
            /\ UNCHANGED <<source, next, yychar, yyerrstatus, yynerrs, programVars, status>>

\* line: error
ReduceError ==
  /\ Reduce(9)
  /\ stack' = Reduced(9)
  /\ yynerrs' = Counted(yynerrs)
  /\ yyerrstatus' = 0
  /\ UNCHANGED <<source, next, yychar, programVars, status>>

\* directive: TEXT_DIR | DATA_DIR
ReduceSegment ==
  \E rule \in {18, 19} :
    /\ Reduce(rule)
    /\ stack' = Reduced(rule)
    /\ cur_segment' = IF rule = 18 THEN "TEXT" ELSE "DATA"
    /\ UNCHANGED <<source, next, yychar, yyerrstatus, yynerrs, dataVars, instrVars,
                   elements, status>>

\* Mutant: a label always stands for an instruction.
MutantLabelAddress(rule) == cur_instr_addr

\* Data or an instruction follows the label.
LabelAddress(rule) == IF rule = 10 THEN cur_data_addr ELSE cur_instr_addr

\* LABEL ':' maybe_newlines: the label is defined before what follows it.
ReduceLabel ==
  \E rule \in {10, 13} :
    /\ Reduce(rule)
    /\ IF AddFails(elements, String(-2))
         THEN Exit("assertion")
         ELSE /\ stack' = Reduced(rule)
              /\ elements' = AddToSymbolTable(elements, String(-2), LabelAddress(rule))
              /\ UNCHANGED <<source, next, yychar, yyerrstatus, yynerrs, cur_segment,
                             dataVars, instrVars, status>>

\* The bytes of the constants of .byte, .half and .word.
ConstantSize(rule) == CASE rule \in {26, 27} -> 1 [] rule \in {28, 29} -> 2 [] OTHER -> 4

\* byte_constants, half_constants, word_constants: AddParsedDataToBack.
ReduceConstant ==
  \E rule \in 26 .. 31 :
    LET size == ConstantSize(rule)
    IN  /\ Reduce(rule)
        /\ IF ~ValidDataAddress(cur_data_addr, size) THEN Exit("runtime_error")
           ELSE IF ~WriteFits(Integer(0), size) THEN Exit("assertion")
           ELSE /\ stack' = Reduced(rule)
                /\ data_mem' = WriteToDataMemory(data_mem, cur_data_addr, Integer(0), size)
                /\ cur_data_addr' = cur_data_addr + size
                /\ UNCHANGED <<source, next, yychar, yyerrstatus, yynerrs, cur_segment,
                               instrVars, elements, status>>

-----------------------------------------------------------------------------
(* Instructions.                                                           *)

Opcode(rule) == String(1 - yyr2[rule])

\* The instruction the rule creates.
ParsedInstr(rule) ==
  LET type == Opcode(rule)
      line == stack[Len(stack) + 1 - yyr2[rule]].line
  IN  CASE rule = 32 -> CreateInstr_RRR(type, Integer(-4), Integer(-2), Integer(0), line)
        [] rule = 33 -> CreateInstr_RR(type, Integer(-2), Integer(0), line)
        [] rule = 34 /\ type \in Branches
             -> CreateInstr_RRI(type, Integer(-4), Integer(-2), Integer(0), line)
        [] rule = 34 /\ type \notin Branches
             -> CreateInstr_RRI(type, Integer(-2), Integer(-4), Integer(0), line)
        [] rule = 35 -> CreateInstr_RRI(type, Integer(-4), Integer(-2), DONT_CARE, line)
        [] rule = 36 -> CreateInstr_RRI(type, Integer(-1), Integer(-5), Integer(-3), line)
        [] rule = 37 -> CreateInstr_RRI(type, DONT_CARE, Integer(-2), DONT_CARE, line)
        [] rule = 38 -> CreateInstr_RI(type, Integer(-2), Integer(0), line)
        [] rule = 39 -> CreateInstr_I(type, Integer(0), line)
        [] rule = 40 -> CreateInstr_I(type, DONT_CARE, line)
        [] rule = 41 -> CreateInstr_Empty(type, line)

\* The label operand of the rule.
ParsedLabel(rule) == IF rule \in {35, 37, 40} THEN String(0) ELSE NO_LABEL

\* Mutant: only the destination is validated.
MutantOperandsValid(instr) == instr.rd \in RegNr \cup {DONT_CARE}

\* ValidateRegisterOperand, for the three operands.
OperandsValid(instr) ==
  {instr.rd, instr.rs, instr.rt} \subseteq RegNr \cup {DONT_CARE}

\* The action of the rule reports an error: the operand of an instruction that
\* is not a branch is a label, or the immediate of lui is too large.
Refused(rule) ==
  \/ rule = 35 /\ Opcode(35) \notin Branches
  \/ /\ rule = 38
     /\ Opcode(38) = "LUI"
     /\ OperandsValid(ParsedInstr(38))
     /\ ~ValueFitsInPrecision(Integer(0), WordBits \div 2)

\* Mutant: an instruction is accepted in the data segment.
MutantInstrFails(rule) == ~OperandsValid(ParsedInstr(rule))

\* An assertion fails: a register does not exist, or AddParsedInstrToBack is
\* called in the data segment.
InstrFails(rule) == ~OperandsValid(ParsedInstr(rule)) \/ cur_segment # "TEXT"

\* instr: ..., and AddParsedInstrToBack.
ReduceInstr ==
  \E rule \in 32 .. 41 :
    /\ Reduce(rule)
    /\ IF Refused(rule) THEN RaiseError(rule)
       ELSE IF InstrFails(rule) THEN Exit("assertion")
       ELSE /\ stack' = Reduced(rule)
            /\ instr_buf' = Append(instr_buf,
                                   [instr |-> ParsedInstr(rule), label |-> ParsedLabel(rule)])
            /\ cur_instr_addr' = cur_instr_addr + 4
            /\ UNCHANGED <<source, next, yychar, yyerrstatus, yynerrs, cur_segment,
                           dataVars, elements, status>>

-----------------------------------------------------------------------------
ParserInit ==
  /\ source \in Sources
  /\ next = 0
  /\ stack = <<Entry(0, NoValue(1))>>
  /\ yychar = EMPTY
  /\ yyerrstatus = 0
  /\ yynerrs = 0
  /\ cur_segment = "TEXT"
  /\ cur_data_addr = DataSegStart
  /\ cur_instr_addr = TextSegStart
  /\ instr_buf = <<>>
  /\ data_mem = ZeroMemory
  /\ elements = <<>>
  /\ status = "parsing"

ParserNext ==
  \/ ReadToken \/ Shift \/ Accept \/ SyntaxError
  \/ ReducePlain \/ ReduceStart \/ ReduceError
  \/ ReduceSegment \/ ReduceLabel \/ ReduceConstant \/ ReduceInstr
=============================================================================
