-------------------------- MODULE AssemblyLanguage --------------------------
(***************************************************************************)
(* What a program in the assembly language means, stated line by line and  *)
(* without a parser: which token sequences are statements (the grammar of  *)
(* mips_parser.y), and the instructions, bytes and labels they stand for.  *)
(***************************************************************************)
EXTENDS InstrMemory, ByteMemory, SymbolTable, FiniteSets

LOCAL INSTANCE SequencesExt

-----------------------------------------------------------------------------
(* Statements.                                                             *)

Names(tokens) == [k \in DOMAIN tokens |-> tokens[k].token]

LabelPrefix == <<"LABEL", ":">>

\* The program up to token n: the statements that are complete, with the line
\* numbers of their tokens, and the tokens of the one that is not.  A statement
\* ends with its line, but for a label that stands alone on its line.
Split(source) ==
  LET upto[n \in 0 .. Len(source)] ==
        IF n = 0 THEN [done |-> <<>>, rest |-> <<>>, line |-> 1]
        ELSE LET p == upto[n - 1]
                 t == source[n]
                 located == [token |-> t.token, string |-> t.string,
                             integer |-> t.integer, line |-> p.line]
             IN  IF t.token # "NEWLINE" THEN [p EXCEPT !.rest = Append(@, located)]
                 ELSE IF Names(p.rest) = LabelPrefix THEN [p EXCEPT !.line = @ + 1]
                 ELSE [done |-> Append(p.done, p.rest), rest |-> <<>>, line |-> p.line + 1]
  IN  upto[Len(source)]

DirectiveShapes ==
  {<<"TEXT_DIR">>, <<"DATA_DIR">>}
    \cup {<<d, "LABEL">> : d \in {"GLOBL_DIR", "ENT_DIR", "END_DIR"}}

InstrShapes ==
  {<<"EMPTY_INSTR">>,
   <<"I_INSTR", "INTEGER">>,
   <<"I_INSTR", "LABEL">>,
   <<"RI_INSTR", "REGISTER", ",", "INTEGER">>,
   <<"RR_INSTR", "REGISTER", ",", "REGISTER">>,
   <<"RIR_INSTR", "REGISTER", ",", "LABEL">>,
   <<"RIR_INSTR", "REGISTER", ",", "INTEGER", "(", "REGISTER", ")">>,
   <<"RRR_INSTR", "REGISTER", ",", "REGISTER", ",", "REGISTER">>,
   <<"RRI_INSTR", "REGISTER", ",", "REGISTER", ",", "INTEGER">>,
   <<"RRI_INSTR", "REGISTER", ",", "REGISTER", ",", "LABEL">>}

DataDirectives == {"BYTE_DIR", "HALF_DIR", "WORD_DIR"}

DataShapes(n) ==
  {<<d>> \o [k \in 1 .. m |-> "INTEGER"] : d \in DataDirectives, m \in 1 .. n}

\* The statements with up to n constants.
StatementShapes(n) ==
  LET marked == InstrShapes \cup DataShapes(n)
  IN  {<<>>} \cup DirectiveShapes \cup marked \cup {LabelPrefix \o s : s \in marked}

\* The tokens can be the beginning of a statement.
Begins(names) ==
  \E shape \in StatementShapes(Len(names) + 1) : IsPrefix(names, shape)

WellFormed(statement) == Names(statement) \in StatementShapes(Len(statement))

\* Only its last tokens are missing from a statement.
CutShort(statement) == ~WellFormed(statement) /\ Begins(Names(statement))

-----------------------------------------------------------------------------
(* The meaning of a well formed statement.                                 *)

IsLabelled(statement) == IsPrefix(LabelPrefix, Names(statement))

Body(statement) ==
  IF IsLabelled(statement) THEN SubSeq(statement, 3, Len(statement)) ELSE statement

\* The registers, the integers and the labels of a statement, from left to right.
Chosen(body, kind) == SelectSeq(body, LAMBDA t : t.token = kind)

Numbers(body, kind) ==
  [k \in DOMAIN Chosen(body, kind) |-> Chosen(body, kind)[k].integer]

Labels(body) == [k \in DOMAIN Chosen(body, "LABEL") |-> Chosen(body, "LABEL")[k].string]

OnlyOr(operands, default) == IF operands = <<>> THEN default ELSE operands[1]

IsInstr(body) == Names(body) \in InstrShapes
IsData(body) == body # <<>> /\ body[1].token \in DataDirectives

\* The instruction; loads and stores write or read rt, and name the base
\* register after it.
InstrOf(body) ==
  LET kind == body[1].token
      r == Numbers(body, "REGISTER")
      plain == [CreateInstr_Empty(body[1].string, body[1].line)
                  EXCEPT !.imm = OnlyOr(Numbers(body, "INTEGER"), DONT_CARE)]
  IN  CASE kind = "RRR_INSTR" -> [plain EXCEPT !.rd = r[1], !.rs = r[2], !.rt = r[3]]
        [] kind = "RR_INSTR"  -> [plain EXCEPT !.rd = r[1], !.rs = r[2]]
        [] kind = "RRI_INSTR" /\ plain.type \in Branches
             -> [plain EXCEPT !.rs = r[1], !.rt = r[2]]
        [] kind = "RRI_INSTR" /\ plain.type \notin Branches
             -> [plain EXCEPT !.rs = r[2], !.rt = r[1]]
        [] kind = "RIR_INSTR"
             -> [plain EXCEPT !.rt = r[1], !.rs = IF Len(r) = 2 THEN r[2] ELSE DONT_CARE]
        [] kind = "RI_INSTR" -> [plain EXCEPT !.rt = r[1]]
        [] OTHER -> plain

\* An operand that the grammar allows and the instruction does not: a label
\* that is not the target of a branch, an immediate of lui beyond a half word.
\* Registers that do not exist are no reason here.
Misused(body) ==
  /\ IsInstr(body)
  /\ \/ /\ body[1].token = "RRI_INSTR"
        /\ Labels(body) # <<>>
        /\ body[1].string \notin Branches
     \/ /\ body[1].string = "LUI"
        /\ ~ValueFitsInPrecision(InstrOf(body).imm, WordBits \div 2)

\* The statement is reported as an error, and the next line is read.
Wrong(statement) ==
  CutShort(statement) \/ (WellFormed(statement) /\ Misused(Body(statement)))

DirectiveBytes(directive) ==
  CASE directive = "BYTE_DIR" -> 1 [] directive = "HALF_DIR" -> 2 [] directive = "WORD_DIR" -> 4

\* The bytes of a number, the most significant first.
BytesOf(value, size) == [k \in 1 .. size |-> ByteOf(value, size - k)]

-----------------------------------------------------------------------------
(* Programs.  A program so far is [segment, code, bytes, labels, fails].   *)

EmptyProgram ==
  [segment |-> "TEXT", code |-> <<>>, bytes |-> <<>>, labels |-> {}, fails |-> FALSE]

TextEnd(p) == TextSegStart + 4 * Len(p.code)
DataEnd(p) == DataSegStart + Len(p.bytes)

\* A label stands for the place of what follows it, and is defined once.
WithLabel(p, statement) ==
  IF ~IsLabelled(statement) THEN p
  ELSE LET name == statement[1].string
           address == IF IsData(Body(statement)) THEN DataEnd(p) ELSE TextEnd(p)
       IN  [p EXCEPT !.labels = @ \cup {[symbol |-> name, address |-> address]},
                     !.fails = \/ @
                               \/ \E l \in p.labels : l.symbol = name
                               \/ Cardinality(p.labels) = MaxElements]

WithConstant(p, value, size) ==
  [p EXCEPT !.bytes = @ \o BytesOf(value, size),
            !.fails = \/ @
                      \/ ~ValidDataAddress(DataEnd(p), size)
                      \/ ~WriteFits(value, size)]

WithConstants(p, body) ==
  LET values == Numbers(body, "INTEGER")
      size == DirectiveBytes(body[1].token)
  IN  FoldLeft(LAMBDA q, value : WithConstant(q, value, size), p, values)

WithInstr(p, body) ==
  [p EXCEPT !.code = Append(@, [instr |-> InstrOf(body),
                                label |-> OnlyOr(Labels(body), "")]),
            !.fails = \/ @
                      \/ p.segment = "DATA"
                      \/ \E k \in DOMAIN Numbers(body, "REGISTER") :
                           Numbers(body, "REGISTER")[k] \notin RegNr]

WithStatement(p, statement) ==
  LET body == Body(statement)
      q == WithLabel(p, statement)
  IN  IF IsData(body) THEN WithConstants(q, body)
      ELSE IF IsInstr(body) THEN WithInstr(q, body)
      ELSE IF Names(body) = <<"TEXT_DIR">> THEN [q EXCEPT !.segment = "TEXT"]
      ELSE IF Names(body) = <<"DATA_DIR">> THEN [q EXCEPT !.segment = "DATA"]
      ELSE q

\* What the statements of a program mean together.
Meaning(statements) == FoldLeft(WithStatement, EmptyProgram, statements)

\* The program is one the language allows.
Assembles(source) ==
  LET parts == Split(source)
  IN  /\ parts.rest = <<>>
      /\ \A k \in DOMAIN parts.done :
           WellFormed(parts.done[k]) /\ ~Wrong(parts.done[k])
      /\ ~Meaning(parts.done).fails

\* A token stands where no statement can go on with it, or the last statement
\* has no end.
Derails(source) ==
  LET parts == Split(source)
  IN  \/ parts.rest # <<>>
      \/ \E k \in DOMAIN parts.done : ~Begins(Names(parts.done[k]))

\* How many statements are wrong.
WrongStatements(source) ==
  LET done == Split(source).done IN Cardinality({k \in DOMAIN done : Wrong(done[k])})

DataImage(bytes) ==
  [a \in MemoryAddresses |->
     IF a - DataSegStart + 1 \in DOMAIN bytes THEN bytes[a - DataSegStart + 1] ELSE 0]

-----------------------------------------------------------------------------
(* Linking.                                                                *)

NamesAnAddress(type) == type \in Loads \cup Stores \cup Branches \cup {"J"}

Defines(p, name) == \E l \in p.labels : l.symbol = name

AddressOf(p, name) == (CHOOSE l \in p.labels : l.symbol = name).address

\* The program has an entry point that can be fetched from, and every address
\* an instruction names is that of a label.
Links(p) ==
  /\ Defines(p, "__start")
  /\ ValidInstrAddress(AddressOf(p, "__start"))
  /\ \A k \in DOMAIN p.code :
       NamesAnAddress(p.code[k].instr.type) => Defines(p, p.code[k].label)

\* Loads and stores address memory by their label alone.
Resolved(p, parsed) ==
  LET type == parsed.instr.type
  IN  IF ~NamesAnAddress(type) THEN parsed.instr
      ELSE [parsed.instr EXCEPT !.imm = AddressOf(p, parsed.label),
                                !.rs = IF type \in Loads \cup Stores THEN ZERO ELSE @]

\* What the pipeline is to run for a program that assembles and links.
Image(p) ==
  [instrs |-> [k \in DOMAIN p.code |-> Resolved(p, p.code[k])],
   start  |-> AddressOf(p, "__start"),
   data   |-> DataImage(p.bytes)]
=============================================================================
