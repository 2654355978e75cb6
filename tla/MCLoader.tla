------------------------------ MODULE MCLoader ------------------------------
(***************************************************************************)
(* Small programs for the parser and the linker: any two lines of a list   *)
(* followed by the line of the entry point, and the same lines with one    *)
(* token left out or replaced.                                             *)
(***************************************************************************)
EXTENDS LoaderCorrectness, SequencesExt

Plain(token) == [token |-> token, string |-> "", integer |-> DONT_CARE]
Named(token, string) == [Plain(token) EXCEPT !.string = string]

NL == Plain("NEWLINE")
R(n) == [Plain("REGISTER") EXCEPT !.integer = n]
N(n) == [Plain("INTEGER") EXCEPT !.integer = n]
L(name) == Named("LABEL", name)
Colon == Plain(":")
Comma == Plain(",")

A == <<L("a"), Colon>>
B == <<L("b"), Colon>>

Start == <<L("__start"), Colon, Named("EMPTY_INSTR", "SYSCALL"), NL>>

RRR(type, d, s, t) == <<Named("RRR_INSTR", type), R(d), Comma, R(s), Comma, R(t)>>
RRI(type, r, s, operand) == <<Named("RRI_INSTR", type), R(r), Comma, R(s), Comma, operand>>
RIR(type, r, operand) == <<Named("RIR_INSTR", type), R(r), Comma>> \o operand
RI(type, r, n) == <<Named("RI_INSTR", type), R(r), Comma, N(n)>>
RR(type, r, s) == <<Named("RR_INSTR", type), R(r), Comma, R(s)>>
I(type, operand) == <<Named("I_INSTR", type), operand>>

\* Statements of every form, and some that cannot be assembled or linked.
Statements == <<
  <<>>,
  <<Plain("TEXT_DIR")>>,
  <<Plain("DATA_DIR")>>,
  <<Plain("GLOBL_DIR"), L("a")>>,
  <<Plain("ENT_DIR"), L("a")>>,
  <<Plain("END_DIR"), L("a")>>,
  A \o <<Named("EMPTY_INSTR", "NOP")>>,
  B \o <<NL, NL>> \o RRR("ADD", 1, 2, 0),
  A \o <<Plain("BYTE_DIR"), N(1)>>,
  <<Plain("BYTE_DIR"), N(1), N(2)>>,
  B \o <<NL, Plain("HALF_DIR"), N(7), N(-3)>>,
  <<Plain("WORD_DIR"), N(-1)>>,
  A \o <<Plain("WORD_DIR"), N(100)>>,
  RRI("ADDI", 1, 2, N(5)),
  RRI("BEQ", 1, 2, L("a")),
  RIR("LW", 1, <<L("a")>>),
  RIR("SB", 2, <<L("b")>>),
  RI("LI", 1, 2),
  RI("LUI", 1, 3),
  I("J", L("b")),
  RR("MOV", 1, 2),
  <<Plain("BYTE_DIR"), N(9)>>,
  RRI("ADDI", 1, 2, L("a")),
  RRI("BNE", 1, 2, N(3)),
  RIR("SW", 1, <<N(4), Plain("("), R(2), Plain(")")>>),
  RI("LUI", 1, 100),
  I("J", N(3)),
  RRR("SUB", 1, 3, 0),
  <<L("a")>>,
  A,
  A \o <<Plain("TEXT_DIR")>>,
  <<Named("RRR_INSTR", "ADD"), R(1)>>,
  <<Named("RRR_INSTR", "ADD"), R(1), R(2)>>,
  <<Plain("invalid token")>>>>

Lines == [k \in DOMAIN Statements |-> Append(Statements[k], NL)]

\* Any two of them, the first two lines of a program.
TwoLines == {Lines[j] \o Lines[k] \o Start : j \in DOMAIN Lines, k \in DOMAIN Lines}

\* Lines with one token left out, or with another in its place.
Others ==
  {Named("RRR_INSTR", "ADD"), Named("EMPTY_INSTR", "NOP"), R(1), N(1), L("b"), Colon,
   Comma, NL, Plain("DATA_DIR"), Plain("WORD_DIR")}

Damaged ==
  UNION {{RemoveAt(Lines[k], n) \o Start : n \in 1 .. Len(Lines[k])}
           \cup {ReplaceAt(Lines[k], n, t) \o Start : n \in 1 .. Len(Lines[k]), t \in Others} :
         k \in DOMAIN Lines}

AllSources == TwoLines \cup Damaged

\* Lines on which a token stands where no statement goes on with it.
DerailedSources == {s \in Damaged : Derails(s)}
=============================================================================
