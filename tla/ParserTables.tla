---------------------------- MODULE ParserTables ----------------------------
(***************************************************************************)
(* The tables Bison generated for the grammar of the assembly language     *)
(* (mips_parser.c, mips_parser_tokens.h), and how the parser looks up what *)
(* to do.  A token is written by its name; symbols, states and rules are   *)
(* numbers, as in the code.                                                *)
(***************************************************************************)
EXTENDS Integers, Sequences

\* The names of the tokens, in the order of their numbers as symbols.
yytname == <<
  "end of file", "error", "invalid token", "NEWLINE", "TEXT_DIR", "DATA_DIR",
  "GLOBL_DIR", "ENT_DIR", "END_DIR", "BYTE_DIR", "HALF_DIR", "WORD_DIR",
  "RRR_INSTR", "RR_INSTR", "RRI_INSTR", "RIR_INSTR", "RI_INSTR", "I_INSTR",
  "EMPTY_INSTR", "REGISTER", "INTEGER", "LABEL", ":", ",", "(", ")">>

Tokens == {yytname[k] : k \in DOMAIN yytname}

YYNTOKENS == Len(yytname)

\* YYTRANSLATE.
yytranslate == [name \in Tokens |-> (CHOOSE k \in DOMAIN yytname : yytname[k] = name) - 1]

YYFINAL == 3
YYPACT_NINF == -9
YYSYMBOL_YYerror == 1

\* The tables begin with index 0.
FromZero(table) == [k \in 0 .. Len(table) - 1 |-> table[k + 1]]

\* Where the entries of a state begin in yytable, YYPACT_NINF if it has none.
yypact == FromZero(<<
  -9, 2, 0, -9, -9, -9, -9, -1, 7, 15, 24, 25, 26, 28, 29, 30, 31, 32, 18,
  -9, 33, 34, -9, -9, -9, -9, -9, -9, -9, -9, -9, 36, -9, 37, -9, 38, 39,
  40, 41, 42, 43, -9, -9, -9, -9, -9, -9, -9, 35, 48, 49, 20, 50, 16, 46,
  -9, 51, 47, -9, -9, -9, 13, 17, 53, 22, 54, -9, -9, -9, -9, -9, 27, -9>>)

\* The rule a state reduces by when yytable says nothing; 0 is an error.
yydefact == FromZero(<<
  3, 0, 0, 1, 9, 18, 19, 0, 0, 0, 0, 0, 0, 0, 0, 0, 0, 0, 0, 41, 0, 0, 7, 8,
  6, 12, 15, 20, 21, 22, 26, 23, 28, 24, 30, 25, 0, 0, 0, 0, 0, 39, 40, 16,
  4, 27, 29, 31, 0, 0, 0, 0, 0, 13, 0, 33, 0, 0, 37, 38, 17, 0, 0, 0, 0, 0,
  11, 14, 32, 34, 35, 0, 36>>)

\* The same as yypact and yydefact for the nonterminals, from 26 on.
yypgoto == FromZero(<<
  -9, -9, -9, -9, -9, -9, -9, -9, -9, -9, -8, -9, -9, -9, -3>>)

yydefgoto == FromZero(<<
  0, 1, 2, 21, 22, 61, 23, 62, 53, 24, 25, 31, 33, 35, 26>>)

\* A positive entry shifts to a state, a negative one reduces by a rule.
yytable == FromZero(<<
  -2, 4, 3, -5, 5, 6, 7, 8, 9, 10, 11, 12, 13, 14, 15, 16, 17, 18, 19, 60,
  27, 20, 10, 11, 12, -10, -10, -10, 28, 13, 14, 15, 16, 17, 18, 19, 29, 44,
  41, 42, 57, 58, 69, 70, 30, 32, 34, 36, 37, 38, 39, 40, 72, 66, 54, 43,
  45, 46, 47, 67, 0, 0, 48, 49, 50, 51, 52, 55, 56, 63, 59, 65, 68, 71, 64>>)

\* The symbol (for a nonterminal, the state) an entry of yytable is for.
yycheck == FromZero(<<
  0, 1, 0, 3, 4, 5, 6, 7, 8, 9, 10, 11, 12, 13, 14, 15, 16, 17, 18, 3, 21,
  21, 9, 10, 11, 9, 10, 11, 21, 12, 13, 14, 15, 16, 17, 18, 21, 3, 20, 21,
  20, 21, 20, 21, 20, 20, 20, 19, 19, 19, 19, 19, 25, 61, 19, 22, 20, 20,
  20, 62, -1, -1, 23, 23, 23, 23, 23, 19, 19, 23, 20, 24, 19, 19, 23>>)

\* The left-hand side and the length of each rule.
yyr1 == FromZero(<<
  0, 26, 27, 28, 28, 29, 29, 29, 29, 29, 31, 30, 30, 33, 32, 32, 34, 34, 35,
  35, 35, 35, 35, 36, 36, 36, 37, 37, 38, 38, 39, 39, 40, 40, 40, 40, 40,
  40, 40, 40, 40, 40>>)

yyr2 == FromZero(<<
  0, 2, 1, 0, 3, 0, 1, 1, 1, 1, 0, 5, 1, 0, 5, 1, 0, 2, 1, 1, 2, 2, 2, 2, 2,
  2, 1, 2, 1, 2, 1, 2, 6, 4, 6, 6, 7, 4, 4, 2, 2, 1>>)

-----------------------------------------------------------------------------
\* The state can be left without looking at the next token.
yypact_value_is_default(state) == yypact[state] = YYPACT_NINF

\* yytable has an entry for the symbol in the state.
HasEntry(state, symbol) ==
  LET n == yypact[state] + symbol
  IN  /\ ~yypact_value_is_default(state)
      /\ n \in DOMAIN yytable
      /\ yycheck[n] = symbol

\* yybackup: what to do in a state with a symbol.  A positive number shifts
\* to a state, a negative one reduces by a rule and 0 is a syntax error.
Decision(state, symbol) ==
  IF HasEntry(state, symbol) THEN yytable[yypact[state] + symbol] ELSE -yydefact[state]

\* The state after a reduction by a rule to a state that was below its symbols.
Goto(rule, state) ==
  LET lhs == yyr1[rule] - YYNTOKENS
      n == yypgoto[lhs] + state
  IN  IF n \in DOMAIN yytable /\ yycheck[n] = state THEN yytable[n] ELSE yydefgoto[lhs]

\* The state accepts the error token.
ShiftsError(state) ==
  HasEntry(state, YYSYMBOL_YYerror) /\ Decision(state, YYSYMBOL_YYerror) > 0
=============================================================================
