---------------------------- MODULE ParserStacks ----------------------------
(***************************************************************************)
(* The stacks of states the automaton can have (yyss in yyparse).  The     *)
(* grammar nests nothing, so there are finitely many, and the longest is   *)
(* far shorter than YYINITDEPTH.                                           *)
(***************************************************************************)
EXTENDS ParserTables

\* The length of the longest.
MaxStack == 13

States == DOMAIN yypact

\* The tokens whose value is the type of an instruction.
OpcodeTokens ==
  {"RRR_INSTR", "RR_INSTR", "RRI_INSTR", "RIR_INSTR", "RI_INSTR", "I_INSTR", "EMPTY_INSTR"}

\* What can be done in a state, whatever the next token is.
Decisions(state) == {Decision(state, yytranslate[token]) : token \in Tokens}

\* The states in which the token has just been shifted.
StatesAfter(token) == {d \in {Decision(state, yytranslate[token]) : state \in States} : d > 0}

OpcodeStates == UNION {StatesAfter(token) : token \in OpcodeTokens}

\* The state after the whole program, and the final one after the end of the file.
EndStates == {1, YYFINAL}

\* The states between an instruction and the end of its line: instr, instr_line, line.
AfterInstr == {21, 23, 26, 67}

Top(states) == states[Len(states)]
Under(states, n) == SubSeq(states, 1, Len(states) - n)

\* The states after a reduction by the rule.
AfterReduction(states, rule) ==
  Append(Under(states, yyr2[rule]), Goto(rule, Top(Under(states, yyr2[rule]))))

\* The rules by which the automaton can reduce with these states on its stack;
\* it stops in the final one.
Reductions(states) ==
  IF Top(states) = YYFINAL THEN {} ELSE {-d : d \in {d \in Decisions(Top(states)) : d < 0}}

Shifts(states) == {d \in Decisions(Top(states)) : d > 0}

After(states) ==
  {Append(states, d) : d \in Shifts(states)}
    \cup {AfterReduction(states, rule) : rule \in Reductions(states)}

\* Every stack the automaton can reach: no step leads to another one after as
\* many rounds (StacksClosed).
Rounds == 40

Viable ==
  LET reached[n \in 0 .. Rounds] ==
        IF n = 0 THEN {<<0>>}
        ELSE LET before == reached[n - 1] IN before \cup UNION {After(p) : p \in before}
  IN  reached[Rounds]

-----------------------------------------------------------------------------
(***************************************************************************)
(* Facts about the tables, which have no parameters: TLC evaluates them,   *)
(* and the proofs about the parser rest on them.                           *)
(***************************************************************************)

\* The stacks are closed under what the automaton does, and by every rule it
\* reduces by it has the symbols of the rule on the stack.
ASSUME StacksClosed ==
  /\ <<0>> \in Viable
  /\ \A p \in Viable :
       /\ p \in Seq(States)
       /\ Len(p) \in 1 .. MaxStack
       /\ \A k \in 1 .. Len(p) : SubSeq(p, 1, k) \in Viable
       /\ \A d \in Shifts(p) : Append(p, d) \in Viable
       /\ \A rule \in Reductions(p) :
            yyr2[rule] < Len(p) /\ AfterReduction(p, rule) \in Viable

\* At most one state of a stack accepts the error token.
ASSUME RecoversInOnePlace ==
  \A p \in Viable : \A j, k \in DOMAIN p : ShiftsError(p[j]) /\ ShiftsError(p[k]) => j = k

\* The token by which the rule for an instruction begins.
OpcodeOf(rule) ==
  <<"RRR_INSTR", "RR_INSTR", "RRI_INSTR", "RRI_INSTR", "RIR_INSTR", "RIR_INSTR",
    "RI_INSTR", "I_INSTR", "I_INSTR", "EMPTY_INSTR">>[rule - 31]

\* The entries of the stack so far below the top are registers.
RegistersAt(states, depths) ==
  \A n \in depths : states[Len(states) - n] \in StatesAfter("REGISTER")

\* A rule for an instruction finds its type where its first symbol is and its
\* registers in their places, and nothing else has the state of one.
ASSUME OperandsInPlace ==
  /\ 0 \notin OpcodeStates \cup StatesAfter("REGISTER")
  /\ \A token \in OpcodeTokens \cup {"REGISTER"}, other \in Tokens, state \in States :
       Decision(state, yytranslate[other]) \in StatesAfter(token) => other = token
  /\ \A p \in Viable : \A rule \in Reductions(p) :
       /\ Top(AfterReduction(p, rule)) \notin OpcodeStates \cup StatesAfter("REGISTER")
       /\ rule \in 32 .. 41 =>
            /\ p[Len(p) + 1 - yyr2[rule]] \in StatesAfter(OpcodeOf(rule))
            /\ \A k \in 1 .. Len(p) : p[k] \in OpcodeStates => k = Len(p) + 1 - yyr2[rule]
       /\ rule = 32 => RegistersAt(p, {0, 2, 4})
       /\ rule \in {34, 35} => RegistersAt(p, {2, 4})
       /\ rule = 36 => RegistersAt(p, {1, 5})
       /\ rule \in {37, 38} => RegistersAt(p, {2})

\* The end of a line follows every instruction, and the end of the file ends
\* what the rule of the whole program has reduced.
ASSUME EndsInPlace ==
  /\ \A state \in AfterInstr, token \in Tokens :
       Decision(state, yytranslate[token]) > 0 => token = "NEWLINE"
  /\ \A p \in Viable : \A rule \in Reductions(p) :
       /\ rule \in 32 .. 41 \/ Top(p) \in AfterInstr =>
            Top(AfterReduction(p, rule)) \in AfterInstr
       /\ Top(AfterReduction(p, rule)) \in EndStates => rule = 2
  /\ \A state \in States, token \in Tokens :
       Decision(state, yytranslate[token]) \in EndStates => state \in EndStates
  /\ \A state \in EndStates : ~ShiftsError(state)

\* The defaults, the lengths of the rules, and the names of the symbols the parser uses.
ASSUME TablesAssumption ==
  /\ \A state \in States : state \in DOMAIN yydefact /\ yydefact[state] \in Nat
  /\ \A rule \in DOMAIN yyr2 : yyr2[rule] \in Nat
  /\ \A rule \in 32 .. 41 : yyr2[rule] >= 1
  /\ yyr2[32] >= 5 /\ yyr2[34] >= 5 /\ yyr2[35] >= 5 /\ yyr2[36] >= 6
  /\ yyr2[37] >= 3 /\ yyr2[38] >= 3
  /\ 2 .. 41 \subseteq DOMAIN yyr2
  /\ {"error", "end of file", "REGISTER", "NEWLINE"} \subseteq Tokens
  /\ "none" \notin Tokens
  /\ OpcodeTokens \subseteq Tokens
  /\ yytranslate["error"] = YYSYMBOL_YYerror
=============================================================================
