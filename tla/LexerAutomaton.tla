--------------------------- MODULE LexerAutomaton ---------------------------
(***************************************************************************)
(* What a state of the automaton stands for: the texts that lead to it, in *)
(* terms of the lexical rules.  A short text that begins a rule has states *)
(* of its own; of a longer one the automaton knows its kind alone.  The    *)
(* facts about the tables are finite and without parameters: evaluating    *)
(* them settles them.                                                      *)
(***************************************************************************)
EXTENDS LexerTables

Front(text) == SubSeq(text, 1, Len(text) - 1)

\* The beginnings of the fixed texts, and the registers by their numbers.
FixedStems ==
  UNION {{SubSeq(Texts[rule], 1, n) : n \in 1 .. Len(Texts[rule])} : rule \in DOMAIN Texts}

RegisterStems ==
  {<<"$", d>> : d \in Digit} \cup {<<"$", "r", d>> : d \in Digit}
    \cup {<<"$", d, e>> : d \in Digit, e \in Digit}
    \cup {<<"$", "r", d, e>> : d \in Digit, e \in Digit}

\* The beginnings of the texts that are fixed or short.
Stems ==
  {<<>>} \cup {<<c>> : c \in Chars} \cup {<<"0", "x">>, <<"-", "0">>, <<"-", "0", "x">>}
    \cup FixedStems \cup RegisterStems

\* A comment whose line has not ended.
IsOpenComment(text) == Follows(text, <<"#">>) /\ \A k \in 1 .. Len(text) : text[k] # "\n"

\* The texts that are no stems, by what they are; "none" is all that no rule
\* matches, and none will match whatever follows.
Kind(text) ==
  IF IsNumber(text) THEN "number"
  ELSE IF IsNegative(text) THEN "negative"
  ELSE IF Hexadecimal(text, <<"0", "x">>) THEN "hexadecimal"
  ELSE IF Hexadecimal(text, <<"-", "0", "x">>) THEN "negative hexadecimal"
  ELSE IF IsLabel(text) THEN "label"
  ELSE IF IsOpenComment(text) THEN "open comment"
  ELSE IF IsComment(text) THEN "comment"
  ELSE "none"

Kinds == {
  "number", "negative", "hexadecimal", "negative hexadecimal", "label", "open comment",
  "comment", "none"}

\* The kind of a text and one more character.
KindStep(kind, c) ==
  IF kind \in {"number", "negative", "hexadecimal", "negative hexadecimal"} /\ c \in Digit
    THEN kind
  ELSE IF kind = "label" /\ c \in Letter \cup Digit THEN kind
  ELSE IF kind = "open comment" /\ c # "\n" THEN kind
  ELSE IF kind = "open comment" THEN "comment"
  ELSE "none"

\* The rule that matches the texts of a kind, or 0.
KindRule(kind) ==
  CASE kind \in {"number", "negative"} -> 78
    [] kind = "hexadecimal" -> 80
    [] kind = "negative hexadecimal" -> 79
    [] kind = "label" -> 43
    [] kind = "comment" -> 2
    [] OTHER -> 0

\* The state a stem leads to.
StemState[text \in Stems] ==
  IF text = <<>> THEN 1 ELSE Transition[StemState[Front(text)], ClassOf(text[Len(text)])]

\* The state the texts of a kind lead to.
KindState(kind) ==
  CASE kind \in {"number", "negative"} -> 40
    [] kind = "hexadecimal" -> 113
    [] kind = "negative hexadecimal" -> 134
    [] kind = "label" -> 49
    [] kind = "open comment" -> 27
    [] kind = "comment" -> 28
    [] OTHER -> Jam

\* The state the text leads to, and the rule that matches it, or 0.
StateOf(text) == IF text \in Stems THEN StemState[text] ELSE KindState(Kind(text))

RuleOf(text) == IF RulesFor(text) = {} THEN 0 ELSE Min(RulesFor(text))

-----------------------------------------------------------------------------
(* The facts about the tables.                                             *)

\* The state of the end of the buffer.
EndOfBuffer == 5

\* A stem without its last character is a stem, and each character is one.
ASSUME StemsAssumption ==
  \A text \in Stems \ {<<>>} : Front(text) \in Stems

\* From the state of a stem the automaton goes to that of the stem, or the kind
\* of text, that a character makes of it.
ASSUME StemStepsAssumption ==
  \A text \in Stems, c \in Chars :
    Transition[StemState[text], ClassOf(c)] = StateOf(Append(text, c))

\* In the state of a stem it accepts by the first rule that matches the stem.
ASSUME StemRulesAssumption ==
  \A text \in Stems : At(yy_accept, StemState[text]) = RuleOf(text)

\* The same for the kinds of text.
ASSUME KindStepsAssumption ==
  \A kind \in Kinds, c \in Chars :
    Transition[KindState(kind), ClassOf(c)] = KindState(KindStep(kind, c))

ASSUME KindRulesAssumption ==
  \A kind \in Kinds : At(yy_accept, KindState(kind)) = KindRule(kind)

\* It begins in state 1.  The stems do not jam, nor do they end the buffer.
ASSUME JamAssumption ==
  /\ StemState[<<>>] = 1
  /\ \A text \in Stems : StemState[text] \in (1 .. Jam - 1) \ {EndOfBuffer}

\* Some rule matches each character.
ASSUME CharRulesAssumption == \A c \in Chars : RulesFor(<<c>>) # {}

\* A zero byte ends the scan, in all states but those of the start and the end.
ASSUME EndOfBufferAssumption ==
  /\ \A state \in 1 .. Jam - 1 : state # EndOfBuffer => Transition[state, 0] = EndOfBuffer
  /\ \A class \in 0 .. Len(CharClasses) : Transition[EndOfBuffer, class] = Jam
  /\ At(yy_accept, EndOfBuffer) = YY_END_OF_BUFFER
  /\ At(yy_accept, 1) = 0 /\ At(yy_accept, 3) = 0

\* The characters the rules name.
ASSUME CharsAssumption ==
  /\ Letter \cap Digit = {}
  /\ {"\n", "#", "$", "-", NUL} \cap (Letter \cup Digit) = {}
  /\ {"x", "r"} \subseteq Letter /\ "0" \in Digit
  /\ Letter \cup Digit \cup {" ", "\t", "\n", "#", "$", "-", NUL} \subseteq Chars

\* A zero byte has class 0 when it ends the buffer, and no other character has.
ASSUME ClassesAssumption ==
  /\ yy_ec[NUL] = 0
  /\ \A c \in Chars : ClassOf(c) \in 1 .. Len(CharClasses)

\* The rules return tokens of the grammar, and none of them is the end of the
\* file by its name.
ASSUME TokensAssumption ==
  /\ \A rule \in 3 .. 10 : DirectiveRules[rule - 2][2] \in Tokens \ {"end of file"}
  /\ \A rule \in 11 .. 42 : InstrRules[rule - 10][3] \in Tokens \ {"end of file"}
  /\ {"end of file", "invalid token", "NEWLINE", "REGISTER", "INTEGER", "LABEL",
      ":", ",", "(", ")"} \subseteq Tokens
=============================================================================
