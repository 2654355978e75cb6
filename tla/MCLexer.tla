------------------------------ MODULE MCLexer ------------------------------
(***************************************************************************)
(* Files for the lexer: all short texts over a few characters, the fixed   *)
(* texts of the rules and texts close to them, and lines of a program, so  *)
(* that every kind of token meets the end of the buffer in every place.    *)
(***************************************************************************)
EXTENDS Lexer, LexerAutomaton

\* All texts of n of the characters.
RECURSIVE TextsOf(_, _)
TextsOf(chars, n) ==
  IF n = 0 THEN {""} ELSE {t \o c : t \in TextsOf(chars, n - 1), c \in chars}

ShortTexts ==
  UNION {TextsOf({"r", "$", "0", "x", "-", "#", "\n"}, n) : n \in 0 .. 4}
    \cup UNION {TextsOf({"l", "i", "#", " ", "\n", NUL}, n) : n \in 0 .. 3}

\* A fixed text, the same cut short, and the same going on.
NearFixedTexts ==
  LET fixed == {Joined(Texts[rule]) : rule \in DOMAIN Texts}
  IN  {"x " \o text \o "," : text \in fixed}
        \cup {SubSeq(text, 1, Len(text) - 1) \o "\n" : text \in fixed}
        \cup {text \o more : text \in fixed, more \in {"u", "3", "_", "."}}

Lines == {
  "foo:\n  addi $12, $r31, -0x1f # comment\n",
  "a:b sltiuZ $123 $r4567 12ab\n#",
  "# one\n\t# two\n\n.word 0x12 -17 007\n",
  "lw $t0, 4($sp) @ \n",
  "#" \o NUL \o "x\nj" \o NUL \o "j\n",
  "a" \o HIGH \o "b\n",
  "-0x -x 0xg $r $ra1 .textx .wor .e .\n"}

MCFiles == {Characters(string) : string \in ShortTexts \cup NearFixedTexts \cup Lines}
=============================================================================
