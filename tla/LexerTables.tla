---------------------------- MODULE LexerTables ----------------------------
(***************************************************************************)
(* The tables flex generated for the lexical rules (mips_lexer.c), and the *)
(* automaton they stand for.                                               *)
(***************************************************************************)
EXTENDS LexicalRules

\* The characters of each equivalence class, from class 1 on.
CharClasses ==
  LET Each(chars) == [k \in DOMAIN chars |-> {chars[k]}]
  IN  <<OtherChars, {" ", "\t"}>> \o Each(<<"\n", "#", "$", "-", ".">>) \o Each(Digits)
        \o <<OtherLetters>> \o Each(Lowercase)

Chars == {NUL} \cup UNION {CharClasses[k] : k \in DOMAIN CharClasses}

NULClass == 1

\* The class of a character; that of the byte 0 is for the end of the buffer.
yy_ec ==
  [c \in Chars |-> IF c = NUL THEN 0 ELSE CHOOSE k \in DOMAIN CharClasses : c \in CharClasses[k]]

\* The class of a byte of the text, which is not the end of the buffer.
ClassOf(c) == IF c = NUL THEN NULClass ELSE yy_ec[c]

\* The tables begin with index 0.
At(table, k) == table[k + 1]

\* The rule a state accepts by, or 0.
yy_accept == <<
  0, 0, 0, 0, 0, 84, 82, 1, 81, 82, 82, 82, 82, 78, 78, 43, 43, 43, 43, 43,
  37, 43, 43, 43, 43, 43, 83, 0, 2, 44, 0, 0, 0, 0, 0, 0, 0, 0, 0, 78, 78,
  0, 0, 0, 0, 0, 0, 0, 0, 43, 43, 43, 43, 43, 43, 43, 20, 17, 40, 43, 15,
  43, 43, 25, 22, 19, 43, 43, 43, 16, 43, 44, 50, 51, 52, 53, 47, 76, 74,
  72, 73, 45, 77, 64, 65, 66, 67, 68, 69, 70, 71, 75, 54, 55, 56, 57, 58,
  59, 60, 61, 62, 63, 48, 49, 0, 0, 0, 0, 0, 0, 0, 0, 0, 80, 12, 24, 31, 32,
  43, 43, 21, 18, 23, 43, 11, 26, 28, 29, 33, 30, 13, 43, 45, 0, 79, 0, 0,
  7, 6, 0, 0, 0, 0, 14, 27, 42, 41, 39, 35, 34, 43, 46, 8, 4, 0, 9, 3, 10,
  36, 43, 5, 43, 38, 0>>

\* The class of a class in the templates, the states from 164 on.
yy_meta == <<
  0, 1, 1, 1, 1, 1, 1, 1, 2, 2, 2, 2, 2, 2, 2, 2, 2, 2, 3, 4, 3, 3, 3, 3, 3,
  3, 3, 3, 3, 3, 3, 3, 3, 3, 3, 3, 3, 3, 3, 3, 3, 3, 3, 3, 3>>

\* Where the entries of a state begin in yy_nxt and yy_chk.
yy_base == <<
  0, 0, 0, 0, 0, 201, 202, 202, 202, 197, 37, 191, 62, 156, 0, 0, 33, 35,
  174, 164, 0, 37, 162, 161, 157, 84, 202, 189, 202, 0, 60, 157, 156, 51,
  170, 120, 147, 71, 165, 145, 0, 143, 166, 152, 153, 163, 158, 147, 0, 0,
  157, 155, 118, 129, 130, 129, 110, 109, 0, 120, 0, 106, 55, 118, 0, 0, 56,
  114, 123, 0, 105, 202, 202, 202, 202, 202, 202, 202, 202, 202, 202, 0,
  202, 202, 202, 202, 202, 202, 202, 202, 202, 202, 202, 202, 202, 202, 202,
  202, 202, 202, 202, 202, 202, 202, 105, 0, 102, 101, 61, 105, 107, 94, 90,
  0, 97, 95, 0, 0, 85, 83, 0, 0, 0, 95, 0, 0, 0, 0, 63, 0, 0, 96, 202, 83,
  0, 92, 94, 202, 202, 92, 87, 71, 86, 0, 0, 0, 0, 0, 68, 0, 87, 202, 202,
  202, 75, 202, 202, 202, 0, 71, 202, 67, 0, 202, 164, 168, 94, 171, 93,
  174, 91, 90, 70>>

\* The state whose entries a state shares where it has none of its own.
yy_def == <<
  0, 163, 1, 164, 164, 163, 163, 163, 163, 165, 163, 166, 163, 166, 166,
  167, 167, 167, 167, 167, 167, 167, 167, 167, 167, 167, 163, 165, 163, 168,
  163, 163, 163, 163, 169, 163, 163, 163, 163, 166, 166, 163, 163, 163, 163,
  163, 163, 163, 170, 167, 167, 167, 167, 167, 167, 167, 167, 167, 167, 167,
  167, 167, 167, 167, 167, 167, 167, 167, 167, 167, 167, 163, 163, 163, 163,
  163, 163, 163, 163, 163, 163, 171, 163, 163, 163, 163, 163, 163, 163, 163,
  163, 163, 163, 163, 163, 163, 163, 163, 163, 163, 163, 163, 163, 163, 163,
  172, 163, 163, 163, 163, 163, 163, 163, 170, 167, 167, 167, 167, 167, 167,
  167, 167, 167, 167, 167, 167, 167, 167, 167, 167, 167, 167, 163, 163, 172,
  163, 163, 163, 163, 163, 163, 163, 163, 167, 167, 167, 167, 167, 167, 167,
  167, 163, 163, 163, 163, 163, 163, 163, 167, 167, 163, 167, 167, 0, 163,
  163, 163, 163, 163, 163, 163, 163, 163>>

\* The next state.
yy_nxt == <<
  0, 6, 7, 8, 9, 10, 11, 12, 13, 14, 14, 14, 14, 14, 14, 14, 14, 14, 15, 16,
  17, 15, 18, 15, 15, 15, 15, 19, 20, 15, 21, 22, 23, 24, 15, 15, 15, 25,
  15, 15, 15, 15, 15, 15, 15, 29, 29, 29, 29, 29, 29, 29, 29, 29, 29, 50,
  30, 56, 52, 79, 80, 31, 32, 57, 58, 51, 33, 53, 72, 73, 74, 75, 134, 34,
  35, 36, 59, 37, 60, 102, 103, 38, 41, 137, 42, 43, 127, 44, 45, 124, 148,
  125, 132, 113, 128, 71, 40, 162, 76, 138, 46, 161, 149, 47, 64, 160, 159,
  158, 157, 156, 65, 155, 154, 153, 66, 152, 151, 150, 147, 146, 67, 145,
  144, 68, 143, 69, 142, 70, 83, 84, 85, 86, 87, 88, 89, 90, 141, 140, 139,
  136, 135, 133, 131, 130, 129, 126, 123, 122, 121, 120, 119, 118, 117, 116,
  91, 92, 93, 94, 95, 96, 97, 98, 99, 100, 101, 26, 26, 26, 26, 27, 27, 27,
  27, 49, 49, 49, 81, 115, 81, 114, 112, 111, 110, 109, 108, 107, 106, 105,
  104, 82, 78, 77, 28, 63, 62, 61, 55, 54, 48, 39, 28, 163, 5, 163, 163,
  163, 163, 163, 163, 163, 163, 163, 163, 163, 163, 163, 163, 163, 163, 163,
  163, 163, 163, 163, 163, 163, 163, 163, 163, 163, 163, 163, 163, 163, 163,
  163, 163, 163, 163, 163, 163, 163, 163, 163, 163, 163, 163>>

\* The state an entry of yy_nxt belongs to.
yy_chk == <<
  0, 1, 1, 1, 1, 1, 1, 1, 1, 1, 1, 1, 1, 1, 1, 1, 1, 1, 1, 1, 1, 1, 1, 1, 1,
  1, 1, 1, 1, 1, 1, 1, 1, 1, 1, 1, 1, 1, 1, 1, 1, 1, 1, 1, 1, 10, 10, 10,
  10, 10, 10, 10, 10, 10, 10, 16, 10, 21, 17, 33, 33, 10, 10, 21, 21, 16,
  10, 17, 30, 30, 30, 30, 172, 10, 10, 10, 21, 10, 21, 37, 37, 10, 12, 108,
  12, 12, 66, 12, 12, 62, 128, 62, 171, 170, 66, 168, 166, 161, 30, 108, 12,
  159, 128, 12, 25, 154, 150, 148, 142, 141, 25, 140, 139, 136, 25, 135,
  133, 131, 123, 119, 25, 118, 115, 25, 114, 25, 112, 25, 35, 35, 35, 35,
  35, 35, 35, 35, 111, 110, 109, 107, 106, 104, 70, 68, 67, 63, 61, 59, 57,
  56, 55, 54, 53, 52, 35, 36, 36, 36, 36, 36, 36, 36, 36, 36, 36, 164, 164,
  164, 164, 165, 165, 165, 165, 167, 167, 167, 169, 51, 169, 50, 47, 46, 45,
  44, 43, 42, 41, 39, 38, 34, 32, 31, 27, 24, 23, 22, 19, 18, 13, 11, 9, 5,
  163, 163, 163, 163, 163, 163, 163, 163, 163, 163, 163, 163, 163, 163, 163,
  163, 163, 163, 163, 163, 163, 163, 163, 163, 163, 163, 163, 163, 163, 163,
  163, 163, 163, 163, 163, 163, 163, 163, 163, 163, 163, 163, 163, 163,
  163>>

YY_END_OF_BUFFER == 84
Jam == 163

HasOwnEntry(state, class) == At(yy_chk, At(yy_base, state) + class) = state

\* The state after one character: the inner loop of yy_match.
NextState[state \in DOMAIN yy_base, class \in 0 .. Len(CharClasses)] ==
  IF HasOwnEntry(state, class) THEN At(yy_nxt, At(yy_base, state) + class)
  ELSE LET default == At(yy_def, state)
       IN  NextState[default, IF default >= 164 THEN At(yy_meta, class) ELSE class]

\* All of them; there is no way out of the jam.
Transition ==
  [state \in 1 .. Jam, class \in 0 .. Len(CharClasses) |->
     IF state = Jam THEN Jam ELSE NextState[state, class]]
=============================================================================
