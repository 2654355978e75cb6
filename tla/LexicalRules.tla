---------------------------- MODULE LexicalRules ----------------------------
(***************************************************************************)
(* The lexical rules of the assembly language: the text each one matches   *)
(* (mips_lexer.l) and the token its action returns (mips_lexer.c).  Rules  *)
(* are numbered as in the code.  A text is a sequence of characters, and a  *)
(* character a string of length 1; "\r" stands for any byte above 127, and *)
(* "\f" for the byte 0.                                                    *)
(***************************************************************************)
EXTENDS ParserTables, FiniteSetsExt

NUL == "\f"
HIGH == "\r"

Digits == <<"0", "1", "2", "3", "4", "5", "6", "7", "8", "9">>

Lowercase == <<
  "a", "b", "c", "d", "e", "f", "g", "h", "i", "j", "k", "l", "m", "n", "o", "p", "q",
  "r", "s", "t", "u", "v", "w", "x", "y", "z">>

\* The other letters, and some of the characters no rule names.
OtherLetters == {
  "A", "B", "C", "D", "E", "F", "G", "H", "I", "J", "K", "L", "M", "N", "O", "P", "Q",
  "R", "S", "T", "U", "V", "W", "X", "Y", "Z", "_"}
OtherChars == {":", ",", "(", ")", "@", HIGH}

Digit == {Digits[k] : k \in DOMAIN Digits}
Letter == OtherLetters \cup {Lowercase[k] : k \in DOMAIN Lowercase}

\* The text of a string, and the string of a text.
Characters(string) == [k \in 1 .. Len(string) |-> SubSeq(string, k, k)]

Joined(text) ==
  LET joined[n \in 0 .. Len(text)] == IF n = 0 THEN "" ELSE joined[n - 1] \o text[n]
  IN  joined[Len(text)]

From(text, k) == SubSeq(text, k, Len(text))

\* All characters of the text are in the set.
AllIn(text, set) == \A k \in 1 .. Len(text) : text[k] \in set

-----------------------------------------------------------------------------
(* The rules for fixed texts.                                              *)

\* Rules 3 to 10.
DirectiveRules == <<
  <<".text", "TEXT_DIR">>, <<".data", "DATA_DIR">>, <<".globl", "GLOBL_DIR">>,
  <<".ent", "ENT_DIR">>, <<".end", "END_DIR">>, <<".byte", "BYTE_DIR">>,
  <<".half", "HALF_DIR">>, <<".word", "WORD_DIR">>>>

\* Rules 11 to 26.
StorageRules == <<
  <<"nop", "NOP", "EMPTY_INSTR">>, <<"add", "ADD", "RRR_INSTR">>,
  <<"sub", "SUB", "RRR_INSTR">>, <<"addi", "ADDI", "RRI_INSTR">>,
  <<"lw", "LW", "RIR_INSTR">>, <<"sw", "SW", "RIR_INSTR">>,
  <<"lh", "LH", "RIR_INSTR">>, <<"lhu", "LHU", "RIR_INSTR">>,
  <<"sh", "SH", "RIR_INSTR">>, <<"lb", "LB", "RIR_INSTR">>,
  <<"lbu", "LBU", "RIR_INSTR">>, <<"sb", "SB", "RIR_INSTR">>,
  <<"lui", "LUI", "RI_INSTR">>, <<"and", "AND", "RRR_INSTR">>,
  <<"or", "OR", "RRR_INSTR">>, <<"nor", "NOR", "RRR_INSTR">>>>

\* Rules 27 to 42.
ControlRules == <<
  <<"andi", "ANDI", "RRI_INSTR">>, <<"ori", "ORI", "RRI_INSTR">>,
  <<"sll", "SLL", "RRI_INSTR">>, <<"srl", "SRL", "RRI_INSTR">>,
  <<"beq", "BEQ", "RRI_INSTR">>, <<"bne", "BNE", "RRI_INSTR">>,
  <<"slt", "SLT", "RRR_INSTR">>, <<"sltu", "SLTU", "RRR_INSTR">>,
  <<"slti", "SLTI", "RRI_INSTR">>, <<"sltiu", "SLTIU", "RRI_INSTR">>,
  <<"j", "J", "I_INSTR">>, <<"syscall", "SYSCALL", "EMPTY_INSTR">>,
  <<"move", "MOV", "RR_INSTR">>, <<"li", "LI", "RI_INSTR">>,
  <<"incr", "INCR", "RI_INSTR">>, <<"decr", "DECR", "RI_INSTR">>>>

InstrRules == StorageRules \o ControlRules

\* Rules 46 to 77.
RegisterRules == <<
  <<"$zero", 0>>, <<"$at", 1>>, <<"$v0", 2>>, <<"$v1", 3>>, <<"$a0", 4>>, <<"$a1", 5>>,
  <<"$a2", 6>>, <<"$a3", 7>>, <<"$t0", 8>>, <<"$t1", 9>>, <<"$t2", 10>>, <<"$t3", 11>>,
  <<"$t4", 12>>, <<"$t5", 13>>, <<"$t6", 14>>, <<"$t7", 15>>, <<"$t8", 24>>,
  <<"$t9", 25>>, <<"$s0", 16>>, <<"$s1", 17>>, <<"$s2", 18>>, <<"$s3", 19>>,
  <<"$s4", 20>>, <<"$s5", 21>>, <<"$s6", 22>>, <<"$s7", 23>>, <<"$k0", 26>>,
  <<"$k1", 27>>, <<"$gp", 28>>, <<"$sp", 29>>, <<"$fp", 30>>, <<"$ra", 31>>>>

\* The rules whose text is fixed, with that text.
Texts ==
  [rule \in (3 .. 42) \cup (46 .. 77) |->
     Characters(CASE rule \in 3 .. 10  -> DirectiveRules[rule - 2][1]
                  [] rule \in 11 .. 42 -> InstrRules[rule - 10][1]
                  [] rule \in 46 .. 77 -> RegisterRules[rule - 45][1])]

-----------------------------------------------------------------------------
(* What the rules match.                                                   *)

IsNumber(text) == Len(text) > 0 /\ AllIn(text, Digit)

Follows(text, prefix) ==
  Len(text) >= Len(prefix) /\ SubSeq(text, 1, Len(prefix)) = prefix

\* A comment is matched with the end of its line, which it does not contain.
IsComment(text) ==
  /\ Follows(text, <<"#">>)
  /\ Len(text) > 1
  /\ \A k \in 2 .. Len(text) : text[k] = "\n" <=> k = Len(text)

IsLabel(text) ==
  Len(text) > 0 /\ text[1] \in Letter /\ AllIn(text, Letter \cup Digit)

IsRegister(text, prefix) ==
  /\ Follows(text, prefix)
  /\ IsNumber(From(text, Len(prefix) + 1))
  /\ Len(text) <= Len(prefix) + 2

IsNegative(text) == Follows(text, <<"-">>) /\ IsNumber(From(text, 2))

Hexadecimal(text, prefix) == Follows(text, prefix) /\ IsNumber(From(text, Len(prefix) + 1))

\* The rules that throw their text away.
Blanks == {1, 2}

\* The rules that match the text.
RulesFor(text) ==
  {rule \in DOMAIN Texts : Texts[rule] = text}
    \cup {rule \in {1, 2, 43, 44, 45, 78, 79, 80, 81, 82} :
            CASE rule = 1  -> text \in {<<" ">>, <<"\t">>}
              [] rule = 2  -> IsComment(text)
              [] rule = 43 -> IsLabel(text)
              [] rule = 44 -> IsRegister(text, <<"$">>)
              [] rule = 45 -> IsRegister(text, <<"$", "r">>)
              [] rule = 78 -> IsNumber(text) \/ IsNegative(text)
              [] rule = 79 -> Hexadecimal(text, <<"-", "0", "x">>)
              [] rule = 80 -> Hexadecimal(text, <<"0", "x">>)
              [] rule = 81 -> text = <<"\n">>
              [] OTHER     -> Len(text) = 1 /\ text # <<"\n">>}

\* The text is matched as far as any rule goes, by the first rule that goes
\* so far.
MatchedLength(text) ==
  Max({n \in 1 .. Len(text) : RulesFor(SubSeq(text, 1, n)) # {}})

MatchingRule(text) == Min(RulesFor(SubSeq(text, 1, MatchedLength(text))))

\* The length of the token: yyless gives the end of the line back.
TokenLength(text) ==
  LET length == MatchedLength(text)
  IN  IF IsComment(SubSeq(text, 1, length)) THEN length - 1 ELSE length

-----------------------------------------------------------------------------
(* The actions of the rules.                                               *)

\* sscanf with %d or %x, of digits.
Number(digits, base) ==
  LET value[n \in 0 .. Len(digits)] ==
        IF n = 0 THEN 0
        ELSE base * value[n - 1]
               + (CHOOSE d \in DOMAIN Digits : Digits[d] = digits[n]) - 1
  IN  value[Len(digits)]

Returned(name, string, integer) == [token |-> name, string |-> string, integer |-> integer]

NoToken == Returned("none", "", 0)
EndOfFileToken == Returned("end of file", "", 0)
NewlineToken == Returned("NEWLINE", "", 0)

\* Rule 82 returns the character itself: a char is signed, and the parser
\* takes what is not positive for the end of the file.
CharToken(char) ==
  CASE char \in {":", ",", "(", ")"} -> Returned(char, "", 0)
    [] char \in {NUL, HIGH} -> EndOfFileToken
    [] OTHER -> Returned("invalid token", "", 0)

\* The token of a rule, for the text it has matched.
TokenOf(rule, text) ==
  CASE rule \in 3 .. 10 -> Returned(DirectiveRules[rule - 2][2], "", 0)
    [] rule \in 11 .. 42 -> Returned(InstrRules[rule - 10][3], InstrRules[rule - 10][2], 0)
    [] rule = 43 -> Returned("LABEL", Joined(text), 0)
    [] rule = 44 -> Returned("REGISTER", "", Number(From(text, 2), 10))
    [] rule = 45 -> Returned("REGISTER", "", Number(From(text, 3), 10))
    [] rule \in 46 .. 77 -> Returned("REGISTER", "", RegisterRules[rule - 45][2])
    [] rule = 78 /\ Follows(text, <<"-">>) -> Returned("INTEGER", "", -Number(From(text, 2), 10))
    [] rule = 78 /\ ~Follows(text, <<"-">>) -> Returned("INTEGER", "", Number(text, 10))
    [] rule = 79 -> Returned("INTEGER", "", -Number(From(text, 4), 16))
    [] rule = 80 -> Returned("INTEGER", "", Number(From(text, 3), 16))
    [] rule = 81 -> NewlineToken
    [] OTHER -> CharToken(text[1])
=============================================================================
