---------------------------- MODULE TokenStream ----------------------------
(***************************************************************************)
(* What the lexer promises: the tokens of the whole file, one after the    *)
(* other, by the lexical rules, as if the file were read at once; at the   *)
(* end of the file one more end of a line, then the end of the file.       *)
(***************************************************************************)
EXTENDS Naturals, Sequences

CONSTANTS
  Files,                \* the texts that are read
  MatchingRule(_),      \* the lexical rule for the beginning of a text
  TokenLength(_),       \* how much of the text its token is
  TokenOf(_, _),        \* the token of a rule, for its text
  Blanks,               \* the rules that skip their text
  NoToken,              \* before the first token
  NewlineToken, EndOfFileToken

VARIABLES
  file,      \* the text
  offset,    \* how much of it the tokens so far and the skipped texts make up
  start,     \* "INITIAL", or "READ_EOF_ONCE" after the end of the last line
  token      \* the token returned last

streamVars == <<file, offset, start, token>>

Rest == SubSeq(file, offset + 1, Len(file))

Init ==
  /\ file \in Files
  /\ offset = 0
  /\ start = "INITIAL"
  /\ token = NoToken

\* Blanks and comments.
Skip ==
  /\ Rest # <<>>
  /\ MatchingRule(Rest) \in Blanks
  /\ UNCHANGED token

Return ==
  /\ Rest # <<>>
  /\ MatchingRule(Rest) \notin Blanks
  /\ token' = TokenOf(MatchingRule(Rest), SubSeq(Rest, 1, TokenLength(Rest)))

Advance ==
  /\ token # EndOfFileToken
  /\ Skip \/ Return
  /\ offset' = offset + TokenLength(Rest)
  /\ UNCHANGED <<file, start>>

EndOfFile ==
  /\ token # EndOfFileToken
  /\ Rest = <<>>
  /\ IF start = "INITIAL"
       THEN start' = "READ_EOF_ONCE" /\ token' = NewlineToken
       ELSE start' = "INITIAL" /\ token' = EndOfFileToken
  /\ UNCHANGED <<file, offset>>

Next == Advance \/ EndOfFile

Spec == Init /\ [][Next]_streamVars
=============================================================================
