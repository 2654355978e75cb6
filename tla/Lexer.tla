------------------------------- MODULE Lexer -------------------------------
(***************************************************************************)
(* mips_lexer_lex (mips_lexer.c): the automaton running over a buffer that *)
(* holds only a part of the file.  When it meets the end of the buffer the *)
(* text matched so far moves to the front, the buffer grows if it is full, *)
(* and more of the file is read behind the text.  Positions in the buffer  *)
(* begin with 0, as in the code.  The byte that ends yytext (yy_hold_char) *)
(* is put back before it is looked at, and has no part in the model.       *)
(***************************************************************************)
EXTENDS LexerTables, FiniteSets, FiniteSetsExt

CONSTANTS
  Files,             \* the texts that are read
  YY_BUF_SIZE,       \* 16384 in the code
  YY_READ_BUF_SIZE   \* 8192 in the code

ASSUME FilesAssumption == Files \subseteq Seq(Chars)
ASSUME BufferAssumption == YY_BUF_SIZE \in Nat \ {0} /\ YY_READ_BUF_SIZE \in Nat \ {0}

VARIABLES
  file,              \* the text of the file
  file_pos,          \* how much of it has been read
  yy_ch_buf,         \* the bytes in the buffer, yy_n_chars of them
  yy_buf_size,
  yy_buffer_status,  \* "NEW", "NORMAL" or "EOF_PENDING"
  yytext_ptr,        \* where the present token begins
  yy_c_buf_p,        \* up to where yy_get_previous_state scans again
  yy_cp,             \* the byte that is scanned next
  yy_current_state,  \* the state of the automaton
  accepted,          \* yy_last_accepting_state and yy_last_accepting_cpos
  label,             \* where yylex goes on
  yy_start,          \* the start condition
  yylloc,            \* the place of the token
  token              \* the token returned last

bufferVars == <<file_pos, yy_ch_buf, yy_buf_size, yy_buffer_status>>
scanVars == <<yytext_ptr, yy_c_buf_p, yy_cp, yy_current_state, accepted, label>>
outputVars == <<yy_start, yylloc, token>>
vars == <<file, bufferVars, scanVars, outputVars>>

yy_n_chars == Len(yy_ch_buf)

-----------------------------------------------------------------------------
(* The automaton.                                                          *)

\* The byte at a position; two zero bytes stand behind the last one.
ByteAt(k) == IF k < yy_n_chars THEN yy_ch_buf[k + 1] ELSE NUL

StartState == IF yy_start = "INITIAL" THEN 1 ELSE 3

yy_act == At(yy_accept, yy_current_state)

Recorded ==
  IF yy_act # 0 THEN [state |-> yy_current_state, cpos |-> yy_cp] ELSE accepted

Running == token # EndOfFileToken

\* yy_match: one byte.  A zero byte is the end of the buffer.
MatchByte ==
  LET next == Transition[yy_current_state, yy_ec[ByteAt(yy_cp)]]
  IN  /\ Running
      /\ label = "yy_match"
      /\ accepted' = Recorded
      /\ IF next # Jam
           THEN /\ yy_cp' = yy_cp + 1
                /\ yy_current_state' = next
                /\ UNCHANGED label
           ELSE /\ yy_cp' = accepted'.cpos
                /\ yy_current_state' = accepted'.state
                /\ label' = "yy_find_action"
      /\ UNCHANGED <<file, bufferVars, yytext_ptr, yy_c_buf_p, outputVars>>

\* What follows yy_get_previous_state.
Rescans == {"REALLY_NUL", "CONTINUE_SCAN", "LAST_MATCH"}

\* yy_get_previous_state: one byte.  Here every byte is a byte of the text.
RescanByte ==
  /\ Running
  /\ label \in Rescans
  /\ yy_cp < yy_c_buf_p
  /\ accepted' = Recorded
  /\ yy_cp' = yy_cp + 1
  /\ yy_current_state' = Transition[yy_current_state, ClassOf(ByteAt(yy_cp))]
  /\ UNCHANGED <<file, bufferVars, yytext_ptr, yy_c_buf_p, label, outputVars>>

Rescanned(what) == Running /\ label = what /\ yy_cp = yy_c_buf_p

\* The scan goes on behind the text that has moved, or the text has to do.
Resume ==
  /\ \/ Rescanned("CONTINUE_SCAN") /\ label' = "yy_match"
     \/ Rescanned("LAST_MATCH") /\ label' = "yy_find_action"
  /\ UNCHANGED <<file, bufferVars, yytext_ptr, yy_c_buf_p, yy_cp, yy_current_state, accepted,
                 outputVars>>

\* yy_try_NUL_trans: the zero byte belongs to the text, or the text ends before it.
TryNULTrans ==
  LET next == Transition[yy_current_state, NULClass]
  IN  /\ Rescanned("REALLY_NUL")
      /\ accepted' = Recorded
      /\ IF next # Jam
           THEN /\ yy_cp' = yy_cp + 1
                /\ yy_current_state' = next
                /\ label' = "yy_match"
           ELSE /\ yy_cp' = accepted'.cpos
                /\ yy_current_state' = accepted'.state
                /\ label' = "yy_find_action"
      /\ UNCHANGED <<file, bufferVars, yytext_ptr, yy_c_buf_p, outputVars>>

\* yy_find_action: case 0, "must back up".
BackUp ==
  /\ Running
  /\ label = "yy_find_action"
  /\ yy_act = 0
  /\ yy_cp' = accepted.cpos
  /\ yy_current_state' = accepted.state
  /\ UNCHANGED <<file, bufferVars, yytext_ptr, yy_c_buf_p, accepted, label, outputVars>>

\* The scan has met a zero byte, at yy_cp - 1.
AtEnd == Running /\ label = "yy_find_action" /\ yy_act = YY_END_OF_BUFFER

-----------------------------------------------------------------------------
(* The actions of the rules.                                               *)

Newlines(text) == {k \in 1 .. Len(text) : text[k] = "\n"}

\* Mutant: the column is not reset at the end of a line.
MutantUpdateLocation(text) ==
  [first_line |-> yylloc.last_line, first_column |-> yylloc.last_column,
   last_line |-> yylloc.last_line + Cardinality(Newlines(text)),
   last_column |-> yylloc.last_column + Len(text)]

UpdateLocation(text) ==
  [first_line |-> yylloc.last_line, first_column |-> yylloc.last_column,
   last_line |-> yylloc.last_line + Cardinality(Newlines(text)),
   last_column |-> IF Newlines(text) = {} THEN yylloc.last_column + Len(text)
                   ELSE 1 + Len(text) - Max(Newlines(text))]

\* Mutant: the end of the line goes with the comment.
MutantEndOfText(rule, cp) == cp

\* yyless for a comment.
EndOfText(rule, cp) == IF rule = 2 THEN cp - 1 ELSE cp

\* The next token begins at a position.
Begin(position) ==
  /\ yytext_ptr' = position
  /\ yy_cp' = position
  /\ label' = "yy_match"

DoAction ==
  LET end == EndOfText(yy_act, yy_cp)
      yytext == SubSeq(yy_ch_buf, yytext_ptr + 1, end)
  IN  /\ Running
      /\ label = "yy_find_action"
      /\ yy_act \notin {0, YY_END_OF_BUFFER}
      /\ token' = IF yy_act \in Blanks THEN token ELSE TokenOf(yy_act, yytext)
      /\ yylloc' = UpdateLocation(yytext)
      /\ Begin(end)
      /\ yy_c_buf_p' = end
      /\ yy_current_state' = StartState
      /\ UNCHANGED <<file, bufferVars, accepted, yy_start>>

\* The text up to a position is scanned again, from its beginning.
Rescan(position, what) ==
  /\ yy_c_buf_p' = position
  /\ yy_cp' = yytext_ptr'
  /\ yy_current_state' = StartState
  /\ label' = what
  /\ UNCHANGED <<accepted, outputVars>>

\* "This was really a NUL."  The buffer is not new any more if it holds one.
ReallyNUL ==
  /\ AtEnd
  /\ yy_cp <= yy_n_chars
  /\ UNCHANGED yytext_ptr
  /\ Rescan(yy_cp - 1, "REALLY_NUL")
  /\ UNCHANGED <<file, bufferVars>>

-----------------------------------------------------------------------------
(* yy_get_next_buffer.                                                     *)

\* Mutant: as many bytes, from the front of the buffer.
MutantMoved == SubSeq(yy_ch_buf, 1, yy_n_chars - yytext_ptr)

\* The text matched so far.
Moved == From(yy_ch_buf, yytext_ptr + 1)

\* The size of the buffer, doubled until it leaves room behind the text.
Grown(size) ==
  LET doubled[n \in 0 .. Len(Moved) + 1] == IF n = 0 THEN size ELSE 2 * doubled[n - 1]
  IN  Min({doubled[n] : n \in {m \in DOMAIN doubled : doubled[m] - Len(Moved) - 1 > 0}})

\* Mutant: one byte too many.
MutantNumToRead == Min({Grown(yy_buf_size) - Len(Moved), YY_READ_BUF_SIZE})

NumToRead == Min({Grown(yy_buf_size) - Len(Moved) - 1, YY_READ_BUF_SIZE})

\* fread.
Input == SubSeq(file, file_pos + 1, Min({file_pos + NumToRead, Len(file)}))

\* Mutant: what is less than was asked for is taken for the end of the file.
MutantNothingRead == yy_buffer_status = "EOF_PENDING" \/ Len(Input) < NumToRead

\* A file whose end has been seen is not read again.
NothingRead == yy_buffer_status = "EOF_PENDING" \/ Input = <<>>

NextBuffer == AtEnd /\ yy_cp > yy_n_chars

\* The buffer grows before the read, whatever is read.
GrownBufSize ==
  IF yy_buffer_status = "EOF_PENDING" THEN yy_buf_size ELSE Grown(yy_buf_size)

ContinueScan ==
  /\ NextBuffer
  /\ ~NothingRead
  /\ yy_ch_buf' = Moved \o Input
  /\ file_pos' = file_pos + Len(Input)
  /\ yy_buf_size' = GrownBufSize
  /\ yy_buffer_status' = "NORMAL"
  /\ yytext_ptr' = 0
  /\ Rescan(Len(Moved), "CONTINUE_SCAN")
  /\ UNCHANGED file

\* The file ends behind the text.
LastMatch ==
  /\ NextBuffer
  /\ NothingRead
  /\ Moved # <<>>
  /\ yy_ch_buf' = Moved
  /\ yy_buf_size' = GrownBufSize
  /\ yy_buffer_status' = "EOF_PENDING"
  /\ yytext_ptr' = 0
  /\ Rescan(Len(Moved), "LAST_MATCH")
  /\ UNCHANGED <<file, file_pos>>

\* Mutant: the start condition stays as it is.
MutantNextStart == yy_start

\* BEGIN, in the actions for the end of the file.
NextStart == IF yy_start = "INITIAL" THEN "READ_EOF_ONCE" ELSE "INITIAL"

\* yyrestart flushes the buffer.  The file counts as one more end of a line,
\* and then as ended; neither has a place of its own.
EndOfFile ==
  /\ NextBuffer
  /\ NothingRead
  /\ Moved = <<>>
  /\ yy_ch_buf' = <<>>
  /\ yy_buf_size' = GrownBufSize
  /\ yy_buffer_status' = "NEW"
  /\ Begin(0)
  /\ yy_c_buf_p' = 0
  /\ yy_start' = NextStart
  /\ yy_current_state' = StartState'
  /\ token' = IF yy_start = "INITIAL" THEN NewlineToken ELSE EndOfFileToken
  /\ UNCHANGED <<file, file_pos, accepted, yylloc>>

-----------------------------------------------------------------------------
Init ==
  /\ file \in Files
  /\ file_pos = 0
  /\ yy_ch_buf = <<>>
  /\ yy_buf_size = YY_BUF_SIZE
  /\ yy_buffer_status = "NEW"
  /\ yytext_ptr = 0
  /\ yy_c_buf_p = 0
  /\ yy_cp = 0
  /\ yy_current_state = 1
  /\ accepted = [state |-> 0, cpos |-> 0]
  /\ label = "yy_match"
  /\ yy_start = "INITIAL"
  /\ yylloc = [first_line |-> 1, first_column |-> 1, last_line |-> 1, last_column |-> 1]
  /\ token = NoToken

Next ==
  \/ MatchByte \/ RescanByte \/ Resume \/ TryNULTrans \/ BackUp
  \/ DoAction \/ ReallyNUL \/ ContinueScan \/ LastMatch \/ EndOfFile

Spec == Init /\ [][Next]_vars

\* The parser calls the lexer until it gets the end of the file, and yylex is
\* a loop without pauses.
FairSpec == Spec /\ WF_vars(Next)

-----------------------------------------------------------------------------
(* Properties.                                                             *)

\* The tokens so far and the skipped texts, in characters.
Offset == file_pos - yy_n_chars + yytext_ptr

\* The buffer always has room for its contents, and the bytes it needs behind
\* them (mips_lexer.c, yy_get_next_buffer).
TypeOK ==
  /\ file_pos \in 0 .. Len(file)
  /\ yy_n_chars < yy_buf_size
  /\ yy_buffer_status \in {"NEW", "NORMAL", "EOF_PENDING"}
  /\ yytext_ptr \in 0 .. yy_n_chars
  /\ yy_c_buf_p \in 0 .. yy_n_chars
  /\ yy_cp \in yytext_ptr .. yy_n_chars + 1
  /\ yy_current_state \in 1 .. Jam - 1
  /\ accepted.state \in 0 .. Jam - 1
  /\ label \in {"yy_match", "yy_find_action"} \cup Rescans
  /\ yy_start \in {"INITIAL", "READ_EOF_ONCE"}
  /\ yylloc.first_line \in 1 .. yylloc.last_line
  /\ token.token \in Tokens \cup {"none"}

\* However the buffer is moved, enlarged and refilled, what it holds from the
\* present token on is exactly what the file holds there up to the byte read
\* last: nothing is lost, read twice or out of order (mips_lexer.c,
\* yy_get_next_buffer, yyrestart).
NothingLost ==
  From(yy_ch_buf, yytext_ptr + 1) = SubSeq(file, Offset + 1, file_pos)

\* The location that error messages and instructions get is the one of the text,
\* though comments and blanks, which return no token, change it too, and the end
\* of the file does not (mips_lexer.c, UpdateLocation).
LocatesTheText ==
  LET before == Newlines(SubSeq(file, 1, Offset))
  IN  /\ yylloc.last_line = 1 + Cardinality(before)
      /\ yylloc.last_column = 1 + Offset - (IF before = {} THEN 0 ELSE Max(before))

\* The parser is told that the file ends only where it ends, or at a byte that
\* is zero or above 127; what follows such a byte is never read (mips_lexer.c,
\* rule 82, yy_get_next_buffer).
EndsWhereTheFileEnds ==
  token = EndOfFileToken =>
    \/ Offset = Len(file) /\ file_pos = Len(file)
    \/ file[Offset] \in {NUL, HIGH}

Stream == INSTANCE TokenStream WITH offset <- Offset, start <- yy_start

\* The tokens are those of the whole text, wherever the buffer ends while it is
\* scanned: longest match over all rules, backing up where a longer one did not
\* come about (mips_lexer.c, yylex, the tables; mips_lexer.l).
ImplementsTokenStream == Stream!Spec

\* Every file is read to its end (mips_lexer.c, yylex, yy_get_next_buffer).
ReachesEndOfFile == <>(token = EndOfFileToken)
=============================================================================
