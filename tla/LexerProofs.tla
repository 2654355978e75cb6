----------------------------- MODULE LexerProofs -----------------------------
(***************************************************************************)
(* Proofs about the lexer, for every set of files and every size of the    *)
(* buffer: however the text is cut up by the buffer, the tokens are those  *)
(* of the whole text, by the longest match over all lexical rules.         *)
(***************************************************************************)
EXTENDS Lexer, LexerAutomaton, SequenceTheorems, FiniteSetTheorems, TLAPS

-----------------------------------------------------------------------------
(* The inductive invariant.                                                *)

\* The length of a text.  Where the provers need not know that it is Len they
\* had better not: they get lost in what they know of tuples.
Size(text) == Len(text)

\* What is left of the file, from the present token on.
Rest == From(file, Offset + 1)

\* The first k characters of a text.
First(text, k) == SubSeq(text, 1, k)

\* The longest match among the first k characters.
Longest(text, k) == Max({n \in 1 .. k : RulesFor(SubSeq(text, 1, n)) # {}})

\* Some rule may still match when the text goes on.
Alive(text) == StateOf(text) # Jam

\* What has been recorded, when k characters have been left behind.
AcceptedUpTo(k) ==
  k >= 1 => /\ accepted.state = StateOf(First(Rest, Longest(Rest, k)))
            /\ accepted.cpos = yytext_ptr + Longest(Rest, k)

\* The automaton is behind some characters of the rest of the file.
Scanning ==
  LET k == yy_cp - yytext_ptr
  IN  /\ yy_cp \in yytext_ptr .. yy_n_chars
      /\ yy_current_state = IF k = 0 THEN StartState ELSE StateOf(First(Rest, k))
      /\ Alive(First(Rest, k))
      /\ AcceptedUpTo(k - 1)

\* It is behind a zero byte, one of the text or the end of the buffer.
MetNUL ==
  /\ yy_cp \in yytext_ptr + 1 .. yy_n_chars + 1
  /\ ByteAt(yy_cp - 1) = NUL
  /\ yy_current_state = EndOfBuffer
  /\ Alive(First(Rest, yy_cp - 1 - yytext_ptr))

\* It has found the longest match, or has yet to back up to it.
Decided ==
  /\ Rest # <<>>
  /\ MatchedLength(Rest) <= yy_n_chars - yytext_ptr
  /\ \/ /\ yy_cp = yytext_ptr + MatchedLength(Rest)
        /\ yy_current_state = StateOf(First(Rest, MatchedLength(Rest)))
     \/ /\ yy_cp \in yytext_ptr .. yy_n_chars
        /\ yy_current_state \in 1 .. Jam - 1
        /\ yy_act = 0
        /\ AcceptedUpTo(Size(Rest))

\* It scans again what it has scanned before.
Rescanning ==
  /\ Scanning
  /\ yy_c_buf_p \in yy_cp .. yy_n_chars
  /\ Alive(First(Rest, yy_c_buf_p - yytext_ptr))
  /\ label = "REALLY_NUL" => yy_c_buf_p < yy_n_chars /\ ByteAt(yy_c_buf_p) = NUL
  /\ label = "LAST_MATCH" =>
       yy_c_buf_p = yy_n_chars /\ yytext_ptr < yy_n_chars /\ file_pos = Size(file)

\* Where the scan stands, at each of the places where yylex goes on.
ScanInv ==
  /\ label \in {"yy_match", "yy_find_action"} \cup Rescans
  /\ label = "yy_match" => Scanning \/ MetNUL
  /\ label = "yy_find_action" => MetNUL \/ Decided
  /\ label \in Rescans => Rescanning
  /\ accepted.state \in 0 .. Jam - 1

\* What the buffer holds of the file.
BufferInv ==
  /\ file \in Seq(Chars) /\ file_pos \in 0 .. Size(file)
  /\ yy_ch_buf \in Seq(Chars) /\ yy_n_chars <= file_pos
  /\ yytext_ptr \in 0 .. yy_n_chars /\ yy_c_buf_p \in 0 .. yy_n_chars
  /\ \A k \in yytext_ptr + 1 .. yy_n_chars : yy_ch_buf[k] = file[file_pos - yy_n_chars + k]
  /\ yy_buf_size \in Nat /\ yy_n_chars < yy_buf_size
  /\ yy_buffer_status \in {"NEW", "NORMAL", "EOF_PENDING"}
  /\ yy_buffer_status = "EOF_PENDING" => file_pos = Size(file)
  /\ yy_start \in {"INITIAL", "READ_EOF_ONCE"}
  /\ yy_start = "READ_EOF_ONCE" => yy_ch_buf = <<>> /\ file_pos = Size(file)

-----------------------------------------------------------------------------
(* Numbers.                                                                *)

\* Every set of numbers has a least one.
LEMMA LeastNat ==
  ASSUME NEW T \in SUBSET Nat, T # {}
  PROVE  \E x \in T : \A y \in T : x <= y
<1>1. PICK x \in T : \A y \in T : ~(<<y, x>> \in OpToRel(<, Nat))
  BY WFMin, NatLessThanWellFounded, Zenon
<1>2. \A y \in T : ~(y < x)
  BY <1>1, Zenon DEF OpToRel
<1> QED
  BY <1>2

\* Induction, with the set of the numbers that a formula holds of.
LEMMA Induction ==
  ASSUME NEW T, 0 \in T, \A n \in Nat : n \in T => n + 1 \in T
  PROVE  Nat \subseteq T
<1> SUFFICES ASSUME Nat \ T # {} PROVE FALSE
  OBVIOUS
<1>1. PICK x \in Nat \ T : \A y \in Nat \ T : x <= y
  BY LeastNat, Zenon
<1>2. x # 0 /\ x - 1 \in Nat /\ ~(x <= x - 1)
  BY <1>1
<1>3. x - 1 \in T
  BY <1>1, <1>2
<1> QED
  BY <1>1, <1>2, <1>3

\* What Min and Max choose.
LEMMA MinChosen ==
  ASSUME NEW T \in SUBSET Nat, T # {}
  PROVE  Min(T) \in T /\ \A y \in T : Min(T) <= y
BY LeastNat, Zenon DEF Min

\* What Max chooses, of numbers up to k.
LEMMA MaxChosen ==
  ASSUME NEW k \in Nat, NEW T \in SUBSET (0 .. k), T # {}
  PROVE  Max(T) \in T /\ \A y \in T : y <= Max(T)
<1> DEFINE D == {k - y : y \in T}
<1>0. \A y \in T : y \in Nat /\ k - y \in Nat
  OBVIOUS
<1>1. D \in SUBSET Nat /\ D # {}
  BY <1>0
<1>2. PICK d \in D : \A y \in D : d <= y
  BY <1>1, LeastNat, Zenon
<1>3. PICK x \in T : d = k - x
  BY <1>2
<1>4. \A y \in T : x >= y
  BY <1>0, <1>2, <1>3
<1> QED
  BY <1>4, Zenon DEF Max

\* The largest number is the only one that is not less than another.
LEMMA MaxUnique ==
  ASSUME NEW k \in Nat, NEW T \in SUBSET (0 .. k), NEW x \in T, \A y \in T : y <= x
  PROVE  Max(T) = x
<1>1. Max(T) \in T /\ \A y \in T : y <= Max(T)
  BY MaxChosen
<1>2. \A y \in T : y \in Nat
  OBVIOUS
<1>3. x \in Nat /\ Max(T) \in Nat
  BY <1>1, <1>2
<1> QED
  BY <1>1, <1>3

\* The least number is the only one that no other is less than.
LEMMA MinUnique ==
  ASSUME NEW T \in SUBSET Nat, NEW x \in T, \A y \in T : x <= y
  PROVE  Min(T) = x
<1>1. Min(T) \in T /\ \A y \in T : Min(T) <= y
  BY MinChosen
<1>2. x \in Nat /\ Min(T) \in Nat
  BY <1>1
<1> QED
  BY <1>1, <1>2

-----------------------------------------------------------------------------
(* Texts.                                                                  *)

\* A text has a size, and is empty when that is 0.
LEMMA Sizes ==
  ASSUME NEW text \in Seq(Chars)
  PROVE  /\ Size(text) \in Nat
         /\ Size(text) = 0 <=> text = <<>>
         /\ \A i \in 1 .. Size(text) : text[i] \in Chars
<1>1. Len(text) \in Nat
  BY LenProperties
<1>2. Len(text) = 0 <=> text = <<>>
  BY EmptySeq
<1>3. \A i \in 1 .. Len(text) : text[i] \in Chars
  BY ElementOfSeq
<1> QED
  BY <1>1, <1>2, <1>3, Zenon DEF Size

\* Texts are equal when their characters are.
LEMMA SameText ==
  ASSUME NEW s \in Seq(Chars), NEW t \in Seq(Chars), Size(s) = Size(t),
         \A i \in 1 .. Size(s) : s[i] = t[i]
  PROVE  s = t
BY SeqEqual, Zenon DEF Size

\* The characters of a part of a text.
LEMMA PartOf ==
  ASSUME NEW text \in Seq(Chars), NEW m \in Nat \ {0}, NEW n \in Nat, n <= Size(text)
  PROVE  /\ SubSeq(text, m, n) \in Seq(Chars)
         /\ Size(SubSeq(text, m, n)) = IF m <= n THEN n - m + 1 ELSE 0
         /\ \A i \in 1 .. n - m + 1 : SubSeq(text, m, n)[i] = text[m + i - 1]
<1>1. \A i \in m .. n : text[i] \in Chars
  BY Sizes
<1>2. m \in Int /\ n \in Int
  OBVIOUS
<1>3. /\ SubSeq(text, m, n) \in Seq(Chars)
      /\ Len(SubSeq(text, m, n)) = IF m <= n THEN n - m + 1 ELSE 0
      /\ \A i \in 1 .. n - m + 1 : SubSeq(text, m, n)[i] = text[m + i - 1]
  BY <1>1, <1>2, SubSeqProperties
<1> QED
  BY <1>3, Zenon DEF Size

\* The first k characters of a text.
LEMMA FirstOf ==
  ASSUME NEW text \in Seq(Chars), NEW k \in Nat, k <= Size(text)
  PROVE  /\ First(text, k) \in Seq(Chars)
         /\ Size(First(text, k)) = k
         /\ \A i \in 1 .. k : First(text, k)[i] = text[i]
BY PartOf DEF First

\* The characters from the m-th on.
LEMMA FromOf ==
  ASSUME NEW text \in Seq(Chars), NEW m \in Nat \ {0}
  PROVE  /\ From(text, m) \in Seq(Chars)
         /\ Size(From(text, m)) = IF m <= Size(text) THEN Size(text) - m + 1 ELSE 0
         /\ \A i \in 1 .. Size(text) - m + 1 : From(text, m)[i] = text[m + i - 1]
<1>1. From(text, m) = SubSeq(text, m, Size(text))
  BY DEF From, Size
<1>2. Size(text) \in Nat /\ Size(text) <= Size(text)
  BY Sizes
<1> QED
  BY <1>1, <1>2, PartOf

\* The characters of a text and one more character.
LEMMA AppendedText ==
  ASSUME NEW text \in Seq(Chars), NEW c \in Chars
  PROVE  /\ Append(text, c) \in Seq(Chars)
         /\ Append(text, c) # <<>>
         /\ Size(Append(text, c)) = Size(text) + 1
         /\ \A i \in 1 .. Size(text) : Append(text, c)[i] = text[i]
         /\ Append(text, c)[Size(text) + 1] = c
<1>1. /\ Append(text, c) \in Seq(Chars)
      /\ Append(text, c) # <<>>
      /\ Len(Append(text, c)) = Len(text) + 1
      /\ \A i \in 1 .. Len(text) : Append(text, c)[i] = text[i]
      /\ Append(text, c)[Len(text) + 1] = c
  BY AppendProperties
<1> QED
  BY <1>1, Zenon DEF Size

\* No characters.
LEMMA FirstNone == ASSUME NEW text \in Seq(Chars) PROVE First(text, 0) = <<>>
<1>1. 0 \in Nat /\ 0 <= Size(text)
  BY Sizes
<1>2. First(text, 0) \in Seq(Chars) /\ Size(First(text, 0)) = 0
  BY <1>1, FirstOf
<1> QED
  BY <1>2, Sizes

\* All characters.
LEMMA FirstAll == ASSUME NEW text \in Seq(Chars) PROVE First(text, Size(text)) = text
<1>1. Size(text) \in Nat /\ Size(text) <= Size(text)
  BY Sizes
<1>2. /\ First(text, Size(text)) \in Seq(Chars)
      /\ Size(First(text, Size(text))) = Size(text)
      /\ \A i \in 1 .. Size(text) : First(text, Size(text))[i] = text[i]
  BY <1>1, FirstOf
<1> QED
  BY <1>2, SameText

\* The beginning of a beginning.
LEMMA FirstOfFirst ==
  ASSUME NEW text \in Seq(Chars), NEW k \in Nat, NEW n \in Nat, n <= k, k <= Size(text)
  PROVE  First(First(text, k), n) = First(text, n)
<1>1. Size(text) \in Nat
  BY Sizes
<1>2. /\ First(text, k) \in Seq(Chars) /\ Size(First(text, k)) = k
      /\ \A i \in 1 .. k : First(text, k)[i] = text[i]
  BY FirstOf
<1>3. /\ First(text, n) \in Seq(Chars) /\ Size(First(text, n)) = n
      /\ \A i \in 1 .. n : First(text, n)[i] = text[i]
  BY <1>1, FirstOf
<1>4. /\ First(First(text, k), n) \in Seq(Chars) /\ Size(First(First(text, k), n)) = n
      /\ \A i \in 1 .. n : First(First(text, k), n)[i] = First(text, k)[i]
  BY <1>2, FirstOf
<1> QED
  BY <1>2, <1>3, <1>4, SameText

\* One character more.
LEMMA FirstAppended ==
  ASSUME NEW text \in Seq(Chars), NEW k \in Nat, k < Size(text)
  PROVE  /\ text[k + 1] \in Chars
         /\ First(text, k + 1) = Append(First(text, k), text[k + 1])
<1>1. text[k + 1] \in Chars
  BY Sizes
<1>2. /\ First(text, k) \in Seq(Chars) /\ Size(First(text, k)) = k
      /\ \A i \in 1 .. k : First(text, k)[i] = text[i]
  BY FirstOf, Sizes
<1>3. /\ First(text, k + 1) \in Seq(Chars) /\ Size(First(text, k + 1)) = k + 1
      /\ \A i \in 1 .. k + 1 : First(text, k + 1)[i] = text[i]
  BY FirstOf, Sizes
<1> DEFINE p == First(text, k)
           a == Append(p, text[k + 1])
<1> HIDE DEF p
<1>4. /\ a \in Seq(Chars) /\ Size(a) = k + 1 /\ a[k + 1] = text[k + 1]
      /\ \A i \in 1 .. k : a[i] = p[i]
  <2>1. p \in Seq(Chars) /\ Size(p) = k
    BY <1>2 DEF p
  <2>2. /\ a \in Seq(Chars) /\ Size(a) = Size(p) + 1 /\ a[Size(p) + 1] = text[k + 1]
        /\ \A i \in 1 .. Size(p) : a[i] = p[i]
    BY <1>1, <2>1, AppendedText
  <2> QED
    BY <2>1, <2>2
<1> HIDE DEF a
<1>5. \A i \in 1 .. k + 1 : First(text, k + 1)[i] = a[i]
  BY <1>2, <1>3, <1>4 DEF p
<1>6. First(text, k + 1) = a
  BY <1>3, <1>4, <1>5, SameText
<1> QED
  BY <1>1, <1>6 DEF a, p

\* A text without the character that was appended to it.
LEMMA FrontOfAppend ==
  ASSUME NEW text \in Seq(Chars), NEW c \in Chars
  PROVE  Front(Append(text, c)) = text
<1> DEFINE a == Append(text, c)
<1>1. /\ a \in Seq(Chars) /\ Size(a) = Size(text) + 1
      /\ \A i \in 1 .. Size(text) : a[i] = text[i]
  BY AppendedText
<1> HIDE DEF a
<1>0. Size(text) \in Nat
  BY Sizes
<1>2. Size(text) \in Nat /\ Size(text) <= Size(a) /\ Size(a) - 1 = Size(text)
  BY <1>0, <1>1
<1>3. Front(a) = SubSeq(a, 1, Size(a) - 1)
  BY Zenon DEF Front, Size
<1>4. Front(a) = First(a, Size(text))
  BY <1>2, <1>3 DEF First
<1>5. /\ First(a, Size(text)) \in Seq(Chars) /\ Size(First(a, Size(text))) = Size(text)
      /\ \A i \in 1 .. Size(text) : First(a, Size(text))[i] = a[i]
  BY <1>1, <1>2, FirstOf
<1>6. First(a, Size(text)) = text
  BY <1>1, <1>5, SameText
<1> QED
  BY <1>4, <1>6 DEF a

-----------------------------------------------------------------------------
(* What the lexical rules match, character by character.                   *)

\* The characters that are neither letters nor digits, and those that are.
LEMMA Specials ==
  /\ "\n" \in Chars /\ "#" \in Chars /\ "$" \in Chars /\ "-" \in Chars /\ NUL \in Chars
  /\ "0" \in Chars /\ "x" \in Chars /\ "r" \in Chars
  /\ Digit \subseteq Chars /\ Letter \subseteq Chars
  /\ "\n" \notin Letter \cup Digit /\ "#" \notin Letter \cup Digit
  /\ "$" \notin Letter \cup Digit /\ "-" \notin Letter \cup Digit
  /\ "0" \notin Letter /\ "0" \in Digit /\ "x" \in Letter /\ "x" \notin Digit
  /\ Letter \cap Digit = {}
BY CharsAssumption

\* The characters from the m-th on are digits.
DigitsFrom(text, m) == \A k \in m .. Size(text) : text[k] \in Digit

\* A number, by its characters.
LEMMA NumberShape ==
  ASSUME NEW text \in Seq(Chars)
  PROVE  IsNumber(text) <=> Size(text) > 0 /\ DigitsFrom(text, 1)
BY Zenon DEF IsNumber, AllIn, DigitsFrom, Size

\* The same for the rest of a text.
LEMMA NumberFrom ==
  ASSUME NEW text \in Seq(Chars), NEW m \in Nat \ {0}
  PROVE  IsNumber(From(text, m)) <=> m <= Size(text) /\ DigitsFrom(text, m)
<1> DEFINE f == From(text, m)
<1>1. /\ f \in Seq(Chars)
      /\ Size(f) = IF m <= Size(text) THEN Size(text) - m + 1 ELSE 0
      /\ \A i \in 1 .. Size(text) - m + 1 : f[i] = text[m + i - 1]
  BY FromOf
<1>2. Size(text) \in Nat
  BY Sizes
<1> HIDE DEF f
<1>3. IsNumber(f) <=> Size(f) > 0 /\ DigitsFrom(f, 1)
  BY <1>1, NumberShape
<1>4. CASE m <= Size(text)
  <2>1. Size(f) = Size(text) - m + 1 /\ Size(f) > 0
    BY <1>1, <1>2, <1>4
  <2>2. ASSUME DigitsFrom(text, m), NEW i \in 1 .. Size(f) PROVE f[i] \in Digit
    <3>1. m + i - 1 \in m .. Size(text) /\ f[i] = text[m + i - 1]
      BY <1>1, <1>2, <2>1
    <3> QED
      BY <2>2, <3>1 DEF DigitsFrom
  <2>3. ASSUME DigitsFrom(f, 1), NEW k \in m .. Size(text) PROVE text[k] \in Digit
    <3>1. k - m + 1 \in 1 .. Size(f) /\ m + (k - m + 1) - 1 = k
      BY <1>2, <2>1
    <3>2. f[k - m + 1] = text[k]
      BY <1>1, <2>1, <3>1
    <3> QED
      BY <2>3, <3>1, <3>2 DEF DigitsFrom
  <2>4. DigitsFrom(f, 1) <=> DigitsFrom(text, m)
    BY <2>2, <2>3 DEF DigitsFrom
  <2> QED
    BY <1>3, <1>4, <2>1, <2>4 DEF f
<1>5. CASE ~(m <= Size(text))
  BY <1>1, <1>3, <1>5 DEF f
<1> QED
  BY <1>4, <1>5

\* A prefix of one, two or three characters.
LEMMA FollowsOne ==
  ASSUME NEW text \in Seq(Chars), NEW c \in Chars
  PROVE  Follows(text, <<c>>) <=> Size(text) >= 1 /\ text[1] = c
<1> DEFINE p == <<c>>
           f == First(text, 1)
<1>1. p \in Seq(Chars) /\ p[1] = c
  OBVIOUS
<1>2. Len(p) = 1
  OBVIOUS
<1>3. Size(text) \in Nat
  BY Sizes
<1> HIDE DEF p, f
<1>4. Size(p) = 1
  BY <1>2 DEF Size
<1>5. Follows(text, p) <=> Size(text) >= 1 /\ f = p
  BY <1>4, Zenon DEF Follows, First, Size, f
<1>6. ASSUME Size(text) >= 1 PROVE f = p <=> text[1] = c
  <2>1. 1 \in Nat /\ 1 <= Size(text)
    BY <1>3, <1>6
  <2>2. f \in Seq(Chars) /\ Size(f) = 1 /\ \A i \in 1 .. 1 : f[i] = text[i]
    BY <2>1, FirstOf DEF f
  <2>3. f = p <=> \A i \in 1 .. 1 : f[i] = p[i]
    BY <1>1, <1>4, <2>2, SameText
  <2> QED
    BY <1>1, <2>2, <2>3
<1> QED
  BY <1>5, <1>6 DEF p

\* What begins with two characters.
LEMMA FollowsTwo ==
  ASSUME NEW text \in Seq(Chars), NEW c \in Chars, NEW d \in Chars
  PROVE  Follows(text, <<c, d>>) <=> Size(text) >= 2 /\ text[1] = c /\ text[2] = d
<1> DEFINE p == <<c, d>>
           f == First(text, 2)
<1>1. p \in Seq(Chars) /\ p[1] = c /\ p[2] = d
  OBVIOUS
<1>2. Len(p) = 2
  OBVIOUS
<1>3. Size(text) \in Nat
  BY Sizes
<1> HIDE DEF p, f
<1>4. Size(p) = 2
  BY <1>2 DEF Size
<1>5. Follows(text, p) <=> Size(text) >= 2 /\ f = p
  BY <1>4, Zenon DEF Follows, First, Size, f
<1>6. ASSUME Size(text) >= 2 PROVE f = p <=> text[1] = c /\ text[2] = d
  <2>1. 2 \in Nat /\ 2 <= Size(text)
    BY <1>3, <1>6
  <2>2. f \in Seq(Chars) /\ Size(f) = 2 /\ \A i \in 1 .. 2 : f[i] = text[i]
    BY <2>1, FirstOf DEF f
  <2>3. f = p <=> \A i \in 1 .. 2 : f[i] = p[i]
    BY <1>1, <1>4, <2>2, SameText
  <2> QED
    BY <1>1, <2>2, <2>3
<1> QED
  BY <1>5, <1>6 DEF p

\* What begins with three characters.
LEMMA FollowsThree ==
  ASSUME NEW text \in Seq(Chars), NEW c \in Chars, NEW d \in Chars, NEW e \in Chars
  PROVE  Follows(text, <<c, d, e>>) <=> Size(text) >= 3 /\ text[1] = c /\ text[2] = d /\ text[3] = e
<1> DEFINE p == <<c, d, e>>
           f == First(text, 3)
<1>1. p \in Seq(Chars) /\ p[1] = c /\ p[2] = d /\ p[3] = e
  OBVIOUS
<1>2. Len(p) = 3
  OBVIOUS
<1>3. Size(text) \in Nat
  BY Sizes
<1> HIDE DEF p, f
<1>4. Size(p) = 3
  BY <1>2 DEF Size
<1>5. Follows(text, p) <=> Size(text) >= 3 /\ f = p
  BY <1>4, Zenon DEF Follows, First, Size, f
<1>6. ASSUME Size(text) >= 3 PROVE f = p <=> text[1] = c /\ text[2] = d /\ text[3] = e
  <2>1. 3 \in Nat /\ 3 <= Size(text)
    BY <1>3, <1>6
  <2>2. f \in Seq(Chars) /\ Size(f) = 3 /\ \A i \in 1 .. 3 : f[i] = text[i]
    BY <2>1, FirstOf DEF f
  <2>3. f = p <=> \A i \in 1 .. 3 : f[i] = p[i]
    BY <1>1, <1>4, <2>2, SameText
  <2> QED
    BY <1>1, <2>2, <2>3
<1> QED
  BY <1>5, <1>6 DEF p

\* Negative numbers.
LEMMA NegativeShape ==
  ASSUME NEW text \in Seq(Chars)
  PROVE  IsNegative(text) <=> Size(text) >= 2 /\ text[1] = "-" /\ DigitsFrom(text, 2)
<1>1. Size(text) \in Nat
  BY Sizes
<1>2. Follows(text, <<"-">>) <=> Size(text) >= 1 /\ text[1] = "-"
  BY FollowsOne, Specials, Zenon
<1>3. IsNumber(From(text, 2)) <=> 2 <= Size(text) /\ DigitsFrom(text, 2)
  BY NumberFrom
<1>4. IsNegative(text) <=> (Size(text) >= 1 /\ text[1] = "-") /\ 2 <= Size(text) /\ DigitsFrom(text, 2)
  BY <1>2, <1>3, Zenon DEF IsNegative
<1> QED
  BY <1>1, <1>4

\* Hexadecimal numbers, with both prefixes.
LEMMA HexadecimalShape ==
  ASSUME NEW text \in Seq(Chars)
  PROVE  Hexadecimal(text, <<"0", "x">>)
           <=> Size(text) >= 3 /\ text[1] = "0" /\ text[2] = "x" /\ DigitsFrom(text, 3)
<1>1. Size(text) \in Nat
  BY Sizes
<1>2. Follows(text, <<"0", "x">>) <=> Size(text) >= 2 /\ text[1] = "0" /\ text[2] = "x"
  BY FollowsTwo, Specials, Zenon
<1>3. IsNumber(From(text, 3)) <=> 3 <= Size(text) /\ DigitsFrom(text, 3)
  BY NumberFrom
<1>4. Len(<<"0", "x">>) + 1 = 3
  OBVIOUS
<1>5. Hexadecimal(text, <<"0", "x">>)
        <=> (Size(text) >= 2 /\ text[1] = "0" /\ text[2] = "x") /\ 3 <= Size(text) /\ DigitsFrom(text, 3)
  BY <1>2, <1>3, <1>4, Zenon DEF Hexadecimal
<1> QED
  BY <1>1, <1>5

\* A negative hexadecimal number, by its characters.
LEMMA NegativeHexadecimalShape ==
  ASSUME NEW text \in Seq(Chars)
  PROVE  Hexadecimal(text, <<"-", "0", "x">>)
           <=> /\ Size(text) >= 4 /\ text[1] = "-" /\ text[2] = "0" /\ text[3] = "x"
               /\ DigitsFrom(text, 4)
<1>1. Size(text) \in Nat
  BY Sizes
<1>2. Follows(text, <<"-", "0", "x">>)
        <=> Size(text) >= 3 /\ text[1] = "-" /\ text[2] = "0" /\ text[3] = "x"
  BY FollowsThree, Specials, Zenon
<1>3. IsNumber(From(text, 4)) <=> 4 <= Size(text) /\ DigitsFrom(text, 4)
  BY NumberFrom
<1>4. Len(<<"-", "0", "x">>) + 1 = 4
  OBVIOUS
<1>5. Hexadecimal(text, <<"-", "0", "x">>)
        <=> (Size(text) >= 3 /\ text[1] = "-" /\ text[2] = "0" /\ text[3] = "x")
              /\ 4 <= Size(text) /\ DigitsFrom(text, 4)
  BY <1>2, <1>3, <1>4, Zenon DEF Hexadecimal
<1> QED
  BY <1>1, <1>5

\* Registers have one digit or two.
LEMMA RegisterShape ==
  ASSUME NEW text \in Seq(Chars)
  PROVE  IsRegister(text, <<"$">>) =>
           Size(text) >= 2 /\ Size(text) <= 3 /\ text[1] = "$" /\ DigitsFrom(text, 2)
<1>2. Follows(text, <<"$">>) <=> Size(text) >= 1 /\ text[1] = "$"
  BY FollowsOne, Specials, Zenon
<1>3. IsNumber(From(text, 2)) <=> 2 <= Size(text) /\ DigitsFrom(text, 2)
  BY NumberFrom
<1>4. Len(<<"$">>) + 1 = 2 /\ Len(<<"$">>) + 2 = 3
  OBVIOUS
<1>5. IsRegister(text, <<"$">>) =>
        (Size(text) >= 1 /\ text[1] = "$") /\ 2 <= Size(text) /\ DigitsFrom(text, 2) /\ Size(text) <= 3
  BY <1>2, <1>3, <1>4, Zenon DEF IsRegister, Size
<1> QED
  BY <1>5, Sizes

\* A register by its number with an r, by its characters.
LEMMA NumberedRegisterShape ==
  ASSUME NEW text \in Seq(Chars)
  PROVE  IsRegister(text, <<"$", "r">>) =>
           /\ Size(text) >= 3 /\ Size(text) <= 4 /\ text[1] = "$" /\ text[2] = "r"
           /\ DigitsFrom(text, 3)
<1>2. Follows(text, <<"$", "r">>) <=> Size(text) >= 2 /\ text[1] = "$" /\ text[2] = "r"
  BY FollowsTwo, Specials, Zenon
<1>3. IsNumber(From(text, 3)) <=> 3 <= Size(text) /\ DigitsFrom(text, 3)
  BY NumberFrom
<1>4. Len(<<"$", "r">>) + 1 = 3 /\ Len(<<"$", "r">>) + 2 = 4
  OBVIOUS
<1>5. IsRegister(text, <<"$", "r">>) =>
        /\ Size(text) >= 2 /\ text[1] = "$" /\ text[2] = "r"
        /\ 3 <= Size(text) /\ DigitsFrom(text, 3) /\ Size(text) <= 4
  BY <1>2, <1>3, <1>4, Zenon DEF IsRegister, Size
<1> QED
  BY <1>5, Sizes

\* Comments, and those whose line has not ended.
LEMMA OpenCommentShape ==
  ASSUME NEW text \in Seq(Chars)
  PROVE  IsOpenComment(text)
           <=> Size(text) >= 1 /\ text[1] = "#" /\ \A k \in 1 .. Size(text) : text[k] # "\n"
<1>1. Follows(text, <<"#">>) <=> Size(text) >= 1 /\ text[1] = "#"
  BY FollowsOne, Specials, Zenon
<1> QED
  BY <1>1, Zenon DEF IsOpenComment, Size

\* A comment with the end of its line, by its characters.
LEMMA CommentShape ==
  ASSUME NEW text \in Seq(Chars)
  PROVE  IsComment(text)
           <=> /\ Size(text) >= 2 /\ text[1] = "#"
               /\ \A k \in 2 .. Size(text) : text[k] = "\n" <=> k = Size(text)
<1>1. Size(text) \in Nat
  BY Sizes
<1>2. Follows(text, <<"#">>) <=> Size(text) >= 1 /\ text[1] = "#"
  BY FollowsOne, Specials, Zenon
<1>3. IsComment(text)
        <=> /\ Size(text) >= 1 /\ text[1] = "#" /\ Size(text) > 1
            /\ \A k \in 2 .. Size(text) : text[k] = "\n" <=> k = Size(text)
  BY <1>2, Zenon DEF IsComment, Size
<1> QED
  BY <1>1, <1>3

\* A label, by its characters.
LEMMA LabelShape ==
  ASSUME NEW text \in Seq(Chars)
  PROVE  IsLabel(text)
           <=> /\ Size(text) >= 1 /\ text[1] \in Letter
               /\ \A k \in 1 .. Size(text) : text[k] \in Letter \cup Digit
<1>1. Size(text) \in Nat
  BY Sizes
<1>2. IsLabel(text)
        <=> /\ Size(text) > 0 /\ text[1] \in Letter
            /\ \A k \in 1 .. Size(text) : text[k] \in Letter \cup Digit
  BY Zenon DEF IsLabel, AllIn, Size
<1> QED
  BY <1>1, <1>2

-----------------------------------------------------------------------------
(* The stems.                                                              *)

\* The empty text, single characters, and prefixes of numbers are stems.
LEMMA StemTexts ==
  /\ <<>> \in Stems
  /\ \A c \in Chars : <<c>> \in Stems
  /\ <<"0", "x">> \in Stems /\ <<"-", "0">> \in Stems /\ <<"-", "0", "x">> \in Stems
  /\ RegisterStems \subseteq Stems /\ FixedStems \subseteq Stems
BY Zenon DEF Stems

\* A text of one character.
LEMMA OneChar ==
  ASSUME NEW text \in Seq(Chars), Size(text) = 1
  PROVE  text = <<text[1]>> /\ text[1] \in Chars
<1>1. text[1] \in Chars
  BY Sizes
<1> DEFINE p == <<text[1]>>
<1>2. p \in Seq(Chars) /\ p[1] = text[1]
  BY <1>1
<1>3. Len(p) = 1
  OBVIOUS
<1> HIDE DEF p
<1>4. Size(p) = 1
  BY <1>3 DEF Size
<1>5. \A i \in 1 .. Size(text) : text[i] = p[i]
  BY <1>2
<1>6. text = p
  BY <1>2, <1>4, <1>5, SameText
<1> QED
  BY <1>1, <1>6 DEF p

\* Texts of two, three and four characters.
LEMMA TwoChars ==
  ASSUME NEW text \in Seq(Chars), Size(text) = 2
  PROVE  text = <<text[1], text[2]>>
<1>1. text[1] \in Chars /\ text[2] \in Chars
  BY Sizes
<1> DEFINE p == <<text[1], text[2]>>
<1>2. p \in Seq(Chars) /\ p[1] = text[1] /\ p[2] = text[2]
  BY <1>1
<1>3. Len(p) = 2
  OBVIOUS
<1> HIDE DEF p
<1>4. Size(p) = 2
  BY <1>3 DEF Size
<1>5. \A i \in 1 .. Size(text) : text[i] = p[i]
  BY <1>2
<1>6. text = p
  BY <1>2, <1>4, <1>5, SameText
<1> QED
  BY <1>6 DEF p

\* The same for three characters.
LEMMA ThreeChars ==
  ASSUME NEW text \in Seq(Chars), Size(text) = 3
  PROVE  text = <<text[1], text[2], text[3]>>
<1>1. text[1] \in Chars /\ text[2] \in Chars /\ text[3] \in Chars
  BY Sizes
<1> DEFINE p == <<text[1], text[2], text[3]>>
<1>2. p \in Seq(Chars) /\ p[1] = text[1] /\ p[2] = text[2] /\ p[3] = text[3]
  BY <1>1
<1>3. Len(p) = 3
  OBVIOUS
<1> HIDE DEF p
<1>4. Size(p) = 3
  BY <1>3 DEF Size
<1>5. \A i \in 1 .. Size(text) : text[i] = p[i]
  BY <1>2
<1>6. text = p
  BY <1>2, <1>4, <1>5, SameText
<1> QED
  BY <1>6 DEF p

\* The same for four characters.
LEMMA FourChars ==
  ASSUME NEW text \in Seq(Chars), Size(text) = 4
  PROVE  text = <<text[1], text[2], text[3], text[4]>>
<1>1. text[1] \in Chars /\ text[2] \in Chars /\ text[3] \in Chars /\ text[4] \in Chars
  BY Sizes
<1> DEFINE p == <<text[1], text[2], text[3], text[4]>>
<1>2. p \in Seq(Chars) /\ p[1] = text[1] /\ p[2] = text[2] /\ p[3] = text[3] /\ p[4] = text[4]
  BY <1>1
<1>3. Len(p) = 4
  OBVIOUS
<1> HIDE DEF p
<1>4. Size(p) = 4
  BY <1>3 DEF Size
<1>5. \A i \in 1 .. Size(text) : text[i] = p[i]
  BY <1>2
<1>6. text = p
  BY <1>2, <1>4, <1>5, SameText
<1> QED
  BY <1>6 DEF p

\* A text that is no stem has at least two characters.
LEMMA LongText ==
  ASSUME NEW text \in Seq(Chars), text \notin Stems
  PROVE  Size(text) \in Nat /\ Size(text) >= 2
<1>1. Size(text) \in Nat
  BY Sizes
<1>2. Size(text) # 0
  BY Sizes, StemTexts, Zenon
<1>3. ASSUME Size(text) = 1 PROVE FALSE
  BY <1>3, OneChar, StemTexts, Zenon
<1> QED
  BY <1>1, <1>2, <1>3

\* The same text with one more character is no stem either.
LEMMA Longer ==
  ASSUME NEW text \in Seq(Chars), NEW c \in Chars, text \notin Stems
  PROVE  Append(text, c) \notin Stems
<1>1. Front(Append(text, c)) = text
  BY FrontOfAppend
<1>2. Append(text, c) # <<>>
  BY AppendedText
<1> QED
  BY <1>1, <1>2, StemsAssumption, Zenon

\* The fixed texts are stems.
LEMMA FixedTexts ==
  ASSUME NEW text \in Seq(Chars), text \notin Stems, NEW rule \in DOMAIN Texts
  PROVE  Texts[rule] # text
<1> SUFFICES ASSUME Texts[rule] = text PROVE FALSE
  OBVIOUS
<1>1. Size(text) \in Nat /\ Size(text) >= 2
  BY LongText
<1>2. First(text, Size(text)) = text
  BY FirstAll
<1>3. Size(text) \in 1 .. Size(text)
  BY <1>1
<1>4. text \in {SubSeq(text, 1, n) : n \in 1 .. Size(text)}
  BY <1>2, <1>3, Zenon DEF First
<1>5. text \in {SubSeq(Texts[rule], 1, n) : n \in 1 .. Len(Texts[rule])}
  BY <1>4, Zenon DEF Size
<1>6. text \in FixedStems
  BY <1>5, Zenon DEF FixedStems
<1> QED
  BY <1>6, StemTexts, Zenon

\* The registers by their numbers, one digit or two.
LEMMA RegisterTexts ==
  ASSUME NEW text, NEW d \in Digit, NEW e \in Digit,
         text \in {<<"$", d>>, <<"$", "r", d>>, <<"$", d, e>>, <<"$", "r", d, e>>}
  PROVE  text \in Stems
<1>1. text = <<"$", d>> => text \in Stems
  BY StemTexts, SMT DEF RegisterStems
<1>2. text = <<"$", "r", d>> => text \in Stems
  BY StemTexts, SMT DEF RegisterStems
<1>3. text = <<"$", d, e>> => text \in Stems
  BY StemTexts, SMT DEF RegisterStems
<1>4. text = <<"$", "r", d, e>> => text \in Stems
  BY StemTexts, SMT DEF RegisterStems
<1> QED
  BY <1>1, <1>2, <1>3, <1>4, Zenon

\* The texts that match as registers are stems.
LEMMA Registers ==
  ASSUME NEW text \in Seq(Chars), text \notin Stems
  PROVE  ~IsRegister(text, <<"$">>) /\ ~IsRegister(text, <<"$", "r">>)
<1>0. Size(text) \in Nat
  BY Sizes
<1>1. ASSUME IsRegister(text, <<"$">>) PROVE FALSE
  <2>1. Size(text) >= 2 /\ Size(text) <= 3 /\ text[1] = "$" /\ DigitsFrom(text, 2)
    BY <1>1, RegisterShape
  <2>2. CASE Size(text) = 2
    <3>1. text = <<"$", text[2]>>
      BY <2>1, <2>2, TwoChars, Zenon
    <3>2. text[2] \in Digit
      BY <2>1, <2>2 DEF DigitsFrom
    <3> QED
      BY <3>1, <3>2, RegisterTexts, Zenon
  <2>3. CASE Size(text) = 3
    <3>1. text = <<"$", text[2], text[3]>>
      BY <2>1, <2>3, ThreeChars, Zenon
    <3>2. text[2] \in Digit /\ text[3] \in Digit
      BY <2>1, <2>3 DEF DigitsFrom
    <3> QED
      BY <3>1, <3>2, RegisterTexts, Zenon
  <2> QED
    BY <1>0, <2>1, <2>2, <2>3
<1>2. ASSUME IsRegister(text, <<"$", "r">>) PROVE FALSE
  <2>1. /\ Size(text) >= 3 /\ Size(text) <= 4 /\ text[1] = "$" /\ text[2] = "r"
        /\ DigitsFrom(text, 3)
    BY <1>2, NumberedRegisterShape
  <2>2. CASE Size(text) = 3
    <3>1. text = <<"$", "r", text[3]>>
      BY <2>1, <2>2, ThreeChars, Zenon
    <3>2. text[3] \in Digit
      BY <2>1, <2>2 DEF DigitsFrom
    <3> QED
      BY <3>1, <3>2, RegisterTexts, Zenon
  <2>3. CASE Size(text) = 4
    <3>1. text = <<"$", "r", text[3], text[4]>>
      BY <2>1, <2>3, FourChars, Zenon
    <3>2. text[3] \in Digit /\ text[4] \in Digit
      BY <2>1, <2>3 DEF DigitsFrom
    <3> QED
      BY <3>1, <3>2, RegisterTexts, Zenon
  <2> QED
    BY <1>0, <2>1, <2>2, <2>3
<1> QED
  BY <1>1, <1>2

-----------------------------------------------------------------------------
(* The kinds of the texts that are no stems.                               *)

\* Digits, and one character more.
LEMMA DigitsAppended ==
  ASSUME NEW text \in Seq(Chars), NEW c \in Chars, NEW m \in Nat, 1 <= m, m <= Size(text) + 1
  PROVE  DigitsFrom(Append(text, c), m) <=> DigitsFrom(text, m) /\ c \in Digit
<1> DEFINE a == Append(text, c)
<1>1. Size(text) \in Nat
  BY Sizes
<1>2. /\ Size(a) = Size(text) + 1 /\ a[Size(text) + 1] = c
      /\ \A i \in 1 .. Size(text) : a[i] = text[i]
  BY AppendedText
<1> HIDE DEF a
<1>3. ASSUME DigitsFrom(text, m), c \in Digit PROVE DigitsFrom(a, m)
  BY <1>1, <1>2, <1>3 DEF DigitsFrom
<1>4. ASSUME DigitsFrom(a, m) PROVE DigitsFrom(text, m) /\ c \in Digit
  BY <1>1, <1>2, <1>4 DEF DigitsFrom
<1> QED
  BY <1>3, <1>4 DEF a

\* What one character more makes of a number.
LEMMA NumberAppended ==
  ASSUME NEW text \in Seq(Chars), NEW c \in Chars, text \notin Stems
  PROVE  /\ IsNumber(Append(text, c)) <=> IsNumber(text) /\ c \in Digit
         /\ IsNegative(Append(text, c)) <=> IsNegative(text) /\ c \in Digit
<1> DEFINE a == Append(text, c)
<1>1. Size(text) \in Nat /\ Size(text) >= 2
  BY LongText
<1>2. a \in Seq(Chars) /\ Size(a) = Size(text) + 1 /\ \A i \in 1 .. Size(text) : a[i] = text[i]
  BY AppendedText
<1>3. DigitsFrom(a, 1) <=> DigitsFrom(text, 1) /\ c \in Digit
  BY <1>1, DigitsAppended
<1>4. DigitsFrom(a, 2) <=> DigitsFrom(text, 2) /\ c \in Digit
  BY <1>1, DigitsAppended
<1> HIDE DEF a
<1>5. IsNumber(a) <=> Size(a) > 0 /\ DigitsFrom(a, 1)
  BY <1>2, NumberShape
<1>6. IsNumber(text) <=> Size(text) > 0 /\ DigitsFrom(text, 1)
  BY NumberShape
<1>7. IsNegative(a) <=> Size(a) >= 2 /\ a[1] = "-" /\ DigitsFrom(a, 2)
  BY <1>2, NegativeShape
<1>8. IsNegative(text) <=> Size(text) >= 2 /\ text[1] = "-" /\ DigitsFrom(text, 2)
  BY NegativeShape
<1>9. a[1] = text[1]
  BY <1>1, <1>2
<1>10. IsNumber(a) <=> IsNumber(text) /\ c \in Digit
  BY <1>1, <1>2, <1>3, <1>5, <1>6
<1>11. IsNegative(a) <=> IsNegative(text) /\ c \in Digit
  BY <1>1, <1>2, <1>4, <1>7, <1>8, <1>9
<1> QED
  BY <1>10, <1>11 DEF a

\* What one character more makes of a hexadecimal number: what precedes its
\* first digit is a stem.
LEMMA HexadecimalAppended ==
  ASSUME NEW text \in Seq(Chars), NEW c \in Chars, text \notin Stems
  PROVE  /\ Hexadecimal(Append(text, c), <<"0", "x">>)
              <=> Hexadecimal(text, <<"0", "x">>) /\ c \in Digit
         /\ Hexadecimal(Append(text, c), <<"-", "0", "x">>)
              <=> Hexadecimal(text, <<"-", "0", "x">>) /\ c \in Digit
<1> DEFINE a == Append(text, c)
<1>1. Size(text) \in Nat /\ Size(text) >= 2
  BY LongText
<1>2. a \in Seq(Chars) /\ Size(a) = Size(text) + 1 /\ \A i \in 1 .. Size(text) : a[i] = text[i]
  BY AppendedText
<1>3. DigitsFrom(a, 3) <=> DigitsFrom(text, 3) /\ c \in Digit
  BY <1>1, DigitsAppended
<1>4. Size(text) >= 3 => (DigitsFrom(a, 4) <=> DigitsFrom(text, 4) /\ c \in Digit)
  BY <1>1, DigitsAppended
<1> HIDE DEF a
<1>5. Size(text) = 2 => ~(text[1] = "0" /\ text[2] = "x")
  BY TwoChars, StemTexts, Zenon
<1>6. Size(text) = 3 => ~(text[1] = "-" /\ text[2] = "0" /\ text[3] = "x")
  BY ThreeChars, StemTexts, Zenon
<1>7. Hexadecimal(a, <<"0", "x">>)
        <=> Size(a) >= 3 /\ a[1] = "0" /\ a[2] = "x" /\ DigitsFrom(a, 3)
  BY <1>2, HexadecimalShape
<1>8. Hexadecimal(text, <<"0", "x">>)
        <=> Size(text) >= 3 /\ text[1] = "0" /\ text[2] = "x" /\ DigitsFrom(text, 3)
  BY HexadecimalShape
<1>9. Hexadecimal(a, <<"-", "0", "x">>)
        <=> Size(a) >= 4 /\ a[1] = "-" /\ a[2] = "0" /\ a[3] = "x" /\ DigitsFrom(a, 4)
  BY <1>2, NegativeHexadecimalShape
<1>10. Hexadecimal(text, <<"-", "0", "x">>)
         <=> Size(text) >= 4 /\ text[1] = "-" /\ text[2] = "0" /\ text[3] = "x" /\ DigitsFrom(text, 4)
  BY NegativeHexadecimalShape
<1> DEFINE short == Hexadecimal(text, <<"0", "x">>)
           shortA == Hexadecimal(a, <<"0", "x">>)
           long == Hexadecimal(text, <<"-", "0", "x">>)
           longA == Hexadecimal(a, <<"-", "0", "x">>)
<1> HIDE DEF short, shortA, long, longA
<1>11. a[1] = text[1] /\ a[2] = text[2] /\ (Size(text) >= 3 => a[3] = text[3])
  BY <1>1, <1>2
<1>12. shortA <=> short /\ c \in Digit
  <2>1. shortA <=> Size(a) >= 3 /\ a[1] = "0" /\ a[2] = "x" /\ DigitsFrom(a, 3)
    BY <1>7 DEF shortA
  <2>2. short <=> Size(text) >= 3 /\ text[1] = "0" /\ text[2] = "x" /\ DigitsFrom(text, 3)
    BY <1>8 DEF short
  <2> QED
    BY <1>1, <1>2, <1>3, <1>5, <1>11, <2>1, <2>2
<1>13. longA <=> long /\ c \in Digit
  <2>1. longA <=> Size(a) >= 4 /\ a[1] = "-" /\ a[2] = "0" /\ a[3] = "x" /\ DigitsFrom(a, 4)
    BY <1>9 DEF longA
  <2>2. long <=> Size(text) >= 4 /\ text[1] = "-" /\ text[2] = "0" /\ text[3] = "x" /\ DigitsFrom(text, 4)
    BY <1>10 DEF long
  <2> QED
    BY <1>1, <1>2, <1>4, <1>6, <1>11, <2>1, <2>2
<1> QED
  BY <1>12, <1>13, Zenon DEF a, short, shortA, long, longA

\* What one character more makes of a label.
LEMMA LabelAppended ==
  ASSUME NEW text \in Seq(Chars), NEW c \in Chars, text \notin Stems
  PROVE  IsLabel(Append(text, c)) <=> IsLabel(text) /\ c \in Letter \cup Digit
<1> DEFINE a == Append(text, c)
<1>1. Size(text) \in Nat /\ Size(text) >= 2
  BY LongText
<1>2. /\ a \in Seq(Chars) /\ Size(a) = Size(text) + 1 /\ a[Size(text) + 1] = c
      /\ \A i \in 1 .. Size(text) : a[i] = text[i]
  BY AppendedText
<1> HIDE DEF a
<1>3. IsLabel(a) <=> /\ Size(a) >= 1 /\ a[1] \in Letter
                     /\ \A k \in 1 .. Size(a) : a[k] \in Letter \cup Digit
  BY <1>2, LabelShape
<1>4. IsLabel(text) <=> /\ Size(text) >= 1 /\ text[1] \in Letter
                        /\ \A k \in 1 .. Size(text) : text[k] \in Letter \cup Digit
  BY LabelShape
<1>5. ASSUME IsLabel(a) PROVE IsLabel(text) /\ c \in Letter \cup Digit
  <2>1. a[1] \in Letter /\ a[1] = text[1]
    BY <1>1, <1>2, <1>3, <1>5
  <2>2. ASSUME NEW k \in 1 .. Size(text) PROVE text[k] \in Letter \cup Digit
    <3>1. k \in 1 .. Size(a) /\ a[k] = text[k]
      BY <1>1, <1>2
    <3> QED
      BY <1>3, <1>5, <3>1, Zenon
  <2>3. c \in Letter \cup Digit
    BY <1>1, <1>2, <1>3, <1>5
  <2> QED
    BY <1>1, <1>4, <2>1, <2>2, <2>3
<1>6. ASSUME IsLabel(text), c \in Letter \cup Digit PROVE IsLabel(a)
  <2>1. a[1] \in Letter
    BY <1>1, <1>2, <1>4, <1>6
  <2>2. ASSUME NEW k \in 1 .. Size(a) PROVE a[k] \in Letter \cup Digit
    <3>1. k = Size(text) + 1 \/ k \in 1 .. Size(text)
      BY <1>1, <1>2
    <3> QED
      BY <1>2, <1>4, <1>6, <3>1
  <2> QED
    BY <1>1, <1>2, <1>3, <2>1, <2>2
<1> QED
  BY <1>5, <1>6 DEF a

\* What one character more makes of a comment: the end of the line ends it.
LEMMA CommentAppended ==
  ASSUME NEW text \in Seq(Chars), NEW c \in Chars, text \notin Stems
  PROVE  /\ IsOpenComment(Append(text, c)) <=> IsOpenComment(text) /\ c # "\n"
         /\ IsComment(Append(text, c)) <=> IsOpenComment(text) /\ c = "\n"
<1> DEFINE a == Append(text, c)
<1>1. Size(text) \in Nat /\ Size(text) >= 2
  BY LongText
<1>2. /\ a \in Seq(Chars) /\ Size(a) = Size(text) + 1 /\ a[Size(text) + 1] = c
      /\ \A i \in 1 .. Size(text) : a[i] = text[i]
  BY AppendedText
<1> HIDE DEF a
<1>3. IsOpenComment(a)
        <=> Size(a) >= 1 /\ a[1] = "#" /\ \A k \in 1 .. Size(a) : a[k] # "\n"
  BY <1>2, OpenCommentShape
<1>4. IsOpenComment(text)
        <=> Size(text) >= 1 /\ text[1] = "#" /\ \A k \in 1 .. Size(text) : text[k] # "\n"
  BY OpenCommentShape
<1>5. IsComment(a)
        <=> /\ Size(a) >= 2 /\ a[1] = "#"
            /\ \A k \in 2 .. Size(a) : a[k] = "\n" <=> k = Size(a)
  BY <1>2, CommentShape
<1>10. /\ 1 \in 1 .. Size(text) /\ Size(text) + 1 \in 1 .. Size(a) /\ Size(a) >= 2
       /\ \A k \in 1 .. Size(text) : k \in 1 .. Size(a) /\ k # Size(a)
       /\ \A k \in 1 .. Size(a) : k \in 1 .. Size(text) \/ k = Size(text) + 1
       /\ \A k \in 2 .. Size(a) : k \in 1 .. Size(a)
  BY <1>1, <1>2
<1>6. IsOpenComment(a) <=> IsOpenComment(text) /\ c # "\n"
  <2>1. ASSUME IsOpenComment(a) PROVE IsOpenComment(text) /\ c # "\n"
    BY <1>1, <1>2, <1>3, <1>4, <1>10, <2>1
  <2>2. ASSUME IsOpenComment(text), c # "\n" PROVE IsOpenComment(a)
    <3>1. Size(a) >= 1 /\ a[1] = "#"
      BY <1>1, <1>2, <1>4, <1>10, <2>2
    <3>2. ASSUME NEW k \in 1 .. Size(a) PROVE a[k] # "\n"
      BY <1>2, <1>4, <1>10, <2>2
    <3> QED
      BY <1>3, <3>1, <3>2, Zenon
  <2> QED
    BY <2>1, <2>2
<1>7. ASSUME IsOpenComment(text), c = "\n" PROVE IsComment(a)
  <2>1. a[1] = "#"
    BY <1>2, <1>4, <1>7, <1>10
  <2>2. ASSUME NEW k \in 2 .. Size(a) PROVE a[k] = "\n" <=> k = Size(a)
    BY <1>2, <1>4, <1>7, <1>10
  <2> QED
    BY <1>5, <1>10, <2>1, <2>2
<1>8. ASSUME IsComment(a) PROVE IsOpenComment(text) /\ c = "\n"
  <2>1. c = "\n" /\ text[1] = "#" /\ text[1] # "\n"
    BY <1>1, <1>2, <1>5, <1>8
  <2>2. \A k \in 2 .. Size(text) : text[k] # "\n"
    BY <1>1, <1>2, <1>5, <1>8
  <2>3. \A k \in 1 .. Size(text) : k = 1 \/ k \in 2 .. Size(text)
    BY <1>1
  <2> QED
    BY <1>1, <1>4, <2>1, <2>2, <2>3
<1> QED
  BY <1>6, <1>7, <1>8 DEF a

\* A text is of one kind at most.
LEMMA KindsApart ==
  ASSUME NEW text \in Seq(Chars), text \notin Stems
  PROVE  LET number == IsNumber(text)
             negative == IsNegative(text)
             hexadecimal == Hexadecimal(text, <<"0", "x">>)
             longer == Hexadecimal(text, <<"-", "0", "x">>)
             label_ == IsLabel(text)
             comment == IsOpenComment(text) \/ IsComment(text)
         IN  /\ ~(number /\ (negative \/ hexadecimal \/ longer \/ label_ \/ comment))
             /\ ~(negative /\ (hexadecimal \/ longer \/ label_ \/ comment))
             /\ ~(hexadecimal /\ (longer \/ label_ \/ comment))
             /\ ~(longer /\ (label_ \/ comment))
             /\ ~(label_ /\ comment)
             /\ ~(IsOpenComment(text) /\ IsComment(text))
<1> DEFINE hexadecimal == Hexadecimal(text, <<"0", "x">>)
           longer == Hexadecimal(text, <<"-", "0", "x">>)
<1>1. Size(text) \in Nat /\ Size(text) >= 2
  BY LongText
<1>2. hexadecimal => text[1] = "0" /\ text[2] = "x"
  BY HexadecimalShape
<1>3. longer => Size(text) >= 4 /\ text[1] = "-" /\ text[2] = "0" /\ text[3] = "x"
  BY NegativeHexadecimalShape
<1> HIDE DEF hexadecimal, longer
<1>4. IsNumber(text) => text[1] \in Digit /\ text[2] \in Digit
  BY <1>1, NumberShape DEF DigitsFrom
<1>5. IsNegative(text) =>
        text[1] = "-" /\ text[2] \in Digit /\ (Size(text) >= 4 => text[3] \in Digit)
  BY <1>1, NegativeShape DEF DigitsFrom
<1>6. IsLabel(text) => text[1] \in Letter
  BY LabelShape
<1>7. IsOpenComment(text) \/ IsComment(text) => text[1] = "#"
  BY OpenCommentShape, CommentShape
<1>8. ~(IsOpenComment(text) /\ IsComment(text))
  BY <1>1, OpenCommentShape, CommentShape
<1>9. /\ "0" \in Digit /\ "-" \notin Digit /\ "-" \notin Letter /\ "#" \notin Digit
      /\ "#" \notin Letter /\ "x" \notin Digit /\ "0" \notin Letter /\ Letter \cap Digit = {}
  BY Specials, Zenon
<1> QED
  BY <1>2, <1>3, <1>4, <1>5, <1>6, <1>7, <1>8, <1>9 DEF hexadecimal, longer

\* The kind of a text with one character more.
LEMMA KindSteps ==
  ASSUME NEW text \in Seq(Chars), NEW c \in Chars, text \notin Stems
  PROVE  Kind(Append(text, c)) = KindStep(Kind(text), c)
<1> DEFINE a == Append(text, c)
           N == IsNumber(text)
           M == IsNegative(text)
           H == Hexadecimal(text, <<"0", "x">>)
           L == Hexadecimal(text, <<"-", "0", "x">>)
           B == IsLabel(text)
           O == IsOpenComment(text)
           C == IsComment(text)
<1>1. (IsNumber(a) <=> N /\ c \in Digit) /\ (IsNegative(a) <=> M /\ c \in Digit)
  BY NumberAppended
<1>2. /\ Hexadecimal(a, <<"0", "x">>) <=> H /\ c \in Digit
      /\ Hexadecimal(a, <<"-", "0", "x">>) <=> L /\ c \in Digit
  BY HexadecimalAppended
<1>3. IsLabel(a) <=> B /\ c \in Letter \cup Digit
  BY LabelAppended
<1>4. (IsOpenComment(a) <=> O /\ c # "\n") /\ (IsComment(a) <=> O /\ c = "\n")
  BY CommentAppended
<1>5. /\ ~(N /\ (M \/ H \/ L \/ B \/ O \/ C)) /\ ~(M /\ (H \/ L \/ B \/ O \/ C))
      /\ ~(H /\ (L \/ B \/ O \/ C)) /\ ~(L /\ (B \/ O \/ C)) /\ ~(B /\ (O \/ C)) /\ ~(O /\ C)
  BY KindsApart, Zenon
<1>6. c \in Digit => c # "\n"
  BY Specials
<1>7. Kind(text) = IF N THEN "number" ELSE IF M THEN "negative" ELSE IF H THEN "hexadecimal"
                   ELSE IF L THEN "negative hexadecimal" ELSE IF B THEN "label"
                   ELSE IF O THEN "open comment" ELSE IF C THEN "comment" ELSE "none"
  BY Zenon DEF Kind
<1>8. Kind(a) = IF N /\ c \in Digit THEN "number" ELSE IF M /\ c \in Digit THEN "negative"
                ELSE IF H /\ c \in Digit THEN "hexadecimal"
                ELSE IF L /\ c \in Digit THEN "negative hexadecimal"
                ELSE IF B /\ c \in Letter \cup Digit THEN "label"
                ELSE IF O /\ c # "\n" THEN "open comment"
                ELSE IF O /\ c = "\n" THEN "comment" ELSE "none"
  BY <1>1, <1>2, <1>3, <1>4, Zenon DEF Kind
<1> HIDE DEF a, N, M, H, L, B, O, C
<1>9. Kind(a) = KindStep(Kind(text), c)
  BY <1>5, <1>6, <1>7, <1>8 DEF KindStep
<1> QED
  BY <1>9 DEF a

\* Its kind is one of the kinds.
LEMMA KindIn == ASSUME NEW text PROVE Kind(text) \in Kinds
BY DEF Kind, Kinds

\* The rules that match a text that is no stem.
LEMMA RulesOfKinds ==
  ASSUME NEW text \in Seq(Chars), text \notin Stems, NEW rule
  PROVE  rule \in RulesFor(text)
           <=> \/ rule = 2 /\ IsComment(text)
               \/ rule = 43 /\ IsLabel(text)
               \/ rule = 78 /\ (IsNumber(text) \/ IsNegative(text))
               \/ rule = 79 /\ Hexadecimal(text, <<"-", "0", "x">>)
               \/ rule = 80 /\ Hexadecimal(text, <<"0", "x">>)
<1> DEFINE blank == text \in {<<" ">>, <<"\t">>}
           comment == IsComment(text)
           name == IsLabel(text)
           short == IsRegister(text, <<"$">>)
           long == IsRegister(text, <<"$", "r">>)
           number == IsNumber(text) \/ IsNegative(text)
           negative == Hexadecimal(text, <<"-", "0", "x">>)
           hexadecimal == Hexadecimal(text, <<"0", "x">>)
           newline == text = <<"\n">>
           single == Len(text) = 1 /\ text # <<"\n">>
           Fixed == {r \in DOMAIN Texts : Texts[r] = text}
<1>1. RulesFor(text) =
        Fixed \cup {r \in {1, 2, 43, 44, 45, 78, 79, 80, 81, 82} :
            CASE r = 1  -> blank
              [] r = 2  -> comment
              [] r = 43 -> name
              [] r = 44 -> short
              [] r = 45 -> long
              [] r = 78 -> number
              [] r = 79 -> negative
              [] r = 80 -> hexadecimal
              [] r = 81 -> newline
              [] OTHER  -> single}
  BY Zenon DEF RulesFor
<1>2. ~blank /\ ~newline
  <2>1. " " \in Chars /\ "\t" \in Chars
    BY CharsAssumption
  <2> QED
    BY <2>1, Specials, StemTexts, Zenon
<1>3. ~single
  <2>1. Size(text) \in Nat /\ Size(text) >= 2
    BY LongText
  <2>2. ~(Size(text) = 1)
    BY <2>1
  <2> QED
    BY <2>2, Zenon DEF Size
<1>4. ~short /\ ~long
  BY Registers, Zenon
<1>5. Fixed = {}
  BY FixedTexts, Zenon
<1> HIDE DEF blank, comment, name, short, long, number, negative, hexadecimal, newline, single, Fixed
<1>6. rule \in RulesFor(text)
        <=> \/ rule = 2 /\ comment
            \/ rule = 43 /\ name
            \/ rule = 78 /\ number
            \/ rule = 79 /\ negative
            \/ rule = 80 /\ hexadecimal
  BY <1>1, <1>2, <1>3, <1>4, <1>5
<1> QED
  BY <1>6, Zenon DEF comment, name, number, negative, hexadecimal

\* The first of them.
LEMMA KindRules ==
  ASSUME NEW text \in Seq(Chars), text \notin Stems
  PROVE  RuleOf(text) = KindRule(Kind(text))
<1> DEFINE N == IsNumber(text)
           M == IsNegative(text)
           H == Hexadecimal(text, <<"0", "x">>)
           L == Hexadecimal(text, <<"-", "0", "x">>)
           B == IsLabel(text)
           O == IsOpenComment(text)
           C == IsComment(text)
           R == RulesFor(text)
<1>1. \A rule : rule \in R <=> \/ rule = 2 /\ C
                               \/ rule = 43 /\ B
                               \/ rule = 78 /\ (N \/ M)
                               \/ rule = 79 /\ L
                               \/ rule = 80 /\ H
  BY RulesOfKinds, Zenon
<1>2. /\ ~(N /\ (M \/ H \/ L \/ B \/ O \/ C)) /\ ~(M /\ (H \/ L \/ B \/ O \/ C))
      /\ ~(H /\ (L \/ B \/ O \/ C)) /\ ~(L /\ (B \/ O \/ C)) /\ ~(B /\ (O \/ C)) /\ ~(O /\ C)
  BY KindsApart, Zenon
<1>3. Kind(text) = IF N THEN "number" ELSE IF M THEN "negative" ELSE IF H THEN "hexadecimal"
                   ELSE IF L THEN "negative hexadecimal" ELSE IF B THEN "label"
                   ELSE IF O THEN "open comment" ELSE IF C THEN "comment" ELSE "none"
  BY Zenon DEF Kind
<1>4. RuleOf(text) = IF R = {} THEN 0 ELSE Min(R)
  BY Zenon DEF RuleOf
<1> HIDE DEF N, M, H, L, B, O, C, R
<1>5. \A n \in Nat : R = {n} => RuleOf(text) = n
  BY <1>4, MinUnique
<1>6. CASE N \/ M
  <2>1. R = {78}
    BY <1>1, <1>2, <1>6
  <2>2. KindRule(Kind(text)) = 78
    BY <1>3, <1>6 DEF KindRule
  <2> QED
    BY <1>5, <2>1, <2>2
<1>7. CASE H
  <2>1. R = {80}
    BY <1>1, <1>2, <1>7
  <2>2. KindRule(Kind(text)) = 80
    BY <1>2, <1>3, <1>7 DEF KindRule
  <2> QED
    BY <1>5, <2>1, <2>2
<1>8. CASE L
  <2>1. R = {79}
    BY <1>1, <1>2, <1>8
  <2>2. KindRule(Kind(text)) = 79
    BY <1>2, <1>3, <1>8 DEF KindRule
  <2> QED
    BY <1>5, <2>1, <2>2
<1>9. CASE B
  <2>1. R = {43}
    BY <1>1, <1>2, <1>9
  <2>2. KindRule(Kind(text)) = 43
    BY <1>2, <1>3, <1>9 DEF KindRule
  <2> QED
    BY <1>5, <2>1, <2>2
<1>10. CASE C
  <2>1. R = {2}
    BY <1>1, <1>2, <1>10
  <2>2. KindRule(Kind(text)) = 2
    BY <1>2, <1>3, <1>10 DEF KindRule
  <2> QED
    BY <1>5, <2>1, <2>2
<1>11. CASE ~(N \/ M \/ H \/ L \/ B \/ C)
  <2>1. R = {}
    BY <1>1, <1>11
  <2>2. KindRule(Kind(text)) = 0
    BY <1>3, <1>11 DEF KindRule
  <2> QED
    BY <1>4, <2>1, <2>2
<1> QED
  BY <1>6, <1>7, <1>8, <1>9, <1>10, <1>11

-----------------------------------------------------------------------------
(* The automaton.                                                          *)

\* A character takes the automaton from the state of a text to that of the text
\* and the character.
LEMMA StateSteps ==
  ASSUME NEW text \in Seq(Chars), NEW c \in Chars
  PROVE  Transition[StateOf(text), ClassOf(c)] = StateOf(Append(text, c))
<1>1. CASE text \in Stems
  BY <1>1, StemStepsAssumption, Zenon DEF StateOf
<1>2. CASE text \notin Stems
  <2>1. StateOf(text) = KindState(Kind(text))
    BY <1>2, Zenon DEF StateOf
  <2>2. StateOf(Append(text, c)) = KindState(Kind(Append(text, c)))
    BY <1>2, Longer, Zenon DEF StateOf
  <2>3. Kind(Append(text, c)) = KindStep(Kind(text), c)
    BY <1>2, KindSteps
  <2>4. Transition[KindState(Kind(text)), ClassOf(c)] = KindState(KindStep(Kind(text), c))
    BY KindIn, KindStepsAssumption, Zenon
  <2> QED
    BY <2>1, <2>2, <2>3, <2>4, Zenon
<1> QED
  BY <1>1, <1>2

\* In the state of a text it accepts by the first rule that matches the text.
LEMMA StateRules ==
  ASSUME NEW text \in Seq(Chars)
  PROVE  At(yy_accept, StateOf(text)) = RuleOf(text)
<1>1. CASE text \in Stems
  BY <1>1, StemRulesAssumption, Zenon DEF StateOf
<1>2. CASE text \notin Stems
  <2>1. StateOf(text) = KindState(Kind(text))
    BY <1>2, Zenon DEF StateOf
  <2>2. At(yy_accept, KindState(Kind(text))) = KindRule(Kind(text))
    BY KindIn, KindRulesAssumption, Zenon
  <2> QED
    BY <1>2, <2>1, <2>2, KindRules, Zenon
<1> QED
  BY <1>1, <1>2

\* The states of the kinds.
LEMMA KindStates ==
  ASSUME NEW kind \in Kinds
  PROVE  /\ KindState(kind) \in 1 .. Jam /\ KindState(kind) # EndOfBuffer
         /\ kind # "none" => KindState(kind) # Jam
         /\ kind = "none" => KindState(kind) = Jam
<1>1. \/ kind \in {"number", "negative"} \/ kind = "hexadecimal" \/ kind = "negative hexadecimal"
      \/ kind = "label" \/ kind = "open comment" \/ kind = "comment" \/ kind = "none"
  BY DEF Kinds
<1>2. kind \in {"number", "negative"} => kind # "none" /\ KindState(kind) = 40
  BY DEF KindState
<1>3. kind = "hexadecimal" => kind # "none" /\ KindState(kind) = 113
  BY DEF KindState
<1>4. kind = "negative hexadecimal" => kind # "none" /\ KindState(kind) = 134
  BY DEF KindState
<1>5. kind = "label" => kind # "none" /\ KindState(kind) = 49
  BY DEF KindState
<1>6. kind = "open comment" => kind # "none" /\ KindState(kind) = 27
  BY DEF KindState
<1>7. kind = "comment" => kind # "none" /\ KindState(kind) = 28
  BY DEF KindState
<1>8. kind = "none" => KindState(kind) = 163
  BY DEF KindState, Jam
<1> DEFINE none == kind = "none"
           state == KindState(kind)
<1>9. (~none /\ state \in {40, 113, 134, 49, 27, 28}) \/ (none /\ state = 163)
  BY <1>1, <1>2, <1>3, <1>4, <1>5, <1>6, <1>7, <1>8, Zenon
<1> HIDE DEF none, state
<1>10. state \in 1 .. 163 /\ state # 5 /\ (~none => state # 163) /\ (none => state = 163)
  BY <1>9
<1> QED
  BY <1>10, Zenon DEF Jam, EndOfBuffer, none, state

\* A text leads to a state, and not to that of the end of the buffer.
LEMMA StateIn ==
  ASSUME NEW text \in Seq(Chars)
  PROVE  StateOf(text) \in 1 .. Jam /\ StateOf(text) # EndOfBuffer
<1>1. CASE text \in Stems
  BY <1>1, JamAssumption DEF StateOf, Jam
<1>2. CASE text \notin Stems
  <2>1. StateOf(text) = KindState(Kind(text))
    BY <1>2, Zenon DEF StateOf
  <2> QED
    BY <2>1, KindIn, KindStates, Zenon
<1> QED
  BY <1>1, <1>2

\* The rules have numbers from 1 to 82.
LEMMA RulesIn == \A text : RulesFor(text) \in SUBSET Nat
<1> SUFFICES ASSUME NEW text, NEW rule \in RulesFor(text) PROVE rule \in Nat
  OBVIOUS
<1>1. rule \in DOMAIN Texts \/ rule \in {1, 2, 43, 44, 45, 78, 79, 80, 81, 82}
  BY Zenon DEF RulesFor
<1>2. DOMAIN Texts = (3 .. 42) \cup (46 .. 77)
  BY Zenon DEF Texts
<1> QED
  BY <1>1, <1>2

\* The rule of a text is one that matches it, or 0 when none does.
LEMMA RuleIn ==
  ASSUME NEW text
  PROVE  /\ RuleOf(text) \in Nat /\ RuleOf(text) <= 82
         /\ RuleOf(text) = 0 <=> RulesFor(text) = {}
         /\ RulesFor(text) # {} => RuleOf(text) = Min(RulesFor(text)) /\ RuleOf(text) \in RulesFor(text)
<1>0. \A rule \in RulesFor(text) : rule \in 1 .. 82
  <2>1. SUFFICES ASSUME NEW rule \in RulesFor(text) PROVE rule \in 1 .. 82
    OBVIOUS
  <2>2. rule \in DOMAIN Texts \/ rule \in {1, 2, 43, 44, 45, 78, 79, 80, 81, 82}
    BY Zenon DEF RulesFor
  <2>3. DOMAIN Texts = (3 .. 42) \cup (46 .. 77)
    BY Zenon DEF Texts
  <2> QED
    BY <2>2, <2>3
<1>1. RulesFor(text) # {} => Min(RulesFor(text)) \in RulesFor(text)
  BY MinChosen, RulesIn, Zenon
<1>2. RuleOf(text) = IF RulesFor(text) = {} THEN 0 ELSE Min(RulesFor(text))
  BY Zenon DEF RuleOf
<1> QED
  BY <1>0, <1>1, <1>2

\* A text that is of no kind, and has jammed the automaton, matches no rule, and
\* the same holds of every longer one.
LEMMA Jammed ==
  ASSUME NEW text \in Seq(Chars), ~Alive(text)
  PROVE  RulesFor(text) = {} /\ \A c \in Chars : ~Alive(Append(text, c))
<1>1. text \notin Stems /\ KindState(Kind(text)) = Jam
  <2>0. Jam \notin 1 .. Jam - 1
    BY DEF Jam
  <2>1. \A t \in Stems : StemState[t] # Jam
    BY <2>0, JamAssumption, Zenon
  <2> QED
    BY <2>1, Zenon DEF Alive, StateOf
<1>2. Kind(text) = "none"
  BY <1>1, KindIn, KindStates, Zenon
<1>3. RuleOf(text) = 0
  BY <1>1, <1>2, KindRules DEF KindRule
<1>4. ASSUME NEW c \in Chars PROVE ~Alive(Append(text, c))
  <2>1. Kind(Append(text, c)) = "none"
    BY <1>1, <1>2, KindSteps DEF KindStep
  <2>2. StateOf(Append(text, c)) = KindState("none")
    BY <1>1, <2>1, Longer, Zenon DEF StateOf
  <2> QED
    BY <2>2 DEF KindState, Alive
<1> QED
  BY <1>3, <1>4, RuleIn

\* A single character is matched, and the empty text is not.
LEMMA FirstCharacter ==
  ASSUME NEW text \in Seq(Chars), Size(text) >= 1
  PROVE  RulesFor(First(text, 1)) # {}
<1>1. 1 \in Nat /\ 1 <= Size(text)
  OBVIOUS
<1>2. First(text, 1) \in Seq(Chars) /\ Size(First(text, 1)) = 1
  BY <1>1, FirstOf
<1> QED
  BY <1>2, OneChar, CharRulesAssumption, Zenon

\* What has jammed the automaton keeps it jammed.
LEMMA JammedFrom ==
  ASSUME NEW text \in Seq(Chars), NEW k \in Nat, k <= Size(text), ~Alive(First(text, k)),
         NEW n \in Nat, k <= n, n <= Size(text)
  PROVE  ~Alive(First(text, n)) /\ RulesFor(First(text, n)) = {}
<1> DEFINE T == {m \in Nat : k + m <= Size(text) => ~Alive(First(text, k + m))}
<1>1. Size(text) \in Nat
  BY Sizes
<1>2. 0 \in T
  OBVIOUS
<1>3. ASSUME NEW m \in Nat, m \in T PROVE m + 1 \in T
  <2>1. SUFFICES ASSUME k + (m + 1) <= Size(text) PROVE ~Alive(First(text, k + (m + 1)))
    OBVIOUS
  <2>2. k + m \in Nat /\ k + m < Size(text) /\ k + m <= Size(text) /\ (k + m) + 1 = k + (m + 1)
    BY <1>1, <2>1
  <2>3. ~Alive(First(text, k + m))
    BY <1>3, <2>2
  <2>4. /\ text[k + m + 1] \in Chars
        /\ First(text, (k + m) + 1) = Append(First(text, k + m), text[k + m + 1])
    BY <2>2, FirstAppended
  <2>5. First(text, k + m) \in Seq(Chars)
    BY <2>2, FirstOf
  <2>6. ~Alive(Append(First(text, k + m), text[k + m + 1]))
    BY <2>3, <2>4, <2>5, Jammed, Zenon
  <2> QED
    BY <2>2, <2>4, <2>6
<1> HIDE DEF T
<1>4. Nat \subseteq T
  BY <1>2, <1>3, Induction
<1>5. n - k \in Nat /\ k + (n - k) = n
  OBVIOUS
<1>6. ~Alive(First(text, n))
  BY <1>4, <1>5 DEF T
<1>7. First(text, n) \in Seq(Chars)
  BY FirstOf
<1> QED
  BY <1>6, <1>7, Jammed, Zenon

\* What is alive has been alive.
LEMMA AliveBefore ==
  ASSUME NEW text \in Seq(Chars), NEW k \in Nat, NEW n \in Nat, k <= n, n <= Size(text),
         Alive(First(text, n))
  PROVE  Alive(First(text, k))
<1>1. Size(text) \in Nat
  BY Sizes
<1>2. k <= Size(text)
  BY <1>1
<1> QED
  BY <1>2, JammedFrom

-----------------------------------------------------------------------------
(* The longest match.                                                      *)

\* There is one, of a text that is not empty.
LEMMA LongestIn ==
  ASSUME NEW text \in Seq(Chars), NEW k \in Nat, 1 <= k, k <= Size(text)
  PROVE  /\ Longest(text, k) \in Nat /\ 1 <= Longest(text, k) /\ Longest(text, k) <= k
         /\ RulesFor(First(text, Longest(text, k))) # {}
         /\ \A n \in 1 .. k : RulesFor(First(text, n)) # {} => n <= Longest(text, k)
<1> DEFINE T == {n \in 1 .. k : RulesFor(First(text, n)) # {}}
<1>1. Longest(text, k) = Max(T)
  BY Zenon DEF Longest, First
<1>2. T \in SUBSET (0 .. k)
  OBVIOUS
<1>3. 1 \in T
  <2>1. Size(text) \in Nat
    BY Sizes
  <2>2. Size(text) >= 1
    BY <2>1
  <2> QED
    BY <2>2, FirstCharacter
<1> DEFINE x == Max(T)
<1>4. x \in T /\ \A y \in T : y <= x
  BY <1>2, <1>3, MaxChosen, Zenon
<1>5. Longest(text, k) = x
  BY <1>1, Zenon
<1> HIDE DEF x
<1>6. x \in 1 .. k /\ RulesFor(First(text, x)) # {}
  BY <1>4, Zenon
<1>7. \A n \in 1 .. k : RulesFor(First(text, n)) # {} => n <= x
  BY <1>4, Zenon
<1> QED
  BY <1>5, <1>6, <1>7

\* It is the longest one.
LEMMA LongestIs ==
  ASSUME NEW text \in Seq(Chars), NEW k \in Nat, k <= Size(text),
         NEW x \in 1 .. k, RulesFor(First(text, x)) # {},
         \A n \in x + 1 .. k : RulesFor(First(text, n)) = {}
  PROVE  Longest(text, k) = x
<1>1. /\ Longest(text, k) \in Nat /\ 1 <= Longest(text, k) /\ Longest(text, k) <= k
      /\ RulesFor(First(text, Longest(text, k))) # {}
      /\ \A n \in 1 .. k : RulesFor(First(text, n)) # {} => n <= Longest(text, k)
  BY LongestIn
<1>2. x <= Longest(text, k)
  BY <1>1
<1>3. ~(Longest(text, k) \in x + 1 .. k)
  BY <1>1
<1> QED
  BY <1>1, <1>2, <1>3

\* Of one character it is that character; one character more makes it longer or
\* leaves it as it is.
LEMMA LongestOne ==
  ASSUME NEW text \in Seq(Chars), Size(text) >= 1
  PROVE  Longest(text, 1) = 1
<1>1. 1 \in Nat /\ 1 <= Size(text) /\ 1 \in 1 .. 1 /\ 1 + 1 .. 1 = {}
  OBVIOUS
<1>2. RulesFor(First(text, 1)) # {}
  BY FirstCharacter
<1> QED
  BY <1>1, <1>2, LongestIs

\* One character more is the longest match, or the longest match stays.
LEMMA LongestNext ==
  ASSUME NEW text \in Seq(Chars), NEW k \in Nat, 1 <= k, k < Size(text)
  PROVE  Longest(text, k + 1) =
           IF RulesFor(First(text, k + 1)) # {} THEN k + 1 ELSE Longest(text, k)
<1>0. Size(text) \in Nat
  BY Sizes
<1>1. k + 1 \in Nat /\ k + 1 <= Size(text)
  BY <1>0
<1>2. CASE RulesFor(First(text, k + 1)) # {}
  <2>1. k + 1 \in 1 .. k + 1 /\ (k + 1) + 1 .. k + 1 = {}
    OBVIOUS
  <2> QED
    BY <1>1, <1>2, <2>1, LongestIs
<1>3. CASE RulesFor(First(text, k + 1)) = {}
  <2> DEFINE x == Longest(text, k)
  <2>1. /\ x \in Nat /\ 1 <= x /\ x <= k
        /\ RulesFor(First(text, x)) # {}
        /\ \A n \in 1 .. k : RulesFor(First(text, n)) # {} => n <= x
    BY <1>0, LongestIn
  <2> HIDE DEF x
  <2>2. x \in 1 .. k + 1
    BY <2>1
  <2>3. \A n \in x + 1 .. k + 1 : RulesFor(First(text, n)) = {}
    <3>1. SUFFICES ASSUME NEW n \in x + 1 .. k + 1 PROVE RulesFor(First(text, n)) = {}
      OBVIOUS
    <3>2. n = k + 1 \/ (n \in 1 .. k /\ ~(n <= x))
      BY <2>1
    <3> QED
      BY <1>3, <2>1, <3>2
  <2>4. Longest(text, k + 1) = x
    BY <1>1, <2>1, <2>2, <2>3, LongestIs
  <2> QED
    BY <1>3, <2>4 DEF x
<1> QED
  BY <1>2, <1>3

\* When the automaton has jammed, or the text ends, what has been recorded is the
\* longest match of the whole text.
LEMMA LongestEnough ==
  ASSUME NEW text \in Seq(Chars), NEW k \in Nat, 1 <= k, k <= Size(text),
         k = Size(text) \/ ~Alive(First(text, k + 1))
  PROVE  MatchedLength(text) = Longest(text, k)
<1>0. Size(text) \in Nat
  BY Sizes
<1>1. MatchedLength(text) = Longest(text, Size(text))
  BY Zenon DEF MatchedLength, Longest, Size
<1>2. CASE k < Size(text)
  <2> DEFINE x == Longest(text, k)
  <2>1. /\ x \in Nat /\ 1 <= x /\ x <= k
        /\ RulesFor(First(text, x)) # {}
        /\ \A n \in 1 .. k : RulesFor(First(text, n)) # {} => n <= x
    BY LongestIn
  <2>2. ~Alive(First(text, k + 1)) /\ k + 1 \in Nat /\ k + 1 <= Size(text)
    BY <1>0, <1>2
  <2> HIDE DEF x
  <2>3. x \in 1 .. Size(text)
    BY <1>0, <2>1
  <2>4. \A n \in x + 1 .. Size(text) : RulesFor(First(text, n)) = {}
    <3>1. SUFFICES ASSUME NEW n \in x + 1 .. Size(text) PROVE RulesFor(First(text, n)) = {}
      OBVIOUS
    <3>2. CASE n <= k
      <4>1. n \in 1 .. k /\ ~(n <= x)
        BY <1>0, <2>1, <3>2
      <4> QED
        BY <2>1, <4>1
    <3>3. CASE ~(n <= k)
      <4>1. n \in Nat /\ k + 1 <= n /\ n <= Size(text)
        BY <1>0, <2>1, <3>3
      <4> QED
        BY <2>2, <4>1, JammedFrom
    <3> QED
      BY <3>2, <3>3
  <2>5. Longest(text, Size(text)) = x
    <3>1. Size(text) <= Size(text) /\ RulesFor(First(text, x)) # {}
      BY <1>0, <2>1
    <3> QED
      BY <1>0, <2>3, <2>4, <3>1, LongestIs, Zenon
  <2> QED
    BY <1>1, <2>5 DEF x
<1>3. CASE k = Size(text)
  BY <1>1, <1>3
<1> QED
  BY <1>0, <1>2, <1>3

\* The longest match of a text that is not empty.
LEMMA MatchedIn ==
  ASSUME NEW text \in Seq(Chars), text # <<>>
  PROVE  /\ MatchedLength(text) \in Nat /\ 1 <= MatchedLength(text)
         /\ MatchedLength(text) <= Size(text)
         /\ RulesFor(First(text, MatchedLength(text))) # {}
<1>1. Size(text) \in Nat /\ 1 <= Size(text) /\ Size(text) <= Size(text)
  BY Sizes
<1>2. MatchedLength(text) = Longest(text, Size(text))
  BY Zenon DEF MatchedLength, Longest, Size
<1> QED
  BY <1>1, <1>2, LongestIn

-----------------------------------------------------------------------------
(* The buffer.                                                             *)

\* What the buffer holds from the present token on is the beginning of what is
\* left of the file.
LEMMA Bytes ==
  ASSUME BufferInv
  PROVE  /\ Size(file) \in Nat /\ file_pos \in Nat /\ file_pos <= Size(file)
         /\ yy_n_chars \in Nat /\ yy_n_chars = Size(yy_ch_buf) /\ yy_n_chars <= file_pos
         /\ yytext_ptr \in Nat /\ yytext_ptr <= yy_n_chars
         /\ Offset \in Nat /\ Offset = file_pos - yy_n_chars + yytext_ptr
         /\ Rest \in Seq(Chars) /\ Size(Rest) = Size(file) - Offset
         /\ \A k \in Nat : yytext_ptr + k < yy_n_chars =>
              /\ k < Size(Rest)
              /\ ByteAt(yytext_ptr + k) = Rest[k + 1] /\ Rest[k + 1] \in Chars
              /\ yy_ch_buf[yytext_ptr + k + 1] = Rest[k + 1]
<1>1. /\ file \in Seq(Chars) /\ file_pos \in 0 .. Size(file)
      /\ yy_ch_buf \in Seq(Chars) /\ yy_n_chars <= file_pos
      /\ yytext_ptr \in 0 .. yy_n_chars
      /\ \A k \in yytext_ptr + 1 .. yy_n_chars : yy_ch_buf[k] = file[file_pos - yy_n_chars + k]
  BY Zenon DEF BufferInv
<1>2. yy_n_chars = Size(yy_ch_buf)
  BY Zenon DEF yy_n_chars, Size
<1>3. yy_n_chars \in Nat /\ Size(file) \in Nat
  BY <1>1, <1>2, Sizes
<1>4. /\ file_pos \in Nat /\ file_pos <= Size(file)
      /\ yytext_ptr \in Nat /\ yytext_ptr <= yy_n_chars
  BY <1>1, <1>3
<1>5. Offset = file_pos - yy_n_chars + yytext_ptr
  BY Zenon DEF Offset
<1>6. Offset \in Nat /\ Offset <= Size(file)
  BY <1>1, <1>3, <1>4, <1>5
<1>7. /\ Rest \in Seq(Chars) /\ Size(Rest) = Size(file) - Offset
      /\ \A i \in 1 .. Size(file) - Offset : Rest[i] = file[Offset + i]
  <2>1. Offset + 1 \in Nat \ {0} /\ Size(file) - (Offset + 1) + 1 = Size(file) - Offset
    BY <1>3, <1>6
  <2>2. /\ Rest \in Seq(Chars)
        /\ Size(Rest) = IF Offset + 1 <= Size(file) THEN Size(file) - (Offset + 1) + 1 ELSE 0
        /\ \A i \in 1 .. Size(file) - (Offset + 1) + 1 : Rest[i] = file[Offset + 1 + i - 1]
    BY <1>1, <2>1, FromOf DEF Rest
  <2>3. \A i \in 1 .. Size(file) - Offset : Offset + 1 + i - 1 = Offset + i
    BY <1>3, <1>6
  <2> QED
    BY <1>3, <1>6, <2>1, <2>2, <2>3
<1>8. ASSUME NEW k \in Nat, yytext_ptr + k < yy_n_chars
      PROVE  /\ k < Size(Rest) /\ ByteAt(yytext_ptr + k) = Rest[k + 1] /\ Rest[k + 1] \in Chars
             /\ yy_ch_buf[yytext_ptr + k + 1] = Rest[k + 1]
  <2>1. k < Size(Rest) /\ k + 1 \in 1 .. Size(file) - Offset /\ k + 1 \in 1 .. Size(Rest)
    BY <1>1, <1>3, <1>4, <1>5, <1>7, <1>8
  <2>2. /\ yytext_ptr + k + 1 \in yytext_ptr + 1 .. yy_n_chars
        /\ file_pos - yy_n_chars + (yytext_ptr + k + 1) = Offset + (k + 1)
    BY <1>3, <1>4, <1>5, <1>8
  <2>3. yy_ch_buf[yytext_ptr + k + 1] = file[file_pos - yy_n_chars + (yytext_ptr + k + 1)]
    BY <1>1, <2>2
  <2>4. yy_ch_buf[yytext_ptr + k + 1] = Rest[k + 1]
    BY <1>7, <2>1, <2>2, <2>3
  <2>5. ByteAt(yytext_ptr + k) = yy_ch_buf[yytext_ptr + k + 1]
    BY <1>8, Zenon DEF ByteAt
  <2>6. Rest[k + 1] \in Chars
    BY <1>7, <2>1, Sizes
  <2> QED
    BY <2>1, <2>4, <2>5, <2>6
<1> QED
  BY <1>1, <1>2, <1>3, <1>4, <1>5, <1>6, <1>7, <1>8

\* Each byte has a class, that of the end of the buffer if it is zero.
LEMMA ByteIn ==
  ASSUME BufferInv, NEW k \in Nat, yytext_ptr <= k
  PROVE  /\ ByteAt(k) \in Chars
         /\ ByteAt(k) = NUL => yy_ec[ByteAt(k)] = 0
         /\ ByteAt(k) # NUL => yy_ec[ByteAt(k)] = ClassOf(ByteAt(k)) /\ k < yy_n_chars
         /\ yy_ec[ByteAt(k)] \in 0 .. Len(CharClasses)
<1>1. k < yy_n_chars => ByteAt(k) \in Chars
  <2>1. SUFFICES ASSUME k < yy_n_chars PROVE ByteAt(k) \in Chars
    OBVIOUS
  <2>2. yytext_ptr \in Nat /\ yy_n_chars \in Nat
    BY Bytes
  <2>3. k - yytext_ptr \in Nat /\ yytext_ptr + (k - yytext_ptr) = k
    BY <2>2
  <2> QED
    BY <2>1, <2>3, Bytes
<1>2. ~(k < yy_n_chars) => ByteAt(k) = NUL
  BY Zenon DEF ByteAt
<1>3. ByteAt(k) \in Chars
  BY <1>1, <1>2, Specials, Zenon
<1>4. ByteAt(k) # NUL => yy_ec[ByteAt(k)] = ClassOf(ByteAt(k))
  BY Zenon DEF ClassOf
<1>5. yy_ec[NUL] = 0 /\ ClassOf(ByteAt(k)) \in 1 .. Len(CharClasses)
  BY <1>3, ClassesAssumption, Zenon
<1>6. 0 \in 0 .. Len(CharClasses)
  <2>1. ClassOf(NUL) \in 1 .. Len(CharClasses)
    BY ClassesAssumption, Specials, Zenon
  <2> QED
    BY <2>1
<1>7. yy_ec[ByteAt(k)] \in 0 .. Len(CharClasses)
  BY <1>4, <1>5, <1>6
<1> QED
  BY <1>2, <1>3, <1>4, <1>5, <1>7

-----------------------------------------------------------------------------
(* One byte.                                                               *)

\* The start states.
LEMMA Starts ==
  ASSUME BufferInv
  PROVE  /\ StartState \in 1 .. Jam - 1 /\ StartState # EndOfBuffer
         /\ At(yy_accept, StartState) = 0
         /\ yy_n_chars > 0 => StartState = StateOf(<<>>)
         /\ Alive(<<>>)
<1>1. StartState \in {1, 3} /\ (yy_start = "INITIAL" => StartState = 1)
  BY DEF StartState
<1>2. yy_n_chars > 0 => yy_start = "INITIAL"
  <2>1. yy_start = "READ_EOF_ONCE" => yy_ch_buf = <<>>
    BY Zenon DEF BufferInv
  <2>2. yy_ch_buf = <<>> => yy_n_chars = 0
    BY Bytes, Sizes, Zenon DEF BufferInv
  <2>3. yy_start \in {"INITIAL", "READ_EOF_ONCE"}
    BY Zenon DEF BufferInv
  <2> QED
    BY <2>1, <2>2, <2>3, Bytes
<1>3. StateOf(<<>>) = 1
  <2>1. <<>> \in Stems
    BY StemTexts
  <2>2. StemState[<<>>] = 1
    BY JamAssumption, Zenon
  <2> QED
    BY <2>1, <2>2, Zenon DEF StateOf
<1>4. StartState \in 1 .. Jam - 1 /\ StartState # EndOfBuffer /\ 1 # Jam
  BY <1>1 DEF Jam, EndOfBuffer
<1>5. At(yy_accept, StartState) = 0
  BY <1>1, EndOfBufferAssumption, Zenon
<1> QED
  BY <1>1, <1>2, <1>3, <1>4, <1>5, Zenon DEF Alive

\* While it scans the state is no jam, and not that of the end of the buffer;
\* what it accepts there is what the rules say of the text so far.
LEMMA ScanState ==
  ASSUME BufferInv, Scanning
  PROVE  /\ yy_cp - yytext_ptr \in Nat /\ yy_cp \in Nat /\ yytext_ptr <= yy_cp /\ yy_cp <= yy_n_chars
         /\ yy_cp - yytext_ptr <= Size(Rest)
         /\ yy_current_state \in 1 .. Jam - 1 /\ yy_current_state # EndOfBuffer
         /\ yy_cp = yytext_ptr => yy_act = 0
         /\ yy_cp # yytext_ptr => yy_act = RuleOf(First(Rest, yy_cp - yytext_ptr))
<1> DEFINE k == yy_cp - yytext_ptr
<1>1. /\ yy_cp \in yytext_ptr .. yy_n_chars
      /\ yy_current_state = IF k = 0 THEN StartState ELSE StateOf(First(Rest, k))
      /\ Alive(First(Rest, k))
  BY Zenon DEF Scanning
<1>2. /\ yy_n_chars \in Nat /\ yytext_ptr \in Nat /\ yytext_ptr <= yy_n_chars
      /\ Size(file) \in Nat /\ file_pos \in Nat /\ file_pos <= Size(file) /\ yy_n_chars <= file_pos
      /\ Offset = file_pos - yy_n_chars + yytext_ptr
      /\ Rest \in Seq(Chars) /\ Size(Rest) = Size(file) - Offset
  BY Bytes
<1>3. k \in Nat /\ yy_cp \in Nat /\ k <= Size(Rest) /\ (k = 0 <=> yy_cp = yytext_ptr)
  BY <1>1, <1>2
<1> HIDE DEF k
<1>4. First(Rest, k) \in Seq(Chars)
  BY <1>2, <1>3, FirstOf
<1>5. StateOf(First(Rest, k)) \in 1 .. Jam - 1 /\ StateOf(First(Rest, k)) # EndOfBuffer
  <2>1. StateOf(First(Rest, k)) \in 1 .. Jam /\ StateOf(First(Rest, k)) # EndOfBuffer
    BY <1>4, StateIn
  <2>2. StateOf(First(Rest, k)) # Jam
    BY <1>1, Zenon DEF Alive, k
  <2> QED
    BY <2>1, <2>2 DEF Jam
<1>6. StateOf(First(Rest, k)) = yy_current_state => yy_act = RuleOf(First(Rest, k))
  BY <1>4, StateRules, Zenon DEF yy_act
<1>7. StartState = yy_current_state => yy_act = 0
  BY Starts, Zenon DEF yy_act
<1>8. k = 0 => yy_current_state = StartState
  BY <1>1, Zenon DEF k
<1>9. k # 0 => yy_current_state = StateOf(First(Rest, k))
  BY <1>1, Zenon DEF k
<1>10. yy_current_state \in 1 .. Jam - 1 /\ yy_current_state # EndOfBuffer
  BY <1>5, <1>8, <1>9, Starts, Zenon
<1>11. /\ k \in Nat /\ yy_cp \in Nat /\ yytext_ptr <= yy_cp /\ yy_cp <= yy_n_chars
       /\ k <= Size(Rest)
  BY <1>1, <1>2, <1>3
<1>12. (yy_cp = yytext_ptr => yy_act = 0) /\ (yy_cp # yytext_ptr => yy_act = RuleOf(First(Rest, k)))
  BY <1>3, <1>6, <1>7, <1>8, <1>9, Zenon
<1> QED
  BY <1>10, <1>11, <1>12, Zenon DEF k

\* What it records is the longest match so far.
LEMMA RecordedUpTo ==
  ASSUME BufferInv, Scanning, accepted.state \in 0 .. Jam - 1
  PROVE  /\ Recorded.state \in 0 .. Jam - 1
         /\ yy_cp # yytext_ptr =>
              /\ Recorded.state = StateOf(First(Rest, Longest(Rest, yy_cp - yytext_ptr)))
              /\ Recorded.cpos = yytext_ptr + Longest(Rest, yy_cp - yytext_ptr)
<1> DEFINE k == yy_cp - yytext_ptr
<1>1. /\ k \in Nat /\ yytext_ptr \in Nat /\ yy_cp \in Nat /\ k <= Size(Rest)
      /\ yy_current_state \in 1 .. Jam - 1
      /\ yy_cp = yytext_ptr => yy_act = 0
      /\ yy_cp # yytext_ptr => yy_act = RuleOf(First(Rest, k))
  BY ScanState, Bytes
<1>2. Rest \in Seq(Chars) /\ Size(Rest) \in Nat
  BY Bytes, Sizes
<1>3. AcceptedUpTo(k - 1) /\ (k # 0 => yy_current_state = StateOf(First(Rest, k)))
  BY Zenon DEF Scanning
<1>4. yytext_ptr + k = yy_cp /\ (k = 0 <=> yy_cp = yytext_ptr)
  BY <1>1
<1> HIDE DEF k
<1>5. CASE yy_act # 0
  <2>1. Recorded.state = yy_current_state /\ Recorded.cpos = yy_cp
    BY <1>5 DEF Recorded
  <2>2. 1 <= k
    BY <1>1, <1>4, <1>5
  <2>3. RulesFor(First(Rest, k)) # {}
    BY <1>1, <1>5, RuleIn
  <2>4. k \in 1 .. k /\ k + 1 .. k = {}
    BY <1>1, <2>2
  <2>5. Longest(Rest, k) = k
    BY <1>1, <1>2, <2>3, <2>4, LongestIs
  <2>6. Recorded.state = StateOf(First(Rest, Longest(Rest, k))) /\ Recorded.cpos = yytext_ptr + Longest(Rest, k)
    BY <1>3, <1>4, <2>1, <2>2, <2>5
  <2>7. Recorded.state \in 0 .. Jam - 1
    BY <1>1, <2>1 DEF Jam
  <2> QED
    BY <2>6, <2>7, Zenon DEF k
<1>6. CASE yy_act = 0
  <2>1. Recorded = accepted
    BY <1>6, Zenon DEF Recorded
  <2>2. SUFFICES ASSUME yy_cp # yytext_ptr
                 PROVE  /\ Recorded.state = StateOf(First(Rest, Longest(Rest, k)))
                        /\ Recorded.cpos = yytext_ptr + Longest(Rest, k)
    BY <2>1, Zenon DEF k
  <2>3. RulesFor(First(Rest, k)) = {}
    BY <1>1, <1>6, <2>2, RuleIn
  <2>4. k # 1
    BY <1>1, <1>2, <2>3, FirstCharacter
  <2>5. k - 1 \in Nat /\ 1 <= k - 1 /\ k - 1 < Size(Rest) /\ (k - 1) + 1 = k
    BY <1>1, <1>2, <1>4, <2>2, <2>4
  <2>6. Longest(Rest, k) = Longest(Rest, k - 1)
    BY <1>2, <2>3, <2>5, LongestNext
  <2>7. /\ accepted.state = StateOf(First(Rest, Longest(Rest, k - 1)))
        /\ accepted.cpos = yytext_ptr + Longest(Rest, k - 1)
    BY <1>3, <2>5 DEF AcceptedUpTo
  <2> QED
    BY <2>1, <2>6, <2>7, Zenon
<1> QED
  BY <1>5, <1>6

\* A byte of the text takes it to the state of the text with that byte.
LEMMA ScanStep ==
  ASSUME BufferInv, Scanning, yy_cp < yy_n_chars
  PROVE  /\ yy_cp - yytext_ptr + 1 <= Size(Rest)
         /\ Transition[yy_current_state, ClassOf(ByteAt(yy_cp))]
              = StateOf(First(Rest, yy_cp - yytext_ptr + 1))
         /\ yy_cp = yytext_ptr => Alive(First(Rest, yy_cp - yytext_ptr + 1))
<1> DEFINE k == yy_cp - yytext_ptr
<1>1. k \in Nat /\ yy_cp \in Nat /\ yytext_ptr \in Nat /\ k <= Size(Rest)
  BY ScanState, Bytes
<1>2. Rest \in Seq(Chars) /\ Size(Rest) \in Nat
  BY Bytes, Sizes
<1>3. (k # 0 => yy_current_state = StateOf(First(Rest, k))) /\ (k = 0 => yy_current_state = StartState)
  BY Zenon DEF Scanning
<1>4. yytext_ptr + k = yy_cp /\ (k = 0 <=> yy_cp = yytext_ptr)
  BY <1>1
<1> HIDE DEF k
<1>5. k < Size(Rest) /\ ByteAt(yy_cp) = Rest[k + 1] /\ Rest[k + 1] \in Chars
  BY <1>1, <1>4, Bytes
<1>6. First(Rest, k + 1) = Append(First(Rest, k), Rest[k + 1]) /\ First(Rest, k) \in Seq(Chars)
  BY <1>1, <1>2, <1>5, FirstAppended, FirstOf
<1>7. yy_current_state = StateOf(First(Rest, k))
  <2>1. yy_n_chars > 0
    BY <1>1, Bytes
  <2>2. k = 0 => First(Rest, k) = <<>>
    BY <1>2, FirstNone
  <2> QED
    BY <1>3, <2>1, <2>2, Starts, Zenon
<1>8. Transition[yy_current_state, ClassOf(ByteAt(yy_cp))] = StateOf(First(Rest, k + 1))
  BY <1>5, <1>6, <1>7, StateSteps, Zenon
<1>9. k + 1 <= Size(Rest)
  BY <1>1, <1>2, <1>5
<1>10. k = 0 => Alive(First(Rest, k + 1))
  <2>1. SUFFICES ASSUME k = 0, ~Alive(First(Rest, k + 1)) PROVE FALSE
    OBVIOUS
  <2>2. k + 1 = 1 /\ Size(Rest) >= 1
    BY <1>9, <2>1
  <2>3. First(Rest, k + 1) \in Seq(Chars)
    BY <1>1, <1>2, <1>9, FirstOf
  <2> QED
    BY <1>2, <2>1, <2>2, <2>3, Jammed, FirstCharacter
<1> QED
  BY <1>4, <1>8, <1>9, <1>10, Zenon DEF k

-----------------------------------------------------------------------------
(* The steps that leave the buffer alone.                                  *)

\* They leave alone what is left of the file.
LEMMA SameBuffer ==
  ASSUME BufferInv, UNCHANGED <<file, bufferVars, yytext_ptr, yy_start>>,
         yy_c_buf_p' \in 0 .. yy_n_chars
  PROVE  /\ BufferInv' /\ Rest' = Rest /\ yy_n_chars' = yy_n_chars /\ Offset' = Offset
         /\ \A k : ByteAt(k)' = ByteAt(k)
<1>1. /\ file' = file /\ file_pos' = file_pos /\ yy_ch_buf' = yy_ch_buf
      /\ yy_buf_size' = yy_buf_size /\ yy_buffer_status' = yy_buffer_status
      /\ yytext_ptr' = yytext_ptr /\ yy_start' = yy_start
  BY Zenon DEF bufferVars
<1>2. yy_n_chars' = yy_n_chars
  BY <1>1, Zenon DEF yy_n_chars
<1>3. Offset' = Offset
  BY <1>1, <1>2, Zenon DEF Offset
<1>4. Rest' = Rest
  BY <1>1, <1>3, Zenon DEF Rest
<1>5. \A k : ByteAt(k)' = ByteAt(k)
  BY <1>1, <1>2, Zenon DEF ByteAt
<1>6. BufferInv'
  BY <1>1, <1>2, Zenon DEF BufferInv
<1> QED
  BY <1>2, <1>3, <1>4, <1>5, <1>6, Zenon

\* A byte of the text that does not jam the automaton.
LEMMA ScansOn ==
  ASSUME BufferInv, Scanning, accepted.state \in 0 .. Jam - 1, yy_cp < yy_n_chars,
         Rest' = Rest, yy_n_chars' = yy_n_chars, yytext_ptr' = yytext_ptr,
         accepted' = Recorded, yy_cp' = yy_cp + 1,
         yy_current_state' = StateOf(First(Rest, yy_cp - yytext_ptr + 1)),
         yy_current_state' # Jam
  PROVE  Scanning'
<1> DEFINE k == yy_cp - yytext_ptr
<1>1. /\ k \in Nat /\ yy_cp \in Nat /\ yytext_ptr \in Nat /\ yytext_ptr <= yy_cp
      /\ yy_n_chars \in Nat
  BY ScanState, Bytes
<1>2. yy_current_state' = StateOf(First(Rest, k + 1))
  BY Zenon
<1>3. yy_cp # yytext_ptr => /\ accepted'.state = StateOf(First(Rest, Longest(Rest, k)))
                            /\ accepted'.cpos = yytext_ptr + Longest(Rest, k)
  BY RecordedUpTo, Zenon
<1>4. yy_cp' - yytext_ptr' = k + 1 /\ k + 1 # 0 /\ (k + 1) - 1 = k /\ (k >= 1 => yy_cp # yytext_ptr)
  BY <1>1
<1>5. yy_cp' \in yytext_ptr' .. yy_n_chars'
  BY <1>1
<1> HIDE DEF k
<1>6. Alive(First(Rest', k + 1))
  BY <1>2, Zenon DEF Alive
<1>7. k >= 1 => /\ accepted'.state = StateOf(First(Rest', Longest(Rest', k)))
                /\ accepted'.cpos = yytext_ptr' + Longest(Rest', k)
  BY <1>3, <1>4, Zenon
<1> QED
  BY <1>2, <1>4, <1>5, <1>6, <1>7, Zenon DEF Scanning, AcceptedUpTo

\* A byte of the text that jams it: the longest match has been recorded.
LEMMA Jams ==
  ASSUME BufferInv, Scanning, accepted.state \in 0 .. Jam - 1, yy_cp < yy_n_chars,
         Rest' = Rest, yy_n_chars' = yy_n_chars, yytext_ptr' = yytext_ptr,
         StateOf(First(Rest, yy_cp - yytext_ptr + 1)) = Jam,
         yy_cp' = Recorded.cpos, yy_current_state' = Recorded.state
  PROVE  Decided'
<1> DEFINE k == yy_cp - yytext_ptr
<1>1. /\ k \in Nat /\ yy_cp \in Nat /\ yytext_ptr \in Nat /\ yytext_ptr <= yy_cp
      /\ yy_n_chars \in Nat
  BY ScanState, Bytes
<1>2. Rest \in Seq(Chars) /\ Size(Rest) \in Nat /\ k + 1 <= Size(Rest)
  BY Bytes, Sizes, ScanStep
<1>3. ~Alive(First(Rest, k + 1))
  BY Zenon DEF Alive
<1>4. yy_cp # yytext_ptr
  BY <1>3, ScanStep, Zenon
<1>5. yy_cp' = yytext_ptr + Longest(Rest, k) /\ yy_current_state' = StateOf(First(Rest, Longest(Rest, k)))
  BY <1>4, RecordedUpTo, Zenon
<1>6. 1 <= k /\ k <= yy_n_chars - yytext_ptr /\ k <= Size(Rest)
  BY <1>1, <1>2, <1>4
<1> HIDE DEF k
<1>7. MatchedLength(Rest) = Longest(Rest, k)
  BY <1>1, <1>2, <1>3, <1>6, LongestEnough
<1>8. Longest(Rest, k) \in Nat /\ Longest(Rest, k) <= k
  BY <1>1, <1>2, <1>6, LongestIn
<1>9. MatchedLength(Rest) <= yy_n_chars - yytext_ptr
  BY <1>1, <1>6, <1>7, <1>8
<1>10. Rest # <<>>
  <2>1. Size(Rest) # 0
    BY <1>1, <1>2, <1>6
  <2> QED
    BY <1>2, <2>1, Sizes, Zenon
<1> QED
  BY <1>5, <1>7, <1>9, <1>10, Zenon DEF Decided

\* A zero byte, or the end of the buffer.
LEMMA MeetsNUL ==
  ASSUME BufferInv, Scanning, ByteAt(yy_cp) = NUL,
         Rest' = Rest, yy_n_chars' = yy_n_chars, yytext_ptr' = yytext_ptr,
         yy_ch_buf' = yy_ch_buf,
         yy_cp' = yy_cp + 1, yy_current_state' = EndOfBuffer
  PROVE  MetNUL'
<1>1. /\ yy_cp \in Nat /\ yytext_ptr \in Nat /\ yytext_ptr <= yy_cp /\ yy_cp <= yy_n_chars
      /\ yy_n_chars \in Nat
  BY ScanState, Bytes
<1>2. yy_cp' - 1 = yy_cp /\ yy_cp' \in yytext_ptr' + 1 .. yy_n_chars' + 1
  BY <1>1
<1>3. Alive(First(Rest, yy_cp - yytext_ptr))
  BY Zenon DEF Scanning
<1>4. ByteAt(yy_cp - 1)' = ByteAt(yy_cp)
  BY <1>2, Zenon DEF ByteAt
<1>5. Alive(First(Rest, yy_cp - 1 - yytext_ptr))'
  BY <1>2, <1>3, Zenon DEF Alive, First
<1> QED
  BY <1>2, <1>4, <1>5, Zenon DEF MetNUL

\* At the end of the buffer it stays there, whatever follows.
LEMMA StaysAtNUL ==
  ASSUME BufferInv, MetNUL, Rest' = Rest, yy_n_chars' = yy_n_chars, yytext_ptr' = yytext_ptr,
         yy_ch_buf' = yy_ch_buf, yy_cp' = yy_cp, yy_current_state' = EndOfBuffer
  PROVE  MetNUL'
<1>1. ByteAt(yy_cp - 1)' = ByteAt(yy_cp - 1)
  BY Zenon DEF ByteAt
<1>2. Alive(First(Rest, yy_cp - 1 - yytext_ptr))' = Alive(First(Rest, yy_cp - 1 - yytext_ptr))
  BY Zenon DEF Alive, First
<1> QED
  BY <1>1, <1>2, Zenon DEF MetNUL

\* yy_match.
LEMMA MatchByteInv ==
  ASSUME BufferInv, ScanInv, MatchByte
  PROVE  BufferInv' /\ ScanInv' /\ Rest' = Rest
<1> DEFINE next == Transition[yy_current_state, yy_ec[ByteAt(yy_cp)]]
<1>1. /\ label = "yy_match" /\ accepted' = Recorded
      /\ UNCHANGED <<file, bufferVars, yytext_ptr, yy_start>> /\ yy_c_buf_p' = yy_c_buf_p
      /\ yy_ch_buf' = yy_ch_buf /\ yytext_ptr' = yytext_ptr
      /\ next # Jam => yy_cp' = yy_cp + 1 /\ yy_current_state' = next /\ label' = "yy_match"
      /\ next = Jam => /\ yy_cp' = accepted'.cpos /\ yy_current_state' = accepted'.state
                       /\ label' = "yy_find_action"
  BY Zenon DEF MatchByte, bufferVars, outputVars
<1>2. (Scanning \/ MetNUL) /\ accepted.state \in 0 .. Jam - 1
  BY <1>1, Zenon DEF ScanInv
<1>3. yy_c_buf_p' \in 0 .. yy_n_chars
  BY <1>1, Zenon DEF BufferInv
<1>4. BufferInv' /\ Rest' = Rest /\ yy_n_chars' = yy_n_chars
  BY <1>1, <1>3, SameBuffer, Zenon
<1>5. /\ yy_cp \in Nat /\ yytext_ptr \in Nat /\ yytext_ptr <= yy_cp /\ yy_n_chars \in Nat
  <2>1. yytext_ptr \in Nat /\ yy_n_chars \in Nat
    BY <1>1, Bytes
  <2>2. CASE Scanning
    BY <1>1, <2>1, <2>2, ScanState
  <2>3. CASE MetNUL
    BY <2>1, <2>3 DEF MetNUL
  <2> QED
    BY <1>2, <2>2, <2>3
<1>6. /\ ByteAt(yy_cp) = NUL => yy_ec[ByteAt(yy_cp)] = 0
      /\ ByteAt(yy_cp) # NUL =>
           yy_ec[ByteAt(yy_cp)] = ClassOf(ByteAt(yy_cp)) /\ yy_cp < yy_n_chars
      /\ yy_ec[ByteAt(yy_cp)] \in 0 .. Len(CharClasses)
  BY <1>5, ByteIn
<1> SUFFICES ScanInv'
  BY <1>4
<1>7. CASE Scanning /\ ByteAt(yy_cp) = NUL
  <2>1. next = EndOfBuffer /\ EndOfBuffer # Jam
    <3>1. yy_current_state \in 1 .. Jam - 1 /\ yy_current_state # EndOfBuffer
      BY <1>7, ScanState
    <3>2. Transition[yy_current_state, 0] = EndOfBuffer
      BY <3>1, EndOfBufferAssumption, Zenon
    <3>3. EndOfBuffer # Jam
      BY DEF Jam, EndOfBuffer
    <3> QED
      BY <1>6, <1>7, <3>2, <3>3, Zenon
  <2>2. MetNUL'
    BY <1>1, <1>4, <1>7, <2>1, MeetsNUL, Zenon
  <2>3. accepted'.state \in 0 .. Jam - 1
    BY <1>1, <1>2, <1>7, RecordedUpTo, Zenon
  <2> QED
    BY <1>1, <2>1, <2>2, <2>3, Zenon DEF ScanInv, Rescans
<1>8. CASE Scanning /\ ByteAt(yy_cp) # NUL
  <2>1. next = StateOf(First(Rest, yy_cp - yytext_ptr + 1)) /\ yy_cp < yy_n_chars
    BY <1>6, <1>8, ScanStep, Zenon
  <2>2. accepted'.state \in 0 .. Jam - 1
    BY <1>1, <1>2, <1>8, RecordedUpTo, Zenon
  <2>3. CASE next # Jam
    <3>1. Scanning'
      BY <1>1, <1>2, <1>4, <1>8, <2>1, <2>3, ScansOn, Zenon
    <3> QED
      BY <1>1, <2>2, <2>3, <3>1, Zenon DEF ScanInv, Rescans
  <2>4. CASE next = Jam
    <3>1. Decided'
      BY <1>1, <1>2, <1>4, <1>8, <2>1, <2>4, Jams, Zenon
    <3> QED
      BY <1>1, <2>2, <2>4, <3>1, Zenon DEF ScanInv, Rescans
  <2> QED
    BY <2>3, <2>4
<1>9. CASE MetNUL
  <2>1. yy_current_state = EndOfBuffer
    BY <1>9, Zenon DEF MetNUL
  <2>2. next = Jam
    BY <1>6, <2>1, EndOfBufferAssumption, Zenon
  <2>3. accepted' = [state |-> EndOfBuffer, cpos |-> yy_cp]
    <3>1. yy_act # 0
      <4>1. yy_act = YY_END_OF_BUFFER
        BY <2>1, EndOfBufferAssumption, Zenon DEF yy_act
      <4> QED
        BY <4>1 DEF YY_END_OF_BUFFER
    <3> QED
      BY <1>1, <2>1, <3>1, Zenon DEF Recorded
  <2>4. accepted'.cpos = yy_cp /\ accepted'.state = EndOfBuffer
    BY <2>3
  <2>5. MetNUL'
    BY <1>1, <1>4, <1>9, <2>2, <2>4, StaysAtNUL, Zenon
  <2>6. accepted'.state \in 0 .. Jam - 1
    BY <2>4 DEF EndOfBuffer, Jam
  <2> QED
    BY <1>1, <2>2, <2>5, <2>6, Zenon DEF ScanInv, Rescans
<1> QED
  BY <1>2, <1>7, <1>8, <1>9

\* yy_get_previous_state.
LEMMA RescanByteInv ==
  ASSUME BufferInv, ScanInv, RescanByte
  PROVE  BufferInv' /\ ScanInv' /\ Rest' = Rest
<1>1. /\ label \in Rescans /\ accepted' = Recorded /\ yy_cp < yy_c_buf_p /\ label' = label
      /\ UNCHANGED <<file, bufferVars, yytext_ptr, yy_start>> /\ yy_c_buf_p' = yy_c_buf_p
      /\ yy_ch_buf' = yy_ch_buf /\ yytext_ptr' = yytext_ptr /\ yy_cp' = yy_cp + 1
      /\ file' = file /\ file_pos' = file_pos
  BY Zenon DEF RescanByte, bufferVars, outputVars
<1>0. yy_current_state' = Transition[yy_current_state, ClassOf(ByteAt(yy_cp))]
  BY Zenon DEF RescanByte
<1>2. Rescanning /\ Scanning /\ accepted.state \in 0 .. Jam - 1
  BY <1>1, Zenon DEF ScanInv, Rescanning
<1>3. yy_c_buf_p' \in 0 .. yy_n_chars
  BY <1>1, Zenon DEF BufferInv
<1>4. BufferInv' /\ Rest' = Rest /\ yy_n_chars' = yy_n_chars
  BY <1>1, <1>3, SameBuffer, Zenon
<1>5. /\ yy_cp \in Nat /\ yytext_ptr \in Nat /\ yytext_ptr <= yy_cp /\ yy_n_chars \in Nat
      /\ yy_n_chars - yytext_ptr <= Size(Rest) /\ Rest \in Seq(Chars) /\ Size(Rest) \in Nat
  <2>1. /\ Size(file) \in Nat /\ file_pos \in Nat /\ file_pos <= Size(file)
        /\ yy_n_chars \in Nat /\ Offset = file_pos - yy_n_chars + yytext_ptr
        /\ yytext_ptr \in Nat /\ Rest \in Seq(Chars) /\ Size(Rest) = Size(file) - Offset
    BY Bytes
  <2> QED
    BY <1>2, <2>1, ScanState, Sizes
<1>6. /\ yy_c_buf_p \in yy_cp .. yy_n_chars
      /\ Alive(First(Rest, yy_c_buf_p - yytext_ptr))
      /\ label = "REALLY_NUL" => yy_c_buf_p < yy_n_chars /\ ByteAt(yy_c_buf_p) = NUL
      /\ label = "LAST_MATCH" =>
           yy_c_buf_p = yy_n_chars /\ yytext_ptr < yy_n_chars /\ file_pos = Size(file)
  BY <1>2, Zenon DEF Rescanning
<1>7. yy_cp < yy_n_chars
  BY <1>1, <1>5, <1>6
<1>8. yy_current_state' = StateOf(First(Rest, yy_cp - yytext_ptr + 1))
  BY <1>0, <1>2, <1>7, ScanStep, Zenon
<1>9. Alive(First(Rest, yy_cp - yytext_ptr + 1))
  <2>1. /\ yy_cp - yytext_ptr + 1 \in Nat /\ yy_c_buf_p - yytext_ptr \in Nat
        /\ yy_cp - yytext_ptr + 1 <= yy_c_buf_p - yytext_ptr
        /\ yy_c_buf_p - yytext_ptr <= Size(Rest)
    BY <1>1, <1>5, <1>6
  <2> QED
    BY <1>5, <1>6, <2>1, AliveBefore
<1>10. yy_current_state' # Jam
  BY <1>8, <1>9, Zenon DEF Alive
<1>11. Scanning'
  BY <1>1, <1>2, <1>4, <1>7, <1>8, <1>10, ScansOn, Zenon
<1>12. yy_c_buf_p' \in yy_cp' .. yy_n_chars'
  BY <1>1, <1>4, <1>5, <1>6
<1>13. ByteAt(yy_c_buf_p)' = ByteAt(yy_c_buf_p)
  BY <1>1, <1>4, Zenon DEF ByteAt
<1>14. Alive(First(Rest, yy_c_buf_p - yytext_ptr))' = Alive(First(Rest, yy_c_buf_p - yytext_ptr))
  BY <1>1, <1>4, Zenon DEF Alive, First
<1>15. Rescanning'
  BY <1>1, <1>4, <1>6, <1>11, <1>12, <1>13, <1>14, Zenon DEF Rescanning, Size
<1>16. accepted'.state \in 0 .. Jam - 1
  BY <1>1, <1>2, RecordedUpTo, Zenon
<1>17. ScanInv'
  BY <1>1, <1>15, <1>16, Zenon DEF ScanInv, Rescans
<1> QED
  BY <1>4, <1>17

\* The end of yy_get_previous_state.
LEMMA ResumeInv ==
  ASSUME BufferInv, ScanInv, Resume
  PROVE  BufferInv' /\ ScanInv' /\ Rest' = Rest
<1>1. /\ UNCHANGED <<file, bufferVars, yytext_ptr, yy_start>> /\ yy_c_buf_p' = yy_c_buf_p
      /\ yy_ch_buf' = yy_ch_buf /\ yytext_ptr' = yytext_ptr /\ yy_cp' = yy_cp
      /\ file' = file /\ file_pos' = file_pos /\ yy_start' = yy_start
      /\ yy_current_state' = yy_current_state /\ accepted' = accepted
      /\ \/ label = "CONTINUE_SCAN" /\ label' = "yy_match"
         \/ label = "LAST_MATCH" /\ label' = "yy_find_action"
      /\ yy_cp = yy_c_buf_p
  BY Zenon DEF Resume, Rescanned, bufferVars, outputVars
<1>2. Rescanning /\ Scanning /\ accepted.state \in 0 .. Jam - 1
  BY <1>1, Zenon DEF ScanInv, Rescanning, Rescans
<1>3. yy_c_buf_p' \in 0 .. yy_n_chars
  BY <1>1, Zenon DEF BufferInv
<1>4. BufferInv' /\ Rest' = Rest /\ yy_n_chars' = yy_n_chars
  BY <1>1, <1>3, SameBuffer, Zenon
<1> SUFFICES ScanInv'
  BY <1>4
<1>5. CASE label = "CONTINUE_SCAN"
  <2>1. label' = "yy_match"
    BY <1>1, <1>5
  <2>2. Scanning'
    BY <1>1, <1>2, <1>4, Zenon DEF Scanning, AcceptedUpTo, StartState
  <2> QED
    BY <1>1, <1>2, <2>1, <2>2, Zenon DEF ScanInv, Rescans
<1>6. CASE label = "LAST_MATCH"
  <2>1. label' = "yy_find_action"
    BY <1>1, <1>6
  <2>2. yy_c_buf_p = yy_n_chars /\ yytext_ptr < yy_n_chars /\ file_pos = Size(file)
    BY <1>2, <1>6, Zenon DEF Rescanning
  <2> DEFINE k == yy_cp - yytext_ptr
  <2>3. /\ k = Size(Rest) /\ k <= Size(Rest) /\ k >= 1 /\ k \in Nat /\ k = yy_n_chars - yytext_ptr
        /\ yy_cp = yytext_ptr + k /\ yy_cp # yytext_ptr /\ Rest \in Seq(Chars)
        /\ yy_cp \in yytext_ptr .. yy_n_chars
    <3>1. /\ Size(file) \in Nat /\ file_pos \in Nat
          /\ yy_n_chars \in Nat /\ Offset = file_pos - yy_n_chars + yytext_ptr
          /\ yytext_ptr \in Nat /\ Rest \in Seq(Chars) /\ Size(Rest) = Size(file) - Offset
      BY Bytes
    <3>2. yy_cp = yy_n_chars
      BY <1>1, <2>2, Zenon
    <3> QED
      BY <2>2, <3>1, <3>2
  <2>4. /\ yy_current_state \in 1 .. Jam - 1
        /\ yy_act = RuleOf(First(Rest, k))
    BY <1>2, <2>3, ScanState
  <2>5. /\ yy_current_state = StateOf(First(Rest, k))
        /\ AcceptedUpTo(k - 1)
    BY <1>2, <2>3 DEF Scanning
  <2> HIDE DEF k
  <2>6. MatchedLength(Rest) = Longest(Rest, k) /\ Longest(Rest, k) <= k
    BY <2>3, LongestEnough, LongestIn, Zenon
  <2>7. Rest # <<>>
    <3>1. Size(Rest) # 0
      BY <2>3
    <3> QED
      BY <2>3, <3>1, Sizes, Zenon
  <2>8. MatchedLength(Rest) <= yy_n_chars - yytext_ptr
    BY <2>3, <2>6
  <2>9. CASE yy_act # 0
    <3>1. RulesFor(First(Rest, k)) # {}
      BY <2>4, <2>9, RuleIn
    <3>2. k \in 1 .. k /\ k + 1 .. k = {}
      BY <2>3
    <3>3. Longest(Rest, k) = k
      BY <2>3, <3>1, <3>2, LongestIs, Zenon
    <3>4. Decided'
      BY <1>1, <1>4, <2>3, <2>5, <2>6, <2>7, <2>8, <3>3, Zenon DEF Decided
    <3> QED
      BY <1>1, <1>2, <2>1, <3>4, Zenon DEF ScanInv, Rescans
  <2>10. CASE yy_act = 0
    <3>1. RulesFor(First(Rest, k)) = {}
      BY <2>4, <2>10, RuleIn
    <3>2. k # 1
      BY <2>3, <3>1, FirstCharacter, Zenon
    <3>3. k - 1 \in Nat /\ 1 <= k - 1 /\ k - 1 < Size(Rest) /\ (k - 1) + 1 = k
      BY <2>3, <3>2
    <3>4. Longest(Rest, k) = Longest(Rest, k - 1)
      BY <2>3, <3>1, <3>3, LongestNext, Zenon
    <3>5. /\ accepted.state = StateOf(First(Rest, Longest(Rest, Size(Rest))))
          /\ accepted.cpos = yytext_ptr + Longest(Rest, Size(Rest))
      BY <2>3, <2>5, <3>3, <3>4, Zenon DEF AcceptedUpTo
    <3>6. AcceptedUpTo(Size(Rest))'
      BY <1>1, <1>4, <3>5, Zenon DEF AcceptedUpTo, Size
    <3>7. yy_act' = 0
      BY <1>1, <2>10, Zenon DEF yy_act
    <3>8. Decided'
      BY <1>1, <1>4, <2>3, <2>4, <2>7, <2>8, <3>6, <3>7, Zenon DEF Decided
    <3> QED
      BY <1>1, <1>2, <2>1, <3>8, Zenon DEF ScanInv, Rescans
  <2> QED
    BY <2>9, <2>10
<1> QED
  BY <1>1, <1>5, <1>6

\* yy_try_NUL_trans.
LEMMA TryNULTransInv ==
  ASSUME BufferInv, ScanInv, TryNULTrans
  PROVE  BufferInv' /\ ScanInv' /\ Rest' = Rest
<1> DEFINE next == Transition[yy_current_state, NULClass]
<1>1. /\ label = "REALLY_NUL" /\ yy_cp = yy_c_buf_p /\ accepted' = Recorded
      /\ UNCHANGED <<file, bufferVars, yytext_ptr, yy_start>> /\ yy_c_buf_p' = yy_c_buf_p
      /\ yytext_ptr' = yytext_ptr
      /\ next # Jam => yy_cp' = yy_cp + 1 /\ yy_current_state' = next /\ label' = "yy_match"
      /\ next = Jam => /\ yy_cp' = accepted'.cpos /\ yy_current_state' = accepted'.state
                       /\ label' = "yy_find_action"
  BY Zenon DEF TryNULTrans, Rescanned, bufferVars, outputVars
<1>2. Rescanning /\ Scanning /\ accepted.state \in 0 .. Jam - 1
  BY <1>1, Zenon DEF ScanInv, Rescanning, Rescans
<1>3. yy_c_buf_p' \in 0 .. yy_n_chars
  BY <1>1, Zenon DEF BufferInv
<1>4. BufferInv' /\ Rest' = Rest /\ yy_n_chars' = yy_n_chars
  BY <1>1, <1>3, SameBuffer, Zenon
<1>5. yy_cp < yy_n_chars /\ ByteAt(yy_cp) = NUL
  BY <1>1, <1>2, Zenon DEF Rescanning
<1>6. NULClass = ClassOf(ByteAt(yy_cp))
  BY <1>5, Zenon DEF ClassOf
<1>7. next = StateOf(First(Rest, yy_cp - yytext_ptr + 1))
  BY <1>2, <1>5, <1>6, ScanStep, Zenon
<1>8. accepted'.state \in 0 .. Jam - 1
  BY <1>1, <1>2, RecordedUpTo, Zenon
<1>9. CASE next # Jam
  <2>1. Scanning'
    BY <1>1, <1>2, <1>4, <1>5, <1>7, <1>9, ScansOn, Zenon
  <2> QED
    BY <1>1, <1>4, <1>8, <1>9, <2>1, Zenon DEF ScanInv, Rescans
<1>10. CASE next = Jam
  <2>1. Decided'
    BY <1>1, <1>2, <1>4, <1>5, <1>7, <1>10, Jams, Zenon
  <2> QED
    BY <1>1, <1>4, <1>8, <1>10, <2>1, Zenon DEF ScanInv, Rescans
<1> QED
  BY <1>9, <1>10

-----------------------------------------------------------------------------
(* What has been found.                                                    *)

\* What three of the rules match.
LEMMA SomeRules ==
  ASSUME NEW text
  PROVE  /\ 1 \in RulesFor(text) => text \in {<<" ">>, <<"\t">>}
         /\ 2 \in RulesFor(text) <=> IsComment(text)
         /\ 82 \in RulesFor(text) => Size(text) = 1
<1> DEFINE blank == text \in {<<" ">>, <<"\t">>}
           comment == IsComment(text)
           name == IsLabel(text)
           short == IsRegister(text, <<"$">>)
           long == IsRegister(text, <<"$", "r">>)
           number == IsNumber(text) \/ IsNegative(text)
           negative == Hexadecimal(text, <<"-", "0", "x">>)
           hexadecimal == Hexadecimal(text, <<"0", "x">>)
           newline == text = <<"\n">>
           single == Len(text) = 1 /\ text # <<"\n">>
           Fixed == {r \in DOMAIN Texts : Texts[r] = text}
<1>1. RulesFor(text) =
        Fixed \cup {r \in {1, 2, 43, 44, 45, 78, 79, 80, 81, 82} :
            CASE r = 1  -> blank
              [] r = 2  -> comment
              [] r = 43 -> name
              [] r = 44 -> short
              [] r = 45 -> long
              [] r = 78 -> number
              [] r = 79 -> negative
              [] r = 80 -> hexadecimal
              [] r = 81 -> newline
              [] OTHER  -> single}
  BY Zenon DEF RulesFor
<1>2. 1 \notin Fixed /\ 2 \notin Fixed /\ 82 \notin Fixed
  <2>1. DOMAIN Texts = (3 .. 42) \cup (46 .. 77)
    BY Zenon DEF Texts
  <2>2. 1 \notin DOMAIN Texts /\ 2 \notin DOMAIN Texts /\ 82 \notin DOMAIN Texts
    BY <2>1
  <2> QED
    BY <2>2, Zenon
<1> HIDE DEF blank, comment, name, short, long, number, negative, hexadecimal, newline, single, Fixed
<1>3. 1 \in RulesFor(text) => blank
  BY <1>1, <1>2
<1>4. 2 \in RulesFor(text) <=> comment
  BY <1>1, <1>2
<1>5. 82 \in RulesFor(text) => single
  BY <1>1, <1>2
<1> QED
  BY <1>3, <1>4, <1>5, Zenon DEF blank, comment, single, Size

\* A comment is matched by rule 2, and nothing else is.
LEMMA CommentRule ==
  ASSUME NEW text \in Seq(Chars), RulesFor(text) # {}
  PROVE  Min(RulesFor(text)) = 2 <=> IsComment(text)
<1> DEFINE least == Min(RulesFor(text))
<1>1. least \in RulesFor(text) /\ \A r \in RulesFor(text) : least <= r
  BY RulesIn, MinChosen, Zenon
<1>2. least \in Nat /\ least <= 82 /\ (least = 0 <=> RulesFor(text) = {})
  BY RuleIn, Zenon DEF RuleOf
<1> HIDE DEF least
<1>3. least = 2 => IsComment(text)
  BY <1>1, SomeRules, Zenon
<1>4. ASSUME IsComment(text) PROVE least = 2
  <2>1. 2 \in RulesFor(text)
    BY <1>4, SomeRules
  <2>2. 1 \notin RulesFor(text)
    <3>1. Size(text) >= 2
      BY <1>4, CommentShape
    <3>2. Size(<<" ">>) = 1 /\ Size(<<"\t">>) = 1
      BY DEF Size
    <3>3. ~(1 >= 2)
      OBVIOUS
    <3> QED
      BY <3>1, <3>2, <3>3, SomeRules, Zenon
  <2>3. least <= 2 /\ least # 1 /\ least # 0
    BY <1>1, <1>2, <2>1, <2>2
  <2> QED
    BY <1>2, <2>3
<1> QED
  BY <1>3, <1>4, Zenon DEF least

\* The token is not empty, and it is a part of the longest match.
LEMMA TokenLengthIn ==
  ASSUME NEW text \in Seq(Chars), text # <<>>
  PROVE  /\ TokenLength(text) \in Nat /\ 1 <= TokenLength(text)
         /\ TokenLength(text) <= MatchedLength(text)
         /\ TokenLength(text) = IF MatchingRule(text) = 2 THEN MatchedLength(text) - 1
                                ELSE MatchedLength(text)
<1> DEFINE M == MatchedLength(text)
           comment == IsComment(First(text, M))
           rule == MatchingRule(text)
<1>1. M \in Nat /\ 1 <= M /\ M <= Size(text) /\ RulesFor(First(text, M)) # {}
  BY MatchedIn
<1>2. First(text, M) \in Seq(Chars) /\ Size(First(text, M)) = M
  BY <1>1, FirstOf
<1>3. TokenLength(text) = IF comment THEN M - 1 ELSE M
  BY Zenon DEF TokenLength, First
<1>4. rule = Min(RulesFor(First(text, M)))
  BY Zenon DEF MatchingRule, First
<1>5. rule = 2 <=> comment
  BY <1>1, <1>2, <1>4, CommentRule, Zenon
<1>6. comment => M >= 2
  <2>1. comment => Size(First(text, M)) >= 2
    BY <1>2, CommentShape
  <2> QED
    BY <1>2, <2>1
<1> HIDE DEF M, comment, rule
<1>7. /\ TokenLength(text) \in Nat /\ 1 <= TokenLength(text) /\ TokenLength(text) <= M
      /\ TokenLength(text) = IF rule = 2 THEN M - 1 ELSE M
  BY <1>1, <1>3, <1>5, <1>6
<1> QED
  BY <1>7, Zenon DEF M, rule

\* The end of the buffer, no rule, or the longest match.
LEMMA Found ==
  ASSUME BufferInv, ScanInv, label = "yy_find_action"
  PROVE  /\ yy_act = YY_END_OF_BUFFER => MetNUL
         /\ yy_act = 0 => /\ Rest # <<>> /\ MatchedLength(Rest) <= yy_n_chars - yytext_ptr
                          /\ AcceptedUpTo(Size(Rest))
         /\ yy_act \notin {0, YY_END_OF_BUFFER} =>
              /\ Rest # <<>> /\ MatchedLength(Rest) <= yy_n_chars - yytext_ptr
              /\ yy_cp = yytext_ptr + MatchedLength(Rest)
              /\ yy_act = MatchingRule(Rest)
<1>1. MetNUL \/ Decided
  BY Zenon DEF ScanInv
<1>2. MetNUL => yy_act = YY_END_OF_BUFFER
  BY EndOfBufferAssumption, Zenon DEF MetNUL, yy_act
<1>3. YY_END_OF_BUFFER # 0 /\ YY_END_OF_BUFFER > 82
  BY DEF YY_END_OF_BUFFER
<1> DEFINE M == MatchedLength(Rest)
           P == First(Rest, M)
<1>4. Decided =>
        /\ Rest # <<>> /\ M <= yy_n_chars - yytext_ptr
        /\ \/ yy_cp = yytext_ptr + M /\ yy_current_state = StateOf(P)
           \/ yy_act = 0 /\ AcceptedUpTo(Size(Rest))
  BY Zenon DEF Decided
<1>5. Rest \in Seq(Chars)
  BY Bytes
<1>6. Rest # <<>> => P \in Seq(Chars) /\ RulesFor(P) # {}
  BY <1>5, MatchedIn, FirstOf
<1>7. Rest # <<>> /\ yy_current_state = StateOf(P) => yy_act = RuleOf(P)
  BY <1>6, StateRules, Zenon DEF yy_act
<1>8. Rest # <<>> => /\ RuleOf(P) = MatchingRule(Rest) /\ RuleOf(P) # 0
                     /\ RuleOf(P) # YY_END_OF_BUFFER
  <2>1. Rest # <<>> => RuleOf(P) = MatchingRule(Rest)
    BY <1>6, Zenon DEF RuleOf, MatchingRule, First
  <2>2. Rest # <<>> => RuleOf(P) # 0 /\ RuleOf(P) \in Nat /\ RuleOf(P) <= 82
    BY <1>6, RuleIn
  <2>3. Rest # <<>> => RuleOf(P) # YY_END_OF_BUFFER
    BY <1>3, <2>2
  <2> QED
    BY <2>1, <2>2, <2>3
<1> HIDE DEF M, P
<1>9. yy_act = YY_END_OF_BUFFER => MetNUL
  BY <1>1, <1>3, <1>4, <1>7, <1>8, Zenon
<1>10. yy_act = 0 => Rest # <<>> /\ M <= yy_n_chars - yytext_ptr /\ AcceptedUpTo(Size(Rest))
  BY <1>1, <1>2, <1>3, <1>4, <1>7, <1>8, Zenon
<1>11. yy_act \notin {0, YY_END_OF_BUFFER} =>
         /\ Rest # <<>> /\ M <= yy_n_chars - yytext_ptr /\ yy_cp = yytext_ptr + M
         /\ yy_act = MatchingRule(Rest)
  BY <1>1, <1>2, <1>4, <1>7, <1>8, Zenon
<1> QED
  BY <1>9, <1>10, <1>11, Zenon DEF M

\* yytext is the token of the rule.
LEMMA Yytext ==
  ASSUME BufferInv, ScanInv, label = "yy_find_action", yy_act \notin {0, YY_END_OF_BUFFER}
  PROVE  /\ Rest # <<>> /\ yy_act = MatchingRule(Rest)
         /\ TokenLength(Rest) \in Nat /\ 1 <= TokenLength(Rest)
         /\ yytext_ptr + TokenLength(Rest) <= yy_n_chars
         /\ TokenLength(Rest) <= Size(Rest)
         /\ EndOfText(yy_act, yy_cp) = yytext_ptr + TokenLength(Rest)
         /\ SubSeq(yy_ch_buf, yytext_ptr + 1, EndOfText(yy_act, yy_cp))
              = First(Rest, TokenLength(Rest))
<1> DEFINE M == MatchedLength(Rest)
           L == TokenLength(Rest)
           T == SubSeq(yy_ch_buf, yytext_ptr + 1, yytext_ptr + L)
<1>1. Rest # <<>> /\ M <= yy_n_chars - yytext_ptr /\ yy_cp = yytext_ptr + M /\ yy_act = MatchingRule(Rest)
  BY Found
<1>2. /\ Rest \in Seq(Chars) /\ yytext_ptr \in Nat /\ yy_n_chars \in Nat
      /\ yy_n_chars = Size(yy_ch_buf) /\ yytext_ptr <= yy_n_chars
  BY Bytes
<1>3. M \in Nat /\ M <= Size(Rest)
  BY <1>1, <1>2, MatchedIn
<1>4. L \in Nat /\ 1 <= L /\ L <= M /\ L = IF yy_act = 2 THEN M - 1 ELSE M
  BY <1>1, <1>2, TokenLengthIn
<1>5. Size(Rest) \in Nat
  BY <1>2, Sizes
<1> HIDE DEF M, L
<1>6. EndOfText(yy_act, yy_cp) = yytext_ptr + L
  BY <1>1, <1>2, <1>3, <1>4 DEF EndOfText
<1>7. yytext_ptr + L <= yy_n_chars /\ L <= Size(Rest)
  BY <1>1, <1>2, <1>3, <1>4, <1>5
<1>8. /\ T \in Seq(Chars) /\ Size(T) = L /\ \A i \in 1 .. L : T[i] = yy_ch_buf[yytext_ptr + i]
  <2>1. /\ yytext_ptr + 1 \in Nat \ {0} /\ yytext_ptr + L \in Nat /\ yytext_ptr + L <= Size(yy_ch_buf)
        /\ yytext_ptr + 1 <= yytext_ptr + L /\ (yytext_ptr + L) - (yytext_ptr + 1) + 1 = L
    BY <1>2, <1>4, <1>7
  <2>2. yy_ch_buf \in Seq(Chars)
    BY Zenon DEF BufferInv
  <2>3. \A i \in 1 .. L : yytext_ptr + 1 + i - 1 = yytext_ptr + i
    BY <1>2, <1>4
  <2> HIDE DEF T
  <2>4. /\ T \in Seq(Chars)
        /\ Size(T) = IF yytext_ptr + 1 <= yytext_ptr + L THEN (yytext_ptr + L) - (yytext_ptr + 1) + 1 ELSE 0
        /\ \A i \in 1 .. (yytext_ptr + L) - (yytext_ptr + 1) + 1 : T[i] = yy_ch_buf[yytext_ptr + 1 + i - 1]
    BY <2>1, <2>2, PartOf DEF T
  <2> QED
    BY <2>1, <2>3, <2>4
<1>9. /\ First(Rest, L) \in Seq(Chars) /\ Size(First(Rest, L)) = L
      /\ \A i \in 1 .. L : First(Rest, L)[i] = Rest[i]
  BY <1>2, <1>4, <1>7, FirstOf
<1> HIDE DEF T
<1>10. \A i \in 1 .. L : yy_ch_buf[yytext_ptr + i] = Rest[i]
  <2>1. SUFFICES ASSUME NEW i \in 1 .. L PROVE yy_ch_buf[yytext_ptr + i] = Rest[i]
    OBVIOUS
  <2>2. i - 1 \in Nat /\ yytext_ptr + (i - 1) < yy_n_chars /\ (i - 1) + 1 = i
        /\ yytext_ptr + (i - 1) + 1 = yytext_ptr + i
    BY <1>2, <1>4, <1>7
  <2> QED
    BY <2>2, Bytes
<1>11. T = First(Rest, L)
  BY <1>8, <1>9, <1>10, SameText
<1> QED
  BY <1>1, <1>4, <1>6, <1>7, <1>11, Zenon DEF T, L

-----------------------------------------------------------------------------
(* yy_find_action.                                                         *)

\* Where a new token begins, the scan is at its first character.
LEMMA BeginsScan ==
  BufferInv /\ yy_cp = yytext_ptr /\ yy_current_state = StartState => Scanning
<1> SUFFICES ASSUME BufferInv, yy_cp = yytext_ptr, yy_current_state = StartState
             PROVE  Scanning
  OBVIOUS
<1>1. /\ yytext_ptr \in Nat /\ yy_n_chars \in Nat /\ yytext_ptr <= yy_n_chars /\ Rest \in Seq(Chars)
  BY Bytes
<1>2. yy_cp - yytext_ptr = 0 /\ yy_cp \in yytext_ptr .. yy_n_chars /\ ~(0 - 1 >= 1)
  BY <1>1
<1>3. Alive(First(Rest, 0))
  BY <1>1, FirstNone, Starts, Zenon
<1> QED
  BY <1>2, <1>3, Zenon DEF Scanning, AcceptedUpTo

\* "Must back up."
LEMMA BackUpInv ==
  ASSUME BufferInv, ScanInv, BackUp
  PROVE  BufferInv' /\ ScanInv' /\ Rest' = Rest
<1>1. /\ label = "yy_find_action" /\ yy_act = 0 /\ label' = label /\ accepted' = accepted
      /\ UNCHANGED <<file, bufferVars, yytext_ptr, yy_start>> /\ yy_c_buf_p' = yy_c_buf_p
      /\ yytext_ptr' = yytext_ptr
      /\ yy_cp' = accepted.cpos /\ yy_current_state' = accepted.state
  BY Zenon DEF BackUp, bufferVars, outputVars
<1>2. yy_c_buf_p' \in 0 .. yy_n_chars /\ accepted.state \in 0 .. Jam - 1
  BY <1>1, Zenon DEF BufferInv, ScanInv
<1>3. BufferInv' /\ Rest' = Rest /\ yy_n_chars' = yy_n_chars
  BY <1>1, <1>2, SameBuffer, Zenon
<1>4. Rest # <<>> /\ MatchedLength(Rest) <= yy_n_chars - yytext_ptr /\ AcceptedUpTo(Size(Rest))
  BY <1>1, Found
<1>5. Rest \in Seq(Chars) /\ Size(Rest) \in Nat /\ Size(Rest) >= 1 /\ Size(Rest) <= Size(Rest)
  <2>1. Rest \in Seq(Chars) /\ Size(Rest) \in Nat /\ Size(Rest) # 0
    BY <1>4, Bytes, Sizes, Zenon
  <2> QED
    BY <2>1
<1>6. /\ accepted.state = StateOf(First(Rest, Longest(Rest, Size(Rest))))
      /\ accepted.cpos = yytext_ptr + Longest(Rest, Size(Rest))
  BY <1>4, <1>5, Zenon DEF AcceptedUpTo
<1>7. MatchedLength(Rest) = Longest(Rest, Size(Rest))
  BY Zenon DEF MatchedLength, Longest, Size
<1>8. Decided'
  BY <1>1, <1>3, <1>4, <1>6, <1>7, Zenon DEF Decided
<1>9. ScanInv'
  BY <1>1, <1>2, <1>8, Zenon DEF ScanInv, Rescans
<1> QED
  BY <1>3, <1>9

\* The actions of the rules.
LEMMA DoActionInv ==
  ASSUME BufferInv, ScanInv, DoAction
  PROVE  /\ BufferInv' /\ ScanInv'
         /\ Offset' = Offset + TokenLength(Rest)
<1> DEFINE L == TokenLength(Rest)
<1>1. /\ label = "yy_find_action" /\ yy_act \notin {0, YY_END_OF_BUFFER}
      /\ file' = file /\ file_pos' = file_pos /\ yy_ch_buf' = yy_ch_buf
      /\ yy_buf_size' = yy_buf_size /\ yy_buffer_status' = yy_buffer_status
      /\ accepted' = accepted /\ yy_start' = yy_start /\ label' = "yy_match"
      /\ yytext_ptr' = EndOfText(yy_act, yy_cp) /\ yy_cp' = EndOfText(yy_act, yy_cp)
      /\ yy_c_buf_p' = EndOfText(yy_act, yy_cp) /\ yy_current_state' = StartState
  BY Zenon DEF DoAction, Begin, bufferVars
<1>2. L \in Nat /\ yytext_ptr + L <= yy_n_chars /\ EndOfText(yy_act, yy_cp) = yytext_ptr + L
  BY <1>1, Yytext
<1>3. /\ yytext_ptr \in Nat /\ yy_n_chars \in Nat /\ file_pos \in Nat /\ yy_n_chars <= file_pos
      /\ Offset = file_pos - yy_n_chars + yytext_ptr
  BY Bytes
<1> HIDE DEF L
<1>4. yy_n_chars' = yy_n_chars
  BY <1>1, Zenon DEF yy_n_chars
<1>5. yytext_ptr' = yytext_ptr + L /\ yytext_ptr' \in 0 .. yy_n_chars /\ yy_c_buf_p' \in 0 .. yy_n_chars
  BY <1>1, <1>2, <1>3
<1>6. Offset' = Offset + L
  <2>1. Offset' = file_pos - yy_n_chars + (yytext_ptr + L)
    BY <1>1, <1>4, <1>5, Zenon DEF Offset
  <2> QED
    BY <1>2, <1>3, <2>1
<1>7. \A k \in yytext_ptr' + 1 .. yy_n_chars : k \in yytext_ptr + 1 .. yy_n_chars
  BY <1>2, <1>3, <1>5
<1>8. BufferInv'
  BY <1>1, <1>4, <1>5, <1>7, Zenon DEF BufferInv
<1>9. StartState' = StartState
  BY <1>1, Zenon DEF StartState
<1>10. Scanning'
  <2>1. (yy_cp = yytext_ptr)' /\ (yy_current_state = StartState)'
    BY <1>1, <1>9, Zenon
  <2> QED
    BY <1>8, <2>1, BeginsScan, PTL
<1>11. accepted'.state \in 0 .. Jam - 1
  BY <1>1, Zenon DEF ScanInv
<1>12. ScanInv'
  BY <1>1, <1>10, <1>11, Zenon DEF ScanInv, Rescans
<1> QED
  BY <1>6, <1>8, <1>12, Zenon DEF L

\* "This was really a NUL."
LEMMA ReallyNULInv ==
  ASSUME BufferInv, ScanInv, ReallyNUL
  PROVE  BufferInv' /\ ScanInv' /\ Rest' = Rest
<1>1. /\ label = "yy_find_action" /\ yy_act = YY_END_OF_BUFFER /\ yy_cp <= yy_n_chars
      /\ UNCHANGED <<file, bufferVars, yytext_ptr, yy_start>>
      /\ yytext_ptr' = yytext_ptr /\ yy_c_buf_p' = yy_cp - 1 /\ yy_cp' = yytext_ptr
      /\ yy_ch_buf' = yy_ch_buf /\ yy_start' = yy_start
      /\ yy_current_state' = StartState /\ label' = "REALLY_NUL" /\ accepted' = accepted
  BY Zenon DEF ReallyNUL, AtEnd, Rescan, bufferVars, outputVars
<1>2. MetNUL
  BY <1>1, Found
<1>3. /\ yy_cp \in yytext_ptr + 1 .. yy_n_chars + 1 /\ ByteAt(yy_cp - 1) = NUL
      /\ Alive(First(Rest, yy_cp - 1 - yytext_ptr))
  BY <1>2, Zenon DEF MetNUL
<1>4. yytext_ptr \in Nat /\ yy_n_chars \in Nat
  BY Bytes
<1>5. yy_cp - 1 \in 0 .. yy_n_chars /\ yy_cp - 1 \in yytext_ptr .. yy_n_chars /\ yy_cp - 1 < yy_n_chars
  BY <1>1, <1>3, <1>4
<1>6. BufferInv' /\ Rest' = Rest /\ yy_n_chars' = yy_n_chars
  BY <1>1, <1>5, SameBuffer, Zenon
<1>7. StartState' = StartState
  BY <1>1, Zenon DEF StartState
<1>8. Scanning'
  <2>1. (yy_cp = yytext_ptr)' /\ (yy_current_state = StartState)'
    BY <1>1, <1>7, Zenon
  <2> QED
    BY <1>6, <2>1, BeginsScan, PTL
<1>9. ByteAt(yy_c_buf_p)' = ByteAt(yy_cp - 1)
  BY <1>1, <1>6, Zenon DEF ByteAt
<1>10. Alive(First(Rest, yy_c_buf_p - yytext_ptr))' = Alive(First(Rest, yy_cp - 1 - yytext_ptr))
  BY <1>1, <1>6, Zenon DEF Alive, First
<1>11. Rescanning'
  BY <1>1, <1>3, <1>5, <1>6, <1>8, <1>9, <1>10, Zenon DEF Rescanning
<1>12. accepted'.state \in 0 .. Jam - 1
  BY <1>1, Zenon DEF ScanInv
<1>13. ScanInv'
  BY <1>1, <1>11, <1>12, Zenon DEF ScanInv, Rescans
<1> QED
  BY <1>6, <1>13

-----------------------------------------------------------------------------
(* yy_get_next_buffer.                                                     *)

\* A size is doubled as often as one likes.
LEMMA DoublingExists ==
  ASSUME NEW size \in Nat, NEW m \in Nat
  PROVE  \E f : f = [n \in 0 .. m |-> IF n = 0 THEN size ELSE 2 * f[n - 1]]
<1> DEFINE T == {k \in Nat : \E f : f = [n \in 0 .. k |-> IF n = 0 THEN size ELSE 2 * f[n - 1]]}
<1>1. 0 \in T
  <2> DEFINE f == [n \in 0 .. 0 |-> size]
  <2>1. f = [n \in 0 .. 0 |-> IF n = 0 THEN size ELSE 2 * f[n - 1]]
    OBVIOUS
  <2> QED
    BY <2>1
<1>2. ASSUME NEW k \in Nat, k \in T PROVE k + 1 \in T
  <2>1. PICK f : f = [n \in 0 .. k |-> IF n = 0 THEN size ELSE 2 * f[n - 1]]
    BY <1>2
  <2> DEFINE g == [n \in 0 .. k + 1 |-> IF n = 0 THEN size ELSE 2 * f[n - 1]]
  <2>2. \A n \in 0 .. k : g[n] = f[n]
    BY <2>1
  <2>3. \A n \in 0 .. k + 1 : n # 0 => n - 1 \in 0 .. k
    OBVIOUS
  <2>4. \A n \in 0 .. k + 1 : g[n] = IF n = 0 THEN size ELSE 2 * g[n - 1]
    BY <2>2, <2>3
  <2>5. g = [n \in 0 .. k + 1 |-> g[n]]
    OBVIOUS
  <2> HIDE DEF g
  <2>6. g = [n \in 0 .. k + 1 |-> IF n = 0 THEN size ELSE 2 * g[n - 1]]
    BY <2>4, <2>5
  <2> QED
    BY <2>6
<1> HIDE DEF T
<1>3. Nat \subseteq T
  BY <1>1, <1>2, Induction
<1> QED
  BY <1>3 DEF T

\* The size that yy_get_next_buffer comes to has room behind the text.
LEMMA GrownIn ==
  ASSUME NEW size \in Nat \ {0}, Size(Moved) \in Nat
  PROVE  Grown(size) \in Nat /\ Grown(size) - Size(Moved) - 1 \in Nat \ {0}
<1> DEFINE K == Size(Moved)
           D == CHOOSE f : f = [n \in 0 .. K + 1 |-> IF n = 0 THEN size ELSE 2 * f[n - 1]]
           T == {D[n] : n \in {m \in DOMAIN D : D[m] - K - 1 > 0}}
<1>1. Grown(size) = Min(T)
  BY Zenon DEF Grown, Size
<1>2. K \in Nat /\ K + 1 \in Nat
  OBVIOUS
<1> HIDE DEF K
<1>3. D = [n \in 0 .. K + 1 |-> IF n = 0 THEN size ELSE 2 * D[n - 1]]
  BY <1>2, DoublingExists, Zenon
<1> HIDE DEF D
<1>4. DOMAIN D = 0 .. K + 1 /\ \A n \in 0 .. K + 1 : D[n] = IF n = 0 THEN size ELSE 2 * D[n - 1]
  BY <1>3
<1> DEFINE G == {n \in Nat : n <= K + 1 => D[n] \in Nat /\ n + 1 <= D[n]}
<1>5. 0 \in G
  BY <1>2, <1>4
<1>6. ASSUME NEW n \in Nat, n \in G PROVE n + 1 \in G
  <2>1. SUFFICES ASSUME n + 1 <= K + 1 PROVE D[n + 1] \in Nat /\ (n + 1) + 1 <= D[n + 1]
    OBVIOUS
  <2>2. D[n] \in Nat /\ n + 1 <= D[n]
    BY <1>2, <1>6, <2>1
  <2>3. n + 1 \in 0 .. K + 1 /\ n + 1 # 0 /\ (n + 1) - 1 = n
    BY <1>2, <2>1
  <2>4. D[n + 1] = 2 * D[n]
    BY <1>4, <2>3
  <2> QED
    BY <2>2, <2>4
<1> HIDE DEF G
<1>7. Nat \subseteq G
  BY <1>5, <1>6, Induction
<1>8. \A n \in 0 .. K + 1 : D[n] \in Nat /\ n + 1 <= D[n]
  BY <1>2, <1>7 DEF G
<1>9. T \in SUBSET Nat
  BY <1>4, <1>8
<1>10. T # {}
  <2>1. K + 1 \in 0 .. K + 1
    BY <1>2
  <2>2. D[K + 1] - K - 1 > 0
    BY <1>2, <1>8, <2>1
  <2>3. D[K + 1] \in T
    BY <1>4, <2>1, <2>2
  <2> QED
    BY <2>3
<1>11. Min(T) \in T
  BY <1>9, <1>10, MinChosen, Zenon
<1>12. PICK n \in 0 .. K + 1 : Min(T) = D[n] /\ D[n] - K - 1 > 0
  BY <1>4, <1>11
<1>13. Min(T) \in Nat /\ Min(T) - K - 1 \in Nat \ {0}
  BY <1>2, <1>8, <1>12
<1> QED
  BY <1>1, <1>13, Zenon DEF K

\* The smaller of two numbers.
LEMMA MinOfTwo ==
  ASSUME NEW a \in Nat, NEW b \in Nat
  PROVE  Min({a, b}) = IF a <= b THEN a ELSE b
<1>1. {a, b} \in SUBSET Nat
  OBVIOUS
<1>2. CASE a <= b
  <2>1. \A y \in {a, b} : a <= y
    BY <1>2
  <2>2. a \in {a, b}
    OBVIOUS
  <2>3. Min({a, b}) = a
    BY <1>1, <2>1, <2>2, MinUnique, Zenon
  <2> QED
    BY <1>2, <2>3
<1>3. CASE ~(a <= b)
  <2>1. \A y \in {a, b} : b <= y
    BY <1>3
  <2>2. b \in {a, b}
    OBVIOUS
  <2>3. Min({a, b}) = b
    BY <1>1, <2>1, <2>2, MinUnique, Zenon
  <2> QED
    BY <1>3, <2>3
<1> QED
  BY <1>2, <1>3

\* The text that moves, and the room behind it.
LEMMA MovedText ==
  ASSUME BufferInv
  PROVE  /\ Moved \in Seq(Chars) /\ Size(Moved) = yy_n_chars - yytext_ptr
         /\ \A i \in 1 .. Size(Moved) : Moved[i] = yy_ch_buf[yytext_ptr + i]
         /\ Grown(yy_buf_size) \in Nat /\ Size(Moved) < Grown(yy_buf_size)
         /\ NumToRead \in Nat /\ 1 <= NumToRead /\ Size(Moved) + NumToRead < Grown(yy_buf_size)
<1>1. /\ yytext_ptr \in Nat /\ yy_n_chars \in Nat /\ yytext_ptr <= yy_n_chars
      /\ yy_n_chars = Size(yy_ch_buf)
  BY Bytes
<1>2. yy_ch_buf \in Seq(Chars) /\ yy_buf_size \in Nat /\ yy_n_chars < yy_buf_size
  BY Zenon DEF BufferInv
<1>3. /\ Moved \in Seq(Chars) /\ Size(Moved) = yy_n_chars - yytext_ptr
      /\ \A i \in 1 .. yy_n_chars - yytext_ptr : Moved[i] = yy_ch_buf[yytext_ptr + i]
  <2>1. yytext_ptr + 1 \in Nat \ {0} /\ yy_n_chars - (yytext_ptr + 1) + 1 = yy_n_chars - yytext_ptr
    BY <1>1
  <2>2. /\ Moved \in Seq(Chars)
        /\ Size(Moved) = IF yytext_ptr + 1 <= yy_n_chars THEN yy_n_chars - (yytext_ptr + 1) + 1 ELSE 0
        /\ \A i \in 1 .. yy_n_chars - (yytext_ptr + 1) + 1 : Moved[i] = yy_ch_buf[yytext_ptr + 1 + i - 1]
    BY <1>1, <1>2, <2>1, FromOf DEF Moved
  <2>3. \A i \in 1 .. yy_n_chars - yytext_ptr : yytext_ptr + 1 + i - 1 = yytext_ptr + i
    BY <1>1
  <2> QED
    BY <1>1, <2>1, <2>2, <2>3
<1>4. Size(Moved) \in Nat /\ yy_buf_size \in Nat \ {0}
  BY <1>1, <1>2, <1>3
<1>5. Grown(yy_buf_size) \in Nat /\ Grown(yy_buf_size) - Size(Moved) - 1 \in Nat \ {0}
  BY <1>4, GrownIn
<1> DEFINE room == Grown(yy_buf_size) - Size(Moved) - 1
<1>6. NumToRead = Min({room, YY_READ_BUF_SIZE})
  BY Zenon DEF NumToRead, Size
<1>7. YY_READ_BUF_SIZE \in Nat /\ YY_READ_BUF_SIZE # 0
  BY BufferAssumption
<1>8. NumToRead = IF room <= YY_READ_BUF_SIZE THEN room ELSE YY_READ_BUF_SIZE
  BY <1>5, <1>6, <1>7, MinOfTwo
<1>9. NumToRead \in Nat /\ 1 <= NumToRead /\ Size(Moved) + NumToRead < Grown(yy_buf_size)
  BY <1>4, <1>5, <1>7, <1>8
<1> QED
  BY <1>3, <1>4, <1>5, <1>9

\* What is read is what comes next in the file, and there is some unless the file
\* ends.
LEMMA InputText ==
  ASSUME BufferInv
  PROVE  /\ Input \in Seq(Chars) /\ Size(Input) <= NumToRead
         /\ file_pos + Size(Input) <= Size(file)
         /\ \A i \in 1 .. Size(Input) : Input[i] = file[file_pos + i]
         /\ Input = <<>> => file_pos = Size(file)
<1>1. /\ Size(file) \in Nat /\ file_pos \in Nat /\ file_pos <= Size(file) /\ file \in Seq(Chars)
  BY Bytes, Zenon DEF BufferInv
<1>2. NumToRead \in Nat /\ 1 <= NumToRead
  BY MovedText
<1> DEFINE end == Min({file_pos + NumToRead, Size(file)})
<1>3. end = IF file_pos + NumToRead <= Size(file) THEN file_pos + NumToRead ELSE Size(file)
  BY <1>1, <1>2, MinOfTwo
<1>4. Input = SubSeq(file, file_pos + 1, end)
  BY Zenon DEF Input, Size
<1> HIDE DEF end
<1>5. /\ end \in Nat /\ file_pos <= end /\ end <= Size(file) /\ end - file_pos <= NumToRead
      /\ end = file_pos => file_pos = Size(file)
  BY <1>1, <1>2, <1>3
<1>6. file_pos + 1 \in Nat \ {0} /\ end - (file_pos + 1) + 1 = end - file_pos
  BY <1>1, <1>5
<1>7. /\ Input \in Seq(Chars)
      /\ Size(Input) = IF file_pos + 1 <= end THEN end - (file_pos + 1) + 1 ELSE 0
      /\ \A i \in 1 .. end - (file_pos + 1) + 1 : Input[i] = file[file_pos + 1 + i - 1]
  BY <1>1, <1>4, <1>5, <1>6, PartOf
<1>8. Size(Input) = end - file_pos
  BY <1>1, <1>5, <1>7
<1>9. \A i \in 1 .. Size(Input) : Input[i] = file[file_pos + i]
  <2>1. \A i \in 1 .. Size(Input) : file_pos + 1 + i - 1 = file_pos + i
    BY <1>1, <1>5, <1>8
  <2> QED
    BY <1>6, <1>7, <1>8, <2>1
<1>10. Input = <<>> => file_pos = Size(file)
  <2>1. Input = <<>> => Size(Input) = 0
    BY <1>7, Sizes, Zenon
  <2>2. Size(Input) = 0 => file_pos = Size(file)
    BY <1>1, <1>5, <1>8
  <2> QED
    BY <2>1, <2>2
<1> QED
  BY <1>1, <1>5, <1>7, <1>8, <1>9, <1>10

\* The end of the buffer has been met behind its last byte.
LEMMA AtLastByte ==
  ASSUME BufferInv, ScanInv, NextBuffer
  PROVE  /\ Alive(First(Rest, yy_n_chars - yytext_ptr))
         /\ NothingRead => file_pos = Size(file)
         /\ GrownBufSize \in Nat /\ Size(Moved) < GrownBufSize
         /\ ~NothingRead => Size(Moved) + Size(Input) < GrownBufSize
<1>1. label = "yy_find_action" /\ yy_act = YY_END_OF_BUFFER /\ yy_cp > yy_n_chars
  BY Zenon DEF NextBuffer, AtEnd
<1>2. MetNUL
  BY <1>1, Found
<1>3. yy_cp \in yytext_ptr + 1 .. yy_n_chars + 1 /\ Alive(First(Rest, yy_cp - 1 - yytext_ptr))
  BY <1>2, Zenon DEF MetNUL
<1>4. yytext_ptr \in Nat /\ yy_n_chars \in Nat /\ yytext_ptr <= yy_n_chars
  BY Bytes
<1>5. yy_cp - 1 - yytext_ptr = yy_n_chars - yytext_ptr
  BY <1>1, <1>3, <1>4
<1>6. NothingRead => file_pos = Size(file)
  <2>1. yy_buffer_status = "EOF_PENDING" => file_pos = Size(file)
    BY Zenon DEF BufferInv
  <2>2. Input = <<>> => file_pos = Size(file)
    BY InputText
  <2> QED
    BY <2>1, <2>2, Zenon DEF NothingRead
<1>7. /\ Size(Moved) = yy_n_chars - yytext_ptr
      /\ Grown(yy_buf_size) \in Nat /\ Size(Moved) < Grown(yy_buf_size)
      /\ Size(Moved) + NumToRead < Grown(yy_buf_size) /\ NumToRead \in Nat
  BY MovedText
<1>8. yy_buf_size \in Nat /\ yy_n_chars < yy_buf_size
  BY Zenon DEF BufferInv
<1>9. GrownBufSize \in {yy_buf_size, Grown(yy_buf_size)}
  BY DEF GrownBufSize
<1>10. ~NothingRead => GrownBufSize = Grown(yy_buf_size)
  BY Zenon DEF GrownBufSize, NothingRead
<1>11. Size(Input) \in Nat /\ Size(Input) <= NumToRead
  BY InputText, Sizes
<1>12. GrownBufSize \in Nat /\ Size(Moved) < GrownBufSize
  BY <1>4, <1>7, <1>8, <1>9
<1>13. ~NothingRead => Size(Moved) + Size(Input) < GrownBufSize
  BY <1>4, <1>7, <1>10, <1>11
<1> QED
  BY <1>3, <1>5, <1>6, <1>12, <1>13

\* More of the file is read.
LEMMA ContinueScanInv ==
  ASSUME BufferInv, ScanInv, ContinueScan
  PROVE  BufferInv' /\ ScanInv' /\ Rest' = Rest /\ Offset' = Offset
<1>1. /\ NextBuffer /\ ~NothingRead /\ file' = file
      /\ yy_ch_buf' = Moved \o Input /\ yy_buf_size' = GrownBufSize /\ yy_buffer_status' = "NORMAL"
      /\ yytext_ptr' = 0 /\ yy_c_buf_p' = Len(Moved) /\ yy_cp' = yytext_ptr'
      /\ yy_current_state' = StartState /\ label' = "CONTINUE_SCAN" /\ accepted' = accepted
      /\ yy_start' = yy_start /\ file_pos' = file_pos + Len(Input)
  BY Zenon DEF ContinueScan, Rescan, outputVars
<1>2. /\ Moved \in Seq(Chars) /\ Size(Moved) = yy_n_chars - yytext_ptr
      /\ \A i \in 1 .. Size(Moved) : Moved[i] = yy_ch_buf[yytext_ptr + i]
  BY MovedText
<1>3. /\ Input \in Seq(Chars) /\ file_pos + Size(Input) <= Size(file)
      /\ \A i \in 1 .. Size(Input) : Input[i] = file[file_pos + i]
      /\ Input = <<>> => file_pos = Size(file)
  BY InputText
<1>4. /\ GrownBufSize \in Nat /\ Size(Moved) + Size(Input) < GrownBufSize
      /\ Alive(First(Rest, yy_n_chars - yytext_ptr))
  BY <1>1, AtLastByte
<1>5. /\ yytext_ptr \in Nat /\ yy_n_chars \in Nat /\ yytext_ptr <= yy_n_chars /\ file_pos \in Nat
      /\ yy_n_chars <= file_pos /\ Offset = file_pos - yy_n_chars + yytext_ptr
      /\ Size(file) \in Nat
  BY Bytes
<1>6. Size(Input) \in Nat /\ Size(Moved) \in Nat
  BY <1>2, <1>3, Sizes
<1> DEFINE new == Moved \o Input
<1>7. /\ new \in Seq(Chars) /\ Size(new) = Size(Moved) + Size(Input)
      /\ \A i \in 1 .. Size(Moved) + Size(Input) :
           new[i] = IF i <= Size(Moved) THEN Moved[i] ELSE Input[i - Size(Moved)]
  <2>1. /\ new \in Seq(Chars) /\ Len(new) = Len(Moved) + Len(Input)
        /\ \A i \in 1 .. Len(Moved) + Len(Input) :
             new[i] = IF i <= Len(Moved) THEN Moved[i] ELSE Input[i - Len(Moved)]
    BY <1>2, <1>3, ConcatProperties
  <2> QED
    BY <2>1, Zenon DEF Size
<1> HIDE DEF new
<1>8. /\ yy_ch_buf' = new /\ file_pos' = file_pos + Size(Input) /\ yy_c_buf_p' = Size(Moved)
  BY <1>1, Zenon DEF new, Size
<1>9. yy_n_chars' = Size(new)
  BY <1>8, Zenon DEF yy_n_chars, Size
<1>10. Offset' = Offset
  <2>1. Offset' = (file_pos + Size(Input)) - Size(new) + 0
    BY <1>1, <1>8, <1>9, Zenon DEF Offset
  <2> QED
    BY <1>2, <1>5, <1>6, <1>7, <2>1
<1>11. Rest' = Rest
  BY <1>1, <1>10, Zenon DEF Rest
<1>12. BufferInv'
  <2>1. file' \in Seq(Chars) /\ file_pos' \in 0 .. Size(file')
    <3>1. file \in Seq(Chars)
      BY Zenon DEF BufferInv
    <3>2. file_pos + Size(Input) \in 0 .. Size(file)
      BY <1>3, <1>5, <1>6
    <3> QED
      BY <1>1, <1>8, <3>1, <3>2, Zenon
  <2>2. yy_ch_buf' \in Seq(Chars) /\ yy_n_chars' <= file_pos'
    BY <1>2, <1>5, <1>6, <1>7, <1>8, <1>9
  <2>3. yytext_ptr' \in 0 .. yy_n_chars' /\ yy_c_buf_p' \in 0 .. yy_n_chars'
    BY <1>1, <1>6, <1>7, <1>8, <1>9
  <2>4. ASSUME NEW k \in yytext_ptr' + 1 .. yy_n_chars'
        PROVE  yy_ch_buf'[k] = file'[file_pos' - yy_n_chars' + k]
    <3>1. k \in 1 .. Size(Moved) + Size(Input) /\ k \in Nat
      BY <1>1, <1>6, <1>7, <1>9
    <3>2. file_pos' - yy_n_chars' + k = Offset + k
      BY <1>2, <1>5, <1>6, <1>7, <1>8, <1>9, <3>1
    <3>3. file'[file_pos' - yy_n_chars' + k] = file[Offset + k]
      BY <1>1, <3>2, Zenon
    <3>4. CASE k <= Size(Moved)
      <4>1. k \in 1 .. Size(Moved)
        BY <3>1, <3>4
      <4>2. new[k] = yy_ch_buf[yytext_ptr + k]
        BY <1>2, <1>7, <3>1, <3>4, <4>1
      <4>3. yytext_ptr + k \in yytext_ptr + 1 .. yy_n_chars
             /\ file_pos - yy_n_chars + (yytext_ptr + k) = Offset + k
        BY <1>2, <1>5, <4>1
      <4>4. yy_ch_buf[yytext_ptr + k] = file[file_pos - yy_n_chars + (yytext_ptr + k)]
        BY <4>3, Zenon DEF BufferInv
      <4> QED
        BY <1>8, <3>3, <4>2, <4>3, <4>4
    <3>5. CASE ~(k <= Size(Moved))
      <4>1. k - Size(Moved) \in 1 .. Size(Input)
        BY <1>6, <3>1, <3>5
      <4>2. new[k] = Input[k - Size(Moved)]
        BY <1>7, <3>1, <3>5
      <4>3. Input[k - Size(Moved)] = file[file_pos + (k - Size(Moved))]
        BY <1>3, <4>1
      <4>4. file_pos + (k - Size(Moved)) = Offset + k
        BY <1>2, <1>5, <3>1
      <4> QED
        BY <1>8, <3>3, <4>2, <4>3, <4>4
    <3> QED
      BY <3>4, <3>5
  <2>5. yy_buf_size' \in Nat /\ yy_n_chars' < yy_buf_size'
    BY <1>1, <1>4, <1>7, <1>9
  <2>6. yy_buffer_status' = "NORMAL" /\ "NORMAL" # "EOF_PENDING"
    BY <1>1
  <2>7. yy_start' # "READ_EOF_ONCE" /\ yy_start' \in {"INITIAL", "READ_EOF_ONCE"}
    <3>1. Input # <<>> => file_pos # Size(file)
      <4>1. Input # <<>> => Size(Input) # 0
        BY <1>3, Sizes, Zenon
      <4> QED
        BY <1>3, <1>5, <1>6, <4>1
    <3>2. Input # <<>>
      BY <1>1, Zenon DEF NothingRead
    <3> QED
      BY <1>1, <3>1, <3>2, Zenon DEF BufferInv
  <2> QED
    BY <2>1, <2>2, <2>3, <2>4, <2>5, <2>6, <2>7, Zenon DEF BufferInv
<1>13. Scanning'
  <2>1. StartState' = StartState
    BY <1>1, Zenon DEF StartState
  <2>2. (yy_cp = yytext_ptr)' /\ (yy_current_state = StartState)'
    BY <1>1, <2>1, Zenon
  <2> QED
    BY <1>12, <2>2, BeginsScan, PTL
<1>14. Rescanning'
  <2>1. yy_c_buf_p' \in yy_cp' .. yy_n_chars'
    BY <1>1, <1>6, <1>7, <1>8, <1>9
  <2>2. yy_c_buf_p' - yytext_ptr' = yy_n_chars - yytext_ptr
    BY <1>1, <1>2, <1>6, <1>8
  <2>3. Alive(First(Rest, yy_c_buf_p - yytext_ptr))'
    BY <1>4, <1>11, <2>2, Zenon DEF Alive, First
  <2>4. label' # "REALLY_NUL" /\ label' # "LAST_MATCH"
    BY <1>1
  <2> QED
    BY <1>13, <2>1, <2>3, <2>4, Zenon DEF Rescanning
<1>15. accepted'.state \in 0 .. Jam - 1
  BY <1>1, Zenon DEF ScanInv
<1>16. ScanInv'
  BY <1>1, <1>14, <1>15, Zenon DEF ScanInv, Rescans
<1> QED
  BY <1>10, <1>11, <1>12, <1>16

\* The file ends behind the text.
LEMMA LastMatchInv ==
  ASSUME BufferInv, ScanInv, LastMatch
  PROVE  BufferInv' /\ ScanInv' /\ Rest' = Rest /\ Offset' = Offset
<1>1. /\ NextBuffer /\ NothingRead /\ Moved # <<>> /\ file' = file /\ file_pos' = file_pos
      /\ yy_ch_buf' = Moved /\ yy_buf_size' = GrownBufSize /\ yy_buffer_status' = "EOF_PENDING"
      /\ yytext_ptr' = 0 /\ yy_c_buf_p' = Len(Moved) /\ yy_cp' = yytext_ptr'
      /\ yy_current_state' = StartState /\ label' = "LAST_MATCH" /\ accepted' = accepted
      /\ yy_start' = yy_start
  BY Zenon DEF LastMatch, Rescan, outputVars
<1>2. /\ Moved \in Seq(Chars) /\ Size(Moved) = yy_n_chars - yytext_ptr
      /\ \A i \in 1 .. Size(Moved) : Moved[i] = yy_ch_buf[yytext_ptr + i]
  BY MovedText
<1>3. /\ GrownBufSize \in Nat /\ Size(Moved) < GrownBufSize /\ file_pos = Size(file)
      /\ Alive(First(Rest, yy_n_chars - yytext_ptr))
  BY <1>1, AtLastByte
<1>4. /\ yytext_ptr \in Nat /\ yy_n_chars \in Nat /\ yytext_ptr <= yy_n_chars /\ file_pos \in Nat
      /\ yy_n_chars <= file_pos /\ Offset = file_pos - yy_n_chars + yytext_ptr
      /\ Size(file) \in Nat /\ yy_n_chars = Size(yy_ch_buf)
  BY Bytes
<1>5. Size(Moved) \in Nat /\ Size(Moved) # 0
  BY <1>1, <1>2, Sizes, Zenon
<1>6. yy_c_buf_p' = Size(Moved) /\ yy_n_chars' = Size(Moved)
  BY <1>1, Zenon DEF yy_n_chars, Size
<1>7. Offset' = Offset
  <2>1. Offset' = file_pos - Size(Moved) + 0
    BY <1>1, <1>6, Zenon DEF Offset
  <2> QED
    BY <1>2, <1>4, <1>5, <2>1
<1>8. Rest' = Rest
  BY <1>1, <1>7, Zenon DEF Rest
<1>9. BufferInv'
  <2>1. file' \in Seq(Chars) /\ file_pos' \in 0 .. Size(file')
    BY <1>1, Zenon DEF BufferInv
  <2>2. yy_ch_buf' \in Seq(Chars) /\ yy_n_chars' <= file_pos'
    BY <1>1, <1>2, <1>4, <1>6
  <2>3. yytext_ptr' \in 0 .. yy_n_chars' /\ yy_c_buf_p' \in 0 .. yy_n_chars'
    BY <1>1, <1>5, <1>6
  <2>4. ASSUME NEW k \in yytext_ptr' + 1 .. yy_n_chars'
        PROVE  yy_ch_buf'[k] = file'[file_pos' - yy_n_chars' + k]
    <3>1. k \in 1 .. Size(Moved) /\ k \in Nat
      BY <1>1, <1>5, <1>6
    <3>2. yytext_ptr + k \in yytext_ptr + 1 .. yy_n_chars
          /\ file_pos - yy_n_chars + (yytext_ptr + k) = file_pos - Size(Moved) + k
      BY <1>2, <1>4, <3>1
    <3>3. yy_ch_buf[yytext_ptr + k] = file[file_pos - yy_n_chars + (yytext_ptr + k)]
      BY <3>2, Zenon DEF BufferInv
    <3>4. Moved[k] = file[file_pos - Size(Moved) + k]
      BY <1>2, <3>1, <3>2, <3>3
    <3> QED
      BY <1>1, <1>6, <3>4, Zenon
  <2>5. yy_buf_size' \in Nat /\ yy_n_chars' < yy_buf_size'
    BY <1>1, <1>3, <1>6
  <2>6. yy_buffer_status' = "EOF_PENDING" /\ file_pos' = Size(file')
    BY <1>1, <1>3
  <2>7. yy_start' # "READ_EOF_ONCE" /\ yy_start' \in {"INITIAL", "READ_EOF_ONCE"}
    <3>1. Size(yy_ch_buf) # 0
      BY <1>2, <1>4, <1>5
    <3>2. yy_ch_buf # <<>>
      <4>1. yy_ch_buf \in Seq(Chars)
        BY Zenon DEF BufferInv
      <4> QED
        BY <3>1, <4>1, Sizes, Zenon
    <3> QED
      BY <1>1, <3>2, Zenon DEF BufferInv
  <2> QED
    BY <2>1, <2>2, <2>3, <2>4, <2>5, <2>6, <2>7, Zenon DEF BufferInv
<1>10. Scanning'
  <2>1. StartState' = StartState
    BY <1>1, Zenon DEF StartState
  <2>2. (yy_cp = yytext_ptr)' /\ (yy_current_state = StartState)'
    BY <1>1, <2>1, Zenon
  <2> QED
    BY <1>9, <2>2, BeginsScan, PTL
<1>11. Rescanning'
  <2>1. yy_c_buf_p' \in yy_cp' .. yy_n_chars' /\ yytext_ptr' < yy_n_chars'
    BY <1>1, <1>5, <1>6
  <2>2. yy_c_buf_p' - yytext_ptr' = yy_n_chars - yytext_ptr
    BY <1>1, <1>2, <1>5, <1>6
  <2>3. Alive(First(Rest, yy_c_buf_p - yytext_ptr))'
    BY <1>3, <1>8, <2>2, Zenon DEF Alive, First
  <2>4. label' # "REALLY_NUL"
    BY <1>1
  <2>5. file_pos' = Size(file')
    BY <1>1, <1>3
  <2> QED
    BY <1>6, <1>10, <2>1, <2>3, <2>4, <2>5, Zenon DEF Rescanning
<1>12. accepted'.state \in 0 .. Jam - 1
  BY <1>1, Zenon DEF ScanInv
<1>13. ScanInv'
  BY <1>1, <1>11, <1>12, Zenon DEF ScanInv, Rescans
<1> QED
  BY <1>7, <1>8, <1>9, <1>13

\* The file ends where the token would begin.
LEMMA EndOfFileInv ==
  ASSUME BufferInv, ScanInv, EndOfFile
  PROVE  BufferInv' /\ ScanInv' /\ Rest' = Rest /\ Rest = <<>> /\ Offset' = Offset
<1>1. /\ NextBuffer /\ NothingRead /\ Moved = <<>> /\ file' = file /\ file_pos' = file_pos
      /\ yy_ch_buf' = <<>> /\ yy_buf_size' = GrownBufSize /\ yy_buffer_status' = "NEW"
      /\ yytext_ptr' = 0 /\ yy_cp' = 0 /\ yy_c_buf_p' = 0 /\ label' = "yy_match"
      /\ yy_start' = NextStart /\ yy_current_state' = StartState' /\ accepted' = accepted
  BY Zenon DEF EndOfFile, Begin
<1>2. Moved \in Seq(Chars) /\ Size(Moved) = yy_n_chars - yytext_ptr
  BY MovedText
<1>3. GrownBufSize \in Nat /\ Size(Moved) < GrownBufSize /\ file_pos = Size(file)
  BY <1>1, AtLastByte
<1>4. /\ yytext_ptr \in Nat /\ yy_n_chars \in Nat /\ file_pos \in Nat
      /\ Offset = file_pos - yy_n_chars + yytext_ptr
      /\ Size(file) \in Nat /\ Rest \in Seq(Chars) /\ Size(Rest) = Size(file) - Offset
  BY Bytes
<1>5. Size(Moved) = 0
  BY <1>1, <1>2, Sizes, Zenon
<1>6. /\ <<>> \in Seq(Chars) /\ Size(<<>>) = 0
  <2>1. <<>> \in Seq(Chars)
    OBVIOUS
  <2> QED
    BY <2>1, Sizes, Zenon
<1>7. yy_n_chars' = 0
  BY <1>1, <1>6, Zenon DEF yy_n_chars, Size
<1>8. Offset' = Offset
  <2>1. Offset' = file_pos - 0 + 0
    BY <1>1, <1>7, Zenon DEF Offset
  <2> QED
    BY <1>2, <1>4, <1>5, <2>1
<1>9. Rest = <<>>
  <2>1. Size(Rest) = 0
    BY <1>2, <1>3, <1>4, <1>5
  <2> QED
    BY <1>4, <2>1, Sizes, Zenon
<1>10. Rest' = Rest
  BY <1>1, <1>8, Zenon DEF Rest
<1>11. BufferInv'
  <2>1. file' \in Seq(Chars) /\ file_pos' \in 0 .. Size(file')
    BY <1>1, Zenon DEF BufferInv
  <2>2. yy_ch_buf' \in Seq(Chars) /\ yy_n_chars' <= file_pos'
    BY <1>1, <1>4, <1>6, <1>7
  <2>3. yytext_ptr' \in 0 .. yy_n_chars' /\ yy_c_buf_p' \in 0 .. yy_n_chars'
    BY <1>1, <1>7
  <2>4. yytext_ptr' + 1 .. yy_n_chars' = {}
    BY <1>1, <1>7
  <2>5. yy_buf_size' \in Nat /\ yy_n_chars' < yy_buf_size'
    BY <1>1, <1>3, <1>5, <1>7
  <2>6. yy_buffer_status' = "NEW" /\ "NEW" # "EOF_PENDING" /\ file_pos' = Size(file')
    BY <1>1, <1>3
  <2>7. yy_start' \in {"INITIAL", "READ_EOF_ONCE"}
    BY <1>1 DEF NextStart
  <2> QED
    BY <1>1, <2>1, <2>2, <2>3, <2>4, <2>5, <2>6, <2>7, Zenon DEF BufferInv
<1>12. Scanning'
  <2>1. (yy_cp = yytext_ptr)' /\ (yy_current_state = StartState)'
    BY <1>1, Zenon
  <2> QED
    BY <1>11, <2>1, BeginsScan, PTL
<1>13. accepted'.state \in 0 .. Jam - 1
  BY <1>1, Zenon DEF ScanInv
<1>14. ScanInv'
  BY <1>1, <1>12, <1>13, Zenon DEF ScanInv, Rescans
<1> QED
  BY <1>8, <1>9, <1>10, <1>11, <1>14

-----------------------------------------------------------------------------
(* The invariant.                                                          *)

\* The inductive invariant.
LexerInv == BufferInv /\ ScanInv

\* Nothing has been read yet.
LEMMA InitInv == Init => LexerInv
<1> SUFFICES ASSUME Init PROVE LexerInv
  OBVIOUS
<1>1. /\ file \in Files /\ file_pos = 0 /\ yy_ch_buf = <<>> /\ yy_buf_size = YY_BUF_SIZE
      /\ yy_buffer_status = "NEW" /\ yytext_ptr = 0 /\ yy_c_buf_p = 0 /\ yy_cp = 0
      /\ yy_current_state = 1 /\ accepted = [state |-> 0, cpos |-> 0]
      /\ label = "yy_match" /\ yy_start = "INITIAL"
  BY Zenon DEF Init
<1>2. file \in Seq(Chars) /\ <<>> \in Seq(Chars)
  BY <1>1, FilesAssumption
<1>3. Size(file) \in Nat
  BY <1>2, Sizes
<1>4. yy_n_chars = 0
  <2>1. Size(<<>>) = 0
    BY <1>2, Sizes, Zenon
  <2> QED
    BY <1>1, <2>1, Zenon DEF yy_n_chars, Size
<1>5. YY_BUF_SIZE \in Nat /\ 0 < YY_BUF_SIZE
  BY BufferAssumption
<1>6. /\ 0 \in 0 .. Size(file) /\ 0 \in 0 .. 0 /\ 0 + 1 .. 0 = {} /\ 0 <= 0
      /\ 0 \in 0 .. Jam - 1
  BY <1>3 DEF Jam
<1>7. BufferInv
  BY <1>1, <1>2, <1>4, <1>5, <1>6, Zenon DEF BufferInv
<1>8. Scanning
  <2>1. StartState = 1
    BY <1>1, Zenon DEF StartState
  <2> QED
    BY <1>1, <1>7, <2>1, BeginsScan, Zenon
<1>9. accepted.state = 0
  BY <1>1
<1>10. ScanInv
  BY <1>1, <1>6, <1>8, <1>9, Zenon DEF ScanInv, Rescans
<1> QED
  BY <1>7, <1>10 DEF LexerInv

\* Every step keeps it.
LEMMA NextInv == LexerInv /\ [Next]_vars => LexerInv'
<1> SUFFICES ASSUME BufferInv, ScanInv, [Next]_vars PROVE BufferInv' /\ ScanInv'
  BY DEF LexerInv
<1>1. CASE MatchByte
  BY <1>1, MatchByteInv, Zenon
<1>2. CASE RescanByte
  BY <1>2, RescanByteInv, Zenon
<1>3. CASE Resume
  BY <1>3, ResumeInv, Zenon
<1>4. CASE TryNULTrans
  BY <1>4, TryNULTransInv, Zenon
<1>5. CASE BackUp
  BY <1>5, BackUpInv, Zenon
<1>6. CASE DoAction
  BY <1>6, DoActionInv, Zenon
<1>7. CASE ReallyNUL
  BY <1>7, ReallyNULInv, Zenon
<1>8. CASE ContinueScan
  BY <1>8, ContinueScanInv, Zenon
<1>9. CASE LastMatch
  BY <1>9, LastMatchInv, Zenon
<1>10. CASE EndOfFile
  BY <1>10, EndOfFileInv, Zenon
<1>11. CASE UNCHANGED vars
  <2>1. /\ UNCHANGED <<file, bufferVars, yytext_ptr, yy_start>> /\ yy_c_buf_p' = yy_c_buf_p
        /\ yy_cp' = yy_cp /\ yy_current_state' = yy_current_state /\ accepted' = accepted
        /\ label' = label /\ yytext_ptr' = yytext_ptr /\ yy_ch_buf' = yy_ch_buf
        /\ file' = file /\ file_pos' = file_pos /\ yy_start' = yy_start
    BY <1>11, Zenon DEF vars, bufferVars, scanVars, outputVars
  <2>2. yy_c_buf_p' \in 0 .. yy_n_chars
    BY <2>1, Zenon DEF BufferInv
  <2>3. BufferInv' /\ Rest' = Rest /\ yy_n_chars' = yy_n_chars
    BY <2>1, <2>2, SameBuffer, Zenon
  <2>4. Scanning' <=> Scanning
    BY <2>1, <2>3, Zenon DEF Scanning, AcceptedUpTo, StartState
  <2>5. MetNUL' <=> MetNUL
    BY <2>1, <2>3, Zenon DEF MetNUL, ByteAt
  <2>6. Decided' <=> Decided
    BY <2>1, <2>3, Zenon DEF Decided, AcceptedUpTo, yy_act, Size
  <2>7. Rescanning' <=> Rescanning
    BY <2>1, <2>3, <2>4, Zenon DEF Rescanning, ByteAt, Size
  <2> QED
    BY <2>1, <2>3, <2>4, <2>5, <2>6, <2>7, Zenon DEF ScanInv, Rescans
<1> QED
  BY <1>1, <1>2, <1>3, <1>4, <1>5, <1>6, <1>7, <1>8, <1>9, <1>10, <1>11, Zenon DEF Next

\* What the lexer knows at every moment: the buffer holds what the file holds, and
\* the state of the automaton is that of the text it is behind.
THEOREM Invariance == Spec => []LexerInv
BY InitInv, NextInv, PTL DEF Spec

\* Whatever the size of the buffer and of what is read at once, what the buffer
\* holds from the present token on is what the file holds there.
THEOREM NothingIsLost == Spec => []NothingLost
<1>1. LexerInv => NothingLost
  <2> SUFFICES ASSUME BufferInv PROVE NothingLost
    BY DEF LexerInv
  <2>1. /\ Size(file) \in Nat /\ file_pos \in Nat /\ file_pos <= Size(file)
        /\ yy_n_chars \in Nat /\ yytext_ptr \in Nat /\ yytext_ptr <= yy_n_chars
        /\ yy_n_chars <= file_pos
        /\ Offset \in Nat /\ Offset = file_pos - yy_n_chars + yytext_ptr
    BY Bytes
  <2>2. file \in Seq(Chars)
    BY Zenon DEF BufferInv
  <2>3. /\ Moved \in Seq(Chars) /\ Size(Moved) = yy_n_chars - yytext_ptr
        /\ \A i \in 1 .. Size(Moved) : Moved[i] = yy_ch_buf[yytext_ptr + i]
    BY MovedText
  <2> DEFINE m == Offset + 1
             read == SubSeq(file, m, file_pos)
  <2> HIDE DEF read
  <2>4. /\ read \in Seq(Chars)
        /\ Size(read) = IF m <= file_pos THEN file_pos - m + 1 ELSE 0
        /\ \A i \in 1 .. file_pos - m + 1 : read[i] = file[m + i - 1]
    <3>1. m \in Nat \ {0} /\ file_pos \in Nat /\ file_pos <= Size(file)
      BY <2>1
    <3> HIDE DEF m
    <3> QED
      BY <2>2, <3>1, PartOf DEF read
  <2>5. Size(read) = yy_n_chars - yytext_ptr
    BY <2>1, <2>4
  <2>6. ASSUME NEW i \in 1 .. Size(Moved) PROVE Moved[i] = read[i]
    <3>1. i \in 1 .. file_pos - (Offset + 1) + 1 /\ Offset + 1 + i - 1 = file_pos - yy_n_chars + (yytext_ptr + i)
      BY <2>1, <2>3
    <3>2. yytext_ptr + i \in yytext_ptr + 1 .. yy_n_chars
      BY <2>1, <2>3
    <3>3. yy_ch_buf[yytext_ptr + i] = file[file_pos - yy_n_chars + (yytext_ptr + i)]
      BY <3>2, Zenon DEF BufferInv
    <3> QED
      BY <2>3, <2>4, <3>1, <3>3
  <2>7. Moved = read
    BY <2>3, <2>4, <2>5, <2>6, SameText
  <2> QED
    BY <2>7, Zenon DEF NothingLost, Moved, read
<1> QED
  BY <1>1, Invariance, PTL

-----------------------------------------------------------------------------
(* The token stream.                                                       *)

\* What is left of the file is the same on both levels.
LEMMA SameRest == Stream!Rest = Rest
BY Zenon DEF Stream!Rest, Rest, From

\* The initial states are those of the token stream.
LEMMA StreamInit == Init => Stream!Init
<1> SUFFICES ASSUME Init PROVE Stream!Init
  OBVIOUS
<1>1. file \in Files /\ file_pos = 0 /\ yy_ch_buf = <<>> /\ yytext_ptr = 0
      /\ yy_start = "INITIAL" /\ token = NoToken
  BY Zenon DEF Init
<1>2. yy_n_chars = 0
  <2>1. <<>> \in Seq(Chars)
    OBVIOUS
  <2>2. Size(<<>>) = 0
    BY <2>1, Sizes, Zenon
  <2> QED
    BY <1>1, <2>2, Zenon DEF yy_n_chars, Size
<1>3. Offset = 0
  <2>1. Offset = 0 - 0 + 0
    BY <1>1, <1>2, Zenon DEF Offset
  <2> QED
    BY <2>1
<1> QED
  BY <1>1, <1>3, Zenon DEF Stream!Init

\* The action of a rule returns the next token of the file, or skips it.
LEMMA StreamAdvance ==
  ASSUME BufferInv, ScanInv, DoAction
  PROVE  Stream!Next
<1> DEFINE L == TokenLength(Rest)
<1>1. /\ Running /\ label = "yy_find_action" /\ yy_act \notin {0, YY_END_OF_BUFFER}
      /\ token' = IF yy_act \in Blanks THEN token
                  ELSE TokenOf(yy_act, SubSeq(yy_ch_buf, yytext_ptr + 1, EndOfText(yy_act, yy_cp)))
      /\ file' = file /\ yy_start' = yy_start
  BY Zenon DEF DoAction, bufferVars
<1>2. /\ Rest # <<>> /\ yy_act = MatchingRule(Rest)
      /\ SubSeq(yy_ch_buf, yytext_ptr + 1, EndOfText(yy_act, yy_cp)) = SubSeq(Rest, 1, L)
  BY <1>1, Yytext, Zenon DEF First
<1>3. Offset' = Offset + L
  BY DoActionInv
<1>4. token' = IF MatchingRule(Rest) \in Blanks THEN token
               ELSE TokenOf(MatchingRule(Rest), SubSeq(Rest, 1, L))
  BY <1>1, <1>2, Zenon
<1>5. Stream!Rest = Rest
  BY SameRest
<1>6. Stream!Skip \/ Stream!Return
  BY <1>2, <1>4, <1>5, Zenon DEF Stream!Skip, Stream!Return
<1>7. token # EndOfFileToken
  BY <1>1, Zenon DEF Running
<1> QED
  BY <1>1, <1>3, <1>5, <1>6, <1>7, Zenon DEF Stream!Next, Stream!Advance

\* The end of the file is the end of the stream.
LEMMA StreamEndOfFile ==
  ASSUME BufferInv, ScanInv, EndOfFile
  PROVE  Stream!Next
<1>1. /\ NextBuffer /\ file' = file /\ yy_start' = NextStart
      /\ token' = IF yy_start = "INITIAL" THEN NewlineToken ELSE EndOfFileToken
  BY Zenon DEF EndOfFile
<1>2. Rest = <<>> /\ Offset' = Offset
  BY EndOfFileInv
<1>3. token # EndOfFileToken
  BY <1>1, Zenon DEF NextBuffer, AtEnd, Running
<1>4. yy_start' = IF yy_start = "INITIAL" THEN "READ_EOF_ONCE" ELSE "INITIAL"
  BY <1>1, Zenon DEF NextStart
<1>5. IF yy_start = "INITIAL"
        THEN yy_start' = "READ_EOF_ONCE" /\ token' = NewlineToken
        ELSE yy_start' = "INITIAL" /\ token' = EndOfFileToken
  BY <1>1, <1>4
<1> QED
  BY <1>1, <1>2, <1>3, <1>5, SameRest, Zenon DEF Stream!Next, Stream!EndOfFile

\* Most steps only look for the token: they return none, and leave the place of
\* the present token and its location as they are.
LEMMA QuietSteps ==
  ASSUME BufferInv, ScanInv, [Next]_vars
  PROVE  DoAction \/ EndOfFile \/ (UNCHANGED <<file, outputVars>> /\ Offset' = Offset)
<1>1. ASSUME UNCHANGED <<file, bufferVars, yytext_ptr, outputVars>>
      PROVE  UNCHANGED <<file, outputVars>> /\ Offset' = Offset
  <2>1. file_pos' = file_pos /\ yy_ch_buf' = yy_ch_buf /\ yytext_ptr' = yytext_ptr
    BY <1>1, Zenon DEF bufferVars
  <2>2. Offset' = Offset
    BY <2>1, Zenon DEF Offset, yy_n_chars
  <2> QED
    BY <1>1, <2>2, Zenon
<1>2. CASE ContinueScan
  <2>1. UNCHANGED <<file, outputVars>>
    BY <1>2, Zenon DEF ContinueScan, Rescan
  <2>2. Offset' = Offset
    BY <1>2, ContinueScanInv
  <2> QED
    BY <2>1, <2>2, Zenon
<1>3. CASE LastMatch
  <2>1. UNCHANGED <<file, outputVars>>
    BY <1>3, Zenon DEF LastMatch, Rescan
  <2>2. Offset' = Offset
    BY <1>3, LastMatchInv
  <2> QED
    BY <2>1, <2>2, Zenon
<1>4. CASE MatchByte
  BY <1>1, <1>4, Zenon DEF MatchByte
<1>5. CASE RescanByte
  BY <1>1, <1>5, Zenon DEF RescanByte
<1>6. CASE Resume
  BY <1>1, <1>6, Zenon DEF Resume
<1>7. CASE TryNULTrans
  BY <1>1, <1>7, Zenon DEF TryNULTrans
<1>8. CASE BackUp
  BY <1>1, <1>8, Zenon DEF BackUp
<1>9. CASE ReallyNUL
  BY <1>1, <1>9, Zenon DEF ReallyNUL, Rescan
<1>10. CASE UNCHANGED vars
  BY <1>1, <1>10, Zenon DEF vars, bufferVars, scanVars, outputVars
<1> QED
  BY <1>2, <1>3, <1>4, <1>5, <1>6, <1>7, <1>8, <1>9, <1>10, Zenon DEF Next

\* Every step is one of the stream, or none at all.
LEMMA StreamSteps ==
  ASSUME BufferInv, ScanInv, [Next]_vars
  PROVE  [Stream!Next]_(Stream!streamVars)
<1>1. CASE DoAction
  BY <1>1, StreamAdvance, Zenon
<1>2. CASE EndOfFile
  BY <1>2, StreamEndOfFile, Zenon
<1>3. CASE UNCHANGED <<file, outputVars>> /\ Offset' = Offset
  BY <1>3, Zenon DEF Stream!streamVars, outputVars
<1> QED
  BY <1>1, <1>2, <1>3, QuietSteps, Zenon

\* The tokens are those of the whole text, by the longest match over all lexical
\* rules, wherever the buffer ends while it is scanned.
THEOREM ImplementsTheStream == Spec => ImplementsTokenStream
<1>1. Init => Stream!Init
  BY StreamInit
<1>2. LexerInv /\ [Next]_vars => [Stream!Next]_(Stream!streamVars)
  BY StreamSteps DEF LexerInv
<1> QED
  BY <1>1, <1>2, Invariance, PTL DEF Spec, ImplementsTokenStream, Stream!Spec

-----------------------------------------------------------------------------
(* The tokens.                                                             *)

\* The tokens are those of the grammar, and only a byte that is zero or above 127
\* makes a rule return the end of the file.
LEMMA TokensOfRules ==
  ASSUME NEW rule \in 3 .. 82, NEW text
  PROVE  /\ TokenOf(rule, text).token \in Tokens
         /\ TokenOf(rule, text) = EndOfFileToken => rule = 82 /\ text[1] \in {NUL, HIGH}
<1> DEFINE name == TokenOf(rule, text).token
<1>1. \A t, n, string, i : t = Returned(n, string, i) => t.token = n
  BY DEF Returned
<1>2. EndOfFileToken.token = "end of file" /\ NewlineToken.token = "NEWLINE"
  BY <1>1, Zenon DEF EndOfFileToken, NewlineToken
<1> DEFINE directive == Returned(DirectiveRules[rule - 2][2], "", 0)
           instr == Returned(InstrRules[rule - 10][3], InstrRules[rule - 10][2], 0)
           aLabel == Returned("LABEL", Joined(text), 0)
           short == Returned("REGISTER", "", Number(From(text, 2), 10))
           long == Returned("REGISTER", "", Number(From(text, 3), 10))
           register == Returned("REGISTER", "", RegisterRules[rule - 45][2])
           less == Returned("INTEGER", "", -Number(From(text, 2), 10))
           decimal == Returned("INTEGER", "", Number(text, 10))
           lessThanHex == Returned("INTEGER", "", -Number(From(text, 4), 16))
           hex == Returned("INTEGER", "", Number(From(text, 3), 16))
           char == CharToken(text[1])
           minus == Follows(text, <<"-">>)
<1>3. TokenOf(rule, text) =
        CASE rule \in 3 .. 10 -> directive
          [] rule \in 11 .. 42 -> instr
          [] rule = 43 -> aLabel
          [] rule = 44 -> short
          [] rule = 45 -> long
          [] rule \in 46 .. 77 -> register
          [] rule = 78 /\ minus -> less
          [] rule = 78 /\ ~minus -> decimal
          [] rule = 79 -> lessThanHex
          [] rule = 80 -> hex
          [] rule = 81 -> NewlineToken
          [] OTHER -> char
  BY Zenon DEF TokenOf
<1>4. /\ directive.token = DirectiveRules[rule - 2][2]
      /\ instr.token = InstrRules[rule - 10][3]
      /\ aLabel.token = "LABEL"
      /\ \A t \in {short, long, register} : t.token = "REGISTER"
      /\ \A t \in {less, decimal, lessThanHex, hex} : t.token = "INTEGER"
  <2>1. directive.token = DirectiveRules[rule - 2][2]
    BY <1>1, Zenon
  <2>2. instr.token = InstrRules[rule - 10][3]
    BY <1>1, Zenon
  <2>3. aLabel.token = "LABEL"
    BY <1>1, Zenon
  <2>4. short.token = "REGISTER" /\ long.token = "REGISTER" /\ register.token = "REGISTER"
    BY <1>1, Zenon
  <2>5. /\ less.token = "INTEGER" /\ decimal.token = "INTEGER"
        /\ lessThanHex.token = "INTEGER" /\ hex.token = "INTEGER"
    BY <1>1, Zenon
  <2> HIDE DEF directive, instr, aLabel, short, long, register, less, decimal, lessThanHex, hex
  <2> QED
    BY <2>1, <2>2, <2>3, <2>4, <2>5, Zenon
<1>5. \/ char.token \in {":", ",", "(", ")", "invalid token"}
      \/ char.token = "end of file" /\ text[1] \in {NUL, HIGH}
  <2> DEFINE c == text[1]
             mark == c \in {":", ",", "(", ")"}
             end == c \in {NUL, HIGH}
             this == Returned(c, "", 0)
             invalid == Returned("invalid token", "", 0)
  <2>1. char = CASE mark -> this [] end -> EndOfFileToken [] OTHER -> invalid
    BY Zenon DEF CharToken
  <2>2. this.token = c /\ invalid.token = "invalid token"
    BY <1>1, Zenon
  <2>3. (mark /\ char = this) \/ (end /\ char = EndOfFileToken) \/ char = invalid
    <3> HIDE DEF char, mark, end, this, invalid
    <3> QED
      BY <2>1
  <2> HIDE DEF char, this, invalid
  <2> QED
    BY <1>2, <2>2, <2>3, Zenon
<1> HIDE DEF directive, instr, aLabel, short, long, register, less, decimal, lessThanHex, hex, char,
             minus
<1>7. rule \in 43 .. 80 =>
        TokenOf(rule, text) \in
          {aLabel, short, long, register, less, decimal, lessThanHex, hex}
  BY <1>3
<1>8. /\ rule \in 3 .. 10 => TokenOf(rule, text) = directive
      /\ rule \in 11 .. 42 => TokenOf(rule, text) = instr
      /\ rule = 81 => TokenOf(rule, text) = NewlineToken
      /\ rule = 82 => TokenOf(rule, text) = char
  BY <1>3
<1>9. rule = 82 =>
        \/ name \in {":", ",", "(", ")", "invalid token"}
        \/ name = "end of file" /\ text[1] \in {NUL, HIGH}
  BY <1>5, <1>8, Zenon
<1> HIDE DEF name
<1>10. /\ rule \in 3 .. 10 => name \in Tokens \ {"end of file"}
       /\ rule \in 11 .. 42 => name \in Tokens \ {"end of file"}
  <2>1. rule \in 3 .. 10 => name = DirectiveRules[rule - 2][2]
    BY <1>4, <1>8, Zenon DEF name
  <2>2. rule \in 11 .. 42 => name = InstrRules[rule - 10][3]
    BY <1>4, <1>8, Zenon DEF name
  <2>3. ASSUME rule \in 3 .. 10 PROVE name \in Tokens \ {"end of file"}
    <3>1. rule - 2 \in 1 .. 8
      BY <2>3
    <3> QED
      BY <2>1, <2>3, <3>1, TokensAssumption, Zenon
  <2>4. ASSUME rule \in 11 .. 42 PROVE name \in Tokens \ {"end of file"}
    <3>1. rule - 10 \in 1 .. 32
      BY <2>4
    <3> QED
      BY <2>2, <2>4, <3>1, TokensAssumption, Zenon
  <2> QED
    BY <2>3, <2>4
<1>11. rule \in 43 .. 81 => name \in {"LABEL", "REGISTER", "INTEGER", "NEWLINE"}
  <2>1. rule \in 43 .. 80 => name \in {"LABEL", "REGISTER", "INTEGER"}
    BY <1>4, <1>7, Zenon DEF name
  <2>2. rule = 81 => name = "NEWLINE"
    BY <1>2, <1>8, Zenon DEF name
  <2> QED
    BY <2>1, <2>2
<1> DEFINE others ==
              {"LABEL", "REGISTER", "INTEGER", "NEWLINE", ":", ",", "(", ")", "invalid token"}
<1>12. others \subseteq Tokens /\ "end of file" \in Tokens /\ "end of file" \notin others
  BY TokensAssumption
<1>13. rule \in 3 .. 10 \/ rule \in 11 .. 42 \/ rule \in 43 .. 81 \/ rule = 82
  OBVIOUS
<1>14. /\ rule \in 43 .. 81 => name \in others
       /\ rule = 82 => name \in others \/ (name = "end of file" /\ text[1] \in {NUL, HIGH})
  BY <1>9, <1>11
<1> HIDE DEF others
<1>15. name \in Tokens /\ (name = "end of file" => rule = 82 /\ text[1] \in {NUL, HIGH})
  <2>1. name \in Tokens \ {"end of file"} \/ name \in others
        \/ (rule = 82 /\ name = "end of file" /\ text[1] \in {NUL, HIGH})
    BY <1>10, <1>13, <1>14, Zenon
  <2>2. name \in others => name \in Tokens /\ name # "end of file"
    BY <1>12, Zenon
  <2> QED
    BY <1>12, <2>1, <2>2
<1> QED
  BY <1>2, <1>15, Zenon DEF name

\* The rule of the next token is none for blanks, or one that returns a token; a
\* byte that is returned as the end of the file is the whole token.
LEMMA RuleOfToken ==
  ASSUME BufferInv, ScanInv, DoAction
  PROVE  \/ token' = token
         \/ token'.token \in Tokens /\ (token' = EndOfFileToken => file[Offset'] \in {NUL, HIGH})
<1> DEFINE M == MatchedLength(Rest)
           L == TokenLength(Rest)
           rule == MatchingRule(Rest)
           P == First(Rest, M)
           T == First(Rest, L)
<1>1. /\ Running /\ label = "yy_find_action" /\ yy_act \notin {0, YY_END_OF_BUFFER}
      /\ token' = IF yy_act \in Blanks THEN token
                  ELSE TokenOf(yy_act, SubSeq(yy_ch_buf, yytext_ptr + 1, EndOfText(yy_act, yy_cp)))
  BY Zenon DEF DoAction, bufferVars
<1>2. /\ Rest # <<>> /\ yy_act = rule /\ L \in Nat /\ 1 <= L /\ L <= Size(Rest)
      /\ SubSeq(yy_ch_buf, yytext_ptr + 1, EndOfText(yy_act, yy_cp)) = T
  BY <1>1, Yytext, Zenon
<1>3. /\ Rest \in Seq(Chars) /\ Offset \in Nat /\ Size(Rest) = Size(file) - Offset
      /\ file \in Seq(Chars) /\ Size(file) \in Nat
  <2>1. file \in Seq(Chars)
    BY Zenon DEF BufferInv
  <2> QED
    BY <2>1, Bytes
<1>4. /\ M \in Nat /\ 1 <= M /\ M <= Size(Rest) /\ RulesFor(P) # {}
  BY <1>2, <1>3, MatchedIn
<1>5. rule \in RulesFor(P) /\ rule \in 1 .. 82
  <2>1. RuleOf(P) \in RulesFor(P) /\ RuleOf(P) \in 1 .. 82
    BY <1>4, RuleIn
  <2>2. RuleOf(P) = rule
    BY <1>4, Zenon DEF RuleOf, MatchingRule, First
  <2> QED
    BY <2>1, <2>2, Zenon
<1>6. rule = 82 => L = 1
  <2>1. rule = 82 => Size(P) = 1
    <3>1. 82 \in RulesFor(P) => Size(P) = 1
      BY SomeRules
    <3> HIDE DEF rule, P
    <3> QED
      BY <1>5, <3>1
  <2>2. Size(P) = M
    BY <1>3, <1>4, FirstOf
  <2>3. L <= M
    BY <1>2, <1>3, TokenLengthIn
  <2> HIDE DEF P, M, L, rule
  <2> QED
    BY <1>2, <1>4, <2>1, <2>2, <2>3
<1>7. T[1] = file[Offset + 1]
  <2>1. \A i \in 1 .. L : T[i] = Rest[i]
    BY <1>2, <1>3, FirstOf
  <2>2. 1 \in 1 .. L
    BY <1>2
  <2>3. Offset + 1 \in Nat \ {0} /\ 1 \in 1 .. Size(file) - (Offset + 1) + 1 /\ Offset + 1 + 1 - 1 = Offset + 1
    <3> HIDE DEF L
    <3> QED
      BY <1>2, <1>3
  <2>4. Rest[1] = file[Offset + 1 + 1 - 1]
    BY <1>3, <2>3, FromOf, Zenon DEF Rest
  <2> QED
    BY <2>1, <2>2, <2>3, <2>4, Zenon
<1>8. Offset' = Offset + L
  BY DoActionInv
<1>9. CASE rule \in Blanks
  BY <1>1, <1>2, <1>9, Zenon
<1>10. CASE rule \notin Blanks
  <2>1. token' = TokenOf(rule, T)
    BY <1>1, <1>2, <1>10, Zenon
  <2>2. rule \in 3 .. 82
    BY <1>5, <1>10 DEF Blanks
  <2>3. /\ token'.token \in Tokens
        /\ token' = EndOfFileToken => rule = 82 /\ T[1] \in {NUL, HIGH}
    <3>1. /\ TokenOf(rule, T).token \in Tokens
          /\ TokenOf(rule, T) = EndOfFileToken => rule = 82 /\ T[1] \in {NUL, HIGH}
      BY <2>2, TokensOfRules
    <3> HIDE DEF rule, T
    <3> QED
      BY <2>1, <3>1, Zenon
  <2>4. rule = 82 => Offset' = Offset + 1
    BY <1>6, <1>8
  <2> QED
    BY <1>7, <2>3, <2>4, Zenon
<1> QED
  BY <1>9, <1>10, Zenon

\* Nothing happens after the end of the file has been returned.
LEMMA AfterTheEnd ==
  ASSUME [Next]_vars, token = EndOfFileToken
  PROVE  UNCHANGED vars
<1>1. ~Running
  BY Zenon DEF Running
<1>2. ~MatchByte /\ ~RescanByte /\ ~Resume /\ ~TryNULTrans /\ ~BackUp
  BY <1>1, Zenon DEF MatchByte, RescanByte, Resume, TryNULTrans, BackUp, Rescanned
<1>3. ~DoAction /\ ~ReallyNUL /\ ~ContinueScan /\ ~LastMatch /\ ~EndOfFile
  BY <1>1, Zenon DEF DoAction, ReallyNUL, ContinueScan, LastMatch, EndOfFile, NextBuffer, AtEnd
<1> QED
  BY <1>2, <1>3, Zenon DEF Next

\* The parser is told that the file ends only where it ends, or at a byte that is
\* zero or above 127.
THEOREM EndsOnlyThere == Spec => []EndsWhereTheFileEnds
<1>1. Init => EndsWhereTheFileEnds
  <2>1. NoToken # EndOfFileToken
    BY DEF NoToken, EndOfFileToken, Returned
  <2> QED
    BY <2>1, Zenon DEF Init, EndsWhereTheFileEnds
<1>2. LexerInv /\ EndsWhereTheFileEnds /\ [Next]_vars => EndsWhereTheFileEnds'
  <2> SUFFICES ASSUME BufferInv, ScanInv, EndsWhereTheFileEnds, [Next]_vars,
                      token' = EndOfFileToken
               PROVE  \/ Offset' = Len(file') /\ file_pos' = Len(file')
                      \/ file'[Offset'] \in {NUL, HIGH}
    BY Zenon DEF LexerInv, EndsWhereTheFileEnds
  <2>1. CASE DoAction
    <3>1. token # EndOfFileToken /\ file' = file
      BY <2>1, Zenon DEF DoAction, Running
    <3> QED
      BY <2>1, <3>1, RuleOfToken, Zenon
  <2>2. CASE EndOfFile
    <3>1. /\ file' = file /\ file_pos' = file_pos
          /\ token' = IF yy_start = "INITIAL" THEN NewlineToken ELSE EndOfFileToken
      BY <2>2, Zenon DEF EndOfFile
    <3>2. NewlineToken # EndOfFileToken
      BY DEF NewlineToken, EndOfFileToken, Returned
    <3>3. yy_start = "READ_EOF_ONCE"
      BY <3>1, <3>2, Zenon DEF BufferInv
    <3>4. file_pos = Size(file)
      BY <3>3, Zenon DEF BufferInv
    <3>5. Rest = <<>> /\ Offset' = Offset
      BY <2>2, EndOfFileInv
    <3>6. Rest \in Seq(Chars) /\ Offset \in Nat /\ Size(file) \in Nat /\ Size(Rest) = Size(file) - Offset
      BY Bytes
    <3>7. Size(Rest) = 0
      BY <3>5, <3>6, Sizes, Zenon
    <3>8. Offset = Size(file)
      BY <3>6, <3>7
    <3> QED
      BY <3>1, <3>4, <3>5, <3>8, Zenon DEF Size
  <2>3. CASE UNCHANGED <<file, outputVars>> /\ Offset' = Offset
    <3>1. token = EndOfFileToken /\ file' = file
      BY <2>3, Zenon DEF outputVars
    <3>2. UNCHANGED vars
      BY <3>1, AfterTheEnd, Zenon
    <3>3. file_pos' = file_pos
      BY <3>2, Zenon DEF vars, bufferVars
    <3> QED
      BY <2>3, <3>1, <3>3, Zenon DEF EndsWhereTheFileEnds
  <2> QED
    BY <2>1, <2>2, <2>3, QuietSteps, Zenon
<1> QED
  BY <1>1, <1>2, Invariance, PTL DEF Spec

-----------------------------------------------------------------------------
(* Locations.                                                              *)

\* The ends of lines in a text.
LEMMA NewlinesOf ==
  ASSUME NEW text \in Seq(Chars)
  PROVE  /\ Size(text) \in Nat
         /\ Newlines(text) = {k \in 1 .. Size(text) : text[k] = "\n"}
         /\ IsFiniteSet(Newlines(text)) /\ Cardinality(Newlines(text)) \in Nat
<1>1. Newlines(text) = {k \in 1 .. Size(text) : text[k] = "\n"}
  BY Zenon DEF Newlines, Size
<1>2. Size(text) \in Nat
  BY Sizes
<1>3. IsFiniteSet(1 .. Size(text))
  BY <1>2, FS_Interval
<1>4. Newlines(text) \in SUBSET (1 .. Size(text))
  BY <1>1
<1> QED
  BY <1>1, <1>2, <1>3, <1>4, FS_Subset, FS_CardinalityType, Zenon

\* The ends of lines when a text goes on.
LEMMA NewlinesAfter ==
  ASSUME NEW text \in Seq(Chars), NEW more \in Seq(Chars), NEW n \in Nat,
         n + Size(more) <= Size(text),
         \A i \in 1 .. Size(more) : more[i] = text[n + i]
  PROVE  LET before == Newlines(First(text, n))
             all == Newlines(First(text, n + Size(more)))
         IN  /\ Cardinality(all) = Cardinality(before) + Cardinality(Newlines(more))
             /\ Newlines(more) = {} => all = before
             /\ Newlines(more) # {} => all # {} /\ Max(all) = n + Max(Newlines(more))
<1> DEFINE m == Size(more)
           before == Newlines(First(text, n))
           all == Newlines(First(text, n + m))
           here == Newlines(more)
           moved == {n + k : k \in here}
<1>1. m \in Nat /\ here = {k \in 1 .. m : more[k] = "\n"}
      /\ IsFiniteSet(here) /\ Cardinality(here) \in Nat
  BY NewlinesOf, Zenon
<1>2. /\ before = {k \in 1 .. n : text[k] = "\n"}
      /\ IsFiniteSet(before) /\ Cardinality(before) \in Nat
  <2> DEFINE P == First(text, n)
  <2>1. n <= Size(text)
    BY <1>1, Sizes
  <2>2. P \in Seq(Chars) /\ Size(P) = n /\ \A i \in 1 .. n : P[i] = text[i]
    BY <2>1, FirstOf
  <2> HIDE DEF P
  <2>3. /\ Newlines(P) = {k \in 1 .. n : P[k] = "\n"}
        /\ IsFiniteSet(Newlines(P)) /\ Cardinality(Newlines(P)) \in Nat
    BY <2>2, NewlinesOf
  <2>4. {k \in 1 .. n : P[k] = "\n"} = {k \in 1 .. n : text[k] = "\n"}
    BY <2>2
  <2> QED
    BY <2>3, <2>4, Zenon DEF P
<1>3. /\ all = {k \in 1 .. n + m : text[k] = "\n"}
      /\ IsFiniteSet(all) /\ Cardinality(all) \in Nat
  <2> DEFINE P == First(text, n + m)
  <2>1. n + m <= Size(text) /\ n + m \in Nat
    BY <1>1
  <2>2. P \in Seq(Chars) /\ Size(P) = n + m /\ \A i \in 1 .. n + m : P[i] = text[i]
    BY <2>1, FirstOf
  <2> HIDE DEF P
  <2>3. /\ Newlines(P) = {k \in 1 .. n + m : P[k] = "\n"}
        /\ IsFiniteSet(Newlines(P)) /\ Cardinality(Newlines(P)) \in Nat
    BY <2>2, NewlinesOf
  <2>4. {k \in 1 .. n + m : P[k] = "\n"} = {k \in 1 .. n + m : text[k] = "\n"}
    BY <2>2
  <2> QED
    BY <2>3, <2>4, Zenon DEF P
<1>4. \A i \in 1 .. m : more[i] = text[n + i]
  OBVIOUS
<1> HIDE DEF m, before, all, here
<1>5. all = before \cup moved
  <2>1. ASSUME NEW k \in all PROVE k \in before \cup moved
    <3>1. k \in 1 .. n + m /\ text[k] = "\n"
      BY <1>3
    <3>2. CASE k <= n
      BY <1>2, <3>1, <3>2
    <3>3. CASE k > n
      <4>1. k - n \in 1 .. m /\ n + (k - n) = k
        BY <1>1, <3>1, <3>3
      <4>2. k - n \in here
        BY <1>1, <1>4, <3>1, <4>1
      <4> QED
        BY <4>1, <4>2
    <3> QED
      BY <1>1, <3>1, <3>2, <3>3
  <2>2. ASSUME NEW k \in before PROVE k \in all
    BY <1>1, <1>2, <1>3
  <2>3. ASSUME NEW k \in here PROVE n + k \in all
    BY <1>1, <1>3, <1>4
  <2> QED
    BY <2>1, <2>2, <2>3
<1>6. before \cap moved = {}
  BY <1>1, <1>2
<1>7. IsFiniteSet(moved) /\ Cardinality(moved) = Cardinality(here)
  <2> DEFINE f == [k \in here |-> n + k]
  <2>1. f \in [here -> moved]
    OBVIOUS
  <2>2. DOMAIN f = here /\ \A a, b \in here : f[a] = f[b] => a = b
    BY <1>1
  <2>3. \A t \in moved : \E s \in here : f[s] = t
    OBVIOUS
  <2> HIDE DEF f, moved
  <2>4. f \in Bijection(here, moved)
    BY <2>1, <2>2, <2>3, Zenon DEF Bijection, Injection, Surjection, IsInjective
  <2>5. ExistsBijection(here, moved)
    BY <2>4, Zenon DEF ExistsBijection
  <2> QED
    BY <1>1, <2>5, FS_Bijection, Zenon
<1>8. Cardinality(all) = Cardinality(before) + Cardinality(here)
  <2>1. Cardinality(before \cup moved) =
          Cardinality(before) + Cardinality(moved) - Cardinality(before \cap moved)
    BY <1>2, <1>7, FS_Union, Zenon
  <2>2. Cardinality(before \cap moved) = 0
    BY <1>6, FS_EmptySet, Zenon
  <2> HIDE DEF moved
  <2> QED
    BY <1>1, <1>2, <1>5, <1>7, <2>1, <2>2
<1>9. here = {} => all = before
  BY <1>5
<1>10. ASSUME here # {} PROVE all # {} /\ Max(all) = n + Max(here)
  <2>1. here \in SUBSET (0 .. m)
    BY <1>1
  <2>2. Max(here) \in here /\ \A k \in here : k <= Max(here)
    BY <1>1, <1>10, <2>1, MaxChosen
  <2>3. n + Max(here) \in all
    BY <1>5, <2>2
  <2>4. Max(here) \in Nat /\ 1 <= Max(here)
    BY <1>1, <2>2
  <2>5. ASSUME NEW k \in all PROVE k <= n + Max(here)
    <3>1. CASE k \in before
      BY <1>2, <2>4, <3>1
    <3>2. CASE k \in moved
      <4>1. PICK i \in here : k = n + i
        BY <3>2
      <4>2. i \in Nat /\ i <= Max(here)
        BY <1>1, <2>2
      <4> QED
        BY <2>4, <4>1, <4>2
    <3> QED
      BY <1>5, <3>1, <3>2
  <2>6. all \in SUBSET (0 .. n + m) /\ n + m \in Nat
    BY <1>1, <1>3
  <2> QED
    BY <2>3, <2>5, <2>6, MaxUnique
<1> QED
  BY <1>8, <1>9, <1>10 DEF m, before, all, here

\* The location and the place of the token move on together.
LEMMA LocationAdvance ==
  ASSUME BufferInv, ScanInv, LocatesTheText, DoAction
  PROVE  /\ LocatesTheText'
         /\ yylloc'.first_line = yylloc.last_line /\ yylloc'.last_line >= yylloc.last_line
         /\ yylloc.last_line \in Nat \ {0} /\ yylloc'.last_line \in Nat
<1> DEFINE L == TokenLength(Rest)
           T == First(Rest, L)
           before == Newlines(First(file, Offset))
           all == Newlines(First(file, Offset + L))
           here == Newlines(T)
<1>1. /\ label = "yy_find_action" /\ yy_act \notin {0, YY_END_OF_BUFFER} /\ file' = file
      /\ yylloc' = UpdateLocation(SubSeq(yy_ch_buf, yytext_ptr + 1, EndOfText(yy_act, yy_cp)))
  BY Zenon DEF DoAction
<1>2. /\ L \in Nat /\ 1 <= L /\ L <= Size(Rest)
      /\ SubSeq(yy_ch_buf, yytext_ptr + 1, EndOfText(yy_act, yy_cp)) = T
  BY <1>1, Yytext, Zenon
<1>3. /\ Rest \in Seq(Chars) /\ Offset \in Nat /\ Size(Rest) = Size(file) - Offset
      /\ file \in Seq(Chars) /\ Size(file) \in Nat
  <2>1. file \in Seq(Chars)
    BY Zenon DEF BufferInv
  <2> QED
    BY <2>1, Bytes
<1>4. T \in Seq(Chars) /\ Size(T) = L /\ \A i \in 1 .. L : T[i] = Rest[i]
  BY <1>2, <1>3, FirstOf
<1> HIDE DEF L
<1>5. Offset + L <= Size(file)
  BY <1>2, <1>3
<1>6. \A i \in 1 .. L : T[i] = file[Offset + i]
  <2>1. SUFFICES ASSUME NEW i \in 1 .. L PROVE T[i] = file[Offset + i]
    OBVIOUS
  <2>2. /\ Offset + 1 \in Nat \ {0} /\ i \in 1 .. Size(file) - (Offset + 1) + 1
        /\ Offset + 1 + i - 1 = Offset + i
    BY <1>2, <1>3, <1>5
  <2>3. Rest[i] = file[Offset + 1 + i - 1]
    BY <1>3, <2>2, FromOf, Zenon DEF Rest
  <2> QED
    BY <1>4, <2>2, <2>3, Zenon
<1>7. /\ Cardinality(all) = Cardinality(before) + Cardinality(here)
      /\ here = {} => all = before
      /\ here # {} => all # {} /\ Max(all) = Offset + Max(here)
  <2> HIDE DEF T
  <2> QED
    BY <1>3, <1>4, <1>5, <1>6, NewlinesAfter
<1>8. /\ yylloc'.first_line = yylloc.last_line
      /\ yylloc'.last_line = yylloc.last_line + Cardinality(here)
      /\ yylloc'.last_column = IF here = {} THEN yylloc.last_column + L
                               ELSE 1 + L - Max(here)
  <2>1. yylloc' = UpdateLocation(T)
    BY <1>1, <1>2, Zenon
  <2>2. Len(T) = L
    BY <1>4, Zenon DEF Size
  <2> HIDE DEF T
  <2>3. UpdateLocation(T) =
          [first_line |-> yylloc.last_line, first_column |-> yylloc.last_column,
           last_line |-> yylloc.last_line + Cardinality(here),
           last_column |-> IF here = {} THEN yylloc.last_column + L ELSE 1 + L - Max(here)]
    BY <2>2, Zenon DEF UpdateLocation
  <2> HIDE DEF here
  <2> QED
    BY <2>1, <2>3
<1>9. /\ yylloc.last_line = 1 + Cardinality(before)
      /\ yylloc.last_column = 1 + Offset - (IF before = {} THEN 0 ELSE Max(before))
  BY Zenon DEF LocatesTheText, First
<1>10. Cardinality(before) \in Nat /\ Cardinality(here) \in Nat
       /\ (before # {} => Max(before) \in Nat) /\ (here # {} => Max(here) \in Nat)
  <2>1. here \in SUBSET (0 .. L) /\ Cardinality(here) \in Nat
    <3> HIDE DEF T
    <3>1. here = {k \in 1 .. L : T[k] = "\n"} /\ Cardinality(here) \in Nat
      BY <1>4, NewlinesOf, Zenon
    <3> HIDE DEF here
    <3> QED
      BY <1>2, <3>1
  <2>2. before \in SUBSET (0 .. Offset) /\ Cardinality(before) \in Nat
    <3> DEFINE P == First(file, Offset)
    <3>1. Offset <= Size(file)
      BY <1>2, <1>3, <1>5
    <3>2. P \in Seq(Chars) /\ Size(P) = Offset
      BY <1>3, <3>1, FirstOf
    <3> HIDE DEF P
    <3>3. Newlines(P) = {k \in 1 .. Offset : P[k] = "\n"} /\ Cardinality(Newlines(P)) \in Nat
      BY <3>2, NewlinesOf, Zenon
    <3>4. Newlines(P) \in SUBSET (0 .. Offset)
      BY <1>3, <3>3
    <3> QED
      BY <3>3, <3>4, Zenon DEF P
  <2> HIDE DEF before, here
  <2>3. before # {} => Max(before) \in before
    BY <1>3, <2>2, MaxChosen, Zenon
  <2>4. here # {} => Max(here) \in here
    BY <1>2, <2>1, MaxChosen, Zenon
  <2>5. 0 .. Offset \subseteq Nat /\ 0 .. L \subseteq Nat
    OBVIOUS
  <2> QED
    BY <2>1, <2>2, <2>3, <2>4, <2>5, Zenon
<1>11. Offset' = Offset + L
  BY DoActionInv DEF L
<1> HIDE DEF before, all, here
<1>12. /\ yylloc'.last_line = 1 + Cardinality(all)
       /\ yylloc'.last_column = 1 + (Offset + L) - (IF all = {} THEN 0 ELSE Max(all))
       /\ yylloc.last_line \in Nat \ {0} /\ yylloc'.last_line >= yylloc.last_line
       /\ yylloc'.last_line \in Nat
  <2>1. /\ yylloc'.last_line = 1 + Cardinality(all)
        /\ yylloc.last_line \in Nat \ {0} /\ yylloc'.last_line >= yylloc.last_line
        /\ yylloc'.last_line \in Nat
    BY <1>7, <1>8, <1>9, <1>10
  <2>2. CASE here = {}
    <3>1. all = before /\ yylloc'.last_column = yylloc.last_column + L
      BY <1>7, <1>8, <2>2
    <3> DEFINE m == IF before = {} THEN 0 ELSE Max(before)
    <3>2. m \in Nat
      BY <1>10
    <3>3. yylloc.last_column = 1 + Offset - m
      BY <1>9
    <3>4. yylloc'.last_column = 1 + (Offset + L) - m
      <4> HIDE DEF m, L
      <4> QED
        BY <1>2, <1>3, <3>1, <3>2, <3>3
    <3> QED
      BY <2>1, <3>1, <3>4, Zenon
  <2>3. CASE here # {}
    <3>1. all # {} /\ Max(all) = Offset + Max(here) /\ yylloc'.last_column = 1 + L - Max(here)
      BY <1>7, <1>8, <2>3
    <3> DEFINE m == Max(here)
    <3>2. m \in Nat
      BY <1>10, <2>3
    <3>3. 1 + L - m = 1 + (Offset + L) - (Offset + m)
      <4> HIDE DEF m, L
      <4> QED
        BY <1>2, <1>3, <3>2
    <3> QED
      BY <2>1, <3>1, <3>3, Zenon
  <2> QED
    BY <2>2, <2>3
<1>13. LocatesTheText'
  BY <1>1, <1>11, <1>12, Zenon DEF LocatesTheText, all, First
<1> QED
  BY <1>8, <1>12, <1>13, Zenon

\* What holds of the tokens and their locations.
OutputInv ==
  /\ LocatesTheText
  /\ yylloc.first_line \in 1 .. yylloc.last_line
  /\ token.token \in Tokens \cup {"none"}

\* Nothing has been returned yet.
LEMMA OutputInit == Init => OutputInv
<1> SUFFICES ASSUME Init PROVE OutputInv
  OBVIOUS
<1>1. /\ yylloc = [first_line |-> 1, first_column |-> 1, last_line |-> 1, last_column |-> 1]
      /\ token = NoToken
  BY Zenon DEF Init
<1>2. yylloc.last_line = 1 /\ yylloc.last_column = 1 /\ yylloc.first_line \in 1 .. yylloc.last_line
  BY <1>1
<1>3. token.token = "none"
  BY <1>1 DEF NoToken, Returned
<1>4. file \in Seq(Chars)
  BY InitInv, Zenon DEF LexerInv, BufferInv
<1>5. Offset = 0
  BY StreamInit, Zenon DEF Stream!Init
<1>6. First(file, Offset) = <<>>
  BY <1>4, <1>5, FirstNone, Zenon
<1>7. Newlines(First(file, Offset)) = {}
  <2>1. <<>> \in Seq(Chars) /\ Size(<<>>) = 0
    <3>1. <<>> \in Seq(Chars)
      OBVIOUS
    <3> QED
      BY <3>1, Sizes, Zenon
  <2>2. Newlines(<<>>) = {k \in 1 .. 0 : <<>>[k] = "\n"}
    BY <2>1, NewlinesOf, Zenon
  <2>3. 1 .. 0 = {}
    OBVIOUS
  <2>4. Newlines(<<>>) = {}
    BY <2>2, <2>3, Zenon
  <2> QED
    BY <1>6, <2>4, Zenon
<1>8. Cardinality({}) = 0 /\ 1 + 0 = 1 /\ 1 + 0 - 0 = 1
  BY FS_EmptySet
<1>9. LocatesTheText
  BY <1>2, <1>5, <1>7, <1>8, Zenon DEF LocatesTheText, First
<1> QED
  BY <1>2, <1>3, <1>9, Zenon DEF OutputInv

\* Every step keeps it.
LEMMA OutputNext ==
  ASSUME BufferInv, ScanInv, OutputInv, [Next]_vars
  PROVE  OutputInv'
<1>1. /\ LocatesTheText /\ yylloc.first_line \in 1 .. yylloc.last_line
      /\ token.token \in Tokens \cup {"none"}
  BY Zenon DEF OutputInv
<1>2. CASE DoAction
  <2>1. /\ LocatesTheText' /\ yylloc'.first_line = yylloc.last_line
        /\ yylloc'.last_line >= yylloc.last_line /\ yylloc.last_line \in Nat \ {0}
        /\ yylloc'.last_line \in Nat
    BY <1>1, <1>2, LocationAdvance
  <2>3. yylloc'.first_line \in 1 .. yylloc'.last_line
    BY <2>1
  <2>4. token'.token \in Tokens \cup {"none"}
    BY <1>1, <1>2, RuleOfToken, Zenon
  <2> QED
    BY <2>1, <2>3, <2>4, Zenon DEF OutputInv
<1>3. CASE EndOfFile
  <2>1. /\ file' = file /\ yylloc' = yylloc
        /\ token' = IF yy_start = "INITIAL" THEN NewlineToken ELSE EndOfFileToken
    BY <1>3, Zenon DEF EndOfFile
  <2>2. Offset' = Offset
    BY <1>3, EndOfFileInv
  <2>3. NewlineToken.token = "NEWLINE" /\ EndOfFileToken.token = "end of file"
    BY DEF NewlineToken, EndOfFileToken, Returned
  <2>4. "NEWLINE" \in Tokens /\ "end of file" \in Tokens
    BY TokensAssumption
  <2>5. token'.token \in Tokens
    BY <2>1, <2>3, <2>4, Zenon
  <2>6. LocatesTheText'
    BY <1>1, <2>1, <2>2, Zenon DEF LocatesTheText
  <2> QED
    BY <1>1, <2>1, <2>5, <2>6, Zenon DEF OutputInv
<1>4. CASE UNCHANGED <<file, outputVars>> /\ Offset' = Offset
  <2>1. file' = file /\ yylloc' = yylloc /\ token' = token /\ Offset' = Offset
    BY <1>4, Zenon DEF outputVars
  <2>2. LocatesTheText'
    BY <1>1, <2>1, Zenon DEF LocatesTheText
  <2> QED
    BY <1>1, <2>1, <2>2, Zenon DEF OutputInv
<1> QED
  BY <1>2, <1>3, <1>4, QuietSteps, Zenon

\* Lines, columns and tokens, for every text and every size of the buffer.
LEMMA Outputs == Spec => []OutputInv
<1>1. LexerInv /\ OutputInv /\ [Next]_vars => OutputInv'
  BY OutputNext, Zenon DEF LexerInv
<1> QED
  BY <1>1, OutputInit, Invariance, PTL DEF Spec

\* The location that the parser and the messages get is that of the text.
THEOREM LocatesIt == Spec => []LocatesTheText
<1>1. OutputInv => LocatesTheText
  BY Zenon DEF OutputInv
<1> QED
  BY <1>1, Outputs, PTL

\* Where the scan is, and the state of the automaton there.
LEMMA ScanTypes ==
  ASSUME BufferInv, ScanInv
  PROVE  yy_cp \in yytext_ptr .. yy_n_chars + 1 /\ yy_current_state \in 1 .. Jam - 1
<1>1. /\ yy_n_chars \in Nat /\ yytext_ptr \in Nat /\ yytext_ptr <= yy_n_chars
      /\ Rest \in Seq(Chars)
  BY Bytes
<1>2. CASE Scanning
  <2>1. /\ yy_cp \in Nat /\ yytext_ptr <= yy_cp /\ yy_cp <= yy_n_chars
        /\ yy_current_state \in 1 .. Jam - 1
    BY <1>2, ScanState
  <2> QED
    BY <1>1, <2>1
<1>3. CASE MetNUL
  <2>1. yy_cp \in yytext_ptr + 1 .. yy_n_chars + 1 /\ yy_current_state = EndOfBuffer
    BY <1>3, Zenon DEF MetNUL
  <2> QED
    BY <1>1, <2>1 DEF EndOfBuffer, Jam
<1>4. CASE Decided
  <2> DEFINE M == MatchedLength(Rest)
             P == First(Rest, M)
  <2>1. /\ Rest # <<>> /\ M <= yy_n_chars - yytext_ptr
        /\ \/ yy_cp = yytext_ptr + M /\ yy_current_state = StateOf(P)
           \/ yy_cp \in yytext_ptr .. yy_n_chars /\ yy_current_state \in 1 .. Jam - 1
    BY <1>4, Zenon DEF Decided
  <2>2. M \in Nat /\ 1 <= M /\ M <= Size(Rest) /\ RulesFor(P) # {}
    BY <1>1, <2>1, MatchedIn
  <2>3. StateOf(P) \in 1 .. Jam /\ StateOf(P) # Jam
    <3>1. P \in Seq(Chars)
      BY <1>1, <2>2, FirstOf
    <3>2. Alive(P)
      BY <2>2, <3>1, Jammed, Zenon
    <3>3. StateOf(P) \in 1 .. Jam
      BY <3>1, StateIn
    <3> QED
      BY <3>2, <3>3, Zenon DEF Alive
  <2> HIDE DEF P, M
  <2>4. StateOf(P) \in 1 .. Jam - 1
    BY <2>3 DEF Jam
  <2> QED
    BY <1>1, <2>1, <2>2, <2>4
<1>5. CASE Rescanning
  BY <1>2, <1>5, Zenon DEF Rescanning
<1> QED
  BY <1>2, <1>3, <1>4, <1>5, Zenon DEF ScanInv

\* The type invariant: the buffer always has room for the byte that ends it.
THEOREM TypeCorrect == Spec => []TypeOK
<1>1. LexerInv /\ OutputInv => TypeOK
  <2> SUFFICES ASSUME BufferInv, ScanInv, OutputInv PROVE TypeOK
    BY DEF LexerInv
  <2>1. /\ file_pos \in 0 .. Len(file)
        /\ yy_n_chars < yy_buf_size
        /\ yy_buffer_status \in {"NEW", "NORMAL", "EOF_PENDING"}
        /\ yytext_ptr \in 0 .. yy_n_chars /\ yy_c_buf_p \in 0 .. yy_n_chars
        /\ yy_start \in {"INITIAL", "READ_EOF_ONCE"}
    BY Zenon DEF BufferInv, Size
  <2>2. yy_cp \in yytext_ptr .. yy_n_chars + 1 /\ yy_current_state \in 1 .. Jam - 1
    BY ScanTypes
  <2>3. /\ accepted.state \in 0 .. Jam - 1
        /\ label \in {"yy_match", "yy_find_action"} \cup Rescans
    BY Zenon DEF ScanInv
  <2>4. yylloc.first_line \in 1 .. yylloc.last_line /\ token.token \in Tokens \cup {"none"}
    BY Zenon DEF OutputInv
  <2> QED
    BY <2>1, <2>2, <2>3, <2>4, Zenon DEF TypeOK
<1> QED
  BY <1>1, Invariance, Outputs, PTL

=============================================================================
