---------------------------- MODULE LoaderProofs ----------------------------
(***************************************************************************)
(* Proofs about loading a program, for every program, however long, and    *)
(* every size of the tables: the parser's tables agree with one another,   *)
(* the instruction memory holds the linked program, and that program is    *)
(* one the theorems about the pipeline apply to.                           *)
(***************************************************************************)
EXTENDS Loader, ByteMemoryProofs, SequenceTheorems, FiniteSetTheorems

-----------------------------------------------------------------------------
(* Sequences.                                                              *)

\* s is a sequence, of whatever elements it has.
IsSequence(s) == s \in Seq({s[k] : k \in DOMAIN s})

\* A function on 1 .. n is a sequence of length n.
LEMMA SequenceOf ==
  ASSUME NEW n \in Nat, NEW S, NEW f \in [1 .. n -> S]
  PROVE  IsSequence(f) /\ Len(f) = n /\ DOMAIN f = 1 .. n
<1> DEFINE T == {f[k] : k \in DOMAIN f}
<1>1. f \in [1 .. n -> T]
  OBVIOUS
<1> HIDE DEF T
<1>2. f \in Seq(T)
  BY <1>1, SeqDef
<1>3. Len(f) \in Nat /\ DOMAIN f = 1 .. Len(f)
  BY <1>2, LenProperties
<1>4. 1 .. Len(f) = 1 .. n
  BY <1>1, <1>3
<1>5. Len(f) = n
  BY <1>3, <1>4
<1> QED
  BY <1>1, <1>2, <1>5 DEF IsSequence, T

\* The length and the domain of a sequence.
LEMMA SequenceLength ==
  ASSUME NEW s, IsSequence(s)
  PROVE  Len(s) \in Nat /\ DOMAIN s = 1 .. Len(s)
BY LenProperties DEF IsSequence

\* Append adds one element behind the others.
LEMMA Appended ==
  ASSUME NEW s, IsSequence(s), NEW e
  PROVE  /\ IsSequence(Append(s, e))
         /\ Len(Append(s, e)) = Len(s) + 1
         /\ Append(s, e)[Len(s) + 1] = e
         /\ \A k \in 1 .. Len(s) : Append(s, e)[k] = s[k]
<1> DEFINE S == {s[k] : k \in DOMAIN s} \cup {e}
<1>1. s \in Seq(S)
  <2>1. {s[k] : k \in DOMAIN s} \subseteq S
    OBVIOUS
  <2> QED
    BY <2>1, SeqMonotonic DEF IsSequence
<1>2. e \in S
  OBVIOUS
<1> HIDE DEF S
<1>3. /\ Append(s, e) \in Seq(S)
      /\ Len(Append(s, e)) = Len(s) + 1
      /\ Append(s, e)[Len(s) + 1] = e
      /\ \A k \in 1 .. Len(s) : Append(s, e)[k] = s[k]
  BY <1>1, <1>2, AppendProperties
<1>4. Append(s, e) \in [1 .. Len(s) + 1 -> S] /\ Len(s) + 1 \in Nat
  BY <1>1, <1>3, LenProperties
<1>5. IsSequence(Append(s, e))
  BY <1>4, SequenceOf
<1> QED
  BY <1>3, <1>5

-----------------------------------------------------------------------------
(* The instruction memory.                                                 *)

\* What is needed beside HoldsLinkedProgram: the instruction memory is a
\* sequence, and nothing is linked while the tables still change.
LinkInv ==
  /\ IsSequence(instrs)
  /\ linked \in Nat
  /\ phase = "parsing" => linked = 0
  /\ HoldsLinkedProgram

\* A new buffer is a sequence of nops.
LEMMA NopsProperties ==
  ASSUME NEW n \in Nat
  PROVE  /\ IsSequence(Nops(n)) /\ Len(Nops(n)) = n
         /\ \A k \in 1 .. n : Nops(n)[k] = Bubble
<1>1. Nops(n) \in [1 .. n -> {Bubble}]
  BY DEF Nops
<1>2. \A k \in 1 .. n : Nops(n)[k] = Bubble
  BY DEF Nops
<1> QED
  BY <1>1, <1>2, SequenceOf

\* The instruction written next goes right behind those that are there; the
\* buffer grows if it is full, and the rest of it stays as it was or is nops.
LEMMA WriteNext ==
  ASSUME NEW buffer, IsSequence(buffer), NEW n \in Nat, n <= Len(buffer), NEW instr
  PROVE  LET written == WriteToInstrMemory(buffer, TextSegStart + 4 * n, instr)
         IN  /\ IsSequence(written)
             /\ Len(buffer) <= Len(written) /\ n + 1 <= Len(written)
             /\ written[n + 1] = instr
             /\ \A k \in 1 .. Len(written) :
                  k # n + 1 => written[k] = IF k <= Len(buffer) THEN buffer[k] ELSE Bubble
<1> DEFINE address == TextSegStart + 4 * n
           size == BufSize(buffer, address)
           written == WriteToInstrMemory(buffer, address, instr)
<1>1. Len(buffer) \in Nat /\ DOMAIN buffer = 1 .. Len(buffer)
  BY SequenceLength
<1>2. InstrIndex(address) = n + 1
  BY TextAssumption DEF InstrIndex
<1> HIDE DEF address
<1>3. size \in Nat /\ Len(buffer) <= size /\ n + 1 <= size
  BY <1>1, <1>2 DEF BufSize
<1> HIDE DEF size
<1>4. written = [k \in 1 .. size |->
                   IF k = n + 1 THEN instr
                   ELSE IF k \in 1 .. Len(buffer) THEN buffer[k]
                   ELSE Bubble]
  BY <1>1, <1>2 DEF WriteToInstrMemory, size
<1> HIDE DEF written
<1>5. \A k \in 1 .. size :
        written[k] = IF k = n + 1 THEN instr
                     ELSE IF k \in 1 .. Len(buffer) THEN buffer[k]
                     ELSE Bubble
  BY <1>4
<1>6. IsSequence(written) /\ Len(written) = size
  <2>1. written \in [1 .. size -> {written[k] : k \in 1 .. size}]
    BY <1>4
  <2> QED
    BY <1>3, <2>1, SequenceOf
<1>7. written[n + 1] = instr
  BY <1>3, <1>5
<1>8. \A k \in 1 .. size :
        k # n + 1 => written[k] = IF k <= Len(buffer) THEN buffer[k] ELSE Bubble
  BY <1>1, <1>5
<1> QED
  BY <1>3, <1>6, <1>7, <1>8 DEF written, address

\* In the beginning nothing is linked.
LEMMA LinkInit == Init => LinkInv
<1> SUFFICES ASSUME Init PROVE LinkInv
  OBVIOUS
<1>1. instrs = Nops(InitialInstrBufSize) /\ linked = 0 /\ InitialInstrBufSize \in Nat
  BY InstrBufAssumption DEF Init
<1>2. /\ IsSequence(instrs) /\ Len(instrs) = InitialInstrBufSize
      /\ \A k \in 1 .. InitialInstrBufSize : instrs[k] = Bubble
  BY <1>1, NopsProperties
<1> QED
  BY <1>1, <1>2 DEF LinkInv, HoldsLinkedProgram

\* Linking one instruction.
LEMMA LinkStep == ASSUME LinkInv, LinkInstr PROVE LinkInv'
<1> DEFINE parsed == instr_buf[linked + 1]
           address == TextSegStart + 4 * linked
<1>1. phase = "linking" /\ UNCHANGED parserVars /\ linked < Len(instr_buf)
  BY DEF LinkInstr
<1>2. UNCHANGED <<instr_buf, elements>>
  BY <1>1 DEF parserVars, programVars, instrVars
<1>3. \A k : LinkedInstr(instr_buf[k])' = LinkedInstr(instr_buf[k])
  BY <1>2 DEF LinkedInstr, LookupInSymbolTable, DoLinearSearch, Keys
<1>4. CASE UNCHANGED <<instrs, linked>>
  <2>1. phase' # "parsing"
    BY <1>1, <1>4 DEF LinkInstr, LinkFailure
  <2>2. HoldsLinkedProgram'
    BY <1>3, <1>4 DEF LinkInv, HoldsLinkedProgram
  <2> QED
    BY <1>4, <2>1, <2>2 DEF LinkInv
<1>5. CASE /\ instrs' = WriteToInstrMemory(instrs, address, LinkedInstr(parsed))
           /\ linked' = linked + 1
           /\ phase' = phase
  <2>1. linked \in Nat /\ linked <= Len(instrs) /\ IsSequence(instrs) /\ Len(instrs) \in Nat
    BY SequenceLength DEF LinkInv, HoldsLinkedProgram
  <2>2. /\ IsSequence(instrs')
        /\ Len(instrs) <= Len(instrs') /\ linked + 1 <= Len(instrs')
        /\ instrs'[linked + 1] = LinkedInstr(parsed)
        /\ \A k \in 1 .. Len(instrs') :
             k # linked + 1 => instrs'[k] = IF k <= Len(instrs) THEN instrs[k] ELSE Bubble
    BY <1>5, <2>1, WriteNext
  <2>3. Len(instrs') \in Nat
    BY <2>2, SequenceLength
  <2>4. ASSUME NEW k \in 1 .. linked + 1
        PROVE  instrs'[k] = LinkedInstr(instr_buf[k])
    <3>1. CASE k = linked + 1
      BY <2>2, <3>1
    <3>2. CASE k # linked + 1
      <4>1. k \in 1 .. linked /\ k \in 1 .. Len(instrs') /\ k <= Len(instrs)
        BY <2>1, <2>2, <2>3, <3>2
      <4> QED
        BY <2>2, <3>2, <4>1 DEF LinkInv, HoldsLinkedProgram
    <3> QED
      BY <3>1, <3>2
  <2>5. ASSUME NEW k \in linked + 2 .. Len(instrs')
        PROVE  instrs'[k] = Bubble
    <3>1. k \in 1 .. Len(instrs') /\ k # linked + 1
      BY <2>1, <2>3
    <3>2. k <= Len(instrs) => k \in linked + 1 .. Len(instrs)
      BY <2>1, <2>3
    <3> QED
      BY <2>2, <3>1, <3>2 DEF LinkInv, HoldsLinkedProgram
  <2>6. HoldsLinkedProgram'
    <3>1. linked' <= Len(instrs)'
      BY <1>5, <2>2
    <3>2. \A k \in 1 .. linked' : instrs'[k] = LinkedInstr(instr_buf[k])'
      BY <1>3, <1>5, <2>4
    <3>3. \A k \in linked' + 1 .. Len(instrs') : instrs'[k] = Bubble
      BY <1>5, <2>1, <2>5
    <3> QED
      BY <3>1, <3>2, <3>3 DEF HoldsLinkedProgram
  <2> QED
    BY <1>1, <1>5, <2>1, <2>2, <2>6 DEF LinkInv
<1> QED
  BY <1>4, <1>5 DEF LinkInstr

\* No step links an instruction but with the table the parser has left, or
\* changes one that is linked.
LEMMA LinkNext == LinkInv /\ [Next]_vars => LinkInv'
<1> SUFFICES ASSUME LinkInv, [Next]_vars PROVE LinkInv'
  OBVIOUS
<1>1. CASE UNCHANGED <<instrs, linked>> /\ phase' = "parsing" /\ phase = "parsing"
  BY <1>1 DEF LinkInv, HoldsLinkedProgram
<1>2. CASE UNCHANGED <<instrs, linked, instr_buf, elements>> /\ phase' # "parsing"
  <2>1. \A k : LinkedInstr(instr_buf[k])' = LinkedInstr(instr_buf[k])
    BY <1>2 DEF LinkedInstr, LookupInSymbolTable, DoLinearSearch, Keys
  <2> QED
    BY <1>2, <2>1 DEF LinkInv, HoldsLinkedProgram
<1>3. CASE Parse
  BY <1>1, <1>3 DEF Parse
<1>4. CASE ParsingEnds
  BY <1>2, <1>4 DEF ParsingEnds, parserVars, programVars, instrVars
<1>5. CASE BeginLinking
  BY <1>2, <1>5 DEF BeginLinking, parserVars, programVars, instrVars
<1>6. CASE LinkInstr
  BY <1>6, LinkStep
<1>7. CASE StartPipeline
  BY <1>2, <1>7 DEF StartPipeline, parserVars, programVars, instrVars
<1>8. CASE UNCHANGED vars
  BY <1>1, <1>2, <1>8 DEF vars, parserVars, programVars, instrVars
<1> QED
  BY <1>3, <1>4, <1>5, <1>6, <1>7, <1>8 DEF Next

\* The instruction memory holds the linked program at its places and nops behind
\* it, however often its buffer grows (pipeline.c, LinkMIPSProgram;
\* instr_memory.c, WriteToInstrMemory).
THEOREM ProgramIsLinked == Spec => []HoldsLinkedProgram
<1>1. LinkInv => HoldsLinkedProgram
  BY DEF LinkInv
<1> QED
  BY <1>1, LinkInit, LinkNext, PTL DEF Spec

-----------------------------------------------------------------------------
(* The tables of the parser.                                               *)

tables == <<cur_data_addr, cur_instr_addr, instr_buf, elements>>

\* What is needed beside TablesConsistent: the tables are sequences, and the
\* data address goes nowhere below its segment.  As no address is negative,
\* none is INVALID_ADDRESS, and a label that is in the table is never given
\* another address.
TablesInv ==
  /\ IsSequence(instr_buf) /\ IsSequence(elements)
  /\ cur_data_addr \in Nat /\ DataSegStart <= cur_data_addr
  /\ TablesConsistent

\* A symbol that is found has the address of one of the elements.
LEMMA FoundSymbol ==
  ASSUME TablesInv, NEW symbol
  PROVE  /\ Keys(elements, symbol) # {} =>
              DoLinearSearch(elements, symbol) \in Keys(elements, symbol)
         /\ ~SymbolTableHasSymbol(elements, symbol) <=> Keys(elements, symbol) = {}
<1>1. Keys(elements, symbol) \subseteq 1 .. Len(elements) /\ Len(elements) \in Nat
  BY SequenceLength DEF Keys, TablesInv
<1>2. Keys(elements, symbol) # {} =>
        DoLinearSearch(elements, symbol) \in Keys(elements, symbol)
  <2> SUFFICES ASSUME Keys(elements, symbol) # {}
               PROVE  DoLinearSearch(elements, symbol) \in Keys(elements, symbol)
    OBVIOUS
  <2>1. PICK e \in Keys(elements, symbol) : TRUE
    OBVIOUS
  <2>2. \A k \in Keys(elements, symbol) : k = e
    BY <2>1 DEF Keys, TablesInv, TablesConsistent
  <2>3. e \in Int
    BY <1>1, <2>1
  <2>4. \A k \in Keys(elements, symbol) : e <= k
    BY <2>2, <2>3
  <2> QED
    BY <2>1, <2>4 DEF DoLinearSearch
<1>3. 0 \notin Keys(elements, symbol)
  BY <1>1
<1> QED
  BY <1>2, <1>3 DEF SymbolTableHasSymbol, DoLinearSearch, INVALID_KEY

\* No address in the table is the one that marks a symbol without an address.
LEMMA AddressesAreValid ==
  ASSUME TablesInv, NEW k \in DOMAIN elements
  PROVE  elements[k].address # INVALID_ADDRESS
<1>1. Len(instr_buf) \in Nat
  BY SequenceLength DEF TablesInv
<1>2. elements[k].address
        \in (TextSegStart .. cur_instr_addr) \cup (DataSegStart .. cur_data_addr)
  BY DEF TablesInv, TablesConsistent
<1> QED
  BY <1>1, <1>2, TextAssumption, DataAssumption DEF INVALID_ADDRESS

\* A label that can be added is a new one, and there is room for it.
LEMMA AddedSymbol ==
  ASSUME TablesInv, NEW symbol, NEW address, ~AddFails(elements, symbol)
  PROVE  /\ Keys(elements, symbol) = {}
         /\ Len(elements) # MaxElements
         /\ AddToSymbolTable(elements, symbol, address)
              = Append(elements, [symbol |-> symbol, address |-> address])
<1>1. ~SymbolTableHasSymbol(elements, symbol)
  <2> SUFFICES ASSUME SymbolTableHasSymbol(elements, symbol) PROVE FALSE
    OBVIOUS
  <2>1. DoLinearSearch(elements, symbol) \in Keys(elements, symbol)
    BY FoundSymbol
  <2>2. DoLinearSearch(elements, symbol) \in DOMAIN elements
    BY <2>1 DEF Keys
  <2>3. elements[DoLinearSearch(elements, symbol)].address # INVALID_ADDRESS
    BY <2>2, AddressesAreValid
  <2> QED
    BY <2>3 DEF AddFails
<1> QED
  BY <1>1, FoundSymbol DEF AddFails, AddToSymbolTable

LEMMA TablesInit == Init => TablesInv
<1> SUFFICES ASSUME Init PROVE TablesInv
  OBVIOUS
<1>1. /\ instr_buf = <<>> /\ elements = <<>>
      /\ cur_instr_addr = TextSegStart /\ cur_data_addr = DataSegStart
  BY DEF Init, ParserInit
<1>2. IsSequence(<<>>) /\ Len(<<>>) = 0 /\ DOMAIN <<>> = {}
  BY EmptySeq DEF IsSequence
<1>3. TablesConsistent
  BY <1>1, <1>2, TextAssumption, ElementsAssumption DEF TablesConsistent
<1> QED
  BY <1>1, <1>2, <1>3, DataAssumption DEF TablesInv

\* A label gets the address of what follows it (rules 10 and 13).
LEMMA LabelStep == ASSUME TablesInv, ReduceLabel PROVE TablesInv'
<1>1. CASE UNCHANGED tables
  BY <1>1 DEF tables, TablesInv, TablesConsistent
<1>2. ASSUME NEW rule \in {10, 13}, ~AddFails(elements, String(-2)),
             elements' = AddToSymbolTable(elements, String(-2), LabelAddress(rule)),
             UNCHANGED <<cur_data_addr, cur_instr_addr, instr_buf>>
      PROVE  TablesInv'
  <2> DEFINE symbol == String(-2)
             address == LabelAddress(rule)
             added == [symbol |-> symbol, address |-> address]
  <2>1. Len(elements) \in Nat /\ DOMAIN elements = 1 .. Len(elements)
        /\ Len(instr_buf) \in Nat
    BY SequenceLength DEF TablesInv
  <2>2. address \in (TextSegStart .. cur_instr_addr) \cup (DataSegStart .. cur_data_addr)
    BY <2>1, TextAssumption, DataAssumption DEF LabelAddress, TablesInv, TablesConsistent
  <2> HIDE DEF symbol, address
  <2>3. /\ Keys(elements, symbol) = {} /\ Len(elements) # MaxElements
        /\ elements' = Append(elements, added)
    BY <1>2, AddedSymbol DEF symbol, address
  <2>4. added.symbol = symbol /\ added.address = address
    OBVIOUS
  <2> HIDE DEF added
  <2>5. /\ IsSequence(elements') /\ Len(elements') = Len(elements) + 1
        /\ elements'[Len(elements) + 1] = added
        /\ \A k \in 1 .. Len(elements) : elements'[k] = elements[k]
    BY <2>3, Appended DEF TablesInv
  <2>6. DOMAIN elements' = 1 .. Len(elements) + 1
    BY <2>5, SequenceLength
  <2>7. Len(elements') <= MaxElements
    <3>1. Len(elements) <= MaxElements /\ MaxElements \in Nat
      BY ElementsAssumption DEF TablesInv, TablesConsistent
    <3>2. Len(elements) # MaxElements /\ Len(elements') = Len(elements) + 1
      BY <2>3, <2>5
    <3>3. \A m, n \in Nat : m <= n /\ m # n => m + 1 <= n
      OBVIOUS
    <3>4. Len(elements) + 1 <= MaxElements
      BY <2>1, <3>1, <3>2, <3>3
    <3> QED
      BY <3>2, <3>4
  <2>8. \A k \in 1 .. Len(elements) : elements'[k].symbol # symbol
    BY <2>1, <2>3, <2>5 DEF Keys
  <2>9. ASSUME NEW j \in DOMAIN elements', NEW k \in DOMAIN elements',
               elements'[j].symbol = elements'[k].symbol
        PROVE  j = k
    <3>1. \/ j \in 1 .. Len(elements) /\ k \in 1 .. Len(elements)
          \/ j = Len(elements) + 1 /\ k \in 1 .. Len(elements)
          \/ j \in 1 .. Len(elements) /\ k = Len(elements) + 1
          \/ j = k
      BY <2>1, <2>6
    <3>2. elements'[Len(elements) + 1].symbol = symbol
      BY <2>4, <2>5
    <3>3. CASE j \in 1 .. Len(elements) /\ k \in 1 .. Len(elements)
      BY <2>1, <2>5, <2>9, <3>3 DEF TablesInv, TablesConsistent
    <3> QED
      BY <2>8, <2>9, <3>1, <3>2, <3>3
  <2>10. ASSUME NEW k \in DOMAIN elements'
         PROVE  elements'[k].address
                  \in (TextSegStart .. cur_instr_addr) \cup (DataSegStart .. cur_data_addr)
    <3>1. k \in 1 .. Len(elements) \/ k = Len(elements) + 1
      BY <2>1, <2>6
    <3>2. CASE k \in 1 .. Len(elements)
      BY <2>1, <2>5, <3>2 DEF TablesInv, TablesConsistent
    <3>3. CASE k = Len(elements) + 1
      BY <2>2, <2>4, <2>5, <3>3
    <3> QED
      BY <3>1, <3>2, <3>3
  <2> QED
    BY <1>2, <2>5, <2>7, <2>9, <2>10 DEF TablesInv, TablesConsistent
<1> QED
  BY <1>1, <1>2 DEF ReduceLabel, Exit, tables, programVars, dataVars, instrVars

\* Data moves the data address up; labels keep the addresses they have.
LEMMA ConstantStep == ASSUME TablesInv, ReduceConstant PROVE TablesInv'
<1>1. CASE UNCHANGED tables
  BY <1>1 DEF tables, TablesInv, TablesConsistent
<1>2. ASSUME NEW rule \in 26 .. 31, cur_data_addr' = cur_data_addr + ConstantSize(rule),
             UNCHANGED <<cur_instr_addr, instr_buf, elements>>
      PROVE  TablesInv'
  <2>1. ConstantSize(rule) \in {1, 2, 4}
    BY DEF ConstantSize
  <2>2. cur_data_addr' \in Nat /\ cur_data_addr <= cur_data_addr'
        /\ DataSegStart <= cur_data_addr'
    BY <1>2, <2>1, DataAssumption DEF TablesInv
  <2>3. DataSegStart .. cur_data_addr \subseteq DataSegStart .. cur_data_addr'
    BY <2>2, DataAssumption DEF TablesInv
  <2> QED
    BY <1>2, <2>2, <2>3 DEF TablesInv, TablesConsistent
<1> QED
  BY <1>1, <1>2 DEF ReduceConstant, Exit, tables, programVars, dataVars, instrVars

\* An instruction moves the instruction address up by its size.
LEMMA InstrStep == ASSUME TablesInv, ReduceInstr PROVE TablesInv'
<1>1. CASE UNCHANGED tables
  BY <1>1 DEF tables, TablesInv, TablesConsistent
<1>2. ASSUME NEW parsed, instr_buf' = Append(instr_buf, parsed),
             cur_instr_addr' = cur_instr_addr + 4,
             UNCHANGED <<cur_data_addr, elements>>
      PROVE  TablesInv'
  <2>1. IsSequence(instr_buf') /\ Len(instr_buf') = Len(instr_buf) + 1
    BY <1>2, Appended DEF TablesInv
  <2>2. Len(instr_buf) \in Nat
    BY SequenceLength DEF TablesInv
  <2>3. cur_instr_addr' = TextSegStart + 4 * Len(instr_buf')
    BY <1>2, <2>1, <2>2, TextAssumption DEF TablesInv, TablesConsistent
  <2>4. TextSegStart .. cur_instr_addr \subseteq TextSegStart .. cur_instr_addr'
    BY <1>2, <2>2, TextAssumption DEF TablesInv, TablesConsistent
  <2> QED
    BY <1>2, <2>1, <2>3, <2>4 DEF TablesInv, TablesConsistent
<1>3. ASSUME NEW rule \in 32 .. 41, RaiseError(rule)
      PROVE  UNCHANGED tables
  BY <1>3 DEF RaiseError, tables, programVars, dataVars, instrVars
<1> QED
  BY <1>1, <1>2, <1>3 DEF ReduceInstr, Exit, tables, programVars, dataVars, instrVars

\* The other steps of the parser change no table.
LEMMA OtherSteps ==
  ASSUME \/ ReadToken \/ Shift \/ Accept \/ SyntaxError
         \/ ReducePlain \/ ReduceStart \/ ReduceError \/ ReduceSegment
  PROVE  UNCHANGED tables
BY DEF ReadToken, Shift, Accept, SyntaxError, ReducePlain, ReduceStart, ReduceError,
       ReduceSegment, Exit, tables, programVars, dataVars, instrVars

LEMMA TablesNext == TablesInv /\ [Next]_vars => TablesInv'
<1> SUFFICES ASSUME TablesInv, [Next]_vars PROVE TablesInv'
  OBVIOUS
<1>1. CASE UNCHANGED tables
  BY <1>1 DEF tables, TablesInv, TablesConsistent
<1>2. CASE Parse
  BY <1>1, <1>2, OtherSteps, LabelStep, ConstantStep, InstrStep DEF Parse, ParserNext
<1>3. CASE ParsingEnds \/ BeginLinking \/ LinkInstr \/ StartPipeline
  BY <1>1, <1>3 DEF ParsingEnds, BeginLinking, LinkInstr, StartPipeline, tables,
     parserVars, programVars, dataVars, instrVars
<1>4. CASE UNCHANGED vars
  BY <1>1, <1>4 DEF vars, tables, parserVars, programVars, dataVars, instrVars
<1> QED
  BY <1>2, <1>3, <1>4 DEF Next

\* The parser's tables agree with the places it has reached: no label is
\* defined twice or gets an address that is neither an instruction's nor of
\* data, and the table never holds more than fits (mips_parser.c,
\* AddParsedInstrToBack, AddParsedDataToBack; symbol_table.c, AddToSymbolTable).
THEOREM TablesAgree == Spec => []TablesConsistent
<1>1. TablesInv => TablesConsistent
  BY DEF TablesInv
<1> QED
  BY <1>1, TablesInit, TablesNext, PTL DEF Spec

-----------------------------------------------------------------------------
(* The stack of the parser.                                                *)

\* Two sequences with the same elements are equal.
LEMMA SameSequence ==
  ASSUME NEW s, NEW t, IsSequence(s), IsSequence(t), Len(s) = Len(t),
         \A k \in 1 .. Len(s) : s[k] = t[k]
  PROVE  s = t
<1>1. {s[k] : k \in DOMAIN s} = {t[k] : k \in DOMAIN t}
  BY SequenceLength
<1> QED
  BY <1>1, SeqEqual DEF IsSequence

\* A sequence of elements of a set is a sequence.
LEMMA SequenceIn == ASSUME NEW S, NEW s \in Seq(S) PROVE IsSequence(s)
<1>1. Len(s) \in Nat /\ s \in [1 .. Len(s) -> S]
  BY LenProperties
<1> QED
  BY <1>1, SequenceOf

\* The first n elements of a sequence.
LEMMA CutOff ==
  ASSUME NEW s, IsSequence(s), NEW n \in 0 .. Len(s)
  PROVE  /\ IsSequence(SubSeq(s, 1, n)) /\ Len(SubSeq(s, 1, n)) = n
         /\ \A k \in 1 .. n : SubSeq(s, 1, n)[k] = s[k]
<1> DEFINE S == {s[k] : k \in DOMAIN s}
<1>1. Len(s) \in Nat /\ DOMAIN s = 1 .. Len(s)
  BY SequenceLength
<1>2. n \in Int /\ \A k \in 1 .. n : s[k] \in S
  BY <1>1
<1> HIDE DEF S
<1>3. /\ SubSeq(s, 1, n) \in Seq(S)
      /\ Len(SubSeq(s, 1, n)) = IF 1 <= n THEN n - 1 + 1 ELSE 0
      /\ \A k \in 1 .. n - 1 + 1 : SubSeq(s, 1, n)[k] = s[1 + k - 1]
  BY <1>2, SubSeqProperties
<1>4. Len(SubSeq(s, 1, n)) = n
  BY <1>1, <1>3
<1>5. \A k \in 1 .. n : k \in 1 .. n - 1 + 1 /\ 1 + k - 1 = k
  BY <1>2
<1>6. \A k \in 1 .. n : SubSeq(s, 1, n)[k] = s[k]
  BY <1>3, <1>5
<1>7. IsSequence(SubSeq(s, 1, n))
  BY <1>3, SequenceIn
<1> QED
  BY <1>4, <1>6, <1>7

\* The states of the entries of a stack.
StatesOf(s) == [k \in DOMAIN s |-> s[k].state]

\* There is one state for each entry.
LEMMA StatesLength ==
  ASSUME NEW s, IsSequence(s)
  PROVE  /\ IsSequence(StatesOf(s)) /\ Len(StatesOf(s)) = Len(s)
         /\ \A k \in 1 .. Len(s) : StatesOf(s)[k] = s[k].state
<1>1. Len(s) \in Nat /\ DOMAIN s = 1 .. Len(s)
  BY SequenceLength
<1>2. StatesOf(s) \in [1 .. Len(s) -> {s[k].state : k \in DOMAIN s}]
  BY <1>1 DEF StatesOf
<1>3. \A k \in 1 .. Len(s) : StatesOf(s)[k] = s[k].state
  BY <1>1 DEF StatesOf
<1> QED
  BY <1>1, <1>2, <1>3, SequenceOf

\* Pushing an entry pushes its state.
LEMMA StatesAppended ==
  ASSUME NEW s, IsSequence(s), NEW e
  PROVE  StatesOf(Append(s, e)) = Append(StatesOf(s), e.state)
<1> DEFINE a == StatesOf(Append(s, e))
           b == Append(StatesOf(s), e.state)
<1>1. Len(s) \in Nat
  BY SequenceLength
<1>2. /\ IsSequence(a) /\ Len(a) = Len(s) + 1
      /\ a[Len(s) + 1] = e.state
      /\ \A k \in 1 .. Len(s) : a[k] = s[k].state
  <2>1. /\ IsSequence(Append(s, e)) /\ Len(Append(s, e)) = Len(s) + 1
        /\ Append(s, e)[Len(s) + 1] = e
        /\ \A k \in 1 .. Len(s) : Append(s, e)[k] = s[k]
    BY Appended
  <2>2. /\ IsSequence(a) /\ Len(a) = Len(Append(s, e))
        /\ \A k \in 1 .. Len(Append(s, e)) : a[k] = Append(s, e)[k].state
    BY <2>1, StatesLength
  <2>3. Len(s) + 1 \in 1 .. Len(s) + 1 /\ 1 .. Len(s) \subseteq 1 .. Len(s) + 1
    BY <1>1
  <2> QED
    BY <2>1, <2>2, <2>3
<1>3. /\ IsSequence(b) /\ Len(b) = Len(s) + 1
      /\ b[Len(s) + 1] = e.state
      /\ \A k \in 1 .. Len(s) : b[k] = s[k].state
  <2>1. /\ IsSequence(StatesOf(s)) /\ Len(StatesOf(s)) = Len(s)
        /\ \A k \in 1 .. Len(s) : StatesOf(s)[k] = s[k].state
    BY StatesLength
  <2> QED
    BY <2>1, Appended
<1> HIDE DEF a, b
<1>4. \A k \in 1 .. Len(s) + 1 : k \in 1 .. Len(s) \/ k = Len(s) + 1
  BY <1>1
<1>5. a = b
  BY <1>2, <1>3, <1>4, SameSequence
<1> QED
  BY <1>5 DEF a, b

\* Cutting off entries cuts off their states.
LEMMA StatesCut ==
  ASSUME NEW s, IsSequence(s), NEW n \in 0 .. Len(s)
  PROVE  StatesOf(SubSeq(s, 1, n)) = SubSeq(StatesOf(s), 1, n)
<1> DEFINE a == StatesOf(SubSeq(s, 1, n))
           b == SubSeq(StatesOf(s), 1, n)
<1>1. Len(s) \in Nat /\ \A k \in 1 .. n : k \in 1 .. Len(s)
  BY SequenceLength
<1>2. /\ IsSequence(a) /\ Len(a) = n
      /\ \A k \in 1 .. n : a[k] = s[k].state
  <2>1. /\ IsSequence(SubSeq(s, 1, n)) /\ Len(SubSeq(s, 1, n)) = n
        /\ \A k \in 1 .. n : SubSeq(s, 1, n)[k] = s[k]
    BY CutOff
  <2> QED
    BY <2>1, StatesLength
<1>3. /\ IsSequence(b) /\ Len(b) = n
      /\ \A k \in 1 .. n : b[k] = s[k].state
  <2>1. /\ IsSequence(StatesOf(s)) /\ Len(StatesOf(s)) = Len(s)
        /\ \A k \in 1 .. Len(s) : StatesOf(s)[k] = s[k].state
    BY StatesLength
  <2> QED
    BY <1>1, <2>1, CutOff
<1> HIDE DEF a, b
<1>4. a = b
  BY <1>2, <1>3, SameSequence
<1> QED
  BY <1>4 DEF a, b

\* A value whose integer and line can be used.
GoodValue(v) == v.integer \in Int /\ v.line \in Int

\* An entry in the state after an opcode has a type that begins with it, and one
\* in the state after a register has its number.
GoodEntry(e) ==
  /\ GoodValue(e)
  /\ \A token \in OpcodeTokens : e.state \in StatesAfter(token) => WrittenAs(e.string, token)
  /\ e.state \in StatesAfter("REGISTER") => e.integer \in Nat

\* An entry in none of these states need only have numbers.
LEMMA OtherEntry ==
  ASSUME NEW e, GoodValue(e), e.state \notin OpcodeStates \cup StatesAfter("REGISTER")
  PROVE  GoodEntry(e)
BY DEF GoodEntry, OpcodeStates

\* A stack the automaton can reach, with values of their kinds.
GoodStack(s) ==
  /\ IsSequence(s)
  /\ StatesOf(s) \in Viable
  /\ \A k \in 1 .. Len(s) : GoodEntry(s[k])

GoodToken(t) ==
  /\ t.token \in Tokens
  /\ GoodValue(t)
  /\ t.token \in OpcodeTokens => WrittenAs(t.string, t.token)
  /\ t.token = "REGISTER" => t.integer \in Nat

\* The part of Loader!TypeOK that the automaton itself needs.
AutomatonInv ==
  /\ source \in Sources
  /\ next \in 0 .. Len(source)
  /\ GoodStack(stack)
  /\ yychar = EMPTY \/ GoodToken(yychar)
  /\ yyerrstatus \in 0 .. 3
  /\ yynerrs \in 0 .. MaxErrors
  /\ status \in {"parsing", "accepted", "failed", "assertion", "runtime_error"}

\* A good stack is not empty nor too long, and every state on it is a state.
LEMMA StackSize ==
  ASSUME NEW s, GoodStack(s)
  PROVE  /\ Len(s) \in 1 .. MaxStack /\ DOMAIN s = 1 .. Len(s)
         /\ StatesOf(s) \in Seq(States) /\ Len(StatesOf(s)) = Len(s)
         /\ \A k \in 1 .. Len(s) : StatesOf(s)[k] = s[k].state /\ s[k].state \in States
<1>1. /\ StatesOf(s) \in Seq(States) /\ Len(StatesOf(s)) \in 1 .. MaxStack
  BY StacksClosed DEF GoodStack
<1>2. /\ Len(StatesOf(s)) = Len(s) /\ DOMAIN s = 1 .. Len(s)
      /\ \A k \in 1 .. Len(s) : StatesOf(s)[k] = s[k].state
  BY StatesLength, SequenceLength DEF GoodStack
<1>3. \A k \in 1 .. Len(StatesOf(s)) : StatesOf(s)[k] \in States
  BY <1>1, ElementOfSeq
<1> QED
  BY <1>1, <1>2, <1>3

\* A part of a good stack is one.
LEMMA GoodPart ==
  ASSUME NEW s, GoodStack(s), NEW n \in 1 .. Len(s)
  PROVE  /\ GoodStack(SubSeq(s, 1, n)) /\ Len(SubSeq(s, 1, n)) = n
         /\ \A k \in 1 .. n : SubSeq(s, 1, n)[k] = s[k]
<1>1. Len(s) \in Nat /\ Len(StatesOf(s)) = Len(s) /\ IsSequence(s) /\ n \in 0 .. Len(s)
  BY StackSize DEF GoodStack, MaxStack
<1>2. /\ IsSequence(SubSeq(s, 1, n)) /\ Len(SubSeq(s, 1, n)) = n
      /\ \A k \in 1 .. n : SubSeq(s, 1, n)[k] = s[k]
  BY <1>1, CutOff
<1>3. StatesOf(SubSeq(s, 1, n)) \in Viable
  <2>1. SubSeq(StatesOf(s), 1, n) \in Viable
    BY <1>1, StacksClosed DEF GoodStack
  <2> QED
    BY <1>1, <2>1, StatesCut
<1>4. \A k \in 1 .. n : k \in 1 .. Len(s)
  BY <1>1
<1> QED
  BY <1>2, <1>3, <1>4 DEF GoodStack

\* A good entry in a state that can stand there can be pushed.
LEMMA GoodPush ==
  ASSUME NEW s, GoodStack(s), NEW e, GoodEntry(e), Append(StatesOf(s), e.state) \in Viable
  PROVE  GoodStack(Append(s, e))
<1>1. IsSequence(s) /\ Len(s) \in Nat
  BY StackSize DEF GoodStack, MaxStack
<1>2. /\ IsSequence(Append(s, e)) /\ Len(Append(s, e)) = Len(s) + 1
      /\ Append(s, e)[Len(s) + 1] = e
      /\ \A k \in 1 .. Len(s) : Append(s, e)[k] = s[k]
  BY <1>1, Appended
<1>3. StatesOf(Append(s, e)) \in Viable
  BY <1>1, StatesAppended
<1>4. \A k \in 1 .. Len(s) + 1 : k \in 1 .. Len(s) \/ k = Len(s) + 1
  BY <1>1
<1> QED
  BY <1>2, <1>3, <1>4 DEF GoodStack

\* The state on top decides, and what is to be done is one of its decisions.
LEMMA Decided ==
  ASSUME AutomatonInv
  PROVE  /\ Len(stack) \in 1 .. MaxStack /\ State \in States
         /\ Top(StatesOf(stack)) = State
         /\ Running =>
              /\ ToDo \in Decisions(State)
              /\ ToDo > 0 => /\ GoodToken(yychar)
                             /\ ToDo = Decision(State, yytranslate[yychar.token])
<1>1. /\ Len(stack) \in 1 .. MaxStack /\ State \in States
      /\ Top(StatesOf(stack)) = State
  BY StackSize DEF AutomatonInv, State, Top, MaxStack
<1>2. CASE yypact_value_is_default(State)
  <2>1. ToDo = -yydefact[State]
    BY <1>2 DEF ToDo
  <2>2. Decision(State, yytranslate["error"]) = -yydefact[State]
    BY <1>2 DEF Decision, HasEntry
  <2>3. ToDo \in Decisions(State)
    BY <2>1, <2>2, TablesAssumption DEF Decisions
  <2>4. ~(ToDo > 0)
    <3>1. yydefact[State] \in Nat
      BY <1>1, TablesAssumption
    <3> QED
      BY <2>1, <3>1
  <2> QED
    BY <1>1, <2>3, <2>4
<1>3. CASE ~yypact_value_is_default(State)
  <2>1. Running => GoodToken(yychar)
    BY <1>3 DEF Running, NeedsToken, AutomatonInv
  <2>2. ToDo = Decision(State, yytranslate[yychar.token])
    BY <1>3 DEF ToDo
  <2>3. Running => ToDo \in Decisions(State)
    BY <2>1, <2>2 DEF Decisions, GoodToken
  <2> QED
    BY <1>1, <2>1, <2>2, <2>3
<1> QED
  BY <1>2, <1>3

\* A token is shifted to a state that can stand there, with the token's value.
LEMMA GoodShift ==
  ASSUME AutomatonInv, Running, ToDo > 0
  PROVE  GoodStack(Append(stack, Entry(ToDo, yychar)))
<1>1. /\ State \in States /\ Top(StatesOf(stack)) = State /\ ToDo \in Decisions(State)
      /\ GoodToken(yychar) /\ ToDo = Decision(State, yytranslate[yychar.token])
  BY Decided
<1>2. Append(StatesOf(stack), ToDo) \in Viable
  <2>1. ToDo \in Shifts(StatesOf(stack))
    BY <1>1 DEF Shifts
  <2> QED
    BY <2>1, StacksClosed DEF AutomatonInv, GoodStack
<1> DEFINE e == Entry(ToDo, yychar)
<1>3. /\ e.state = ToDo /\ e.string = yychar.string
      /\ e.integer = yychar.integer /\ e.line = yychar.line
  BY DEF Entry
<1> HIDE DEF e
<1>4. \A token \in OpcodeTokens \cup {"REGISTER"} :
        e.state \in StatesAfter(token) => yychar.token = token
  BY <1>1, <1>3, OperandsInPlace DEF GoodToken
<1>5. GoodEntry(e)
  <2>1. GoodValue(e)
    BY <1>1, <1>3 DEF GoodToken, GoodValue
  <2>2. ASSUME NEW token \in OpcodeTokens, e.state \in StatesAfter(token)
        PROVE  WrittenAs(e.string, token)
    <3>1. yychar.token = token
      BY <1>4, <2>2
    <3> QED
      BY <1>1, <1>3, <3>1, Zenon DEF GoodToken
  <2>3. ASSUME e.state \in StatesAfter("REGISTER") PROVE e.integer \in Nat
    <3>1. yychar.token = "REGISTER"
      BY <1>4, <2>3
    <3> QED
      BY <1>1, <1>3, <3>1, Zenon DEF GoodToken
  <2> QED
    BY <2>1, <2>2, <2>3, Zenon DEF GoodEntry
<1> QED
  BY <1>2, <1>3, <1>5, GoodPush DEF AutomatonInv, e

\* A reduction finds the symbols of its rule on the stack and leaves a good stack.
LEMMA GoodReduction ==
  ASSUME AutomatonInv, NEW rule \in 2 .. 41, Reduce(rule)
  PROVE  /\ yyr2[rule] \in Nat /\ yyr2[rule] < Len(stack)
         /\ GoodStack(Below(yyr2[rule]))
         /\ GoodStack(Reduced(rule))
         /\ rule \in Reductions(StatesOf(stack))
<1> DEFINE p == StatesOf(stack)
           rest == Below(yyr2[rule])
           n == Len(stack) - yyr2[rule]
           k == Len(rest) + (IF yyr2[rule] = 0 THEN 0 ELSE 1)
           e == Entry(Goto(rule, rest[Len(rest)].state), NoValue(stack[k].line))
<1>1. /\ Len(stack) \in 1 .. MaxStack /\ Top(p) = State /\ GoodStack(stack)
      /\ IsSequence(stack) /\ p \in Viable /\ Len(p) = Len(stack)
      /\ \A j \in 1 .. Len(stack) : p[j] = stack[j].state
  BY Decided, StackSize DEF AutomatonInv, GoodStack
<1>2. rule \in Reductions(p)
  <2>1. Running /\ ToDo = -rule /\ State # YYFINAL
    BY DEF Reduce, Running
  <2>2. -rule \in Decisions(Top(p)) /\ -rule < 0 /\ -(-rule) = rule
    BY <1>1, <2>1, Decided
  <2> QED
    BY <1>1, <2>1, <2>2 DEF Reductions
<1>3. yyr2[rule] \in Nat /\ yyr2[rule] < Len(stack) /\ n \in 1 .. Len(stack)
  <2>1. yyr2[rule] \in Nat
    BY TablesAssumption
  <2>2. yyr2[rule] < Len(p)
    BY <1>1, <1>2, StacksClosed
  <2> QED
    BY <1>1, <2>1, <2>2 DEF MaxStack
<1>4. /\ GoodStack(rest) /\ Len(rest) = n
      /\ \A j \in 1 .. n : rest[j] = stack[j]
  BY <1>1, <1>3, GoodPart DEF Below
<1>5. StatesOf(rest) = Under(p, yyr2[rule])
  <2>1. n \in 0 .. Len(stack)
    BY <1>3
  <2> QED
    BY <1>1, <2>1, StatesCut DEF Below, Under
<1>6. Top(Under(p, yyr2[rule])) = rest[Len(rest)].state
  <2>1. Len(StatesOf(rest)) = Len(rest) /\ StatesOf(rest)[Len(rest)] = rest[Len(rest)].state
    BY <1>3, <1>4, StackSize
  <2> QED
    BY <1>5, <2>1 DEF Top
<1>7. Append(StatesOf(rest), Goto(rule, rest[Len(rest)].state)) = AfterReduction(p, rule)
  BY <1>5, <1>6 DEF AfterReduction
<1>8. AfterReduction(p, rule) \in Viable
  BY <1>1, <1>2, StacksClosed
<1>9. Top(AfterReduction(p, rule)) = Goto(rule, rest[Len(rest)].state)
  <2>1. IsSequence(StatesOf(rest))
    BY <1>4, StatesLength DEF GoodStack
  <2> QED
    BY <1>7, <2>1, Appended DEF Top
<1>10. /\ e.state = Goto(rule, rest[Len(rest)].state)
       /\ e.integer = DONT_CARE /\ e.line = stack[k].line
  BY DEF Entry, NoValue, Located
<1>11. GoodEntry(e)
  <2>1. k \in 1 .. Len(stack)
    BY <1>1, <1>3, <1>4 DEF MaxStack
  <2>2. stack[k].line \in Int
    BY <1>1, <2>1 DEF GoodStack, GoodEntry, GoodValue
  <2>3. e.state \notin OpcodeStates \cup StatesAfter("REGISTER")
    <3>1. Top(AfterReduction(p, rule)) \notin OpcodeStates \cup StatesAfter("REGISTER")
      BY <1>1, <1>2, OperandsInPlace, Zenon
    <3> QED
      BY <1>9, <1>10, <3>1, Zenon
  <2>4. GoodValue(e)
    BY <1>10, <2>2 DEF GoodValue, DONT_CARE
  <2> HIDE DEF e
  <2> QED
    BY <2>3, <2>4, OtherEntry
<1>12. Reduced(rule) = Append(rest, e)
  BY DEF Reduced
<1> HIDE DEF e, rest, p
<1>13. GoodStack(Reduced(rule))
  BY <1>4, <1>7, <1>8, <1>10, <1>11, <1>12, GoodPush
<1> QED
  BY <1>2, <1>3, <1>4, <1>13 DEF rest, p

\* Recovery leaves a part of the stack and the error token on top of it.
LEMMA GoodRecovery ==
  ASSUME AutomatonInv, NEW entries, GoodStack(entries), Recover(entries)
  PROVE  /\ GoodStack(stack')
         /\ yyerrstatus' \in 0 .. 3
         /\ status' \in {status, "failed"}
<1> DEFINE Places == CanRecover(entries)
           k == CHOOSE k \in Places : \A j \in Places : j <= k
           e == Entry(Decision(entries[k].state, YYSYMBOL_YYerror), NoValue(yychar.line))
<1>1. CASE Places = {}
  BY <1>1 DEF Recover, AutomatonInv
<1>2. CASE Places # {}
  <2>1. /\ Len(entries) \in 1 .. MaxStack /\ DOMAIN entries = 1 .. Len(entries)
        /\ StatesOf(entries) \in Viable /\ DOMAIN StatesOf(entries) = 1 .. Len(entries)
        /\ \A j \in 1 .. Len(entries) : /\ StatesOf(entries)[j] = entries[j].state
                                        /\ entries[j].state \in States
    BY StackSize DEF GoodStack, StatesOf
  <2>2. Places \subseteq 1 .. Len(entries) /\ \A i, j \in Places : i = j
    BY <2>1, RecoversInOnePlace DEF CanRecover
  <2>3. k \in Places
    <3>1. PICK i \in Places : TRUE
      BY <1>2
    <3>2. i \in Int /\ \A j \in Places : j = i
      BY <2>2
    <3>3. \A j \in Places : j <= i
      BY <3>2
    <3> QED
      BY <3>3
  <2>4. /\ stack' = Append(SubSeq(entries, 1, k), e)
        /\ yyerrstatus' = 3 /\ status' = status
    BY <1>2 DEF Recover
  <2> HIDE DEF k
  <2>5. /\ k \in 1 .. Len(entries) /\ ShiftsError(entries[k].state)
        /\ entries[k].state \in States
    BY <2>1, <2>2, <2>3 DEF CanRecover
  <2>6. /\ GoodStack(SubSeq(entries, 1, k)) /\ Len(SubSeq(entries, 1, k)) = k
        /\ SubSeq(entries, 1, k)[k] = entries[k]
    BY <2>1, <2>5, GoodPart DEF MaxStack
  <2> DEFINE part == SubSeq(entries, 1, k)
             d == Decision(entries[k].state, YYSYMBOL_YYerror)
  <2> HIDE DEF part
  <2>7. Top(StatesOf(part)) = entries[k].state
    <3>1. /\ Len(part) = k /\ k \in 1 .. Len(part) /\ part[k] = entries[k]
          /\ GoodStack(part)
      BY <2>1, <2>5, <2>6 DEF part, MaxStack
    <3>2. Len(StatesOf(part)) = Len(part) /\ StatesOf(part)[k] = part[k].state
      BY <3>1, StackSize
    <3> QED
      BY <3>1, <3>2 DEF Top
  <2>8. d = Decision(entries[k].state, yytranslate["error"]) /\ d > 0
    BY <2>5, TablesAssumption DEF ShiftsError
  <2> HIDE DEF d
  <2>9. Append(StatesOf(part), d) \in Viable
    <3>1. d \in Decisions(Top(StatesOf(part)))
      BY <2>7, <2>8, TablesAssumption DEF Decisions
    <3>2. d \in Shifts(StatesOf(part))
      BY <2>8, <3>1 DEF Shifts
    <3> QED
      BY <2>6, <3>2, StacksClosed DEF GoodStack, part
  <2>10. e.state = d /\ e.integer = DONT_CARE /\ e.line = yychar.line
    BY DEF Entry, NoValue, Located, d
  <2>11. yychar.line \in Int
    <3>1. EMPTY.line = DONT_CARE
      BY DEF EMPTY, WithToken, NoValue, Located
    <3> QED
      BY <3>1 DEF AutomatonInv, GoodToken, GoodValue, DONT_CARE
  <2> HIDE DEF e
  <2>12. d \notin OpcodeStates \cup StatesAfter("REGISTER")
    <3>1. "error" \notin OpcodeTokens \cup {"REGISTER"}
      BY DEF OpcodeTokens
    <3>2. \A token \in OpcodeTokens \cup {"REGISTER"} : d \notin StatesAfter(token)
      BY <2>5, <2>8, <3>1, OperandsInPlace, TablesAssumption
    <3> QED
      BY <3>2 DEF OpcodeStates
  <2>13. GoodEntry(e)
    <3>1. GoodValue(e)
      BY <2>10, <2>11 DEF GoodValue, DONT_CARE
    <3> QED
      BY <2>10, <2>12, <3>1, OtherEntry
  <2>14. GoodStack(Append(part, e))
    BY <2>6, <2>9, <2>10, <2>13, GoodPush DEF part
  <2> QED
    BY <2>4, <2>14 DEF part
<1> QED
  BY <1>1, <1>2

\* The number of a line is positive, and grows by one with the end of a line.
LEMMA LineNumbers ==
  ASSUME NEW n \in Nat
  PROVE  /\ Line(n) \in Nat \ {0}
         /\ n >= 1 /\ source[n].token = "NEWLINE" => Line(n + 1) = Line(n) + 1
         /\ n >= 1 /\ source[n].token # "NEWLINE" => Line(n + 1) = Line(n)
<1> DEFINE S(m) == {k \in 1 .. m - 1 : source[k].token = "NEWLINE"}
<1>1. Line(n) = 1 + Cardinality(S(n)) /\ Line(n + 1) = 1 + Cardinality(S(n + 1))
  BY Zenon DEF Line
<1>2. IsFiniteSet(S(n)) /\ Cardinality(S(n)) \in Nat
  <2>1. IsFiniteSet(1 .. n - 1)
    BY FS_Interval
  <2>2. S(n) \in SUBSET (1 .. n - 1)
    OBVIOUS
  <2> HIDE DEF S
  <2>3. IsFiniteSet(S(n))
    BY <2>1, <2>2, FS_Subset
  <2> QED
    BY <2>3, FS_CardinalityType
<1>3. ASSUME n >= 1, source[n].token = "NEWLINE"
      PROVE  S(n + 1) = S(n) \cup {n} /\ n \notin S(n)
  BY <1>3
<1>4. ASSUME n >= 1, source[n].token # "NEWLINE" PROVE S(n + 1) = S(n)
  BY <1>4
<1> HIDE DEF S
<1>5. ASSUME n >= 1, source[n].token = "NEWLINE"
      PROVE  Cardinality(S(n + 1)) = Cardinality(S(n)) + 1
  BY <1>2, <1>3, <1>5, FS_AddElement
<1> QED
  BY <1>1, <1>2, <1>4, <1>5

\* The lexer's tokens are good, and so is the end of the file.
LEMMA GoodTokens == ASSUME AutomatonInv PROVE GoodToken(Token(next + 1))
<1> DEFINE n == next + 1
<1>1. /\ source \in Seq([token : Tokens, string : STRING, integer : Int])
      /\ \A k \in DOMAIN source :
           /\ source[k].token \in OpcodeTokens => WrittenAs(source[k].string, source[k].token)
           /\ source[k].token = "REGISTER" => source[k].integer \in Nat
  BY SourcesAssumption, Zenon DEF AutomatonInv
<1>2. Len(source) \in Nat /\ DOMAIN source = 1 .. Len(source)
  BY <1>1, LenProperties
<1>3. n \in Nat
  BY <1>2 DEF AutomatonInv
<1>4. \A m \in Nat : Line(m) \in Int
  BY LineNumbers
<1> HIDE DEF n
<1>5. CASE n \in DOMAIN source
  <2>1. source[n] \in [token : Tokens, string : STRING, integer : Int]
    BY <1>1, <1>2, <1>5, ElementOfSeq
  <2>2. /\ Token(n).token = source[n].token /\ Token(n).string = source[n].string
        /\ Token(n).integer = source[n].integer /\ Token(n).line = Line(n)
    BY <1>5 DEF Token, WithToken, Located
  <2>3. source[n].token \in Tokens /\ source[n].integer \in Int /\ Line(n) \in Int
    BY <1>3, <1>4, <2>1
  <2>4. /\ source[n].token \in OpcodeTokens => WrittenAs(source[n].string, source[n].token)
        /\ source[n].token = "REGISTER" => source[n].integer \in Nat
    BY <1>1, <1>5, Zenon
  <2>5. GoodToken(Token(n))
    BY <2>2, <2>3, <2>4, Zenon DEF GoodToken, GoodValue
  <2> QED
    BY <2>5 DEF n
<1>6. CASE n \notin DOMAIN source
  <2>1. /\ Token(n).token = "end of file" /\ Token(n).integer = DONT_CARE
        /\ Token(n).line = Line(Len(source) + 1)
    BY <1>6 DEF Token, WithToken, NoValue, Located
  <2>2. "end of file" \in Tokens /\ "end of file" \notin OpcodeTokens \cup {"REGISTER"}
    BY TablesAssumption DEF OpcodeTokens
  <2>3. Line(Len(source) + 1) \in Int
    BY <1>2, <1>4
  <2> DEFINE t == Token(n)
  <2>4. /\ t.token \in Tokens /\ t.token \notin OpcodeTokens \cup {"REGISTER"}
        /\ t.integer \in Int /\ t.line \in Int
    <3>1. DONT_CARE \in Int
      BY DEF DONT_CARE
    <3> QED
      BY <2>1, <2>2, <2>3, <3>1
  <2> HIDE DEF t
  <2>5. GoodToken(t)
    BY <2>4 DEF GoodToken, GoodValue
  <2> QED
    BY <2>5 DEF t, n
<1> QED
  BY <1>5, <1>6

\* The parser begins with the state 0 alone.
LEMMA AutomatonInit == ParserInit => AutomatonInv
<1> SUFFICES ASSUME ParserInit PROVE AutomatonInv
  OBVIOUS
<1> DEFINE e == Entry(0, NoValue(1))
<1>1. /\ e.state = 0 /\ e.integer = DONT_CARE /\ e.line = 1
  BY DEF Entry, NoValue, Located
<1>2. stack = <<e>>
  BY DEF ParserInit
<1> HIDE DEF e
<1>3. /\ IsSequence(stack) /\ Len(stack) = 1 /\ stack[1] = e
  <2>1. stack \in Seq({e})
    BY <1>2
  <2> QED
    BY <1>2, <2>1, SequenceIn
<1>4. StatesOf(stack) = <<0>>
  <2>1. /\ IsSequence(StatesOf(stack)) /\ Len(StatesOf(stack)) = 1
        /\ StatesOf(stack)[1] = 0
    BY <1>1, <1>3, StatesLength
  <2>2. IsSequence(<<0>>) /\ Len(<<0>>) = 1 /\ <<0>>[1] = 0
    <3>1. <<0>> \in Seq(Nat)
      OBVIOUS
    <3> QED
      BY <3>1, SequenceIn
  <2>3. \A k \in 1 .. 1 : k = 1
    OBVIOUS
  <2> QED
    BY <2>1, <2>2, <2>3, SameSequence
<1>5. GoodEntry(e)
  <2>1. GoodValue(e)
    BY <1>1 DEF GoodValue, DONT_CARE
  <2> QED
    BY <1>1, <2>1, OperandsInPlace, OtherEntry
<1>6. GoodStack(stack)
  <2>1. \A k \in 1 .. 1 : k = 1
    OBVIOUS
  <2> QED
    BY <1>3, <1>4, <1>5, <2>1, StacksClosed DEF GoodStack
<1>7. Len(source) \in Nat
  BY SourcesAssumption, LenProperties DEF ParserInit
<1> QED
  BY <1>6, <1>7, SourcesAssumption DEF ParserInit, AutomatonInv

\* A reduction that does nothing else to the automaton but reset its counters.
LEMMA AutomatonReduces ==
  ASSUME AutomatonInv, NEW rule \in 2 .. 41, Reduce(rule), stack' = Reduced(rule),
         yyerrstatus' \in 0 .. 3, yynerrs' \in 0 .. MaxErrors,
         UNCHANGED <<source, next, yychar, status>>
  PROVE  AutomatonInv'
<1>1. GoodStack(stack')
  BY GoodReduction
<1> QED
  BY <1>1 DEF AutomatonInv, EMPTY

\* The process ends in the middle of an action.
LEMMA AutomatonExits ==
  ASSUME AutomatonInv, NEW how \in {"failed", "assertion", "runtime_error"}, Exit(how)
  PROVE  AutomatonInv'
BY DEF AutomatonInv, Exit, lrVars

\* The count of errors stays within its bound.
LEMMA CountedInRange ==
  ASSUME AutomatonInv PROVE Counted(yynerrs) \in 0 .. MaxErrors
BY SourcesAssumption DEF AutomatonInv, Counted

\* The action of a rule raises an error.
LEMMA AutomatonRaises ==
  ASSUME AutomatonInv, NEW rule \in 2 .. 41, Reduce(rule), RaiseError(rule)
  PROVE  AutomatonInv'
<1>1. GoodStack(Below(yyr2[rule]))
  BY GoodReduction
<1>2. /\ GoodStack(stack') /\ yyerrstatus' \in 0 .. 3
      /\ status' \in {status, "failed"}
  BY <1>1, GoodRecovery DEF RaiseError
<1>3. yynerrs' \in 0 .. MaxErrors
  BY CountedInRange DEF RaiseError
<1> QED
  BY <1>2, <1>3 DEF AutomatonInv, RaiseError

\* The automaton reduces by a rule, or the action of the rule prevents it.
LEMMA AutomatonActs ==
  ASSUME AutomatonInv, NEW rule \in 2 .. 41, Reduce(rule),
         \/ RaiseError(rule)
         \/ Exit("failed") \/ Exit("assertion") \/ Exit("runtime_error")
         \/ /\ stack' = Reduced(rule)
            /\ UNCHANGED <<source, next, yychar, yyerrstatus, yynerrs, status>>
  PROVE  AutomatonInv'
<1>1. CASE RaiseError(rule)
  BY <1>1, AutomatonRaises
<1>2. CASE Exit("failed") \/ Exit("assertion") \/ Exit("runtime_error")
  BY <1>2, AutomatonExits
<1>3. CASE /\ stack' = Reduced(rule)
           /\ UNCHANGED <<source, next, yychar, yyerrstatus, yynerrs, status>>
  <2>1. yyerrstatus' \in 0 .. 3 /\ yynerrs' \in 0 .. MaxErrors
    BY <1>3 DEF AutomatonInv
  <2> QED
    BY <1>3, <2>1, AutomatonReduces
<1> QED
  BY <1>1, <1>2, <1>3

\* Every step of the parser keeps its stack and its lookahead good.
LEMMA AutomatonNext == AutomatonInv /\ ParserNext => AutomatonInv'
<1> SUFFICES ASSUME AutomatonInv, ParserNext PROVE AutomatonInv'
  OBVIOUS
<1>1. CASE ReadToken
  <2>1. GoodToken(yychar')
    BY <1>1, GoodTokens DEF ReadToken
  <2>2. next' \in 0 .. Len(source)
    BY <1>1 DEF ReadToken, AutomatonInv
  <2> QED
    BY <1>1, <2>1, <2>2 DEF ReadToken, AutomatonInv
<1>2. CASE Shift
  <2>1. GoodStack(stack')
    BY <1>2, GoodShift DEF Shift
  <2>2. yyerrstatus' \in 0 .. 3
    BY <1>2 DEF Shift, AutomatonInv
  <2> QED
    BY <1>2, <2>1, <2>2 DEF Shift, AutomatonInv
<1>3. CASE Accept
  BY <1>3 DEF Accept, AutomatonInv, lrVars
<1>4. CASE SyntaxError
  <2>1. yynerrs' \in 0 .. MaxErrors
    BY <1>4, CountedInRange DEF SyntaxError, AutomatonInv
  <2>2. CASE Discards /\ yychar.token = "end of file"
    BY <1>4, <2>1, <2>2 DEF SyntaxError, AutomatonInv
  <2>3. CASE ~(Discards /\ yychar.token = "end of file")
    <3>1. Recover(stack) /\ yychar' = IF Discards THEN EMPTY ELSE yychar
      BY <1>4, <2>3 DEF SyntaxError
    <3>2. /\ GoodStack(stack') /\ yyerrstatus' \in 0 .. 3
          /\ status' \in {status, "failed"}
      BY <3>1, GoodRecovery DEF AutomatonInv
    <3> QED
      BY <1>4, <2>1, <3>1, <3>2 DEF SyntaxError, AutomatonInv
  <2> QED
    BY <2>2, <2>3
<1>5. CASE ReducePlain
  <2>1. PICK rule \in PlainRules :
          /\ Reduce(rule)
          /\ stack' = Reduced(rule)
          /\ UNCHANGED <<source, next, yychar, yyerrstatus, yynerrs, status>>
    BY <1>5 DEF ReducePlain
  <2>2. rule \in 2 .. 41
    BY DEF PlainRules
  <2> QED
    BY <2>1, <2>2, AutomatonActs
<1>6. CASE ReduceStart
  <2>1. /\ Reduce(2)
        /\ \/ Exit("failed")
           \/ /\ stack' = Reduced(2)
              /\ UNCHANGED <<source, next, yychar, yyerrstatus, yynerrs, status>>
    BY <1>6 DEF ReduceStart
  <2> QED
    BY <2>1, AutomatonActs
<1>7. CASE ReduceError
  <2>1. /\ Reduce(9) /\ stack' = Reduced(9) /\ yynerrs' \in 0 .. MaxErrors
        /\ yyerrstatus' \in 0 .. 3 /\ UNCHANGED <<source, next, yychar, status>>
    BY <1>7, CountedInRange DEF ReduceError
  <2> QED
    BY <2>1, AutomatonReduces
<1>8. CASE ReduceSegment
  <2>1. PICK rule \in {18, 19} :
          /\ Reduce(rule)
          /\ stack' = Reduced(rule)
          /\ UNCHANGED <<source, next, yychar, yyerrstatus, yynerrs, status>>
    BY <1>8 DEF ReduceSegment
  <2>2. rule \in 2 .. 41
    OBVIOUS
  <2> QED
    BY <2>1, <2>2, AutomatonActs
<1>9. CASE ReduceLabel
  <2>1. PICK rule \in {10, 13} :
          /\ Reduce(rule)
          /\ \/ Exit("assertion")
             \/ /\ stack' = Reduced(rule)
                /\ UNCHANGED <<source, next, yychar, yyerrstatus, yynerrs, status>>
    BY <1>9 DEF ReduceLabel
  <2>2. rule \in 2 .. 41
    OBVIOUS
  <2> QED
    BY <2>1, <2>2, AutomatonActs
<1>10. CASE ReduceConstant
  <2>1. PICK rule \in 26 .. 31 :
          /\ Reduce(rule)
          /\ \/ Exit("assertion")
             \/ Exit("runtime_error")
             \/ /\ stack' = Reduced(rule)
                /\ UNCHANGED <<source, next, yychar, yyerrstatus, yynerrs, status>>
    BY <1>10 DEF ReduceConstant
  <2>2. rule \in 2 .. 41
    OBVIOUS
  <2> QED
    BY <2>1, <2>2, AutomatonActs
<1>11. CASE ReduceInstr
  <2>1. PICK rule \in 32 .. 41 :
          /\ Reduce(rule)
          /\ \/ RaiseError(rule)
             \/ Exit("assertion")
             \/ /\ stack' = Reduced(rule)
                /\ UNCHANGED <<source, next, yychar, yyerrstatus, yynerrs, status>>
    BY <1>11 DEF ReduceInstr
  <2>2. rule \in 2 .. 41
    OBVIOUS
  <2> QED
    BY <2>1, <2>2, AutomatonActs
<1> QED
  BY <1>1, <1>2, <1>3, <1>4, <1>5, <1>6, <1>7, <1>8, <1>9, <1>10, <1>11 DEF ParserNext

-----------------------------------------------------------------------------
(* What the parser and the linker store.                                   *)

\* What is written is an instruction.
LEMMA WrittenType ==
  ASSUME NEW type, NEW token, WrittenAs(type, token)
  PROVE  type \in InstrType
BY DEF WrittenAs, InstrType, Pseudo

\* A rule for an instruction begins with an opcode.
LEMMA Opcodes ==
  ASSUME NEW rule \in 32 .. 41
  PROVE  /\ OpcodeOf(rule) \in OpcodeTokens
         /\ rule = 32 => OpcodeOf(rule) = "RRR_INSTR"
         /\ rule = 33 => OpcodeOf(rule) = "RR_INSTR"
         /\ rule \in {34, 35} => OpcodeOf(rule) = "RRI_INSTR"
         /\ rule \in {36, 37} => OpcodeOf(rule) = "RIR_INSTR"
         /\ rule = 38 => OpcodeOf(rule) = "RI_INSTR"
         /\ rule \in {39, 40} => OpcodeOf(rule) = "I_INSTR"
         /\ rule = 41 => OpcodeOf(rule) = "EMPTY_INSTR"
BY DEF OpcodeOf, OpcodeTokens

\* The rule finds its opcode with a type that begins with it, and no other opcode
\* is on the stack; where it needs registers, they have their numbers.
LEMMA OperandPlaces ==
  ASSUME AutomatonInv, NEW rule \in 32 .. 41, Reduce(rule)
  PROVE  LET place == Len(stack) + 1 - yyr2[rule]
         IN  /\ yyr2[rule] \in Nat /\ yyr2[rule] >= 1 /\ yyr2[rule] < Len(stack)
             /\ place \in 1 .. Len(stack) /\ stack[place].state \in OpcodeStates
             /\ WrittenAs(stack[place].string, OpcodeOf(rule))
             /\ \A k \in 1 .. Len(stack) : stack[k].state \in OpcodeStates => k = place
             /\ rule = 32 => Integer(0) \in Nat /\ Integer(-2) \in Nat /\ Integer(-4) \in Nat
             /\ rule \in {34, 35} => Integer(-2) \in Nat /\ Integer(-4) \in Nat
             /\ rule = 36 => Integer(-1) \in Nat /\ Integer(-5) \in Nat
             /\ rule \in {37, 38} => Integer(-2) \in Nat
<1> DEFINE p == StatesOf(stack)
           place == Len(stack) + 1 - yyr2[rule]
<1>1. /\ yyr2[rule] \in Nat /\ yyr2[rule] < Len(stack) /\ rule \in Reductions(p)
  <2>1. rule \in 2 .. 41
    OBVIOUS
  <2> QED
    BY <2>1, GoodReduction
<1>2. yyr2[rule] >= 1
  BY TablesAssumption
<1>3. /\ Len(stack) \in 1 .. MaxStack /\ Len(p) = Len(stack) /\ p \in Viable
      /\ \A k \in 1 .. Len(stack) : p[k] = stack[k].state
  BY StackSize DEF AutomatonInv, GoodStack
<1> HIDE DEF p
<1>4. place \in 1 .. Len(stack)
  BY <1>1, <1>2, <1>3 DEF MaxStack
<1>5. /\ p[place] \in StatesAfter(OpcodeOf(rule))
      /\ \A k \in 1 .. Len(p) : p[k] \in OpcodeStates => k = place
  <2>1. /\ p[Len(p) + 1 - yyr2[rule]] \in StatesAfter(OpcodeOf(rule))
        /\ \A k \in 1 .. Len(p) : p[k] \in OpcodeStates => k = Len(p) + 1 - yyr2[rule]
    BY <1>1, <1>3, OperandsInPlace, Zenon
  <2> QED
    BY <1>3, <2>1, Zenon
<1>6. /\ rule = 32 => RegistersAt(p, {0, 2, 4})
      /\ rule \in {34, 35} => RegistersAt(p, {2, 4})
      /\ rule = 36 => RegistersAt(p, {1, 5})
      /\ rule \in {37, 38} => RegistersAt(p, {2})
  BY <1>1, <1>3, OperandsInPlace, Zenon
<1>7. \A k \in 1 .. Len(stack) : GoodEntry(stack[k])
  BY Zenon DEF AutomatonInv, GoodStack
<1> HIDE DEF place
<1>8. stack[place].state \in OpcodeStates /\ WrittenAs(stack[place].string, OpcodeOf(rule))
  <2>1. stack[place].state \in StatesAfter(OpcodeOf(rule))
    BY <1>3, <1>4, <1>5, Zenon
  <2>2. OpcodeOf(rule) \in OpcodeTokens
    BY Opcodes
  <2> QED
    BY <1>4, <1>7, <2>1, <2>2, Zenon DEF GoodEntry, OpcodeStates
<1>9. \A k \in 1 .. Len(stack) : stack[k].state \in OpcodeStates => k = place
  BY <1>3, <1>5, Zenon
<1>10. ASSUME NEW n \in Nat, n < Len(stack), p[Len(p) - n] \in StatesAfter("REGISTER"),
              NEW k \in Int, k + n = 0
       PROVE  Integer(k) \in Nat
  <2>1. Len(stack) - n \in 1 .. Len(stack) /\ Len(stack) + k = Len(stack) - n
    BY <1>3, <1>10 DEF MaxStack
  <2>2. stack[Len(stack) - n].integer \in Nat
    BY <1>3, <1>7, <1>10, <2>1, Zenon DEF GoodEntry
  <2> QED
    BY <2>1, <2>2, Zenon DEF Integer
<1>11. /\ rule = 32 => 4 < Len(stack)
       /\ rule \in {34, 35} => 4 < Len(stack)
       /\ rule = 36 => 5 < Len(stack)
       /\ rule \in {37, 38} => 2 < Len(stack)
  <2>1. /\ yyr2[32] >= 5 /\ yyr2[34] >= 5 /\ yyr2[35] >= 5 /\ yyr2[36] >= 6
        /\ yyr2[37] >= 3 /\ yyr2[38] >= 3
    BY TablesAssumption, Zenon
  <2> DEFINE n == yyr2[rule]
  <2>2. /\ rule = 32 => n >= 5
        /\ rule \in {34, 35} => n >= 5
        /\ rule = 36 => n >= 6
        /\ rule \in {37, 38} => n >= 3
    BY <2>1
  <2>3. n \in Nat /\ Len(stack) \in Nat /\ n < Len(stack)
    BY <1>1, <1>3 DEF MaxStack
  <2> HIDE DEF n
  <2> QED
    BY <2>2, <2>3
<1>12. /\ rule = 32 => Integer(0) \in Nat /\ Integer(-2) \in Nat /\ Integer(-4) \in Nat
       /\ rule \in {34, 35} => Integer(-2) \in Nat /\ Integer(-4) \in Nat
       /\ rule = 36 => Integer(-1) \in Nat /\ Integer(-5) \in Nat
       /\ rule \in {37, 38} => Integer(-2) \in Nat
  <2> DEFINE R(n) == p[Len(p) - n] \in StatesAfter("REGISTER")
  <2>1. /\ rule = 32 => R(0) /\ R(2) /\ R(4)
        /\ rule \in {34, 35} => R(2) /\ R(4)
        /\ rule = 36 => R(1) /\ R(5)
        /\ rule \in {37, 38} => R(2)
    BY <1>6, Zenon DEF RegistersAt
  <2>2. \A n \in Nat, k \in Int : n < Len(stack) /\ R(n) /\ k + n = 0 => Integer(k) \in Nat
    BY <1>10, Zenon
  <2> HIDE DEF R
  <2>3. Len(stack) \in Nat
    BY <1>3 DEF MaxStack
  <2>4. ASSUME 4 < Len(stack)
        PROVE  /\ R(0) => Integer(0) \in Nat
               /\ R(2) => Integer(-2) \in Nat
               /\ R(4) => Integer(-4) \in Nat
    <3>1. 0 < Len(stack) /\ 2 < Len(stack) /\ {0, 2, 4} \subseteq Nat
      BY <2>3, <2>4
    <3> QED
      BY <2>2, <2>4, <3>1
  <2>5. ASSUME 5 < Len(stack)
        PROVE  /\ R(1) => Integer(-1) \in Nat
               /\ R(5) => Integer(-5) \in Nat
    <3>1. 1 < Len(stack) /\ {1, 5} \subseteq Nat
      BY <2>3, <2>5
    <3> QED
      BY <2>2, <2>5, <3>1
  <2>6. ASSUME 2 < Len(stack), R(2) PROVE Integer(-2) \in Nat
    BY <2>2, <2>6
  <2> QED
    BY <1>11, <2>1, <2>4, <2>5, <2>6, Zenon
<1> QED
  BY <1>1, <1>2, <1>4, <1>8, <1>9, <1>12 DEF place

\* The type of an instruction, the line of its first symbol and its immediate.
LEMMA ParsedOperands ==
  ASSUME AutomatonInv, NEW rule \in 32 .. 41, Reduce(rule)
  PROVE  /\ Opcode(rule) \in InstrType
         /\ stack[Len(stack) + 1 - yyr2[rule]].line \in Int
         /\ Integer(0) \in Int
         /\ rule = 36 => Integer(-3) \in Int
<1>1. /\ yyr2[rule] \in Nat /\ yyr2[rule] < Len(stack) /\ yyr2[rule] >= 1
      /\ stack[Len(stack) + 1 - yyr2[rule]].string \in InstrType
      /\ Len(stack) \in 1 .. MaxStack
  <2>1. yyr2[rule] \in Nat /\ yyr2[rule] < Len(stack) /\ yyr2[rule] >= 1
    BY OperandPlaces
  <2>2. WrittenAs(stack[Len(stack) + 1 - yyr2[rule]].string, OpcodeOf(rule))
    BY OperandPlaces
  <2> QED
    BY <2>1, <2>2, WrittenType, Decided
<1>2. \A k \in 1 .. Len(stack) : stack[k].integer \in Int /\ stack[k].line \in Int
  BY DEF AutomatonInv, GoodStack, GoodEntry, GoodValue
<1>3. Len(stack) + (1 - yyr2[rule]) = Len(stack) + 1 - yyr2[rule]
  BY <1>1 DEF MaxStack
<1>4. Opcode(rule) \in InstrType
  BY <1>1, <1>3 DEF Opcode, String
<1>5. Len(stack) + 1 - yyr2[rule] \in 1 .. Len(stack) /\ Len(stack) + 0 \in 1 .. Len(stack)
  BY <1>1 DEF MaxStack
<1>6. rule = 36 => Len(stack) + (-3) \in 1 .. Len(stack)
  <2>1. yyr2[36] >= 6
    BY TablesAssumption
  <2> QED
    BY <1>1, <2>1 DEF MaxStack
<1> QED
  BY <1>2, <1>4, <1>5, <1>6 DEF Integer

\* An instruction of any format is one the pipeline knows if its operands are
\* valid.
LEMMA CreatedTyped ==
  ASSUME NEW type \in InstrType, NEW line \in Int, NEW rd, NEW rs, NEW rt, NEW imm \in Int
  PROVE  /\ LET i == CreateInstr_RRR(type, rd, rs, rt, line)
            IN  OperandsValid(i) => i \in Instr
         /\ LET i == CreateInstr_RR(type, rd, rs, line) IN OperandsValid(i) => i \in Instr
         /\ LET i == CreateInstr_RRI(type, rs, rt, imm, line)
            IN  OperandsValid(i) => i \in Instr
         /\ LET i == CreateInstr_RI(type, rt, imm, line) IN OperandsValid(i) => i \in Instr
         /\ LET i == CreateInstr_I(type, imm, line) IN OperandsValid(i) => i \in Instr
         /\ CreateInstr_Empty(type, line) \in Instr
<1> DEFINE Registers == RegNr \cup {DONT_CARE}
<1>1. DONT_CARE \in Int /\ DONT_CARE \in Registers
  BY DEF DONT_CARE
<1> HIDE DEF Registers
<1> USE <1>1 DEF CreateInstr_Empty
<1>2. OperandsValid(CreateInstr_RRR(type, rd, rs, rt, line)) => {rd, rs, rt} \subseteq Registers
  BY DEF OperandsValid, CreateInstr_RRR, Registers
<1>3. OperandsValid(CreateInstr_RR(type, rd, rs, line)) => {rd, rs} \subseteq Registers
  BY DEF OperandsValid, CreateInstr_RR, Registers
<1>4. OperandsValid(CreateInstr_RRI(type, rs, rt, imm, line)) => {rs, rt} \subseteq Registers
  BY DEF OperandsValid, CreateInstr_RRI, Registers
<1>5. OperandsValid(CreateInstr_RI(type, rt, imm, line)) => rt \in Registers
  BY DEF OperandsValid, CreateInstr_RI, Registers
<1> DEFINE Records == [type : InstrType, line_nr : Int, rd : Registers,
                       rs : Registers, rt : Registers, imm : Int]
<1>6. {rd, rs, rt} \subseteq Registers => CreateInstr_RRR(type, rd, rs, rt, line) \in Records
  BY DEF CreateInstr_RRR
<1>7. {rd, rs} \subseteq Registers => CreateInstr_RR(type, rd, rs, line) \in Records
  BY DEF CreateInstr_RR
<1>8. {rs, rt} \subseteq Registers => CreateInstr_RRI(type, rs, rt, imm, line) \in Records
  BY DEF CreateInstr_RRI
<1>9. rt \in Registers => CreateInstr_RI(type, rt, imm, line) \in Records
  BY DEF CreateInstr_RI
<1>10. CreateInstr_I(type, imm, line) \in Records /\ CreateInstr_Empty(type, line) \in Records
  BY DEF CreateInstr_I
<1>11. Instr = Records
  BY DEF Instr, Registers
<1> HIDE DEF Records, CreateInstr_Empty
<1> QED
  BY <1>2, <1>3, <1>4, <1>5, <1>6, <1>7, <1>8, <1>9, <1>10, <1>11

\* What a rule makes of valid operands is an instruction.
LEMMA ParsedTyped ==
  ASSUME AutomatonInv, NEW rule \in 32 .. 41, Reduce(rule), OperandsValid(ParsedInstr(rule))
  PROVE  ParsedInstr(rule) \in Instr
<1> DEFINE i == ParsedInstr(rule)
           type == Opcode(rule)
           line == stack[Len(stack) + 1 - yyr2[rule]].line
<1>1. /\ type \in InstrType /\ line \in Int /\ DONT_CARE \in Int /\ Integer(0) \in Int
      /\ rule = 36 => Integer(-3) \in Int
  <2>1. type \in InstrType /\ line \in Int /\ Integer(0) \in Int
    BY ParsedOperands, Zenon
  <2>2. rule = 36 => Integer(-3) \in Int
    BY ParsedOperands, Zenon
  <2>3. DONT_CARE \in Int
    BY DEF DONT_CARE
  <2> QED
    BY <2>1, <2>2, <2>3, Zenon
<1> HIDE DEF type, line
<1>2. \E rd, rs, rt : \E imm \in Int :
        \/ i = CreateInstr_RRR(type, rd, rs, rt, line)
        \/ i = CreateInstr_RR(type, rd, rs, line)
        \/ i = CreateInstr_RRI(type, rs, rt, imm, line)
        \/ i = CreateInstr_RI(type, rt, imm, line)
        \/ i = CreateInstr_I(type, imm, line)
        \/ i = CreateInstr_Empty(type, line)
  <2>1. CASE rule = 32
    <3>1. i = CreateInstr_RRR(type, Integer(-4), Integer(-2), Integer(0), line)
      BY <2>1 DEF ParsedInstr, type, line
    <3> QED
      BY <1>1, <3>1
  <2>2. CASE rule = 33
    <3>1. i = CreateInstr_RR(type, Integer(-2), Integer(0), line)
      BY <2>2 DEF ParsedInstr, type, line
    <3> QED
      BY <1>1, <3>1
  <2>3. CASE rule = 34 /\ type \in Branches
    <3>1. i = CreateInstr_RRI(type, Integer(-4), Integer(-2), Integer(0), line)
      BY <2>3 DEF ParsedInstr, type, line
    <3> QED
      BY <1>1, <3>1
  <2>4. CASE rule = 34 /\ type \notin Branches
    <3>1. i = CreateInstr_RRI(type, Integer(-2), Integer(-4), Integer(0), line)
      BY <2>4 DEF ParsedInstr, type, line
    <3> QED
      BY <1>1, <3>1
  <2>5. CASE rule = 35
    <3>1. i = CreateInstr_RRI(type, Integer(-4), Integer(-2), DONT_CARE, line)
      BY <2>5 DEF ParsedInstr, type, line
    <3> QED
      BY <1>1, <3>1
  <2>6. CASE rule = 36
    <3>1. i = CreateInstr_RRI(type, Integer(-1), Integer(-5), Integer(-3), line)
      BY <2>6 DEF ParsedInstr, type, line
    <3> QED
      BY <1>1, <2>6, <3>1
  <2>7. CASE rule = 37
    <3>1. i = CreateInstr_RRI(type, DONT_CARE, Integer(-2), DONT_CARE, line)
      BY <2>7 DEF ParsedInstr, type, line
    <3> QED
      BY <1>1, <3>1
  <2>8. CASE rule = 38
    <3>1. i = CreateInstr_RI(type, Integer(-2), Integer(0), line)
      BY <2>8 DEF ParsedInstr, type, line
    <3> QED
      BY <1>1, <3>1
  <2>9. CASE rule = 39
    <3>1. i = CreateInstr_I(type, Integer(0), line)
      BY <2>9 DEF ParsedInstr, type, line
    <3> QED
      BY <1>1, <3>1
  <2>10. CASE rule = 40
    <3>1. i = CreateInstr_I(type, DONT_CARE, line)
      BY <2>10 DEF ParsedInstr, type, line
    <3> QED
      BY <1>1, <3>1
  <2>11. CASE rule = 41
    <3>1. i = CreateInstr_Empty(type, line)
      BY <2>11 DEF ParsedInstr, type, line
    <3> QED
      BY <1>1, <3>1
  <2>12. \/ rule \in {32, 33, 34, 35} \/ rule \in {36, 37, 38} \/ rule \in {39, 40, 41}
    OBVIOUS
  <2> HIDE DEF i
  <2> QED
    BY <2>1, <2>2, <2>3, <2>4, <2>5, <2>6, <2>7, <2>8, <2>9, <2>10, <2>11, <2>12
<1>3. OperandsValid(i)
  OBVIOUS
<1> HIDE DEF i
<1>4. i \in Instr
  BY <1>1, <1>2, <1>3, CreatedTyped
<1> QED
  BY <1>4 DEF i

\* A symbol of the table has an address that can be stored in the pc.
LEMMA SymbolAddress ==
  ASSUME TablesInv, NEW symbol, SymbolTableHasSymbol(elements, symbol)
  PROVE  LookupInSymbolTable(elements, symbol) \in Nat
<1>1. DoLinearSearch(elements, symbol) \in DOMAIN elements
  BY FoundSymbol DEF Keys
<1>2. Len(instr_buf) \in Nat
  BY SequenceLength DEF TablesInv
<1>3. LookupInSymbolTable(elements, symbol)
        \in (TextSegStart .. cur_instr_addr) \cup (DataSegStart .. cur_data_addr)
  BY <1>1 DEF TablesInv, TablesConsistent, LookupInSymbolTable
<1> QED
  BY <1>3, TextAssumption, DataAssumption

\* Linking an instruction whose label is defined leaves an instruction.
LEMMA LinkedTyped ==
  ASSUME TablesInv, NEW parsed, parsed.instr \in Instr, LinkFailure(parsed) = "none"
  PROVE  LinkedInstr(parsed) \in Instr
<1>1. CASE ~NeedsLinking(parsed.instr.type)
  BY <1>1 DEF LinkedInstr, NeedsLinking
<1>2. CASE NeedsLinking(parsed.instr.type)
  <2>1. SymbolTableHasSymbol(elements, parsed.label)
    BY <1>2 DEF LinkFailure
  <2>2. LookupInSymbolTable(elements, parsed.label) \in Int
    BY <2>1, SymbolAddress
  <2>3. ZERO \in RegNr
    BY RegistersAssumption DEF ZERO, RegNr
  <2> QED
    BY <2>2, <2>3 DEF LinkedInstr, Instr
<1> QED
  BY <1>1, <1>2

\* What the parser and the linker have stored so far.
Stored ==
  /\ cur_segment \in {"TEXT", "DATA"}
  /\ \A k \in 1 .. Len(instr_buf) : instr_buf[k].instr \in Instr
  /\ data_mem \in [MemoryAddresses -> Byte]
  /\ \A k \in 1 .. Len(instrs) : instrs[k] \in Instr
  /\ linked <= Len(instr_buf)
  /\ pc \in Nat \cup {DONT_CARE}
  /\ phase \in {"parsing", "linking", "loaded", "failed", "static_error", "assertion",
                "crash", "runtime_error"}
  /\ phase = "linking" => SymbolTableHasSymbol(elements, "__start")

LoaderInv == AutomatonInv /\ TablesInv /\ LinkInv /\ Stored

\* A bubble is an instruction.
LEMMA BubbleTyped == Bubble \in Instr
BY DEF Bubble, CreateInstr_Empty, Instr, InstrType, DONT_CARE

\* Nothing has been stored before the first step.
LEMMA LoaderInit == Init => LoaderInv
<1> SUFFICES ASSUME Init PROVE LoaderInv
  OBVIOUS
<1>1. AutomatonInv /\ TablesInv /\ LinkInv
  BY AutomatonInit, TablesInit, LinkInit DEF Init
<1>2. Stored
  <2>1. instr_buf = <<>> /\ Len(instr_buf) = 0 /\ linked = 0
    BY DEF Init, ParserInit
  <2>2. data_mem \in [MemoryAddresses -> Byte]
    BY ByteAssumption DEF Init, ParserInit, ZeroMemory, Byte
  <2>3. \A k \in 1 .. Len(instrs) : instrs[k] \in Instr
    <3>1. /\ instrs = Nops(InitialInstrBufSize) /\ Len(instrs) = InitialInstrBufSize
          /\ \A k \in 1 .. InitialInstrBufSize : instrs[k] = Bubble
      BY InstrBufAssumption, NopsProperties DEF Init
    <3> QED
      BY <3>1, BubbleTyped
  <2> QED
    BY <2>1, <2>2, <2>3 DEF Init, ParserInit, Stored
<1> QED
  BY <1>1, <1>2 DEF LoaderInv

\* An instruction is stored as one.
LEMMA InstrStored ==
  ASSUME LoaderInv, ReduceInstr
  PROVE  \A k \in 1 .. Len(instr_buf') : instr_buf'[k].instr \in Instr
<1>1. CASE UNCHANGED instr_buf
  BY <1>1 DEF LoaderInv, Stored
<1>2. ASSUME NEW rule \in 32 .. 41, Reduce(rule), ~InstrFails(rule),
             instr_buf' = Append(instr_buf,
                                 [instr |-> ParsedInstr(rule), label |-> ParsedLabel(rule)])
      PROVE  \A k \in 1 .. Len(instr_buf') : instr_buf'[k].instr \in Instr
  <2> DEFINE added == [instr |-> ParsedInstr(rule), label |-> ParsedLabel(rule)]
  <2>1. added.instr \in Instr
    BY <1>2, ParsedTyped DEF InstrFails, LoaderInv
  <2> HIDE DEF added
  <2>2. /\ IsSequence(instr_buf) /\ Len(instr_buf) \in Nat
        /\ Len(instr_buf') = Len(instr_buf) + 1
        /\ instr_buf'[Len(instr_buf) + 1] = added
        /\ \A k \in 1 .. Len(instr_buf) : instr_buf'[k] = instr_buf[k]
    BY <1>2, Appended, SequenceLength DEF LoaderInv, TablesInv, added
  <2>3. \A k \in 1 .. Len(instr_buf) + 1 :
          k \in 1 .. Len(instr_buf) \/ k = Len(instr_buf) + 1
    BY <2>2
  <2> QED
    BY <2>1, <2>2, <2>3 DEF LoaderInv, Stored
<1> QED
  BY <1>1, <1>2 DEF ReduceInstr, RaiseError, Exit, programVars, instrVars

\* A constant is stored in bytes.
LEMMA ConstantStored ==
  ASSUME LoaderInv, ReduceConstant
  PROVE  data_mem' \in [MemoryAddresses -> Byte]
<1>1. CASE UNCHANGED data_mem
  BY <1>1 DEF LoaderInv, Stored
<1>2. ASSUME NEW rule \in 26 .. 31,
             data_mem' = WriteToDataMemory(data_mem, cur_data_addr, Integer(0),
                                           ConstantSize(rule))
      PROVE  data_mem' \in [MemoryAddresses -> Byte]
  <2>1. ConstantSize(rule) \in {1, 2, 4}
    BY DEF ConstantSize
  <2>2. cur_data_addr \in Int
    BY DEF LoaderInv, TablesInv
  <2>3. Integer(0) \in Int
    <3>1. Len(stack) \in 1 .. MaxStack
      BY Decided DEF LoaderInv
    <3>2. Len(stack) + 0 \in 1 .. Len(stack)
      BY <3>1 DEF MaxStack
    <3> QED
      BY <3>2 DEF Integer, LoaderInv, AutomatonInv, GoodStack, GoodEntry, GoodValue
  <2> QED
    BY <1>2, <2>1, <2>2, <2>3, StoreKeepsBytes DEF LoaderInv, Stored
<1> QED
  BY <1>1, <1>2 DEF ReduceConstant, Exit, programVars, dataVars

\* A step of the parser.
LEMMA ParseStored == ASSUME LoaderInv, Parse PROVE Stored'
<1>1. /\ cur_segment' \in {"TEXT", "DATA"}
      /\ \A k \in 1 .. Len(instr_buf') : instr_buf'[k].instr \in Instr
      /\ data_mem' \in [MemoryAddresses -> Byte]
  <2>1. CASE ReadToken \/ Shift \/ Accept \/ SyntaxError
    BY <2>1 DEF ReadToken, Shift, Accept, SyntaxError, LoaderInv, Stored,
       programVars, dataVars, instrVars
  <2>2. CASE ReducePlain \/ ReduceStart \/ ReduceError
    BY <2>2 DEF ReducePlain, ReduceStart, ReduceError, Exit, LoaderInv, Stored,
       programVars, dataVars, instrVars
  <2>3. CASE ReduceSegment \/ ReduceLabel
    BY <2>3 DEF ReduceSegment, ReduceLabel, Exit, LoaderInv, Stored,
       programVars, dataVars, instrVars
  <2>4. CASE ReduceConstant
    <3>1. UNCHANGED <<cur_segment, instr_buf>>
      BY <2>4 DEF ReduceConstant, Exit, programVars, instrVars
    <3> QED
      BY <2>4, <3>1, ConstantStored DEF LoaderInv, Stored
  <2>5. CASE ReduceInstr
    <3>1. UNCHANGED <<cur_segment, data_mem>>
      BY <2>5 DEF ReduceInstr, RaiseError, Exit, programVars, dataVars
    <3> QED
      BY <2>5, <3>1, InstrStored DEF LoaderInv, Stored
  <2> QED
    BY <2>1, <2>2, <2>3, <2>4, <2>5 DEF Parse, ParserNext
<1>2. UNCHANGED <<instrs, linked, pc, phase>> /\ phase = "parsing" /\ linked = 0
  BY DEF Parse, LoaderInv, LinkInv
<1>3. linked' <= Len(instr_buf')
  <2>1. IsSequence(instr_buf')
    BY TablesNext DEF Next, LoaderInv, TablesInv
  <2>2. Len(instr_buf') \in Nat
    BY <2>1, SequenceLength
  <2> QED
    BY <1>2, <2>2
<1> QED
  BY <1>1, <1>2, <1>3 DEF LoaderInv, Stored

\* A step of the linker.
LEMMA LinkStored == ASSUME LoaderInv, LinkInstr PROVE Stored'
<1> DEFINE parsed == instr_buf[linked + 1]
           address == TextSegStart + 4 * linked
<1>1. /\ UNCHANGED <<cur_segment, instr_buf, data_mem, elements, pc>>
      /\ phase = "linking" /\ linked < Len(instr_buf)
  BY DEF LinkInstr, parserVars, programVars, dataVars, instrVars
<1>2. /\ linked \in Nat /\ linked <= Len(instrs)
      /\ IsSequence(instrs) /\ Len(instrs) \in Nat /\ Len(instr_buf) \in Nat
  BY SequenceLength DEF LoaderInv, LinkInv, HoldsLinkedProgram, TablesInv
<1>3. CASE /\ UNCHANGED <<instrs, linked>>
           /\ phase' \in {LinkFailure(parsed), "runtime_error"}
           /\ phase' # "none"
  <2>1. phase' \in {"crash", "assertion", "runtime_error"}
    BY <1>3 DEF LinkFailure
  <2> QED
    BY <1>1, <1>3, <2>1 DEF LoaderInv, Stored
<1>4. CASE /\ instrs' = WriteToInstrMemory(instrs, address, LinkedInstr(parsed))
           /\ LinkFailure(parsed) = "none" /\ linked' = linked + 1 /\ UNCHANGED phase
  <2>1. LinkedInstr(parsed) \in Instr
    <3>1. parsed.instr \in Instr
      BY <1>1, <1>2 DEF LoaderInv, Stored
    <3> QED
      BY <1>4, <3>1, LinkedTyped DEF LoaderInv
  <2>2. /\ instrs'[linked + 1] = LinkedInstr(parsed)
        /\ IsSequence(instrs')
        /\ \A k \in 1 .. Len(instrs') :
             k # linked + 1 => instrs'[k] = IF k <= Len(instrs) THEN instrs[k] ELSE Bubble
    BY <1>2, <1>4, WriteNext
  <2>3. Len(instrs') \in Nat
    BY <2>2, SequenceLength
  <2>4. ASSUME NEW k \in 1 .. Len(instrs')
        PROVE  instrs'[k] \in Instr
    <3>1. k <= Len(instrs) => k \in 1 .. Len(instrs)
      BY <1>2, <2>3
    <3> QED
      BY <2>1, <2>2, <3>1, BubbleTyped DEF LoaderInv, Stored
  <2>5. linked' <= Len(instr_buf')
    BY <1>1, <1>2, <1>4
  <2> QED
    BY <1>1, <1>4, <2>4, <2>5 DEF LoaderInv, Stored
<1> QED
  BY <1>1, <1>3, <1>4 DEF LinkInstr

\* Every step of the loader stores what is of its kind.
LEMMA LoaderNext == LoaderInv /\ [Next]_vars => LoaderInv'
<1> SUFFICES ASSUME LoaderInv, [Next]_vars PROVE LoaderInv'
  OBVIOUS
<1>1. TablesInv' /\ LinkInv'
  BY TablesNext, LinkNext DEF LoaderInv
<1>2. AutomatonInv'
  <2>1. CASE Parse
    BY <2>1, AutomatonNext DEF Parse, LoaderInv
  <2>2. CASE UNCHANGED parserVars
    BY <2>2 DEF parserVars, lrVars, LoaderInv, AutomatonInv
  <2> QED
    BY <2>1, <2>2 DEF Next, vars, ParsingEnds, BeginLinking, LinkInstr, StartPipeline
<1>3. Stored'
  <2>1. CASE Parse
    BY <2>1, ParseStored
  <2>2. CASE ParsingEnds
    BY <2>2 DEF ParsingEnds, LoaderInv, Stored, parserVars, programVars, dataVars, instrVars
  <2>3. CASE BeginLinking
    <3>1. /\ phase' = IF SymbolTableHasSymbol(elements, "__start") THEN "linking"
                     ELSE "static_error"
          /\ UNCHANGED <<cur_segment, instr_buf, data_mem, elements, instrs, linked, pc>>
      BY <2>3 DEF BeginLinking, parserVars, programVars, dataVars, instrVars
    <3> QED
      BY <3>1 DEF LoaderInv, Stored
  <2>4. CASE LinkInstr
    BY <2>4, LinkStored
  <2>5. CASE StartPipeline
    <3>1. pc' \in Nat
      BY <2>5, SymbolAddress DEF StartPipeline, LoaderInv, Stored
    <3>2. /\ phase' \in {"loaded", "runtime_error"}
          /\ UNCHANGED <<cur_segment, instr_buf, data_mem, elements, instrs, linked>>
      BY <2>5 DEF StartPipeline, parserVars, programVars, dataVars, instrVars
    <3> QED
      BY <3>1, <3>2 DEF LoaderInv, Stored
  <2>6. CASE UNCHANGED vars
    BY <2>6 DEF vars, parserVars, programVars, dataVars, instrVars, LoaderInv, Stored
  <2> QED
    BY <2>1, <2>2, <2>3, <2>4, <2>5, <2>6 DEF Next
<1> QED
  BY <1>1, <1>2, <1>3 DEF LoaderInv

\* Whatever tokens the program consists of, the parser's stack never holds more
\* than thirteen entries, so that it neither grows nor overflows (YYINITDEPTH
\* is 200), every instruction that is collected and linked is one the pipeline
\* knows, and everything else the loader stores is of its kind (mips_parser.c,
\* yyparse and the actions of the rules; pipeline.c, LinkMIPSProgram).
THEOREM LoaderTyping == Spec => []TypeOK
<1>1. LoaderInv => TypeOK
  <2> SUFFICES ASSUME LoaderInv PROVE TypeOK
    OBVIOUS
  <2>1. /\ Len(stack) \in 1 .. 13 /\ DOMAIN stack = 1 .. Len(stack)
        /\ \A k \in 1 .. Len(stack) : stack[k].state \in DOMAIN yypact
    BY StackSize DEF LoaderInv, AutomatonInv, MaxStack, States
  <2>2. /\ DOMAIN instr_buf = 1 .. Len(instr_buf) /\ DOMAIN instrs = 1 .. Len(instrs)
        /\ Len(instr_buf) \in Nat /\ Len(elements) \in Nat
    BY SequenceLength DEF LoaderInv, TablesInv, LinkInv
  <2>3. Len(elements) \in 0 .. MaxElements /\ linked \in 0 .. Len(instr_buf)
    BY <2>2, ElementsAssumption
       DEF LoaderInv, TablesInv, TablesConsistent, LinkInv, Stored
  <2> QED
    BY <2>1, <2>2, <2>3 DEF LoaderInv, AutomatonInv, TablesInv, Stored, TypeOK
<1> QED
  BY <1>1, LoaderInit, LoaderNext, PTL DEF Spec

-----------------------------------------------------------------------------
(* Loaded programs are assembled: the operands.                            *)

\* The registers the parser gives an instruction of each type.
HasParsedOperands(i) ==
  /\ i.type \in RegisterOps => {i.rd, i.rs, i.rt} \subseteq RegNr
  /\ i.type \in ImmediateOps \cup Branches => {i.rs, i.rt} \subseteq RegNr
  /\ i.type \in Loads \cup Stores \cup {"LUI"} => i.rt \in RegNr

\* The opcode tells these types apart.
LEMMA TypesApart ==
  ASSUME NEW type, NEW token, WrittenAs(type, token)
  PROVE  /\ token \in {"RR_INSTR", "I_INSTR", "EMPTY_INSTR"} =>
              type \notin RegisterOps \cup ImmediateOps \cup Branches \cup Loads \cup Stores
                            \cup {"LUI"}
         /\ token = "RRI_INSTR" => type \notin RegisterOps \cup Loads \cup Stores \cup {"LUI"}
         /\ token \in {"RIR_INSTR", "RI_INSTR"} =>
              type \notin RegisterOps \cup ImmediateOps \cup Branches
BY DEF WrittenAs, RegisterOps, ImmediateOps, Branches, Loads, Stores

\* Every constructor fills in the type, the line and the registers it is given.
LEMMA Created ==
  ASSUME NEW type, NEW line, NEW rd, NEW rs, NEW rt, NEW imm
  PROVE  /\ LET i == CreateInstr_RRR(type, rd, rs, rt, line)
            IN  i.type = type /\ i.line_nr = line /\ i.rd = rd /\ i.rs = rs /\ i.rt = rt
         /\ LET i == CreateInstr_RR(type, rd, rs, line) IN i.type = type /\ i.line_nr = line
         /\ LET i == CreateInstr_RRI(type, rs, rt, imm, line)
            IN  i.type = type /\ i.line_nr = line /\ i.rs = rs /\ i.rt = rt
         /\ LET i == CreateInstr_RI(type, rt, imm, line)
            IN  i.type = type /\ i.line_nr = line /\ i.rt = rt
         /\ LET i == CreateInstr_I(type, imm, line) IN i.type = type /\ i.line_nr = line
         /\ LET i == CreateInstr_Empty(type, line) IN i.type = type /\ i.line_nr = line
BY DEF CreateInstr_RRR, CreateInstr_RR, CreateInstr_RRI, CreateInstr_RI, CreateInstr_I,
       CreateInstr_Empty

\* An operand that is a register number and valid is a register.
LEMMA ValidRegister ==
  ASSUME NEW i, OperandsValid(i)
  PROVE  /\ i.rd \in Nat => i.rd \in RegNr
         /\ i.rs \in Nat => i.rs \in RegNr
         /\ i.rt \in Nat => i.rt \in RegNr
BY DEF OperandsValid, DONT_CARE

\* The instruction of a rule has the type and the line of its opcode and the
\* registers of its format.
LEMMA ParsedInstruction ==
  ASSUME AutomatonInv, NEW rule \in 32 .. 41, Reduce(rule), OperandsValid(ParsedInstr(rule))
  PROVE  /\ HasParsedOperands(ParsedInstr(rule))
         /\ ParsedInstr(rule).line_nr = stack[Len(stack) + 1 - yyr2[rule]].line
<1> DEFINE i == ParsedInstr(rule)
           type == Opcode(rule)
           line == stack[Len(stack) + 1 - yyr2[rule]].line
<1>1. WrittenAs(type, OpcodeOf(rule))
  <2>1. WrittenAs(stack[Len(stack) + 1 - yyr2[rule]].string, OpcodeOf(rule))
    BY OperandPlaces
  <2>2. Len(stack) + (1 - yyr2[rule]) = Len(stack) + 1 - yyr2[rule]
    <3>1. yyr2[rule] \in Nat /\ Len(stack) \in Nat
      BY OperandPlaces, Decided DEF MaxStack
    <3> QED
      BY <3>1
  <2> QED
    BY <2>1, <2>2, Zenon DEF Opcode, String
<1>2. /\ rule = 32 => Integer(0) \in Nat /\ Integer(-2) \in Nat /\ Integer(-4) \in Nat
      /\ rule \in {34, 35} => Integer(-2) \in Nat /\ Integer(-4) \in Nat
      /\ rule = 36 => Integer(-1) \in Nat /\ Integer(-5) \in Nat
      /\ rule \in {37, 38} => Integer(-2) \in Nat
  BY OperandPlaces
<1>3. /\ OpcodeOf(rule) \in {"RR_INSTR", "I_INSTR", "EMPTY_INSTR"} =>
           type \notin RegisterOps \cup ImmediateOps \cup Branches \cup Loads \cup Stores
                         \cup {"LUI"}
      /\ OpcodeOf(rule) = "RRI_INSTR" =>
           type \notin RegisterOps \cup Loads \cup Stores \cup {"LUI"}
      /\ OpcodeOf(rule) \in {"RIR_INSTR", "RI_INSTR"} =>
           type \notin RegisterOps \cup ImmediateOps \cup Branches
  BY <1>1, TypesApart
<1> HIDE DEF type, line
<1>4. CASE rule = 32
  <2>1. i = CreateInstr_RRR(type, Integer(-4), Integer(-2), Integer(0), line)
    BY <1>4 DEF ParsedInstr, type, line
  <2>2. /\ i.type = type /\ i.line_nr = line
        /\ i.rd = Integer(-4) /\ i.rs = Integer(-2) /\ i.rt = Integer(0)
    BY <2>1, Created
  <2>3. i.rd \in RegNr /\ i.rs \in RegNr /\ i.rt \in RegNr
    <3> HIDE DEF i
    <3>1. i.rd \in Nat /\ i.rs \in Nat /\ i.rt \in Nat
      BY <1>2, <1>4, <2>2
    <3> QED
      BY <3>1, ValidRegister DEF i
  <2> HIDE DEF i
  <2> QED
    BY <2>2, <2>3 DEF HasParsedOperands, i, line
<1>5. CASE rule \in {34, 35}
  <2>1. \/ i = CreateInstr_RRI(type, Integer(-4), Integer(-2), Integer(0), line)
        \/ i = CreateInstr_RRI(type, Integer(-2), Integer(-4), Integer(0), line)
        \/ i = CreateInstr_RRI(type, Integer(-4), Integer(-2), DONT_CARE, line)
    <3>1. CASE rule = 34
      BY <3>1 DEF ParsedInstr, type, line
    <3>2. CASE rule = 35
      BY <3>2 DEF ParsedInstr, type, line
    <3> QED
      BY <1>5, <3>1, <3>2
  <2> HIDE DEF i
  <2>2. /\ i.type = type /\ i.line_nr = line
        /\ {i.rs, i.rt} \subseteq {Integer(-4), Integer(-2)}
    BY <2>1, Created
  <2>3. i.rs \in RegNr /\ i.rt \in RegNr
    <3>1. i.rs \in Nat /\ i.rt \in Nat
      BY <1>2, <1>5, <2>2
    <3> QED
      BY <3>1, ValidRegister DEF i
  <2>4. type \notin RegisterOps
    BY <1>3, <1>5, Opcodes
  <2> QED
    BY <2>2, <2>3, <2>4 DEF HasParsedOperands, i, line
<1>6. CASE rule \in {36, 37, 38}
  <2>1. \/ /\ rule = 36
           /\ i = CreateInstr_RRI(type, Integer(-1), Integer(-5), Integer(-3), line)
        \/ rule = 37 /\ i = CreateInstr_RRI(type, DONT_CARE, Integer(-2), DONT_CARE, line)
        \/ rule = 38 /\ i = CreateInstr_RI(type, Integer(-2), Integer(0), line)
    <3>1. CASE rule = 36
      BY <3>1 DEF ParsedInstr, type, line
    <3>2. CASE rule = 37
      BY <3>2 DEF ParsedInstr, type, line
    <3>3. CASE rule = 38
      BY <3>3 DEF ParsedInstr, type, line
    <3> QED
      BY <1>6, <3>1, <3>2, <3>3
  <2> HIDE DEF i
  <2>2. /\ i.type = type /\ i.line_nr = line
        /\ \/ rule = 36 /\ i.rt = Integer(-5)
           \/ rule \in {37, 38} /\ i.rt = Integer(-2)
    BY <2>1, Created
  <2>3. i.rt \in RegNr
    <3>1. i.rt \in Nat
      BY <1>2, <2>2
    <3> QED
      BY <3>1, ValidRegister DEF i
  <2>4. type \notin RegisterOps \cup ImmediateOps \cup Branches
    BY <1>3, <1>6, Opcodes
  <2> QED
    BY <2>2, <2>3, <2>4 DEF HasParsedOperands, i, line
<1>7. CASE rule \in {33, 39, 40, 41}
  <2>1. \/ i = CreateInstr_RR(type, Integer(-2), Integer(0), line)
        \/ i = CreateInstr_I(type, Integer(0), line)
        \/ i = CreateInstr_I(type, DONT_CARE, line)
        \/ i = CreateInstr_Empty(type, line)
    <3>1. CASE rule = 33
      BY <3>1 DEF ParsedInstr, type, line
    <3>2. CASE rule = 39
      BY <3>2 DEF ParsedInstr, type, line
    <3>3. CASE rule = 40
      BY <3>3 DEF ParsedInstr, type, line
    <3>4. CASE rule = 41
      BY <3>4 DEF ParsedInstr, type, line
    <3> QED
      BY <1>7, <3>1, <3>2, <3>3, <3>4
  <2> HIDE DEF i
  <2>2. i.type = type /\ i.line_nr = line
    BY <2>1, Created
  <2>3. type \notin RegisterOps \cup ImmediateOps \cup Branches \cup Loads \cup Stores
                      \cup {"LUI"}
    BY <1>3, <1>7, Opcodes
  <2> QED
    BY <2>2, <2>3 DEF HasParsedOperands, i, line
<1>8. rule = 32 \/ rule \in {34, 35} \/ rule \in {36, 37, 38} \/ rule \in {33, 39, 40, 41}
  OBVIOUS
<1> QED
  BY <1>4, <1>5, <1>6, <1>7, <1>8

\* The linker leaves the type and the line of an instruction, and gives a load
\* or store its base register.
LEMMA LinkedOperands ==
  ASSUME NEW parsed, parsed.instr \in Instr, HasParsedOperands(parsed.instr)
  PROVE  /\ HasOperands(LinkedInstr(parsed))
         /\ LinkedInstr(parsed).line_nr = parsed.instr.line_nr
<1> DEFINE i == parsed.instr
           l == LinkedInstr(parsed)
<1>1. /\ l.type = i.type /\ l.line_nr = i.line_nr /\ l.rd = i.rd /\ l.rt = i.rt
      /\ l.rs = IF i.type \in Loads \cup Stores THEN ZERO ELSE i.rs
  BY DEF LinkedInstr, NeedsLinking, Instr
<1>2. ZERO \in RegNr
  BY RegistersAssumption DEF ZERO, RegNr
<1>3. i.type \in RegisterOps \cup ImmediateOps \cup Branches => i.type \notin Loads \cup Stores
  BY DEF RegisterOps, ImmediateOps, Branches, Loads, Stores
<1> HIDE DEF l
<1>4. HasOperands(l)
  BY <1>1, <1>2, <1>3 DEF HasOperands, HasParsedOperands
<1> QED
  BY <1>1, <1>4 DEF l

-----------------------------------------------------------------------------
(* Loaded programs are assembled: the lines.                               *)

\* The line of the last instruction so far.
LastLine == IF Len(instr_buf) = 0 THEN 0 ELSE instr_buf[Len(instr_buf)].instr.line_nr

\* The line of the token to be shifted next.
Pending == IF yychar = EMPTY THEN Line(next + 1) ELSE yychar.line

\* The lookahead is on the line reached so far, or it ended the line before.
LookaheadInv ==
  yychar # EMPTY => /\ yychar.line <= Line(next + 1)
                    /\ yychar.token = "NEWLINE" => yychar.line < Line(next + 1)

\* The instructions stand in the order of their lines.
InOrder ==
  /\ \A k \in 1 .. Len(instr_buf) : instr_buf[k].instr.line_nr \in 1 .. LastLine
  /\ \A j, k \in 1 .. Len(instr_buf) :
       j < k => instr_buf[j].instr.line_nr < instr_buf[k].instr.line_nr

\* Until the line of the last instruction has ended, no other opcode is shifted.
Ahead ==
  /\ LastLine \in Nat
  /\ LastLine <= Pending
  /\ State \notin AfterInstr => LastLine < Pending
  /\ \A k \in 1 .. Len(stack) :
       stack[k].state \in OpcodeStates => LastLine < stack[k].line /\ stack[k].line <= Pending

\* While no error has been counted, none is being recovered from.
LinesInv == yynerrs = 0 => yyerrstatus = 0 /\ InOrder /\ Ahead

\* A program that has been reduced as a whole had no errors.
EndsInv ==
  /\ status \in {"parsing", "accepted"} /\ State \in EndStates => yynerrs = 0
  /\ status = "accepted" => yynerrs = 0

OperandsInv == \A k \in 1 .. Len(instr_buf) : HasParsedOperands(instr_buf[k].instr)

ParsedInv == LookaheadInv /\ LinesInv /\ EndsInv /\ OperandsInv

\* The stack after a reduction.
LEMMA ReducedStack ==
  ASSUME AutomatonInv, NEW rule \in 2 .. 41, Reduce(rule)
  PROVE  LET reduced == Reduced(rule)
             n == Len(stack) - yyr2[rule]
         IN  /\ n \in 1 .. Len(stack) /\ Len(stack) \in Nat /\ Len(reduced) = n + 1
             /\ \A k \in 1 .. n : reduced[k] = stack[k]
             /\ reduced[n + 1].state = Top(AfterReduction(StatesOf(stack), rule))
             /\ reduced[n + 1].state \notin OpcodeStates
             /\ reduced[n + 1].state \in EndStates => rule = 2
             /\ rule \in 32 .. 41 \/ State \in AfterInstr => reduced[n + 1].state \in AfterInstr
<1> DEFINE p == StatesOf(stack)
           rest == Below(yyr2[rule])
           n == Len(stack) - yyr2[rule]
           line == stack[Len(rest) + (IF yyr2[rule] = 0 THEN 0 ELSE 1)].line
           e == Entry(Goto(rule, rest[Len(rest)].state), NoValue(line))
           reduced == Reduced(rule)
<1>1. /\ yyr2[rule] \in Nat /\ yyr2[rule] < Len(stack) /\ GoodStack(rest)
      /\ rule \in Reductions(p) /\ GoodStack(reduced)
  BY GoodReduction
<1>2. /\ Len(stack) \in 1 .. MaxStack /\ p \in Viable /\ Top(p) = State
  BY Decided DEF AutomatonInv, GoodStack
<1>3. n \in 1 .. Len(stack) /\ Len(stack) \in Nat
  BY <1>1, <1>2 DEF MaxStack
<1>4. Len(rest) = n /\ \A k \in 1 .. n : rest[k] = stack[k]
  BY <1>3, GoodPart DEF Below, AutomatonInv
<1>5. reduced = Append(rest, e)
  BY Zenon DEF Reduced
<1>6. /\ Len(reduced) = n + 1 /\ reduced[n + 1] = e
      /\ \A k \in 1 .. n : reduced[k] = stack[k]
  <2> HIDE DEF e, rest, n, reduced
  <2>1. IsSequence(rest)
    BY <1>1, Zenon DEF GoodStack
  <2>2. /\ Len(Append(rest, e)) = n + 1 /\ Append(rest, e)[n + 1] = e
        /\ \A k \in 1 .. n : Append(rest, e)[k] = rest[k]
    BY <1>4, <2>1, Appended
  <2> QED
    BY <1>4, <1>5, <2>2, Zenon
<1>7. e.state = Top(AfterReduction(p, rule))
  <2>1. e.state = Goto(rule, rest[Len(rest)].state)
    BY DEF Entry
  <2>2. StatesOf(rest) = Under(p, yyr2[rule])
    <3>1. n \in 0 .. Len(stack) /\ IsSequence(stack) /\ Len(p) = Len(stack)
      BY <1>3, StackSize DEF AutomatonInv, GoodStack
    <3> QED
      BY <3>1, StatesCut DEF Below, Under
  <2>3. Len(StatesOf(rest)) = Len(rest) /\ StatesOf(rest)[Len(rest)] = rest[Len(rest)].state
    BY <1>1, <1>3, <1>4, StackSize
  <2>4. AfterReduction(p, rule) = Append(StatesOf(rest), e.state)
    BY <2>1, <2>2, <2>3, Zenon DEF AfterReduction, Top
  <2>5. IsSequence(StatesOf(rest))
    BY <1>1, StatesLength DEF GoodStack
  <2> HIDE DEF e, rest
  <2> QED
    BY <2>4, <2>5, Appended DEF Top
<1> HIDE DEF e, rest, p, reduced, n
<1>8. /\ e.state \notin OpcodeStates
      /\ e.state \in EndStates => rule = 2
      /\ rule \in 32 .. 41 \/ State \in AfterInstr => e.state \in AfterInstr
  <2>1. e.state \notin OpcodeStates
    BY <1>1, <1>2, <1>7, OperandsInPlace
  <2> DEFINE top == Top(AfterReduction(p, rule))
  <2>2. /\ top \in EndStates => rule = 2
        /\ rule \in 32 .. 41 \/ Top(p) \in AfterInstr => top \in AfterInstr
    BY <1>1, <1>2, EndsInPlace
  <2> HIDE DEF top
  <2> QED
    BY <1>2, <1>7, <2>1, <2>2 DEF top
<1> QED
  BY <1>3, <1>6, <1>7, <1>8, Zenon DEF n, reduced, p

\* Recovery never leads to the end of the program.
LEMMA RecoveredState ==
  ASSUME AutomatonInv, NEW entries, GoodStack(entries), Recover(entries), status = "parsing"
  PROVE  status' = "failed" \/ (status' = "parsing" /\ State' \notin EndStates)
<1> DEFINE Places == CanRecover(entries)
           k == CHOOSE k \in Places : \A j \in Places : j <= k
           e == Entry(Decision(entries[k].state, YYSYMBOL_YYerror), NoValue(yychar.line))
           part == SubSeq(entries, 1, k)
<1>1. CASE Places = {}
  BY <1>1 DEF Recover
<1>2. CASE Places # {}
  <2>1. /\ Len(entries) \in 1 .. MaxStack /\ DOMAIN entries = 1 .. Len(entries)
        /\ StatesOf(entries) \in Viable /\ DOMAIN StatesOf(entries) = 1 .. Len(entries)
        /\ \A j \in 1 .. Len(entries) : /\ StatesOf(entries)[j] = entries[j].state
                                        /\ entries[j].state \in States
    BY StackSize DEF GoodStack, StatesOf
  <2>2. Places \subseteq 1 .. Len(entries) /\ \A i, j \in Places : i = j
    BY <2>1, RecoversInOnePlace DEF CanRecover
  <2>3. k \in Places
    <3>1. PICK i \in Places : TRUE
      BY <1>2
    <3>2. i \in Int /\ \A j \in Places : j = i
      BY <2>2
    <3>3. \A j \in Places : j <= i
      BY <3>2
    <3> QED
      BY <3>3
  <2>4. stack' = Append(part, e) /\ status' = status
    BY <1>2 DEF Recover
  <2> HIDE DEF k
  <2>5. /\ k \in 1 .. Len(entries) /\ ShiftsError(entries[k].state)
        /\ entries[k].state \in States
    BY <2>1, <2>2, <2>3 DEF CanRecover
  <2>6. GoodStack(part) /\ Len(part) = k /\ k \in Nat
    BY <2>1, <2>5, GoodPart DEF MaxStack
  <2> HIDE DEF part
  <2>7. State' = e.state
    <3>1. IsSequence(part)
      BY <2>6, Zenon DEF GoodStack
    <3> HIDE DEF e
    <3>2. Len(Append(part, e)) = k + 1 /\ Append(part, e)[k + 1] = e
      BY <2>6, <3>1, Appended
    <3> QED
      BY <2>4, <3>2, Zenon DEF State
  <2>8. e.state = Decision(entries[k].state, yytranslate["error"])
    BY TablesAssumption DEF Entry
  <2>9. e.state \notin EndStates
    <3>1. "error" \in Tokens
      BY TablesAssumption
    <3>2. \A state \in States, token \in Tokens :
            Decision(state, yytranslate[token]) \in EndStates => state \in EndStates
      BY EndsInPlace, Zenon
    <3>3. \A state \in EndStates : ~ShiftsError(state)
      BY EndsInPlace, Zenon
    <3>4. entries[k].state \notin EndStates
      BY <2>5, <3>3, Zenon
    <3>5. Decision(entries[k].state, yytranslate["error"]) \notin EndStates
      BY <2>5, <3>1, <3>2, <3>4, Zenon
    <3> HIDE DEF e
    <3> QED
      BY <2>8, <3>5, Zenon
  <2> QED
    BY <2>4, <2>7, <2>9, Zenon
<1> QED
  BY <1>1, <1>2

\* The lookahead is no token when there is none.
LEMMA Lookahead ==
  ASSUME NEW t, GoodToken(t)
  PROVE  t # EMPTY
<1>1. EMPTY.token = "none"
  BY DEF EMPTY, WithToken
<1> QED
  BY <1>1, TablesAssumption DEF GoodToken

\* The line reached so far, after a step that keeps the source.
LEMMA NextLine ==
  ASSUME source' = source
  PROVE  Line(next + 1)' = Line(next' + 1)
BY Zenon DEF Line

\* Reading a token does not change which line comes next.
LEMMA LookaheadRead ==
  ASSUME AutomatonInv, ReadToken
  PROVE  LookaheadInv' /\ Pending' = Pending
<1> DEFINE n == next + 1
           t == Token(n)
<1>1. /\ yychar' = t /\ yychar = EMPTY /\ source' = source
      /\ next' = IF next < Len(source) THEN n ELSE next
  BY DEF ReadToken, NeedsToken
<1>2. next \in 0 .. Len(source) /\ Len(source) \in Nat /\ DOMAIN source = 1 .. Len(source)
  <2>1. source \in Seq([token : Tokens, string : STRING, integer : Int])
    BY SourcesAssumption DEF AutomatonInv
  <2> QED
    BY <2>1, LenProperties DEF AutomatonInv
<1>3. n \in Nat /\ n >= 1
  BY <1>2
<1>4. t # EMPTY
  BY GoodTokens, Lookahead
<1>5. /\ t.line = Line(n) /\ t.line <= Line(next' + 1)
      /\ t.token = "NEWLINE" => t.line < Line(next' + 1)
  <2>1. CASE next < Len(source)
    <3>1. n \in DOMAIN source /\ next' = n
      BY <1>1, <1>2, <2>1
    <3>2. t.line = Line(n) /\ t.token = source[n].token
      BY <3>1 DEF Token, WithToken, Located
    <3> HIDE DEF t, n
    <3>3. /\ Line(n) \in Nat
          /\ source[n].token = "NEWLINE" => Line(n + 1) = Line(n) + 1
          /\ source[n].token # "NEWLINE" => Line(n + 1) = Line(n)
      BY <1>3, LineNumbers
    <3> DEFINE before == Line(n)
               after == Line(next' + 1)
    <3>4. after = Line(n + 1)
      BY <3>1
    <3> HIDE DEF before, after
    <3>5. /\ before \in Nat /\ t.line = before
          /\ t.token = "NEWLINE" => after = before + 1
          /\ t.token # "NEWLINE" => after = before
      BY <3>2, <3>3, <3>4, Zenon DEF before
    <3>6. t.line <= after /\ (t.token = "NEWLINE" => t.line < after)
      BY <3>5
    <3> QED
      BY <3>2, <3>6, Zenon DEF after
  <2>2. CASE ~(next < Len(source))
    <3>1. n \notin DOMAIN source /\ next' = next /\ n = Len(source) + 1
      BY <1>1, <1>2, <2>2
    <3>2. t.line = Line(n) /\ t.token = "end of file"
      BY <3>1 DEF Token, WithToken, NoValue, Located
    <3>3. next' + 1 = n
      BY <3>1
    <3> HIDE DEF t, n
    <3>4. Line(n) \in Nat
      BY <1>3, LineNumbers
    <3>5. Line(next' + 1) = Line(n)
      BY <3>3, Zenon
    <3> DEFINE now == Line(n)
    <3> HIDE DEF now
    <3>6. now <= now
      BY <3>4 DEF now
    <3> QED
      BY <3>2, <3>5, <3>6, Zenon DEF now
  <2> HIDE DEF t, n
  <2> QED
    BY <2>1, <2>2, Zenon
<1>6. Pending = Line(n)
  BY <1>1, Zenon DEF Pending
<1> HIDE DEF t, n
<1>7. Line(next + 1)' = Line(next' + 1)
  BY <1>1, NextLine
<1>8. LookaheadInv'
  BY <1>1, <1>5, <1>7, Zenon DEF LookaheadInv
<1>9. Pending' = t.line
  BY <1>1, <1>4, Zenon DEF Pending
<1> QED
  BY <1>5, <1>6, <1>8, <1>9, Zenon

\* A step that reads no token keeps the lookahead or consumes it.
LEMMA LookaheadKept ==
  ASSUME LookaheadInv, UNCHANGED <<source, next>>, yychar' \in {yychar, EMPTY}
  PROVE  LookaheadInv' /\ (yychar' = yychar => Pending' = Pending)
<1>1. Line(next + 1)' = Line(next + 1)
  BY NextLine
<1> QED
  BY <1>1, Zenon DEF LookaheadInv, Pending

\* The lines after a step that only reads.
LEMMA LinesKept ==
  ASSUME LinesInv, UNCHANGED <<stack, instr_buf, yynerrs, yyerrstatus, Pending>>
  PROVE  LinesInv'
BY DEF LinesInv, InOrder, Ahead, LastLine, State

\* Shifting a token: if an instruction came last, its line ends.
LEMMA LinesShifted ==
  ASSUME AutomatonInv, LookaheadInv, LinesInv, Shift
  PROVE  LinesInv'
<1> SUFFICES ASSUME yynerrs' = 0 PROVE yyerrstatus' = 0 /\ InOrder' /\ Ahead'
  BY DEF LinesInv
<1> DEFINE e == Entry(ToDo, yychar)
<1>1. /\ Running /\ ToDo > 0 /\ stack' = Append(stack, e) /\ yychar' = EMPTY
      /\ yyerrstatus' = IF yyerrstatus = 0 THEN 0 ELSE yyerrstatus - 1
      /\ UNCHANGED <<source, next, yynerrs, instr_buf>>
  BY DEF Shift, programVars, instrVars
<1>2. yyerrstatus = 0 /\ InOrder /\ Ahead
  BY <1>1 DEF LinesInv
<1>3. /\ GoodToken(yychar) /\ ToDo = Decision(State, yytranslate[yychar.token])
      /\ State \in States /\ Len(stack) \in Nat /\ IsSequence(stack)
  BY <1>1, Decided DEF AutomatonInv, GoodStack, MaxStack
<1>4. yychar # EMPTY
  BY <1>3, Lookahead
<1>5. /\ Pending = yychar.line /\ Pending' = Line(next + 1)
      /\ yychar.line <= Line(next + 1)
      /\ yychar.token = "NEWLINE" => yychar.line < Line(next + 1)
  <2>1. Line(next + 1)' = Line(next + 1)
    BY <1>1, NextLine
  <2> QED
    BY <1>1, <1>4, <2>1, Zenon DEF Pending, LookaheadInv
<1>6. yychar.line \in Int /\ Line(next + 1) \in Int /\ LastLine \in Nat
  <2>1. next + 1 \in Nat
    BY SourcesAssumption, LenProperties DEF AutomatonInv
  <2> QED
    BY <1>2, <1>3, <2>1, LineNumbers DEF GoodToken, GoodValue, Ahead
<1>7. State \in AfterInstr => yychar.token = "NEWLINE"
  BY <1>1, <1>3, EndsInPlace DEF GoodToken
<1>8. /\ e.line = yychar.line
      /\ e.state \in OpcodeStates => yychar.token \in OpcodeTokens
  <2>1. e.state = ToDo /\ e.line = yychar.line
    BY DEF Entry
  <2> HIDE DEF e
  <2>2. ASSUME e.state \in OpcodeStates PROVE yychar.token \in OpcodeTokens
    <3>1. PICK token \in OpcodeTokens : e.state \in StatesAfter(token)
      BY <2>2 DEF OpcodeStates
    <3> QED
      BY <1>3, <2>1, <3>1, OperandsInPlace DEF GoodToken
  <2> QED
    BY <2>1, <2>2
<1>9. "NEWLINE" \notin OpcodeTokens
  BY DEF OpcodeTokens
<1> HIDE DEF e
<1>10. /\ Len(stack') = Len(stack) + 1 /\ stack'[Len(stack) + 1] = e
       /\ \A k \in 1 .. Len(stack) : stack'[k] = stack[k]
  BY <1>1, <1>3, Appended
<1>11. LastLine' = LastLine /\ InOrder'
  BY <1>1, <1>2 DEF LastLine, InOrder
<1>12. LastLine < Line(next + 1)
  BY <1>2, <1>5, <1>6, <1>7 DEF Ahead
<1>13. ASSUME NEW k \in 1 .. Len(stack) + 1, stack'[k].state \in OpcodeStates
       PROVE  LastLine < stack'[k].line /\ stack'[k].line <= Line(next + 1)
  <2>1. CASE k = Len(stack) + 1
    <3>1. State \notin AfterInstr
      BY <1>7, <1>8, <1>9, <1>10, <1>13, <2>1
    <3> QED
      BY <1>2, <1>5, <1>6, <1>8, <1>10, <2>1, <3>1 DEF Ahead
  <2>2. CASE k \in 1 .. Len(stack)
    <3>1. LastLine < stack[k].line /\ stack[k].line <= yychar.line
      BY <1>2, <1>5, <1>10, <1>13, <2>2 DEF Ahead
    <3>2. stack[k].line \in Int
      BY <2>2 DEF AutomatonInv, GoodStack, GoodEntry, GoodValue
    <3> QED
      BY <1>5, <1>6, <1>10, <2>2, <3>1, <3>2
  <2>3. k = Len(stack) + 1 \/ k \in 1 .. Len(stack)
    BY <1>3
  <2> QED
    BY <2>1, <2>2, <2>3
<1>14. Ahead'
  BY <1>5, <1>6, <1>10, <1>11, <1>12, <1>13 DEF Ahead
<1> QED
  BY <1>1, <1>2, <1>11, <1>14

\* Reducing by a rule that adds no instruction.
LEMMA LinesReduced ==
  ASSUME AutomatonInv, LookaheadInv, LinesInv, NEW rule \in 2 .. 41, Reduce(rule),
         stack' = Reduced(rule),
         UNCHANGED <<source, next, yychar, instr_buf, yynerrs, yyerrstatus>>
  PROVE  LinesInv'
<1> SUFFICES ASSUME yynerrs' = 0 PROVE yyerrstatus' = 0 /\ InOrder' /\ Ahead'
  BY DEF LinesInv
<1>1. yyerrstatus = 0 /\ InOrder /\ Ahead
  BY DEF LinesInv
<1>2. Pending' = Pending
  BY LookaheadKept
<1>3. InOrder' /\ LastLine' = LastLine
  BY <1>1 DEF InOrder, LastLine
<1> DEFINE n == Len(stack) - yyr2[rule]
<1>4. /\ n \in 1 .. Len(stack) /\ Len(stack) \in Nat /\ Len(stack') = n + 1
      /\ \A k \in 1 .. n : stack'[k] = stack[k]
      /\ stack'[n + 1].state \notin OpcodeStates
      /\ State \in AfterInstr => stack'[n + 1].state \in AfterInstr
  BY ReducedStack
<1> HIDE DEF n
<1>5. \A k \in 1 .. n + 1 : k = n + 1 \/ (k \in 1 .. n /\ k \in 1 .. Len(stack))
  BY <1>4
<1>6. State' = stack'[n + 1].state
  BY <1>4, Zenon DEF State
<1>7. Ahead'
  BY <1>1, <1>2, <1>3, <1>4, <1>5, <1>6 DEF Ahead
<1> QED
  BY <1>1, <1>3, <1>7

\* Reducing by a rule that adds an instruction: it is on a later line than the
\* others, and the end of that line comes next.
LEMMA LinesAdded ==
  ASSUME AutomatonInv, LookaheadInv, LinesInv, NEW rule \in 32 .. 41, Reduce(rule),
         IsSequence(instr_buf), OperandsValid(ParsedInstr(rule)), stack' = Reduced(rule),
         instr_buf' = Append(instr_buf,
                             [instr |-> ParsedInstr(rule), label |-> ParsedLabel(rule)]),
         UNCHANGED <<source, next, yychar, yynerrs, yyerrstatus>>
  PROVE  LinesInv'
<1> SUFFICES ASSUME yynerrs' = 0 PROVE yyerrstatus' = 0 /\ InOrder' /\ Ahead'
  BY DEF LinesInv
<1> DEFINE added == [instr |-> ParsedInstr(rule), label |-> ParsedLabel(rule)]
           place == Len(stack) + 1 - yyr2[rule]
           line == stack[place].line
           n == Len(stack) - yyr2[rule]
           m == Len(instr_buf)
<1>1. yyerrstatus = 0 /\ InOrder /\ Ahead
  BY DEF LinesInv
<1>2. Pending' = Pending
  BY LookaheadKept
<1>3. added.instr.line_nr = line
  BY ParsedInstruction
<1>4. /\ place \in 1 .. Len(stack) /\ stack[place].state \in OpcodeStates
      /\ \A k \in 1 .. Len(stack) : stack[k].state \in OpcodeStates => k = place
  BY OperandPlaces
<1>5. LastLine \in Nat /\ LastLine < line /\ line <= Pending /\ line \in Int
  <2>1. line \in Int
    BY <1>4 DEF AutomatonInv, GoodStack, GoodEntry, GoodValue
  <2> HIDE DEF place
  <2> QED
    BY <1>1, <1>4, <2>1 DEF Ahead
<1>6. rule \in 2 .. 41
  OBVIOUS
<1>7. /\ n \in 1 .. Len(stack) /\ Len(stack) \in Nat /\ Len(stack') = n + 1
      /\ \A k \in 1 .. n : stack'[k] = stack[k]
      /\ stack'[n + 1].state \notin OpcodeStates
      /\ stack'[n + 1].state \in AfterInstr
  BY <1>6, ReducedStack
<1>8. place = n + 1
  <2>1. yyr2[rule] \in Nat
    BY OperandPlaces
  <2> QED
    BY <1>7, <2>1
<1> HIDE DEF added, place, line, n, m
<1>9. /\ m \in Nat /\ Len(instr_buf') = m + 1 /\ instr_buf'[m + 1] = added
      /\ \A k \in 1 .. m : instr_buf'[k] = instr_buf[k]
  BY SequenceLength, Appended DEF added, m
<1>10. LastLine' = line
  <2>1. Len(instr_buf') # 0
    BY <1>9
  <2> QED
    BY <1>3, <1>9, <2>1, Zenon DEF LastLine
<1>11. InOrder'
  <2>1. \A k \in 1 .. m + 1 : k = m + 1 \/ k \in 1 .. m
    BY <1>9
  <2>2. \A k \in 1 .. m : instr_buf'[k].instr.line_nr \in 1 .. LastLine
    BY <1>1, <1>9, Zenon DEF InOrder, m
  <2>3. instr_buf'[m + 1].instr.line_nr = line
    BY <1>3, <1>9
  <2>4. ASSUME NEW k \in 1 .. m + 1 PROVE instr_buf'[k].instr.line_nr \in 1 .. line
    <3>1. line \in 1 .. line /\ 1 .. LastLine \subseteq 1 .. line
      BY <1>5
    <3>2. CASE k = m + 1
      BY <2>3, <3>1, <3>2, Zenon
    <3>3. CASE k \in 1 .. m
      BY <2>2, <3>1, <3>3, Zenon
    <3> QED
      BY <2>1, <3>2, <3>3, Zenon
  <2>5. ASSUME NEW j \in 1 .. m + 1, NEW k \in 1 .. m + 1, j < k
        PROVE  instr_buf'[j].instr.line_nr < instr_buf'[k].instr.line_nr
    <3>1. j \in 1 .. m
      BY <1>9, <2>5
    <3>2. CASE k = m + 1
      <4> DEFINE earlier == instr_buf'[j].instr.line_nr
      <4>1. earlier \in 1 .. LastLine /\ instr_buf'[k].instr.line_nr = line
        BY <2>2, <2>3, <3>1, <3>2, Zenon
      <4> HIDE DEF earlier
      <4>2. earlier < line
        BY <1>5, <4>1
      <4> QED
        BY <4>1, <4>2, Zenon DEF earlier
    <3>3. CASE k \in 1 .. m
      BY <1>1, <1>9, <2>5, <3>1, <3>3 DEF InOrder, m
    <3> QED
      BY <2>1, <3>2, <3>3
  <2> QED
    BY <1>9, <1>10, <2>4, <2>5 DEF InOrder
<1>12. Ahead'
  <2>1. State' = stack'[n + 1].state
    BY <1>7, Zenon DEF State
  <2>2. ASSUME NEW k \in 1 .. n + 1 PROVE stack'[k].state \notin OpcodeStates
    <3>1. CASE k = n + 1
      BY <1>7, <3>1
    <3>2. CASE k \in 1 .. n
      <4>1. k \in 1 .. Len(stack) /\ k # place
        BY <1>7, <1>8, <3>2
      <4> QED
        BY <1>4, <1>7, <3>2, <4>1
    <3> QED
      BY <1>7, <3>1, <3>2
  <2>3. line \in Nat
    BY <1>5
  <2> QED
    BY <1>2, <1>5, <1>7, <1>10, <2>1, <2>2, <2>3 DEF Ahead
<1> QED
  BY <1>1, <1>11, <1>12

\* The invariant after a step that only reads.
LEMMA ReadParsed ==
  ASSUME AutomatonInv, ParsedInv, ReadToken
  PROVE  ParsedInv'
<1>1. UNCHANGED <<stack, yyerrstatus, yynerrs, instr_buf, status>>
  BY DEF ReadToken, programVars, instrVars
<1>2. LookaheadInv' /\ Pending' = Pending
  BY LookaheadRead
<1>3. LinesInv'
  BY <1>1, <1>2, LinesKept DEF ParsedInv
<1>4. EndsInv' /\ OperandsInv'
  BY <1>1 DEF ParsedInv, EndsInv, OperandsInv, State
<1> QED
  BY <1>2, <1>3, <1>4 DEF ParsedInv

\* The invariant after a token has been shifted.
LEMMA ShiftParsed ==
  ASSUME AutomatonInv, ParsedInv, Shift
  PROVE  ParsedInv'
<1> DEFINE e == Entry(ToDo, yychar)
<1>1. /\ Running /\ ToDo > 0 /\ stack' = Append(stack, e) /\ yychar' = EMPTY
      /\ UNCHANGED <<source, next, yynerrs, instr_buf, status>> /\ status = "parsing"
  BY DEF Shift, Running, programVars, instrVars
<1>2. LookaheadInv'
  BY <1>1, LookaheadKept DEF ParsedInv
<1>3. LinesInv'
  BY LinesShifted DEF ParsedInv
<1>4. /\ GoodToken(yychar) /\ ToDo = Decision(State, yytranslate[yychar.token])
      /\ State \in States /\ IsSequence(stack)
  BY <1>1, Decided DEF AutomatonInv, GoodStack
<1>5. e.state = ToDo
  BY DEF Entry
<1> HIDE DEF e
<1>6. State' = e.state
  <2>1. /\ Len(Append(stack, e)) = Len(stack) + 1
        /\ Append(stack, e)[Len(stack) + 1] = e
    BY <1>4, Appended
  <2> QED
    BY <1>1, <2>1, Zenon DEF State
<1>7. State' \in EndStates => State \in EndStates
  BY <1>4, <1>5, <1>6, EndsInPlace DEF GoodToken
<1>8. EndsInv' /\ OperandsInv'
  BY <1>1, <1>7 DEF ParsedInv, EndsInv, OperandsInv
<1> QED
  BY <1>2, <1>3, <1>8 DEF ParsedInv

\* The invariant after the end of the parse.
LEMMA EndParsed ==
  ASSUME AutomatonInv, ParsedInv, UNCHANGED <<source, next, lrVars, instr_buf>>,
         \/ status' \in {"failed", "assertion", "runtime_error"}
         \/ status' = "accepted" /\ status = "parsing" /\ State = YYFINAL
  PROVE  ParsedInv'
<1>1. UNCHANGED <<source, next, stack, yychar, yyerrstatus, yynerrs, instr_buf>>
  BY DEF lrVars
<1>2. LookaheadInv' /\ Pending' = Pending
  BY <1>1, LookaheadKept DEF ParsedInv
<1>3. LinesInv'
  BY <1>1, <1>2, LinesKept DEF ParsedInv
<1>4. OperandsInv'
  BY <1>1 DEF ParsedInv, OperandsInv
<1>5. EndsInv'
  <2>1. CASE status' \in {"failed", "assertion", "runtime_error"}
    BY <2>1 DEF EndsInv
  <2>2. CASE status' = "accepted" /\ status = "parsing" /\ State = YYFINAL
    BY <1>1, <2>2 DEF ParsedInv, EndsInv, EndStates
  <2> QED
    BY <2>1, <2>2
<1> QED
  BY <1>2, <1>3, <1>4, <1>5 DEF ParsedInv

\* The invariant after an error has been counted.
LEMMA ErrorParsed ==
  ASSUME ParsedInv, yynerrs' # 0, UNCHANGED <<source, next, instr_buf>>,
         yychar' \in {yychar, EMPTY},
         status' = "failed" \/ (status' = "parsing" /\ State' \notin EndStates)
  PROVE  ParsedInv'
<1>1. LookaheadInv'
  BY LookaheadKept DEF ParsedInv
<1>2. LinesInv' /\ EndsInv' /\ OperandsInv'
  BY DEF ParsedInv, LinesInv, EndsInv, OperandsInv
<1> QED
  BY <1>1, <1>2 DEF ParsedInv

\* An error leaves a count that is not zero.
LEMMA CountedErrors ==
  ASSUME AutomatonInv PROVE Counted(yynerrs) # 0
BY SourcesAssumption DEF AutomatonInv, Counted

\* The invariant after a token for which there is nothing to do.
LEMMA SyntaxErrorParsed ==
  ASSUME AutomatonInv, ParsedInv, SyntaxError
  PROVE  ParsedInv'
<1>1. yynerrs' # 0
  BY CountedErrors DEF SyntaxError, ParsedInv, LinesInv
<1>2. /\ status = "parsing" /\ UNCHANGED <<source, next, instr_buf>>
      /\ yychar' \in {yychar, EMPTY}
  BY DEF SyntaxError, Running, programVars, instrVars
<1>3. status' = "failed" \/ (status' = "parsing" /\ State' \notin EndStates)
  <2>1. CASE Discards /\ yychar.token = "end of file"
    BY <2>1 DEF SyntaxError
  <2>2. CASE ~(Discards /\ yychar.token = "end of file")
    <3>1. Recover(stack)
      BY <2>2 DEF SyntaxError
    <3> QED
      BY <1>2, <3>1, RecoveredState DEF AutomatonInv
  <2> QED
    BY <2>1, <2>2
<1> QED
  BY <1>1, <1>2, <1>3, ErrorParsed

\* The invariant after an error in the action of a rule.
LEMMA RaiseParsed ==
  ASSUME AutomatonInv, ParsedInv, NEW rule \in 2 .. 41, Reduce(rule), RaiseError(rule)
  PROVE  ParsedInv'
<1>1. yynerrs' # 0
  BY CountedErrors DEF RaiseError
<1>2. /\ status = "parsing" /\ UNCHANGED <<source, next, instr_buf>>
      /\ yychar' \in {yychar, EMPTY} /\ Recover(Below(yyr2[rule]))
  BY DEF RaiseError, Reduce, Running, programVars, instrVars
<1>3. GoodStack(Below(yyr2[rule]))
  BY GoodReduction
<1>4. status' = "failed" \/ (status' = "parsing" /\ State' \notin EndStates)
  BY <1>2, <1>3, RecoveredState
<1> QED
  BY <1>1, <1>2, <1>4, ErrorParsed

\* The state after a reduction is that of the end only after the whole program.
LEMMA ReducedState ==
  ASSUME AutomatonInv, NEW rule \in 2 .. 41, Reduce(rule), stack' = Reduced(rule)
  PROVE  State' \in EndStates => rule = 2
<1> DEFINE n == Len(stack) - yyr2[rule]
<1>1. /\ Len(stack') = n + 1
      /\ stack'[n + 1].state \in EndStates => rule = 2
  BY ReducedStack
<1> HIDE DEF n
<1> QED
  BY <1>1, Zenon DEF State

\* The invariant after a reduction that adds no instruction.
LEMMA ReducedParsed ==
  ASSUME AutomatonInv, ParsedInv, NEW rule \in 2 .. 41, Reduce(rule), stack' = Reduced(rule),
         rule = 2 => yynerrs = 0,
         UNCHANGED <<source, next, yychar, instr_buf, yynerrs, yyerrstatus, status>>
  PROVE  ParsedInv'
<1>1. LookaheadInv'
  BY LookaheadKept DEF ParsedInv
<1>2. LinesInv'
  BY LinesReduced DEF ParsedInv
<1>3. status = "parsing"
  BY DEF Reduce, Running
<1>4. EndsInv'
  BY <1>3, ReducedState DEF EndsInv
<1>5. OperandsInv'
  BY DEF ParsedInv, OperandsInv
<1> QED
  BY <1>1, <1>2, <1>4, <1>5 DEF ParsedInv

\* The invariant after the action of a rule that adds no instruction.
LEMMA ActionParsed ==
  ASSUME AutomatonInv, ParsedInv, NEW rule \in 3 .. 41, Reduce(rule),
         \/ Exit("assertion") \/ Exit("runtime_error")
         \/ /\ stack' = Reduced(rule)
            /\ UNCHANGED <<source, next, yychar, instr_buf, yyerrstatus, yynerrs, status>>
  PROVE  ParsedInv'
<1>1. CASE Exit("assertion") \/ Exit("runtime_error")
  BY <1>1, EndParsed DEF Exit, programVars, instrVars
<1>2. CASE /\ stack' = Reduced(rule)
           /\ UNCHANGED <<source, next, yychar, instr_buf, yyerrstatus, yynerrs, status>>
  <2>1. rule \in 2 .. 41 /\ rule # 2
    OBVIOUS
  <2> QED
    BY <1>2, <2>1, ReducedParsed
<1> QED
  BY <1>1, <1>2

\* The invariant after the action of a rule for an instruction.
LEMMA InstrParsed ==
  ASSUME AutomatonInv, ParsedInv, IsSequence(instr_buf), ReduceInstr
  PROVE  ParsedInv'
<1>1. PICK rule \in 32 .. 41 :
        /\ Reduce(rule)
        /\ \/ RaiseError(rule)
           \/ Exit("assertion")
           \/ /\ ~InstrFails(rule)
              /\ stack' = Reduced(rule)
              /\ instr_buf' = Append(instr_buf,
                                     [instr |-> ParsedInstr(rule), label |-> ParsedLabel(rule)])
              /\ UNCHANGED <<source, next, yychar, yyerrstatus, yynerrs, status>>
  BY DEF ReduceInstr
<1>2. rule \in 2 .. 41 /\ rule # 2
  OBVIOUS
<1>3. CASE RaiseError(rule)
  BY <1>1, <1>2, <1>3, RaiseParsed
<1>4. CASE Exit("assertion")
  BY <1>4, EndParsed DEF Exit, programVars, instrVars
<1>5. CASE /\ ~InstrFails(rule)
           /\ stack' = Reduced(rule)
           /\ instr_buf' = Append(instr_buf,
                                  [instr |-> ParsedInstr(rule), label |-> ParsedLabel(rule)])
           /\ UNCHANGED <<source, next, yychar, yyerrstatus, yynerrs, status>>
  <2> DEFINE added == [instr |-> ParsedInstr(rule), label |-> ParsedLabel(rule)]
             m == Len(instr_buf)
  <2>1. OperandsValid(ParsedInstr(rule))
    BY <1>5 DEF InstrFails
  <2>2. LookaheadInv'
    BY <1>5, LookaheadKept DEF ParsedInv
  <2>3. LinesInv'
    BY <1>1, <1>5, <2>1, LinesAdded DEF ParsedInv
  <2>4. status = "parsing" /\ status' = status
    BY <1>1, <1>5 DEF Reduce, Running
  <2>5. EndsInv'
    BY <1>1, <1>2, <1>5, <2>4, ReducedState DEF EndsInv
  <2>6. HasParsedOperands(added.instr)
    BY <1>1, <2>1, ParsedInstruction
  <2> HIDE DEF added
  <2>7. /\ m \in Nat /\ Len(instr_buf') = m + 1 /\ instr_buf'[m + 1] = added
        /\ \A k \in 1 .. m : instr_buf'[k] = instr_buf[k]
    BY <1>5, SequenceLength, Appended DEF added
  <2> HIDE DEF m
  <2>8. \A k \in 1 .. m + 1 : k = m + 1 \/ k \in 1 .. m
    BY <2>7
  <2>9. \A k \in 1 .. m : HasParsedOperands(instr_buf[k].instr)
    BY Zenon DEF ParsedInv, OperandsInv, m
  <2>10. \A k \in 1 .. m + 1 : HasParsedOperands(instr_buf'[k].instr)
    BY <2>6, <2>7, <2>8, <2>9, Zenon
  <2>11. OperandsInv'
    BY <2>7, <2>10, Zenon DEF OperandsInv
  <2> QED
    BY <2>2, <2>3, <2>5, <2>11 DEF ParsedInv
<1> QED
  BY <1>1, <1>3, <1>4, <1>5

\* Every step of the parser keeps the invariant.
LEMMA ParsedNext == AutomatonInv /\ TablesInv /\ ParsedInv /\ ParserNext => ParsedInv'
<1> SUFFICES ASSUME AutomatonInv, TablesInv, ParsedInv, ParserNext PROVE ParsedInv'
  OBVIOUS
<1>1. CASE ReadToken
  BY <1>1, ReadParsed
<1>2. CASE Shift
  BY <1>2, ShiftParsed
<1>3. CASE Accept
  BY <1>3, EndParsed DEF Accept, programVars, instrVars
<1>4. CASE SyntaxError
  BY <1>4, SyntaxErrorParsed
<1>5. CASE ReducePlain
  <2>1. PICK rule \in PlainRules :
          /\ Reduce(rule)
          /\ stack' = Reduced(rule)
          /\ UNCHANGED <<source, next, yychar, instr_buf, yyerrstatus, yynerrs, status>>
    BY <1>5 DEF ReducePlain, programVars, instrVars
  <2>2. rule \in 3 .. 41
    BY DEF PlainRules
  <2> QED
    BY <2>1, <2>2, ActionParsed
<1>6. CASE ReduceStart
  <2>1. /\ Reduce(2) /\ 2 \in 2 .. 41
        /\ \/ Exit("failed")
           \/ /\ ~(yynerrs > 0) /\ stack' = Reduced(2)
              /\ UNCHANGED <<source, next, yychar, instr_buf, yyerrstatus, yynerrs, status>>
    BY <1>6 DEF ReduceStart, programVars, instrVars
  <2>2. yynerrs \in Nat
    BY SourcesAssumption DEF AutomatonInv
  <2>3. CASE Exit("failed")
    BY <2>3, EndParsed DEF Exit, programVars, instrVars
  <2>4. CASE /\ ~(yynerrs > 0) /\ stack' = Reduced(2)
             /\ UNCHANGED <<source, next, yychar, instr_buf, yyerrstatus, yynerrs, status>>
    <3>1. yynerrs = 0
      BY <2>2, <2>4
    <3> QED
      BY <2>1, <2>4, <3>1, ReducedParsed
  <2> QED
    BY <2>1, <2>3, <2>4
<1>7. CASE ReduceError
  <2>1. /\ Reduce(9) /\ stack' = Reduced(9) /\ yynerrs' = Counted(yynerrs)
        /\ UNCHANGED <<source, next, yychar, instr_buf, status>>
        /\ 9 \in 2 .. 41 /\ 9 # 2
    BY <1>7 DEF ReduceError, programVars, instrVars
  <2>2. status = "parsing"
    BY <2>1 DEF Reduce, Running
  <2>3. State' \notin EndStates
    BY <2>1, ReducedState
  <2> QED
    BY <2>1, <2>2, <2>3, CountedErrors, ErrorParsed
<1>8. CASE ReduceSegment
  <2>1. PICK rule \in {18, 19} :
          /\ Reduce(rule)
          /\ stack' = Reduced(rule)
          /\ UNCHANGED <<source, next, yychar, instr_buf, yyerrstatus, yynerrs, status>>
    BY <1>8 DEF ReduceSegment, instrVars
  <2>2. rule \in 3 .. 41
    OBVIOUS
  <2> QED
    BY <2>1, <2>2, ActionParsed
<1>9. CASE ReduceLabel
  <2>1. PICK rule \in {10, 13} :
          /\ Reduce(rule)
          /\ \/ Exit("assertion")
             \/ /\ stack' = Reduced(rule)
                /\ UNCHANGED <<source, next, yychar, instr_buf, yyerrstatus, yynerrs, status>>
    BY <1>9 DEF ReduceLabel, instrVars
  <2>2. rule \in 3 .. 41
    OBVIOUS
  <2> QED
    BY <2>1, <2>2, ActionParsed
<1>10. CASE ReduceConstant
  <2>1. PICK rule \in 26 .. 31 :
          /\ Reduce(rule)
          /\ \/ Exit("assertion")
             \/ Exit("runtime_error")
             \/ /\ stack' = Reduced(rule)
                /\ UNCHANGED <<source, next, yychar, instr_buf, yyerrstatus, yynerrs, status>>
    BY <1>10 DEF ReduceConstant, instrVars
  <2>2. rule \in 3 .. 41
    OBVIOUS
  <2> QED
    BY <2>1, <2>2, ActionParsed
<1>11. CASE ReduceInstr
  BY <1>11, InstrParsed DEF TablesInv
<1> QED
  BY <1>1, <1>2, <1>3, <1>4, <1>5, <1>6, <1>7, <1>8, <1>9, <1>10, <1>11 DEF ParserNext

\* Only a program the parser has accepted is linked.
AcceptedInv == phase \in {"linking", "loaded"} => status = "accepted"

LoadedInv == LoaderInv /\ ParsedInv /\ AcceptedInv

\* Nothing has been parsed before the first step.
LEMMA LoadedInit == Init => LoadedInv
<1> SUFFICES ASSUME Init PROVE LoadedInv
  OBVIOUS
<1>1. LoaderInv
  BY LoaderInit
<1> DEFINE e == Entry(0, NoValue(1))
<1>2. /\ source \in Sources /\ next = 0 /\ stack = <<e>> /\ yychar = EMPTY
      /\ yyerrstatus = 0 /\ yynerrs = 0 /\ instr_buf = <<>> /\ status = "parsing"
      /\ phase = "parsing"
  BY DEF Init, ParserInit
<1>3. e.state = 0
  BY DEF Entry
<1> HIDE DEF e
<1>4. Len(stack) = 1 /\ stack[1] = e /\ State = 0 /\ Len(instr_buf) = 0
  BY <1>2, <1>3 DEF State
<1>5. Pending \in Nat /\ 0 < Pending
  <2>1. next + 1 \in Nat /\ next + 1 >= 1
    BY <1>2
  <2>2. Line(next + 1) \in Nat /\ Line(next + 1) >= 1
    BY <1>1, <2>1, LineNumbers DEF LoaderInv
  <2> QED
    BY <1>2, <2>2 DEF Pending
<1>6. LinesInv
  <2>1. LastLine = 0
    BY <1>4 DEF LastLine
  <2>2. InOrder
    BY <1>4 DEF InOrder
  <2>3. \A k \in 1 .. Len(stack) : stack[k].state \notin OpcodeStates
    BY <1>3, <1>4, OperandsInPlace
  <2>4. Ahead
    BY <1>5, <2>1, <2>3 DEF Ahead
  <2> QED
    BY <1>2, <2>2, <2>4 DEF LinesInv
<1>7. LookaheadInv /\ EndsInv /\ OperandsInv
  BY <1>2, <1>4 DEF LookaheadInv, EndsInv, OperandsInv
<1> QED
  BY <1>1, <1>2, <1>6, <1>7 DEF LoadedInv, ParsedInv, AcceptedInv

\* What has been parsed is not changed by the linker.
LEMMA ParsedKept ==
  ASSUME ParsedInv, UNCHANGED parserVars PROVE ParsedInv'
<1>1. UNCHANGED <<source, next, stack, yychar, yyerrstatus, yynerrs, instr_buf, status>>
  BY DEF parserVars, lrVars, programVars, instrVars
<1>2. LookaheadInv' /\ Pending' = Pending
  BY <1>1, LookaheadKept DEF ParsedInv
<1>3. LinesInv'
  BY <1>1, <1>2, LinesKept DEF ParsedInv
<1>4. EndsInv' /\ OperandsInv'
  BY <1>1 DEF ParsedInv, EndsInv, OperandsInv, State
<1> QED
  BY <1>2, <1>3, <1>4 DEF ParsedInv

\* Every step of the loader keeps the invariant.
LEMMA LoadedNext == LoadedInv /\ [Next]_vars => LoadedInv'
<1> SUFFICES ASSUME LoadedInv, [Next]_vars PROVE LoadedInv'
  OBVIOUS
<1>1. LoaderInv'
  BY LoaderNext DEF LoadedInv
<1>2. CASE Parse
  <2>1. ParsedInv'
    BY <1>2, ParsedNext DEF Parse, LoadedInv, LoaderInv
  <2>2. AcceptedInv'
    BY <1>2 DEF Parse, AcceptedInv
  <2> QED
    BY <1>1, <2>1, <2>2 DEF LoadedInv
<1>3. CASE ParsingEnds \/ BeginLinking \/ LinkInstr \/ StartPipeline \/ UNCHANGED vars
  <2>1. UNCHANGED parserVars
    BY <1>3 DEF ParsingEnds, BeginLinking, LinkInstr, StartPipeline, vars
  <2>2. ParsedInv'
    BY <2>1, ParsedKept DEF LoadedInv
  <2>3. status' = status
    BY <2>1 DEF parserVars
  <2>4. phase' \in {"linking", "loaded"} => status = "accepted"
    <3>1. CASE ParsingEnds
      BY <3>1 DEF ParsingEnds
    <3>2. CASE BeginLinking
      BY <3>2 DEF BeginLinking
    <3>3. CASE LinkInstr \/ StartPipeline
      BY <3>3 DEF LinkInstr, StartPipeline, LoadedInv, AcceptedInv
    <3>4. CASE UNCHANGED vars
      BY <3>4 DEF vars, LoadedInv, AcceptedInv
    <3> QED
      BY <1>3, <3>1, <3>2, <3>3, <3>4
  <2> QED
    BY <1>1, <2>2, <2>3, <2>4 DEF LoadedInv, AcceptedInv
<1> QED
  BY <1>2, <1>3 DEF Next

\* A loaded program satisfies the hypothesis of the theorems about the pipeline:
\* no two of its instructions have one line, for where the parser had no error to
\* recover from, each instruction is followed by the end of its line, and where it
\* had one, nothing is loaded; and each instruction has the registers its type
\* reads and writes, a load's base register from the linker (mips_parser.c,
\* yyparse and rules 32 to 41; pipeline.c, LinkMIPSProgram).
THEOREM LoadedIsAssembled == Spec => []LoadsAssembled
<1>1. LoadedInv => LoadsAssembled
  <2> SUFFICES ASSUME LoadedInv, phase = "loaded"
               PROVE  Assembled(SubSeq(instrs, 1, linked))
    BY DEF LoadsAssembled
  <2> DEFINE code == SubSeq(instrs, 1, linked)
  <2>1. /\ linked \in Nat /\ linked <= Len(instrs) /\ linked <= Len(instr_buf)
        /\ IsSequence(instrs) /\ Len(instrs) \in Nat /\ Len(instr_buf) \in Nat
        /\ \A k \in 1 .. linked : instrs[k] = LinkedInstr(instr_buf[k])
        /\ \A k \in 1 .. Len(instr_buf) : instr_buf[k].instr \in Instr
    BY SequenceLength
       DEF LoadedInv, LoaderInv, LinkInv, HoldsLinkedProgram, TablesInv, Stored
  <2>2. linked \in 0 .. Len(instrs) /\ \A k \in 1 .. linked : k \in 1 .. Len(instr_buf)
    BY <2>1
  <2>3. /\ DOMAIN code = 1 .. linked
        /\ \A k \in 1 .. linked : code[k] = LinkedInstr(instr_buf[k])
    <3>1. /\ IsSequence(code) /\ Len(code) = linked
          /\ \A k \in 1 .. linked : code[k] = instrs[k]
      BY <2>1, <2>2, CutOff
    <3>2. DOMAIN code = 1 .. Len(code)
      BY <3>1, SequenceLength
    <3> QED
      BY <2>1, <3>1, <3>2, Zenon
  <2> HIDE DEF code
  <2>4. yynerrs = 0 /\ InOrder
    BY DEF LoadedInv, AcceptedInv, ParsedInv, EndsInv, LinesInv
  <2>5. \A k \in 1 .. linked : /\ HasOperands(code[k])
                               /\ code[k].line_nr = instr_buf[k].instr.line_nr
    <3> SUFFICES ASSUME NEW k \in 1 .. linked
                 PROVE  /\ HasOperands(code[k])
                        /\ code[k].line_nr = instr_buf[k].instr.line_nr
      OBVIOUS
    <3>1. instr_buf[k].instr \in Instr /\ HasParsedOperands(instr_buf[k].instr)
      BY <2>1, <2>2 DEF LoadedInv, ParsedInv, OperandsInv
    <3>2. /\ HasOperands(LinkedInstr(instr_buf[k]))
          /\ LinkedInstr(instr_buf[k]).line_nr = instr_buf[k].instr.line_nr
      BY <3>1, LinkedOperands
    <3> QED
      BY <2>3, <3>2, Zenon
  <2>6. \A k \in 1 .. linked : FromProgram(code[k])
    <3>1. \A k \in 1 .. linked : instr_buf[k].instr.line_nr \in 1 .. LastLine
      BY <2>2, <2>4 DEF InOrder
    <3>2. DONT_CARE \notin 1 .. LastLine
      BY DEF DONT_CARE
    <3> QED
      BY <2>5, <3>1, <3>2, Zenon DEF FromProgram
  <2>7. ASSUME NEW j \in 1 .. linked, NEW k \in 1 .. linked,
               code[j].line_nr = code[k].line_nr
        PROVE  j = k
    <3> DEFINE a == instr_buf[j].instr.line_nr
               b == instr_buf[k].instr.line_nr
    <3>1. /\ j < k => a < b
          /\ k < j => b < a
      BY <2>2, <2>4, Zenon DEF InOrder
    <3>2. a = b
      BY <2>5, <2>7, Zenon
    <3>3. a \in 1 .. LastLine /\ b \in 1 .. LastLine
      BY <2>2, <2>4, Zenon DEF InOrder
    <3> HIDE DEF a, b
    <3> QED
      BY <2>1, <3>1, <3>2, <3>3
  <2> QED
    BY <2>3, <2>5, <2>6, <2>7, Zenon DEF Assembled, code
<1> QED
  BY <1>1, LoadedInit, LoadedNext, PTL DEF Spec
=============================================================================
