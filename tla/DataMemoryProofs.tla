-------------------------- MODULE DataMemoryProofs --------------------------
(***************************************************************************)
(* Proofs about the data memory, for every memory layout, every size of    *)
(* the first buffers and every set of accesses and values: the two growing *)
(* buffers implement one memory of bytes, as long as they are kept apart.  *)
(***************************************************************************)
EXTENDS DataMemory, ByteMemoryProofs, TLAPS

\* The inductive invariant: the data buffer has not reached the stack buffer.
Apart == DataSegStart + ds_buf_size <= ss_start

Inv == TypeOK /\ Apart

-----------------------------------------------------------------------------
(* Accesses.                                                               *)

\* What an access of the model is.
LEMMA AccessTyped ==
  ASSUME NEW a \in Accesses
  PROVE  a[1] \in Int /\ a[2] \in {1, 2, 4}
BY BuffersAssumption

\* The addresses of a valid access are addresses of the memory.
LEMMA AddressesValid ==
  ASSUME NEW a \in Int, NEW n \in {1, 2, 4}, ValidDataAddress(a, n)
  PROVE  \A k \in 0 .. n - 1 : a + k \in MemoryAddresses
BY DataAssumption DEF ValidDataAddress, MemoryAddresses

\* A valid access is one of the memory.
LEMMA ValidInMemory ==
  ASSUME NEW a \in Int, NEW n \in {1, 2, 4}, ValidDataAddress(a, n)
  PROVE  Memory!InMemory(a, n)
BY DataAssumption DEF ValidDataAddress, Memory!InMemory, Memory!MemoryAddresses

\* The memory that the buffers stand for is a memory of bytes.
LEMMA MemoryTyped == Inv => MemoryOf \in [MemoryAddresses -> Byte]
<1> SUFFICES ASSUME Inv, NEW b \in MemoryAddresses
             PROVE  MemoryOf[b] \in Byte
  BY DEF MemoryOf
<1>1. b \in Int /\ DataSegStart <= b /\ b < StackSegEnd
  BY DataAssumption DEF MemoryAddresses
<1>2. CASE DsInd(b) < ds_buf_size
  BY <1>1, <1>2, DataAssumption DEF Inv, TypeOK, MemoryOf, DsInd
<1>3. CASE DsInd(b) >= ds_buf_size /\ SsInd(b) >= 0
  BY <1>1, <1>3, DataAssumption DEF Inv, TypeOK, MemoryOf, DsInd, SsInd
<1>4. CASE DsInd(b) >= ds_buf_size /\ SsInd(b) < 0
  BY <1>1, <1>4, Sizes, DataAssumption DEF Inv, TypeOK, MemoryOf, DsInd, SsInd, Byte
<1> QED
  BY <1>1, <1>2, <1>3, <1>4, DataAssumption DEF Inv, TypeOK, DsInd, SsInd

\* The memory does not change if the buffers do not.
LEMMA SameMemory == UNCHANGED buffers => UNCHANGED MemoryOf
BY DEF buffers, MemoryOf, DsInd, SsInd

\* The operators of the abstract specification are those of the detailed one.
LEMMA SameOperators ==
  /\ \A v, n : Memory!WriteFits(v, n) = WriteFits(v, n)
  /\ \A m, a, n, u : Memory!ReadFromDataMemory(m, a, n, u) = ReadFromDataMemory(m, a, n, u)
  /\ \A m, a, v, n : Memory!WriteToDataMemory(m, a, v, n) = WriteToDataMemory(m, a, v, n)
  /\ \A op, a, n, v : Memory!Accessed(op, a, n, v) = Accessed(op, a, n, v)
<1>2. \A n : Memory!Capacity(n) = Capacity(n)
  BY DEF Memory!Capacity, Capacity, Memory!ByteSize, ByteSize, Memory!HalfSize, HalfSize,
     Memory!WordSize, WordSize
<1>3. \A v, n : Memory!WriteFits(v, n) = WriteFits(v, n)
  BY <1>2 DEF Memory!WriteFits, WriteFits
<1>4. \A m, a, n : Memory!ReadFromBuffer(m, a, n) = ReadFromBuffer(m, a, n)
  BY DEF Memory!ReadFromBuffer, ReadFromBuffer, Memory!ByteSize, ByteSize,
     Memory!HalfSize, HalfSize
<1>5. \A m, a, n, u : Memory!ReadFromDataMemory(m, a, n, u) = ReadFromDataMemory(m, a, n, u)
  BY <1>2, <1>4 DEF Memory!ReadFromDataMemory, ReadFromDataMemory
<1>6. \A v, k : Memory!ByteOf(v, k) = ByteOf(v, k)
  BY DEF Memory!ByteOf, ByteOf, Memory!ByteSize, ByteSize, Memory!HalfSize, HalfSize
<1>7. \A m, a, v, n : Memory!WriteToDataMemory(m, a, v, n) = WriteToDataMemory(m, a, v, n)
  BY <1>6 DEF Memory!WriteToDataMemory, WriteToDataMemory, Memory!MemoryAddresses,
     MemoryAddresses
<1>8. \A op, a, n, v : Memory!Accessed(op, a, n, v) = Accessed(op, a, n, v)
  BY DEF Memory!Accessed, Accessed
<1> QED
  BY <1>3, <1>5, <1>7, <1>8

-----------------------------------------------------------------------------
(* Loads.                                                                  *)

\* A load takes its bytes from one of the buffers, where the memory has them.
LEMMA LoadReadsMemory ==
  ASSUME Inv, NEW a \in Int, NEW n \in {1, 2, 4}, NEW u \in BOOLEAN, Load(a, n, u)
  PROVE  Memory!Load(a, n, u) /\ UNCHANGED buffers
<1>1. ValidDataAddress(a, n) /\ UNCHANGED buffers
  BY DEF Load, LoadFrom
<1>2. \A k \in 0 .. n - 1 : a + k \in MemoryAddresses
  BY <1>1, AddressesValid
<1>3. \A k \in 0 .. n - 1 : DsInd(a + k) = DsInd(a) + k /\ SsInd(a + k) = SsInd(a) + k
  BY DataAssumption DEF DsInd, SsInd, Inv, TypeOK
<1>4. DsInd(a) \in Int /\ SsInd(a) \in Int
  BY DataAssumption DEF DsInd, SsInd, Inv, TypeOK
<1> DEFINE d == DsInd(a)
           s == SsInd(a)
<1>0. ds_buf_size \in Nat /\ ss_start \in Int /\ DataSegStart + ds_buf_size <= ss_start
  BY DataAssumption DEF Inv, Apart, TypeOK
<1>5. CASE InDataBuffer(a, n)
  <2>1. \A k \in 0 .. n - 1 : DsInd(a + k) < ds_buf_size
    <3>1. d \in Int /\ d + n <= ds_buf_size
      BY <1>4, <1>5 DEF InDataBuffer
    <3> HIDE DEF d
    <3>2. \A k \in 0 .. n - 1 : d + k < ds_buf_size
      BY <1>0, <3>1
    <3> QED
      BY <1>3, <3>2 DEF d
  <2>2. \A k \in 0 .. n - 1 : MemoryOf[a + k] = data_seg[DsInd(a + k)]
    BY <1>2, <2>1 DEF MemoryOf
  <2>3. \A k \in 0 .. n - 1 : data_seg[DsInd(a) + k] = MemoryOf[a + k]
    BY <1>3, <2>2
  <2>4. ReadFromDataMemory(data_seg, DsInd(a), n, u) = ReadFromDataMemory(MemoryOf, a, n, u)
    BY <1>4, <2>3, ReadEqual
  <2> QED
    BY <1>1, <1>5, <2>4, SameOperators, SameMemory, ValidInMemory DEF Load, LoadFrom, Memory!Load
<1>6. CASE ~InDataBuffer(a, n)
  <2>1. InStackBuffer(a)
    BY <1>6 DEF Load
  <2>2. \A k \in 0 .. n - 1 : SsInd(a + k) >= 0
    BY <1>3, <1>4, <2>1 DEF InStackBuffer
  <2>3. \A k \in 0 .. n - 1 : ~(DsInd(a + k) < ds_buf_size)
    <3>1. ASSUME NEW b \in Int, SsInd(b) >= 0 PROVE ~(DsInd(b) < ds_buf_size)
      <4>1. /\ DataSegStart \in Int /\ ss_start \in Int /\ ds_buf_size \in Int
            /\ DataSegStart + ds_buf_size <= ss_start
        BY <1>0, DataAssumption
      <4>2. b >= ss_start
        BY <3>1, <4>1 DEF SsInd
      <4>3. b - DataSegStart >= ds_buf_size
        BY <4>1, <4>2
      <4> QED
        BY <4>1, <4>3 DEF DsInd
    <3> QED
      BY <2>2, <3>1
  <2>4. \A k \in 0 .. n - 1 : MemoryOf[a + k] = stack_seg[SsInd(a + k)]
    BY <1>2, <2>2, <2>3 DEF MemoryOf
  <2>5. \A k \in 0 .. n - 1 : stack_seg[SsInd(a) + k] = MemoryOf[a + k]
    BY <1>3, <2>4
  <2>6. ReadFromDataMemory(stack_seg, SsInd(a), n, u) = ReadFromDataMemory(MemoryOf, a, n, u)
    <3>1. s \in Int
      BY <1>4
    <3>2. \A k \in 0 .. n - 1 : stack_seg[s + k] = MemoryOf[a + k]
      BY <2>5, Zenon
    <3> HIDE DEF s
    <3>3. ASSUME NEW m, \A k \in 0 .. n - 1 : stack_seg[s + k] = m[a + k]
          PROVE  ReadFromDataMemory(stack_seg, s, n, u) = ReadFromDataMemory(m, a, n, u)
      BY <3>1, <3>3, ReadEqual
    <3>4. ReadFromDataMemory(stack_seg, s, n, u) = ReadFromDataMemory(MemoryOf, a, n, u)
      BY <3>2, <3>3, Zenon
    <3> QED
      BY <3>4 DEF s
  <2> QED
    BY <1>1, <1>6, <2>6, SameOperators, SameMemory, ValidInMemory DEF Load, LoadFrom, Memory!Load
<1> QED
  BY <1>5, <1>6

-----------------------------------------------------------------------------
(* Stores.                                                                 *)

\* A store that keeps the buffers apart leaves the stack buffer where it is,
\* and the data buffer at least as long as it was.
LEMMA StoreSizes ==
  ASSUME Inv, NEW a \in Int, NEW n \in {1, 2, 4}, NEW v \in Int, Store(a, v, n),
         KeepsApart(a, n)
  PROVE  /\ ss_buf_size' = ss_buf_size /\ ss_start' = ss_start
         /\ ds_buf_size' = NewDsSize(a, n)
         /\ ds_buf_size' \in Nat /\ ds_buf_size <= ds_buf_size'
         /\ DataSegStart + ds_buf_size' <= ss_start
         /\ AdjustedStack(a, n) = stack_seg
<1>1. ~EnlargesStack(a, n) /\ DataSegStart + NewDsSize(a, n) <= ss_start
  BY DEF KeepsApart
<1>2. ss_buf_size' = ss_buf_size /\ AdjustedStack(a, n) = stack_seg
  BY <1>1 DEF Store, NewSsSize, AdjustedStack
<1>3. ss_start' = ss_start
  BY <1>1 DEF Store, NewSsSize, Inv, TypeOK
<1>4. ds_buf_size' = NewDsSize(a, n)
  BY DEF Store
<1>5. NewDsSize(a, n) \in Nat /\ ds_buf_size <= NewDsSize(a, n)
  <2>1. DsIncr(a, n) \in Int
    BY DataAssumption DEF DsIncr, DsInd, Inv, TypeOK
  <2>2. EnlargesData(a, n) => DsIncr(a, n) > 0
    BY DataAssumption DEF EnlargesData, Fits, InDataBuffer, DsIncr, DsInd, Inv, TypeOK
  <2> QED
    BY <2>1, <2>2 DEF NewDsSize, Inv, TypeOK
<1> QED
  BY <1>1, <1>2, <1>3, <1>4, <1>5

\* The enlarged data buffer has the old bytes at their places and zeros behind
\* them.
LEMMA AdjustedBytes ==
  ASSUME Inv, NEW a \in Int, NEW n \in {1, 2, 4}, NewDsSize(a, n) \in Nat
  PROVE  /\ AdjustedData(a, n) \in [0 .. NewDsSize(a, n) - 1 -> Byte]
         /\ \A i \in 0 .. NewDsSize(a, n) - 1 :
              AdjustedData(a, n)[i] = IF i < ds_buf_size THEN data_seg[i] ELSE 0
<1> DEFINE size == NewDsSize(a, n)
<1> HIDE DEF size
<1>1. ds_buf_size \in Nat /\ data_seg \in [0 .. ds_buf_size - 1 -> Byte] /\ 0 \in Byte
  BY Sizes DEF Inv, TypeOK, Byte
<1>2. AdjustedData(a, n)
        = [i \in 0 .. size - 1 |-> IF i - 0 \in 0 .. ds_buf_size - 1 THEN data_seg[i - 0] ELSE 0]
  BY DEF AdjustedData, Enlarged, size
<1>3. \A i \in 0 .. size - 1 :
        /\ i - 0 = i
        /\ i - 0 \in 0 .. ds_buf_size - 1 <=> i < ds_buf_size
  BY <1>1
<1>4. \A i \in 0 .. size - 1 :
        AdjustedData(a, n)[i] = IF i < ds_buf_size THEN data_seg[i] ELSE 0
  BY <1>2, <1>3
<1>5. \A i \in 0 .. size - 1 : AdjustedData(a, n)[i] \in Byte
  BY <1>1, <1>4
<1> QED
  BY <1>2, <1>4, <1>5 DEF size

\* WriteToBuffer writes bytes, and does not change the size of the buffer.
LEMMA WrittenBytes ==
  ASSUME NEW size \in Nat, NEW buffer \in [0 .. size - 1 -> Byte], NEW ind \in Int,
         NEW n \in {1, 2, 4}, NEW v \in Int
  PROVE  WriteToBuffer(buffer, ind, v, n) \in [0 .. size - 1 -> Byte]
<1>1. \A x \in 0 .. size - 1 : x \in ind .. ind + n - 1 => ByteOf(v, ind + n - 1 - x) \in Byte
  <2>1. \A x \in 0 .. size - 1 : x \in ind .. ind + n - 1 => ind + n - 1 - x \in 0 .. 3
    OBVIOUS
  <2> QED
    BY <2>1, ByteOfTyped
<1> QED
  BY <1>1 DEF WriteToBuffer

\* A store writes its bytes into one of the buffers, where the memory has them.
LEMMA StoreWritesMemory ==
  ASSUME Inv, NEW a \in Int, NEW n \in {1, 2, 4}, NEW v \in Int, Store(a, v, n),
         KeepsApart(a, n)
  PROVE  Memory!Store(a, v, n) /\ Inv'
<1> DEFINE size == NewDsSize(a, n)
           data == AdjustedData(a, n)
           ToData == DsInd(a) + n <= size
<1>1. /\ ValidDataAddress(a, n) /\ WriteFits(v, n)
      /\ access' = Accessed("store", a, n, v)
      /\ UNCHANGED failed
  BY DEF Store
<1>2. /\ ss_buf_size' = ss_buf_size /\ ss_start' = ss_start /\ ds_buf_size' = size
      /\ size \in Nat /\ ds_buf_size <= size /\ DataSegStart + size <= ss_start
      /\ AdjustedStack(a, n) = stack_seg
  BY StoreSizes
<1>3. /\ ds_buf_size \in Nat /\ ss_start \in Int /\ ss_buf_size \in Nat
      /\ ss_start = StackSegEnd - ss_buf_size
      /\ stack_seg \in [0 .. ss_buf_size - 1 -> Byte]
      /\ InitialBufSize <= ds_buf_size /\ InitialBufSize \in Nat
      /\ access \in [op : {"none", "load", "store"}, address : Int, nr_bytes : Int,
                     value : Int]
      /\ failed \in BOOLEAN /\ InitialBufSize <= ss_buf_size
  BY DataAssumption, BuffersAssumption DEF Inv, TypeOK
<1>4. /\ data \in [0 .. size - 1 -> Byte]
      /\ \A i \in 0 .. size - 1 : data[i] = IF i < ds_buf_size THEN data_seg[i] ELSE 0
  BY <1>2, AdjustedBytes
<1>5. DsInd(a) \in Int /\ SsInd(a) \in Int /\ SsInd(a) = a - ss_start
      /\ DsInd(a) = a - DataSegStart
  BY <1>3, DataAssumption DEF DsInd, SsInd
<1>6. ToData => data_seg' = WriteToBuffer(data, DsInd(a), v, n) /\ stack_seg' = stack_seg
  BY <1>2 DEF Store
<1>7. ~ToData => data_seg' = data /\ stack_seg' = WriteToBuffer(stack_seg, SsInd(a), v, n)
  <2>1. ~ToData => stack_seg' = WriteToBuffer(stack_seg, a - ss_start', v, n)
    BY <1>2 DEF Store
  <2>2. ~ToData => data_seg' = data
    BY DEF Store
  <2> QED
    BY <1>2, <1>5, <2>1, <2>2
<1>8. ~ToData => SsInd(a) >= 0
  <2>1. EnlargesData(a, n) => ToData
    <3> SUFFICES ASSUME EnlargesData(a, n) PROVE ToData
      OBVIOUS
    <3>1. size = 2 * (DsInd(a) + n)
      <4>1. size = 2 * (ds_buf_size + DsIncr(a, n))
        BY DEF NewDsSize
      <4>2. ds_buf_size + DsIncr(a, n) = DsInd(a) + n
        BY <1>3, <1>5 DEF DsIncr
      <4> QED
        BY <4>1, <4>2
    <3>2. DsInd(a) + n >= 0
      BY <1>3, <1>5 DEF EnlargesData, Fits, InDataBuffer
    <3> HIDE DEF size
    <3> QED
      BY <1>5, <3>1, <3>2
  <2>2. ~EnlargesStack(a, n)
    BY DEF KeepsApart
  <2>3. DsIncr(a, n) \in Int /\ SsIncr(a) \in Int
    BY <1>3, <1>5 DEF DsIncr, SsIncr
  <2>4. EnlargesData(a, n) \/ Fits(a, n)
    BY <2>2, <2>3 DEF EnlargesStack, EnlargesData
  <2>5. InDataBuffer(a, n) => ToData
    <3> HIDE DEF size
    <3>1. DsInd(a) \in Int /\ size \in Int /\ ds_buf_size \in Int /\ ds_buf_size <= size
      BY <1>2, <1>3, <1>5
    <3> QED
      BY <3>1 DEF InDataBuffer
  <2> QED
    BY <2>1, <2>4, <2>5 DEF Fits, InStackBuffer
<1> DEFINE k == DsInd(a)
           m == SsInd(a)
<1>9. /\ k \in Int /\ m \in Int /\ k = a - DataSegStart /\ m = a - ss_start
      /\ ToData => data_seg' = WriteToBuffer(data, k, v, n)
      /\ ~ToData => stack_seg' = WriteToBuffer(stack_seg, m, v, n)
  BY <1>5, <1>6, <1>7
<1> HIDE DEF size, data, k, m
<1>10. \A i \in 0 .. size - 1 :
         /\ i \in k .. k + n - 1 =>
              WriteToBuffer(data, k, v, n)[i] = ByteOf(v, k + n - 1 - i)
         /\ i \notin k .. k + n - 1 => WriteToBuffer(data, k, v, n)[i] = data[i]
  <2>1. size \in Nat /\ data \in [0 .. size - 1 -> Byte] /\ k \in Int
    BY <1>9, <1>2, <1>4
  <2> QED
    BY <2>1 DEF WriteToBuffer
<1>11. \A i \in 0 .. ss_buf_size - 1 :
         /\ i \in m .. m + n - 1 =>
              WriteToBuffer(stack_seg, m, v, n)[i] = ByteOf(v, m + n - 1 - i)
         /\ i \notin m .. m + n - 1 => WriteToBuffer(stack_seg, m, v, n)[i] = stack_seg[i]
  <2>1. ss_buf_size \in Nat /\ stack_seg \in [0 .. ss_buf_size - 1 -> Byte] /\ m \in Int
    BY <1>9, <1>3
  <2> QED
    BY <2>1 DEF WriteToBuffer
<1>12. data_seg' \in [0 .. size - 1 -> Byte] /\ stack_seg' \in [0 .. ss_buf_size - 1 -> Byte]
  <2>1. CASE ToData
    <3>1. WriteToBuffer(data, DsInd(a), v, n) \in [0 .. size - 1 -> Byte]
      BY <1>2, <1>4, <1>5, WrittenBytes
    <3> QED
      BY <1>3, <1>6, <2>1, <3>1
  <2>2. CASE ~ToData
    <3>1. WriteToBuffer(stack_seg, SsInd(a), v, n) \in [0 .. ss_buf_size - 1 -> Byte]
      BY <1>3, <1>5, WrittenBytes
    <3> QED
      BY <1>4, <1>7, <2>2, <3>1
  <2> QED
    BY <2>1, <2>2
<1>13. Inv'
  BY <1>1, <1>2, <1>3, <1>12 DEF Inv, Apart, TypeOK, Accessed
<1>14. ASSUME NEW b \in MemoryAddresses
       PROVE  MemoryOf'[b] = IF b \in a .. a + n - 1 THEN ByteOf(v, a + n - 1 - b) ELSE MemoryOf[b]
  <2> DEFINE i == DsInd(b)
             s == SsInd(b)
  <2>1. /\ i \in Nat /\ s \in Int /\ i = b - DataSegStart /\ s = b - ss_start
        /\ s < ss_buf_size /\ b \in Int
    BY <1>3, DataAssumption DEF MemoryAddresses, DsInd, SsInd
  <2>2. MemoryOf[b] = IF i < ds_buf_size THEN data_seg[i] ELSE IF s >= 0 THEN stack_seg[s] ELSE 0
    BY DEF MemoryOf
  <2>3. MemoryOf'[b] = IF i < size THEN data_seg'[i] ELSE IF s >= 0 THEN stack_seg'[s] ELSE 0
    BY <1>2 DEF MemoryOf, DsInd, SsInd
  <2> HIDE DEF i, s
  <2>4. i < size => s < 0
    BY <1>2, <1>3, <2>1, DataAssumption
  <2>5. i < size => data[i] = MemoryOf[b]
    <3> SUFFICES ASSUME i < size PROVE data[i] = MemoryOf[b]
      OBVIOUS
    <3>1. data[i] = IF i < ds_buf_size THEN data_seg[i] ELSE 0
      <4>1. i \in 0 .. size - 1
        BY <1>2, <2>1
      <4> QED
        BY <1>4, <4>1
    <3>2. ~(s >= 0)
      BY <2>1, <2>4
    <3> QED
      BY <2>2, <3>1, <3>2
  <2>6. ~(i < size) => MemoryOf[b] = IF s >= 0 THEN stack_seg[s] ELSE 0
    BY <1>2, <1>3, <2>1, <2>2
  <2>7. CASE ToData /\ i < size
    <3>1. data_seg'[i] = IF i \in k .. k + n - 1 THEN ByteOf(v, k + n - 1 - i) ELSE data[i]
      <4>1. i \in 0 .. size - 1
        BY <1>2, <2>1, <2>7
      <4>2. WriteToBuffer(data, k, v, n)[i]
              = IF i \in k .. k + n - 1 THEN ByteOf(v, k + n - 1 - i) ELSE data[i]
        BY <1>10, <4>1
      <4> QED
        BY <1>9, <2>7, <4>2
    <3>2. /\ i \in k .. k + n - 1 <=> b \in a .. a + n - 1
          /\ k + n - 1 - i = a + n - 1 - b
      BY <1>9, <2>1, DataAssumption
    <3> QED
      BY <2>3, <2>5, <2>7, <3>1, <3>2
  <2>8. CASE ToData /\ ~(i < size)
    <3>1. b \notin a .. a + n - 1
      BY <1>2, <1>5, <2>1, <2>8, DataAssumption
    <3> QED
      BY <1>6, <2>3, <2>6, <2>8, <3>1
  <2>9. CASE ~ToData /\ s < 0
    <3>1. b \notin a .. a + n - 1
      <4>1. a \in Int /\ b \in Int /\ ss_start \in Int
        BY <1>3, <2>1
      <4>2. a >= ss_start
        BY <1>5, <1>8, <2>9, <4>1
      <4>3. b < ss_start
        BY <2>1, <2>9, <4>1
      <4> QED
        BY <4>1, <4>2, <4>3
    <3>2. ~(s >= 0)
      BY <2>1, <2>9
    <3> QED
      BY <1>7, <2>3, <2>5, <2>6, <2>9, <3>1, <3>2
  <2>10. CASE ~ToData /\ s >= 0
    <3>1. ~(i < size)
      BY <2>1, <2>4, <2>10
    <3>2. stack_seg'[s]
            = IF s \in m .. m + n - 1 THEN ByteOf(v, m + n - 1 - s) ELSE stack_seg[s]
      <4>1. s \in 0 .. ss_buf_size - 1
        BY <1>3, <2>1, <2>10
      <4>2. WriteToBuffer(stack_seg, m, v, n)[s]
              = IF s \in m .. m + n - 1 THEN ByteOf(v, m + n - 1 - s) ELSE stack_seg[s]
        BY <1>11, <4>1
      <4> QED
        BY <1>9, <2>10, <4>2
    <3>3. /\ s \in m .. m + n - 1 <=> b \in a .. a + n - 1
          /\ m + n - 1 - s = a + n - 1 - b
      <4>1. n \in Int /\ a \in Int /\ ss_start \in Int
        BY <1>3
      <4>2. b \in Int /\ s \in Int /\ m \in Int /\ m = a - ss_start /\ s = b - ss_start
        BY <1>9, <2>1
      <4> QED
        BY <4>1, <4>2, SMT
    <3> QED
      BY <2>3, <2>6, <2>10, <3>1, <3>2, <3>3
  <2> QED
    BY <2>1, <2>7, <2>8, <2>9, <2>10
<1>15. MemoryOf' = WriteToDataMemory(MemoryOf, a, v, n)
  BY <1>14 DEF MemoryOf, WriteToDataMemory
<1> QED
  BY <1>1, <1>13, <1>15, SameOperators, ValidInMemory DEF Memory!Store

-----------------------------------------------------------------------------
(* The specifications.                                                     *)

\* A load reads no more than an integer.
LEMMA LoadTyped ==
  ASSUME Inv, NEW a \in Int, NEW n \in {1, 2, 4}, NEW u \in BOOLEAN, Load(a, n, u)
  PROVE  Inv'
<1>1. /\ access' = Accessed("load", a, n, ReadFromDataMemory(MemoryOf, a, n, u))
      /\ ValidDataAddress(a, n) /\ UNCHANGED buffers
  BY LoadReadsMemory, SameOperators DEF Memory!Load, Load, LoadFrom
<1>2. ReadFromDataMemory(MemoryOf, a, n, u) \in RegValue
  BY <1>1, LoadInRange, MemoryTyped
<1>3. access' \in [op : {"none", "load", "store"}, address : Int, nr_bytes : Int, value : Int]
  BY <1>1, <1>2, Sizes DEF Accessed, RegValue, RegMin
<1>4. failed' = failed
  BY DEF Load, LoadFrom
<1> QED
  BY <1>1, <1>3, <1>4 DEF Inv, TypeOK, Apart, buffers

\* The first buffers are apart, and all bytes in them are 0.
LEMMA InitRefines == Init => Inv /\ Memory!Init
<1> SUFFICES ASSUME Init PROVE Inv /\ Memory!Init
  OBVIOUS
<1>1. Inv
  <2>1. 0 \in Byte /\ \A n \in Nat : Calloc(n) \in [0 .. n - 1 -> Byte]
    <3>1. 0 \in Byte
      BY Sizes DEF Byte
    <3> QED
      BY <3>1 DEF Calloc
  <2>2. InitialBufSize \in Nat /\ DataSegStart + InitialBufSize <= StackSegEnd - InitialBufSize
    BY BuffersAssumption
  <2>3. /\ data_seg \in [0 .. ds_buf_size - 1 -> Byte]
        /\ stack_seg \in [0 .. ss_buf_size - 1 -> Byte]
    BY <2>1, <2>2 DEF Init
  <2>4. access \in [op : {"none", "load", "store"}, address : Int, nr_bytes : Int, value : Int]
    BY DEF Init
  <2>5. Apart
    BY <2>2, DataAssumption DEF Init, Apart
  <2>6. /\ ds_buf_size = InitialBufSize /\ ss_buf_size = InitialBufSize
        /\ ss_start = StackSegEnd - ss_buf_size /\ failed = FALSE
    BY DEF Init
  <2>7. TypeOK
    <3>1. /\ ds_buf_size \in Nat /\ ds_buf_size >= InitialBufSize
          /\ ss_buf_size \in Nat /\ ss_buf_size >= InitialBufSize
      BY <2>2, <2>6
    <3>2. failed \in BOOLEAN
      BY <2>6, Zenon
    <3> QED
      BY <2>3, <2>4, <2>6, <3>1, <3>2 DEF TypeOK
  <2> QED
    BY <2>5, <2>7 DEF Inv
<1>2. MemoryOf = ZeroMemory
  <2>1. \A b \in MemoryAddresses : DsInd(b) \in Nat /\ SsInd(b) \in Int
                                 /\ SsInd(b) < ss_buf_size
    BY DataAssumption, <1>1 DEF MemoryAddresses, DsInd, SsInd, Inv, TypeOK
  <2>2. \A b \in MemoryAddresses : DsInd(b) < ds_buf_size => data_seg[DsInd(b)] = 0
    BY <2>1, BuffersAssumption DEF Init, Calloc
  <2>3. \A b \in MemoryAddresses : SsInd(b) >= 0 => stack_seg[SsInd(b)] = 0
    BY <2>1, BuffersAssumption DEF Init, Calloc
  <2> QED
    BY <2>2, <2>3 DEF MemoryOf, ZeroMemory
<1>3. Memory!ZeroMemory = ZeroMemory
  BY DEF Memory!ZeroMemory, ZeroMemory, Memory!MemoryAddresses, MemoryAddresses
<1> QED
  BY <1>1, <1>2, <1>3 DEF Init, Memory!Init, Memory!NoAccess

\* Every step of the buffers is a step of the memory or leaves it as it is.
LEMMA StepRefines ==
  ASSUME Inv, [BoundedNext]_vars
  PROVE  Inv' /\ [Memory!Next]_(Memory!memoryVars)
<1>1. ASSUME NEW a \in Accesses, NEW u \in BOOLEAN, Load(a[1], a[2], u)
      PROVE  Inv' /\ Memory!Next
  BY <1>1, AccessTyped, LoadTyped, LoadReadsMemory DEF Memory!Next
<1>2. ASSUME NEW a \in Accesses, NEW v \in StoredValues, KeepsApart(a[1], a[2]),
             Store(a[1], v, a[2])
      PROVE  Inv' /\ Memory!Next
  <2>1. a[1] \in Int /\ a[2] \in {1, 2, 4} /\ v \in Int
    BY AccessTyped, BuffersAssumption
  <2>2. Memory!Store(a[1], v, a[2]) /\ Inv'
    BY <1>2, <2>1, StoreWritesMemory
  <2> QED
    BY <2>2 DEF Memory!Next
<1>3. ASSUME NEW a \in Accesses, Fail(a[1], a[2])
      PROVE  Inv' /\ UNCHANGED Memory!memoryVars
  <2>1. UNCHANGED <<buffers, access>> /\ failed' = TRUE
    BY <1>3 DEF Fail
  <2> QED
    BY <2>1, SameMemory DEF Inv, TypeOK, Apart, buffers, Memory!memoryVars
<1>4. CASE UNCHANGED vars
  BY <1>4, SameMemory DEF vars, Inv, TypeOK, Apart, buffers, Memory!memoryVars
<1> QED
  BY <1>1, <1>2, <1>3, <1>4 DEF BoundedNext

\* The buffers keep their types: they hold bytes, are as long as their sizes
\* say, and the stack buffer ends where its segment ends (data_memory.c,
\* AdjustBuffers).
THEOREM BuffersTyped == BoundedSpec => []TypeOK
<1>1. Init => Inv
  BY InitRefines
<1>2. Inv /\ [BoundedNext]_vars => Inv'
  BY StepRefines
<1>3. Inv => TypeOK
  BY DEF Inv
<1> QED
  BY <1>1, <1>2, <1>3, PTL DEF BoundedSpec

\* The two buffers implement one memory of bytes, however often and by how much
\* the data buffer grows (data_memory.c; data_memory.h).
THEOREM BuffersImplementMemory == BoundedSpec => ImplementsMemory
<1>1. Init => Inv /\ Memory!Init
  BY InitRefines
<1>2. Inv /\ [BoundedNext]_vars => Inv' /\ [Memory!Next]_(Memory!memoryVars)
  BY StepRefines
<1> QED
  BY <1>1, <1>2, PTL DEF BoundedSpec, ImplementsMemory, Memory!Spec
=============================================================================
