------------------------- MODULE ByteMemoryProofs -------------------------
(***************************************************************************)
(* Lemmas about bytes, words and the bytes of the data memory, for every   *)
(* size of a byte and every memory layout.  The proofs about the pipeline  *)
(* and about the data memory rest on them.                                 *)
(***************************************************************************)
EXTENDS ByteMemory, TLAPS

(* Arithmetic of bytes, half words and words.                              *)

\* The sizes are even and each is at least twice the one before.
LEMMA Sizes ==
  /\ ByteSize \in Nat /\ ByteSize >= 2
  /\ HalfSize \in Nat /\ HalfSize >= 2 * ByteSize
  /\ WordSize \in Nat /\ WordSize >= 2 * HalfSize /\ WordSize % 2 = 0
<1>1. ByteSize \in Nat /\ ByteSize >= 2
  BY ByteAssumption
<1> DEFINE B == ByteSize
<1> HIDE DEF B
<1>2. \A x, y \in Nat : x >= 2 /\ y >= 2 => x * y \in Nat /\ x * y >= 2 * y
  OBVIOUS
<1>3. HalfSize \in Nat /\ HalfSize >= 2 * ByteSize
  BY <1>1, <1>2 DEF HalfSize
<1>4. WordSize \in Nat /\ WordSize >= 2 * HalfSize
  BY <1>1, <1>2, <1>3 DEF WordSize
<1>5. \A x, y \in Nat : x % 2 = 0 => (x * y) % 2 = 0
  <2> SUFFICES ASSUME NEW x \in Nat, NEW y \in Nat, x % 2 = 0
               PROVE  (x * y) % 2 = 0
    OBVIOUS
  <2>1. PICK k \in Nat : x = 2 * k
    BY x = 2 * (x \div 2)
  <2>2. PICK m \in Nat : x * y = 2 * m
    <3>1. k * y \in Nat /\ x * y = 2 * (k * y)
      BY <2>1
    <3> QED
      BY <3>1
  <2>3. (2 * m) % 2 = 0
    OBVIOUS
  <2> QED
    BY <2>2, <2>3, Zenon
<1>6. WordSize % 2 = 0
  BY <1>1, <1>3, <1>5, ByteAssumption DEF WordSize, HalfSize
<1> QED
  BY <1>1, <1>3, <1>4, <1>6

\* A digit x of C and a digit y of B make a number below C * B.
LEMMA Positional ==
  ASSUME NEW B \in Nat, B > 0, NEW C \in Nat, C > 0,
         NEW x \in 0 .. C - 1, NEW y \in 0 .. B - 1
  PROVE  x * B + y \in 0 .. C * B - 1
<1>1. x * B <= (C - 1) * B
  OBVIOUS
<1>2. (C - 1) * B = C * B - B
  OBVIOUS
<1>3. x * B >= 0
  OBVIOUS
<1> QED
  BY <1>1, <1>2, <1>3

\* The lowest byte of any number, negative ones included, is a byte.
LEMMA ByteRange == \A v \in Int : v % ByteSize \in Byte
BY Sizes DEF Byte

\* Extending the sign of a value of at most a word gives a register value.
LEMMA Signed ==
  ASSUME NEW C \in Nat, NEW v \in 0 .. C - 1, C <= WordSize, v >= C \div 2
  PROVE  v - C \in RegValue
BY Sizes DEF RegValue, RegMin

-----------------------------------------------------------------------------
(* The data memory: loads give register values and stores keep bytes.      *)

\* ReadFromBuffer gives what fits in the bytes that it reads.
LEMMA ReadInRange ==
  ASSUME NEW m \in [MemoryAddresses -> Byte], NEW n \in {1, 2, 4}, NEW a \in Int,
         ValidDataAddress(a, n)
  PROVE  ReadFromBuffer(m, a, n) \in 0 .. Capacity(n) - 1
<1> USE Sizes
<1>1. \A k \in 0 .. n - 1 : a + k \in MemoryAddresses
  BY DataAssumption DEF ValidDataAddress, MemoryAddresses
<1>2. \A k \in 0 .. n - 1 : m[a + k] \in 0 .. ByteSize - 1
  BY <1>1 DEF Byte
<1>3. CASE n = 1
  <2>1. a = a + 0 /\ 0 \in 0 .. n - 1
    BY <1>3
  <2>2. m[a] \in 0 .. ByteSize - 1
    BY <1>2, <2>1
  <2> QED
    BY <1>3, <2>2 DEF ReadFromBuffer, Capacity
<1>4. CASE n = 2
  <2>1. a = a + 0 /\ 0 \in 0 .. n - 1 /\ 1 \in 0 .. n - 1
    BY <1>4
  <2>2. m[a] \in 0 .. ByteSize - 1 /\ m[a + 1] \in 0 .. ByteSize - 1
    BY <1>2, <2>1
  <2>3. m[a] * ByteSize + m[a + 1] \in 0 .. ByteSize * ByteSize - 1
    BY <2>2, Positional
  <2> QED
    BY <1>4, <2>3 DEF ReadFromBuffer, Capacity, HalfSize
<1>5. CASE n = 4
  <2>1. /\ a = a + 0 /\ (a + 2) + 1 = a + 3
        /\ 0 \in 0 .. n - 1 /\ 1 \in 0 .. n - 1 /\ 2 \in 0 .. n - 1 /\ 3 \in 0 .. n - 1
    BY <1>5
  <2>2. /\ m[a] \in 0 .. ByteSize - 1 /\ m[a + 1] \in 0 .. ByteSize - 1
        /\ m[a + 2] \in 0 .. ByteSize - 1 /\ m[(a + 2) + 1] \in 0 .. ByteSize - 1
    BY <1>2, <2>1
  <2> DEFINE high == m[a] * ByteSize + m[a + 1]
             low  == m[a + 2] * ByteSize + m[(a + 2) + 1]
  <2>3. high \in 0 .. HalfSize - 1 /\ low \in 0 .. HalfSize - 1
    BY <2>2, Positional DEF HalfSize
  <2>4. high * HalfSize + low \in 0 .. HalfSize * HalfSize - 1
    <3> HIDE DEF high, low
    <3> QED
      BY <2>3, Positional
  <2>5. ReadFromBuffer(m, a, n) = high * HalfSize + low
    BY <1>5 DEF ReadFromBuffer
  <2>6. Capacity(n) = HalfSize * HalfSize
    BY <1>5 DEF Capacity, WordSize
  <2> QED
    BY <2>4, <2>5, <2>6
<1> QED
  BY <1>3, <1>4, <1>5

\* ReadFromDataMemory gives what fits in a register, extended or not.
LEMMA LoadInRange ==
  ASSUME NEW m \in [MemoryAddresses -> Byte], NEW n \in {1, 2, 4}, NEW a \in Int,
         NEW u \in BOOLEAN, ValidDataAddress(a, n)
  PROVE  ReadFromDataMemory(m, a, n, u) \in RegValue
<1>1. ReadFromBuffer(m, a, n) \in 0 .. Capacity(n) - 1
  BY ReadInRange
<1>2. Capacity(n) \in Nat /\ Capacity(n) <= WordSize
  BY Sizes DEF Capacity
<1>3. 0 .. Capacity(n) - 1 \subseteq RegValue
  BY <1>2, Sizes DEF RegValue, RegMin
<1>4. CASE ~u /\ ReadFromBuffer(m, a, n) >= Capacity(n) \div 2
  BY <1>1, <1>2, <1>4, Signed DEF ReadFromDataMemory
<1>5. CASE ~(~u /\ ReadFromBuffer(m, a, n) >= Capacity(n) \div 2)
  BY <1>1, <1>3, <1>5 DEF ReadFromDataMemory
<1> QED
  BY <1>4, <1>5

\* A load depends on the bytes it reads, wherever they are.
LEMMA ReadEqual ==
  ASSUME NEW m1, NEW m2, NEW n \in {1, 2, 4}, NEW a1 \in Int, NEW a2 \in Int, NEW u,
         \A k \in 0 .. n - 1 : m1[a1 + k] = m2[a2 + k]
  PROVE  ReadFromDataMemory(m1, a1, n, u) = ReadFromDataMemory(m2, a2, n, u)
<1>1. 0 \in 0 .. n - 1 /\ a1 = a1 + 0 /\ a2 = a2 + 0
  OBVIOUS
<1>2. m1[a1] = m2[a2]
  BY <1>1
<1>3. n \in {2, 4} => m1[a1 + 1] = m2[a2 + 1]
  OBVIOUS
<1>4. n = 4 => /\ m1[a1 + 2] = m2[a2 + 2]
               /\ m1[(a1 + 2) + 1] = m2[(a2 + 2) + 1]
  BY (a1 + 2) + 1 = a1 + 3, (a2 + 2) + 1 = a2 + 3
<1>5. ReadFromBuffer(m1, a1, n) = ReadFromBuffer(m2, a2, n)
  BY <1>2, <1>3, <1>4 DEF ReadFromBuffer
<1> QED
  BY <1>5 DEF ReadFromDataMemory

\* The bytes of a word of any number are bytes.
LEMMA ByteOfTyped == ASSUME NEW v \in Int, NEW k \in 0 .. 3 PROVE ByteOf(v, k) \in Byte
<1>1. v \in Int /\ v \div ByteSize \in Int /\ v \div HalfSize \in Int
      /\ v \div (HalfSize * ByteSize) \in Int
  <2>1. HalfSize * ByteSize \in Nat /\ HalfSize * ByteSize > 0
    BY Sizes
  <2>2. \A d \in Nat : d > 0 => v \div d \in Int
    OBVIOUS
  <2> QED
    BY Sizes, <2>1, <2>2
<1> QED
  BY <1>1, ByteRange DEF ByteOf

\* WriteToDataMemory leaves bytes, whatever the value and the address.
LEMMA StoreKeepsBytes ==
  ASSUME NEW m \in [MemoryAddresses -> Byte], NEW n \in {1, 2, 4}, NEW a \in Int,
         NEW v \in Int
  PROVE  WriteToDataMemory(m, a, v, n) \in [MemoryAddresses -> Byte]
<1>1. \A k \in 0 .. 3 : ByteOf(v, k) \in Byte
  BY ByteOfTyped
<1>2. \A b \in MemoryAddresses :
        b \in a .. a + n - 1 => a + n - 1 - b \in 0 .. 3
  BY DataAssumption DEF MemoryAddresses
<1> QED
  BY <1>1, <1>2 DEF WriteToDataMemory
=============================================================================
