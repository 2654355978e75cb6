----------------------------- MODULE AluProofs -----------------------------
(***************************************************************************)
(* A branch decides as a MIPS CPU does, for every size of a word: the      *)
(* difference of two register values is zero exactly if they are the same  *)
(* word, though a register may hold a word as a signed or as an unsigned   *)
(* number.                                                                 *)
(***************************************************************************)
EXTENDS MCAlu, TLAPS

\* A word has a positive number of values.
LEMMA WordSizePositive == WordSize \in Nat /\ WordSize > 0
<1>1. ByteSize \in Nat /\ ByteSize > 0
  BY ByteAssumption
<1>2. \A x, y \in Nat : x > 0 /\ y > 0 => x * y \in Nat /\ x * y > 0
  OBVIOUS
<1>3. HalfSize \in Nat /\ HalfSize > 0
  BY <1>1, <1>2 DEF HalfSize
<1> QED
  BY <1>2, <1>3 DEF WordSize

\* Two numbers less than n apart that leave the same remainder are equal.
LEMMA SameRemainder ==
  ASSUME NEW n \in Nat, n > 0, NEW a \in Int, NEW b \in Int,
         a - b < n, b - a < n
  PROVE  a % n = b % n <=> a = b
<1>1. SUFFICES ASSUME a % n = b % n PROVE a = b
  OBVIOUS
<1>2. PICK j \in Int : a = j * n + (a % n)
  <2>1. a \div n \in Int /\ a = n * (a \div n) + (a % n)
    OBVIOUS
  <2>2. n * (a \div n) = (a \div n) * n
    BY <2>1
  <2> QED
    BY <2>1, <2>2
<1>3. PICK k \in Int : b = k * n + (b % n)
  <2>1. b \div n \in Int /\ b = n * (b \div n) + (b % n)
    OBVIOUS
  <2>2. n * (b \div n) = (b \div n) * n
    BY <2>1
  <2> QED
    BY <2>1, <2>2
<1>4. a - b = j * n - k * n
  BY <1>1, <1>2, <1>3
<1>5. \A i \in Int : i >= 1 => i * n >= n
  OBVIOUS
<1>6. j * n - k * n = (j - k) * n /\ k * n - j * n = (k - j) * n
  OBVIOUS
<1>7. ~(j - k >= 1) /\ ~(k - j >= 1)
  <2>1. j - k \in Int /\ k - j \in Int
    OBVIOUS
  <2>2. j - k >= 1 => a - b >= n
    BY <1>4, <1>5, <1>6, <2>1
  <2>3. k - j >= 1 => b - a >= n
    BY <1>4, <1>5, <1>6, <2>1
  <2> QED
    BY <2>2, <2>3
<1>8. j = k
  BY <1>7
<1> QED
  BY <1>4, <1>8

\* What the ALU answered is the result for the operands it was given.
AluInv ==
  /\ operation \in Operations
  /\ result.done =>
       result.value = AluResult(operation.type, operation.rs, operation.rt, operation.imm)

\* The answer is computed from the operands and both stay as they are.
LEMMA AluAnswers == Spec => []AluInv
<1>1. Init => AluInv
  BY DEF Init, AluInv
<1>2. AluInv /\ [Compute]_aluVars => AluInv'
  <2> SUFFICES ASSUME AluInv, [Compute]_aluVars PROVE AluInv'
    OBVIOUS
  <2>1. CASE Compute
    BY <2>1 DEF AluInv, Compute
  <2>2. CASE UNCHANGED aluVars
    BY <2>2 DEF AluInv, aluVars
  <2> QED
    BY <2>1, <2>2
<1> QED
  BY <1>1, <1>2, PTL DEF Spec

\* A branch in Ex has two register values and answers with their difference.
LEMMA BranchSubtracts ==
  ASSUME AluInv, operation.type \in Branches
  PROVE  /\ operation.rs \in RegValue /\ operation.rt \in RegValue
         /\ Second = operation.rt
         /\ result.done => result.value = operation.rs - operation.rt
<1>1. operation.type \in {"BEQ", "BNE"}
  BY DEF Branches
<1>2. operation.type \notin Immediates
  BY <1>1 DEF Immediates, ImmediateOps, Loads, Stores
<1>3. operation.rs \in RegValue /\ operation.rt \in RegValue
  <2>1. operation \in ImmediateOperations => operation.type \in Immediates
    <3> SUFFICES ASSUME operation \in ImmediateOperations PROVE operation.type \in Immediates
      OBVIOUS
    <3>1. PICK type \in Immediates :
            operation \in [type : {type}, rs : RegValue, rt : {1}, imm : ImmValue(type)]
      BY DEF ImmediateOperations
    <3> QED
      BY <3>1
  <2>2. operation \in RegisterOperations => operation.rs \in RegValue /\ operation.rt \in RegValue
    BY DEF RegisterOperations
  <2>3. operation \in ImmediateOperations \cup RegisterOperations
    BY DEF AluInv, Operations
  <2> QED
    BY <1>2, <2>1, <2>2, <2>3
<1>4. AluResult(operation.type, operation.rs, operation.rt, operation.imm)
        = operation.rs - operation.rt
  <2>1. CASE operation.type = "BEQ"
    BY <2>1, Zenon DEF AluResult, Branches, Loads, Stores
  <2>2. CASE operation.type = "BNE"
    BY <2>2, Zenon DEF AluResult, Branches, Loads, Stores
  <2> QED
    BY <1>1, <2>1, <2>2
<1> QED
  BY <1>2, <1>3, <1>4 DEF AluInv, Second

\* A taken BEQ compares what the registers hold as words and not as the C
\* integers they are stored in, for a word of any size (update.c, case BEQ of
\* ComputeNextMemStage and the zero output).
THEOREM BranchesCompare == Spec => []BranchComparesWords
<1>1. AluInv => BranchComparesWords
  <2> SUFFICES ASSUME AluInv, result.done, operation.type \in Branches,
                      \/ IsSigned(operation.rs) /\ IsSigned(Second)
                      \/ operation.rs >= 0 /\ Second >= 0
               PROVE  (ZeroFlag(result.value) = 1) = (Word(operation.rs) = Word(Second))
    BY DEF BranchComparesWords
  <2> DEFINE a == operation.rs
             b == operation.rt
  <2>1. /\ a \in RegValue /\ b \in RegValue
        /\ Second = b /\ result.value = a - b
    BY BranchSubtracts
  <2>2. WordSize \in Nat /\ WordSize > 0
    BY WordSizePositive
  <2>3. a \in Int /\ b \in Int /\ a - b < WordSize /\ b - a < WordSize
    BY <2>1, <2>2 DEF RegValue, RegMin, IsSigned
  <2>4. Word(a) = Word(b) <=> a = b
    BY <2>2, <2>3, SameRemainder DEF Word
  <2>5. ZeroFlag(a - b) = 1 <=> a = b
    <3>1. \A x, y \in Int : x - y = 0 <=> x = y
      OBVIOUS
    <3> QED
      BY <2>3, <3>1, 0 # 1 DEF ZeroFlag, Truth
  <2> QED
    BY <2>1, <2>4, <2>5
<1> QED
  BY <1>1, AluAnswers, PTL
=============================================================================
