------------------------------- MODULE MCAlu -------------------------------
(***************************************************************************)
(* The ALU on every pair of register values, against the MIPS instructions *)
(* stated on words of WordBits bits.                                       *)
(***************************************************************************)
EXTENDS Alu

VARIABLES
  operation,   \* the instruction type and the operands in Ex
  result       \* what the ALU answers, once it did

aluVars == <<operation, result>>

Immediates == ImmediateOps \cup Loads \cup Stores \cup {"LUI"}

\* An immediate is a signed word; the parser accepts half a word for lui.
ImmValue(type) ==
  {v \in RegMin .. WordSize \div 2 - 1 :
     type = "LUI" => ValueFitsInPrecision(v, 2 * ByteBits)}

\* An instruction with an immediate ignores rt, and every other the immediate;
\* the operand that is ignored is held at a value of its own.
ImmediateOperations ==
  UNION {[type : {type}, rs : RegValue, rt : {1}, imm : ImmValue(type)] : type \in Immediates}

RegisterOperations ==
  [type : RegisterOps \cup Branches, rs : RegValue, rt : RegValue, imm : {1}]

Operations == ImmediateOperations \cup RegisterOperations

Init == operation \in Operations /\ result = [done |-> FALSE]

Compute ==
  /\ ~result.done
  /\ result' =
       [done |-> TRUE,
        value |-> AluResult(operation.type, operation.rs, operation.rt, operation.imm),
        fails |-> AluFails(operation.type, operation.rs, operation.rt, operation.imm)]
  /\ UNCHANGED operation

Spec == Init /\ [][Compute]_aluVars

-----------------------------------------------------------------------------
(* Words: what a register holds in a real CPU.                             *)

Word(v) == v % WordSize
Signed(w) == IF w >= WordSize \div 2 THEN w - WordSize ELSE w

\* The word whose bit i is f(bit i of a, bit i of b).
BitByBit(f(_, _), a, b) ==
  LET word[n \in 0 .. WordBits] ==
        IF n = 0 THEN 0
        ELSE word[n - 1] + 2^(n - 1) * f((a \div 2^(n - 1)) % 2, (b \div 2^(n - 1)) % 2)
  IN  word[WordBits]

\* w shifted n times by one bit.
Shifted(w, n, by(_)) ==
  LET shift[k \in 0 .. n] == IF k = 0 THEN w ELSE by(shift[k - 1]) IN shift[n]

\* The word that instruction type makes of the words a and b.
Reference(type, a, b) ==
  CASE type \in {"ADD", "ADDI"} \cup Loads \cup Stores -> Word(a + b)
    [] type \in {"SUB"} \cup Branches -> Word(a - b)
    [] type \in {"AND", "ANDI"} -> BitByBit(LAMBDA x, y : x * y, a, b)
    [] type \in {"OR", "ORI"} -> BitByBit(LAMBDA x, y : IF x + y = 0 THEN 0 ELSE 1, a, b)
    [] type = "NOR" -> BitByBit(LAMBDA x, y : IF x + y = 0 THEN 1 ELSE 0, a, b)
    [] type = "SLL" -> Shifted(a, b, LAMBDA w : (2 * w) % WordSize)
    [] type = "SRL" -> Shifted(a, b, LAMBDA w : w \div 2)
    [] type \in {"SLT", "SLTI"} -> Truth(Signed(a) < Signed(b))
    [] type \in {"SLTU", "SLTIU"} -> Truth(a < b)
    [] type = "LUI" -> (b % HalfSize) * HalfSize

\* The second operand of the operation.
Second == IF operation.type \in Immediates THEN operation.imm ELSE operation.rt

IsSigned(v) == v < WordSize \div 2

\* The operations on which the ALU has a MIPS counterpart: a shift by at least
\* one and fewer than all bits (a shift right by 0 gives DONT_CARE instead of
\* the operand), and a signed comparison of values stored as signed ones.
Comparable ==
  /\ operation.type = "SLL" => Second \in 0 .. WordBits - 1
  /\ operation.type = "SRL" => Second \in 1 .. WordBits - 1
  /\ operation.type \in {"SLT", "SLTI"} => IsSigned(operation.rs) /\ IsSigned(Second)

\* Where the ALU does not fail, the word it computes is the word a MIPS CPU
\* computes, whether the operands were stored as signed or as unsigned values
\* (update.c, ComputeNextMemStage).
ComputesMIPSWord ==
  result.done /\ ~result.fails /\ Comparable
    => Word(result.value) = Reference(operation.type, Word(operation.rs), Word(Second))

\* A branch compares the words its registers hold, if both are stored as
\* signed values or both as unsigned ones (update.c, case BEQ).
BranchComparesWords ==
  /\ result.done
  /\ ~result.fails
  /\ operation.type \in Branches
  /\ \/ IsSigned(operation.rs) /\ IsSigned(Second)
     \/ operation.rs >= 0 /\ Second >= 0
  => (ZeroFlag(result.value) = 1) = (Word(operation.rs) = Word(Second))

\* Only sums and differences can leave the range of a register, and nor
\* of an operand stored as a large unsigned value; no other operation ends the
\* simulation (update.c, the check after the switch).
OnlySumsFail ==
  result.done /\ result.fails
    => \/ operation.type \in {"ADD", "ADDI", "SUB"} \cup Branches \cup Loads
                               \cup Stores
       \/ operation.type = "NOR" /\ ~(IsSigned(operation.rs) /\ IsSigned(operation.rt))
=============================================================================
