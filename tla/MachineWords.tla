---------------------------- MODULE MachineWords ----------------------------
(***************************************************************************)
(* The integers the simulator computes with.  A register holds a C `long   *)
(* long` that has to lie between MIN_32_BIT_REGVALUE and 2^32 - 1, so that *)
(* signed and unsigned 32-bit values can both be stored; memory holds      *)
(* bytes.  The sizes are scaled by ByteBits, which is 8 in the code: a     *)
(* half word is two bytes and a word four.                                 *)
(***************************************************************************)
EXTENDS Integers

CONSTANT ByteBits      \* bits of a byte, 8 in the code

ByteSize == 2^ByteBits
WordBits == 4 * ByteBits

\* The numbers of values of a half word and of a word.
HalfSize == ByteSize * ByteSize
WordSize == HalfSize * HalfSize

\* True of every positive number of bits; it is assumed because the provers
\* know nothing of the power operator.
ASSUME ByteAssumption ==
  /\ ByteBits \in Nat \ {0}
  /\ ByteSize \in Nat \ {0}
  /\ ByteSize % 2 = 0

Byte == 0 .. ByteSize - 1

\* MIN_32_BIT_REGVALUE, and the values a register may hold.
RegMin == -(WordSize \div 2)
RegValue == RegMin .. WordSize - 1

FitsRegister(v) == v \in RegValue

\* ValueFitsInPrecision(v, precision), for the precisions the program uses.
ValueFitsInPrecision(v, precision) ==
  -(2^(precision - 1)) <= v /\ v < 2^precision

\* value & CreateLLMask(0, 32): the value as an unsigned word.
MaskWord(v) == v % WordSize

-----------------------------------------------------------------------------
(***************************************************************************)
(* The bitwise operators of C on two's complement numbers.  The operands   *)
(* lie between -WordSize and WordSize - 1, so bit WordBits is the sign and *)
(* every higher bit repeats it.                                            *)
(***************************************************************************)
Bits(v) == {i \in 0 .. WordBits : (v \div 2^i) % 2 = 1}

\* The number with the bits of S: below[n] is what those under bit n amount to.
FromBits(S) ==
  LET below[n \in 0 .. WordBits] ==
        IF n = 0 THEN 0 ELSE below[n - 1] + (IF n - 1 \in S THEN 2^(n - 1) ELSE 0)
  IN  below[WordBits] - (IF WordBits \in S THEN WordSize ELSE 0)

BitAnd(a, b) == FromBits(Bits(a) \cap Bits(b))
BitOr(a, b)  == FromBits(Bits(a) \cup Bits(b))
BitNor(a, b) == -BitOr(a, b) - 1

\* A 64-bit shift uses its count modulo 64 (what the generated x86 code does
\* with a count that C leaves undefined).
ShiftCount(n) == n % (2 * WordBits)
=============================================================================
