---------------------------- MODULE ByteMemory -----------------------------
(***************************************************************************)
(* The data memory as the pipeline sees it through data_memory.h: a byte   *)
(* for every address between the start of the data segment and the end of  *)
(* the stack segment, words stored with their most significant byte first. *)
(* The two growing buffers that hold the bytes are not visible here.       *)
(***************************************************************************)
EXTENDS MachineWords, Sequences

CONSTANTS
  DataSegStart,   \* DATA_SEG_START, 0x10000000 in the code
  StackSegEnd     \* STACK_SEG_END, 0x7FFFFFFF in the code

ASSUME DataAssumption ==
  /\ DataSegStart \in Nat
  /\ StackSegEnd \in Nat
  /\ DataSegStart < StackSegEnd

MemoryAddresses == DataSegStart .. StackSegEnd - 1

\* The memory after InitDataMemory.
ZeroMemory == [a \in MemoryAddresses |-> 0]

\* ValidateAddress, for an access of nr_bytes bytes.
ValidDataAddress(address, nr_bytes) ==
  /\ DataSegStart <= address
  /\ address + nr_bytes < StackSegEnd
  /\ address % nr_bytes = 0

\* ReadFromBuffer: the bytes of an access of 1, 2 or 4 bytes, as one number.
ReadFromBuffer(mem, address, nr_bytes) ==
  LET half(a) == mem[a] * ByteSize + mem[a + 1]
  IN  CASE nr_bytes = 1 -> mem[address]
        [] nr_bytes = 2 -> half(address)
        [] nr_bytes = 4 -> half(address) * HalfSize + half(address + 2)

\* The number of values nr_bytes bytes can hold.
Capacity(nr_bytes) ==
  CASE nr_bytes = 1 -> ByteSize [] nr_bytes = 2 -> HalfSize [] nr_bytes = 4 -> WordSize

\* ReadFromDataMemory: extends the sign unless the read is unsigned.
ReadFromDataMemory(mem, address, nr_bytes, read_unsigned) ==
  LET value == ReadFromBuffer(mem, address, nr_bytes)
  IN  IF ~read_unsigned /\ value >= Capacity(nr_bytes) \div 2
        THEN value - Capacity(nr_bytes)
        ELSE value

\* The assertion of WriteToBuffer: the bits that are not stored repeat.
WriteFits(value, nr_bytes) == -Capacity(nr_bytes) <= value /\ value < Capacity(nr_bytes)

\* Byte number k, counted from the least significant, of a value.
ByteOf(value, k) ==
  CASE k = 0 -> value % ByteSize
    [] k = 1 -> (value \div ByteSize) % ByteSize
    [] k = 2 -> (value \div HalfSize) % ByteSize
    [] k = 3 -> (value \div (HalfSize * ByteSize)) % ByteSize

WriteToDataMemory(mem, address, value, nr_bytes) ==
  [a \in MemoryAddresses |->
     IF a \in address .. address + nr_bytes - 1
       THEN ByteOf(value, address + nr_bytes - 1 - a)
       ELSE mem[a]]
=============================================================================
