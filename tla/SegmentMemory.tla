--------------------------- MODULE SegmentMemory ---------------------------
(***************************************************************************)
(* What the data memory promises (data_memory.h): one byte per address,    *)
(* all of them 0 in the beginning; a store changes the bytes it names and  *)
(* no others, and a load returns the bytes stored last.                    *)
(***************************************************************************)
EXTENDS ByteMemory

CONSTANTS
  Accesses,        \* the pairs <<address, nr_bytes>> that are used
  StoredValues     \* the values that are stored

VARIABLES
  mem,             \* the bytes
  access           \* the access made last

memoryVars == <<mem, access>>

NoAccess == [op |-> "none", address |-> 0, nr_bytes |-> 0, value |-> 0]

Accessed(op, address, nr_bytes, value) ==
  [op |-> op, address |-> address, nr_bytes |-> nr_bytes, value |-> value]

Init == mem = ZeroMemory /\ access = NoAccess

\* The bytes of an access are in the memory, from a multiple of their number on.
InMemory(address, nr_bytes) ==
  /\ address .. address + nr_bytes - 1 \subseteq MemoryAddresses
  /\ address % nr_bytes = 0

Load(address, nr_bytes, read_unsigned) ==
  /\ InMemory(address, nr_bytes)
  /\ access' = Accessed("load", address, nr_bytes,
                        ReadFromDataMemory(mem, address, nr_bytes, read_unsigned))
  /\ UNCHANGED mem

Store(address, value, nr_bytes) ==
  /\ InMemory(address, nr_bytes)
  /\ WriteFits(value, nr_bytes)
  /\ mem' = WriteToDataMemory(mem, address, value, nr_bytes)
  /\ access' = Accessed("store", address, nr_bytes, value)

Next ==
  \E a \in Accesses :
    \/ \E read_unsigned \in BOOLEAN : Load(a[1], a[2], read_unsigned)
    \/ \E value \in StoredValues : Store(a[1], value, a[2])

Spec == Init /\ [][Next]_memoryVars
=============================================================================
