----------------------------- MODULE DataMemory -----------------------------
(***************************************************************************)
(* The data memory of data_memory.c: one buffer for the bytes from the     *)
(* start of the data segment upwards and one for the bytes below the end   *)
(* of the stack segment, each enlarged when a store does not fit.          *)
(***************************************************************************)
EXTENDS ByteMemory

CONSTANTS
  InitialBufSize,  \* bytes of each buffer after InitDataMemory, 10 in the code
  Accesses,        \* the pairs <<address, nr_bytes>> that are used
  StoredValues     \* the values that are stored

ASSUME BuffersAssumption ==
  /\ InitialBufSize \in Nat \ {0}
  /\ DataSegStart + InitialBufSize <= StackSegEnd - InitialBufSize
  /\ Accesses \subseteq Int \X {1, 2, 4}
  /\ StoredValues \subseteq Int

VARIABLES
  data_seg, stack_seg,        \* the buffers, indexed from 0
  ds_buf_size, ss_buf_size,   \* their sizes
  ss_start,                   \* the address of stack_seg[0]
  access,                     \* the access made last
  failed                      \* the process has ended

buffers == <<data_seg, stack_seg, ds_buf_size, ss_buf_size, ss_start>>
vars == <<buffers, access, failed>>

\* calloc: a buffer of n bytes that are 0.
Calloc(n) == [i \in 0 .. n - 1 |-> 0]

\* InitDataMemory.
Init ==
  /\ ds_buf_size = InitialBufSize
  /\ ss_buf_size = InitialBufSize
  /\ data_seg = Calloc(InitialBufSize)
  /\ stack_seg = Calloc(InitialBufSize)
  /\ ss_start = StackSegEnd - InitialBufSize
  /\ access = [op |-> "none", address |-> 0, nr_bytes |-> 0, value |-> 0]
  /\ failed = FALSE

Accessed(op, address, nr_bytes, value) ==
  [op |-> op, address |-> address, nr_bytes |-> nr_bytes, value |-> value]

-----------------------------------------------------------------------------
\* Translate the address to indices into the two buffers.
DsInd(address) == address - DataSegStart
SsInd(address) == address - ss_start

\* The bytes are in the data buffer, or none of them is below the stack buffer.
InDataBuffer(address, nr_bytes) == DsInd(address) + nr_bytes <= ds_buf_size
InStackBuffer(address) == SsInd(address) >= 0

DsIncr(address, nr_bytes) == DsInd(address) + nr_bytes - ds_buf_size
SsIncr(address) == -SsInd(address)

\* AdjustBuffers finds a buffer that holds the bytes, enlarges the data
\* buffer, or enlarges the stack buffer.
Fits(address, nr_bytes) == InDataBuffer(address, nr_bytes) \/ InStackBuffer(address)
EnlargesData(address, nr_bytes) ==
  ~Fits(address, nr_bytes) /\ DsIncr(address, nr_bytes) <= SsIncr(address)
EnlargesStack(address, nr_bytes) ==
  ~Fits(address, nr_bytes) /\ DsIncr(address, nr_bytes) > SsIncr(address)

\* Mutant: the last byte of the old buffer is not copied.
MutantEnlarged(buffer, size, offset, new_size) ==
  [i \in 0 .. new_size - 1 |->
     IF i - offset \in 0 .. size - 2 THEN buffer[i - offset] ELSE 0]

\* calloc of the new buffer, and memcpy of the old one to an offset in it.
Enlarged(buffer, size, offset, new_size) ==
  [i \in 0 .. new_size - 1 |->
     IF i - offset \in 0 .. size - 1 THEN buffer[i - offset] ELSE 0]

\* The sizes and buffers after AdjustBuffers.
NewDsSize(address, nr_bytes) ==
  IF EnlargesData(address, nr_bytes) THEN 2 * (ds_buf_size + DsIncr(address, nr_bytes))
  ELSE ds_buf_size

NewSsSize(address, nr_bytes) ==
  IF EnlargesStack(address, nr_bytes) THEN 2 * (ss_buf_size + SsIncr(address))
  ELSE ss_buf_size

\* Mutant: the new buffer does not replace the old one.
MutantAdjustedData(address, nr_bytes) == data_seg

AdjustedData(address, nr_bytes) ==
  Enlarged(data_seg, ds_buf_size, 0, NewDsSize(address, nr_bytes))

AdjustedStack(address, nr_bytes) ==
  IF EnlargesStack(address, nr_bytes)
    THEN Enlarged(stack_seg, ss_buf_size, SsIncr(address), NewSsSize(address, nr_bytes))
    ELSE stack_seg

\* WriteToBuffer.
WriteToBuffer(buffer, buf_ind, value, nr_bytes) ==
  [i \in DOMAIN buffer |->
     IF i \in buf_ind .. buf_ind + nr_bytes - 1
       THEN ByteOf(value, buf_ind + nr_bytes - 1 - i)
       ELSE buffer[i]]

-----------------------------------------------------------------------------
\* WriteToDataMemory of a value that fits.
Store(address, value, nr_bytes) ==
  LET ds_size == NewDsSize(address, nr_bytes)
      ss_size == NewSsSize(address, nr_bytes)
      start == StackSegEnd - ss_size
      to_data == DsInd(address) + nr_bytes <= ds_size
      data == AdjustedData(address, nr_bytes)
      stack == AdjustedStack(address, nr_bytes)
  IN  /\ ~failed
      /\ ValidDataAddress(address, nr_bytes)
      /\ WriteFits(value, nr_bytes)
      /\ ds_buf_size' = ds_size
      /\ ss_buf_size' = ss_size
      /\ ss_start' = start
      /\ data_seg' = IF to_data THEN WriteToBuffer(data, DsInd(address), value, nr_bytes)
                     ELSE data
      /\ stack_seg' = IF to_data THEN stack
                      ELSE WriteToBuffer(stack, address - start, value, nr_bytes)
      /\ access' = Accessed("store", address, nr_bytes, value)
      /\ UNCHANGED failed

\* ReadFromDataMemory, of bytes that are in a buffer.
LoadFrom(buffer, buf_ind, address, nr_bytes, read_unsigned) ==
  /\ ~failed
  /\ ValidDataAddress(address, nr_bytes)
  /\ access' = Accessed("load", address, nr_bytes,
                        ReadFromDataMemory(buffer, buf_ind, nr_bytes, read_unsigned))
  /\ UNCHANGED <<buffers, failed>>

Load(address, nr_bytes, read_unsigned) ==
  \/ /\ InDataBuffer(address, nr_bytes)
     /\ LoadFrom(data_seg, DsInd(address), address, nr_bytes, read_unsigned)
  \/ /\ ~InDataBuffer(address, nr_bytes)
     /\ InStackBuffer(address)
     /\ LoadFrom(stack_seg, SsInd(address), address, nr_bytes, read_unsigned)

\* ReadFromDataMemory takes an address in no buffer for one in the stack
\* buffer, with a negative index: it reads whatever lies there.
LoadOutside(address, nr_bytes, read_unsigned) ==
  /\ ~Fits(address, nr_bytes)
  /\ \E heap \in [0 .. nr_bytes - 1 -> Byte] :
       LET found == [k \in 0 .. nr_bytes - 1 |->
                       IF SsInd(address) + k \in DOMAIN stack_seg
                         THEN stack_seg[SsInd(address) + k] ELSE heap[k]]
       IN  LoadFrom(found, 0, address, nr_bytes, read_unsigned)

\* The three ways in which an access ends the process: the address is
\* refused, the value does not fit, or nothing is mapped where a load reads.
Fail(address, nr_bytes) ==
  /\ ~failed
  /\ \/ ~ValidDataAddress(address, nr_bytes)
     \/ \E value \in StoredValues : ~WriteFits(value, nr_bytes)
     \/ ~Fits(address, nr_bytes)
  /\ failed' = TRUE
  /\ UNCHANGED <<buffers, access>>

-----------------------------------------------------------------------------
Next ==
  \E a \in Accesses :
    \/ \E read_unsigned \in BOOLEAN : Load(a[1], a[2], read_unsigned)
    \/ \E read_unsigned \in BOOLEAN : LoadOutside(a[1], a[2], read_unsigned)
    \/ \E value \in StoredValues : Store(a[1], value, a[2])
    \/ Fail(a[1], a[2])

Spec == Init /\ [][Next]_vars

\* The accesses for which the two buffers are one memory: nothing is loaded
\* from outside of them, the data buffer does not grow into the stack buffer,
\* and the stack buffer is not enlarged.
KeepsApart(address, nr_bytes) ==
  /\ ~EnlargesStack(address, nr_bytes)
  /\ DataSegStart + NewDsSize(address, nr_bytes) <= ss_start

BoundedNext ==
  \E a \in Accesses :
    \/ \E read_unsigned \in BOOLEAN : Load(a[1], a[2], read_unsigned)
    \/ /\ KeepsApart(a[1], a[2])
       /\ \E value \in StoredValues : Store(a[1], value, a[2])
    \/ Fail(a[1], a[2])

BoundedSpec == Init /\ [][BoundedNext]_vars

-----------------------------------------------------------------------------
(* The refinement mapping: the buffers as one memory.                      *)

MemoryOf ==
  [a \in MemoryAddresses |->
     IF DsInd(a) < ds_buf_size THEN data_seg[DsInd(a)]
     ELSE IF SsInd(a) >= 0 THEN stack_seg[SsInd(a)]
     ELSE 0]

Memory == INSTANCE SegmentMemory WITH mem <- MemoryOf

\* However the buffers have grown, a load returns the bytes that were stored
\* last at its addresses, 0 if there are none, and a store changes no other
\* byte (data_memory.c, AdjustBuffers, ReadFromDataMemory, WriteToDataMemory).
ImplementsMemory == Memory!Spec

\* The buffers hold bytes, are as long as their sizes say, never shrink, and
\* the stack buffer ends at the end of its segment (data_memory.c, AdjustBuffers).
TypeOK ==
  /\ ds_buf_size \in Nat /\ ds_buf_size >= InitialBufSize
  /\ ss_buf_size \in Nat /\ ss_buf_size >= InitialBufSize
  /\ data_seg \in [0 .. ds_buf_size - 1 -> Byte]
  /\ stack_seg \in [0 .. ss_buf_size - 1 -> Byte]
  /\ ss_start = StackSegEnd - ss_buf_size
  /\ access \in [op : {"none", "load", "store"}, address : Int, nr_bytes : Int, value : Int]
  /\ failed \in BOOLEAN
=============================================================================
