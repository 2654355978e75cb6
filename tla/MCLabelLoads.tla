---------------------------- MODULE MCLabelLoads ----------------------------
(***************************************************************************)
(* The data memory as the simulator uses it: the parser stores the         *)
(* constants of the directives one behind the other from the start of the  *)
(* data segment, then the program loads from labels.  A label of the data  *)
(* segment stands before a constant and names its first byte.              *)
(***************************************************************************)
EXTENDS DataMemory

VARIABLES
  cur_data_addr,     \* where the next constant is stored
  constants,         \* the addresses of those stored, which labels may name
  parsing            \* the program does not run yet

useVars == <<vars, cur_data_addr, constants, parsing>>

UseInit == Init /\ cur_data_addr = DataSegStart /\ constants = {} /\ parsing = TRUE

\* AddParsedDataToBack, with a byte, a half word or a word.
Directive(value, size) ==
  /\ parsing
  /\ Store(cur_data_addr, value, size)
  /\ constants' = constants \cup {cur_data_addr}
  /\ cur_data_addr' = cur_data_addr + size
  /\ UNCHANGED parsing

Run ==
  /\ parsing
  /\ parsing' = FALSE
  /\ UNCHANGED <<vars, cur_data_addr, constants>>

\* A load from a label, of any of the three sizes.
LoadLabel(size) ==
  /\ ~parsing
  /\ \E address \in constants :
       \/ Load(address, size, TRUE)
       \/ LoadOutside(address, size, TRUE)
  /\ UNCHANGED <<cur_data_addr, constants, parsing>>

UseNext ==
  \/ \E size \in {1, 2, 4}, value \in StoredValues : Directive(value, size)
  \/ Run
  \/ \E size \in {1, 2, 4} : LoadLabel(size)

UseSpec == UseInit /\ [][UseNext]_useVars

\* "Read from the appropriate buffer" (data_memory.c, ReadFromDataMemory): what
\* a load has read was in one of the buffers.
LoadsFromBuffers == access.op = "load" => Fits(access.address, access.nr_bytes)

MCValues == {1}
=============================================================================
