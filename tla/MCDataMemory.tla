---------------------------- MODULE MCDataMemory ----------------------------
(***************************************************************************)
(* Accesses that make both kinds of buffer use and growth happen.  The     *)
(* data buffer begins with 6 bytes: the word at D(4) straddles its end,    *)
(* the byte and the half word at D(6) begin behind it, and the byte makes  *)
(* it one of 14 bytes, whose end the word at D(12) straddles.  There are   *)
(* accesses to the first buffer's last bytes and to the stack buffer's,    *)
(* and accesses that are refused.                                          *)
(***************************************************************************)
EXTENDS DataMemory

D(offset) == DataSegStart + offset

\* An address of the stack buffer, counted from its end.
S(offset) == StackSegEnd - offset

MCAccesses ==
  {<<D(0), 4>>, <<D(4), 4>>, <<D(5), 1>>, <<D(6), 1>>, <<D(6), 2>>, <<D(12), 4>>,
   <<S(2), 1>>, <<S(3), 2>>, <<S(1), 1>>, <<D(1), 2>>, <<D(-1), 1>>}

MCValues == {-1, 9}
=============================================================================
