---------------------------- MODULE MCMemoryPath ----------------------------
(***************************************************************************)
(* Two cores and one channel; a core with enough requests to keep the      *)
(* channel busy for ever, and one with a single request.                   *)
(***************************************************************************)
EXTENDS MemoryPath

CONSTANTS r1, r2, r3, r4

BusyRequest == {r1, r2, r3, r4}
BusyCoreOf == [r \in BusyRequest |-> IF r = r4 THEN 1 ELSE 0]
BusyChannelOf == [r \in BusyRequest |-> 0]
=============================================================================
