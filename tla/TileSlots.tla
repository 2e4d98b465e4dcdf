----------------------------- MODULE TileSlots ------------------------------
(***************************************************************************)
(* What a core promises the scheduler about the tiles it is given: it      *)
(* works on at most `Slots` of them at a time, each tile it takes becomes  *)
(* finished exactly once, and finished tiles are handed back in the order  *)
(* in which they finished.  Nothing is said about instructions, buffers,   *)
(* memory or time.                                                         *)
(***************************************************************************)
EXTENDS Naturals, Sequences, FiniteSets

CONSTANTS
  Tile,           (* The tiles the core is given.                          *)
  Skipped,        (* Those that carry no work.                             *)
  Slots           (* How many tiles may run at a time.                     *)

VARIABLES
  running,        (* The tiles the core works on.                          *)
  finished,       (* The finished tiles that were not handed back yet.     *)
  returned        (* The tiles that were handed back.                      *)

slots == <<running, finished, returned>>

Seen == running \cup {finished[i] : i \in 1 .. Len(finished)} \cup returned

SlotsInit == running = {} /\ finished = <<>> /\ returned = {}

Take(t) ==
  /\ t \notin Seen
  /\ Cardinality(running) < Slots
  /\ IF t \in Skipped
       THEN running' = running /\ finished' = Append(finished, t)
       ELSE running' = running \cup {t} /\ finished' = finished
  /\ UNCHANGED returned

Finish(t) ==
  /\ t \in running
  /\ running' = running \ {t}
  /\ finished' = Append(finished, t)
  /\ UNCHANGED returned

HandBack ==
  /\ finished # <<>>
  /\ returned' = returned \cup {Head(finished)}
  /\ finished' = Tail(finished)
  /\ UNCHANGED running

SlotsNext == HandBack \/ \E t \in Tile : Take(t) \/ Finish(t)

SlotsSafety == SlotsInit /\ [][SlotsNext]_slots

(* Every tile that was taken is finished and handed back in the end.       *)
SlotsSpec == SlotsSafety /\ WF_slots(HandBack) /\ \A t \in Tile : WF_slots(Finish(t))
=============================================================================
