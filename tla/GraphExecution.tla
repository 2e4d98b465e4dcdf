--------------------------- MODULE GraphExecution ---------------------------
(***************************************************************************)
(* What every scheduling policy promises about the layers (operations) of  *)
(* the models it is given, whatever the order, the cores or the number of  *)
(* layers it runs at a time: a layer is started only when every layer that *)
(* produces one of its inputs has finished, it is started at most once per *)
(* round of its model, and a model is loaded again for its next round only *)
(* when all its layers have finished.                                      *)
(*                                                                         *)
(* This module holds no code: SimpleScheduler and SharedSchedulers are     *)
(* shown to implement it.                                                  *)
(***************************************************************************)
EXTENDS Naturals

CONSTANTS
  Model,          (* The models (requests) of the simulation.              *)
  Layer,          (* The operations of all the models.                     *)
  OwnLayers(_),   (* The layers of a model.                                *)
  InputsOf(_)     (* The layers whose outputs are inputs of a layer.       *)

VARIABLES
  running,        (* The layers that have been started and not finished.   *)
  finished        (* The layers that have finished in the current round.   *)

Init == /\ running = {}
        /\ finished = {}

(***************************************************************************)
(* The layers of F finish, the models of R are loaded again and the layers *)
(* of S start.  A scheduler does all three while it handles one event: the *)
(* last tile of a layer finishes it, and that lets the next layer start.   *)
(***************************************************************************)
Advance(F, R, S) ==
  /\ \A m \in R : OwnLayers(m) \subseteq finished \union F \/ OwnLayers(m) \cap (running \union finished) = {}
  /\ finished' = (finished \union F) \ UNION {OwnLayers(m) : m \in R}
  /\ \A l \in S : l \notin running \union finished' /\ InputsOf(l) \subseteq finished'
  /\ running' = (running \ F) \union S

Next == \E F \in SUBSET running, R \in SUBSET Model, S \in SUBSET Layer : Advance(F, R, S)

vars == <<running, finished>>

Spec == Init /\ [][Next]_vars
=============================================================================
