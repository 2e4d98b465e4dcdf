---------------------------- MODULE TokenService ----------------------------
(***************************************************************************)
(* What serving a trace of language requests means, whatever is batched    *)
(* with what: the requests are started in the order of the trace, each one *)
(* is given the tokens it asks for, at least one and one after the other,  *)
(* the first of them when its prompt is computed, and is done with the     *)
(* last of them.                                                           *)
(***************************************************************************)
EXTENDS Naturals

CONSTANTS NumRequests, Tokens(_)   (* The tokens request r is to be given. *)

VARIABLES
  started,        (* How many requests have been started.                  *)
  prefilled,      (* The requests whose prompt was computed.               *)
  produced        (* The tokens each request was given.                    *)

service == <<started, prefilled, produced>>
Requests == 0 .. NumRequests - 1

ServiceInit == started = 0 /\ prefilled = {} /\ produced = [r \in Requests |-> 0]

StartRequests == \E n \in started .. NumRequests : started' = n /\ UNCHANGED <<prefilled, produced>>

(* One inference gives a token to each of some started requests.            *)
Infer(S) ==
  /\ \A r \in S : r < started /\ produced[r] < Tokens(r)
  /\ prefilled' = prefilled \cup S
  /\ produced' = [r \in Requests |-> IF r \in S THEN produced[r] + 1 ELSE produced[r]]
  /\ UNCHANGED started

ServiceNext == StartRequests \/ \E S \in SUBSET Requests : Infer(S)

AllGiven == \A r \in Requests : produced[r] = Tokens(r)
ServiceSafety == ServiceInit /\ [][ServiceNext]_service
=============================================================================
