--------------------------- MODULE MemoryService ----------------------------
(***************************************************************************)
(* What a core relies on when it sends its requests to the memory: each    *)
(* request is answered, and answered once.  Nothing is said about order,   *)
(* blocks, banks or time.                                                  *)
(***************************************************************************)
CONSTANT Request
VARIABLE pending  (* The requests that were asked and not yet answered.    *)

ServiceInit == pending = {}

Ask(S) == S \cap pending = {} /\ pending' = pending \cup S
Answer(S) == S \subseteq pending /\ pending' = pending \ S

ServiceNext == \E S \in SUBSET Request : Ask(S) \/ Answer(S)

ServiceSafety == ServiceInit /\ [][ServiceNext]_pending
ServiceSpec == ServiceSafety /\ \A r \in Request : r \in pending ~> r \notin pending
=============================================================================
