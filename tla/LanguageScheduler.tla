-------------------------- MODULE LanguageScheduler --------------------------
(***************************************************************************)
(* The language mode of the simulator: LangScheduler ("simple", a batch is *)
(* finished before the next one is admitted) and IterLevelScheduler        *)
(* ("iter", requests join between two inferences).  Requests of a trace    *)
(* become active, the active ones are put into a model (one inference: the *)
(* prompt of a request, or one more token), the model goes through the     *)
(* simulator to the tile scheduler, and its end is reported back.          *)
(*                                                                         *)
(* Simulator::handle_model is one step: what cycle() puts into             *)
(* _model_queue leaves it in the same call.  The key and value caches of a *)
(* request have current_length rows at all times.                          *)
(***************************************************************************)
EXTENDS Integers, Sequences, FiniteSets, FiniteSetsExt

CONSTANTS
  NumRequests,    (* The lines of the trace.                               *)
  Prompt,         (* prompt_length of each of them,                        *)
  Cached,         (* cached_len,                                           *)
  Target,         (* and the target_length of the line.                    *)
  Config,         (* The configurations: the scheduler that is named,      *)
                  (* _max_batch_size and dram_size, each 0 for no limit.   *)
  WeightSize, KvSize, ActSize  (* What the weights, a cached token and a   *)
                               (* token of an inference take of the DRAM.  *)

Request == 0 .. NumRequests - 1

ASSUME LanguageAssumption ==
  /\ NumRequests \in Nat
  /\ Prompt \in [Request -> Nat] /\ Cached \in [Request -> Nat] /\ Target \in [Request -> Nat]
  /\ Config \subseteq [policy : {"simple", "iter"}, batch : Nat, dram : Nat]
  /\ WeightSize \in Nat /\ KvSize \in Nat /\ ActSize \in Nat

VARIABLES
  config,         (* The configuration of this simulation.                 *)
  due,            (* How many requests have a request_time that has come.  *)
  front,          (* The request at the front of _request_queue.           *)
  active,         (* _active_requests.                                     *)
  in_model,       (* _requests_in_model.                                   *)
  generated,      (* The models generated so far; they are their ids.      *)
  exited          (* The simulator has given up for want of memory.        *)

vars == <<config, due, front, active, in_model, generated, exited>>

policy == config.policy
MaxBatch == config.batch

-----------------------------------------------------------------------------
(* Simulator::handle_model.                                                *)

(* init_request.                                                            *)
NewRequest(r) == [gen |-> FALSE, current |-> Cached[r], running |-> FALSE]

MayAdmit ==
  CASE policy = "simple" -> DOMAIN active = {}
    [] policy = "iter"   -> MaxBatch = 0 \/ Cardinality(DOMAIN active) <= MaxBatch

(* How many requests leave the queue: those that are due, one at least,     *)
(* until the batch is full.                                                 *)
AdmittedAll == IF MayAdmit THEN due - front ELSE 0     \* slip: the batch is not looked at
Admitted ==
  LET room == MaxBatch - Cardinality(DOMAIN active) IN
  CASE ~MayAdmit \/ front = due -> 0
    [] MayAdmit /\ front < due /\ MaxBatch = 0 -> due - front
    [] OTHER -> LET n == IF room > 1 THEN room ELSE 1 IN IF n < due - front THEN n ELSE due - front

Activated ==
  [r \in DOMAIN active \cup (front .. front + Admitted - 1) |->
     IF r \in DOMAIN active THEN active[r] ELSE NewRequest(r)]

(* init_inputs_and_model takes the first requests of the map that do not    *)
(* run in a model.                                                          *)
InputsNewest(act) ==                                   \* slip: the map is walked from its end
  LET idle == {r \in DOMAIN act : ~act[r].running} IN
  {r \in idle : MaxBatch = 0 \/ Cardinality({q \in idle : q > r}) < MaxBatch}
Inputs(act) ==
  LET idle == {r \in DOMAIN act : ~act[r].running} IN
  {r \in idle : MaxBatch = 0 \/ Cardinality({q \in idle : q < r}) < MaxBatch}

SeqLength(act, r) == IF act[r].gen THEN 1 ELSE Prompt[r]
MemoryUsage(act, S) ==
  WeightSize + KvSize * MapThenSumSet(LAMBDA r : act[r].current, DOMAIN act)
             + ActSize * MapThenSumSet(LAMBDA r : SeqLength(act, r), S)
TooLarge(act, S) == config.dram > 0 /\ config.dram < MemoryUsage(act, S)

MayGenerateAnother == TRUE                             \* slip: _requests_in_model.empty()
MayGenerate == DOMAIN in_model = {}

HandleModel ==
  /\ ~exited
  /\ front' = front + Admitted
  /\ LET S == Inputs(Activated) IN
     IF MayGenerate /\ S # {}
       THEN /\ active' = [r \in DOMAIN Activated |->
                            [Activated[r] EXCEPT !.running = @ \/ r \in S]]
            /\ in_model' = [m \in DOMAIN in_model \cup {generated} |->
                              IF m = generated THEN S ELSE in_model[m]]
            /\ generated' = generated + 1
            /\ exited' = TooLarge(Activated, S)
       ELSE active' = Activated /\ UNCHANGED <<in_model, generated, exited>>
  /\ UNCHANGED <<config, due>>

-----------------------------------------------------------------------------
(* Simulator::finish_language_model, which the tile scheduler calls when    *)
(* all layers of the model have finished.                                   *)

TargetLength(r) == Cached[r] + Prompt[r] + Target[r]

GrownPrompt(r) ==                                      \* slip: the prompt gives no token
  IF active[r].gen THEN active[r].current + 1 ELSE active[r].current + Prompt[r]
Grown(r) == IF active[r].gen THEN active[r].current + 1 ELSE active[r].current + Prompt[r] + 1

HasMore(r) == Grown(r) > TargetLength(r)                \* slip: > for >=
HasAll(r) == Grown(r) >= TargetLength(r)

Ran(r) == [gen |-> TRUE, current |-> Grown(r), running |-> FALSE]

FinishModel(m) ==
  /\ ~exited
  /\ m \in DOMAIN in_model
  /\ LET S == in_model[m]
         done == {r \in S : HasAll(r)} IN
     active' = [r \in DOMAIN active \ done |-> IF r \in S THEN Ran(r) ELSE active[r]]
  /\ in_model' = [k \in DOMAIN in_model \ {m} |-> in_model[k]]
  /\ UNCHANGED <<config, due, front, generated, exited>>

(* _cycle reaches the request_time of the next request.                     *)
Arrive == ~exited /\ due < NumRequests /\ due' = due + 1 /\ UNCHANGED <<config, front, active, in_model, generated, exited>>

(* LangScheduler::busy.                                                     *)
Busy == DOMAIN active # {} \/ front < NumRequests
Stopped == (exited \/ ~Busy) /\ UNCHANGED vars

Init ==
  /\ config \in Config
  /\ due = 0 /\ front = 0 /\ generated = 0
  /\ active = [r \in {} |-> 0] /\ in_model = [m \in {} |-> 0]
  /\ exited = FALSE

Next == HandleModel \/ (\E m \in DOMAIN in_model : FinishModel(m)) \/ Arrive \/ Stopped

Spec == Init /\ [][Next]_vars

(* The simulator calls handle_model in every core cycle, time passes, and   *)
(* the tile scheduler finishes every model (module SimpleScheduler).        *)
Fairness ==
  /\ WF_vars(HandleModel) /\ WF_vars(Arrive)
  /\ WF_vars(\E m \in DOMAIN in_model : FinishModel(m))

FairSpec == Spec /\ Fairness

-----------------------------------------------------------------------------
(* Properties.                                                             *)

LangRequest == [gen : BOOLEAN, current : Nat, running : BOOLEAN]

(* Every variable holds a value of its C++ type.                            *)
TypeOK ==
  /\ config \in Config
  /\ due \in 0 .. NumRequests /\ front \in 0 .. due
  /\ DOMAIN active \subseteq 0 .. front - 1 /\ active \in [DOMAIN active -> LangRequest]
  /\ generated \in Nat
  /\ DOMAIN in_model \subseteq 0 .. generated - 1 /\ in_model \in [DOMAIN in_model -> SUBSET Request]
  /\ exited \in BOOLEAN

(* At most one inference is under way, and the requests that are marked     *)
(* running are the ones in it: finish_model never looks up a request that   *)
(* was erased, and no request is in two inferences.                         *)
OneInference ==
  /\ TypeOK
  /\ Cardinality(DOMAIN in_model) <= 1
  /\ {r \in DOMAIN active : active[r].running} = UNION {in_model[m] : m \in DOMAIN in_model}

(* An inference never takes more than max_batch_size requests, and no more  *)
(* are active (one more with "iter", which admits at <= the limit).         *)
BatchBounded ==
  MaxBatch > 0 =>
    /\ \A m \in DOMAIN in_model : Cardinality(in_model[m]) \in 1 .. MaxBatch
    /\ Cardinality(DOMAIN active) <= (IF policy = "iter" THEN MaxBatch + 1 ELSE MaxBatch)

(* An inference never starts a request before an older one, also when more  *)
(* are active than fit into it.                                             *)
OldestFirst ==
  \A r, s \in DOMAIN active :
    r < s /\ (active[s].running \/ active[s].gen) => active[r].running \/ active[r].gen

(* The tokens request r was given: finish_model adds one to current_length  *)
(* for each, and the prompt with the first; it erases r with the last.      *)
TokensOf(r) == IF Target[r] = 0 THEN 1 ELSE Target[r]
Produced(r) ==
  CASE r >= front -> 0
    [] r < front /\ r \notin DOMAIN active -> TokensOf(r)
    [] OTHER -> IF active[r].gen THEN active[r].current - Cached[r] - Prompt[r] ELSE 0

Tokens == INSTANCE TokenService WITH
  Tokens <- TokensOf, started <- front,
  prefilled <- {r \in Request : r < front /\ (r \in DOMAIN active => active[r].gen)},
  produced <- [r \in Request |-> Produced(r)]
=============================================================================
