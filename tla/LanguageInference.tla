------------------------- MODULE LanguageInference --------------------------
(***************************************************************************)
(* The language mode as a whole: the language scheduler generates a model  *)
(* for a batch, the model builds its graph, the tile scheduler takes one   *)
(* executable operation after the other out of it, and the end of the last *)
(* one ends the model, which the simple tile scheduler reports to the      *)
(* language scheduler.  The other tile schedulers have several operations  *)
(* at a time and drop a model that has finished without a word.            *)
(*                                                                         *)
(* That the tiles of an operation that was started finish is the promise   *)
(* of modules SimpleScheduler and SharedSchedulers.                        *)
(***************************************************************************)
EXTENDS LanguageScheduler, LanguageModel

CONSTANT Schedulers   (* The values of scheduler_type with a configuration.*)

ASSUME InferenceAssumption ==
  Schedulers \in [Config -> SUBSET {"simple", "time_multiplex", "partition_cpu", "spatial_split"}]

VARIABLES
  scheduler,      (* The tile scheduler of this simulation.                *)
  running,        (* The operations whose tiles the tile scheduler has.    *)
  executable,     (* _executable_layer.                                    *)
  finished        (* The operations that have finished.                    *)

graphVars == <<scheduler, batch, running, executable, finished>>
allVars == <<vars, graphVars>>

(* The graphs for every size of a batch.                                    *)
Sizes == 1 .. NumRequests
OpsOf == [n \in Sizes |-> Ops(n)]
ProducersOf ==
  [n \in Sizes |-> [op \in ToSet(Ops(n)) |-> {x.from : x \in {y \in ToSet(Operands(op, n)) : y.output # 0}}]]
ChildNodesOf == [n \in Sizes |-> [op \in ToSet(Ops(n)) |-> ChildNodes(op, n)]]

(* Operation::check_executable: the outputs of an operation are produced    *)
(* when it has finished.                                                    *)
CheckExecutable(n, op, done) == ProducersOf[n][op] \subseteq done

(* A set of numbers from the smallest to the largest, and operations in the *)
(* order of their ids.                                                      *)
InOrder(S) ==
  [k \in 1 .. Cardinality(S) |-> CHOOSE x \in S : Cardinality({y \in S : y < x}) = k - 1]
OpsInOrder(n, I) == [k \in 1 .. Cardinality(I) |-> OpsOf[n][InOrder(I)[k]]]

(* Model::initialize_model looks at every operation, once they are all made.*)
ExecutableAtFirst ==
  [n \in Sizes |-> OpsInOrder(n, {i \in DOMAIN OpsOf[n] : CheckExecutable(n, OpsOf[n][i], {})})]

(* Model::set_layer_finish pushes the children that have become executable, *)
(* each one when it is met first; they are met in the order of their ids.   *)
PushedAgain(n, op, done) ==                            \* slip: check_exist_in_exeutable
  LET again == SetToSeq({x \in ChildNodesOf[n][op] : CheckExecutable(n, x.child, done)}) IN
  executable \o [i \in DOMAIN again |-> again[i].child]
Children(n, op) == {x.child : x \in ChildNodesOf[n][op]}
PushedFirst(n, op, done) ==                            \* slip: one child is enough
  LET ready == {c \in Children(n, op) : CheckExecutable(n, c, done)} IN
  executable \o IF ready = {} THEN <<>> ELSE <<CHOOSE c \in ready : TRUE>>
Pushed(n, op, done) ==
  executable \o OpsInOrder(n, {i \in DOMAIN OpsOf[n] :
                                 LET c == OpsOf[n][i] IN
                                 /\ c \in Children(n, op) /\ CheckExecutable(n, c, done)
                                 /\ c \notin ToSet(executable)})

(* Scheduler::refresh_status starts the first executable operation, when    *)
(* `still` are the others that run; only the simple scheduler starts none   *)
(* beside another, and always one if it can.                                *)
StartLayer(exe, still) ==
  IF scheduler # "simple" \/ exe = <<>>
    THEN running' = still /\ executable' = exe
    ELSE running' = {Head(exe)} /\ executable' = Tail(exe)

(* The refresh_status of the others runs after every tile that is taken or  *)
(* finished, and starts an operation when a queue of tiles is empty.        *)
StartAnother ==
  /\ scheduler # "simple" /\ executable # <<>>
  /\ running' = running \cup {Head(executable)} /\ executable' = Tail(executable)
  /\ UNCHANGED <<vars, scheduler, batch, finished>>

-----------------------------------------------------------------------------
(* LanguageModel::generate_model, with the lengths of init_inputs_and_model.*)
BatchOf(act, S) ==
  [b \in 1 .. Cardinality(S) |->
     LET r == InOrder(S)[b] IN [request |-> r, tokens |-> SeqLength(act, r), cached |-> act[r].current]]

(* Simulator::handle_model takes the model that was generated, initialises  *)
(* it and gives it to the tile scheduler.                                   *)
Handle ==
  /\ HandleModel
  /\ LET S == Inputs(Activated) IN
     IF ~MayGenerate \/ S = {} \/ TooLarge(Activated, S)
       THEN UNCHANGED graphVars
       ELSE /\ batch' = BatchOf(Activated, S)
            /\ StartLayer(ExecutableAtFirst[Cardinality(S)], {})
            /\ finished' = {}
            /\ UNCHANGED scheduler

(* The last tile of an operation: Scheduler::finish_tile.                   *)
CheckFinish(done) == done = ToSet(OpsOf[Len(batch)])

FinishLayer ==
  /\ ~exited
  /\ \E op \in running :
       LET done == finished \cup {op} IN
       IF CheckFinish(done)
         THEN /\ IF scheduler = "simple" THEN \E m \in DOMAIN in_model : FinishModel(m) ELSE UNCHANGED vars
              /\ batch' = <<>> /\ running' = {} /\ executable' = <<>> /\ finished' = {}
         ELSE /\ finished' = done
              /\ StartLayer(Pushed(Len(batch), op, done), running \ {op})
              /\ UNCHANGED <<vars, batch>>
  /\ UNCHANGED scheduler

InferenceInit ==
  /\ Init
  /\ scheduler \in Schedulers[config]
  /\ batch = <<>> /\ running = {} /\ executable = <<>> /\ finished = {}

InferenceNext ==
  \/ Handle
  \/ StartAnother
  \/ FinishLayer
  \/ (Arrive \/ Stopped) /\ UNCHANGED graphVars

(* HalfSplit may lose tiles of an operation, which then never finishes.     *)
InferenceSpec ==
  /\ InferenceInit /\ [][InferenceNext]_allVars
  /\ WF_allVars(Handle) /\ WF_allVars(Arrive /\ UNCHANGED graphVars)
  /\ WF_allVars(StartAnother) /\ WF_allVars(scheduler # "spatial_split" /\ FinishLayer)

-----------------------------------------------------------------------------
(* Properties.                                                             *)

(* Every operation whose operands are produced is queued, on the cores or   *)
(* finished, and is only one of them: none is forgotten when its producers  *)
(* finish in whatever order, none is queued twice because it takes several  *)
(* tensors of one producer, and none is started on missing operands.        *)
ReadyIsQueued ==
  /\ Cardinality(ToSet(executable)) = Len(executable)
  /\ ToSet(executable) \cap (finished \cup running) = {} /\ running \cap finished = {}
  /\ batch # <<>> =>
       {op \in ToSet(OpsOf[Len(batch)]) : CheckExecutable(Len(batch), op, finished)} = ToSet(executable) \cup running \cup finished

(* The operand an operation gets has the dimensions it computes with, in    *)
(* every model and for every batch; in a model that is split over devices   *)
(* all but the caches and the queries do.                                   *)
ShapesAgree ==
  \A op \in running, t \in Transformer :
    t.tensor_parallel = 1 \/ op.kind \notin {"KVccat", "Attention"} => OperandsFit(t, op)

(* The caches of a request never get more rows than the length it is to     *)
(* reach: that is what decides whether they fit into max_seq_length.        *)
CacheWithinTarget ==
  \A b \in DOMAIN batch : ContextRows(b) <= TargetLength(batch[b].request)

(* The trace is served: in order, each prompt with one inference that also  *)
(* gives a token, and each request with the tokens it asks for and no more, *)
(* unless the memory does not suffice, or the end of the first inference is *)
(* never reported.                                                          *)
Unreported ==
  /\ scheduler # "simple" /\ generated = 1 /\ DOMAIN in_model # {}
  /\ scheduler # "spatial_split" => batch = <<>>
ServesTokens == Tokens!ServiceSafety /\ (<>[]Tokens!AllGiven \/ <>exited \/ <>[]Unreported)

(* The inference the language scheduler waits for is executed to its end:   *)
(* the model, its graph and the simple tile scheduler implement what the    *)
(* language scheduler assumes of FinishModel.  With the others every step   *)
(* is one of the language scheduler, but the end never comes.               *)
RunsEveryInference == Spec /\ (scheduler = "simple" => Fairness)
=============================================================================
