-------------------------- MODULE SharedSchedulers --------------------------
(***************************************************************************)
(* The schedulers that run several requests at a time: TimeMultiplex (the  *)
(* next layer comes from the next request), DedicatedCPU ("partition_cpu", *)
(* each partition of the cores has requests of its own) and HalfSplit      *)
(* ("spatial_split", each core serves one of the requests), with the part  *)
(* of Simulator::cycle that drives them, as in SimpleScheduler.            *)
(*                                                                         *)
(* A layer enters the queues only when the queue of its partition is       *)
(* empty, so that the tiles of a core queue are in the order in which      *)
(* their layers started (`order`) and, in a layer, in that of their index. *)
(* schedule_model, finish_tile and get_tile end in refresh_status, which   *)
(* walks over the requests and then over the cores or the requests again:  *)
(* the phases "refresh" and "start", after which the caller goes on at     *)
(* `after`.                                                                *)
(***************************************************************************)
EXTENDS TileDispatch

CONSTANTS
  MaxTiles,       (* Room for tiles in a core.                             *)
  Policy,         (* The values of scheduler_type.                         *)
  PartitionOf     (* Model::get_partition_id of each model.                *)

ASSUME SharedAssumption ==
  /\ MaxTiles \in Nat \ {0}
  /\ Policy \subseteq {"time_multiplex", "partition_cpu", "spatial_split"}
  /\ PartitionOf \in [Model -> DOMAIN PartitionMap]

VARIABLES
  policy,         (* The scheduler of this simulation.                     *)
  order,          (* The active layers, in the order in which they started.*)
  request_rr,     (* _request_rr.                                          *)
  turn, phase,    (* Where Simulator::cycle is,                            *)
  index, after    (* where refresh_status is, and what follows it.         *)

loopVars == <<policy, request_rr, turn>>
vars == <<Dispatch, policy, order, request_rr, turn, phase, index, after>>

Running == models # {} \/ requests # <<>> \/ \E t \in Tile : tile[t] = "running"

ModelOf(l) == CHOOSE m \in Model : l \in Owns(m)
Requested == {requests[i] : i \in 1 .. Len(requests)}

-----------------------------------------------------------------------------
(* The queues.                                                             *)

(* _executable_tile_queue of a partition; only DedicatedCPU uses more than  *)
(* the first.  HalfSplit has a queue for each request.                      *)
ExecQueue(p) ==
  {t \in Tile : tile[t] = "exec" /\ p = IF policy = "partition_cpu" THEN PartitionOf[ModelOf(t[1])] ELSE 0}
RequestQueue(m) == {t \in Tile : tile[t] = "exec" /\ t[1] \in Owns(m)}

StartedAt(l) == CHOOSE i \in 1 .. Len(order) : order[i] = l
FirstOf(t, S) ==
  /\ t \in S
  /\ \A u \in S : StartedAt(t[1]) < StartedAt(u[1]) \/ (t[1] = u[1] /\ t[2] <= u[2])

-----------------------------------------------------------------------------
(* refresh_status.                                                         *)

RefreshStatus(then) == phase' = "refresh" /\ after' = then /\ UNCHANGED index

(* Every request whose layers have all finished goes, and a model with      *)
(* rounds to do is registered again.                                        *)
DropFinished ==
  /\ phase = "refresh"
  /\ LET over == {m \in Requested : CheckFinish(m, finished)}
         again == {m \in over : CheckRegressive(m)}
     IN  /\ \E left \in InOrder(Requested \ over, requests) : requests' = left
         /\ models' = models \cup again
         /\ axes' = [m \in Model |-> IF m \in again THEN PrepareRegressive(axes[m]) ELSE axes[m]]
  /\ phase' = "start"
  /\ UNCHANGED <<finished, executable, active, tile, at, load, heap, order, index, after, loopVars>>

(* A layer becomes active and its tiles enter a queue.  The layer is said   *)
(* to have as many tiles as there are in the queue then, those that were    *)
(* already there included.                                                  *)
Activate(m, queue) ==
  LET l == Head(executable[m]) IN
  /\ executable' = [executable EXCEPT ![m] = Tail(@)]
  /\ active' = [k \in DOMAIN active \cup {l} |->
                  IF k = l THEN [remain |-> Cardinality(queue \cup TilesIn(l)), finished |-> 0, launched |-> 0]
                           ELSE active[k]]
  /\ order' = Append(order, l)

Enqueued(l) == [t \in Tile |-> IF t[1] = l THEN "exec" ELSE tile[t]]

StartOnCores(m, p, offset, coreFor) ==
  LET l == Head(executable[m]) IN
  /\ Activate(m, ExecQueue(p))
  /\ IssueTiles(Enqueued(l), ExecQueue(p) \cup TilesIn(l), offset, coreFor)

StartInQueue(m) ==
  /\ Activate(m, RequestQueue(m))
  /\ tile' = Enqueued(Head(executable[m]))
  /\ UNCHANGED <<at, load, heap>>

StartNone == UNCHANGED <<executable, active, order, tile, at, load, heap>>

Goes(n) == IF index + 1 < n THEN index' = index + 1 /\ UNCHANGED phase ELSE index' = 0 /\ phase' = after

(* TimeMultiplex: when all queues are empty, the next request in turn       *)
(* starts a layer, if it has one.                                           *)
StartMultiplexed ==
  /\ phase = "start" /\ policy = "time_multiplex"
  /\ IF requests # <<>> /\ TileQueueEmpty(tile)
       THEN /\ request_rr' = (request_rr + 1) % Len(requests)
            /\ LET m == requests[request_rr' + 1] IN
               IF executable[m] # <<>> THEN StartOnCores(m, 0, 0, [c \in Core |-> c]) ELSE StartNone
       ELSE StartNone /\ UNCHANGED request_rr
  /\ Goes(1)
  /\ UNCHANGED <<models, axes, requests, finished, after, policy, turn>>

(* DedicatedCPU: each core without tiles starts a layer of the oldest       *)
(* request of its partition, if nothing of it waits at a barrier.           *)
OldestOf(m, p) ==
  \E i \in 1 .. Len(requests) :
    /\ requests[i] = m /\ PartitionOf[m] = p
    /\ \A j \in 1 .. i - 1 : PartitionOf[requests[j]] # p

MayStart(c, m) ==
  /\ CoreQueue(c) = {} /\ ExecQueue(Partition[c]) = {}
  /\ OldestOf(m, Partition[c]) /\ executable[m] # <<>>

StartDedicated ==
  /\ phase = "start" /\ policy = "partition_cpu"
  /\ \/ \E m \in Requested :
          /\ MayStart(index, m)
          /\ StartOnCores(m, Partition[index], Position(index),
                          [c \in Core |-> Allowed(Partition[index], c + Position(index))])
     \/ (\A m \in Requested : ~MayStart(index, m)) /\ StartNone
  /\ Goes(NumCores)
  /\ UNCHANGED <<models, axes, requests, finished, after, loopVars>>

(* HalfSplit: each request whose queue is empty starts a layer.             *)
MayStartSplitBusy(m) == executable[m] # <<>>                       \* slip: no look at the queue
MayStartSplit(m) == RequestQueue(m) = {} /\ executable[m] # <<>>

StartSplit ==
  /\ phase = "start" /\ policy = "spatial_split"
  /\ IF requests # <<>> /\ MayStartSplit(requests[index + 1])
       THEN StartInQueue(requests[index + 1])
       ELSE StartNone
  /\ Goes(Len(requests))
  /\ UNCHANGED <<models, axes, requests, finished, after, loopVars>>

-----------------------------------------------------------------------------
(* schedule_model and finish_tile.                                         *)

ScheduleModel(m) ==
  /\ phase = "models"
  /\ m \in models
  /\ models' = models \ {m}
  /\ requests' = Append(requests, m)
  /\ finished' = finished \ Owns(m)
  /\ \E roots \in InOrder(Roots(m), LayersOf[m]) : executable' = [executable EXCEPT ![m] = roots]
  /\ RefreshStatus("models")
  /\ UNCHANGED <<axes, active, tile, at, load, heap, order, loopVars>>

StartCores ==
  /\ phase = "models"
  /\ Running
  /\ phase' = "finish"
  /\ UNCHANGED <<Dispatch, order, index, after, loopVars>>

(* The last tile of a layer finishes it.  HalfSplit then throws the queue   *)
(* of the request away, with whatever another layer has put there.          *)
ThrownAway(l) == IF policy = "spatial_split" THEN RequestQueue(ModelOf(l)) ELSE {}

FinishTile(l, act, til) ==
  LET m == ModelOf(l)
      fin == finished \cup {l}
  IN  IF act[l].remain > 1
        THEN /\ active' = [act EXCEPT ![l].remain = @ - 1, ![l].finished = @ + 1]
             /\ tile' = til
             /\ UNCHANGED <<finished, executable, order>>
        ELSE /\ active' = [k \in DOMAIN act \ {l} |-> act[k]]
             /\ order' = SelectSeq(order, LAMBDA k : k # l)
             /\ finished' = fin
             /\ \E new \in InOrder(NewlyExecutable(l, fin, executable[m]), ChildNodes[l]) :
                  executable' = [executable EXCEPT ![m] = @ \o new]
             /\ tile' = [t \in Tile |-> IF t \in ThrownAway(l) THEN "lost" ELSE til[t]]

PopFinishedTile(t) ==
  /\ phase = "finish"
  /\ tile[t] = "finished" /\ at[t] = turn
  /\ FinishTile(t[1], active, [tile EXCEPT ![t] = "done"])
  /\ RefreshStatus("get")
  /\ UNCHANGED <<models, axes, requests, at, load, heap, loopVars>>

NoFinishedTile ==
  /\ phase = "finish"
  /\ \A t \in Tile : ~(tile[t] = "finished" /\ at[t] = turn)
  /\ phase' = "get"
  /\ UNCHANGED <<Dispatch, order, index, after, loopVars>>

-----------------------------------------------------------------------------
(* get_tile.                                                               *)

CanIssue == Cardinality({t \in Tile : tile[t] = "running" /\ at[t] = turn}) < MaxTiles

Asks == phase = "get" /\ requests # <<>> /\ CanIssue
AsksQueues == Asks /\ policy # "spatial_split"
AsksRequest == Asks /\ policy = "spatial_split"

NoGetTile ==
  /\ phase = "get"
  /\ requests = <<>> \/ ~CanIssue
  /\ phase' = "run"
  /\ UNCHANGED <<Dispatch, order, index, after, loopVars>>

GetTileBothEmpty ==
  /\ AsksQueues
  /\ CoreQueue(turn) = {} /\ ExecQueue(Partition[turn]) = {}
  /\ RefreshStatus("run")
  /\ UNCHANGED <<Dispatch, order, loopVars>>

Taken(t) == IF Kind(t).skip THEN "finished" ELSE "running"

GetTileFromCoreQueue(t) ==
  /\ AsksQueues
  /\ FirstOf(t, CoreQueue(turn))
  /\ active' = [active EXCEPT ![t[1]].launched = @ + 1]
  /\ tile' = [tile EXCEPT ![t] = Taken(t)]
  /\ phase' = "run"
  /\ UNCHANGED <<models, axes, requests, finished, executable, at, load, heap, order, index, after, loopVars>>

AtBarrier(b) ==
  /\ AsksQueues
  /\ CoreQueue(turn) = {}
  /\ FirstOf(b, ExecQueue(Partition[turn]))
  /\ Bar(b)

BarrierReached(b) == active[b[1]].launched = active[b[1]].finished
CountBarrierUnlaunched(l) == [active EXCEPT ![l].finished = @ + 1, ![l].remain = @ - 1]   \* slip
CountBarrier(l) == [active EXCEPT ![l].launched = @ + 1, ![l].finished = @ + 1, ![l].remain = @ - 1]

GetTileBarrierHolds(b) ==
  /\ AtBarrier(b)
  /\ ~BarrierReached(b)
  /\ phase' = "run"
  /\ UNCHANGED <<Dispatch, order, index, after, loopVars>>

GetTileBarrierOpens(b) ==
  /\ AtBarrier(b)
  /\ BarrierReached(b)
  /\ active[b[1]].remain > 1
  /\ active' = CountBarrier(b[1])
  /\ LET p == Partition[turn] IN
     IssueTiles([tile EXCEPT ![b] = "done"], ExecQueue(p) \ {b}, Position(turn),
                [c \in Core |-> Allowed(p, c + Position(turn))])
  /\ phase' = "run"
  /\ UNCHANGED <<models, axes, requests, finished, executable, order, index, after, loopVars>>

GetTileBarrierIsLast(b) ==
  /\ AtBarrier(b)
  /\ BarrierReached(b)
  /\ active[b[1]].remain = 1
  /\ FinishTile(b[1], active, [tile EXCEPT ![b] = "done"])
  /\ RefreshStatus("run")
  /\ UNCHANGED <<models, axes, requests, at, load, heap, loopVars>>

(* HalfSplit: the core takes the next tile of its request.  The simulator   *)
(* issues only tiles that are INITIALIZED: a barrier is dropped.            *)
MyRequest == requests[(turn % Len(requests)) + 1]

GetTileOfRequest(t) ==
  /\ AsksRequest
  /\ FirstOf(t, RequestQueue(MyRequest))
  /\ tile' = [tile EXCEPT ![t] = IF Bar(t) THEN "lost" ELSE Taken(t)]
  /\ at' = [at EXCEPT ![t] = turn]
  /\ phase' = "run"
  /\ UNCHANGED <<models, axes, requests, finished, executable, active, load, heap, order, index, after, loopVars>>

NoTileOfRequest ==
  /\ AsksRequest
  /\ RequestQueue(MyRequest) = {}
  /\ phase' = "run"
  /\ UNCHANGED <<Dispatch, order, index, after, loopVars>>

-----------------------------------------------------------------------------
NextCore ==
  IF turn + 1 < NumCores
    THEN turn' = turn + 1 /\ phase' = "finish"
    ELSE turn' = 0 /\ phase' = "models"

CoreRuns ==
  /\ phase = "run"
  /\ NextCore
  /\ UNCHANGED <<Dispatch, order, index, after, policy, request_rr>>

CoreFinishes(t) ==
  /\ phase = "run"
  /\ tile[t] = "running" /\ at[t] = turn
  /\ tile' = [tile EXCEPT ![t] = "finished"]
  /\ NextCore
  /\ UNCHANGED <<models, axes, requests, finished, executable, active, at, load, heap, order, index, after, policy, request_rr>>

Stopped == phase = "models" /\ ~Running /\ UNCHANGED vars

Init ==
  /\ DispatchInit
  /\ policy \in Policy
  /\ order = <<>> /\ request_rr = 0
  /\ turn = 0 /\ phase = "models" /\ index = 0 /\ after = "models"

Step(t) ==
  \/ PopFinishedTile(t)
  \/ GetTileFromCoreQueue(t) \/ GetTileOfRequest(t)
  \/ GetTileBarrierHolds(t) \/ GetTileBarrierOpens(t) \/ GetTileBarrierIsLast(t)
  \/ CoreFinishes(t)

Next ==
  \/ \E m \in Model : ScheduleModel(m)
  \/ StartCores
  \/ NoFinishedTile
  \/ NoGetTile \/ GetTileBothEmpty \/ NoTileOfRequest
  \/ DropFinished \/ StartMultiplexed \/ StartDedicated \/ StartSplit
  \/ CoreRuns
  \/ \E t \in Tile : Step(t)
  \/ Stopped

Spec == Init /\ [][Next]_vars

(* As in SimpleScheduler.                                                   *)
Fairness ==
  /\ WF_vars(Next)
  /\ SF_vars(\E m \in Model : ScheduleModel(m))
  /\ SF_vars(\E t \in Tile : CoreFinishes(t))

FairSpec == Spec /\ Fairness

-----------------------------------------------------------------------------
(* Properties.                                                             *)

(* The counters of each active layer say what became of its tiles, only an  *)
(* active layer has tiles in a queue or in a core, and its request is still *)
(* there: the assertions of finish_tile hold for every tile a core hands    *)
(* back, with several requests in the cores and requests removed from the   *)
(* middle of the queue.                                                     *)
LayerAccounting ==
  /\ \A l \in DOMAIN active :
       /\ active[l].remain = Count(l, tile, {"exec", "core", "running", "finished", "lost"})
       /\ active[l].finished = Count(l, tile, {"done"})
       /\ policy # "spatial_split" => active[l].launched = Count(l, tile, {"running", "finished", "done"})
       /\ ModelOf(l) \in Requested
  /\ \A t \in Tile : tile[t] \in {"exec", "core", "running", "finished"} => t[1] \in DOMAIN active

(* Layers of several requests overlap, and each model is still executed as  *)
(* GraphExecution says: each layer once a round, after its inputs.          *)
Graph == INSTANCE GraphExecution WITH OwnLayers <- Owns, InputsOf <- Producers, running <- DOMAIN active
ExecutesGraph == Graph!Spec

(* Every model that is given is carried through all its rounds whatever the *)
(* others do, unless HalfSplit loses a tile of it: a barrier, or a tile of  *)
(* a layer that waits when another layer of the request finishes.           *)
Served(m) == m \notin models \cup Requested /\ Owns(m) \subseteq finished /\ Generated(m)
LostTile(m) == policy = "spatial_split" /\ \E t \in Tile : t[1] \in Owns(m) /\ tile[t] = "lost"
AllServed == \A m \in Model : m \in models => <>[](Served(m) \/ LostTile(m))
=============================================================================
