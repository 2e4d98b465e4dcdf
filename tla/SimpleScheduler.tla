--------------------------- MODULE SimpleScheduler ---------------------------
(***************************************************************************)
(* The base Scheduler of ONNXim ("simple"): one layer of the oldest        *)
(* request at a time, its tiles spread over the cores, BAR tiles that hold *)
(* back the tiles behind them, and the part of Simulator::cycle that       *)
(* drives it.  Everything runs on one thread: in a core cycle the          *)
(* simulator first schedules the models whose request time has come, then  *)
(* visits the cores in order, and for each core handles a finished tile,   *)
(* asks for a new one if the core has room, and lets the core run.  `turn` *)
(* and `phase` say where in this loop the simulator is.                    *)
(*                                                                         *)
(* What a core does with a tile is the subject of module Core; here a      *)
(* running tile finishes in some cycle of its core.                        *)
(***************************************************************************)
EXTENDS TileDispatch

CONSTANT MaxTiles   (* Room for tiles in a core: Core::can_issue says 2.   *)

VARIABLES
  turn,             (* The core the loop of Simulator::cycle is at.        *)
  phase             (* What comes next for that core.                      *)

vars == <<models, axes, requests, finished, executable, active, tile, at, load, heap, turn, phase>>

Phase == {"models", "finish", "get", "run"}

(* Simulator::running, as far as the scheduler has a say in it.             *)
Running == \/ models # {}
           \/ requests # <<>>
           \/ \E t \in Tile : tile[t] = "running"

-----------------------------------------------------------------------------
(* Whether refresh_status may start a layer of the oldest request.          *)
MayStartOverlapping(reqs, act, til) == reqs # <<>> /\ TileQueueEmpty(til)    \* slip: count_active_layers
MayStart(reqs, act, til) == reqs # <<>> /\ TileQueueEmpty(til) /\ DOMAIN act = {}

(***************************************************************************)
(* Scheduler::refresh_status, called at the end of schedule_model,         *)
(* finish_tile and an unsuccessful get_tile.  The caller passes what it    *)
(* has changed: the registered models, the requests, the executable        *)
(* layers, the active layers and the tiles; fin is what has finished.      *)
(***************************************************************************)
StartLayer(l, exe, act, til) ==
  /\ executable' = exe
  /\ active' = [k \in DOMAIN act \union {l} |->
                  IF k = l THEN [remain |-> Len(TilesOf[l]), finished |-> 0, launched |-> 0]
                           ELSE act[k]]
  /\ IssueTiles([t \in Tile |-> IF t[1] = l THEN "exec" ELSE til[t]], TilesIn(l), 0, [c \in Core |-> c])

StartNoLayer(exe, act, til) ==
  /\ executable' = exe
  /\ active' = act
  /\ tile' = til
  /\ UNCHANGED <<at, load, heap>>

RefreshStatus(mods, reqs, fin, exe, act, til) ==
  LET over == reqs # <<>> /\ CheckFinish(Head(reqs), fin)
      rest == IF over THEN Tail(reqs) ELSE reqs
      again == over /\ CheckRegressive(Head(reqs))
      next == exe[Head(rest)]
  IN  /\ requests' = rest
      /\ models' = IF again THEN mods \union {Head(reqs)} ELSE mods
      /\ axes' = IF again THEN [axes EXCEPT ![Head(reqs)] = PrepareRegressive(@)] ELSE axes
      /\ finished' = fin
      /\ IF MayStart(rest, act, til) /\ next # <<>>
         THEN StartLayer(Head(next), [exe EXCEPT ![Head(rest)] = Tail(next)], act, til)
         ELSE StartNoLayer(exe, act, til)

(***************************************************************************)
(* Scheduler::finish_tile for a tile of layer l.  The layer is looked up   *)
(* in the model of the oldest request.                                     *)
(***************************************************************************)
FinishTile(l, act, til) ==
  IF act[l].remain > 1
  THEN RefreshStatus(models, requests, finished, executable,
                     [act EXCEPT ![l].remain = @ - 1, ![l].finished = @ + 1], til)
  ELSE LET m == Head(requests)
           fin == finished \union {l}
       IN  \E new \in InOrder(NewlyExecutable(l, fin, executable[m]), ChildNodes[l]) :
             RefreshStatus(models, requests, fin, [executable EXCEPT ![m] = @ \o new],
                           [k \in DOMAIN act \ {l} |-> act[k]], til)

-----------------------------------------------------------------------------
(* Simulator::handle_model takes a registered model whose request time has  *)
(* come, builds its graph and schedules it.                                 *)
ScheduleModel(m) ==
  /\ phase = "models"
  /\ m \in models
  /\ \E roots \in InOrder(Roots(m), LayersOf[m]) :
       RefreshStatus(models \ {m}, Append(requests, m), finished \ Owns(m),
                     [executable EXCEPT ![m] = roots], active, tile)
  /\ UNCHANGED <<turn, phase>>

StartCores ==
  /\ phase = "models"
  /\ Running
  /\ phase' = "finish"
  /\ UNCHANGED <<Dispatch, turn>>

(* pop_finished_tile and finish_tile: at most one finished tile per core    *)
(* and cycle.                                                               *)
PopFinishedTile(t) ==
  /\ phase = "finish"
  /\ tile[t] = "finished" /\ at[t] = turn
  /\ FinishTile(t[1], active, [tile EXCEPT ![t] = "done"])
  /\ phase' = "get"
  /\ UNCHANGED turn

NoFinishedTile ==
  /\ phase = "finish"
  /\ \A t \in Tile : ~(tile[t] = "finished" /\ at[t] = turn)
  /\ phase' = "get"
  /\ UNCHANGED <<Dispatch, turn>>

-----------------------------------------------------------------------------
(* Scheduler::get_tile(turn), and Core::issue of the tile it returns.       *)

CanIssue == Cardinality({t \in Tile : tile[t] = "running" /\ at[t] = turn}) < MaxTiles

(* The executable queue of the core's partition; all layers go to queue 0.  *)
ExecQueue == {t \in Tile : tile[t] = "exec" /\ Partition[turn] = 0}

GetTile ==
  /\ phase = "get"
  /\ requests # <<>>
  /\ CanIssue
  /\ phase' = "run"
  /\ UNCHANGED turn

(* Scheduler::empty, or a core without room: nothing is asked for.          *)
NoGetTile ==
  /\ phase = "get"
  /\ requests = <<>> \/ ~CanIssue
  /\ phase' = "run"
  /\ UNCHANGED <<Dispatch, turn>>

GetTileBothEmpty ==
  /\ GetTile
  /\ CoreQueue(turn) = {}
  /\ ExecQueue = {}
  /\ RefreshStatus(models, requests, finished, executable, active, tile)

(* Slip: launched_tiles is not counted.                                     *)
GetTileFromCoreQueueUncounted(t) ==
  /\ GetTile
  /\ Front(t, CoreQueue(turn))
  /\ tile' = [tile EXCEPT ![t] = IF Kind(t).skip THEN "finished" ELSE "running"]
  /\ UNCHANGED <<models, axes, requests, finished, executable, active, at, load, heap>>

GetTileFromCoreQueue(t) ==
  /\ GetTile
  /\ Front(t, CoreQueue(turn))
  /\ active' = [active EXCEPT ![t[1]].launched = @ + 1]
  /\ tile' = [tile EXCEPT ![t] = IF Kind(t).skip THEN "finished" ELSE "running"]
  /\ UNCHANGED <<models, axes, requests, finished, executable, at, load, heap>>

AtBarrier(b) ==
  /\ GetTile
  /\ CoreQueue(turn) = {}
  /\ Front(b, ExecQueue)
  /\ Bar(b)

BarrierReached(b) == active[b[1]].launched = active[b[1]].finished

GetTileBarrierHolds(b) ==
  /\ AtBarrier(b)
  /\ ~BarrierReached(b)
  /\ UNCHANGED Dispatch

(* A barrier counts as a tile that was launched and has finished.           *)
CountBarrierUnfinished(l) == [active EXCEPT ![l].launched = @ + 1, ![l].remain = @ - 1]   \* slip: finished_tiles
CountBarrier(l) ==
  [active EXCEPT ![l].launched = @ + 1, ![l].finished = @ + 1, ![l].remain = @ - 1]

(* The barrier goes; the tiles behind it are issued to the cores of the     *)
(* partition, counting from the position of this core.                      *)
GetTileBarrierOpens(b) ==
  /\ AtBarrier(b)
  /\ BarrierReached(b)
  /\ active[b[1]].remain > 1
  /\ active' = CountBarrier(b[1])
  /\ IssueTiles([tile EXCEPT ![b] = "done"], ExecQueue \ {b}, Position(turn),
                [c \in Core |-> Allowed(Partition[turn], c + Position(turn))])
  /\ UNCHANGED <<models, axes, requests, finished, executable>>

(* A barrier that is the last tile of its layer finishes the layer.         *)
GetTileBarrierIsLast(b) ==
  /\ AtBarrier(b)
  /\ BarrierReached(b)
  /\ active[b[1]].remain = 1
  /\ FinishTile(b[1], [active EXCEPT ![b[1]].launched = @ + 1, ![b[1]].finished = @ + 1],
                [tile EXCEPT ![b] = "done"])

-----------------------------------------------------------------------------
(* Core::cycle of core `turn`: a running tile may have finished its last    *)
(* instruction, at most one tile per cycle.                                 *)
NextCore == IF turn + 1 < NumCores
            THEN turn' = turn + 1 /\ phase' = "finish"
            ELSE turn' = 0 /\ phase' = "models"

CoreRuns ==
  /\ phase = "run"
  /\ NextCore
  /\ UNCHANGED Dispatch

CoreFinishes(t) ==
  /\ phase = "run"
  /\ tile[t] = "running" /\ at[t] = turn
  /\ tile' = [tile EXCEPT ![t] = "finished"]
  /\ NextCore
  /\ UNCHANGED <<models, axes, requests, finished, executable, active, at, load, heap>>

Stopped ==
  /\ phase = "models"
  /\ ~Running
  /\ UNCHANGED vars

Init == DispatchInit /\ turn = 0 /\ phase = "models"

Step(t) ==
  \/ PopFinishedTile(t)
  \/ GetTileFromCoreQueue(t)
  \/ GetTileBarrierHolds(t)
  \/ GetTileBarrierOpens(t)
  \/ GetTileBarrierIsLast(t)
  \/ CoreFinishes(t)

Next ==
  \/ \E m \in Model : ScheduleModel(m)
  \/ StartCores
  \/ NoFinishedTile
  \/ NoGetTile
  \/ GetTileBothEmpty
  \/ CoreRuns
  \/ \E t \in Tile : Step(t)
  \/ Stopped

Spec == Init /\ [][Next]_vars

(***************************************************************************)
(* The simulator's loop never pauses while it has work, the clock reaches  *)
(* the request time of every model, and a core finishes every tile it was  *)
(* given (module Core says when that is so); as there are finitely many of  *)
(* both, it is enough that some model and some tile get on.                 *)
(***************************************************************************)
Fairness ==
  /\ WF_vars(Next)
  /\ SF_vars(\E m \in Model : ScheduleModel(m))
  /\ SF_vars(\E t \in Tile : CoreFinishes(t))

FairSpec == Spec /\ Fairness

-----------------------------------------------------------------------------
TypeOK ==
  /\ models \subseteq Model
  /\ axes \in [Model -> Axes]
  /\ requests \in Seq(Model)
  /\ finished \subseteq Layer
  /\ executable \in [Model -> Seq(Layer)]
  /\ DOMAIN active \subseteq Layer
  /\ \A l \in DOMAIN active : active[l] \in LayerStat
  /\ tile \in [Tile -> Where]
  /\ at \in [Tile -> Core]
  /\ load \in [Cell -> Load]
  /\ heap \in [Core -> Load]
  /\ turn \in Core
  /\ phase \in Phase

(***************************************************************************)
(* The counters of an active layer say what has become of its tiles, and   *)
(* only an active layer has tiles in a queue or in a core.  With it the    *)
(* assertions at the top of finish_tile (the layer is active, and tiles of *)
(* it remain) hold for every tile a core hands back.                       *)
(***************************************************************************)
LayerAccounting ==
  /\ \A l \in DOMAIN active :
       /\ active[l].remain = Count(l, tile, Where \ {"done"})
       /\ active[l].finished = Count(l, tile, {"done"})
       /\ active[l].launched = Count(l, tile, {"running", "finished", "done"})
  /\ \A t \in Tile : tile[t] \in {"exec", "core", "running", "finished"} => t[1] \in DOMAIN active

(***************************************************************************)
(* finish_tile looks the layer up in the oldest request, so a layer must   *)
(* not be active while another request is the oldest; and layers are not   *)
(* mixed in the tile queues because at most one is active.                 *)
(***************************************************************************)
OldestRequestOnly ==
  /\ \A k, l \in DOMAIN active : k = l
  /\ \A l \in DOMAIN active : requests # <<>> /\ l \in Owns(Head(requests)) /\ l \notin finished

(***************************************************************************)
(* A tile behind a barrier is not handed to a core before every tile in    *)
(* front of that barrier has finished.                                     *)
(***************************************************************************)
BarrierRespected ==
  \A l \in DOMAIN active : \A b \in TilesIn(l) : Bar(b) =>
    \A t, u \in TilesIn(l) :
      t[2] < b[2] /\ b[2] < u[2] /\ tile[u] \in {"running", "finished", "done"} => tile[t] = "done"

(* What LoadIsWhatWasIssued needs to stay true for ever: every model that   *)
(* generates token after token starts from a prompt that is not a single    *)
(* token, as each of its further rounds does.                               *)
PromptsAreLonger == \A m \in Regressive : FirstAxes[m].seq # 1 % AxisLimit

(***************************************************************************)
(* The load the scheduler balances by is the number of tiles it has given  *)
(* to each core (skipped tiles do not count): until a model comes back for *)
(* another round, or the tiles behind a barrier are counted from another   *)
(* core than the first, _tile_num of a core and its heap entry agree and   *)
(* count the tiles that are or were at that core.                          *)
(***************************************************************************)
CountsFromFirstCore == axes = FirstAxes /\ \A t \in Tile : Bar(t) => tile[t] # "done"
LoadIsWhatWasIssued ==
  CountsFromFirstCore =>
    \A c \in Core :
      LET issued == {t \in Tile : tile[t] \notin {"none", "exec"} /\ at[t] = c /\ ~Bar(t) /\ ~Kind(t).skip}
      IN  heap[c] = load[c] /\ load[c].tiles = Cardinality(issued)

(***************************************************************************)
(* The layers are executed as GraphExecution says: each once a round and   *)
(* after the layers that produce its inputs.                               *)
(***************************************************************************)
Graph == INSTANCE GraphExecution WITH
           OwnLayers <- Owns, InputsOf <- Producers, running <- DOMAIN active

ExecutesGraph == Graph!Spec

(* Every model that is given is carried through all its rounds, until it    *)
(* has generated as many tokens as it is to, unless a request waits for an  *)
(* operation that makes no tiles: only the end of a tile ends a layer, and  *)
(* such a layer holds up its request and those behind it for ever.          *)
Requested == {requests[i] : i \in 1 .. Len(requests)}
Served(m) == m \notin models \cup Requested /\ Owns(m) \subseteq finished /\ Generated(m)
HeldUp(m) == m \in Requested /\ \E l \in DOMAIN active : TilesOf[l] = <<>>
AllServed == \A m \in Model : m \in models => <>[](Served(m) \/ HeldUp(m))
=============================================================================
