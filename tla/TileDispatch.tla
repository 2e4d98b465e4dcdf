---------------------------- MODULE TileDispatch ----------------------------
(***************************************************************************)
(* The part of the tile schedulers of ONNXim that all policies share: the  *)
(* dependency graph of the models (Model, Operation), the bookkeeping of   *)
(* active layers, the executable tile queue of a partition, the tile queue *)
(* of each core, and the load heap that spreads tiles over the cores.      *)
(*                                                                         *)
(* The deques of tiles are represented by where each tile is (`tile`) and  *)
(* on which core (`at`).  This loses nothing: the executable queue of a    *)
(* partition holds the tiles of one layer, and within a layer tiles enter  *)
(* and leave a queue in the order in which the operation created them,     *)
(* which is their index.                                                   *)
(***************************************************************************)
EXTENDS Integers, Sequences, FiniteSets, FiniteSetsExt

CONSTANTS
  NumCores,       (* Number of cores, SimulationConfig::num_cores.         *)
  Partition,      (* The partition of each core, _cpu_to_partition.        *)
  PartitionMap,   (* The cores of each partition, _partition_map.          *)
  Model,          (* The models, and the sets of them that a simulation    *)
  Workloads,      (* may be given to begin with.                           *)
  Layer,          (* The operations of all models.                         *)
  LayersOf,       (* The operations of a model, in _operation_map order.   *)
  ChildNodes,     (* Operation::get_child_nodes of each layer, in order.   *)
  TilesOf,        (* The tiles of each layer, in the order it creates them.*)
  Regressive,     (* The models whose _axis_map has a total_seq_len,        *)
  FirstAxes,      (* the lengths in it, and the output_seq_len of the model *)
  OutputLen,      (* configuration: -1, which is no length, where there is  *)
  AxisLimit,      (* none.  The lengths are counted modulo 2^32.            *)
  Stray           (* What a load cell beyond the end of _tile_num can hold.*)

Core  == 0 .. NumCores - 1
Tile  == UNION {{l} \X (1 .. Len(TilesOf[l])) : l \in Layer}
Load  == [tiles : Nat, ins : Nat]
NoLoad == [tiles |-> 0, ins |-> 0]
Cell  == 0 .. 2 * NumCores - 2      \* the cells core_id + offset can name
Axes == [past : 0 .. AxisLimit - 1, seq : 0 .. AxisLimit - 1, total : 0 .. AxisLimit - 1]
TileKind == [bar : BOOLEAN, skip : BOOLEAN, ins : Nat]

Owns(m) == {LayersOf[m][i] : i \in 1 .. Len(LayersOf[m])}
Children(l) == {ChildNodes[l][i] : i \in 1 .. Len(ChildNodes[l])}

(***************************************************************************)
(* Operation::check_executable looks at the tensors an operation reads;    *)
(* the tensors that some layer produces are the ones that can be missing.  *)
(***************************************************************************)
Producers(l) == {p \in Layer : l \in Children(p)}

ASSUME DispatchAssumption ==
  /\ NumCores \in Nat \ {0}
  /\ PartitionMap \in [DOMAIN PartitionMap -> Seq(Core)]
  /\ Partition \in [Core -> DOMAIN PartitionMap]
  /\ \A c \in Core : \E i \in 1 .. Len(PartitionMap[Partition[c]]) : PartitionMap[Partition[c]][i] = c
  /\ Workloads \subseteq SUBSET Model
  /\ LayersOf \in [Model -> Seq(Layer)]
  /\ ChildNodes \in [Layer -> Seq(Layer)]
  /\ TilesOf \in [Layer -> Seq(TileKind)]
  /\ AxisLimit \in Nat \ {0}
  /\ Regressive \subseteq Model
  /\ FirstAxes \in [Model -> Axes]
  /\ OutputLen \in [Model -> Int]
  /\ Stray \subseteq Load /\ Stray # {}

(* Each layer belongs to one model and feeds only layers of that model.     *)
ASSUME GraphAssumption ==
  /\ \A m, n \in Model : m # n => Owns(m) \cap Owns(n) = {}
  /\ \A m \in Model : \A l \in Owns(m) : Children(l) \subseteq Owns(m)
  /\ \A l \in Layer : \E m \in Model : l \in Owns(m)

VARIABLES
  models,         (* Simulator::_models, the models not scheduled yet.     *)
  axes,           (* past_seq_len, seq_len and total_seq_len of a model.    *)
  requests,       (* _request_queue.                                       *)
  finished,       (* The layers whose _finish is set.                      *)
  executable,     (* Model::_executable_layer of each model.               *)
  active,         (* _active_layers_map.                                   *)
  tile,           (* Where each tile is.                                   *)
  at,             (* Tile::core_id.                                        *)
  load,           (* _tile_num and _ins_num, and the cells after them.     *)
  heap            (* core_pq: the load the heap holds for each core.       *)

Where == {"none", "exec", "core", "running", "finished", "done"}
LayerStat == [remain : Nat, finished : Nat, launched : Nat]

-----------------------------------------------------------------------------
(* The rounds of a model that generates one token after the other.          *)

OneMore(n) == (n + 1) % AxisLimit

(* Whether a model that has finished comes back for another round: unless   *)
(* the next length is exactly the one to reach.                             *)
CheckRegressive(m) == m \in Regressive /\ OneMore(axes[m].total) # OutputLen[m]

(* The first round takes the prompt, each one after it a single token.      *)
PrepareRegressive(a) ==
  [past |-> IF a.past = 0 THEN a.seq ELSE OneMore(a.past), seq |-> 1 % AxisLimit, total |-> OneMore(a.total)]

(* A model that has done its rounds: the last one is the one to stop at, and *)
(* every token before it is in the context.                                 *)
Generated(m) ==
  /\ ~CheckRegressive(m)
  /\ (axes[m].past + axes[m].seq - axes[m].total) % AxisLimit
       = (FirstAxes[m].past + FirstAxes[m].seq - FirstAxes[m].total) % AxisLimit

-----------------------------------------------------------------------------
(* The tiles of a queue.                                                   *)

TilesIn(l) == {l} \X (1 .. Len(TilesOf[l]))
Count(l, til, W) == Cardinality({t \in TilesIn(l) : til[t] \in W})
Kind(t) == TilesOf[t[1]][t[2]]
Bar(t) == Kind(t).bar

(* The tile at the front of a queue that holds the tiles of S.              *)
Front(t, S) == t \in S /\ \A u \in S : t[2] <= u[2]

CoreQueue(c) == {t \in Tile : tile[t] = "core" /\ at[t] = c}

(* Scheduler::tile_queue_empty.                                             *)
TileQueueEmpty(til) == \A t \in Tile : til[t] \notin {"exec", "core"}

-----------------------------------------------------------------------------
(* The dependency graph.                                                   *)

CheckExecutable(l, fin) == Producers(l) \subseteq fin
CheckFinish(m, fin) == Owns(m) \subseteq fin

(* The elements of S, each once, in the order in which they first occur in  *)
(* the sequence s: a set of one sequence.                                   *)
InOrder(S, s) ==
  {r \in UNION {[1 .. n -> S] : n \in 0 .. Len(s)} :
     /\ \A x \in S : \E i \in DOMAIN r : r[i] = x
     /\ \A i, j \in DOMAIN r : i < j =>
          \E a \in 1 .. Len(s) : s[a] = r[i] /\ \A b \in 1 .. a : s[b] # r[j]}

(* The layers Model::initialize_model finds executable.                     *)
Roots(m) == {l \in Owns(m) : CheckExecutable(l, {})}

(* A slip that the properties notice: the inputs are not looked at.         *)
NewlyExecutableUnchecked(l, fin, ready) ==
  {k \in Children(l) : \A i \in 1 .. Len(ready) : ready[i] # k}

(* The children Model::set_layer_finish adds to _executable_layer: those    *)
(* that have all their inputs now and are not in it already.                *)
NewlyExecutable(l, fin, ready) ==
  {k \in Children(l) : CheckExecutable(k, fin) /\ \A i \in 1 .. Len(ready) : ready[i] # k}

-----------------------------------------------------------------------------
(***************************************************************************)
(* issue_tile_per_core hands the tiles at the front of the executable      *)
(* queue, up to the first barrier, to the core queues.  For each tile it   *)
(* pops the heap entry of the least loaded core, entry[t], counts the tile *)
(* in cell entry[t] + offset of _tile_num and _ins_num, and pushes the     *)
(* entry back with the load of that cell.  The tiles a barrier releases    *)
(* are issued with the position of the core that found it as offset.       *)
(***************************************************************************)
UpToBarrier(S) == {t \in S : \A b \in S : Bar(b) => t[2] < b[2]}

CellLoad(cell, S) ==
  [tiles |-> load[cell].tiles + Cardinality(S),
   ins   |-> load[cell].ins + MapThenSumSet(LAMBDA t : Kind(t).ins, S)]

CountedAll(entry, S, c) == {t \in S : entry[t] = c}       \* slip: skipped tiles count

(* The tiles of S that the code counts and that used the heap entry of c.   *)
Counted(entry, S, c) == {t \in S : entry[t] = c /\ ~Kind(t).skip}

HeapLoad(entry, S, offset, c) ==
  IF Counted(entry, S, c) = {} THEN heap[c] ELSE CellLoad(c + offset, Counted(entry, S, c))

(* CoreLoad::operator>, seen from the smaller side.                         *)
Lighter(a, c, b, d) ==
  \/ a.tiles < b.tiles
  \/ a.tiles = b.tiles /\ a.ins < b.ins
  \/ a.tiles = b.tiles /\ a.ins = b.ins /\ c < d

LeastLoaded(entry, S, offset) ==
  \A t \in S : \A d \in Core \ {entry[t]} :
    LET before == {u \in S : u[2] < t[2]}
    IN  Lighter(HeapLoad(entry, before, offset, entry[t]), entry[t],
                HeapLoad(entry, before, offset, d), d)

IssueTiles(til, S, offset, coreFor) ==
  LET run == UpToBarrier(S) IN
  \E entry \in [run -> Core] :
    /\ LeastLoaded(entry, run, offset)
    /\ tile' = [t \in Tile |-> IF t \in run THEN "core" ELSE til[t]]
    /\ at' = [t \in Tile |-> IF t \in run THEN coreFor[entry[t]] ELSE at[t]]
    /\ load' = [i \in Cell |-> IF i - offset \in Core THEN CellLoad(i, Counted(entry, run, i - offset))
                               ELSE load[i]]
    /\ heap' = [c \in Core |-> HeapLoad(entry, run, offset, c)]

(* The position of core c in the list of its partition, from 0, and the     *)
(* core that an index into the list stands for.                             *)
Position(c) == (CHOOSE i \in 1 .. Len(PartitionMap[Partition[c]]) : PartitionMap[Partition[c]][i] = c) - 1
Allowed(p, i) == PartitionMap[p][(i % Len(PartitionMap[p])) + 1]

-----------------------------------------------------------------------------
DispatchInit ==
  /\ models \in Workloads
  /\ axes = FirstAxes
  /\ requests = <<>>
  /\ finished = {}
  /\ executable = [m \in Model |-> <<>>]
  /\ active = <<>>
  /\ tile = [t \in Tile |-> "none"]
  /\ at = [t \in Tile |-> 0]
  /\ \E stray \in [Cell \ Core -> Stray] :
       load = [i \in Cell |-> IF i \in Core THEN NoLoad ELSE stray[i]]
  /\ heap = [c \in Core |-> NoLoad]

Dispatch == <<models, axes, requests, finished, executable, active, tile, at, load, heap>>
=============================================================================
