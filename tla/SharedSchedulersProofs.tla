------------------------ MODULE SharedSchedulersProofs ------------------------
(***************************************************************************)
(* Proofs about SharedSchedulers, for each of its three schedulers, any    *)
(* number of cores and partitions, any models, any dependency graph and    *)
(* any tiles.                                                              *)
(*                                                                         *)
(* What the counters of the layers and the requests need is Books; where   *)
(* refresh_status is in its walk over the requests is InTurn.              *)
(***************************************************************************)
EXTENDS SharedSchedulers, TileDispatchProofs

Live == {"exec", "core", "running", "finished"}
Undone == Live \union {"lost"}
Places == Where \union {"lost"}

Typed ==
  /\ models \subseteq Model
  /\ requests \in Seq(Model)
  /\ finished \subseteq Layer
  /\ executable \in [Model -> Seq(Layer)]
  /\ DOMAIN active \subseteq Layer
  /\ active \in [DOMAIN active -> LayerStat]
  /\ tile \in [Tile -> Places]

(* The counters of the active layers.                                       *)
Accounted(act, til) ==
  /\ \A l \in DOMAIN act :
       /\ act[l].remain = Count(l, til, Undone)
       /\ act[l].finished = Count(l, til, {"done"})
       /\ policy # "spatial_split" => act[l].launched = Count(l, til, {"running", "finished", "done"})
  /\ \A t \in Tile : til[t] \in Live => t[1] \in DOMAIN act

(* An active layer has not finished, and belongs to a request.              *)
Owned(reqs, fin, act) ==
  \A l \in DOMAIN act : l \notin fin /\ \E i \in 1 .. Len(reqs) : l \in Owns(reqs[i])

Books ==
  /\ Typed
  /\ Accounted(active, tile)
  /\ Owned(requests, finished, active)
  /\ Queued(models, requests)
  /\ Ready(requests, finished, executable, active)
  /\ Closed(models, finished, active)

(* Under HalfSplit refresh_status looks at one request after the other.     *)
InTurn ==
  /\ request_rr \in Nat /\ index \in Nat
  /\ phase # "start" => index = 0
  /\ policy = "spatial_split" => index = 0 \/ index < Len(requests)

IInv == Books /\ InTurn

-----------------------------------------------------------------------------
(* The counters of the active layers.                                       *)

(* A tile of an active layer moves and the counters of the layer follow.    *)
LEMMA MoveKeepsAccount ==
  ASSUME NEW act, DOMAIN act \subseteq Layer,
         NEW til \in [Tile -> Places],
         Accounted(act, til),
         NEW t \in Tile, NEW w \in Places, t[1] \in DOMAIN act,
         NEW act2, DOMAIN act2 = DOMAIN act,
         \A k \in DOMAIN act : k # t[1] => act2[k] = act[k],
         act2[t[1]].remain = Moved(act[t[1]].remain, Undone, til[t], w),
         act2[t[1]].finished = Moved(act[t[1]].finished, {"done"}, til[t], w),
         policy # "spatial_split" =>
           act2[t[1]].launched = Moved(act[t[1]].launched, {"running", "finished", "done"}, til[t], w)
  PROVE  Accounted(act2, [til EXCEPT ![t] = w])
<1> DEFINE til2 == [til EXCEPT ![t] = w]
           W3 == {"running", "finished", "done"}
<1>1. t \in TilesIn(t[1]) /\ \A k \in DOMAIN act : k # t[1] => t \notin TilesIn(k)
  BY DEF Tile, TilesIn
<1>2. ASSUME NEW W, NEW k \in DOMAIN act
      PROVE  Count(k, til2, W) = IF k = t[1] THEN Moved(Count(k, til, W), W, til[t], w) ELSE Count(k, til, W)
  <2>0. k \in Layer
    OBVIOUS
  <2>1. \A u \in TilesIn(k) : til2[u] = IF u = t THEN w ELSE til[u]
    BY <2>0, TilesFinite
  <2>2. t \in TilesIn(k) <=> k = t[1]
    BY <1>1
  <2> HIDE DEF til2
  <2>3. Count(k, til2, W) = IF t \in TilesIn(k) THEN Moved(Count(k, til, W), W, til[t], w) ELSE Count(k, til, W)
    BY <2>0, <2>1, CountMove
  <2> QED BY <2>2, <2>3
<1>3. ASSUME NEW k \in DOMAIN act2
      PROVE  /\ act2[k].remain = Count(k, til2, Undone)
             /\ act2[k].finished = Count(k, til2, {"done"})
             /\ policy # "spatial_split" => act2[k].launched = Count(k, til2, W3)
  <2>1. /\ act[k].remain = Count(k, til, Undone)
        /\ act[k].finished = Count(k, til, {"done"})
        /\ policy # "spatial_split" => act[k].launched = Count(k, til, W3)
    BY DEF Accounted
  <2>2. \A W : Count(k, til2, W) = IF k = t[1] THEN Moved(Count(k, til, W), W, til[t], w) ELSE Count(k, til, W)
    BY <1>2
  <2> HIDE DEF til2, W3
  <2>3. CASE k = t[1]
    <3>1. \A W : Count(k, til2, W) = Moved(Count(k, til, W), W, til[t], w)
      BY <2>2, <2>3
    <3>2. act2[k].remain = Count(k, til2, Undone)
      BY <2>1, <2>3, <3>1, Zenon
    <3>3. act2[k].finished = Count(k, til2, {"done"})
      BY <2>1, <2>3, <3>1, Zenon
    <3>4. policy # "spatial_split" => act2[k].launched = Count(k, til2, W3)
      BY <2>1, <2>3, <3>1, Zenon DEF W3
    <3> QED BY <3>2, <3>3, <3>4
  <2>4. CASE k # t[1]
    <3>1. \A W : Count(k, til2, W) = Count(k, til, W)
      BY <2>2, <2>4
    <3>2. act2[k] = act[k]
      BY <2>4
    <3> QED BY <2>1, <3>1, <3>2
  <2> QED BY <2>3, <2>4
<1>4. \A u \in Tile : til2[u] \in Live => u[1] \in DOMAIN act2
  BY DEF Accounted
<1> QED BY <1>3, <1>4 DEF Accounted

(* Tiles move without passing a line that is counted.                       *)
LEMMA StayKeepsAccount ==
  ASSUME NEW act, DOMAIN act \subseteq Layer, NEW til, NEW til2,
         Accounted(act, til),
         \A t \in Tile : t[1] \in DOMAIN act =>
           /\ til2[t] \in Undone <=> til[t] \in Undone
           /\ til2[t] \in {"done"} <=> til[t] \in {"done"}
           /\ policy # "spatial_split" =>
                (til2[t] \in {"running", "finished", "done"} <=> til[t] \in {"running", "finished", "done"}),
         \A t \in Tile : til2[t] \in Live => til[t] \in Live
  PROVE  Accounted(act, til2)
<1>1. ASSUME NEW l \in DOMAIN act
      PROVE  /\ act[l].remain = Count(l, til2, Undone)
             /\ act[l].finished = Count(l, til2, {"done"})
             /\ policy # "spatial_split" => act[l].launched = Count(l, til2, {"running", "finished", "done"})
  <2>1. l \in Layer /\ \A t \in TilesIn(l) : t \in Tile /\ t[1] \in DOMAIN act
    BY <1>1, TilesFinite DEF TilesIn
  <2>2. Count(l, til2, Undone) = Count(l, til, Undone)
    BY <2>1, CountSame
  <2>3. Count(l, til2, {"done"}) = Count(l, til, {"done"})
    BY <2>1, CountSame
  <2>4. policy # "spatial_split" =>
          Count(l, til2, {"running", "finished", "done"}) = Count(l, til, {"running", "finished", "done"})
    BY <2>1, CountSame
  <2> QED BY <1>1, <2>2, <2>3, <2>4 DEF Accounted
<1> QED BY <1>1 DEF Accounted

(* The request a layer belongs to is the one the code looks it up in.       *)
LEMMA OwnerIsModelOf ==
  ASSUME NEW m \in Model, NEW l \in Owns(m)
  PROVE  ModelOf(l) = m
BY GraphAssumption DEF ModelOf

LEMMA OwnsLayers ==
  ASSUME NEW m \in Model
  PROVE  Owns(m) \subseteq Layer
<1>1. LayersOf[m] \in Seq(Layer)
  BY DispatchAssumption
<1> QED BY <1>1, ElementOfSeq DEF Owns

-----------------------------------------------------------------------------
(* refresh_status starts a layer.                                           *)

(* The next layer l of a request starts, when its queue is empty: its tiles *)
(* wait, at most a part of them in core queues already.                     *)
LEMMA StartKeepsBooks ==
  ASSUME Books, NEW m \in Requested, executable[m] # <<>>,
         NEW queue, queue = {},
         Activate(m, queue),
         NEW moved, \A t \in moved : t[1] = Head(executable[m]),
         tile' = [t \in Tile |-> IF t \in moved THEN "core" ELSE Enqueued(Head(executable[m]))[t]],
         UNCHANGED <<policy, models, requests, finished>>
  PROVE  Books' /\ Graph!Next
<1> DEFINE l == Head(executable[m])
           rest == Tail(executable[m])
<1>1. /\ Typed
      /\ Accounted(active, tile)
      /\ Owned(requests, finished, active)
      /\ Queued(models, requests)
      /\ Ready(requests, finished, executable, active)
      /\ Closed(models, finished, active)
  BY DEF Books
<1>2. PICK at0 \in 1 .. Len(requests) : requests[at0] = m
  BY DEF Requested
<1>3. m \in Model /\ executable[m] \in Seq(Layer)
  BY <1>1, <1>2, ElementOfSeq DEF Typed
<1>4. /\ l \in Layer /\ l \in Owns(m) /\ l \notin finished \union DOMAIN active /\ Producers(l) \subseteq finished
      /\ rest \in Seq(Layer) /\ CanStart(rest, m, finished, DOMAIN active \union {l})
  <2>1. CanStart(executable[m], m, finished, DOMAIN active)
    BY <1>1, <1>2 DEF Ready
  <2> QED BY <2>1, FirstStarts
<1> DEFINE stat == [remain |-> Len(TilesOf[l]), finished |-> 0, launched |-> 0]
<1>7. /\ executable' = [executable EXCEPT ![m] = rest]
      /\ active' = [k \in DOMAIN active \union {l} |-> IF k = l THEN stat ELSE active[k]]
  <2>1. Cardinality(queue \union TilesIn(l)) = Len(TilesOf[l])
    <3>1. queue \union TilesIn(l) = TilesIn(l)
      OBVIOUS
    <3> QED BY <1>4, <3>1, TilesFinite
  <2>2. executable' = [executable EXCEPT ![m] = rest]
    BY DEF Activate
  <2> QED BY <2>1, <2>2 DEF Activate
<1>8. \A t \in Tile : /\ t[1] = l => tile'[t] \in {"exec", "core"}
                      /\ t[1] # l => tile'[t] = tile[t]
  BY DEF Enqueued
<1> HIDE DEF l, rest
<1>9. Typed'
  <2>1. executable' \in [Model -> Seq(Layer)]
    BY <1>1, <1>4, <1>7 DEF Typed
  <2>2. DOMAIN active' \subseteq Layer /\ active' \in [DOMAIN active' -> LayerStat]
    <3>1. stat \in LayerStat
      BY <1>4, TilesFinite DEF LayerStat
    <3> HIDE DEF stat
    <3> QED BY <1>1, <1>4, <1>7, <3>1 DEF Typed
  <2>3. tile' \in [Tile -> Places]
    <3>1. \A t \in Tile : tile'[t] \in Places
      BY <1>1, <1>8 DEF Typed, Places, Where
    <3> QED BY <3>1
  <2> QED BY <1>1, <2>1, <2>2, <2>3 DEF Typed
<1>10. Accounted(active, tile)' /\ DOMAIN active' = DOMAIN active \union {l}
  <2>1. PICK til : til = tile'
    OBVIOUS
  <2>2. ASSUME NEW k \in DOMAIN active, k # l
        PROVE  \A W : Count(k, til, W) = Count(k, tile, W)
    <3>1. k \in Layer
      BY <1>1 DEF Typed
    <3>2. \A t \in TilesIn(k) : t \in Tile /\ t[1] # l
      BY <2>2, <3>1, TilesFinite DEF TilesIn
    <3>3. \A t \in TilesIn(k) : til[t] = tile[t]
      BY <1>8, <2>1, <3>2
    <3> QED BY <3>1, <3>3, CountSame
  <2>3. /\ Count(l, til, Undone) = Len(TilesOf[l])
        /\ Count(l, til, {"done"}) = 0
        /\ Count(l, til, {"running", "finished", "done"}) = 0
    <3>1. \A t \in TilesIn(l) : til[t] \in {"exec", "core"}
      <4>1. \A t \in TilesIn(l) : t \in Tile /\ t[1] = l
        BY <1>4, TilesFinite DEF TilesIn
      <4> QED BY <1>8, <2>1, <4>1
    <3>2. \A t \in TilesIn(l) : til[t] \in Undone
      BY <3>1 DEF Undone, Live
    <3>3. \A t \in TilesIn(l) : til[t] \notin {"done"}
      BY <3>1
    <3>4. \A t \in TilesIn(l) : til[t] \notin {"running", "finished", "done"}
      BY <3>1
    <3> QED BY <1>4, <3>2, <3>3, <3>4, CountAll, CountNone
  <2>4. PICK act : act = active'
    OBVIOUS
  <2>5. ASSUME NEW k \in DOMAIN act
        PROVE  /\ act[k].remain = Count(k, til, Undone)
               /\ act[k].finished = Count(k, til, {"done"})
               /\ policy # "spatial_split" => act[k].launched = Count(k, til, {"running", "finished", "done"})
    <3>1. CASE k = l
      BY <1>7, <2>3, <2>4, <3>1
    <3>2. CASE k # l
      <4>1. k \in DOMAIN active /\ act[k] = active[k]
        BY <1>7, <2>4, <3>2
      <4> QED BY <1>1, <2>2, <3>2, <4>1 DEF Accounted
    <3> QED BY <3>1, <3>2
  <2>6. \A t \in Tile : til[t] \in Live => t[1] \in DOMAIN act
    BY <1>1, <1>7, <1>8, <2>1, <2>4 DEF Accounted
  <2> QED BY <1>7, <2>1, <2>4, <2>5, <2>6 DEF Accounted
<1>11. Owned(requests, finished, active)'
  BY <1>1, <1>2, <1>4, <1>10 DEF Owned
<1>12. Ready(requests, finished, executable, active)'
  <2> SUFFICES ASSUME NEW i \in 1 .. Len(requests)
               PROVE  CanStart(executable'[requests[i]], requests[i], finished, DOMAIN active \union {l})
    BY <1>10 DEF Ready
  <2>1. PICK n \in Model : n = requests[i]
    BY <1>1, ElementOfSeq DEF Typed
  <2>2. executable \in [Model -> Seq(Layer)]
    BY <1>1 DEF Typed
  <2>3. CASE n = m
    BY <1>4, <1>7, <2>1, <2>2, <2>3
  <2>4. CASE n # m
    <3>1. executable'[n] = executable[n] /\ l \notin Owns(n)
      BY <1>3, <1>4, <1>7, <2>2, <2>4, GraphAssumption
    <3>2. CanStart(executable[n], n, finished, DOMAIN active)
      BY <1>1, <2>1 DEF Ready
    <3> QED BY <2>1, <3>1, <3>2, StillStarts
  <2> QED BY <2>3, <2>4
<1>13. Closed(models, finished, active)'
  <2>1. \A n \in models : l \notin Owns(n)
    <3>1. \A n \in models : n \in Model /\ n # m
      BY <1>1, <1>2 DEF Queued, Typed
    <3> QED BY <3>1, <1>3, <1>4, GraphAssumption
  <2> QED BY <1>1, <1>4, <1>10, <2>1 DEF Closed
<1>14. Queued(models, requests)'
  BY <1>1
<1>15. Graph!Next
  <2>1. Graph!Advance({}, {}, {l})
    BY <1>4, <1>10 DEF Graph!Advance
  <2> QED BY <1>4, <2>1 DEF Graph!Next
<1> QED BY <1>9, <1>10, <1>11, <1>12, <1>13, <1>14, <1>15 DEF Books

-----------------------------------------------------------------------------
(* finish_tile.                                                             *)

(* All that moves is that waiting tiles go to core queues.                  *)
OnlyIssued(til, til2) == \A u \in Tile : til2[u] = til[u] \/ (til[u] = "exec" /\ til2[u] = "core")

(* A tile that is done was not the last of its layer.                       *)
LEMMA EarlierTileKeepsBooks ==
  ASSUME Books, NEW t \in Tile, tile[t] \in Live, NEW n \in Nat, active[t[1]].remain > 1,
         active' = [k \in DOMAIN active |->
                      IF k = t[1] THEN [remain |-> active[k].remain - 1, finished |-> active[k].finished + 1,
                                        launched |-> n]
                                  ELSE active[k]],
         policy # "spatial_split" =>
           n = Moved(active[t[1]].launched, {"running", "finished", "done"}, tile[t], "done"),
         NEW til, til = [tile EXCEPT ![t] = "done"],
         tile' \in [Tile -> Places],
         OnlyIssued(til, tile'),
         UNCHANGED <<policy, models, requests, finished, executable>>
  PROVE  Books' /\ UNCHANGED Graph!vars
<1> DEFINE l == t[1]
<1>1. /\ Typed
      /\ Accounted(active, tile)
      /\ Owned(requests, finished, active)
      /\ Queued(models, requests)
      /\ Ready(requests, finished, executable, active)
      /\ Closed(models, finished, active)
  BY DEF Books
<1>2. l \in DOMAIN active /\ l \in Layer /\ active[l] \in LayerStat
  BY <1>1 DEF Accounted, Typed
<1>3. /\ DOMAIN active' = DOMAIN active
      /\ \A k \in DOMAIN active : k # l => active'[k] = active[k]
      /\ active'[l] = [remain |-> active[l].remain - 1, finished |-> active[l].finished + 1, launched |-> n]
  BY <1>1, <1>2 DEF Typed
<1>4. Typed'
  <2>1. active'[l] \in LayerStat
    <3>1. active[l].remain - 1 \in Nat /\ active[l].finished + 1 \in Nat
      BY <1>2 DEF LayerStat
    <3> QED BY <1>3, <3>1 DEF LayerStat
  <2>2. active' = [k \in DOMAIN active |-> active'[k]]
    BY <1>3
  <2> HIDE DEF l
  <2> QED BY <1>1, <1>3, <2>1, <2>2 DEF Typed
<1>5. Accounted(active, tile)'
  <2>1. PICK act : act = active'
    OBVIOUS
  <2>2. PICK til2 : til2 = tile'
    OBVIOUS
  <2>3. /\ act[l].remain = Moved(active[l].remain, Undone, tile[t], "done")
        /\ act[l].finished = Moved(active[l].finished, {"done"}, tile[t], "done")
        /\ policy # "spatial_split" =>
             act[l].launched = Moved(active[l].launched, {"running", "finished", "done"}, tile[t], "done")
    BY <1>3, <2>1 DEF Moved, Undone, Live
  <2>4. "done" \in Places /\ DOMAIN act = DOMAIN active /\ \A k \in DOMAIN active : k # l => act[k] = active[k]
    BY <1>3, <2>1 DEF Places, Where
  <2>5. Accounted(act, til)
    <3>1. DOMAIN active \subseteq Layer /\ tile \in [Tile -> Places]
      BY <1>1 DEF Typed
    <3>2. Accounted(act, [tile EXCEPT ![t] = "done"])
      BY <1>1, <1>2, <2>3, <2>4, <3>1, MoveKeepsAccount
    <3> QED BY <3>2
  <2>6. \A u \in Tile : til2[u] = til[u] \/ (til[u] = "exec" /\ til2[u] = "core")
    BY <2>2 DEF OnlyIssued
  <2>7. Accounted(act, til2)
    <3>1. \A u \in Tile : /\ til2[u] \in Undone <=> til[u] \in Undone
                          /\ til2[u] \in {"done"} <=> til[u] \in {"done"}
                          /\ til2[u] \in {"running", "finished", "done"} <=> til[u] \in {"running", "finished", "done"}
                          /\ til2[u] \in Live => til[u] \in Live
      BY <2>6 DEF Undone, Live
    <3>2. DOMAIN act \subseteq Layer
      BY <1>1, <2>4 DEF Typed
    <3> QED BY <2>5, <3>1, <3>2, StayKeepsAccount
  <2> QED BY <2>1, <2>2, <2>7 DEF Accounted
<1>6. Owned(requests, finished, active)' /\ Ready(requests, finished, executable, active)'
      /\ Closed(models, finished, active)' /\ Queued(models, requests)'
  BY <1>1, <1>3 DEF Owned, Ready, Closed
<1>7. UNCHANGED Graph!vars
  BY <1>3 DEF Graph!vars
<1> QED BY <1>4, <1>5, <1>6, <1>7 DEF Books

(* When no more than one tile of a layer remains, no other is anywhere.     *)
LEMMA LastOne ==
  ASSUME Books, NEW t \in Tile, tile[t] \in Live, ~(active[t[1]].remain > 1)
  PROVE  \A u \in TilesIn(t[1]) : u # t => tile[u] \notin Undone
<1> DEFINE l == t[1]
           til == [tile EXCEPT ![t] = "done"]
<1>1. Typed /\ Accounted(active, tile)
  BY DEF Books
<1>2. l \in Layer /\ active[l] \in LayerStat /\ active[l].remain = Count(l, tile, Undone)
  BY <1>1 DEF Typed, Accounted
<1>3. \A u \in TilesIn(l) : u \in Tile /\ til[u] = IF u = t THEN "done" ELSE tile[u]
  BY <1>1, <1>2, TilesFinite DEF Typed
<1>4. Count(l, til, Undone) = 0
  <2>1. t \in TilesIn(l) /\ "done" \in Places
    BY DEF Tile, TilesIn, Places, Where
  <2>2. Count(l, til, Undone) = Moved(Count(l, tile, Undone), Undone, tile[t], "done")
    <3> HIDE DEF l, til
    <3> QED BY <1>2, <1>3, <2>1, CountMove
  <2>3. Count(l, til, Undone) = active[l].remain - 1
    BY <1>2, <2>2 DEF Moved, Undone, Live
  <2>4. Count(l, til, Undone) \in Nat
    <3> HIDE DEF l, til
    <3> QED BY <1>2, CountType
  <2>5. active[l].remain \in Nat
    BY <1>2 DEF LayerStat
  <2> QED BY <2>3, <2>4, <2>5
<1>5. \A u \in TilesIn(l) : til[u] \notin Undone
  <2> HIDE DEF l, til
  <2> QED BY <1>2, <1>4, CountZero
<1> QED BY <1>3, <1>5

(* The last tile of a layer: the layer is finished, its children follow,    *)
(* and HalfSplit throws away what waits in the queue of the request.        *)
LEMMA LastTileKeepsBooks ==
  ASSUME Books, NEW t \in Tile, tile[t] \in Live, ~(active[t[1]].remain > 1),
         FinishTile(t[1], active, [tile EXCEPT ![t] = "done"]),
         UNCHANGED <<policy, models, requests>>
  PROVE  Books' /\ Graph!Next
<1> DEFINE til == [tile EXCEPT ![t] = "done"]
<1>0. PICK l : l = t[1]
  OBVIOUS
<1>1. /\ Typed
      /\ Accounted(active, tile)
      /\ Owned(requests, finished, active)
      /\ Queued(models, requests)
      /\ Ready(requests, finished, executable, active)
      /\ Closed(models, finished, active)
  BY DEF Books
<1>2. l \in DOMAIN active /\ l \in Layer /\ l \notin finished
  BY <1>0, <1>1 DEF Accounted, Typed, Owned
<1>3. PICK mine \in 1 .. Len(requests) : l \in Owns(requests[mine])
  BY <1>1, <1>2 DEF Owned
<1>4. PICK m \in Model : m = requests[mine] /\ l \in Owns(m) /\ ModelOf(l) = m
  <2>1. requests[mine] \in Model
    BY <1>1, ElementOfSeq DEF Typed
  <2> QED BY <1>3, <2>1, OwnerIsModelOf
<1>5. PICK new \in InOrder(NewlyExecutable(l, finished \union {l}, executable[m]), ChildNodes[l]) :
        executable' = [executable EXCEPT ![m] = @ \o new]
  BY <1>0, <1>4 DEF FinishTile
<1>6. /\ active' = [k \in DOMAIN active \ {l} |-> active[k]]
      /\ finished' = finished \union {l}
      /\ tile' = [u \in Tile |-> IF u \in ThrownAway(l) THEN "lost" ELSE til[u]]
  BY <1>0 DEF FinishTile
<1>7. DOMAIN active' = DOMAIN active \ {l} /\ \A k \in DOMAIN active' : active'[k] = active[k]
  BY <1>6
<1>8. \A u \in TilesIn(l) : u # t => tile[u] \notin Undone
  BY <1>0, LastOne
<1>9. \A u \in Tile : til[u] = IF u = t THEN "done" ELSE tile[u]
  BY <1>1 DEF Typed
<1>10. \A u \in Tile : tile'[u] = til[u] \/ (policy = "spatial_split" /\ tile[u] = "exec" /\ tile'[u] = "lost")
  <2>1. \A u \in ThrownAway(l) : policy = "spatial_split" /\ tile[u] = "exec"
    BY DEF ThrownAway, RequestQueue
  <2> HIDE DEF til
  <2> QED BY <1>6, <2>1
<1>11. \A u \in Tile : u[1] # l => tile'[u] = tile[u] \/ (policy = "spatial_split" /\ tile[u] = "exec" /\ tile'[u] = "lost")
  BY <1>0, <1>9, <1>10
<1>12. \A u \in Tile : tile'[u] \in Live => u[1] # l /\ tile[u] \in Live
  <2> SUFFICES ASSUME NEW u \in Tile, tile'[u] \in Live
               PROVE  u[1] # l /\ tile[u] \in Live
    OBVIOUS
  <2>1. u # t /\ tile[u] \in Live
    BY <1>9, <1>10 DEF Live
  <2>2. u[1] = l => u \in TilesIn(l)
    BY DEF Tile, TilesIn
  <2> QED BY <1>8, <2>1, <2>2 DEF Undone
<1> HIDE DEF til
<1>13. CanStart(executable[m] \o new, m, finished \union {l}, DOMAIN active')
  <2>1. PICK list : list = executable[m]
    OBVIOUS
  <2>2. CanStart(list, m, finished, DOMAIN active)
    BY <1>1, <1>4, <2>1 DEF Ready
  <2>3. \A k \in finished \union DOMAIN active : Producers(k) \subseteq finished
    BY <1>1 DEF Closed
  <2>4. CanStart(list \o new, m, finished \union {l}, DOMAIN active \ {l})
    BY <1>2, <1>4, <1>5, <2>1, <2>2, <2>3, ChildrenFollow
  <2> QED BY <1>7, <2>1, <2>4
<1>14. Typed'
  <2>1. executable' \in [Model -> Seq(Layer)]
    BY <1>1, <1>4, <1>5, <1>13 DEF Typed, CanStart
  <2>2. DOMAIN active' \subseteq Layer /\ active' \in [DOMAIN active' -> LayerStat]
    BY <1>1, <1>6 DEF Typed
  <2>3. tile' \in [Tile -> Places]
    <3>1. \A u \in Tile : tile'[u] \in Places
      BY <1>1, <1>9, <1>10 DEF Typed, Places, Where
    <3> QED BY <1>6, <3>1
  <2>4. models' \subseteq Model /\ requests' \in Seq(Model) /\ finished' \subseteq Layer
    BY <1>1, <1>2, <1>6 DEF Typed
  <2> QED BY <2>1, <2>2, <2>3, <2>4 DEF Typed
<1>15. Accounted(active, tile)'
  <2>1. PICK act : act = active'
    OBVIOUS
  <2>2. PICK til2 : til2 = tile'
    OBVIOUS
  <2>3. DOMAIN act \subseteq Layer
    BY <1>14, <2>1 DEF Typed
  <2>4. ASSUME NEW k \in DOMAIN act
        PROVE  /\ act[k].remain = Count(k, til2, Undone)
               /\ act[k].finished = Count(k, til2, {"done"})
               /\ policy # "spatial_split" => act[k].launched = Count(k, til2, {"running", "finished", "done"})
    <3>1. k \in Layer /\ k # l /\ k \in DOMAIN active /\ act[k] = active[k]
      BY <1>7, <2>1, <2>3
    <3>2. \A u \in TilesIn(k) : u \in Tile /\ u[1] # l
      BY <3>1, TilesFinite DEF TilesIn
    <3>3. \A u \in TilesIn(k) : til2[u] = tile[u] \/ (policy = "spatial_split" /\ tile[u] = "exec" /\ til2[u] = "lost")
      BY <1>11, <2>2, <3>2
    <3>4. /\ Count(k, til2, Undone) = Count(k, tile, Undone)
          /\ Count(k, til2, {"done"}) = Count(k, tile, {"done"})
          /\ policy # "spatial_split" =>
               Count(k, til2, {"running", "finished", "done"}) = Count(k, tile, {"running", "finished", "done"})
      <4>1. \A u \in TilesIn(k) : /\ til2[u] \in Undone <=> tile[u] \in Undone
                                  /\ til2[u] \in {"done"} <=> tile[u] \in {"done"}
                                  /\ policy # "spatial_split" => til2[u] = tile[u]
        BY <3>3 DEF Undone, Live
      <4> QED BY <3>1, <4>1, CountSame
    <3> QED BY <1>1, <3>1, <3>4 DEF Accounted
  <2>5. \A u \in Tile : til2[u] \in Live => u[1] \in DOMAIN act
    BY <1>1, <1>7, <1>12, <2>1, <2>2 DEF Accounted
  <2>6. policy' = policy
    OBVIOUS
  <2> QED BY <2>1, <2>2, <2>4, <2>5, <2>6 DEF Accounted
<1>16. Owned(requests, finished, active)'
  BY <1>1, <1>6, <1>7 DEF Owned
<1>17. Ready(requests, finished, executable, active)'
  <2> SUFFICES ASSUME NEW i \in 1 .. Len(requests)
               PROVE  CanStart(executable'[requests[i]], requests[i], finished \union {l}, DOMAIN active')
    BY <1>6 DEF Ready
  <2>1. PICK n \in Model : n = requests[i]
    BY <1>1, ElementOfSeq DEF Typed
  <2>2. executable \in [Model -> Seq(Layer)]
    BY <1>1 DEF Typed
  <2>3. CASE n = m
    BY <1>5, <1>13, <2>1, <2>2, <2>3
  <2>4. CASE n # m
    <3>1. executable'[n] = executable[n] /\ l \notin Owns(n)
      BY <1>4, <1>5, <2>2, <2>4, GraphAssumption
    <3>2. CanStart(executable[n], n, finished, DOMAIN active)
      BY <1>1, <2>1 DEF Ready
    <3> QED BY <1>7, <2>1, <3>1, <3>2, StillStarts
  <2> QED BY <2>3, <2>4
<1>18. Closed(models, finished, active)'
  <2>1. \A n \in models : l \notin Owns(n)
    <3>1. \A n \in models : n \in Model /\ n # m
      BY <1>1, <1>4 DEF Queued, Typed
    <3> QED BY <3>1, <1>4, GraphAssumption
  <2>2. Producers(l) \subseteq finished
    BY <1>1, <1>2 DEF Closed
  <2>3. \A k \in finished \union DOMAIN active : Producers(k) \subseteq finished \union {l}
    BY <1>1 DEF Closed
  <2>4. \A n \in models : \/ Owns(n) \subseteq finished \union {l}
                          \/ Owns(n) \cap (finished \union {l} \union DOMAIN active') = {}
    BY <1>1, <1>7, <2>1 DEF Closed
  <2> QED BY <1>6, <1>7, <2>2, <2>3, <2>4 DEF Closed
<1>19. Queued(models, requests)'
  BY <1>1
<1>20. Graph!Next
  <2>1. Graph!Advance({l}, {}, {})
    BY <1>6, <1>7 DEF Graph!Advance
  <2> QED BY <1>2, <2>1 DEF Graph!Next
<1> QED BY <1>14, <1>15, <1>16, <1>17, <1>18, <1>19, <1>20 DEF Books

-----------------------------------------------------------------------------
(* Requests come and go.                                                    *)

(* refresh_status removes the requests that are over.                       *)
LEMMA DropFinishedKeepsBooks ==
  ASSUME Books, DropFinished
  PROVE  Books' /\ UNCHANGED Graph!vars
<1> DEFINE over == {m \in Requested : CheckFinish(m, finished)}
           stay == Requested \ over
<1>1. /\ Typed
      /\ Accounted(active, tile)
      /\ Owned(requests, finished, active)
      /\ Queued(models, requests)
      /\ Ready(requests, finished, executable, active)
      /\ Closed(models, finished, active)
  BY DEF Books
<1>2. PICK left \in InOrder(stay, requests) : requests' = left
  BY DEF DropFinished
<1>3. PICK again \in SUBSET over : models' = models \union again
  BY DEF DropFinished
<1>4. UNCHANGED <<policy, finished, executable, active, tile>>
  BY DEF DropFinished, loopVars
<1>5. Requested \subseteq Model /\ Len(requests) \in Nat
  BY <1>1, ElementOfSeq, LenProperties DEF Typed, Requested
<1>6. /\ left \in Seq(stay) /\ Distinct(left)
      /\ \A i \in 1 .. Len(left) : left[i] \in stay
      /\ \A m \in stay : \E i \in 1 .. Len(left) : left[i] = m
  <2> HIDE DEF stay
  <2>1. left \in Seq(stay) /\ \A i, j \in 1 .. Len(left) : left[i] = left[j] => i = j
    BY <1>5, InOrderProperties
  <2>2. DOMAIN left = 1 .. Len(left)
    BY <2>1, LenProperties
  <2>3. \A m \in stay : \E i \in DOMAIN left : left[i] = m
    BY DEF InOrder
  <2> QED BY <2>1, <2>2, <2>3, ElementOfSeq DEF Distinct
<1>7. \A m \in over : m \in Model /\ Owns(m) \subseteq finished
  BY <1>5 DEF CheckFinish
<1>8. \A l \in DOMAIN active : \E m \in stay : l \in Owns(m)
  <2> TAKE l \in DOMAIN active
  <2>1. PICK i \in 1 .. Len(requests) : l \in Owns(requests[i]) /\ l \notin finished
    BY <1>1 DEF Owned
  <2>2. requests[i] \in stay
    BY <1>7, <2>1 DEF Requested
  <2> QED BY <2>1, <2>2
<1>9. \A m \in stay : m \in Requested /\ m \notin over
  OBVIOUS
<1> HIDE DEF over, stay
<1>10. Typed'
  <2>1. left \in Seq(Model)
    <3>1. \A i \in 1 .. Len(left) : left[i] \in Model
      BY <1>5, <1>6, <1>9
    <3>2. left \in [1 .. Len(left) -> stay] /\ Len(left) \in Nat
      BY <1>6, LenProperties
    <3>3. left \in [1 .. Len(left) -> Model]
      BY <3>1, <3>2
    <3> QED BY <3>2, <3>3, SeqDef
  <2> QED BY <1>1, <1>2, <1>3, <1>4, <1>7, <2>1 DEF Typed
<1>11. Accounted(active, tile)'
  BY <1>1, <1>4 DEF Accounted
<1>12. Owned(requests, finished, active)'
  <2> SUFFICES ASSUME NEW l \in DOMAIN active
               PROVE  l \notin finished /\ \E i \in 1 .. Len(left) : l \in Owns(left[i])
    BY <1>2, <1>4 DEF Owned
  <2>1. PICK m \in stay : l \in Owns(m)
    BY <1>8
  <2>2. PICK i \in 1 .. Len(left) : left[i] = m
    BY <1>6
  <2> QED BY <1>1, <2>1, <2>2 DEF Owned
<1>13. Queued(models, requests)'
  <2>1. \A i \in 1 .. Len(left) : left[i] \notin models /\ left[i] \notin again
    <3> TAKE i \in 1 .. Len(left)
    <3>1. left[i] \in Requested /\ left[i] \notin over
      BY <1>6, <1>9
    <3>2. left[i] \notin models
      BY <1>1, <3>1 DEF Queued, Requested
    <3> QED BY <3>1, <3>2
  <2> QED BY <1>2, <1>3, <1>6, <2>1 DEF Queued, Distinct
<1>14. Ready(requests, finished, executable, active)'
  <2> SUFFICES ASSUME NEW i \in 1 .. Len(left)
               PROVE  CanStart(executable[left[i]], left[i], finished, DOMAIN active)
    BY <1>2, <1>4 DEF Ready
  <2>1. PICK j \in 1 .. Len(requests) : left[i] = requests[j]
    BY <1>6, <1>9 DEF Requested
  <2> QED BY <1>1, <2>1 DEF Ready
<1>15. Closed(models, finished, active)'
  BY <1>1, <1>3, <1>4, <1>7 DEF Closed
<1>16. UNCHANGED Graph!vars
  BY <1>4 DEF Graph!vars
<1> QED BY <1>10, <1>11, <1>12, <1>13, <1>14, <1>15, <1>16 DEF Books

(* schedule_model loads a registered model, for its first or another round. *)
LEMMA ScheduleModelKeepsBooks ==
  ASSUME Books, NEW m \in Model, ScheduleModel(m)
  PROVE  Books' /\ Graph!Next
<1>1. /\ Typed
      /\ Accounted(active, tile)
      /\ Owned(requests, finished, active)
      /\ Queued(models, requests)
      /\ Ready(requests, finished, executable, active)
      /\ Closed(models, finished, active)
  BY DEF Books
<1>2. /\ m \in models /\ models' = models \ {m} /\ requests' = Append(requests, m)
      /\ finished' = finished \ Owns(m)
      /\ UNCHANGED <<policy, active, tile>>
  BY DEF ScheduleModel, loopVars
<1>3. PICK roots \in InOrder(Roots(m), LayersOf[m]) : executable' = [executable EXCEPT ![m] = roots]
  BY DEF ScheduleModel
<1>4. /\ roots \in Seq(Layer) /\ Distinct(roots)
      /\ \A i \in 1 .. Len(roots) : roots[i] \in Owns(m) /\ Producers(roots[i]) = {}
  BY RootsReady
<1>5. PICK reqs : reqs = Append(requests, m)
  OBVIOUS
<1>6. /\ Len(requests) \in Nat /\ reqs \in Seq(Model) /\ Len(reqs) = Len(requests) + 1
      /\ \A i \in 1 .. Len(reqs) :
           \/ i \in 1 .. Len(requests) /\ reqs[i] = requests[i] /\ requests[i] # m /\ requests[i] \in Model
           \/ i = Len(reqs) /\ reqs[i] = m
      /\ \A i \in 1 .. Len(requests) : i \in 1 .. Len(reqs) /\ reqs[i] = requests[i]
  <2>1. requests \in Seq(Model) /\ Len(requests) \in Nat
    BY <1>1, LenProperties DEF Typed
  <2>2. /\ reqs \in Seq(Model) /\ Len(reqs) = Len(requests) + 1
        /\ \A i \in 1 .. Len(requests) : reqs[i] = requests[i]
        /\ reqs[Len(requests) + 1] = m
    BY <1>5, <2>1, AppendProperties
  <2>3. \A i \in 1 .. Len(requests) : requests[i] # m /\ requests[i] \in Model
    BY <1>1, <1>2, <2>1, ElementOfSeq DEF Queued
  <2> QED BY <2>1, <2>2, <2>3
<1>7. Owns(m) \cap DOMAIN active = {}
  <2> SUFFICES ASSUME NEW l \in DOMAIN active, l \in Owns(m)
               PROVE  FALSE
    OBVIOUS
  <2>1. PICK i \in 1 .. Len(requests) : l \in Owns(requests[i])
    BY <1>1 DEF Owned
  <2>2. requests[i] \in Model /\ requests[i] # m
    BY <1>6, <2>1
  <2> QED BY <2>1, <2>2, GraphAssumption
<1>8. \A n \in Model : n # m => Owns(n) \cap Owns(m) = {}
  BY GraphAssumption
<1>9. Typed'
  <2>1. executable' \in [Model -> Seq(Layer)]
    BY <1>1, <1>3, <1>4 DEF Typed
  <2> QED BY <1>1, <1>2, <1>5, <1>6, <2>1 DEF Typed
<1>10. Accounted(active, tile)'
  BY <1>1, <1>2 DEF Accounted
<1>11. Owned(requests, finished, active)'
  BY <1>1, <1>2, <1>5, <1>6 DEF Owned
<1>12. Queued(models, requests)'
  <2>1. \A i \in 1 .. Len(reqs) : reqs[i] \notin models \ {m}
    BY <1>1, <1>6 DEF Queued
  <2>2. \A i, j \in 1 .. Len(reqs) : reqs[i] = reqs[j] => i = j
    <3> TAKE i, j \in 1 .. Len(reqs)
    <3> QED BY <1>1, <1>6 DEF Queued
  <2> QED BY <1>2, <1>5, <2>1, <2>2 DEF Queued
<1>13. Ready(requests, finished, executable, active)'
  <2> SUFFICES ASSUME NEW i \in 1 .. Len(reqs)
               PROVE  CanStart(executable'[reqs[i]], reqs[i], finished \ Owns(m), DOMAIN active)
    BY <1>2, <1>5 DEF Ready
  <2>1. executable \in [Model -> Seq(Layer)]
    BY <1>1 DEF Typed
  <2>2. CASE i \in 1 .. Len(requests) /\ reqs[i] = requests[i] /\ requests[i] # m /\ requests[i] \in Model
    <3>1. PICK n \in Model : n = requests[i]
      BY <2>2
    <3>2. n # m /\ executable'[n] = executable[n] /\ reqs[i] = n
      BY <1>3, <2>1, <2>2, <3>1
    <3>3. CanStart(executable[n], n, finished, DOMAIN active)
      BY <1>1, <2>2, <3>1 DEF Ready
    <3>4. CanStart(executable[n], n, finished \ Owns(m), DOMAIN active)
      BY <1>8, <3>2, <3>3, StillStarts
    <3> QED BY <3>2, <3>4
  <2>3. CASE reqs[i] = m
    <3>1. CanStart(roots, m, finished \ Owns(m), DOMAIN active)
      BY <1>4, <1>7 DEF CanStart
    <3> QED BY <1>3, <2>1, <2>3, <3>1
  <2> QED BY <1>6, <2>2, <2>3
<1>14. Closed(models, finished, active)'
  <2>1. \A l \in (finished \ Owns(m)) \union DOMAIN active : Producers(l) \subseteq finished \ Owns(m)
    <3> TAKE l \in (finished \ Owns(m)) \union DOMAIN active
    <3>1. l \in Layer /\ l \notin Owns(m) /\ Producers(l) \subseteq finished
      BY <1>1, <1>7 DEF Typed, Closed
    <3>2. PICK n \in Model : l \in Owns(n)
      BY <3>1, GraphAssumption
    <3>3. Producers(l) \subseteq Owns(n)
      BY <3>2, ProducersOwned
    <3> QED BY <1>8, <3>1, <3>2, <3>3
  <2>2. \A n \in models \ {m} : \/ Owns(n) \subseteq finished \ Owns(m)
                                \/ Owns(n) \cap ((finished \ Owns(m)) \union DOMAIN active) = {}
    <3> TAKE n \in models \ {m}
    <3>1. n \in Model /\ Owns(n) \cap Owns(m) = {}
      BY <1>1, <1>8 DEF Typed
    <3> QED BY <1>1, <3>1 DEF Closed
  <2> QED BY <1>2, <2>1, <2>2 DEF Closed
<1>15. Graph!Next
  <2>1. Graph!Advance({}, {m}, {})
    BY <1>1, <1>2 DEF Graph!Advance, Closed
  <2> QED BY <2>1 DEF Graph!Next
<1> QED BY <1>9, <1>10, <1>11, <1>12, <1>13, <1>14, <1>15 DEF Books

-----------------------------------------------------------------------------
(* The other actions.                                                       *)

LEMMA InitInv == Init => IInv
<1> SUFFICES ASSUME Init PROVE IInv
  OBVIOUS
<1> USE DEF Init, DispatchInit
<1>1. Typed
  <2>1. <<>> \in Seq(Model) /\ <<>> \in Seq(Layer) /\ DOMAIN active = {}
    OBVIOUS
  <2>2. executable \in [Model -> Seq(Layer)] /\ active \in [DOMAIN active -> LayerStat]
    BY <2>1
  <2>3. tile \in [Tile -> Places]
    BY DEF Places, Where
  <2>4. models \subseteq Model
    BY DispatchAssumption
  <2> QED BY <2>1, <2>2, <2>3, <2>4 DEF Typed
<1>2. Accounted(active, tile) /\ Owned(requests, finished, active) /\ Queued(models, requests)
  BY DEF Accounted, Live, Owned, Queued
<1>3. Ready(requests, finished, executable, active) /\ Closed(models, finished, active)
  BY DEF Ready, Closed
<1>4. InTurn
  BY DEF InTurn
<1> QED BY <1>1, <1>2, <1>3, <1>4 DEF IInv, Books

(* refresh_status of each scheduler.                                        *)
LEMMA StartOnCoresKeepsBooks ==
  ASSUME Books, NEW m \in Requested, executable[m] # <<>>, NEW p, ExecQueue(p) = {},
         NEW offset, NEW coreFor, StartOnCores(m, p, offset, coreFor),
         UNCHANGED <<policy, models, requests, finished>>
  PROVE  Books' /\ Graph!Next
<1> DEFINE l == Head(executable[m])
           moved == UpToBarrier(ExecQueue(p) \union TilesIn(l))
<1>1. Activate(m, ExecQueue(p))
  BY DEF StartOnCores
<1>2. tile' = [t \in Tile |-> IF t \in moved THEN "core" ELSE Enqueued(l)[t]]
  BY DEF StartOnCores, IssueTiles
<1>3. \A t \in moved : t[1] = l
  BY DEF UpToBarrier, TilesIn
<1> HIDE DEF moved
<1> QED BY <1>1, <1>2, <1>3, StartKeepsBooks

LEMMA StartInQueueKeepsBooks ==
  ASSUME Books, NEW m \in Requested, executable[m] # <<>>, RequestQueue(m) = {}, StartInQueue(m),
         UNCHANGED <<policy, models, requests, finished>>
  PROVE  Books' /\ Graph!Next
<1>1. Activate(m, RequestQueue(m))
  BY DEF StartInQueue
<1>2. tile' = [t \in Tile |-> IF t \in {} THEN "core" ELSE Enqueued(Head(executable[m]))[t]]
  BY DEF StartInQueue, Enqueued
<1>3. \A t \in {} : t[1] = Head(executable[m])
  OBVIOUS
<1> QED BY <1>1, <1>2, <1>3, StartKeepsBooks

(* A tile goes on, and is counted as launched or not.                       *)
LEMMA TileGoesOn ==
  ASSUME Books, NEW t \in Tile, tile[t] \in Live, NEW w \in {"running", "finished"},
         tile' = [tile EXCEPT ![t] = w],
         NEW n \in Nat, n = IF tile[t] \in {"exec", "core"} THEN active[t[1]].launched + 1 ELSE active[t[1]].launched,
         active' = [active EXCEPT ![t[1]].launched = n],
         UNCHANGED <<policy, models, requests, finished, executable>>
  PROVE  Books' /\ UNCHANGED Graph!vars
<1> DEFINE l == t[1]
<1>1. /\ Typed
      /\ Accounted(active, tile)
      /\ Owned(requests, finished, active)
      /\ Queued(models, requests)
      /\ Ready(requests, finished, executable, active)
      /\ Closed(models, finished, active)
  BY DEF Books
<1>2. l \in DOMAIN active /\ l \in Layer /\ active[l] \in LayerStat /\ w \in Places
  BY <1>1 DEF Accounted, Typed, Places, Where
<1>3. /\ DOMAIN active' = DOMAIN active
      /\ \A k \in DOMAIN active : k # l => active'[k] = active[k]
      /\ active'[l] = [remain |-> active[l].remain, finished |-> active[l].finished, launched |-> n]
  BY <1>1, <1>2 DEF Typed, LayerStat
<1>4. Typed'
  <2>1. active'[l] \in LayerStat
    BY <1>2, <1>3 DEF LayerStat
  <2>2. active' = [k \in DOMAIN active |-> active'[k]]
    BY <1>3
  <2>3. tile' \in [Tile -> Places]
    BY <1>1, <1>2 DEF Typed
  <2> HIDE DEF l
  <2> QED BY <1>1, <1>3, <2>1, <2>2, <2>3 DEF Typed
<1>5. Accounted(active, tile)'
  <2>1. PICK act : act = active'
    OBVIOUS
  <2>2. /\ act[l].remain = Moved(active[l].remain, Undone, tile[t], w)
        /\ act[l].finished = Moved(active[l].finished, {"done"}, tile[t], w)
        /\ act[l].launched = Moved(active[l].launched, {"running", "finished", "done"}, tile[t], w)
    BY <1>3, <2>1 DEF Moved, Undone, Live
  <2>3. DOMAIN act = DOMAIN active /\ \A k \in DOMAIN active : k # l => act[k] = active[k]
    BY <1>3, <2>1
  <2>4. DOMAIN active \subseteq Layer /\ tile \in [Tile -> Places]
    BY <1>1 DEF Typed
  <2>5. Accounted(act, [tile EXCEPT ![t] = w])
    BY <1>1, <1>2, <2>2, <2>3, <2>4, MoveKeepsAccount
  <2> QED BY <2>1, <2>5 DEF Accounted
<1>6. Owned(requests, finished, active)' /\ Ready(requests, finished, executable, active)'
      /\ Closed(models, finished, active)' /\ Queued(models, requests)'
  BY <1>1, <1>3 DEF Owned, Ready, Closed
<1>7. UNCHANGED Graph!vars
  BY <1>3 DEF Graph!vars
<1> QED BY <1>4, <1>5, <1>6, <1>7 DEF Books

(* HalfSplit does not count what it launches, and may lose a barrier.       *)
LEMMA GetTileOfRequestKeepsBooks ==
  ASSUME Books, NEW t \in Tile, GetTileOfRequest(t)
  PROVE  Books' /\ UNCHANGED Graph!vars
<1>1. /\ Typed
      /\ Accounted(active, tile)
  BY DEF Books
<1>2. /\ policy = "spatial_split" /\ tile[t] = "exec"
      /\ UNCHANGED <<policy, models, requests, finished, executable, active>>
  BY DEF GetTileOfRequest, AsksRequest, FirstOf, RequestQueue, loopVars
<1>3. PICK w \in {"lost", "running", "finished"} : tile' = [tile EXCEPT ![t] = w]
  BY DEF GetTileOfRequest, Taken
<1>4. tile' \in [Tile -> Places] /\ \A u \in Tile : tile'[u] = tile[u] \/ (tile[u] = "exec" /\ tile'[u] = w)
  BY <1>1, <1>2, <1>3 DEF Typed, Places, Where
<1>5. Accounted(active, tile)'
  <2>1. PICK til : til = tile'
    OBVIOUS
  <2>2. \A u \in Tile : /\ til[u] \in Undone <=> tile[u] \in Undone
                        /\ til[u] \in {"done"} <=> tile[u] \in {"done"}
                        /\ til[u] \in Live => tile[u] \in Live
    BY <1>4, <2>1 DEF Undone, Live
  <2>3. DOMAIN active \subseteq Layer
    BY <1>1 DEF Typed
  <2>4. Accounted(active, til)
    BY <1>1, <1>2, <2>2, <2>3, StayKeepsAccount
  <2> QED BY <1>2, <2>1, <2>4 DEF Accounted
<1>6. UNCHANGED Graph!vars
  BY <1>2 DEF Graph!vars
<1> QED BY <1>2, <1>4, <1>5, <1>6 DEF Books, Typed

LEMMA StepKeepsBooks ==
  ASSUME Books, NEW t \in Tile, Step(t)
  PROVE  Books' /\ [Graph!Next]_(Graph!vars)
<1>1. Typed /\ Accounted(active, tile)
  BY DEF Books
<1>2. ASSUME tile[t] \in Live
      PROVE  /\ active[t[1]] \in LayerStat /\ active \in [DOMAIN active -> LayerStat]
             /\ t[1] \in DOMAIN active
  BY <1>1, <1>2 DEF Typed, Accounted
<1> DEFINE less(n) == [k \in DOMAIN active |->
                         IF k = t[1] THEN [remain |-> active[k].remain - 1, finished |-> active[k].finished + 1,
                                           launched |-> n]
                                     ELSE active[k]]
<1>3. CASE PopFinishedTile(t)
  <2>1. tile[t] = "finished" /\ tile[t] \in Live /\ UNCHANGED <<policy, models, requests>>
    BY <1>3 DEF PopFinishedTile, Live, loopVars
  <2>2. FinishTile(t[1], active, [tile EXCEPT ![t] = "done"])
    BY <1>3 DEF PopFinishedTile
  <2>3. CASE active[t[1]].remain > 1
    <3>1. PICK til : til = [tile EXCEPT ![t] = "done"]
      OBVIOUS
    <3>2. /\ tile' = til /\ UNCHANGED <<finished, executable>>
          /\ active' = [active EXCEPT ![t[1]].remain = @ - 1, ![t[1]].finished = @ + 1]
      BY <2>2, <2>3, <3>1 DEF FinishTile
    <3>3. PICK n \in Nat : n = active[t[1]].launched
      BY <1>2, <2>1 DEF LayerStat
    <3>4. active' = less(n)
      <4>1. DOMAIN active' = DOMAIN active /\ \A k \in DOMAIN active : k # t[1] => active'[k] = active[k]
        BY <3>2
      <4>2. active'[t[1]] = [remain |-> active[t[1]].remain - 1, finished |-> active[t[1]].finished + 1, launched |-> n]
        BY <1>2, <2>1, <3>2, <3>3 DEF LayerStat
      <4>3. active' = [k \in DOMAIN active |-> active'[k]]
        BY <3>2
      <4> QED BY <4>1, <4>2, <4>3
    <3>5. n = Moved(active[t[1]].launched, {"running", "finished", "done"}, tile[t], "done")
      BY <2>1, <3>3 DEF Moved
    <3>6. tile' \in [Tile -> Places] /\ OnlyIssued(til, tile')
      BY <1>1, <3>1, <3>2 DEF Typed, Places, Where, OnlyIssued
    <3> QED BY <2>1, <2>3, <3>1, <3>2, <3>4, <3>5, <3>6, EarlierTileKeepsBooks
  <2>4. CASE ~(active[t[1]].remain > 1)
    BY <2>1, <2>2, <2>4, LastTileKeepsBooks
  <2> QED BY <2>3, <2>4
<1>4. CASE GetTileFromCoreQueue(t)
  <2>1. /\ tile[t] = "core" /\ tile[t] \in Live
        /\ active' = [active EXCEPT ![t[1]].launched = @ + 1]
        /\ UNCHANGED <<policy, models, requests, finished, executable>>
    BY <1>4 DEF GetTileFromCoreQueue, FirstOf, CoreQueue, Live, loopVars
  <2>2. PICK w \in {"running", "finished"} : tile' = [tile EXCEPT ![t] = w]
    BY <1>4 DEF GetTileFromCoreQueue, Taken
  <2>3. PICK n \in Nat : n = active[t[1]].launched + 1
    BY <1>2, <2>1 DEF LayerStat
  <2>4. active' = [active EXCEPT ![t[1]].launched = n]
    BY <1>2, <2>1, <2>3
  <2> QED BY <2>1, <2>2, <2>3, <2>4, TileGoesOn
<1>5. CASE GetTileOfRequest(t)
  BY <1>5, GetTileOfRequestKeepsBooks
<1>6. CASE GetTileBarrierHolds(t)
  <2>1. UNCHANGED <<policy, models, requests, finished, executable, active, tile>>
    BY <1>6 DEF GetTileBarrierHolds, Dispatch, loopVars
  <2>2. UNCHANGED Graph!vars
    BY <2>1 DEF Graph!vars
  <2> QED BY <2>1, <2>2 DEF Books, Typed, Accounted
<1>7. CASE GetTileBarrierOpens(t)
  <2>1. PICK til : til = [tile EXCEPT ![t] = "done"]
    OBVIOUS
  <2>2. /\ tile[t] = "exec" /\ tile[t] \in Live /\ active[t[1]].remain > 1
        /\ active' = [active EXCEPT ![t[1]].launched = @ + 1, ![t[1]].finished = @ + 1, ![t[1]].remain = @ - 1]
        /\ UNCHANGED <<policy, models, requests, finished, executable>>
    BY <1>7 DEF GetTileBarrierOpens, AtBarrier, FirstOf, ExecQueue, CountBarrier, Live, loopVars
  <2>3. PICK n \in Nat : n = active[t[1]].launched + 1
    BY <1>2, <2>2 DEF LayerStat
  <2>4. active' = less(n)
    <3>1. DOMAIN active' = DOMAIN active /\ \A k \in DOMAIN active : k # t[1] => active'[k] = active[k]
      BY <2>2
    <3>2. active'[t[1]] = [remain |-> active[t[1]].remain - 1, finished |-> active[t[1]].finished + 1, launched |-> n]
      BY <1>2, <2>2, <2>3 DEF LayerStat
    <3>3. active' = [k \in DOMAIN active |-> active'[k]]
      BY <2>2
    <3> QED BY <3>1, <3>2, <3>3
  <2>5. n = Moved(active[t[1]].launched, {"running", "finished", "done"}, tile[t], "done")
    BY <2>2, <2>3 DEF Moved
  <2>6. til \in [Tile -> Places] /\ \A u \in ExecQueue(Partition[turn]) \ {t} : til[u] = "exec"
    BY <1>1, <2>1 DEF Typed, Places, Where, ExecQueue
  <2>7. tile' = [u \in Tile |-> IF u \in UpToBarrier(ExecQueue(Partition[turn]) \ {t}) THEN "core" ELSE til[u]]
    BY <1>7, <2>1 DEF GetTileBarrierOpens, IssueTiles
  <2>8. \A u \in UpToBarrier(ExecQueue(Partition[turn]) \ {t}) : til[u] = "exec"
    BY <2>6 DEF UpToBarrier
  <2>9. tile' \in [Tile -> Places]
    BY <2>6, <2>7 DEF Places, Where
  <2>10. OnlyIssued(til, tile')
    BY <2>7, <2>8 DEF OnlyIssued
  <2>11. Books' /\ UNCHANGED Graph!vars
    BY <2>1, <2>2, <2>4, <2>5, <2>9, <2>10, EarlierTileKeepsBooks
  <2> QED BY <2>11
<1>8. CASE GetTileBarrierIsLast(t)
  <2>1. /\ tile[t] = "exec" /\ tile[t] \in Live /\ ~(active[t[1]].remain > 1)
        /\ UNCHANGED <<policy, models, requests>>
    BY <1>8 DEF GetTileBarrierIsLast, AtBarrier, FirstOf, ExecQueue, Live, loopVars
  <2>2. FinishTile(t[1], active, [tile EXCEPT ![t] = "done"])
    BY <1>8 DEF GetTileBarrierIsLast
  <2> QED BY <2>1, <2>2, LastTileKeepsBooks
<1>9. CASE CoreFinishes(t)
  <2>1. /\ tile[t] = "running" /\ tile[t] \in Live /\ tile' = [tile EXCEPT ![t] = "finished"]
        /\ UNCHANGED <<policy, models, requests, finished, executable, active>>
    BY <1>9 DEF CoreFinishes, Live
  <2>2. PICK n \in Nat : n = active[t[1]].launched
    BY <1>2, <2>1 DEF LayerStat
  <2>3. active' = [active EXCEPT ![t[1]].launched = n]
    BY <1>2, <2>1, <2>2 DEF LayerStat
  <2> QED BY <2>1, <2>2, <2>3, TileGoesOn
<1> QED BY <1>3, <1>4, <1>5, <1>6, <1>7, <1>8, <1>9 DEF Step

LEMMA RefreshKeepsBooks ==
  ASSUME Books, InTurn, StartMultiplexed \/ StartDedicated \/ StartSplit
  PROVE  Books' /\ [Graph!Next]_(Graph!vars)
<1>1. requests \in Seq(Model) /\ Len(requests) \in Nat /\ (requests # <<>> => Len(requests) > 0)
  BY EmptySeq, LenProperties DEF Books, Typed
<1>2. ASSUME StartNone, UNCHANGED <<policy, models, requests, finished>>
      PROVE  Books' /\ UNCHANGED Graph!vars
  BY <1>2 DEF StartNone, Books, Typed, Accounted, Graph!vars
<1>3. CASE StartMultiplexed
  <2>1. UNCHANGED <<policy, models, requests, finished>>
    BY <1>3 DEF StartMultiplexed
  <2>2. CASE requests # <<>> /\ TileQueueEmpty(tile)
    <3>1. PICK m, next : next = request_rr' /\ m = requests[next + 1]
      OBVIOUS
    <3>2. m \in Requested
      <4>1. request_rr' = (request_rr + 1) % Len(requests) /\ request_rr + 1 \in Int
        BY <1>3, <2>2 DEF StartMultiplexed, InTurn
      <4>2. next \in 0 .. Len(requests) - 1
        BY <1>1, <2>2, <3>1, <4>1
      <4>3. next + 1 \in 1 .. Len(requests)
        BY <1>1, <4>2
      <4> QED BY <3>1, <4>3 DEF Requested
    <3>3. CASE executable[m] # <<>>
      <4>1. StartOnCores(m, 0, 0, [c \in Core |-> c])
        BY <1>3, <2>2, <3>1, <3>3 DEF StartMultiplexed
      <4>2. ExecQueue(0) = {}
        BY <2>2 DEF TileQueueEmpty, ExecQueue
      <4> QED BY <2>1, <3>2, <3>3, <4>1, <4>2, StartOnCoresKeepsBooks
    <3>4. CASE executable[m] = <<>>
      <4>1. StartNone
        BY <1>3, <2>2, <3>1, <3>4 DEF StartMultiplexed
      <4> QED BY <1>2, <2>1, <4>1
    <3> QED BY <3>3, <3>4
  <2>3. CASE ~(requests # <<>> /\ TileQueueEmpty(tile))
    <3>1. StartNone
      BY <1>3, <2>3 DEF StartMultiplexed
    <3> QED BY <1>2, <2>1, <3>1
  <2> QED BY <2>2, <2>3
<1>4. CASE StartDedicated
  <2>1. UNCHANGED <<policy, models, requests, finished>>
    BY <1>4 DEF StartDedicated, loopVars
  <2>2. ASSUME NEW m \in Requested, MayStart(index, m), NEW coreFor,
               StartOnCores(m, Partition[index], Position(index), coreFor)
        PROVE  Books' /\ Graph!Next
    <3>1. ExecQueue(Partition[index]) = {} /\ executable[m] # <<>>
      BY <2>2 DEF MayStart
    <3> QED BY <2>1, <2>2, <3>1, StartOnCoresKeepsBooks
  <2>3. StartNone \/ \E m \in Requested : /\ MayStart(index, m)
                                          /\ \E coreFor : StartOnCores(m, Partition[index], Position(index), coreFor)
    BY <1>4 DEF StartDedicated
  <2> QED BY <1>2, <2>1, <2>2, <2>3
<1>5. CASE StartSplit
  <2>1. UNCHANGED <<policy, models, requests, finished>> /\ policy = "spatial_split"
    BY <1>5 DEF StartSplit, loopVars
  <2>2. CASE requests # <<>> /\ MayStartSplit(requests[index + 1])
    <3>1. PICK m : m = requests[index + 1]
      OBVIOUS
    <3>2. m \in Requested
      <4>1. index + 1 \in 1 .. Len(requests)
        BY <1>1, <2>1, <2>2 DEF InTurn
      <4> QED BY <3>1, <4>1 DEF Requested
    <3>3. StartInQueue(m) /\ RequestQueue(m) = {} /\ executable[m] # <<>>
      BY <1>5, <2>2, <3>1 DEF StartSplit, MayStartSplit
    <3> QED BY <2>1, <3>2, <3>3, StartInQueueKeepsBooks
  <2>3. CASE ~(requests # <<>> /\ MayStartSplit(requests[index + 1]))
    <3>1. StartNone
      BY <1>5, <2>3 DEF StartSplit
    <3> QED BY <1>2, <2>1, <3>1
  <2> QED BY <2>2, <2>3
<1> QED BY <1>3, <1>4, <1>5

-----------------------------------------------------------------------------
(* The specification.                                                       *)

(* The walk over the requests stays within them.                            *)
LEMMA NextInTurn ==
  ASSUME Books, InTurn, [Next]_vars
  PROVE  InTurn'
<1>1. Len(requests) \in Nat
  BY LenProperties DEF Books, Typed
<1>2. CASE UNCHANGED vars
  BY <1>2 DEF vars, Dispatch, InTurn
<1>3. ASSUME NEW m \in Model, ScheduleModel(m)
      PROVE  InTurn'
  BY <1>3 DEF ScheduleModel, RefreshStatus, loopVars, InTurn
<1>4. CASE StartCores \/ NoFinishedTile \/ NoGetTile \/ GetTileBothEmpty \/ NoTileOfRequest \/ CoreRuns
  BY <1>4 DEF StartCores, NoFinishedTile, NoGetTile, GetTileBothEmpty, NoTileOfRequest, CoreRuns, NextCore,
              Asks, AsksQueues, AsksRequest, RefreshStatus, loopVars, Dispatch, InTurn
<1>5. CASE DropFinished
  BY <1>5 DEF DropFinished, loopVars, InTurn
<1>6. CASE StartMultiplexed
  <2>1. request_rr' \in Nat
    <3>1. CASE requests # <<>> /\ TileQueueEmpty(tile)
      <4>1. Len(requests) > 0
        BY <1>1, <3>1, EmptySeq DEF Books, Typed
      <4>2. request_rr' = (request_rr + 1) % Len(requests)
        BY <1>6, <3>1 DEF StartMultiplexed
      <4> QED BY <1>1, <4>1, <4>2 DEF InTurn
    <3>2. CASE ~(requests # <<>> /\ TileQueueEmpty(tile))
      BY <1>6, <3>2 DEF StartMultiplexed, InTurn
    <3> QED BY <3>1, <3>2
  <2>2. index' \in Nat /\ (phase' # "start" => index' = 0) /\ policy' # "spatial_split"
    BY <1>6 DEF StartMultiplexed, Goes, InTurn
  <2> QED BY <2>1, <2>2 DEF InTurn
<1>7. CASE StartDedicated
  BY <1>7 DEF StartDedicated, Goes, loopVars, InTurn
<1>8. CASE StartSplit
  BY <1>1, <1>8 DEF StartSplit, Goes, loopVars, InTurn
<1>9. ASSUME NEW t \in Tile, Step(t)
      PROVE  InTurn'
  BY <1>9 DEF Step, PopFinishedTile, GetTileFromCoreQueue, GetTileOfRequest, GetTileBarrierHolds,
              GetTileBarrierOpens, GetTileBarrierIsLast, CoreFinishes, AtBarrier, Asks, AsksQueues, AsksRequest,
              RefreshStatus, NextCore, Dispatch, loopVars, InTurn
<1> QED BY <1>2, <1>3, <1>4, <1>5, <1>6, <1>7, <1>8, <1>9 DEF Next, Stopped

LEMMA NextInv ==
  ASSUME IInv, [Next]_vars
  PROVE  IInv' /\ [Graph!Next]_(Graph!vars)
<1> USE DEF IInv
<1>1. InTurn'
  BY NextInTurn
<1>2. ASSUME UNCHANGED <<policy, models, requests, finished, executable, active, tile>>
      PROVE  Books' /\ UNCHANGED Graph!vars
  BY <1>2 DEF Books, Typed, Accounted, Graph!vars
<1>3. ASSUME NEW m \in Model, ScheduleModel(m)
      PROVE  Books' /\ Graph!Next
  BY <1>3, ScheduleModelKeepsBooks
<1>4. CASE StartCores \/ NoFinishedTile \/ NoGetTile \/ GetTileBothEmpty \/ NoTileOfRequest \/ CoreRuns \/ Stopped
  BY <1>1, <1>2, <1>4 DEF StartCores, NoFinishedTile, NoGetTile, GetTileBothEmpty, NoTileOfRequest, CoreRuns, Stopped,
                    Dispatch, loopVars, vars
<1>5. CASE DropFinished
  BY <1>1, <1>5, DropFinishedKeepsBooks
<1>6. CASE StartMultiplexed \/ StartDedicated \/ StartSplit
  BY <1>1, <1>6, RefreshKeepsBooks
<1>7. ASSUME NEW t \in Tile, Step(t)
      PROVE  Books' /\ [Graph!Next]_(Graph!vars)
  BY <1>7, StepKeepsBooks
<1>8. CASE UNCHANGED vars
  BY <1>1, <1>2, <1>8 DEF vars, Dispatch
<1> QED BY <1>1, <1>3, <1>4, <1>5, <1>6, <1>7, <1>8 DEF Next

(* IInv holds of every state the schedulers reach.                          *)
THEOREM Invariance == Spec => []IInv
<1>1. IInv /\ [Next]_vars => IInv'
  BY NextInv
<1> QED BY InitInv, <1>1, PTL DEF Spec

(* With several layers and requests in the cores the counters of each       *)
(* active layer are right, every tile in a queue or a core is one of an     *)
(* active layer, and that layer's request is still there: the assertions of *)
(* finish_tile hold under TimeMultiplex, DedicatedCPU and HalfSplit.        *)
THEOREM CountersAreRight == Spec => []LayerAccounting
<1>1. IInv => LayerAccounting
  <2> SUFFICES ASSUME IInv PROVE LayerAccounting
    OBVIOUS
  <2>1. Typed /\ Accounted(active, tile) /\ Owned(requests, finished, active)
    BY DEF IInv, Books
  <2>2. ASSUME NEW l \in DOMAIN active
        PROVE  ModelOf(l) \in Requested
    <3>1. PICK i \in 1 .. Len(requests) : l \in Owns(requests[i])
      BY <2>1 DEF Owned
    <3>2. requests[i] \in Model
      BY <2>1, ElementOfSeq DEF Typed
    <3> QED BY <3>1, <3>2, OwnerIsModelOf DEF Requested
  <2> QED BY <2>1, <2>2 DEF Accounted, LayerAccounting, Live, Undone
<1> QED BY Invariance, <1>1, PTL

(* Each of the three schedulers implements GraphExecution: a layer starts   *)
(* after the layers that produce its inputs, at most once a round, and a    *)
(* model is loaded again only between rounds, whatever the other requests   *)
(* in the cores do.                                                         *)
THEOREM ImplementsGraphExecution == Spec => ExecutesGraph
<1>1. Init => Graph!Init
  BY DEF Init, DispatchInit, Graph!Init
<1>2. IInv /\ [Next]_vars => [Graph!Next]_(Graph!vars)
  BY NextInv
<1> QED BY Invariance, <1>1, <1>2, PTL DEF Spec, ExecutesGraph, Graph!Spec
=============================================================================
