------------------------ MODULE SimpleSchedulerProofs ------------------------
(***************************************************************************)
(* Proofs about SimpleScheduler, for any number of cores, any models, any  *)
(* dependency graph and any tiles.                                         *)
(*                                                                         *)
(* The handlers of the scheduler end in RefreshStatus, to which they pass  *)
(* what they changed.  The inductive invariant is therefore written as a   *)
(* predicate Inv of these values: a handler establishes Inv of what it     *)
(* passes, and RefreshKeepsInv carries it to the next state.               *)
(***************************************************************************)
EXTENDS SimpleScheduler, TileDispatchProofs

Typed(mods, reqs, fin, exe, act, til) ==
  /\ mods \subseteq Model
  /\ reqs \in Seq(Model)
  /\ fin \subseteq Layer
  /\ exe \in [Model -> Seq(Layer)]
  /\ DOMAIN act \subseteq Layer
  /\ act \in [DOMAIN act -> LayerStat]
  /\ til \in [Tile -> Where]

(* The counters of the active layers.                                       *)
Accounted(act, til) ==
  /\ \A l \in DOMAIN act :
       /\ act[l].remain = Count(l, til, Where \ {"done"})
       /\ act[l].finished = Count(l, til, {"done"})
       /\ act[l].launched = Count(l, til, {"running", "finished", "done"})
  /\ \A t \in Tile : til[t] \in {"exec", "core", "running", "finished"} => t[1] \in DOMAIN act

(* One active layer, and it is a layer of the oldest request.               *)
Oldest(reqs, fin, act) ==
  /\ \A k, l \in DOMAIN act : k = l
  /\ \A l \in DOMAIN act : reqs # <<>> /\ l \in Owns(Head(reqs)) /\ l \notin fin

Inv(mods, reqs, fin, exe, act, til) ==
  /\ Typed(mods, reqs, fin, exe, act, til)
  /\ Accounted(act, til)
  /\ Oldest(reqs, fin, act)
  /\ Queued(mods, reqs)
  /\ Ready(reqs, fin, exe, act)
  /\ Closed(mods, fin, act)

IInv == Inv(models, requests, finished, executable, active, tile)

-----------------------------------------------------------------------------
(* The counters of the active layer.                                        *)

(* A tile of an active layer moves and the counters of the layer follow.    *)
LEMMA MoveKeepsAccount ==
  ASSUME NEW act, DOMAIN act \subseteq Layer, act \in [DOMAIN act -> LayerStat],
         NEW til \in [Tile -> Where],
         Accounted(act, til),
         NEW t \in Tile, NEW w \in Where, t[1] \in DOMAIN act,
         NEW act2, DOMAIN act2 = DOMAIN act,
         \A k \in DOMAIN act : k # t[1] => act2[k] = act[k],
         act2[t[1]].remain = Moved(act[t[1]].remain, Where \ {"done"}, til[t], w),
         act2[t[1]].finished = Moved(act[t[1]].finished, {"done"}, til[t], w),
         act2[t[1]].launched = Moved(act[t[1]].launched, {"running", "finished", "done"}, til[t], w)
  PROVE  Accounted(act2, [til EXCEPT ![t] = w])
<1> DEFINE til2 == [til EXCEPT ![t] = w]
<1>1. \A k \in DOMAIN act : k # t[1] => t \notin TilesIn(k)
  BY DEF TilesIn
<1>2. t \in TilesIn(t[1])
  BY DEF Tile, TilesIn
<1>3. ASSUME NEW W, NEW k \in DOMAIN act
      PROVE  Count(k, til2, W) = IF k = t[1] THEN Moved(Count(k, til, W), W, til[t], w) ELSE Count(k, til, W)
  <2>0. k \in Layer
    OBVIOUS
  <2>1. \A u \in TilesIn(k) : til2[u] = IF u = t THEN w ELSE til[u]
    BY <2>0, TilesFinite
  <2>2. t \in TilesIn(k) <=> k = t[1]
    BY <1>1, <1>2
  <2> HIDE DEF til2
  <2> QED BY <2>0, <2>1, <2>2, CountMove
<1>4. ASSUME NEW k \in DOMAIN act2
      PROVE  /\ act2[k].remain = Count(k, til2, Where \ {"done"})
             /\ act2[k].finished = Count(k, til2, {"done"})
             /\ act2[k].launched = Count(k, til2, {"running", "finished", "done"})
  <2>1. /\ act[k].remain = Count(k, til, Where \ {"done"})
        /\ act[k].finished = Count(k, til, {"done"})
        /\ act[k].launched = Count(k, til, {"running", "finished", "done"})
    BY DEF Accounted
  <2>2. \A W : Count(k, til2, W) = IF k = t[1] THEN Moved(Count(k, til, W), W, til[t], w) ELSE Count(k, til, W)
    BY <1>3
  <2> HIDE DEF til2
  <2>3. CASE k = t[1]
    <3>1. \A W : Count(k, til2, W) = Moved(Count(k, til, W), W, til[t], w)
      BY <2>2, <2>3
    <3>2. /\ act2[k].remain = Moved(act[k].remain, Where \ {"done"}, til[t], w)
          /\ act2[k].finished = Moved(act[k].finished, {"done"}, til[t], w)
          /\ act2[k].launched = Moved(act[k].launched, {"running", "finished", "done"}, til[t], w)
      BY <2>3, Zenon
    <3>3. act2[k].remain = Count(k, til2, Where \ {"done"})
      BY <2>1, <3>1, <3>2, Zenon
    <3>4. act2[k].finished = Count(k, til2, {"done"})
      BY <2>1, <3>1, <3>2, Zenon
    <3>5. act2[k].launched = Count(k, til2, {"running", "finished", "done"})
      BY <2>1, <3>1, <3>2, Zenon
    <3> QED BY <3>3, <3>4, <3>5
  <2>4. CASE k # t[1]
    <3>1. \A W : Count(k, til2, W) = Count(k, til, W)
      BY <2>2, <2>4
    <3>2. act2[k] = act[k]
      BY <2>4
    <3> QED BY <2>1, <3>1, <3>2
  <2> QED BY <2>3, <2>4
<1>5. \A u \in Tile : til2[u] \in {"exec", "core", "running", "finished"} => u[1] \in DOMAIN act2
  BY DEF Accounted
<1> QED BY <1>4, <1>5 DEF Accounted

(* Handing tiles of the executable queue to core queues is not counted.     *)
LEMMA IssueKeepsAccount ==
  ASSUME NEW act, DOMAIN act \subseteq Layer,
         NEW til \in [Tile -> Where], NEW til2 \in [Tile -> Where],
         Accounted(act, til),
         \A t \in Tile : til2[t] = til[t] \/ (til[t] = "exec" /\ til2[t] = "core")
  PROVE  Accounted(act, til2)
<1>1. ASSUME NEW l \in DOMAIN act
      PROVE  /\ act[l].remain = Count(l, til2, Where \ {"done"})
             /\ act[l].finished = Count(l, til2, {"done"})
             /\ act[l].launched = Count(l, til2, {"running", "finished", "done"})
  <2>1. l \in Layer /\ TilesIn(l) \subseteq Tile
    BY <1>1, TilesFinite
  <2>2. Count(l, til2, Where \ {"done"}) = Count(l, til, Where \ {"done"})
    <3>1. \A t \in TilesIn(l) : til2[t] \in Where \ {"done"} <=> til[t] \in Where \ {"done"}
      BY <2>1 DEF Where
    <3> QED BY <2>1, <3>1, CountSame
  <2>3. Count(l, til2, {"done"}) = Count(l, til, {"done"})
    <3>1. \A t \in TilesIn(l) : til2[t] \in {"done"} <=> til[t] \in {"done"}
      BY <2>1
    <3> QED BY <2>1, <3>1, CountSame
  <2>4. Count(l, til2, {"running", "finished", "done"}) = Count(l, til, {"running", "finished", "done"})
    <3>1. \A t \in TilesIn(l) : til2[t] \in {"running", "finished", "done"}
                                  <=> til[t] \in {"running", "finished", "done"}
      BY <2>1
    <3> QED BY <2>1, <3>1, CountSame
  <2> QED BY <1>1, <2>2, <2>3, <2>4 DEF Accounted
<1>2. \A t \in Tile : til2[t] \in {"exec", "core", "running", "finished"} => t[1] \in DOMAIN act
  BY DEF Accounted
<1> QED BY <1>1, <1>2 DEF Accounted

-----------------------------------------------------------------------------
(* RefreshStatus.                                                           *)

(* A model that has all its layers finished leaves the request queue.       *)
LEMMA PopKeepsInv ==
  ASSUME NEW mods, NEW reqs, NEW fin, NEW exe, NEW act, NEW til,
         Inv(mods, reqs, fin, exe, act, til),
         reqs # <<>>, CheckFinish(Head(reqs), fin),
         NEW mods2 \in {mods, mods \union {Head(reqs)}}
  PROVE  Inv(mods2, Tail(reqs), fin, exe, act, til)
<1> USE DEF Inv
<1>1. /\ reqs \in Seq(Model)
      /\ Head(reqs) \in Model
      /\ Head(reqs) = reqs[1]
      /\ Len(reqs) \in Nat \ {0}
      /\ Tail(reqs) \in Seq(Model)
      /\ Len(Tail(reqs)) = Len(reqs) - 1
      /\ \A i \in 1 .. Len(Tail(reqs)) : Tail(reqs)[i] = reqs[i + 1] /\ i + 1 \in 1 .. Len(reqs)
  <2>1. reqs \in Seq(Model) /\ Len(reqs) \in Nat \ {0}
    BY EmptySeq DEF Typed
  <2> QED BY <2>1, HeadTailProperties
<1>2. DOMAIN act = {}
  BY <1>1 DEF Oldest, CheckFinish
<1>3. Typed(mods2, Tail(reqs), fin, exe, act, til)
  BY <1>1 DEF Typed
<1>4. Oldest(Tail(reqs), fin, act)
  BY <1>2 DEF Oldest
<1>5. Queued(mods2, Tail(reqs))
  <2>1. \A i \in 1 .. Len(Tail(reqs)) : Tail(reqs)[i] \notin mods /\ Tail(reqs)[i] # reqs[1]
    BY <1>1 DEF Queued
  <2>2. \A i, j \in 1 .. Len(Tail(reqs)) : Tail(reqs)[i] = Tail(reqs)[j] => i = j
    BY <1>1 DEF Queued
  <2> QED BY <1>1, <2>1, <2>2 DEF Queued
<1>6. Ready(Tail(reqs), fin, exe, act)
  BY <1>1 DEF Ready
<1>7. Closed(mods2, fin, act)
  BY <1>1 DEF Closed, CheckFinish
<1> QED BY <1>3, <1>4, <1>5, <1>6, <1>7

(* The next layer of the oldest request starts.                             *)
LEMMA StartKeepsInv ==
  ASSUME NEW mods, NEW reqs, NEW fin, NEW exe, NEW act, NEW til,
         Inv(mods, reqs, fin, exe, act, til),
         MayStart(reqs, act, til),
         exe[Head(reqs)] # <<>>,
         StartLayer(Head(exe[Head(reqs)]), [exe EXCEPT ![Head(reqs)] = Tail(exe[Head(reqs)])], act, til)
  PROVE  /\ Inv(mods, reqs, fin, executable', active', tile')
         /\ DOMAIN active' = DOMAIN act \union {Head(exe[Head(reqs)])}
         /\ Head(exe[Head(reqs)]) \notin fin \union DOMAIN act
         /\ Producers(Head(exe[Head(reqs)])) \subseteq fin
<1> USE DEF Inv
<1>0. PICK m : m = Head(reqs)
  OBVIOUS
<1> DEFINE l == Head(exe[m])
           til1 == [t \in Tile |-> IF t[1] = l THEN "exec" ELSE til[t]]
<1>1. reqs \in Seq(Model) /\ reqs # <<>> /\ m \in Model /\ Len(reqs) \in Nat \ {0} /\ m = reqs[1]
  BY <1>0, EmptySeq DEF Typed, MayStart
<1>2. /\ l \in Layer /\ l \in Owns(m) /\ l \notin fin \union DOMAIN act /\ Producers(l) \subseteq fin
      /\ Tail(exe[m]) \in Seq(Layer) /\ CanStart(Tail(exe[m]), m, fin, DOMAIN act \union {l})
  <2>1. CanStart(exe[m], m, fin, DOMAIN act)
    <3>1. 1 \in 1 .. Len(reqs)
      BY <1>1
    <3> QED BY <1>1, <3>1 DEF Ready
  <2>2. exe[m] # <<>>
    BY <1>0
  <2> QED BY <2>1, <2>2, FirstStarts
<1>3. /\ DOMAIN act = {}
      /\ \A t \in Tile : til[t] \notin {"exec", "core"}
  BY DEF MayStart, TileQueueEmpty
<1>4. l \in Owns(m) /\ l \notin fin \union DOMAIN act /\ Producers(l) \subseteq fin
  BY <1>2
<1>5. /\ executable' = [exe EXCEPT ![m] = Tail(exe[m])]
      /\ DOMAIN active' = {l}
      /\ active' = [k \in {l} |-> [remain |-> Len(TilesOf[l]), finished |-> 0, launched |-> 0]]
      /\ tile' \in [Tile -> Where]
      /\ \A t \in Tile : tile'[t] = til1[t] \/ (til1[t] = "exec" /\ tile'[t] = "core")
  <2>1. /\ executable' = [exe EXCEPT ![m] = Tail(exe[m])]
        /\ active' = [k \in DOMAIN act \union {l} |->
                        IF k = l THEN [remain |-> Len(TilesOf[l]), finished |-> 0, launched |-> 0]
                                 ELSE act[k]]
        /\ tile' = [t \in Tile |-> IF t \in UpToBarrier(TilesIn(l)) THEN "core" ELSE til1[t]]
    BY <1>0 DEF StartLayer, IssueTiles
  <2>2. \A t \in UpToBarrier(TilesIn(l)) : t \in Tile /\ t[1] = l
    BY <1>2, TilesFinite DEF UpToBarrier, TilesIn
  <2>3. til1 \in [Tile -> Where]
    BY DEF Typed, Where
  <2>4. tile' \in [Tile -> Where]
    BY <2>1, <2>3 DEF Where
  <2>5. \A t \in Tile : tile'[t] = til1[t] \/ (til1[t] = "exec" /\ tile'[t] = "core")
    BY <2>1, <2>2
  <2>6. active' = [k \in {l} |-> [remain |-> Len(TilesOf[l]), finished |-> 0, launched |-> 0]]
    BY <2>1, <1>3
  <2> QED BY <2>1, <2>4, <2>5, <2>6
<1>6. Typed(mods, reqs, fin, executable', active', tile')
  <2>1. executable' \in [Model -> Seq(Layer)]
    BY <1>1, <1>2, <1>5 DEF Typed
  <2>2. active' \in [DOMAIN active' -> LayerStat] /\ DOMAIN active' \subseteq Layer
    BY <1>2, <1>5, TilesFinite DEF LayerStat
  <2> QED BY <2>1, <2>2, <1>5 DEF Typed
<1>7. Accounted(active', tile')
  <2>1. til1 \in [Tile -> Where]
    BY DEF Typed, Where
  <2>2. \A t \in TilesIn(l) : t \in Tile /\ til1[t] = "exec"
    BY <1>2, TilesFinite DEF TilesIn
  <2>3. Accounted(active', til1)
    <3>1. Count(l, til1, Where \ {"done"}) = Len(TilesOf[l])
      <4>1. \A t \in TilesIn(l) : til1[t] \in Where \ {"done"}
        BY <2>2 DEF Where
      <4> HIDE DEF til1
      <4> QED BY <1>2, <4>1, CountAll
    <3>2. Count(l, til1, {"done"}) = 0
      <4>1. \A t \in TilesIn(l) : til1[t] \notin {"done"}
        BY <2>2
      <4> HIDE DEF til1
      <4> QED BY <1>2, <4>1, CountNone
    <3>3. Count(l, til1, {"running", "finished", "done"}) = 0
      <4>1. \A t \in TilesIn(l) : til1[t] \notin {"running", "finished", "done"}
        BY <2>2
      <4> HIDE DEF til1
      <4> QED BY <1>2, <4>1, CountNone
    <3>4. \A t \in Tile : til1[t] \in {"exec", "core", "running", "finished"} => t[1] \in DOMAIN active'
      BY <1>3, <1>5 DEF Accounted
    <3> QED BY <3>1, <3>2, <3>3, <3>4, <1>5 DEF Accounted
  <2> QED BY <2>1, <2>3, <1>2, <1>5, IssueKeepsAccount
<1>8. Oldest(reqs, fin, active')
  BY <1>1, <1>4, <1>5 DEF Oldest
<1>9. Ready(reqs, fin, executable', active')
  <2> SUFFICES ASSUME NEW i \in 1 .. Len(reqs)
               PROVE  CanStart(executable'[reqs[i]], reqs[i], fin, {l})
    BY <1>5 DEF Ready
  <2>1. PICK n \in Model : n = reqs[i]
    BY <1>1, ElementOfSeq
  <2>2. exe \in [Model -> Seq(Layer)] /\ DOMAIN act \union {l} = {l}
    BY <1>3 DEF Typed
  <2> HIDE DEF l
  <2>3. CASE n = m
    BY <1>2, <1>5, <2>1, <2>2, <2>3
  <2>4. CASE n # m
    <3>1. executable'[n] = exe[n] /\ l \notin Owns(n)
      BY <1>1, <1>4, <1>5, <2>2, <2>4, GraphAssumption
    <3>2. CanStart(exe[n], n, fin, DOMAIN act)
      BY <2>1 DEF Ready
    <3> QED BY <1>3, <2>1, <3>1, <3>2, StillStarts
  <2> QED BY <2>3, <2>4
<1>10. Closed(mods, fin, active')
  <2>1. \A n \in mods : n \in Model /\ n # m
    <3>1. 1 \in 1 .. Len(reqs)
      BY <1>1
    <3>2. m \notin mods
      BY <1>1, <3>1 DEF Queued
    <3> QED BY <3>2 DEF Typed
  <2>2. \A n \in mods : l \notin Owns(n)
    BY <2>1, <1>1, <1>4, GraphAssumption
  <2> QED BY <2>2, <1>3, <1>4, <1>5 DEF Closed
<1> QED BY <1>0, <1>3, <1>4, <1>5, <1>6, <1>7, <1>8, <1>9, <1>10

(* The layers S that start had not, and have their inputs.                  *)
Starts(fin, act, S) ==
  /\ finished' = fin
  /\ DOMAIN active' = DOMAIN act \union S
  /\ \A l \in S : l \in Layer /\ l \notin fin \union DOMAIN act /\ Producers(l) \subseteq fin

LEMMA RefreshKeepsInv ==
  ASSUME NEW mods, NEW reqs, NEW fin, NEW exe, NEW act, NEW til,
         Inv(mods, reqs, fin, exe, act, til),
         RefreshStatus(mods, reqs, fin, exe, act, til)
  PROVE  IInv' /\ \E S : Starts(fin, act, S)
<1> DEFINE over == reqs # <<>> /\ CheckFinish(Head(reqs), fin)
<1>1. PICK rest : rest = IF over THEN Tail(reqs) ELSE reqs
  OBVIOUS
<1>2. requests' = rest /\ finished' = fin
  BY <1>1 DEF RefreshStatus
<1>3. Inv(models', rest, fin, exe, act, til)
  <2>1. CASE over
    <3>1. models' = mods \/ models' = mods \union {Head(reqs)}
      BY DEF RefreshStatus
    <3>2. reqs # <<>> /\ CheckFinish(Head(reqs), fin)
      BY <2>1
    <3>3. Inv(mods, Tail(reqs), fin, exe, act, til) /\ Inv(mods \union {Head(reqs)}, Tail(reqs), fin, exe, act, til)
      BY <3>2, PopKeepsInv
    <3> QED BY <2>1, <1>1, <3>1, <3>3
  <2>2. CASE ~over
    <3>1. models' = mods
      BY <2>2 DEF RefreshStatus
    <3> QED BY <2>2, <1>1, <3>1
  <2> QED BY <2>1, <2>2
<1>4. CASE MayStart(rest, act, til) /\ exe[Head(rest)] # <<>>
  <2>1. StartLayer(Head(exe[Head(rest)]), [exe EXCEPT ![Head(rest)] = Tail(exe[Head(rest)])], act, til)
    BY <1>1, <1>4 DEF RefreshStatus
  <2>2. /\ Inv(models', rest, fin, executable', active', tile')
        /\ DOMAIN active' = DOMAIN act \union {Head(exe[Head(rest)])}
        /\ Head(exe[Head(rest)]) \notin fin \union DOMAIN act
        /\ Producers(Head(exe[Head(rest)])) \subseteq fin
    BY <1>3, <1>4, <2>1, StartKeepsInv
  <2>3. PICK l : l = Head(exe[Head(rest)])
    OBVIOUS
  <2>4. DOMAIN active' = DOMAIN act \union {l} /\ l \notin fin \union DOMAIN act /\ Producers(l) \subseteq fin
    BY <2>2, <2>3
  <2>5. l \in Layer
    BY <2>2, <2>4 DEF Inv, Typed
  <2>6. Starts(fin, act, {l})
    BY <1>2, <2>4, <2>5 DEF Starts
  <2> QED BY <1>2, <2>2, <2>6 DEF IInv
<1>5. CASE ~(MayStart(rest, act, til) /\ exe[Head(rest)] # <<>>)
  <2>1. executable' = exe /\ active' = act /\ tile' = til
    BY <1>1, <1>5 DEF RefreshStatus, StartNoLayer
  <2>2. Starts(fin, act, {})
    BY <1>2, <2>1 DEF Starts
  <2> QED BY <1>2, <1>3, <2>1, <2>2 DEF IInv
<1> QED BY <1>4, <1>5

-----------------------------------------------------------------------------
(* FinishTile.                                                              *)

(* The last tile of a layer: the layer is finished and its children follow. *)
LEMMA LastTileKeepsInv ==
  ASSUME IInv,
         NEW l \in DOMAIN active,
         NEW act, DOMAIN act = DOMAIN active, ~(act[l].remain > 1),
         NEW til \in [Tile -> Where],
         \A t \in Tile : til[t] \notin {"exec", "core", "running", "finished"},
         FinishTile(l, act, til)
  PROVE  IInv' /\ Graph!Next
<1> DEFINE m == Head(requests)
           fin == finished \union {l}
           act2 == [k \in DOMAIN act \ {l} |-> act[k]]
<1>1. /\ Typed(models, requests, finished, executable, active, tile)
      /\ Accounted(active, tile)
      /\ Oldest(requests, finished, active)
      /\ Queued(models, requests)
      /\ Ready(requests, finished, executable, active)
      /\ Closed(models, finished, active)
  BY DEF IInv, Inv
<1>2. /\ l \in Layer /\ l \in Owns(m) /\ l \notin finished
      /\ requests \in Seq(Model) /\ requests # <<>> /\ Len(requests) \in Nat \ {0}
      /\ m = requests[1] /\ m \in Model
  <2>1. l \in Layer /\ l \in Owns(m) /\ l \notin finished /\ requests \in Seq(Model) /\ requests # <<>>
    BY <1>1 DEF Typed, Oldest
  <2>2. Len(requests) \in Nat \ {0} /\ Head(requests) = requests[1] /\ Head(requests) \in Model
    BY <2>1, EmptySeq, HeadTailProperties
  <2> QED BY <2>1, <2>2
<1>3. DOMAIN active = {l} /\ DOMAIN act2 = {}
  BY <1>1 DEF Oldest
<1>4. PICK new \in InOrder(NewlyExecutable(l, fin, executable[m]), ChildNodes[l]) :
             RefreshStatus(models, requests, fin, [executable EXCEPT ![m] = @ \o new], act2, til)
  BY DEF FinishTile
<1> DEFINE exe == [executable EXCEPT ![m] = @ \o new]
<1>5. CanStart(executable[m] \o new, m, fin, DOMAIN act2)
  <2>1. CanStart(executable[m], m, finished, DOMAIN active)
    <3>1. 1 \in 1 .. Len(requests)
      BY <1>2
    <3> QED BY <1>1, <1>2, <3>1 DEF Ready
  <2>2. \A k \in finished \union DOMAIN active : Producers(k) \subseteq finished
    BY <1>1 DEF Closed
  <2>3. PICK list : list = executable[m]
    OBVIOUS
  <2>4. CanStart(list \o new, m, finished \union {l}, DOMAIN active \ {l})
    <3> HIDE DEF m
    <3> QED BY <1>2, <2>1, <2>2, <2>3, ChildrenFollow
  <2> QED BY <1>3, <2>3, <2>4
<1>9. /\ executable \in [Model -> Seq(Layer)]
      /\ exe \in [Model -> Seq(Layer)]
      /\ exe[m] = executable[m] \o new
      /\ \A n \in Model \ {m} : exe[n] = executable[n]
  <2>1. executable[m] \o new \in Seq(Layer)
    BY <1>5 DEF CanStart
  <2> QED BY <1>1, <1>2, <2>1 DEF Typed
<1>10. Typed(models, requests, fin, exe, act2, til)
  <2>1. act2 \in [DOMAIN act2 -> LayerStat]
    BY <1>3
  <2>2. exe \in [Model -> Seq(Layer)]
    BY <1>9
  <2> QED BY <1>1, <1>2, <1>3, <2>1, <2>2 DEF Typed
<1>11. Accounted(act2, til)
  BY <1>3 DEF Accounted
<1>12. Oldest(requests, fin, act2)
  BY <1>3 DEF Oldest
<1>13. Ready(requests, fin, exe, act2)
  <2> SUFFICES ASSUME NEW i \in 1 .. Len(requests)
               PROVE  CanStart(exe[requests[i]], requests[i], fin, DOMAIN act2)
    BY DEF Ready
  <2>1. PICK n \in Model : n = requests[i]
    BY <1>2, ElementOfSeq
  <2>2. CASE n = m
    <3> HIDE DEF exe, act2, fin, m
    <3> QED BY <1>5, <1>9, <2>1, <2>2
  <2>3. CASE n # m
    <3>1. exe[n] = executable[n] /\ l \notin Owns(n)
      BY <1>2, <1>9, <2>3, GraphAssumption
    <3>2. CanStart(executable[n], n, finished, DOMAIN active)
      BY <1>1, <2>1 DEF Ready
    <3>3. CanStart(executable[n], n, fin, DOMAIN act2)
      <4> HIDE DEF act2
      <4> QED BY <1>3, <3>1, <3>2, StillStarts
    <3> HIDE DEF exe, act2, fin
    <3> QED BY <2>1, <3>1, <3>3
  <2> QED BY <2>2, <2>3
<1>14. Closed(models, fin, act2)
  <2>1. Producers(l) \subseteq finished
    BY <1>1 DEF Closed
  <2>2. \A n \in models : l \notin Owns(n)
    <3>1. \A n \in models : n \in Model /\ n # m
      <4>1. 1 \in 1 .. Len(requests)
        BY <1>2
      <4> QED BY <1>1, <1>2, <4>1 DEF Typed, Queued
    <3> QED BY <1>2, <3>1, GraphAssumption
  <2> QED BY <1>1, <1>3, <2>1, <2>2 DEF Closed
<1>15. Inv(models, requests, fin, exe, act2, til)
  <2> HIDE DEF exe, act2, fin
  <2> QED BY <1>1, <1>10, <1>11, <1>12, <1>13, <1>14 DEF Inv
<1>16. IInv' /\ \E S : Starts(fin, act2, S)
  <2> HIDE DEF fin, act2
  <2> QED BY <1>4, <1>15, RefreshKeepsInv
<1>17. PICK S : Starts(fin, act2, S)
  BY <1>16
<1>18. Graph!Advance({l}, {}, S)
  BY <1>2, <1>3, <1>17 DEF Graph!Advance, Starts
<1>19. Graph!Next
  BY <1>17, <1>18 DEF Graph!Next, Starts
<1> QED BY <1>16, <1>19

-----------------------------------------------------------------------------
(* The actions.                                                             *)

LEMMA InitInv == Init => IInv
<1> SUFFICES ASSUME Init PROVE IInv
  OBVIOUS
<1> USE DEF Init, DispatchInit
<1>1. Typed(models, requests, finished, executable, active, tile)
  <2>1. <<>> \in Seq(Model) /\ <<>> \in Seq(Layer) /\ DOMAIN active = {}
    OBVIOUS
  <2>2. executable \in [Model -> Seq(Layer)]
    BY <2>1
  <2>3. tile \in [Tile -> Where]
    BY DEF Where
  <2>4. active \in [DOMAIN active -> LayerStat]
    BY <2>1
  <2>5. models \subseteq Model
    BY DispatchAssumption
  <2> QED BY <2>1, <2>2, <2>3, <2>4, <2>5 DEF Typed
<1>2. Accounted(active, tile)
  BY DEF Accounted
<1>3. Oldest(requests, finished, active) /\ Queued(models, requests)
  BY DEF Oldest, Queued
<1>4. Ready(requests, finished, executable, active) /\ Closed(models, finished, active)
  BY DEF Ready, Closed
<1> QED BY <1>1, <1>2, <1>3, <1>4 DEF IInv, Inv

LEMMA ScheduleModelInv ==
  ASSUME IInv, NEW m \in Model, ScheduleModel(m)
  PROVE  IInv' /\ Graph!Next
<1>1. /\ Typed(models, requests, finished, executable, active, tile)
      /\ Accounted(active, tile)
      /\ Oldest(requests, finished, active)
      /\ Queued(models, requests)
      /\ Ready(requests, finished, executable, active)
      /\ Closed(models, finished, active)
  BY DEF IInv, Inv
<1>2. m \in models
  BY DEF ScheduleModel
<1>3. PICK roots \in InOrder(Roots(m), LayersOf[m]) :
        RefreshStatus(models \ {m}, Append(requests, m), finished \ Owns(m),
                      [executable EXCEPT ![m] = roots], active, tile)
  BY DEF ScheduleModel
<1> DEFINE reqs == Append(requests, m)
           fin == finished \ Owns(m)
           exe == [executable EXCEPT ![m] = roots]
<1>4. /\ requests \in Seq(Model) /\ Len(requests) \in Nat
      /\ reqs \in Seq(Model) /\ Len(reqs) = Len(requests) + 1
      /\ \A i \in 1 .. Len(reqs) :
           \/ i \in 1 .. Len(requests) /\ reqs[i] = requests[i] /\ requests[i] # m /\ requests[i] \in Model
           \/ i = Len(reqs) /\ reqs[i] = m
      /\ reqs # <<>>
      /\ requests # <<>> => Head(reqs) = Head(requests)
  <2>1. requests \in Seq(Model) /\ Len(requests) \in Nat
    BY <1>1, LenProperties DEF Typed
  <2>2. /\ reqs \in Seq(Model) /\ Len(reqs) = Len(requests) + 1
        /\ \A i \in 1 .. Len(requests) : reqs[i] = requests[i]
        /\ reqs[Len(requests) + 1] = m
    BY <2>1, AppendProperties
  <2>3. \A i \in 1 .. Len(requests) : requests[i] # m /\ requests[i] \in Model
    BY <1>1, <1>2, <2>1, ElementOfSeq DEF Queued
  <2>4. reqs # <<>> /\ Head(reqs) = reqs[1]
    BY <2>1, <2>2, HeadTailProperties, EmptySeq
  <2>5. requests # <<>> => Head(requests) = requests[1] /\ 1 \in 1 .. Len(requests)
    BY <2>1, HeadTailProperties, EmptySeq
  <2> HIDE DEF reqs
  <2> QED BY <2>1, <2>2, <2>3, <2>4, <2>5
<1>5. Owns(m) \cap DOMAIN active = {}
  BY <1>1, <1>2 DEF Closed, Oldest
<1>6. /\ roots \in Seq(Layer) /\ Distinct(roots)
      /\ \A i \in 1 .. Len(roots) : roots[i] \in Owns(m) /\ Producers(roots[i]) = {}
  BY RootsReady
<1>7. /\ executable \in [Model -> Seq(Layer)]
      /\ exe \in [Model -> Seq(Layer)]
      /\ exe[m] = roots
      /\ \A n \in Model \ {m} : exe[n] = executable[n]
  BY <1>1, <1>6 DEF Typed
<1>8. \A n \in Model : \A l \in Owns(n) : n # m => Producers(l) \cap Owns(m) = {} /\ l \notin Owns(m)
  <2> TAKE n \in Model
  <2> TAKE l \in Owns(n)
  <2>1. Producers(l) \subseteq Owns(n)
    BY ProducersOwned
  <2> QED BY <2>1, GraphAssumption
<1>9. Typed(models \ {m}, reqs, fin, exe, active, tile)
  <2> HIDE DEF reqs, exe
  <2> QED BY <1>1, <1>4, <1>7 DEF Typed
<1>10. Oldest(reqs, fin, active)
  <2> HIDE DEF reqs, exe
  <2> QED BY <1>1, <1>4 DEF Oldest
<1>11. Queued(models \ {m}, reqs)
  <2>1. \A i \in 1 .. Len(reqs) : reqs[i] \notin models \ {m}
    <3> HIDE DEF reqs
    <3> QED BY <1>1, <1>4 DEF Queued
  <2>2. \A i, j \in 1 .. Len(reqs) : reqs[i] = reqs[j] => i = j
    <3> HIDE DEF reqs
    <3> TAKE i, j \in 1 .. Len(reqs)
    <3> QED BY <1>1, <1>4 DEF Queued
  <2> QED BY <2>1, <2>2 DEF Queued
<1>12. Ready(reqs, fin, exe, active)
  <2> SUFFICES ASSUME NEW i \in 1 .. Len(reqs)
               PROVE  CanStart(exe[reqs[i]], reqs[i], fin, DOMAIN active)
    BY DEF Ready
  <2>1. CASE i \in 1 .. Len(requests) /\ reqs[i] = requests[i] /\ requests[i] # m /\ requests[i] \in Model
    <3>1. PICK n \in Model : n = requests[i]
      BY <2>1
    <3>2. n # m /\ exe[n] = executable[n] /\ reqs[i] = n
      BY <1>7, <2>1, <3>1
    <3>3. CanStart(executable[n], n, finished, DOMAIN active)
      BY <1>1, <2>1, <3>1 DEF Ready
    <3>4. Owns(n) \cap Owns(m) = {}
      BY <3>2, GraphAssumption
    <3>5. CanStart(executable[n], n, fin, DOMAIN active)
      BY <3>3, <3>4, StillStarts
    <3> HIDE DEF reqs, exe, fin
    <3> QED BY <3>2, <3>5
  <2>2. CASE reqs[i] = m
    <3>1. CanStart(roots, m, fin, DOMAIN active)
      BY <1>5, <1>6 DEF CanStart
    <3> HIDE DEF reqs, exe, fin
    <3> QED BY <1>7, <2>2, <3>1
  <2> QED BY <1>4, <2>1, <2>2
<1>13. Closed(models \ {m}, fin, active)
  <2>1. \A l \in fin \union DOMAIN active : Producers(l) \subseteq fin
    <3> TAKE l \in fin \union DOMAIN active
    <3>1. l \in Layer /\ l \notin Owns(m) /\ Producers(l) \subseteq finished
      BY <1>1, <1>5 DEF Typed, Closed
    <3>2. PICK n \in Model : l \in Owns(n)
      BY <3>1, GraphAssumption
    <3> QED BY <1>8, <3>1, <3>2
  <2>2. \A n \in models \ {m} : Owns(n) \subseteq fin \/ Owns(n) \cap (fin \union DOMAIN active) = {}
    <3> TAKE n \in models \ {m}
    <3>1. n \in Model /\ Owns(n) \cap Owns(m) = {}
      BY <1>1, GraphAssumption DEF Typed
    <3> QED BY <1>1, <3>1 DEF Closed
  <2> QED BY <2>1, <2>2 DEF Closed
<1>14. Inv(models \ {m}, reqs, fin, exe, active, tile)
  <2> HIDE DEF reqs, fin, exe
  <2> QED BY <1>1, <1>9, <1>10, <1>11, <1>12, <1>13 DEF Inv
<1>15. RefreshStatus(models \ {m}, reqs, fin, exe, active, tile)
  BY <1>3
<1>16. IInv' /\ \E S : Starts(fin, active, S)
  <2> HIDE DEF reqs, fin, exe
  <2> QED BY <1>14, <1>15, RefreshKeepsInv
<1>17. PICK S : Starts(fin, active, S)
  BY <1>16
<1>18. Graph!Advance({}, {m}, S)
  BY <1>1, <1>2, <1>17 DEF Graph!Advance, Starts, Closed
<1>19. Graph!Next
  BY <1>17, <1>18 DEF Graph!Next, Starts
<1> QED BY <1>16, <1>19

(* When the last tile of the active layer is done, all tiles are.           *)
LEMMA LastOne ==
  ASSUME IInv, NEW t \in Tile, t[1] \in DOMAIN active,
         tile[t] \in {"exec", "core", "running", "finished"},
         ~(active[t[1]].remain > 1),
         NEW til, \A u \in Tile : til[u] = IF u = t THEN "done" ELSE tile[u]
  PROVE  \A u \in Tile : til[u] \notin {"exec", "core", "running", "finished"}
<1> DEFINE l == t[1]
           W == Where \ {"done"}
<1>1. /\ Typed(models, requests, finished, executable, active, tile)
      /\ Accounted(active, tile)
      /\ Oldest(requests, finished, active)
  BY DEF IInv, Inv
<1>2. l \in Layer /\ active[l] \in LayerStat /\ active[l].remain = Count(l, tile, W)
  BY <1>1 DEF Typed, Accounted
<1>4. Count(l, til, W) = 0
  <2>1. t \in TilesIn(l)
    BY DEF Tile, TilesIn
  <2>2. \A u \in TilesIn(l) : til[u] = IF u = t THEN "done" ELSE tile[u]
    BY <1>2, TilesFinite
  <2>3. Count(l, til, W) = Moved(Count(l, tile, W), W, tile[t], "done")
    <3> HIDE DEF l, W
    <3> QED BY <1>2, <2>1, <2>2, CountMove
  <2>4. Count(l, til, W) = active[l].remain - 1
    BY <1>2, <2>3 DEF Moved, Where
  <2>5. Count(l, til, W) \in Nat
    <3> HIDE DEF l, W
    <3> QED BY <1>2, CountType
  <2>6. active[l].remain \in Nat
    BY <1>2 DEF LayerStat
  <2> QED BY <2>4, <2>5, <2>6
<1>5. ASSUME NEW u \in Tile, til[u] \in {"exec", "core", "running", "finished"}
      PROVE  FALSE
  <2>1. u[1] = l
    <3>1. u = t \/ til[u] = tile[u]
      OBVIOUS
    <3> QED BY <1>1, <1>5, <3>1 DEF Accounted, Oldest
  <2>2. u \in TilesIn(l)
    BY <2>1 DEF Tile, TilesIn
  <2>3. til[u] \in W
    BY <1>5 DEF Where
  <2> HIDE DEF l, W
  <2> QED BY <1>2, <1>4, <2>2, <2>3, CountZero
<1> QED BY <1>5

LEMMA PopFinishedTileInv ==
  ASSUME IInv, NEW t \in Tile, PopFinishedTile(t)
  PROVE  IInv' /\ [Graph!Next]_(Graph!vars)
<1> DEFINE l == t[1]
           til == [tile EXCEPT ![t] = "done"]
           act == [active EXCEPT ![l].remain = @ - 1, ![l].finished = @ + 1]
<1>1. /\ Typed(models, requests, finished, executable, active, tile)
      /\ Accounted(active, tile)
      /\ Oldest(requests, finished, active)
      /\ Queued(models, requests)
      /\ Ready(requests, finished, executable, active)
      /\ Closed(models, finished, active)
  BY DEF IInv, Inv
<1>2. tile[t] = "finished" /\ FinishTile(l, active, til)
  BY DEF PopFinishedTile
<1>3. l \in DOMAIN active /\ l \in Layer /\ active[l] \in LayerStat
  BY <1>1, <1>2 DEF Accounted, Typed
<1>4. DOMAIN act = DOMAIN active /\ til \in [Tile -> Where]
  BY <1>1 DEF Typed, Where
<1>5. /\ \A k \in DOMAIN active : k # l => act[k] = active[k]
      /\ act[l].remain = active[l].remain - 1
      /\ act[l].finished = active[l].finished + 1
      /\ act[l].launched = active[l].launched
  BY <1>1, <1>3 DEF Typed, LayerStat
<1>6. Accounted(act, til)
  <2>1. /\ act[l].remain = Moved(active[l].remain, Where \ {"done"}, tile[t], "done")
        /\ act[l].finished = Moved(active[l].finished, {"done"}, tile[t], "done")
        /\ act[l].launched = Moved(active[l].launched, {"running", "finished", "done"}, tile[t], "done")
    BY <1>2, <1>5 DEF Moved, Where
  <2>2. "done" \in Where
    BY DEF Where
  <2> HIDE DEF act
  <2> QED BY <1>1, <1>3, <1>4, <1>5, <2>1, <2>2, MoveKeepsAccount DEF Typed
<1>7. \A k \in DOMAIN act : act[k] \in LayerStat
  <2>1. act[l] \in LayerStat
    <3>1. active[l].remain - 1 \in Nat
      <4>1. Count(l, til, Where \ {"done"}) \in Nat
        BY <1>3, CountType
      <4>2. act[l].remain = Count(l, til, Where \ {"done"})
        <5> HIDE DEF act, til
        <5> QED BY <1>3, <1>4, <1>6 DEF Accounted
      <4> QED BY <1>5, <4>1, <4>2
    <3>2. act[l] = [remain |-> active[l].remain - 1, finished |-> active[l].finished + 1,
                    launched |-> active[l].launched]
      BY <1>1, <1>3 DEF Typed, LayerStat
    <3>3. active[l].finished + 1 \in Nat /\ active[l].launched \in Nat
      BY <1>3 DEF LayerStat
    <3> HIDE DEF act
    <3> QED BY <3>1, <3>2, <3>3 DEF LayerStat
  <2> QED BY <1>1, <1>5, <2>1 DEF Typed
<1>8. CASE active[l].remain > 1
  <2>1. RefreshStatus(models, requests, finished, executable, act, til)
    BY <1>2, <1>8 DEF FinishTile
  <2>2. act \in [DOMAIN act -> LayerStat]
    BY <1>7
  <2> HIDE DEF act, til
  <2>3. Typed(models, requests, finished, executable, act, til)
    BY <1>1, <1>4, <2>2 DEF Typed
  <2>4. Oldest(requests, finished, act) /\ Ready(requests, finished, executable, act) /\ Closed(models, finished, act)
    BY <1>1, <1>4 DEF Oldest, Ready, Closed
  <2>5. Inv(models, requests, finished, executable, act, til)
    BY <1>1, <1>6, <2>3, <2>4 DEF Inv
  <2>6. IInv' /\ \E S : Starts(finished, act, S)
    BY <2>1, <2>5, RefreshKeepsInv
  <2>7. PICK S : Starts(finished, act, S)
    BY <2>6
  <2>8. Graph!Advance({}, {}, S)
    BY <1>4, <2>7 DEF Graph!Advance, Starts
  <2>9. Graph!Next
    BY <2>7, <2>8 DEF Graph!Next, Starts
  <2> QED BY <2>6, <2>9
<1>9. CASE ~(active[l].remain > 1)
  <2>1. \A u \in Tile : til[u] = IF u = t THEN "done" ELSE tile[u]
    BY <1>1 DEF Typed
  <2>2. \A u \in Tile : til[u] \notin {"exec", "core", "running", "finished"}
    <3> HIDE DEF til
    <3> QED BY <1>2, <1>3, <1>9, <2>1, LastOne
  <2> HIDE DEF til, l
  <2> QED BY <1>2, <1>3, <1>4, <1>9, <2>1, <2>2, LastTileKeepsInv
<1> QED BY <1>8, <1>9

LEMMA GetTileFromCoreQueueInv ==
  ASSUME IInv, NEW t \in Tile, GetTileFromCoreQueue(t)
  PROVE  IInv' /\ UNCHANGED Graph!vars
<1> DEFINE l == t[1]
<1>1. /\ Typed(models, requests, finished, executable, active, tile)
      /\ Accounted(active, tile)
      /\ Oldest(requests, finished, active)
      /\ Queued(models, requests)
      /\ Ready(requests, finished, executable, active)
      /\ Closed(models, finished, active)
  BY DEF IInv, Inv
<1>2. PICK w \in {"running", "finished"} : tile' = [tile EXCEPT ![t] = w]
  BY DEF GetTileFromCoreQueue
<1>3. /\ tile[t] = "core"
      /\ active' = [active EXCEPT ![l].launched = @ + 1]
      /\ UNCHANGED <<models, requests, finished, executable>>
  BY DEF GetTileFromCoreQueue, Front, CoreQueue
<1>4. l \in DOMAIN active /\ active[l] \in LayerStat /\ w \in Where
  BY <1>1, <1>2, <1>3 DEF Accounted, Typed, Where
<1>5. /\ DOMAIN active' = DOMAIN active
      /\ \A k \in DOMAIN active : k # l => active'[k] = active[k]
      /\ active'[l] = [remain |-> active[l].remain, finished |-> active[l].finished,
                       launched |-> active[l].launched + 1]
  BY <1>1, <1>3, <1>4 DEF Typed, LayerStat
<1>6. Accounted(active', tile')
  <2>1. /\ active'[l].remain = Moved(active[l].remain, Where \ {"done"}, tile[t], w)
        /\ active'[l].finished = Moved(active[l].finished, {"done"}, tile[t], w)
        /\ active'[l].launched = Moved(active[l].launched, {"running", "finished", "done"}, tile[t], w)
    BY <1>2, <1>3, <1>5 DEF Moved, Where
  <2>2. PICK act2 : act2 = active'
    OBVIOUS
  <2>3. Accounted(act2, [tile EXCEPT ![t] = w])
    BY <1>1, <1>4, <1>5, <2>1, <2>2, MoveKeepsAccount DEF Typed
  <2> QED BY <1>2, <2>2, <2>3
<1>7. Typed(models', requests', finished', executable', active', tile')
  <2>1. active'[l] \in LayerStat
    BY <1>4, <1>5 DEF LayerStat
  <2>2. active' \in [DOMAIN active' -> LayerStat]
    <3>1. active' = [k \in DOMAIN active |-> active'[k]]
      BY <1>3
    <3> QED BY <1>1, <1>5, <2>1, <3>1 DEF Typed
  <2>3. tile' \in [Tile -> Where]
    BY <1>1, <1>2, <1>4 DEF Typed
  <2> QED BY <1>1, <1>3, <1>5, <2>2, <2>3 DEF Typed
<1>8. Oldest(requests', finished', active') /\ Queued(models', requests')
      /\ Ready(requests', finished', executable', active') /\ Closed(models', finished', active')
  BY <1>1, <1>3, <1>5 DEF Oldest, Queued, Ready, Closed
<1>9. UNCHANGED Graph!vars
  BY <1>3, <1>5 DEF Graph!vars
<1> QED BY <1>6, <1>7, <1>8, <1>9 DEF IInv, Inv

LEMMA CoreFinishesInv ==
  ASSUME IInv, NEW t \in Tile, CoreFinishes(t)
  PROVE  IInv' /\ UNCHANGED Graph!vars
<1>1. /\ Typed(models, requests, finished, executable, active, tile)
      /\ Accounted(active, tile)
  BY DEF IInv, Inv
<1>2. /\ tile[t] = "running" /\ tile' = [tile EXCEPT ![t] = "finished"]
      /\ UNCHANGED <<models, requests, finished, executable, active>>
  BY DEF CoreFinishes
<1>3. t[1] \in DOMAIN active /\ "finished" \in Where
  BY <1>1, <1>2 DEF Accounted, Where
<1>4. Accounted(active, [tile EXCEPT ![t] = "finished"])
  <2>1. /\ active[t[1]].remain = Moved(active[t[1]].remain, Where \ {"done"}, tile[t], "finished")
        /\ active[t[1]].finished = Moved(active[t[1]].finished, {"done"}, tile[t], "finished")
        /\ active[t[1]].launched = Moved(active[t[1]].launched, {"running", "finished", "done"}, tile[t], "finished")
    BY <1>2 DEF Moved, Where
  <2> QED BY <1>1, <1>3, <2>1, MoveKeepsAccount DEF Typed
<1>5. tile' \in [Tile -> Where]
  BY <1>1, <1>2, <1>3 DEF Typed
<1>6. UNCHANGED Graph!vars
  BY <1>2 DEF Graph!vars
<1> QED BY <1>1, <1>2, <1>4, <1>5, <1>6 DEF IInv, Inv, Typed

LEMMA GetTileBarrierOpensInv ==
  ASSUME IInv, NEW b \in Tile, GetTileBarrierOpens(b)
  PROVE  IInv' /\ UNCHANGED Graph!vars
<1> DEFINE l == b[1]
<1>1. /\ Typed(models, requests, finished, executable, active, tile)
      /\ Accounted(active, tile)
      /\ Oldest(requests, finished, active)
      /\ Queued(models, requests)
      /\ Ready(requests, finished, executable, active)
      /\ Closed(models, finished, active)
  BY DEF IInv, Inv
<1>2. /\ tile[b] = "exec"
      /\ active[l].remain > 1
      /\ active' = [active EXCEPT ![l].launched = @ + 1, ![l].finished = @ + 1, ![l].remain = @ - 1]
      /\ UNCHANGED <<models, requests, finished, executable>>
  BY DEF GetTileBarrierOpens, AtBarrier, Front, ExecQueue, CountBarrier
<1>3. PICK til : til = [tile EXCEPT ![b] = "done"]
  OBVIOUS
<1>4. \A t \in ExecQueue \ {b} : t \in Tile /\ til[t] = "exec"
  BY <1>1, <1>3 DEF ExecQueue, Typed
<1>5. tile' = [t \in Tile |-> IF t \in UpToBarrier(ExecQueue \ {b}) THEN "core" ELSE til[t]]
  BY <1>3 DEF GetTileBarrierOpens, IssueTiles
<1>6. l \in DOMAIN active /\ active[l] \in LayerStat /\ "done" \in Where
  BY <1>1, <1>2 DEF Accounted, Typed, Where
<1>7. til \in [Tile -> Where] /\ tile' \in [Tile -> Where]
      /\ \A t \in Tile : tile'[t] = til[t] \/ (til[t] = "exec" /\ tile'[t] = "core")
  <2>1. til \in [Tile -> Where]
    BY <1>1, <1>3, <1>6 DEF Typed
  <2>2. \A t \in UpToBarrier(ExecQueue \ {b}) : til[t] = "exec"
    BY <1>4 DEF UpToBarrier
  <2>3. tile' \in [Tile -> Where]
    BY <1>5, <2>1 DEF Where
  <2> QED BY <1>5, <2>1, <2>2, <2>3
<1>8. /\ DOMAIN active' = DOMAIN active
      /\ \A k \in DOMAIN active : k # l => active'[k] = active[k]
      /\ active'[l] = [remain |-> active[l].remain - 1, finished |-> active[l].finished + 1,
                       launched |-> active[l].launched + 1]
  BY <1>1, <1>2, <1>6 DEF Typed, LayerStat
<1>9. Accounted(active', tile')
  <2>1. /\ active'[l].remain = Moved(active[l].remain, Where \ {"done"}, tile[b], "done")
        /\ active'[l].finished = Moved(active[l].finished, {"done"}, tile[b], "done")
        /\ active'[l].launched = Moved(active[l].launched, {"running", "finished", "done"}, tile[b], "done")
    BY <1>2, <1>8 DEF Moved, Where
  <2>2. PICK act2 : act2 = active'
    OBVIOUS
  <2>3. Accounted(act2, [tile EXCEPT ![b] = "done"])
    BY <1>1, <1>6, <1>8, <2>1, <2>2, MoveKeepsAccount DEF Typed
  <2>4. PICK til2 : til2 = tile'
    OBVIOUS
  <2>5. Accounted(act2, til2)
    <3>1. DOMAIN act2 \subseteq Layer
      BY <1>1, <1>8, <2>2 DEF Typed
    <3> QED BY <1>3, <1>7, <2>3, <2>4, <3>1, IssueKeepsAccount
  <2> QED BY <2>2, <2>4, <2>5
<1>10. Typed(models', requests', finished', executable', active', tile')
  <2>1. active'[l] \in LayerStat
    <3>1. active[l].remain - 1 \in Nat /\ active[l].finished + 1 \in Nat /\ active[l].launched + 1 \in Nat
      BY <1>2, <1>6 DEF LayerStat
    <3> QED BY <1>8, <3>1 DEF LayerStat
  <2>2. active' \in [DOMAIN active' -> LayerStat]
    <3>1. active' = [k \in DOMAIN active |-> active'[k]]
      BY <1>2
    <3> QED BY <1>1, <1>8, <2>1, <3>1 DEF Typed
  <2> QED BY <1>1, <1>2, <1>7, <1>8, <2>2 DEF Typed
<1>11. Oldest(requests', finished', active') /\ Queued(models', requests')
      /\ Ready(requests', finished', executable', active') /\ Closed(models', finished', active')
  BY <1>1, <1>2, <1>8 DEF Oldest, Queued, Ready, Closed
<1>12. UNCHANGED Graph!vars
  BY <1>2, <1>8 DEF Graph!vars
<1> QED BY <1>9, <1>10, <1>11, <1>12 DEF IInv, Inv

LEMMA GetTileBarrierIsLastInv ==
  ASSUME IInv, NEW b \in Tile, GetTileBarrierIsLast(b)
  PROVE  IInv' /\ Graph!Next
<1> DEFINE l == b[1]
<1>1. tile[b] = "exec" /\ active[l].remain = 1
  BY DEF GetTileBarrierIsLast, AtBarrier, Front, ExecQueue
<1>2. PICK act : act = [active EXCEPT ![l].launched = @ + 1, ![l].finished = @ + 1]
  OBVIOUS
<1>3. PICK til : til = [tile EXCEPT ![b] = "done"]
  OBVIOUS
<1>4. FinishTile(l, act, til)
  BY <1>2, <1>3 DEF GetTileBarrierIsLast
<1>5. l \in DOMAIN active /\ active[l] \in LayerStat
  BY <1>1 DEF IInv, Inv, Typed, Accounted
<1>6. DOMAIN act = DOMAIN active /\ act[l].remain = 1
  BY <1>1, <1>2, <1>5 DEF LayerStat
<1>7. til \in [Tile -> Where] /\ \A u \in Tile : til[u] \notin {"exec", "core", "running", "finished"}
  <2>1. til \in [Tile -> Where] /\ \A u \in Tile : til[u] = IF u = b THEN "done" ELSE tile[u]
    BY <1>3 DEF IInv, Inv, Typed, Where
  <2> QED BY <1>1, <1>5, <2>1, LastOne
<1>8. ~(act[l].remain > 1)
  BY <1>6
<1> HIDE DEF l
<1> QED BY <1>4, <1>5, <1>6, <1>7, <1>8, LastTileKeepsInv

-----------------------------------------------------------------------------
(* The specification.                                                       *)

LEMMA NextInv ==
  ASSUME IInv, [Next]_vars
  PROVE  IInv' /\ [Graph!Next]_(Graph!vars)
<1>1. ASSUME UNCHANGED <<models, requests, finished, executable, active, tile>>
      PROVE  IInv' /\ UNCHANGED Graph!vars
  BY <1>1 DEF IInv, Graph!vars
<1>2. ASSUME NEW m \in Model, ScheduleModel(m)
      PROVE  IInv' /\ Graph!Next
  BY <1>2, ScheduleModelInv
<1>3. CASE StartCores \/ NoFinishedTile \/ NoGetTile \/ CoreRuns \/ Stopped
  BY <1>1, <1>3 DEF StartCores, NoFinishedTile, NoGetTile, CoreRuns, Stopped, Dispatch, vars
<1>4. CASE GetTileBothEmpty
  <2>1. RefreshStatus(models, requests, finished, executable, active, tile)
    BY <1>4 DEF GetTileBothEmpty
  <2>2. IInv' /\ \E S : Starts(finished, active, S)
    BY <2>1, RefreshKeepsInv DEF IInv
  <2>3. PICK S : Starts(finished, active, S)
    BY <2>2
  <2>4. Graph!Advance({}, {}, S)
    BY <2>3 DEF Graph!Advance, Starts
  <2>5. Graph!Next
    BY <2>3, <2>4 DEF Graph!Next, Starts
  <2> QED BY <2>2, <2>5
<1>5. ASSUME NEW t \in Tile, Step(t)
      PROVE  IInv' /\ [Graph!Next]_(Graph!vars)
  <2>1. CASE PopFinishedTile(t)
    BY <2>1, PopFinishedTileInv
  <2>2. CASE GetTileFromCoreQueue(t)
    BY <2>2, GetTileFromCoreQueueInv
  <2>3. CASE GetTileBarrierHolds(t)
    BY <1>1, <2>3 DEF GetTileBarrierHolds, Dispatch
  <2>4. CASE GetTileBarrierOpens(t)
    BY <2>4, GetTileBarrierOpensInv
  <2>5. CASE GetTileBarrierIsLast(t)
    BY <2>5, GetTileBarrierIsLastInv
  <2>6. CASE CoreFinishes(t)
    BY <2>6, CoreFinishesInv
  <2> QED BY <1>5, <2>1, <2>2, <2>3, <2>4, <2>5, <2>6 DEF Step
<1>6. CASE UNCHANGED vars
  BY <1>1, <1>6 DEF vars
<1> QED BY <1>2, <1>3, <1>4, <1>5, <1>6 DEF Next

(* IInv holds of every state the scheduler reaches.                         *)
THEOREM Invariance == Spec => []IInv
<1>1. IInv /\ [Next]_vars => IInv'
  BY NextInv
<1> QED BY InitInv, <1>1, PTL DEF Spec

(* The counters of an active layer are the numbers of its tiles that remain,*)
(* have finished and were launched, whatever the cores and the graph are:   *)
(* the assertions at the top of Scheduler::finish_tile hold.                *)
THEOREM CountersAreRight == Spec => []LayerAccounting
<1>1. IInv => LayerAccounting
  BY DEF IInv, Inv, Accounted, LayerAccounting
<1> QED BY Invariance, <1>1, PTL

(* At most one layer is active, it is a layer of the request that           *)
(* Scheduler::finish_tile looks it up in, and it has not finished.          *)
THEOREM OneLayerOfOldestRequest == Spec => []OldestRequestOnly
<1>1. IInv => OldestRequestOnly
  BY DEF IInv, Inv, Oldest, OldestRequestOnly
<1> QED BY Invariance, <1>1, PTL

(* The scheduler implements GraphExecution: a layer starts after the layers *)
(* that produce its inputs, at most once a round, and a model is loaded     *)
(* again only between rounds.                                               *)
THEOREM ImplementsGraphExecution == Spec => ExecutesGraph
<1>1. Init => Graph!Init
  BY DEF Init, DispatchInit, Graph!Init
<1>2. IInv /\ [Next]_vars => [Graph!Next]_(Graph!vars)
  BY NextInv
<1> QED BY Invariance, <1>1, <1>2, PTL DEF Spec, ExecutesGraph, Graph!Spec

-----------------------------------------------------------------------------
(* The load of the cores, as long as no model has come back for another     *)
(* round and no barrier has opened.                                         *)

NoBarDone(til) == \A t \in Tile : Bar(t) => til[t] # "done"

(* The tiles that are or were at core c, and what the vector and the heap   *)
(* say of them.                                                             *)
Issued(til, a, c) == {t \in Tile : til[t] \notin {"none", "exec"} /\ a[t] = c /\ ~Bar(t) /\ ~Kind(t).skip}
LoadsMatch(til, a, ld, hp) ==
  \A c \in Core : /\ ld[c] \in Load /\ hp[c] = ld[c]
                  /\ IsFiniteSet(Issued(til, a, c)) /\ ld[c].tiles = Cardinality(Issued(til, a, c))

(* In the first round of every model, nothing of a registered model has     *)
(* finished, and only layers that have started have tiles somewhere.        *)
Fresh(mods, fin, act, til) ==
  /\ \A m \in mods : Owns(m) \cap fin = {}
  /\ \A t \in Tile : til[t] # "none" => t[1] \in fin \union DOMAIN act

FirstRound(mods, fin, act, til, a, ld, hp) ==
  /\ Fresh(mods, fin, act, til)
  /\ NoBarDone(til) => LoadsMatch(til, a, ld, hp)

LoadInv ==
  /\ DOMAIN axes = Model
  /\ axes = FirstAxes => FirstRound(models, finished, active, tile, at, load, heap)

(* Tiles that move from queue to core, run and finish stay counted.         *)
LEMMA MovesKeepLoad ==
  ASSUME NEW mods, NEW fin, NEW act, NEW til, NEW a, NEW ld, NEW hp, NEW act2, NEW til2, NEW fin2,
         FirstRound(mods, fin, act, til, a, ld, hp),
         fin2 \union DOMAIN act2 = fin \union DOMAIN act, \A m \in mods : Owns(m) \cap fin2 = {},
         \A t \in Tile : til2[t] # "none" => til[t] # "none",
         NoBarDone(til2) => /\ NoBarDone(til)
                            /\ \A t \in Tile : til2[t] \in {"none", "exec"} <=> til[t] \in {"none", "exec"}
  PROVE  FirstRound(mods, fin2, act2, til2, a, ld, hp)
<1>1. Fresh(mods, fin2, act2, til2)
  BY DEF FirstRound, Fresh
<1>2. ASSUME NoBarDone(til2) PROVE LoadsMatch(til2, a, ld, hp)
  <2>1. \A c \in Core : Issued(til2, a, c) = Issued(til, a, c)
    BY <1>2 DEF Issued
  <2> QED BY <1>2, <2>1 DEF LoadsMatch, FirstRound
<1> QED BY <1>1, <1>2 DEF FirstRound

(* A layer starts: the tiles up to its first barrier are counted.           *)
LEMMA StartKeepsLoad ==
  ASSUME NEW mods, NEW fin, NEW exe, NEW act, NEW til, NEW l \in Layer, l \notin fin \union DOMAIN act,
         FirstRound(mods, fin, act, til, at, load, heap),
         StartLayer(l, exe, act, til)
  PROVE  FirstRound(mods, fin, active', tile', at', load', heap')
<1> DEFINE til1 == [t \in Tile |-> IF t[1] = l THEN "exec" ELSE til[t]]
           run == UpToBarrier(TilesIn(l))
<1>1. PICK entry \in [run -> Core] :
        /\ tile' = [t \in Tile |-> IF t \in run THEN "core" ELSE til1[t]]
        /\ at' = [t \in Tile |-> IF t \in run THEN [c \in Core |-> c][entry[t]] ELSE at[t]]
        /\ load' = [i \in Cell |-> IF i - 0 \in Core THEN CellLoad(i, Counted(entry, run, i - 0)) ELSE load[i]]
        /\ heap' = [c \in Core |-> HeapLoad(entry, run, 0, c)]
  BY DEF StartLayer, IssueTiles
<1>2. /\ run \subseteq TilesIn(l) /\ TilesIn(l) \subseteq Tile /\ IsFiniteSet(TilesIn(l))
      /\ \A t \in TilesIn(l) : t[1] = l
  BY TilesFinite DEF UpToBarrier, TilesIn
<1>3. \A t \in run : ~Bar(t)
  <2> SUFFICES ASSUME NEW t \in run, Bar(t) PROVE FALSE
    OBVIOUS
  <2>1. t \in TilesIn(l) /\ t[2] < t[2] /\ t[2] \in Nat
    BY <1>2 DEF UpToBarrier, TilesIn
  <2> QED BY <2>1
<1>4. DOMAIN active' = DOMAIN act \union {l}
  BY DEF StartLayer
<1>5. /\ \A t \in run : tile'[t] = "core" /\ at'[t] = entry[t]
      /\ \A t \in Tile \ run : at'[t] = at[t] /\ tile'[t] = IF t[1] = l THEN "exec" ELSE til[t]
      /\ \A t \in Tile : t[1] = l => til[t] = "none"
  <2>1. \A t \in run : t \in Tile /\ entry[t] \in Core
    BY <1>2
  <2>2. \A t \in Tile : t[1] = l => til[t] = "none"
    BY DEF FirstRound, Fresh
  <2> QED BY <1>1, <2>1, <2>2
<1> HIDE DEF run
<1>6. Fresh(mods, fin, active', tile')
  <2>1. \A t \in Tile : tile'[t] # "none" => t[1] \in fin \union DOMAIN active'
    BY <1>2, <1>4, <1>5 DEF FirstRound, Fresh
  <2> QED BY <2>1 DEF FirstRound, Fresh
<1>7. ASSUME NoBarDone(tile') PROVE LoadsMatch(tile', at', load', heap')
  <2>1. NoBarDone(til)
    BY <1>3, <1>5, <1>7 DEF NoBarDone
  <2>2. LoadsMatch(til, at, load, heap)
    BY <2>1 DEF FirstRound
  <2> SUFFICES ASSUME NEW c \in Core
               PROVE  /\ load'[c] \in Load /\ heap'[c] = load'[c]
                      /\ IsFiniteSet(Issued(tile', at', c)) /\ load'[c].tiles = Cardinality(Issued(tile', at', c))
    BY DEF LoadsMatch
  <2>3. PICK C : C = Counted(entry, run, c)
    OBVIOUS
  <2>4. C \in SUBSET Tile /\ IsFiniteSet(C)
    BY <1>2, <2>3, FS_Subset DEF Counted
  <2>5. PICK ins \in Nat : ins = MapThenSumSet(LAMBDA t : Kind(t).ins, C) /\ (C = {} => ins = 0)
    <3>1. MapThenSumSet(LAMBDA t : Kind(t).ins, C) \in Nat
      BY <2>4, InstructionsType
    <3>2. C = {} => MapThenSumSet(LAMBDA t : Kind(t).ins, C) = 0
      BY NoInstructions
    <3> QED BY <3>1, <3>2
  <2>6. /\ load[c] \in Load /\ heap[c] = load[c] /\ IsFiniteSet(Issued(til, at, c))
        /\ load[c].tiles = Cardinality(Issued(til, at, c))
    BY <2>2 DEF LoadsMatch
  <2>7. c \in Cell /\ c - 0 = c /\ c + 0 = c
    BY DispatchAssumption DEF Core, Cell
  <2>8. load'[c] = CellLoad(c, C)
    BY <1>1, <2>3, <2>7
  <2>9. heap'[c] = IF C = {} THEN heap[c] ELSE CellLoad(c, C)
    BY <1>1, <2>3, <2>7 DEF HeapLoad
  <2>10. CellLoad(c, C) = [tiles |-> load[c].tiles + Cardinality(C), ins |-> load[c].ins + ins]
    BY <2>5 DEF CellLoad
  <2>11. Cardinality(C) \in Nat /\ (C = {} => Cardinality(C) = 0)
    BY <2>4, FS_CardinalityType, FS_EmptySet
  <2>12. load[c].tiles \in Nat /\ load[c].ins \in Nat /\ load[c] = [tiles |-> load[c].tiles, ins |-> load[c].ins]
    BY <2>6 DEF Load
  <2>13. CellLoad(c, C) \in Load /\ (C = {} => CellLoad(c, C) = load[c])
    BY <2>5, <2>10, <2>11, <2>12 DEF Load
  <2>14. Issued(tile', at', c) = Issued(til, at, c) \cup C /\ Issued(til, at, c) \cap C = {}
    <3>1. \A t \in Tile \ run : t \in Issued(tile', at', c) <=> t \in Issued(til, at, c)
      BY <1>5 DEF Issued
    <3>2. \A t \in run : t \in Tile /\ t \notin Issued(til, at, c)
      BY <1>2, <1>5 DEF Issued
    <3>3. \A t \in run : t \in Issued(tile', at', c) <=> t \in C
      BY <1>3, <1>5, <2>3, <3>2 DEF Issued, Counted
    <3>4. C \subseteq run /\ Issued(tile', at', c) \subseteq Tile /\ Issued(til, at, c) \subseteq Tile
      BY <2>3 DEF Counted, Issued
    <3> QED BY <3>1, <3>2, <3>3, <3>4
  <2>15. PICK D : D = Issued(til, at, c)
    OBVIOUS
  <2>16. IsFiniteSet(D \cup C) /\ Cardinality(D \cup C) = Cardinality(D) + Cardinality(C)
    BY <2>4, <2>6, <2>14, <2>15, Grown
  <2>17. CellLoad(c, C).tiles = load[c].tiles + Cardinality(C)
    BY <2>10
  <2> QED BY <2>6, <2>8, <2>9, <2>13, <2>14, <2>15, <2>16, <2>17
<1> QED BY <1>6, <1>7 DEF FirstRound

LEMMA RefreshKeepsLoad ==
  ASSUME PromptsAreLonger, IInv', DOMAIN axes = Model,
         NEW mods, NEW reqs, NEW fin, NEW exe, NEW act, NEW til,
         RefreshStatus(mods, reqs, fin, exe, act, til),
         axes = FirstAxes => FirstRound(mods, fin, act, til, at, load, heap)
  PROVE  LoadInv'
<1> DEFINE over == reqs # <<>> /\ CheckFinish(Head(reqs), fin)
<1>1. PICK rest : rest = IF over THEN Tail(reqs) ELSE reqs
  OBVIOUS
<1>2. CASE over /\ CheckRegressive(Head(reqs))
  <2>1. PICK m \in Regressive : m = Head(reqs)
    BY <1>2 DEF CheckRegressive
  <2>2. axes' = [axes EXCEPT ![m] = PrepareRegressive(@)] /\ m \in Model
    BY <1>2, <2>1, DispatchAssumption DEF RefreshStatus
  <2>3. axes'[m].seq = 1 % AxisLimit /\ DOMAIN axes' = Model
    BY <2>2 DEF PrepareRegressive
  <2> QED BY <2>1, <2>3 DEF PromptsAreLonger, LoadInv
<1>3. CASE ~(over /\ CheckRegressive(Head(reqs)))
  <2>1. models' = mods /\ axes' = axes /\ finished' = fin
    BY <1>3 DEF RefreshStatus
  <2>2. SUFFICES ASSUME axes = FirstAxes, FirstRound(mods, fin, act, til, at, load, heap)
                 PROVE  FirstRound(models', finished', active', tile', at', load', heap')
    BY <2>1 DEF LoadInv
  <2>3. CASE MayStart(rest, act, til) /\ exe[Head(rest)] # <<>>
    <3>1. PICK l : l = Head(exe[Head(rest)])
      OBVIOUS
    <3>2. StartLayer(l, [exe EXCEPT ![Head(rest)] = Tail(exe[Head(rest)])], act, til)
      BY <1>1, <2>3, <3>1 DEF RefreshStatus
    <3>3. DOMAIN act = {} /\ DOMAIN active' = DOMAIN act \union {l}
      BY <2>3, <3>2 DEF MayStart, StartLayer
    <3>4. l \in Layer /\ l \notin fin
      BY <2>1, <3>3 DEF IInv, Inv, Typed, Oldest
    <3>5. FirstRound(mods, fin, active', tile', at', load', heap')
      BY <2>2, <3>2, <3>3, <3>4, StartKeepsLoad
    <3> QED BY <2>1, <3>5
  <2>4. CASE ~(MayStart(rest, act, til) /\ exe[Head(rest)] # <<>>)
    <3>1. active' = act /\ tile' = til /\ UNCHANGED <<at, load, heap>>
      BY <1>1, <2>4 DEF RefreshStatus, StartNoLayer
    <3> QED BY <2>1, <2>2, <3>1
  <2> QED BY <2>3, <2>4
<1> QED BY <1>2, <1>3

(* A tile of the active layer is done, and perhaps the layer is finished.   *)
LEMMA FinishKeepsLoad ==
  ASSUME PromptsAreLonger, IInv, IInv', LoadInv,
         NEW l \in DOMAIN active, NEW act, DOMAIN act = DOMAIN active, NEW til,
         \A t \in Tile : til[t] # "none" => tile[t] # "none",
         NoBarDone(til) => /\ NoBarDone(tile)
                           /\ \A t \in Tile : til[t] \in {"none", "exec"} <=> tile[t] \in {"none", "exec"},
         FinishTile(l, act, til)
  PROVE  LoadInv'
<1>1. DOMAIN axes = Model
  BY DEF LoadInv
<1>2. CASE act[l].remain > 1
  <2>1. PICK act2 : act2 = [act EXCEPT ![l].remain = @ - 1, ![l].finished = @ + 1]
    OBVIOUS
  <2>2. RefreshStatus(models, requests, finished, executable, act2, til)
    BY <1>2, <2>1 DEF FinishTile
  <2>3. DOMAIN act2 = DOMAIN active
    BY <2>1
  <2>4. axes = FirstAxes => FirstRound(models, finished, act2, til, at, load, heap)
    <3> SUFFICES ASSUME axes = FirstAxes PROVE FirstRound(models, finished, act2, til, at, load, heap)
      OBVIOUS
    <3>1. FirstRound(models, finished, active, tile, at, load, heap)
      BY DEF LoadInv
    <3>2. \A m \in models : Owns(m) \cap finished = {}
      BY <3>1 DEF FirstRound, Fresh
    <3> QED BY <2>3, <3>1, <3>2, MovesKeepLoad
  <2> QED BY <1>1, <2>2, <2>4, RefreshKeepsLoad
<1>3. CASE ~(act[l].remain > 1)
  <2>1. PICK m : m = Head(requests)
    OBVIOUS
  <2>2. PICK fin : fin = finished \union {l}
    OBVIOUS
  <2>3. PICK act2 : act2 = [k \in DOMAIN act \ {l} |-> act[k]]
    OBVIOUS
  <2>4. PICK new : RefreshStatus(models, requests, fin, [executable EXCEPT ![m] = @ \o new], act2, til)
    BY <1>3, <2>1, <2>2, <2>3 DEF FinishTile
  <2>5. l \in Owns(m) /\ m \in Model /\ m \notin models
    <3>1. requests \in Seq(Model) /\ requests # <<>> /\ l \in Owns(m)
      BY <2>1 DEF IInv, Inv, Typed, Oldest
    <3>2. Len(requests) \in Nat \ {0} /\ m = requests[1] /\ m \in Model
      BY <2>1, <3>1, EmptySeq, HeadTailProperties
    <3>3. 1 \in 1 .. Len(requests)
      BY <3>2
    <3> QED BY <3>1, <3>2, <3>3 DEF IInv, Inv, Queued
  <2>6. axes = FirstAxes => FirstRound(models, fin, act2, til, at, load, heap)
    <3> SUFFICES ASSUME axes = FirstAxes PROVE FirstRound(models, fin, act2, til, at, load, heap)
      OBVIOUS
    <3>1. FirstRound(models, finished, active, tile, at, load, heap)
      BY DEF LoadInv
    <3>2. \A n \in models : Owns(n) \cap fin = {}
      <4> TAKE n \in models
      <4>1. n \in Model /\ n # m
        BY <2>5 DEF IInv, Inv, Typed
      <4>2. l \notin Owns(n)
        BY <2>5, <4>1, GraphAssumption
      <4> QED BY <2>2, <3>1, <4>2 DEF FirstRound, Fresh
    <3>3. fin \union DOMAIN act2 = finished \union DOMAIN active
      BY <2>2, <2>3
    <3> QED BY <3>1, <3>2, <3>3, MovesKeepLoad
  <2> QED BY <1>1, <2>4, <2>6, RefreshKeepsLoad
<1> QED BY <1>2, <1>3

LEMMA LoadInitially == Init => LoadInv
<1> SUFFICES ASSUME Init PROVE LoadInv
  OBVIOUS
<1> USE DEF Init, DispatchInit
<1>1. DOMAIN axes = Model
  BY DispatchAssumption
<1>2. Fresh(models, finished, active, tile)
  BY DEF Fresh
<1>3. LoadsMatch(tile, at, load, heap)
  <2> SUFFICES ASSUME NEW c \in Core
               PROVE  /\ load[c] \in Load /\ heap[c] = load[c]
                      /\ IsFiniteSet(Issued(tile, at, c)) /\ load[c].tiles = Cardinality(Issued(tile, at, c))
    BY DEF LoadsMatch
  <2>1. Issued(tile, at, c) = {}
    BY DEF Issued
  <2>2. c \in Cell
    BY DispatchAssumption DEF Core, Cell
  <2>3. load[c] = NoLoad /\ heap[c] = NoLoad
    BY <2>2
  <2>4. NoLoad \in Load /\ NoLoad.tiles = 0
    BY DEF NoLoad, Load
  <2>5. IsFiniteSet(Issued(tile, at, c)) /\ Cardinality(Issued(tile, at, c)) = 0
    BY <2>1, FS_EmptySet
  <2>6. load[c] \in Load /\ heap[c] = load[c] /\ load[c].tiles = 0
    BY <2>3, <2>4, Zenon
  <2> QED BY <2>5, <2>6, Zenon
<1> QED BY <1>1, <1>2, <1>3 DEF LoadInv, FirstRound

LEMMA LoadStep == PromptsAreLonger /\ IInv /\ IInv' /\ LoadInv /\ [Next]_vars => LoadInv'
<1> SUFFICES ASSUME PromptsAreLonger, IInv, IInv', LoadInv, [Next]_vars
             PROVE  LoadInv'
  OBVIOUS
<1>0. DOMAIN axes = Model
  BY DEF LoadInv
<1>1. ASSUME UNCHANGED <<models, axes, finished, active, tile, at, load, heap>> PROVE LoadInv'
  BY <1>1 DEF LoadInv
<1>2. ASSUME NEW m \in Model, ScheduleModel(m) PROVE LoadInv'
  <2>1. PICK roots : RefreshStatus(models \ {m}, Append(requests, m), finished \ Owns(m),
                                   [executable EXCEPT ![m] = roots], active, tile)
    BY <1>2 DEF ScheduleModel
  <2>2. m \in models
    BY <1>2 DEF ScheduleModel
  <2>3. axes = FirstAxes => FirstRound(models \ {m}, finished \ Owns(m), active, tile, at, load, heap)
    <3> SUFFICES ASSUME axes = FirstAxes
                 PROVE  FirstRound(models \ {m}, finished \ Owns(m), active, tile, at, load, heap)
      OBVIOUS
    <3>1. FirstRound(models, finished, active, tile, at, load, heap)
      BY DEF LoadInv
    <3>2. finished \ Owns(m) = finished
      BY <2>2, <3>1 DEF FirstRound, Fresh
    <3> QED BY <3>1, <3>2 DEF FirstRound, Fresh
  <2> QED BY <1>0, <2>1, <2>3, RefreshKeepsLoad
<1>3. CASE StartCores \/ NoFinishedTile \/ NoGetTile \/ CoreRuns \/ Stopped
  BY <1>1, <1>3 DEF StartCores, NoFinishedTile, NoGetTile, CoreRuns, Stopped, Dispatch, vars
<1>4. CASE GetTileBothEmpty
  <2>1. RefreshStatus(models, requests, finished, executable, active, tile)
    BY <1>4 DEF GetTileBothEmpty
  <2>2. axes = FirstAxes => FirstRound(models, finished, active, tile, at, load, heap)
    BY DEF LoadInv
  <2> QED BY <1>0, <2>1, <2>2, RefreshKeepsLoad
<1>5. ASSUME NEW t \in Tile, Step(t) PROVE LoadInv'
  <2>0. tile \in [Tile -> Where] /\ (tile[t] # "none" => tile[t] \in Where)
    BY DEF IInv, Inv, Typed
  <2>1. CASE PopFinishedTile(t)
    <3>1. PICK til : til = [tile EXCEPT ![t] = "done"]
      OBVIOUS
    <3>2. tile[t] = "finished" /\ FinishTile(t[1], active, til) /\ til[t] = "done"
          /\ \A u \in Tile : u # t => til[u] = tile[u]
      BY <2>0, <2>1, <3>1 DEF PopFinishedTile
    <3>3. t[1] \in DOMAIN active
      BY <3>2 DEF IInv, Inv, Accounted
    <3>4. \A u \in Tile : /\ til[u] # "none" => tile[u] # "none"
                          /\ til[u] \in {"none", "exec"} <=> tile[u] \in {"none", "exec"}
      BY <3>2
    <3>5. NoBarDone(til) => NoBarDone(tile)
      BY <3>2 DEF NoBarDone
    <3> QED BY <3>2, <3>3, <3>4, <3>5, FinishKeepsLoad
  <2>2. CASE GetTileFromCoreQueue(t)
    <3>1. PICK w \in {"running", "finished"} : tile' = [tile EXCEPT ![t] = w]
      BY <2>2 DEF GetTileFromCoreQueue
    <3>2. /\ tile[t] = "core" /\ DOMAIN active' = DOMAIN active
          /\ UNCHANGED <<models, axes, finished, at, load, heap>>
      BY <2>2 DEF GetTileFromCoreQueue, Front, CoreQueue
    <3>3. tile'[t] = w /\ \A u \in Tile : u # t => tile'[u] = tile[u]
      BY <2>0, <3>1
    <3>4. PICK til : til = tile'
      OBVIOUS
    <3>5. PICK act : act = active'
      OBVIOUS
    <3>6. \A u \in Tile : /\ til[u] # "none" => tile[u] # "none"
                          /\ til[u] \in {"none", "exec"} <=> tile[u] \in {"none", "exec"}
                          /\ til[u] # "done" => tile[u] # "done"
      BY <3>2, <3>3, <3>4
    <3>7. NoBarDone(til) => NoBarDone(tile)
      BY <3>6 DEF NoBarDone
    <3>8. axes = FirstAxes => FirstRound(models, finished, act, til, at, load, heap)
      <4> SUFFICES ASSUME axes = FirstAxes PROVE FirstRound(models, finished, act, til, at, load, heap)
        OBVIOUS
      <4>1. FirstRound(models, finished, active, tile, at, load, heap)
        BY DEF LoadInv
      <4>2. \A m \in models : Owns(m) \cap finished = {}
        BY <4>1 DEF FirstRound, Fresh
      <4> QED BY <3>2, <3>5, <3>6, <3>7, <4>1, <4>2, MovesKeepLoad
    <3> QED BY <1>0, <3>2, <3>4, <3>5, <3>8 DEF LoadInv
  <2>3. CASE GetTileBarrierHolds(t)
    BY <1>1, <2>3 DEF GetTileBarrierHolds, Dispatch
  <2>4. CASE GetTileBarrierOpens(t)
    <3>1. /\ t \in ExecQueue /\ Bar(t)
          /\ UNCHANGED <<models, axes, finished>> /\ DOMAIN active' = DOMAIN active
      BY <2>4 DEF GetTileBarrierOpens, AtBarrier, Front, CountBarrier
    <3>2. PICK run : /\ run = UpToBarrier(ExecQueue \ {t})
                     /\ tile' = [u \in Tile |-> IF u \in run THEN "core" ELSE [tile EXCEPT ![t] = "done"][u]]
      BY <2>4 DEF GetTileBarrierOpens, IssueTiles
    <3>3. t \notin run /\ \A u \in run : u \in Tile /\ tile[u] = "exec"
      BY <3>2 DEF UpToBarrier, ExecQueue
    <3>4. tile'[t] = "done" /\ tile[t] = "exec"
      BY <2>0, <3>1, <3>2, <3>3 DEF ExecQueue
    <3>5. \A u \in Tile : tile'[u] # "none" => tile[u] # "none"
      BY <2>0, <3>2, <3>3, <3>4
    <3>6. ~NoBarDone(tile')
      BY <3>1, <3>4 DEF NoBarDone
    <3>7. axes = FirstAxes => Fresh(models', finished', active', tile')
      BY <3>1, <3>5 DEF LoadInv, FirstRound, Fresh
    <3> QED BY <1>0, <3>1, <3>6, <3>7 DEF LoadInv, FirstRound
  <2>5. CASE GetTileBarrierIsLast(t)
    <3>1. PICK til : til = [tile EXCEPT ![t] = "done"]
      OBVIOUS
    <3>2. PICK act : act = [active EXCEPT ![t[1]].launched = @ + 1, ![t[1]].finished = @ + 1]
      OBVIOUS
    <3>3. tile[t] = "exec" /\ Bar(t) /\ FinishTile(t[1], act, til) /\ DOMAIN act = DOMAIN active
      BY <2>5, <3>1, <3>2 DEF GetTileBarrierIsLast, AtBarrier, Front, ExecQueue
    <3>4. til[t] = "done" /\ \A u \in Tile : u # t => til[u] = tile[u]
      BY <2>0, <3>1
    <3>5. t[1] \in DOMAIN active
      BY <3>3 DEF IInv, Inv, Accounted
    <3>6. ~NoBarDone(til) /\ \A u \in Tile : til[u] # "none" => tile[u] # "none"
      BY <3>3, <3>4 DEF NoBarDone
    <3> QED BY <3>3, <3>5, <3>6, FinishKeepsLoad
  <2>6. CASE CoreFinishes(t)
    <3>1. /\ tile' = [tile EXCEPT ![t] = "finished"] /\ tile[t] = "running"
          /\ UNCHANGED <<models, axes, finished, active, at, load, heap>>
      BY <2>6 DEF CoreFinishes
    <3>2. tile'[t] = "finished" /\ \A u \in Tile : u # t => tile'[u] = tile[u]
      BY <2>0, <3>1
    <3>3. PICK til : til = tile'
      OBVIOUS
    <3>4. \A u \in Tile : /\ til[u] # "none" => tile[u] # "none"
                          /\ til[u] \in {"none", "exec"} <=> tile[u] \in {"none", "exec"}
                          /\ til[u] # "done" => tile[u] # "done"
      BY <3>1, <3>2, <3>3
    <3>5. NoBarDone(til) => NoBarDone(tile)
      BY <3>4 DEF NoBarDone
    <3>6. axes = FirstAxes => FirstRound(models, finished, active, til, at, load, heap)
      <4> SUFFICES ASSUME axes = FirstAxes PROVE FirstRound(models, finished, active, til, at, load, heap)
        OBVIOUS
      <4>1. FirstRound(models, finished, active, tile, at, load, heap)
        BY DEF LoadInv
      <4>2. \A m \in models : Owns(m) \cap finished = {}
        BY <4>1 DEF FirstRound, Fresh
      <4> QED BY <3>4, <3>5, <4>1, <4>2, MovesKeepLoad
    <3> QED BY <1>0, <3>1, <3>3, <3>6 DEF LoadInv
  <2> QED BY <1>5, <2>1, <2>2, <2>3, <2>4, <2>5, <2>6 DEF Step
<1>6. CASE UNCHANGED vars
  BY <1>1, <1>6 DEF vars
<1> QED BY <1>2, <1>3, <1>4, <1>5, <1>6 DEF Next

(* The load by which issue_tile_per_core balances is the number of tiles    *)
(* that are or were at each core, and the heap agrees with it, until a      *)
(* model comes back or a barrier opens.  Prompts are not single tokens:     *)
(* with one of them, the lengths of a model that runs on until they wrap    *)
(* around are after 2^32 rounds what they were at first.                    *)
THEOREM LoadIsRight == ASSUME PromptsAreLonger PROVE Spec => []LoadIsWhatWasIssued
<1>1. IInv /\ IInv' /\ LoadInv /\ [Next]_vars => LoadInv'
  BY LoadStep
<1>2. LoadInv => LoadIsWhatWasIssued
  <2> SUFFICES ASSUME LoadInv, CountsFromFirstCore, NEW c \in Core
               PROVE  heap[c] = load[c] /\ load[c].tiles = Cardinality(Issued(tile, at, c))
    BY DEF LoadIsWhatWasIssued, Issued
  <2>1. LoadsMatch(tile, at, load, heap)
    BY DEF LoadInv, FirstRound, CountsFromFirstCore, NoBarDone
  <2> QED BY <2>1 DEF LoadsMatch
<1> QED BY Invariance, LoadInitially, <1>1, <1>2, PTL DEF Spec
=============================================================================
