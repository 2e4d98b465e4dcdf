-------------------------- MODULE TileDispatchProofs --------------------------
(***************************************************************************)
(* What the proofs about the tile schedulers have in common, for any       *)
(* number of cores, any models, any dependency graph and any tiles: how    *)
(* the number of tiles of a layer in some places changes when tiles move,  *)
(* what the dependency graph says of the inputs of a layer, and what holds *)
(* of the lists of layers and requests that the schedulers pick from.      *)
(***************************************************************************)
EXTENDS TileDispatch, TLAPS, FiniteSetTheorems, SequenceTheorems, WellFoundedInduction

(* A model is registered or requested, not both, and not twice.             *)
Queued(mods, reqs) ==
  /\ \A i \in 1 .. Len(reqs) : reqs[i] \notin mods
  /\ \A i, j \in 1 .. Len(reqs) : reqs[i] = reqs[j] => i = j

Distinct(s) == \A i, j \in 1 .. Len(s) : s[i] = s[j] => i = j

(* A list of layers of m that can start: new, ready and distinct.           *)
CanStart(s, m, fin, run) ==
  /\ s \in Seq(Layer)
  /\ \A j \in 1 .. Len(s) : s[j] \in Owns(m) /\ s[j] \notin fin \union run /\ Producers(s[j]) \subseteq fin
  /\ Distinct(s)

(* So are the layers that a request holds as executable.                    *)
Ready(reqs, fin, exe, act) ==
  \A i \in 1 .. Len(reqs) : CanStart(exe[reqs[i]], reqs[i], fin, DOMAIN act)

(* What has started had its inputs, and a registered model is between two   *)
(* rounds.                                                                  *)
Closed(mods, fin, act) ==
  /\ \A l \in fin \union DOMAIN act : Producers(l) \subseteq fin
  /\ \A m \in mods : Owns(m) \subseteq fin \/ Owns(m) \cap (fin \union DOMAIN act) = {}

-----------------------------------------------------------------------------
(* Counting the tiles of a layer.                                           *)

LEMMA TilesFinite ==
  ASSUME NEW l \in Layer
  PROVE  /\ IsFiniteSet(TilesIn(l))
         /\ Cardinality(TilesIn(l)) = Len(TilesOf[l])
         /\ Len(TilesOf[l]) \in Nat
         /\ TilesIn(l) \subseteq Tile
<1> DEFINE n == Len(TilesOf[l])
           f == [i \in 1 .. n |-> <<l, i>>]
<1>1. n \in Nat
  BY DispatchAssumption, LenProperties
<1>2. IsFiniteSet(1 .. n) /\ Cardinality(1 .. n) = n
  BY <1>1, FS_Interval
<1>3. f \in Bijection(1 .. n, TilesIn(l))
  <2>1. f \in [1 .. n -> TilesIn(l)]
    BY DEF TilesIn
  <2>2. \A i, j \in 1 .. n : f[i] = f[j] => i = j
    OBVIOUS
  <2>3. \A t \in TilesIn(l) : \E i \in 1 .. n : f[i] = t
    BY DEF TilesIn
  <2> QED BY <2>1, <2>2, <2>3 DEF Bijection, Injection, Surjection, IsInjective
<1>4. ExistsBijection(1 .. n, TilesIn(l))
  BY <1>3 DEF ExistsBijection
<1>5. TilesIn(l) \subseteq Tile
  BY DEF TilesIn, Tile
<1> QED BY <1>1, <1>2, <1>4, <1>5, FS_Bijection

LEMMA CountType ==
  ASSUME NEW l \in Layer, NEW til, NEW W
  PROVE  Count(l, til, W) \in Nat
<1>1. {t \in TilesIn(l) : til[t] \in W} \in SUBSET TilesIn(l)
  OBVIOUS
<1> QED BY <1>1, TilesFinite, FS_Subset, FS_CardinalityType DEF Count

(* What becomes of a count n over W when a tile goes from v to w.           *)
Moved(n, W, v, w) ==
  IF w \in W /\ v \notin W THEN n + 1 ELSE IF w \notin W /\ v \in W THEN n - 1 ELSE n

(* One tile moves: the counts of its layer change by one or not at all.     *)
LEMMA CountMove ==
  ASSUME NEW l \in Layer, NEW W, NEW til, NEW til2, NEW t, NEW w,
         \A u \in TilesIn(l) : til2[u] = IF u = t THEN w ELSE til[u]
  PROVE  Count(l, til2, W) = IF t \in TilesIn(l) THEN Moved(Count(l, til, W), W, til[t], w)
                                                ELSE Count(l, til, W)
<1> DEFINE A == {u \in TilesIn(l) : til[u] \in W}
           B == {u \in TilesIn(l) : til2[u] \in W}
<1>1. IsFiniteSet(A) /\ Cardinality(A) \in Nat
  <2>1. A \in SUBSET TilesIn(l)
    OBVIOUS
  <2> QED BY <2>1, TilesFinite, FS_Subset, FS_CardinalityType
<1>3. CASE t \notin TilesIn(l)
  <2>1. A = B
    BY <1>3
  <2> QED BY <2>1, <1>3 DEF Count
<1>4. CASE t \in TilesIn(l) /\ w \in W
  <2>1. B = A \union {t}
    BY <1>4
  <2>2. Cardinality(B) = IF t \in A THEN Cardinality(A) ELSE Cardinality(A) + 1
    BY <2>1, <1>1, FS_AddElement
  <2>3. t \in A <=> til[t] \in W
    BY <1>4
  <2> QED BY <2>2, <2>3, <1>4, <1>1 DEF Count, Moved
<1>5. CASE t \in TilesIn(l) /\ w \notin W
  <2>1. B = A \ {t}
    BY <1>5
  <2>2. Cardinality(B) = IF t \in A THEN Cardinality(A) - 1 ELSE Cardinality(A)
    BY <2>1, <1>1, FS_RemoveElement
  <2>3. t \in A <=> til[t] \in W
    BY <1>5
  <2> QED BY <2>2, <2>3, <1>5, <1>1 DEF Count, Moved
<1> QED BY <1>3, <1>4, <1>5

(* Only the membership in W matters for a count.                            *)
LEMMA CountSame ==
  ASSUME NEW l \in Layer, NEW til, NEW til2, NEW W,
         \A t \in TilesIn(l) : til2[t] \in W <=> til[t] \in W
  PROVE  Count(l, til2, W) = Count(l, til, W)
<1>1. {t \in TilesIn(l) : til2[t] \in W} = {t \in TilesIn(l) : til[t] \in W}
  OBVIOUS
<1> QED BY <1>1 DEF Count

LEMMA CountNone ==
  ASSUME NEW l \in Layer, NEW til, NEW W, \A t \in TilesIn(l) : til[t] \notin W
  PROVE  Count(l, til, W) = 0
<1>1. {t \in TilesIn(l) : til[t] \in W} = {}
  OBVIOUS
<1> QED BY <1>1, FS_EmptySet DEF Count

LEMMA CountAll ==
  ASSUME NEW l \in Layer, NEW til, NEW W, \A t \in TilesIn(l) : til[t] \in W
  PROVE  Count(l, til, W) = Len(TilesOf[l])
<1>1. {t \in TilesIn(l) : til[t] \in W} = TilesIn(l)
  OBVIOUS
<1> QED BY <1>1, TilesFinite DEF Count

LEMMA CountZero ==
  ASSUME NEW l \in Layer, NEW til, NEW W, Count(l, til, W) = 0
  PROVE  \A t \in TilesIn(l) : til[t] \notin W
<1> DEFINE A == {t \in TilesIn(l) : til[t] \in W}
<1>1. A \in SUBSET TilesIn(l)
  OBVIOUS
<1>2. IsFiniteSet(A)
  BY <1>1, TilesFinite, FS_Subset
<1>3. A = {}
  BY <1>2, FS_EmptySet DEF Count
<1> QED BY <1>3

-----------------------------------------------------------------------------
(* The dependency graph and the lists of layers.                             *)

(* A sequence InOrder yields holds the elements of S, each once.            *)
LEMMA InOrderProperties ==
  ASSUME NEW S, NEW s, Len(s) \in Nat, NEW r \in InOrder(S, s)
  PROVE  /\ r \in Seq(S)
         /\ \A i, j \in 1 .. Len(r) : r[i] = r[j] => i = j
<1>1. PICK n \in 0 .. Len(s) : r \in [1 .. n -> S]
  BY DEF InOrder
<1>2. r \in Seq(S) /\ Len(r) = n /\ DOMAIN r = 1 .. n
  BY <1>1, SeqDef, LenProperties
<1>3. ASSUME NEW i \in 1 .. n, NEW j \in 1 .. n, i < j
      PROVE  r[i] # r[j]
  <2>1. PICK a \in 1 .. Len(s) : s[a] = r[i] /\ \A b \in 1 .. a : s[b] # r[j]
    BY <1>2, <1>3 DEF InOrder
  <2>2. a \in 1 .. a
    OBVIOUS
  <2> QED BY <2>1, <2>2
<1>4. ASSUME NEW i \in 1 .. n, NEW j \in 1 .. n, r[i] = r[j]
      PROVE  i = j
  <2>1. ~(i < j) /\ ~(j < i)
    BY <1>3, <1>4
  <2> QED BY <2>1
<1> QED BY <1>2, <1>4

LEMMA ChildrenProperties ==
  ASSUME NEW l \in Layer
  PROVE  /\ Len(ChildNodes[l]) \in Nat
         /\ Children(l) \subseteq Layer
         /\ \A k \in Children(l) : l \in Producers(k)
<1>1. ChildNodes[l] \in Seq(Layer)
  BY DispatchAssumption
<1> QED BY <1>1, LenProperties, ElementOfSeq DEF Children, Producers

(* What produces the inputs of a layer belongs to the same model.           *)
LEMMA ProducersOwned ==
  ASSUME NEW m \in Model, NEW l \in Owns(m)
  PROVE  Producers(l) \subseteq Owns(m)
<1> SUFFICES ASSUME NEW p \in Producers(l)
             PROVE  p \in Owns(m)
  OBVIOUS
<1>1. p \in Layer /\ l \in Children(p)
  BY DEF Producers
<1>2. PICK n \in Model : p \in Owns(n)
  BY <1>1, GraphAssumption
<1>3. l \in Owns(n)
  BY <1>1, <1>2, GraphAssumption
<1> QED BY <1>2, <1>3, GraphAssumption

(* Concatenating sequences that hold each element once.                     *)
NothingShared(r, s) == \A i \in 1 .. Len(r), j \in 1 .. Len(s) : r[i] # s[j]
FromEither(q, r, s) ==
  \A i \in 1 .. Len(q) : \/ \E a \in 1 .. Len(r) : q[i] = r[a]
                         \/ \E a \in 1 .. Len(s) : q[i] = s[a]

LEMMA ConcatDistinct ==
  ASSUME NEW D, NEW r \in Seq(D), NEW s \in Seq(D), Distinct(r), Distinct(s), NothingShared(r, s)
  PROVE  r \o s \in Seq(D) /\ FromEither(r \o s, r, s) /\ Distinct(r \o s)
<1> USE DEF Distinct, NothingShared, FromEither
<1>1. /\ r \o s \in Seq(D)
      /\ Len(r \o s) = Len(r) + Len(s)
      /\ \A i \in 1 .. Len(r) + Len(s) : (r \o s)[i] = IF i <= Len(r) THEN r[i] ELSE s[i - Len(r)]
  BY ConcatProperties
<1>2. Len(r) \in Nat /\ Len(s) \in Nat
  BY LenProperties
<1>3. \A i \in 1 .. Len(r) + Len(s) :
        \/ i \in 1 .. Len(r) /\ (r \o s)[i] = r[i]
        \/ i - Len(r) \in 1 .. Len(s) /\ (r \o s)[i] = s[i - Len(r)]
  BY <1>1, <1>2
<1>4. \A i \in 1 .. Len(r \o s) :
              \/ \E a \in 1 .. Len(r) : (r \o s)[i] = r[a]
              \/ \E a \in 1 .. Len(s) : (r \o s)[i] = s[a]
  BY <1>1, <1>3
<1>5. ASSUME NEW i \in 1 .. Len(r) + Len(s), NEW j \in 1 .. Len(r) + Len(s), (r \o s)[i] = (r \o s)[j]
      PROVE  i = j
  <2>1. CASE i \in 1 .. Len(r) /\ j \in 1 .. Len(r)
    BY <2>1, <1>1, <1>2, <1>5
  <2>2. CASE i \in 1 .. Len(r) /\ j \notin 1 .. Len(r)
    BY <2>2, <1>3, <1>5
  <2>3. CASE i \notin 1 .. Len(r) /\ j \in 1 .. Len(r)
    BY <2>3, <1>3, <1>5
  <2>4. CASE i \notin 1 .. Len(r) /\ j \notin 1 .. Len(r)
    <3>1. i - Len(r) \in 1 .. Len(s) /\ j - Len(r) \in 1 .. Len(s) /\ s[i - Len(r)] = s[j - Len(r)]
      BY <2>4, <1>3, <1>5
    <3>2. i - Len(r) = j - Len(r)
      BY <3>1
    <3> QED BY <3>2, <1>2
  <2> QED BY <2>1, <2>2, <2>3, <2>4
<1> QED BY <1>1, <1>4, <1>5

(* The first layer of the list starts.                                      *)
LEMMA FirstStarts ==
  ASSUME NEW m, NEW fin, NEW run, NEW list, list # <<>>, CanStart(list, m, fin, run)
  PROVE  /\ Head(list) \in Layer /\ Head(list) \in Owns(m)
         /\ Head(list) \notin fin \union run /\ Producers(Head(list)) \subseteq fin
         /\ Tail(list) \in Seq(Layer)
         /\ CanStart(Tail(list), m, fin, run \union {Head(list)})
<1> DEFINE rest == Tail(list)
<1>1. list \in Seq(Layer) /\ Len(list) \in Nat \ {0}
  BY EmptySeq DEF CanStart
<1>2. /\ Head(list) = list[1] /\ rest \in Seq(Layer) /\ Len(rest) = Len(list) - 1
      /\ \A j \in 1 .. Len(rest) : rest[j] = list[j + 1] /\ j + 1 \in 1 .. Len(list) /\ j + 1 # 1
      /\ 1 \in 1 .. Len(list) /\ list[1] \in Layer
  BY <1>1, HeadTailProperties
<1> HIDE DEF rest
<1>3. \A j \in 1 .. Len(rest) : /\ rest[j] \in Owns(m) /\ rest[j] \notin fin \union (run \union {list[1]})
                               /\ Producers(rest[j]) \subseteq fin
  BY <1>2 DEF CanStart, Distinct
<1>4. \A i, j \in 1 .. Len(rest) : rest[i] = rest[j] => i = j
  <2> TAKE i, j \in 1 .. Len(rest)
  <2>1. list[i + 1] = list[j + 1] => i + 1 = j + 1
    BY <1>2 DEF CanStart, Distinct
  <2> QED BY <1>2, <2>1
<1> QED BY <1>2, <1>3, <1>4 DEF CanStart, Distinct, rest

(* What other models do does not matter to the list of m.                   *)
LEMMA StillStarts ==
  ASSUME NEW m \in Model, NEW list, NEW fin, NEW run, NEW fin2, NEW run2,
         CanStart(list, m, fin, run),
         Owns(m) \cap (fin2 \union run2) \subseteq fin \union run,
         Owns(m) \cap fin \subseteq fin2
  PROVE  CanStart(list, m, fin2, run2)
<1>1. \A j \in 1 .. Len(list) : list[j] \notin fin2 \union run2 /\ Producers(list[j]) \subseteq fin2
  <2> TAKE j \in 1 .. Len(list)
  <2>1. list[j] \in Owns(m) /\ list[j] \notin fin \union run /\ Producers(list[j]) \subseteq fin
    BY DEF CanStart
  <2>2. Producers(list[j]) \subseteq Owns(m)
    BY <2>1, ProducersOwned
  <2> QED BY <2>1, <2>2
<1> QED BY <1>1 DEF CanStart

(* What Model::initialize_model finds executable.                           *)
LEMMA RootsReady ==
  ASSUME NEW m \in Model, NEW roots \in InOrder(Roots(m), LayersOf[m])
  PROVE  /\ roots \in Seq(Layer) /\ Distinct(roots)
         /\ \A i \in 1 .. Len(roots) : roots[i] \in Owns(m) /\ Producers(roots[i]) = {}
<1> DEFINE R == Roots(m)
<1>1. LayersOf[m] \in Seq(Layer) /\ Len(LayersOf[m]) \in Nat
  BY DispatchAssumption, LenProperties
<1>2. R \subseteq Layer /\ \A l \in R : l \in Owns(m) /\ Producers(l) = {}
  BY <1>1, ElementOfSeq DEF Roots, CheckExecutable, Owns
<1>3. roots \in InOrder(R, LayersOf[m])
  OBVIOUS
<1> HIDE DEF R
<1>4. roots \in Seq(R) /\ \A i, j \in 1 .. Len(roots) : roots[i] = roots[j] => i = j
  BY <1>1, <1>3, InOrderProperties
<1>5. \A i \in 1 .. Len(roots) : roots[i] \in R
  BY <1>4, ElementOfSeq
<1>6. roots \in Seq(Layer)
  BY <1>2, <1>4, <1>5, SeqDef, LenProperties
<1> QED BY <1>2, <1>4, <1>5, <1>6 DEF Distinct

(* What Model::set_layer_finish makes of the list when l has finished.      *)
LEMMA ChildrenFollow ==
  ASSUME NEW m \in Model, NEW l \in Layer, l \in Owns(m),
         NEW fin, NEW run, l \in run, l \notin fin,
         \A k \in fin \union run : Producers(k) \subseteq fin,
         NEW list, CanStart(list, m, fin, run),
         NEW new \in InOrder(NewlyExecutable(l, fin \union {l}, list), ChildNodes[l])
  PROVE  CanStart(list \o new, m, fin \union {l}, run \ {l})
<1> DEFINE N == NewlyExecutable(l, fin \union {l}, list)
           all == list \o new
<1>1. \A k \in N : /\ k \in Layer /\ k \in Owns(m)
                   /\ k \notin fin \union {l} \union run /\ Producers(k) \subseteq fin \union {l}
                   /\ \A i \in 1 .. Len(list) : list[i] # k
  <2> TAKE k \in N
  <2>1. /\ k \in Children(l) /\ Producers(k) \subseteq fin \union {l}
        /\ \A i \in 1 .. Len(list) : list[i] # k
    BY DEF NewlyExecutable, CheckExecutable
  <2>2. k \in Layer /\ k \in Owns(m) /\ l \in Producers(k)
    BY <2>1, ChildrenProperties, GraphAssumption
  <2>3. k \notin fin /\ k \notin run /\ k # l
    BY <2>2
  <2> QED BY <2>1, <2>2, <2>3
<1>2. new \in Seq(Layer) /\ Distinct(new) /\ \A i \in 1 .. Len(new) : new[i] \in N
  <2> HIDE DEF N
  <2>1. new \in Seq(N) /\ \A i, j \in 1 .. Len(new) : new[i] = new[j] => i = j
    <3>1. Len(ChildNodes[l]) \in Nat
      BY ChildrenProperties
    <3> QED BY <3>1, InOrderProperties DEF N
  <2>2. \A i \in 1 .. Len(new) : new[i] \in N
    BY <2>1, ElementOfSeq
  <2>3. new \in Seq(Layer)
    <3>1. N \subseteq Layer
      BY <1>1
    <3> QED BY <2>1, <2>2, <3>1, SeqDef, LenProperties
  <2> QED BY <2>1, <2>2, <2>3 DEF Distinct
<1>3. all \in Seq(Layer) /\ FromEither(all, list, new) /\ Distinct(all)
  <2>1. NothingShared(list, new)
    BY <1>1, <1>2 DEF NothingShared
  <2> QED BY <1>2, <2>1, ConcatDistinct DEF CanStart
<1> HIDE DEF all, N
<1>4. \A j \in 1 .. Len(all) : /\ all[j] \in Owns(m) /\ all[j] \notin (fin \union {l}) \union (run \ {l})
                              /\ Producers(all[j]) \subseteq fin \union {l}
  <2> TAKE j \in 1 .. Len(all)
  <2>1. CASE \E a \in 1 .. Len(list) : all[j] = list[a]
    BY <2>1 DEF CanStart
  <2>2. CASE \E a \in 1 .. Len(new) : all[j] = new[a]
    BY <2>2, <1>1, <1>2
  <2> QED BY <1>3, <2>1, <2>2 DEF FromEither
<1> QED BY <1>3, <1>4 DEF CanStart, all

-----------------------------------------------------------------------------
(* The instructions of a set of tiles.  The sum of f over S is the number of *)
(* cells of a table with f[x] cells in the row of x, which satisfies the     *)
(* recursion by which MapThenSumSet is defined, and nothing else does.       *)

(* A finite set that grows by a part apart from it.                         *)
LEMMA Grown ==
  ASSUME NEW S, NEW T, IsFiniteSet(S), IsFiniteSet(T), S \cap T = {}
  PROVE  /\ IsFiniteSet(S \cup T) /\ Cardinality(S \cup T) = Cardinality(S) + Cardinality(T)
         /\ Cardinality(S) \in Nat /\ Cardinality(T) \in Nat
<1>1. Cardinality(S) \in Nat /\ Cardinality(T) \in Nat /\ Cardinality({}) = 0
  BY FS_CardinalityType, FS_EmptySet
<1>2. IsFiniteSet(S \cup T) /\ Cardinality(S \cup T) = Cardinality(S) + Cardinality(T) - Cardinality(S \cap T)
  BY FS_Union
<1>3. Cardinality(S \cap T) = 0
  BY <1>1
<1> QED BY <1>1, <1>2, <1>3

Cells(f, s) == {c \in s \X Nat : 1 <= c[2] /\ c[2] <= f[c[1]]}
Chosen(s) == CHOOSE x \in s : TRUE

LEMMA LeastSubset ==
  ASSUME NEW S, IsFiniteSet(S), NEW B, B \subseteq SUBSET S, B # {}
  PROVE  \E s \in B : \A x \in s : s \ {x} \notin B
<1>1. FiniteSubsetsOf(S) = SUBSET S
  BY FS_FiniteSubsetsOfFinite
<1>2. IsWellFoundedOn(StrictSubsetOrdering(S), FiniteSubsetsOf(S))
  BY FS_StrictSubsetOrderingWellFounded
<1>3. PICK s \in B : \A u \in B : <<u, s>> \notin StrictSubsetOrdering(S)
  BY <1>1, <1>2, WFMin
<1>4. ASSUME NEW x \in s, s \ {x} \in B PROVE FALSE
  BY <1>3, <1>4 DEF StrictSubsetOrdering
<1> QED BY <1>4

LEMMA RowSize ==
  ASSUME NEW x, NEW n \in Nat
  PROVE  IsFiniteSet({x} \X (1 .. n)) /\ Cardinality({x} \X (1 .. n)) = n
<1>1. PICK f : f = [k \in 1 .. n |-> <<x, k>>]
  OBVIOUS
<1>2. f \in Bijection(1 .. n, {x} \X (1 .. n))
  <2>1. \A c : c \in {x} \X (1 .. n) <=> \E k \in 1 .. n : c = <<x, k>>
    OBVIOUS
  <2>2. f \in [1 .. n -> {x} \X (1 .. n)] /\ \A j, k \in 1 .. n : f[j] = f[k] => j = k
    BY <1>1
  <2>3. \A c \in {x} \X (1 .. n) : \E k \in 1 .. n : f[k] = c
    BY <1>1, <2>1
  <2> QED BY <2>2, <2>3 DEF Bijection, Injection, Surjection, IsInjective
<1>3. ExistsBijection(1 .. n, {x} \X (1 .. n))
  BY <1>2 DEF ExistsBijection
<1>4. IsFiniteSet(1 .. n) /\ Cardinality(1 .. n) = n
  BY FS_Interval
<1> QED BY <1>3, <1>4, FS_Bijection

LEMMA CellsSplit ==
  ASSUME NEW S, NEW f \in [S -> Nat], NEW s \in SUBSET S, NEW x \in s
  PROVE  /\ Cells(f, s) = Cells(f, s \ {x}) \cup ({x} \X (1 .. f[x]))
         /\ Cells(f, s \ {x}) \cap ({x} \X (1 .. f[x])) = {}
<1>1. f[x] \in Nat
  OBVIOUS
<1>2. \A c : c \in {x} \X (1 .. f[x]) <=> c \in {x} \X Nat /\ 1 <= c[2] /\ c[2] <= f[x]
  BY <1>1
<1>3. \A c : c \in s \X Nat <=> (c \in (s \ {x}) \X Nat \/ c \in {x} \X Nat)
  OBVIOUS
<1>4. \A c : c \in {x} \X Nat => c[1] = x /\ c \notin (s \ {x}) \X Nat
  OBVIOUS
<1> QED BY <1>2, <1>3, <1>4 DEF Cells

LEMMA CellsFinite ==
  ASSUME NEW S, IsFiniteSet(S), NEW f \in [S -> Nat], NEW s \in SUBSET S
  PROVE  IsFiniteSet(Cells(f, s)) /\ Cardinality(Cells(f, s)) \in Nat
<1> DEFINE Bad == {u \in SUBSET S : ~IsFiniteSet(Cells(f, u))}
<1>1. SUFFICES ASSUME Bad # {} PROVE FALSE
  BY FS_CardinalityType
<1>2. PICK u \in Bad : \A x \in u : u \ {x} \notin Bad
  <2>1. Bad \subseteq SUBSET S
    OBVIOUS
  <2> HIDE DEF Bad
  <2> QED BY <1>1, <2>1, LeastSubset
<1>3. CASE u = {}
  <2>1. Cells(f, u) = {}
    BY <1>3 DEF Cells
  <2> QED BY <1>2, <2>1, FS_EmptySet
<1>4. CASE u # {}
  <2>1. PICK x \in u : IsFiniteSet(Cells(f, u \ {x}))
    BY <1>2, <1>4
  <2>2. IsFiniteSet({x} \X (1 .. f[x])) /\ u \in SUBSET S
    <3>1. u \in SUBSET S /\ f[x] \in Nat
      BY <1>2
    <3> QED BY <3>1, RowSize
  <2>3. Cells(f, u) = Cells(f, u \ {x}) \cup ({x} \X (1 .. f[x]))
    BY <2>2, CellsSplit
  <2>4. IsFiniteSet(Cells(f, u \ {x}) \cup ({x} \X (1 .. f[x])))
    BY <2>1, <2>2, FS_Union
  <2>5. IsFiniteSet(Cells(f, u))
    BY <2>3, <2>4
  <2> QED BY <1>2, <2>5
<1> QED BY <1>3, <1>4

(* The recursion of MapThenSumSet.                                          *)
SumsUp(v, f, S) ==
  v = [s \in SUBSET S |-> IF s = {} THEN 0 ELSE f[Chosen(s)] + v[s \ {Chosen(s)}]]

LEMMA CellsSumUp ==
  ASSUME NEW S, IsFiniteSet(S), NEW f \in [S -> Nat]
  PROVE  SumsUp([s \in SUBSET S |-> Cardinality(Cells(f, s))], f, S)
<1> DEFINE w == [s \in SUBSET S |-> Cardinality(Cells(f, s))]
           e(s) == IF s = {} THEN 0 ELSE f[Chosen(s)] + w[s \ {Chosen(s)}]
<1>1. ASSUME NEW s \in SUBSET S PROVE Cardinality(Cells(f, s)) = e(s)
  <2>1. CASE s = {}
    <3>1. Cells(f, s) = {}
      BY <2>1 DEF Cells
    <3> QED BY <2>1, <3>1, FS_EmptySet
  <2>2. CASE s # {}
    <3>1. PICK x \in s : x = Chosen(s)
      BY <2>2 DEF Chosen
    <3>2. s \ {x} \in SUBSET S /\ f[x] \in Nat
      OBVIOUS
    <3>3. /\ IsFiniteSet(Cells(f, s \ {x})) /\ Cardinality(Cells(f, s \ {x})) \in Nat
          /\ IsFiniteSet({x} \X (1 .. f[x])) /\ Cardinality({x} \X (1 .. f[x])) = f[x]
      BY <3>2, CellsFinite, RowSize
    <3>4. /\ Cells(f, s) = Cells(f, s \ {x}) \cup ({x} \X (1 .. f[x]))
          /\ Cells(f, s \ {x}) \cap ({x} \X (1 .. f[x])) = {}
      BY CellsSplit
    <3>5. Cardinality(Cells(f, s)) = Cardinality(Cells(f, s \ {x})) + f[x]
      BY <3>3, <3>4, Grown
    <3>6. w[s \ {x}] = Cardinality(Cells(f, s \ {x}))
      BY <3>2
    <3>7. e(s) = f[x] + w[s \ {x}]
      BY <2>2, <3>1
    <3> HIDE DEF e, w
    <3> QED BY <3>2, <3>3, <3>5, <3>6, <3>7
  <2> QED BY <2>1, <2>2
<1>2. w = [s \in SUBSET S |-> e(s)]
  BY <1>1
<1> QED BY <1>2 DEF SumsUp

LEMMA OneSum ==
  ASSUME NEW S, IsFiniteSet(S), NEW f \in [S -> Nat], NEW v, NEW w, SumsUp(v, f, S), SumsUp(w, f, S)
  PROVE  v = w
<1> DEFINE Bad == {u \in SUBSET S : v[u] # w[u]}
<1>0. /\ v = [s \in SUBSET S |-> v[s]] /\ w = [s \in SUBSET S |-> w[s]]
      /\ \A s \in SUBSET S : v[s] = IF s = {} THEN 0 ELSE f[Chosen(s)] + v[s \ {Chosen(s)}]
      /\ \A s \in SUBSET S : w[s] = IF s = {} THEN 0 ELSE f[Chosen(s)] + w[s \ {Chosen(s)}]
  BY DEF SumsUp
<1>1. CASE Bad = {}
  BY <1>0, <1>1
<1>2. CASE Bad # {}
  <2>1. PICK u \in Bad : \A x \in u : u \ {x} \notin Bad
    <3>1. Bad \subseteq SUBSET S
      OBVIOUS
    <3> HIDE DEF Bad
    <3> QED BY <1>2, <3>1, LeastSubset
  <2>2. u # {}
    BY <1>0, <2>1
  <2>3. PICK x \in u : x = Chosen(u)
    BY <2>2 DEF Chosen
  <2>4. v[u \ {x}] = w[u \ {x}]
    BY <2>1
  <2> QED BY <1>0, <2>1, <2>2, <2>3, <2>4
<1> QED BY <1>1, <1>2

LEMMA InstructionsType ==
  ASSUME NEW S \in SUBSET Tile, IsFiniteSet(S)
  PROVE  MapThenSumSet(LAMBDA t : Kind(t).ins, S) \in Nat
<1> DEFINE f == [t \in S |-> Kind(t).ins]
<1>1. PICK w : w = [s \in SUBSET S |-> Cardinality(Cells(f, s))]
  OBVIOUS
<1>2. f \in [S -> Nat] /\ \A t \in S : f[t] = Kind(t).ins
  <2>1. ASSUME NEW t \in S PROVE Kind(t).ins \in Nat
    <3>1. PICK l \in Layer : t \in {l} \X (1 .. Len(TilesOf[l]))
      BY DEF Tile
    <3>2. TilesOf[l] \in Seq(TileKind)
      BY DispatchAssumption
    <3>3. TilesOf[l][t[2]] \in TileKind
      BY <3>1, <3>2, ElementOfSeq
    <3> QED BY <3>1, <3>3 DEF Kind, TileKind
  <2> QED BY <2>1
<1> HIDE DEF f
<1>3. SumsUp(w, f, S) /\ w[S] \in Nat
  BY <1>1, <1>2, CellsSumUp, CellsFinite
<1>4. ASSUME NEW v
      PROVE  v = [s \in SUBSET S |-> IF s = {} THEN 0 ELSE Kind(Chosen(s)).ins + v[s \ {Chosen(s)}]]
             <=> SumsUp(v, f, S)
  <2>1. \A s \in SUBSET S : s # {} => Chosen(s) \in S
    BY DEF Chosen
  <2>2. \A s \in SUBSET S : (IF s = {} THEN 0 ELSE Kind(Chosen(s)).ins + v[s \ {Chosen(s)}])
                            = (IF s = {} THEN 0 ELSE f[Chosen(s)] + v[s \ {Chosen(s)}])
    BY <1>2, <2>1
  <2>3. [s \in SUBSET S |-> IF s = {} THEN 0 ELSE Kind(Chosen(s)).ins + v[s \ {Chosen(s)}]]
        = [s \in SUBSET S |-> IF s = {} THEN 0 ELSE f[Chosen(s)] + v[s \ {Chosen(s)}]]
    BY <2>2
  <2> QED BY <2>3, Zenon DEF SumsUp
<1>5. /\ w = [s \in SUBSET S |-> IF s = {} THEN 0 ELSE Kind(Chosen(s)).ins + w[s \ {Chosen(s)}]]
      /\ \A v : v = [s \in SUBSET S |-> IF s = {} THEN 0 ELSE Kind(Chosen(s)).ins + v[s \ {Chosen(s)}]] => v = w
  BY <1>2, <1>3, <1>4, OneSum
<1>6. MapThenSumSet(LAMBDA t : Kind(t).ins, S) = w[S]
  BY <1>5, Zenon DEF MapThenSumSet, MapThenFoldSet, Chosen
<1> QED BY <1>3, <1>6

(* Nothing is added for no tile.                                             *)
LEMMA NoInstructions == MapThenSumSet(LAMBDA t : Kind(t).ins, {}) = 0
<1>1. PICK w : w = [s \in SUBSET {} |-> 0]
  OBVIOUS
<1>2. /\ w = [s \in SUBSET {} |-> IF s = {} THEN 0 ELSE Kind(Chosen(s)).ins + w[s \ {Chosen(s)}]]
      /\ \A v : v = [s \in SUBSET {} |-> IF s = {} THEN 0 ELSE Kind(Chosen(s)).ins + v[s \ {Chosen(s)}]] => v = w
  <2>1. \A s \in SUBSET {} : s = {}
    OBVIOUS
  <2> QED BY <1>1, <2>1
<1>3. MapThenSumSet(LAMBDA t : Kind(t).ins, {}) = w[{}]
  BY <1>2, Zenon DEF MapThenSumSet, MapThenFoldSet, Chosen
<1> QED BY <1>1, <1>3
=============================================================================
