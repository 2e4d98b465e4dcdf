--------------------------- MODULE LayerTilesProofs ---------------------------
(***************************************************************************)
(* Proofs about LayerTiles.  The tiles of gemm_mapping cover every loop of *)
(* a matrix product, each element once and no tile in vain, whatever the   *)
(* first cut of the loop was: for every size, every cut and every array.   *)
(* The search for the mapping of a convolution stays between a tile of one *)
(* element and the whole convolution, and in the scratchpads, for every    *)
(* convolution on every core.  The program of every tile of every          *)
(* operation, as the loops of initialize_tiles make them, is one that the  *)
(* core can run to its end.                                                *)
(***************************************************************************)
EXTENDS LayerTiles, TLAPS, WellFoundedInduction, FiniteSetTheorems, SequenceTheorems

-----------------------------------------------------------------------------
(* The mapping of a matrix product.                                         *)

(* ceil_div rounds up.                                                      *)
LEMMA CeilDivBounds ==
  ASSUME NEW a \in Positive, NEW b \in Positive
  PROVE  /\ CeilDiv(a, b) \in Positive
         /\ (CeilDiv(a, b) - 1) * b < a
         /\ a <= CeilDiv(a, b) * b
<1> DEFINE q == (a + b - 1) \div b
           r == (a + b - 1) % b
<1>1. q \in Int /\ r \in 0 .. b - 1 /\ a + b - 1 = b * q + r
  BY DEF Positive
<1> HIDE DEF q, r
<1>2. b * q + r = q * b + r /\ (q - 1) * b = q * b - b /\ q * b \in Int
  BY <1>1 DEF Positive
<1>3. (q - 1) * b < a /\ a <= q * b
  BY <1>1, <1>2 DEF Positive
<1>4. q > 0
  <2>1. SUFFICES ASSUME q <= 0 PROVE FALSE
    BY <1>1
  <2>2. q * b <= 0
    BY <2>1, <1>1 DEF Positive
  <2> QED
    BY <2>2, <1>2, <1>3 DEF Positive
<1> QED
  BY <1>1, <1>3, <1>4 DEF CeilDiv, Positive, q

(* No tile of a loop is empty.                                              *)
LEMMA InnerPositive ==
  ASSUME NEW x \in Positive, NEW cut \in Positive, NEW dim \in Positive
  PROVE  Inner(x, cut, dim) \in Positive
<1> DEFINE blocks == (PadUp(x, dim) \div cut) \div dim
<1>1. PadUp(x, dim) \in Positive
  <2>1. CeilDiv(x, dim) \in Positive
    BY CeilDivBounds
  <2> QED
    BY <2>1 DEF PadUp, Positive
<1>2. blocks * dim \in Int
  BY <1>1 DEF Positive
<1>3. AtLeast(dim, blocks * dim) \in Positive
  BY <1>2 DEF AtLeast, Positive
<1> QED
  BY <1>1, <1>3 DEF Inner

(* The number of tiles is the least that covers the loop.                   *)
LEMMA OuterBounds ==
  ASSUME NEW x \in Positive, NEW inner \in Positive
  PROVE  /\ Outer(x, inner) \in Positive
         /\ (Outer(x, inner) - 1) * inner < x
         /\ x <= Outer(x, inner) * inner
<1>1. CeilDiv(x, inner) \in Positive
  BY CeilDivBounds
<1>2. Outer(x, inner) = CeilDiv(x, inner)
  BY <1>1 DEF Outer, AtLeast, Positive
<1> QED
  BY <1>2, CeilDivBounds

(* MappingTable::gemm_mapping: each element of a loop is in one tile of it, *)
(* and each tile has one.                                                   *)
Tiles(x, inner) == 0 .. Outer(x, inner) - 1
InTile(e, t, inner) == t * inner <= e /\ e < (t + 1) * inner

CoversLoop(x, inner) ==
  /\ \A e \in 0 .. x - 1 : \E t \in Tiles(x, inner) : InTile(e, t, inner)
  /\ \A e \in 0 .. x - 1 : \A t, u \in Tiles(x, inner) :
       InTile(e, t, inner) /\ InTile(e, u, inner) => t = u
  /\ \A t \in Tiles(x, inner) : t * inner \in 0 .. x - 1

(* However often a loop was cut at first, its tiles cover it.               *)
THEOREM TilesCoverLoop ==
  ASSUME NEW x \in Positive, NEW cut \in Positive, NEW dim \in Positive
  PROVE  CoversLoop(x, Inner(x, cut, dim))
<1> DEFINE inner == Inner(x, cut, dim)
           outer == Outer(x, inner)
<1>1. inner \in Positive
  BY InnerPositive
<1> HIDE DEF inner
<1>2. outer \in Positive /\ (outer - 1) * inner < x /\ x <= outer * inner
  BY <1>1, OuterBounds
<1> HIDE DEF outer
<1>3. ASSUME NEW e \in 0 .. x - 1
      PROVE  \E t \in 0 .. outer - 1 : InTile(e, t, inner)
  <2> DEFINE t == e \div inner
             r == e % inner
  <2>1. t \in Int /\ r \in 0 .. inner - 1 /\ e = inner * t + r
    BY <1>1 DEF Positive
  <2> HIDE DEF t, r
  <2>2. inner * t = t * inner /\ (t + 1) * inner = t * inner + inner /\ t * inner \in Int
    BY <1>1, <2>1 DEF Positive
  <2>3. t * inner <= e /\ e < (t + 1) * inner
    BY <1>1, <2>1, <2>2 DEF Positive
  <2>4. t >= 0
    <3>1. SUFFICES ASSUME t + 1 <= 0 PROVE FALSE
      BY <2>1
    <3>2. (t + 1) * inner <= 0
      BY <3>1, <2>1, <1>1 DEF Positive
    <3> QED
      BY <3>2, <2>2, <2>3, <1>1 DEF Positive
  <2>5. t < outer
    <3>1. SUFFICES ASSUME outer <= t PROVE FALSE
      BY <1>2, <2>1 DEF Positive
    <3>2. outer * inner <= t * inner
      BY <3>1, <1>1, <1>2, <2>1 DEF Positive
    <3>3. outer * inner \in Int
      BY <1>1, <1>2 DEF Positive
    <3> QED
      BY <3>2, <3>3, <1>2, <2>2, <2>3 DEF Positive
  <2> QED
    BY <2>1, <2>3, <2>4, <2>5, <1>2 DEF InTile, Positive
<1>4. ASSUME NEW e \in 0 .. x - 1, NEW t \in 0 .. outer - 1, NEW u \in 0 .. outer - 1,
             InTile(e, t, inner), InTile(e, u, inner), t < u
      PROVE  FALSE
  <2>1. (t + 1) * inner <= u * inner
    BY <1>4, <1>1, <1>2 DEF Positive
  <2>2. (t + 1) * inner \in Int /\ u * inner \in Int
    BY <1>1, <1>2 DEF Positive
  <2> QED
    BY <2>1, <2>2, <1>4 DEF InTile
<1>5. ASSUME NEW t \in 0 .. outer - 1
      PROVE  t * inner \in 0 .. x - 1
  <2>1. t * inner <= (outer - 1) * inner
    BY <1>1, <1>2 DEF Positive
  <2>2. t * inner >= 0 /\ t * inner \in Int /\ (outer - 1) * inner \in Int
    BY <1>1, <1>2 DEF Positive
  <2> QED
    BY <2>1, <2>2, <1>2 DEF Positive
<1>6. \A e \in 0 .. x - 1 : \A t, u \in 0 .. outer - 1 :
        InTile(e, t, inner) /\ InTile(e, u, inner) => t = u
  BY <1>2, <1>4 DEF Positive
<1> QED
  BY <1>3, <1>5, <1>6 DEF Tiles, CoversLoop, inner, outer

(***************************************************************************)
(* The mapping itself, of a product and its core as gemm_mapping is given  *)
(* them.                                                                   *)
(***************************************************************************)
Product(g) ==
  /\ g.N \in Positive /\ g.C \in Positive /\ g.M \in Positive
  /\ g.core.dim \in Positive /\ g.core.precision \in Positive /\ g.core.cores \in Positive
  /\ g.core.spad \in Nat /\ g.core.acc \in Nat

(* At least one.                                                            *)
LEMMA AtLeastOne ==
  ASSUME NEW a \in Int PROVE AtLeast(1, a) \in Positive
BY DEF AtLeast, Positive

(* A quotient of sizes.                                                     *)
LEMMA QuotientNat ==
  ASSUME NEW a \in Nat, NEW b \in Positive PROVE a \div b \in Nat
BY DEF Positive

(* A product of sizes.                                                      *)
LEMMA ProductPositive ==
  ASSUME NEW a \in Positive, NEW b \in Positive PROVE a * b \in Positive
BY DEF Positive

(* The first cut of a loop.                                                 *)
LEMMA CutPositive ==
  ASSUME NEW x \in Positive, NEW blocks \in Positive, NEW dim \in Positive
  PROVE  Cut(x, blocks, dim) \in Positive
<1>1. PadUp(x, dim) \div dim \in Int
  <2>1. CeilDiv(x, dim) \in Positive
    BY CeilDivBounds
  <2> QED
    BY <2>1 DEF PadUp, Positive
<1>2. CeilDiv(x, blocks * dim) \in Positive
  BY ProductPositive, CeilDivBounds
<1>3. AtMost(PadUp(x, dim) \div dim, CeilDiv(x, blocks * dim)) \in Int
  BY <1>1, <1>2 DEF AtMost, Positive
<1> QED
  BY <1>3, AtLeastOne DEF Cut

(* The parts that a loop is cut into for all cores.                         *)
LEMMA SpreadPositive ==
  ASSUME NEW core, core.cores \in Positive, NEW a \in Positive, NEW b \in Positive
  PROVE  Spread(core, a, b) \in Positive
<1>1. CeilDiv(core.cores, a * b) \in Positive
  BY ProductPositive, CeilDivBounds
<1> QED
  BY <1>1 DEF Spread, Positive

(* A set of numbers that is not empty has a least one.                      *)
LEMMA LeastNumber ==
  ASSUME NEW T, T \subseteq Nat, T # {}
  PROVE  \E x \in T : \A y \in T : x <= y
<1>1. PICK x \in T : \A y \in T : <<y, x>> \notin OpToRel(<, Nat)
  BY NatLessThanWellFounded, WFMin
<1>2. ASSUME NEW y \in T, y < x PROVE FALSE
  <2>1. <<y, x>> \in Nat \X Nat
    OBVIOUS
  <2>2. <<y, x>> \in OpToRel(<, Nat)
    BY <2>1, <1>2 DEF OpToRel
  <2> QED
    BY <2>2, <1>1
<1> QED
  BY <1>2

(* The choice of RoundedRoot is never in vain.                              *)
LEMMA RoundedRootExists ==
  ASSUME NEW a \in Nat
  PROVE  RoundedRoot(a) \in 0 .. a
<1> DEFINE T == {r \in Nat : a < (r + 1) * (r + 1)}
<1>1. a \in T
  <2>1. (a + 1) * (a + 1) = a * a + a + a + 1 /\ a * a >= 0
    OBVIOUS
  <2> QED
    BY <2>1
<1>2. PICK r \in T : \A s \in T : r <= s
  BY <1>1, LeastNumber
<1>3. r * r <= a
  <2>1. CASE r = 0
    BY <2>1
  <2>2. CASE r # 0
    <3>1. r - 1 \in Nat /\ r - 1 \notin T
      BY <1>2, <2>2
    <3> QED
      BY <3>1
  <2> QED
    BY <2>1, <2>2
<1>4. r <= a
  BY <1>2, <1>1
<1>5. \E q \in 0 .. a : q * q <= a /\ a < (q + 1) * (q + 1)
  <2>1. r \in 0 .. a /\ a < (r + 1) * (r + 1)
    BY <1>4
  <2> QED
    BY <2>1, <1>3
<1> QED
  BY <1>5, Zenon DEF RoundedRoot

(* The sizes that gemm_mapping starts from.                                 *)
LEMMA SizesPositive ==
  ASSUME NEW g, Product(g)
  PROVE  Side(g.core) \in Positive /\ Thick(g.core) \in Positive
<1> USE DEF Product
<1>1. Side(g.core) \in Positive
  <2>1. MaxAccRows(g.core) \in Nat
    <3>1. g.core.dim * 4 * 2 \in Positive /\ g.core.acc * 1024 \in Nat
      BY DEF Positive
    <3> QED
      BY <3>1, QuotientNat DEF MaxAccRows
  <2>2. MaxAccRows(g.core) \div g.core.dim \in Nat
    BY <2>1, QuotientNat
  <2>3. AccBlocks(g.core) \in Nat
    BY <2>2, AtLeastOne DEF AccBlocks, Positive
  <2> QED
    BY <2>3, RoundedRootExists, AtLeastOne DEF Side
<1>2. MaxSpadRows(g.core) \in Nat
  <2>1. g.core.dim * g.core.precision * 2 \in Positive
    BY DEF Positive
  <2>2. g.core.spad * 1024 \in Nat
    OBVIOUS
  <2> QED
    BY <2>1, <2>2, QuotientNat DEF MaxSpadRows
<1>3. PartBlocks(g.core) \in Positive
  <2>1. MaxSpadRows(g.core) \div 2 \in Nat
    BY <1>2
  <2>2. (MaxSpadRows(g.core) \div 2) \div g.core.dim \in Nat
    BY <2>1, QuotientNat
  <2> QED
    BY <2>2, AtLeastOne DEF PartBlocks
<1>4. PartBlocks(g.core) \div Side(g.core) \in Nat
  BY <1>1, <1>3, QuotientNat DEF Positive
<1> QED
  BY <1>1, <1>4, AtLeastOne DEF Thick

(* No first cut of a loop is empty, nor one that all cores share.           *)
LEMMA CutsPositive ==
  ASSUME NEW g, Product(g)
  PROVE  CutN(g) \in Positive /\ CutM(g) \in Positive /\ CutC(g) \in Positive
<1>1. Side(g.core) \in Positive /\ Thick(g.core) \in Positive
  BY SizesPositive
<1>2. g.N \in Positive /\ g.C \in Positive /\ g.M \in Positive /\ g.core.dim \in Positive /\ g.core.cores \in Positive
  BY DEF Product
<1> DEFINE cutN == Cut(g.N, Side(g.core), g.core.dim)
           cutM == Cut(g.M, Side(g.core), g.core.dim)
<1>3. cutN \in Positive /\ cutM \in Positive /\ CutC(g) \in Positive
  BY <1>1, <1>2, CutPositive DEF CutC
<1> HIDE DEF cutN, cutM
<1>4. Spread(g.core, cutN, cutM) \in Positive
  BY <1>2, <1>3, SpreadPositive
<1>5. cutN * Spread(g.core, cutN, cutM) \in Positive /\ cutM * Spread(g.core, cutN, cutM) \in Positive
  BY <1>3, <1>4, ProductPositive
<1> QED BY <1>3, <1>5 DEF CutN, CutM, cutN, cutM

(* gemm_mapping: the tiles of each of the three loops cover it, whichever   *)
(* loop is cut further to occupy all cores.                                 *)
THEOREM MappingCovers ==
  ASSUME NEW g, Product(g)
  PROVE  /\ CoversLoop(g.N, Mapping(g).inN) /\ Mapping(g).outN = Outer(g.N, Mapping(g).inN)
         /\ CoversLoop(g.C, Mapping(g).inC) /\ Mapping(g).outC = Outer(g.C, Mapping(g).inC)
         /\ CoversLoop(g.M, Mapping(g).inM) /\ Mapping(g).outM = Outer(g.M, Mapping(g).inM)
<1>1. g.N \in Positive /\ g.C \in Positive /\ g.M \in Positive /\ g.core.dim \in Positive
  BY DEF Product
<1>2. CoversLoop(g.N, InnerN(g)) /\ CoversLoop(g.C, InnerC(g)) /\ CoversLoop(g.M, InnerM(g))
  BY <1>1, CutsPositive, TilesCoverLoop DEF InnerN, InnerC, InnerM
<1> QED BY <1>2 DEF Mapping

-----------------------------------------------------------------------------
(* The search for the mapping of a convolution.                             *)

(* What the search assumes and no code checks: a tile of one element fits.  *)
UnitTile == [i \in Sizes |-> 1]
UnitTileFits == layer.op = "conv" => FitsRows(UnitTile)

SearchInv ==
  /\ layer \in Layer
  /\ turn \in 1 .. 8
  /\ layer.op # "conv" => search = "done"
  /\ layer.op = "conv" =>
       /\ args \in [Sizes -> Positive]
       /\ \A i \in Sizes : args[i] <= MaxArgs[i]
       /\ search # "shrink" => FitsRows(args)

-----------------------------------------------------------------------------
(* The convolution and its largest tile.                                   *)

(* The shape of a convolution.                                              *)
LEMMA ConvFacts ==
  ASSUME layer \in Layer, layer.op = "conv"
  PROVE  /\ layer \in ConvKind /\ layer.P \in Positive /\ layer.M \in Positive /\ layer.K \in Positive /\ layer.C \in Positive
         /\ Core.dim \in Positive
<1>1. layer \in ProductKind \cup ConvKind \cup AttentionKind \cup SelfAttentionKind \cup MambaKind \cup RowKind
  BY LayerAssumption
<1>2. layer \notin ProductKind
  BY DEF ProductKind
<1>3. layer \notin AttentionKind /\ layer \notin SelfAttentionKind
  BY DEF AttentionKind, SelfAttentionKind
<1>4. layer \notin MambaKind
  BY DEF MambaKind
<1>5. layer \notin RowKind
  BY DEF RowKind
<1>6. layer \in ConvKind
  BY <1>1, <1>2, <1>3, <1>4, <1>5
<1>7. layer.core \in CoreConfig
  BY <1>6 DEF ConvKind
<1>8. Core.dim \in Positive
  BY <1>7 DEF Core, CoreConfig, Positive
<1> QED BY <1>6, <1>8 DEF ConvKind

(* The largest tile has no size of zero.                                    *)
LEMMA MaxArgsType ==
  ASSUME layer \in Layer, layer.op = "conv"
  PROVE  MaxArgs \in [Sizes -> Positive]
<1>1. layer.P \in Positive /\ layer.M \in Positive /\ layer.K \in Positive /\ layer.C \in Positive /\ 1 \in Positive
  BY ConvFacts DEF Positive
<1> QED BY <1>1 DEF MaxArgs, Sizes

-----------------------------------------------------------------------------
(* A smaller tile has no size of zero.                                     *)

(* The channels go down to a multiple of the width of the array, or to one. *)
LEMMA LessChannelsBounds ==
  ASSUME NEW n \in Positive, Core.dim \in Positive
  PROVE  LessChannels(n) \in Positive /\ LessChannels(n) <= n
<1>1. PICK d \in Positive : d = Core.dim
  OBVIOUS
<1> DEFINE q == n \div d
           r == n % d
<1>2. q \in Int /\ r \in 0 .. d - 1 /\ n = d * q + r
  BY DEF Positive
<1>3. LessChannels(n) = AtLeast(1, IF r # 0 THEN q * d ELSE n - d)
  BY <1>1 DEF LessChannels
<1> HIDE DEF q, r
<1>4. q * d = d * q /\ q * d \in Int
  BY <1>2 DEF Positive
<1>5. q * d <= n
  BY <1>2, <1>4 DEF Positive
<1> QED BY <1>3, <1>4, <1>5 DEF AtLeast, Positive

(* The largest size that may shrink is more than one, or the tile is of one *)
(* element: the rows may always shrink, and the columns if there is one row.*)
LEMMA LargestIsMany ==
  ASSUME NEW a \in [Sizes -> Positive], NEW i \in Sizes, Largest(a, i), a # UnitTile, Core.dim \in Positive
  PROVE  a[i] > 1
<1> SUFFICES ASSUME a[i] <= 1 PROVE FALSE
  BY DEF Positive
<1>1. \A j \in Sizes : MayShrink(a, j) => a[j] <= a[i]
  BY DEF Largest
<1>2. \A j \in Sizes : MayShrink(a, j) => a[j] = 1
  BY <1>1 DEF Positive
<1>3. Rows \in Sizes /\ Columns \in Sizes /\ Rows # Columns
  BY DEF Rows, Columns, Sizes
<1>4. \A j \in Sizes : j # Columns => a[j] = 1
  BY <1>2 DEF MayShrink
<1>5. a[Columns] = 1
  BY <1>2, <1>3, <1>4 DEF MayShrink
<1>6. \A j \in Sizes : a[j] = 1
  BY <1>4, <1>5
<1> QED BY <1>6 DEF UnitTile

(* The search shrinks the tile by one size at a time.                       *)
LEMMA ShrinkInv ==
  ASSUME SearchInv, UnitTileFits, Shrink, UNCHANGED <<layer, mapping>>
  PROVE  SearchInv'
<1>1. layer.op = "conv" /\ layer \in Layer
  BY DEF SearchInv, Shrink
<1>2. Core.dim \in Positive /\ MaxArgs \in [Sizes -> Positive] /\ args \in [Sizes -> Positive]
  BY <1>1, ConvFacts, MaxArgsType DEF SearchInv
<1>3. layer' = layer /\ MaxArgs' = MaxArgs /\ turn' = turn /\ search = "shrink"
  BY DEF Shrink, MaxArgs
<1>4. CASE FitsRows(args)
  <2>1. args' = args
    BY <1>4 DEF Shrink
  <2>2. FitsRows(args)'
    BY <1>3, <1>4, <2>1 DEF FitsRows, SpadRows, AccRows, MaxSpadRows, MaxAccRows, Core, InputSide, Downsample
  <2> QED BY <1>1, <1>3, <2>1, <2>2 DEF SearchInv
<1>5. CASE ~FitsRows(args)
  <2>1. PICK i \in Sizes : Largest(args, i) /\ args' = [args EXCEPT ![i] = Less(args, i)]
    BY <1>3, <1>5 DEF Shrink
  <2>2. search' = "shrink"
    BY <1>3, <1>5 DEF Shrink
  <2>3. args # UnitTile
    BY <1>1, <1>5 DEF UnitTileFits
  <2>4. args[i] > 1 /\ args[i] \in Positive
    BY <1>2, <2>1, <2>3, LargestIsMany
  <2>5. Less(args, i) \in Positive /\ Less(args, i) <= args[i]
    BY <1>2, <2>4, LessChannelsBounds DEF Less, Positive
  <2>6. args' \in [Sizes -> Positive]
    BY <1>2, <2>1, <2>5
  <2>7. ASSUME NEW j \in Sizes PROVE args'[j] <= MaxArgs[j]
    <3>1. args'[j] <= args[j] /\ args'[j] \in Positive /\ args[j] \in Positive /\ MaxArgs[j] \in Positive
      BY <1>2, <2>1, <2>5, <2>6 DEF Positive
    <3>2. args[j] <= MaxArgs[j]
      BY <1>1 DEF SearchInv
    <3> QED BY <3>1, <3>2 DEF Positive
  <2> QED BY <1>1, <1>3, <2>2, <2>6, <2>7 DEF SearchInv
<1> QED BY <1>4, <1>5

(* One more of a size that may grow.                                        *)
LEMMA GrownTile ==
  ASSUME SearchInv, layer.op = "conv", NEW i \in Sizes, MayGrow(args, i)
  PROVE  /\ More(args, i) \in [Sizes -> Positive]
         /\ \A j \in Sizes : More(args, i)[j] <= MaxArgs[j]
         /\ FitsRows(More(args, i))
<1>1. args \in [Sizes -> Positive] /\ MaxArgs \in [Sizes -> Positive] /\ args[i] < MaxArgs[i]
  BY MaxArgsType DEF SearchInv, MayGrow
<1>2. \A j \in Sizes : args[j] <= MaxArgs[j]
  BY DEF SearchInv
<1>3. args[i] + 1 \in Positive /\ args[i] + 1 <= MaxArgs[i]
  BY <1>1 DEF Positive
<1> QED BY <1>1, <1>2, <1>3 DEF More, MayGrow

(* The sizes stay or one of them grows.                                     *)
LEMMA GrowthInv ==
  ASSUME SearchInv, layer.op = "conv", layer' = layer, turn' \in 1 .. 8, search # "shrink",
         \/ args' = args
         \/ \E i \in Sizes : MayGrow(args, i) /\ args' = More(args, i)
  PROVE  SearchInv'
<1>1. layer \in Layer /\ MaxArgs' = MaxArgs /\ (layer.op = "conv")'
  BY DEF SearchInv, MaxArgs
<1>2. /\ args' \in [Sizes -> Positive]
      /\ \A j \in Sizes : args'[j] <= MaxArgs[j]
      /\ FitsRows(args')
  BY GrownTile DEF SearchInv
<1>3. FitsRows(args)'
  BY <1>2 DEF FitsRows, SpadRows, AccRows, MaxSpadRows, MaxAccRows, Core, InputSide, Downsample
<1> QED BY <1>1, <1>2, <1>3 DEF SearchInv

(* Every step of the search keeps the sizes in their range,                 *)
LEMMA SearchStepInv ==
  ASSUME SearchInv, UnitTileFits, Search
  PROVE  SearchInv'
<1>1. layer' = layer /\ layer \in Layer
  BY DEF Search, SearchInv
<1>2. CASE Shrink /\ UNCHANGED mapping
  BY <1>1, <1>2, ShrinkInv
<1>3. CASE Widen
  <2>1. layer.op = "conv" /\ search # "shrink" /\ turn' \in 1 .. 8 /\ Columns \in Sizes
    BY <1>3 DEF Widen, SearchInv, Columns, Sizes
  <2>2. args' = args \/ (MayGrow(args, Columns) /\ args' = More(args, Columns))
    BY <1>3 DEF Widen
  <2> QED BY <1>1, <2>1, <2>2, GrowthInv
<1>4. CASE Grow
  <2>1. layer.op = "conv" /\ search # "shrink" /\ turn \in Sizes /\ turn' \in 1 .. 8
    BY <1>4 DEF Grow, SearchInv, Sizes
  <2>2. args' = args \/ (MayGrow(args, turn) /\ args' = More(args, turn))
    BY <1>4 DEF Grow
  <2> QED BY <1>1, <2>1, <2>2, GrowthInv
<1>5. CASE EndPass
  <2>1. layer.op = "conv" /\ search # "shrink" /\ turn' \in 1 .. 8 /\ args' = args
    BY <1>5 DEF EndPass, SearchInv
  <2> QED BY <1>1, <2>1, GrowthInv
<1> QED BY <1>2, <1>3, <1>4, <1>5 DEF Search, SearchStep

-----------------------------------------------------------------------------
(* where they are before it                                                 *)
LEMMA SearchInit == Init => SearchInv
<1> SUFFICES ASSUME Init PROVE SearchInv
  OBVIOUS
<1>1. layer \in Layer /\ turn = 1
  BY DEF Init
<1>2. CASE layer.op # "conv"
  BY <1>1, <1>2 DEF Init, SearchInv
<1>3. CASE layer.op = "conv"
  <2>1. args = MaxArgs /\ search = "shrink" /\ MaxArgs \in [Sizes -> Positive]
    BY <1>1, <1>3, MaxArgsType DEF Init
  <2>2. \A i \in Sizes : MaxArgs[i] <= MaxArgs[i]
    BY <2>1 DEF Positive
  <2> QED BY <1>1, <1>3, <2>1, <2>2 DEF SearchInv
<1> QED BY <1>2, <1>3

(* and stay while nothing is searched.                                      *)
LEMMA SearchKept ==
  ASSUME SearchInv, UNCHANGED <<layer, searchVars>>
  PROVE  SearchInv'
BY DEF SearchInv, searchVars, FitsRows, SpadRows, AccRows, MaxSpadRows, MaxAccRows, Core, InputSide, Downsample, MaxArgs

(* So does every step of the generation of tiles.                           *)
LEMMA SearchNext == SearchInv /\ UnitTileFits /\ [Next]_vars => SearchInv'
<1> SUFFICES ASSUME SearchInv, UnitTileFits, [Next]_vars PROVE SearchInv'
  OBVIOUS
<1>1. CASE Search
  BY <1>1, SearchStepInv
<1>2. CASE Begin \/ GenerateTile
  BY <1>2, SearchKept DEF Begin, GenerateTile
<1>3. CASE UNCHANGED vars
  BY <1>3, SearchKept DEF vars
<1>4. CASE Done
  BY <1>3, <1>4 DEF Done
<1> QED BY <1>1, <1>2, <1>3, <1>4 DEF Next

(* calc_conv_mapping never asks for a tile of nothing nor for one larger    *)
(* than the convolution, and never leaves the scratchpads again, as long as *)
(* a tile of one element fits: it shrinks one size at a time and has no     *)
(* other test for zero.                                                     *)
THEOREM SearchStaysInRange == Spec /\ []UnitTileFits => []ArgsInRange
<1>1. Init => SearchInv
  BY SearchInit
<1>2. SearchInv /\ UnitTileFits /\ [Next]_vars => SearchInv'
  BY SearchNext
<1>3. SearchInv => ArgsInRange
  <2> SUFFICES ASSUME SearchInv, layer.op = "conv"
               PROVE  (\A i \in Sizes : args[i] \in 1 .. MaxArgs[i]) /\ (search # "shrink" => FitsRows(args))
    BY DEF ArgsInRange
  <2>1. args \in [Sizes -> Positive] /\ MaxArgs \in [Sizes -> Positive]
    BY MaxArgsType DEF SearchInv
  <2> QED BY <2>1 DEF SearchInv, Positive
<1> QED BY <1>1, <1>2, <1>3, PTL DEF Spec

-----------------------------------------------------------------------------
(* A recursive function on 1..n, as Joined builds one.                      *)
LEMMA JoinedExists ==
  ASSUME NEW s, NEW n \in Nat
  PROVE  \E f : f = [i \in 1 .. n |-> IF i = 1 THEN s[i] ELSE f[i - 1] \o s[i]]
<1> DEFINE Step(f, i) == IF i = 1 THEN s[i] ELSE f[i - 1] \o s[i]
           Has(m) == \E f : f = [i \in 1 .. m |-> Step(f, i)]
           T == {m \in Nat : ~Has(m)}
<1> SUFFICES ASSUME T # {} PROVE FALSE
  OBVIOUS
<1>1. PICK m \in T : \A k \in T : m <= k
  BY LeastNumber
<1>2. CASE m = 0
  <2> DEFINE f == [i \in 1 .. 0 |-> s[i]]
  <2>1. f = [i \in 1 .. 0 |-> Step(f, i)]
    OBVIOUS
  <2> QED BY <1>1, <1>2, <2>1
<1>3. CASE m # 0
  <2>1. m - 1 \in Nat /\ Has(m - 1)
    <3> HIDE DEF Has
    <3> QED BY <1>1, <1>3
  <2>2. PICK g : g = [i \in 1 .. m - 1 |-> Step(g, i)]
    BY <2>1
  <2> DEFINE f == [i \in 1 .. m |-> IF i < m THEN g[i] ELSE Step(g, i)]
  <2>3. \A i \in 1 .. m : f[i] = Step(f, i)
    <3> SUFFICES ASSUME NEW i \in 1 .. m PROVE f[i] = Step(f, i)
      OBVIOUS
    <3>1. i # 1 => f[i - 1] = g[i - 1]
      BY <2>1
    <3>2. ASSUME i < m PROVE g[i] = Step(g, i)
      <4> HIDE DEF Step
      <4>1. i \in 1 .. m - 1
        BY <2>1, <3>2
      <4> QED BY <2>2, <4>1
    <3> QED BY <3>1, <3>2
  <2>4. f = [i \in 1 .. m |-> f[i]]
    OBVIOUS
  <2>5. f = [i \in 1 .. m |-> Step(f, i)]
    BY <2>3, <2>4
  <2> QED BY <1>1, <2>5
<1> QED BY <1>2, <1>3

(* Joined puts its parts together from the first to the last.               *)
LEMMA JoinedIs ==
  ASSUME NEW s, Len(s) \in Nat \ {0}
  PROVE  \E f : /\ f = [i \in 1 .. Len(s) |-> IF i = 1 THEN s[i] ELSE f[i - 1] \o s[i]]
                /\ Joined(s) = f[Len(s)]
<1> DEFINE Is(f) == f = [i \in 1 .. Len(s) |-> IF i = 1 THEN s[i] ELSE f[i - 1] \o s[i]]
<1>1. \E f : Is(f)
  BY JoinedExists
<1>2. Joined(s) = (CHOOSE f : Is(f))[Len(s)]
  BY DEF Joined
<1>3. Is(CHOOSE f : Is(f))
  BY <1>1
<1> QED BY <1>2, <1>3

(* The tiles of a product join their parts in this way.                     *)
LEMMA GemmJoined == \A s : Gemm!Joined(s) = Joined(s)
  BY DEF Joined, Gemm!Joined

(***************************************************************************)
(* Programs are put together from parts.  What a part asks of the core is  *)
(* stated for a core on which the places `there` are taken already.        *)
(***************************************************************************)
IsSeq(p) == \E S : p \in Seq(S)
PlacesUpTo(p, n) == {p[j].dest : j \in {i \in 1 .. n : p[i].op # "MOVOUT"}}
PlacesOf(p) == PlacesUpTo(p, Len(p))
RunsAt(p, k, there, waived) ==
  /\ p[k].op = "MOVIN" => p[k].dest \notin there /\ p[k].size > 0
  /\ p[k].op = "COMPUTE" => \A place \in p[k].srcs \ waived : place \in there /\ (place[1] = "acc" => p[k].fromAcc)
  /\ p[k].op = "MOVOUT" => p[k].dest \in there
RunsAfter(p, there, waived) ==
  \A k \in 1 .. Len(p) : RunsAt(p, k, there \cup PlacesUpTo(p, k - 1), waived)
NoLoads(p) == \A k \in 1 .. Len(p) : p[k].op # "MOVIN"

(* The instructions of two programs, one after the other.                   *)
LEMMA ConcatSeq ==
  ASSUME NEW p, NEW q, IsSeq(p), IsSeq(q)
  PROVE  /\ IsSeq(p \o q) /\ Len(p) \in Nat /\ Len(q) \in Nat /\ Len(p \o q) = Len(p) + Len(q)
         /\ \A k \in 1 .. Len(p) : (p \o q)[k] = p[k]
         /\ \A k \in 1 .. Len(q) : (p \o q)[Len(p) + k] = q[k]
<1>1. PICK S : p \in Seq(S)
  BY DEF IsSeq
<1>2. PICK T : q \in Seq(T)
  BY DEF IsSeq
<1>3. p \in Seq(S \cup T) /\ q \in Seq(S \cup T)
  BY <1>1, <1>2, SeqMonotonic
<1>4. p \o q \in Seq(S \cup T) /\ Len(p) \in Nat /\ Len(q) \in Nat /\ Len(p \o q) = Len(p) + Len(q)
  BY <1>3
<1>5. \A k \in 1 .. Len(p \o q) : (p \o q)[k] = IF k <= Len(p) THEN p[k] ELSE q[k - Len(p)]
  BY <1>3, ConcatProperties
<1> QED BY <1>4, <1>5 DEF IsSeq

(* The places that two programs take, one after the other.                  *)
LEMMA ConcatPlaces ==
  ASSUME NEW p, NEW q, IsSeq(p), IsSeq(q)
  PROVE  /\ \A n \in 0 .. Len(p) : PlacesUpTo(p \o q, n) = PlacesUpTo(p, n)
         /\ \A n \in 0 .. Len(q) : PlacesUpTo(p \o q, Len(p) + n) = PlacesOf(p) \cup PlacesUpTo(q, n)
         /\ PlacesOf(p \o q) = PlacesOf(p) \cup PlacesOf(q)
<1> USE ConcatSeq
<1>1. \A n \in 0 .. Len(p) : PlacesUpTo(p \o q, n) = PlacesUpTo(p, n)
  BY DEF PlacesUpTo
<1>2. ASSUME NEW n \in 0 .. Len(q)
      PROVE  PlacesUpTo(p \o q, Len(p) + n) = PlacesOf(p) \cup PlacesUpTo(q, n)
  <2>1. ASSUME NEW x \in PlacesUpTo(p \o q, Len(p) + n) PROVE x \in PlacesOf(p) \cup PlacesUpTo(q, n)
    <3>1. PICK j \in 1 .. Len(p) + n : (p \o q)[j].op # "MOVOUT" /\ x = (p \o q)[j].dest
      BY <2>1 DEF PlacesUpTo
    <3>2. CASE j <= Len(p)
      BY <3>1, <3>2 DEF PlacesOf, PlacesUpTo
    <3>3. CASE j > Len(p)
      <4>1. j - Len(p) \in 1 .. n /\ (p \o q)[Len(p) + (j - Len(p))] = q[j - Len(p)] /\ Len(p) + (j - Len(p)) = j
        BY <3>1, <3>3
      <4> QED BY <3>1, <4>1 DEF PlacesUpTo
    <3> QED BY <3>1, <3>2, <3>3
  <2>2. ASSUME NEW x \in PlacesOf(p) PROVE x \in PlacesUpTo(p \o q, Len(p) + n)
    <3>1. PICK j \in 1 .. Len(p) : p[j].op # "MOVOUT" /\ x = p[j].dest
      BY <2>2 DEF PlacesUpTo, PlacesOf
    <3>2. j \in 1 .. Len(p) + n /\ (p \o q)[j] = p[j]
      BY <3>1
    <3> QED BY <3>1, <3>2 DEF PlacesUpTo
  <2>3. ASSUME NEW x \in PlacesUpTo(q, n) PROVE x \in PlacesUpTo(p \o q, Len(p) + n)
    <3>1. PICK j \in 1 .. n : q[j].op # "MOVOUT" /\ x = q[j].dest
      BY <2>3 DEF PlacesUpTo
    <3>2. Len(p) + j \in 1 .. Len(p) + n /\ (p \o q)[Len(p) + j] = q[j]
      BY <3>1
    <3> QED BY <3>1, <3>2 DEF PlacesUpTo
  <2> QED BY <2>1, <2>2, <2>3
<1>3. PlacesOf(p \o q) = PlacesOf(p) \cup PlacesOf(q)
  BY <1>2 DEF PlacesOf
<1> QED BY <1>1, <1>2, <1>3

(* A program runs if its second part does where the first one has run.      *)
LEMMA ConcatRuns ==
  ASSUME NEW p, NEW q, IsSeq(p), IsSeq(q), NEW there, NEW waived,
         RunsAfter(p, there, waived), RunsAfter(q, there \cup PlacesOf(p), waived)
  PROVE  RunsAfter(p \o q, there, waived)
<1> DEFINE r == p \o q
<1> SUFFICES ASSUME NEW k \in 1 .. Len(r) PROVE RunsAt(r, k, there \cup PlacesUpTo(r, k - 1), waived)
  BY DEF RunsAfter
<1>1. Len(r) = Len(p) + Len(q) /\ Len(p) \in Nat /\ Len(q) \in Nat
  BY ConcatSeq
<1>2. CASE k <= Len(p)
  <2>1. k \in 1 .. Len(p) /\ k - 1 \in 0 .. Len(p)
    BY <1>1, <1>2
  <2>2. r[k] = p[k] /\ PlacesUpTo(r, k - 1) = PlacesUpTo(p, k - 1)
    BY <2>1, ConcatSeq, ConcatPlaces
  <2>3. RunsAt(p, k, there \cup PlacesUpTo(p, k - 1), waived)
    BY <2>1 DEF RunsAfter
  <2> HIDE DEF r
  <2> QED BY <2>2, <2>3 DEF RunsAt
<1>3. CASE k > Len(p)
  <2> DEFINE m == k - Len(p)
  <2>1. m \in 1 .. Len(q) /\ m - 1 \in 0 .. Len(q) /\ k = Len(p) + m /\ k - 1 = Len(p) + (m - 1)
    BY <1>1, <1>3
  <2> HIDE DEF m
  <2>2. r[k] = q[m] /\ PlacesUpTo(r, k - 1) = PlacesOf(p) \cup PlacesUpTo(q, m - 1)
    BY <2>1, ConcatSeq, ConcatPlaces
  <2>3. RunsAt(q, m, (there \cup PlacesOf(p)) \cup PlacesUpTo(q, m - 1), waived)
    BY <2>1 DEF RunsAfter
  <2>4. (there \cup PlacesOf(p)) \cup PlacesUpTo(q, m - 1) = there \cup PlacesUpTo(r, k - 1)
    BY <2>2
  <2> HIDE DEF r
  <2> QED BY <2>2, <2>3, <2>4 DEF RunsAt
<1> QED BY <1>1, <1>2, <1>3

(* Two programs without loads make one without.                             *)
LEMMA ConcatNoLoads ==
  ASSUME NEW p, NEW q, IsSeq(p), IsSeq(q), NoLoads(p), NoLoads(q)
  PROVE  NoLoads(p \o q)
<1> SUFFICES ASSUME NEW k \in 1 .. Len(p \o q) PROVE (p \o q)[k].op # "MOVIN"
  BY DEF NoLoads
<1>1. Len(p \o q) = Len(p) + Len(q) /\ Len(p) \in Nat /\ Len(q) \in Nat
  BY ConcatSeq
<1>2. CASE k <= Len(p)
  <2>1. k \in 1 .. Len(p)
    BY <1>1, <1>2
  <2>2. (p \o q)[k] = p[k]
    BY <2>1, ConcatSeq
  <2> QED BY <2>1, <2>2 DEF NoLoads
<1>3. CASE k > Len(p)
  <2>1. PICK m \in 1 .. Len(q) : k = Len(p) + m
    <3>1. k - Len(p) \in 1 .. Len(q) /\ k = Len(p) + (k - Len(p))
      BY <1>1, <1>3
    <3> QED BY <3>1
  <2>2. (p \o q)[k] = q[m]
    BY <2>1, ConcatSeq
  <2> QED BY <2>2 DEF NoLoads
<1> QED BY <1>1, <1>2, <1>3

(* The places that the first n parts take.                                  *)
PlacesOfParts(s, n) == UNION {PlacesOf(s[i]) : i \in 1 .. n}
PartsRun(s, there, waived) ==
  \A i \in 1 .. Len(s) : RunsAfter(s[i], there \cup PlacesOfParts(s, i - 1), waived)

(* The places of one part more.                                             *)
LEMMA MorePlaces ==
  ASSUME NEW s, NEW n \in Nat \ {0}
  PROVE  PlacesOfParts(s, n) = PlacesOfParts(s, n - 1) \cup PlacesOf(s[n])
<1>1. 1 .. n = (1 .. n - 1) \cup {n}
  OBVIOUS
<1> QED BY <1>1, Zenon DEF PlacesOfParts

(* The parts of a program that Joined makes one of.                     *)
LEMMA JoinedRuns ==
  ASSUME NEW s, IsSeq(s), Len(s) \in Nat \ {0}, \A i \in 1 .. Len(s) : IsSeq(s[i]), NEW there, NEW waived
  PROVE  /\ IsSeq(Joined(s))
         /\ PlacesOf(Joined(s)) = PlacesOfParts(s, Len(s))
         /\ PartsRun(s, there, waived) => RunsAfter(Joined(s), there, waived)
         /\ (\A i \in 1 .. Len(s) : NoLoads(s[i])) => NoLoads(Joined(s))
         /\ Len(s[1]) > 0 => Len(Joined(s)) > 0
<1>1. PICK f : f = [i \in 1 .. Len(s) |-> IF i = 1 THEN s[i] ELSE f[i - 1] \o s[i]] /\ Joined(s) = f[Len(s)]
  BY JoinedIs
<1> DEFINE Good(n) ==
             /\ IsSeq(f[n])
             /\ PlacesOf(f[n]) = PlacesOfParts(s, n)
             /\ PartsRun(s, there, waived) => RunsAfter(f[n], there, waived)
             /\ (\A i \in 1 .. Len(s) : NoLoads(s[i])) => NoLoads(f[n])
             /\ Len(s[1]) > 0 => Len(f[n]) > 0
           T == {n \in 1 .. Len(s) : ~Good(n)}
<1>2. Good(1)
  <2>1. f[1] = s[1] /\ 1 \in 1 .. Len(s) /\ IsSeq(s[1])
    BY <1>1
  <2>2. PlacesOfParts(s, 0) = {} /\ PlacesOfParts(s, 1) = PlacesOf(s[1])
    <3>1. 1 .. 0 = {}
      OBVIOUS
    <3>2. PlacesOfParts(s, 0) = {}
      BY <3>1 DEF PlacesOfParts
    <3>3. PlacesOfParts(s, 1) = PlacesOfParts(s, 1 - 1) \cup PlacesOf(s[1])
      BY MorePlaces
    <3>4. 1 - 1 = 0
      OBVIOUS
    <3> QED BY <3>2, <3>3, <3>4
  <2>3. PartsRun(s, there, waived) => RunsAfter(s[1], there, waived)
    <3>1. there \cup PlacesOfParts(s, 1 - 1) = there
      BY <2>2
    <3> QED BY <2>1, <3>1 DEF PartsRun
  <2> QED BY <2>1, <2>2, <2>3
<1>3. ASSUME NEW n \in 2 .. Len(s), Good(n - 1)
      PROVE  Good(n)
  <2>1. f[n] = f[n - 1] \o s[n] /\ IsSeq(s[n]) /\ IsSeq(f[n - 1]) /\ n \in 1 .. Len(s)
    <3>1. n \in 1 .. Len(s) /\ n # 1
      BY <1>3
    <3>2. f[n] = f[n - 1] \o s[n]
      <4> HIDE DEF Good
      <4> QED BY <3>1, <1>1
    <3>3. IsSeq(f[n - 1])
      BY <1>3
    <3> QED BY <3>1, <3>2, <3>3
  <2>2. IsSeq(f[n]) /\ Len(f[n]) = Len(f[n - 1]) + Len(s[n]) /\ Len(s[n]) \in Nat /\ Len(f[n - 1]) \in Nat
    BY <2>1, ConcatSeq
  <2>3. PlacesOf(f[n]) = PlacesOf(f[n - 1]) \cup PlacesOf(s[n])
    BY <2>1, ConcatPlaces
  <2>4. PlacesOf(f[n]) = PlacesOfParts(s, n)
    BY <2>3, <1>3, MorePlaces
  <2>5. PartsRun(s, there, waived) => RunsAfter(f[n], there, waived)
    <3>1. SUFFICES ASSUME PartsRun(s, there, waived) PROVE RunsAfter(f[n], there, waived)
      OBVIOUS
    <3>2. RunsAfter(s[n], there \cup PlacesOf(f[n - 1]), waived)
      BY <3>1, <2>1, <1>3 DEF PartsRun
    <3> QED BY <3>1, <3>2, <2>1, <1>3, ConcatRuns
  <2>6. (\A i \in 1 .. Len(s) : NoLoads(s[i])) => NoLoads(f[n])
    BY <2>1, <1>3, ConcatNoLoads
  <2>7. Len(s[1]) > 0 => Len(f[n]) > 0
    <3>1. Len(s[1]) > 0 => Len(f[n - 1]) > 0
      BY <1>3
    <3> HIDE DEF Good
    <3>2. Len(f[n - 1]) > 0 => Len(f[n]) > 0
      <4>1. PICK a \in Nat, b \in Nat : a = Len(f[n - 1]) /\ b = Len(s[n])
        BY <2>2
      <4>2. Len(f[n]) = a + b
        BY <4>1, <2>2
      <4>3. a > 0 => a + b > 0
        OBVIOUS
      <4> QED BY <4>1, <4>2, <4>3, Zenon
    <3> QED BY <3>1, <3>2
  <2>8. IsSeq(f[n])
    BY <2>2
  <2> QED BY <2>4, <2>5, <2>6, <2>7, <2>8
<1> HIDE DEF Good
<1>4. ASSUME T # {} PROVE FALSE
  <2>1. PICK m \in T : \A k \in T : m <= k
    <3>1. T \subseteq Nat
      OBVIOUS
    <3> QED BY <1>4, <3>1, LeastNumber
  <2>2. m \in 2 .. Len(s) /\ m - 1 \in 1 .. Len(s) /\ m - 1 \notin T
    BY <2>1, <1>2
  <2>3. Good(m - 1)
    BY <2>2
  <2> QED BY <2>1, <2>2, <2>3, <1>3
<1>5. Good(Len(s))
  BY <1>4
<1> QED BY <1>1, <1>5 DEF Good

(* A sequence that is given by what it is at every index.                   *)
LEMMA MadeSeq ==
  ASSUME NEW n \in Nat, NEW p, p = [k \in 1 .. n |-> p[k]]
  PROVE  IsSeq(p) /\ Len(p) = n
<1>1. p \in [1 .. n -> {p[k] : k \in 1 .. n}]
  OBVIOUS
<1>2. p \in Seq({p[k] : k \in 1 .. n})
  BY <1>1, SeqDef
<1>3. Len(p) = n
  BY <1>1, <1>2, LenProperties
<1> QED BY <1>2, <1>3 DEF IsSeq

(* The length of a program.                                                 *)
LEMMA SeqLength == ASSUME NEW p, IsSeq(p) PROVE Len(p) \in Nat
BY DEF IsSeq

(* Instructions that load nothing run where all that they use is.           *)
LEMMA QuietRuns ==
  ASSUME NEW p, NoLoads(p), NEW there, NEW waived, \A k \in 1 .. Len(p) : RunsAt(p, k, there, waived)
  PROVE  \A more : there \subseteq more => RunsAfter(p, more, waived)
BY DEF RunsAfter, RunsAt, NoLoads

(* What loads nothing also runs where more places are taken.                *)
LEMMA MoreIsThere ==
  ASSUME NEW p, NoLoads(p), NEW there, NEW waived, RunsAfter(p, there, waived), NEW more, there \subseteq more
  PROVE  RunsAfter(p, more, waived)
BY DEF RunsAfter, RunsAt, NoLoads

(* Loads run if their places are free and no two are the same.              *)
LEMMA LoadsRun ==
  ASSUME NEW p, Len(p) \in Nat, \A k \in 1 .. Len(p) : p[k].op = "MOVIN" /\ p[k].size > 0,
         NEW there, \A k \in 1 .. Len(p) : p[k].dest \notin there,
         \A j, k \in 1 .. Len(p) : j < k => p[j].dest # p[k].dest, NEW waived
  PROVE  RunsAfter(p, there, waived)
<1> SUFFICES ASSUME NEW k \in 1 .. Len(p) PROVE RunsAt(p, k, there \cup PlacesUpTo(p, k - 1), waived)
  BY DEF RunsAfter
<1>1. p[k].dest \notin PlacesUpTo(p, k - 1)
  BY DEF PlacesUpTo
<1> QED BY <1>1 DEF RunsAt

(* Parts without loads that each run where the first one starts.            *)
LEMMA JoinedQuiet ==
  ASSUME NEW s, IsSeq(s), Len(s) \in Nat \ {0}, \A i \in 1 .. Len(s) : IsSeq(s[i]) /\ NoLoads(s[i]), NEW there, NEW waived,
         \A i \in 1 .. Len(s) : RunsAfter(s[i], there, waived)
  PROVE  /\ IsSeq(Joined(s)) /\ NoLoads(Joined(s)) /\ RunsAfter(Joined(s), there, waived)
         /\ PlacesOf(Joined(s)) = PlacesOfParts(s, Len(s))
         /\ Len(s[1]) > 0 => Len(Joined(s)) > 0
<1>1. PartsRun(s, there, waived)
  BY MoreIsThere DEF PartsRun
<1> QED BY <1>1, JoinedRuns

(* The last instruction of a program is no load.                            *)
EndsWell(p) == Len(p) > 0 /\ p[Len(p)].op # "MOVIN"

(* A program without loads does not end with one.                           *)
LEMMA QuietEndsWell == ASSUME NEW p, IsSeq(p), NoLoads(p), Len(p) > 0 PROVE EndsWell(p)
BY SeqLength DEF NoLoads, EndsWell

(* Nor does one that ends with such a program.                              *)
LEMMA ConcatEndsWell ==
  ASSUME NEW p, NEW q, IsSeq(p), IsSeq(q), EndsWell(q) \/ (EndsWell(p) /\ NoLoads(q))
  PROVE  EndsWell(p \o q)
<1>1. PICK a \in Nat, b \in Nat : a = Len(p) /\ b = Len(q)
  BY SeqLength
<1>2. Len(p \o q) = a + b /\ (b > 0 => (p \o q)[a + b] = q[b]) /\ (a > 0 => (p \o q)[a] = p[a])
  BY <1>1, ConcatSeq
<1>3. CASE b > 0
  <2>1. q[b].op # "MOVIN"
    BY <1>1, <1>3 DEF EndsWell, NoLoads
  <2>2. a + b > 0
    BY <1>3
  <2> QED BY <2>1, <2>2, <1>2, <1>3 DEF EndsWell
<1>4. CASE b = 0
  <2>1. EndsWell(p) /\ a + b = a
    BY <1>1, <1>4 DEF EndsWell
  <2> QED BY <2>1, <1>1, <1>2 DEF EndsWell
<1> QED BY <1>3, <1>4

(* The parts of a program, put together, are what RunsOnCore asks for.      *)
LEMMA ProgramRuns ==
  ASSUME NEW p, IsSeq(p), EndsWell(p), NEW waived, RunsAfter(p, {}, waived)
  PROVE  RunsOnCore(p, waived)
<1>1. Len(p) \in Nat
  BY SeqLength
<1>2. \A k \in 1 .. Len(p) : RunsAt(p, k, PlacesUpTo(p, k - 1), waived)
  BY DEF RunsAfter
<1>3. \A k \in 1 .. Len(p) : \A place : Before(p, k, place) <=> place \in PlacesUpTo(p, k - 1)
  BY DEF Before, PlacesUpTo
<1>4. p # <<>>
  BY DEF EndsWell
<1> QED BY <1>1, <1>2, <1>3, <1>4 DEF RunsOnCore, RunsAt, InstructionsOf, TakesRoom, EndsWell

(* A block of a tensor that is not empty takes a request.                   *)
LEMMA ManyRequests ==
  ASSUME NEW R, NEW K, IsFiniteSet(R), IsFiniteSet(K), R # {}, K # {}, NEW f, NEW T,
         \A t \in T : \E r \in R, k \in K : t = f[<<r, k>>], \A r \in R, k \in K : f[<<r, k>>] \in T
  PROVE  Cardinality(T) > 0
<1> DEFINE D == R \X K
           g == [p \in D |-> f[p]]
<1>1. IsFiniteSet(D)
  BY FS_Product
<1>2. g \in [D -> T]
  OBVIOUS
<1>3. ASSUME NEW t \in T PROVE \E p \in D : g[p] = t
  <2>1. PICK r \in R, k \in K : t = f[<<r, k>>]
    OBVIOUS
  <2>2. <<r, k>> \in D
    OBVIOUS
  <2>3. g[<<r, k>>] = t
    BY <2>1, <2>2
  <2> QED BY <2>2, <2>3
<1> HIDE DEF g, D
<1>4. g \in Surjection(D, T)
  BY <1>2, <1>3 DEF Surjection
<1>5. IsFiniteSet(T)
  BY <1>1, <1>4, FS_Surjection
<1>6. T # {}
  <2>1. PICK r \in R, k \in K : TRUE
    OBVIOUS
  <2>2. f[<<r, k>>] \in T
    OBVIOUS
  <2> QED BY <2>2
<1>7. Cardinality(T) \in Nat /\ Cardinality(T) # 0
  BY <1>5, <1>6, FS_CardinalityType, FS_EmptySet
<1> QED BY <1>7

(* A part of an interval is finite.                                         *)
LEMMA FiniteSubset ==
  ASSUME NEW T, NEW n \in Nat, T \subseteq 0 .. n, T # {}
  PROVE  IsFiniteSet(T) /\ Cardinality(T) > 0
<1>1. IsFiniteSet(0 .. n)
  BY FS_Interval
<1>2. IsFiniteSet(T) /\ Cardinality(T) \in Nat /\ Cardinality(T) # 0
  BY <1>1, FS_Subset, FS_CardinalityType, FS_EmptySet
<1> QED BY <1>2

(* The tiles of a product round up as their mapping does.                   *)
LEMMA GemmCeilDiv == \A a, b : Gemm!CeilDiv(a, b) = CeilDiv(a, b)
BY DEF CeilDiv, Gemm!CeilDiv

(* The pieces of a loop start at multiples of the height of the array, in   *)
(* the tile and in the matrix.                                              *)
IsPieces(p, inner, offset, total) ==
  /\ IsSeq(p) /\ Len(p) \in Nat \ {0} /\ p[1] = 0
  /\ \A k \in 1 .. Len(p) : p[k] = (k - 1) * Core.dim /\ p[k] \in Nat /\ p[k] < inner /\ offset + p[k] < total

(* A multiple is so many times its divisor.                                 *)
LEMMA MultiplePositive == ASSUME NEW a \in Positive, NEW b \in Positive PROVE a * b \in Positive /\ CeilDiv(a * b, b) = a
<1>1. a * b \in Positive
  BY DEF Positive
<1>2. CeilDiv(a * b, b) \in Positive /\ (CeilDiv(a * b, b) - 1) * b < a * b /\ a * b <= CeilDiv(a * b, b) * b
  BY <1>1, CeilDivBounds
<1> DEFINE c == CeilDiv(a * b, b)
<1> HIDE DEF c
<1>3. c \in Positive /\ (c - 1) * b < a * b /\ a * b <= c * b
  BY <1>2 DEF c
<1>4. ~(c - 1 >= a)
  BY <1>3 DEF Positive
<1>5. ~(c + 1 <= a)
  <2>1. SUFFICES ASSUME c + 1 <= a PROVE FALSE
    OBVIOUS
  <2>2. (c + 1) * b <= a * b
    BY <2>1, <1>3 DEF Positive
  <2>3. (c + 1) * b = c * b + b
    BY <1>3 DEF Positive
  <2> QED BY <2>2, <2>3, <1>3, <1>1 DEF Positive
<1> QED BY <1>1, <1>3, <1>4, <1>5 DEF c, Positive

(* The pieces of the loops of a tile.                                       *)
LEMMA GemmPieces ==
  ASSUME NEW inner \in Positive, NEW offset \in Nat, NEW total \in Positive, offset < total, Core.dim \in Positive
  PROVE  IsPieces(Gemm!Pieces(inner, offset, total), inner, offset, total)
<1>1. PICK d \in Positive : d = Core.dim
  OBVIOUS
<1>2. Gemm!dim = d
  BY <1>1 DEF Core, Gemm!dim, Gemm!Core
<1>3. PICK a \in Positive : a = CeilDiv(inner, d) /\ (a - 1) * d < inner
  BY CeilDivBounds
<1>4. PICK b \in Positive : b = CeilDiv(total - offset, d) /\ (b - 1) * d < total - offset
  <2>1. total - offset \in Positive
    BY DEF Positive
  <2> QED BY <2>1, CeilDivBounds
<1>5. PICK n \in Positive : n = AtMost(a, b) /\ n <= a /\ n <= b
  BY DEF AtMost, Positive
<1> DEFINE p == Gemm!Pieces(inner, offset, total)
<1>6. p = [k \in 1 .. n |-> (k - 1) * d]
  <2>1. p = [k \in 1 .. CeilDiv(n * d, d) |-> (k - 1) * d]
    BY <1>2, <1>3, <1>4, <1>5, GemmCeilDiv DEF Gemm!Pieces, Gemm!Starts, Gemm!AtMost, AtMost
  <2> QED BY <2>1, MultiplePositive
<1> HIDE DEF p
<1>7. IsSeq(p) /\ Len(p) = n
  BY <1>6, MadeSeq DEF Positive
<1>8. ASSUME NEW k \in 1 .. n
      PROVE  p[k] = (k - 1) * d /\ p[k] \in Nat /\ p[k] < inner /\ offset + p[k] < total
  <2>1. p[k] = (k - 1) * d /\ (k - 1) * d \in Nat
    BY <1>6 DEF Positive
  <2>2. (k - 1) * d <= (a - 1) * d /\ (k - 1) * d <= (b - 1) * d /\ (a - 1) * d \in Int /\ (b - 1) * d \in Int
    BY <1>5 DEF Positive
  <2> QED BY <2>1, <2>2, <1>3, <1>4 DEF Positive
<1>9. p[1] = 0
  BY <1>6 DEF Positive
<1> QED BY <1>1, <1>7, <1>8, <1>9 DEF IsPieces, p, Positive

(* What holds of every tile of a matrix product.                            *)
GemmTile ==
  /\ Core.dim \in Positive /\ Precision \in Positive /\ Core.req \in Positive /\ Core.req >= Precision
  /\ layer.N \in Positive /\ layer.C \in Positive /\ layer.M \in Positive
  /\ mapping.inN \in Positive /\ mapping.inC \in Positive /\ mapping.inM \in Positive
  /\ Gemm!NOffset \in Nat /\ Gemm!NOffset < layer.N
  /\ Gemm!MOffset \in Nat /\ Gemm!MOffset < layer.M
  /\ Gemm!COffset \in Nat /\ Gemm!COffset < layer.C

(* No operand of a tile of a product is without requests.                   *)
LEMMA GemmRequests ==
  ASSUME GemmTile, NEW w, NEW r0 \in Nat, NEW rows \in Positive, NEW c0, NEW cols \in Positive
  PROVE  Cardinality(Gemm!AddressesOf(w, r0, rows, c0, cols)) > 0
<1> DEFINE R == r0 .. r0 + rows - 1
           K == Gemm!Steps(cols)
           f == [p \in R \X K |-> Gemm!Address(w, p[1], c0 + p[2])]
           T == Gemm!AddressesOf(w, r0, rows, c0, cols)
<1>1. IsFiniteSet(R) /\ R # {}
  <2>1. r0 \in R
    BY DEF Positive
  <2>2. r0 \in Int /\ r0 + rows - 1 \in Int
    BY DEF Positive
  <2>3. IsFiniteSet(R)
    BY <2>2, FS_Interval
  <2> QED BY <2>1, <2>3
<1>2. IsFiniteSet(K)
  <2>1. IsFiniteSet(0 .. cols - 1)
    BY FS_Interval DEF Positive
  <2> QED BY <2>1, FS_Subset DEF Gemm!Steps
<1>3. K # {}
  <2>1. PICK e \in Positive : e = Gemm!ElemsPerAccess
    <3>1. PICK q \in Positive, p \in Positive : q = Core.req /\ p = Precision /\ q >= p
      BY DEF GemmTile
    <3>2. q \div p \in Positive
      BY <3>1 DEF Positive
    <3> QED BY <3>1, <3>2 DEF Gemm!ElemsPerAccess, Gemm!Core, Gemm!Precision, Core, Precision
  <2>2. 0 % e = 0
    BY DEF Positive
  <2>3. 0 \in 0 .. cols - 1
    BY DEF Positive
  <2> QED BY <2>1, <2>2, <2>3 DEF Gemm!Steps
<1>4. /\ \A t \in T : \E r \in R, k \in K : t = f[<<r, k>>]
      /\ \A r \in R, k \in K : f[<<r, k>>] \in T
  <2>1. T = {Gemm!Address(w, r, c0 + k) : r \in R, k \in K}
    BY DEF Gemm!AddressesOf
  <2>2. \A r \in R, k \in K : f[<<r, k>>] = Gemm!Address(w, r, c0 + k)
    OBVIOUS
  <2> HIDE DEF f, T, R, K
  <2> QED BY <2>1, <2>2
<1> HIDE DEF R, K, f, T
<1>5. Cardinality(T) > 0
  BY <1>1, <1>2, <1>3, <1>4, ManyRequests
<1> QED BY <1>5 DEF T

(* The empty program.                                                       *)
LEMMA EmptyProgram ==
  IsSeq(<<>>) /\ Len(<<>>) = 0 /\ PlacesOf(<<>>) = {} /\ NoLoads(<<>>) /\ \A there, waived : RunsAfter(<<>>, there, waived)
<1>1. Len(<<>>) = 0 /\ 1 .. 0 = {} /\ <<>> \in Seq({})
  OBVIOUS
<1> QED BY <1>1 DEF PlacesOf, PlacesUpTo, RunsAfter, IsSeq, NoLoads

(* A program of one instruction.                                            *)
LEMMA OneInstruction ==
  ASSUME NEW x
  PROVE  /\ IsSeq(<<x>>) /\ Len(<<x>>) = 1 /\ <<x>>[1] = x
         /\ PlacesOf(<<x>>) = IF x.op # "MOVOUT" THEN {x.dest} ELSE {}
         /\ \A there, waived : RunsAt(<<x>>, 1, there, waived) => RunsAfter(<<x>>, there, waived)
<1> DEFINE p == <<x>>
<1>1. p \in Seq({x}) /\ Len(p) = 1 /\ p[1] = x
  OBVIOUS
<1>2. 1 .. 1 = {1} /\ 1 .. 1 - 1 = {}
  OBVIOUS
<1> HIDE DEF p
<1>3. PlacesOf(p) = IF x.op # "MOVOUT" THEN {x.dest} ELSE {}
  BY <1>1, <1>2 DEF PlacesOf, PlacesUpTo
<1>4. \A there, waived : RunsAt(p, 1, there, waived) => RunsAfter(p, there, waived)
  <2>1. PlacesUpTo(p, 1 - 1) = {}
    BY <1>2 DEF PlacesUpTo
  <2> QED BY <2>1, <1>1, <1>2 DEF RunsAfter
<1> QED BY <1>1, <1>3, <1>4 DEF p, IsSeq

(* The places of a program whose instructions all take one.                 *)
LEMMA PlacesOfAll ==
  ASSUME NEW p, \A k \in 1 .. Len(p) : p[k].op # "MOVOUT"
  PROVE  PlacesOf(p) = {p[k].dest : k \in 1 .. Len(p)}
BY DEF PlacesOf, PlacesUpTo

(* The pieces that a tile of a product takes of its loops.                  *)
LEMMA GemmLoops ==
  ASSUME GemmTile
  PROVE  /\ IsPieces(Gemm!MPieces, mapping.inM, Gemm!MOffset, layer.M)
         /\ IsPieces(Gemm!NPieces, mapping.inN, Gemm!NOffset, layer.N)
         /\ Gemm!CLoop \in Positive
         /\ \A k \in 1 .. Len(Gemm!MPieces) : Gemm!MLoop(Gemm!MPieces[k]) \in Positive
         /\ \A k \in 1 .. Len(Gemm!NPieces) : Gemm!NLoop(Gemm!NPieces[k]) \in Positive
<1> USE DEF GemmTile
<1>1. IsPieces(Gemm!MPieces, mapping.inM, Gemm!MOffset, layer.M) /\ IsPieces(Gemm!NPieces, mapping.inN, Gemm!NOffset, layer.N)
  BY GemmPieces DEF Gemm!MPieces, Gemm!NPieces
<1>2. Gemm!CLoop \in Positive
  BY DEF Gemm!CLoop, Gemm!AtMost, Positive
<1>3. Gemm!dim = Core.dim
  BY DEF Gemm!dim, Gemm!Core, Core
<1>4. ASSUME NEW s \in Nat, NEW offset \in Nat, NEW total \in Positive, offset + s < total
      PROVE  Gemm!PieceLength(s, offset, total) \in Positive
  BY <1>3, <1>4 DEF Gemm!PieceLength, Gemm!AtMost, Positive
<1>5. \A k \in 1 .. Len(Gemm!MPieces) : Gemm!MLoop(Gemm!MPieces[k]) \in Positive
  BY <1>1, <1>4 DEF Gemm!MLoop, IsPieces
<1>6. \A k \in 1 .. Len(Gemm!NPieces) : Gemm!NLoop(Gemm!NPieces[k]) \in Positive
  BY <1>1, <1>4 DEF Gemm!NLoop, IsPieces
<1> QED BY <1>1, <1>2, <1>5, <1>6

(* No two operands of a tile have the same place.                           *)
LEMMA GemmPlaces ==
  ASSUME GemmTile, NEW a \in Nat, NEW b \in Nat
  PROVE  /\ a # b => Gemm!ActPlace(a) # Gemm!ActPlace(b) /\ Gemm!WeightPlace(a) # Gemm!WeightPlace(b)
         /\ a < mapping.inN => Gemm!ActPlace(a) # Gemm!WeightPlace(b)
         /\ Gemm!ActPlace(a) # <<"acc", b>> /\ Gemm!WeightPlace(a) # <<"acc", b>>
<1>1. PICK n \in Positive, c \in Positive : n = mapping.inN /\ c = mapping.inC
  BY DEF GemmTile
<1>2. Gemm!ActPlace(a) = <<"spad", a * c>> /\ Gemm!ActPlace(b) = <<"spad", b * c>>
  BY <1>1 DEF Gemm!ActPlace
<1>3. Gemm!WeightPlace(a) = <<"spad", n * c + a * c>> /\ Gemm!WeightPlace(b) = <<"spad", n * c + b * c>>
  BY <1>1 DEF Gemm!WeightPlace
<1>4. a * c \in Nat /\ b * c \in Nat /\ n * c \in Nat
  BY DEF Positive
<1>5. a < b => a * c < b * c
  BY DEF Positive
<1>6. b < a => b * c < a * c
  BY DEF Positive
<1>7. a < n => a * c < n * c
  BY DEF Positive
<1>8. a # b => a * c # b * c
  BY <1>4, <1>5, <1>6
<1>9. a # b => n * c + a * c # n * c + b * c
  BY <1>4, <1>8
<1>10. a < n => a * c # n * c + b * c
  BY <1>4, <1>7
<1> QED BY <1>1, <1>2, <1>3, <1>8, <1>9, <1>10

(* The tiles of a product count as the library does.                        *)
LEMMA GemmCardinality == \A S : Gemm!Cardinality(S) = Cardinality(S)
BY DEF Gemm!Cardinality, Cardinality, Gemm!IsFiniteSet, IsFiniteSet

(* A load of a tile of a product.                                           *)
LEMMA GemmMoveIn ==
  ASSUME NEW place, NEW operand, NEW addresses, Cardinality(addresses) > 0
  PROVE  LET x == Gemm!MoveIn(place, operand, addresses) IN x.op = "MOVIN" /\ x.dest = place /\ x.size > 0
BY GemmCardinality DEF Gemm!MoveIn

(* A load alone.                                                            *)
LEMMA OneLoad ==
  ASSUME NEW x, x.op = "MOVIN", x.size > 0
  PROVE  /\ IsSeq(<<x>>) /\ PlacesOf(<<x>>) = {x.dest}
         /\ \A there, waived : x.dest \notin there => RunsAfter(<<x>>, there, waived)
<1>1. IsSeq(<<x>>) /\ PlacesOf(<<x>>) = {x.dest} /\ <<x>>[1] = x
  BY OneInstruction
<1>2. ASSUME NEW there, NEW waived, x.dest \notin there
      PROVE  RunsAfter(<<x>>, there, waived)
  <2>1. RunsAt(<<x>>, 1, there, waived)
    BY <1>1, <1>2 DEF RunsAt
  <2> QED BY <2>1, OneInstruction
<1> QED BY <1>1, <1>2

(* The bias, or zeroes, are loaded to the accumulators first.               *)
LEMMA GemmBias ==
  ASSUME GemmTile, NEW k \in 1 .. Len(Gemm!MPieces), NEW m, m = Gemm!MPieces[k]
  PROVE  /\ IsSeq(Gemm!LoadBias(m)) /\ PlacesOf(Gemm!LoadBias(m)) \subseteq {<<"acc", m>>}
         /\ \A there : <<"acc", m>> \notin there => RunsAfter(Gemm!LoadBias(m), there, {})
<1> DEFINE x == Gemm!MoveIn(<<"acc", m>>, "bias", Gemm!AddressesOf(layer.M, 0, 1, Gemm!MOffset + m, Gemm!MLoop(m)))
<1>1. CASE Gemm!LoadBias(m) = <<>>
  BY <1>1, EmptyProgram
<1>2. CASE Gemm!LoadBias(m) = <<x>>
  <2>1. Gemm!MLoop(m) \in Positive
    BY GemmLoops
  <2>2. Cardinality(Gemm!AddressesOf(layer.M, 0, 1, Gemm!MOffset + m, Gemm!MLoop(m))) > 0
    BY <2>1, GemmRequests DEF Positive
  <2>3. x.op = "MOVIN" /\ x.dest = <<"acc", m>> /\ x.size > 0
    BY <2>2, GemmMoveIn
  <2> HIDE DEF x
  <2> QED BY <1>2, <2>3, OneLoad
<1> QED BY <1>1, <1>2 DEF Gemm!LoadBias

(* The weights of a piece.                                                  *)
LEMMA GemmWeights ==
  ASSUME GemmTile, NEW k \in 1 .. Len(Gemm!MPieces), NEW m, m = Gemm!MPieces[k]
  PROVE  /\ IsSeq(Gemm!LoadWeights(m)) /\ PlacesOf(Gemm!LoadWeights(m)) = {Gemm!WeightPlace(m)}
         /\ \A there : Gemm!WeightPlace(m) \notin there => RunsAfter(Gemm!LoadWeights(m), there, {})
<1> DEFINE A == Gemm!AddressesOf(layer.C, Gemm!MOffset + m, Gemm!MLoop(m), Gemm!COffset, Gemm!CLoop)
           x == Gemm!MoveIn(Gemm!WeightPlace(m), "weight", A)
<1>1. Gemm!MLoop(m) \in Positive /\ Gemm!CLoop \in Positive /\ m \in Nat /\ Gemm!MOffset \in Nat
  BY GemmLoops DEF IsPieces, GemmTile
<1>2. Gemm!MOffset + m \in Nat
  BY <1>1
<1>3. Cardinality(A) > 0
  BY <1>1, <1>2, GemmRequests
<1>4. x.op = "MOVIN" /\ x.dest = Gemm!WeightPlace(m) /\ x.size > 0
  BY <1>3, GemmMoveIn
<1>5. Gemm!LoadWeights(m) = <<x>>
  BY DEF Gemm!LoadWeights
<1> HIDE DEF x
<1> QED BY <1>4, <1>5, OneLoad

(* The activations are loaded with the first piece of the columns.          *)
ActPlaces == {Gemm!ActPlace(Gemm!NPieces[j]) : j \in 1 .. Len(Gemm!NPieces)}

(* The activations of a piece, and only with the first columns.             *)
LEMMA GemmActivations ==
  ASSUME GemmTile, NEW m
  PROVE  /\ IsSeq(Gemm!LoadActivations(m))
         /\ PlacesOf(Gemm!LoadActivations(m)) = IF m = 0 THEN ActPlaces ELSE {}
         /\ \A there : (m = 0 => ActPlaces \cap there = {}) => RunsAfter(Gemm!LoadActivations(m), there, {})
<1>1. CASE m # 0
  <2>1. Gemm!LoadActivations(m) = <<>>
    BY <1>1 DEF Gemm!LoadActivations
  <2> QED BY <1>1, <2>1, EmptyProgram
<1>2. CASE m = 0
  <2> DEFINE n == Len(Gemm!NPieces)
             p == [k \in 1 .. n |-> Gemm!LoadActivation(Gemm!NPieces[k])]
  <2>1. Gemm!LoadActivations(m) = p
    BY <1>2 DEF Gemm!LoadActivations
  <2>2. n \in Nat /\ \A k \in 1 .. n : /\ Gemm!NPieces[k] \in Nat /\ Gemm!NLoop(Gemm!NPieces[k]) \in Positive
                                        /\ Gemm!NPieces[k] = (k - 1) * Core.dim
    BY GemmLoops DEF IsPieces
  <2>3. ASSUME NEW k \in 1 .. n
        PROVE  p[k].op = "MOVIN" /\ p[k].size > 0 /\ p[k].dest = Gemm!ActPlace(Gemm!NPieces[k])
    <3>1. PICK i : i = Gemm!NPieces[k]
      OBVIOUS
    <3> DEFINE A == Gemm!AddressesOf(layer.C, Gemm!NOffset + i, Gemm!NLoop(i), Gemm!COffset, Gemm!CLoop)
    <3>2. Gemm!NOffset + i \in Nat /\ Gemm!NLoop(i) \in Positive /\ Gemm!CLoop \in Positive
      BY <3>1, <2>2, GemmLoops DEF GemmTile
    <3>3. Cardinality(A) > 0
      BY <3>2, GemmRequests
    <3>4. p[k] = Gemm!MoveIn(Gemm!ActPlace(i), "input", A)
      BY <3>1 DEF Gemm!LoadActivation
    <3> QED BY <3>1, <3>3, <3>4, GemmMoveIn
  <2>4. p = [k \in 1 .. n |-> p[k]]
    OBVIOUS
  <2>5. ASSUME NEW j \in 1 .. n, NEW k \in 1 .. n, j < k
        PROVE  p[j].dest # p[k].dest
    <3>1. PICK d \in Positive : d = Core.dim
      BY DEF GemmTile
    <3>2. (j - 1) * d < (k - 1) * d
      BY <2>5 DEF Positive
    <3>3. Gemm!NPieces[j] # Gemm!NPieces[k]
      BY <3>1, <3>2, <2>2
    <3> QED BY <3>3, <2>2, <2>3, GemmPlaces
  <2> HIDE DEF p, n
  <2>6. IsSeq(p) /\ Len(p) = n
    BY <2>2, <2>4, MadeSeq
  <2>7. PlacesOf(p) = ActPlaces
    BY <2>3, <2>6, PlacesOfAll DEF n, ActPlaces
  <2>8. ASSUME NEW there, ActPlaces \cap there = {}
        PROVE  RunsAfter(p, there, {})
    <3>1. \A k \in 1 .. n : p[k].dest \notin there
      BY <2>3, <2>8 DEF ActPlaces, n
    <3> QED BY <3>1, <2>2, <2>3, <2>5, <2>6, LoadsRun
  <2> QED BY <1>2, <2>1, <2>6, <2>7, <2>8
<1> QED BY <1>1, <1>2

(* The loads of a piece of the columns.                                     *)
PieceLoads(m) == Gemm!LoadBias(m) \o Gemm!LoadWeights(m) \o Gemm!LoadActivations(m)

(* All that is loaded for a piece of the columns.                           *)
LEMMA GemmPieceLoads ==
  ASSUME GemmTile, NEW k \in 1 .. Len(Gemm!MPieces), NEW m, m = Gemm!MPieces[k]
  PROVE  /\ IsSeq(PieceLoads(m))
         /\ PlacesOf(PieceLoads(m)) \subseteq {<<"acc", m>>, Gemm!WeightPlace(m)} \cup (IF m = 0 THEN ActPlaces ELSE {})
         /\ {Gemm!WeightPlace(m)} \cup (IF m = 0 THEN ActPlaces ELSE {}) \subseteq PlacesOf(PieceLoads(m))
         /\ \A there : /\ <<"acc", m>> \notin there /\ Gemm!WeightPlace(m) \notin there
                       /\ m = 0 => ActPlaces \cap there = {}
                       => RunsAfter(PieceLoads(m), there, {})
<1> DEFINE b == Gemm!LoadBias(m)
           w == Gemm!LoadWeights(m)
           a == Gemm!LoadActivations(m)
<1>1. m \in Nat
  BY GemmLoops DEF IsPieces
<1>2. IsSeq(b) /\ IsSeq(w) /\ IsSeq(a) /\ IsSeq(b \o w) /\ IsSeq((b \o w) \o a)
  <2>1. IsSeq(b)
    BY GemmBias
  <2>2. IsSeq(w)
    BY GemmWeights
  <2>3. IsSeq(a)
    BY GemmActivations
  <2> HIDE DEF a, b, w
  <2> QED BY <2>1, <2>2, <2>3, ConcatSeq
<1>3. PlacesOf(b) \subseteq {<<"acc", m>>}
  BY GemmBias
<1>4. PlacesOf(w) = {Gemm!WeightPlace(m)}
  BY GemmWeights
<1>5. PlacesOf(a) = IF m = 0 THEN ActPlaces ELSE {}
  BY GemmActivations
<1>6. PlacesOf((b \o w) \o a) = (PlacesOf(b) \cup PlacesOf(w)) \cup PlacesOf(a) /\ PlacesOf(b \o w) = PlacesOf(b) \cup PlacesOf(w)
  <2> HIDE DEF a, b, w
  <2> QED BY <1>2, ConcatPlaces
<1>7. ASSUME NEW there, <<"acc", m>> \notin there, Gemm!WeightPlace(m) \notin there, m = 0 => ActPlaces \cap there = {}
      PROVE  RunsAfter((b \o w) \o a, there, {})
  <2>1. Gemm!WeightPlace(m) # <<"acc", m>>
    BY <1>1, GemmPlaces
  <2>2. m = 0 => ActPlaces \cap {<<"acc", m>>, Gemm!WeightPlace(m)} = {}
    BY <1>1, GemmPlaces, GemmLoops DEF ActPlaces, IsPieces
  <2>3. RunsAfter(b, there, {})
    BY <1>7, GemmBias
  <2>4. RunsAfter(w, there \cup PlacesOf(b), {})
    <3>1. Gemm!WeightPlace(m) \notin there \cup PlacesOf(b)
      BY <1>3, <1>7, <2>1
    <3> QED BY <3>1, GemmWeights
  <2>5. RunsAfter(a, there \cup PlacesOf(b \o w), {})
    <3>1. m = 0 => ActPlaces \cap (there \cup PlacesOf(b \o w)) = {}
      BY <1>3, <1>4, <1>6, <1>7, <2>2
    <3> QED BY <3>1, GemmActivations
  <2> HIDE DEF a, b, w
  <2>6. RunsAfter(b \o w, there, {})
    BY <1>2, <2>3, <2>4, ConcatRuns
  <2> QED BY <1>2, <2>5, <2>6, ConcatRuns
<1> HIDE DEF a, b, w
<1> QED BY <1>2, <1>3, <1>4, <1>5, <1>6, <1>7 DEF PieceLoads, a, b, w

(* All that a tile of a product loads, each place once.                     *)
LEMMA GemmLoads ==
  ASSUME GemmTile
  PROVE  /\ IsSeq(Gemm!Loads) /\ RunsAfter(Gemm!Loads, {}, {})
         /\ \A k \in 1 .. Len(Gemm!MPieces) : Gemm!WeightPlace(Gemm!MPieces[k]) \in PlacesOf(Gemm!Loads)
         /\ \A k \in 1 .. Len(Gemm!NPieces) : Gemm!ActPlace(Gemm!NPieces[k]) \in PlacesOf(Gemm!Loads)
<1> DEFINE P == Gemm!MPieces
           n == Len(P)
           s == [k \in 1 .. n |-> PieceLoads(P[k])]
<1>1. Gemm!Loads = Joined(s)
  BY GemmJoined DEF Gemm!Loads, PieceLoads
<1>2. n \in Nat \ {0} /\ P[1] = 0 /\ \A k \in 1 .. n : P[k] = (k - 1) * Core.dim /\ P[k] \in Nat
  BY GemmLoops DEF IsPieces
<1>3. \A j, k \in 1 .. n : j < k => P[j] # P[k]
  <2>1. PICK d \in Positive : d = Core.dim
    BY DEF GemmTile
  <2>2. \A j, k \in 1 .. n : j < k => (j - 1) * d < (k - 1) * d
    BY <1>2 DEF Positive
  <2> HIDE DEF P, n
  <2> QED BY <1>2, <2>1, <2>2
<1>4. \A k \in 1 .. n : s[k] = PieceLoads(P[k])
  OBVIOUS
<1>5. s = [k \in 1 .. n |-> s[k]]
  OBVIOUS
<1> DEFINE There(k) == {<<"acc", P[k]>>, Gemm!WeightPlace(P[k])} \cup (IF P[k] = 0 THEN ActPlaces ELSE {})
<1>6. ASSUME NEW k \in 1 .. n
      PROVE  /\ IsSeq(s[k]) /\ PlacesOf(s[k]) \subseteq There(k)
             /\ Gemm!WeightPlace(P[k]) \in PlacesOf(s[k]) /\ (P[k] = 0 => ActPlaces \subseteq PlacesOf(s[k]))
             /\ \A there : /\ <<"acc", P[k]>> \notin there /\ Gemm!WeightPlace(P[k]) \notin there
                           /\ P[k] = 0 => ActPlaces \cap there = {}
                           => RunsAfter(s[k], there, {})
  <2>1. PICK m : m = P[k]
    OBVIOUS
  <2> QED BY <2>1, <1>4, GemmPieceLoads
<1>7. IsSeq(s) /\ Len(s) = n
  <2> HIDE DEF s, n
  <2> QED BY <1>2, <1>5, MadeSeq
<1>8. ASSUME NEW j \in 1 .. n, NEW k \in 1 .. n, j < k
      PROVE  /\ <<"acc", P[k]>> \notin There(j) /\ Gemm!WeightPlace(P[k]) \notin There(j)
             /\ P[k] # 0
  <2>1. PICK a \in Nat, b \in Nat : a = P[j] /\ b = P[k] /\ a # b
    BY <1>2, <1>3, <1>8
  <2>2. P[k] # 0
    BY <1>2, <1>3, <1>8
  <2>3. <<"acc", b>> # <<"acc", a>> /\ <<"acc", b>> # Gemm!WeightPlace(a)
    BY <2>1, GemmPlaces
  <2>4. Gemm!WeightPlace(b) # <<"acc", a>> /\ Gemm!WeightPlace(b) # Gemm!WeightPlace(a)
    BY <2>1, GemmPlaces
  <2>5. <<"acc", b>> \notin ActPlaces /\ Gemm!WeightPlace(b) \notin ActPlaces
    BY <2>1, GemmPlaces, GemmLoops DEF ActPlaces, IsPieces
  <2> QED BY <2>1, <2>2, <2>3, <2>4, <2>5
<1> HIDE DEF P, n, s, There
<1>9. PartsRun(s, {}, {})
  <2> SUFFICES ASSUME NEW k \in 1 .. n PROVE RunsAfter(s[k], {} \cup PlacesOfParts(s, k - 1), {})
    BY <1>7 DEF PartsRun
  <2> DEFINE there == PlacesOfParts(s, k - 1)
  <2>1. ASSUME NEW x \in there PROVE \E j \in 1 .. n : j < k /\ x \in There(j)
    <3>1. PICK j \in 1 .. k - 1 : x \in PlacesOf(s[j])
      BY <2>1 DEF PlacesOfParts
    <3>2. j \in 1 .. n /\ j < k
      BY <1>2
    <3> QED BY <3>1, <3>2, <1>6
  <2>2. <<"acc", P[k]>> \notin there /\ Gemm!WeightPlace(P[k]) \notin there
    BY <2>1, <1>8
  <2>3. P[k] = 0 => ActPlaces \cap there = {}
    BY <2>1, <1>8
  <2>4. {} \cup there = there
    OBVIOUS
  <2> HIDE DEF there
  <2>5. RunsAfter(s[k], there, {})
    BY <2>2, <2>3, <1>6
  <2> QED BY <2>4, <2>5 DEF there
<1>10. IsSeq(Joined(s)) /\ PlacesOf(Joined(s)) = PlacesOfParts(s, n) /\ RunsAfter(Joined(s), {}, {})
  BY <1>2, <1>6, <1>7, <1>9, JoinedRuns
<1>11. \A k \in 1 .. n : PlacesOf(s[k]) \subseteq PlacesOf(Joined(s))
  BY <1>10 DEF PlacesOfParts
<1>12. ActPlaces \subseteq PlacesOf(Joined(s))
  <2>1. 1 \in 1 .. n /\ P[1] = 0
    BY <1>2
  <2> QED BY <2>1, <1>6, <1>11
<1> QED BY <1>1, <1>6, <1>10, <1>11, <1>12 DEF ActPlaces, P, n

-----------------------------------------------------------------------------
(* The products of the pieces and their stores.                             *)
LEMMA GemmMultiply ==
  ASSUME GemmTile, NEW k \in 1 .. Len(Gemm!MPieces), NEW j \in 1 .. Len(Gemm!NPieces)
  PROVE  LET p == Gemm!Multiply(Gemm!MPieces[k], Gemm!NPieces[j]) IN
         /\ IsSeq(p) /\ Len(p) > 0 /\ NoLoads(p) /\ RunsAfter(p, PlacesOf(Gemm!Loads), {})
         /\ Gemm!OutPlace(Gemm!NPieces[j], Gemm!MPieces[k]) \in PlacesOf(p)
<1> DEFINE m == Gemm!MPieces[k]
           i == Gemm!NPieces[j]
           p == Gemm!Multiply(m, i)
           srcs == {Gemm!ActPlace(i), Gemm!WeightPlace(m)}
<1>1. PICK n \in Positive : n = Gemm!CeilDiv(Gemm!CLoop, Gemm!dim)
  <2>1. Gemm!CLoop \in Positive /\ Gemm!dim \in Positive
    BY GemmLoops DEF GemmTile, Gemm!dim, Gemm!Core, Core
  <2> QED BY <2>1, CeilDivBounds, GemmCeilDiv
<1>2. \A q \in 1 .. n : p[q].op = "COMPUTE" /\ p[q].srcs = srcs /\ p[q].dest = Gemm!OutPlace(i, m)
  BY <1>1 DEF Gemm!Multiply, Gemm!Compute
<1>3. p = [q \in 1 .. n |-> p[q]]
  BY <1>1 DEF Gemm!Multiply
<1>4. srcs \subseteq PlacesOf(Gemm!Loads)
  BY GemmLoads
<1>5. \A x \in srcs : x[1] # "acc"
  BY DEF Gemm!ActPlace, Gemm!WeightPlace
<1> HIDE DEF p, srcs, i, m
<1>6. IsSeq(p) /\ Len(p) = n /\ n \in Nat /\ 1 \in 1 .. n
  BY <1>1, <1>3, MadeSeq DEF Positive
<1>7. NoLoads(p)
  BY <1>2, <1>6 DEF NoLoads
<1>8. RunsAfter(p, PlacesOf(Gemm!Loads), {})
  <2>1. \A q \in 1 .. Len(p) : RunsAt(p, q, PlacesOf(Gemm!Loads), {})
    BY <1>2, <1>4, <1>5, <1>6 DEF RunsAt
  <2> QED BY <2>1, <1>7, QuietRuns
<1>9. Gemm!OutPlace(i, m) \in PlacesOf(p)
  BY <1>2, <1>6 DEF PlacesOf, PlacesUpTo
<1> QED BY <1>1, <1>6, <1>7, <1>8, <1>9 DEF p, i, m, Positive

(* The results are stored, and by the last tile of the summands only.       *)
LEMMA GemmStore ==
  ASSUME GemmTile, NEW ms, NEW ns, NEW there, Gemm!OutPlace(ns, ms) \in there
  PROVE  LET p == Gemm!Store(ms, ns) IN IsSeq(p) /\ NoLoads(p) /\ RunsAfter(p, there, {})
<1> DEFINE p == Gemm!Store(ms, ns)
           x == p[1]
<1>1. p = <<x>> /\ x.op = "MOVOUT" /\ x.dest = Gemm!OutPlace(ns, ms)
  BY DEF Gemm!Store, Gemm!MoveOut
<1> HIDE DEF x
<1>2. IsSeq(<<x>>) /\ Len(<<x>>) = 1 /\ <<x>>[1] = x
  BY OneInstruction
<1>3. NoLoads(<<x>>)
  BY <1>1, <1>2 DEF NoLoads
<1>4. RunsAt(<<x>>, 1, there, {})
  BY <1>1, <1>2 DEF RunsAt
<1> HIDE DEF p, x
<1> QED BY <1>1, <1>2, <1>3, <1>4, OneInstruction DEF p

(* What is done for every piece of the columns and every piece of the rows. *)
LEMMA GemmForEach ==
  ASSUME GemmTile, NEW f, NEW there,
         \A k \in 1 .. Len(Gemm!MPieces) : \A j \in 1 .. Len(Gemm!NPieces) :
           IsSeq(f[k][j]) /\ NoLoads(f[k][j]) /\ RunsAfter(f[k][j], there, {}),
         NEW p, p = Joined([k \in 1 .. Len(Gemm!MPieces) |-> Joined([j \in 1 .. Len(Gemm!NPieces) |-> f[k][j]])])
  PROVE  /\ IsSeq(p) /\ NoLoads(p) /\ RunsAfter(p, there, {})
         /\ \A k \in 1 .. Len(Gemm!MPieces) : \A j \in 1 .. Len(Gemm!NPieces) : PlacesOf(f[k][j]) \subseteq PlacesOf(p)
         /\ Len(f[1][1]) > 0 => Len(p) > 0
<1> DEFINE m == Len(Gemm!MPieces)
           n == Len(Gemm!NPieces)
           row(k) == [j \in 1 .. n |-> f[k][j]]
           s == [k \in 1 .. m |-> Joined(row(k))]
<1>1. m \in Nat \ {0} /\ n \in Nat \ {0}
  BY GemmLoops DEF IsPieces
<1>2. \A k \in 1 .. m : s[k] = Joined(row(k)) /\ row(k) = [j \in 1 .. n |-> row(k)[j]]
  OBVIOUS
<1>3. s = [k \in 1 .. m |-> s[k]] /\ p = Joined(s)
  OBVIOUS
<1>4. \A k \in 1 .. m, j \in 1 .. n : row(k)[j] = f[k][j]
  OBVIOUS
<1>5. \A k \in 1 .. m, j \in 1 .. n : IsSeq(f[k][j]) /\ NoLoads(f[k][j]) /\ RunsAfter(f[k][j], there, {})
  OBVIOUS
<1> HIDE DEF s, row, m, n
<1>6. ASSUME NEW k \in 1 .. m
      PROVE  /\ IsSeq(s[k]) /\ NoLoads(s[k]) /\ RunsAfter(s[k], there, {})
             /\ \A j \in 1 .. n : PlacesOf(f[k][j]) \subseteq PlacesOf(s[k])
             /\ Len(f[k][1]) > 0 => Len(s[k]) > 0
  <2>1. PICK r : r = row(k)
    OBVIOUS
  <2>2. IsSeq(r) /\ Len(r) = n
    BY <1>1, <1>2, <2>1, MadeSeq
  <2>3. \A j \in 1 .. Len(r) : IsSeq(r[j]) /\ NoLoads(r[j]) /\ RunsAfter(r[j], there, {}) /\ r[j] = f[k][j]
    BY <1>4, <1>5, <2>1, <2>2
  <2>4. /\ IsSeq(Joined(r)) /\ NoLoads(Joined(r)) /\ RunsAfter(Joined(r), there, {})
        /\ PlacesOf(Joined(r)) = PlacesOfParts(r, Len(r)) /\ (Len(r[1]) > 0 => Len(Joined(r)) > 0)
    BY <1>1, <2>2, <2>3, JoinedQuiet
  <2>5. s[k] = Joined(r)
    BY <1>2, <2>1
  <2>6. \A j \in 1 .. n : PlacesOf(f[k][j]) \subseteq PlacesOf(s[k])
    BY <2>2, <2>3, <2>4, <2>5 DEF PlacesOfParts
  <2>7. r[1] = f[k][1]
    BY <1>1, <2>2, <2>3
  <2> QED BY <2>4, <2>5, <2>6, <2>7
<1>7. IsSeq(s) /\ Len(s) = m
  BY <1>1, <1>3, MadeSeq
<1>8. /\ IsSeq(Joined(s)) /\ NoLoads(Joined(s)) /\ RunsAfter(Joined(s), there, {})
      /\ PlacesOf(Joined(s)) = PlacesOfParts(s, m) /\ (Len(s[1]) > 0 => Len(Joined(s)) > 0)
  BY <1>1, <1>6, <1>7, JoinedQuiet
<1>9. ASSUME NEW k \in 1 .. m, NEW j \in 1 .. n PROVE PlacesOf(f[k][j]) \subseteq PlacesOf(p)
  <2>1. PlacesOf(s[k]) \subseteq PlacesOf(p)
    BY <1>3, <1>8 DEF PlacesOfParts
  <2> QED BY <2>1, <1>6
<1>10. Len(f[1][1]) > 0 => Len(p) > 0
  <2>1. 1 \in 1 .. m
    BY <1>1
  <2> QED BY <2>1, <1>3, <1>6, <1>8
<1> QED BY <1>3, <1>8, <1>9, <1>10 DEF m, n

(* A tile of a matrix product runs to its end.                              *)
LEMMA GemmRuns ==
  ASSUME GemmTile
  PROVE  RunsOnCore(Gemm!Program, {})
<1> DEFINE m == Len(Gemm!MPieces)
           n == Len(Gemm!NPieces)
           f == [k \in 1 .. m |-> [j \in 1 .. n |-> Gemm!Multiply(Gemm!MPieces[k], Gemm!NPieces[j])]]
           g == [k \in 1 .. m |-> [j \in 1 .. n |-> Gemm!Store(Gemm!MPieces[k], Gemm!NPieces[j])]]
           x == Joined([k \in 1 .. m |-> Joined([j \in 1 .. n |-> f[k][j]])])
           y == Joined([k \in 1 .. m |-> Joined([j \in 1 .. n |-> g[k][j]])])
           out(k, j) == Gemm!OutPlace(Gemm!NPieces[j], Gemm!MPieces[k])
           last == IF Gemm!LastSummands THEN y ELSE <<>>
<1>1. Gemm!Program = (Gemm!Loads \o x) \o last
  BY GemmJoined DEF Gemm!Program, Gemm!ForEachPiece
<1>2. m \in Nat \ {0} /\ n \in Nat \ {0}
  BY GemmLoops DEF IsPieces
<1>3. \A k \in 1 .. m, j \in 1 .. n : /\ f[k][j] = Gemm!Multiply(Gemm!MPieces[k], Gemm!NPieces[j])
                                      /\ g[k][j] = Gemm!Store(Gemm!MPieces[k], Gemm!NPieces[j])
  OBVIOUS
<1> HIDE DEF f, g
<1>4. \A k \in 1 .. m, j \in 1 .. n :
        /\ IsSeq(f[k][j]) /\ Len(f[k][j]) > 0 /\ NoLoads(f[k][j]) /\ RunsAfter(f[k][j], PlacesOf(Gemm!Loads), {})
        /\ out(k, j) \in PlacesOf(f[k][j])
  BY <1>3, GemmMultiply
<1>5. /\ IsSeq(x) /\ NoLoads(x) /\ RunsAfter(x, PlacesOf(Gemm!Loads), {}) /\ Len(x) > 0
      /\ \A k \in 1 .. m, j \in 1 .. n : out(k, j) \in PlacesOf(x)
  <2>1. /\ IsSeq(x) /\ NoLoads(x) /\ RunsAfter(x, PlacesOf(Gemm!Loads), {})
        /\ \A k \in 1 .. m : \A j \in 1 .. n : PlacesOf(f[k][j]) \subseteq PlacesOf(x)
        /\ Len(f[1][1]) > 0 => Len(x) > 0
    BY <1>4, GemmForEach
  <2>2. 1 \in 1 .. m /\ 1 \in 1 .. n
    BY <1>2
  <2> HIDE DEF x, out
  <2> QED BY <2>1, <2>2, <1>4
<1>6. ASSUME NEW there, PlacesOf(x) \subseteq there
      PROVE  IsSeq(y) /\ NoLoads(y) /\ RunsAfter(y, there, {})
  <2>1. \A k \in 1 .. m : \A j \in 1 .. n : IsSeq(g[k][j]) /\ NoLoads(g[k][j]) /\ RunsAfter(g[k][j], there, {})
    <3> HIDE DEF x, y
    <3>1. \A k \in 1 .. m, j \in 1 .. n : out(k, j) \in there
      BY <1>5, <1>6
    <3> QED BY <3>1, <1>3, GemmStore
  <2> QED BY <2>1, GemmForEach
<1> HIDE DEF x, y, m, n
<1>7. IsSeq(Gemm!Loads) /\ RunsAfter(Gemm!Loads, {}, {})
  BY GemmLoads
<1>8. IsSeq(Gemm!Loads \o x) /\ RunsAfter(Gemm!Loads \o x, {}, {}) /\ EndsWell(Gemm!Loads \o x)
      /\ PlacesOf(x) \subseteq PlacesOf(Gemm!Loads \o x)
  <2>1. {} \cup PlacesOf(Gemm!Loads) = PlacesOf(Gemm!Loads)
    OBVIOUS
  <2>2. RunsAfter(Gemm!Loads \o x, {}, {})
    BY <1>5, <1>7, <2>1, ConcatRuns
  <2>3. EndsWell(Gemm!Loads \o x)
    BY <1>5, <1>7, QuietEndsWell, ConcatEndsWell
  <2> QED BY <1>5, <1>7, <2>2, <2>3, ConcatSeq, ConcatPlaces
<1>9. IsSeq(last) /\ NoLoads(last) /\ RunsAfter(last, {} \cup PlacesOf(Gemm!Loads \o x), {})
  <2>1. PlacesOf(x) \subseteq {} \cup PlacesOf(Gemm!Loads \o x)
    BY <1>8
  <2> QED BY <2>1, <1>6, EmptyProgram
<1> HIDE DEF last
<1>10. /\ IsSeq((Gemm!Loads \o x) \o last) /\ RunsAfter((Gemm!Loads \o x) \o last, {}, {})
       /\ EndsWell((Gemm!Loads \o x) \o last)
  BY <1>8, <1>9, ConcatSeq, ConcatRuns, ConcatEndsWell
<1> QED BY <1>1, <1>10, ProgramRuns

-----------------------------------------------------------------------------
(* What holds of every tile of an attention of an ONNX graph.               *)
SelfAttentionTile ==
  /\ Precision \in Positive /\ Core.req \in Positive
  /\ layer.q \in Positive /\ layer.seq \in Positive /\ layer.dk \in Positive /\ layer.heads \in Positive
  /\ at[2] \in Nat /\ at[2] < layer.heads

(* The attention of a node counts as the library does.                      *)
LEMMA SelfAttentionCardinality == \A S : SelfAttention!Cardinality(S) = Cardinality(S)
BY DEF SelfAttention!Cardinality, Cardinality, SelfAttention!IsFiniteSet, IsFiniteSet

(* No operand of a head is without requests.                                *)
LEMMA SelfAttentionRequests ==
  ASSUME NEW head, NEW rows \in Positive, SelfAttentionTile
  PROVE  Cardinality(SelfAttention!HeadAddresses(head, rows)) > 0
<1> DEFINE R == 0 .. rows - 1
           K == 0 .. layer.dk - 1
           f == [p \in R \X K |-> SelfAttention!Address(head, p[1], p[2], rows)]
           T == SelfAttention!HeadAddresses(head, rows)
<1>1. IsFiniteSet(R) /\ R # {} /\ IsFiniteSet(K) /\ K # {}
  <2>1. 0 \in R /\ 0 \in K /\ rows - 1 \in Int /\ layer.dk - 1 \in Int
    BY DEF SelfAttentionTile, Positive
  <2>2. IsFiniteSet(0 .. rows - 1)
    BY <2>1, FS_Interval
  <2>3. IsFiniteSet(0 .. layer.dk - 1)
    BY <2>1, FS_Interval
  <2> QED BY <2>1, <2>2, <2>3
<1>2. /\ \A t \in T : \E r \in R, k \in K : t = f[<<r, k>>]
      /\ \A r \in R, k \in K : f[<<r, k>>] \in T
  <2>1. T = {SelfAttention!Address(head, r, k, rows) : r \in R, k \in K}
    BY DEF SelfAttention!HeadAddresses
  <2>2. \A r \in R, k \in K : f[<<r, k>>] = SelfAttention!Address(head, r, k, rows)
    OBVIOUS
  <2> HIDE DEF f, T, R, K
  <2> QED BY <2>1, <2>2
<1> HIDE DEF R, K, f, T
<1>3. Cardinality(T) > 0
  BY <1>1, <1>2, ManyRequests
<1> QED BY <1>3 DEF T

(* Queries, keys and values do not overlap.                                 *)
LEMMA SelfAttentionPlaces ==
  ASSUME SelfAttentionTile
  PROVE  /\ SelfAttention!QueryPlace # SelfAttention!KeyPlace /\ SelfAttention!QueryPlace # SelfAttention!ValuePlace
         /\ SelfAttention!KeyPlace # SelfAttention!ValuePlace
         /\ SelfAttention!QueryPlace[1] = "spad" /\ SelfAttention!KeyPlace[1] = "spad" /\ SelfAttention!ValuePlace[1] = "spad"
<1>1. PICK q \in Positive, s \in Positive, d \in Positive, p \in Positive, h \in Positive, a \in Nat :
        q = layer.q /\ s = layer.seq /\ d = layer.dk /\ p = Precision /\ h = layer.heads /\ a = at[2] /\ a < h
  BY DEF SelfAttentionTile
<1>2. a \div h = 0
  BY <1>1 DEF Positive
<1>3. SelfAttention!KeyHead = 0
  BY <1>1, <1>2 DEF SelfAttention!KeyHead, SelfAttention!HeadIndex
<1>4. PICK kb \in Positive, b \in Positive : kb = SelfAttention!KeyBytes /\ b = SelfAttention!KeyBase
  <2>1. (s * d) * p \in Positive /\ (q * d) * p \in Positive
    BY ProductPositive
  <2>2. SelfAttention!KeyBytes = (s * d) * p /\ SelfAttention!KeyBase = (q * d) * p
    BY <1>1 DEF SelfAttention!KeyBytes, SelfAttention!KeyBase, SelfAttention!Precision, SelfAttention!Core, Precision, Core
  <2> QED BY <2>1, <2>2
<1>5. SelfAttention!KeyPlace = <<"spad", b>> /\ SelfAttention!ValuePlace = <<"spad", b + kb>>
  <2>1. 0 * kb = 0 /\ b + 0 = b /\ (b + kb) + 0 = b + kb
    BY DEF Positive
  <2> QED BY <1>3, <1>4, <2>1 DEF SelfAttention!KeyPlace, SelfAttention!ValuePlace, SelfAttention!ValueBase
<1>6. b # 0 /\ b + kb # 0 /\ b # b + kb
  BY DEF Positive
<1> QED BY <1>5, <1>6 DEF SelfAttention!QueryPlace

(* A tile of the attention of a node runs to its end.                       *)
LEMMA SelfAttentionRuns ==
  ASSUME SelfAttentionTile
  PROVE  RunsOnCore(SelfAttention!Program, {})
<1> DEFINE p == SelfAttention!Program
           q == SelfAttention!QueryPlace
           k == SelfAttention!KeyPlace
           v == SelfAttention!ValuePlace
           l == SelfAttention!LogitPlace
<1>1. Len(p) = 7 /\ IsSeq(p)
  <2>1. p \in Seq({p[1], p[2], p[3], p[4], p[5], p[6], p[7]}) /\ Len(p) = 7
    BY DEF SelfAttention!Program
  <2> QED BY <2>1 DEF IsSeq
<1>2. Cardinality(SelfAttention!KeyAddresses) > 0 /\ Cardinality(SelfAttention!QueryAddresses) > 0
  BY SelfAttentionRequests DEF SelfAttentionTile, SelfAttention!KeyAddresses, SelfAttention!QueryAddresses
<1>3. /\ p[1].op = "MOVIN" /\ p[1].dest = k /\ p[1].size > 0
      /\ p[2].op = "MOVIN" /\ p[2].dest = v /\ p[2].size > 0
      /\ p[3].op = "MOVIN" /\ p[3].dest = q /\ p[3].size > 0
  BY <1>2, SelfAttentionCardinality DEF SelfAttention!Program, SelfAttention!MoveIn
<1>4. /\ p[4].op = "COMPUTE" /\ p[4].dest = l /\ p[4].srcs = {q, k} /\ p[4].fromAcc = FALSE
      /\ p[5].op = "COMPUTE" /\ p[5].dest = l /\ p[5].srcs = {l} /\ p[5].fromAcc = TRUE
      /\ p[6].op = "COMPUTE" /\ p[6].dest = l /\ p[6].srcs = {l, v} /\ p[6].fromAcc = TRUE
      /\ p[7].op = "MOVOUT" /\ p[7].dest = l
  BY DEF SelfAttention!Program, SelfAttention!Step, SelfAttention!Compute, SelfAttention!MoveOut
<1>5. q # k /\ q # v /\ k # v /\ q[1] = "spad" /\ k[1] = "spad" /\ v[1] = "spad"
  BY SelfAttentionPlaces
<1> HIDE DEF p, q, k, v, l
<1>6. \A i \in 1 .. 7 : i = 1 \/ i = 2 \/ i = 3 \/ i = 4 \/ i = 5 \/ i = 6 \/ i = 7
  OBVIOUS
<1>7. RunsOnCore(p, {})
  <2>1. p # <<>> /\ p[Len(p)].op # "MOVIN"
    <3>1. p # <<>>
      <4>1. Len(<<>>) # 7
        BY EmptyProgram
      <4> QED BY <1>1, <4>1
    <3>2. p[Len(p)] = p[7]
      BY <1>1
    <3> QED BY <1>4, <3>1, <3>2
  <2>2. \A i \in InstructionsOf(p, "MOVIN") : TakesRoom(p, i) /\ p[i].size > 0
    BY <1>1, <1>3, <1>4, <1>5, <1>6 DEF InstructionsOf, TakesRoom, Before
  <2>3. \A i \in InstructionsOf(p, "COMPUTE") : \A place \in p[i].srcs \ {} :
          Before(p, i, place) /\ (place[1] = "acc" => p[i].fromAcc)
    BY <1>1, <1>3, <1>4, <1>5, <1>6 DEF InstructionsOf, Before
  <2>4. \A i \in InstructionsOf(p, "MOVOUT") : Before(p, i, p[i].dest)
    BY <1>1, <1>3, <1>4, <1>6 DEF InstructionsOf, Before
  <2> QED BY <2>1, <2>2, <2>3, <2>4 DEF RunsOnCore
<1> QED BY <1>7 DEF p

-----------------------------------------------------------------------------
(* Programs that load their operands, compute and store.                    *)
LEMMA SimpleProgramRuns ==
  ASSUME NEW p, IsSeq(p), NEW n \in Nat, n < Len(p),
         \A k \in 1 .. n : p[k].op = "MOVIN" /\ p[k].size > 0,
         \A j, k \in 1 .. n : j < k => p[j].dest # p[k].dest,
         \A k \in 1 .. Len(p) : k > n =>
           \/ p[k].op = "COMPUTE" /\ \A x \in p[k].srcs : x[1] = "spad" /\ \E j \in 1 .. n : p[j].dest = x
           \/ p[k].op = "MOVOUT" /\ \E j \in 1 .. k - 1 : p[j].op # "MOVOUT" /\ p[j].dest = p[k].dest
  PROVE  RunsOnCore(p, {})
<1>1. PICK m \in Nat : m = Len(p) /\ n < m
  BY SeqLength
<1>2. \A k \in 1 .. m :
        /\ p[k].op = "MOVIN" => k \in 1 .. n
        /\ p[k].op # "MOVIN" => k > n
  BY <1>1
<1>3. p # <<>> /\ p[Len(p)].op # "MOVIN"
  <2>1. p # <<>>
    <3>1. Len(<<>>) = 0
      BY EmptyProgram
    <3> QED BY <1>1, <3>1
  <2>2. m \in 1 .. m /\ m > n
    BY <1>1
  <2> QED BY <1>1, <2>1, <2>2
<1>4. \A k \in InstructionsOf(p, "MOVIN") : TakesRoom(p, k) /\ p[k].size > 0
  <2> SUFFICES ASSUME NEW k \in 1 .. m, p[k].op = "MOVIN" PROVE TakesRoom(p, k) /\ p[k].size > 0
    BY <1>1 DEF InstructionsOf
  <2>1. k \in 1 .. n
    BY <1>1, <1>2
  <2> QED BY <2>1 DEF TakesRoom, Before
<1>5. \A k \in InstructionsOf(p, "COMPUTE") : \A place \in p[k].srcs \ {} :
        Before(p, k, place) /\ (place[1] = "acc" => p[k].fromAcc)
  <2> SUFFICES ASSUME NEW k \in 1 .. m, p[k].op = "COMPUTE", NEW x \in p[k].srcs
               PROVE  Before(p, k, x) /\ (x[1] = "acc" => p[k].fromAcc)
    BY <1>1 DEF InstructionsOf
  <2>1. k \in 1 .. Len(p) /\ k > n
    BY <1>1, <1>2
  <2>2. x[1] = "spad" /\ \E j \in 1 .. n : p[j].dest = x
    BY <1>1, <2>1
  <2> QED BY <2>1, <2>2 DEF Before
<1>6. \A k \in InstructionsOf(p, "MOVOUT") : Before(p, k, p[k].dest)
  <2> SUFFICES ASSUME NEW k \in 1 .. m, p[k].op = "MOVOUT" PROVE Before(p, k, p[k].dest)
    BY <1>1 DEF InstructionsOf
  <2>1. k \in 1 .. Len(p) /\ k > n
    BY <1>1, <1>2
  <2> QED BY <1>1, <2>1 DEF Before
<1> QED BY <1>3, <1>4, <1>5, <1>6 DEF RunsOnCore

(* What holds of every tile of an operation on rows or elements: the core,  *)
(* the matrix and the part of it that the tile takes.                       *)
RowTile ==
  /\ layer \in RowKind /\ layer.core \in CoreConfig
  /\ Row!First \in Nat /\ Row!Part \in Positive

(* The loop over the tiles goes over something.                             *)
LEMMA RowLength == ASSUME layer \in RowKind PROVE Row!Length \in Positive
<1>1. layer.seq \in Positive /\ layer.dk \in Positive /\ layer.other \in Positive
  BY DEF RowKind
<1>2. Row!AtLeast(layer.dk, layer.other) \in Positive
  BY <1>1 DEF Row!AtLeast
<1> QED BY <1>1, <1>2 DEF Row!Length

(* The sizes of a row.                                                      *)
LEMMA RowSizes ==
  ASSUME RowTile
  PROVE  /\ Row!Precision \in Positive /\ Row!Core.req \in Positive /\ Row!RowBytes \in Positive
         /\ layer.seq \in Positive /\ layer.dk \in Positive /\ Row!BinaryElements \in Positive
<1>1. Row!Precision \in Positive /\ Row!Core.req \in Positive /\ layer.dk \in Positive /\ layer.seq \in Positive /\ Row!Core.spad \in Nat
  BY DEF RowTile, RowKind, CoreConfig, Positive, Row!Precision, Row!Core
<1>2. Row!RowBytes \in Positive
  BY <1>1 DEF Row!RowBytes, Positive
<1>3. Row!BinaryElements \in Positive
  <2>1. PICK a \in Int : a = ((Row!Core.spad * 1024) \div 3) \div Row!Precision
    BY <1>1 DEF Positive
  <2>2. PICK length \in Positive : length = Row!Length
    BY RowLength DEF RowTile
  <2> QED BY <2>1, <2>2 DEF Row!BinaryElements, Row!AtLeast, Row!AtMost, Positive
<1> QED BY <1>1, <1>2, <1>3

(* The operations on rows count as the library does.                        *)
LEMMA RowCardinality == \A S : Row!Cardinality(S) = Cardinality(S)
BY DEF Row!Cardinality, Cardinality, Row!IsFiniteSet, IsFiniteSet

(* No part of a tensor that a tile covers is without requests.              *)
LEMMA RowRequests ==
  ASSUME RowTile, NEW start \in Nat, NEW bytes \in Positive
  PROVE  Cardinality(Row!Requests(start, bytes)) > 0
<1> DEFINE T == Row!Requests(start, bytes)
<1>1. PICK q \in Positive : q = Row!Core.req
  BY RowSizes
<1>2. T \subseteq 0 .. start + bytes
  BY <1>1 DEF Row!Requests, Positive
<1>3. start \in T
  <2>1. 0 \in 0 .. bytes - 1 /\ 0 % q = 0 /\ start + 0 = start
    BY DEF Positive
  <2> QED BY <1>1, <2>1 DEF Row!Requests
<1>4. start + bytes \in Nat /\ T # {}
  BY <1>3 DEF Positive
<1> HIDE DEF T
<1> QED BY <1>2, <1>4, FiniteSubset DEF T

(* The places of the operands of a tile.                                    *)
LEMMA RowPlaces ==
  ASSUME RowTile, NEW n \in Positive
  PROVE  /\ Row!Place(0)[1] = "spad" /\ \A x : Row!Place(x)[1] = "spad"
         /\ n * Row!RowBytes \in Positive /\ n * Row!Precision \in Positive
         /\ Row!Place(0) # Row!Place(n * Row!RowBytes)
         /\ Row!Place(0) # Row!Place(Row!BinaryElements * Row!Precision)
<1>1. n * Row!RowBytes \in Positive /\ n * Row!Precision \in Positive /\ Row!BinaryElements * Row!Precision \in Positive
  BY RowSizes, ProductPositive
<1>2. \A x \in Positive : Row!Place(0) # Row!Place(x)
  BY DEF Row!Place, Positive
<1>3. \A x : Row!Place(x)[1] = "spad"
  BY DEF Row!Place
<1> QED BY <1>1, <1>2, <1>3

(* Where the rows of a tile start.                                          *)
LEMMA RowStart ==
  ASSUME RowTile, NEW first \in Nat
  PROVE  first * Row!RowBytes \in Nat /\ first * Row!Precision \in Nat /\ layer.seq * Row!RowBytes \in Nat
BY RowSizes DEF Positive

(* A program that loads one operand, or two.                                *)
LEMMA OneLoadRuns ==
  ASSUME NEW p, IsSeq(p), NEW a, a[1] = "spad", Len(p) > 1, p[1].op = "MOVIN" /\ p[1].dest = a /\ p[1].size > 0,
         \A k \in 1 .. Len(p) : k > 1 =>
           \/ p[k].op = "COMPUTE" /\ p[k].srcs = {a}
           \/ p[k].op = "MOVOUT" /\ p[k].dest = a
  PROVE  RunsOnCore(p, {})
<1>1. 1 \in Nat /\ 1 < Len(p) /\ Len(p) \in Nat
  BY SeqLength
<1>2. \A k \in 1 .. 1 : p[k].op = "MOVIN" /\ p[k].size > 0
  OBVIOUS
<1>3. \A j, k \in 1 .. 1 : j < k => p[j].dest # p[k].dest
  OBVIOUS
<1>4. \A k \in 1 .. Len(p) : k > 1 =>
           \/ p[k].op = "COMPUTE" /\ \A x \in p[k].srcs : x[1] = "spad" /\ \E j \in 1 .. 1 : p[j].dest = x
           \/ p[k].op = "MOVOUT" /\ \E j \in 1 .. k - 1 : p[j].op # "MOVOUT" /\ p[j].dest = p[k].dest
  BY <1>1
<1> QED BY <1>1, <1>2, <1>3, <1>4, SimpleProgramRuns

TwoLoads(p, a, b) ==
  /\ IsSeq(p) /\ a # b /\ a[1] = "spad" /\ b[1] = "spad" /\ Len(p) > 2
  /\ p[1].op = "MOVIN" /\ p[1].dest = a /\ p[1].size > 0
  /\ p[2].op = "MOVIN" /\ p[2].dest = b /\ p[2].size > 0
  /\ \A k \in 1 .. Len(p) : k > 2 =>
       \/ p[k].op = "COMPUTE" /\ p[k].srcs \subseteq {a, b}
       \/ p[k].op = "MOVOUT" /\ \E j \in 1 .. k - 1 : p[j].op # "MOVOUT" /\ p[j].dest = p[k].dest

(* Two operands are loaded, and one result is made and stored.              *)
LEMMA TwoLoadsRun == ASSUME NEW p, NEW a, NEW b, TwoLoads(p, a, b) PROVE RunsOnCore(p, {})
<1> USE DEF TwoLoads
<1>1. 2 \in Nat /\ 2 < Len(p) /\ Len(p) \in Nat
  BY SeqLength
<1>2. \A k \in 1 .. 2 : p[k].op = "MOVIN" /\ p[k].size > 0
  OBVIOUS
<1>3. \A j, k \in 1 .. 2 : j < k => p[j].dest # p[k].dest
  OBVIOUS
<1>4. \A k \in 1 .. Len(p) : k > 2 =>
           \/ p[k].op = "COMPUTE" /\ \A x \in p[k].srcs : x[1] = "spad" /\ \E j \in 1 .. 2 : p[j].dest = x
           \/ p[k].op = "MOVOUT" /\ \E j \in 1 .. k - 1 : p[j].op # "MOVOUT" /\ p[j].dest = p[k].dest
  BY <1>1
<1> QED BY <1>1, <1>2, <1>3, <1>4, SimpleProgramRuns

(* The tiles of SkipLayerNorm.                                              *)
LEMMA SkipLayerNormRuns ==
  ASSUME RowTile, NEW first \in Nat, NEW n \in Positive
  PROVE  RunsOnCore(Row!SkipLayerNormProgram(first, n), {})
<1> DEFINE part == Row!Requests(first * Row!RowBytes, n * Row!RowBytes)
           p == Row!SkipLayerNormProgram(first, n)
           zero == Row!Place(0)
           skip == Row!Place(n * Row!RowBytes)
<1>1. Cardinality(part) > 0
  BY RowPlaces, RowStart, RowRequests
<1>2. IsSeq(p) /\ Len(p) = 5
  <2>1. p \in Seq({p[1], p[2], p[3], p[4], p[5]}) /\ Len(p) = 5
    BY DEF Row!SkipLayerNormProgram
  <2> QED BY <2>1 DEF IsSeq
<1>3. p[1].op = "MOVIN" /\ p[1].dest = zero /\ p[1].size > 0 /\ p[2].op = "MOVIN" /\ p[2].dest = skip /\ p[2].size > 0
  BY <1>1, RowCardinality DEF Row!SkipLayerNormProgram, Row!MoveIn
<1>4. /\ p[3].op = "COMPUTE" /\ p[3].srcs = {zero}
      /\ p[4].op = "COMPUTE" /\ p[4].srcs = {zero, skip}
      /\ p[5].op = "MOVOUT" /\ p[5].dest = zero
  BY DEF Row!SkipLayerNormProgram, Row!InPlace, Row!Compute, Row!MoveOut
<1>5. zero # skip /\ zero[1] = "spad" /\ skip[1] = "spad"
  BY RowPlaces
<1> HIDE DEF p, zero, skip, part
<1>6. ASSUME NEW k \in 1 .. Len(p), k > 2
      PROVE  \/ p[k].op = "COMPUTE" /\ p[k].srcs \subseteq {zero, skip}
             \/ p[k].op = "MOVOUT" /\ \E j \in 1 .. k - 1 : p[j].op # "MOVOUT" /\ p[j].dest = p[k].dest
  <2>1. k = 3 \/ k = 4 \/ k = 5
    BY <1>2, <1>6
  <2>2. 1 \in 1 .. 5 - 1 /\ p[1].op # "MOVOUT" /\ p[1].dest = zero
    BY <1>3
  <2> QED BY <1>4, <2>1, <2>2
<1>7. Len(p) > 2
  BY <1>2
<1>8. TwoLoads(p, zero, skip)
  BY <1>2, <1>3, <1>5, <1>6, <1>7 DEF TwoLoads
<1> QED BY <1>8, TwoLoadsRun DEF p

(* The tiles of Softmax.                                                    *)
LEMMA SoftmaxRuns ==
  ASSUME RowTile, NEW first \in Nat, NEW n \in Positive
  PROVE  RunsOnCore(Row!SoftmaxProgram(first, n), {})
<1> DEFINE part == Row!Requests(first * Row!RowBytes, n * Row!RowBytes)
           p == Row!SoftmaxProgram(first, n)
           zero == Row!Place(0)
<1>1. Cardinality(part) > 0
  BY RowPlaces, RowStart, RowRequests
<1>2. IsSeq(p) /\ Len(p) = 3
  <2>1. p \in Seq({p[1], p[2], p[3]}) /\ Len(p) = 3
    BY DEF Row!SoftmaxProgram
  <2> QED BY <2>1 DEF IsSeq
<1>3. p[1].op = "MOVIN" /\ p[1].dest = zero /\ p[1].size > 0
  BY <1>1, RowCardinality DEF Row!SoftmaxProgram, Row!MoveIn
<1>4. p[2].op = "COMPUTE" /\ p[2].srcs = {zero} /\ p[3].op = "MOVOUT" /\ p[3].dest = zero
  BY DEF Row!SoftmaxProgram, Row!InPlace, Row!Compute, Row!MoveOut
<1>5. zero[1] = "spad"
  BY RowPlaces
<1> HIDE DEF p, zero, part
<1>6. \A k \in 1 .. Len(p) : k > 1 =>
        \/ p[k].op = "COMPUTE" /\ p[k].srcs = {zero}
        \/ p[k].op = "MOVOUT" /\ p[k].dest = zero
  BY <1>2, <1>4
<1>7. Len(p) > 1
  BY <1>2
<1>8. RunsOnCore(p, {})
  BY <1>2, <1>3, <1>5, <1>6, <1>7, OneLoadRuns
<1> QED BY <1>8 DEF p

(* The tiles of the operations that only move.                              *)
LEMMA ShapeRuns ==
  ASSUME RowTile, NEW first \in Nat, NEW n \in Positive
  PROVE  RunsOnCore(Row!ShapeProgram(first, n), {})
<1> DEFINE part == Row!Requests(first * Row!Precision, n * Row!Precision)
           p == Row!ShapeProgram(first, n)
           zero == Row!Place(0)
<1>1. Cardinality(part) > 0
  BY RowPlaces, RowStart, RowRequests
<1>2. IsSeq(p) /\ Len(p) = 2
  <2>1. p \in Seq({p[1], p[2]}) /\ Len(p) = 2
    BY DEF Row!ShapeProgram
  <2> QED BY <2>1 DEF IsSeq
<1>3. p[1].op = "MOVIN" /\ p[1].dest = zero /\ p[1].size > 0
  BY <1>1, RowCardinality DEF Row!ShapeProgram, Row!MoveIn
<1>4. p[2].op = "MOVOUT" /\ p[2].dest = zero
  BY DEF Row!ShapeProgram, Row!MoveOut
<1>5. zero[1] = "spad"
  BY RowPlaces
<1> HIDE DEF p, zero, part
<1>6. \A k \in 1 .. Len(p) : k > 1 => p[k].op = "MOVOUT" /\ p[k].dest = zero
  BY <1>2, <1>4
<1>7. Len(p) > 1
  BY <1>2
<1>8. RunsOnCore(p, {})
  BY <1>2, <1>3, <1>5, <1>6, <1>7, OneLoadRuns
<1> QED BY <1>8 DEF p

(* The tiles of the operations on two tensors.                              *)
LEMMA BinaryRuns ==
  ASSUME RowTile, NEW first \in Nat, NEW n \in Positive
  PROVE  RunsOnCore(Row!BinaryProgram(first, n), {})
<1> DEFINE part == Row!Requests(first * Row!Precision, n * Row!Precision)
           other == IF Row!Broadcast THEN {0} ELSE part
           p == Row!BinaryProgram(first, n)
           zero == Row!Place(0)
           second == Row!Place(Row!BinaryElements * Row!Precision)
           out == Row!Place(2 * Row!BinaryElements * Row!Precision)
<1>1. Cardinality(part) > 0 /\ Cardinality(other) > 0
  <2>1. Cardinality(part) > 0
    BY RowPlaces, RowStart, RowRequests
  <2>2. Cardinality({0}) > 0
    BY FS_Singleton
  <2> QED BY <2>1, <2>2
<1>2. IsSeq(p) /\ Len(p) = 4
  <2>1. p \in Seq({p[1], p[2], p[3], p[4]}) /\ Len(p) = 4
    BY DEF Row!BinaryProgram
  <2> QED BY <2>1 DEF IsSeq
<1>3. p[1].op = "MOVIN" /\ p[1].dest = zero /\ p[1].size > 0 /\ p[2].op = "MOVIN" /\ p[2].dest = second /\ p[2].size > 0
  BY <1>1, RowCardinality DEF Row!BinaryProgram, Row!MoveIn
<1>4. p[3].op = "COMPUTE" /\ p[3].srcs = {zero, second} /\ p[3].dest = out /\ p[4].op = "MOVOUT" /\ p[4].dest = out
  BY DEF Row!BinaryProgram, Row!Compute, Row!MoveOut
<1>5. zero # second /\ zero[1] = "spad" /\ second[1] = "spad"
  BY RowPlaces
<1> HIDE DEF p, zero, second, out, part, other
<1>6. ASSUME NEW k \in 1 .. Len(p), k > 2
      PROVE  \/ p[k].op = "COMPUTE" /\ p[k].srcs \subseteq {zero, second}
             \/ p[k].op = "MOVOUT" /\ \E j \in 1 .. k - 1 : p[j].op # "MOVOUT" /\ p[j].dest = p[k].dest
  <2>1. k = 3 \/ k = 4
    BY <1>2, <1>6
  <2>2. 3 \in 1 .. 4 - 1 /\ p[3].op # "MOVOUT" /\ p[3].dest = out
    BY <1>4
  <2> QED BY <1>4, <2>1, <2>2
<1>7. Len(p) > 2
  BY <1>2
<1>8. TwoLoads(p, zero, second)
  BY <1>2, <1>3, <1>5, <1>6, <1>7 DEF TwoLoads
<1> QED BY <1>8, TwoLoadsRun DEF p

(* The operations with a bias: as many steps in place as the operation has. *)
LEMMA BiasProgramRuns ==
  ASSUME RowTile, NEW first \in Nat, NEW n \in Positive, NEW steps, IsSeq(steps),
         \A k \in 1 .. Len(steps) : steps[k].op = "COMPUTE" /\ steps[k].srcs = {Row!Place(0)}
  PROVE  RunsOnCore((Row!AddBias(first, n) \o steps) \o Row!StoreRows(first, n), {})
<1> DEFINE part == Row!Requests(first * Row!RowBytes, n * Row!RowBytes)
           add == Row!AddBias(first, n)
           store == Row!StoreRows(first, n)
           p == (add \o steps) \o store
           zero == Row!Place(0)
           bias == Row!Place(n * Row!RowBytes)
<1>1. Cardinality(part) > 0 /\ Cardinality(Row!Requests(layer.seq * Row!RowBytes, Row!RowBytes)) > 0
  BY RowPlaces, RowStart, RowRequests, RowSizes
<1>2. IsSeq(add) /\ Len(add) = 3 /\ IsSeq(store) /\ Len(store) = 1
  <2>1. add \in Seq({add[1], add[2], add[3]}) /\ Len(add) = 3
    BY DEF Row!AddBias
  <2>2. store \in Seq({store[1]}) /\ Len(store) = 1
    BY DEF Row!StoreRows
  <2> QED BY <2>1, <2>2 DEF IsSeq
<1>3. /\ add[1].op = "MOVIN" /\ add[1].dest = zero /\ add[1].size > 0
      /\ add[2].op = "MOVIN" /\ add[2].dest = bias /\ add[2].size > 0
  BY <1>1, RowCardinality DEF Row!AddBias, Row!MoveIn
<1>4. add[3].op = "COMPUTE" /\ add[3].srcs = {zero, bias} /\ store[1].op = "MOVOUT" /\ store[1].dest = zero
  BY DEF Row!AddBias, Row!StoreRows, Row!Compute, Row!MoveOut
<1>5. zero # bias /\ zero[1] = "spad" /\ bias[1] = "spad"
  BY RowPlaces
<1>6. \A k \in 1 .. Len(steps) : steps[k].op = "COMPUTE" /\ steps[k].srcs = {zero}
  OBVIOUS
<1>7. PICK m \in Nat : m = Len(steps)
  BY SeqLength
<1> HIDE DEF p, zero, bias, part, add, store
<1>8. /\ IsSeq(p) /\ Len(p) = 3 + m + 1
      /\ p[1] = add[1] /\ p[2] = add[2] /\ p[3] = add[3] /\ p[3 + m + 1] = store[1]
      /\ \A k \in 1 .. m : p[3 + k] = steps[k]
  <2> DEFINE q == add \o steps
  <2>1. IsSeq(q) /\ Len(q) = 3 + m /\ q[1] = add[1] /\ q[2] = add[2] /\ q[3] = add[3] /\ \A k \in 1 .. m : q[3 + k] = steps[k]
    <3>0. IsSeq(add) /\ IsSeq(steps)
      BY <1>2
    <3>1. /\ IsSeq(q) /\ Len(q) = Len(add) + Len(steps)
          /\ \A k \in 1 .. Len(add) : q[k] = add[k]
          /\ \A k \in 1 .. Len(steps) : q[Len(add) + k] = steps[k]
      BY ONLY <3>0, ConcatSeq DEF q
    <3> HIDE DEF q
    <3>2. 1 \in 1 .. 3 /\ 2 \in 1 .. 3 /\ 3 \in 1 .. 3
      OBVIOUS
    <3> QED BY <1>2, <1>7, <3>1, <3>2
  <2> HIDE DEF q
  <2>2. IsSeq(q \o store) /\ Len(q \o store) = 3 + m + 1 /\ (q \o store)[3 + m + 1] = store[1]
        /\ \A k \in 1 .. 3 + m : (q \o store)[k] = q[k]
    <3>0. IsSeq(q) /\ IsSeq(store)
      BY <1>2, <2>1
    <3>1. /\ IsSeq(q \o store) /\ Len(q \o store) = Len(q) + Len(store)
          /\ \A k \in 1 .. Len(q) : (q \o store)[k] = q[k]
          /\ \A k \in 1 .. Len(store) : (q \o store)[Len(q) + k] = store[k]
      BY ONLY <3>0, ConcatSeq
    <3>2. 1 \in 1 .. 1
      OBVIOUS
    <3> QED BY <1>2, <1>7, <2>1, <3>1, <3>2
  <2>3. p = q \o store
    BY DEF p, q
  <2> QED BY <2>1, <2>2, <2>3
<1>9. ASSUME NEW k \in 1 .. Len(p), k > 2
      PROVE  \/ p[k].op = "COMPUTE" /\ p[k].srcs \subseteq {zero, bias}
             \/ p[k].op = "MOVOUT" /\ \E j \in 1 .. k - 1 : p[j].op # "MOVOUT" /\ p[j].dest = p[k].dest
  <2>1. CASE k = 3
    BY <1>4, <1>8, <2>1
  <2>2. CASE k > 3 /\ k <= 3 + m
    <3>1. k - 3 \in 1 .. m /\ 3 + (k - 3) = k
      BY <1>8, <2>2
    <3>2. p[k] = steps[k - 3] /\ steps[k - 3].op = "COMPUTE" /\ steps[k - 3].srcs = {zero}
      BY <3>1, <1>6, <1>7, <1>8
    <3> QED BY <3>2
  <2>3. CASE k = 3 + m + 1
    <3>1. 1 \in 1 .. k - 1 /\ p[1].op # "MOVOUT" /\ p[1].dest = zero
      BY <1>3, <1>8, <2>3
    <3> QED BY <3>1, <1>4, <1>8, <2>3
  <2>4. k = 3 \/ (k > 3 /\ k <= 3 + m) \/ k = 3 + m + 1
    <3>1. k \in 1 .. 3 + m + 1
      BY <1>8
    <3> QED BY <1>7, <1>9, <3>1
  <2> QED BY <2>1, <2>2, <2>3, <2>4
<1>10. Len(p) > 2
  BY <1>8
<1>11. TwoLoads(p, zero, bias)
  BY <1>3, <1>5, <1>8, <1>9, <1>10 DEF TwoLoads
<1> QED BY <1>11, TwoLoadsRun DEF p, add, store

(* One step of the vector unit on a loaded operand.                         *)
LEMMA OneStep ==
  ASSUME NEW x PROVE IsSeq(<<x>>) /\ Len(<<x>>) = 1 /\ <<x>>[1] = x
<1>1. <<x>> \in Seq({x})
  OBVIOUS
<1> QED BY <1>1 DEF IsSeq

(* Two steps, the second one on the result of the first.                    *)
LEMMA TwoSteps ==
  ASSUME NEW x PROVE IsSeq(<<x, x>>) /\ Len(<<x, x>>) = 2 /\ <<x, x>>[1] = x /\ <<x, x>>[2] = x
<1>1. <<x, x>> \in Seq({x})
  OBVIOUS
<1> QED BY <1>1 DEF IsSeq

(* A step whose result replaces its operand.                                *)
LEMMA InPlaceStep ==
  ASSUME NEW size PROVE Row!InPlace(size).op = "COMPUTE" /\ Row!InPlace(size).srcs = {Row!Place(0)}
BY DEF Row!InPlace, Row!Compute

(* The tiles of BiasGelu.                                                   *)
LEMMA BiasGeluRuns ==
  ASSUME RowTile, NEW first \in Nat, NEW n \in Positive
  PROVE  RunsOnCore(Row!BiasGeluProgram(first, n), {})
<1> DEFINE x == Row!InPlace(Row!InRequests(n * Row!RowBytes))
<1>1. x.op = "COMPUTE" /\ x.srcs = {Row!Place(0)}
  BY InPlaceStep
<1>2. IsSeq(<<x>>) /\ Len(<<x>>) = 1 /\ <<x>>[1] = x
  BY OneStep
<1>3. Row!BiasGeluProgram(first, n) = (Row!AddBias(first, n) \o <<x>>) \o Row!StoreRows(first, n)
  BY DEF Row!BiasGeluProgram
<1> HIDE DEF x
<1>4. \A k \in 1 .. Len(<<x>>) : <<x>>[k].op = "COMPUTE" /\ <<x>>[k].srcs = {Row!Place(0)}
  BY <1>1, <1>2
<1> QED BY <1>2, <1>3, <1>4, BiasProgramRuns

(* The tiles of BiasAct, gated or not.                                      *)
LEMMA BiasActRuns ==
  ASSUME RowTile, NEW first \in Nat, NEW n \in Positive
  PROVE  RunsOnCore(Row!BiasActProgram(first, n), {})
<1> DEFINE x == Row!InPlace(Row!InRequests(Row!OutputColumns * n * Row!Precision))
           steps == IF layer.gated THEN <<x, x>> ELSE <<x>>
<1>1. x.op = "COMPUTE" /\ x.srcs = {Row!Place(0)}
  BY InPlaceStep
<1>2. Row!BiasActProgram(first, n) = (Row!AddBias(first, n) \o steps) \o Row!StoreRows(first, n)
  BY DEF Row!BiasActProgram
<1> HIDE DEF x
<1>3. IsSeq(steps) /\ \A k \in 1 .. Len(steps) : steps[k].op = "COMPUTE" /\ steps[k].srcs = {Row!Place(0)}
  <2>1. CASE layer.gated
    <3>1. IsSeq(<<x, x>>) /\ Len(<<x, x>>) = 2 /\ <<x, x>>[1] = x /\ <<x, x>>[2] = x
      BY TwoSteps
    <3>2. steps = <<x, x>>
      BY <2>1
    <3>3. \A k \in 1 .. Len(steps) : k = 1 \/ k = 2
      BY <3>1, <3>2
    <3> QED BY <1>1, <3>1, <3>2, <3>3
  <2>2. CASE ~layer.gated
    <3>1. IsSeq(<<x>>) /\ Len(<<x>>) = 1 /\ <<x>>[1] = x
      BY OneStep
    <3>2. steps = <<x>>
      BY <2>2
    <3>3. \A k \in 1 .. Len(steps) : k = 1
      BY <3>1, <3>2
    <3> QED BY <1>1, <3>1, <3>2, <3>3
  <2> QED BY <2>1, <2>2
<1> HIDE DEF steps
<1> QED BY <1>2, <1>3, BiasProgramRuns

OneLoadOf(p, a) ==
  /\ IsSeq(p) /\ a[1] = "spad" /\ Len(p) > 1 /\ p[1].op = "MOVIN" /\ p[1].dest = a /\ p[1].size > 0
  /\ \A k \in 1 .. Len(p) : k > 1 =>
       \/ p[k].op = "COMPUTE" /\ p[k].srcs = {a}
       \/ p[k].op = "MOVOUT" /\ p[k].dest = a

(* The tiles of the functions of one tensor.                                *)
LEMMA UnaryRuns ==
  ASSUME RowTile, NEW first \in Nat, NEW n \in Positive
  PROVE  RunsOnCore(Row!UnaryProgram(first, n), {})
<1> DEFINE part == Row!Requests(first * Row!Precision, n * Row!Precision)
           x == Row!InPlace(Row!InRequests(n * Row!Precision))
           steps == [k \in 1 .. Row!Opcodes(layer.function) |-> x]
           in == Row!MoveIn(Row!Place(0), "input", part)
           out == Row!MoveOut(Row!Place(0), "output", part)
           zero == Row!Place(0)
           p == (<<in>> \o steps) \o <<out>>
<1>1. Row!UnaryProgram(first, n) = p
  BY DEF Row!UnaryProgram
<1>2. Cardinality(part) > 0
  BY RowPlaces, RowStart, RowRequests
<1>3. in.op = "MOVIN" /\ in.dest = zero /\ in.size > 0 /\ out.op = "MOVOUT" /\ out.dest = zero
  BY <1>2, RowCardinality DEF Row!MoveIn, Row!MoveOut
<1>4. x.op = "COMPUTE" /\ x.srcs = {zero}
  BY InPlaceStep
<1>5. zero[1] = "spad"
  BY RowPlaces
<1>6. PICK m \in Nat : m = Row!Opcodes(layer.function)
  BY DEF Row!Opcodes
<1> HIDE DEF part, in, out, zero, x
<1>7. IsSeq(steps) /\ Len(steps) = m /\ \A k \in 1 .. m : steps[k] = x
  <2>1. steps \in Seq({x}) /\ Len(steps) = m
    BY <1>6
  <2> QED BY <1>6, <2>1 DEF IsSeq
<1> HIDE DEF steps
<1>8. IsSeq(<<in>>) /\ Len(<<in>>) = 1 /\ <<in>>[1] = in /\ IsSeq(<<out>>) /\ Len(<<out>>) = 1 /\ <<out>>[1] = out
  BY OneStep
<1> DEFINE a == <<in>>
           z == <<out>>
           q == a \o steps
<1>9. IsSeq(a) /\ Len(a) = 1 /\ a[1] = in /\ IsSeq(z) /\ Len(z) = 1 /\ z[1] = out
  BY <1>8
<1> HIDE DEF a, z
<1>10. IsSeq(q) /\ Len(q) = 1 + m /\ q[1] = in /\ \A k \in 1 .. m : q[1 + k] = x
  <2>1. IsSeq(a) /\ IsSeq(steps)
    BY <1>7, <1>9
  <2>2. /\ IsSeq(q) /\ Len(q) = Len(a) + Len(steps)
        /\ \A k \in 1 .. Len(a) : q[k] = a[k]
        /\ \A k \in 1 .. Len(steps) : q[Len(a) + k] = steps[k]
    BY ONLY <2>1, ConcatSeq DEF q
  <2>3. 1 \in 1 .. 1
    OBVIOUS
  <2> HIDE DEF q
  <2> QED BY <1>7, <1>9, <2>2, <2>3
<1> HIDE DEF q
<1>11. IsSeq(q \o z) /\ Len(q \o z) = m + 2 /\ (q \o z)[m + 2] = out /\ \A k \in 1 .. 1 + m : (q \o z)[k] = q[k]
  <2>1. IsSeq(q) /\ IsSeq(z)
    BY <1>9, <1>10
  <2>2. /\ IsSeq(q \o z) /\ Len(q \o z) = Len(q) + Len(z)
        /\ \A k \in 1 .. Len(q) : (q \o z)[k] = q[k]
        /\ \A k \in 1 .. Len(z) : (q \o z)[Len(q) + k] = z[k]
    BY ONLY <2>1, ConcatSeq
  <2>3. 1 \in 1 .. 1
    OBVIOUS
  <2> QED BY <1>9, <1>10, <2>2, <2>3
<1>12. p = q \o z
  BY DEF q, a, z
<1> HIDE DEF p
<1>13. ASSUME NEW k \in 1 .. Len(p), k > 1
       PROVE  \/ p[k].op = "COMPUTE" /\ p[k].srcs = {zero}
              \/ p[k].op = "MOVOUT" /\ p[k].dest = zero
  <2>1. CASE k <= 1 + m
    <3>1. k - 1 \in 1 .. m /\ 1 + (k - 1) = k /\ k \in 1 .. 1 + m
      BY <1>13, <2>1
    <3>2. p[k] = x
      BY <1>10, <1>11, <1>12, <3>1
    <3> QED BY <1>4, <3>2
  <2>2. CASE k = m + 2
    BY <1>3, <1>11, <1>12, <2>2
  <2>3. k \in 1 .. m + 2
    BY <1>11, <1>12
  <2> QED BY <2>1, <2>2, <2>3
<1>14. Len(p) > 1 /\ p[1] = in /\ IsSeq(p)
  <2>1. 1 \in 1 .. 1 + m
    OBVIOUS
  <2> QED BY <1>10, <1>11, <1>12, <2>1
<1>15. OneLoadOf(p, zero)
  BY <1>3, <1>5, <1>13, <1>14 DEF OneLoadOf
<1> QED BY <1>1, <1>15, OneLoadRuns DEF OneLoadOf

(* Every program of an operation on rows or elements runs on a core.        *)
LEMMA RowRuns == ASSUME RowTile PROVE RunsOnCore(Row!Program, {})
<1>1. PICK first \in Nat, n \in Positive : first = Row!First /\ n = Row!Part
  BY DEF RowTile
<1>2. layer.op \in {"skipnorm", "softmax", "biasgelu", "biasact", "unary", "binary", "shape"}
  BY DEF RowTile, RowKind
<1>3. CASE layer.op = "skipnorm"
  BY <1>1, <1>3, SkipLayerNormRuns DEF Row!Program
<1>4. CASE layer.op = "softmax"
  BY <1>1, <1>4, SoftmaxRuns DEF Row!Program
<1>5. CASE layer.op = "biasgelu"
  BY <1>1, <1>5, BiasGeluRuns DEF Row!Program
<1>6. CASE layer.op = "biasact"
  BY <1>1, <1>6, BiasActRuns DEF Row!Program
<1>7. CASE layer.op = "unary"
  BY <1>1, <1>7, UnaryRuns DEF Row!Program
<1>8. CASE layer.op = "binary"
  BY <1>1, <1>8, BinaryRuns DEF Row!Program
<1>9. CASE layer.op = "shape"
  BY <1>1, <1>9, ShapeRuns DEF Row!Program
<1> QED BY <1>2, <1>3, <1>4, <1>5, <1>6, <1>7, <1>8, <1>9

-----------------------------------------------------------------------------
(* What holds of every tile of a fused attention.                           *)
AttentionTile ==
  /\ Precision \in Positive /\ Core.req \in Positive /\ Core.dim \in Positive
  /\ layer.q \in Positive /\ layer.seq \in Positive /\ layer.dk \in Positive
  /\ layer.kvHeads \in Positive /\ Attention!HeadsPerKV \in Positive
  /\ mapping.queries \in Positive /\ mapping.keys \in Positive
  /\ Attention!FirstHead \in Nat
  /\ Attention!FirstQuery \in Nat /\ Attention!FirstQuery < layer.q
  /\ at[2] \in Nat /\ at[2] * mapping.keys < layer.seq

(* The fused attention joins its parts in the same way,                     *)
LEMMA AttentionJoined == \A s : Attention!Joined(s) = Joined(s)
BY DEF Joined, Attention!Joined

(* counts as the library does                                               *)
LEMMA AttentionCardinality == \A S : Attention!Cardinality(S) = Cardinality(S)
BY DEF Attention!Cardinality, Cardinality, Attention!IsFiniteSet, IsFiniteSet

(* and rounds up as the mapping of a product does.                          *)
LEMMA AttentionCeilDiv == \A a, b : Attention!CeilDiv(a, b) = CeilDiv(a, b)
BY DEF CeilDiv, Attention!CeilDiv

(* No query, key or value of a tile is without requests.                    *)
LEMMA AttentionRequests ==
  ASSUME AttentionTile
  PROVE  /\ Cardinality(Attention!KeyAddresses) > 0
         /\ \A h : Cardinality(Attention!QueryAddresses(h)) > 0
<1> DEFINE K == 0 .. layer.dk - 1
           R == {k \in 0 .. Attention!Keys - 1 : at[2] * Attention!Keys + k < layer.seq}
           Q == Attention!FirstQuery .. Attention!AtMost(Attention!FirstQuery + Attention!Queries, layer.q) - 1
<1>1. IsFiniteSet(K) /\ K # {}
  <2>1. 0 \in K /\ layer.dk - 1 \in Int
    BY DEF AttentionTile, Positive
  <2> QED BY <2>1, FS_Interval
<1>2. IsFiniteSet(R) /\ R # {}
  <2>1. PICK n \in Positive, a \in Nat, s \in Positive : n = Attention!Keys /\ a = at[2] /\ s = layer.seq /\ a * n < s
    BY DEF AttentionTile, Attention!Keys
  <2>2. a * n + 0 = a * n /\ 0 \in 0 .. n - 1
    BY DEF Positive
  <2>3. 0 \in R
    BY <2>1, <2>2
  <2>4. IsFiniteSet(0 .. n - 1)
    BY FS_Interval DEF Positive
  <2>5. R \subseteq 0 .. n - 1
    BY <2>1
  <2> HIDE DEF R
  <2> QED BY <2>3, <2>4, <2>5, FS_Subset
<1>3. IsFiniteSet(Q) /\ Q # {}
  <2>1. PICK n \in Positive, a \in Nat, s \in Positive :
          n = Attention!Queries /\ a = Attention!FirstQuery /\ s = layer.q /\ a < s
    BY DEF AttentionTile, Attention!Queries
  <2> DEFINE b == Attention!AtMost(a + n, s) - 1
  <2>2. b \in Int /\ a <= b
    BY <2>1 DEF Attention!AtMost, Positive
  <2>3. Q = a .. b /\ a \in a .. b
    <3>1. Q = a .. b
      BY <2>1
    <3> HIDE DEF b
    <3> QED BY <3>1, <2>2
  <2> HIDE DEF b
  <2>4. IsFiniteSet(a .. b)
    BY <2>2, FS_Interval
  <2> QED BY <2>3, <2>4
<1>4. Cardinality(Attention!KeyAddresses) > 0
  <2> DEFINE f == [p \in R \X K |-> Attention!Address(Attention!KVHead, p[1], p[2], layer.seq)]
             T == Attention!KeyAddresses
  <2>1. /\ \A t \in T : \E r \in R, k \in K : t = f[<<r, k>>]
        /\ \A r \in R, k \in K : f[<<r, k>>] \in T
    <3>1. T = {Attention!Address(Attention!KVHead, s, i, layer.seq) : s \in R, i \in K}
      BY DEF Attention!KeyAddresses
    <3>2. \A r \in R, k \in K : f[<<r, k>>] = Attention!Address(Attention!KVHead, r, k, layer.seq)
      OBVIOUS
    <3> HIDE DEF f, T, R, K
    <3> QED BY <3>1, <3>2
  <2> HIDE DEF R, K, f, T
  <2>2. Cardinality(T) > 0
    BY <1>1, <1>2, <2>1, ManyRequests
  <2> QED BY <2>2 DEF T
<1>5. ASSUME NEW h PROVE Cardinality(Attention!QueryAddresses(h)) > 0
  <2> DEFINE f == [p \in Q \X K |-> Attention!Address(Attention!FirstHead + h, p[1], p[2], layer.q)]
             T == Attention!QueryAddresses(h)
  <2>1. /\ \A t \in T : \E r \in Q, k \in K : t = f[<<r, k>>]
        /\ \A r \in Q, k \in K : f[<<r, k>>] \in T
    <3>1. T = {Attention!Address(Attention!FirstHead + h, j, i, layer.q) : j \in Q, i \in K}
      BY DEF Attention!QueryAddresses
    <3>2. \A r \in Q, k \in K : f[<<r, k>>] = Attention!Address(Attention!FirstHead + h, r, k, layer.q)
      OBVIOUS
    <3> HIDE DEF f, T, Q, K
    <3> QED BY <3>1, <3>2
  <2> HIDE DEF Q, K, f, T
  <2>2. Cardinality(T) > 0
    BY <1>1, <1>3, <2>1, ManyRequests
  <2> QED BY <2>2 DEF T
<1> QED BY <1>4, <1>5

(* Queries, keys and values do not overlap.                                 *)
LEMMA AttentionPlaces ==
  ASSUME AttentionTile
  PROVE  /\ \A h \in 0 .. Attention!HeadsPerKV - 1 :
              /\ Attention!QueryPlace(h) # Attention!KeyPlace /\ Attention!QueryPlace(h) # Attention!ValuePlace
              /\ \A g \in 0 .. Attention!HeadsPerKV - 1 : g < h => Attention!QueryPlace(g) # Attention!QueryPlace(h)
         /\ Attention!KeyPlace # Attention!ValuePlace
         /\ \A h : Attention!QueryPlace(h)[1] = "spad"
         /\ Attention!KeyPlace[1] = "spad" /\ Attention!ValuePlace[1] = "spad"
<1>1. PICK q \in Positive, s \in Positive, d \in Positive, p \in Positive, n \in Positive, v \in Positive :
        q = Attention!Queries /\ s = Attention!Keys /\ d = layer.dk /\ p = Precision /\ n = Attention!HeadsPerKV
        /\ v = layer.kvHeads
  BY DEF AttentionTile, Attention!Queries, Attention!Keys
<1>2. Attention!Precision = p
  BY <1>1 DEF Attention!Precision, Attention!Core, Precision, Core
<1>3. PICK u \in Positive : u = (q * d) * p
  BY ProductPositive
<1>4. PICK kb \in Positive : kb = Attention!KeyBytes(s)
  <2>1. (s * d) * p \in Positive
    BY ProductPositive
  <2> QED BY <1>1, <1>2, <2>1 DEF Attention!KeyBytes
<1>5. PICK b \in Positive : b = Attention!KeyBase /\ b = n * u
  <2>1. ((q * d) * n) * p = n * ((q * d) * p)
    BY DEF Positive
  <2>2. n * u \in Positive
    BY ProductPositive
  <2> QED BY <1>1, <1>2, <1>3, <2>1, <2>2 DEF Attention!KeyBase
<1>6. \A h \in Nat : Attention!QueryPlace(h) = <<"spad", h * u>>
  <2>1. \A h \in Nat : ((h * q) * d) * p = h * ((q * d) * p)
    BY DEF Positive
  <2> QED BY <1>1, <1>2, <1>3, <2>1 DEF Attention!QueryPlace
<1>7. PICK w \in Nat : w = Attention!KVHead * kb
  <2>1. PICK f \in Nat : f = Attention!FirstHead
    BY DEF AttentionTile
  <2>2. f \div v \in Nat
    BY DEF Positive
  <2>3. (f \div v) * kb \in Nat
    BY <2>2 DEF Positive
  <2> QED BY <1>1, <2>1, <2>3 DEF Attention!KVHead
<1>8. PICK z \in Positive : z = kb * CeilDiv(n, v)
  BY CeilDivBounds, ProductPositive
<1>9. Attention!KeyPlace = <<"spad", b + w>> /\ Attention!ValuePlace = <<"spad", (b + z) + w>>
  BY <1>1, <1>4, <1>5, <1>7, <1>8, AttentionCeilDiv DEF Attention!KeyPlace, Attention!ValuePlace, Attention!ValueBase
<1>10. \A h \in 0 .. n - 1 : h * u < b /\ h * u \in Nat
  <2> SUFFICES ASSUME NEW h \in 0 .. n - 1 PROVE h * u < b /\ h * u \in Nat
    OBVIOUS
  <2>1. h + 1 <= n
    BY DEF Positive
  <2>2. (h + 1) * u <= n * u
    BY <2>1 DEF Positive
  <2>3. (h + 1) * u = h * u + u /\ h * u \in Nat
    BY DEF Positive
  <2> QED BY <1>5, <2>2, <2>3 DEF Positive
<1>11. \A g, h \in 0 .. n - 1 : g < h => g * u < h * u
  BY DEF Positive
<1>12. ASSUME NEW h \in 0 .. n - 1
       PROVE  /\ Attention!QueryPlace(h) # Attention!KeyPlace /\ Attention!QueryPlace(h) # Attention!ValuePlace
              /\ \A g \in 0 .. n - 1 : g < h => Attention!QueryPlace(g) # Attention!QueryPlace(h)
  <2>1. h * u # b + w /\ h * u # (b + z) + w
    BY <1>10 DEF Positive
  <2>2. \A g \in 0 .. n - 1 : g < h => g * u # h * u
    BY <1>10, <1>11
  <2>3. h \in Nat /\ \A g \in 0 .. n - 1 : g \in Nat
    OBVIOUS
  <2> QED BY <1>6, <1>9, <2>1, <2>2, <2>3
<1>13. b + w # (b + z) + w
  BY DEF Positive
<1> QED BY <1>1, <1>9, <1>12, <1>13 DEF Attention!QueryPlace

(* All that a tile of a fused attention loads, each place once.             *)
LEMMA AttentionLoads ==
  ASSUME AttentionTile
  PROVE  /\ IsSeq(Attention!Loads) /\ RunsAfter(Attention!Loads, {}, {})
         /\ Attention!KeyPlace \in PlacesOf(Attention!Loads) /\ Attention!ValuePlace \in PlacesOf(Attention!Loads)
         /\ \A k \in 1 .. Attention!HeadsPerKV : Attention!QueryPlace(k - 1) \in PlacesOf(Attention!Loads)
<1> DEFINE x == Attention!MoveIn(Attention!KeyPlace, "key", Attention!KeyAddresses)
           y == Attention!MoveIn(Attention!ValuePlace, "value", Attention!KeyAddresses)
           s == Attention!LoadQueries
           p == Attention!Loads
<1>1. PICK n \in Positive : n = Attention!HeadsPerKV
  BY DEF AttentionTile
<1>2. /\ x.op = "MOVIN" /\ x.dest = Attention!KeyPlace /\ x.size > 0
      /\ y.op = "MOVIN" /\ y.dest = Attention!ValuePlace /\ y.size > 0
  BY AttentionRequests, AttentionCardinality DEF Attention!MoveIn
<1>3. /\ s = [k \in 1 .. n |-> s[k]]
      /\ \A k \in 1 .. n : s[k].op = "MOVIN" /\ s[k].dest = Attention!QueryPlace(k - 1) /\ s[k].size > 0
  BY <1>1, AttentionRequests, AttentionCardinality DEF Attention!LoadQueries, Attention!MoveIn
<1> DEFINE a == <<x>>
           z == <<y>>
           q == a \o s
<1>4. p = q \o z
  BY DEF Attention!Loads
<1>5. IsSeq(a) /\ Len(a) = 1 /\ a[1] = x /\ IsSeq(z) /\ Len(z) = 1 /\ z[1] = y
  BY OneStep
<1> HIDE DEF x, y, s, p, a, z
<1>6. IsSeq(s) /\ Len(s) = n
  BY <1>3, MadeSeq DEF Positive
<1>7. IsSeq(q) /\ Len(q) = 1 + n /\ q[1] = x /\ \A k \in 1 .. n : q[1 + k] = s[k]
  <2>1. /\ IsSeq(q) /\ Len(q) = Len(a) + Len(s)
        /\ \A k \in 1 .. Len(a) : q[k] = a[k]
        /\ \A k \in 1 .. Len(s) : q[Len(a) + k] = s[k]
    <3>1. IsSeq(a) /\ IsSeq(s)
      BY <1>5, <1>6
    <3> QED BY ONLY <3>1, ConcatSeq DEF q
  <2>2. 1 \in 1 .. 1
    OBVIOUS
  <2> HIDE DEF q
  <2> QED BY <1>5, <1>6, <2>1, <2>2
<1> HIDE DEF q
<1>8. IsSeq(p) /\ Len(p) = n + 2 /\ p[n + 2] = y /\ \A k \in 1 .. 1 + n : p[k] = q[k]
  <2>1. /\ IsSeq(q \o z) /\ Len(q \o z) = Len(q) + Len(z)
        /\ \A k \in 1 .. Len(q) : (q \o z)[k] = q[k]
        /\ \A k \in 1 .. Len(z) : (q \o z)[Len(q) + k] = z[k]
    <3>1. IsSeq(q) /\ IsSeq(z)
      BY <1>5, <1>7
    <3> QED BY ONLY <3>1, ConcatSeq
  <2>2. 1 \in 1 .. 1 /\ (1 + n) + 1 = n + 2
    BY DEF Positive
  <2> QED BY <1>4, <1>5, <1>7, <2>1, <2>2
<1>9. p[1] = x
  <2>1. 1 \in 1 .. 1 + n
    BY DEF Positive
  <2> QED BY <1>7, <1>8, <2>1
<1>10. \A k \in 1 .. n : p[1 + k] = s[k]
  <2>1. \A k \in 1 .. n : 1 + k \in 1 .. 1 + n
    BY DEF Positive
  <2> QED BY <1>7, <1>8, <2>1
<1>11. \A k \in 1 .. n + 2 : k = 1 \/ k = n + 2 \/ \E j \in 1 .. n : k = 1 + j
  <2> SUFFICES ASSUME NEW k \in 1 .. n + 2, k # 1, k # n + 2 PROVE \E j \in 1 .. n : k = 1 + j
    OBVIOUS
  <2>1. k - 1 \in 1 .. n /\ k = 1 + (k - 1)
    BY DEF Positive
  <2> QED BY <2>1
<1>12. \A k \in 1 .. n + 2 : p[k].op = "MOVIN" /\ p[k].size > 0
  BY <1>2, <1>3, <1>8, <1>9, <1>10, <1>11
<1>13. ASSUME NEW j \in 1 .. n + 2, NEW k \in 1 .. n + 2, j < k
       PROVE  p[j].dest # p[k].dest
  <2>1. \A i \in 1 .. n : i - 1 \in 0 .. n - 1
    BY DEF Positive
  <2>2. k # 1 /\ j # n + 2
    BY <1>13 DEF Positive
  <2>3. CASE j = 1 /\ k = n + 2
    BY <2>3, <1>2, <1>8, <1>9, AttentionPlaces
  <2>4. ASSUME j = 1, NEW i \in 1 .. n, k = 1 + i PROVE p[j].dest # p[k].dest
    BY <2>1, <2>4, <1>1, <1>2, <1>3, <1>9, <1>10, AttentionPlaces
  <2>5. ASSUME k = n + 2, NEW i \in 1 .. n, j = 1 + i PROVE p[j].dest # p[k].dest
    BY <2>1, <2>5, <1>1, <1>2, <1>3, <1>8, <1>10, AttentionPlaces
  <2>6. ASSUME NEW i \in 1 .. n, j = 1 + i, NEW g \in 1 .. n, k = 1 + g PROVE p[j].dest # p[k].dest
    <3>1. i - 1 < g - 1 /\ i - 1 \in 0 .. n - 1 /\ g - 1 \in 0 .. n - 1
      BY <2>1, <2>6, <1>13
    <3>2. Attention!QueryPlace(i - 1) # Attention!QueryPlace(g - 1)
      BY <3>1, <1>1, AttentionPlaces
    <3> QED BY <3>2, <2>6, <1>3, <1>10
  <2> QED BY <1>11, <2>2, <2>3, <2>4, <2>5, <2>6
<1>14. RunsAfter(p, {}, {})
  <2>1. Len(p) \in Nat /\ \A k \in 1 .. Len(p) : p[k].dest \notin {}
    BY <1>8 DEF Positive
  <2> QED BY <1>8, <1>12, <1>13, <2>1, LoadsRun
<1>15. \A k \in 1 .. n + 2 : p[k].dest \in PlacesOf(p)
  BY <1>8, <1>12 DEF PlacesOf, PlacesUpTo
<1>16. Attention!KeyPlace \in PlacesOf(p) /\ Attention!ValuePlace \in PlacesOf(p)
  <2>1. 1 \in 1 .. n + 2 /\ n + 2 \in 1 .. n + 2
    BY DEF Positive
  <2> QED BY <2>1, <1>2, <1>8, <1>9, <1>15
<1>17. \A k \in 1 .. n : Attention!QueryPlace(k - 1) \in PlacesOf(p)
  <2>1. \A k \in 1 .. n : 1 + k \in 1 .. n + 2
    BY DEF Positive
  <2> QED BY <2>1, <1>3, <1>10, <1>15
<1> QED BY <1>1, <1>8, <1>14, <1>16, <1>17 DEF p

(* One after another, instructions that load nothing.                       *)
LEMMA QuietParts ==
  ASSUME NEW n \in Positive, NEW s, s = [k \in 1 .. n |-> s[k]], NEW there, NEW waived,
         \A k \in 1 .. n : IsSeq(s[k]) /\ NoLoads(s[k]) /\ Len(s[k]) > 0 /\ RunsAfter(s[k], there, waived)
  PROVE  /\ IsSeq(Joined(s)) /\ NoLoads(Joined(s)) /\ Len(Joined(s)) > 0
         /\ RunsAfter(Joined(s), there, waived)
         /\ \A k \in 1 .. n : PlacesOf(s[k]) \subseteq PlacesOf(Joined(s))
<1>1. IsSeq(s) /\ Len(s) = n
  BY MadeSeq DEF Positive
<1>2. /\ IsSeq(Joined(s)) /\ NoLoads(Joined(s)) /\ RunsAfter(Joined(s), there, waived)
      /\ PlacesOf(Joined(s)) = PlacesOfParts(s, Len(s))
      /\ Len(s[1]) > 0 => Len(Joined(s)) > 0
  BY <1>1, JoinedQuiet DEF Positive
<1>3. 1 \in 1 .. n
  BY DEF Positive
<1> QED BY <1>1, <1>2, <1>3 DEF PlacesOfParts

(* One instruction that loads nothing.                                      *)
LEMMA QuietStep ==
  ASSUME NEW x, x.op \in {"COMPUTE", "MOVOUT"}, NEW there, NEW waived, RunsAt(<<x>>, 1, there, waived)
  PROVE  /\ IsSeq(<<x>>) /\ NoLoads(<<x>>) /\ Len(<<x>>) > 0 /\ RunsAfter(<<x>>, there, waived)
         /\ x.op = "COMPUTE" => x.dest \in PlacesOf(<<x>>)
<1>1. IsSeq(<<x>>) /\ Len(<<x>>) = 1 /\ <<x>>[1] = x
  BY OneStep
<1> DEFINE p == <<x>>
<1>2. IsSeq(p) /\ Len(p) = 1 /\ p[1] = x /\ RunsAt(p, 1, there, waived)
  BY <1>1
<1> HIDE DEF p
<1>3. NoLoads(p)
  BY <1>2 DEF NoLoads
<1>4. \A k \in 1 .. Len(p) : k = 1
  BY <1>2
<1>5. RunsAfter(p, there, waived)
  BY <1>2, <1>3, <1>4, QuietRuns
<1>6. x.op = "COMPUTE" => x.dest \in PlacesOf(p)
  BY <1>2 DEF PlacesOf, PlacesUpTo
<1> QED BY <1>2, <1>3, <1>5, <1>6 DEF p

AttentionLogits == {Attention!LogitPlace(k - 1) : k \in 1 .. Attention!HeadsPerKV}

(* The instructions of a product are the same for every pair of blocks, but *)
(* for what they multiply: one for every head.                              *)
IsProduct(p, m, n, srcs, flag, size, products) ==
  p = Joined([i \in 1 .. m |-> Joined([j \in 1 .. n |-> Joined(
        [k \in 1 .. Attention!HeadsPerKV |->
           <<Attention!Compute(Attention!LogitPlace(k - 1), size, srcs[k], flag, products[i][j])>>])])])
AreThere(srcs, flag, there) ==
  \A k \in 1 .. Attention!HeadsPerKV : \A x \in srcs[k] : x \in there /\ (x[1] = "acc" => flag = TRUE)

(* A product runs where its operands are, and makes the logits.             *)
LEMMA AttentionProduct ==
  ASSUME AttentionTile, NEW p, NEW m \in Positive, NEW n \in Positive, NEW srcs, NEW flag, NEW size, NEW products,
         IsProduct(p, m, n, srcs, flag, size, products), NEW there, AreThere(srcs, flag, there)
  PROVE  /\ IsSeq(p) /\ NoLoads(p) /\ Len(p) > 0 /\ RunsAfter(p, there, {})
         /\ AttentionLogits \subseteq PlacesOf(p)
<1> DEFINE H == Attention!HeadsPerKV
           x(i, j, k) == Attention!Compute(Attention!LogitPlace(k - 1), size, srcs[k], flag, products[i][j])
           heads(i, j) == [k \in 1 .. H |-> <<x(i, j, k)>>]
           block(i, j) == Joined(heads(i, j))
           row(i) == [j \in 1 .. n |-> block(i, j)]
           s == [i \in 1 .. m |-> Joined(row(i))]
<1>1. p = Joined(s)
  BY DEF IsProduct
<1>2. H \in Positive
  BY DEF AttentionTile
<1>3. ASSUME NEW i \in 1 .. m, NEW j \in 1 .. n
      PROVE  /\ IsSeq(block(i, j)) /\ NoLoads(block(i, j)) /\ Len(block(i, j)) > 0 /\ RunsAfter(block(i, j), there, {})
             /\ \A k \in 1 .. H : Attention!LogitPlace(k - 1) \in PlacesOf(block(i, j))
  <2>1. ASSUME NEW k \in 1 .. H
        PROVE  /\ IsSeq(<<x(i, j, k)>>) /\ NoLoads(<<x(i, j, k)>>) /\ Len(<<x(i, j, k)>>) > 0
               /\ RunsAfter(<<x(i, j, k)>>, there, {}) /\ Attention!LogitPlace(k - 1) \in PlacesOf(<<x(i, j, k)>>)
    <3> DEFINE y == x(i, j, k)
    <3>1. y.op = "COMPUTE" /\ y.dest = Attention!LogitPlace(k - 1) /\ y.srcs = srcs[k] /\ y.fromAcc = flag
      BY DEF Attention!Compute
    <3> HIDE DEF y
    <3>2. <<y>>[1] = y
      OBVIOUS
    <3>3. RunsAt(<<y>>, 1, there, {})
      BY <3>1, <3>2 DEF RunsAt, AreThere
    <3>4. /\ IsSeq(<<y>>) /\ NoLoads(<<y>>) /\ Len(<<y>>) > 0 /\ RunsAfter(<<y>>, there, {})
          /\ y.dest \in PlacesOf(<<y>>)
      BY <3>1, <3>3, QuietStep
    <3>5. Attention!LogitPlace(k - 1) \in PlacesOf(<<y>>)
      BY <3>1, <3>4
    <3> QED BY <3>4, <3>5 DEF y
  <2> DEFINE t == heads(i, j)
  <2>2. t = [k \in 1 .. H |-> t[k]] /\ \A k \in 1 .. H : t[k] = <<x(i, j, k)>>
    OBVIOUS
  <2>3. block(i, j) = Joined(t)
    OBVIOUS
  <2> HIDE DEF t, x, H, block
  <2>4. \A k \in 1 .. H : /\ IsSeq(t[k]) /\ NoLoads(t[k]) /\ Len(t[k]) > 0 /\ RunsAfter(t[k], there, {})
                          /\ Attention!LogitPlace(k - 1) \in PlacesOf(t[k])
    BY <2>1, <2>2
  <2>5. /\ IsSeq(Joined(t)) /\ NoLoads(Joined(t)) /\ Len(Joined(t)) > 0
        /\ RunsAfter(Joined(t), there, {})
        /\ \A k \in 1 .. H : PlacesOf(t[k]) \subseteq PlacesOf(Joined(t))
    BY <1>2, <2>2, <2>4, QuietParts
  <2> QED BY <2>3, <2>4, <2>5
<1> HIDE DEF block, H
<1>4. ASSUME NEW i \in 1 .. m
      PROVE  /\ IsSeq(s[i]) /\ NoLoads(s[i]) /\ Len(s[i]) > 0 /\ RunsAfter(s[i], there, {})
             /\ \A k \in 1 .. H : Attention!LogitPlace(k - 1) \in PlacesOf(s[i])
  <2> DEFINE t == row(i)
  <2>1. t = [j \in 1 .. n |-> t[j]] /\ \A j \in 1 .. n : t[j] = block(i, j)
    OBVIOUS
  <2>2. s[i] = Joined(t)
    OBVIOUS
  <2> HIDE DEF t, s
  <2>3. \A j \in 1 .. n : /\ IsSeq(t[j]) /\ NoLoads(t[j]) /\ Len(t[j]) > 0 /\ RunsAfter(t[j], there, {})
                          /\ \A k \in 1 .. H : Attention!LogitPlace(k - 1) \in PlacesOf(t[j])
    BY <2>1, <1>3
  <2>4. /\ IsSeq(Joined(t)) /\ NoLoads(Joined(t)) /\ Len(Joined(t)) > 0
        /\ RunsAfter(Joined(t), there, {})
        /\ \A j \in 1 .. n : PlacesOf(t[j]) \subseteq PlacesOf(Joined(t))
    BY <2>1, <2>3, QuietParts
  <2>5. 1 \in 1 .. n
    BY DEF Positive
  <2> QED BY <2>2, <2>3, <2>4, <2>5
<1>5. s = [i \in 1 .. m |-> s[i]]
  OBVIOUS
<1> HIDE DEF s
<1>6. /\ IsSeq(Joined(s)) /\ NoLoads(Joined(s)) /\ Len(Joined(s)) > 0
      /\ RunsAfter(Joined(s), there, {})
      /\ \A i \in 1 .. m : PlacesOf(s[i]) \subseteq PlacesOf(Joined(s))
  BY <1>4, <1>5, QuietParts
<1>7. 1 \in 1 .. m
  BY DEF Positive
<1> QED BY <1>1, <1>4, <1>6, <1>7 DEF H, AttentionLogits

(* A loop of a tile has at least one block.                                 *)
LEMMA AttentionBlocks ==
  ASSUME AttentionTile, NEW n \in Positive
  PROVE  \E m \in Positive : m = Len(Attention!BlockLengths(n))
<1>1. PICK d \in Positive : d = Attention!Core.dim
  BY DEF AttentionTile, Attention!Core, Core
<1>2. PICK m \in Positive : m = CeilDiv(n, d)
  BY CeilDivBounds
<1> DEFINE p == Attention!BlockLengths(n)
<1>3. p = [k \in 1 .. m |-> p[k]]
  BY <1>1, <1>2, AttentionCeilDiv DEF Attention!BlockLengths
<1> HIDE DEF p
<1>4. Len(p) = m
  BY <1>3, MadeSeq DEF Positive
<1> QED BY <1>4 DEF p

(* The queries times the keys.                                              *)
LEMMA AttentionScores ==
  ASSUME AttentionTile
  PROVE  /\ IsSeq(Attention!Scores) /\ NoLoads(Attention!Scores) /\ Len(Attention!Scores) > 0
         /\ RunsAfter(Attention!Scores, PlacesOf(Attention!Loads), {})
         /\ AttentionLogits \subseteq PlacesOf(Attention!Scores)
<1> DEFINE H == Attention!HeadsPerKV
           rows == Attention!BlockLengths(Attention!Keys)
           cols == Attention!BlockLengths(layer.dk)
           srcs == [k \in 1 .. H |-> {Attention!QueryPlace(k - 1), Attention!KeyPlace}]
           size == Attention!RequestsOf(Attention!Queries * Attention!Precision)
           products(u, v) == [i \in 1 .. u |-> [j \in 1 .. v |-> rows[i] * cols[j] * Attention!Queries]]
<1>1. PICK m \in Positive : m = Len(rows)
  BY AttentionBlocks DEF AttentionTile, Attention!Keys
<1>2. PICK n \in Positive : n = Len(cols)
  BY AttentionBlocks DEF AttentionTile
<1>3. \A k \in 1 .. H : srcs[k] = {Attention!QueryPlace(k - 1), Attention!KeyPlace}
  OBVIOUS
<1> DEFINE e == products(m, n)
<1>4. \A i \in 1 .. m : \A j \in 1 .. n : e[i][j] = rows[i] * cols[j] * Attention!Queries
  OBVIOUS
<1>5. Attention!Scores =
        Joined([i \in 1 .. m |-> Joined([j \in 1 .. n |-> Joined(
          [k \in 1 .. H |-> <<Attention!Compute(Attention!LogitPlace(k - 1), size,
                                {Attention!QueryPlace(k - 1), Attention!KeyPlace}, FALSE,
                                rows[i] * cols[j] * Attention!Queries)>>])])])
  <2> HIDE DEF rows, cols, e, srcs
  <2> QED BY <1>1, <1>2, AttentionJoined DEF Attention!Scores, Attention!Product, Attention!ForEachHead, rows, cols
<1>6. IsProduct(Attention!Scores, m, n, srcs, FALSE, size, e)
  <2> HIDE DEF rows, cols, e, srcs, H, size
  <2> QED BY <1>3, <1>4, <1>5 DEF IsProduct, H
<1>7. AreThere(srcs, FALSE, PlacesOf(Attention!Loads))
  BY <1>3, AttentionLoads, AttentionPlaces DEF AreThere
<1> HIDE DEF e, srcs, size
<1> QED BY <1>6, <1>7, AttentionProduct

(* The logits times the values.                                             *)
LEMMA AttentionWeighted ==
  ASSUME AttentionTile, NEW there, AttentionLogits \subseteq there, Attention!ValuePlace \in there
  PROVE  /\ IsSeq(Attention!Weighted) /\ NoLoads(Attention!Weighted) /\ Len(Attention!Weighted) > 0
         /\ RunsAfter(Attention!Weighted, there, {})
<1> DEFINE H == Attention!HeadsPerKV
           rows == Attention!BlockLengths(layer.dk)
           cols == Attention!BlockLengths(Attention!Keys)
           srcs == [k \in 1 .. H |-> {Attention!LogitPlace(k - 1), Attention!ValuePlace}]
           size == Attention!RequestsOf(Attention!Queries * Attention!Precision)
           products(u, v) == [i \in 1 .. u |-> [j \in 1 .. v |-> rows[i] * cols[j] * Attention!Queries]]
<1>1. PICK m \in Positive : m = Len(rows)
  BY AttentionBlocks DEF AttentionTile
<1>2. PICK n \in Positive : n = Len(cols)
  BY AttentionBlocks DEF AttentionTile, Attention!Keys
<1>3. \A k \in 1 .. H : srcs[k] = {Attention!LogitPlace(k - 1), Attention!ValuePlace}
  OBVIOUS
<1> DEFINE e == products(m, n)
<1>4. \A i \in 1 .. m : \A j \in 1 .. n : e[i][j] = rows[i] * cols[j] * Attention!Queries
  OBVIOUS
<1>5. Attention!Weighted =
        Joined([i \in 1 .. m |-> Joined([j \in 1 .. n |-> Joined(
          [k \in 1 .. H |-> <<Attention!Compute(Attention!LogitPlace(k - 1), size,
                                {Attention!LogitPlace(k - 1), Attention!ValuePlace}, TRUE,
                                rows[i] * cols[j] * Attention!Queries)>>])])])
  <2> HIDE DEF rows, cols, e, srcs
  <2> QED BY <1>1, <1>2, AttentionJoined DEF Attention!Weighted, Attention!Product, Attention!ForEachHead, rows, cols
<1>6. IsProduct(Attention!Weighted, m, n, srcs, TRUE, size, e)
  <2> HIDE DEF rows, cols, e, srcs, H, size
  <2> QED BY <1>3, <1>4, <1>5 DEF IsProduct, H
<1>7. AreThere(srcs, TRUE, there)
  BY <1>3 DEF AreThere, AttentionLogits
<1> HIDE DEF e, srcs, size
<1> QED BY <1>6, <1>7, AttentionProduct

(* The softmax of a head writes the scale before it reads it.               *)
LEMMA AttentionSoftmax ==
  ASSUME NEW h, NEW there, Attention!LogitPlace(h) \in there
  PROVE  /\ IsSeq(Attention!Softmax(h)) /\ NoLoads(Attention!Softmax(h)) /\ Len(Attention!Softmax(h)) > 0
         /\ RunsAfter(Attention!Softmax(h), there, {})
         /\ Attention!ScalePlace(h) \in PlacesOf(Attention!Softmax(h))
<1> DEFINE p == Attention!Softmax(h)
           l == Attention!LogitPlace(h)
           s == Attention!ScalePlace(h)
<1>1. IsSeq(p) /\ Len(p) = 7
  <2>1. p \in Seq({p[1], p[2], p[3], p[4], p[5], p[6], p[7]}) /\ Len(p) = 7
    BY DEF Attention!Softmax
  <2> QED BY <2>1 DEF IsSeq
<1>2. \A k \in 1 .. 7 : k = 1 \/ k = 2 \/ k = 3 \/ k = 4 \/ k = 5 \/ k = 6 \/ k = 7
  OBVIOUS
<1>3. /\ p[1].op = "COMPUTE" /\ p[1].dest = s /\ p[1].srcs = {l} /\ p[1].fromAcc = TRUE
      /\ p[2].op = "COMPUTE" /\ p[2].srcs = {l, s} /\ p[2].fromAcc = TRUE
      /\ p[3].op = "COMPUTE" /\ p[3].srcs = {l} /\ p[3].fromAcc = TRUE
      /\ p[4].op = "COMPUTE" /\ p[4].srcs = {l} /\ p[4].fromAcc = TRUE
      /\ p[5].op = "COMPUTE" /\ p[5].srcs = {s} /\ p[5].fromAcc = TRUE
      /\ p[6].op = "COMPUTE" /\ p[6].srcs = {s} /\ p[6].fromAcc = TRUE
      /\ p[7].op = "COMPUTE" /\ p[7].srcs = {l, s} /\ p[7].fromAcc = TRUE
  BY DEF Attention!Softmax, Attention!Vector, Attention!Compute
<1> HIDE DEF p, l, s
<1>4. \A k \in 1 .. 7 : p[k].op = "COMPUTE" /\ p[k].srcs \subseteq {l, s} /\ p[k].fromAcc = TRUE /\ (k = 1 => p[k].srcs = {l})
  BY <1>2, <1>3
<1>5. NoLoads(p)
  BY <1>1, <1>4 DEF NoLoads
<1>6. \A k \in 1 .. 7 : k # 1 => s \in PlacesUpTo(p, k - 1)
  <2> SUFFICES ASSUME NEW k \in 1 .. 7, k # 1 PROVE s \in PlacesUpTo(p, k - 1)
    OBVIOUS
  <2>1. 1 \in 1 .. k - 1
    OBVIOUS
  <2> QED BY <2>1, <1>3 DEF PlacesUpTo
<1>7. s \in PlacesOf(p)
  <2>1. 1 \in 1 .. 7
    OBVIOUS
  <2> QED BY <2>1, <1>1, <1>3 DEF PlacesOf, PlacesUpTo
<1>8. l \in there
  BY DEF l
<1>9. RunsAfter(p, there, {})
  <2> SUFFICES ASSUME NEW k \in 1 .. 7 PROVE RunsAt(p, k, there \cup PlacesUpTo(p, k - 1), {})
    BY <1>1 DEF RunsAfter
  <2> QED BY <1>4, <1>6, <1>8 DEF RunsAt
<1> QED BY <1>1, <1>5, <1>7, <1>9 DEF p, s

(* The scaling of the result of a head, and its store.                      *)
LEMMA AttentionFinish ==
  ASSUME NEW h, NEW there, Attention!LogitPlace(h) \in there, Attention!ScalePlace(h) \in there
  PROVE  /\ IsSeq(Attention!Finish(h)) /\ NoLoads(Attention!Finish(h)) /\ Len(Attention!Finish(h)) > 0
         /\ RunsAfter(Attention!Finish(h), there, {})
<1> DEFINE p == Attention!Finish(h)
           l == Attention!LogitPlace(h)
           s == Attention!ScalePlace(h)
<1>1. IsSeq(p) /\ Len(p) = 3
  <2>1. p \in Seq({p[1], p[2], p[3]}) /\ Len(p) = 3
    BY DEF Attention!Finish
  <2> QED BY <2>1 DEF IsSeq
<1>2. \A k \in 1 .. 3 : k = 1 \/ k = 2 \/ k = 3
  OBVIOUS
<1>3. /\ p[1].op = "COMPUTE" /\ p[1].srcs = {s} /\ p[1].fromAcc = TRUE
      /\ p[2].op = "COMPUTE" /\ p[2].srcs = {l, s} /\ p[2].fromAcc = TRUE
      /\ p[3].op = "MOVOUT" /\ p[3].dest = l
  BY DEF Attention!Finish, Attention!Vector, Attention!Compute, Attention!MoveOut
<1>4. l \in there /\ s \in there
  OBVIOUS
<1> HIDE DEF p, l, s
<1>5. NoLoads(p)
  BY <1>1, <1>2, <1>3 DEF NoLoads
<1>6. \A k \in 1 .. 3 : RunsAt(p, k, there, {})
  BY <1>2, <1>3, <1>4 DEF RunsAt
<1>7. RunsAfter(p, there, {})
  BY <1>1, <1>5, <1>6, QuietRuns
<1> QED BY <1>1, <1>5, <1>7 DEF p

AttentionScales == {Attention!ScalePlace(k - 1) : k \in 1 .. Attention!HeadsPerKV}

(* The softmax of all heads.                                                *)
LEMMA AttentionSoftmaxes ==
  ASSUME AttentionTile, NEW there, AttentionLogits \subseteq there,
         NEW p, p = Attention!Joined([k \in 1 .. Attention!HeadsPerKV |-> Attention!Softmax(k - 1)])
  PROVE  IsSeq(p) /\ NoLoads(p) /\ Len(p) > 0 /\ RunsAfter(p, there, {}) /\ AttentionScales \subseteq PlacesOf(p)
<1> DEFINE H == Attention!HeadsPerKV
           s == [k \in 1 .. H |-> Attention!Softmax(k - 1)]
<1>1. p = Joined(s)
  BY AttentionJoined
<1>2. H \in Positive
  BY DEF AttentionTile
<1>3. s = [k \in 1 .. H |-> s[k]] /\ \A k \in 1 .. H : s[k] = Attention!Softmax(k - 1)
  OBVIOUS
<1> HIDE DEF s
<1>4. \A k \in 1 .. H : /\ IsSeq(s[k]) /\ NoLoads(s[k]) /\ Len(s[k]) > 0 /\ RunsAfter(s[k], there, {})
                        /\ Attention!ScalePlace(k - 1) \in PlacesOf(s[k])
  <2> SUFFICES ASSUME NEW k \in 1 .. H
               PROVE  /\ IsSeq(s[k]) /\ NoLoads(s[k]) /\ Len(s[k]) > 0 /\ RunsAfter(s[k], there, {})
                      /\ Attention!ScalePlace(k - 1) \in PlacesOf(s[k])
    OBVIOUS
  <2>1. Attention!LogitPlace(k - 1) \in there
    BY DEF AttentionLogits
  <2> QED BY <2>1, <1>3, AttentionSoftmax
<1> HIDE DEF H
<1>5. /\ IsSeq(Joined(s)) /\ NoLoads(Joined(s)) /\ Len(Joined(s)) > 0 /\ RunsAfter(Joined(s), there, {})
      /\ \A k \in 1 .. H : PlacesOf(s[k]) \subseteq PlacesOf(Joined(s))
  BY <1>2, <1>3, <1>4, QuietParts
<1> QED BY <1>1, <1>4, <1>5 DEF H, AttentionScales

(* The results of all heads.                                                *)
LEMMA AttentionFinishes ==
  ASSUME AttentionTile, NEW there, AttentionLogits \subseteq there, AttentionScales \subseteq there,
         NEW p, p = Attention!Joined([k \in 1 .. Attention!HeadsPerKV |-> Attention!Finish(k - 1)])
  PROVE  IsSeq(p) /\ NoLoads(p) /\ RunsAfter(p, there, {})
<1> DEFINE H == Attention!HeadsPerKV
           s == [k \in 1 .. H |-> Attention!Finish(k - 1)]
<1>1. p = Joined(s)
  BY AttentionJoined
<1>2. H \in Positive
  BY DEF AttentionTile
<1>3. s = [k \in 1 .. H |-> s[k]] /\ \A k \in 1 .. H : s[k] = Attention!Finish(k - 1)
  OBVIOUS
<1> HIDE DEF s
<1>4. \A k \in 1 .. H : IsSeq(s[k]) /\ NoLoads(s[k]) /\ Len(s[k]) > 0 /\ RunsAfter(s[k], there, {})
  <2> SUFFICES ASSUME NEW k \in 1 .. H
               PROVE  IsSeq(s[k]) /\ NoLoads(s[k]) /\ Len(s[k]) > 0 /\ RunsAfter(s[k], there, {})
    OBVIOUS
  <2>1. Attention!LogitPlace(k - 1) \in there /\ Attention!ScalePlace(k - 1) \in there
    BY DEF AttentionLogits, AttentionScales
  <2> QED BY <2>1, <1>3, AttentionFinish
<1> HIDE DEF H
<1>5. /\ IsSeq(Joined(s)) /\ NoLoads(Joined(s)) /\ Len(Joined(s)) > 0 /\ RunsAfter(Joined(s), there, {})
  BY <1>2, <1>3, <1>4, QuietParts
<1> QED BY <1>1, <1>5

(* A tile of a fused attention runs to its end.                             *)
LEMMA AttentionRuns ==
  ASSUME AttentionTile
  PROVE  RunsOnCore(Attention!Program, {})
<1> DEFINE a == Attention!Loads
           b == Attention!Scores
           c == Attention!Joined([k \in 1 .. Attention!HeadsPerKV |-> Attention!Softmax(k - 1)])
           d == Attention!Weighted
           e == Attention!Joined([k \in 1 .. Attention!HeadsPerKV |-> Attention!Finish(k - 1)])
           last == IF Attention!LastKeys THEN e ELSE <<>>
<1>1. Attention!Program = (((a \o b) \o c) \o d) \o last
  BY DEF Attention!Program, Attention!ForEachHead
<1>2. IsSeq(a) /\ RunsAfter(a, {}, {}) /\ Attention!ValuePlace \in PlacesOf(a)
  BY AttentionLoads
<1>3. IsSeq(b) /\ NoLoads(b) /\ Len(b) > 0 /\ RunsAfter(b, PlacesOf(a), {}) /\ AttentionLogits \subseteq PlacesOf(b)
  BY AttentionScores
<1>4. \A there : AttentionLogits \subseteq there =>
        IsSeq(c) /\ NoLoads(c) /\ Len(c) > 0 /\ RunsAfter(c, there, {}) /\ AttentionScales \subseteq PlacesOf(c)
  BY AttentionSoftmaxes
<1>5. \A there : AttentionLogits \subseteq there /\ Attention!ValuePlace \in there =>
        IsSeq(d) /\ NoLoads(d) /\ Len(d) > 0 /\ RunsAfter(d, there, {})
  BY AttentionWeighted
<1>6. \A there : AttentionLogits \subseteq there /\ AttentionScales \subseteq there =>
        IsSeq(last) /\ NoLoads(last) /\ RunsAfter(last, there, {})
  BY AttentionFinishes, EmptyProgram
<1> HIDE DEF a, b, c, d, e, last
<1> DEFINE ab == a \o b
           abc == ab \o c
           abcd == abc \o d
<1>7. /\ IsSeq(ab) /\ RunsAfter(ab, {}, {}) /\ EndsWell(ab)
      /\ Attention!ValuePlace \in PlacesOf(ab) /\ AttentionLogits \subseteq PlacesOf(ab)
  <2>1. {} \cup PlacesOf(a) = PlacesOf(a)
    OBVIOUS
  <2>2. RunsAfter(ab, {}, {})
    BY <1>2, <1>3, <2>1, ConcatRuns
  <2>3. EndsWell(ab)
    BY <1>2, <1>3, QuietEndsWell, ConcatEndsWell
  <2> QED BY <1>2, <1>3, <2>2, <2>3, ConcatSeq, ConcatPlaces
<1> HIDE DEF ab
<1>8. /\ IsSeq(abc) /\ RunsAfter(abc, {}, {}) /\ EndsWell(abc)
      /\ Attention!ValuePlace \in PlacesOf(abc) /\ AttentionLogits \subseteq PlacesOf(abc) /\ AttentionScales \subseteq PlacesOf(abc)
  <2>1. {} \cup PlacesOf(ab) = PlacesOf(ab)
    OBVIOUS
  <2>2. IsSeq(c) /\ NoLoads(c) /\ RunsAfter(c, PlacesOf(ab), {}) /\ AttentionScales \subseteq PlacesOf(c)
    BY <1>4, <1>7
  <2>3. RunsAfter(abc, {}, {})
    BY <1>7, <2>1, <2>2, ConcatRuns
  <2>4. EndsWell(abc)
    BY <1>7, <2>2, ConcatEndsWell
  <2> QED BY <1>7, <2>2, <2>3, <2>4, ConcatSeq, ConcatPlaces
<1> HIDE DEF abc
<1>9. /\ IsSeq(abcd) /\ RunsAfter(abcd, {}, {}) /\ EndsWell(abcd)
      /\ AttentionLogits \subseteq PlacesOf(abcd) /\ AttentionScales \subseteq PlacesOf(abcd)
  <2>1. {} \cup PlacesOf(abc) = PlacesOf(abc)
    OBVIOUS
  <2>2. IsSeq(d) /\ NoLoads(d) /\ RunsAfter(d, PlacesOf(abc), {})
    BY <1>5, <1>8
  <2>3. RunsAfter(abcd, {}, {})
    BY <1>8, <2>1, <2>2, ConcatRuns
  <2>4. EndsWell(abcd)
    BY <1>8, <2>2, ConcatEndsWell
  <2> QED BY <1>8, <2>2, <2>3, <2>4, ConcatSeq, ConcatPlaces
<1> HIDE DEF abcd
<1>10. IsSeq(abcd \o last) /\ RunsAfter(abcd \o last, {}, {}) /\ EndsWell(abcd \o last)
  <2>1. {} \cup PlacesOf(abcd) = PlacesOf(abcd)
    OBVIOUS
  <2>2. IsSeq(last) /\ NoLoads(last) /\ RunsAfter(last, PlacesOf(abcd), {})
    BY <1>6, <1>9
  <2>3. RunsAfter(abcd \o last, {}, {})
    BY <1>9, <2>1, <2>2, ConcatRuns
  <2>4. EndsWell(abcd \o last)
    BY <1>9, <2>2, ConcatEndsWell
  <2> QED BY <1>9, <2>2, <2>3, <2>4, ConcatSeq
<1>11. Attention!Program = abcd \o last
  BY <1>1 DEF abcd, abc, ab
<1> QED BY <1>10, <1>11, ProgramRuns

-----------------------------------------------------------------------------
(* What holds of the tile of a Mamba block.                                 *)
MambaTile ==
  /\ Precision \in Positive /\ Core.req \in Positive
  /\ layer.model \in Positive /\ layer.inner \in Positive /\ layer.conv \in Positive
  /\ layer.state \in Positive /\ layer.rank \in Positive

(* The tile of a Mamba block counts as the library does.                    *)
LEMMA MambaCardinality == \A S : Mamba!Cardinality(S) = Cardinality(S)
BY DEF Cardinality, Mamba!Cardinality

Names ==
  {"x", "conv_state", "ssm_state", "w_in", "w_conv", "b_conv", "w_xproj", "w_dt", "b_dt", "A_log", "D", "w_out",
   "xin", "z", "xact", "dt_raw", "B", "C", "dt", "y"}
Loaded ==
  {"x", "conv_state", "ssm_state", "w_in", "w_conv", "b_conv", "w_xproj", "w_dt", "b_dt", "A_log", "D", "w_out"}

(* No operand of a block is empty.                                          *)
LEMMA MambaElements ==
  ASSUME MambaTile
  PROVE  /\ \A n \in Names : Mamba!Elements(n) \in Positive
         /\ \A n \in Loaded : Mamba!Inputs[n] \in Positive
<1>1. PICK d \in Positive, i \in Positive, c \in Positive, s \in Positive, r \in Positive :
        d = layer.model /\ i = layer.inner /\ c = layer.conv /\ s = layer.state /\ r = layer.rank
  BY DEF MambaTile
<1>2. Mamba!ConvElements \in Positive /\ Mamba!StateElements \in Positive
  BY <1>1, ProductPositive DEF Mamba!ConvElements, Mamba!StateElements
<1>3. Mamba!XProjRows \in Positive
  BY <1>1 DEF Mamba!XProjRows, Positive
<1>4. (2 * i) * d \in Positive /\ Mamba!XProjRows * i \in Positive /\ i * r \in Positive /\ d * i \in Positive
  <2>1. 2 * i \in Positive
    BY DEF Positive
  <2> QED BY <1>3, <2>1, ProductPositive
<1> DEFINE inputs == Mamba!Inputs
           made == Mamba!Made
<1>5. /\ DOMAIN inputs = Loaded
      /\ inputs["x"] \in Positive /\ inputs["conv_state"] \in Positive /\ inputs["ssm_state"] \in Positive
      /\ inputs["w_in"] \in Positive /\ inputs["w_conv"] \in Positive /\ inputs["b_conv"] \in Positive
      /\ inputs["w_xproj"] \in Positive /\ inputs["w_dt"] \in Positive /\ inputs["b_dt"] \in Positive
      /\ inputs["A_log"] \in Positive /\ inputs["D"] \in Positive /\ inputs["w_out"] \in Positive
  BY <1>1, <1>2, <1>4 DEF Mamba!Inputs, Loaded
<1>6. /\ made["xin"] \in Positive /\ made["z"] \in Positive /\ made["xact"] \in Positive /\ made["dt_raw"] \in Positive
      /\ made["B"] \in Positive /\ made["C"] \in Positive /\ made["dt"] \in Positive /\ made["y"] \in Positive
  BY <1>1 DEF Mamba!Made
<1> HIDE DEF inputs, made
<1>7. \A n \in Loaded : inputs[n] \in Positive
  BY <1>5 DEF Loaded
<1>8. \A n \in Names : n \in Loaded \/ made[n] \in Positive
  BY <1>6 DEF Loaded, Names
<1>9. \A n \in Names : Mamba!Elements(n) = IF n \in DOMAIN inputs THEN inputs[n] ELSE made[n]
  BY DEF Mamba!Elements, inputs, made
<1> QED BY <1>5, <1>7, <1>8, <1>9 DEF inputs

(* The recursion by which the places are laid out has a solution.           *)
LEMMA StartExists ==
  ASSUME NEW size, NEW n \in Nat
  PROVE  \E f : f = [k \in 1 .. n |-> IF k = 1 THEN 0 ELSE f[k - 1] + size[k - 1]]
<1> DEFINE Step(f, i) == IF i = 1 THEN 0 ELSE f[i - 1] + size[i - 1]
           Has(m) == \E f : f = [i \in 1 .. m |-> Step(f, i)]
           T == {m \in Nat : ~Has(m)}
<1> SUFFICES ASSUME T # {} PROVE FALSE
  OBVIOUS
<1>1. PICK m \in T : \A k \in T : m <= k
  BY LeastNumber
<1>2. CASE m = 0
  <2> DEFINE f == [i \in 1 .. 0 |-> 0]
  <2>1. f = [i \in 1 .. 0 |-> Step(f, i)]
    OBVIOUS
  <2> QED BY <1>1, <1>2, <2>1
<1>3. CASE m # 0
  <2>1. m - 1 \in Nat /\ Has(m - 1)
    <3> HIDE DEF Has
    <3> QED BY <1>1, <1>3
  <2>2. PICK g : g = [i \in 1 .. m - 1 |-> Step(g, i)]
    BY <2>1
  <2> DEFINE f == [i \in 1 .. m |-> IF i < m THEN g[i] ELSE Step(g, i)]
  <2>3. \A i \in 1 .. m : f[i] = Step(f, i)
    <3> SUFFICES ASSUME NEW i \in 1 .. m PROVE f[i] = Step(f, i)
      OBVIOUS
    <3>1. i # 1 => f[i - 1] = g[i - 1]
      BY <2>1
    <3>2. ASSUME i < m PROVE g[i] = Step(g, i)
      <4> HIDE DEF Step
      <4>1. i \in 1 .. m - 1
        BY <2>1, <3>2
      <4> QED BY <2>2, <4>1
    <3> QED BY <3>1, <3>2
  <2>4. f = [i \in 1 .. m |-> f[i]]
    OBVIOUS
  <2>5. f = [i \in 1 .. m |-> Step(f, i)]
    BY <2>3, <2>4
  <2> QED BY <1>1, <2>5
<1> QED BY <1>2, <1>3

(* Every place starts where the one before ends.                            *)
LEMMA MambaStart ==
  ASSUME MambaTile
  PROVE  /\ \A k \in 1 .. 20 : Mamba!Start[k] \in Nat
         /\ \A j, k \in 1 .. 20 : j < k => Mamba!Start[j] < Mamba!Start[k]
<1> DEFINE size == [k \in 1 .. 20 |-> Mamba!Bytes(Mamba!Elements(Mamba!PlaceOrder[k]))]
           start == Mamba!Start
           Is(f) == f = [k \in DOMAIN Mamba!PlaceOrder |->
                           IF k = 1 THEN 0 ELSE f[k - 1] + Mamba!Bytes(Mamba!Elements(Mamba!PlaceOrder[k - 1]))]
<1>1. DOMAIN Mamba!PlaceOrder = 1 .. 20
  BY DEF Mamba!PlaceOrder
<1>2. \A k \in 1 .. 20 : Mamba!PlaceOrder[k] \in Names
  <2>1. \A k \in 1 .. 20 : k \in {1, 2, 3, 4, 5, 6, 7, 8, 9, 10, 11, 12, 13, 14, 15, 16, 17, 18, 19, 20}
    OBVIOUS
  <2> QED BY <2>1 DEF Mamba!PlaceOrder, Names
<1>3. \A k \in 1 .. 20 : size[k] \in Positive
  <2>1. Mamba!Precision = Precision
    BY DEF Mamba!Precision, Precision, Mamba!Core, Core
  <2>2. \A k \in 1 .. 20 : Mamba!Elements(Mamba!PlaceOrder[k]) \in Positive
    BY <1>2, MambaElements
  <2>3. \A k \in 1 .. 20 : Mamba!Elements(Mamba!PlaceOrder[k]) * Precision \in Positive
    BY <2>2, ProductPositive DEF MambaTile
  <2> QED BY <2>1, <2>3 DEF Mamba!Bytes
<1>4. \E f : Is(f)
  <2>1. PICK f : f = [k \in 1 .. 20 |-> IF k = 1 THEN 0 ELSE f[k - 1] + size[k - 1]]
    <3> HIDE DEF size
    <3>1. 20 \in Nat
      OBVIOUS
    <3> QED BY <3>1, StartExists
  <2>2. \A k \in 1 .. 20 : k # 1 => size[k - 1] = Mamba!Bytes(Mamba!Elements(Mamba!PlaceOrder[k - 1]))
    <3> SUFFICES ASSUME NEW k \in 1 .. 20, k # 1
                 PROVE  size[k - 1] = Mamba!Bytes(Mamba!Elements(Mamba!PlaceOrder[k - 1]))
      OBVIOUS
    <3>1. k - 1 \in 1 .. 20
      OBVIOUS
    <3> QED BY <3>1
  <2> HIDE DEF size
  <2>3. Is(f)
    BY <1>1, <2>1, <2>2
  <2> QED BY <2>3
<1>5. Is(start)
  <2>1. start = CHOOSE f : Is(f)
    BY DEF Mamba!Start
  <2> HIDE DEF Is, start
  <2> QED BY <1>4, <2>1
<1>6. \A k \in 1 .. 20 : k # 1 => start[k] = start[k - 1] + size[k - 1]
  <2> SUFFICES ASSUME NEW k \in 1 .. 20, k # 1 PROVE start[k] = start[k - 1] + size[k - 1]
    OBVIOUS
  <2>1. k - 1 \in 1 .. 20
    OBVIOUS
  <2> HIDE DEF start
  <2> QED BY <1>1, <1>5, <2>1
<1>7. start[1] = 0
  <2> HIDE DEF start
  <2> QED BY <1>1, <1>5
<1> HIDE DEF Is, size, start
<1> DEFINE Good(k) == start[k] \in Nat /\ \A j \in 1 .. k - 1 : start[j] \in Nat /\ start[j] < start[k]
           T == {k \in 1 .. 20 : ~Good(k)}
<1>8. ASSUME NEW k \in 2 .. 20, Good(k - 1) PROVE Good(k)
  <2>1. k \in 1 .. 20 /\ k # 1 /\ k - 1 \in 1 .. 20
    OBVIOUS
  <2>2. start[k] = start[k - 1] + size[k - 1] /\ size[k - 1] \in Positive /\ start[k - 1] \in Nat
    BY <1>3, <1>6, <1>8, <2>1
  <2>3. start[k] \in Nat /\ start[k - 1] < start[k]
    BY <2>2 DEF Positive
  <2>4. ASSUME NEW j \in 1 .. k - 1 PROVE start[j] \in Nat /\ start[j] < start[k]
    <3>1. CASE j = k - 1
      BY <3>1, <2>2, <2>3
    <3>2. CASE j # k - 1
      <4>1. j \in 1 .. (k - 1) - 1
        BY <3>2
      <4>2. start[j] \in Nat /\ start[j] < start[k - 1]
        BY <1>8, <4>1
      <4> QED BY <2>2, <2>3, <4>2
    <3> QED BY <3>1, <3>2
  <2> QED BY <2>3, <2>4
<1>9. Good(1)
  <2>1. 1 .. 1 - 1 = {}
    OBVIOUS
  <2> QED BY <1>7, <2>1
<1> HIDE DEF Good
<1>10. T = {}
  <2> SUFFICES ASSUME T # {} PROVE FALSE
    OBVIOUS
  <2>1. PICK m \in T : \A k \in T : m <= k
    <3>1. T \subseteq Nat
      OBVIOUS
    <3> QED BY <3>1, LeastNumber
  <2>2. m \in 2 .. 20 /\ m - 1 \in 1 .. 20 /\ m - 1 \notin T
    BY <2>1, <1>9
  <2>3. Good(m - 1)
    BY <2>2
  <2> QED BY <2>1, <2>2, <2>3, <1>8
<1>11. \A k \in 1 .. 20 : Good(k)
  BY <1>10
<1>12. \A j, k \in 1 .. 20 : j < k => j \in 1 .. k - 1
  OBVIOUS
<1> QED BY <1>11, <1>12 DEF Good, start

(* No two operands have the same place.                                     *)
LEMMA MambaPlaces ==
  ASSUME MambaTile
  PROVE  /\ \A a, b \in Names : a # b => Mamba!Place(a) # Mamba!Place(b)
         /\ \A a \in Names : Mamba!Place(a)[1] = "spad" /\ Mamba!Place(a) # Mamba!Place("out")
<1> DEFINE At(name) == CHOOSE k \in DOMAIN Mamba!PlaceOrder : Mamba!PlaceOrder[k] = name
<1>1. DOMAIN Mamba!PlaceOrder = 1 .. 20
  BY DEF Mamba!PlaceOrder
<1>2. \A n \in Names : \E k \in 1 .. 20 : Mamba!PlaceOrder[k] = n
  BY DEF Mamba!PlaceOrder, Names
<1>3. \A n \in Names : At(n) \in 1 .. 20 /\ Mamba!PlaceOrder[At(n)] = n
  BY <1>1, <1>2
<1>4. \A n \in Names : n # "out"
  BY DEF Names
<1>5. \A n \in Names : Mamba!Place(n) = <<"spad", Mamba!Start[At(n)]>>
  BY <1>4 DEF Mamba!Place
<1>6. Mamba!Place("out") = <<"acc", 0>>
  BY DEF Mamba!Place
<1> HIDE DEF At
<1>7. \A n \in Names : Mamba!Place(n)[1] = "spad" /\ Mamba!Place(n) # Mamba!Place("out")
  BY <1>5, <1>6
<1>8. ASSUME NEW a \in Names, NEW b \in Names, a # b PROVE Mamba!Place(a) # Mamba!Place(b)
  <2>1. At(a) # At(b) /\ At(a) \in 1 .. 20 /\ At(b) \in 1 .. 20
    BY <1>3, <1>8
  <2>2. At(a) < At(b) \/ At(b) < At(a)
    BY <2>1
  <2>3. Mamba!Start[At(a)] # Mamba!Start[At(b)]
    BY <2>1, <2>2, MambaStart
  <2> QED BY <1>5, <2>3
<1> QED BY <1>7, <1>8

(* A stage of the block: instructions of which none but the last stores,    *)
(* where the places `there` are taken.                                      *)
StageStep(p, k, there) ==
  \/ p[k].op = "MOVIN" /\ p[k].size > 0 /\ p[k].dest \notin there /\ \A j \in 1 .. k - 1 : p[j].dest # p[k].dest
  \/ /\ p[k].op = "COMPUTE"
     /\ \A x \in p[k].srcs : x[1] = "spad" /\ (x \in there \cup Mamba!Parts \/ \E j \in 1 .. k - 1 : p[j].dest = x)
  \/ p[k].op = "MOVOUT" /\ \E j \in 1 .. k - 1 : p[j].dest = p[k].dest
Stage(p, there) ==
  /\ IsSeq(p) /\ Len(p) > 0 /\ \A k \in 1 .. Len(p) : StageStep(p, k, there)
  /\ \A k \in 1 .. Len(p) : k # Len(p) => p[k].op # "MOVOUT"

(* The instructions of a stage run one after the other.                     *)
LEMMA StageRuns ==
  ASSUME NEW p, NEW there, Stage(p, there)
  PROVE  RunsAfter(p, there, Mamba!Parts)
<1>1. Len(p) \in Nat
  BY SeqLength DEF Stage
<1> SUFFICES ASSUME NEW k \in 1 .. Len(p) PROVE RunsAt(p, k, there \cup PlacesUpTo(p, k - 1), Mamba!Parts)
  BY DEF RunsAfter
<1>2. \A x : (\E j \in 1 .. k - 1 : p[j].dest = x) <=> x \in PlacesUpTo(p, k - 1)
  <2>1. \A j \in 1 .. k - 1 : j \in 1 .. Len(p) /\ j # Len(p)
    BY <1>1
  <2>2. \A j \in 1 .. k - 1 : p[j].op # "MOVOUT"
    BY <2>1 DEF Stage
  <2> QED BY <2>2 DEF PlacesUpTo
<1>3. StageStep(p, k, there)
  BY DEF Stage
<1>4. CASE p[k].op = "MOVIN"
  BY <1>2, <1>3, <1>4 DEF StageStep, RunsAt
<1>5. CASE p[k].op = "COMPUTE"
  <2>1. \A x \in p[k].srcs : x[1] = "spad" /\ x \in there \cup Mamba!Parts \cup PlacesUpTo(p, k - 1)
    BY <1>2, <1>3, <1>5 DEF StageStep
  <2> QED BY <1>5, <2>1 DEF RunsAt
<1>6. CASE p[k].op = "MOVOUT"
  BY <1>2, <1>3, <1>6 DEF StageStep, RunsAt
<1> QED BY <1>3, <1>4, <1>5, <1>6 DEF StageStep

Places(names) == {Mamba!Place(n) : n \in names}

(* What the instructions of a block are.                                    *)
LEMMA MambaLoad ==
  ASSUME MambaTile, NEW n \in Loaded
  PROVE  Mamba!Load(n).op = "MOVIN" /\ Mamba!Load(n).dest = Mamba!Place(n) /\ Mamba!Load(n).size > 0
<1> DEFINE bytes == Mamba!Bytes(Mamba!Inputs[n])
           T == Mamba!Addresses(bytes)
<1>1. Mamba!Precision = Precision /\ Mamba!Core.req = Core.req
  BY DEF Mamba!Precision, Precision, Mamba!Core, Core
<1>2. bytes \in Positive
  BY <1>1, MambaElements, ProductPositive DEF Mamba!Bytes, MambaTile
<1> HIDE DEF bytes
<1>3. 0 \in T /\ T \subseteq 0 .. bytes - 1 /\ IsFiniteSet(0 .. bytes - 1)
  <2>1. bytes - 1 \in Int /\ 0 \in 0 .. bytes - 1
    BY <1>2 DEF Positive
  <2>2. 0 % Core.req = 0
    BY DEF MambaTile, Positive
  <2>3. IsFiniteSet(0 .. bytes - 1)
    BY <2>1, FS_Interval
  <2> QED BY <1>1, <2>1, <2>2, <2>3 DEF Mamba!Addresses
<1> HIDE DEF T
<1>4. Cardinality(T) > 0
  <2>1. IsFiniteSet(T)
    BY <1>3, FS_Subset
  <2>2. Cardinality(T) \in Nat /\ Cardinality(T) # 0
    BY <1>3, <2>1, FS_CardinalityType, FS_EmptySet
  <2> QED BY <2>2
<1> QED BY <1>4, MambaCardinality DEF Mamba!Load, Mamba!MoveIn, T, bytes

(* The results and the operands of the steps of a block.                    *)
LEMMA MambaSteps ==
  /\ \A n, elements, srcs :
       /\ Mamba!Vector(n, elements, srcs).op = "COMPUTE" /\ Mamba!Vector(n, elements, srcs).dest = Mamba!Place(n)
       /\ Mamba!Vector(n, elements, srcs).srcs = Places(srcs)
  /\ \A n, rows, depth, size, srcs :
       /\ Mamba!Product(n, rows, depth, size, srcs).op = "COMPUTE"
       /\ Mamba!Product(n, rows, depth, size, srcs).dest = Mamba!Place(n)
       /\ Mamba!Product(n, rows, depth, size, srcs).srcs = Places(srcs)
  /\ \A n, operand, elements :
       Mamba!Store(n, operand, elements).op = "MOVOUT" /\ Mamba!Store(n, operand, elements).dest = Mamba!Place(n)
BY DEF Mamba!Vector, Mamba!Product, Mamba!Store, Mamba!Compute, Mamba!MoveOut, Places

(* The same of one instruction, by the names of its places.                 *)
IsLoad(x, n) == x.op = "MOVIN" /\ x.dest = Mamba!Place(n) /\ x.size > 0 /\ n \in Names
IsStep(x, n, srcs) == x.op = "COMPUTE" /\ x.dest = Mamba!Place(n) /\ x.srcs = Places(srcs) /\ srcs \subseteq Names
IsStore(x, n) == x.op = "MOVOUT" /\ x.dest = Mamba!Place(n)

(* A load of a stage takes a place that nothing has yet.                    *)
LEMMA LoadStep ==
  ASSUME MambaTile, NEW p, NEW k, NEW n, IsLoad(p[k], n), NEW there \in SUBSET Names, n \notin there,
         \A j \in 1 .. k - 1 : \E m \in Names : m # n /\ IsLoad(p[j], m)
  PROVE  StageStep(p, k, Places(there))
<1>1. Mamba!Place(n) \notin Places(there)
  BY MambaPlaces DEF IsLoad, Places
<1>2. \A j \in 1 .. k - 1 : p[j].dest # Mamba!Place(n)
  BY MambaPlaces DEF IsLoad
<1> QED BY <1>1, <1>2 DEF IsLoad, StageStep

(* The operands of a step were taken by an earlier stage or made by this    *)
(* one, or nobody looks for them.                                           *)
Known(p, k, srcs, there) ==
  \A s \in srcs : s \in there \cup {"z", "B", "C"} \/ \E j \in 1 .. k - 1 : p[j].dest = Mamba!Place(s)

(* A step of a stage reads what is known.                                   *)
LEMMA VectorStep ==
  ASSUME MambaTile, NEW p, NEW k, NEW n, NEW srcs, IsStep(p[k], n, srcs), NEW there, Known(p, k, srcs, there)
  PROVE  StageStep(p, k, Places(there))
<1>1. \A s \in srcs : Mamba!Place(s)[1] = "spad"
  BY MambaPlaces DEF IsStep
<1>2. \A s \in srcs :
        Mamba!Place(s) \in Places(there) \cup Mamba!Parts \/ \E j \in 1 .. k - 1 : p[j].dest = Mamba!Place(s)
  BY DEF Places, Mamba!Parts, Known
<1> QED BY <1>1, <1>2 DEF IsStep, StageStep, Places

(* The projection of the token.                                             *)
LEMMA MambaInProj ==
  ASSUME MambaTile
  PROVE  /\ Stage(Mamba!InProj, Places({}))
         /\ PlacesOf(Mamba!InProj) = Places({"x", "w_in", "xin"})
         /\ EndsWell(Mamba!InProj)
<1> DEFINE p == Mamba!InProj
           there == {}
<1>1. IsSeq(p) /\ Len(p) = 3
  <2>1. p \in Seq({p[1], p[2], p[3]}) /\ Len(p) = 3
    BY DEF Mamba!InProj
  <2> QED BY <2>1 DEF IsSeq
<1>2. IsLoad(p[1], "x") /\ IsLoad(p[2], "w_in")
  BY MambaLoad DEF Mamba!InProj, IsLoad, Loaded, Names
<1>3. /\ IsStep(p[3], "xin", {"x", "w_in"})
  BY MambaSteps DEF Mamba!InProj, IsStep, IsStore, Names
<1> HIDE DEF p, there
<1>4. StageStep(p, 1, Places(there))
  <2>1. \A j \in 1 .. 1 - 1 : FALSE
    OBVIOUS
  <2>2. \A j \in 1 .. 1 - 1 : \E m \in Names : m # "x" /\ IsLoad(p[j], m)
    BY <1>2, <2>1 DEF Names
  <2>3. there \in SUBSET Names /\ "x" \notin there
    BY DEF Names, there
  <2> QED BY <1>2, <2>2, <2>3, LoadStep
<1>5. StageStep(p, 2, Places(there))
  <2>1. \A j \in 1 .. 2 - 1 : j = 1
    OBVIOUS
  <2>2. \A j \in 1 .. 2 - 1 : \E m \in Names : m # "w_in" /\ IsLoad(p[j], m)
    BY <1>2, <2>1 DEF Names
  <2>3. there \in SUBSET Names /\ "w_in" \notin there
    BY DEF Names, there
  <2> QED BY <1>2, <2>2, <2>3, LoadStep
<1>6. StageStep(p, 3, Places(there))
  <2>1. 1 \in 1 .. 3 - 1 /\ p[1].dest = Mamba!Place("x") /\ 2 \in 1 .. 3 - 1 /\ p[2].dest = Mamba!Place("w_in")
    BY <1>2, <1>3 DEF IsLoad, IsStep
  <2>2. Known(p, 3, {"x", "w_in"}, there)
    BY <2>1 DEF Known, there
  <2> QED BY <1>3, <2>2, VectorStep
<1>7. \A k \in 1 .. 3 : k = 1 \/ k = 2 \/ k = 3
  OBVIOUS
<1>8. \A k \in 1 .. 3 : StageStep(p, k, Places(there)) /\ (k # 3 => p[k].op # "MOVOUT")
  BY <1>2, <1>3, <1>4, <1>5, <1>6, <1>7 DEF IsLoad, IsStep
<1>9. PlacesOf(p) = Places({"x", "w_in", "xin"})
  <2>1. PlacesOf(p) = {p[k].dest : k \in 1 .. 3}
    <3>1. \A k \in 1 .. 3 : p[k].op # "MOVOUT"
      BY <1>3, <1>8 DEF IsStep
    <3> QED BY <1>1, <3>1 DEF PlacesOf, PlacesUpTo
  <2>2. p[1].dest = Mamba!Place("x") /\ p[2].dest = Mamba!Place("w_in") /\ p[3].dest = Mamba!Place("xin")
    BY <1>2, <1>3 DEF IsLoad, IsStep
  <2>4. \A k \in 1 .. 3 : p[k].dest \in Places({"x", "w_in", "xin"})
    BY <2>2, <1>7 DEF Places
  <2>5. \A n \in {"x", "w_in", "xin"} : \E k \in 1 .. 3 : p[k].dest = Mamba!Place(n)
    <3>1. 1 \in 1 .. 3 /\ 2 \in 1 .. 3 /\ 3 \in 1 .. 3
      OBVIOUS
    <3> QED BY <2>2, <3>1
  <2> QED BY <2>1, <2>4, <2>5 DEF Places
<1>10. EndsWell(p)
  BY <1>1, <1>3 DEF EndsWell, IsStep, IsStore
<1> QED BY <1>1, <1>8, <1>9, <1>10 DEF p, there, Stage

(* The convolution.                                                         *)
LEMMA MambaConv1d ==
  ASSUME MambaTile
  PROVE  /\ Stage(Mamba!Conv1d, Places({"x", "w_in", "xin"}))
         /\ PlacesOf(Mamba!Conv1d) = Places({"conv_state", "w_conv", "b_conv", "xact"})
         /\ EndsWell(Mamba!Conv1d)
<1> DEFINE p == Mamba!Conv1d
           there == {"x", "w_in", "xin"}
<1>1. IsSeq(p) /\ Len(p) = 7
  <2>1. p \in Seq({p[1], p[2], p[3], p[4], p[5], p[6], p[7]}) /\ Len(p) = 7
    BY DEF Mamba!Conv1d
  <2> QED BY <2>1 DEF IsSeq
<1>2. IsLoad(p[1], "conv_state") /\ IsLoad(p[2], "w_conv") /\ IsLoad(p[3], "b_conv")
  BY MambaLoad DEF Mamba!Conv1d, IsLoad, Loaded, Names
<1>3. /\ IsStep(p[4], "conv_state", {"conv_state", "xin"})
      /\ IsStep(p[5], "xact", {"conv_state", "w_conv"})
      /\ IsStep(p[6], "xact", {"xact"})
      /\ IsStore(p[7], "conv_state")
  BY MambaSteps DEF Mamba!Conv1d, IsStep, IsStore, Names
<1> HIDE DEF p, there
<1>4. StageStep(p, 1, Places(there))
  <2>1. \A j \in 1 .. 1 - 1 : FALSE
    OBVIOUS
  <2>2. \A j \in 1 .. 1 - 1 : \E m \in Names : m # "conv_state" /\ IsLoad(p[j], m)
    BY <1>2, <2>1 DEF Names
  <2>3. there \in SUBSET Names /\ "conv_state" \notin there
    BY DEF Names, there
  <2> QED BY <1>2, <2>2, <2>3, LoadStep
<1>5. StageStep(p, 2, Places(there))
  <2>1. \A j \in 1 .. 2 - 1 : j = 1
    OBVIOUS
  <2>2. \A j \in 1 .. 2 - 1 : \E m \in Names : m # "w_conv" /\ IsLoad(p[j], m)
    BY <1>2, <2>1 DEF Names
  <2>3. there \in SUBSET Names /\ "w_conv" \notin there
    BY DEF Names, there
  <2> QED BY <1>2, <2>2, <2>3, LoadStep
<1>6. StageStep(p, 3, Places(there))
  <2>1. \A j \in 1 .. 3 - 1 : j = 1 \/ j = 2
    OBVIOUS
  <2>2. \A j \in 1 .. 3 - 1 : \E m \in Names : m # "b_conv" /\ IsLoad(p[j], m)
    BY <1>2, <2>1 DEF Names
  <2>3. there \in SUBSET Names /\ "b_conv" \notin there
    BY DEF Names, there
  <2> QED BY <1>2, <2>2, <2>3, LoadStep
<1>7. StageStep(p, 4, Places(there))
  <2>1. 1 \in 1 .. 4 - 1 /\ p[1].dest = Mamba!Place("conv_state")
    BY <1>2, <1>3 DEF IsLoad, IsStep
  <2>2. Known(p, 4, {"conv_state", "xin"}, there)
    BY <2>1 DEF Known, there
  <2> QED BY <1>3, <2>2, VectorStep
<1>8. StageStep(p, 5, Places(there))
  <2>1. 1 \in 1 .. 5 - 1 /\ p[1].dest = Mamba!Place("conv_state") /\ 2 \in 1 .. 5 - 1 /\ p[2].dest = Mamba!Place("w_conv")
    BY <1>2, <1>3 DEF IsLoad, IsStep
  <2>2. Known(p, 5, {"conv_state", "w_conv"}, there)
    BY <2>1 DEF Known, there
  <2> QED BY <1>3, <2>2, VectorStep
<1>9. StageStep(p, 6, Places(there))
  <2>1. 5 \in 1 .. 6 - 1 /\ p[5].dest = Mamba!Place("xact")
    BY <1>2, <1>3 DEF IsLoad, IsStep
  <2>2. Known(p, 6, {"xact"}, there)
    BY <2>1 DEF Known, there
  <2> QED BY <1>3, <2>2, VectorStep
<1>10. StageStep(p, 7, Places(there))
  <2>1. 1 \in 1 .. 7 - 1 /\ p[1].dest = p[7].dest
    BY <1>2, <1>3 DEF IsLoad, IsStep, IsStore
  <2> QED BY <1>3, <2>1 DEF IsStore, StageStep
<1>11. \A k \in 1 .. 7 : k = 1 \/ k = 2 \/ k = 3 \/ k = 4 \/ k = 5 \/ k = 6 \/ k = 7
  OBVIOUS
<1>12. \A k \in 1 .. 7 : StageStep(p, k, Places(there)) /\ (k # 7 => p[k].op # "MOVOUT")
  BY <1>2, <1>3, <1>4, <1>5, <1>6, <1>7, <1>8, <1>9, <1>10, <1>11 DEF IsLoad, IsStep
<1>13. PlacesOf(p) = Places({"conv_state", "w_conv", "b_conv", "xact"})
  <2>1. PlacesOf(p) = {p[k].dest : k \in 1 .. 6}
    <3>1. \A k \in 1 .. 7 : p[k].op # "MOVOUT" <=> k # 7
      BY <1>3, <1>12 DEF IsStore
    <3> QED BY <1>1, <3>1 DEF PlacesOf, PlacesUpTo
  <2>2. /\ p[1].dest = Mamba!Place("conv_state")
        /\ p[2].dest = Mamba!Place("w_conv")
        /\ p[3].dest = Mamba!Place("b_conv")
        /\ p[4].dest = Mamba!Place("conv_state")
        /\ p[5].dest = Mamba!Place("xact")
        /\ p[6].dest = Mamba!Place("xact")
    BY <1>2, <1>3 DEF IsLoad, IsStep
  <2>3. \A k \in 1 .. 6 : k = 1 \/ k = 2 \/ k = 3 \/ k = 4 \/ k = 5 \/ k = 6
    OBVIOUS
  <2>4. \A k \in 1 .. 6 : p[k].dest \in Places({"conv_state", "w_conv", "b_conv", "xact"})
    BY <2>2, <2>3 DEF Places
  <2>5. \A n \in {"conv_state", "w_conv", "b_conv", "xact"} : \E k \in 1 .. 6 : p[k].dest = Mamba!Place(n)
    <3>1. 1 \in 1 .. 6 /\ 2 \in 1 .. 6 /\ 3 \in 1 .. 6 /\ 5 \in 1 .. 6
      OBVIOUS
    <3> QED BY <2>2, <3>1
  <2> QED BY <2>1, <2>4, <2>5 DEF Places
<1>14. EndsWell(p)
  BY <1>1, <1>3 DEF EndsWell, IsStep, IsStore
<1> QED BY <1>1, <1>12, <1>13, <1>14 DEF p, there, Stage

(* The projection of the parameters.                                        *)
LEMMA MambaXProj ==
  ASSUME MambaTile
  PROVE  /\ Stage(Mamba!XProj, Places({"x", "w_in", "xin", "conv_state", "w_conv", "b_conv", "xact"}))
         /\ PlacesOf(Mamba!XProj) = Places({"w_xproj", "dt_raw"})
         /\ EndsWell(Mamba!XProj)
<1> DEFINE p == Mamba!XProj
           there == {"x", "w_in", "xin", "conv_state", "w_conv", "b_conv", "xact"}
<1>1. IsSeq(p) /\ Len(p) = 2
  <2>1. p \in Seq({p[1], p[2]}) /\ Len(p) = 2
    BY DEF Mamba!XProj
  <2> QED BY <2>1 DEF IsSeq
<1>2. IsLoad(p[1], "w_xproj")
  BY MambaLoad DEF Mamba!XProj, IsLoad, Loaded, Names
<1>3. /\ IsStep(p[2], "dt_raw", {"xact", "w_xproj"})
  BY MambaSteps DEF Mamba!XProj, IsStep, IsStore, Names
<1> HIDE DEF p, there
<1>4. StageStep(p, 1, Places(there))
  <2>1. \A j \in 1 .. 1 - 1 : FALSE
    OBVIOUS
  <2>2. \A j \in 1 .. 1 - 1 : \E m \in Names : m # "w_xproj" /\ IsLoad(p[j], m)
    BY <1>2, <2>1 DEF Names
  <2>3. there \in SUBSET Names /\ "w_xproj" \notin there
    BY DEF Names, there
  <2> QED BY <1>2, <2>2, <2>3, LoadStep
<1>5. StageStep(p, 2, Places(there))
  <2>1. 1 \in 1 .. 2 - 1 /\ p[1].dest = Mamba!Place("w_xproj")
    BY <1>2, <1>3 DEF IsLoad, IsStep
  <2>2. Known(p, 2, {"xact", "w_xproj"}, there)
    BY <2>1 DEF Known, there
  <2> QED BY <1>3, <2>2, VectorStep
<1>6. \A k \in 1 .. 2 : k = 1 \/ k = 2
  OBVIOUS
<1>7. \A k \in 1 .. 2 : StageStep(p, k, Places(there)) /\ (k # 2 => p[k].op # "MOVOUT")
  BY <1>2, <1>3, <1>4, <1>5, <1>6 DEF IsLoad, IsStep
<1>8. PlacesOf(p) = Places({"w_xproj", "dt_raw"})
  <2>1. PlacesOf(p) = {p[k].dest : k \in 1 .. 2}
    <3>1. \A k \in 1 .. 2 : p[k].op # "MOVOUT"
      BY <1>3, <1>7 DEF IsStep
    <3> QED BY <1>1, <3>1 DEF PlacesOf, PlacesUpTo
  <2>2. p[1].dest = Mamba!Place("w_xproj") /\ p[2].dest = Mamba!Place("dt_raw")
    BY <1>2, <1>3 DEF IsLoad, IsStep
  <2>4. \A k \in 1 .. 2 : p[k].dest \in Places({"w_xproj", "dt_raw"})
    BY <2>2, <1>6 DEF Places
  <2>5. \A n \in {"w_xproj", "dt_raw"} : \E k \in 1 .. 2 : p[k].dest = Mamba!Place(n)
    <3>1. 1 \in 1 .. 2 /\ 2 \in 1 .. 2
      OBVIOUS
    <3> QED BY <2>2, <3>1
  <2> QED BY <2>1, <2>4, <2>5 DEF Places
<1>9. EndsWell(p)
  BY <1>1, <1>3 DEF EndsWell, IsStep, IsStore
<1> QED BY <1>1, <1>7, <1>8, <1>9 DEF p, there, Stage

(* The projection of the time step.                                         *)
LEMMA MambaDtProj ==
  ASSUME MambaTile
  PROVE  /\ Stage(Mamba!DtProj, Places({"x", "w_in", "xin", "conv_state", "w_conv", "b_conv", "xact", "w_xproj", "dt_raw"}))
         /\ PlacesOf(Mamba!DtProj) = Places({"w_dt", "b_dt", "dt"})
         /\ EndsWell(Mamba!DtProj)
<1> DEFINE p == Mamba!DtProj
           there == {"x", "w_in", "xin", "conv_state", "w_conv", "b_conv", "xact", "w_xproj", "dt_raw"}
<1>1. IsSeq(p) /\ Len(p) = 8
  <2>1. p \in Seq({p[1], p[2], p[3], p[4], p[5], p[6], p[7], p[8]}) /\ Len(p) = 8
    BY DEF Mamba!DtProj
  <2> QED BY <2>1 DEF IsSeq
<1>2. IsLoad(p[1], "w_dt") /\ IsLoad(p[2], "b_dt")
  BY MambaLoad DEF Mamba!DtProj, IsLoad, Loaded, Names
<1>3. /\ IsStep(p[3], "dt", {"dt_raw", "w_dt"})
      /\ IsStep(p[4], "dt", {"dt", "b_dt"})
      /\ IsStep(p[5], "dt", {"dt"})
      /\ IsStep(p[6], "dt", {"dt"})
      /\ IsStep(p[7], "dt", {"dt"})
      /\ IsStep(p[8], "dt", {"dt"})
  BY MambaSteps DEF Mamba!DtProj, IsStep, IsStore, Names
<1> HIDE DEF p, there
<1>4. StageStep(p, 1, Places(there))
  <2>1. \A j \in 1 .. 1 - 1 : FALSE
    OBVIOUS
  <2>2. \A j \in 1 .. 1 - 1 : \E m \in Names : m # "w_dt" /\ IsLoad(p[j], m)
    BY <1>2, <2>1 DEF Names
  <2>3. there \in SUBSET Names /\ "w_dt" \notin there
    BY DEF Names, there
  <2> QED BY <1>2, <2>2, <2>3, LoadStep
<1>5. StageStep(p, 2, Places(there))
  <2>1. \A j \in 1 .. 2 - 1 : j = 1
    OBVIOUS
  <2>2. \A j \in 1 .. 2 - 1 : \E m \in Names : m # "b_dt" /\ IsLoad(p[j], m)
    BY <1>2, <2>1 DEF Names
  <2>3. there \in SUBSET Names /\ "b_dt" \notin there
    BY DEF Names, there
  <2> QED BY <1>2, <2>2, <2>3, LoadStep
<1>6. StageStep(p, 3, Places(there))
  <2>1. 1 \in 1 .. 3 - 1 /\ p[1].dest = Mamba!Place("w_dt")
    BY <1>2, <1>3 DEF IsLoad, IsStep
  <2>2. Known(p, 3, {"dt_raw", "w_dt"}, there)
    BY <2>1 DEF Known, there
  <2> QED BY <1>3, <2>2, VectorStep
<1>7. StageStep(p, 4, Places(there))
  <2>1. 3 \in 1 .. 4 - 1 /\ p[3].dest = Mamba!Place("dt") /\ 2 \in 1 .. 4 - 1 /\ p[2].dest = Mamba!Place("b_dt")
    BY <1>2, <1>3 DEF IsLoad, IsStep
  <2>2. Known(p, 4, {"dt", "b_dt"}, there)
    BY <2>1 DEF Known, there
  <2> QED BY <1>3, <2>2, VectorStep
<1>8. StageStep(p, 5, Places(there))
  <2>1. 3 \in 1 .. 5 - 1 /\ p[3].dest = Mamba!Place("dt")
    BY <1>2, <1>3 DEF IsLoad, IsStep
  <2>2. Known(p, 5, {"dt"}, there)
    BY <2>1 DEF Known, there
  <2> QED BY <1>3, <2>2, VectorStep
<1>9. StageStep(p, 6, Places(there))
  <2>1. 3 \in 1 .. 6 - 1 /\ p[3].dest = Mamba!Place("dt")
    BY <1>2, <1>3 DEF IsLoad, IsStep
  <2>2. Known(p, 6, {"dt"}, there)
    BY <2>1 DEF Known, there
  <2> QED BY <1>3, <2>2, VectorStep
<1>10. StageStep(p, 7, Places(there))
  <2>1. 3 \in 1 .. 7 - 1 /\ p[3].dest = Mamba!Place("dt")
    BY <1>2, <1>3 DEF IsLoad, IsStep
  <2>2. Known(p, 7, {"dt"}, there)
    BY <2>1 DEF Known, there
  <2> QED BY <1>3, <2>2, VectorStep
<1>11. StageStep(p, 8, Places(there))
  <2>1. 3 \in 1 .. 8 - 1 /\ p[3].dest = Mamba!Place("dt")
    BY <1>2, <1>3 DEF IsLoad, IsStep
  <2>2. Known(p, 8, {"dt"}, there)
    BY <2>1 DEF Known, there
  <2> QED BY <1>3, <2>2, VectorStep
<1>12. \A k \in 1 .. 8 : k = 1 \/ k = 2 \/ k = 3 \/ k = 4 \/ k = 5 \/ k = 6 \/ k = 7 \/ k = 8
  OBVIOUS
<1>13. \A k \in 1 .. 8 : StageStep(p, k, Places(there)) /\ (k # 8 => p[k].op # "MOVOUT")
  BY <1>2, <1>3, <1>4, <1>5, <1>6, <1>7, <1>8, <1>9, <1>10, <1>11, <1>12 DEF IsLoad, IsStep
<1>14. PlacesOf(p) = Places({"w_dt", "b_dt", "dt"})
  <2>1. PlacesOf(p) = {p[k].dest : k \in 1 .. 8}
    <3>1. \A k \in 1 .. 8 : p[k].op # "MOVOUT"
      BY <1>3, <1>13 DEF IsStep
    <3> QED BY <1>1, <3>1 DEF PlacesOf, PlacesUpTo
  <2>2. /\ p[1].dest = Mamba!Place("w_dt")
        /\ p[2].dest = Mamba!Place("b_dt")
        /\ p[3].dest = Mamba!Place("dt")
        /\ p[4].dest = Mamba!Place("dt")
        /\ p[5].dest = Mamba!Place("dt")
        /\ p[6].dest = Mamba!Place("dt")
        /\ p[7].dest = Mamba!Place("dt")
        /\ p[8].dest = Mamba!Place("dt")
    BY <1>2, <1>3 DEF IsLoad, IsStep
  <2>4. \A k \in 1 .. 8 : p[k].dest \in Places({"w_dt", "b_dt", "dt"})
    BY <2>2, <1>12 DEF Places
  <2>5. \A n \in {"w_dt", "b_dt", "dt"} : \E k \in 1 .. 8 : p[k].dest = Mamba!Place(n)
    <3>1. 1 \in 1 .. 8 /\ 2 \in 1 .. 8 /\ 3 \in 1 .. 8
      OBVIOUS
    <3> QED BY <2>2, <3>1
  <2> QED BY <2>1, <2>4, <2>5 DEF Places
<1>15. EndsWell(p)
  BY <1>1, <1>3 DEF EndsWell, IsStep, IsStore
<1> QED BY <1>1, <1>13, <1>14, <1>15 DEF p, there, Stage

(* The state space model.                                                   *)
LEMMA MambaSsmUpdate ==
  ASSUME MambaTile
  PROVE  /\ Stage(Mamba!SsmUpdate, Places({"x", "w_in", "xin", "conv_state", "w_conv", "b_conv", "xact", "w_xproj", "dt_raw", "w_dt", "b_dt", "dt"}))
         /\ PlacesOf(Mamba!SsmUpdate) = Places({"ssm_state", "A_log", "D", "y", "z"})
         /\ EndsWell(Mamba!SsmUpdate)
<1> DEFINE p == Mamba!SsmUpdate
           there == {"x", "w_in", "xin", "conv_state", "w_conv", "b_conv", "xact", "w_xproj", "dt_raw", "w_dt", "b_dt", "dt"}
<1>1. IsSeq(p) /\ Len(p) = 13
  <2>1. p \in Seq({p[1], p[2], p[3], p[4], p[5], p[6], p[7], p[8], p[9], p[10], p[11], p[12], p[13]}) /\ Len(p) = 13
    BY DEF Mamba!SsmUpdate
  <2> QED BY <2>1 DEF IsSeq
<1>2. IsLoad(p[1], "ssm_state") /\ IsLoad(p[2], "A_log") /\ IsLoad(p[3], "D")
  BY MambaLoad DEF Mamba!SsmUpdate, IsLoad, Loaded, Names
<1>3. /\ IsStep(p[4], "ssm_state", {"dt", "A_log"})
      /\ IsStep(p[5], "y", {"dt", "B"})
      /\ IsStep(p[6], "ssm_state", {"ssm_state", "xact"})
      /\ IsStep(p[7], "ssm_state", {"ssm_state", "y"})
      /\ IsStep(p[8], "y", {"ssm_state", "C"})
      /\ IsStep(p[9], "y", {"xact", "D"})
      /\ IsStep(p[10], "y", {"y"})
      /\ IsStep(p[11], "z", {"z"})
      /\ IsStep(p[12], "y", {"y", "z"})
      /\ IsStore(p[13], "ssm_state")
  BY MambaSteps DEF Mamba!SsmUpdate, IsStep, IsStore, Names
<1> HIDE DEF p, there
<1>4. StageStep(p, 1, Places(there))
  <2>1. \A j \in 1 .. 1 - 1 : FALSE
    OBVIOUS
  <2>2. \A j \in 1 .. 1 - 1 : \E m \in Names : m # "ssm_state" /\ IsLoad(p[j], m)
    BY <1>2, <2>1 DEF Names
  <2>3. there \in SUBSET Names /\ "ssm_state" \notin there
    BY DEF Names, there
  <2> QED BY <1>2, <2>2, <2>3, LoadStep
<1>5. StageStep(p, 2, Places(there))
  <2>1. \A j \in 1 .. 2 - 1 : j = 1
    OBVIOUS
  <2>2. \A j \in 1 .. 2 - 1 : \E m \in Names : m # "A_log" /\ IsLoad(p[j], m)
    BY <1>2, <2>1 DEF Names
  <2>3. there \in SUBSET Names /\ "A_log" \notin there
    BY DEF Names, there
  <2> QED BY <1>2, <2>2, <2>3, LoadStep
<1>6. StageStep(p, 3, Places(there))
  <2>1. \A j \in 1 .. 3 - 1 : j = 1 \/ j = 2
    OBVIOUS
  <2>2. \A j \in 1 .. 3 - 1 : \E m \in Names : m # "D" /\ IsLoad(p[j], m)
    BY <1>2, <2>1 DEF Names
  <2>3. there \in SUBSET Names /\ "D" \notin there
    BY DEF Names, there
  <2> QED BY <1>2, <2>2, <2>3, LoadStep
<1>7. StageStep(p, 4, Places(there))
  <2>1. 2 \in 1 .. 4 - 1 /\ p[2].dest = Mamba!Place("A_log")
    BY <1>2, <1>3 DEF IsLoad, IsStep
  <2>2. Known(p, 4, {"dt", "A_log"}, there)
    BY <2>1 DEF Known, there
  <2> QED BY <1>3, <2>2, VectorStep
<1>8. StageStep(p, 5, Places(there))
  <2>2. Known(p, 5, {"dt", "B"}, there)
    BY DEF Known, there
  <2> QED BY <1>3, <2>2, VectorStep
<1>9. StageStep(p, 6, Places(there))
  <2>1. 1 \in 1 .. 6 - 1 /\ p[1].dest = Mamba!Place("ssm_state")
    BY <1>2, <1>3 DEF IsLoad, IsStep
  <2>2. Known(p, 6, {"ssm_state", "xact"}, there)
    BY <2>1 DEF Known, there
  <2> QED BY <1>3, <2>2, VectorStep
<1>10. StageStep(p, 7, Places(there))
  <2>1. 1 \in 1 .. 7 - 1 /\ p[1].dest = Mamba!Place("ssm_state") /\ 5 \in 1 .. 7 - 1 /\ p[5].dest = Mamba!Place("y")
    BY <1>2, <1>3 DEF IsLoad, IsStep
  <2>2. Known(p, 7, {"ssm_state", "y"}, there)
    BY <2>1 DEF Known, there
  <2> QED BY <1>3, <2>2, VectorStep
<1>11. StageStep(p, 8, Places(there))
  <2>1. 1 \in 1 .. 8 - 1 /\ p[1].dest = Mamba!Place("ssm_state")
    BY <1>2, <1>3 DEF IsLoad, IsStep
  <2>2. Known(p, 8, {"ssm_state", "C"}, there)
    BY <2>1 DEF Known, there
  <2> QED BY <1>3, <2>2, VectorStep
<1>12. StageStep(p, 9, Places(there))
  <2>1. 3 \in 1 .. 9 - 1 /\ p[3].dest = Mamba!Place("D")
    BY <1>2, <1>3 DEF IsLoad, IsStep
  <2>2. Known(p, 9, {"xact", "D"}, there)
    BY <2>1 DEF Known, there
  <2> QED BY <1>3, <2>2, VectorStep
<1>13. StageStep(p, 10, Places(there))
  <2>1. 5 \in 1 .. 10 - 1 /\ p[5].dest = Mamba!Place("y")
    BY <1>2, <1>3 DEF IsLoad, IsStep
  <2>2. Known(p, 10, {"y"}, there)
    BY <2>1 DEF Known, there
  <2> QED BY <1>3, <2>2, VectorStep
<1>14. StageStep(p, 11, Places(there))
  <2>2. Known(p, 11, {"z"}, there)
    BY DEF Known, there
  <2> QED BY <1>3, <2>2, VectorStep
<1>15. StageStep(p, 12, Places(there))
  <2>1. 5 \in 1 .. 12 - 1 /\ p[5].dest = Mamba!Place("y") /\ 11 \in 1 .. 12 - 1 /\ p[11].dest = Mamba!Place("z")
    BY <1>2, <1>3 DEF IsLoad, IsStep
  <2>2. Known(p, 12, {"y", "z"}, there)
    BY <2>1 DEF Known, there
  <2> QED BY <1>3, <2>2, VectorStep
<1>16. StageStep(p, 13, Places(there))
  <2>1. 1 \in 1 .. 13 - 1 /\ p[1].dest = p[13].dest
    BY <1>2, <1>3 DEF IsLoad, IsStep, IsStore
  <2> QED BY <1>3, <2>1 DEF IsStore, StageStep
<1>17. \A k \in 1 .. 13 : k = 1 \/ k = 2 \/ k = 3 \/ k = 4 \/ k = 5 \/ k = 6 \/ k = 7 \/ k = 8 \/ k = 9 \/ k = 10 \/ k = 11 \/ k = 12 \/ k = 13
  OBVIOUS
<1>18. \A k \in 1 .. 13 : StageStep(p, k, Places(there)) /\ (k # 13 => p[k].op # "MOVOUT")
  BY <1>2, <1>3, <1>4, <1>5, <1>6, <1>7, <1>8, <1>9, <1>10, <1>11, <1>12, <1>13, <1>14, <1>15, <1>16, <1>17 DEF IsLoad, IsStep
<1>19. PlacesOf(p) = Places({"ssm_state", "A_log", "D", "y", "z"})
  <2>1. PlacesOf(p) = {p[k].dest : k \in 1 .. 12}
    <3>1. \A k \in 1 .. 13 : p[k].op # "MOVOUT" <=> k # 13
      BY <1>3, <1>18 DEF IsStore
    <3> QED BY <1>1, <3>1 DEF PlacesOf, PlacesUpTo
  <2>2. /\ p[1].dest = Mamba!Place("ssm_state")
        /\ p[2].dest = Mamba!Place("A_log")
        /\ p[3].dest = Mamba!Place("D")
        /\ p[4].dest = Mamba!Place("ssm_state")
        /\ p[5].dest = Mamba!Place("y")
        /\ p[6].dest = Mamba!Place("ssm_state")
        /\ p[7].dest = Mamba!Place("ssm_state")
        /\ p[8].dest = Mamba!Place("y")
        /\ p[9].dest = Mamba!Place("y")
        /\ p[10].dest = Mamba!Place("y")
        /\ p[11].dest = Mamba!Place("z")
        /\ p[12].dest = Mamba!Place("y")
    BY <1>2, <1>3 DEF IsLoad, IsStep
  <2>3. \A k \in 1 .. 12 : k = 1 \/ k = 2 \/ k = 3 \/ k = 4 \/ k = 5 \/ k = 6 \/ k = 7 \/ k = 8 \/ k = 9 \/ k = 10 \/ k = 11 \/ k = 12
    OBVIOUS
  <2>4. \A k \in 1 .. 12 : p[k].dest \in Places({"ssm_state", "A_log", "D", "y", "z"})
    BY <2>2, <2>3 DEF Places
  <2>5. \A n \in {"ssm_state", "A_log", "D", "y", "z"} : \E k \in 1 .. 12 : p[k].dest = Mamba!Place(n)
    <3>1. 1 \in 1 .. 12 /\ 2 \in 1 .. 12 /\ 3 \in 1 .. 12 /\ 5 \in 1 .. 12 /\ 11 \in 1 .. 12
      OBVIOUS
    <3> QED BY <2>2, <3>1
  <2> QED BY <2>1, <2>4, <2>5 DEF Places
<1>20. EndsWell(p)
  BY <1>1, <1>3 DEF EndsWell, IsStep, IsStore
<1> QED BY <1>1, <1>18, <1>19, <1>20 DEF p, there, Stage

(* The projection of the result.                                            *)
LEMMA MambaOutProj ==
  ASSUME MambaTile
  PROVE  /\ Stage(Mamba!OutProj, Places({"x", "w_in", "xin", "conv_state", "w_conv", "b_conv", "xact", "w_xproj", "dt_raw", "w_dt", "b_dt", "dt", "ssm_state", "A_log", "D", "y", "z"}))
         /\ PlacesOf(Mamba!OutProj) = Places({"w_out", "out"})
         /\ EndsWell(Mamba!OutProj)
<1> DEFINE p == Mamba!OutProj
           there == {"x", "w_in", "xin", "conv_state", "w_conv", "b_conv", "xact", "w_xproj", "dt_raw", "w_dt", "b_dt", "dt", "ssm_state", "A_log", "D", "y", "z"}
<1>1. IsSeq(p) /\ Len(p) = 3
  <2>1. p \in Seq({p[1], p[2], p[3]}) /\ Len(p) = 3
    BY DEF Mamba!OutProj
  <2> QED BY <2>1 DEF IsSeq
<1>2. IsLoad(p[1], "w_out")
  BY MambaLoad DEF Mamba!OutProj, IsLoad, Loaded, Names
<1>3. /\ IsStep(p[2], "out", {"y", "w_out"})
      /\ IsStore(p[3], "out")
  BY MambaSteps DEF Mamba!OutProj, IsStep, IsStore, Names
<1> HIDE DEF p, there
<1>4. StageStep(p, 1, Places(there))
  <2>1. \A j \in 1 .. 1 - 1 : FALSE
    OBVIOUS
  <2>2. \A j \in 1 .. 1 - 1 : \E m \in Names : m # "w_out" /\ IsLoad(p[j], m)
    BY <1>2, <2>1 DEF Names
  <2>3. there \in SUBSET Names /\ "w_out" \notin there
    BY DEF Names, there
  <2> QED BY <1>2, <2>2, <2>3, LoadStep
<1>5. StageStep(p, 2, Places(there))
  <2>1. 1 \in 1 .. 2 - 1 /\ p[1].dest = Mamba!Place("w_out")
    BY <1>2, <1>3 DEF IsLoad, IsStep
  <2>2. Known(p, 2, {"y", "w_out"}, there)
    BY <2>1 DEF Known, there
  <2> QED BY <1>3, <2>2, VectorStep
<1>6. StageStep(p, 3, Places(there))
  <2>1. 2 \in 1 .. 3 - 1 /\ p[2].dest = p[3].dest
    BY <1>2, <1>3 DEF IsLoad, IsStep, IsStore
  <2> QED BY <1>3, <2>1 DEF IsStore, StageStep
<1>7. \A k \in 1 .. 3 : k = 1 \/ k = 2 \/ k = 3
  OBVIOUS
<1>8. \A k \in 1 .. 3 : StageStep(p, k, Places(there)) /\ (k # 3 => p[k].op # "MOVOUT")
  BY <1>2, <1>3, <1>4, <1>5, <1>6, <1>7 DEF IsLoad, IsStep
<1>9. PlacesOf(p) = Places({"w_out", "out"})
  <2>1. PlacesOf(p) = {p[k].dest : k \in 1 .. 2}
    <3>1. \A k \in 1 .. 3 : p[k].op # "MOVOUT" <=> k # 3
      BY <1>3, <1>8 DEF IsStore
    <3> QED BY <1>1, <3>1 DEF PlacesOf, PlacesUpTo
  <2>2. p[1].dest = Mamba!Place("w_out") /\ p[2].dest = Mamba!Place("out")
    BY <1>2, <1>3 DEF IsLoad, IsStep
  <2>3. \A k \in 1 .. 2 : k = 1 \/ k = 2
    OBVIOUS
  <2>4. \A k \in 1 .. 2 : p[k].dest \in Places({"w_out", "out"})
    BY <2>2, <2>3 DEF Places
  <2>5. \A n \in {"w_out", "out"} : \E k \in 1 .. 2 : p[k].dest = Mamba!Place(n)
    <3>1. 1 \in 1 .. 2 /\ 2 \in 1 .. 2
      OBVIOUS
    <3> QED BY <2>2, <3>1
  <2> QED BY <2>1, <2>4, <2>5 DEF Places
<1>10. EndsWell(p)
  BY <1>1, <1>3 DEF EndsWell, IsStep, IsStore
<1> QED BY <1>1, <1>8, <1>9, <1>10 DEF p, there, Stage

(* One stage more.                                                          *)
LEMMA NextStage ==
  ASSUME NEW p, NEW q, NEW done, NEW more, NEW both, both = done \cup more,
         IsSeq(p), RunsAfter(p, {}, Mamba!Parts), PlacesOf(p) = Places(done),
         Stage(q, Places(done)), PlacesOf(q) = Places(more), EndsWell(q)
  PROVE  /\ IsSeq(p \o q) /\ RunsAfter(p \o q, {}, Mamba!Parts) /\ PlacesOf(p \o q) = Places(both)
         /\ EndsWell(p \o q)
<1>1. IsSeq(q)
  BY DEF Stage
<1>2. RunsAfter(q, PlacesOf(p), Mamba!Parts)
  BY StageRuns
<1>3. {} \cup PlacesOf(p) = PlacesOf(p)
  OBVIOUS
<1>4. RunsAfter(p \o q, {}, Mamba!Parts)
  BY <1>1, <1>2, <1>3, ConcatRuns
<1>5. PlacesOf(p \o q) = PlacesOf(p) \cup PlacesOf(q)
  BY <1>1, ConcatPlaces
<1>6. PlacesOf(p \o q) = Places(both)
  BY <1>5 DEF Places
<1> QED BY <1>1, <1>4, <1>6, ConcatSeq, ConcatEndsWell

(* The tile of a Mamba block runs, but for the operands nobody is the       *)
(* destination of.                                                          *)
LEMMA MambaRuns ==
  ASSUME MambaTile
  PROVE  RunsOnCore(Mamba!Program, Mamba!Parts)
<1> DEFINE p1 == Mamba!InProj
           p2 == p1 \o Mamba!Conv1d
           p3 == p2 \o Mamba!XProj
           p4 == p3 \o Mamba!DtProj
           p5 == p4 \o Mamba!SsmUpdate
           p6 == p5 \o Mamba!OutProj
           n1 == {"x", "w_in", "xin"}
           n2 == {"x", "w_in", "xin", "conv_state", "w_conv", "b_conv", "xact"}
           n3 == {"x", "w_in", "xin", "conv_state", "w_conv", "b_conv", "xact", "w_xproj", "dt_raw"}
           n4 == {"x", "w_in", "xin", "conv_state", "w_conv", "b_conv", "xact", "w_xproj", "dt_raw", "w_dt", "b_dt", "dt"}
           n5 == {"x", "w_in", "xin", "conv_state", "w_conv", "b_conv", "xact", "w_xproj", "dt_raw", "w_dt", "b_dt", "dt",
                  "ssm_state", "A_log", "D", "y", "z"}
           n6 == n5 \cup {"w_out", "out"}
           Good(p, names) == IsSeq(p) /\ RunsAfter(p, {}, Mamba!Parts) /\ PlacesOf(p) = Places(names)
<1>1. Good(p1, n1)
  <2>1. Places({}) = {}
    BY DEF Places
  <2> QED BY <2>1, MambaInProj, StageRuns DEF Stage
<1>2. Good(p2, n2)
  <2>1. n2 = n1 \cup {"conv_state", "w_conv", "b_conv", "xact"}
    OBVIOUS
  <2> HIDE DEF p1
  <2> QED BY <1>1, <2>1, MambaConv1d, NextStage
<1>3. Good(p3, n3)
  <2>1. n3 = n2 \cup {"w_xproj", "dt_raw"}
    OBVIOUS
  <2> HIDE DEF p2
  <2> QED BY <1>2, <2>1, MambaXProj, NextStage
<1>4. Good(p4, n4)
  <2>1. n4 = n3 \cup {"w_dt", "b_dt", "dt"}
    OBVIOUS
  <2> HIDE DEF p3
  <2> QED BY <1>3, <2>1, MambaDtProj, NextStage
<1>5. Good(p5, n5)
  <2>1. n5 = n4 \cup {"ssm_state", "A_log", "D", "y", "z"}
    OBVIOUS
  <2> HIDE DEF p4
  <2> QED BY <1>4, <2>1, MambaSsmUpdate, NextStage
<1>6. Good(p6, n6) /\ EndsWell(p6)
  <2>1. n6 = n5 \cup {"w_out", "out"}
    OBVIOUS
  <2> HIDE DEF p5, n6
  <2> QED BY <1>5, <2>1, MambaOutProj, NextStage
<1>7. p6 = Mamba!Program
  BY DEF Mamba!Program
<1> HIDE DEF p6
<1> QED BY <1>6, <1>7, ProgramRuns

-----------------------------------------------------------------------------
(* What holds of a tile of a convolution that is not empty.                 *)
ConvDims == {"N", "C", "M", "S", "R", "Q", "P"}
ConvTile ==
  /\ Precision \in Positive /\ Core.req \in Positive /\ Core.dim \in Positive
  /\ layer.H \in Positive /\ layer.W \in Positive
  /\ DOMAIN mapping.in = ConvDims
  /\ \A d \in ConvDims :
       /\ Conv!In(d) \in Positive /\ Conv!Total(d) \in Positive
       /\ Conv!Offset(d) \in Nat /\ Conv!Offset(d) < Conv!Total(d)
  /\ Conv!Window("Q", layer.H) # {} /\ Conv!Window("P", layer.W) # {}
  /\ Core.dim * Core.dim >= Core.req
  /\ Conv!WeightBase \in Nat /\ Conv!WeightBase >= Core.req

(* A tile of a convolution joins, counts and rounds as the rest of the      *)
(* proofs do.                                                               *)
LEMMA ConvSees ==
  /\ \A s : Conv!Joined(s) = Joined(s)
  /\ \A S : Conv!Cardinality(S) = Cardinality(S)
  /\ \A a, b : Conv!CeilDiv(a, b) = CeilDiv(a, b) /\ Conv!AtMost(a, b) = AtMost(a, b)
  /\ Conv!Core = Core /\ Conv!width = Core.dim
<1>1. \A s : Conv!Joined(s) = Joined(s)
  BY DEF Joined, Conv!Joined
<1>2. \A S : Conv!Cardinality(S) = Cardinality(S)
  BY DEF Cardinality, Conv!Cardinality
<1>3. \A a, b : Conv!CeilDiv(a, b) = CeilDiv(a, b) /\ Conv!AtMost(a, b) = AtMost(a, b)
  BY DEF CeilDiv, Conv!CeilDiv, AtMost, Conv!AtMost
<1>4. Conv!Core = Core /\ Conv!width = Core.dim
  BY DEF Conv!Core, Core, Conv!width
<1> QED BY <1>1, <1>2, <1>3, <1>4

(* The pieces of a loop are not empty.                                      *)
LEMMA ConvPieces ==
  ASSUME ConvTile, NEW d \in ConvDims
  PROVE  /\ IsPieces(Conv!Pieces(d), Conv!In(d), Conv!Offset(d), Conv!Total(d))
         /\ \A k \in 1 .. Len(Conv!Pieces(d)) : Conv!PieceLength(d, Conv!Pieces(d)[k]) \in Positive
<1>1. PICK in \in Positive, tot \in Positive, off \in Nat, w \in Positive :
        in = Conv!In(d) /\ tot = Conv!Total(d) /\ off = Conv!Offset(d) /\ off < tot /\ w = Core.dim
  BY DEF ConvTile
<1>2. PICK n \in Positive : n = AtMost(in, tot - off) /\ n <= in /\ n <= tot - off
  BY <1>1 DEF AtMost, Positive
<1>3. PICK c \in Positive : c = CeilDiv(n, w) /\ (c - 1) * w < n
  BY CeilDivBounds
<1> DEFINE p == Conv!Pieces(d)
<1>4. p = [k \in 1 .. c |-> (k - 1) * w]
  BY <1>1, <1>2, <1>3, ConvSees DEF Conv!Pieces, Conv!Starts
<1> HIDE DEF p
<1>5. IsSeq(p) /\ Len(p) = c
  BY <1>4, MadeSeq DEF Positive
<1>6. ASSUME NEW k \in 1 .. c PROVE p[k] = (k - 1) * w /\ p[k] \in Nat /\ p[k] < in /\ off + p[k] < tot
  <2>1. p[k] = (k - 1) * w /\ (k - 1) * w \in Nat
    BY <1>4 DEF Positive
  <2>2. (k - 1) * w <= (c - 1) * w /\ (c - 1) * w \in Int
    BY DEF Positive
  <2> QED BY <2>1, <2>2, <1>2, <1>3 DEF Positive
<1>7. p[1] = 0
  BY <1>4 DEF Positive
<1>8. IsPieces(p, in, off, tot)
  BY <1>1, <1>5, <1>6, <1>7 DEF IsPieces, Positive
<1>9. \A k \in 1 .. c : Conv!PieceLength(d, p[k]) \in Positive
  <2> SUFFICES ASSUME NEW k \in 1 .. c PROVE Conv!PieceLength(d, p[k]) \in Positive
    OBVIOUS
  <2>1. PICK s \in Nat : s = p[k] /\ s < in /\ off + s < tot
    BY <1>6
  <2>2. Conv!PieceLength(d, s) = AtMost(AtMost(tot - off - s, w), in - s)
    BY <1>1, ConvSees DEF Conv!PieceLength
  <2> QED BY <2>1, <2>2 DEF AtMost, Positive
<1> QED BY <1>1, <1>5, <1>8, <1>9 DEF p

(* A set of requests that is given by four indices.                         *)
IndexedByFour(A, B, C, D, f, T) ==
  /\ IsFiniteSet(A) /\ IsFiniteSet(B) /\ IsFiniteSet(C) /\ IsFiniteSet(D)
  /\ A # {} /\ B # {} /\ C # {} /\ D # {}
  /\ \A a \in A, b \in B, c \in C, d \in D : f[<<(<<a, b>>), (<<c, d>>)>>] \in T
  /\ \A t \in T : \E a \in A, b \in B, c \in C, d \in D : t = f[<<(<<a, b>>), (<<c, d>>)>>]

(* There are finitely many of them, and at least one.                       *)
LEMMA RequestsByFour ==
  ASSUME NEW A, NEW B, NEW C, NEW D, NEW f, NEW T, IndexedByFour(A, B, C, D, f, T)
  PROVE  Cardinality(T) > 0
<1> USE DEF IndexedByFour
<1>1. IsFiniteSet(A \X B) /\ IsFiniteSet(C \X D) /\ A \X B # {} /\ C \X D # {}
  <2>1. PICK a \in A, b \in B, c \in C, d \in D : TRUE
    OBVIOUS
  <2>2. <<a, b>> \in A \X B /\ <<c, d>> \in C \X D
    OBVIOUS
  <2> QED BY <2>2, FS_Product
<1>2. ASSUME NEW t \in T PROVE \E x \in A \X B, y \in C \X D : t = f[<<x, y>>]
  <2>1. PICK a \in A, b \in B, c \in C, d \in D : t = f[<<(<<a, b>>), (<<c, d>>)>>]
    OBVIOUS
  <2>2. <<a, b>> \in A \X B /\ <<c, d>> \in C \X D
    OBVIOUS
  <2> QED BY <2>1, <2>2
<1>3. ASSUME NEW x \in A \X B, NEW y \in C \X D PROVE f[<<x, y>>] \in T
  <2>1. PICK a \in A, b \in B : x = <<a, b>>
    OBVIOUS
  <2>2. PICK c \in C, d \in D : y = <<c, d>>
    OBVIOUS
  <2> QED BY <2>1, <2>2
<1> DEFINE R == A \X B
           K == C \X D
<1>4. IsFiniteSet(R) /\ IsFiniteSet(K) /\ R # {} /\ K # {}
  BY <1>1
<1>5. (\A t \in T : \E x \in R, y \in K : t = f[<<x, y>>]) /\ \A x \in R, y \in K : f[<<x, y>>] \in T
  BY <1>2, <1>3
<1> HIDE DEF R, K
<1> QED BY ONLY <1>4, <1>5, ManyRequests

(* A tile reads at least one element of the input,                          *)
LEMMA ConvInput ==
  ASSUME ConvTile
  PROVE  LET x == Conv!LoadActivations IN x.op = "MOVIN" /\ x.dest = Conv!ActPlace /\ x.size > 0
<1> DEFINE ns == 0 .. Conv!In("N") - 1
           hs == Conv!Window("Q", layer.H)
           ws == Conv!Window("P", layer.W)
           cs == Conv!Channels
           f == [x \in (ns \X hs) \X (ws \X cs) |->
                  Conv!ActivationAddress(Conv!Offset("N") + x[1][1], x[1][2], x[2][1], x[2][2], Conv!InputShape)]
           T == {Conv!ActivationAddress(Conv!Offset("N") + n, h, w, c, Conv!InputShape) :
                   n \in ns, h \in hs, w \in ws, c \in cs}
<1>1. IsFiniteSet(ns) /\ ns # {}
  <2>1. PICK n \in Positive : n = Conv!In("N")
    BY DEF ConvTile, ConvDims
  <2>2. 0 \in 0 .. n - 1 /\ 0 \in Int /\ n - 1 \in Int
    BY DEF Positive
  <2> QED BY <2>1, <2>2, FS_Interval
<1>2. IsFiniteSet(hs) /\ hs # {} /\ IsFiniteSet(ws) /\ ws # {}
  <2>1. hs \subseteq 0 .. layer.H - 1 /\ ws \subseteq 0 .. layer.W - 1
    BY DEF Conv!Window
  <2>2. hs # {} /\ ws # {} /\ layer.H - 1 \in Nat /\ layer.W - 1 \in Nat
    BY DEF ConvTile, Positive
  <2> HIDE DEF hs, ws
  <2> QED BY <2>1, <2>2, FiniteSubset
<1>3. IsFiniteSet(cs) /\ cs # {}
  <2>1. PICK in \in Positive, tot \in Positive, off \in Nat :
          in = Conv!In("C") /\ tot = Conv!Total("C") /\ off = Conv!Offset("C") /\ off < tot
    BY DEF ConvTile, ConvDims
  <2>2. PICK e \in Int : e = AtMost(off + in, tot) - 1 /\ off <= e
    BY <2>1 DEF AtMost, Positive
  <2>3. cs = off .. e
    BY <2>1, <2>2, ConvSees DEF Conv!Channels
  <2>4. off \in off .. e
    BY <2>2
  <2> QED BY <2>2, <2>3, <2>4, FS_Interval
<1>4. Conv!LoadActivations = Conv!MoveIn(Conv!ActPlace, "input", T)
  BY DEF Conv!LoadActivations
<1> HIDE DEF ns, hs, ws, cs
<1>5. \A n \in ns, h \in hs, w \in ws, c \in cs :
        f[<<(<<n, h>>), (<<w, c>>)>>] = Conv!ActivationAddress(Conv!Offset("N") + n, h, w, c, Conv!InputShape)
  OBVIOUS
<1> HIDE DEF f
<1>6. ASSUME NEW n \in ns, NEW h \in hs, NEW w \in ws, NEW c \in cs PROVE f[<<(<<n, h>>), (<<w, c>>)>>] \in T
  <2>1. f[<<(<<n, h>>), (<<w, c>>)>>] = Conv!ActivationAddress(Conv!Offset("N") + n, h, w, c, Conv!InputShape)
    BY <1>5
  <2>2. \E i \in ns, j \in hs, k \in ws, l \in cs :
          f[<<(<<n, h>>), (<<w, c>>)>>] = Conv!ActivationAddress(Conv!Offset("N") + i, j, k, l, Conv!InputShape)
    <3> WITNESS n \in ns, h \in hs, w \in ws, c \in cs
    <3> QED BY <2>1
  <2> QED BY <2>2
<1>7. \A t \in T : \E n \in ns, h \in hs, w \in ws, c \in cs : t = f[<<(<<n, h>>), (<<w, c>>)>>]
  BY <1>5
<1> HIDE DEF T
<1>8. Cardinality(T) > 0
  <2>1. \A n \in ns, h \in hs, w \in ws, c \in cs : f[<<(<<n, h>>), (<<w, c>>)>>] \in T
    BY <1>6
  <2>2. /\ IsFiniteSet(ns) /\ IsFiniteSet(hs) /\ IsFiniteSet(ws) /\ IsFiniteSet(cs)
        /\ ns # {} /\ hs # {} /\ ws # {} /\ cs # {}
    BY <1>1, <1>2, <1>3
  <2>3. IndexedByFour(ns, hs, ws, cs, f, T)
    BY ONLY <2>1, <2>2, <1>7 DEF IndexedByFour
  <2> QED BY <2>3, RequestsByFour
<1> QED BY <1>4, <1>8, ConvSees DEF Conv!MoveIn

(* and at least one weight for each block of channels.                      *)
LEMMA ConvWeight ==
  ASSUME ConvTile, NEW b, NEW i \in 1 .. Len(Conv!Pieces("M")), b.m = Conv!Pieces("M")[i],
         NEW j \in 1 .. Len(Conv!Pieces("C")), b.c = Conv!Pieces("C")[j]
  PROVE  LET x == Conv!LoadWeight(b) IN x.op = "MOVIN" /\ x.dest = b.place /\ x.size > 0
<1> DEFINE ms == 0 .. Conv!PieceLength("M", b.m) - 1
           cs == 0 .. Conv!PieceLength("C", b.c) - 1
           f == [x \in ms \X cs |->
                  Conv!WeightAddress(Conv!Offset("S") + b.s, Conv!Offset("R") + b.r, Conv!Offset("M") + b.m + x[1],
                                     Conv!Offset("C") + b.c + x[2])]
           T == {Conv!WeightAddress(Conv!Offset("S") + b.s, Conv!Offset("R") + b.r, Conv!Offset("M") + b.m + m,
                                    Conv!Offset("C") + b.c + c) : m \in ms, c \in cs}
<1>1. PICK u \in Positive, v \in Positive : u = Conv!PieceLength("M", b.m) /\ v = Conv!PieceLength("C", b.c)
  BY ConvPieces DEF ConvDims
<1>2. IsFiniteSet(ms) /\ ms # {} /\ IsFiniteSet(cs) /\ cs # {}
  <2>1. 0 \in 0 .. u - 1 /\ 0 \in 0 .. v - 1 /\ 0 \in Int /\ u - 1 \in Int /\ v - 1 \in Int
    BY DEF Positive
  <2> QED BY <1>1, <2>1, FS_Interval
<1>3. Conv!LoadWeight(b) = Conv!MoveIn(b.place, "weight", T)
  BY DEF Conv!LoadWeight
<1> HIDE DEF ms, cs
<1>4. \A m \in ms, c \in cs :
        f[<<m, c>>] = Conv!WeightAddress(Conv!Offset("S") + b.s, Conv!Offset("R") + b.r, Conv!Offset("M") + b.m + m,
                                         Conv!Offset("C") + b.c + c)
  OBVIOUS
<1> HIDE DEF f
<1>5. ASSUME NEW m \in ms, NEW c \in cs PROVE f[<<m, c>>] \in T
  <2>1. f[<<m, c>>] = Conv!WeightAddress(Conv!Offset("S") + b.s, Conv!Offset("R") + b.r, Conv!Offset("M") + b.m + m,
                                         Conv!Offset("C") + b.c + c)
    BY <1>4
  <2>2. \E x \in ms, y \in cs :
          f[<<m, c>>] = Conv!WeightAddress(Conv!Offset("S") + b.s, Conv!Offset("R") + b.r, Conv!Offset("M") + b.m + x,
                                           Conv!Offset("C") + b.c + y)
    <3> WITNESS m \in ms, c \in cs
    <3> QED BY <2>1
  <2> QED BY <2>2
<1>6. \A t \in T : \E m \in ms, c \in cs : t = f[<<m, c>>]
  BY <1>4
<1> HIDE DEF T
<1>7. Cardinality(T) > 0
  BY ONLY <1>2, <1>5, <1>6, ManyRequests
<1> QED BY <1>3, <1>7, ConvSees DEF Conv!MoveIn

(* The quotient and the remainder of an index of two parts.                 *)
LEMMA QuotientInside ==
  ASSUME NEW x \in Positive, NEW y \in Positive, NEW a \in Nat, a < x * y
  PROVE  a \div y \in 0 .. x - 1 /\ a % y \in 0 .. y - 1 /\ a = (a \div y) * y + (a % y)
<1> DEFINE q == a \div y
           r == a % y
<1>1. q \in Int /\ r \in 0 .. y - 1 /\ a = y * q + r
  BY DEF Positive
<1>2. q \in Nat
  BY QuotientNat
<1> HIDE DEF q, r
<1>3. y * q = q * y /\ q * y \in Int
  BY <1>1 DEF Positive
<1>4. ~(x <= q)
  <2>1. SUFFICES ASSUME x <= q PROVE FALSE
    OBVIOUS
  <2>2. x * y <= q * y
    BY <2>1, <1>1 DEF Positive
  <2> QED BY <2>2, <1>1, <1>3 DEF Positive
<1>5. q \in 0 .. x - 1
  BY <1>2, <1>4 DEF Positive
<1> QED BY <1>1, <1>3, <1>5 DEF q, r

(* Addresses that differ by a request or more are still different when they *)
(* are aligned, and none below the first request.                           *)
LEMMA AlignedApart ==
  ASSUME Core.req \in Positive, NEW a \in Nat, NEW b \in Nat
  PROVE  /\ a + Core.req <= b => Conv!Align(a) # Conv!Align(b)
         /\ Core.req <= b => Conv!Align(b) # 0
<1>1. PICK r \in Positive : r = Core.req
  OBVIOUS
<1>2. \A x \in Nat : x % r \in 0 .. r - 1
  BY DEF Positive
<1>3. \A x \in Nat : Conv!Align(x) = x - (x % r)
  BY <1>1, ConvSees DEF Conv!Align
<1>4. \A x \in Nat : Conv!Align(x) \in Int /\ Conv!Align(x) <= x /\ Conv!Align(x) > x - r
  BY <1>2, <1>3 DEF Positive
<1>5. PICK u \in Int, v \in Int : u = Conv!Align(a) /\ v = Conv!Align(b) /\ u <= a /\ v > b - r
  BY <1>4
<1> QED BY <1>1, <1>5 DEF Positive

(* The loads of the weights: the sizes S and R of the kernel in the tile,   *)
(* so many blocks of input and of output channels.                          *)
LEMMA ConvWeights ==
  ASSUME ConvTile
  PROVE  /\ IsSeq(Conv!Weights) /\ Len(Conv!Weights) \in Positive
         /\ \A k \in 1 .. Len(Conv!Weights) :
              /\ \E i \in 1 .. Len(Conv!Pieces("M")) : Conv!Weights[k].m = Conv!Pieces("M")[i]
              /\ \E j \in 1 .. Len(Conv!Pieces("C")) : Conv!Weights[k].c = Conv!Pieces("C")[j]
              /\ Conv!Weights[k].place[1] = "spad" /\ Conv!Weights[k].place # Conv!ActPlace
         /\ \A j, k \in 1 .. Len(Conv!Weights) : j < k => Conv!Weights[j].place # Conv!Weights[k].place
         /\ \A i \in 1 .. Len(Conv!Pieces("M")) : \E k \in 1 .. Len(Conv!Weights) :
              Conv!Weights[k].m = Conv!Pieces("M")[i]
<1> DEFINE w == Conv!Weights
<1>1. PICK S \in Positive, R \in Positive, wb \in Nat, req \in Positive, dim \in Positive :
        /\ S = Conv!In("S") /\ R = Conv!In("R") /\ wb = Conv!WeightBase /\ req = Core.req /\ dim = Core.dim
        /\ wb >= req /\ dim * dim >= req
  BY DEF ConvTile, ConvDims
<1>2. PICK ms, cs :
        /\ ms = Conv!Pieces("M") /\ cs = Conv!Pieces("C")
        /\ Len(ms) \in Positive /\ Len(cs) \in Positive
  <2>1. "M" \in ConvDims /\ "C" \in ConvDims
    BY DEF ConvDims
  <2> QED BY <2>1, ConvPieces DEF IsPieces, Positive
<1>3. PICK M \in Positive, C \in Positive : M = Len(ms) /\ C = Len(cs)
  BY <1>2
<1>4. PICK each \in Positive, area \in Positive, row \in Positive, sq \in Positive :
        /\ each = S * R * C /\ area = S * R /\ row = R * C /\ sq = dim * dim /\ each = S * row
  <2>1. S * R \in Positive /\ R * C \in Positive /\ dim * dim \in Positive
    BY ProductPositive
  <2>2. S * R * C \in Positive
    BY <2>1, ProductPositive
  <2>3. S * R * C = S * (R * C)
    BY DEF Positive
  <2> QED BY <2>1, <2>2, <2>3
<1>5. PICK n \in Positive : n = M * each
  BY ProductPositive
<1> DEFINE rest(k) == (k - 1) % each
           s(k) == rest(k) \div row
           r(k) == (rest(k) \div C) % R
           x(k) == (k - 1) * area + s(k) * R + r(k)
           one(k) == [m |-> ms[(k - 1) \div each + 1], s |-> s(k), r |-> r(k), c |-> cs[(rest(k) % C) + 1],
                      place |-> <<"spad", Conv!Align(wb + sq * x(k))>>]
<1>6. w = [k \in 1 .. n |-> one(k)]
  <2>1. w = [k \in 1 .. n |-> [m |-> ms[(k - 1) \div each + 1], s |-> s(k), r |-> r(k), c |-> cs[(rest(k) % C) + 1],
                               place |-> Conv!WeightPlace(k - 1, s(k), r(k))]]
    BY <1>1, <1>2, <1>3, <1>4, <1>5 DEF Conv!Weights
  <2>2. \A k, t, u : Conv!WeightPlace(k - 1, t, u) = <<"spad", Conv!Align(wb + sq * ((k - 1) * area + t * R + u))>>
    BY <1>1, <1>4, ConvSees DEF Conv!WeightPlace
  <2> HIDE DEF s, r, rest
  <2> QED BY <2>1, <2>2
<1>7. IsSeq(w) /\ Len(w) = n /\ \A k \in 1 .. n : w[k] = one(k)
  <2> HIDE DEF one, w
  <2>1. w = [k \in 1 .. n |-> w[k]]
    BY <1>6
  <2> QED BY <1>6, <2>1, MadeSeq DEF Positive
<1>8. ASSUME NEW k \in 1 .. n
      PROVE  /\ (k - 1) \div each + 1 \in 1 .. M /\ (rest(k) % C) + 1 \in 1 .. C
             /\ x(k) \in Nat /\ (k - 1) * area <= x(k) /\ x(k) < k * area
  <2>1. k - 1 \in Nat /\ k - 1 < M * each
    BY <1>5 DEF Positive
  <2>2. (k - 1) \div each \in 0 .. M - 1 /\ rest(k) \in 0 .. each - 1
    BY <2>1, QuotientInside
  <2>3. PICK e \in Nat : e = rest(k) /\ e < S * row
    BY <2>2, <1>4
  <2>4. PICK t \in Nat : t = s(k) /\ t <= S - 1
    <3>1. e \div row \in 0 .. S - 1
      BY <2>3, QuotientInside
    <3> QED BY <2>3, <3>1
  <2>5. PICK u \in Nat : u = r(k) /\ u <= R - 1
    <3>1. e \div C \in Nat
      BY QuotientNat
    <3>2. (e \div C) % R \in 0 .. R - 1
      BY <3>1 DEF Positive
    <3> QED BY <2>3, <3>2
  <2>6. e % C \in 0 .. C - 1
    BY DEF Positive
  <2>7. x(k) = (k - 1) * area + t * R + u
    BY <2>4, <2>5
  <2>8. (k - 1) * area \in Nat /\ t * R \in Nat /\ t * R <= (S - 1) * R /\ (S - 1) * R + R = area
        /\ (k - 1) * area + area = k * area
    BY <2>1, <2>4, <1>4 DEF Positive
  <2>9. x(k) \in Nat /\ (k - 1) * area <= x(k) /\ x(k) < k * area
    <3> HIDE DEF x
    <3>1. (S - 1) * R \in Int /\ k * area \in Int
      BY DEF Positive
    <3> QED BY <2>5, <2>7, <2>8, <3>1 DEF Positive
  <2>10. (k - 1) \div each + 1 \in 1 .. M /\ (e % C) + 1 \in 1 .. C
    BY <2>2, <2>6 DEF Positive
  <2> HIDE DEF x, rest
  <2> QED BY <2>3, <2>9, <2>10
<1> HIDE DEF x, rest
<1>9. \A k \in 1 .. n :
        /\ w[k].m = ms[(k - 1) \div each + 1] /\ w[k].c = cs[(rest(k) % C) + 1]
        /\ w[k].place = <<"spad", Conv!Align(wb + sq * x(k))>>
  <2> HIDE DEF w, s, r
  <2> QED BY <1>7
<1> HIDE DEF w, one
<1>10. ASSUME NEW k \in 1 .. n PROVE w[k].place[1] = "spad" /\ w[k].place # Conv!ActPlace
  <2>1. PICK b \in Nat : b = wb + sq * x(k) /\ b >= wb
    <3>1. sq * x(k) \in Nat
      BY <1>8 DEF Positive
    <3> QED BY <3>1
  <2>2. Conv!Align(b) # 0
    <3>1. Core.req \in Positive /\ Core.req <= b
      BY <1>1, <2>1 DEF Positive
    <3> QED BY <3>1, AlignedApart
  <2> QED BY <1>9, <2>1, <2>2 DEF Conv!ActPlace
<1>11. ASSUME NEW j \in 1 .. n, NEW k \in 1 .. n, j < k PROVE w[j].place # w[k].place
  <2>1. PICK p \in Nat, q \in Nat : p = x(j) /\ q = x(k) /\ p < j * area /\ (k - 1) * area <= q
    BY <1>8
  <2>2. p + 1 <= q
    <3>1. j * area <= (k - 1) * area /\ j * area \in Int /\ (k - 1) * area \in Int
      BY <1>11 DEF Positive
    <3> QED BY <2>1, <3>1
  <2>3. sq * (p + 1) <= sq * q /\ sq * (p + 1) = sq * p + sq /\ sq * p \in Nat /\ sq * q \in Nat
    BY <2>2 DEF Positive
  <2>4. PICK a \in Nat, b \in Nat : a = wb + sq * p /\ b = wb + sq * q
    BY <2>3
  <2>5. Core.req \in Positive /\ a + Core.req <= b
    BY <1>1, <1>4, <2>3, <2>4 DEF Positive
  <2>6. Conv!Align(a) # Conv!Align(b)
    BY <2>5, AlignedApart
  <2> QED BY <1>9, <2>1, <2>4, <2>6
<1>12. ASSUME NEW i \in 1 .. M PROVE \E k \in 1 .. n : w[k].m = ms[i]
  <2> DEFINE k == (i - 1) * each + 1
  <2>1. (i - 1) * each \in Nat /\ (i - 1) * each + each <= n
    <3>1. (i - 1) * each \in Nat /\ (i - 1) * each + each = i * each /\ i * each <= M * each
      BY DEF Positive
    <3> QED BY <1>5, <3>1
  <2>2. k \in 1 .. n
    BY <2>1 DEF Positive
  <2>3. PICK c \in Nat : c = (i - 1) * each
    BY <2>1
  <2>4. c \div each = i - 1
    <3>1. c < M * each
      BY <1>5, <2>1, <2>3 DEF Positive
    <3>2. c \div each \in Int /\ c % each \in 0 .. each - 1 /\ c = (c \div each) * each + (c % each)
      BY <3>1, QuotientInside DEF Positive
    <3>3. PICK q \in Int, v \in 0 .. each - 1 : q = c \div each /\ (i - 1) * each = q * each + v
      BY <2>3, <3>2
    <3>4. ~(q + 1 <= i - 1)
      <4>1. SUFFICES ASSUME q + 1 <= i - 1 PROVE FALSE
        OBVIOUS
      <4>2. (q + 1) * each <= (i - 1) * each /\ (q + 1) * each = q * each + each /\ q * each \in Int
        BY <4>1 DEF Positive
      <4> QED BY <4>2, <3>3 DEF Positive
    <3>5. ~(i <= q)
      <4>1. SUFFICES ASSUME i <= q PROVE FALSE
        OBVIOUS
      <4>2. i * each <= q * each /\ (i - 1) * each = i * each - each /\ q * each \in Int /\ i * each \in Int
        BY <4>1 DEF Positive
      <4> QED BY <4>2, <3>3 DEF Positive
    <3> QED BY <3>3, <3>4, <3>5
  <2>5. k - 1 = c
    BY <2>1, <2>3
  <2>6. w[k].m = ms[i]
    <3>1. w[k].m = ms[(k - 1) \div each + 1]
      BY <1>9, <2>2
    <3>2. (k - 1) \div each + 1 = i
      BY <2>4, <2>5
    <3> QED BY <3>1, <3>2
  <2> QED BY <2>2, <2>6
<1>13. \A k \in 1 .. n : (\E i \in 1 .. M : w[k].m = ms[i]) /\ (\E j \in 1 .. C : w[k].c = cs[j])
  BY <1>8, <1>9
<1> HIDE DEF s, r
<1>14. IsSeq(w) /\ Len(w) = n
  BY <1>7
<1>15. \A k \in 1 .. Len(w) :
         /\ (\E i \in 1 .. Len(ms) : w[k].m = ms[i]) /\ (\E j \in 1 .. Len(cs) : w[k].c = cs[j])
         /\ w[k].place[1] = "spad" /\ w[k].place # Conv!ActPlace
  BY <1>3, <1>10, <1>13, <1>14
<1>16. \A j, k \in 1 .. Len(w) : j < k => w[j].place # w[k].place
  BY <1>11, <1>14
<1>17. \A i \in 1 .. Len(ms) : \E k \in 1 .. Len(w) : w[k].m = ms[i]
  BY <1>3, <1>12, <1>14
<1> QED BY <1>2, <1>14, <1>15, <1>16, <1>17 DEF w

(* A tile has at least one block of the output.                             *)
LEMMA ConvBlocks ==
  ASSUME ConvTile
  PROVE  IsSeq(Conv!OutBlocks) /\ Len(Conv!OutBlocks) \in Positive
<1>1. PICK n \in Positive, u \in Positive, v \in Positive :
        n = Conv!In("N") /\ u = Len(Conv!Pieces("Q")) /\ v = Len(Conv!Pieces("P"))
  <2>1. "N" \in ConvDims /\ "Q" \in ConvDims /\ "P" \in ConvDims
    BY DEF ConvDims
  <2> QED BY <2>1, ConvPieces DEF ConvTile, IsPieces, Positive
<1> DEFINE row(a, j) == [i \in 1 .. v |-> [n |-> a - 1, q |-> Conv!Pieces("Q")[j], p |-> Conv!Pieces("P")[i]]]
           rows(a) == [j \in 1 .. u |-> row(a, j)]
           images == [a \in 1 .. n |-> Joined(rows(a))]
<1>2. ASSUME NEW a \in 1 .. n PROVE IsSeq(Joined(rows(a))) /\ Len(Joined(rows(a))) > 0
  <2>1. \A j \in 1 .. u : IsSeq(row(a, j)) /\ Len(row(a, j)) = v
    <3> SUFFICES ASSUME NEW j \in 1 .. u PROVE IsSeq(row(a, j)) /\ Len(row(a, j)) = v
      OBVIOUS
    <3> DEFINE p == row(a, j)
    <3>1. p = [i \in 1 .. v |-> p[i]] /\ v \in Nat
      BY DEF Positive
    <3> HIDE DEF p
    <3>2. IsSeq(p) /\ Len(p) = v
      BY <3>1, MadeSeq
    <3> QED BY <3>2 DEF p
  <2> DEFINE s == rows(a)
  <2>2. s = [j \in 1 .. u |-> s[j]] /\ u \in Nat /\ \A j \in 1 .. u : s[j] = row(a, j)
    BY DEF Positive
  <2> HIDE DEF s, row
  <2>3. IsSeq(s) /\ Len(s) = u
    BY <2>2, MadeSeq
  <2>4. 1 \in 1 .. u /\ Len(s[1]) > 0 /\ u \in Nat \ {0}
    BY <2>1, <2>2 DEF Positive
  <2>5. \A j \in 1 .. u : IsSeq(s[j])
    BY <2>1, <2>2
  <2>6. IsSeq(Joined(s)) /\ Len(Joined(s)) > 0
    BY <2>3, <2>4, <2>5, JoinedRuns
  <2> QED BY <2>6 DEF s
<1>3. Conv!OutBlocks = Joined(images)
  BY <1>1, ConvSees DEF Conv!OutBlocks
<1> HIDE DEF rows
<1>4. images = [a \in 1 .. n |-> images[a]] /\ n \in Nat /\ \A a \in 1 .. n : images[a] = Joined(rows(a))
  BY DEF Positive
<1> HIDE DEF images
<1>5. IsSeq(images) /\ Len(images) = n
  BY <1>4, MadeSeq
<1>6. 1 \in 1 .. n /\ Len(images[1]) > 0 /\ n \in Nat \ {0} /\ \A a \in 1 .. n : IsSeq(images[a])
  BY <1>2, <1>4 DEF Positive
<1>7. IsSeq(Joined(images)) /\ Len(Joined(images)) > 0
  BY <1>5, <1>6, JoinedRuns
<1> QED BY <1>3, <1>7, SeqLength DEF Positive

(* Each block of weights is multiplied with the input for every block of    *)
(* the output.                                                              *)
LEMMA ConvMultiply ==
  ASSUME ConvTile, NEW b
  PROVE  /\ IsSeq(Conv!Multiply(b)) /\ Len(Conv!Multiply(b)) = Len(Conv!OutBlocks)
         /\ \A k \in 1 .. Len(Conv!OutBlocks) :
              /\ Conv!Multiply(b)[k].op = "COMPUTE" /\ Conv!Multiply(b)[k].srcs = {Conv!ActPlace, b.place}
              /\ Conv!Multiply(b)[k].dest = Conv!OutPlace(Conv!OutBlocks[k], b.m)
<1> DEFINE p == Conv!Multiply(b)
           n == Len(Conv!OutBlocks)
<1>1. p = [k \in 1 .. n |-> p[k]]
  BY DEF Conv!Multiply
<1>2. \A k \in 1 .. n :
        p[k].op = "COMPUTE" /\ p[k].srcs = {Conv!ActPlace, b.place} /\ p[k].dest = Conv!OutPlace(Conv!OutBlocks[k], b.m)
  BY DEF Conv!Multiply, Conv!Compute
<1>3. n \in Nat
  BY ConvBlocks DEF Positive
<1> HIDE DEF p, n
<1>4. IsSeq(p) /\ Len(p) = n
  BY <1>1, <1>3, MadeSeq
<1> QED BY <1>2, <1>4 DEF p, n

(* The results of a block of the output are stored by channels.             *)
LEMMA ConvStore ==
  ASSUME ConvTile, NEW o
  PROVE  /\ IsSeq(Conv!Store(o)) /\ Len(Conv!Store(o)) = Len(Conv!Pieces("M"))
         /\ \A k \in 1 .. Len(Conv!Pieces("M")) :
              Conv!Store(o)[k].op = "MOVOUT" /\ Conv!Store(o)[k].dest = Conv!OutPlace(o, Conv!Pieces("M")[k])
<1> DEFINE p == Conv!Store(o)
           n == Len(Conv!Pieces("M"))
<1>1. p = [k \in 1 .. n |-> p[k]]
  BY DEF Conv!Store
<1>2. \A k \in 1 .. n : p[k].op = "MOVOUT" /\ p[k].dest = Conv!OutPlace(o, Conv!Pieces("M")[k])
  BY DEF Conv!Store, Conv!MoveOut
<1>3. n \in Nat
  <2>1. "M" \in ConvDims
    BY DEF ConvDims
  <2> QED BY <2>1, ConvPieces DEF IsPieces
<1> HIDE DEF p, n
<1>4. IsSeq(p) /\ Len(p) = n
  BY <1>1, <1>3, MadeSeq
<1> QED BY <1>2, <1>4 DEF p, n

(* The input and the weights are loaded, each to a place of its own.        *)
LEMMA ConvLoads ==
  ASSUME ConvTile, NEW p, p = <<Conv!LoadActivations>> \o [k \in 1 .. Len(Conv!Weights) |-> Conv!LoadWeight(Conv!Weights[k])]
  PROVE  /\ IsSeq(p) /\ RunsAfter(p, {}, {}) /\ Conv!ActPlace \in PlacesOf(p)
         /\ \A k \in 1 .. Len(Conv!Weights) : Conv!Weights[k].place \in PlacesOf(p)
<1> DEFINE w == Conv!Weights
           n == Len(w)
           a == <<Conv!LoadActivations>>
           q == [k \in 1 .. n |-> Conv!LoadWeight(w[k])]
           act == Conv!ActPlace
<1>1. IsSeq(a) /\ PlacesOf(a) = {act} /\ RunsAfter(a, {}, {})
  BY ConvInput, OneLoad
<1>2. n \in Nat
  BY ConvWeights DEF Positive
<1>3. ASSUME NEW k \in 1 .. n PROVE q[k].op = "MOVIN" /\ q[k].dest = w[k].place /\ q[k].size > 0
  <2>1. PICK b : b = w[k]
    OBVIOUS
  <2>2. /\ \E i \in 1 .. Len(Conv!Pieces("M")) : b.m = Conv!Pieces("M")[i]
        /\ \E j \in 1 .. Len(Conv!Pieces("C")) : b.c = Conv!Pieces("C")[j]
    BY <2>1, ConvWeights
  <2>3. q[k] = Conv!LoadWeight(b)
    BY <2>1
  <2> HIDE DEF q
  <2>4. Conv!LoadWeight(b).op = "MOVIN" /\ Conv!LoadWeight(b).dest = b.place /\ Conv!LoadWeight(b).size > 0
    BY <2>2, ConvWeight
  <2> QED BY <2>1, <2>3, <2>4
<1>4. q = [k \in 1 .. n |-> q[k]]
  OBVIOUS
<1>5. p = a \o q
  OBVIOUS
<1> HIDE DEF a, q, n
<1>6. IsSeq(q) /\ Len(q) = n
  BY <1>2, <1>4, MadeSeq
<1>7. (\A k \in 1 .. n : w[k].place # act) /\ \A j, k \in 1 .. n : j < k => w[j].place # w[k].place
  BY ConvWeights DEF n
<1> HIDE DEF w, act
<1>8. RunsAfter(q, {act}, {})
  <2>1. \A k \in 1 .. Len(q) : q[k].op = "MOVIN" /\ q[k].size > 0
    BY <1>3, <1>6
  <2>2. \A k \in 1 .. Len(q) : q[k].dest \notin {act}
    BY <1>3, <1>6, <1>7
  <2>3. \A j, k \in 1 .. Len(q) : j < k => q[j].dest # q[k].dest
    BY <1>3, <1>6, <1>7
  <2>4. Len(q) \in Nat
    BY <1>2, <1>6
  <2> QED BY <2>1, <2>2, <2>3, <2>4, LoadsRun
<1>9. PlacesOf(q) = {q[k].dest : k \in 1 .. n}
  <2>1. \A k \in 1 .. Len(q) : q[k].op # "MOVOUT"
    BY <1>3, <1>6
  <2> QED BY <1>6, <2>1, PlacesOfAll
<1>10. RunsAfter(p, {}, {})
  <2>1. {} \cup PlacesOf(a) = {act}
    BY <1>1
  <2> QED BY <1>1, <1>5, <1>6, <1>8, <2>1, ConcatRuns
<1>11. IsSeq(p) /\ PlacesOf(p) = PlacesOf(a) \cup PlacesOf(q)
  <2>1. IsSeq(a) /\ IsSeq(q)
    BY <1>1, <1>6
  <2>2. IsSeq(a \o q)
    BY ONLY <2>1, ConcatSeq
  <2>3. PlacesOf(a \o q) = PlacesOf(a) \cup PlacesOf(q)
    BY ONLY <2>1, ConcatPlaces
  <2> QED BY <1>5, <2>2, <2>3
<1>12. \A k \in 1 .. n : w[k].place \in PlacesOf(q)
  BY <1>3, <1>9
<1> QED BY <1>1, <1>10, <1>11, <1>12 DEF w, n, act

(* The products only read what was loaded; there are sums for every block   *)
(* of the output and of its channels then.                                  *)
LEMMA ConvProducts ==
  ASSUME ConvTile, NEW p, p = Joined([k \in 1 .. Len(Conv!Weights) |-> Conv!Multiply(Conv!Weights[k])]),
         NEW there, Conv!ActPlace \in there, \A k \in 1 .. Len(Conv!Weights) : Conv!Weights[k].place \in there
  PROVE  /\ IsSeq(p) /\ NoLoads(p) /\ RunsAfter(p, there, {}) /\ Len(p) > 0
         /\ \A k \in 1 .. Len(Conv!OutBlocks), i \in 1 .. Len(Conv!Pieces("M")) :
              Conv!OutPlace(Conv!OutBlocks[k], Conv!Pieces("M")[i]) \in PlacesOf(p)
<1> DEFINE w == Conv!Weights
           s == [k \in 1 .. Len(w) |-> Conv!Multiply(w[k])]
           os == Conv!OutBlocks
           ms == Conv!Pieces("M")
           act == Conv!ActPlace
<1>1. PICK n \in Positive, u \in Positive : n = Len(w) /\ u = Len(os)
  BY ConvWeights, ConvBlocks
<1>2. \A k \in 1 .. n : w[k].place \in there /\ w[k].place[1] = "spad"
  BY <1>1, ConvWeights
<1>3. act \in there /\ act[1] = "spad"
  BY DEF Conv!ActPlace
<1>4. \A i \in 1 .. Len(ms) : \E k \in 1 .. n : w[k].m = ms[i]
  BY <1>1, ConvWeights
<1>5. s = [k \in 1 .. n |-> s[k]] /\ p = Joined(s) /\ \A k \in 1 .. n : s[k] = Conv!Multiply(w[k])
  BY <1>1
<1> HIDE DEF s, w, os, ms, act
<1>6. IsSeq(s) /\ Len(s) = n
  BY <1>5, MadeSeq DEF Positive
<1>7. ASSUME NEW k \in 1 .. n
      PROVE  /\ IsSeq(s[k]) /\ NoLoads(s[k]) /\ Len(s[k]) = u /\ RunsAfter(s[k], there, {})
             /\ PlacesOf(s[k]) = {Conv!OutPlace(os[j], w[k].m) : j \in 1 .. u}
  <2>1. PICK b, q : b = w[k] /\ q = s[k] /\ q = Conv!Multiply(b)
    BY <1>5
  <2>2. /\ IsSeq(q) /\ Len(q) = u
        /\ \A j \in 1 .. u : q[j].op = "COMPUTE" /\ q[j].srcs = {act, b.place} /\ q[j].dest = Conv!OutPlace(os[j], b.m)
    <3>1. /\ IsSeq(Conv!Multiply(b)) /\ Len(Conv!Multiply(b)) = Len(os)
          /\ \A j \in 1 .. Len(os) :
               /\ Conv!Multiply(b)[j].op = "COMPUTE" /\ Conv!Multiply(b)[j].srcs = {act, b.place}
               /\ Conv!Multiply(b)[j].dest = Conv!OutPlace(os[j], b.m)
      BY ConvMultiply DEF os, act
    <3> QED BY <1>1, <2>1, <3>1
  <2>3. NoLoads(q)
    BY <2>2 DEF NoLoads
  <2>4. RunsAfter(q, there, {})
    <3>1. b.place \in there /\ b.place[1] = "spad"
      BY <1>2, <2>1
    <3>2. \A j \in 1 .. Len(q) : RunsAt(q, j, there, {})
      BY <1>3, <2>2, <3>1 DEF RunsAt
    <3>3. there \subseteq there
      OBVIOUS
    <3> QED BY <2>3, <3>2, <3>3, QuietRuns
  <2>5. PlacesOf(q) = {q[j].dest : j \in 1 .. u}
    <3>1. \A j \in 1 .. Len(q) : q[j].op # "MOVOUT"
      BY <2>2
    <3> QED BY <2>2, <3>1, PlacesOfAll
  <2>6. PlacesOf(q) = {Conv!OutPlace(os[j], b.m) : j \in 1 .. u}
    BY <2>2, <2>5
  <2> QED BY <2>1, <2>2, <2>3, <2>4, <2>6
<1>8. IsSeq(p) /\ NoLoads(p) /\ RunsAfter(p, there, {}) /\ PlacesOf(p) = PlacesOfParts(s, n) /\ Len(p) > 0
  <2>1. n \in Nat \ {0} /\ \A k \in 1 .. n : IsSeq(s[k]) /\ NoLoads(s[k]) /\ RunsAfter(s[k], there, {})
    BY <1>7 DEF Positive
  <2>2. Len(s[1]) > 0
    BY <1>7 DEF Positive
  <2> QED BY <1>5, <1>6, <2>1, <2>2, JoinedQuiet
<1>9. ASSUME NEW k \in 1 .. u, NEW i \in 1 .. Len(ms) PROVE Conv!OutPlace(os[k], ms[i]) \in PlacesOf(p)
  <2>1. PICK j \in 1 .. n : w[j].m = ms[i]
    BY <1>4
  <2>2. Conv!OutPlace(os[k], ms[i]) \in PlacesOf(s[j])
    BY <1>7, <2>1
  <2> QED BY <1>8, <2>2 DEF PlacesOfParts
<1> QED BY <1>1, <1>8, <1>9 DEF os, ms

(* The results are stored from the sums, and nothing else is done then.     *)
LEMMA ConvStores ==
  ASSUME ConvTile, NEW p, p = Joined([k \in 1 .. Len(Conv!OutBlocks) |-> Conv!Store(Conv!OutBlocks[k])]),
         NEW there, \A k \in 1 .. Len(Conv!OutBlocks), i \in 1 .. Len(Conv!Pieces("M")) :
                      Conv!OutPlace(Conv!OutBlocks[k], Conv!Pieces("M")[i]) \in there
  PROVE  IsSeq(p) /\ NoLoads(p) /\ RunsAfter(p, there, {})
<1> DEFINE os == Conv!OutBlocks
           ms == Conv!Pieces("M")
           s == [k \in 1 .. Len(os) |-> Conv!Store(os[k])]
<1>1. PICK u \in Positive : u = Len(os)
  BY ConvBlocks
<1>2. s = [k \in 1 .. u |-> s[k]] /\ p = Joined(s) /\ \A k \in 1 .. u : s[k] = Conv!Store(os[k])
  BY <1>1
<1>3. \A k \in 1 .. u, i \in 1 .. Len(ms) : Conv!OutPlace(os[k], ms[i]) \in there
  BY <1>1
<1> HIDE DEF s, os, ms
<1>4. IsSeq(s) /\ Len(s) = u
  BY <1>2, MadeSeq DEF Positive
<1>5. ASSUME NEW k \in 1 .. u PROVE IsSeq(s[k]) /\ NoLoads(s[k]) /\ RunsAfter(s[k], there, {})
  <2>1. PICK o, q : o = os[k] /\ q = s[k] /\ q = Conv!Store(o)
    BY <1>2
  <2>2. /\ IsSeq(q) /\ Len(q) = Len(ms)
        /\ \A i \in 1 .. Len(ms) : q[i].op = "MOVOUT" /\ q[i].dest = Conv!OutPlace(o, ms[i])
    BY <2>1, ConvStore DEF ms
  <2>3. NoLoads(q)
    BY <2>2 DEF NoLoads
  <2>4. \A i \in 1 .. Len(q) : RunsAt(q, i, there, {})
    BY <1>3, <2>1, <2>2 DEF RunsAt
  <2>5. there \subseteq there
    OBVIOUS
  <2>6. RunsAfter(q, there, {})
    BY <2>3, <2>4, <2>5, QuietRuns
  <2> QED BY <2>1, <2>2, <2>3, <2>6
<1>6. u \in Nat \ {0} /\ \A k \in 1 .. u : IsSeq(s[k]) /\ NoLoads(s[k]) /\ RunsAfter(s[k], there, {})
  BY <1>5 DEF Positive
<1> QED BY <1>2, <1>4, <1>6, JoinedQuiet

(* A tile of a convolution runs to its end.                                 *)
LEMMA ConvRuns ==
  ASSUME ConvTile
  PROVE  RunsOnCore(Conv!Program, {})
<1> DEFINE loads == <<Conv!LoadActivations>> \o [k \in 1 .. Len(Conv!Weights) |-> Conv!LoadWeight(Conv!Weights[k])]
           products == Joined([k \in 1 .. Len(Conv!Weights) |-> Conv!Multiply(Conv!Weights[k])])
           stores == Joined([k \in 1 .. Len(Conv!OutBlocks) |-> Conv!Store(Conv!OutBlocks[k])])
           tail == IF Conv!LastSummands THEN stores ELSE <<>>
<1>1. Conv!Program = loads \o products \o tail
  <2>1. ~Conv!Empty
    <3>1. \A d \in ConvDims : ~(Conv!Offset(d) >= Conv!Total(d))
      <4> SUFFICES ASSUME NEW d \in ConvDims PROVE ~(Conv!Offset(d) >= Conv!Total(d))
        OBVIOUS
      <4>1. PICK off \in Nat, tot \in Positive : off = Conv!Offset(d) /\ tot = Conv!Total(d) /\ off < tot
        BY DEF ConvTile
      <4> QED BY <4>1 DEF Positive
    <3>2. DOMAIN mapping.in = ConvDims
      BY DEF ConvTile
    <3> QED BY <3>1, <3>2 DEF Conv!Empty
  <2> QED BY <2>1, ConvSees DEF Conv!Program
<1>2. /\ IsSeq(loads) /\ RunsAfter(loads, {}, {}) /\ Conv!ActPlace \in PlacesOf(loads)
      /\ \A k \in 1 .. Len(Conv!Weights) : Conv!Weights[k].place \in PlacesOf(loads)
  BY ConvLoads
<1>3. PICK there : there = PlacesOf(loads)
  OBVIOUS
<1>4. /\ IsSeq(products) /\ NoLoads(products) /\ RunsAfter(products, there, {}) /\ Len(products) > 0
      /\ \A k \in 1 .. Len(Conv!OutBlocks), i \in 1 .. Len(Conv!Pieces("M")) :
           Conv!OutPlace(Conv!OutBlocks[k], Conv!Pieces("M")[i]) \in PlacesOf(products)
  <2> HIDE DEF loads
  <2> QED BY <1>2, <1>3, ConvProducts
<1> DEFINE both == loads \o products
<1>5. IsSeq(both) /\ RunsAfter(both, {}, {}) /\ PlacesOf(both) = there \cup PlacesOf(products) /\ EndsWell(both)
  <2> HIDE DEF loads, products
  <2>1. IsSeq(loads) /\ IsSeq(products)
    BY <1>2, <1>4
  <2>2. IsSeq(both)
    BY ONLY <2>1, ConcatSeq DEF both
  <2>3. PlacesOf(both) = there \cup PlacesOf(products)
    BY <1>3, <2>1, ConcatPlaces
  <2>4. {} \cup PlacesOf(loads) = there
    BY <1>3
  <2>5. RunsAfter(both, {}, {})
    BY <1>2, <1>4, <2>1, <2>4, ConcatRuns
  <2>6. EndsWell(products)
    BY <1>4, QuietEndsWell
  <2>7. EndsWell(both)
    BY <2>1, <2>6, ConcatEndsWell
  <2> QED BY <2>2, <2>3, <2>5, <2>7
<1>6. IsSeq(tail) /\ NoLoads(tail) /\ RunsAfter(tail, {} \cup PlacesOf(both), {})
  <2>1. CASE Conv!LastSummands
    <3>1. tail = stores
      BY <2>1
    <3>2. \A k \in 1 .. Len(Conv!OutBlocks), i \in 1 .. Len(Conv!Pieces("M")) :
            Conv!OutPlace(Conv!OutBlocks[k], Conv!Pieces("M")[i]) \in {} \cup PlacesOf(both)
      <4> HIDE DEF products, both
      <4> QED BY <1>4, <1>5
    <3> HIDE DEF both, tail
    <3> QED BY <3>1, <3>2, ConvStores
  <2>2. CASE ~Conv!LastSummands
    <3>1. tail = <<>>
      BY <2>2
    <3> HIDE DEF both, tail
    <3> QED BY <3>1, EmptyProgram
  <2> QED BY <2>1, <2>2
<1> HIDE DEF both, tail, loads, products
<1>7. IsSeq(both \o tail) /\ RunsAfter(both \o tail, {}, {}) /\ EndsWell(both \o tail)
  <2>1. IsSeq(both) /\ IsSeq(tail)
    BY <1>5, <1>6
  <2>2. IsSeq(both \o tail)
    BY ONLY <2>1, ConcatSeq
  <2>3. RunsAfter(both \o tail, {}, {})
    BY <1>5, <1>6, ConcatRuns
  <2>4. EndsWell(both \o tail)
    BY <1>5, <1>6, ConcatEndsWell
  <2> QED BY <2>2, <2>3, <2>4
<1>8. both \o tail = Conv!Program
  BY <1>1 DEF both
<1> QED BY <1>7, <1>8, ProgramRuns

-----------------------------------------------------------------------------
(* The kinds of operations and their mappings.                              *)
LEMMA LayerKind ==
  ASSUME layer \in Layer
  PROVE  /\ layer.op = "gemm" => layer \in ProductKind
         /\ layer.op = "conv" => layer \in ConvKind
         /\ layer.op = "mamba" => layer \in MambaKind
         /\ layer.op = "attention" => layer \in AttentionKind
         /\ layer.op = "selfattention" => layer \in SelfAttentionKind
         /\ layer.op \notin {"gemm", "conv", "attention", "selfattention", "mamba"} => layer \in RowKind
         /\ layer.core \in CoreConfig /\ layer.core.req >= layer.core.precision
<1>1. layer \in ProductKind \cup ConvKind \cup AttentionKind \cup SelfAttentionKind \cup MambaKind \cup RowKind
      /\ layer.core.req >= layer.core.precision
  BY LayerAssumption
<1>2. layer \in ProductKind => layer.op = "gemm" /\ layer.core \in CoreConfig
  BY DEF ProductKind
<1>3. layer \in ConvKind => layer.op = "conv" /\ layer.core \in CoreConfig
  BY DEF ConvKind
<1>4. layer \in AttentionKind => layer.op = "attention" /\ layer.core \in CoreConfig
  BY DEF AttentionKind
<1>5. layer \in SelfAttentionKind => layer.op = "selfattention" /\ layer.core \in CoreConfig
  BY DEF SelfAttentionKind
<1>6. layer \in MambaKind => layer.op = "mamba" /\ layer.core \in CoreConfig
  BY DEF MambaKind
<1>7. layer \in RowKind =>
        /\ layer.op \in {"skipnorm", "softmax", "biasgelu", "biasact", "unary", "binary", "shape"}
        /\ layer.core \in CoreConfig
  BY DEF RowKind
<1> QED BY <1>1, <1>2, <1>3, <1>4, <1>5, <1>6, <1>7

(* The sizes of the core of an operation.                                   *)
LEMMA CoreSizes ==
  ASSUME layer \in Layer
  PROVE  /\ Core.dim \in Positive /\ Precision \in Positive /\ Core.req \in Positive /\ Core.req >= Precision
         /\ Core.cores \in Positive /\ Core.spad \in Nat /\ Core.acc \in Nat
BY LayerKind DEF CoreConfig, Core, Precision, Positive

(* A tile that the counter of a loop reaches starts inside of the loop.     *)
LEMMA StartInside ==
  ASSUME NEW x \in Positive, NEW n \in Positive, NEW a \in Nat, a < CeilDiv(x, n)
  PROVE  a * n \in Nat /\ a * n < x
<1>1. PICK c \in Positive : c = CeilDiv(x, n) /\ (c - 1) * n < x
  BY CeilDivBounds
<1>2. a <= c - 1
  BY <1>1 DEF Positive
<1>3. a * n <= (c - 1) * n /\ a * n \in Nat /\ (c - 1) * n \in Int
  BY <1>1, <1>2 DEF Positive
<1> QED BY <1>1, <1>3 DEF Positive

(* The same for the loops of a product.                                     *)
LEMMA OuterStartInside ==
  ASSUME NEW x \in Positive, NEW n \in Positive, NEW a \in Nat, a < Outer(x, n)
  PROVE  a * n \in Nat /\ a * n < x
<1>1. CeilDiv(x, n) \in Positive
  BY CeilDivBounds
<1>2. Outer(x, n) = CeilDiv(x, n)
  BY <1>1 DEF Outer, AtLeast, Positive
<1> QED BY <1>2, StartInside

(* No size of a mapping is zero.                                            *)
LEMMA MappingPositive ==
  ASSUME NEW g, Product(g)
  PROVE  /\ Mapping(g).inN \in Positive /\ Mapping(g).outN = Outer(g.N, Mapping(g).inN) /\ Mapping(g).outN \in Positive
         /\ Mapping(g).inC \in Positive /\ Mapping(g).outC = Outer(g.C, Mapping(g).inC) /\ Mapping(g).outC \in Positive
         /\ Mapping(g).inM \in Positive /\ Mapping(g).outM = Outer(g.M, Mapping(g).inM) /\ Mapping(g).outM \in Positive
<1>1. g.N \in Positive /\ g.C \in Positive /\ g.M \in Positive /\ g.core.dim \in Positive
  BY DEF Product
<1>2. InnerN(g) \in Positive /\ InnerC(g) \in Positive /\ InnerM(g) \in Positive
  BY <1>1, CutsPositive, InnerPositive DEF InnerN, InnerC, InnerM
<1>3. Outer(g.N, InnerN(g)) \in Positive /\ Outer(g.C, InnerC(g)) \in Positive /\ Outer(g.M, InnerM(g)) \in Positive
  BY <1>1, <1>2, OuterBounds
<1> QED BY <1>2, <1>3 DEF Mapping

-----------------------------------------------------------------------------
(* What no code checks of an operation: a head of an attention with one     *)
(* query fits beside a key and a value, a row beside the other operand, a   *)
(* tile of one element of a convolution, whose windows reach the input.     *)
AttentionHasRoom ==
  /\ layer.kvHeads <= layer.heads
  /\ Attention!QueryBytes < SpadHalf /\ AccHalf > 0
  /\ Attention!TilesPerHead <= 1 => Attention!LogitsThatFit >= 1
RowHasRoom == 2 * Row!RowBytes <= SpadHalf
ConvHasRoom ==
  /\ UnitTileFits
  /\ 2 * layer.padding < layer.K
  /\ layer.K = 1 \/ (layer.stride <= layer.K \div 2 + 1 /\ layer.stride <= layer.H /\ layer.stride <= layer.W)
  /\ Core.dim * Core.dim >= Core.req
HasRoom ==
  /\ layer.op = "attention" => AttentionHasRoom
  /\ layer.op \in {"skipnorm", "softmax", "biasgelu", "biasact"} => RowHasRoom
  /\ layer.op = "conv" => ConvHasRoom

(* Nor that the input of a tile of a convolution takes a request, so that   *)
(* its weights do not start at the same place.                              *)
WeightsApart == layer.op = "conv" /\ Looping => Conv!WeightBase >= Core.req

(* The counters of all loops but the outermost stay inside of them.         *)
Counting ==
  /\ at \in [1 .. Len(Loops) -> Nat]
  /\ \A k \in 2 .. Len(Loops) : at[k] < Loops[k]
FinalMapping == IF layer.op = "conv" THEN FoundMapping ELSE FirstMapping
TilesInv ==
  /\ layer \in Layer
  /\ HasRoom =>
       /\ SearchInv
       /\ search = "done" => mapping = FinalMapping
       /\ at # <<>> => search = "done" /\ Counting

-----------------------------------------------------------------------------
(* The loops and the tiles of a matrix product.                             *)
LEMMA GemmMapped ==
  ASSUME layer \in Layer, layer.op = "gemm", mapping = FirstMapping
  PROVE  /\ Loops = <<mapping.outN, mapping.outM, mapping.outC>>
         /\ layer.N \in Positive /\ layer.C \in Positive /\ layer.M \in Positive
         /\ mapping.inN \in Positive /\ mapping.outN = Outer(layer.N, mapping.inN) /\ mapping.outN \in Positive
         /\ mapping.inC \in Positive /\ mapping.outC = Outer(layer.C, mapping.inC) /\ mapping.outC \in Positive
         /\ mapping.inM \in Positive /\ mapping.outM = Outer(layer.M, mapping.inM) /\ mapping.outM \in Positive
<1>1. layer \in ProductKind /\ layer.core \in CoreConfig
  BY LayerKind
<1>2. layer.N \in Positive /\ layer.C \in Positive /\ layer.M \in Positive
  BY <1>1 DEF ProductKind
<1>3. Product(layer)
  BY <1>1, <1>2 DEF Product, CoreConfig, Positive
<1>4. mapping = Mapping(layer)
  BY DEF FirstMapping
<1> QED BY <1>2, <1>3, <1>4, MappingPositive DEF Loops, Gemm!Loops

(* What the loops reach is a tile of the product.                           *)
LEMMA GemmIsTile ==
  ASSUME layer \in Layer, layer.op = "gemm", mapping = FirstMapping, Counting, at[1] < Loops[1]
  PROVE  GemmTile
<1>1. Len(Loops) = 3 /\ Loops[1] = mapping.outN /\ Loops[2] = mapping.outM /\ Loops[3] = mapping.outC
  BY GemmMapped
<1>2. at[1] \in Nat /\ at[2] \in Nat /\ at[3] \in Nat /\ at[2] < mapping.outM /\ at[3] < mapping.outC
  BY <1>1 DEF Counting
<1>3. at[1] * mapping.inN \in Nat /\ at[1] * mapping.inN < layer.N
  BY <1>1, <1>2, GemmMapped, OuterStartInside
<1>4. at[2] * mapping.inM \in Nat /\ at[2] * mapping.inM < layer.M
  BY <1>2, GemmMapped, OuterStartInside
<1>5. at[3] * mapping.inC \in Nat /\ at[3] * mapping.inC < layer.C
  BY <1>2, GemmMapped, OuterStartInside
<1> QED BY <1>3, <1>4, <1>5, CoreSizes, GemmMapped DEF GemmTile, Gemm!NOffset, Gemm!MOffset, Gemm!COffset

-----------------------------------------------------------------------------
(* Those of the attention of a node of an ONNX graph.                       *)
LEMMA SelfAttentionMapped ==
  ASSUME layer \in Layer, layer.op = "selfattention"
  PROVE  /\ Loops = <<layer.batch, layer.heads>>
         /\ layer.q \in Positive /\ layer.seq \in Positive /\ layer.dk \in Positive /\ layer.heads \in Positive
<1>1. layer \in SelfAttentionKind
  BY LayerKind
<1> QED BY <1>1 DEF Loops, SelfAttention!Loops, SelfAttentionKind

(* What the loops reach is a head of a request.                             *)
LEMMA SelfAttentionIsTile ==
  ASSUME layer \in Layer, layer.op = "selfattention", Counting
  PROVE  SelfAttentionTile
<1>1. Len(Loops) = 2 /\ Loops[2] = layer.heads
  BY SelfAttentionMapped
<1>2. at[2] \in Nat /\ at[2] < layer.heads
  BY <1>1 DEF Counting
<1> QED BY <1>2, CoreSizes, SelfAttentionMapped DEF SelfAttentionTile

-----------------------------------------------------------------------------
(* Those of the operations on rows and elements.                            *)
LEMMA AtMostPositive == ASSUME NEW a \in Positive, NEW b \in Positive PROVE Row!AtMost(a, b) \in Positive
BY DEF Row!AtMost

(* The operations on rows round up as the mapping of a product does.        *)
LEMMA RowCeilDiv == \A a, b : Row!CeilDiv(a, b) = CeilDiv(a, b)
BY DEF CeilDiv, Row!CeilDiv

(* A quotient that is raised to one takes no more than its dividend.        *)
LEMMA AtLeastQuotient ==
  ASSUME NEW k \in Nat, NEW a \in Nat, NEW b \in Positive, k * b <= a
  PROVE  a \div b \in Nat /\ a \div b >= k
<1> DEFINE q == a \div b
           r == a % b
<1>1. q \in Int /\ r \in 0 .. b - 1 /\ a = b * q + r
  BY DEF Positive
<1> HIDE DEF q, r
<1>2. ~(q + 1 <= k)
  <2>1. SUFFICES ASSUME q + 1 <= k PROVE FALSE
    OBVIOUS
  <2>2. (q + 1) * b <= k * b
    BY <2>1, <1>1 DEF Positive
  <2>3. (q + 1) * b = b * q + b /\ b * q \in Int /\ k * b \in Int
    BY <1>1 DEF Positive
  <2> QED BY <2>2, <2>3, <1>1 DEF Positive
<1>3. q >= k
  BY <1>1, <1>2
<1> QED BY <1>1, <1>3 DEF q

(* The part of the rows, or of the elements, that a tile takes.             *)
LEMMA RowPart ==
  ASSUME layer \in Layer, layer \in RowKind, HasRoom, mapping = FirstMapping
  PROVE  mapping.part \in Positive
<1>1. /\ layer.seq \in Positive /\ layer.dk \in Positive
      /\ layer.op \in {"skipnorm", "softmax", "biasgelu", "biasact", "unary", "binary", "shape"}
  BY DEF RowKind
<1>2. PICK p \in Positive, c \in Positive, s \in Nat : p = Row!Precision /\ c = Row!Core.cores /\ s = Row!Core.spad
  BY CoreSizes DEF Row!Precision, Row!Core, Core, Precision
<1>3. mapping.part = Row!RowMapping.part
  BY <1>1 DEF FirstMapping
<1>4. PICK half \in Nat : half = Row!SpadHalf /\ half = SpadHalf
  BY <1>2 DEF Row!SpadHalf, SpadHalf, Row!Core, Core
<1>5. PICK row \in Positive : row = Row!RowBytes
  <2>1. layer.dk * p \in Positive
    BY <1>1, ProductPositive
  <2> QED BY <1>2, <2>1 DEF Row!RowBytes
<1>6. CASE layer.op \in {"skipnorm", "softmax", "biasgelu", "biasact"}
  <2>1. 2 * row <= half
    BY <1>4, <1>5, <1>6 DEF HasRoom, RowHasRoom
  <2>2. half \div (2 * row) \in Positive
    <3>1. 2 * row \in Positive /\ 1 * (2 * row) <= half
      BY <2>1 DEF Positive
    <3>2. half \div (2 * row) \in Nat /\ half \div (2 * row) >= 1
      BY <3>1, AtLeastQuotient
    <3> QED BY <3>2 DEF Positive
  <2>3. half \div row - 1 \in Positive
    <3>1. half \div row \in Nat /\ half \div row >= 2
      BY <2>1, AtLeastQuotient
    <3> QED BY <3>1 DEF Positive
  <2>4. ASSUME NEW n \in Positive PROVE Row!ForAllCores(n) \in Positive
    <3>1. 2 * c \in Positive
      BY DEF Positive
    <3>2. CeilDiv(layer.seq, 2 * c) \in Positive
      BY <1>1, <3>1, CeilDivBounds
    <3> QED BY <1>2, <3>2, RowCeilDiv DEF Row!ForAllCores
  <2>5. Row!AtMost(Row!SpadHalf \div (2 * Row!RowBytes), layer.seq) \in Positive
    BY <1>1, <1>4, <1>5, <2>2, AtMostPositive
  <2>6. Row!RowsBesideBias \in Positive
    <3>1. Row!Unsigned(half \div row - 1) = half \div row - 1
      BY <2>3 DEF Row!Unsigned, Positive
    <3> QED BY <1>1, <1>4, <1>5, <2>3, <3>1, AtMostPositive DEF Row!RowsBesideBias
  <2>7. Row!SkipLayerNormRows \in Positive /\ Row!SoftmaxRows \in Positive
    BY <2>4, <2>5 DEF Row!SkipLayerNormRows, Row!SoftmaxRows
  <2>8. Row!BiasGeluRows \in Positive /\ Row!BiasActRows \in Positive
    BY <2>4, <2>6 DEF Row!BiasGeluRows, Row!BiasActRows
  <2> QED BY <1>3, <1>6, <2>7, <2>8 DEF Row!RowMapping
<1>7. CASE layer.op \in {"unary", "binary", "shape"}
  <2>1. \A n \in Int : Row!AtLeast(1, n) \in Positive
    BY DEF Row!AtLeast, Positive
  <2>2. Row!SpadHalf \div Row!Precision \in Int /\ ((Row!Core.spad * 1024) \div 3) \div Row!Precision \in Int
    BY <1>2, <1>4 DEF Positive
  <2>3. Row!UnaryElements \in Positive /\ Row!BinaryElements \in Positive
    BY <1>1, <2>1, <2>2, RowLength, AtMostPositive DEF Row!UnaryElements, Row!BinaryElements
  <2> QED BY <1>3, <1>7, <2>3 DEF Row!RowMapping, Row!ShapeElements
<1> QED BY <1>1, <1>6, <1>7

(* The mapping and the one loop of an operation on rows.                    *)
LEMMA RowMapped ==
  ASSUME layer \in Layer, layer \in RowKind
  PROVE  Loops = <<Row!CeilDiv(Row!Length, mapping.part)>> /\ Program = Row!Program /\ Row!Length \in Positive
<1>1. layer.op \in {"skipnorm", "softmax", "biasgelu", "biasact", "unary", "binary", "shape"}
  BY DEF RowKind
<1>2. Row!Length \in Positive
  BY RowLength
<1>3. Loops = Row!Loops /\ Program = Row!Program
  BY <1>1 DEF Loops, Program
<1> QED BY <1>2, <1>3 DEF Row!Loops

(* What the loop reaches is a tile of the operation.                        *)
LEMMA RowIsTile ==
  ASSUME layer \in Layer, layer \in RowKind, HasRoom, mapping = FirstMapping, Counting, at[1] < Loops[1]
  PROVE  RowTile
<1>1. PICK x \in Positive, n \in Positive : x = Row!Length /\ n = mapping.part
  BY RowMapped, RowPart
<1>2. Len(Loops) = 1 /\ Loops[1] = CeilDiv(x, n)
  BY <1>1, RowMapped, RowCeilDiv
<1>3. PICK a \in Nat : a = at[1] /\ a < CeilDiv(x, n)
  BY <1>2 DEF Counting
<1>4. a * n \in Nat /\ a * n < x
  BY <1>3, StartInside
<1>5. Row!First = a * n
  BY <1>1, <1>3 DEF Row!First
<1>6. Row!Part \in Positive
  <2>1. x - a * n \in Positive
    BY <1>4 DEF Positive
  <2> QED BY <1>1, <1>5, <2>1, AtMostPositive DEF Row!Part
<1> QED BY <1>4, <1>5, <1>6, LayerKind DEF RowTile

-----------------------------------------------------------------------------
(* Those of a convolution.                                                  *)
LEMMA ExactQuotient == ASSUME NEW c \in Positive, NEW v \in Positive PROVE (c * v) \div v = c
<1> DEFINE q == (c * v) \div v
           r == (c * v) % v
<1>1. c * v \in Int /\ q \in Int /\ r \in 0 .. v - 1 /\ c * v = v * q + r
  BY DEF Positive
<1> HIDE DEF q, r
<1>2. v * q = q * v /\ q * v \in Int
  BY <1>1 DEF Positive
<1>3. ~(q + 1 <= c)
  <2>1. SUFFICES ASSUME q + 1 <= c PROVE FALSE
    OBVIOUS
  <2>2. (q + 1) * v <= c * v /\ (q + 1) * v = q * v + v
    BY <2>1, <1>1 DEF Positive
  <2> QED BY <2>2, <1>1, <1>2 DEF Positive
<1>4. ~(c + 1 <= q)
  <2>1. SUFFICES ASSUME c + 1 <= q PROVE FALSE
    OBVIOUS
  <2>2. (c + 1) * v <= q * v /\ (c + 1) * v = c * v + v
    BY <2>1, <1>1 DEF Positive
  <2> QED BY <2>2, <1>1, <1>2 DEF Positive
<1>5. q = c
  BY <1>1, <1>3, <1>4 DEF Positive
<1> QED BY <1>5 DEF q

(* A tile that starts inside of the output reads at least one row of the    *)
(* input, or one column.                                                    *)
LEMMA WindowReaches ==
  ASSUME NEW off \in Nat, NEW in \in Positive, NEW K \in Positive, NEW s \in Positive, NEW p \in Nat, NEW size \in Positive,
         off < (size + 2 * p - K) \div s + 1, 2 * p < K, K = 1 \/ (s <= K \div 2 + 1 /\ s <= size)
  PROVE  \E k \in 0 .. ((in - 1) * s + K) - 1 : k % s = 0 /\ off - (K - 1) \div 2 + k \in 0 .. size - 1
<1>1. PICK h \in Nat : h = (K - 1) \div 2 /\ 2 * h <= K - 1 /\ K - 1 <= 2 * h + 1
  <2>1. K - 1 \in Nat
    BY DEF Positive
  <2> QED BY <2>1
<1>2. PICK e \in Nat : e = (in - 1) * s
  BY DEF Positive
<1>3. off <= size - 1
  <2> DEFINE a == size + 2 * p - K
             q == a \div s
             r == a % s
  <2>1. a \in Int /\ q \in Int /\ r \in 0 .. s - 1 /\ a = s * q + r
    BY DEF Positive
  <2>2. off <= q /\ a <= size - 1
    BY <2>1 DEF Positive
  <2> HIDE DEF a, q, r
  <2>3. q \in Nat /\ q <= s * q
    BY <2>1, <2>2 DEF Positive
  <2>4. s * q <= a
    <3>1. s * q \in Int
      BY <2>3 DEF Positive
    <3> QED BY <2>1, <3>1 DEF Positive
  <2>5. s * q \in Int
    BY <2>3 DEF Positive
  <2> QED BY <2>1, <2>2, <2>3, <2>4, <2>5 DEF Positive
<1>4. CASE h <= off
  <2>1. 0 \in 0 .. (e + K) - 1 /\ 0 % s = 0 /\ off - h + 0 \in 0 .. size - 1
    BY <1>1, <1>3, <1>4 DEF Positive
  <2> QED BY <1>1, <1>2, <2>1
<1>5. CASE off < h
  <2>1. h - off \in Positive /\ K # 1
    BY <1>1, <1>5 DEF Positive
  <2>2. PICK c \in Positive : c = CeilDiv(h - off, s) /\ (c - 1) * s < h - off /\ h - off <= c * s
    BY <2>1, CeilDivBounds
  <2>3. PICK k \in Nat : k = c * s /\ h - off <= k /\ k < h - off + s
    <3>1. c * s \in Nat /\ (c - 1) * s = c * s - s
      BY DEF Positive
    <3> QED BY <2>2, <3>1 DEF Positive
  <2>4. s <= K \div 2 + 1 /\ s <= size /\ h + K \div 2 <= K - 1
    <3>1. PICK g \in Nat : g = K \div 2 /\ 2 * g <= K
      <4>1. K \in Nat
        BY DEF Positive
      <4> QED BY <4>1
    <3>2. 2 * h <= K - 1 /\ K \in Nat
      BY <1>1 DEF Positive
    <3>3. h + g <= K - 1
      BY ONLY <3>1, <3>2, h \in Nat
    <3> QED BY <2>1, <3>1, <3>3
  <2>5. k \in 0 .. (e + K) - 1
    BY <1>2, <2>3, <2>4 DEF Positive
  <2>6. off - h + k \in 0 .. size - 1
    BY <2>3, <2>4 DEF Positive
  <2>7. k % s = 0
    <3>1. PICK q \in Int, r \in 0 .. s - 1 : q = k \div s /\ r = k % s /\ k = s * q + r
      BY DEF Positive
    <3>2. q = c
      BY <2>3, <3>1, ExactQuotient
    <3>3. s * q = c * s /\ s * q \in Int
      BY <3>2 DEF Positive
    <3> QED BY <2>3, <3>1, <3>3
  <2> QED BY <1>1, <1>2, <2>5, <2>6, <2>7
<1> QED BY <1>1, <1>4, <1>5

(* The mapping that the search has found.                                   *)
LEMMA ConvMapped ==
  ASSUME layer \in Layer, layer.op = "conv", SearchInv, mapping = FoundMapping
  PROVE  /\ DOMAIN mapping.in = ConvDims
         /\ \A d \in ConvDims :
              /\ Conv!In(d) \in Positive /\ Conv!Total(d) \in Positive
              /\ mapping.out[d] = CeilDiv(Conv!Total(d), Conv!In(d)) /\ mapping.out[d] \in Positive
         /\ Conv!Total("Q") = layer.P /\ Conv!Total("P") = layer.P
<1>1. /\ layer.N \in Positive /\ layer.P \in Positive /\ layer.M \in Positive /\ layer.K \in Positive
      /\ layer.C \in Positive
  BY ConvFacts DEF ConvKind
<1>2. PICK a : a = args /\ \A i \in 1 .. 7 : a[i] \in Positive
  BY DEF SearchInv, Sizes
<1> DEFINE in == [N |-> a[1], C |-> a[7], M |-> a[4], S |-> a[5], R |-> a[6], Q |-> a[3], P |-> a[2]]
           total == [N |-> layer.N, C |-> layer.C, M |-> layer.M, S |-> layer.K, R |-> layer.K, Q |-> layer.P,
                     P |-> layer.P]
<1>3. mapping = [total |-> total, in |-> in, out |-> [d \in DOMAIN total |-> CeilDiv(total[d], in[d])]]
  BY <1>2 DEF FoundMapping, ConvLoops, MaxArgs, Batch, Rows, Columns, OutChannels, KernelRows, KernelColumns, InChannels
<1>4. DOMAIN total = ConvDims /\ DOMAIN in = ConvDims
  BY DEF ConvDims
<1>5. \A d \in ConvDims : total[d] \in Positive /\ in[d] \in Positive
  <2>1. /\ total["N"] \in Positive /\ total["C"] \in Positive /\ total["M"] \in Positive /\ total["S"] \in Positive
        /\ total["R"] \in Positive /\ total["Q"] \in Positive /\ total["P"] \in Positive
    BY <1>1
  <2>2. /\ in["N"] \in Positive /\ in["C"] \in Positive /\ in["M"] \in Positive /\ in["S"] \in Positive
        /\ in["R"] \in Positive /\ in["Q"] \in Positive /\ in["P"] \in Positive
    BY <1>2
  <2> HIDE DEF in, total
  <2> QED BY <2>1, <2>2 DEF ConvDims
<1>6. total["Q"] = layer.P /\ total["P"] = layer.P
  OBVIOUS
<1> HIDE DEF in, total
<1>7. \A d \in ConvDims : mapping.out[d] = CeilDiv(total[d], in[d]) /\ mapping.out[d] \in Positive
  <2> SUFFICES ASSUME NEW d \in ConvDims
               PROVE  mapping.out[d] = CeilDiv(total[d], in[d]) /\ mapping.out[d] \in Positive
    OBVIOUS
  <2>1. mapping.out[d] = CeilDiv(total[d], in[d])
    BY <1>3, <1>4
  <2>2. CeilDiv(total[d], in[d]) \in Positive
    BY <1>5, CeilDivBounds
  <2> QED BY <2>1, <2>2
<1>8. \A d \in ConvDims : Conv!Total(d) = total[d] /\ Conv!In(d) = in[d]
  BY <1>3 DEF Conv!Total, Conv!In
<1>9. "Q" \in ConvDims /\ "P" \in ConvDims
  BY DEF ConvDims
<1> QED BY <1>3, <1>4, <1>5, <1>6, <1>7, <1>8, <1>9

(* The seven loops of a convolution and their counters.                     *)
LEMMA ConvLoopsType ==
  ASSUME layer \in Layer, layer.op = "conv", SearchInv, mapping = FoundMapping
  PROVE  /\ Len(Loops) = 7 /\ \A k \in 1 .. 7 : Loops[k] \in Positive
         /\ \A d \in ConvDims : \E k \in 1 .. 7 : Loops[k] = mapping.out[d] /\ Conv!Counter(d) = at[k]
<1>1. Loops = [k \in 1 .. 7 |-> mapping.out[Conv!Order[k]]]
  BY DEF Loops, Conv!Loops
<1>2. \A k \in 1 .. 7 : Conv!Order[k] \in ConvDims
  BY DEF Conv!Order, ConvDims
<1>3. \A d \in ConvDims : \E k \in 1 .. 7 : Conv!Order[k] = d
  BY DEF Conv!Order, ConvDims
<1>4. ASSUME NEW d \in ConvDims PROVE \E k \in 1 .. 7 : Loops[k] = mapping.out[d] /\ Conv!Counter(d) = at[k]
  <2> DEFINE k == CHOOSE j \in 1 .. 7 : Conv!Order[j] = d
  <2>1. k \in 1 .. 7 /\ Conv!Order[k] = d
    BY <1>3
  <2>2. Conv!Counter(d) = at[k]
    BY DEF Conv!Counter
  <2> HIDE DEF k
  <2> QED BY <1>1, <2>1, <2>2
<1>5. \A k \in 1 .. 7 : Loops[k] \in Positive
  BY <1>1, <1>2, ConvMapped
<1>6. Len(Loops) = 7
  BY <1>1
<1> QED BY <1>4, <1>5, <1>6

(* What the loops reach is a tile of the convolution.                       *)
LEMMA ConvIsTile ==
  ASSUME layer \in Layer, layer.op = "conv", HasRoom, WeightsApart, SearchInv, mapping = FoundMapping,
         Counting, Looping
  PROVE  ConvTile
<1>1. PICK K \in Positive, s \in Positive, p \in Nat, H \in Positive, W \in Positive, out \in Positive :
        /\ K = layer.K /\ s = layer.stride /\ p = layer.padding /\ H = layer.H /\ W = layer.W /\ out = layer.P
  BY ConvFacts DEF ConvKind
<1>2. out = (W + 2 * p - K) \div s + 1 /\ out = (H + 2 * p - K) \div s + 1
  BY <1>1, LayerAssumption DEF OutSize
<1>3. ConvHasRoom
  BY DEF HasRoom
<1>4. ASSUME NEW d \in ConvDims
      PROVE  Conv!In(d) \in Positive /\ Conv!Total(d) \in Positive /\ Conv!Offset(d) \in Nat /\ Conv!Offset(d) < Conv!Total(d)
  <2>1. PICK tot \in Positive, in \in Positive :
          tot = Conv!Total(d) /\ in = Conv!In(d) /\ mapping.out[d] = CeilDiv(tot, in)
    BY ConvMapped
  <2>2. PICK k \in 1 .. 7 : Loops[k] = mapping.out[d] /\ Conv!Counter(d) = at[k]
    BY ConvLoopsType
  <2>3. at[k] \in Nat /\ at[k] < Loops[k]
    <3>1. Len(Loops) = 7 /\ (k = 1 \/ k \in 2 .. 7)
      BY ConvLoopsType
    <3> QED BY <3>1 DEF Counting, Looping
  <2>4. PICK a \in Nat : a = Conv!Counter(d) /\ a < CeilDiv(tot, in)
    BY <2>1, <2>2, <2>3
  <2>5. a * in \in Nat /\ a * in < tot
    BY <2>4, StartInside
  <2> QED BY <2>1, <2>4, <2>5 DEF Conv!Offset
<1>5. ASSUME NEW d \in {"Q", "P"}, NEW size \in Positive, out = (size + 2 * p - K) \div s + 1, K = 1 \/ s <= size
      PROVE  Conv!Window(d, size) # {}
  <2>1. PICK off \in Nat, in \in Positive : off = Conv!Offset(d) /\ in = Conv!In(d) /\ off < out
    <3>1. d \in ConvDims /\ Conv!Total(d) = out
      BY <1>1, ConvMapped DEF ConvDims
    <3> QED BY <1>4, <3>1
  <2>2. 2 * p < K /\ (K = 1 \/ (s <= K \div 2 + 1 /\ s <= size))
    BY <1>1, <1>3, <1>5 DEF ConvHasRoom
  <2>3. PICK k \in 0 .. ((in - 1) * s + K) - 1 : k % s = 0 /\ off - (K - 1) \div 2 + k \in 0 .. size - 1
    BY <1>5, <2>1, <2>2, WindowReaches
  <2>4. Conv!Extent(d) = (in - 1) * s + K
    BY <1>1, <2>1 DEF Conv!Extent
  <2> DEFINE v == off - (K - 1) \div 2 + k
             ks == {j \in 0 .. Conv!Extent(d) - 1 : j % s = 0}
  <2>5. Conv!Window(d, size) = {off - (K - 1) \div 2 + j : j \in ks} \cap (0 .. size - 1)
    BY <1>1, <2>1 DEF Conv!Window
  <2>6. k \in ks
    BY <2>3, <2>4
  <2> HIDE DEF ks
  <2> QED BY <2>3, <2>5, <2>6
<1>6. Conv!Window("Q", layer.H) # {} /\ Conv!Window("P", layer.W) # {}
  <2>1. K = 1 \/ (s <= H /\ s <= W)
    BY <1>1, <1>3 DEF ConvHasRoom
  <2> QED BY <1>1, <1>2, <1>5, <2>1
<1>7. Conv!WeightBase \in Nat
  <2>1. PICK n \in Positive, c \in Positive, q \in Positive, u \in Positive :
          n = Conv!In("N") /\ c = Conv!In("C") /\ q = Conv!In("Q") /\ u = Conv!In("P")
    BY <1>4 DEF ConvDims
  <2>2. \A x \in Positive : (x - 1) * s + K \in Positive
    <3> SUFFICES ASSUME NEW x \in Positive PROVE (x - 1) * s + K \in Positive
      OBVIOUS
    <3>1. (x - 1) * s \in Nat
      BY DEF Positive
    <3> QED BY <3>1 DEF Positive
  <2>3. PICK y \in Positive, z \in Positive : y = Conv!Extent("Q") /\ z = Conv!Extent("P")
    BY <1>1, <2>1, <2>2 DEF Conv!Extent
  <2>4. PICK e \in Positive : e = Conv!Precision
    BY CoreSizes DEF Conv!Precision, Conv!Core, Core, Precision
  <2>5. n * y * z * c * e \in Nat
    <3>1. n * y \in Positive
      BY ProductPositive
    <3>2. n * y * z \in Positive
      BY <3>1, ProductPositive
    <3>3. n * y * z * c \in Positive
      BY <3>2, ProductPositive
    <3>4. n * y * z * c * e \in Positive
      BY <3>3, ProductPositive
    <3> QED BY <3>4 DEF Positive
  <2> QED BY <2>1, <2>3, <2>4, <2>5 DEF Conv!WeightBase
<1>8. DOMAIN mapping.in = ConvDims
  BY ConvMapped
<1> QED BY <1>1, <1>3, <1>4, <1>6, <1>7, <1>8, CoreSizes DEF ConvTile, ConvHasRoom, WeightsApart

-----------------------------------------------------------------------------
(* Those of a fused attention.                                              *)
LEMMA OneOfAll == ASSUME NEW n \in Positive PROVE CeilDiv(n, 1) = n /\ CeilDiv(n, n) = 1
<1>1. CeilDiv(n, 1) = n
  BY DEF CeilDiv, Positive
<1>2. PICK c \in Positive : c = CeilDiv(n, n) /\ (c - 1) * n < n
  BY CeilDivBounds
<1>3. ~(c >= 2)
  <2>1. SUFFICES ASSUME c >= 2 PROVE FALSE
    OBVIOUS
  <2>2. (c - 1) * n >= 1 * n /\ 1 * n = n /\ (c - 1) * n \in Int
    BY <2>1 DEF Positive
  <2> QED BY <2>2, <1>2 DEF Positive
<1> QED BY <1>1, <1>2, <1>3 DEF Positive

(* The mapping of a fused attention and its two loops.                      *)
LEMMA AttentionMapped ==
  ASSUME layer \in Layer, layer.op = "attention", HasRoom, mapping = FirstMapping
  PROVE  /\ Loops = <<mapping.outN, mapping.outM>>
         /\ layer.q \in Positive /\ layer.seq \in Positive /\ layer.dk \in Positive /\ layer.kvHeads \in Positive
         /\ Attention!HeadsPerKV \in Positive
         /\ mapping.queries \in Positive /\ mapping.keys \in Positive
         /\ mapping.outN = CeilDiv(layer.q, mapping.queries) * layer.kvHeads
         /\ mapping.outM = CeilDiv(layer.seq, mapping.keys)
<1>1. /\ layer.q \in Positive /\ layer.seq \in Positive /\ layer.dk \in Positive /\ layer.kvHeads \in Positive
      /\ layer.heads \in Positive
  BY LayerKind DEF AttentionKind
<1>2. AttentionHasRoom
  BY DEF HasRoom
<1>3. mapping = Attention!AttentionMapping
  BY DEF FirstMapping
<1>4. PICK H \in Positive : H = Attention!HeadsPerKV
  <2>1. PICK a \in Positive, b \in Positive : a = layer.heads /\ b = layer.kvHeads /\ 1 * b <= a
    BY <1>1, <1>2 DEF AttentionHasRoom, Positive
  <2>2. a \div b \in Nat /\ a \div b >= 1
    BY <2>1, AtLeastQuotient DEF Positive
  <2> QED BY <2>1, <2>2 DEF Attention!HeadsPerKV, Positive
<1>5. PICK p \in Positive : p = Attention!Precision
  BY CoreSizes DEF Attention!Precision, Attention!Core, Core, Precision
<1>6. PICK query \in Positive : query = Attention!QueryBytes
  <2>1. (H * layer.dk) * p \in Positive
    BY <1>1, ProductPositive
  <2> QED BY <1>4, <1>5, <2>1 DEF Attention!QueryBytes
<1>7. PICK key \in Positive : key = Attention!KeyBytes(layer.seq)
  <2>1. (layer.seq * layer.dk) * p \in Positive
    BY <1>1, ProductPositive
  <2> QED BY <1>5, <2>1 DEF Attention!KeyBytes
<1>8. PICK spad \in Nat, acc \in Nat : spad = SpadHalf /\ acc = AccHalf /\ spad = Attention!SpadHalf /\ acc = Attention!AccHalf
  BY CoreSizes DEF SpadHalf, AccHalf, Attention!SpadHalf, Attention!AccHalf, Core, Attention!Core
<1>9. query < spad /\ acc > 0
  BY <1>2, <1>6, <1>8 DEF AttentionHasRoom
<1>10. spad - query \in Positive /\ acc \in Positive /\ 2 * key \in Positive /\ layer.seq * p \in Positive
  BY <1>1, <1>9, ProductPositive DEF Positive
<1>11. PICK u \in Positive, w \in Positive :
         /\ u = CeilDiv(layer.seq * p, acc)
         /\ w = CeilDiv(2 * key, spad - query) /\ 2 * key <= w * (spad - query)
  BY <1>10, CeilDivBounds
<1>12. PICK t \in Positive : t = Attention!TilesPerHead /\ w <= t
  <2>1. Attention!Unsigned(spad - query) = spad - query
    BY <1>10 DEF Attention!Unsigned, Positive
  <2>2. Attention!TilesPerHead = Attention!AtLeast(u, w)
    BY <1>5, <1>6, <1>7, <1>8, <1>11, <2>1, AttentionCeilDiv DEF Attention!TilesPerHead
  <2> QED BY <2>2 DEF Attention!AtLeast, Positive
<1>13. CASE t > 1
  <2>1. PICK part \in Positive : part = CeilDiv(layer.seq, t)
    BY <1>1, CeilDivBounds
  <2>2. mapping = [queries |-> 1, keys |-> part, outN |-> layer.q * layer.kvHeads, outM |-> CeilDiv(layer.seq, part)]
    BY <1>3, <1>12, <1>13, <2>1, AttentionCeilDiv DEF Attention!AttentionMapping
  <2>3. CeilDiv(layer.q, 1) = layer.q /\ 1 \in Positive
    BY <1>1, OneOfAll DEF Positive
  <2>4. Loops = <<mapping.outN, mapping.outM>>
    BY DEF Loops, Attention!Loops
  <2> QED BY <1>1, <1>4, <2>2, <2>3, <2>4
<1>14. CASE ~(t > 1)
  <2>1. Attention!LogitsThatFit >= 1
    BY <1>2, <1>12, <1>14 DEF AttentionHasRoom, Positive
  <2>2. Attention!LogitsThatFit \in Nat
    <3>1. (layer.seq * p + 2 * 4) * H \in Positive
      <4>1. layer.seq * p + 2 * 4 \in Positive
        BY <1>10 DEF Positive
      <4> QED BY <4>1, ProductPositive
    <3> QED BY <1>4, <1>5, <1>8, <3>1, QuotientNat DEF Attention!LogitsThatFit
  <2>3. Attention!QueriesThatFit \in Nat /\ Attention!QueriesThatFit >= 1
    <3>1. w = 1
      BY <1>12, <1>14 DEF Positive
    <3>2. 2 * key <= spad - query
      BY <1>10, <1>11, <3>1 DEF Positive
    <3>3. spad - 2 * key \in Nat /\ 1 * query <= spad - 2 * key
      BY <3>2, <1>10 DEF Positive
    <3>4. (spad - 2 * key) \div query \in Nat /\ (spad - 2 * key) \div query >= 1
      BY <3>3, AtLeastQuotient
    <3> QED BY <3>4, <1>6, <1>7, <1>8 DEF Attention!QueriesThatFit
  <2>4. PICK part \in Positive :
          part = Attention!AtMost(Attention!AtMost(layer.q, Attention!LogitsThatFit), Attention!QueriesThatFit)
    BY <1>1, <2>1, <2>2, <2>3 DEF Attention!AtMost, Positive
  <2>5. mapping = [queries |-> part, keys |-> layer.seq, outN |-> CeilDiv(layer.q, part) * layer.kvHeads, outM |-> 1]
    BY <1>3, <1>12, <1>14, <2>4, AttentionCeilDiv DEF Attention!AttentionMapping
  <2>6. CeilDiv(layer.seq, layer.seq) = 1
    BY <1>1, OneOfAll
  <2>7. Loops = <<mapping.outN, mapping.outM>>
    BY DEF Loops, Attention!Loops
  <2> QED BY <1>1, <1>4, <2>5, <2>6, <2>7
<1> QED BY <1>13, <1>14

(* What the loops reach is a tile of the attention.                         *)
LEMMA AttentionIsTile ==
  ASSUME layer \in Layer, layer.op = "attention", HasRoom, mapping = FirstMapping, Counting, at[1] < Loops[1]
  PROVE  AttentionTile
<1>1. Len(Loops) = 2 /\ Loops[1] = mapping.outN /\ Loops[2] = mapping.outM
  BY AttentionMapped
<1>2. PICK q \in Positive, n \in Positive, v \in Positive, H \in Positive, s \in Positive, keys \in Positive :
        /\ q = layer.q /\ n = mapping.queries /\ v = layer.kvHeads /\ H = Attention!HeadsPerKV
        /\ s = layer.seq /\ keys = mapping.keys
  BY AttentionMapped
<1>3. PICK a \in Nat, b \in Nat : a = at[1] /\ b = at[2] /\ b < CeilDiv(s, keys)
  BY <1>1, <1>2, AttentionMapped DEF Counting
<1>4. b * keys \in Nat /\ b * keys < s
  BY <1>3, StartInside
<1>5. PICK c \in Positive : c = CeilDiv(q, n)
  BY CeilDivBounds
<1>6. Attention!PartsPerHead = c
  <2>1. (c * v) \div v = c
    BY ExactQuotient
  <2> QED BY <1>2, <1>5, <2>1, AttentionMapped DEF Attention!PartsPerHead
<1>7. Attention!FirstHead \in Nat
  <2>1. a \div c \in Nat
    BY DEF Positive
  <2>2. (a \div c) * H \in Nat
    BY <2>1 DEF Positive
  <2> QED BY <1>2, <1>3, <1>6, <2>2 DEF Attention!FirstHead
<1>8. Attention!FirstQuery \in Nat /\ Attention!FirstQuery < q
  <2> DEFINE r == a % c
  <2>1. r \in Nat /\ r < c
    BY DEF Positive
  <2>3. Attention!FirstQuery = r * n
    BY <1>2, <1>3, <1>6 DEF Attention!FirstQuery, Attention!Queries
  <2> HIDE DEF r
  <2>2. r * n \in Nat /\ r * n < q
    BY <1>5, <2>1, StartInside
  <2> QED BY <2>2, <2>3
<1> QED BY <1>2, <1>3, <1>4, <1>7, <1>8, CoreSizes, AttentionMapped DEF AttentionTile

-----------------------------------------------------------------------------
(* The one tile of a Mamba block.                                           *)
LEMMA MambaIsTile == ASSUME layer \in Layer, layer.op = "mamba" PROVE MambaTile
<1>1. layer \in MambaKind
  BY LayerKind
<1> QED BY <1>1, CoreSizes DEF MambaTile, MambaKind

-----------------------------------------------------------------------------
(* The loops over the tiles.                                                *)
LEMMA LoopsType ==
  ASSUME layer \in Layer, HasRoom, SearchInv, mapping = FinalMapping
  PROVE  Len(Loops) \in Positive /\ \A k \in 2 .. Len(Loops) : Loops[k] \in Positive
<1>1. /\ 1 \in Positive /\ 2 \in Positive /\ 3 \in Positive /\ 7 \in Positive
      /\ layer.op # "conv" => mapping = FirstMapping
      /\ layer.op = "conv" => mapping = FoundMapping
  BY DEF Positive, FinalMapping
<1>2. CASE layer.op = "gemm"
  <2>1. Len(Loops) = 3 /\ Loops[2] \in Positive /\ Loops[3] \in Positive
    BY <1>1, <1>2, GemmMapped
  <2>2. \A k \in 2 .. 3 : k = 2 \/ k = 3
    OBVIOUS
  <2> QED BY <1>1, <2>1, <2>2
<1>3. CASE layer.op = "attention"
  <2>1. CeilDiv(layer.seq, mapping.keys) \in Positive
    BY <1>1, <1>3, AttentionMapped, CeilDivBounds
  <2>2. Len(Loops) = 2 /\ Loops[2] \in Positive
    BY <1>1, <1>3, <2>1, AttentionMapped
  <2>3. \A k \in 2 .. 2 : k = 2
    OBVIOUS
  <2> QED BY <1>1, <2>2, <2>3
<1>4. CASE layer.op = "selfattention"
  <2>1. Len(Loops) = 2 /\ Loops[2] \in Positive
    BY <1>4, SelfAttentionMapped
  <2>2. \A k \in 2 .. 2 : k = 2
    OBVIOUS
  <2> QED BY <1>1, <2>1, <2>2
<1>5. CASE layer.op = "conv"
  <2>1. Len(Loops) = 7 /\ \A k \in 1 .. 7 : Loops[k] \in Positive
    BY <1>1, <1>5, ConvLoopsType
  <2>2. \A k \in 2 .. 7 : k \in 1 .. 7
    OBVIOUS
  <2> QED BY <1>1, <2>1, <2>2
<1>6. CASE layer.op \notin {"gemm", "attention", "selfattention", "conv"}
  <2>1. Len(Loops) = 1
    <3>1. CASE layer.op = "mamba"
      BY <3>1 DEF Loops, Mamba!Loops
    <3>2. CASE layer.op # "mamba"
      BY <1>6, <3>2, LayerKind, RowMapped
    <3> QED BY <3>1, <3>2
  <2>2. 2 .. 1 = {}
    OBVIOUS
  <2> QED BY <1>1, <2>1, <2>2
<1> QED BY <1>2, <1>3, <1>4, <1>5, <1>6

(* The tile of every iteration runs to its end.                             *)
Waived == IF layer.op = "mamba" THEN Mamba!Parts ELSE {}

(* The tile of every iteration runs to its end.                             *)
LEMMA TileOfIteration ==
  ASSUME layer \in Layer, HasRoom, WeightsApart, SearchInv, mapping = FinalMapping, Counting, Looping
  PROVE  RunsOnCore(Program, Waived)
<1>1. /\ layer.op # "conv" => mapping = FirstMapping
      /\ layer.op = "conv" => mapping = FoundMapping
      /\ at[1] < Loops[1]
  BY DEF FinalMapping, Looping
<1>2. CASE layer.op = "gemm"
  BY <1>1, <1>2, GemmIsTile, GemmRuns DEF Program, Waived
<1>3. CASE layer.op = "attention"
  BY <1>1, <1>3, AttentionIsTile, AttentionRuns DEF Program, Waived
<1>4. CASE layer.op = "selfattention"
  BY <1>4, SelfAttentionIsTile, SelfAttentionRuns DEF Program, Waived
<1>5. CASE layer.op = "mamba"
  BY <1>5, MambaIsTile, MambaRuns DEF Program, Waived
<1>6. CASE layer.op = "conv"
  <2>1. RunsOnCore(Conv!Program, {})
    BY <1>1, <1>6, ConvIsTile, ConvRuns
  <2> QED BY <1>6, <2>1 DEF Program, Waived
<1>7. CASE layer.op \notin {"gemm", "attention", "selfattention", "mamba", "conv"}
  <2>1. layer \in RowKind /\ mapping = FirstMapping
    BY <1>1, <1>7, LayerKind
  <2>2. Program = Row!Program /\ Waived = {}
    BY <1>7, <2>1, RowMapped DEF Waived
  <2> QED BY <1>1, <2>1, <2>2, RowIsTile, RowRuns
<1> QED BY <1>2, <1>3, <1>4, <1>5, <1>6, <1>7

(* What the steps keep is enough for the tile to run.                       *)
LEMMA TilesInvRuns == TilesInv => (HasRoom /\ WeightsApart => TileRuns)
<1> SUFFICES ASSUME TilesInv, HasRoom, WeightsApart, Looping PROVE TileRuns
  BY DEF TileRuns
<1>1. layer \in Layer /\ SearchInv /\ mapping = FinalMapping /\ Counting
  BY DEF TilesInv, Looping
<1> QED BY <1>1, TileOfIteration DEF TileRuns, Waived

-----------------------------------------------------------------------------
(* It holds before the loops begin,                                         *)
LEMMA TilesInit == Init => TilesInv
<1> SUFFICES ASSUME Init PROVE TilesInv
  OBVIOUS
<1>1. SearchInv
  BY SearchInit
<1>2. layer \in Layer /\ at = <<>> /\ mapping = FirstMapping /\ (layer.op = "conv" => search = "shrink")
  BY DEF Init
<1> QED BY <1>1, <1>2 DEF TilesInv, FinalMapping

(* Room, mapping and loops depend on the operation and its mapping only.    *)
LEMMA SameOperation ==
  ASSUME layer' = layer, mapping' = mapping
  PROVE  FirstMapping' = FirstMapping /\ Loops' = Loops
<1>1. Attention!AttentionMapping' = Attention!AttentionMapping
  BY DEF Attention!AttentionMapping, Attention!TilesPerHead, Attention!LogitsThatFit, Attention!QueriesThatFit,
         Attention!HeadsPerKV, Attention!Precision, Attention!Core, Attention!KeyBytes, Attention!QueryBytes,
         Attention!SpadHalf, Attention!AccHalf
<1>2. Row!RowMapping' = Row!RowMapping
  BY DEF Row!RowMapping, Row!SkipLayerNormRows, Row!SoftmaxRows, Row!RowsBesideBias, Row!BiasGeluRows, Row!BiasActRows,
         Row!UnaryElements, Row!ShapeElements, Row!BinaryElements, Row!ForAllCores, Row!SpadHalf, Row!RowBytes,
         Row!Precision, Row!Core, Row!Length, Row!ByElements
<1>3. FirstMapping' = FirstMapping
  BY <1>1, <1>2 DEF FirstMapping
<1>4. Loops' = Loops
  BY DEF Loops, Gemm!Loops, Conv!Loops, Attention!Loops, SelfAttention!Loops, Mamba!Loops, Row!Loops, Row!Length,
         Row!ByElements, Conv!Order
<1> QED BY <1>3, <1>4

(* Whether there is room depends on the operation only.                     *)
LEMMA SameRoom == ASSUME layer' = layer PROVE HasRoom' = HasRoom
BY DEF HasRoom, AttentionHasRoom, RowHasRoom, SpadHalf, AccHalf, Core, Attention!QueryBytes, Attention!TilesPerHead,
       Attention!LogitsThatFit, Attention!HeadsPerKV, Attention!Precision, Attention!Core, Attention!KeyBytes,
       Attention!SpadHalf, Attention!AccHalf, Row!RowBytes, Row!Precision, Row!Core, ConvHasRoom, UnitTileFits,
       FitsRows, SpadRows, AccRows, MaxSpadRows, MaxAccRows, InputSide, Downsample

(* and so does the mapping that the search ends with.                       *)
LEMMA SameFinalMapping ==
  ASSUME layer' = layer, args' = args, layer.op # "conv" => FirstMapping' = FirstMapping
  PROVE  FinalMapping' = FinalMapping
<1>1. FoundMapping' = FoundMapping
  BY DEF FoundMapping, MaxArgs
<1> QED BY <1>1 DEF FinalMapping

(* The counter that goes on is the innermost that can, if one can.          *)
LEMMA InnermostExists ==
  ASSUME NEW n \in Positive, NEW free, free \in [1 .. n -> BOOLEAN]
  PROVE  \E j \in 1 .. n : (free[j] \/ j = 1) /\ \A i \in j + 1 .. n : ~free[i]
<1> DEFINE T == {m \in Nat : m < n /\ (free[n - m] \/ m = n - 1)}
<1>1. n - 1 \in T
  BY DEF Positive
<1>2. PICK m \in T : \A k \in T : m <= k
  <2> HIDE DEF T
  <2>1. T # {}
    BY <1>1
  <2>2. T \subseteq Nat
    BY DEF T
  <2> QED BY <2>1, <2>2, LeastNumber
<1>3. n - m \in 1 .. n /\ (free[n - m] \/ n - m = 1)
  BY <1>2 DEF Positive
<1>4. ASSUME NEW i \in n - m + 1 .. n PROVE ~free[i]
  <2>1. n - i \in Nat /\ n - i < m /\ n - i < n /\ n - (n - i) = i
    BY <1>2 DEF Positive
  <2>2. n - i \notin T
    BY <1>2, <2>1
  <2> QED BY <2>1, <2>2
<1> QED BY <1>3, <1>4

(* It leaves every inner counter inside of its loop.                        *)
LEMMA NextTileCounts ==
  ASSUME Counting, NextTile, Len(Loops) \in Positive, \A k \in 2 .. Len(Loops) : Loops[k] \in Positive
  PROVE  at' \in [1 .. Len(Loops) -> Nat] /\ \A k \in 2 .. Len(Loops) : at'[k] < Loops[k]
<1> DEFINE n == Len(Loops)
           free == [j \in 1 .. n |-> CanAdvance(j)]
           Innermost(j) == (CanAdvance(j) \/ j = 1) /\ \A i \in j + 1 .. Len(at) : ~CanAdvance(i)
           k == CHOOSE j \in 1 .. Len(at) : Innermost(j)
<1>1. at \in [1 .. n -> Nat] /\ n \in Positive /\ at \in Seq(Nat) /\ Len(at) = n
  BY DEF Counting
<1>2. free \in [1 .. n -> BOOLEAN]
  BY DEF CanAdvance
<1>3. PICK j \in 1 .. n : (free[j] \/ j = 1) /\ \A i \in j + 1 .. n : ~free[i]
  <2> HIDE DEF free, n
  <2> QED BY <1>1, <1>2, InnermostExists
<1>4. \A i \in j + 1 .. n : i \in 1 .. n
  BY <1>1
<1>5. Innermost(j)
  BY <1>1, <1>3, <1>4
<1>6. k \in 1 .. n /\ Innermost(k)
  <2> HIDE DEF Innermost
  <2> QED BY <1>1, <1>5
<1>7. at' = [i \in 1 .. n |-> IF i < k THEN at[i] ELSE IF i = k THEN at[i] + 1 ELSE 0]
  BY <1>1 DEF NextTile
<1>8. CanAdvance(k) \/ k = 1
  BY <1>6
<1> HIDE DEF k, n
<1>9. at' \in [1 .. n -> Nat]
  BY <1>1, <1>6, <1>7
<1>10. ASSUME NEW i \in 2 .. n PROVE at'[i] < Loops[i]
  <2>1. i \in 1 .. n /\ at[i] < Loops[i] /\ Loops[i] \in Positive /\ i # 1
    BY <1>1 DEF Counting, n
  <2>2. i = k => at[i] + 1 < Loops[i]
    BY <1>8, <2>1 DEF CanAdvance
  <2> QED BY <1>1, <1>6, <1>7, <2>1, <2>2 DEF Positive
<1> QED BY <1>9, <1>10 DEF n

(* and every step keeps it.                                                 *)
LEMMA TilesNext == TilesInv /\ [Next]_vars => TilesInv'
<1> SUFFICES ASSUME TilesInv, [Next]_vars PROVE TilesInv'
  OBVIOUS
<1>1. layer' = layer
  BY DEF Next, Search, Begin, GenerateTile, Done, vars
<1>2. layer' \in Layer
  BY <1>1 DEF TilesInv
<1>3. HasRoom' = HasRoom
  BY <1>1, SameRoom
<1> SUFFICES ASSUME HasRoom
             PROVE  (SearchInv /\ (search = "done" => mapping = FinalMapping) /\ (at # <<>> => search = "done" /\ Counting))'
  BY <1>2, <1>3 DEF TilesInv
<1>4. layer \in Layer /\ SearchInv /\ (search = "done" => mapping = FinalMapping) /\ (at # <<>> => search = "done" /\ Counting)
  BY DEF TilesInv
<1>5. UnitTileFits
  BY DEF HasRoom, ConvHasRoom, UnitTileFits
<1>6. SearchInv'
  BY <1>4, <1>5, SearchNext
<1>7. CASE Search
  <2>1. search # "done" /\ at' = at
    BY <1>7 DEF Search, SearchStep, Shrink, Widen, Grow, EndPass
  <2>2. at' = <<>>
    BY <1>4, <2>1
  <2>3. layer.op = "conv"
    BY <1>4, <2>1 DEF SearchInv
  <2>4. search' = "done" => mapping' = FoundMapping /\ args' = args
    BY <1>7, <2>1 DEF Search, SearchStep, Shrink, Widen, Grow, EndPass
  <2>5. search' = "done" => mapping' = FinalMapping'
    BY <1>1, <2>3, <2>4, SameFinalMapping DEF FinalMapping
  <2> QED BY <1>6, <2>2, <2>5
<1>8. ASSUME UNCHANGED <<mapping, searchVars>>
      PROVE  Loops' = Loops /\ (search = "done" => mapping' = FinalMapping') /\ search' = search
  <2>1. FirstMapping' = FirstMapping /\ Loops' = Loops
    BY <1>1, <1>8, SameOperation
  <2>2. args' = args /\ search' = search /\ mapping' = mapping
    BY <1>8 DEF searchVars
  <2> QED BY <1>1, <1>4, <2>1, <2>2, SameFinalMapping
<1>9. search = "done" => Len(Loops) \in Positive /\ \A k \in 2 .. Len(Loops) : Loops[k] \in Positive
  BY <1>4, LoopsType
<1>10. CASE Begin
  <2>1. search = "done" /\ UNCHANGED <<mapping, searchVars>> /\ at' = [k \in 1 .. Len(Loops) |-> 0]
    BY <1>10 DEF Begin, Mapped
  <2>2. \A k \in 2 .. Len(Loops) : k \in 1 .. Len(Loops) /\ Loops[k] > 0
    BY <1>9, <2>1 DEF Positive
  <2>3. Counting'
    BY <1>8, <2>1, <2>2 DEF Counting
  <2> QED BY <1>6, <1>8, <2>1, <2>3
<1>11. CASE GenerateTile
  <2>1. Counting /\ NextTile /\ search = "done" /\ UNCHANGED <<mapping, searchVars>>
    BY <1>4, <1>11 DEF GenerateTile, Looping
  <2>2. Counting'
    BY <1>8, <1>9, <2>1, NextTileCounts DEF Counting
  <2> QED BY <1>6, <1>8, <2>1, <2>2
<1>12. CASE UNCHANGED vars
  <2>1. at' = at /\ UNCHANGED <<mapping, searchVars>>
    BY <1>12 DEF vars
  <2>2. at # <<>> => Counting'
    BY <1>4, <1>8, <2>1 DEF Counting
  <2> QED BY <1>4, <1>6, <1>8, <2>1, <2>2
<1> QED BY <1>7, <1>10, <1>11, <1>12 DEF Next, Done

(* Core::cycle exits when a place is loaded twice, and waits for ever for   *)
(* an operand that is not there. No tile that any initialize_tiles makes    *)
(* does that, for all shapes, cores and mappings, if there is room for it:  *)
(* the loads come first and each to a place of its own, whatever reads a    *)
(* place comes after what fills it, and nothing but a result is stored. (A  *)
(* MambaBlock waits for the operands that are parts of a result.)           *)
THEOREM TilesRun == Spec => [](HasRoom /\ WeightsApart => TileRuns)
<1>1. Init => TilesInv
  BY TilesInit
<1>2. TilesInv /\ [Next]_vars => TilesInv'
  BY TilesNext
<1>3. TilesInv => (HasRoom /\ WeightsApart => TileRuns)
  BY TilesInvRuns
<1> QED BY <1>1, <1>2, <1>3, PTL DEF Spec
=============================================================================
