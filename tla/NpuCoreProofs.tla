---------------------------- MODULE NpuCoreProofs ----------------------------
(***************************************************************************)
(* Proofs about NpuCore, for any feed of tiles with any instructions, any  *)
(* sizes of the scratchpads, any depth of the array and any period.  What  *)
(* is proved of the counts of the places, of flushes, of stores and of the *)
(* assertions of Sram and Core assumes of the programs what the core       *)
(* relies on and never checks (ProgramsWait and ProgramsFit).              *)
(***************************************************************************)
EXTENDS NpuCore, TLAPS, FiniteSetTheorems, SequenceTheorems, WellFoundedInduction

-----------------------------------------------------------------------------
(* Type correctness.                                                       *)

SramType ==
  /\ sram \in [Addr -> [Half -> Entry \cup {Absent}]]
  /\ used \in [{"spad", "acc"} -> [Half -> Nat]]
  /\ aborted \in BOOLEAN

LEMMA InstFacts ==
  ASSUME NEW i \in Inst
  PROVE  /\ i[1] \in Tile /\ i[2] \in Nat /\ 1 <= i[2] /\ i[2] <= Len(Feed[i[1]].code)
         /\ i = <<i[1], i[2]>>
         /\ Code(i) \in InstKind
         /\ Code(i).dest \in Addr /\ Code(i).size \in Nat \ {0} /\ Code(i).reqs \in Nat
         /\ Code(i).srcs \subseteq Addr
<1>1. PICK t \in Tile : i \in {t} \X (1 .. Len(Feed[t].code))
  BY DEF Inst
<1>2. Feed[t] \in TileKind
  BY CoreAssumption DEF Tile
<1>3. Feed[t].code \in Seq(InstKind)
  BY <1>2 DEF TileKind
<1>4. i[1] = t /\ i[2] \in 1 .. Len(Feed[t].code) /\ i = <<i[1], i[2]>>
  BY <1>1
<1>5. Len(Feed[t].code) \in Nat
  BY <1>3, LenProperties
<1>6. Feed[t].code[i[2]] \in InstKind
  BY <1>3, <1>4, ElementOfSeq
<1>7. Code(i) \in InstKind
  BY <1>4, <1>6 DEF Code
<1> QED BY <1>4, <1>5, <1>7 DEF InstKind

LEMMA CodeLen ==
  ASSUME NEW t \in Tile
  PROVE  Len(Feed[t].code) \in Nat
<1>1. Feed[t] \in TileKind
  BY CoreAssumption DEF Tile
<1>2. Feed[t].code \in Seq(InstKind)
  BY <1>1 DEF TileKind
<1> QED BY <1>2, LenProperties

LEMMA FeedLen == Len(Feed) \in Nat /\ Tile \subseteq Nat
<1>1. Feed \in Seq(TileKind)
  BY CoreAssumption
<1> QED BY <1>1, LenProperties DEF Tile

LEMMA NextInstType ==
  ASSUME NEW t \in Tile, pos \in [Tile -> Nat], HasInst(t)
  PROVE  NextInst(t) \in Inst /\ NextInst(t)[1] = t /\ NextInst(t)[2] = pos[t] + 1
<1>1. pos[t] \in Nat /\ pos[t] + 1 \in 1 .. Len(Feed[t].code)
  BY CodeLen DEF HasInst
<1> QED BY <1>1 DEF NextInst, Inst

LEMMA BankType == \A a : Bank(a) \in {"spad", "acc"}
BY DEF Bank

LEMMA TargetType ==
  ASSUME NEW i \in Inst, half \in [Tile -> [spad : Half, acc : Half]]
  PROVE  Target(i) \in Half /\ \A a : HalfOf(i[1], a) \in Half
<1>1. i[1] \in Tile
  BY InstFacts
<1>2. half[i[1]].spad \in Half /\ half[i[1]].acc \in Half
  BY <1>1
<1>3. \A a : HalfOf(i[1], a) \in Half
  BY <1>2, BankType DEF HalfOf
<1> QED BY <1>3 DEF Target

(* What Sram::fill leaves alone.                                            *)
LEMMA FillFacts ==
  ASSUME SramType, NEW a \in Addr, NEW h \in Half, Fill(a, h)
  PROVE  /\ SramType'
         /\ used' = used
         /\ \A b \in Addr, g \in Half :
              /\ CheckHit(b, g) => CheckHit(b, g)'
              /\ CheckAllocated(b, g) <=> CheckAllocated(b, g)'
<1>1. CASE ~MayFill(a, h)
  BY <1>1 DEF Fill, SramType, sramVars, CheckHit, CheckAllocated
<1>2. CASE MayFill(a, h)
  <2>1. sram[a][h] \in Entry /\ sram[a][h].remain > 0 /\ ~sram[a][h].valid
    BY <1>2 DEF MayFill, CheckAllocated, SramType
  <2> DEFINE v == sram[a][h].remain = 1
             e == [valid |-> v, size |-> sram[a][h].size, remain |-> sram[a][h].remain - 1]
  <2>2. e \in Entry
    <3>1. v \in BOOLEAN
      OBVIOUS
    <3>2. sram[a][h].size \in Nat \ {0} /\ sram[a][h].remain - 1 \in Nat
      BY <2>1 DEF Entry
    <3> HIDE DEF v
    <3> QED BY <3>1, <3>2 DEF Entry
  <2>3. e # Absent
    BY <2>2 DEF Entry, Absent
  <2>4. sram' = [sram EXCEPT ![a][h] = e] /\ used' = used /\ aborted' = aborted
    BY <1>2 DEF Fill, Filled
  <2> HIDE DEF e
  <2>5. sram' \in [Addr -> [Half -> Entry \cup {Absent}]]
    BY <2>2, <2>4 DEF SramType
  <2>6. \A b \in Addr, g \in Half : sram'[b][g] = IF b = a /\ g = h THEN e ELSE sram[b][g]
    BY <2>4 DEF SramType
  <2> QED BY <1>2, <2>1, <2>3, <2>4, <2>5, <2>6 DEF SramType, CheckHit, CheckAllocated, MayFill
<1> QED BY <1>1, <1>2

LEMMA PrefetchType ==
  ASSUME SramType, NEW a \in Addr, NEW h \in Half, NEW s \in Nat \ {0}, NEW c \in Nat,
         Prefetch(a, h, s, c)
  PROVE  SramType'
<1>1. CASE ~(~CheckAllocated(a, h) /\ CheckRemain(a, h, s))
  BY <1>1 DEF Prefetch, SramType, sramVars
<1>2. CASE ~CheckAllocated(a, h) /\ CheckRemain(a, h, s)
  <2> DEFINE e == [valid |-> FALSE, size |-> s, remain |-> c]
             b == Bank(a)
  <2>1. e \in Entry
    BY DEF Entry
  <2>2. b \in {"spad", "acc"}
    BY BankType
  <2>3. /\ sram' = [sram EXCEPT ![a][h] = e]
        /\ used' = [used EXCEPT ![b][h] = used[b][h] + s]
        /\ aborted' = aborted
    BY <1>2 DEF Prefetch
  <2> HIDE DEF e, b
  <2>4. sram' \in [Addr -> [Half -> Entry \cup {Absent}]]
    BY <2>1, <2>3 DEF SramType
  <2>5. used[b][h] + s \in Nat
    BY <2>2 DEF SramType
  <2>6. used' \in [{"spad", "acc"} -> [Half -> Nat]]
    BY <2>2, <2>3, <2>5 DEF SramType
  <2> QED BY <2>3, <2>4, <2>6 DEF SramType
<1> QED BY <1>1, <1>2

LEMMA CountUpType ==
  ASSUME SramType, NEW a \in Addr, NEW h \in Half, CheckAllocated(a, h), CountUp(a, h)
  PROVE  SramType'
<1>1. sram[a][h] \in Entry
  BY DEF CheckAllocated, SramType
<1>2. [valid |-> FALSE, size |-> sram[a][h].size, remain |-> sram[a][h].remain + 1] \in Entry
  BY <1>1 DEF Entry
<1> QED BY <1>2 DEF CountUp, SramType

LEMMA AccessFacts ==
  ASSUME NEW x \in Access
  PROVE  InstOf(x) \in Inst
<1>1. PICK i \in Inst : x \in Accesses(i)
  BY DEF Access
<1>2. i = <<i[1], i[2]>>
  BY <1>1, InstFacts
<1>3. PICK k \in 1 .. Code(i).reqs : x = <<i[1], i[2], k>>
  BY <1>1 DEF Accesses
<1> QED BY <1>2, <1>3 DEF InstOf

LEMMA AddressedType ==
  ASSUME NEW i \in Inst
  PROVE  Addressed(i) \in Seq(Access)
<1> DEFINE n == Code(i).reqs
<1>1. n \in Nat
  BY InstFacts
<1>2. \A k \in 1 .. n : <<i[1], i[2], k>> \in Access
  BY DEF Access, Accesses
<1>3. Addressed(i) = [k \in 1 .. n |-> <<i[1], i[2], k>>]
  BY DEF Addressed
<1> HIDE DEF n
<1>4. Addressed(i) \in [1 .. n -> Access]
  BY <1>2, <1>3
<1> QED BY <1>1, <1>4, SeqDef

LEMMA WithoutFacts ==
  ASSUME tiles \in Seq(Tile), Len(tiles) <= 2, NEW j \in 1 .. Len(tiles)
  PROVE  /\ Without(j) \in Seq(Tile)
         /\ Len(Without(j)) = Len(tiles) - 1
         /\ Len(tiles) = 2 => Without(j)[1] = IF j = 1 THEN tiles[2] ELSE tiles[1]
<1> DEFINE n == Len(tiles)
           front == SubSeq(tiles, 1, j - 1)
           back == SubSeq(tiles, j + 1, n)
<1>1. n \in Nat /\ \A i \in 1 .. n : tiles[i] \in Tile
  BY LenProperties, ElementOfSeq
<1>2. j \in Int /\ 1 <= j /\ j <= n
  BY <1>1
<1>3. /\ front \in Seq(Tile)
      /\ Len(front) = j - 1
      /\ \A i \in 1 .. j - 1 : front[i] = tiles[i]
  <2>1. 1 \in Int /\ j - 1 \in Int /\ \A i \in 1 .. j - 1 : tiles[i] \in Tile
    BY <1>1, <1>2
  <2>2. /\ front \in Seq(Tile)
        /\ Len(front) = IF 1 <= j - 1 THEN (j - 1) - 1 + 1 ELSE 0
        /\ \A i \in 1 .. (j - 1) - 1 + 1 : front[i] = tiles[1 + i - 1]
    BY <2>1, SubSeqProperties
  <2> QED BY <2>2, <1>2
<1>4. /\ back \in Seq(Tile)
      /\ Len(back) = n - j
      /\ \A i \in 1 .. n - (j + 1) + 1 : back[i] = tiles[(j + 1) + i - 1]
  <2>1. j + 1 \in Int /\ n \in Int /\ \A i \in j + 1 .. n : tiles[i] \in Tile
    BY <1>1, <1>2
  <2>2. /\ back \in Seq(Tile)
        /\ Len(back) = IF j + 1 <= n THEN n - (j + 1) + 1 ELSE 0
        /\ \A i \in 1 .. n - (j + 1) + 1 : back[i] = tiles[(j + 1) + i - 1]
    BY <2>1, SubSeqProperties
  <2>3. Len(back) = n - j
    BY <2>2, <1>1, <1>2
  <2> QED BY <2>2, <2>3
<1>5. Without(j) = front \o back
  BY DEF Without
<1> HIDE DEF front, back
<1>6. front \o back \in Seq(Tile) /\ Len(front \o back) = Len(front) + Len(back)
  BY <1>3, <1>4, ConcatProperties
<1>7. ASSUME n = 2, j = 1
      PROVE  Without(j)[1] = tiles[2]
  <2>1. front = <<>>
    BY <1>3, <1>7, EmptySeq
  <2>2. Without(j) = back
    BY <2>1, <1>4, <1>5, ConcatEmptySeq
  <2>3. back[1] = tiles[(1 + 1) + 1 - 1]
    BY <1>4, <1>7
  <2> QED BY <2>2, <2>3
<1>8. ASSUME n = 2, j = 2
      PROVE  Without(j)[1] = tiles[1]
  <2>1. back = <<>>
    BY <1>4, <1>8, EmptySeq
  <2>2. Without(j) = front
    BY <2>1, <1>3, <1>5, ConcatEmptySeq
  <2>3. front[1] = tiles[1]
    BY <1>3, <1>8
  <2> QED BY <2>2, <2>3
<1> HIDE DEF n
<1>9. n = 2 => j = 1 \/ j = 2
  BY <1>2
<1>10. Len(Without(j)) = n - 1
  BY <1>1, <1>2, <1>3, <1>4, <1>5, <1>6
<1> QED BY <1>5, <1>6, <1>7, <1>8, <1>9, <1>10 DEF n

(* The variables that belong together, for the steps that change only some. *)
TilesType ==
  /\ issued \in 0 .. Len(Feed)
  /\ tiles \in Seq(Tile) /\ Len(tiles) <= 2
  /\ tile_rr \in {0, 1}
  /\ current \in FusedOp
  /\ half \in [Tile -> [spad : Half, acc : Half]]
  /\ pos \in [Tile -> Nat] /\ \A t \in Tile : pos[t] <= Len(Feed[t].code)
  /\ inst_finished \subseteq Tile /\ finished_tiles \in Seq(Tile)
QueuesType ==
  /\ ld \in QueueType /\ ex \in QueueType /\ st \in QueueType
  /\ compute \in QueueType /\ vector \in QueueType
MemType ==
  /\ request_queue \in Seq(Access) /\ memory \subseteq Access /\ waiting_write_reqs \in Int
PhaseType ==
  /\ phase \in {"idle", "compute", "vector", "load", "execute", "store", "issue", "retire"}
  /\ clock \in 0 .. FinishPeriod - 1

LEMMA TypeParts == TypeOK <=> PhaseType /\ TilesType /\ QueuesType /\ SramType /\ MemType
BY DEF TypeOK, PhaseType, TilesType, QueuesType, SramType, MemType

LEMMA TypePartsNext == PhaseType' /\ TilesType' /\ QueuesType' /\ SramType' /\ MemType' => TypeOK'
BY DEF TypeOK, PhaseType, TilesType, QueuesType, SramType, MemType

LEMMA TypeSame ==
  /\ TilesType /\ UNCHANGED tileVars => TilesType'
  /\ QueuesType /\ UNCHANGED <<queueVars, pipeVars>> => QueuesType'
  /\ SramType /\ UNCHANGED <<sramVars, aborted>> => SramType'
  /\ MemType /\ UNCHANGED memVars => MemType'
BY DEF TilesType, QueuesType, SramType, MemType, tileVars, queueVars, pipeVars, sramVars, memVars

LEMMA TypeInit == Init => TypeOK
<1> SUFFICES ASSUME Init PROVE TypeOK
  OBVIOUS
<1>1. PhaseType
  BY CoreAssumption DEF Init, PhaseType
<1>2. TilesType
  <2>1. \A t \in Tile : 0 <= Len(Feed[t].code)
    BY CodeLen
  <2>2. <<>> \in Seq(Tile) /\ Len(<<>>) = 0
    BY EmptySeq
  <2> QED BY <2>1, <2>2, FeedLen DEF Init, TilesType, Half
<1>3. QueuesType
  BY EmptySeq DEF Init, QueuesType, QueueType
<1>4. SramType
  BY DEF Init, SramType
<1>5. MemType
  BY EmptySeq DEF Init, MemType
<1> QED BY <1>1, <1>2, <1>3, <1>4, <1>5, TypeParts

LEMMA HandlerPhase ==
  ASSUME NEW a, NEW b, Handler(a, b), PhaseType, UNCHANGED clock,
         b \in {"idle", "compute", "vector", "load", "execute", "store", "issue", "retire"}
  PROVE  PhaseType'
BY DEF Handler, PhaseType

LEMMA TickPhase ==
  ASSUME Handler("retire", "idle"), PhaseType, Tick
  PROVE  PhaseType'
<1>1. clock + 1 \in Nat /\ FinishPeriod \in Nat \ {0}
  BY CoreAssumption DEF PhaseType
<1>2. (clock + 1) % FinishPeriod \in 0 .. FinishPeriod - 1
  BY <1>1
<1> QED BY <1>2 DEF Handler, PhaseType, Tick

LEMMA MarkType ==
  ASSUME NEW i \in Inst, inst_finished \subseteq Tile, MarkIfLast(i)
  PROVE  inst_finished' \subseteq Tile
BY InstFacts DEF MarkIfLast

THEOREM TypeStep == TypeOK /\ [Next]_vars => TypeOK'
<1> SUFFICES ASSUME TypeOK, [Next]_vars PROVE TypeOK'
  OBVIOUS
<1>0. PhaseType /\ TilesType /\ QueuesType /\ SramType /\ MemType
  BY TypeParts
<1> USE TypeSame, <1>0
<1>1. CASE ComputeDone
  <2> DEFINE i == Head(compute)
  <2>1. i \in Inst /\ Tail(compute) \in Seq(Inst)
    BY <1>1, HeadTailProperties DEF ComputeDone, QueuesType, QueueType
  <2>2. SramType'
    BY <1>1, <2>1, InstFacts, TargetType, FillFacts DEF ComputeDone, TilesType
  <2>3. TilesType'
    BY <1>1, <2>1, MarkType DEF ComputeDone, TilesType
  <2>4. QueuesType' /\ MemType'
    BY <1>1, <2>1 DEF ComputeDone, QueuesType, QueueType, queueVars
  <2>5. PhaseType'
    BY <1>1, HandlerPhase DEF ComputeDone
  <2> QED BY <2>2, <2>3, <2>4, <2>5, TypePartsNext
<1>2. CASE VectorDone
  <2> DEFINE i == Head(vector)
  <2>1. i \in Inst /\ Tail(vector) \in Seq(Inst)
    BY <1>2, HeadTailProperties DEF VectorDone, QueuesType, QueueType
  <2>2. SramType'
    BY <1>2, <2>1, InstFacts, TargetType, FillFacts DEF VectorDone, TilesType
  <2>3. TilesType'
    BY <1>2, <2>1, MarkType DEF VectorDone, TilesType
  <2>4. QueuesType' /\ MemType'
    BY <1>2, <2>1 DEF VectorDone, QueuesType, QueueType, queueVars
  <2>5. PhaseType'
    BY <1>2, HandlerPhase DEF VectorDone
  <2> QED BY <2>2, <2>3, <2>4, <2>5, TypePartsNext
<1>3. CASE ComputeNotDone \/ VectorNotDone \/ NothingToIssue \/ NoTile
  <2>1. PhaseType'
    BY <1>3, HandlerPhase DEF ComputeNotDone, VectorNotDone, NothingToIssue, NoTile
  <2>2. UNCHANGED <<tileVars, queueVars, pipeVars, sramVars, memVars, aborted>>
    BY <1>3 DEF ComputeNotDone, VectorNotDone, NothingToIssue, NoTile
  <2> QED BY <2>1, <2>2, TypePartsNext
<1>4. CASE HandleLoad
  <2>1. PhaseType' /\ TilesType'
    BY <1>4, HandlerPhase DEF HandleLoad
  <2>2. CASE ld = <<>>
    BY <1>4, <2>1, <2>2, TypePartsNext DEF HandleLoad, queueVars, memVars
  <2>3. CASE ld # <<>>
    <3> DEFINE i == Head(ld)
    <3>1. i \in Inst /\ Tail(ld) \in Seq(Inst)
      BY <2>3, HeadTailProperties DEF QueuesType, QueueType
    <3>2. SramType'
      BY <1>4, <2>3, <3>1, InstFacts, TargetType, PrefetchType DEF HandleLoad, TilesType
    <3>3. QueuesType'
      BY <1>4, <2>3, <3>1 DEF HandleLoad, QueuesType, QueueType, pipeVars
    <3>4. request_queue \o Addressed(i) \in Seq(Access)
      BY <3>1, AddressedType, ConcatProperties DEF MemType
    <3>5. MemType'
      BY <1>4, <2>3, <3>4 DEF HandleLoad, MemType
    <3> QED BY <2>1, <3>2, <3>3, <3>5, TypePartsNext
  <2> QED BY <2>2, <2>3
<1>5. CASE Execute
  <2>1. PhaseType' /\ TilesType' /\ MemType'
    BY <1>5, HandlerPhase DEF Execute
  <2>2. CASE ~(ex # <<>> /\ CanIssueCompute(Head(ex)))
    BY <1>5, <2>1, <2>2, TypePartsNext DEF Execute, queueVars
  <2>3. CASE ex # <<>> /\ CanIssueCompute(Head(ex))
    <3> DEFINE i == Head(ex)
    <3>1. i \in Inst /\ Tail(ex) \in Seq(Inst)
      BY <2>3, HeadTailProperties DEF QueuesType, QueueType
    <3>2. /\ IF CheckAllocated(Code(i).dest, Target(i))
               THEN CountUp(Code(i).dest, Target(i))
               ELSE Prefetch(Code(i).dest, Target(i), Code(i).size, 1)
          /\ Enqueue(i) /\ ex' = Tail(ex)
          /\ UNCHANGED <<ld, st>>
      BY <1>5, <2>3 DEF Execute
    <3>3. SramType'
      <4>1. Code(i).dest \in Addr /\ Target(i) \in Half /\ Code(i).size \in Nat \ {0}
        BY <3>1, InstFacts, TargetType DEF TilesType
      <4> QED BY <3>2, <4>1, CountUpType, PrefetchType
    <3>4. Append(compute, i) \in Seq(Inst) /\ Append(vector, i) \in Seq(Inst)
      BY <3>1, AppendProperties DEF QueuesType, QueueType
    <3>5. QueuesType'
      BY <3>1, <3>2, <3>4 DEF QueuesType, QueueType, Enqueue
    <3> QED BY <2>1, <3>3, <3>5, TypePartsNext
  <2> QED BY <2>2, <2>3
<1>6. CASE HandleStore
  <2>1. PhaseType'
    BY <1>6, HandlerPhase DEF HandleStore
  <2>2. CASE st = <<>>
    BY <1>6, <2>1, <2>2, TypePartsNext DEF HandleStore, queueVars, tileVars, sramVars, memVars
  <2>3. CASE st # <<>>
    <3> DEFINE i == Head(st)
    <3>1. i \in Inst /\ Tail(st) \in Seq(Inst)
      BY <2>3, HeadTailProperties DEF QueuesType, QueueType
    <3>2. CASE CheckHit(Code(i).dest, Target(i))
      <4>1. /\ request_queue' = request_queue \o Addressed(i)
            /\ waiting_write_reqs' = waiting_write_reqs + Writes(i)
            /\ MarkIfLast(i) /\ st' = Tail(st) /\ aborted' = aborted
            /\ UNCHANGED <<issued, tiles, tile_rr, current, half, pos, finished_tiles,
                           ld, ex, pipeVars, sramVars, memory>>
        BY <1>6, <2>3, <3>2 DEF HandleStore
      <4>2. request_queue \o Addressed(i) \in Seq(Access)
        BY <3>1, AddressedType, ConcatProperties DEF MemType
      <4>3. MemType'
        BY <4>1, <4>2, <3>1, InstFacts DEF MemType, Writes
      <4>4. TilesType'
        BY <4>1, <3>1, MarkType DEF TilesType
      <4>5. QueuesType' /\ SramType'
        BY <4>1, <3>1 DEF QueuesType, QueueType, pipeVars
      <4> QED BY <2>1, <4>3, <4>4, <4>5, TypePartsNext
    <3>3. CASE ~CheckHit(Code(i).dest, Target(i))
      <4>1. SramType'
        BY <1>6, <2>3, <3>3 DEF HandleStore, SramType, sramVars
      <4> QED BY <1>6, <2>1, <2>3, <3>3, <4>1, TypePartsNext DEF HandleStore, queueVars, tileVars, memVars
    <3> QED BY <3>2, <3>3
  <2> QED BY <2>2, <2>3
<1>7. CASE IssueInst
  <2>1. PhaseType' /\ MemType'
    BY <1>7, HandlerPhase DEF IssueInst
  <2>2. PICK k \in 0 .. Len(tiles) - 1 :
          /\ FirstToGo(k)
          /\ LET i == NextInst(InTurn(k)) IN
             IF Code(i).opcode = "MOVIN" /\ ~LoadFits(i)
               THEN aborted' = TRUE /\ UNCHANGED <<queueVars, pos, tile_rr>>
               ELSE /\ Dispatch(i)
                    /\ pos' = [pos EXCEPT ![i[1]] = @ + 1]
                    /\ tile_rr' = (k + tile_rr) % Len(tiles)
                    /\ UNCHANGED aborted
    BY <1>7 DEF IssueInst
  <2> DEFINE t == InTurn(k)
             i == NextInst(t)
  <2>3. UNCHANGED <<clock, issued, tiles, current, half, inst_finished, finished_tiles, pipeVars, sramVars>>
    BY <1>7 DEF IssueInst
  <2>4. Len(tiles) \in {1, 2} /\ k + tile_rr \in Nat
    <3>1. Len(tiles) \in Nat
      BY LenProperties DEF TilesType
    <3>2. k \in 0 .. Len(tiles) - 1
      BY <2>2
    <3>3. Len(tiles) <= 2 /\ tile_rr \in {0, 1}
      BY DEF TilesType
    <3> DEFINE n == Len(tiles)
    <3>4. n \in Nat /\ n <= 2 /\ k \in 0 .. n - 1 /\ tile_rr \in {0, 1}
      BY <3>1, <3>2, <3>3
    <3> HIDE DEF n
    <3>5. n \in {1, 2} /\ k + tile_rr \in Nat
      BY ONLY <3>4
    <3> QED BY <3>5 DEF n
  <2>5. (k + tile_rr) % Len(tiles) \in {0, 1} /\ (k + tile_rr) % Len(tiles) < Len(tiles)
    <3> DEFINE s == k + tile_rr
    <3>1. s \in Nat /\ s % 1 = 0 /\ s % 2 \in {0, 1}
      <4>1. s \in Nat
        BY <2>4
      <4> HIDE DEF s
      <4> QED BY <4>1
    <3> HIDE DEF s
    <3>2. s % Len(tiles) \in {0, 1} /\ s % Len(tiles) < Len(tiles)
      <4>1. CASE Len(tiles) = 1
        BY <3>1, <4>1
      <4>2. CASE Len(tiles) = 2
        BY <3>1, <4>2
      <4> QED BY <2>4, <4>1, <4>2
    <3> QED BY <3>2 DEF s
  <2>6. t \in Tile /\ HasInst(t)
    <3>1. ((k + tile_rr) % Len(tiles)) + 1 \in 1 .. Len(tiles)
      BY <2>4, <2>5
    <3> QED BY <3>1, <2>2, ElementOfSeq DEF TilesType, InTurn, FirstToGo, Goes
  <2>7. i \in Inst /\ i[1] = t /\ i[2] = pos[t] + 1
    BY <2>6, NextInstType DEF TilesType
  <2>8. CASE Code(i).opcode = "MOVIN" /\ ~LoadFits(i)
    <3>1. aborted' = TRUE /\ UNCHANGED <<queueVars, pos, tile_rr>>
      BY <2>2, <2>8
    <3>2. TilesType' /\ QueuesType'
      BY <2>3, <3>1 DEF tileVars
    <3>3. SramType'
      BY <2>3, <3>1 DEF SramType, sramVars
    <3> QED BY <2>1, <3>2, <3>3, TypePartsNext
  <2>9. CASE ~(Code(i).opcode = "MOVIN" /\ ~LoadFits(i))
    <3>1. /\ Dispatch(i)
          /\ pos' = [pos EXCEPT ![t] = pos[t] + 1]
          /\ tile_rr' = (k + tile_rr) % Len(tiles)
          /\ UNCHANGED aborted
      BY <2>2, <2>7, <2>9
    <3> HIDE DEF i, t
    <3>2. SramType'
      BY <2>3, <3>1
    <3>3. TilesType'
      <4>1. pos[t] + 1 \in Nat /\ pos[t] + 1 <= Len(Feed[t].code)
        BY <2>6, CodeLen DEF TilesType, HasInst
      <4>2. pos' \in [Tile -> Nat] /\ \A u \in Tile : pos'[u] <= Len(Feed[u].code)
        BY <2>6, <3>1, <4>1 DEF TilesType
      <4>3. tile_rr' \in {0, 1}
        BY <2>5, <3>1
      <4> QED BY <2>3, <4>2, <4>3 DEF TilesType
    <3>4. Append(ld, i) \in Seq(Inst) /\ Append(ex, i) \in Seq(Inst) /\ Append(st, i) \in Seq(Inst)
      BY <2>7, AppendProperties DEF QueuesType, QueueType
    <3>5. QueuesType'
      BY <2>3, <3>1, <3>4 DEF QueuesType, QueueType, Dispatch, pipeVars
    <3> QED BY <2>1, <3>2, <3>3, <3>5, TypePartsNext
  <2> QED BY <2>8, <2>9
<1>8. CASE FinishTile
  <2>1. PhaseType'
    BY <1>8, TickPhase DEF FinishTile
  <2>2. QueuesType' /\ SramType' /\ MemType'
    BY <1>8 DEF FinishTile
  <2>3. PICK j \in 1 .. Len(tiles) :
          finished_tiles' = Append(finished_tiles, tiles[j]) /\ tiles' = Without(j)
    BY <1>8 DEF FinishTile
  <2>4. tiles[j] \in Tile
    BY ElementOfSeq DEF TilesType
  <2>5. Append(finished_tiles, tiles[j]) \in Seq(Tile)
    BY <2>4, AppendProperties DEF TilesType
  <2>6. tiles' \in Seq(Tile) /\ Len(tiles') <= 2
    <3>1. tiles' \in Seq(Tile) /\ Len(tiles') = Len(tiles) - 1 /\ Len(tiles) \in Nat
      BY <2>3, WithoutFacts, LenProperties DEF TilesType
    <3> QED BY <3>1 DEF TilesType
  <2>7. TilesType'
    BY <1>8, <2>3, <2>5, <2>6 DEF FinishTile, TilesType
  <2> QED BY <2>1, <2>2, <2>7, TypePartsNext
<1>9. CASE NoFinishedTile
  BY <1>9, TickPhase, TypePartsNext DEF NoFinishedTile
<1>10. CASE IssueTile
  <2> DEFINE t == issued + 1
  <2>1. PhaseType' /\ QueuesType' /\ MemType'
    BY <1>10, HandlerPhase DEF IssueTile
  <2>2. t \in Tile
    BY <1>10, FeedLen DEF IssueTile, TilesType, Tile
  <2>3. SramType'
    BY <1>10, BankType DEF IssueTile, SramType
  <2>4. HalvesFor(t) \in [spad : Half, acc : Half]
    <3>1. OtherHalf \in [spad : Half, acc : Half]
      <4>1. Len(tiles) = 1 => tiles[1] \in Tile
        <5>1. tiles \in Seq(Tile)
          BY DEF TilesType
        <5> QED BY <5>1, ElementOfSeq
      <4> QED BY <4>1 DEF OtherHalf, TilesType, Half
    <3>2. 1 - OtherHalf.spad \in Half /\ 1 - OtherHalf.acc \in Half /\ OtherHalf.acc \in Half
      BY <3>1 DEF Half
    <3> QED BY <3>2 DEF HalvesFor
  <2>5. half' \in [Tile -> [spad : Half, acc : Half]]
    BY <1>10, <2>2, <2>4 DEF IssueTile, TilesType
  <2>6. Append(tiles, t) \in Seq(Tile) /\ Append(finished_tiles, t) \in Seq(Tile)
        /\ Len(Append(tiles, t)) = Len(tiles) + 1
    BY <2>2, AppendProperties DEF TilesType
  <2>7. Len(tiles) < 2 /\ Len(tiles) \in Nat
    BY <1>10, LenProperties DEF IssueTile, CanIssue, TilesType
  <2>8. tiles' \in Seq(Tile) /\ Len(tiles') <= 2 /\ finished_tiles' \in Seq(Tile)
    <3>1. \/ tiles' = Append(tiles, t) /\ finished_tiles' = finished_tiles
          \/ tiles' = tiles /\ finished_tiles' = Append(finished_tiles, t)
      BY <1>10 DEF IssueTile
    <3>2. tiles \in Seq(Tile) /\ finished_tiles \in Seq(Tile)
      BY DEF TilesType
    <3>3. Len(Append(tiles, t)) <= 2
      BY ONLY <2>6, <2>7
    <3> QED BY ONLY <2>6, <3>1, <3>2, <3>3, Len(tiles) <= 2
  <2>9. current' \in FusedOp
    <3>1. Feed[t] \in TileKind
      BY <2>2, CoreAssumption DEF Tile
    <3>2. Feed[t].op \in FusedOp
      BY <3>1 DEF TileKind
    <3> QED BY <1>10, <3>2 DEF IssueTile
  <2>10. issued' \in 0 .. Len(Feed)
    BY <1>10, FeedLen DEF IssueTile, TilesType
  <2>11. UNCHANGED <<tile_rr, pos, inst_finished>>
    BY <1>10 DEF IssueTile
  <2>12. TilesType'
    BY <2>5, <2>8, <2>9, <2>10, <2>11 DEF TilesType
  <2> QED BY <2>1, <2>3, <2>12, TypePartsNext
<1>11. CASE PopFinishedTile
  <2>1. PhaseType' /\ QueuesType' /\ SramType' /\ MemType'
    BY <1>11 DEF PopFinishedTile, BetweenCycles, PhaseType
  <2>2. Tail(finished_tiles) \in Seq(Tile)
    BY <1>11, HeadTailProperties DEF PopFinishedTile, TilesType
  <2>3. TilesType'
    BY <1>11, <2>2 DEF PopFinishedTile, TilesType
  <2> QED BY <2>1, <2>3, TypePartsNext
<1>12. CASE PopMemoryRequest
  <2>1. PhaseType' /\ TilesType' /\ QueuesType' /\ SramType'
    BY <1>12 DEF PopMemoryRequest, BetweenCycles, PhaseType
  <2>2. Head(request_queue) \in Access /\ Tail(request_queue) \in Seq(Access)
    BY <1>12, HeadTailProperties DEF PopMemoryRequest, MemType
  <2>3. MemType'
    BY <1>12, <2>2 DEF PopMemoryRequest, MemType
  <2> QED BY <2>1, <2>3, TypePartsNext
<1>13. ASSUME NEW x \in memory, PushMemoryResponse(x)
       PROVE  TypeOK'
  <2>1. PhaseType' /\ TilesType' /\ QueuesType'
    BY <1>13 DEF PushMemoryResponse, BetweenCycles, PhaseType
  <2>2. MemType'
    BY <1>13 DEF PushMemoryResponse, MemType
  <2>3. SramType'
    <3>1. InstOf(x) \in Inst
      BY AccessFacts DEF MemType
    <3>2. Code(InstOf(x)).dest \in Addr /\ Target(InstOf(x)) \in Half
      BY <3>1, InstFacts, TargetType DEF TilesType
    <3> QED BY <1>13, <3>2, FillFacts DEF PushMemoryResponse
  <2> QED BY <2>1, <2>2, <2>3, TypePartsNext
<1>14. CASE UNCHANGED vars
  BY <1>14, TypePartsNext DEF vars, PhaseType
<1> QED BY <1>1, <1>2, <1>3, <1>4, <1>5, <1>6, <1>7, <1>8, <1>9, <1>10, <1>11, <1>12, <1>13, <1>14
        DEF Next, Cycle, Response

(* For any feed, sizes, depth and period every variable keeps its type.     *)
THEOREM TypeCorrect == Spec => []TypeOK
<1>1. Init => TypeOK
  BY TypeInit
<1>2. TypeOK /\ [Next]_vars => TypeOK'
  BY TypeStep
<1> QED BY <1>1, <1>2, PTL DEF Spec

-----------------------------------------------------------------------------
(* The inductive invariant behind QueuedStillReady and HalvesApart.        *)

Waiting == Elements(ld) \cup Elements(ex) \cup Elements(st)
InPipe == Elements(compute) \cup Elements(vector)

(* Tiles enter in the order of the feed, each once, in halves of their own. *)
TilesApart ==
  /\ \A t \in Elements(tiles) : t <= issued
  /\ Len(tiles) = 2 => tiles[1] # tiles[2]
  /\ HalvesApart

(* At most one instruction waits, and every handler empties its queue.      *)
OneWaits ==
  /\ Len(ld) + Len(ex) + Len(st) <= 1
  /\ phase \in {"execute", "store", "issue"} => ld = <<>>
  /\ phase \in {"store", "issue"} => ex = <<>>
  /\ phase = "issue" => st = <<>>

StoreReady(i) == CheckHit(Code(i).dest, Target(i))
WaitersReady ==
  /\ \A i \in Elements(ld) : LoadFits(i)
  /\ \A i \in Elements(ex) : CanIssueCompute(i)
  /\ \A i \in Elements(st) : StoreReady(i)

(* The one that waits is the newest of a tile that runs: its tile cannot    *)
(* have finished, which keeps the tile beside it from flushing its halves.  *)
WaitersRun ==
  \A i \in Waiting :
    /\ i[1] \in Elements(tiles)
    /\ pos[i[1]] = i[2]
    /\ IsLast(i) => i[1] \notin inst_finished

(* Whatever is in a pipeline was issued before the one that waits.          *)
PipeOlder ==
  \A j \in InPipe :
    /\ j[2] <= pos[j[1]]
    /\ \A i \in Waiting : i[1] = j[1] => j[2] < i[2]

DoneTiles == \A t \in inst_finished : ~HasInst(t)

IInv == TypeOK /\ TilesApart /\ OneWaits /\ WaitersReady /\ WaitersRun /\ PipeOlder /\ DoneTiles

LEMMA SmallNumbers ==
  /\ \A n \in Nat : n < 2 => n # 2 /\ (n + 1 = 2 => n = 1)
  /\ \A n \in Nat : n < 2 => \A k \in 1 .. n : n = 1 /\ k = 1
  /\ \A n, m \in Nat : m <= n => m <= n + 1
OBVIOUS

LEMMA EmptyElements == Elements(<<>>) = {}
<1>1. Len(<<>>) = 0
  BY EmptySeq
<1>2. 1 .. 0 = {}
  OBVIOUS
<1> QED BY <1>1, <1>2 DEF Elements

LEMMA HeadElement ==
  ASSUME NEW S, NEW s \in Seq(S), s # <<>>
  PROVE  Head(s) \in Elements(s) /\ Elements(Tail(s)) \subseteq Elements(s)
<1>1. Len(s) \in Nat \ {0}
  BY EmptySeq
<1>2. Head(s) = s[1]
  OBVIOUS
<1>3. /\ Len(Tail(s)) = Len(s) - 1
      /\ \A i \in 1 .. Len(Tail(s)) : Tail(s)[i] = s[i + 1]
  BY HeadTailProperties
<1>4. \A i \in 1 .. Len(Tail(s)) : i + 1 \in 1 .. Len(s) /\ Tail(s)[i] = s[i + 1]
  BY <1>1, <1>3
<1> QED BY <1>1, <1>2, <1>4 DEF Elements

LEMMA AppendElements ==
  ASSUME NEW S, NEW s \in Seq(S), NEW x \in S
  PROVE  Elements(Append(s, x)) = Elements(s) \cup {x}
<1>1. /\ Len(Append(s, x)) = Len(s) + 1
      /\ \A i \in 1 .. Len(s) : Append(s, x)[i] = s[i]
      /\ Append(s, x)[Len(s) + 1] = x
  BY AppendProperties
<1>2. Len(s) \in Nat
  BY LenProperties
<1>3. 1 .. Len(s) + 1 = (1 .. Len(s)) \cup {Len(s) + 1}
  BY <1>2
<1> QED BY <1>1, <1>2, <1>3 DEF Elements

LEMMA SingleTail ==
  ASSUME NEW S, NEW s \in Seq(S), s # <<>>, Len(s) <= 1
  PROVE  Tail(s) = <<>> /\ Elements(s) = {Head(s)}
<1>1. Len(s) = 1
  <2>1. Len(s) \in Nat \ {0}
    BY EmptySeq
  <2> QED BY <2>1
<1>2. Tail(s) \in Seq(S) /\ Len(Tail(s)) = 0
  BY <1>1, HeadTailProperties
<1>3. Tail(s) = <<>>
  BY <1>2, EmptySeq
<1>4. 1 .. 1 = {1} /\ Head(s) = s[1]
  OBVIOUS
<1> QED BY <1>1, <1>3, <1>4 DEF Elements

LEMMA ElementsType ==
  ASSUME NEW S, NEW s \in Seq(S)
  PROVE  Elements(s) \subseteq S
BY ElementOfSeq DEF Elements

(* The halves that tile u works in are as good for it after a step as before*)
(* it.                                                                      *)
Untouched(u) ==
  /\ half'[u] = half[u]
  /\ \A a \in Addr, h \in Half :
       h = half[u][Bank(a)] =>
         /\ sram[a][h].valid => sram'[a][h].valid
         /\ sram'[a][h] # Absent => sram[a][h] # Absent
         /\ used'[Bank(a)][h] = used[Bank(a)][h]

LEMMA ReadyKept ==
  ASSUME TypeOK, NEW i \in Inst, Untouched(i[1]),
         Len(compute') <= Len(compute), vector = <<>> => vector' = <<>>, compute' \in Seq(Inst)
  PROVE  /\ LoadFits(i) => LoadFits(i)'
         /\ CanIssueCompute(i) => CanIssueCompute(i)'
         /\ StoreReady(i) => StoreReady(i)'
<1> DEFINE u == i[1]
           H(a) == HalfOf(u, a)
<1>1. Code(i).dest \in Addr /\ Code(i).srcs \subseteq Addr
  BY InstFacts
<1>2. \A a : H(a) \in Half /\ H(a) = half[u][Bank(a)]
  BY TargetType DEF TypeOK, HalfOf
<1>3. \A a : H(a)' = H(a)
  BY DEF Untouched, HalfOf
<1>4. \A a \in Addr :
        /\ sram[a][H(a)].valid => sram'[a][H(a)].valid
        /\ sram'[a][H(a)] # Absent => sram[a][H(a)] # Absent
        /\ used'[Bank(a)][H(a)] = used[Bank(a)][H(a)]
  BY <1>2 DEF Untouched
<1>5. LoadFits(i) => LoadFits(i)'
  BY <1>1, <1>3, <1>4 DEF LoadFits, CheckAllocated, CheckRemain, Target
<1>6. StoreReady(i) => StoreReady(i)'
  BY <1>1, <1>3, <1>4 DEF StoreReady, CheckHit, Target
<1>7. ASSUME CanIssueCompute(i) PROVE CanIssueCompute(i)'
  <2>1. ASSUME NEW a \in Code(i).srcs PROVE SrcHit(i, a)'
    BY <1>1, <1>3, <1>4, <1>7 DEF CanIssueCompute, SrcHit, CheckHit
  <2>2. PipelineFree(i)'
    <3>1. Len(compute) \in Nat /\ Len(compute') \in Nat /\ PipelineDepth \in Nat
      BY LenProperties, CoreAssumption DEF TypeOK, QueueType
    <3>2. PipelineFree(i)
      BY <1>7 DEF CanIssueCompute
    <3> QED BY <3>1, <3>2 DEF PipelineFree
  <2> QED BY <2>1, <2>2 DEF CanIssueCompute
<1> QED BY <1>5, <1>6, <1>7

LEMMA FillUntouched ==
  ASSUME TypeOK, NEW a \in Addr, NEW h \in Half, Fill(a, h), UNCHANGED half
  PROVE  \A u \in Tile : Untouched(u)
<1>1. SramType
  BY TypeParts
<1>2. used' = used
  BY <1>1, FillFacts
<1>3. \A b \in Addr, g \in Half :
        /\ sram[b][g].valid => sram'[b][g].valid
        /\ sram[b][g] # Absent <=> sram'[b][g] # Absent
  BY <1>1, FillFacts DEF CheckHit, CheckAllocated
<1> QED BY <1>2, <1>3 DEF Untouched

LEMMA SameUntouched ==
  ASSUME UNCHANGED <<half, sramVars>>
  PROVE  \A u \in Tile : Untouched(u)
BY DEF Untouched, sramVars

(* A step that neither issues nor serves an instruction: results of older   *)
(* instructions may arrive and end their tiles.                             *)
LEMMA WaitersStay ==
  ASSUME IInv, TypeOK', OneWaits', UNCHANGED <<issued, tiles, half, pos, ld, ex, st>>,
         \A u \in Tile : Untouched(u),
         Len(compute') <= Len(compute), vector = <<>> => vector' = <<>>,
         InPipe' \subseteq InPipe,
         \A t \in inst_finished' : t \in inst_finished \/ \E j \in InPipe : IsLast(j) /\ j[1] = t
  PROVE  IInv'
<1>0. TypeOK /\ TilesApart /\ OneWaits /\ WaitersReady /\ WaitersRun /\ PipeOlder /\ DoneTiles
  BY DEF IInv
<1>1. Waiting \subseteq Inst /\ InPipe \subseteq Inst
  BY <1>0, ElementsType DEF TypeOK, QueueType, Waiting, InPipe
<1>2. TilesApart'
  BY <1>0 DEF TilesApart, HalvesApart
<1>3. WaitersReady'
  <2>1. ASSUME NEW i \in Waiting
        PROVE  /\ LoadFits(i) => LoadFits(i)'
               /\ CanIssueCompute(i) => CanIssueCompute(i)'
               /\ StoreReady(i) => StoreReady(i)'
    <3>1. i \in Inst /\ i[1] \in Tile
      BY <1>1, InstFacts
    <3>2. compute' \in Seq(Inst)
      BY DEF TypeOK, QueueType
    <3> QED BY <1>0, <3>1, <3>2, ReadyKept
  <2> QED BY <1>0, <2>1 DEF WaitersReady, Waiting
<1>4. ASSUME NEW j \in InPipe, IsLast(j)
      PROVE  ~HasInst(j[1]) /\ \A i \in Waiting : i[1] # j[1]
  <2>1. j[1] \in Tile /\ j[2] = Len(Feed[j[1]].code) /\ Len(Feed[j[1]].code) \in Nat
    BY <1>1, <1>4, InstFacts, CodeLen DEF IsLast
  <2>2. j[2] <= pos[j[1]] /\ pos[j[1]] \in Nat
    BY <1>0, <2>1 DEF PipeOlder, TypeOK
  <2>3. ASSUME NEW i \in Waiting, i[1] = j[1] PROVE FALSE
    <3>1. j[2] < i[2]
      BY <1>0, <2>3 DEF PipeOlder
    <3>2. i[2] <= Len(Feed[j[1]].code) /\ i[2] \in Nat
      BY <1>1, <2>3, InstFacts
    <3> QED BY <2>1, <3>1, <3>2
  <2> QED BY <2>1, <2>2, <2>3 DEF HasInst
<1>5. WaitersRun'
  <2>1. Waiting' = Waiting
    BY DEF Waiting, Elements
  <2>2. ASSUME NEW i \in Waiting
        PROVE  i[1] \in Elements(tiles)' /\ pos'[i[1]] = i[2] /\ (IsLast(i) => i[1] \notin inst_finished')
    BY <1>0, <1>4, <2>2 DEF WaitersRun, Elements
  <2> QED BY <2>1, <2>2 DEF WaitersRun, IsLast
<1>6. PipeOlder'
  <2>1. Waiting' = Waiting
    BY DEF Waiting, Elements
  <2> QED BY <1>0, <2>1 DEF PipeOlder
<1>7. DoneTiles'
  BY <1>0, <1>4 DEF DoneTiles, HasInst
<1> QED BY <1>2, <1>3, <1>5, <1>6, <1>7 DEF IInv

(* A step in which a handler takes the instruction that waits.              *)
LEMMA WaiterServed ==
  ASSUME IInv, TypeOK', UNCHANGED <<issued, tiles, half, pos>>,
         ld' = <<>>, ex' = <<>>, st' = <<>>,
         InPipe' \subseteq InPipe \cup Waiting,
         \A t \in inst_finished' : t \in inst_finished \/ \E j \in Waiting : IsLast(j) /\ j[1] = t
  PROVE  IInv'
<1>0. TypeOK /\ TilesApart /\ WaitersRun /\ PipeOlder /\ DoneTiles
  BY DEF IInv
<1>1. Waiting \subseteq Inst
  BY <1>0, ElementsType DEF TypeOK, QueueType, Waiting
<1>2. Waiting' = {} /\ Elements(ld)' = {} /\ Elements(ex)' = {} /\ Elements(st)' = {}
  BY EmptyElements DEF Waiting
<1>3. TilesApart'
  BY <1>0 DEF TilesApart, HalvesApart
<1>4. OneWaits'
  BY EmptySeq DEF OneWaits
<1>5. WaitersReady' /\ WaitersRun'
  BY <1>2 DEF WaitersReady, WaitersRun
<1>6. ASSUME NEW i \in Waiting
      PROVE  i[2] = pos[i[1]] /\ i[2] \in Nat /\ (IsLast(i) => ~HasInst(i[1]))
  BY <1>0, <1>1, InstFacts DEF WaitersRun, IsLast, HasInst
<1>7. PipeOlder'
  BY <1>0, <1>2, <1>6 DEF PipeOlder
<1>8. DoneTiles'
  BY <1>0, <1>6 DEF DoneTiles, HasInst
<1> QED BY <1>3, <1>4, <1>5, <1>7, <1>8 DEF IInv

(* Core::cycle issues instruction i: it is the only one that waits then.    *)
LEMMA InstIssued ==
  ASSUME IInv, TypeOK', UNCHANGED <<issued, tiles, half, inst_finished, pipeVars, sramVars>>,
         phase = "issue", phase' = "retire",
         NEW i \in Inst, i[1] \in Elements(tiles), HasInst(i[1]), i = NextInst(i[1]),
         pos' = [pos EXCEPT ![i[1]] = i[2]],
         Dispatch(i), CanGo(i), Code(i).opcode = "MOVIN" => LoadFits(i)
  PROVE  IInv'
<1>0. TypeOK /\ TilesApart /\ OneWaits /\ PipeOlder /\ DoneTiles
  BY DEF IInv
<1>1. ld = <<>> /\ ex = <<>> /\ st = <<>>
  BY <1>0 DEF OneWaits
<1>2. /\ <<>> \in Seq(Inst) /\ Len(<<>>) = 0
      /\ Len(Append(<<>>, i)) = 1 /\ Elements(Append(<<>>, i)) = {i}
      /\ Append(<<>>, i) # <<>> /\ Head(Append(<<>>, i)) = i
  <2>1. <<>> \in Seq(Inst) /\ Len(<<>>) = 0
    BY EmptySeq
  <2>2. Elements(Append(<<>>, i)) = {i}
    <3> DEFINE e == <<>>
    <3>1. e \in Seq(Inst) /\ Elements(e) = {}
      BY <2>1, EmptyElements
    <3> HIDE DEF e
    <3>2. Elements(Append(e, i)) = Elements(e) \cup {i}
      BY <3>1, AppendElements
    <3> QED BY <3>1, <3>2 DEF e
  <2>3. Len(Append(<<>>, i)) = 1
    BY <2>1, AppendProperties
  <2> QED BY <2>1, <2>2, <2>3
<1>3. i[1] \in Tile /\ i[2] = pos[i[1]] + 1 /\ pos[i[1]] \in Nat /\ i[2] \in Nat
  BY <1>0, InstFacts DEF NextInst, TypeOK
<1>4. /\ pos' \in [Tile -> Nat]
      /\ pos'[i[1]] = i[2] /\ \A t \in Tile : t # i[1] => pos'[t] = pos[t]
  BY <1>0, <1>3 DEF TypeOK
<1>5. \/ /\ Code(i).opcode = "MOVIN" /\ ld' = Append(<<>>, i) /\ ex' = <<>> /\ st' = <<>>
      \/ /\ Code(i).opcode = "MOVOUT" /\ ld' = <<>> /\ ex' = <<>> /\ st' = Append(<<>>, i)
      \/ /\ Code(i).opcode \notin {"MOVIN", "MOVOUT"} /\ ld' = <<>> /\ ex' = Append(<<>>, i) /\ st' = <<>>
  BY <1>1 DEF Dispatch
<1>6. Waiting' = {i}
  BY <1>2, <1>5, EmptyElements DEF Waiting
<1>7. TilesApart'
  BY <1>0 DEF TilesApart, HalvesApart, Elements
<1>8. OneWaits'
  <2> DEFINE x == Len(ld')
             y == Len(ex')
             z == Len(st')
  <2>1. <<x, y, z>> \in {<<1, 0, 0>>, <<0, 1, 0>>, <<0, 0, 1>>}
    BY <1>2, <1>5
  <2>2. x + y + z <= 1
    <3> HIDE DEF x, y, z
    <3> QED BY ONLY <2>1
  <2> QED BY <2>2 DEF OneWaits
<1>9. WaitersReady'
  <2>1. LoadFits(i) => LoadFits(i)'
    BY DEF LoadFits, CheckAllocated, CheckRemain, Target, HalfOf, sramVars
  <2>2. CanIssueCompute(i) => CanIssueCompute(i)'
    BY DEF CanIssueCompute, SrcHit, CheckHit, HalfOf, PipelineFree, sramVars, pipeVars
  <2>3. StoreReady(i) => StoreReady(i)'
    BY DEF StoreReady, CheckHit, Target, HalfOf, sramVars
  <2>4. /\ Code(i).opcode = "MOVOUT" => StoreReady(i)
        /\ Code(i).opcode \notin {"MOVIN", "MOVOUT"} => CanIssueCompute(i)
    BY DEF CanGo, StoreReady
  <2> QED BY <1>2, <1>5, <2>1, <2>2, <2>3, <2>4, EmptyElements DEF WaitersReady
<1>10. WaitersRun'
  <2>1. i[1] \notin inst_finished
    BY <1>0 DEF DoneTiles
  <2> QED BY <1>4, <1>6, <2>1 DEF WaitersRun, IsLast, Elements
<1>11. PipeOlder'
  <2>1. InPipe' = InPipe /\ InPipe \subseteq Inst
    <3>1. InPipe' = InPipe
      BY DEF InPipe, Elements, pipeVars
    <3> QED BY <1>0, <3>1, ElementsType DEF InPipe, TypeOK, QueueType
  <2>2. ASSUME NEW j \in InPipe
        PROVE  j[2] <= pos'[j[1]] /\ (i[1] = j[1] => j[2] < i[2])
    <3>1. j[1] \in Tile /\ j[2] \in Nat /\ j[2] <= pos[j[1]]
      BY <1>0, <2>1, InstFacts DEF PipeOlder
    <3> QED BY <1>3, <1>4, <3>1
  <2> QED BY <1>6, <2>1, <2>2 DEF PipeOlder
<1>12. DoneTiles'
  <2>1. inst_finished \subseteq Tile /\ i[1] \notin inst_finished
    BY <1>0 DEF DoneTiles, TypeOK
  <2> QED BY <1>0, <1>4, <2>1 DEF DoneTiles, HasInst
<1> QED BY <1>7, <1>8, <1>9, <1>10, <1>11, <1>12 DEF IInv

(* A tile leaves when all its instructions have gone and the last of them   *)
(* is done: none of them waits.                                             *)
LEMMA TileFinished ==
  ASSUME IInv, TypeOK', FinishTile
  PROVE  IInv'
<1>0. TypeOK /\ TilesApart /\ OneWaits /\ WaitersReady /\ WaitersRun /\ PipeOlder /\ DoneTiles
  BY DEF IInv
<1>1. /\ UNCHANGED <<issued, half, pos, inst_finished, queueVars, pipeVars, sramVars>>
      /\ phase = "retire" /\ phase' = "idle"
  BY DEF FinishTile, Handler
<1>2. PICK n \in 1 .. Len(tiles) : IsDone(tiles[n]) /\ tiles' = Without(n)
  BY DEF FinishTile, FirstDone
<1>3. tiles \in Seq(Tile) /\ Len(tiles) \in Nat /\ Len(tiles) <= 2
  BY <1>0, LenProperties DEF TypeOK
<1>4. /\ Len(tiles') = Len(tiles) - 1
      /\ Len(tiles) = 2 => tiles'[1] = IF n = 1 THEN tiles[2] ELSE tiles[1]
  BY <1>2, <1>3, WithoutFacts
<1>5. /\ Elements(tiles) \subseteq Elements(tiles)' \cup {tiles[n]}
      /\ Elements(tiles)' \subseteq Elements(tiles)
  <2>1. CASE Len(tiles) = 1
    <3>1. 1 .. 0 = {} /\ n = 1 /\ 1 .. 1 = {1} /\ Len(tiles') = 0
      BY <1>2, <1>4, <2>1
    <3> QED BY <2>1, <3>1 DEF Elements
  <2>2. CASE Len(tiles) = 2
    <3>1. 1 .. 1 = {1} /\ 1 .. 2 = {1, 2} /\ n \in {1, 2} /\ Len(tiles') = 1
      BY <1>2, <1>4, <2>2
    <3> QED BY <1>4, <2>2, <3>1 DEF Elements
  <2>3. Len(tiles) \in {1, 2}
    <3> DEFINE m == Len(tiles)
    <3>1. m \in Nat /\ m <= 2 /\ n \in 1 .. m
      BY <1>2, <1>3
    <3> HIDE DEF m
    <3>2. m \in {1, 2}
      BY ONLY <3>1
    <3> QED BY <3>2 DEF m
  <2> QED BY <2>1, <2>2, <2>3
<1>6. TilesApart'
  <2>1. Len(tiles') # 2
    BY <1>3, <1>4
  <2> QED BY <1>0, <1>1, <1>5, <2>1 DEF TilesApart, HalvesApart
<1>7. OneWaits'
  BY <1>0, <1>1 DEF OneWaits, queueVars
<1>8. WaitersReady'
  BY <1>0, <1>1 DEF WaitersReady, LoadFits, CanIssueCompute, StoreReady, SrcHit, PipelineFree, CheckHit,
       CheckAllocated, CheckRemain, Target, HalfOf, Elements, queueVars, pipeVars, sramVars
<1>9. Waiting' = Waiting /\ InPipe' = InPipe /\ Waiting \subseteq Inst
  <2>1. Waiting' = Waiting /\ InPipe' = InPipe
    BY <1>1 DEF Waiting, InPipe, Elements, queueVars, pipeVars
  <2> QED BY <1>0, <2>1, ElementsType DEF Waiting, TypeOK, QueueType
<1>10. ASSUME NEW i \in Waiting PROVE i[1] # tiles[n]
  <2>1. SUFFICES ASSUME i[1] = tiles[n] PROVE FALSE
    OBVIOUS
  <2>2. pos[i[1]] = i[2] /\ (IsLast(i) => i[1] \notin inst_finished)
    BY <1>0 DEF WaitersRun
  <2>3. ~HasInst(i[1]) /\ i[1] \in inst_finished
    BY <1>2, <2>1 DEF IsDone
  <2>4. i[2] \in Nat /\ i[2] <= Len(Feed[i[1]].code) /\ Len(Feed[i[1]].code) \in Nat
    BY <1>9, InstFacts, CodeLen
  <2> QED BY <2>2, <2>3, <2>4 DEF HasInst, IsLast
<1>11. WaitersRun'
  BY <1>0, <1>1, <1>5, <1>9, <1>10 DEF WaitersRun, IsLast
<1>12. PipeOlder' /\ DoneTiles'
  BY <1>0, <1>1, <1>9 DEF PipeOlder, DoneTiles, HasInst
<1> QED BY <1>6, <1>7, <1>8, <1>11, <1>12 DEF IInv

(* The halves of a new tile are not those of the tile that runs, unless it  *)
(* accumulates onto the same operation, and then they are not flushed.      *)
LEMMA HalvesBeside ==
  ASSUME TypeOK, TilesApart, IssueTile, NEW u \in Elements(tiles)
  PROVE  /\ Len(tiles) = 1 /\ u = tiles[1] /\ OtherHalf = half[u] /\ half'[u] = half[u]
         /\ half[u].spad \in Half /\ half[u].acc \in Half /\ u # issued + 1
         /\ \A a : ~Flushes(issued + 1, Bank(a), half[u][Bank(a)])
<1> DEFINE t == issued + 1
<1>1. half' = [half EXCEPT ![t] = HalvesFor(t)] /\ Len(tiles) < 2
  BY DEF IssueTile, CanIssue
<1>2. /\ tiles \in Seq(Tile) /\ Len(tiles) \in Nat /\ issued \in Nat /\ t \in Tile
      /\ u \in Tile /\ u # t
  <2>1. tiles \in Seq(Tile)
    BY DEF TypeOK
  <2>2. t \in 1 .. Len(Feed) /\ issued \in Nat
    BY FeedLen DEF IssueTile, TypeOK
  <2>3. u \in Tile /\ u <= issued
    BY <2>1, ElementsType DEF TilesApart
  <2>4. u # t
    BY <2>2, <2>3
  <2> QED BY <2>1, <2>2, <2>3, <2>4, LenProperties DEF Tile
<1>3. PICK n \in 1 .. Len(tiles) : u = tiles[n]
  BY DEF Elements
<1>4. Len(tiles) = 1 /\ n = 1
  BY <1>1, <1>2, SmallNumbers
<1>5. half[u] \in [spad : Half, acc : Half] /\ half'[u] = half[u]
  BY <1>1, <1>2 DEF TypeOK
<1>6. OtherHalf = half[u]
  BY <1>3, <1>4 DEF OtherHalf
<1>7. /\ HalvesFor(t).spad = 1 - half[u].spad
      /\ HalvesFor(t).acc = IF SameOp(t) THEN half[u].acc ELSE 1 - half[u].acc
  BY <1>6 DEF HalvesFor
<1>8. half[u].spad # 1 - half[u].spad /\ half[u].acc # 1 - half[u].acc
  BY <1>5 DEF Half
<1>9. ASSUME NEW a
      PROVE  ~Flushes(t, Bank(a), half[u][Bank(a)])
  <2>1. CASE Bank(a) = "spad"
    BY <1>7, <1>8, <2>1 DEF Flushes
  <2>2. CASE Bank(a) = "acc"
    BY <1>7, <1>8, <2>2 DEF Flushes
  <2> QED BY <2>1, <2>2, BankType
<1> QED BY <1>2, <1>3, <1>4, <1>5, <1>6, <1>9

LEMMA TileIssued ==
  ASSUME IInv, TypeOK', IssueTile
  PROVE  IInv'
<1> DEFINE t == issued + 1
<1>0. TypeOK /\ TilesApart /\ OneWaits /\ WaitersReady /\ WaitersRun /\ PipeOlder /\ DoneTiles
  BY DEF IInv
<1>1. /\ UNCHANGED <<pos, inst_finished, queueVars, pipeVars>>
      /\ phase = "idle" /\ phase' = "compute"
      /\ issued' = t /\ Len(tiles) < 2
      /\ half' = [half EXCEPT ![t] = HalvesFor(t)]
      /\ sram' = [a \in Addr |-> [h \in Half |-> IF Flushes(t, Bank(a), h) THEN Absent ELSE sram[a][h]]]
      /\ used' = [b \in {"spad", "acc"} |-> [h \in Half |-> IF Flushes(t, b, h) THEN 0 ELSE used[b][h]]]
      /\ tiles' = tiles \/ tiles' = Append(tiles, t)
  BY DEF IssueTile, CanIssue, Handler
<1>2. /\ tiles \in Seq(Tile) /\ Len(tiles) \in Nat /\ issued \in Nat /\ t \in Nat
      /\ Elements(tiles) \subseteq Tile /\ t \in Tile /\ Tile \subseteq Nat
  <2>1. tiles \in Seq(Tile)
    BY <1>0 DEF TypeOK
  <2>2. t \in 1 .. Len(Feed) /\ issued \in Nat
    BY <1>0, FeedLen DEF IssueTile, TypeOK
  <2> QED BY <2>1, <2>2, FeedLen, LenProperties, ElementsType DEF Tile
<1>3. \A u \in Elements(tiles) : u # t
  BY <1>0, HalvesBeside
<1>4. ASSUME NEW u \in Elements(tiles)
      PROVE  Len(tiles) = 1 /\ u = tiles[1] /\ OtherHalf = half[u] /\ half'[u] = half[u]
             /\ half[u].spad \in Half /\ half[u].acc \in Half
  BY <1>0, HalvesBeside
<1>5. ASSUME NEW u \in Elements(tiles), NEW a
      PROVE  ~Flushes(t, Bank(a), half[u][Bank(a)])
  BY <1>0, HalvesBeside
<1>6. ASSUME NEW u \in Elements(tiles)
      PROVE  Untouched(u)
  <2>1. ASSUME NEW a \in Addr, NEW h \in Half, h = half[u][Bank(a)]
        PROVE  sram'[a][h] = sram[a][h] /\ used'[Bank(a)][h] = used[Bank(a)][h]
    <3>1. ~Flushes(t, Bank(a), h)
      BY <1>5, <2>1
    <3> HIDE DEF t
    <3> QED BY <1>1, <3>1, BankType
  <2> QED BY <1>4, <2>1 DEF Untouched
<1>7. TilesApart'
  <2>1. CASE tiles' = tiles
    <3>1. Len(tiles') # 2
      BY <1>1, <1>2, <2>1, SmallNumbers
    <3>2. \A u \in Elements(tiles) : u <= t
      BY <1>0, <1>2, SmallNumbers DEF TilesApart
    <3> QED BY <1>1, <2>1, <3>1, <3>2 DEF TilesApart, HalvesApart, Elements
  <2>2. CASE tiles' = Append(tiles, t)
    <3> HIDE DEF t
    <3>1. Elements(tiles)' = Elements(tiles) \cup {t}
      BY <1>2, <2>2, AppendElements
    <3>2. \A u \in Elements(tiles)' : u <= t
      <4>1. \A u \in Elements(tiles) : u <= t
        BY <1>0, <1>2, SmallNumbers DEF TilesApart, t
      <4>2. t <= t
        BY <1>2
      <4> QED BY <3>1, <4>1, <4>2
    <3>3. ASSUME Len(tiles') = 2
          PROVE  LET u == tiles'[1]
                     v == tiles'[2] IN
                 /\ u # v
                 /\ half'[u].spad # half'[v].spad
                 /\ half'[u].acc = half'[v].acc => Feed[v].accum
      <4>1. Len(tiles) = 1 /\ tiles'[1] = tiles[1] /\ tiles'[2] = t
        <5>1. /\ Len(Append(tiles, t)) = Len(tiles) + 1
              /\ \A k \in 1 .. Len(tiles) : Append(tiles, t)[k] = tiles[k]
              /\ Append(tiles, t)[Len(tiles) + 1] = t
          BY <1>2, AppendProperties
        <5>2. Len(tiles) = 1
          BY <1>1, <1>2, <2>2, <3>3, <5>1, SmallNumbers
        <5> QED BY <2>2, <5>1, <5>2
      <4>2. tiles[1] \in Elements(tiles)
        BY <4>1 DEF Elements
      <4>3. /\ half'[tiles[1]] = half[tiles[1]] /\ OtherHalf = half[tiles[1]]
            /\ half[tiles[1]].spad \in Half /\ half[tiles[1]].acc \in Half
        BY <1>4, <4>2
      <4>4. half'[t] = HalvesFor(t)
        BY <1>0, <1>1, <1>2 DEF TypeOK
      <4>5. /\ HalvesFor(t).spad = 1 - half[tiles[1]].spad
            /\ HalvesFor(t).acc = IF SameOp(t) THEN half[tiles[1]].acc ELSE 1 - half[tiles[1]].acc
        BY <4>3 DEF HalvesFor
      <4>6. tiles[1] # t
        BY <1>3, <4>2
      <4> QED BY <4>1, <4>3, <4>4, <4>5, <4>6 DEF Half, SameOp
    <3> QED BY <1>1, <3>2, <3>3 DEF TilesApart, HalvesApart
  <2> QED BY <1>1, <2>1, <2>2
<1>8. OneWaits'
  BY <1>0, <1>1 DEF OneWaits, queueVars
<1>9. Waiting' = Waiting /\ InPipe' = InPipe /\ Waiting \subseteq Inst
  <2>1. Waiting' = Waiting /\ InPipe' = InPipe
    BY <1>1 DEF Waiting, InPipe, Elements, queueVars, pipeVars
  <2> QED BY <1>0, <2>1, ElementsType DEF Waiting, TypeOK, QueueType
<1>10. WaitersReady'
  <2>1. ASSUME NEW i \in Waiting
        PROVE  /\ LoadFits(i) => LoadFits(i)'
               /\ CanIssueCompute(i) => CanIssueCompute(i)'
               /\ StoreReady(i) => StoreReady(i)'
    <3>1. i \in Inst /\ Untouched(i[1])
      BY <1>0, <1>6, <1>9 DEF WaitersRun
    <3>2. compute' \in Seq(Inst) /\ compute' = compute /\ vector' = vector /\ Len(compute) \in Nat
      BY <1>0, <1>1, LenProperties DEF pipeVars, TypeOK, QueueType
    <3> QED BY <1>0, <3>1, <3>2, ReadyKept
  <2>2. Elements(ld)' = Elements(ld) /\ Elements(ex)' = Elements(ex) /\ Elements(st)' = Elements(st)
    BY <1>1 DEF Elements, queueVars
  <2> QED BY <1>0, <2>1, <2>2 DEF WaitersReady, Waiting
<1>11. WaitersRun'
  <2>1. Elements(tiles) \subseteq Elements(tiles)'
    <3>1. CASE tiles' = tiles
      BY <3>1 DEF Elements
    <3>2. CASE tiles' = Append(tiles, t)
      <4> HIDE DEF t
      <4> QED BY <1>2, <3>2, AppendElements
    <3> QED BY <1>1, <3>1, <3>2
  <2> QED BY <1>0, <1>1, <1>9, <2>1 DEF WaitersRun, IsLast
<1>12. PipeOlder' /\ DoneTiles'
  BY <1>0, <1>1, <1>9 DEF PipeOlder, DoneTiles, HasInst
<1> QED BY <1>7, <1>8, <1>10, <1>11, <1>12 DEF IInv

LEMMA OnlyWaiter ==
  ASSUME OneWaits, ld \in Seq(Inst), ex \in Seq(Inst), st \in Seq(Inst)
  PROVE  /\ ld # <<>> => Tail(ld) = <<>> /\ ex = <<>> /\ st = <<>>
         /\ ex # <<>> => Tail(ex) = <<>> /\ ld = <<>> /\ st = <<>>
         /\ st # <<>> => Tail(st) = <<>> /\ ld = <<>> /\ ex = <<>>
<1> DEFINE x == Len(ld)
           y == Len(ex)
           z == Len(st)
<1>1. /\ x \in Nat /\ y \in Nat /\ z \in Nat /\ x + y + z <= 1
      /\ ld # <<>> => x # 0
      /\ ex # <<>> => y # 0
      /\ st # <<>> => z # 0
  BY LenProperties, EmptySeq DEF OneWaits
<1>2. /\ x # 0 => x <= 1 /\ y = 0 /\ z = 0
      /\ y # 0 => y <= 1 /\ x = 0 /\ z = 0
      /\ z # 0 => z <= 1 /\ x = 0 /\ y = 0
  <2> HIDE DEF x, y, z
  <2> QED BY <1>1
<1> QED BY <1>1, <1>2, SingleTail

LEMMA TurnInRange ==
  ASSUME TypeOK, NEW k \in 0 .. Len(tiles) - 1
  PROVE  ((k + tile_rr) % Len(tiles)) + 1 \in 1 .. Len(tiles)
<1> DEFINE n == Len(tiles)
           s == k + tile_rr
<1>1. n \in Nat /\ k \in 0 .. n - 1 /\ tile_rr \in {0, 1}
  BY LenProperties DEF TypeOK
<1>2. n \in Nat \ {0} /\ s \in Nat
  <2> HIDE DEF n
  <2> QED BY <1>1
<1>3. (s % n) + 1 \in 1 .. n
  <2> HIDE DEF n, s
  <2> QED BY <1>2
<1> QED BY <1>3

(* The instruction that IssueInst finds.                                    *)
LEMMA InstChosen ==
  ASSUME TypeOK, IssueInst
  PROVE  /\ \E i \in Inst : /\ i[1] \in Elements(tiles) /\ HasInst(i[1]) /\ i = NextInst(i[1]) /\ CanGo(i)
                           /\ IF Code(i).opcode = "MOVIN" /\ ~LoadFits(i)
                                THEN aborted' = TRUE /\ UNCHANGED <<queueVars, pos>>
                                ELSE /\ Dispatch(i) /\ pos' = [pos EXCEPT ![i[1]] = i[2]]
                                     /\ aborted' = aborted
         /\ UNCHANGED <<issued, tiles, half, inst_finished, pipeVars, sramVars, memVars>>
<1>1. PICK k \in 0 .. Len(tiles) - 1 :
        /\ FirstToGo(k)
        /\ LET i == NextInst(InTurn(k)) IN
           IF Code(i).opcode = "MOVIN" /\ ~LoadFits(i)
             THEN aborted' = TRUE /\ UNCHANGED <<queueVars, pos>>
             ELSE Dispatch(i) /\ pos' = [pos EXCEPT ![i[1]] = @ + 1] /\ aborted' = aborted
  BY DEF IssueInst
<1> DEFINE t == InTurn(k)
           i == NextInst(t)
<1>2. HasInst(t) /\ CanGo(i)
  BY <1>1 DEF FirstToGo, Goes
<1>3. ((k + tile_rr) % Len(tiles)) + 1 \in 1 .. Len(tiles)
  BY <1>1, TurnInRange
<1>4. t \in Elements(tiles) /\ t \in Tile
  <2>1. t \in Elements(tiles)
    BY <1>3 DEF Elements, InTurn
  <2> QED BY <2>1, ElementsType DEF TypeOK
<1>5. i \in Inst /\ i[1] = t /\ i[2] = pos[t] + 1
  BY <1>2, <1>4, NextInstType DEF TypeOK
<1>6. IF Code(i).opcode = "MOVIN" /\ ~LoadFits(i)
        THEN aborted' = TRUE /\ UNCHANGED <<queueVars, pos>>
        ELSE Dispatch(i) /\ pos' = [pos EXCEPT ![i[1]] = i[2]] /\ aborted' = aborted
  BY <1>1, <1>5
<1>7. i = NextInst(i[1])
  BY <1>5
<1> HIDE DEF i, t
<1> QED BY <1>2, <1>4, <1>5, <1>6, <1>7 DEF IssueInst

LEMMA InitIInv == Init => IInv
<1> SUFFICES ASSUME Init PROVE IInv
  OBVIOUS
<1>1. TypeOK
  BY TypeInit
<1>2. tiles = <<>> /\ ld = <<>> /\ ex = <<>> /\ st = <<>> /\ compute = <<>> /\ vector = <<>> /\ inst_finished = {}
  BY DEF Init
<1>3. Waiting = {} /\ InPipe = {}
  BY <1>2, EmptyElements DEF Waiting, InPipe
<1>4. TilesApart
  BY <1>2, EmptyElements, EmptySeq DEF TilesApart, HalvesApart
<1>5. OneWaits
  BY <1>2, EmptySeq DEF OneWaits
<1> QED BY <1>1, <1>2, <1>3, <1>4, <1>5, EmptyElements DEF IInv, WaitersReady, WaitersRun, PipeOlder, DoneTiles

(* A step that touches nothing the invariant speaks of but the phase.       *)
LEMMA Quiet ==
  ASSUME TypeOK, UNCHANGED <<issued, tiles, half, pos, inst_finished, queueVars, pipeVars, sramVars>>
  PROVE  /\ UNCHANGED <<issued, tiles, half, pos, ld, ex, st>>
         /\ \A u \in Tile : Untouched(u)
         /\ Len(compute') <= Len(compute) /\ (vector = <<>> => vector' = <<>>)
         /\ InPipe' \subseteq InPipe
         /\ inst_finished' = inst_finished
<1>1. Len(compute) \in Nat
  BY LenProperties DEF TypeOK, QueueType
<1> QED BY <1>1, SameUntouched DEF queueVars, pipeVars, InPipe, Elements

LEMMA QuietStep ==
  ASSUME IInv, TypeOK', OneWaits',
         UNCHANGED <<issued, tiles, half, pos, inst_finished, queueVars, pipeVars, sramVars>>
  PROVE  IInv'
<1>1. TypeOK
  BY DEF IInv
<1> QED BY <1>1, Quiet, WaitersStay

THEOREM IInvStep == IInv /\ [Next]_vars => IInv'
<1> SUFFICES ASSUME IInv, [Next]_vars PROVE IInv'
  OBVIOUS
<1>0. TypeOK /\ OneWaits /\ WaitersReady
  BY DEF IInv
<1>1. TypeOK'
  BY <1>0, TypeStep
<1>2. /\ Len(compute) \in Nat /\ Len(compute') \in Nat /\ compute \in Seq(Inst) /\ vector \in Seq(Inst)
      /\ ld \in Seq(Inst) /\ ex \in Seq(Inst) /\ st \in Seq(Inst)
  BY <1>0, <1>1, LenProperties DEF TypeOK, QueueType
<1>3. CASE ComputeDone
  <2> DEFINE j == Head(compute)
  <2>1. /\ compute # <<>> /\ compute' = Tail(compute) /\ MarkIfLast(j)
        /\ Fill(Code(j).dest, Target(j)) /\ vector' = vector
        /\ UNCHANGED <<issued, tiles, half, pos, ld, ex, st>>
        /\ phase' = "vector"
    BY <1>3 DEF ComputeDone, Handler, queueVars
  <2>2. j \in Inst /\ j \in Elements(compute) /\ Elements(compute)' \subseteq Elements(compute)
    BY <1>2, <2>1, HeadTailProperties, HeadElement
  <2>3. Code(j).dest \in Addr /\ Target(j) \in Half
    BY <1>0, <2>2, InstFacts, TargetType DEF TypeOK
  <2>4. \A u \in Tile : Untouched(u)
    BY <1>0, <2>1, <2>3, FillUntouched
  <2>5. Len(compute') <= Len(compute)
    <3>1. Len(compute') = Len(compute) - 1
      BY <1>2, <2>1, HeadTailProperties
    <3> QED BY <1>2, <3>1
  <2>6. InPipe' \subseteq InPipe /\ j \in InPipe
    BY <2>1, <2>2 DEF InPipe, Elements
  <2>7. \A t \in inst_finished' : t \in inst_finished \/ \E i \in InPipe : IsLast(i) /\ i[1] = t
    BY <2>1, <2>6 DEF MarkIfLast
  <2>8. OneWaits'
    BY <1>0, <2>1 DEF OneWaits
  <2> QED BY <1>1, <2>1, <2>4, <2>5, <2>6, <2>7, <2>8, WaitersStay
<1>4. CASE VectorDone
  <2> DEFINE j == Head(vector)
  <2>1. /\ vector # <<>> /\ vector' = Tail(vector) /\ MarkIfLast(j)
        /\ Fill(Code(j).dest, Target(j)) /\ compute' = compute
        /\ UNCHANGED <<issued, tiles, half, pos, ld, ex, st>>
        /\ phase' = "load"
    BY <1>4 DEF VectorDone, Handler, queueVars
  <2>2. j \in Inst /\ j \in Elements(vector) /\ Elements(vector)' \subseteq Elements(vector)
    BY <1>2, <2>1, HeadTailProperties, HeadElement
  <2>3. Code(j).dest \in Addr /\ Target(j) \in Half
    BY <1>0, <2>2, InstFacts, TargetType DEF TypeOK
  <2>4. \A u \in Tile : Untouched(u)
    BY <1>0, <2>1, <2>3, FillUntouched
  <2>5. Len(compute') <= Len(compute)
    BY <1>2, <2>1
  <2>6. InPipe' \subseteq InPipe /\ j \in InPipe
    BY <2>1, <2>2 DEF InPipe, Elements
  <2>7. \A t \in inst_finished' : t \in inst_finished \/ \E i \in InPipe : IsLast(i) /\ i[1] = t
    BY <2>1, <2>6 DEF MarkIfLast
  <2>8. OneWaits'
    BY <1>0, <2>1 DEF OneWaits
  <2> QED BY <1>1, <2>1, <2>4, <2>5, <2>6, <2>7, <2>8, WaitersStay
<1>5. CASE ComputeNotDone \/ VectorNotDone \/ NothingToIssue \/ NoTile
  <2>1. UNCHANGED <<issued, tiles, half, pos, inst_finished, queueVars, pipeVars, sramVars>>
        /\ phase' \in {"vector", "load", "retire", "compute"}
    BY <1>5 DEF ComputeNotDone, VectorNotDone, NothingToIssue, NoTile, Handler, tileVars
  <2>2. OneWaits'
    BY <1>0, <2>1 DEF OneWaits, queueVars
  <2> QED BY <1>1, <2>1, <2>2, QuietStep
<1>6. CASE HandleLoad
  <2>1. phase = "load" /\ phase' = "execute" /\ UNCHANGED <<tileVars, ex, st, pipeVars>>
    BY <1>6 DEF HandleLoad, Handler
  <2>2. CASE ld = <<>>
    <3>1. UNCHANGED <<issued, tiles, half, pos, inst_finished, queueVars, pipeVars, sramVars>> /\ ld' = <<>>
      BY <1>6, <2>1, <2>2 DEF HandleLoad, tileVars, queueVars
    <3>2. OneWaits'
      BY <1>0, <2>1, <2>2, <3>1 DEF OneWaits, queueVars
    <3> QED BY <1>1, <3>1, <3>2, QuietStep
  <2>3. CASE ld # <<>>
    <3>1. ld' = Tail(ld)
      BY <1>6, <2>3 DEF HandleLoad
    <3>2. ld' = <<>> /\ ex' = <<>> /\ st' = <<>>
      BY <1>0, <1>2, <2>1, <2>3, <3>1, OnlyWaiter
    <3>3. InPipe' = InPipe /\ inst_finished' = inst_finished /\ UNCHANGED <<issued, tiles, half, pos>>
      BY <2>1 DEF InPipe, Elements, pipeVars, tileVars
    <3> QED BY <1>1, <3>2, <3>3, WaiterServed
  <2> QED BY <2>2, <2>3
<1>7. CASE Execute
  <2>1. phase = "execute" /\ phase' = "store" /\ UNCHANGED <<tileVars, ld, st>> /\ ld = <<>>
    BY <1>0, <1>7 DEF Execute, Handler, OneWaits
  <2>2. CASE ex = <<>>
    <3>1. UNCHANGED <<issued, tiles, half, pos, inst_finished, queueVars, pipeVars, sramVars>> /\ ex' = <<>>
      BY <1>7, <2>1, <2>2 DEF Execute, tileVars, queueVars
    <3>2. OneWaits'
      BY <1>0, <2>1, <2>2, <3>1 DEF OneWaits, queueVars
    <3> QED BY <1>1, <3>1, <3>2, QuietStep
  <2>3. CASE ex # <<>>
    <3> DEFINE i == Head(ex)
    <3>1. i \in Elements(ex) /\ CanIssueCompute(i) /\ i \in Inst
      BY <1>0, <1>2, <2>3, HeadElement, HeadTailProperties DEF WaitersReady
    <3>2. ex' = Tail(ex) /\ Enqueue(i)
      BY <1>7, <2>3, <3>1 DEF Execute
    <3>3. ld' = <<>> /\ ex' = <<>> /\ st' = <<>>
      BY <1>0, <1>2, <2>1, <2>3, <3>2, OnlyWaiter
    <3>4. InPipe' \subseteq InPipe \cup Waiting
      <4>1. Elements(Append(compute, i)) = Elements(compute) \cup {i}
            /\ Elements(Append(vector, i)) = Elements(vector) \cup {i}
        BY <1>2, <3>1, AppendElements
      <4>2. \/ compute' = Append(compute, i) /\ vector' = vector
            \/ compute' = compute /\ vector' = Append(vector, i)
        BY <3>2 DEF Enqueue
      <4> HIDE DEF i
      <4>3. InPipe' \subseteq InPipe \cup {i}
        BY <4>1, <4>2 DEF InPipe, Elements
      <4> QED BY <3>1, <4>3 DEF Waiting
    <3>5. inst_finished' = inst_finished /\ UNCHANGED <<issued, tiles, half, pos>>
      BY <2>1 DEF tileVars
    <3> QED BY <1>1, <3>3, <3>4, <3>5, WaiterServed
  <2> QED BY <2>2, <2>3
<1>8. CASE HandleStore
  <2>1. /\ phase = "store" /\ phase' = "issue" /\ ld = <<>> /\ ex = <<>>
        /\ UNCHANGED <<issued, tiles, half, pos, ld, ex, pipeVars, sramVars>>
    BY <1>0, <1>8 DEF HandleStore, Handler, OneWaits
  <2>2. CASE st = <<>>
    <3>1. UNCHANGED <<inst_finished, st>> /\ st' = <<>>
      BY <1>8, <2>2 DEF HandleStore
    <3>2. OneWaits'
      BY <1>0, <2>1, <2>2, <3>1 DEF OneWaits
    <3>3. UNCHANGED <<issued, tiles, half, pos, inst_finished, queueVars, pipeVars, sramVars>>
      BY <2>1, <3>1 DEF queueVars
    <3> QED BY <1>1, <3>2, <3>3, QuietStep
  <2>3. CASE st # <<>>
    <3> DEFINE i == Head(st)
    <3>1. i \in Elements(st) /\ CheckHit(Code(i).dest, Target(i))
      BY <1>0, <1>2, <2>3, HeadElement DEF WaitersReady, StoreReady
    <3>2. st' = Tail(st) /\ MarkIfLast(i)
      BY <1>8, <2>3, <3>1 DEF HandleStore
    <3>3. ld' = <<>> /\ ex' = <<>> /\ st' = <<>>
      BY <1>0, <1>2, <2>1, <2>3, <3>2, OnlyWaiter
    <3>4. InPipe' = InPipe
      BY <2>1 DEF InPipe, Elements, pipeVars
    <3>5. \A t \in inst_finished' : t \in inst_finished \/ \E j \in Waiting : IsLast(j) /\ j[1] = t
      BY <3>1, <3>2 DEF MarkIfLast, Waiting
    <3> QED BY <1>1, <2>1, <3>3, <3>4, <3>5, WaiterServed
  <2> QED BY <2>2, <2>3
<1>9. CASE IssueInst
  <2>1. PICK i \in Inst : /\ i[1] \in Elements(tiles) /\ HasInst(i[1]) /\ i = NextInst(i[1]) /\ CanGo(i)
                          /\ IF Code(i).opcode = "MOVIN" /\ ~LoadFits(i)
                               THEN UNCHANGED <<queueVars, pos>>
                               ELSE Dispatch(i) /\ pos' = [pos EXCEPT ![i[1]] = i[2]]
    BY <1>0, <1>9, InstChosen
  <2>2. /\ phase = "issue" /\ phase' = "retire"
        /\ UNCHANGED <<issued, tiles, half, inst_finished, pipeVars, sramVars>>
    BY <1>9 DEF IssueInst, Handler
  <2>3. CASE Code(i).opcode = "MOVIN" /\ ~LoadFits(i)
    <3>1. UNCHANGED <<issued, tiles, half, pos, inst_finished, queueVars, pipeVars, sramVars>>
      BY <2>1, <2>2, <2>3
    <3>2. OneWaits'
      BY <1>0, <2>2, <3>1 DEF OneWaits, queueVars
    <3> QED BY <1>1, <3>1, <3>2, QuietStep
  <2>4. CASE ~(Code(i).opcode = "MOVIN" /\ ~LoadFits(i))
    BY <1>1, <2>1, <2>2, <2>4, InstIssued
  <2> QED BY <2>3, <2>4
<1>10. CASE FinishTile
  BY <1>1, <1>10, TileFinished
<1>11. CASE NoFinishedTile
  <2>1. UNCHANGED <<issued, tiles, half, pos, inst_finished, queueVars, pipeVars, sramVars>> /\ phase' = "idle"
    BY <1>11 DEF NoFinishedTile, Handler, tileVars
  <2>2. OneWaits'
    BY <1>0, <2>1 DEF OneWaits, queueVars
  <2> QED BY <1>1, <2>1, <2>2, QuietStep
<1>12. CASE IssueTile
  BY <1>1, <1>12, TileIssued
<1>13. CASE PopFinishedTile \/ PopMemoryRequest \/ UNCHANGED vars
  <2>1. UNCHANGED <<issued, tiles, half, pos, inst_finished, queueVars, pipeVars, sramVars, phase>>
    BY <1>13 DEF PopFinishedTile, PopMemoryRequest, BetweenCycles, vars, tileVars
  <2>2. OneWaits'
    BY <1>0, <2>1 DEF OneWaits, queueVars
  <2> QED BY <1>1, <2>1, <2>2, QuietStep
<1>14. ASSUME NEW x \in memory, PushMemoryResponse(x)
       PROVE  IInv'
  <2>1. /\ UNCHANGED <<issued, tiles, half, pos, inst_finished, queueVars, pipeVars, phase>>
        /\ UNCHANGED sramVars \/ Fill(Code(InstOf(x)).dest, Target(InstOf(x)))
    BY <1>14 DEF PushMemoryResponse, BetweenCycles, tileVars
  <2>2. OneWaits'
    BY <1>0, <2>1 DEF OneWaits, queueVars
  <2>3. InstOf(x) \in Inst
    BY <1>0, AccessFacts DEF TypeOK
  <2>4. Code(InstOf(x)).dest \in Addr /\ Target(InstOf(x)) \in Half
    BY <1>0, <2>3, InstFacts, TargetType DEF TypeOK
  <2>5. \A u \in Tile : Untouched(u)
    BY <1>0, <2>1, <2>4, FillUntouched, SameUntouched
  <2>6. /\ UNCHANGED <<ld, ex, st>> /\ Len(compute') <= Len(compute)
        /\ (vector = <<>> => vector' = <<>>) /\ InPipe' \subseteq InPipe
    BY <1>2, <2>1 DEF queueVars, pipeVars, InPipe, Elements
  <2> QED BY <1>1, <2>1, <2>2, <2>5, <2>6, WaitersStay
<1> QED BY <1>3, <1>4, <1>5, <1>6, <1>7, <1>8, <1>9, <1>10, <1>11, <1>12, <1>13, <1>14
        DEF Next, Cycle, Response

LEMMA Invariance == Spec => []IInv
<1>1. Init => IInv
  BY InitIInv
<1>2. IInv /\ [Next]_vars => IInv'
  BY IInvStep
<1> QED BY <1>1, <1>2, PTL DEF Spec

LEMMA IInvReady == IInv => QueuedStillReady
<1> SUFFICES ASSUME IInv PROVE QueuedStillReady
  OBVIOUS
<1>1. TypeOK /\ OneWaits /\ WaitersReady
  BY DEF IInv
<1>2. /\ ld # <<>> => Head(ld) \in Elements(ld)
      /\ ex # <<>> => Head(ex) \in Elements(ex)
      /\ st # <<>> => Head(st) \in Elements(st)
  BY <1>1, HeadElement DEF TypeOK, QueueType
<1>3. /\ ld # <<>> => LoadFits(Head(ld))
      /\ ex # <<>> => CanIssueCompute(Head(ex))
      /\ st # <<>> => CheckHit(Code(Head(st)).dest, Target(Head(st)))
  BY <1>1, <1>2 DEF WaitersReady, StoreReady
<1> QED BY <1>1, <1>3 DEF QueuedStillReady, OneWaits

(* Whatever tiles a core is given, and however fast its pipelines and the   *)
(* memory answer, at most one instruction waits in its three queues and the *)
(* condition under which Core::cycle issued it still holds when its handler *)
(* runs in the next cycle, after results arrived and a tile was issued in   *)
(* between: handle_st_inst_queue never leaves a null pointer behind.        *)
THEOREM QueuesStayReady == Spec => []QueuedStillReady
BY Invariance, IInvReady, PTL

(* Whatever tiles a core is given, the two it runs never share a scratchpad *)
(* half, and share an accumulator half only when the younger accumulates:   *)
(* Core::issue never flushes what the tile beside the new one works in.     *)
THEOREM TilesKeepApart == Spec => []HalvesApart
<1>1. IInv => HalvesApart
  BY DEF IInv, TilesApart
<1> QED BY <1>1, Invariance, PTL

-----------------------------------------------------------------------------
(* The writes that are outstanding.                                        *)

Requested == Elements(request_queue)

(* Every access is asked for once, after its instruction went to its queue  *)
(* and left it: no access in the queue or in the memory is one of an        *)
(* instruction that waits or that was not issued.                           *)
AskedOnce ==
  /\ IsFiniteSet(memory)
  /\ \A i, j \in 1 .. Len(request_queue) : request_queue[i] = request_queue[j] => i = j
  /\ Requested \cap memory = {}
  /\ \A x \in Requested \cup memory :
       x[2] <= pos[x[1]] /\ InstOf(x) \notin Waiting

(* What waits to be loaded reads, what waits to be stored writes.           *)
QueuesSorted ==
  /\ \A i \in Elements(ld) : Code(i).opcode = "MOVIN"
  /\ \A i \in Elements(st) : Code(i).opcode = "MOVOUT"

Outstanding == {x \in Requested \cup memory : IsWrite(x)}

WriteInv == QueuesSorted /\ AskedOnce /\ waiting_write_reqs = Cardinality(Outstanding)

LEMMA AppendDistinct ==
  ASSUME NEW S, NEW s \in Seq(S), NEW x \in S, x \notin Elements(s),
         \A i, j \in 1 .. Len(s) : s[i] = s[j] => i = j
  PROVE  \A i, j \in 1 .. Len(Append(s, x)) : Append(s, x)[i] = Append(s, x)[j] => i = j
<1> DEFINE a == Append(s, x)
           n == Len(s)
<1>1. n \in Nat /\ Len(a) = n + 1 /\ a[n + 1] = x /\ \A i \in 1 .. n : a[i] = s[i]
  BY LenProperties, AppendProperties
<1>2. \A i \in 1 .. n : s[i] # x
  BY DEF Elements
<1>3. \A i, j \in 1 .. n : s[i] = s[j] => i = j
  OBVIOUS
<1> HIDE DEF a, n
<1>4. \A i \in 1 .. n + 1 : i \in 1 .. n \/ i = n + 1
  BY <1>1
<1>5. \A i, j \in 1 .. n + 1 : a[i] = a[j] => i = j
  BY <1>1, <1>2, <1>3, <1>4
<1> QED BY <1>1, <1>5 DEF a

LEMMA TailDistinct ==
  ASSUME NEW S, NEW s \in Seq(S), s # <<>>, \A i, j \in 1 .. Len(s) : s[i] = s[j] => i = j
  PROVE  /\ \A i, j \in 1 .. Len(Tail(s)) : Tail(s)[i] = Tail(s)[j] => i = j
         /\ Elements(s) = Elements(Tail(s)) \cup {Head(s)} /\ Head(s) \notin Elements(Tail(s))
<1> DEFINE r == Tail(s)
           n == Len(s)
<1>1. n \in Nat \ {0} /\ Head(s) = s[1] /\ Len(r) = n - 1 /\ \A i \in 1 .. Len(r) : r[i] = s[i + 1]
  <2>1. n \in Nat \ {0}
    BY EmptySeq
  <2> QED BY <2>1, HeadTailProperties
<1>2. \A i, j \in 1 .. n : s[i] = s[j] => i = j
  OBVIOUS
<1>3. Elements(s) = {s[i] : i \in 1 .. n} /\ Elements(r) = {r[i] : i \in 1 .. Len(r)}
  BY DEF Elements
<1> HIDE DEF r, n
<1>4. \A i \in 1 .. n - 1 : i + 1 \in 1 .. n /\ i + 1 # 1 /\ 1 \in 1 .. n
  BY <1>1
<1>5. \A i \in 1 .. n : i = 1 \/ (i - 1 \in 1 .. n - 1 /\ (i - 1) + 1 = i)
  BY <1>1
<1>6. ASSUME NEW i \in 1 .. Len(r), NEW j \in 1 .. Len(r), r[i] = r[j] PROVE i = j
  <2>1. i + 1 = j + 1
    BY <1>1, <1>2, <1>4, <1>6
  <2> QED BY <1>1, <2>1
<1>7. \A i \in 1 .. Len(r) : r[i] # s[1]
  BY <1>1, <1>2, <1>4
<1>8. \A x : x \in Elements(s) <=> x \in Elements(r) \/ x = s[1]
  <2>1. ASSUME NEW i \in 1 .. n PROVE s[i] \in Elements(r) \/ s[i] = s[1]
    <3>1. CASE i = 1
      BY <3>1
    <3>2. CASE i # 1
      <4>1. i - 1 \in 1 .. Len(r) /\ (i - 1) + 1 = i
        BY <1>1, <1>5, <3>2
      <4>2. r[i - 1] = s[i]
        BY <1>1, <4>1
      <4> QED BY <1>3, <4>1, <4>2
    <3> QED BY <3>1, <3>2
  <2>2. ASSUME NEW i \in 1 .. Len(r) PROVE r[i] \in Elements(s)
    BY <1>1, <1>3, <1>4
  <2>3. s[1] \in Elements(s)
    <3>1. 1 \in 1 .. n
      BY <1>1
    <3> QED BY <1>3, <3>1
  <2> QED BY <1>3, <2>1, <2>2, <2>3
<1> QED BY <1>1, <1>3, <1>6, <1>7, <1>8 DEF r

LEMMA RangeFinite ==
  ASSUME NEW S, NEW s \in Seq(S)
  PROVE  IsFiniteSet(Elements(s))
<1>1. Len(s) \in Nat /\ IsFiniteSet(1 .. Len(s))
  BY LenProperties, FS_Interval
<1>2. PICK f : f = [j \in 1 .. Len(s) |-> s[j]]
  OBVIOUS
<1>3. f \in Surjection(1 .. Len(s), Elements(s))
  BY <1>2 DEF Surjection, Elements
<1> QED BY <1>1, <1>3, FS_Surjection

LEMMA AccessesFacts ==
  ASSUME NEW i \in Inst
  PROVE  /\ Addressed(i) \in Seq(Access) /\ Len(Addressed(i)) = Code(i).reqs
         /\ \A k \in 1 .. Code(i).reqs : Addressed(i)[k] = <<i[1], i[2], k>>
         /\ Elements(Addressed(i)) = Accesses(i)
         /\ \A x \in Accesses(i) : InstOf(x) = i /\ x[1] = i[1] /\ x[2] = i[2]
         /\ IsFiniteSet(Accesses(i)) /\ Cardinality(Accesses(i)) = Code(i).reqs
<1> DEFINE n == Code(i).reqs
<1>1. n \in Nat /\ i = <<i[1], i[2]>>
  BY InstFacts
<1>2. Addressed(i) \in Seq(Access)
  BY AddressedType
<1>3. Addressed(i) = [k \in 1 .. n |-> <<i[1], i[2], k>>]
  BY DEF Addressed
<1>4. Len(Addressed(i)) = n
  <2>1. DOMAIN Addressed(i) = 1 .. n /\ DOMAIN Addressed(i) = 1 .. Len(Addressed(i)) /\ Len(Addressed(i)) \in Nat
    BY <1>2, <1>3, LenProperties
  <2> QED BY <1>1, <1>2, <1>3, LenProperties
<1>5. Accesses(i) = {<<i[1], i[2], k>> : k \in 1 .. n}
  BY DEF Accesses
<1>6. Elements(Addressed(i)) = Accesses(i)
  BY <1>3, <1>4, <1>5 DEF Elements
<1>7. \A x \in Accesses(i) : InstOf(x) = i /\ x[1] = i[1] /\ x[2] = i[2]
  BY <1>1, <1>5 DEF InstOf
<1>8. IsFiniteSet(Accesses(i)) /\ Cardinality(Accesses(i)) = n
  <2>1. PICK f : f = [k \in 1 .. n |-> <<i[1], i[2], k>>]
    OBVIOUS
  <2>2. f \in Bijection(1 .. n, Accesses(i))
    <3>1. f \in [1 .. n -> Accesses(i)]
      BY <1>5, <2>1
    <3>2. \A j, k \in 1 .. n : f[j] = f[k] => j = k
      BY <2>1
    <3>3. \A x \in Accesses(i) : \E k \in 1 .. n : f[k] = x
      BY <1>5, <2>1
    <3> QED BY <3>1, <3>2, <3>3 DEF Bijection, Injection, Surjection, IsInjective
  <2>3. ExistsBijection(1 .. n, Accesses(i))
    BY <2>2 DEF ExistsBijection
  <2>4. IsFiniteSet(1 .. n) /\ Cardinality(1 .. n) = n
    <3> HIDE DEF n
    <3> QED BY <1>1, FS_Interval
  <2> QED BY <2>3, <2>4, FS_Bijection
<1> QED BY <1>2, <1>3, <1>4, <1>6, <1>7, <1>8

(* A handler appends the accesses of the instruction it serves.             *)
LEMMA RequestsAppended ==
  ASSUME TypeOK, AskedOnce, NEW i \in Waiting, i \in Inst,
         NEW q, q = request_queue \o Addressed(i)
  PROVE  /\ \A j, k \in 1 .. Len(q) : q[j] = q[k] => j = k
         /\ Elements(q) = Requested \cup Accesses(i)
         /\ Accesses(i) \cap (Requested \cup memory) = {}
<1> DEFINE n == Len(request_queue)
           m == Code(i).reqs
           a == Addressed(i)
<1>1. request_queue \in Seq(Access) /\ n \in Nat /\ m \in Nat
  BY LenProperties, InstFacts DEF TypeOK
<1>2. /\ a \in Seq(Access) /\ Len(a) = m /\ Elements(a) = Accesses(i)
      /\ \A k \in 1 .. m : a[k] = <<i[1], i[2], k>>
      /\ \A x \in Accesses(i) : InstOf(x) = i
  BY AccessesFacts
<1>3. /\ Len(q) = n + m
      /\ \A k \in 1 .. n : q[k] = request_queue[k]
      /\ \A k \in 1 .. m : q[n + k] = a[k]
  <2>1. /\ Len(request_queue \o a) = n + m
        /\ \A k \in 1 .. n + m : (request_queue \o a)[k] = IF k <= n THEN request_queue[k] ELSE a[k - n]
    BY <1>1, <1>2, ConcatProperties
  <2> HIDE DEF n, m, a
  <2>2. /\ \A k \in 1 .. n : k \in 1 .. n + m /\ k <= n
        /\ \A k \in 1 .. m : n + k \in 1 .. n + m /\ ~(n + k <= n) /\ (n + k) - n = k
    BY <1>1
  <2> QED BY <2>1, <2>2 DEF a
<1>4. \A k \in 1 .. n + m : k \in 1 .. n \/ \E l \in 1 .. m : k = n + l
  <2> HIDE DEF n, m
  <2> SUFFICES ASSUME NEW k \in 1 .. n + m, k \notin 1 .. n PROVE k - n \in 1 .. m /\ k = n + (k - n)
    OBVIOUS
  <2> QED BY <1>1
<1>5. Accesses(i) \cap (Requested \cup memory) = {}
  BY <1>2 DEF AskedOnce
<1>6. \A k \in 1 .. n : request_queue[k] \in Requested
  BY DEF Requested, Elements
<1>7. \A k \in 1 .. m : a[k] \in Accesses(i)
  BY <1>2 DEF Elements
<1>8. ASSUME NEW j \in 1 .. n + m, NEW k \in 1 .. n + m, q[j] = q[k]
      PROVE  j = k
  <2> HIDE DEF a, m, n
  <2>1. CASE j \in 1 .. n /\ k \in 1 .. n
    BY <1>3, <1>8, <2>1 DEF AskedOnce, n
  <2>2. ASSUME NEW l \in 1 .. m, j = n + l, k \in 1 .. n
        PROVE  FALSE
    BY <1>3, <1>5, <1>6, <1>7, <1>8, <2>2
  <2>3. ASSUME NEW l \in 1 .. m, k = n + l, j \in 1 .. n
        PROVE  FALSE
    BY <1>3, <1>5, <1>6, <1>7, <1>8, <2>3
  <2>4. ASSUME NEW l \in 1 .. m, NEW o \in 1 .. m, j = n + l, k = n + o
        PROVE  j = k
    BY <1>2, <1>3, <1>8, <2>4
  <2> QED BY <1>4, <2>1, <2>2, <2>3, <2>4
<1>9. Elements(q) = Requested \cup Accesses(i)
  <2>1. ASSUME NEW x \in Elements(q) PROVE x \in Requested \cup Accesses(i)
    <3>1. PICK k \in 1 .. n + m : x = q[k]
      BY <1>3 DEF Elements
    <3> QED BY <1>3, <1>4, <1>6, <1>7, <3>1
  <2>2. ASSUME NEW x \in Requested \cup Accesses(i) PROVE x \in Elements(q)
    <3>1. \/ \E k \in 1 .. n : x = request_queue[k]
          \/ \E k \in 1 .. m : x = a[k]
      BY <1>2 DEF Requested, Elements
    <3>2. \A k \in 1 .. n : k \in 1 .. n + m
      <4> HIDE DEF n, m
      <4> QED BY <1>1
    <3>3. \A k \in 1 .. m : n + k \in 1 .. n + m
      <4> HIDE DEF n, m
      <4> QED BY <1>1
    <3> HIDE DEF n, m, a
    <3> QED BY <1>3, <3>1, <3>2, <3>3 DEF Elements
  <2> QED BY <2>1, <2>2
<1> QED BY <1>3, <1>5, <1>8, <1>9

(* A finite set that grows by a part apart from it.                         *)
LEMMA Grown ==
  ASSUME NEW S, NEW T, IsFiniteSet(S), IsFiniteSet(T), S \cap T = {}
  PROVE  /\ IsFiniteSet(S \cup T) /\ Cardinality(S \cup T) = Cardinality(S) + Cardinality(T)
         /\ Cardinality(S) \in Nat /\ Cardinality(T) \in Nat
<1>1. Cardinality(S) \in Nat /\ Cardinality(T) \in Nat /\ Cardinality({}) = 0
  BY FS_CardinalityType, FS_EmptySet
<1>2. IsFiniteSet(S \cup T) /\ Cardinality(S \cup T) = Cardinality(S) + Cardinality(T) - Cardinality(S \cap T)
  BY FS_Union
<1>3. Cardinality(S \cap T) = 0
  BY <1>1
<1> QED BY <1>1, <1>2, <1>3

LEMMA OutstandingFinite ==
  ASSUME TypeOK, IsFiniteSet(memory)
  PROVE  IsFiniteSet(Outstanding) /\ Cardinality(Outstanding) \in Nat
<1>1. IsFiniteSet(Requested)
  BY RangeFinite DEF TypeOK, Requested
<1>2. IsFiniteSet(Requested \cup memory)
  BY <1>1, FS_Union
<1>3. IsFiniteSet(Outstanding)
  BY <1>2, FS_Subset DEF Outstanding
<1> QED BY <1>3, FS_CardinalityType

(* A step that neither asks nor answers, and issues no instruction: what    *)
(* waits can only become less.                                              *)
LEMMA NothingAsked ==
  ASSUME WriteInv, UNCHANGED <<pos, memVars>>,
         Elements(ld') \subseteq Elements(ld), Elements(ex') \subseteq Elements(ex),
         Elements(st') \subseteq Elements(st)
  PROVE  WriteInv'
<1>1. Waiting' \subseteq Waiting
  BY DEF Waiting, Elements
<1>2. Requested' = Requested /\ memory' = memory /\ Outstanding' = Outstanding
  BY DEF Requested, Elements, Outstanding, memVars, IsWrite
<1>3. QueuesSorted'
  BY DEF WriteInv, QueuesSorted, Elements
<1>4. AskedOnce'
  BY <1>1, <1>2 DEF WriteInv, AskedOnce, memVars
<1> QED BY <1>2, <1>3, <1>4 DEF WriteInv, memVars

(* A step that serves the instruction that waits, whatever it asks for.     *)
LEMMA Served ==
  ASSUME IInv, WriteInv, TypeOK', NEW i \in Waiting,
         UNCHANGED <<pos, memory>>, ld' = <<>>, ex' = <<>>, st' = <<>>, Waiting = {i},
         request_queue' = request_queue \o Addressed(i),
         waiting_write_reqs' = waiting_write_reqs + (IF Code(i).opcode = "MOVOUT" THEN Code(i).reqs ELSE 0)
  PROVE  WriteInv'
<1>0. TypeOK /\ WaitersRun /\ AskedOnce /\ waiting_write_reqs = Cardinality(Outstanding)
  BY DEF IInv, WriteInv
<1>1. Waiting \subseteq Inst
  BY <1>0, ElementsType DEF TypeOK, QueueType, Waiting
<1>2. i \in Inst
  BY <1>1
<1>3. PICK q : q = request_queue \o Addressed(i)
  OBVIOUS
<1>4. /\ \A j, k \in 1 .. Len(q) : q[j] = q[k] => j = k
      /\ Elements(q) = Requested \cup Accesses(i)
      /\ Accesses(i) \cap (Requested \cup memory) = {}
  BY <1>0, <1>2, <1>3, RequestsAppended
<1>5. Requested' = Requested \cup Accesses(i)
  BY <1>3, <1>4 DEF Requested, Elements
<1>6. Waiting' = {} /\ Elements(ld)' = {} /\ Elements(st)' = {}
  BY EmptyElements DEF Waiting
<1>7. /\ \A x \in Accesses(i) : InstOf(x) = i /\ x[1] = i[1] /\ x[2] = i[2]
      /\ IsFiniteSet(Accesses(i)) /\ Cardinality(Accesses(i)) = Code(i).reqs
  BY <1>2, AccessesFacts
<1>8. i[2] = pos[i[1]] /\ i[2] \in Nat
  BY <1>0, <1>2, InstFacts DEF WaitersRun
<1>9. AskedOnce'
  <2>1. \A x \in Requested' \cup memory' : x[2] <= pos'[x[1]]
    BY <1>0, <1>5, <1>7, <1>8 DEF AskedOnce
  <2>2. \A j, k \in 1 .. Len(request_queue') : request_queue'[j] = request_queue'[k] => j = k
    BY <1>3, <1>4
  <2>3. Requested' \cap memory' = {}
    BY <1>0, <1>4, <1>5 DEF AskedOnce
  <2> QED BY <1>0, <1>6, <2>1, <2>2, <2>3 DEF AskedOnce
<1>10. waiting_write_reqs' = Cardinality(Outstanding')
  <2>1. CASE Code(i).opcode = "MOVOUT"
    <3>1. Outstanding' = Outstanding \cup Accesses(i)
      BY <1>5, <1>7, <2>1 DEF Outstanding, IsWrite
    <3>2. Outstanding \cap Accesses(i) = {}
      BY <1>4 DEF Outstanding
    <3>3. IsFiniteSet(Outstanding)
      BY <1>0, OutstandingFinite DEF AskedOnce
    <3>4. Cardinality(Outstanding \cup Accesses(i)) = Cardinality(Outstanding) + Cardinality(Accesses(i))
      BY <1>7, <3>2, <3>3, Grown
    <3> QED BY <1>0, <1>7, <2>1, <3>1, <3>4
  <2>2. CASE Code(i).opcode # "MOVOUT"
    <3>1. Outstanding' = Outstanding
      BY <1>5, <1>7, <2>2 DEF Outstanding, IsWrite
    <3>2. Cardinality(Outstanding) \in Nat
      BY <1>0, OutstandingFinite DEF AskedOnce
    <3> QED BY <1>0, <2>2, <3>1, <3>2
  <2> QED BY <2>1, <2>2
<1>11. QueuesSorted'
  BY <1>6 DEF QueuesSorted
<1> QED BY <1>9, <1>10, <1>11 DEF WriteInv

LEMMA InitWrites == Init => WriteInv
<1> SUFFICES ASSUME Init PROVE WriteInv
  OBVIOUS
<1>1. request_queue = <<>> /\ memory = {} /\ ld = <<>> /\ st = <<>> /\ waiting_write_reqs = 0
  BY DEF Init
<1>2. Requested = {} /\ Elements(ld) = {} /\ Elements(st) = {} /\ Len(request_queue) = 0
  BY <1>1, EmptyElements, EmptySeq DEF Requested
<1>3. Outstanding = {} /\ IsFiniteSet(memory) /\ Cardinality({}) = 0
  BY <1>1, <1>2, FS_EmptySet DEF Outstanding
<1> QED BY <1>1, <1>2, <1>3 DEF WriteInv, QueuesSorted, AskedOnce

(* The interconnect takes the first request.                                *)
LEMMA RequestTaken ==
  ASSUME TypeOK, WriteInv, PopMemoryRequest
  PROVE  WriteInv'
<1>1. /\ request_queue # <<>> /\ request_queue' = Tail(request_queue)
      /\ memory' = memory \cup {Head(request_queue)}
      /\ UNCHANGED <<pos, ld, ex, st, waiting_write_reqs>>
  BY DEF PopMemoryRequest, tileVars, queueVars
<1>2. PICK q \in Seq(Access) : q = request_queue
  BY DEF TypeOK
<1>3. \A j, k \in 1 .. Len(q) : q[j] = q[k] => j = k
  BY <1>2 DEF WriteInv, AskedOnce
<1>4. /\ \A j, k \in 1 .. Len(Tail(q)) : Tail(q)[j] = Tail(q)[k] => j = k
      /\ Elements(q) = Elements(Tail(q)) \cup {Head(q)} /\ Head(q) \notin Elements(Tail(q))
  BY <1>1, <1>2, <1>3, TailDistinct
<1>5. /\ Requested' = Elements(Tail(q)) /\ Requested = Elements(q)
      /\ Requested' \cup memory' = Requested \cup memory
  BY <1>1, <1>2, <1>4 DEF Requested, Elements
<1>6. Outstanding' = Outstanding
  BY <1>5 DEF Outstanding, IsWrite
<1>7. Waiting' = Waiting
  BY <1>1 DEF Waiting, Elements
<1>8. QueuesSorted'
  BY <1>1 DEF WriteInv, QueuesSorted, Elements
<1>9. AskedOnce'
  <2>1. IsFiniteSet(memory')
    BY <1>1, FS_AddElement DEF WriteInv, AskedOnce
  <2>2. \A j, k \in 1 .. Len(request_queue') : request_queue'[j] = request_queue'[k] => j = k
    BY <1>1, <1>2, <1>4
  <2>3. Requested' \cap memory' = {}
    BY <1>1, <1>2, <1>4, <1>5 DEF WriteInv, AskedOnce
  <2> QED BY <1>1, <1>5, <1>7, <2>1, <2>2, <2>3 DEF WriteInv, AskedOnce
<1> QED BY <1>1, <1>6, <1>8, <1>9 DEF WriteInv

(* The memory answers a request.                                            *)
LEMMA RequestAnswered ==
  ASSUME TypeOK, WriteInv, NEW x \in memory, PushMemoryResponse(x)
  PROVE  WriteInv'
<1>1. /\ memory' = memory \ {x} /\ UNCHANGED <<pos, ld, ex, st, request_queue>>
      /\ waiting_write_reqs' = IF IsWrite(x) THEN waiting_write_reqs - 1 ELSE waiting_write_reqs
  BY DEF PushMemoryResponse, tileVars, queueVars
<1>2. Requested' = Requested /\ Waiting' = Waiting
  BY <1>1 DEF Requested, Waiting, Elements
<1>3. QueuesSorted'
  BY <1>1 DEF WriteInv, QueuesSorted, Elements
<1>4. AskedOnce'
  BY <1>1, <1>2, FS_RemoveElement DEF WriteInv, AskedOnce
<1>5. IsFiniteSet(Outstanding)
  BY OutstandingFinite DEF WriteInv, AskedOnce
<1>6. waiting_write_reqs' = Cardinality(Outstanding')
  <2>1. CASE IsWrite(x)
    <3>1. Outstanding' = Outstanding \ {x} /\ x \in Outstanding
      BY <1>1, <1>2, <2>1 DEF Outstanding, IsWrite, WriteInv, AskedOnce
    <3>2. Cardinality(Outstanding \ {x}) = Cardinality(Outstanding) - 1
      BY <1>5, <3>1, FS_RemoveElement
    <3> QED BY <1>1, <2>1, <3>1, <3>2 DEF WriteInv
  <2>2. CASE ~IsWrite(x)
    <3>1. Outstanding' = Outstanding
      BY <1>1, <1>2, <2>2 DEF Outstanding, IsWrite
    <3> QED BY <1>1, <2>2, <3>1 DEF WriteInv
  <2> QED BY <2>1, <2>2
<1> QED BY <1>3, <1>4, <1>6 DEF WriteInv

(* Core::cycle issues an instruction: nothing of it has been asked for.     *)
LEMMA WriteIssued ==
  ASSUME IInv, WriteInv, TypeOK', UNCHANGED memVars, phase = "issue",
         NEW i \in Inst, i = NextInst(i[1]), pos' = [pos EXCEPT ![i[1]] = i[2]], Dispatch(i)
  PROVE  WriteInv'
<1>0. TypeOK /\ OneWaits /\ AskedOnce
  BY DEF IInv, WriteInv
<1>1. ld = <<>> /\ ex = <<>> /\ st = <<>> /\ <<>> \in Seq(Inst)
  BY <1>0, EmptySeq DEF OneWaits
<1>2. PICK e \in Seq(Inst) : e = <<>> /\ Elements(e) = {} /\ Elements(Append(e, i)) = {i}
  <2>1. \A e \in Seq(Inst) : Elements(Append(e, i)) = Elements(e) \cup {i}
    BY AppendElements
  <2> QED BY <1>1, <2>1, EmptyElements
<1>3. \/ /\ Code(i).opcode = "MOVIN" /\ ld' = Append(e, i) /\ ex' = e /\ st' = e
      \/ /\ Code(i).opcode = "MOVOUT" /\ ld' = e /\ ex' = e /\ st' = Append(e, i)
      \/ /\ Code(i).opcode \notin {"MOVIN", "MOVOUT"} /\ ld' = e /\ ex' = Append(e, i) /\ st' = e
  BY <1>1, <1>2 DEF Dispatch
<1>4. Waiting' = {i}
  BY <1>2, <1>3 DEF Waiting
<1>5. QueuesSorted'
  BY <1>2, <1>3 DEF QueuesSorted
<1>6. Requested' = Requested /\ memory' = memory /\ Outstanding' = Outstanding
  BY DEF Requested, Elements, Outstanding, memVars, IsWrite
<1>7. i[1] \in Tile /\ i[2] = pos[i[1]] + 1 /\ pos[i[1]] \in Nat /\ i[2] \in Nat
  BY <1>0, InstFacts DEF NextInst, TypeOK
<1>8. pos'[i[1]] = i[2] /\ \A t \in Tile : t # i[1] => pos'[t] = pos[t]
  BY <1>0, <1>7 DEF TypeOK
<1>9. ASSUME NEW x \in Requested \cup memory
      PROVE  x[2] <= pos'[x[1]] /\ InstOf(x) # i
  <2>1. x \in Access
    BY <1>0, ElementsType DEF Requested, TypeOK
  <2>2. InstOf(x) \in Inst /\ InstOf(x) = <<x[1], x[2]>>
    BY <2>1, AccessFacts DEF InstOf
  <2>3. x[1] \in Tile /\ x[2] \in Nat
    <3>1. InstOf(x)[1] = x[1] /\ InstOf(x)[2] = x[2]
      BY <2>2
    <3> QED BY <2>2, <3>1, InstFacts
  <2>4. x[2] <= pos[x[1]] /\ pos[x[1]] \in Nat
    BY <1>0, <2>3 DEF AskedOnce, TypeOK
  <2>5. x[1] = i[1] => x[2] # i[2] /\ x[2] <= i[2]
    BY <1>7, <2>3, <2>4
  <2> QED BY <1>8, <2>2, <2>3, <2>4, <2>5
<1>10. AskedOnce'
  BY <1>0, <1>4, <1>6, <1>9 DEF AskedOnce, memVars
<1> QED BY <1>5, <1>6, <1>10 DEF WriteInv, memVars

LEMMA WriteStep == IInv /\ WriteInv /\ [Next]_vars => WriteInv'
<1> SUFFICES ASSUME IInv, WriteInv, [Next]_vars PROVE WriteInv'
  OBVIOUS
<1>0. TypeOK /\ OneWaits /\ WaitersReady
  BY DEF IInv
<1>1. TypeOK'
  BY <1>0, TypeStep
<1>2. ld \in Seq(Inst) /\ ex \in Seq(Inst) /\ st \in Seq(Inst)
  BY <1>0 DEF TypeOK, QueueType
<1>3. CASE \/ ComputeDone \/ ComputeNotDone \/ VectorDone \/ VectorNotDone \/ NothingToIssue
           \/ FinishTile \/ NoFinishedTile \/ IssueTile \/ NoTile \/ PopFinishedTile \/ UNCHANGED vars
  <2>1. UNCHANGED <<pos, queueVars, memVars>>
    BY <1>3 DEF ComputeDone, ComputeNotDone, VectorDone, VectorNotDone, NothingToIssue, FinishTile,
         NoFinishedTile, IssueTile, NoTile, PopFinishedTile, tileVars, vars
  <2>2. Elements(ld') = Elements(ld) /\ Elements(ex') = Elements(ex) /\ Elements(st') = Elements(st)
    BY <2>1 DEF queueVars, Elements
  <2> QED BY <2>1, <2>2, NothingAsked
<1>4. CASE HandleLoad
  <2>1. UNCHANGED <<pos, ex, st, memory, waiting_write_reqs>>
    BY <1>4 DEF HandleLoad, tileVars
  <2>2. CASE ld = <<>>
    <3>1. UNCHANGED <<pos, ld, ex, st, memVars>>
      BY <1>4, <2>1, <2>2 DEF HandleLoad, memVars
    <3>2. Elements(ld') = Elements(ld) /\ Elements(ex') = Elements(ex) /\ Elements(st') = Elements(st)
      BY <3>1 DEF Elements
    <3> QED BY <3>1, <3>2, NothingAsked
  <2>3. CASE ld # <<>>
    <3> DEFINE i == Head(ld)
    <3>1. ld' = Tail(ld) /\ request_queue' = request_queue \o Addressed(i)
      BY <1>4, <2>3 DEF HandleLoad
    <3>2. ld' = <<>> /\ ex' = <<>> /\ st' = <<>> /\ ex = <<>> /\ st = <<>>
      BY <1>0, <1>2, <2>1, <2>3, <3>1, OnlyWaiter
    <3>3. Len(ld) <= 1
      <4> DEFINE m == Len(ld)
      <4>1. m + 0 + 0 <= 1 /\ m \in Nat
        BY <1>0, <1>2, <3>2, EmptySeq, LenProperties DEF OneWaits
      <4> HIDE DEF m
      <4>2. m <= 1
        BY <4>1
      <4> QED BY <4>2 DEF m
    <3>4. Elements(ld) = {i}
      BY <1>2, <2>3, <3>3, SingleTail
    <3>5. Waiting = {i} /\ i \in Waiting
      BY <3>2, <3>4, EmptyElements DEF Waiting
    <3>6. Code(i).opcode # "MOVOUT"
      BY <3>4 DEF WriteInv, QueuesSorted
    <3>7. waiting_write_reqs \in Int
      BY <1>0 DEF TypeOK
    <3>8. waiting_write_reqs' = waiting_write_reqs + (IF Code(i).opcode = "MOVOUT" THEN Code(i).reqs ELSE 0)
      BY <2>1, <3>6, <3>7
    <3> HIDE DEF i
    <3> QED BY <1>1, <2>1, <3>1, <3>2, <3>5, <3>8, Served
  <2> QED BY <2>2, <2>3
<1>5. CASE Execute
  <2>1. UNCHANGED <<pos, ld, st, memVars>> /\ (ex' = ex \/ (ex # <<>> /\ ex' = Tail(ex)))
    BY <1>5 DEF Execute, tileVars
  <2>2. Elements(ex') \subseteq Elements(ex)
    BY <1>2, <2>1, HeadElement
  <2>3. Elements(ld') = Elements(ld) /\ Elements(st') = Elements(st)
    BY <2>1
  <2> QED BY <2>1, <2>2, <2>3, NothingAsked
<1>6. CASE HandleStore
  <2>1. UNCHANGED <<pos, ld, ex, memory>>
    BY <1>6 DEF HandleStore
  <2>2. CASE st = <<>>
    <3>1. UNCHANGED <<pos, ld, ex, st, memVars>>
      BY <1>6, <2>1, <2>2 DEF HandleStore, memVars
    <3>2. Elements(ld') = Elements(ld) /\ Elements(ex') = Elements(ex) /\ Elements(st') = Elements(st)
      BY <3>1 DEF Elements
    <3> QED BY <3>1, <3>2, NothingAsked
  <2>3. CASE st # <<>>
    <3> DEFINE i == Head(st)
    <3>1. CheckHit(Code(i).dest, Target(i))
      BY <1>0, <1>2, <2>3, HeadElement DEF WaitersReady, StoreReady
    <3>2. /\ st' = Tail(st) /\ request_queue' = request_queue \o Addressed(i)
          /\ waiting_write_reqs' = waiting_write_reqs + Code(i).reqs
      BY <1>6, <2>3, <3>1 DEF HandleStore, Writes
    <3>3. ld' = <<>> /\ ex' = <<>> /\ st' = <<>> /\ ld = <<>> /\ ex = <<>>
      BY <1>0, <1>2, <2>1, <2>3, <3>2, OnlyWaiter
    <3>4. Len(st) <= 1
      <4> DEFINE m == Len(st)
      <4>1. 0 + 0 + m <= 1 /\ m \in Nat
        BY <1>0, <1>2, <3>3, EmptySeq, LenProperties DEF OneWaits
      <4> HIDE DEF m
      <4>2. m <= 1
        BY <4>1
      <4> QED BY <4>2 DEF m
    <3>5. Elements(st) = {i}
      BY <1>2, <2>3, <3>4, SingleTail
    <3>6. Waiting = {i} /\ i \in Waiting
      BY <3>3, <3>5, EmptyElements DEF Waiting
    <3>7. Code(i).opcode = "MOVOUT"
      BY <3>5 DEF WriteInv, QueuesSorted
    <3> HIDE DEF i
    <3> QED BY <1>1, <2>1, <3>2, <3>3, <3>6, <3>7, Served
  <2> QED BY <2>2, <2>3
<1>7. CASE IssueInst
  <2>1. PICK i \in Inst : /\ i = NextInst(i[1])
                          /\ \/ UNCHANGED <<queueVars, pos>>
                             \/ Dispatch(i) /\ pos' = [pos EXCEPT ![i[1]] = i[2]]
    BY <1>0, <1>7, InstChosen
  <2>2. phase = "issue" /\ UNCHANGED memVars
    BY <1>7 DEF IssueInst, Handler
  <2>3. CASE UNCHANGED <<queueVars, pos>>
    <3>1. Elements(ld') = Elements(ld) /\ Elements(ex') = Elements(ex) /\ Elements(st') = Elements(st)
      BY <2>3 DEF queueVars, Elements
    <3> QED BY <2>2, <2>3, <3>1, NothingAsked
  <2>4. CASE Dispatch(i) /\ pos' = [pos EXCEPT ![i[1]] = i[2]]
    BY <1>1, <2>1, <2>2, <2>4, WriteIssued
  <2> QED BY <2>1, <2>3, <2>4
<1>8. CASE PopMemoryRequest
  BY <1>0, <1>8, RequestTaken
<1>9. ASSUME NEW x \in memory, PushMemoryResponse(x) PROVE WriteInv'
  BY <1>0, <1>9, RequestAnswered
<1> QED BY <1>3, <1>4, <1>5, <1>6, <1>7, <1>8, <1>9 DEF Next, Cycle, Response

(* The count that Core::running looks at is right: however the memory       *)
(* answers, _waiting_write_reqs is the number of stored words on their way, *)
(* for handle_st_inst_queue asks for every word of an instruction once, and *)
(* an answer is counted off once.                                           *)
THEOREM StoresAreCounted == Spec => []WritesCounted
<1>1. Init => WriteInv
  BY InitWrites
<1>2. IInv /\ WriteInv /\ [Next]_vars => WriteInv'
  BY WriteStep
<1>3. WriteInv => WritesCounted
  BY DEF WriteInv, WritesCounted, Outstanding, Requested
<1> QED BY <1>1, <1>2, <1>3, Invariance, PTL DEF Spec

-----------------------------------------------------------------------------
(* The core keeps its promise to the scheduler.                            *)

(* A tile that finished is not running, and is in _finished_tiles once.     *)
FinishedApart ==
  /\ \A t \in Elements(finished_tiles) : t <= issued
  /\ \A i, j \in 1 .. Len(finished_tiles) : finished_tiles[i] = finished_tiles[j] => i = j
  /\ Elements(tiles) \cap Elements(finished_tiles) = {}

Returned == {t \in 1 .. issued : t \notin Elements(tiles) \cup Elements(finished_tiles)}


LEMMA OneTileLess ==
  ASSUME tiles \in Seq(Tile), Len(tiles) <= 2, NEW n \in 1 .. Len(tiles), Len(tiles) = 2 => tiles[1] # tiles[2]
  PROVE  Elements(Without(n)) = Elements(tiles) \ {tiles[n]} /\ tiles[n] \in Elements(tiles)
<1>1. PICK w : w = Without(n)
  OBVIOUS
<1>2. /\ Len(w) = Len(tiles) - 1
      /\ Len(tiles) = 2 => w[1] = IF n = 1 THEN tiles[2] ELSE tiles[1]
  BY <1>1, WithoutFacts
<1>3. CASE Len(tiles) = 1
  <2>1. 1 .. 0 = {} /\ n = 1 /\ 1 .. 1 = {1} /\ Len(w) = 0
    BY <1>2, <1>3
  <2> QED BY <1>1, <1>3, <2>1 DEF Elements
<1>4. CASE Len(tiles) = 2
  <2>1. 1 .. 1 = {1} /\ 1 .. 2 = {1, 2} /\ n \in {1, 2} /\ Len(w) = 1
    BY <1>2, <1>4
  <2>2. Elements(w) = {w[1]} /\ Elements(tiles) = {tiles[1], tiles[2]}
    BY <1>4, <2>1 DEF Elements
  <2> QED BY <1>1, <1>2, <1>4, <2>1, <2>2
<1>5. Len(tiles) \in {1, 2}
  <2> DEFINE m == Len(tiles)
  <2>1. m \in Nat /\ m <= 2 /\ n \in 1 .. m
    BY LenProperties
  <2> HIDE DEF m
  <2>2. m \in {1, 2}
    BY ONLY <2>1
  <2> QED BY <2>2 DEF m
<1> QED BY <1>3, <1>4, <1>5

LEMMA FewTiles ==
  ASSUME tiles \in Seq(Tile), Len(tiles) < 2
  PROVE  Cardinality(Elements(tiles)) < 2
<1> DEFINE m == Len(tiles)
<1>1. m \in {0, 1}
  <2>1. m \in Nat /\ m < 2
    BY LenProperties
  <2> HIDE DEF m
  <2> QED BY <2>1
<1>2. CASE m = 0
  <2>1. 1 .. 0 = {} /\ Cardinality({}) = 0
    BY FS_EmptySet
  <2>2. Elements(tiles) = {}
    BY <1>2, <2>1 DEF Elements
  <2> QED BY <2>1, <2>2
<1>3. CASE m = 1
  <2>1. 1 .. 1 = {1}
    OBVIOUS
  <2>2. Elements(tiles) = {tiles[1]}
    BY <1>3, <2>1 DEF Elements
  <2>3. Cardinality({tiles[1]}) = 1
    BY FS_Singleton
  <2> QED BY <2>2, <2>3
<1> QED BY <1>1, <1>2, <1>3

Shown == <<Elements(tiles), finished_tiles, Returned>>
Promised == Slots!SlotsNext \/ UNCHANGED Shown

(* Core::issue gives a free slot to a tile the core has not seen.           *)
LEMMA IssueTakes ==
  ASSUME TypeOK, TypeOK', TilesApart, FinishedApart, IssueTile
  PROVE  FinishedApart' /\ Slots!Take(issued + 1)
<1> DEFINE t == issued + 1
<1>1. /\ issued' = t /\ Len(tiles) < 2 /\ t \in Tile
      /\ \/ Feed[t].skip /\ finished_tiles' = Append(finished_tiles, t) /\ tiles' = tiles
         \/ ~Feed[t].skip /\ tiles' = Append(tiles, t) /\ finished_tiles' = finished_tiles
  <2>1. issued < Len(Feed) /\ issued \in Nat /\ Len(Feed) \in Nat
    BY FeedLen DEF IssueTile, TypeOK
  <2> QED BY <2>1 DEF IssueTile, CanIssue, Tile
<1>2. tiles \in Seq(Tile) /\ finished_tiles \in Seq(Tile) /\ issued \in Nat
  BY FeedLen DEF TypeOK
<1>3. Elements(tiles) \subseteq Tile /\ Elements(finished_tiles) \subseteq Tile /\ Tile \subseteq Nat
  BY <1>2, ElementsType, FeedLen
<1>4. t \notin Elements(tiles) \cup Elements(finished_tiles)
  <2>1. ~(t <= issued)
    BY <1>2
  <2> QED BY <2>1 DEF TilesApart, FinishedApart
<1>5. \/ /\ Elements(tiles)' = Elements(tiles)
         /\ Elements(finished_tiles)' = Elements(finished_tiles) \cup {t}
         /\ Feed[t].skip /\ finished_tiles' = Append(finished_tiles, t)
      \/ /\ Elements(tiles)' = Elements(tiles) \cup {t}
         /\ Elements(finished_tiles)' = Elements(finished_tiles)
         /\ ~Feed[t].skip /\ finished_tiles' = finished_tiles
  <2> HIDE DEF t
  <2>1. /\ Elements(Append(finished_tiles, t)) = Elements(finished_tiles) \cup {t}
        /\ Elements(Append(tiles, t)) = Elements(tiles) \cup {t}
    BY <1>1, <1>2, AppendElements
  <2> QED BY <1>1, <2>1 DEF Elements
<1>6. \A u \in Nat : u \in 1 .. t <=> u \in 1 .. issued \/ u = t
  BY <1>2
<1>7. FinishedApart'
  <2>1. \A u \in Nat : u <= issued => u <= t
    BY <1>2
  <2>2. ASSUME NEW u \in Elements(finished_tiles)' PROVE u <= issued'
    <3>1. u \in Elements(finished_tiles) \/ u = t
      BY <1>5
    <3>2. \A v \in Elements(finished_tiles) : v \in Nat /\ v <= issued
      BY <1>3 DEF FinishedApart
    <3> QED BY <1>1, <1>2, <2>1, <3>1, <3>2
  <2>3. \A i, j \in 1 .. Len(finished_tiles') : finished_tiles'[i] = finished_tiles'[j] => i = j
    <3> HIDE DEF t
    <3> QED BY <1>1, <1>2, <1>4, <1>5, AppendDistinct DEF FinishedApart
  <2>4. Elements(tiles)' \cap Elements(finished_tiles)' = {}
    BY <1>4, <1>5 DEF FinishedApart
  <2> QED BY <2>2, <2>3, <2>4 DEF FinishedApart, Elements
<1>8. Returned' = Returned
  <2>1. \A u : u \in Returned' <=> u \in Returned
    <3> HIDE DEF t
    <3>1. \A u : u \in Returned' <=> u \in 1 .. t /\ u \notin Elements(tiles)' \cup Elements(finished_tiles)'
      BY <1>1 DEF Returned, Elements
    <3>2. 1 .. issued \subseteq Nat /\ 1 .. t \subseteq Nat /\ t \notin 1 .. issued
      BY <1>2 DEF t
    <3> QED BY <1>5, <1>6, <3>1, <3>2 DEF Returned
  <2> QED BY <2>1
<1>9. t \notin Returned
  BY <1>2 DEF Returned
<1>10. Cardinality(Elements(tiles)) < 2
  BY <1>1, <1>2, FewTiles
<1>11. Slots!Seen = Elements(tiles) \cup Elements(finished_tiles) \cup Returned
  BY DEF Slots!Seen, Elements, Returned
<1> HIDE DEF t
<1>12. Slots!Take(t)
  <2>1. t \in {u \in Tile : Feed[u].skip} <=> Feed[t].skip
    BY <1>1
  <2>2. Slots!Cardinality(Elements(tiles)) < 2
    BY <1>10 DEF Cardinality, Slots!Cardinality
  <2> QED BY <1>4, <1>5, <1>8, <1>9, <1>11, <2>1, <2>2 DEF Slots!Take, Returned
<1> QED BY <1>7, <1>12 DEF t

(* The end of Core::cycle frees a slot.                                     *)
LEMMA FinishFinishes ==
  ASSUME TypeOK, TilesApart, FinishedApart, FinishTile
  PROVE  FinishedApart' /\ \E t \in Tile : Slots!Finish(t)
<1>1. PICK n \in 1 .. Len(tiles) :
        finished_tiles' = Append(finished_tiles, tiles[n]) /\ tiles' = Without(n)
  BY DEF FinishTile
<1>2. tiles \in Seq(Tile) /\ finished_tiles \in Seq(Tile) /\ issued' = issued /\ Len(tiles) <= 2
  BY DEF TypeOK, FinishTile
<1>3. PICK t \in Tile : t = tiles[n]
  BY <1>2, ElementOfSeq
<1>4. Elements(tiles)' = Elements(tiles) \ {t} /\ t \in Elements(tiles)
  <2>1. PICK w : w = Without(n) /\ w = tiles'
    BY <1>1
  <2>2. Elements(w) = Elements(tiles) \ {t} /\ t \in Elements(tiles)
    BY <1>2, <1>3, <2>1, OneTileLess DEF TilesApart
  <2> QED BY <2>1, <2>2 DEF Elements
<1>5. Elements(finished_tiles)' = Elements(finished_tiles) \cup {t} /\ t \notin Elements(finished_tiles)
  <2>1. Elements(Append(finished_tiles, t)) = Elements(finished_tiles) \cup {t}
    BY <1>2, AppendElements
  <2>2. Elements(finished_tiles') = Elements(finished_tiles) \cup {t}
    BY <1>1, <1>3, <2>1
  <2>3. t \notin Elements(finished_tiles)
    BY <1>4 DEF FinishedApart
  <2> QED BY <2>2, <2>3
<1>6. FinishedApart'
  <2>1. \A u \in Elements(finished_tiles)' : u <= issued'
    BY <1>2, <1>4, <1>5 DEF FinishedApart, TilesApart
  <2>2. \A i, j \in 1 .. Len(finished_tiles') : finished_tiles'[i] = finished_tiles'[j] => i = j
    BY <1>1, <1>2, <1>3, <1>5, AppendDistinct DEF FinishedApart
  <2>3. Elements(tiles)' \cap Elements(finished_tiles)' = {}
    BY <1>4, <1>5 DEF FinishedApart
  <2> QED BY <2>1, <2>2, <2>3 DEF FinishedApart, Elements
<1>7. Returned' = Returned
  BY <1>2, <1>4, <1>5 DEF Returned, Elements
<1>8. Slots!Finish(t)
  BY <1>1, <1>3, <1>4, <1>7 DEF Slots!Finish, Returned, Elements
<1> QED BY <1>6, <1>8

(* Core::pop_finished_tile hands back the tile that finished first.         *)
LEMMA PopHandsBack ==
  ASSUME TypeOK, FinishedApart, PopFinishedTile
  PROVE  FinishedApart' /\ Slots!HandBack
<1>1. PICK f \in Seq(Tile) : f = finished_tiles /\ f # <<>>
  BY DEF TypeOK, PopFinishedTile
<1>2. finished_tiles' = Tail(f) /\ tiles' = tiles /\ issued' = issued
  BY <1>1 DEF PopFinishedTile
<1>3. /\ \A i, j \in 1 .. Len(Tail(f)) : Tail(f)[i] = Tail(f)[j] => i = j
      /\ Elements(f) = Elements(Tail(f)) \cup {Head(f)} /\ Head(f) \notin Elements(Tail(f))
  BY <1>1, TailDistinct DEF FinishedApart
<1>4. Elements(finished_tiles)' = Elements(Tail(f)) /\ Elements(tiles)' = Elements(tiles)
  BY <1>2 DEF Elements
<1>5. FinishedApart'
  BY <1>1, <1>2, <1>3, <1>4 DEF FinishedApart
<1>6. Head(f) \in 1 .. issued /\ Head(f) \notin Elements(tiles)
  <2>1. Head(f) \in Tile /\ Tile \subseteq Nat /\ \A u \in Tile : 1 <= u
    <3>1. Head(f) \in Tile
      BY <1>1, HeadTailProperties
    <3> QED BY <3>1, FeedLen DEF Tile
  <2>2. Head(f) <= issued /\ issued \in Nat
    BY <1>1, <1>3, FeedLen DEF FinishedApart, TypeOK
  <2>3. Head(f) \in 1 .. issued
    <3>1. PICK h \in Nat : h = Head(f) /\ 1 <= h /\ h <= issued
      BY <2>1, <2>2
    <3> QED BY <2>2, <3>1
  <2>4. Head(f) \in Elements(finished_tiles)
    BY <1>1, <1>3
  <2> QED BY <2>3, <2>4 DEF FinishedApart
<1>7. Returned' = Returned \cup {Head(f)}
  <2>1. PICK h, r : h = Head(f) /\ r = Elements(Tail(f))
    OBVIOUS
  <2>2. Elements(finished_tiles) = r \cup {h} /\ h \notin r /\ Elements(finished_tiles)' = r
    BY <1>1, <1>3, <1>4, <2>1
  <2>3. Returned' = {u \in 1 .. issued : u \notin Elements(tiles) \cup r}
    BY <1>2, <1>4, <2>2 DEF Returned
  <2> QED BY <1>6, <2>1, <2>2, <2>3 DEF Returned
<1>8. Slots!HandBack
  BY <1>1, <1>2, <1>4, <1>7 DEF Slots!HandBack, Returned
<1> QED BY <1>5, <1>8

LEMMA SlotsStep == TypeOK /\ TypeOK' /\ TilesApart /\ FinishedApart /\ [Next]_vars => FinishedApart' /\ Promised
<1> SUFFICES ASSUME TypeOK, TypeOK', TilesApart, FinishedApart, [Next]_vars PROVE FinishedApart' /\ Promised
  OBVIOUS
<1>1. CASE UNCHANGED <<tiles, finished_tiles, issued>>
  <2>1. Elements(tiles)' = Elements(tiles) /\ Elements(finished_tiles)' = Elements(finished_tiles)
    BY <1>1 DEF Elements
  <2>2. Returned' = Returned
    BY <1>1, <2>1 DEF Returned, Elements
  <2> QED BY <1>1, <2>1, <2>2 DEF FinishedApart, Promised, Shown, Elements
<1>2. CASE IssueTile
  <2>1. issued + 1 \in Tile
    <3>1. issued < Len(Feed) /\ issued \in Nat /\ Len(Feed) \in Nat
      BY <1>2, FeedLen DEF IssueTile, TypeOK
    <3> QED BY <3>1 DEF Tile
  <2> QED BY <1>2, <2>1, IssueTakes DEF Promised, Slots!SlotsNext
<1>3. CASE FinishTile
  BY <1>3, FinishFinishes DEF Promised, Slots!SlotsNext
<1>4. CASE PopFinishedTile
  BY <1>4, PopHandsBack DEF Promised, Slots!SlotsNext
<1> QED BY <1>1, <1>2, <1>3, <1>4 DEF Next, Cycle, Response, vars, tileVars, NoTile, ComputeDone, ComputeNotDone,
     VectorDone, VectorNotDone, HandleLoad, Execute, HandleStore, IssueInst, NothingToIssue, NoFinishedTile,
     PopMemoryRequest, PushMemoryResponse

LEMMA SlotsInitially == Init => FinishedApart /\ Slots!SlotsInit
<1> SUFFICES ASSUME Init PROVE FinishedApart /\ Slots!SlotsInit
  OBVIOUS
<1>1. tiles = <<>> /\ finished_tiles = <<>> /\ issued = 0 /\ Elements(<<>>) = {} /\ Len(<<>>) = 0
  BY EmptyElements, EmptySeq DEF Init
<1>2. Elements(tiles) = {} /\ Elements(finished_tiles) = {} /\ 1 .. issued = {}
  BY <1>1
<1> QED BY <1>1, <1>2 DEF FinishedApart, Slots!SlotsInit, Elements

(* The core as the scheduler sees it: whatever happens in its queues, its   *)
(* pipelines and the memory, it works on at most two tiles, takes none      *)
(* twice, finishes each one once and hands it back once, in the order in    *)
(* which they finished.  That it finishes them all is left to the runs.     *)
THEOREM CoreImplementsSlots == Spec => Slots!SlotsSafety
<1>1. Init => FinishedApart /\ Slots!SlotsInit
  BY SlotsInitially
<1>2. TypeOK /\ TypeOK' /\ TilesApart /\ FinishedApart /\ [Next]_vars => FinishedApart' /\ Promised
  BY SlotsStep
<1>3. IInv => TypeOK /\ TilesApart
  BY DEF IInv
<1>4. Promised => [Slots!SlotsNext]_(Slots!slots)
  BY DEF Promised, Shown, Slots!slots, Returned
<1> QED BY <1>1, <1>2, <1>3, <1>4, Invariance, PTL DEF Spec, Slots!SlotsSafety

-----------------------------------------------------------------------------
(* Sums over a finite set.  The sum of f over S is the number of cells of a *)
(* table that has f[x] cells in the row of x: that number satisfies the     *)
(* recursion by which MapThenSumSet is defined, and nothing else does.      *)

Cells(f, s) == {c \in s \X Nat : 1 <= c[2] /\ c[2] <= f[c[1]]}
Chosen(s) == CHOOSE x \in s : TRUE

LEMMA LeastSubset ==
  ASSUME NEW S, IsFiniteSet(S), NEW B, B \subseteq SUBSET S, B # {}
  PROVE  \E s \in B : \A x \in s : s \ {x} \notin B
<1>1. FiniteSubsetsOf(S) = SUBSET S
  BY FS_FiniteSubsetsOfFinite
<1>2. IsWellFoundedOn(StrictSubsetOrdering(S), FiniteSubsetsOf(S))
  BY FS_StrictSubsetOrderingWellFounded
<1>3. PICK s \in B : \A u \in B : <<u, s>> \notin StrictSubsetOrdering(S)
  BY <1>1, <1>2, WFMin
<1>4. ASSUME NEW x \in s, s \ {x} \in B PROVE FALSE
  BY <1>3, <1>4 DEF StrictSubsetOrdering
<1> QED BY <1>4

LEMMA RowSize ==
  ASSUME NEW x, NEW n \in Nat
  PROVE  IsFiniteSet({x} \X (1 .. n)) /\ Cardinality({x} \X (1 .. n)) = n
<1>1. PICK f : f = [k \in 1 .. n |-> <<x, k>>]
  OBVIOUS
<1>2. f \in Bijection(1 .. n, {x} \X (1 .. n))
  <2>1. \A c : c \in {x} \X (1 .. n) <=> \E k \in 1 .. n : c = <<x, k>>
    OBVIOUS
  <2>2. f \in [1 .. n -> {x} \X (1 .. n)] /\ \A j, k \in 1 .. n : f[j] = f[k] => j = k
    BY <1>1
  <2>3. \A c \in {x} \X (1 .. n) : \E k \in 1 .. n : f[k] = c
    BY <1>1, <2>1
  <2> QED BY <2>2, <2>3 DEF Bijection, Injection, Surjection, IsInjective
<1>3. ExistsBijection(1 .. n, {x} \X (1 .. n))
  BY <1>2 DEF ExistsBijection
<1>4. IsFiniteSet(1 .. n) /\ Cardinality(1 .. n) = n
  BY FS_Interval
<1> QED BY <1>3, <1>4, FS_Bijection

LEMMA CellsSplit ==
  ASSUME NEW S, NEW f \in [S -> Nat], NEW s \in SUBSET S, NEW x \in s
  PROVE  /\ Cells(f, s) = Cells(f, s \ {x}) \cup ({x} \X (1 .. f[x]))
         /\ Cells(f, s \ {x}) \cap ({x} \X (1 .. f[x])) = {}
<1>1. f[x] \in Nat
  OBVIOUS
<1>2. \A c : c \in {x} \X (1 .. f[x]) <=> c \in {x} \X Nat /\ 1 <= c[2] /\ c[2] <= f[x]
  BY <1>1
<1>3. \A c : c \in s \X Nat <=> (c \in (s \ {x}) \X Nat \/ c \in {x} \X Nat)
  OBVIOUS
<1>4. \A c : c \in {x} \X Nat => c[1] = x /\ c \notin (s \ {x}) \X Nat
  OBVIOUS
<1> QED BY <1>2, <1>3, <1>4 DEF Cells

LEMMA CellsFinite ==
  ASSUME NEW S, IsFiniteSet(S), NEW f \in [S -> Nat], NEW s \in SUBSET S
  PROVE  IsFiniteSet(Cells(f, s)) /\ Cardinality(Cells(f, s)) \in Nat
<1> DEFINE Bad == {u \in SUBSET S : ~IsFiniteSet(Cells(f, u))}
<1>1. SUFFICES ASSUME Bad # {} PROVE FALSE
  BY FS_CardinalityType
<1>2. PICK u \in Bad : \A x \in u : u \ {x} \notin Bad
  <2>1. Bad \subseteq SUBSET S
    OBVIOUS
  <2> HIDE DEF Bad
  <2> QED BY <1>1, <2>1, LeastSubset
<1>3. CASE u = {}
  <2>1. Cells(f, u) = {}
    BY <1>3 DEF Cells
  <2> QED BY <1>2, <2>1, FS_EmptySet
<1>4. CASE u # {}
  <2>1. PICK x \in u : IsFiniteSet(Cells(f, u \ {x}))
    BY <1>2, <1>4
  <2>2. IsFiniteSet({x} \X (1 .. f[x])) /\ u \in SUBSET S
    <3>1. u \in SUBSET S /\ f[x] \in Nat
      BY <1>2
    <3> QED BY <3>1, RowSize
  <2>3. Cells(f, u) = Cells(f, u \ {x}) \cup ({x} \X (1 .. f[x]))
    BY <2>2, CellsSplit
  <2>4. IsFiniteSet(Cells(f, u \ {x}) \cup ({x} \X (1 .. f[x])))
    BY <2>1, <2>2, FS_Union
  <2>5. IsFiniteSet(Cells(f, u))
    BY <2>3, <2>4
  <2> QED BY <1>2, <2>5
<1> QED BY <1>3, <1>4

(* The recursion of MapThenSumSet.                                          *)
SumsUp(v, f, S) ==
  v = [s \in SUBSET S |-> IF s = {} THEN 0 ELSE f[Chosen(s)] + v[s \ {Chosen(s)}]]

LEMMA CellsSumUp ==
  ASSUME NEW S, IsFiniteSet(S), NEW f \in [S -> Nat]
  PROVE  SumsUp([s \in SUBSET S |-> Cardinality(Cells(f, s))], f, S)
<1> DEFINE w == [s \in SUBSET S |-> Cardinality(Cells(f, s))]
           e(s) == IF s = {} THEN 0 ELSE f[Chosen(s)] + w[s \ {Chosen(s)}]
<1>1. ASSUME NEW s \in SUBSET S PROVE Cardinality(Cells(f, s)) = e(s)
  <2>1. CASE s = {}
    <3>1. Cells(f, s) = {}
      BY <2>1 DEF Cells
    <3> QED BY <2>1, <3>1, FS_EmptySet
  <2>2. CASE s # {}
    <3>1. PICK x \in s : x = Chosen(s)
      BY <2>2 DEF Chosen
    <3>2. s \ {x} \in SUBSET S /\ f[x] \in Nat
      OBVIOUS
    <3>3. /\ IsFiniteSet(Cells(f, s \ {x})) /\ Cardinality(Cells(f, s \ {x})) \in Nat
          /\ IsFiniteSet({x} \X (1 .. f[x])) /\ Cardinality({x} \X (1 .. f[x])) = f[x]
      BY <3>2, CellsFinite, RowSize
    <3>4. /\ Cells(f, s) = Cells(f, s \ {x}) \cup ({x} \X (1 .. f[x]))
          /\ Cells(f, s \ {x}) \cap ({x} \X (1 .. f[x])) = {}
      BY CellsSplit
    <3>5. Cardinality(Cells(f, s)) = Cardinality(Cells(f, s \ {x})) + f[x]
      BY <3>3, <3>4, Grown
    <3>6. w[s \ {x}] = Cardinality(Cells(f, s \ {x}))
      BY <3>2
    <3>7. e(s) = f[x] + w[s \ {x}]
      BY <2>2, <3>1
    <3> HIDE DEF e, w
    <3> QED BY <3>2, <3>3, <3>5, <3>6, <3>7
  <2> QED BY <2>1, <2>2
<1>2. w = [s \in SUBSET S |-> e(s)]
  BY <1>1
<1> QED BY <1>2 DEF SumsUp

LEMMA OneSum ==
  ASSUME NEW S, IsFiniteSet(S), NEW f \in [S -> Nat], NEW v, NEW w, SumsUp(v, f, S), SumsUp(w, f, S)
  PROVE  v = w
<1> DEFINE Bad == {u \in SUBSET S : v[u] # w[u]}
<1>0. /\ v = [s \in SUBSET S |-> v[s]] /\ w = [s \in SUBSET S |-> w[s]]
      /\ \A s \in SUBSET S : v[s] = IF s = {} THEN 0 ELSE f[Chosen(s)] + v[s \ {Chosen(s)}]
      /\ \A s \in SUBSET S : w[s] = IF s = {} THEN 0 ELSE f[Chosen(s)] + w[s \ {Chosen(s)}]
  BY DEF SumsUp
<1>1. CASE Bad = {}
  BY <1>0, <1>1
<1>2. CASE Bad # {}
  <2>1. PICK u \in Bad : \A x \in u : u \ {x} \notin Bad
    <3>1. Bad \subseteq SUBSET S
      OBVIOUS
    <3> HIDE DEF Bad
    <3> QED BY <1>2, <3>1, LeastSubset
  <2>2. u # {}
    BY <1>0, <2>1
  <2>3. PICK x \in u : x = Chosen(u)
    BY <2>2 DEF Chosen
  <2>4. v[u \ {x}] = w[u \ {x}]
    BY <2>1
  <2> QED BY <1>0, <2>1, <2>2, <2>3, <2>4
<1> QED BY <1>1, <1>2

SumOver(f, S) == Cardinality(Cells(f, S))

LEMMA ZeroSum ==
  ASSUME NEW S, NEW f \in [S -> Nat], \A x \in S : f[x] = 0
  PROVE  SumOver(f, S) = 0
<1>1. Cells(f, S) = {}
  BY DEF Cells
<1> QED BY <1>1, FS_EmptySet DEF SumOver

LEMMA SumRaised ==
  ASSUME NEW S, IsFiniteSet(S), NEW f \in [S -> Nat], NEW x \in S, f[x] = 0, NEW n \in Nat
  PROVE  SumOver([f EXCEPT ![x] = n], S) = SumOver(f, S) + n
<1>1. PICK g \in [S -> Nat] : g = [f EXCEPT ![x] = n]
  OBVIOUS
<1>2. g[x] = n /\ \A y \in S \ {x} : g[y] = f[y]
  BY <1>1
<1>3. Cells(g, S \ {x}) = Cells(f, S \ {x})
  BY <1>2 DEF Cells
<1>4. Cells(f, S) = Cells(f, S \ {x})
  <2>1. 1 .. 0 = {}
    OBVIOUS
  <2>2. Cells(f, S) = Cells(f, S \ {x}) \cup ({x} \X (1 .. f[x]))
    BY CellsSplit
  <2> QED BY <2>1, <2>2
<1>5. /\ Cells(g, S) = Cells(g, S \ {x}) \cup ({x} \X (1 .. n))
      /\ Cells(g, S \ {x}) \cap ({x} \X (1 .. n)) = {}
  BY <1>2, CellsSplit
<1>6. /\ IsFiniteSet(Cells(g, S \ {x}))
      /\ IsFiniteSet({x} \X (1 .. n)) /\ Cardinality({x} \X (1 .. n)) = n
  BY CellsFinite, RowSize
<1>7. Cardinality(Cells(g, S)) = Cardinality(Cells(g, S \ {x})) + n
  BY <1>5, <1>6, Grown
<1> QED BY <1>1, <1>3, <1>4, <1>7 DEF SumOver

-----------------------------------------------------------------------------
(* The room of the scratchpads.                                            *)

Places(b) == {a \in Addr : Bank(a) = b}
SizesOf(sr, b, h) == [a \in Places(b) |-> sr[a][h].size]
SramValue == [Addr -> [Half -> Entry \cup {Absent}]]
UsedValue == [{"spad", "acc"} -> [Half -> Nat]]

(* RoomCounted of a content sr and its counts us, as it is written and as a *)
(* sum over a table.                                                        *)
RoomFits(sr, us) ==
  \A b \in {"spad", "acc"}, h \in Half :
    /\ us[b][h] = MapThenSumSet(LAMBDA a : sr[a][h].size, {a \in Addr : Bank(a) = b})
    /\ us[b][h] <= Capacity(b)

RoomAdds(sr, us) ==
  \A b \in {"spad", "acc"}, h \in Half :
    /\ us[b][h] = SumOver(SizesOf(sr, b, h), Places(b))
    /\ us[b][h] <= Capacity(b)

LEMMA PlacesFinite ==
  ASSUME NEW b
  PROVE  IsFiniteSet(Places(b))
<1>1. IsFiniteSet(Addr)
  BY CoreAssumption, FS_Union DEF Addr
<1> QED BY <1>1, FS_Subset DEF Places

LEMMA SizesType ==
  ASSUME NEW sr \in SramValue, NEW b, NEW h \in Half
  PROVE  SizesOf(sr, b, h) \in [Places(b) -> Nat] /\ \A a \in Places(b) : SizesOf(sr, b, h)[a] = sr[a][h].size
<1>1. \A a \in Places(b) : sr[a][h] \in Entry \cup {Absent}
  BY DEF SramValue, Places
<1>2. \A e \in Entry \cup {Absent} : e.size \in Nat
  BY DEF Entry, Absent
<1> QED BY <1>1, <1>2 DEF SizesOf

(* MapThenSumSet is the sum.                                                *)
LEMMA SumOfSizes ==
  ASSUME NEW sr \in SramValue, NEW b, NEW h \in Half
  PROVE  MapThenSumSet(LAMBDA a : sr[a][h].size, Places(b)) = SumOver(SizesOf(sr, b, h), Places(b))
<1> DEFINE S == Places(b)
           f == SizesOf(sr, b, h)
<1>1. PICK w : w = [s \in SUBSET S |-> Cardinality(Cells(f, s))]
  OBVIOUS
<1>2. IsFiniteSet(S) /\ f \in [S -> Nat] /\ \A a \in S : f[a] = sr[a][h].size
  BY PlacesFinite, SizesType
<1> HIDE DEF S, f
<1>3. SumsUp(w, f, S) /\ w[S] = SumOver(f, S)
  BY <1>1, <1>2, CellsSumUp DEF SumOver
<1>4. ASSUME NEW v
      PROVE  v = [s \in SUBSET S |-> IF s = {} THEN 0 ELSE sr[Chosen(s)][h].size + v[s \ {Chosen(s)}]]
             <=> SumsUp(v, f, S)
  <2>1. \A s \in SUBSET S : s # {} => Chosen(s) \in S
    BY DEF Chosen
  <2>2. \A s \in SUBSET S : (IF s = {} THEN 0 ELSE sr[Chosen(s)][h].size + v[s \ {Chosen(s)}])
                            = (IF s = {} THEN 0 ELSE f[Chosen(s)] + v[s \ {Chosen(s)}])
    BY <1>2, <2>1
  <2>3. [s \in SUBSET S |-> IF s = {} THEN 0 ELSE sr[Chosen(s)][h].size + v[s \ {Chosen(s)}]]
        = [s \in SUBSET S |-> IF s = {} THEN 0 ELSE f[Chosen(s)] + v[s \ {Chosen(s)}]]
    BY <2>2
  <2> QED BY <2>3, Zenon DEF SumsUp
<1>5. /\ w = [s \in SUBSET S |-> IF s = {} THEN 0 ELSE sr[Chosen(s)][h].size + w[s \ {Chosen(s)}]]
      /\ \A v : v = [s \in SUBSET S |-> IF s = {} THEN 0 ELSE sr[Chosen(s)][h].size + v[s \ {Chosen(s)}]] => v = w
  BY <1>2, <1>3, <1>4, OneSum
<1>6. MapThenSumSet(LAMBDA a : sr[a][h].size, S) = w[S]
  BY <1>5, Zenon DEF MapThenSumSet, MapThenFoldSet, Chosen
<1> QED BY <1>3, <1>6 DEF S, f

LEMMA RoomSame ==
  ASSUME NEW sr \in SramValue, NEW us
  PROVE  RoomFits(sr, us) <=> RoomAdds(sr, us)
<1>1. \A b, h : h \in Half =>
        MapThenSumSet(LAMBDA a : sr[a][h].size, {a \in Addr : Bank(a) = b}) = SumOver(SizesOf(sr, b, h), Places(b))
  BY SumOfSizes DEF Places
<1> QED BY <1>1, Zenon DEF RoomFits, RoomAdds

LEMMA CapacityType == \A b : Capacity(b) \in Nat /\ 0 <= Capacity(b)
BY CoreAssumption DEF Capacity

(* No place changes its size.                                               *)
LEMMA SizesKept ==
  ASSUME NEW sr \in SramValue, NEW s2 \in SramValue, NEW us, RoomAdds(sr, us),
         \A a \in Addr, h \in Half : s2[a][h].size = sr[a][h].size
  PROVE  RoomAdds(s2, us)
<1>1. ASSUME NEW b, NEW h \in Half PROVE SizesOf(s2, b, h) = SizesOf(sr, b, h)
  BY DEF SizesOf, Places
<1> QED BY <1>1 DEF RoomAdds

(* Sram::prefetch takes room for a place that is free.                      *)
LEMMA RoomTaken ==
  ASSUME NEW sr \in SramValue, NEW us \in UsedValue, RoomAdds(sr, us),
         NEW a \in Addr, NEW h \in Half, sr[a][h] = Absent, NEW e \in Entry,
         us[Bank(a)][h] + e.size <= Capacity(Bank(a)),
         NEW s2 \in SramValue, s2 = [sr EXCEPT ![a][h] = e],
         NEW u2, u2 = [us EXCEPT ![Bank(a)][h] = us[Bank(a)][h] + e.size]
  PROVE  RoomAdds(s2, u2)
<1>1. Bank(a) \in {"spad", "acc"} /\ e.size \in Nat /\ us[Bank(a)][h] \in Nat
  BY BankType DEF Entry, UsedValue
<1>2. \A x \in Addr, g \in Half : s2[x][g] = IF x = a /\ g = h THEN e ELSE sr[x][g]
  BY DEF SramValue
<1>3. \A b \in {"spad", "acc"}, g \in Half :
        u2[b][g] = IF b = Bank(a) /\ g = h THEN us[b][g] + e.size ELSE us[b][g]
  BY <1>1 DEF UsedValue
<1>4. ASSUME NEW b \in {"spad", "acc"}, NEW g \in Half, ~(b = Bank(a) /\ g = h)
      PROVE  u2[b][g] = SumOver(SizesOf(s2, b, g), Places(b)) /\ u2[b][g] <= Capacity(b)
  <2>1. \A x \in Places(b) : s2[x][g] = sr[x][g]
    BY <1>2, <1>4 DEF Places
  <2>2. SizesOf(s2, b, g) = SizesOf(sr, b, g)
    BY <2>1 DEF SizesOf
  <2> QED BY <1>3, <1>4, <2>2 DEF RoomAdds
<1>5. u2[Bank(a)][h] = SumOver(SizesOf(s2, Bank(a), h), Places(Bank(a))) /\ u2[Bank(a)][h] <= Capacity(Bank(a))
  <2>1. PICK f \in [Places(Bank(a)) -> Nat] : f = SizesOf(sr, Bank(a), h)
    BY SizesType
  <2>2. a \in Places(Bank(a)) /\ f[a] = 0
    <3>1. a \in Places(Bank(a))
      BY DEF Places
    <3> QED BY <2>1, <3>1, SizesType DEF Absent
  <2>3. SizesOf(s2, Bank(a), h) = [f EXCEPT ![a] = e.size]
    <3>1. \A x \in Places(Bank(a)) : s2[x][h].size = IF x = a THEN e.size ELSE f[x]
      <4>1. \A x \in Places(Bank(a)) : f[x] = sr[x][h].size
        BY <2>1, SizesType
      <4>2. \A x \in Places(Bank(a)) : x \in Addr /\ s2[x][h] = IF x = a THEN e ELSE sr[x][h]
        BY <1>2 DEF Places
      <4> QED BY <4>1, <4>2
    <3> QED BY <2>1, <3>1 DEF SizesOf
  <2>4. SumOver([f EXCEPT ![a] = e.size], Places(Bank(a))) = SumOver(f, Places(Bank(a))) + e.size
    BY <1>1, <2>2, PlacesFinite, SumRaised
  <2>5. us[Bank(a)][h] = SumOver(f, Places(Bank(a)))
    BY <1>1, <2>1 DEF RoomAdds
  <2> QED BY <1>1, <1>3, <2>3, <2>4, <2>5
<1> QED BY <1>4, <1>5 DEF RoomAdds

(* Sram::flush of the halves F, each as a whole.                            *)
WithoutHalves(sr, s2, F) ==
  \A a \in Addr, h \in Half : s2[a][h] = IF <<Bank(a), h>> \in F THEN Absent ELSE sr[a][h]
WithoutRoom(us, u2, F) ==
  \A b \in {"spad", "acc"}, h \in Half : u2[b][h] = IF <<b, h>> \in F THEN 0 ELSE us[b][h]

LEMMA RoomFlushed ==
  ASSUME NEW sr \in SramValue, NEW us, RoomAdds(sr, us), NEW F,
         NEW s2 \in SramValue, WithoutHalves(sr, s2, F), NEW u2, WithoutRoom(us, u2, F)
  PROVE  RoomAdds(s2, u2)
<1>1. ASSUME NEW b \in {"spad", "acc"}, NEW h \in Half
      PROVE  u2[b][h] = SumOver(SizesOf(s2, b, h), Places(b)) /\ u2[b][h] <= Capacity(b)
  <2>1. CASE <<b, h>> \in F
    <3>1. PICK f \in [Places(b) -> Nat] : f = SizesOf(s2, b, h)
      BY SizesType
    <3>2. \A a \in Places(b) : f[a] = 0
      <4>1. \A a \in Places(b) : s2[a][h] = Absent
        BY <2>1 DEF Places, WithoutHalves
      <4> QED BY <3>1, <4>1, SizesType DEF Absent
    <3>3. SumOver(f, Places(b)) = 0
      BY <3>2, ZeroSum
    <3> QED BY <2>1, <3>1, <3>3, CapacityType DEF WithoutRoom
  <2>2. CASE <<b, h>> \notin F
    <3>1. \A a \in Places(b) : s2[a][h] = sr[a][h]
      BY <2>2 DEF Places, WithoutHalves
    <3>2. SizesOf(s2, b, h) = SizesOf(sr, b, h)
      BY <3>1 DEF SizesOf
    <3> QED BY <2>2, <3>2 DEF RoomAdds, WithoutRoom
  <2> QED BY <2>1, <2>2
<1> QED BY <1>1 DEF RoomAdds

RoomKept == RoomAdds(sram, used) => RoomAdds(sram', used')

LEMMA FillKeepsRoom ==
  ASSUME SramType, SramType', NEW a \in Addr, NEW h \in Half, Fill(a, h)
  PROVE  RoomKept
<1>1. PICK s2 \in SramValue : s2 = sram'
  BY DEF SramType, SramValue
<1>2. used' = used /\ sram \in SramValue
  BY FillFacts DEF SramType, SramValue
<1>3. \A x \in Addr, g \in Half : s2[x][g].size = sram[x][g].size
  <2>1. CASE sram' = sram
    BY <1>1, <2>1
  <2>2. CASE sram' = Filled(a, h)
    BY <1>1, <2>2 DEF Filled, SramType
  <2> QED BY <2>1, <2>2 DEF Fill, sramVars
<1> QED BY <1>1, <1>2, <1>3, SizesKept DEF RoomKept

LEMMA CountUpKeepsRoom ==
  ASSUME SramType, SramType', NEW a \in Addr, NEW h \in Half, CountUp(a, h)
  PROVE  RoomKept
<1>1. PICK s2 \in SramValue : s2 = sram'
  BY DEF SramType, SramValue
<1>2. used' = used /\ sram \in SramValue
  BY DEF SramType, SramValue, CountUp
<1>3. \A x \in Addr, g \in Half : s2[x][g].size = sram[x][g].size
  BY <1>1 DEF CountUp, SramType
<1> QED BY <1>1, <1>2, <1>3, SizesKept DEF RoomKept

LEMMA PrefetchKeepsRoom ==
  ASSUME SramType, SramType', NEW a \in Addr, NEW h \in Half, NEW n \in Nat \ {0}, NEW c \in Nat,
         Prefetch(a, h, n, c)
  PROVE  RoomKept
<1>1. CASE ~(~CheckAllocated(a, h) /\ CheckRemain(a, h, n))
  BY <1>1 DEF Prefetch, sramVars, RoomKept
<1>2. CASE ~CheckAllocated(a, h) /\ CheckRemain(a, h, n)
  <2>1. PICK e \in Entry : e = [valid |-> FALSE, size |-> n, remain |-> c]
    BY DEF Entry
  <2>2. PICK s2 \in SramValue, u2 \in UsedValue : s2 = sram' /\ u2 = used'
    BY DEF SramType, SramValue, UsedValue
  <2>3. /\ s2 = [sram EXCEPT ![a][h] = e] /\ e.size = n
        /\ u2 = [used EXCEPT ![Bank(a)][h] = used[Bank(a)][h] + n]
    BY <1>2, <2>1, <2>2 DEF Prefetch
  <2>4. PICK sr \in SramValue, us \in UsedValue : sr = sram /\ us = used
    BY DEF SramType, SramValue, UsedValue
  <2>5. sr[a][h] = Absent /\ us[Bank(a)][h] + e.size <= Capacity(Bank(a))
    BY <1>2, <2>3, <2>4 DEF CheckAllocated, CheckRemain
  <2>6. RoomAdds(sr, us) => RoomAdds(s2, u2)
    <3>1. s2 = [sr EXCEPT ![a][h] = e] /\ u2 = [us EXCEPT ![Bank(a)][h] = us[Bank(a)][h] + e.size]
      BY <2>3, <2>4
    <3> SUFFICES ASSUME RoomAdds(sr, us) PROVE RoomAdds(s2, u2)
      OBVIOUS
    <3> QED BY <2>5, <3>1, RoomTaken, Zenon
  <2> QED BY <2>2, <2>4, <2>6 DEF RoomKept
<1> QED BY <1>1, <1>2

LEMMA IssueKeepsRoom ==
  ASSUME SramType, SramType', IssueTile
  PROVE  RoomKept
<1> DEFINE t == issued + 1
<1>1. PICK s2 \in SramValue, u2 \in UsedValue : s2 = sram' /\ u2 = used'
  BY DEF SramType, SramValue, UsedValue
<1>2. PICK sr \in SramValue, us \in UsedValue : sr = sram /\ us = used
  BY DEF SramType, SramValue, UsedValue
<1>3. PICK F : F = {p \in {"spad", "acc"} \X Half : Flushes(t, p[1], p[2])}
  OBVIOUS
<1>4. \A b \in {"spad", "acc"}, h \in Half : <<b, h>> \in F <=> Flushes(t, b, h)
  BY <1>3
<1>5. WithoutHalves(sr, s2, F)
  <2>1. \A a \in Addr, h \in Half : s2[a][h] = IF Flushes(t, Bank(a), h) THEN Absent ELSE sram[a][h]
    BY <1>1 DEF IssueTile
  <2> QED BY <1>2, <1>4, <2>1, BankType DEF WithoutHalves
<1>6. WithoutRoom(us, u2, F)
  <2>1. \A b \in {"spad", "acc"}, h \in Half : u2[b][h] = IF Flushes(t, b, h) THEN 0 ELSE used[b][h]
    BY <1>1 DEF IssueTile
  <2> QED BY <1>2, <1>4, <2>1 DEF WithoutRoom
<1>7. RoomAdds(sr, us) => RoomAdds(s2, u2)
  <2> SUFFICES ASSUME RoomAdds(sr, us) PROVE RoomAdds(s2, u2)
    OBVIOUS
  <2> QED BY <1>5, <1>6, RoomFlushed, Zenon
<1> QED BY <1>1, <1>2, <1>7 DEF RoomKept

LEMMA RoomStep == TypeOK /\ TypeOK' /\ [Next]_vars => RoomKept
<1> SUFFICES ASSUME TypeOK, TypeOK', [Next]_vars PROVE RoomKept
  OBVIOUS
<1>1. SramType /\ SramType'
  BY TypeParts, TypePartsNext DEF TypeOK, SramType
<1>2. ASSUME NEW i \in Inst
      PROVE  Code(i).dest \in Addr /\ Target(i) \in Half /\ Code(i).size \in Nat \ {0} /\ Code(i).size \in Nat
  BY <1>2, InstFacts, TargetType DEF TypeOK
<1>3. CASE ComputeDone
  <2>1. Head(compute) \in Inst
    BY <1>3, HeadTailProperties DEF ComputeDone, TypeOK, QueueType
  <2> QED BY <1>1, <1>2, <1>3, <2>1, FillKeepsRoom DEF ComputeDone
<1>4. CASE VectorDone
  <2>1. Head(vector) \in Inst
    BY <1>4, HeadTailProperties DEF VectorDone, TypeOK, QueueType
  <2> QED BY <1>1, <1>2, <1>4, <2>1, FillKeepsRoom DEF VectorDone
<1>5. CASE HandleLoad
  <2>1. CASE ld = <<>>
    BY <1>5, <2>1 DEF HandleLoad, sramVars, RoomKept
  <2>2. CASE ld # <<>>
    <3>1. Head(ld) \in Inst
      BY <2>2, HeadTailProperties DEF TypeOK, QueueType
    <3> QED BY <1>1, <1>2, <1>5, <2>2, <3>1, PrefetchKeepsRoom DEF HandleLoad
  <2> QED BY <2>1, <2>2
<1>6. CASE Execute
  <2>1. CASE ~(ex # <<>> /\ CanIssueCompute(Head(ex)))
    BY <1>6, <2>1 DEF Execute, sramVars, RoomKept
  <2>2. CASE ex # <<>> /\ CanIssueCompute(Head(ex))
    <3> DEFINE i == Head(ex)
    <3>1. i \in Inst
      BY <2>2, HeadTailProperties DEF TypeOK, QueueType
    <3>2. IF CheckAllocated(Code(i).dest, Target(i))
            THEN CountUp(Code(i).dest, Target(i))
            ELSE Prefetch(Code(i).dest, Target(i), Code(i).size, 1)
      BY <1>6, <2>2 DEF Execute
    <3> HIDE DEF i
    <3> QED BY <1>1, <1>2, <3>1, <3>2, CountUpKeepsRoom, PrefetchKeepsRoom
  <2> QED BY <2>1, <2>2
<1>7. CASE IssueTile
  BY <1>1, <1>7, IssueKeepsRoom
<1>8. ASSUME NEW x \in memory, PushMemoryResponse(x) PROVE RoomKept
  <2>1. CASE IsWrite(x)
    BY <1>8, <2>1 DEF PushMemoryResponse, sramVars, RoomKept
  <2>2. CASE ~IsWrite(x)
    <3>1. InstOf(x) \in Inst
      BY <1>8, AccessFacts DEF TypeOK
    <3> QED BY <1>1, <1>2, <1>8, <2>2, <3>1, FillKeepsRoom DEF PushMemoryResponse
  <2> QED BY <2>1, <2>2
<1>9. CASE \/ ComputeNotDone \/ VectorNotDone \/ HandleStore \/ IssueInst \/ NothingToIssue \/ FinishTile
           \/ NoFinishedTile \/ NoTile \/ PopFinishedTile \/ PopMemoryRequest \/ UNCHANGED vars
  <2>1. sram' = sram /\ used' = used
    BY <1>9 DEF ComputeNotDone, VectorNotDone, HandleStore, IssueInst, NothingToIssue, FinishTile,
         NoFinishedTile, NoTile, PopFinishedTile, PopMemoryRequest, sramVars, vars
  <2> QED BY <2>1 DEF RoomKept
<1> QED BY <1>3, <1>4, <1>5, <1>6, <1>7, <1>8, <1>9 DEF Next, Cycle, Response

LEMMA RoomInitially == Init => RoomAdds(sram, used)
<1> SUFFICES ASSUME Init PROVE RoomAdds(sram, used)
  OBVIOUS
<1>1. sram \in SramValue /\ used \in UsedValue
  <2>1. TypeOK
    BY TypeInit
  <2> QED BY <2>1 DEF TypeOK, SramValue, UsedValue
<1>2. ASSUME NEW b \in {"spad", "acc"}, NEW h \in Half
      PROVE  used[b][h] = SumOver(SizesOf(sram, b, h), Places(b)) /\ used[b][h] <= Capacity(b)
  <2>1. PICK f \in [Places(b) -> Nat] : f = SizesOf(sram, b, h)
    BY <1>1, SizesType
  <2>2. \A a \in Places(b) : f[a] = 0
    <3>1. \A a \in Places(b) : sram[a][h] = Absent
      BY DEF Init, Places
    <3> QED BY <1>1, <2>1, <3>1, SizesType DEF Absent
  <2>3. SumOver(f, Places(b)) = 0 /\ used[b][h] = 0
    BY <2>2, ZeroSum DEF Init
  <2> QED BY <2>1, <2>3, CapacityType
<1> QED BY <1>2 DEF RoomAdds

(* What Sram::check_remain decides on is right: _current_size of a half is  *)
(* the room that its allocated places take and never more than the half     *)
(* has, whatever is prefetched, counted up, filled and flushed, and by      *)
(* whichever of the tiles.                                                  *)
THEOREM RoomIsCounted == Spec => []RoomCounted
<1>1. Init => RoomAdds(sram, used)
  BY RoomInitially
<1>2. TypeOK /\ TypeOK' /\ RoomAdds(sram, used) /\ [Next]_vars => RoomAdds(sram, used)'
  BY RoomStep DEF RoomKept
<1>3. TypeOK /\ RoomAdds(sram, used) => RoomCounted
  <2> SUFFICES ASSUME TypeOK, RoomAdds(sram, used) PROVE RoomCounted
    OBVIOUS
  <2>1. sram \in SramValue
    BY DEF TypeOK, SramValue
  <2>2. RoomFits(sram, used)
    BY <2>1, RoomSame
  <2> QED BY <2>2 DEF RoomCounted, RoomFits
<1> QED BY <1>1, <1>2, <1>3, TypeCorrect, PTL DEF Spec

-----------------------------------------------------------------------------
(* The counts of the places, for programs that wait for what they start.   *)

Loads == {x \in Requested \cup memory : ~IsWrite(x)}
UnderWay == InPipe \cup {InstOf(x) : x \in Loads}

(* A content of the scratchpads agrees with the numbers p.                  *)
Right(e, n) == e.remain = n /\ (e # Absent => (e.valid <=> n = 0))
Counts(sr, p) == \A a \in Addr, h \in Half : Right(sr[a][h], p[a][h])

(* The loads of L and the computations of P that are on their way to a      *)
(* place, when the tiles work in the halves hf.                             *)
LoadsAt(L, hf, a, h) == {x \in L : Code(InstOf(x)).dest = a /\ hf[InstOf(x)[1]][Bank(a)] = h}
ResultsAt(P, hf, a, h) == {i \in P : Code(i).dest = a /\ hf[i[1]][Bank(a)] = h}
PendingOf(L, P, hf) ==
  [a \in Addr |-> [h \in Half |-> Cardinality(LoadsAt(L, hf, a, h)) + Cardinality(ResultsAt(P, hf, a, h))]]

LEMMA CountsSame == RemainCounts <=> Counts(sram, PendingOf(Loads, InPipe, half))
<1>1. ASSUME NEW a \in Addr, NEW h \in Half
      PROVE  LoadsTo(a, h) = LoadsAt(Loads, half, a, h) /\ ComputedTo(a, h) = ResultsAt(InPipe, half, a, h)
  BY DEF LoadsTo, LoadsAt, Loads, Requested, ComputedTo, ResultsAt, InPipe, Target, HalfOf
<1>2. \A a \in Addr, h \in Half :
        PendingOf(Loads, InPipe, half)[a][h] = Cardinality(LoadsTo(a, h)) + Cardinality(ComputedTo(a, h))
  BY <1>1 DEF PendingOf
<1> QED BY <1>2 DEF RemainCounts, Counts, Right, CheckAllocated

Apart(S, T) == IsFiniteSet(S) /\ IsFiniteSet(T) /\ S \cap T = {}

(* Where the result of i goes; that all of A and B is n results of i; and   *)
(* that the numbers q are those of p with n more of them.                   *)
GoesTo(i, hf, a, h) == Code(i).dest = a /\ hf[i[1]][Bank(a)] = h
Weighs(A, B, hf, i, n) ==
  \A a \in Addr, h \in Half : PendingOf(A, B, hf)[a][h] = IF GoesTo(i, hf, a, h) THEN n ELSE 0
Grows(p, q, hf, i, n) ==
  \A a \in Addr, h \in Half :
    p[a][h] \in Nat /\ q[a][h] = p[a][h] + (IF GoesTo(i, hf, a, h) THEN n ELSE 0)

LEMMA PendingAdds ==
  ASSUME NEW L, NEW A, NEW P, NEW B, NEW hf, NEW i, NEW n, Apart(L, A), Apart(P, B), Weighs(A, B, hf, i, n)
  PROVE  Grows(PendingOf(L, P, hf), PendingOf(L \cup A, P \cup B, hf), hf, i, n)
<1> SUFFICES ASSUME NEW a \in Addr, NEW h \in Half
             PROVE  /\ PendingOf(L \cup A, P \cup B, hf)[a][h] = PendingOf(L, P, hf)[a][h] + PendingOf(A, B, hf)[a][h]
                    /\ PendingOf(L, P, hf)[a][h] \in Nat
  BY DEF Weighs, Grows
<1>1. /\ LoadsAt(L \cup A, hf, a, h) = LoadsAt(L, hf, a, h) \cup LoadsAt(A, hf, a, h)
      /\ LoadsAt(L, hf, a, h) \cap LoadsAt(A, hf, a, h) = {}
  BY DEF LoadsAt, Apart
<1>2. /\ ResultsAt(P \cup B, hf, a, h) = ResultsAt(P, hf, a, h) \cup ResultsAt(B, hf, a, h)
      /\ ResultsAt(P, hf, a, h) \cap ResultsAt(B, hf, a, h) = {}
  BY DEF ResultsAt, Apart
<1>3. /\ IsFiniteSet(LoadsAt(L, hf, a, h)) /\ IsFiniteSet(LoadsAt(A, hf, a, h))
      /\ IsFiniteSet(ResultsAt(P, hf, a, h)) /\ IsFiniteSet(ResultsAt(B, hf, a, h))
  BY FS_Subset DEF LoadsAt, ResultsAt, Apart
<1>4. PICK l1, l2, p1, p2 : /\ l1 = LoadsAt(L, hf, a, h) /\ l2 = LoadsAt(A, hf, a, h)
                            /\ p1 = ResultsAt(P, hf, a, h) /\ p2 = ResultsAt(B, hf, a, h)
  OBVIOUS
<1>5. /\ Cardinality(l1 \cup l2) = Cardinality(l1) + Cardinality(l2)
      /\ Cardinality(p1 \cup p2) = Cardinality(p1) + Cardinality(p2)
      /\ Cardinality(l1) \in Nat /\ Cardinality(l2) \in Nat /\ Cardinality(p1) \in Nat /\ Cardinality(p2) \in Nat
  BY <1>1, <1>2, <1>3, <1>4, Grown
<1>6. /\ PendingOf(L \cup A, P \cup B, hf)[a][h] = Cardinality(l1 \cup l2) + Cardinality(p1 \cup p2)
      /\ PendingOf(L, P, hf)[a][h] = Cardinality(l1) + Cardinality(p1)
      /\ PendingOf(A, B, hf)[a][h] = Cardinality(l2) + Cardinality(p2)
  BY <1>1, <1>2, <1>4 DEF PendingOf
<1> QED BY <1>5, <1>6

LEMMA PendingOne ==
  ASSUME NEW hf
  PROVE  /\ \A i \in Inst : Weighs({}, {i}, hf, i, 1) /\ Weighs(Accesses(i), {}, hf, i, Code(i).reqs)
         /\ \A x \in Access : Weighs({x}, {}, hf, InstOf(x), 1)
<1> SUFFICES ASSUME NEW a \in Addr, NEW h \in Half
             PROVE  /\ \A i \in Inst :
                         /\ PendingOf({}, {i}, hf)[a][h] = IF GoesTo(i, hf, a, h) THEN 1 ELSE 0
                         /\ PendingOf(Accesses(i), {}, hf)[a][h] = IF GoesTo(i, hf, a, h) THEN Code(i).reqs ELSE 0
                    /\ \A x \in Access : PendingOf({x}, {}, hf)[a][h] = IF GoesTo(InstOf(x), hf, a, h) THEN 1 ELSE 0
  BY DEF Weighs
<1>1. ASSUME NEW A, NEW B
      PROVE  PendingOf(A, B, hf)[a][h] = Cardinality(LoadsAt(A, hf, a, h)) + Cardinality(ResultsAt(B, hf, a, h))
  BY DEF PendingOf
<1>2. LoadsAt({}, hf, a, h) = {} /\ ResultsAt({}, hf, a, h) = {} /\ Cardinality({}) = 0
  BY FS_EmptySet DEF LoadsAt, ResultsAt
<1>3. ASSUME NEW i \in Inst
      PROVE  /\ PendingOf({}, {i}, hf)[a][h] = IF GoesTo(i, hf, a, h) THEN 1 ELSE 0
             /\ PendingOf(Accesses(i), {}, hf)[a][h] = IF GoesTo(i, hf, a, h) THEN Code(i).reqs ELSE 0
  <2>1. ResultsAt({i}, hf, a, h) = IF GoesTo(i, hf, a, h) THEN {i} ELSE {}
    BY DEF ResultsAt, GoesTo
  <2>2. LoadsAt(Accesses(i), hf, a, h) = IF GoesTo(i, hf, a, h) THEN Accesses(i) ELSE {}
    BY AccessesFacts DEF LoadsAt, GoesTo
  <2>3. Cardinality({i}) = 1 /\ Cardinality(Accesses(i)) = Code(i).reqs /\ Code(i).reqs \in Nat
    BY FS_Singleton, AccessesFacts, InstFacts
  <2>4. CASE GoesTo(i, hf, a, h)
    BY <1>1, <1>2, <2>1, <2>2, <2>3, <2>4
  <2>5. CASE ~GoesTo(i, hf, a, h)
    BY <1>1, <1>2, <2>1, <2>2, <2>5
  <2> QED BY <2>4, <2>5
<1>4. ASSUME NEW x \in Access
      PROVE  PendingOf({x}, {}, hf)[a][h] = IF GoesTo(InstOf(x), hf, a, h) THEN 1 ELSE 0
  <2>1. LoadsAt({x}, hf, a, h) = IF GoesTo(InstOf(x), hf, a, h) THEN {x} ELSE {}
    BY DEF LoadsAt, GoesTo
  <2>2. Cardinality({x}) = 1
    BY FS_Singleton
  <2>3. CASE GoesTo(InstOf(x), hf, a, h)
    BY <1>1, <1>2, <2>1, <2>2, <2>3
  <2>4. CASE ~GoesTo(InstOf(x), hf, a, h)
    BY <1>1, <1>2, <2>1, <2>4
  <2> QED BY <2>3, <2>4
<1> QED BY <1>3, <1>4

LEMMA NothingPending ==
  ASSUME NEW L, NEW P, NEW hf, NEW a \in Addr, NEW h \in Half, IsFiniteSet(L), IsFiniteSet(P),
         PendingOf(L, P, hf)[a][h] = 0
  PROVE  LoadsAt(L, hf, a, h) = {} /\ ResultsAt(P, hf, a, h) = {}
<1>1. IsFiniteSet(LoadsAt(L, hf, a, h)) /\ IsFiniteSet(ResultsAt(P, hf, a, h))
  BY FS_Subset DEF LoadsAt, ResultsAt
<1>2. Cardinality(LoadsAt(L, hf, a, h)) \in Nat /\ Cardinality(ResultsAt(P, hf, a, h)) \in Nat
  BY <1>1, FS_CardinalityType
<1>3. Cardinality(LoadsAt(L, hf, a, h)) + Cardinality(ResultsAt(P, hf, a, h)) = 0
  BY DEF PendingOf
<1>4. Cardinality(LoadsAt(L, hf, a, h)) = 0 /\ Cardinality(ResultsAt(P, hf, a, h)) = 0
  BY <1>2, <1>3
<1> QED BY <1>1, <1>4, FS_EmptySet

(* The number of a place, and what it holds, change together.               *)
Elsewhere(p, q, a, h) == \A b \in Addr, g \in Half : ~(b = a /\ g = h) => q[b][g] = p[b][g]

LEMMA CountsChanged ==
  ASSUME NEW sr \in SramValue, NEW p, Counts(sr, p), NEW q, NEW a \in Addr, NEW h \in Half, NEW e,
         Elsewhere(p, q, a, h), Right(e, q[a][h])
  PROVE  Counts([sr EXCEPT ![a][h] = e], q)
<1>1. \A b \in Addr, g \in Half : [sr EXCEPT ![a][h] = e][b][g] = IF b = a /\ g = h THEN e ELSE sr[b][g]
  BY DEF SramValue
<1>2. PICK s2 : s2 = [sr EXCEPT ![a][h] = e]
  OBVIOUS
<1>3. ASSUME NEW b \in Addr, NEW g \in Half
      PROVE  Right(s2[b][g], q[b][g])
  <2>1. CASE b = a /\ g = h
    BY <1>1, <1>2, <2>1
  <2>2. CASE ~(b = a /\ g = h)
    <3>1. s2[b][g] = sr[b][g] /\ q[b][g] = p[b][g]
      BY <1>1, <1>2, <2>2 DEF Elsewhere
    <3> QED BY <3>1 DEF Counts
  <2> QED BY <2>1, <2>2
<1> QED BY <1>2, <1>3 DEF Counts

(* Whatever is under way belongs to a tile that runs and has not finished,  *)
(* and what needs it has not been issued.                                   *)
TilesWork == \A i \in UnderWay : i[1] \in Elements(tiles) /\ i[1] \notin inst_finished
Awaited == \A j \in UnderWay, k \in Inst : Needs(k, j) => pos[k[1]] < k[2]

(* The computations of a tile are in the order of its program.              *)
InOrder(s) == \A m, n \in 1 .. Len(s) : m < n /\ s[m][1] = s[n][1] => s[m][2] < s[n][2]
PipesSorted ==
  /\ InOrder(compute) /\ Len(vector) <= 1
  /\ \A i \in Elements(compute) : Code(i).opcode = "GEMM"
  /\ \A i \in Elements(vector) : Code(i).opcode = "VECTOR"
  /\ \A i \in Elements(ex) : Code(i).opcode \in {"GEMM", "VECTOR"}
  /\ \A x \in Loads : Code(InstOf(x)).opcode = "MOVIN"

Live == RemainCounts /\ TilesWork /\ Awaited /\ PipesSorted

LEMMA UnderWayFacts ==
  ASSUME IInv, WriteInv
  PROVE  /\ Loads \subseteq Access /\ IsFiniteSet(Loads) /\ InPipe \subseteq Inst /\ IsFiniteSet(InPipe)
         /\ UnderWay \subseteq Inst /\ Waiting \subseteq Inst
         /\ \A i \in UnderWay : /\ i[2] <= pos[i[1]] /\ i \notin Waiting
                                /\ \A w \in Waiting : w[1] = i[1] => i[2] < w[2]
<1>0. TypeOK /\ AskedOnce /\ PipeOlder /\ WaitersRun
  BY DEF IInv, WriteInv
<1>1. Loads \subseteq Access /\ InPipe \subseteq Inst /\ Waiting \subseteq Inst
  BY <1>0, ElementsType DEF TypeOK, QueueType, Loads, Requested, InPipe, Waiting
<1>2. IsFiniteSet(Loads)
  <2>1. IsFiniteSet(Requested) /\ IsFiniteSet(memory)
    BY <1>0, RangeFinite DEF TypeOK, Requested, AskedOnce
  <2>2. IsFiniteSet(Requested \cup memory)
    BY <2>1, FS_Union
  <2> QED BY <2>2, FS_Subset DEF Loads
<1>3. IsFiniteSet(InPipe)
  <2>1. IsFiniteSet(Elements(compute)) /\ IsFiniteSet(Elements(vector))
    BY <1>0, RangeFinite DEF TypeOK, QueueType
  <2> QED BY <2>1, FS_Union DEF InPipe
<1>4. UnderWay \subseteq Inst
  BY <1>1, AccessFacts DEF UnderWay
<1>5. ASSUME NEW i \in UnderWay
      PROVE  /\ i[2] <= pos[i[1]] /\ i \notin Waiting
             /\ \A w \in Waiting : w[1] = i[1] => i[2] < w[2]
  <2>1. i[2] \in Nat
    BY <1>4, InstFacts
  <2>2. CASE i \in InPipe
    BY <1>0, <2>1, <2>2 DEF PipeOlder
  <2>3. CASE i \notin InPipe
    <3>1. PICK x \in Loads : i = InstOf(x)
      BY <2>3 DEF UnderWay
    <3>2. i[1] = x[1] /\ i[2] = x[2]
      BY <3>1 DEF InstOf
    <3>3. i[2] <= pos[i[1]] /\ i \notin Waiting
      BY <1>0, <3>1, <3>2 DEF AskedOnce, Loads
    <3>4. ASSUME NEW w \in Waiting, w[1] = i[1] PROVE i[2] < w[2]
      <4>1. pos[w[1]] = w[2] /\ w[2] \in Nat /\ w = <<w[1], w[2]>> /\ i = <<i[1], i[2]>>
        BY <1>0, <1>1, <1>4, InstFacts DEF WaitersRun
      <4>2. w[2] # i[2]
        BY <3>3, <3>4, <4>1
      <4> QED BY <2>1, <3>3, <3>4, <4>1, <4>2
    <3> QED BY <3>3, <3>4
  <2> QED BY <2>2, <2>3
<1> QED BY <1>1, <1>2, <1>3, <1>4, <1>5

(* At a valid place everything has arrived.                                 *)
LEMMA HitArrived ==
  ASSUME IInv, WriteInv, RemainCounts, NEW a \in Addr, NEW h \in Half, CheckHit(a, h)
  PROVE  /\ LoadsTo(a, h) = {} /\ ComputedTo(a, h) = {}
         /\ \A j \in UnderWay : ~(Code(j).dest = a /\ Target(j) = h)
<1>1. Counts(sram, PendingOf(Loads, InPipe, half))
  BY CountsSame
<1>2. sram[a][h] # Absent
  BY DEF CheckHit, Absent
<1>3. PendingOf(Loads, InPipe, half)[a][h] = 0
  BY <1>1, <1>2 DEF Counts, Right, CheckHit
<1>4. LoadsAt(Loads, half, a, h) = {} /\ ResultsAt(InPipe, half, a, h) = {}
  BY <1>3, UnderWayFacts, NothingPending
<1>5. LoadsTo(a, h) = LoadsAt(Loads, half, a, h) /\ ComputedTo(a, h) = ResultsAt(InPipe, half, a, h)
  BY DEF LoadsTo, LoadsAt, Loads, Requested, ComputedTo, ResultsAt, InPipe, Target, HalfOf
<1>6. ASSUME NEW j \in UnderWay, Code(j).dest = a, Target(j) = h PROVE FALSE
  <2>1. half[j[1]][Bank(a)] = h
    BY <1>6 DEF Target, HalfOf
  <2>2. j \notin InPipe
    BY <1>4, <1>6, <2>1 DEF ResultsAt
  <2>3. PICK x \in Loads : j = InstOf(x)
    BY <2>2 DEF UnderWay
  <2> QED BY <1>4, <1>6, <2>1, <2>3 DEF LoadsAt
<1> QED BY <1>4, <1>5, <1>6

(* When the last instruction of a tile has its result, the others of the    *)
(* tile that are still under way are in its pipeline.                       *)
LEMMA LastOfAll ==
  ASSUME IInv, WriteInv, Awaited, PipesSorted, ProgramsWait, NEW i \in Inst, IsLast(i), i[2] <= pos[i[1]],
         NEW j \in UnderWay, j[1] = i[1], j # i
  PROVE  j[2] < i[2] /\ Code(j).opcode = Code(i).opcode /\ Code(j).opcode \in {"GEMM", "VECTOR"}
<1>1. j \in Inst
  BY UnderWayFacts
<1>2. /\ i[1] \in Tile /\ i[2] \in Nat /\ j[2] \in Nat /\ j[2] <= Len(Feed[i[1]].code)
      /\ i = <<i[1], i[2]>> /\ j = <<j[1], j[2]>> /\ i[2] = Len(Feed[i[1]].code)
  BY <1>1, InstFacts DEF IsLast
<1>3. j[2] < i[2] /\ ~IsLast(j)
  <2>1. j[2] # i[2]
    BY <1>2
  <2> QED BY <1>2, <2>1 DEF IsLast
<1>4. Code(j).opcode \in {"GEMM", "VECTOR", "MOVIN"} /\ WritesPlace(j)
  BY DEF UnderWay, InPipe, PipesSorted, WritesPlace
<1>5. ASSUME NEW k \in Inst, Needs(k, j) PROVE FALSE
  <2>1. k[1] = i[1] /\ k[2] \in Nat /\ k[2] <= Len(Feed[i[1]].code)
    BY <1>5, InstFacts DEF Needs
  <2>2. pos[i[1]] < k[2]
    BY <1>5, <2>1 DEF Awaited
  <2>3. pos[i[1]] \in Nat
    BY <1>2 DEF IInv, TypeOK
  <2> QED BY <1>2, <2>1, <2>2, <2>3
<1>6. Code(j).opcode # "MOVIN" /\ Code(i).opcode = Code(j).opcode
  BY <1>1, <1>3, <1>4, <1>5 DEF ProgramsWait
<1> QED BY <1>3, <1>4, <1>6

LEMMA CountsSameNext == RemainCounts' <=> Counts(sram', PendingOf(Loads', InPipe', half'))
<1>1. ASSUME NEW a \in Addr, NEW h \in Half
      PROVE  LoadsTo(a, h)' = LoadsAt(Loads', half', a, h) /\ ComputedTo(a, h)' = ResultsAt(InPipe', half', a, h)
  BY DEF LoadsTo, LoadsAt, Loads, Requested, ComputedTo, ResultsAt, InPipe, Target, HalfOf, IsWrite, Elements
<1>2. \A a \in Addr, h \in Half :
        PendingOf(Loads', InPipe', half')[a][h] = Cardinality(LoadsTo(a, h)') + Cardinality(ComputedTo(a, h)')
  BY <1>1 DEF PendingOf
<1> QED BY <1>2 DEF RemainCounts, Counts, Right, CheckAllocated

(* A step that moves nothing.                                               *)
LEMMA LiveQuiet ==
  ASSUME Live, UNCHANGED <<tiles, half, pos, inst_finished, compute, vector, sram>>, Loads' = Loads,
         Elements(ex') \subseteq Elements(ex)
  PROVE  Live'
<1>1. InPipe' = InPipe /\ UnderWay' = UnderWay
  BY DEF InPipe, UnderWay, Elements
<1>2. RemainCounts'
  BY <1>1, CountsSame, CountsSameNext DEF Live
<1>3. TilesWork' /\ Awaited'
  BY <1>1 DEF Live, TilesWork, Awaited, Elements
<1>4. PipesSorted'
  BY DEF Live, PipesSorted, InOrder, Elements
<1> QED BY <1>2, <1>3, <1>4 DEF Live

(* The result of i, one of the first in its pipeline or an answer of the    *)
(* memory, arrives at its place.                                            *)
LEMMA ResultFilled ==
  ASSUME IInv, WriteInv, RemainCounts, UNCHANGED half, NEW i \in Inst, sram' = Filled(Code(i).dest, Target(i)),
         NEW A, NEW B, Weighs(A, B, half, i, 1),
         Loads = Loads' \cup A, InPipe = InPipe' \cup B, Loads' \cap A = {}, InPipe' \cap B = {}
  PROVE  RemainCounts'
<1> DEFINE p == PendingOf(Loads, InPipe, half)
           q == PendingOf(Loads', InPipe', half)
           d == Code(i).dest
           g == Target(i)
<1>1. Counts(sram, p) /\ d \in Addr /\ g \in Half /\ sram \in SramValue
  BY CountsSame, InstFacts, TargetType DEF IInv, TypeOK, SramValue
<1>2. IsFiniteSet(Loads') /\ IsFiniteSet(A) /\ IsFiniteSet(InPipe') /\ IsFiniteSet(B)
  BY UnderWayFacts, FS_Subset
<1>3. ASSUME NEW a \in Addr, NEW h \in Half
      PROVE  /\ p[a][h] = q[a][h] + (IF a = d /\ h = g THEN 1 ELSE 0)
             /\ q[a][h] \in Nat
  <2>1. PICK L, P, hf : L = Loads' /\ P = InPipe' /\ hf = half
    OBVIOUS
  <2>4. Apart(L, A) /\ Apart(P, B) /\ Weighs(A, B, hf, i, 1)
    BY <1>2, <2>1 DEF Apart
  <2>5. Grows(PendingOf(L, P, hf), PendingOf(L \cup A, P \cup B, hf), hf, i, 1)
    BY <2>4, PendingAdds, Zenon
  <2>2. /\ PendingOf(L \cup A, P \cup B, hf)[a][h]
             = PendingOf(L, P, hf)[a][h] + (IF GoesTo(i, hf, a, h) THEN 1 ELSE 0)
        /\ PendingOf(L, P, hf)[a][h] \in Nat
    BY <2>5 DEF Grows
  <2>3. GoesTo(i, half, a, h) <=> a = d /\ h = g
    BY DEF GoesTo, Target, HalfOf
  <2> QED BY <2>1, <2>2, <2>3
<1> DEFINE v == sram[d][g].remain = 1
           e == [valid |-> v, size |-> sram[d][g].size, remain |-> sram[d][g].remain - 1]
<1>4. sram' = [sram EXCEPT ![d][g] = e]
  BY DEF Filled
<1>5. Right(e, q[d][g])
  <2>1. sram[d][g].remain = q[d][g] + 1 /\ q[d][g] \in Nat
    <3>1. sram[d][g].remain = p[d][g]
      BY <1>1 DEF Counts, Right
    <3> HIDE DEF p, q, d, g
    <3> QED BY <1>1, <1>3, <3>1
  <2>2. v <=> q[d][g] = 0
    <3> HIDE DEF q, d, g
    <3> QED BY <2>1
  <2>3. e.valid = v /\ e.remain = sram[d][g].remain - 1
    <3> HIDE DEF v, d, g
    <3> QED OBVIOUS
  <2> HIDE DEF e, v, q, d, g
  <2> QED BY <2>1, <2>2, <2>3 DEF Right
<1> HIDE DEF p, q, d, g, e
<1>6. Elsewhere(p, q, d, g)
  <2>1. \A n, m : n \in Nat /\ m = n + 0 => n = m
    OBVIOUS
  <2> SUFFICES ASSUME NEW a \in Addr, NEW h \in Half, ~(a = d /\ h = g) PROVE q[a][h] = p[a][h]
    BY DEF Elsewhere
  <2> QED BY <1>3
<1>7. Counts([sram EXCEPT ![d][g] = e], q)
  BY <1>1, <1>5, <1>6, CountsChanged
<1>8. Counts(sram', PendingOf(Loads', InPipe', half'))
  BY <1>4, <1>7 DEF q
<1> QED BY <1>8, CountsSameNext

(* A place is told of n results of i that are to come.                      *)
LEMMA ResultsExpected ==
  ASSUME IInv, RemainCounts, UNCHANGED half, NEW i \in Inst, NEW n \in Nat \ {0},
         NEW A, NEW B, Weighs(A, B, half, i, n), Apart(Loads, A), Apart(InPipe, B),
         Loads' = Loads \cup A, InPipe' = InPipe \cup B,
         NEW e, ~e.valid, e.remain = sram[Code(i).dest][Target(i)].remain + n,
         sram' = [sram EXCEPT ![Code(i).dest][Target(i)] = e]
  PROVE  RemainCounts'
<1> DEFINE p == PendingOf(Loads, InPipe, half)
           q == PendingOf(Loads', InPipe', half)
           d == Code(i).dest
           g == Target(i)
<1>1. Counts(sram, p) /\ d \in Addr /\ g \in Half /\ sram \in SramValue
  BY CountsSame, InstFacts, TargetType DEF IInv, TypeOK, SramValue
<1>2. Grows(p, q, half, i, n)
  <2>1. PICK L, P, hf : L = Loads /\ P = InPipe /\ hf = half
    OBVIOUS
  <2>2. Apart(L, A) /\ Apart(P, B) /\ Weighs(A, B, hf, i, n)
    BY <2>1
  <2>3. Grows(PendingOf(L, P, hf), PendingOf(L \cup A, P \cup B, hf), hf, i, n)
    BY <2>2, PendingAdds, Zenon
  <2> QED BY <2>1, <2>3
<1>3. \A a \in Addr, h \in Half : GoesTo(i, half, a, h) <=> a = d /\ h = g
  BY DEF GoesTo, Target, HalfOf
<1> HIDE DEF p, q, d, g
<1>4. Elsewhere(p, q, d, g)
  <2> SUFFICES ASSUME NEW a \in Addr, NEW h \in Half, ~(a = d /\ h = g) PROVE q[a][h] = p[a][h]
    BY DEF Elsewhere
  <2>1. p[a][h] \in Nat /\ q[a][h] = p[a][h] + 0
    BY <1>2, <1>3 DEF Grows
  <2> QED BY <2>1
<1>5. p[d][g] \in Nat /\ q[d][g] = p[d][g] + n /\ sram[d][g].remain = p[d][g]
  BY <1>1, <1>2, <1>3 DEF Grows, Counts, Right
<1>6. Right(e, q[d][g])
  <2>1. e.remain = sram[d][g].remain + n
    BY DEF d, g
  <2>2. e.remain = q[d][g] /\ q[d][g] # 0
    BY <1>5, <2>1
  <2> QED BY <2>2 DEF Right
<1>7. Counts([sram EXCEPT ![d][g] = e], q)
  BY <1>1, <1>4, <1>6, CountsChanged
<1>8. Counts(sram', PendingOf(Loads', InPipe', half'))
  BY <1>7 DEF q, d, g
<1> QED BY <1>8, CountsSameNext

(* The handlers that start the instruction that waits.                      *)
LEMMA WorkStarted ==
  ASSUME IInv, WriteInv, TilesWork, Awaited, UNCHANGED <<tiles, pos, inst_finished>>,
         NEW i \in Waiting, UnderWay' \subseteq UnderWay \cup {i}
  PROVE  TilesWork' /\ Awaited'
<1>0. TypeOK /\ WaitersRun /\ DoneTiles
  BY DEF IInv
<1>1. i \in Inst /\ i[1] \in Elements(tiles) /\ pos[i[1]] = i[2]
  BY <1>0, UnderWayFacts DEF WaitersRun
<1>2. i[1] \notin inst_finished
  <2>1. SUFFICES ASSUME i[1] \in inst_finished PROVE IsLast(i)
    BY <1>0 DEF WaitersRun
  <2>2. ~(pos[i[1]] < Len(Feed[i[1]].code))
    BY <1>0, <2>1 DEF DoneTiles, HasInst
  <2>3. i[2] \in Nat /\ i[2] <= Len(Feed[i[1]].code) /\ Len(Feed[i[1]].code) \in Nat
    BY <1>1, InstFacts, CodeLen
  <2> QED BY <1>1, <2>2, <2>3 DEF IsLast
<1>3. Elements(tiles)' = Elements(tiles)
  BY DEF Elements
<1>4. TilesWork'
  BY <1>1, <1>2, <1>3 DEF TilesWork
<1>5. ASSUME NEW k \in Inst, Needs(k, i) PROVE pos[k[1]] < k[2]
  BY <1>1, <1>5 DEF Needs
<1>6. Awaited'
  <2> SUFFICES ASSUME NEW j \in UnderWay', NEW k \in Inst, Needs(k, j) PROVE pos[k[1]] < k[2]
    BY DEF Awaited
  <2> QED BY <1>5 DEF Awaited
<1> QED BY <1>4, <1>6

LEMMA TailInOrder ==
  ASSUME NEW s \in Seq(Inst), s # <<>>, InOrder(s)
  PROVE  /\ InOrder(Tail(s)) /\ Elements(s) = Elements(Tail(s)) \cup {Head(s)} /\ Head(s) \notin Elements(Tail(s))
         /\ \A j \in Elements(Tail(s)) : j[1] = Head(s)[1] => Head(s)[2] < j[2]
<1> DEFINE r == Tail(s)
           n == Len(s)
<1>1. n \in Nat \ {0} /\ Head(s) = s[1] /\ Len(r) = n - 1 /\ \A k \in 1 .. Len(r) : r[k] = s[k + 1]
  <2>1. n \in Nat \ {0}
    BY EmptySeq
  <2> QED BY <2>1, HeadTailProperties
<1>2. \A k \in 1 .. n : s[k] \in Inst /\ s[k][2] \in Nat
  BY ElementOfSeq, InstFacts
<1>3. \A k, l \in 1 .. n : s[k] = s[l] => k = l
  <2> SUFFICES ASSUME NEW k \in 1 .. n, NEW l \in 1 .. n, s[k] = s[l], k < l PROVE FALSE
    <3>1. n \in Nat
      BY <1>1
    <3> HIDE DEF n
    <3>2. \A k, l \in 1 .. n : k < l \/ l < k \/ k = l
      BY <3>1
    <3> QED BY <3>2
  <2>1. s[k][2] < s[l][2]
    BY DEF InOrder
  <2> QED BY <1>2, <2>1
<1>4. Elements(s) = Elements(r) \cup {Head(s)} /\ Head(s) \notin Elements(r)
  BY <1>3, TailDistinct
<1>5. \A k \in 1 .. n - 1 : k + 1 \in 1 .. n /\ 1 \in 1 .. n /\ 1 < k + 1
  <2> HIDE DEF n
  <2> QED BY <1>1
<1>6. ASSUME NEW j \in Elements(r), j[1] = Head(s)[1] PROVE Head(s)[2] < j[2]
  <2>1. PICK k \in 1 .. Len(r) : j = r[k]
    BY DEF Elements
  <2>2. k + 1 \in 1 .. n /\ 1 \in 1 .. n /\ 1 < k + 1 /\ j = s[k + 1]
    BY <1>1, <1>5, <2>1
  <2> HIDE DEF r
  <2> QED BY <1>1, <1>6, <2>2 DEF InOrder
<1>7. InOrder(r)
  <2> SUFFICES ASSUME NEW k \in 1 .. Len(r), NEW l \in 1 .. Len(r), k < l, r[k][1] = r[l][1] PROVE r[k][2] < r[l][2]
    BY DEF InOrder
  <2>1. k + 1 \in 1 .. n /\ l + 1 \in 1 .. n /\ r[k] = s[k + 1] /\ r[l] = s[l + 1]
    BY <1>1, <1>5
  <2>2. k + 1 < l + 1
    <3>1. k \in Nat /\ l \in Nat
      <4>1. Len(r) \in Nat
        BY <1>1
      <4> HIDE DEF r
      <4> QED BY <4>1
    <3> QED BY <3>1
  <2> HIDE DEF r
  <2> QED BY <2>1, <2>2 DEF InOrder
<1> QED BY <1>4, <1>6, <1>7

LEMMA AppendInOrder ==
  ASSUME NEW s \in Seq(Inst), InOrder(s), NEW x \in Inst, \A j \in Elements(s) : j[1] = x[1] => j[2] < x[2]
  PROVE  InOrder(Append(s, x))
<1> DEFINE a == Append(s, x)
           n == Len(s)
<1>1. n \in Nat /\ Len(a) = n + 1 /\ a[n + 1] = x /\ \A k \in 1 .. n : a[k] = s[k]
  BY LenProperties, AppendProperties
<1>2. \A k \in 1 .. n : s[k] \in Elements(s)
  BY DEF Elements
<1> SUFFICES ASSUME NEW k \in 1 .. n + 1, NEW l \in 1 .. n + 1, k < l, a[k][1] = a[l][1] PROVE a[k][2] < a[l][2]
  BY <1>1 DEF InOrder
<1>3. k \in 1 .. n /\ (l \in 1 .. n \/ l = n + 1)
  <2> HIDE DEF n
  <2> QED BY <1>1
<1>4. CASE l \in 1 .. n
  <2> HIDE DEF a
  <2> QED BY <1>1, <1>3, <1>4 DEF InOrder
<1>5. CASE l = n + 1
  <2> HIDE DEF a, n
  <2> QED BY <1>1, <1>2, <1>3, <1>5
<1> QED BY <1>3, <1>4, <1>5

(* Something that was under way has arrived, and may have been the last of  *)
(* its tile.                                                                *)
LEMMA WorkDone ==
  ASSUME TilesWork, Awaited, UNCHANGED <<tiles, pos>>, UnderWay' \subseteq UnderWay, NEW i, MarkIfLast(i),
         IsLast(i) => \A j \in UnderWay' : j[1] # i[1]
  PROVE  TilesWork' /\ Awaited'
<1>1. Elements(tiles)' = Elements(tiles)
  BY DEF Elements
<1>2. TilesWork'
  BY <1>1 DEF TilesWork, MarkIfLast
<1>3. Awaited'
  BY DEF Awaited
<1> QED BY <1>2, <1>3

(* finish_compute_pipeline and finish_vector_pipeline.                      *)
LEMMA ComputeDoneLive ==
  ASSUME ProgramsWait, IInv, WriteInv, Live, ComputeDone, ~aborted'
  PROVE  Live'
<1> DEFINE i == Head(compute)
<1>0. TypeOK /\ RemainCounts /\ TilesWork /\ Awaited /\ PipesSorted /\ PipeOlder
  BY DEF IInv, Live
<1>1. /\ compute # <<>> /\ compute' = Tail(compute) /\ vector' = vector /\ MarkIfLast(i)
      /\ Fill(Code(i).dest, Target(i))
      /\ UNCHANGED <<tiles, half, pos, ex, request_queue, memory>>
  BY DEF ComputeDone, queueVars, memVars
<1>2. compute \in Seq(Inst) /\ InOrder(compute)
  BY <1>0 DEF TypeOK, QueueType, PipesSorted
<1>3. /\ InOrder(Tail(compute)) /\ Elements(compute) = Elements(Tail(compute)) \cup {i}
      /\ i \notin Elements(Tail(compute))
      /\ \A j \in Elements(Tail(compute)) : j[1] = i[1] => i[2] < j[2]
  BY <1>1, <1>2, TailInOrder
<1>4. i \in Inst /\ i \in InPipe /\ Code(i).opcode = "GEMM"
  BY <1>1, <1>2, <1>0, <1>3, HeadTailProperties DEF InPipe, PipesSorted
<1>5. Loads' = Loads /\ Elements(compute)' = Elements(Tail(compute)) /\ Elements(vector)' = Elements(vector)
  BY <1>1 DEF Loads, Requested, Elements, IsWrite
<1>6. InPipe = InPipe' \cup {i} /\ i \notin InPipe'
  BY <1>0, <1>3, <1>4, <1>5 DEF InPipe, PipesSorted
<1>7. RemainCounts'
  <2>1. sram' = Filled(Code(i).dest, Target(i))
    BY <1>1 DEF Fill
  <2>2. PICK A, B, hf : A = {} /\ B = {i} /\ hf = half
    OBVIOUS
  <2>3. Weighs(A, B, hf, i, 1)
    BY <1>4, <2>2, PendingOne
  <2>4. Loads = Loads' \cup A /\ InPipe = InPipe' \cup B /\ Loads' \cap A = {} /\ InPipe' \cap B = {}
    BY <1>5, <1>6, <2>2
  <2> HIDE DEF i
  <2> QED BY <1>0, <1>1, <1>4, <2>1, <2>2, <2>3, <2>4, ResultFilled
<1>8. UnderWay' = InPipe' \cup {InstOf(x) : x \in Loads} /\ UnderWay' \subseteq UnderWay
  BY <1>5, <1>6 DEF UnderWay
<1>9. ASSUME IsLast(i), NEW j \in UnderWay', j[1] = i[1] PROVE FALSE
  <2>1. j # i
    BY <1>0, <1>4, <1>6, <1>8 DEF PipesSorted
  <2>2. i[2] <= pos[i[1]]
    BY <1>0, <1>4 DEF PipeOlder
  <2>3. j[2] < i[2] /\ Code(j).opcode = "GEMM"
    BY <1>0, <1>4, <1>8, <1>9, <2>1, <2>2, LastOfAll
  <2>4. j \in Elements(Tail(compute))
    BY <1>0, <1>5, <1>8, <2>3 DEF InPipe, PipesSorted
  <2>5. i[2] < j[2] /\ i[2] \in Nat /\ j[2] \in Nat
    BY <1>3, <1>4, <1>8, <1>9, <2>4, UnderWayFacts, InstFacts
  <2> QED BY <2>3, <2>5
<1>10. TilesWork' /\ Awaited'
  BY <1>0, <1>1, <1>8, <1>9, WorkDone
<1>11. PipesSorted'
  BY <1>0, <1>1, <1>3, <1>5 DEF PipesSorted, Elements
<1> QED BY <1>7, <1>10, <1>11 DEF Live

LEMMA VectorDoneLive ==
  ASSUME ProgramsWait, IInv, WriteInv, Live, VectorDone, ~aborted'
  PROVE  Live'
<1> DEFINE i == Head(vector)
<1>0. TypeOK /\ RemainCounts /\ TilesWork /\ Awaited /\ PipesSorted /\ PipeOlder
  BY DEF IInv, Live
<1>1. /\ vector # <<>> /\ vector' = Tail(vector) /\ compute' = compute /\ MarkIfLast(i)
      /\ Fill(Code(i).dest, Target(i))
      /\ UNCHANGED <<tiles, half, pos, ex, request_queue, memory>>
  BY DEF VectorDone, queueVars, memVars
<1>2. vector \in Seq(Inst) /\ Len(vector) <= 1
  BY <1>0 DEF TypeOK, QueueType, PipesSorted
<1>3. Tail(vector) = <<>> /\ Elements(vector) = {i}
  BY <1>1, <1>2, SingleTail
<1>4. i \in Inst /\ i \in InPipe /\ Code(i).opcode = "VECTOR"
  BY <1>1, <1>2, <1>0, <1>3, HeadTailProperties DEF InPipe, PipesSorted
<1>5. Loads' = Loads /\ Elements(compute)' = Elements(compute) /\ Elements(vector)' = {}
  BY <1>1, <1>3, EmptyElements DEF Loads, Requested, Elements, IsWrite
<1>6. InPipe = InPipe' \cup {i} /\ i \notin InPipe'
  BY <1>0, <1>3, <1>4, <1>5 DEF InPipe, PipesSorted
<1>7. RemainCounts'
  <2>1. sram' = Filled(Code(i).dest, Target(i))
    BY <1>1 DEF Fill
  <2>2. PICK A, B, hf : A = {} /\ B = {i} /\ hf = half
    OBVIOUS
  <2>3. Weighs(A, B, hf, i, 1)
    BY <1>4, <2>2, PendingOne
  <2>4. Loads = Loads' \cup A /\ InPipe = InPipe' \cup B /\ Loads' \cap A = {} /\ InPipe' \cap B = {}
    BY <1>5, <1>6, <2>2
  <2> HIDE DEF i
  <2> QED BY <1>0, <1>1, <1>4, <2>1, <2>2, <2>3, <2>4, ResultFilled
<1>8. UnderWay' = InPipe' \cup {InstOf(x) : x \in Loads} /\ UnderWay' \subseteq UnderWay
  BY <1>5, <1>6 DEF UnderWay
<1>9. ASSUME IsLast(i), NEW j \in UnderWay', j[1] = i[1] PROVE FALSE
  <2>1. j # i
    BY <1>0, <1>4, <1>6, <1>8 DEF PipesSorted
  <2>2. i[2] <= pos[i[1]]
    BY <1>0, <1>4 DEF PipeOlder
  <2>3. Code(j).opcode = "VECTOR"
    BY <1>0, <1>4, <1>8, <1>9, <2>1, <2>2, LastOfAll
  <2> QED BY <1>0, <1>5, <1>8, <2>3 DEF InPipe, PipesSorted
<1>10. TilesWork' /\ Awaited'
  BY <1>0, <1>1, <1>8, <1>9, WorkDone
<1>11. PipesSorted'
  <2>1. Len(vector') <= 1
    <3>1. vector' = <<>> /\ Len(<<>>) = 0 /\ 0 <= 1
      BY <1>1, <1>3, EmptySeq
    <3> QED BY <3>1
  <2> QED BY <1>0, <1>1, <1>5, <2>1 DEF PipesSorted, InOrder, Elements
<1> QED BY <1>7, <1>10, <1>11 DEF Live

(* handle_ld_inst_queue.                                                    *)
LEMMA HandleLoadLive ==
  ASSUME ProgramsWait, IInv, WriteInv, TypeOK', Live, HandleLoad, ~aborted'
  PROVE  Live'
<1>0. TypeOK /\ RemainCounts /\ TilesWork /\ Awaited /\ PipesSorted /\ AskedOnce /\ QueuesSorted
  BY DEF IInv, Live, WriteInv
<1>1. UNCHANGED <<tiles, half, pos, inst_finished, ex, compute, vector, memory>>
  BY DEF HandleLoad, tileVars, pipeVars
<1>2. CASE ld = <<>>
  <2>1. UNCHANGED <<request_queue, sram>>
    BY <1>2 DEF HandleLoad, sramVars
  <2>2. Loads' = Loads /\ Elements(ex') = Elements(ex)
    BY <1>1, <2>1 DEF Loads, Requested, Elements, IsWrite
  <2> QED BY <1>1, <2>1, <2>2, LiveQuiet
<1>3. CASE ld # <<>>
  <2> DEFINE i == Head(ld)
  <2>1. /\ Prefetch(Code(i).dest, Target(i), Code(i).size, Code(i).size)
        /\ request_queue' = request_queue \o Addressed(i)
    BY <1>3 DEF HandleLoad
  <2>2. ld \in Seq(Inst)
    BY <1>0 DEF TypeOK, QueueType
  <2>3. i \in Inst /\ i \in Elements(ld)
    BY <1>3, <2>2, HeadTailProperties, HeadElement
  <2>4. i \in Waiting /\ Code(i).opcode = "MOVIN" /\ Code(i).reqs = Code(i).size
    BY <1>0, <2>3 DEF Waiting, QueuesSorted, ProgramsWait
  <2> HIDE DEF i
  <2>5. /\ Code(i).dest \in Addr /\ Target(i) \in Half /\ Code(i).reqs \in Nat \ {0}
    BY <1>0, <2>3, <2>4, InstFacts, TargetType DEF TypeOK
  <2>6. PICK q : q = request_queue \o Addressed(i)
    OBVIOUS
  <2>7. Elements(q) = Requested \cup Accesses(i) /\ Accesses(i) \cap (Requested \cup memory) = {}
    BY <1>0, <2>3, <2>4, <2>6, RequestsAppended
  <2>8. Requested' = Requested \cup Accesses(i)
    BY <2>1, <2>6, <2>7 DEF Requested, Elements
  <2>9. /\ \A x \in Accesses(i) : InstOf(x) = i
        /\ IsFiniteSet(Accesses(i)) /\ Cardinality(Accesses(i)) = Code(i).reqs
    BY <2>3, AccessesFacts
  <2>10. Loads' = Loads \cup Accesses(i) /\ Loads \cap Accesses(i) = {}
    BY <1>1, <2>4, <2>7, <2>8, <2>9 DEF Loads, IsWrite
  <2>11. InPipe' = InPipe
    BY <1>1 DEF InPipe, Elements
  <2>12. RemainCounts'
    <3>1. PICK A, B, hf, n : A = Accesses(i) /\ B = {} /\ hf = half /\ n = Code(i).reqs
      OBVIOUS
    <3>2. Weighs(A, B, hf, i, n)
      BY <2>3, <3>1, PendingOne
    <3>3. Apart(Loads, A) /\ Apart(InPipe, B) /\ Loads' = Loads \cup A /\ InPipe' = InPipe \cup B
      BY <2>9, <2>10, <2>11, <3>1, UnderWayFacts, FS_EmptySet DEF Apart
    <3>4. PICK e : e = [valid |-> FALSE, size |-> Code(i).size, remain |-> Code(i).size]
      OBVIOUS
    <3>5. sram[Code(i).dest][Target(i)] = Absent /\ sram' = [sram EXCEPT ![Code(i).dest][Target(i)] = e]
      BY <2>1, <3>4 DEF Prefetch, CheckAllocated
    <3>6. ~e.valid /\ e.remain = sram[Code(i).dest][Target(i)].remain + n /\ n \in Nat \ {0}
      <4>1. e.remain = n /\ n = 0 + n
        BY <2>4, <2>5, <3>1, <3>4
      <4> QED BY <2>5, <3>1, <3>4, <3>5, <4>1 DEF Absent
    <3> QED BY <1>0, <1>1, <2>3, <3>1, <3>2, <3>3, <3>5, <3>6, ResultsExpected
  <2>13. UnderWay' \subseteq UnderWay \cup {i}
    BY <2>9, <2>10, <2>11 DEF UnderWay
  <2>14. TilesWork' /\ Awaited'
    BY <1>0, <1>1, <2>4, <2>13, WorkStarted
  <2>15. PipesSorted'
    BY <1>0, <1>1, <2>4, <2>9, <2>10 DEF PipesSorted, InOrder, Elements
  <2> QED BY <2>12, <2>14, <2>15 DEF Live
<1> QED BY <1>2, <1>3

(* The execute part of SystolicWS::cycle.                                   *)
LEMMA ExecuteLive ==
  ASSUME IInv, WriteInv, TypeOK', Live, Execute, ~aborted'
  PROVE  Live'
<1>0. TypeOK /\ RemainCounts /\ TilesWork /\ Awaited /\ PipesSorted
  BY DEF IInv, Live
<1>1. UNCHANGED <<tiles, half, pos, inst_finished, memory, request_queue>>
  BY DEF Execute, tileVars, memVars
<1>2. Loads' = Loads
  BY <1>1 DEF Loads, Requested, Elements, IsWrite
<1>3. CASE ~(ex # <<>> /\ CanIssueCompute(Head(ex)))
  <2>1. UNCHANGED <<ex, compute, vector, sram>>
    BY <1>3 DEF Execute, sramVars, pipeVars
  <2>2. Elements(ex') = Elements(ex)
    BY <2>1
  <2> QED BY <1>1, <1>2, <2>1, <2>2, LiveQuiet
<1>4. CASE ex # <<>> /\ CanIssueCompute(Head(ex))
  <2> DEFINE i == Head(ex)
             d == Code(i).dest
             g == Target(i)
  <2>1. /\ IF CheckAllocated(d, g) THEN CountUp(d, g) ELSE Prefetch(d, g, Code(i).size, 1)
        /\ Enqueue(i) /\ ex' = Tail(ex) /\ CanIssueCompute(i)
    BY <1>4 DEF Execute
  <2>2. ex \in Seq(Inst) /\ compute \in Seq(Inst) /\ vector \in Seq(Inst)
    BY <1>0 DEF TypeOK, QueueType
  <2>3. i \in Inst /\ i \in Elements(ex) /\ Elements(Tail(ex)) \subseteq Elements(ex)
    BY <1>4, <2>2, HeadTailProperties, HeadElement
  <2>4. i \in Waiting /\ Code(i).opcode \in {"GEMM", "VECTOR"}
    BY <1>0, <2>3 DEF Waiting, PipesSorted
  <2>5. i \notin InPipe /\ \A j \in InPipe : j[1] = i[1] => j[2] < i[2]
    BY <2>4, UnderWayFacts DEF UnderWay
  <2>6. Elements(ex)' \subseteq Elements(ex)
    BY <2>1, <2>3 DEF Elements
  <2>7. ASSUME Code(i).opcode = "GEMM"
       PROVE  InPipe' = InPipe \cup {i} /\ PipesSorted'
    <3>1. compute' = Append(compute, i) /\ vector' = vector
      BY <2>1, <2>7 DEF Enqueue
    <3>2. Elements(compute)' = Elements(compute) \cup {i} /\ Elements(vector)' = Elements(vector)
      BY <2>2, <2>3, <3>1, AppendElements DEF Elements
    <3>3. InOrder(Append(compute, i))
      BY <1>0, <2>2, <2>3, <2>5, AppendInOrder DEF PipesSorted, InPipe
    <3> HIDE DEF i, d, g
    <3>4. InPipe' = InPipe \cup {i}
      BY <3>2 DEF InPipe
    <3>5. PipesSorted'
      BY <1>0, <1>2, <2>6, <2>7, <3>1, <3>2, <3>3 DEF PipesSorted
    <3> QED BY <3>4, <3>5
  <2>8. ASSUME Code(i).opcode = "VECTOR"
       PROVE  InPipe' = InPipe \cup {i} /\ PipesSorted'
    <3>1. vector' = Append(vector, i) /\ compute' = compute /\ vector = <<>>
      BY <2>1, <2>8 DEF Enqueue, CanIssueCompute, PipelineFree
    <3>2. Elements(compute)' = Elements(compute) /\ Elements(vector)' = Elements(vector) \cup {i}
      BY <2>2, <2>3, <3>1, AppendElements DEF Elements
    <3>3. Len(vector') <= 1
      <4>1. Len(Append(vector, i)) = Len(vector) + 1
        BY <2>2, <2>3, AppendProperties
      <4>2. Len(vector) = 0
        BY <3>1, EmptySeq
      <4> QED BY <3>1, <4>1, <4>2
    <3> HIDE DEF i, d, g
    <3>4. InPipe' = InPipe \cup {i}
      BY <3>2 DEF InPipe
    <3>5. PipesSorted'
      BY <1>0, <1>2, <2>6, <2>8, <3>1, <3>2, <3>3 DEF PipesSorted, InOrder
    <3> QED BY <3>4, <3>5
  <2>9. InPipe' = InPipe \cup {i} /\ PipesSorted'
    BY <2>4, <2>7, <2>8
  <2>10. RemainCounts'
    <3>1. PICK A, B, hf, n : A = {} /\ B = {i} /\ hf = half /\ n = 1
      OBVIOUS
    <3>2. Weighs(A, B, hf, i, n)
      BY <2>3, <3>1, PendingOne
    <3>3. Apart(Loads, A) /\ Apart(InPipe, B) /\ Loads' = Loads \cup A /\ InPipe' = InPipe \cup B
      BY <1>2, <2>5, <2>9, <3>1, UnderWayFacts, FS_EmptySet, FS_Singleton DEF Apart
    <3> HIDE DEF i
    <3>4. d \in Addr /\ g \in Half
      BY <1>0, <2>3, InstFacts, TargetType DEF TypeOK
    <3>5. \E e : ~e.valid /\ e.remain = sram[d][g].remain + n /\ sram' = [sram EXCEPT ![d][g] = e]
      <4>1. CASE CheckAllocated(d, g)
        <5>1. PICK e : e = [valid |-> FALSE, size |-> sram[d][g].size, remain |-> sram[d][g].remain + 1]
          OBVIOUS
        <5>2. sram' = [sram EXCEPT ![d][g] = e]
          BY <2>1, <4>1, <5>1 DEF CountUp
        <5> QED BY <3>1, <5>1, <5>2
      <4>2. CASE ~CheckAllocated(d, g)
        <5>1. PICK e : e = [valid |-> FALSE, size |-> Code(i).size, remain |-> 1]
          OBVIOUS
        <5>2. sram' = [sram EXCEPT ![d][g] = e] /\ sram[d][g] = Absent
          BY <2>1, <4>2, <5>1 DEF Prefetch, CheckAllocated
        <5>3. e.remain = sram[d][g].remain + n
          BY <3>1, <5>1, <5>2 DEF Absent
        <5> QED BY <5>1, <5>2, <5>3
      <4> QED BY <4>1, <4>2
    <3>6. PICK e : ~e.valid /\ e.remain = sram[d][g].remain + n /\ sram' = [sram EXCEPT ![d][g] = e]
      BY <3>5
    <3>7. n \in Nat \ {0}
      BY <3>1
    <3> QED BY <1>0, <1>1, <2>3, <3>1, <3>2, <3>3, <3>6, <3>7, ResultsExpected
  <2>11. UnderWay' \subseteq UnderWay \cup {i}
    BY <1>2, <2>9 DEF UnderWay
  <2>12. TilesWork' /\ Awaited'
    BY <1>0, <1>1, <2>4, <2>11, WorkStarted
  <2> QED BY <2>9, <2>10, <2>12 DEF Live
<1> QED BY <1>3, <1>4

(* handle_st_inst_queue.                                                    *)
LEMMA HandleStoreLive ==
  ASSUME ProgramsWait, IInv, WriteInv, TypeOK', Live, HandleStore, ~aborted'
  PROVE  Live'
<1>0. TypeOK /\ RemainCounts /\ TilesWork /\ Awaited /\ PipesSorted /\ AskedOnce /\ QueuesSorted /\ WaitersRun
  BY DEF IInv, Live, WriteInv
<1>1. UNCHANGED <<tiles, half, pos, ex, compute, vector, sram, memory>>
  BY DEF HandleStore, pipeVars, sramVars
<1>2. CASE st = <<>>
  <2>1. UNCHANGED <<request_queue, inst_finished>>
    BY <1>2 DEF HandleStore
  <2>2. Loads' = Loads /\ Elements(ex') = Elements(ex)
    BY <1>1, <2>1 DEF Loads, Requested, Elements, IsWrite
  <2> QED BY <1>1, <2>1, <2>2, LiveQuiet
<1>3. CASE st # <<>>
  <2> DEFINE i == Head(st)
  <2>1. request_queue' = request_queue \o Addressed(i) /\ MarkIfLast(i)
    BY <1>3 DEF HandleStore
  <2>2. st \in Seq(Inst)
    BY <1>0 DEF TypeOK, QueueType
  <2>3. i \in Inst /\ i \in Elements(st)
    BY <1>3, <2>2, HeadTailProperties, HeadElement
  <2>4. i \in Waiting /\ Code(i).opcode = "MOVOUT" /\ pos[i[1]] = i[2]
    BY <1>0, <2>3 DEF Waiting, QueuesSorted, WaitersRun
  <2> HIDE DEF i
  <2>5. PICK q : q = request_queue \o Addressed(i)
    OBVIOUS
  <2>6. Elements(q) = Requested \cup Accesses(i)
    BY <1>0, <2>3, <2>4, <2>5, RequestsAppended
  <2>7. Requested' = Requested \cup Accesses(i)
    BY <2>1, <2>5, <2>6 DEF Requested, Elements
  <2>8. \A x \in Accesses(i) : InstOf(x) = i
    BY <2>3, AccessesFacts
  <2>9. Loads' = Loads /\ InPipe' = InPipe /\ UnderWay' = UnderWay
    <3>1. Loads' = Loads /\ InPipe' = InPipe
      BY <1>1, <2>4, <2>7, <2>8 DEF Loads, IsWrite, InPipe, Elements
    <3> QED BY <3>1 DEF UnderWay
  <2>10. RemainCounts'
    BY <1>0, <1>1, <2>9, CountsSame, CountsSameNext
  <2>11. ASSUME IsLast(i), NEW j \in UnderWay, j[1] = i[1] PROVE FALSE
    <3>1. j # i /\ i[2] <= pos[i[1]]
      <4>1. i[2] \in Nat
        BY <2>3, InstFacts
      <4> QED BY <2>4, <2>11, <4>1, UnderWayFacts
    <3>2. Code(j).opcode = Code(i).opcode /\ Code(j).opcode \in {"GEMM", "VECTOR"}
      BY <1>0, <2>3, <2>11, <3>1, LastOfAll
    <3> QED BY <2>4, <3>2
  <2>12. TilesWork' /\ Awaited'
    BY <1>0, <1>1, <2>1, <2>9, <2>11, WorkDone
  <2>13. PipesSorted'
    BY <1>0, <1>1, <2>9 DEF PipesSorted, InOrder, Elements
  <2> QED BY <2>10, <2>12, <2>13 DEF Live
<1> QED BY <1>2, <1>3

(* Core::cycle issues an instruction only when what it needs is there.      *)
LEMMA IssueInstLive ==
  ASSUME IInv, WriteInv, Live, IssueInst, ~aborted'
  PROVE  Live'
<1>0. TypeOK /\ RemainCounts /\ TilesWork /\ Awaited /\ PipesSorted
  BY DEF IInv, Live
<1>1. PICK i \in Inst : /\ i[1] \in Elements(tiles) /\ HasInst(i[1]) /\ i = NextInst(i[1])
                        /\ CanGo(i) /\ Dispatch(i) /\ pos' = [pos EXCEPT ![i[1]] = i[2]]
  BY <1>0, InstChosen
<1>2. UNCHANGED <<tiles, half, inst_finished, compute, vector, sram, request_queue, memory>>
  BY <1>0, InstChosen DEF pipeVars, sramVars, memVars
<1>3. /\ Loads' = Loads /\ InPipe' = InPipe /\ UnderWay' = UnderWay /\ Elements(tiles)' = Elements(tiles)
      /\ UnderWay \subseteq Inst
  <2>1. Loads' = Loads /\ InPipe' = InPipe /\ Elements(tiles)' = Elements(tiles)
    BY <1>2 DEF Loads, Requested, InPipe, Elements, IsWrite
  <2> QED BY <2>1, UnderWayFacts DEF UnderWay
<1>4. RemainCounts'
  BY <1>0, <1>2, <1>3, CountsSame, CountsSameNext
<1>5. TilesWork'
  BY <1>0, <1>2, <1>3 DEF TilesWork
<1>6. i[1] \in Tile /\ pos[i[1]] \in Nat /\ i[2] = pos[i[1]] + 1 /\ Code(i).opcode \in Opcode
  <2>1. i[1] \in Tile /\ Code(i) \in InstKind
    BY InstFacts
  <2> QED BY <1>0, <1>1, <2>1 DEF TypeOK, NextInst, InstKind
<1>7. ASSUME NEW j \in UnderWay, Needs(i, j) PROVE FALSE
  <2>1. i[1] = j[1] /\ j \in Inst
    BY <1>3, <1>7 DEF Needs
  <2>2. Code(j).dest \in Addr /\ Target(j) \in Half /\ Target(j) = HalfOf(i[1], Code(j).dest)
    BY <1>0, <2>1, InstFacts, TargetType DEF TypeOK, Target
  <2>3. CASE Code(i).opcode = "MOVOUT"
    <3>1. CheckHit(Code(j).dest, Target(j))
      BY <1>1, <1>7, <2>1, <2>3 DEF CanGo, Needs, Target, HalfOf
    <3> QED BY <2>2, <3>1, <1>0, HitArrived
  <2>4. CASE Code(i).opcode \in {"GEMM", "VECTOR"}
    <3>1. CanIssueCompute(i) /\ Code(j).dest \in Code(i).srcs
      BY <1>1, <1>7, <2>4 DEF CanGo, Needs
    <3>2. CheckHit(Code(j).dest, Target(j))
      BY <2>2, <3>1 DEF CanIssueCompute, SrcHit
    <3> QED BY <2>2, <3>2, <1>0, HitArrived
  <2> QED BY <1>7, <2>3, <2>4 DEF Needs
<1>8. Awaited'
  <2> SUFFICES ASSUME NEW j \in UnderWay, NEW k \in Inst, Needs(k, j) PROVE pos'[k[1]] < k[2]
    BY <1>3 DEF Awaited
  <2>1. pos[k[1]] < k[2]
    BY <1>0 DEF Awaited
  <2>2. k[1] \in Tile /\ k[2] \in Nat /\ k = <<k[1], k[2]>> /\ i = <<i[1], i[2]>>
    BY InstFacts
  <2>3. k # i
    BY <1>7
  <2>4. CASE k[1] = i[1]
    <3>1. pos'[k[1]] = i[2] /\ k[2] # i[2]
      BY <1>0, <1>1, <1>6, <2>2, <2>3, <2>4 DEF TypeOK
    <3> QED BY <1>6, <2>1, <2>2, <2>4, <3>1
  <2>5. CASE k[1] # i[1]
    BY <1>0, <1>1, <2>1, <2>2, <2>5 DEF TypeOK
  <2> QED BY <2>4, <2>5
<1>9. PipesSorted'
  <2>1. \A k \in Elements(ex)' : Code(k).opcode \in {"GEMM", "VECTOR"}
    <3>1. CASE Code(i).opcode \in {"MOVIN", "MOVOUT"}
      <4>1. ex' = ex
        BY <1>1, <3>1 DEF Dispatch
      <4> QED BY <1>0, <4>1 DEF PipesSorted, Elements
    <3>2. CASE Code(i).opcode \notin {"MOVIN", "MOVOUT"}
      <4>1. ex' = Append(ex, i) /\ ex \in Seq(Inst)
        BY <1>0, <1>1, <3>2 DEF Dispatch, TypeOK, QueueType
      <4>2. Elements(ex)' = Elements(ex) \cup {i}
        BY <4>1, AppendElements
      <4> QED BY <1>0, <1>6, <3>2, <4>2 DEF PipesSorted, Opcode
    <3> QED BY <3>1, <3>2
  <2> QED BY <1>0, <1>2, <1>3, <2>1 DEF PipesSorted, InOrder, Elements
<1> QED BY <1>4, <1>5, <1>8, <1>9 DEF Live

(* A tile that finishes has nothing under way.                              *)
LEMMA FinishTileLive ==
  ASSUME IInv, Live, FinishTile
  PROVE  Live'
<1>0. TypeOK /\ TilesApart /\ RemainCounts /\ TilesWork /\ Awaited /\ PipesSorted
  BY DEF IInv, Live
<1>1. UNCHANGED <<half, pos, inst_finished, ex, compute, vector, sram, request_queue, memory>>
  BY DEF FinishTile, queueVars, pipeVars, sramVars, memVars
<1>2. PICK n \in 1 .. Len(tiles) : tiles[n] \in inst_finished /\ tiles' = Without(n)
  BY DEF FinishTile, FirstDone, IsDone
<1>3. Elements(tiles') = Elements(tiles) \ {tiles[n]}
  BY <1>0, <1>2, OneTileLess DEF TypeOK, TilesApart
<1>4. Loads' = Loads /\ InPipe' = InPipe /\ UnderWay' = UnderWay
  <2>1. Loads' = Loads /\ InPipe' = InPipe
    BY <1>1 DEF Loads, Requested, InPipe, Elements, IsWrite
  <2> QED BY <2>1 DEF UnderWay
<1>5. RemainCounts'
  BY <1>0, <1>1, <1>4, CountsSame, CountsSameNext
<1>6. TilesWork'
  <2>1. Elements(tiles)' = Elements(tiles')
    BY DEF Elements
  <2> QED BY <1>0, <1>1, <1>2, <1>3, <1>4, <2>1 DEF TilesWork
<1>7. Awaited' /\ PipesSorted'
  BY <1>0, <1>1, <1>4 DEF Awaited, PipesSorted, InOrder, Elements
<1> QED BY <1>5, <1>6, <1>7 DEF Live

(* The halves a new tile has flushed are those nothing goes to.             *)
LEMMA FlushedIdle ==
  ASSUME IInv, WriteInv, Live, IssueTile
  PROVE  /\ \A j \in UnderWay : half'[j[1]] = half[j[1]]
         /\ \A j \in UnderWay : ~Flushes(issued + 1, Bank(Code(j).dest), Target(j))
<1>0. TypeOK /\ TilesApart /\ TilesWork
  BY DEF IInv, Live
<1> SUFFICES ASSUME NEW j \in UnderWay
             PROVE  half'[j[1]] = half[j[1]] /\ ~Flushes(issued + 1, Bank(Code(j).dest), Target(j))
  OBVIOUS
<1>1. j[1] \in Elements(tiles)
  BY <1>0 DEF TilesWork
<1> QED BY <1>0, <1>1, HalvesBeside DEF Target, HalfOf

LEMMA IssueTileLive ==
  ASSUME IInv, WriteInv, Live, IssueTile
  PROVE  Live'
<1> DEFINE t == issued + 1
<1>0. TypeOK /\ RemainCounts /\ TilesWork /\ Awaited /\ PipesSorted
  BY DEF IInv, Live
<1>1. /\ UNCHANGED <<pos, inst_finished, ex, compute, vector, request_queue, memory>>
      /\ sram' = [a \in Addr |-> [h \in Half |-> IF Flushes(t, Bank(a), h) THEN Absent ELSE sram[a][h]]]
      /\ tiles' = tiles \/ tiles' = Append(tiles, t)
  BY DEF IssueTile, queueVars, pipeVars, memVars
<1>2. /\ \A j \in UnderWay : half'[j[1]] = half[j[1]]
      /\ \A j \in UnderWay : ~Flushes(t, Bank(Code(j).dest), Target(j))
  BY FlushedIdle
<1> HIDE DEF t
<1>3. Loads' = Loads /\ InPipe' = InPipe /\ UnderWay' = UnderWay
  <2>1. Loads' = Loads /\ InPipe' = InPipe
    BY <1>1 DEF Loads, Requested, InPipe, Elements, IsWrite
  <2> QED BY <2>1 DEF UnderWay
<1>4. ASSUME NEW a \in Addr, NEW h \in Half
      PROVE  /\ LoadsAt(Loads', half', a, h) = LoadsAt(Loads, half, a, h)
             /\ ResultsAt(InPipe', half', a, h) = ResultsAt(InPipe, half, a, h)
             /\ Flushes(t, Bank(a), h) => LoadsAt(Loads, half, a, h) = {} /\ ResultsAt(InPipe, half, a, h) = {}
  <2>1. \A x \in Loads : InstOf(x) \in UnderWay
    BY DEF UnderWay
  <2>2. \A i \in InPipe : i \in UnderWay
    BY DEF UnderWay
  <2>3. /\ LoadsAt(Loads', half', a, h) = LoadsAt(Loads, half, a, h)
        /\ ResultsAt(InPipe', half', a, h) = ResultsAt(InPipe, half, a, h)
    BY <1>2, <1>3, <2>1, <2>2 DEF LoadsAt, ResultsAt
  <2>4. ASSUME Flushes(t, Bank(a), h)
        PROVE  LoadsAt(Loads, half, a, h) = {} /\ ResultsAt(InPipe, half, a, h) = {}
    BY <1>2, <2>1, <2>2, <2>4 DEF LoadsAt, ResultsAt, Target, HalfOf
  <2> QED BY <2>3, <2>4
<1>5. RemainCounts'
  <2>1. Counts(sram, PendingOf(Loads, InPipe, half))
    BY <1>0, CountsSame
  <2>2. ASSUME NEW a \in Addr, NEW h \in Half
        PROVE  Right(sram'[a][h], PendingOf(Loads', InPipe', half')[a][h])
    <3>1. PendingOf(Loads', InPipe', half')[a][h] = PendingOf(Loads, InPipe, half)[a][h]
      BY <1>4 DEF PendingOf
    <3>2. CASE ~Flushes(t, Bank(a), h)
      BY <1>1, <2>1, <3>1, <3>2 DEF Counts
    <3>3. CASE Flushes(t, Bank(a), h)
      <4>1. sram'[a][h] = Absent
        BY <1>1, <3>3
      <4>2. PendingOf(Loads, InPipe, half)[a][h] = Cardinality({}) + Cardinality({})
        BY <1>4, <3>3 DEF PendingOf
      <4>3. PendingOf(Loads, InPipe, half)[a][h] = 0
        BY <4>2, FS_EmptySet
      <4> QED BY <3>1, <4>1, <4>3 DEF Right, Absent
    <3> QED BY <3>2, <3>3
  <2> QED BY <2>2, CountsSameNext DEF Counts
<1>6. TilesWork'
  <2>1. Elements(tiles) \subseteq Elements(tiles)'
    <3>1. CASE tiles' = tiles
      BY <3>1 DEF Elements
    <3>2. CASE tiles' = Append(tiles, t)
      <4>1. t \in Tile /\ tiles \in Seq(Tile)
        BY <1>0, FeedLen DEF IssueTile, TypeOK, Tile, t
      <4> QED BY <3>2, <4>1, AppendElements
    <3> QED BY <1>1, <3>1, <3>2
  <2> QED BY <1>0, <1>1, <1>3, <2>1 DEF TilesWork
<1>7. Awaited' /\ PipesSorted'
  BY <1>0, <1>1, <1>3 DEF Awaited, PipesSorted, InOrder, Elements
<1> QED BY <1>5, <1>6, <1>7 DEF Live

(* The interconnect takes a request; the memory answers one.                *)
LEMMA RequestTakenLive ==
  ASSUME IInv, Live, PopMemoryRequest
  PROVE  Live'
<1>1. /\ request_queue # <<>> /\ request_queue' = Tail(request_queue)
      /\ memory' = memory \cup {Head(request_queue)}
      /\ UNCHANGED <<tiles, half, pos, inst_finished, ex, compute, vector, sram>>
  BY DEF PopMemoryRequest, tileVars, queueVars, pipeVars, sramVars
<1>2. request_queue \in Seq(Access)
  BY DEF IInv, TypeOK
<1>3. Requested' = Elements(Tail(request_queue)) /\ Requested = Elements(Tail(request_queue)) \cup {Head(request_queue)}
  <2>1. \A x : x \in Requested <=> x \in Elements(Tail(request_queue)) \/ x = Head(request_queue)
    <3>1. Len(request_queue) \in Nat \ {0} /\ Head(request_queue) = request_queue[1]
      BY <1>1, <1>2, EmptySeq
    <3>2. /\ Len(Tail(request_queue)) = Len(request_queue) - 1
          /\ \A k \in 1 .. Len(Tail(request_queue)) : Tail(request_queue)[k] = request_queue[k + 1]
      BY <1>1, <1>2, HeadTailProperties
    <3>3. Elements(Tail(request_queue)) \subseteq Requested /\ Head(request_queue) \in Requested
      BY <1>1, <1>2, HeadElement DEF Requested
    <3>4. ASSUME NEW k \in 1 .. Len(request_queue), k # 1
          PROVE  request_queue[k] \in Elements(Tail(request_queue))
      <4>1. k - 1 \in 1 .. Len(Tail(request_queue)) /\ (k - 1) + 1 = k
        BY <3>1, <3>2, <3>4
      <4>2. Tail(request_queue)[k - 1] = request_queue[k]
        BY <3>2, <4>1
      <4> QED BY <4>1, <4>2 DEF Elements
    <3> QED BY <3>1, <3>3, <3>4 DEF Requested, Elements
  <2> QED BY <1>1, <2>1 DEF Requested, Elements
<1>4. Loads' = Loads
  BY <1>1, <1>3 DEF Loads, IsWrite
<1>5. Elements(ex') \subseteq Elements(ex)
  BY <1>1
<1> QED BY <1>1, <1>4, <1>5, LiveQuiet

LEMMA ResponseLive ==
  ASSUME IInv, WriteInv, Live, NEW x \in memory, PushMemoryResponse(x), ~aborted'
  PROVE  Live'
<1>0. TypeOK /\ AskedOnce /\ RemainCounts /\ TilesWork /\ Awaited /\ PipesSorted
  BY DEF IInv, WriteInv, Live
<1>1. /\ memory' = memory \ {x} /\ Requested' = Requested
      /\ UNCHANGED <<tiles, half, pos, inst_finished, ex, compute, vector>>
  BY DEF PushMemoryResponse, tileVars, queueVars, pipeVars, Requested, Elements
<1>2. InstOf(x) \in Inst /\ x \notin Requested
  BY <1>0, AccessFacts DEF TypeOK, AskedOnce
<1>3. InPipe' = InPipe
  BY <1>1 DEF InPipe, Elements
<1>4. CASE IsWrite(x)
  <2>1. sram' = sram
    BY <1>4 DEF PushMemoryResponse, sramVars
  <2>2. Loads' = Loads
    BY <1>1, <1>4 DEF Loads, IsWrite
  <2>3. Elements(ex') \subseteq Elements(ex)
    BY <1>1
  <2> QED BY <1>1, <2>1, <2>2, <2>3, LiveQuiet
<1>5. CASE ~IsWrite(x)
  <2> DEFINE i == InstOf(x)
  <2>1. Fill(Code(i).dest, Target(i))
    BY <1>5 DEF PushMemoryResponse
  <2>2. sram' = Filled(Code(i).dest, Target(i))
    BY <2>1 DEF Fill
  <2>3. Loads = Loads' \cup {x} /\ x \notin Loads'
    BY <1>1, <1>2, <1>5 DEF Loads, IsWrite
  <2>4. RemainCounts'
    <3>1. PICK A, B, hf : A = {x} /\ B = {} /\ hf = half
      OBVIOUS
    <3>2. Weighs(A, B, hf, i, 1)
      <4>1. x \in Access
        BY <1>0 DEF TypeOK
      <4> QED BY <3>1, <4>1, PendingOne
    <3>3. Loads = Loads' \cup A /\ InPipe = InPipe' \cup B /\ Loads' \cap A = {} /\ InPipe' \cap B = {}
      BY <1>3, <2>3, <3>1
    <3> HIDE DEF i
    <3>4. i \in Inst
      BY <1>2 DEF i
    <3> QED BY <1>0, <1>1, <2>2, <3>1, <3>2, <3>3, <3>4, ResultFilled
  <2>5. UnderWay' \subseteq UnderWay
    BY <1>3, <2>3 DEF UnderWay
  <2>6. TilesWork' /\ Awaited'
    <3>1. TilesWork'
      BY <1>0, <1>1, <2>5 DEF TilesWork, Elements
    <3>2. Awaited'
      BY <1>0, <1>1, <2>5 DEF Awaited
    <3> QED BY <3>1, <3>2
  <2>7. PipesSorted'
    BY <1>0, <1>1, <2>3 DEF PipesSorted, InOrder, Elements
  <2> QED BY <2>4, <2>6, <2>7 DEF Live
<1> QED BY <1>4, <1>5

LEMMA LiveStep ==
  ASSUME ProgramsWait, IInv, WriteInv, TypeOK', aborted \/ Live, [Next]_vars
  PROVE  (aborted \/ Live)'
<1>1. CASE UNCHANGED vars
  <2>1. aborted' = aborted /\ UNCHANGED <<tiles, half, pos, inst_finished, ex, compute, vector, sram, request_queue, memory>>
    BY <1>1 DEF vars, tileVars, queueVars, pipeVars, sramVars, memVars
  <2>2. Loads' = Loads /\ Elements(ex') \subseteq Elements(ex)
    BY <2>1 DEF Loads, Requested, Elements, IsWrite
  <2>3. Live => Live'
    BY <2>1, <2>2, LiveQuiet
  <2> QED BY <2>1, <2>3
<1>2. CASE Next
  <2>1. ~aborted
    BY <1>2 DEF Next, Cycle, Response, IssueTile, NoTile, ComputeDone, ComputeNotDone, VectorDone, VectorNotDone,
       HandleLoad, Execute, HandleStore, IssueInst, NothingToIssue, FinishTile, NoFinishedTile, PopFinishedTile,
       PopMemoryRequest, PushMemoryResponse, Handler, BetweenCycles, Running
  <2> SUFFICES ASSUME ~aborted' PROVE Live'
    OBVIOUS
  <2>2. Live
    BY <2>1
  <2>3. CASE \/ ComputeNotDone \/ VectorNotDone \/ NothingToIssue \/ NoTile \/ NoFinishedTile \/ PopFinishedTile
    <3>1. UNCHANGED <<tiles, half, pos, inst_finished, ex, compute, vector, sram, request_queue, memory>>
      BY <2>3 DEF ComputeNotDone, VectorNotDone, NothingToIssue, NoTile, NoFinishedTile, PopFinishedTile,
         tileVars, queueVars, pipeVars, sramVars, memVars
    <3>2. Loads' = Loads /\ Elements(ex') \subseteq Elements(ex)
      BY <3>1 DEF Loads, Requested, Elements, IsWrite
    <3> QED BY <2>2, <3>1, <3>2, LiveQuiet
  <2>4. CASE ComputeDone
    BY <2>2, <2>4, ComputeDoneLive
  <2>5. CASE VectorDone
    BY <2>2, <2>5, VectorDoneLive
  <2>6. CASE HandleLoad
    BY <2>2, <2>6, HandleLoadLive
  <2>7. CASE Execute
    BY <2>2, <2>7, ExecuteLive
  <2>8. CASE HandleStore
    BY <2>2, <2>8, HandleStoreLive
  <2>9. CASE IssueInst
    BY <2>2, <2>9, IssueInstLive
  <2>10. CASE FinishTile
    BY <2>2, <2>10, FinishTileLive
  <2>11. CASE IssueTile
    BY <2>2, <2>11, IssueTileLive
  <2>12. CASE PopMemoryRequest
    BY <2>2, <2>12, RequestTakenLive
  <2>13. ASSUME NEW x \in memory, PushMemoryResponse(x) PROVE Live'
    BY <2>2, <2>13, ResponseLive
  <2> QED BY <1>2, <2>3, <2>4, <2>5, <2>6, <2>7, <2>8, <2>9, <2>10, <2>11, <2>12, <2>13 DEF Next, Cycle, Response
<1> QED BY <1>1, <1>2

LEMMA LiveInitially == Init => Live
<1> SUFFICES ASSUME Init PROVE Live
  OBVIOUS
<1>1. /\ request_queue = <<>> /\ memory = {} /\ ex = <<>> /\ compute = <<>> /\ vector = <<>>
      /\ sram = [a \in Addr |-> [h \in Half |-> Absent]]
  BY DEF Init
<1>2. Loads = {} /\ InPipe = {} /\ UnderWay = {} /\ Elements(ex) = {} /\ Elements(compute) = {} /\ Elements(vector) = {}
  BY <1>1, EmptyElements DEF Loads, Requested, InPipe, UnderWay
<1>3. RemainCounts
  <2>1. ASSUME NEW a \in Addr, NEW h \in Half
        PROVE  Right(sram[a][h], PendingOf(Loads, InPipe, half)[a][h])
    <3>1. LoadsAt(Loads, half, a, h) = {} /\ ResultsAt(InPipe, half, a, h) = {}
      BY <1>2 DEF LoadsAt, ResultsAt
    <3>2. PendingOf(Loads, InPipe, half)[a][h] = Cardinality({}) + Cardinality({})
      BY <3>1 DEF PendingOf
    <3>3. PendingOf(Loads, InPipe, half)[a][h] = 0
      BY <3>2, FS_EmptySet
    <3>4. sram[a][h] = Absent
      BY <1>1
    <3> QED BY <3>3, <3>4 DEF Right, Absent
  <2> QED BY <2>1, CountsSame DEF Counts
<1>4. TilesWork /\ Awaited
  BY <1>2 DEF TilesWork, Awaited
<1>5. PipesSorted
  <2>1. Len(compute) = 0 /\ Len(vector) = 0
    BY <1>1, EmptySeq
  <2> QED BY <1>2, <2>1 DEF PipesSorted, InOrder
<1> QED BY <1>3, <1>4, <1>5 DEF Live

LEMMA LiveInvariance ==
  ASSUME ProgramsWait
  PROVE  Spec => [](IInv /\ WriteInv /\ (aborted \/ Live))
<1>1. Init => IInv /\ WriteInv /\ (aborted \/ Live)
  BY InitIInv, InitWrites, LiveInitially
<1>2. IInv /\ WriteInv /\ (aborted \/ Live) /\ [Next]_vars => (IInv /\ WriteInv /\ (aborted \/ Live))'
  <2> SUFFICES ASSUME IInv, WriteInv, aborted \/ Live, [Next]_vars
               PROVE  (IInv /\ WriteInv /\ (aborted \/ Live))'
    OBVIOUS
  <2>1. IInv' /\ WriteInv'
    BY IInvStep, WriteStep
  <2>2. TypeOK'
    BY <2>1 DEF IInv
  <2>3. (aborted \/ Live)'
    BY <2>2, LiveStep
  <2> QED BY <2>1, <2>3
<1> QED BY <1>1, <1>2, PTL DEF Spec

(* If every program waits for what it starts, the counts that prefetch,     *)
(* count_up and fill keep in four handlers never drift, in whichever order  *)
(* the memory answers: as long as no assertion failed, remain_req_count of  *)
(* a place is the number of words and results on their way to it, and it is *)
(* valid when there are none.                                               *)
THEOREM PlacesAreCounted ==
  ASSUME ProgramsWait
  PROVE  Spec => [](NoAbort => RemainCounts)
<1>1. IInv /\ WriteInv /\ (aborted \/ Live) => (NoAbort => RemainCounts)
  BY DEF NoAbort, Live
<1> QED BY <1>1, LiveInvariance, PTL

(* No place that is allocated is lost but by a flush.                       *)
LEMMA OnlyFlushed ==
  ASSUME TypeOK, NEW a \in Addr, NEW h \in Half, CheckAllocated(a, h), sram'[a][h] = Absent, [Next]_vars
  PROVE  IssueTile /\ Flushes(issued + 1, Bank(a), h)
<1>1. SramType
  BY TypeParts
<1>2. sram' # sram
  BY DEF CheckAllocated
<1>3. ASSUME NEW b \in Addr, NEW g \in Half, Fill(b, g) PROVE FALSE
  BY <1>1, <1>3, FillFacts DEF CheckAllocated
<1>4. ASSUME NEW i \in Inst, Fill(Code(i).dest, Target(i)) PROVE FALSE
  BY <1>3, <1>4, InstFacts, TargetType DEF TypeOK
<1>5. ASSUME NEW b \in Addr, NEW g \in Half, NEW n, NEW c, Prefetch(b, g, n, c) PROVE FALSE
  <2>1. ~(a = b /\ h = g)
    BY <1>2, <1>5 DEF Prefetch, sramVars
  <2>2. sram'[a][h] = sram[a][h]
    BY <1>2, <1>5, <2>1 DEF Prefetch, sramVars, TypeOK
  <2> QED BY <2>2 DEF CheckAllocated
<1>6. ASSUME NEW b \in Addr, NEW g \in Half, CheckAllocated(b, g), CountUp(b, g) PROVE FALSE
  <2>1. PICK e : e = [valid |-> FALSE, size |-> sram[b][g].size, remain |-> sram[b][g].remain + 1]
    OBVIOUS
  <2>2. sram' = [sram EXCEPT ![b][g] = e]
    BY <1>6, <2>1 DEF CountUp
  <2>3. sram[b][g].remain \in Nat
    BY <1>6 DEF CheckAllocated, TypeOK, Entry
  <2>4. e # Absent
    BY <2>1, <2>3 DEF Absent
  <2>5. sram'[a][h] # Absent
    BY <2>2, <2>4 DEF TypeOK, CheckAllocated
  <2> QED BY <2>5
<1>7. ASSUME ComputeDone PROVE FALSE
  <2>1. Head(compute) \in Inst
    BY <1>7, HeadTailProperties DEF ComputeDone, TypeOK, QueueType
  <2> QED BY <1>4, <1>7, <2>1 DEF ComputeDone
<1>8. ASSUME VectorDone PROVE FALSE
  <2>1. Head(vector) \in Inst
    BY <1>8, HeadTailProperties DEF VectorDone, TypeOK, QueueType
  <2> QED BY <1>4, <1>8, <2>1 DEF VectorDone
<1>9. ASSUME HandleLoad PROVE FALSE
  <2>1. ld # <<>>
    BY <1>2, <1>9 DEF HandleLoad, sramVars
  <2>2. Head(ld) \in Inst
    BY <2>1, HeadTailProperties DEF TypeOK, QueueType
  <2>3. Code(Head(ld)).dest \in Addr /\ Target(Head(ld)) \in Half
    BY <2>2, InstFacts, TargetType DEF TypeOK
  <2> QED BY <1>5, <1>9, <2>1, <2>3 DEF HandleLoad
<1>10. ASSUME Execute PROVE FALSE
  <2> DEFINE i == Head(ex)
  <2>1. /\ ex # <<>>
        /\ IF CheckAllocated(Code(i).dest, Target(i))
             THEN CountUp(Code(i).dest, Target(i))
             ELSE Prefetch(Code(i).dest, Target(i), Code(i).size, 1)
    BY <1>2, <1>10 DEF Execute, sramVars
  <2>2. i \in Inst
    BY <2>1, HeadTailProperties DEF TypeOK, QueueType
  <2>3. Code(i).dest \in Addr /\ Target(i) \in Half
    BY <2>2, InstFacts, TargetType DEF TypeOK
  <2> HIDE DEF i
  <2> QED BY <1>5, <1>6, <2>1, <2>3
<1>11. ASSUME NEW x \in memory, PushMemoryResponse(x) PROVE FALSE
  <2>1. Fill(Code(InstOf(x)).dest, Target(InstOf(x)))
    BY <1>2, <1>11 DEF PushMemoryResponse, sramVars
  <2>2. InstOf(x) \in Inst
    BY <1>11, AccessFacts DEF TypeOK
  <2> QED BY <1>4, <2>1, <2>2
<1>12. ASSUME \/ ComputeNotDone \/ VectorNotDone \/ HandleStore \/ IssueInst \/ NothingToIssue \/ FinishTile
              \/ NoFinishedTile \/ NoTile \/ PopFinishedTile \/ PopMemoryRequest \/ UNCHANGED vars
       PROVE  FALSE
  <2>1. sram' = sram
    BY <1>12 DEF ComputeNotDone, VectorNotDone, HandleStore, IssueInst, NothingToIssue, FinishTile,
         NoFinishedTile, NoTile, PopFinishedTile, PopMemoryRequest, sramVars, vars
  <2> QED BY <1>2, <2>1
<1>13. IssueTile
  BY <1>7, <1>8, <1>9, <1>10, <1>11, <1>12 DEF Next, Cycle, Response
<1>14. Flushes(issued + 1, Bank(a), h)
  <2>1. sram'[a][h] = IF Flushes(issued + 1, Bank(a), h) THEN Absent ELSE sram[a][h]
    BY <1>13 DEF IssueTile
  <2> QED BY <2>1 DEF CheckAllocated
<1> QED BY <1>13, <1>14

LEMMA FlushStep ==
  ASSUME IInv, WriteInv, aborted \/ Live, [Next]_vars,
         NEW a \in Addr, NEW h \in Half, CheckAllocated(a, h), sram'[a][h] = Absent
  PROVE  LoadsTo(a, h) = {} /\ ComputedTo(a, h) = {}
<1>1. IssueTile /\ Flushes(issued + 1, Bank(a), h)
  BY OnlyFlushed DEF IInv
<1>2. Live
  BY <1>1 DEF IssueTile, Handler, Running
<1>3. \A j \in UnderWay : ~Flushes(issued + 1, Bank(Code(j).dest), Target(j))
  BY <1>1, <1>2, FlushedIdle
<1>4. ASSUME NEW x \in LoadsTo(a, h) PROVE FALSE
  <2>1. InstOf(x) \in UnderWay /\ Code(InstOf(x)).dest = a /\ Target(InstOf(x)) = h
    BY <1>4 DEF LoadsTo, UnderWay, Loads, Requested
  <2> QED BY <1>1, <1>3, <2>1
<1>5. ASSUME NEW i \in ComputedTo(a, h) PROVE FALSE
  <2>1. i \in UnderWay /\ Code(i).dest = a /\ Target(i) = h
    BY <1>5 DEF ComputedTo, UnderWay, InPipe
  <2> QED BY <1>1, <1>3, <2>1
<1> QED BY <1>4, <1>5

(* If every program waits for what it starts, Core::issue never throws away *)
(* a place of the half it gives to a new tile while a word or a result is   *)
(* on its way there: nothing of a tile is still under way when it has left. *)
THEOREM FlushesAreSafe ==
  ASSUME ProgramsWait
  PROVE  Spec => FlushHitsNothing
<1>1. IInv /\ WriteInv /\ (aborted \/ Live) /\ [Next]_vars =>
        [\A a \in Addr, h \in Half :
           (CheckAllocated(a, h) /\ sram'[a][h] = Absent) => LoadsTo(a, h) = {} /\ ComputedTo(a, h) = {}]_vars
  BY FlushStep
<1> QED BY <1>1, LiveInvariance, PTL DEF Spec, FlushHitsNothing

(* What leaves the store queue is served by handle_st_inst_queue, which     *)
(* found the place valid.                                                   *)
LEMMA StoreStep ==
  ASSUME IInv, WriteInv, aborted \/ Live, [Next]_vars, NEW i \in Elements(st), i \notin Elements(st')
  PROVE  Unwritten(i) = {}
<1>0. TypeOK /\ OneWaits /\ WaitersReady
  BY DEF IInv
<1>1. st' # st
  OBVIOUS
<1>2. HandleStore
  <2>1. ASSUME IssueInst PROVE FALSE
    <3>1. phase = "issue"
      BY <2>1 DEF IssueInst, Handler
    <3>2. st = <<>>
      BY <1>0, <3>1 DEF OneWaits
    <3> QED BY <3>2, EmptyElements
  <2>2. ASSUME \/ IssueTile \/ NoTile \/ ComputeDone \/ ComputeNotDone \/ VectorDone \/ VectorNotDone
               \/ HandleLoad \/ Execute \/ NothingToIssue \/ FinishTile \/ NoFinishedTile
               \/ PopFinishedTile \/ PopMemoryRequest \/ Response \/ UNCHANGED vars
        PROVE  FALSE
    <3>1. st' = st
      BY <2>2 DEF IssueTile, NoTile, ComputeDone, ComputeNotDone, VectorDone, VectorNotDone, HandleLoad, Execute,
         NothingToIssue, FinishTile, NoFinishedTile, PopFinishedTile, PopMemoryRequest, Response,
         PushMemoryResponse, queueVars, vars
    <3> QED BY <1>1, <3>1
  <2> QED BY <2>1, <2>2 DEF Next, Cycle
<1>3. RemainCounts /\ PipesSorted
  BY <1>2 DEF HandleStore, Handler, Running, Live
<1>4. ld = <<>> /\ ex = <<>>
  BY <1>0, <1>2 DEF HandleStore, Handler, OneWaits
<1>5. CheckHit(Code(i).dest, Target(i)) /\ i \in Inst
  BY <1>0, ElementsType DEF WaitersReady, StoreReady, TypeOK, QueueType
<1>6. Code(i).dest \in Addr /\ Target(i) \in Half
  BY <1>0, <1>5, InstFacts, TargetType DEF TypeOK
<1>7. ASSUME NEW j \in Unwritten(i) PROVE FALSE
  <2>1. j[1] = i[1] /\ Code(j).dest = Code(i).dest /\ Code(j).opcode # "MOVOUT"
    BY <1>7 DEF Unwritten
  <2>2. j \in InPipe \cup {InstOf(x) : x \in Requested \cup memory}
    BY <1>4, <1>7, EmptyElements DEF Unwritten, InPipe, Requested
  <2>3. j \in UnderWay
    BY <2>1, <2>2 DEF UnderWay, Loads, IsWrite
  <2>4. Target(j) = Target(i)
    BY <2>1 DEF Target, HalfOf
  <2> QED BY <1>3, <1>5, <1>6, <2>1, <2>3, <2>4, HitArrived
<1> QED BY <1>7

(* If every program waits for what it starts, a store leaves its queue only *)
(* after everything of its tile that writes the place has been written: the *)
(* valid flag that handle_st_inst_queue looks at does not lie.              *)
THEOREM StoresComeLast ==
  ASSUME ProgramsWait
  PROVE  Spec => StoreSeesResults
<1>1. IInv /\ WriteInv /\ (aborted \/ Live) /\ [Next]_vars =>
        [\A i \in Elements(st) : (i \notin Elements(st')) => Unwritten(i) = {}]_vars
  BY StoreStep
<1> QED BY <1>1, LiveInvariance, PTL DEF Spec, StoreSeesResults

-----------------------------------------------------------------------------
(* The room of the places, for programs that fit.                          *)

(* The places of tile t in its scratchpad half are those its program wrote, *)
(* and no place is larger than the room allotted to it.                     *)
Written(t, n, a) == \E j \in Inst : j[1] = t /\ j[2] <= n /\ WritesPlace(j) /\ Code(j).dest = a
OwnPlace(room, t, n, a, e) == e # Absent => e.size <= room[t][a] /\ Written(t, n, a)
SpadFits(room) ==
  \A t \in Elements(tiles), a \in Places("spad") : OwnPlace(room, t, pos[t], a, sram[a][half[t].spad])
AccFits(room) ==
  \A a \in Places("acc"), h \in Half, t \in Tile : sram[a][h].size <= room[t][a]
Fits(room) == SpadFits(room) /\ AccFits(room)

LEMMA SumBelow ==
  ASSUME NEW S, IsFiniteSet(S), NEW f \in [S -> Nat], NEW g \in [S -> Nat], \A x \in S : f[x] <= g[x]
  PROVE  SumOver(f, S) <= SumOver(g, S)
<1>1. IsFiniteSet(Cells(g, S))
  BY CellsFinite
<1>2. Cells(f, S) \subseteq Cells(g, S)
  <2> SUFFICES ASSUME NEW c \in Cells(f, S) PROVE c[2] <= g[c[1]]
    BY DEF Cells
  <2>1. c[1] \in S /\ c[2] \in Nat /\ c[2] <= f[c[1]] /\ f[c[1]] \in Nat /\ g[c[1]] \in Nat /\ f[c[1]] <= g[c[1]]
    BY DEF Cells
  <2> QED BY <2>1
<1> QED BY <1>1, <1>2, FS_Subset DEF SumOver

(* MapThenSumSet of a function is its sum.                                  *)
LEMMA SumOfFunction ==
  ASSUME NEW S, IsFiniteSet(S), NEW r, \A a \in S : r[a] \in Nat
  PROVE  MapThenSumSet(LAMBDA a : r[a], S) = SumOver([a \in S |-> r[a]], S)
<1>1. PICK f \in [S -> Nat] : f = [a \in S |-> r[a]]
  OBVIOUS
<1>2. PICK w : w = [s \in SUBSET S |-> Cardinality(Cells(f, s))]
  OBVIOUS
<1>3. SumsUp(w, f, S) /\ w[S] = SumOver(f, S)
  BY <1>2, CellsSumUp DEF SumOver
<1>4. ASSUME NEW v
      PROVE  v = [s \in SUBSET S |-> IF s = {} THEN 0 ELSE r[Chosen(s)] + v[s \ {Chosen(s)}]] <=> SumsUp(v, f, S)
  <2>1. \A s \in SUBSET S : s # {} => Chosen(s) \in S
    BY DEF Chosen
  <2>2. \A s \in SUBSET S : (IF s = {} THEN 0 ELSE r[Chosen(s)] + v[s \ {Chosen(s)}])
                            = (IF s = {} THEN 0 ELSE f[Chosen(s)] + v[s \ {Chosen(s)}])
    BY <1>1, <2>1
  <2>3. [s \in SUBSET S |-> IF s = {} THEN 0 ELSE r[Chosen(s)] + v[s \ {Chosen(s)}]]
        = [s \in SUBSET S |-> IF s = {} THEN 0 ELSE f[Chosen(s)] + v[s \ {Chosen(s)}]]
    BY <2>2
  <2> QED BY <2>3, Zenon DEF SumsUp
<1>5. /\ w = [s \in SUBSET S |-> IF s = {} THEN 0 ELSE r[Chosen(s)] + w[s \ {Chosen(s)}]]
      /\ \A v : v = [s \in SUBSET S |-> IF s = {} THEN 0 ELSE r[Chosen(s)] + v[s \ {Chosen(s)}]] => v = w
  BY <1>3, <1>4, OneSum
<1>6. MapThenSumSet(LAMBDA a : r[a], S) = w[S]
  BY <1>5, Zenon DEF MapThenSumSet, MapThenFoldSet, Chosen
<1> QED BY <1>1, <1>3, <1>6

LEMMA BankOf ==
  /\ \A a \in SpadAddr : Bank(a) = "spad"
  /\ \A a \in AccAddr : Bank(a) = "acc"
  /\ \A a \in Addr : a \in Places(Bank(a)) /\ (Bank(a) = "acc" => a \in AccAddr)
BY CoreAssumption DEF Bank, Addr, Places

(* Two tiles that run in the same scratchpad half are one.                  *)
LEMMA OneTile ==
  ASSUME TypeOK, TilesApart, NEW t \in Elements(tiles), NEW u \in Elements(tiles), half[t].spad = half[u].spad
  PROVE  t = u
<1> DEFINE n == Len(tiles)
<1>1. PICK j \in 1 .. n, k \in 1 .. n : t = tiles[j] /\ u = tiles[k]
  BY DEF Elements
<1>2. n \in Nat /\ n <= 2
  BY LenProperties DEF TypeOK
<1>3. n = 2 => half[tiles[1]].spad # half[tiles[2]].spad
  BY DEF TilesApart, HalvesApart
<1>4. j = k \/ (n = 2 /\ ((j = 1 /\ k = 2) \/ (j = 2 /\ k = 1)))
  <2> HIDE DEF n
  <2> QED BY <1>1, <1>2
<1> QED BY <1>1, <1>3, <1>4

(* There is room for whatever place a tile has not got yet.                 *)
LEMMA RoomLeft ==
  ASSUME IInv, RoomAdds(sram, used), NEW room, ProgramsFit(room), Fits(room),
         NEW i \in Inst, i[1] \in Elements(tiles), WritesPlace(i), sram[Code(i).dest][Target(i)] = Absent
  PROVE  CheckRemain(Code(i).dest, Target(i), Code(i).size)
<1> DEFINE d == Code(i).dest
           h == Target(i)
           b == Bank(d)
           n == Code(i).size
           S == Places(b)
<1>0. TypeOK /\ sram \in SramValue
  BY DEF IInv, TypeOK, SramValue
<1>1. i[1] \in Tile /\ d \in Addr /\ h \in Half /\ n \in Nat /\ b \in {"spad", "acc"} /\ d \in S
  BY <1>0, InstFacts, TargetType, BankType, BankOf DEF TypeOK
<1>2. room[i[1]] \in [Addr -> Nat] /\ n <= room[i[1]][d]
  BY <1>1 DEF ProgramsFit
<1>3. PICK g \in [S -> Nat] : g = [a \in S |-> room[i[1]][a]]
  BY <1>2 DEF Places
<1>4. SumOver(g, S) <= Capacity(b)
  <2>1. \A a \in S : room[i[1]][a] \in Nat
    BY <1>2 DEF Places
  <2>2. MapThenSumSet(LAMBDA a : room[i[1]][a], Places(b)) <= Capacity(b)
    BY <1>1 DEF ProgramsFit, Places
  <2>3. PICK s, r : s = S /\ r = room[i[1]]
    OBVIOUS
  <2>4. IsFiniteSet(s) /\ \A a \in s : r[a] \in Nat
    BY <2>1, <2>3, PlacesFinite
  <2>5. MapThenSumSet(LAMBDA a : r[a], s) = SumOver([a \in s |-> r[a]], s)
    BY <2>4, SumOfFunction, Zenon
  <2>6. MapThenSumSet(LAMBDA a : r[a], s) <= Capacity(b)
    BY <2>2, <2>3
  <2>7. [a \in s |-> r[a]] = g
    BY <1>3, <2>3
  <2> QED BY <2>3, <2>5, <2>6, <2>7
<1>5. \A a \in S : sram[a][h].size <= g[a]
  <2> SUFFICES ASSUME NEW a \in S PROVE sram[a][h].size <= g[a]
    OBVIOUS
  <2>1. a \in Addr /\ Bank(a) = b
    BY DEF Places
  <2>2. CASE b = "acc"
    BY <1>1, <1>3, <2>2 DEF Fits, AccFits
  <2>3. CASE b = "spad"
    <3>1. h = half[i[1]].spad
      BY <2>3 DEF Target, HalfOf
    <3>2. sram[a][h] = Absent \/ sram[a][h].size <= room[i[1]][a]
      BY <2>3, <3>1 DEF Fits, SpadFits, OwnPlace
    <3>3. room[i[1]][a] \in Nat
      BY <1>2, <2>1
    <3> HIDE DEF h
    <3> QED BY <1>3, <3>2, <3>3 DEF Absent
  <2> QED BY <1>1, <2>2, <2>3
<1>6. PICK f \in [S -> Nat] : f = SizesOf(sram, b, h)
  BY <1>0, <1>1, SizesType
<1>7. \A a \in S : f[a] = sram[a][h].size
  BY <1>0, <1>1, <1>6, SizesType
<1>8. used[b][h] = SumOver(f, S)
  BY <1>1, <1>6 DEF RoomAdds
<1>9. f[d] = 0
  BY <1>1, <1>7 DEF Absent
<1>10. PICK k \in [S -> Nat] : k = [f EXCEPT ![d] = n]
  BY <1>1
<1>11. SumOver(k, S) = SumOver(f, S) + n
  <2>1. IsFiniteSet(S)
    BY PlacesFinite
  <2>2. d \in S /\ n \in Nat
    BY <1>1
  <2> HIDE DEF S, d, n
  <2>3. SumOver([f EXCEPT ![d] = n], S) = SumOver(f, S) + n
    BY <1>9, <2>1, <2>2, SumRaised
  <2> QED BY <1>10, <2>3
<1>12. SumOver(k, S) <= SumOver(g, S)
  <2>1. \A a \in S : k[a] <= g[a]
    BY <1>1, <1>2, <1>3, <1>5, <1>7, <1>10
  <2> HIDE DEF b
  <2> QED BY <2>1, PlacesFinite, SumBelow
<1>13. SumOver(k, S) \in Nat /\ SumOver(g, S) \in Nat /\ Capacity(b) \in Nat
  <2>1. IsFiniteSet(Cells(k, S)) /\ IsFiniteSet(Cells(g, S))
    <3> HIDE DEF b
    <3> QED BY PlacesFinite, CellsFinite
  <2> QED BY <2>1, FS_CardinalityType, CapacityType DEF SumOver
<1>14. used[b][h] + n <= Capacity(b)
  <2>1. used[b][h] + n = SumOver(k, S)
    BY <1>8, <1>11
  <2> HIDE DEF b, h, n, S
  <2> QED BY <1>4, <1>12, <1>13, <2>1
<1> QED BY <1>14 DEF CheckRemain

(* A step that gives no place a size it had not got.                        *)
SizesStay ==
  \A a \in Addr, h \in Half :
    /\ sram'[a][h] # Absent => sram[a][h] # Absent
    /\ sram'[a][h].size = sram[a][h].size
FarAsBefore == \A t \in Tile : pos[t] <= pos'[t]

LEMMA FitsKept ==
  ASSUME TypeOK, TypeOK', NEW room, Fits(room), Elements(tiles') \subseteq Elements(tiles), half' = half,
         FarAsBefore, SizesStay
  PROVE  Fits(room)'
<1>1. Elements(tiles)' \subseteq Elements(tiles) /\ Elements(tiles) \subseteq Tile
  <2>1. Elements(tiles)' = Elements(tiles')
    BY DEF Elements
  <2> QED BY <2>1, ElementsType DEF TypeOK
<1>2. SpadFits(room)'
  <2> SUFFICES ASSUME NEW t \in Elements(tiles), NEW a \in Places("spad")
               PROVE  OwnPlace(room, t, pos'[t], a, sram'[a][half[t].spad])
    BY <1>1 DEF SpadFits
  <2>1. t \in Tile /\ a \in Addr
    BY <1>1 DEF Places
  <2>2. half[t].spad \in Half /\ pos[t] \in Nat /\ pos'[t] \in Nat /\ pos[t] <= pos'[t]
    BY <2>1 DEF TypeOK, FarAsBefore
  <2>3. OwnPlace(room, t, pos[t], a, sram[a][half[t].spad])
    BY DEF Fits, SpadFits
  <2>4. Written(t, pos[t], a) => Written(t, pos'[t], a)
    <3>1. \A j \in Inst : j[2] \in Nat
      BY InstFacts
    <3>2. \A m \in Nat : m <= pos[t] => m <= pos'[t]
      BY <2>2
    <3> QED BY <3>1, <3>2 DEF Written
  <2> QED BY <2>1, <2>2, <2>3, <2>4 DEF OwnPlace, SizesStay
<1>3. AccFits(room)'
  BY DEF Fits, AccFits, SizesStay, Places
<1> QED BY <1>2, <1>3 DEF Fits

(* Sram::prefetch of the place of the instruction that waits.               *)
LEMMA FitsTaken ==
  ASSUME IInv, NEW room, ProgramsFit(room), Fits(room), NEW i \in Waiting, i \in Inst, WritesPlace(i),
         UNCHANGED <<tiles, half, pos>>,
         NEW e, e.size = Code(i).size, sram' = [sram EXCEPT ![Code(i).dest][Target(i)] = e]
  PROVE  Fits(room)'
<1> DEFINE d == Code(i).dest
           g == Target(i)
<1>0. TypeOK /\ TilesApart /\ WaitersRun
  BY DEF IInv
<1>1. /\ i[1] \in Elements(tiles) /\ pos[i[1]] = i[2] /\ i[1] \in Tile /\ d \in Addr /\ g \in Half
      /\ i[2] \in Nat /\ Elements(tiles) \subseteq Tile
  BY <1>0, InstFacts, TargetType, ElementsType DEF WaitersRun, TypeOK
<1>2. e.size <= room[i[1]][d]
  BY DEF ProgramsFit
<1>3. \A a \in Addr, h \in Half : sram'[a][h] = IF a = d /\ h = g THEN e ELSE sram[a][h]
  BY <1>0 DEF TypeOK
<1>4. SpadFits(room)'
  <2> SUFFICES ASSUME NEW t \in Elements(tiles), NEW a \in Places("spad")
               PROVE  OwnPlace(room, t, pos[t], a, sram'[a][half[t].spad])
    BY DEF SpadFits, Elements
  <2>1. t \in Tile /\ a \in Addr /\ Bank(a) = "spad" /\ half[t].spad \in Half
    BY <1>0, <1>1 DEF Places, TypeOK
  <2>2. OwnPlace(room, t, pos[t], a, sram[a][half[t].spad])
    BY DEF Fits, SpadFits
  <2>3. CASE ~(a = d /\ half[t].spad = g)
    BY <1>3, <2>1, <2>2, <2>3
  <2>4. CASE a = d /\ half[t].spad = g
    <3>1. half[i[1]].spad = half[t].spad
      BY <2>1, <2>4 DEF Target, HalfOf
    <3>2. t = i[1]
      BY <1>0, <1>1, <3>1, OneTile
    <3>3. Written(t, pos[t], a)
      <4>1. i[2] <= pos[i[1]]
        BY <1>1
      <4> QED BY <2>4, <3>2, <4>1 DEF Written
    <3> QED BY <1>2, <1>3, <2>1, <2>4, <3>2, <3>3 DEF OwnPlace
  <2> QED BY <2>3, <2>4
<1>5. AccFits(room)'
  <2> SUFFICES ASSUME NEW a \in Places("acc"), NEW h \in Half, NEW t \in Tile
               PROVE  sram'[a][h].size <= room[t][a]
    BY DEF AccFits
  <2>1. a \in Addr /\ a \in AccAddr /\ sram[a][h].size <= room[t][a]
    BY BankOf DEF Places, Fits, AccFits
  <2>2. room[t][a] = room[i[1]][a]
    BY <1>1, <2>1 DEF ProgramsFit
  <2> QED BY <1>2, <1>3, <2>1, <2>2
<1> QED BY <1>4, <1>5 DEF Fits

(* A new tile has its scratchpad half flushed.                              *)
LEMMA FitsIssued ==
  ASSUME IInv, TypeOK', NEW room, ProgramsFit(room), Fits(room), IssueTile
  PROVE  Fits(room)'
<1> DEFINE t == issued + 1
<1>0. TypeOK /\ TilesApart
  BY DEF IInv
<1>1. /\ pos' = pos
      /\ half' = [half EXCEPT ![t] = HalvesFor(t)]
      /\ sram' = [a \in Addr |-> [h \in Half |-> IF Flushes(t, Bank(a), h) THEN Absent ELSE sram[a][h]]]
      /\ tiles' = tiles \/ tiles' = Append(tiles, t)
  BY DEF IssueTile
<1>2. t \in Tile /\ tiles \in Seq(Tile)
  BY <1>0, FeedLen DEF IssueTile, TypeOK, Tile
<1>3. Elements(tiles)' \subseteq Elements(tiles) \cup {t}
  <2>1. CASE tiles' = tiles
    BY <2>1 DEF Elements
  <2>2. CASE tiles' = Append(tiles, t)
    <3> HIDE DEF t
    <3> QED BY <1>2, <2>2, AppendElements
  <2> QED BY <1>1, <2>1, <2>2
<1>4. \A a \in Addr, h \in Half : sram'[a][h] = IF Flushes(t, Bank(a), h) THEN Absent ELSE sram[a][h]
  BY <1>1
<1>5. SpadFits(room)'
  <2> SUFFICES ASSUME NEW u \in Elements(tiles) \cup {t}, NEW a \in Places("spad")
               PROVE  OwnPlace(room, u, pos[u], a, sram'[a][half'[u].spad])
    BY <1>1, <1>3 DEF SpadFits
  <2>1. a \in Addr /\ Bank(a) = "spad"
    BY DEF Places
  <2>2. CASE u \in Elements(tiles)
    <3>1. half'[u] = half[u] /\ half[u].spad \in Half /\ ~Flushes(t, Bank(a), half[u][Bank(a)])
      BY <1>0, <2>2, HalvesBeside
    <3>2. sram'[a][half'[u].spad] = sram[a][half[u].spad]
      BY <1>4, <2>1, <3>1
    <3> QED BY <2>2, <3>2 DEF Fits, SpadFits
  <2>3. CASE u = t
    <3>1. half'[t].spad = HalvesFor(t).spad /\ half'[t].spad \in Half
      BY <1>0, <1>1, <1>2 DEF TypeOK
    <3>2. Flushes(t, Bank(a), half'[t].spad)
      BY <2>1, <3>1 DEF Flushes
    <3> QED BY <1>4, <2>1, <2>3, <3>1, <3>2 DEF OwnPlace
  <2> QED BY <2>2, <2>3
<1>6. AccFits(room)'
  <2> SUFFICES ASSUME NEW a \in Places("acc"), NEW h \in Half, NEW u \in Tile
               PROVE  sram'[a][h].size <= room[u][a]
    BY DEF AccFits
  <2>1. a \in Addr /\ sram[a][h].size <= room[u][a]
    BY DEF Places, Fits, AccFits
  <2>2. room[u][a] \in Nat
    BY <2>1 DEF ProgramsFit
  <2> QED BY <1>4, <2>1, <2>2 DEF Absent
<1> QED BY <1>5, <1>6 DEF Fits

(* What is under way may arrive: its place is allocated and waits for it.   *)
LEMMA FillDue ==
  ASSUME IInv, WriteInv, RemainCounts, NEW i \in UnderWay
  PROVE  i \in Inst /\ MayFill(Code(i).dest, Target(i))
<1> DEFINE a == Code(i).dest
           h == Target(i)
<1>0. TypeOK
  BY DEF IInv
<1>1. i \in Inst /\ a \in Addr /\ h \in Half
  BY <1>0, UnderWayFacts, InstFacts, TargetType DEF TypeOK
<1>2. Counts(sram, PendingOf(Loads, InPipe, half))
  BY CountsSame
<1>3. Right(sram[a][h], PendingOf(Loads, InPipe, half)[a][h])
  BY <1>1, <1>2 DEF Counts
<1>4. PendingOf(Loads, InPipe, half)[a][h] # 0
  <2> SUFFICES ASSUME PendingOf(Loads, InPipe, half)[a][h] = 0 PROVE FALSE
    OBVIOUS
  <2> HIDE DEF a, h
  <2>1. LoadsAt(Loads, half, a, h) = {} /\ ResultsAt(InPipe, half, a, h) = {}
    BY <1>1, UnderWayFacts, NothingPending
  <2>2. Code(i).dest = a /\ half[i[1]][Bank(a)] = h
    BY DEF a, h, Target, HalfOf
  <2>3. i \notin InPipe
    BY <2>1, <2>2 DEF ResultsAt
  <2>4. PICK x \in Loads : i = InstOf(x)
    BY <2>3 DEF UnderWay
  <2> QED BY <2>1, <2>2, <2>4 DEF LoadsAt
<1>5. sram[a][h].remain \in Nat /\ (sram[a][h] # Absent => ~sram[a][h].valid) /\ sram[a][h].remain # 0
  <2>1. sram[a][h] \in Entry \cup {Absent}
    BY <1>0, <1>1 DEF TypeOK
  <2>2. sram[a][h].remain \in Nat
    BY <2>1 DEF Entry, Absent
  <2> HIDE DEF a, h
  <2> QED BY <1>3, <1>4, <2>2 DEF Right
<1>6. sram[a][h] # Absent
  BY <1>5 DEF Absent
<1> HIDE DEF a, h
<1>7. MayFill(a, h)
  BY <1>5, <1>6 DEF MayFill, CheckAllocated
<1> QED BY <1>1, <1>7 DEF a, h

(* A load finds its place free, and room for it.                            *)
LEMMA MustLoadFit ==
  ASSUME IInv, RoomAdds(sram, used), NEW room, ProgramsFit(room), Fits(room),
         NEW i \in Inst, i[1] \in Elements(tiles), i = NextInst(i[1]), Code(i).opcode = "MOVIN"
  PROVE  LoadFits(i)
<1> DEFINE d == Code(i).dest
           t == i[1]
<1>0. TypeOK
  BY DEF IInv
<1>1. t \in Tile /\ d \in Addr /\ i[2] = pos[t] + 1 /\ pos[t] \in Nat /\ WritesPlace(i)
  BY <1>0, InstFacts DEF NextInst, WritesPlace, TypeOK
<1>2. d \in SpadAddr /\ Bank(d) = "spad" /\ d \in Places("spad")
  <2>1. d \in SpadAddr
    BY DEF ProgramsFit
  <2> QED BY <1>1, <2>1, BankOf
<1>3. ~Written(t, pos[t], d)
  <2> SUFFICES ASSUME NEW j \in Inst, j[1] = t, j[2] <= pos[t], WritesPlace(j), Code(j).dest = d
               PROVE  FALSE
    BY DEF Written
  <2>1. j[2] \in Nat
    BY InstFacts
  <2>2. j[2] < i[2]
    BY <1>1, <2>1
  <2> QED BY <2>2 DEF ProgramsFit
<1>4. OwnPlace(room, t, pos[t], d, sram[d][half[t].spad])
  BY <1>2 DEF Fits, SpadFits
<1>5. half[t].spad = Target(i)
  BY <1>2 DEF Target, HalfOf
<1>6. sram[d][Target(i)] = Absent
  BY <1>3, <1>4, <1>5 DEF OwnPlace
<1>7. CheckRemain(d, Target(i), Code(i).size)
  BY <1>1, <1>6, RoomLeft
<1> QED BY <1>6, <1>7 DEF LoadFits, CheckAllocated

LEMMA NoneAborts ==
  ASSUME IInv, WriteInv, RoomAdds(sram, used), NEW room, ProgramsFit(room), Fits(room), Live,
         ~aborted, [Next]_vars
  PROVE  ~aborted'
<1>0. TypeOK /\ RemainCounts /\ PipesSorted /\ WaitersReady /\ WaitersRun
  BY DEF IInv, Live
<1>1. ASSUME NEW i \in UnderWay, Fill(Code(i).dest, Target(i)) PROVE ~aborted'
  BY <1>0, <1>1, FillDue DEF Fill
<1>2. ASSUME ComputeDone PROVE ~aborted'
  <2>1. Head(compute) \in UnderWay
    BY <1>0, <1>2, HeadElement DEF ComputeDone, TypeOK, QueueType, UnderWay, InPipe
  <2> QED BY <1>1, <1>2, <2>1 DEF ComputeDone
<1>3. ASSUME VectorDone PROVE ~aborted'
  <2>1. Head(vector) \in UnderWay
    BY <1>0, <1>3, HeadElement DEF VectorDone, TypeOK, QueueType, UnderWay, InPipe
  <2> QED BY <1>1, <1>3, <2>1 DEF VectorDone
<1>4. ASSUME HandleLoad PROVE ~aborted'
  <2>1. CASE ld = <<>>
    BY <1>4, <2>1 DEF HandleLoad
  <2>2. CASE ld # <<>>
    <3>1. LoadFits(Head(ld))
      BY <1>0, <2>2, HeadElement DEF WaitersReady, TypeOK, QueueType
    <3> QED BY <1>4, <2>2, <3>1 DEF HandleLoad, LoadFits, Prefetch
  <2> QED BY <2>1, <2>2
<1>5. ASSUME Execute PROVE ~aborted'
  <2>1. CASE ~(ex # <<>> /\ CanIssueCompute(Head(ex)))
    BY <1>5, <2>1 DEF Execute
  <2>2. CASE ex # <<>> /\ CanIssueCompute(Head(ex))
    <3> DEFINE i == Head(ex)
    <3>1. IF CheckAllocated(Code(i).dest, Target(i))
            THEN CountUp(Code(i).dest, Target(i))
            ELSE Prefetch(Code(i).dest, Target(i), Code(i).size, 1)
      BY <1>5, <2>2 DEF Execute
    <3>2. i \in Elements(ex) /\ i \in Inst
      BY <1>0, <2>2, HeadElement, ElementsType DEF TypeOK, QueueType
    <3>3. i[1] \in Elements(tiles) /\ WritesPlace(i)
      BY <1>0, <3>2 DEF WaitersRun, Waiting, PipesSorted, WritesPlace
    <3> HIDE DEF i
    <3>4. sram[Code(i).dest][Target(i)] = Absent => CheckRemain(Code(i).dest, Target(i), Code(i).size)
      BY <3>2, <3>3, RoomLeft
    <3> QED BY <3>1, <3>4 DEF CheckAllocated, CountUp, Prefetch
  <2> QED BY <2>1, <2>2
<1>6. ASSUME HandleStore PROVE ~aborted'
  <2>1. CASE st = <<>>
    BY <1>6, <2>1 DEF HandleStore
  <2>2. CASE st # <<>>
    <3>1. StoreReady(Head(st))
      BY <1>0, <2>2, HeadElement DEF WaitersReady, TypeOK, QueueType
    <3> QED BY <1>6, <2>2, <3>1 DEF HandleStore, StoreReady
  <2> QED BY <2>1, <2>2
<1>7. ASSUME IssueInst PROVE ~aborted'
  <2>1. PICK i \in Inst : /\ i[1] \in Elements(tiles) /\ HasInst(i[1]) /\ i = NextInst(i[1]) /\ CanGo(i)
                          /\ IF Code(i).opcode = "MOVIN" /\ ~LoadFits(i)
                               THEN aborted' = TRUE /\ UNCHANGED <<queueVars, pos>>
                               ELSE /\ Dispatch(i) /\ pos' = [pos EXCEPT ![i[1]] = i[2]]
                                    /\ aborted' = aborted
    BY <1>0, <1>7, InstChosen
  <2>2. Code(i).opcode = "MOVIN" => LoadFits(i)
    BY <2>1, MustLoadFit
  <2> QED BY <2>1, <2>2
<1>8. ASSUME NEW x \in memory, PushMemoryResponse(x) PROVE ~aborted'
  <2>1. CASE IsWrite(x)
    BY <1>8, <2>1 DEF PushMemoryResponse
  <2>2. CASE ~IsWrite(x)
    <3>1. InstOf(x) \in UnderWay
      BY <1>8, <2>2 DEF UnderWay, Loads
    <3> QED BY <1>1, <1>8, <2>2, <3>1 DEF PushMemoryResponse
  <2> QED BY <2>1, <2>2
<1>9. CASE \/ ComputeNotDone \/ VectorNotDone \/ NothingToIssue \/ FinishTile \/ NoFinishedTile
           \/ IssueTile \/ NoTile \/ PopFinishedTile \/ PopMemoryRequest \/ UNCHANGED vars
  BY <1>9 DEF ComputeNotDone, VectorNotDone, NothingToIssue, FinishTile, NoFinishedTile, IssueTile, NoTile,
     PopFinishedTile, PopMemoryRequest, vars
<1> QED BY <1>2, <1>3, <1>4, <1>5, <1>6, <1>7, <1>8, <1>9 DEF Next, Cycle, Response

LEMMA FillKeepsSizes ==
  ASSUME SramType, NEW a \in Addr, NEW h \in Half, Fill(a, h)
  PROVE  SizesStay
<1>1. \A b \in Addr, g \in Half : CheckAllocated(b, g) <=> CheckAllocated(b, g)'
  BY FillFacts
<1>2. \A b \in Addr, g \in Half : sram'[b][g].size = sram[b][g].size
  <2>1. CASE sram' = sram
    BY <2>1
  <2>2. CASE sram' = Filled(a, h)
    BY <2>2 DEF Filled, SramType
  <2> QED BY <2>1, <2>2 DEF Fill, sramVars
<1> QED BY <1>1, <1>2 DEF SizesStay, CheckAllocated

LEMMA CountUpKeepsSizes ==
  ASSUME SramType, NEW a \in Addr, NEW h \in Half, CheckAllocated(a, h), CountUp(a, h)
  PROVE  SizesStay
BY DEF CountUp, SramType, SizesStay, CheckAllocated

(* Sram::prefetch for the instruction that waits.                           *)
LEMMA FitsPrefetched ==
  ASSUME IInv, TypeOK', NEW room, ProgramsFit(room), Fits(room), NEW i \in Waiting, i \in Inst, WritesPlace(i),
         UNCHANGED <<tiles, half, pos>>, NEW c, Prefetch(Code(i).dest, Target(i), Code(i).size, c)
  PROVE  Fits(room)'
<1> DEFINE a == Code(i).dest
           h == Target(i)
<1>1. CASE ~(~CheckAllocated(a, h) /\ CheckRemain(a, h, Code(i).size))
  <2>1. sram' = sram
    BY <1>1 DEF Prefetch, sramVars
  <2> QED BY <2>1 DEF Fits, SpadFits, AccFits, OwnPlace, Elements
<1>2. CASE ~CheckAllocated(a, h) /\ CheckRemain(a, h, Code(i).size)
  <2>1. PICK e : e = [valid |-> FALSE, size |-> Code(i).size, remain |-> c]
    OBVIOUS
  <2>2. e.size = Code(i).size /\ sram' = [sram EXCEPT ![a][h] = e]
    BY <1>2, <2>1 DEF Prefetch
  <2> HIDE DEF a, h
  <2>3. sram' = [sram EXCEPT ![Code(i).dest][Target(i)] = e]
    BY <2>2 DEF a, h
  <2> QED BY <2>2, <2>3, FitsTaken
<1> QED BY <1>1, <1>2

LEMMA FitsStep ==
  ASSUME IInv, TypeOK', QueuesSorted, PipesSorted, NEW room, ProgramsFit(room), Fits(room), [Next]_vars
  PROVE  Fits(room)'
<1>0. TypeOK /\ SramType /\ ld \in Seq(Inst) /\ ex \in Seq(Inst)
  BY TypeParts DEF IInv, TypeOK, QueueType
<1>1. ASSUME UNCHANGED <<tiles, half, pos>>, SizesStay PROVE Fits(room)'
  <2>1. Elements(tiles') \subseteq Elements(tiles) /\ half' = half
    BY <1>1
  <2>2. FarAsBefore
    BY <1>0, <1>1 DEF FarAsBefore, TypeOK
  <2> QED BY <1>0, <1>1, <2>1, <2>2, FitsKept
<1>2. ASSUME NEW i \in Inst, Fill(Code(i).dest, Target(i)), UNCHANGED <<tiles, half, pos>> PROVE Fits(room)'
  <2>1. Code(i).dest \in Addr /\ Target(i) \in Half
    BY <1>0, InstFacts, TargetType DEF TypeOK
  <2> QED BY <1>0, <1>1, <1>2, <2>1, FillKeepsSizes
<1>3. ASSUME sram' = sram PROVE SizesStay
  BY <1>3 DEF SizesStay
<1>4. ASSUME ComputeDone PROVE Fits(room)'
  <2>1. Head(compute) \in Inst
    BY <1>0, <1>4, HeadTailProperties DEF ComputeDone, TypeOK, QueueType
  <2> QED BY <1>2, <1>4, <2>1 DEF ComputeDone
<1>5. ASSUME VectorDone PROVE Fits(room)'
  <2>1. Head(vector) \in Inst
    BY <1>0, <1>5, HeadTailProperties DEF VectorDone, TypeOK, QueueType
  <2> QED BY <1>2, <1>5, <2>1 DEF VectorDone
<1>6. ASSUME HandleLoad PROVE Fits(room)'
  <2>1. UNCHANGED <<tiles, half, pos>>
    BY <1>6 DEF HandleLoad, tileVars
  <2>2. CASE ld = <<>>
    BY <1>1, <1>3, <1>6, <2>1, <2>2 DEF HandleLoad, sramVars
  <2>3. CASE ld # <<>>
    <3> DEFINE i == Head(ld)
    <3>1. Prefetch(Code(i).dest, Target(i), Code(i).size, Code(i).size)
      BY <1>6, <2>3 DEF HandleLoad
    <3>2. i \in Elements(ld) /\ i \in Waiting /\ i \in Inst
      BY <1>0, <2>3, HeadElement, ElementsType DEF Waiting
    <3>3. WritesPlace(i)
      BY <3>2 DEF QueuesSorted, WritesPlace
    <3> HIDE DEF i
    <3> QED BY <2>1, <3>1, <3>2, <3>3, FitsPrefetched
  <2> QED BY <2>2, <2>3
<1>7. ASSUME Execute PROVE Fits(room)'
  <2>1. UNCHANGED <<tiles, half, pos>>
    BY <1>7 DEF Execute, tileVars
  <2>2. CASE ~(ex # <<>> /\ CanIssueCompute(Head(ex)))
    BY <1>1, <1>3, <1>7, <2>1, <2>2 DEF Execute, sramVars
  <2>3. CASE ex # <<>> /\ CanIssueCompute(Head(ex))
    <3> DEFINE i == Head(ex)
    <3>1. IF CheckAllocated(Code(i).dest, Target(i))
            THEN CountUp(Code(i).dest, Target(i))
            ELSE Prefetch(Code(i).dest, Target(i), Code(i).size, 1)
      BY <1>7, <2>3 DEF Execute
    <3>2. i \in Elements(ex) /\ i \in Waiting /\ i \in Inst
      BY <1>0, <2>3, HeadElement, ElementsType DEF Waiting
    <3>3. WritesPlace(i)
      BY <3>2 DEF PipesSorted, WritesPlace
    <3> HIDE DEF i
    <3>4. Code(i).dest \in Addr /\ Target(i) \in Half
      BY <1>0, <3>2, InstFacts, TargetType DEF TypeOK
    <3> QED BY <1>0, <1>1, <2>1, <3>1, <3>2, <3>3, <3>4, CountUpKeepsSizes, FitsPrefetched
  <2> QED BY <2>2, <2>3
<1>8. ASSUME IssueInst PROVE Fits(room)'
  <2>1. PICK i \in Inst : /\ i[1] \in Elements(tiles) /\ HasInst(i[1]) /\ i = NextInst(i[1])
                          /\ pos' = pos \/ pos' = [pos EXCEPT ![i[1]] = i[2]]
    BY <1>0, <1>8, InstChosen
  <2>2. UNCHANGED <<tiles, half, sramVars>>
    BY <1>0, <1>8, InstChosen
  <2>3. FarAsBefore
    <3>1. i[2] = pos[i[1]] + 1 /\ pos \in [Tile -> Nat] /\ i[1] \in Tile
      BY <1>0, <2>1, InstFacts DEF NextInst, TypeOK
    <3> QED BY <2>1, <3>1 DEF FarAsBefore
  <2>4. SizesStay
    BY <1>3, <2>2 DEF sramVars
  <2>5. Elements(tiles') \subseteq Elements(tiles) /\ half' = half
    BY <2>2
  <2> QED BY <1>0, <2>3, <2>4, <2>5, FitsKept
<1>9. ASSUME FinishTile PROVE Fits(room)'
  <2>1. UNCHANGED <<half, pos, sram>>
    BY <1>9 DEF FinishTile, sramVars
  <2>2. PICK n \in 1 .. Len(tiles) : tiles' = Without(n)
    BY <1>9 DEF FinishTile
  <2>3. Elements(tiles') \subseteq Elements(tiles)
    BY <1>0, <2>2, OneTileLess DEF IInv, TypeOK, TilesApart
  <2>4. FarAsBefore /\ SizesStay
    BY <1>0, <1>3, <2>1 DEF FarAsBefore, TypeOK
  <2> QED BY <1>0, <2>1, <2>3, <2>4, FitsKept
<1>10. ASSUME NEW x \in memory, PushMemoryResponse(x) PROVE Fits(room)'
  <2>1. UNCHANGED <<tiles, half, pos>>
    BY <1>10 DEF PushMemoryResponse, tileVars
  <2>2. CASE IsWrite(x)
    BY <1>1, <1>3, <1>10, <2>1, <2>2 DEF PushMemoryResponse, sramVars
  <2>3. CASE ~IsWrite(x)
    <3>1. InstOf(x) \in Inst
      BY <1>0, AccessFacts DEF TypeOK
    <3> QED BY <1>2, <1>10, <2>1, <2>3, <3>1 DEF PushMemoryResponse
  <2> QED BY <2>2, <2>3
<1>11. CASE \/ ComputeNotDone \/ VectorNotDone \/ HandleStore \/ NothingToIssue \/ NoFinishedTile
            \/ NoTile \/ PopFinishedTile \/ PopMemoryRequest \/ UNCHANGED vars
  <2>1. UNCHANGED <<tiles, half, pos, sram>>
    BY <1>11 DEF ComputeNotDone, VectorNotDone, HandleStore, NothingToIssue, NoFinishedTile, NoTile,
       PopFinishedTile, PopMemoryRequest, vars, tileVars, sramVars
  <2> QED BY <1>1, <1>3, <2>1
<1>12. CASE IssueTile
  BY <1>12, FitsIssued
<1> QED BY <1>4, <1>5, <1>6, <1>7, <1>8, <1>9, <1>10, <1>11, <1>12 DEF Next, Cycle, Response

LEMMA FitsInitially ==
  ASSUME NEW room, ProgramsFit(room), Init
  PROVE  Fits(room)
<1>1. /\ tiles = <<>>
      /\ \A a \in Addr, h \in Half : sram[a][h] = Absent
  BY DEF Init
<1>2. SpadFits(room)
  BY <1>1, EmptyElements DEF SpadFits
<1>3. AccFits(room)
  <2> SUFFICES ASSUME NEW a \in Places("acc"), NEW h \in Half, NEW t \in Tile
               PROVE  sram[a][h].size <= room[t][a]
    BY DEF AccFits
  <2>1. a \in Addr /\ room[t][a] \in Nat
    BY DEF ProgramsFit, Places
  <2> QED BY <1>1, <2>1 DEF Absent
<1> QED BY <1>2, <1>3 DEF Fits

(* If every program waits for what it starts, loads into places of its own  *)
(* and fits the halves, then no assertion of Sram or Core ever fails, no    *)
(* load finds its place taken or too small, and no store dereferences the   *)
(* null pointer a failed one would leave in the queue: the checks the code  *)
(* makes when it issues an instruction are enough for the handlers that run *)
(* later.                                                                   *)
THEOREM NothingAborts ==
  ASSUME NEW room, ProgramsWait, ProgramsFit(room)
  PROVE  Spec => []NoAbort
<1> DEFINE Inv == /\ IInv /\ WriteInv /\ RoomAdds(sram, used)
                  /\ Live /\ Fits(room) /\ NoAbort
<1>1. Init => Inv
  BY InitIInv, InitWrites, RoomInitially, LiveInitially, FitsInitially DEF Init, NoAbort
<1>2. Inv /\ [Next]_vars => Inv'
  <2> SUFFICES ASSUME Inv, [Next]_vars PROVE Inv'
    OBVIOUS
  <2>1. IInv' /\ WriteInv' /\ TypeOK /\ TypeOK' /\ QueuesSorted /\ PipesSorted /\ ~aborted
    <3>1. IInv' /\ WriteInv'
      BY IInvStep, WriteStep
    <3> QED BY <3>1 DEF IInv, WriteInv, Live, NoAbort
  <2>2. RoomAdds(sram, used)'
    BY <2>1, RoomStep DEF RoomKept
  <2>3. ~aborted'
    BY <2>1, NoneAborts
  <2>4. Live'
    <3>1. (aborted \/ Live)'
      BY <2>1, LiveStep
    <3> QED BY <2>3, <3>1
  <2>5. Fits(room)'
    BY <2>1, FitsStep
  <2> QED BY <2>1, <2>2, <2>3, <2>4, <2>5 DEF NoAbort
<1>3. Inv => NoAbort
  OBVIOUS
<1> QED BY <1>1, <1>2, <1>3, PTL DEF Spec

(* And then the counts of the places are right without exception.           *)
THEOREM CountsNeverDrift ==
  ASSUME NEW room, ProgramsWait, ProgramsFit(room)
  PROVE  Spec => []RemainCounts
BY PlacesAreCounted, NothingAborts, PTL
=============================================================================
