------------------------------ MODULE NpuCore -------------------------------
(***************************************************************************)
(* One core of the NPU (Core, SystolicWS) with its two double-buffered     *)
(* scratchpads (Sram).  The scheduler issues tiles; each cycle the core    *)
(* retires results from the two pipelines, serves the load, execute and    *)
(* store queues, issues one instruction of one of its tiles and looks for  *)
(* a finished tile.  SystolicWS::cycle is one synchronous call; its parts  *)
(* are the actions below, one per handler, forced into their order by      *)
(* `phase`.  Simulator::cycle issues at most one tile before each cycle;   *)
(* the interconnect touches the core between two cycles only.              *)
(*                                                                         *)
(* How long an operation stays in a pipeline or in the memory is left      *)
(* open: the pipelines are FIFOs whose head may be ready in any cycle, and *)
(* the memory answers its requests in any order.                           *)
(***************************************************************************)
EXTENDS Integers, Sequences, FiniteSets, FiniteSetsExt

CONSTANTS
  Feed,           (* The tiles the scheduler issues to this core, in order.*)
  Queued,         (* Those that wait in its queue behind the one before.   *)
  SpadAddr,       (* Scratchpad addresses, below ACCUM_SPAD_BASE.          *)
  AccAddr,        (* Accumulator addresses, from ACCUM_SPAD_BASE on.       *)
  SpadSize,       (* Room of one half of the scratchpad.                   *)
  AccSize,        (* Room of one half of the accumulator.                  *)
  PipelineDepth,  (* core_height, the depth of the systolic array.         *)
  FinishPeriod,   (* Finished tiles are looked for every so many cycles.   *)
  FusedOp         (* Pairs of a layer_id and a fused_op_id.                *)

Tile == 1 .. Len(Feed)
Addr == SpadAddr \cup AccAddr
Half == {0, 1}

(* A move transfers the `reqs` DRAM words of its src_addrs, a compute       *)
(* instruction reads `srcs`; src_from_accum says where from.                *)
Opcode == {"MOVIN", "MOVOUT", "GEMM", "VECTOR"}
InstKind ==
  [opcode : Opcode, dest : Addr, size : Nat \ {0}, reqs : Nat, srcs : SUBSET Addr,
   fromAcc : BOOLEAN]
TileKind == [op : FusedOp, accum : BOOLEAN, skip : BOOLEAN, code : Seq(InstKind)]

ASSUME CoreAssumption ==
  /\ Feed \in Seq(TileKind)
  /\ Queued \subseteq Tile
  /\ SpadAddr \cap AccAddr = {}
  /\ IsFiniteSet(SpadAddr) /\ IsFiniteSet(AccAddr)
  /\ SpadSize \in Nat /\ AccSize \in Nat
  /\ PipelineDepth \in Nat \ {0}
  /\ FinishPeriod \in Nat \ {0}
  /\ FusedOp # {}

(* An instruction is named by its tile and its place in it, an access by    *)
(* its instruction and its place in src_addrs.                              *)
Inst == UNION {{t} \X (1 .. Len(Feed[t].code)) : t \in Tile}
Code(i) == Feed[i[1]].code[i[2]]
IsLast(i) == i[2] = Len(Feed[i[1]].code)        \* last_inst
Accesses(i) == {<<i[1], i[2], k>> : k \in 1 .. Code(i).reqs}
Access == UNION {Accesses(i) : i \in Inst}
InstOf(x) == <<x[1], x[2]>>

Entry == [valid : BOOLEAN, size : Nat \ {0}, remain : Nat]
Absent == [valid |-> FALSE, size |-> 0, remain |-> 0]

VARIABLES
  phase,          (* The handler of SystolicWS::cycle that runs next.      *)
  clock,          (* _core_cycle modulo FinishPeriod.                      *)
  issued,         (* How many tiles of Feed were issued.                   *)
  tiles,          (* _tiles.                                               *)
  tile_rr,        (* tile_rr.                                              *)
  current,        (* _current_layer_id and _current_fused_op_id.           *)
  half,           (* Tile::spad_id and Tile::accum_spad_id.                *)
  pos,            (* How many instructions of each tile were issued.       *)
  inst_finished,  (* The tiles whose inst_finished is set.                 *)
  finished_tiles, (* _finished_tiles.                                      *)
  ld, ex, st,     (* _ld_inst_queue, _ex_inst_queue and _st_inst_queue.    *)
  compute,        (* _compute_pipeline.                                    *)
  vector,         (* _vector_pipeline.                                     *)
  sram,           (* _cache_table of _spad and _acc_spad, by half.         *)
  used,           (* _current_size of _spad and _acc_spad, by half.        *)
  request_queue,  (* _request_queue.                                       *)
  memory,         (* The accesses beyond the core that are not answered.   *)
  waiting_write_reqs,
  aborted         (* An assertion failed, exit() or a null dereference.    *)

tileVars  == <<issued, tiles, tile_rr, current, half, pos, inst_finished, finished_tiles>>
queueVars == <<ld, ex, st>>
pipeVars  == <<compute, vector>>
sramVars  == <<sram, used>>
memVars   == <<request_queue, memory, waiting_write_reqs>>
vars == <<phase, clock, tileVars, queueVars, pipeVars, sramVars, memVars, aborted>>

-----------------------------------------------------------------------------
(* The scratchpads.                                                        *)

Bank(a) == IF a \in AccAddr THEN "acc" ELSE "spad"
Capacity(b) == IF b = "acc" THEN AccSize ELSE SpadSize

(* The half of the bank of a that tile t works in.                         *)
HalfOf(t, a) == half[t][Bank(a)]

CheckAllocated(a, h) == sram[a][h] # Absent
CheckHitAllocated(a, h) == sram[a][h] # Absent         \* slip: allocated is not valid
CheckHit(a, h) == sram[a][h].valid
CheckRemain(a, h, size) == used[Bank(a)][h] + size <= Capacity(Bank(a))

(* Sram::fill, with its assertions.                                        *)
MayFill(a, h) == CheckAllocated(a, h) /\ sram[a][h].remain > 0 /\ ~sram[a][h].valid

FilledAtOnce(a, h) ==                                  \* slip: valid after one word
  [sram EXCEPT ![a][h] = [valid |-> TRUE, size |-> @.size, remain |-> @.remain - 1]]

Filled(a, h) ==
  [sram EXCEPT ![a][h] = [valid |-> @.remain = 1, size |-> @.size, remain |-> @.remain - 1]]

Fill(a, h) ==
  IF MayFill(a, h)
    THEN sram' = Filled(a, h) /\ UNCHANGED <<used, aborted>>
    ELSE aborted' = TRUE /\ UNCHANGED sramVars

PrefetchUncounted(a, h, size, count) ==                \* slip: _current_size
  /\ sram' = [sram EXCEPT ![a][h] = [valid |-> FALSE, size |-> size, remain |-> count]]
  /\ UNCHANGED <<used, aborted>>

(* Sram::prefetch of a place that must be free.                            *)
Prefetch(a, h, size, count) ==
  IF ~CheckAllocated(a, h) /\ CheckRemain(a, h, size)
    THEN /\ sram' = [sram EXCEPT ![a][h] = [valid |-> FALSE, size |-> size, remain |-> count]]
         /\ used' = [used EXCEPT ![Bank(a)][h] = @ + size]
         /\ UNCHANGED aborted
    ELSE aborted' = TRUE /\ UNCHANGED sramVars

CountUp(a, h) ==
  /\ sram' = [sram EXCEPT ![a][h] = [valid |-> FALSE, size |-> @.size, remain |-> @.remain + 1]]
  /\ UNCHANGED <<used, aborted>>

-----------------------------------------------------------------------------
(* Core::can_issue_compute with the check SystolicWS adds to it.  An       *)
(* accumulator address without src_from_accum is looked for in the         *)
(* scratchpad, where it never is.                                          *)
SrcHitSpad(i, a) == a \in SpadAddr /\ CheckHit(a, HalfOf(i[1], a))     \* slip: src_from_accum
SrcHit(i, a) == (a \in AccAddr => Code(i).fromAcc) /\ CheckHit(a, HalfOf(i[1], a))

PipelineFree(i) == IF Code(i).opcode = "GEMM" THEN Len(compute) < PipelineDepth ELSE vector = <<>>

CanIssueCompute(i) == (\A a \in Code(i).srcs : SrcHit(i, a)) /\ PipelineFree(i)

Target(i) == HalfOf(i[1], Code(i).dest)
Addressed(i) == [k \in 1 .. Code(i).reqs |-> <<i[1], i[2], k>>]

(* The last instruction of a tile sets inst_finished of the tile.          *)
MarkIfLast(i) == inst_finished' = IF IsLast(i) THEN inst_finished \cup {i[1]} ELSE inst_finished

Running == ~aborted
Handler(from, to) == Running /\ phase = from /\ phase' = to
BetweenCycles == Running /\ phase = "idle" /\ UNCHANGED phase

-----------------------------------------------------------------------------
(* One cycle of the core.                                                  *)

(* finish_compute_pipeline: the head is due (finish_cycle <= _core_cycle). *)
ComputeDone ==
  /\ Handler("compute", "vector")
  /\ compute # <<>>
  /\ Fill(Code(Head(compute)).dest, Target(Head(compute)))
  /\ MarkIfLast(Head(compute))
  /\ compute' = Tail(compute)
  /\ UNCHANGED <<clock, issued, tiles, tile_rr, current, half, pos, finished_tiles,
                 queueVars, vector, memVars>>

ComputeNotDone ==
  /\ Handler("compute", "vector")
  /\ UNCHANGED <<clock, tileVars, queueVars, pipeVars, sramVars, memVars, aborted>>

(* finish_vector_pipeline.                                                 *)
VectorDone ==
  /\ Handler("vector", "load")
  /\ vector # <<>>
  /\ Fill(Code(Head(vector)).dest, Target(Head(vector)))
  /\ MarkIfLast(Head(vector))
  /\ vector' = Tail(vector)
  /\ UNCHANGED <<clock, issued, tiles, tile_rr, current, half, pos, finished_tiles,
                 queueVars, compute, memVars>>

VectorNotDone ==
  /\ Handler("vector", "load")
  /\ UNCHANGED <<clock, tileVars, queueVars, pipeVars, sramVars, memVars, aborted>>

(* handle_ld_inst_queue: reserve the place and request its words.          *)
HandleLoad ==
  /\ Handler("load", "execute")
  /\ IF ld = <<>>
       THEN UNCHANGED <<ld, request_queue, sramVars, aborted>>
       ELSE LET i == Head(ld) IN
            /\ Prefetch(Code(i).dest, Target(i), Code(i).size, Code(i).size)
            /\ request_queue' = request_queue \o Addressed(i)
            /\ ld' = Tail(ld)
  /\ UNCHANGED <<clock, tileVars, ex, st, pipeVars, memory, waiting_write_reqs>>

(* The execute part of SystolicWS::cycle; zero_init is never set.          *)
Enqueue(i) ==
  IF Code(i).opcode = "GEMM"
    THEN compute' = Append(compute, i) /\ UNCHANGED vector
    ELSE vector' = Append(vector, i) /\ UNCHANGED compute

Execute ==
  /\ Handler("execute", "store")
  /\ IF ex # <<>> /\ CanIssueCompute(Head(ex))
       THEN LET i == Head(ex)
                a == Code(i).dest IN
            /\ IF CheckAllocated(a, Target(i))
                 THEN CountUp(a, Target(i))
                 ELSE Prefetch(a, Target(i), Code(i).size, 1)
            /\ Enqueue(i)
            /\ ex' = Tail(ex)
       ELSE UNCHANGED <<ex, pipeVars, sramVars, aborted>>
  /\ UNCHANGED <<clock, tileVars, ld, st, memVars>>

WritesOnce(i) == 1                                     \* slip: counted per instruction
Writes(i) == Code(i).reqs

(* handle_st_inst_queue.  If the data are not there the instruction is     *)
(* lost and the null pointer it leaves is dereferenced in the next cycle.  *)
HandleStore ==
  /\ Handler("store", "issue")
  /\ IF st = <<>>
       THEN UNCHANGED <<st, inst_finished, request_queue, waiting_write_reqs, aborted>>
       ELSE LET i == Head(st) IN
            IF CheckHit(Code(i).dest, Target(i))
              THEN /\ request_queue' = request_queue \o Addressed(i)
                   /\ waiting_write_reqs' = waiting_write_reqs + Writes(i)
                   /\ MarkIfLast(i)
                   /\ st' = Tail(st)
                   /\ UNCHANGED aborted
              ELSE aborted' = TRUE /\ UNCHANGED <<st, inst_finished, request_queue, waiting_write_reqs>>
  /\ UNCHANGED <<clock, issued, tiles, tile_rr, current, half, pos, finished_tiles,
                 ld, ex, pipeVars, sramVars, memory>>

-----------------------------------------------------------------------------
(* Core::cycle looks at the tiles in turn, beginning with the one that     *)
(* issued last, and issues the first instruction that can go.              *)

InTurn(k) == tiles[((k + tile_rr) % Len(tiles)) + 1]
HasInst(t) == pos[t] < Len(Feed[t].code)
NextInst(t) == <<t, pos[t] + 1>>

CanGo(i) ==
  CASE Code(i).opcode = "MOVIN"  -> TRUE
    [] Code(i).opcode = "MOVOUT" -> CheckHit(Code(i).dest, Target(i))
    [] OTHER -> ex = <<>> /\ CanIssueCompute(i)

Goes(t) == HasInst(t) /\ CanGo(NextInst(t))
FirstToGo(k) == Goes(InTurn(k)) /\ \A j \in 0 .. k - 1 : ~Goes(InTurn(j))

(* A load whose place is taken or too small ends the simulation.           *)
LoadFits(i) ==
  ~CheckAllocated(Code(i).dest, Target(i)) /\ CheckRemain(Code(i).dest, Target(i), Code(i).size)

Dispatch(i) ==
  CASE Code(i).opcode = "MOVIN"  -> ld' = Append(ld, i) /\ UNCHANGED <<ex, st>>
    [] Code(i).opcode = "MOVOUT" -> st' = Append(st, i) /\ UNCHANGED <<ld, ex>>
    [] OTHER -> ex' = Append(ex, i) /\ UNCHANGED <<ld, st>>

IssueInst ==
  /\ Handler("issue", "retire")
  /\ \E k \in 0 .. Len(tiles) - 1 :
       /\ FirstToGo(k)
       /\ LET i == NextInst(InTurn(k)) IN
          IF Code(i).opcode = "MOVIN" /\ ~LoadFits(i)
            THEN aborted' = TRUE /\ UNCHANGED <<queueVars, pos, tile_rr>>
            ELSE /\ Dispatch(i)
                 /\ pos' = [pos EXCEPT ![i[1]] = @ + 1]
                 /\ tile_rr' = (k + tile_rr) % Len(tiles)
                 /\ UNCHANGED aborted
  /\ UNCHANGED <<clock, issued, tiles, current, half, inst_finished, finished_tiles,
                 pipeVars, sramVars, memVars>>

NothingToIssue ==
  /\ Handler("issue", "retire")
  /\ \A t \in Tile : (\E j \in 1 .. Len(tiles) : tiles[j] = t) => ~Goes(t)
  /\ UNCHANGED <<clock, tileVars, queueVars, pipeVars, sramVars, memVars, aborted>>

-----------------------------------------------------------------------------
(* The end of Core::cycle: one finished tile leaves.  The test of          *)
(* _core_cycle % 8000, whose own body is commented out, guards it.         *)

IsDone(t) == ~HasInst(t) /\ t \in inst_finished
FirstDone(j) == IsDone(tiles[j]) /\ \A k \in 1 .. j - 1 : ~IsDone(tiles[k])
WithoutFirst(j) == Tail(tiles)                         \* slip: pop_front for erase
Without(j) == SubSeq(tiles, 1, j - 1) \o SubSeq(tiles, j + 1, Len(tiles))
Tick == clock' = (clock + 1) % FinishPeriod

FinishTile ==
  /\ Handler("retire", "idle")
  /\ Tick
  /\ clock' = 0
  /\ \E j \in 1 .. Len(tiles) :
       /\ FirstDone(j)
       /\ finished_tiles' = Append(finished_tiles, tiles[j])
       /\ tiles' = Without(j)
  /\ UNCHANGED <<issued, tile_rr, current, half, pos, inst_finished, queueVars, pipeVars,
                 sramVars, memVars, aborted>>

NoFinishedTile ==
  /\ Handler("retire", "idle")
  /\ Tick
  /\ clock' = 0 => \A j \in 1 .. Len(tiles) : ~IsDone(tiles[j])
  /\ UNCHANGED <<tileVars, queueVars, pipeVars, sramVars, memVars, aborted>>

-----------------------------------------------------------------------------
(* What the simulator and the interconnect do between two cycles.          *)

(* Core::can_issue: double buffering.                                      *)
CanIssueThree == Len(tiles) <= 2                       \* slip: off by one
CanIssue == Len(tiles) < 2

(* Core::issue.  The other tile is the one whose half is not used; with no *)
(* tile or two of them it is taken to work in half 0.                      *)
OtherHalfFixed == [spad |-> 0, acc |-> 0]              \* slip: always the same half
OtherHalf == IF Len(tiles) = 1 THEN half[tiles[1]] ELSE [spad |-> 0, acc |-> 0]
SameOp(t) == Feed[t].accum /\ current = Feed[t].op

HalvesFor(t) ==
  [spad |-> 1 - OtherHalf.spad,
   acc  |-> IF SameOp(t) THEN OtherHalf.acc ELSE 1 - OtherHalf.acc]

FlushesOther(t, b, h) == h # HalvesFor(t)[b]           \* slip: flush before the swap
FlushesAcc(t, b, h) == h = HalvesFor(t)[b] /\ b = "acc" /\ ~SameOp(t)   \* slip: _spad.flush

(* Whether half h of the bank of a is flushed when t is issued.            *)
Flushes(t, b, h) == h = HalvesFor(t)[b] /\ (b = "acc" => ~SameOp(t))

IssueTile ==
  /\ Handler("idle", "compute")
  /\ issued < Len(Feed)
  /\ CanIssue
  /\ LET t == issued + 1 IN
     /\ issued' = t
     /\ half' = [half EXCEPT ![t] = HalvesFor(t)]
     /\ sram' = [a \in Addr |-> [h \in Half |-> IF Flushes(t, Bank(a), h) THEN Absent ELSE sram[a][h]]]
     /\ used' = [b \in {"spad", "acc"} |-> [h \in Half |-> IF Flushes(t, b, h) THEN 0 ELSE used[b][h]]]
     /\ current' = Feed[t].op
     /\ IF Feed[t].skip
          THEN finished_tiles' = Append(finished_tiles, t) /\ UNCHANGED tiles
          ELSE tiles' = Append(tiles, t) /\ UNCHANGED finished_tiles
  /\ UNCHANGED <<clock, tile_rr, pos, inst_finished, queueVars, pipeVars, memVars, aborted>>

(* The scheduler has no tile for the core, or the core has no room.         *)
NoTile ==
  /\ Handler("idle", "compute")
  /\ ~CanIssue \/ issued + 1 \notin Queued
  /\ UNCHANGED <<clock, tileVars, queueVars, pipeVars, sramVars, memVars, aborted>>

PopFinishedTile ==
  /\ BetweenCycles
  /\ finished_tiles # <<>>
  /\ finished_tiles' = Tail(finished_tiles)
  /\ UNCHANGED <<clock, issued, tiles, tile_rr, current, half, pos, inst_finished, queueVars,
                 pipeVars, sramVars, memVars, aborted>>

PopMemoryRequest ==
  /\ BetweenCycles
  /\ request_queue # <<>>
  /\ request_queue' = Tail(request_queue)
  /\ memory' = memory \cup {Head(request_queue)}
  /\ UNCHANGED <<clock, tileVars, queueVars, pipeVars, sramVars, waiting_write_reqs, aborted>>

IsWrite(x) == Code(InstOf(x)).opcode = "MOVOUT"

PushMemoryResponse(x) ==
  /\ BetweenCycles
  /\ x \in memory
  /\ memory' = memory \ {x}
  /\ IF IsWrite(x)
       THEN waiting_write_reqs' = waiting_write_reqs - 1 /\ UNCHANGED <<sramVars, aborted>>
       ELSE Fill(Code(InstOf(x)).dest, Target(InstOf(x))) /\ UNCHANGED waiting_write_reqs
  /\ UNCHANGED <<clock, tileVars, queueVars, pipeVars, request_queue>>

-----------------------------------------------------------------------------

(* _current_layer_id and _current_fused_op_id are not initialised: they can *)
(* have any value before the first tile.                                   *)
Init ==
  /\ phase = "idle" /\ clock = 0
  /\ issued = 0 /\ tiles = <<>> /\ tile_rr = 0
  /\ current \in FusedOp
  /\ half = [t \in Tile |-> [spad |-> 0, acc |-> 0]]
  /\ pos = [t \in Tile |-> 0]
  /\ inst_finished = {} /\ finished_tiles = <<>>
  /\ ld = <<>> /\ ex = <<>> /\ st = <<>>
  /\ compute = <<>> /\ vector = <<>>
  /\ sram = [a \in Addr |-> [h \in Half |-> Absent]]
  /\ used = [b \in {"spad", "acc"} |-> [h \in Half |-> 0]]
  /\ request_queue = <<>> /\ memory = {} /\ waiting_write_reqs = 0
  /\ aborted = FALSE

Cycle ==
  \/ IssueTile \/ NoTile
  \/ ComputeDone \/ ComputeNotDone
  \/ VectorDone \/ VectorNotDone
  \/ HandleLoad \/ Execute \/ HandleStore
  \/ IssueInst \/ NothingToIssue
  \/ FinishTile \/ NoFinishedTile

Response == \E x \in memory : PushMemoryResponse(x)

Next == Cycle \/ PopFinishedTile \/ PopMemoryRequest \/ Response

(* Simulator::cycle calls the core again and again, and visits each of its  *)
(* other ends in every round; an operation takes finitely many cycles, and  *)
(* the memory answers what it was asked.                                    *)
Fairness ==
  /\ WF_vars(Cycle)
  /\ SF_vars(ComputeDone) /\ SF_vars(VectorDone)
  /\ SF_vars(IssueTile) /\ SF_vars(PopFinishedTile)
  /\ SF_vars(PopMemoryRequest) /\ SF_vars(Response)

Spec == Init /\ [][Next]_vars
FairSpec == Spec /\ Fairness

-----------------------------------------------------------------------------
(* What the core relies on, and never checks, in the programs it is given. *)

(* An instruction k is not issued before the result of j is there.          *)
WritesPlace(i) == Code(i).opcode # "MOVOUT"
Needs(k, j) ==
  /\ k[1] = j[1] /\ j[2] < k[2]
  /\ \/ Code(k).opcode \in {"GEMM", "VECTOR"} /\ Code(j).dest \in Code(k).srcs
     \/ Code(k).opcode = "MOVOUT" /\ Code(j).dest = Code(k).dest

(* A load counts as many words as it asks for, and whatever an instruction  *)
(* brings to a place is needed by a later one, or leaves the pipeline before*)
(* the last one does: nothing outlives its tile.                            *)
ProgramsWait ==
  \A j \in Inst :
    /\ Code(j).opcode = "MOVIN" => Code(j).reqs = Code(j).size
    /\ WritesPlace(j) /\ ~IsLast(j) =>
         \/ \E k \in Inst : Needs(k, j)
         \/ /\ Code(j).opcode # "MOVIN"
            /\ \A k \in Inst : k[1] = j[1] /\ IsLast(k) => Code(k).opcode = Code(j).opcode

(* Loads go to places of the scratchpad, each to one of its own that nothing *)
(* wrote before, and the places of a tile fit together, each with the room  *)
(* allotted to it.  The accumulator holds results of several tiles: a place *)
(* has the same room in all of them.                                        *)
ProgramsFit(room) ==
  /\ room \in [Tile -> [Addr -> Nat]]
  /\ \A i \in Inst : WritesPlace(i) => Code(i).size <= room[i[1]][Code(i).dest]
  /\ \A i \in Inst : Code(i).opcode = "MOVIN" =>
       /\ Code(i).dest \in SpadAddr
       /\ \A j \in Inst : j[1] = i[1] /\ j[2] < i[2] /\ WritesPlace(j) => Code(j).dest # Code(i).dest
  /\ \A t \in Tile, b \in {"spad", "acc"} :
       MapThenSumSet(LAMBDA a : room[t][a], {a \in Addr : Bank(a) = b}) <= Capacity(b)
  /\ \A t, u \in Tile, a \in AccAddr : room[t][a] = room[u][a]

-----------------------------------------------------------------------------
(* Properties.                                                             *)

Elements(s) == {s[j] : j \in 1 .. Len(s)}
QueueType == Seq(Inst)

(* Every variable holds a value of its C++ type; no queue holds garbage.    *)
TypeOK ==
  /\ phase \in {"idle", "compute", "vector", "load", "execute", "store", "issue", "retire"}
  /\ clock \in 0 .. FinishPeriod - 1
  /\ issued \in 0 .. Len(Feed)
  /\ tiles \in Seq(Tile) /\ Len(tiles) <= 2
  /\ tile_rr \in {0, 1}
  /\ current \in FusedOp
  /\ half \in [Tile -> [spad : Half, acc : Half]]
  /\ pos \in [Tile -> Nat] /\ \A t \in Tile : pos[t] <= Len(Feed[t].code)
  /\ inst_finished \subseteq Tile /\ finished_tiles \in Seq(Tile)
  /\ ld \in QueueType /\ ex \in QueueType /\ st \in QueueType
  /\ compute \in QueueType /\ vector \in QueueType
  /\ sram \in [Addr -> [Half -> Entry \cup {Absent}]]
  /\ used \in [{"spad", "acc"} -> [Half -> Nat]]
  /\ request_queue \in Seq(Access) /\ memory \subseteq Access
  /\ waiting_write_reqs \in Int
  /\ aborted \in BOOLEAN

(* No assertion of Sram or Core fails, no load finds its place taken or too *)
(* small (exit), and no store dereferences the null pointer a failed store  *)
(* would leave in the queue.                                                *)
NoAbort == ~aborted

(* The loads, and the computations, that will still be written to place a   *)
(* in half h.                                                               *)
LoadsTo(a, h) ==
  {x \in Elements(request_queue) \cup memory :
     ~IsWrite(x) /\ Code(InstOf(x)).dest = a /\ Target(InstOf(x)) = h}
ComputedTo(a, h) ==
  {i \in Elements(compute) \cup Elements(vector) : Code(i).dest = a /\ Target(i) = h}

(* remain_req_count of a place is the number of loads and computations that *)
(* are on their way to it, a place is valid exactly when there are none,    *)
(* and nothing is on its way to a place that is not allocated: the counts   *)
(* that prefetch, count_up and fill keep in four different handlers, with   *)
(* two tiles and an accumulator half they may share, never drift.           *)
RemainCounts ==
  \A a \in Addr, h \in Half :
    LET n == Cardinality(LoadsTo(a, h)) + Cardinality(ComputedTo(a, h)) IN
    /\ sram[a][h].remain = n
    /\ CheckAllocated(a, h) => (sram[a][h].valid <=> n = 0)

(* The load, execute and store queues hold one instruction between them, it *)
(* is gone when Core::cycle issues the next one, and the condition under    *)
(* which it was issued, read a cycle earlier, still holds when its handler  *)
(* runs: handle_st_inst_queue never loses an instruction.                   *)
QueuedStillReady ==
  /\ Len(ld) + Len(ex) + Len(st) <= 1
  /\ phase \in {"execute", "store", "issue"} => ld = <<>>
  /\ phase \in {"store", "issue"} => ex = <<>>
  /\ phase = "issue" => st = <<>>
  /\ ld # <<>> => LoadFits(Head(ld))
  /\ ex # <<>> => CanIssueCompute(Head(ex))
  /\ st # <<>> => CheckHit(Code(Head(st)).dest, Target(Head(st)))

(* The tiles that run never share a scratchpad half, and share an           *)
(* accumulator half only if the younger one accumulates onto the same op:   *)
(* a tile is never flushed by the tile that is issued beside it.            *)
HalvesApart ==
  Len(tiles) = 2 =>
    LET t == tiles[1]
        u == tiles[2] IN
    /\ half[t].spad # half[u].spad
    /\ half[t].acc = half[u].acc => Feed[u].accum

(* The stores whose answer is outstanding are the ones Core::running counts.*)
WritesCounted ==
  waiting_write_reqs = Cardinality({x \in Elements(request_queue) \cup memory : IsWrite(x)})

(* _current_size of a half is the room its allocated places take: what      *)
(* check_remain decides on.                                                 *)
RoomCounted ==
  \A b \in {"spad", "acc"}, h \in Half :
    /\ used[b][h] = MapThenSumSet(LAMBDA a : sram[a][h].size, {a \in Addr : Bank(a) = b})
    /\ used[b][h] <= Capacity(b)

(* Flushing a half for a new tile destroys no place that something is on    *)
(* its way to: whatever a tile loaded or computed arrived before its half   *)
(* is given to another tile.                                                *)
FlushHitsNothing ==
  [][\A a \in Addr, h \in Half :
       (CheckAllocated(a, h) /\ sram'[a][h] = Absent) =>
         LoadsTo(a, h) = {} /\ ComputedTo(a, h) = {}]_vars

(* A store leaves only after everything of its tile that writes the stored  *)
(* place has been written.                                                  *)
Unwritten(i) ==
  {j \in Inst : j[1] = i[1] /\ j[2] < i[2] /\ Code(j).dest = Code(i).dest /\ Code(j).opcode # "MOVOUT"} \cap
  (Elements(ld) \cup Elements(ex) \cup Elements(compute) \cup Elements(vector) \cup
   {InstOf(x) : x \in Elements(request_queue) \cup memory})
StoreSeesResults ==
  [][\A i \in Elements(st) : (i \notin Elements(st')) => Unwritten(i) = {}]_vars

(* Core::running.                                                          *)
CoreRunning ==
  \/ tiles # <<>> \/ compute # <<>> \/ vector # <<>> \/ waiting_write_reqs # 0
  \/ ld # <<>> \/ st # <<>> \/ ex # <<>>

(* Every tile of the feed is taken, works to its end and is handed back,    *)
(* and the core comes to rest.                                              *)
ComesToRest == <>[](issued = Len(Feed) /\ finished_tiles = <<>> /\ ~CoreRunning)

(* The core keeps its promise to the scheduler.                             *)
Slots == INSTANCE TileSlots WITH
  Tile     <- Tile,
  Skipped  <- {t \in Tile : Feed[t].skip},
  Slots    <- 2,
  running  <- Elements(tiles),
  finished <- finished_tiles,
  returned <- {t \in 1 .. issued : t \notin Elements(tiles) \cup Elements(finished_tiles)}

KeepsSlots == Slots!SlotsSpec
=============================================================================
