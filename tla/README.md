# ONNXim in TLA+

ONNXim is a cycle-level simulator of multi-core NPUs, written in C++. A neural network becomes a graph of operations, an
operation becomes *tiles*, a tile becomes a program of loads, computations and stores, and the simulator runs these
programs on cores with double-buffered scratchpads that share a memory. This directory holds TLA+ models of its parts,
the TLC configurations that check them, and proofs that TLAPS checks.

Paths are relative to the repository. `PROJECT.json` names, for every definition, the lines it stands for, and for
every property a mutation of the modelled code that the property must notice.

## 1. The system

| Part | Code | State | Operations |
|---|---|---|---|
| Models and their graph | `src/src/Model.cc`, `operations/Operation.cc`, `Tensor.cc` | finished operations, executable layers, rounds of a regressive model | `update_model`, `set_layer_finish`, `check_finish`, `check_regressive`, `prepare_regressive` |
| Tile scheduler | `src/src/scheduler/Scheduler.cc` | request queue, tile queue per partition and per core, counters of active layers, load of the cores and a heap over it | `schedule_model`, `get_tile`, `issue_tile_per_core`, `finish_tile`, `refresh_status`; overridden by DedicatedCPU, TimeMultiplex, HalfSplit |
| Tile generation | `src/src/Mapping.cc`, `operations/*.cc` | the mapping of an operation; its tiles | `gemm_mapping`, `calc_conv_mapping`, `calculate_loops`, `initialize_tiles`, `initialize_instructions` |
| Core | `src/src/Core.cc`, `SystolicWS.cc` | two tiles, load/execute/store queues, compute and vector pipelines, request queue | `issue`, `cycle` and its handlers, `push_memory_response`, `pop_finished_tile` |
| Scratchpads | `src/src/Sram.cc` | the places of two halves: size, validity, outstanding answers | `prefetch`, `fill`, `count_up`, `flush`, checks |
| L2 bank | `src/src/Cache.cc` | lines, pseudo-LRU trees, pending slots, four queues | `push_request`, `cycle`, `push_memory_response`, pops |
| Interconnect | `src/src/Interconnect.cc` | a queue per pair of nodes, round robin per destination | `push`, `cycle`, `pop` |
| DRAM | `src/src/Dram.cc` | requests of each channel | external simulators behind `push`, `cycle`, `pop` |
| Simulator | `src/src/Simulator.cc` | clocks, heap of waiting models, queue of language models | `cycle`, `handle_model`, `running` |
| Language schedulers | `src/src/scheduler/LanguageScheduler.cc`, `IterLevelScheduler.cc` | requests of the trace, active requests, requests of each inference | `cycle`, `finish_model`, `can_schedule_model`, `init_inputs_and_model` |
| Language model | `src/src/models/LanguageModel.cc` | the graph of one inference for a batch | `generate_model`, `initialize_model`, `initialize_weight` |

How they interact: `Simulator::cycle` is one loop on one thread. In a core cycle it hands due models to the scheduler
and visits each core: it takes a finished tile and reports it, asks the scheduler for a tile if the core has room, and
calls the core. In an interconnect cycle it moves accesses between cores, interconnect (or L2) and DRAM, in a DRAM
cycle it lets the DRAM work. The three clocks have different periods, so that from the outside the parts take their
steps in any order. A language scheduler makes one model after the other, the tile scheduler takes the executable
operations out of its graph, and the language scheduler is told by the tile scheduler when the model ends.

Which behaviour is hard: there are no threads, but there is everything that a distributed system has. Two tiles share
a core and its scratchpads, their loads are answered in any order, two pipelines finish at different times, and a tile
ends when its last instruction does. A scheduler counts in one place what cores do in another. An L2 bank matches
answers to slots that are freed and reused. Failure is not modelled by the code: it asserts and exits. So the hazards
(listed with their lines in `PROJECT.json`) are orders of events, counters at their limits, state that is stale when
it is used, and waiting for ever.

What makes each part correct:

- scheduler: each operation runs once a round and after its inputs; counters tell what became of the tiles; barriers
  hold; everything is served.
- tile generation: a tile fits into the scratchpad it is made for, its program can run to the end, and the tiles
  together are the operation.
- core: what is allocated is not flushed before it has arrived; the counts of a place are right; stores see the results
  they store; every tile is handed back, and the core comes to rest.
- L2 and memory path: each request is answered once, to the core that asked, whatever the order of completion.
- language mode: each request is given its tokens, in order, within the limits of a batch, and each inference is
  executed operation by operation on operands of the right shape.

## 2. The modules

```
TokenService    <---implements---  LanguageScheduler  <---implements and extends---  LanguageInference --extends--> LanguageModel
                                     | what it assumes of a tile scheduler
GraphExecution  <---implements---  SimpleScheduler, SharedSchedulers  --extend-->  TileDispatch
                                     | what it assumes of a core
TileSlots       <---implements---  NpuCore
                                     | what it assumes of the memory, and of tiles
MemoryService   <---implements---  L2Cache,  MemoryPath

LayerTiles  --extends-->  ConvMapping  --extends-->  TilePrograms  --extends-->  GemmMapping
    \--instantiates-->  GemmTiles, ConvTiles, AttentionTiles, SelfAttentionTiles, MambaTiles, RowTiles
```

The four modules on the left are abstract: they say what a part promises to the next one. `MC*` modules give the
constants their values. `*Proofs` modules hold theorems: `TileDispatchProofs` what both `SimpleSchedulerProofs` and
`SharedSchedulersProofs` use, and one module each for `NpuCore`, `L2Cache`, `MemoryPath`, for the language mode
(`LanguageProofs`) and for the mappings (`LayerTilesProofs`).

**TileDispatch, SimpleScheduler** (`Scheduler.cc`, the part of `Simulator::cycle` that drives it). The deques of tiles
are represented by the place of each tile (`tile[t]`: in the partition's queue, in a core's queue, running, finished,
done) and its core; inside a layer tiles keep the order of their index, and here queues never mix layers. `load` and
`heap` are `_tile_num`/`_ins_num` and the priority queue over them. `load` has cells beyond the number of cores because
`issue_tile_per_core` indexes with `core_id + offset`; what is read there is undefined in C++ and is any member of
`Stray`. The phases `models`, `finish`, `get`, `run` and the variable `turn` are the positions in the simulator's loop.
`refresh_status` is called at the end of several handlers and is therefore an operator that these actions use, not an
action. The three lengths of a regressive model (`Model::initialize_model`, `update_model`, `check_regressive`) are kept
as 32-bit numbers do, except that they wrap at `AxisLimit`.

**SharedSchedulers** (`Scheduler.cc` 343-655) are the three other schedulers, chosen by `policy`. Several layers may be
active here, so that the queue of a core holds tiles of several of them, in the order (`order`) in which the layers
started. `refresh_status` walks over all requests and then over the cores or the requests again, starting what may
start: it is cut into the steps `DropFinished` and `Start...`, one for each round of its loops, which the phases force
to follow each handler that calls it. A tile that `HalfSplit` drops is `lost`.

**GraphExecution**: layers start when their producers have finished, once a round.

**NpuCore** (`Core.cc`, `SystolicWS.cc`, `Sram.cc`). `SystolicWS::cycle` is one call; each of its handlers is an
action and `phase` forces their order. Pipelines are FIFOs whose head may be ready in any cycle: the latencies are
numbers from a configuration and no property depends on them. The memory answers in any order. A place in a scratchpad
is a model value with a size, a validity bit and `remain_req_count`. An assertion or `exit` sets `aborted`. What the
core relies on in the programs it is given, and never checks, is written down as `ProgramsWait` and `ProgramsFit`:
whatever a program starts is needed by one of its later instructions or leaves the pipeline before the last one does;
loads go to places of their own, and the places of a tile fit into a half. `MCNpuCore` assumes of each feed that it
satisfies both, but for the one of `core_fill`, which must not.

**TileSlots**: a core has room for two tiles, works on them in any order and hands each back once.

**L2Cache** (`Cache.cc`). A call of `cycle()` is cut into its loop iterations (`issue`, `accept`, `coalesce`). The wrong
pool for the memory of a writeback (`Cache.cc:230`) is undefined behaviour and is a nondeterministic abort.

**MemoryPath** (ICNT part of `Simulator::cycle`, `SimpleInterconnect`), with a DRAM that may be full and answers in any
order. **MemoryService**: what was asked is answered once and eventually.

**LanguageScheduler** (both policies). **TokenService**: requests are started in order and given their tokens.

**LanguageModel** (`LanguageModel.cc`, and the shape inference of `Gemm.cc`, `Attention.cc`, `KVCacheConcat.cc` and the
operations on rows that it uses) is the graph of an inference as pure operators: the operations in the order of their
ids, where each of their operands comes from, and the shape each of them takes and makes, for any batch and any of the
transformers given. The shapes are the solution of a recursive function over the tensors an inference makes.
**LanguageInference** composes it with the language scheduler: `Handle` generates, initialises and
schedules a model, `FinishLayer` is the end of the last tile of an operation, which queues the operations that have
become executable and in the end reports the model, `StartAnother` is what the schedulers do that have several
operations at a time. It shows that the scheduler's assumption, models finish, comes from the graph.

**GemmMapping** is the arithmetic of `gemm_mapping` as pure operators. **ConvMapping** is the search of
`calc_conv_mapping`: an action for each round of its loops, first shrinking every size until a tile fits, then growing
one size after the other while it still does. **TilePrograms** says what a program of a tile is - a sequence of
instructions with their places, sizes, operands and DRAM requests - and what the core asks of it: `FitsCore`,
`RunsOnCore`. **GemmTiles**, **ConvTiles**, **AttentionTiles** (language models), **SelfAttentionTiles** (ONNX graphs),
**MambaTiles** and **RowTiles** (SkipLayerNorm, BiasGelu, BiasAct, Softmax, BinaryOp, UnaryOp, ShapeOp) give, for one
kind of operation each, the bounds of the loops of `initialize_tiles`, the program made in one iteration, and the
tensors and products that the operation is. **LayerTiles** runs search and loops for any operation, a tile a step.

## 3. What is checked

Twelve runs; nine of them pass and three show what section 5 describes; each property of a passing run is broken by a
mutation of the code.

| Run | Instance | Shows |
|---|---|---|
| `simple_graph` | 3 cores; 3 models simulated in pairs: a graph with joins, a double edge and skipped tiles; a layer with two barriers (one at the end) and a second round; a layer without tiles behind another | counters, one layer of the oldest request, load accounting for anything read past the end of the vectors, implements GraphExecution, everything is served that does not wait for the layer without tiles |
| `simple_barrier_early` | 2 cores, one tile in front of a barrier | *violation*: the barrier opens early |
| `shared` | 3 cores in 2 partitions, 2 models (parallel layers and a join; two barriers and rounds in which a length wraps), each of the three policies | counters, implements GraphExecution, every model is served unless HalfSplit loses one of its tiles |
| `core_chain` | GEMM of three outputs, two tiles each, second one accumulates | no abort, halves apart, no flush of what is under way |
| `core_vector` | attention-like tile with two GEMMs into one place and a vector operation, a skipped tile, a plain one | counts of places and of room, nothing queued becomes stale, stores see results, implements TileSlots, comes to rest |
| `core_fill` | tiles that load a bias and end in a GEMM | *violation*: the answer to the bias finds its place flushed |
| `l2_serve` | 3 loads of overlapping objects and a large object, 4 slots, miss queue of 1, 2 ways | slots consistent, room for a miss, blocks counted, implements MemoryService but for the large object |
| `l2_evict` | stores that evict each other and a large object in one set | each request waits once, one copy of a block |
| `l2_writeback` | as `l2_evict` | *violation*: a writeback completes slot 0 |
| `language` | 5 requests, both policies, batches of 1, 2, unlimited, and too little memory; models of 2 layers, 5 transformers (plain, grouped keys, on two devices); every tile scheduler for batches of 2 | one inference, batch limits, order, tokens; executable operations are queued once, operands have the shapes their operation takes, caches within their length; the graph implements what the language scheduler assumes |
| `memory_path` | 2 cores, 4 requests, 1 channel | everything under way is at one place and at the right node, implements MemoryService |
| `layer_tiles` | 201 operations: products, convolutions, both attentions, operations on rows, Mamba blocks, on a 4x4 array, one with elements of two bytes, and one wider than its scratchpad | the search ends and stays in range; tiles fit (but those of a long BinaryOp), run, and together are the operation, inside of its tensors but where section 5 says |

Bounds and why they are enough. Three cores make a partition of two, so that a barrier is found by a core that is not
the first, next to a partition of one; in `simple_graph` they make a core that is neither the first nor the last. Two
tiles are the room of a core by its code, and feeds of three to five tiles make each half and each
accumulator half be reused. Two ways and four slots make every slot and way be reused while others are in use.
Models come in pairs (`Workloads`): a request can overtake or be held up by one other, and nothing in a scheduler counts
its requests. `AxisLimit` is 4 instead of 2^32, above the lengths used and low enough that the one that starts beyond
its target wraps within the run. The language trace holds each special case once: a cached prefix, a target of zero, a
batch that is full; two layers of a model are the first one and one that follows another. The shapes of `layer_tiles` lie on both sides of each threshold of
the mappings: thinner than the array, exactly one block, uneven, as large as the scratchpad allows, and deeper; strides,
padding, windows wider than the image; rows shorter and longer than a request; second operands and outputs shorter than
the first operand, as long, and longer. Bounds of the counters come from these
inputs; nothing is cut by a constraint.

Deadlock. `core_fill`, `l2_evict` and `l2_writeback` switch the check off: in the first the model stops when the
process aborts, in the other two when the wrong pool deletes and when a large object waits for blocks nobody asks for.
The other models stop only where the simulator does, and say so with an explicit stuttering action; a core and a bank
that have nothing to do keep cycling.

Fairness. The loop of the simulator never pauses while `running()` holds, so its own steps are weakly fair. Strong
fairness is assumed only of what is enabled again and again and interrupted by the clock: the arrival of a model's
request time, the end of an operation in a pipeline, an answer of the memory, and the visits of `Simulator::cycle` to
the ends of a core or a bank. `SimpleScheduler` takes from the core that it finishes each tile, which `ComesToRest` of
NpuCore shows of a core; NpuCore takes from the memory that it answers, which `ServesMemory` shows of the memory path
and of the L2; `LanguageScheduler` takes from the tile scheduler that models finish, which `RunsEveryInference` reduces
to the end of each operation that was started, and that is `AllServed`; under `HalfSplit`, which loses tiles, the end of
an operation is not fair. The search for the mapping of a convolution is a loop and is weakly fair. Apart from the
language mode these steps fit together by their statements only: there is no joint model.

## 4. What is proved

For every value of the constants:

- `SimpleSchedulerProofs`: `CountersAreRight` (LayerAccounting), `OneLayerOfOldestRequest` (OldestRequestOnly),
  `ImplementsGraphExecution` (ExecutesGraph) and `LoadIsRight` (LoadIsWhatWasIssued), for any cores, partitions, graphs,
  tiles and rounds; the last one if no model that is repeated starts from a prompt of a single token
  (`PromptsAreLonger`).
- `SharedSchedulersProofs`: `CountersAreRight` (LayerAccounting) and `ImplementsGraphExecution` (ExecutesGraph), for each
  of the three policies and anything as above.
- `NpuCoreProofs`, for any feed of tiles, scratchpad sizes, depth of the array and period: `TypeCorrect` (TypeOK),
  `QueuesStayReady` (QueuedStillReady), `TilesKeepApart` (HalvesApart), `StoresAreCounted` (WritesCounted), `RoomIsCounted`
  (RoomCounted) and `CoreImplementsSlots` (the safety half of KeepsSlots). For programs that wait for what they start
  (`ProgramsWait`): `PlacesAreCounted` (RemainCounts, until an assertion fails), `FlushesAreSafe` (FlushHitsNothing) and
  `StoresComeLast` (StoreSeesResults). For those that also fit (`ProgramsFit`): `NothingAborts` (NoAbort) and
  `CountsNeverDrift` (RemainCounts without exception).
- `L2CacheProofs`: `SlotsAgree` (SlotsConsistent), `MissesFindASlot` (SlotLeftForMiss), `BlocksHaveOneCopy` (OneCopy),
  `RequestsWaitOnce` (WaitsOnce) and `BankServesSafely` (the safety half of MemoryService), for any requests, objects,
  sets, ways, number of slots, limits of the queues and order of the answers. For workloads without stores
  (`Writes = {}`): `BlocksAreCounted` (BlocksCounted).
- `MemoryPathProofs`: `PathIsRight` (OnItsWay) and `ServesMemorySafely` (the safety half of ServesMemory), for any cores,
  ports, channels and latency.
- `LanguageProofs`: `InferencesAreDisjoint` (OneInference), `BatchesAreBounded` (BatchBounded), `OldestRequestsFirst`
  (OldestFirst) and `ServesTokensSafely` (the safety half of ServesTokens), for any trace, policy and batch size;
  `InferenceImplementsScheduler` (LanguageInference implements LanguageScheduler), `ReadyOperationsAreQueued`
  (ReadyIsQueued), `CachesStayWithinTarget` (CacheWithinTarget) and `OperandsFitTheirOperation` (ShapesAgree), for any
  number of layers, devices and any sizes of the transformer as well.
- `LayerTilesProofs`: `SearchStaysInRange` (ArgsInRange), for any convolution and core for which a tile of one element
  of each kind fits (`UnitTileFits`); `MappingCovers`: the tiles of each loop of `gemm_mapping` cover it, each element in
  one tile and no tile without one, for any product, array, sizes of the scratchpads and number of cores. `TilesRun`
  (TileRuns): the program of every tile of every operation, product, convolution, attention of either kind, Mamba block
  or operation on rows and elements, can be run to its end, for any shape, core and mapping, where there is room for a
  tile (`HasRoom`) and the weights of a convolution do not start at the place of its input (`WeightsApart`).

Assumptions on the constants are the named ones of the modules: `DispatchAssumption`, `GraphAssumption` (a layer belongs
to one model and feeds only that model), `CoreAssumption` (each half has finitely many places), `CacheAssumption` (a
cycle takes no more requests than the head room), `PathAssumption`, `LanguageAssumption` and `LayerAssumption`; TLC
evaluates them in the runs. So it does with the hypotheses that single theorems state: `PromptsAreLonger` in
`MCSimpleScheduler`, `ProgramsWait` and `ProgramsFit` in `MCNpuCore`; `Writes = {}` is the workload of `l2_serve`. The
core's two are what the code does without and its generators mostly provide: the finding of `core_fill` is a program
that does not wait, and the program too large for its half in section 5 is one that does not fit. The L2's is needed
as well: with stores lines are written back, and the answer to a writeback counts for slot 0 (`l2_writeback`).
`HasRoom` and `WeightsApart` of `LayerTilesProofs` are conditions on the operation: given to `layer_tiles` as invariants
of the states in which tiles are made, they hold of all its 201 operations. No code checks them, and the tiles rest on
them: that a head of an attention with one query, a row beside its other operand and
one element of a convolution fit, since `calculate_loops` would otherwise make tiles of no rows; that the padding of a
convolution is less than half of its window and its steps not beyond it, since a tile whose windows see nothing of the
image loads no input and multiplies with it; and that a block of weights, and the input in front of the first one, take
a DRAM request at least, since places are rounded down to requests and two of them would be one.

*Scheduler.* LayerAccounting is not inductive: a layer that starts with tiles left over from an earlier start would be
counted wrongly. The invariant `Inv` adds that at most one layer is active and it is one of the oldest request and not
finished (`Oldest`), that a model is registered or requested, never both or twice (`Queued`), that the executable
layers of a request are distinct, new and have their inputs (`Ready`), and that what has started had its inputs and
a registered model is between two rounds (`Closed`). It is a predicate of values and not of the state, since every
handler ends in RefreshStatus with values it has changed: each action shows Inv of what it passes on, and one lemma,
`RefreshKeepsInv`, carries it through RefreshStatus. The refinement uses the same lemma to show that a step is a start,
a finish, a reload or a stutter of GraphExecution. LoadIsWhatWasIssued speaks of the time before a model comes back
and a barrier is passed, and needs to know that in this time no tile is at a core of which the layer was not started
(`FirstRound`), so that the tiles of a layer that starts are added to the load and not counted already. It would be
false if that time came back: the length of a model that is repeated is set to one, and one whose prompt is
a single token has its first lengths again when the counter has wrapped, after 2^32 rounds.

*Shared schedulers.* Several layers are active at once and tiles of several of them are at a core, so that at most one
active layer is replaced by: each active layer belongs to a request that is in the queue and is not finished (`Owned`).
With `Queued`, `Ready` and `Closed` as above these are `Books`. Tiles that HalfSplit throws away stay among the
remaining tiles of their layer. The other half of the invariant, `InTurn`, says that the walk of `refresh_status` over
the requests never stands beyond the last of them, also after one was dropped. The refinement needs both: a layer is
started when its inputs are there, by whichever step of the walk.

*Core.* QueuedStillReady needs that at most one instruction waits in the three queues and that the handlers run in
order (`OneWaits`), that the waiting one is the newest of a tile that still runs (`WaitersRun`), that whatever is in a
pipeline is older (`PipeOlder`), and that a finished tile has nothing left to issue (`DoneTiles`): therefore no flush
can come between issue and handling, since only the halves of tiles that do not run are flushed (`TilesApart`).
WritesCounted needs that every access is asked for once, after its instruction left its queue (`AskedOnce`): otherwise
an answer could take one from the set and leave another. The refinement of TileSlots adds that a tile is running,
finished or handed back, and finished once (`FinishedApart`). RoomCounted is inductive, but a sum; it is proved as the
number of cells below the sizes (`Cells`), of which a place adds or removes a column.

The rest is about what is under way: the loads that are not answered and the computations in the pipelines. `Live` says
that it is what the places wait for (RemainCounts), that it belongs to tiles that run and have not executed their last
instruction (`TilesWork`), that no instruction that needs one of its results was issued (`Awaited`), and that the
pipelines keep the order of the program (`PipesSorted`). TilesWork is where the program comes in: an instruction goes
only when the places it reads are valid, and valid places wait for nothing, so that when the last one of a tile is
done whatever else its program started has arrived too - if something waits for it (`LastOfAll`). Without ProgramsWait
this is false, and so are the theorems: `core_fill`. A new tile flushes only halves that no running tile has, so it hits
nothing under way; an answer then finds its place allocated and waiting (`FillDue`). What is left of NoAbort is room.
`Fits` says that a running tile has in its scratchpad half only places its own program wrote, none larger than the room
allotted to it, and the same of the accumulator for all tiles together, since a tile that accumulates takes over a half
that is not flushed. So a place that is not there yet has its room left (`RoomLeft`), and a load finds its place free.

*L2.* SlotsConsistent speaks of the slots alone, but an answer of the memory picks a slot by its id. `CacheInv` adds that
the free and the active slots together are all of them, that a slot has issued no more than its object has, that
whatever is in the memory names a slot, that `_wb_q` holds writebacks only, and `SlotLeftForMiss`, which the step that
takes a miss needs in order to find a slot. SlotLeftForMiss in turn needs the sum of free and active slots, since
`cycle()` looks at the second and takes from the first. `Pool` and `Queues` are the parts of CacheInv that most actions
leave alone. OneCopy needs `TagInv`: beside it, that the trees have a bit for each node, that `_wb_q` holds the blocks of
evicted lines, and that what comes from the memory is a block. That the way it takes is one is a fact about `lru_way`: whatever the bits of a tree
are, following them from the root ends at a leaf whose path agrees with them, and only one does (`LruWayIsAWay`, level
by level). WaitsOnce needs more than that no request is twice in a queue: the input, the output and the waiting lists of
the slots are apart, a slot on the free list has nobody waiting, and whoever was answered is nowhere (`Once`). The
refinement of MemoryService follows: what is answered was in the output queue, hence asked and not answered.
BlocksCounted needs, for each slot, what it knows when n of its requests are on their way (`Balanced`): none for a free
slot, as many as were issued and not returned for a small object, and one in all, sent or returned, for a large one.
An answer is on its way before it comes, so its slot is not free (`ResponseCount`); an object that is complete had this
one left and has no more to send (`BalanceReturned`), so its slot is freed with nothing on its way. Without stores no
line gets dirty and nothing is written back (`NoStores`). The counts are cardinalities: of positions in the queue, and
of the copies in the bag of the memory, of which `(+)` and `(-)` add and take one (`CopyAdded`, `CopyTaken`).

*Memory path.* `PathInv` says of every queue what AtTheRightNode says of its end: whatever is under way to a node, from
any other, belongs to that node (`Towards`), and so does all that is in its buffers (`Bound`) and in the DRAM behind it
(`Hashed`). `EachAtOnePlace` says that whatever was asked and not answered is at exactly one place, named by its queue
and its position there. A cycle of the interconnect is split in two: every port sends at most one access into
a buffer (`Sending`), then every node takes one from the buffer it granted (`Granting`). For each of them a map says
where the access at a place went (`Came`, `Went`); two at one place afterwards would have been two before, and none is
lost. That a node grants one source only is a fact about the round robin (`GrantedOne`).

*Language mode.* OneInference, BatchBounded and OldestFirst are inductive together: the first ties the marks of
the active requests to the requests of the inference, so that what a policy selects by its marks is apart from what
runs, and with the third it is the oldest of the rest. The token service adds `Contexts`: how long the context of a
request is tells how many tokens it was given. An inference executed operation by operation is a step of the
scheduler when its last operation ends and a stutter before; that the whole batch is in the simulator until then is
`GraphInv`: the operations whose inputs are done are exactly those that are queued, started or done, and each is in one
of these places (`Placed`). The children that FinishLayer visits are those that take the result (`ChildrenTake`). The shapes are defined by
recursion over tensors; `SolutionExists` gives a solution explicitly, `SolutionKnown` shows that any
solution has its values, since the first layer where they differ would have inputs that agree; ShapesAgree is then
arithmetic on the known shapes.

*Mappings.* `TilesCoverLoop` is the arithmetic of a loop of `CeilDiv(n, k)` tiles of `k` elements. To use it, each
tile length must be positive. The side of a block is an integer square root, the `r` with `r * r <= a < (r+1) * (r+1)`.
The search keeps each size between one and that of the convolution because a size of one is not shrunk
and one that is at its end not grown (`SearchInv`); its result fits because the shrinking stops only when the tile does.

*Tiles.* RunsOnCore says of a program that its loads go to places of their own, that whatever is read is there, and
that only results are stored. `RunsAfter` says it of a part of a program, given the places that the parts before take
(`PlacesOf`), and two parts that run one after the other make one that runs. What is left is to show, for each kind of
operation, that its parts run. Loads do when their places differ: the places of a product and of an attention
are sums of block sizes, those of a Mamba block are partial sums that grow (`Start`), and the weights of a
convolution are a whole block, which is at least a request, apart. Parts that load nothing (`QuietRuns`) run wherever
what they read is there, so that the order among them does not matter; a loop of such parts is a `Joined`, of
which one shows that the first part that does not run cannot exist. Every load reads something since no piece of a loop is
empty, and that is where the invariant is needed: a tile starts inside of each of its loops. `TilesInv` therefore adds
to the invariant of the search that the counters of the loops stay below their bounds but for the outermost
(`Counting`), which `NextTile` keeps because an innermost counter that can advance exists, and that the mapping,
once found, is the one that the bounds come from (`FinalMapping`). For a convolution the windows of every tile must
also reach the image beside its padding (`WindowReaches`). TilesInv holds as an invariant of
`layer_tiles` too.

Induction over data is out of the prover's reach as a rule of its own, and takes two forms that are not: the least
element of a set of numbers that is not empty, or a smallest subset of a finite set (`LeastNumber`, `Least`,
`LeastSubset`), for square roots, the walk of a tree, sums and layers; and an explicit witness for a recursive function
of which it is shown that it solves the equation and that nothing else does.

Only model-checked:

- liveness, which is out of the prover's reach: `AllServed`, `ComesToRest`, `RunsEveryInference`, `SearchEnds`, and the
  liveness halves of `KeepsSlots`, `ServesMemory` and `ServesTokens`;
- `TileFits`, which is not true of every product (section 5), and needs requests no larger than a row of the array;
- `ComputesOperation`, a statement about sums and unions over all tiles of an operation, of which each kind would need
  an induction of its own.

## 5. Where the code differs from what it says

- `simple_barrier_early`: a barrier opens when `launched_tiles == finished_tiles` (`Scheduler.cc:209`), which is true
  also before anything in front of it has left its core queue; `scheuler.txt:411` says the tiles behind wait.
- `core_fill`: a tile is finished with its last instruction, although a bias may still be loading into the place of a
  GEMM that does not wait for it; the half is flushed and the answer trips the assertion of `Sram.cc:91`.
- `l2_writeback`: a writeback carries id 0, a valid slot; its completion is counted for what slot 0 fetches, contrary to
  the comment at `Cache.cc:228`.

More that no run shows by itself, because no sentence of the repository says what is expected. Where a passing run
touches one of these, its property names the case as an exception or its instance leaves it out:

- A layer without tiles is active for ever, and so is its request (`Scheduler.cc:312`): `AllServed` of
  SimpleScheduler excepts the requests that wait for one (`HeldUp`).
- `HalfSplit` drops barriers (`Scheduler.cc:561`, `Simulator.cc:152`) and destroys the waiting tiles of a layer when
  another layer of the same request finishes (`Scheduler.cc:587`), after which the request never ends: `AllServed` of
  SharedSchedulers names the case.
- DedicatedCPU, TimeMultiplex and HalfSplit do not report the end of a language model (`Scheduler.cc:475`): the second
  inference never comes (`Unreported` in `ServesTokens`).
- `check_regressive` compares for equality (`Model.cc:284`): a model whose length starts beyond `output_seq_len`, or
  that has none, goes on until the number wraps; the second model of `shared` does.
- A large object of the L2 is issued by one request and waits for as many answers as it has blocks (`Cache.cc:332`;
  `:346` announces a completion in cycle() that is not there): `ServesMemory` excepts the requests that wait for one
  (`NeverComplete`).
- `gemm_mapping` sizes tiles in elements, while the scratchpad is filled in whole DRAM requests for each row: a product
  of 80 x 400 x 80 on `configs/systolic_ws_8x8_c4_simple_noc_transformer.json` takes 2 x 40 x 13 = 1040 of the 1024
  units of a half, which ends in the "Invalid state" exit of `Core.cc:131`. `layer_tiles` uses requests no larger than
  a row of the array.
- A tile of a `BinaryOp` has three places, each a third of the whole scratchpad (`BinaryOp.cc:82`), of which a tile has
  one half: an operation longer than a third of the half ends in the same exit. `TileFits` excepts it (`ThirdsOverflow`).
- Six operations on rows or elements read or write outside of their tensors. `ComputesOperation` knows where
  (`ReadsAstray` and `WritesAstray` of RowTiles), checks that they go there and no further, and checks every other
  request of theirs and of all the other operations against its tensor; without any one of these entries the run fails.
  `Softmax` adds the base of no tensor, and reads and writes one range from address 0 on, whatever its operands are
  (`Softmax.cc:69`); the factory builds no Softmax. `BiasGelu` and `BiasAct` read their bias behind as many rows as the
  input has, wholly outside of the bias, which is one row (`BiasGelu.cc:71`, `BiasAct.cc:92`). A `BiasAct` with a gate
  makes an output of half the columns (`BiasAct.cc:49`) and stores as many as its input has (`:88`). `SkipLayerNorm`
  stores over its input, while the addresses of its output are computed and not used (`SkipLayerNorm.cc:83`, `:121`),
  and reads neither weight nor bias. A `BinaryOp` goes on to the end of its longer operand, and knows a broadcast only
  of the second (`BinaryOp.cc:48`): a shorter first operand is read on behind its end. A `ShapeOp` copies as many
  elements as its input has: beyond an output that is smaller, and not all of one that is larger (`ShapeOp.cc:324`);
  as a Constant it has no input and reads at address 0 (`Operation.cc:180`).
- The last DRAM request of a row that is not a whole number of requests is left out; `ComputesOperation` asks
  for all of a tensor only where rows are whole (`InFull`).
- `ConvWS` moves to a tile by its index times its size, without the stride: tiles of a convolution with a stride that
  is cut along its rows or columns read the wrong part of the image, and `ComputesOperation` does not ask that all of
  it be read (`InFull` of ConvTiles). A part of the window that does not divide it is taken in full, so that the tiles
  multiply more than the convolution needs (`WholeTiles`).
- The weights of a tile of a convolution start where its input ends, rounded down to a request: if the input takes less
  than one, both are loaded to one place (`WeightsApart` of `LayerTilesProofs`).
- The attention of an ONNX graph is not cut to fit its scratchpad, reads the inputs of its node and not what its own
  projection makes, and reads the same addresses for each request of a batch. `LayerAssumption` states what must fit.
  The tiles of its projection are generated twice (`Model.cc:183`).
- The tile of a `MambaBlock` takes operands that are parts of a result, at addresses nothing is allocated at: a core
  waits for them for ever (`Parts` in `TileRuns`).
- Under tensor parallelism `KVCacheConcat` keeps the hidden size of the whole model: `ShapesAgree` excepts the caches
  and the queries of models that are split.
- The address hash ignores all bits above the ones it mixes (`Hashing.cc`), although its comment promises freedom of
  conflicts for all strides that are powers of two: a stride beyond them falls onto one channel.

## 6. What is not modelled

Latencies and statistics; the vendored Ramulator and Booksim and the code that only forwards to them; `SimpleDram`
(marked as having bugs, used by no configuration); `SystolicOS` (its cycle is `assert(0)`), and with it `ConvOS` and
`GemmOS`, whose tiles only it would run; parsing of JSON, ONNX, traces and the command line, and with it the shape
inference of operations that only ONNX graphs have (pooling, Concat, Flatten); the Python scripts. The non-fused form of
`Attention` is reached by no configuration. In `ConvWS` the explicit im2col of grouped convolutions, which reads an
uninitialised address, and the pooling fused into a convolution are left out. The file of mappings and the table that
is keyed by loops are not modelled: each operation has the mapping computed for it. The address hash is a constant
function of MemoryPath. The heap of waiting models is a set: the undefined behaviour of `Simulator.cc:124`, where
`pop_heap` compares a pointer that was moved away, is not expressed.

## 7. Plan

1. Done: all four tile schedulers, core, L2, memory path, language mode with its graph under every tile scheduler, and
   the tiles of every operation that the weight-stationary core runs; proofs of every safety property of the schedulers,
   the core, the L2, the memory path and the language mode, and that every tile of every operation can be run.
2. `MappingTable` with the comparison of its keys, which is not an order (`Mapping.h:35`), and the mapping file.
3. `AddressHash` as an operator on bits, with the strides for which it is free of conflicts.
4. Grouped convolutions and fused pooling in ConvTiles.
5. Proofs: that the programs of GemmTiles without a bias satisfy `ProgramsWait` and `ProgramsFit`, so that the theorems
   about the core apply to them.
