----------------------------- MODULE MCNpuCore ------------------------------
(***************************************************************************)
(* Feeds of tiles for a core, each shaped like the tiles that an operation *)
(* creates.                                                                *)
(***************************************************************************)
EXTENDS NpuCore

(* Scratchpad places: an activation, a weight.  Accumulator places: an     *)
(* output and a second one for the result of a vector operation.           *)
MCSpadAddr == {"act", "wgt"}
MCAccAddr == {"out", "vec"}

Load(a, n) == [opcode |-> "MOVIN", dest |-> a, size |-> n, reqs |-> n, srcs |-> {}, fromAcc |-> FALSE]
Store(a, n) == [opcode |-> "MOVOUT", dest |-> a, size |-> n, reqs |-> n, srcs |-> {}, fromAcc |-> FALSE]
Gemm(a) == [opcode |-> "GEMM", dest |-> a, size |-> 1, reqs |-> 0, srcs |-> {"act", "wgt"}, fromAcc |-> FALSE]
Vec(a, from) == [opcode |-> "VECTOR", dest |-> a, size |-> 1, reqs |-> 0, srcs |-> {from}, fromAcc |-> TRUE]

TileOf(op, accum, code) == [op |-> op, accum |-> accum, skip |-> FALSE, code |-> code]
SkippedTile(op) == [op |-> op, accum |-> FALSE, skip |-> TRUE, code |-> <<>>]

(* GemmWS on one core, three outputs, each in two tiles of the loop over C: *)
(* the first one ends in a GEMM, the second one accumulates and stores.     *)
ChainHead(op) == TileOf(op, FALSE, <<Load("wgt", 1), Load("act", 1), Gemm("out")>>)
ChainTail(op) == TileOf(op, TRUE, <<Load("wgt", 1), Load("act", 1), Gemm("out"), Store("out", 1)>>)
Chain == <<ChainHead("gemm"), ChainTail("gemm"), ChainHead("gemm"), ChainTail("gemm"), ChainHead("gemm")>>

(* Attention: several GEMMs into one place, a vector operation on the       *)
(* result, and its store; a skipped tile; and a tile of one GEMM.           *)
VectorTile(op) ==
  TileOf(op, FALSE, <<Load("act", 2), Load("wgt", 1), Gemm("out"), Gemm("out"), Vec("vec", "out"), Store("vec", 2)>>)
SingleTile(op) == TileOf(op, FALSE, <<Load("wgt", 1), Load("act", 1), Gemm("out"), Store("out", 1)>>)
VectorFeed == <<VectorTile("attention"), SkippedTile("concat"), SingleTile("attention")>>

(* With a bias, which the first tile of an output loads into its place, and *)
(* two cores: the scheduler spreads the loop over C, and this core gets the *)
(* first tiles of three outputs.                                            *)
BiasHead(op) == TileOf(op, FALSE, <<Load("out", 1), Load("wgt", 1), Load("act", 1), Gemm("out")>>)
Heads == <<BiasHead("gemm"), BiasHead("gemm"), BiasHead("gemm")>>

(* Each place gets the room of the largest content any tile has for it.     *)
MCRoom ==
  [t \in Tile |-> [a \in Addr |-> Max({0} \cup {Code(i).size : i \in {j \in Inst : WritesPlace(j) /\ Code(j).dest = a}})]]

(* What the theorems about a core's programs assume holds of the feeds, but *)
(* not of the one whose bias nothing waits for.                             *)
ASSUME FeedAssumption == (ProgramsWait /\ ProgramsFit(MCRoom)) <=> Feed # Heads
=============================================================================
