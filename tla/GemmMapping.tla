---------------------------- MODULE GemmMapping -----------------------------
(***************************************************************************)
(* How a matrix product is cut into tiles when no mapping file says it     *)
(* (MappingTable::gemm_mapping).  A product of N rows, C summands and M    *)
(* columns is a record g; g.core describes the core it is for: the height  *)
(* of its array, its scratchpads in KB, the precision and the size of a    *)
(* DRAM request in bytes, and the number of cores of the simulator.        *)
(***************************************************************************)
EXTENDS Integers

CeilDiv(a, b) == (a + b - 1) \div b
AtLeast(a, b) == IF a < b THEN b ELSE a                \* std::max
AtMost(a, b) == IF a < b THEN a ELSE b                 \* std::min
RoundedRoot(a) == CHOOSE r \in 0 .. a : r * r <= a /\ a < (r + 1) * (r + 1)

PadUp(x, dim) == CeilDiv(x, dim) * dim

(* A scratchpad has two halves; the accumulators take four bytes.           *)
MaxSpadRows(core) == (core.spad * 1024) \div (core.dim * core.precision * 2)
MaxAccRows(core) == (core.acc * 1024) \div (core.dim * 4 * 2)

(* The side of an output tile and the depth of its operands, in blocks of   *)
(* dim by dim: the output has to fit into the accumulators, each operand    *)
(* into half of the room.                                                   *)
AccBlocks(core) == AtLeast(1, MaxAccRows(core) \div core.dim)
PartBlocksWhole(core) == AtLeast(1, MaxSpadRows(core) \div core.dim)   \* slip: one operand has all the room
PartBlocks(core) == AtLeast(1, (MaxSpadRows(core) \div 2) \div core.dim)
Side(core) == AtLeast(1, RoundedRoot(AccBlocks(core)))
Thick(core) == AtLeast(1, PartBlocks(core) \div Side(core))

(* The first choice of how many tiles a loop of x is cut into, with at most *)
(* blocks blocks in each.                                                   *)
Cut(x, blocks, dim) == AtLeast(1, AtMost(PadUp(x, dim) \div dim, CeilDiv(x, blocks * dim)))

(* More tiles along the longer side if there are not enough for the cores.  *)
Spread(core, cutN, cutM) == IF cutN * cutM < core.cores THEN CeilDiv(core.cores, cutN * cutM) ELSE 1
CutN(g) ==
  LET first == Cut(g.N, Side(g.core), g.core.dim) IN
  IF g.M >= g.N THEN first ELSE first * Spread(g.core, first, Cut(g.M, Side(g.core), g.core.dim))
CutM(g) ==
  LET first == Cut(g.M, Side(g.core), g.core.dim) IN
  IF g.M >= g.N THEN first * Spread(g.core, Cut(g.N, Side(g.core), g.core.dim), first) ELSE first
CutC(g) == Cut(g.C, Thick(g.core), g.core.dim)

(* The size of a tile along a loop: whole blocks, or all of a thin matrix.  *)
Inner(x, cut, dim) ==
  IF x < dim THEN PadUp(x, dim) ELSE AtLeast(dim, ((PadUp(x, dim) \div cut) \div dim) * dim)

InnerN(g) == Inner(g.N, CutN(g), g.core.dim)
InnerM(g) == Inner(g.M, CutM(g), g.core.dim)
InnerC(g) == Inner(g.C, CutC(g), g.core.dim)

(* The number of tiles follows from the size.                               *)
Outer(x, inner) == AtLeast(1, CeilDiv(x, inner))

Mapping(g) ==
  [inN |-> InnerN(g), inC |-> InnerC(g), inM |-> InnerM(g),
   outN |-> Outer(g.N, InnerN(g)), outC |-> Outer(g.C, InnerC(g)), outM |-> Outer(g.M, InnerM(g))]
=============================================================================
