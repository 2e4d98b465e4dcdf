------------------------------ MODULE GemmTiles -----------------------------
(***************************************************************************)
(* The tiles of a matrix product on a weight-stationary core               *)
(* (GemmWS::initialize_tiles, initialize_instructions).  The product has N *)
(* rows, C summands and M columns, and perhaps a bias.  A place is counted *)
(* in elements, at the start of what it holds.                             *)
(***************************************************************************)
EXTENDS TilePrograms

dim == Core.dim

(* The loops over the tiles.                                                *)
Loops == <<mapping.outN, mapping.outM, mapping.outC>>
NOffset == at[1] * mapping.inN
MOffset == at[2] * mapping.inM
COffset == at[3] * mapping.inC
Accum == at[3] # 0

(* The requests for rows r0.. and columns c0.. of a matrix with rows of     *)
(* `width`: one for every elems_per_access columns.                         *)
ElemsPerAccess == Core.req \div Precision
Address(width, r, c) == Align((r * width + c) * Precision)
Steps(n) == {k \in 0 .. n - 1 : k % ElemsPerAccess = 0}
AddressesOf(width, r0, rows, c0, cols) ==
  {Address(width, r, c0 + k) : r \in r0 .. r0 + rows - 1, k \in Steps(cols)}

(* The pieces of at most dim that a tile takes of a loop: where each starts *)
(* in the tile, and how long it is.                                         *)
Pieces(inner, offset, total) == Starts(AtMost(CeilDiv(inner, dim), CeilDiv(total - offset, dim)) * dim, dim)
PieceLength(s, offset, total) == AtMost(dim, total - (offset + s))

MPieces == Pieces(mapping.inM, MOffset, layer.M)
NPieces == Pieces(mapping.inN, NOffset, layer.N)
MLoop(s) == PieceLength(s, MOffset, layer.M)
NLoop(s) == PieceLength(s, NOffset, layer.N)
CLoop == AtMost(mapping.inC, layer.C - COffset)

ActPlace(ns) == <<"spad", ns * mapping.inC>>
WeightPlace(ms) == <<"spad", mapping.inN * mapping.inC + ms * mapping.inC>>
OutPlace(ns, ms) == <<"acc", ns * mapping.inM + ms>>

LoadBias(ms) ==
  IF layer.bias /\ ~Accum
    THEN <<MoveIn(<<"acc", ms>>, "bias", AddressesOf(layer.M, 0, 1, MOffset + ms, MLoop(ms)))>>
    ELSE <<>>
LoadWeights(ms) ==
  <<MoveIn(WeightPlace(ms), "weight", AddressesOf(layer.C, MOffset + ms, MLoop(ms), COffset, CLoop))>>
LoadActivation(ns) ==
  MoveIn(ActPlace(ns), "input", AddressesOf(layer.C, NOffset + ns, NLoop(ns), COffset, CLoop))
LoadActivationsAgain(ms) == [k \in 1 .. Len(NPieces) |-> LoadActivation(NPieces[k])]   \* slip: Ms == 0
LoadActivations(ms) == IF ms = 0 THEN [k \in 1 .. Len(NPieces) |-> LoadActivation(NPieces[k])] ELSE <<>>
Loads ==
  Joined([k \in 1 .. Len(MPieces) |->
    LoadBias(MPieces[k]) \o LoadWeights(MPieces[k]) \o LoadActivations(MPieces[k])])

(* One GEMM_PRELOAD for every dim summands.                                 *)
SummandsWhole(k) == dim                                \* slip: the last ones are as many
Summands(k) == AtMost(dim, CLoop - (k - 1) * dim)
Multiply(ms, ns) ==
  [k \in 1 .. CeilDiv(CLoop, dim) |->
     Compute(OutPlace(ns, ms), NLoop(ns), {ActPlace(ns), WeightPlace(ms)}, FALSE,
             MLoop(ms) * Summands(k) * NLoop(ns))]
ForEachPiece(F(_, _)) ==
  Joined([k \in 1 .. Len(MPieces) |-> Joined([j \in 1 .. Len(NPieces) |-> F(MPieces[k], NPieces[j])])])

(* The output is stored by the last tile of the loop over C.                *)
LastSummands == COffset + mapping.inC >= layer.C
Store(ms, ns) ==
  <<MoveOut(OutPlace(ns, ms), "output", AddressesOf(layer.M, NOffset + ns, NLoop(ns), MOffset + ms, MLoop(ms)))>>

Program == Loads \o ForEachPiece(Multiply) \o (IF LastSummands THEN ForEachPiece(Store) ELSE <<>>)

-----------------------------------------------------------------------------
(* The product: its multiplications, the bytes of its operands and results, *)
(* and those of them that the tiles touch in full.  A row that is not whole *)
(* requests may share its last one with the next row, which then may be     *)
(* left out.                                                                *)
WholeTiles == TRUE
Macs == layer.N * layer.M * layer.C
Operands ==
  [input |-> layer.N * layer.C * Precision, weight |-> layer.M * layer.C * Precision,
   bias |-> layer.M * Precision]
Results == [output |-> layer.N * layer.M * Precision]
WholeRequests(n) == n % ElemsPerAccess = 0
InFull ==
  (IF layer.bias THEN {"bias"} ELSE {}) \cup
  (IF WholeRequests(layer.C) THEN {"input", "weight"} ELSE {}) \cup
  (IF WholeRequests(layer.M) THEN {"output"} ELSE {})
=============================================================================
