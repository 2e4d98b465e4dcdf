------------------------------ MODULE ConvTiles -----------------------------
(***************************************************************************)
(* The tiles of a convolution on a weight-stationary core                  *)
(* (ConvWS::initialize_tiles, initialize_instructions), without a group    *)
(* and without a fused pooling.  The loops are N (batch), P and Q (columns *)
(* and rows of the output), M and C (output and input channels), S and R   *)
(* (the kernel).  Tensors are laid out NHWC.  The input has height H and   *)
(* width W.  A place is counted in bytes.                                  *)
(***************************************************************************)
EXTENDS TilePrograms

width == Core.dim      (* core_width: the arrays here are square.           *)

Order == <<"N", "P", "Q", "M", "S", "R", "C">>
Counter(d) == at[CHOOSE k \in 1 .. 7 : Order[k] = d]
Loops == [k \in 1 .. 7 |-> mapping.out[Order[k]]]

In(d) == mapping.in[d]
Total(d) == mapping.total[d]
Offset(d) == Counter(d) * In(d)

(* The pieces of at most `width` that a tile takes of a loop.               *)
Pieces(d) == Starts(AtMost(In(d), Total(d) - Offset(d)), width)
PieceLength(d, s) == AtMost(AtMost(Total(d) - Offset(d) - s, width), In(d) - s)

(* make_activation_address, make_weight_address.  The weights of a row of   *)
(* the array share an address.                                              *)
ActivationAddress(n, h, w, c, shape) ==
  Align((((n * shape.H + h) * shape.W + w) * shape.C + c) * Precision)
PaddedC == PadUp(layer.C, width)
WeightAddress(s, r, m, c) ==
  Align(((((m \div width) * layer.K + s) * layer.K + r) * PaddedC + c) * Precision)

InputShape == [H |-> layer.H, W |-> layer.W, C |-> layer.C]
OutputShape == [H |-> layer.Q, W |-> layer.P, C |-> layer.M]

(* The rows or the columns of the input that a tile reads.                  *)
Extent(d) == (In(d) - 1) * layer.stride + layer.K
Window(d, size) ==
  {Offset(d) - (layer.K - 1) \div 2 + k : k \in {j \in 0 .. Extent(d) - 1 : j % layer.stride = 0}} \cap (0 .. size - 1)
Channels == Offset("C") .. AtMost(Offset("C") + In("C"), Total("C")) - 1

ActPlace == <<"spad", 0>>
LoadActivations ==
  MoveIn(ActPlace, "input",
         {ActivationAddress(Offset("N") + n, h, w, c, InputShape) :
            n \in 0 .. In("N") - 1, h \in Window("Q", layer.H), w \in Window("P", layer.W), c \in Channels})

(* The weights, one load for every block of channels and place in the       *)
(* kernel; tile_idx counts the loads.                                       *)
WeightBase == In("N") * Extent("Q") * Extent("P") * In("C") * Precision
WeightPlace(index, s, r) ==
  <<"spad", Align(WeightBase + width * width * (index * (In("S") * In("R")) + s * In("R") + r))>>
Weights ==
  LET cs == Len(Pieces("C"))
      each == In("S") * In("R") * cs IN
  [k \in 1 .. Len(Pieces("M")) * each |->
    LET rest == (k - 1) % each
        s == rest \div (In("R") * cs)
        r == (rest \div cs) % In("R") IN
    [m |-> Pieces("M")[(k - 1) \div each + 1], s |-> s, r |-> r, c |-> Pieces("C")[(rest % cs) + 1],
     place |-> WeightPlace(k - 1, s, r)]]
LoadWeight(b) ==
  MoveIn(b.place, "weight",
         {WeightAddress(Offset("S") + b.s, Offset("R") + b.r, Offset("M") + b.m + m, Offset("C") + b.c + c) :
            m \in 0 .. PieceLength("M", b.m) - 1, c \in 0 .. PieceLength("C", b.c) - 1})

(* The blocks of the output, and where their sums are.                      *)
InShape == [H |-> In("Q"), W |-> In("P"), C |-> In("M")]
OutPlace(b, m) == <<"acc", ActivationAddress(b.n, b.q, b.p, m, InShape)>>
OutBlocks ==
  Joined([n \in 1 .. In("N") |->
    Joined([j \in 1 .. Len(Pieces("Q")) |->
      [i \in 1 .. Len(Pieces("P")) |-> [n |-> n - 1, q |-> Pieces("Q")[j], p |-> Pieces("P")[i]]]])])
BlockSize(b) == PieceLength("Q", b.q) * PieceLength("P", b.p)

Multiply(b) ==
  [k \in 1 .. Len(OutBlocks) |->
    LET o == OutBlocks[k] IN
    Compute(OutPlace(o, b.m), (BlockSize(o) * Precision) \div Core.req, {ActPlace, b.place}, FALSE,
            PieceLength("M", b.m) * PieceLength("C", b.c) * BlockSize(o))]

(* The output is stored by the last tile of the loops over its summands.    *)
LastSummands == \A d \in {"C", "R", "S"} : Counter(d) = mapping.out[d] - 1
StoredChannels(m) == AtMost(Total("M") - Offset("M") - m, width)
Store(o) ==
  [k \in 1 .. Len(Pieces("M")) |->
    LET m == Pieces("M")[k] IN
    MoveOut(OutPlace(o, m), "output",
            {ActivationAddress(Offset("N") + o.n, Offset("Q") + o.q + q, Offset("P") + o.p + p,
                               Offset("M") + m + c, OutputShape) :
               q \in 0 .. PieceLength("Q", o.q) - 1, p \in 0 .. PieceLength("P", o.p) - 1,
               c \in 0 .. StoredChannels(m) - 1})]

(* A tile beyond the end of a loop is empty and dropped.                    *)
Empty == \E d \in DOMAIN mapping.in : Offset(d) >= Total(d)
Program ==
  IF Empty THEN <<>>
  ELSE <<LoadActivations>>
       \o [k \in 1 .. Len(Weights) |-> LoadWeight(Weights[k])]
       \o Joined([k \in 1 .. Len(Weights) |-> Multiply(Weights[k])])
       \o (IF LastSummands THEN Joined([k \in 1 .. Len(OutBlocks) |-> Store(OutBlocks[k])]) ELSE <<>>)

-----------------------------------------------------------------------------
(* The convolution.  The part of the input that it reads is right only for  *)
(* a stride of one: the offset of a tile is not multiplied by the stride.   *)
WholeTiles == layer.K % In("S") = 0 /\ layer.K % In("R") = 0
Macs == layer.N * layer.P * layer.Q * layer.M * layer.C * layer.K * layer.K
Operands ==
  [input |-> layer.N * layer.H * layer.W * layer.C * Precision,
   weight |-> CeilDiv(layer.M, width) * layer.K * layer.K * PaddedC * Precision]
Results == [output |-> layer.N * layer.Q * layer.P * layer.M * Precision]
InFull == {"output"} \cup (IF layer.stride = 1 THEN {"input"} ELSE {})
=============================================================================
