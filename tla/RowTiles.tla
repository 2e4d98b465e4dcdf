------------------------------ MODULE RowTiles ------------------------------
(***************************************************************************)
(* The tiles of the operations on rows and elements: SkipLayerNorm,        *)
(* BiasGelu, BiasAct, Softmax, BinaryOp, UnaryOp and ShapeOp.  Each moves  *)
(* in as many rows of its operands as fit, computes in place (a binary     *)
(* operation at a third place, ShapeOp not at all) and moves the result    *)
(* out.  A matrix has `seq` rows of `dk` elements; the operands of         *)
(* BinaryOp, UnaryOp and ShapeOp are one row, of which a tile takes a part:*)
(* `dk` elements of the first operand; `other` is the number of elements   *)
(* of the second operand of a BinaryOp, and of the output of a ShapeOp.    *)
(* The tensor "memory" is the memory as such, from address 0 on.           *)
(***************************************************************************)
EXTENDS TilePrograms

RowBytes == layer.dk * Precision

(* The length of the loop over the tiles.  A BinaryOp goes on to the end of *)
(* its longer operand; only a shorter second one is a broadcast.            *)
ByElements == layer.op \in {"unary", "binary", "shape"}
Length ==
  CASE layer.op = "binary" -> AtLeast(layer.dk, layer.other)
    [] ByElements          -> layer.dk
    [] OTHER               -> layer.seq
Broadcast == layer.other < layer.dk

(* The requests for `bytes` bytes from `start` on.                          *)
Requests(start, bytes) == {start + offset : offset \in {o \in 0 .. bytes - 1 : o % Core.req = 0}}
InRequests(bytes) == bytes \div Core.req
Place(offset) == <<"spad", offset>>
InPlace(size) == Compute(Place(0), size, {Place(0)}, FALSE, 0)

(* Two tiles for every core, if there are enough rows.                      *)
ForAllCores(rows) ==
  IF CeilDiv(layer.seq, rows) < 2 * Core.cores THEN CeilDiv(layer.seq, 2 * Core.cores) ELSE rows

(* The rows of a tile (calculate_loops); the rows of the operations with a  *)
(* bias are unsigned and wrap around.                                       *)
SkipLayerNormRows == ForAllCores(AtMost(SpadHalf \div (2 * RowBytes), layer.seq))
SoftmaxRows == AtMost(SpadHalf \div (2 * RowBytes), layer.seq)
RowsBesideBias == AtMost(Unsigned(SpadHalf \div RowBytes - 1), layer.seq)
BiasGeluRows == RowsBesideBias
BiasActRows == ForAllCores(RowsBesideBias)

(* The elements of a tile.                                                  *)
UnaryElements == AtMost(AtLeast(1, SpadHalf \div Precision), layer.dk)
ShapeElements == UnaryElements
BinaryElements == AtMost(AtLeast(1, ((Core.spad * 1024) \div 3) \div Precision), Length)

-----------------------------------------------------------------------------
(* The programs.  A tile takes `n` rows or elements from the `first` on.   *)

(* The result goes to the addresses of the input.                           *)
SkipLayerNormProgram(first, n) ==
  LET part == Requests(first * RowBytes, n * RowBytes)
      skip == Place(n * RowBytes) IN
  <<MoveIn(Place(0), "input", part),
    MoveIn(skip, "skip", part),
    InPlace(RowBytes),
    Compute(Place(0), n * RowBytes, {Place(0), skip}, FALSE, 0),
    MoveOut(Place(0), "input", part)>>

(* The addresses are those of no operand: the rows are counted from address *)
(* 0 on, and what is read is written.                                       *)
SoftmaxProgram(first, n) ==
  LET part == Requests(first * RowBytes, n * RowBytes) IN
  <<MoveIn(Place(0), "memory", part), InPlace(RowBytes), MoveOut(Place(0), "memory", part)>>

(* The bias is taken from behind seq rows of it.                            *)
AddBias(first, n) ==
  LET bias == Place(n * RowBytes) IN
  <<MoveIn(Place(0), "input", Requests(first * RowBytes, n * RowBytes)),
    MoveIn(bias, "bias", Requests(layer.seq * RowBytes, RowBytes)),
    Compute(Place(0), InRequests(n * RowBytes), {Place(0), bias}, FALSE, 0)>>
StoreRows(first, n) == <<MoveOut(Place(0), "output", Requests(first * RowBytes, n * RowBytes))>>

BiasGeluProgram(first, n) ==
  AddBias(first, n) \o <<InPlace(InRequests(n * RowBytes))>> \o StoreRows(first, n)

(* With a gate (llama_mlp) the result has half as many columns, which are   *)
(* multiplied by the other half; as many as the input has are stored.       *)
OutputColumns == IF layer.gated THEN layer.dk \div 2 ELSE layer.dk
BiasActProgram(first, n) ==
  LET activate == InPlace(InRequests(OutputColumns * n * Precision)) IN
  AddBias(first, n) \o (IF layer.gated THEN <<activate, activate>> ELSE <<activate>>) \o StoreRows(first, n)

(* The operand of a broadcast is one request.                               *)
BinaryProgram(first, n) ==
  LET part == Requests(first * Precision, n * Precision)
      second == Place(BinaryElements * Precision)
      out == Place(2 * BinaryElements * Precision) IN
  <<MoveIn(Place(0), "input", part),
    MoveIn(second, "second", IF Broadcast THEN {0} ELSE part),
    Compute(out, InRequests(n * Precision), {Place(0), second}, FALSE, 0),
    MoveOut(out, "output", part)>>

(* resolve_opcodes: how many instructions the function takes.               *)
Opcodes(function) ==
  CASE function = "Tanh" -> 5 [] function = "Silu" -> 5 [] function = "Sigmoid" -> 4
    [] function = "Erf" -> 15 [] function = "Softplus" -> 3 [] OTHER -> 1
UnaryProgram(first, n) ==
  LET part == Requests(first * Precision, n * Precision) IN
  <<MoveIn(Place(0), "input", part)>>
  \o [k \in 1 .. Opcodes(layer.function) |-> InPlace(InRequests(n * Precision))]
  \o <<MoveOut(Place(0), "output", part)>>

(* A copy, whatever the shape of the output is: as many elements as the     *)
(* input has are read and written.  The address of the input that a         *)
(* Constant does not have is 0 (get_operand_addr).                          *)
Copied == IF layer.function = "Constant" THEN "memory" ELSE "input"
ShapeProgram(first, n) ==
  LET part == Requests(first * Precision, n * Precision) IN
  <<MoveIn(Place(0), Copied, part), MoveOut(Place(0), "output", part)>>

-----------------------------------------------------------------------------
(* The loop over the tiles (initialize_tiles).                             *)
RowMapping ==
  [part |->
    CASE layer.op = "skipnorm" -> SkipLayerNormRows
      [] layer.op = "softmax"  -> SoftmaxRows
      [] layer.op = "biasgelu" -> BiasGeluRows
      [] layer.op = "biasact"  -> BiasActRows
      [] layer.op = "unary"    -> UnaryElements
      [] layer.op = "binary"   -> BinaryElements
      [] layer.op = "shape"    -> ShapeElements]

Loops == <<CeilDiv(Length, mapping.part)>>
First == at[1] * mapping.part
Part == AtMost(Length - First, mapping.part)
Program ==
  CASE layer.op = "skipnorm" -> SkipLayerNormProgram(First, Part)
    [] layer.op = "softmax"  -> SoftmaxProgram(First, Part)
    [] layer.op = "biasgelu" -> BiasGeluProgram(First, Part)
    [] layer.op = "biasact"  -> BiasActProgram(First, Part)
    [] layer.op = "unary"    -> UnaryProgram(First, Part)
    [] layer.op = "binary"   -> BinaryProgram(First, Part)
    [] layer.op = "shape"    -> ShapeProgram(First, Part)

(* The tensors of the operation, with their sizes in bytes.                *)
Elements(n) == n * Precision
Matrix == layer.seq * RowBytes
Operands ==
  CASE layer.op = "skipnorm" -> [input |-> Matrix, skip |-> Matrix, weight |-> RowBytes, bias |-> RowBytes]
    [] layer.op \in {"biasgelu", "biasact"} -> [input |-> Matrix, bias |-> RowBytes]
    [] layer.op = "softmax"  -> [input |-> Matrix]
    [] layer.op = "binary"   -> [input |-> Elements(layer.dk), second |-> Elements(layer.other)]
    [] layer.op = "shape" /\ layer.function = "Constant" -> <<>>
    [] OTHER                 -> [input |-> Elements(layer.dk)]
Results ==
  CASE layer.op = "biasact" -> [output |-> layer.seq * Elements(OutputColumns)]
    [] layer.op = "shape"   -> [output |-> Elements(layer.other)]
    [] ByElements           -> [output |-> Elements(Length)]
    [] OTHER                -> [output |-> Matrix]

(* Where the code leaves them, and how far it goes: a Softmax and a Constant*)
(* take bare addresses, a bias is read behind seq rows of it, the shorter   *)
(* first operand of a BinaryOp is read on behind its end; a SkipLayerNorm   *)
(* stores over its input, a gated BiasAct as many columns as its input has, *)
(* and a copy as many elements.                                             *)
ReadsAstray ==
  CASE layer.op = "softmax" -> [memory |-> Matrix]
    [] layer.op \in {"biasgelu", "biasact"} -> [bias |-> Matrix + RowBytes]
    [] layer.op = "binary" /\ layer.dk < layer.other -> [input |-> Elements(Length)]
    [] layer.op = "shape" /\ layer.function = "Constant" -> [memory |-> Precision]
    [] OTHER -> <<>>
WritesAstray ==
  CASE layer.op = "softmax"  -> [memory |-> Matrix]
    [] layer.op = "skipnorm" -> [input |-> Matrix]
    [] layer.op = "biasact" /\ layer.gated -> [output |-> Matrix]
    [] layer.op = "shape" /\ layer.other < layer.dk -> [output |-> Elements(layer.dk)]
    [] OTHER -> <<>>

(* A tile of a BinaryOp takes thirds of the whole scratchpad, and has half  *)
(* of it.                                                                   *)
ThirdsOverflow == layer.op = "binary" /\ 3 * Elements(Length) > SpadHalf

(* What is read or written in full: the elements of a second operand that   *)
(* is not broadcast, and an output that is no longer than what is copied.   *)
InFull ==
  CASE layer.op = "softmax"  -> {"memory"}
    [] layer.op = "skipnorm" -> {"input", "skip"}
    [] layer.op = "binary"   -> {"input", "output"} \cup (IF Broadcast THEN {} ELSE {"second"})
    [] layer.op = "shape"    -> {Copied} \cup (IF layer.dk < layer.other THEN {} ELSE {"output"})
    [] OTHER                 -> {"input", "output"}
WholeTiles == TRUE
Macs == 0
=============================================================================
