-------------------------- MODULE SelfAttentionTiles ------------------------
(***************************************************************************)
(* The tiles of the attention operation of an ONNX graph                   *)
(* (Attention::initialize_onnx_tiles, fused): a tile per request and head, *)
(* with all the queries and all the keys of it, whether they fit or not.   *)
(* The projections get a product of their own, but the tiles read queries, *)
(* keys and values from the addresses of the inputs of the node, and each  *)
(* request from the same ones.                                             *)
(***************************************************************************)
EXTENDS TilePrograms

Loops == <<layer.batch, layer.heads>>
HeadIndex == at[2]

(* Every head is its own key head, so that the index of the key head, the   *)
(* head by the number of key heads, is that of the first one.               *)
KeyHead == HeadIndex \div layer.heads

KeyBytes == layer.seq * layer.dk * Precision
KeyBase == layer.q * layer.dk * Precision
ValueBase == KeyBase + KeyBytes
QueryPlace == <<"spad", 0>>
KeyPlace == <<"spad", KeyBase + KeyHead * KeyBytes>>
ValuePlace == <<"spad", ValueBase + KeyHead * KeyBytes>>
LogitPlace == <<"acc", 0>>

Address(i, j, k, rows) == Align(((i * rows + j) * layer.dk + k) * Precision)
HeadAddresses(head, rows) == {Address(head, j, k, rows) : j \in 0 .. rows - 1, k \in 0 .. layer.dk - 1}
KeyAddresses == HeadAddresses(KeyHead, layer.seq)
QueryAddresses == HeadAddresses(HeadIndex, layer.q)

(* The logits, their softmax and the weighted values share a place.         *)
Step(elements, srcs, fromAcc, macs) ==
  Compute(LogitPlace, (elements * Precision) \div Core.req, srcs, fromAcc, macs)
Multiplied == layer.q * layer.seq * layer.dk
Program ==
  <<MoveIn(KeyPlace, "weight", KeyAddresses),
    MoveIn(ValuePlace, "bias", KeyAddresses),
    MoveIn(QueryPlace, "input", QueryAddresses),
    Step(layer.q * layer.seq, {QueryPlace, KeyPlace}, FALSE, Multiplied),
    Step(layer.q * layer.seq, {LogitPlace}, TRUE, 0),
    Step(layer.q * layer.dk, {LogitPlace, ValuePlace}, TRUE, Multiplied),
    MoveOut(LogitPlace, "output", QueryAddresses)>>

-----------------------------------------------------------------------------
(* The attention of every request.  The tensors are those of the node: its *)
(* bias has the values of all the positions of a head only if there are    *)
(* few of them.                                                            *)
Hidden == layer.heads * layer.dk
Macs == 2 * layer.batch * layer.heads * Multiplied
WholeTiles == layer.seq <= 3 * layer.heads
Operands ==
  [input |-> layer.batch * layer.q * Hidden * Precision,
   weight |-> 3 * Hidden * Hidden * Precision,
   bias |-> 3 * Hidden * Precision]
Results == [output |-> layer.batch * layer.q * Hidden * Precision]
InFull == IF layer.batch = 1 THEN {"input", "output"} ELSE {}
=============================================================================
