---------------------------- MODULE AttentionTiles --------------------------
(***************************************************************************)
(* The tiles of a fused attention operation of a language model            *)
(* (Attention::calculate_loops, initialize_tiles, initialize_instructions  *)
(* with a mapping): q queries with `heads` heads of dk elements attend to  *)
(* seq positions of kvHeads heads of keys and values.  A tile works on the *)
(* heads that share a key head, on a part of the queries, or of the keys   *)
(* if not even one query fits with all of them.  A place is counted in     *)
(* bytes.                                                                  *)
(***************************************************************************)
EXTENDS TilePrograms

HeadsPerKV == layer.heads \div layer.kvHeads
QueryBytes == HeadsPerKV * layer.dk * Precision
KeyBytes(positions) == positions * layer.dk * Precision

(* How many parts the keys are cut into, so that the logits of a query fit  *)
(* and the keys and values do beside a query.                               *)
TilesPerHead ==
  AtLeast(CeilDiv(layer.seq * Precision, AccHalf),
          CeilDiv(2 * KeyBytes(layer.seq), Unsigned(SpadHalf - QueryBytes)))

QueriesThatFit == (SpadHalf - 2 * KeyBytes(layer.seq)) \div QueryBytes
LogitsThatFit == AccHalf \div ((layer.seq * Precision + 2 * 4) * HeadsPerKV)
AttentionMapping ==
  IF TilesPerHead > 1
    THEN LET part == CeilDiv(layer.seq, TilesPerHead) IN
         [queries |-> 1, keys |-> part, outN |-> layer.q * layer.kvHeads, outM |-> CeilDiv(layer.seq, part)]
    ELSE LET part == AtMost(AtMost(layer.q, LogitsThatFit), QueriesThatFit) IN
         [queries |-> part, keys |-> layer.seq, outN |-> CeilDiv(layer.q, part) * layer.kvHeads, outM |-> 1]

(* The loops over the tiles: the key heads and the parts of the queries,    *)
(* then the parts of the keys.                                              *)
Loops == <<mapping.outN, mapping.outM>>
PartsPerHead == mapping.outN \div layer.kvHeads
FirstHead == (at[1] \div PartsPerHead) * HeadsPerKV
FirstQuery == (at[1] % PartsPerHead) * mapping.queries
Queries == mapping.queries
Keys == mapping.keys
Heads == 0 .. HeadsPerKV - 1

(* The key head of the tile.                                                *)
KVHead == FirstHead \div layer.kvHeads

QueryPlace(h) == <<"spad", h * Queries * layer.dk * Precision>>
KeyBase == Queries * layer.dk * HeadsPerKV * Precision
ValueBase == KeyBase + KeyBytes(Keys) * CeilDiv(HeadsPerKV, layer.kvHeads)
KeyPlace == <<"spad", KeyBase + KVHead * KeyBytes(Keys)>>
ValuePlace == <<"spad", ValueBase + KVHead * KeyBytes(Keys)>>
LogitBytes == Queries * Keys * Precision
LogitPlace(h) == <<"acc", h * LogitBytes>>
ScalePlace(h) == <<"acc", (h + HeadsPerKV) * LogitBytes>>

Address(i, j, k, rows) == Align(((i * rows + j) * layer.dk + k) * Precision)

(* The positions of a tile are counted from the first one of its head.      *)
KeyAddresses ==
  {Address(KVHead, s, i, layer.seq) :
     s \in {k \in 0 .. Keys - 1 : at[2] * Keys + k < layer.seq}, i \in 0 .. layer.dk - 1}
QueryAddresses(h) ==
  {Address(FirstHead + h, j, i, layer.q) :
     j \in FirstQuery .. AtMost(FirstQuery + Queries, layer.q) - 1, i \in 0 .. layer.dk - 1}
LoadQueries == [k \in 1 .. HeadsPerKV |-> MoveIn(QueryPlace(k - 1), "query", QueryAddresses(k - 1))]
Loads ==
  <<MoveIn(KeyPlace, "key", KeyAddresses)>> \o LoadQueries \o <<MoveIn(ValuePlace, "value", KeyAddresses)>>

(* Products in blocks of the array, for every head of the tile.             *)
BlockLengths(n) == [k \in 1 .. CeilDiv(n, Core.dim) |-> AtMost(n - (k - 1) * Core.dim, Core.dim)]
RequestsOf(bytes) == bytes \div Core.req
ForEachHead(F(_)) == Joined([k \in 1 .. HeadsPerKV |-> F(k - 1)])
Product(rows, summands, Sources(_), fromAcc) ==
  Joined([i \in 1 .. Len(rows) |-> Joined([j \in 1 .. Len(summands) |->
    ForEachHead(LAMBDA h :
      <<Compute(LogitPlace(h), RequestsOf(Queries * Precision), Sources(h), fromAcc,
                rows[i] * summands[j] * Queries)>>)])])
Scores == Product(BlockLengths(Keys), BlockLengths(layer.dk), LAMBDA h : {QueryPlace(h), KeyPlace}, FALSE)
Weighted == Product(BlockLengths(layer.dk), BlockLengths(Keys), LAMBDA h : {LogitPlace(h), ValuePlace}, TRUE)

(* The steps of the softmax of a part of the keys, in the accumulators.     *)
Vector(dest, srcs, bytes) == Compute(dest, RequestsOf(bytes), srcs, TRUE, 0)
Softmax(h) ==
  LET l == LogitPlace(h)
      s == ScalePlace(h) IN
  <<Vector(s, {l}, LogitBytes), Vector(l, {l, s}, LogitBytes), Vector(l, {l}, LogitBytes),
    Vector(s, {l}, LogitBytes), Vector(s, {s}, LogitBytes), Vector(l, {s}, Queries * Precision),
    Vector(l, {l, s}, LogitBytes)>>

(* The last part of the keys scales and stores the result.  The row of the  *)
(* output is counted by the part of the keys, not of the queries.           *)
OutputAddresses(h) ==
  {Address(j, FirstHead + h, i, layer.heads) :
     j \in at[2] * Queries .. AtMost((at[2] + 1) * Queries, layer.q) - 1, i \in 0 .. layer.dk - 1}
Finish(h) ==
  LET l == LogitPlace(h)
      s == ScalePlace(h) IN
  <<Vector(l, {s}, layer.q * Precision), Vector(l, {l, s}, layer.q * layer.dk * Precision),
    MoveOut(l, "output", OutputAddresses(h))>>

LastKeys == at[2] = mapping.outM - 1
Program ==
  Loads \o Scores \o ForEachHead(Softmax) \o Weighted \o (IF LastKeys THEN ForEachHead(Finish) ELSE <<>>)

-----------------------------------------------------------------------------
(* The attention.  Keys, values and the output are touched in full only by *)
(* a single key head whose queries all fit into a tile.                     *)
Macs == 2 * layer.q * layer.seq * layer.heads * layer.dk
WholeTiles == layer.q % Queries = 0 /\ layer.seq % Keys = 0
Operands ==
  [query |-> layer.heads * layer.q * layer.dk * Precision,
   key |-> layer.kvHeads * layer.seq * layer.dk * Precision,
   value |-> layer.kvHeads * layer.seq * layer.dk * Precision]
Results == [output |-> layer.q * layer.heads * layer.dk * Precision]
InFull ==
  {"query"} \cup (IF layer.kvHeads = 1 /\ mapping.outM = 1 THEN {"key", "value"} ELSE {})
            \cup (IF PartsPerHead = 1 /\ mapping.outM = 1 THEN {"output"} ELSE {})
=============================================================================
