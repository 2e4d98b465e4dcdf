---------------------------- MODULE MCLayerTiles ----------------------------
(***************************************************************************)
(* Operations of shapes around the sizes at which their mapping changes,   *)
(* for small cores.                                                        *)
(***************************************************************************)
EXTENDS LayerTiles

(* An array of 4 x 4 that is fed a row of it by each DRAM request; an       *)
(* output tile has at most 2 x 2 blocks, its operands 8 blocks in depth.    *)
SmallCore == [dim |-> 4, spad |-> 1, acc |-> 1, precision |-> 1, req |-> 4, cores |-> 2]

(* Elements of two bytes, and requests of four elements.                    *)
WideCore == [dim |-> 4, spad |-> 2, acc |-> 2, precision |-> 2, req |-> 8, cores |-> 3]

Products ==
  [op : {"gemm"}, core : {SmallCore}, N : {1, 9, 16}, C : {2, 4, 37}, M : {1, 8, 19}, bias : BOOLEAN]

Convolve(n, c, m, k, p, stride, padding) ==
  [op |-> "conv", core |-> SmallCore, N |-> n, C |-> c, M |-> m, K |-> k, P |-> p, Q |-> p,
   H |-> (p - 1) * stride + k - 2 * padding, W |-> (p - 1) * stride + k - 2 * padding,
   stride |-> stride, padding |-> padding]
Convolutions ==
  {Convolve(1, 4, 4, 3, 4, 1, 1), Convolve(2, 6, 5, 3, 5, 1, 1), Convolve(1, 8, 8, 1, 9, 1, 0), Convolve(1, 8, 6, 1, 4, 2, 0),
   Convolve(1, 4, 4, 3, 4, 2, 1), Convolve(1, 20, 12, 3, 4, 1, 1), Convolve(1, 4, 4, 7, 2, 1, 3),
   Convolve(1, 5, 4, 8, 2, 1, 3)}
  \cup {[Convolve(1, 4, 4, 3, 4, 2, 1) EXCEPT !.H = 8, !.W = 8]}

Attend(q, seq, heads, kvHeads, dk) ==
  [op |-> "attention", core |-> SmallCore, q |-> q, seq |-> seq, heads |-> heads, kvHeads |-> kvHeads, dk |-> dk]
Attentions ==
  {Attend(4, 8, 1, 1, 4), Attend(5, 10, 2, 2, 8), Attend(1, 80, 2, 2, 4), Attend(6, 20, 4, 2, 8),
   Attend(20, 20, 2, 2, 8), Attend(3, 80, 4, 2, 4)}

SelfAttend(batch, q, seq, heads, dk) ==
  [op |-> "selfattention", core |-> SmallCore, batch |-> batch, q |-> q, seq |-> seq, heads |-> heads, dk |-> dk]
SelfAttentions ==
  {SelfAttend(1, 4, 4, 2, 8), SelfAttend(2, 6, 6, 2, 4), SelfAttend(1, 1, 9, 2, 6), SelfAttend(1, 5, 5, 3, 6),
   SelfAttend(1, 1, 9, 3, 6)}

RowOf(op, seq, dk) ==
  [op |-> op, core |-> SmallCore, seq |-> seq, dk |-> dk, other |-> dk, gated |-> FALSE, function |-> "Relu"]
RowOperations ==
  {RowOf(op, seq, dk) : op \in {"skipnorm", "softmax", "biasgelu", "biasact"}, seq \in {1, 5, 24}, dk \in {6, 32}}
  \cup {[RowOf("biasact", 7, 32) EXCEPT !.gated = TRUE]}
  \cup {[RowOf("binary", 1, n) EXCEPT !.other = m] : n \in {3, 170}, m \in {1, 3, 170, 700}}
  \cup {[RowOf("shape", 1, n) EXCEPT !.other = m] : n \in {3, 600}, m \in {3, 600}}
  \cup {[RowOf("shape", 1, 1) EXCEPT !.function = "Constant"]}
  \cup {[RowOf("unary", 1, 600) EXCEPT !.function = f] : f \in {"Relu", "Tanh", "Erf"}}

BlockOf(model, inner, conv, state, rank) ==
  [op |-> "mamba", core |-> SmallCore, model |-> model, inner |-> inner, conv |-> conv, state |-> state, rank |-> rank]
MambaBlocks == {BlockOf(2, 4, 4, 3, 1), BlockOf(5, 6, 2, 4, 2), BlockOf(1, 1, 1, 1, 1)}

(* An array that is wider than what the scratchpads hold.                   *)
LargeArray == [dim |-> 8, spad |-> 1, acc |-> 1, precision |-> 1, req |-> 8, cores |-> 1]
OnLargeArray == {[Convolve(1, 8, 8, 3, 4, 1, 1) EXCEPT !.core = LargeArray]}

OnWideCore ==
  {[l EXCEPT !.core = WideCore] :
     l \in Convolutions \cup Attentions \cup SelfAttentions \cup MambaBlocks \cup RowOperations \cup {p \in Products : p.C = 37}}

SmallLayers ==
  Products \cup Convolutions \cup Attentions \cup SelfAttentions \cup RowOperations \cup MambaBlocks \cup OnWideCore \cup OnLargeArray
=============================================================================
