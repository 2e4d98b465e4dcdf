--------------------------- MODULE LanguageModel ----------------------------
(***************************************************************************)
(* The graph of operations that LanguageModel builds for one inference of  *)
(* a batch of requests: which tensors each operation reads, which it       *)
(* makes, and of what shape.  Every inference has a graph of its own: the  *)
(* number of attention operations is the number of requests in the batch.  *)
(*                                                                         *)
(* A tensor is named by the operation that makes it and the number of the  *)
(* output; those that no operation makes are produced from the beginning.  *)
(***************************************************************************)
EXTENDS Integers, Sequences, FiniteSets, SequencesExt

CONSTANTS
  NumLayers,      (* _num_sim_layers.                                      *)
  Transformer     (* The configurations of models whose shapes are looked  *)
                  (* at; what is executed when depends on none of them.    *)

ASSUME ModelAssumption ==
  /\ NumLayers \in Nat \ {0}
  /\ Transformer \subseteq [hidden : Nat \ {0}, heads : Nat \ {0}, kv_heads : Nat \ {0},
                            intermediate : Nat \ {0}, tensor_parallel : Nat \ {0}, llama : BOOLEAN]
  /\ \A t \in Transformer :
       t.hidden % t.heads = 0 /\ \A x \in {t.hidden, t.heads, t.kv_heads, t.intermediate} : x % t.tensor_parallel = 0

VARIABLE batch    (* The requests of the inference, oldest first: how many *)
                  (* tokens each one brings and how many rows its caches   *)
                  (* have.  Empty when there is no model.                  *)

-----------------------------------------------------------------------------
(* The operations for n requests, in the order in which they are made and  *)
(* get their ids.                                                          *)

Op(kind, layer, b) == [kind |-> kind, layer |-> layer, request |-> b]

LayerOps(l, n) ==
  <<Op("QKVgen", l, 0), Op("KVccat", l, 0)>>
    \o [b \in 1 .. n |-> Op("Attention", l, b)]
    \o <<Op("Atccat", l, 0), Op("proj", l, 0), Op("attn.ln", l, 0),
         Op("fc1", l, 0), Op("act", l, 0), Op("fc2", l, 0), Op("ffn.ln", l, 0)>>
LayerSize(n) == n + 9
Ops(n) ==
  [i \in 1 .. NumLayers * LayerSize(n) |->
     LayerOps(((i - 1) \div LayerSize(n)) + 1, n)[((i - 1) % LayerSize(n)) + 1]]

Tensor(op, k) == [from |-> op, output |-> k]
Given(kind, l, b) == Tensor(Op(kind, l, b), 0)          \* made by no operation
Output(kind, l) == Tensor(Op(kind, l, 0), 1)

Query(l, b) == Tensor(Op("KVccat", l, 0), 3 * b - 2)
Key(l, b)   == Tensor(Op("KVccat", l, 0), 3 * b - 1)
Value(l, b) == Tensor(Op("KVccat", l, 0), 3 * b)

Outputs(op, n) == [k \in 1 .. (IF op.kind = "KVccat" THEN 3 * n ELSE 1) |-> Tensor(op, k)]

(* The rows that come into a layer.                                         *)
LayerInput(l) == IF l = 1 THEN Given("input", 0, 0) ELSE Output("ffn.ln", l - 1)

Caches(l, n) ==
  [i \in 1 .. 2 * n |-> Given(IF i % 2 = 1 THEN "KeyCache" ELSE "ValueCache", l, (i + 1) \div 2)]

Operands(op, n) ==
  LET l == op.layer IN
  CASE op.kind = "QKVgen"    -> <<LayerInput(l), Given("QKVgen.weight", l, 0), Given("QKVgen.bias", l, 0)>>
    [] op.kind = "KVccat"    -> <<Output("QKVgen", l)>> \o Caches(l, n)
    [] op.kind = "Attention" -> <<Query(l, op.request), Key(l, op.request), Value(l, op.request)>>
    [] op.kind = "Atccat"    -> [b \in 1 .. n |-> Tensor(Op("Attention", l, b), 1)]
    [] op.kind = "proj"      -> <<Output("Atccat", l), Given("proj.weight", l, 0), Given("proj.bias", l, 0)>>
    [] op.kind = "attn.ln"   -> <<LayerInput(l), Output("proj", l), Given("attn.ln.weight", l, 0), Given("attn.ln.bias", l, 0)>>
    [] op.kind = "fc1"       -> <<Output("attn.ln", l), Given("fc1.weight", l, 0)>>
    [] op.kind = "act"       -> <<Output("fc1", l), Given("fc1.bias", l, 0)>>
    [] op.kind = "fc2"       -> <<Output("act", l), Given("fc2.weight", l, 0), Given("fc2.bias", l, 0)>>
    [] op.kind = "ffn.ln"    -> <<Output("attn.ln", l), Output("fc2", l), Given("ffn.ln.weight", l, 0), Given("ffn.ln.bias", l, 0)>>

(* Tensor::_child_nodes has an operation for each time that it was given    *)
(* the tensor, so an operation is a child of another once for each tensor   *)
(* between them.                                                            *)
ChildrenOf(x, n) == {c \in ToSet(Ops(n)) : x \in ToSet(Operands(c, n))}
ChildNodes(op, n) ==
  UNION {{[tensor |-> x, child |-> c] : c \in ChildrenOf(x, n)} : x \in ToSet(Outputs(op, n))}

-----------------------------------------------------------------------------
(* Shapes.                                                                 *)

Split(t, n) == n \div t.tensor_parallel
QKVOut(t) == Split(t, (t.hidden \div t.heads) * t.kv_heads * 2 + t.hidden)
FFN1Out(t) == Split(t, t.intermediate) * (IF t.llama THEN 2 ELSE 1)
HeadSize(t) == Split(t, t.hidden) \div Split(t, t.heads)

(* The rows of the caches are those of the scheduler, which does not split  *)
(* them; KVCacheConcat is told the whole hidden size and the split heads.   *)
CacheColumns(t) == (t.hidden \div t.heads) * t.kv_heads
ConcatColumnsOfHeads(t) == t.hidden                    \* slip: every head has its own keys
ConcatColumns(t) == (t.hidden \div Split(t, t.heads)) * Split(t, t.kv_heads)

NumTokens == SumFunction([b \in DOMAIN batch |-> batch[b].tokens])
ContextRows(b) == batch[b].cached + batch[b].tokens

(* The dimensions of the tensors nothing makes: the input, the caches and   *)
(* the weights, named by their operation in create_weight.                  *)
GivenDims(t, x) ==
  LET kind == x.from.kind IN
  CASE kind = "input"                         -> <<NumTokens, t.hidden>>
    [] kind \in {"KeyCache", "ValueCache"}    -> <<batch[x.from.request].cached, CacheColumns(t)>>
    [] kind = "QKVgen.weight"                 -> <<t.hidden, QKVOut(t)>>
    [] kind = "QKVgen.bias"                   -> <<QKVOut(t)>>
    [] kind = "proj.weight"                   -> <<Split(t, t.hidden), t.hidden>>
    [] kind = "fc1.weight"                    -> <<t.hidden, FFN1Out(t)>>
    [] kind = "fc1.bias"                      -> <<FFN1Out(t)>>
    [] kind = "fc2.weight"                    -> <<Split(t, t.intermediate), t.hidden>>
    [] OTHER                                  -> <<t.hidden>>

(* The shape an operation gives to an output, from those of its operands.   *)
OutputDims(t, x, in) ==
  LET op == x.from
      b == (x.output + 2) \div 3 IN
  CASE op.kind = "QKVgen"                     -> <<NumTokens, QKVOut(t)>>
    [] op.kind = "KVccat" /\ x.output = 3 * b - 2 -> <<batch[b].tokens, t.hidden>>
    [] op.kind = "KVccat" /\ x.output # 3 * b - 2 -> <<ContextRows(b), CacheColumns(t)>>
    [] op.kind = "Attention"                  -> <<batch[op.request].tokens, Split(t, t.hidden)>>
    [] op.kind = "Atccat"                     -> <<SumFunction([i \in DOMAIN batch |-> in[i][1]]), in[1][2]>>
    [] op.kind \in {"proj", "fc2"}            -> <<NumTokens, t.hidden>>
    [] op.kind = "fc1"                        -> <<NumTokens, FFN1Out(t)>>
    [] op.kind = "act"                        -> <<in[1][1], IF t.llama THEN in[1][2] \div 2 ELSE in[1][2]>>
    [] op.kind \in {"attn.ln", "ffn.ln"}      -> in[1]

(* The tensors that the operations for n requests make.                     *)
MadeTensors(n) ==
  LET layers == 1 .. NumLayers
      single == {"QKVgen", "Atccat", "proj", "attn.ln", "fc1", "act", "fc2", "ffn.ln"} IN
  [from : [kind : {"KVccat"}, layer : layers, request : {0}], output : 1 .. 3 * n]
    \cup [from : [kind : {"Attention"}, layer : layers, request : 1 .. n], output : {1}]
    \cup [from : [kind : single, layer : layers, request : {0}], output : {1}]

Dims(t, x) ==
  LET n == Len(batch)
      made[y \in MadeTensors(n)] ==
        OutputDims(t, y, [i \in DOMAIN Operands(y.from, n) |->
          LET z == Operands(y.from, n)[i] IN IF z.output = 0 THEN GivenDims(t, z) ELSE made[z]])
  IN IF x.output = 0 THEN GivenDims(t, x) ELSE made[x]

(* What an operation takes the dimensions of its operands to be: a product  *)
(* those of its attributes, the others those they compute with.             *)
Product(t, op) ==
  CASE op.kind = "QKVgen" -> <<t.hidden, QKVOut(t)>>
    [] op.kind = "proj"   -> <<Split(t, t.hidden), t.hidden>>
    [] op.kind = "fc1"    -> <<t.hidden, FFN1Out(t)>>
    [] op.kind = "fc2"    -> <<Split(t, t.intermediate), t.hidden>>

Expected(t, op) ==
  LET in(i) == Dims(t, Operands(op, Len(batch))[i])
      cache(b) == <<batch[b].cached, ConcatColumns(t)>>
      keys(b) == <<ContextRows(b), Split(t, t.kv_heads) * HeadSize(t)>> IN
  CASE op.kind \in {"QKVgen", "proj", "fc2"} ->
         <<<<NumTokens, Product(t, op)[1]>>, Product(t, op), <<Product(t, op)[2]>>>>
    [] op.kind = "fc1"    -> <<<<NumTokens, Product(t, op)[1]>>, Product(t, op)>>
    [] op.kind = "KVccat" -> <<<<NumTokens, 2 * ConcatColumns(t) + t.hidden>>>>
                               \o [i \in 1 .. 2 * Len(batch) |-> cache((i + 1) \div 2)]
    [] op.kind = "Attention" ->
         <<<<batch[op.request].tokens, Split(t, t.heads) * HeadSize(t)>>, keys(op.request), keys(op.request)>>
    [] op.kind = "Atccat" -> [b \in DOMAIN batch |-> <<batch[b].tokens, in(1)[2]>>]
    [] op.kind = "act"    -> <<in(1), <<in(1)[2]>>>>
    [] op.kind \in {"attn.ln", "ffn.ln"} -> <<in(1), in(1), <<in(1)[2]>>, <<in(1)[2]>>>>

OperandsFit(t, op) == [i \in DOMAIN Operands(op, Len(batch)) |-> Dims(t, Operands(op, Len(batch))[i])] = Expected(t, op)
=============================================================================
