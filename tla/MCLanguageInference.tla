------------------------ MODULE MCLanguageInference -------------------------
(***************************************************************************)
(* A short trace for the language schedulers: a prompt with two tokens to  *)
(* follow, one that continues a cached context, a request for no token     *)
(* (which is given one all the same), and two more.                        *)
(***************************************************************************)
EXTENDS LanguageInference

TracePrompt == [r \in Request |-> <<3, 1, 2, 1, 2>>[r + 1]]
TraceCached == [r \in Request |-> <<0, 2, 0, 0, 1>>[r + 1]]
TraceTarget == [r \in Request |-> <<2, 3, 0, 1, 2>>[r + 1]]

(* Both schedulers, with a batch of two, of one and of any size; one that   *)
(* runs out of memory in the middle of the trace.                           *)
TraceConfig ==
  [policy : {"simple", "iter"}, batch : 0 .. 2, dram : {0}] \cup [policy : {"simple", "iter"}, batch : {2}, dram : {10}]

(* Every tile scheduler for batches of two, the simple one for all.         *)
TraceSchedulers ==
  [c \in TraceConfig |->
     {"simple"} \cup IF c.batch = 2 /\ c.dram = 0 THEN {"time_multiplex", "partition_cpu", "spatial_split"} ELSE {}]

(* The proportions of the shipped models and of one with grouped keys, each *)
(* on one device and on two.                                                *)
SmallTransformers ==
  {[hidden |-> 12, heads |-> 4, kv_heads |-> 4, intermediate |-> 16, tensor_parallel |-> p, llama |-> FALSE] : p \in 1 .. 2}
    \cup {[hidden |-> 20, heads |-> 10, kv_heads |-> 8, intermediate |-> 18, tensor_parallel |-> p, llama |-> TRUE] : p \in 1 .. 2}
    \cup {[hidden |-> 16, heads |-> 8, kv_heads |-> 2, intermediate |-> 8, tensor_parallel |-> 1, llama |-> TRUE]}
=============================================================================
