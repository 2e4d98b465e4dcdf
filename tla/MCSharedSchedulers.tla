------------------------- MODULE MCSharedSchedulers -------------------------
(***************************************************************************)
(* A small instance of SharedSchedulers: two models on three cores, of     *)
(* which the first two are one partition.                                  *)
(***************************************************************************)
EXTENDS SharedSchedulers

T == [bar |-> FALSE, skip |-> FALSE, ins |-> 1]        \* an ordinary tile
S == [bar |-> FALSE, skip |-> TRUE, ins |-> 0]         \* a tile a core skips
B == [bar |-> TRUE, skip |-> FALSE, ins |-> 0]         \* a BAR tile

AllPolicies == {"time_multiplex", "partition_cpu", "spatial_split"}

TwoPartitions == [c \in Core |-> IF c = 2 THEN 1 ELSE 0]
TwoPartitionMap == [p \in {0, 1} |-> IF p = 0 THEN <<0, 1>> ELSE <<2>>]
ModelPartition == [m \in Model |-> IF m = "m" THEN 0 ELSE 1]

(* a and e of the first model can start at once and feed b; c of the second *)
(* has a barrier in the middle and another one as its last tile, and is     *)
(* repeated.                                                                *)
SomeModels == {"m", "n"}
SomeWorkloads == {SomeModels}
SomeLayers == {"a", "b", "c", "e"}
SomeLayersOf == [m \in SomeModels |-> IF m = "m" THEN <<"a", "b", "e">> ELSE <<"c">>]
SomeChildren == [l \in SomeLayers |-> IF l \in {"a", "e"} THEN <<"b">> ELSE <<>>]
SomeTiles == [l \in SomeLayers |-> CASE l = "a" -> <<T, T>>
                                     [] l = "c" -> <<T, B, S, B>>
                                     [] OTHER -> <<T>>]

(* The second model starts beyond the length it is to reach, and reaches it *)
(* when the length has wrapped around.                                      *)
SomeRegressive == {"n"}
SomeAxes == [m \in SomeModels |-> [past |-> 2, seq |-> 1, total |-> 3]]
SomeOutput == [m \in SomeModels |-> 1]

NoStray == {NoLoad}
=============================================================================
