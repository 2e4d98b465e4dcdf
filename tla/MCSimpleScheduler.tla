------------------------- MODULE MCSimpleScheduler -------------------------
(***************************************************************************)
(* Small instances of SimpleScheduler.                                     *)
(***************************************************************************)
EXTENDS SimpleScheduler

T(n) == [bar |-> FALSE, skip |-> FALSE, ins |-> n]     \* a tile of n instructions
S == [bar |-> FALSE, skip |-> TRUE, ins |-> 0]         \* a tile a core skips
B == [bar |-> TRUE, skip |-> FALSE, ins |-> 0]         \* a BAR tile

OnePartition == [c \in Core |-> 0]
OnePartitionMap == [p \in {0} |-> [i \in 1 .. NumCores |-> i - 1]]

(* Three models.  In the first, a and e can start at once, a feeds b and c,   *)
(* e feeds c, and b feeds c through two of its outputs; d of the second     *)
(* model has barriers, one of them its last tile, and is repeated; y of the *)
(* third is a copy of nothing, which makes no tiles: it is simulated        *)
(* together with the second only, which it may hold up.                     *)
GraphModels == {"m", "n", "o"}
GraphWorkloads == {{"m", "n"}, {"n", "o"}}
GraphLayers == {"a", "b", "c", "d", "e", "x", "y"}
GraphLayersOf == [m \in GraphModels |-> CASE m = "m" -> <<"a", "b", "c", "e">>
                                           [] m = "n" -> <<"d">>
                                           [] m = "o" -> <<"x", "y">>]
GraphChildren == [l \in GraphLayers |-> CASE l = "a" -> <<"c", "b">>
                                          [] l = "b" -> <<"c", "c">>
                                          [] l = "e" -> <<"c">>
                                          [] l = "x" -> <<"y">>
                                          [] OTHER -> <<>>]
GraphTiles == [l \in GraphLayers |-> CASE l = "a" -> <<T(2), T(1)>>
                                       [] l = "b" -> <<S, S>>
                                       [] l = "c" -> <<T(1), S>>
                                       [] l = "d" -> <<T(1), S, B, T(1), B>>
                                       [] l = "y" -> <<>>
                                       [] OTHER -> <<T(1)>>]
GraphRegressive == {"n"}
GraphAxes == [m \in GraphModels |-> [past |-> 0, seq |-> 2, total |-> 0]]
GraphOutput == [m \in GraphModels |-> 2]

(* A layer with a single tile in front of a barrier.                        *)
EarlyModels == {"m"}
EarlyWorkloads == {EarlyModels}
EarlyLayers == {"a", "b"}
EarlyLayersOf == [m \in EarlyModels |-> <<"a", "b">>]
EarlyChildren == [l \in EarlyLayers |-> IF l = "a" THEN <<"b">> ELSE <<>>]
EarlyTiles == [l \in EarlyLayers |-> IF l = "a" THEN <<T(1)>> ELSE <<T(1), B, T(1)>>]
EarlyAxes == [m \in EarlyModels |-> [past |-> 0, seq |-> 0, total |-> 0]]
EarlyOutput == [m \in EarlyModels |-> -1]

NoStray == {NoLoad}
SomeStray == {NoLoad, [tiles |-> 3, ins |-> 0]}

(* What the theorem about the load of the cores assumes holds here.         *)
ASSUME PromptAssumption == PromptsAreLonger
=============================================================================
