----------------------------- MODULE ConvMapping ----------------------------
(***************************************************************************)
(* How a convolution is cut into tiles when no mapping file says it        *)
(* (MappingTable::calc_conv_mapping): a search over the sizes `args` of a  *)
(* tile.  It shrinks the whole convolution until it fits, lets the columns *)
(* grow again, then every size in turn while any of them grows.            *)
(***************************************************************************)
EXTENDS TilePrograms

VARIABLES
  search,         (* The loop of the search that runs.                     *)
  args,           (* The sizes of a tile that it has reached.              *)
  turn,           (* The size that may grow next,                          *)
  grown           (* and whether one did in this pass over them.           *)

searchVars == <<search, args, turn, grown>>

(* The indices of args.                                                     *)
Sizes == 1 .. 7
Batch == 1
Rows == 2
Columns == 3
OutChannels == 4
KernelRows == 5
KernelColumns == 6
InChannels == 7

(* The search takes the output and the kernel to be square, and one image.  *)
MaxArgs == <<1, layer.P, layer.P, layer.M, layer.K, layer.K, layer.C>>

Downsample == layer.stride = 2 /\ layer.K = 1 /\ layer.padding = 0

(* _calc_conv_mapping: the rows that a tile takes in the scratchpad, for    *)
(* its input and its weights, and in the accumulators.                      *)
InputSide(out, kernel) ==
  LET side == out * layer.stride + kernel - 1 IN IF Downsample THEN side \div 2 ELSE side
SpadRows(a) ==
  CeilDiv(a[InChannels], Core.dim) * a[Batch] * InputSide(a[Rows], a[KernelRows]) * InputSide(a[Columns], a[KernelColumns])
  + CeilDiv(a[OutChannels], Core.dim) * a[KernelColumns] * a[KernelRows] * a[InChannels]
AccRows(a) == CeilDiv(a[OutChannels], Core.dim) * a[Batch] * a[Rows] * a[Columns]
FitsRows(a) == SpadRows(a) <= MaxSpadRows(Core) /\ AccRows(a) <= MaxAccRows(Core)

-----------------------------------------------------------------------------
(* The search.                                                             *)

(* Columns are kept as long as the array is not wider than they are.        *)
MayShrink(a, i) == ~(i = Columns /\ a[i] <= Core.dim /\ a[Rows] > 1)
Largest(a, i) ==
  /\ MayShrink(a, i)
  /\ \A j \in Sizes : MayShrink(a, j) => a[j] <= a[i] /\ (j < i => a[j] < a[i])
LessChannelsToNone(n) ==                               \* slip: no channel is left
  IF n % Core.dim # 0 THEN (n \div Core.dim) * Core.dim ELSE n - Core.dim
LessChannels(n) ==
  AtLeast(1, IF n % Core.dim # 0 THEN (n \div Core.dim) * Core.dim ELSE n - Core.dim)
Less(a, i) == IF i \in {OutChannels, InChannels} THEN LessChannels(a[i]) ELSE a[i] - 1

Shrink ==
  /\ search = "shrink"
  /\ IF FitsRows(args)
       THEN search' = "widen" /\ UNCHANGED args
       ELSE /\ \E i \in Sizes : Largest(args, i) /\ args' = [args EXCEPT ![i] = Less(args, i)]
            /\ UNCHANGED search
  /\ UNCHANGED <<turn, grown>>

More(a, i) == [a EXCEPT ![i] = @ + 1]
MayGrow(a, i) == a[i] < MaxArgs[i] /\ FitsRows(More(a, i))

Widen ==
  /\ search = "widen"
  /\ IF MayGrow(args, Columns)
       THEN args' = More(args, Columns) /\ UNCHANGED search
       ELSE search' = "grow" /\ UNCHANGED args
  /\ UNCHANGED <<turn, grown>>

(* The bytes of the tile as it was, not as it would be, may take up to two  *)
(* thirds of the half of the scratchpad.                                    *)
WeightBytes(a) ==
  a[Batch] * a[OutChannels] * a[KernelRows] * a[KernelColumns] * a[InChannels] * Precision
InputBytes(a) ==
  a[Batch] * (a[Rows] + 2 * layer.padding) * (a[Columns] + 2 * layer.padding) * a[InChannels] * Precision
BytesLeft(a) == ((InputBytes(a) + WeightBytes(a)) * 3) \div 2 <= SpadHalf

Grow ==
  /\ search = "grow" /\ turn <= 7
  /\ IF MayGrow(args, turn) /\ BytesLeft(args)
       THEN args' = More(args, turn) /\ grown' = TRUE
       ELSE UNCHANGED <<args, grown>>
  /\ turn' = turn + 1
  /\ UNCHANGED search

(* The end of a pass; the end of the search makes the mapping.              *)
ConvLoops(batch, a) ==
  [N |-> batch, C |-> a[InChannels], M |-> a[OutChannels], S |-> a[KernelRows], R |-> a[KernelColumns],
   Q |-> a[Columns], P |-> a[Rows]]
FoundMapping ==
  LET total == ConvLoops(layer.N, MaxArgs)
      in == ConvLoops(args[Batch], args) IN
  [total |-> total, in |-> in, out |-> [d \in DOMAIN total |-> CeilDiv(total[d], in[d])]]

EndPassStillGrown ==                                   \* slip: nothing_increased is not set again
  /\ search = "grow" /\ turn = 8
  /\ IF grown
       THEN turn' = 1 /\ UNCHANGED <<search, mapping, grown>>
       ELSE search' = "done" /\ mapping' = FoundMapping /\ UNCHANGED <<turn, grown>>
  /\ UNCHANGED args
EndPass ==
  /\ search = "grow" /\ turn = 8
  /\ IF grown
       THEN turn' = 1 /\ grown' = FALSE /\ UNCHANGED <<search, mapping>>
       ELSE search' = "done" /\ mapping' = FoundMapping /\ UNCHANGED <<turn, grown>>
  /\ UNCHANGED args

SearchStep ==
  \/ (Shrink \/ Widen \/ Grow) /\ UNCHANGED mapping
  \/ EndPass

-----------------------------------------------------------------------------
(* The search moves between a tile of one element and the whole             *)
(* convolution, and once it has a tile that fits the rows of the            *)
(* scratchpads it never leaves them.                                        *)
ArgsInRange ==
  layer.op = "conv" =>
    /\ \A i \in Sizes : args[i] \in 1 .. MaxArgs[i]
    /\ search # "shrink" => FitsRows(args)
=============================================================================
