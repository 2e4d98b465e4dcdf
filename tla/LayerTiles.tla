------------------------------ MODULE LayerTiles ----------------------------
(***************************************************************************)
(* The tiles of an operation, from its shape to the programs of its tiles  *)
(* (Operation::initialize_tiles): its mapping is computed, for a           *)
(* convolution by a search, and then the loops over the tiles run, each    *)
(* iteration building one program.  `macs`, `loaded` and `stored` are what *)
(* the tiles so far multiply, read and write.                              *)
(***************************************************************************)
EXTENDS ConvMapping, TLC

CONSTANT Layer    (* The operations.                                        *)

CoreConfig == [dim : Nat \ {0}, spad : Nat, acc : Nat, precision : Nat \ {0}, req : Nat \ {0}, cores : Nat \ {0}]
Positive == Nat \ {0}

(* The operations that the code builds tiles for.  The rest of the          *)
(* condition is what the code assumes of them: a convolution is square and  *)
(* a tile of one element of it fits, a row fits beside the other operand,   *)
(* a head of an attention of an ONNX graph fits, since nothing cuts it.     *)
ProductKind == [op : {"gemm"}, core : CoreConfig, N : Positive, C : Positive, M : Positive, bias : BOOLEAN]
ConvKind ==
  [op : {"conv"}, core : CoreConfig, N : Positive, C : Positive, M : Positive, K : Positive,
   P : Positive, Q : Positive, H : Positive, W : Positive, stride : Positive, padding : Nat]
AttentionKind ==
  [op : {"attention"}, core : CoreConfig, q : Positive, seq : Positive, heads : Positive, kvHeads : Positive, dk : Positive]
SelfAttentionKind ==
  [op : {"selfattention"}, core : CoreConfig, batch : Positive, q : Positive, seq : Positive, heads : Positive, dk : Positive]
MambaKind ==
  [op : {"mamba"}, core : CoreConfig, model : Positive, inner : Positive, conv : Positive, state : Positive, rank : Positive]
RowKind ==
  [op : {"skipnorm", "softmax", "biasgelu", "biasact", "unary", "binary", "shape"}, core : CoreConfig,
   seq : Positive, dk : Positive, other : Positive, gated : BOOLEAN,
   function : {"Relu", "Tanh", "Silu", "Sigmoid", "Erf", "Softplus", "Constant"}]

(* The size of the output of a convolution without dilation (Conv).         *)
OutSize(l, size) == (size + 2 * l.padding - l.K) \div l.stride + 1

ASSUME LayerAssumption ==
  \A l \in Layer :
    /\ l \in ProductKind \cup ConvKind \cup AttentionKind \cup SelfAttentionKind \cup MambaKind \cup RowKind
    /\ l.core.req >= l.core.precision
    /\ l.op = "conv" => l.P = l.Q /\ l.P = OutSize(l, l.W) /\ l.Q = OutSize(l, l.H)
    /\ l.op = "selfattention" =>
         /\ (l.q + 2 * l.seq) * l.dk * l.core.precision + 6 * l.core.req <= l.core.spad * 512
         /\ l.q * l.seq * l.core.precision <= l.core.acc * 512

VARIABLES
  macs,           (* The products of elements of the tiles so far,         *)
  loaded,         (* the requests by which they read                       *)
  stored          (* and those by which they write.                        *)

sums == <<macs, loaded, stored>>
vars == <<layer, mapping, at, searchVars, sums>>

Gemm == INSTANCE GemmTiles
Conv == INSTANCE ConvTiles
Attention == INSTANCE AttentionTiles
SelfAttention == INSTANCE SelfAttentionTiles
Mamba == INSTANCE MambaTiles
Row == INSTANCE RowTiles

Loops ==
  CASE layer.op = "gemm"      -> Gemm!Loops
    [] layer.op = "conv"      -> Conv!Loops
    [] layer.op = "attention" -> Attention!Loops
    [] layer.op = "selfattention" -> SelfAttention!Loops
    [] layer.op = "mamba"     -> Mamba!Loops
    [] OTHER                  -> Row!Loops
Program ==
  CASE layer.op = "gemm"      -> Gemm!Program
    [] layer.op = "conv"      -> Conv!Program
    [] layer.op = "attention" -> Attention!Program
    [] layer.op = "selfattention" -> SelfAttention!Program
    [] layer.op = "mamba"     -> Mamba!Program
    [] OTHER                  -> Row!Program

(* What calculate_loops and the mapping table say, before a search.         *)
FirstMapping ==
  CASE layer.op = "gemm"      -> Mapping(layer)
    [] layer.op = "conv"      -> <<>>
    [] layer.op = "attention" -> Attention!AttentionMapping
    [] layer.op \in {"selfattention", "mamba"} -> <<>>
    [] OTHER                  -> Row!RowMapping

Init ==
  /\ layer \in Layer
  /\ mapping = FirstMapping
  /\ search = (IF layer.op = "conv" THEN "shrink" ELSE "done")
  /\ args = (IF layer.op = "conv" THEN MaxArgs ELSE <<>>)
  /\ turn = 1 /\ grown = FALSE
  /\ at = <<>>
  /\ macs = 0 /\ loaded = {} /\ stored = {}

-----------------------------------------------------------------------------
Search == SearchStep /\ UNCHANGED <<layer, at, sums>>

(* The loops begin, and go on with the innermost counter that can.          *)
Mapped == search = "done"
Begin ==
  /\ Mapped /\ at = <<>>
  /\ at' = [k \in 1 .. Len(Loops) |-> 0]
  /\ UNCHANGED <<layer, mapping, searchVars, sums>>

Looping == at # <<>> /\ at[1] < Loops[1]
CanAdvance(k) == at[k] + 1 < Loops[k]
NextTile ==
  LET k == CHOOSE j \in 1 .. Len(at) :
             /\ CanAdvance(j) \/ j = 1
             /\ \A i \in j + 1 .. Len(at) : ~CanAdvance(i) IN
  at' = [i \in 1 .. Len(at) |-> IF i < k THEN at[i] ELSE IF i = k THEN at[i] + 1 ELSE 0]

GenerateTile ==
  /\ Looping
  /\ LET program == Program IN
     /\ macs' = macs + MacsOf(program)
     /\ loaded' = loaded \cup DramOf(program, "MOVIN")
     /\ stored' = stored \cup DramOf(program, "MOVOUT")
  /\ NextTile
  /\ UNCHANGED <<layer, mapping, searchVars>>

Finished == at # <<>> /\ ~Looping
Done == Finished /\ UNCHANGED vars

Next == Search \/ Begin \/ GenerateTile \/ Done

Spec == Init /\ [][Next]_vars
FairSpec == Spec /\ WF_vars(Search)

-----------------------------------------------------------------------------
(* Properties.                                                             *)

(* Core::cycle exits when a load does not fit into its half of a            *)
(* scratchpad, and ConvWS asserts that its tiles do: the places of a tile,  *)
(* each with the size of the instruction that takes it, fit, except for a   *)
(* BinaryOp that is longer than a third of the half.                        *)
TileFits == Looping /\ ~Row!ThirdsOverflow => FitsCore(Program)

(* Core::cycle exits when a place is loaded twice, and waits for ever for   *)
(* an operand that is not there: a tile can be run to its end.  The one of  *)
(* a MambaBlock can but for the operands that are parts of a result: there  *)
(* the core waits for ever, at the operand B first.                         *)
TileRuns == Looping => RunsOnCore(Program, IF layer.op = "mamba" THEN Mamba!Parts ELSE {})

(* The tiles are the operation: together they multiply what its shape needs *)
(* and nothing twice, and read and write in full the tensors that are       *)
(* listed as such (InFull).  They touch nothing outside of the tensors of   *)
(* the operation but where the code is known to (ReadsAstray, WritesAstray  *)
(* of RowTiles), and there they go no further than is said.                 *)
ExpectedMacs ==
  CASE layer.op = "gemm"      -> Gemm!Macs
    [] layer.op = "conv"      -> Conv!Macs
    [] layer.op = "attention" -> Attention!Macs
    [] layer.op = "selfattention" -> SelfAttention!Macs
    [] layer.op = "mamba"     -> Mamba!Macs
    [] OTHER                  -> Row!Macs
WholeTiles ==
  CASE layer.op = "conv"      -> Conv!WholeTiles
    [] layer.op = "attention" -> Attention!WholeTiles
    [] layer.op = "selfattention" -> SelfAttention!WholeTiles
    [] OTHER                  -> TRUE
Operands ==
  CASE layer.op = "gemm"      -> Gemm!Operands
    [] layer.op = "conv"      -> Conv!Operands
    [] layer.op = "attention" -> Attention!Operands
    [] layer.op = "selfattention" -> SelfAttention!Operands
    [] layer.op = "mamba"     -> Mamba!Operands
    [] OTHER                  -> Row!Operands
Results ==
  CASE layer.op = "gemm"      -> Gemm!Results
    [] layer.op = "conv"      -> Conv!Results
    [] layer.op = "attention" -> Attention!Results
    [] layer.op = "selfattention" -> SelfAttention!Results
    [] layer.op = "mamba"     -> Mamba!Results
    [] OTHER                  -> Row!Results
InFull ==
  CASE layer.op = "gemm"      -> Gemm!InFull
    [] layer.op = "conv"      -> Conv!InFull
    [] layer.op = "attention" -> Attention!InFull
    [] layer.op = "selfattention" -> SelfAttention!InFull
    [] layer.op = "mamba"     -> Mamba!InFull
    [] OTHER                  -> Row!InFull

Touches(requests, tensors, astray) ==
  LET reach == astray @@ tensors IN
  /\ {r[1] : r \in requests} \subseteq DOMAIN reach
  /\ \A t \in DOMAIN reach :
       /\ InTensor(AddressesIn(requests, t), reach[t])
       /\ t \in InFull => Covers(AddressesIn(requests, t), reach[t])
ComputesOperation ==
  Finished =>
    /\ macs >= ExpectedMacs /\ Touches(stored, Results, Row!WritesAstray)
    /\ WholeTiles => macs = ExpectedMacs /\ Touches(loaded, Operands, Row!ReadsAstray)

(* The search for the mapping of a convolution ends.                        *)
SearchEnds == <>Mapped
=============================================================================
