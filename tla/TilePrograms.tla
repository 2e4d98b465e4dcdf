---------------------------- MODULE TilePrograms ----------------------------
(***************************************************************************)
(* The program of a tile, as the operations build it and as a core runs    *)
(* it.  A program is a sequence of instructions; a place is a scratchpad   *)
(* ("spad" or "acc") with an offset in it; a DRAM request is a tensor with *)
(* the address of the request in it, in bytes.                             *)
(*                                                                         *)
(* The modules that extend this one each generate the tiles of a kind of   *)
(* operation: from the operation `layer`, the `mapping` that says how its  *)
(* loops are cut, and the counters `at` of the loops over the tiles.       *)
(***************************************************************************)
EXTENDS GemmMapping, Sequences, FiniteSets, Folds

VARIABLES
  layer,          (* The operation: its kind, its core, its shape.         *)
  mapping,        (* How its loops are cut into tiles.                     *)
  at              (* The counters of the loops, the outermost first.       *)

Core == layer.core
Precision == Core.precision
SpadHalf == (Core.spad * 1024) \div 2
AccHalf == (Core.acc * 1024) \div 2

Align(address) == address - (address % Core.req)

(* Unsigned sizes wrap around: below zero they are greater than any other.  *)
Unsigned(n) == IF n < 0 THEN 2147483647 ELSE n

(* Where the blocks of a loop of n start if each has at most `step`.        *)
Starts(n, step) == [k \in 1 .. CeilDiv(n, step) |-> (k - 1) * step]

MoveIn(place, operand, addresses) ==
  [op |-> "MOVIN", dest |-> place, size |-> Cardinality(addresses),
   dram |-> {operand} \X addresses, srcs |-> {}, macs |-> 0]
MoveOut(place, operand, addresses) ==
  [op |-> "MOVOUT", dest |-> place, size |-> 0,
   dram |-> {operand} \X addresses, srcs |-> {}, macs |-> 0]

(* An instruction of the array or of the vector unit; it reads sums only if *)
(* src_from_accum is set, which `fromAcc` says.                             *)
Compute(place, size, srcs, fromAcc, macs) ==
  [op |-> "COMPUTE", dest |-> place, size |-> size, dram |-> {}, srcs |-> srcs,
   fromAcc |-> fromAcc, macs |-> macs]

(* Parts of a program, one after the other.                                 *)
Joined(parts) ==
  LET upTo[k \in 1 .. Len(parts)] == IF k = 1 THEN parts[k] ELSE upTo[k - 1] \o parts[k] IN
  IF Len(parts) = 0 THEN <<>> ELSE upTo[Len(parts)]

-----------------------------------------------------------------------------
(* What a core asks of a program.                                          *)

InstructionsOf(program, op) == {k \in 1 .. Len(program) : program[k].op = op}
Before(program, k, place) ==
  \E j \in 1 .. k - 1 : program[j].op # "MOVOUT" /\ program[j].dest = place

SumOver(f(_), S) == MapThenFoldSet(+, 0, f, LAMBDA s : CHOOSE x \in s : TRUE, S)

(* A load, and the first result at a place, take room for their size.       *)
TakesRoom(program, k) == program[k].op # "MOVOUT" /\ ~Before(program, k, program[k].dest)
RoomTaken(program, bank) ==
  SumOver(LAMBDA k : program[k].size, {k \in 1 .. Len(program) : program[k].dest[1] = bank /\ TakesRoom(program, k)})
FitsCore(program) ==
  RoomTaken(program, "spad") * Core.req <= SpadHalf /\ RoomTaken(program, "acc") * Core.req <= AccHalf

(* A place is loaded once; an operand is there before it is used, and in    *)
(* the scratchpad it is looked for; a tile that ends with a load never      *)
(* finishes.  Not looked at are the operands at the places of `waived`.     *)
RunsOnCore(program, waived) ==
  /\ program # <<>> /\ program[Len(program)].op # "MOVIN"
  /\ \A k \in InstructionsOf(program, "MOVIN") : TakesRoom(program, k) /\ program[k].size > 0
  /\ \A k \in InstructionsOf(program, "COMPUTE") : \A place \in program[k].srcs \ waived :
       Before(program, k, place) /\ (place[1] = "acc" => program[k].fromAcc)
  /\ \A k \in InstructionsOf(program, "MOVOUT") : Before(program, k, program[k].dest)

MacsOf(program) == SumOver(LAMBDA k : program[k].macs, 1 .. Len(program))
DramOf(program, op) == UNION {program[k].dram : k \in InstructionsOf(program, op)}

(* The requests at these addresses are for bytes of the tensor of this size *)
(* only, or for all of them.                                                *)
InTensor(addresses, bytes) == \A a \in addresses : a < bytes
Covers(addresses, bytes) ==
  \A b \in 0 .. bytes - 1 : \E a \in b - Core.req + 1 .. b : a \in addresses
AddressesIn(requests, operand) == {r[2] : r \in {s \in requests : s[1] = operand}}
=============================================================================
