----------------------------- MODULE MambaTiles -----------------------------
(***************************************************************************)
(* The one tile of a MambaBlock: the step of a state space model for one   *)
(* token, in six stages, with all its weights in the scratchpad at once.   *)
(* The places follow one another without gaps, in the order of the table   *)
(* above initialize_instructions.                                          *)
(***************************************************************************)
EXTENDS TilePrograms

Bytes(elements) == elements * Precision
Chunks(bytes) == AtLeast(1, bytes \div Core.req)
Addresses(bytes) == {offset \in 0 .. bytes - 1 : offset % Core.req = 0}

(* The elements of each operand, and of each place of the scratchpad.       *)
ConvElements  == layer.inner * layer.conv
StateElements == layer.inner * layer.state
XProjRows     == layer.rank + 2 * layer.state
Inputs ==
  [x |-> layer.model, conv_state |-> ConvElements, ssm_state |-> StateElements,
   w_in |-> 2 * layer.inner * layer.model, w_conv |-> ConvElements, b_conv |-> layer.inner,
   w_xproj |-> XProjRows * layer.inner, w_dt |-> layer.inner * layer.rank, b_dt |-> layer.inner,
   A_log |-> StateElements, D |-> layer.inner, w_out |-> layer.model * layer.inner]
Made ==
  [xin |-> layer.inner, z |-> layer.inner, xact |-> layer.inner, dt_raw |-> layer.rank,
   B |-> layer.state, C |-> layer.state, dt |-> layer.inner, y |-> layer.inner]
PlaceOrder ==
  <<"x", "conv_state", "ssm_state", "w_in", "w_conv", "b_conv", "w_xproj", "w_dt", "b_dt", "A_log", "D", "w_out",
    "xin", "z", "xact", "dt_raw", "B", "C", "dt", "y">>
Elements(name) == IF name \in DOMAIN Inputs THEN Inputs[name] ELSE Made[name]
Start[k \in DOMAIN PlaceOrder] == IF k = 1 THEN 0 ELSE Start[k - 1] + Bytes(Elements(PlaceOrder[k - 1]))
Place(name) ==
  IF name = "out" THEN <<"acc", 0>> ELSE <<"spad", Start[CHOOSE k \in DOMAIN PlaceOrder : PlaceOrder[k] = name]>>

-----------------------------------------------------------------------------
(* The instructions of the stages.                                         *)

Load(name) == MoveIn(Place(name), name, Addresses(Bytes(Inputs[name])))
Store(name, operand, elements) == MoveOut(Place(name), operand, Addresses(Bytes(elements)))
Vector(name, elements, srcs) == Compute(Place(name), Chunks(Bytes(elements)), {Place(s) : s \in srcs}, FALSE, 0)
Product(name, rows, depth, size, srcs) ==
  Compute(Place(name), Chunks(Bytes(size)), {Place(s) : s \in srcs}, FALSE, rows * depth)

InProj ==
  <<Load("x"), Load("w_in"),
    Product("xin", 2 * layer.inner, layer.model, 2 * layer.inner, {"x", "w_in"})>>
Conv1d ==
  <<Load("conv_state"), Load("w_conv"), Load("b_conv"),
    Vector("conv_state", ConvElements, {"conv_state", "xin"}),
    Product("xact", layer.inner, layer.conv, layer.inner, {"conv_state", "w_conv"}),
    Vector("xact", layer.inner, {"xact"}),
    Store("conv_state", "conv_state_new", ConvElements)>>
XProj == <<Load("w_xproj"), Product("dt_raw", XProjRows, layer.inner, XProjRows, {"xact", "w_xproj"})>>
DtProj ==
  LET onDt(srcs) == Vector("dt", layer.inner, srcs) IN
  <<Load("w_dt"), Load("b_dt"),
    Product("dt", layer.inner, layer.rank, layer.inner, {"dt_raw", "w_dt"}),
    onDt({"dt", "b_dt"}), onDt({"dt"}), onDt({"dt"}), onDt({"dt"}), onDt({"dt"})>>
SsmUpdate ==
  <<Load("ssm_state"), Load("A_log"), Load("D"),
    Vector("ssm_state", StateElements, {"dt", "A_log"}),
    Vector("y", StateElements, {"dt", "B"}),
    Vector("ssm_state", StateElements, {"ssm_state", "xact"}),
    Vector("ssm_state", StateElements, {"ssm_state", "y"}),
    Product("y", layer.inner, layer.state, layer.inner, {"ssm_state", "C"}),
    Vector("y", layer.inner, {"xact", "D"}),
    Vector("y", layer.inner, {"y"}),
    Vector("z", layer.inner, {"z"}),
    Vector("y", layer.inner, {"y", "z"}),
    Store("ssm_state", "ssm_state_new", StateElements)>>
OutProj ==
  <<Load("w_out"),
    Product("out", layer.model, layer.inner, layer.model, {"y", "w_out"}),
    Store("out", "y", layer.model)>>

Loops == <<1>>
Program == InProj \o Conv1d \o XProj \o DtProj \o SsmUpdate \o OutProj

(* Places of which no instruction is the destination: z is the second half  *)
(* of the result at xin, B and C are the rest of the one at dt_raw.  A core *)
(* looks for an operand under the address at which a result was put.        *)
Parts == {Place("z"), Place("B"), Place("C")}

-----------------------------------------------------------------------------
(* What the operation reads, writes and multiplies.                        *)
Operands == [name \in DOMAIN Inputs |-> Bytes(Inputs[name])]
Results == [conv_state_new |-> Bytes(ConvElements), ssm_state_new |-> Bytes(StateElements), y |-> Bytes(layer.model)]
InFull == DOMAIN Operands \cup DOMAIN Results
Macs ==
  2 * layer.inner * layer.model + layer.inner * layer.conv + XProjRows * layer.inner
  + layer.inner * layer.rank + layer.inner * layer.state + layer.model * layer.inner
=============================================================================
