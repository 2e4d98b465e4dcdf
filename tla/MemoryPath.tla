----------------------------- MODULE MemoryPath -----------------------------
(***************************************************************************)
(* The way of a request from a core to the DRAM and back without an L2:    *)
(* the ICNT part of Simulator::cycle and SimpleInterconnect.  Nodes        *)
(* 0 .. NumCores * Ports - 1 are the ports of the cores, the memory        *)
(* channels follow.  Every pair of nodes has a queue of its own            *)
(* (_in_buffers); in a cycle each destination takes one transfer that has  *)
(* arrived, the sources in turn.                                           *)
(*                                                                         *)
(* The cores, the interconnect and the DRAM have clocks of their own: the  *)
(* masks of set_cycle_mask let them take their cycles in any order.  A     *)
(* MemoryAccess has the id of its place in a core's program and can come   *)
(* again once it was answered.                                             *)
(***************************************************************************)
EXTENDS Integers, Sequences, FiniteSets

CONSTANTS
  NumCores,       (* num_cores.                                            *)
  Ports,          (* icnt_injection_ports_per_core.                        *)
  Channels,       (* dram_channels.                                        *)
  Latency,        (* icnt_latency.                                         *)
  Request,        (* The MemoryAccesses,                                   *)
  CoreOf,         (* the core each one comes from                          *)
  ChannelOf       (* and the channel that get_channel_id hashes it to.     *)

Core == 0 .. NumCores - 1
Channel == 0 .. Channels - 1
Node == 0 .. NumCores * Ports + Channels - 1          \* _n_nodes
CorePort(c, p) == c * Ports + p
MemoryNode(h) == NumCores * Ports + h

ASSUME PathAssumption ==
  /\ NumCores \in Nat \ {0} /\ Ports \in Nat \ {0} /\ Channels \in Nat \ {0} /\ Latency \in Nat
  /\ CoreOf \in [Request -> Core] /\ ChannelOf \in [Request -> Channel]

VARIABLES
  request_queue,  (* Core::_request_queue of each core.                    *)
  in_buffer,      (* _in_buffers: the transfers between two nodes.         *)
  rr_next_src,    (* _rr_next_src of each node.                            *)
  out_buffer,     (* _out_buffers of each node.                            *)
  dram,           (* The requests in each channel of the DRAM,             *)
  dram_done,      (* and those it has finished, MemoryAccess::request off. *)
  pending         (* The requests that were asked and not answered.        *)

netVars == <<in_buffer, rr_next_src, out_buffer>>
vars == <<request_queue, netVars, dram, dram_done, pending>>

-----------------------------------------------------------------------------
(* A core cycle puts requests into the queue of the core.                  *)
IssueRequest(r) ==
  /\ r \notin pending
  /\ request_queue' = [request_queue EXCEPT ![CoreOf[r]] = Append(@, r)]
  /\ pending' = pending \cup {r}
  /\ UNCHANGED <<netVars, dram, dram_done>>

(* A DRAM cycle finishes some request of a channel, in any order.           *)
DramCycle(h, r) ==
  /\ r \in dram[h]
  /\ dram' = [dram EXCEPT ![h] = @ \ {r}]
  /\ dram_done' = [dram_done EXCEPT ![h] = Append(@, r)]
  /\ UNCHANGED <<request_queue, netVars, pending>>

-----------------------------------------------------------------------------
(* An ICNT cycle.  Each port of a core sends the next request of the core   *)
(* and takes an answer; each channel takes a request, if the DRAM has room, *)
(* and sends an answer; then the interconnect has its cycle.                *)

(* get_dest_node.                                                           *)
RequestNode(r) == MemoryNode(ChannelOf[r])
ResponseNodeCore(r) == CorePort(0, ChannelOf[r] % Ports)           \* slip: core_id
ResponseNode(r) == CorePort(CoreOf[r], ChannelOf[r] % Ports)

IsCorePort(n) == n < NumCores * Ports
CoreAt(n) == n \div Ports
PortAt(n) == n % Ports
ChannelAt(n) == n - NumCores * Ports

(* What node n sends in this cycle and where to, as a set of at most one.   *)
Sent(n) ==
  IF IsCorePort(n)
    THEN LET q == request_queue[CoreAt(n)] IN
         {[access |-> q[k], dest |-> RequestNode(q[k])] : k \in {PortAt(n) + 1} \cap DOMAIN q}
    ELSE LET q == dram_done[ChannelAt(n)] IN
         {[access |-> q[k], dest |-> ResponseNode(q[k])] : k \in {1} \cap DOMAIN q}

(* SimpleInterconnect::push.  finish_cycle is kept as the number of cycles  *)
(* to go; long past and just past are the same, as a node sends at most one *)
(* access in a cycle.                                                       *)
WaitOf(q) == IF q = <<>> THEN Latency ELSE q[Len(q)].wait + 1

Pushed(src, dest) ==
  LET q == in_buffer[src][dest]
      new == {x.access : x \in {y \in Sent(src) : y.dest = dest}} IN
  IF new = {} THEN q ELSE Append(q, [access |-> CHOOSE r \in new : TRUE, wait |-> WaitOf(q)])

(* SimpleInterconnect::cycle for one destination, with the buffers buf: the *)
(* sources that have an access that has arrived, the first of them in turn  *)
(* as a set of at most one, and the turn after it.                          *)
ReadySources(buf, dest) == {src \in Node : buf[src][dest] # <<>> /\ buf[src][dest][1].wait <= 0}
Turn(src, dest) == (src - rr_next_src[dest] + Cardinality(Node)) % Cardinality(Node)
GrantedSource(buf, dest) ==
  {src \in ReadySources(buf, dest) : \A other \in ReadySources(buf, dest) : Turn(src, dest) <= Turn(other, dest)}

NextTurn(granted, dest) ==
  IF granted = {} THEN rr_next_src[dest] ELSE ((CHOOSE src \in granted : TRUE) + 1) % Cardinality(Node)

AfterGrant(q, granted) ==
  LET rest == IF granted THEN Tail(q) ELSE q IN
  [k \in 1 .. Len(rest) |-> [rest[k] EXCEPT !.wait = IF @ > 0 THEN @ - 1 ELSE -1]]

(* The front of an out buffer leaves it: at a port always, at a channel if  *)
(* the DRAM is not full.                                                    *)
Taken(n, full) == out_buffer[n] # <<>> /\ (IsCorePort(n) \/ ChannelAt(n) \notin full)
LeftAnyway(n, full) ==                                 \* slip: pop after the if
  IF out_buffer[n] # <<>> THEN Tail(out_buffer[n]) ELSE <<>>
Left(n, full) == IF Taken(n, full) THEN Tail(out_buffer[n]) ELSE out_buffer[n]

DropPorts(q) == SubSeq(q, Ports + 1, Len(q))

IcntCycle(full) ==
  LET buf == [src \in Node |-> [dest \in Node |-> Pushed(src, dest)]]
      granted == [dest \in Node |-> GrantedSource(buf, dest)] IN
  /\ request_queue' = [c \in Core |-> DropPorts(request_queue[c])]
  /\ pending' = pending \ {out_buffer[n][1] : n \in {m \in Node : IsCorePort(m) /\ Taken(m, full)}}
  /\ dram' = [h \in Channel |->
                IF Taken(MemoryNode(h), full) THEN dram[h] \cup {Head(out_buffer[MemoryNode(h)])} ELSE dram[h]]
  /\ dram_done' = [h \in Channel |-> IF dram_done[h] = <<>> THEN <<>> ELSE Tail(dram_done[h])]
  /\ in_buffer' = [src \in Node |-> [dest \in Node |-> AfterGrant(buf[src][dest], src \in granted[dest])]]
  /\ rr_next_src' = [dest \in Node |-> NextTurn(granted[dest], dest)]
  /\ out_buffer' = [n \in Node |->
       IF granted[n] = {} THEN Left(n, full)
       ELSE Append(Left(n, full), (CHOOSE q \in {buf[src][n] : src \in granted[n]} : TRUE)[1].access)]

-----------------------------------------------------------------------------

Init ==
  /\ request_queue = [c \in Core |-> <<>>]
  /\ in_buffer = [src \in Node |-> [dest \in Node |-> <<>>]]
  /\ rr_next_src = [n \in Node |-> 0]
  /\ out_buffer = [n \in Node |-> <<>>]
  /\ dram = [h \in Channel |-> {}] /\ dram_done = [h \in Channel |-> <<>>]
  /\ pending = {}

Next ==
  \/ \E r \in Request : IssueRequest(r)
  \/ \E h \in Channel : \E r \in dram[h] : DramCycle(h, r)
  \/ \E full \in SUBSET Channel : IcntCycle(full)

Spec == Init /\ [][Next]_vars

(* The clock of the interconnect ticks for ever, the DRAM is not full for   *)
(* ever, and it finishes what it was given.                                 *)
Fairness ==
  /\ WF_vars(\E full \in SUBSET Channel : IcntCycle(full))
  /\ \A h \in Channel : SF_vars(\E full \in SUBSET (Channel \ {h}) : IcntCycle(full))
  /\ \A r \in Request : WF_vars(\E h \in Channel : DramCycle(h, r))

FairSpec == Spec /\ Fairness

-----------------------------------------------------------------------------
(* Properties.                                                             *)

Elements(q) == {q[k] : k \in 1 .. Len(q)}
Transfer == [access : Request, wait : Int]

(* Every variable holds a value of its C++ type.                            *)
TypeOK ==
  /\ request_queue \in [Core -> Seq(Request)]
  /\ in_buffer \in [Node -> [Node -> Seq(Transfer)]]
  /\ rr_next_src \in [Node -> Node]
  /\ out_buffer \in [Node -> Seq(Request)]
  /\ dram \in [Channel -> SUBSET Request] /\ dram_done \in [Channel -> Seq(Request)]
  /\ pending \subseteq Request

(* An answer reaches a port of the core that asked, over the port its       *)
(* channel belongs to, and a request the channel it is hashed to: nothing   *)
(* that waits at a node is for another one.                                 *)
AtTheRightNode ==
  /\ TypeOK
  /\ \A c \in Core, p \in 0 .. Ports - 1 : \A r \in Elements(out_buffer[CorePort(c, p)]) : CoreOf[r] = c
  /\ \A h \in Channel : \A r \in Elements(out_buffer[MemoryNode(h)]) \cup dram[h] : ChannelOf[r] = h

(* What waits somewhere between a core and the answer, as the places where  *)
(* requests are: the queue of a core, the buffer between two nodes, the     *)
(* buffer of a node, a channel of the DRAM and its finished requests.       *)
At(what, from, to, place, access) ==
  [what |-> what, from |-> from, to |-> to, place |-> place, access |-> access]

InQueue(q, c)        == {At("queue", c, c, k, q[k]) : k \in DOMAIN q}
OnPath(q, from, to)  == {At("path", from, to, k, q[k].access) : k \in DOMAIN q}
AtNode(q, n)         == {At("out", n, n, k, q[k]) : k \in DOMAIN q}
InDram(requests, h)  == {At("dram", h, h, 0, r) : r \in requests}
Finished(q, h)       == {At("done", h, h, k, q[k]) : k \in DOMAIN q}

InQueues(queue)      == UNION {InQueue(queue[c], c) : c \in Core}
OnPaths(path)        == UNION {UNION {OnPath(path[n][m], n, m) : m \in Node} : n \in Node}
AtNodes(out)         == UNION {AtNode(out[n], n) : n \in Node}
AtChannels(channel, done) == UNION {InDram(channel[h], h) \cup Finished(done[h], h) : h \in Channel}

Places(queue, path, out, channel, done) ==
  InQueues(queue) \cup OnPaths(path) \cup AtNodes(out) \cup AtChannels(channel, done)
Waiting == Places(request_queue, in_buffer, out_buffer, dram, dram_done)

(* Whatever was asked and not answered is somewhere on its way and at one   *)
(* place only, and nothing else is: no push or pop of the interconnect or   *)
(* of Simulator::cycle loses a request or has it answered twice.            *)
EachAtOnePlace ==
  /\ {w.access : w \in Waiting} = pending
  /\ \A v, w \in Waiting : v.access = w.access => v = w

(* Both hold of all that is under way.                                      *)
OnItsWay == AtTheRightNode /\ EachAtOnePlace

(* The way there and back keeps the promise the cores rely on: no request   *)
(* is lost or answered twice, and none waits for ever behind the others.    *)
Service == INSTANCE MemoryService
ServesMemory == Service!ServiceSpec
=============================================================================
