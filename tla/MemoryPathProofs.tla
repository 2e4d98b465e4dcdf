--------------------------- MODULE MemoryPathProofs ---------------------------
(***************************************************************************)
(* Proofs about MemoryPath: nothing that waits at a node is for another    *)
(* one, and whatever was asked and not answered is at one place, for any   *)
(* numbers of cores, ports and channels and any latency.                   *)
(***************************************************************************)
EXTENDS MemoryPath, TLAPS, FiniteSetTheorems, SequenceTheorems

(* The requests that a node and a channel may have, and the transfers that  *)
(* may be under way to a node.                                              *)
Bound(n) == {r \in Request : IF IsCorePort(n) THEN n = ResponseNode(r) ELSE n = RequestNode(r)}
Hashed(h) == {r \in Request : ChannelOf[r] = h}
Towards(n) == {x \in Transfer : x.access \in Bound(n)}

PathInv ==
  /\ request_queue \in [Core -> Seq(Request)] /\ pending \subseteq Request /\ rr_next_src \in [Node -> Node]
  /\ in_buffer \in [Node -> [Node -> Seq(Transfer)]] /\ \A src, dest \in Node : in_buffer[src][dest] \in Seq(Towards(dest))
  /\ out_buffer \in [Node -> Seq(Request)] /\ \A n \in Node : out_buffer[n] \in Seq(Bound(n))
  /\ dram \in [Channel -> SUBSET Request] /\ \A h \in Channel : dram[h] \subseteq Hashed(h)
  /\ dram_done \in [Channel -> Seq(Request)] /\ \A h \in Channel : dram_done[h] \in Seq(Hashed(h))

-----------------------------------------------------------------------------
(* The numbering of the nodes.                                             *)

LEMMA Products ==
  ASSUME NEW a \in Int, NEW b \in Int, NEW p \in Nat, a <= b
  PROVE  a * p \in Int /\ b * p \in Int /\ a * p <= b * p /\ (a + 1) * p = a * p + p
<1>1. PICK d \in Nat : b = a + d
  <2>1. b - a \in Nat /\ b = a + (b - a)
    OBVIOUS
  <2> QED BY <2>1
<1>2. d * p \in Nat /\ a * p \in Int /\ (a + d) * p = a * p + d * p /\ (a + 1) * p = a * p + p
  OBVIOUS
<1> QED BY <1>1, <1>2

LEMMA Sizes == NumCores \in Nat \ {0} /\ Ports \in Nat \ {0} /\ Channels \in Nat \ {0} /\ NumCores * Ports \in Nat
BY PathAssumption

(* A port has one core, and a node of the memory one channel.               *)
LEMMA PortOfOneCore ==
  ASSUME NEW c \in Int, NEW d \in Int, NEW p \in 0 .. Ports - 1, NEW q \in 0 .. Ports - 1, CorePort(c, p) = CorePort(d, q)
  PROVE  c = d
<1>1. Ports \in Nat /\ c * Ports \in Int /\ d * Ports \in Int /\ c * Ports + p = d * Ports + q
  BY Sizes DEF CorePort
<1>2. ASSUME c + 1 <= d PROVE FALSE
  <2>1. (c + 1) * Ports <= d * Ports /\ (c + 1) * Ports = c * Ports + Ports
    BY <1>1, <1>2, Products
  <2> QED BY <1>1, <2>1
<1>3. ASSUME d + 1 <= c PROVE FALSE
  <2>1. (d + 1) * Ports <= c * Ports /\ (d + 1) * Ports = d * Ports + Ports
    BY <1>1, <1>3, Products
  <2> QED BY <1>1, <2>1
<1> QED BY <1>2, <1>3

LEMMA CorePorts ==
  ASSUME NEW c \in Core, NEW p \in 0 .. Ports - 1
  PROVE  CorePort(c, p) \in Node /\ IsCorePort(CorePort(c, p))
<1>1. c \in Int /\ 0 <= c /\ c + 1 <= NumCores /\ Ports \in Nat /\ NumCores \in Nat /\ Channels \in Nat
  BY Sizes DEF Core
<1>2. 0 * Ports <= c * Ports /\ c * Ports \in Int /\ 0 * Ports = 0
  BY <1>1, Products
<1>3. (c + 1) * Ports <= NumCores * Ports /\ (c + 1) * Ports = c * Ports + Ports /\ NumCores * Ports \in Int
  BY <1>1, Products
<1> QED BY <1>1, <1>2, <1>3 DEF CorePort, Node, IsCorePort

LEMMA MemoryNodes ==
  ASSUME NEW h \in Channel
  PROVE  MemoryNode(h) \in Node /\ ~IsCorePort(MemoryNode(h)) /\ ChannelAt(MemoryNode(h)) = h
BY Sizes DEF Channel, MemoryNode, Node, IsCorePort, ChannelAt

LEMMA NodeKinds ==
  ASSUME NEW n \in Node
  PROVE  /\ IsCorePort(n) => CoreAt(n) \in Core /\ PortAt(n) \in Nat
         /\ ~IsCorePort(n) => ChannelAt(n) \in Channel /\ n = MemoryNode(ChannelAt(n))
<1>1. n \in Nat /\ Ports \in Nat \ {0} /\ NumCores \in Nat /\ NumCores * Ports \in Nat
  BY Sizes DEF Node
<1>2. ASSUME IsCorePort(n) PROVE CoreAt(n) \in Core /\ PortAt(n) \in Nat
  <2> DEFINE q == n \div Ports
             r == n % Ports
  <2>1. q \in Int /\ r \in 0 .. Ports - 1 /\ n = Ports * q + r
    BY <1>1
  <2> HIDE DEF q, r
  <2>2. Ports * q = q * Ports /\ q * Ports \in Int
    BY <1>1, <2>1
  <2>3. n < NumCores * Ports
    BY <1>2 DEF IsCorePort
  <2>4. q <= NumCores - 1
    <3> SUFFICES ASSUME NumCores <= q PROVE FALSE
      BY <1>1, <2>1
    <3>1. NumCores * Ports <= q * Ports
      BY <1>1, <2>1, Products
    <3> QED BY <1>1, <2>1, <2>2, <2>3, <3>1
  <2>5. 0 <= q
    <3> SUFFICES ASSUME q + 1 <= 0 PROVE FALSE
      BY <2>1
    <3>1. (q + 1) * Ports <= 0 * Ports /\ (q + 1) * Ports = q * Ports + Ports /\ 0 * Ports = 0
      BY <1>1, <2>1, Products
    <3> QED BY <1>1, <2>1, <2>2, <3>1
  <2> QED BY <1>1, <2>1, <2>4, <2>5 DEF CoreAt, PortAt, Core, q, r
<1>3. ASSUME ~IsCorePort(n) PROVE ChannelAt(n) \in Channel /\ n = MemoryNode(ChannelAt(n))
  BY <1>1, <1>3, Sizes DEF Node, IsCorePort, ChannelAt, Channel, MemoryNode
<1> QED BY <1>2, <1>3

(* A request goes to its channel, an answer to a port of its core.          *)
LEMMA Destinations ==
  ASSUME NEW r \in Request
  PROVE  /\ RequestNode(r) \in Node /\ r \in Bound(RequestNode(r))
         /\ ResponseNode(r) \in Node /\ r \in Bound(ResponseNode(r))
<1>1. CoreOf[r] \in Core /\ ChannelOf[r] \in Channel /\ ChannelOf[r] \in Nat
  BY PathAssumption DEF Channel
<1>2. ChannelOf[r] % Ports \in 0 .. Ports - 1
  BY <1>1, Sizes
<1> QED BY <1>1, <1>2, CorePorts, MemoryNodes DEF RequestNode, ResponseNode, Bound

-----------------------------------------------------------------------------
(* What a cycle of the interconnect moves.                                 *)

LEMMA SentFacts ==
  ASSUME PathInv, NEW n \in Node, NEW x \in Sent(n)
  PROVE  x.access \in Bound(x.dest) /\ x.access \in Request
<1>1. CASE IsCorePort(n)
  <2> DEFINE q == request_queue[CoreAt(n)]
  <2>1. q \in Seq(Request)
    BY <1>1, NodeKinds DEF PathInv
  <2>2. PICK k \in {PortAt(n) + 1} \cap DOMAIN q : x = [access |-> q[k], dest |-> RequestNode(q[k])]
    BY <1>1 DEF Sent
  <2>3. q[k] \in Request
    BY <2>1, <2>2, LenProperties, ElementOfSeq
  <2> QED BY <2>2, <2>3, Destinations
<1>2. CASE ~IsCorePort(n)
  <2> DEFINE q == dram_done[ChannelAt(n)]
  <2>1. q \in Seq(Request)
    BY <1>2, NodeKinds DEF PathInv
  <2>2. PICK k \in {1} \cap DOMAIN q : x = [access |-> q[k], dest |-> ResponseNode(q[k])]
    BY <1>2 DEF Sent
  <2>3. q[k] \in Request
    BY <2>1, <2>2, LenProperties, ElementOfSeq
  <2> QED BY <2>2, <2>3, Destinations
<1> QED BY <1>1, <1>2

LEMMA PushedFacts ==
  ASSUME PathInv, NEW src \in Node, NEW dest \in Node
  PROVE  Pushed(src, dest) \in Seq(Towards(dest))
<1> DEFINE q == in_buffer[src][dest]
           new == {x.access : x \in {y \in Sent(src) : y.dest = dest}}
           transfer == [access |-> CHOOSE r \in new : TRUE, wait |-> WaitOf(q)]
<1>1. q \in Seq(Towards(dest))
  BY DEF PathInv
<1>2. CASE new = {}
  BY <1>1, <1>2 DEF Pushed
<1>3. CASE new # {}
  <2>1. \A r \in new : r \in Bound(dest) /\ r \in Request
    BY SentFacts
  <2>2. (CHOOSE r \in new : TRUE) \in new
    BY <1>3
  <2>3. WaitOf(q) \in Int
    <3>1. CASE q = <<>>
      BY <3>1, PathAssumption DEF WaitOf
    <3>2. CASE q # <<>>
      <4>1. Len(q) \in 1 .. Len(q)
        BY <1>1, <3>2, EmptySeq, LenProperties
      <4>2. q[Len(q)] \in Towards(dest)
        BY <1>1, <4>1, ElementOfSeq
      <4>3. q[Len(q)].wait \in Int
        BY <4>2 DEF Towards, Transfer
      <4> QED BY <3>2, <4>3 DEF WaitOf
    <3> QED BY <3>1, <3>2
  <2>4. transfer \in Towards(dest)
    BY <2>1, <2>2, <2>3 DEF Towards, Transfer
  <2>5. Pushed(src, dest) = Append(q, transfer)
    BY <1>3 DEF Pushed
  <2> HIDE DEF q, new, transfer
  <2> QED BY <1>1, <2>4, <2>5, AppendProperties
<1> QED BY <1>2, <1>3

LEMMA AfterGrantFacts ==
  ASSUME NEW dest \in Node, NEW q \in Seq(Towards(dest)), NEW granted \in BOOLEAN, granted => q # <<>>
  PROVE  AfterGrant(q, granted) \in Seq(Towards(dest))
<1> DEFINE rest == IF granted THEN Tail(q) ELSE q
           moved(x) == [x EXCEPT !.wait = IF @ > 0 THEN @ - 1 ELSE -1]
<1>1. rest \in Seq(Towards(dest))
  BY HeadTailProperties
<1>2. Len(rest) \in Nat
  BY <1>1, LenProperties
<1>3. \A k \in 1 .. Len(rest) : rest[k] \in Towards(dest)
  BY <1>1, ElementOfSeq
<1>4. AfterGrant(q, granted) = [k \in 1 .. Len(rest) |-> moved(rest[k])]
  BY DEF AfterGrant
<1> HIDE DEF rest
<1>5. \A k \in 1 .. Len(rest) : moved(rest[k]) \in Towards(dest)
  BY <1>3 DEF Towards, Transfer
<1> HIDE DEF moved
<1>6. [k \in 1 .. Len(rest) |-> moved(rest[k])] \in [1 .. Len(rest) -> Towards(dest)]
  BY <1>5
<1>7. \A n \in Nat : [1 .. n -> Towards(dest)] \subseteq Seq(Towards(dest))
  BY SeqDef
<1> QED BY <1>2, <1>4, <1>6, <1>7

-----------------------------------------------------------------------------
(* The steps.                                                              *)

LEMMA BoundSubset ==
  /\ \A n : Bound(n) \subseteq Request /\ Towards(n) \subseteq Transfer
  /\ \A h : Hashed(h) \subseteq Request
BY DEF Bound, Towards, Hashed

LEMMA IcntInv ==
  ASSUME PathInv, NEW full \in SUBSET Channel, IcntCycle(full)
  PROVE  PathInv'
<1> DEFINE buf == [src \in Node |-> [dest \in Node |-> Pushed(src, dest)]]
           granted == [dest \in Node |-> GrantedSource(buf, dest)]
           left(n) == Left(n, full)
           taken(n) == (CHOOSE q \in {buf[src][n] : src \in granted[n]} : TRUE)[1].access
<1>1. \A src, dest \in Node : buf[src][dest] \in Seq(Towards(dest))
  BY PushedFacts
<1>2. \A dest \in Node : granted[dest] \subseteq Node /\ \A src \in granted[dest] : buf[src][dest] # <<>>
  BY DEF GrantedSource, ReadySources
<1>3. /\ request_queue' = [c \in Core |-> DropPorts(request_queue[c])]
      /\ pending' \subseteq pending
      /\ dram' = [h \in Channel |->
                    IF Taken(MemoryNode(h), full) THEN dram[h] \cup {Head(out_buffer[MemoryNode(h)])} ELSE dram[h]]
      /\ dram_done' = [h \in Channel |-> IF dram_done[h] = <<>> THEN <<>> ELSE Tail(dram_done[h])]
      /\ in_buffer' = [src \in Node |-> [dest \in Node |-> AfterGrant(buf[src][dest], src \in granted[dest])]]
      /\ rr_next_src' = [dest \in Node |-> NextTurn(granted[dest], dest)]
      /\ out_buffer' = [n \in Node |-> IF granted[n] = {} THEN left(n) ELSE Append(left(n), taken(n))]
  BY DEF IcntCycle
<1> HIDE DEF buf, granted, left, taken
<1>4. request_queue' \in [Core -> Seq(Request)] /\ pending' \subseteq Request
  <2>1. ASSUME NEW c \in Core PROVE DropPorts(request_queue[c]) \in Seq(Request)
    <3> DEFINE q == request_queue[c]
    <3>1. q \in Seq(Request)
      BY DEF PathInv
    <3> HIDE DEF q
    <3>2. Len(q) \in Nat /\ Ports + 1 \in Nat /\ 1 <= Ports + 1
      BY <3>1, LenProperties, Sizes
    <3>3. \A k \in Ports + 1 .. Len(q) : q[k] \in Request
      BY <3>1, <3>2, ElementOfSeq
    <3>4. SubSeq(q, Ports + 1, Len(q)) \in Seq(Request)
      BY <3>2, <3>3, SubSeqProperties
    <3> QED BY <3>4 DEF DropPorts, q
  <2> QED BY <1>3, <2>1 DEF PathInv
<1>5. rr_next_src' \in [Node -> Node]
  <2>1. Cardinality(Node) = NumCores * Ports + Channels
    <3>1. 0 \in Int /\ NumCores * Ports + Channels - 1 \in Int
      BY Sizes
    <3>2. Cardinality(0 .. NumCores * Ports + Channels - 1) =
            IF 0 > NumCores * Ports + Channels - 1 THEN 0 ELSE (NumCores * Ports + Channels - 1) - 0 + 1
      BY <3>1, FS_Interval
    <3> QED BY <3>2, Sizes DEF Node
  <2>2. ASSUME NEW dest \in Node PROVE NextTurn(granted[dest], dest) \in Node
    <3>1. CASE granted[dest] = {}
      BY <3>1 DEF NextTurn, PathInv
    <3>2. CASE granted[dest] # {}
      <4>1. PICK src \in Node : src = CHOOSE s \in granted[dest] : TRUE
        BY <1>2, <3>2
      <4>2. src + 1 \in Nat
        BY <4>1 DEF Node
      <4>3. \A n \in Nat \ {0} : (src + 1) % n \in 0 .. n - 1
        BY <4>2
      <4>4. NextTurn(granted[dest], dest) = (src + 1) % Cardinality(Node)
        BY <3>2, <4>1 DEF NextTurn
      <4>5. Cardinality(Node) \in Nat \ {0}
        BY <2>1, Sizes
      <4>6. (src + 1) % Cardinality(Node) \in 0 .. Cardinality(Node) - 1
        BY <4>3, <4>5
      <4>7. Node = 0 .. Cardinality(Node) - 1
        BY <2>1, Sizes DEF Node
      <4> QED BY <4>4, <4>6, <4>7
    <3> QED BY <3>1, <3>2
  <2> QED BY <1>3, <2>2
<1>6. \A src, dest \in Node : AfterGrant(buf[src][dest], src \in granted[dest]) \in Seq(Towards(dest))
  <2> SUFFICES ASSUME NEW src \in Node, NEW dest \in Node
               PROVE  AfterGrant(buf[src][dest], src \in granted[dest]) \in Seq(Towards(dest))
    OBVIOUS
  <2>1. PICK q \in Seq(Towards(dest)) : q = buf[src][dest]
    BY <1>1
  <2>2. CASE src \in granted[dest]
    <3>1. q # <<>>
      BY <1>2, <2>1, <2>2
    <3>2. AfterGrant(q, TRUE) \in Seq(Towards(dest))
      BY <3>1, AfterGrantFacts
    <3> QED BY <2>1, <2>2, <3>2 DEF AfterGrant
  <2>3. CASE src \notin granted[dest]
    <3>1. AfterGrant(q, FALSE) \in Seq(Towards(dest))
      BY AfterGrantFacts
    <3> QED BY <2>1, <2>3, <3>1 DEF AfterGrant
  <2> QED BY <2>2, <2>3
<1>7. /\ in_buffer' \in [Node -> [Node -> Seq(Transfer)]]
      /\ \A src, dest \in Node : in_buffer'[src][dest] \in Seq(Towards(dest))
  <2>1. \A dest : Seq(Towards(dest)) \subseteq Seq(Transfer)
    BY BoundSubset, SeqMonotonic
  <2> QED BY <1>3, <1>6, <2>1
<1>8. ASSUME NEW n \in Node PROVE out_buffer'[n] \in Seq(Bound(n))
  <2>1. out_buffer[n] \in Seq(Bound(n))
    BY DEF PathInv
  <2>2. left(n) \in Seq(Bound(n))
    <3>1. Taken(n, full) => out_buffer[n] # <<>>
      BY DEF Taken
    <3> QED BY <2>1, <3>1, HeadTailProperties DEF Left, left
  <2>3. ASSUME granted[n] # {} PROVE taken(n) \in Bound(n)
    <3>1. PICK src \in granted[n] : buf[src][n] = CHOOSE q \in {buf[x][n] : x \in granted[n]} : TRUE
      BY <2>3
    <3>2. src \in Node /\ buf[src][n] # <<>> /\ buf[src][n] \in Seq(Towards(n))
      BY <1>1, <1>2, <3>1
    <3>3. 1 \in 1 .. Len(buf[src][n])
      BY <3>2, EmptySeq
    <3>4. buf[src][n][1] \in Towards(n)
      BY <3>2, <3>3, ElementOfSeq
    <3> QED BY <3>1, <3>4 DEF taken, Towards
  <2>4. out_buffer'[n] = IF granted[n] = {} THEN left(n) ELSE Append(left(n), taken(n))
    BY <1>3
  <2> QED BY <2>2, <2>3, <2>4, AppendProperties
<1>9. out_buffer' \in [Node -> Seq(Request)]
  <2>1. \A n \in Node : out_buffer'[n] \in Seq(Request)
    BY <1>8, BoundSubset, SeqMonotonic
  <2>2. out_buffer' = [n \in Node |-> out_buffer'[n]]
    BY <1>3
  <2> QED BY <2>1, <2>2
<1>10. ASSUME NEW h \in Channel PROVE dram'[h] \subseteq Hashed(h)
  <2>1. ASSUME Taken(MemoryNode(h), full) PROVE Head(out_buffer[MemoryNode(h)]) \in Hashed(h)
    <3>1. MemoryNode(h) \in Node /\ ~IsCorePort(MemoryNode(h)) /\ h \in Nat
      BY MemoryNodes DEF Channel
    <3>2. Head(out_buffer[MemoryNode(h)]) \in Bound(MemoryNode(h))
      BY <2>1, <3>1, HeadTailProperties DEF PathInv, Taken
    <3>3. \A r \in Request : ChannelOf[r] \in Nat
      BY PathAssumption DEF Channel
    <3>4. \A k \in Nat : MemoryNode(h) = MemoryNode(k) => h = k
      BY <3>1, Sizes DEF MemoryNode
    <3> QED BY <3>1, <3>2, <3>3, <3>4 DEF Bound, Hashed, RequestNode
  <2> QED BY <1>3, <2>1 DEF PathInv
<1>11. dram' \in [Channel -> SUBSET Request]
  <2>1. \A h \in Channel : dram'[h] \subseteq Request
    BY <1>10, BoundSubset
  <2>2. dram' = [h \in Channel |-> dram'[h]]
    BY <1>3
  <2> QED BY <2>1, <2>2
<1>12. \A h \in Channel : dram_done'[h] \in Seq(Hashed(h)) /\ dram_done'[h] \in Seq(Request)
  <2> SUFFICES ASSUME NEW h \in Channel PROVE dram_done'[h] \in Seq(Hashed(h))
    BY BoundSubset, SeqMonotonic
  <2> QED BY <1>3, HeadTailProperties, EmptySeq DEF PathInv
<1>13. dram_done' \in [Channel -> Seq(Request)]
  <2>1. dram_done' = [h \in Channel |-> dram_done'[h]]
    BY <1>3
  <2> QED BY <1>12, <2>1
<1> QED BY <1>4, <1>5, <1>7, <1>8, <1>9, <1>10, <1>11, <1>12, <1>13 DEF PathInv

LEMMA IssueInv ==
  ASSUME PathInv, NEW r \in Request, IssueRequest(r)
  PROVE  PathInv'
<1>1. \A c \in Core : Append(request_queue[c], r) \in Seq(Request)
  BY AppendProperties DEF PathInv
<1>2. request_queue' = [request_queue EXCEPT ![CoreOf[r]] = Append(@, r)] /\ pending' = pending \cup {r}
  BY DEF IssueRequest
<1>3. request_queue' \in [Core -> Seq(Request)] /\ pending' \subseteq Request
  BY <1>1, <1>2 DEF PathInv
<1>4. UNCHANGED <<in_buffer, rr_next_src, out_buffer, dram, dram_done>>
  BY DEF IssueRequest, netVars
<1> QED BY <1>3, <1>4 DEF PathInv

LEMMA DramInv ==
  ASSUME PathInv, NEW h \in Channel, NEW r \in dram[h], DramCycle(h, r)
  PROVE  PathInv'
<1>1. r \in Hashed(h) /\ r \in Request
  BY BoundSubset DEF PathInv
<1>2. /\ dram' = [dram EXCEPT ![h] = @ \ {r}] /\ dram_done' = [dram_done EXCEPT ![h] = Append(@, r)]
      /\ UNCHANGED <<request_queue, in_buffer, rr_next_src, out_buffer, pending>>
  BY DEF DramCycle, netVars
<1>3. Append(dram_done[h], r) \in Seq(Hashed(h)) /\ Append(dram_done[h], r) \in Seq(Request)
  BY <1>1, AppendProperties DEF PathInv
<1>4. /\ dram_done' \in [Channel -> Seq(Request)]
      /\ \A k \in Channel : dram_done'[k] \in Seq(Hashed(k))
  BY <1>2, <1>3 DEF PathInv
<1>5. dram' \in [Channel -> SUBSET Request] /\ \A k \in Channel : dram'[k] \subseteq Hashed(k)
  BY <1>2 DEF PathInv
<1> QED BY <1>2, <1>4, <1>5 DEF PathInv

LEMMA InitPath == Init => PathInv
<1> SUFFICES ASSUME Init PROVE PathInv
  OBVIOUS
<1>1. \A S : <<>> \in Seq(S)
  BY EmptySeq
<1>2. 0 \in Node
  BY Sizes DEF Node
<1> QED BY <1>1, <1>2 DEF Init, PathInv

LEMMA PathNext == PathInv /\ [Next]_vars => PathInv'
<1> SUFFICES ASSUME PathInv, [Next]_vars PROVE PathInv'
  OBVIOUS
<1>1. ASSUME NEW r \in Request, IssueRequest(r) PROVE PathInv'
  BY <1>1, IssueInv
<1>2. ASSUME NEW h \in Channel, NEW r \in dram[h], DramCycle(h, r) PROVE PathInv'
  BY <1>2, DramInv
<1>3. ASSUME NEW full \in SUBSET Channel, IcntCycle(full) PROVE PathInv'
  BY <1>3, IcntInv
<1>4. CASE UNCHANGED vars
  BY <1>4 DEF vars, netVars, PathInv
<1> QED BY <1>1, <1>2, <1>3, <1>4 DEF Next

LEMMA InvPlaces == PathInv => AtTheRightNode
<1> SUFFICES ASSUME PathInv PROVE AtTheRightNode
  OBVIOUS
<1>1. TypeOK
  BY DEF PathInv, TypeOK
<1>2. \A n \in Node : \A r \in Elements(out_buffer[n]) : r \in Bound(n) /\ r \in Request
  BY ElementOfSeq, BoundSubset DEF PathInv, Elements
<1>3. ASSUME NEW c \in Core, NEW p \in 0 .. Ports - 1, NEW r \in Elements(out_buffer[CorePort(c, p)])
      PROVE  CoreOf[r] = c
  <2>1. r \in Request /\ CorePort(c, p) = ResponseNode(r)
    BY <1>2, CorePorts DEF Bound
  <2>2. CoreOf[r] \in Int /\ c \in Int /\ ChannelOf[r] % Ports \in 0 .. Ports - 1
    BY <2>1, PathAssumption, Sizes DEF Core, Channel
  <2> QED BY <2>1, <2>2, PortOfOneCore DEF ResponseNode
<1>4. ASSUME NEW h \in Channel, NEW r \in Elements(out_buffer[MemoryNode(h)]) \cup dram[h]
      PROVE  ChannelOf[r] = h
  <2>1. CASE r \in dram[h]
    BY <2>1 DEF PathInv, Hashed
  <2>2. CASE r \in Elements(out_buffer[MemoryNode(h)])
    <3>1. r \in Request /\ MemoryNode(h) = MemoryNode(ChannelOf[r])
      BY <1>2, <2>2, MemoryNodes DEF Bound, RequestNode
    <3>2. ChannelOf[r] \in Nat /\ h \in Nat
      BY <3>1, PathAssumption DEF Channel
    <3> QED BY <3>1, <3>2, Sizes DEF MemoryNode
  <2> QED BY <2>1, <2>2
<1> QED BY <1>1, <1>3, <1>4 DEF AtTheRightNode

-----------------------------------------------------------------------------
(* Each request at one place.  A cycle of the interconnect is two moves:    *)
(* the ports and the channels send, then the interconnect grants.           *)

AtOnePlace(places, asked) ==
  /\ {w.access : w \in places} = asked
  /\ \A v, w \in places : v.access = w.access => v = w

OnWayInv == PathInv /\ EachAtOnePlace

LEMMA InPlaces ==
  ASSUME NEW queue, NEW path, NEW out, NEW channel, NEW done, NEW w
  PROVE  w \in Places(queue, path, out, channel, done) <=>
           \/ \E c \in Core : \E k \in DOMAIN queue[c] : w = At("queue", c, c, k, queue[c][k])
           \/ \E n, m \in Node : \E k \in DOMAIN path[n][m] : w = At("path", n, m, k, path[n][m][k].access)
           \/ \E n \in Node : \E k \in DOMAIN out[n] : w = At("out", n, n, k, out[n][k])
           \/ \E h \in Channel : \E r \in channel[h] : w = At("dram", h, h, 0, r)
           \/ \E h \in Channel : \E k \in DOMAIN done[h] : w = At("done", h, h, k, done[h][k])
<1>1. \A q, c : w \in InQueue(q, c) <=> \E k \in DOMAIN q : w = At("queue", c, c, k, q[k])
  BY DEF InQueue
<1>2. \A q, n, m : w \in OnPath(q, n, m) <=> \E k \in DOMAIN q : w = At("path", n, m, k, q[k].access)
  BY DEF OnPath
<1>3. \A q, n : w \in AtNode(q, n) <=> \E k \in DOMAIN q : w = At("out", n, n, k, q[k])
  BY DEF AtNode
<1>4. \A S, h : w \in InDram(S, h) <=> \E r \in S : w = At("dram", h, h, 0, r)
  BY DEF InDram
<1>5. \A q, h : w \in Finished(q, h) <=> \E k \in DOMAIN q : w = At("done", h, h, k, q[k])
  BY DEF Finished
<1>6. w \in Places(queue, path, out, channel, done) <=>
        \/ \E c \in Core : w \in InQueue(queue[c], c)
        \/ \E n, m \in Node : w \in OnPath(path[n][m], n, m)
        \/ \E n \in Node : w \in AtNode(out[n], n)
        \/ \E h \in Channel : w \in InDram(channel[h], h)
        \/ \E h \in Channel : w \in Finished(done[h], h)
  <2>1. w \in InQueues(queue) <=> \E c \in Core : w \in InQueue(queue[c], c)
    BY DEF InQueues
  <2>2. w \in OnPaths(path) <=> \E n, m \in Node : w \in OnPath(path[n][m], n, m)
    BY DEF OnPaths
  <2>3. w \in AtNodes(out) <=> \E n \in Node : w \in AtNode(out[n], n)
    BY DEF AtNodes
  <2>4. w \in AtChannels(channel, done) <=> \E h \in Channel : w \in InDram(channel[h], h) \/ w \in Finished(done[h], h)
    BY DEF AtChannels
  <2> QED BY <2>1, <2>2, <2>3, <2>4 DEF Places
<1> QED BY <1>1, <1>2, <1>3, <1>4, <1>5, <1>6

LEMMA AtFields ==
  ASSUME NEW what, NEW from, NEW to, NEW place, NEW access
  PROVE  /\ At(what, from, to, place, access).what = what /\ At(what, from, to, place, access).from = from
         /\ At(what, from, to, place, access).to = to /\ At(what, from, to, place, access).place = place
         /\ At(what, from, to, place, access).access = access
BY DEF At

(* What comes from somewhere, each from a place of its own, and leaves      *)
(* nothing behind but what has gone, is at one place again.                 *)
LEMMA Moves ==
  ASSUME NEW before, NEW after, NEW gone, NEW asked, NEW origin,
         AtOnePlace(before, asked), gone \subseteq before,
         \A w \in after : origin[w] \in before /\ origin[w] \notin gone /\ origin[w].access = w.access,
         \A v, w \in after : origin[v] = origin[w] => v = w,
         \A v \in before : v \in gone \/ \E w \in after : w.access = v.access
  PROVE  AtOnePlace(after, asked \ {v.access : v \in gone})
<1>1. \A v, w \in after : v.access = w.access => v = w
  <2> SUFFICES ASSUME NEW v \in after, NEW w \in after, v.access = w.access PROVE v = w
    OBVIOUS
  <2>1. origin[v] = origin[w]
    BY DEF AtOnePlace
  <2> QED BY <2>1
<1>2. ASSUME NEW w \in after PROVE w.access \in asked \ {v.access : v \in gone}
  <2>1. origin[w] \in before /\ origin[w] \notin gone /\ origin[w].access = w.access
    OBVIOUS
  <2>2. \A v \in gone : v.access # w.access
    BY <2>1 DEF AtOnePlace
  <2> QED BY <2>1, <2>2 DEF AtOnePlace
<1>3. ASSUME NEW r \in asked \ {v.access : v \in gone} PROVE \E w \in after : w.access = r
  <2>1. PICK v \in before : v.access = r
    BY DEF AtOnePlace
  <2> QED BY <2>1
<1>4. {w.access : w \in after} = asked \ {v.access : v \in gone}
  BY <1>2, <1>3
<1> QED BY <1>1, <1>4 DEF AtOnePlace

(* The state between the two moves.                                         *)
Dropped == [c \in Core |-> DropPorts(request_queue[c])]
Buffers == [src \in Node |-> [dest \in Node |-> Pushed(src, dest)]]
DoneLeft == [h \in Channel |-> IF dram_done[h] = <<>> THEN <<>> ELSE Tail(dram_done[h])]

LEMMA DroppedFacts ==
  ASSUME PathInv, NEW c \in Core
  PROVE  /\ \A k \in DOMAIN Dropped[c] :
              /\ k \in Nat \ {0} /\ k + Ports \in DOMAIN request_queue[c]
              /\ Dropped[c][k] = request_queue[c][k + Ports]
         /\ \A k \in DOMAIN request_queue[c] : k > Ports =>
              k - Ports \in DOMAIN Dropped[c] /\ Dropped[c][k - Ports] = request_queue[c][k]
         /\ \A k \in DOMAIN request_queue[c] : k \in Nat \ {0}
<1>1. PICK q : q = request_queue[c]
  OBVIOUS
<1>2. q \in Seq(Request) /\ Len(q) \in Nat /\ DOMAIN q = 1 .. Len(q) /\ Ports \in Nat \ {0}
  BY <1>1, LenProperties, Sizes DEF PathInv
<1>3. PICK d : d = SubSeq(q, Ports + 1, Len(q))
  OBVIOUS
<1>4. \A k \in Ports + 1 .. Len(q) : q[k] \in Request
  BY <1>2, ElementOfSeq
<1>5. /\ d \in Seq(Request) /\ Len(d) = IF Ports + 1 <= Len(q) THEN Len(q) - (Ports + 1) + 1 ELSE 0
      /\ \A k \in 1 .. Len(q) - (Ports + 1) + 1 : d[k] = q[Ports + 1 + k - 1]
  BY <1>2, <1>3, <1>4, SubSeqProperties
<1>6. DOMAIN d = 1 .. Len(d)
  BY <1>5, LenProperties
<1>7. Dropped[c] = d
  BY <1>1, <1>3 DEF Dropped, DropPorts
<1>8. PICK n, p \in Nat : n = Len(q) /\ p = Ports
  BY <1>2
<1>9. DOMAIN q = 1 .. n /\ DOMAIN d = 1 .. Len(d) /\ Len(d) = (IF p + 1 <= n THEN n - p ELSE 0)
  <2>1. Len(d) = IF p + 1 <= n THEN n - (p + 1) + 1 ELSE 0
    BY <1>5, <1>8, Zenon
  <2>2. CASE p + 1 <= n
    BY <1>2, <1>6, <1>8, <2>1, <2>2
  <2>3. CASE ~(p + 1 <= n)
    BY <1>2, <1>6, <1>8, <2>1, <2>3
  <2> QED BY <2>2, <2>3
<1>10. \A k \in 1 .. n - p : d[k] = q[k + p]
  <2> SUFFICES ASSUME NEW k \in 1 .. n - p PROVE d[k] = q[k + p]
    OBVIOUS
  <2>1. k \in 1 .. Len(q) - (Ports + 1) + 1 /\ Ports + 1 + k - 1 = k + p
    BY <1>8
  <2> QED BY <1>5, <2>1
<1>11. \A k \in DOMAIN d : k \in Nat \ {0} /\ k + p \in DOMAIN q /\ d[k] = q[k + p]
  BY <1>9, <1>10
<1>12. \A k \in DOMAIN q : k \in Nat \ {0} /\ (k > p => k - p \in DOMAIN d /\ d[k - p] = q[k])
  <2> SUFFICES ASSUME NEW k \in DOMAIN q, k > p PROVE k - p \in DOMAIN d /\ d[k - p] = q[k]
    BY <1>9
  <2>1. PICK j \in 1 .. n - p : j = k - p /\ j + p = k
    BY <1>9
  <2> QED BY <1>9, <1>10, <2>1
<1> QED BY <1>1, <1>7, <1>8, <1>11, <1>12

LEMMA DoneLeftFacts ==
  ASSUME PathInv, NEW h \in Channel
  PROVE  /\ \A k \in DOMAIN DoneLeft[h] :
              k \in Nat \ {0} /\ k + 1 \in DOMAIN dram_done[h] /\ DoneLeft[h][k] = dram_done[h][k + 1]
         /\ \A k \in DOMAIN dram_done[h] : k > 1 => k - 1 \in DOMAIN DoneLeft[h] /\ DoneLeft[h][k - 1] = dram_done[h][k]
         /\ \A k \in DOMAIN dram_done[h] : k \in Nat \ {0}
<1>1. PICK q : q = dram_done[h]
  OBVIOUS
<1>2. q \in Seq(Request) /\ Len(q) \in Nat /\ DOMAIN q = 1 .. Len(q)
  BY <1>1, LenProperties DEF PathInv
<1>3. CASE q = <<>>
  <2>1. DOMAIN q = {} /\ DoneLeft[h] = q
    <3>1. Len(q) = 0
      BY <1>3, EmptySeq
    <3>2. DoneLeft[h] = q
      BY <1>1, <1>3 DEF DoneLeft
    <3> QED BY <1>2, <3>1, <3>2
  <2> QED BY <1>1, <2>1
<1>4. CASE q # <<>>
  <2>1. PICK d : d = Tail(q)
    OBVIOUS
  <2>2. d \in Seq(Request) /\ Len(d) = Len(q) - 1 /\ \A i \in 1 .. Len(d) : d[i] = q[i + 1]
    BY <1>2, <1>4, <2>1, HeadTailProperties
  <2>3. DOMAIN d = 1 .. Len(d)
    BY <2>2, LenProperties
  <2>4. DoneLeft[h] = d
    BY <1>1, <1>4, <2>1 DEF DoneLeft
  <2> QED BY <1>1, <1>2, <2>2, <2>3, <2>4
<1> QED BY <1>3, <1>4

(* A node sends at most one request, which then is behind those that are    *)
(* under way to where it goes.                                              *)
SentFrom(n) ==
  IF IsCorePort(n)
    THEN At("queue", CoreAt(n), CoreAt(n), PortAt(n) + 1, request_queue[CoreAt(n)][PortAt(n) + 1])
    ELSE At("done", ChannelAt(n), ChannelAt(n), 1, dram_done[ChannelAt(n)][1])
Sends(n) ==
  IF IsCorePort(n) THEN PortAt(n) + 1 \in DOMAIN request_queue[CoreAt(n)] ELSE 1 \in DOMAIN dram_done[ChannelAt(n)]
GoesTo(n) == IF IsCorePort(n) THEN RequestNode(SentFrom(n).access) ELSE ResponseNode(SentFrom(n).access)

LEMMA SentOne ==
  ASSUME NEW n
  PROVE  Sent(n) = IF Sends(n) THEN {[access |-> SentFrom(n).access, dest |-> GoesTo(n)]} ELSE {}
<1>1. CASE IsCorePort(n)
  <2>1. PICK q, p : q = request_queue[CoreAt(n)] /\ p = PortAt(n) + 1
    OBVIOUS
  <2>2. Sent(n) = {[access |-> q[k], dest |-> RequestNode(q[k])] : k \in {p} \cap DOMAIN q}
    BY <1>1, <2>1 DEF Sent
  <2>3. SentFrom(n).access = q[p] /\ GoesTo(n) = RequestNode(q[p]) /\ (Sends(n) <=> p \in DOMAIN q)
    BY <1>1, <2>1 DEF SentFrom, GoesTo, Sends, At
  <2> QED BY <2>2, <2>3
<1>2. CASE ~IsCorePort(n)
  <2>1. PICK q : q = dram_done[ChannelAt(n)]
    OBVIOUS
  <2>2. Sent(n) = {[access |-> q[k], dest |-> ResponseNode(q[k])] : k \in {1} \cap DOMAIN q}
    BY <1>2, <2>1 DEF Sent
  <2>3. SentFrom(n).access = q[1] /\ GoesTo(n) = ResponseNode(q[1]) /\ (Sends(n) <=> 1 \in DOMAIN q)
    BY <1>2, <2>1 DEF SentFrom, GoesTo, Sends, At
  <2> QED BY <2>2, <2>3
<1> QED BY <1>1, <1>2

LEMMA BuffersFacts ==
  ASSUME PathInv, NEW src \in Node, NEW dest \in Node
  PROVE  /\ Buffers[src][dest] \in Seq(Towards(dest))
         /\ DOMAIN in_buffer[src][dest] \subseteq DOMAIN Buffers[src][dest]
         /\ \A k \in DOMAIN in_buffer[src][dest] : Buffers[src][dest][k] = in_buffer[src][dest][k]
         /\ \A k \in DOMAIN Buffers[src][dest] : k \notin DOMAIN in_buffer[src][dest] =>
              Sends(src) /\ GoesTo(src) = dest /\ Buffers[src][dest][k].access = SentFrom(src).access
              /\ k = Len(in_buffer[src][dest]) + 1
         /\ Sends(src) /\ GoesTo(src) = dest =>
              \E k \in DOMAIN Buffers[src][dest] : Buffers[src][dest][k].access = SentFrom(src).access
<1>1. PICK q, b : q = in_buffer[src][dest] /\ b = Buffers[src][dest]
  OBVIOUS
<1>2. q \in Seq(Towards(dest)) /\ Len(q) \in Nat /\ DOMAIN q = 1 .. Len(q)
  BY <1>1, LenProperties DEF PathInv
<1>3. b = Pushed(src, dest) /\ b \in Seq(Towards(dest))
  BY <1>1, PushedFacts DEF Buffers
<1>4. CASE Sends(src) /\ GoesTo(src) = dest
  <2>1. PICK a : a = SentFrom(src).access
    OBVIOUS
  <2>2. {x.access : x \in {y \in Sent(src) : y.dest = dest}} = {a}
    <3>1. PICK s : s = [access |-> a, dest |-> dest]
      OBVIOUS
    <3>2. Sent(src) = {s} /\ s.dest = dest /\ s.access = a
      BY <1>4, <2>1, <3>1, SentOne
    <3>3. {y \in Sent(src) : y.dest = dest} = {s}
      BY <3>2
    <3> QED BY <3>2, <3>3
  <2>3. PICK x : x = [access |-> a, wait |-> WaitOf(q)]
    OBVIOUS
  <2>4. b = Append(q, x)
    BY <1>1, <1>3, <2>2, <2>3 DEF Pushed
  <2>5. /\ Len(b) = Len(q) + 1 /\ DOMAIN b = 1 .. Len(b) /\ b[Len(q) + 1] = x
        /\ \A i \in 1 .. Len(q) : b[i] = q[i]
    <3>1. x \in Towards(dest)
      <4>1. Len(b) = Len(q) + 1 /\ b[Len(q) + 1] = x
        BY <1>2, <2>4
      <4>2. Len(q) + 1 \in 1 .. Len(b)
        BY <1>2, <4>1
      <4> QED BY <1>3, <4>1, <4>2, ElementOfSeq
    <3> QED BY <1>2, <1>3, <2>4, <3>1, AppendProperties, LenProperties
  <2>6. x.access = a
    BY <2>3
  <2> QED BY <1>1, <1>2, <1>3, <1>4, <2>1, <2>5, <2>6
<1>5. CASE ~(Sends(src) /\ GoesTo(src) = dest)
  <2>1. {y \in Sent(src) : y.dest = dest} = {}
    BY <1>5, SentOne
  <2>2. b = q
    BY <1>1, <1>3, <2>1 DEF Pushed
  <2> QED BY <1>1, <1>2, <1>3, <1>5, <2>2
<1> QED BY <1>4, <1>5

(* The ports and the channels send.                                         *)
LEMMA NodeNumber ==
  ASSUME NEW n \in Node, IsCorePort(n)
  PROVE  PortAt(n) \in 0 .. Ports - 1 /\ CoreAt(n) \in Int /\ n = CorePort(CoreAt(n), PortAt(n))
<1>1. n \in Nat /\ Ports \in Nat \ {0}
  BY Sizes DEF Node
<1>2. n \div Ports \in Int /\ n % Ports \in 0 .. Ports - 1 /\ n = Ports * (n \div Ports) + (n % Ports)
  BY <1>1
<1>3. PICK q \in Int : q = n \div Ports
  BY <1>2
<1>4. Ports * q = q * Ports
  BY <1>1
<1> QED BY <1>2, <1>3, <1>4 DEF CoreAt, PortAt, CorePort

LEMMA PortNumber ==
  ASSUME NEW c \in Core, NEW p \in 0 .. Ports - 1
  PROVE  CoreAt(CorePort(c, p)) = c /\ PortAt(CorePort(c, p)) = p
<1>1. PICK n : n = CorePort(c, p)
  OBVIOUS
<1>2. n \in Node /\ IsCorePort(n)
  BY <1>1, CorePorts
<1>3. PortAt(n) \in 0 .. Ports - 1 /\ CoreAt(n) \in Int /\ n = CorePort(CoreAt(n), PortAt(n))
  BY <1>2, NodeNumber
<1>4. CoreAt(n) = c
  BY <1>1, <1>3, PortOfOneCore DEF Core
<1>5. c * Ports \in Int
  BY Sizes DEF Core
<1> QED BY <1>1, <1>3, <1>4, <1>5, Sizes DEF CorePort

LEMMA SentFromFacts ==
  ASSUME PathInv, NEW n \in Node, Sends(n)
  PROVE  /\ SentFrom(n) \in Waiting
         /\ \/ SentFrom(n).what = "queue" /\ SentFrom(n).place \in 1 .. Ports
            \/ SentFrom(n).what = "done" /\ SentFrom(n).place = 1
         /\ GoesTo(n) \in Node
<1>1. CASE IsCorePort(n)
  <2>0. PICK c \in Core, p \in 0 .. Ports - 1 : c = CoreAt(n) /\ p = PortAt(n)
    BY <1>1, NodeNumber, NodeKinds
  <2>1. PICK q : c = CoreAt(n) /\ p = PortAt(n) /\ q = request_queue[c]
    BY <2>0
  <2>2. SentFrom(n) = At("queue", c, c, p + 1, q[p + 1]) /\ p + 1 \in DOMAIN q
    BY <1>1, <2>1 DEF SentFrom, Sends
  <2>3. q[p + 1] \in Request
    BY <2>1, <2>2, LenProperties, ElementOfSeq DEF PathInv
  <2>4. SentFrom(n) \in Waiting
    BY <2>1, <2>2, InPlaces DEF Waiting
  <2>5. SentFrom(n).what = "queue" /\ SentFrom(n).place = p + 1 /\ SentFrom(n).access = q[p + 1]
    BY <2>2, AtFields
  <2>6. GoesTo(n) \in Node
    BY <1>1, <2>3, <2>5, Destinations DEF GoesTo
  <2>7. p + 1 \in 1 .. Ports
    BY Sizes
  <2> QED BY <2>4, <2>5, <2>6, <2>7
<1>2. CASE ~IsCorePort(n)
  <2>0. PICK h \in Channel : h = ChannelAt(n)
    BY <1>2, NodeKinds
  <2>1. PICK q : h = ChannelAt(n) /\ q = dram_done[h]
    BY <2>0
  <2>2. SentFrom(n) = At("done", h, h, 1, q[1]) /\ 1 \in DOMAIN q
    BY <1>2, <2>1 DEF SentFrom, Sends
  <2>3. q[1] \in Request
    BY <2>1, <2>2, LenProperties, ElementOfSeq DEF PathInv
  <2>4. SentFrom(n) \in Waiting
    BY <2>1, <2>2, InPlaces DEF Waiting
  <2>5. SentFrom(n).what = "done" /\ SentFrom(n).place = 1 /\ SentFrom(n).access = q[1]
    BY <2>2, AtFields
  <2>6. GoesTo(n) \in Node
    BY <1>2, <2>3, <2>5, Destinations DEF GoesTo
  <2> QED BY <2>4, <2>5, <2>6
<1> QED BY <1>1, <1>2

LEMMA SentFromOne ==
  ASSUME NEW n \in Node, NEW m \in Node, SentFrom(n) = SentFrom(m)
  PROVE  n = m
<1>1. IsCorePort(n) => SentFrom(n).what = "queue" /\ SentFrom(n).from = CoreAt(n) /\ SentFrom(n).place = PortAt(n) + 1
  BY AtFields DEF SentFrom
<1>2. ~IsCorePort(n) => SentFrom(n).what = "done" /\ SentFrom(n).from = ChannelAt(n)
  BY AtFields DEF SentFrom
<1>3. IsCorePort(m) => SentFrom(m).what = "queue" /\ SentFrom(m).from = CoreAt(m) /\ SentFrom(m).place = PortAt(m) + 1
  BY AtFields DEF SentFrom
<1>4. ~IsCorePort(m) => SentFrom(m).what = "done" /\ SentFrom(m).from = ChannelAt(m)
  BY AtFields DEF SentFrom
<1>5. CASE IsCorePort(n)
  <2>1. IsCorePort(m)
    BY <1>1, <1>4, <1>5
  <2>2. CoreAt(n) = CoreAt(m) /\ PortAt(n) + 1 = PortAt(m) + 1
    BY <1>1, <1>3, <1>5, <2>1
  <2>3. PortAt(n) \in Int /\ PortAt(m) \in Int
    BY <1>5, <2>1, NodeNumber, Sizes
  <2> QED BY <1>5, <2>1, <2>2, <2>3, NodeNumber
<1>6. CASE ~IsCorePort(n)
  <2>1. ~IsCorePort(m)
    BY <1>2, <1>3, <1>6
  <2> QED BY <1>2, <1>4, <1>6, <2>1, NodeKinds
<1> QED BY <1>5, <1>6

(* Where what waits between the two moves was before the first.             *)
Between == Places(Dropped, Buffers, out_buffer, dram, DoneLeft)
Came(w) ==
  IF w.what = "queue" THEN At("queue", w.from, w.from, w.place + Ports, w.access)
  ELSE IF w.what = "done" THEN At("done", w.from, w.from, w.place + 1, w.access)
  ELSE IF w.what = "path" /\ w.place \notin DOMAIN in_buffer[w.from][w.to] THEN SentFrom(w.from)
  ELSE w

LEMMA CameFacts ==
  ASSUME PathInv, NEW w \in Between
  PROVE  /\ Came(w) \in Waiting /\ Came(w).access = w.access
         /\ w = At(w.what, w.from, w.to, w.place, w.access)
         /\ \/ /\ w.what \in {"queue", "done"} /\ w.to = w.from /\ w.place \in Nat \ {0}
               /\ Came(w) = At(w.what, w.from, w.from, w.place + (IF w.what = "queue" THEN Ports ELSE 1), w.access)
            \/ /\ w.what = "path" /\ w.from \in Node /\ Sends(w.from) /\ w.to = GoesTo(w.from)
               /\ w.place = Len(in_buffer[w.from][w.to]) + 1 /\ Came(w) = SentFrom(w.from)
            \/ w.what \in {"path", "out", "dram"} /\ Came(w) = w
<1>1. CASE \E c \in Core : \E k \in DOMAIN Dropped[c] : w = At("queue", c, c, k, Dropped[c][k])
  <2>0. PICK c \in Core : \E k \in DOMAIN Dropped[c] : w = At("queue", c, c, k, Dropped[c][k])
    BY <1>1
  <2>1. PICK k \in DOMAIN Dropped[c] : w = At("queue", c, c, k, Dropped[c][k])
    BY <2>0
  <2>2. w.what = "queue" /\ w.from = c /\ w.to = c /\ w.place = k /\ w.access = Dropped[c][k]
    BY <2>1, AtFields
  <2>3. k \in Nat \ {0} /\ k + Ports \in DOMAIN request_queue[c] /\ Dropped[c][k] = request_queue[c][k + Ports]
    BY DroppedFacts
  <2>4. Came(w) = At("queue", c, c, k + Ports, request_queue[c][k + Ports])
    BY <2>2, <2>3 DEF Came
  <2>5. Came(w) \in Waiting
    BY <2>3, <2>4, InPlaces DEF Waiting
  <2> QED BY <2>1, <2>2, <2>3, <2>4, <2>5, AtFields
<1>2. CASE \E h \in Channel : \E k \in DOMAIN DoneLeft[h] : w = At("done", h, h, k, DoneLeft[h][k])
  <2>0. PICK h \in Channel : \E k \in DOMAIN DoneLeft[h] : w = At("done", h, h, k, DoneLeft[h][k])
    BY <1>2
  <2>1. PICK k \in DOMAIN DoneLeft[h] : w = At("done", h, h, k, DoneLeft[h][k])
    BY <2>0
  <2>2. w.what = "done" /\ w.from = h /\ w.to = h /\ w.place = k /\ w.access = DoneLeft[h][k]
    BY <2>1, AtFields
  <2>3. k \in Nat \ {0} /\ k + 1 \in DOMAIN dram_done[h] /\ DoneLeft[h][k] = dram_done[h][k + 1]
    BY DoneLeftFacts
  <2>4. Came(w) = At("done", h, h, k + 1, dram_done[h][k + 1])
    BY <2>2, <2>3 DEF Came
  <2>5. Came(w) \in Waiting
    BY <2>3, <2>4, InPlaces DEF Waiting
  <2> QED BY <2>1, <2>2, <2>3, <2>4, <2>5, AtFields
<1>3. CASE \E n, m \in Node : \E k \in DOMAIN Buffers[n][m] : w = At("path", n, m, k, Buffers[n][m][k].access)
  <2>0. PICK n \in Node, m \in Node : \E k \in DOMAIN Buffers[n][m] : w = At("path", n, m, k, Buffers[n][m][k].access)
    BY <1>3
  <2>1. PICK k \in DOMAIN Buffers[n][m] : w = At("path", n, m, k, Buffers[n][m][k].access)
    BY <2>0
  <2>2. w.what = "path" /\ w.from = n /\ w.to = m /\ w.place = k /\ w.access = Buffers[n][m][k].access
    BY <2>1, AtFields
  <2>3. CASE k \in DOMAIN in_buffer[n][m]
    <3>1. Came(w) = w
      BY <2>2, <2>3 DEF Came
    <3>2. w = At("path", n, m, k, in_buffer[n][m][k].access)
      BY <2>1, <2>3, BuffersFacts
    <3>3. w \in Waiting
      BY <2>3, <3>2, InPlaces DEF Waiting
    <3> QED BY <2>1, <2>2, <3>1, <3>3
  <2>4. CASE k \notin DOMAIN in_buffer[n][m]
    <3>1. Came(w) = SentFrom(n)
      BY <2>2, <2>4 DEF Came
    <3>2. /\ Sends(n) /\ GoesTo(n) = m /\ Buffers[n][m][k].access = SentFrom(n).access
          /\ k = Len(in_buffer[n][m]) + 1
      BY <2>4, BuffersFacts
    <3>3. SentFrom(n) \in Waiting
      BY <3>2, SentFromFacts
    <3> QED BY <2>1, <2>2, <3>1, <3>2, <3>3
  <2> QED BY <2>3, <2>4
<1>4. CASE \E n \in Node : \E k \in DOMAIN out_buffer[n] : w = At("out", n, n, k, out_buffer[n][k])
  <2>1. w.what = "out" /\ w = At(w.what, w.from, w.to, w.place, w.access)
    BY <1>4, AtFields
  <2>2. w \in Waiting
    BY <1>4, InPlaces DEF Waiting
  <2> QED BY <2>1, <2>2 DEF Came
<1>5. CASE \E h \in Channel : \E r \in dram[h] : w = At("dram", h, h, 0, r)
  <2>1. w.what = "dram" /\ w = At(w.what, w.from, w.to, w.place, w.access)
    BY <1>5, AtFields
  <2>2. w \in Waiting
    BY <1>5, InPlaces DEF Waiting
  <2> QED BY <2>1, <2>2 DEF Came
<1> QED BY <1>1, <1>2, <1>3, <1>4, <1>5, InPlaces DEF Between

LEMMA CameOne ==
  ASSUME PathInv, NEW v \in Between, NEW w \in Between, Came(v) = Came(w)
  PROVE  v = w
<1>1. v.access = w.access /\ v = At(v.what, v.from, v.to, v.place, v.access) /\ w = At(w.what, w.from, w.to, w.place, w.access)
  BY CameFacts
<1> DEFINE Popped(x) == /\ x.what \in {"queue", "done"} /\ x.to = x.from /\ x.place \in Nat \ {0}
                        /\ Came(x) = At(x.what, x.from, x.from, x.place + (IF x.what = "queue" THEN Ports ELSE 1), x.access)
           New(x) == /\ x.what = "path" /\ x.from \in Node /\ Sends(x.from) /\ x.to = GoesTo(x.from)
                     /\ x.place = Len(in_buffer[x.from][x.to]) + 1 /\ Came(x) = SentFrom(x.from)
           Same(x) == x.what \in {"path", "out", "dram"} /\ Came(x) = x
<1>2. \A x \in Between : Popped(x) \/ New(x) \/ Same(x)
  BY CameFacts
<1>3. \A x \in Between : Popped(x) =>
        /\ Came(x).what = x.what /\ Came(x).from = x.from
        /\ Came(x).place = x.place + (IF x.what = "queue" THEN Ports ELSE 1)
  BY AtFields
<1>4. \A x \in Between : New(x) =>
        \/ Came(x).what = "queue" /\ Came(x).place \in 1 .. Ports
        \/ Came(x).what = "done" /\ Came(x).place = 1
  BY SentFromFacts
<1>5. ASSUME NEW x \in Between, NEW y \in Between, Popped(x), New(y), Came(x) = Came(y) PROVE FALSE
  BY <1>3, <1>4, <1>5, Sizes
<1>6. ASSUME NEW x \in Between, NEW y \in Between, Same(x), Popped(y) \/ New(y), Came(x) = Came(y) PROVE FALSE
  BY <1>3, <1>4, <1>6
<1>7. CASE Popped(v) /\ Popped(w)
  <2>1. v.what = w.what /\ v.from = w.from /\ v.to = w.to
    BY <1>3, <1>7
  <2>2. PICK d \in Int : d = IF v.what = "queue" THEN Ports ELSE 1
    BY Sizes
  <2>3. Came(v).place = v.place + d /\ Came(w).place = w.place + d
    BY <1>3, <1>7, <2>1, <2>2
  <2>4. v.place = w.place
    BY <1>7, <2>2, <2>3
  <2> QED BY <1>1, <2>1, <2>4
<1>8. CASE New(v) /\ New(w)
  <2>1. v.from = w.from
    BY <1>8, SentFromOne
  <2> QED BY <1>1, <1>8, <2>1
<1>9. CASE Same(v) /\ Same(w)
  BY <1>9
<1> HIDE DEF Popped, New, Same
<1> QED BY <1>2, <1>5, <1>6, <1>7, <1>8, <1>9

LEMMA SendingLosesNone ==
  ASSUME PathInv, NEW v \in Waiting
  PROVE  \E w \in Between : w.access = v.access
<1>1. ASSUME NEW n \in Node, Sends(n), v = SentFrom(n) PROVE \E w \in Between : w.access = v.access
  <2>1. PICK m \in Node : m = GoesTo(n)
    BY <1>1, SentFromFacts
  <2>2. PICK k \in DOMAIN Buffers[n][m] : Buffers[n][m][k].access = v.access
    BY <1>1, <2>1, BuffersFacts
  <2>3. At("path", n, m, k, Buffers[n][m][k].access) \in Between
    BY InPlaces DEF Between
  <2> QED BY <2>2, <2>3, AtFields
<1>2. CASE \E c \in Core : \E k \in DOMAIN request_queue[c] : v = At("queue", c, c, k, request_queue[c][k])
  <2>0. PICK c \in Core : \E k \in DOMAIN request_queue[c] : v = At("queue", c, c, k, request_queue[c][k])
    BY <1>2
  <2>1. PICK k \in DOMAIN request_queue[c] : v = At("queue", c, c, k, request_queue[c][k])
    BY <2>0
  <2>2. k \in Nat \ {0} /\ Ports \in Nat
    BY DroppedFacts, Sizes
  <2>3. CASE k > Ports
    <3>1. PICK j \in DOMAIN Dropped[c] : Dropped[c][j] = request_queue[c][k]
      BY <2>3, DroppedFacts
    <3>2. At("queue", c, c, j, Dropped[c][j]) \in Between
      BY InPlaces DEF Between
    <3> QED BY <2>1, <3>1, <3>2, AtFields
  <2>4. CASE ~(k > Ports)
    <3>1. PICK p \in 0 .. Ports - 1 : p + 1 = k
      <4>1. k - 1 \in 0 .. Ports - 1 /\ (k - 1) + 1 = k
        BY <2>2, <2>4
      <4> QED BY <4>1
    <3>2. PICK n \in Node : n = CorePort(c, p) /\ IsCorePort(n)
      BY CorePorts
    <3>3. CoreAt(n) = c /\ PortAt(n) = p
      BY <3>2, PortNumber
    <3>4. Sends(n) /\ SentFrom(n) = v
      BY <2>1, <3>1, <3>2, <3>3 DEF Sends, SentFrom
    <3> QED BY <1>1, <3>4
  <2> QED BY <2>3, <2>4
<1>3. CASE \E h \in Channel : \E k \in DOMAIN dram_done[h] : v = At("done", h, h, k, dram_done[h][k])
  <2>0. PICK h \in Channel : \E k \in DOMAIN dram_done[h] : v = At("done", h, h, k, dram_done[h][k])
    BY <1>3
  <2>1. PICK k \in DOMAIN dram_done[h] : v = At("done", h, h, k, dram_done[h][k])
    BY <2>0
  <2>2. k \in Nat \ {0}
    BY DoneLeftFacts
  <2>3. CASE k > 1
    <3>1. PICK j \in DOMAIN DoneLeft[h] : DoneLeft[h][j] = dram_done[h][k]
      BY <2>3, DoneLeftFacts
    <3>2. At("done", h, h, j, DoneLeft[h][j]) \in Between
      BY InPlaces DEF Between
    <3> QED BY <2>1, <3>1, <3>2, AtFields
  <2>4. CASE ~(k > 1)
    <3>1. k = 1
      BY <2>2, <2>4
    <3>2. PICK n \in Node : n = MemoryNode(h) /\ ~IsCorePort(n) /\ ChannelAt(n) = h
      BY MemoryNodes
    <3>3. Sends(n) /\ SentFrom(n) = v
      BY <2>1, <3>1, <3>2 DEF Sends, SentFrom
    <3> QED BY <1>1, <3>3
  <2> QED BY <2>3, <2>4
<1>4. CASE \E n, m \in Node : \E k \in DOMAIN in_buffer[n][m] : v = At("path", n, m, k, in_buffer[n][m][k].access)
  <2>0. PICK n \in Node, m \in Node : \E k \in DOMAIN in_buffer[n][m] : v = At("path", n, m, k, in_buffer[n][m][k].access)
    BY <1>4
  <2>1. PICK k \in DOMAIN in_buffer[n][m] : v = At("path", n, m, k, in_buffer[n][m][k].access)
    BY <2>0
  <2>2. k \in DOMAIN Buffers[n][m] /\ Buffers[n][m][k] = in_buffer[n][m][k]
    BY BuffersFacts
  <2>3. At("path", n, m, k, Buffers[n][m][k].access) \in Between
    BY <2>2, InPlaces DEF Between
  <2> QED BY <2>1, <2>2, <2>3
<1>5. CASE \E n \in Node : \E k \in DOMAIN out_buffer[n] : v = At("out", n, n, k, out_buffer[n][k])
  <2>1. v \in Between
    BY <1>5, InPlaces DEF Between
  <2> QED BY <2>1
<1>6. CASE \E h \in Channel : \E r \in dram[h] : v = At("dram", h, h, 0, r)
  <2>1. v \in Between
    BY <1>6, InPlaces DEF Between
  <2> QED BY <2>1
<1> QED BY <1>2, <1>3, <1>4, <1>5, <1>6, InPlaces DEF Waiting

LEMMA Sending ==
  ASSUME OnWayInv
  PROVE  AtOnePlace(Between, pending)
<1> DEFINE origin == [w \in Between |-> Came(w)]
<1>1. PathInv /\ AtOnePlace(Waiting, pending)
  BY DEF OnWayInv, EachAtOnePlace, AtOnePlace
<1>2. \A w \in Between : origin[w] = Came(w) /\ origin[w] \in Waiting /\ origin[w].access = w.access
  BY <1>1, CameFacts
<1>3. \A v, w \in Between : origin[v] = origin[w] => v = w
  BY <1>1, CameOne
<1>4. \A v \in Waiting : \E w \in Between : w.access = v.access
  BY <1>1, SendingLosesNone
<1> HIDE DEF origin
<1>5. PICK before, after, asked : before = Waiting /\ after = Between /\ asked = pending
  OBVIOUS
<1>6. AtOnePlace(after, asked \ {v.access : v \in {}})
  <2>1. AtOnePlace(before, asked) /\ {} \subseteq before
    BY <1>1, <1>5
  <2>2. \A w \in after : origin[w] \in before /\ origin[w] \notin {} /\ origin[w].access = w.access
    BY <1>2, <1>5
  <2>3. \A v, w \in after : origin[v] = origin[w] => v = w
    BY <1>3, <1>5
  <2>4. \A v \in before : v \in {} \/ \E w \in after : w.access = v.access
    BY <1>4, <1>5
  <2> HIDE DEF origin
  <2> QED BY <2>1, <2>2, <2>3, <2>4, Moves
<1>7. asked \ {v.access : v \in {}} = asked
  OBVIOUS
<1> QED BY <1>5, <1>6, <1>7

(* One source is granted, as no two are at the same distance from the turn. *)
LEMMA NodeCount == Cardinality(Node) = NumCores * Ports + Channels
<1>1. 0 \in Int /\ NumCores * Ports + Channels - 1 \in Int
  BY Sizes
<1>2. Cardinality(0 .. NumCores * Ports + Channels - 1) =
        IF 0 > NumCores * Ports + Channels - 1 THEN 0 ELSE (NumCores * Ports + Channels - 1) - 0 + 1
  BY <1>1, FS_Interval
<1> QED BY <1>2, Sizes DEF Node

LEMMA SameTurn ==
  ASSUME NEW n \in Nat \ {0}, NEW a \in 0 .. n - 1, NEW b \in 0 .. n - 1, NEW r \in 0 .. n - 1,
         (a - r + n) % n = (b - r + n) % n
  PROVE  a = b
<1>1. PICK x, y \in Nat : x = a - r + n /\ y = b - r + n
  <2>1. a - r + n \in Nat /\ b - r + n \in Nat
    OBVIOUS
  <2> QED BY <2>1
<1>2. PICK p, q, m \in Int : p = x \div n /\ q = y \div n /\ m = x % n
  OBVIOUS
<1>3. x = n * p + m /\ y = n * q + m
  BY <1>1, <1>2
<1>4. n * p = p * n /\ n * q = q * n /\ p * n \in Int /\ q * n \in Int
  OBVIOUS
<1>5. ASSUME p + 1 <= q PROVE FALSE
  <2>1. (p + 1) * n <= q * n /\ (p + 1) * n = p * n + n
    BY <1>5, Products
  <2> QED BY <1>1, <1>3, <1>4, <2>1
<1>6. ASSUME q + 1 <= p PROVE FALSE
  <2>1. (q + 1) * n <= p * n /\ (q + 1) * n = q * n + n
    BY <1>6, Products
  <2> QED BY <1>1, <1>3, <1>4, <2>1
<1> QED BY <1>1, <1>3, <1>4, <1>5, <1>6

LEMMA GrantedOne ==
  ASSUME PathInv, NEW buf, NEW dest \in Node, NEW x \in GrantedSource(buf, dest), NEW y \in GrantedSource(buf, dest)
  PROVE  x = y
<1>1. PICK n \in Nat \ {0} : n = Cardinality(Node)
  BY NodeCount, Sizes
<1>2. Node = 0 .. n - 1
  BY <1>1, NodeCount, Sizes DEF Node
<1>3. x \in Node /\ y \in Node /\ Turn(x, dest) <= Turn(y, dest) /\ Turn(y, dest) <= Turn(x, dest)
  BY DEF GrantedSource, ReadySources
<1>4. PICK r \in Node : r = rr_next_src[dest]
  BY DEF PathInv
<1>5. Turn(x, dest) = (x - r + n) % n /\ Turn(y, dest) = (y - r + n) % n
  BY <1>1, <1>4 DEF Turn
<1>6. x - r + n \in Nat /\ y - r + n \in Nat
  BY <1>2, <1>3
<1>7. (x - r + n) % n \in Int /\ (y - r + n) % n \in Int
  BY <1>6
<1>8. (x - r + n) % n = (y - r + n) % n
  BY <1>3, <1>5, <1>7
<1> QED BY <1>2, <1>3, <1>8, SameTurn

(* The state after the second move.                                         *)
Granted(dest) == GrantedSource(Buffers, dest)
InAfter == [src \in Node |-> [dest \in Node |-> AfterGrant(Buffers[src][dest], src \in Granted(dest))]]
Arrival(n) == (CHOOSE q \in {Buffers[src][n] : src \in Granted(n)} : TRUE)[1].access
OutAfter(full) ==
  [n \in Node |-> IF Granted(n) = {} THEN Left(n, full) ELSE Append(Left(n, full), Arrival(n))]
DramAfter(full) ==
  [h \in Channel |-> IF Taken(MemoryNode(h), full) THEN dram[h] \cup {Head(out_buffer[MemoryNode(h)])} ELSE dram[h]]

LEMMA GrantedFacts ==
  ASSUME PathInv, NEW dest \in Node, NEW src \in Granted(dest)
  PROVE  /\ src \in Node /\ 1 \in DOMAIN Buffers[src][dest]
         /\ Arrival(dest) = Buffers[src][dest][1].access /\ Arrival(dest) \in Request
<1>1. src \in Node /\ Buffers[src][dest] # <<>>
  BY DEF Granted, GrantedSource, ReadySources
<1>2. PICK b \in Seq(Towards(dest)) : b = Buffers[src][dest]
  BY <1>1, BuffersFacts
<1>3. 1 \in 1 .. Len(b) /\ DOMAIN b = 1 .. Len(b)
  BY <1>1, <1>2, EmptySeq, LenProperties
<1>4. {Buffers[x][dest] : x \in Granted(dest)} = {b}
  <2>1. \A x \in Granted(dest) : x = src
    BY GrantedOne DEF Granted
  <2> QED BY <1>2, <2>1
<1>5. b[1] \in Towards(dest)
  BY <1>3, ElementOfSeq
<1>6. Arrival(dest) = b[1].access
  BY <1>4 DEF Arrival
<1> QED BY <1>1, <1>2, <1>3, <1>5, <1>6 DEF Towards, Transfer

(* A queue from which d elements have been taken, none or one.              *)
LEMMA Shifted ==
  ASSUME NEW S, NEW q \in Seq(S), NEW d \in {0, 1}, d = 1 => q # <<>>, NEW r, r = IF d = 1 THEN Tail(q) ELSE q
  PROVE  /\ r \in Seq(S) /\ Len(r) \in Nat /\ Len(q) \in Nat /\ Len(r) = Len(q) - d
         /\ DOMAIN r = 1 .. Len(r) /\ DOMAIN q = 1 .. Len(q)
         /\ \A i \in 1 .. Len(r) : r[i] = q[i + d]
<1>1. Len(q) \in Nat /\ DOMAIN q = 1 .. Len(q)
  BY LenProperties
<1>2. CASE d = 1
  <2>1. r = Tail(q) /\ q # <<>>
    BY <1>2
  <2>2. r \in Seq(S) /\ Len(r) = Len(q) - 1 /\ \A i \in 1 .. Len(r) : r[i] = q[i + 1]
    BY <2>1, HeadTailProperties
  <2>3. Len(r) \in Nat /\ DOMAIN r = 1 .. Len(r)
    BY <2>2, LenProperties
  <2> QED BY <1>1, <1>2, <2>2, <2>3
<1>3. CASE d = 0
  <2>1. r = q
    BY <1>3
  <2>2. PICK n \in Nat : n = Len(q)
    BY <1>1
  <2>3. n = n - d /\ \A i \in 1 .. n : i + d = i
    BY <1>3
  <2> QED BY <1>1, <2>1, <2>2, <2>3
<1> QED BY <1>2, <1>3

LEMMA InAfterFacts ==
  ASSUME PathInv, NEW src \in Node, NEW dest \in Node, NEW d \in {0, 1}, d = 1 <=> src \in Granted(dest)
  PROVE  /\ \A k \in DOMAIN InAfter[src][dest] :
              /\ k \in Nat \ {0} /\ k + d \in DOMAIN Buffers[src][dest]
              /\ InAfter[src][dest][k].access = Buffers[src][dest][k + d].access
         /\ \A k \in DOMAIN Buffers[src][dest] : k > d =>
              k - d \in DOMAIN InAfter[src][dest] /\ InAfter[src][dest][k - d].access = Buffers[src][dest][k].access
         /\ \A k \in DOMAIN Buffers[src][dest] : k \in Nat \ {0}
<1>1. PICK b \in Seq(Towards(dest)) : b = Buffers[src][dest]
  BY BuffersFacts
<1>2. PICK rest : rest = IF d = 1 THEN Tail(b) ELSE b
  OBVIOUS
<1>3. /\ rest \in Seq(Towards(dest)) /\ Len(rest) \in Nat /\ Len(b) \in Nat /\ Len(rest) = Len(b) - d
      /\ DOMAIN b = 1 .. Len(b) /\ \A i \in 1 .. Len(rest) : rest[i] = b[i + d]
  <2>1. d = 1 => b # <<>>
    BY <1>1 DEF Granted, GrantedSource, ReadySources
  <2> QED BY <1>2, <2>1, Shifted
<1>4. PICK a : a = InAfter[src][dest]
  OBVIOUS
<1>5. a = [k \in 1 .. Len(rest) |-> [rest[k] EXCEPT !.wait = IF @ > 0 THEN @ - 1 ELSE -1]]
  <2>1. a = AfterGrant(b, src \in Granted(dest))
    BY <1>1, <1>4 DEF InAfter
  <2> QED BY <1>2, <2>1 DEF AfterGrant
<1>6. DOMAIN a = 1 .. Len(rest) /\ \A k \in 1 .. Len(rest) : a[k].access = rest[k].access
  <2>1. \A k \in 1 .. Len(rest) : rest[k] \in Transfer
    BY <1>3, ElementOfSeq, BoundSubset
  <2>2. ASSUME NEW k \in 1 .. Len(rest) PROVE a[k].access = rest[k].access
    <3>1. PICK x \in Transfer : x = rest[k]
      BY <2>1
    <3>2. a[k] = [x EXCEPT !.wait = IF @ > 0 THEN @ - 1 ELSE -1]
      BY <1>5, <3>1
    <3> QED BY <3>1, <3>2 DEF Transfer
  <2> QED BY <1>5, <2>2
<1>7. PICK n \in Nat, m \in Nat : n = Len(b) /\ m = Len(rest) /\ m = n - d /\ d \in Nat
  BY <1>3
<1>8. \A k \in DOMAIN a : k \in Nat \ {0} /\ k + d \in DOMAIN b /\ a[k].access = b[k + d].access
  BY <1>3, <1>6, <1>7
<1>9. \A k \in DOMAIN b : k \in Nat \ {0} /\ (k > d => k - d \in DOMAIN a /\ a[k - d].access = b[k].access)
  <2> SUFFICES ASSUME NEW k \in DOMAIN b, k > d PROVE k - d \in DOMAIN a /\ a[k - d].access = b[k].access
    BY <1>3, <1>7
  <2>1. k \in 1 .. n
    BY <1>3, <1>7
  <2>2. k - d \in 1 .. m /\ (k - d) + d = k
    BY <1>7, <2>1
  <2>3. PICK j \in 1 .. m : j = k - d /\ j + d = k
    BY <2>2
  <2> QED BY <1>3, <1>6, <1>7, <2>3
<1> QED BY <1>1, <1>4, <1>8, <1>9

LEMMA OutAfterFacts ==
  ASSUME PathInv, NEW n \in Node, NEW full, NEW d \in {0, 1}, d = 1 <=> Taken(n, full)
  PROVE  /\ \A k \in DOMAIN OutAfter(full)[n] :
              /\ k \in Nat \ {0}
              /\ \/ /\ k <= Len(Left(n, full)) /\ k + d \in DOMAIN out_buffer[n]
                    /\ OutAfter(full)[n][k] = out_buffer[n][k + d]
                 \/ /\ k = Len(Left(n, full)) + 1 /\ ~(k <= Len(Left(n, full))) /\ Granted(n) # {}
                    /\ OutAfter(full)[n][k] = Arrival(n)
         /\ \A k \in DOMAIN out_buffer[n] : k > d =>
              k - d \in DOMAIN OutAfter(full)[n] /\ OutAfter(full)[n][k - d] = out_buffer[n][k]
         /\ \A k \in DOMAIN out_buffer[n] : k \in Nat \ {0}
         /\ Granted(n) # {} => \E k \in DOMAIN OutAfter(full)[n] : OutAfter(full)[n][k] = Arrival(n)
<1>0. PICK o \in Seq(Request) : o = out_buffer[n]
  BY DEF PathInv
<1>1. PICK l, a : o = out_buffer[n] /\ l = Left(n, full) /\ a = OutAfter(full)[n]
  BY <1>0
<1>2. /\ l \in Seq(Request) /\ Len(l) \in Nat /\ Len(o) \in Nat /\ Len(l) = Len(o) - d
      /\ DOMAIN l = 1 .. Len(l) /\ DOMAIN o = 1 .. Len(o) /\ \A i \in 1 .. Len(l) : l[i] = o[i + d]
  <2>1. d = 1 => o # <<>>
    BY <1>1 DEF Taken
  <2>2. l = IF d = 1 THEN Tail(o) ELSE o
    BY <1>1 DEF Left
  <2> QED BY <2>1, <2>2, Shifted
<1>3. PICK m, e \in Nat : m = Len(o) /\ e = Len(l) /\ e = m - d /\ d \in Nat
  BY <1>2
<1>4. DOMAIN l = 1 .. e /\ DOMAIN o = 1 .. m /\ \A i \in 1 .. e : l[i] = o[i + d]
  BY <1>2, <1>3
<1>5. CASE Granted(n) = {}
  <2>1. a = l
    BY <1>1, <1>5 DEF OutAfter
  <2>2. \A k \in DOMAIN a : k \in Nat \ {0} /\ k <= e /\ k + d \in DOMAIN o /\ a[k] = o[k + d]
    BY <1>3, <1>4, <2>1
  <2>3. ASSUME NEW k \in DOMAIN o, k > d PROVE k - d \in DOMAIN a /\ a[k - d] = o[k]
    <3>1. PICK j \in 1 .. e : j = k - d /\ j + d = k
      BY <1>3, <1>4, <2>3
    <3> QED BY <1>4, <2>1, <3>1
  <2>4. \A k \in DOMAIN o : k \in Nat \ {0}
    BY <1>4
  <2> QED BY <1>1, <1>3, <1>5, <2>2, <2>3, <2>4
<1>6. CASE Granted(n) # {}
  <2>1. a = Append(l, Arrival(n))
    BY <1>1, <1>6 DEF OutAfter
  <2>2. Arrival(n) \in Request
    BY <1>6, GrantedFacts
  <2>3. DOMAIN a = 1 .. e + 1 /\ a[e + 1] = Arrival(n) /\ \A i \in 1 .. e : a[i] = l[i]
    <3>1. a \in Seq(Request) /\ Len(a) = Len(l) + 1 /\ a[Len(l) + 1] = Arrival(n) /\ \A i \in 1 .. Len(l) : a[i] = l[i]
      BY <1>2, <2>1, <2>2, AppendProperties
    <3> QED BY <1>3, <3>1, LenProperties
  <2>4. \A k \in DOMAIN a :
          /\ k \in Nat \ {0}
          /\ \/ k <= e /\ k + d \in DOMAIN o /\ a[k] = o[k + d]
             \/ k = e + 1 /\ ~(k <= e) /\ a[k] = Arrival(n)
    BY <1>3, <1>4, <2>3
  <2>5. ASSUME NEW k \in DOMAIN o, k > d PROVE k - d \in DOMAIN a /\ a[k - d] = o[k]
    <3>1. PICK j \in 1 .. e : j = k - d /\ j + d = k
      BY <1>3, <1>4, <2>5
    <3> QED BY <1>4, <2>3, <3>1
  <2>6. \A k \in DOMAIN o : k \in Nat \ {0}
    BY <1>4
  <2>7. e + 1 \in DOMAIN a
    BY <2>3
  <2> QED BY <1>1, <1>3, <1>6, <2>3, <2>4, <2>5, <2>6, <2>7
<1> QED BY <1>5, <1>6

(* Where what waits after the two moves was between them.                   *)
After(full) == Places(Dropped, InAfter, OutAfter(full), DramAfter(full), DoneLeft)
Answered(full) == {At("out", n, n, 1, out_buffer[n][1]) : n \in {m \in Node : IsCorePort(m) /\ Taken(m, full)}}
Source(n) == CHOOSE src \in Granted(n) : TRUE
Steps(b) == IF b THEN 1 ELSE 0
Went(full, w) ==
  IF w.what = "path" THEN At("path", w.from, w.to, w.place + Steps(w.from \in Granted(w.to)), w.access)
  ELSE IF w.what = "out" /\ w.place > Len(Left(w.from, full)) THEN At("path", Source(w.from), w.from, 1, w.access)
  ELSE IF w.what = "out" THEN At("out", w.from, w.from, w.place + Steps(Taken(w.from, full)), w.access)
  ELSE IF w.what = "dram" /\ w.access \notin dram[w.from]
    THEN At("out", MemoryNode(w.from), MemoryNode(w.from), 1, w.access)
  ELSE w

OnPathStill(full, w) ==
  /\ w.what = "path" /\ w.from \in Node /\ w.to \in Node /\ w.place \in Nat \ {0}
  /\ Went(full, w) = At("path", w.from, w.to, w.place + Steps(w.from \in Granted(w.to)), w.access)
AtNodeStill(full, w) ==
  /\ w.what = "out" /\ w.from \in Node /\ w.to = w.from /\ w.place \in Nat \ {0}
  /\ Went(full, w) = At("out", w.from, w.from, w.place + Steps(Taken(w.from, full)), w.access)
JustArrived(full, w) ==
  /\ w.what = "out" /\ w.from \in Node /\ w.to = w.from /\ w.place = Len(Left(w.from, full)) + 1
  /\ Source(w.from) \in Granted(w.from) /\ Source(w.from) \in Node
  /\ Went(full, w) = At("path", Source(w.from), w.from, 1, w.access)
JustTaken(full, w) ==
  /\ w.what = "dram" /\ w.from \in Channel /\ w.to = w.from /\ w.place = 0 /\ Taken(MemoryNode(w.from), full)
  /\ Went(full, w) = At("out", MemoryNode(w.from), MemoryNode(w.from), 1, w.access)
Stayed(full, w) == w.what \in {"queue", "dram", "done"} /\ Went(full, w) = w

LEMMA WentFacts ==
  ASSUME PathInv, NEW full \in SUBSET Channel, NEW w \in After(full)
  PROVE  /\ Went(full, w) \in Between /\ Went(full, w).access = w.access
         /\ w = At(w.what, w.from, w.to, w.place, w.access)
         /\ OnPathStill(full, w) \/ AtNodeStill(full, w) \/ JustArrived(full, w) \/ JustTaken(full, w) \/ Stayed(full, w)
<1>1. CASE \E n, m \in Node : \E k \in DOMAIN InAfter[n][m] : w = At("path", n, m, k, InAfter[n][m][k].access)
  <2>0. PICK n \in Node, m \in Node : \E k \in DOMAIN InAfter[n][m] : w = At("path", n, m, k, InAfter[n][m][k].access)
    BY <1>1
  <2>1. PICK k \in DOMAIN InAfter[n][m] : w = At("path", n, m, k, InAfter[n][m][k].access)
    BY <2>0
  <2>2. PICK d \in {0, 1} : d = Steps(n \in Granted(m)) /\ (d = 1 <=> n \in Granted(m))
    BY DEF Steps
  <2>3. /\ k \in Nat \ {0} /\ k + d \in DOMAIN Buffers[n][m]
        /\ InAfter[n][m][k].access = Buffers[n][m][k + d].access
    BY <2>2, InAfterFacts
  <2>4. w.what = "path" /\ w.from = n /\ w.to = m /\ w.place = k /\ w.access = InAfter[n][m][k].access
    BY <2>1, AtFields
  <2>5. Went(full, w) = At("path", n, m, k + d, Buffers[n][m][k + d].access)
    BY <2>2, <2>3, <2>4 DEF Went
  <2>6. Went(full, w) \in Between
    BY <2>3, <2>5, InPlaces DEF Between
  <2>7. OnPathStill(full, w)
    BY <2>2, <2>3, <2>4, <2>5 DEF OnPathStill
  <2> QED BY <2>1, <2>3, <2>4, <2>5, <2>6, <2>7, AtFields
<1>2. CASE \E n \in Node : \E k \in DOMAIN OutAfter(full)[n] : w = At("out", n, n, k, OutAfter(full)[n][k])
  <2>0. PICK n \in Node : \E k \in DOMAIN OutAfter(full)[n] : w = At("out", n, n, k, OutAfter(full)[n][k])
    BY <1>2
  <2>1. PICK k \in DOMAIN OutAfter(full)[n] : w = At("out", n, n, k, OutAfter(full)[n][k])
    BY <2>0
  <2>2. PICK d \in {0, 1} : d = Steps(Taken(n, full)) /\ (d = 1 <=> Taken(n, full))
    BY DEF Steps
  <2>3. /\ k \in Nat \ {0}
        /\ \/ /\ k <= Len(Left(n, full)) /\ k + d \in DOMAIN out_buffer[n]
              /\ OutAfter(full)[n][k] = out_buffer[n][k + d]
           \/ /\ k = Len(Left(n, full)) + 1 /\ ~(k <= Len(Left(n, full))) /\ Granted(n) # {}
              /\ OutAfter(full)[n][k] = Arrival(n)
    BY <2>2, OutAfterFacts
  <2>4. w.what = "out" /\ w.from = n /\ w.to = n /\ w.place = k /\ w.access = OutAfter(full)[n][k]
    BY <2>1, AtFields
  <2>5. Len(Left(n, full)) \in Int
    <3>1. Left(n, full) \in Seq(Request)
      BY HeadTailProperties DEF Left, Taken, PathInv
    <3> QED BY <3>1, LenProperties
  <2>6. CASE k <= Len(Left(n, full))
    <3>1. ~(k > Len(Left(n, full))) /\ k + d \in DOMAIN out_buffer[n] /\ OutAfter(full)[n][k] = out_buffer[n][k + d]
      BY <2>3, <2>5, <2>6
    <3>2. Went(full, w) = At("out", n, n, k + d, out_buffer[n][k + d])
      BY <2>2, <2>4, <3>1 DEF Went
    <3>3. Went(full, w) \in Between
      BY <3>1, <3>2, InPlaces DEF Between
    <3>4. AtNodeStill(full, w)
      BY <2>2, <2>3, <2>4, <3>1, <3>2 DEF AtNodeStill
    <3> QED BY <2>1, <2>4, <3>1, <3>2, <3>3, <3>4, AtFields
  <2>7. CASE ~(k <= Len(Left(n, full)))
    <3>1. k > Len(Left(n, full)) /\ k = Len(Left(n, full)) + 1 /\ Granted(n) # {} /\ OutAfter(full)[n][k] = Arrival(n)
      BY <2>3, <2>5, <2>7
    <3>2. PICK src \in Granted(n) : src = Source(n)
      BY <3>1 DEF Source
    <3>3. src \in Node /\ 1 \in DOMAIN Buffers[src][n] /\ Arrival(n) = Buffers[src][n][1].access
      BY <3>2, GrantedFacts
    <3>4. Went(full, w) = At("path", src, n, 1, Buffers[src][n][1].access)
      BY <2>4, <3>1, <3>2, <3>3 DEF Went
    <3>5. Went(full, w) \in Between
      BY <3>3, <3>4, InPlaces DEF Between
    <3>6. JustArrived(full, w)
      BY <2>4, <3>1, <3>2, <3>3, <3>4 DEF JustArrived
    <3> QED BY <2>1, <2>4, <3>1, <3>3, <3>4, <3>5, <3>6, AtFields
  <2> QED BY <2>6, <2>7
<1>3. CASE \E h \in Channel : \E r \in DramAfter(full)[h] : w = At("dram", h, h, 0, r)
  <2>0. PICK h \in Channel : \E r \in DramAfter(full)[h] : w = At("dram", h, h, 0, r)
    BY <1>3
  <2>1. PICK r \in DramAfter(full)[h] : w = At("dram", h, h, 0, r)
    BY <2>0
  <2>2. w.what = "dram" /\ w.from = h /\ w.to = h /\ w.place = 0 /\ w.access = r
    BY <2>1, AtFields
  <2>3. CASE r \in dram[h]
    <3>1. Went(full, w) = w
      BY <2>2, <2>3 DEF Went
    <3>2. w \in Between
      BY <2>1, <2>3, InPlaces DEF Between
    <3> QED BY <2>1, <2>2, <3>1, <3>2 DEF Stayed
  <2>4. CASE r \notin dram[h]
    <3>0. PICK n \in Node : n = MemoryNode(h)
      BY MemoryNodes
    <3>1. PICK o : n = MemoryNode(h) /\ o = out_buffer[n]
      BY <3>0
    <3>2. Taken(n, full) /\ r = Head(o)
      BY <2>4, <3>1 DEF DramAfter
    <3>3. o \in Seq(Request) /\ o # <<>>
      BY <3>1, <3>2 DEF Taken, PathInv
    <3>4. 1 \in DOMAIN o /\ r = o[1]
      BY <3>2, <3>3, EmptySeq, LenProperties
    <3>5. Went(full, w) = At("out", n, n, 1, o[1])
      BY <2>2, <2>4, <3>1, <3>4 DEF Went
    <3>6. Went(full, w) \in Between
      BY <3>1, <3>4, <3>5, InPlaces DEF Between
    <3>7. JustTaken(full, w)
      BY <2>2, <3>1, <3>2, <3>4, <3>5 DEF JustTaken
    <3> QED BY <2>1, <2>2, <3>4, <3>5, <3>6, <3>7, AtFields
  <2> QED BY <2>3, <2>4
<1>4. CASE \/ \E c \in Core : \E k \in DOMAIN Dropped[c] : w = At("queue", c, c, k, Dropped[c][k])
           \/ \E h \in Channel : \E k \in DOMAIN DoneLeft[h] : w = At("done", h, h, k, DoneLeft[h][k])
  <2>1. w.what \in {"queue", "done"} /\ w = At(w.what, w.from, w.to, w.place, w.access)
    BY <1>4, AtFields
  <2>2. w \in Between
    BY <1>4, InPlaces DEF Between
  <2>3. Went(full, w) = w
    BY <2>1 DEF Went
  <2> QED BY <2>1, <2>2, <2>3 DEF Stayed
<1> QED BY <1>1, <1>2, <1>3, <1>4, InPlaces DEF After

LEMMA WentOne ==
  ASSUME PathInv, NEW full \in SUBSET Channel, NEW v \in After(full), NEW w \in After(full), Went(full, v) = Went(full, w)
  PROVE  v = w
<1>1. /\ v.access = w.access
      /\ v = At(v.what, v.from, v.to, v.place, v.access) /\ w = At(w.what, w.from, w.to, w.place, w.access)
  BY WentFacts
<1> DEFINE P(x) == OnPathStill(full, x)
           O(x) == AtNodeStill(full, x)
           N(x) == JustArrived(full, x)
           D(x) == JustTaken(full, x)
           S(x) == Stayed(full, x)
           W(x) == Went(full, x)
<1>2. \A x \in After(full) : P(x) \/ O(x) \/ N(x) \/ D(x) \/ S(x)
  BY WentFacts
<1>3. \A b : Steps(b) \in {0, 1} /\ (b => Steps(b) = 1)
  BY DEF Steps
<1>4. \A x : P(x) =>
        /\ W(x).what = "path" /\ W(x).from = x.from /\ W(x).to = x.to
        /\ W(x).place = x.place + Steps(x.from \in Granted(x.to)) /\ x.place \in Nat \ {0} /\ x.what = "path"
  BY AtFields DEF OnPathStill
<1>5. \A x : O(x) =>
        /\ W(x).what = "out" /\ W(x).from = x.from /\ W(x).place = x.place + Steps(Taken(x.from, full))
        /\ x.place \in Nat \ {0} /\ x.what = "out" /\ x.to = x.from
  BY AtFields DEF AtNodeStill
<1>6. \A x : N(x) =>
        /\ W(x).what = "path" /\ W(x).from \in Granted(W(x).to) /\ W(x).to = x.from /\ W(x).place = 1
        /\ x.what = "out" /\ x.to = x.from /\ x.place = Len(Left(x.from, full)) + 1
  BY AtFields DEF JustArrived
<1>7. \A x : D(x) =>
        /\ W(x).what = "out" /\ W(x).from = MemoryNode(x.from) /\ W(x).place = 1 /\ Taken(MemoryNode(x.from), full)
        /\ x.what = "dram" /\ x.from \in Channel /\ x.to = x.from /\ x.place = 0
  BY AtFields DEF JustTaken
<1>8. \A x : S(x) => W(x).what \in {"queue", "dram", "done"} /\ W(x) = x
  BY DEF Stayed
<1>9. ASSUME NEW x, NEW y, P(x), N(y), W(x) = W(y) PROVE FALSE
  <2>1. x.from \in Granted(x.to) /\ x.place + Steps(x.from \in Granted(x.to)) = 1
    BY <1>4, <1>6, <1>9
  <2>2. Steps(x.from \in Granted(x.to)) = 1
    BY <2>1 DEF Steps
  <2> QED BY <1>4, <1>9, <2>1, <2>2
<1>10. ASSUME NEW x, NEW y, O(x), D(y), W(x) = W(y) PROVE FALSE
  <2>1. PICK d : d = Steps(Taken(x.from, full))
    OBVIOUS
  <2>2. Taken(x.from, full)
    BY <1>5, <1>7, <1>10
  <2>3. d = 1
    BY <2>1, <2>2 DEF Steps
  <2>4. x.place + d = 1 /\ x.place \in Nat \ {0}
    BY <1>5, <1>7, <1>10, <2>1
  <2> QED BY <2>3, <2>4
<1>11. ASSUME NEW x, NEW y, P(x) \/ N(x), O(y) \/ D(y) \/ S(y), W(x) = W(y) PROVE FALSE
  <2>1. W(x).what = "path" /\ W(y).what \in {"out", "queue", "dram", "done"}
    BY <1>4, <1>5, <1>6, <1>7, <1>8, <1>11
  <2> QED BY <1>11, <2>1
<1>12. ASSUME NEW x, NEW y, O(x) \/ D(x), S(y), W(x) = W(y) PROVE FALSE
  <2>1. W(x).what = "out" /\ W(y).what \in {"queue", "dram", "done"}
    BY <1>5, <1>7, <1>8, <1>12
  <2> QED BY <1>12, <2>1
<1> HIDE DEF P, O, N, D, S, W
<1>13. W(v) = W(w)
  BY DEF W
<1>14. CASE P(v) /\ P(w)
  <2>1. v.what = w.what /\ v.from = w.from /\ v.to = w.to
    BY <1>4, <1>13, <1>14
  <2>2. PICK d \in {0, 1} : d = Steps(v.from \in Granted(v.to))
    BY <1>3
  <2>3. v.place + d = w.place + d
    BY <1>4, <1>13, <1>14, <2>1, <2>2
  <2>4. v.place = w.place
    BY <1>4, <1>14, <2>3
  <2> QED BY <1>1, <2>1, <2>4
<1>15. CASE O(v) /\ O(w)
  <2>1. v.what = w.what /\ v.from = w.from /\ v.to = w.to
    BY <1>5, <1>13, <1>15
  <2>2. PICK d \in {0, 1} : d = Steps(Taken(v.from, full))
    BY <1>3
  <2>3. v.place + d = w.place + d
    BY <1>5, <1>13, <1>15, <2>1, <2>2
  <2>4. v.place = w.place
    BY <1>5, <1>15, <2>3
  <2> QED BY <1>1, <2>1, <2>4
<1>16. CASE N(v) /\ N(w)
  <2>1. v.what = w.what /\ v.from = w.from /\ v.to = w.to /\ v.place = w.place
    BY <1>6, <1>13, <1>16
  <2> QED BY <1>1, <2>1
<1>17. CASE D(v) /\ D(w)
  <2>1. MemoryNode(v.from) = MemoryNode(w.from) /\ v.from \in Channel /\ w.from \in Channel
    BY <1>7, <1>13, <1>17
  <2>2. v.from = w.from
    BY <2>1, MemoryNodes
  <2>3. v.what = w.what /\ v.to = w.to /\ v.place = w.place
    BY <1>7, <1>17, <2>2
  <2> QED BY <1>1, <2>2, <2>3
<1>18. CASE S(v) /\ S(w)
  BY <1>8, <1>13, <1>18
<1> QED BY <1>2, <1>9, <1>10, <1>11, <1>12, <1>13, <1>14, <1>15, <1>16, <1>17, <1>18

LEMMA WentNotAnswered ==
  ASSUME PathInv, NEW full \in SUBSET Channel, NEW w \in After(full)
  PROVE  Went(full, w) \notin Answered(full)
<1> SUFFICES ASSUME Went(full, w) \in Answered(full) PROVE FALSE
  OBVIOUS
<1>1. PICK n \in Node : /\ IsCorePort(n) /\ Taken(n, full)
                        /\ Went(full, w) = At("out", n, n, 1, out_buffer[n][1])
  BY DEF Answered
<1>2. Went(full, w).what = "out" /\ Went(full, w).from = n /\ Went(full, w).place = 1
  BY <1>1, AtFields
<1>3. CASE AtNodeStill(full, w)
  <2>1. w.from = n /\ w.place + Steps(Taken(n, full)) = 1 /\ w.place \in Nat \ {0}
    BY <1>2, <1>3, AtFields DEF AtNodeStill
  <2> QED BY <1>1, <2>1 DEF Steps
<1>4. CASE JustTaken(full, w)
  <2>1. n = MemoryNode(w.from) /\ w.from \in Channel
    BY <1>2, <1>4, AtFields DEF JustTaken
  <2> QED BY <1>1, <2>1, MemoryNodes
<1>5. CASE OnPathStill(full, w)
  BY <1>2, <1>5, AtFields DEF OnPathStill
<1>6. CASE JustArrived(full, w)
  BY <1>2, <1>6, AtFields DEF JustArrived
<1>7. CASE Stayed(full, w)
  BY <1>2, <1>7 DEF Stayed
<1> QED BY <1>3, <1>4, <1>5, <1>6, <1>7, WentFacts

LEMMA GrantingLosesNone ==
  ASSUME PathInv, NEW full \in SUBSET Channel, NEW v \in Between
  PROVE  v \in Answered(full) \/ \E w \in After(full) : w.access = v.access
<1>1. CASE \E n, m \in Node : \E k \in DOMAIN Buffers[n][m] : v = At("path", n, m, k, Buffers[n][m][k].access)
  <2>0. PICK n \in Node, m \in Node : \E k \in DOMAIN Buffers[n][m] : v = At("path", n, m, k, Buffers[n][m][k].access)
    BY <1>1
  <2>1. PICK k \in DOMAIN Buffers[n][m] : v = At("path", n, m, k, Buffers[n][m][k].access)
    BY <2>0
  <2>2. PICK d \in {0, 1} : d = 1 <=> n \in Granted(m)
    <3>1. CASE n \in Granted(m)
      BY <3>1
    <3>2. CASE n \notin Granted(m)
      BY <3>2
    <3> QED BY <3>1, <3>2
  <2>3. k \in Nat \ {0}
    BY <2>2, InAfterFacts
  <2>4. CASE k > d
    <3>1. PICK j \in DOMAIN InAfter[n][m] : InAfter[n][m][j].access = Buffers[n][m][k].access
      BY <2>2, <2>4, InAfterFacts
    <3>2. At("path", n, m, j, InAfter[n][m][j].access) \in After(full)
      BY InPlaces DEF After
    <3> QED BY <2>1, <3>1, <3>2, AtFields
  <2>5. CASE ~(k > d)
    <3>1. k = 1 /\ n \in Granted(m)
      BY <2>2, <2>3, <2>5
    <3>2. Arrival(m) = v.access
      BY <2>1, <3>1, GrantedFacts, AtFields
    <3>3. PICK e \in {0, 1} : e = 1 <=> Taken(m, full)
      <4>1. CASE Taken(m, full)
        BY <4>1
      <4>2. CASE ~Taken(m, full)
        BY <4>2
      <4> QED BY <4>1, <4>2
    <3>4. PICK j \in DOMAIN OutAfter(full)[m] : OutAfter(full)[m][j] = Arrival(m)
      BY <3>1, <3>3, OutAfterFacts
    <3>5. At("out", m, m, j, OutAfter(full)[m][j]) \in After(full)
      BY InPlaces DEF After
    <3> QED BY <3>2, <3>4, <3>5, AtFields
  <2> QED BY <2>4, <2>5
<1>2. CASE \E n \in Node : \E k \in DOMAIN out_buffer[n] : v = At("out", n, n, k, out_buffer[n][k])
  <2>0. PICK n \in Node : \E k \in DOMAIN out_buffer[n] : v = At("out", n, n, k, out_buffer[n][k])
    BY <1>2
  <2>1. PICK k \in DOMAIN out_buffer[n] : v = At("out", n, n, k, out_buffer[n][k])
    BY <2>0
  <2>2. PICK d \in {0, 1} : d = 1 <=> Taken(n, full)
    <3>1. CASE Taken(n, full)
      BY <3>1
    <3>2. CASE ~Taken(n, full)
      BY <3>2
    <3> QED BY <3>1, <3>2
  <2>3. k \in Nat \ {0}
    BY <2>2, OutAfterFacts
  <2>4. CASE k > d
    <3>1. PICK j \in DOMAIN OutAfter(full)[n] : OutAfter(full)[n][j] = out_buffer[n][k]
      BY <2>2, <2>4, OutAfterFacts
    <3>2. At("out", n, n, j, OutAfter(full)[n][j]) \in After(full)
      BY InPlaces DEF After
    <3> QED BY <2>1, <3>1, <3>2, AtFields
  <2>5. CASE ~(k > d)
    <3>1. k = 1 /\ Taken(n, full)
      BY <2>2, <2>3, <2>5
    <3>2. CASE IsCorePort(n)
      BY <2>1, <3>1, <3>2 DEF Answered
    <3>3. CASE ~IsCorePort(n)
      <4>1. PICK h \in Channel : n = MemoryNode(h)
        BY <3>3, NodeKinds
      <4>2. Head(out_buffer[n]) \in DramAfter(full)[h]
        BY <3>1, <4>1 DEF DramAfter
      <4>3. Head(out_buffer[n]) = out_buffer[n][1]
        BY DEF PathInv
      <4>4. At("dram", h, h, 0, out_buffer[n][1]) \in After(full)
        BY <4>2, <4>3, InPlaces DEF After
      <4> QED BY <2>1, <3>1, <4>4, AtFields
    <3> QED BY <3>2, <3>3
  <2> QED BY <2>4, <2>5
<1>3. CASE \E h \in Channel : \E r \in dram[h] : v = At("dram", h, h, 0, r)
  <2>0. PICK h \in Channel : \E r \in dram[h] : v = At("dram", h, h, 0, r)
    BY <1>3
  <2>1. PICK r \in dram[h] : v = At("dram", h, h, 0, r)
    BY <2>0
  <2>2. r \in DramAfter(full)[h]
    BY DEF DramAfter
  <2>3. v \in After(full)
    BY <2>1, <2>2, InPlaces DEF After
  <2> QED BY <2>3
<1>4. CASE \/ \E c \in Core : \E k \in DOMAIN Dropped[c] : v = At("queue", c, c, k, Dropped[c][k])
           \/ \E h \in Channel : \E k \in DOMAIN DoneLeft[h] : v = At("done", h, h, k, DoneLeft[h][k])
  <2>1. v \in After(full)
    BY <1>4, InPlaces DEF After
  <2> QED BY <2>1
<1> QED BY <1>1, <1>2, <1>3, <1>4, InPlaces DEF Between

LEMMA Granting ==
  ASSUME PathInv, NEW full \in SUBSET Channel, AtOnePlace(Between, pending)
  PROVE  AtOnePlace(After(full), pending \ {v.access : v \in Answered(full)})
<1> DEFINE origin == [w \in After(full) |-> Went(full, w)]
<1>1. \A w \in After(full) : /\ origin[w] = Went(full, w) /\ origin[w] \in Between
                             /\ origin[w] \notin Answered(full) /\ origin[w].access = w.access
  BY WentFacts, WentNotAnswered
<1>2. \A v, w \in After(full) : origin[v] = origin[w] => v = w
  BY WentOne
<1>3. \A v \in Between : v \in Answered(full) \/ \E w \in After(full) : w.access = v.access
  BY GrantingLosesNone
<1>4. Answered(full) \subseteq Between
  <2> SUFFICES ASSUME NEW v \in Answered(full) PROVE v \in Between
    OBVIOUS
  <2>1. PICK n \in Node : Taken(n, full) /\ v = At("out", n, n, 1, out_buffer[n][1])
    BY DEF Answered
  <2>2. 1 \in DOMAIN out_buffer[n]
    <3>1. out_buffer[n] \in Seq(Request) /\ out_buffer[n] # <<>>
      BY <2>1 DEF Taken, PathInv
    <3> QED BY <3>1, EmptySeq, LenProperties
  <2> QED BY <2>1, <2>2, InPlaces DEF Between
<1> HIDE DEF origin
<1>5. PICK before, after, gone, asked : before = Between /\ after = After(full) /\ gone = Answered(full) /\ asked = pending
  OBVIOUS
<1>6. AtOnePlace(after, asked \ {v.access : v \in gone})
  <2>1. AtOnePlace(before, asked) /\ gone \subseteq before
    BY <1>4, <1>5
  <2>2. \A w \in after : origin[w] \in before /\ origin[w] \notin gone /\ origin[w].access = w.access
    BY <1>1, <1>5
  <2>3. \A v, w \in after : origin[v] = origin[w] => v = w
    BY <1>2, <1>5
  <2>4. \A v \in before : v \in gone \/ \E w \in after : w.access = v.access
    BY <1>3, <1>5
  <2>5. PICK o : o = origin
    OBVIOUS
  <2>6. \A w \in after : o[w] \in before /\ o[w] \notin gone /\ o[w].access = w.access
    BY <2>2, <2>5
  <2>7. \A v, w \in after : o[v] = o[w] => v = w
    BY <2>3, <2>5
  <2> QED BY <2>1, <2>4, <2>6, <2>7, Moves
<1> QED BY <1>5, <1>6

LEMMA IcntPlaces ==
  ASSUME OnWayInv, NEW full \in SUBSET Channel, IcntCycle(full)
  PROVE  EachAtOnePlace'
<1>1. /\ request_queue' = Dropped /\ in_buffer' = InAfter /\ out_buffer' = OutAfter(full)
      /\ dram' = DramAfter(full) /\ dram_done' = DoneLeft
  <2>1. request_queue' = Dropped /\ dram' = DramAfter(full) /\ dram_done' = DoneLeft
    BY DEF IcntCycle, Dropped, DramAfter, DoneLeft
  <2> DEFINE granted == [dest \in Node |-> GrantedSource(Buffers, dest)]
             first(n) == (CHOOSE q \in {Buffers[src][n] : src \in granted[n]} : TRUE)[1].access
  <2>2. /\ in_buffer' = [src \in Node |-> [dest \in Node |-> AfterGrant(Buffers[src][dest], src \in granted[dest])]]
        /\ out_buffer' = [n \in Node |->
             IF granted[n] = {} THEN Left(n, full)
             ELSE Append(Left(n, full), first(n))]
    BY DEF IcntCycle, Buffers
  <2>3. \A n \in Node : granted[n] = Granted(n)
    BY DEF Granted
  <2> HIDE DEF granted
  <2>4. in_buffer' = InAfter
    BY <2>2, <2>3 DEF InAfter
  <2>5. \A n \in Node : first(n) = Arrival(n)
    BY <2>3 DEF Arrival
  <2> HIDE DEF first
  <2>6. out_buffer' = [n \in Node |-> IF granted[n] = {} THEN Left(n, full) ELSE Append(Left(n, full), Arrival(n))]
    BY <2>2, <2>5
  <2>7. out_buffer' = OutAfter(full)
    BY <2>3, <2>6 DEF OutAfter
  <2> QED BY <2>1, <2>4, <2>7
<1>2. pending' = pending \ {v.access : v \in Answered(full)}
  <2> DEFINE answering == {m \in Node : IsCorePort(m) /\ Taken(m, full)}
  <2>1. pending' = pending \ {out_buffer[n][1] : n \in answering}
    BY DEF IcntCycle
  <2>2. Answered(full) = {At("out", n, n, 1, out_buffer[n][1]) : n \in answering}
    BY DEF Answered
  <2> HIDE DEF answering
  <2>3. {v.access : v \in Answered(full)} = {out_buffer[n][1] : n \in answering}
    <3>1. ASSUME NEW v \in Answered(full) PROVE v.access \in {out_buffer[n][1] : n \in answering}
      BY <2>2, AtFields
    <3>2. ASSUME NEW n \in answering PROVE out_buffer[n][1] \in {v.access : v \in Answered(full)}
      <4>1. At("out", n, n, 1, out_buffer[n][1]) \in Answered(full)
        BY <2>2
      <4> QED BY <4>1, AtFields
    <3> QED BY <3>1, <3>2
  <2> QED BY <2>1, <2>3
<1>3. Waiting' = After(full)
  BY <1>1 DEF Waiting, After
<1>4. AtOnePlace(Between, pending)
  BY Sending
<1>5. AtOnePlace(After(full), pending \ {v.access : v \in Answered(full)})
  BY <1>4, Granting DEF OnWayInv
<1>6. PICK places, asked : places = After(full) /\ asked = pending \ {v.access : v \in Answered(full)}
  OBVIOUS
<1>7. AtOnePlace(places, asked) /\ Waiting' = places /\ pending' = asked
  BY <1>2, <1>3, <1>5, <1>6
<1> QED BY <1>7 DEF EachAtOnePlace, AtOnePlace

(* A core asks, and the DRAM finishes.                                      *)
LEMMA Appended ==
  ASSUME NEW S, NEW q \in Seq(S), NEW x \in S
  PROVE  /\ DOMAIN Append(q, x) = DOMAIN q \cup {Len(q) + 1} /\ Len(q) + 1 \notin DOMAIN q
         /\ \A k \in DOMAIN q : Append(q, x)[k] = q[k]
         /\ Append(q, x)[Len(q) + 1] = x
<1>1. Len(q) \in Nat /\ DOMAIN q = 1 .. Len(q)
  BY LenProperties
<1>2. PICK a \in Seq(S) : a = Append(q, x)
  BY AppendProperties
<1>3. Len(a) = Len(q) + 1 /\ a[Len(q) + 1] = x /\ \A k \in 1 .. Len(q) : a[k] = q[k]
  BY <1>2, AppendProperties
<1>4. DOMAIN a = 1 .. Len(q) + 1
  BY <1>2, <1>3, LenProperties
<1> QED BY <1>1, <1>2, <1>3, <1>4

LEMMA IssuePlaces ==
  ASSUME OnWayInv, NEW r \in Request, IssueRequest(r)
  PROVE  EachAtOnePlace'
<1>1. PICK c \in Core, q \in Seq(Request) : c = CoreOf[r] /\ q = request_queue[c]
  BY PathAssumption DEF OnWayInv, PathInv
<1>2. PICK e, k : e = At("queue", c, c, k, r) /\ k = Len(q) + 1
  OBVIOUS
<1>3. PICK rq : rq = [request_queue EXCEPT ![c] = Append(q, r)]
  OBVIOUS
<1>4. request_queue' = rq /\ pending' = pending \cup {r} /\ r \notin pending
  BY <1>1, <1>3 DEF IssueRequest
<1>5. UNCHANGED <<in_buffer, out_buffer, dram, dram_done>>
  BY DEF IssueRequest, netVars
<1>6. /\ DOMAIN rq[c] = DOMAIN q \cup {k} /\ k \notin DOMAIN q /\ rq[c][k] = r
      /\ \A j \in DOMAIN q : rq[c][j] = q[j]
      /\ \A d \in Core : d # c => rq[d] = request_queue[d]
  BY <1>1, <1>2, <1>3, Appended DEF OnWayInv, PathInv
<1> DEFINE After0 == Places(rq, in_buffer, out_buffer, dram, dram_done)
<1>7. \A w : w \in After0 <=> w \in Waiting \/ w = e
  <2> SUFFICES ASSUME NEW w PROVE w \in After0 <=> w \in Waiting \/ w = e
    OBVIOUS
  <2>1. (\E d \in Core : \E j \in DOMAIN rq[d] : w = At("queue", d, d, j, rq[d][j])) <=>
          (\E d \in Core : \E j \in DOMAIN request_queue[d] : w = At("queue", d, d, j, request_queue[d][j])) \/ w = e
    <3>1. ASSUME NEW d \in Core, NEW j \in DOMAIN rq[d], w = At("queue", d, d, j, rq[d][j])
          PROVE  (\E x \in Core : \E y \in DOMAIN request_queue[x] : w = At("queue", x, x, y, request_queue[x][y])) \/ w = e
      <4>1. CASE d = c /\ j = k
        BY <1>2, <1>6, <3>1, <4>1
      <4>2. CASE d = c /\ j # k
        <5>1. j \in DOMAIN request_queue[d] /\ rq[d][j] = request_queue[d][j]
          BY <1>1, <1>6, <4>2
        <5> QED BY <3>1, <5>1
      <4>3. CASE d # c
        <5>1. rq[d] = request_queue[d]
          BY <1>6, <4>3
        <5> QED BY <3>1, <5>1
      <4> QED BY <4>1, <4>2, <4>3
    <3>2. ASSUME NEW d \in Core, NEW j \in DOMAIN request_queue[d], w = At("queue", d, d, j, request_queue[d][j])
          PROVE  \E x \in Core : \E y \in DOMAIN rq[x] : w = At("queue", x, x, y, rq[x][y])
      <4>1. j \in DOMAIN rq[d] /\ rq[d][j] = request_queue[d][j]
        BY <1>1, <1>6
      <4> QED BY <3>2, <4>1
    <3>3. k \in DOMAIN rq[c] /\ e = At("queue", c, c, k, rq[c][k])
      BY <1>2, <1>6
    <3> QED BY <3>1, <3>2, <3>3
  <2> QED BY <2>1, InPlaces DEF Waiting
<1>8. e \notin Waiting /\ e.access = r
  BY <1>2, <1>4, AtFields DEF OnWayInv, EachAtOnePlace
<1>9. Waiting' = After0
  BY <1>4, <1>5 DEF Waiting
<1> HIDE DEF After0
<1>10. PICK places : places = After0
  OBVIOUS
<1>11. {w.access : w \in places} = pending \cup {r}
  <2>1. \A w : w \in places <=> w \in Waiting \/ w = e
    BY <1>7, <1>10
  <2>2. places = Waiting \cup {e}
    BY <2>1
  <2>3. {w.access : w \in Waiting} = pending
    BY DEF OnWayInv, EachAtOnePlace
  <2> QED BY <1>8, <2>2, <2>3
<1>12. \A v, w \in places : v.access = w.access => v = w
  <2>1. \A w \in Waiting : w.access # r
    BY <1>4 DEF OnWayInv, EachAtOnePlace
  <2> QED BY <1>7, <1>8, <1>10, <2>1 DEF OnWayInv, EachAtOnePlace
<1> QED BY <1>4, <1>9, <1>10, <1>11, <1>12 DEF EachAtOnePlace

LEMMA DramPlaces ==
  ASSUME OnWayInv, NEW h \in Channel, NEW r \in dram[h], DramCycle(h, r)
  PROVE  EachAtOnePlace'
<1>1. PICK q \in Seq(Request) : q = dram_done[h]
  BY DEF OnWayInv, PathInv
<1>2. PICK e, f, k : e = At("dram", h, h, 0, r) /\ f = At("done", h, h, k, r) /\ k = Len(q) + 1
  OBVIOUS
<1>3. PICK dr, dd : dr = [dram EXCEPT ![h] = @ \ {r}] /\ dd = [dram_done EXCEPT ![h] = Append(q, r)]
  OBVIOUS
<1>4. dram' = dr /\ dram_done' = dd
  BY <1>1, <1>3 DEF DramCycle
<1>5. UNCHANGED <<request_queue, in_buffer, out_buffer, pending>>
  BY DEF DramCycle, netVars
<1>6. r \in Request
  BY DEF OnWayInv, PathInv
<1>7. /\ DOMAIN dd[h] = DOMAIN q \cup {k} /\ k \notin DOMAIN q /\ dd[h][k] = r
      /\ \A j \in DOMAIN q : dd[h][j] = q[j]
      /\ \A g \in Channel : g # h => dd[g] = dram_done[g]
      /\ dr[h] = dram[h] \ {r} /\ \A g \in Channel : g # h => dr[g] = dram[g]
  BY <1>1, <1>2, <1>3, <1>6, Appended DEF OnWayInv, PathInv
<1> DEFINE After0 == Places(request_queue, in_buffer, out_buffer, dr, dd)
<1>8. \A w : (\E g \in Channel : \E j \in DOMAIN dd[g] : w = At("done", g, g, j, dd[g][j])) <=>
        (\E g \in Channel : \E j \in DOMAIN dram_done[g] : w = At("done", g, g, j, dram_done[g][j])) \/ w = f
  <2> SUFFICES ASSUME NEW w
               PROVE  (\E g \in Channel : \E j \in DOMAIN dd[g] : w = At("done", g, g, j, dd[g][j])) <=>
                        (\E g \in Channel : \E j \in DOMAIN dram_done[g] : w = At("done", g, g, j, dram_done[g][j])) \/ w = f
    OBVIOUS
  <2>1. ASSUME NEW g \in Channel, NEW j \in DOMAIN dd[g], w = At("done", g, g, j, dd[g][j])
        PROVE  (\E x \in Channel : \E y \in DOMAIN dram_done[x] : w = At("done", x, x, y, dram_done[x][y])) \/ w = f
    <3>1. CASE g = h /\ j = k
      BY <1>2, <1>7, <2>1, <3>1
    <3>2. CASE g = h /\ j # k
      <4>1. j \in DOMAIN dram_done[g] /\ dd[g][j] = dram_done[g][j]
        BY <1>1, <1>7, <3>2
      <4> QED BY <2>1, <4>1
    <3>3. CASE g # h
      <4>1. dd[g] = dram_done[g]
        BY <1>7, <3>3
      <4> QED BY <2>1, <4>1
    <3> QED BY <3>1, <3>2, <3>3
  <2>2. ASSUME NEW g \in Channel, NEW j \in DOMAIN dram_done[g], w = At("done", g, g, j, dram_done[g][j])
        PROVE  \E x \in Channel : \E y \in DOMAIN dd[x] : w = At("done", x, x, y, dd[x][y])
    <3>1. j \in DOMAIN dd[g] /\ dd[g][j] = dram_done[g][j]
      BY <1>1, <1>7
    <3> QED BY <2>2, <3>1
  <2>3. k \in DOMAIN dd[h] /\ f = At("done", h, h, k, dd[h][k])
    BY <1>2, <1>7
  <2> QED BY <2>1, <2>2, <2>3
<1>9. \A w : (\E g \in Channel : \E x \in dr[g] : w = At("dram", g, g, 0, x)) <=>
        (\E g \in Channel : \E x \in dram[g] : w = At("dram", g, g, 0, x)) /\ w # e
  <2> SUFFICES ASSUME NEW w
               PROVE  (\E g \in Channel : \E x \in dr[g] : w = At("dram", g, g, 0, x)) <=>
                        (\E g \in Channel : \E x \in dram[g] : w = At("dram", g, g, 0, x)) /\ w # e
    OBVIOUS
  <2>1. ASSUME NEW g \in Channel, NEW x \in dr[g], w = At("dram", g, g, 0, x)
        PROVE  x \in dram[g] /\ w # e
    <3>1. w.from = g /\ w.access = x /\ e.from = h /\ e.access = r
      BY <1>2, <2>1, AtFields
    <3>2. x \in dram[g] /\ ~(g = h /\ x = r)
      BY <1>7
    <3> QED BY <3>1, <3>2
  <2>2. ASSUME NEW g \in Channel, NEW x \in dram[g], w = At("dram", g, g, 0, x), w # e
        PROVE  x \in dr[g]
    <3>1. ~(g = h /\ x = r)
      BY <1>2, <2>2
    <3> QED BY <1>7, <3>1
  <2> QED BY <2>1, <2>2
<1>10. \A w : w \in After0 <=> ((w \in Waiting /\ w # e) \/ w = f)
  <2> SUFFICES ASSUME NEW w PROVE w \in After0 <=> ((w \in Waiting /\ w # e) \/ w = f)
    OBVIOUS
  <2>1. e.what = "dram" /\ f.what = "done"
    BY <1>2, AtFields
  <2>2. /\ \A c, j, x : At("queue", c, c, j, x) # e
        /\ \A n, m, j, x : At("path", n, m, j, x) # e
        /\ \A n, j, x : At("out", n, n, j, x) # e /\ At("done", n, n, j, x) # e
    BY <2>1, AtFields
  <2> DEFINE Queues == \E c \in Core : \E j \in DOMAIN request_queue[c] : w = At("queue", c, c, j, request_queue[c][j])
             Paths == \E n, m \in Node : \E j \in DOMAIN in_buffer[n][m] :
                        w = At("path", n, m, j, in_buffer[n][m][j].access)
             Nodes == \E n \in Node : \E j \in DOMAIN out_buffer[n] : w = At("out", n, n, j, out_buffer[n][j])
             Before1 == \E g \in Channel : \E x \in dram[g] : w = At("dram", g, g, 0, x)
             After1 == \E g \in Channel : \E x \in dr[g] : w = At("dram", g, g, 0, x)
             Before2 == \E g \in Channel : \E j \in DOMAIN dram_done[g] : w = At("done", g, g, j, dram_done[g][j])
             After2 == \E g \in Channel : \E j \in DOMAIN dd[g] : w = At("done", g, g, j, dd[g][j])
  <2>3. w \in After0 <=> Queues \/ Paths \/ Nodes \/ After1 \/ After2
    BY InPlaces
  <2>4. w \in Waiting <=> Queues \/ Paths \/ Nodes \/ Before1 \/ Before2
    BY InPlaces DEF Waiting
  <2>5. Queues \/ Paths \/ Nodes \/ Before2 => w # e
    BY <2>2
  <2>6. After2 <=> Before2 \/ w = f
    BY <1>8
  <2>7. After1 <=> Before1 /\ w # e
    BY <1>9
  <2>8. f # e
    BY <2>1
  <2> HIDE DEF After0, Queues, Paths, Nodes, Before1, After1, Before2, After2
  <2> QED BY <2>3, <2>4, <2>5, <2>6, <2>7, <2>8
<1>11. e \in Waiting /\ e.access = r /\ f.access = r
  BY <1>2, InPlaces, AtFields DEF Waiting
<1>12. Waiting' = After0
  BY <1>4, <1>5 DEF Waiting
<1> HIDE DEF After0
<1>13. PICK places : places = After0
  OBVIOUS
<1>14. {w.access : w \in places} = pending
  <2>1. {w.access : w \in Waiting} = pending
    BY DEF OnWayInv, EachAtOnePlace
  <2>2. ASSUME NEW w \in places PROVE w.access \in pending
    BY <1>10, <1>11, <1>13, <2>1
  <2>3. ASSUME NEW x \in pending PROVE \E w \in places : w.access = x
    <3>1. PICK w \in Waiting : w.access = x
      BY <2>1
    <3>2. CASE w = e
      BY <1>10, <1>11, <1>13, <3>1, <3>2
    <3>3. CASE w # e
      BY <1>10, <1>13, <3>1, <3>3
    <3> QED BY <3>2, <3>3
  <2> QED BY <2>2, <2>3
<1>15. \A v, w \in places : v.access = w.access => v = w
  <2>1. \A w \in Waiting : w.access = r => w = e
    BY <1>11 DEF OnWayInv, EachAtOnePlace
  <2> QED BY <1>10, <1>11, <1>13, <2>1 DEF OnWayInv, EachAtOnePlace
<1> QED BY <1>5, <1>12, <1>13, <1>14, <1>15 DEF EachAtOnePlace

LEMMA InitPlaces == Init => EachAtOnePlace
<1> SUFFICES ASSUME Init PROVE EachAtOnePlace
  OBVIOUS
<1>1. \A w : w \notin Waiting
  BY InPlaces DEF Init, Waiting
<1> QED BY <1>1 DEF Init, EachAtOnePlace

LEMMA OnWayNext == OnWayInv /\ [Next]_vars => OnWayInv'
<1> SUFFICES ASSUME OnWayInv, [Next]_vars PROVE EachAtOnePlace'
  BY PathNext DEF OnWayInv
<1>1. ASSUME NEW r \in Request, IssueRequest(r) PROVE EachAtOnePlace'
  BY <1>1, IssuePlaces
<1>2. ASSUME NEW h \in Channel, NEW r \in dram[h], DramCycle(h, r) PROVE EachAtOnePlace'
  BY <1>2, DramPlaces
<1>3. ASSUME NEW full \in SUBSET Channel, IcntCycle(full) PROVE EachAtOnePlace'
  BY <1>3, IcntPlaces
<1>4. CASE UNCHANGED vars
  BY <1>4 DEF vars, netVars, OnWayInv, EachAtOnePlace, Waiting
<1> QED BY <1>1, <1>2, <1>3, <1>4 DEF Next
-----------------------------------------------------------------------------
(* The theorems.                                                           *)

(* Simulator::cycle and SimpleInterconnect lose no request and give none    *)
(* twice, and never bring an answer to another core than the one that       *)
(* asked, or a request to another channel than the one its address is       *)
(* hashed to, whatever the order of the clocks and for any numbers of       *)
(* cores, ports and channels and any latency.                               *)
THEOREM PathIsRight == Spec => []OnItsWay
<1>1. Init => OnWayInv
  BY InitPath, InitPlaces DEF OnWayInv
<1>2. OnWayInv /\ [Next]_vars => OnWayInv'
  BY OnWayNext
<1>3. OnWayInv => OnItsWay
  BY InvPlaces DEF OnWayInv, OnItsWay
<1> QED BY <1>1, <1>2, <1>3, PTL DEF Spec

(* What a cycle of the interconnect answers was asked and not answered: a   *)
(* core is never given an answer that it does not wait for, so that the     *)
(* steps of Simulator::cycle are those of the memory service.               *)
THEOREM ServesMemorySafely ==
  Spec => /\ Service!ServiceSafety
          /\ []\A full \in SUBSET Channel : {v.access : v \in Answered(full)} \subseteq pending
<1>1. Init => Service!ServiceInit
  BY DEF Init, Service!ServiceInit
<1>2. ASSUME OnWayInv PROVE \A full \in SUBSET Channel : {v.access : v \in Answered(full)} \subseteq pending
  <2> SUFFICES ASSUME NEW full \in SUBSET Channel, NEW v \in Answered(full) PROVE v.access \in pending
    OBVIOUS
  <2>1. PICK n \in Node : Taken(n, full) /\ v = At("out", n, n, 1, out_buffer[n][1])
    BY DEF Answered
  <2>2. 1 \in DOMAIN out_buffer[n]
    <3>1. out_buffer[n] \in Seq(Request) /\ out_buffer[n] # <<>>
      BY <1>2, <2>1 DEF Taken, OnWayInv, PathInv
    <3> QED BY <3>1, EmptySeq, LenProperties
  <2>3. v \in Waiting
    BY <2>1, <2>2, InPlaces DEF Waiting
  <2> QED BY <1>2, <2>3 DEF OnWayInv, EachAtOnePlace
<1>3. ASSUME OnWayInv, [Next]_vars PROVE [Service!ServiceNext]_pending
  <2>1. ASSUME NEW r \in Request, IssueRequest(r) PROVE Service!Ask({r})
    BY <2>1 DEF IssueRequest, Service!Ask
  <2>2. ASSUME NEW full \in SUBSET Channel, IcntCycle(full) PROVE \E S \in SUBSET Request : Service!Answer(S)
    <3>1. pending' = pending \ {out_buffer[n][1] : n \in {m \in Node : IsCorePort(m) /\ Taken(m, full)}}
      BY <2>2 DEF IcntCycle
    <3>2. PICK S : S = pending \cap {out_buffer[n][1] : n \in {m \in Node : IsCorePort(m) /\ Taken(m, full)}}
      OBVIOUS
    <3>3. S \subseteq pending /\ pending' = pending \ S
      BY <3>1, <3>2
    <3>4. S \in SUBSET Request
      BY <1>3, <3>3 DEF OnWayInv, PathInv
    <3> QED BY <3>3, <3>4 DEF Service!Answer
  <2>3. ASSUME NEW h \in Channel, NEW r \in dram[h], DramCycle(h, r) PROVE UNCHANGED pending
    BY <2>3 DEF DramCycle
  <2>4. CASE UNCHANGED vars
    BY <2>4 DEF vars
  <2> QED BY <1>3, <2>1, <2>2, <2>3, <2>4 DEF Next, Service!ServiceNext
<1>4. Spec => []OnWayInv
  <2>1. Init => OnWayInv
    BY InitPath, InitPlaces DEF OnWayInv
  <2> QED BY <2>1, OnWayNext, PTL DEF Spec
<1> QED BY <1>1, <1>2, <1>3, <1>4, PTL DEF Spec, Service!ServiceSafety
=============================================================================
