---------------------------- MODULE L2CacheProofs ---------------------------
(***************************************************************************)
(* Proofs about L2Cache, for any requests, sizes and order of the answers: *)
(* the pool of slots, its two lists, the index from ids and the places the *)
(* slots keep agree, and a miss always finds a slot.  Then: a block is in  *)
(* one line, a request in one place, the bank answers what was asked, and  *)
(* without stores every block on its way is counted for its own object.    *)
(***************************************************************************)
EXTENDS L2Cache, TLAPS, SequenceTheorems, FiniteSetTheorems, WellFoundedInduction

(* The inductive invariant: beyond the properties themselves, that no slot  *)
(* is in neither list, that no object has more blocks issued than it has,   *)
(* and that what the memory answers names a slot.                           *)
WritesBack == \E B : wb_q \in Seq({WriteBack(b) : b \in B})
CacheInv ==
  /\ SlotsConsistent
  /\ SlotLeftForMiss
  /\ Len(free_slots) + Len(active_slots) = Slots
  /\ \A s \in Slot : pending[s].issued <= pending[s].total
  /\ \A x \in DOMAIN memory : x.id \in Slot /\ x.evicted \in BOOLEAN
  /\ WritesBack

(* The part of it that is about the slots.                                  *)
Pool ==
  /\ pending \in [Slot -> PendingObj]
  /\ free_slots \in Seq(Slot) /\ active_slots \in Seq(Slot) /\ active_pending \in Int
  /\ DOMAIN id_to_slot \subseteq Nat /\ \A i \in DOMAIN id_to_slot : id_to_slot[i] \in Slot
  /\ Distinct(free_slots) /\ Distinct(active_slots)
  /\ Elements(active_slots) = ActiveSlots
  /\ Elements(free_slots) = Slot \ ActiveSlots
  /\ active_pending = Len(active_slots)
  /\ \A k \in 1 .. Len(active_slots) : pending[active_slots[k]].idx = k - 1
  /\ \A s \in ActiveSlots : pending[s].id \in DOMAIN id_to_slot /\ id_to_slot[pending[s].id] = s
  /\ DOMAIN id_to_slot = {pending[s].id : s \in ActiveSlots}
  /\ Len(free_slots) + Len(active_slots) = Slots
  /\ \A s \in Slot : pending[s].issued <= pending[s].total

Queues ==
  /\ in_q \in Seq(Request) /\ out_q \in Seq(Request) /\ miss_q \in Seq(FetchRequest)
  /\ asked \subseteq Request /\ answered \subseteq Request
  /\ phase \in {"idle", "issue", "accept", "coalesce"} /\ count \in Nat
  /\ aborted \in BOOLEAN
  /\ \A x \in DOMAIN memory : x.id \in Slot /\ x.evicted \in BOOLEAN
  /\ WritesBack

LEMMA CacheInvParts ==
  /\ CacheInv <=> Pool /\ Queues /\ SlotLeftForMiss
  /\ CacheInv' <=> Pool' /\ Queues' /\ SlotLeftForMiss'
BY DEF CacheInv, Pool, Queues, SlotsConsistent, SlotTypeOK

-----------------------------------------------------------------------------
(* Sequences and slots.                                                    *)

LEMMA ElementsFacts ==
  ASSUME NEW S, NEW q \in Seq(S)
  PROVE  /\ Len(q) \in Nat /\ Elements(q) \subseteq S
         /\ \A x \in Elements(q) : \E k \in 1 .. Len(q) : q[k] = x
         /\ \A k \in 1 .. Len(q) : q[k] \in Elements(q)
<1>1. Len(q) \in Nat /\ \A k \in 1 .. Len(q) : q[k] \in S
  BY LenProperties, ElementOfSeq
<1> QED BY <1>1 DEF Elements

(* Slots that change nothing but their blocks and who waits for them leave  *)
(* the pool as it is.                                                       *)
LEMMA PoolKept ==
  ASSUME Pool, UNCHANGED <<free_slots, active_slots, active_pending, id_to_slot>>,
         pending' \in [Slot -> PendingObj],
         \A s \in Slot : /\ pending'[s].active = pending[s].active
                         /\ pending'[s].id = pending[s].id
                         /\ pending'[s].idx = pending[s].idx
                         /\ pending'[s].issued <= pending'[s].total
  PROVE  Pool'
<1>1. ActiveSlots' = ActiveSlots
  BY DEF ActiveSlots
<1>2. \A k \in 1 .. Len(active_slots) : active_slots[k] \in Slot
  BY ElementOfSeq DEF Pool
<1>3. \A s \in ActiveSlots : s \in Slot
  BY DEF ActiveSlots
<1>4. {pending'[s].id : s \in ActiveSlots} = {pending[s].id : s \in ActiveSlots}
  BY <1>3
<1>5. \A k \in 1 .. Len(active_slots) : pending'[active_slots[k]].idx = k - 1
  BY <1>2 DEF Pool
<1>6. \A s \in ActiveSlots : pending'[s].id \in DOMAIN id_to_slot /\ id_to_slot[pending'[s].id] = s
  BY <1>3 DEF Pool
<1>7. Elements(active_slots)' = Elements(active_slots) /\ Elements(free_slots)' = Elements(free_slots)
      /\ Distinct(active_slots)' = Distinct(active_slots) /\ Distinct(free_slots)' = Distinct(free_slots)
  BY DEF Elements, Distinct
<1> QED BY <1>1, <1>4, <1>5, <1>6, <1>7 DEF Pool

(* What issue_blocks sends, and how much of an object it counts.            *)
LEMMA ToIssueFacts ==
  ASSUME NEW po \in PendingObj, po.issued <= po.total, Len(miss_q) \in Nat
  PROVE  ToIssue(po) \in Nat /\ po.issued + ToIssue(po) <= po.total
BY CacheAssumption DEF ToIssue, Available, Unissued, PendingObj

LEMMA BatchFacts ==
  ASSUME NEW s \in Slot, NEW po \in PendingObj, NEW n \in Nat
  PROVE  Batch(s, po, n) \in Seq(FetchRequest)
<1>1. \A k \in 1 .. n : po.base + po.issued + k - 1 \in Nat
  BY DEF PendingObj
<1>2. \A k \in 1 .. n : Fetch(s, po.base + po.issued + k - 1, po.write) \in FetchRequest
  BY <1>1 DEF Fetch, FetchRequest, PendingObj
<1>3. Batch(s, po, n) \in [1 .. n -> FetchRequest]
  BY <1>2 DEF Batch
<1>4. [1 .. n -> FetchRequest] \subseteq Seq(FetchRequest)
  BY SeqDef
<1> QED BY <1>3, <1>4

LEMMA MissQueueGrows ==
  ASSUME Queues, NEW s \in Slot, NEW po \in PendingObj, NEW n \in Nat
  PROVE  miss_q \o Batch(s, po, n) \in Seq(FetchRequest)
BY BatchFacts, ConcatProperties DEF Queues

(* issue_blocks for a slot whose object has changed nothing the pool knows. *)
LEMMA IssuedKeepsPool ==
  ASSUME Pool, UNCHANGED <<free_slots, active_slots, active_pending, id_to_slot>>,
         NEW s \in Slot, NEW po \in PendingObj, po.issued <= po.total,
         po.active = pending[s].active, po.id = pending[s].id, po.idx = pending[s].idx,
         NEW n \in Nat, po.issued + n <= po.total,
         pending' = [pending EXCEPT ![s] = [po EXCEPT !.issued = @ + n]]
  PROVE  Pool'
<1> DEFINE new == [po EXCEPT !.issued = @ + n]
<1>1. /\ new \in PendingObj /\ new.active = po.active /\ new.id = po.id /\ new.idx = po.idx
      /\ new.issued <= new.total
  <2>1. po.issued + n \in Nat
    BY DEF PendingObj
  <2>2. new = [po EXCEPT !.issued = po.issued + n]
    OBVIOUS
  <2> QED BY <2>1, <2>2 DEF PendingObj
<1> HIDE DEF new
<1>2. pending' \in [Slot -> PendingObj] /\ \A t \in Slot : pending'[t] = IF t = s THEN new ELSE pending[t]
  BY <1>1 DEF Pool, new
<1>3. \A t \in Slot : /\ pending'[t].active = pending[t].active
                      /\ pending'[t].id = pending[t].id
                      /\ pending'[t].idx = pending[t].idx
                      /\ pending'[t].issued <= pending'[t].total
  BY <1>1, <1>2 DEF Pool
<1> QED BY <1>2, <1>3, PoolKept

-----------------------------------------------------------------------------
(* free_pending_slot.                                                      *)

(* The last element takes the place of the one at i, and the sequence is    *)
(* one shorter.                                                             *)
Popped(q, i, r) ==
  /\ Len(r) = Len(q) - 1
  /\ \A k \in 1 .. Len(r) : r[k] = IF k = i THEN q[Len(q)] ELSE q[k]
  /\ Distinct(r)
  /\ Elements(r) = Elements(q) \ {q[i]}

LEMMA SwapAndPop ==
  ASSUME NEW S, NEW q \in Seq(S), Distinct(q), NEW i \in 1 .. Len(q),
         NEW r, r = SubSeq([q EXCEPT ![i] = q[Len(q)]], 1, Len(q) - 1)
  PROVE  r \in Seq(S) /\ Popped(q, i, r)
<1> DEFINE n == Len(q)
           p == [q EXCEPT ![i] = q[n]]
<1>1. n \in Nat \ {0} /\ n \in 1 .. n /\ \A k \in 1 .. n : q[k] \in S
  BY LenProperties, ElementOfSeq
<1>2. \A k \in 1 .. n : p[k] = (IF k = i THEN q[n] ELSE q[k]) /\ p[k] \in S
  BY <1>1, LenProperties
<1>3. r \in Seq(S) /\ Len(r) = n - 1 /\ \A k \in 1 .. n - 1 : r[k] = p[k]
  <2>1. \A k \in 1 .. n - 1 : p[k] \in S
    BY <1>1, <1>2
  <2>2. 1 \in Int /\ n - 1 \in Int /\ r = SubSeq(p, 1, n - 1)
    BY <1>1
  <2> HIDE DEF p, n
  <2>3. /\ SubSeq(p, 1, n - 1) \in Seq(S)
        /\ Len(SubSeq(p, 1, n - 1)) = IF 1 <= n - 1 THEN (n - 1) - 1 + 1 ELSE 0
        /\ \A k \in 1 .. (n - 1) - 1 + 1 : SubSeq(p, 1, n - 1)[k] = p[1 + k - 1]
    BY <2>1, <2>2, SubSeqProperties
  <2>4. (n - 1) - 1 + 1 = n - 1 /\ \A k \in Int : 1 + k - 1 = k
    BY <1>1
  <2> QED BY <1>1, <2>2, <2>3, <2>4
<1>4. \A k \in 1 .. n - 1 : k \in 1 .. n /\ k # n /\ r[k] = IF k = i THEN q[n] ELSE q[k]
  BY <1>1, <1>2, <1>3
<1> HIDE DEF p
<1>5. \A j, k \in 1 .. n : q[j] = q[k] => j = k
  BY DEF Distinct
<1>6. \A j, k \in 1 .. n - 1 : r[j] = r[k] => j = k
  BY <1>1, <1>4, <1>5
<1>7. \A k \in 1 .. n - 1 : r[k] \in Elements(q) \ {q[i]}
  BY <1>1, <1>4, <1>5 DEF Elements
<1>8. ASSUME NEW x \in Elements(q), x # q[i] PROVE \E k \in 1 .. n - 1 : r[k] = x
  <2>1. PICK k \in 1 .. n : q[k] = x
    BY DEF Elements
  <2>2. CASE k = n
    <3>1. i \in 1 .. n - 1
      BY <1>1, <1>8, <2>1, <2>2
    <3> QED BY <1>4, <2>1, <2>2, <3>1
  <2>3. CASE k # n
    <3>1. k \in 1 .. n - 1 /\ k # i
      BY <1>1, <1>8, <2>1, <2>3
    <3> QED BY <1>4, <2>1, <3>1
  <2> QED BY <2>2, <2>3
<1>9. \A k \in 1 .. Len(r) : r[k] = IF k = i THEN q[Len(q)] ELSE q[k]
  BY <1>3, <1>4
<1>10. Distinct(r)
  BY <1>3, <1>6 DEF Distinct
<1>11. Elements(r) = Elements(q) \ {q[i]}
  <2>1. Elements(r) = {r[k] : k \in 1 .. n - 1}
    BY <1>3 DEF Elements
  <2> HIDE DEF n
  <2> QED BY <1>7, <1>8, <2>1
<1> QED BY <1>3, <1>9, <1>10, <1>11 DEF Popped

(* Where an active slot is.                                                 *)
LEMMA ActivePlace ==
  ASSUME Pool, NEW s \in ActiveSlots
  PROVE  /\ s \in Slot /\ pending[s].idx + 1 \in 1 .. Len(active_slots)
         /\ active_slots[pending[s].idx + 1] = s
         /\ Len(active_slots) \in 1 .. Len(active_slots)
         /\ active_slots[Len(active_slots)] \in ActiveSlots
<1>1. PICK k \in 1 .. Len(active_slots) : active_slots[k] = s
  BY DEF Pool, Elements
<1>2. Len(active_slots) \in Nat
  BY LenProperties DEF Pool
<1>3. pending[s].idx = k - 1
  BY <1>1 DEF Pool
<1>4. pending[s].idx + 1 = k
  BY <1>2, <1>3
<1>5. Len(active_slots) \in 1 .. Len(active_slots)
  BY <1>2
<1>6. active_slots[Len(active_slots)] \in ActiveSlots
  BY <1>5 DEF Pool, Elements
<1> QED BY <1>1, <1>4, <1>5, <1>6 DEF ActiveSlots

(* What it does to the slots: s is no longer active, and the last one has   *)
(* the place of s.                                                          *)
LEMMA ResetFacts ==
  ASSUME Pool, NEW s \in ActiveSlots, NEW last \in Slot, last = active_slots[Len(active_slots)],
         pending' = Reset(s)
  PROVE  /\ pending' \in [Slot -> PendingObj]
         /\ ~pending'[s].active
         /\ \A t \in Slot \ {s} : pending'[t].active = pending[t].active /\ pending'[t].id = pending[t].id
         /\ \A t \in Slot \ {s, last} : pending'[t].idx = pending[t].idx
         /\ last # s => pending'[last].idx = pending[s].idx
         /\ \A t \in Slot : pending'[t].issued <= pending'[t].total
         /\ pending'[s].waiting = <<>>
         /\ \A t \in Slot \ {s} : pending'[t].waiting = pending[t].waiting
         /\ pending'[s].total = 0 /\ pending'[s].issued = 0 /\ pending'[s].returned = 0 /\ ~pending'[s].write
         /\ \A t \in Slot \ {s} :
              /\ pending'[t].total = pending[t].total /\ pending'[t].issued = pending[t].issued
              /\ pending'[t].returned = pending[t].returned /\ pending'[t].write = pending[t].write
<1> DEFINE empty == [NoFetch EXCEPT !.idx = pending[s].idx]
           again == [empty EXCEPT !.idx = pending[s].idx]
           moved == [pending[last] EXCEPT !.idx = pending[s].idx]
           Nothing(po) == po.total = 0 /\ po.issued = 0 /\ po.returned = 0 /\ ~po.write
<1>1. s \in Slot /\ pending \in [Slot -> PendingObj] /\ pending[s].idx \in Nat
  BY DEF Pool, ActiveSlots, PendingObj
<1>2. /\ NoFetch \in PendingObj /\ ~NoFetch.active /\ NoFetch.issued <= NoFetch.total
      /\ NoFetch.waiting = <<>> /\ Nothing(NoFetch)
  <2>1. <<>> \in Seq(Request)
    BY EmptySeq
  <2> QED BY <2>1 DEF NoFetch, PendingObj
<1>3. /\ empty \in PendingObj /\ ~empty.active /\ empty.issued <= empty.total
      /\ again \in PendingObj /\ ~again.active /\ again.issued <= again.total
      /\ empty.waiting = <<>> /\ again.waiting = <<>> /\ Nothing(empty) /\ Nothing(again)
  <2>1. /\ empty \in PendingObj /\ empty.active = NoFetch.active /\ empty.issued = NoFetch.issued
        /\ empty.total = NoFetch.total /\ empty.waiting = NoFetch.waiting
        /\ empty.returned = NoFetch.returned /\ empty.write = NoFetch.write
    BY <1>1, <1>2 DEF PendingObj
  <2> HIDE DEF empty
  <2>2. /\ again \in PendingObj /\ again.active = empty.active /\ again.issued = empty.issued
        /\ again.total = empty.total /\ again.waiting = empty.waiting
        /\ again.returned = empty.returned /\ again.write = empty.write
    BY <1>1, <2>1 DEF PendingObj
  <2> HIDE DEF again
  <2> QED BY <1>2, <2>1, <2>2
<1>4. /\ moved \in PendingObj /\ moved.active = pending[last].active /\ moved.id = pending[last].id
      /\ moved.idx = pending[s].idx /\ moved.issued = pending[last].issued /\ moved.total = pending[last].total
      /\ moved.waiting = pending[last].waiting /\ moved.returned = pending[last].returned
      /\ moved.write = pending[last].write
  BY <1>1 DEF PendingObj
<1>5. \A t \in Slot : pending'[t] = IF t = s THEN (IF last = s THEN again ELSE empty)
                                      ELSE IF t = last THEN moved ELSE pending[t]
  <2> DEFINE without == [pending EXCEPT ![s] = empty]
  <2>1. pending' = [without EXCEPT ![last] = [without[last] EXCEPT !.idx = pending[s].idx]]
    BY DEF Reset
  <2>2. DOMAIN without = Slot /\ \A t \in Slot : without[t] = IF t = s THEN empty ELSE pending[t]
    BY <1>1
  <2> HIDE DEF without, empty
  <2>3. \A t \in Slot \ {last} : pending'[t] = without[t]
    BY <2>1, <2>2
  <2>4. pending'[last] = [without[last] EXCEPT !.idx = pending[s].idx]
    BY <2>1, <2>2
  <2>5. pending'[last] = IF last = s THEN again ELSE moved
    BY <2>2, <2>4
  <2> QED BY <2>2, <2>3, <2>5
<1>6. DOMAIN pending' = Slot /\ pending' = [t \in Slot |-> pending'[t]]
  BY <1>1 DEF Reset
<1> HIDE DEF empty, again, moved
<1>7. \A t \in Slot : pending'[t] \in PendingObj
  BY <1>1, <1>3, <1>4, <1>5
<1>8. \A t \in Slot : pending'[t].issued <= pending'[t].total
  BY <1>3, <1>4, <1>5 DEF Pool
<1> QED BY <1>1, <1>3, <1>4, <1>5, <1>6, <1>7, <1>8

LEMMA FreeKeepsPool ==
  ASSUME Pool, NEW s \in ActiveSlots, FreePendingSlot(s)
  PROVE  Pool' /\ Len(free_slots') = Len(free_slots) + 1
<1> DEFINE n == Len(active_slots)
           i == pending[s].idx + 1
           last == active_slots[n]
<1>1. /\ s \in Slot /\ i \in 1 .. n /\ active_slots[i] = s /\ n \in 1 .. n
      /\ last \in ActiveSlots /\ last \in Slot /\ n \in Nat
  <2>1. active_slots \in Seq(Slot)
    BY DEF Pool
  <2> QED BY <2>1, ActivePlace, LenProperties DEF ActiveSlots
<1>2. /\ active_slots' \in Seq(Slot) /\ Len(active_slots') = n - 1
      /\ \A k \in 1 .. Len(active_slots') : active_slots'[k] = IF k = i THEN last ELSE active_slots[k]
      /\ Distinct(active_slots)' /\ Elements(active_slots)' = Elements(active_slots) \ {s}
  <2>1. active_slots' = SubSeq([active_slots EXCEPT ![i] = active_slots[Len(active_slots)]], 1, Len(active_slots) - 1)
    BY DEF FreePendingSlot, WithoutSlot
  <2>2. active_slots \in Seq(Slot) /\ Distinct(active_slots)
    BY DEF Pool
  <2>3. /\ active_slots' \in Seq(Slot) /\ Len(active_slots') = n - 1
        /\ \A k \in 1 .. Len(active_slots') : active_slots'[k] = IF k = i THEN last ELSE active_slots[k]
        /\ Distinct(active_slots') /\ Elements(active_slots') = Elements(active_slots) \ {active_slots[i]}
    <3>1. i \in 1 .. Len(active_slots)
      BY <1>1
    <3> HIDE DEF i
    <3>2. active_slots' \in Seq(Slot) /\ Popped(active_slots, i, active_slots')
      BY <2>1, <2>2, <3>1, SwapAndPop
    <3> QED BY <3>2 DEF Popped
  <2> QED BY <1>1, <2>3 DEF Distinct, Elements
<1>3. /\ pending' \in [Slot -> PendingObj]
      /\ ~pending'[s].active
      /\ \A t \in Slot \ {s} : pending'[t].active = pending[t].active /\ pending'[t].id = pending[t].id
      /\ \A t \in Slot \ {s, last} : pending'[t].idx = pending[t].idx
      /\ last # s => pending'[last].idx = pending[s].idx
      /\ \A t \in Slot : pending'[t].issued <= pending'[t].total
  BY <1>1, ResetFacts DEF FreePendingSlot
<1>4. ActiveSlots' = ActiveSlots \ {s}
  BY <1>1, <1>3 DEF ActiveSlots
<1>5. /\ free_slots' \in Seq(Slot) /\ Len(free_slots') = Len(free_slots) + 1
      /\ Distinct(free_slots)' /\ Elements(free_slots)' = Elements(free_slots) \cup {s}
  <2>1. free_slots \in Seq(Slot) /\ Len(free_slots) \in Nat /\ free_slots' = Append(free_slots, s)
    BY LenProperties DEF Pool, FreePendingSlot
  <2>2. /\ free_slots' \in Seq(Slot) /\ Len(free_slots') = Len(free_slots) + 1
        /\ \A k \in 1 .. Len(free_slots) : free_slots'[k] = free_slots[k]
        /\ free_slots'[Len(free_slots) + 1] = s
    BY <1>1, <2>1, AppendProperties
  <2>3. s \notin Elements(free_slots) /\ Distinct(free_slots)
    BY DEF Pool
  <2>4. \A k \in 1 .. Len(free_slots') : k \in 1 .. Len(free_slots) \/ k = Len(free_slots) + 1
    BY <2>1, <2>2
  <2>5. Distinct(free_slots)'
    BY <2>1, <2>2, <2>3, <2>4 DEF Distinct, Elements
  <2>6. Elements(free_slots)' = Elements(free_slots) \cup {s}
    <3>1. Len(free_slots) + 1 \in 1 .. Len(free_slots') /\ \A k \in 1 .. Len(free_slots) : k \in 1 .. Len(free_slots')
      BY <2>1, <2>2
    <3> QED BY <2>2, <2>4, <3>1 DEF Elements
  <2> QED BY <2>2, <2>5, <2>6
<1>6. active_pending' \in Int /\ active_pending' = Len(active_slots') /\ Len(free_slots') + Len(active_slots') = Slots
  <2>1. Len(free_slots) \in Nat /\ active_pending = n /\ Len(free_slots) + n = Slots
    BY LenProperties DEF Pool
  <2> QED BY <1>1, <1>2, <1>5, <2>1 DEF FreePendingSlot
<1>7. /\ DOMAIN id_to_slot' = DOMAIN id_to_slot \ {pending[s].id}
      /\ \A j \in DOMAIN id_to_slot' : id_to_slot'[j] = id_to_slot[j]
  BY DEF FreePendingSlot
<1>8. ASSUME NEW t \in ActiveSlots, t # s
      PROVE  pending[t].id # pending[s].id
  BY <1>8 DEF Pool
<1>9. \A k \in 1 .. Len(active_slots') : pending'[active_slots'[k]].idx = k - 1
  <2> SUFFICES ASSUME NEW k \in 1 .. Len(active_slots') PROVE pending'[active_slots'[k]].idx = k - 1
    OBVIOUS
  <2>1. k \in 1 .. n /\ k # n
    BY <1>1, <1>2
  <2>2. CASE k = i
    <3>1. active_slots'[k] = last
      BY <1>2, <2>2
    <3>2. last # s
      BY <1>1, <2>1, <2>2 DEF Pool, Distinct
    <3>3. pending[s].idx = k - 1
      BY <1>1, <2>2 DEF Pool
    <3> QED BY <1>3, <3>1, <3>2, <3>3
  <2>3. CASE k # i
    <3>1. active_slots'[k] = active_slots[k]
      BY <1>2, <2>3
    <3>2. active_slots[k] \in Slot \ {s, last}
      <4>1. active_slots[k] \in Slot
        BY <2>1, ElementOfSeq DEF Pool
      <4> QED BY <1>1, <2>1, <2>3, <4>1 DEF Pool, Distinct
    <3> QED BY <1>3, <2>1, <3>1, <3>2 DEF Pool
  <2> QED BY <2>2, <2>3
<1>10. \A t \in ActiveSlots' : pending'[t].id \in DOMAIN id_to_slot' /\ id_to_slot'[pending'[t].id] = t
  <2> SUFFICES ASSUME NEW t \in ActiveSlots, t # s
               PROVE  pending'[t].id \in DOMAIN id_to_slot' /\ id_to_slot'[pending'[t].id] = t
    BY <1>4
  <2>1. pending'[t].id = pending[t].id /\ t \in Slot
    BY <1>3 DEF ActiveSlots
  <2> QED BY <1>7, <1>8, <2>1 DEF Pool
<1>11. DOMAIN id_to_slot' = {pending'[t].id : t \in ActiveSlots'}
  <2>1. \A t \in ActiveSlots' : pending'[t].id = pending[t].id /\ t \in ActiveSlots
    BY <1>3, <1>4 DEF ActiveSlots
  <2>2. \A t \in ActiveSlots : t # s => t \in ActiveSlots' /\ pending[t].id # pending[s].id
    BY <1>4, <1>8
  <2>3. DOMAIN id_to_slot = {pending[t].id : t \in ActiveSlots}
    BY DEF Pool
  <2> QED BY <1>4, <1>7, <2>1, <2>2, <2>3
<1>12. DOMAIN id_to_slot' \subseteq Nat /\ \A j \in DOMAIN id_to_slot' : id_to_slot'[j] \in Slot
  BY <1>7 DEF Pool
<1>13. Elements(active_slots)' = ActiveSlots' /\ Elements(free_slots)' = Slot \ ActiveSlots'
  BY <1>1, <1>2, <1>4, <1>5 DEF Pool
<1> HIDE DEF n, i, last
<1> QED BY <1>2, <1>3, <1>5, <1>6, <1>9, <1>10, <1>11, <1>12, <1>13 DEF Pool

-----------------------------------------------------------------------------
(* A new fetch takes the last free slot.                                   *)

LEMMA PopBack ==
  ASSUME NEW S, NEW q \in Seq(S), q # <<>>, Distinct(q),
         NEW r, r = SubSeq(q, 1, Len(q) - 1)
  PROVE  /\ q[Len(q)] \in Elements(q) /\ q[Len(q)] \in S /\ Len(q) - 1 \in Nat
         /\ r \in Seq(S) /\ Popped(q, Len(q), r)
<1>1. Len(q) \in Nat \ {0} /\ Len(q) \in 1 .. Len(q) /\ DOMAIN q = 1 .. Len(q)
  BY EmptySeq, LenProperties
<1>2. q[Len(q)] \in S /\ q[Len(q)] \in Elements(q)
  BY <1>1, ElementOfSeq DEF Elements
<1>3. q = [q EXCEPT ![Len(q)] = q[Len(q)]]
  <2>1. q \in [1 .. Len(q) -> S]
    BY LenProperties
  <2> QED BY <1>1, <2>1
<1>4. r = SubSeq([q EXCEPT ![Len(q)] = q[Len(q)]], 1, Len(q) - 1)
  BY <1>3
<1>5. r \in Seq(S) /\ Popped(q, Len(q), r)
  BY <1>1, <1>4, SwapAndPop
<1>6. Len(q) - 1 \in Nat
  BY <1>1
<1> QED BY <1>2, <1>5, <1>6

Pushed(q, x, r) ==
  /\ Len(r) = Len(q) + 1
  /\ \A k \in 1 .. Len(r) : (k \in 1 .. Len(q) /\ r[k] = q[k]) \/ (k = Len(q) + 1 /\ r[k] = x)
  /\ Distinct(r)
  /\ Elements(r) = Elements(q) \cup {x}

LEMMA PushBack ==
  ASSUME NEW S, NEW q \in Seq(S), NEW x \in S, Distinct(q), x \notin Elements(q),
         NEW r, r = Append(q, x)
  PROVE  r \in Seq(S) /\ Len(q) \in Nat /\ Pushed(q, x, r)
<1>1. Len(q) \in Nat
  BY LenProperties
<1>2. r \in Seq(S) /\ Len(r) = Len(q) + 1 /\ (\A k \in 1 .. Len(q) : r[k] = q[k]) /\ r[Len(q) + 1] = x
  BY <1>1, AppendProperties
<1>3. \A k \in 1 .. Len(r) : k \in 1 .. Len(q) \/ k = Len(q) + 1
  BY <1>1, <1>2
<1>4. Distinct(r)
  BY <1>1, <1>2, <1>3 DEF Distinct, Elements
<1>5. Elements(r) = Elements(q) \cup {x}
  <2>1. Len(q) + 1 \in 1 .. Len(r) /\ \A k \in 1 .. Len(q) : k \in 1 .. Len(r)
    BY <1>1, <1>2
  <2> QED BY <1>2, <1>3, <2>1 DEF Elements
<1>6. \A k \in 1 .. Len(r) : (k \in 1 .. Len(q) /\ r[k] = q[k]) \/ (k = Len(q) + 1 /\ r[k] = x)
  BY <1>2, <1>3
<1> QED BY <1>1, <1>2, <1>4, <1>5, <1>6 DEF Pushed

LEMMA StartKeepsPool ==
  ASSUME Pool, NEW r \in Request, ~InFlight(r), free_slots # <<>>,
         NEW s, s = free_slots[Len(free_slots)],
         NEW po \in PendingObj, po.active, po.id = Id[r], po.idx = Len(active_slots), po.issued <= po.total,
         free_slots' = SubSeq(free_slots, 1, Len(free_slots) - 1),
         active_slots' = Append(active_slots, s),
         active_pending' = active_pending + 1,
         id_to_slot' = [i \in DOMAIN id_to_slot \cup {Id[r]} |-> IF i = Id[r] THEN s ELSE id_to_slot[i]],
         pending' = [pending EXCEPT ![s] = po]
  PROVE  Pool' /\ Len(free_slots') = Len(free_slots) - 1
<1>1. free_slots \in Seq(Slot) /\ Distinct(free_slots) /\ active_slots \in Seq(Slot) /\ Distinct(active_slots)
  BY DEF Pool
<1>2. /\ s \in Elements(free_slots) /\ s \in Slot /\ Len(free_slots) - 1 \in Nat
      /\ free_slots' \in Seq(Slot) /\ Popped(free_slots, Len(free_slots), free_slots')
  BY <1>1, PopBack
<1>3. s \in Slot \ ActiveSlots
  BY <1>2 DEF Pool
<1>4. s \notin Elements(active_slots)
  BY <1>3 DEF Pool
<1>5. active_slots' \in Seq(Slot) /\ Len(active_slots) \in Nat /\ Pushed(active_slots, s, active_slots')
  BY <1>1, <1>3, <1>4, PushBack
<1>6. pending' \in [Slot -> PendingObj] /\ \A t \in Slot : pending'[t] = IF t = s THEN po ELSE pending[t]
  BY DEF Pool
<1>7. ActiveSlots' = ActiveSlots \cup {s}
  BY <1>3, <1>6 DEF ActiveSlots
<1>8. /\ DOMAIN id_to_slot' = DOMAIN id_to_slot \cup {Id[r]} /\ Id[r] \notin DOMAIN id_to_slot /\ Id[r] \in Nat
      /\ id_to_slot'[Id[r]] = s /\ \A i \in DOMAIN id_to_slot : id_to_slot'[i] = id_to_slot[i]
  BY CacheAssumption DEF InFlight
<1>9. DOMAIN id_to_slot' \subseteq Nat /\ \A i \in DOMAIN id_to_slot' : id_to_slot'[i] \in Slot
  BY <1>2, <1>8 DEF Pool
<1>10. \A k \in 1 .. Len(active_slots') : pending'[active_slots'[k]].idx = k - 1
  <2> SUFFICES ASSUME NEW k \in 1 .. Len(active_slots') PROVE pending'[active_slots'[k]].idx = k - 1
    OBVIOUS
  <2>1. CASE k \in 1 .. Len(active_slots) /\ active_slots'[k] = active_slots[k]
    <3>1. active_slots[k] \in Slot /\ active_slots[k] # s
      <4>1. active_slots[k] \in Slot
        BY <1>1, <2>1, ElementOfSeq
      <4> QED BY <1>4, <2>1, <4>1 DEF Elements
    <3>2. pending'[active_slots'[k]].idx = pending[active_slots[k]].idx
      BY <1>6, <2>1, <3>1
    <3> QED BY <2>1, <3>2 DEF Pool
  <2>2. CASE k = Len(active_slots) + 1 /\ active_slots'[k] = s
    BY <1>2, <1>5, <1>6, <2>2
  <2> QED BY <1>5, <2>1, <2>2 DEF Pushed
<1>11. \A t \in ActiveSlots : t \in Slot /\ t # s /\ pending'[t].id = pending[t].id
  BY <1>3, <1>6 DEF ActiveSlots
<1>12. \A t \in ActiveSlots' : pending'[t].id \in DOMAIN id_to_slot' /\ id_to_slot'[pending'[t].id] = t
  BY <1>2, <1>6, <1>7, <1>8, <1>11 DEF Pool
<1>13. DOMAIN id_to_slot' = {pending'[t].id : t \in ActiveSlots'}
  <2>1. pending'[s].id = Id[r]
    BY <1>2, <1>6
  <2>2. DOMAIN id_to_slot = {pending[t].id : t \in ActiveSlots}
    BY DEF Pool
  <2> QED BY <1>7, <1>8, <1>11, <2>1, <2>2
<1>14. Elements(active_slots)' = ActiveSlots' /\ Elements(free_slots)' = Slot \ ActiveSlots'
  <2>1. Elements(free_slots') = Elements(free_slots) \ {s} /\ Elements(active_slots') = Elements(active_slots) \cup {s}
    BY <1>2, <1>5 DEF Popped, Pushed
  <2> QED BY <1>2, <1>7, <2>1 DEF Pool, Elements
<1>15. Distinct(active_slots)' /\ Distinct(free_slots)' /\ Len(free_slots') = Len(free_slots) - 1
  BY <1>2, <1>5 DEF Popped, Pushed, Distinct
<1>16. active_pending' \in Int /\ active_pending' = Len(active_slots') /\ Len(free_slots') + Len(active_slots') = Slots
  <2>1. active_pending = Len(active_slots) /\ Len(free_slots) + Len(active_slots) = Slots /\ Len(free_slots) \in Nat
    BY <1>1, LenProperties DEF Pool
  <2>2. Len(active_slots') = Len(active_slots) + 1 /\ active_pending' = active_pending + 1
    BY <1>5 DEF Pushed
  <2>3. Len(free_slots') = Len(free_slots) - 1
    BY <1>15
  <2>4. PICK a \in Nat, f \in Nat : a = Len(active_slots) /\ f = Len(free_slots)
    BY <1>5, <2>1
  <2>5. active_pending' = a + 1 /\ Len(active_slots') = a + 1
    BY <2>1, <2>2, <2>4
  <2>6. Len(free_slots') = f - 1 /\ f + a = Slots
    BY <2>1, <2>3, <2>4
  <2>7. (f - 1) + (a + 1) = f + a /\ a + 1 \in Int
    OBVIOUS
  <2> QED BY <2>5, <2>6, <2>7
<1>17. \A t \in Slot : pending'[t].issued <= pending'[t].total
  BY <1>6 DEF Pool
<1> QED BY <1>2, <1>5, <1>6, <1>9, <1>10, <1>12, <1>13, <1>14, <1>15, <1>16, <1>17 DEF Pool

-----------------------------------------------------------------------------
(* The actions.                                                            *)

LEMMA SlotFacts == 0 \in Slot /\ Slots \in Nat
BY CacheAssumption DEF Slot

(* What goes to the memory names a slot: a fetch its own, a writeback the   *)
(* first.                                                                   *)
LEMMA MemoryGrows ==
  ASSUME Queues, NEW x, x.id \in Slot, x.evicted \in BOOLEAN, memory' = memory (+) SetToBag({x})
  PROVE  \A y \in DOMAIN memory' : y.id \in Slot /\ y.evicted \in BOOLEAN
<1>1. DOMAIN memory' = DOMAIN memory \cup {x}
  BY DEF (+), SetToBag
<1> QED BY <1>1 DEF Queues

LEMMA SameWritesBack == WritesBack /\ wb_q' = wb_q => WritesBack'
BY DEF WritesBack

LEMMA WritesBackKept ==
  ASSUME WritesBack, NEW b, wb_q' = wb_q \/ wb_q' = Append(wb_q, WriteBack(b))
  PROVE  WritesBack'
<1>1. PICK B : wb_q \in Seq({WriteBack(c) : c \in B})
  BY DEF WritesBack
<1> DEFINE C == B \cup {b}
           Backs(D) == {WriteBack(c) : c \in D}
<1>2. Backs(B) \subseteq Backs(C) /\ WriteBack(b) \in Backs(C)
  OBVIOUS
<1> HIDE DEF C
<1>3. wb_q \in Seq(Backs(B))
  BY <1>1
<1> HIDE DEF Backs
<1>4. wb_q \in Seq(Backs(C))
  BY <1>2, <1>3, SeqMonotonic
<1>5. wb_q' \in Seq(Backs(C))
  BY <1>2, <1>4, AppendProperties
<1> QED BY <1>5 DEF WritesBack, Backs

LEMMA InitInv == Init => CacheInv
<1> SUFFICES ASSUME Init PROVE CacheInv
  OBVIOUS
<1>1. NoFetch \in PendingObj /\ ~NoFetch.active /\ NoFetch.issued <= NoFetch.total
  <2>1. <<>> \in Seq(Request)
    BY EmptySeq
  <2> QED BY <2>1 DEF NoFetch, PendingObj
<1>2. pending \in [Slot -> PendingObj] /\ \A s \in Slot : pending[s] = NoFetch
  BY <1>1 DEF Init
<1>3. ActiveSlots = {}
  BY <1>1, <1>2 DEF ActiveSlots
<1>4. /\ free_slots \in Seq(Slot) /\ Len(free_slots) = Slots /\ Slots \in Nat
      /\ \A k \in 1 .. Slots : free_slots[k] = Slots - k
  <2>1. Slots \in Nat /\ free_slots = [k \in 1 .. Slots |-> Slots - k]
    BY CacheAssumption DEF Init
  <2>2. free_slots \in [1 .. Slots -> Slot]
    BY <2>1 DEF Slot
  <2>3. [1 .. Slots -> Slot] \subseteq Seq(Slot)
    BY <2>1, SeqDef
  <2> QED BY <2>1, <2>2, <2>3, LenProperties
<1>5. Distinct(free_slots) /\ Elements(free_slots) = Slot
  <2>1. Distinct(free_slots)
    BY <1>4 DEF Distinct
  <2>2. \A s \in Slot : Slots - s \in 1 .. Slots /\ Slots - (Slots - s) = s
    BY <1>4 DEF Slot
  <2>3. \A k \in 1 .. Slots : Slots - k \in Slot
    BY <1>4 DEF Slot
  <2> QED BY <1>4, <2>1, <2>2, <2>3 DEF Elements
<1>6. active_slots = <<>> /\ active_slots \in Seq(Slot) /\ Len(active_slots) = 0 /\ active_pending = 0
  BY EmptySeq DEF Init
<1>7. Distinct(active_slots) /\ Elements(active_slots) = {}
  BY <1>6 DEF Distinct, Elements
<1>8. DOMAIN id_to_slot = {}
  BY DEF Init
<1>9. Pool
  <2>1. Elements(active_slots) = ActiveSlots /\ Elements(free_slots) = Slot \ ActiveSlots
    BY <1>3, <1>5, <1>7
  <2>2. \A k \in 1 .. Len(active_slots) : pending[active_slots[k]].idx = k - 1
    BY <1>6
  <2>3. DOMAIN id_to_slot = {pending[s].id : s \in ActiveSlots}
    BY <1>3, <1>8
  <2>4. Len(free_slots) + Len(active_slots) = Slots
    BY <1>4, <1>6
  <2>5. \A s \in Slot : pending[s].issued <= pending[s].total
    BY <1>1, <1>2
  <2> QED BY <1>2, <1>3, <1>4, <1>5, <1>6, <1>7, <1>8, <2>1, <2>2, <2>3, <2>4, <2>5 DEF Pool
<1>10. Queues
  <2>1. DOMAIN memory = {}
    BY DEF Init, EmptyBag, SetToBag
  <2>2. <<>> \in Seq(Request) /\ <<>> \in Seq(FetchRequest) /\ <<>> \in Seq({WriteBack(b) : b \in {}})
    BY EmptySeq
  <2>3. WritesBack
    BY <2>2 DEF Init, WritesBack
  <2> QED BY <2>1, <2>2, <2>3 DEF Init, Queues
<1>11. SlotLeftForMiss
  BY DEF Init, SlotLeftForMiss
<1> QED BY <1>9, <1>10, <1>11, CacheInvParts

(* The cycle reads the head room once, before it accepts.                   *)
LEMMA AcceptPhaseFacts ==
  ASSUME Pool
  PROVE  /\ AcceptPhase \in {"accept", "coalesce"}
         /\ AcceptPhase = "accept" => Len(free_slots) >= InPerCycle
<1>1. Len(free_slots) \in Nat /\ Len(active_slots) \in Nat
  BY LenProperties DEF Pool
<1>2. active_pending = Len(active_slots) /\ Len(free_slots) + Len(active_slots) = Slots
  BY DEF Pool
<1> QED BY <1>1, <1>2, CacheAssumption DEF AcceptPhase

LEMMA PoolUnchanged ==
  ASSUME Pool, UNCHANGED slotVars
  PROVE  Pool' /\ Len(free_slots') = Len(free_slots)
BY DEF Pool, slotVars, Elements, Distinct, ActiveSlots

LEMMA BeginCycleInv ==
  ASSUME CacheInv, BeginCycle
  PROVE  CacheInv'
<1>1. Pool /\ Queues /\ Pool' /\ Len(free_slots') = Len(free_slots)
  BY PoolUnchanged, CacheInvParts DEF BeginCycle
<1>2. phase' \in {"issue", AcceptPhase} /\ count' = 0
  BY DEF BeginCycle
<1>3. Queues'
  BY <1>1, <1>2, AcceptPhaseFacts, SameWritesBack DEF BeginCycle, Queues, edgeVars
<1>4. SlotLeftForMiss'
  BY <1>1, <1>2, AcceptPhaseFacts, CacheAssumption DEF SlotLeftForMiss
<1> QED BY <1>1, <1>3, <1>4, CacheInvParts

LEMMA EndIssueInv ==
  ASSUME CacheInv, EndIssue
  PROVE  CacheInv'
<1>1. Pool /\ Queues /\ Pool' /\ Len(free_slots') = Len(free_slots)
  BY PoolUnchanged, CacheInvParts DEF EndIssue
<1>2. phase' = AcceptPhase /\ count' = 0
  BY DEF EndIssue
<1>3. Queues'
  BY <1>1, <1>2, AcceptPhaseFacts, SameWritesBack DEF EndIssue, Queues, edgeVars
<1>4. SlotLeftForMiss'
  BY <1>1, <1>2, AcceptPhaseFacts, CacheAssumption DEF SlotLeftForMiss
<1> QED BY <1>1, <1>3, <1>4, CacheInvParts

LEMMA EndCycleInv ==
  ASSUME CacheInv, EndCycle
  PROVE  CacheInv'
<1>1. Pool /\ Queues /\ Pool'
  BY PoolUnchanged, CacheInvParts DEF EndCycle
<1>2. phase' = "idle" /\ count' = 0
  BY DEF EndCycle
<1>3. Queues'
  BY <1>1, <1>2, SameWritesBack DEF EndCycle, Queues, edgeVars
<1>4. SlotLeftForMiss'
  BY <1>2 DEF SlotLeftForMiss
<1> QED BY <1>1, <1>3, <1>4, CacheInvParts

LEMMA IssueMoreInv ==
  ASSUME CacheInv, IssueMore
  PROVE  CacheInv'
<1> DEFINE s == active_slots[count + 1]
<1>1. Pool /\ Queues
  BY CacheInvParts
<1>2. count + 1 \in 1 .. Len(active_slots) /\ count' = count + 1 /\ count \in Nat
  BY <1>1, LenProperties DEF IssueMore, Queues, Pool
<1>3. s \in Slot /\ pending[s] \in PendingObj
  <2>1. active_slots \in Seq(Slot)
    BY <1>1 DEF Pool
  <2>2. s \in Slot
    BY <1>2, <2>1, ElementOfSeq
  <2> QED BY <1>1, <2>2 DEF Pool
<1> HIDE DEF s
<1>4. UNCHANGED <<free_slots, active_slots, active_pending, id_to_slot>> /\ phase = "issue" /\ phase' = phase
  BY DEF IssueMore, InCycle
<1>5. Pool' /\ miss_q' \in Seq(FetchRequest)
  <2>1. CASE IssueBlocks(s, pending[s])
    <3>1. Len(miss_q) \in Nat /\ pending[s].issued <= pending[s].total
      BY <1>1, <1>3, LenProperties DEF Queues, Pool
    <3>2. ToIssue(pending[s]) \in Nat /\ pending[s].issued + ToIssue(pending[s]) <= pending[s].total
      BY <1>3, <3>1, ToIssueFacts
    <3>3. pending' = [pending EXCEPT ![s] = [pending[s] EXCEPT !.issued = @ + ToIssue(pending[s])]]
      BY <2>1 DEF IssueBlocks
    <3>4. Pool'
      BY <1>1, <1>3, <1>4, <3>1, <3>2, <3>3, IssuedKeepsPool
    <3>5. miss_q' \in Seq(FetchRequest)
      BY <1>1, <1>3, <2>1, <3>2, MissQueueGrows DEF IssueBlocks
    <3> QED BY <3>4, <3>5
  <2>2. CASE UNCHANGED <<miss_q, pending>>
    <3>1. UNCHANGED slotVars
      BY <1>4, <2>2 DEF slotVars
    <3> QED BY <1>1, <2>2, <3>1, PoolUnchanged DEF Queues
  <2>3. IssueBlocks(s, pending[s]) \/ UNCHANGED <<miss_q, pending>>
    BY DEF IssueMore, s
  <2> QED BY <2>1, <2>2, <2>3
<1>6. Queues'
  BY <1>1, <1>2, <1>4, <1>5, SameWritesBack DEF IssueMore, Queues, edgeVars
<1>7. SlotLeftForMiss'
  BY <1>4 DEF SlotLeftForMiss
<1> QED BY <1>5, <1>6, <1>7, CacheInvParts

LEMMA AcceptHitInv ==
  ASSUME CacheInv, AcceptHit
  PROVE  CacheInv'
<1>1. Pool /\ Queues /\ Pool' /\ Len(free_slots') = Len(free_slots)
  BY PoolUnchanged, CacheInvParts DEF AcceptHit
<1>2. count \in Nat /\ count' = count + 1 /\ phase' = phase
  BY <1>1 DEF AcceptHit, Queues
<1>3. in_q' \in Seq(Request) /\ out_q' \in Seq(Request)
  <2>1. in_q \in Seq(Request) /\ out_q \in Seq(Request) /\ in_q # <<>>
    BY <1>1 DEF AcceptHit, Accepting, Queues
  <2> QED BY <2>1, HeadTailProperties, AppendProperties DEF AcceptHit
<1>4. UNCHANGED <<miss_q, wb_q, asked, answered, memory, aborted>>
  BY DEF AcceptHit, edgeVars
<1>5. Queues'
  BY <1>1, <1>2, <1>3, <1>4, SameWritesBack DEF Queues
<1>6. SlotLeftForMiss'
  <2>1. Len(free_slots) \in Nat
    BY <1>1, LenProperties DEF Pool
  <2> QED BY <1>1, <1>2, <2>1, CacheInvParts, CacheAssumption DEF SlotLeftForMiss
<1> QED BY <1>1, <1>5, <1>6, CacheInvParts

LEMMA NewFetchFacts ==
  ASSUME Pool, NEW r \in Request
  PROVE  /\ NewFetch(r) \in PendingObj /\ NewFetch(r).active /\ NewFetch(r).id = Id[r]
         /\ NewFetch(r).idx = Len(active_slots) /\ NewFetch(r).issued = 0
         /\ NewFetch(r).total = Blocks[r] /\ Blocks[r] \in Nat
<1>1. Len(active_slots) \in Nat
  BY LenProperties DEF Pool
<1>2. <<r>> \in Seq(Request)
  OBVIOUS
<1>3. Id[r] \in Nat /\ Base[r] \in Nat /\ Blocks[r] \in Nat /\ (r \in Writes) \in BOOLEAN
  BY CacheAssumption
<1> QED BY <1>1, <1>2, <1>3 DEF NewFetch, PendingObj

(* A miss that starts a fetch: the large object counts all its blocks as    *)
(* issued, any other one those that found room.                             *)
LEMMA StartFetchKeeps ==
  ASSUME Pool, Queues, NEW r \in Request, ~InFlight(r), free_slots # <<>>, StartFetch(r)
  PROVE  Pool' /\ miss_q' \in Seq(FetchRequest) /\ Len(free_slots') = Len(free_slots) - 1
<1> DEFINE s == free_slots[Len(free_slots)]
           po == NewFetch(r)
<1>1. /\ po \in PendingObj /\ po.active /\ po.id = Id[r] /\ po.idx = Len(active_slots)
      /\ po.issued = 0 /\ po.total = Blocks[r] /\ Blocks[r] \in Nat
  BY NewFetchFacts
<1>2. s \in Slot
  BY PopBack DEF Pool
<1>3. /\ free_slots' = SubSeq(free_slots, 1, Len(free_slots) - 1)
      /\ active_slots' = Append(active_slots, s)
      /\ active_pending' = active_pending + 1
      /\ id_to_slot' = [i \in DOMAIN id_to_slot \cup {Id[r]} |-> IF i = Id[r] THEN s ELSE id_to_slot[i]]
  BY DEF StartFetch
<1>4. Len(miss_q) \in Nat /\ miss_q \in Seq(FetchRequest)
  BY LenProperties DEF Queues
<1>5. CASE Blocks[r] >= LargeBlocks
  <2>1. miss_q' = Append(miss_q, Fetch(s, Base[r], r \in Writes))
        /\ pending' = [pending EXCEPT ![s] = [po EXCEPT !.issued = Blocks[r]]]
    BY <1>5 DEF StartFetch
  <2>2. Fetch(s, Base[r], r \in Writes) \in FetchRequest
    BY <1>2, CacheAssumption DEF Fetch, FetchRequest
  <2> DEFINE new == [po EXCEPT !.issued = Blocks[r]]
  <2> HIDE DEF s, po
  <2>3. new \in PendingObj /\ new.active /\ new.id = Id[r] /\ new.idx = Len(active_slots) /\ new.issued <= new.total
    BY <1>1 DEF PendingObj
  <2>4. pending' = [pending EXCEPT ![s] = new]
    BY <2>1
  <2> HIDE DEF new
  <2>5. Pool' /\ Len(free_slots') = Len(free_slots) - 1
    BY <1>3, <2>3, <2>4, StartKeepsPool DEF s
  <2> QED BY <1>4, <2>1, <2>2, <2>5, AppendProperties
<1>6. CASE ~(Blocks[r] >= LargeBlocks)
  <2>1. miss_q' = miss_q \o Batch(s, po, ToIssue(po))
        /\ pending' = [pending EXCEPT ![s] = [po EXCEPT !.issued = @ + ToIssue(po)]]
    BY <1>6 DEF StartFetch, IssueBlocks
  <2> DEFINE n == ToIssue(po)
             new == [po EXCEPT !.issued = @ + n]
  <2> HIDE DEF s, po
  <2>2. n \in Nat /\ po.issued + n <= po.total
    BY <1>1, <1>4, ToIssueFacts
  <2>3. pending' = [pending EXCEPT ![s] = new] /\ miss_q' = miss_q \o Batch(s, po, n)
    BY <2>1
  <2> HIDE DEF n
  <2>4. new \in PendingObj /\ new.active /\ new.id = Id[r] /\ new.idx = Len(active_slots) /\ new.issued <= new.total
    <3>1. po.issued + n \in Nat
      BY <1>1, <2>2
    <3>2. new = [po EXCEPT !.issued = po.issued + n]
      OBVIOUS
    <3> QED BY <1>1, <2>2, <3>1, <3>2 DEF PendingObj
  <2> HIDE DEF new
  <2>5. Pool' /\ Len(free_slots') = Len(free_slots) - 1
    BY <1>3, <2>3, <2>4, StartKeepsPool DEF s
  <2>6. miss_q' \in Seq(FetchRequest)
    BY <1>1, <1>2, <2>2, <2>3, MissQueueGrows
  <2> QED BY <2>5, <2>6
<1> QED BY <1>5, <1>6

(* A miss that joins the fetch of its id.                                   *)
LEMMA JoinKeepsPool ==
  ASSUME Pool, NEW r \in Request, InFlight(r),
         UNCHANGED <<free_slots, active_slots, active_pending, id_to_slot>>,
         pending' = [pending EXCEPT ![id_to_slot[Id[r]]].waiting = Append(@, r)]
  PROVE  Pool'
<1> DEFINE s == id_to_slot[Id[r]]
           new == [pending[s] EXCEPT !.waiting = Append(@, r)]
<1>1. s \in Slot
  BY DEF InFlight, Pool
<1>2. pending[s] \in PendingObj
  BY <1>1 DEF Pool
<1> HIDE DEF s
<1>3. new \in PendingObj /\ new.active = pending[s].active /\ new.id = pending[s].id /\ new.idx = pending[s].idx
      /\ new.issued = pending[s].issued /\ new.total = pending[s].total
  <2>1. Append(pending[s].waiting, r) \in Seq(Request)
    BY <1>2, AppendProperties DEF PendingObj
  <2> QED BY <1>2, <2>1 DEF PendingObj
<1>4. pending' = [pending EXCEPT ![s] = new]
  BY DEF s
<1> HIDE DEF new
<1>5. pending' \in [Slot -> PendingObj] /\ \A t \in Slot : pending'[t] = IF t = s THEN new ELSE pending[t]
  <2>1. pending \in [Slot -> PendingObj] /\ new \in PendingObj
    BY <1>3 DEF Pool
  <2> QED BY <1>4, <2>1
<1>6. \A t \in Slot : /\ pending'[t].active = pending[t].active
                      /\ pending'[t].id = pending[t].id
                      /\ pending'[t].idx = pending[t].idx
                      /\ pending'[t].issued <= pending'[t].total
  BY <1>3, <1>5 DEF Pool
<1> QED BY <1>5, <1>6, PoolKept

LEMMA AcceptMissInv ==
  ASSUME CacheInv, AcceptMiss
  PROVE  CacheInv'
<1> DEFINE r == Head(in_q)
<1>1. Pool /\ Queues /\ SlotLeftForMiss
  BY CacheInvParts
<1>2. count \in Nat /\ count' = count + 1 /\ phase' = phase
  BY <1>1 DEF AcceptMiss, Queues
<1>3. r \in Request /\ Tail(in_q) \in Seq(Request) /\ in_q \in Seq(Request)
  <2>1. in_q \in Seq(Request) /\ in_q # <<>>
    BY <1>1 DEF AcceptMiss, Accepting, Queues
  <2> QED BY <2>1, HeadTailProperties
<1>4. UNCHANGED <<wb_q, out_q, asked, answered, memory, aborted>>
  BY DEF AcceptMiss, edgeVars
<1>5. /\ Pool' /\ in_q' \in Seq(Request) /\ miss_q' \in Seq(FetchRequest)
      /\ Len(free_slots') = Len(free_slots) \/ Len(free_slots') = Len(free_slots) - 1
  <2>1. CASE InFlight(r)
    <3>1. /\ pending' = [pending EXCEPT ![id_to_slot[Id[r]]].waiting = Append(@, r)]
          /\ in_q' = Tail(in_q)
          /\ UNCHANGED <<free_slots, active_slots, active_pending, id_to_slot, miss_q>>
      BY <2>1 DEF AcceptMiss
    <3> HIDE DEF r
    <3> QED BY <1>1, <1>3, <2>1, <3>1, JoinKeepsPool DEF Queues
  <2>2. CASE ~InFlight(r) /\ free_slots # <<>>
    <3>1. StartFetch(r) /\ in_q' = Tail(in_q)
      BY <2>2 DEF AcceptMiss
    <3> HIDE DEF r
    <3> QED BY <1>1, <1>3, <2>2, <3>1, StartFetchKeeps
  <2>3. CASE ~InFlight(r) /\ ~(free_slots # <<>>)
    <3>1. UNCHANGED <<slotVars, in_q, miss_q>>
      BY <2>3 DEF AcceptMiss
    <3> HIDE DEF r
    <3> QED BY <1>1, <1>3, <3>1, PoolUnchanged DEF Queues
  <2> QED BY <2>1, <2>2, <2>3
<1>6. Queues'
  BY <1>1, <1>2, <1>4, <1>5, SameWritesBack DEF Queues
<1>7. SlotLeftForMiss'
  <2>1. Len(free_slots) \in Nat
    BY <1>1, LenProperties DEF Pool
  <2> QED BY <1>1, <1>2, <1>5, <2>1, CacheAssumption DEF SlotLeftForMiss
<1> QED BY <1>5, <1>6, <1>7, CacheInvParts

(* What happens between two cycles cannot disturb SlotLeftForMiss.          *)
LEMMA PushRequestInv ==
  ASSUME CacheInv, NEW r \in Request, PushRequest(r)
  PROVE  CacheInv'
<1>1. Pool /\ Queues /\ Pool'
  BY PoolUnchanged, CacheInvParts DEF PushRequest
<1>2. Queues'
  BY <1>1, AppendProperties, SameWritesBack DEF PushRequest, BetweenCycles, Queues
<1>3. SlotLeftForMiss'
  BY DEF PushRequest, BetweenCycles, SlotLeftForMiss
<1> QED BY <1>1, <1>2, <1>3, CacheInvParts

LEMMA PopMissRequestInv ==
  ASSUME CacheInv, PopMissRequest
  PROVE  CacheInv'
<1>1. Pool /\ Queues /\ Pool'
  BY PoolUnchanged, CacheInvParts DEF PopMissRequest
<1>2. Head(miss_q) \in FetchRequest /\ miss_q' \in Seq(FetchRequest)
  BY <1>1, HeadTailProperties DEF PopMissRequest, Queues
<1>3. Head(miss_q).id \in Slot /\ Head(miss_q).evicted \in BOOLEAN
  BY <1>2 DEF FetchRequest
<1>4. \A y \in DOMAIN memory' : y.id \in Slot /\ y.evicted \in BOOLEAN
  BY <1>1, <1>3, MemoryGrows DEF PopMissRequest
<1>5. Queues'
  BY <1>1, <1>2, <1>4, SameWritesBack DEF PopMissRequest, BetweenCycles, Queues
<1>6. SlotLeftForMiss'
  BY DEF PopMissRequest, BetweenCycles, SlotLeftForMiss
<1> QED BY <1>1, <1>5, <1>6, CacheInvParts

LEMMA PopWbRequestInv ==
  ASSUME CacheInv, PopWbRequest
  PROVE  CacheInv'
<1>1. Pool /\ Queues /\ Pool'
  BY PoolUnchanged, CacheInvParts DEF PopWbRequest
<1>2. PICK B : wb_q \in Seq({WriteBack(b) : b \in B})
  BY <1>1 DEF Queues, WritesBack
<1>3. Head(wb_q) \in {WriteBack(b) : b \in B} /\ wb_q' \in Seq({WriteBack(b) : b \in B})
  <2> DEFINE S == {WriteBack(b) : b \in B}
  <2>1. wb_q \in Seq(S) /\ wb_q # <<>> /\ wb_q' = Tail(wb_q)
    BY <1>2 DEF PopWbRequest
  <2> HIDE DEF S
  <2>2. Head(wb_q) \in S /\ wb_q' \in Seq(S)
    BY <2>1, HeadTailProperties
  <2> QED BY <2>2 DEF S
<1>4. Head(wb_q).id \in Slot /\ Head(wb_q).evicted \in BOOLEAN
  <2>1. PICK b \in B : Head(wb_q) = WriteBack(b)
    BY <1>3
  <2>2. WriteBack(b).id = 0 /\ WriteBack(b).evicted = TRUE
    BY DEF WriteBack
  <2>3. Head(wb_q).id = 0 /\ Head(wb_q).evicted = TRUE
    BY <2>1, <2>2
  <2> QED BY <2>3, SlotFacts
<1>5. \A y \in DOMAIN memory' : y.id \in Slot /\ y.evicted \in BOOLEAN
  BY <1>1, <1>4, MemoryGrows DEF PopWbRequest
<1>6. WritesBack'
  BY <1>3 DEF WritesBack
<1>7. Queues'
  BY <1>1, <1>5, <1>6 DEF PopWbRequest, BetweenCycles, Queues
<1>8. SlotLeftForMiss'
  BY DEF PopWbRequest, BetweenCycles, SlotLeftForMiss
<1> QED BY <1>1, <1>7, <1>8, CacheInvParts

LEMMA PopResponseInv ==
  ASSUME CacheInv, PopResponse
  PROVE  CacheInv'
<1>1. Pool /\ Queues /\ Pool'
  BY PoolUnchanged, CacheInvParts DEF PopResponse
<1>2. Head(out_q) \in Request /\ out_q' \in Seq(Request)
  BY <1>1, HeadTailProperties DEF PopResponse, Queues
<1>3. Queues'
  BY <1>1, <1>2, SameWritesBack DEF PopResponse, BetweenCycles, Queues
<1>4. SlotLeftForMiss'
  BY DEF PopResponse, BetweenCycles, SlotLeftForMiss
<1> QED BY <1>1, <1>3, <1>4, CacheInvParts

(* An answer returns a block of the object of its slot, if the slot has     *)
(* one: more of its blocks are sent, or the object is complete and its      *)
(* slot is freed.                                                           *)
LEMMA ReturnKeeps ==
  ASSUME Pool, Queues, NEW s \in ActiveSlots,
         Return(s, [pending[s] EXCEPT !.returned = @ + 1])
  PROVE  Pool' /\ miss_q' \in Seq(FetchRequest) /\ out_q' \in Seq(Request)
<1> DEFINE po == [pending[s] EXCEPT !.returned = @ + 1]
           n  == IF Len(miss_q) < MissQDepth THEN ToIssue(po) ELSE 0
<1>1. s \in Slot /\ pending[s] \in PendingObj /\ pending[s].issued <= pending[s].total
  BY DEF ActiveSlots, Pool
<1>2. /\ po \in PendingObj /\ po.active = pending[s].active /\ po.id = pending[s].id /\ po.idx = pending[s].idx
      /\ po.issued <= po.total /\ po.waiting \in Seq(Request)
  <2>1. pending[s].returned + 1 \in Nat
    BY <1>1 DEF PendingObj
  <2>2. po = [pending[s] EXCEPT !.returned = pending[s].returned + 1]
    OBVIOUS
  <2> QED BY <1>1, <2>1, <2>2 DEF PendingObj
<1>3. miss_q' = miss_q \o Batch(s, po, n)
  BY DEF Return
<1>4. \/ Complete(po) /\ out_q' = out_q \o po.waiting /\ FreePendingSlot(s)
      \/ /\ pending' = [pending EXCEPT ![s] = [po EXCEPT !.issued = @ + n]]
         /\ UNCHANGED <<free_slots, active_slots, active_pending, id_to_slot, out_q>>
  BY DEF Return
<1> HIDE DEF po
<1>5. n \in Nat /\ po.issued + n <= po.total
  <2>1. Len(miss_q) \in Nat
    BY LenProperties DEF Queues
  <2>2. ToIssue(po) \in Nat /\ po.issued + ToIssue(po) <= po.total
    BY <1>2, <2>1, ToIssueFacts
  <2>3. po.issued + 0 <= po.total
    BY <1>2 DEF PendingObj
  <2> QED BY <2>2, <2>3
<1> HIDE DEF n
<1>6. miss_q' \in Seq(FetchRequest)
  BY <1>1, <1>2, <1>3, <1>5, MissQueueGrows
<1>7. CASE Complete(po) /\ out_q' = out_q \o po.waiting /\ FreePendingSlot(s)
  <2>1. Pool'
    BY <1>7, FreeKeepsPool
  <2>2. out_q' \in Seq(Request)
    BY <1>2, <1>7, ConcatProperties DEF Queues
  <2> QED BY <1>6, <2>1, <2>2
<1>8. CASE /\ pending' = [pending EXCEPT ![s] = [po EXCEPT !.issued = @ + n]]
           /\ UNCHANGED <<free_slots, active_slots, active_pending, id_to_slot, out_q>>
  <2>1. Pool'
    BY <1>1, <1>2, <1>5, <1>8, IssuedKeepsPool
  <2> QED BY <1>6, <1>8, <2>1 DEF Queues
<1> QED BY <1>4, <1>7, <1>8

LEMMA FillWritesBack ==
  ASSUME WritesBack, NEW b, NEW write, Fill(b, write)
  PROVE  WritesBack'
<1>1. CASE CheckHit(b)
  BY <1>1, SameWritesBack DEF Fill
<1>2. CASE ~CheckHit(b)
  <2> DEFINE old == line[SetOf(b)][Victim(SetOf(b))].block
  <2>1. wb_q' = wb_q \/ wb_q' = Append(wb_q, WriteBack(old))
    BY <1>2 DEF Fill
  <2> QED BY <2>1, WritesBackKept
<1> QED BY <1>1, <1>2

LEMMA PushMemoryResponseInv ==
  ASSUME CacheInv, NEW x \in BagToSet(memory), PushMemoryResponse(x)
  PROVE  CacheInv'
<1>1. Pool /\ Queues
  BY CacheInvParts
<1>2. phase = "idle" /\ UNCHANGED <<phase, count, in_q, asked, answered>>
  BY DEF PushMemoryResponse
<1>3. x \in DOMAIN memory /\ x.id \in Slot /\ x.evicted \in BOOLEAN
  BY <1>1 DEF Queues, BagToSet
<1>4. DOMAIN memory' \subseteq DOMAIN memory
  BY DEF PushMemoryResponse, (-)
<1>5. aborted' \in BOOLEAN
  BY DEF PushMemoryResponse
<1>6. Pool' /\ miss_q' \in Seq(FetchRequest) /\ out_q' \in Seq(Request) /\ WritesBack'
  <2>1. CASE pending[x.id].active
    <3>1. x.id \in ActiveSlots
      BY <1>3, <2>1 DEF ActiveSlots
    <3>2. Return(x.id, [pending[x.id] EXCEPT !.returned = @ + 1]) /\ Fill(x.block, pending[x.id].write)
      BY <2>1 DEF PushMemoryResponse
    <3>3. Pool' /\ miss_q' \in Seq(FetchRequest) /\ out_q' \in Seq(Request)
      BY <1>1, <3>1, <3>2, ReturnKeeps
    <3>4. WritesBack'
      BY <1>1, <3>2, FillWritesBack DEF Queues
    <3> QED BY <3>3, <3>4
  <2>2. CASE ~pending[x.id].active
    <3>1. UNCHANGED <<slotVars, miss_q, wb_q, out_q>>
      BY <2>2 DEF PushMemoryResponse
    <3> QED BY <1>1, <3>1, PoolUnchanged, SameWritesBack DEF Queues
  <2> QED BY <2>1, <2>2
<1>7. Queues'
  BY <1>1, <1>2, <1>4, <1>5, <1>6 DEF Queues
<1>8. SlotLeftForMiss'
  BY <1>2 DEF SlotLeftForMiss
<1> QED BY <1>6, <1>7, <1>8, CacheInvParts

LEMMA CacheNext == CacheInv /\ [Next]_vars => CacheInv'
<1> SUFFICES ASSUME CacheInv, [Next]_vars PROVE CacheInv'
  OBVIOUS
<1>1. CASE Cycle
  BY <1>1, BeginCycleInv, IssueMoreInv, EndIssueInv, AcceptHitInv, AcceptMissInv, EndCycleInv DEF Cycle
<1>2. CASE Arrive
  BY <1>2, PushRequestInv DEF Arrive
<1>3. CASE PopMissRequest
  BY <1>3, PopMissRequestInv
<1>4. CASE PopWbRequest
  BY <1>4, PopWbRequestInv
<1>5. CASE Response
  BY <1>5, PushMemoryResponseInv DEF Response
<1>6. CASE PopResponse
  BY <1>6, PopResponseInv
<1>7. CASE UNCHANGED vars
  <2>1. UNCHANGED <<slotVars, in_q, miss_q, wb_q, out_q, asked, answered, memory, phase, count, aborted>>
    BY <1>7 DEF vars, edgeVars
  <2>2. Pool /\ Queues /\ Pool' /\ Len(free_slots') = Len(free_slots)
    BY <2>1, PoolUnchanged, CacheInvParts
  <2>3. Queues'
    BY <2>1, <2>2, SameWritesBack DEF Queues
  <2>4. SlotLeftForMiss'
    BY <2>1, <2>2, CacheInvParts DEF SlotLeftForMiss
  <2> QED BY <2>2, <2>3, <2>4, CacheInvParts
<1> QED BY <1>1, <1>2, <1>3, <1>4, <1>5, <1>6, <1>7 DEF Next

(* The inductive invariant of one bank: what cycle, push_memory_response    *)
(* and the pops of Simulator::cycle keep true of its slots and queues.      *)
THEOREM CacheInvariance == Spec => []CacheInv
<1>1. Init => CacheInv
  BY InitInv
<1>2. CacheInv /\ [Next]_vars => CacheInv'
  BY CacheNext
<1> QED BY <1>1, <1>2, PTL DEF Spec

(* _free_slots, _active_slots, _active_pending, _id_to_slot and the place   *)
(* each PendingObj keeps agree, for any number of slots and any order in    *)
(* which free_pending_slot returns them.                                    *)
THEOREM SlotsAgree == Spec => []SlotsConsistent
<1>1. CacheInv => SlotsConsistent
  BY DEF CacheInv
<1> QED BY <1>1, CacheInvariance, PTL

(* The head room that cycle checks before it takes misses is enough for all *)
(* it takes: process_one_request never finds _free_slots empty there.       *)
THEOREM MissesFindASlot == Spec => []SlotLeftForMiss
<1>1. CacheInv => SlotLeftForMiss
  BY DEF CacheInv
<1> QED BY <1>1, CacheInvariance, PTL

-----------------------------------------------------------------------------
(* The tree over the ways.                                                 *)

(* Induction without an operator for a parameter: a set of naturals has a   *)
(* least element.                                                           *)
LEMMA Least == ASSUME NEW T, T \subseteq Nat, T # {} PROVE \E x \in T : \A y \in T : x <= y
<1>1. PICK n \in Nat : n \in T
  OBVIOUS
<1> DEFINE S == 1 .. n
           Bad == {R \in SUBSET S : \E k \in T : k <= n /\ R = 1 .. k}
<1>2. IsFiniteSet(S) /\ FiniteSubsetsOf(S) = SUBSET S
  BY FS_Interval, FS_FiniteSubsetsOfFinite
<1>3. S \in Bad
  BY <1>1
<1>4. Bad \subseteq FiniteSubsetsOf(S) /\ Bad # {}
  BY <1>2, <1>3
<1>5. IsWellFoundedOn(StrictSubsetOrdering(S), FiniteSubsetsOf(S))
  BY FS_StrictSubsetOrderingWellFounded
<1> HIDE DEF S, Bad
<1>6. PICK R \in Bad : \A U \in Bad : <<U, R>> \notin StrictSubsetOrdering(S)
  BY <1>4, <1>5, WFMin
<1>7. PICK k \in T : k <= n /\ R = 1 .. k
  BY DEF Bad
<1>8. ASSUME NEW j \in T, j < k PROVE FALSE
  <2>1. 1 .. j \in Bad
    BY <1>1, <1>7, <1>8 DEF Bad, S
  <2>2. (1 .. j) \subseteq R /\ 1 .. j # R
    <3>1. k \in R /\ k \notin 1 .. j
      BY <1>7, <1>8
    <3> QED BY <1>7, <1>8, <3>1
  <2>3. R \in SUBSET S /\ 1 .. j \in SUBSET S
    BY <2>1 DEF Bad
  <2> QED BY <1>6, <2>1, <2>2, <2>3 DEF StrictSubsetOrdering
<1> QED BY <1>8

(* Sets of the same size, and the powers of two.                            *)
LEMMA SameSize ==
  ASSUME NEW S, NEW T, IsFiniteSet(S), NEW f \in [S -> T],
         \A x, y \in S : f[x] = f[y] => x = y,
         \A t \in T : \E x \in S : f[x] = t
  PROVE  IsFiniteSet(T) /\ Cardinality(T) = Cardinality(S)
<1>1. f \in Injection(S, T)
  BY DEF Injection, IsInjective
<1>2. f \in Surjection(S, T)
  BY DEF Surjection
<1>3. ExistsBijection(S, T)
  BY <1>1, <1>2 DEF ExistsBijection, Bijection
<1> QED BY <1>3, FS_Bijection

LEMMA DisjointUnion ==
  ASSUME NEW S, NEW T, IsFiniteSet(S), IsFiniteSet(T), S \cap T = {}
  PROVE  IsFiniteSet(S \cup T) /\ Cardinality(S \cup T) = Cardinality(S) + Cardinality(T)
<1>1. Cardinality(S \cap T) = 0
  BY FS_EmptySet
<1>2. Cardinality(S) \in Nat /\ Cardinality(T) \in Nat
  BY FS_CardinalityType
<1>3. IsFiniteSet(S \cup T) /\ Cardinality(S \cup T) = Cardinality(S) + Cardinality(T) - Cardinality(S \cap T)
  BY FS_Union
<1> QED BY <1>1, <1>2, <1>3

LEMMA Doubling ==
  ASSUME NEW d \in Nat
  PROVE  2 ^ (d + 1) = 2 * 2 ^ d
<1> DEFINE A == SUBSET (1 .. d)
           B == {R \cup {d + 1} : R \in A}
           f == [R \in A |-> R \cup {d + 1}]
<1>1. /\ IsFiniteSet(1 .. d) /\ Cardinality(1 .. d) = d
      /\ IsFiniteSet(1 .. d + 1) /\ Cardinality(1 .. d + 1) = d + 1
  BY FS_Interval
<1>2. /\ IsFiniteSet(A) /\ Cardinality(A) = 2 ^ d
      /\ Cardinality(SUBSET (1 .. d + 1)) = 2 ^ (d + 1)
  BY <1>1, FS_SUBSET
<1>3. IsFiniteSet(B) /\ Cardinality(B) = Cardinality(A)
  <2>1. \A R \in A : d + 1 \notin R
    OBVIOUS
  <2>2. \A R, T \in A : f[R] = f[T] => R = T
    BY <2>1
  <2>3. f \in [A -> B] /\ DOMAIN f = A /\ \A R \in A : f[R] = R \cup {d + 1}
    OBVIOUS
  <2>4. \A R \in B : \E T \in A : f[T] = R
    OBVIOUS
  <2> HIDE DEF f, A, B
  <2> QED BY <1>2, <2>2, <2>3, <2>4, SameSize
<1>4. A \cap B = {} /\ A \cup B = SUBSET (1 .. d + 1)
  <2>1. A \cap B = {}
    OBVIOUS
  <2>2. ASSUME NEW R \in SUBSET (1 .. d + 1) PROVE R \in A \cup B
    <3>1. CASE d + 1 \in R
      <4>1. R \ {d + 1} \in A /\ R = (R \ {d + 1}) \cup {d + 1}
        BY <3>1
      <4> QED BY <4>1
    <3>2. CASE d + 1 \notin R
      BY <3>2
    <3> QED BY <3>1, <3>2
  <2>3. A \cup B \subseteq SUBSET (1 .. d + 1)
    <3>1. 1 .. d \subseteq 1 .. d + 1 /\ d + 1 \in 1 .. d + 1
      OBVIOUS
    <3> QED BY <3>1, Zenon
  <2> QED BY <2>1, <2>2, <2>3
<1>5. Cardinality(A \cup B) = Cardinality(A) + Cardinality(B)
  BY <1>2, <1>3, <1>4, DisjointUnion
<1>6. Cardinality(A) \in Nat
  BY <1>2, FS_CardinalityType
<1>7. 2 ^ (d + 1) = Cardinality(A \cup B)
  BY <1>2, <1>4
<1>8. 2 ^ d = Cardinality(A)
  BY <1>2
<1> HIDE DEF A, B
<1> QED BY <1>3, <1>5, <1>6, <1>7, <1>8

LEMMA Powers ==
  /\ 2 ^ 0 = 1
  /\ \A d \in 0 .. Depth : 2 ^ d \in Nat \ {0}
  /\ \A d, e \in 0 .. Depth : d <= e => 2 ^ d <= 2 ^ e
<1>0. 2 ^ 0 = 1
  BY SMT
<1>1. \A d \in 0 .. Depth : 2 ^ d \in Int
  BY CacheAssumption
<1> DEFINE pw == [d \in 0 .. Depth |-> 2 ^ d]
<1>2. pw[0] = 1 /\ (\A d \in 0 .. Depth : pw[d] \in Int /\ pw[d] = 2 ^ d)
      /\ \A d \in 0 .. Depth - 1 : pw[d + 1] = 2 * pw[d]
  <2>1. \A d \in 0 .. Depth - 1 : d \in 0 .. Depth /\ d + 1 \in 0 .. Depth
    BY CacheAssumption
  <2>2. 0 \in 0 .. Depth
    BY CacheAssumption
  <2>3. \A d \in 0 .. Depth - 1 : 2 ^ (d + 1) = 2 * 2 ^ d
    BY Doubling, CacheAssumption
  <2>4. \A d \in 0 .. Depth : pw[d] = 2 ^ d
    OBVIOUS
  <2>5. ASSUME NEW d \in 0 .. Depth - 1 PROVE pw[d + 1] = 2 * pw[d]
    <3> HIDE DEF pw
    <3> QED BY <2>1, <2>3, <2>4
  <2> HIDE DEF pw
  <2> QED BY <1>0, <1>1, <2>2, <2>4, <2>5
<1> HIDE DEF pw
<1>3. \A d \in 0 .. Depth : pw[d] > 0
  <2> DEFINE T == {d \in 0 .. Depth : ~(pw[d] > 0)}
  <2> SUFFICES ASSUME T # {} PROVE FALSE
    OBVIOUS
  <2>1. PICK x \in T : \A y \in T : x <= y
    <3>1. T \subseteq Nat
      BY CacheAssumption
    <3> HIDE DEF T
    <3> QED BY <3>1, Least
  <2>2. x # 0 /\ x - 1 \in 0 .. Depth - 1 /\ x - 1 \in 0 .. Depth /\ x - 1 \notin T
    BY <1>2, <2>1, CacheAssumption
  <2>3. pw[(x - 1) + 1] = 2 * pw[x - 1] /\ (x - 1) + 1 = x
    BY <1>2, <2>2
  <2> QED BY <1>2, <2>2, <2>3
<1>4. ASSUME NEW d \in 0 .. Depth, NEW e \in 0 .. Depth, d <= e PROVE pw[d] <= pw[e]
  <2> DEFINE T == {j \in d .. Depth : ~(pw[d] <= pw[j])}
  <2> SUFFICES ASSUME T # {} PROVE FALSE
    BY <1>4
  <2>1. PICK x \in T : \A y \in T : x <= y
    <3>1. T \subseteq Nat
      BY CacheAssumption
    <3> HIDE DEF T
    <3> QED BY <3>1, Least
  <2>2. x # d /\ x - 1 \in 0 .. Depth - 1 /\ x - 1 \in 0 .. Depth /\ x - 1 \notin T /\ x - 1 \in d .. Depth
    BY <1>2, <2>1, CacheAssumption
  <2>3. pw[(x - 1) + 1] = 2 * pw[x - 1] /\ (x - 1) + 1 = x
    BY <1>2, <2>2
  <2> QED BY <1>2, <1>3, <2>2, <2>3
<1> QED BY <1>0, <1>2, <1>3, <1>4

(* What the way of a leaf says of its ancestors.                            *)
LEMMA Halves ==
  ASSUME NEW p \in Nat, NEW m \in Nat \ {0}, NEW b \in {0, 1}
  PROVE  (2 * p + b) \div (2 * m) = p \div m
OBVIOUS
LEMMA Bit ==
  ASSUME NEW p \in Nat, NEW b \in {0, 1}
  PROVE  (2 * p + b) \div 2 = p /\ (2 * p + b) \div 1 = 2 * p + b /\ (2 * p + b) % 2 = b
OBVIOUS
(* CacheSet::lru_way: whatever the bits are, the walk ends at a way.        *)
Follows(bits, k, p) ==
  /\ p \in 0 .. 2 ^ k - 1
  /\ \A d \in 0 .. k - 1 : bits[2 ^ d - 1 + p \div 2 ^ (k - d)] = ((p \div 2 ^ (k - d - 1)) % 2 = 1)

LEMMA ABit ==
  ASSUME NEW B \in BOOLEAN
  PROVE  \E b \in {0, 1} : B = (b = 1)
<1>1. CASE B = TRUE
  <2>1. B = (1 = 1)
    BY <1>1
  <2> QED BY <2>1, Zenon
<1>2. CASE B = FALSE
  <2>1. B = (0 = 1)
    BY <1>2
  <2> QED BY <2>1, Zenon
<1> QED BY <1>1, <1>2

LEMMA Descend ==
  ASSUME NEW bits \in [Node -> BOOLEAN], NEW k \in 0 .. Depth - 1, NEW p \in Nat, Follows(bits, k, p)
  PROVE  \E q \in Nat : Follows(bits, k + 1, q)
<1>1. /\ p \in 0 .. 2 ^ k - 1 /\ k \in Nat /\ k \in 0 .. Depth /\ k + 1 \in 0 .. Depth
      /\ 2 ^ k \in Nat \ {0} /\ 2 ^ (k + 1) \in Nat \ {0} /\ 2 ^ (k + 1) = 2 * 2 ^ k
      /\ 2 ^ (k + 1) <= NumWays /\ NumWays \in Nat
  <2>1. k \in Nat /\ k \in 0 .. Depth /\ k + 1 \in 0 .. Depth /\ Depth \in 0 .. Depth
    BY CacheAssumption
  <2> QED BY <2>1, Powers, Doubling DEF Follows, NumWays
<1>2. 2 ^ k - 1 + p \in Node
  BY <1>1 DEF Node
<1>3. PICK b \in {0, 1} : bits[2 ^ k - 1 + p] = (b = 1)
  <2>1. bits[2 ^ k - 1 + p] \in BOOLEAN
    BY <1>2
  <2> QED BY <2>1, ABit
<1> DEFINE q == 2 * p + b
<1>4. q \in Nat /\ q \in 0 .. 2 ^ (k + 1) - 1
  BY <1>1, <1>3
<1>5. q \div 2 = p /\ q \div 1 = q /\ q % 2 = b
  BY <1>3, Bit
<1>6. ASSUME NEW d \in 0 .. k
      PROVE  bits[2 ^ d - 1 + q \div 2 ^ (k + 1 - d)] = ((q \div 2 ^ (k + 1 - d - 1)) % 2 = 1)
  <2>1. CASE d = k
    <3>1. k + 1 - d = 1 /\ k + 1 - d - 1 = 0 /\ 2 ^ 1 = 2 /\ 2 ^ 0 = 1
      <4>1. 2 ^ (0 + 1) = 2 * 2 ^ 0 /\ 2 ^ 0 = 1
        BY Doubling, Powers
      <4> QED BY <1>1, <2>1, <4>1
    <3> HIDE DEF q
    <3>2. q \div 2 ^ (k + 1 - d) = p /\ (q \div 2 ^ (k + 1 - d - 1)) % 2 = b
      BY <1>5, <3>1
    <3> QED BY <1>3, <2>1, <3>2, Zenon
  <2>2. CASE d \in 0 .. k - 1
    <3>1. /\ k - d \in 0 .. Depth /\ k - d - 1 \in 0 .. Depth /\ k - d \in Nat /\ k - d - 1 \in Nat
          /\ k + 1 - d = (k - d) + 1 /\ k + 1 - d - 1 = k - d /\ k - d = (k - d - 1) + 1
      BY <1>1, <2>2, CacheAssumption
    <3>2. 2 ^ (k - d) \in Nat \ {0} /\ 2 ^ (k - d - 1) \in Nat \ {0}
      BY <3>1, Powers
    <3>3. 2 ^ (k + 1 - d) = 2 * 2 ^ (k - d)
      BY <3>1, Doubling
    <3>4. 2 ^ (k + 1 - d - 1) = 2 * 2 ^ (k - d - 1)
      <4>1. 2 ^ ((k - d - 1) + 1) = 2 * 2 ^ (k - d - 1)
        BY <3>1, Doubling
      <4> QED BY <3>1, <4>1
    <3>5. q \div 2 ^ (k + 1 - d) = p \div 2 ^ (k - d)
      BY <1>3, <3>2, <3>3, Halves
    <3>6. q \div 2 ^ (k + 1 - d - 1) = p \div 2 ^ (k - d - 1)
      BY <1>3, <3>2, <3>4, Halves
    <3>7. bits[2 ^ d - 1 + p \div 2 ^ (k - d)] = ((p \div 2 ^ (k - d - 1)) % 2 = 1)
      BY <2>2 DEF Follows
    <3> HIDE DEF q
    <3> QED BY <3>5, <3>6, <3>7, Zenon
  <2> QED BY <1>1, <2>1, <2>2
<1>7. \A d \in 0 .. k + 1 - 1 : d \in 0 .. k
  BY <1>1
<1> HIDE DEF q
<1>8. Follows(bits, k + 1, q)
  <2>1. \A d \in 0 .. k + 1 - 1 :
          bits[2 ^ d - 1 + q \div 2 ^ (k + 1 - d)] = ((q \div 2 ^ (k + 1 - d - 1)) % 2 = 1)
    BY <1>6, <1>7, Zenon
  <2>2. q \in 0 .. 2 ^ (k + 1) - 1
    BY <1>4
  <2> QED BY <2>1, <2>2 DEF Follows
<1> QED BY <1>4, <1>8

LEMMA LruWayIsAWay ==
  ASSUME NEW bits \in [Node -> BOOLEAN]
  PROVE  LruWay(bits) \in Way
<1> DEFINE T == {k \in 0 .. Depth : ~\E p \in Nat : Follows(bits, k, p)}
<1>1. T = {}
  <2> SUFFICES ASSUME T # {} PROVE FALSE
    OBVIOUS
  <2>1. T \subseteq Nat
    BY CacheAssumption
  <2>2. PICK k \in T : \A j \in T : k <= j
    <3> HIDE DEF T
    <3> QED BY <2>1, Least
  <2>3. Follows(bits, 0, 0)
    BY Powers DEF Follows
  <2>4. k \in 0 .. Depth /\ k # 0 /\ ~\E p \in Nat : Follows(bits, k, p)
    BY <2>2, <2>3
  <2>5. k - 1 \in 0 .. Depth - 1 /\ k - 1 \notin T /\ (k - 1) + 1 = k
    BY <2>2, <2>4, CacheAssumption
  <2>6. PICK p \in Nat : Follows(bits, k - 1, p)
    BY <2>4, <2>5, CacheAssumption
  <2>7. \E q \in Nat : Follows(bits, (k - 1) + 1, q)
    BY <2>5, <2>6, Descend
  <2> QED BY <2>4, <2>5, <2>7
<1>2. PICK w \in Nat : Follows(bits, Depth, w)
  BY <1>1, CacheAssumption
<1>3. w \in Way
  BY <1>2 DEF Follows, Way, NumWays
<1>4. \A d \in 0 .. Depth - 1 : bits[Ancestor(w, d)] = IsRight(w, d)
  BY <1>2, Zenon DEF Follows, Ancestor, IsRight
<1> QED BY <1>3, <1>4, Zenon DEF LruWay

-----------------------------------------------------------------------------
(* The lines.                                                              *)

LineEntry == [valid : BOOLEAN, block : Nat, dirty : BOOLEAN]
Sets == 0 .. NumSets - 1

(* What OneCopy says, of any lines.                                         *)
Located(l) ==
  /\ l \in [Sets -> [Way -> LineEntry]]
  /\ \A si \in Sets : \A w \in Way :
       l[si][w].valid =>
         /\ SetOf(l[si][w].block) = si
         /\ \A v \in Way : l[si][v].valid /\ l[si][v].block = l[si][w].block => v = w
Trees(t) == t \in [Sets -> [Node -> BOOLEAN]]
Backs == {WriteBack(b) : b \in Nat}

(* The lines stay right because whatever comes back from the memory is a    *)
(* block, also what was evicted and is filled again.                        *)
TagInv ==
  /\ Located(line) /\ Trees(plru)
  /\ wb_q \in Seq(Backs)
  /\ \A x \in DOMAIN memory : x.block \in Nat

LEMMA TagInvGivesOneCopy == TagInv => OneCopy
<1> SUFFICES ASSUME TagInv PROVE OneCopy
  OBVIOUS
<1>1. \A x \in Elements(wb_q) : x.evicted
  <2>1. \A x \in Elements(wb_q) : x \in Backs
    BY ElementsFacts DEF TagInv
  <2>2. \A x \in Backs : x.evicted
    BY DEF Backs, WriteBack
  <2> QED BY <2>1, <2>2
<1> QED BY <1>1 DEF TagInv, OneCopy, TagTypeOK, Located, Trees, LineEntry, Sets

LEMMA SetFacts == \A b \in Nat : SetOf(b) \in Sets
BY CacheAssumption DEF SetOf, Sets

(* One entry changes: it keeps its block, or gets one that is in no other.  *)
Fits(l, si, w, new) ==
  new.valid => /\ SetOf(new.block) = si
               /\ \A v \in Way \ {w} : ~(l[si][v].valid /\ l[si][v].block = new.block)

LEMMA LocatedKept ==
  ASSUME NEW l, Located(l), NEW si \in Sets, NEW w \in Way, NEW new \in LineEntry, Fits(l, si, w, new),
         NEW m, m = [l EXCEPT ![si][w] = new]
  PROVE  Located(m)
<1>1. l \in [Sets -> [Way -> LineEntry]] /\ l[si] \in [Way -> LineEntry]
  BY DEF Located
<1>2. m \in [Sets -> [Way -> LineEntry]]
  <2>1. [l[si] EXCEPT ![w] = new] \in [Way -> LineEntry]
    BY <1>1
  <2>2. m = [l EXCEPT ![si] = [l[si] EXCEPT ![w] = new]]
    OBVIOUS
  <2> QED BY <1>1, <2>1, <2>2
<1>3. /\ \A s \in Sets \ {si} : m[s] = l[s]
      /\ m[si][w] = new
      /\ \A v \in Way \ {w} : m[si][v] = l[si][v]
  BY <1>1
<1>4. ASSUME NEW s \in Sets, NEW u \in Way, m[s][u].valid
      PROVE  /\ SetOf(m[s][u].block) = s
             /\ \A v \in Way : m[s][v].valid /\ m[s][v].block = m[s][u].block => v = u
  <2>1. CASE s # si
    BY <1>3, <1>4, <2>1 DEF Located
  <2>2. CASE s = si /\ u = w
    BY <1>3, <1>4, <2>2 DEF Fits
  <2>3. CASE s = si /\ u # w
    BY <1>3, <1>4, <2>3 DEF Located, Fits
  <2> QED BY <2>1, <2>2, <2>3
<1> QED BY <1>2, <1>4 DEF Located

LEMMA TreesKept ==
  ASSUME Trees(plru), NEW si, NEW w, Touch(si, w)
  PROVE  Trees(plru')
<1>1. ASSUME NEW bits \in [Node -> BOOLEAN] PROVE Touched(bits, w) \in [Node -> BOOLEAN]
  BY DEF Touched
<1>2. plru' = [plru EXCEPT ![si] = Touched(plru[si], w)]
  BY DEF Touch
<1>3. CASE si \in Sets
  BY <1>1, <1>2, <1>3 DEF Trees
<1>4. CASE si \notin Sets
  BY <1>2, <1>4 DEF Trees
<1> QED BY <1>3, <1>4

(* A hit changes the dirty bit of the line it found.                        *)
LEMMA HitKeeps ==
  ASSUME Located(line), NEW b \in Nat, NEW write \in BOOLEAN, NEW w \in Way, Holds(b, w)
  PROVE  line' = [line EXCEPT ![SetOf(b)][w].dirty = @ \/ write] => Located(line')
<1> DEFINE si == SetOf(b)
           new == [line[si][w] EXCEPT !.dirty = @ \/ write]
<1>1. si \in Sets
  BY SetFacts
<1>2. w \in Way /\ Holds(b, w)
  OBVIOUS
<1>3. line[si][w] \in LineEntry
  BY <1>1, <1>2 DEF Located
<1>4. line' = [line EXCEPT ![SetOf(b)][w].dirty = @ \/ write] => line' = [line EXCEPT ![si][w] = new]
  OBVIOUS
<1>5. new \in LineEntry /\ new.valid = line[si][w].valid /\ new.block = line[si][w].block
  BY <1>3 DEF LineEntry
<1>6. Fits(line, si, w, new)
  <2> HIDE DEF new
  <2>1. w \in Way /\ line[si][w].valid /\ line[si][w].block = b
    BY <1>2 DEF Holds
  <2> QED BY <1>1, <1>5, <2>1 DEF Located, Fits
<1> HIDE DEF si, new
<1>7. ASSUME line' = [line EXCEPT ![si][w] = new] PROVE Located(line')
  <2>1. new \in LineEntry
    BY <1>5
  <2> QED BY <1>1, <1>6, <1>7, <2>1, LocatedKept
<1> QED BY <1>4, <1>7

LEMMA VictimIsAWay ==
  ASSUME Trees(plru), NEW si \in Sets
  PROVE  Victim(si) \in Way
<1>1. plru[si] \in [Node -> BOOLEAN]
  BY DEF Trees
<1>2. LruWay(plru[si]) \in Way
  BY <1>1, LruWayIsAWay
<1>3. CASE FreeWays(si) # {}
  <2>1. FreeWays(si) \subseteq Nat /\ FreeWays(si) \subseteq Way
    BY DEF FreeWays, Way
  <2>2. \E w \in FreeWays(si) : \A v \in FreeWays(si) : w <= v
    BY <1>3, <2>1, Least
  <2>3. Lowest(FreeWays(si)) \in FreeWays(si)
    BY <2>2 DEF Lowest
  <2> QED BY <1>3, <2>1, <2>3 DEF Victim
<1> QED BY <1>2, <1>3 DEF Victim

LEMMA FillKeeps ==
  ASSUME Located(line), Trees(plru), wb_q \in Seq(Backs),
         NEW b \in Nat, NEW write \in BOOLEAN, Fill(b, write)
  PROVE  Located(line') /\ Trees(plru') /\ wb_q' \in Seq(Backs)
<1> DEFINE si == SetOf(b)
<1>1. si \in Sets
  BY SetFacts
<1>2. CASE CheckHit(b)
  <2> DEFINE w == CHOOSE v \in Way : Holds(b, v)
  <2>1. line' = [line EXCEPT ![si][w].dirty = @ \/ write] /\ Touch(si, w) /\ wb_q' = wb_q
    BY <1>2 DEF Fill
  <2>2. Located(line')
    <3>1. w \in Way /\ Holds(b, w)
      BY <1>2 DEF CheckHit
    <3> HIDE DEF w
    <3> QED BY <2>1, <3>1, HitKeeps
  <2>3. Trees(plru')
    <3> HIDE DEF w, si
    <3> QED BY <2>1, TreesKept
  <2> QED BY <2>1, <2>2, <2>3
<1>3. CASE ~CheckHit(b)
  <2> DEFINE w == Victim(si)
             new == [valid |-> TRUE, block |-> b, dirty |-> write]
  <2>1. /\ line' = [line EXCEPT ![si][w] = new]
        /\ Touch(si, w)
        /\ wb_q' = IF line[si][w].dirty THEN Append(wb_q, WriteBack(line[si][w].block)) ELSE wb_q
    BY <1>3 DEF Fill
  <2>2. w \in Way
    BY <1>1, VictimIsAWay
  <2>3. new \in LineEntry
    BY DEF LineEntry
  <2>4. Fits(line, si, w, new)
    BY <1>3 DEF CheckHit, Holds, Fits
  <2>5. line[si][w] \in LineEntry
    BY <1>1, <2>2 DEF Located
  <2>6. WriteBack(line[si][w].block) \in Backs
    BY <2>5 DEF Backs, LineEntry
  <2> HIDE DEF w, si, new, Backs
  <2>7. Located(line')
    BY <1>1, <2>1, <2>2, <2>3, <2>4, LocatedKept
  <2>8. Trees(plru')
    BY <2>1, TreesKept
  <2>9. wb_q' \in Seq(Backs)
    BY <2>1, <2>6, AppendProperties
  <2> QED BY <2>7, <2>8, <2>9
<1> QED BY <1>2, <1>3

LEMMA InitTags == Init => TagInv
<1> SUFFICES ASSUME Init PROVE TagInv
  OBVIOUS
<1>1. NoLine \in LineEntry /\ ~NoLine.valid
  BY DEF NoLine, LineEntry
<1>2. Located(line) /\ Trees(plru)
  BY <1>1 DEF Init, Located, Trees, Sets
<1>3. wb_q \in Seq(Backs)
  BY EmptySeq DEF Init
<1>4. DOMAIN memory = {}
  BY DEF Init, EmptyBag, SetToBag
<1> QED BY <1>2, <1>3, <1>4 DEF TagInv

LEMMA TagNext == CacheInv /\ TagInv /\ [Next]_vars => TagInv'
<1> SUFFICES ASSUME CacheInv, TagInv, [Next]_vars PROVE TagInv'
  OBVIOUS
<1>0. Pool /\ Queues /\ Located(line) /\ Trees(plru) /\ wb_q \in Seq(Backs)
  BY CacheInvParts DEF TagInv
<1>1. CASE UNCHANGED <<tagVars, wb_q, memory>>
  BY <1>1 DEF TagInv, tagVars
<1>2. BeginCycle \/ IssueMore \/ EndIssue \/ AcceptMiss \/ EndCycle \/ Arrive \/ PopResponse
        => UNCHANGED <<tagVars, wb_q, memory>>
  BY DEF BeginCycle, IssueMore, EndIssue, AcceptMiss, EndCycle, Arrive, PushRequest, PopResponse, edgeVars
<1>3. CASE AcceptHit
  <2> DEFINE r == Head(in_q)
             w == CHOOSE v \in Way : Holds(Base[r], v)
  <2>1. r \in Request /\ Base[r] \in Nat
    <3>1. in_q \in Seq(Request) /\ in_q # <<>>
      BY <1>0, <1>3 DEF AcceptHit, Accepting, Queues
    <3> QED BY <3>1, HeadTailProperties, CacheAssumption
  <2>2. /\ CheckHit(Base[r])
        /\ line' = [line EXCEPT ![SetOf(Base[r])][w].dirty = @ \/ r \in Writes]
        /\ Touch(SetOf(Base[r]), w)
        /\ UNCHANGED <<wb_q, memory>>
    BY <1>3 DEF AcceptHit, edgeVars
  <2>3. (r \in Writes) \in BOOLEAN
    OBVIOUS
  <2>4. Located(line')
    <3>1. w \in Way /\ Holds(Base[r], w)
      BY <2>2 DEF CheckHit
    <3> HIDE DEF w, r
    <3> QED BY <1>0, <2>1, <2>2, <2>3, <3>1, HitKeeps
  <2>5. Trees(plru')
    <3> HIDE DEF r, w
    <3> QED BY <1>0, <2>2, TreesKept
  <2> QED BY <1>0, <2>2, <2>4, <2>5 DEF TagInv
<1>4. CASE PopMissRequest
  <2>1. Head(miss_q) \in FetchRequest
    BY <1>0, <1>4, HeadTailProperties DEF PopMissRequest, Queues
  <2>2. Head(miss_q).block \in Nat
    BY <2>1 DEF FetchRequest
  <2>3. DOMAIN memory' = DOMAIN memory \cup {Head(miss_q)}
    BY <1>4 DEF PopMissRequest, (+), SetToBag
  <2>4. \A x \in DOMAIN memory' : x.block \in Nat
    BY <2>2, <2>3 DEF TagInv
  <2> QED BY <1>4, <2>4 DEF PopMissRequest, TagInv, tagVars
<1>5. CASE PopWbRequest
  <2>1. wb_q # <<>> /\ wb_q' = Tail(wb_q) /\ UNCHANGED tagVars /\ memory' = memory (+) SetToBag({Head(wb_q)})
    BY <1>5 DEF PopWbRequest
  <2>2. Head(wb_q) \in Backs /\ wb_q' \in Seq(Backs)
    <3> HIDE DEF Backs
    <3> QED BY <1>0, <2>1, HeadTailProperties
  <2>3. Head(wb_q).block \in Nat
    <3>1. PICK b \in Nat : Head(wb_q) = WriteBack(b)
      BY <2>2 DEF Backs
    <3> QED BY <3>1 DEF WriteBack
  <2>4. DOMAIN memory' = DOMAIN memory \cup {Head(wb_q)}
    BY <2>1 DEF (+), SetToBag
  <2>5. \A x \in DOMAIN memory' : x.block \in Nat
    BY <2>3, <2>4 DEF TagInv
  <2> QED BY <1>0, <2>1, <2>2, <2>5 DEF TagInv, tagVars
<1>6. CASE Response
  <2>1. PICK x \in BagToSet(memory) : PushMemoryResponse(x)
    BY <1>6 DEF Response
  <2>2. x.block \in Nat /\ x.id \in Slot
    BY <1>0, <2>1 DEF TagInv, Queues, BagToSet
  <2>3. \A y \in DOMAIN memory' : y.block \in Nat
    <3>1. DOMAIN memory' \subseteq DOMAIN memory
      BY <2>1 DEF PushMemoryResponse, (-)
    <3> QED BY <3>1 DEF TagInv
  <2>4. CASE pending[x.id].active
    <3>1. Fill(x.block, pending[x.id].write)
      BY <2>1, <2>4 DEF PushMemoryResponse
    <3>2. pending[x.id].write \in BOOLEAN
      BY <1>0, <2>2 DEF Pool, PendingObj
    <3>3. Located(line') /\ Trees(plru') /\ wb_q' \in Seq(Backs)
      BY <1>0, <2>2, <3>1, <3>2, FillKeeps
    <3> QED BY <2>3, <3>3 DEF TagInv
  <2>5. CASE ~pending[x.id].active
    <3>1. UNCHANGED <<tagVars, wb_q>>
      BY <2>1, <2>5 DEF PushMemoryResponse
    <3> QED BY <1>0, <2>3, <3>1 DEF TagInv, tagVars
  <2> QED BY <2>4, <2>5
<1>7. UNCHANGED vars => UNCHANGED <<tagVars, wb_q, memory>>
  BY DEF vars, edgeVars
<1> QED BY <1>1, <1>2, <1>3, <1>4, <1>5, <1>6, <1>7 DEF Next, Cycle

(* Cache::fill looks for the block before it takes a way, and find_tag      *)
(* looks only in the set of the block: a block is in one way of its own set *)
(* however the answers, the evicted blocks and the hits follow one another. *)
THEOREM BlocksHaveOneCopy == Spec => []OneCopy
<1>1. Init => TagInv
  BY InitTags
<1>2. CacheInv /\ TagInv /\ [Next]_vars => TagInv'
  BY TagNext
<1>3. TagInv => OneCopy
  BY TagInvGivesOneCopy
<1> QED BY <1>1, <1>2, <1>3, CacheInvariance, PTL DEF Spec

-----------------------------------------------------------------------------
(* Every request in one place.                                             *)

WaitingAt == [s \in Slot |-> Elements(pending[s].waiting)]

(* The places of a request: the two queues, the objects it can wait for,    *)
(* and what was answered; K is what was asked.                              *)
Apart(I, O, W, A, K) ==
  /\ I \cap O = {} /\ I \cap A = {} /\ O \cap A = {}
  /\ \A s \in Slot : W[s] \cap (I \cup O \cup A) = {}
  /\ \A s, t \in Slot : s # t => W[s] \cap W[t] = {}
  /\ K = I \cup O \cup A \cup UNION {W[s] : s \in Slot}

(* The inductive form of WaitsOnce: beyond it, that nobody waits for a slot *)
(* that is free.                                                            *)
Once ==
  /\ Distinct(in_q) /\ Distinct(out_q)
  /\ \A s \in Slot : Distinct(pending[s].waiting)
  /\ \A s \in Slot : ~pending[s].active => pending[s].waiting = <<>>
  /\ Apart(Elements(in_q), Elements(out_q), WaitingAt, answered, asked)

LEMMA EmptyElements == Elements(<<>>) = {} /\ Distinct(<<>>)
BY DEF Elements, Distinct

LEMMA OneElement == ASSUME NEW x PROVE Elements(<<x>>) = {x} /\ Distinct(<<x>>)
BY DEF Elements, Distinct

LEMMA TailOnce ==
  ASSUME NEW S, NEW q \in Seq(S), q # <<>>, Distinct(q)
  PROVE  /\ Head(q) \in Elements(q) /\ Head(q) \in S /\ Tail(q) \in Seq(S)
         /\ Distinct(Tail(q)) /\ Elements(Tail(q)) = Elements(q) \ {Head(q)}
<1>1. /\ Head(q) \in S /\ Tail(q) \in Seq(S) /\ Head(q) = q[1]
      /\ Len(Tail(q)) = Len(q) - 1 /\ \A k \in 1 .. Len(Tail(q)) : Tail(q)[k] = q[k + 1]
  BY HeadTailProperties
<1>2. Len(q) \in Nat \ {0} /\ 1 \in 1 .. Len(q)
  BY EmptySeq, LenProperties
<1>3. \A k \in 1 .. Len(Tail(q)) : k + 1 \in 1 .. Len(q) /\ k + 1 # 1
  BY <1>1, <1>2
<1>4. Distinct(Tail(q))
  BY <1>1, <1>2, <1>3 DEF Distinct
<1>5. Elements(Tail(q)) \subseteq Elements(q) \ {Head(q)}
  BY <1>1, <1>2, <1>3 DEF Elements, Distinct
<1>6. ASSUME NEW x \in Elements(q), x # Head(q) PROVE x \in Elements(Tail(q))
  <2>1. PICK k \in 1 .. Len(q) : q[k] = x
    BY DEF Elements
  <2>2. k - 1 \in 1 .. Len(Tail(q)) /\ (k - 1) + 1 = k
    BY <1>1, <1>2, <1>6, <2>1
  <2>3. Tail(q)[k - 1] = x
    BY <1>1, <2>1, <2>2
  <2> QED BY <2>2, <2>3 DEF Elements
<1>7. Head(q) \in Elements(q)
  BY <1>1, <1>2 DEF Elements
<1> QED BY <1>1, <1>4, <1>5, <1>6, <1>7

LEMMA ConcatOnce ==
  ASSUME NEW S, NEW p \in Seq(S), NEW q \in Seq(S), Distinct(p), Distinct(q),
         Elements(p) \cap Elements(q) = {}
  PROVE  Distinct(p \o q) /\ Elements(p \o q) = Elements(p) \cup Elements(q)
<1>1. /\ Len(p) \in Nat /\ Len(q) \in Nat /\ Len(p \o q) = Len(p) + Len(q)
      /\ \A k \in 1 .. Len(p) + Len(q) : (p \o q)[k] = IF k <= Len(p) THEN p[k] ELSE q[k - Len(p)]
  BY LenProperties, ConcatProperties
<1> DEFINE r == p \o q
<1>2. \A k \in 1 .. Len(r) : \/ k \in 1 .. Len(p) /\ r[k] = p[k]
                             \/ k - Len(p) \in 1 .. Len(q) /\ r[k] = q[k - Len(p)]
  BY <1>1
<1>3. /\ \A k \in 1 .. Len(p) : k \in 1 .. Len(r) /\ r[k] = p[k]
      /\ \A k \in 1 .. Len(q) : k + Len(p) \in 1 .. Len(r) /\ r[k + Len(p)] = q[k]
  BY <1>1
<1> HIDE DEF r
<1>4. Elements(r) = Elements(p) \cup Elements(q)
  <2>1. Elements(r) \subseteq Elements(p) \cup Elements(q)
    BY <1>2 DEF Elements
  <2>2. Elements(p) \subseteq Elements(r)
    BY <1>3 DEF Elements
  <2>3. ASSUME NEW x \in Elements(q) PROVE x \in Elements(r)
    <3>1. PICK k \in 1 .. Len(q) : q[k] = x
      BY DEF Elements
    <3> QED BY <1>3, <3>1 DEF Elements
  <2> QED BY <2>1, <2>2, <2>3
<1>5. ASSUME NEW j \in 1 .. Len(r), NEW k \in 1 .. Len(r), r[j] = r[k] PROVE j = k
  <2>1. CASE j \in 1 .. Len(p) /\ r[j] = p[j]
    <3>1. p[j] \in Elements(p)
      BY <2>1 DEF Elements
    <3>2. ~(k - Len(p) \in 1 .. Len(q) /\ r[k] = q[k - Len(p)])
      BY <1>5, <2>1, <3>1 DEF Elements
    <3> QED BY <1>2, <1>5, <2>1, <3>2 DEF Distinct
  <2>2. CASE j - Len(p) \in 1 .. Len(q) /\ r[j] = q[j - Len(p)]
    <3>1. q[j - Len(p)] \in Elements(q)
      BY <2>2 DEF Elements
    <3>2. ~(k \in 1 .. Len(p) /\ r[k] = p[k])
      BY <1>5, <2>2, <3>1 DEF Elements
    <3>3. j - Len(p) = k - Len(p)
      BY <1>2, <1>5, <2>2, <3>2 DEF Distinct
    <3> QED BY <1>1, <3>3
  <2> QED BY <1>2, <2>1, <2>2
<1> QED BY <1>4, <1>5 DEF Distinct, r

(* The moves of a request from place to place.                             *)
LEMMA Moves ==
  ASSUME NEW I, NEW O, NEW W, NEW A, NEW K, Apart(I, O, W, A, K), NEW r
  PROVE  /\ r \notin K => Apart(I \cup {r}, O, W, A, K \cup {r})
         /\ r \in I => Apart(I \ {r}, O \cup {r}, W, A, K)
         /\ r \in O => Apart(I, O \ {r}, W, A \cup {r}, K)
BY DEF Apart

LEMMA MovesToSlot ==
  ASSUME NEW I, NEW O, NEW W, NEW A, NEW K, Apart(I, O, W, A, K), NEW r \in I, NEW s \in Slot,
         NEW V, V[s] = W[s] \cup {r}, \A t \in Slot \ {s} : V[t] = W[t]
  PROVE  Apart(I \ {r}, O, V, A, K)
<1>1. \A t \in Slot : V[t] = IF t = s THEN W[s] \cup {r} ELSE W[t]
  OBVIOUS
<1>2. UNION {V[t] : t \in Slot} = (UNION {W[t] : t \in Slot}) \cup {r}
  BY <1>1
<1> QED BY <1>1, <1>2 DEF Apart

LEMMA LeavesSlot ==
  ASSUME NEW I, NEW O, NEW W, NEW A, NEW K, Apart(I, O, W, A, K), NEW s \in Slot,
         NEW V, V[s] = {}, \A t \in Slot \ {s} : V[t] = W[t]
  PROVE  O \cap W[s] = {} /\ Apart(I, O \cup W[s], V, A, K)
<1>1. \A t \in Slot : V[t] = IF t = s THEN {} ELSE W[t]
  OBVIOUS
<1>2. UNION {W[t] : t \in Slot} = (UNION {V[t] : t \in Slot}) \cup W[s]
  BY <1>1
<1> QED BY <1>1, <1>2 DEF Apart

-----------------------------------------------------------------------------
(* Once implies WaitsOnce.                                                 *)

LEMMA TimesOnce ==
  ASSUME NEW S, NEW q \in Seq(S), Distinct(q), NEW r
  PROVE  Times(r, q) = IF r \in Elements(q) THEN 1 ELSE 0
<1> DEFINE P == {k \in 1 .. Len(q) : q[k] = r}
<1>1. CASE r \in Elements(q)
  <2>1. PICK k \in 1 .. Len(q) : q[k] = r
    BY <1>1 DEF Elements
  <2>2. P = {k}
    BY <2>1 DEF Distinct
  <2>3. Cardinality({k}) = 1
    BY FS_Singleton
  <2> QED BY <1>1, <2>2, <2>3 DEF Times
<1>2. CASE r \notin Elements(q)
  <2>1. P = {}
    BY <1>2 DEF Elements
  <2>2. Cardinality({}) = 0
    BY FS_EmptySet
  <2> QED BY <1>2, <2>1, <2>2 DEF Times
<1> QED BY <1>1, <1>2

LEMMA SlotsOnce ==
  ASSUME Pool, Once, NEW r
  PROVE  Cardinality(SlotsWaitedFor(r)) = IF \E s \in Slot : r \in WaitingAt[s] THEN 1 ELSE 0
<1> DEFINE All == UNION {{s} \X (1 .. Len(pending[s].waiting)) : s \in Slot}
           W(s) == pending[s].waiting
<1>1. SlotsWaitedFor(r) = {at \in All : pending[at[1]].waiting[at[2]] = r}
  BY DEF SlotsWaitedFor
<1>2. CASE \E s \in Slot : r \in WaitingAt[s]
  <2>1. PICK s \in Slot : r \in WaitingAt[s]
    BY <1>2
  <2>2. PICK k \in 1 .. Len(W(s)) : W(s)[k] = r
    BY <2>1 DEF WaitingAt, Elements
  <2>3. <<s, k>> \in SlotsWaitedFor(r)
    BY <1>1, <2>2
  <2>4. ASSUME NEW at \in SlotsWaitedFor(r) PROVE at = <<s, k>>
    <3>1. PICK t \in Slot : at \in {t} \X (1 .. Len(W(t)))
      BY <1>1
    <3>2. PICK j \in 1 .. Len(W(t)) : at = <<t, j>>
      BY <3>1
    <3>3. W(t)[j] = r
      BY <1>1, <3>2
    <3>4. r \in WaitingAt[t]
      BY <3>2, <3>3 DEF WaitingAt, Elements
    <3>5. t = s
      BY <2>1, <3>4 DEF Once, Apart
    <3>6. j = k
      BY <2>2, <3>2, <3>3, <3>5 DEF Once, Distinct
    <3> QED BY <3>2, <3>5, <3>6
  <2>5. SlotsWaitedFor(r) = {<<s, k>>}
    BY <2>3, <2>4
  <2> QED BY <1>2, <2>5, FS_Singleton
<1>3. CASE ~\E s \in Slot : r \in WaitingAt[s]
  <2>1. ASSUME NEW at \in SlotsWaitedFor(r) PROVE FALSE
    <3>1. PICK t \in Slot : at \in {t} \X (1 .. Len(W(t)))
      BY <1>1, <2>1
    <3>2. PICK j \in 1 .. Len(W(t)) : at = <<t, j>>
      BY <3>1
    <3>3. W(t)[j] = r
      BY <1>1, <2>1, <3>2
    <3>4. r \in WaitingAt[t]
      BY <3>2, <3>3 DEF WaitingAt, Elements
    <3> QED BY <1>3, <3>4
  <2>2. SlotsWaitedFor(r) = {}
    BY <2>1
  <2> QED BY <1>3, <2>2, FS_EmptySet
<1> QED BY <1>2, <1>3

LEMMA OnceGivesWaitsOnce == CacheInv /\ Once => WaitsOnce
<1> SUFFICES ASSUME CacheInv, Once, NEW r \in Request
             PROVE  Times(r, in_q) + Times(r, out_q) + Cardinality(SlotsWaitedFor(r))
                      + (IF r \in answered THEN 1 ELSE 0) = IF r \in asked THEN 1 ELSE 0
  BY DEF WaitsOnce
<1>1. Pool /\ in_q \in Seq(Request) /\ out_q \in Seq(Request)
  BY CacheInvParts DEF Queues
<1>2. /\ Times(r, in_q) = IF r \in Elements(in_q) THEN 1 ELSE 0
      /\ Times(r, out_q) = IF r \in Elements(out_q) THEN 1 ELSE 0
  BY <1>1, TimesOnce DEF Once
<1>3. Cardinality(SlotsWaitedFor(r)) = IF \E s \in Slot : r \in WaitingAt[s] THEN 1 ELSE 0
  BY <1>1, SlotsOnce
<1> DEFINE w == \E s \in Slot : r \in WaitingAt[s]
<1>4. /\ r \in asked <=> (r \in Elements(in_q) \/ r \in Elements(out_q) \/ r \in answered \/ w)
      /\ ~(r \in Elements(in_q) /\ r \in Elements(out_q)) /\ ~(r \in Elements(in_q) /\ r \in answered)
      /\ ~(r \in Elements(out_q) /\ r \in answered)
      /\ w => ~(r \in Elements(in_q) \/ r \in Elements(out_q) \/ r \in answered)
  BY DEF Once, Apart
<1> HIDE DEF w
<1>5. Cardinality(SlotsWaitedFor(r)) = IF w THEN 1 ELSE 0
  BY <1>3 DEF w
<1> QED BY <1>2, <1>4, <1>5

-----------------------------------------------------------------------------
(* The actions keep every request in one place.                            *)

SameWaiting ==
  \A s \in Slot : pending'[s].waiting = pending[s].waiting /\ pending'[s].active = pending[s].active

LEMMA SameWaitingFacts ==
  ASSUME SameWaiting
  PROVE  WaitingAt' = WaitingAt
BY DEF SameWaiting, WaitingAt, Elements

(* Nothing moves.                                                          *)
LEMMA OnceKept ==
  ASSUME Once, SameWaiting, UNCHANGED <<in_q, out_q, answered, asked>>
  PROVE  Once'
<1>1. WaitingAt' = WaitingAt
  BY SameWaitingFacts
<1>2. Elements(in_q') = Elements(in_q) /\ Elements(out_q') = Elements(out_q)
      /\ Distinct(in_q') /\ Distinct(out_q')
  BY DEF Once
<1>3. Distinct(in_q)' /\ Distinct(out_q)' /\ Elements(in_q)' = Elements(in_q) /\ Elements(out_q)' = Elements(out_q)
  BY <1>2 DEF Distinct, Elements
<1>4. \A s \in Slot : Distinct(pending'[s].waiting) /\ (~pending'[s].active => pending'[s].waiting = <<>>)
  BY DEF Once, SameWaiting
<1>5. \A s \in Slot : Distinct(pending[s].waiting)'
  BY <1>4 DEF Distinct
<1> QED BY <1>1, <1>3, <1>4, <1>5 DEF Once

(* One form of Once' that names the values and not the definitions.         *)
LEMMA OnceNow ==
  ASSUME NEW I, NEW O, NEW W, NEW A, NEW K, Apart(I, O, W, A, K),
         I = Elements(in_q'), O = Elements(out_q'), A = answered', K = asked',
         \A s \in Slot : W[s] = Elements(pending'[s].waiting),
         Distinct(in_q'), Distinct(out_q'),
         \A s \in Slot : Distinct(pending'[s].waiting),
         \A s \in Slot : ~pending'[s].active => pending'[s].waiting = <<>>
  PROVE  Once'
<1>1. Elements(in_q)' = I /\ Elements(out_q)' = O /\ Distinct(in_q)' /\ Distinct(out_q)'
  BY DEF Elements, Distinct
<1>2. \A s \in Slot : WaitingAt'[s] = W[s]
  BY DEF WaitingAt, Elements
<1>3. UNION {WaitingAt'[s] : s \in Slot} = UNION {W[s] : s \in Slot}
  BY <1>2
<1>4. Apart(I, O, WaitingAt', A, K)
  BY <1>2, <1>3 DEF Apart
<1>5. \A s \in Slot : Distinct(pending[s].waiting)'
  BY DEF Distinct
<1>6. Apart(Elements(in_q), Elements(out_q), WaitingAt, answered, asked)'
  BY <1>1, <1>4 DEF Apart
<1> QED BY <1>1, <1>5, <1>6 DEF Once

LEMMA OnceParts ==
  ASSUME Once
  PROVE  /\ Distinct(in_q) /\ Distinct(out_q)
         /\ \A s \in Slot : Distinct(pending[s].waiting) /\ WaitingAt[s] = Elements(pending[s].waiting)
         /\ \A s \in Slot : ~pending[s].active => pending[s].waiting = <<>>
         /\ Apart(Elements(in_q), Elements(out_q), WaitingAt, answered, asked)
BY DEF Once, WaitingAt

LEMMA PushRequestOnce ==
  ASSUME Queues, Once, NEW r \in Request, PushRequest(r)
  PROVE  Once'
<1>1. /\ r \notin asked /\ asked' = asked \cup {r} /\ in_q' = Append(in_q, r)
      /\ UNCHANGED <<pending, out_q, answered>>
  BY DEF PushRequest, slotVars
<1>2. r \notin Elements(in_q)
  BY <1>1, OnceParts DEF Apart
<1>3. Distinct(in_q') /\ Elements(in_q') = Elements(in_q) \cup {r}
  <2>1. in_q \in Seq(Request) /\ Distinct(in_q)
    BY OnceParts DEF Queues
  <2>2. Pushed(in_q, r, in_q')
    BY <1>1, <1>2, <2>1, PushBack
  <2> QED BY <2>2 DEF Pushed
<1>4. Apart(Elements(in_q'), Elements(out_q'), WaitingAt, answered', asked')
  <2>1. Apart(Elements(in_q) \cup {r}, Elements(out_q), WaitingAt, answered, asked \cup {r})
    BY <1>1, OnceParts, Moves
  <2> QED BY <1>1, <1>3, <2>1
<1> QED BY <1>1, <1>3, <1>4, OnceParts, OnceNow

LEMMA AcceptHitOnce ==
  ASSUME Queues, Once, AcceptHit
  PROVE  Once'
<1> DEFINE r == Head(in_q)
<1>1. /\ in_q # <<>> /\ in_q' = Tail(in_q) /\ out_q' = Append(out_q, r)
      /\ UNCHANGED <<pending, answered, asked>>
  BY DEF AcceptHit, Accepting, slotVars, edgeVars
<1>2. /\ r \in Elements(in_q) /\ r \in Request
      /\ Distinct(in_q') /\ Elements(in_q') = Elements(in_q) \ {r}
  BY <1>1, TailOnce, OnceParts DEF Queues
<1> HIDE DEF r
<1>3. r \notin Elements(out_q)
  BY <1>2, OnceParts DEF Apart
<1>4. Distinct(out_q') /\ Elements(out_q') = Elements(out_q) \cup {r}
  <2>1. out_q \in Seq(Request) /\ Distinct(out_q) /\ out_q' = Append(out_q, r)
    BY <1>1, OnceParts DEF Queues, r
  <2>2. Pushed(out_q, r, out_q')
    BY <1>2, <1>3, <2>1, PushBack
  <2> QED BY <2>2 DEF Pushed
<1>5. Apart(Elements(in_q'), Elements(out_q'), WaitingAt, answered', asked')
  <2>1. Apart(Elements(in_q) \ {r}, Elements(out_q) \cup {r}, WaitingAt, answered, asked)
    BY <1>2, OnceParts, Moves
  <2> QED BY <1>1, <1>2, <1>4, <2>1
<1> QED BY <1>1, <1>2, <1>4, <1>5, OnceParts, OnceNow

LEMMA PopResponseOnce ==
  ASSUME Queues, Once, PopResponse
  PROVE  Once' /\ Head(out_q) \in asked \ answered
<1> DEFINE r == Head(out_q)
<1>1. /\ out_q # <<>> /\ out_q' = Tail(out_q) /\ answered' = answered \cup {r}
      /\ UNCHANGED <<pending, in_q, asked>>
  BY DEF PopResponse, slotVars
<1>2. /\ r \in Elements(out_q) /\ Distinct(out_q') /\ Elements(out_q') = Elements(out_q) \ {r}
  BY <1>1, TailOnce, OnceParts DEF Queues
<1>3. r \in asked \ answered
  BY <1>2, OnceParts DEF Apart
<1> HIDE DEF r
<1>4. Apart(Elements(in_q'), Elements(out_q'), WaitingAt, answered', asked')
  <2>1. Apart(Elements(in_q), Elements(out_q) \ {r}, WaitingAt, answered \cup {r}, asked)
    BY <1>2, OnceParts, Moves
  <2>2. answered' = answered \cup {r} /\ UNCHANGED <<in_q, asked>>
    BY <1>1 DEF r
  <2> QED BY <1>2, <2>1, <2>2
<1>5. Once'
  BY <1>1, <1>2, <1>4, OnceParts, OnceNow
<1> QED BY <1>3, <1>5 DEF r

(* A request goes from the front of _in_q to the end of those that wait for *)
(* slot s; before, s has the waiting list q, which is empty if it was free. *)
LEMMA JoinsSlot ==
  ASSUME Pool, Queues, Once, in_q # <<>>, in_q' = Tail(in_q), UNCHANGED <<out_q, answered, asked>>,
         NEW s \in Slot, pending'[s].active,
         pending'[s].waiting = Append(pending[s].waiting, Head(in_q)),
         \A t \in Slot \ {s} : /\ pending'[t].waiting = pending[t].waiting
                               /\ pending'[t].active = pending[t].active
  PROVE  Once'
<1> DEFINE r == Head(in_q)
           V == [t \in Slot |-> Elements(pending'[t].waiting)]
<1>1. /\ r \in Elements(in_q) /\ r \in Request
      /\ Distinct(in_q') /\ Elements(in_q') = Elements(in_q) \ {r}
  BY TailOnce, OnceParts DEF Queues
<1> HIDE DEF r
<1>2. r \notin Elements(pending[s].waiting)
  BY <1>1, OnceParts DEF Apart
<1>3. pending[s].waiting \in Seq(Request)
  BY DEF Pool, PendingObj
<1>4. Distinct(pending'[s].waiting) /\ Elements(pending'[s].waiting) = Elements(pending[s].waiting) \cup {r}
  <2>1. pending'[s].waiting = Append(pending[s].waiting, r)
    BY DEF r
  <2>2. Pushed(pending[s].waiting, r, pending'[s].waiting)
    BY <1>1, <1>2, <1>3, <2>1, OnceParts, PushBack
  <2> QED BY <2>2 DEF Pushed
<1>5. V[s] = WaitingAt[s] \cup {r} /\ \A t \in Slot \ {s} : V[t] = WaitingAt[t]
  BY <1>4, OnceParts
<1>6. \A t \in Slot : V[t] = Elements(pending'[t].waiting)
  OBVIOUS
<1> HIDE DEF V
<1>7. Apart(Elements(in_q'), Elements(out_q'), V, answered', asked')
  <2>1. Apart(Elements(in_q) \ {r}, Elements(out_q), V, answered, asked)
    <3>1. Apart(Elements(in_q), Elements(out_q), WaitingAt, answered, asked)
      BY OnceParts
    <3> QED BY <1>1, <1>5, <3>1, MovesToSlot
  <2> QED BY <1>1, <2>1
<1>8. \A t \in Slot : /\ Distinct(pending'[t].waiting)
                      /\ ~pending'[t].active => pending'[t].waiting = <<>>
  BY <1>4, OnceParts
<1> QED BY <1>1, <1>6, <1>7, <1>8, OnceParts, OnceNow

(* All that wait for slot s go to the end of _out_q.                        *)
LEMMA LeaveSlot ==
  ASSUME Pool, Queues, Once, UNCHANGED <<in_q, answered, asked>>, NEW s \in Slot,
         out_q' = out_q \o pending[s].waiting, pending'[s].waiting = <<>>,
         \A t \in Slot \ {s} : /\ pending'[t].waiting = pending[t].waiting
                               /\ pending'[t].active = pending[t].active
  PROVE  Once'
<1> DEFINE V == [t \in Slot |-> Elements(pending'[t].waiting)]
<1>1. V[s] = {} /\ \A t \in Slot \ {s} : V[t] = WaitingAt[t]
  BY EmptyElements, OnceParts
<1>2. \A t \in Slot : V[t] = Elements(pending'[t].waiting)
  OBVIOUS
<1> HIDE DEF V
<1>3. /\ Elements(out_q) \cap WaitingAt[s] = {}
      /\ Apart(Elements(in_q), Elements(out_q) \cup WaitingAt[s], V, answered, asked)
  BY <1>1, OnceParts, LeavesSlot
<1>4. Distinct(out_q') /\ Elements(out_q') = Elements(out_q) \cup WaitingAt[s]
  <2>1. out_q \in Seq(Request) /\ pending[s].waiting \in Seq(Request)
    BY DEF Pool, PendingObj, Queues
  <2> QED BY <1>3, <2>1, OnceParts, ConcatOnce
<1>5. \A t \in Slot : /\ Distinct(pending'[t].waiting)
                      /\ ~pending'[t].active => pending'[t].waiting = <<>>
  BY EmptyElements, OnceParts
<1>6. Apart(Elements(in_q'), Elements(out_q'), V, answered', asked')
  BY <1>3, <1>4
<1> QED BY <1>2, <1>4, <1>5, <1>6, OnceParts, OnceNow

(* issue_blocks moves nobody.                                              *)
LEMMA IssuedSameWaiting ==
  ASSUME Pool, NEW s \in Slot, NEW po \in PendingObj, NEW n,
         po.active = pending[s].active, po.waiting = pending[s].waiting,
         pending' = [pending EXCEPT ![s] = [po EXCEPT !.issued = @ + n]]
  PROVE  SameWaiting
<1> DEFINE new == [po EXCEPT !.issued = @ + n]
<1>1. new.active = po.active /\ new.waiting = po.waiting
  <2>1. new = [po EXCEPT !.issued = po.issued + n]
    OBVIOUS
  <2> QED BY <2>1 DEF PendingObj
<1> HIDE DEF new
<1>2. \A t \in Slot : pending'[t] = IF t = s THEN new ELSE pending[t]
  BY DEF Pool, new
<1> QED BY <1>1, <1>2 DEF SameWaiting

LEMMA IssueMoreOnce ==
  ASSUME Pool, Queues, Once, IssueMore
  PROVE  Once'
<1> DEFINE s == active_slots[count + 1]
<1>1. s \in Slot /\ pending[s] \in PendingObj
  <2>1. count + 1 \in 1 .. Len(active_slots)
    BY LenProperties DEF IssueMore, Queues, Pool
  <2>2. active_slots \in Seq(Slot)
    BY DEF Pool
  <2>3. s \in Slot
    BY <2>1, <2>2, ElementOfSeq
  <2> QED BY <2>3 DEF Pool
<1> HIDE DEF s
<1>2. SameWaiting
  <2>1. CASE IssueBlocks(s, pending[s])
    <3>1. pending' = [pending EXCEPT ![s] = [pending[s] EXCEPT !.issued = @ + ToIssue(pending[s])]]
      BY <2>1 DEF IssueBlocks
    <3> QED BY <1>1, <3>1, IssuedSameWaiting
  <2>2. CASE UNCHANGED <<miss_q, pending>>
    BY <2>2 DEF SameWaiting
  <2>3. IssueBlocks(s, pending[s]) \/ UNCHANGED <<miss_q, pending>>
    BY DEF IssueMore, s
  <2> QED BY <2>1, <2>2, <2>3
<1>3. UNCHANGED <<in_q, out_q, answered, asked>>
  BY DEF IssueMore, edgeVars
<1> QED BY <1>2, <1>3, OnceKept

(* A new fetch has one request waiting for it.                              *)
LEMMA StartWaiting ==
  ASSUME Pool, NEW r \in Request, free_slots # <<>>, StartFetch(r),
         NEW s, s = free_slots[Len(free_slots)]
  PROVE  /\ s \in Slot /\ ~pending[s].active
         /\ pending'[s].active /\ pending'[s].waiting = <<r>>
         /\ \A t \in Slot \ {s} : pending'[t] = pending[t]
<1> DEFINE po == NewFetch(r)
<1>1. s \in Elements(free_slots) /\ s \in Slot
  BY PopBack DEF Pool
<1>2. ~pending[s].active
  BY <1>1 DEF Pool, ActiveSlots
<1>3. po \in PendingObj /\ po.active /\ po.waiting = <<r>>
  BY NewFetchFacts DEF NewFetch
<1>4. \/ pending' = [pending EXCEPT ![s] = [po EXCEPT !.issued = Blocks[r]]]
      \/ pending' = [pending EXCEPT ![s] = [po EXCEPT !.issued = @ + ToIssue(po)]]
  BY DEF StartFetch, IssueBlocks
<1>5. pending \in [Slot -> PendingObj]
  BY DEF Pool
<1> HIDE DEF po
<1>6. ASSUME NEW n, pending' = [pending EXCEPT ![s] = [po EXCEPT !.issued = n]]
      PROVE  pending'[s].active /\ pending'[s].waiting = <<r>> /\ \A t \in Slot \ {s} : pending'[t] = pending[t]
  <2> DEFINE new == [po EXCEPT !.issued = n]
  <2>1. new.active = po.active /\ new.waiting = po.waiting
    BY <1>3 DEF PendingObj
  <2> HIDE DEF new
  <2>2. \A t \in Slot : pending'[t] = IF t = s THEN new ELSE pending[t]
    BY <1>5, <1>6 DEF new
  <2> QED BY <1>1, <1>3, <2>1, <2>2
<1>7. pending' = [pending EXCEPT ![s] = [po EXCEPT !.issued = @ + ToIssue(po)]]
        => pending' = [pending EXCEPT ![s] = [po EXCEPT !.issued = po.issued + ToIssue(po)]]
  OBVIOUS
<1> QED BY <1>1, <1>2, <1>4, <1>6, <1>7

LEMMA AcceptMissOnce ==
  ASSUME Pool, Queues, Once, AcceptMiss
  PROVE  Once'
<1> DEFINE r == Head(in_q)
<1>1. in_q # <<>> /\ UNCHANGED <<out_q, answered, asked>>
  BY DEF AcceptMiss, Accepting, edgeVars
<1>2. r \in Request
  BY <1>1, HeadTailProperties DEF Queues
<1>3. CASE InFlight(r)
  <2> DEFINE s == id_to_slot[Id[r]]
             new == [pending[s] EXCEPT !.waiting = Append(@, r)]
  <2>1. pending' = [pending EXCEPT ![s].waiting = Append(@, r)] /\ in_q' = Tail(in_q)
    BY <1>3 DEF AcceptMiss
  <2>2. s \in ActiveSlots /\ s \in Slot
    <3>1. PICK t \in ActiveSlots : Id[r] = pending[t].id
      BY <1>3 DEF InFlight, Pool
    <3> QED BY <3>1 DEF Pool, ActiveSlots
  <2>3. pending[s] \in PendingObj /\ pending[s].active
    BY <2>2 DEF Pool, ActiveSlots
  <2>4. pending' = [pending EXCEPT ![s] = new]
    BY <2>1
  <2> HIDE DEF s
  <2>5. new.active = pending[s].active /\ new.waiting = Append(pending[s].waiting, r)
    BY <2>3 DEF PendingObj
  <2> HIDE DEF new
  <2>6. \A t \in Slot : pending'[t] = IF t = s THEN new ELSE pending[t]
    BY <2>4 DEF Pool
  <2> QED BY <1>1, <2>1, <2>2, <2>3, <2>5, <2>6, JoinsSlot
<1>4. CASE ~InFlight(r) /\ free_slots # <<>>
  <2> DEFINE s == free_slots[Len(free_slots)]
  <2>1. StartFetch(r) /\ in_q' = Tail(in_q)
    BY <1>4 DEF AcceptMiss
  <2>2. /\ s \in Slot /\ ~pending[s].active
        /\ pending'[s].active /\ pending'[s].waiting = <<r>>
        /\ \A t \in Slot \ {s} : pending'[t] = pending[t]
    BY <1>2, <1>4, <2>1, StartWaiting
  <2> HIDE DEF s
  <2>3. pending'[s].waiting = Append(pending[s].waiting, r)
    <3>1. pending[s].waiting = <<>>
      BY <2>2, OnceParts
    <3>2. <<r>> = Append(<<>>, r)
      OBVIOUS
    <3> QED BY <2>2, <3>1, <3>2
  <2> QED BY <1>1, <2>1, <2>2, <2>3, JoinsSlot
<1>5. CASE ~InFlight(r) /\ ~(free_slots # <<>>)
  <2>1. UNCHANGED <<pending, in_q>>
    BY <1>5 DEF AcceptMiss, slotVars
  <2> QED BY <1>1, <2>1, OnceKept DEF SameWaiting
<1> QED BY <1>3, <1>4, <1>5

LEMMA ReturnOnce ==
  ASSUME Pool, Queues, Once, NEW s \in ActiveSlots, UNCHANGED <<in_q, answered, asked>>,
         Return(s, [pending[s] EXCEPT !.returned = @ + 1])
  PROVE  Once'
<1> DEFINE po == [pending[s] EXCEPT !.returned = @ + 1]
           n  == IF Len(miss_q) < MissQDepth THEN ToIssue(po) ELSE 0
<1>1. s \in Slot /\ pending[s] \in PendingObj
  BY DEF ActiveSlots, Pool
<1>2. po \in PendingObj /\ po.active = pending[s].active /\ po.waiting = pending[s].waiting
  <2>1. pending[s].returned + 1 \in Nat
    BY <1>1 DEF PendingObj
  <2>2. po = [pending[s] EXCEPT !.returned = pending[s].returned + 1]
    OBVIOUS
  <2> QED BY <1>1, <2>1, <2>2 DEF PendingObj
<1>3. \/ out_q' = out_q \o po.waiting /\ FreePendingSlot(s)
      \/ /\ pending' = [pending EXCEPT ![s] = [po EXCEPT !.issued = @ + n]]
         /\ UNCHANGED out_q
  BY DEF Return
<1> HIDE DEF po, n
<1>4. CASE out_q' = out_q \o po.waiting /\ FreePendingSlot(s)
  <2> DEFINE last == active_slots[Len(active_slots)]
  <2>1. last \in Slot
    BY ActivePlace DEF ActiveSlots
  <2>2. /\ pending'[s].waiting = <<>>
        /\ \A t \in Slot \ {s} : pending'[t].waiting = pending[t].waiting /\ pending'[t].active = pending[t].active
    BY <1>4, <2>1, ResetFacts DEF FreePendingSlot
  <2> QED BY <1>1, <1>2, <1>4, <2>2, LeaveSlot
<1>5. CASE /\ pending' = [pending EXCEPT ![s] = [po EXCEPT !.issued = @ + n]]
           /\ UNCHANGED out_q
  <2>1. SameWaiting
    BY <1>1, <1>2, <1>5, IssuedSameWaiting
  <2> QED BY <1>5, <2>1, OnceKept
<1> QED BY <1>3, <1>4, <1>5

LEMMA ResponseOnce ==
  ASSUME Pool, Queues, Once, NEW x \in BagToSet(memory), PushMemoryResponse(x)
  PROVE  Once'
<1>1. x.id \in Slot
  BY DEF Queues, BagToSet
<1>2. UNCHANGED <<in_q, answered, asked>>
  BY DEF PushMemoryResponse
<1>3. CASE pending[x.id].active
  <2>1. x.id \in ActiveSlots
    BY <1>1, <1>3 DEF ActiveSlots
  <2>2. Return(x.id, [pending[x.id] EXCEPT !.returned = @ + 1])
    BY <1>3 DEF PushMemoryResponse
  <2> QED BY <1>2, <2>1, <2>2, ReturnOnce
<1>4. CASE ~pending[x.id].active
  <2>1. UNCHANGED <<pending, out_q>>
    BY <1>4 DEF PushMemoryResponse, slotVars
  <2> QED BY <1>2, <2>1, OnceKept DEF SameWaiting
<1> QED BY <1>3, <1>4

LEMMA InitOnce == Init => Once
<1> SUFFICES ASSUME Init PROVE Once
  OBVIOUS
<1>1. \A s \in Slot : pending[s] = NoFetch
  BY DEF Init
<1>2. NoFetch.waiting = <<>>
  BY DEF NoFetch
<1>3. \A s \in Slot : pending[s].waiting = <<>> /\ WaitingAt[s] = {}
  BY <1>1, <1>2, EmptyElements DEF WaitingAt
<1>4. in_q = <<>> /\ out_q = <<>> /\ asked = {} /\ answered = {}
  BY DEF Init
<1>5. Apart({}, {}, WaitingAt, {}, {})
  BY <1>3 DEF Apart
<1> QED BY <1>3, <1>4, <1>5, EmptyElements DEF Once

LEMMA OnceNext == CacheInv /\ Once /\ [Next]_vars => Once'
<1> SUFFICES ASSUME CacheInv, Once, [Next]_vars PROVE Once'
  OBVIOUS
<1>0. Pool /\ Queues
  BY CacheInvParts
<1>1. CASE UNCHANGED <<pending, in_q, out_q, answered, asked>>
  BY <1>1, OnceKept DEF SameWaiting
<1>2. BeginCycle \/ EndIssue \/ EndCycle \/ PopMissRequest \/ PopWbRequest
        => UNCHANGED <<pending, in_q, out_q, answered, asked>>
  BY DEF BeginCycle, EndIssue, EndCycle, PopMissRequest, PopWbRequest, slotVars, edgeVars
<1>3. CASE IssueMore
  BY <1>0, <1>3, IssueMoreOnce
<1>4. CASE AcceptHit
  BY <1>0, <1>4, AcceptHitOnce
<1>5. CASE AcceptMiss
  BY <1>0, <1>5, AcceptMissOnce
<1>6. CASE Arrive
  BY <1>0, <1>6, PushRequestOnce DEF Arrive
<1>7. CASE Response
  BY <1>0, <1>7, ResponseOnce DEF Response
<1>8. CASE PopResponse
  BY <1>0, <1>8, PopResponseOnce
<1>9. UNCHANGED vars => UNCHANGED <<pending, in_q, out_q, answered, asked>>
  BY DEF vars, slotVars, edgeVars
<1> QED BY <1>1, <1>2, <1>3, <1>4, <1>5, <1>6, <1>7, <1>8, <1>9 DEF Next, Cycle

LEMMA OnceInvariance == Spec => [](CacheInv /\ Once)
<1>1. Init => CacheInv /\ Once
  BY InitInv, InitOnce
<1>2. CacheInv /\ Once /\ [Next]_vars => (CacheInv /\ Once)'
  BY CacheNext, OnceNext
<1> QED BY <1>1, <1>2, PTL DEF Spec

(* No request is lost or answered twice on its way through a bank: a hit, a *)
(* miss that starts a fetch, a miss that joins one, and the answer that     *)
(* completes it, too early or not, each take it from one place and put it   *)
(* into one other.                                                          *)
THEOREM RequestsWaitOnce == Spec => []WaitsOnce
<1>1. CacheInv /\ Once => WaitsOnce
  BY OnceGivesWaitsOnce
<1> QED BY <1>1, OnceInvariance, PTL

-----------------------------------------------------------------------------
(* What a bank promises to the cores.                                      *)

LEMMA ServiceStep ==
  CacheInv /\ Once /\ [Next]_vars => [Service!ServiceNext]_(asked \ answered)
<1> SUFFICES ASSUME CacheInv, Once, [Next]_vars
             PROVE  Service!ServiceNext \/ UNCHANGED (asked \ answered)
  OBVIOUS
<1>0. Queues /\ asked \subseteq Request /\ answered \subseteq asked
  BY CacheInvParts, OnceParts DEF Queues, Apart
<1>1. CASE UNCHANGED <<asked, answered>>
  BY <1>1
<1>2. Cycle \/ PopMissRequest \/ PopWbRequest \/ Response \/ UNCHANGED vars => UNCHANGED <<asked, answered>>
  BY DEF Cycle, BeginCycle, IssueMore, EndIssue, AcceptHit, AcceptMiss, EndCycle, PopMissRequest, PopWbRequest,
         Response, PushMemoryResponse, vars, edgeVars
<1>3. CASE Arrive
  <2>1. PICK r \in Request : PushRequest(r)
    BY <1>3 DEF Arrive
  <2>2. r \notin asked /\ asked' = asked \cup {r} /\ answered' = answered
    BY <2>1 DEF PushRequest
  <2>3. Service!Ask({r})
    BY <1>0, <2>2 DEF Service!Ask
  <2>4. {r} \in SUBSET Request
    OBVIOUS
  <2> QED BY <2>3, <2>4 DEF Service!ServiceNext
<1>4. CASE PopResponse
  <2> DEFINE r == Head(out_q)
  <2>1. r \in asked \ answered
    BY <1>0, <1>4, PopResponseOnce
  <2>2. answered' = answered \cup {r} /\ asked' = asked
    BY <1>4 DEF PopResponse
  <2> HIDE DEF r
  <2>3. Service!Answer({r})
    BY <2>1, <2>2 DEF Service!Answer
  <2>4. {r} \in SUBSET Request
    BY <1>0, <2>1
  <2> QED BY <2>3, <2>4 DEF Service!ServiceNext
<1> QED BY <1>1, <1>2, <1>3, <1>4 DEF Next

(* The safety half of ServesMemory: an answer is an answer to a request     *)
(* that was made and has not been answered.  That every one is answered is  *)
(* left to the model checker, as it rests on fairness.                      *)
THEOREM BankServesSafely == Spec => Service!ServiceSafety
<1>1. Init => Service!ServiceInit
  BY DEF Init, Service!ServiceInit
<1>2. CacheInv /\ Once /\ [Next]_vars => [Service!ServiceNext]_(asked \ answered)
  BY ServiceStep
<1> QED BY <1>1, <1>2, OnceInvariance, PTL DEF Spec, Service!ServiceSafety

-----------------------------------------------------------------------------
(* Blocks on their way, when nobody stores.                                *)

Clean == \A si \in Sets : \A w \in Way : ~line[si][w].dirty

(* Without stores no line gets dirty and nothing is written back, so what   *)
(* the memory answers is what the slots asked for.                          *)
NoStores ==
  /\ wb_q = <<>>
  /\ Clean
  /\ \A s \in Slot : ~pending[s].write
  /\ \A x \in DOMAIN memory : ~x.evicted

ABag == memory \in [DOMAIN memory -> Nat \ {0}] /\ IsFiniteSet(Copies)

(* What a slot knows when n of its block requests are on their way: none    *)
(* for a free slot, as many as it has issued and not seen back for a small  *)
(* object, and one in all for a large object.                               *)
Balanced(po, n) ==
  /\ ~po.active => n = 0 /\ po.total = 0 /\ po.issued = 0 /\ po.returned = 0
  /\ po.active => po.returned < po.total
  /\ po.active /\ po.total < LargeBlocks => po.issued = po.returned + n
  /\ po.active /\ po.total >= LargeBlocks => po.issued = po.total /\ po.returned + n = 1

QueueBound == LargeSlots = {} => Len(miss_q) <= MissQDepth

CountInv ==
  /\ NoStores
  /\ ABag
  /\ \A s \in Slot : Balanced(pending[s], OnTheirWay(s))
  /\ QueueBound
(* Counting in a queue.                                                    *)
At(q, s) == {k \in 1 .. Len(q) : q[k].id = s}

LEMMA AtFinite ==
  ASSUME NEW T, NEW q \in Seq(T), NEW s
  PROVE  IsFiniteSet(At(q, s)) /\ Cardinality(At(q, s)) \in Nat
<1>1. IsFiniteSet(1 .. Len(q))
  BY LenProperties, FS_Interval
<1>2. At(q, s) \in SUBSET (1 .. Len(q))
  BY DEF At
<1> QED BY <1>1, <1>2, FS_Subset, FS_CardinalityType

LEMMA AtConcat ==
  ASSUME NEW T, NEW p \in Seq(T), NEW q \in Seq(T), NEW s
  PROVE  Cardinality(At(p \o q, s)) = Cardinality(At(p, s)) + Cardinality(At(q, s))
<1> DEFINE r == p \o q
           behind == {k \in Len(p) + 1 .. Len(p) + Len(q) : q[k - Len(p)].id = s}
           f == [k \in At(q, s) |-> k + Len(p)]
<1>1. /\ Len(p) \in Nat /\ Len(q) \in Nat /\ Len(r) = Len(p) + Len(q)
      /\ \A k \in 1 .. Len(p) + Len(q) : r[k] = IF k <= Len(p) THEN p[k] ELSE q[k - Len(p)]
  BY LenProperties, ConcatProperties
<1> HIDE DEF r
<1>2. At(r, s) = At(p, s) \cup behind
  <2>1. ASSUME NEW k \in At(r, s) PROVE k \in At(p, s) \cup behind
    BY <1>1, <2>1 DEF At
  <2>2. ASSUME NEW k \in At(p, s) PROVE k \in At(r, s)
    BY <1>1, <2>2 DEF At
  <2>3. ASSUME NEW k \in behind PROVE k \in At(r, s)
    BY <1>1, <2>3 DEF At
  <2> QED BY <2>1, <2>2, <2>3
<1>3. At(p, s) \cap behind = {}
  BY <1>1 DEF At
<1>4. /\ IsFiniteSet(At(p, s)) /\ IsFiniteSet(At(q, s))
  BY AtFinite
<1>5. f \in [At(q, s) -> behind]
  BY <1>1 DEF At
<1>6. \A j, k \in At(q, s) : f[j] = f[k] => j = k
  BY <1>1 DEF At
<1>7. ASSUME NEW t \in behind PROVE \E k \in At(q, s) : f[k] = t
  <2>1. t \in Len(p) + 1 .. Len(p) + Len(q) /\ q[t - Len(p)].id = s
    OBVIOUS
  <2>2. t - Len(p) \in 1 .. Len(q) /\ (t - Len(p)) + Len(p) = t
    BY <1>1, <2>1
  <2>3. t - Len(p) \in At(q, s)
    BY <2>1, <2>2 DEF At
  <2> QED BY <2>2, <2>3
<1> HIDE DEF f, behind
<1>8. IsFiniteSet(behind) /\ Cardinality(behind) = Cardinality(At(q, s))
  BY <1>4, <1>5, <1>6, <1>7, SameSize
<1> QED BY <1>2, <1>3, <1>4, <1>8, DisjointUnion DEF r

(* Requests of one slot.                                                   *)
LEMMA AtOne ==
  ASSUME NEW q, Len(q) \in Nat, NEW s, \A k \in 1 .. Len(q) : q[k].id = s
  PROVE  \A t : Cardinality(At(q, t)) = IF t = s THEN Len(q) ELSE 0
<1>1. At(q, s) = 1 .. Len(q)
  BY DEF At
<1>2. \A t : t # s => At(q, t) = {}
  BY DEF At
<1>3. Cardinality(1 .. Len(q)) = Len(q)
  <2>1. Cardinality(1 .. Len(q)) = IF 1 > Len(q) THEN 0 ELSE Len(q) - 1 + 1
    BY FS_Interval
  <2> QED BY <2>1
<1> QED BY <1>1, <1>2, <1>3, FS_EmptySet

LEMMA AtTail ==
  ASSUME NEW T, NEW q \in Seq(T), q # <<>>, NEW s
  PROVE  Cardinality(At(q, s)) = Cardinality(At(Tail(q), s)) + IF Head(q).id = s THEN 1 ELSE 0
<1>1. Head(q) \in T /\ Tail(q) \in Seq(T) /\ q = <<Head(q)>> \o Tail(q)
  BY HeadTailProperties
<1> DEFINE one == <<Head(q)>>
<1>2. one \in Seq(T) /\ Len(one) = 1 /\ one[1] = Head(q)
  BY <1>1
<1>3. Cardinality(At(one, s)) = IF Head(q).id = s THEN 1 ELSE 0
  <2>1. \A k \in 1 .. Len(one) : one[k].id = Head(q).id
    BY <1>2
  <2> HIDE DEF one
  <2>2. \A t : Cardinality(At(one, t)) = IF t = Head(q).id THEN Len(one) ELSE 0
    <3>1. Len(one) \in Nat
      BY <1>2
    <3> QED BY <2>1, <3>1, AtOne
  <2> QED BY <1>2, <2>2
<1> HIDE DEF one
<1>4. Cardinality(At(q, s)) = Cardinality(At(one, s)) + Cardinality(At(Tail(q), s))
  <2>1. q = one \o Tail(q)
    BY <1>1 DEF one
  <2>2. Cardinality(At(one \o Tail(q), s)) = Cardinality(At(one, s)) + Cardinality(At(Tail(q), s))
    BY <1>1, <1>2, AtConcat
  <2> QED BY <2>1, <2>2
<1>5. Cardinality(At(Tail(q), s)) \in Nat
  BY <1>1, AtFinite
<1> QED BY <1>3, <1>4, <1>5

-----------------------------------------------------------------------------
(* Counting in the memory.                                                 *)

LEMMA CopyAdded ==
  ASSUME ABag, NEW x, memory' = memory (+) SetToBag({x})
  PROVE  ABag' /\ \E c : c \notin Copies /\ c[1] = x /\ Copies' = Copies \cup {c}
<1> DEFINE n == IF x \in DOMAIN memory THEN memory[x] ELSE 0
           c == <<x, n + 1>>
<1>1. n \in Nat
  BY DEF ABag
<1>2. /\ DOMAIN memory' = DOMAIN memory \cup {x}
      /\ \A y \in DOMAIN memory' : memory'[y] = IF y = x THEN n + 1 ELSE memory[y]
      /\ memory' = [y \in DOMAIN memory' |-> memory'[y]]
  BY DEF (+), SetToBag, ABag
<1>3. c \notin Copies
  BY <1>1 DEF Copies
<1> HIDE DEF n
<1>4. Copies' = Copies \cup {c}
  <2>1. \A y, k : <<y, k>> \in Copies <=> y \in DOMAIN memory /\ k \in 1 .. memory[y]
    BY DEF Copies
  <2>2. \A y, k : <<y, k>> \in Copies' <=> y \in DOMAIN memory' /\ k \in 1 .. memory'[y]
    BY DEF Copies
  <2>3. /\ \A d \in Copies : d = <<d[1], d[2]>>
        /\ \A d \in Copies' : d = <<d[1], d[2]>>
    BY DEF Copies
  <2>4. \A y, k : <<y, k>> \in Copies' <=> <<y, k>> \in Copies \/ <<y, k>> = c
    <3>1. SUFFICES ASSUME NEW y, NEW k
                   PROVE  (y \in DOMAIN memory' /\ k \in 1 .. memory'[y])
                            <=> (y \in DOMAIN memory /\ k \in 1 .. memory[y]) \/ (y = x /\ k = n + 1)
      BY <2>1, <2>2
    <3>2. CASE y = x
      BY <1>1, <1>2, <3>2 DEF n
    <3>3. CASE y # x
      BY <1>2, <3>3
    <3> QED BY <3>2, <3>3
  <2> QED BY <2>3, <2>4
<1>5. memory' \in [DOMAIN memory' -> Nat \ {0}]
  <2>1. \A y \in DOMAIN memory' : memory'[y] \in Nat \ {0}
    BY <1>1, <1>2 DEF ABag
  <2> QED BY <1>2, <2>1
<1>6. IsFiniteSet(Copies')
  BY <1>4, FS_AddElement DEF ABag
<1> QED BY <1>3, <1>4, <1>5, <1>6 DEF ABag

LEMMA CopyTaken ==
  ASSUME ABag, NEW x \in DOMAIN memory, memory' = memory (-) SetToBag({x})
  PROVE  ABag' /\ DOMAIN memory' \subseteq DOMAIN memory
         /\ \E c \in Copies : c[1] = x /\ Copies' = Copies \ {c}
<1> DEFINE n == memory[x]
           c == <<x, n>>
<1>1. n \in Nat \ {0}
  BY DEF ABag
<1>2. /\ DOMAIN memory' = IF n = 1 THEN DOMAIN memory \ {x} ELSE DOMAIN memory
      /\ \A y \in DOMAIN memory' : memory'[y] = IF y = x THEN n - 1 ELSE memory[y]
      /\ memory' = [y \in DOMAIN memory' |-> memory'[y]]
  <2> DEFINE left == [y \in DOMAIN memory |-> IF y = x THEN n - 1 ELSE memory[y]]
  <2>1. memory' = [y \in {d \in DOMAIN left : left[d] > 0} |-> left[y]]
    BY DEF (-), SetToBag
  <2>2. {d \in DOMAIN left : left[d] > 0} = IF n = 1 THEN DOMAIN memory \ {x} ELSE DOMAIN memory
    BY <1>1 DEF ABag
  <2> QED BY <2>1, <2>2
<1>3. c \in Copies
  BY <1>1 DEF Copies
<1> HIDE DEF n
<1>4. Copies' = Copies \ {c}
  <2>1. \A y, k : <<y, k>> \in Copies <=> y \in DOMAIN memory /\ k \in 1 .. memory[y]
    BY DEF Copies
  <2>2. \A y, k : <<y, k>> \in Copies' <=> y \in DOMAIN memory' /\ k \in 1 .. memory'[y]
    BY DEF Copies
  <2>3. /\ \A d \in Copies : d = <<d[1], d[2]>>
        /\ \A d \in Copies' : d = <<d[1], d[2]>>
    BY DEF Copies
  <2>4. \A y, k : <<y, k>> \in Copies' <=> <<y, k>> \in Copies /\ <<y, k>> # c
    <3>1. SUFFICES ASSUME NEW y, NEW k
                   PROVE  (y \in DOMAIN memory' /\ k \in 1 .. memory'[y])
                            <=> (y \in DOMAIN memory /\ k \in 1 .. memory[y]) /\ ~(y = x /\ k = n)
      BY <2>1, <2>2
    <3>2. CASE y = x
      BY <1>1, <1>2, <3>2 DEF n
    <3>3. CASE y # x
      BY <1>2, <3>3
    <3> QED BY <3>2, <3>3
  <2> QED BY <2>3, <2>4
<1>5. memory' \in [DOMAIN memory' -> Nat \ {0}]
  <2>1. \A y \in DOMAIN memory' : memory'[y] \in Nat \ {0}
    BY <1>1, <1>2 DEF ABag
  <2> QED BY <1>2, <2>1
<1>6. IsFiniteSet(Copies')
  BY <1>4, FS_RemoveElement DEF ABag
<1> QED BY <1>2, <1>3, <1>4, <1>5, <1>6 DEF ABag
-----------------------------------------------------------------------------
(* How many are on their way.                                              *)

LEMMA WayFacts ==
  ASSUME Queues, ABag, NEW s
  PROVE  /\ IsFiniteSet(InMemory(s)) /\ Cardinality(InMemory(s)) \in Nat
         /\ InMissQ(s) = At(miss_q, s) /\ InMissQ(s)' = At(miss_q', s)
         /\ Cardinality(At(miss_q, s)) \in Nat
         /\ OnTheirWay(s) = Cardinality(At(miss_q, s)) + Cardinality(InMemory(s))
         /\ OnTheirWay(s)' = Cardinality(At(miss_q', s)) + Cardinality(InMemory(s)')
         /\ OnTheirWay(s) \in Nat
<1>1. InMissQ(s) = At(miss_q, s) /\ InMissQ(s)' = At(miss_q', s)
  BY DEF InMissQ, At
<1>2. InMemory(s) \in SUBSET Copies
  BY DEF InMemory
<1>3. IsFiniteSet(InMemory(s)) /\ Cardinality(InMemory(s)) \in Nat
  BY <1>2, FS_Subset, FS_CardinalityType DEF ABag
<1>4. Cardinality(At(miss_q, s)) \in Nat
  BY AtFinite DEF Queues
<1> QED BY <1>1, <1>3, <1>4 DEF OnTheirWay

LEMMA AtGrows ==
  ASSUME Queues, NEW s, NEW q \in Seq(FetchRequest), \A k \in 1 .. Len(q) : q[k].id = s
  PROVE  \A t : Cardinality(At(miss_q \o q, t)) = Cardinality(At(miss_q, t)) + IF t = s THEN Len(q) ELSE 0
<1>1. Len(q) \in Nat
  BY LenProperties
<1>2. \A t : Cardinality(At(q, t)) = IF t = s THEN Len(q) ELSE 0
  BY <1>1, AtOne
<1>3. ASSUME NEW t
      PROVE  Cardinality(At(miss_q \o q, t)) = Cardinality(At(miss_q, t)) + IF t = s THEN Len(q) ELSE 0
  <2>1. miss_q \in Seq(FetchRequest)
    BY DEF Queues
  <2>2. Cardinality(At(miss_q \o q, t)) = Cardinality(At(miss_q, t)) + Cardinality(At(q, t))
    BY <2>1, AtConcat
  <2> QED BY <1>2, <2>2
<1> QED BY <1>3

(* issue_blocks and the request of a large object.                          *)
LEMMA Sends ==
  ASSUME Queues, ABag, NEW s, NEW q \in Seq(FetchRequest), \A k \in 1 .. Len(q) : q[k].id = s,
         miss_q' = miss_q \o q, memory' = memory
  PROVE  /\ ABag'
         /\ \A t : OnTheirWay(t)' = OnTheirWay(t) + IF t = s THEN Len(q) ELSE 0
<1>1. Copies' = Copies /\ \A t : InMemory(t)' = InMemory(t)
  BY DEF Copies, InMemory
<1>2. Len(q) \in Nat
  BY LenProperties
<1>3. \A t : Cardinality(At(miss_q', t)) = Cardinality(At(miss_q, t)) + IF t = s THEN Len(q) ELSE 0
  <2>1. \A t : Cardinality(At(miss_q \o q, t)) = Cardinality(At(miss_q, t)) + IF t = s THEN Len(q) ELSE 0
    BY AtGrows
  <2>2. miss_q' = miss_q \o q
    OBVIOUS
  <2> QED BY <2>1, <2>2
<1>4. ASSUME NEW t PROVE OnTheirWay(t)' = OnTheirWay(t) + IF t = s THEN Len(q) ELSE 0
  <2>1. /\ Cardinality(InMemory(t)) \in Nat /\ Cardinality(At(miss_q, t)) \in Nat
        /\ OnTheirWay(t) = Cardinality(At(miss_q, t)) + Cardinality(InMemory(t))
        /\ OnTheirWay(t)' = Cardinality(At(miss_q', t)) + Cardinality(InMemory(t)')
    BY WayFacts
  <2> QED BY <1>1, <1>2, <1>3, <2>1
<1>5. ABag'
  BY <1>1 DEF ABag
<1> QED BY <1>4, <1>5

(* A request goes from the queue into the memory.                           *)
LEMMA Passes ==
  ASSUME Queues, ABag, PopMissRequest
  PROVE  ABag' /\ \A t : OnTheirWay(t)' = OnTheirWay(t)
<1> DEFINE x == Head(miss_q)
<1>1. miss_q # <<>> /\ miss_q' = Tail(miss_q) /\ memory' = memory (+) SetToBag({x})
  BY DEF PopMissRequest
<1>2. x \in FetchRequest
  BY <1>1, HeadTailProperties DEF Queues
<1>3. ~x.evicted
  BY <1>2 DEF FetchRequest
<1>4. \A t : Cardinality(At(miss_q, t)) = Cardinality(At(miss_q', t)) + IF x.id = t THEN 1 ELSE 0
  BY <1>1, AtTail DEF Queues
<1>5. \A t : Cardinality(At(miss_q', t)) \in Nat
  <2>1. miss_q' \in Seq(FetchRequest)
    BY <1>1, HeadTailProperties DEF Queues
  <2> QED BY <2>1, AtFinite
<1> HIDE DEF x
<1>6. PICK c : c \notin Copies /\ c[1] = x /\ Copies' = Copies \cup {c}
  BY <1>1, CopyAdded
<1>7. ABag'
  BY <1>1, CopyAdded
<1>8. ASSUME NEW t PROVE OnTheirWay(t)' = OnTheirWay(t)
  <2>1. /\ IsFiniteSet(InMemory(t)) /\ Cardinality(InMemory(t)) \in Nat
        /\ OnTheirWay(t) = Cardinality(At(miss_q, t)) + Cardinality(InMemory(t))
        /\ OnTheirWay(t)' = Cardinality(At(miss_q', t)) + Cardinality(InMemory(t)')
    BY WayFacts
  <2>2. InMemory(t)' = IF x.id = t THEN InMemory(t) \cup {c} ELSE InMemory(t)
    BY <1>3, <1>6 DEF InMemory
  <2>3. c \notin InMemory(t)
    BY <1>6 DEF InMemory
  <2>4. Cardinality(InMemory(t)') = Cardinality(InMemory(t)) + IF x.id = t THEN 1 ELSE 0
    <3>1. Cardinality(InMemory(t) \cup {c}) = Cardinality(InMemory(t)) + 1
      BY <2>1, <2>3, FS_AddElement
    <3> QED BY <2>1, <2>2, <3>1
  <2> QED BY <1>4, <1>5, <2>1, <2>4
<1> QED BY <1>7, <1>8

(* An answer leaves the memory, and its slot may send more.                 *)
LEMMA Returns ==
  ASSUME Queues, ABag, NEW x \in DOMAIN memory, ~x.evicted, memory' = memory (-) SetToBag({x}),
         NEW q \in Seq(FetchRequest), \A k \in 1 .. Len(q) : q[k].id = x.id, miss_q' = miss_q \o q
  PROVE  /\ ABag' /\ DOMAIN memory' \subseteq DOMAIN memory
         /\ OnTheirWay(x.id) >= 1
         /\ \A t : OnTheirWay(t)' = OnTheirWay(t) + IF t = x.id THEN Len(q) - 1 ELSE 0
<1>1. PICK c \in Copies : c[1] = x /\ Copies' = Copies \ {c}
  BY CopyTaken
<1>2. ABag' /\ DOMAIN memory' \subseteq DOMAIN memory
  BY CopyTaken
<1>3. Len(q) \in Nat
  BY LenProperties
<1>4. \A t : Cardinality(At(miss_q', t)) = Cardinality(At(miss_q, t)) + IF t = x.id THEN Len(q) ELSE 0
  BY AtGrows
<1>5. ASSUME NEW t
      PROVE  /\ OnTheirWay(t)' = OnTheirWay(t) + IF t = x.id THEN Len(q) - 1 ELSE 0
             /\ t = x.id => OnTheirWay(t) >= 1
  <2>1. /\ IsFiniteSet(InMemory(t)) /\ Cardinality(InMemory(t)) \in Nat /\ Cardinality(At(miss_q, t)) \in Nat
        /\ OnTheirWay(t) = Cardinality(At(miss_q, t)) + Cardinality(InMemory(t))
        /\ OnTheirWay(t)' = Cardinality(At(miss_q', t)) + Cardinality(InMemory(t)')
    BY WayFacts
  <2>2. CASE t = x.id
    <3>1. c \in InMemory(t) /\ InMemory(t)' = InMemory(t) \ {c}
      BY <1>1, <2>2 DEF InMemory
    <3>2. Cardinality(InMemory(t)') = Cardinality(InMemory(t)) - 1
      BY <2>1, <3>1, FS_RemoveElement
    <3>3. Cardinality(InMemory(t)) # 0
      BY <2>1, <3>1, FS_EmptySet
    <3>4. Cardinality(At(miss_q', t)) = Cardinality(At(miss_q, t)) + Len(q)
      BY <1>4, <2>2
    <3>5. OnTheirWay(t)' = OnTheirWay(t) + (Len(q) - 1) /\ OnTheirWay(t) >= 1
      BY <1>3, <2>1, <3>2, <3>3, <3>4
    <3> QED BY <2>2, <3>5
  <2>3. CASE t # x.id
    <3>1. InMemory(t)' = InMemory(t)
      BY <1>1, <2>3 DEF InMemory
    <3> QED BY <1>3, <1>4, <2>1, <2>3, <3>1
  <2> QED BY <2>2, <2>3
<1> QED BY <1>2, <1>5
-----------------------------------------------------------------------------
(* Nothing is written back.                                                *)

LEMMA CleanKept ==
  ASSUME Located(line), Clean, NEW si \in Sets, NEW w \in Way, NEW new, ~new.dirty,
         line' = [line EXCEPT ![si][w] = new]
  PROVE  Clean'
<1>1. line \in [Sets -> [Way -> LineEntry]]
  BY DEF Located
<1>2. /\ \A s \in Sets \ {si} : line'[s] = line[s]
      /\ line'[si][w] = new
      /\ \A v \in Way \ {w} : line'[si][v] = line[si][v]
  BY <1>1
<1> QED BY <1>2 DEF Clean

LEMMA HitClean ==
  ASSUME Located(line), Clean, NEW b \in Nat, NEW w \in Way,
         line' = [line EXCEPT ![SetOf(b)][w].dirty = @ \/ FALSE]
  PROVE  Clean'
<1> DEFINE si == SetOf(b)
           new == [line[si][w] EXCEPT !.dirty = @ \/ FALSE]
<1>1. si \in Sets
  BY SetFacts
<1>2. line[si][w] \in LineEntry /\ ~line[si][w].dirty
  BY <1>1 DEF Located, Clean
<1>3. ~new.dirty
  BY <1>2 DEF LineEntry
<1>4. line' = [line EXCEPT ![si][w] = new]
  OBVIOUS
<1> HIDE DEF si, new
<1> QED BY <1>1, <1>3, <1>4, CleanKept

LEMMA FillClean ==
  ASSUME Located(line), Trees(plru), Clean, wb_q = <<>>, NEW b \in Nat, Fill(b, FALSE)
  PROVE  Clean' /\ wb_q' = <<>>
<1> DEFINE si == SetOf(b)
<1>1. si \in Sets
  BY SetFacts
<1>2. CASE CheckHit(b)
  <2> DEFINE w == CHOOSE v \in Way : Holds(b, v)
  <2>1. line' = [line EXCEPT ![SetOf(b)][w].dirty = @ \/ FALSE] /\ wb_q' = wb_q
    BY <1>2 DEF Fill
  <2>2. w \in Way
    BY <1>2 DEF CheckHit
  <2> HIDE DEF w, si
  <2> QED BY <2>1, <2>2, HitClean
<1>3. CASE ~CheckHit(b)
  <2> DEFINE w == Victim(si)
             new == [valid |-> TRUE, block |-> b, dirty |-> FALSE]
  <2>1. /\ line' = [line EXCEPT ![si][w] = new]
        /\ wb_q' = IF line[si][w].dirty THEN Append(wb_q, WriteBack(line[si][w].block)) ELSE wb_q
    BY <1>3 DEF Fill
  <2>2. w \in Way
    BY <1>1, VictimIsAWay
  <2>3. ~line[si][w].dirty
    BY <1>1, <2>2 DEF Clean
  <2>4. ~new.dirty
    OBVIOUS
  <2> HIDE DEF w, si, new
  <2> QED BY <1>1, <2>1, <2>2, <2>3, <2>4, CleanKept
<1> QED BY <1>2, <1>3

-----------------------------------------------------------------------------
(* The counts of the slots.                                                *)

LEMMA CountParts ==
  /\ CountInv <=> /\ Clean /\ wb_q = <<>>
                  /\ \A s \in Slot : ~pending[s].write
                  /\ \A x \in DOMAIN memory : ~x.evicted
                  /\ ABag
                  /\ \A s \in Slot : Balanced(pending[s], OnTheirWay(s))
                  /\ QueueBound
  /\ CountInv' <=> /\ Clean' /\ wb_q' = <<>>
                   /\ \A s \in Slot : ~pending'[s].write
                   /\ \A x \in DOMAIN memory' : ~x.evicted
                   /\ ABag'
                   /\ \A s \in Slot : Balanced(pending'[s], OnTheirWay(s)')
                   /\ QueueBound'
BY DEF CountInv, NoStores, Clean, Balanced

SameCounts ==
  \A s \in Slot : /\ pending'[s].active = pending[s].active
                  /\ pending'[s].total = pending[s].total
                  /\ pending'[s].issued = pending[s].issued
                  /\ pending'[s].returned = pending[s].returned
                  /\ pending'[s].write = pending[s].write

LEMMA CountKept ==
  ASSUME CountInv, SameCounts, UNCHANGED <<miss_q, memory>>, Clean', wb_q' = <<>>
  PROVE  CountInv'
<1>1. Copies' = Copies
  BY DEF Copies
<1>2. ABag'
  BY <1>1, CountParts DEF ABag
<1>3. \A s \in Slot : OnTheirWay(s)' = OnTheirWay(s)
  BY <1>1 DEF OnTheirWay, InMissQ, InMemory
<1>4. \A s \in Slot : Balanced(pending'[s], OnTheirWay(s)')
  BY <1>3, CountParts DEF SameCounts, Balanced
<1>5. QueueBound'
  BY CountParts DEF QueueBound, LargeSlots, SameCounts
<1>6. \A s \in Slot : ~pending'[s].write
  BY CountParts DEF SameCounts
<1> QED BY <1>2, <1>4, <1>5, <1>6, CountParts

(* What issue_blocks sends names its slot, and fits into the queue.         *)
LEMMA BatchNames ==
  ASSUME NEW s \in Slot, NEW po \in PendingObj, NEW n \in Nat
  PROVE  /\ Batch(s, po, n) \in Seq(FetchRequest) /\ Len(Batch(s, po, n)) = n
         /\ \A k \in 1 .. Len(Batch(s, po, n)) : Batch(s, po, n)[k].id = s
<1>1. Len(Batch(s, po, n)) = n /\ \A k \in 1 .. n : Batch(s, po, n)[k].id = s
  BY DEF Batch, Fetch
<1> QED BY <1>1, BatchFacts

LEMMA RoomInQueue ==
  ASSUME NEW po \in PendingObj, po.issued <= po.total, Len(miss_q) \in Nat, Len(miss_q) <= MissQDepth
  PROVE  Len(miss_q) + ToIssue(po) <= MissQDepth
BY CacheAssumption DEF ToIssue, Available, Unissued, PendingObj

LEMMA IssuedFields ==
  ASSUME NEW po \in PendingObj, NEW n \in Nat, NEW new, new = [po EXCEPT !.issued = @ + n]
  PROVE  /\ new.active = po.active /\ new.total = po.total /\ new.returned = po.returned
         /\ new.write = po.write /\ new.issued = po.issued + n
BY DEF PendingObj
(* More blocks of an object are sent.                                       *)
LEMMA BalanceIssued ==
  ASSUME NEW po \in PendingObj, po.active, NEW w \in Nat, Balanced(po, w),
         NEW n \in Nat, po.issued + n <= po.total,
         NEW new, new.active = po.active, new.total = po.total, new.returned = po.returned,
         new.issued = po.issued + n
  PROVE  Balanced(new, w + n)
<1>1. po.total \in Nat /\ po.issued \in Nat /\ po.returned \in Nat /\ LargeBlocks \in Nat
  BY CacheAssumption DEF PendingObj
<1> QED BY <1>1 DEF Balanced

(* A block comes back: it is the last one, and then the object has no other *)
(* on its way and sends none, or more are sent.                             *)
LEMMA BalanceReturned ==
  ASSUME NEW po \in PendingObj, po.active, po.issued <= po.total, NEW w \in Nat, Balanced(po, w), w >= 1,
         NEW n \in Nat, po.issued + n <= po.total,
         NEW new, new.active = po.active, new.total = po.total, new.returned = po.returned + 1,
         new.issued = po.issued + n
  PROVE  /\ new.returned >= new.total => n = 0 /\ w = 1
         /\ new.returned < new.total => Balanced(new, w + n - 1)
<1>1. po.total \in Nat /\ po.issued \in Nat /\ po.returned \in Nat /\ LargeBlocks \in Nat
  BY CacheAssumption DEF PendingObj
<1> QED BY <1>1 DEF Balanced

LEMMA IssueMoreCount ==
  ASSUME Pool, Queues, CountInv, IssueMore
  PROVE  CountInv'
<1>1. PICK s \in Slot : s = active_slots[count + 1] /\ pending[s] \in PendingObj
  <2>1. count + 1 \in 1 .. Len(active_slots)
    BY LenProperties DEF IssueMore, Queues, Pool
  <2>2. active_slots \in Seq(Slot)
    BY DEF Pool
  <2>3. active_slots[count + 1] \in Slot
    BY <2>1, <2>2, ElementOfSeq
  <2> QED BY <2>3 DEF Pool
<1> DEFINE po == pending[s]
           n == ToIssue(po)
<1>2. UNCHANGED <<tagVars, wb_q, memory>>
  BY DEF IssueMore, edgeVars
<1>3. Clean' /\ wb_q' = <<>>
  BY <1>2, CountParts DEF Clean, tagVars
<1>4. \/ po.active /\ IssueBlocks(s, po)
      \/ UNCHANGED <<miss_q, pending>>
  BY <1>1 DEF IssueMore
<1>5. CASE UNCHANGED <<miss_q, pending>>
  BY <1>2, <1>3, <1>5, CountKept DEF SameCounts
<1>6. CASE po.active /\ IssueBlocks(s, po)
  <2> DEFINE new == [po EXCEPT !.issued = @ + n]
  <2>1. miss_q' = miss_q \o Batch(s, po, n) /\ pending' = [pending EXCEPT ![s] = new]
    BY <1>6 DEF IssueBlocks
  <2>2. Len(miss_q) \in Nat /\ po.issued <= po.total
    BY <1>1, LenProperties DEF Queues, Pool
  <2>3. n \in Nat /\ po.issued + n <= po.total
    BY <1>1, <2>2, ToIssueFacts
  <2>4. Len(miss_q) <= MissQDepth => Len(miss_q) + n <= MissQDepth
    BY <1>1, <2>2, RoomInQueue
  <2> HIDE DEF n
  <2>5. /\ new.active = po.active /\ new.total = po.total /\ new.returned = po.returned
        /\ new.write = po.write /\ new.issued = po.issued + n
    BY <1>1, <2>3, IssuedFields
  <2>6. \A t \in Slot : pending'[t] = IF t = s THEN new ELSE pending[t]
    BY <2>1 DEF Pool
  <2> HIDE DEF new
  <2>7. /\ Batch(s, po, n) \in Seq(FetchRequest) /\ Len(Batch(s, po, n)) = n
        /\ \A k \in 1 .. Len(Batch(s, po, n)) : Batch(s, po, n)[k].id = s
    BY <1>1, <2>3, BatchNames
  <2>8. ABag' /\ \A t : OnTheirWay(t)' = OnTheirWay(t) + IF t = s THEN n ELSE 0
    <3>1. memory' = memory /\ ABag
      BY <1>2, CountParts
    <3> HIDE DEF po
    <3> QED BY <2>1, <2>7, <3>1, Sends
  <2>9. \A t \in Slot : OnTheirWay(t) \in Nat /\ Balanced(pending[t], OnTheirWay(t))
    BY WayFacts, CountParts
  <2>10. Balanced(new, OnTheirWay(s) + n)
    BY <1>1, <1>6, <2>3, <2>5, <2>9, BalanceIssued
  <2>11. \A t \in Slot : Balanced(pending'[t], OnTheirWay(t)')
    <3>1. \A t \in Slot \ {s} : OnTheirWay(t)' = OnTheirWay(t)
      BY <2>8, <2>9
    <3>2. OnTheirWay(s)' = OnTheirWay(s) + n
      BY <2>8
    <3> QED BY <2>6, <2>9, <2>10, <3>1, <3>2
  <2>12. QueueBound'
    <3>1. LargeSlots' = LargeSlots
      BY <1>1, <2>5, <2>6 DEF LargeSlots
    <3>2. Len(miss_q') = Len(miss_q) + n
      BY <2>1, <2>7, ConcatProperties DEF Queues
    <3> QED BY <2>4, <3>1, <3>2, CountParts DEF QueueBound
  <2>13. \A t \in Slot : ~pending'[t].write
    BY <1>1, <2>5, <2>6, CountParts
  <2> QED BY <1>2, <1>3, <2>8, <2>11, <2>12, <2>13, CountParts
<1> QED BY <1>4, <1>5, <1>6

LEMMA AcceptHitCount ==
  ASSUME Writes = {}, Pool, Queues, Located(line), CountInv, AcceptHit
  PROVE  CountInv'
<1> DEFINE r == Head(in_q)
           w == CHOOSE v \in Way : Holds(Base[r], v)
<1>1. Base[r] \in Nat
  <2>1. in_q \in Seq(Request) /\ in_q # <<>>
    BY DEF AcceptHit, Accepting, Queues
  <2> QED BY <2>1, HeadTailProperties, CacheAssumption
<1>2. /\ CheckHit(Base[r])
      /\ line' = [line EXCEPT ![SetOf(Base[r])][w].dirty = @ \/ r \in Writes]
      /\ UNCHANGED <<pending, miss_q, wb_q, memory>>
  BY DEF AcceptHit, slotVars, edgeVars
<1>3. w \in Way
  BY <1>2 DEF CheckHit
<1>4. line' = [line EXCEPT ![SetOf(Base[r])][w].dirty = @ \/ FALSE]
  <2>1. (r \in Writes) = FALSE
    OBVIOUS
  <2> QED BY <1>2, <2>1
<1> HIDE DEF r, w
<1>5. Clean' /\ wb_q' = <<>>
  BY <1>1, <1>2, <1>3, <1>4, HitClean, CountParts
<1> QED BY <1>2, <1>5, CountKept DEF SameCounts
(* A miss that joins a fetch changes no count; one that starts a fetch      *)
(* finds nothing on its way to the slot it takes.                           *)
LEMMA JoinCount ==
  ASSUME Pool, CountInv, NEW r \in Request, InFlight(r),
         pending' = [pending EXCEPT ![id_to_slot[Id[r]]].waiting = Append(@, r)]
  PROVE  SameCounts
<1>1. PICK s \in Slot : s = id_to_slot[Id[r]] /\ pending[s] \in PendingObj
  BY DEF InFlight, Pool
<1> DEFINE new == [pending[s] EXCEPT !.waiting = Append(@, r)]
<1>2. pending' = [pending EXCEPT ![s] = new]
  BY <1>1
<1>3. /\ new.active = pending[s].active /\ new.total = pending[s].total /\ new.issued = pending[s].issued
      /\ new.returned = pending[s].returned /\ new.write = pending[s].write
  BY <1>1 DEF PendingObj
<1> HIDE DEF new
<1>4. \A t \in Slot : pending'[t] = IF t = s THEN new ELSE pending[t]
  BY <1>2 DEF Pool
<1> QED BY <1>3, <1>4 DEF SameCounts

(* What a started fetch sends and counts.                                   *)
LEMMA StartSends ==
  ASSUME Writes = {}, Pool, Queues, NEW r \in Request, free_slots # <<>>, StartFetch(r),
         NEW s \in Slot, s = free_slots[Len(free_slots)]
  PROVE  \E q \in Seq(FetchRequest) :
           /\ miss_q' = miss_q \o q /\ \A k \in 1 .. Len(q) : q[k].id = s
           /\ pending'[s].total = Blocks[r] /\ pending'[s].returned = 0 /\ ~pending'[s].write
           /\ Blocks[r] >= LargeBlocks => Len(q) = 1 /\ pending'[s].issued = Blocks[r]
           /\ ~(Blocks[r] >= LargeBlocks) =>
                /\ pending'[s].issued = Len(q)
                /\ Len(miss_q) <= MissQDepth => Len(miss_q') <= MissQDepth
<1> DEFINE po == NewFetch(r)
<1>1. /\ po \in PendingObj /\ po.issued = 0 /\ po.total = Blocks[r] /\ po.returned = 0 /\ ~po.write
      /\ Blocks[r] \in Nat
  BY NewFetchFacts DEF NewFetch
<1>2. Len(miss_q) \in Nat /\ pending \in [Slot -> PendingObj] /\ miss_q \in Seq(FetchRequest)
  BY LenProperties DEF Queues, Pool
<1> HIDE DEF po
<1>3. ASSUME NEW n, pending' = [pending EXCEPT ![s] = [po EXCEPT !.issued = n]]
      PROVE  /\ pending'[s].total = po.total /\ pending'[s].returned = po.returned
             /\ pending'[s].write = po.write /\ pending'[s].issued = n
  <2> DEFINE new == [po EXCEPT !.issued = n]
  <2>1. new.total = po.total /\ new.returned = po.returned /\ new.write = po.write /\ new.issued = n
    BY <1>1 DEF PendingObj
  <2> HIDE DEF new
  <2>2. pending'[s] = new
    BY <1>2, <1>3 DEF new
  <2> QED BY <2>1, <2>2
<1>4. CASE Blocks[r] >= LargeBlocks
  <2> DEFINE f == Fetch(s, Base[r], r \in Writes)
             q == <<f>>
  <2>1. miss_q' = Append(miss_q, f) /\ pending' = [pending EXCEPT ![s] = [po EXCEPT !.issued = Blocks[r]]]
    BY <1>4 DEF StartFetch, po
  <2>2. f \in FetchRequest /\ f.id = s
    BY CacheAssumption DEF Fetch, FetchRequest
  <2> HIDE DEF f
  <2>3. q \in Seq(FetchRequest) /\ Len(q) = 1 /\ q[1] = f
    BY <2>2
  <2>4. miss_q' = miss_q \o q /\ \A k \in 1 .. Len(q) : q[k].id = s
    BY <1>2, <2>1, <2>2, <2>3
  <2> HIDE DEF q
  <2> QED BY <1>1, <1>3, <1>4, <2>1, <2>2, <2>3, <2>4
<1>5. CASE ~(Blocks[r] >= LargeBlocks)
  <2> DEFINE n == ToIssue(po)
             q == Batch(s, po, n)
  <2>1. miss_q' = miss_q \o q /\ pending' = [pending EXCEPT ![s] = [po EXCEPT !.issued = po.issued + n]]
    BY <1>5 DEF StartFetch, IssueBlocks, po
  <2>2. n \in Nat /\ po.issued + n = n
    BY <1>1, <1>2, ToIssueFacts
  <2>3. Len(miss_q) <= MissQDepth => Len(miss_q) + n <= MissQDepth
    BY <1>1, <1>2, RoomInQueue
  <2> HIDE DEF n
  <2>4. q \in Seq(FetchRequest) /\ Len(q) = n /\ \A k \in 1 .. Len(q) : q[k].id = s
    <3>1. po \in PendingObj /\ n \in Nat /\ s \in Slot
      BY <1>1, <2>2
    <3>2. Batch(s, po, n) \in Seq(FetchRequest)
      BY <3>1, BatchNames
    <3>3. Len(Batch(s, po, n)) = n
      BY <3>1, BatchNames
    <3>4. \A k \in 1 .. Len(Batch(s, po, n)) : Batch(s, po, n)[k].id = s
      BY <3>1, BatchNames
    <3> QED BY <3>2, <3>3, <3>4
  <2>5. Len(miss_q') = Len(miss_q) + n
    BY <1>2, <2>1, <2>4, ConcatProperties
  <2> HIDE DEF q
  <2> QED BY <1>1, <1>3, <1>5, <2>1, <2>2, <2>3, <2>4, <2>5
<1> QED BY <1>4, <1>5

LEMMA StartCount ==
  ASSUME Writes = {}, Pool, Queues, CountInv, NEW r \in Request, free_slots # <<>>, StartFetch(r),
         UNCHANGED <<tagVars, wb_q, memory>>
  PROVE  CountInv'
<1>1. PICK s \in Slot : s = free_slots[Len(free_slots)]
  BY PopBack DEF Pool
<1>2. /\ ~pending[s].active /\ pending'[s].active
      /\ \A t \in Slot \ {s} : pending'[t] = pending[t]
  BY <1>1, StartWaiting
<1>3. PICK q \in Seq(FetchRequest) :
           /\ miss_q' = miss_q \o q /\ \A k \in 1 .. Len(q) : q[k].id = s
           /\ pending'[s].total = Blocks[r] /\ pending'[s].returned = 0 /\ ~pending'[s].write
           /\ Blocks[r] >= LargeBlocks => Len(q) = 1 /\ pending'[s].issued = Blocks[r]
           /\ ~(Blocks[r] >= LargeBlocks) =>
                /\ pending'[s].issued = Len(q)
                /\ Len(miss_q) <= MissQDepth => Len(miss_q') <= MissQDepth
  BY <1>1, StartSends
<1>4. ABag' /\ \A t : OnTheirWay(t)' = OnTheirWay(t) + IF t = s THEN Len(q) ELSE 0
  BY <1>3, Sends, CountParts
<1>5. \A t \in Slot : OnTheirWay(t) \in Nat /\ Balanced(pending[t], OnTheirWay(t))
  BY WayFacts, CountParts
<1>6. Len(q) \in Nat /\ Blocks[r] \in Nat \ {0} /\ LargeBlocks \in Nat
  BY LenProperties, CacheAssumption
<1>7. \A t \in Slot : Balanced(pending'[t], OnTheirWay(t)')
  <2>1. \A t \in Slot \ {s} : OnTheirWay(t)' = OnTheirWay(t)
    BY <1>4, <1>5
  <2>2. OnTheirWay(s)' = Len(q)
    <3>1. OnTheirWay(s) = 0
      BY <1>2, <1>5 DEF Balanced
    <3> QED BY <1>4, <1>6, <3>1
  <2>3. Balanced(pending'[s], Len(q))
    BY <1>2, <1>3, <1>6 DEF Balanced
  <2> QED BY <1>2, <1>5, <2>1, <2>2, <2>3
<1>8. QueueBound'
  <2>1. CASE Blocks[r] >= LargeBlocks
    <3>1. s \in LargeSlots'
      BY <1>3, <2>1 DEF LargeSlots
    <3> QED BY <3>1 DEF QueueBound
  <2>2. CASE ~(Blocks[r] >= LargeBlocks)
    <3>1. LargeSlots' = LargeSlots
      <4>1. pending[s].total = 0 /\ ~(pending'[s].total >= LargeBlocks)
        BY <1>2, <1>3, <1>5, <2>2 DEF Balanced
      <4>2. ~(pending[s].total >= LargeBlocks)
        BY <1>6, <2>2, <4>1
      <4> QED BY <1>2, <4>1, <4>2 DEF LargeSlots
    <3> QED BY <1>3, <2>2, <3>1, CountParts DEF QueueBound
  <2> QED BY <2>1, <2>2
<1>9. Clean' /\ wb_q' = <<>> /\ \A x \in DOMAIN memory' : ~x.evicted
  BY CountParts DEF Clean, tagVars
<1>10. \A t \in Slot : ~pending'[t].write
  BY <1>2, <1>3, CountParts
<1> QED BY <1>4, <1>7, <1>8, <1>9, <1>10, CountParts

LEMMA AcceptMissCount ==
  ASSUME Writes = {}, Pool, Queues, CountInv, AcceptMiss
  PROVE  CountInv'
<1> DEFINE r == Head(in_q)
<1>1. UNCHANGED <<tagVars, wb_q, memory>>
  BY DEF AcceptMiss, edgeVars
<1>2. r \in Request
  BY HeadTailProperties DEF AcceptMiss, Accepting, Queues
<1>3. Clean' /\ wb_q' = <<>>
  BY <1>1, CountParts DEF Clean, tagVars
<1>4. \/ /\ InFlight(r) /\ miss_q' = miss_q
         /\ pending' = [pending EXCEPT ![id_to_slot[Id[r]]].waiting = Append(@, r)]
      \/ free_slots # <<>> /\ StartFetch(r)
      \/ UNCHANGED <<pending, miss_q>>
  BY DEF AcceptMiss, slotVars
<1> HIDE DEF r
<1>5. CASE /\ InFlight(r) /\ miss_q' = miss_q
           /\ pending' = [pending EXCEPT ![id_to_slot[Id[r]]].waiting = Append(@, r)]
  BY <1>1, <1>2, <1>3, <1>5, JoinCount, CountKept
<1>6. CASE free_slots # <<>> /\ StartFetch(r)
  BY <1>1, <1>2, <1>6, StartCount
<1>7. CASE UNCHANGED <<pending, miss_q>>
  BY <1>1, <1>3, <1>7, CountKept DEF SameCounts
<1> QED BY <1>4, <1>5, <1>6, <1>7
(* When nothing is on its way to any slot, the queue is empty.              *)
LEMMA NothingQueued ==
  ASSUME miss_q' \in Seq(FetchRequest), ABag', \A t \in Slot : OnTheirWay(t)' = 0
  PROVE  Len(miss_q') = 0
<1>1. Len(miss_q') \in Nat /\ \A k \in 1 .. Len(miss_q') : miss_q'[k] \in FetchRequest
  BY LenProperties, ElementOfSeq
<1>2. ASSUME 1 \in 1 .. Len(miss_q') PROVE FALSE
  <2>1. PICK t \in Slot : miss_q'[1].id = t
    BY <1>1, <1>2 DEF FetchRequest
  <2>2. 1 \in At(miss_q', t)
    BY <1>2, <2>1 DEF At
  <2>3. IsFiniteSet(At(miss_q', t)) /\ Cardinality(At(miss_q', t)) \in Nat
    BY AtFinite
  <2>4. Cardinality(At(miss_q', t)) # 0
    BY <2>2, <2>3, FS_EmptySet
  <2>5. InMemory(t)' \in SUBSET Copies'
    BY DEF InMemory
  <2>6. Cardinality(InMemory(t)') \in Nat
    BY <2>5, FS_Subset, FS_CardinalityType DEF ABag
  <2>7. OnTheirWay(t)' = Cardinality(At(miss_q', t)) + Cardinality(InMemory(t)')
    BY DEF OnTheirWay, InMissQ, At
  <2> QED BY <2>3, <2>4, <2>6, <2>7
<1> QED BY <1>1, <1>2

(* An answer for an object, which sends more of its blocks or is complete.  *)
LEMMA ReturnCount ==
  ASSUME Pool, Queues, CountInv, NEW x \in DOMAIN memory, x.id \in ActiveSlots,
         memory' = memory (-) SetToBag({x}), Clean', wb_q' = <<>>,
         Return(x.id, [pending[x.id] EXCEPT !.returned = @ + 1])
  PROVE  CountInv'
<1> DEFINE s == x.id
           old == pending[s]
           po == [old EXCEPT !.returned = @ + 1]
           n  == IF Len(miss_q) < MissQDepth THEN ToIssue(po) ELSE 0
           new == [po EXCEPT !.issued = @ + n]
           q == Batch(s, po, n)
<1>1. s \in Slot /\ old \in PendingObj /\ old.active /\ old.issued <= old.total
  BY DEF ActiveSlots, Pool
<1>2. /\ po \in PendingObj /\ po.active = old.active /\ po.issued = old.issued /\ po.total = old.total
      /\ po.returned = old.returned + 1 /\ po.write = old.write
  <2>1. old.returned + 1 \in Nat
    BY <1>1 DEF PendingObj
  <2> HIDE DEF old
  <2>2. po = [old EXCEPT !.returned = old.returned + 1]
    OBVIOUS
  <2> QED BY <1>1, <2>1, <2>2 DEF PendingObj
<1>3. miss_q' = miss_q \o q
  BY DEF Return
<1>4. \/ Complete(po) /\ FreePendingSlot(s)
      \/ ~Complete(po) /\ pending' = [pending EXCEPT ![s] = new]
  BY DEF Return
<1> HIDE DEF po
<1>5. n \in Nat /\ po.issued + n <= po.total /\ Len(miss_q) \in Nat
      /\ (Len(miss_q) <= MissQDepth => Len(miss_q) + n <= MissQDepth)
  <2>1. Len(miss_q) \in Nat
    BY LenProperties DEF Queues
  <2>2. ToIssue(po) \in Nat /\ po.issued + ToIssue(po) <= po.total
    BY <1>1, <1>2, <2>1, ToIssueFacts
  <2>3. Len(miss_q) <= MissQDepth => Len(miss_q) + ToIssue(po) <= MissQDepth
    BY <1>1, <1>2, <2>1, RoomInQueue
  <2>4. po.issued + 0 <= po.total
    BY <1>1, <1>2 DEF PendingObj
  <2> QED BY <2>1, <2>2, <2>3, <2>4
<1> HIDE DEF n
<1>6. /\ new.active = po.active /\ new.total = po.total /\ new.returned = po.returned
      /\ new.write = po.write /\ new.issued = po.issued + n
  BY <1>2, <1>5, IssuedFields
<1> HIDE DEF new
<1>7. q \in Seq(FetchRequest) /\ Len(q) = n /\ \A k \in 1 .. Len(q) : q[k].id = s
  <2>1. Batch(s, po, n) \in Seq(FetchRequest)
    BY <1>1, <1>2, <1>5, BatchNames
  <2>2. Len(Batch(s, po, n)) = n
    BY <1>1, <1>2, <1>5, BatchNames
  <2>3. \A k \in 1 .. Len(Batch(s, po, n)) : Batch(s, po, n)[k].id = s
    BY <1>1, <1>2, <1>5, BatchNames
  <2> QED BY <2>1, <2>2, <2>3
<1> HIDE DEF q
<1>8. /\ ABag' /\ DOMAIN memory' \subseteq DOMAIN memory
      /\ OnTheirWay(s) >= 1
      /\ \A t : OnTheirWay(t)' = OnTheirWay(t) + IF t = s THEN n - 1 ELSE 0
  <2>1. ~x.evicted /\ ABag
    BY CountParts
  <2> QED BY <1>3, <1>7, <2>1, Returns
<1>9. \A t \in Slot : OnTheirWay(t) \in Nat /\ Balanced(pending[t], OnTheirWay(t))
  BY WayFacts, CountParts
<1>10. /\ \A t \in Slot \ {s} : OnTheirWay(t)' = OnTheirWay(t)
       /\ OnTheirWay(s)' = OnTheirWay(s) + n - 1
  <2>1. OnTheirWay(s) \in Nat
    BY <1>1, <1>9
  <2> QED BY <1>5, <1>8, <1>9, <2>1
<1>11. /\ new.returned >= new.total => n = 0 /\ OnTheirWay(s) = 1
       /\ new.returned < new.total => Balanced(new, OnTheirWay(s) + n - 1)
  <2>1. /\ OnTheirWay(s) \in Nat /\ Balanced(old, OnTheirWay(s))
        /\ new.active = old.active /\ new.total = old.total /\ new.returned = old.returned + 1
        /\ new.issued = old.issued + n /\ old.issued + n <= old.total
    BY <1>1, <1>2, <1>5, <1>6, <1>9
  <2> HIDE DEF old
  <2> QED BY <1>1, <1>5, <1>8, <2>1, BalanceReturned
<1>12. Len(miss_q') = Len(miss_q) + n /\ miss_q' \in Seq(FetchRequest)
  BY <1>3, <1>7, ConcatProperties DEF Queues
<1>13. \A y \in DOMAIN memory' : ~y.evicted
  BY <1>8, CountParts
<1>14. CASE ~Complete(po) /\ pending' = [pending EXCEPT ![s] = new]
  <2>1. \A t \in Slot : pending'[t] = IF t = s THEN new ELSE pending[t]
    BY <1>14 DEF Pool
  <2>2. new.returned < new.total
    <3>1. po.returned \in Nat /\ po.total \in Nat
      BY <1>2 DEF PendingObj
    <3> QED BY <1>6, <1>14, <3>1 DEF Complete
  <2>3. \A t \in Slot : Balanced(pending'[t], OnTheirWay(t)')
    BY <1>9, <1>10, <1>11, <2>1, <2>2
  <2>4. LargeSlots' = LargeSlots
    BY <1>1, <1>2, <1>6, <2>1 DEF LargeSlots
  <2>5. QueueBound'
    BY <1>5, <1>12, <2>4, CountParts DEF QueueBound
  <2>6. \A t \in Slot : ~pending'[t].write
    BY <1>1, <1>2, <1>6, <2>1, CountParts
  <2> QED BY <1>8, <1>13, <2>3, <2>5, <2>6, CountParts
<1>15. CASE Complete(po) /\ FreePendingSlot(s)
  <2> DEFINE last == active_slots[Len(active_slots)]
  <2>1. last \in Slot
    BY ActivePlace DEF ActiveSlots
  <2>2. pending' = Reset(s)
    BY <1>15 DEF FreePendingSlot
  <2>3. /\ ~pending'[s].active /\ pending'[s].total = 0 /\ pending'[s].issued = 0
        /\ pending'[s].returned = 0 /\ ~pending'[s].write
        /\ \A t \in Slot \ {s} :
             /\ pending'[t].active = pending[t].active
             /\ pending'[t].total = pending[t].total /\ pending'[t].issued = pending[t].issued
             /\ pending'[t].returned = pending[t].returned /\ pending'[t].write = pending[t].write
    BY <2>1, <2>2, ResetFacts
  <2>4. n = 0 /\ OnTheirWay(s) = 1
    <3>1. new.returned >= new.total
      BY <1>6, <1>15 DEF Complete
    <3> QED BY <1>11, <3>1
  <2>5. OnTheirWay(s)' = 0
    BY <1>10, <2>4
  <2>6. \A t \in Slot : Balanced(pending'[t], OnTheirWay(t)')
    <3>1. Balanced(pending'[s], OnTheirWay(s)')
      BY <2>3, <2>5 DEF Balanced
    <3>2. ASSUME NEW t \in Slot \ {s} PROVE Balanced(pending'[t], OnTheirWay(t)')
      <4>1. OnTheirWay(t)' = OnTheirWay(t) /\ Balanced(pending[t], OnTheirWay(t))
        BY <1>9, <1>10
      <4> QED BY <2>3, <4>1 DEF Balanced
    <3> QED BY <3>1, <3>2
  <2>7. QueueBound'
    <3>1. SUFFICES ASSUME LargeSlots' = {} PROVE Len(miss_q') <= MissQDepth
      BY DEF QueueBound
    <3>2. CASE s \notin LargeSlots
      <4>1. LargeSlots = {}
        <5>1. \A t \in Slot \ {s} : t \notin LargeSlots
          BY <2>3, <3>1 DEF LargeSlots
        <5> QED BY <3>2, <5>1 DEF LargeSlots
      <4> QED BY <1>5, <1>12, <2>4, <4>1, CountParts DEF QueueBound
    <3>3. CASE s \in LargeSlots
      <4>1. LargeBlocks = 1
        <5>1. ~(0 >= LargeBlocks)
          BY <1>1, <2>3, <3>1 DEF LargeSlots
        <5>2. old.total >= LargeBlocks /\ old.returned + 1 = 1 /\ old.total <= 1
          <6>1. Balanced(old, 1) /\ old.total >= LargeBlocks
            BY <1>1, <1>9, <2>4, <3>3 DEF LargeSlots
          <6>2. old.returned + 1 >= old.total
            BY <1>2, <1>15 DEF Complete
          <6> QED BY <1>1, <6>1, <6>2 DEF Balanced, PendingObj
        <5>3. LargeBlocks \in Nat /\ old.total \in Nat
          BY <1>1, CacheAssumption DEF PendingObj
        <5> HIDE DEF old
        <5> QED BY <5>1, <5>2, <5>3
      <4>2. \A t \in Slot : ~pending'[t].active
        <5>1. SUFFICES ASSUME NEW t \in Slot \ {s}, pending[t].active PROVE FALSE
          BY <2>3
        <5>2. pending[t] \in PendingObj /\ Balanced(pending[t], OnTheirWay(t))
          BY <1>9 DEF Pool
        <5>3. pending[t].total >= 1
          BY <5>1, <5>2 DEF Balanced, PendingObj
        <5> QED BY <2>3, <3>1, <4>1, <5>3 DEF LargeSlots
      <4>3. \A t \in Slot : OnTheirWay(t)' = 0
        BY <2>6, <4>2 DEF Balanced
      <4>4. Len(miss_q') = 0
        BY <1>8, <1>12, <4>3, NothingQueued
      <4> QED BY <4>4, CacheAssumption
    <3> QED BY <3>2, <3>3
  <2>8. \A t \in Slot : ~pending'[t].write
    BY <2>3, CountParts
  <2> QED BY <1>8, <1>13, <2>6, <2>7, <2>8, CountParts
<1> QED BY <1>4, <1>14, <1>15
(* An answer is on its way before it comes, so its slot is not free.        *)
LEMMA ResponseCount ==
  ASSUME Pool, Queues, Located(line), Trees(plru), \A y \in DOMAIN memory : y.block \in Nat,
         CountInv, NEW x \in BagToSet(memory), PushMemoryResponse(x)
  PROVE  CountInv'
<1>1. /\ x \in DOMAIN memory /\ x.id \in Slot /\ x.block \in Nat /\ ~x.evicted
      /\ memory' = memory (-) SetToBag({x})
  BY CountParts DEF PushMemoryResponse, Queues, BagToSet
<1>2. pending[x.id].active
  <2>1. OnTheirWay(x.id) >= 1
    <3>1. <<x, 1>> \in InMemory(x.id)
      <4>1. <<x, 1>> \in {x} \X (1 .. memory[x])
        <5>1. memory[x] \in Nat \ {0}
          BY <1>1, CountParts DEF ABag
        <5> QED BY <5>1
      <4> QED BY <1>1, <4>1 DEF InMemory, Copies
    <3>2. /\ IsFiniteSet(InMemory(x.id)) /\ Cardinality(InMemory(x.id)) \in Nat
          /\ Cardinality(At(miss_q, x.id)) \in Nat
          /\ OnTheirWay(x.id) = Cardinality(At(miss_q, x.id)) + Cardinality(InMemory(x.id))
      BY WayFacts, CountParts
    <3>3. Cardinality(InMemory(x.id)) # 0
      BY <3>1, <3>2, FS_EmptySet
    <3> QED BY <3>2, <3>3
  <2>2. Balanced(pending[x.id], OnTheirWay(x.id))
    BY <1>1, CountParts
  <2> QED BY <2>1, <2>2 DEF Balanced
<1>3. Fill(x.block, FALSE) /\ Return(x.id, [pending[x.id] EXCEPT !.returned = @ + 1])
  <2>1. pending[x.id].write = FALSE
    <3>1. pending[x.id] \in PendingObj
      BY <1>1 DEF Pool
    <3> QED BY <1>1, <3>1, CountParts DEF PendingObj
  <2>2. Fill(x.block, pending[x.id].write)
    BY <1>2 DEF PushMemoryResponse
  <2>3. Return(x.id, [pending[x.id] EXCEPT !.returned = @ + 1])
    BY <1>2 DEF PushMemoryResponse
  <2> QED BY <2>1, <2>2, <2>3
<1>4. Clean' /\ wb_q' = <<>>
  BY <1>1, <1>3, FillClean, CountParts
<1>5. x.id \in ActiveSlots
  BY <1>1, <1>2 DEF ActiveSlots
<1> QED BY <1>1, <1>3, <1>4, <1>5, ReturnCount

LEMMA PopMissRequestCount ==
  ASSUME Pool, Queues, CountInv, PopMissRequest
  PROVE  CountInv'
<1>1. /\ miss_q # <<>> /\ miss_q' = Tail(miss_q) /\ UNCHANGED <<tagVars, pending, wb_q>>
      /\ memory' = memory (+) SetToBag({Head(miss_q)})
  BY DEF PopMissRequest, slotVars
<1>2. ABag' /\ \A t : OnTheirWay(t)' = OnTheirWay(t)
  BY Passes, CountParts
<1>3. \A t \in Slot : Balanced(pending'[t], OnTheirWay(t)')
  BY <1>1, <1>2, CountParts
<1>4. QueueBound'
  <2>1. Len(miss_q) \in Nat /\ Len(miss_q') = Len(miss_q) - 1
    BY <1>1, LenProperties, HeadTailProperties DEF Queues
  <2>2. LargeSlots' = LargeSlots
    BY <1>1 DEF LargeSlots
  <2> QED BY <2>1, <2>2, CountParts, CacheAssumption DEF QueueBound
<1>5. \A x \in DOMAIN memory' : ~x.evicted
  <2>1. DOMAIN memory' = DOMAIN memory \cup {Head(miss_q)}
    BY <1>1 DEF (+), SetToBag
  <2>2. Head(miss_q) \in FetchRequest
    BY <1>1, HeadTailProperties DEF Queues
  <2>3. ~Head(miss_q).evicted
    BY <2>2 DEF FetchRequest
  <2> QED BY <2>1, <2>3, CountParts
<1>6. Clean' /\ wb_q' = <<>> /\ \A t \in Slot : ~pending'[t].write
  BY <1>1, CountParts DEF Clean, tagVars
<1> QED BY <1>2, <1>3, <1>4, <1>5, <1>6, CountParts

LEMMA InitCount == Init => CountInv
<1> SUFFICES ASSUME Init PROVE CountInv
  OBVIOUS
<1>1. \A s \in Slot : pending[s] = NoFetch
  BY DEF Init
<1>2. /\ ~NoFetch.active /\ NoFetch.total = 0 /\ NoFetch.issued = 0 /\ NoFetch.returned = 0
      /\ ~NoFetch.write
  BY DEF NoFetch
<1>3. DOMAIN memory = {} /\ miss_q = <<>> /\ wb_q = <<>>
  BY DEF Init, EmptyBag, SetToBag
<1>4. Copies = {}
  BY <1>3 DEF Copies
<1>5. ABag
  <2>1. memory \in [DOMAIN memory -> Nat \ {0}]
    <3>1. memory = [e \in {} |-> 1]
      BY DEF Init, EmptyBag, SetToBag
    <3> QED BY <3>1
  <2> QED BY <1>4, <2>1, FS_EmptySet DEF ABag
<1>6. ASSUME NEW s \in Slot PROVE OnTheirWay(s) = 0
  <2>1. InMissQ(s) = {} /\ InMemory(s) = {}
    BY <1>3, <1>4 DEF InMissQ, InMemory
  <2> QED BY <2>1, FS_EmptySet DEF OnTheirWay
<1>7. \A s \in Slot : Balanced(pending[s], OnTheirWay(s))
  BY <1>1, <1>2, <1>6 DEF Balanced
<1>8. Clean
  <2>1. \A si \in Sets : \A w \in Way : line[si][w] = NoLine
    BY DEF Init, Sets
  <2> QED BY <2>1 DEF Clean, NoLine
<1>9. QueueBound
  BY <1>3, CacheAssumption DEF QueueBound
<1> QED BY <1>1, <1>2, <1>3, <1>5, <1>7, <1>8, <1>9, CountParts

LEMMA CountNext ==
  ASSUME Writes = {}
  PROVE  CacheInv /\ TagInv /\ CountInv /\ [Next]_vars => CountInv'
<1> SUFFICES ASSUME CacheInv, TagInv, CountInv, [Next]_vars PROVE CountInv'
  OBVIOUS
<1>0. Pool /\ Queues /\ Located(line) /\ Trees(plru) /\ \A y \in DOMAIN memory : y.block \in Nat
  BY CacheInvParts DEF TagInv
<1>1. CASE UNCHANGED <<tagVars, pending, miss_q, wb_q, memory>>
  <2>1. Clean' /\ wb_q' = <<>> /\ SameCounts
    BY <1>1, CountParts DEF Clean, SameCounts, tagVars
  <2> QED BY <1>1, <2>1, CountKept
<1>2. BeginCycle \/ EndIssue \/ EndCycle \/ Arrive \/ PopResponse \/ UNCHANGED vars
        => UNCHANGED <<tagVars, pending, miss_q, wb_q, memory>>
  BY DEF BeginCycle, EndIssue, EndCycle, Arrive, PushRequest, PopResponse, vars, slotVars, edgeVars
<1>3. ~PopWbRequest
  BY CountParts DEF PopWbRequest
<1>4. CASE IssueMore
  BY <1>0, <1>4, IssueMoreCount
<1>5. CASE AcceptHit
  BY <1>0, <1>5, AcceptHitCount
<1>6. CASE AcceptMiss
  BY <1>0, <1>6, AcceptMissCount
<1>7. CASE PopMissRequest
  BY <1>0, <1>7, PopMissRequestCount
<1>8. CASE Response
  BY <1>0, <1>8, ResponseCount DEF Response
<1> QED BY <1>1, <1>2, <1>3, <1>4, <1>5, <1>6, <1>7, <1>8 DEF Next, Cycle

LEMMA CountGivesBlocksCounted == CacheInv /\ CountInv => BlocksCounted
<1> SUFFICES ASSUME CacheInv, CountInv PROVE BlocksCounted
  OBVIOUS
<1>1. ASSUME NEW s \in Slot \ LargeSlots
      PROVE  pending[s].issued - pending[s].returned = OnTheirWay(s)
  <2> DEFINE po == pending[s]
             n == OnTheirWay(s)
  <2>1. po \in PendingObj /\ Balanced(po, n) /\ ~(po.total >= LargeBlocks)
    BY CacheInvParts, CountParts DEF Pool, LargeSlots
  <2>2. n \in Nat
    BY CacheInvParts, CountParts, WayFacts
  <2> HIDE DEF po, n
  <2>3. po.issued \in Nat /\ po.returned \in Nat /\ po.total \in Nat /\ LargeBlocks \in Nat
    BY <2>1, CacheAssumption DEF PendingObj
  <2>4. po.issued - po.returned = n
    BY <2>1, <2>2, <2>3 DEF Balanced
  <2> QED BY <2>4 DEF po, n
<1>2. QueueBound
  BY CountParts
<1> QED BY <1>1, <1>2 DEF BlocksCounted, QueueBound

(* Of a workload without stores, no block is lost and none is counted for   *)
(* the wrong object: issue_blocks and push_memory_response keep, for each   *)
(* PendingObj that is not large, issued_blocks and returned_blocks apart by *)
(* what is in _miss_q and in the memory for its slot, in any order of the   *)
(* answers; free_pending_slot frees no slot that something is on its way    *)
(* to; and _miss_q keeps to MAX_MISS_Q_DEPTH.                               *)
THEOREM BlocksAreCounted == ASSUME Writes = {} PROVE Spec => []BlocksCounted
<1>1. Init => TagInv /\ CountInv
  BY InitTags, InitCount
<1>2. CacheInv /\ TagInv /\ CountInv /\ [Next]_vars => (TagInv /\ CountInv)'
  BY TagNext, CountNext
<1>3. CacheInv /\ CountInv => BlocksCounted
  BY CountGivesBlocksCounted
<1> QED BY <1>1, <1>2, <1>3, CacheInvariance, PTL DEF Spec
=============================================================================
