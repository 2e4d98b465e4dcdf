------------------------------ MODULE L2Cache -------------------------------
(***************************************************************************)
(* One bank of the L2 (Cache): a set-associative cache with a tree of bits *)
(* that chooses victims, and a pool of pending slots, one for each missed  *)
(* request whose blocks are being fetched.  The simulator moves requests   *)
(* and answers in and out between two calls of cycle(); cycle() itself is  *)
(* cut into its loop iterations, with `phase` keeping everyone else out.   *)
(*                                                                         *)
(* An address is the number of its block.  The memory behind the bank      *)
(* answers in any order.                                                   *)
(***************************************************************************)
EXTENDS Integers, Sequences, FiniteSets, Bags

CONSTANTS
  Request,        (* The MemoryAccesses that arrive at this bank.          *)
  Id,             (* MemoryAccess::id of each of them.                     *)
  Base,           (* The block of its dram_address.                        *)
  Blocks,         (* The blocks its object_size takes.                     *)
  Writes,         (* The requests that write.                              *)
  NumSets, Depth, (* NUM_SETS, and the height of the tree over the ways.   *)
  Slots,          (* MAX_PENDING_OBJS.                                     *)
  Headroom,       (* Slots kept free: cycle() stops taking misses earlier. *)
  MissQDepth,     (* MAX_MISS_Q_DEPTH.                                     *)
  InPerCycle,     (* MAX_IN_PER_CYCLE.                                     *)
  LargeBlocks     (* LARGE_OBJ_THRESHOLD, in blocks.                       *)

ASSUME CacheAssumption ==
  /\ Id \in [Request -> Nat] /\ Base \in [Request -> Nat] /\ Blocks \in [Request -> Nat \ {0}]
  /\ Writes \subseteq Request
  /\ NumSets \in Nat \ {0} /\ Depth \in Nat \ {0}
  /\ Slots \in Nat \ {0} /\ Headroom \in Nat /\ MissQDepth \in Nat \ {0} /\ LargeBlocks \in Nat
  /\ InPerCycle \in Nat \ {0} /\ InPerCycle <= Headroom

NumWays == 2 ^ Depth
Way == 0 .. NumWays - 1
Node == 0 .. NumWays - 2              \* the inner nodes of the tree
Slot == 0 .. Slots - 1

(* What the bank sends to the memory: the block of a pending slot, named by *)
(* the slot, or an evicted dirty block, which has the id 0.                 *)
Fetch(s, b, write) == [id |-> s, block |-> b, write |-> write, evicted |-> FALSE]
WriteBack(b) == [id |-> 0, block |-> b, write |-> TRUE, evicted |-> TRUE]

VARIABLES
  line,           (* The block of each way of each set, with its dirty bit.*)
  plru,           (* The bits of the tree of each set.                     *)
  pending,        (* _pending.                                             *)
  free_slots,     (* _free_slots.                                          *)
  active_slots,   (* _active_slots.                                        *)
  active_pending, (* _active_pending.                                      *)
  id_to_slot,     (* _id_to_slot.                                          *)
  in_q, miss_q, wb_q, out_q,
  asked, answered,(* The requests that arrived, and that were answered.    *)
  memory,         (* The block requests the memory holds.                  *)
  phase,          (* Where cycle() is.                                     *)
  count,          (* Its loop counter.                                     *)
  aborted         (* The wrong pool was given a pointer to free.           *)

tagVars  == <<line, plru>>
slotVars == <<pending, free_slots, active_slots, active_pending, id_to_slot>>
edgeVars == <<asked, answered, memory>>
vars == <<tagVars, slotVars, in_q, miss_q, wb_q, out_q, edgeVars, phase, count, aborted>>

-----------------------------------------------------------------------------
(* CacheSet.                                                               *)

NoLine == [valid |-> FALSE, block |-> 0, dirty |-> FALSE]
SetOf(b) == b % NumSets

Holds(b, w) == line[SetOf(b)][w].valid /\ line[SetOf(b)][w].block = b
CheckHit(b) == \E w \in Way : Holds(b, w)

(* The ancestor at depth d of way w, and whether w lies to the right of it. *)
Ancestor(w, d) == 2 ^ d - 1 + w \div 2 ^ (Depth - d)
IsRight(w, d) == (w \div 2 ^ (Depth - d - 1)) % 2 = 1

(* CacheSet::touch: every ancestor is made to point to the way.             *)
Touched(bits, w) ==
  [n \in Node |-> IF \E d \in 0 .. Depth - 1 : n = Ancestor(w, d)
                    THEN \E d \in 0 .. Depth - 1 : n = Ancestor(w, d) /\ IsRight(w, d)
                    ELSE bits[n]]

(* CacheSet::lru_way follows the bits.                                      *)
LruWay(bits) == CHOOSE w \in Way : \A d \in 0 .. Depth - 1 : bits[Ancestor(w, d)] = IsRight(w, d)

FreeWays(si) == {w \in Way : ~line[si][w].valid}
Lowest(S) == CHOOSE w \in S : \A v \in S : w <= v

(* The way that a new block of set si takes.                                *)
Victim(si) == IF FreeWays(si) # {} THEN Lowest(FreeWays(si)) ELSE LruWay(plru[si])

Touch(si, w) == plru' = [plru EXCEPT ![si] = Touched(@, w)]

(* Cache::fill and Cache::writeback.                                       *)
FillAgain(b, write) ==                                 \* slip: find_tag
  LET si == SetOf(b)
      w  == Victim(si) IN
  /\ line' = [line EXCEPT ![si][w] = [valid |-> TRUE, block |-> b, dirty |-> write]]
  /\ wb_q' = IF line[si][w].dirty THEN Append(wb_q, WriteBack(line[si][w].block)) ELSE wb_q
  /\ Touch(si, w)

Fill(b, write) ==
  LET si == SetOf(b) IN
  IF CheckHit(b)
    THEN LET w == CHOOSE v \in Way : Holds(b, v) IN
         /\ line' = [line EXCEPT ![si][w].dirty = @ \/ write]
         /\ Touch(si, w)
         /\ UNCHANGED wb_q
    ELSE LET w == Victim(si) IN
         /\ line' = [line EXCEPT ![si][w] = [valid |-> TRUE, block |-> b, dirty |-> write]]
         /\ Touch(si, w)
         /\ wb_q' = IF line[si][w].dirty THEN Append(wb_q, WriteBack(line[si][w].block)) ELSE wb_q

-----------------------------------------------------------------------------
(* The pending slots.                                                      *)

NoFetch ==
  [active |-> FALSE, total |-> 0, issued |-> 0, returned |-> 0, base |-> 0, write |-> FALSE,
   id |-> 0, waiting |-> <<>>, idx |-> 0]

(* issue_blocks for a slot that holds po: as many of its blocks as the      *)
(* queue has room for.  The room is unsigned: a queue over its limit has    *)
(* room for any object.                                                     *)
Available == MissQDepth - Len(miss_q)
Unissued(po) == po.total - po.issued
ToIssue(po) == IF Available \in 0 .. Unissued(po) THEN Available ELSE Unissued(po)
Batch(s, po, n) == [k \in 1 .. n |-> Fetch(s, po.base + po.issued + k - 1, po.write)]
IssueUncounted(s, po) ==                               \* slip: issued_blocks
  /\ miss_q' = miss_q \o Batch(s, po, ToIssue(po))
  /\ pending' = [pending EXCEPT ![s] = po]
IssueBlocks(s, po) ==
  /\ miss_q' = miss_q \o Batch(s, po, ToIssue(po))
  /\ pending' = [pending EXCEPT ![s] = [po EXCEPT !.issued = @ + ToIssue(po)]]

(* free_pending_slot: the last active slot takes the place of slot s in     *)
(* _active_slots, and is told so.                                           *)
WithoutLast(s) ==                                      \* slip: pop_back alone
  SubSeq(active_slots, 1, Len(active_slots) - 1)
WithoutSlot(s) ==
  SubSeq([active_slots EXCEPT ![pending[s].idx + 1] = active_slots[Len(active_slots)]],
         1, Len(active_slots) - 1)

ResetWaiting(s) ==                                     \* slip: waiting_reqs
  [pending EXCEPT ![s] = [NoFetch EXCEPT !.idx = pending[s].idx, !.waiting = pending[s].waiting],
                  ![active_slots[Len(active_slots)]].idx = pending[s].idx]
Reset(s) ==
  [pending EXCEPT ![s] = [NoFetch EXCEPT !.idx = pending[s].idx],
                  ![active_slots[Len(active_slots)]].idx = pending[s].idx]

FreePendingSlot(s) ==
  /\ id_to_slot' = [i \in DOMAIN id_to_slot \ {pending[s].id} |-> id_to_slot[i]]
  /\ free_slots' = Append(free_slots, s)
  /\ active_slots' = WithoutSlot(s)
  /\ pending' = Reset(s)
  /\ active_pending' = active_pending - 1

-----------------------------------------------------------------------------
(* Cache::cycle.                                                           *)

Running == ~aborted
InCycle(p) == Running /\ phase = p
BetweenCycles == Running /\ phase = "idle" /\ UNCHANGED <<phase, count, aborted>>

(* Misses are only taken while some slots stay free.                        *)
AcceptPhaseFull ==                                     \* slip: the head room
  IF active_pending < Slots THEN "accept" ELSE "coalesce"
AcceptPhase == IF active_pending < Slots - Headroom THEN "accept" ELSE "coalesce"

BeginCycle ==
  /\ InCycle("idle")
  /\ phase' = IF active_pending > 0 /\ Len(miss_q) < MissQDepth THEN "issue" ELSE AcceptPhase
  /\ count' = 0
  /\ UNCHANGED <<tagVars, slotVars, in_q, miss_q, wb_q, out_q, edgeVars, aborted>>

(* The blocks that found no room in _miss_q before.                         *)
IssueMore ==
  /\ InCycle("issue")
  /\ count < Len(active_slots) /\ Len(miss_q) < MissQDepth
  /\ LET s  == active_slots[count + 1]
         po == pending[s] IN
     IF po.active /\ po.issued < po.total
       THEN IssueBlocks(s, po)
       ELSE UNCHANGED <<miss_q, pending>>
  /\ count' = count + 1
  /\ UNCHANGED <<tagVars, free_slots, active_slots, active_pending, id_to_slot, in_q, wb_q, out_q,
                 edgeVars, phase, aborted>>

EndIssue ==
  /\ InCycle("issue")
  /\ count = Len(active_slots) \/ Len(miss_q) >= MissQDepth
  /\ phase' = AcceptPhase
  /\ count' = 0
  /\ UNCHANGED <<tagVars, slotVars, in_q, miss_q, wb_q, out_q, edgeVars, aborted>>

(* process_one_request takes the front of _in_q.                            *)
Accepting == Running /\ phase \in {"accept", "coalesce"} /\ count < InPerCycle /\ in_q # <<>>
InFlight(r) == Id[r] \in DOMAIN id_to_slot

AcceptHit ==
  /\ Accepting
  /\ LET r == Head(in_q)
         si == SetOf(Base[r]) IN
     /\ CheckHit(Base[r])
     /\ LET w == CHOOSE v \in Way : Holds(Base[r], v) IN
        /\ line' = [line EXCEPT ![si][w].dirty = @ \/ r \in Writes]
        /\ Touch(si, w)
     /\ out_q' = Append(out_q, r)
  /\ in_q' = Tail(in_q)
  /\ count' = count + 1
  /\ UNCHANGED <<slotVars, miss_q, wb_q, edgeVars, phase, aborted>>

(* A miss joins the fetch of its own id, or starts one: a large object with *)
(* one request for all of it, any other one with a request for each block.  *)
NewFetch(r) ==
  [active |-> TRUE, total |-> Blocks[r], issued |-> 0, returned |-> 0, base |-> Base[r],
   write |-> r \in Writes, id |-> Id[r], waiting |-> <<r>>, idx |-> Len(active_slots)]

StartFetch(r) ==
  LET s  == free_slots[Len(free_slots)]
      po == NewFetch(r) IN
  /\ free_slots' = SubSeq(free_slots, 1, Len(free_slots) - 1)
  /\ active_slots' = Append(active_slots, s)
  /\ active_pending' = active_pending + 1
  /\ id_to_slot' = [i \in DOMAIN id_to_slot \cup {Id[r]} |-> IF i = Id[r] THEN s ELSE id_to_slot[i]]
  /\ IF Blocks[r] >= LargeBlocks
       THEN /\ miss_q' = Append(miss_q, Fetch(s, Base[r], r \in Writes))
            /\ pending' = [pending EXCEPT ![s] = [po EXCEPT !.issued = Blocks[r]]]
       ELSE IssueBlocks(s, po)

AcceptMiss ==
  /\ Accepting
  /\ LET r == Head(in_q) IN
     /\ ~CheckHit(Base[r])
     /\ phase = "coalesce" => InFlight(r)
     /\ CASE InFlight(r) ->
               /\ pending' = [pending EXCEPT ![id_to_slot[Id[r]]].waiting = Append(@, r)]
               /\ in_q' = Tail(in_q)
               /\ UNCHANGED <<free_slots, active_slots, active_pending, id_to_slot, miss_q>>
          [] ~InFlight(r) /\ free_slots # <<>> -> StartFetch(r) /\ in_q' = Tail(in_q)
          [] OTHER -> UNCHANGED <<slotVars, in_q, miss_q>>
  /\ count' = count + 1
  /\ UNCHANGED <<tagVars, wb_q, out_q, edgeVars, phase, aborted>>

EndCycle ==
  /\ Running /\ phase \in {"accept", "coalesce"}
  /\ \/ count = InPerCycle
     \/ in_q = <<>>
     \/ /\ phase = "coalesce" /\ in_q # <<>>
        /\ ~CheckHit(Base[Head(in_q)]) /\ ~InFlight(Head(in_q))
  /\ phase' = "idle" /\ count' = 0
  /\ UNCHANGED <<tagVars, slotVars, in_q, miss_q, wb_q, out_q, edgeVars, aborted>>

-----------------------------------------------------------------------------
(* What Simulator::cycle does between two calls of cycle().                 *)

PushRequest(r) ==
  /\ BetweenCycles
  /\ r \in Request \ asked
  /\ asked' = asked \cup {r}
  /\ in_q' = Append(in_q, r)
  /\ UNCHANGED <<tagVars, slotVars, miss_q, wb_q, out_q, answered, memory>>

PopMissRequest ==
  /\ BetweenCycles
  /\ miss_q # <<>>
  /\ memory' = memory (+) SetToBag({Head(miss_q)})
  /\ miss_q' = Tail(miss_q)
  /\ UNCHANGED <<tagVars, slotVars, in_q, wb_q, out_q, asked, answered>>

PopWbRequest ==
  /\ BetweenCycles
  /\ wb_q # <<>>
  /\ memory' = memory (+) SetToBag({Head(wb_q)})
  /\ wb_q' = Tail(wb_q)
  /\ UNCHANGED <<tagVars, slotVars, in_q, miss_q, out_q, asked, answered>>

(* push_memory_response.  An answer is taken for the slot its id names.     *)
(* Its memory goes back to _pool, also when it came from _wb_pool: then a   *)
(* pointer into an array is deleted, which may end the program or not.      *)
CompleteLate(po) == po.returned > po.total             \* slip: > for >=
Complete(po) == po.returned >= po.total

Return(s, po) ==
  LET n == IF Len(miss_q) < MissQDepth THEN ToIssue(po) ELSE 0 IN
  /\ miss_q' = miss_q \o Batch(s, po, n)
  /\ IF Complete(po)
       THEN out_q' = out_q \o po.waiting /\ FreePendingSlot(s)
       ELSE /\ pending' = [pending EXCEPT ![s] = [po EXCEPT !.issued = @ + n]]
            /\ UNCHANGED <<free_slots, active_slots, active_pending, id_to_slot, out_q>>

PushMemoryResponse(x) ==
  /\ Running /\ phase = "idle" /\ UNCHANGED <<phase, count>>
  /\ BagIn(x, memory)
  /\ memory' = memory (-) SetToBag({x})
  /\ IF pending[x.id].active
       THEN LET po == pending[x.id] IN
            /\ Fill(x.block, po.write)
            /\ Return(x.id, [po EXCEPT !.returned = @ + 1])
       ELSE UNCHANGED <<tagVars, slotVars, miss_q, wb_q, out_q>>
  /\ aborted' \in IF x.evicted THEN BOOLEAN ELSE {FALSE}
  /\ UNCHANGED <<in_q, asked, answered>>

PopResponse ==
  /\ BetweenCycles
  /\ out_q # <<>>
  /\ answered' = answered \cup {Head(out_q)}
  /\ out_q' = Tail(out_q)
  /\ UNCHANGED <<tagVars, slotVars, in_q, miss_q, wb_q, asked, memory>>

-----------------------------------------------------------------------------

Init ==
  /\ line = [si \in 0 .. NumSets - 1 |-> [w \in Way |-> NoLine]]
  /\ plru = [si \in 0 .. NumSets - 1 |-> [n \in Node |-> FALSE]]
  /\ pending = [s \in Slot |-> NoFetch]
  /\ free_slots = [k \in 1 .. Slots |-> Slots - k]
  /\ active_slots = <<>> /\ active_pending = 0
  /\ id_to_slot = [i \in {} |-> 0]
  /\ in_q = <<>> /\ miss_q = <<>> /\ wb_q = <<>> /\ out_q = <<>>
  /\ asked = {} /\ answered = {} /\ memory = EmptyBag
  /\ phase = "idle" /\ count = 0 /\ aborted = FALSE

Cycle == BeginCycle \/ IssueMore \/ EndIssue \/ AcceptHit \/ AcceptMiss \/ EndCycle
Arrive == \E r \in Request : PushRequest(r)
Response == \E x \in BagToSet(memory) : PushMemoryResponse(x)

Next == Cycle \/ Arrive \/ PopMissRequest \/ PopWbRequest \/ Response \/ PopResponse

(* Simulator::cycle calls cycle() and visits each end of the bank in every  *)
(* round, and the memory answers what it was asked.                         *)
Fairness ==
  /\ WF_vars(Cycle)
  /\ SF_vars(PopMissRequest) /\ SF_vars(PopWbRequest) /\ SF_vars(Response) /\ SF_vars(PopResponse)

Spec == Init /\ [][Next]_vars
FairSpec == Spec /\ Fairness

-----------------------------------------------------------------------------
(* Properties.                                                             *)

Elements(q) == {q[k] : k \in 1 .. Len(q)}
Distinct(q) == \A j, k \in 1 .. Len(q) : q[j] = q[k] => j = k
ActiveSlots == {s \in Slot : pending[s].active}

(* The variables of the slots and queues, and those of the lines, hold      *)
(* values of their C++ types.                                               *)
PendingObj ==
  [active : BOOLEAN, total : Nat, issued : Nat, returned : Nat, base : Nat,
   write : BOOLEAN, id : Nat, waiting : Seq(Request), idx : Nat]
FetchRequest == [id : Slot, block : Nat, write : BOOLEAN, evicted : {FALSE}]
SlotTypeOK ==
  /\ pending \in [Slot -> PendingObj]
  /\ free_slots \in Seq(Slot) /\ active_slots \in Seq(Slot) /\ active_pending \in Int
  /\ DOMAIN id_to_slot \subseteq Nat /\ \A i \in DOMAIN id_to_slot : id_to_slot[i] \in Slot
  /\ in_q \in Seq(Request) /\ out_q \in Seq(Request) /\ miss_q \in Seq(FetchRequest)
  /\ asked \subseteq Request /\ answered \subseteq Request
  /\ phase \in {"idle", "issue", "accept", "coalesce"} /\ count \in Nat
  /\ aborted \in BOOLEAN
TagTypeOK ==
  /\ line \in [0 .. NumSets - 1 -> [Way -> [valid : BOOLEAN, block : Nat, dirty : BOOLEAN]]]
  /\ plru \in [0 .. NumSets - 1 -> [Node -> BOOLEAN]]
  /\ \A x \in Elements(wb_q) : x.evicted

(* A slot is free or active and never both; _active_pending, _active_slots, *)
(* the index each active slot keeps of its place there and _id_to_slot all  *)
(* tell the same, through every swap-and-pop in any order of completion.    *)
SlotsConsistent ==
  /\ SlotTypeOK
  /\ Distinct(free_slots) /\ Distinct(active_slots)
  /\ Elements(active_slots) = ActiveSlots
  /\ Elements(free_slots) = Slot \ ActiveSlots
  /\ active_pending = Len(active_slots)
  /\ \A k \in 1 .. Len(active_slots) : pending[active_slots[k]].idx = k - 1
  /\ \A s \in ActiveSlots : pending[s].id \in DOMAIN id_to_slot /\ id_to_slot[pending[s].id] = s
  /\ DOMAIN id_to_slot = {pending[s].id : s \in ActiveSlots}

(* cycle() checks the head room once and then takes InPerCycle requests: a  *)
(* miss never finds all slots taken, so the stall that would put a request  *)
(* back and spin through the rest of the cycle does not happen.             *)
SlotLeftForMiss ==
  phase = "accept" => Len(free_slots) >= InPerCycle - count

(* Every request is in one queue, or waits for one fetch, or was answered,  *)
(* and is so once: none is lost or answered twice, also when the fetch it   *)
(* waits for ends early.                                                    *)
Times(r, q) == Cardinality({k \in 1 .. Len(q) : q[k] = r})
SlotsWaitedFor(r) == {at \in UNION {{s} \X (1 .. Len(pending[s].waiting)) : s \in Slot} :
                        pending[at[1]].waiting[at[2]] = r}
WaitsOnce ==
  \A r \in Request :
    Times(r, in_q) + Times(r, out_q) + Cardinality(SlotsWaitedFor(r)) + (IF r \in answered THEN 1 ELSE 0)
      = IF r \in asked THEN 1 ELSE 0

(* The blocks of a small object that were issued and have not returned are  *)
(* the ones on their way, and nothing is on its way to a slot without one:  *)
(* no answer is taken for a slot that was freed and given to another miss.  *)
(* The queue they wait in keeps to its limit; the one request of a large    *)
(* object does not look at it.                                              *)
Copies == UNION {{x} \X (1 .. memory[x]) : x \in DOMAIN memory}
InMissQ(s) == {k \in 1 .. Len(miss_q) : miss_q[k].id = s}
InMemory(s) == {c \in Copies : c[1].id = s /\ ~c[1].evicted}
OnTheirWay(s) == Cardinality(InMissQ(s)) + Cardinality(InMemory(s))
LargeSlots == {s \in Slot : pending[s].total >= LargeBlocks}
BlocksCounted ==
  /\ LargeSlots = {} => Len(miss_q) <= MissQDepth
  /\ \A s \in Slot \ LargeSlots : pending[s].issued - pending[s].returned = OnTheirWay(s)

(* A block is in one way of its set, and only in its set.                   *)
OneCopy ==
  /\ TagTypeOK
  /\ \A si \in 0 .. NumSets - 1 : \A w \in Way :
       line[si][w].valid =>
         /\ SetOf(line[si][w].block) = si
         /\ \A v \in Way : line[si][v].valid /\ line[si][v].block = line[si][w].block => v = w

(* The bank keeps the promise of the memory to the cores, but for a large   *)
(* object that is not hit: it waits for the blocks its one request has not  *)
(* named, for ever, and takes nothing from the others.                      *)
Service == INSTANCE MemoryService WITH pending <- asked \ answered
NeverComplete(r) == \E s \in LargeSlots : r \in Elements(pending[s].waiting) /\ pending[s].total > 1
ServesMemory ==
  /\ Service!ServiceSafety
  /\ \A r \in Request : r \in asked \ answered ~> (r \in answered \/ NeverComplete(r))

(* Cache.cc:228: the completion of a writeback belongs to no slot.          *)
WritebackIgnored ==
  [][(\E x \in DOMAIN memory : x.evicted /\ memory' = memory (-) SetToBag({x})) => UNCHANGED pending]_vars
=============================================================================
