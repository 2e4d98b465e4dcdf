--------------------------- MODULE LanguageProofs ---------------------------
(***************************************************************************)
(* Proofs about the language mode, for any trace, any sizes, any           *)
(* configuration and any number of layers.  First LanguageScheduler: one   *)
(* inference at a time, of a bounded batch, the oldest requests first, and *)
(* each request given its tokens.  Then the graph of LanguageModel and its *)
(* execution in LanguageInference.                                         *)
(***************************************************************************)
EXTENDS LanguageInference, TLAPS, FiniteSetTheorems, SequenceTheorems, WellFoundedInduction

-----------------------------------------------------------------------------
(* Sets of requests.                                                       *)

(* A set of requests below a number is finite.                              *)
LEMMA RequestsFinite ==
  ASSUME NEW n \in Nat, NEW S, S \subseteq 0 .. n - 1
  PROVE  IsFiniteSet(S) /\ Cardinality(S) \in Nat
<1>1. IsFiniteSet(0 .. n - 1)
  BY FS_Interval
<1>2. IsFiniteSet(S)
  BY <1>1, FS_Subset
<1> QED BY <1>2, FS_CardinalityType

(* The number of elements below an element tells it from the others.       *)
LEMMA BelowTells ==
  ASSUME NEW S \in SUBSET Int, IsFiniteSet(S)
  PROVE  /\ \A r \in S : Cardinality({q \in S : q < r}) \in 0 .. Cardinality(S) - 1
         /\ \A r, s \in S : Cardinality({q \in S : q < r}) = Cardinality({q \in S : q < s}) => r = s
<1> DEFINE Below(r) == {q \in S : q < r}
<1>1. ASSUME NEW r \in S PROVE /\ IsFiniteSet(Below(r)) /\ Cardinality(Below(r)) \in Nat
                              /\ Cardinality(Below(r)) \in 0 .. Cardinality(S) - 1
  <2>1. Below(r) \in SUBSET S /\ r \notin Below(r)
    BY <1>1
  <2>2. IsFiniteSet(Below(r)) /\ Cardinality(Below(r)) \in Nat /\ Cardinality(S) \in Nat
    BY <2>1, FS_Subset, FS_CardinalityType
  <2>3. Cardinality(Below(r)) <= Cardinality(S) /\ (Cardinality(S) = Cardinality(Below(r)) => S = Below(r))
    BY <2>1, FS_Subset
  <2>4. Cardinality(S) # Cardinality(Below(r))
    BY <1>1, <2>1, <2>3
  <2> QED BY <2>2, <2>3, <2>4
<1>2. ASSUME NEW r \in S, NEW s \in S, r < s PROVE Cardinality(Below(r)) # Cardinality(Below(s))
  <2>1. Below(r) \in SUBSET Below(s) /\ r \in Below(s) /\ r \notin Below(r)
    <3>1. \A q \in S : q \in Int /\ (q < r => q < s) /\ ~(r < r)
      BY <1>2
    <3> QED BY <1>2, <3>1
  <2>2. Cardinality(Below(s)) = Cardinality(Below(r)) => Below(s) = Below(r)
    BY <1>1, <2>1, FS_Subset
  <2> QED BY <2>1, <2>2
<1>3. ASSUME NEW r \in S, NEW s \in S, Cardinality(Below(r)) = Cardinality(Below(s)) PROVE r = s
  <2>1. r < s \/ s < r \/ r = s
    OBVIOUS
  <2> QED BY <1>2, <1>3, <2>1
<1> QED BY <1>1, <1>3

(* The elements of S with fewer than n elements below them are at most n.   *)
LEMMA FirstOnes ==
  ASSUME NEW S \in SUBSET Nat, IsFiniteSet(S), NEW n \in Nat
  PROVE  Cardinality({r \in S : Cardinality({q \in S : q < r}) < n}) <= n
<1> DEFINE Below(r) == {q \in S : q < r}
           F == {r \in S : Cardinality(Below(r)) < n}
           f == [r \in F |-> Cardinality(Below(r))]
<1>1. S \in SUBSET Int /\ Cardinality(S) \in Nat
  BY FS_CardinalityType
<1>2. \A r \in F : f[r] \in 0 .. n - 1
  BY <1>1, BelowTells
<1>3. \A r, s \in F : f[r] = f[s] => r = s
  BY <1>1, BelowTells
<1>4. f \in Injection(F, 0 .. n - 1)
  BY <1>2, <1>3 DEF Injection, IsInjective
<1>5. IsFiniteSet(0 .. n - 1) /\ Cardinality(0 .. n - 1) = n
  BY FS_Interval
<1> QED BY <1>4, <1>5, FS_Injection

(* A finite set of numbers in order.                                        *)
LEMMA InOrderFacts ==
  ASSUME NEW S \in SUBSET Int, IsFiniteSet(S)
  PROVE  /\ Cardinality(S) \in Nat /\ DOMAIN InOrder(S) = 1 .. Cardinality(S)
         /\ \A k \in 1 .. Cardinality(S) : InOrder(S)[k] \in S
         /\ \A j, k \in 1 .. Cardinality(S) : InOrder(S)[j] = InOrder(S)[k] => j = k
         /\ \A x \in S : \E k \in 1 .. Cardinality(S) : InOrder(S)[k] = x
<1> DEFINE n == Cardinality(S)
           f == [r \in S |-> Cardinality({q \in S : q < r})]
<1>1. n \in Nat
  BY FS_CardinalityType
<1>2. \A r \in S : f[r] \in 0 .. n - 1
  BY BelowTells
<1>3. \A r, s \in S : f[r] = f[s] => r = s
  BY BelowTells
<1>4. f \in Injection(S, 0 .. n - 1)
  BY <1>2, <1>3 DEF Injection, IsInjective
<1>5. IsFiniteSet(0 .. n - 1) /\ Cardinality(0 .. n - 1) = n
  BY <1>1, FS_Interval
<1>6. f \in Surjection(S, 0 .. n - 1)
  BY <1>4, <1>5, FS_Injection
<1>7. \A j \in 0 .. n - 1 : \E x \in S : f[x] = j
  BY <1>6 DEF Surjection
<1> HIDE DEF n
<1>8. ASSUME NEW k \in 1 .. n PROVE InOrder(S)[k] \in S /\ f[InOrder(S)[k]] = k - 1
  <2>1. k - 1 \in 0 .. n - 1
    BY <1>1
  <2>2. \E x \in S : Cardinality({y \in S : y < x}) = k - 1
    BY <1>7, <2>1
  <2>3. InOrder(S)[k] = CHOOSE x \in S : Cardinality({y \in S : y < x}) = k - 1
    BY DEF InOrder, n
  <2> QED BY <2>2, <2>3
<1>9. ASSUME NEW x \in S PROVE \E k \in 1 .. n : InOrder(S)[k] = x
  <2>1. f[x] \in 0 .. n - 1
    BY <1>2
  <2>2. f[x] + 1 \in 1 .. n /\ (f[x] + 1) - 1 = f[x]
    BY <1>1, <2>1
  <2> HIDE DEF f
  <2>3. f[InOrder(S)[f[x] + 1]] = f[x] /\ InOrder(S)[f[x] + 1] \in S
    BY <1>8, <2>2
  <2> QED BY <1>3, <2>2, <2>3
<1>10. \A j, k \in 1 .. n : InOrder(S)[j] = InOrder(S)[k] => j = k
  <2> HIDE DEF f
  <2> SUFFICES ASSUME NEW j \in 1 .. n, NEW k \in 1 .. n, InOrder(S)[j] = InOrder(S)[k] PROVE j = k
    OBVIOUS
  <2>1. j - 1 = k - 1
    BY <1>8
  <2> QED BY <1>1, <2>1
<1>11. DOMAIN InOrder(S) = 1 .. n
  BY DEF InOrder, n
<1> QED BY <1>1, <1>8, <1>9, <1>10, <1>11 DEF n

-----------------------------------------------------------------------------
(* What the language scheduler takes and keeps.                            *)

LEMMA ConfigFacts ==
  ASSUME TypeOK
  PROVE  /\ policy \in {"simple", "iter"} /\ MaxBatch \in Nat
         /\ NumRequests \in Nat /\ due \in Nat /\ front \in Nat /\ front <= due /\ due <= NumRequests
         /\ IsFiniteSet(DOMAIN active) /\ Cardinality(DOMAIN active) \in Nat
<1>1. config \in [policy : {"simple", "iter"}, batch : Nat, dram : Nat] /\ NumRequests \in Nat
  BY LanguageAssumption DEF TypeOK
<1>2. due \in Nat /\ front \in Nat /\ front <= due /\ due <= NumRequests
  BY <1>1 DEF TypeOK
<1>3. IsFiniteSet(DOMAIN active) /\ Cardinality(DOMAIN active) \in Nat
  BY <1>2, RequestsFinite DEF TypeOK
<1> QED BY <1>1, <1>2, <1>3 DEF policy, MaxBatch

(* Only requests that are due are admitted, and no more than the batch has  *)
(* room for; one, if it has none.                                           *)
LEMMA AdmittedFacts ==
  ASSUME TypeOK
  PROVE  /\ Admitted \in Nat /\ front + Admitted <= due
         /\ ~MayAdmit => Admitted = 0
         /\ MaxBatch > 0 => \/ Admitted <= 1
                           \/ Admitted <= MaxBatch - Cardinality(DOMAIN active)
<1>1. MaxBatch \in Nat /\ due \in Nat /\ front \in Nat /\ front <= due /\ Cardinality(DOMAIN active) \in Nat
  BY ConfigFacts
<1>2. CASE ~MayAdmit \/ front = due
  <2>1. Admitted = 0
    BY <1>1, <1>2 DEF Admitted
  <2> QED BY <1>1, <2>1
<1>3. CASE MayAdmit /\ front < due /\ MaxBatch = 0
  <2>1. Admitted = due - front
    BY <1>1, <1>3 DEF Admitted
  <2> QED BY <1>1, <1>3, <2>1
<1>4. CASE MayAdmit /\ front < due /\ MaxBatch # 0
  <2> DEFINE room == MaxBatch - Cardinality(DOMAIN active)
             n == IF room > 1 THEN room ELSE 1
  <2>1. Admitted = IF n < due - front THEN n ELSE due - front
    BY <1>1, <1>4 DEF Admitted
  <2>2. room \in Int
    BY <1>1
  <2> QED BY <1>1, <1>4, <2>1, <2>2
<1>5. front = due \/ front < due
  BY <1>1
<1> QED BY <1>2, <1>3, <1>4, <1>5

LEMMA ActivatedFacts ==
  ASSUME TypeOK
  PROVE  /\ DOMAIN Activated = DOMAIN active \cup (front .. front + Admitted - 1)
         /\ DOMAIN Activated \subseteq 0 .. front + Admitted - 1
         /\ \A r \in DOMAIN active : Activated[r] = active[r]
         /\ \A r \in DOMAIN Activated \ DOMAIN active : ~Activated[r].running /\ ~Activated[r].gen /\ r >= front
         /\ \A r \in DOMAIN Activated : Activated[r] \in LangRequest
<1>1. front \in Nat /\ Admitted \in Nat /\ front + Admitted <= due /\ due <= NumRequests /\ due \in Nat /\ NumRequests \in Nat
  BY ConfigFacts, AdmittedFacts
<1>2. DOMAIN Activated = DOMAIN active \cup (front .. front + Admitted - 1)
  BY DEF Activated
<1>3. DOMAIN Activated \subseteq 0 .. front + Admitted - 1
  BY <1>1, <1>2 DEF TypeOK
<1>4. \A r \in DOMAIN active : Activated[r] = active[r] /\ active[r] \in LangRequest
  BY DEF Activated, TypeOK
<1>5. ASSUME NEW r \in DOMAIN Activated, r \notin DOMAIN active
      PROVE  ~Activated[r].running /\ ~Activated[r].gen /\ r >= front /\ Activated[r] \in LangRequest
  <2>1. Activated[r] = NewRequest(r) /\ r >= front /\ r \in Request
    BY <1>1, <1>2, <1>5 DEF Activated, Request
  <2>2. Cached[r] \in Nat
    BY <2>1, LanguageAssumption
  <2> QED BY <2>1, <2>2 DEF NewRequest, LangRequest
<1> QED BY <1>2, <1>3, <1>4, <1>5

(* The inputs of an inference are the first idle requests, a batch of them. *)
LEMMA InputsFacts ==
  ASSUME TypeOK, NEW S, S = Inputs(Activated)
  PROVE  /\ S \subseteq DOMAIN Activated /\ S \subseteq Request
         /\ \A r \in S : ~Activated[r].running
         /\ IsFiniteSet(S)
         /\ MaxBatch > 0 => Cardinality(S) <= MaxBatch
         /\ \A r, s \in DOMAIN Activated : r < s /\ s \in S => Activated[r].running \/ r \in S
<1> DEFINE idle == {r \in DOMAIN Activated : ~Activated[r].running}
<1>1. front \in Nat /\ Admitted \in Nat /\ front + Admitted \in Nat /\ front + Admitted <= NumRequests /\ MaxBatch \in Nat /\ NumRequests \in Nat
  BY ConfigFacts, AdmittedFacts
<1>2. idle \subseteq 0 .. front + Admitted - 1
  BY ActivatedFacts
<1>3. IsFiniteSet(idle) /\ idle \in SUBSET Nat
  BY <1>1, <1>2, RequestsFinite
<1>4. S = {r \in idle : MaxBatch = 0 \/ Cardinality({q \in idle : q < r}) < MaxBatch}
  BY DEF Inputs
<1>5. S \subseteq idle /\ IsFiniteSet(S) /\ S \subseteq Request
  <2>1. S \in SUBSET idle
    BY <1>4
  <2>2. 0 .. front + Admitted - 1 \subseteq Request
    BY <1>1 DEF Request
  <2> QED BY <1>2, <1>3, <2>1, <2>2, FS_Subset
<1>6. ASSUME MaxBatch > 0 PROVE Cardinality(S) <= MaxBatch
  <2>1. S = {r \in idle : Cardinality({q \in idle : q < r}) < MaxBatch}
    BY <1>1, <1>4, <1>6
  <2> HIDE DEF idle
  <2> QED BY <1>1, <1>3, <2>1, FirstOnes
<1>7. ASSUME NEW r \in DOMAIN Activated, NEW s \in DOMAIN Activated, r < s, s \in S, ~Activated[r].running
      PROVE  r \in S
  <2>1. r \in idle /\ s \in idle
    BY <1>5, <1>7
  <2> DEFINE Below(x) == {q \in idle : q < x}
  <2>2. Below(r) \subseteq Below(s)
    <3>1. \A q \in idle : q \in Nat
      BY <1>3
    <3>2. \A q \in idle : q < r => q < s
      BY <1>7, <2>1, <3>1
    <3> QED BY <3>2
  <2>3. IsFiniteSet(Below(s)) /\ Below(s) \in SUBSET idle
    BY <1>3, FS_Subset
  <2>4. Cardinality(Below(r)) <= Cardinality(Below(s)) /\ Cardinality(Below(r)) \in Nat /\ Cardinality(Below(s)) \in Nat
    BY <2>2, <2>3, FS_Subset, FS_CardinalityType
  <2>5. MaxBatch = 0 \/ Cardinality(Below(s)) < MaxBatch
    BY <1>4, <1>7
  <2>6. MaxBatch = 0 \/ Cardinality(Below(r)) < MaxBatch
    BY <1>1, <2>4, <2>5
  <2> QED BY <1>4, <2>1, <2>6
<1> QED BY <1>5, <1>6, <1>7

-----------------------------------------------------------------------------
(* The invariant: the three properties are inductive together.             *)

IInv == OneInference /\ BatchBounded /\ OldestFirst

LEMMA InitInv == Init => IInv
<1> SUFFICES ASSUME Init PROVE IInv
  OBVIOUS
<1>1. DOMAIN active = {} /\ DOMAIN in_model = {}
  BY DEF Init
<1>2. NumRequests \in Nat /\ config \in Config /\ config.batch \in Nat /\ due = 0 /\ front = 0 /\ generated = 0 /\ exited = FALSE
  BY LanguageAssumption DEF Init
<1>3. TypeOK
  <2>1. active \in [DOMAIN active -> LangRequest] /\ in_model \in [DOMAIN in_model -> SUBSET Request]
    BY <1>1 DEF Init
  <2>2. due \in 0 .. NumRequests /\ front \in 0 .. due /\ generated \in Nat
    BY <1>2
  <2> QED BY <1>1, <1>2, <2>1, <2>2 DEF TypeOK
<1>4. Cardinality({}) = 0
  BY FS_EmptySet
<1>5. OneInference
  BY <1>1, <1>3, <1>4 DEF OneInference
<1>6. BatchBounded
  BY <1>1, <1>2, <1>4 DEF BatchBounded, MaxBatch
<1>7. OldestFirst
  BY <1>1 DEF OldestFirst
<1> QED BY <1>5, <1>6, <1>7 DEF IInv

(* The step that admits requests and may start an inference.  `S` are the   *)
(* requests that it takes, none when it starts no inference.                *)
LEMMA HandleShape ==
  ASSUME OneInference, HandleModel
  PROVE  \E S :
    /\ S \subseteq DOMAIN Activated /\ S \subseteq Request
    /\ DOMAIN active' = DOMAIN Activated
    /\ \A r \in DOMAIN Activated :
         /\ active'[r] \in LangRequest /\ active'[r].gen = Activated[r].gen
         /\ active'[r].running <=> Activated[r].running \/ r \in S
    /\ active' \in [DOMAIN active' -> LangRequest]
    /\ \/ S = {} /\ in_model' = in_model /\ generated' = generated
       \/ /\ DOMAIN in_model = {} /\ DOMAIN in_model' = {generated} /\ in_model'[generated] = S
          /\ in_model' \in [DOMAIN in_model' -> SUBSET Request] /\ generated' = generated + 1
          /\ S # {} /\ IsFiniteSet(S) /\ (MaxBatch > 0 => Cardinality(S) <= MaxBatch)
          /\ \A r, s \in DOMAIN Activated : r < s /\ s \in S => Activated[r].running \/ r \in S
<1>1. TypeOK
  BY DEF OneInference
<1>2. Activated \in [DOMAIN Activated -> LangRequest]
  <2>1. Activated = [r \in DOMAIN Activated |-> Activated[r]]
    BY DEF Activated
  <2> QED BY <1>1, <2>1, ActivatedFacts
<1> DEFINE S == Inputs(Activated)
<1>3. CASE MayGenerate /\ S # {}
  <2>1. /\ active' = [r \in DOMAIN Activated |-> [Activated[r] EXCEPT !.running = @ \/ r \in S]]
        /\ in_model' = [m \in DOMAIN in_model \cup {generated} |-> IF m = generated THEN S ELSE in_model[m]]
        /\ generated' = generated + 1
    BY <1>3 DEF HandleModel
  <2>2. /\ S \subseteq DOMAIN Activated /\ S \subseteq Request /\ IsFiniteSet(S)
        /\ MaxBatch > 0 => Cardinality(S) <= MaxBatch
        /\ \A r, s \in DOMAIN Activated : r < s /\ s \in S => Activated[r].running \/ r \in S
    BY <1>1, InputsFacts
  <2> HIDE DEF S
  <2>3. DOMAIN active' = DOMAIN Activated
    BY <2>1
  <2>4. ASSUME NEW r \in DOMAIN Activated
        PROVE  /\ active'[r] \in LangRequest /\ active'[r].gen = Activated[r].gen
               /\ active'[r].running <=> Activated[r].running \/ r \in S
    <3>1. Activated[r] \in LangRequest
      BY <1>2
    <3>2. active'[r] = [Activated[r] EXCEPT !.running = @ \/ r \in S]
      BY <2>1
    <3>3. (Activated[r].running \/ r \in S) \in BOOLEAN
      OBVIOUS
    <3>4. active'[r].running = (Activated[r].running \/ r \in S) /\ active'[r].gen = Activated[r].gen
      BY <3>1, <3>2 DEF LangRequest
    <3>5. active'[r] \in LangRequest
      BY <3>1, <3>2, <3>3 DEF LangRequest
    <3> QED BY <3>4, <3>5
  <2>5. active' \in [DOMAIN active' -> LangRequest]
    BY <2>1, <2>3, <2>4
  <2>6. DOMAIN in_model = {} /\ DOMAIN in_model' = {generated} /\ in_model'[generated] = S
    BY <1>3, <2>1 DEF MayGenerate
  <2>7. in_model' \in [DOMAIN in_model' -> SUBSET Request]
    BY <2>1, <2>2, <2>6
  <2> QED BY <1>3, <2>1, <2>2, <2>3, <2>4, <2>5, <2>6, <2>7
<1>4. CASE ~(MayGenerate /\ S # {})
  <2>1. active' = Activated /\ in_model' = in_model /\ generated' = generated
    BY <1>4 DEF HandleModel
  <2>2. \A r \in DOMAIN Activated : Activated[r] \in LangRequest
    BY <1>2
  <2>3. {} \subseteq DOMAIN Activated /\ {} \subseteq Request
    OBVIOUS
  <2>4. \A r \in DOMAIN Activated : r \notin {}
    OBVIOUS
  <2> HIDE DEF S
  <2> WITNESS {}
  <2> QED BY <1>2, <2>1, <2>2, <2>3, <2>4
<1> QED BY <1>3, <1>4

LEMMA HandleInv == ASSUME IInv, HandleModel PROVE IInv'
<1>1. TypeOK /\ OneInference
  BY DEF IInv, OneInference
<1>2. PICK S :
    /\ S \subseteq DOMAIN Activated /\ S \subseteq Request
    /\ DOMAIN active' = DOMAIN Activated
    /\ \A r \in DOMAIN Activated :
         /\ active'[r] \in LangRequest /\ active'[r].gen = Activated[r].gen
         /\ active'[r].running <=> Activated[r].running \/ r \in S
    /\ active' \in [DOMAIN active' -> LangRequest]
    /\ \/ S = {} /\ in_model' = in_model /\ generated' = generated
       \/ /\ DOMAIN in_model = {} /\ DOMAIN in_model' = {generated} /\ in_model'[generated] = S
          /\ in_model' \in [DOMAIN in_model' -> SUBSET Request] /\ generated' = generated + 1
          /\ S # {} /\ IsFiniteSet(S) /\ (MaxBatch > 0 => Cardinality(S) <= MaxBatch)
          /\ \A r, s \in DOMAIN Activated : r < s /\ s \in S => Activated[r].running \/ r \in S
  BY <1>1, HandleShape
<1>3. /\ front' = front + Admitted /\ config' = config /\ due' = due /\ exited' \in BOOLEAN
  BY <1>1 DEF HandleModel, TypeOK, TooLarge
<1>4. /\ Admitted \in Nat /\ front + Admitted <= due /\ front \in Nat /\ due \in Nat /\ MaxBatch \in Nat
      /\ Cardinality(DOMAIN active) \in Nat /\ IsFiniteSet(DOMAIN active) /\ policy \in {"simple", "iter"}
      /\ NumRequests \in Nat /\ due <= NumRequests
  BY <1>1, AdmittedFacts, ConfigFacts
<1>5. TypeOK'
  <2>1. front' \in 0 .. due' /\ due' \in 0 .. NumRequests /\ config' \in Config
    BY <1>1, <1>3, <1>4 DEF TypeOK
  <2>2. DOMAIN active' \subseteq 0 .. front' - 1
    <3>1. DOMAIN Activated \subseteq 0 .. front + Admitted - 1
      BY <1>1, ActivatedFacts
    <3>2. DOMAIN active' = DOMAIN Activated
      BY <1>2
    <3>3. front' - 1 = front + Admitted - 1
      BY <1>3, <1>4
    <3> QED BY <3>1, <3>2, <3>3
  <2>3. generated' \in Nat /\ DOMAIN in_model' \subseteq 0 .. generated' - 1
    <3>1. generated \in Nat /\ DOMAIN in_model \subseteq 0 .. generated - 1
      BY <1>1 DEF TypeOK
    <3>2. CASE in_model' = in_model /\ generated' = generated
      BY <3>1, <3>2
    <3>3. CASE DOMAIN in_model' = {generated} /\ generated' = generated + 1
      BY <3>1, <3>3
    <3> QED BY <1>2, <3>2, <3>3
  <2>4. in_model' \in [DOMAIN in_model' -> SUBSET Request]
    BY <1>1, <1>2 DEF TypeOK
  <2> QED BY <1>2, <1>3, <2>1, <2>2, <2>3, <2>4 DEF TypeOK
<1>6. {r \in DOMAIN active' : active'[r].running} = {r \in DOMAIN active : active[r].running} \cup S
  BY <1>1, <1>2, ActivatedFacts
<1>7. OneInference'
  <2>1. CASE S = {} /\ in_model' = in_model
    BY <1>1, <1>5, <1>6, <2>1 DEF OneInference
  <2>2. CASE DOMAIN in_model = {} /\ DOMAIN in_model' = {generated} /\ in_model'[generated] = S
    <3>1. {r \in DOMAIN active : active[r].running} = {}
      BY <1>1, <2>2 DEF OneInference
    <3>2. UNION {in_model'[m] : m \in DOMAIN in_model'} = S
      BY <2>2
    <3>3. Cardinality(DOMAIN in_model') = 1
      BY <2>2, FS_Singleton
    <3> QED BY <1>5, <1>6, <3>1, <3>2, <3>3 DEF OneInference
  <2> QED BY <1>2, <2>1, <2>2
<1>8. BatchBounded'
  <2> SUFFICES ASSUME MaxBatch > 0
               PROVE  /\ \A m \in DOMAIN in_model' : Cardinality(in_model'[m]) \in 1 .. MaxBatch
                      /\ Cardinality(DOMAIN active') <= (IF policy = "iter" THEN MaxBatch + 1 ELSE MaxBatch)
    BY <1>3 DEF BatchBounded, MaxBatch, policy
  <2>1. ASSUME NEW m \in DOMAIN in_model' PROVE Cardinality(in_model'[m]) \in 1 .. MaxBatch
    <3>1. CASE in_model' = in_model
      BY <2>1, <3>1 DEF IInv, BatchBounded
    <3>2. CASE DOMAIN in_model' = {generated} /\ in_model'[generated] = S /\ S # {} /\ IsFiniteSet(S) /\ Cardinality(S) <= MaxBatch
      <4>1. Cardinality(S) \in Nat /\ Cardinality(S) # 0
        BY <3>2, FS_CardinalityType, FS_EmptySet
      <4>2. in_model'[m] = S
        BY <2>1, <3>2
      <4>3. Cardinality(S) \in 1 .. MaxBatch
        BY <1>4, <3>2, <4>1
      <4> QED BY <4>2, <4>3
    <3> QED BY <1>2, <3>1, <3>2
  <2>2. Cardinality(DOMAIN active') <= Cardinality(DOMAIN active) + Admitted
    <3>1. DOMAIN active' = DOMAIN active \cup (front .. front + Admitted - 1)
      BY <1>1, <1>2, ActivatedFacts
    <3>2. IsFiniteSet(front .. front + Admitted - 1) /\ Cardinality(front .. front + Admitted - 1) = Admitted
      <4>1. front \in Int /\ front + Admitted - 1 \in Int
        BY <1>4
      <4>2. IsFiniteSet(front .. front + Admitted - 1)
        BY <4>1, FS_Interval
      <4>3. Cardinality(front .. front + Admitted - 1)
              = IF front > front + Admitted - 1 THEN 0 ELSE (front + Admitted - 1) - front + 1
        BY <4>1, FS_Interval
      <4> QED BY <1>4, <4>2, <4>3
    <3>3. Cardinality(DOMAIN active \cap (front .. front + Admitted - 1)) \in Nat
      <4>1. IsFiniteSet(DOMAIN active \cap (front .. front + Admitted - 1))
        BY <1>4, FS_Intersection
      <4> QED BY <4>1, FS_CardinalityType
    <3>4. Cardinality(DOMAIN active \cup (front .. front + Admitted - 1))
            = Cardinality(DOMAIN active) + Admitted - Cardinality(DOMAIN active \cap (front .. front + Admitted - 1))
      BY <1>4, <3>2, FS_Union
    <3> QED BY <1>4, <3>1, <3>3, <3>4
  <2>3. Cardinality(DOMAIN active') \in Nat
    BY <1>2, <1>4, <1>5, RequestsFinite DEF TypeOK
  <2>4. Cardinality(DOMAIN active) <= (IF policy = "iter" THEN MaxBatch + 1 ELSE MaxBatch)
    BY DEF IInv, BatchBounded
  <2>5. Cardinality(DOMAIN active') <= (IF policy = "iter" THEN MaxBatch + 1 ELSE MaxBatch)
    <3>1. CASE ~MayAdmit
      <4>1. Admitted = 0
        BY <1>1, <3>1, AdmittedFacts
      <4> QED BY <1>4, <2>2, <2>3, <2>4, <4>1
    <3>2. CASE MayAdmit
      <4>1. Admitted <= 1 \/ Admitted <= MaxBatch - Cardinality(DOMAIN active)
        BY <1>1, AdmittedFacts
      <4>2. CASE policy = "simple"
        <5>1. DOMAIN active = {}
          BY <3>2, <4>2 DEF MayAdmit
        <5>2. Cardinality(DOMAIN active) = 0
          BY <5>1, FS_EmptySet
        <5> QED BY <1>4, <2>2, <2>3, <4>1, <4>2, <5>2
      <4>3. CASE policy = "iter"
        <5>1. Cardinality(DOMAIN active) <= MaxBatch
          BY <1>4, <3>2, <4>3 DEF MayAdmit
        <5> QED BY <1>4, <2>2, <2>3, <4>1, <4>3, <5>1
      <4> QED BY <1>4, <4>2, <4>3
    <3> QED BY <3>1, <3>2
  <2> QED BY <2>1, <2>5
<1>9. OldestFirst'
  <2> SUFFICES ASSUME NEW r \in DOMAIN active', NEW s \in DOMAIN active', r < s, active'[s].running \/ active'[s].gen
               PROVE  active'[r].running \/ active'[r].gen
    BY DEF OldestFirst
  <2>1. r \in DOMAIN Activated /\ s \in DOMAIN Activated
    BY <1>2
  <2>2. CASE s \in S
    BY <1>2, <2>1, <2>2
  <2>3. CASE s \notin S
    <3>1. Activated[s].running \/ Activated[s].gen
      BY <1>2, <2>1, <2>3
    <3>2. s \in DOMAIN active /\ Activated[s] = active[s]
      BY <1>1, <2>1, <3>1, ActivatedFacts
    <3>3. r \in DOMAIN active
      <4>1. s \in 0 .. front - 1 /\ r \in Int
        BY <1>1, <1>4, <1>5, <3>2 DEF TypeOK
      <4>2. ~(r >= front)
        BY <1>4, <4>1
      <4> QED BY <1>1, <2>1, <4>2, ActivatedFacts
    <3>4. active[r].running \/ active[r].gen
      BY <3>1, <3>2, <3>3 DEF IInv, OldestFirst
    <3> QED BY <1>1, <1>2, <2>1, <3>3, <3>4, ActivatedFacts
  <2> QED BY <2>2, <2>3
<1> QED BY <1>7, <1>8, <1>9 DEF IInv

(* The end of an inference.                                                 *)
LEMMA FinishInv == ASSUME IInv, NEW m \in DOMAIN in_model, FinishModel(m) PROVE IInv'
<1>1. TypeOK /\ OneInference
  BY DEF IInv, OneInference
<1> DEFINE S == in_model[m]
           done == {r \in S : HasAll(r)}
<1>2. /\ active' = [r \in DOMAIN active \ done |-> IF r \in S THEN Ran(r) ELSE active[r]]
      /\ in_model' = [k \in DOMAIN in_model \ {m} |-> in_model[k]]
      /\ config' = config /\ due' = due /\ front' = front /\ generated' = generated /\ exited' = exited
  BY DEF FinishModel
<1>3. DOMAIN in_model = {m}
  <2>1. DOMAIN in_model \subseteq 0 .. generated - 1 /\ generated \in Nat
    BY <1>1 DEF TypeOK
  <2>2. IsFiniteSet(DOMAIN in_model) /\ Cardinality(DOMAIN in_model) \in Nat
    BY <2>1, RequestsFinite
  <2>3. Cardinality(DOMAIN in_model) # 0
    BY <2>2, FS_EmptySet
  <2>4. Cardinality(DOMAIN in_model) = 1
    BY <1>1, <2>2, <2>3 DEF OneInference
  <2> QED BY <2>2, <2>4, FS_Singleton
<1>4. {r \in DOMAIN active : active[r].running} = S
  BY <1>1, <1>3 DEF OneInference
<1>5. S \subseteq Request /\ S \subseteq DOMAIN active
  BY <1>1, <1>4 DEF TypeOK
<1>6. DOMAIN in_model' = {}
  BY <1>2, <1>3
<1>7. ASSUME NEW r \in S PROVE Ran(r) \in LangRequest /\ Ran(r).gen = TRUE /\ Ran(r).running = FALSE
  <2>1. active[r] \in LangRequest /\ Prompt[r] \in Nat
    BY <1>1, <1>5, LanguageAssumption DEF TypeOK
  <2>2. Grown(r) \in Nat
    BY <2>1 DEF Grown, LangRequest
  <2> QED BY <2>2 DEF Ran, LangRequest
<1>8. DOMAIN active' \subseteq DOMAIN active
  BY <1>2
<1>9. ASSUME NEW r \in DOMAIN active'
      PROVE  /\ r \in DOMAIN active
             /\ r \in S => active'[r] = Ran(r)
             /\ r \notin S => active'[r] = active[r]
  BY <1>2
<1> HIDE DEF S, done
<1>10. TypeOK'
  <2>1. \A r \in DOMAIN active' : active'[r] \in LangRequest
    BY <1>1, <1>7, <1>9 DEF TypeOK
  <2>2. active' \in [DOMAIN active' -> LangRequest]
    <3>1. active' = [r \in DOMAIN active' |-> active'[r]]
      BY <1>2
    <3> QED BY <2>1, <3>1
  <2>3. in_model' \in [DOMAIN in_model' -> SUBSET Request] /\ DOMAIN in_model' \subseteq 0 .. generated' - 1
    BY <1>2, <1>6
  <2>4. DOMAIN active' \subseteq 0 .. front' - 1
    BY <1>1, <1>2, <1>8 DEF TypeOK
  <2> QED BY <1>1, <1>2, <2>2, <2>3, <2>4 DEF TypeOK
<1>11. OneInference'
  <2>1. {r \in DOMAIN active' : active'[r].running} = {}
    <3>1. ASSUME NEW r \in DOMAIN active' PROVE ~active'[r].running
      BY <1>4, <1>7, <1>9
    <3> QED BY <3>1
  <2>2. Cardinality(DOMAIN in_model') = 0 /\ UNION {in_model'[k] : k \in DOMAIN in_model'} = {}
    BY <1>6, FS_EmptySet
  <2> QED BY <1>10, <2>1, <2>2 DEF OneInference
<1>12. BatchBounded'
  <2>1. IsFiniteSet(DOMAIN active) /\ Cardinality(DOMAIN active) \in Nat /\ MaxBatch \in Nat
    BY <1>1, ConfigFacts
  <2>2. Cardinality(DOMAIN active') <= Cardinality(DOMAIN active) /\ Cardinality(DOMAIN active') \in Nat
    BY <1>8, <2>1, FS_Subset, FS_CardinalityType
  <2>3. MaxBatch > 0 => Cardinality(DOMAIN active) <= (IF policy = "iter" THEN MaxBatch + 1 ELSE MaxBatch)
    BY DEF IInv, BatchBounded
  <2>4. MaxBatch > 0 => Cardinality(DOMAIN active') <= (IF policy = "iter" THEN MaxBatch + 1 ELSE MaxBatch)
    BY <2>1, <2>2, <2>3
  <2>5. MaxBatch' = MaxBatch /\ policy' = policy
    BY <1>2 DEF MaxBatch, policy
  <2> QED BY <1>6, <2>4, <2>5 DEF BatchBounded
<1>13. OldestFirst'
  <2> SUFFICES ASSUME NEW r \in DOMAIN active', NEW s \in DOMAIN active', r < s, active'[s].running \/ active'[s].gen
               PROVE  active'[r].running \/ active'[r].gen
    BY DEF OldestFirst
  <2>1. active[s].running \/ active[s].gen
    BY <1>4, <1>9
  <2>2. active[r].running \/ active[r].gen
    BY <1>9, <2>1 DEF IInv, OldestFirst
  <2> QED BY <1>4, <1>7, <1>9, <2>2
<1> QED BY <1>11, <1>12, <1>13 DEF IInv

LEMMA StepInv == IInv /\ [Next]_vars => IInv'
<1> SUFFICES ASSUME IInv, [Next]_vars PROVE IInv'
  OBVIOUS
<1>1. CASE HandleModel
  BY <1>1, HandleInv
<1>2. ASSUME NEW m \in DOMAIN in_model, FinishModel(m) PROVE IInv'
  BY <1>2, FinishInv
<1>3. CASE Arrive
  <2>1. /\ config' = config /\ due' = due + 1 /\ front' = front /\ active' = active /\ in_model' = in_model
        /\ generated' = generated /\ exited' = exited /\ due < NumRequests
    BY <1>3 DEF Arrive
  <2>2. TypeOK /\ due \in Nat /\ front \in Nat /\ front <= due /\ NumRequests \in Nat
    BY ConfigFacts DEF IInv, OneInference
  <2>3. TypeOK'
    BY <2>1, <2>2 DEF TypeOK
  <2>4. OneInference'
    BY <2>1, <2>3 DEF IInv, OneInference
  <2> QED BY <2>1, <2>4 DEF IInv, BatchBounded, OldestFirst, MaxBatch, policy
<1>4. CASE UNCHANGED vars
  BY <1>4 DEF vars, IInv, OneInference, BatchBounded, OldestFirst, TypeOK, MaxBatch, policy
<1>5. CASE Stopped
  BY <1>4, <1>5 DEF Stopped
<1> QED BY <1>1, <1>2, <1>3, <1>4, <1>5 DEF Next

-----------------------------------------------------------------------------
(* Serving the trace.                                                      *)

(* An active request has a whole context: what was cached until its prompt  *)
(* is computed, and then a row for each row of the prompt and for each of   *)
(* the tokens it was given, of which at least one is missing.               *)
ContextOf(r, a) ==
  IF a.gen THEN Cached[r] + Prompt[r] < a.current /\ a.current < TargetLength(r)
           ELSE a.current = Cached[r]
Contexts == \A r \in DOMAIN active : ContextOf(r, active[r])

TokensInv == IInv /\ Contexts

LEMMA TraceFacts ==
  ASSUME NEW r \in Request
  PROVE  /\ Prompt[r] \in Nat /\ Cached[r] \in Nat /\ Target[r] \in Nat
         /\ TargetLength(r) = Cached[r] + Prompt[r] + Target[r]
         /\ TokensOf(r) = (IF Target[r] = 0 THEN 1 ELSE Target[r])
BY LanguageAssumption DEF TargetLength, TokensOf

LEMMA ActiveFacts ==
  ASSUME TypeOK, NEW r \in DOMAIN active
  PROVE  r \in Request /\ r \in Nat /\ r < front /\ active[r] \in LangRequest /\ active[r].current \in Nat
<1>1. r \in 0 .. front - 1 /\ active[r] \in LangRequest /\ front \in Nat /\ front <= due /\ due <= NumRequests /\ due \in Nat /\ NumRequests \in Nat
  BY ConfigFacts DEF TypeOK
<1>2. r \in Nat /\ r < front /\ r <= NumRequests - 1
  BY <1>1
<1> QED BY <1>1, <1>2 DEF Request, LangRequest

(* A request that is admitted has the context that was cached.              *)
LEMMA HandleKeepsContexts ==
  ASSUME TokensInv, HandleModel
  PROVE  /\ Contexts'
         /\ DOMAIN active' = DOMAIN active \cup (front .. front + Admitted - 1)
         /\ \A r \in DOMAIN active : active'[r].gen = active[r].gen /\ active'[r].current = active[r].current
         /\ \A r \in DOMAIN active' \ DOMAIN active : ~active'[r].gen
<1>1. TypeOK
  BY DEF TokensInv, IInv, OneInference
<1>2. /\ DOMAIN Activated = DOMAIN active \cup (front .. front + Admitted - 1)
      /\ \A r \in DOMAIN active : Activated[r] = active[r]
      /\ \A r \in DOMAIN Activated \ DOMAIN active : Activated[r] = NewRequest(r)
      /\ \A r \in DOMAIN Activated : Activated[r] \in LangRequest
  BY <1>1, ActivatedFacts DEF Activated
<1>3. /\ DOMAIN active' = DOMAIN Activated
      /\ \A r \in DOMAIN Activated : active'[r].gen = Activated[r].gen /\ active'[r].current = Activated[r].current
  <2> DEFINE S == Inputs(Activated)
  <2>1. CASE active' = [r \in DOMAIN Activated |-> [Activated[r] EXCEPT !.running = @ \/ r \in S]]
    <3> HIDE DEF S
    <3>1. \A r \in DOMAIN Activated : active'[r] = [Activated[r] EXCEPT !.running = Activated[r].running \/ r \in S]
      BY <2>1
    <3> QED BY <1>2, <2>1, <3>1 DEF LangRequest
  <2>2. CASE active' = Activated
    BY <2>2
  <2> QED BY <2>1, <2>2 DEF HandleModel
<1>4. ASSUME NEW r \in DOMAIN active', r \notin DOMAIN active PROVE ~active'[r].gen /\ active'[r].current = Cached[r]
  <2>1. r \in DOMAIN Activated /\ Activated[r] = NewRequest(r)
    BY <1>2, <1>3, <1>4
  <2>2. ~NewRequest(r).gen /\ NewRequest(r).current = Cached[r]
    BY DEF NewRequest
  <2> QED BY <1>3, <2>1, <2>2
<1>5. Contexts'
  <2> SUFFICES ASSUME NEW r \in DOMAIN active' PROVE ContextOf(r, active'[r])
    BY DEF Contexts, ContextOf, TargetLength
  <2>1. CASE r \in DOMAIN active
    <3>1. ContextOf(r, active[r])
      BY <2>1 DEF TokensInv, Contexts
    <3>2. active'[r].gen = active[r].gen /\ active'[r].current = active[r].current
      BY <1>2, <1>3, <2>1
    <3> QED BY <3>1, <3>2 DEF ContextOf
  <2>2. CASE r \notin DOMAIN active
    BY <1>4, <2>2 DEF ContextOf
  <2> QED BY <2>1, <2>2
<1> QED BY <1>2, <1>3, <1>4, <1>5

(* A request of an inference is given one more token, and is erased with    *)
(* the last one it asks for.                                                *)
LEMMA GrownFacts ==
  ASSUME TypeOK, NEW r \in DOMAIN active, ContextOf(r, active[r])
  PROVE  /\ Produced(r) < TokensOf(r)
         /\ Produced(r) \in Nat
         /\ HasAll(r) => Produced(r) + 1 = TokensOf(r)
         /\ ~HasAll(r) => ContextOf(r, Ran(r)) /\ Produced(r) + 1 = Grown(r) - Cached[r] - Prompt[r]
<1>1. /\ Prompt[r] \in Nat /\ Cached[r] \in Nat /\ Target[r] \in Nat
      /\ TargetLength(r) = Cached[r] + Prompt[r] + Target[r]
      /\ TokensOf(r) = (IF Target[r] = 0 THEN 1 ELSE Target[r])
  BY ActiveFacts, TraceFacts
<1>2. r \in Nat /\ r < front /\ front \in Nat /\ active[r].current \in Nat /\ active[r].gen \in BOOLEAN
  BY ActiveFacts, ConfigFacts DEF LangRequest
<1>3. Produced(r) = IF active[r].gen THEN active[r].current - Cached[r] - Prompt[r] ELSE 0
  BY <1>2 DEF Produced
<1>4. Grown(r) = IF active[r].gen THEN active[r].current + 1 ELSE active[r].current + Prompt[r] + 1
  BY DEF Grown
<1>5. HasAll(r) <=> Grown(r) >= TargetLength(r)
  BY DEF HasAll
<1>6. Ran(r).gen /\ Ran(r).current = Grown(r)
  BY DEF Ran
<1>7. CASE active[r].gen
  <2>1. Cached[r] + Prompt[r] < active[r].current /\ active[r].current < TargetLength(r)
    BY <1>7 DEF ContextOf
  <2> QED BY <1>1, <1>2, <1>3, <1>4, <1>5, <1>6, <1>7, <2>1 DEF ContextOf
<1>8. CASE ~active[r].gen
  <2>1. active[r].current = Cached[r]
    BY <1>8 DEF ContextOf
  <2>2. Produced(r) = 0 /\ Grown(r) = Cached[r] + Prompt[r] + 1
    BY <1>3, <1>4, <1>8, <2>1
  <2>3. /\ Produced(r) < TokensOf(r) /\ Produced(r) \in Nat
        /\ HasAll(r) => Produced(r) + 1 = TokensOf(r)
    BY <1>1, <1>5, <2>2
  <2>4. ASSUME ~HasAll(r)
        PROVE  ContextOf(r, Ran(r)) /\ Produced(r) + 1 = Grown(r) - Cached[r] - Prompt[r]
    <3>1. Cached[r] + Prompt[r] < Grown(r) /\ Grown(r) < TargetLength(r)
      BY <1>1, <1>5, <2>2, <2>4
    <3> QED BY <1>1, <1>6, <2>2, <3>1 DEF ContextOf
  <2> QED BY <2>3, <2>4
<1> QED BY <1>7, <1>8

LEMMA FinishShape ==
  ASSUME TokensInv, NEW m \in DOMAIN in_model, FinishModel(m)
  PROVE  /\ in_model[m] \subseteq DOMAIN active /\ front' = front
         /\ DOMAIN active' = DOMAIN active \ {r \in in_model[m] : HasAll(r)}
         /\ \A r \in DOMAIN active' : active'[r] = IF r \in in_model[m] THEN Ran(r) ELSE active[r]
<1>1. OneInference
  BY DEF TokensInv, IInv
<1>2. in_model[m] \subseteq {r \in DOMAIN active : active[r].running}
  BY <1>1 DEF OneInference
<1> QED BY <1>2 DEF FinishModel

LEMMA FinishKeepsContexts ==
  ASSUME TokensInv, NEW m \in DOMAIN in_model, FinishModel(m)
  PROVE  Contexts'
<1>1. TypeOK
  BY DEF TokensInv, IInv, OneInference
<1>2. /\ DOMAIN active' = DOMAIN active \ {r \in in_model[m] : HasAll(r)}
      /\ \A r \in DOMAIN active' : active'[r] = IF r \in in_model[m] THEN Ran(r) ELSE active[r]
  BY FinishShape
<1> SUFFICES ASSUME NEW r \in DOMAIN active' PROVE ContextOf(r, active'[r])
  BY DEF Contexts, ContextOf, TargetLength
<1>3. r \in DOMAIN active /\ ContextOf(r, active[r])
  BY <1>2 DEF TokensInv, Contexts
<1>4. CASE r \in in_model[m]
  <2>1. ~HasAll(r) /\ active'[r] = Ran(r)
    BY <1>2, <1>4
  <2> QED BY <1>1, <1>3, <2>1, GrownFacts
<1>5. CASE r \notin in_model[m]
  BY <1>2, <1>3, <1>5
<1> QED BY <1>4, <1>5

LEMMA TokensStep == TokensInv /\ [Next]_vars => TokensInv'
<1> SUFFICES ASSUME TokensInv, [Next]_vars PROVE Contexts'
  BY StepInv DEF TokensInv
<1>1. CASE HandleModel
  BY <1>1, HandleKeepsContexts
<1>2. ASSUME NEW m \in DOMAIN in_model, FinishModel(m) PROVE Contexts'
  BY <1>2, FinishKeepsContexts
<1>3. CASE Arrive \/ Stopped \/ UNCHANGED vars
  <2>1. active' = active
    BY <1>3 DEF Arrive, Stopped, vars
  <2> QED BY <2>1 DEF TokensInv, Contexts, ContextOf, TargetLength
<1> QED BY <1>1, <1>2, <1>3 DEF Next

LEMMA TokensInit == Init => TokensInv
<1>1. Init => DOMAIN active = {}
  BY DEF Init
<1> QED BY <1>1, InitInv DEF TokensInv, Contexts

-----------------------------------------------------------------------------
(* Each step is a step of the service, or none.                            *)

LEMMA ServiceInitHolds == Init => Tokens!ServiceInit
<1> SUFFICES ASSUME Init PROVE Tokens!ServiceInit
  OBVIOUS
<1>1. front = 0 /\ \A r \in Request : r \in Nat
  BY LanguageAssumption DEF Init, Request
<1>2. \A r \in Request : ~(r < front) /\ Produced(r) = 0
  BY <1>1 DEF Produced
<1> QED BY <1>1, <1>2 DEF Tokens!ServiceInit, Tokens!Requests, Request

Prefilled == {r \in Request : r < front /\ (r \in DOMAIN active => active[r].gen)}
ProducedBy == [r \in Request |-> Produced(r)]

LEMMA HandleStarts == ASSUME TokensInv, HandleModel PROVE Tokens!StartRequests
<1>1. TypeOK
  BY DEF TokensInv, IInv, OneInference
<1>2. /\ front \in Nat /\ Admitted \in Nat /\ front + Admitted <= NumRequests /\ NumRequests \in Nat /\ front' = front + Admitted
  BY <1>1, ConfigFacts, AdmittedFacts DEF HandleModel
<1>3. /\ DOMAIN active' = DOMAIN active \cup (front .. front + Admitted - 1)
      /\ \A r \in DOMAIN active : active'[r].gen = active[r].gen /\ active'[r].current = active[r].current
      /\ \A r \in DOMAIN active' \ DOMAIN active : ~active'[r].gen
  BY HandleKeepsContexts
<1>4. ASSUME NEW r \in Request
      PROVE  /\ r < front' /\ (r \in DOMAIN active' => active'[r].gen) <=> r < front /\ (r \in DOMAIN active => active[r].gen)
             /\ Produced(r)' = Produced(r)
  <2>1. r \in Nat
    BY <1>2 DEF Request
  <2>2. CASE r < front
    <3>1. r < front' /\ r \notin front .. front + Admitted - 1
      BY <1>2, <2>1, <2>2
    <3>2. r \in DOMAIN active' <=> r \in DOMAIN active
      BY <1>3, <3>1
    <3>3. ~(r >= front) /\ ~(r >= front')
      BY <1>2, <2>1, <2>2, <3>1
    <3> QED BY <1>3, <2>2, <3>1, <3>2, <3>3 DEF Produced, TokensOf
  <2>3. CASE ~(r < front) /\ r < front'
    <3>1. r \in front .. front + Admitted - 1 /\ r >= front /\ ~(r >= front')
      BY <1>2, <2>1, <2>3
    <3>2. r \notin DOMAIN active
      BY <1>1, <2>3, ActiveFacts
    <3>3. r \in DOMAIN active' /\ ~active'[r].gen
      BY <1>3, <3>1, <3>2
    <3> QED BY <2>3, <3>1, <3>3 DEF Produced
  <2>4. CASE ~(r < front) /\ ~(r < front')
    <3>1. r >= front /\ r >= front'
      BY <1>2, <2>1, <2>4
    <3> QED BY <2>4, <3>1 DEF Produced
  <2> QED BY <2>2, <2>3, <2>4
<1>5. Prefilled' = Prefilled
  BY <1>4 DEF Prefilled
<1>6. ProducedBy' = ProducedBy
  BY <1>4 DEF ProducedBy
<1>7. front' \in front .. NumRequests
  BY <1>2
<1> QED BY <1>5, <1>6, <1>7 DEF Tokens!StartRequests, Prefilled, ProducedBy

LEMMA FinishInfers ==
  ASSUME TokensInv, NEW m \in DOMAIN in_model, FinishModel(m)
  PROVE  \E S \in SUBSET Tokens!Requests : Tokens!Infer(S)
<1>1. TypeOK
  BY DEF TokensInv, IInv, OneInference
<1>0. PICK S : S = in_model[m]
  OBVIOUS
<1>2. /\ S \subseteq DOMAIN active /\ front' = front
      /\ DOMAIN active' = DOMAIN active \ {r \in S : HasAll(r)}
      /\ \A r \in DOMAIN active' : active'[r] = IF r \in S THEN Ran(r) ELSE active[r]
  BY <1>0, FinishShape
<1>3. \A r \in S : r \in Request /\ r < front /\ r \in Nat
  BY <1>1, <1>2, ActiveFacts
<1>4. front \in Nat
  BY <1>1, ConfigFacts
<1>5. ASSUME NEW r \in S
      PROVE  Produced(r) < TokensOf(r) /\ Produced(r)' = Produced(r) + 1
             /\ r < front /\ (r \in DOMAIN active' => active'[r].gen)
  <2>1. /\ Produced(r) < TokensOf(r)
        /\ HasAll(r) => Produced(r) + 1 = TokensOf(r)
        /\ ~HasAll(r) => Produced(r) + 1 = Grown(r) - Cached[r] - Prompt[r]
    BY <1>1, <1>2, GrownFacts DEF TokensInv, Contexts
  <2>2. ~(r >= front') /\ r < front'
    BY <1>2, <1>3, <1>4
  <2>3. CASE HasAll(r)
    <3>1. r \notin DOMAIN active'
      BY <1>2, <2>3
    <3> QED BY <1>3, <2>1, <2>2, <2>3, <3>1 DEF Produced, TokensOf
  <2>4. CASE ~HasAll(r)
    <3>1. r \in DOMAIN active' /\ active'[r] = Ran(r)
      BY <1>2, <2>4
    <3>2. active'[r].gen /\ active'[r].current = Grown(r)
      BY <3>1 DEF Ran
    <3> QED BY <1>3, <2>1, <2>2, <2>4, <3>1, <3>2 DEF Produced
  <2> QED BY <2>3, <2>4
<1>6. ASSUME NEW r \in Request, r \notin S
      PROVE  /\ Produced(r)' = Produced(r)
             /\ r \in DOMAIN active' <=> r \in DOMAIN active
             /\ r \in DOMAIN active => active'[r] = active[r]
  <2>1. /\ r \in DOMAIN active' <=> r \in DOMAIN active
        /\ r \in DOMAIN active => active'[r] = active[r]
    BY <1>2, <1>6
  <2>2. Produced(r)' = Produced(r)
    <3>0. front' = front
      BY <1>2
    <3>4. r \in Int
      BY LanguageAssumption DEF Request
    <3>1. CASE r >= front
      <4>1. r >= front' /\ ~(r < front) /\ ~(r < front')
        BY <1>4, <3>0, <3>1, <3>4
      <4>2. Produced(r) = 0 /\ Produced(r)' = 0
        BY <3>1, <4>1 DEF Produced
      <4> QED BY <4>2
    <3>2. CASE ~(r >= front) /\ r < front /\ r \notin DOMAIN active
      BY <1>2, <2>1, <3>2 DEF Produced, TokensOf
    <3>3. CASE ~(r >= front) /\ r \in DOMAIN active
      BY <1>2, <2>1, <3>3 DEF Produced
    <3>5. r >= front \/ (~(r >= front) /\ r < front)
      BY <1>4, <3>4
    <3> QED BY <3>1, <3>2, <3>3, <3>5
  <2> QED BY <2>1, <2>2
<1>7. Prefilled' = Prefilled \cup S
  <2>1. ASSUME NEW r \in Request PROVE r \in Prefilled' <=> r \in Prefilled \cup S
    <3>1. CASE r \in S
      BY <1>2, <1>5, <3>1 DEF Prefilled
    <3>2. CASE r \notin S
      BY <1>2, <1>6, <3>2 DEF Prefilled
    <3> QED BY <3>1, <3>2
  <2>2. S \subseteq Request /\ Prefilled \subseteq Request /\ Prefilled' \subseteq Request
    BY <1>3 DEF Prefilled
  <2> QED BY <2>1, <2>2
<1>8. ProducedBy' = [r \in Request |-> IF r \in S THEN ProducedBy[r] + 1 ELSE ProducedBy[r]]
  <2>1. \A r \in Request : ProducedBy[r] = Produced(r)
    BY DEF ProducedBy
  <2>2. \A r \in Request : Produced(r)' = IF r \in S THEN Produced(r) + 1 ELSE Produced(r)
    BY <1>5, <1>6
  <2> QED BY <2>1, <2>2 DEF ProducedBy
<1>9. \A r \in S : r < front /\ ProducedBy[r] < TokensOf(r)
  BY <1>3, <1>5 DEF ProducedBy
<1>10. Tokens!Infer(S)
  BY <1>2, <1>7, <1>8, <1>9 DEF Tokens!Infer, Tokens!Requests, Prefilled, ProducedBy, Request
<1>11. S \in SUBSET Tokens!Requests
  BY <1>3 DEF Tokens!Requests, Request
<1> QED BY <1>10, <1>11

LEMMA ServiceStep == TokensInv /\ [Next]_vars => [Tokens!ServiceNext]_(Tokens!service)
<1> SUFFICES ASSUME TokensInv, [Next]_vars PROVE Tokens!ServiceNext \/ UNCHANGED Tokens!service
  OBVIOUS
<1>1. CASE HandleModel
  BY <1>1, HandleStarts DEF Tokens!ServiceNext
<1>2. ASSUME NEW m \in DOMAIN in_model, FinishModel(m) PROVE Tokens!ServiceNext
  <2>1. PICK S \in SUBSET Tokens!Requests : Tokens!Infer(S)
    BY <1>2, FinishInfers
  <2> QED BY <2>1 DEF Tokens!ServiceNext
<1>3. CASE Arrive \/ Stopped \/ UNCHANGED vars
  <2>1. active' = active /\ front' = front
    BY <1>3 DEF Arrive, Stopped, vars
  <2>2. Prefilled' = Prefilled /\ ProducedBy' = ProducedBy
    BY <2>1 DEF Prefilled, ProducedBy, Produced, TokensOf
  <2> QED BY <2>1, <2>2 DEF Tokens!service, Prefilled, ProducedBy
<1> QED BY <1>1, <1>2, <1>3 DEF Next

-----------------------------------------------------------------------------
(* The graph of an inference.                                              *)

(* The operations of a layer, one by one.                                   *)
LayerOp(l, n, i) ==
  IF i = 1 THEN Op("QKVgen", l, 0) ELSE IF i = 2 THEN Op("KVccat", l, 0)
  ELSE IF i <= n + 2 THEN Op("Attention", l, i - 2)
  ELSE Op(<<"Atccat", "proj", "attn.ln", "fc1", "act", "fc2", "ffn.ln">>[i - n - 2], l, 0)

LEMMA LayerOpsFacts ==
  ASSUME NEW n \in Nat, NEW l, NEW i \in 1 .. LayerSize(n)
  PROVE  LayerOps(l, n)[i] = LayerOp(l, n, i)
<1>1. PICK first : first = <<Op("QKVgen", l, 0), Op("KVccat", l, 0)>>
  OBVIOUS
<1>2. PICK heads : heads = [b \in 1 .. n |-> Op("Attention", l, b)]
  OBVIOUS
<1>3. PICK last : last = <<Op("Atccat", l, 0), Op("proj", l, 0), Op("attn.ln", l, 0),
         Op("fc1", l, 0), Op("act", l, 0), Op("fc2", l, 0), Op("ffn.ln", l, 0)>>
  OBVIOUS
<1>4. LayerOps(l, n) = (first \o heads) \o last
  BY <1>1, <1>2, <1>3 DEF LayerOps
<1> DEFINE T == [kind : {"QKVgen", "KVccat", "Attention", "Atccat", "proj", "attn.ln", "fc1", "act", "fc2", "ffn.ln"},
                 layer : {l}, request : Nat]
<1> HIDE DEF T
<1>6. first \in Seq(T) /\ Len(first) = 2
  <2>1. Op("QKVgen", l, 0) \in T /\ Op("KVccat", l, 0) \in T
    BY DEF T, Op
  <2> QED BY <1>1, <2>1
<1>7. heads \in Seq(T) /\ Len(heads) = n
  <2>1. \A b \in 1 .. n : Op("Attention", l, b) \in T
    BY DEF T, Op
  <2> QED BY <1>2, <2>1
<1>8. last \in Seq(T) /\ Len(last) = 7
  <2>1. Op("Atccat", l, 0) \in T /\ Op("proj", l, 0) \in T /\ Op("attn.ln", l, 0) \in T /\ Op("fc1", l, 0) \in T
    BY DEF T, Op
  <2>2. Op("act", l, 0) \in T /\ Op("fc2", l, 0) \in T /\ Op("ffn.ln", l, 0) \in T
    BY DEF T, Op
  <2> QED BY <1>3, <2>1, <2>2
<1>0. PICK h : h = first \o heads
  OBVIOUS
<1>13. /\ h \in Seq(T) /\ Len(h) = n + 2
       /\ \A k \in 1 .. n + 2 : h[k] = IF k <= 2 THEN first[k] ELSE heads[k - 2]
  <2>1. /\ h \in Seq(T) /\ Len(h) = 2 + n
        /\ \A k \in 1 .. 2 + n : h[k] = IF k <= 2 THEN first[k] ELSE heads[k - 2]
    <3>1. /\ first \o heads \in Seq(T) /\ Len(first \o heads) = Len(first) + Len(heads)
          /\ \A k \in 1 .. Len(first) + Len(heads) :
               (first \o heads)[k] = IF k <= Len(first) THEN first[k] ELSE heads[k - Len(first)]
      BY <1>6, <1>7, ConcatProperties, Zenon
    <3> QED BY <1>0, <1>6, <1>7, <3>1, Zenon
  <2> QED BY <2>1
<1>14. \A k \in 1 .. n + 9 : LayerOps(l, n)[k] = IF k <= n + 2 THEN h[k] ELSE last[k - (n + 2)]
  <2>1. LayerOps(l, n) = h \o last
    BY <1>0, <1>4
  <2>2. \A k \in 1 .. (n + 2) + 7 : (h \o last)[k] = IF k <= n + 2 THEN h[k] ELSE last[k - (n + 2)]
    <3>1. \A k \in 1 .. Len(h) + Len(last) : (h \o last)[k] = IF k <= Len(h) THEN h[k] ELSE last[k - Len(h)]
      BY <1>8, <1>13, ConcatProperties, Zenon
    <3> QED BY <1>8, <1>13, <3>1, Zenon
  <2>3. (n + 2) + 7 = n + 9
    OBVIOUS
  <2> QED BY <2>1, <2>2, <2>3
<1>9. LayerSize(n) = n + 9
  BY DEF LayerSize
<1>10. CASE i <= 2
  <2>1. LayerOps(l, n)[i] = first[i]
    BY <1>9, <1>10, <1>13, <1>14
  <2> QED BY <1>1, <1>10, <2>1 DEF LayerOp
<1>11. CASE 2 < i /\ i <= n + 2
  <2>1. LayerOps(l, n)[i] = heads[i - 2] /\ i - 2 \in 1 .. n
    BY <1>9, <1>11, <1>13, <1>14
  <2> QED BY <1>2, <1>11, <2>1 DEF LayerOp
<1>12. CASE n + 2 < i
  <2>1. PICK j \in 1 .. 7 : i = n + 2 + j
    BY <1>9, <1>12
  <2>2. LayerOps(l, n)[i] = last[j]
    <3>1. i \in 1 .. n + 9 /\ ~(i <= n + 2) /\ i - (n + 2) = j
      BY <1>9, <1>12, <2>1
    <3> QED BY <1>14, <3>1
  <2>3. LayerOp(l, n, i) = Op(<<"Atccat", "proj", "attn.ln", "fc1", "act", "fc2", "ffn.ln">>[j], l, 0)
    <3>1. i - n - 2 = j /\ i # 1 /\ i # 2 /\ ~(i <= n + 2)
      BY <2>1
    <3> QED BY <3>1 DEF LayerOp
  <2> QED BY <1>3, <2>2, <2>3
<1> QED BY <1>10, <1>11, <1>12

(* An operation of the model for n requests.                                *)
OpShape(op, n) ==
  /\ op = Op(op.kind, op.layer, op.request) /\ op.layer \in 1 .. NumLayers /\ op.request \in Nat
  /\ \/ op.kind = "Attention" /\ op.request \in 1 .. n
     \/ op.kind \in {"QKVgen", "KVccat", "Atccat", "proj", "attn.ln", "fc1", "act", "fc2", "ffn.ln"} /\ op.request = 0

LEMMA LayerOpShape ==
  ASSUME NEW n \in Nat, NEW l \in 1 .. NumLayers, NEW i \in 1 .. LayerSize(n)
  PROVE  OpShape(LayerOp(l, n, i), n) /\ LayerOp(l, n, i).layer = l
<1>1. LayerSize(n) = n + 9 /\ NumLayers \in Nat
  BY ModelAssumption DEF LayerSize
<1>2. CASE i <= 2
  BY <1>2 DEF LayerOp, OpShape, Op
<1>3. CASE 2 < i /\ i <= n + 2
  BY <1>3 DEF LayerOp, OpShape, Op
<1>4. CASE n + 2 < i
  <2>1. PICK j \in 1 .. 7 : i - n - 2 = j
    BY <1>1, <1>4
  <2>2. LayerOp(l, n, i) = Op(<<"Atccat", "proj", "attn.ln", "fc1", "act", "fc2", "ffn.ln">>[j], l, 0)
    BY <1>4, <2>1 DEF LayerOp
  <2>3. j = 1 \/ j = 2 \/ j = 3 \/ j = 4 \/ j = 5 \/ j = 6 \/ j = 7
    OBVIOUS
  <2> QED BY <2>2, <2>3 DEF OpShape, Op
<1> QED BY <1>2, <1>3, <1>4

LEMMA LayerOpTells ==
  ASSUME NEW n \in Nat, NEW l, NEW i \in 1 .. LayerSize(n), NEW j \in 1 .. LayerSize(n), LayerOp(l, n, i) = LayerOp(l, n, j)
  PROVE  i = j
<1> DEFINE Rest == <<"Atccat", "proj", "attn.ln", "fc1", "act", "fc2", "ffn.ln">>
<1>1. LayerSize(n) = n + 9
  BY DEF LayerSize
<1>2. ASSUME NEW k \in 1 .. LayerSize(n)
      PROVE  /\ LayerOp(l, n, k).kind = "QKVgen" <=> k = 1
             /\ LayerOp(l, n, k).kind = "KVccat" <=> k = 2
             /\ LayerOp(l, n, k).kind = "Attention" <=> 2 < k /\ k <= n + 2
             /\ LayerOp(l, n, k).kind = "Attention" => LayerOp(l, n, k).request = k - 2
             /\ n + 2 < k => k - n - 2 \in 1 .. 7 /\ LayerOp(l, n, k).kind = Rest[k - n - 2]
  <2>1. CASE k <= 2
    BY <2>1 DEF LayerOp, Op
  <2>2. CASE 2 < k /\ k <= n + 2
    BY <2>2 DEF LayerOp, Op
  <2>3. CASE n + 2 < k
    <3>1. PICK m \in 1 .. 7 : k - n - 2 = m
      BY <1>1, <2>3
    <3>2. LayerOp(l, n, k) = Op(Rest[m], l, 0)
      BY <2>3, <3>1 DEF LayerOp
    <3>3. m = 1 \/ m = 2 \/ m = 3 \/ m = 4 \/ m = 5 \/ m = 6 \/ m = 7
      OBVIOUS
    <3>4. Rest[m] \notin {"QKVgen", "KVccat", "Attention"}
      BY <3>3
    <3> QED BY <2>3, <3>1, <3>2, <3>4 DEF Op
  <2> QED BY <2>1, <2>2, <2>3
<1>3. \A a, b \in 1 .. 7 : Rest[a] = Rest[b] => a = b
  OBVIOUS
<1> HIDE DEF Rest
<1>4. CASE i <= 2 \/ j <= 2
  BY <1>1, <1>2, <1>4
<1>5. CASE 2 < i /\ i <= n + 2
  BY <1>1, <1>2, <1>5
<1>6. CASE n + 2 < i /\ n + 2 < j
  <2>1. Rest[i - n - 2] = Rest[j - n - 2] /\ i - n - 2 \in 1 .. 7 /\ j - n - 2 \in 1 .. 7
    BY <1>2, <1>6
  <2>2. i - n - 2 = j - n - 2
    BY <1>3, <2>1
  <2> QED BY <1>1, <2>2
<1> QED BY <1>1, <1>2, <1>4, <1>5, <1>6

(* An id is a place in a layer.                                             *)
LEMMA Division ==
  ASSUME NEW a \in Nat, NEW k \in Nat \ {0}, NEW m \in Nat, a < m * k
  PROVE  /\ a \div k \in 0 .. m - 1 /\ a % k \in 0 .. k - 1 /\ a = k * (a \div k) + (a % k)
<1>1. a \div k \in Int /\ a % k \in 0 .. k - 1 /\ a = k * (a \div k) + (a % k)
  BY SMTT(30)
<1>2. PICK q \in Int : q = a \div k
  BY <1>1
<1>3. PICK r \in 0 .. k - 1 : r = a % k
  BY <1>1
<1>4. a = k * q + r
  BY <1>1, <1>2, <1>3
<1>5. q >= 0
  <2>1. ASSUME q <= -1 PROVE FALSE
    <3>1. k * q <= -k
      BY <2>1, SMTT(30)
    <3> QED BY <1>4, <3>1
  <2> QED BY <2>1
<1>6. q <= m - 1
  <2>1. ASSUME q >= m PROVE FALSE
    <3>1. k * q >= m * k
      BY <2>1, SMTT(30)
    <3> QED BY <1>4, <3>1, SMTT(30)
  <2> QED BY <2>1
<1> QED BY <1>1, <1>2, <1>5, <1>6

LEMMA OpsFacts ==
  ASSUME NEW n \in Nat
  PROVE  /\ DOMAIN Ops(n) = 1 .. NumLayers * LayerSize(n) /\ IsFiniteSet(DOMAIN Ops(n)) /\ DOMAIN Ops(n) \in SUBSET Int
         /\ \A i \in DOMAIN Ops(n) : OpShape(Ops(n)[i], n)
         /\ \A i, j \in DOMAIN Ops(n) : Ops(n)[i] = Ops(n)[j] => i = j
<1> DEFINE k == LayerSize(n)
<1>1. k \in Nat \ {0} /\ NumLayers \in Nat /\ NumLayers * k \in Nat
  BY ModelAssumption DEF LayerSize
<1>2. DOMAIN Ops(n) = 1 .. NumLayers * k
  BY DEF Ops
<1>3. ASSUME NEW i \in DOMAIN Ops(n)
      PROVE  /\ ((i - 1) \div k) + 1 \in 1 .. NumLayers /\ ((i - 1) % k) + 1 \in 1 .. k
             /\ i - 1 = k * ((i - 1) \div k) + ((i - 1) % k)
             /\ Ops(n)[i] = LayerOp(((i - 1) \div k) + 1, n, ((i - 1) % k) + 1)
  <2>1. i - 1 \in Nat /\ i - 1 < NumLayers * k
    BY <1>1, <1>2
  <2>2. Ops(n)[i] = LayerOps(((i - 1) \div k) + 1, n)[((i - 1) % k) + 1]
    BY DEF Ops
  <2> HIDE DEF k
  <2>3. /\ (i - 1) \div k \in 0 .. NumLayers - 1 /\ (i - 1) % k \in 0 .. k - 1
        /\ i - 1 = k * ((i - 1) \div k) + ((i - 1) % k)
    BY <1>1, <2>1, Division
  <2>4. ((i - 1) \div k) + 1 \in 1 .. NumLayers /\ ((i - 1) % k) + 1 \in 1 .. k
    BY <1>1, <2>3
  <2> QED BY <2>2, <2>3, <2>4, LayerOpsFacts DEF k
<1>4. ASSUME NEW i \in DOMAIN Ops(n) PROVE OpShape(Ops(n)[i], n)
  BY <1>3, LayerOpShape
<1>5. ASSUME NEW i \in DOMAIN Ops(n), NEW j \in DOMAIN Ops(n), Ops(n)[i] = Ops(n)[j] PROVE i = j
  <2>1. PICK l \in 1 .. NumLayers, a \in 1 .. k :
          l = ((i - 1) \div k) + 1 /\ a = ((i - 1) % k) + 1 /\ Ops(n)[i] = LayerOp(l, n, a)
    BY <1>3
  <2>2. PICK m \in 1 .. NumLayers, b \in 1 .. k :
          m = ((j - 1) \div k) + 1 /\ b = ((j - 1) % k) + 1 /\ Ops(n)[j] = LayerOp(m, n, b)
    BY <1>3
  <2>3. l = m
    <3>1. LayerOp(l, n, a).layer = l /\ LayerOp(m, n, b).layer = m
      BY LayerOpShape
    <3>2. LayerOp(l, n, a) = LayerOp(m, n, b)
      BY <1>5, <2>1, <2>2
    <3> QED BY <3>1, <3>2
  <2>4. a = b
    <3>1. LayerOp(l, n, a) = LayerOp(l, n, b)
      BY <1>5, <2>1, <2>2, <2>3
    <3> QED BY <3>1, LayerOpTells
  <2>5. (i - 1) \div k = (j - 1) \div k /\ (i - 1) % k = (j - 1) % k
    <3>1. (i - 1) \div k \in Int /\ (i - 1) % k \in Int /\ (j - 1) \div k \in Int /\ (j - 1) % k \in Int
      <4>1. i - 1 \in Nat /\ j - 1 \in Nat
        BY <1>1, <1>2
      <4> HIDE DEF k
      <4> QED BY <1>1, <4>1
    <3>2. ((i - 1) \div k) + 1 = ((j - 1) \div k) + 1 /\ ((i - 1) % k) + 1 = ((j - 1) % k) + 1
      BY <2>1, <2>2, <2>3, <2>4
    <3> QED BY <3>1, <3>2
  <2>6. i - 1 = j - 1
    <3> HIDE DEF k
    <3>1. i - 1 = k * ((i - 1) \div k) + ((i - 1) % k) /\ j - 1 = k * ((j - 1) \div k) + ((j - 1) % k)
      BY <1>3
    <3> QED BY <2>5, <3>1
  <2> QED BY <1>1, <1>2, <2>6
<1>6. IsFiniteSet(DOMAIN Ops(n)) /\ DOMAIN Ops(n) \in SUBSET Int
  BY <1>1, <1>2, FS_Interval
<1> QED BY <1>2, <1>4, <1>5, <1>6

(* A tensor that an operation takes is given, or is an output of the        *)
(* operation it says it is from.                                            *)
OperandOf(x, n) ==
  \/ x.output = 0
  \/ x.output \in 1 .. (IF x.from.kind = "KVccat" THEN 3 * n ELSE 1) /\ x = Tensor(x.from, x.output)

LEMMA OperandFacts ==
  ASSUME NEW n \in Nat, NEW c, OpShape(c, n), NEW x \in ToSet(Operands(c, n))
  PROVE  OperandOf(x, n)
<1> DEFINE l == c.layer
<1>1. PICK i \in DOMAIN Operands(c, n) : x = Operands(c, n)[i]
  BY DEF ToSet
<1>2. \A kind, m, b : OperandOf(Given(kind, m, b), n)
  BY DEF OperandOf, Given, Tensor
<1>3. \A kind, m : kind # "KVccat" => OperandOf(Output(kind, m), n)
  BY DEF OperandOf, Output, Tensor, Op
<1>4. OperandOf(LayerInput(l), n)
  BY <1>2, <1>3 DEF LayerInput
<1> DEFINE b == c.request
<1>5. CASE c.kind = "QKVgen"
  <2>1. Operands(c, n) = <<LayerInput(l), Given("QKVgen.weight", l, 0), Given("QKVgen.bias", l, 0)>>
    BY <1>5 DEF Operands
  <2> QED BY <1>1, <1>2, <1>4, <2>1
<1>6. CASE c.kind = "KVccat"
  <2>1. Operands(c, n) = <<Output("QKVgen", l)>> \o Caches(l, n)
    BY <1>6 DEF Operands
  <2> DEFINE T == {Output("QKVgen", l)} \cup {Caches(l, n)[k] : k \in 1 .. 2 * n}
  <2>2. Caches(l, n) \in Seq(T) /\ <<Output("QKVgen", l)>> \in Seq(T)
    <3>1. Caches(l, n) = [k \in 1 .. 2 * n |-> Caches(l, n)[k]]
      BY DEF Caches
    <3>2. \A k \in 1 .. 2 * n : Caches(l, n)[k] \in T
      OBVIOUS
    <3>3. Output("QKVgen", l) \in T
      OBVIOUS
    <3> HIDE DEF T
    <3>4. Caches(l, n) \in Seq(T)
      BY <3>1, <3>2
    <3> QED BY <3>3, <3>4
  <2>3. \A y \in T : OperandOf(y, n)
    <3>1. \A k \in 1 .. 2 * n : OperandOf(Caches(l, n)[k], n)
      BY <1>2 DEF Caches
    <3> QED BY <1>3, <3>1
  <2> HIDE DEF T
  <2>4. Operands(c, n) \in Seq(T)
    BY <2>1, <2>2, ConcatProperties, Zenon
  <2>5. x \in T
    BY <1>1, <2>4
  <2> QED BY <2>3, <2>5
<1>7. CASE c.kind = "Attention"
  <2>1. Operands(c, n) = <<Query(l, b), Key(l, b), Value(l, b)>>
    BY <1>7 DEF Operands
  <2>2. b \in 1 .. n
    BY <1>7 DEF OpShape
  <2>3. OperandOf(Query(l, b), n) /\ OperandOf(Key(l, b), n) /\ OperandOf(Value(l, b), n)
    BY <2>2 DEF OperandOf, Query, Key, Value, Tensor, Op
  <2> QED BY <1>1, <2>1, <2>3
<1>8. CASE c.kind = "Atccat"
  <2>1. Operands(c, n) = [k \in 1 .. n |-> Tensor(Op("Attention", l, k), 1)]
    BY <1>8 DEF Operands
  <2>2. i \in 1 .. n /\ x = Tensor(Op("Attention", l, i), 1)
    BY <1>1, <2>1
  <2> QED BY <2>2 DEF OperandOf, Tensor, Op
<1>9. CASE c.kind = "proj"
  <2>1. Operands(c, n) = <<Output("Atccat", l), Given("proj.weight", l, 0), Given("proj.bias", l, 0)>>
    BY <1>9 DEF Operands
  <2> QED BY <1>1, <1>2, <1>3, <2>1
<1>10. CASE c.kind = "attn.ln"
  <2>1. Operands(c, n) = <<LayerInput(l), Output("proj", l), Given("attn.ln.weight", l, 0), Given("attn.ln.bias", l, 0)>>
    BY <1>10 DEF Operands
  <2> QED BY <1>1, <1>2, <1>3, <1>4, <2>1
<1>11. CASE c.kind = "fc1"
  <2>1. Operands(c, n) = <<Output("attn.ln", l), Given("fc1.weight", l, 0)>>
    BY <1>11 DEF Operands
  <2> QED BY <1>1, <1>2, <1>3, <2>1
<1>12. CASE c.kind = "act"
  <2>1. Operands(c, n) = <<Output("fc1", l), Given("fc1.bias", l, 0)>>
    BY <1>12 DEF Operands
  <2> QED BY <1>1, <1>2, <1>3, <2>1
<1>13. CASE c.kind = "fc2"
  <2>1. Operands(c, n) = <<Output("act", l), Given("fc2.weight", l, 0), Given("fc2.bias", l, 0)>>
    BY <1>13 DEF Operands
  <2> QED BY <1>1, <1>2, <1>3, <2>1
<1>14. CASE c.kind = "ffn.ln"
  <2>1. Operands(c, n) = <<Output("attn.ln", l), Output("fc2", l), Given("ffn.ln.weight", l, 0), Given("ffn.ln.bias", l, 0)>>
    BY <1>14 DEF Operands
  <2> QED BY <1>1, <1>2, <1>3, <2>1
<1> QED BY <1>5, <1>6, <1>7, <1>8, <1>9, <1>10, <1>11, <1>12, <1>13, <1>14 DEF OpShape

(* The operations of the model for n requests.                              *)
AllOps(n) == ToSet(OpsOf[n])

LEMMA AllOpsFacts ==
  ASSUME NEW n \in Sizes
  PROVE  /\ n \in Nat /\ OpsOf[n] = Ops(n) /\ AllOps(n) = ToSet(Ops(n))
         /\ IsFiniteSet(DOMAIN OpsOf[n]) /\ DOMAIN OpsOf[n] \in SUBSET Int
         /\ \A op \in AllOps(n) : OpShape(op, n)
         /\ \A i, j \in DOMAIN OpsOf[n] : OpsOf[n][i] = OpsOf[n][j] => i = j
         /\ \A op \in AllOps(n) : ProducersOf[n][op] = {x.from : x \in {y \in ToSet(Operands(op, n)) : y.output # 0}}
         /\ \A op \in AllOps(n) : ChildNodesOf[n][op] = ChildNodes(op, n)
<1>1. n \in Nat
  BY LanguageAssumption DEF Sizes
<1>2. OpsOf[n] = Ops(n)
  BY DEF OpsOf
<1>3. AllOps(n) = ToSet(Ops(n))
  BY <1>2 DEF AllOps
<1>4. \A op \in AllOps(n) : OpShape(op, n)
  BY <1>1, <1>3, OpsFacts DEF ToSet
<1>5. /\ \A op \in AllOps(n) : ProducersOf[n][op] = {x.from : x \in {y \in ToSet(Operands(op, n)) : y.output # 0}}
      /\ \A op \in AllOps(n) : ChildNodesOf[n][op] = ChildNodes(op, n)
  BY <1>3 DEF ProducersOf, ChildNodesOf
<1> QED BY <1>1, <1>2, <1>3, <1>4, <1>5, OpsFacts

(* The children of an operation are the operations it produces a tensor for.*)
LEMMA ChildrenTake ==
  ASSUME NEW n \in Sizes, NEW op \in AllOps(n), NEW c \in AllOps(n)
  PROVE  c \in Children(n, op) <=> op \in ProducersOf[n][c]
<1>1. /\ n \in Nat /\ AllOps(n) = ToSet(Ops(n)) /\ OpShape(op, n) /\ OpShape(c, n)
      /\ ProducersOf[n][c] = {x.from : x \in {y \in ToSet(Operands(c, n)) : y.output # 0}}
      /\ ChildNodesOf[n][op] = ChildNodes(op, n)
  BY AllOpsFacts
<1>2. \A x : x \in ToSet(Outputs(op, n)) <=>
        \E k \in 1 .. (IF op.kind = "KVccat" THEN 3 * n ELSE 1) : x = Tensor(op, k)
  BY DEF ToSet, Outputs
<1>3. c \in Children(n, op) <=> \E x \in ToSet(Outputs(op, n)) : x \in ToSet(Operands(c, n))
  <2>1. \A e : e \in ChildNodes(op, n) <=>
          \E x \in ToSet(Outputs(op, n)) : \E d \in ChildrenOf(x, n) : e = [tensor |-> x, child |-> d]
    BY DEF ChildNodes
  <2>2. c \in Children(n, op) <=> \E e \in ChildNodes(op, n) : e.child = c
    BY <1>1 DEF Children
  <2>3. \A x : c \in ChildrenOf(x, n) <=> x \in ToSet(Operands(c, n))
    BY <1>1 DEF ChildrenOf
  <2>4. ASSUME c \in Children(n, op) PROVE \E x \in ToSet(Outputs(op, n)) : x \in ToSet(Operands(c, n))
    <3>1. PICK e \in ChildNodes(op, n) : e.child = c
      BY <2>2, <2>4
    <3>2. PICK x \in ToSet(Outputs(op, n)) : \E d \in ChildrenOf(x, n) : e = [tensor |-> x, child |-> d]
      BY <2>1
    <3>3. c \in ChildrenOf(x, n)
      BY <3>1, <3>2
    <3> QED BY <2>3, <3>3
  <2>5. ASSUME NEW x \in ToSet(Outputs(op, n)), x \in ToSet(Operands(c, n)) PROVE c \in Children(n, op)
    <3>1. [tensor |-> x, child |-> c] \in ChildNodes(op, n)
      BY <2>1, <2>3, <2>5
    <3>2. [tensor |-> x, child |-> c].child = c
      OBVIOUS
    <3> QED BY <2>2, <3>1, <3>2
  <2> QED BY <2>4, <2>5
<1>4. ASSUME NEW x \in ToSet(Outputs(op, n)), x \in ToSet(Operands(c, n)) PROVE op \in ProducersOf[n][c]
  <2>1. x.from = op /\ x.output # 0
    BY <1>1, <1>2 DEF Tensor
  <2> QED BY <1>1, <1>4, <2>1
<1>5. ASSUME op \in ProducersOf[n][c] PROVE \E x \in ToSet(Outputs(op, n)) : x \in ToSet(Operands(c, n))
  <2>1. PICK x \in ToSet(Operands(c, n)) : x.output # 0 /\ x.from = op
    BY <1>1, <1>5
  <2>2. x.output \in 1 .. (IF op.kind = "KVccat" THEN 3 * n ELSE 1) /\ x = Tensor(op, x.output)
    BY <1>1, <2>1, OperandFacts DEF OperandOf
  <2> QED BY <1>2, <2>1, <2>2
<1> QED BY <1>3, <1>4, <1>5

Distinct(s) == \A j, k \in DOMAIN s : s[j] = s[k] => j = k

LEMMA OpsInOrderFacts ==
  ASSUME NEW n \in Sizes, NEW I \in SUBSET DOMAIN OpsOf[n], NEW q, q = OpsInOrder(n, I)
  PROVE  q \in Seq(AllOps(n)) /\ Distinct(q) /\ ToSet(q) = {OpsOf[n][i] : i \in I}
<1>1. I \in SUBSET Int /\ IsFiniteSet(I)
  BY AllOpsFacts, FS_Subset
<1> DEFINE m == Cardinality(I)
           o == InOrder(I)
<1>2. /\ m \in Nat
      /\ \A k \in 1 .. m : o[k] \in I
      /\ \A j, k \in 1 .. m : o[j] = o[k] => j = k
      /\ \A x \in I : \E k \in 1 .. m : o[k] = x
  BY <1>1, InOrderFacts
<1>3. q = [k \in 1 .. m |-> OpsOf[n][o[k]]]
  BY DEF OpsInOrder
<1> HIDE DEF m, o
<1>4. \A i \in I : OpsOf[n][i] \in AllOps(n)
  BY DEF AllOps, ToSet
<1>5. q \in Seq(AllOps(n))
  <2>1. \A k \in 1 .. m : OpsOf[n][o[k]] \in AllOps(n)
    BY <1>2, <1>4
  <2> QED BY <1>2, <1>3, <2>1
<1>6. Distinct(q)
  <2> SUFFICES ASSUME NEW j \in 1 .. m, NEW k \in 1 .. m, OpsOf[n][o[j]] = OpsOf[n][o[k]] PROVE j = k
    BY <1>3 DEF Distinct
  <2>1. o[j] \in DOMAIN OpsOf[n] /\ o[k] \in DOMAIN OpsOf[n]
    BY <1>2
  <2>2. o[j] = o[k]
    BY <2>1, AllOpsFacts
  <2> QED BY <1>2, <2>2
<1>7. ToSet(q) = {OpsOf[n][i] : i \in I}
  <2>1. ToSet(q) = {OpsOf[n][o[k]] : k \in 1 .. m}
    BY <1>3 DEF ToSet
  <2>2. \A i \in I : OpsOf[n][i] \in {OpsOf[n][o[k]] : k \in 1 .. m}
    BY <1>2
  <2> QED BY <1>2, <2>1, <2>2
<1> QED BY <1>5, <1>6, <1>7

-----------------------------------------------------------------------------
(* Executing the graph.                                                    *)

(* Where the operations of a model for n requests are: queued in exe, at    *)
(* the tile scheduler, or done; nowhere else as soon as they could run.     *)
Ready(n, done) == {op \in AllOps(n) : ProducersOf[n][op] \subseteq done}

Placed(n, exe, run, done, simple) ==
  /\ exe \in Seq(AllOps(n)) /\ Distinct(exe)
  /\ ToSet(exe) \cap (done \cup run) = {} /\ run \cap done = {}
  /\ Ready(n, done) = (ToSet(exe) \cup run) \cup done
  /\ simple => \A a, b \in run : a = b

GraphInv ==
  IF batch = <<>> THEN executable = <<>> /\ running = {} /\ finished = {}
                  ELSE /\ Len(batch) \in Sizes /\ DOMAIN batch = 1 .. Len(batch)
                       /\ Placed(Len(batch), executable, running, finished, scheduler = "simple")

LEMMA HeadAndTail ==
  ASSUME NEW T, NEW s \in Seq(T), s # <<>>, Distinct(s)
  PROVE  /\ Tail(s) \in Seq(T) /\ Distinct(Tail(s)) /\ Head(s) \in ToSet(s)
         /\ Head(s) \notin ToSet(Tail(s)) /\ ToSet(s) = {Head(s)} \cup ToSet(Tail(s))
<1>1. Len(s) \in Nat /\ Len(s) # 0 /\ DOMAIN s = 1 .. Len(s) /\ Head(s) = s[1] /\ 1 \in DOMAIN s
  BY EmptySeq
<1>2. Tail(s) \in Seq(T) /\ DOMAIN Tail(s) = 1 .. Len(s) - 1 /\ \A i \in 1 .. Len(s) - 1 : Tail(s)[i] = s[i + 1]
  OBVIOUS
<1>3. Distinct(Tail(s))
  <2> SUFFICES ASSUME NEW j \in 1 .. Len(s) - 1, NEW k \in 1 .. Len(s) - 1, s[j + 1] = s[k + 1] PROVE j = k
    BY <1>2 DEF Distinct
  <2>1. j + 1 \in DOMAIN s /\ k + 1 \in DOMAIN s
    BY <1>1
  <2>2. j + 1 = k + 1
    BY <2>1 DEF Distinct
  <2> QED BY <2>2
<1>4. Head(s) \in ToSet(s)
  BY <1>1 DEF ToSet
<1>5. ASSUME NEW i \in 1 .. Len(s) - 1 PROVE Tail(s)[i] # Head(s) /\ Tail(s)[i] \in ToSet(s)
  <2>1. i + 1 \in DOMAIN s /\ i + 1 # 1
    BY <1>1
  <2>2. s[i + 1] # s[1]
    BY <1>1, <2>1 DEF Distinct
  <2> QED BY <1>1, <1>2, <2>1, <2>2 DEF ToSet
<1>6. Head(s) \notin ToSet(Tail(s)) /\ ToSet(Tail(s)) \subseteq ToSet(s)
  BY <1>2, <1>5 DEF ToSet
<1>7. ASSUME NEW x \in ToSet(s), x # Head(s) PROVE x \in ToSet(Tail(s))
  <2>1. PICK i \in 1 .. Len(s) : x = s[i]
    BY <1>1 DEF ToSet
  <2>2. i # 1
    BY <1>1, <1>7, <2>1
  <2>3. i - 1 \in 1 .. Len(s) - 1 /\ (i - 1) + 1 = i
    BY <1>1, <2>2
  <2>4. x = Tail(s)[i - 1]
    BY <1>2, <2>1, <2>3
  <2> QED BY <1>2, <2>3, <2>4 DEF ToSet
<1> QED BY <1>2, <1>3, <1>4, <1>6, <1>7

LEMMA JoinedSeq ==
  ASSUME NEW T, NEW s \in Seq(T), NEW q \in Seq(T), Distinct(s), Distinct(q), ToSet(s) \cap ToSet(q) = {}
  PROVE  /\ s \o q \in Seq(T) /\ Distinct(s \o q) /\ ToSet(s \o q) = ToSet(s) \cup ToSet(q)
<1> DEFINE a == Len(s)
           b == Len(q)
<1>1. PICK j : j = s \o q
  OBVIOUS
<1>2. /\ j \in Seq(T) /\ Len(j) = a + b
      /\ \A i \in 1 .. a + b : j[i] = IF i <= a THEN s[i] ELSE q[i - a]
  BY <1>1, ConcatProperties, Zenon
<1>3. /\ a \in Nat /\ b \in Nat /\ DOMAIN s = 1 .. a /\ DOMAIN q = 1 .. b /\ DOMAIN j = 1 .. a + b
  BY <1>2
<1> HIDE DEF a, b
<1>4. ASSUME NEW i \in 1 .. a + b
      PROVE  /\ i <= a => i \in DOMAIN s /\ j[i] = s[i] /\ j[i] \in ToSet(s)
             /\ ~(i <= a) => i - a \in DOMAIN q /\ j[i] = q[i - a] /\ j[i] \in ToSet(q)
  <2>1. CASE i <= a
    <3>1. i \in DOMAIN s /\ j[i] = s[i]
      BY <1>2, <1>3, <2>1
    <3> QED BY <2>1, <3>1 DEF ToSet
  <2>2. CASE ~(i <= a)
    <3>1. i - a \in DOMAIN q
      BY <1>3, <2>2
    <3>2. j[i] = q[i - a]
      BY <1>2, <2>2
    <3> QED BY <2>2, <3>1, <3>2 DEF ToSet
  <2> QED BY <2>1, <2>2
<1>5. Distinct(j)
  <2> SUFFICES ASSUME NEW x \in 1 .. a + b, NEW y \in 1 .. a + b, j[x] = j[y] PROVE x = y
    BY <1>3 DEF Distinct
  <2>1. x <= a <=> y <= a
    BY <1>4
  <2>2. CASE x <= a
    BY <1>4, <2>1, <2>2 DEF Distinct
  <2>3. CASE ~(x <= a)
    <3>1. x - a = y - a
      BY <1>4, <2>1, <2>3 DEF Distinct
    <3> QED BY <1>3, <3>1
  <2> QED BY <2>2, <2>3
<1>6. ASSUME NEW x \in ToSet(s) PROVE x \in ToSet(j)
  <2>1. PICK i \in 1 .. a : x = s[i]
    BY <1>3 DEF ToSet
  <2>2. i \in 1 .. a + b /\ i <= a
    BY <1>3
  <2> QED BY <1>3, <1>4, <2>1, <2>2 DEF ToSet
<1>7. ASSUME NEW x \in ToSet(q) PROVE x \in ToSet(j)
  <2>1. PICK i \in 1 .. b : x = q[i]
    BY <1>3 DEF ToSet
  <2>2. i + a \in 1 .. a + b /\ ~(i + a <= a) /\ (i + a) - a = i
    BY <1>3
  <2> QED BY <1>3, <1>4, <2>1, <2>2 DEF ToSet
<1>8. ToSet(j) \subseteq ToSet(s) \cup ToSet(q)
  BY <1>3, <1>4 DEF ToSet
<1> QED BY <1>1, <1>2, <1>5, <1>6, <1>7, <1>8

(* Starting an operation only moves it.                                     *)
LEMMA StartKeepsPlaces ==
  ASSUME NEW n, NEW exe, NEW still, NEW done, Placed(n, exe, still, done, scheduler = "simple"),
         StartLayer(exe, still), scheduler = "simple" => still = {}
  PROVE  Placed(n, executable', running', done, scheduler = "simple")
<1>1. CASE scheduler # "simple" \/ exe = <<>>
  <2>1. running' = still /\ executable' = exe
    BY <1>1 DEF StartLayer
  <2> QED BY <2>1
<1>2. CASE scheduler = "simple" /\ exe # <<>>
  <2>1. running' = {Head(exe)} /\ executable' = Tail(exe) /\ still = {}
    BY <1>2 DEF StartLayer
  <2>2. exe \in Seq(AllOps(n)) /\ Distinct(exe)
    BY DEF Placed
  <2>3. /\ Tail(exe) \in Seq(AllOps(n)) /\ Distinct(Tail(exe)) /\ Head(exe) \in ToSet(exe)
        /\ Head(exe) \notin ToSet(Tail(exe)) /\ ToSet(exe) = {Head(exe)} \cup ToSet(Tail(exe))
    BY <1>2, <2>2, HeadAndTail
  <2>4. /\ ToSet(exe) \cap done = {} /\ Ready(n, done) = ToSet(exe) \cup done
    BY <2>1 DEF Placed
  <2>5. /\ ToSet(Tail(exe)) \cap (done \cup {Head(exe)}) = {} /\ {Head(exe)} \cap done = {}
        /\ Ready(n, done) = (ToSet(Tail(exe)) \cup {Head(exe)}) \cup done
    BY <2>3, <2>4
  <2> QED BY <2>1, <2>3, <2>5 DEF Placed
<1> QED BY <1>1, <1>2

(* When an operation has finished, its children with all their operands are *)
(* pushed, and no other operation has become executable.                    *)
LEMMA PushKeepsPlaces ==
  ASSUME NEW n \in Sizes, NEW op, NEW exe, NEW run, NEW done,
         Placed(n, exe, run, done, scheduler = "simple"), op \in run, exe = executable
  PROVE  /\ Placed(n, Pushed(n, op, done \cup {op}), run \ {op}, done \cup {op}, scheduler = "simple")
         /\ scheduler = "simple" => run \ {op} = {}
<1>1. PICK new : new = done \cup {op}
  OBVIOUS
<1>2. PICK I : I = {i \in DOMAIN OpsOf[n] : LET c == OpsOf[n][i] IN
                                            /\ c \in Children(n, op) /\ CheckExecutable(n, c, new)
                                            /\ c \notin ToSet(exe)}
  OBVIOUS
<1>3. PICK q : q = OpsInOrder(n, I)
  OBVIOUS
<1>4. PICK C : C = {c \in AllOps(n) : c \in Children(n, op) /\ ProducersOf[n][c] \subseteq new /\ c \notin ToSet(exe)}
  OBVIOUS
<1>5. Pushed(n, op, new) = exe \o q
  BY <1>2, <1>3 DEF Pushed
<1>6. q \in Seq(AllOps(n)) /\ Distinct(q) /\ ToSet(q) = {OpsOf[n][i] : i \in I}
  <2>1. I \in SUBSET DOMAIN OpsOf[n]
    BY <1>2
  <2> QED BY <1>3, <2>1, OpsInOrderFacts
<1>7. {OpsOf[n][i] : i \in I} = C
  BY <1>2, <1>4 DEF AllOps, ToSet, CheckExecutable
<1>8. /\ exe \in Seq(AllOps(n)) /\ Distinct(exe)
      /\ ToSet(exe) \cap (done \cup run) = {} /\ run \cap done = {}
      /\ Ready(n, done) = (ToSet(exe) \cup run) \cup done
      /\ scheduler = "simple" => \A a, b \in run : a = b
  BY DEF Placed
<1>9. op \in AllOps(n) /\ op \notin done
  BY <1>8 DEF Ready
<1>10. ASSUME NEW c \in AllOps(n), c \in Ready(n, done) PROVE c \notin Children(n, op)
  <2>1. op \notin ProducersOf[n][c]
    BY <1>9, <1>10 DEF Ready
  <2> QED BY <1>9, <2>1, ChildrenTake
<1>11. ASSUME NEW c \in AllOps(n), c \in Ready(n, new), c \notin Ready(n, done) PROVE c \in Children(n, op)
  <2>1. op \in ProducersOf[n][c]
    BY <1>1, <1>11 DEF Ready
  <2> QED BY <1>9, <2>1, ChildrenTake
<1>12. Ready(n, done) \subseteq Ready(n, new)
  BY <1>1 DEF Ready
<1>13. C \cap Ready(n, done) = {}
  BY <1>4, <1>10
<1>14. Ready(n, new) = Ready(n, done) \cup C
  <2>1. Ready(n, new) \subseteq Ready(n, done) \cup C
    <3> SUFFICES ASSUME NEW c \in Ready(n, new), c \notin Ready(n, done) PROVE c \in C
      OBVIOUS
    <3>1. c \in AllOps(n) /\ ProducersOf[n][c] \subseteq new
      BY DEF Ready
    <3>2. c \in Children(n, op)
      BY <1>11, <3>1
    <3>3. c \notin ToSet(exe)
      BY <1>8
    <3> QED BY <1>4, <3>1, <3>2, <3>3
  <2>2. C \subseteq Ready(n, new)
    BY <1>4 DEF Ready
  <2> QED BY <1>12, <2>1, <2>2
<1>15. /\ exe \o q \in Seq(AllOps(n)) /\ Distinct(exe \o q) /\ ToSet(exe \o q) = ToSet(exe) \cup C
  <2>1. ToSet(exe) \cap ToSet(q) = {}
    BY <1>4, <1>6, <1>7
  <2> QED BY <1>6, <1>7, <1>8, <2>1, JoinedSeq
<1>16. PICK rest : rest = run \ {op}
  OBVIOUS
<1>17. /\ (ToSet(exe) \cup C) \cap (new \cup rest) = {} /\ rest \cap new = {}
       /\ Ready(n, new) = ((ToSet(exe) \cup C) \cup rest) \cup new
  <2>1. PICK E : E = ToSet(exe)
    OBVIOUS
  <2>2. PICK R : R = Ready(n, done)
    OBVIOUS
  <2>3. E \cap (done \cup run) = {} /\ run \cap done = {} /\ R = (E \cup run) \cup done /\ C \cap R = {}
    BY <1>8, <1>13, <2>1, <2>2
  <2>4. Ready(n, new) = R \cup C
    BY <1>14, <2>2
  <2>5. (E \cup C) \cap (new \cup rest) = {} /\ rest \cap new = {}
    BY <1>1, <1>16, <2>3
  <2>6. R \cup C = ((E \cup C) \cup rest) \cup new
    BY <1>1, <1>16, <2>3
  <2> QED BY <2>1, <2>4, <2>5, <2>6
<1>18. scheduler = "simple" => rest = {}
  BY <1>8, <1>16
<1>19. Placed(n, Pushed(n, op, new), rest, new, scheduler = "simple")
  BY <1>5, <1>15, <1>17, <1>18 DEF Placed
<1> QED BY <1>1, <1>16, <1>18, <1>19

(* At first the operations without producers are queued.                    *)
LEMMA FirstPlaces ==
  ASSUME NEW n \in Sizes
  PROVE  Placed(n, ExecutableAtFirst[n], {}, {}, scheduler = "simple")
<1>1. PICK I : I = {i \in DOMAIN OpsOf[n] : CheckExecutable(n, OpsOf[n][i], {})}
  OBVIOUS
<1>2. PICK q : q = OpsInOrder(n, I)
  OBVIOUS
<1>3. ExecutableAtFirst[n] = q
  BY <1>1, <1>2 DEF ExecutableAtFirst
<1>4. q \in Seq(AllOps(n)) /\ Distinct(q) /\ ToSet(q) = {OpsOf[n][i] : i \in I}
  <2>1. I \in SUBSET DOMAIN OpsOf[n]
    BY <1>1
  <2> QED BY <1>2, <2>1, OpsInOrderFacts
<1>5. {OpsOf[n][i] : i \in I} = Ready(n, {})
  BY <1>1 DEF AllOps, ToSet, CheckExecutable, Ready
<1> QED BY <1>3, <1>4, <1>5 DEF Placed

(* What is generated: a model for the requests of the inference, each with  *)
(* a context that stays within the length it is to reach.                   *)
LEMMA BatchFacts ==
  ASSUME TokensInv, NEW S, S = Inputs(Activated), S # {}
  PROVE  /\ BatchOf(Activated, S) # <<>> /\ Len(BatchOf(Activated, S)) = Cardinality(S) /\ Cardinality(S) \in Sizes
         /\ DOMAIN BatchOf(Activated, S) = 1 .. Cardinality(S)
         /\ \A b \in DOMAIN BatchOf(Activated, S) :
              LET x == BatchOf(Activated, S)[b] IN x.cached + x.tokens <= TargetLength(x.request)
<1>1. TypeOK
  BY DEF TokensInv, IInv, OneInference
<1>2. S \subseteq DOMAIN Activated /\ S \subseteq Request /\ IsFiniteSet(S)
  BY <1>1, InputsFacts
<1>3. NumRequests \in Nat /\ Request \in SUBSET Int /\ IsFiniteSet(Request) /\ Cardinality(Request) = NumRequests
  <2>1. NumRequests \in Nat /\ Request = 0 .. NumRequests - 1
    BY LanguageAssumption DEF Request
  <2> QED BY <2>1, FS_Interval
<1>4. Cardinality(S) \in 1 .. NumRequests
  <2>1. Cardinality(S) <= NumRequests /\ Cardinality(S) \in Nat /\ Cardinality(S) # 0
    BY <1>2, <1>3, FS_Subset, FS_CardinalityType, FS_EmptySet
  <2> QED BY <1>3, <2>1
<1> DEFINE n == Cardinality(S)
           o == InOrder(S)
<1>5. \A b \in 1 .. n : o[b] \in S
  BY <1>2, <1>3, InOrderFacts
<1>6. BatchOf(Activated, S)
        = [b \in 1 .. n |-> [request |-> o[b], tokens |-> SeqLength(Activated, o[b]), cached |-> Activated[o[b]].current]]
  BY DEF BatchOf
<1> HIDE DEF n, o
<1>7. n \in 1 .. NumRequests /\ n \in Nat /\ n # 0
  BY <1>3, <1>4 DEF n
<1>8. Len(BatchOf(Activated, S)) = n /\ BatchOf(Activated, S) # <<>> /\ DOMAIN BatchOf(Activated, S) = 1 .. n
  <2>1. Len(BatchOf(Activated, S)) = n
    BY <1>6, <1>7
  <2> QED BY <1>6, <1>7, <2>1
<1>9. ASSUME NEW r \in S PROVE Activated[r].current + SeqLength(Activated, r) <= TargetLength(r)
  <2>1. /\ r \in DOMAIN active => Activated[r] = active[r] /\ ContextOf(r, active[r])
        /\ r \notin DOMAIN active => Activated[r] = NewRequest(r)
    BY <1>1, <1>2, ActivatedFacts DEF TokensInv, Contexts, Activated
  <2>2. ContextOf(r, Activated[r])
    <3>1. ContextOf(r, NewRequest(r))
      BY DEF ContextOf, NewRequest
    <3> QED BY <2>1, <3>1
  <2>3. /\ Prompt[r] \in Nat /\ Cached[r] \in Nat /\ Target[r] \in Nat
        /\ TargetLength(r) = Cached[r] + Prompt[r] + Target[r]
    BY <1>2, TraceFacts
  <2>4. Activated[r].current \in Nat
    BY <1>1, <1>2, ActivatedFacts DEF LangRequest
  <2>5. CASE Activated[r].gen
    <3>1. Activated[r].current < TargetLength(r) /\ SeqLength(Activated, r) = 1
      BY <2>2, <2>5 DEF ContextOf, SeqLength
    <3> QED BY <2>3, <2>4, <3>1
  <2>6. CASE ~Activated[r].gen
    <3>1. Activated[r].current = Cached[r] /\ SeqLength(Activated, r) = Prompt[r]
      BY <2>2, <2>6 DEF ContextOf, SeqLength
    <3> QED BY <2>3, <3>1
  <2> QED BY <2>5, <2>6
<1>10. ASSUME NEW b \in DOMAIN BatchOf(Activated, S)
       PROVE  LET x == BatchOf(Activated, S)[b] IN x.cached + x.tokens <= TargetLength(x.request)
  <2>1. b \in 1 .. n
    BY <1>6
  <2>2. PICK r \in S : r = o[b]
    BY <1>5, <2>1
  <2>3. BatchOf(Activated, S)[b] = [request |-> r, tokens |-> SeqLength(Activated, r), cached |-> Activated[r].current]
    BY <1>6, <2>1, <2>2
  <2> QED BY <1>9, <2>3
<1> QED BY <1>4, <1>8, <1>10 DEF n, Sizes

InferenceInv == TokensInv /\ GraphInv /\ CacheWithinTarget

LEMMA InferenceStepIsNext == [InferenceNext]_allVars => [Next]_vars
<1> SUFFICES ASSUME [InferenceNext]_allVars PROVE Next \/ UNCHANGED vars
  OBVIOUS
<1>1. CASE Handle
  BY <1>1 DEF Handle, Next
<1>2. CASE StartAnother
  BY <1>2 DEF StartAnother
<1>3. CASE FinishLayer
  BY <1>3 DEF FinishLayer, Next
<1>4. CASE (Arrive \/ Stopped) /\ UNCHANGED graphVars
  BY <1>4 DEF Next
<1>5. CASE UNCHANGED allVars
  BY <1>5 DEF allVars
<1> QED BY <1>1, <1>2, <1>3, <1>4, <1>5 DEF InferenceNext

LEMMA HandleKeepsGraph == ASSUME InferenceInv, Handle PROVE GraphInv' /\ CacheWithinTarget'
<1>1. PICK S : S = Inputs(Activated)
  OBVIOUS
<1>2. CASE UNCHANGED graphVars
  <2>1. GraphInv'
    BY <1>2 DEF graphVars, InferenceInv, GraphInv
  <2> QED BY <1>2, <2>1 DEF graphVars, InferenceInv, CacheWithinTarget, ContextRows, TargetLength
<1>3. CASE S # {} /\ ~UNCHANGED graphVars
  <2>1. /\ batch' = BatchOf(Activated, S)
        /\ StartLayer(ExecutableAtFirst[Cardinality(S)], {})
        /\ finished' = {} /\ scheduler' = scheduler
    BY <1>1, <1>3 DEF Handle
  <2>2. PICK n : n = Cardinality(S)
    OBVIOUS
  <2>3. /\ BatchOf(Activated, S) # <<>> /\ Len(BatchOf(Activated, S)) = n /\ n \in Sizes
        /\ DOMAIN BatchOf(Activated, S) = 1 .. n
        /\ \A b \in DOMAIN BatchOf(Activated, S) :
             LET x == BatchOf(Activated, S)[b] IN x.cached + x.tokens <= TargetLength(x.request)
    BY <1>1, <1>3, <2>2, BatchFacts DEF InferenceInv
  <2>4. Placed(n, ExecutableAtFirst[n], {}, {}, scheduler = "simple")
    BY <2>3, FirstPlaces
  <2>5. Placed(n, executable', running', {}, scheduler = "simple")
    <3>1. PICK exe : exe = ExecutableAtFirst[n]
      OBVIOUS
    <3> QED BY <2>1, <2>2, <2>4, <3>1, StartKeepsPlaces
  <2>6. Placed(Len(batch'), executable', running', finished', scheduler' = "simple")
    BY <2>1, <2>3, <2>5
  <2>7. GraphInv'
    BY <2>1, <2>3, <2>6 DEF GraphInv
  <2>8. CacheWithinTarget'
    <3> SUFFICES ASSUME NEW b \in DOMAIN batch'
                 PROVE  batch'[b].cached + batch'[b].tokens <= TargetLength(batch'[b].request)
      BY DEF CacheWithinTarget, ContextRows, TargetLength
    <3> QED BY <2>1, <2>3
  <2> QED BY <2>7, <2>8
<1>4. S = {} => UNCHANGED graphVars
  BY <1>1 DEF Handle
<1> QED BY <1>2, <1>3, <1>4

LEMMA FinishLayerKeepsGraph == ASSUME InferenceInv, FinishLayer PROVE GraphInv' /\ CacheWithinTarget'
<1>1. PICK op \in running :
        LET done == finished \cup {op} IN
        IF CheckFinish(done)
          THEN batch' = <<>> /\ running' = {} /\ executable' = <<>> /\ finished' = {}
          ELSE /\ finished' = done
               /\ StartLayer(Pushed(Len(batch), op, done), running \ {op})
               /\ batch' = batch
  BY DEF FinishLayer
<1>2. scheduler' = scheduler
  BY DEF FinishLayer
<1>3. CASE batch' = <<>> /\ running' = {} /\ executable' = <<>> /\ finished' = {}
  BY <1>3 DEF GraphInv, CacheWithinTarget
<1>4. CASE /\ finished' = finished \cup {op}
           /\ StartLayer(Pushed(Len(batch), op, finished \cup {op}), running \ {op})
           /\ batch' = batch
  <2>1. PICK n : n = Len(batch)
    OBVIOUS
  <2>2. batch # <<>> /\ n \in Sizes /\ DOMAIN batch = 1 .. n /\ Placed(n, executable, running, finished, scheduler = "simple")
    BY <1>1, <2>1 DEF InferenceInv, GraphInv
  <2>3. PICK exe, run, done : exe = executable /\ run = running /\ done = finished
    OBVIOUS
  <2>4. PICK new : new = Pushed(n, op, done \cup {op})
    OBVIOUS
  <2>5. /\ Placed(n, new, run \ {op}, done \cup {op}, scheduler = "simple")
        /\ scheduler = "simple" => run \ {op} = {}
    BY <1>1, <2>2, <2>3, <2>4, PushKeepsPlaces
  <2>6. PICK still, all : still = run \ {op} /\ all = done \cup {op}
    OBVIOUS
  <2>7. StartLayer(new, still)
    BY <1>4, <2>1, <2>3, <2>4, <2>6
  <2>8. Placed(n, executable', running', all, scheduler = "simple")
    BY <2>5, <2>6, <2>7, StartKeepsPlaces
  <2>9. Placed(Len(batch'), executable', running', finished', scheduler' = "simple")
    BY <1>2, <1>4, <2>1, <2>3, <2>6, <2>8
  <2>10. GraphInv'
    BY <1>4, <2>1, <2>2, <2>9 DEF GraphInv
  <2> QED BY <1>4, <2>10 DEF InferenceInv, CacheWithinTarget, ContextRows, TargetLength
<1> QED BY <1>1, <1>3, <1>4

LEMMA StartAnotherKeepsGraph == ASSUME InferenceInv, StartAnother PROVE GraphInv' /\ CacheWithinTarget'
<1>1. /\ scheduler # "simple" /\ executable # <<>>
      /\ running' = running \cup {Head(executable)} /\ executable' = Tail(executable)
      /\ batch' = batch /\ finished' = finished /\ scheduler' = scheduler
  BY DEF StartAnother
<1>2. PICK n : n = Len(batch)
  OBVIOUS
<1>3. batch # <<>> /\ n \in Sizes /\ DOMAIN batch = 1 .. n /\ Placed(n, executable, running, finished, scheduler = "simple")
  BY <1>1, <1>2 DEF InferenceInv, GraphInv
<1>4. PICK exe, run, done : exe = executable /\ run = running /\ done = finished
  OBVIOUS
<1>5. /\ exe \in Seq(AllOps(n)) /\ Distinct(exe) /\ ToSet(exe) \cap (done \cup run) = {} /\ run \cap done = {}
      /\ Ready(n, done) = (ToSet(exe) \cup run) \cup done
  BY <1>3, <1>4 DEF Placed
<1>6. /\ Tail(exe) \in Seq(AllOps(n)) /\ Distinct(Tail(exe)) /\ Head(exe) \in ToSet(exe)
      /\ Head(exe) \notin ToSet(Tail(exe)) /\ ToSet(exe) = {Head(exe)} \cup ToSet(Tail(exe))
  BY <1>1, <1>4, <1>5, HeadAndTail
<1>7. PICK h, t : h = Head(exe) /\ t = Tail(exe)
  OBVIOUS
<1>8. /\ ToSet(t) \cap (done \cup (run \cup {h})) = {} /\ (run \cup {h}) \cap done = {}
      /\ Ready(n, done) = (ToSet(t) \cup (run \cup {h})) \cup done
  BY <1>5, <1>6, <1>7
<1>9. Placed(n, t, run \cup {h}, done, scheduler = "simple")
  BY <1>1, <1>6, <1>7, <1>8 DEF Placed
<1>10. Placed(Len(batch'), executable', running', finished', scheduler' = "simple")
  BY <1>1, <1>2, <1>4, <1>7, <1>9
<1>11. GraphInv'
  BY <1>1, <1>2, <1>3, <1>10 DEF GraphInv
<1> QED BY <1>1, <1>11 DEF InferenceInv, CacheWithinTarget, ContextRows, TargetLength

LEMMA InferenceInvInit == InferenceInit => InferenceInv
<1> SUFFICES ASSUME InferenceInit PROVE InferenceInv
  OBVIOUS
<1>1. TokensInv
  BY TokensInit DEF InferenceInit
<1>2. batch = <<>> /\ running = {} /\ executable = <<>> /\ finished = {}
  BY DEF InferenceInit
<1> QED BY <1>1, <1>2 DEF InferenceInv, GraphInv, CacheWithinTarget

LEMMA InferenceInvStep == InferenceInv /\ [InferenceNext]_allVars => InferenceInv'
<1> SUFFICES ASSUME InferenceInv, [InferenceNext]_allVars PROVE GraphInv' /\ CacheWithinTarget'
  BY InferenceStepIsNext, TokensStep DEF InferenceInv
<1>1. CASE Handle
  BY <1>1, HandleKeepsGraph
<1>2. CASE StartAnother
  BY <1>2, StartAnotherKeepsGraph
<1>3. CASE FinishLayer
  BY <1>3, FinishLayerKeepsGraph
<1>4. CASE UNCHANGED graphVars
  <2>1. GraphInv'
    BY <1>4 DEF graphVars, InferenceInv, GraphInv
  <2> QED BY <1>4, <2>1 DEF graphVars, InferenceInv, CacheWithinTarget, ContextRows, TargetLength
<1> QED BY <1>1, <1>2, <1>3, <1>4 DEF InferenceNext, allVars

(* A sequence without repetitions has as many elements as places.           *)
LEMMA DistinctCount ==
  ASSUME NEW T, NEW s \in Seq(T), Distinct(s)
  PROVE  Cardinality(ToSet(s)) = Len(s)
<1> DEFINE n == Len(s)
<1>1. n \in Nat /\ DOMAIN s = 1 .. n
  OBVIOUS
<1>2. s \in Bijection(1 .. n, ToSet(s))
  <2>1. s \in [1 .. n -> ToSet(s)]
    BY <1>1 DEF ToSet
  <2>2. \A x \in ToSet(s) : \E i \in 1 .. n : s[i] = x
    BY <1>1 DEF ToSet
  <2> QED BY <1>1, <2>1, <2>2 DEF Distinct, Bijection, Injection, Surjection, IsInjective
<1>3. IsFiniteSet(1 .. n) /\ Cardinality(1 .. n) = n
  BY <1>1, FS_Interval
<1>4. ExistsBijection(1 .. n, ToSet(s))
  BY <1>2 DEF ExistsBijection
<1> QED BY <1>3, <1>4, FS_Bijection

LEMMA InvReady == InferenceInv => ReadyIsQueued
<1> SUFFICES ASSUME InferenceInv PROVE ReadyIsQueued
  OBVIOUS
<1>1. CASE batch = <<>>
  <2>1. executable = <<>> /\ running = {} /\ finished = {}
    BY <1>1 DEF InferenceInv, GraphInv
  <2>2. ToSet(executable) = {} /\ Len(executable) = 0 /\ Cardinality({}) = 0
    BY <2>1, FS_EmptySet DEF ToSet
  <2> QED BY <1>1, <2>1, <2>2 DEF ReadyIsQueued
<1>2. CASE batch # <<>>
  <2>1. Len(batch) \in Sizes /\ Placed(Len(batch), executable, running, finished, scheduler = "simple")
    BY <1>2 DEF InferenceInv, GraphInv
  <2>2. /\ executable \in Seq(AllOps(Len(batch))) /\ Distinct(executable)
        /\ ToSet(executable) \cap (finished \cup running) = {} /\ running \cap finished = {}
        /\ Ready(Len(batch), finished) = (ToSet(executable) \cup running) \cup finished
    BY <2>1 DEF Placed
  <2>3. Cardinality(ToSet(executable)) = Len(executable)
    BY <2>2, DistinctCount
  <2> QED BY <2>2, <2>3 DEF ReadyIsQueued, Ready, AllOps, CheckExecutable
<1> QED BY <1>1, <1>2

-----------------------------------------------------------------------------
(* Shapes.                                                                 *)

LEMMA SplitFacts ==
  ASSUME NEW t \in Transformer
  PROVE  /\ t.hidden \in Nat \ {0} /\ t.heads \in Nat \ {0} /\ t.kv_heads \in Nat \ {0} /\ t.intermediate \in Nat \ {0}
         /\ t.tensor_parallel \in Nat \ {0}
         /\ Split(t, t.intermediate) \in Int
         /\ t.llama => FFN1Out(t) \div 2 = Split(t, t.intermediate)
         /\ ~t.llama => FFN1Out(t) = Split(t, t.intermediate)
         /\ t.tensor_parallel = 1 =>
              /\ QKVOut(t) = 2 * ConcatColumns(t) + t.hidden
              /\ CacheColumns(t) = ConcatColumns(t)
              /\ Split(t, t.hidden) = t.hidden
              /\ Split(t, t.heads) * HeadSize(t) = t.hidden
              /\ Split(t, t.kv_heads) * HeadSize(t) = CacheColumns(t)
<1>1. /\ t.hidden \in Nat \ {0} /\ t.heads \in Nat \ {0} /\ t.kv_heads \in Nat \ {0} /\ t.intermediate \in Nat \ {0}
      /\ t.tensor_parallel \in Nat \ {0} /\ t.hidden % t.heads = 0
  BY ModelAssumption
<1>2. ASSUME NEW a \in Int PROVE (a * 2) \div 2 = a /\ a \div 1 = a
  OBVIOUS
<1>3. ASSUME NEW a \in Nat, NEW b \in Nat \ {0}, a % b = 0 PROVE b * (a \div b) = a /\ a \div b \in Int
  BY <1>3, SMTT(30)
<1>4. ASSUME NEW a \in Nat, NEW b \in Nat \ {0} PROVE a \div b \in Int
  OBVIOUS
<1>5. PICK h \in Int : h = t.hidden \div t.heads
  BY <1>1, <1>4
<1>6. PICK i \in Int : i = t.intermediate \div t.tensor_parallel
  BY <1>1, <1>4
<1>7. Split(t, t.intermediate) = i
  BY <1>6 DEF Split
<1>8. FFN1Out(t) = i * (IF t.llama THEN 2 ELSE 1)
  BY <1>7 DEF FFN1Out
<1>9. ASSUME t.tensor_parallel = 1
      PROVE  /\ QKVOut(t) = 2 * ConcatColumns(t) + t.hidden
             /\ CacheColumns(t) = ConcatColumns(t)
             /\ Split(t, t.hidden) = t.hidden
             /\ Split(t, t.heads) * HeadSize(t) = t.hidden
             /\ Split(t, t.kv_heads) * HeadSize(t) = CacheColumns(t)
  <2>1. \A a \in Int : Split(t, a) = a
    BY <1>2, <1>9 DEF Split
  <2>2. Split(t, t.hidden) = t.hidden /\ Split(t, t.heads) = t.heads /\ Split(t, t.kv_heads) = t.kv_heads
    BY <1>1, <2>1
  <2>3. HeadSize(t) = h
    BY <1>5, <2>2 DEF HeadSize
  <2>4. PICK c \in Int : c = h * t.kv_heads
    BY <1>1, <1>5
  <2>5. ConcatColumns(t) = c /\ CacheColumns(t) = c
    BY <1>5, <2>2, <2>4 DEF ConcatColumns, CacheColumns
  <2>6. QKVOut(t) = c * 2 + t.hidden
    <3>1. c * 2 + t.hidden \in Int
      BY <1>1
    <3>2. QKVOut(t) = Split(t, c * 2 + t.hidden)
      BY <1>5, <2>4 DEF QKVOut
    <3> QED BY <2>1, <3>1, <3>2
  <2>7. t.heads * h = t.hidden
    BY <1>1, <1>3, <1>5
  <2>8. t.kv_heads * h = c
    BY <1>1, <1>5, <2>4
  <2>9. 2 * c + t.hidden = c * 2 + t.hidden
    BY <1>1
  <2> QED BY <2>2, <2>3, <2>5, <2>6, <2>7, <2>8, <2>9
<1>10. (t.llama => FFN1Out(t) \div 2 = i) /\ (~t.llama => FFN1Out(t) = i)
  <2>1. i * 1 = i
    OBVIOUS
  <2> QED BY <1>2, <1>8, <2>1
<1> QED BY <1>1, <1>7, <1>9, <1>10

(* The operations of one output beside attention, and what their tensors    *)
(* are: the recursion of Dims solved.                                       *)
Single == {"QKVgen", "Atccat", "proj", "attn.ln", "fc1", "act", "fc2", "ffn.ln"}

KnownDims(t, x) ==
  LET op == x.from
      b == (x.output + 2) \div 3 IN
  CASE op.kind = "QKVgen"                     -> <<NumTokens, QKVOut(t)>>
    [] op.kind = "KVccat" /\ x.output = 3 * b - 2 -> <<batch[b].tokens, t.hidden>>
    [] op.kind = "KVccat" /\ x.output # 3 * b - 2 -> <<ContextRows(b), CacheColumns(t)>>
    [] op.kind = "Attention"                  -> <<batch[op.request].tokens, Split(t, t.hidden)>>
    [] op.kind = "Atccat"                     -> <<NumTokens, Split(t, t.hidden)>>
    [] op.kind \in {"proj", "fc2", "attn.ln", "ffn.ln"} -> <<NumTokens, t.hidden>>
    [] op.kind = "fc1"                        -> <<NumTokens, FFN1Out(t)>>
    [] op.kind = "act"                        -> <<NumTokens, Split(t, t.intermediate)>>

ShapeIn(f, t, z) == IF z.output = 0 THEN GivenDims(t, z) ELSE f[z]
InputDims(f, t, c, n) == [i \in DOMAIN Operands(c, n) |-> ShapeIn(f, t, Operands(c, n)[i])]
Solves(f, t, n) == f = [y \in MadeTensors(n) |-> OutputDims(t, y, InputDims(f, t, y.from, n))]

LEMMA MadeFacts ==
  ASSUME NEW n \in Nat, NEW y \in MadeTensors(n)
  PROVE  /\ y.from.layer \in 1 .. NumLayers /\ y.output # 0
         /\ \/ y.from.kind = "KVccat" /\ y.output \in 1 .. 3 * n
            \/ y.from.kind = "Attention" /\ y.from.request \in 1 .. n
            \/ y.from.kind \in Single /\ y = Output(y.from.kind, y.from.layer)
<1>1. CASE y \in [from : [kind : {"KVccat"}, layer : 1 .. NumLayers, request : {0}], output : 1 .. 3 * n]
  BY <1>1
<1>2. CASE y \in [from : [kind : {"Attention"}, layer : 1 .. NumLayers, request : 1 .. n], output : {1}]
  BY <1>2
<1>3. CASE y \in [from : [kind : Single, layer : 1 .. NumLayers, request : {0}], output : {1}]
  <2>1. /\ y.from \in [kind : Single, layer : 1 .. NumLayers, request : {0}] /\ y.output = 1
        /\ y = [from |-> y.from, output |-> y.output]
    BY <1>3
  <2>2. /\ y.from = [kind |-> y.from.kind, layer |-> y.from.layer, request |-> y.from.request]
        /\ y.from.kind \in Single /\ y.from.layer \in 1 .. NumLayers /\ y.from.request = 0
    BY <2>1
  <2>3. y = Output(y.from.kind, y.from.layer)
    BY <2>1, <2>2 DEF Output, Tensor, Op
  <2> QED BY <2>1, <2>2, <2>3
<1> QED BY <1>1, <1>2, <1>3 DEF MadeTensors, Single

LEMMA MadeThese ==
  ASSUME NEW n \in Nat, NEW l \in 1 .. NumLayers
  PROVE  /\ \A kind \in Single : Output(kind, l) \in MadeTensors(n)
         /\ \A b \in 1 .. n : /\ Tensor(Op("Attention", l, b), 1) \in MadeTensors(n)
                              /\ Query(l, b) \in MadeTensors(n) /\ Key(l, b) \in MadeTensors(n)
                              /\ Value(l, b) \in MadeTensors(n)
<1>1. \A kind \in Single : Output(kind, l) \in [from : [kind : Single, layer : 1 .. NumLayers, request : {0}], output : {1}]
  BY DEF Output, Tensor, Op
<1>2. \A b \in 1 .. n : Tensor(Op("Attention", l, b), 1)
         \in [from : [kind : {"Attention"}, layer : 1 .. NumLayers, request : 1 .. n], output : {1}]
  BY DEF Tensor, Op
<1>3. \A k \in 1 .. 3 * n : Tensor(Op("KVccat", l, 0), k)
         \in [from : [kind : {"KVccat"}, layer : 1 .. NumLayers, request : {0}], output : 1 .. 3 * n]
  BY DEF Tensor, Op
<1>4. \A b \in 1 .. n : 3 * b - 2 \in 1 .. 3 * n /\ 3 * b - 1 \in 1 .. 3 * n /\ 3 * b \in 1 .. 3 * n
  OBVIOUS
<1>5. \A b \in 1 .. n : /\ Query(l, b) = Tensor(Op("KVccat", l, 0), 3 * b - 2)
                        /\ Key(l, b) = Tensor(Op("KVccat", l, 0), 3 * b - 1)
                        /\ Value(l, b) = Tensor(Op("KVccat", l, 0), 3 * b)
  BY DEF Query, Key, Value
<1>6. \A b \in 1 .. n : Query(l, b) \in MadeTensors(n) /\ Key(l, b) \in MadeTensors(n) /\ Value(l, b) \in MadeTensors(n)
  BY <1>3, <1>4, <1>5 DEF MadeTensors
<1> QED BY <1>1, <1>2, <1>6 DEF MadeTensors, Single

LEMMA ShapeOfOutput ==
  ASSUME NEW f, NEW t, NEW kind, NEW l
  PROVE  ShapeIn(f, t, Output(kind, l)) = f[Output(kind, l)]
BY DEF ShapeIn, Output, Tensor

(* Only three kinds of operation look at the shapes of their operands.      *)
LEMMA OutputOf ==
  ASSUME NEW t \in Transformer, NEW n \in Nat \ {0}, DOMAIN batch = 1 .. n, NEW f, NEW y \in MadeTensors(n)
  PROVE  LET l == y.from.layer
             out == OutputDims(t, y, InputDims(f, t, y.from, n)) IN
         /\ y.from.kind \in {"QKVgen", "KVccat", "Attention", "proj", "fc2", "fc1"} => out = KnownDims(t, y)
         /\ /\ y.from.kind = "Atccat"
            /\ \A i \in 1 .. n : LET z == Tensor(Op("Attention", l, i), 1) IN f[z] = KnownDims(t, z)
            => out = KnownDims(t, y)
         /\ y.from.kind = "act" /\ f[Output("fc1", l)] = KnownDims(t, Output("fc1", l)) => out = KnownDims(t, y)
         /\ y.from.kind = "attn.ln" /\ (l = 1 \/ f[Output("ffn.ln", l - 1)] = <<NumTokens, t.hidden>>) => out = KnownDims(t, y)
         /\ y.from.kind = "ffn.ln" /\ f[Output("attn.ln", l)] = <<NumTokens, t.hidden>> => out = KnownDims(t, y)
<1> DEFINE l == y.from.layer
           in == InputDims(f, t, y.from, n)
           out == OutputDims(t, y, in)
<1>1. ASSUME y.from.kind \in {"QKVgen", "KVccat", "Attention", "proj", "fc2", "fc1"} PROVE out = KnownDims(t, y)
  BY <1>1 DEF OutputDims, KnownDims
<1>2. ASSUME y.from.kind = "Atccat",
             \A i \in 1 .. n : LET z == Tensor(Op("Attention", l, i), 1) IN f[z] = KnownDims(t, z)
      PROVE  out = KnownDims(t, y)
  <2>1. Operands(y.from, n) = [b \in 1 .. n |-> Tensor(Op("Attention", l, b), 1)]
    BY <1>2 DEF Operands
  <2>2. ASSUME NEW i \in 1 .. n PROVE in[i] = <<batch[i].tokens, Split(t, t.hidden)>>
    <3>1. PICK z : z = Tensor(Op("Attention", l, i), 1)
      OBVIOUS
    <3>2. z.output = 1 /\ z.from.kind = "Attention" /\ z.from.request = i
      BY <3>1 DEF Tensor, Op
    <3>3. in[i] = f[z]
      BY <2>1, <3>1, <3>2 DEF InputDims, ShapeIn
    <3>4. f[z] = KnownDims(t, z)
      BY <1>2, <3>1
    <3> QED BY <3>2, <3>3, <3>4 DEF KnownDims
  <2> HIDE DEF in
  <2>3. [i \in DOMAIN batch |-> in[i][1]] = [i \in DOMAIN batch |-> batch[i].tokens]
    BY <2>2
  <2>4. in[1][2] = Split(t, t.hidden)
    BY <2>2
  <2>5. out = <<SumFunction([i \in DOMAIN batch |-> in[i][1]]), in[1][2]>>
    BY <1>2 DEF OutputDims
  <2>6. out = <<NumTokens, Split(t, t.hidden)>>
    BY <2>3, <2>4, <2>5 DEF NumTokens
  <2> QED BY <1>2, <2>6 DEF KnownDims
<1>3. ASSUME y.from.kind = "act", f[Output("fc1", l)] = KnownDims(t, Output("fc1", l)) PROVE out = KnownDims(t, y)
  <2>1. Operands(y.from, n) = <<Output("fc1", l), Given("fc1.bias", l, 0)>>
    BY <1>3 DEF Operands
  <2>2. in[1] = KnownDims(t, Output("fc1", l))
    <3>1. in[1] = ShapeIn(f, t, Output("fc1", l))
      BY <2>1 DEF InputDims
    <3> QED BY <1>3, <3>1, ShapeOfOutput
  <2>3. in[1] = <<NumTokens, FFN1Out(t)>>
    BY <2>2 DEF KnownDims, Output, Tensor, Op
  <2> HIDE DEF in
  <2>4. out = <<in[1][1], IF t.llama THEN in[1][2] \div 2 ELSE in[1][2]>>
    BY <1>3 DEF OutputDims
  <2>5. out = <<NumTokens, Split(t, t.intermediate)>>
    BY <2>3, <2>4, SplitFacts
  <2> QED BY <1>3, <2>5 DEF KnownDims
<1>4. ASSUME y.from.kind = "attn.ln", l = 1 \/ f[Output("ffn.ln", l - 1)] = <<NumTokens, t.hidden>> PROVE out = KnownDims(t, y)
  <2>1. Operands(y.from, n) = <<LayerInput(l), Output("proj", l), Given("attn.ln.weight", l, 0), Given("attn.ln.bias", l, 0)>>
    BY <1>4 DEF Operands
  <2>2. in[1] = ShapeIn(f, t, LayerInput(l))
    BY <2>1 DEF InputDims
  <2>3. ShapeIn(f, t, LayerInput(l)) = <<NumTokens, t.hidden>>
    <3>1. CASE l = 1
      BY <3>1 DEF LayerInput, ShapeIn, GivenDims, Given, Tensor, Op
    <3>2. CASE l # 1
      BY <1>4, <3>2, ShapeOfOutput DEF LayerInput
    <3> QED BY <3>1, <3>2
  <2> HIDE DEF in
  <2>4. out = in[1]
    BY <1>4 DEF OutputDims
  <2> QED BY <1>4, <2>2, <2>3, <2>4 DEF KnownDims
<1>5. ASSUME y.from.kind = "ffn.ln", f[Output("attn.ln", l)] = <<NumTokens, t.hidden>> PROVE out = KnownDims(t, y)
  <2>1. Operands(y.from, n) = <<Output("attn.ln", l), Output("fc2", l), Given("ffn.ln.weight", l, 0), Given("ffn.ln.bias", l, 0)>>
    BY <1>5 DEF Operands
  <2>2. in[1] = <<NumTokens, t.hidden>>
    <3>1. in[1] = ShapeIn(f, t, Output("attn.ln", l))
      BY <2>1 DEF InputDims
    <3>2. ShapeIn(f, t, Output("attn.ln", l)) = f[Output("attn.ln", l)]
      BY ShapeOfOutput
    <3> QED BY <1>5, <3>1, <3>2
  <2> HIDE DEF in
  <2>3. out = in[1]
    BY <1>5 DEF OutputDims
  <2> QED BY <1>5, <2>2, <2>3 DEF KnownDims
<1> QED BY <1>1, <1>2, <1>3, <1>4, <1>5

(* A set of naturals has a least element.                                   *)
LEMMA Least == ASSUME NEW T, T \subseteq Nat, T # {} PROVE \E x \in T : \A y \in T : x <= y
<1>1. PICK n \in Nat : n \in T
  OBVIOUS
<1> DEFINE S == 1 .. n
           Bad == {R \in SUBSET S : \E k \in T : k <= n /\ R = 1 .. k}
<1>2. IsFiniteSet(S) /\ FiniteSubsetsOf(S) = SUBSET S
  BY FS_Interval, FS_FiniteSubsetsOfFinite
<1>3. S \in Bad
  BY <1>1
<1>4. Bad \subseteq FiniteSubsetsOf(S) /\ Bad # {}
  BY <1>2, <1>3
<1>5. IsWellFoundedOn(StrictSubsetOrdering(S), FiniteSubsetsOf(S))
  BY FS_StrictSubsetOrderingWellFounded
<1> HIDE DEF S, Bad
<1>6. PICK R \in Bad : \A U \in Bad : <<U, R>> \notin StrictSubsetOrdering(S)
  BY <1>4, <1>5, WFMin
<1>7. PICK k \in T : k <= n /\ R = 1 .. k
  BY DEF Bad
<1>8. ASSUME NEW j \in T, j < k PROVE FALSE
  <2>1. 1 .. j \in Bad
    BY <1>1, <1>7, <1>8 DEF Bad, S
  <2>2. (1 .. j) \subseteq R /\ 1 .. j # R
    <3>1. k \in R /\ k \notin 1 .. j
      BY <1>7, <1>8
    <3> QED BY <1>7, <1>8, <3>1
  <2>3. R \in SUBSET S /\ 1 .. j \in SUBSET S
    BY <2>1 DEF Bad
  <2> QED BY <1>6, <2>1, <2>2, <2>3 DEF StrictSubsetOrdering
<1> QED BY <1>8

LEMMA KnownOutputs ==
  ASSUME NEW t, NEW l
  PROVE  /\ KnownDims(t, Output("fc1", l)) = <<NumTokens, FFN1Out(t)>>
         /\ KnownDims(t, Output("attn.ln", l)) = <<NumTokens, t.hidden>>
         /\ KnownDims(t, Output("ffn.ln", l)) = <<NumTokens, t.hidden>>
BY DEF KnownDims, Output, Tensor, Op

(* The known shapes solve the equations, and nothing else does.             *)
LEMMA SolutionExists ==
  ASSUME NEW t \in Transformer, NEW n \in Nat \ {0}, DOMAIN batch = 1 .. n
  PROVE  \E f : Solves(f, t, n)
<1>1. PICK f : f = [y \in MadeTensors(n) |-> KnownDims(t, y)]
  OBVIOUS
<1>2. ASSUME NEW y \in MadeTensors(n) PROVE OutputDims(t, y, InputDims(f, t, y.from, n)) = KnownDims(t, y)
  <2> DEFINE l == y.from.layer
  <2>1. /\ l \in 1 .. NumLayers
        /\ \/ y.from.kind = "KVccat" \/ y.from.kind = "Attention" \/ y.from.kind \in Single
    BY MadeFacts
  <2>2. \A z \in MadeTensors(n) : f[z] = KnownDims(t, z)
    BY <1>1
  <2>3. \A i \in 1 .. n : Tensor(Op("Attention", l, i), 1) \in MadeTensors(n)
    BY <2>1, MadeThese
  <2>4. \A m \in 1 .. NumLayers : /\ Output("fc1", m) \in MadeTensors(n) /\ Output("attn.ln", m) \in MadeTensors(n)
                                  /\ Output("ffn.ln", m) \in MadeTensors(n)
    BY MadeThese DEF Single
  <2>5. l = 1 \/ l - 1 \in 1 .. NumLayers
    BY <2>1, ModelAssumption
  <2>6. f[Output("fc1", l)] = KnownDims(t, Output("fc1", l)) /\ f[Output("attn.ln", l)] = <<NumTokens, t.hidden>>
    BY <2>1, <2>2, <2>4, KnownOutputs
  <2>7. l = 1 \/ f[Output("ffn.ln", l - 1)] = <<NumTokens, t.hidden>>
    <3>1. ASSUME l - 1 \in 1 .. NumLayers PROVE f[Output("ffn.ln", l - 1)] = <<NumTokens, t.hidden>>
      BY <2>2, <2>4, <3>1, KnownOutputs
    <3> QED BY <2>5, <3>1
  <2>8. \A i \in 1 .. n : LET z == Tensor(Op("Attention", l, i), 1) IN f[z] = KnownDims(t, z)
    BY <2>2, <2>3
  <2>9. \/ y.from.kind \in {"QKVgen", "KVccat", "Attention", "proj", "fc2", "fc1"} \/ y.from.kind = "Atccat"
        \/ y.from.kind = "act" \/ y.from.kind = "attn.ln" \/ y.from.kind = "ffn.ln"
    BY <2>1 DEF Single
  <2> HIDE <1>1
  <2> QED BY <2>6, <2>7, <2>8, <2>9, OutputOf
<1>3. f = [y \in MadeTensors(n) |-> OutputDims(t, y, InputDims(f, t, y.from, n))]
  BY <1>1, <1>2
<1> QED BY <1>3 DEF Solves

LEMMA SolutionKnown ==
  ASSUME NEW t \in Transformer, NEW n \in Nat \ {0}, DOMAIN batch = 1 .. n, NEW f, Solves(f, t, n),
         NEW y \in MadeTensors(n)
  PROVE  f[y] = KnownDims(t, y)
<1>1. \A z \in MadeTensors(n) : f[z] = OutputDims(t, z, InputDims(f, t, z.from, n))
  BY DEF Solves
<1>2. NumLayers \in Nat
  BY ModelAssumption
<1>3. ASSUME NEW z \in MadeTensors(n), z.from.kind \in {"QKVgen", "KVccat", "Attention", "proj", "fc2", "fc1"}
      PROVE  f[z] = KnownDims(t, z)
  BY <1>1, <1>3, OutputOf
<1>4. \A l \in 1 .. NumLayers : /\ Output("fc1", l) \in MadeTensors(n) /\ Output("attn.ln", l) \in MadeTensors(n)
                                /\ Output("ffn.ln", l) \in MadeTensors(n)
  BY MadeThese DEF Single
<1>5. \A kind, l : Output(kind, l).from.kind = kind /\ Output(kind, l).from.layer = l
  BY DEF Output, Tensor, Op
<1>6. ASSUME NEW l \in 1 .. NumLayers, l = 1 \/ f[Output("ffn.ln", l - 1)] = <<NumTokens, t.hidden>>
      PROVE  f[Output("attn.ln", l)] = <<NumTokens, t.hidden>> /\ f[Output("ffn.ln", l)] = <<NumTokens, t.hidden>>
  <2>1. PICK z \in MadeTensors(n) : z = Output("attn.ln", l)
    BY <1>4
  <2>2. z.from.kind = "attn.ln" /\ z.from.layer = l
    BY <1>5, <2>1
  <2>3. OutputDims(t, z, InputDims(f, t, z.from, n)) = KnownDims(t, z)
    BY <1>6, <2>2, OutputOf
  <2>4. f[Output("attn.ln", l)] = <<NumTokens, t.hidden>>
    BY <1>1, <2>1, <2>3, KnownOutputs
  <2>5. PICK x \in MadeTensors(n) : x = Output("ffn.ln", l)
    BY <1>4
  <2>6. x.from.kind = "ffn.ln" /\ x.from.layer = l
    BY <1>5, <2>5
  <2>7. OutputDims(t, x, InputDims(f, t, x.from, n)) = KnownDims(t, x)
    BY <2>4, <2>6, OutputOf
  <2>8. f[Output("ffn.ln", l)] = <<NumTokens, t.hidden>>
    BY <1>1, <2>5, <2>7, KnownOutputs
  <2> QED BY <2>4, <2>8
<1>7. \A l \in 1 .. NumLayers : f[Output("ffn.ln", l)] = <<NumTokens, t.hidden>>
  <2> DEFINE Wrong == {l \in 1 .. NumLayers : f[Output("ffn.ln", l)] # <<NumTokens, t.hidden>>}
  <2>1. CASE Wrong # {}
    <3>1. PICK l \in Wrong : \A m \in Wrong : l <= m
      <4>1. Wrong \subseteq Nat
        OBVIOUS
      <4> HIDE DEF Wrong
      <4> QED BY <2>1, <4>1, Least
    <3>2. l \in 1 .. NumLayers /\ f[Output("ffn.ln", l)] # <<NumTokens, t.hidden>>
      BY <3>1
    <3>3. l = 1 \/ f[Output("ffn.ln", l - 1)] = <<NumTokens, t.hidden>>
      <4>1. CASE l # 1
        <5>1. l - 1 \in 1 .. NumLayers /\ ~(l <= l - 1)
          BY <1>2, <3>2, <4>1
        <5>2. l - 1 \notin Wrong
          BY <3>1, <5>1
        <5> QED BY <5>1, <5>2
      <4> QED BY <4>1
    <3> HIDE DEF Wrong
    <3> QED BY <1>6, <3>2, <3>3
  <2> QED BY <2>1
<1>8. \A l \in 1 .. NumLayers : l = 1 \/ f[Output("ffn.ln", l - 1)] = <<NumTokens, t.hidden>>
  <2> SUFFICES ASSUME NEW l \in 1 .. NumLayers, l # 1 PROVE f[Output("ffn.ln", l - 1)] = <<NumTokens, t.hidden>>
    OBVIOUS
  <2>1. l - 1 \in 1 .. NumLayers
    BY <1>2
  <2> QED BY <1>7, <2>1
<1> DEFINE l == y.from.layer
<1>9. l \in 1 .. NumLayers /\ (y.from.kind = "KVccat" \/ y.from.kind = "Attention" \/ y.from.kind \in Single)
  BY MadeFacts
<1> HIDE DEF l
<1>10. CASE y.from.kind \in {"QKVgen", "KVccat", "Attention", "proj", "fc2", "fc1"}
  BY <1>3, <1>10
<1>11. CASE y.from.kind = "Atccat"
  <2>1. ASSUME NEW i \in 1 .. n PROVE LET z == Tensor(Op("Attention", l, i), 1) IN f[z] = KnownDims(t, z)
    <3>1. PICK z \in MadeTensors(n) : z = Tensor(Op("Attention", l, i), 1)
      BY <1>9, MadeThese
    <3>2. z.from.kind = "Attention"
      BY <3>1 DEF Tensor, Op
    <3> QED BY <1>3, <3>1, <3>2
  <2> QED BY <1>1, <1>11, <2>1, OutputOf DEF l
<1>12. CASE y.from.kind = "act"
  <2>1. PICK z \in MadeTensors(n) : z = Output("fc1", l)
    BY <1>4, <1>9
  <2>2. z.from.kind = "fc1"
    BY <1>5, <2>1
  <2>3. f[Output("fc1", l)] = KnownDims(t, Output("fc1", l))
    BY <1>3, <2>1, <2>2
  <2> QED BY <1>1, <1>12, <2>3, OutputOf DEF l
<1>13. CASE y.from.kind = "attn.ln"
  <2>1. l = 1 \/ f[Output("ffn.ln", l - 1)] = <<NumTokens, t.hidden>>
    BY <1>8, <1>9
  <2> QED BY <1>1, <1>13, <2>1, OutputOf DEF l
<1>14. CASE y.from.kind = "ffn.ln"
  <2>1. f[Output("attn.ln", l)] = <<NumTokens, t.hidden>>
    BY <1>6, <1>8, <1>9
  <2> QED BY <1>1, <1>14, <2>1, OutputOf DEF l
<1> QED BY <1>9, <1>10, <1>11, <1>12, <1>13, <1>14 DEF Single

(* So a tensor has its known shape.                                         *)
LEMMA DimsFacts ==
  ASSUME NEW t \in Transformer, NEW n \in Nat \ {0}, n = Len(batch), DOMAIN batch = 1 .. n
  PROVE  /\ \A x : x.output = 0 => Dims(t, x) = GivenDims(t, x)
         /\ \A x \in MadeTensors(n) : Dims(t, x) = KnownDims(t, x)
<1> DEFINE Made == CHOOSE f : f = [y \in MadeTensors(n) |->
                     OutputDims(t, y, [i \in DOMAIN Operands(y.from, n) |->
                       LET z == Operands(y.from, n)[i] IN IF z.output = 0 THEN GivenDims(t, z) ELSE f[z]])]
<1>1. \A f : Solves(f, t, n) <=> f = [y \in MadeTensors(n) |->
                     OutputDims(t, y, [i \in DOMAIN Operands(y.from, n) |->
                       LET z == Operands(y.from, n)[i] IN IF z.output = 0 THEN GivenDims(t, z) ELSE f[z]])]
  BY DEF Solves, InputDims, ShapeIn
<1>2. PICK g : Solves(g, t, n)
  BY SolutionExists
<1>3. Solves(Made, t, n)
  BY <1>1, <1>2
<1>4. \A x : Dims(t, x) = IF x.output = 0 THEN GivenDims(t, x) ELSE Made[x]
  BY DEF Dims
<1> HIDE DEF Made
<1>5. PICK f : f = Made
  OBVIOUS
<1>6. \A x \in MadeTensors(n) : f[x] = KnownDims(t, x)
  BY <1>3, <1>5, SolutionKnown
<1>7. \A x \in MadeTensors(n) : x.output # 0
  BY MadeFacts
<1> QED BY <1>4, <1>5, <1>6, <1>7

(* The shapes of the queries, keys and values.                              *)
LEMMA HeadDims ==
  ASSUME NEW t, NEW l, NEW b \in Nat
  PROVE  /\ KnownDims(t, Query(l, b)) = <<batch[b].tokens, t.hidden>>
         /\ KnownDims(t, Key(l, b)) = <<ContextRows(b), CacheColumns(t)>>
         /\ KnownDims(t, Value(l, b)) = <<ContextRows(b), CacheColumns(t)>>
         /\ KnownDims(t, Tensor(Op("Attention", l, b), 1)) = <<batch[b].tokens, Split(t, t.hidden)>>
<1>1. ((3 * b - 2) + 2) \div 3 = b /\ ((3 * b - 1) + 2) \div 3 = b /\ (3 * b + 2) \div 3 = b
  OBVIOUS
<1>2. 3 * b - 1 # 3 * b - 2 /\ 3 * b # 3 * b - 2
  OBVIOUS
<1>3. KnownDims(t, Query(l, b)) = <<batch[b].tokens, t.hidden>>
  BY <1>1 DEF KnownDims, Query, Tensor, Op
<1>4. KnownDims(t, Key(l, b)) = <<ContextRows(b), CacheColumns(t)>>
  BY <1>1, <1>2 DEF KnownDims, Key, Tensor, Op
<1>5. KnownDims(t, Value(l, b)) = <<ContextRows(b), CacheColumns(t)>>
  BY <1>1, <1>2 DEF KnownDims, Value, Tensor, Op
<1>6. KnownDims(t, Tensor(Op("Attention", l, b), 1)) = <<batch[b].tokens, Split(t, t.hidden)>>
  BY DEF KnownDims, Tensor, Op
<1> QED BY <1>3, <1>4, <1>5, <1>6

(* The shapes of what nothing makes.                                        *)
LEMMA GivenShapes ==
  ASSUME NEW t, NEW l, NEW b
  PROVE  /\ GivenDims(t, Given("input", 0, 0)) = <<NumTokens, t.hidden>>
         /\ GivenDims(t, Given("KeyCache", l, b)) = <<batch[b].cached, CacheColumns(t)>>
         /\ GivenDims(t, Given("ValueCache", l, b)) = <<batch[b].cached, CacheColumns(t)>>
         /\ GivenDims(t, Given("QKVgen.weight", l, b)) = <<t.hidden, QKVOut(t)>>
         /\ GivenDims(t, Given("QKVgen.bias", l, b)) = <<QKVOut(t)>>
         /\ GivenDims(t, Given("proj.weight", l, b)) = <<Split(t, t.hidden), t.hidden>>
         /\ GivenDims(t, Given("fc1.weight", l, b)) = <<t.hidden, FFN1Out(t)>>
         /\ GivenDims(t, Given("fc1.bias", l, b)) = <<FFN1Out(t)>>
         /\ GivenDims(t, Given("fc2.weight", l, b)) = <<Split(t, t.intermediate), t.hidden>>
         /\ \A kind \in {"proj.bias", "fc2.bias", "attn.ln.weight", "attn.ln.bias", "ffn.ln.weight", "ffn.ln.bias"} :
              GivenDims(t, Given(kind, l, b)) = <<t.hidden>>
BY DEF GivenDims, Given, Tensor, Op

LEMMA SingleShapes ==
  ASSUME NEW t, NEW l
  PROVE  /\ KnownDims(t, Output("QKVgen", l)) = <<NumTokens, QKVOut(t)>>
         /\ KnownDims(t, Output("Atccat", l)) = <<NumTokens, Split(t, t.hidden)>>
         /\ \A kind \in {"proj", "fc2", "attn.ln", "ffn.ln"} : KnownDims(t, Output(kind, l)) = <<NumTokens, t.hidden>>
         /\ KnownDims(t, Output("fc1", l)) = <<NumTokens, FFN1Out(t)>>
         /\ KnownDims(t, Output("act", l)) = <<NumTokens, Split(t, t.intermediate)>>
BY DEF KnownDims, Output, Tensor, Op

LEMMA OperandsHaveTheirShape ==
  ASSUME NEW t \in Transformer, NEW n \in Nat \ {0}, n = Len(batch), DOMAIN batch = 1 .. n,
         NEW op, OpShape(op, n), t.tensor_parallel = 1 \/ op.kind \notin {"KVccat", "Attention"}
  PROVE  OperandsFit(t, op)
<1> DEFINE l == op.layer
           b == op.request
           D(x) == Dims(t, x)
<1>1. l \in 1 .. NumLayers /\ NumLayers \in Nat
  BY ModelAssumption DEF OpShape
<1>2. \A kind, m, r : D(Given(kind, m, r)) = GivenDims(t, Given(kind, m, r))
  <2>1. \A kind, m, r : Given(kind, m, r).output = 0
    BY DEF Given, Tensor
  <2> QED BY <2>1, DimsFacts
<1>3. \A kind \in Single, m \in 1 .. NumLayers : D(Output(kind, m)) = KnownDims(t, Output(kind, m))
  BY MadeThese, DimsFacts
<1>4. \A r \in 1 .. n :
        /\ D(Query(l, r)) = <<batch[r].tokens, t.hidden>>
        /\ D(Key(l, r)) = <<ContextRows(r), CacheColumns(t)>> /\ D(Value(l, r)) = <<ContextRows(r), CacheColumns(t)>>
        /\ D(Tensor(Op("Attention", l, r), 1)) = <<batch[r].tokens, Split(t, t.hidden)>>
  BY <1>1, MadeThese, DimsFacts, HeadDims
<1>5. D(LayerInput(l)) = <<NumTokens, t.hidden>>
  <2>1. CASE l = 1
    BY <1>2, <2>1, GivenShapes DEF LayerInput
  <2>2. CASE l # 1
    <3>1. l - 1 \in 1 .. NumLayers
      BY <1>1, <2>2
    <3>2. LayerInput(l) = Output("ffn.ln", l - 1)
      BY <2>2 DEF LayerInput
    <3> QED BY <1>3, <3>1, <3>2, SingleShapes DEF Single
  <2> QED BY <2>1, <2>2
<1>6. /\ D(Output("QKVgen", l)) = <<NumTokens, QKVOut(t)>>
      /\ D(Output("Atccat", l)) = <<NumTokens, Split(t, t.hidden)>>
      /\ \A kind \in {"proj", "fc2", "attn.ln", "ffn.ln"} : D(Output(kind, l)) = <<NumTokens, t.hidden>>
      /\ D(Output("fc1", l)) = <<NumTokens, FFN1Out(t)>>
      /\ D(Output("act", l)) = <<NumTokens, Split(t, t.intermediate)>>
  BY <1>1, <1>3, SingleShapes DEF Single
<1>7. OperandsFit(t, op) <=> [i \in DOMAIN Operands(op, n) |-> D(Operands(op, n)[i])] = Expected(t, op)
  BY DEF OperandsFit
<1> DEFINE Got == [i \in DOMAIN Operands(op, n) |-> D(Operands(op, n)[i])]
<1> HIDE DEF D
<1>8. CASE op.kind = "QKVgen"
  <2>1. Operands(op, n) = <<LayerInput(l), Given("QKVgen.weight", l, 0), Given("QKVgen.bias", l, 0)>>
    BY <1>8 DEF Operands
  <2>2. Got = <<<<NumTokens, t.hidden>>, <<t.hidden, QKVOut(t)>>, <<QKVOut(t)>>>>
    BY <1>2, <1>5, <2>1, GivenShapes
  <2>3. Expected(t, op) = <<<<NumTokens, t.hidden>>, <<t.hidden, QKVOut(t)>>, <<QKVOut(t)>>>>
    BY <1>8 DEF Expected, Product
  <2> QED BY <1>7, <2>2, <2>3
<1>9. CASE op.kind = "proj"
  <2>1. Operands(op, n) = <<Output("Atccat", l), Given("proj.weight", l, 0), Given("proj.bias", l, 0)>>
    BY <1>9 DEF Operands
  <2>2. Got = <<<<NumTokens, Split(t, t.hidden)>>, <<Split(t, t.hidden), t.hidden>>, <<t.hidden>>>>
    <3>1. D(Given("proj.weight", l, 0)) = <<Split(t, t.hidden), t.hidden>>
      BY <1>2, GivenShapes
    <3>2. D(Given("proj.bias", l, 0)) = <<t.hidden>>
      BY <1>2, GivenShapes
    <3>3. D(Output("Atccat", l)) = <<NumTokens, Split(t, t.hidden)>>
      BY <1>6
    <3> QED BY <2>1, <3>1, <3>2, <3>3
  <2>3. Expected(t, op) = <<<<NumTokens, Split(t, t.hidden)>>, <<Split(t, t.hidden), t.hidden>>, <<t.hidden>>>>
    BY <1>9 DEF Expected, Product
  <2> QED BY <1>7, <2>2, <2>3
<1>10. CASE op.kind = "fc2"
  <2>1. Operands(op, n) = <<Output("act", l), Given("fc2.weight", l, 0), Given("fc2.bias", l, 0)>>
    BY <1>10 DEF Operands
  <2>2. Got = <<<<NumTokens, Split(t, t.intermediate)>>, <<Split(t, t.intermediate), t.hidden>>, <<t.hidden>>>>
    <3>1. D(Given("fc2.weight", l, 0)) = <<Split(t, t.intermediate), t.hidden>>
      BY <1>2, GivenShapes
    <3>2. D(Given("fc2.bias", l, 0)) = <<t.hidden>>
      BY <1>2, GivenShapes
    <3>3. D(Output("act", l)) = <<NumTokens, Split(t, t.intermediate)>>
      BY <1>6
    <3> QED BY <2>1, <3>1, <3>2, <3>3
  <2>3. Expected(t, op) = <<<<NumTokens, Split(t, t.intermediate)>>, <<Split(t, t.intermediate), t.hidden>>, <<t.hidden>>>>
    BY <1>10 DEF Expected, Product
  <2> QED BY <1>7, <2>2, <2>3
<1>11. CASE op.kind = "fc1"
  <2>1. Operands(op, n) = <<Output("attn.ln", l), Given("fc1.weight", l, 0)>>
    BY <1>11 DEF Operands
  <2>2. Got = <<<<NumTokens, t.hidden>>, <<t.hidden, FFN1Out(t)>>>>
    BY <1>2, <1>6, <2>1, GivenShapes
  <2>3. Expected(t, op) = <<<<NumTokens, t.hidden>>, <<t.hidden, FFN1Out(t)>>>>
    BY <1>11 DEF Expected, Product
  <2> QED BY <1>7, <2>2, <2>3
<1>12. CASE op.kind = "act"
  <2>1. Operands(op, n) = <<Output("fc1", l), Given("fc1.bias", l, 0)>>
    BY <1>12 DEF Operands
  <2>2. Got = <<<<NumTokens, FFN1Out(t)>>, <<FFN1Out(t)>>>>
    BY <1>2, <1>6, <2>1, GivenShapes
  <2>3. Expected(t, op) = <<D(Operands(op, n)[1]), <<D(Operands(op, n)[1])[2]>>>>
    BY <1>12 DEF Expected, D
  <2>4. Expected(t, op) = <<<<NumTokens, FFN1Out(t)>>, <<FFN1Out(t)>>>>
    BY <1>6, <2>1, <2>3
  <2> QED BY <1>7, <2>2, <2>4
<1>13. CASE op.kind = "attn.ln"
  <2>1. Operands(op, n) = <<LayerInput(l), Output("proj", l), Given("attn.ln.weight", l, 0), Given("attn.ln.bias", l, 0)>>
    BY <1>13 DEF Operands
  <2>2. Got = <<<<NumTokens, t.hidden>>, <<NumTokens, t.hidden>>, <<t.hidden>>, <<t.hidden>>>>
    BY <1>2, <1>5, <1>6, <2>1, GivenShapes
  <2> DEFINE first == D(Operands(op, n)[1])
  <2>3. Expected(t, op) = <<first, first, <<first[2]>>, <<first[2]>>>>
    BY <1>13 DEF Expected, D
  <2>4. first = <<NumTokens, t.hidden>>
    BY <1>5, <2>1
  <2>5. Expected(t, op) = <<<<NumTokens, t.hidden>>, <<NumTokens, t.hidden>>, <<t.hidden>>, <<t.hidden>>>>
    BY <2>3, <2>4
  <2> QED BY <1>7, <2>2, <2>5
<1>14. CASE op.kind = "ffn.ln"
  <2>1. Operands(op, n) = <<Output("attn.ln", l), Output("fc2", l), Given("ffn.ln.weight", l, 0), Given("ffn.ln.bias", l, 0)>>
    BY <1>14 DEF Operands
  <2>2. Got = <<<<NumTokens, t.hidden>>, <<NumTokens, t.hidden>>, <<t.hidden>>, <<t.hidden>>>>
    BY <1>2, <1>6, <2>1, GivenShapes
  <2> DEFINE first == D(Operands(op, n)[1])
  <2>3. Expected(t, op) = <<first, first, <<first[2]>>, <<first[2]>>>>
    BY <1>14 DEF Expected, D
  <2>4. first = <<NumTokens, t.hidden>>
    BY <1>6, <2>1
  <2>5. Expected(t, op) = <<<<NumTokens, t.hidden>>, <<NumTokens, t.hidden>>, <<t.hidden>>, <<t.hidden>>>>
    BY <2>3, <2>4
  <2> QED BY <1>7, <2>2, <2>5
<1>15. CASE op.kind = "Attention"
  <2>1. Operands(op, n) = <<Query(l, b), Key(l, b), Value(l, b)>>
    BY <1>15 DEF Operands
  <2>2. b \in 1 .. n /\ t.tensor_parallel = 1
    BY <1>15 DEF OpShape
  <2>3. Got = <<<<batch[b].tokens, t.hidden>>, <<ContextRows(b), CacheColumns(t)>>, <<ContextRows(b), CacheColumns(t)>>>>
    BY <1>4, <2>1, <2>2
  <2>4. Expected(t, op) = <<<<batch[b].tokens, Split(t, t.heads) * HeadSize(t)>>,
                            <<ContextRows(b), Split(t, t.kv_heads) * HeadSize(t)>>,
                            <<ContextRows(b), Split(t, t.kv_heads) * HeadSize(t)>>>>
    BY <1>15 DEF Expected
  <2>5. Split(t, t.heads) * HeadSize(t) = t.hidden /\ Split(t, t.kv_heads) * HeadSize(t) = CacheColumns(t)
    BY <2>2, SplitFacts
  <2> QED BY <1>7, <2>3, <2>4, <2>5
<1>16. CASE op.kind = "Atccat"
  <2>1. Operands(op, n) = [r \in 1 .. n |-> Tensor(Op("Attention", l, r), 1)]
    BY <1>16 DEF Operands
  <2>2. Got = [r \in 1 .. n |-> <<batch[r].tokens, Split(t, t.hidden)>>]
    BY <1>4, <2>1
  <2>3. Expected(t, op) = [r \in DOMAIN batch |-> <<batch[r].tokens, D(Operands(op, n)[1])[2]>>]
    BY <1>16 DEF Expected, D
  <2>4. D(Operands(op, n)[1])[2] = Split(t, t.hidden)
    <3>1. D(Operands(op, n)[1]) = <<batch[1].tokens, Split(t, t.hidden)>>
      BY <1>4, <2>1
    <3> QED BY <3>1
  <2>5. Expected(t, op) = [r \in 1 .. n |-> <<batch[r].tokens, Split(t, t.hidden)>>]
    BY <2>3, <2>4
  <2> QED BY <1>7, <2>2, <2>5
<1>17. CASE op.kind = "KVccat"
  <2>1. t.tensor_parallel = 1
    BY <1>17
  <2>2. Operands(op, n) = <<Output("QKVgen", l)>> \o Caches(l, n)
    BY <1>17 DEF Operands
  <2>3. PICK o, c : o = <<Output("QKVgen", l)>> /\ c = Caches(l, n)
    OBVIOUS
  <2>21. PICK T : T = {c[i] : i \in 1 .. 2 * n} \cup {o[1]}
    OBVIOUS
  <2>4. c \in Seq(T) /\ Len(c) = 2 * n
    <3>1. c = [i \in 1 .. 2 * n |-> c[i]]
      BY <2>3 DEF Caches
    <3>2. 2 * n \in Nat
      OBVIOUS
    <3> QED BY <2>21, <3>1, <3>2
  <2>5. o \in Seq(T) /\ Len(o) = 1
    BY <2>3, <2>21
  <2>6. /\ Operands(op, n) \in Seq(T)
        /\ Len(Operands(op, n)) = 1 + 2 * n
        /\ \A i \in 1 .. 1 + 2 * n : Operands(op, n)[i] = IF i <= 1 THEN o[i] ELSE c[i - 1]
    <3>1. /\ o \o c \in Seq(T) /\ Len(o \o c) = Len(o) + Len(c)
          /\ \A i \in 1 .. Len(o) + Len(c) : (o \o c)[i] = IF i <= Len(o) THEN o[i] ELSE c[i - Len(o)]
      BY <2>4, <2>5, ConcatProperties, Zenon
    <3> QED BY <2>2, <2>3, <2>4, <2>5, <3>1, Zenon
  <2> DEFINE cache(i) == <<batch[(i + 1) \div 2].cached, CacheColumns(t)>>
             first == <<NumTokens, QKVOut(t)>>
  <2>7. DOMAIN Got = 1 .. 1 + 2 * n
    BY <2>6
  <2>8. \A i \in 1 .. 1 + 2 * n : Got[i] = IF i <= 1 THEN first ELSE cache(i - 1)
    <3> SUFFICES ASSUME NEW i \in 1 .. 1 + 2 * n PROVE Got[i] = IF i <= 1 THEN first ELSE cache(i - 1)
      OBVIOUS
    <3>1. Got[i] = D(Operands(op, n)[i])
      BY <2>7
    <3>2. CASE i <= 1
      <4>1. Operands(op, n)[i] = Output("QKVgen", l)
        BY <2>3, <2>6, <3>2
      <4> QED BY <1>6, <3>1, <3>2, <4>1
    <3>3. CASE ~(i <= 1)
      <4>1. i - 1 \in 1 .. 2 * n
        BY <3>3
      <4>2. Operands(op, n)[i] = c[i - 1]
        BY <2>6, <3>3
      <4>3. PICK j \in 1 .. 2 * n : j = i - 1
        BY <4>1
      <4>4. c[j] = Given("KeyCache", l, (j + 1) \div 2) \/ c[j] = Given("ValueCache", l, (j + 1) \div 2)
        BY <2>3 DEF Caches
      <4>5. D(c[j]) = cache(j)
        BY <1>2, <4>4, GivenShapes
      <4> QED BY <3>1, <3>3, <4>2, <4>3, <4>5
    <3> QED BY <3>2, <3>3
  <2>9. PICK e, d : e = <<<<NumTokens, 2 * ConcatColumns(t) + t.hidden>>>>
                    /\ d = [i \in 1 .. 2 * Len(batch) |-> <<batch[(i + 1) \div 2].cached, ConcatColumns(t)>>]
    OBVIOUS
  <2>10. Expected(t, op) = e \o d
    BY <1>17, <2>9 DEF Expected
  <2>11. d \in Seq({d[i] : i \in 1 .. 2 * n} \cup {e[1]}) /\ Len(d) = 2 * n
    <3>1. d = [i \in 1 .. 2 * n |-> d[i]]
      BY <2>9
    <3>2. 2 * n \in Nat
      OBVIOUS
    <3> QED BY <3>1, <3>2
  <2>12. e \in Seq({d[i] : i \in 1 .. 2 * n} \cup {e[1]}) /\ Len(e) = 1
    BY <2>9
  <2>13. /\ Expected(t, op) \in Seq({d[i] : i \in 1 .. 2 * n} \cup {e[1]})
         /\ Len(Expected(t, op)) = 1 + 2 * n
         /\ \A i \in 1 .. 1 + 2 * n : Expected(t, op)[i] = IF i <= 1 THEN e[i] ELSE d[i - 1]
    <3>1. /\ e \o d \in Seq({d[i] : i \in 1 .. 2 * n} \cup {e[1]}) /\ Len(e \o d) = Len(e) + Len(d)
          /\ \A i \in 1 .. Len(e) + Len(d) : (e \o d)[i] = IF i <= Len(e) THEN e[i] ELSE d[i - Len(e)]
      BY <2>11, <2>12, ConcatProperties, Zenon
    <3> QED BY <2>10, <2>11, <2>12, <3>1, Zenon
  <2>14. QKVOut(t) = 2 * ConcatColumns(t) + t.hidden /\ CacheColumns(t) = ConcatColumns(t)
    BY <2>1, SplitFacts
  <2>15. \A i \in 1 .. 1 + 2 * n : Expected(t, op)[i] = IF i <= 1 THEN first ELSE cache(i - 1)
    <3> SUFFICES ASSUME NEW i \in 1 .. 1 + 2 * n PROVE Expected(t, op)[i] = IF i <= 1 THEN first ELSE cache(i - 1)
      OBVIOUS
    <3>1. CASE i <= 1
      <4>1. Expected(t, op)[i] = e[i] /\ i = 1
        BY <2>13, <3>1
      <4> QED BY <2>9, <2>14, <3>1, <4>1
    <3>2. CASE ~(i <= 1)
      <4>1. PICK j \in 1 .. 2 * n : j = i - 1
        BY <3>2
      <4>2. d[j] = cache(j)
        BY <2>9, <2>14
      <4> QED BY <2>13, <3>2, <4>1, <4>2
    <3> QED BY <3>1, <3>2
  <2>16. Expected(t, op) = [i \in 1 .. 1 + 2 * n |-> Expected(t, op)[i]]
    BY <2>13
  <2> HIDE DEF cache, first
  <2>17. Got = [i \in 1 .. 1 + 2 * n |-> Got[i]]
    BY <2>7
  <2> HIDE DEF Got
  <2>18. Got = Expected(t, op)
    BY <2>8, <2>15, <2>16, <2>17
  <2> QED BY <1>7, <2>18 DEF Got
<1> QED BY <1>8, <1>9, <1>10, <1>11, <1>12, <1>13, <1>14, <1>15, <1>16, <1>17 DEF OpShape

LEMMA InvShapes == InferenceInv => ShapesAgree
<1> SUFFICES ASSUME InferenceInv, NEW op \in running, NEW t \in Transformer,
                    t.tensor_parallel = 1 \/ op.kind \notin {"KVccat", "Attention"}
             PROVE  OperandsFit(t, op)
  BY DEF ShapesAgree
<1>1. PICK n : n = Len(batch)
  OBVIOUS
<1>2. n \in Sizes /\ DOMAIN batch = 1 .. n /\ Placed(n, executable, running, finished, scheduler = "simple")
  BY <1>1 DEF InferenceInv, GraphInv
<1>3. op \in AllOps(n)
  BY <1>2 DEF Placed, Ready
<1>4. OpShape(op, n) /\ n \in Nat \ {0}
  BY <1>2, <1>3, AllOpsFacts DEF Sizes
<1> QED BY <1>1, <1>2, <1>4, OperandsHaveTheirShape

-----------------------------------------------------------------------------
(* The theorems.                                                           *)

(* The three properties hold of every reachable state, for any trace and    *)
(* configuration.                                                           *)
THEOREM LanguageInvariance == Spec => []IInv
<1>1. Init => IInv
  BY InitInv
<1>2. IInv /\ [Next]_vars => IInv'
  BY StepInv
<1> QED BY <1>1, <1>2, PTL DEF Spec

(* init_inputs_and_model generates an inference only when none is under     *)
(* way, and marks exactly the requests it takes: finish_model finds every   *)
(* request of the inference among the active ones.                          *)
THEOREM InferencesAreDisjoint == Spec => []OneInference
<1>1. IInv => OneInference
  BY DEF IInv
<1> QED BY <1>1, LanguageInvariance, PTL

(* An inference has at most max_batch_size requests, and no more are active *)
(* but for one with the iteration scheduler.                                *)
THEOREM BatchesAreBounded == Spec => []BatchBounded
<1>1. IInv => BatchBounded
  BY DEF IInv
<1> QED BY <1>1, LanguageInvariance, PTL

(* No request is in an inference before every older active one was.         *)
THEOREM OldestRequestsFirst == Spec => []OldestFirst
<1>1. IInv => OldestFirst
  BY DEF IInv
<1> QED BY <1>1, LanguageInvariance, PTL
(* The requests are started in the order of the trace, and each one is      *)
(* given its tokens one after the other, the first with its prompt, never   *)
(* more than it asks for, and is erased by finish_model with the last.      *)
THEOREM ServesTokensSafely == Spec => Tokens!ServiceSafety
<1>1. Init => TokensInv /\ Tokens!ServiceInit
  BY TokensInit, ServiceInitHolds
<1>2. TokensInv /\ [Next]_vars => TokensInv'
  BY TokensStep
<1>3. TokensInv /\ [Next]_vars => [Tokens!ServiceNext]_(Tokens!service)
  BY ServiceStep
<1> QED BY <1>1, <1>2, <1>3, PTL DEF Spec, Tokens!ServiceSafety
(* The model, its graph and the tile scheduler take only steps that the     *)
(* language scheduler knows: the end of a model comes when its last         *)
(* operation has finished, and nothing else touches the requests.           *)
THEOREM InferenceImplementsScheduler == InferenceSpec => Spec
<1>1. InferenceInit => Init
  BY DEF InferenceInit
<1> QED BY <1>1, InferenceStepIsNext, PTL DEF InferenceSpec, Spec

THEOREM InferenceInvariance == InferenceSpec => []InferenceInv
BY InferenceInvInit, InferenceInvStep, PTL DEF InferenceSpec

(* check_executable and set_layer_finish forget no operation and queue none *)
(* twice, in whatever order its producers finish, and whatever number of    *)
(* tensors it takes from one of them.                                       *)
THEOREM ReadyOperationsAreQueued == InferenceSpec => []ReadyIsQueued
BY InvReady, InferenceInvariance, PTL

(* The rows an inference leaves in the caches of a request are at most its  *)
(* target_length.                                                           *)
THEOREM CachesStayWithinTarget == InferenceSpec => []CacheWithinTarget
<1>1. InferenceInv => CacheWithinTarget
  BY DEF InferenceInv
<1> QED BY <1>1, InferenceInvariance, PTL
(* Every operation that is executed gets operands of the dimensions it      *)
(* computes with, for any transformer, any number of layers and any batch;  *)
(* when the model is split, all but KVCacheConcat and Attention do.         *)
THEOREM OperandsFitTheirOperation == InferenceSpec => []ShapesAgree
BY InvShapes, InferenceInvariance, PTL
=============================================================================
