------------------------ MODULE AdmissionGateProofs ------------------------
(* The safety invariants of AdmissionGate for any number of requests,       *)
(* permits and wait slots, and the refinement of BoundedGate.               *)
(* The properties are not inductive one by one: a wake-up keeps the permit  *)
(* count only if the deque names pending requests, once each, so they are   *)
(* proved together as IInv.                                                 *)
EXTENDS AdmissionGate, FiniteSetTheorems, SequenceTheorems, TLAPS

\* The deque q and the places p of the requests agree.
Agree(q, p) ==
    /\ \A k \in 1..Len(q) : p[q[k]] = "queued"
    /\ \A r \in Request : p[r] = "queued" => \E k \in 1..Len(q) : q[k] = r
    /\ \A j, k \in 1..Len(q) : q[j] = q[k] => j = k

\* The requests that own a permit when the places are p.
OwnersIn(p) == {r \in Request : p[r] \in {"woken", "acquired", "holding"}}

IInv ==
    /\ TypeOK
    /\ QueueConsistent
    /\ PermitConservation
    /\ NoStrandedPermit
    /\ CountersExact

----------------------------------------------------------------------------

\* RemoveAt drops one element and keeps the others in order.
LEMMA RemoveAtFacts ==
    ASSUME NEW S, NEW q \in Seq(S), NEW k \in 1..Len(q)
    PROVE  /\ RemoveAt(q, k) \in Seq(S)
           /\ Len(RemoveAt(q, k)) = Len(q) - 1
           /\ \A j \in 1..(Len(q) - 1) :
                 RemoveAt(q, k)[j] = IF j < k THEN q[j] ELSE q[j + 1]
<1> DEFINE a == SubSeq(q, 1, k - 1)
           b == SubSeq(q, k + 1, Len(q))
<1>1. Len(q) \in Nat /\ \A j \in 1..Len(q) : q[j] \in S
  BY LenProperties, ElementOfSeq
<1>2. a \in Seq(S) /\ Len(a) = k - 1 /\ \A j \in 1..(k - 1) : a[j] = q[j]
  <2>1. \A i \in 1..(k - 1) : q[i] \in S
    BY <1>1
  <2> QED
    BY <1>1, <2>1, SubSeqProperties, SMT
<1>3. b \in Seq(S) /\ Len(b) = Len(q) - k
                   /\ \A j \in 1..(Len(q) - k) : b[j] = q[k + j]
  <2>1. \A i \in (k + 1)..Len(q) : q[i] \in S
    BY <1>1
  <2> QED
    BY <1>1, <2>1, SubSeqProperties, SMT
<1>4. RemoveAt(q, k) = a \o b
  BY DEF RemoveAt
<1> HIDE DEF a, b
<1>5. /\ a \o b \in Seq(S)
      /\ Len(a \o b) = Len(a) + Len(b)
      /\ \A i \in 1..Len(a) + Len(b) :
            (a \o b)[i] = IF i <= Len(a) THEN a[i] ELSE b[i - Len(a)]
  BY <1>2, <1>3, ConcatProperties
<1>6. ASSUME NEW j \in 1..(Len(q) - 1)
      PROVE  (a \o b)[j] = IF j < k THEN q[j] ELSE q[j + 1]
  <2>1. /\ k \in Nat /\ j \in Nat /\ Len(a) = k - 1 /\ Len(b) = Len(q) - k
        /\ j \in 1..Len(a) + Len(b)
    BY <1>1, <1>2, <1>3
  <2>2. CASE j < k
    <3>1. j <= Len(a) /\ j \in 1..(k - 1)
      BY <2>1, <2>2
    <3> QED
      BY <2>1, <2>2, <3>1, <1>2, <1>5
  <2>3. CASE ~ (j < k)
    <3>1. ~ (j <= Len(a)) /\ j - Len(a) \in 1..(Len(q) - k) /\ k + (j - Len(a)) = j + 1
      BY <2>1, <2>3, <1>1
    <3>2. (a \o b)[j] = b[j - Len(a)]
      BY <2>1, <3>1, <1>5
    <3>3. b[j - Len(a)] = q[j + 1]
      BY <3>1, <1>3
    <3> QED
      BY <2>3, <3>2, <3>3
  <2> QED
    BY <2>2, <2>3
<1> QED
  BY <1>1, <1>2, <1>3, <1>4, <1>5, <1>6

\* One more owner, or one fewer, changes their number by one.
LEMMA OwnerCount ==
    ASSUME NEW p \in [Request -> PC], NEW r \in Request, NEW s \in PC
    PROVE  LET o == OwnersIn(p)
               n == OwnersIn([p EXCEPT ![r] = s])
               in(x) == x \in {"woken", "acquired", "holding"}
           IN  /\ IsFiniteSet(o) /\ Cardinality(o) \in Nat
               /\ in(p[r]) <=> r \in o
               /\ (in(p[r]) <=> in(s)) => Cardinality(n) = Cardinality(o)
               /\ (~ in(p[r]) /\ in(s)) => Cardinality(n) = Cardinality(o) + 1
               /\ (in(p[r]) /\ ~ in(s)) => Cardinality(n) = Cardinality(o) - 1
<1> DEFINE o == OwnersIn(p)
           n == OwnersIn([p EXCEPT ![r] = s])
           in(x) == x \in {"woken", "acquired", "holding"}
<1>1. IsFiniteSet(o) /\ Cardinality(o) \in Nat
  BY RequestAssumption, FS_Subset, FS_CardinalityType DEF OwnersIn
<1>2. (in(p[r]) <=> in(s)) => n = o
  BY DEF OwnersIn
<1>3. (~ in(p[r]) /\ in(s)) => n = o \cup {r} /\ r \notin o
  BY DEF OwnersIn
<1>4. (in(p[r]) /\ ~ in(s)) => n = o \ {r} /\ r \in o
  BY DEF OwnersIn
<1>5. in(p[r]) <=> r \in o
  BY DEF OwnersIn
<1> HIDE DEF o, n, in
<1>6. /\ r \notin o => Cardinality(o \cup {r}) = Cardinality(o) + 1
      /\ r \in o => Cardinality(o \ {r}) = Cardinality(o) - 1
  BY <1>1, FS_AddElement, FS_RemoveElement
<1>7. /\ IsFiniteSet(o) /\ Cardinality(o) \in Nat
      /\ in(p[r]) <=> r \in o
      /\ (in(p[r]) <=> in(s)) => Cardinality(n) = Cardinality(o)
      /\ (~ in(p[r]) /\ in(s)) => Cardinality(n) = Cardinality(o) + 1
      /\ (in(p[r]) /\ ~ in(s)) => Cardinality(n) = Cardinality(o) - 1
  BY <1>1, <1>2, <1>3, <1>4, <1>5, <1>6
<1> QED
  BY <1>7 DEF o, n, in

\* What _wake_up_next() does to the gate: the permits are conserved, the deque
\* stays consistent, and only a pending request changes place.
LEMMA WakeNextFacts ==
    ASSUME NEW v \in Nat \ {0}, NEW q \in Seq(Request), NEW p \in [Request -> PC],
           Agree(q, p), WakeNext(v, q, p)
    PROVE  /\ value' \in 0..v
           /\ queue' \in Seq(Request)
           /\ pc' \in [Request -> PC]
           /\ Agree(queue', pc')
           /\ value' + Cardinality(OwnersIn(pc')) = v + Cardinality(OwnersIn(p))
           /\ queue' # << >> => \E r \in Request : pc'[r] = "woken"
           /\ \A r \in Request :
                 pc'[r] # p[r] => p[r] = "queued" /\ pc'[r] = "woken"
<1>1. CASE q = << >>
  <2>1. value' = v /\ queue' = q /\ pc' = p
    BY <1>1 DEF WakeNext
  <2> QED
    BY <1>1, <2>1
<1>2. CASE q # << >>
  <2> DEFINE h == Head(q)
  <2>1. value' = v - 1 /\ queue' = Tail(q) /\ pc' = [p EXCEPT ![h] = "woken"]
    BY <1>2 DEF WakeNext
  <2>2. /\ h \in Request /\ h = q[1] /\ Len(q) \in Nat \ {0}
        /\ Tail(q) \in Seq(Request)
        /\ Len(Tail(q)) = Len(q) - 1
        /\ \A i \in 1..Len(Tail(q)) : Tail(q)[i] = q[i + 1]
    BY <1>2, HeadTailProperties, EmptySeq
  <2>3. p[h] = "queued"
    BY <2>2 DEF Agree
  <2>4. pc' \in [Request -> PC] /\ pc'[h] = "woken"
        /\ \A r \in Request : r # h => pc'[r] = p[r]
    BY <2>1, <2>2 DEF PC
  <2>5. Agree(queue', pc')
    <3>1. ASSUME NEW k \in 1..Len(queue')
          PROVE  pc'[queue'[k]] = "queued"
      <4>1. k + 1 \in 1..Len(q) /\ 1 \in 1..Len(q) /\ queue'[k] = q[k + 1]
        BY <2>1, <2>2
      <4>2. q[k + 1] # q[1]
        BY <4>1 DEF Agree
      <4>3. q[k + 1] \in Request /\ p[q[k + 1]] = "queued"
        BY <4>1, ElementOfSeq DEF Agree
      <4> QED
        BY <4>1, <4>2, <4>3, <2>2, <2>4
    <3>2. ASSUME NEW r \in Request, pc'[r] = "queued"
          PROVE  \E k \in 1..Len(queue') : queue'[k] = r
      <4>1. r # h /\ p[r] = "queued"
        BY <3>2, <2>4
      <4>2. PICK k \in 1..Len(q) : q[k] = r
        BY <4>1 DEF Agree
      <4>3. k # 1
        BY <4>1, <4>2, <2>2
      <4>4. k - 1 \in 1..Len(queue') /\ queue'[k - 1] = q[k]
        BY <4>3, <2>1, <2>2
      <4> QED
        BY <4>2, <4>4
    <3>3. ASSUME NEW j \in 1..Len(queue'), NEW k \in 1..Len(queue'),
                 queue'[j] = queue'[k]
          PROVE  j = k
      <4>1. /\ j + 1 \in 1..Len(q) /\ k + 1 \in 1..Len(q)
            /\ q[j + 1] = q[k + 1]
        BY <3>3, <2>1, <2>2
      <4>2. j + 1 = k + 1
        BY <4>1 DEF Agree
      <4> QED
        BY <4>2, <2>2
    <3> QED
      BY <3>1, <3>2, <3>3 DEF Agree
  <2>6. Cardinality(OwnersIn(pc')) = Cardinality(OwnersIn(p)) + 1
        /\ Cardinality(OwnersIn(p)) \in Nat
    BY <2>1, <2>2, <2>3, OwnerCount DEF PC
  <2> QED
    BY <2>1, <2>2, <2>3, <2>4, <2>5, <2>6
<1> QED
  BY <1>1, <1>2

----------------------------------------------------------------------------

\* The state of the gate in the form the lemmas above use it.
LEMMA Restated ==
    ASSUME IInv
    PROVE  /\ Agree(queue, pc)
           /\ value + Cardinality(OwnersIn(pc)) = MaxConcurrent
           /\ Cardinality(OwnersIn(pc)) \in Nat
           /\ value \in Nat /\ MaxConcurrent \in Nat
           /\ IsFiniteSet(InSlowWait) /\ IsFiniteSet(Holding)
           /\ Cardinality(InSlowWait) \in Nat /\ Cardinality(Holding) \in Nat
<1>1. IsFiniteSet(OwnersIn(pc)) /\ IsFiniteSet(InSlowWait) /\ IsFiniteSet(Holding)
  BY RequestAssumption, FS_Subset DEF OwnersIn, InSlowWait, Holding
<1>2. Owners = OwnersIn(pc)
  BY DEF Owners, OwnersIn
<1>3. Agree(queue, pc)
  BY DEF IInv, QueueConsistent, Agree
<1>4. value \in Nat /\ MaxConcurrent \in Nat
  BY MaxConcurrentAssumption DEF IInv, TypeOK
<1> QED
  BY <1>1, <1>2, <1>3, <1>4, FS_CardinalityType DEF IInv, PermitConservation

\* The initial state: every permit free, nobody anywhere.
LEMMA InitInv == Init => IInv
<1> SUFFICES ASSUME Init PROVE IInv
  OBVIOUS
<1>1. TypeOK
  BY MaxConcurrentAssumption, EmptySeq DEF Init, TypeOK, PC
<1>2. QueueConsistent /\ NoStrandedPermit
  BY DEF Init, QueueConsistent, NoStrandedPermit
<1>3. Owners = {} /\ InSlowWait = {} /\ Holding = {}
  BY DEF Init, Owners, InSlowWait, Holding
<1>4. PermitConservation /\ CountersExact
  BY <1>3, FS_EmptySet, MaxConcurrentAssumption, MaxWaitersAssumption
     DEF Init, PermitConservation, CountersExact
<1> QED
  BY <1>1, <1>2, <1>4 DEF IInv

\* A step that moves one request between two places outside the deque and the
\* ownership of permits, and touches no permit, disturbs only the counters.
LEMMA QuietMove ==
    ASSUME IInv, NEW r \in Request,
           NEW s \in {"task", "expired", "served", "rejected", "idle"},
           pc[r] \in {"idle", "task", "expired"},
           pc' = [pc EXCEPT ![r] = s],
           UNCHANGED <<value, queue>>
    PROVE  /\ pc' \in [Request -> PC] /\ value' \in 0..MaxConcurrent
           /\ queue' \in Seq(Request)
           /\ QueueConsistent' /\ PermitConservation' /\ NoStrandedPermit'
<1>1. pc \in [Request -> PC] /\ pc' \in [Request -> PC] /\ s \in PC
  BY DEF IInv, TypeOK, PC
<1>2. \A x \in Request : (pc[x] = "queued" <=> pc'[x] = "queued")
                         /\ (pc[x] = "woken" <=> pc'[x] = "woken")
  BY <1>1
<1>3. Owners' = Owners
  BY <1>1 DEF Owners
<1>4. QueueConsistent'
  <2>1. \A k \in 1..Len(queue) : queue[k] \in Request
    BY ElementOfSeq DEF IInv, TypeOK
  <2> QED
    BY <1>2, <2>1 DEF IInv, QueueConsistent
<1> QED
  BY <1>1, <1>2, <1>3, <1>4 DEF IInv, TypeOK, PermitConservation, NoStrandedPermit

\* The slow path up to its wait, from a place outside deque and ownership.
LEMMA SlowEntryInv ==
    ASSUME IInv, NEW r \in Request, pc[r] \in {"idle", "expired"},
           r \notin InSlowWait, SlowEntry(r)
    PROVE  IInv'
<1>1. PICK s \in {"rejected", "task"} : pc' = [pc EXCEPT ![r] = s]
  BY DEF SlowEntry
<1>2. UNCHANGED <<value, queue, inFlight>>
  BY DEF SlowEntry
<1>3. /\ pc' \in [Request -> PC] /\ value' \in 0..MaxConcurrent
      /\ queue' \in Seq(Request)
      /\ QueueConsistent' /\ PermitConservation' /\ NoStrandedPermit'
  BY <1>1, <1>2, QuietMove
<1>4. pc \in [Request -> PC] /\ lane \in [Request -> {"none", "fast", "slow"}]
      /\ waiting \in Nat /\ inFlight \in Nat /\ MaxWaiters \in Nat
  BY MaxWaitersAssumption DEF IInv, TypeOK
<1>5. Holding' = Holding
  BY <1>1, <1>4 DEF Holding
<1>6. CASE waiting >= MaxWaiters
  <2>1. pc' = [pc EXCEPT ![r] = "rejected"] /\ lane' = [lane EXCEPT ![r] = "none"]
        /\ waiting' = waiting
    BY <1>4, <1>6 DEF SlowEntry
  <2>2. InSlowWait' = InSlowWait
    BY <2>1, <1>4 DEF InSlowWait
  <2> QED
    BY <1>2, <1>3, <1>4, <1>5, <2>1, <2>2 DEF IInv, TypeOK, CountersExact
<1>7. CASE waiting < MaxWaiters
  <2>1. pc' = [pc EXCEPT ![r] = "task"] /\ lane' = [lane EXCEPT ![r] = "slow"]
        /\ waiting' = waiting + 1
    BY <1>4, <1>7 DEF SlowEntry
  <2>2. InSlowWait' = InSlowWait \cup {r}
    BY <2>1, <1>4 DEF InSlowWait
  <2>3. Cardinality(InSlowWait') = Cardinality(InSlowWait) + 1
    BY <2>2, Restated, FS_AddElement
  <2> QED
    BY <1>2, <1>3, <1>4, <1>5, <1>7, <2>1, <2>3 DEF IInv, TypeOK, CountersExact
<1> QED
  BY <1>4, <1>6, <1>7

LEMMA ArriveInv ==
    ASSUME IInv, NEW r \in Request, Arrive(r)
    PROVE  IInv'
<1>1. r \notin InSlowWait /\ pc[r] = "idle"
  BY DEF Arrive, InSlowWait
<1>2. CASE SlowEntry(r)
  BY <1>1, <1>2, SlowEntryInv
<1>3. CASE /\ pc' = [pc EXCEPT ![r] = "task"]
           /\ lane' = [lane EXCEPT ![r] = "fast"]
           /\ UNCHANGED <<value, queue, waiting, inFlight>>
  <2>1. /\ pc' \in [Request -> PC] /\ value' \in 0..MaxConcurrent
        /\ queue' \in Seq(Request)
        /\ QueueConsistent' /\ PermitConservation' /\ NoStrandedPermit'
    BY <1>1, <1>3, QuietMove
  <2>2. lane' \in [Request -> {"none", "fast", "slow"}]
    BY <1>3 DEF IInv, TypeOK
  <2>3. InSlowWait' = InSlowWait /\ Holding' = Holding
    BY <1>1, <1>3 DEF IInv, TypeOK, InSlowWait, Holding
  <2> QED
    BY <1>3, <2>1, <2>2, <2>3 DEF IInv, TypeOK, CountersExact
<1> QED
  BY <1>2, <1>3 DEF Arrive

LEMMA FallThroughInv ==
    ASSUME IInv, NEW r \in Request, FallThrough(r)
    PROVE  IInv'
<1>1. r \notin InSlowWait /\ pc[r] = "expired" /\ SlowEntry(r)
  BY DEF FallThrough, InSlowWait
<1> QED
  BY <1>1, SlowEntryInv

LEMMA GiveUpInv ==
    ASSUME IInv, NEW r \in Request, GiveUp(r)
    PROVE  IInv'
<1>1. /\ pc[r] = "expired" /\ lane[r] = "slow"
      /\ pc' = [pc EXCEPT ![r] = "rejected"] /\ lane' = [lane EXCEPT ![r] = "none"]
      /\ waiting' = waiting - 1 /\ UNCHANGED <<value, queue, inFlight>>
  BY DEF GiveUp
<1>2. /\ pc' \in [Request -> PC] /\ value' \in 0..MaxConcurrent
      /\ queue' \in Seq(Request)
      /\ QueueConsistent' /\ PermitConservation' /\ NoStrandedPermit'
  BY <1>1, QuietMove
<1>3. InSlowWait' = InSlowWait \ {r} /\ r \in InSlowWait /\ Holding' = Holding
  BY <1>1 DEF IInv, TypeOK, InSlowWait, Holding
<1>4. Cardinality(InSlowWait') = Cardinality(InSlowWait) - 1
      /\ Cardinality(InSlowWait') \in Nat
  BY <1>3, Restated, FS_RemoveElement, FS_CardinalityType
<1>5. lane' \in [Request -> {"none", "fast", "slow"}]
  BY <1>1 DEF IInv, TypeOK
<1> QED
  BY <1>1, <1>2, <1>3, <1>4, <1>5, MaxWaitersAssumption
     DEF IInv, TypeOK, CountersExact

\* Outside the deque the place of a request does not matter to it.
LEMMA AgreeOutside ==
    ASSUME NEW q \in Seq(Request), NEW p \in [Request -> PC], NEW r \in Request,
           NEW s \in PC \ {"queued"}, Agree(q, p), p[r] # "queued"
    PROVE  Agree(q, [p EXCEPT ![r] = s])
<1>1. \A k \in 1..Len(q) : q[k] \in Request /\ q[k] # r
  BY ElementOfSeq DEF Agree
<1> QED
  BY <1>1 DEF Agree

LEMMA EnterInv ==
    ASSUME IInv, NEW r \in Request, Enter(r)
    PROVE  IInv'
<1>1. /\ pc[r] = "acquired" /\ pc' = [pc EXCEPT ![r] = "holding"]
      /\ lane' = [lane EXCEPT ![r] = "none"]
      /\ waiting' = IF lane[r] = "slow" THEN waiting - 1 ELSE waiting
      /\ inFlight' = inFlight + 1 /\ UNCHANGED <<value, queue>>
  BY DEF Enter
<1>2. pc \in [Request -> PC] /\ queue \in Seq(Request) /\ pc' \in [Request -> PC]
      /\ lane' \in [Request -> {"none", "fast", "slow"}]
  BY <1>1 DEF IInv, TypeOK, PC
<1>3. QueueConsistent'
  BY <1>1, <1>2, Restated, AgreeOutside DEF PC, QueueConsistent, Agree
<1>4. Owners' = Owners
  BY <1>1, <1>2 DEF Owners
<1>5. NoStrandedPermit'
  BY <1>1, <1>2 DEF IInv, NoStrandedPermit
<1>6. Holding' = Holding \cup {r} /\ r \notin Holding
  BY <1>1, <1>2 DEF Holding
<1>7. Cardinality(Holding') = Cardinality(Holding) + 1
  BY <1>6, Restated, FS_AddElement
<1>8. waiting' = Cardinality(InSlowWait') /\ waiting' <= MaxWaiters /\ waiting' \in Nat
  <2>1. CASE lane[r] = "slow"
    <3>1. InSlowWait' = InSlowWait \ {r} /\ r \in InSlowWait
      BY <1>1, <1>2, <2>1 DEF InSlowWait, IInv, TypeOK
    <3>2. Cardinality(InSlowWait') = Cardinality(InSlowWait) - 1
          /\ Cardinality(InSlowWait') \in Nat
      BY <3>1, Restated, FS_RemoveElement, FS_CardinalityType
    <3> QED
      BY <1>1, <2>1, <3>2, MaxWaitersAssumption DEF IInv, TypeOK, CountersExact
  <2>2. CASE lane[r] # "slow"
    <3>1. InSlowWait' = InSlowWait
      BY <1>1, <1>2, <2>2 DEF InSlowWait, IInv, TypeOK
    <3> QED
      BY <1>1, <2>2, <3>1 DEF IInv, TypeOK, CountersExact
  <2> QED
    BY <2>1, <2>2
<1> QED
  BY <1>1, <1>2, <1>3, <1>4, <1>5, <1>7, <1>8
     DEF IInv, TypeOK, PermitConservation, CountersExact

\* Appending a request that is nowhere in the deque keeps it consistent.
LEMMA AgreeAppend ==
    ASSUME NEW q \in Seq(Request), NEW p \in [Request -> PC], NEW r \in Request,
           Agree(q, p), p[r] # "queued"
    PROVE  Agree(Append(q, r), [p EXCEPT ![r] = "queued"])
<1> DEFINE a == Append(q, r)
           n == [p EXCEPT ![r] = "queued"]
<1>1. /\ Len(q) \in Nat /\ Len(a) = Len(q) + 1 /\ a[Len(q) + 1] = r
      /\ \A k \in 1..Len(q) : a[k] = q[k] /\ q[k] \in Request /\ q[k] # r
  BY LenProperties, ElementOfSeq DEF Agree
<1>2. n[r] = "queued" /\ \A x \in Request : x # r => n[x] = p[x]
  OBVIOUS
<1> HIDE DEF a, n
<1>3. \A k \in 1..Len(a) : n[a[k]] = "queued"
  BY <1>1, <1>2 DEF Agree
<1>4. \A x \in Request : n[x] = "queued" => \E k \in 1..Len(a) : a[k] = x
  <2>1. Len(q) + 1 \in 1..Len(a) /\ \A k \in 1..Len(q) : k \in 1..Len(a)
    BY <1>1
  <2> QED
    BY <1>1, <1>2, <2>1 DEF Agree
<1>5. \A j, k \in 1..Len(a) : a[j] = a[k] => j = k
  BY <1>1 DEF Agree
<1> QED
  BY <1>3, <1>4, <1>5 DEF Agree, a, n

\* Removing the place of a request that is no longer pending, too.
LEMMA AgreeRemove ==
    ASSUME NEW q \in Seq(Request), NEW p \in [Request -> PC], NEW k \in 1..Len(q),
           NEW s \in PC \ {"queued"}, Agree(q, p)
    PROVE  Agree(RemoveAt(q, k), [p EXCEPT ![q[k]] = s])
<1> DEFINE a == RemoveAt(q, k)
           n == [p EXCEPT ![q[k]] = s]
           from(j) == IF j < k THEN j ELSE j + 1
<1>1. /\ Len(q) \in Nat /\ k \in Nat /\ Len(a) = Len(q) - 1
      /\ \A j \in 1..Len(a) : a[j] = q[from(j)]
  <2>1. Len(q) \in Nat
    BY LenProperties
  <2>2. /\ Len(a) = Len(q) - 1
        /\ \A j \in 1..(Len(q) - 1) : a[j] = IF j < k THEN q[j] ELSE q[j + 1]
    BY RemoveAtFacts
  <2> HIDE DEF a
  <2> QED
    BY <2>1, <2>2
<1>2. \A j \in 1..Len(q) : q[j] \in Request
  BY ElementOfSeq
<1>3. n[q[k]] = s /\ \A x \in Request : x # q[k] => n[x] = p[x]
  BY <1>2
<1> HIDE DEF a, n
<1>4. \A j \in 1..Len(a) : from(j) \in 1..Len(q) /\ from(j) # k
  BY <1>1
<1>5. \A j \in 1..Len(a) : n[a[j]] = "queued"
  <2> SUFFICES ASSUME NEW j \in 1..Len(a) PROVE n[a[j]] = "queued"
    OBVIOUS
  <2>1. a[j] = q[from(j)] /\ from(j) \in 1..Len(q) /\ from(j) # k
    BY <1>1, <1>4
  <2> HIDE DEF from
  <2>2. a[j] # q[k] /\ a[j] \in Request /\ p[a[j]] = "queued"
    BY <2>1, <1>2 DEF Agree
  <2> QED
    BY <2>2, <1>3
<1>6. ASSUME NEW x \in Request, n[x] = "queued"
      PROVE  \E j \in 1..Len(a) : a[j] = x
  <2>1. x # q[k] /\ p[x] = "queued"
    BY <1>3, <1>6
  <2>2. PICK i \in 1..Len(q) : q[i] = x
    BY <2>1 DEF Agree
  <2>3. CASE i < k
    <3>1. i \in 1..Len(a) /\ from(i) = i
      BY <1>1, <2>3
    <3> QED
      BY <1>1, <2>2, <3>1
  <2>4. CASE ~ (i < k)
    <3>1. i # k
      BY <2>1, <2>2
    <3>2. i - 1 \in 1..Len(a) /\ from(i - 1) = i
      BY <1>1, <2>4, <3>1
    <3> QED
      BY <1>1, <2>2, <3>2
  <2> QED
    BY <2>3, <2>4
<1>7. ASSUME NEW i \in 1..Len(a), NEW j \in 1..Len(a), a[i] = a[j]
      PROVE  i = j
  <2>1. q[from(i)] = q[from(j)] /\ from(i) \in 1..Len(q) /\ from(j) \in 1..Len(q)
    BY <1>1, <1>4, <1>7
  <2>2. from(i) = from(j)
    <3> HIDE DEF from
    <3> QED
      BY <2>1 DEF Agree
  <2> QED
    BY <1>1, <2>2
<1> QED
  BY <1>5, <1>6, <1>7 DEF Agree, a, n

\* The counters do not see a request move within its wait.
LEMMA CountersWithinWait ==
    ASSUME IInv, pc' \in [Request -> PC], UNCHANGED <<lane, waiting, inFlight>>,
           \A r \in Request :
              pc'[r] # pc[r] =>
                 /\ pc[r] \in {"task", "queued", "woken", "acquired", "expired"}
                 /\ pc'[r] \in {"task", "queued", "woken", "acquired", "expired"}
    PROVE  CountersExact'
<1>1. InSlowWait' = InSlowWait
  BY DEF InSlowWait
<1>2. Holding' = Holding
  BY DEF Holding
<1> QED
  BY <1>1, <1>2 DEF IInv, CountersExact

LEMMA RunTaskInv ==
    ASSUME IInv, NEW r \in Request, RunTask(r)
    PROVE  IInv'
<1>1. /\ pc[r] = "task" /\ UNCHANGED <<lane, waiting, inFlight>>
      /\ pc \in [Request -> PC] /\ queue \in Seq(Request)
      /\ value \in 0..MaxConcurrent /\ MaxConcurrent \in Nat
  BY MaxConcurrentAssumption DEF RunTask, IInv, TypeOK
<1>2. CASE ~ Locked /\ value' = value - 1 /\ pc' = [pc EXCEPT ![r] = "acquired"]
                    /\ UNCHANGED queue
  <2>1. pc' \in [Request -> PC] /\ value' \in 0..MaxConcurrent
    BY <1>1, <1>2 DEF PC, Locked
  <2>2. CountersExact'
    BY <1>1, <1>2, <2>1, CountersWithinWait
  <2>3. QueueConsistent'
    BY <1>1, <1>2, Restated, AgreeOutside DEF PC, QueueConsistent, Agree
  <2>4. PermitConservation'
    <3>1. Cardinality(OwnersIn(pc')) = Cardinality(OwnersIn(pc)) + 1
      BY <1>1, <1>2, OwnerCount DEF PC
    <3>2. Owners' = OwnersIn(pc')
      BY DEF Owners, OwnersIn
    <3> QED
      BY <1>1, <1>2, <3>1, <3>2, Restated DEF PermitConservation
  <2>5. NoStrandedPermit'
    <3>1. queue = << >>
      <4>1. queue # << >> => 1 \in 1..Len(queue) /\ queue[1] \in Request
        BY <1>1, EmptySeq, ElementOfSeq
      <4> QED
        BY <1>2, <4>1 DEF Locked, IInv, QueueConsistent
    <3> QED
      BY <1>2, <3>1 DEF NoStrandedPermit
  <2> QED
    BY <1>1, <1>2, <2>1, <2>2, <2>3, <2>4, <2>5 DEF IInv, TypeOK
<1>3. CASE Locked /\ queue' = Append(queue, r) /\ pc' = [pc EXCEPT ![r] = "queued"]
                  /\ UNCHANGED value
  <2>1. pc' \in [Request -> PC] /\ queue' \in Seq(Request)
    BY <1>1, <1>3 DEF PC
  <2>2. CountersExact'
    BY <1>1, <1>3, <2>1, CountersWithinWait
  <2>3. QueueConsistent'
    BY <1>1, <1>3, Restated, AgreeAppend DEF QueueConsistent, Agree
  <2>4. Owners' = Owners
    BY <1>1, <1>3 DEF Owners
  <2>5. NoStrandedPermit'
    <3>1. ASSUME value > 0 PROVE \E x \in Request : pc[x] = "woken"
      <4>1. PICK x \in Request : pc[x] \in {"queued", "woken"}
        BY <1>1, <1>3, <3>1 DEF Locked
      <4>2. pc[x] = "queued" => queue # << >>
        BY EmptySeq DEF IInv, QueueConsistent
      <4> QED
        BY <3>1, <4>1, <4>2 DEF IInv, NoStrandedPermit
    <3>2. \A x \in Request : pc[x] = "woken" => pc'[x] = "woken"
      BY <1>1, <1>3
    <3> QED
      BY <1>3, <3>1, <3>2 DEF NoStrandedPermit
  <2> QED
    BY <1>1, <1>3, <2>1, <2>2, <2>3, <2>4, <2>5
       DEF IInv, TypeOK, PermitConservation
<1> QED
  BY <1>2, <1>3 DEF RunTask

LEMMA WakeResumeInv ==
    ASSUME IInv, NEW r \in Request, WakeResume(r)
    PROVE  IInv'
<1> DEFINE p == [pc EXCEPT ![r] = "acquired"]
<1>1. /\ pc[r] = "woken" /\ UNCHANGED <<lane, waiting, inFlight>>
      /\ pc \in [Request -> PC] /\ queue \in Seq(Request)
      /\ value \in 0..MaxConcurrent /\ MaxConcurrent \in Nat
  BY MaxConcurrentAssumption DEF WakeResume, IInv, TypeOK
<1>2. p \in [Request -> PC] /\ Agree(queue, p)
      /\ Cardinality(OwnersIn(p)) = Cardinality(OwnersIn(pc))
  BY <1>1, Restated, AgreeOutside, OwnerCount DEF PC
<1>3. /\ pc' \in [Request -> PC] /\ queue' \in Seq(Request)
      /\ value' \in 0..MaxConcurrent /\ Agree(queue', pc')
      /\ value' + Cardinality(OwnersIn(pc')) = value + Cardinality(OwnersIn(p))
      /\ value' > 0 /\ queue' # << >> => \E x \in Request : pc'[x] = "woken"
      /\ \A x \in Request :
            pc'[x] # p[x] => p[x] = "queued" /\ pc'[x] = "woken"
  <2>1. CASE value > 0 /\ WakeNext(value, queue, p)
    <3>1. value \in Nat \ {0}
      BY <1>1, <2>1
    <3> HIDE DEF p
    <3> QED
      BY <1>1, <1>2, <2>1, <3>1, WakeNextFacts
  <2>2. CASE value = 0 /\ pc' = p /\ UNCHANGED <<value, queue>>
    BY <1>1, <1>2, <2>2
  <2> QED
    BY <2>1, <2>2 DEF WakeResume
<1>4. CountersExact'
  BY <1>1, <1>3, CountersWithinWait
<1>5. Owners' = OwnersIn(pc')
  BY DEF Owners, OwnersIn
<1> HIDE DEF p
<1> QED
  BY <1>1, <1>2, <1>3, <1>4, <1>5, Restated
     DEF IInv, TypeOK, QueueConsistent, Agree, PermitConservation, NoStrandedPermit

LEMMA TimeoutInv ==
    ASSUME IInv, NEW r \in Request, Timeout(r)
    PROVE  IInv'
<1>1. /\ UNCHANGED <<lane, waiting, inFlight>>
      /\ pc \in [Request -> PC] /\ queue \in Seq(Request)
      /\ value \in 0..MaxConcurrent /\ MaxConcurrent \in Nat
  BY MaxConcurrentAssumption DEF Timeout, IInv, TypeOK
<1>2. ASSUME NEW k \in 1..Len(queue), queue[k] = r,
             queue' = RemoveAt(queue, k), pc' = [pc EXCEPT ![r] = "expired"],
             UNCHANGED value
      PROVE  IInv'
  <2>1. pc[r] = "queued"
    BY <1>2 DEF IInv, QueueConsistent
  <2>2. pc' \in [Request -> PC] /\ queue' \in Seq(Request)
    BY <1>1, <1>2, RemoveAtFacts DEF PC
  <2>3. CountersExact'
    BY <1>1, <1>2, <2>1, <2>2, CountersWithinWait
  <2>4. QueueConsistent'
    <3>1. "expired" \in PC \ {"queued"} /\ Agree(queue, pc)
      BY Restated DEF PC
    <3>2. Agree(queue', pc')
      BY <1>1, <1>2, <3>1, AgreeRemove
    <3> QED
      BY <3>2 DEF QueueConsistent, Agree
  <2>5. Owners' = Owners
    BY <1>1, <1>2, <2>1 DEF Owners
  <2>6. NoStrandedPermit'
    <3>1. queue # << >>
      BY <1>1, <1>2, EmptySeq
    <3>2. \A x \in Request : pc[x] = "woken" => pc'[x] = "woken"
      BY <1>1, <1>2, <2>1
    <3> QED
      BY <1>2, <3>1, <3>2 DEF IInv, NoStrandedPermit
  <2> QED
    BY <1>1, <1>2, <2>2, <2>3, <2>4, <2>5, <2>6
       DEF IInv, TypeOK, PermitConservation
<1>3. CASE pc[r] = "woken" /\ WakeNext(value + 1, queue, [pc EXCEPT ![r] = "expired"])
  <2> DEFINE p == [pc EXCEPT ![r] = "expired"]
  <2>1. /\ p \in [Request -> PC] /\ Agree(queue, p)
        /\ Cardinality(OwnersIn(p)) = Cardinality(OwnersIn(pc)) - 1
        /\ Cardinality(OwnersIn(p)) \in Nat
        /\ pc[r] = "woken" /\ p[r] = "expired"
        /\ \A x \in Request : x # r => p[x] = pc[x]
    <3>1. "expired" \in PC /\ "expired" \in PC \ {"queued"}
      BY DEF PC
    <3>2. p \in [Request -> PC]
      BY <1>1, <3>1
    <3>3. Cardinality(OwnersIn(p)) = Cardinality(OwnersIn(pc)) - 1
      BY <1>1, <1>3, <3>1, OwnerCount
    <3>4. Cardinality(OwnersIn(p)) \in Nat
      BY RequestAssumption, FS_Subset, FS_CardinalityType DEF OwnersIn
    <3> QED
      BY <1>1, <1>3, <3>1, <3>2, <3>3, <3>4, Restated, AgreeOutside
  <2>2. value + 1 \in Nat \ {0} /\ WakeNext(value + 1, queue, p)
    BY <1>1, <1>3
  <2> HIDE DEF p
  <2>3. /\ pc' \in [Request -> PC] /\ queue' \in Seq(Request)
        /\ value' \in 0..(value + 1) /\ Agree(queue', pc')
        /\ value' + Cardinality(OwnersIn(pc')) = value + 1 + Cardinality(OwnersIn(p))
        /\ queue' # << >> => \E x \in Request : pc'[x] = "woken"
        /\ \A x \in Request :
              pc'[x] # p[x] => p[x] = "queued" /\ pc'[x] = "woken"
    BY <1>1, <2>1, <2>2, WakeNextFacts
  <2>4. CountersExact'
    <3>1. \A x \in Request : pc'[x] # pc[x] =>
             /\ pc[x] \in {"task", "queued", "woken", "acquired", "expired"}
             /\ pc'[x] \in {"task", "queued", "woken", "acquired", "expired"}
      <4>1. pc'[r] = "expired"
        BY <2>1, <2>3
      <4>2. \A x \in Request : x # r /\ pc'[x] # pc[x] =>
               pc[x] = "queued" /\ pc'[x] = "woken"
        BY <2>1, <2>3
      <4> QED
        BY <2>1, <4>1, <4>2
    <3> QED
      BY <1>1, <2>3, <3>1, CountersWithinWait
  <2>5. Owners' = OwnersIn(pc') /\ Cardinality(OwnersIn(pc')) \in Nat
    BY RequestAssumption, FS_Subset, FS_CardinalityType DEF Owners, OwnersIn
  <2>6. value' + Cardinality(OwnersIn(pc')) = MaxConcurrent /\ value' \in 0..MaxConcurrent
    BY <1>1, <2>1, <2>3, <2>5, Restated
  <2> QED
    BY <1>1, <2>3, <2>4, <2>5, <2>6
       DEF IInv, TypeOK, QueueConsistent, Agree, PermitConservation, NoStrandedPermit
<1> QED
  BY <1>2, <1>3 DEF Timeout

LEMMA LeaveInv ==
    ASSUME IInv, NEW r \in Request, Leave(r)
    PROVE  IInv'
<1> DEFINE p == [pc EXCEPT ![r] = "served"]
<1>1. /\ UNCHANGED <<lane, waiting>> /\ inFlight' = inFlight - 1
      /\ pc \in [Request -> PC] /\ queue \in Seq(Request)
      /\ value \in 0..MaxConcurrent /\ MaxConcurrent \in Nat
      /\ pc[r] = "holding" /\ WakeNext(value + 1, queue, p)
  BY MaxConcurrentAssumption DEF Leave, IInv, TypeOK
<1>2. "served" \in PC /\ "served" \in PC \ {"queued"}
  BY DEF PC
<1>3. Cardinality(OwnersIn(p)) = Cardinality(OwnersIn(pc)) - 1
      /\ Cardinality(OwnersIn(p)) \in Nat
  <2>1. Cardinality(OwnersIn(p)) \in Nat
    BY RequestAssumption, FS_Subset, FS_CardinalityType DEF OwnersIn
  <2> QED
    BY <1>1, <1>2, <2>1, OwnerCount
<1>4. p \in [Request -> PC] /\ Agree(queue, p) /\ p[r] = "served"
      /\ \A x \in Request : x # r => p[x] = pc[x]
  BY <1>1, <1>2, Restated, AgreeOutside
<1>5. value + 1 \in Nat \ {0}
  BY <1>1
<1> HIDE DEF p
<1>6. /\ pc' \in [Request -> PC] /\ queue' \in Seq(Request)
      /\ value' \in 0..(value + 1) /\ Agree(queue', pc')
      /\ value' + Cardinality(OwnersIn(pc')) = value + 1 + Cardinality(OwnersIn(p))
      /\ queue' # << >> => \E x \in Request : pc'[x] = "woken"
      /\ \A x \in Request :
            pc'[x] # p[x] => p[x] = "queued" /\ pc'[x] = "woken"
  BY <1>1, <1>4, <1>5, WakeNextFacts
<1>7. CountersExact' /\ inFlight' \in Nat
  <2>1. InSlowWait' = InSlowWait
    BY <1>1, <1>4, <1>6 DEF InSlowWait
  <2>2. Holding' = Holding \ {r} /\ r \in Holding
    BY <1>1, <1>4, <1>6 DEF Holding
  <2>3. Cardinality(Holding') = Cardinality(Holding) - 1
        /\ Cardinality(Holding') \in Nat
    BY <2>2, Restated, FS_RemoveElement, FS_CardinalityType
  <2> QED
    BY <1>1, <2>1, <2>3 DEF IInv, CountersExact
<1>8. Owners' = OwnersIn(pc') /\ Cardinality(OwnersIn(pc')) \in Nat
  BY RequestAssumption, FS_Subset, FS_CardinalityType DEF Owners, OwnersIn
<1>9. value' + Cardinality(OwnersIn(pc')) = MaxConcurrent /\ value' \in 0..MaxConcurrent
  BY <1>1, <1>3, <1>6, <1>8, Restated
<1> QED
  BY <1>1, <1>6, <1>7, <1>8, <1>9
     DEF IInv, TypeOK, QueueConsistent, Agree, PermitConservation, NoStrandedPermit

----------------------------------------------------------------------------

LEMMA NextInv == IInv /\ [Next]_vars => IInv'
<1> SUFFICES ASSUME IInv, [Next]_vars PROVE IInv'
  OBVIOUS
<1>1. CASE UNCHANGED vars
  BY <1>1 DEF vars, IInv, TypeOK, QueueConsistent, PermitConservation,
     NoStrandedPermit, CountersExact, Owners, InSlowWait, Holding
<1>2. ASSUME NEW r \in Request,
             \/ Arrive(r) \/ RunTask(r) \/ WakeResume(r) \/ Timeout(r)
             \/ Enter(r) \/ FallThrough(r) \/ GiveUp(r) \/ Leave(r)
      PROVE  IInv'
  BY <1>2, ArriveInv, RunTaskInv, WakeResumeInv, TimeoutInv, EnterInv,
     FallThroughInv, GiveUpInv, LeaveInv
<1> QED
  BY <1>1, <1>2 DEF Next

THEOREM Invariance == Spec => []IInv
BY InitInv, NextInv, PTL DEF Spec

\* The variables keep their types, and the free permits their bounds.
THEOREM TypeCorrect == Spec => []TypeOK
<1>1. IInv => TypeOK
  BY DEF IInv
<1> QED
  BY <1>1, Invariance, PTL

\* However releases, wake-ups and time-outs interleave, no permit is lost and
\* none is made up, so at most MaxConcurrent requests are in the body.
THEOREM PermitsConserved == Spec => []PermitConservation
<1>1. IInv => PermitConservation
  BY DEF IInv
<1> QED
  BY <1>1, Invariance, PTL

\* A request never waits beside a free permit with nobody awake to pass it on.
THEOREM PermitsNotStranded == Spec => []NoStrandedPermit
<1>1. IInv => NoStrandedPermit
  BY DEF IInv
<1> QED
  BY <1>1, Invariance, PTL

\* The deque never names a request that timed out, nor one request twice.
THEOREM QueueStaysConsistent == Spec => []QueueConsistent
<1>1. IInv => QueueConsistent
  BY DEF IInv
<1> QED
  BY <1>1, Invariance, PTL

\* The published counters are exact and the wait never exceeds its cap.
THEOREM CountersStayExact == Spec => []CountersExact
<1>1. IInv => CountersExact
  BY DEF IInv
<1> QED
  BY <1>1, Invariance, PTL

----------------------------------------------------------------------------
(* The refinement.                                                          *)

\* The instance of BoundedGate brings a copy of Cardinality with it.
LEMMA SameCardinality ==
    \A S : Abstract!Cardinality(S) = Cardinality(S)
BY DEF Abstract!Cardinality, Cardinality

\* The permit owners of the abstract gate are those of the gate.
LEMMA InsideIsOwners ==
    ASSUME IInv
    PROVE  /\ Abstract!Inside = OwnersIn(pc)
           /\ Cardinality(Abstract!Inside) = MaxConcurrent - value
<1>1. Abstract!Inside = OwnersIn(pc)
  BY DEF Abstract!Inside, OwnersIn, status, StatusOf
<1> QED
  BY <1>1, Restated

LEMMA InitRefines == Init => Abstract!Init
BY DEF Init, Abstract!Init, status, StatusOf

\* WakeNext after request r went to place s: either r alone moves, or one
\* pending request gets the permit in the same step.
LEMMA WakeNextMoves ==
    ASSUME IInv, NEW v, NEW r \in Request, NEW s \in PC, pc[r] # "queued",
           NEW p \in [Request -> PC], p[r] = s,
           \A x \in Request : x # r => p[x] = pc[x],
           WakeNext(v, queue, p)
    PROVE  \/ \A x \in Request :
                 status'[x] = IF x = r THEN StatusOf(s) ELSE status[x]
           \/ \E w \in Request :
                 /\ w # r /\ status[w] = "out"
                 /\ \A x \in Request :
                       status'[x] = IF x = r THEN StatusOf(s)
                                    ELSE IF x = w THEN "inside" ELSE status[x]
<1>1. queue \in Seq(Request)
  BY DEF IInv, TypeOK
<1>2. CASE queue = << >>
  BY <1>2 DEF WakeNext, status
<1>3. CASE queue # << >>
  <2> DEFINE w == Head(queue)
  <2>1. pc' = [p EXCEPT ![w] = "woken"]
    BY <1>3 DEF WakeNext
  <2>2. w \in Request /\ pc[w] = "queued"
    <3>1. w = queue[1] /\ 1 \in 1..Len(queue)
      BY <1>1, <1>3, HeadTailProperties, EmptySeq
    <3> QED
      BY <1>1, <3>1, ElementOfSeq DEF IInv, QueueConsistent
  <2> HIDE DEF w
  <2>3. w # r /\ status[w] = "out"
    BY <2>2 DEF status, StatusOf
  <2>4. \A x \in Request :
           status'[x] = IF x = r THEN StatusOf(s)
                        ELSE IF x = w THEN "inside" ELSE status[x]
    BY <2>1, <2>2, <2>3 DEF status, StatusOf
  <2> QED
    BY <2>2, <2>3, <2>4
<1> QED
  BY <1>2, <1>3

LEMMA StepRefines ==
    ASSUME IInv, NEW r \in Request,
           \/ Arrive(r) \/ RunTask(r) \/ WakeResume(r) \/ Timeout(r)
           \/ Enter(r) \/ FallThrough(r) \/ GiveUp(r) \/ Leave(r)
    PROVE  Abstract!Next \/ UNCHANGED status
<1>1. pc \in [Request -> PC] /\ queue \in Seq(Request)
      /\ value \in 0..MaxConcurrent /\ MaxConcurrent \in Nat
  BY MaxConcurrentAssumption DEF IInv, TypeOK
<1>2. ASSUME pc' = [pc EXCEPT ![r] = "rejected"], pc[r] \in {"idle", "expired"}
      PROVE  Abstract!Next
  <2>1. status[r] = "out" /\ status' = [status EXCEPT ![r] = "refused"]
    BY <1>1, <1>2 DEF status, StatusOf
  <2> QED
    BY <2>1 DEF Abstract!Next, Abstract!Refuse
<1>3. ASSUME NEW s \in PC, pc' = [pc EXCEPT ![r] = s],
             StatusOf(s) = StatusOf(pc[r])
      PROVE  UNCHANGED status
  BY <1>1, <1>3 DEF status
<1>4. CASE Arrive(r) \/ FallThrough(r)
  <2>1. pc[r] \in {"idle", "expired"}
        /\ (pc' = [pc EXCEPT ![r] = "rejected"] \/ pc' = [pc EXCEPT ![r] = "task"])
    BY <1>4 DEF Arrive, FallThrough, SlowEntry
  <2> QED
    BY <1>2, <1>3, <2>1 DEF PC, StatusOf
<1>5. CASE RunTask(r)
  <2>1. CASE pc' = [pc EXCEPT ![r] = "queued"]
    BY <1>3, <1>5, <2>1 DEF RunTask, PC, StatusOf
  <2>2. CASE ~ Locked /\ pc' = [pc EXCEPT ![r] = "acquired"]
    <3>1. status[r] = "out" /\ status' = [status EXCEPT ![r] = "inside"]
      BY <1>1, <1>5, <2>2 DEF RunTask, status, StatusOf
    <3>2. Cardinality(Abstract!Inside) < MaxConcurrent
      BY <1>1, <2>2, InsideIsOwners DEF Locked
    <3> QED
      BY <3>1, <3>2, SameCardinality DEF Abstract!Next, Abstract!Admit
  <2> QED
    BY <1>5, <2>1, <2>2 DEF RunTask
<1>6. CASE WakeResume(r)
  <2>1. pc[r] = "woken"
    BY <1>6 DEF WakeResume
  <2>2. CASE pc' = [pc EXCEPT ![r] = "acquired"]
    BY <1>3, <2>1, <2>2 DEF PC, StatusOf
  <2>3. CASE value > 0 /\ WakeNext(value, queue, [pc EXCEPT ![r] = "acquired"])
    <3> DEFINE p == [pc EXCEPT ![r] = "acquired"]
    <3>1. /\ "acquired" \in PC /\ pc[r] # "queued"
          /\ StatusOf("acquired") = "inside" /\ status[r] = "inside"
      BY <2>1 DEF StatusOf, status, PC
    <3>2. /\ p \in [Request -> PC] /\ p[r] = "acquired"
          /\ \A x \in Request : x # r => p[x] = pc[x]
          /\ WakeNext(value, queue, p)
      BY <1>1, <2>3, <3>1
    <3> HIDE DEF p
    <3>3. \/ \A x \in Request : status'[x] = status[x]
          \/ \E w \in Request :
                /\ status[w] = "out"
                /\ \A x \in Request :
                      status'[x] = IF x = w THEN "inside" ELSE status[x]
      BY <3>1, <3>2, WakeNextMoves
    <3>4. CASE \A x \in Request : status'[x] = status[x]
      BY <3>4 DEF status
    <3>5. ASSUME NEW w \in Request, status[w] = "out",
                 \A x \in Request :
                    status'[x] = IF x = w THEN "inside" ELSE status[x]
          PROVE  Abstract!Next
      <4>1. status' = [status EXCEPT ![w] = "inside"]
        BY <3>5 DEF status
      <4>2. Cardinality(Abstract!Inside) < MaxConcurrent
        BY <1>1, <2>3, InsideIsOwners
      <4> QED
        BY <3>5, <4>1, <4>2, SameCardinality DEF Abstract!Next, Abstract!Admit
    <3> QED
      BY <3>3, <3>4, <3>5
  <2> QED
    BY <1>6, <2>2, <2>3 DEF WakeResume
<1>7. ASSUME NEW s \in {"served", "expired"}, pc[r] \in {"woken", "holding"},
             WakeNext(value + 1, queue, [pc EXCEPT ![r] = s])
      PROVE  Abstract!Next
  <2> DEFINE p == [pc EXCEPT ![r] = s]
  <2>1. /\ s \in PC /\ pc[r] # "queued"
        /\ StatusOf(s) \in {"served", "out"} /\ status[r] = "inside"
    BY <1>7 DEF PC, StatusOf, status
  <2>2. /\ p \in [Request -> PC] /\ p[r] = s
        /\ \A x \in Request : x # r => p[x] = pc[x]
        /\ WakeNext(value + 1, queue, p)
    BY <1>1, <1>7, <2>1
  <2> HIDE DEF p
  <2>3. \/ \A x \in Request :
              status'[x] = IF x = r THEN StatusOf(s) ELSE status[x]
        \/ \E w \in Request :
              /\ w # r /\ status[w] = "out"
              /\ \A x \in Request :
                    status'[x] = IF x = r THEN StatusOf(s)
                                 ELSE IF x = w THEN "inside" ELSE status[x]
    BY <2>1, <2>2, WakeNextMoves
  <2>4. ASSUME \A x \in Request :
                  status'[x] = IF x = r THEN StatusOf(s) ELSE status[x]
        PROVE  Abstract!Next
    <3>1. status' = [status EXCEPT ![r] = StatusOf(s)]
      BY <2>4 DEF status
    <3> QED
      BY <2>1, <3>1 DEF Abstract!Next, Abstract!GiveUp
  <2>5. ASSUME NEW w \in Request, w # r, status[w] = "out",
               \A x \in Request :
                  status'[x] = IF x = r THEN StatusOf(s)
                               ELSE IF x = w THEN "inside" ELSE status[x]
        PROVE  Abstract!Next
    <3>1. status' = [status EXCEPT ![r] = StatusOf(s), ![w] = "inside"]
      BY <2>5 DEF status
    <3>2. Abstract!HandOver(r, StatusOf(s), w)
      BY <2>1, <2>5, <3>1 DEF Abstract!HandOver
    <3> QED
      BY <2>1, <3>2 DEF Abstract!Next
  <2> QED
    BY <2>3, <2>4, <2>5
<1>8. CASE Timeout(r)
  <2>1. CASE \E k \in 1..Len(queue) :
                queue[k] = r /\ pc' = [pc EXCEPT ![r] = "expired"]
    <3>1. pc[r] = "queued"
      BY <2>1 DEF IInv, QueueConsistent
    <3> QED
      BY <1>3, <2>1, <3>1 DEF PC, StatusOf
  <2>2. CASE pc[r] = "woken" /\ WakeNext(value + 1, queue, [pc EXCEPT ![r] = "expired"])
    BY <1>7, <2>2
  <2> QED
    BY <1>8, <2>1, <2>2 DEF Timeout
<1>9. CASE Enter(r)
  BY <1>3, <1>9 DEF Enter, PC, StatusOf
<1>10. CASE GiveUp(r)
  BY <1>2, <1>10 DEF GiveUp
<1>11. CASE Leave(r)
  BY <1>7, <1>11 DEF Leave
<1> QED
  BY <1>4, <1>5, <1>6, <1>8, <1>9, <1>10, <1>11

LEMMA NextRefines == IInv /\ [Next]_vars => [Abstract!Next]_status
<1> SUFFICES ASSUME IInv, [Next]_vars PROVE [Abstract!Next]_status
  OBVIOUS
<1>1. CASE UNCHANGED vars
  BY <1>1 DEF vars, status
<1>2. CASE Next
  BY <1>2, StepRefines DEF Next
<1> QED
  BY <1>1, <1>2

\* The gate is a bounded set of permit owners: no interleaving of requests,
\* wake-ups and timers lets it do anything BoundedGate does not.
THEOREM Refinement == Spec => ImplementsBoundedGate
BY InitRefines, NextRefines, Invariance, PTL
   DEF Spec, ImplementsBoundedGate, Abstract!Spec

=============================================================================
