-------------------------- MODULE RedisCircuitProofs ------------------------
(* The sliding window of check_rate_limit for any number of instances,      *)
(* requests, outages and lost replies.  A request counts from the moment    *)
(* its script says yes, whether or not the reply arrives yet; while others  *)
(* could still be counted with it, the key remembers it, and the script     *)
(* that lets one more through has seen all of those in the key.             *)
EXTENDS RedisCircuit, FiniteSetTheorems, TLAPS

RequestType ==
    [pc : {"idle", "sent", "stalled", "replied", "done"},
     inst : Instance \cup {Nobody}, now : 0..MaxTime, at : 0..MaxTime, ok : BOOLEAN]

\* TypeOK but for the size of the key.
Types ==
    /\ redis \in {"up", "refusing", "hanging"}
    /\ circuit \in [Instance -> {"open", "closed"}]
    /\ loop \in [Instance -> {"asleep", "pinging", "swapping"}]
    /\ probe \in [Instance -> {"asleep", "pinging"}]
    /\ available \in [Instance -> BOOLEAN]
    /\ health \in [Instance -> {"unknown", "healthy", "unhealthy"}]
    /\ req \in [Request -> RequestType]
    /\ zset \in SUBSET [uid : Request, now : 0..MaxTime]
    /\ expires \in 0..(MaxTime + Window + 1)
    /\ clock \in 0..MaxTime
    /\ admitted \in SUBSET [uid : Request, at : 0..MaxTime]
    /\ faults \in 0..MaxFaults

\* A call under way is at most MaxDelay older than its time stamp.
OnTime ==
    \A q \in Request : req[q].pc \in {"sent", "stalled", "replied"} =>
        /\ req[q].inst \in Instance
        /\ req[q].now <= clock /\ clock <= req[q].now + MaxDelay

\* The key fits the limit and expires a window after the last entry at the latest.
KeyBounded ==
    /\ IsFiniteSet(zset)
    /\ Cardinality(zset) <= Limit
    /\ expires <= clock + Window + 1

\* What is admitted, and what will be if its reply arrives.
Counted == {g \in [uid : Request, at : 0..MaxTime] :
    \/ g \in admitted
    \/ req[g.uid].pc = "replied" /\ req[g.uid].ok /\ req[g.uid].at = g.at}

AdmittedOnce ==
    /\ \A g \in admitted : req[g.uid].pc = "done"
    /\ \A g, h \in admitted : g.uid = h.uid => g = h

\* As long as another request could be counted in the same stretch, the key
\* exists and has an entry of the request, not much older than its script.
Remembered ==
    \A g \in Counted :
        /\ g.at <= clock
        /\ g.at + Window < expires
        /\ clock < g.at + Window - MaxDelay =>
             \E e \in zset : e.uid = g.uid /\ e.now >= g.at - MaxDelay

CountedIn(t) == {g \in Counted : t <= g.at /\ g.at < t + Window - MaxDelay}

WithinLimit == \A t \in 0..MaxTime : Cardinality(CountedIn(t)) <= Limit

LimiterInv == OnTime /\ KeyBounded /\ AdmittedOnce /\ Remembered /\ WithinLimit

----------------------------------------------------------------------------
(* Types.                                                                   *)

LEMMA DoneFields ==
    /\ Done.pc = "done" /\ Done \in RequestType
    /\ Fresh.pc = "idle" /\ Fresh \in RequestType
<1>1. Fresh.pc = "idle" /\ Fresh \in RequestType
  BY BoundAssumption DEF Fresh, RequestType
<1>2. Done.pc = "done" /\ Done \in RequestType
  BY <1>1 DEF Done, RequestType
<1> QED
  BY <1>1, <1>2

LEMMA TypesInit == Init => Types
BY DoneFields, WindowAssumption, BoundAssumption DEF Init, Types

LEMMA TypesStep ==
    ASSUME Types, [Next]_vars
    PROVE  Types'
<1> USE DEF Types
<1>1. ASSUME Outage \/ Recover PROVE Types'
  BY <1>1, BoundAssumption DEF Outage, Recover, watchers, limiter
<1>2. CASE Tick
  BY <1>2, BoundAssumption DEF Tick, watchers
<1>3. ASSUME NEW i \in Instance, Wake(i) \/ Ping(i) \/ ProbeStart(i) \/ Check(i)
      PROVE  Types'
  BY <1>3 DEF Wake, Ping, ProbeStart, Check, RedisHealth, limiter
<1>4. ASSUME NEW i \in Instance, ProbeEnd(i)
      PROVE  Types'
  <2>1. circuit' \in [Instance -> {"open", "closed"}]
    BY <1>4 DEF ProbeEnd, Tripped
  <2> QED
    BY <1>4, <2>1 DEF ProbeEnd, limiter
<1>5. ASSUME NEW i \in Instance, Swap(i)
      PROVE  Types'
  <2>1. req' \in [Request -> RequestType]
    <3>1. PICK broken \in SUBSET InFlight(i) :
            req' = [r \in Request |-> IF r \in broken THEN Done ELSE req[r]]
      BY <1>5 DEF Swap
    <3> QED
      BY <3>1, DoneFields
  <2> QED
    BY <1>5, <2>1 DEF Swap
<1>6. ASSUME NEW q \in Request, NEW i \in Instance, Ask(q, i)
      PROVE  Types'
  <2>1. req' \in [Request -> RequestType]
    <3>1. [Fresh EXCEPT !.pc = "sent", !.inst = i, !.now = clock] \in RequestType
      BY DoneFields DEF RequestType
    <3> QED
      BY <1>6, <3>1, DoneFields DEF Ask
  <2> QED
    BY <1>6, <2>1 DEF Ask, watchers
<1>7. ASSUME NEW q \in Request, Execute(q)
      PROVE  Types'
  <2>1. zset' \in SUBSET [uid : Request, now : 0..MaxTime]
    <3>1. \A e \in Recent(req[q].now) : e \in [uid : Request, now : 0..MaxTime]
      BY DEF Recent
    <3>2. req[q].now \in 0..MaxTime
      BY DEF RequestType
    <3>3. \A e \in zset' : e \in Recent(req[q].now) \/ e = [uid |-> q, now |-> req[q].now]
      BY <1>7 DEF Execute
    <3> QED
      BY <3>1, <3>2, <3>3
  <2>2. expires' \in 0..(MaxTime + Window + 1)
    <3>1. expires' = clock + Window + 1 \/ expires' = expires
      BY <1>7 DEF Execute
    <3> QED
      BY <3>1, WindowAssumption, BoundAssumption
  <2>3. req' \in [Request -> RequestType]
    <3> DEFINE ok == Room(Recent(req[q].now))
    <3>1. ok \in BOOLEAN
      BY DEF Room
    <3>2. req' = [req EXCEPT ![q].pc = "replied", ![q].ok = ok, ![q].at = clock]
      BY <1>7, Zenon DEF Execute
    <3> HIDE DEF ok
    <3>3. req' = [req EXCEPT ![q] = [req[q] EXCEPT !.pc = "replied", !.ok = ok, !.at = clock]]
      BY <3>2
    <3>4. [req[q] EXCEPT !.pc = "replied", !.ok = ok, !.at = clock] \in RequestType
      <4>1. [req[q] EXCEPT !.pc = "replied"] \in RequestType
        BY DEF RequestType
      <4>2. [[req[q] EXCEPT !.pc = "replied"] EXCEPT !.ok = ok] \in RequestType
        BY <3>1, <4>1 DEF RequestType
      <4>3. [[[req[q] EXCEPT !.pc = "replied"] EXCEPT !.ok = ok] EXCEPT !.at = clock] \in RequestType
        BY <4>2 DEF RequestType
      <4> QED
        BY <4>3
    <3> QED
      BY <3>3, <3>4
  <2> QED
    BY <1>7, <2>1, <2>2, <2>3 DEF Execute, watchers
<1>8. ASSUME NEW q \in Request, Reply(q) \/ TimeOut(q) \/ Refused(q)
      PROVE  Types'
  <2>1. req' \in [Request -> RequestType]
    BY <1>8, DoneFields DEF Reply, TimeOut, Refused, Answered
  <2>2. admitted' \in SUBSET [uid : Request, at : 0..MaxTime]
    BY <1>8 DEF Reply, TimeOut, Refused, Answered, RequestType
  <2> QED
    BY <1>8, <2>1, <2>2 DEF Reply, TimeOut, Refused, Tripped, watchers
<1>9. ASSUME NEW q \in Request, LoseReply(q) \/ Stall(q) \/ Resend(q)
      PROVE  Types'
  <2>1. req' \in [Request -> RequestType]
    BY <1>9 DEF LoseReply, Stall, Resend, RequestType
  <2> QED
    BY <1>9, <2>1, BoundAssumption DEF LoseReply, Stall, Resend, watchers
<1>10. CASE UNCHANGED vars
  BY <1>10 DEF vars
<1> QED
  BY <1>1, <1>2, <1>3, <1>4, <1>5, <1>6, <1>7, <1>8, <1>9, <1>10 DEF Next, Watch, Serve

----------------------------------------------------------------------------
(* The limiter.                                                             *)

LEMMA OneMore ==
    ASSUME NEW S, NEW x, IsFiniteSet(S)
    PROVE  IsFiniteSet(S \cup {x}) /\ Cardinality(S \cup {x}) <= Cardinality(S) + 1
<1>1. Cardinality(S) \in Nat
  BY FS_CardinalityType
<1>2. IsFiniteSet(S \cup {x})
  BY FS_AddElement
<1>3. Cardinality(S \cup {x}) = Cardinality(S) \/ Cardinality(S \cup {x}) = Cardinality(S) + 1
  BY FS_AddElement
<1> QED
  BY <1>1, <1>2, <1>3

\* A request counts once, hence only finitely many do.
LEMMA CountedOnce ==
    ASSUME Types, AdmittedOnce
    PROVE  /\ \A g, h \in Counted : g.uid = h.uid => g = h
           /\ IsFiniteSet(Counted)
<1>1. ASSUME NEW g \in Counted, NEW h \in Counted, g.uid = h.uid
      PROVE  g = h
  <2>1. CASE g \in admitted /\ h \in admitted
    BY <1>1, <2>1 DEF AdmittedOnce
  <2>2. CASE g \notin admitted \/ h \notin admitted
    <3>1. g \notin admitted /\ h \notin admitted
      BY <1>1, <2>2 DEF AdmittedOnce, Counted
    <3>2. g.at = h.at
      BY <1>1, <3>1 DEF Counted
    <3> QED
      BY <1>1, <3>2 DEF Counted
  <2> QED
    BY <2>1, <2>2
<1>2. [g \in Counted |-> g.uid] \in Injection(Counted, Request)
  BY <1>1 DEF Injection, IsInjective, Counted
<1>3. IsFiniteSet(Request)
  BY FS_Interval, BoundAssumption DEF Request
<1> QED
  BY <1>1, <1>2, <1>3, FS_Injection

\* The limit stays kept when nothing more counts.
LEMMA FewerCounted ==
    ASSUME Types, AdmittedOnce, WithinLimit, Counted' \in SUBSET Counted
    PROVE  WithinLimit'
<1> SUFFICES ASSUME NEW t \in 0..MaxTime PROVE Cardinality(CountedIn(t)') <= Limit
  BY DEF WithinLimit
<1>1. IsFiniteSet(CountedIn(t)) /\ Cardinality(CountedIn(t)) \in Nat
  BY CountedOnce, FS_Subset, FS_CardinalityType DEF CountedIn
<1>2. CountedIn(t)' \in SUBSET CountedIn(t)
  BY DEF CountedIn
<1>3. Cardinality(CountedIn(t)') <= Cardinality(CountedIn(t)) /\ Cardinality(CountedIn(t)') \in Nat
  BY <1>1, <1>2, FS_Subset, FS_CardinalityType
<1>4. Cardinality(CountedIn(t)) <= Limit
  BY DEF WithinLimit
<1> QED
  BY <1>1, <1>3, <1>4, LimitAssumption

\* Steps of a request that do not run the script: it may stop counting, ...
LEMMA RequestMoves ==
    ASSUME Types, LimiterInv, UNCHANGED <<zset, expires, clock, admitted>>,
           \A q \in Request :
               \/ req'[q] = req[q]
               \/ /\ req[q].pc # "done" /\ req'[q].pc \in {"sent", "stalled", "done"}
                  /\ req'[q].pc # "done" =>
                       /\ req'[q].inst \in Instance
                       /\ req'[q].now <= clock /\ clock <= req'[q].now + MaxDelay
    PROVE  LimiterInv'
<1>1. OnTime'
  BY DEF LimiterInv, OnTime
<1>2. KeyBounded'
  BY DEF LimiterInv, KeyBounded
<1>3. Counted' \in SUBSET Counted
  BY DEF Counted
<1>4. AdmittedOnce'
  BY DEF LimiterInv, AdmittedOnce, Types, RequestType
<1>5. Remembered'
  BY <1>3 DEF LimiterInv, Remembered
<1>6. WithinLimit'
  BY <1>3, FewerCounted DEF LimiterInv
<1> QED
  BY <1>1, <1>2, <1>4, <1>5, <1>6 DEF LimiterInv

\* ... or time goes on, and with it perhaps the key, ...
LEMMA TickKeeps ==
    ASSUME Types, LimiterInv, Tick
    PROVE  LimiterInv'
<1>1. /\ clock' = clock + 1 /\ UNCHANGED <<req, expires, admitted>>
      /\ zset' = IF clock' >= expires THEN {} ELSE zset
      /\ \A i \in Instance : \A q \in InFlight(i) : clock < req[q].now + MaxDelay
      /\ clock \in Nat /\ expires \in Nat /\ MaxDelay \in Nat /\ Window \in Nat
  BY WindowAssumption, BoundAssumption DEF Tick, Types
<1>2. OnTime'
  <2> SUFFICES ASSUME NEW q \in Request, req[q].pc \in {"sent", "stalled", "replied"}
               PROVE  /\ req[q].inst \in Instance
                      /\ req[q].now <= clock' /\ clock' <= req[q].now + MaxDelay
    BY <1>1 DEF OnTime
  <2>1. /\ req[q].inst \in Instance /\ req[q].now <= clock
    BY DEF LimiterInv, OnTime
  <2>2. q \in InFlight(req[q].inst)
    BY DEF InFlight
  <2>3. clock < req[q].now + MaxDelay
    BY <1>1, <2>1, <2>2
  <2>4. req[q].now \in Nat
    BY BoundAssumption DEF Types, RequestType
  <2> QED
    BY <1>1, <2>1, <2>3, <2>4
<1>3. KeyBounded'
  <2>1. IsFiniteSet(zset') /\ Cardinality(zset') <= Limit
    BY <1>1, FS_EmptySet, LimitAssumption DEF LimiterInv, KeyBounded
  <2>2. expires' <= clock' + Window + 1
    BY <1>1 DEF LimiterInv, KeyBounded
  <2> QED
    BY <2>1, <2>2 DEF KeyBounded
<1>4. Counted' = Counted
  BY <1>1 DEF Counted
<1>5. AdmittedOnce'
  BY <1>1 DEF LimiterInv, AdmittedOnce
<1>6. Remembered'
  <2> SUFFICES ASSUME NEW g \in Counted
               PROVE  /\ g.at <= clock'
                      /\ g.at + Window < expires
                      /\ clock' < g.at + Window - MaxDelay =>
                           \E e \in zset' : e.uid = g.uid /\ e.now >= g.at - MaxDelay
    BY <1>1, <1>4 DEF Remembered
  <2>1. g.at \in Nat
    BY BoundAssumption DEF Counted
  <2>2. /\ g.at <= clock /\ g.at + Window < expires
        /\ clock < g.at + Window - MaxDelay =>
             \E e \in zset : e.uid = g.uid /\ e.now >= g.at - MaxDelay
    BY DEF LimiterInv, Remembered
  <2>3. clock' < g.at + Window - MaxDelay => zset' = zset /\ clock < g.at + Window - MaxDelay
    BY <1>1, <2>1, <2>2
  <2> QED
    BY <1>1, <2>1, <2>2, <2>3
<1>7. WithinLimit'
  BY <1>4, FewerCounted DEF LimiterInv
<1> QED
  BY <1>2, <1>3, <1>5, <1>6, <1>7 DEF LimiterInv

\* ... or a reply arrives, with which nothing changes that counts.
LEMMA ReplyKeeps ==
    ASSUME Types, LimiterInv, NEW q \in Request, Reply(q)
    PROVE  LimiterInv'
<1>1. /\ req[q].pc = "replied" /\ req' = [req EXCEPT ![q] = Done]
      /\ admitted' = IF req[q].ok THEN admitted \cup {[uid |-> q, at |-> req[q].at]} ELSE admitted
      /\ UNCHANGED <<zset, expires, clock>>
  BY DEF Reply, Answered
<1>2. /\ req'[q].pc = "done"
      /\ \A r \in Request : r # q => req'[r] = req[r]
  BY <1>1, DoneFields DEF Types
<1>3. OnTime'
  BY <1>1, <1>2 DEF LimiterInv, OnTime
<1>4. KeyBounded'
  BY <1>1 DEF LimiterInv, KeyBounded
<1>5. Counted' = Counted
  <2>1. ASSUME NEW g \in [uid : Request, at : 0..MaxTime]
        PROVE  g \in Counted' <=> g \in Counted
    <3>1. CASE g.uid = q
      <4>1. g \notin admitted
        BY <1>1, <3>1 DEF LimiterInv, AdmittedOnce
      <4>2. g = [uid |-> q, at |-> req[q].at] <=> g.at = req[q].at
        BY <3>1
      <4> QED
        BY <1>1, <1>2, <3>1, <4>1, <4>2 DEF Counted
    <3>2. CASE g.uid # q
      BY <1>1, <1>2, <3>2 DEF Counted
    <3> QED
      BY <3>1, <3>2
  <2> QED
    BY <2>1 DEF Counted
<1>6. AdmittedOnce'
  <2>1. \A g \in admitted : g.uid # q
    BY <1>1 DEF LimiterInv, AdmittedOnce
  <2>2. \A g \in admitted' : g \in admitted \/ g = [uid |-> q, at |-> req[q].at]
    BY <1>1
  <2> QED
    BY <1>2, <2>1, <2>2 DEF LimiterInv, AdmittedOnce, Types, RequestType
<1>7. Remembered'
  BY <1>1, <1>5 DEF LimiterInv, Remembered
<1>8. WithinLimit'
  BY <1>5, FewerCounted DEF LimiterInv
<1> QED
  BY <1>3, <1>4, <1>6, <1>7, <1>8 DEF LimiterInv

\* The cutoff of a script, late as it may run, spares the entries of all requests
\* that could count in one stretch with what happens now.
LEMMA RecentKept ==
    ASSUME Types, LimiterInv, NEW q \in Request, req[q].pc = "sent",
           NEW g \in Counted, clock < g.at + Window - MaxDelay
    PROVE  /\ g.uid \in Request /\ g.uid # q
           /\ \E e \in Recent(req[q].now) : e.uid = g.uid /\ e.now >= g.at - MaxDelay
<1>1. PICK e \in zset : e.uid = g.uid /\ e.now >= g.at - MaxDelay
  BY DEF LimiterInv, Remembered
<1>2. req[q].now <= clock
  BY DEF LimiterInv, OnTime
<1>3. /\ e.now \in Nat /\ g.at \in Nat /\ req[q].now \in Nat /\ clock \in Nat
      /\ Window \in Nat /\ MaxDelay \in Nat
  BY WindowAssumption, BoundAssumption DEF Types, RequestType, Counted
<1>4. e.now > req[q].now - Window
  BY <1>1, <1>2, <1>3
<1>5. e \in Recent(req[q].now)
  BY <1>4 DEF Recent
<1>6. g.uid \in Request /\ g.uid # q
  BY DEF Counted, LimiterInv, AdmittedOnce
<1> QED
  BY <1>1, <1>5, <1>6

\* So whoever counts in a stretch that is still open has an entry of its own.
LEMMA RoomForAll ==
    ASSUME Types, LimiterInv, NEW q \in Request, req[q].pc = "sent",
           NEW t \in 0..MaxTime, clock < t + Window - MaxDelay
    PROVE  Cardinality(CountedIn(t)) <= Cardinality(Recent(req[q].now))
<1> DEFINE R == Recent(req[q].now)
           own == [g \in CountedIn(t) |-> CHOOSE e \in R : e.uid = g.uid]
<1>1. ASSUME NEW g \in CountedIn(t) PROVE own[g] \in R /\ own[g].uid = g.uid
  <2>1. g \in Counted /\ t <= g.at
    BY DEF CountedIn
  <2>2. clock < g.at + Window - MaxDelay
    BY <2>1, WindowAssumption, BoundAssumption DEF Counted, Types
  <2>3. \E e \in R : e.uid = g.uid
    BY <2>1, <2>2, RecentKept
  <2> QED
    BY <2>3
<1>2. \A g, h \in CountedIn(t) : g.uid = h.uid => g = h
  BY CountedOnce DEF CountedIn, LimiterInv
<1> HIDE DEF R
<1>3. own \in Injection(CountedIn(t), R)
  <2>1. own \in [CountedIn(t) -> R]
    BY <1>1
  <2>2. \A g, h \in CountedIn(t) : own[g] = own[h] => g = h
    <3> HIDE DEF own
    <3> QED
      BY <1>1, <1>2
  <2>3. DOMAIN own = CountedIn(t)
    OBVIOUS
  <2> HIDE DEF own
  <2> QED
    BY <2>1, <2>2, <2>3 DEF Injection, IsInjective
<1>4. IsFiniteSet(R)
  <2>1. R \in SUBSET zset
    BY DEF Recent, R
  <2> QED
    BY <2>1, FS_Subset DEF LimiterInv, KeyBounded
<1> QED
  BY <1>3, <1>4, FS_Injection DEF R

LEMMA ExecuteKeeps ==
    ASSUME Types, LimiterInv, NEW q \in Request, Execute(q)
    PROVE  LimiterInv'
<1> DEFINE now == req[q].now
           R == Recent(now)
           ok == Room(R)
           new == [uid |-> q, now |-> now]
           more == [uid |-> q, at |-> clock]
<1>1. /\ req[q].pc = "sent"
      /\ zset' = IF ok THEN {e \in R : e.uid # q} \cup {new} ELSE R
      /\ expires' = IF ok THEN clock + Window + 1 ELSE expires
      /\ req' = [req EXCEPT ![q].pc = "replied", ![q].ok = ok, ![q].at = clock]
      /\ UNCHANGED <<clock, admitted>>
  BY Zenon DEF Execute
<1>2. /\ req[q].inst \in Instance /\ now <= clock /\ clock <= now + MaxDelay
      /\ now \in Nat /\ clock \in Nat /\ expires \in Nat /\ Window \in Nat /\ MaxDelay \in Nat
      /\ clock \in 0..MaxTime /\ now \in 0..MaxTime
  BY <1>1, WindowAssumption, BoundAssumption DEF LimiterInv, OnTime, Types, RequestType
<1>3. ok \in BOOLEAN /\ (ok <=> Cardinality(R) < Limit)
  BY DEF Room
<1>4. R \in SUBSET zset /\ IsFiniteSet(R) /\ Cardinality(R) \in Nat /\ Cardinality(R) <= Limit
  <2>1. R \in SUBSET zset
    BY DEF Recent
  <2>2. IsFiniteSet(R) /\ Cardinality(R) <= Cardinality(zset)
        /\ Cardinality(R) \in Nat /\ Cardinality(zset) \in Nat
    BY <2>1, FS_Subset, FS_CardinalityType DEF LimiterInv, KeyBounded
  <2>3. Cardinality(zset) <= Limit
    BY DEF LimiterInv, KeyBounded
  <2> QED
    BY <2>1, <2>2, <2>3, LimitAssumption
<1>5. /\ \A r \in Request : r # q => req'[r] = req[r]
      /\ req'[q].pc = "replied" /\ req'[q].ok = ok /\ req'[q].at = clock
      /\ req'[q].now = now /\ req'[q].inst = req[q].inst
  <2> HIDE DEF ok
  <2> QED
    BY <1>1 DEF Types, RequestType
<1>6. \A g \in Counted : clock < g.at + Window - MaxDelay =>
        g.uid # q /\ \E e \in R : e.uid = g.uid /\ e.now >= g.at - MaxDelay
  BY <1>1, RecentKept
<1>7. \A t \in 0..MaxTime : clock < t + Window - MaxDelay =>
        Cardinality(CountedIn(t)) <= Cardinality(R)
  BY <1>1, RoomForAll
<1>8. \A g \in Counted : g.uid # q
  BY <1>1 DEF LimiterInv, AdmittedOnce, Counted
<1> HIDE DEF ok, R, now
<1>9. \A g : g \in Counted' <=> g \in Counted \/ (ok /\ g = more)
  <2>1. ASSUME NEW g \in [uid : Request, at : 0..MaxTime]
        PROVE  g \in Counted' <=> g \in Counted \/ (ok /\ g = more)
    <3>1. CASE g.uid = q
      <4>1. g \notin Counted /\ g \notin admitted
        BY <1>8, <3>1 DEF Counted
      <4>2. g = more <=> g.at = clock
        BY <3>1
      <4> QED
        BY <1>1, <1>5, <3>1, <4>1, <4>2 DEF Counted
    <3>2. CASE g.uid # q
      <4>1. g.uid \in Request /\ req'[g.uid] = req[g.uid] /\ g # more
        BY <1>5, <3>2
      <4>2. admitted' = admitted
        BY <1>1
      <4> HIDE DEF more
      <4> QED
        BY <4>1, <4>2 DEF Counted
    <3> QED
      BY <3>1, <3>2
  <2>2. more \in [uid : Request, at : 0..MaxTime]
    BY <1>2
  <2> QED
    BY <2>1, <2>2 DEF Counted
<1>10. OnTime'
  BY <1>1, <1>2, <1>5 DEF LimiterInv, OnTime
<1>11. KeyBounded'
  <2>1. expires' <= clock' + Window + 1
    BY <1>1, <1>2 DEF LimiterInv, KeyBounded
  <2>2. CASE ok
    <3>1. zset' = {e \in R : e.uid # q} \cup {new}
      BY <1>1, <2>2
    <3> DEFINE others == {e \in R : e.uid # q}
    <3>2. IsFiniteSet(others) /\ Cardinality(others) <= Cardinality(R) /\ Cardinality(others) \in Nat
      BY <1>4, FS_Subset, FS_CardinalityType
    <3> HIDE DEF others, new
    <3>3. IsFiniteSet(others \cup {new}) /\ Cardinality(others \cup {new}) <= Cardinality(others) + 1
      BY <3>2, OneMore
    <3>4. Cardinality(others \cup {new}) \in Nat
      BY <3>3, FS_CardinalityType
    <3>5. Cardinality(others \cup {new}) <= Limit
      BY <1>3, <1>4, <2>2, <3>2, <3>3, <3>4, LimitAssumption
    <3> QED
      BY <2>1, <3>1, <3>3, <3>5 DEF KeyBounded, others
  <2>3. CASE ~ok
    BY <1>1, <1>4, <2>1, <2>3 DEF KeyBounded
  <2> QED
    BY <2>2, <2>3
<1>12. AdmittedOnce'
  BY <1>1, <1>5, <1>8 DEF LimiterInv, AdmittedOnce, Types
<1>13. Remembered'
  <2> SUFFICES ASSUME NEW g \in Counted'
               PROVE  /\ g.at <= clock
                      /\ g.at + Window < expires'
                      /\ clock < g.at + Window - MaxDelay =>
                           \E e \in zset' : e.uid = g.uid /\ e.now >= g.at - MaxDelay
    BY <1>1 DEF Remembered
  <2>1. CASE g \in Counted
    <3>1. g.at <= clock /\ g.at + Window < expires /\ g.at \in Nat
      BY <2>1, BoundAssumption DEF LimiterInv, Remembered, Counted
    <3>2. g.at + Window < expires'
      BY <1>1, <1>2, <3>1
    <3>3. ASSUME clock < g.at + Window - MaxDelay
          PROVE  \E e \in zset' : e.uid = g.uid /\ e.now >= g.at - MaxDelay
      <4>1. PICK e \in R : e.uid = g.uid /\ e.now >= g.at - MaxDelay
        BY <1>6, <2>1, <3>3
      <4>2. e.uid # q
        BY <1>8, <2>1, <4>1
      <4>3. e \in zset'
        BY <1>1, <4>2
      <4> QED
        BY <4>1, <4>3
    <3> QED
      BY <3>1, <3>2, <3>3
  <2>2. CASE g \notin Counted
    <3>1. ok /\ g = more
      BY <1>9, <2>2
    <3>2. new \in zset' /\ expires' = clock + Window + 1
      BY <1>1, <3>1
    <3>3. g.uid = q /\ g.at = clock /\ new.uid = q /\ new.now = now
      BY <3>1
    <3> QED
      BY <1>2, <3>2, <3>3
  <2> QED
    BY <2>1, <2>2
<1>14. WithinLimit'
  <2> SUFFICES ASSUME NEW t \in 0..MaxTime PROVE Cardinality(CountedIn(t)') <= Limit
    BY DEF WithinLimit
  <2>1. IsFiniteSet(CountedIn(t)) /\ Cardinality(CountedIn(t)) \in Nat
    BY CountedOnce, FS_Subset, FS_CardinalityType DEF CountedIn, LimiterInv
  <2>2. Cardinality(CountedIn(t)) <= Limit
    BY DEF LimiterInv, WithinLimit
  <2>3. CASE ok /\ clock < t + Window - MaxDelay
    <3>1. CountedIn(t)' \in SUBSET (CountedIn(t) \cup {more})
      BY <1>9 DEF CountedIn
    <3>2. IsFiniteSet(CountedIn(t) \cup {more})
          /\ Cardinality(CountedIn(t) \cup {more}) <= Cardinality(CountedIn(t)) + 1
      <4> HIDE DEF more
      <4> QED
        BY <2>1, OneMore
    <3>3. /\ Cardinality(CountedIn(t)') <= Cardinality(CountedIn(t) \cup {more})
          /\ Cardinality(CountedIn(t)') \in Nat
          /\ Cardinality(CountedIn(t) \cup {more}) \in Nat
      <4> HIDE DEF more
      <4> QED
        BY <3>1, <3>2, FS_Subset, FS_CardinalityType
    <3>4. Cardinality(CountedIn(t)) <= Cardinality(R) /\ Cardinality(R) < Limit
      BY <1>3, <1>7, <2>3
    <3> QED
      BY <1>4, <2>1, <3>2, <3>3, <3>4, LimitAssumption
  <2>4. CASE ~(ok /\ clock < t + Window - MaxDelay)
    <3>1. CountedIn(t)' \in SUBSET CountedIn(t)
      BY <1>9, <2>4 DEF CountedIn
    <3>2. Cardinality(CountedIn(t)') <= Cardinality(CountedIn(t)) /\ Cardinality(CountedIn(t)') \in Nat
      BY <2>1, <3>1, FS_Subset, FS_CardinalityType
    <3> QED
      BY <2>1, <2>2, <3>2, LimitAssumption
  <2> QED
    BY <2>3, <2>4
<1> QED
  BY <1>10, <1>11, <1>12, <1>13, <1>14 DEF LimiterInv

LEMMA LimiterInit == Init => LimiterInv
<1> SUFFICES ASSUME Init PROVE LimiterInv
  OBVIOUS
<1>1. Counted = {}
  BY DoneFields DEF Init, Counted
<1>2. OnTime /\ AdmittedOnce
  BY DoneFields DEF Init, OnTime, AdmittedOnce
<1>3. KeyBounded
  BY FS_EmptySet, LimitAssumption, WindowAssumption DEF Init, KeyBounded
<1>4. Remembered
  BY <1>1 DEF Remembered
<1>5. ASSUME NEW t \in 0..MaxTime PROVE Cardinality(CountedIn(t)) <= Limit
  <2>1. CountedIn(t) = {}
    BY <1>1 DEF CountedIn
  <2> QED
    BY <2>1, FS_EmptySet, LimitAssumption
<1> QED
  BY <1>2, <1>3, <1>4, <1>5 DEF LimiterInv, WithinLimit

LEMMA LimiterStep ==
    ASSUME Types, LimiterInv, [Next]_vars
    PROVE  LimiterInv'
<1>1. ASSUME UNCHANGED <<req, zset, expires, clock, admitted>>
      PROVE  LimiterInv'
  BY <1>1, RequestMoves
<1>2. CASE Outage \/ Recover \/ UNCHANGED vars
  BY <1>1, <1>2 DEF Outage, Recover, vars, limiter
<1>3. CASE Tick
  BY <1>3, TickKeeps
<1>4. ASSUME NEW i \in Instance, Wake(i) \/ Ping(i) \/ ProbeStart(i) \/ ProbeEnd(i) \/ Check(i)
      PROVE  LimiterInv'
  BY <1>1, <1>4 DEF Wake, Ping, ProbeStart, ProbeEnd, Check, limiter
<1>5. ASSUME NEW i \in Instance, Swap(i)
      PROVE  LimiterInv'
  <2>1. PICK broken \in SUBSET InFlight(i) :
          req' = [q \in Request |-> IF q \in broken THEN Done ELSE req[q]]
    BY <1>5 DEF Swap
  <2>2. ASSUME NEW q \in Request
        PROVE  req'[q] = req[q] \/ (req[q].pc # "done" /\ req'[q].pc = "done")
    <3>1. CASE q \in broken
      <4>1. req[q].pc # "done"
        BY <3>1 DEF InFlight
      <4>2. req'[q].pc = "done"
        BY <2>1, <3>1, DoneFields
      <4> QED
        BY <4>1, <4>2
    <3>2. CASE q \notin broken
      BY <2>1, <3>2
    <3> QED
      BY <3>1, <3>2
  <2>3. UNCHANGED <<zset, expires, clock, admitted>>
    BY <1>5 DEF Swap
  <2> QED
    BY <2>2, <2>3, RequestMoves
<1>6. ASSUME NEW q \in Request, NEW i \in Instance, Ask(q, i)
      PROVE  LimiterInv'
  <2>1. req[q].pc = "idle" /\ UNCHANGED <<zset, expires, clock, admitted>>
    BY <1>6 DEF Ask
  <2>2. \/ req' = [req EXCEPT ![q] = Done]
        \/ req' = [req EXCEPT ![q] = [Fresh EXCEPT !.pc = "sent", !.inst = i, !.now = clock]]
    <3>1. CASE circuit[i] = "open"
      BY <1>6, <3>1 DEF Ask
    <3>2. CASE circuit[i] # "open"
      BY <1>6, <3>2 DEF Ask
    <3> QED
      BY <3>1, <3>2
  <2>3. \A r \in Request : r # q => req'[r] = req[r]
    BY <2>2 DEF Types
  <2>4. CASE req'[q] = Done
    BY <2>1, <2>3, <2>4, DoneFields, RequestMoves
  <2>5. CASE req'[q] = [Fresh EXCEPT !.pc = "sent", !.inst = i, !.now = clock]
    <3>1. req'[q].pc = "sent" /\ req'[q].inst = i /\ req'[q].now = clock
      BY <2>5, DoneFields DEF RequestType
    <3>2. clock \in Nat /\ clock <= clock + MaxDelay
      BY WindowAssumption, BoundAssumption DEF Types
    <3> QED
      BY <2>1, <2>3, <3>1, <3>2, RequestMoves
  <2> QED
    BY <2>2, <2>4, <2>5 DEF Types
<1>7. ASSUME NEW q \in Request, Execute(q)
      PROVE  LimiterInv'
  BY <1>7, ExecuteKeeps
<1>8. ASSUME NEW q \in Request, Reply(q)
      PROVE  LimiterInv'
  BY <1>8, ReplyKeeps
<1>9. ASSUME NEW q \in Request, TimeOut(q) \/ Refused(q)
      PROVE  LimiterInv'
  <2>1. /\ req[q].pc \in {"sent", "stalled"} /\ req' = [req EXCEPT ![q] = Done]
        /\ UNCHANGED <<zset, expires, clock, admitted>>
    BY <1>9 DEF TimeOut, Refused, Answered
  <2> QED
    BY <2>1, DoneFields, RequestMoves DEF Types
<1>10. ASSUME NEW q \in Request, LoseReply(q) \/ Stall(q) \/ Resend(q)
       PROVE  LimiterInv'
  <2>1. /\ req[q].pc \in {"sent", "stalled", "replied"}
        /\ UNCHANGED <<zset, expires, clock, admitted>>
    BY <1>10 DEF LoseReply, Stall, Resend
  <2>2. /\ req'[q].pc \in {"sent", "stalled"}
        /\ req'[q].inst = req[q].inst /\ req'[q].now = req[q].now
        /\ \A r \in Request : r # q => req'[r] = req[r]
    BY <1>10 DEF LoseReply, Stall, Resend, Types, RequestType
  <2>3. req[q].inst \in Instance /\ req[q].now <= clock /\ clock <= req[q].now + MaxDelay
    BY <2>1 DEF LimiterInv, OnTime
  <2> QED
    BY <2>1, <2>2, <2>3, RequestMoves
<1> QED
  BY <1>2, <1>3, <1>4, <1>5, <1>6, <1>7, <1>8, <1>9, <1>10 DEF Next, Watch, Serve

LEMMA Together == Types /\ LimiterInv => AdmittedWithinLimit
<1> SUFFICES ASSUME Types, LimiterInv PROVE AdmittedWithinLimit
  OBVIOUS
<1>1. TypeOK
  BY DEF Types, RequestType, TypeOK, LimiterInv, KeyBounded
<1>2. ASSUME NEW t \in 0..MaxTime
      PROVE  Cardinality({g \in admitted : t <= g.at /\ g.at < t + Window - MaxDelay}) <= Limit
  <2> DEFINE A == {g \in admitted : t <= g.at /\ g.at < t + Window - MaxDelay}
  <2>1. A \in SUBSET CountedIn(t)
    BY DEF CountedIn, Counted, Types
  <2>2. IsFiniteSet(CountedIn(t))
    BY CountedOnce, FS_Subset DEF CountedIn, LimiterInv
  <2> HIDE DEF A
  <2>3. /\ Cardinality(A) <= Cardinality(CountedIn(t))
        /\ Cardinality(A) \in Nat /\ Cardinality(CountedIn(t)) \in Nat
    BY <2>1, <2>2, FS_Subset, FS_CardinalityType
  <2>4. Cardinality(CountedIn(t)) <= Limit
    BY DEF LimiterInv, WithinLimit
  <2>5. Cardinality(A) <= Limit
    BY <2>3, <2>4, LimitAssumption
  <2> QED
    BY <2>5 DEF A
<1> QED
  BY <1>1, <1>2 DEF AdmittedWithinLimit

\* check_rate_limit keeps its limit for any number of instances and requests,
\* any window and any delay up to it, whatever fails and is sent again.
THEOREM LimitAlwaysKept == Spec => []AdmittedWithinLimit
<1>1. Init => Types /\ LimiterInv
  BY TypesInit, LimiterInit
<1>2. Types /\ LimiterInv /\ [Next]_vars => Types' /\ LimiterInv'
  BY TypesStep, LimiterStep
<1> QED
  BY <1>1, <1>2, Together, PTL DEF Spec

\* The types, and an entry at most for each place the limit leaves.
THEOREM TypeCorrect == Spec => []TypeOK
<1>1. AdmittedWithinLimit => TypeOK
  BY DEF AdmittedWithinLimit
<1> QED
  BY <1>1, LimitAlwaysKept, PTL

=============================================================================
