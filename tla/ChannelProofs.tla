---------------------------- MODULE ChannelProofs --------------------------
(* The two channels through which an instance reaches people.  First the    *)
(* connection indexes and the fan-out of WsFanout for any number of         *)
(* clients, ghats and broadcasts.  What a client receives is a matter of    *)
(* where it stands while the lists change, the buckets are snapshotted and  *)
(* the sends end; OwedInv says for every phase of a broadcast what is       *)
(* still owed to whom.                                                      *)
EXTENDS WsFanout, WhatsApp, FiniteSetTheorems, TLAPS

\* TypeOK in two parts: who is registered where, ...
Registered ==
    /\ connections \in [Bucket -> SUBSET Client]
    /\ \A b \in Bucket : Cardinality(connections[b]) <= Max
    /\ wsToGhat \in [Client -> Bucket \cup {Outside, Left}]
    /\ active \in SUBSET Client
    /\ \A b \in Bucket, c \in Client : c \in connections[b] <=> wsToGhat[c] = b
    /\ active = {c \in Client : wsToGhat[c] \in Bucket}

JobType == [pc : {"idle", "ready", "sending"}, to : SUBSET Client]

\* ... and the rest.
FanoutTypes ==
    /\ handler \in [Client -> Route \cup {"none", "ended"}]
    /\ net \in [Client -> {"open", "poor", "closed"}]
    /\ flaky \in SUBSET Client
    /\ db \in SUBSET Event
    /\ init \in [Client -> SUBSET Event]
    /\ before \in [Client -> SUBSET Event]
    /\ got \in [Client -> [Event -> Nat]]
    /\ event \in [Event -> {"new", "publishing", "sending", "done"}]
    /\ target \in [Event -> Ghat \cup {NoGhat}]
    /\ kind \in [Event -> Kind]
    /\ \A e \in Event : kind[e] = "ghats" <=> target[e] \in Ghat
    /\ origin \in [Event -> {"here", "elsewhere"}]
    /\ echoes \in SUBSET {e \in Event : origin[e] = "here"}
    /\ job \in [Job -> JobType]
    /\ faults \in 0..MaxFaults

\* Only an instance's own broadcasts await a publication.
PublishingIsOwn == \A e \in Event : event[e] = "publishing" => origin[e] = "here"

\* A client without a route is in no bucket, and only a client that was not well
\* all the time has a poor or closed connection.
RoutesAndBuckets ==
    /\ \A c \in Client : handler[c] = "none" <=> wsToGhat[c] = Outside
    /\ \A c \in Client : net[c] # "open" => c \in flaky

\* What every other proof starts from.
Typing == Registered /\ RoutesAndBuckets /\ FanoutTypes /\ PublishingIsOwn

----------------------------------------------------------------------------
(* Registration.                                                            *)

LEMMA TypesTogether == Registered /\ FanoutTypes => IndexesAgree
BY DEF Registered, FanoutTypes, JobType, IndexesAgree, TypeOK

\* The buckets are finite, and what is in two of them is one client.
LEMMA FiniteBuckets ==
    ASSUME Registered, NEW b \in Bucket
    PROVE  IsFiniteSet(connections[b]) /\ Cardinality(connections[b]) \in Nat
BY NamesAssumption, FS_Subset, FS_CardinalityType DEF Registered

\* Taking clients out keeps the three indexes in step.
LEMMA RemovedKeeps ==
    ASSUME Registered, NEW cs \in SUBSET Client, Removed(cs)
    PROVE  Registered'
<1>1. connections' \in [Bucket -> SUBSET Client]
  BY DEF Registered, Removed
<1>2. wsToGhat' \in [Client -> Bucket \cup {Outside, Left}] /\ active' \in SUBSET Client
  BY DEF Registered, Removed
<1>3. \A b \in Bucket : Cardinality(connections'[b]) <= Max
  <2> SUFFICES ASSUME NEW b \in Bucket PROVE Cardinality(connections'[b]) <= Max
    OBVIOUS
  <2>1. connections'[b] \in SUBSET connections[b]
    BY DEF Registered, Removed
  <2>2. Cardinality(connections'[b]) <= Cardinality(connections[b])
        /\ Cardinality(connections'[b]) \in Nat
    BY <2>1, FiniteBuckets, FS_Subset, FS_CardinalityType
  <2>3. Cardinality(connections[b]) <= Max /\ Cardinality(connections[b]) \in Nat
    BY FiniteBuckets DEF Registered
  <2> QED
    BY <2>2, <2>3, MaxAssumption
<1>4. \A b \in Bucket, c \in Client : c \in connections'[b] <=> wsToGhat'[c] = b
  BY NamesAssumption DEF Registered, Removed
<1>5. active' = {c \in Client : wsToGhat'[c] \in Bucket}
  BY NamesAssumption DEF Registered, Removed
<1> QED
  BY <1>1, <1>2, <1>3, <1>4, <1>5 DEF Registered

\* So does connect(), which turns a client away from a full bucket.
LEMMA ConnectKeeps ==
    ASSUME Registered, RoutesAndBuckets, NEW c \in Client, NEW b \in Bucket, Connect(c, b)
    PROVE  Registered'
<1>1. wsToGhat[c] = Outside /\ c \notin connections[b] /\ c \notin active
  BY NamesAssumption DEF Connect, RoutesAndBuckets, Registered
<1>2. CASE Full(b)
  <2>1. wsToGhat' = [wsToGhat EXCEPT ![c] = Left] /\ UNCHANGED <<connections, active>>
    BY <1>2 DEF Connect
  <2> QED
    BY <1>1, <2>1, NamesAssumption DEF Registered
<1>3. CASE ~Full(b)
  <2>1. /\ connections' = [connections EXCEPT ![b] = @ \cup {c}]
        /\ wsToGhat' = [wsToGhat EXCEPT ![c] = b]
        /\ active' = active \cup {c}
    BY <1>3 DEF Connect
  <2>2. Cardinality(connections[b]) < Max /\ Cardinality(connections[b]) \in Nat
    BY <1>3, FiniteBuckets, MaxAssumption DEF Full
  <2>3. Cardinality(connections[b] \cup {c}) = Cardinality(connections[b]) + 1
    <3>1. IsFiniteSet(connections[b])
      BY FiniteBuckets
    <3> QED
      BY <1>1, <3>1, FS_AddElement
  <2>4. \A d \in Bucket : connections'[d] = IF d = b THEN connections[b] \cup {c} ELSE connections[d]
    BY <2>1 DEF Registered
  <2>5. ASSUME NEW d \in Bucket PROVE Cardinality(connections'[d]) <= Max
    <3>1. CASE d = b
      <4>1. connections'[d] = connections[b] \cup {c}
        BY <2>4, <3>1
      <4>2. Cardinality(connections'[d]) = Cardinality(connections[b]) + 1
        BY <2>3, <4>1
      <4> QED
        BY <2>2, <4>2, MaxAssumption
    <3>2. CASE d # b
      BY <2>4, <3>2 DEF Registered
    <3> QED
      BY <3>1, <3>2
  <2>6. /\ connections' \in [Bucket -> SUBSET Client]
        /\ wsToGhat' \in [Client -> Bucket \cup {Outside, Left}]
        /\ active' \in SUBSET Client
    BY <2>1 DEF Registered
  <2>7. \A d \in Client : wsToGhat'[d] = IF d = c THEN b ELSE wsToGhat[d]
    BY <2>1 DEF Registered
  <2>8. \A d \in Bucket, e \in Client : e \in connections'[d] <=> wsToGhat'[e] = d
    BY <1>1, <2>4, <2>7 DEF Registered
  <2>9. active' = {d \in Client : wsToGhat'[d] \in Bucket}
    BY <2>1, <2>7 DEF Registered
  <2> QED
    BY <2>5, <2>6, <2>8, <2>9 DEF Registered
<1> QED
  BY <1>2, <1>3

LEMMA RegisteredInit == Init => Registered /\ RoutesAndBuckets
<1> SUFFICES ASSUME Init PROVE Registered /\ RoutesAndBuckets
  OBVIOUS
<1>1. \A b \in Bucket : Cardinality(connections[b]) <= Max
  BY FS_EmptySet, MaxAssumption DEF Init
<1>2. Registered
  BY <1>1, NamesAssumption DEF Init, Registered
<1>3. RoutesAndBuckets
  BY DEF Init, RoutesAndBuckets
<1> QED
  BY <1>2, <1>3

LEMMA RegisteredStep ==
    ASSUME Registered, RoutesAndBuckets, FanoutTypes, [Next]_vars
    PROVE  Registered' /\ RoutesAndBuckets'
<1>1. ASSUME NEW c \in Client, NEW b \in Bucket, Connect(c, b)
      PROVE  Registered' /\ RoutesAndBuckets'
  <2>1. Registered'
    BY <1>1, ConnectKeeps
  <2>2. wsToGhat'[c] # Outside /\ handler'[c] # "none"
    BY <1>1, NamesAssumption DEF Connect, RoutesTo, Registered, FanoutTypes
  <2>3. \A d \in Client : d # c => wsToGhat'[d] = wsToGhat[d] /\ handler'[d] = handler[d]
    BY <1>1 DEF Connect, Registered, FanoutTypes
  <2>4. RoutesAndBuckets'
    BY <1>1, <2>2, <2>3 DEF Connect, RoutesAndBuckets
  <2> QED
    BY <2>1, <2>4
<1>2. ASSUME NEW c \in Client, HandlerFails(c)
      PROVE  Registered' /\ RoutesAndBuckets'
  <2>1. /\ handler[c] # "none" /\ handler' = [handler EXCEPT ![c] = "ended"]
        /\ UNCHANGED <<members, net, flaky>>
    BY <1>2 DEF HandlerFails, RouteEnds, Served, Route
  <2>2. Registered'
    BY <2>1 DEF members, Registered
  <2>3. \A d \in Client : handler'[d] = "none" <=> handler[d] = "none"
    BY <2>1 DEF FanoutTypes
  <2> QED
    BY <2>1, <2>2, <2>3 DEF members, RoutesAndBuckets
<1>3. ASSUME NEW c \in Client, Disconnect(c)
      PROVE  Registered' /\ RoutesAndBuckets'
  <2>1. Registered'
    BY <1>3, RemovedKeeps DEF Disconnect
  <2>2. wsToGhat'[c] # Outside
    <3>1. wsToGhat[c] # Outside /\ Removed({c})
      BY <1>3 DEF Disconnect, Served, Route, RoutesAndBuckets
    <3> QED
      BY <3>1, NamesAssumption DEF Removed, Registered
  <2>3. \A d \in Client : d # c => wsToGhat'[d] = wsToGhat[d] /\ handler'[d] = handler[d]
    BY <1>3 DEF Disconnect, RouteEnds, Removed, FanoutTypes
  <2>4. handler'[c] # "none" /\ UNCHANGED <<net, flaky>>
    BY <1>3 DEF Disconnect, RouteEnds, FanoutTypes
  <2>5. RoutesAndBuckets'
    BY <2>2, <2>3, <2>4, <1>3 DEF Disconnect, RouteEnds, RoutesAndBuckets
  <2> QED
    BY <2>1, <2>5
<1>4. ASSUME NEW c \in Client, Close(c) \/ Degrade(c)
      PROVE  Registered' /\ RoutesAndBuckets'
  BY <1>4 DEF Close, Degrade, members, Registered, RoutesAndBuckets, FanoutTypes
<1>5. ASSUME NEW e \in Event, Store(e) \/ Broadcast(e) \/ Echo(e) \/ Receive(e) \/ Finish(e)
      PROVE  Registered' /\ RoutesAndBuckets'
  BY <1>5 DEF Store, Broadcast, Echo, Receive, Finish, members, Registered, RoutesAndBuckets
<1>6. ASSUME NEW j \in Job, Snapshot(j) PROVE Registered' /\ RoutesAndBuckets'
  BY <1>6 DEF Snapshot, members, Registered, RoutesAndBuckets
<1>7. ASSUME NEW j \in Job, Gathered(j) PROVE Registered' /\ RoutesAndBuckets'
  <2>1. PICK dead \in Failures(job[j].to) : Removed(dead)
    BY <1>7 DEF Gathered
  <2>2. dead \in SUBSET Client
    BY <2>1 DEF Failures, FanoutTypes, JobType
  <2>3. Registered'
    BY <2>1, <2>2, RemovedKeeps
  <2>4. \A c \in Client : wsToGhat'[c] = Outside <=> wsToGhat[c] = Outside
    BY <2>1, NamesAssumption DEF Removed, Registered
  <2>5. RoutesAndBuckets'
    BY <1>7, <2>4 DEF Gathered, RoutesAndBuckets
  <2> QED
    BY <2>3, <2>5
<1>8. CASE Ping
  BY <1>8 DEF Ping, members, Registered, RoutesAndBuckets
<1>9. CASE UNCHANGED vars
  BY <1>9 DEF vars, Registered, RoutesAndBuckets
<1> QED
  BY <1>1, <1>2, <1>3, <1>4, <1>5, <1>6, <1>7, <1>8, <1>9 DEF Next

----------------------------------------------------------------------------
(* The types of the rest.                                                   *)

LEMMA FanoutTypesInit == Init => FanoutTypes /\ PublishingIsOwn
BY MaxAssumption DEF Init, FanoutTypes, PublishingIsOwn, Job, JobType, NoJob

LEMMA FanoutTypesStep ==
    ASSUME Registered, FanoutTypes, PublishingIsOwn, [Next]_vars
    PROVE  FanoutTypes' /\ PublishingIsOwn'
<1> USE DEF FanoutTypes, PublishingIsOwn
<1>1. ASSUME NEW c \in Client, NEW b \in Bucket, Connect(c, b)
      PROVE  FanoutTypes' /\ PublishingIsOwn'
  <2>1. RoutesTo(b) \in SUBSET Route /\ \A r \in Route : InitMessage(r, b) \in SUBSET Event
    BY DEF RoutesTo, Route, InitMessage
  <2>2. handler' \in [Client -> Route \cup {"none", "ended"}]
    BY <1>1, <2>1 DEF Connect
  <2>3. before' \in [Client -> SUBSET Event]
    BY <1>1 DEF Connect
  <2>4. init' \in [Client -> SUBSET Event]
    <3>1. CASE Full(b)
      BY <1>1, <3>1 DEF Connect
    <3>2. CASE ~Full(b)
      <4>1. PICK r \in RoutesTo(b) : init' = [init EXCEPT ![c] = InitMessage(r, b)]
        BY <1>1, <3>2 DEF Connect
      <4> QED
        BY <2>1, <4>1
    <3> QED
      BY <3>1, <3>2
  <2> QED
    BY <1>1, <2>2, <2>3, <2>4 DEF Connect
<1>2. ASSUME NEW c \in Client, HandlerFails(c) \/ Disconnect(c)
      PROVE  FanoutTypes' /\ PublishingIsOwn'
  BY <1>2 DEF HandlerFails, RouteEnds, Disconnect
<1>3. ASSUME NEW c \in Client, Close(c) \/ Degrade(c)
      PROVE  FanoutTypes' /\ PublishingIsOwn'
  <2>1. CASE Close(c)
    BY <2>1 DEF Close
  <2>2. CASE Degrade(c)
    <3>1. faults' \in 0..MaxFaults
      BY <2>2, MaxAssumption DEF Degrade
    <3> QED
      BY <2>2, <3>1 DEF Degrade
  <2> QED
    BY <1>3, <2>1, <2>2
<1>4. ASSUME NEW e \in Event, Store(e) \/ Finish(e) \/ Echo(e)
      PROVE  FanoutTypes' /\ PublishingIsOwn'
  BY <1>4 DEF Store, Finish, Echo
<1>5. ASSUME NEW e \in Event, Started(e, Addressed(e))
      PROVE  job' \in [Job -> JobType]
  BY <1>5 DEF Started, NoJob, JobType
<1>6. ASSUME NEW e \in Event, Broadcast(e)
      PROVE  FanoutTypes' /\ PublishingIsOwn'
  <2>1. job' \in [Job -> JobType]
    BY <1>5, <1>6 DEF Broadcast
  <2>2. echoes' \in SUBSET {x \in Event : origin'[x] = "here"}
    BY <1>6 DEF Broadcast
  <2> QED
    BY <1>6, <2>1, <2>2 DEF Broadcast
<1>7. ASSUME NEW e \in Event, Receive(e)
      PROVE  FanoutTypes' /\ PublishingIsOwn'
  <2>1. job' \in [Job -> JobType]
    BY <1>5, <1>7 DEF Receive
  <2> QED
    BY <1>7, <2>1 DEF Receive
<1>8. ASSUME NEW j \in Job, Snapshot(j) PROVE FanoutTypes' /\ PublishingIsOwn'
  <2>1. connections[j[2]] \in SUBSET Client
    BY DEF Registered, Job
  <2>2. job' \in [Job -> JobType]
    BY <1>8, <2>1 DEF Snapshot, NoJob, JobType
  <2> QED
    BY <1>8, <2>2 DEF Snapshot
<1>9. ASSUME NEW j \in Job, Gathered(j) PROVE FanoutTypes' /\ PublishingIsOwn'
  <2>1. job' \in [Job -> JobType]
    BY <1>9 DEF Gathered, NoJob, JobType
  <2>2. got' \in [Client -> [Event -> Nat]]
    BY <1>9 DEF Gathered, Delivered
  <2> QED
    BY <1>9, <2>1, <2>2 DEF Gathered
<1>10. CASE Ping
  <2>1. \A j \in Job : connections[j[2]] \in SUBSET Client
    BY DEF Registered, Job
  <2>2. job' \in [Job -> JobType]
    BY <1>10, <2>1 DEF Ping, JobType
  <2> QED
    BY <1>10, <2>2 DEF Ping
<1>11. CASE UNCHANGED vars
  BY <1>11 DEF vars
<1> QED
  BY <1>1, <1>2, <1>3, <1>4, <1>6, <1>7, <1>8, <1>9, <1>10, <1>11 DEF Next

LEMMA TypingInit == Init => Typing
BY RegisteredInit, FanoutTypesInit DEF Typing

LEMMA TypingStep == Typing /\ [Next]_vars => Typing'
BY RegisteredStep, FanoutTypesStep DEF Typing

\* The types and the cap of every bucket, of any reachable state.
THEOREM TypeCorrect == Spec => []TypeOK
<1>1. Typing => TypeOK
  BY TypesTogether DEF Typing, IndexesAgree
<1> QED
  BY <1>1, TypingInit, TypingStep, PTL DEF Spec

\* Whatever routes, prunes and snapshots interleave, the three indexes agree and
\* no bucket exceeds its cap.
THEOREM IndexesAlwaysAgree == Spec => []IndexesAgree
<1>1. Typing => IndexesAgree
  BY TypesTogether DEF Typing
<1> QED
  BY <1>1, TypingInit, TypingStep, PTL DEF Spec

----------------------------------------------------------------------------
(* Who is well stays.                                                       *)

LEMMA HealthyStep ==
    ASSUME Registered, RoutesAndBuckets, FanoutTypes, HealthyStayRegistered, [Next]_vars
    PROVE  HealthyStayRegistered'
<1> USE DEF HealthyStayRegistered, FanoutTypes, Served, Route
<1>1. ASSUME NEW c \in Client, NEW b \in Bucket, Connect(c, b)
      PROVE  HealthyStayRegistered'
  BY <1>1 DEF Connect
<1>2. ASSUME NEW c \in Client, HandlerFails(c)
      PROVE  HealthyStayRegistered'
  BY <1>2 DEF HandlerFails, RouteEnds, members
<1>3. ASSUME NEW c \in Client, Disconnect(c)
      PROVE  HealthyStayRegistered'
  BY <1>3 DEF Disconnect, RouteEnds, Removed
<1>4. ASSUME NEW c \in Client, Close(c) \/ Degrade(c)
      PROVE  HealthyStayRegistered'
  BY <1>4 DEF Close, Degrade, members
<1>5. ASSUME NEW e \in Event, Store(e) \/ Broadcast(e) \/ Echo(e) \/ Receive(e) \/ Finish(e)
      PROVE  HealthyStayRegistered'
  BY <1>5 DEF Store, Broadcast, Echo, Receive, Finish, members
<1>6. ASSUME NEW j \in Job, Snapshot(j) PROVE HealthyStayRegistered'
  BY <1>6 DEF Snapshot, members
<1>7. ASSUME NEW j \in Job, Gathered(j) PROVE HealthyStayRegistered'
  <2>1. PICK dead \in Failures(job[j].to) : Removed(dead)
    BY <1>7 DEF Gathered
  <2>2. \A c \in dead : c \in flaky
    BY <2>1 DEF Failures, RoutesAndBuckets, JobType
  <2>3. active' = active \ dead /\ UNCHANGED <<handler, flaky>>
    BY <1>7, <2>1 DEF Gathered, Removed
  <2> QED
    BY <2>2, <2>3
<1>8. CASE Ping
  BY <1>8 DEF Ping, members
<1>9. CASE UNCHANGED vars
  BY <1>9 DEF vars
<1> QED
  BY <1>1, <1>2, <1>3, <1>4, <1>5, <1>6, <1>7, <1>8, <1>9 DEF Next

\* No prune drops a client that was well all the time, for any number of clients
\* and faults.
THEOREM HealthyAlwaysRegistered == Spec => []HealthyStayRegistered
<1>1. Init => HealthyStayRegistered
  BY DEF Init, HealthyStayRegistered, Served, Route
<1>2. Typing /\ HealthyStayRegistered /\ [Next]_vars => HealthyStayRegistered'
  BY HealthyStep DEF Typing
<1> QED
  BY <1>1, <1>2, TypingInit, TypingStep, PTL DEF Spec

----------------------------------------------------------------------------
(* Who receives what.                                                       *)

\* Jobs of a broadcast run only while it is being sent, and only one that sends
\* has recipients.
JobsOfSending ==
    /\ \A e \in Event, b \in Bucket : job[<<e, b>>].pc # "idle" => event[e] = "sending"
    /\ \A e \in Event, b \in Bucket : job[<<e, b>>].pc # "sending" => job[<<e, b>>].to = {}

\* The recipients of a snapshot were in its bucket, are in no other by now, and
\* have not received the broadcast.
Snapshots ==
    \A e \in Event, b \in Bucket : \A c \in job[<<e, b>>].to :
        /\ wsToGhat[c] \in {b, Left}
        /\ got[c][e] = 0
        /\ \A d \in Bucket : c \in job[<<e, d>>].to => d = b

\* A broadcast that has arrived is not sent to the bucket of its recipient again.
Received ==
    \A c \in Client, e \in Event :
        /\ got[c][e] <= 1
        /\ got[c][e] > 0 => /\ event[e] \in {"sending", "done"}
                            /\ wsToGhat[c] # Outside
                            /\ wsToGhat[c] \in Bucket => job[<<e, wsToGhat[c]>>].pc = "idle"

OnceInv == JobsOfSending /\ Snapshots /\ Received

\* The lists have a record from the start of its broadcast on.
ListedWhenSent == \A e \in Event : event[e] # "new" <=> e \in db

\* Broadcast e is for client c.
Meant(e, c) == target[e] \in {NoGhat, wsToGhat[c]} \/ wsToGhat[c] = All

\* A client that was well all the time and registered before the record was in
\* the lists waits for the broadcast, is about to be sent it, or has it.
OwedInv ==
    \A e \in Event, c \in Client :
        c \in active \ flaky /\ Meant(e, c) /\ e \notin before[c] =>
            \/ event[e] \in {"new", "publishing"}
            \/ event[e] = "sending" /\ job[<<e, wsToGhat[c]>>].pc = "ready"
            \/ event[e] = "sending" /\ c \in job[<<e, wsToGhat[c]>>].to
            \/ event[e] \in {"sending", "done"} /\ got[c][e] > 0

LEMMA FanoutInit == Init => OnceInv /\ ListedWhenSent /\ OwedInv
BY DEF Init, OnceInv, JobsOfSending, Snapshots, Received, ListedWhenSent, OwedInv, Job, NoJob

\* Clients that come and go: no one who is a recipient, or has received anything,
\* comes into a bucket.
LEMMA OnceMoves ==
    ASSUME Registered, FanoutTypes, OnceInv, UNCHANGED <<got, event, job>>,
           \A c \in Client : \/ wsToGhat'[c] = wsToGhat[c]
                             \/ wsToGhat'[c] = Left
                             \/ wsToGhat[c] = Outside /\ wsToGhat'[c] \in Bucket
    PROVE  OnceInv'
<1>1. JobsOfSending'
  BY DEF OnceInv, JobsOfSending
<1>2. Snapshots'
  <2> SUFFICES ASSUME NEW e \in Event, NEW b \in Bucket, NEW c \in job[<<e, b>>].to
               PROVE  /\ wsToGhat'[c] \in {b, Left}
                      /\ got[c][e] = 0
                      /\ \A d \in Bucket : c \in job[<<e, d>>].to => d = b
    BY DEF Snapshots
  <2>1. c \in Client
    BY DEF FanoutTypes, JobType, Job
  <2>2. wsToGhat[c] \in {b, Left}
    BY DEF OnceInv, Snapshots
  <2>3. wsToGhat'[c] \in {b, Left}
    BY <2>1, <2>2, NamesAssumption
  <2> QED
    BY <2>3 DEF OnceInv, Snapshots
<1>3. Received'
  <2> SUFFICES ASSUME NEW c \in Client, NEW e \in Event
               PROVE  /\ got[c][e] <= 1
                      /\ got[c][e] > 0 =>
                           /\ event[e] \in {"sending", "done"}
                           /\ wsToGhat'[c] # Outside
                           /\ wsToGhat'[c] \in Bucket => job[<<e, wsToGhat'[c]>>].pc = "idle"
    BY DEF Received
  <2>1. CASE wsToGhat'[c] = wsToGhat[c]
    BY <2>1 DEF OnceInv, Received
  <2>2. CASE wsToGhat'[c] = Left
    BY <2>2, NamesAssumption DEF OnceInv, Received
  <2>3. CASE wsToGhat[c] = Outside
    BY <2>3 DEF OnceInv, Received
  <2> QED
    BY <2>1, <2>2, <2>3
<1> QED
  BY <1>1, <1>2, <1>3 DEF OnceInv

\* Clients leave when they are removed, and only they.
LEMMA RemovedMoves ==
    ASSUME Registered, NEW cs \in SUBSET Client, Removed(cs)
    PROVE  /\ \A c \in Client : wsToGhat'[c] = wsToGhat[c] \/ wsToGhat'[c] = Left
           /\ \A c \in Client \ cs : wsToGhat'[c] = wsToGhat[c]
           /\ active' = active \ cs
BY DEF Removed, Registered

\* A broadcast starts: until now it has no jobs and no one has received it.
LEMMA OnceStarted ==
    ASSUME Registered, FanoutTypes, OnceInv, NEW e \in Event,
           event[e] \in {"new", "publishing"}, event' = [event EXCEPT ![e] = "sending"],
           Started(e, Addressed(e)), UNCHANGED <<got, wsToGhat>>
    PROVE  OnceInv'
<1>1. \A x \in Event, b \in Bucket :
        /\ <<x, b>> \in Job
        /\ x # e => job'[<<x, b>>] = job[<<x, b>>] /\ event'[x] = event[x]
        /\ x = e => job[<<x, b>>].to = {} /\ job'[<<x, b>>].to = {}
        /\ x = e => job'[<<x, b>>].pc # "sending" /\ event'[x] = "sending"
  <2> SUFFICES ASSUME NEW x \in Event, NEW b \in Bucket
               PROVE  /\ <<x, b>> \in Job
                      /\ x # e => job'[<<x, b>>] = job[<<x, b>>] /\ event'[x] = event[x]
                      /\ x = e => job[<<x, b>>].to = {} /\ job'[<<x, b>>].to = {}
                      /\ x = e => job'[<<x, b>>].pc # "sending" /\ event'[x] = "sending"
    OBVIOUS
  <2>1. <<x, b>> \in Job /\ <<x, b>>[1] = x /\ <<x, b>>[2] = b
    BY DEF Job
  <2>2. event'[x] = IF x = e THEN "sending" ELSE event[x]
    BY DEF FanoutTypes
  <2>3. job'[<<x, b>>] = IF x = e /\ b \in Addressed(e)
                        THEN [pc |-> "ready", to |-> {}] ELSE job[<<x, b>>]
    <3>1. job' = [j \in Job |-> IF j[1] = e /\ j[2] \in Addressed(e)
                                THEN [pc |-> "ready", to |-> {}] ELSE job[j]]
      <4>1. [NoJob EXCEPT !.pc = "ready"] = [pc |-> "ready", to |-> {}]
        BY DEF NoJob
      <4> QED
        BY <4>1, Zenon DEF Started
    <3> QED
      BY <2>1, <3>1
  <2>4. x = e => job[<<x, b>>].pc = "idle" /\ job[<<x, b>>].to = {}
    <3> SUFFICES ASSUME x = e PROVE job[<<e, b>>].pc = "idle" /\ job[<<e, b>>].to = {}
      OBVIOUS
    <3>1. event[e] # "sending"
      OBVIOUS
    <3>2. job[<<e, b>>].pc = "idle"
      BY <3>1 DEF OnceInv, JobsOfSending
    <3>3. job[<<e, b>>].to = {}
      BY <3>2 DEF OnceInv, JobsOfSending
    <3> QED
      BY <3>2, <3>3
  <2> QED
    BY <2>1, <2>2, <2>3, <2>4
<1>2. \A c \in Client : got[c][e] = 0
  <2> SUFFICES ASSUME NEW c \in Client PROVE got[c][e] = 0
    OBVIOUS
  <2>1. event[e] \notin {"sending", "done"}
    OBVIOUS
  <2>2. ~(got[c][e] > 0)
    BY <2>1, Zenon DEF OnceInv, Received
  <2>3. got[c][e] \in Nat
    BY DEF FanoutTypes
  <2> QED
    BY <2>2, <2>3
<1>3. JobsOfSending'
  <2> SUFFICES ASSUME NEW x \in Event, NEW b \in Bucket
               PROVE  /\ job'[<<x, b>>].pc # "idle" => event'[x] = "sending"
                      /\ job'[<<x, b>>].pc # "sending" => job'[<<x, b>>].to = {}
    BY DEF JobsOfSending
  <2>1. CASE x = e
    BY <1>1, <2>1
  <2>2. CASE x # e
    BY <1>1, <2>2 DEF OnceInv, JobsOfSending
  <2> QED
    BY <2>1, <2>2
<1>4. Snapshots'
  BY <1>1 DEF OnceInv, Snapshots
<1>5. Received'
  BY <1>1, <1>2 DEF OnceInv, Received, Registered
<1> QED
  BY <1>3, <1>4, <1>5 DEF OnceInv

\* A snapshot is taken of a bucket that no one is in who has the broadcast.
LEMMA OnceSnapshot ==
    ASSUME Registered, FanoutTypes, OnceInv, NEW j \in Job, Snapshot(j)
    PROVE  OnceInv'
<1> DEFINE new == IF connections[j[2]] = {} THEN NoJob
                  ELSE [pc |-> "sending", to |-> connections[j[2]]]
<1>1. /\ job' = [job EXCEPT ![j] = new] /\ job[j].pc = "ready"
      /\ UNCHANGED <<connections, wsToGhat, got, event>>
  BY DEF Snapshot, members
<1>2. /\ new.pc \in {"idle", "sending"} /\ new.to = connections[j[2]]
      /\ new.pc = "idle" => new.to = {}
  BY DEF NoJob
<1> HIDE DEF new
<1>3. \A x \in Event, b \in Bucket : <<x, b>> \in Job /\
        job'[<<x, b>>] = IF <<x, b>> = j THEN new ELSE job[<<x, b>>]
  BY <1>1 DEF Job, FanoutTypes
<1>4. JobsOfSending'
  <2>1. ASSUME NEW e \in Event, NEW b \in Bucket
        PROVE  /\ job'[<<e, b>>].pc # "idle" => event[e] = "sending"
               /\ job'[<<e, b>>].pc # "sending" => job'[<<e, b>>].to = {}
    <3>1. CASE <<e, b>> = j
      <4>1. event[e] = "sending"
        BY <1>1, <3>1 DEF OnceInv, JobsOfSending
      <4>2. job'[<<e, b>>] = new
        BY <1>3, <3>1
      <4> QED
        BY <1>2, <4>1, <4>2
    <3>2. CASE <<e, b>> # j
      BY <1>3, <3>2 DEF OnceInv, JobsOfSending
    <3> QED
      BY <3>1, <3>2
  <2> QED
    BY <1>1, <2>1 DEF JobsOfSending
<1>5. ASSUME NEW e \in Event, NEW b \in Bucket, <<e, b>> = j, NEW c \in connections[b]
      PROVE  /\ c \in Client /\ wsToGhat[c] = b /\ got[c][e] = 0
             /\ \A d \in Bucket : c \in job[<<e, d>>].to => d = b
  <2>1. c \in Client /\ wsToGhat[c] = b
    BY DEF Registered
  <2>2. got[c][e] = 0
    <3>1. job[<<e, wsToGhat[c]>>].pc # "idle" /\ wsToGhat[c] \in Bucket
      BY <1>1, <1>5, <2>1
    <3>2. ~(got[c][e] > 0)
      BY <2>1, <3>1 DEF OnceInv, Received
    <3> QED
      BY <2>1, <3>2 DEF FanoutTypes
  <2>3. \A d \in Bucket : c \in job[<<e, d>>].to => d = b
    BY <2>1, NamesAssumption DEF OnceInv, Snapshots
  <2> QED
    BY <2>1, <2>2, <2>3
<1>6. Snapshots'
  <2> SUFFICES ASSUME NEW e \in Event, NEW b \in Bucket, NEW c \in job'[<<e, b>>].to
               PROVE  /\ wsToGhat[c] \in {b, Left} /\ got[c][e] = 0
                      /\ \A d \in Bucket : c \in job'[<<e, d>>].to => d = b
    BY <1>1 DEF Snapshots
  <2>1. CASE <<e, b>> = j
    <3>1. c \in connections[b]
      BY <1>2, <1>3, <2>1
    <3>2. \A d \in Bucket : d # b => job'[<<e, d>>] = job[<<e, d>>]
      BY <1>3, <2>1
    <3> QED
      BY <1>5, <2>1, <3>1, <3>2
  <2>2. CASE <<e, b>> # j
    <3>1. c \in job[<<e, b>>].to
      BY <1>3, <2>2
    <3>2. /\ wsToGhat[c] \in {b, Left} /\ got[c][e] = 0
          /\ \A d \in Bucket : c \in job[<<e, d>>].to => d = b
      BY <3>1 DEF OnceInv, Snapshots
    <3>3. ASSUME NEW d \in Bucket, c \in job'[<<e, d>>].to PROVE d = b
      <4>1. CASE <<e, d>> = j
        <5>1. c \in connections[d]
          BY <1>2, <1>3, <3>3, <4>1
        <5> QED
          BY <1>5, <3>1, <4>1, <5>1
      <4>2. CASE <<e, d>> # j
        BY <1>3, <3>2, <3>3, <4>2
      <4> QED
        BY <4>1, <4>2
    <3> QED
      BY <3>2, <3>3
  <2> QED
    BY <2>1, <2>2
<1>7. Received'
  BY <1>1, <1>2, <1>3 DEF OnceInv, Received
<1> QED
  BY <1>4, <1>6, <1>7 DEF OnceInv

\* The sends of a snapshot end: those it was for have the broadcast, and will not
\* be in another snapshot of it.
LEMMA OnceGathered ==
    ASSUME Registered, FanoutTypes, OnceInv, NEW j \in Job, Gathered(j)
    PROVE  OnceInv'
<1>1. PICK dead \in Failures(job[j].to) : Delivered(j, dead) /\ Removed(dead)
  BY DEF Gathered
<1>2. dead \in SUBSET Client
  BY DEF Failures, FanoutTypes, JobType
<1>3. \A c \in Client : wsToGhat'[c] = wsToGhat[c] \/ wsToGhat'[c] = Left
  BY <1>1, <1>2, RemovedMoves
<1>4. /\ job[j].pc = "sending" /\ job' = [job EXCEPT ![j] = NoJob]
      /\ UNCHANGED event
  BY DEF Gathered
<1>5. \A e \in Event, b \in Bucket : <<e, b>> \in Job /\
        job'[<<e, b>>] = IF <<e, b>> = j THEN NoJob ELSE job[<<e, b>>]
  BY <1>4 DEF Job, FanoutTypes
<1>6. NoJob.pc = "idle" /\ NoJob.to = {}
  BY DEF NoJob
<1>7. \A c \in Client, e \in Event : \/ got'[c][e] = got[c][e]
                                     \/ /\ e = j[1] /\ c \in job[j].to
                                        /\ got'[c][e] = got[c][e] + 1
  BY <1>1 DEF Delivered
<1>8. JobsOfSending'
  <2>1. ASSUME NEW e \in Event, NEW b \in Bucket
        PROVE  /\ job'[<<e, b>>].pc # "idle" => event[e] = "sending"
               /\ job'[<<e, b>>].pc # "sending" => job'[<<e, b>>].to = {}
    BY <1>5, <1>6 DEF OnceInv, JobsOfSending
  <2> QED
    BY <1>4, <2>1 DEF JobsOfSending
<1>9. ASSUME NEW e \in Event, NEW b \in Bucket, NEW c \in job[<<e, b>>].to
      PROVE  /\ c \in Client /\ wsToGhat[c] \in {b, Left} /\ got[c][e] = 0
             /\ \A d \in Bucket : c \in job[<<e, d>>].to => d = b
  BY <1>5, Zenon DEF OnceInv, Snapshots, FanoutTypes, JobType
<1>10. Snapshots'
  <2> SUFFICES ASSUME NEW e \in Event, NEW b \in Bucket, NEW c \in job'[<<e, b>>].to
               PROVE  /\ wsToGhat'[c] \in {b, Left} /\ got'[c][e] = 0
                      /\ \A d \in Bucket : c \in job'[<<e, d>>].to => d = b
    BY DEF Snapshots
  <2>1. c \in job[<<e, b>>].to /\ <<e, b>> # j
    BY <1>5, <1>6
  <2>2. /\ c \in Client /\ wsToGhat[c] \in {b, Left} /\ got[c][e] = 0
        /\ \A d \in Bucket : c \in job[<<e, d>>].to => d = b
    BY <1>9, <2>1
  <2>3. wsToGhat'[c] \in {b, Left}
    BY <1>3, <2>2
  <2>4. got'[c][e] = 0
    <3>1. ~(e = j[1] /\ c \in job[j].to)
      BY <2>1, <2>2 DEF Job
    <3> QED
      BY <1>7, <2>2, <3>1
  <2>5. \A d \in Bucket : c \in job'[<<e, d>>].to => d = b
    BY <1>5, <1>6, <2>2
  <2> QED
    BY <2>3, <2>4, <2>5
<1>11. Received'
  <2> SUFFICES ASSUME NEW c \in Client, NEW e \in Event
               PROVE  /\ got'[c][e] <= 1
                      /\ got'[c][e] > 0 =>
                           /\ event[e] \in {"sending", "done"}
                           /\ wsToGhat'[c] # Outside
                           /\ wsToGhat'[c] \in Bucket => job'[<<e, wsToGhat'[c]>>].pc = "idle"
    BY <1>4 DEF Received
  <2>1. CASE got'[c][e] = got[c][e]
    <3>1. got[c][e] > 0 => /\ event[e] \in {"sending", "done"}
                           /\ wsToGhat[c] # Outside
                           /\ wsToGhat[c] \in Bucket => job[<<e, wsToGhat[c]>>].pc = "idle"
      BY DEF OnceInv, Received
    <3>2. \A b \in Bucket : job[<<e, b>>].pc = "idle" => job'[<<e, b>>].pc = "idle"
      BY <1>5, <1>6
    <3>3. got'[c][e] <= 1
      BY <2>1 DEF OnceInv, Received
    <3> QED
      BY <1>3, <2>1, <3>1, <3>2, <3>3, NamesAssumption
  <2>2. CASE e = j[1] /\ c \in job[j].to /\ got'[c][e] = got[c][e] + 1
    <3>1. j = <<e, j[2]>> /\ j[2] \in Bucket
      BY <2>2 DEF Job
    <3>2. wsToGhat[c] \in {j[2], Left} /\ got[c][e] = 0
      BY <1>9, <2>2, <3>1
    <3>3. event[e] = "sending"
      <4>1. job[<<e, j[2]>>].pc # "idle"
        BY <1>4, <3>1
      <4> QED
        BY <3>1, <4>1 DEF OnceInv, JobsOfSending
    <3>4. wsToGhat'[c] \in {j[2], Left}
      BY <1>3, <3>2
    <3>5. job'[<<e, j[2]>>].pc = "idle"
      BY <1>5, <1>6, <3>1
    <3>6. wsToGhat'[c] # Outside /\ (wsToGhat'[c] \in Bucket => wsToGhat'[c] = j[2])
      BY <3>1, <3>4, NamesAssumption
    <3>7. got'[c][e] = 1
      BY <2>2, <3>2
    <3> QED
      BY <3>3, <3>5, <3>6, <3>7
  <2> QED
    BY <1>7, <2>1, <2>2
<1> QED
  BY <1>8, <1>10, <1>11 DEF OnceInv

LEMMA OnceStep ==
    ASSUME Registered, RoutesAndBuckets, FanoutTypes, PublishingIsOwn, OnceInv, [Next]_vars
    PROVE  OnceInv'
<1>1. ASSUME NEW c \in Client, NEW b \in Bucket, Connect(c, b) PROVE OnceInv'
  <2>1. \A d \in Client : d # c => wsToGhat'[d] = wsToGhat[d]
    BY <1>1 DEF Connect, Registered
  <2>2. wsToGhat[c] = Outside /\ wsToGhat'[c] \in Bucket \cup {Left}
    BY <1>1 DEF Connect, RoutesAndBuckets, Registered
  <2>3. UNCHANGED <<got, event, job>>
    BY <1>1 DEF Connect
  <2> QED
    BY <2>1, <2>2, <2>3, OnceMoves
<1>2. ASSUME NEW c \in Client, HandlerFails(c) PROVE OnceInv'
  BY <1>2, OnceMoves DEF HandlerFails, RouteEnds, members
<1>3. ASSUME NEW c \in Client, Disconnect(c) PROVE OnceInv'
  BY <1>3, OnceMoves, RemovedMoves DEF Disconnect
<1>4. ASSUME NEW c \in Client, Close(c) \/ Degrade(c) PROVE OnceInv'
  BY <1>4, OnceMoves DEF Close, Degrade, members
<1>5. ASSUME NEW e \in Event, Store(e) PROVE OnceInv'
  <2>1. /\ event[e] = "new" /\ event' = [event EXCEPT ![e] = "publishing"]
        /\ UNCHANGED <<wsToGhat, got, job>>
    BY <1>5 DEF Store, members
  <2>2. \A x \in Event : event'[x] = IF x = e THEN "publishing" ELSE event[x]
    BY <2>1 DEF FanoutTypes
  <2>3. JobsOfSending'
    BY <2>1, <2>2 DEF OnceInv, JobsOfSending
  <2>4. Snapshots'
    BY <2>1 DEF OnceInv, Snapshots
  <2>5. Received'
    BY <2>1, <2>2 DEF OnceInv, Received
  <2> QED
    BY <2>3, <2>4, <2>5 DEF OnceInv
<1>6. ASSUME NEW e \in Event, Broadcast(e) \/ Receive(e) PROVE OnceInv'
  BY <1>6, OnceStarted DEF Broadcast, Receive, members
<1>7. ASSUME NEW e \in Event, Echo(e) PROVE OnceInv'
  BY <1>7, OnceMoves DEF Echo, members
<1>8. ASSUME NEW e \in Event, Finish(e) PROVE OnceInv'
  <2>1. /\ event[e] = "sending" /\ event' = [event EXCEPT ![e] = "done"]
        /\ UNCHANGED <<wsToGhat, got, job>>
    BY <1>8 DEF Finish, members
  <2>2. \A x \in Event : event'[x] = IF x = e THEN "done" ELSE event[x]
    BY <2>1 DEF FanoutTypes
  <2>3. \A b \in Bucket : job[<<e, b>>].pc = "idle"
    BY <1>8 DEF Finish, Running, Job
  <2>4. JobsOfSending'
    <3> SUFFICES ASSUME NEW x \in Event, NEW b \in Bucket
                 PROVE  /\ job[<<x, b>>].pc # "idle" => event'[x] = "sending"
                        /\ job[<<x, b>>].pc # "sending" => job[<<x, b>>].to = {}
      BY <2>1 DEF JobsOfSending
    <3> QED
      BY <2>2, <2>3 DEF OnceInv, JobsOfSending
  <2>5. Snapshots'
    BY <2>1 DEF OnceInv, Snapshots
  <2>6. Received'
    BY <2>1, <2>2 DEF OnceInv, Received
  <2> QED
    BY <2>4, <2>5, <2>6 DEF OnceInv
<1>9. ASSUME NEW j \in Job, Snapshot(j) PROVE OnceInv'
  BY <1>9, OnceSnapshot
<1>10. ASSUME NEW j \in Job, Gathered(j) PROVE OnceInv'
  BY <1>10, OnceGathered
<1>11. CASE Ping
  <2>1. UNCHANGED <<wsToGhat, got, event>>
    BY <1>11 DEF Ping, members
  <2>2. \A e \in Event, b \in Bucket : job'[<<e, b>>] = job[<<e, b>>]
    <3>1. \A e \in Event, b \in Bucket : <<e, b>> \in Job /\ <<e, b>>[1] # "ping"
      BY NamesAssumption DEF Job
    <3> QED
      BY <1>11, <3>1 DEF Ping
  <2>3. JobsOfSending' /\ Snapshots' 
    BY <2>1, <2>2 DEF OnceInv, JobsOfSending, Snapshots
  <2>4. Received'
    BY <2>1, <2>2 DEF OnceInv, Received
  <2> QED
    BY <2>3, <2>4 DEF OnceInv
<1>12. CASE UNCHANGED vars
  BY <1>12, OnceMoves DEF vars
<1> QED
  BY <1>1, <1>2, <1>3, <1>4, <1>5, <1>6, <1>7, <1>8, <1>9, <1>10, <1>11, <1>12 DEF Next

\* No broadcast reaches a client twice, for any number of clients, buckets and
\* broadcasts.
THEOREM AlwaysAtMostOnce == Spec => []AtMostOnce
<1>1. Typing /\ OnceInv /\ [Next]_vars => OnceInv'
  BY OnceStep DEF Typing
<1>2. OnceInv => AtMostOnce
  BY DEF OnceInv, Received, AtMostOnce
<1> QED
  BY <1>1, <1>2, FanoutInit, TypingInit, TypingStep, PTL DEF Spec

----------------------------------------------------------------------------
(* No one who is well misses anything.                                      *)

LEMMA ListedStep ==
    ASSUME FanoutTypes, PublishingIsOwn, ListedWhenSent, [Next]_vars
    PROVE  ListedWhenSent'
<1> USE DEF ListedWhenSent, FanoutTypes
<1>1. ASSUME NEW c \in Client, NEW b \in Bucket, Connect(c, b) PROVE ListedWhenSent'
  BY <1>1 DEF Connect
<1>2. ASSUME NEW c \in Client,
             HandlerFails(c) \/ Disconnect(c) \/ Close(c) \/ Degrade(c)
      PROVE  ListedWhenSent'
  BY <1>2 DEF HandlerFails, RouteEnds, Disconnect, Close, Degrade
<1>3. ASSUME NEW e \in Event, Store(e) \/ Broadcast(e) \/ Echo(e) \/ Receive(e) \/ Finish(e)
      PROVE  ListedWhenSent'
  BY <1>3 DEF Store, Broadcast, Echo, Receive, Finish
<1>4. ASSUME NEW j \in Job, Snapshot(j) \/ Gathered(j) PROVE ListedWhenSent'
  BY <1>4 DEF Snapshot, Gathered
<1>5. CASE Ping
  BY <1>5 DEF Ping
<1>6. CASE UNCHANGED vars
  BY <1>6 DEF vars
<1> QED
  BY <1>1, <1>2, <1>3, <1>4, <1>5, <1>6 DEF Next

\* Clients that leave or turn flaky are owed nothing; to the others nothing happens.
LEMMA OwedMoves ==
    ASSUME OwedInv, UNCHANGED <<got, event, job, target>>,
           \A c \in Client : c \in active' \ flaky' =>
               /\ c \in active \ flaky
               /\ wsToGhat'[c] = wsToGhat[c] /\ before'[c] = before[c]
    PROVE  OwedInv'
<1> SUFFICES ASSUME NEW e \in Event, NEW c \in Client,
                    c \in active' \ flaky', Meant(e, c)', e \notin before'[c]
             PROVE  (\/ event[e] \in {"new", "publishing"}
                     \/ event[e] = "sending" /\ job[<<e, wsToGhat[c]>>].pc = "ready"
                     \/ event[e] = "sending" /\ c \in job[<<e, wsToGhat[c]>>].to
                     \/ event[e] \in {"sending", "done"} /\ got[c][e] > 0)'
  BY DEF OwedInv
<1>1. /\ c \in active \ flaky /\ wsToGhat'[c] = wsToGhat[c] /\ before'[c] = before[c]
  OBVIOUS
<1>2. Meant(e, c)
  BY <1>1 DEF Meant
<1> QED
  BY <1>1, <1>2 DEF OwedInv

\* A broadcast addresses the bucket of each client it is for.
LEMMA MeantIsAddressed ==
    ASSUME Registered, FanoutTypes, NEW e \in Event, NEW c \in active, Meant(e, c)
    PROVE  wsToGhat[c] \in Addressed(e) /\ wsToGhat[c] \in Bucket
<1>1. c \in Client /\ wsToGhat[c] \in Bucket /\ connections[wsToGhat[c]] # {}
  BY DEF Registered
<1>2. CASE target[e] = NoGhat
  <2>1. Addressed(e) = {b \in Bucket : connections[b] # {}}
    BY <1>2, NamesAssumption DEF Addressed, Bucket
  <2> QED
    BY <1>1, <2>1, Zenon
<1>3. CASE target[e] = All
  <2>1. wsToGhat[c] = All
    BY <1>3, NamesAssumption DEF Meant, Bucket
  <2> QED
    BY <1>1, <1>3, <2>1, NamesAssumption DEF Addressed, Bucket
<1>4. CASE target[e] # NoGhat /\ target[e] # All
  <2>0. target[e] = wsToGhat[c] \/ wsToGhat[c] = All
    BY <1>4 DEF Meant
  <2>1. Addressed(e) = {target[e], All}
    BY <1>4 DEF Addressed
  <2> QED
    BY <1>1, <2>0, <2>1, Zenon
<1> QED
  BY <1>2, <1>3, <1>4

LEMMA OwedStarted ==
    ASSUME Registered, FanoutTypes, OwedInv, NEW e \in Event,
           event[e] \in {"new", "publishing"}, event' = [event EXCEPT ![e] = "sending"],
           Started(e, Addressed(e)), UNCHANGED <<got, target, wsToGhat, active, flaky, before>>
    PROVE  OwedInv'
<1> SUFFICES ASSUME NEW x \in Event, NEW c \in Client,
                    c \in active \ flaky, Meant(x, c), x \notin before[c]
             PROVE  (\/ event[x] \in {"new", "publishing"}
                     \/ event[x] = "sending" /\ job[<<x, wsToGhat[c]>>].pc = "ready"
                     \/ event[x] = "sending" /\ c \in job[<<x, wsToGhat[c]>>].to
                     \/ event[x] \in {"sending", "done"} /\ got[c][x] > 0)'
  BY DEF OwedInv, Meant
<1>1. wsToGhat[c] \in Bucket /\ wsToGhat[c] \in Addressed(x)
  BY MeantIsAddressed
<1>2. <<x, wsToGhat[c]>> \in Job
  BY <1>1 DEF Job
<1>3. CASE x = e
  <2>1. event'[x] = "sending"
    BY <1>3 DEF FanoutTypes
  <2>2. job'[<<x, wsToGhat[c]>>] = [NoJob EXCEPT !.pc = "ready"]
    BY <1>1, <1>2, <1>3, Zenon DEF Started
  <2>3. [NoJob EXCEPT !.pc = "ready"].pc = "ready"
    BY DEF NoJob
  <2> QED
    BY <2>1, <2>2, <2>3
<1>4. CASE x # e
  <2>1. event'[x] = event[x]
    BY <1>4 DEF FanoutTypes
  <2>2. job'[<<x, wsToGhat[c]>>] = job[<<x, wsToGhat[c]>>]
    BY <1>2, <1>4 DEF Started
  <2> QED
    BY <2>1, <2>2 DEF OwedInv
<1> QED
  BY <1>3, <1>4

LEMMA OwedGathered ==
    ASSUME Registered, RoutesAndBuckets, FanoutTypes, OnceInv, OwedInv, NEW j \in Job, Gathered(j)
    PROVE  OwedInv'
<1>1. PICK dead \in Failures(job[j].to) : Delivered(j, dead) /\ Removed(dead)
  BY DEF Gathered
<1>2. dead \in SUBSET Client
  BY DEF Failures, FanoutTypes, JobType
<1>3. /\ \A c \in Client : c \in active' => wsToGhat'[c] = wsToGhat[c] /\ c \in active
      /\ UNCHANGED <<event, target, flaky, before>> /\ job' = [job EXCEPT ![j] = NoJob]
  BY <1>1, <1>2, RemovedMoves DEF Gathered
<1> SUFFICES ASSUME NEW e \in Event, NEW c \in Client,
                    c \in active' \ flaky', Meant(e, c)', e \notin before'[c]
             PROVE  (\/ event[e] \in {"new", "publishing"}
                     \/ event[e] = "sending" /\ job[<<e, wsToGhat[c]>>].pc = "ready"
                     \/ event[e] = "sending" /\ c \in job[<<e, wsToGhat[c]>>].to
                     \/ event[e] \in {"sending", "done"} /\ got[c][e] > 0)'
  BY DEF OwedInv
<1>4. /\ c \in active \ flaky /\ wsToGhat'[c] = wsToGhat[c] /\ e \notin before[c]
      /\ Meant(e, c) /\ wsToGhat[c] \in Bucket
  BY <1>3 DEF Meant, Registered
<1>5. \/ event[e] \in {"new", "publishing"}
      \/ event[e] = "sending" /\ job[<<e, wsToGhat[c]>>].pc = "ready"
      \/ event[e] = "sending" /\ c \in job[<<e, wsToGhat[c]>>].to
      \/ event[e] \in {"sending", "done"} /\ got[c][e] > 0
  BY <1>4 DEF OwedInv
<1>6. got[c][e] \in Nat /\ (got'[c][e] = got[c][e] \/ got'[c][e] = got[c][e] + 1)
  BY <1>1 DEF Delivered, FanoutTypes
<1>7. CASE <<e, wsToGhat[c]>> # j
  <2>1. job'[<<e, wsToGhat[c]>>] = job[<<e, wsToGhat[c]>>]
    BY <1>3, <1>4, <1>7 DEF Job, FanoutTypes
  <2> QED
    BY <1>3, <1>4, <1>5, <1>6, <2>1
<1>8. CASE <<e, wsToGhat[c]>> = j
  <2>1. job[<<e, wsToGhat[c]>>].pc = "sending" /\ event[e] = "sending" /\ j[1] = e
    BY <1>4, <1>8 DEF Gathered, OnceInv, JobsOfSending
  <2>2. CASE c \in job[j].to
    <3>1. net[c] = "open"
      BY <1>4 DEF RoutesAndBuckets
    <3>2. c \notin dead
      BY <1>1, <2>2, <3>1 DEF Failures
    <3>3. got'[c][e] = got[c][e] + 1
      BY <1>1, <2>1, <2>2, <3>2 DEF Delivered
    <3> QED
      BY <1>3, <1>6, <2>1, <3>3
  <2>3. CASE got[c][e] > 0
    BY <1>3, <1>6, <2>1, <2>3
  <2> QED
    BY <1>5, <1>8, <2>1, <2>2, <2>3
<1> QED
  BY <1>7, <1>8

LEMMA OwedStep ==
    ASSUME Registered, RoutesAndBuckets, FanoutTypes, PublishingIsOwn, OnceInv, ListedWhenSent,
           OwedInv, [Next]_vars
    PROVE  OwedInv'
<1>1. ASSUME NEW c \in Client, NEW b \in Bucket, Connect(c, b) PROVE OwedInv'
  <2>1. UNCHANGED <<got, event, job, target, flaky>>
    BY <1>1 DEF Connect
  <2>2. \A d \in Client : d # c /\ d \in active' => d \in active
                          /\ wsToGhat'[d] = wsToGhat[d] /\ before'[d] = before[d]
    BY <1>1 DEF Connect, Registered, FanoutTypes
  <2>3. c \notin active
    BY <1>1, NamesAssumption DEF Connect, RoutesAndBuckets, Registered
  <2>4. c \in active' => before'[c] = db
    BY <1>1, <2>3 DEF Connect, FanoutTypes
  <2> SUFFICES ASSUME NEW e \in Event, NEW d \in Client,
                      d \in active' \ flaky', Meant(e, d)', e \notin before'[d]
               PROVE  (\/ event[e] \in {"new", "publishing"}
                       \/ event[e] = "sending" /\ job[<<e, wsToGhat[d]>>].pc = "ready"
                       \/ event[e] = "sending" /\ d \in job[<<e, wsToGhat[d]>>].to
                       \/ event[e] \in {"sending", "done"} /\ got[d][e] > 0)'
    BY DEF OwedInv
  <2>5. CASE d = c
    <3>1. event[e] = "new"
      BY <2>4, <2>5 DEF ListedWhenSent
    <3> QED
      BY <2>1, <3>1
  <2>6. CASE d # c
    <3>1. d \in active \ flaky /\ wsToGhat'[d] = wsToGhat[d] /\ e \notin before[d] /\ Meant(e, d)
      BY <2>1, <2>2, <2>6 DEF Meant
    <3> QED
      BY <2>1, <3>1 DEF OwedInv
  <2> QED
    BY <2>5, <2>6
<1>2. ASSUME NEW c \in Client, HandlerFails(c) PROVE OwedInv'
  <2>1. c \in flaky /\ UNCHANGED <<got, event, job, target, flaky, active, wsToGhat>>
    BY <1>2 DEF HandlerFails, RoutesAndBuckets, members
  <2>2. \A d \in Client : d # c => before'[d] = before[d]
    BY <1>2 DEF HandlerFails, RouteEnds, FanoutTypes
  <2> QED
    BY <2>1, <2>2, OwedMoves
<1>3. ASSUME NEW c \in Client, Disconnect(c) PROVE OwedInv'
  <2>1. Removed({c}) /\ c \in flaky /\ UNCHANGED <<got, event, job, target, flaky>>
    BY <1>3 DEF Disconnect, RoutesAndBuckets
  <2>2. \A d \in Client : d \in active' => d \in active /\ wsToGhat'[d] = wsToGhat[d]
    BY <2>1, RemovedMoves
  <2>3. \A d \in Client : d # c => before'[d] = before[d]
    BY <1>3 DEF Disconnect, RouteEnds, FanoutTypes
  <2> QED
    BY <2>1, <2>2, <2>3, OwedMoves
<1>4. ASSUME NEW c \in Client, Close(c) \/ Degrade(c) PROVE OwedInv'
  BY <1>4, OwedMoves DEF Close, Degrade, members
<1>5. ASSUME NEW e \in Event, Store(e) PROVE OwedInv'
  <2>1. /\ event[e] = "new" /\ UNCHANGED <<wsToGhat, active, flaky, before, got, job, target>>
        /\ \A x \in Event : event'[x] = IF x = e THEN "publishing" ELSE event[x]
    BY <1>5 DEF Store, members, FanoutTypes
  <2> QED
    BY <2>1 DEF OwedInv, Meant
<1>6. ASSUME NEW e \in Event, Broadcast(e) \/ Receive(e) PROVE OwedInv'
  BY <1>6, OwedStarted DEF Broadcast, Receive, members
<1>7. ASSUME NEW e \in Event, Echo(e) PROVE OwedInv'
  BY <1>7, OwedMoves DEF Echo, members
<1>8. ASSUME NEW e \in Event, Finish(e) PROVE OwedInv'
  <2>1. /\ event[e] = "sending" /\ UNCHANGED <<wsToGhat, active, flaky, before, got, job, target>>
        /\ \A x \in Event : event'[x] = IF x = e THEN "done" ELSE event[x]
    BY <1>8 DEF Finish, members, FanoutTypes
  <2>2. \A b \in Bucket : job[<<e, b>>].pc = "idle" /\ job[<<e, b>>].to = {}
    BY <1>8 DEF Finish, Running, Job, OnceInv, JobsOfSending
  <2>3. \A c \in active : wsToGhat[c] \in Bucket
    BY DEF Registered
  <2> QED
    BY <2>1, <2>2, <2>3 DEF OwedInv, Meant
<1>9. ASSUME NEW j \in Job, Snapshot(j) PROVE OwedInv'
  <2>1. /\ UNCHANGED <<wsToGhat, active, flaky, before, got, event, target>>
        /\ job[j].pc = "ready"
    BY <1>9 DEF Snapshot, members
  <2>2. \A e \in Event, b \in Bucket : <<e, b>> # j => job'[<<e, b>>] = job[<<e, b>>]
    BY <1>9 DEF Snapshot, Job, FanoutTypes
  <2>3. \A e \in Event, b \in Bucket : <<e, b>> = j =>
          event[e] = "sending" /\ job'[<<e, b>>].to = connections[b]
    <3> SUFFICES ASSUME NEW e \in Event, NEW b \in Bucket, <<e, b>> = j
                 PROVE  event[e] = "sending" /\ job'[<<e, b>>].to = connections[b]
      OBVIOUS
    <3>1. event[e] = "sending"
      BY <2>1 DEF OnceInv, JobsOfSending
    <3>2. job'[j] = IF connections[j[2]] = {} THEN NoJob
                    ELSE [pc |-> "sending", to |-> connections[j[2]]]
      BY <1>9 DEF Snapshot, FanoutTypes
    <3>3. j[2] = b
      BY DEF Job
    <3> QED
      BY <3>1, <3>2, <3>3 DEF NoJob
  <2>4. \A c \in active : wsToGhat[c] \in Bucket /\ c \in connections[wsToGhat[c]]
    BY DEF Registered
  <2> SUFFICES ASSUME NEW e \in Event, NEW c \in Client,
                      c \in active \ flaky, Meant(e, c), e \notin before[c]
               PROVE  (\/ event[e] \in {"new", "publishing"}
                       \/ event[e] = "sending" /\ job[<<e, wsToGhat[c]>>].pc = "ready"
                       \/ event[e] = "sending" /\ c \in job[<<e, wsToGhat[c]>>].to
                       \/ event[e] \in {"sending", "done"} /\ got[c][e] > 0)'
    BY <2>1 DEF OwedInv, Meant
  <2>5. CASE <<e, wsToGhat[c]>> = j
    BY <2>1, <2>3, <2>4, <2>5
  <2>6. CASE <<e, wsToGhat[c]>> # j
    BY <2>1, <2>2, <2>4, <2>6 DEF OwedInv
  <2> QED
    BY <2>5, <2>6
<1>10. ASSUME NEW j \in Job, Gathered(j) PROVE OwedInv'
  BY <1>10, OwedGathered
<1>11. CASE Ping
  <2>1. UNCHANGED <<wsToGhat, active, flaky, before, got, event, target>>
    BY <1>11 DEF Ping, members
  <2>2. \A e \in Event, b \in Bucket : job'[<<e, b>>] = job[<<e, b>>]
    <3>1. \A e \in Event, b \in Bucket : <<e, b>> \in Job /\ <<e, b>>[1] # "ping"
      BY NamesAssumption DEF Job
    <3> QED
      BY <1>11, <3>1 DEF Ping
  <2>3. \A c \in active : wsToGhat[c] \in Bucket
    BY DEF Registered
  <2> QED
    BY <2>1, <2>2, <2>3 DEF OwedInv, Meant
<1>12. CASE UNCHANGED vars
  BY <1>12, OwedMoves DEF vars
<1> QED
  BY <1>1, <1>2, <1>3, <1>4, <1>5, <1>6, <1>7, <1>8, <1>9, <1>10, <1>11, <1>12 DEF Next

\* The INIT message of a client holds what was in the lists its route shows.
InitShows ==
    \A c \in active : \A e \in before[c] :
        /\ kind[e] \in Shown(handler[c])
        /\ kind[e] = "ghats" => wsToGhat[c] \in {All, target[e]}
        => e \in init[c]

\* Who stays is shown what it was shown.
LEMMA ShowsMoves ==
    ASSUME InitShows, UNCHANGED <<kind, target>>,
           \A c \in active' : /\ c \in active /\ wsToGhat'[c] = wsToGhat[c]
                              /\ \/ before'[c] = {}
                                 \/ /\ before'[c] = before[c] /\ init'[c] = init[c]
                                    /\ handler'[c] = handler[c]
    PROVE  InitShows'
BY DEF InitShows

LEMMA ShowsStep ==
    ASSUME Registered, RoutesAndBuckets, FanoutTypes, InitShows, [Next]_vars
    PROVE  InitShows'
<1>1. ASSUME NEW c \in Client, NEW b \in Bucket, Connect(c, b) PROVE InitShows'
  <2>1. c \notin active /\ UNCHANGED <<kind, target>>
    BY <1>1, NamesAssumption DEF Connect, RoutesAndBuckets, Registered
  <2>2. CASE Full(b)
    BY <1>1, <2>1, <2>2, ShowsMoves DEF Connect, Registered, FanoutTypes
  <2>3. CASE ~Full(b)
    <3>1. PICK r \in RoutesTo(b) : /\ handler' = [handler EXCEPT ![c] = r]
                                   /\ init' = [init EXCEPT ![c] = InitMessage(r, b)]
      BY <1>1, <2>3 DEF Connect
    <3>2. /\ before' = [before EXCEPT ![c] = db] /\ active' = active \cup {c}
          /\ wsToGhat' = [wsToGhat EXCEPT ![c] = b]
      BY <1>1, <2>3 DEF Connect
    <3> SUFFICES ASSUME NEW d \in active', NEW e \in before'[d],
                        kind[e] \in Shown(handler'[d]),
                        kind[e] = "ghats" => wsToGhat'[d] \in {All, target[e]}
                 PROVE  e \in init'[d]
      BY <2>1 DEF InitShows
    <3>3. CASE d = c
      <4>1. e \in db /\ handler'[d] = r /\ wsToGhat'[d] = b /\ init'[d] = InitMessage(r, b)
        BY <3>1, <3>2, <3>3 DEF FanoutTypes, Registered
      <4> QED
        BY <4>1 DEF InitMessage
    <3>4. CASE d # c
      <4>1. /\ d \in active /\ handler'[d] = handler[d] /\ wsToGhat'[d] = wsToGhat[d]
            /\ before'[d] = before[d] /\ init'[d] = init[d]
        BY <3>1, <3>2, <3>4 DEF FanoutTypes, Registered
      <4> QED
        BY <4>1 DEF InitShows
    <3> QED
      BY <3>3, <3>4
  <2> QED
    BY <2>2, <2>3
<1>2. ASSUME NEW c \in Client, HandlerFails(c) PROVE InitShows'
  BY <1>2, ShowsMoves DEF HandlerFails, RouteEnds, members, Registered, FanoutTypes
<1>3. ASSUME NEW c \in Client, Disconnect(c) PROVE InitShows'
  <2>1. Removed({c}) /\ RouteEnds(c) /\ UNCHANGED <<kind, target>>
    BY <1>3 DEF Disconnect
  <2>2. \A d \in active' : d \in active /\ d \in Client /\ d # c /\ wsToGhat'[d] = wsToGhat[d]
    BY <2>1, RemovedMoves DEF Registered
  <2> QED
    BY <2>1, <2>2, ShowsMoves DEF RouteEnds, FanoutTypes
<1>4. ASSUME NEW c \in Client, Close(c) \/ Degrade(c) PROVE InitShows'
  BY <1>4, ShowsMoves DEF Close, Degrade, members
<1>5. ASSUME NEW e \in Event, Store(e) \/ Broadcast(e) \/ Echo(e) \/ Receive(e) \/ Finish(e)
      PROVE  InitShows'
  BY <1>5, ShowsMoves DEF Store, Broadcast, Echo, Receive, Finish, members
<1>6. ASSUME NEW j \in Job, Snapshot(j) PROVE InitShows'
  BY <1>6, ShowsMoves DEF Snapshot, members
<1>7. ASSUME NEW j \in Job, Gathered(j) PROVE InitShows'
  <2>1. PICK dead \in Failures(job[j].to) : Removed(dead)
    BY <1>7 DEF Gathered
  <2>2. dead \in SUBSET Client
    BY <2>1 DEF Failures, FanoutTypes, JobType
  <2>3. \A c \in active' : c \in active /\ wsToGhat'[c] = wsToGhat[c]
    BY <2>1, <2>2, RemovedMoves DEF Registered
  <2> QED
    BY <1>7, <2>3, ShowsMoves DEF Gathered
<1>8. CASE Ping \/ UNCHANGED vars
  BY <1>8, ShowsMoves DEF Ping, vars, members
<1> QED
  BY <1>1, <1>2, <1>3, <1>4, <1>5, <1>6, <1>7, <1>8 DEF Next

\* For any number of clients, buckets and broadcasts: when a broadcast is over,
\* a client it is for that was well all the time has received it or has its
\* record in the INIT message of its route, wherever its connection fell between
\* the change of the lists, the broadcast and the snapshots; unless the record
\* was stored before the client came, in a list that INIT does not show.
THEOREM NothingEverMissed == Spec => []NothingMissed
<1> DEFINE NInv == OnceInv /\ ListedWhenSent /\ OwedInv /\ InitShows
<1>1. Init => NInv
  <2>1. Init => InitShows
    BY DEF Init, InitShows
  <2> QED
    BY <2>1, FanoutInit
<1>2. Typing /\ NInv /\ [Next]_vars => NInv'
  BY OnceStep, ListedStep, OwedStep, ShowsStep DEF Typing
<1>3. ASSUME Typing, NInv PROVE NothingMissed
  <2> SUFFICES ASSUME NEW e \in Event, NEW c \in Client, event[e] = "done",
                      c \in active \ flaky, Meant(e, c), got[c][e] = 0
               PROVE  e \in before[c] /\ (kind[e] \in Shown(handler[c]) => e \in init[c])
    BY <1>3 DEF NothingMissed, Meant, Typing, FanoutTypes
  <2>1. wsToGhat[c] \in Bucket
    BY <1>3 DEF Typing, Registered
  <2>2. e \in before[c]
    <3>1. job[<<e, wsToGhat[c]>>].pc = "idle" \/ event[e] = "sending"
      BY <1>3, <2>1 DEF OnceInv, JobsOfSending
    <3> QED
      BY <1>3, <3>1 DEF OwedInv
  <2>3. kind[e] = "ghats" => wsToGhat[c] \in {All, target[e]}
    BY <1>3, NamesAssumption DEF Meant, Typing, FanoutTypes, Bucket
  <2> QED
    BY <1>3, <2>2, <2>3 DEF InitShows
<1> QED
  BY <1>1, <1>2, <1>3, TypingInit, TypingStep, PTL DEF Spec

----------------------------------------------------------------------------
(* The refinement.                                                          *)

\* The instance of BoundedGroups brings a copy of Cardinality with it.
LEMMA SameCardinality == \A S : Groups!Cardinality(S) = Cardinality(S)
BY DEF Groups!Cardinality, Cardinality

\* The members of a group are the clients of its bucket.
LEMMA MembersAreConnections ==
    ASSUME Registered, NEW b \in Bucket
    PROVE  /\ Groups!Members(b) = connections[b]
           /\ Groups!Cardinality(Groups!Members(b)) = Cardinality(connections[b])
           /\ Cardinality(connections[b]) \in Nat
<1>1. Groups!Members(b) = connections[b]
  BY DEF Groups!Members, Registered
<1> QED
  BY <1>1, SameCardinality, FiniteBuckets

LEMMA InitRefines == Init => Groups!Init
BY DEF Init, Groups!Init

LEMMA RemovedRefines ==
    ASSUME Registered, NEW cs \in SUBSET Client, Removed(cs)
    PROVE  Groups!Next
<1> DEFINE gone == {c \in cs : wsToGhat[c] \in Bucket}
<1>1. wsToGhat' = [c \in Client |-> IF c \in gone THEN Left ELSE wsToGhat[c]]
  BY DEF Removed
<1>2. gone \in SUBSET Client /\ \A c \in gone : wsToGhat[c] \in Bucket
  OBVIOUS
<1>3. Groups!Leave(gone)
  BY <1>1, <1>2 DEF Groups!Leave
<1> QED
  BY <1>2, <1>3 DEF Groups!Next

LEMMA ConnectRefines ==
    ASSUME Registered, RoutesAndBuckets, NEW c \in Client, NEW b \in Bucket, Connect(c, b)
    PROVE  Groups!Next
<1>1. wsToGhat[c] = Outside
  BY DEF Connect, RoutesAndBuckets
<1>2. CASE Full(b)
  <2>1. wsToGhat' = [wsToGhat EXCEPT ![c] = Left]
    BY <1>2 DEF Connect
  <2>2. Groups!Cardinality(Groups!Members(b)) >= Max
    BY <1>2, MembersAreConnections DEF Full
  <2>3. Groups!TurnAway(c, b)
    BY <1>1, <2>1, <2>2 DEF Groups!TurnAway
  <2> QED
    BY <2>3 DEF Groups!Next
<1>3. CASE ~Full(b)
  <2>1. wsToGhat' = [wsToGhat EXCEPT ![c] = b]
    BY <1>3 DEF Connect
  <2>2. Groups!Cardinality(Groups!Members(b)) < Max
    BY <1>3, MembersAreConnections, MaxAssumption DEF Full
  <2>3. Groups!Join(c, b)
    BY <1>1, <2>1, <2>2 DEF Groups!Join
  <2> QED
    BY <2>3 DEF Groups!Next
<1> QED
  BY <1>2, <1>3

LEMMA NextRefines ==
    ASSUME Registered, RoutesAndBuckets, FanoutTypes, [Next]_vars
    PROVE  [Groups!Next]_wsToGhat
<1>1. ASSUME NEW c \in Client, NEW b \in Bucket, Connect(c, b) PROVE Groups!Next
  BY <1>1, ConnectRefines
<1>2. ASSUME NEW c \in Client, Disconnect(c) PROVE Groups!Next
  BY <1>2, RemovedRefines DEF Disconnect
<1>3. ASSUME NEW j \in Job, Gathered(j) PROVE Groups!Next
  <2>1. PICK dead \in Failures(job[j].to) : Removed(dead)
    BY <1>3 DEF Gathered
  <2>2. dead \in SUBSET Client
    BY <2>1 DEF Failures, FanoutTypes, JobType
  <2> QED
    BY <2>1, <2>2, RemovedRefines
<1>4. ASSUME NEW c \in Client,
             HandlerFails(c) \/ Close(c) \/ Degrade(c)
      PROVE  UNCHANGED wsToGhat
  BY <1>4 DEF HandlerFails, RouteEnds, Close, Degrade, members
<1>5. ASSUME NEW e \in Event, Store(e) \/ Broadcast(e) \/ Echo(e) \/ Receive(e) \/ Finish(e)
      PROVE  UNCHANGED wsToGhat
  BY <1>5 DEF Store, Broadcast, Echo, Receive, Finish, members
<1>6. ASSUME NEW j \in Job, Snapshot(j) PROVE UNCHANGED wsToGhat
  BY <1>6 DEF Snapshot, members
<1>7. CASE Ping \/ UNCHANGED vars
  BY <1>7 DEF Ping, vars, members
<1> QED
  BY <1>1, <1>2, <1>3, <1>4, <1>5, <1>6, <1>7 DEF Next

\* Membership of the buckets is that of bounded groups: no interleaving of
\* routes, fan-outs and pings joins a client twice, brings one back or overfills.
THEOREM Refinement == Spec => ImplementsGroups
<1>1. Typing /\ [Next]_vars => [Groups!Next]_wsToGhat
  BY NextRefines DEF Typing
<1> QED
  BY <1>1, InitRefines, TypingInit, TypingStep, PTL DEF Spec, ImplementsGroups, Groups!Spec

----------------------------------------------------------------------------
(* The WhatsApp channel: what a claim in a reply rests on, from the webhook *)
(* call to the lists, and that the sends no one waits for are scheduled once*)
(* each.                                                                    *)

\* WhatsAppTypeOK with what its steps need besides: whole records, and that the
\* sends under way are finitely many.
CallState ==
    [pc : {"new", "limiting", "filing", "registering", "appending", "asking",
           "asking smaller", "replying"} \cup Ended,
     intent : {"none", "info", "chat"} \cup Claims]

InboundTypes ==
    /\ sent \in [Message -> Content]
    /\ call \in [Call -> CallState]
    /\ told \in SUBSET Call
    /\ alerts \in SUBSET (Call \cup AppSos) /\ window \in 0..SosLimit
    /\ reports \in SUBSET Call /\ indexed \in SUBSET reports /\ table \in SUBSET Call
    /\ readBack \in BOOLEAN
    /\ found \in SUBSET Call
    /\ failures \in 0..MaxFailures

OutboundTypes ==
    /\ app \in [AppSos -> {"new", "filing", "answered", "refused", "cut"}]
    /\ queue \in Seq(Note) /\ IsInjective(queue)
    /\ sending \in SUBSET Note /\ IsFiniteSet(sending) /\ Cardinality(sending) <= FFMax
    /\ attempted \in SUBSET Note /\ dropped \in SUBSET Note

\* What is scheduled was scheduled by a step that is not taken again.
NotesAreDue ==
    \A i \in 1..Len(queue) :
        /\ queue[i] \in AppSos => app[queue[i]] = "answered"
        /\ \A c \in Call : queue[i] = Found(c) => c \in found

\* Only an answered call has told anything.  A call has filed its alert exactly
\* when it goes on with the intent to say so, which a reply that fails forgets.
SosAsTold ==
    \A c \in Call :
        /\ c \in told => call[c].pc = "answered"
        /\ call[c].intent = "sos" => c \in alerts
        /\ c \in alerts => /\ call[c].pc \in {"replying"} \cup Ended
                           /\ call[c].intent \in {"sos", "none"}

\* Only a call that has appended its report claims to have registered one; a
\* restart takes it out of the lists if the table does not have it.
LostAsTold ==
    \A c \in Call : call[c].intent = "lost" =>
        /\ call[c].pc \in {"replying"} \cup Ended
        /\ c \in reports \/ (readBack /\ c \notin table)

WhatsAppInv == InboundTypes /\ OutboundTypes /\ NotesAreDue /\ SosAsTold /\ LostAsTold

----------------------------------------------------------------------------
(* Deliveries and sends.                                                    *)

\* A delivery is one of a message, the first is, and so is the one after it if
\* the gateway may deliver the message that often.
LEMMA DeliveriesAreCalls ==
    /\ \A c \in Call : c[1] \in Message
    /\ \A m \in Message : <<m, 1>> \in Call
    /\ \A m \in Message : \A k \in 1..(Deliveries[m] - 1) :
           <<m, k>> \in Call /\ <<m, k + 1>> \in Call
<1>1. \A m \in Message : Deliveries[m] \in Nat \ {0}
  BY DeliveriesAssumption
<1> QED
  BY <1>1 DEF Call

\* What is sent to the phone of a report is no confirmation to the app and tells
\* which report it is about.
LEMMA SendsDiffer ==
    /\ \A c \in Call : c \notin AppSos /\ Found(c) \notin AppSos /\ Found(c) \in Note
    /\ \A c, d \in Call : Found(c) = Found(d) => c = d
BY AppSosAssumption DEF Found, Note

\* One more send at the end of the queue.
LEMMA OneMoreSend ==
    ASSUME queue \in Seq(Note), IsInjective(queue), NEW n \in Note,
           \A i \in 1..Len(queue) : queue[i] # n, Schedule(n)
    PROVE  /\ queue' \in Seq(Note) /\ IsInjective(queue')
           /\ Len(queue') = Len(queue) + 1
           /\ \A i \in 1..Len(queue) : queue'[i] = queue[i]
           /\ queue'[Len(queue) + 1] = n
<1>1. /\ queue' \in Seq(Note) /\ Len(queue') = Len(queue) + 1 /\ Len(queue) \in Nat
      /\ \A i \in 1..Len(queue) : queue'[i] = queue[i]
      /\ queue'[Len(queue) + 1] = n
  BY DEF Schedule
<1>2. ASSUME NEW i \in 1..Len(queue'), NEW j \in 1..Len(queue'), queue'[i] = queue'[j]
      PROVE  i = j
  <2>1. i \in 1..Len(queue) \/ i = Len(queue) + 1
    BY <1>1
  <2>2. j \in 1..Len(queue) \/ j = Len(queue) + 1
    BY <1>1
  <2>3. CASE i \in 1..Len(queue) /\ j \in 1..Len(queue)
    BY <1>1, <1>2, <2>3 DEF IsInjective
  <2> QED
    BY <1>1, <1>2, <2>1, <2>2, <2>3
<1> QED
  BY <1>1, <1>2 DEF IsInjective

\* The first send leaves the queue.
LEMMA OneSendLess ==
    ASSUME queue \in Seq(Note), IsInjective(queue), queue # <<>>, queue' = Tail(queue)
    PROVE  /\ Head(queue) \in Note
           /\ queue' \in Seq(Note) /\ IsInjective(queue')
           /\ \A i \in 1..Len(queue') : i + 1 \in 1..Len(queue) /\ queue'[i] = queue[i + 1]
<1>1. Head(queue) \in Note /\ queue' \in Seq(Note)
  OBVIOUS
<1>2. \A i \in 1..Len(queue') : i + 1 \in 1..Len(queue) /\ queue'[i] = queue[i + 1]
  OBVIOUS
<1>3. ASSUME NEW i \in 1..Len(queue'), NEW j \in 1..Len(queue'), queue'[i] = queue'[j]
      PROVE  i = j
  <2>1. queue[i + 1] = queue[j + 1] /\ i + 1 \in 1..Len(queue) /\ j + 1 \in 1..Len(queue)
    BY <1>2, <1>3
  <2>2. i + 1 = j + 1
    BY <2>1 DEF IsInjective
  <2> QED
    BY <2>2
<1> QED
  BY <1>1, <1>2, <1>3 DEF IsInjective

LEMMA WhatsAppInitHolds == WhatsAppInit => WhatsAppInv
<1> SUFFICES ASSUME WhatsAppInit PROVE WhatsAppInv
  OBVIOUS
<1>1. InboundTypes
  <2>1. window \in 0..SosLimit /\ failures \in 0..MaxFailures
    BY LimitsAssumption DEF WhatsAppInit
  <2>2. sent \in [Message -> Content] /\ call \in [Call -> CallState]
    BY DEF WhatsAppInit, Content, Says, Unsent, NoCall, CallState, Ended
  <2> QED
    BY <2>1, <2>2 DEF WhatsAppInit, InboundTypes
<1>2. Cardinality(sending) = 0 /\ IsFiniteSet(sending)
  BY FS_EmptySet DEF WhatsAppInit
<1>3. OutboundTypes
  BY <1>2, LimitsAssumption DEF WhatsAppInit, OutboundTypes, IsInjective
<1>4. NotesAreDue
  BY DEF WhatsAppInit, NotesAreDue
<1>5. SosAsTold /\ LostAsTold
  BY DEF WhatsAppInit, SosAsTold, LostAsTold, NoCall
<1> QED
  BY <1>1, <1>3, <1>4, <1>5 DEF WhatsAppInv

----------------------------------------------------------------------------
(* The inbound side.                                                        *)

\* route() moves the call it is about, and with no claim.
LEMMA EnterMoves ==
    ASSUME InboundTypes, NEW c \in Call, NEW x \in Content, Enter(c, x)
    PROVE  \E s \in CallState :
             /\ call' = [call EXCEPT ![c] = s]
             /\ s.pc \in {"replying", "limiting", "registering", "asking"}
             /\ s.intent \in {call[c].intent, "info"}
<1>1. call \in [Call -> CallState] /\ x.says \in Says
  BY DEF InboundTypes, Content
<1>2. ASSUME Reply(c, "info")
      PROVE  \E s \in CallState :
               /\ call' = [call EXCEPT ![c] = s]
               /\ s.pc \in {"replying", "limiting", "registering", "asking"}
               /\ s.intent \in {call[c].intent, "info"}
  <2>1. [pc |-> "replying", intent |-> "info"] \in CallState
    BY DEF CallState
  <2> QED
    BY <1>2, <2>1 DEF Reply
<1>3. ASSUME NEW p \in {"limiting", "registering", "asking"}, Goto(c, p)
      PROVE  \E s \in CallState :
               /\ call' = [call EXCEPT ![c] = s]
               /\ s.pc \in {"replying", "limiting", "registering", "asking"}
               /\ s.intent \in {call[c].intent, "info"}
  <2>1. [call[c] EXCEPT !.pc = p] \in CallState
    BY <1>1 DEF CallState
  <2>2. call' = [call EXCEPT ![c] = [call[c] EXCEPT !.pc = p]]
    BY <1>1, <1>3 DEF Goto
  <2>3. /\ [call[c] EXCEPT !.pc = p].pc = p
        /\ [call[c] EXCEPT !.pc = p].intent = call[c].intent
    BY <1>1 DEF CallState
  <2> QED
    BY <2>1, <2>2, <2>3
<1>4. Reply(c, "info") \/ (\E p \in {"limiting", "registering", "asking"} : Goto(c, p))
  BY <1>1 DEF Enter, Says
<1> QED
  BY <1>2, <1>3, <1>4

LEMMA InboundTypesStep ==
    ASSUME InboundTypes, OutboundTypes, WhatsAppNext
    PROVE  InboundTypes'
<1> USE DEF InboundTypes
<1>1. ASSUME NEW c \in Call, NEW i \in {"none", "info", "chat"} \cup Claims, Reply(c, i)
      PROVE  call' \in [Call -> CallState]
  BY <1>1 DEF Reply, CallState
<1>2. ASSUME NEW c \in Call,
             NEW p \in {"filing", "appending", "asking smaller", "answered"}, Goto(c, p)
      PROVE  call' \in [Call -> CallState]
  <2>1. [call[c] EXCEPT !.pc = p] \in CallState
    BY DEF CallState, Ended
  <2> QED
    BY <1>2, <2>1 DEF Goto
<1>3. ASSUME NEW m \in Message, Send(m) PROVE InboundTypes'
  <2>1. PICK x \in Sendable : sent' = [sent EXCEPT ![m] = x] /\ Enter(<<m, 1>>, x)
    BY <1>3 DEF Send
  <2>2. x \in Content /\ <<m, 1>> \in Call
    BY DeliveriesAreCalls DEF Sendable
  <2>3. call' \in [Call -> CallState]
    BY <2>1, <2>2, EnterMoves
  <2> QED
    BY <1>3, <2>1, <2>2, <2>3 DEF Send, lists
<1>4. ASSUME NEW m \in Message, NEW k \in 1..(Deliveries[m] - 1), Redeliver(m, k)
      PROVE  InboundTypes'
  <2>1. sent[m] \in Content /\ <<m, k + 1>> \in Call
    BY DeliveriesAreCalls
  <2>2. call' \in [Call -> CallState]
    BY <1>4, <2>1, EnterMoves DEF Redeliver
  <2> QED
    BY <1>4, <2>2 DEF Redeliver, lists
<1>5. ASSUME Admitted \/ Refused
      PROVE  window' \in 0..SosLimit /\ failures' \in 0..MaxFailures
  BY <1>5, LimitsAssumption DEF Admitted, Refused
<1>6. ASSUME NEW c \in Call, Limit(c) PROVE InboundTypes'
  <2>1. call' \in [Call -> CallState]
    BY <1>1, <1>2, <1>6 DEF Limit, Claims
  <2> QED
    BY <1>5, <1>6, <2>1 DEF Limit, lists
<1>7. ASSUME NEW c \in Call, FileSos(c) PROVE InboundTypes'
  <2>1. call' \in [Call -> CallState]
    BY <1>1, <1>7 DEF FileSos, Claims
  <2> QED
    BY <1>7, <2>1 DEF FileSos, lists
<1>8. ASSUME NEW c \in Call, WriteLost(c) PROVE InboundTypes'
  <2>1. call' \in [Call -> CallState]
    BY <1>2, <1>8 DEF WriteLost
  <2> QED
    BY <1>8, <2>1, LimitsAssumption DEF WriteLost
<1>9. ASSUME NEW c \in Call, AppendLost(c) PROVE InboundTypes'
  <2>1. call' \in [Call -> CallState]
    BY <1>1, <1>9 DEF AppendLost, Claims
  <2> QED
    BY <1>9, <2>1 DEF AppendLost
<1>10. ASSUME NEW c \in Call, Ask(c) PROVE InboundTypes'
  <2>1. call' \in [Call -> CallState]
    BY <1>1, <1>2, <1>10 DEF Ask
  <2> QED
    BY <1>10, <2>1 DEF Ask, lists
<1>11. ASSUME NEW c \in Call, Answer(c) PROVE InboundTypes'
  <2>1. [pc |-> "answered", intent |-> "none"] \in CallState
    BY DEF CallState, Ended
  <2>2. call' \in [Call -> CallState] /\ told' \in SUBSET Call
    BY <1>2, <1>11, <2>1 DEF Answer
  <2>3. c[1] \in Message /\ Unsent \in Content
    BY DeliveriesAreCalls DEF Unsent, Content, Says
  <2>4. sent' \in [Message -> Content]
    BY <1>11, <2>3 DEF Answer
  <2> QED
    BY <1>11, <2>2, <2>4 DEF Answer, lists
<1>12. ASSUME NEW c \in Call, MarkFound(c) PROVE InboundTypes'
  BY <1>12 DEF MarkFound, inbound
<1>13. CASE WindowPasses
  BY <1>13, LimitsAssumption DEF WindowPasses, inbound, lists
<1>14. ASSUME NEW a \in AppSos, LimitApp(a) PROVE InboundTypes'
  BY <1>5, <1>14 DEF LimitApp, inbound, lists
<1>15. ASSUME NEW a \in AppSos, FileApp(a) PROVE InboundTypes'
  BY <1>15 DEF FileApp, inbound, lists
<1>16. CASE Acquire \/ \E n \in sending : Release(n)
  BY <1>16 DEF Acquire, Release, inbound, lists
<1>17. CASE Restart
  <2>1. \A c \in Call : [call[c] EXCEPT !.pc = "cut"] \in CallState
    BY DEF CallState, Ended
  <2>2. call' \in [Call -> CallState]
    BY <1>17, <2>1 DEF Restart, CutOff
  <2> QED
    BY <1>17, <2>2, LimitsAssumption DEF Restart, CutOff
<1> QED
  BY <1>3, <1>4, <1>6, <1>7, <1>8, <1>9, <1>10, <1>11, <1>12, <1>13, <1>14, <1>15,
     <1>16, <1>17 DEF WhatsAppNext

----------------------------------------------------------------------------
(* The outbound side.                                                       *)

\* Who does not touch the sends keeps what holds of them.
LEMMA OutboundStays ==
    ASSUME OutboundTypes, NotesAreDue, UNCHANGED <<outbound, app, found>>
    PROVE  OutboundTypes' /\ NotesAreDue'
BY DEF outbound, OutboundTypes, NotesAreDue

LEMMA OutboundStep ==
    ASSUME InboundTypes, OutboundTypes, NotesAreDue, WhatsAppNext
    PROVE  OutboundTypes' /\ NotesAreDue'
<1>1. ASSUME NEW m \in Message,
             Send(m) \/ \E k \in 1..(Deliveries[m] - 1) : Redeliver(m, k)
      PROVE  OutboundTypes' /\ NotesAreDue'
  BY <1>1, OutboundStays DEF Send, Redeliver, lists
<1>2. ASSUME NEW c \in Call,
             Limit(c) \/ FileSos(c) \/ WriteLost(c) \/ AppendLost(c) \/ Ask(c) \/ Answer(c)
      PROVE  OutboundTypes' /\ NotesAreDue'
  BY <1>2, OutboundStays DEF Limit, FileSos, WriteLost, AppendLost, Ask, Answer, lists
<1>3. CASE WindowPasses
  BY <1>3, OutboundStays DEF WindowPasses, lists
<1>4. ASSUME NEW a \in AppSos, LimitApp(a) PROVE OutboundTypes' /\ NotesAreDue'
  <2>1. app' \in [AppSos -> {"new", "filing", "answered", "refused", "cut"}]
    BY <1>4 DEF LimitApp, OutboundTypes
  <2>2. OutboundTypes' /\ UNCHANGED <<queue, found>>
    BY <1>4, <2>1 DEF LimitApp, OutboundTypes, outbound, lists
  <2>3. \A b \in AppSos : app[b] = "answered" => app'[b] = "answered"
    BY <1>4 DEF LimitApp, OutboundTypes
  <2>4. NotesAreDue'
    BY <2>2, <2>3 DEF NotesAreDue
  <2> QED
    BY <2>2, <2>4
<1>5. ASSUME NEW a \in AppSos, FileApp(a) PROVE OutboundTypes' /\ NotesAreDue'
  <2>1. app[a] = "filing" /\ app' = [app EXCEPT ![a] = "answered"] /\ Schedule(a)
        /\ UNCHANGED <<found, sending, attempted, dropped>>
    BY <1>5 DEF FileApp, lists
  <2>2. queue \in Seq(Note) /\ IsInjective(queue) /\ a \in Note
    BY DEF OutboundTypes, Note
  <2>3. \A i \in 1..Len(queue) : queue[i] # a
    BY <2>1 DEF NotesAreDue
  <2>4. /\ queue' \in Seq(Note) /\ IsInjective(queue')
        /\ Len(queue') = Len(queue) + 1
        /\ \A i \in 1..Len(queue) : queue'[i] = queue[i]
        /\ queue'[Len(queue) + 1] = a
    BY <2>1, <2>2, <2>3, OneMoreSend
  <2>5. OutboundTypes'
    BY <2>1, <2>4 DEF OutboundTypes
  <2>6. ASSUME NEW i \in 1..Len(queue')
        PROVE  /\ queue'[i] \in AppSos => app'[queue'[i]] = "answered"
               /\ \A c \in Call : queue'[i] = Found(c) => c \in found'
    <3>1. CASE i \in 1..Len(queue)
      BY <2>1, <2>4, <3>1 DEF NotesAreDue, OutboundTypes
    <3>2. CASE queue'[i] = a
      BY <2>1, <3>2, SendsDiffer DEF OutboundTypes
    <3> QED
      BY <2>2, <2>4, <3>1, <3>2
  <2> QED
    BY <2>5, <2>6 DEF NotesAreDue
<1>6. ASSUME NEW c \in Call, MarkFound(c) PROVE OutboundTypes' /\ NotesAreDue'
  <2>1. /\ c \notin found /\ found' = found \cup {c}
        /\ Schedule(Found(c)) \/ UNCHANGED queue
        /\ UNCHANGED <<app, sending, attempted, dropped>>
    BY <1>6 DEF MarkFound
  <2>2. queue \in Seq(Note) /\ IsInjective(queue) /\ Found(c) \in Note
    BY SendsDiffer DEF OutboundTypes
  <2>3. CASE UNCHANGED queue
    BY <2>1, <2>3 DEF OutboundTypes, NotesAreDue
  <2>4. CASE Schedule(Found(c))
    <3>1. \A i \in 1..Len(queue) : queue[i] # Found(c)
      BY <2>1 DEF NotesAreDue
    <3>2. /\ queue' \in Seq(Note) /\ IsInjective(queue')
          /\ Len(queue') = Len(queue) + 1
          /\ \A i \in 1..Len(queue) : queue'[i] = queue[i]
          /\ queue'[Len(queue) + 1] = Found(c)
      BY <2>2, <2>4, <3>1, OneMoreSend
    <3>3. OutboundTypes'
      BY <2>1, <3>2 DEF OutboundTypes
    <3>4. ASSUME NEW i \in 1..Len(queue')
          PROVE  /\ queue'[i] \in AppSos => app'[queue'[i]] = "answered"
                 /\ \A d \in Call : queue'[i] = Found(d) => d \in found'
      <4>1. CASE i \in 1..Len(queue)
        BY <2>1, <3>2, <4>1 DEF NotesAreDue
      <4>2. CASE queue'[i] = Found(c)
        BY <2>1, <4>2, SendsDiffer
      <4> QED
        BY <2>2, <3>2, <4>1, <4>2
    <3> QED
      BY <3>3, <3>4 DEF NotesAreDue
  <2> QED
    BY <2>1, <2>3, <2>4
<1>7. CASE Acquire
  <2>1. /\ queue # <<>> /\ Cardinality(sending) < FFMax
        /\ sending' = sending \cup {Head(queue)} /\ queue' = Tail(queue)
        /\ UNCHANGED <<app, found, attempted, dropped>>
    BY <1>7 DEF Acquire, lists
  <2>2. /\ Head(queue) \in Note
        /\ queue' \in Seq(Note) /\ IsInjective(queue')
        /\ \A i \in 1..Len(queue') : i + 1 \in 1..Len(queue) /\ queue'[i] = queue[i + 1]
    BY <2>1, OneSendLess DEF OutboundTypes
  <2>3. IsFiniteSet(sending') /\ Cardinality(sending') <= FFMax
    <3>1. IsFiniteSet(sending) /\ Cardinality(sending) \in Nat
      BY FS_CardinalityType DEF OutboundTypes
    <3>2. /\ IsFiniteSet(sending')
          /\ Cardinality(sending') = Cardinality(sending)
             \/ Cardinality(sending') = Cardinality(sending) + 1
      BY <2>1, <3>1, FS_AddElement
    <3> QED
      BY <2>1, <3>1, <3>2, LimitsAssumption
  <2>4. OutboundTypes'
    BY <2>1, <2>2, <2>3 DEF OutboundTypes
  <2>5. NotesAreDue'
    BY <2>1, <2>2 DEF NotesAreDue
  <2> QED
    BY <2>4, <2>5
<1>8. ASSUME NEW n \in sending, Release(n) PROVE OutboundTypes' /\ NotesAreDue'
  <2>1. /\ attempted' = attempted \cup {n} /\ sending' = sending \ {n}
        /\ UNCHANGED <<app, found, queue, dropped>>
    BY <1>8 DEF Release, lists
  <2>2. IsFiniteSet(sending') /\ Cardinality(sending') <= FFMax
    <3>1. IsFiniteSet(sending) /\ Cardinality(sending) \in Nat
      BY FS_CardinalityType DEF OutboundTypes
    <3>2. /\ IsFiniteSet(sending') /\ Cardinality(sending') \in Nat
          /\ Cardinality(sending') <= Cardinality(sending)
      BY <2>1, <3>1, FS_Subset, FS_CardinalityType
    <3> QED
      BY <3>1, <3>2, LimitsAssumption DEF OutboundTypes
  <2> QED
    BY <2>1, <2>2 DEF OutboundTypes, NotesAreDue
<1>9. CASE Restart
  <2>1. /\ queue' = <<>> /\ sending' = {} /\ UNCHANGED <<found, attempted>>
        /\ app' = [a \in AppSos |-> IF app[a] = "filing" THEN "cut" ELSE app[a]]
        /\ dropped' = dropped \cup Range(queue) \cup sending
    BY <1>9 DEF Restart, CutOff
  <2>2. IsFiniteSet(sending') /\ Cardinality(sending') <= FFMax
    BY <2>1, FS_EmptySet, LimitsAssumption
  <2>3. queue' \in Seq(Note) /\ IsInjective(queue') /\ Len(queue') = 0
    BY <2>1 DEF IsInjective
  <2>4. Range(queue) \in SUBSET Note
    BY DEF OutboundTypes, Range
  <2>5. app' \in [AppSos -> {"new", "filing", "answered", "refused", "cut"}]
    BY <2>1 DEF OutboundTypes
  <2> QED
    BY <2>1, <2>2, <2>3, <2>4, <2>5 DEF OutboundTypes, NotesAreDue
<1> QED
  BY <1>1, <1>2, <1>3, <1>4, <1>5, <1>6, <1>7, <1>8, <1>9 DEF WhatsAppNext

----------------------------------------------------------------------------
(* What the pilgrim is told.                                                *)

\* A reply and a move are those of one call.
LEMMA OneCallMoves ==
    ASSUME InboundTypes, NEW c \in Call
    PROVE  /\ \A i : Reply(c, i) =>
                /\ call'[c].pc = "replying" /\ call'[c].intent = i
                /\ \A d \in Call \ {c} : call'[d] = call[d]
           /\ \A p : Goto(c, p) =>
                /\ call'[c].pc = p /\ call'[c].intent = call[c].intent
                /\ \A d \in Call \ {c} : call'[d] = call[d]
<1>1. call \in [Call -> CallState] /\ call[c] \in CallState
  BY DEF InboundTypes
<1>2. ASSUME NEW i, Reply(c, i)
      PROVE  /\ call'[c].pc = "replying" /\ call'[c].intent = i
             /\ \A d \in Call \ {c} : call'[d] = call[d]
  BY <1>1, <1>2 DEF Reply
<1>3. ASSUME NEW p, Goto(c, p)
      PROVE  /\ call'[c].pc = p /\ call'[c].intent = call[c].intent
             /\ \A d \in Call \ {c} : call'[d] = call[d]
  BY <1>1, <1>3 DEF Goto, CallState
<1> QED
  BY <1>2, <1>3

\* Calls that neither file an alert nor start to claim one keep what is so of
\* every other, whoever else files one.
LEMMA SosStays ==
    ASSUME SosAsTold, alerts \subseteq alerts', alerts' \cap Call \subseteq alerts,
           told' \subseteq told,
           \A c \in Call : \/ call'[c] = call[c]
                           \/ /\ c \notin alerts \cup told
                              /\ call'[c].intent = "sos" => call[c].intent = "sos"
    PROVE  SosAsTold'
BY DEF SosAsTold

\* The same of reports.
LEMMA LostStays ==
    ASSUME LostAsTold, UNCHANGED <<table, readBack>>, reports \subseteq reports',
           \A c \in Call : \/ call'[c] = call[c]
                           \/ call'[c].intent # "lost"
                           \/ /\ call[c].intent = "lost"
                              /\ call'[c].pc \in {"replying"} \cup Ended
    PROVE  LostAsTold'
BY DEF LostAsTold

\* A call that has not come to its reply has filed nothing and told nothing.
LEMMA NothingYet ==
    ASSUME SosAsTold, NEW c \in Call, call[c].pc \notin {"replying"} \cup Ended
    PROVE  c \notin alerts \cup told
BY DEF SosAsTold, Ended

LEMMA SosStep ==
    ASSUME InboundTypes, SosAsTold, WhatsAppNext
    PROVE  SosAsTold'
<1>1. ASSUME NEW c \in Call, NEW x \in Content, Enter(c, x), call[c].pc = "new",
             UNCHANGED <<alerts, told>>
      PROVE  SosAsTold'
  <2>1. PICK s \in CallState : /\ call' = [call EXCEPT ![c] = s]
                               /\ s.intent \in {call[c].intent, "info"}
    BY <1>1, EnterMoves
  <2>2. \A d \in Call : call'[d] = IF d = c THEN s ELSE call[d]
    BY <2>1 DEF InboundTypes
  <2>3. c \notin alerts \cup told
    BY <1>1, NothingYet DEF Ended
  <2> QED
    BY <1>1, <2>1, <2>2, <2>3, SosStays
<1>2. ASSUME NEW m \in Message, Send(m) PROVE SosAsTold'
  <2>1. <<m, 1>> \in Call /\ UNCHANGED <<alerts, told>> /\ call[<<m, 1>>].pc = "new"
    BY <1>2, DeliveriesAreCalls DEF Send
  <2>2. PICK x \in Content : Enter(<<m, 1>>, x)
    BY <1>2 DEF Send, Sendable
  <2> QED
    BY <1>1, <2>1, <2>2
<1>3. ASSUME NEW m \in Message, NEW k \in 1..(Deliveries[m] - 1), Redeliver(m, k)
      PROVE  SosAsTold'
  <2>1. <<m, k + 1>> \in Call /\ sent[m] \in Content
    BY DeliveriesAreCalls DEF InboundTypes
  <2> QED
    BY <1>1, <1>3, <2>1 DEF Redeliver
<1>4. ASSUME NEW c \in Call, Limit(c) \/ WriteLost(c) \/ AppendLost(c) \/ Ask(c)
      PROVE  SosAsTold'
  <2>1. c \notin alerts \cup told
    BY <1>4, NothingYet DEF Limit, WriteLost, AppendLost, Ask, Ended
  <2>2. /\ call'[c].intent \in {call[c].intent, "sos_failed", "lost", "chat", "info"}
        /\ \A d \in Call \ {c} : call'[d] = call[d]
    BY <1>4, OneCallMoves DEF Limit, WriteLost, AppendLost, Ask
  <2>3. UNCHANGED <<alerts, told>>
    BY <1>4 DEF Limit, WriteLost, AppendLost, Ask
  <2> QED
    BY <2>1, <2>2, <2>3, SosStays
<1>5. ASSUME NEW c \in Call, FileSos(c) PROVE SosAsTold'
  <2>1. c \notin alerts \cup told
    BY <1>5, NothingYet DEF FileSos, Ended
  <2>2. /\ call'[c].pc = "replying" /\ call'[c].intent = "sos"
        /\ \A d \in Call \ {c} : call'[d] = call[d]
        /\ alerts' = alerts \cup {c} /\ told' = told
    BY <1>5, OneCallMoves DEF FileSos
  <2> QED
    BY <2>1, <2>2 DEF SosAsTold
<1>6. ASSUME NEW c \in Call, Answer(c) PROVE SosAsTold'
  <2>1. call[c].pc = "replying" /\ UNCHANGED alerts
    BY <1>6 DEF Answer
  <2>2. CASE Goto(c, "answered") /\ told' = told \cup {c}
    <3>1. /\ call'[c].pc = "answered" /\ call'[c].intent = call[c].intent
          /\ \A d \in Call \ {c} : call'[d] = call[d]
      BY <2>2, OneCallMoves
    <3> QED
      BY <2>1, <2>2, <3>1 DEF SosAsTold, Ended
  <2>3. CASE /\ call' = [call EXCEPT ![c] = [pc |-> "answered", intent |-> "none"]]
             /\ told' = told
    <3>1. /\ call'[c].pc = "answered" /\ call'[c].intent = "none"
          /\ \A d \in Call \ {c} : call'[d] = call[d]
      BY <2>3 DEF InboundTypes
    <3> QED
      BY <2>1, <2>3, <3>1 DEF SosAsTold, Ended
  <2> QED
    BY <1>6, <2>2, <2>3 DEF Answer
<1>7. ASSUME NEW c \in Call, MarkFound(c) PROVE SosAsTold'
  BY <1>7, SosStays DEF MarkFound, inbound
<1>8. CASE WindowPasses
  BY <1>8, SosStays DEF WindowPasses, inbound
<1>9. ASSUME NEW a \in AppSos, LimitApp(a) \/ FileApp(a) PROVE SosAsTold'
  <2>1. a \notin Call
    BY AppSosAssumption
  <2> QED
    BY <1>9, <2>1, SosStays DEF LimitApp, FileApp, inbound
<1>10. CASE Acquire \/ \E n \in sending : Release(n)
  BY <1>10, SosStays DEF Acquire, Release, inbound
<1>11. CASE Restart
  <2>1. UNCHANGED <<told, alerts>>
    BY <1>11 DEF Restart
  <2>2. \A c \in Call : call'[c] = IF call[c].pc \in Ended \cup {"new"} THEN call[c]
                                   ELSE [call[c] EXCEPT !.pc = "cut"]
    BY <1>11 DEF Restart, CutOff
  <2>3. ASSUME NEW c \in Call
        PROVE  /\ call'[c].intent = call[c].intent
               /\ \/ call'[c].pc = call[c].pc
                  \/ call'[c].pc = "cut" /\ call[c].pc # "answered"
    <3>1. call[c] \in CallState
      BY DEF InboundTypes
    <3>2. CASE call[c].pc \in Ended \cup {"new"}
      BY <2>2, <3>2
    <3>3. CASE call[c].pc \notin Ended \cup {"new"}
      BY <2>2, <3>1, <3>3 DEF CallState, Ended
    <3> QED
      BY <3>2, <3>3
  <2> QED
    BY <2>1, <2>3 DEF SosAsTold, Ended
<1> QED
  BY <1>2, <1>3, <1>4, <1>5, <1>6, <1>7, <1>8, <1>9, <1>10, <1>11 DEF WhatsAppNext

LEMMA LostStep ==
    ASSUME InboundTypes, LostAsTold, WhatsAppNext
    PROVE  LostAsTold'
<1>1. ASSUME NEW c \in Call, NEW x \in Content, Enter(c, x), call[c].pc = "new",
             UNCHANGED lists
      PROVE  LostAsTold'
  <2>1. PICK s \in CallState : /\ call' = [call EXCEPT ![c] = s]
                               /\ s.intent \in {call[c].intent, "info"}
    BY <1>1, EnterMoves
  <2>2. \A d \in Call : call'[d] = IF d = c THEN s ELSE call[d]
    BY <2>1 DEF InboundTypes
  <2>3. call[c].intent # "lost"
    BY <1>1 DEF LostAsTold, Ended
  <2> QED
    BY <1>1, <2>1, <2>2, <2>3, LostStays DEF lists
<1>2. ASSUME NEW m \in Message, Send(m) PROVE LostAsTold'
  <2>1. <<m, 1>> \in Call /\ UNCHANGED lists
    BY <1>2, DeliveriesAreCalls DEF Send
  <2>2. PICK x \in Content : Enter(<<m, 1>>, x)
    BY <1>2 DEF Send, Sendable
  <2> QED
    BY <1>1, <1>2, <2>1, <2>2 DEF Send
<1>3. ASSUME NEW m \in Message, NEW k \in 1..(Deliveries[m] - 1), Redeliver(m, k)
      PROVE  LostAsTold'
  <2>1. <<m, k + 1>> \in Call /\ sent[m] \in Content
    BY DeliveriesAreCalls DEF InboundTypes
  <2> QED
    BY <1>1, <1>3, <2>1 DEF Redeliver
<1>4. ASSUME NEW c \in Call, Limit(c) \/ FileSos(c) \/ Ask(c)
      PROVE  LostAsTold'
  <2>1. /\ call[c].intent # "lost"
        /\ call'[c].intent \in {call[c].intent, "sos_failed", "sos", "chat", "info"}
        /\ \A d \in Call \ {c} : call'[d] = call[d]
    BY <1>4, OneCallMoves DEF Limit, FileSos, Ask, LostAsTold, Ended
  <2>2. UNCHANGED lists
    BY <1>4 DEF Limit, FileSos, Ask
  <2> QED
    BY <2>1, <2>2, LostStays DEF lists
<1>5. ASSUME NEW c \in Call, WriteLost(c) PROVE LostAsTold'
  <2>1. /\ call[c].intent # "lost" /\ call'[c].intent = call[c].intent
        /\ \A d \in Call \ {c} : call'[d] = call[d]
    BY <1>5, OneCallMoves DEF WriteLost, LostAsTold, Ended
  <2>2. UNCHANGED <<reports, readBack>> /\ table' \subseteq table \cup {c}
    BY <1>5 DEF WriteLost
  <2> QED
    BY <2>1, <2>2 DEF LostAsTold
<1>6. ASSUME NEW c \in Call, AppendLost(c) PROVE LostAsTold'
  <2>1. /\ \A d \in Call \ {c} : call'[d] = call[d]
        /\ call'[c].pc = "replying"
        /\ UNCHANGED <<table, readBack>> /\ reports' = reports \cup {c}
    BY <1>6, OneCallMoves DEF AppendLost
  <2> QED
    BY <2>1 DEF LostAsTold
<1>7. ASSUME NEW c \in Call, Answer(c) PROVE LostAsTold'
  <2>1. /\ call'[c].pc = "answered" /\ call'[c].intent \in {call[c].intent, "none"}
        /\ \A d \in Call \ {c} : call'[d] = call[d]
    BY <1>7, OneCallMoves DEF Answer, InboundTypes
  <2>2. UNCHANGED lists
    BY <1>7 DEF Answer
  <2> QED
    BY <2>1, <2>2, LostStays DEF lists, Ended
<1>8. ASSUME NEW c \in Call, MarkFound(c) PROVE LostAsTold'
  BY <1>8, LostStays DEF MarkFound, inbound
<1>9. CASE WindowPasses
  BY <1>9, LostStays DEF WindowPasses, inbound, lists
<1>10. ASSUME NEW a \in AppSos, LimitApp(a) \/ FileApp(a) PROVE LostAsTold'
  BY <1>10, LostStays DEF LimitApp, FileApp, inbound, lists
<1>11. CASE Acquire \/ \E n \in sending : Release(n)
  BY <1>11, LostStays DEF Acquire, Release, inbound, lists
<1>12. CASE Restart
  <2>1. reports' = table /\ readBack' /\ UNCHANGED table
    BY <1>12 DEF Restart, CutOff
  <2>2. \A c \in Call : call'[c] = IF call[c].pc \in Ended \cup {"new"} THEN call[c]
                                   ELSE [call[c] EXCEPT !.pc = "cut"]
    BY <1>12 DEF Restart, CutOff
  <2>3. \A c \in Call : call'[c].intent = call[c].intent /\ call'[c].pc \in {call[c].pc, "cut"}
    BY <2>2 DEF InboundTypes, CallState
  <2> QED
    BY <2>1, <2>3 DEF LostAsTold, Ended
<1> QED
  BY <1>2, <1>3, <1>4, <1>5, <1>6, <1>7, <1>8, <1>9, <1>10, <1>11, <1>12
     DEF WhatsAppNext

LEMMA WhatsAppStep == WhatsAppInv /\ [WhatsAppNext]_whatsAppVars => WhatsAppInv'
<1>1. CASE WhatsAppNext
  BY <1>1, InboundTypesStep, OutboundStep, SosStep, LostStep DEF WhatsAppInv
<1>2. CASE UNCHANGED whatsAppVars
  BY <1>2 DEF whatsAppVars, WhatsAppInv, InboundTypes, OutboundTypes, NotesAreDue,
     SosAsTold, LostAsTold
<1> QED
  BY <1>1, <1>2

LEMMA WhatsAppTypesFollow == WhatsAppInv => WhatsAppTypeOK
BY DEF WhatsAppInv, InboundTypes, OutboundTypes, WhatsAppTypeOK, CallState

\* For any number of messages, deliveries, requests of the app, failed calls,
\* refused writes and restarts: an SOS that the pilgrim was told is received is
\* filed, one that could not be processed is not, and a person that was registered
\* is in the lists unless Postgres did not accept it and a restart has hit.
THEOREM ToldAndSo == WhatsAppSpec => []ToldIsSo
<1>1. WhatsAppInv => ToldIsSo
  BY WhatsAppTypesFollow DEF WhatsAppInv, InboundTypes, SosAsTold, LostAsTold, ToldIsSo
<1> QED
  BY <1>1, WhatsAppInitHolds, WhatsAppStep, PTL DEF WhatsAppSpec
=============================================================================
