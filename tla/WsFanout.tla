------------------------------ MODULE WsFanout -----------------------------
(* The WebSocket side of one API instance: the connections of ws_manager.py *)
(* in buckets by ghat, the three WebSocket routes, the fan-out of           *)
(* broadcasts of this instance and of those Redis brings from others, the   *)
(* heartbeat and the orphan pruner.  A step is what runs between two awaits;*)
(* no code awaits while it holds the manager's lock, which is therefore     *)
(* never contended and not modelled.                                        *)
EXTENDS Naturals, FiniteSets

CONSTANTS
    Client,     \* WebSocket objects, each one connection
    Ghat,       \* ghat ids with a bucket of their own
    Event,      \* broadcasts, each of one change to the lists
    Outside,    \* no bucket yet
    Left,       \* no bucket any more
    Max,        \* MAX_CONNECTIONS_PER_GHAT
    MaxFaults   \* bound on clients turning slow or vanishing

All == "all"   \* the bucket of unscoped clients; the target of none is NoGhat
NoGhat == "none"

\* The WebSocket routes, and the lists of records.
Route == {"volunteer", "public", "pilgrim"}
Kind == {"ghats", "sos_alerts", "others"}

\* The lists the INIT message of a route holds: /ws/volunteer all of them,
\* /ws/public the ghats, /ws/pilgrim its ghat and the active SOS.
Shown(r) ==
    CASE r = "volunteer" -> Kind
      [] r = "public"    -> {"ghats"}
      [] r = "pilgrim"   -> {"ghats", "sos_alerts"}

Bucket == Ghat \cup {All}

ASSUME MaxAssumption == Max \in Nat \ {0} /\ MaxFaults \in Nat
ASSUME NamesAssumption ==
    /\ IsFiniteSet(Client)
    /\ All \notin Ghat /\ NoGhat \notin Bucket /\ "ping" \notin Event
    /\ {Outside, Left} \cap Bucket = {} /\ Outside # Left

VARIABLES
    connections, \* _connections: the clients in each bucket
    wsToGhat,    \* _ws_to_ghat, with who has not come or has gone
    active,      \* _active
    handler,     \* the route that serves each client
    net,         \* what the connection is like
    flaky,       \* ghost: clients that were slow, vanished or closed
    db,          \* the changes made to the lists by now
    init,        \* what of them is in the INIT message of each client
    before,      \* ghost: the changes made when the client came
    got,         \* how often each client received each broadcast
    event,       \* where each broadcast stands
    target,      \* its ghat_id
    kind,        \* the list its record is in; one of a ghat has it as target
    origin,      \* the instance it comes from: this one or another
    echoes,      \* own publications that Redis will bring back
    job,         \* the sends under way, by what sends them and bucket
    faults

vars == <<connections, wsToGhat, active, handler, net, flaky, db, init, before,
          got, event, target, kind, origin, echoes, job, faults>>

members == <<connections, wsToGhat, active>>

\* One gather() over the sockets of a bucket, for a broadcast or a ping.
Job == (Event \cup {"ping"}) \X Bucket

NoJob == [pc |-> "idle", to |-> {}]


Init ==
    /\ connections = [b \in Bucket |-> {}]
    /\ wsToGhat = [c \in Client |-> Outside]
    /\ active = {}
    /\ handler = [c \in Client |-> "none"]
    /\ net = [c \in Client |-> "open"]
    /\ flaky = {}
    /\ db = {}
    /\ init = [c \in Client |-> {}]
    /\ before = [c \in Client |-> {}]
    /\ got = [c \in Client |-> [e \in Event |-> 0]]
    /\ event = [e \in Event |-> "new"]
    /\ target \in [Event -> Ghat \cup {NoGhat}]
    /\ kind \in [Event -> Kind]
    /\ \A e \in Event : kind[e] = "ghats" <=> target[e] \in Ghat
    /\ origin \in [Event -> {"here", "elsewhere"}]
    /\ echoes = {}
    /\ job = [j \in Job |-> NoJob]
    /\ faults = 0

----------------------------------------------------------------------------
(* Connections.                                                             *)

\* Mutant: the reverse map keeps the client.
RemovedButMapped(cs) ==
    /\ active' = active \ cs
    /\ wsToGhat' = wsToGhat
    /\ connections' = [b \in Bucket |-> connections[b] \ cs]

\* _prune(), and disconnect() for a single client: out of all three indexes.
Removed(cs) ==
    /\ active' = active \ cs
    /\ wsToGhat' = [c \in Client |->
         IF c \in cs /\ wsToGhat[c] \in Bucket THEN Left ELSE wsToGhat[c]]
    /\ connections' = [b \in Bucket |->
         connections[b] \ {c \in cs : wsToGhat[c] = b}]

\* Mutant: one client too many.
FullOffByOne(b) == Cardinality(connections[b]) > Max

Full(b) == Cardinality(connections[b]) >= Max

RoutesTo(b) == IF b = All THEN {"volunteer", "public"} ELSE {"pilgrim"}

\* What the route r sends a client of bucket b first.
InitMessage(r, b) ==
    {e \in db : kind[e] \in Shown(r) /\ (kind[e] = "ghats" => b \in {All, target[e]})}

\* Mutant: every route sends what /ws/public does.
GhatsMessage(r, b) ==
    {e \in db : kind[e] = "ghats" /\ b \in {All, target[e]}}

\* connect() after the handshake; the route goes on to take its INIT snapshot
\* without another await.
Connect(c, b) ==
    /\ handler[c] = "none"
    /\ net[c] = "open"
    /\ IF Full(b)
       THEN /\ wsToGhat' = [wsToGhat EXCEPT ![c] = Left]
            /\ handler' = [handler EXCEPT ![c] = "ended"]
            /\ UNCHANGED <<connections, active, init, before>>
       ELSE /\ connections' = [connections EXCEPT ![b] = @ \cup {c}]
            /\ wsToGhat' = [wsToGhat EXCEPT ![c] = b]
            /\ active' = active \cup {c}
            /\ before' = [before EXCEPT ![c] = db]
            /\ \E r \in RoutesTo(b) :
                /\ handler' = [handler EXCEPT ![c] = r]
                /\ init' = [init EXCEPT ![c] = InitMessage(r, b)]
    /\ UNCHANGED <<net, flaky, db, got, event, target, kind, origin, echoes, job, faults>>

\* The route sends the INIT message, then waits for what the client says.
Served(c) == handler[c] \in Route

\* The route is over, and with it what the client has been shown.
RouteEnds(c) ==
    /\ handler' = [handler EXCEPT ![c] = "ended"]
    /\ init' = [init EXCEPT ![c] = {}]
    /\ before' = [before EXCEPT ![c] = {}]

\* WebSocketDisconnect ends the route and unregisters the client.
Disconnect(c) ==
    /\ Served(c)
    /\ net[c] = "closed"
    /\ RouteEnds(c)
    /\ Removed({c})
    /\ UNCHANGED <<net, flaky, db, got, event, target, kind, origin, echoes, job, faults>>

\* Any other exception, as of the send of INIT or a receive on a socket that a
\* failed send has marked, ends it and does not.
HandlerFails(c) ==
    /\ Served(c)
    /\ net[c] = "closed"
    /\ RouteEnds(c)
    /\ UNCHANGED <<members, net, flaky, db, got, event, target, kind, origin, echoes, job,
                   faults>>

\* The client closes, or TCP gives up one that vanished.
Close(c) ==
    /\ Served(c) /\ net[c] # "closed"
    /\ net' = [net EXCEPT ![c] = "closed"]
    /\ flaky' = flaky \cup {c}
    /\ UNCHANGED <<members, handler, db, init, before, got, event, target, kind, origin, echoes, job, faults>>

\* It turns too slow for the send time-out, or vanishes without a FIN.  From
\* now on a send to it may fail or not, which covers that it gets well again.
Degrade(c) ==
    /\ Served(c) /\ net[c] = "open" /\ faults < MaxFaults
    /\ net' = [net EXCEPT ![c] = "poor"]
    /\ flaky' = flaky \cup {c}
    /\ faults' = faults + 1
    /\ UNCHANGED <<members, handler, db, init, before, got, event, target, kind, origin, echoes, job>>

----------------------------------------------------------------------------
(* Broadcasts.                                                              *)

\* The buckets _local_broadcast() sends to: for no ghat those that exist at the
\* call, for a ghat its own and that of the unscoped clients.
Addressed(e) ==
    CASE target[e] = NoGhat -> {b \in Bucket : connections[b] # {}}
      [] target[e] = All    -> {All}
      [] OTHER              -> {target[e], All}

\* The tasks of gather() are created; each looks at its bucket when it starts.
Started(s, buckets) ==
    job' = [j \in Job |-> IF j[1] = s /\ j[2] \in buckets
                          THEN [NoJob EXCEPT !.pc = "ready"] ELSE job[j]]

Running(s) == \E j \in Job : j[1] = s /\ job[j].pc # "idle"

\* A route changes the lists, then awaits the cache and the publication.
Store(e) ==
    /\ event[e] = "new" /\ origin[e] = "here"
    /\ db' = db \cup {e}
    /\ event' = [event EXCEPT ![e] = "publishing"]
    /\ UNCHANGED <<members, handler, net, flaky, init, before, got, target, kind, origin, echoes, job, faults>>

\* broadcast(): whether or not the publication reached Redis.
Broadcast(e) ==
    /\ event[e] = "publishing"
    /\ event' = [event EXCEPT ![e] = "sending"]
    /\ \E heard \in BOOLEAN : echoes' = IF heard THEN echoes \cup {e} ELSE echoes
    /\ Started(e, Addressed(e))
    /\ UNCHANGED <<members, handler, net, flaky, db, init, before, got, target, kind,
                   origin, faults>>

\* _subscriber_loop handles one message after the other.
SubscriberFree == \A e \in Event : origin[e] = "elsewhere" => event[e] # "sending"

\* Mutant: the echo is not recognised.
EchoSentAgain(e) ==
    /\ e \in echoes /\ SubscriberFree /\ event[e] = "done"
    /\ echoes' = echoes \ {e}
    /\ event' = [event EXCEPT ![e] = "sending"]
    /\ Started(e, Addressed(e))
    /\ UNCHANGED <<members, handler, net, flaky, db, init, before, got, target, kind,
                   origin, faults>>

\* _handle_pubsub_message() drops what carries this instance as its origin ...
Echo(e) ==
    /\ e \in echoes /\ SubscriberFree
    /\ echoes' = echoes \ {e}
    /\ UNCHANGED <<members, handler, net, flaky, db, init, before, got, event, target,
                   kind, origin, job, faults>>

\* Mutant: fan-out only, without the callback that keeps the lists in step.
ReceiveNoSync(e) ==
    /\ origin[e] = "elsewhere" /\ event[e] = "new" /\ SubscriberFree
    /\ db' = db
    /\ event' = [event EXCEPT ![e] = "sending"]
    /\ Started(e, Addressed(e))
    /\ UNCHANGED <<members, handler, net, flaky, init, before, got, target, kind, origin, echoes, faults>>

\* ... and for any other message calls sync_state, then fans out.
Receive(e) ==
    /\ origin[e] = "elsewhere" /\ event[e] = "new" /\ SubscriberFree
    /\ db' = db \cup {e}
    /\ event' = [event EXCEPT ![e] = "sending"]
    /\ Started(e, Addressed(e))
    /\ UNCHANGED <<members, handler, net, flaky, init, before, got, target, kind, origin, echoes, faults>>

Finish(e) ==
    /\ event[e] = "sending" /\ ~Running(e)
    /\ event' = [event EXCEPT ![e] = "done"]
    /\ UNCHANGED <<members, handler, net, flaky, db, init, before, got, target, kind,
                   origin, echoes, job, faults>>

----------------------------------------------------------------------------
(* _broadcast_to_bucket_text(), and the loops that ping.                    *)

Snapshot(j) ==
    /\ job[j].pc = "ready"
    /\ job' = [job EXCEPT ![j] =
         IF connections[j[2]] = {} THEN NoJob
         ELSE [pc |-> "sending", to |-> connections[j[2]]]]
    /\ UNCHANGED <<members, handler, net, flaky, db, init, before, got, event, target,
                   kind, origin, echoes, faults>>

\* Who a gather over clients finds dead: a send to an open client works, to a
\* poor one works, at least into a buffer, or times out, and to a closed one fails.
Failures(clients) == {dead \in SUBSET clients :
    \A c \in clients : (net[c] = "closed" => c \in dead) /\ (net[c] = "open" => c \notin dead)}

Delivered(j, dead) ==
    got' = [c \in Client |-> [e \in Event |->
        IF e = j[1] /\ c \in job[j].to \ dead
        THEN got[c][e] + 1 ELSE got[c][e]]]

\* Mutant: everyone who is in the bucket by now is dropped.
GatheredAll(j) ==
    /\ job[j].pc = "sending"
    /\ job' = [job EXCEPT ![j] = NoJob]
    /\ \E dead \in Failures(job[j].to) :
        /\ Delivered(j, dead)
        /\ Removed(IF dead = {} THEN {} ELSE connections[j[2]])
    /\ UNCHANGED <<handler, net, flaky, db, init, before, event, target, kind, origin, echoes, faults>>

\* Mutant: failures are counted and forgotten.
GatheredNoPrune(j) ==
    /\ job[j].pc = "sending"
    /\ job' = [job EXCEPT ![j] = NoJob]
    /\ \E dead \in Failures(job[j].to) : Delivered(j, dead)
    /\ UNCHANGED <<members, handler, net, flaky, db, init, before, event, target, kind,
                   origin, echoes, faults>>

\* All sends are over: whoever failed is pruned, whatever has connected or left
\* since the snapshot.
Gathered(j) ==
    /\ job[j].pc = "sending"
    /\ job' = [job EXCEPT ![j] = NoJob]
    /\ \E dead \in Failures(job[j].to) : Delivered(j, dead) /\ Removed(dead)
    /\ UNCHANGED <<handler, net, flaky, db, init, before, event, target, kind, origin, echoes, faults>>

\* heartbeat_loop or _ws_orphan_pruner_loop wakes up and pings every client of
\* every bucket.  The pruner awaits all buckets before it prunes, which is the
\* case that they end together; that both loops ping at once is left out, as a
\* ping beside a broadcast shows the same.
Ping ==
    /\ ~Running("ping")
    /\ active # {}
    /\ job' = [j \in Job |->
         IF j[1] = "ping" /\ connections[j[2]] # {}
         THEN [pc |-> "sending", to |-> connections[j[2]]] ELSE job[j]]
    /\ UNCHANGED <<members, handler, net, flaky, db, init, before, got, event, target,
                   kind, origin, echoes, faults>>

Next ==
    \/ \E c \in Client :
        \/ \E b \in Bucket : Connect(c, b)
        \/ Disconnect(c) \/ HandlerFails(c)
        \/ Close(c) \/ Degrade(c)
    \/ \E e \in Event : Store(e) \/ Broadcast(e) \/ Echo(e) \/ Receive(e) \/ Finish(e)
    \/ \E j \in Job : Snapshot(j) \/ Gathered(j)
    \/ Ping

\* The pinging loops go on and their sends end by their time-outs.  More holds
\* of the event loop, but no property needs it; nothing is assumed of clients.
Fairness ==
    /\ WF_vars(Ping)
    /\ \A b \in Bucket : WF_vars(Gathered(<<"ping", b>>))

Spec == Init /\ [][Next]_vars /\ Fairness

----------------------------------------------------------------------------
(* Properties.                                                              *)

\* The types of the variables; no bucket exceeds its cap.
TypeOK ==
    /\ connections \in [Bucket -> SUBSET Client]
    /\ \A b \in Bucket : Cardinality(connections[b]) <= Max
    /\ wsToGhat \in [Client -> Bucket \cup {Outside, Left}]
    /\ active \in SUBSET Client
    /\ handler \in [Client -> Route \cup {"none", "ended"}]
    /\ net \in [Client -> {"open", "poor", "closed"}]
    /\ flaky \in SUBSET Client
    /\ db \in SUBSET Event
    /\ init \in [Client -> SUBSET Event]
    /\ before \in [Client -> SUBSET Event]
    /\ got \in [Client -> [Event -> Nat]]
    /\ event \in [Event -> {"new", "publishing", "sending", "done"}]
    /\ target \in [Event -> Ghat \cup {NoGhat}]
    /\ kind \in [Event -> Kind]
    /\ origin \in [Event -> {"here", "elsewhere"}]
    /\ echoes \in SUBSET {e \in Event : origin[e] = "here"}
    /\ job \in [Job -> [pc : {"idle", "ready", "sending"}, to : SUBSET Client]]
    /\ faults \in 0..MaxFaults

\* Types; and connect(), disconnect() and the prunes of broadcasts, heartbeats and probes
\* that saw an older bucket keep _connections, _ws_to_ghat and _active in step.
IndexesAgree ==
    /\ TypeOK
    /\ \A b \in Bucket, c \in Client : c \in connections[b] <=> wsToGhat[c] = b
    /\ active = {c \in Client : wsToGhat[c] \in Bucket}

\* A prune drops no client that was well all the time: as long as its route
\* runs it stays registered.
HealthyStayRegistered ==
    \A c \in Client : Served(c) /\ c \notin flaky => c \in active

\* A client that was well all the time was sent every broadcast to its bucket or
\* has its record in its INIT message, although registration, snapshot and the
\* snapshots of the fan-out are taken at different moments.  It lacks only what
\* was stored before it came and is of a list that the INIT of its route leaves
\* out: nothing at /ws/volunteer, all but the ghats at /ws/public, and all but the
\* ghat and the SOS at /ws/pilgrim.
NothingMissed ==
    \A e \in Event, c \in Client :
        /\ event[e] = "done" /\ c \in active \ flaky
        /\ target[e] \in {NoGhat, wsToGhat[c]} \/ wsToGhat[c] = All
        => \/ got[c][e] > 0
           \/ e \in init[c]
           \/ e \in before[c] /\ kind[e] \notin Shown(handler[c])

\* No broadcast reaches a client twice: each is in one bucket, and the echo of
\* an own publication is dropped.
AtMostOnce == \A c \in Client, e \in Event : got[c][e] <= 1

\* A connection that is closed leaves the indexes in the end, also if its route
\* died of another exception than WebSocketDisconnect.
ClosedIsPruned == \A c \in Client : net[c] = "closed" ~> c \notin active

\* Membership of the buckets is that of bounded groups.
Groups == INSTANCE BoundedGroups
    WITH Client <- Client, Group <- Bucket, Max <- Max, Outside <- Outside,
         Left <- Left, group <- wsToGhat

ImplementsGroups == Groups!Spec
=============================================================================
