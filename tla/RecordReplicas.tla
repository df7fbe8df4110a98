--------------------------- MODULE RecordReplicas --------------------------
(* SOS alerts, issues and lost persons as the API instances keep them: each *)
(* instance has its own lists and id index in memory, writes through to     *)
(* Postgres, publishes every change on Redis pub/sub, and applies what the  *)
(* others publish (sync_state).  Creations also go to the stream that the   *)
(* db-writer upserts later.  A step is what an instance runs between two    *)
(* awaits; requests of one instance interleave at the awaits.               *)
EXTENDS Integers, Sequences, FiniteSets, SequencesExt

CONSTANTS
    Instance,      \* API replicas
    Request,       \* handlers: as many requests are in progress at once
    Volunteer,     \* volunteer ids
    Nobody,        \* assigned_volunteer = None
    NoRec,         \* no row, no object
    MaxRecords,    \* records are 1..MaxRecords, numbered by timestamp
    Kind,          \* the lists considered: of "sos", "issue" and "lost"
    MaxKinds,      \* bound on the lists that get records in one behaviour
    MaxOf,         \* bound on the records of each list
    ListMax,       \* HEAL_DB_LIST_MAX
    PruneTarget,   \* HEAL_DB_LIST_PRUNE
    HydrateLimit,  \* PG_HYDRATE_LIMIT
    MaxRequests,   \* bound on the requests of a behaviour
    MaxFaults      \* bound on failures, crashes and lost connections

Record == 1..MaxRecords

\* "open" stands for active, pending and missing; "closed" for resolved, found
\* and closed; "assigned" is written by assign_sos, to Postgres only.
Status == {"open", "assigned", "in_progress", "closed"}
Rec == [status : Status, vol : Volunteer \cup {Nobody}]

ASSUME KindAssumption == Kind \subseteq {"sos", "issue", "lost"}
ASSUME BoundsAssumption ==
    /\ MaxRecords \in Nat /\ ListMax \in Nat /\ PruneTarget \in 1..ListMax
    /\ HydrateLimit \in Nat /\ MaxRequests \in Nat /\ MaxKinds \in Nat /\ MaxFaults \in Nat
    /\ MaxOf \in [Kind -> Nat]
ASSUME NoRecAssumption == NoRec \notin Rec

VARIABLES
    pg,         \* the payload column of the three tables, by record
    stream,     \* creation events the db-writer has not applied yet
    up, sub,    \* instances that serve, and those whose subscription is live
    list,       \* DB["sos_alerts"] etc. of each instance, oldest append first
    index,      \* the ids in DB_BY_ID of each instance
    mem,        \* the dict object of a record in each instance
    inbox,      \* pub/sub messages on their way to each instance
    req,        \* the requests in progress
    kind,       \* the list a record belongs to, once it is created
    nextId,     \* the next record to be created
    begun,      \* requests so far
    faults,     \* failures so far
    disturbed,  \* ghost: records a fault or a concurrent update has touched
    unsaved     \* ghost: records whose row may lack something, or be overwritten

vars == <<pg, stream, up, sub, list, index, mem, inbox, req, kind, nextId, begun, faults, disturbed,
          unsaved>>

Op == {"create", "wa_lost", "assign", "resolve", "accept", "update"}

Idle == [pc |-> "idle", inst |-> Nobody, op |-> "create", id |-> 1,
         arg |-> [status |-> "open", vol |-> Nobody], data |-> NoRec]

Creates(op) == op \in {"create", "wa_lost"}

Listed(i) == UNION {ToSet(list[i][k]) : k \in Kind}

Active(q) == req[q].pc # "idle"

\* Nothing about record id is in progress or on its way.
Quiet(id) ==
    /\ \A q \in Request : Active(q) => req[q].id # id
    /\ \A i \in Instance : \A n \in 1..Len(inbox[i]) : inbox[i][n].id # id

Init ==
    /\ pg = [id \in Record |-> NoRec]
    /\ stream = [id \in Record |-> NoRec]
    /\ up = Instance
    /\ sub = Instance
    /\ list = [i \in Instance |-> [k \in Kind |-> << >>]]
    /\ index = [i \in Instance |-> {}]
    /\ mem = [i \in Instance |-> [id \in Record |-> NoRec]]
    /\ inbox = [i \in Instance |-> << >>]
    /\ req = [q \in Request |-> Idle]
    /\ kind = [id \in Record |-> Nobody]
    /\ nextId = 1
    /\ begun = 0
    /\ faults = 0
    /\ disturbed = {} /\ unsaved = {}

----------------------------------------------------------------------------
(* The request handlers.                                                    *)

\* What a handler writes, given the operation, its argument and the old value.
\* To Postgres (NULL arguments keep the column) ...
PgValue(op, arg, old) ==
    CASE Creates(op)     -> arg
      [] op = "assign"   -> [status |-> "assigned", vol |-> arg.vol]
      [] op = "accept"   -> [status |-> "in_progress", vol |-> arg.vol]
      [] op = "resolve"  -> [status |-> "closed",
                             vol |-> IF arg.vol = Nobody THEN old.vol ELSE arg.vol]
      [] op = "update"   -> [old EXCEPT !.status = arg.status]

\* Mutant: assign_sos sets in memory what it sets in Postgres.
MemValueAssigned(op, arg, old) == PgValue(op, arg, old)

\* ... and to the object in memory.
MemValue(op, arg, old) ==
    CASE Creates(op)     -> arg
      [] op = "assign"   -> [old EXCEPT !.vol = arg.vol]
      [] op = "accept"   -> [status |-> "in_progress", vol |-> arg.vol]
      [] op = "resolve"  -> [status |-> "closed",
                             vol |-> IF arg.vol = Nobody THEN old.vol ELSE arg.vol]
      [] op = "update"   -> [old EXCEPT !.status = arg.status]

\* The arguments a route passes: resolve_sos passes no volunteer to Postgres.
ArgsFor(op, k) ==
    CASE op = "create" /\ k # "lost" ->
            [status : {"open"}, vol : Volunteer \cup {Nobody}]
      [] Creates(op) /\ k = "lost" ->
            {[status |-> "open", vol |-> Nobody]}
      [] op = "assign" /\ k = "sos" -> [status : {"open"}, vol : Volunteer]
      [] op = "resolve" /\ k = "sos" -> {[status |-> "closed", vol |-> Nobody]}
      [] op \in {"accept", "resolve"} /\ k = "issue" ->
            [status : {"open"}, vol : Volunteer]
      [] op = "update" /\ k = "lost" ->
            [status : {"open", "closed"}, vol : {Nobody}]
      [] OTHER -> {}

Begin(q, i, op, id, arg) ==
    /\ begun < MaxRequests /\ begun' = begun + 1
    /\ req' = [req EXCEPT ![q] = [pc |-> "pg", inst |-> i, op |-> op, id |-> id,
                                  arg |-> arg, data |-> NoRec]]

\* create_sos_record, report_issue, register_lost and the WhatsApp _handle_lost
\* up to the await of the Postgres write.  A lost person the WhatsApp router
\* registers is never indexed at its origin, hence disturbed from the start.
StartCreate(q, i) ==
    /\ req[q].pc = "idle" /\ i \in up /\ nextId \in Record
    /\ \E op \in {"create", "wa_lost"}, k \in Kind :
          /\ op = "wa_lost" => k = "lost"
          /\ Cardinality({kind[id] : id \in 1..(nextId - 1)} \cup {k}) <= MaxKinds
          /\ Cardinality({id \in Record : kind[id] = k}) < MaxOf[k]
          /\ kind' = [kind EXCEPT ![nextId] = k]
          /\ \E arg \in ArgsFor(op, k) : Begin(q, i, op, nextId, arg)
          /\ disturbed' = IF op = "wa_lost" THEN disturbed \cup {nextId} ELSE disturbed
    /\ nextId' = nextId + 1
    /\ UNCHANGED <<pg, stream, up, sub, list, index, mem, inbox, faults, unsaved>>

\* resolve_sos, resolve_issue, accept_issue and update_lost go to Postgres
\* first; assign_sos answers 404 for an alert this instance does not know.  What
\* they write there a creation event that is still in the stream may overwrite.
StartUpdate(q, i) ==
    /\ req[q].pc = "idle" /\ i \in up
    /\ \E id \in 1..(nextId - 1), op \in {"assign", "resolve", "accept", "update"} :
          /\ op = "assign" => id \in index[i]
          /\ \E arg \in ArgsFor(op, kind[id]) : Begin(q, i, op, id, arg)
          /\ disturbed' = IF Quiet(id) THEN disturbed ELSE disturbed \cup {id}
          /\ unsaved' = IF stream[id] = NoRec THEN unsaved ELSE unsaved \cup {id}
    /\ UNCHANGED <<pg, stream, up, sub, list, index, mem, inbox, kind, nextId, faults>>

\* The statement commits (an UPDATE of a missing row changes nothing), or fails
\* and is only logged: the handler goes on either way.  No bound is put on the
\* failures: a statement that binds a time stamp as a string, or a volunteer that
\* has no row, is refused at every attempt.
PgStatement(q) ==
    LET r == req[q] IN
    /\ r.pc = "pg"
    /\ req' = [req EXCEPT ![q].pc = "resume"]
    /\ \/ /\ pg' = [pg EXCEPT ![r.id] =
                       IF Creates(r.op) \/ @ # NoRec THEN PgValue(r.op, r.arg, @) ELSE @]
          /\ UNCHANGED unsaved
       \/ /\ unsaved' = unsaved \cup {r.id}
          /\ UNCHANGED pg
    /\ UNCHANGED <<stream, up, sub, list, index, mem, inbox, kind, nextId, begun, faults, disturbed>>

\* The handler resumes and changes memory.  assign_sos holds on to the object it
\* looked up before the await; the others look it up now and may answer 404.
Mutate(q) ==
    LET r == req[q]
        i == r.inst
    IN
    /\ r.pc = "resume"
    /\ \/ /\ Creates(r.op)
          /\ list' = [list EXCEPT ![i][kind[r.id]] = Append(@, r.id)]
          /\ index' = IF r.op = "create"
                      THEN [index EXCEPT ![i] = @ \cup {r.id}] ELSE index
       \/ /\ ~ Creates(r.op)
          /\ r.op # "assign" => r.id \in index[i]
          /\ UNCHANGED <<list, index>>
    /\ mem' = [mem EXCEPT ![i][r.id] = MemValue(r.op, r.arg, @)]
    /\ req' = [req EXCEPT ![q].pc = "send"]
    /\ UNCHANGED <<pg, stream, up, sub, inbox, kind, nextId, begun, faults, disturbed, unsaved>>

\* 404 after the Postgres write.
NotFound(q) ==
    LET r == req[q] IN
    /\ r.pc = "resume" /\ ~ Creates(r.op) /\ r.op # "assign"
    /\ r.id \notin index[r.inst]
    /\ req' = [req EXCEPT ![q] = Idle]
    /\ UNCHANGED <<pg, stream, up, sub, list, index, mem, inbox, kind, nextId, begun, faults, disturbed, unsaved>>

\* After the cache invalidation publish() serialises the live object.
Send(q) ==
    LET r == req[q] IN
    /\ r.pc = "send"
    /\ req' = [req EXCEPT ![q].pc = "accept", ![q].data = mem[r.inst][r.id]]
    /\ UNCHANGED <<pg, stream, up, sub, list, index, mem, inbox, kind, nextId, begun, faults, disturbed, unsaved>>

\* Redis takes the publication and hands it to whoever is subscribed; an
\* instance that serves without a subscription never hears of it.  A failed
\* publication is swallowed.  Only creations have a stream event left to add.
Accept(q) ==
    LET r == req[q]
        to == sub \ {r.inst}
        m == [type |-> IF Creates(r.op) THEN "new" ELSE "update",
              id |-> r.id, data |-> r.data]
    IN
    /\ r.pc = "accept"
    /\ req' = [req EXCEPT ![q] = IF r.op = "create" THEN [r EXCEPT !.pc = "xadd"] ELSE Idle]
    /\ \/ /\ inbox' = [j \in Instance |->
                          IF j \in to THEN Append(inbox[j], m) ELSE inbox[j]]
          /\ disturbed' = IF up \ {r.inst} \subseteq sub
                          THEN disturbed ELSE disturbed \cup {r.id}
          /\ UNCHANGED faults
       \/ /\ faults < MaxFaults
          /\ faults' = faults + 1
          /\ disturbed' = disturbed \cup {r.id}
          /\ UNCHANGED inbox
    /\ UNCHANGED <<pg, stream, up, sub, list, index, mem, kind, nextId, begun, unsaved>>

\* stream_publish serialises the live object once more; its failure is
\* swallowed too, and costs only the second write to Postgres.
AddToStream(q) ==
    LET r == req[q] IN
    /\ r.pc = "xadd"
    /\ req' = [req EXCEPT ![q] = Idle]
    /\ \/ /\ stream' = [stream EXCEPT ![r.id] = mem[r.inst][r.id]]
          /\ UNCHANGED faults
       \/ /\ faults < MaxFaults
          /\ faults' = faults + 1
          /\ UNCHANGED stream
    /\ UNCHANGED <<pg, up, sub, list, index, mem, inbox, kind, nextId, begun, disturbed, unsaved>>

----------------------------------------------------------------------------
(* sync_state, run by the subscriber of an instance for the next message.   *)

\* Mutant: a creation is appended whether or not the id is known.
ApplyUnchecked(i, m) ==
    \/ /\ m.type = "new"
       /\ list' = [list EXCEPT ![i][kind[m.id]] = Append(@, m.id)]
       /\ index' = [index EXCEPT ![i] = @ \cup {m.id}]
       /\ mem' = [mem EXCEPT ![i][m.id] = m.data]
    \/ /\ m.type = "update"
       /\ mem' = IF m.id \in index[i]
                 THEN [mem EXCEPT ![i][m.id] = m.data] ELSE mem
       /\ UNCHANGED <<list, index>>

\* Mutant: an update is applied to the status only.
ApplyStatusOnly(i, m) ==
    \/ /\ m.type = "new" /\ m.id \notin index[i]
       /\ list' = [list EXCEPT ![i][kind[m.id]] = Append(@, m.id)]
       /\ index' = [index EXCEPT ![i] = @ \cup {m.id}]
       /\ mem' = [mem EXCEPT ![i][m.id] = m.data]
    \/ /\ m.type = "update" /\ m.id \in index[i]
       /\ mem' = [mem EXCEPT ![i][m.id].status = m.data.status]
       /\ UNCHANGED <<list, index>>
    \/ /\ m.type = "new" <=> m.id \in index[i]
       /\ UNCHANGED <<list, index, mem>>

Apply(i, m) ==
    \/ /\ m.type = "new" /\ m.id \notin index[i]
       /\ list' = [list EXCEPT ![i][kind[m.id]] = Append(@, m.id)]
       /\ index' = [index EXCEPT ![i] = @ \cup {m.id}]
       /\ mem' = [mem EXCEPT ![i][m.id] = m.data]
    \/ /\ m.type = "update" /\ m.id \in index[i]
       /\ mem' = [mem EXCEPT ![i][m.id] = m.data]
       /\ UNCHANGED <<list, index>>
    \/ /\ m.type = "new" <=> m.id \in index[i]
       /\ UNCHANGED <<list, index, mem>>

Deliver(i) ==
    /\ inbox[i] # << >>
    /\ Apply(i, Head(inbox[i]))
    /\ inbox' = [inbox EXCEPT ![i] = Tail(@)]
    /\ UNCHANGED <<pg, stream, up, sub, req, kind, nextId, begun, faults, disturbed, unsaved>>

----------------------------------------------------------------------------
(* Subscriptions, crashes, restarts, the db-writer and the bloat guardian.  *)

Subscribe(i) ==
    /\ i \in up \ sub
    /\ sub' = sub \cup {i}
    /\ UNCHANGED <<pg, stream, up, list, index, mem, inbox, req, kind, nextId, begun, faults, disturbed, unsaved>>

InFlight(i) == {inbox[i][n].id : n \in 1..Len(inbox[i])}

\* The pub/sub connection drops; nothing is replayed.
Disconnect(i) ==
    /\ i \in sub /\ faults < MaxFaults
    /\ faults' = faults + 1
    /\ sub' = sub \ {i}
    /\ inbox' = [inbox EXCEPT ![i] = << >>]
    /\ disturbed' = disturbed \cup InFlight(i)
    /\ UNCHANGED <<pg, stream, up, list, index, mem, req, kind, nextId, begun, unsaved>>

OfInstance(i) == {q \in Request : Active(q) /\ req[q].inst = i}

\* The container stops: memory, requests and subscription are gone.
Crash(i) ==
    /\ i \in up /\ faults < MaxFaults
    /\ faults' = faults + 1
    /\ up' = up \ {i}
    /\ sub' = sub \ {i}
    /\ list' = [list EXCEPT ![i] = [k \in Kind |-> << >>]]
    /\ index' = [index EXCEPT ![i] = {}]
    /\ mem' = [mem EXCEPT ![i] = [id \in Record |-> NoRec]]
    /\ inbox' = [inbox EXCEPT ![i] = << >>]
    /\ req' = [q \in Request |-> IF q \in OfInstance(i) THEN Idle
                                                       ELSE req[q]]
    /\ disturbed' = disturbed \cup {req[q].id : q \in OfInstance(i)}
    /\ UNCHANGED <<pg, stream, kind, nextId, begun, unsaved>>

\* load_db_from_postgres: the rows of a table, newest first, up to the limit.
Rows(k) == {id \in Record : pg[id] # NoRec /\ kind[id] = k}

\* The numbers in S by their rank.
Ascending(S) ==
    [n \in 1..Cardinality(S) |-> CHOOSE x \in S : Cardinality({y \in S : y < x}) = n - 1]

NewestFirst(S) == Reverse(Ascending(S))

Hydrated(k) ==
    LET rows == NewestFirst(Rows(k))
    IN  SubSeq(rows, 1, IF Len(rows) < HydrateLimit THEN Len(rows) ELSE HydrateLimit)

\* lifespan up to start_subscriber: hydrate and index.  Without Postgres the
\* lists stay as the sample data left them, which is none of these records.  What
\* the other instances know better than Postgres is disturbed from here on.
Boot(i) ==
    /\ i \notin up
    /\ up' = up \cup {i}
    /\ \/ LET l == [k \in Kind |-> Hydrated(k)]
              ids == UNION {ToSet(l[k]) : k \in Kind}
          IN  /\ list' = [list EXCEPT ![i] = l]
              /\ index' = [index EXCEPT ![i] = ids]
              /\ mem' = [mem EXCEPT ![i] =
                            [id \in Record |-> IF id \in ids THEN pg[id] ELSE NoRec]]
              /\ disturbed' = disturbed \cup unsaved \cup
                     {id \in Record : pg[id] # NoRec /\ (id \notin ids \/ pg[id].status = "assigned")}
              /\ UNCHANGED faults
       \/ /\ faults < MaxFaults
          /\ faults' = faults + 1
          /\ disturbed' = disturbed \cup (1..(nextId - 1))
          /\ UNCHANGED <<list, index, mem>>
    /\ UNCHANGED <<pg, stream, sub, inbox, req, kind, nextId, begun, unsaved>>

\* write_batch of the db-writer upserts a creation event, however late, and once
\* more as long as it is not acknowledged; or never, when the batch is refused.
WriterApply(id) ==
    /\ stream[id] # NoRec
    /\ pg' = [pg EXCEPT ![id] = stream[id]]
    /\ stream' \in {stream, [stream EXCEPT ![id] = NoRec]}
    /\ UNCHANGED <<up, sub, list, index, mem, inbox, req, kind, nextId, begun, faults, disturbed,
                   unsaved>>

\* What _db_bloat_guardian_loop keeps of list l of instance i: a suffix of the
\* open records, then a suffix of the closed ones in what room is left.
LastOf(s, n) == SubSeq(s, IF Len(s) > n THEN Len(s) - n + 1 ELSE 1, Len(s))

\* What list l has at the positions in P.
Picked(l, P) == [n \in 1..Cardinality(P) |-> l[Ascending(P)[n]]]

Pruned(i, l) ==
    LET closed == {n \in DOMAIN l : mem[i][l[n]].status = "closed"}
        keepActive == LastOf(Picked(l, DOMAIN l \ closed), PruneTarget)
    IN  IF Len(l) <= ListMax THEN l
        ELSE keepActive \o LastOf(Picked(l, closed), PruneTarget - Len(keepActive))

\* Mutant: no reindex hook is registered.
PruneNoReindex(i) ==
    LET l == [k \in Kind |-> Pruned(i, list[i][k])] IN
    /\ i \in up
    /\ \E k \in Kind : Len(list[i][k]) > ListMax
    /\ list' = [list EXCEPT ![i] = l]
    /\ disturbed' = disturbed \cup (Listed(i) \ UNION {ToSet(l[k]) : k \in Kind})
    /\ UNCHANGED <<pg, stream, up, sub, index, mem, inbox, req, kind, nextId, begun, faults,
                   unsaved>>

Prune(i) ==
    LET l == [k \in Kind |-> Pruned(i, list[i][k])]
        kept == UNION {ToSet(l[k]) : k \in Kind}
    IN
    /\ i \in up
    /\ \E k \in Kind : Len(list[i][k]) > ListMax
    /\ list' = [list EXCEPT ![i] = l]
    /\ index' = [index EXCEPT ![i] = kept]
    /\ disturbed' = disturbed \cup (Listed(i) \ kept)
    /\ UNCHANGED <<pg, stream, up, sub, mem, inbox, req, kind, nextId, begun, faults, unsaved>>

Next ==
    \/ \E q \in Request :
          \/ \E i \in Instance : StartCreate(q, i) \/ StartUpdate(q, i)
          \/ PgStatement(q) \/ Mutate(q) \/ NotFound(q)
          \/ Send(q) \/ Accept(q) \/ AddToStream(q)
    \/ \E i \in Instance :
          Deliver(i) \/ Subscribe(i) \/ Disconnect(i) \/ Crash(i) \/ Boot(i) \/ Prune(i)
    \/ \E id \in Record : WriterApply(id)

Spec == Init /\ [][Next]_vars

----------------------------------------------------------------------------
(* Properties.                                                              *)

\* Types, and nothing of a record before it is created or of a stopped instance.
TypeOK ==
    /\ pg \in [Record -> Rec \cup {NoRec}]
    /\ stream \in [Record -> Rec \cup {NoRec}]
    /\ up \subseteq Instance /\ sub \subseteq up
    /\ \A i \in Instance, k \in Kind :
          ToSet(list[i][k]) \subseteq {id \in 1..(nextId - 1) : kind[id] = k}
    /\ \A i \in Instance : index[i] \subseteq 1..(nextId - 1)
    /\ mem \in [Instance -> [Record -> Rec \cup {NoRec}]]
    /\ \A i \in Instance \ up :
          index[i] = {} /\ inbox[i] = << >> /\ Listed(i) = {}
    /\ \A q \in Request : Active(q) => req[q].inst \in up
    /\ \A id \in Record : kind[id] \in IF id < nextId THEN Kind ELSE {Nobody}
    /\ nextId \in 1..(MaxRecords + 1)
    /\ begun \in 0..MaxRequests
    /\ faults \in 0..MaxFaults

\* No record appears twice in a list of an instance, whether it was created
\* there, hydrated, received, or several of these.
NoDuplicateRecords ==
    \A i \in Instance, k \in Kind :
        \A a, b \in 1..Len(list[i][k]) : list[i][k][a] = list[i][k][b] => a = b

\* Types; and every indexed id is in a list, and a listed SOS or issue is indexed: a
\* lookup neither finds a record that was pruned nor misses one that is served.
\* (A lost person the WhatsApp router registered is listed and not indexed.)
IndexMatchesLists ==
    /\ TypeOK
    /\ \A i \in Instance :
        /\ index[i] \subseteq Listed(i)
        /\ \A id \in Listed(i) \ index[i] : kind[id] = "lost"
        /\ \A id \in Listed(i) : mem[i][id] # NoRec

Settled == {id \in 1..(nextId - 1) : Quiet(id) /\ id \notin disturbed}

\* Once no request and no message about a record is under way, all serving
\* instances have it or none has, and they agree on its status and volunteer,
\* whether or not Postgres took what they wrote, provided no fault hit it, its
\* updates did not overlap and no instance hydrated while Postgres had less.
SettledReplicasAgree ==
    \A id \in Settled, i, j \in up :
        /\ id \in index[i] <=> id \in index[j]
        /\ id \in index[i] => mem[i][id] = mem[j][id]

\* An undisturbed SOS alert that is closed on an instance stays closed there,
\* whatever assignment or late message follows, until the instance stops.
ClosedSosStaysClosed ==
    [][\A i \in Instance, id \in Record :
          /\ kind[id] = "sos" /\ id \notin disturbed' /\ i \in up /\ i \in up'
          /\ id \in index[i] /\ mem[i][id].status = "closed"
          => mem'[i][id].status = "closed"]_vars
=============================================================================
