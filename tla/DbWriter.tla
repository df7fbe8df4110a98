------------------------------ MODULE DbWriter -----------------------------
(* The db-writer process: it reads stream:events through a Redis consumer   *)
(* group, writes batches to Postgres in one transaction each, and           *)
(* acknowledges what was written.  Stream entries are numbered in order.    *)
(* The stream, the group and Postgres are external; the API side only adds  *)
(* entries.  A fault is a failed or unreported statement, a lost reply, a   *)
(* failed health check or a crash of the writer.  That Postgres refuses the *)
(* row of an entry, at this and every later attempt, is no fault but a      *)
(* matter of the entry: it fails the whole transaction of its batch.        *)
EXTENDS Naturals, FiniteSets

CONSTANTS
    Consumer,     \* the names CONSUMER_NAME takes over the containers' lives
    BatchSize,    \* BATCH_SIZE
    BufferMax,    \* BUFFER_MAX
    MaxAttempts,  \* _WRITE_MAX_ATTEMPTS
    MaxLen,       \* maxlen of XADD
    MaxEntries,   \* bound on the entries ever added
    MaxConnects,  \* bound on the connect() tasks alive at once
    MaxFaults     \* bound on the faults

ASSUME BatchAssumption == BatchSize \in Nat \ {0} /\ BufferMax \in Nat
ASSUME BufferAssumption == BatchSize <= BufferMax
ASSUME BoundsAssumption ==
    /\ MaxAttempts \in Nat \ {0} /\ MaxLen \in Nat
    /\ MaxEntries \in Nat /\ MaxFaults \in Nat
    /\ MaxConnects \in Nat \ {0}

VARIABLES
    added,      \* the number of entries added to the stream
    data,       \* those that become a row of their own (sos_alert, new_issue, ...)
    refused,    \* those of them whose row Postgres does not accept
    trimmed,    \* entries MAXLEN has removed from the stream
    last,       \* last-delivered-id of the group
    pel,        \* pending entries list of each consumer name
    me,         \* CONSUMER_NAME of the running process
    pc,         \* where its loop stands
    buffer,     \* the WriteBuffer
    batch,      \* the entries write_batch was given
    full,       \* those of the batch that came with their fields
    attempts,   \* attempts of the current write_batch
    available,  \* DBWriter.available
    connecting, \* connect() tasks in the background
    recorded,   \* times an entry was inserted, counted up to 2
    faults

vars == <<added, data, refused, trimmed, last, pel, me, pc, buffer, batch, full,
          attempts, available, connecting, recorded, faults>>

stream == <<added, data, refused, trimmed>>

Entry == 1..MaxEntries

\* "down": not running; "loop": top of the loop; "write"/"ack": after reading
\* new entries; "recover": before the pending check; "rewrite"/"reack": there.
PC == {"down", "loop", "write", "ack", "recover", "rewrite", "reack"}

\* The n lowest entries of S: what a read with COUNT n returns.
First(S, n) == {e \in S : Cardinality({d \in S : d < e}) < n}

Init ==
    /\ added = 0 /\ data = {} /\ refused = {} /\ trimmed = {}
    /\ last = 0
    /\ pel = [c \in Consumer |-> {}]
    /\ me \in Consumer
    /\ pc = "down"
    /\ buffer = {} /\ batch = {} /\ full = {}
    /\ attempts = 0
    /\ available = FALSE /\ connecting = 0
    /\ recorded = [e \in Entry |-> 0]
    /\ faults = 0

----------------------------------------------------------------------------
(* The stream (external).                                                   *)

\* stream_publish of an API instance.  Audit-only events (sos_resolved,
\* issue_resolved) have no row but the one in app_events; crowd_snapshot, which
\* no route publishes, has one that is accepted.  The rows of sos_alert, new_issue
\* and lost_person are refused: they bind a time stamp as a string, and that of
\* lost_person leaves a NOT NULL column out.
Add ==
    /\ added < MaxEntries
    /\ added' = added + 1
    /\ data' \in {data, data \cup {added + 1}}
    /\ refused' \in {refused, refused \cup (data' \ data)}
    /\ UNCHANGED <<trimmed, last, pel, me, pc, buffer, batch, full, attempts,
                   available, connecting, recorded, faults>>

\* MAXLEN removes the oldest entries, pending or not.
Trim ==
    /\ added - Cardinality(trimmed) > MaxLen
    /\ trimmed' = trimmed \cup First((1..added) \ trimmed, 1)
    /\ UNCHANGED <<added, data, refused, last, pel, me, pc, buffer, batch, full, attempts,
                   available, connecting, recorded, faults>>

----------------------------------------------------------------------------
(* The writer.                                                              *)

\* run() starts: connect() returns once Postgres answers.  A restarted container
\* keeps its hostname, a recreated one gets a new one.
Start(c) ==
    /\ pc = "down"
    /\ me' = c
    /\ pc' = "loop"
    /\ available' = TRUE
    /\ UNCHANGED <<stream, last, pel, buffer, batch, full, attempts, connecting,
                   recorded, faults>>

\* The health check, due every 30 seconds: ensure_connected() finds the pool
\* broken and starts a connect() in the background ...
HealthCheckFails ==
    /\ pc = "loop" /\ available /\ connecting < MaxConnects /\ faults < MaxFaults
    /\ faults' = faults + 1
    /\ available' = FALSE
    /\ connecting' = connecting + 1
    /\ UNCHANGED <<stream, last, pel, me, pc, buffer, batch, full, attempts, recorded>>

\* Mutant: the health check does nothing once the pool is marked as lost.
ReconnectNever ==
    /\ pc = "loop" /\ ~ available
    /\ UNCHANGED vars

\* ... or finds it already marked, and starts another one, also beside one that
\* is still trying.
Reconnect ==
    /\ pc = "loop" /\ ~ available /\ connecting < MaxConnects
    /\ connecting' = connecting + 1
    /\ UNCHANGED <<stream, last, pel, me, pc, buffer, batch, full, attempts,
                   available, recorded, faults>>

\* A background connect() gets its pool.
Connected ==
    /\ connecting > 0
    /\ available' = TRUE
    /\ connecting' = connecting - 1
    /\ UNCHANGED <<stream, last, pel, me, pc, buffer, batch, full, attempts,
                   recorded, faults>>

\* A background connect() fails and marks the pool as lost, even if another one
\* has just installed it; it goes on trying.
ConnectFails ==
    /\ connecting > 0 /\ faults < MaxFaults
    /\ faults' = faults + 1
    /\ available' = FALSE
    /\ UNCHANGED <<stream, last, pel, me, pc, buffer, batch, full, attempts,
                   connecting, recorded>>

New == First({e \in 1..added : e > last /\ e \notin trimmed}, BatchSize)

\* The group's position moves to the newest entry it handed out.
Advance ==
    \/ New = {} /\ last' = last
    \/ \E e \in New : (\A d \in New : d <= e) /\ last' = e

Drained(S) == First(S, BatchSize)

\* Mutant: the group reads with NOACK.
ReadNewNoAck ==
    /\ pc = "loop"
    /\ LET held == buffer \cup First(New, BufferMax - Cardinality(buffer)) IN
       /\ batch' = Drained(held)
       /\ full' = Drained(held)
       /\ buffer' = held \ Drained(held)
       /\ pc' = IF held = {} THEN "recover" ELSE "write"
    /\ Advance
    /\ attempts' = 0
    /\ UNCHANGED <<stream, pel, me, available, connecting, recorded, faults>>

\* Mutant: the group's position does not advance.
ReadNewNoAdvance ==
    /\ pc = "loop"
    /\ LET held == buffer \cup First(New, BufferMax - Cardinality(buffer)) IN
       /\ batch' = Drained(held)
       /\ full' = Drained(held)
       /\ buffer' = held \ Drained(held)
       /\ pc' = IF held = {} THEN "recover" ELSE "write"
    /\ pel' = [pel EXCEPT ![me] = @ \cup New]
    /\ attempts' = 0
    /\ UNCHANGED <<stream, last, me, available, connecting, recorded, faults>>

\* XREADGROUP ">": the group hands the new entries to this consumer, the loop
\* puts them into the buffer and drains a batch from it.
ReadNew ==
    /\ pc = "loop"
    /\ LET held == buffer \cup First(New, BufferMax - Cardinality(buffer)) IN
       /\ batch' = Drained(held)
       /\ full' = Drained(held)
       /\ buffer' = held \ Drained(held)
       /\ pc' = IF held = {} THEN "recover" ELSE "write"
    /\ pel' = [pel EXCEPT ![me] = @ \cup New]
    /\ Advance
    /\ attempts' = 0
    /\ UNCHANGED <<stream, me, available, connecting, recorded, faults>>

\* The reply is lost: the entries are pending, and nobody holds them.
ReadLost ==
    /\ pc = "loop" /\ faults < MaxFaults /\ New # {}
    /\ faults' = faults + 1
    /\ pel' = [pel EXCEPT ![me] = @ \cup New]
    /\ Advance
    /\ UNCHANGED <<stream, me, pc, buffer, batch, full, attempts, available,
                   connecting, recorded>>

Writing == pc \in {"write", "rewrite"}

\* write_batch looks at the pool once, before its first attempt.
NoPool == Writing /\ attempts = 0 /\ ~ available
Attempting == Writing /\ (attempts > 0 \/ available)

AfterWrite == IF pc = "write" THEN "recover" ELSE "loop"
AckPlace == IF pc = "write" THEN "ack" ELSE "reack"

\* "written" counts the rows of the four tables; audit-only entries and entries
\* whose fields are gone count for nothing.
Written == full \cap data

Recorded == [e \in Entry |->
    IF e \in full /\ recorded[e] < 2 THEN recorded[e] + 1 ELSE recorded[e]]

\* Mutant: the batch is acknowledged whatever write_batch returned.
WriteUnavailableAcked ==
    /\ NoPool
    /\ pc' = AckPlace
    /\ UNCHANGED <<stream, last, pel, me, buffer, batch, full, attempts, available,
                   connecting, recorded, faults>>

\* write_batch with no pool returns 0 at once.
WriteUnavailable ==
    /\ NoPool
    /\ pc' = AfterWrite
    /\ batch' = {} /\ full' = {}
    /\ UNCHANGED <<stream, last, pel, me, buffer, attempts, available, connecting,
                   recorded, faults>>

Acceptable == full \cap refused = {}

\* The transaction commits; run() acknowledges only if written > 0.
WriteCommit ==
    /\ Attempting /\ Acceptable
    /\ recorded' = Recorded
    /\ \/ /\ Written # {}
          /\ pc' = AckPlace
          /\ UNCHANGED <<batch, full>>
       \/ /\ Written = {}
          /\ pc' = AfterWrite
          /\ batch' = {} /\ full' = {}
    /\ UNCHANGED <<stream, last, pel, me, buffer, attempts, available, connecting, faults>>

\* Mutant: there is no last attempt.
RetryForever ==
    /\ attempts' = 1
    /\ UNCHANGED <<pc, batch, full, available>>

\* After the last attempt the batch is given up and the pool is marked for rebuilding.
RetryOrGiveUp ==
    /\ attempts' = attempts + 1
    /\ \/ /\ attempts + 1 < MaxAttempts
          /\ UNCHANGED <<pc, batch, full, available>>
       \/ /\ attempts + 1 >= MaxAttempts
          /\ available' = FALSE
          /\ pc' = AfterWrite
          /\ batch' = {} /\ full' = {}

\* A row of the batch is refused, and the transaction is rolled back.
WriteRefused ==
    /\ Attempting /\ ~ Acceptable
    /\ RetryOrGiveUp
    /\ UNCHANGED <<stream, last, pel, me, buffer, connecting, recorded, faults>>

\* An attempt raises for another reason, with its commit or without.
WriteFail ==
    /\ Attempting /\ faults < MaxFaults
    /\ faults' = faults + 1
    /\ recorded' = recorded \/ (Acceptable /\ recorded' = Recorded)
    /\ RetryOrGiveUp
    /\ UNCHANGED <<stream, last, pel, me, buffer, connecting>>

\* XACK of the whole batch.
Ack ==
    /\ pc \in {"ack", "reack"}
    /\ pel' = [pel EXCEPT ![me] = @ \ batch]
    /\ pc' = IF pc = "ack" THEN "recover" ELSE "loop"
    /\ batch' = {} /\ full' = {}
    /\ UNCHANGED <<stream, last, me, buffer, attempts, available, connecting,
                   recorded, faults>>

\* XACK raises, with or without effect: the loop logs it and starts over.
AckFail ==
    /\ pc \in {"ack", "reack"} /\ faults < MaxFaults
    /\ faults' = faults + 1
    /\ pel' \in {pel, [pel EXCEPT ![me] = @ \ batch]}
    /\ pc' = "loop"
    /\ batch' = {} /\ full' = {}
    /\ UNCHANGED <<stream, last, me, buffer, attempts, available, connecting, recorded>>

\* Not the minute's recovery window, or nothing pending.
SkipRecovery ==
    /\ pc = "recover"
    /\ pc' = "loop"
    /\ UNCHANGED <<stream, last, pel, me, buffer, batch, full, attempts, available,
                   connecting, recorded, faults>>

\* XREADGROUP "0": the first pending entries of this consumer; an entry that
\* was trimmed comes back without its fields.
Recover ==
    /\ pc = "recover" /\ pel[me] # {}
    /\ batch' = First(pel[me], BatchSize)
    /\ full' = First(pel[me], BatchSize) \ trimmed
    /\ attempts' = 0
    /\ pc' = "rewrite"
    /\ UNCHANGED <<stream, last, pel, me, buffer, available, connecting, recorded, faults>>

\* The process dies, or a signal ends it.
Crash ==
    /\ pc # "down" /\ faults < MaxFaults
    /\ faults' = faults + 1
    /\ pc' = "down"
    /\ buffer' = {} /\ batch' = {} /\ full' = {}
    /\ available' = FALSE /\ connecting' = 0
    /\ UNCHANGED <<stream, last, pel, me, attempts, recorded>>

Writer ==
    \/ HealthCheckFails \/ Reconnect \/ Connected \/ ConnectFails \/ ReadNew \/ ReadLost
    \/ WriteUnavailable \/ WriteCommit \/ WriteRefused \/ WriteFail
    \/ Ack \/ AckFail \/ SkipRecovery \/ Recover

Next ==
    \/ Add \/ Trim
    \/ \E c \in Consumer : Start(c)
    \/ Writer
    \/ Crash

\* The process is restarted when it dies and its loop goes on; the health check
\* and the recovery window come round again and again although other iterations
\* of the loop pass them by, hence strong fairness.
Fairness ==
    /\ WF_vars(\E c \in Consumer : Start(c))
    /\ WF_vars(ReadNew) /\ WF_vars(WriteUnavailable)
    /\ WF_vars(WriteCommit) /\ WF_vars(WriteRefused)
    /\ WF_vars(Ack) /\ WF_vars(SkipRecovery) /\ WF_vars(Connected)
    /\ SF_vars(Reconnect) /\ SF_vars(Recover)

Spec == Init /\ [][Next]_vars

FairSpec == Spec /\ Fairness

----------------------------------------------------------------------------
(* Properties.                                                              *)

TypeOK ==
    /\ added \in 0..MaxEntries
    /\ data \subseteq Entry /\ refused \subseteq data /\ trimmed \subseteq Entry
    /\ last \in 0..added
    /\ pel \in [Consumer -> SUBSET (1..last)]
    /\ me \in Consumer
    /\ pc \in PC
    /\ buffer \subseteq Entry /\ batch \subseteq Entry /\ full \subseteq batch
    /\ attempts \in Nat
    /\ available \in BOOLEAN /\ connecting \in Nat
    /\ recorded \in [Entry -> 0..2]
    /\ faults \in 0..MaxFaults

Pending(e) == \E c \in Consumer : e \in pel[c]

\* An entry the group has delivered is in Postgres, or still pending under some
\* consumer name, unless the stream was trimmed under it: no crash, lost reply
\* or abandoned batch makes the group forget an event that was never written.
NoSilentLoss ==
    \A e \in 1..last : recorded[e] > 0 \/ Pending(e) \/ e \in trimmed

\* What the process holds in memory is pending under its own name, so that its
\* next life finds it again; and the buffer keeps nothing from one turn of the
\* loop to the next, so its bound never makes it drop an entry.
HeldIsPending ==
    /\ buffer = {}
    /\ batch \subseteq pel[me]

\* Recovery never looks beyond the first BatchSize pending entries, and what stands
\* there stays there for good: one of them is refused, and fails the batch of all, or
\* they are audit-only or trimmed, and never acknowledged, and e is not among them.
HeadBlocked(e) ==
    LET head == First(pel[me], BatchSize)
        kept == head \ trimmed
    IN  kept \cap refused # {} \/ (e \notin head /\ kept \cap data = {})

\* An event Postgres accepts, the audit-only ones among them, that is pending for the
\* running writer is written in the end, after whatever failures, unless it is trimmed,
\* the writer changes its name, or the head of its pending list is blocked for good.
PendingIsWritten ==
    \A e \in Entry :
        e \in pel[me] \ refused ~>
            recorded[e] > 0 \/ e \in trimmed \/ e \notin pel[me] \/ []HeadBlocked(e)

\* A batch that fails at every attempt holds up recovery but not the reading: every
\* entry of the stream is handed to the writer in the end, or trimmed before.
EveryEntryIsRead == \A e \in Entry : e <= added ~> e <= last \/ e \in trimmed
=============================================================================
