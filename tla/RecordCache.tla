---------------------------- MODULE RecordCache ----------------------------
(* One list of records (SOS alerts, issues or lost persons) as GET routes   *)
(* read it: cached_read_pg() of pg_store.py with its stampede lock, the     *)
(* query behind it, and what the routes that change records do to the cache *)
(* entry.  A list is the set of changes it shows.  A step is one call of    *)
(* Redis or Postgres, or what an instance runs between two of them.         *)
EXTENDS Integers, FiniteSets

CONSTANTS
    Instance,   \* API replicas
    Reader,     \* GET requests, each used once
    Change,     \* requests that change the list, each used once
    Kinds,      \* lists considered, of "sos", "issue" and "lost"
    Nobody,
    Nothing,    \* no cache entry
    TTL,        \* ttl of cached_read_pg, in ticks
    WarmTTL,    \* ttl with which the lost-person routes fill the entry
    LockTTL,    \* _LOCK_TTL_MS
    LockWait,   \* _LOCK_TIMEOUT
    MaxLag,     \* longest time from a query, or a commit, to its last effect
    MaxFaults   \* bound on outages of Redis and Postgres and lost messages

ASSUME TimesAssumption ==
    /\ TTL \in Nat \ {0} /\ WarmTTL \in Nat /\ TTL <= WarmTTL /\ LockTTL \in Nat \ {0}
    /\ LockWait \in Nat /\ MaxLag \in Nat /\ MaxFaults \in Nat
ASSUME KindsAssumption == Kinds \subseteq {"sos", "issue", "lost"}
ASSUME ReaderAssumption == IsFiniteSet(Reader)
ASSUME NobodyAssumption == Nobody \notin Instance

VARIABLES
    kind,     \* the list of this behaviour
    pg,       \* changes in Postgres
    pgUp,
    redis,    \* "up"; "open": circuits are open, only raw calls go out; "down"
    mem,      \* changes in the memory of each instance
    cache,    \* the entry of the list
    lock,     \* ticks until lock:stampede:<key> expires, 0 if there is none
    read,     \* the GET requests
    write,    \* the requests that change the list
    inbox,    \* changes published and not applied yet, for each instance
    since,    \* ghost: ticks since each change was committed
    overruns, \* ghost: locks that expired under their holder
    late,     \* ghost: changes whose invalidation met a reader with older data
    missed,   \* ghost: changes some instance never hears of
    faults

vars == <<kind, pg, pgUp, redis, mem, cache, lock, read, write, inbox, since,
          overruns, late, missed, faults>>

data == <<pg, mem, write, inbox, since, late, missed>>

\* The longest time a cached list may lack a committed change.
Bound == IF kind = "lost" THEN 2 * MaxLag + WarmTTL ELSE MaxLag + TTL

List == [val : SUBSET Change, outage : BOOLEAN]

Unread == [pc |-> "idle", inst |-> Nobody, got |-> [val |-> {}, outage |-> FALSE],
           left |-> 0, age |-> 0]

Unwritten == [pc |-> "idle", inst |-> Nobody, snap |-> {}, age |-> 0]

Init ==
    /\ kind \in Kinds
    /\ pg = {}
    /\ pgUp = TRUE
    /\ redis = "up"
    /\ mem = [i \in Instance |-> {}]
    /\ cache = Nothing
    /\ lock = 0
    /\ read = [r \in Reader |-> Unread]
    /\ write = [c \in Change |-> Unwritten]
    /\ inbox = [i \in Instance |-> {}]
    /\ since = [c \in Change |-> 0]
    /\ overruns = 0
    /\ late = {}
    /\ missed = {}
    /\ faults = 0

----------------------------------------------------------------------------
(* cached_read_pg().                                                        *)

\* cache_get() of _safe: an entry, unless Redis or the circuit is in the way.
Hit == redis = "up" /\ cache # Nothing

At(r, pc) == read' = [read EXCEPT ![r].pc = pc]

\* The answer; later only that of a failed query is looked at.
Answer(r, got) ==
    read' = [read EXCEPT ![r] = [Unread EXCEPT !.pc = "done", !.inst = read[r].inst,
                                               !.got.outage = got.outage]]

Cached == [val |-> cache.val, outage |-> cache.outage]

Get(r) ==
    /\ read[r].pc = "idle"
    /\ IF Hit THEN Answer(r, Cached) ELSE At(r, "lock")
    /\ UNCHANGED <<kind, pgUp, redis, cache, lock, data, overruns, faults>>

\* Mutant: SET without NX.
LockAlways(r) ==
    /\ read[r].pc = "lock"
    /\ redis # "down"
    /\ lock' = LockTTL /\ At(r, "check")
    /\ UNCHANGED <<kind, pgUp, redis, cache, data, overruns, faults>>

\* _acquire_stampede_lock(): SET NX PX.
Lock(r) ==
    /\ read[r].pc = "lock"
    /\ redis # "down"
    /\ IF lock = 0
       THEN lock' = LockTTL /\ At(r, "check")
       ELSE read' = [read EXCEPT ![r].pc = "spin", ![r].left = LockWait] /\ UNCHANGED lock
    /\ UNCHANGED <<kind, pgUp, redis, cache, data, overruns, faults>>

\* It is the one call that nothing catches: get_redis() never raises, so the
\* fall-through to Postgres behind it is dead code.  GET /get_sos_alerts answers
\* from memory, /lost and /get_issues with an error.
LockRaises(r) ==
    /\ read[r].pc = "lock"
    /\ redis = "down"
    /\ IF kind = "sos"
       THEN \E i \in Instance : Answer(r, [val |-> mem[i], outage |-> FALSE])
       ELSE read' = [read EXCEPT ![r] = [Unread EXCEPT !.pc = "error"]]
    /\ UNCHANGED <<kind, pgUp, redis, cache, lock, data, overruns, faults>>

DoubleCheck(r) ==
    /\ read[r].pc = "check"
    /\ IF Hit THEN read' = [read EXCEPT ![r].pc = "release", ![r].got = Cached]
              ELSE At(r, "query")
    /\ UNCHANGED <<kind, pgUp, redis, cache, lock, data, overruns, faults>>

\* fetch_sos_alerts() etc. catch every exception themselves and return an empty
\* list, so that the routes' own fallback to memory never runs.
Rows == IF pgUp THEN [val |-> pg, outage |-> FALSE] ELSE [val |-> {}, outage |-> TRUE]

\* Which instance serves the request matters only if the query fails.
Servers == IF pgUp THEN {Nobody} ELSE Instance

Query(r) ==
    /\ read[r].pc = "query"
    /\ \E i \in Servers :
        read' = [read EXCEPT ![r].pc = "set", ![r].got = Rows, ![r].inst = i]
    /\ UNCHANGED <<kind, pgUp, redis, cache, lock, data, overruns, faults>>

Entry(list, ttl) == [val |-> list.val, outage |-> list.outage, ttl |-> ttl]

\* Mutant: the ttl of the static lists.
FillLong(r) ==
    /\ read[r].pc = "set"
    /\ cache' = IF redis = "up" THEN Entry(read[r].got, WarmTTL + 2) ELSE cache
    /\ At(r, "release")
    /\ UNCHANGED <<kind, pgUp, redis, lock, data, overruns, faults>>

Fill(r) ==
    /\ read[r].pc = "set"
    /\ cache' = IF redis = "up" THEN Entry(read[r].got, TTL) ELSE cache
    /\ At(r, "release")
    /\ UNCHANGED <<kind, pgUp, redis, lock, data, overruns, faults>>

\* _release_stampede_lock(): whoever's lock it is by now.
Release(r) ==
    /\ read[r].pc = "release"
    /\ lock' = IF redis = "down" THEN lock ELSE 0
    /\ Answer(r, read[r].got)
    /\ UNCHANGED <<kind, pgUp, redis, cache, data, overruns, faults>>

\* The spinning reader finds the entry, or gives up and queries on its own.
Poll(r) ==
    /\ read[r].pc = "spin"
    /\ \/ Hit /\ Answer(r, Cached)
       \/ read[r].left = 0 /\ At(r, "direct")
    /\ UNCHANGED <<kind, pgUp, redis, cache, lock, data, overruns, faults>>

QueryDirectly(r) ==
    /\ read[r].pc = "direct"
    /\ \E i \in Servers :
        read' = [read EXCEPT ![r] = [Unread EXCEPT !.pc = "done", !.inst = i,
                                                   !.got.outage = ~pgUp]]
    /\ UNCHANGED <<kind, pgUp, redis, cache, lock, data, overruns, faults>>

----------------------------------------------------------------------------
(* A route that changes the list.                                           *)

\* The write-through statement; its failure is logged and ignored.
Commit(c, i) ==
    /\ write[c].pc = "idle"
    /\ pg' = IF pgUp THEN pg \cup {c} ELSE pg
    /\ write' = [write EXCEPT ![c] = [Unwritten EXCEPT !.pc = "apply", !.inst = i]]
    /\ UNCHANGED <<kind, pgUp, redis, mem, cache, lock, read, inbox, since, overruns,
                   late, missed, faults>>

\* Memory, then at once the arguments of the first call of Redis.
Apply(c) ==
    LET i == write[c].inst IN
    /\ write[c].pc = "apply"
    /\ mem' = [mem EXCEPT ![i] = @ \cup {c}]
    /\ write' = [write EXCEPT ![c].pc = "cache", ![c].snap = mem'[i]]
    /\ UNCHANGED <<kind, pg, pgUp, redis, cache, lock, read, inbox, since, overruns,
                   late, missed, faults>>

\* Readers that would put back a list without c.
Outdated(c) == {r \in Reader :
    read[r].pc = "set" /\ c \notin read[r].got.val /\ ~read[r].got.outage}

\* Mutant: SOS and issue routes do not delete the key.
TouchCacheNever(c) ==
    /\ write[c].pc = "cache"
    /\ write' = [write EXCEPT ![c].pc = "publish", ![c].snap = {}]
    /\ UNCHANGED <<kind, pg, pgUp, redis, mem, cache, lock, read, inbox, since,
                   overruns, late, missed, faults>>

\* _broadcast_event deletes the entry; the lost-person routes overwrite it with
\* the memory of their instance, which may lack the others' latest changes.
TouchCache(c) ==
    /\ write[c].pc = "cache"
    /\ write' = [write EXCEPT ![c].pc = "publish", ![c].snap = {}]
    /\ cache' = IF redis # "up" THEN cache
                ELSE IF kind = "lost"
                     THEN Entry([val |-> write[c].snap, outage |-> FALSE], WarmTTL)
                     ELSE Nothing
    /\ late' = IF redis # "up" \/ kind = "lost" \/ Outdated(c) # {} THEN late \cup {c} ELSE late
    /\ UNCHANGED <<kind, pg, pgUp, redis, mem, lock, read, inbox, since, overruns,
                   missed, faults>>

Publish(c) ==
    LET others == {i \in Instance : i # write[c].inst} IN
    /\ write[c].pc = "publish"
    /\ write' = [write EXCEPT ![c].pc = "sent", ![c].inst = Nobody]
    /\ IF redis = "up"
       THEN /\ inbox' = [i \in Instance |-> IF i \in others THEN inbox[i] \cup {c} ELSE inbox[i]]
            /\ UNCHANGED missed
       ELSE /\ missed' = missed \cup {c}
            /\ UNCHANGED inbox
    /\ UNCHANGED <<kind, pg, pgUp, redis, mem, cache, lock, read, since, overruns,
                   late, faults>>

\* sync_state
Deliver(i, c) ==
    /\ c \in inbox[i]
    /\ inbox' = [inbox EXCEPT ![i] = @ \ {c}]
    /\ mem' = [mem EXCEPT ![i] = @ \cup {c}]
    /\ UNCHANGED <<kind, pg, pgUp, redis, cache, lock, read, write, since, overruns,
                   late, missed, faults>>

----------------------------------------------------------------------------
(* Faults and time.                                                         *)

PgFails ==
    /\ pgUp /\ faults < MaxFaults
    /\ pgUp' = FALSE /\ faults' = faults + 1
    /\ UNCHANGED <<kind, redis, cache, lock, read, data, overruns>>

PgRecovers ==
    /\ ~pgUp /\ pgUp' = TRUE
    /\ UNCHANGED <<kind, redis, cache, lock, read, data, overruns, faults>>

RedisFails ==
    /\ redis = "up" /\ faults < MaxFaults
    /\ redis' \in {"open", "down"} /\ faults' = faults + 1
    /\ UNCHANGED <<kind, pgUp, cache, lock, read, data, overruns>>

RedisRecovers ==
    /\ redis # "up" /\ redis' = "up"
    /\ UNCHANGED <<kind, pgUp, cache, lock, read, data, overruns, faults>>

LoseMessage(i, c) ==
    /\ c \in inbox[i] /\ faults < MaxFaults
    /\ inbox' = [inbox EXCEPT ![i] = @ \ {c}]
    /\ missed' = missed \cup {c}
    /\ faults' = faults + 1
    /\ UNCHANGED <<kind, pg, pgUp, redis, mem, cache, lock, read, write, since,
                   overruns, late>>

Loaders == {r \in Reader : read[r].pc \in {"check", "query", "set", "release"}}

Less(n) == IF n = 0 THEN 0 ELSE n - 1

Spreading(c) == write[c].pc \in {"apply", "cache", "publish"} \/ \E i \in Instance : c \in inbox[i]

\* Time stops for what is as late as it can be.  A reader about to fill the
\* cache ages from its query on, a change from its commit on.
Tick ==
    /\ \A r \in Reader : read[r].pc = "set" => read[r].age < MaxLag
    /\ \A c \in Change : Spreading(c) => write[c].age < MaxLag
    /\ cache' = IF cache = Nothing THEN Nothing
                ELSE IF cache.ttl = 1 THEN Nothing ELSE [cache EXCEPT !.ttl = @ - 1]
    /\ lock' = Less(lock)
    /\ overruns' = IF lock = 1 /\ Loaders # {} /\ overruns < Cardinality(Reader)
                   THEN overruns + 1 ELSE overruns
    /\ read' = [r \in Reader |->
         [read[r] EXCEPT !.left = Less(@), !.age = IF read[r].pc = "set" THEN @ + 1 ELSE 0]]
    /\ write' = [c \in Change |->
         [write[c] EXCEPT !.age = IF Spreading(c) THEN @ + 1 ELSE 0]]
    /\ since' = [c \in Change |->
         IF c \in pg /\ since[c] <= Bound THEN since[c] + 1 ELSE since[c]]
    /\ UNCHANGED <<kind, pg, pgUp, redis, mem, inbox, late, missed, faults>>

Next ==
    \/ \E r \in Reader :
        \/ Get(r) \/ Lock(r) \/ LockRaises(r) \/ DoubleCheck(r) \/ Query(r) \/ Fill(r)
        \/ Release(r) \/ Poll(r) \/ QueryDirectly(r)
    \/ \E c \in Change :
        \/ \E i \in Instance : Commit(c, i) \/ Deliver(i, c) \/ LoseMessage(i, c)
        \/ Apply(c) \/ TouchCache(c) \/ Publish(c)
    \/ PgFails \/ PgRecovers \/ RedisFails \/ RedisRecovers
    \/ Tick

Spec == Init /\ [][Next]_vars

----------------------------------------------------------------------------
(* Properties.                                                              *)

\* The types of the variables.
TypeOK ==
    /\ kind \in Kinds
    /\ pg \in SUBSET Change /\ pgUp \in BOOLEAN
    /\ redis \in {"up", "open", "down"}
    /\ mem \in [Instance -> SUBSET Change]
    /\ cache \in {Nothing} \cup [val : SUBSET Change, outage : BOOLEAN,
                                 ttl : 1..(IF TTL > WarmTTL THEN TTL ELSE WarmTTL)]
    /\ lock \in 0..LockTTL
    /\ read \in [Reader ->
         [pc : {"idle", "lock", "check", "query", "set", "release", "spin", "direct",
                "done", "error"},
          inst : Instance \cup {Nobody}, got : List, left : 0..LockWait, age : 0..MaxLag]]
    /\ write \in [Change ->
         [pc : {"idle", "apply", "cache", "publish", "sent"},
          inst : Instance \cup {Nobody}, snap : SUBSET Change, age : 0..MaxLag]]
    /\ inbox \in [Instance -> SUBSET Change]
    /\ since \in [Change -> 0..(Bound + 1)]
    /\ overruns \in 0..Cardinality(Reader)
    /\ late \in SUBSET Change /\ missed \in SUBSET Change
    /\ faults \in 0..MaxFaults

\* cached_read_pg serves no list that lacks a change committed longer ago than
\* the ttl and the longest lag, although a reader may fill the entry after the
\* change deleted it, deletions fail, and a lost-person route fills it from the
\* memory of one instance.  An empty list cached in an outage is the exception,
\* and for lost persons a change that pub/sub lost.
BoundedStaleness ==
    cache # Nothing /\ ~cache.outage =>
        \A c \in pg : since[c] > Bound /\ ~(kind = "lost" /\ c \in missed) => c \in cache.val

\* Once _broadcast_event has deleted the entry it comes back without the change
\* only if a reader held an older list at that moment, or the deletion failed.
FreshOnceInvalidated ==
    cache # Nothing /\ ~cache.outage =>
        \A c \in pg : write[c].pc \in {"publish", "sent"} /\ c \notin late => c \in cache.val

\* Types; and the stampede lock admits one reader at a time to the query, and one more for
\* every lock that expired under its holder, although such a holder deletes the
\* lock of the next one.
LoadersBounded == TypeOK /\ Cardinality(Loaders) <= 1 + overruns
=============================================================================
