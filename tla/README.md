# Pushkaralu 2027: TLA+ models of the backend

Formal models of the Godavari Pushkaralu backend (`src/pushkaralu_fixed`): four API
replicas (FastAPI, one asyncio event loop each), Redis (pub/sub, streams, caches), Postgres,
one db-writer and one CCTV worker. Every module is translated from the Python source; the
`map` of `PROJECT.json` gives the lines behind each definition.

Paths below are relative to `src/pushkaralu_fixed`.

## 1. The system

| Component | Where | State | Operations | Correct when |
|---|---|---|---|---|
| Admission gates | `app/core/admission.py`, `main.py:340-354` | semaphore, waiter count, in-flight count per gate | `slot()`, `_acquire()`, `_release()` | permits are neither leaked nor exceeded, nobody waits beside a free slot, every request is answered |
| Record replicas | `main.py`, `pg_store.py`, `orchestrator.py:361-431` | lists and id index in each replica, rows in Postgres, pub/sub messages in flight | create / assign / accept / resolve / update routes, `sync_state`, hydration, pruning | replicas agree when nothing is under way; no duplicates; index and lists match |
| db-writer | `app/workers/db_writer.py` | group position, pending lists, batch, pool | read, write with retries, XACK, pending check, reconnect | no event is lost silently, every event is read, pending events Postgres accepts are written in the end |
| WebSocket fan-out | `app/core/ws_manager.py`, `main.py` WebSocket routes | connections per ghat bucket with two indexes | connect, disconnect, broadcast, heartbeat, prune | indexes agree, healthy clients stay and miss nothing their route shows, dead ones go |
| Crowd control | `main.py:404-565, 1074-1132, 2234-2290` | leader key in Redis, override table per replica, levels | leader election, crowd loop, operator override, sensor ingestion | one leader, replicas agree on the level, the ghat goes on being evaluated |
| Risk engine, forecasts | `app/core/risk_engine.py`, `main.py` forecast | history in Redis, scores and surge windows per replica | fusion, trend, score, thresholds, surge detection, extrapolation | warnings are alerted, surges last their window, a steady crowd has no trend |
| Redis circuit, rate limit | `app/core/redis_manager.py`, `orchestrator.py` Redis guardian | circuit and loop per replica, key of the window | `_safe`, reconnect loop, probes, `check_rate_limit` | the circuit closes again, no window admits too much |
| Record cache | `pg_store.py:122-193`, `main.py` cached routes | cache entry, stampede lock | `cached_read_pg`, invalidation | staleness is bounded, loaders are bounded |
| Registries | `main.py:1216-1416`, `auth.py:154-203`, `state/emergency_services.py` | volunteers with two indexes, services, alerts | create, update, delete, sync | indexes follow the list, replicas agree |
| WhatsApp | `whatsapp.py`, `services/whatsapp_router.py`, `services/whatsapp_service.py` | webhook calls, scheduled sends | routing, filing, replies, notifications | what the pilgrim is told is so, calls are answered, sends attempted |
| Healing guardians | `app/healing/orchestrator.py` | health table | supervised loops | a loop that fails is restarted |
| Everything else | auth tokens, storage, HTTP clients, chat text, CCTV inference, dashboards, deployment | | | out of scope, see section 7 |

How they interact. A route passes an admission gate, writes through to Postgres, changes the
replica's memory, and calls `_broadcast_event` (`main.py:363-399`): delete caches, publish on
Redis, fan out to local sockets, and, for creations and resolutions, append to
`stream:events`. Other replicas receive the publication in their subscriber loop, apply it
with `sync_state` and fan it out to their own sockets. The db-writer consumes the stream and
upserts creations a second time. A starting replica loads Postgres, then subscribes. GET
routes read lists through the Redis cache. The webhook files the same records as the routes do.
Nothing ties these steps together: each one is fail-soft, and a request yields to others of its
event loop at every `await`.

What makes it hard: interleavings at awaits, publications on different connections of a pool,
messages lost while a subscription is down, crashes between any two steps, timers racing
wake-ups in the gate, at-least-once delivery from the stream, the gateway and redis-py's
retries, statements whose commit is not reported, caches filled with what was read before
their invalidation. `PROJECT.json` lists the hazards with their lines, and for each the
properties that cover it, or the reason why none does.

## 2. Modules

| Module | Role |
|---|---|
| `AdmissionGate` | one gate over the asyncio semaphore and `wait_for` |
| `BoundedGate` | abstract: a bounded set of permit owners, which `AdmissionGate` implements |
| `AdmissionGateProofs` | its invariants and the refinement, for every value of the constants |
| `RecordReplicas` | SOS alerts, issues and lost persons across replicas, Postgres, pub/sub and db-writer |
| `RecordReplicasProofs` | all its safety properties, for every value of the constants |
| `DbWriter` | the consumer-group loop |
| `DbWriterProofs` | its safety invariants, for every value of the constants |
| `CrowdControl` | leader election, crowd loop, manual overrides and levels across replicas |
| `CrowdRisk` | scores, alerts, surges, history and forecast of one ghat over scaled integers |
| `CrowdProofs` | both halves of the crowd loop, for every value of the constants: types, the election and the level after a round; warnings, surges and steady crowds |
| `RedisCircuit` | circuit breaker, reconnect loop and rate limiter of all replicas |
| `RedisCircuitProofs` | its types and the limit of a window, for every value of the constants |
| `RecordCache` | one cached list under readers, changes and outages |
| `RecordCacheProofs` | all its safety properties, for every value of the constants |
| `VolunteerRegistry` | volunteer accounts: list, indexes, table, messages |
| `VolunteerRegistryProofs` | all its safety properties, for every value of the constants |
| `WsFanout` | connections of one replica, fan-out, heartbeat, pruner |
| `BoundedGroups` | abstract: membership of bounded groups, which `WsFanout` implements |
| `WhatsApp` | webhook, router, replies and scheduled sends of one replica |
| `ChannelProofs` | the two channels to people, for every value of the constants: all safety properties of `WsFanout` and its refinement; what `WhatsApp` tells the pilgrim |
| `MC*` | instances for TLC |

The modules are composed where the components interact by state: `RecordReplicas` joins routes,
replicas, pub/sub, Postgres, the bloat guardian and the db-writer's upserts; `CrowdControl` joins
the election, the rounds, operators and pub/sub; `RecordCache` joins readers, changes, Postgres and
both instances' memory; `WsFanout` joins routes, broadcasts and the subscriber. Where one component
only needs another's promise the promise is in its module: the WebSocket model receives
broadcasts in any order the subscriber allows, the WhatsApp model files records whose further life
is in `RecordReplicas`.

`CrowdProofs` and `ChannelProofs` are about two components each, which share no state. So that
one module can extend both, the second has names of its own for the usual parts: `RiskInit`, `RiskSpec`, `RiskTypeOK`, `Replica` in
`CrowdRisk`, `WhatsAppInit`, `WhatsAppSpec`, `WhatsAppTypeOK` in `WhatsApp`, and `MaxFailures` for
`MaxFaults` in both.

Definitions whose comment starts with `Mutant:` sit next to the one they distort. They are not part
of any specification; each shows that a plausible bug in that line would violate a property.

### AdmissionGate

A step is what one coroutine runs between two suspensions. `wait_for` runs
`sem.acquire()` in a task of its own, so a request is an inner coroutine (`task`, `queued`,
`woken`, `acquired`) and an outer one. `value` and `queue` are the fields of the semaphore as
Python 3.11 implements it (external); `waiting` and `inFlight` are the gate's statistics,
`lane` says which of the two `wait_for` calls of `_acquire` a request is in. `Arrive` is
`_acquire` up to its first suspension, `SlowEntry` lines 193-202, `FallThrough` and `GiveUp` the
two expiries, `Enter` and `Leave` the two ends of `slot()`. The lock of line 198 is never
contended (nothing is awaited inside it), so the cap check and increment are one step. A
client that disconnects while waiting (cancellation of the outer coroutine) is not modelled;
a body that ends by exception is the same `Leave` as one that returns.

### RecordReplicas

| Variable | Code |
|---|---|
| `list`, `index`, `mem` | `DB[...]`, `DB_BY_ID[...]`, the shared dict objects, per replica |
| `pg` | the `payload` column (what hydration reads) |
| `stream` | creation events not yet applied by the db-writer |
| `inbox` | publications on their way to a replica |
| `req` | handlers, with the place they are suspended at: `pg` (statement), `resume`, `send` (cache deletion), `accept` (publish), `xadd`; a handler that has answered serves another request |
| `disturbed` | history variable: records a fault, or an overlapping update, has touched |
| `unsaved` | history variable: records of which some statement failed, or whose row a creation event may overwrite |

A handler is `StartCreate`/`StartUpdate`, `PgStatement`, `Mutate` (or `NotFound`), `Send`,
`Accept`, `AddToStream`: one action per stretch between awaits. `publish` serialises the live
object before it suspends and Redis orders publications as they arrive, so `Send` and `Accept` are
two steps and two publications of one replica may swap; per connection Redis keeps order, so
`inbox` is a queue. Status values are folded into `open` (active, pending, missing), `assigned`,
`in_progress` and `closed` (resolved, found, closed); of the other fields only the assigned
volunteer is kept, because it is the one field that handlers and the `UPDATE`s treat differently
(`COALESCE`). `assign_sos` writes `assigned` to Postgres and only the volunteer to memory.

A statement succeeds, or fails and is swallowed, and neither outcome is a fault or counted: in the code as
it stands many statements are refused at every attempt (see Findings), and the properties hold whichever
are. The same goes for `WriterApply`, which may never happen. What a failed statement does disturb is a
hydration that reads the row afterwards: `Boot` marks the `unsaved` records. So nothing is claimed of
Postgres, only that replicas agree with each other. The operation `wa_lost` is a lost person that the WhatsApp router registers: appended, not indexed.

`ArgsFor` follows the routes: anybody may open, only SOS alerts are assigned, only issues are
accepted, `update_lost` moves between open and closed. `Pruned` keeps what
`_db_bloat_guardian_loop` keeps: the tail of the open records, then the tail of the closed. Records are
numbered by their time stamp, so `NewestFirst` is the `ORDER BY created_at DESC` of hydration.

### DbWriter

Entries are numbers in stream order; `last` and `pel` are the group's position and pending
lists by consumer name, `recorded` counts insertions up to two. `ReadNew` is the read with
`>`, the buffer and the drain (lines 309-322); `WriteUnavailable`, `WriteCommit` and `WriteFail` are the
outcomes of an attempt (`NoPool`: the pool is looked at once, before the first); `Ack` and
`AckFail` the XACK; `Recover` the read with `0`, after which `WriteCommit` and `Ack` come again.
`HealthCheckFails`, `Reconnect`, `Connected`, `ConnectFails` are `ensure_connected` and its background
`connect()` tasks, several of which may be alive. Which entries Postgres refuses at every attempt (`refused`, some of
`data`) is decided when they are added: a batch with one of them is rolled back whenever it is written
(`WriteRefused`, weakly fair like `WriteCommit`, whose guard is `Acceptable`), and stays pending at the head of
the list. `WriteFail` is the passing failure. `data` are the entries with a row of their
own; the others are audit-only, which is what decides whether a batch is acknowledged. A
signal that ends the loop after its current turn loses no more than `Crash` does and is
subsumed by it. Loss of the stream or group in Redis is not modelled.

### CrowdControl

| Variable | Code |
|---|---|
| `key` | `leader:crowd_broadcast` in Redis, with its remaining life |
| `pc`, `timer`, `result` | the loop of each replica: where it is, its sleep (negative once late), the level it carries across awaits |
| `level`, `override` | `ghat["crowd_level"]`, `_manual_overrides[ghat_id]` of each replica |
| `risk` | the level in `crowd:<ghat_id>`, which `/crowd/risk` serves |
| `inbox`, `req` | `CROWD_UPDATE` on the way, operators' requests |
| `lapsed`, `clean` | history: an election met an error or an earlier self's key; what the last undisturbed round establishes |

`TrySet`, `Get`, `Expire` are the three calls of `_am_leader`, `ElectionError` any exception in
them (the call may have taken effect). A round is `Check` (line 458), `Evaluate` (after the three
reads; which level the engine computes is left open), `StoreResult` and `Publish`; with an override
in force it goes from `Check` to `Publish`. `Update`, `UpdateStore`, `UpdatePublish` and `UpdateAnswer`
are `update_crowd` between its awaits. Time is a step of its own: `Tick` ages the key, the
overrides and the sleeps. It waits for a loop that is `MaxLag` late; nothing else is
synchronised. Ghats are processed by tasks of their own and share nothing but the
election, so one stands for all. An override that has expired and one that was swept read the
same except in the last line of `update_crowd`. A restarted replica has its old `INSTANCE_ID`.

### CrowdRisk

The numbers that `CrowdControl` leaves open. Densities, scores and counts are thousandths of the
capacity, rounded down. `hist` is the Redis list, newest first; `count`, `prev` and `window` are what
each replica keeps for itself (`current_count`, `_prev_scores`, the surge detector). `RiskRound(i)` is one
round of the replica that leads: `FuseDensity`, `Buffer` (the replay of the stored list as though it were
oldest first), `Trend`, `RiskScore`, `ScoreToLevelAdaptive` for the level and `ScoreToLevel` behind
`ShouldAlert` for the alert, `Pushed` and `Surge` for the surge. `FailingRound` is one with Redis calls that fail, each
by itself: a sensor or the list reads as none, or the result is not stored. `Override` is `update_crowd`: it
broadcasts an operator's level (`shown`) without an alert, leaves `prev` alone, keeps the rounds of that replica
from evaluating (`held`) and puts a record with a count and no density in the list; `OverrideEnds` and `SensorReports`
lift it. `setBy` and `alerted` are history: who found the level shown, and who has sent `CROWD_ALERT` since it
last found no warning. `Forecast` is the least-squares forecast over the list.
That a round is one step is sound here because its replica keeps all that it reads but the list and the sensors'
readings, and of those it reads each once; what another leader, an operator or a report does meanwhile is in `CrowdControl`.

### RedisCircuit

`redis` is the state of the server, `circuit`, `loop` and `probe` the breaker, the reconnect loop and
`redis_available()` of each replica. An outage either refuses connections or hangs: only a time-out
opens the circuit, since `redis.exceptions.ConnectionError` is not the builtin that the `except`
clauses name. `Ping` and `Swap` are the two halves of a turn of the reconnect loop, with an await
between. A limited request is `Ask` (time stamp taken), `Execute` (the script, one step of Redis, with the
time stamp of the request), `Reply`, `TimeOut` or `Refused`; `LoseReply` and `Resend` are redis-py's retry
of a script that may already have run.

### RecordCache

A list is the set of changes it shows, `cache` its entry with the ticks left. A reader is `Get`, `Lock`,
`DoubleCheck`, `Query`, `Fill`, `Release`, or `Poll` and then `QueryDirectly` when the lock is held; a
change is `Commit`, `Apply`, `TouchCache` (deletion, or for lost persons a fill from one replica's
memory), `Publish`. Postgres or Redis may fail between any two; without Postgres the query returns an
empty list, which is cached as well. `LockRaises` is the one call that is not `_safe`.

### VolunteerRegistry

`list`, `byName` and `byId` are the list and the two indexes of each replica. A creation is `CheckName`,
`WriteVolunteer` (the upsert on the username), `Enlist`, `AnnounceCreated`; a change is `Update`,
`Persist`, `AnnounceUpdated`; a deletion `Delete`, `Erase`, `AnnounceDeleted`. `Receive` is
`sync_state` with its rebuild of the index; `Restart` loads the sample file, not Postgres.

### WsFanout and BoundedGroups

`connections`, `wsToGhat` and `active` are the three structures of the manager; `handler` is the route of
each client (`volunteer`, `public`, `pilgrim`, or ended), and `Shown` and `InitMessage` say what that route sends first:
`/ws/volunteer` all lists, `/ws/public` the ghats only, `/ws/pilgrim` its ghat and the active SOS alerts. A broadcast is `Store` (the record is in the
lists) and `Broadcast` with its jobs, one per bucket addressed: `Snapshot` copies the bucket,
`Gathered` is the end of the gather and the prune of those that failed. `Receive` and `Echo` are the
subscriber with a publication of another replica and of its own, `Ping` starts a heartbeat or a
probe, which goes through the same `Snapshot` and `Gathered`. Clients turn slow or vanish at any time.
`BoundedGroups` says who is a member of what: a client joins one group once, no group exceeds its
bound, and who has left stays out. `ImplementsGroups` maps `wsToGhat` to it.

### WhatsApp

A message is the class of its text the router tells apart. `Send` and `Redeliver` are webhook calls,
`Limit` the rate limit of SOS, `FileSos`, `WriteLost`/`AppendLost` and `Ask` the branches (Postgres takes the
row of a lost person or refuses it, which nobody is told and no bound counts),
`Answer` the reply, after which the gateway does not deliver that message again. `LimitApp` and
`FileApp` are the app's SOS route and `MarkFound` the route that marks a person found, which
schedule a send; `Acquire` and `Release` are the semaphore around one.
`CutOff` and `Restart` forget what was under way and what was scheduled.

## 3. Runs

The properties of a component's types and sizes (`TypeOK`, `RiskTypeOK`, `WhatsAppTypeOK`) are a conjunct of `IndexMatchesLists`,
`AdmittedWithinLimit`, `LoadersBounded`, `IndexesFollowList`, `IndexesAgree`, `SurgeLastsItsWindow` and `ToldIsSo`
in the runs of those modules, and an invariant of its own in the other runs; where a module has proofs, a
theorem states it.

| Run | Property | What it shows |
|---|---|---|
| `admission_gate` | `PermitConservation` | free permits plus owners is the capacity, through every race of timer and release |
| | `NoStrandedPermit`, `Answered` | wake-ups are not lost; every request gets an answer even if no timer fires |
| | `QueueConsistent`, `CountersExact` | no time-out leaves a future behind; `stats()` is exact and the cap holds |
| | `ImplementsBoundedGate` | refinement of `BoundedGate` |
| `record_replicas` | `SettledReplicasAgree` | a record no fault and no overlap has touched is the same on all replicas once nothing is under way, whatever Postgres refuses |
| | `NoDuplicateRecords`, `IndexMatchesLists` | hydration, delivery and pruning together never duplicate a record or leave the index behind |
| | `ClosedSosStaysClosed` | nothing reopens such an alert in memory |
| `db_writer` | `NoSilentLoss`, `HeldIsPending` | a delivered entry is written, pending or trimmed |
| | `PendingIsWritten` | a pending entry that Postgres accepts is written in the end, unless the head of the list is blocked for good |
| | `EveryEntryIsRead` | a batch that fails at every attempt does not stop the reading of the stream |
| `crowd_levels` | `OneLeaderUnlessLapsed` | three separate calls elect one leader at a time, given time enough, no error and no quick restart |
| | `SettledLevelsAgree` | a round that nothing interfered with leaves one level on every replica, and in Redis if it could store it |
| `crowd_engine` | `EngineTakesOver` | the ghat is evaluated again and again while a replica keeps running |
| `crowd_override` (violation) | `OverrideWins` | an override does not bind a leader on another replica |
| `redis_circuit` | `AdmittedWithinLimit` | reordered time stamps, late cut-offs and scripts that run twice admit no more than the limit in a window shortened by the longest delay |
| | `Reconnects` | once Redis stays up every circuit closes, the subscriber goes on and health says so |
| `record_cache` | `BoundedStaleness` | no list is staler than the ttl and the longest lag, outages aside |
| | `FreshOnceInvalidated` | after its deletion an entry lacks the change only if a reader held an older list |
| | `LoadersBounded` | one loader at a time, and one more per lock that expired under its holder |
| `volunteers` | `IndexesFollowList` | neither index outlives the list, whatever overlaps |
| | `SettledRegistriesAgree` | replicas, indexes and table agree, creations of one username that overlapped aside |
| `ws_fanout` | `IndexesAgree` | the three structures agree through every prune of an old snapshot |
| | `HealthyStayRegistered`, `NothingMissed`, `AtMostOnce` | a healthy client stays, gets each record made while it is connected, once, and in INIT the earlier ones of its route's lists |
| | `ClosedIsPruned` | a closed connection leaves in the end, also if its route died |
| | `ImplementsGroups` | refinement of `BoundedGroups` |
| `crowd_risk` | `WarningIsAlerted` | a warning level that the engine found has been alerted by the instance that found it, whatever operators and other leaders did; a high level on a busy day is the exception |
| | `SurgeLastsItsWindow` | a surge is alerted for exactly its window |
| | `SteadyCrowdHasNoTrend`, `ForecastFollowsTrend` | the reversed replay leaves a steady crowd without a trend; forecasts go the way of the list |
| `whatsapp` | `ToldIsSo` | replies claim what is so, under redelivery, rate limit, refused writes and a failed call or restart; a report whose row was refused does not outlive a restart |
| | `EveryCallAnswered`, `EverySendAttempted` | webhook calls end; failures of the provider use up no permit |

### Findings

One disagreement with a document is run and refuted:

* **An override does not always win.** `docs/SYSTEM_DOCUMENTATION.md:469` says an override always wins
  for five minutes; it is kept in the process that served it (`main.py:1087`), and the leader, usually
  another of the four replicas, does not know it. `crowd_override` shows it without any fault.

What else was met while modelling is in the models as the code has it, and left out of the properties
by the exception their comment names:

* Postgres: `_utc_now()` (`main.py:329`) and the router (`whatsapp_router.py:392`) give time stamps as strings, which the
  statements bind to `::timestamptz` (`pg_store.py:211`, 255, 283, 322, 345; `db_writer.py:205`, 217, 236). asyncpg
  expects a `datetime` there and no codec is registered, so these statements are refused every time and only logged.
  `assigned_volunteer` is a foreign key (`schema.sql:72`, 92), which the default "admin" of `resolve_issue` violates;
  the db-writer leaves out `contact_person`, which is NOT NULL (`db_writer.py:233`, `schema.sql:110`). So records
  live in memory and on pub/sub only: a restarted replica does not find them, and the part of `SettledReplicasAgree`
  and `ClosedSosStaysClosed` about hydration has rows to speak of only once that is repaired. The models
  do not decide which statements are refused; this needs a test against the driver.
* Replicas: a resolution may overtake the creation of the same alert on another pool connection; the
  receiver drops it as unknown and installs the open alert for good (`docs/SYSTEM_DOCUMENTATION.md:71`
  promises a consistent hot cache). Pruning keeps the tail as the newest (`orchestrator.py:387`), but hydration fills lists
  newest first (`pg_store.py:536-560`), so after a restart it keeps the oldest.
* db-writer: with the statements as they are a batch with one row of its own fails at every attempt, stays at the head of
  its pending list, and recovery never looks past it (`db_writer.py:253-265`). A batch without rows of its own is committed, counted as 0 and never acknowledged, so
  that "post-crash redelivery" (`db_writer.py:334`) repeats it without a crash.
* Crowd: `_am_leader` answers True on any exception (`main.py:415`), so one Redis error is enough for two
  leaders. On the override's own replica a round that has passed line 458 overwrites it at 489. An override
  cleared while `update_crowd` awaits makes its answer a `KeyError` (`main.py:1114`); followers keep
  an old `current_count`.
* Risk: the adaptive thresholds move levels and not alerts (`risk_engine.py:371-374`), so on days of high traffic a high level may
  come without an alert, where `docs/SYSTEM_DOCUMENTATION.md:66` has warnings fire sooner. An operator's level is
  never alerted, and the engine's return to a warning after it is silent if the last score of that replica was one:
  "has alerted since it last found no warning" is as much as `WarningIsAlerted` can say. `_level_from_ratio`
  (`main.py:2330`) has other thresholds than the engine its comment says it is aligned with.
* Cache: an outage of Postgres serves, and caches, an empty list, though `pg_store.py:93` promises memory.
  The acquisition of the stampede lock is the one uncaught call (`pg_store.py:163`). A rate limit that
  cannot ask Redis refuses.
* Registries: volunteers are not loaded from Postgres at a start, though `main.py:1242-1244` says they
  survive restarts. Safety alerts, contacts and medical facilities stay in the process that changed them.
  The id of a deleted emergency service is given out again if it was the highest
  (`state/emergency_services.py:110`).
* WebSockets: `main.py:2060` says public clients receive `CROWD_UPDATE` only; they are in the unscoped bucket and get every
  broadcast, but only the ghats at first, so one that connects after the fan-out of a record is not shown it. A broadcast
  without a record of its own is in nobody's INIT.
* WhatsApp: a pilgrim is told that a person is registered although the row was refused, and a restart then loses the
  report. A lost person registered there is not indexed at its origin, so `PUT /lost/{pid}` answers 404 and the message
  promised by `whatsapp_router.py:422` is not sent. An SOS and a location as separate messages of Meta file
  nothing (the menu at 96 suggests it); "HI SOS" gets the menu, although 459 gives SOS priority; a place whose name contains
  "EMERGENCY" files an SOS. A redelivered message files again and counts against the limit. Of
  a payload with several messages only the first is handled.

## 4. Bounds

* `admission_gate`: five requests, two permits, two wait slots. The interesting race needs a
  woken request, a spare permit and two queued ones, plus one request refused by the cap.
* `record_replicas`: two replicas, two handlers, three requests, two records of one kind (two SOS alerts
  or two lost persons) or one issue, list bound, prune target and hydration limit 1, one
  fault. Three requests are a creation and two updates, or two creations and an update, in every interleaving; a list can exceed its bound, so
  pruning, hydration and delivery meet.
* `db_writer`: three entries, any of them with rows of their own and any of those refused, batches of two, two attempts, `MaxLen` 2,
  two consumer names, two background connects, two faults. A batch can be full, and a refused entry can hold the head of the list with an
  accepted one in its batch or behind it. Two faults reach a late `ConnectFails` after a failed health check, or a crash between a
  failed write and its repetition. `BUFFER_MAX` is above `BATCH_SIZE` as in the defaults.
* `crowd_levels`: two replicas, one operator request, two levels, two faults; the key lives four ticks, a
  sleep takes one, a round may be one late, an override lasts two. This is the order of the real
  durations (10 s, 2.5 s, 300 s against rounds of well under 3.75 s), with the override shortened so
  that it can expire within a few rounds. The key's life is the shortest that works: with three
  ticks TLC finds two leaders without any fault. `crowd_engine` has one level, since levels do not
  decide where the loop goes; `crowd_override` has no fault.
* `redis_circuit`: one replica, three requests, limit 1, window 3, delay 1, four ticks, one fault. The replicas
  share only the key, and requests carry time stamps that are off by up to `MaxDelay` as those of different
  replicas are. A third request can follow two whose scripts ran out of order.
* `record_cache`: two replicas, two readers, two changes of the list, ttl 1, lost-person ttl 2, lock 1, lag 1,
  one fault. Two readers are a slow holder and the one that takes its expired lock, which the first then
  deletes; two changes are needed for a lost-person route that fills the entry from a memory the other
  change has not reached. Issues behave as SOS alerts.
* `volunteers`: two replicas, two volunteers of one username, one admin's and one volunteer's change, one fault.
* `ws_fanout`: two clients, one ghat and the unscoped bucket, cap 1, one broadcast, one fault. The second
  client meets a full bucket, or takes the place of one that is being pruned.
* `crowd_risk`: two replicas, density 900 or no reading for each sensor, a reported and an initial count of 100, operators who set low or high, a
  round that reads three entries and a forecast four, as many as the list keeps, surge window 2, four entries, one fault. A round drops a
  reading, a jump leaves the window, an override ends with the old score remembered. That LTRIM drops an entry is
  not reached; the theorems hold for any `ListMax`. ForecastFollowsTrend is checked for one horizon.
* `whatsapp`: one message delivered once or twice, two SOS requests of the app, limit 1, one
  permit, one fault; the generic provider, whose texts include those of the others.

`MaxRecords`, `MaxOf`, `MaxKinds`, `MaxRequests`, `InboxMax`, `MaxEntries`, `MaxConnects`, `MaxTime`, `MaxRounds`,
`Deliveries`, `MaxFaults` and `MaxFailures` bound the state space and
nothing else; `recorded` is cut at 2 because the properties tell apart never, once and more.
Deadlock checking is off where requests, entries and faults run out and the
system then stops. Crowd control and the Redis layer never stop, and their deadlock freedom is checked.
`MaxLag` and `MaxDelay` are not bounds of that kind: they are the assumption that a replica goes on in time, and
hypotheses of the properties. Symmetry is used in runs without liveness properties only.

## 5. Fairness

* `AdmissionGate`: weak fairness of the steps the event loop runs when they are ready, and of
  `Leave` (bodies end: statements and HTTP calls have time-outs). Timers and arrivals are not
  fair; `Answered` therefore does not lean on time-outs.
* `DbWriter`: the process is restarted (`restart: unless-stopped`), its loop goes on, a
  background `connect` succeeds in the end. The health check and the pending check depend on
  the clock and are passed by in most turns, so they are strongly fair: they come round
  again and again. An attempt ends, by a commit or a refusal. Nothing is assumed of faults.
* `CrowdControl`: time passes; elections, rounds and deliveries of a running replica and the requests it
  accepted go on (one event loop runs them all). Restarts, sensors and the sweeper are not fair.
* `RedisCircuit`: the loops, the probes and the calls in flight go on (each await has a time-out). Nothing is
  assumed of Redis, of time or of arrivals: `Reconnects` has the recovery as its hypothesis.
* `WsFanout`: the heartbeat comes round and its sends end. Clients are not fair.
* `WhatsApp`: the steps of a call go on, and so do `Acquire` and `Release`: every awaited call has a time-out.
* `RecordReplicas`, `RecordCache`, `VolunteerRegistry` and `CrowdRisk` have no liveness property and
  no fairness.

## 6. Proofs

`AdmissionGateProofs`, from `MaxConcurrent` a positive natural, `MaxWaiters` a natural and `Request`
finite. `IInv` conjoins the type, the queue's consistency, permit conservation, no stranded
permit and exact counters: a wake-up keeps the permit count only because the deque names
requests that are pending, once each; a time-out keeps the deque consistent only because
of the same; the counters need that only a request in the slow lane leaves it. One lemma per action
(`LeaveInv`, `TimeoutInv`, ...) shows that it keeps `IInv`; `WakeNextFacts` is shared by the
three that wake a waiter. `Refinement` shows `Spec => ImplementsBoundedGate`: each step maps to an
abstract `Admit`, `GiveUp`, `HandOver`, `Refuse` or a stutter, the bound on admissions being
permit conservation.

`DbWriterProofs`, from the assumptions on the constants (a batch is positive and not larger than the
buffer). `NoSilentLoss` is not inductive because `Ack` takes entries off a pending list.
`IInv` adds: what is about to be acknowledged is recorded or trimmed (`AckIsSafe`), what
`write_batch` works on came with its fields unless trimmed (`FullUnlessTrimmed`), and what the
process holds is pending under its name (`HeldIsPending`, `DownHoldsNothing`). That a read skips
no entry below the group's new position is `FirstIsPrefix`; that the buffer is empty between turns
is `FirstOfFirst`.

`CrowdProofs`, first `CrowdControl`, from the assumptions on the durations. `OneLeaderUnlessLapsed` needs more than that
leaders own the key: an owner could lose it while it leads. `LeaseHeld` adds that the life left
in the owner's key exceeds `Due`, the longest time until the owner refreshes it (the rest
of its round, and after a refresh the next sleep and round too). A tick takes one off
both; a refresh restores the difference because `LeaderTTL > Interval + 2 * MaxLag`. So a running
owner's key never expires, and nobody else can set it. `SettledLevelsAgree` is about a state in which
nothing is under way; `CleanInv` says what holds on the way there: during a clean round nobody else is in a
round and the round's own replica already has its level (`CleanRound`); after it, the last message on the
way to each replica, or its level if there is none, is that of the round (`Shows`).

Then `CrowdRisk`, from readings within the capacity, a history of more than two entries and positive
windows. Lemmas bound each operator: the trend is 0 if the oldest and the newest value are the same and not positive if
the newest is lower (`TrendFacts`), so an empty ghat scores 0 (`ScoreFacts`); the replayed buffer is as long as
the list allows and ends as it should (`BufferFacts`). `WarningIsAlerted` needs `ScoreRemembered`: an instance that
compares with a score in the warning range has alerted since it last found none. A round keeps it because the engine's levels
and the alert's thresholds agree on normal days and on critical, and an operator's level because it leaves the scores alone. `SurgeLastsItsWindow` needs `LastJump`: the readings kept are enough
to say how long ago the last jump was, up to the window, and a push keeps that count (`JumpFacts`).
`SteadyCrowdHasNoTrend` needs `EmptyIsCalm`, because an operator's record has no density and enters the list as 0.

`ChannelProofs`, first `WsFanout`, from finitely many clients, a positive cap and distinct names. `IndexesAgree` is
inductive, but only together with where each route stands (`RoutesAndBuckets`). `AtMostOnce` needs
`OnceInv`: jobs run only while their broadcast is sent, the recipients of a snapshot have not received it
and are in no other bucket by now, and who has received it will find the job of their bucket over. `NothingMissed` needs
`OwedInv`, which says for each phase of a broadcast what a healthy client is still owed: the
broadcast itself, the job of its bucket, a place among its recipients, or nothing any more, the last also if its INIT
message shows the record or its route's INIT never would and the client came after the record. `Refinement`
shows `Spec => ImplementsGroups`: each step is an abstract join or leave, several leaves (a prune), or a
stutter; the bound on the members is the cap check in `connect`, which is in the same step.

Then `WhatsApp`, from positive limits and names of requests that are no calls. What a reply claims
was established steps earlier, so `ToldIsSo` needs to know it of every call on its way: `SosAsTold`
(a call has filed an alert only once it is past filing, and then means to say so), `LostAsTold` (once a
reply means to confirm a report it is in the lists, or a restart has rebuilt them from a table without it). `NotesAreDue`
keeps the queue free of repetitions: what is scheduled was scheduled by a step that is not taken again. `ToldAndSo`
holds for any number of messages, deliveries, requests of the app, failures and restarts, and every provider.

`RedisCircuitProofs`, from natural bounds and `MaxDelay` at most `Window`. `AdmittedWithinLimit` speaks of
answers, so a request counts as soon as its script has said yes (`Counted`). `Remembered` is the heart: as long
as another request could still be counted with it, the key exists and has an entry of the request
that is at most `MaxDelay` older than its execution. The script lets one more through only when it sees
fewer than `Limit` entries, and by `Remembered` these include all it could be counted with
(`RoomForAll`, an injection of the requests into the entries). A script that runs twice replaces its own entry.

`RecordCacheProofs`, from finitely many readers and `TTL <= WarmTTL` (2 and 30 seconds in the code).
`LoadersBounded` is inductive with the case of the free lock (`LoadersCounted`). `FreshOnceInvalidated` needs
that a reader about to fill has all changes that deleted the entry in time (`FreshInv`). `BoundedStaleness`
needs the bookkeeping of `StaleInv`: a change not yet in some memory is on its way and as young as its
route's lag (`Spread`); a reader lacks only what was committed since its query (`ReadersBehind`), a
lost-person route what had not arrived (`SnapsBehind`); and an entry's age of missing changes and
its remaining life add up to less than the bound (`EntryBehind`).

`RecordReplicasProofs`, from natural bounds and `PruneTarget` in `1..ListMax`. First the operators: `Ascending`,
`Picked`, `Pruned` and `Hydrated` return lists without repetitions whose elements are those meant, for
lists of any length. Each action has a lemma with its effect (`MutateFacts`, ...), used by three
invariants. `ListInv` gives `NoDuplicateRecords` and `IndexMatchesLists`: one
request creates a record (`OneCreation`), and a message that announces it is news to its receiver, or the index
already has it (`NewsIsNew`), so neither appends twice. `Together` gives `SettledReplicasAgree`: an undisturbed
record has one request at a time (`Alone`), and for each place that request can be at, `InTune` says what
Postgres, the memories and the messages hold, until all replicas and messages have arrived at one
value, what is said of Postgres and the stream only for records that are not `unsaved`, which a hydration disturbs; a pruned, crashed or lost record is disturbed, so steps about other records leave it alone
(`UnconcernedKeeps`). `ClosedAhead` gives `ClosedSosStaysClosed`: once a replica holds an alert as
closed, every creation still on its way to it carries the closed object and every update keeps it.

`VolunteerRegistryProofs`, from a finite sample file without a username given twice. `BasicInv` gives the types and
`IndexesFollowList`. Its core is `Unheard`: until a volunteer is enlisted, no index, message, change, deletion or
finished insertion knows it, so an addition never repeats an entry of the list. `RebuiltFacts` (of the later
records of a username the last wins), `RemovedFacts` and `SampleFacts` are about lists of any length. `AgreementInv`
gives `SettledRegistriesAgree`. `OneOwner`: at most one volunteer lives under an undisputed username, and it is the one that
the row and the index name; it needs that a creation that finds the name in use disputes it, even while the
first is between two awaits. `Promised` follows each volunteer: its creation is unannounced or on its way once to
whoever lacks it (`Living`); its deletion comes after its creation wherever that is still on its way
(`Dying`); a lone change is at its instance, then behind every creation (`Shown`). A step about one
volunteer leaves the promises of all others alone (`PromiseKept`).

Only model-checked: the liveness properties (`Answered`, `PendingIsWritten`, `EveryEntryIsRead`, `EngineTakesOver`, `Reconnects`,
`ClosedIsPruned`, `EveryCallAnswered`, `EverySendAttempted`: liveness under fairness is out of the prover's
reach), and `ForecastFollowsTrend`: its least squares are sums over the list by a fold, and what a
fold returns for every list takes induction over data.

## 7. Not modelled

* Authentication tokens (cryptographic libraries), storage, HTTP clients and the connection monitor, the
  chat assistant, CCTV inference: I/O with external services or text. Dashboards, sample data, nginx
  and Postgres configuration. The root copies `auth.py`, `pg_store.py`, `storage.py` are superseded
  (`docs/SYSTEM_DOCUMENTATION.md:239`), `fix.py` is a patch script.
* Bounded helpers (`run_blocking`, `gather_bounded`): a thread pool and one asyncio semaphore.
* Registries: emergency services, safety alerts, contacts and medical facilities change in one step of one
  process. A volunteer that another replica created has no password here: logins are not modelled.
* Cache: lists filtered by status (keys of their own), lists that are only cached with a ttl, the warm-ups
  (`main.py:567` and after a recovery).
* Guardians: memory and event-loop guardians measure and log; the supervisor's restarts.
* Risk: `ai_predictor.py`, which the crowd loop does not call; `_level_from_ratio`.
* WhatsApp: the texts, the providers' HTTP calls, `/whatsapp/send` and `/simulate`.
* Postgres: which statements it refuses, and why; types, constraints and foreign keys of the columns.
* WebSockets: that INIT lists are cut to the newest `WS_INIT_RECENT` (300) records, and the status of an SOS alert in the pilgrim's.
* In the modelled parts: record fields other than status and volunteer, the totals of
  `AdmissionStats`, rate limits in front of the record handlers, `stream_read`, `cache_invalidate_pattern`.

## 8. Plan

1. Emergency services and safety alerts across replicas, with identifiers given out twice.
2. The chat's reply cache, the bounded helpers and the supervisor.
