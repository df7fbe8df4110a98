---------------------------- MODULE CrowdControl ---------------------------
(* The crowd level of one ghat: the leader election through a Redis key,    *)
(* crowd_broadcast_loop of each instance, the operator's manual override,   *)
(* the sensor routes, and CROWD_UPDATE between instances.  Ghats do not     *)
(* share any of this state, so one stands for all.  A step is what an       *)
(* instance runs between two awaits; Tick is the passage of time.  What the *)
(* risk engine computes is left open: any level.                            *)
EXTENDS Integers, Sequences, FiniteSets

CONSTANTS
    Instance,     \* API replicas
    Request,      \* POST /update_crowd requests, each used once
    Level,        \* crowd levels
    InitLevel,    \* the level in the data an instance starts with
    Nobody,       \* no owner, no instance
    LeaderTTL,    \* LEADER_TTL, in ticks
    Interval,     \* CROWD_BROADCAST_INTERVAL, in ticks
    MaxLag,       \* an instance ends a round at most this late
    OverrideTTL,  \* MANUAL_OVERRIDE_TTL, in ticks
    InboxMax,     \* bound on the messages on their way to an instance
    MaxFaults     \* bound on Redis errors, crashes and lost messages

ASSUME LevelAssumption == InitLevel \in Level
ASSUME NobodyAssumption == Nobody \notin Instance
ASSUME TimeAssumption ==
    /\ LeaderTTL \in Nat \ {0} /\ Interval \in Nat /\ MaxLag \in Nat
    /\ OverrideTTL \in Nat \ {0}
ASSUME BoundsAssumption == InboxMax \in Nat /\ MaxFaults \in Nat

VARIABLES
    key,       \* leader:crowd_broadcast in Redis: its owner and remaining life
    pc,        \* where crowd_broadcast_loop of each instance is
    timer,     \* until the end of its sleep; negative once the round is late
    result,    \* the level the round is about to store and publish, if any
    level,     \* ghat["crowd_level"] of each instance
    override,  \* _manual_overrides[ghat_id] of each instance: remaining time
    risk,      \* the level in crowd:<ghat_id> in Redis
    inbox,     \* CROWD_UPDATE messages on their way to each instance
    req,       \* the operators' requests
    faults,    \* failures so far
    lapsed,    \* ghost: an election met an error or an earlier self's key
    clean      \* ghost: what the last round, undisturbed, is to establish

vars == <<key, pc, timer, result, level, override, risk, inbox, req, faults, lapsed, clean>>

NoKey == [owner |-> Nobody, ttl |-> 0]
KeyOf(i) == [owner |-> i, ttl |-> LeaderTTL]
Keys == {NoKey} \cup [owner : Instance, ttl : 1..LeaderTTL]

\* No entry in _manual_overrides; 0 is an entry that has expired.
NoOverride == -1

Idle == [pc |-> "idle", inst |-> Nobody, level |-> InitLevel]
Active(q) == req[q].pc \in {"store", "publish", "answer"}

Up(i) == pc[i] # "down"

\* Between a True of _am_leader and the end of the round.
Leading(i) == pc[i] \in {"check", "read", "store", "publish"}

Init ==
    /\ key = NoKey
    /\ pc = [i \in Instance |-> "sleep"]
    /\ timer = [i \in Instance |-> Interval]
    /\ result = [i \in Instance |-> InitLevel]
    /\ level = [i \in Instance |-> InitLevel]
    /\ override = [i \in Instance |-> NoOverride]
    /\ risk = InitLevel
    /\ inbox = [i \in Instance |-> << >>]
    /\ req = [q \in Request |-> Idle]
    /\ faults = 0
    /\ lapsed = FALSE
    /\ clean = "no"

Fault == faults < MaxFaults /\ faults' = faults + 1
NoFault == UNCHANGED faults

----------------------------------------------------------------------------
(* _am_leader: SET NX EX, then GET, then EXPIRE, each a call of its own.    *)

Goto(i, where) == pc' = [pc EXCEPT ![i] = where]

\* The loop goes back to its sleep.
SleepAgain(i) ==
    /\ Goto(i, "sleep")
    /\ timer' = [timer EXCEPT ![i] = Interval]

TrySet(i) ==
    /\ pc[i] = "sleep" /\ timer[i] <= 0
    /\ \/ /\ key = NoKey
          /\ key' = KeyOf(i)
          /\ Goto(i, "check")
       \/ /\ key # NoKey
          /\ Goto(i, "get")
          /\ UNCHANGED key
    /\ UNCHANGED <<timer, result, level, override, risk, inbox, req, faults, lapsed, clean>>

Get(i) ==
    /\ pc[i] = "get"
    /\ \/ /\ key.owner = i
          /\ Goto(i, "expire")
          /\ UNCHANGED timer
       \/ /\ key.owner # i
          /\ SleepAgain(i)
    /\ UNCHANGED <<key, result, level, override, risk, inbox, req, faults, lapsed, clean>>

\* Mutant: the owner does not refresh its key.
ExpireNothing(i) ==
    /\ pc[i] = "expire"
    /\ Goto(i, "check")
    /\ UNCHANGED <<key, timer, result, level, override, risk, inbox, req, faults, lapsed, clean>>

\* Mutant: a key that is not there is refreshed as well.
ExpireAlways(i) ==
    /\ pc[i] = "expire"
    /\ key' = [key EXCEPT !.ttl = LeaderTTL]
    /\ Goto(i, "check")
    /\ UNCHANGED <<timer, result, level, override, risk, inbox, req, faults, lapsed, clean>>

\* EXPIRE refreshes whatever key is there by now, if any.
Expire(i) ==
    /\ pc[i] = "expire"
    /\ key' = IF key = NoKey THEN key ELSE [key EXCEPT !.ttl = LeaderTTL]
    /\ Goto(i, "check")
    /\ UNCHANGED <<timer, result, level, override, risk, inbox, req, faults, lapsed, clean>>

\* Any exception makes the instance a leader; the call that raised may have
\* reached Redis.
ElectionError(i) ==
    /\ \/ pc[i] = "sleep" /\ timer[i] <= 0
       \/ pc[i] \in {"get", "expire"}
    /\ Fault
    /\ lapsed' = TRUE
    /\ key' \in {key} \cup
          (IF pc[i] = "sleep" /\ key = NoKey THEN {KeyOf(i)} ELSE {}) \cup
          (IF pc[i] = "expire" /\ key # NoKey THEN {[key EXCEPT !.ttl = LeaderTTL]} ELSE {})
    /\ Goto(i, "check")
    /\ UNCHANGED <<timer, result, level, override, risk, inbox, req, clean>>

----------------------------------------------------------------------------
(* A round: _process_one for the ghat.                                      *)

\* Nothing but a round of instance i is under way that could change levels.
Undisturbed(i) ==
    /\ \A j \in Instance \ {i} : ~ Leading(j)
    /\ \A q \in Request : ~ Active(q)
    /\ inbox[i] = << >>

InForce(i) == override[i] > 0

\* Mutant: the manual broadcast does not send the level the ghat has.
CheckSendingResult(i) ==
    /\ pc[i] = "check"
    /\ clean' = IF Undisturbed(i) THEN "levels" ELSE "no"
    /\ \/ /\ InForce(i)
          /\ Goto(i, "publish")
       \/ /\ ~ InForce(i)
          /\ Goto(i, "read")
    /\ UNCHANGED <<key, timer, result, level, override, risk, inbox, req, faults, lapsed>>

\* An override in force in this process: broadcast the level as it is.
Check(i) ==
    /\ pc[i] = "check"
    /\ clean' = IF Undisturbed(i) THEN "levels" ELSE "no"
    /\ \/ /\ InForce(i)
          /\ result' = [result EXCEPT ![i] = level[i]]
          /\ Goto(i, "publish")
       \/ /\ ~ InForce(i)
          /\ Goto(i, "read")
          /\ UNCHANGED result
    /\ UNCHANGED <<key, timer, level, override, risk, inbox, req, faults, lapsed>>

\* The three reads are in: evaluate and write the level.
Evaluate(i) ==
    /\ pc[i] = "read"
    /\ \E l \in Level :
          /\ level' = [level EXCEPT ![i] = l]
          /\ result' = [result EXCEPT ![i] = l]
    /\ Goto(i, "store")
    /\ UNCHANGED <<key, timer, override, risk, inbox, req, faults, lapsed, clean>>

\* set_crowd_data, whose failure is swallowed.
StoreResult(i) ==
    /\ pc[i] = "store"
    /\ Goto(i, "publish")
    /\ \/ /\ risk' = result[i]
          /\ clean' = IF clean = "no" THEN "no" ELSE "stored"
          /\ NoFault
       \/ /\ Fault
          /\ UNCHANGED <<risk, clean>>
    /\ UNCHANGED <<key, timer, result, level, override, inbox, req, lapsed>>

\* Redis hands l to the other instances that run, or the publication fails and
\* that is swallowed.
Broadcast(i, l) ==
    LET to == {j \in Instance \ {i} : Up(j)} IN
    \/ /\ \A j \in to : Len(inbox[j]) < InboxMax
       /\ inbox' = [j \in Instance |-> IF j \in to THEN Append(inbox[j], l) ELSE inbox[j]]
       /\ NoFault
       /\ UNCHANGED clean
    \/ /\ Fault
       /\ clean' = "no"
       /\ UNCHANGED inbox

Publish(i) ==
    /\ pc[i] = "publish"
    /\ Broadcast(i, result[i])
    /\ SleepAgain(i)
    /\ result' = [result EXCEPT ![i] = InitLevel]
    /\ UNCHANGED <<key, level, override, risk, req, lapsed>>

----------------------------------------------------------------------------
(* The routes and sync_state.                                               *)

\* update_crowd up to its first await.
Update(q, i, l) ==
    /\ req[q].pc = "idle" /\ Up(i)
    /\ level' = [level EXCEPT ![i] = l]
    /\ override' = [override EXCEPT ![i] = OverrideTTL]
    /\ req' = [req EXCEPT ![q] = [pc |-> "store", inst |-> i, level |-> l]]
    /\ clean' = "no"
    /\ UNCHANGED <<key, pc, timer, result, risk, inbox, faults, lapsed>>

Proceed(q, where) == req' = [req EXCEPT ![q].pc = where]

UpdateStore(q) ==
    /\ req[q].pc = "store"
    /\ Proceed(q, "publish")
    /\ \/ risk' = req[q].level /\ NoFault
       \/ Fault /\ UNCHANGED risk
    /\ UNCHANGED <<key, pc, timer, result, level, override, inbox, lapsed, clean>>

UpdatePublish(q) ==
    /\ req[q].pc = "publish"
    /\ Proceed(q, "answer")
    /\ Broadcast(req[q].inst, req[q].level)
    /\ UNCHANGED <<key, pc, timer, result, level, override, risk, lapsed>>

\* The answer looks the override up again: a KeyError, and status 500, when a
\* sensor or another operator has removed it meanwhile.
UpdateAnswer(q) ==
    /\ req[q].pc = "answer"
    /\ req' = [req EXCEPT ![q] = [Idle EXCEPT !.pc =
                  IF override[req[q].inst] = NoOverride THEN "failed" ELSE "done"]]
    /\ UNCHANGED <<key, pc, timer, result, level, override, risk, inbox, faults, lapsed, clean>>

\* clear_crowd_override and clear_all_crowd_overrides, on the instance that
\* serves the request.
ClearOverride(i) ==
    /\ Up(i)
    /\ override' = [override EXCEPT ![i] = NoOverride]
    /\ UNCHANGED <<key, pc, timer, result, level, risk, inbox, req, faults, lapsed, clean>>

\* ingest_cctv and ingest_telecom: sensor over operator, on that instance.
Ingest(i) ==
    /\ Up(i) /\ override[i] # NoOverride
    /\ override' = [override EXCEPT ![i] = NoOverride]
    /\ UNCHANGED <<key, pc, timer, result, level, risk, inbox, req, faults, lapsed, clean>>

\* _manual_override_sweeper drops an expired entry.
Sweep(i) ==
    /\ override[i] = 0
    /\ override' = [override EXCEPT ![i] = NoOverride]
    /\ UNCHANGED <<key, pc, timer, result, level, risk, inbox, req, faults, lapsed, clean>>

\* sync_state of a CROWD_UPDATE.
Deliver(i) ==
    /\ inbox[i] # << >>
    /\ level' = [level EXCEPT ![i] = Head(inbox[i])]
    /\ inbox' = [inbox EXCEPT ![i] = Tail(@)]
    /\ UNCHANGED <<key, pc, timer, result, override, risk, req, faults, lapsed, clean>>

----------------------------------------------------------------------------
(* Failures and time.                                                       *)

\* The subscription is lost with what was on its way, and set up anew.
LoseMessages(i) ==
    /\ inbox[i] # << >>
    /\ Fault
    /\ inbox' = [inbox EXCEPT ![i] = << >>]
    /\ clean' = "no"
    /\ UNCHANGED <<key, pc, timer, result, level, override, risk, req, lapsed>>

\* The process stops; its memory is what the next one will start with.
Crash(i) ==
    /\ Up(i)
    /\ Fault
    /\ Goto(i, "down")
    /\ level' = [level EXCEPT ![i] = InitLevel]
    /\ result' = [result EXCEPT ![i] = InitLevel]
    /\ timer' = [timer EXCEPT ![i] = Interval]
    /\ override' = [override EXCEPT ![i] = NoOverride]
    /\ inbox' = [inbox EXCEPT ![i] = << >>]
    /\ req' = [q \in Request |->
                  IF Active(q) /\ req[q].inst = i THEN [Idle EXCEPT !.pc = "done"] ELSE req[q]]
    /\ clean' = IF Leading(i) THEN "no" ELSE clean
    /\ UNCHANGED <<key, risk, lapsed>>

\* lifespan: levels as in the data loaded, no overrides, a first sleep, and
\* the same INSTANCE_ID, which the key may still name.
Restart(i) ==
    /\ ~ Up(i)
    /\ SleepAgain(i)
    /\ lapsed' = (lapsed \/ key.owner = i)
    /\ clean' = "no"
    /\ UNCHANGED <<key, result, level, override, risk, inbox, req, faults>>

\* Mutant: the key is set without an expiry.
AgedNever(k) == k

Aged(k) ==
    IF k.ttl <= 1 THEN NoKey ELSE [k EXCEPT !.ttl = @ - 1]

\* A tick passes for the key, the overrides and the loops; no loop is more
\* than MaxLag late.
Tick ==
    /\ \A i \in Instance : Up(i) => timer[i] > -MaxLag
    /\ key' = Aged(key)
    /\ override' = [i \in Instance |-> IF override[i] > 0 THEN override[i] - 1 ELSE override[i]]
    /\ timer' = [i \in Instance |-> IF Up(i) THEN timer[i] - 1 ELSE timer[i]]
    /\ UNCHANGED <<pc, result, level, risk, inbox, req, faults, lapsed, clean>>

Election(i) == TrySet(i) \/ Get(i) \/ Expire(i)
Round(i) == Check(i) \/ Evaluate(i) \/ StoreResult(i) \/ Publish(i)

Next ==
    \/ \E i \in Instance :
          \/ TrySet(i) \/ Get(i) \/ Expire(i) \/ ElectionError(i)
          \/ Check(i) \/ Evaluate(i) \/ StoreResult(i) \/ Publish(i)
          \/ ClearOverride(i) \/ Ingest(i) \/ Sweep(i)
          \/ Deliver(i) \/ LoseMessages(i) \/ Crash(i) \/ Restart(i)
          \/ \E q \in Request, l \in Level : Update(q, i, l)
    \/ \E q \in Request : UpdateStore(q) \/ UpdatePublish(q) \/ UpdateAnswer(q)
    \/ Tick

Spec == Init /\ [][Next]_vars

\* The event loop of every instance runs what is ready, and time passes.
FairSpec ==
    /\ Spec
    /\ WF_vars(Tick)
    /\ \A i \in Instance : WF_vars(Election(i)) /\ WF_vars(Round(i)) /\ WF_vars(Deliver(i))
    /\ \A q \in Request : WF_vars(UpdateStore(q) \/ UpdatePublish(q) \/ UpdateAnswer(q))

----------------------------------------------------------------------------
(* Properties.                                                              *)

\* Types; a stopped instance has neither overrides nor requests nor messages,
\* and a running loop is never more than MaxLag late.
TypeOK ==
    /\ key \in Keys
    /\ pc \in [Instance -> {"down", "sleep", "get", "expire",
                            "check", "read", "store", "publish"}]
    /\ timer \in [Instance -> (-MaxLag)..Interval]
    /\ result \in [Instance -> Level]
    /\ level \in [Instance -> Level]
    /\ override \in [Instance -> {NoOverride} \cup 0..OverrideTTL]
    /\ risk \in Level
    /\ inbox \in [Instance -> Seq(Level)]
    /\ req \in [Request -> [pc : {"idle", "store", "publish", "answer", "done", "failed"},
                            inst : Instance \cup {Nobody}, level : Level]]
    /\ faults \in 0..MaxFaults
    /\ lapsed \in BOOLEAN
    /\ clean \in {"no", "levels", "stored"}
    /\ \A i \in Instance : ~ Up(i) => override[i] = NoOverride /\ inbox[i] = << >>
    /\ \A q \in Request : Active(q) => req[q].inst \in Instance /\ Up(req[q].inst)

\* _am_leader elects one leader at a time, although it is three calls, as long
\* as the key outlives two late rounds and a sleep, no election met an error
\* and no instance came back while its own key was still there.
OneLeaderUnlessLapsed ==
    LeaderTTL > Interval + 2 * MaxLag /\ ~ lapsed =>
        \A i, j \in Instance : Leading(i) /\ Leading(j) => i = j

\* A round that met no other round, no operator and no lost message leaves all
\* running instances with one level, which Redis serves too if it was stored.
SettledLevelsAgree ==
    /\ clean # "no"
    /\ \A i \in Instance : ~ Leading(i) /\ inbox[i] = << >>
    /\ \A q \in Request : ~ Active(q)
    =>
        /\ \A i, j \in Instance : Up(i) /\ Up(j) => level[i] = level[j]
        /\ clean = "stored" => \A i \in Instance : Up(i) => level[i] = risk

\* As long as one instance keeps running, some instance evaluates the ghat over
\* and over: no crashed leader and no forgotten override stops the engine.
EngineTakesOver ==
    (\E i \in Instance : <>[]Up(i)) => []<>(\E i \in Instance : pc[i] = "store")

\* SYSTEM_DOCUMENTATION.md: "Operator override always wins for 5 minutes".  So
\* while an override is in force, whichever instance took it, the level an
\* instance serves changes only to that of another operator or of the override.
OverrideWins ==
    [][\A i, j \in Instance : InForce(j) /\ level'[i] # level[i] =>
          \/ \E q \in Request, l \in Level : Update(q, i, l)
          \/ level'[i] = level[j]]_vars
=============================================================================
