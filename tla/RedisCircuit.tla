---------------------------- MODULE RedisCircuit ---------------------------
(* redis_manager.py and its users that only watch it: the circuit breaker   *)
(* of each instance with its reconnect loop, redis_available() as the       *)
(* pub/sub subscriber polls it, the health guardian, and the sliding-window *)
(* rate limiter that all instances share.  A step is what runs between two  *)
(* awaits; the script of the limiter is one step of Redis.                  *)
EXTENDS Integers, FiniteSets

CONSTANTS
    Instance,   \* API replicas
    MaxRequests,\* bound on the rate-limited requests of one key
    Nobody,     \* no instance yet
    Limit,      \* limit of the key
    Window,     \* window_seconds
    MaxDelay,   \* longest time from time.time() to the script, clock skew included
    MaxTime,    \* bound on the clock
    MaxFaults   \* bound on outages and lost replies

Request == 1..MaxRequests   \* numbered as they arrive

ASSUME LimitAssumption == Limit \in Nat
ASSUME WindowAssumption == Window \in Nat \ {0} /\ MaxDelay \in 0..Window
ASSUME BoundAssumption == MaxRequests \in Nat /\ MaxTime \in Nat /\ MaxFaults \in Nat
ASSUME NobodyAssumption == Nobody \notin Instance

VARIABLES
    redis,      \* "up", "refusing" connections, or "hanging" (also MISCONF)
    circuit,    \* _circuit_open of each instance
    loop,       \* _reconnect_loop
    probe,      \* redis_available() called by _subscriber_loop
    available,  \* what redis_available() last answered
    health,     \* health_state["redis"]["status"]
    req,        \* the rate-limited requests
    zset,       \* the key: who asked, and when by its own clock
    expires,    \* when the key expires
    clock,
    admitted,   \* ghost: the requests let through, and when they were counted
    faults

vars == <<redis, circuit, loop, probe, available, health, req, zset,
          expires, clock, admitted, faults>>

watchers == <<loop, probe, available, health>>
limiter == <<req, zset, expires, admitted>>

Fresh == [pc |-> "idle", inst |-> Nobody, now |-> 0, at |-> 0, ok |-> FALSE]

\* Answered; `admitted` tells how.
Done == [Fresh EXCEPT !.pc = "done"]

Init ==
    /\ redis = "up"
    /\ circuit = [i \in Instance |-> "closed"]
    /\ loop = [i \in Instance |-> "asleep"]
    /\ probe = [i \in Instance |-> "asleep"]
    /\ available = [i \in Instance |-> FALSE]
    /\ health = [i \in Instance |-> "unknown"]
    /\ req = [q \in Request |-> Fresh]
    /\ zset = {}
    /\ expires = 0
    /\ clock = 0
    /\ admitted = {}
    /\ faults = 0

----------------------------------------------------------------------------
(* Redis and time.                                                          *)

Outage ==
    /\ faults < MaxFaults
    /\ redis = "up"
    /\ redis' \in {"refusing", "hanging"}
    /\ faults' = faults + 1
    /\ UNCHANGED <<circuit, watchers, limiter, clock>>

Recover ==
    /\ redis # "up"
    /\ redis' = "up"
    /\ UNCHANGED <<circuit, watchers, limiter, clock, faults>>

InFlight(i) == {q \in Request :
    req[q].inst = i /\ req[q].pc \in {"sent", "stalled", "replied"}}

\* The socket and retry limits bound how long a call takes: time stops for one
\* that is as late as it can be.
Tick ==
    /\ clock < MaxTime
    /\ \A i \in Instance : \A q \in InFlight(i) : clock < req[q].now + MaxDelay
    /\ clock' = clock + 1
    /\ zset' = IF clock' >= expires THEN {} ELSE zset
    /\ UNCHANGED <<redis, circuit, watchers, req, expires, admitted, faults>>

----------------------------------------------------------------------------
(* The circuit breaker.                                                     *)

\* _safe() and redis_available() trip on a time-out or an error reply.  The
\* ConnectionError they name is Python's, not redis-py's, so that a refused
\* connection ends in `except Exception` and leaves the circuit as it is.
Tripped(i) == [circuit EXCEPT ![i] = "open"]

\* _reconnect_loop wakes up and goes on only if the circuit is open.
Wake(i) ==
    /\ loop[i] = "asleep"
    /\ circuit[i] = "open"
    /\ loop' = [loop EXCEPT ![i] = "pinging"]
    /\ UNCHANGED <<redis, circuit, probe, available, health, limiter, clock, faults>>

Ping(i) ==
    /\ loop[i] = "pinging"
    /\ loop' = [loop EXCEPT ![i] = IF redis = "up" THEN "swapping" ELSE "asleep"]
    /\ UNCHANGED <<redis, circuit, probe, available, health, limiter, clock, faults>>

\* Mutant: the new client is installed, the circuit stays open.
SwapOnly(i) ==
    /\ loop[i] = "swapping"
    /\ loop' = [loop EXCEPT ![i] = "asleep"]
    /\ UNCHANGED <<redis, circuit, probe, available, health, limiter, clock, faults>>

\* The old client is closed, which may break the calls that still use it, the
\* new one installed and the circuit closed, whatever tripped it meanwhile.
Swap(i) ==
    /\ loop[i] = "swapping"
    /\ loop' = [loop EXCEPT ![i] = "asleep"]
    /\ circuit' = [circuit EXCEPT ![i] = "closed"]
    /\ \E broken \in SUBSET InFlight(i) :
        req' = [q \in Request |->
            IF q \in broken THEN Done ELSE req[q]]
    /\ UNCHANGED <<redis, probe, available, health, zset, expires, clock,
                   admitted, faults>>

\* redis_available(): an open circuit answers at once ...
ProbeStart(i) ==
    /\ probe[i] = "asleep"
    /\ IF circuit[i] = "open"
       THEN available' = [available EXCEPT ![i] = FALSE] /\ UNCHANGED probe
       ELSE probe' = [probe EXCEPT ![i] = "pinging"] /\ UNCHANGED available
    /\ UNCHANGED <<redis, circuit, loop, health, limiter, clock, faults>>

\* ... and a ping closes it, trips it, or says nothing about it.
ProbeEnd(i) ==
    /\ probe[i] = "pinging"
    /\ probe' = [probe EXCEPT ![i] = "asleep"]
    /\ available' = [available EXCEPT ![i] = redis = "up"]
    /\ circuit' = CASE redis = "up" -> [circuit EXCEPT ![i] = "closed"]
                    [] redis = "hanging" -> Tripped(i)
                    [] redis = "refusing" -> circuit
    /\ UNCHANGED <<redis, loop, health, limiter, clock, faults>>

\* redis_health(); nothing else depends on its pings, hence no steps of its own.
RedisHealth(i) == IF circuit[i] = "closed" /\ redis = "up" THEN "healthy" ELSE "unhealthy"

\* The health guardian.
Check(i) ==
    /\ health' = [health EXCEPT ![i] = RedisHealth(i)]
    /\ UNCHANGED <<redis, circuit, loop, probe, available, limiter, clock, faults>>

----------------------------------------------------------------------------
(* check_rate_limit().                                                      *)

\* An open circuit denies; otherwise the request takes its time stamp.
Ask(q, i) ==
    /\ req[q].pc = "idle"
    /\ \A p \in 1..(q - 1) : req[p].pc # "idle"
    /\ req' = [req EXCEPT ![q] =
         IF circuit[i] = "open"
         THEN Done
         ELSE [Fresh EXCEPT !.pc = "sent", !.inst = i, !.now = clock]]
    /\ UNCHANGED <<redis, circuit, watchers, zset, expires, clock, admitted, faults>>

\* ZREMRANGEBYSCORE -inf (now - window)
Recent(now) == {e \in zset : e.now > now - Window}

Room(entries) == Cardinality(entries) < Limit

\* The script.  redis-py may run it again for the same request, whose entry,
\* if it is still there, then counts against itself.
Execute(q) ==
    /\ req[q].pc = "sent"
    /\ redis = "up"
    /\ LET now == req[q].now
           recent == Recent(now)
           ok == Room(recent)
       IN /\ zset' = IF ok
                     THEN {e \in recent : e.uid # q} \cup {[uid |-> q, now |-> now]}
                     ELSE recent
          /\ expires' = IF ok THEN clock + Window + 1 ELSE expires
          /\ req' = [req EXCEPT ![q].pc = "replied", ![q].ok = ok, ![q].at = clock]
    /\ UNCHANGED <<redis, circuit, watchers, clock, admitted, faults>>

Answered(q, ok) ==
    /\ req' = [req EXCEPT ![q] = Done]
    /\ admitted' = IF ok THEN admitted \cup {[uid |-> q, at |-> req[q].at]} ELSE admitted

Reply(q) ==
    /\ req[q].pc = "replied"
    /\ Answered(q, req[q].ok)
    /\ UNCHANGED <<redis, circuit, watchers, zset, expires, clock, faults>>

\* The script ran, but its reply does not arrive ...
LoseReply(q) ==
    /\ req[q].pc = "replied"
    /\ faults < MaxFaults
    /\ faults' = faults + 1
    /\ req' = [req EXCEPT ![q].pc = "stalled"]
    /\ UNCHANGED <<redis, circuit, watchers, zset, expires, clock, admitted>>

\* ... or Redis hangs before it runs.
Stall(q) ==
    /\ req[q].pc = "sent"
    /\ redis = "hanging"
    /\ req' = [req EXCEPT ![q].pc = "stalled"]
    /\ UNCHANGED <<redis, circuit, watchers, zset, expires, clock, admitted, faults>>

Resend(q) ==
    /\ req[q].pc = "stalled"
    /\ redis # "hanging"
    /\ req' = [req EXCEPT ![q].pc = "sent"]
    /\ UNCHANGED <<redis, circuit, watchers, zset, expires, clock, admitted, faults>>

\* Mutant: Redis out of reach means allowed, as in the old code.
TimeOutOpen(q) ==
    /\ req[q].pc = "stalled"
    /\ circuit' = Tripped(req[q].inst)
    /\ req' = [req EXCEPT ![q] = Done]
    /\ admitted' = admitted \cup {[uid |-> q, at |-> clock]}
    /\ UNCHANGED <<redis, watchers, zset, expires, clock, faults>>

\* The retries are used up: the circuit opens, also if Redis is back, and the
\* request is denied.
TimeOut(q) ==
    /\ req[q].pc = "stalled"
    /\ circuit' = Tripped(req[q].inst)
    /\ Answered(q, FALSE)
    /\ UNCHANGED <<redis, watchers, zset, expires, clock, faults>>

Refused(q) ==
    /\ req[q].pc = "sent"
    /\ redis = "refusing"
    /\ Answered(q, FALSE)
    /\ UNCHANGED <<redis, circuit, watchers, zset, expires, clock, faults>>

----------------------------------------------------------------------------
Watch(i) ==
    \/ Wake(i) \/ Ping(i) \/ Swap(i)
    \/ ProbeStart(i) \/ ProbeEnd(i) \/ Check(i)

Serve(q) == Execute(q) \/ Reply(q) \/ Stall(q) \/ TimeOut(q) \/ Refused(q)

Next ==
    \/ Outage \/ Recover \/ Tick
    \/ \E i \in Instance : Watch(i)
    \/ \E q \in Request :
        \/ \E i \in Instance : Ask(q, i)
        \/ Serve(q) \/ LoseReply(q) \/ Resend(q)

\* The loops never end, a call comes to an end by its socket and retry limits,
\* and nothing is assumed of Redis, of time or of arrivals.
Fairness ==
    /\ \A i \in Instance :
        /\ WF_vars(Wake(i)) /\ WF_vars(Ping(i)) /\ WF_vars(Swap(i))
        /\ WF_vars(ProbeStart(i)) /\ WF_vars(ProbeEnd(i))
        /\ WF_vars(Check(i))
    /\ \A q \in Request : WF_vars(Serve(q))

Spec == Init /\ [][Next]_vars /\ Fairness

----------------------------------------------------------------------------
(* Properties.                                                              *)

\* The types of the variables; the key never holds more entries than the limit.
TypeOK ==
    /\ redis \in {"up", "refusing", "hanging"}
    /\ circuit \in [Instance -> {"open", "closed"}]
    /\ loop \in [Instance -> {"asleep", "pinging", "swapping"}]
    /\ probe \in [Instance -> {"asleep", "pinging"}]
    /\ available \in [Instance -> BOOLEAN]
    /\ health \in [Instance -> {"unknown", "healthy", "unhealthy"}]
    /\ req \in [Request ->
         [pc : {"idle", "sent", "stalled", "replied", "done"},
          inst : Instance \cup {Nobody}, now : 0..MaxTime, at : 0..MaxTime, ok : BOOLEAN]]
    /\ zset \in SUBSET [uid : Request, now : 0..MaxTime]
    /\ Cardinality(zset) <= Limit
    /\ expires \in 0..(MaxTime + Window + 1)
    /\ clock \in 0..MaxTime
    /\ admitted \in SUBSET [uid : Request, at : 0..MaxTime]
    /\ faults \in 0..MaxFaults

\* Types; and check_rate_limit admits at most Limit requests in any stretch of time that
\* is shorter than the window by the longest delay: scripts of several
\* instances run in another order than their time stamps, a late cutoff removes
\* entries an early time stamp would count, replies are lost and scripts run
\* twice, and no failure of Redis lets a request through uncounted.
AdmittedWithinLimit ==
    /\ TypeOK
    /\ \A t \in 0..MaxTime :
        Cardinality({g \in admitted : t <= g.at /\ g.at < t + Window - MaxDelay}) <= Limit

\* Once Redis stays up every instance closes its circuit, the subscriber finds
\* Redis available and /health says so, whether the outage opened the circuit
\* (time-outs) or not (refused connections), and although calls from before the
\* recovery trip it late.
Reconnects ==
    <>[](redis = "up") =>
        \A i \in Instance :
            <>[](circuit[i] = "closed" /\ available[i] /\ health[i] = "healthy")
=============================================================================
