--------------------------- MODULE AdmissionGate ---------------------------
(* One AdmissionGate of app/core/admission.py: slot(), _acquire() and       *)
(* _release() run by the requests of one event loop, over the asyncio       *)
(* semaphore of Python 3.11 (external).  A step is what runs between two    *)
(* suspensions of a coroutine.  wait_for() runs sem.acquire() in a task of  *)
(* its own, so a request is two coroutines: the inner one that acquires     *)
(* and the outer one that awaits it with a timer.                           *)
EXTENDS Naturals, FiniteSets, Sequences, SequencesExt

CONSTANTS Request,        \* the requests, each arriving at most once
          MaxConcurrent,  \* max_concurrent of the gate
          MaxWaiters      \* max_waiters; 0 also stands for wait_ms = 0

ASSUME MaxConcurrentAssumption == MaxConcurrent \in Nat \ {0}
ASSUME MaxWaitersAssumption == MaxWaiters \in Nat
ASSUME RequestAssumption == IsFiniteSet(Request)

VARIABLES
    value,     \* sem._value: permits nobody owns
    queue,     \* sem._waiters whose future is still pending, oldest first
    pc,        \* where each request stands
    lane,      \* which wait_for() it is in: "fast" (0.1 ms), "slow" (wait_ms)
    waiting,   \* _stats.waiting
    inFlight   \* _stats.in_flight

vars == <<value, queue, pc, lane, waiting, inFlight>>

\* "task": the inner coroutine is scheduled; "queued": its future is pending;
\* "woken": the future has a permit; "acquired": the inner coroutine is done;
\* "expired": it was cancelled by the timer, the outer one has yet to run.
PC == {"idle", "task", "queued", "woken", "acquired", "expired",
       "holding", "served", "rejected"}

Owners == {r \in Request : pc[r] \in {"woken", "acquired", "holding"}}

InSlowWait == {r \in Request :
    lane[r] = "slow" /\ pc[r] \in {"task", "queued", "woken", "acquired", "expired"}}

Holding == {r \in Request : pc[r] = "holding"}

Init ==
    /\ value = MaxConcurrent
    /\ queue = << >>
    /\ pc = [r \in Request |-> "idle"]
    /\ lane = [r \in Request |-> "none"]
    /\ waiting = 0
    /\ inFlight = 0

----------------------------------------------------------------------------
(* The semaphore (external): asyncio.Semaphore of Python 3.11.              *)

Locked == value = 0 \/ \E r \in Request : pc[r] \in {"queued", "woken"}

\* _wake_up_next() called with v free permits: the oldest pending waiter, if
\* there is one, receives a permit at once.
WakeNext(v, q, p) ==
    \/ /\ q = << >>
       /\ value' = v
       /\ queue' = q
       /\ pc' = p
    \/ /\ q # << >>
       /\ value' = v - 1
       /\ queue' = Tail(q)
       /\ pc' = [p EXCEPT ![Head(q)] = "woken"]

\* Mutant: acquire() looks at the pending waiters only, not at the value.
RunTaskUnchecked(r) ==
    /\ pc[r] = "task"
    /\ queue = << >>
    /\ value' = IF value > 0 THEN value - 1 ELSE 0
    /\ pc' = [pc EXCEPT ![r] = "acquired"]
    /\ UNCHANGED <<queue, lane, waiting, inFlight>>

\* First step of acquire() in the inner task.
RunTask(r) ==
    /\ pc[r] = "task"
    /\ \/ /\ ~ Locked
          /\ value' = value - 1
          /\ pc' = [pc EXCEPT ![r] = "acquired"]
          /\ UNCHANGED queue
       \/ /\ Locked
          /\ queue' = Append(queue, r)
          /\ pc' = [pc EXCEPT ![r] = "queued"]
          /\ UNCHANGED value
    /\ UNCHANGED <<lane, waiting, inFlight>>

\* Mutant: a woken waiter does not pass a spare permit on.
WakeResumeAlone(r) ==
    /\ pc[r] = "woken"
    /\ pc' = [pc EXCEPT ![r] = "acquired"]
    /\ UNCHANGED <<value, queue, lane, waiting, inFlight>>

\* acquire() resumes after its future got a result; it passes a spare permit on.
WakeResume(r) ==
    /\ pc[r] = "woken"
    /\ LET p == [pc EXCEPT ![r] = "acquired"]
       IN  \/ value > 0 /\ WakeNext(value, queue, p)
           \/ value = 0 /\ pc' = p /\ UNCHANGED <<value, queue>>
    /\ UNCHANGED <<lane, waiting, inFlight>>

\* Mutant: the time-out of a woken waiter forgets the permit it was given.
TimeoutLosingPermit(r) ==
    /\ \/ \E k \in 1..Len(queue) :
             queue[k] = r /\ queue' = RemoveAt(queue, k)
       \/ pc[r] = "woken" /\ UNCHANGED queue
    /\ pc' = [pc EXCEPT ![r] = "expired"]
    /\ UNCHANGED <<value, lane, waiting, inFlight>>

\* Mutant: a cancelled future stays in the deque.
TimeoutLeavingFuture(r) ==
    /\ pc[r] = "queued"
    /\ pc' = [pc EXCEPT ![r] = "expired"]
    /\ UNCHANGED <<value, queue, lane, waiting, inFlight>>

\* Mutant: the permit a time-out gives back wakes nobody.
TimeoutWakingNobody(r) ==
    /\ \/ \E k \in 1..Len(queue) :
             /\ queue[k] = r
             /\ queue' = RemoveAt(queue, k)
             /\ UNCHANGED value
       \/ /\ pc[r] = "woken"
          /\ value' = value + 1
          /\ UNCHANGED queue
    /\ pc' = [pc EXCEPT ![r] = "expired"]
    /\ UNCHANGED <<lane, waiting, inFlight>>

\* The timer of wait_for() fires and cancels the inner task.  A future that
\* already had a permit gives it back; an inner task that is done is left alone.
Timeout(r) ==
    /\ \/ \E k \in 1..Len(queue) :
             /\ queue[k] = r
             /\ queue' = RemoveAt(queue, k)
             /\ pc' = [pc EXCEPT ![r] = "expired"]
             /\ UNCHANGED value
       \/ /\ pc[r] = "woken"
          /\ WakeNext(value + 1, queue, [pc EXCEPT ![r] = "expired"])
    /\ UNCHANGED <<lane, waiting, inFlight>>

----------------------------------------------------------------------------
(* The gate.                                                                *)

\* The slow path up to the start of the second wait_for(): the check of the
\* waiter cap and the increment are one step (nothing is awaited between them).
SlowEntry(r) ==
    \/ /\ waiting >= MaxWaiters
       /\ pc' = [pc EXCEPT ![r] = "rejected"]
       /\ lane' = [lane EXCEPT ![r] = "none"]
       /\ UNCHANGED <<value, queue, waiting, inFlight>>
    \/ /\ waiting < MaxWaiters
       /\ waiting' = waiting + 1
       /\ pc' = [pc EXCEPT ![r] = "task"]
       /\ lane' = [lane EXCEPT ![r] = "slow"]
       /\ UNCHANGED <<value, queue, inFlight>>

\* slot() is entered: _acquire() up to its first suspension.
Arrive(r) ==
    /\ pc[r] = "idle"
    /\ \/ /\ value > 0
          /\ pc' = [pc EXCEPT ![r] = "task"]
          /\ lane' = [lane EXCEPT ![r] = "fast"]
          /\ UNCHANGED <<value, queue, waiting, inFlight>>
       \/ /\ value = 0
          /\ SlowEntry(r)

\* _acquire() returns True and slot() yields to the caller's body.
Enter(r) ==
    /\ pc[r] = "acquired"
    /\ pc' = [pc EXCEPT ![r] = "holding"]
    /\ lane' = [lane EXCEPT ![r] = "none"]
    /\ waiting' = IF lane[r] = "slow" THEN waiting - 1 ELSE waiting
    /\ inFlight' = inFlight + 1
    /\ UNCHANGED <<value, queue>>

\* The fast attempt timed out: fall through to the slow path.
FallThrough(r) ==
    /\ pc[r] = "expired"
    /\ lane[r] = "fast"
    /\ SlowEntry(r)

\* Mutant: the decrement of waiting is not in a finally block.
GiveUpUncounted(r) ==
    /\ pc[r] = "expired"
    /\ lane[r] = "slow"
    /\ pc' = [pc EXCEPT ![r] = "rejected"]
    /\ lane' = [lane EXCEPT ![r] = "none"]
    /\ UNCHANGED <<value, queue, waiting, inFlight>>

\* The slow attempt timed out: _acquire() returns False and slot() raises 503.
GiveUp(r) ==
    /\ pc[r] = "expired"
    /\ lane[r] = "slow"
    /\ pc' = [pc EXCEPT ![r] = "rejected"]
    /\ lane' = [lane EXCEPT ![r] = "none"]
    /\ waiting' = waiting - 1
    /\ UNCHANGED <<value, queue, inFlight>>

\* Mutant: _release() runs twice for one slot.
LeaveTwice(r) ==
    /\ pc[r] = "holding"
    /\ inFlight' = inFlight - 1
    /\ pc' = [pc EXCEPT ![r] = "served"]
    /\ value' = value + 2
    /\ UNCHANGED <<queue, lane, waiting>>

\* The body ends, by return or exception: the finally block and _release().
Leave(r) ==
    /\ pc[r] = "holding"
    /\ inFlight' = inFlight - 1
    /\ WakeNext(value + 1, queue, [pc EXCEPT ![r] = "served"])
    /\ UNCHANGED <<lane, waiting>>

Next ==
    \E r \in Request :
        \/ Arrive(r) \/ RunTask(r) \/ WakeResume(r) \/ Timeout(r)
        \/ Enter(r) \/ FallThrough(r) \/ GiveUp(r) \/ Leave(r)

\* The event loop runs every ready coroutine and every body ends.  Nothing is
\* assumed of timers or arrivals: a timer may never fire.
Fairness ==
    \A r \in Request :
        /\ WF_vars(RunTask(r)) /\ WF_vars(WakeResume(r))
        /\ WF_vars(Enter(r)) /\ WF_vars(FallThrough(r)) /\ WF_vars(GiveUp(r))
        /\ WF_vars(Leave(r))

Spec == Init /\ [][Next]_vars

FairSpec == Spec /\ Fairness

----------------------------------------------------------------------------
(* Properties.                                                              *)

\* The types of the variables, and the extent of every counter.
TypeOK ==
    /\ value \in 0..MaxConcurrent
    /\ queue \in Seq(Request)
    /\ pc \in [Request -> PC]
    /\ lane \in [Request -> {"none", "fast", "slow"}]
    /\ waiting \in Nat
    /\ inFlight \in Nat

\* A permit is either free or owned by one request, through every time-out
\* that races a release: the gate neither leaks a slot for good (a gate of 40
\* that slowly becomes a gate of 0) nor admits one request too many.
PermitConservation == value + Cardinality(Owners) = MaxConcurrent

\* No permit lies idle while a request waits for one, unless some request was
\* already woken and will pass the spare permit on when it runs.
NoStrandedPermit ==
    value > 0 /\ queue # << >> => \E r \in Request : pc[r] = "woken"

\* The deque holds exactly the requests whose future is pending, once each: a
\* request that timed out is never woken later.
QueueConsistent ==
    /\ \A k \in 1..Len(queue) : pc[queue[k]] = "queued"
    /\ \A r \in Request : pc[r] = "queued" => \E k \in 1..Len(queue) : queue[k] = r
    /\ \A j, k \in 1..Len(queue) : queue[j] = queue[k] => j = k

\* stats() tells the truth: waiting counts the requests inside the slow wait,
\* and never more of them than the cap, and inFlight those in the body.
CountersExact ==
    /\ waiting = Cardinality(InSlowWait)
    /\ waiting <= MaxWaiters
    /\ inFlight = Cardinality(Holding)

\* Every request that arrived is answered, even if no timer ever fires: a
\* waiter whose wake-up is lost would wait for ever.
Answered ==
    \A r \in Request :
        pc[r] # "idle" ~> pc[r] \in {"served", "rejected"}

\* The gate implements the bounded set of permit owners: a request is inside
\* from the moment its future gets a permit.
StatusOf(p) ==
    CASE p \in {"woken", "acquired", "holding"} -> "inside"
      [] p = "served" -> "served"
      [] p = "rejected" -> "refused"
      [] OTHER -> "out"

status == [r \in Request |-> StatusOf(pc[r])]

Abstract == INSTANCE BoundedGate
    WITH Request <- Request, MaxConcurrent <- MaxConcurrent, status <- status

ImplementsBoundedGate == Abstract!Spec
=============================================================================
