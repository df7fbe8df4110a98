----------------------------- MODULE CrowdProofs ----------------------------
(* The two halves of crowd_broadcast_loop, each for every value of its      *)
(* constants.  First CrowdControl: _am_leader elects one leader at a time   *)
(* when the key outlives two late rounds and a sleep, for any number of     *)
(* instances and any of the durations.  The argument is about the remaining *)
(* life of the key: while its owner runs, it exceeds the time until the     *)
(* owner refreshes it.  Then a round that nothing interfered with leaves    *)
(* one level on every instance.                                             *)
(* Second CrowdRisk, the numbers those rounds produce: warnings are alerted,*)
(* surges last their window and a steady crowd has no trend.  The modules   *)
(* share no name, and neither half uses the other's state.                  *)
EXTENDS CrowdControl, CrowdRisk, SequenceTheorems, TLAPS

States == {"down", "sleep", "get", "expire", "check", "read", "store", "publish"}
Requests == [pc : {"idle", "store", "publish", "answer", "done", "failed"},
             inst : Instance \cup {Nobody}, level : Level]

\* TypeOK, conjunct by conjunct.
LoopTypes ==
    /\ key \in Keys
    /\ pc \in [Instance -> States]
    /\ timer \in [Instance -> (-MaxLag)..Interval]
    /\ result \in [Instance -> Level]
    /\ lapsed \in BOOLEAN

LevelTypes ==
    /\ level \in [Instance -> Level]
    /\ override \in [Instance -> {NoOverride} \cup 0..OverrideTTL]
    /\ risk \in Level
    /\ inbox \in [Instance -> Seq(Level)]
    /\ req \in [Request -> Requests]
    /\ faults \in 0..MaxFaults
    /\ clean \in {"no", "levels", "stored"}

StoppedHoldNothing ==
    /\ \A i \in Instance : ~ Up(i) => override[i] = NoOverride /\ inbox[i] = << >>
    /\ \A q \in Request : Active(q) => req[q].inst \in Instance /\ Up(req[q].inst)

\* A loop that is awake has slept its time.
AwakeIsDue == \A i \in Instance : pc[i] \notin {"down", "sleep"} => timer[i] <= 0

\* How long instance i may take, at most, until it refreshes its key: the rest
\* of this round, and after a refresh also the next sleep and round.
Due(i) == timer[i] + MaxLag + (IF Leading(i) THEN Interval + MaxLag ELSE 0)

LongLived == LeaderTTL > Interval + 2 * MaxLag

\* The owner's key outlives that time, and who leads or is about to is the owner.
LeaseHeld ==
    LongLived /\ ~ lapsed =>
        \A i \in Instance :
            /\ Leading(i) \/ pc[i] = "expire" => key.owner = i
            /\ Up(i) /\ key.owner = i => key.ttl > Due(i)

Typing == LoopTypes /\ LevelTypes /\ StoppedHoldNothing
LeaseInv == LoopTypes /\ AwakeIsDue /\ LeaseHeld

----------------------------------------------------------------------------
(* Types.                                                                   *)

LEMMA KeyFacts ==
    /\ NoKey \in Keys
    /\ \A i \in Instance : KeyOf(i) \in Keys
    /\ \A k \in Keys : Aged(k) \in Keys
    /\ \A k \in Keys : k # NoKey => [k EXCEPT !.ttl = LeaderTTL] \in Keys
BY TimeAssumption DEF NoKey, KeyOf, Keys, Aged

LEMMA TypingInit == Init => Typing
<1> SUFFICES ASSUME Init PROVE Typing
  OBVIOUS
<1> USE LevelAssumption, TimeAssumption, BoundsAssumption DEF Init
<1>1. LoopTypes
  <2>1. key \in Keys /\ lapsed \in BOOLEAN
    BY KeyFacts
  <2>2. Interval \in (-MaxLag)..Interval
    OBVIOUS
  <2>3. /\ pc \in [Instance -> States]
        /\ timer \in [Instance -> (-MaxLag)..Interval]
        /\ result \in [Instance -> Level]
    BY <2>2 DEF States
  <2>4. QED
    BY <2>1, <2>3 DEF LoopTypes
<1>2. LevelTypes
  <2>1. Idle \in Requests
    BY DEF Idle, Requests
  <2>2. inbox \in [Instance -> Seq(Level)]
    OBVIOUS
  <2>3. QED
    BY <2>1, <2>2 DEF LevelTypes, NoOverride
<1>3. StoppedHoldNothing
  BY DEF StoppedHoldNothing, Up, Active, Idle
<1>4. QED
  BY <1>1, <1>2, <1>3 DEF Typing

\* The key, the loops and what a round computes.
LEMMA LoopTypesStep == LoopTypes /\ level \in [Instance -> Level] /\ [Next]_vars => LoopTypes'
<1> SUFFICES ASSUME LoopTypes, level \in [Instance -> Level], [Next]_vars
             PROVE  LoopTypes'
  OBVIOUS
<1> USE LevelAssumption, TimeAssumption, KeyFacts DEF LoopTypes, States, Goto, SleepAgain
<1>1. ASSUME NEW i \in Instance, TrySet(i) PROVE LoopTypes'
  BY <1>1 DEF TrySet
<1>2. ASSUME NEW i \in Instance, Get(i) PROVE LoopTypes'
  BY <1>2 DEF Get
<1>3. ASSUME NEW i \in Instance, Expire(i) PROVE LoopTypes'
  BY <1>3 DEF Expire
<1>4. ASSUME NEW i \in Instance, ElectionError(i) PROVE LoopTypes'
  <2>1. key' \in Keys
    BY <1>4 DEF ElectionError
  <2>2. QED
    BY <1>4, <2>1 DEF ElectionError
<1>5. ASSUME NEW i \in Instance, Check(i) PROVE LoopTypes'
  BY <1>5 DEF Check
<1>6. ASSUME NEW i \in Instance, Evaluate(i) PROVE LoopTypes'
  BY <1>6 DEF Evaluate
<1>7. ASSUME NEW i \in Instance, StoreResult(i) PROVE LoopTypes'
  BY <1>7 DEF StoreResult
<1>8. ASSUME NEW i \in Instance, Publish(i) PROVE LoopTypes'
  BY <1>8 DEF Publish
<1>9. ASSUME NEW i \in Instance,
             ClearOverride(i) \/ Ingest(i) \/ Sweep(i) \/ Deliver(i) \/ LoseMessages(i)
      PROVE LoopTypes'
  BY <1>9 DEF ClearOverride, Ingest, Sweep, Deliver, LoseMessages
<1>10. ASSUME NEW i \in Instance, Crash(i) PROVE LoopTypes'
  BY <1>10 DEF Crash
<1>11. ASSUME NEW i \in Instance, Restart(i) PROVE LoopTypes'
  BY <1>11 DEF Restart
<1>12. ASSUME NEW i \in Instance, NEW q \in Request, NEW l \in Level, Update(q, i, l)
       PROVE LoopTypes'
  BY <1>12 DEF Update
<1>13. ASSUME NEW q \in Request, UpdateStore(q) \/ UpdatePublish(q) \/ UpdateAnswer(q)
       PROVE LoopTypes'
  BY <1>13 DEF UpdateStore, UpdatePublish, UpdateAnswer
<1>14. ASSUME Tick PROVE LoopTypes'
  <2>1. \A i \in Instance : timer'[i] \in (-MaxLag)..Interval
    BY <1>14 DEF Tick, Up
  <2>2. timer' \in [Instance -> (-MaxLag)..Interval]
    BY <1>14, <2>1 DEF Tick
  <2>3. key' \in Keys
    BY <1>14 DEF Tick
  <2>4. QED
    BY <1>14, <2>2, <2>3 DEF Tick
<1>15. CASE UNCHANGED vars
  BY <1>15 DEF vars
<1>16. QED
  BY <1>1, <1>2, <1>3, <1>4, <1>5, <1>6, <1>7, <1>8, <1>9, <1>10, <1>11, <1>12,
     <1>13, <1>14, <1>15 DEF Next

\* What Broadcast does to inboxes, faults and the ghost.
LEMMA BroadcastTypes ==
    ASSUME NEW i, NEW l \in Level, LevelTypes, Broadcast(i, l)
    PROVE  /\ inbox' \in [Instance -> Seq(Level)]
           /\ faults' \in 0..MaxFaults
           /\ clean' \in {"no", "levels", "stored"}
           /\ \A j \in Instance : ~ Up(j) => inbox'[j] = inbox[j]
<1> USE DEF LevelTypes, Up
<1>1. CASE Fault /\ clean' = "no" /\ UNCHANGED inbox
  BY <1>1, BoundsAssumption DEF Fault
<1>2. CASE ~ (Fault /\ clean' = "no" /\ UNCHANGED inbox)
  <2> DEFINE to == {j \in Instance \ {i} : Up(j)}
  <2>1. /\ inbox' = [j \in Instance |-> IF j \in to THEN Append(inbox[j], l) ELSE inbox[j]]
        /\ faults' = faults /\ clean' = clean
    BY <1>2 DEF Broadcast, NoFault
  <2>2. \A j \in Instance : Append(inbox[j], l) \in Seq(Level) /\ inbox[j] \in Seq(Level)
    OBVIOUS
  <2>3. QED
    BY <2>1, <2>2
<1>3. QED
  BY <1>1, <1>2

\* Levels, overrides, messages and requests.
LEMMA LevelTypesStep == Typing /\ [Next]_vars => LevelTypes'
<1> SUFFICES ASSUME Typing, [Next]_vars
             PROVE  LevelTypes'
  OBVIOUS
<1> USE LevelAssumption, TimeAssumption, BoundsAssumption DEF Typing, LevelTypes, NoOverride
<1>1. ASSUME NEW i \in Instance, TrySet(i) \/ Get(i) \/ Expire(i) PROVE LevelTypes'
  BY <1>1 DEF TrySet, Get, Expire
<1>2. ASSUME NEW i \in Instance, ElectionError(i) PROVE LevelTypes'
  BY <1>2 DEF ElectionError, Fault
<1>3. ASSUME NEW i \in Instance, Check(i) PROVE LevelTypes'
  BY <1>3 DEF Check
<1>4. ASSUME NEW i \in Instance, Evaluate(i) PROVE LevelTypes'
  BY <1>4 DEF Evaluate
<1>5. ASSUME NEW i \in Instance, StoreResult(i) PROVE LevelTypes'
  BY <1>5 DEF StoreResult, Fault, NoFault, LoopTypes
<1>6. ASSUME NEW i \in Instance, Publish(i) PROVE LevelTypes'
  <2>1. result[i] \in Level
    BY DEF LoopTypes
  <2>2. Broadcast(i, result[i])
    BY <1>6 DEF Publish
  <2>3. /\ inbox' \in [Instance -> Seq(Level)]
        /\ faults' \in 0..MaxFaults
        /\ clean' \in {"no", "levels", "stored"}
    BY <2>1, <2>2, BroadcastTypes
  <2>4. QED
    BY <1>6, <2>3 DEF Publish
<1>7. ASSUME NEW i \in Instance, ClearOverride(i) \/ Ingest(i) \/ Sweep(i) PROVE LevelTypes'
  BY <1>7 DEF ClearOverride, Ingest, Sweep
<1>8. ASSUME NEW i \in Instance, Deliver(i) PROVE LevelTypes'
  <2>1. inbox[i] \in Seq(Level) /\ inbox[i] # << >>
    BY <1>8 DEF Deliver
  <2>2. Head(inbox[i]) \in Level /\ Tail(inbox[i]) \in Seq(Level)
    BY <2>1
  <2>3. QED
    BY <1>8, <2>2 DEF Deliver
<1>9. ASSUME NEW i \in Instance, LoseMessages(i) PROVE LevelTypes'
  <2>1. << >> \in Seq(Level)
    OBVIOUS
  <2>2. QED
    BY <1>9, <2>1 DEF LoseMessages, Fault
<1>10. ASSUME NEW i \in Instance, Crash(i) PROVE LevelTypes'
  <2>1. << >> \in Seq(Level)
    OBVIOUS
  <2>2. [Idle EXCEPT !.pc = "done"] \in Requests
    BY DEF Idle, Requests
  <2>3. req' \in [Request -> Requests]
    BY <1>10, <2>2 DEF Crash
  <2>4. clean' \in {"no", "levels", "stored"}
    BY <1>10 DEF Crash
  <2>5. faults' \in 0..MaxFaults /\ risk' \in Level
    BY <1>10 DEF Crash, Fault
  <2>6. /\ level' \in [Instance -> Level]
        /\ override' \in [Instance -> {NoOverride} \cup 0..OverrideTTL]
        /\ inbox' \in [Instance -> Seq(Level)]
    BY <1>10, <2>1 DEF Crash
  <2>7. QED
    BY <2>3, <2>4, <2>5, <2>6
<1>11. ASSUME NEW i \in Instance, Restart(i) PROVE LevelTypes'
  BY <1>11 DEF Restart
<1>12. ASSUME NEW i \in Instance, NEW q \in Request, NEW l \in Level, Update(q, i, l)
       PROVE LevelTypes'
  BY <1>12 DEF Update, Requests
<1>13. ASSUME NEW q \in Request, UpdateStore(q) PROVE LevelTypes'
  <2>1. req' \in [Request -> Requests] /\ req[q].level \in Level
    BY <1>13 DEF UpdateStore, Proceed, Requests
  <2>2. risk' \in Level /\ faults' \in 0..MaxFaults
    BY <1>13, <2>1 DEF UpdateStore, Fault, NoFault
  <2>3. QED
    BY <1>13, <2>1, <2>2 DEF UpdateStore
<1>14. ASSUME NEW q \in Request, UpdatePublish(q) PROVE LevelTypes'
  <2>1. req[q].level \in Level /\ Broadcast(req[q].inst, req[q].level)
    BY <1>14 DEF UpdatePublish, Requests
  <2>2. /\ inbox' \in [Instance -> Seq(Level)]
        /\ faults' \in 0..MaxFaults
        /\ clean' \in {"no", "levels", "stored"}
    BY <2>1, BroadcastTypes
  <2>3. QED
    BY <1>14, <2>2 DEF UpdatePublish, Proceed, Requests
<1>15. ASSUME NEW q \in Request, UpdateAnswer(q) PROVE LevelTypes'
  BY <1>15 DEF UpdateAnswer, Idle, Requests
<1>16. ASSUME Tick PROVE LevelTypes'
  BY <1>16 DEF Tick
<1>17. CASE UNCHANGED vars
  BY <1>17 DEF vars
<1>18. QED
  BY <1>1, <1>2, <1>3, <1>4, <1>5, <1>6, <1>7, <1>8, <1>9, <1>10, <1>11, <1>12,
     <1>13, <1>14, <1>15, <1>16, <1>17 DEF Next

\* Nothing is left of a stopped instance.
LEMMA StoppedStep == Typing /\ [Next]_vars => StoppedHoldNothing'
<1> SUFFICES ASSUME Typing, [Next]_vars
             PROVE  StoppedHoldNothing'
  OBVIOUS
<1> USE DEF StoppedHoldNothing, Up, Active, Goto, SleepAgain
<1>t. /\ pc \in [Instance -> States] /\ override \in [Instance -> {NoOverride} \cup 0..OverrideTTL]
      /\ inbox \in [Instance -> Seq(Level)] /\ req \in [Request -> Requests]
      /\ StoppedHoldNothing
  BY DEF Typing, LoopTypes, LevelTypes
<1>1. ASSUME NEW i \in Instance,
             TrySet(i) \/ Get(i) \/ Expire(i) \/ Check(i) \/ Evaluate(i) \/ StoreResult(i)
      PROVE StoppedHoldNothing'
  BY <1>1, <1>t DEF TrySet, Get, Expire, Check, Evaluate, StoreResult
<1>2. ASSUME NEW i \in Instance, ElectionError(i) PROVE StoppedHoldNothing'
  BY <1>2, <1>t DEF ElectionError
<1>3. ASSUME NEW i \in Instance, Publish(i) PROVE StoppedHoldNothing'
  <2>1. result[i] \in Level /\ LevelTypes
    BY DEF Typing, LoopTypes
  <2>2. \A j \in Instance : ~ Up(j) => inbox'[j] = inbox[j]
    BY <1>3, <2>1, BroadcastTypes DEF Publish
  <2>3. QED
    BY <1>3, <2>2, <1>t DEF Publish
<1>4. ASSUME NEW i \in Instance, ClearOverride(i) \/ Ingest(i) \/ Sweep(i)
      PROVE StoppedHoldNothing'
  BY <1>4, <1>t DEF ClearOverride, Ingest, Sweep
<1>5. ASSUME NEW i \in Instance, Deliver(i) \/ LoseMessages(i) PROVE StoppedHoldNothing'
  BY <1>5, <1>t DEF Deliver, LoseMessages
<1>6. ASSUME NEW i \in Instance, Crash(i) PROVE StoppedHoldNothing'
  <2>1. \A j \in Instance : ~ Up(j)' => override'[j] = NoOverride /\ inbox'[j] = << >>
    BY <1>6, <1>t DEF Crash
  <2>2. ASSUME NEW q \in Request, Active(q)' PROVE req'[q].inst \in Instance /\ pc'[req'[q].inst] # "down"
    <3>1. req'[q] = req[q] /\ Active(q) /\ req[q].inst # i
      BY <1>6, <2>2, <1>t DEF Crash, Idle, Requests
    <3>2. req[q].inst \in Instance /\ pc[req[q].inst] # "down"
      BY <3>1, <1>t
    <3>3. \A j \in Instance \ {i} : pc'[j] = pc[j]
      BY <1>6, <1>t DEF Crash
    <3>4. QED
      BY <3>1, <3>2, <3>3
  <2>3. QED
    BY <2>1, <2>2
<1>7. ASSUME NEW i \in Instance, Restart(i) PROVE StoppedHoldNothing'
  BY <1>7, <1>t DEF Restart
<1>8. ASSUME NEW i \in Instance, NEW q \in Request, NEW l \in Level, Update(q, i, l)
      PROVE StoppedHoldNothing'
  BY <1>8, <1>t DEF Update
<1>9. ASSUME NEW q \in Request, UpdateStore(q) PROVE StoppedHoldNothing'
  BY <1>9, <1>t DEF UpdateStore, Proceed, Requests
<1>10. ASSUME NEW q \in Request, UpdatePublish(q) PROVE StoppedHoldNothing'
  <2>1. req[q].level \in Level /\ LevelTypes
    BY <1>t DEF Typing, Requests
  <2>2. \A j \in Instance : ~ Up(j) => inbox'[j] = inbox[j]
    BY <1>10, <2>1, BroadcastTypes DEF UpdatePublish
  <2>3. QED
    BY <1>10, <2>2, <1>t DEF UpdatePublish, Proceed, Requests
<1>11. ASSUME NEW q \in Request, UpdateAnswer(q) PROVE StoppedHoldNothing'
  BY <1>11, <1>t DEF UpdateAnswer, Idle, Requests
<1>12. ASSUME Tick PROVE StoppedHoldNothing'
  BY <1>12, <1>t DEF Tick, NoOverride
<1>13. CASE UNCHANGED vars
  BY <1>13, <1>t DEF vars
<1>14. QED
  BY <1>1, <1>2, <1>3, <1>4, <1>5, <1>6, <1>7, <1>8, <1>9, <1>10, <1>11, <1>12, <1>13
     DEF Next

LEMMA TypingStep == Typing /\ [Next]_vars => Typing'
BY LoopTypesStep, LevelTypesStep, StoppedStep DEF Typing, LevelTypes

LEMMA TypingInvariant == Spec => []Typing
BY TypingInit, TypingStep, PTL DEF Spec

\* The type invariant: a loop is never more than MaxLag late and a stopped
\* instance holds nothing.
THEOREM TypeCorrect == Spec => []TypeOK
<1>1. Typing => TypeOK
  BY DEF Typing, LoopTypes, LevelTypes, StoppedHoldNothing, TypeOK, States, Requests
<1>2. QED
  BY TypingInvariant, <1>1, PTL

----------------------------------------------------------------------------
(* The lease.                                                               *)

LEMMA LeaseInit == Init => LeaseInv
<1> SUFFICES ASSUME Init PROVE LeaseInv
  OBVIOUS
<1>1. LoopTypes
  BY TypingInit DEF Typing
<1>2. AwakeIsDue
  BY DEF Init, AwakeIsDue
<1>3. LeaseHeld
  BY NobodyAssumption DEF Init, LeaseHeld, Leading, NoKey
<1>4. QED
  BY <1>1, <1>2, <1>3 DEF LeaseInv

\* A loop is woken only when its sleep is over, and no tick makes it less due.
LEMMA AwakeStep == LoopTypes /\ AwakeIsDue /\ [Next]_vars => AwakeIsDue'
<1> SUFFICES ASSUME LoopTypes, AwakeIsDue, [Next]_vars
             PROVE  AwakeIsDue'
  OBVIOUS
<1> USE DEF AwakeIsDue, LoopTypes, Goto, SleepAgain
<1>1. ASSUME NEW i \in Instance,
             TrySet(i) \/ Get(i) \/ Expire(i) \/ ElectionError(i)
      PROVE AwakeIsDue'
  BY <1>1 DEF TrySet, Get, Expire, ElectionError
<1>2. ASSUME NEW i \in Instance,
             Check(i) \/ Evaluate(i) \/ StoreResult(i) \/ Publish(i)
      PROVE AwakeIsDue'
  BY <1>2 DEF Check, Evaluate, StoreResult, Publish
<1>3. ASSUME NEW i \in Instance,
             ClearOverride(i) \/ Ingest(i) \/ Sweep(i) \/ Deliver(i) \/ LoseMessages(i)
      PROVE AwakeIsDue'
  BY <1>3 DEF ClearOverride, Ingest, Sweep, Deliver, LoseMessages
<1>4. ASSUME NEW i \in Instance, Crash(i) \/ Restart(i) PROVE AwakeIsDue'
  BY <1>4 DEF Crash, Restart
<1>5. ASSUME NEW i \in Instance, NEW q \in Request, NEW l \in Level, Update(q, i, l)
      PROVE AwakeIsDue'
  BY <1>5 DEF Update
<1>6. ASSUME NEW q \in Request, UpdateStore(q) \/ UpdatePublish(q) \/ UpdateAnswer(q)
      PROVE AwakeIsDue'
  BY <1>6 DEF UpdateStore, UpdatePublish, UpdateAnswer
<1>7. ASSUME Tick PROVE AwakeIsDue'
  BY <1>7, TimeAssumption DEF Tick, Up
<1>8. CASE UNCHANGED vars
  BY <1>8 DEF vars
<1>9. QED
  BY <1>1, <1>2, <1>3, <1>4, <1>5, <1>6, <1>7, <1>8 DEF Next

LEMMA LeaseStep == LeaseInv /\ [Next]_vars => LeaseHeld'
<1> SUFFICES ASSUME LeaseInv, [Next]_vars, LongLived, ~ lapsed'
             PROVE  \A j \in Instance :
                       /\ Leading(j)' \/ pc'[j] = "expire" => key'.owner = j
                       /\ Up(j)' /\ key'.owner = j => key'.ttl > Due(j)'
  BY DEF LeaseHeld, LongLived
<1> DEFINE Held == \A j \in Instance :
                      /\ Leading(j)' \/ pc'[j] = "expire" => key'.owner = j
                      /\ Up(j)' /\ key'.owner = j => key'.ttl > Due(j)'
<1>t. /\ LoopTypes /\ AwakeIsDue
      /\ \A j \in Instance : timer[j] \in Int /\ timer[j] >= -MaxLag /\ timer[j] <= Interval
      /\ LeaderTTL \in Int /\ Interval \in Nat /\ MaxLag \in Nat
      /\ LeaderTTL > Interval + 2 * MaxLag
  BY TimeAssumption DEF LeaseInv, LoopTypes, LongLived
<1>h. ~ lapsed => \A j \in Instance :
         /\ Leading(j) \/ pc[j] = "expire" => key.owner = j
         /\ Up(j) /\ key.owner = j => key.ttl > Due(j)
  BY DEF LeaseInv, LeaseHeld
<1> USE DEF Leading, Up, Due, Goto, SleepAgain
<1>1. ASSUME NEW i \in Instance, TrySet(i) PROVE Held
  <2>1. ~ lapsed /\ timer' = timer /\ timer[i] <= 0 /\ pc[i] = "sleep"
    BY <1>1 DEF TrySet
  <2>2. CASE key = NoKey /\ key' = KeyOf(i) /\ pc' = [pc EXCEPT ![i] = "check"]
    <3>1. \A j \in Instance : ~ (Leading(j) \/ pc[j] = "expire")
      BY <1>h, <2>1, <2>2, NobodyAssumption DEF NoKey
    <3>2. key'.owner = i /\ key'.ttl = LeaderTTL
      BY <2>2 DEF KeyOf
    <3>3. QED
      BY <1>t, <2>1, <2>2, <3>1, <3>2 DEF LoopTypes
  <2>3. CASE UNCHANGED key /\ pc' = [pc EXCEPT ![i] = "get"]
    BY <1>t, <1>h, <2>1, <2>3 DEF LoopTypes
  <2>4. QED
    BY <1>1, <2>2, <2>3 DEF TrySet
<1>2. ASSUME NEW i \in Instance, Get(i) PROVE Held
  BY <1>2, <1>t, <1>h DEF Get, LoopTypes
<1>3. ASSUME NEW i \in Instance, Expire(i) PROVE Held
  <2>1. key.owner = i /\ key # NoKey
    BY <1>3, <1>h, NobodyAssumption DEF Expire, NoKey
  <2>2. key'.owner = i /\ key'.ttl = LeaderTTL
    BY <1>3, <1>t, <2>1 DEF Expire, LoopTypes, Keys
  <2>3. timer[i] <= 0
    BY <1>3, <1>t DEF Expire, AwakeIsDue
  <2>4. QED
    BY <1>3, <1>t, <1>h, <2>1, <2>2, <2>3 DEF Expire, LoopTypes
<1>4. ASSUME NEW i \in Instance, ElectionError(i) PROVE FALSE
  BY <1>4 DEF ElectionError
<1>5. ASSUME NEW i \in Instance, Check(i) \/ Evaluate(i) \/ StoreResult(i) PROVE Held
  BY <1>5, <1>t, <1>h DEF Check, Evaluate, StoreResult, LoopTypes
<1>6. ASSUME NEW i \in Instance, Publish(i) PROVE Held
  <2>1. /\ ~ lapsed /\ key' = key /\ pc[i] = "publish"
        /\ pc' = [pc EXCEPT ![i] = "sleep"] /\ timer' = [timer EXCEPT ![i] = Interval]
    BY <1>6 DEF Publish
  <2>2. key.owner = i /\ key.ttl > timer[i] + MaxLag + (Interval + MaxLag)
    BY <1>h, <2>1
  <2>3. key.ttl \in Int
    BY <1>t, TimeAssumption DEF LoopTypes, Keys, NoKey
  <2>4. key.ttl > Interval + MaxLag
    BY <1>t, <2>2, <2>3
  <2>5. pc'[i] = "sleep" /\ timer'[i] = Interval
    BY <1>t, <2>1 DEF LoopTypes
  <2>6. \A j \in Instance \ {i} : pc'[j] = pc[j] /\ timer'[j] = timer[j]
    BY <1>t, <2>1 DEF LoopTypes
  <2>7. ASSUME NEW j \in Instance
        PROVE  /\ Leading(j)' \/ pc'[j] = "expire" => key'.owner = j
               /\ Up(j)' /\ key'.owner = j => key'.ttl > Due(j)'
    <3>1. CASE j = i
      <4>1. Due(j)' = Interval + MaxLag
        BY <2>5, <3>1, <1>t
      <4>2. QED
        BY <2>1, <2>4, <2>5, <3>1, <4>1
    <3>2. CASE j # i
      BY <1>h, <2>1, <2>6, <3>2
    <3>3. QED
      BY <3>1, <3>2
  <2>8. QED
    BY <2>7
<1>7. ASSUME NEW i \in Instance, Crash(i) PROVE Held
  BY <1>7, <1>t, <1>h DEF Crash, LoopTypes
<1>8. ASSUME NEW i \in Instance, Restart(i) PROVE Held
  BY <1>8, <1>t, <1>h DEF Restart, LoopTypes
<1>9. ASSUME Tick PROVE Held
  <2>1. ~ lapsed /\ pc' = pc
    BY <1>9 DEF Tick
  <2>2. ASSUME NEW j \in Instance, Up(j), key.owner = j
        PROVE  key'.owner = j /\ key'.ttl > Due(j)'
    <3>1. key.ttl > Due(j) /\ timer[j] > -MaxLag /\ timer'[j] = timer[j] - 1
      BY <1>9, <1>h, <1>t, <2>1, <2>2 DEF Tick, LoopTypes
    <3>2. Due(j) \in Int /\ Due(j) >= 1 /\ Due(j)' = Due(j) - 1
      BY <1>t, <2>1, <3>1
    <3>3. key.ttl \in Int /\ key.ttl > 1
      BY <1>t, <2>2, <3>1, <3>2, NobodyAssumption DEF LoopTypes, Keys, NoKey
    <3>4. key' = [key EXCEPT !.ttl = @ - 1]
      BY <1>9, <3>3 DEF Tick, Aged
    <3>5. key'.owner = j /\ key'.ttl = key.ttl - 1
      BY <1>t, <2>2, <3>4, NobodyAssumption DEF LoopTypes, Keys, NoKey
    <3>6. QED
      BY <3>1, <3>2, <3>3, <3>5
  <2>3. ASSUME NEW j \in Instance, key'.owner = j PROVE key.owner = j
    BY <1>9, <1>t, <2>3, NobodyAssumption DEF Tick, Aged, LoopTypes, Keys, NoKey
  <2>4. QED
    BY <1>h, <2>1, <2>2, <2>3
<1>10. ASSUME UNCHANGED <<key, pc, timer, lapsed>> PROVE Held
  BY <1>10, <1>h
<1>11. ASSUME NEW i \in Instance,
              ClearOverride(i) \/ Ingest(i) \/ Sweep(i) \/ Deliver(i) \/ LoseMessages(i)
       PROVE Held
  BY <1>11, <1>10 DEF ClearOverride, Ingest, Sweep, Deliver, LoseMessages
<1>12. ASSUME NEW i \in Instance, NEW q \in Request, NEW l \in Level, Update(q, i, l)
       PROVE Held
  BY <1>12, <1>10 DEF Update
<1>13. ASSUME NEW q \in Request, UpdateStore(q) \/ UpdatePublish(q) \/ UpdateAnswer(q)
       PROVE Held
  BY <1>13, <1>10 DEF UpdateStore, UpdatePublish, UpdateAnswer
<1>14. CASE UNCHANGED vars
  BY <1>14, <1>10 DEF vars
<1>15. QED
  BY <1>1, <1>2, <1>3, <1>4, <1>5, <1>6, <1>7, <1>8, <1>9, <1>11, <1>12, <1>13, <1>14
     DEF Next

LEMMA LeaseInvariant == Spec => []LeaseInv
<1>1. Typing /\ LeaseInv /\ [Next]_vars => LeaseInv'
  BY LoopTypesStep, AwakeStep, LeaseStep DEF Typing, LevelTypes, LeaseInv
<1>2. QED
  BY LeaseInit, TypingInvariant, <1>1, PTL DEF Spec

\* _am_leader elects one leader at a time if the key outlives two late rounds
\* and a sleep, no election met an error and no instance came back to its key.
THEOREM OneLeaderAtATime == Spec => []OneLeaderUnlessLapsed
<1>1. LeaseInv => OneLeaderUnlessLapsed
  BY DEF LeaseInv, LeaseHeld, LongLived, OneLeaderUnlessLapsed
<1>2. QED
  BY LeaseInvariant, <1>1, PTL

----------------------------------------------------------------------------
(* One level everywhere after a round that nothing interfered with.         *)

InRound(i) == pc[i] \in {"read", "store", "publish"}

\* The level of instance i once it has received what is on its way to it.
Shows(i, l) == IF inbox[i] = << >> THEN level[i] = l ELSE inbox[i][Len(inbox[i])] = l

\* What a clean round has done so far: its own instance and Redis.
CleanRound(i) ==
    /\ \A j \in Instance \ {i} : ~ InRound(j)
    /\ inbox[i] = << >>
    /\ clean = "levels" \/ pc[i] = "publish"
    /\ pc[i] \in {"store", "publish"} => result[i] = level[i]
    /\ clean = "stored" => risk = level[i]

\* No operator is at work; a clean round is on its way, or it is over and
\* every instance shows its level, whatever older messages come first.
CleanInv ==
    clean # "no" =>
        /\ \A q \in Request : ~ Active(q)
        /\ \A i \in Instance : InRound(i) => CleanRound(i)
        /\ (\A i \in Instance : ~ InRound(i)) =>
              \E l \in Level :
                 /\ \A i \in Instance : Up(i) => Shows(i, l)
                 /\ clean = "stored" => risk = l

\* Steps that touch neither levels nor messages nor a round.
LEMMA CleanKept ==
    ASSUME CleanInv, UNCHANGED <<level, risk, inbox, clean, result>>,
           \A q \in Request : Active(q)' => Active(q),
           \A i \in Instance : (InRound(i) \/ InRound(i)') => pc'[i] = pc[i],
           \A i \in Instance : Up(i)' => Up(i)
    PROVE  CleanInv'
<1> SUFFICES ASSUME clean # "no"
             PROVE  /\ \A q \in Request : ~ Active(q)'
                    /\ \A i \in Instance : InRound(i)' => CleanRound(i)'
                    /\ (\A i \in Instance : ~ InRound(i)') =>
                          \E l \in Level :
                             /\ \A i \in Instance : Up(i)' => Shows(i, l)'
                             /\ clean = "stored" => risk = l
  BY DEF CleanInv
<1>1. \A i \in Instance : InRound(i)' <=> InRound(i)
  BY DEF InRound
<1>2. \A i \in Instance : InRound(i)' => CleanRound(i)'
  BY <1>1 DEF CleanInv, CleanRound
<1>3. \A i \in Instance, l \in Level : Shows(i, l)' <=> Shows(i, l)
  BY DEF Shows
<1> QED
  BY <1>1, <1>2, <1>3 DEF CleanInv

LEMMA CleanStep == Typing /\ CleanInv /\ [Next]_vars => CleanInv'
<1> SUFFICES ASSUME Typing, CleanInv, [Next]_vars PROVE CleanInv'
  OBVIOUS
<1>t. /\ pc \in [Instance -> States] /\ result \in [Instance -> Level] /\ level \in [Instance -> Level]
      /\ inbox \in [Instance -> Seq(Level)] /\ req \in [Request -> Requests] /\ risk \in Level
  BY DEF Typing, LoopTypes, LevelTypes
<1>0. ASSUME clean' = "no" PROVE CleanInv'
  BY <1>0 DEF CleanInv
<1>1. ASSUME NEW i \in Instance, TrySet(i) \/ Get(i) \/ Expire(i) \/ ElectionError(i)
      PROVE  CleanInv'
  <2>1. /\ UNCHANGED <<level, risk, inbox, clean, result, req>>
        /\ pc[i] \in {"sleep", "get", "expire"}
        /\ \E where \in {"sleep", "get", "expire", "check"} : pc' = [pc EXCEPT ![i] = where]
    BY <1>1 DEF TrySet, Get, Expire, ElectionError, Goto, SleepAgain
  <2>2. \A j \in Instance : /\ (InRound(j) \/ InRound(j)') => pc'[j] = pc[j]
                            /\ Up(j)' => Up(j)
    BY <1>t, <2>1 DEF InRound, Up
  <2> QED
    BY <2>1, <2>2, CleanKept DEF Active
<1>2. ASSUME NEW i \in Instance, Check(i) PROVE CleanInv'
  <2> SUFFICES ASSUME clean' # "no" PROVE CleanInv'
    BY <1>0
  <2>1. /\ pc[i] = "check" /\ Undisturbed(i) /\ clean' = "levels"
        /\ UNCHANGED <<level, risk, inbox, req>>
        /\ \/ result' = [result EXCEPT ![i] = level[i]] /\ pc' = [pc EXCEPT ![i] = "publish"]
           \/ result' = result /\ pc' = [pc EXCEPT ![i] = "read"]
    BY <1>2 DEF Check, Goto
  <2>2. \A q \in Request : ~ Active(q)'
    BY <2>1 DEF Undisturbed, Active
  <2>3. InRound(i)' /\ \A j \in Instance \ {i} : ~ InRound(j)'
    BY <1>t, <2>1 DEF Undisturbed, InRound, Leading
  <2>4. CleanRound(i)'
    BY <1>t, <2>1, <2>3 DEF CleanRound, Undisturbed
  <2> QED
    BY <2>2, <2>3, <2>4 DEF CleanInv
<1>3. ASSUME NEW i \in Instance, Evaluate(i) \/ StoreResult(i) PROVE CleanInv'
  <2> SUFFICES ASSUME clean' # "no" PROVE CleanInv'
    BY <1>0
  <2>1. pc[i] \in {"read", "store"} /\ UNCHANGED <<inbox, req>> /\ clean # "no"
    BY <1>3 DEF Evaluate, StoreResult
  <2>2. /\ \A q \in Request : ~ Active(q)
        /\ \A j \in Instance \ {i} : ~ InRound(j)
        /\ inbox[i] = << >> /\ clean = "levels" /\ (pc[i] = "store" => result[i] = level[i])
    BY <2>1 DEF CleanInv, CleanRound, InRound
  <2>3. \/ /\ pc' = [pc EXCEPT ![i] = "store"] /\ clean' = clean
           /\ \E l \in Level : level' = [level EXCEPT ![i] = l] /\ result' = [result EXCEPT ![i] = l]
        \/ /\ pc[i] = "store" /\ pc' = [pc EXCEPT ![i] = "publish"] /\ UNCHANGED <<level, result>>
           /\ clean' = clean \/ (clean' = "stored" /\ risk' = result[i])
    BY <1>3, <2>2 DEF Evaluate, StoreResult, Goto
  <2>4. InRound(i)' /\ \A j \in Instance \ {i} : ~ InRound(j)'
    BY <1>t, <2>2, <2>3 DEF InRound
  <2>5. CleanRound(i)'
    BY <1>t, <2>1, <2>2, <2>3, <2>4 DEF CleanRound
  <2>6. \A q \in Request : ~ Active(q)'
    BY <2>1, <2>2 DEF Active
  <2> QED
    BY <2>4, <2>5, <2>6 DEF CleanInv
<1>4. ASSUME NEW i \in Instance, Publish(i) PROVE CleanInv'
  <2> SUFFICES ASSUME clean' # "no" PROVE CleanInv'
    BY <1>0
  <2> DEFINE to == {j \in Instance \ {i} : Up(j)}
  <2>a. PICK l \in Level : l = result[i]
    BY <1>t
  <2>1. /\ pc[i] = "publish" /\ pc' = [pc EXCEPT ![i] = "sleep"] /\ clean' = clean
        /\ inbox' = [j \in Instance |-> IF j \in to THEN Append(inbox[j], l) ELSE inbox[j]]
        /\ UNCHANGED <<level, risk, req>>
    BY <1>4, <2>a DEF Publish, Broadcast, SleepAgain, Goto
  <2>2. /\ \A q \in Request : ~ Active(q)
        /\ \A j \in Instance \ {i} : ~ InRound(j)
        /\ inbox[i] = << >> /\ level[i] = l /\ (clean = "stored" => risk = l)
    BY <2>1, <2>a DEF CleanInv, CleanRound, InRound
  <2>3. \A j \in Instance : ~ InRound(j)' /\ (Up(j)' => Up(j))
    BY <1>t, <2>1, <2>2 DEF InRound, Up
  <2>4. ASSUME NEW j \in Instance, Up(j)' PROVE Shows(j, l)'
    <3>1. CASE j = i
      <4>1. inbox'[j] = << >> /\ level'[j] = l
        BY <2>1, <2>2, <3>1
      <4> QED
        BY <2>1, <4>1 DEF Shows
    <3>2. CASE j # i
      <4>1. inbox[j] \in Seq(Level) /\ inbox'[j] = Append(inbox[j], l)
        BY <1>t, <2>1, <2>3, <2>4, <3>2
      <4>2. inbox'[j] # << >> /\ inbox'[j][Len(inbox'[j])] = l
        BY <4>1
      <4> QED
        BY <4>2 DEF Shows
    <3> QED
      BY <3>1, <3>2
  <2>5. \A q \in Request : ~ Active(q)'
    BY <2>1, <2>2 DEF Active
  <2> QED
    BY <2>1, <2>2, <2>3, <2>4, <2>5 DEF CleanInv
<1>5. ASSUME NEW i \in Instance, Deliver(i) PROVE CleanInv'
  <2> SUFFICES ASSUME clean # "no" PROVE CleanInv'
    BY <1>5, <1>0 DEF Deliver
  <2>1. /\ inbox[i] # << >> /\ level' = [level EXCEPT ![i] = Head(inbox[i])]
        /\ inbox' = [inbox EXCEPT ![i] = Tail(inbox[i])]
        /\ UNCHANGED <<pc, result, risk, req, clean>>
    BY <1>5 DEF Deliver
  <2>2. \A j \in Instance : InRound(j)' <=> InRound(j)
    BY <2>1 DEF InRound
  <2>3. ASSUME NEW j \in Instance, InRound(j) PROVE CleanRound(j)'
    <3>1. CleanRound(j) /\ j # i
      BY <2>1, <2>3 DEF CleanInv, CleanRound
    <3> QED
      BY <1>t, <2>1, <2>2, <3>1 DEF CleanRound
  <2>4. inbox[i] \in Seq(Level)
    BY <1>t
  <2>5. /\ Tail(inbox[i]) = << >> => Head(inbox[i]) = inbox[i][Len(inbox[i])]
        /\ Tail(inbox[i]) # << >> => Tail(inbox[i])[Len(Tail(inbox[i]))] = inbox[i][Len(inbox[i])]
    <3>1. PICK s \in Seq(Level) : s = inbox[i] /\ s # << >>
      BY <2>1, <2>4
    <3>2. /\ Tail(s) \in Seq(Level) /\ Len(Tail(s)) = Len(s) - 1 /\ Head(s) = s[1] /\ Len(s) \in Nat
          /\ \A n \in 1..(Len(s) - 1) : Tail(s)[n] = s[n + 1]
      BY <3>1
    <3>3. Tail(s) = << >> => Len(s) = 1
      <4>1. Len(<< >>) = 0
        OBVIOUS
      <4>2. Tail(s) = << >> => Len(Tail(s)) = 0
        BY <4>1, Zenon
      <4> QED
        BY <3>2, <4>2
    <3>4. Tail(s) # << >> => Len(s) > 1
      BY <3>1, <3>2
    <3> QED
      BY <3>1, <3>2, <3>3, <3>4
  <2>6. ASSUME NEW j \in Instance, NEW l \in Level, Shows(j, l) PROVE Shows(j, l)'
    <3>1. CASE j = i
      BY <1>t, <2>1, <2>5, <2>6, <3>1 DEF Shows
    <3>2. CASE j # i
      BY <1>t, <2>1, <2>6, <3>2 DEF Shows
    <3> QED
      BY <3>1, <3>2
  <2>7. (\A q \in Request : Active(q)' <=> Active(q)) /\ (\A j \in Instance : Up(j)' <=> Up(j))
    BY <2>1 DEF Active, Up
  <2> QED
    BY <2>1, <2>2, <2>3, <2>6, <2>7 DEF CleanInv
<1>6. ASSUME NEW i \in Instance, Crash(i) PROVE CleanInv'
  <2> SUFFICES ASSUME clean' # "no" PROVE CleanInv'
    BY <1>0
  <2>1. /\ ~ Leading(i) /\ clean' = clean /\ pc' = [pc EXCEPT ![i] = "down"]
        /\ level' = [level EXCEPT ![i] = InitLevel] /\ result' = [result EXCEPT ![i] = InitLevel]
        /\ inbox' = [inbox EXCEPT ![i] = << >>] /\ risk' = risk
        /\ req' = [q \in Request |->
              IF Active(q) /\ req[q].inst = i THEN [Idle EXCEPT !.pc = "done"] ELSE req[q]]
    BY <1>6 DEF Crash, Goto
  <2>2. \A j \in Instance : InRound(j)' <=> InRound(j)
    BY <1>t, <2>1 DEF InRound, Leading
  <2>3. ASSUME NEW j \in Instance, InRound(j) PROVE CleanRound(j)'
    <3>1. CleanRound(j) /\ j # i
      BY <2>1, <2>3 DEF CleanInv, InRound, Leading
    <3> QED
      BY <1>t, <2>1, <2>2, <3>1 DEF CleanRound
  <2>4. \A q \in Request : ~ Active(q)'
    <3>1. \A q \in Request : ~ Active(q)
      BY <2>1 DEF CleanInv
    <3> QED
      BY <1>t, <2>1, <3>1 DEF Active
  <2>5. ASSUME NEW j \in Instance, NEW l \in Level, Up(j)' PROVE Up(j) /\ (Shows(j, l) => Shows(j, l)')
    BY <1>t, <2>1, <2>5 DEF Up, Shows
  <2> QED
    BY <2>1, <2>2, <2>3, <2>4, <2>5 DEF CleanInv
<1>7. ASSUME NEW i \in Instance, LoseMessages(i) \/ Restart(i) PROVE CleanInv'
  BY <1>7, <1>0 DEF LoseMessages, Restart
<1>8. ASSUME NEW q \in Request, NEW i \in Instance, NEW l \in Level, Update(q, i, l) PROVE CleanInv'
  BY <1>8, <1>0 DEF Update
<1>9. ASSUME NEW q \in Request, UpdateStore(q) \/ UpdatePublish(q) \/ UpdateAnswer(q) PROVE CleanInv'
  <2>1. Active(q) /\ clean' \in {clean, "no"}
    BY <1>9 DEF UpdateStore, UpdatePublish, UpdateAnswer, Broadcast, Active
  <2>2. clean = "no"
    BY <2>1 DEF CleanInv
  <2> QED
    BY <1>0, <2>1, <2>2
<1>10. ASSUME NEW i \in Instance, ClearOverride(i) \/ Ingest(i) \/ Sweep(i) PROVE CleanInv'
  <2>1. UNCHANGED <<level, risk, inbox, clean, result, req, pc>>
    BY <1>10 DEF ClearOverride, Ingest, Sweep
  <2> QED
    BY <2>1, CleanKept DEF Active, Up
<1>11. CASE Tick \/ UNCHANGED vars
  <2>1. UNCHANGED <<level, risk, inbox, clean, result, req, pc>>
    BY <1>11 DEF Tick, vars
  <2> QED
    BY <2>1, CleanKept DEF Active, Up
<1> QED
  BY <1>1, <1>2, <1>3, <1>4, <1>5, <1>6, <1>7, <1>8, <1>9, <1>10, <1>11 DEF Next

\* A round that met no other round, no operator and no lost message leaves all
\* running instances with one level, whatever messages were on their way before
\* it, and Redis with it if set_crowd_data went through.
THEOREM RoundsSettle == Spec => []SettledLevelsAgree
<1>1. Init => CleanInv
  BY DEF Init, CleanInv
<1>2. CleanInv => SettledLevelsAgree
  <2> SUFFICES ASSUME CleanInv, clean # "no",
                      \A i \in Instance : ~ Leading(i) /\ inbox[i] = << >>
               PROVE  /\ \A i, j \in Instance : Up(i) /\ Up(j) => level[i] = level[j]
                      /\ clean = "stored" => \A i \in Instance : Up(i) => level[i] = risk
    BY DEF SettledLevelsAgree
  <2>1. \A i \in Instance : ~ InRound(i)
    BY DEF InRound, Leading
  <2>2. PICK l \in Level : /\ \A i \in Instance : Up(i) => Shows(i, l)
                           /\ clean = "stored" => risk = l
    BY <2>1 DEF CleanInv
  <2> QED
    BY <2>2 DEF Shows
<1>3. QED
  BY <1>1, <1>2, CleanStep, TypingInvariant, PTL DEF Spec

----------------------------------------------------------------------------
(* The numbers of a round, in CrowdRisk.                                    *)

EntryType == [density : Nat, count : Nat, at : Nat]
RoundType == [by : Replica \cup {NoReplica}, density : Nat, score : 0..Full,
              surge : BOOLEAN, sinceJump : 0..SpikeWindow]

RiskTypes ==
    /\ busy \in BOOLEAN /\ peak \in BOOLEAN
    /\ hist \in Seq(EntryType) /\ Len(hist) <= ListMax
    /\ count \in [Replica -> Nat]
    /\ prev \in [Replica -> 0..Full]
    /\ window \in [Replica -> Seq(Nat)]
    /\ \A i \in Replica : Len(window[i]) <= SpikeWindow + 1
    /\ round \in RoundType
    /\ shown \in Levels /\ setBy \in Replica \cup {NoReplica, Operator}
    /\ held \subseteq Replica /\ alerted \subseteq Replica
    /\ sinceJump \in [Replica -> 0..SpikeWindow]
    /\ now \in 0..MaxRounds /\ failures \in 0..MaxFailures

\* Who remembers a score for which it would not alert again has alerted.
ScoreRemembered == \A i \in Replica : ScoreToLevel(prev[i]) \in Warning => i \in alerted

\* The last jump among the readings w came s readings ago; none did if s is
\* SpikeWindow.
LastJump(w, s) ==
    /\ \A k \in 2..Len(w) : Jump(w[k - 1], w[k]) => Len(w) - k >= s
    /\ s < SpikeWindow =>
         Len(w) - s >= 2 /\ Jump(w[Len(w) - s - 1], w[Len(w) - s])

\* What SinceJump makes of w and s when the density d is pushed.
Since(w, d, s) ==
    IF w # << >> /\ Jump(w[Len(w)], d) THEN 0 ELSE Least(s + 1, SpikeWindow)

SurgeCounted ==
    /\ \A i \in Replica : LastJump(window[i], sinceJump[i])
    /\ round.by # NoReplica => (round.surge <=> round.sinceJump < SpikeWindow)

\* Nobody there, no risk: what an operator's record in the list, which has no density,
\* cannot disturb.
EmptyIsCalm ==
    round.by # NoReplica /\ round.density = 0 => round.score = 0

RiskInv ==
    /\ RiskTypes
    /\ ScoreRemembered /\ WarningIsAlerted
    /\ SurgeCounted
    /\ EmptyIsCalm /\ SteadyCrowdHasNoTrend

----------------------------------------------------------------------------
(* The operators of risk_engine.py.                                         *)

LEMMA ClampFacts ==
    /\ \A x, y \in Int : Least(x, y) \in Int /\ Least(x, y) <= x /\ Least(x, y) <= y
                         /\ Least(x, y) \in {x, y}
    /\ \A low, high, x \in Int : low <= high =>
          /\ Clamp(low, high, x) \in low..high
          /\ x <= low => Clamp(low, high, x) = low
BY DEF Least, Clamp

LEMMA DivFacts ==
    /\ \A x \in Int, n \in Nat \ {0} : x \div n \in Int
    /\ \A x \in Int, n \in Nat \ {0} : x <= 0 => x \div n <= 0
    /\ \A n \in Nat \ {0} : 0 \div n = 0
OBVIOUS

\* A density is a natural number, whichever of its sources are there.
LEMMA DensityFacts ==
    ASSUME NEW vision \in Vision \cup {Stale}, NEW telecom \in Telecom \cup {Stale},
           NEW db \in Nat
    PROVE  FuseDensity(vision, telecom, db) \in Nat
<1>1. Vision \subseteq Nat /\ Telecom \subseteq Nat
  <2>1. 0..Full \subseteq Nat
    BY DEF Full
  <2>2. QED
    BY <2>1, ReadingAssumption
<1>2. CASE vision # Stale /\ telecom # Stale
  <2>1. vision \in Nat /\ telecom \in Nat
    BY <1>1, <1>2
  <2>2. FuseDensity(vision, telecom, db) = (3 * vision + telecom) \div 4
    BY <1>2 DEF FuseDensity
  <2>3. QED
    BY <2>1, <2>2
<1>3. CASE vision # Stale /\ telecom = Stale
  <2>1. FuseDensity(vision, telecom, db) = vision
    BY <1>3 DEF FuseDensity
  <2>2. QED
    BY <1>1, <1>3, <2>1
<1>4. CASE vision = Stale /\ telecom # Stale
  <2>1. telecom \in Nat
    BY <1>1, <1>4
  <2>2. FuseDensity(vision, telecom, db) = (2 * telecom + 3 * db) \div 5
    BY <1>4 DEF FuseDensity
  <2>3. QED
    BY <2>1, <2>2
<1>5. CASE vision = Stale /\ telecom = Stale
  BY <1>5 DEF FuseDensity
<1>6. QED
  BY <1>2, <1>3, <1>4, <1>5

\* The replay of a list and a push: its last entry is the density pushed, and its first
\* is the second of a full list, or the first of one that is not.
LEMMA BufferFacts ==
    ASSUME NEW H \in Seq(EntryType), Len(H) <= MaxHist, NEW d \in Nat,
           NEW h, h = Buffer([k \in DOMAIN H |-> H[k].density], d)
    PROVE  /\ h \in Seq(Nat) /\ Len(h) \in 1..MaxHist
           /\ Len(h) = IF Len(H) = MaxHist THEN MaxHist ELSE Len(H) + 1
           /\ h[Len(h)] = d
           /\ Len(H) = MaxHist => h[1] = H[2].density
           /\ Len(H) < MaxHist /\ H # << >> => h[1] = H[1].density
<1> DEFINE D == [k \in DOMAIN H |-> H[k].density]
           A == Append(D, d)
<1>0. MaxHist \in Nat /\ MaxHist > 2
  BY SizeAssumption
<1>1. D \in Seq(Nat) /\ Len(D) = Len(H) /\ \A k \in 1..Len(H) : D[k] = H[k].density
  <2>1. \A k \in 1..Len(H) : H[k] \in EntryType
    BY ElementOfSeq
  <2>2. DOMAIN H = 1..Len(H) /\ Len(H) \in Nat
    OBVIOUS
  <2>3. \A k \in 1..Len(H) : H[k].density \in Nat
    BY <2>1 DEF EntryType
  <2>4. D \in [1..Len(H) -> Nat]
    BY <2>2, <2>3
  <2>5. QED
    BY <2>2, <2>4, IsASeq, LenProperties
<1>2. /\ A \in Seq(Nat) /\ Len(A) = Len(H) + 1
      /\ A[Len(H) + 1] = d /\ \A k \in 1..Len(H) : A[k] = H[k].density
  <2> HIDE DEF D
  <2>1. QED
    BY <1>1, AppendProperties
<1>3. h = IF Len(A) > MaxHist THEN Tail(A) ELSE A
  BY DEF Buffer
<1> HIDE DEF A
<1>4. CASE Len(H) = MaxHist
  <2>1. A # << >> /\ Len(A) = MaxHist + 1
    BY <1>0, <1>2, <1>4
  <2>2. /\ Tail(A) \in Seq(Nat) /\ Len(Tail(A)) = MaxHist
        /\ \A k \in 1..MaxHist : Tail(A)[k] = A[k + 1]
    BY <1>0, <1>2, <2>1, HeadTailProperties
  <2>3. h = Tail(A)
    BY <1>0, <1>3, <2>1
  <2>4. 1 \in 1..MaxHist /\ MaxHist \in 1..MaxHist /\ 2 \in 1..Len(H)
    BY <1>0, <1>4
  <2>5. h[MaxHist] = A[MaxHist + 1] /\ h[1] = A[2]
    <3>1. h[MaxHist] = A[MaxHist + 1] /\ h[1] = A[1 + 1]
      BY ONLY <2>2, <2>3, <2>4
    <3>2. 1 + 1 = 2
      OBVIOUS
    <3>3. QED
      BY ONLY <3>1, <3>2
  <2>6. A[MaxHist + 1] = d /\ A[2] = H[2].density
    BY <1>2, <1>4, <2>4
  <2>7. h \in Seq(Nat) /\ Len(h) = MaxHist
    BY <2>2, <2>3
  <2>8. QED
    BY <1>0, <1>4, <2>5, <2>6, <2>7
<1>5. CASE Len(H) < MaxHist
  <2>1. Len(H) \in Nat /\ (H # << >> => Len(H) >= 1)
    BY EmptySeq
  <2>2. h = A
    BY <1>0, <1>2, <1>3, <1>5, <2>1
  <2>3. QED
    BY <1>0, <1>2, <1>5, <2>1, <2>2
<1>6. QED
  BY <1>0, <1>4, <1>5, LenProperties

LEMMA TrendFacts ==
    ASSUME NEW h \in Seq(Nat)
    PROVE  /\ Trend(h) \in Int
           /\ Len(h) >= 1 /\ h[Len(h)] <= h[1] => Trend(h) <= 0
           /\ Len(h) >= 1 /\ h[Len(h)] = h[1] => Trend(h) = 0
<1>1. Len(h) \in Nat
  OBVIOUS
<1>2. CASE Len(h) < 2
  BY <1>2 DEF Trend
<1>3. CASE Len(h) >= 2
  <2>1. h[Len(h)] \in Nat /\ h[1] \in Nat
    BY <1>1, <1>3, ElementOfSeq
  <2>2. Trend(h) = (h[Len(h)] - h[1]) \div (Len(h) - 1)
    BY <1>1, <1>3 DEF Trend
  <2>3. h[Len(h)] - h[1] \in Int /\ Len(h) - 1 \in Nat \ {0}
    BY <1>1, <1>3, <2>1
  <2>4. h[Len(h)] <= h[1] => h[Len(h)] - h[1] <= 0
    BY <2>1
  <2>5. h[Len(h)] = h[1] => h[Len(h)] - h[1] = 0
    BY <2>1
  <2>6. QED
    BY <2>2, <2>3, <2>4, <2>5, DivFacts
<1>4. QED
  BY <1>1, <1>2, <1>3

\* A score lies between 0 and 1.  Nobody there and no upward trend make it 0; without
\* a trend it is the density, with the uplift of the hour.
LEMMA ScoreFacts ==
    ASSUME peak \in BOOLEAN, NEW d \in Nat, NEW t \in Int
    PROVE  /\ RiskScore(d, t, d) \in 0..Full
           /\ d = 0 /\ t <= 0 => RiskScore(d, t, d) = 0
           /\ t = 0 => RiskScore(d, t, d) = Least(Full, Peak(d))
<1> DEFINE m == Least(d, 1000)
           c == Clamp(-150, 150, (15 * t) \div 100)
<1>1. m \in 0..1000 /\ m = IF d < 1000 THEN d ELSE 1000
  BY DEF Least
<1>2. c \in -150..150 /\ (t <= 0 => c <= 0) /\ (t = 0 => c = 0)
  BY DEF Clamp, Least
<1> HIDE DEF m, c
<1>3. (8 * m + 2 * m) \div 10 = m
  BY <1>1
<1>4. RiskScore(d, t, d) = Clamp(0, 1000, Peak(m + c))
  BY <1>3 DEF RiskScore, Full, m, c
<1>5. Peak(m + c) \in Int
  BY <1>1, <1>2 DEF Peak
<1>6. RiskScore(d, t, d) \in 0..Full
  BY <1>4, <1>5 DEF Clamp, Least, Full
<1>7. d = 0 /\ t <= 0 => RiskScore(d, t, d) = 0
  <2> SUFFICES ASSUME d = 0, t <= 0 PROVE RiskScore(d, t, d) = 0
    OBVIOUS
  <2>1. m = 0 /\ c <= 0 /\ c \in Int
    BY <1>1, <1>2
  <2>2. Peak(m + c) <= 0
    BY <2>1 DEF Peak
  <2>3. QED
    BY <1>4, <1>5, <2>2, ClampFacts
<1>8. t = 0 => RiskScore(d, t, d) = Least(Full, Peak(d))
  <2> SUFFICES ASSUME t = 0 PROVE RiskScore(d, t, d) = Least(Full, Peak(d))
    OBVIOUS
  <2>1. RiskScore(d, t, d) = Clamp(0, 1000, Peak(m))
    BY <1>1, <1>2, <1>4
  <2>2. Peak(m) >= 0
    BY <1>1 DEF Peak
  <2>3. Clamp(0, 1000, Peak(m)) = Least(1000, Peak(m))
    BY <1>1, <2>2 DEF Clamp, Least, Peak
  <2>4. CASE d < 1000
    BY <1>1, <2>1, <2>3, <2>4 DEF Full
  <2>5. CASE d >= 1000
    <3>1. Peak(m) >= 1000 /\ Peak(d) >= 1000 /\ Peak(m) \in Int /\ Peak(d) \in Int
      BY <1>1, <2>5 DEF Peak
    <3>2. QED
      BY <2>1, <2>3, <3>1 DEF Full, Least
  <2>6. QED
    BY <2>4, <2>5
<1>9. QED
  BY <1>6, <1>7, <1>8

\* The earlier thresholds of a busy day only add warnings, and what they call critical is a
\* warning by the others too.
LEMMA LevelFacts ==
    ASSUME busy \in BOOLEAN, NEW s \in Int
    PROVE  /\ ScoreToLevelAdaptive(s) \in Levels
           /\ ScoreToLevel(s) \in Warning => ScoreToLevelAdaptive(s) \in Warning
           /\ ScoreToLevelAdaptive(s) = "critical" => ScoreToLevel(s) \in Warning
           /\ ScoreToLevelAdaptive(s) = "high" /\ ~ busy => ScoreToLevel(s) \in Warning
           /\ ScoreToLevel(0) \notin Warning
BY DEF ScoreToLevelAdaptive, ScoreToLevel, Band, Levels, Warning

\* LPUSH and LTRIM: the entry is first, and the others move on by one.
LEMMA StoredFacts ==
    ASSUME hist \in Seq(EntryType), Len(hist) <= ListMax,
           NEW e \in EntryType
    PROVE  LET s == Stored(e) IN
           /\ s \in Seq(EntryType) /\ Len(s) \in 1..ListMax
           /\ Len(s) <= Len(hist) + 1
           /\ s[1] = e
           /\ \A k \in 2..Len(s) : s[k] = hist[k - 1]
<1> DEFINE c == <<e>> \o hist
           n == Least(Len(hist) + 1, ListMax)
           s == Stored(e)
<1>0. ListMax \in Nat \ {0} /\ Len(hist) \in Nat
  BY SizeAssumption
<1>1. n \in 1..ListMax /\ n <= Len(hist) + 1
  BY <1>0 DEF Least
<1>2. <<e>> \in Seq(EntryType) /\ Len(<<e>>) = 1
  OBVIOUS
<1>3. /\ c \in Seq(EntryType) /\ Len(c) = Len(hist) + 1
      /\ c[1] = e /\ \A k \in 2..Len(c) : c[k] = hist[k - 1]
  BY <1>0, <1>2, ConcatProperties
<1> HIDE DEF c, n
<1>4. s = SubSeq(c, 1, n)
  BY DEF Stored, c, n
<1> HIDE DEF s
<1>5. s \in Seq(EntryType) /\ Len(s) = n /\ \A k \in 1..n : s[k] = c[k]
  <2>1. 1..n \subseteq 1..Len(c)
    BY <1>0, <1>1, <1>3
  <2>2. n \in Nat
    BY <1>1, <1>0
  <2>3. QED
    BY <1>0, <1>1, <1>3, <1>4, <2>1, <2>2, SubSeqProperties
<1>6. QED
  BY <1>0, <1>1, <1>3, <1>5 DEF s

\* LRANGE: the newest entries.
LEMMA LatestFacts ==
    ASSUME hist \in Seq(EntryType), NEW n \in Nat
    PROVE  /\ Latest(n) \in Seq(EntryType)
           /\ Len(Latest(n)) = IF Len(hist) < n THEN Len(hist) ELSE n
           /\ \A k \in 1..Len(Latest(n)) : Latest(n)[k] = hist[k]
<1> DEFINE m == Least(Len(hist), n)
<1>0. Len(hist) \in Nat
  OBVIOUS
<1>1. m \in 0..Len(hist) /\ m \in Nat /\ m = IF Len(hist) < n THEN Len(hist) ELSE n
  BY <1>0 DEF Least
<1>2. Latest(n) = SubSeq(hist, 1, m)
  BY DEF Latest
<1> HIDE DEF m
<1>3. 1..m \subseteq 1..Len(hist)
  BY <1>0, <1>1
<1>4. Latest(n) \in Seq(EntryType) /\ Len(Latest(n)) = m
      /\ \A k \in 1..m : Latest(n)[k] = hist[k]
  BY <1>0, <1>1, <1>2, <1>3, SubSeqProperties
<1>5. QED
  BY <1>1, <1>4

\* A push keeps count of the last jump, and the window is long enough for a
\* surge to be seen for just as long as it lasts.
LEMMA JumpFacts ==
    ASSUME NEW w \in Seq(Nat), Len(w) <= SpikeWindow + 1, NEW d \in Nat,
           NEW s \in 0..SpikeWindow, LastJump(w, s)
    PROVE  /\ Pushed(w, d) \in Seq(Nat) /\ Len(Pushed(w, d)) <= SpikeWindow + 1
           /\ Since(w, d, s) \in 0..SpikeWindow
           /\ LastJump(Pushed(w, d), Since(w, d, s))
           /\ Surge(Pushed(w, d)) <=> Since(w, d, s) < SpikeWindow
<1> SUFFICES ASSUME NEW p, p = Pushed(w, d),
                    NEW t, t = IF w # << >> /\ Jump(w[Len(w)], d) THEN 0
                               ELSE Least(s + 1, SpikeWindow)
             PROVE  /\ p \in Seq(Nat) /\ Len(p) <= SpikeWindow + 1
                    /\ t \in 0..SpikeWindow
                    /\ LastJump(p, t)
                    /\ Surge(p) <=> t < SpikeWindow
  BY DEF Since
<1> DEFINE h == Append(w, d)
<1>0. SpikeWindow \in Nat \ {0}
  BY SizeAssumption
<1>1. /\ h \in Seq(Nat) /\ Len(h) = Len(w) + 1 /\ Len(w) \in Nat
      /\ h[Len(w) + 1] = d /\ \A k \in 1..Len(w) : h[k] = w[k]
  BY AppendProperties, LenProperties
<1>L. Len(h) = Len(w) + 1 /\ Len(w) \in Nat
  BY <1>1
<1>2. p = IF Len(h) > SpikeWindow + 1 THEN Tail(h) ELSE h
  BY DEF Pushed
<1> HIDE DEF h
<1>3. t \in 0..SpikeWindow
  BY <1>0 DEF Least
<1>4. \A k \in 2..Len(h) : Jump(h[k - 1], h[k]) => Len(h) - k >= t
  <2> SUFFICES ASSUME NEW k \in 2..Len(h), Jump(h[k - 1], h[k]) PROVE Len(h) - k >= t
    OBVIOUS
  <2>1. CASE k = Len(h)
    <3>1. w # << >> /\ h[k] = d /\ h[k - 1] = w[Len(w)]
      BY <1>1, <2>1
    <3>2. t = 0
      BY <3>1
    <3>3. QED
      BY <1>1, <2>1, <3>2
  <2>2. CASE k < Len(h)
    <3>0. k \in 2..Len(w) /\ k \in 1..Len(w) /\ k - 1 \in 1..Len(w)
      BY <1>L, <2>2
    <3>1. k \in 2..Len(w) /\ h[k] = w[k] /\ h[k - 1] = w[k - 1]
      BY <1>1, <3>0
    <3>2. Len(w) - k >= s
      BY <3>1 DEF LastJump
    <3>3. t <= s + 1
      BY <1>0 DEF Least
    <3>4. s \in 0..SpikeWindow
      OBVIOUS
    <3>5. QED
      BY ONLY <1>0, <1>L, <1>3, <3>0, <3>2, <3>3, <3>4
  <2>3. QED
    BY <1>1, <2>1, <2>2
<1>5. t < SpikeWindow => Len(h) - t >= 2 /\ Jump(h[Len(h) - t - 1], h[Len(h) - t])
  <2> SUFFICES ASSUME t < SpikeWindow
               PROVE  Len(h) - t >= 2 /\ Jump(h[Len(h) - t - 1], h[Len(h) - t])
    OBVIOUS
  <2>1. CASE w # << >> /\ Jump(w[Len(w)], d)
    <3>1. t = 0 /\ Len(w) >= 1
      BY <1>1, <2>1, EmptySeq
    <3>2. h[Len(h)] = d /\ h[Len(h) - 1] = w[Len(w)]
      BY <1>1, <3>1
    <3>3. QED
      BY <1>1, <2>1, <3>1, <3>2
  <2>2. CASE ~ (w # << >> /\ Jump(w[Len(w)], d))
    <3>1. t = s + 1 /\ s < SpikeWindow
      BY <1>0, <2>2 DEF Least
    <3>2. Len(w) - s >= 2 /\ Jump(w[Len(w) - s - 1], w[Len(w) - s])
      BY <3>1 DEF LastJump
    <3>3. /\ Len(h) - t = Len(w) - s
          /\ Len(w) - s \in 1..Len(w) /\ Len(w) - s - 1 \in 1..Len(w)
      <4>1. s \in 0..SpikeWindow
        OBVIOUS
      <4>2. QED
        BY ONLY <1>0, <1>L, <3>1, <3>2, <4>1
    <3>4. h[Len(h) - t] = w[Len(w) - s] /\ h[Len(h) - t - 1] = w[Len(w) - s - 1]
      BY <1>1, <3>3
    <3>5. QED
      BY <3>2, <3>3, <3>4
  <2>3. QED
    BY <2>1, <2>2
<1>6. ASSUME Len(h) <= SpikeWindow + 1
      PROVE  p \in Seq(Nat) /\ Len(p) <= SpikeWindow + 1 /\ LastJump(p, t)
  <2>1. p = h
    BY <1>0, <1>1, <1>2, <1>6
  <2>2. LastJump(p, t)
    BY <1>4, <1>5, <2>1 DEF LastJump
  <2>3. QED
    BY <1>1, <1>6, <2>1, <2>2
<1>7. ASSUME Len(h) > SpikeWindow + 1
      PROVE  p \in Seq(Nat) /\ Len(p) <= SpikeWindow + 1 /\ LastJump(p, t)
  <2>1. h # << >> /\ Len(h) = SpikeWindow + 2
    BY <1>0, <1>1, <1>7
  <2>2. /\ p \in Seq(Nat) /\ Len(p) = SpikeWindow + 1
        /\ \A k \in 1..Len(p) : p[k] = h[k + 1]
    BY <1>0, <1>1, <1>2, <1>7, <2>1, HeadTailProperties
  <2>3. ASSUME NEW k \in 2..Len(p), Jump(p[k - 1], p[k]) PROVE Len(p) - k >= t
    <3>0. /\ k + 1 \in 2..Len(h) /\ k \in 1..Len(p) /\ k - 1 \in 1..Len(p)
          /\ (k + 1) - 1 = (k - 1) + 1
      <4>1. k \in 2..Len(p) /\ Len(p) = SpikeWindow + 1
        BY <2>2
      <4>2. QED
        BY ONLY <1>0, <2>1, <4>1
    <3>1. k + 1 \in 2..Len(h) /\ p[k] = h[k + 1] /\ p[k - 1] = h[(k + 1) - 1]
      BY <2>2, <3>0
    <3>2. Len(h) - (k + 1) >= t
      BY <1>4, <2>3, <3>1
    <3>3. k \in 2..Len(p) /\ Len(p) = SpikeWindow + 1
      BY <2>2
    <3>4. QED
      BY ONLY <1>0, <1>3, <2>1, <3>2, <3>3
  <2>4. ASSUME t < SpikeWindow
        PROVE  Len(p) - t >= 2 /\ Jump(p[Len(p) - t - 1], p[Len(p) - t])
    <3>1. Len(p) - t >= 2 /\ Len(p) - t \in 1..Len(p) /\ Len(p) - t - 1 \in 1..Len(p)
      <4>1. Len(h) - t >= 2 /\ Len(p) = SpikeWindow + 1
        BY <1>5, <2>2, <2>4
      <4>2. QED
        BY ONLY <1>0, <1>3, <2>4, <4>1
    <3>2. /\ p[Len(p) - t] = h[Len(h) - t]
          /\ p[Len(p) - t - 1] = h[Len(h) - t - 1]
      <4>1. /\ (Len(p) - t) + 1 = Len(h) - t
            /\ (Len(p) - t - 1) + 1 = Len(h) - t - 1
        <5>1. Len(p) = SpikeWindow + 1
          BY <2>2
        <5>2. QED
          BY ONLY <1>0, <1>3, <2>1, <5>1
      <4>2. QED
        BY <2>2, <3>1, <4>1
    <3>3. QED
      BY <1>5, <2>4, <3>1, <3>2
  <2>5. QED
    BY <1>0, <2>2, <2>3, <2>4 DEF LastJump
<1>8. p \in Seq(Nat) /\ Len(p) <= SpikeWindow + 1 /\ LastJump(p, t)
  BY <1>0, <1>1, <1>6, <1>7
<1>9. Surge(p) <=> t < SpikeWindow
  <2>1. ASSUME Surge(p) PROVE t < SpikeWindow
    <3>1. PICK k \in 2..Len(p) : Jump(p[k - 1], p[k])
      BY <2>1 DEF Surge
    <3>2. Len(p) - k >= t
      BY <1>8, <3>1 DEF LastJump
    <3>3. QED
      BY <1>0, <1>3, <1>8, <3>1, <3>2, LenProperties
  <2>2. ASSUME t < SpikeWindow PROVE Surge(p)
    <3>1. Len(p) - t >= 2 /\ Jump(p[Len(p) - t - 1], p[Len(p) - t])
      BY <1>8, <2>2 DEF LastJump
    <3>2. Len(p) - t \in 2..Len(p)
      <4>1. Len(p) \in Nat
        BY <1>8
      <4>2. QED
        BY <1>0, <1>3, <3>1, <4>1
    <3>3. QED
      BY <3>1, <3>2 DEF Surge
  <2>3. QED
    BY <2>1, <2>2
<1>10. QED
  BY <1>3, <1>8, <1>9

----------------------------------------------------------------------------
(* Rounds and what happens between them.                                    *)

LEMMA RiskInvInit == RiskInit => RiskInv
<1> SUFFICES ASSUME RiskInit PROVE RiskInv
  OBVIOUS
<1> USE DEF RiskInit
<1>0. /\ InitCount \in Nat /\ FirstLevel \in Levels /\ ListMax \in Nat
      /\ SpikeWindow \in Nat \ {0} /\ MaxRounds \in Nat /\ MaxFailures \in Nat
  BY StartAssumption, SizeAssumption, BoundAssumption
<1>1. NoRound \in RoundType
  BY <1>0 DEF NoRound, RoundType, Full
<1>2. RiskTypes
  <2>1. << >> \in Seq(EntryType) /\ << >> \in Seq(Nat) /\ Len(<< >>) = 0
    OBVIOUS
  <2>2. /\ 0 \in 0..Full /\ SpikeWindow \in 0..SpikeWindow
        /\ 0 \in 0..MaxRounds /\ 0 \in 0..MaxFailures
        /\ 0 <= ListMax /\ 0 <= SpikeWindow + 1
    BY <1>0 DEF Full
  <2>3. QED
    BY <1>0, <1>1, <2>1, <2>2 DEF RiskTypes
<1>3. ScoreRemembered /\ WarningIsAlerted
  BY LevelFacts, ReplicaAssumption DEF ScoreRemembered, WarningIsAlerted
<1>4. SurgeCounted
  <2>1. LastJump(<< >>, SpikeWindow)
    BY <1>0 DEF LastJump
  <2>2. QED
    BY <2>1 DEF SurgeCounted, NoRound
<1>5. EmptyIsCalm /\ SteadyCrowdHasNoTrend
  BY DEF EmptyIsCalm, SteadyCrowdHasNoTrend, NoRound
<1>6. QED
  BY <1>2, <1>3, <1>4, <1>5 DEF RiskInv

\* What an evaluation makes of the density and the list it is given.
LEMMA EvaluatedFacts ==
    ASSUME RiskInv, NEW i \in Replica, NEW d \in Nat,
           NEW history \in Seq(EntryType), Len(history) <= MaxHist,
           Evaluated(i, d, history), UNCHANGED <<busy, peak, held>>
    PROVE  /\ count' \in [Replica -> Nat]
           /\ prev' \in [Replica -> 0..Full]
           /\ window' \in [Replica -> Seq(Nat)]
           /\ \A j \in Replica : Len(window'[j]) <= SpikeWindow + 1
           /\ round' \in RoundType
           /\ shown' \in Levels /\ setBy' \in Replica /\ alerted' \subseteq Replica
           /\ sinceJump' \in [Replica -> 0..SpikeWindow]
           /\ ScoreRemembered' /\ WarningIsAlerted' /\ SurgeCounted'
           /\ round'.density = d
           /\ round'.score = RiskScore(d,
                 Trend(Buffer([k \in DOMAIN history |-> history[k].density], d)), d)
<1> DEFINE h == Buffer([k \in DOMAIN history |-> history[k].density], d)
           score == RiskScore(d, Trend(h), d)
           w == Pushed(window[i], d)
           s == SinceJump(i, d)
           r == [by |-> i, density |-> d, score |-> score, surge |-> Surge(w), sinceJump |-> s]
<1>0. SpikeWindow \in Nat \ {0}
  BY SizeAssumption
<1>1. /\ count' = [count EXCEPT ![i] = d] /\ prev' = [prev EXCEPT ![i] = score]
      /\ window' = [window EXCEPT ![i] = w] /\ sinceJump' = [sinceJump EXCEPT ![i] = s]
      /\ round' = r
      /\ shown' = ScoreToLevelAdaptive(score) /\ setBy' = i
      /\ alerted' = IF shown' \notin Warning            THEN alerted \ {i}
                    ELSE IF ShouldAlert(score, prev[i]) THEN alerted \cup {i} ELSE alerted
  BY DEF Evaluated
<1>2. RiskTypes /\ ScoreRemembered /\ SurgeCounted
  BY DEF RiskInv
<1>4. score \in 0..Full
  <2>1. h \in Seq(Nat)
    BY BufferFacts
  <2>2. Trend(h) \in Int
    BY <2>1, TrendFacts
  <2>3. peak \in BOOLEAN
    BY <1>2 DEF RiskTypes
  <2>4. QED
    BY <2>2, <2>3, ScoreFacts
<1> HIDE DEF h, score
<1>5. /\ w \in Seq(Nat) /\ Len(w) <= SpikeWindow + 1 /\ s \in 0..SpikeWindow
      /\ LastJump(w, s) /\ (Surge(w) <=> s < SpikeWindow)
  <2>1. /\ window[i] \in Seq(Nat) /\ Len(window[i]) <= SpikeWindow + 1
        /\ sinceJump[i] \in 0..SpikeWindow /\ LastJump(window[i], sinceJump[i])
    BY <1>2 DEF RiskTypes, SurgeCounted
  <2>2. s = Since(window[i], d, sinceJump[i])
    BY DEF SinceJump, Since
  <2>3. w = Pushed(window[i], d)
    OBVIOUS
  <2> HIDE DEF w, s
  <2>4. QED
    BY <2>1, <2>2, <2>3, JumpFacts
<1> HIDE DEF w, s
<1>6. score \in Int /\ busy \in BOOLEAN /\ busy' = busy
  <2>1. 0..Full \subseteq Int
    BY DEF Full
  <2>2. QED
    BY <1>2, <1>4, <2>1 DEF RiskTypes
<1>7. shown' \in Levels /\ alerted' \subseteq Replica
  <2>1. shown' \in Levels
    BY <1>1, <1>6, LevelFacts
  <2>2. QED
    BY <1>1, <1>2, <2>1 DEF RiskTypes
<1>8. round' \in RoundType
  <2>1. Surge(w) \in BOOLEAN
    BY DEF Surge
  <2>2. QED
    BY <1>1, <1>4, <1>5, <2>1 DEF RoundType
<1>9. /\ count' \in [Replica -> Nat]
      /\ prev' \in [Replica -> 0..Full]
      /\ window' \in [Replica -> Seq(Nat)]
      /\ sinceJump' \in [Replica -> 0..SpikeWindow]
  BY <1>1, <1>2, <1>4, <1>5 DEF RiskTypes
<1>10. \A j \in Replica : /\ Len(window'[j]) <= SpikeWindow + 1
                           /\ LastJump(window'[j], sinceJump'[j])
  <2> SUFFICES ASSUME NEW j \in Replica
               PROVE  Len(window'[j]) <= SpikeWindow + 1 /\ LastJump(window'[j], sinceJump'[j])
    OBVIOUS
  <2>1. window \in [Replica -> Seq(Nat)] /\ sinceJump \in [Replica -> 0..SpikeWindow]
    BY <1>2 DEF RiskTypes
  <2>2. CASE j = i
    <3>1. window'[j] = w /\ sinceJump'[j] = s
      BY <1>1, <2>1, <2>2
    <3>2. QED
      BY <1>5, <3>1
  <2>3. CASE j # i
    <3>1. window'[j] = window[j] /\ sinceJump'[j] = sinceJump[j]
      BY <1>1, <2>1, <2>3
    <3>2. QED
      BY <1>2, <3>1 DEF RiskTypes, SurgeCounted
  <2>4. QED
    BY <2>2, <2>3
<1>11. SurgeCounted'
  <2>1. LastJump(window[i], sinceJump[i])' <=> LastJump(window'[i], sinceJump'[i])
    BY DEF LastJump, Jump
  <2>2. round'.surge <=> round'.sinceJump < SpikeWindow
    BY <1>1, <1>5
  <2>3. QED
    BY <1>10, <2>2 DEF SurgeCounted, LastJump, Jump, NoReplica
<1>12. ScoreToLevel(score) \in Warning => i \in alerted'
  <2> SUFFICES ASSUME ScoreToLevel(score) \in Warning PROVE i \in alerted'
    OBVIOUS
  <2>1. shown' \in Warning
    BY <1>1, <1>6, LevelFacts
  <2>2. CASE ScoreToLevel(prev[i]) \in Warning
    <3>1. i \in alerted
      BY <1>2, <2>2 DEF ScoreRemembered
    <3>2. QED
      BY <1>1, <2>1, <3>1
  <2>3. CASE ScoreToLevel(prev[i]) \notin Warning
    <3>1. ShouldAlert(score, prev[i])
      BY <2>3 DEF ShouldAlert
    <3>2. QED
      BY <1>1, <2>1, <3>1
  <2>4. QED
    BY <2>2, <2>3
<1>13. ScoreRemembered'
  <2> SUFFICES ASSUME NEW j \in Replica, ScoreToLevel(prev'[j]) \in Warning
               PROVE  j \in alerted'
    BY DEF ScoreRemembered, ScoreToLevel, Band, Warning
  <2>1. CASE j = i
    <3>1. prev'[j] = score
      BY <1>1, <1>2, <2>1 DEF RiskTypes
    <3>2. QED
      BY <1>12, <2>1, <3>1
  <2>2. CASE j # i
    <3>1. prev'[j] = prev[j]
      BY <1>1, <1>2, <2>2 DEF RiskTypes
    <3>2. j \in alerted
      BY <1>2, <3>1 DEF ScoreRemembered
    <3>3. QED
      BY <1>1, <2>2, <3>2
  <2>3. QED
    BY <2>1, <2>2
<1>14. WarningIsAlerted'
  <2>1. shown' = "critical" \/ (shown' = "high" /\ ~ busy) => i \in alerted'
    BY <1>1, <1>6, <1>12, LevelFacts
  <2>2. QED
    BY <1>1, <1>6, <2>1 DEF WarningIsAlerted
<1>15. QED
  BY <1>1, <1>7, <1>8, <1>9, <1>10, <1>11, <1>13, <1>14 DEF h, score

\* Of a list that is full of one density the replay makes no trend, and of nobody
\* no score; whether the list was read or not, and the result stored or not.
LEMMA RoundIsSteady ==
    ASSUME RiskInv, NEW d \in Nat, NEW H \in {Latest(MaxHist), << >>},
           hist' = Stored(Entry(d, d)) \/ hist' = hist, peak' = peak,
           round'.density = d,
           round'.score =
             RiskScore(d, Trend(Buffer([k \in DOMAIN H |-> H[k].density], d)), d)
    PROVE  EmptyIsCalm' /\ SteadyCrowdHasNoTrend'
<1> DEFINE h == Buffer([k \in DOMAIN H |-> H[k].density], d)
<1>0. MaxHist \in Nat /\ MaxHist > 2
  BY SizeAssumption
<1>1. hist \in Seq(EntryType) /\ Len(hist) <= ListMax /\ Len(hist) \in Nat /\ peak \in BOOLEAN
  BY DEF RiskInv, RiskTypes
<1>2. /\ Latest(MaxHist) \in Seq(EntryType)
      /\ Len(Latest(MaxHist)) = IF Len(hist) < MaxHist THEN Len(hist) ELSE MaxHist
      /\ \A k \in 1..Len(Latest(MaxHist)) : Latest(MaxHist)[k] = hist[k]
  BY <1>0, <1>1, LatestFacts
<1>3. H \in Seq(EntryType) /\ Len(H) <= MaxHist /\ Len(H) \in Nat
  BY <1>0, <1>1, <1>2
<1>H. h = Buffer([k \in DOMAIN H |-> H[k].density], d)
  OBVIOUS
<1>S. round'.score = RiskScore(d, Trend(h), d)
  OBVIOUS
<1> HIDE DEF h
<1>4. /\ h \in Seq(Nat) /\ Len(h) \in 1..MaxHist
      /\ Len(h) = IF Len(H) = MaxHist THEN MaxHist ELSE Len(H) + 1
      /\ h[Len(h)] = d
      /\ Len(H) = MaxHist => h[1] = H[2].density
      /\ Len(H) < MaxHist /\ H # << >> => h[1] = H[1].density
  BY <1>3, <1>H, BufferFacts
<1>5. Trend(h) \in Int
  BY <1>4, TrendFacts
<1>6. d = 0 => round'.score = 0
  <2> SUFFICES ASSUME d = 0 PROVE round'.score = 0
    OBVIOUS
  <2>1. h[1] \in Nat
    BY <1>0, <1>4, ElementOfSeq
  <2>2. Trend(h) <= 0
    BY <1>4, <2>1, TrendFacts
  <2>3. QED
    BY <1>1, <1>5, <1>S, <2>2, ScoreFacts
<1>7. EmptyIsCalm'
  BY <1>6 DEF EmptyIsCalm
<1>8. ASSUME Len(hist') >= MaxHist, \A k \in 1..MaxHist : hist'[k].density = d, H # << >>
      PROVE  hist[1].density = d /\ hist[2].density = d /\ Len(hist) >= 2
  <2>1. 1 \in 1..MaxHist /\ 2 \in 1..MaxHist /\ 3 \in 1..MaxHist
    BY <1>0
  <2>2. CASE hist' = hist
    BY <1>0, <1>1, <1>8, <2>1, <2>2
  <2>3. CASE hist' = Stored(Entry(d, d))
    <3>1. Entry(d, d) \in EntryType
      <4>1. now \in Nat
        BY BoundAssumption DEF RiskInv, RiskTypes
      <4>2. QED
        BY <4>1 DEF Entry, EntryType
    <3> DEFINE st == Stored(Entry(d, d))
    <3>2. /\ st \in Seq(EntryType) /\ Len(st) <= Len(hist) + 1
          /\ \A k \in 2..Len(st) : st[k] = hist[k - 1]
      BY <1>1, <3>1, StoredFacts
    <3>3. hist' = st
      BY <2>3
    <3> HIDE DEF st
    <3>4. Len(st) >= MaxHist /\ Len(st) \in Nat
      BY <1>8, <3>2, <3>3
    <3>5. 2 \in 2..Len(st) /\ 3 \in 2..Len(st) /\ Len(hist) >= 2
      BY <1>0, <1>1, <3>2, <3>4
    <3>6. st[2] = hist[2 - 1] /\ st[3] = hist[3 - 1]
      BY <3>2, <3>5
    <3>7. hist'[2].density = d /\ hist'[3].density = d
      BY <1>8, <2>1
    <3>8. QED
      BY <3>3, <3>5, <3>6, <3>7
  <2>4. QED
    BY <2>2, <2>3
<1>9. ASSUME Len(hist') >= MaxHist, \A k \in 1..MaxHist : hist'[k].density = d
      PROVE  round'.score = Least(Full, Peak(d))
  <2>1. h[1] = h[Len(h)]
    <3>1. CASE H = << >>
      <4>1. Len(H) = 0
        BY <3>1
      <4>2. Len(h) = 1
        BY <1>0, <1>4, <4>1
      <4>3. QED
        BY <4>2
    <3>2. CASE H # << >>
      <4>1. H = Latest(MaxHist)
        BY <3>2
      <4>2. hist[1].density = d /\ hist[2].density = d /\ Len(hist) >= 2
        BY <1>8, <1>9, <3>2
      <4>3. 1 \in 1..Len(H) /\ 2 \in 1..Len(H)
        BY <1>0, <1>1, <1>2, <4>1, <4>2
      <4>4. H[1].density = d /\ H[2].density = d
        BY <1>2, <4>1, <4>2, <4>3
      <4>5. Len(H) = MaxHist \/ Len(H) < MaxHist
        BY <1>0, <1>3
      <4>6. QED
        BY <1>4, <3>2, <4>4, <4>5
    <3>3. QED
      BY <3>1, <3>2
  <2>2. Trend(h) = 0
    BY <1>4, <2>1, TrendFacts
  <2>3. QED
    BY <1>1, <1>5, <1>S, <2>2, ScoreFacts
<1>10. SteadyCrowdHasNoTrend'
  <2>1. (Peak(round.density))' = Peak(d)
    BY DEF Peak
  <2>2. (Least(Full, Peak(round.density)))' = Least(Full, Peak(d))
    BY <2>1 DEF Least, Full
  <2>3. QED
    BY <1>9, <2>2 DEF SteadyCrowdHasNoTrend
<1>11. QED
  BY <1>7, <1>10

LEMMA RoundKeepsRiskInv ==
    ASSUME RiskInv, NEW i \in Replica, RiskRound(i) \/ FailingRound(i)
    PROVE  RiskInv'
<1>1. RiskTypes
  BY DEF RiskInv
<1>2. PICK d \in Densities(i), H \in {Latest(MaxHist), << >>} : Evaluated(i, d, H)
  BY DEF RiskRound, FailingRound
<1>3. d \in Nat
  <2>1. count[i] \in Nat
    BY <1>1 DEF RiskTypes
  <2>2. PICK v \in Vision \cup {Stale}, t \in Telecom \cup {Stale} :
          d = FuseDensity(v, t, count[i])
    BY <1>2 DEF Densities
  <2>3. QED
    BY <2>1, <2>2, DensityFacts
<1>4. H \in Seq(EntryType) /\ Len(H) <= MaxHist
  <2>1. hist \in Seq(EntryType) /\ Len(hist) \in Nat /\ MaxHist \in Nat
    BY <1>1, SizeAssumption DEF RiskTypes
  <2>2. Latest(MaxHist) \in Seq(EntryType) /\ Len(Latest(MaxHist)) <= MaxHist
    BY <2>1, LatestFacts
  <2>3. << >> \in Seq(EntryType) /\ Len(<< >>) <= MaxHist
    BY <2>1
  <2>4. QED
    BY <2>2, <2>3
<1>5. /\ UNCHANGED <<busy, peak, held>>
      /\ Keep(Entry(round'.density, round'.density)) \/ UNCHANGED <<hist, now>>
      /\ failures' = failures \/ (failures < MaxFailures /\ failures' = failures + 1)
  BY DEF RiskRound, FailingRound, Failing
<1>6. /\ count' \in [Replica -> Nat]
      /\ prev' \in [Replica -> 0..Full]
      /\ window' \in [Replica -> Seq(Nat)]
      /\ \A j \in Replica : Len(window'[j]) <= SpikeWindow + 1
      /\ round' \in RoundType
      /\ shown' \in Levels /\ setBy' \in Replica /\ alerted' \subseteq Replica
      /\ sinceJump' \in [Replica -> 0..SpikeWindow]
      /\ ScoreRemembered' /\ WarningIsAlerted' /\ SurgeCounted'
      /\ round'.density = d
      /\ round'.score = RiskScore(d,
             Trend(Buffer([k \in DOMAIN H |-> H[k].density], d)), d)
  BY <1>2, <1>3, <1>4, <1>5, EvaluatedFacts
<1>7. \/ hist' = Stored(Entry(d, d)) /\ now < MaxRounds /\ now' = now + 1
      \/ hist' = hist /\ now' = now
  BY <1>5, <1>6 DEF Keep
<1>8. hist' \in Seq(EntryType) /\ Len(hist') <= ListMax
  <2>0. now \in 0..MaxRounds /\ MaxRounds \in Nat /\ ListMax \in Nat
    BY <1>1, BoundAssumption, SizeAssumption DEF RiskTypes
  <2>1. Entry(d, d) \in EntryType
    BY <1>3, <2>0 DEF Entry, EntryType
  <2>2. Stored(Entry(d, d)) \in Seq(EntryType) /\ Len(Stored(Entry(d, d))) \in 1..ListMax
    BY <1>1, <2>1, StoredFacts DEF RiskTypes
  <2>3. QED
    BY <1>1, <1>7, <2>0, <2>2 DEF RiskTypes
<1>9. now' \in 0..MaxRounds /\ failures' \in 0..MaxFailures
  BY <1>1, <1>5, <1>7, BoundAssumption DEF RiskTypes
<1>10. EmptyIsCalm' /\ SteadyCrowdHasNoTrend'
  BY <1>3, <1>5, <1>6, <1>7, RoundIsSteady
<1>11. RiskTypes'
  BY <1>1, <1>5, <1>6, <1>8, <1>9 DEF RiskTypes
<1>12. QED
  BY <1>6, <1>10, <1>11 DEF RiskInv

\* What changes neither the scores nor the list nor the level keeps the invariant.
LEMMA OthersKeepRiskInv ==
    ASSUME RiskInv, RiskTypes',
           UNCHANGED <<busy, peak, hist, prev, window, round, shown, setBy, alerted, sinceJump>>
    PROVE  RiskInv'
<1>1. ScoreRemembered' /\ WarningIsAlerted'
  BY DEF RiskInv, ScoreRemembered, ScoreToLevel, Band, Warning, WarningIsAlerted
<1>2. SurgeCounted'
  BY DEF RiskInv, SurgeCounted, LastJump, Jump, NoReplica
<1>3. EmptyIsCalm' /\ SteadyCrowdHasNoTrend'
  BY DEF RiskInv, EmptyIsCalm, SteadyCrowdHasNoTrend, NoReplica, Least, Full, Peak
<1>4. QED
  BY <1>1, <1>2, <1>3 DEF RiskInv

\* An operator's record shows no density: a list full of the last round's then means
\* that nobody was there.
LEMMA OverrideKeepsRiskInv ==
    ASSUME RiskInv, NEW i \in Replica, Override(i)
    PROVE  RiskInv'
<1>1. /\ \/ hist' = Stored(Entry(0, count[i])) /\ now < MaxRounds /\ now' = now + 1
         \/ hist' = hist /\ now' = now
      /\ failures' = failures \/ (failures < MaxFailures /\ failures' = failures + 1)
      /\ shown' \in Levels /\ setBy' = Operator /\ held' = held \cup {i}
      /\ UNCHANGED <<busy, peak, count, prev, window, round, alerted, sinceJump>>
  BY StartAssumption DEF Override, Keep, Failing
<1>2. RiskTypes
  BY DEF RiskInv
<1>3. /\ hist' \in Seq(EntryType) /\ Len(hist') <= ListMax
      /\ hist' # hist => hist'[1].density = 0
  <2>0. now \in 0..MaxRounds /\ MaxRounds \in Nat /\ ListMax \in Nat /\ count[i] \in Nat
    BY <1>2, BoundAssumption, SizeAssumption DEF RiskTypes
  <2>1. Entry(0, count[i]) \in EntryType /\ Entry(0, count[i]).density = 0
    BY <2>0 DEF Entry, EntryType
  <2>2. hist \in Seq(EntryType) /\ Len(hist) <= ListMax
    BY <1>2 DEF RiskTypes
  <2>3. /\ Stored(Entry(0, count[i])) \in Seq(EntryType)
        /\ Len(Stored(Entry(0, count[i]))) \in 1..ListMax
        /\ Stored(Entry(0, count[i]))[1] = Entry(0, count[i])
    BY <2>1, <2>2, StoredFacts
  <2>4. QED
    BY <1>1, <2>0, <2>1, <2>2, <2>3
<1>4. now' \in 0..MaxRounds /\ failures' \in 0..MaxFailures
  BY <1>1, <1>2, BoundAssumption DEF RiskTypes
<1>5. ScoreRemembered' /\ WarningIsAlerted' /\ SurgeCounted' /\ EmptyIsCalm'
  <2>1. ScoreRemembered'
    BY <1>1 DEF RiskInv, ScoreRemembered, ScoreToLevel, Band, Warning
  <2>2. WarningIsAlerted' /\ EmptyIsCalm'
    BY <1>1, ReplicaAssumption DEF RiskInv, WarningIsAlerted, NoReplica, EmptyIsCalm
  <2>3. SurgeCounted'
    BY <1>1 DEF RiskInv, SurgeCounted, LastJump, Jump, NoReplica
  <2>4. QED
    BY <2>1, <2>2, <2>3
<1>6. SteadyCrowdHasNoTrend'
  <2>1. CASE hist' = hist
    BY <1>1, <2>1 DEF RiskInv, SteadyCrowdHasNoTrend, NoReplica, Least, Full, Peak
  <2>2. CASE hist' # hist
    <3> SUFFICES ASSUME round.by # NoReplica,
                        \A k \in 1..MaxHist : hist'[k].density = round.density
                 PROVE  round.score = Least(Full, Peak(round.density))
      BY <1>1 DEF SteadyCrowdHasNoTrend, NoReplica, Least, Full, Peak
    <3>1. 1 \in 1..MaxHist
      BY SizeAssumption
    <3>2. round.density = 0
      BY <1>3, <2>2, <3>1
    <3>3. round.score = 0
      BY <3>2 DEF RiskInv, EmptyIsCalm
    <3>4. Least(Full, Peak(0)) = 0
      BY DEF Least, Full, Peak
    <3>5. QED
      BY <3>2, <3>3, <3>4
  <2>3. QED
    BY <2>1, <2>2
<1>7. RiskTypes'
  BY <1>1, <1>2, <1>3, <1>4 DEF RiskTypes
<1>8. QED
  BY <1>5, <1>6, <1>7 DEF RiskInv

LEMMA OverrideEndKeepsRiskInv ==
    ASSUME RiskInv, NEW i \in Replica, OverrideEnds(i) \/ SensorReports(i)
    PROVE  RiskInv'
<1>1. /\ held' = held \ {i} /\ (count' = count \/ \E c \in Nat : count' = [count EXCEPT ![i] = c])
      /\ UNCHANGED <<busy, peak, hist, prev, window, round, shown, setBy, alerted,
                     sinceJump, now, failures>>
  BY StartAssumption DEF OverrideEnds, SensorReports
<1>2. RiskTypes'
  BY <1>1 DEF RiskInv, RiskTypes
<1>3. QED
  BY <1>1, <1>2, OthersKeepRiskInv

LEMMA RestartKeepsRiskInv ==
    ASSUME RiskInv, NEW i \in Replica, StartAgain(i)
    PROVE  RiskInv'
<1>1. /\ failures < MaxFailures /\ failures' = failures + 1
      /\ count' = [count EXCEPT ![i] = InitCount] /\ prev' = [prev EXCEPT ![i] = 0]
      /\ window' = [window EXCEPT ![i] = << >>]
      /\ sinceJump' = [sinceJump EXCEPT ![i] = SpikeWindow]
      /\ held' = held \ {i}
      /\ UNCHANGED <<busy, peak, hist, round, shown, setBy, alerted, now>>
  BY DEF StartAgain, Failing
<1>2. RiskTypes
  BY DEF RiskInv
<1>3. InitCount \in Nat /\ SpikeWindow \in Nat \ {0} /\ MaxFailures \in Nat
  BY StartAssumption, SizeAssumption, BoundAssumption
<1>4. failures' \in 0..MaxFailures
  BY <1>1, <1>2, <1>3 DEF RiskTypes
<1>5. /\ count' \in [Replica -> Nat] /\ prev' \in [Replica -> 0..Full]
      /\ window' \in [Replica -> Seq(Nat)]
      /\ sinceJump' \in [Replica -> 0..SpikeWindow]
  <2>1. << >> \in Seq(Nat) /\ 0 \in 0..Full /\ SpikeWindow \in 0..SpikeWindow
    BY <1>3 DEF Full
  <2>2. QED
    BY <1>1, <1>2, <1>3, <2>1 DEF RiskTypes
<1>6. \A j \in Replica : /\ Len(window'[j]) <= SpikeWindow + 1
                          /\ LastJump(window'[j], sinceJump'[j])
  <2> SUFFICES ASSUME NEW j \in Replica
               PROVE  Len(window'[j]) <= SpikeWindow + 1 /\ LastJump(window'[j], sinceJump'[j])
    OBVIOUS
  <2>1. window \in [Replica -> Seq(Nat)] /\ sinceJump \in [Replica -> 0..SpikeWindow]
    BY <1>2 DEF RiskTypes
  <2>2. CASE j = i
    <3>1. window'[j] = << >> /\ sinceJump'[j] = SpikeWindow
      BY <1>1, <2>1, <2>2
    <3>2. QED
      BY <1>3, <3>1 DEF LastJump
  <2>3. CASE j # i
    <3>1. window'[j] = window[j] /\ sinceJump'[j] = sinceJump[j]
      BY <1>1, <2>1, <2>3
    <3>2. QED
      BY <1>2, <3>1 DEF RiskTypes, RiskInv, SurgeCounted
  <2>4. QED
    BY <2>2, <2>3
<1>7. SurgeCounted'
  BY <1>1, <1>6 DEF RiskInv, SurgeCounted, LastJump, Jump, NoReplica
<1>8. ScoreRemembered'
  <2> SUFFICES ASSUME NEW j \in Replica, ScoreToLevel(prev'[j]) \in Warning
               PROVE  j \in alerted
    BY <1>1 DEF ScoreRemembered, ScoreToLevel, Band, Warning
  <2>1. CASE j = i
    <3>1. prev'[j] = 0
      BY <1>1, <1>2, <2>1 DEF RiskTypes
    <3>2. QED
      BY <3>1 DEF ScoreToLevel, Band, Warning
  <2>2. CASE j # i
    <3>1. prev'[j] = prev[j]
      BY <1>1, <1>2, <2>2 DEF RiskTypes
    <3>2. QED
      BY <3>1 DEF RiskInv, ScoreRemembered
  <2>3. QED
    BY <2>1, <2>2
<1>9. WarningIsAlerted' /\ EmptyIsCalm' /\ SteadyCrowdHasNoTrend'
  BY <1>1 DEF RiskInv, WarningIsAlerted, EmptyIsCalm, SteadyCrowdHasNoTrend, NoReplica,
              Least, Full, Peak
<1>10. RiskTypes'
  BY <1>1, <1>2, <1>4, <1>5, <1>6
     DEF RiskTypes
<1>11. QED
  BY <1>7, <1>8, <1>9, <1>10 DEF RiskInv

LEMMA StutterKeepsRiskInv ==
    ASSUME RiskInv, UNCHANGED riskVars
    PROVE  RiskInv'
<1>1. UNCHANGED <<busy, peak, hist, count, prev, window, round, shown, setBy, held, alerted,
                  sinceJump, now, failures>>
  BY DEF riskVars
<1>2. RiskTypes'
  BY <1>1 DEF RiskInv, RiskTypes
<1>3. QED
  BY <1>1, <1>2, OthersKeepRiskInv

\* Inductive.
LEMMA RiskInvariance == RiskSpec => []RiskInv
<1>1. RiskInit => RiskInv
  BY RiskInvInit
<1>2. RiskInv /\ [RiskNext]_riskVars => RiskInv'
  BY RoundKeepsRiskInv, OverrideKeepsRiskInv, OverrideEndKeepsRiskInv, RestartKeepsRiskInv,
     StutterKeepsRiskInv DEF RiskNext
<1>3. QED
  BY <1>1, <1>2, PTL DEF RiskSpec

\* A warning the engine finds was alerted by the instance that found it (should_alert
\* beside score_to_level_adaptive), whatever the readings, the operators' levels in
\* between, the failing calls, the restarts and the changes of leader.
THEOREM WarningsAlerted == RiskSpec => []WarningIsAlerted
BY RiskInvariance, PTL DEF RiskInv

\* SurgeDetector.update() reports a jump for SPIKE_WINDOW steps, for windows of any
\* length; and the types.
THEOREM SurgesLast == RiskSpec => []SurgeLastsItsWindow
<1>1. RiskInv => RiskTypeOK
  <2> SUFFICES ASSUME RiskInv PROVE RiskTypeOK
    OBVIOUS
  <2>1. RiskTypes
    BY DEF RiskInv
  <2>2. \A k \in DOMAIN hist : hist[k].density \in Nat /\ hist[k].count \in Nat
    <3>1. \A k \in 1..Len(hist) : hist[k] \in EntryType
      BY <2>1, ElementOfSeq DEF RiskTypes
    <3>2. DOMAIN hist = 1..Len(hist)
      BY <2>1 DEF RiskTypes
    <3>3. QED
      BY <3>1, <3>2 DEF EntryType
  <2>3. QED
    BY <2>1, <2>2 DEF RiskTypes, RoundType, RiskTypeOK
<1>2. RiskInv => SurgeLastsItsWindow
  BY <1>1 DEF RiskInv, SurgeCounted, SurgeLastsItsWindow
<1>3. QED
  BY <1>2, RiskInvariance, PTL

\* The replay of the list newest first leaves a steady crowd without a trend, for a
\* history of any length.
THEOREM SteadyCrowds == RiskSpec => []SteadyCrowdHasNoTrend
BY RiskInvariance, PTL DEF RiskInv
=============================================================================
