-------------------------- MODULE RecordCacheProofs -------------------------
(* The cached list for any number of instances, readers and changes and any *)
(* times: how many readers the stampede lock lets to the query, what a      *)
(* deleted entry comes back with, and how stale it gets.  The last is a     *)
(* matter of bookkeeping: whoever may still fill the entry without a change *)
(* is at most as far behind as it has been under way, and an entry without  *)
(* it expires before the bound.                                             *)
EXTENDS RecordCache, FiniteSetTheorems, TLAPS

ReadType ==
    [pc : {"idle", "lock", "check", "query", "set", "release", "spin", "direct",
           "done", "error"},
     inst : Instance \cup {Nobody}, got : List, left : 0..LockWait, age : 0..MaxLag]

WriteType ==
    [pc : {"idle", "apply", "cache", "publish", "sent"},
     inst : Instance \cup {Nobody}, snap : SUBSET Change, age : 0..MaxLag]

EntryType == [val : SUBSET Change, outage : BOOLEAN, ttl : 1..WarmTTL]

\* TypeOK in parts: what the instances know, ...
DataTypes ==
    /\ pg \in SUBSET Change
    /\ mem \in [Instance -> SUBSET Change]
    /\ write \in [Change -> WriteType]
    /\ inbox \in [Instance -> SUBSET Change]
    /\ since \in [Change -> 0..(Bound + 1)]
    /\ late \in SUBSET Change /\ missed \in SUBSET Change

\* ... and the rest.
CacheTypes ==
    /\ kind \in Kinds /\ pgUp \in BOOLEAN
    /\ redis \in {"up", "open", "down"}
    /\ cache \in {Nothing} \cup EntryType
    /\ lock \in 0..LockTTL
    /\ read \in [Reader -> ReadType]
    /\ overruns \in 0..Cardinality(Reader)
    /\ faults \in 0..MaxFaults

Types == DataTypes /\ CacheTypes

\* Who loads holds the lock, or lost one that expired under it.
LoadersCounted ==
    /\ Cardinality(Loaders) <= 1 + overruns
    /\ lock = 0 => Cardinality(Loaders) <= overruns

\* A change that has been in the cache step.
Touched(c) == write[c].pc \in {"publish", "sent"}

\* Readers that are about to fill the entry have all changes that deleted it in
\* time; for the lost-person list nothing is promised.
FreshInv ==
    /\ kind = "lost" => \A c \in Change : Touched(c) => c \in late
    /\ \A c \in pg : Touched(c) /\ c \notin late =>
         /\ cache # Nothing /\ ~cache.outage => c \in cache.val
         /\ \A r \in Reader :
              read[r].pc = "set" /\ ~read[r].got.outage => c \in read[r].got.val

\* Where a change is between its commit and the memory of the last instance.
Spread ==
    /\ \A c \in Change : c \notin pg => since[c] = 0
    /\ \A c \in Change : write[c].pc = "idle" => c \notin pg
    /\ \A c \in Change : write[c].pc \in {"apply", "cache", "publish"} => write[c].inst \in Instance
    /\ \A c \in Change : write[c].pc \in {"cache", "publish"} => c \in mem[write[c].inst]
    /\ \A c \in pg, i \in Instance : c \notin mem[i] /\ c \notin missed =>
         write[c].pc \in {"apply", "cache", "publish"} \/ c \in inbox[i]
    /\ \A c \in pg : Spreading(c) => since[c] <= write[c].age

\* A reader lacks what was committed after its query ...
ReadersBehind ==
    \A r \in Reader : read[r].pc = "set" /\ ~read[r].got.outage =>
        \A c \in pg \ read[r].got.val : since[c] <= read[r].age

\* ... and the list a lost-person route took from memory, what had not arrived.
SnapsBehind ==
    kind = "lost" =>
        \A d \in Change : write[d].pc = "cache" =>
            \A c \in pg \ (write[d].snap \cup missed) : since[c] <= MaxLag + write[d].age

\* An entry without a change is gone before the change is older than the bound.
EntryBehind ==
    cache # Nothing =>
        /\ kind # "lost" => cache.ttl <= TTL
        /\ ~cache.outage =>
             \A c \in pg \ cache.val :
                 ~(kind = "lost" /\ c \in missed) => since[c] + cache.ttl <= Bound

StaleInv == Spread /\ ReadersBehind /\ SnapsBehind /\ EntryBehind

----------------------------------------------------------------------------
(* Types.                                                                   *)

LEMMA BoundType ==
    /\ Bound \in Nat /\ MaxLag + TTL <= Bound /\ WarmTTL \in Nat \ {0}
    /\ kind # "lost" => Bound = MaxLag + TTL
    /\ kind = "lost" => Bound = 2 * MaxLag + WarmTTL
    /\ kind' = kind => Bound' = Bound
BY TimesAssumption DEF Bound

LEMMA Blank ==
    /\ Unread \in ReadType /\ Unread.pc = "idle"
    /\ Unwritten \in WriteType /\ Unwritten.pc = "idle" /\ Unwritten.age = 0
BY TimesAssumption DEF Unread, Unwritten, ReadType, WriteType, List

LEMMA TypesInit == Init => Types
<1> SUFFICES ASSUME Init PROVE Types
  OBVIOUS
<1>1. Cardinality(Reader) \in Nat
  BY ReaderAssumption, FS_CardinalityType
<1>2. CacheTypes
  BY <1>1, Blank, TimesAssumption DEF Init, CacheTypes
<1>3. DataTypes
  BY Blank, BoundType DEF Init, DataTypes
<1> QED
  BY <1>2, <1>3 DEF Types

\* What a reader may be answered with, from the entry, Postgres or a memory.
LEMMA Lists ==
    ASSUME Types
    PROVE  /\ Rows \in List
           /\ Hit => cache \in EntryType /\ Cached \in List
           /\ \A i \in Instance : [val |-> mem[i], outage |-> FALSE] \in List
<1>1. Rows \in List
  BY DEF Types, DataTypes, Rows, List
<1>2. Hit => cache \in EntryType
  BY DEF Types, CacheTypes, Hit
<1>3. Hit => Cached \in List
  BY <1>2 DEF EntryType, Cached, List
<1>4. \A i \in Instance : [val |-> mem[i], outage |-> FALSE] \in List
  BY DEF Types, DataTypes, List
<1> QED
  BY <1>1, <1>2, <1>3, <1>4

\* An answer ends a request.
LEMMA Answered ==
    ASSUME Types, NEW r \in Reader, NEW got \in List, Answer(r, got)
    PROVE  /\ read' \in [Reader -> ReadType]
           /\ read'[r].pc = "done"
           /\ \A x \in Reader : x # r => read'[x] = read[x]
<1>1. read[r].inst \in Instance \cup {Nobody} /\ got.outage \in BOOLEAN
  BY DEF Types, CacheTypes, ReadType, List
<1>2. Unread.got \in List
  BY Blank DEF ReadType
<1>3. [Unread.got EXCEPT !.outage = got.outage] \in List
  BY <1>1, <1>2 DEF List
<1> DEFINE new == [Unread EXCEPT !.pc = "done", !.inst = read[r].inst, !.got.outage = got.outage]
<1>4. new = [[[Unread EXCEPT !.pc = "done"] EXCEPT !.inst = read[r].inst]
             EXCEPT !.got = [Unread.got EXCEPT !.outage = got.outage]]
  BY DEF Unread
<1>5. new \in ReadType /\ new.pc = "done"
  BY <1>1, <1>3, <1>4, Blank DEF ReadType
<1>6. read' = [read EXCEPT ![r] = new]
  BY DEF Answer
<1> HIDE DEF new
<1> QED
  BY <1>5, <1>6 DEF Types, CacheTypes

LEMMA AtType ==
    ASSUME Types, NEW r \in Reader, At(r, "lock") \/ At(r, "check") \/ At(r, "query")
                                    \/ At(r, "release") \/ At(r, "direct")
    PROVE  /\ read' \in [Reader -> ReadType]
           /\ read'[r].pc \in {"lock", "check", "query", "release", "direct"}
           /\ \A x \in Reader : x # r => read'[x] = read[x]
<1>1. PICK pc \in {"lock", "check", "query", "release", "direct"} :
        read' = [read EXCEPT ![r].pc = pc]
  BY DEF At
<1>2. [read[r] EXCEPT !.pc = pc] \in ReadType /\ [read[r] EXCEPT !.pc = pc].pc = pc
  BY DEF Types, CacheTypes, ReadType
<1> QED
  BY <1>1, <1>2 DEF Types, CacheTypes

\* What a step of a reader does to it and to no other.
LEMMA ReaderMoves ==
    ASSUME Types, NEW r \in Reader,
           \/ Get(r) \/ Lock(r) \/ LockRaises(r) \/ DoubleCheck(r) \/ Query(r) \/ Fill(r)
           \/ Release(r) \/ Poll(r) \/ QueryDirectly(r)
    PROVE  /\ read' \in [Reader -> ReadType]
           /\ \A x \in Reader : x # r => read'[x] = read[x]
           /\ read'[r].pc = "set" =>
                Query(r) /\ read'[r].got = Rows /\ read[r].pc = "query"
<1> USE DEF Types, CacheTypes
<1>1. CASE Get(r)
  <2>1. CASE Hit
    BY <1>1, <2>1, Lists, Answered DEF Get
  <2>2. CASE ~Hit
    <3>1. At(r, "lock")
      BY <1>1, <2>2 DEF Get
    <3> QED
      BY <3>1, AtType
  <2> QED
    BY <2>1, <2>2
<1>2. CASE Lock(r)
  <2>1. CASE lock = 0
    <3>1. At(r, "check")
      BY <1>2, <2>1 DEF Lock
    <3> QED
      BY <3>1, AtType
  <2>2. CASE lock # 0
    <3>1. read' = [read EXCEPT ![r] = [read[r] EXCEPT !.pc = "spin", !.left = LockWait]]
      BY <1>2, <2>2 DEF Lock
    <3>2. [read[r] EXCEPT !.pc = "spin", !.left = LockWait] \in ReadType
      <4>1. [read[r] EXCEPT !.pc = "spin"] \in ReadType
        BY DEF ReadType
      <4>2. [[read[r] EXCEPT !.pc = "spin"] EXCEPT !.left = LockWait] \in ReadType
        <5>1. LockWait \in 0..LockWait
          BY TimesAssumption
        <5> QED
          BY <4>1, <5>1 DEF ReadType
      <4> QED
        BY <4>2
    <3>3. [read[r] EXCEPT !.pc = "spin", !.left = LockWait].pc = "spin"
      BY DEF ReadType
    <3> QED
      BY <3>1, <3>2, <3>3
  <2> QED
    BY <2>1, <2>2
<1>3. CASE LockRaises(r)
  <2>1. CASE kind = "sos"
    <3>1. PICK i \in Instance : Answer(r, [val |-> mem[i], outage |-> FALSE])
      BY <1>3, <2>1 DEF LockRaises
    <3>2. [val |-> mem[i], outage |-> FALSE] \in List
      BY Lists
    <3> QED
      BY <3>1, <3>2, Answered
  <2>2. CASE kind # "sos"
    <3>1. read' = [read EXCEPT ![r] = [Unread EXCEPT !.pc = "error"]]
      BY <1>3, <2>2 DEF LockRaises
    <3>2. [Unread EXCEPT !.pc = "error"] \in ReadType /\ [Unread EXCEPT !.pc = "error"].pc = "error"
      BY Blank DEF ReadType
    <3> QED
      BY <3>1, <3>2
  <2> QED
    BY <2>1, <2>2
<1>4. CASE DoubleCheck(r)
  <2>1. CASE Hit
    <3>1. read' = [read EXCEPT ![r] = [read[r] EXCEPT !.pc = "release", !.got = Cached]]
      BY <1>4, <2>1 DEF DoubleCheck
    <3>2. [read[r] EXCEPT !.pc = "release", !.got = Cached] \in ReadType
      BY <2>1, Lists DEF ReadType
    <3>3. [read[r] EXCEPT !.pc = "release", !.got = Cached].pc = "release"
      BY DEF ReadType
    <3> QED
      BY <3>1, <3>2, <3>3
  <2>2. CASE ~Hit
    <3>1. At(r, "query")
      BY <1>4, <2>2 DEF DoubleCheck
    <3> QED
      BY <3>1, AtType
  <2> QED
    BY <2>1, <2>2
<1>5. CASE Query(r)
  <2>1. PICK i \in Instance \cup {Nobody} :
          read' = [read EXCEPT ![r] = [read[r] EXCEPT !.pc = "set", !.got = Rows, !.inst = i]]
    BY <1>5 DEF Query, Servers
  <2> DEFINE new == [read[r] EXCEPT !.pc = "set", !.got = Rows, !.inst = i]
  <2>2. new \in ReadType
    <3>1. [read[r] EXCEPT !.pc = "set"] \in ReadType
      BY DEF ReadType
    <3>2. [[read[r] EXCEPT !.pc = "set"] EXCEPT !.got = Rows] \in ReadType
      BY <3>1, Lists DEF ReadType
    <3>3. [[[read[r] EXCEPT !.pc = "set"] EXCEPT !.got = Rows] EXCEPT !.inst = i] \in ReadType
      BY <3>2 DEF ReadType
    <3> QED
      BY <3>3
  <2>3. new.got = Rows
    BY DEF ReadType
  <2>4. read[r].pc = "query"
    BY <1>5 DEF Query
  <2> HIDE DEF new
  <2> QED
    BY <1>5, <2>1, <2>2, <2>3, <2>4 DEF new
<1>6. CASE Fill(r)
  BY <1>6, AtType DEF Fill
<1>7. CASE Release(r)
  <2>1. read[r].got \in List
    BY DEF ReadType
  <2> QED
    BY <1>7, <2>1, Answered DEF Release
<1>8. CASE Poll(r)
  <2>1. CASE Hit /\ Answer(r, Cached)
    BY <2>1, Lists, Answered
  <2>2. CASE At(r, "direct")
    BY <2>2, AtType
  <2> QED
    BY <1>8, <2>1, <2>2 DEF Poll
<1>9. CASE QueryDirectly(r)
  <2>1. PICK i \in Instance \cup {Nobody} :
          read' = [read EXCEPT ![r] = [Unread EXCEPT !.pc = "done", !.inst = i,
                                                     !.got.outage = ~pgUp]]
    BY <1>9 DEF QueryDirectly, Servers
  <2> DEFINE new == [Unread EXCEPT !.pc = "done", !.inst = i, !.got.outage = ~pgUp]
  <2>2. new = [[[Unread EXCEPT !.pc = "done"] EXCEPT !.inst = i]
               EXCEPT !.got = [Unread.got EXCEPT !.outage = ~pgUp]]
    BY DEF Unread
  <2>3. Unread.got \in List
    BY Blank DEF ReadType
  <2>4. [Unread.got EXCEPT !.outage = ~pgUp] \in List
    BY <2>3 DEF List
  <2>5. new \in ReadType /\ new.pc = "done"
    BY <2>2, <2>4, Blank DEF ReadType
  <2> HIDE DEF new
  <2> QED
    BY <2>1, <2>5 DEF new
<1> QED
  BY <1>1, <1>2, <1>3, <1>4, <1>5, <1>6, <1>7, <1>8, <1>9

LEMMA EntryTyped ==
    ASSUME NEW list \in List, NEW ttl \in 1..WarmTTL
    PROVE  Entry(list, ttl) \in EntryType
BY DEF Entry, List, EntryType

\* TTL and WarmTTL are ttls of an entry.
LEMMA Ttls == TTL \in 1..WarmTTL /\ WarmTTL \in 1..WarmTTL
BY TimesAssumption

LEMMA ReaderTypes ==
    ASSUME Types, NEW r \in Reader,
           \/ Get(r) \/ Lock(r) \/ LockRaises(r) \/ DoubleCheck(r) \/ Query(r) \/ Fill(r)
           \/ Release(r) \/ Poll(r) \/ QueryDirectly(r)
    PROVE  Types'
<1>1. read' \in [Reader -> ReadType]
  BY ReaderMoves
<1>2. UNCHANGED <<kind, pgUp, redis, pg, mem, write, inbox, since, late, missed, overruns, faults>>
  BY DEF Get, Lock, LockRaises, DoubleCheck, Query, Fill, Release, Poll, QueryDirectly, data
<1>3. DataTypes'
  <2>1. Bound' = Bound
    BY <1>2, BoundType
  <2> QED
    BY <1>2, <2>1 DEF Types, DataTypes
<1>4. lock' \in 0..LockTTL
  <2>1. lock' \in {lock, LockTTL, 0}
    BY DEF Get, Lock, LockRaises, DoubleCheck, Query, Fill, Release, Poll, QueryDirectly
  <2> QED
    BY <2>1, TimesAssumption DEF Types, CacheTypes
<1>5. cache' \in {Nothing} \cup EntryType
  <2>1. CASE Fill(r)
    <3>1. read[r].got \in List
      BY DEF Types, CacheTypes, ReadType
    <3>2. Entry(read[r].got, TTL) \in EntryType
      BY <3>1, EntryTyped, Ttls
    <3> QED
      BY <2>1, <3>2 DEF Fill, Types, CacheTypes
  <2>2. CASE ~Fill(r)
    BY <2>2 DEF Get, Lock, LockRaises, DoubleCheck, Query, Release, Poll, QueryDirectly,
                Types, CacheTypes
  <2> QED
    BY <2>1, <2>2
<1> QED
  BY <1>1, <1>2, <1>3, <1>4, <1>5 DEF Types, CacheTypes

\* What a step of a change does to it and to no other.
LEMMA WriteMoves ==
    ASSUME Types, NEW c \in Change
    PROVE  /\ \A i \in Instance : Commit(c, i) =>
                /\ write'[c] \in WriteType /\ write'[c].pc = "apply"
                /\ write'[c].inst = i /\ write'[c].age = 0
           /\ Apply(c) =>
                /\ write[c].inst \in Instance => write'[c] \in WriteType
                /\ write'[c].pc = "cache" /\ write'[c].snap = mem'[write[c].inst]
                /\ write'[c].inst = write[c].inst /\ write'[c].age = write[c].age
           /\ TouchCache(c) =>
                /\ write'[c] \in WriteType /\ write'[c].pc = "publish"
                /\ write'[c].inst = write[c].inst /\ write'[c].age = write[c].age
           /\ Publish(c) =>
                /\ write'[c] \in WriteType
                /\ write'[c].pc = "sent" /\ write'[c].age = write[c].age
           /\ (\E i \in Instance : Commit(c, i)) \/ Apply(c) \/ TouchCache(c) \/ Publish(c) =>
                \A d \in Change : d # c => write'[d] = write[d]
<1> USE DEF Types, DataTypes
<1>0. write[c] \in WriteType /\ \A d \in Change : d # c => c # d
  OBVIOUS
<1>1. ASSUME NEW i \in Instance, Commit(c, i)
      PROVE  /\ write'[c] \in WriteType /\ write'[c].pc = "apply"
             /\ write'[c].inst = i /\ write'[c].age = 0
             /\ \A d \in Change : d # c => write'[d] = write[d]
  <2> DEFINE new == [Unwritten EXCEPT !.pc = "apply", !.inst = i]
  <2>1. write' = [write EXCEPT ![c] = new]
    BY <1>1 DEF Commit
  <2>2. new \in WriteType /\ new.pc = "apply" /\ new.inst = i /\ new.age = 0
    BY Blank DEF WriteType
  <2> HIDE DEF new
  <2> QED
    BY <2>1, <2>2
<1>2. ASSUME Apply(c)
      PROVE  /\ write[c].inst \in Instance => write'[c] \in WriteType
             /\ write'[c].pc = "cache" /\ write'[c].snap = mem'[write[c].inst]
             /\ write'[c].inst = write[c].inst /\ write'[c].age = write[c].age
             /\ \A d \in Change : d # c => write'[d] = write[d]
  <2> DEFINE new == [write[c] EXCEPT !.pc = "cache", !.snap = mem'[write[c].inst]]
  <2>1. write' = [write EXCEPT ![c] = new]
    <3> DEFINE snap == mem'[write[c].inst]
    <3>1. write' = [write EXCEPT ![c].pc = "cache", ![c].snap = snap]
      BY <1>2, Zenon DEF Apply
    <3> HIDE DEF snap
    <3>2. write' = [write EXCEPT ![c] = [write[c] EXCEPT !.pc = "cache", !.snap = snap]]
      BY <3>1
    <3> QED
      BY <3>2 DEF snap
  <2>2. /\ new.pc = "cache" /\ new.snap = mem'[write[c].inst]
        /\ new.inst = write[c].inst /\ new.age = write[c].age
    BY <1>0 DEF WriteType
  <2>3. write[c].inst \in Instance => mem'[write[c].inst] \in SUBSET Change
    BY <1>2 DEF Apply
  <2>4. write[c].inst \in Instance => new \in WriteType
    BY <1>0, <2>3 DEF WriteType
  <2> HIDE DEF new
  <2> QED
    BY <2>1, <2>2, <2>4
<1>3. ASSUME TouchCache(c)
      PROVE  /\ write'[c] \in WriteType /\ write'[c].pc = "publish"
             /\ write'[c].inst = write[c].inst /\ write'[c].age = write[c].age
             /\ \A d \in Change : d # c => write'[d] = write[d]
  <2> DEFINE new == [write[c] EXCEPT !.pc = "publish", !.snap = {}]
  <2>1. write' = [write EXCEPT ![c] = new]
    BY <1>3 DEF TouchCache
  <2>2. /\ new \in WriteType /\ new.pc = "publish"
        /\ new.inst = write[c].inst /\ new.age = write[c].age
    BY <1>0 DEF WriteType
  <2> HIDE DEF new
  <2> QED
    BY <2>1, <2>2
<1>4. ASSUME Publish(c)
      PROVE  /\ write'[c] \in WriteType
             /\ write'[c].pc = "sent" /\ write'[c].age = write[c].age
             /\ \A d \in Change : d # c => write'[d] = write[d]
  <2> DEFINE new == [write[c] EXCEPT !.pc = "sent", !.inst = Nobody]
  <2>1. write' = [write EXCEPT ![c] = new]
    BY <1>4 DEF Publish
  <2>2. /\ new \in WriteType /\ new.pc = "sent" /\ new.age = write[c].age
    BY <1>0 DEF WriteType
  <2> HIDE DEF new
  <2> QED
    BY <2>1, <2>2
<1> QED
  BY <1>1, <1>2, <1>3, <1>4

LEMMA TickMoves ==
    ASSUME Types, Tick
    PROVE  /\ \A r \in Reader :
                /\ read'[r] \in ReadType
                /\ read'[r].pc = read[r].pc /\ read'[r].got = read[r].got
                /\ read[r].pc = "set" => read'[r].age = read[r].age + 1
           /\ \A c \in Change :
                /\ write'[c] \in WriteType
                /\ write'[c].pc = write[c].pc /\ write'[c].inst = write[c].inst
                /\ write'[c].snap = write[c].snap
                /\ Spreading(c) => write'[c].age = write[c].age + 1 /\ write[c].age < MaxLag
           /\ \A c \in Change :
                /\ since'[c] \in 0..(Bound + 1)
                /\ c \in pg => since'[c] <= since[c] + 1
                /\ c \notin pg => since'[c] = since[c]
           /\ \/ cache' = Nothing
              \/ /\ cache \in EntryType /\ cache # Nothing /\ cache.ttl > 1
                 /\ cache' \in EntryType
                 /\ cache'.val = cache.val /\ cache'.outage = cache.outage
                 /\ cache'.ttl = cache.ttl - 1
<1> USE DEF Types, DataTypes, CacheTypes
<1>1. ASSUME NEW r \in Reader
      PROVE  /\ read'[r] \in ReadType
             /\ read'[r].pc = read[r].pc /\ read'[r].got = read[r].got
             /\ read[r].pc = "set" => read'[r].age = read[r].age + 1
  <2> DEFINE left == Less(read[r].left)
             age == IF read[r].pc = "set" THEN read[r].age + 1 ELSE 0
  <2>1. read'[r] = [read[r] EXCEPT !.left = left, !.age = age]
    BY <1>1 DEF Tick
  <2>2. read[r] \in ReadType
    OBVIOUS
  <2>3. left \in 0..LockWait
    BY <2>2, TimesAssumption DEF Less, ReadType
  <2>4. age \in 0..MaxLag
    <3>1. read[r].age \in 0..MaxLag
      BY <2>2 DEF ReadType
    <3>2. read[r].pc = "set" => read[r].age < MaxLag
      BY DEF Tick
    <3> QED
      BY <3>1, <3>2, TimesAssumption
  <2>5. read[r].pc = "set" => age = read[r].age + 1
    OBVIOUS
  <2> HIDE DEF left, age
  <2>6. [read[r] EXCEPT !.left = left] \in ReadType
    BY <2>2, <2>3 DEF ReadType
  <2>7. [[read[r] EXCEPT !.left = left] EXCEPT !.age = age] \in ReadType
    BY <2>4, <2>6 DEF ReadType
  <2>8. /\ [[read[r] EXCEPT !.left = left] EXCEPT !.age = age].pc = read[r].pc
        /\ [[read[r] EXCEPT !.left = left] EXCEPT !.age = age].got = read[r].got
        /\ [[read[r] EXCEPT !.left = left] EXCEPT !.age = age].age = age
    BY <2>2 DEF ReadType
  <2> QED
    BY <2>1, <2>5, <2>7, <2>8
<1>2. ASSUME NEW c \in Change
      PROVE  /\ write'[c] \in WriteType
             /\ write'[c].pc = write[c].pc /\ write'[c].inst = write[c].inst
             /\ write'[c].snap = write[c].snap
             /\ Spreading(c) => write'[c].age = write[c].age + 1 /\ write[c].age < MaxLag
  <2> DEFINE age == IF Spreading(c) THEN write[c].age + 1 ELSE 0
  <2>1. write'[c] = [write[c] EXCEPT !.age = age]
    BY <1>2 DEF Tick
  <2>2. write[c] \in WriteType
    OBVIOUS
  <2>3. Spreading(c) => write[c].age < MaxLag
    BY DEF Tick
  <2>4. age \in 0..MaxLag /\ (Spreading(c) => age = write[c].age + 1)
    <3>1. write[c].age \in 0..MaxLag
      BY <2>2 DEF WriteType
    <3> QED
      BY <2>3, <3>1, TimesAssumption
  <2> HIDE DEF age
  <2>5. /\ [write[c] EXCEPT !.age = age] \in WriteType
        /\ [write[c] EXCEPT !.age = age].pc = write[c].pc
        /\ [write[c] EXCEPT !.age = age].inst = write[c].inst
        /\ [write[c] EXCEPT !.age = age].snap = write[c].snap
        /\ [write[c] EXCEPT !.age = age].age = age
    BY <2>2, <2>4 DEF WriteType
  <2> QED
    BY <2>1, <2>3, <2>4, <2>5
<1>3. ASSUME NEW c \in Change
      PROVE  /\ since'[c] \in 0..(Bound + 1)
             /\ c \in pg => since'[c] <= since[c] + 1
             /\ c \notin pg => since'[c] = since[c]
  <2>1. since'[c] = IF c \in pg /\ since[c] <= Bound THEN since[c] + 1 ELSE since[c]
    BY <1>3 DEF Tick
  <2> QED
    BY <2>1, BoundType
<1>4. \/ cache' = Nothing
      \/ /\ cache \in EntryType /\ cache # Nothing /\ cache.ttl > 1
         /\ cache' \in EntryType
         /\ cache'.val = cache.val /\ cache'.outage = cache.outage
         /\ cache'.ttl = cache.ttl - 1
  <2>1. CASE cache = Nothing \/ cache.ttl = 1
    BY <2>1 DEF Tick
  <2>2. CASE cache # Nothing /\ cache.ttl # 1
    <3>1. cache \in EntryType /\ cache' = [cache EXCEPT !.ttl = cache.ttl - 1]
      BY <2>2 DEF Tick
    <3>2. cache.ttl \in 1..WarmTTL /\ cache.ttl > 1 /\ cache.ttl - 1 \in 1..WarmTTL
      BY <2>2, <3>1, BoundType DEF EntryType
    <3> QED
      BY <2>2, <3>1, <3>2 DEF EntryType
  <2> QED
    BY <2>1, <2>2
<1> QED
  BY <1>1, <1>2, <1>3, <1>4

\* The routes run on instances; part of Spread.
OnInstances ==
    \A c \in Change : write[c].pc \in {"apply", "cache", "publish"} => write[c].inst \in Instance

LEMMA TypesStep ==
    ASSUME Types, OnInstances, [Next]_vars
    PROVE  Types'
<1>1. ASSUME NEW r \in Reader,
             \/ Get(r) \/ Lock(r) \/ LockRaises(r) \/ DoubleCheck(r) \/ Query(r) \/ Fill(r)
             \/ Release(r) \/ Poll(r) \/ QueryDirectly(r)
      PROVE  Types'
  BY <1>1, ReaderTypes
<1>2. Bound' = Bound
  BY BoundType DEF Next, vars, Get, Lock, LockRaises, DoubleCheck, Query, Fill, Release, Poll,
     QueryDirectly, Commit, Apply, TouchCache, Publish, Deliver, LoseMessage, PgFails, PgRecovers,
     RedisFails, RedisRecovers, Tick
<1> USE DEF Types, DataTypes, CacheTypes
<1>3. ASSUME NEW c \in Change, NEW i \in Instance, Commit(c, i) PROVE Types'
  <2>1. write' \in [Change -> WriteType]
    <3>1. write'[c] \in WriteType /\ \A d \in Change : d # c => write'[d] = write[d]
      BY <1>3, WriteMoves
    <3> QED
      BY <1>3, <3>1 DEF Commit
  <2>2. pg' \in SUBSET Change
    BY <1>3 DEF Commit
  <2> QED
    BY <1>2, <1>3, <2>1, <2>2 DEF Commit
<1>4. ASSUME NEW c \in Change, Apply(c) PROVE Types'
  <2>1. write' \in [Change -> WriteType]
    <3>1. write[c].inst \in Instance
      BY <1>4 DEF Apply, OnInstances
    <3>2. write'[c] \in WriteType /\ \A d \in Change : d # c => write'[d] = write[d]
      BY <1>4, <3>1, WriteMoves
    <3> QED
      BY <1>4, <3>2 DEF Apply
  <2>2. mem' \in [Instance -> SUBSET Change]
    BY <1>4 DEF Apply
  <2> QED
    BY <1>2, <1>4, <2>1, <2>2 DEF Apply
<1>5. ASSUME NEW c \in Change, TouchCache(c) PROVE Types'
  <2>1. write' \in [Change -> WriteType]
    <3>1. write'[c] \in WriteType /\ \A d \in Change : d # c => write'[d] = write[d]
      BY <1>5, WriteMoves
    <3> QED
      BY <1>5, <3>1 DEF TouchCache
  <2>2. cache' \in {Nothing} \cup EntryType
    <3>1. [val |-> write[c].snap, outage |-> FALSE] \in List
      BY DEF WriteType, List
    <3>2. Entry([val |-> write[c].snap, outage |-> FALSE], WarmTTL) \in EntryType
      BY <3>1, EntryTyped, Ttls
    <3>3. cache' \in {cache, Entry([val |-> write[c].snap, outage |-> FALSE], WarmTTL), Nothing}
      BY <1>5 DEF TouchCache
    <3> QED
      BY <3>2, <3>3
  <2>3. late' \in SUBSET Change
    BY <1>5 DEF TouchCache
  <2> QED
    BY <1>2, <1>5, <2>1, <2>2, <2>3 DEF TouchCache
<1>6. ASSUME NEW c \in Change, Publish(c) PROVE Types'
  <2>1. write' \in [Change -> WriteType]
    <3>1. write'[c] \in WriteType /\ \A d \in Change : d # c => write'[d] = write[d]
      BY <1>6, WriteMoves
    <3> QED
      BY <1>6, <3>1 DEF Publish
  <2>2. inbox' \in [Instance -> SUBSET Change] /\ missed' \in SUBSET Change
    BY <1>6 DEF Publish
  <2> QED
    BY <1>2, <1>6, <2>1, <2>2 DEF Publish
<1>7. ASSUME NEW c \in Change, NEW i \in Instance, Deliver(i, c) \/ LoseMessage(i, c) PROVE Types'
  BY <1>2, <1>7, TimesAssumption DEF Deliver, LoseMessage
<1>8. CASE PgFails \/ PgRecovers \/ RedisFails \/ RedisRecovers
  <2>1. DataTypes'
    BY <1>2, <1>8 DEF PgFails, PgRecovers, RedisFails, RedisRecovers, data
  <2>2. faults' \in 0..MaxFaults
    BY <1>8, TimesAssumption DEF PgFails, PgRecovers, RedisFails, RedisRecovers
  <2>3. pgUp' \in BOOLEAN /\ redis' \in {"up", "open", "down"}
    BY <1>8 DEF PgFails, PgRecovers, RedisFails, RedisRecovers
  <2>4. UNCHANGED <<kind, cache, lock, read, overruns>>
    BY <1>8 DEF PgFails, PgRecovers, RedisFails, RedisRecovers
  <2> QED
    BY <2>1, <2>2, <2>3, <2>4
<1>9. CASE Tick
  <2>1. read' \in [Reader -> ReadType] /\ write' \in [Change -> WriteType]
    <3>1. /\ \A r \in Reader : read'[r] \in ReadType
          /\ \A c \in Change : write'[c] \in WriteType
      BY <1>9, TickMoves
    <3> QED
      BY <1>9, <3>1 DEF Tick
  <2>2. since' \in [Change -> 0..(Bound' + 1)]
    <3>1. \A c \in Change : since'[c] \in 0..(Bound + 1)
      BY <1>9, TickMoves
    <3> QED
      BY <1>2, <1>9, <3>1 DEF Tick
  <2>3. cache' \in {Nothing} \cup EntryType
    BY <1>9, TickMoves
  <2>4. lock' \in 0..LockTTL
    <3>1. lock' = IF lock = 0 THEN 0 ELSE lock - 1
      BY <1>9 DEF Tick, Less
    <3>2. lock \in 0..LockTTL
      OBVIOUS
    <3> QED
      BY <3>1, <3>2, TimesAssumption
  <2>5. overruns' \in 0..Cardinality(Reader)
    <3>1. Cardinality(Reader) \in Nat
      BY ReaderAssumption, FS_CardinalityType
    <3>2. overruns' = overruns \/ (overruns' = overruns + 1 /\ overruns < Cardinality(Reader))
      BY <1>9 DEF Tick
    <3> QED
      BY <3>1, <3>2
  <2>6. DataTypes'
    BY <1>9, <2>1, <2>2 DEF Tick
  <2>7. CacheTypes'
    BY <1>9, <2>1, <2>3, <2>4, <2>5 DEF Tick
  <2> QED
    BY <2>6, <2>7
<1>10. CASE UNCHANGED vars
  BY <1>2, <1>10 DEF vars
<1> QED
  BY <1>1, <1>3, <1>4, <1>5, <1>6, <1>7, <1>8, <1>9, <1>10 DEF Next

----------------------------------------------------------------------------
(* The stampede lock.                                                       *)

LEMMA LoadersFinite ==
    /\ IsFiniteSet(Loaders) /\ Cardinality(Loaders) \in Nat
    /\ Cardinality(Loaders) <= Cardinality(Reader) /\ Cardinality(Reader) \in Nat
BY ReaderAssumption, FS_Subset, FS_CardinalityType DEF Loaders

\* Only Lock and Release change who loads.
LEMMA LoadersSame ==
    ASSUME Types, NEW r \in Reader,
           \/ Get(r) \/ LockRaises(r) \/ DoubleCheck(r) \/ Query(r) \/ Fill(r)
           \/ Poll(r) \/ QueryDirectly(r)
    PROVE  Loaders' = Loaders
<1> DEFINE loading == {"check", "query", "set", "release"}
<1>1. \A x \in Reader : x # r => read'[x] = read[x]
  BY ReaderMoves
<1>2. read[r] \in ReadType /\ read \in [Reader -> ReadType]
  BY DEF Types, CacheTypes
<1>3. read'[r].pc \in loading <=> read[r].pc \in loading
  <2>1. CASE Get(r)
    <3>1. CASE Hit
      BY <2>1, <3>1, Lists, Answered DEF Get
    <3>2. CASE ~Hit
      BY <1>2, <2>1, <3>2 DEF Get, At, ReadType
    <3> QED
      BY <3>1, <3>2
  <2>2. CASE LockRaises(r)
    <3>1. CASE kind = "sos"
      BY <2>2, <3>1, Lists, Answered DEF LockRaises
    <3>2. CASE kind # "sos"
      <4>1. [Unread EXCEPT !.pc = "error"].pc = "error"
        BY DEF Unread
      <4> QED
        BY <1>2, <2>2, <3>2, <4>1 DEF LockRaises
    <3> QED
      BY <3>1, <3>2
  <2>3. CASE DoubleCheck(r)
    <3>1. CASE Hit
      <4>1. read' = [read EXCEPT ![r] = [read[r] EXCEPT !.pc = "release", !.got = Cached]]
        BY <2>3, <3>1 DEF DoubleCheck
      <4>2. [read[r] EXCEPT !.pc = "release", !.got = Cached].pc = "release"
        BY <1>2 DEF ReadType
      <4> QED
        BY <1>2, <2>3, <4>1, <4>2 DEF DoubleCheck
    <3>2. CASE ~Hit
      BY <1>2, <2>3, <3>2 DEF DoubleCheck, At, ReadType
    <3> QED
      BY <3>1, <3>2
  <2>4. CASE Query(r)
    <3>1. PICK i : read' = [read EXCEPT ![r] = [read[r] EXCEPT !.pc = "set", !.got = Rows, !.inst = i]]
      BY <2>4 DEF Query
    <3>2. [read[r] EXCEPT !.pc = "set", !.got = Rows, !.inst = i].pc = "set"
      BY <1>2 DEF ReadType
    <3> QED
      BY <1>2, <2>4, <3>1, <3>2 DEF Query
  <2>5. CASE Fill(r)
    BY <1>2, <2>5 DEF Fill, At, ReadType
  <2>6. CASE Poll(r)
    <3>1. CASE Hit /\ Answer(r, Cached)
      BY <2>6, <3>1, Lists, Answered DEF Poll
    <3>2. CASE At(r, "direct")
      BY <1>2, <2>6, <3>2 DEF Poll, At, ReadType
    <3> QED
      BY <2>6, <3>1, <3>2 DEF Poll
  <2>7. CASE QueryDirectly(r)
    <3>1. PICK i : read' = [read EXCEPT ![r] = [Unread EXCEPT !.pc = "done", !.inst = i,
                                                              !.got.outage = ~pgUp]]
      BY <2>7 DEF QueryDirectly
    <3>2. [Unread EXCEPT !.pc = "done", !.inst = i, !.got.outage = ~pgUp].pc = "done"
      BY DEF Unread
    <3> QED
      BY <1>2, <2>7, <3>1, <3>2 DEF QueryDirectly
  <2> QED
    BY <2>1, <2>2, <2>3, <2>4, <2>5, <2>6, <2>7
<1> QED
  BY <1>1, <1>3 DEF Loaders

LEMMA LoadersStep ==
    ASSUME Types, LoadersCounted, [Next]_vars
    PROVE  LoadersCounted'
<1>0. overruns \in Nat
  BY LoadersFinite DEF Types, CacheTypes
<1>1. ASSUME NEW r \in Reader,
             \/ Get(r) \/ LockRaises(r) \/ DoubleCheck(r) \/ Query(r) \/ Fill(r)
             \/ Poll(r) \/ QueryDirectly(r)
      PROVE  LoadersCounted'
  <2>1. Loaders' = Loaders
    BY <1>1, LoadersSame
  <2>2. UNCHANGED <<lock, overruns>>
    BY <1>1 DEF Get, LockRaises, DoubleCheck, Query, Fill, Poll, QueryDirectly
  <2> QED
    BY <2>1, <2>2 DEF LoadersCounted
<1>2. ASSUME NEW r \in Reader, Lock(r) PROVE LoadersCounted'
  <2>1. /\ \A x \in Reader : x # r => read'[x] = read[x]
        /\ overruns' = overruns /\ read[r].pc = "lock" /\ r \notin Loaders
    BY <1>2, ReaderMoves DEF Lock, Loaders
  <2>2. CASE lock = 0
    <3>1. lock' # 0
      BY <1>2, <2>2, TimesAssumption DEF Lock
    <3>2. Loaders' \in SUBSET (Loaders \cup {r})
      BY <2>1 DEF Loaders
    <3>3. Cardinality(Loaders \cup {r}) = Cardinality(Loaders) + 1 /\ IsFiniteSet(Loaders \cup {r})
      BY <2>1, LoadersFinite, FS_AddElement
    <3>4. Cardinality(Loaders') <= Cardinality(Loaders \cup {r}) /\ Cardinality(Loaders') \in Nat
      BY <3>2, <3>3, FS_Subset, FS_CardinalityType
    <3>5. Cardinality(Loaders) <= overruns /\ Cardinality(Loaders) \in Nat
      BY <2>2, LoadersFinite DEF LoadersCounted
    <3>6. Cardinality(Loaders') <= 1 + overruns
      BY <1>0, <3>3, <3>4, <3>5
    <3> QED
      BY <2>1, <3>1, <3>6 DEF LoadersCounted
  <2>3. CASE lock # 0
    <3>1. read' = [read EXCEPT ![r] = [read[r] EXCEPT !.pc = "spin", !.left = LockWait]]
          /\ lock' = lock
      BY <1>2, <2>3 DEF Lock
    <3>2. read[r] \in ReadType /\ read \in [Reader -> ReadType]
      BY DEF Types, CacheTypes
    <3>3. [read[r] EXCEPT !.pc = "spin", !.left = LockWait].pc = "spin"
      BY <3>2 DEF ReadType
    <3>4. read'[r].pc = "spin"
      BY <3>1, <3>2, <3>3
    <3>5. Loaders' = Loaders
      BY <2>1, <3>4 DEF Loaders
    <3> QED
      BY <2>1, <3>1, <3>5 DEF LoadersCounted
  <2> QED
    BY <2>2, <2>3
<1>3. ASSUME NEW r \in Reader, Release(r) PROVE LoadersCounted'
  <2>1. read[r].got \in List
    BY DEF Types, CacheTypes, ReadType
  <2>2. /\ \A x \in Reader : x # r => read'[x] = read[x]
        /\ read'[r].pc = "done" /\ overruns' = overruns /\ r \in Loaders
    BY <1>3, <2>1, Answered DEF Release, Loaders
  <2>3. Loaders' = Loaders \ {r}
    BY <2>2 DEF Loaders
  <2>4. Cardinality(Loaders') = Cardinality(Loaders) - 1
    BY <2>2, <2>3, LoadersFinite, FS_RemoveElement
  <2>5. Cardinality(Loaders) <= 1 + overruns /\ Cardinality(Loaders) \in Nat
    BY LoadersFinite DEF LoadersCounted
  <2>6. Cardinality(Loaders') <= overruns /\ Cardinality(Loaders') <= 1 + overruns
    BY <1>0, <2>4, <2>5
  <2> QED
    BY <2>2, <2>6 DEF LoadersCounted
<1>4. CASE Tick
  <2>1. Loaders' = Loaders
    BY <1>4, TickMoves DEF Loaders
  <2>2. lock' = IF lock = 0 THEN 0 ELSE lock - 1
    BY <1>4 DEF Tick, Less
  <2>3. /\ lock \in Nat /\ overruns \in 0..Cardinality(Reader)
        /\ Cardinality(Loaders) \in Nat /\ Cardinality(Loaders) <= Cardinality(Reader)
    BY LoadersFinite, TimesAssumption DEF Types, CacheTypes
  <2>4. overruns' = IF lock = 1 /\ Loaders # {} /\ overruns < Cardinality(Reader)
                    THEN overruns + 1 ELSE overruns
    BY <1>4 DEF Tick
  <2>5. Loaders = {} => Cardinality(Loaders) = 0
    BY FS_EmptySet
  <2>6. /\ Cardinality(Loaders) <= 1 + overruns
        /\ lock = 0 => Cardinality(Loaders) <= overruns
    BY DEF LoadersCounted
  <2>7. CASE lock = 1
    <3>1. Cardinality(Loaders) <= overruns'
      BY <1>0, <2>3, <2>4, <2>5, <2>6, <2>7, LoadersFinite
    <3>2. overruns' \in Nat
      BY <1>0, <2>4
    <3>3. Cardinality(Loaders) <= 1 + overruns'
      BY <2>3, <3>1, <3>2
    <3> QED
      BY <2>1, <3>1, <3>3 DEF LoadersCounted
  <2>8. CASE lock # 1
    <3>1. overruns' = overruns /\ (lock' = 0 => lock = 0)
      BY <2>2, <2>3, <2>4, <2>8
    <3> QED
      BY <2>1, <2>6, <3>1 DEF LoadersCounted
  <2> QED
    BY <2>7, <2>8
<1>5. ASSUME UNCHANGED <<read, lock, overruns>> PROVE LoadersCounted'
  BY <1>5 DEF LoadersCounted, Loaders
<1>6. ASSUME NEW c \in Change,
             \/ \E i \in Instance : Commit(c, i) \/ Deliver(i, c) \/ LoseMessage(i, c)
             \/ Apply(c) \/ TouchCache(c) \/ Publish(c)
      PROVE  UNCHANGED <<read, lock, overruns>>
  BY <1>6 DEF Commit, Deliver, LoseMessage, Apply, TouchCache, Publish
<1>7. CASE PgFails \/ PgRecovers \/ RedisFails \/ RedisRecovers \/ UNCHANGED vars
  BY <1>5, <1>7 DEF PgFails, PgRecovers, RedisFails, RedisRecovers, vars
<1> QED
  BY <1>1, <1>2, <1>3, <1>4, <1>5, <1>6, <1>7 DEF Next

----------------------------------------------------------------------------
(* Freshness and staleness.                                                 *)

\* What a variable's type says where the steps below need it.
LEMMA Numbers ==
    ASSUME Types
    PROVE  /\ \A c \in Change : since[c] \in Nat /\ write[c].age \in 0..MaxLag
           /\ \A r \in Reader : read[r].age \in 0..MaxLag
           /\ cache # Nothing => cache \in EntryType /\ cache.ttl \in 1..WarmTTL
           /\ MaxLag \in Nat /\ TTL \in Nat
           /\ pg \subseteq Change
<1>1. \A c \in Change : since[c] \in Nat /\ write[c].age \in 0..MaxLag
  BY BoundType DEF Types, DataTypes, WriteType
<1>2. \A r \in Reader : read[r].age \in 0..MaxLag
  BY DEF Types, CacheTypes, ReadType
<1>3. cache # Nothing => cache \in EntryType /\ cache.ttl \in 1..WarmTTL
  BY DEF Types, CacheTypes, EntryType
<1> QED
  BY <1>1, <1>2, <1>3, TimesAssumption DEF Types, DataTypes

\* Steps of readers that leave the entry alone, and faults.
LEMMA ReadersKeep ==
    ASSUME Types, FreshInv, StaleInv, UNCHANGED <<kind, cache, data>>,
           \A r \in Reader : read'[r].pc = "set" =>
               \/ read'[r] = read[r]
               \/ read'[r].got.outage \/ pg \subseteq read'[r].got.val
    PROVE  FreshInv' /\ StaleInv'
<1> USE DEF data
<1>1. Bound' = Bound
  BY BoundType
<1>2. FreshInv'
  BY DEF FreshInv, Touched
<1>3. Spread'
  BY DEF StaleInv, Spread, Spreading
<1>4. ReadersBehind'
  BY DEF StaleInv, ReadersBehind
<1>5. SnapsBehind'
  BY DEF StaleInv, SnapsBehind
<1>6. EntryBehind'
  BY <1>1 DEF StaleInv, EntryBehind
<1> QED
  BY <1>2, <1>3, <1>4, <1>5, <1>6 DEF StaleInv

\* A reader writes what it fetched: at most MaxLag ticks old, for TTL ticks.
LEMMA FillKeeps ==
    ASSUME Types, FreshInv, StaleInv, NEW r \in Reader, Fill(r)
    PROVE  FreshInv' /\ StaleInv'
<1>1. /\ read[r].pc = "set" /\ UNCHANGED <<kind, data>>
      /\ cache' = cache \/ cache' = Entry(read[r].got, TTL)
  BY DEF Fill
<1>2. \A x \in Reader : read'[x].pc = "set" => read'[x] = read[x]
  BY ReaderMoves DEF Fill, Query
<1>3. Bound' = Bound
  BY <1>1, BoundType
<1> USE DEF data
<1>4. CASE cache' = cache
  BY <1>1, <1>2, <1>4, ReadersKeep
<1>5. CASE cache' = Entry(read[r].got, TTL)
  <2>1. cache'.val = read[r].got.val /\ cache'.outage = read[r].got.outage /\ cache'.ttl = TTL
    BY <1>5 DEF Entry
  <2>2. FreshInv'
    BY <1>1, <1>2, <2>1 DEF FreshInv, Touched
  <2>3. Spread'
    BY <1>1 DEF StaleInv, Spread, Spreading
  <2>4. ReadersBehind'
    BY <1>1, <1>2 DEF StaleInv, ReadersBehind
  <2>5. SnapsBehind'
    BY <1>1 DEF StaleInv, SnapsBehind
  <2>6. EntryBehind'
    <3>1. ASSUME NEW c \in pg, c \notin read[r].got.val, ~read[r].got.outage
          PROVE  since[c] + TTL <= Bound
      <4>1. since[c] <= read[r].age
        BY <1>1, <3>1 DEF StaleInv, ReadersBehind
      <4>2. since[c] \in Nat /\ read[r].age \in 0..MaxLag /\ MaxLag \in Nat /\ TTL \in Nat
        BY Numbers
      <4> QED
        BY <4>1, <4>2, BoundType
    <3>2. TTL <= TTL
      BY Numbers
    <3> QED
      BY <1>1, <1>3, <2>1, <3>1, <3>2 DEF EntryBehind
  <2> QED
    BY <2>2, <2>3, <2>4, <2>5, <2>6 DEF StaleInv
<1> QED
  BY <1>1, <1>4, <1>5

\* A new change is not behind yet.
LEMMA CommitKeeps ==
    ASSUME Types, FreshInv, StaleInv, NEW c \in Change, NEW i \in Instance, Commit(c, i)
    PROVE  FreshInv' /\ StaleInv'
<1>1. /\ write[c].pc = "idle" /\ pg' \in {pg, pg \cup {c}}
      /\ UNCHANGED <<kind, cache, read, mem, inbox, since, late, missed>>
  BY DEF Commit
<1>2. /\ write'[c].pc = "apply" /\ write'[c].inst = i /\ write'[c].age = 0
      /\ \A d \in Change : d # c => write'[d] = write[d]
  BY WriteMoves
<1>3. c \notin pg /\ since[c] = 0
  BY <1>1 DEF StaleInv, Spread
<1>4. Bound' = Bound
  BY <1>1, BoundType
<1>5. FreshInv'
  <2>1. \A d \in Change : Touched(d)' => Touched(d) /\ d # c
    BY <1>2 DEF Touched
  <2>2. \A d \in pg' : d \in Change /\ (d # c => d \in pg)
    BY <1>1, Numbers
  <2> QED
    BY <1>1, <2>1, <2>2 DEF FreshInv
<1>6. Spread'
  <2>1. \A d \in Change : d # c => (Spreading(d)' <=> Spreading(d))
    BY <1>1, <1>2 DEF Spreading
  <2>2. \A d \in pg' : d = c \/ d \in pg
    BY <1>1
  <2>3. pg' \subseteq Change
    BY <1>1, Numbers
  <2>4. \A d \in pg' : Spreading(d)' => since'[d] <= write'[d].age
    BY <1>1, <1>2, <1>3, <2>1, <2>2, <2>3 DEF StaleInv, Spread
  <2>5. \A d \in pg', j \in Instance : d \notin mem'[j] /\ d \notin missed' =>
          write'[d].pc \in {"apply", "cache", "publish"} \/ d \in inbox'[j]
    BY <1>1, <1>2, <2>2, <2>3 DEF StaleInv, Spread
  <2>6. \A d \in Change : write'[d].pc = "idle" => d \notin pg'
    BY <1>1, <1>2 DEF StaleInv, Spread
  <2>7. \A d \in Change : d \notin pg' => since'[d] = 0
    BY <1>1 DEF StaleInv, Spread
  <2>8. \A d \in Change : write'[d].pc \in {"apply", "cache", "publish"} => write'[d].inst \in Instance
    BY <1>2 DEF StaleInv, Spread
  <2>9. \A d \in Change : write'[d].pc \in {"cache", "publish"} => d \in mem'[write'[d].inst]
    BY <1>1, <1>2 DEF StaleInv, Spread
  <2> QED
    BY <2>4, <2>5, <2>6, <2>7, <2>8, <2>9 DEF Spread
<1>7. ReadersBehind'
  <2>1. \A r \in Reader : 0 <= read[r].age
    BY Numbers
  <2> QED
    BY <1>1, <1>3, <2>1 DEF StaleInv, ReadersBehind
<1>8. SnapsBehind'
  <2>1. \A d \in Change : 0 <= MaxLag + write[d].age
    BY Numbers
  <2>2. \A d \in Change : write'[d].pc = "cache" => write'[d] = write[d]
    BY <1>2
  <2> QED
    BY <1>1, <1>3, <2>1, <2>2 DEF StaleInv, SnapsBehind
<1>9. EntryBehind'
  <2>1. cache # Nothing => 0 + cache.ttl <= Bound
    <3>1. CASE kind = "lost"
      BY <3>1, Numbers, BoundType
    <3>2. CASE kind # "lost"
      BY <3>2, Numbers, BoundType DEF StaleInv, EntryBehind
    <3> QED
      BY <3>1, <3>2
  <2> QED
    BY <1>1, <1>3, <1>4, <2>1 DEF StaleInv, EntryBehind
<1> QED
  BY <1>5, <1>6, <1>7, <1>8, <1>9 DEF StaleInv

\* What another instance has not heard of is on its way.
LEMMA ApplyKeeps ==
    ASSUME Types, FreshInv, StaleInv, NEW c \in Change, Apply(c)
    PROVE  FreshInv' /\ StaleInv'
<1> DEFINE i == write[c].inst
<1>1. /\ write[c].pc = "apply" /\ i \in Instance /\ mem' = [mem EXCEPT ![i] = @ \cup {c}]
      /\ UNCHANGED <<kind, pg, cache, read, inbox, since, late, missed>>
  BY DEF Apply, StaleInv, Spread
<1>2. /\ write'[c].pc = "cache" /\ write'[c].snap = mem'[i]
      /\ write'[c].inst = i /\ write'[c].age = write[c].age
      /\ \A d \in Change : d # c => write'[d] = write[d]
  BY WriteMoves
<1> HIDE DEF i
<1>3. /\ c \in mem'[i] /\ mem[i] \subseteq mem'[i]
      /\ \A j \in Instance : mem[j] \subseteq mem'[j]
  BY <1>1 DEF Types, DataTypes
<1>4. Bound' = Bound
  BY <1>1, BoundType
<1>5. \A d \in Change : Spreading(d)' <=> Spreading(d)
  BY <1>1, <1>2 DEF Spreading
<1>6. FreshInv'
  <2>1. \A d \in Change : Touched(d)' => Touched(d)
    BY <1>1, <1>2 DEF Touched
  <2> QED
    BY <1>1, <2>1, Numbers DEF FreshInv
<1>7. Spread'
  <2>1. \A d \in pg : Spreading(d)' => since'[d] <= write'[d].age
    BY <1>1, <1>2, <1>5, Numbers DEF StaleInv, Spread
  <2>2. \A d \in pg, j \in Instance : d \notin mem'[j] /\ d \notin missed' =>
          write'[d].pc \in {"apply", "cache", "publish"} \/ d \in inbox'[j]
    <3> TAKE d \in pg, j \in Instance
    <3> HAVE d \notin mem'[j] /\ d \notin missed'
    <3>1. write[d].pc \in {"apply", "cache", "publish"} \/ d \in inbox[j]
      BY <1>1, <1>3 DEF StaleInv, Spread
    <3> QED
      BY <1>1, <1>2, <3>1, Numbers
  <2>3. \A d \in Change : write'[d].pc \in {"cache", "publish"} => d \in mem'[write'[d].inst]
    <3> TAKE d \in Change
    <3> HAVE write'[d].pc \in {"cache", "publish"}
    <3>1. CASE d = c
      BY <1>2, <1>3, <3>1
    <3>2. CASE d # c
      BY <1>2, <1>3, <3>2 DEF StaleInv, Spread
    <3> QED
      BY <3>1, <3>2
  <2>4. \A d \in Change : write'[d].pc \in {"apply", "cache", "publish"} => write'[d].inst \in Instance
    BY <1>1, <1>2 DEF StaleInv, Spread
  <2>5. \A d \in Change : write'[d].pc = "idle" => d \notin pg
    BY <1>2 DEF StaleInv, Spread
  <2> QED
    BY <1>1, <2>1, <2>2, <2>3, <2>4, <2>5 DEF StaleInv, Spread
<1>8. ReadersBehind'
  BY <1>1 DEF StaleInv, ReadersBehind
<1>9. SnapsBehind'
  <2> SUFFICES ASSUME kind = "lost", NEW d \in Change, write'[d].pc = "cache",
                      NEW e \in pg, e \notin write'[d].snap, e \notin missed
               PROVE  since[e] <= MaxLag + write'[d].age
    BY <1>1 DEF SnapsBehind
  <2>1. CASE d = c
    <3>1. e \notin mem[i] /\ e \in Change
      BY <1>2, <1>3, <2>1, Numbers
    <3>2. Spreading(e)
      BY <1>1, <3>1 DEF StaleInv, Spread, Spreading
    <3>3. since[e] <= write[e].age
      BY <3>2 DEF StaleInv, Spread
    <3>4. since[e] \in Nat /\ write[e].age \in 0..MaxLag /\ write[c].age \in 0..MaxLag /\ MaxLag \in Nat
      BY <3>1, Numbers
    <3> QED
      BY <1>2, <2>1, <3>3, <3>4
  <2>2. CASE d # c
    BY <1>2, <2>2 DEF StaleInv, SnapsBehind
  <2> QED
    BY <2>1, <2>2
<1>10. EntryBehind'
  BY <1>1, <1>4 DEF StaleInv, EntryBehind
<1> QED
  BY <1>6, <1>7, <1>8, <1>9, <1>10 DEF StaleInv

\* The entry is deleted, or becomes the memory of an instance.
LEMMA TouchKeeps ==
    ASSUME Types, FreshInv, StaleInv, NEW c \in Change, TouchCache(c)
    PROVE  FreshInv' /\ StaleInv'
<1> DEFINE snap == [val |-> write[c].snap, outage |-> FALSE]
<1>1. /\ write[c].pc = "cache"
      /\ UNCHANGED <<kind, pg, mem, read, inbox, since, missed>>
      /\ late \subseteq late'
      /\ redis # "up" \/ kind = "lost" \/ Outdated(c) # {} => c \in late'
  BY DEF TouchCache
<1>2. /\ write'[c].pc = "publish"
      /\ write'[c].inst = write[c].inst /\ write'[c].age = write[c].age
      /\ \A d \in Change : d # c => write'[d] = write[d]
  BY WriteMoves
<1>3. /\ redis # "up" => cache' = cache
      /\ redis = "up" /\ kind = "lost" => cache' = Entry(snap, WarmTTL)
      /\ redis = "up" /\ kind # "lost" => cache' = Nothing
  BY DEF TouchCache
<1>4. Bound' = Bound
  BY <1>1, BoundType
<1>5. \A d \in Change : Spreading(d)' <=> Spreading(d)
  BY <1>1, <1>2 DEF Spreading
<1>6. FreshInv'
  <2>1. \A d \in Change : Touched(d)' => Touched(d) \/ d = c
    BY <1>2 DEF Touched
  <2>2. kind = "lost" => \A d \in Change : Touched(d)' => d \in late'
    BY <1>1, <2>1 DEF FreshInv
  <2>3. ASSUME NEW d \in pg, Touched(d)', d \notin late'
        PROVE  /\ cache' # Nothing /\ ~cache'.outage => d \in cache'.val
               /\ \A r \in Reader :
                    read[r].pc = "set" /\ ~read[r].got.outage => d \in read[r].got.val
    <3>1. d \in Change /\ kind # "lost" /\ d \notin late
      BY <1>1, <2>2, <2>3, Numbers
    <3>2. CASE d = c
      <4>1. redis = "up" /\ Outdated(c) = {}
        BY <1>1, <2>3, <3>2
      <4> QED
        BY <1>3, <3>1, <3>2, <4>1 DEF Outdated
    <3>3. CASE d # c
      <4>1. Touched(d)
        BY <2>1, <2>3, <3>1, <3>3
      <4> QED
        BY <1>3, <3>1, <4>1 DEF FreshInv
    <3> QED
      BY <3>2, <3>3
  <2> QED
    BY <1>1, <2>2, <2>3 DEF FreshInv
<1>7. Spread'
  <2>1. \A d \in pg : Spreading(d)' => since'[d] <= write'[d].age
    BY <1>1, <1>2, <1>5, Numbers DEF StaleInv, Spread
  <2>2. \A d \in pg, j \in Instance : d \notin mem'[j] /\ d \notin missed' =>
          write'[d].pc \in {"apply", "cache", "publish"} \/ d \in inbox'[j]
    <3> TAKE d \in pg, j \in Instance
    <3> HAVE d \notin mem'[j] /\ d \notin missed'
    <3>1. write[d].pc \in {"apply", "cache", "publish"} \/ d \in inbox[j]
      BY <1>1 DEF StaleInv, Spread
    <3> QED
      BY <1>1, <1>2, <3>1, Numbers
  <2>3. \A d \in Change : write'[d].pc \in {"cache", "publish"} => d \in mem'[write'[d].inst]
    BY <1>1, <1>2 DEF StaleInv, Spread
  <2>4. \A d \in Change : write'[d].pc \in {"apply", "cache", "publish"} => write'[d].inst \in Instance
    BY <1>1, <1>2 DEF StaleInv, Spread
  <2>5. \A d \in Change : write'[d].pc = "idle" => d \notin pg
    BY <1>2 DEF StaleInv, Spread
  <2> QED
    BY <1>1, <2>1, <2>2, <2>3, <2>4, <2>5 DEF StaleInv, Spread
<1>8. ReadersBehind'
  BY <1>1 DEF StaleInv, ReadersBehind
<1>9. SnapsBehind'
  <2>1. \A d \in Change : write'[d].pc = "cache" => write'[d] = write[d]
    BY <1>2
  <2> QED
    BY <1>1, <2>1 DEF StaleInv, SnapsBehind
<1>10. EntryBehind'
  <2>1. CASE redis = "up" /\ kind = "lost"
    <3>1. cache'.val = write[c].snap /\ cache'.outage = FALSE /\ cache'.ttl = WarmTTL
      BY <1>3, <2>1 DEF Entry
    <3>2. ASSUME NEW e \in pg, e \notin write[c].snap, e \notin missed
          PROVE  since[e] + WarmTTL <= Bound
      <4>1. since[e] <= MaxLag + write[c].age
        BY <1>1, <2>1, <3>2 DEF StaleInv, SnapsBehind
      <4>2. since[e] \in Nat /\ write[c].age \in 0..MaxLag /\ MaxLag \in Nat
        BY Numbers
      <4> QED
        BY <2>1, <4>1, <4>2, BoundType
    <3> QED
      BY <1>1, <1>4, <2>1, <3>1, <3>2 DEF EntryBehind
  <2>2. CASE redis # "up"
    BY <1>1, <1>3, <1>4, <2>2 DEF StaleInv, EntryBehind
  <2>3. CASE redis = "up" /\ kind # "lost"
    BY <1>3, <2>3 DEF EntryBehind
  <2> QED
    BY <2>1, <2>2, <2>3
<1> QED
  BY <1>6, <1>7, <1>8, <1>9, <1>10 DEF StaleInv

\* The change leaves for the other instances, or is missed by them.
LEMMA PublishKeeps ==
    ASSUME Types, FreshInv, StaleInv, NEW c \in Change, Publish(c)
    PROVE  FreshInv' /\ StaleInv'
<1>1. /\ write[c].pc = "publish" /\ UNCHANGED <<kind, pg, mem, cache, read, since, late>>
      /\ missed \subseteq missed'
      /\ \A d \in Change, j \in Instance : d # c => (d \in inbox'[j] <=> d \in inbox[j])
      /\ \A j \in Instance : j # write[c].inst => c \in inbox'[j] \/ c \in missed'
  BY DEF Publish, Types, DataTypes
<1>2. /\ write'[c].pc = "sent" /\ write'[c].age = write[c].age
      /\ \A d \in Change : d # c => write'[d] = write[d]
  BY WriteMoves
<1>3. Bound' = Bound
  BY <1>1, BoundType
<1>4. \A d \in Change : Spreading(d)' => Spreading(d)
  BY <1>1, <1>2 DEF Spreading
<1>5. FreshInv'
  <2>1. \A d \in Change : Touched(d)' => Touched(d)
    BY <1>1, <1>2 DEF Touched
  <2> QED
    BY <1>1, <2>1, Numbers DEF FreshInv
<1>6. Spread'
  <2>1. \A d \in pg : Spreading(d)' => since'[d] <= write'[d].age
    BY <1>1, <1>2, <1>4, Numbers DEF StaleInv, Spread
  <2>2. \A d \in pg, j \in Instance : d \notin mem'[j] /\ d \notin missed' =>
          write'[d].pc \in {"apply", "cache", "publish"} \/ d \in inbox'[j]
    <3> TAKE d \in pg, j \in Instance
    <3> HAVE d \notin mem'[j] /\ d \notin missed'
    <3>1. CASE d = c
      BY <1>1, <3>1 DEF StaleInv, Spread
    <3>2. CASE d # c
      BY <1>1, <1>2, <3>2, Numbers DEF StaleInv, Spread
    <3> QED
      BY <3>1, <3>2
  <2>3. \A d \in Change : write'[d].pc \in {"cache", "publish"} => d \in mem'[write'[d].inst]
    BY <1>1, <1>2 DEF StaleInv, Spread
  <2>4. \A d \in Change : write'[d].pc \in {"apply", "cache", "publish"} => write'[d].inst \in Instance
    BY <1>2 DEF StaleInv, Spread
  <2>5. \A d \in Change : write'[d].pc = "idle" => d \notin pg
    BY <1>2 DEF StaleInv, Spread
  <2> QED
    BY <1>1, <2>1, <2>2, <2>3, <2>4, <2>5 DEF StaleInv, Spread
<1>7. ReadersBehind'
  BY <1>1 DEF StaleInv, ReadersBehind
<1>8. SnapsBehind'
  <2>1. \A d \in Change : write'[d].pc = "cache" => write'[d] = write[d]
    BY <1>2
  <2> QED
    BY <1>1, <2>1 DEF StaleInv, SnapsBehind
<1>9. EntryBehind'
  BY <1>1, <1>3 DEF StaleInv, EntryBehind
<1> QED
  BY <1>5, <1>6, <1>7, <1>8, <1>9 DEF StaleInv

\* It arrives, or is lost on the way.
LEMMA DeliverKeeps ==
    ASSUME Types, FreshInv, StaleInv, NEW c \in Change, NEW i \in Instance,
           Deliver(i, c) \/ LoseMessage(i, c)
    PROVE  FreshInv' /\ StaleInv'
<1>1. /\ UNCHANGED <<kind, pg, cache, read, write, since, late>>
      /\ missed \subseteq missed'
      /\ \A j \in Instance : mem[j] \subseteq mem'[j] /\ inbox'[j] \subseteq inbox[j]
      /\ \A d \in Change, j \in Instance :
           d \in inbox[j] => d \in inbox'[j] \/ d \in mem'[j] \/ d \in missed'
  BY DEF Deliver, LoseMessage, Types, DataTypes
<1>2. Bound' = Bound
  BY <1>1, BoundType
<1>3. FreshInv'
  BY <1>1 DEF FreshInv, Touched
<1>4. Spread'
  <2>1. \A d \in pg : Spreading(d)' => since'[d] <= write'[d].age
    BY <1>1 DEF StaleInv, Spread, Spreading
  <2>2. \A d \in pg, j \in Instance : d \notin mem'[j] /\ d \notin missed' =>
          write'[d].pc \in {"apply", "cache", "publish"} \/ d \in inbox'[j]
    BY <1>1, Numbers DEF StaleInv, Spread
  <2>3. \A d \in Change : write'[d].pc \in {"cache", "publish"} => d \in mem'[write'[d].inst]
    BY <1>1 DEF StaleInv, Spread
  <2> QED
    BY <1>1, <2>1, <2>2, <2>3 DEF StaleInv, Spread
<1>5. ReadersBehind'
  BY <1>1 DEF StaleInv, ReadersBehind
<1>6. SnapsBehind'
  BY <1>1 DEF StaleInv, SnapsBehind
<1>7. EntryBehind'
  BY <1>1, <1>2 DEF StaleInv, EntryBehind
<1> QED
  BY <1>3, <1>4, <1>5, <1>6, <1>7 DEF StaleInv

\* A tick ages who is behind and uses up the entry's time to live.
LEMMA TickKeeps ==
    ASSUME Types, FreshInv, StaleInv, Tick
    PROVE  FreshInv' /\ StaleInv'
<1>1. UNCHANGED <<kind, pg, mem, inbox, late, missed>>
  BY DEF Tick
<1>2. /\ \A r \in Reader :
           /\ read'[r].pc = read[r].pc /\ read'[r].got = read[r].got
           /\ read[r].pc = "set" => read'[r].age = read[r].age + 1
      /\ \A c \in Change :
           /\ write'[c].pc = write[c].pc /\ write'[c].inst = write[c].inst
           /\ write'[c].snap = write[c].snap
           /\ Spreading(c) => write'[c].age = write[c].age + 1
  BY TickMoves
<1>3. \A c \in Change :
           /\ since'[c] \in Nat
           /\ c \in pg => since'[c] <= since[c] + 1
           /\ c \notin pg => since'[c] = since[c]
  BY TickMoves, BoundType
<1>4. \/ cache' = Nothing
      \/ /\ cache # Nothing /\ cache.ttl > 1 /\ cache.ttl \in Nat
         /\ cache'.val = cache.val /\ cache'.outage = cache.outage
         /\ cache'.ttl = cache.ttl - 1
  BY TickMoves, Numbers
<1>5. Bound' = Bound /\ Bound \in Nat
  BY <1>1, BoundType
<1>6. \A c \in Change : Spreading(c)' <=> Spreading(c)
  BY <1>1, <1>2 DEF Spreading
<1>7. FreshInv'
  BY <1>1, <1>2, <1>4, Numbers DEF FreshInv, Touched
<1>8. Spread'
  <2>1. \A c \in pg : Spreading(c)' => since'[c] <= write'[c].age
    <3> TAKE c \in pg
    <3> HAVE Spreading(c)'
    <3>1. since[c] <= write[c].age /\ write'[c].age = write[c].age + 1 /\ since'[c] <= since[c] + 1
      BY <1>2, <1>3, <1>6, Numbers DEF StaleInv, Spread
    <3> QED
      BY <1>3, <3>1, Numbers
  <2>2. \A c \in pg, i \in Instance : c \notin mem'[i] /\ c \notin missed' =>
          write'[c].pc \in {"apply", "cache", "publish"} \/ c \in inbox'[i]
    BY <1>1, <1>2, Numbers DEF StaleInv, Spread
  <2>3. \A c \in Change : write'[c].pc \in {"cache", "publish"} => c \in mem'[write'[c].inst]
    BY <1>1, <1>2 DEF StaleInv, Spread
  <2> QED
    BY <1>1, <1>2, <1>3, <2>1, <2>2, <2>3 DEF StaleInv, Spread
<1>9. ReadersBehind'
  <2> SUFFICES ASSUME NEW r \in Reader, read[r].pc = "set", ~read[r].got.outage,
                      NEW c \in pg, c \notin read[r].got.val
               PROVE  since'[c] <= read'[r].age
    BY <1>1, <1>2 DEF ReadersBehind
  <2>1. since[c] <= read[r].age
    BY DEF StaleInv, ReadersBehind
  <2>2. since'[c] <= since[c] + 1 /\ read'[r].age = read[r].age + 1 /\ since'[c] \in Nat
    BY <1>2, <1>3, Numbers
  <2>3. since[c] \in Nat /\ read[r].age \in 0..MaxLag /\ MaxLag \in Nat
    BY Numbers
  <2> QED
    BY <2>1, <2>2, <2>3
<1>10. SnapsBehind'
  <2> SUFFICES ASSUME kind = "lost", NEW d \in Change, write[d].pc = "cache",
                      NEW c \in pg, c \notin write[d].snap, c \notin missed
               PROVE  since'[c] <= MaxLag + write'[d].age
    BY <1>1, <1>2 DEF SnapsBehind
  <2>1. since[c] <= MaxLag + write[d].age
    BY DEF StaleInv, SnapsBehind
  <2>2. since'[c] <= since[c] + 1 /\ write'[d].age = write[d].age + 1 /\ since'[c] \in Nat
    BY <1>2, <1>3, Numbers DEF Spreading
  <2>3. since[c] \in Nat /\ write[d].age \in 0..MaxLag /\ MaxLag \in Nat
    BY Numbers
  <2> QED
    BY <2>1, <2>2, <2>3
<1>11. EntryBehind'
  <2>1. CASE cache' = Nothing
    BY <2>1 DEF EntryBehind
  <2>2. CASE cache' # Nothing
    <3>1. /\ cache # Nothing /\ cache.ttl > 1 /\ cache.ttl \in Nat
          /\ cache'.val = cache.val /\ cache'.outage = cache.outage
          /\ cache'.ttl = cache.ttl - 1
      BY <1>4, <2>2
    <3>2. kind # "lost" => cache'.ttl <= TTL
      BY <3>1, Numbers DEF StaleInv, EntryBehind
    <3>3. ASSUME ~cache.outage, NEW c \in pg, c \notin cache.val, ~(kind = "lost" /\ c \in missed)
          PROVE  since'[c] + cache'.ttl <= Bound
      <4>1. since[c] + cache.ttl <= Bound
        BY <3>1, <3>3 DEF StaleInv, EntryBehind
      <4>2. since'[c] <= since[c] + 1 /\ since'[c] \in Nat /\ since[c] \in Nat
        BY <1>3, Numbers
      <4> QED
        BY <1>5, <3>1, <4>1, <4>2
    <3> QED
      BY <1>1, <1>5, <3>1, <3>2, <3>3 DEF EntryBehind
  <2> QED
    BY <2>1, <2>2
<1> QED
  BY <1>7, <1>8, <1>9, <1>10, <1>11 DEF StaleInv

LEMMA StaleStep ==
    ASSUME Types, FreshInv, StaleInv, [Next]_vars
    PROVE  FreshInv' /\ StaleInv'
<1>1. ASSUME NEW r \in Reader,
             \/ Get(r) \/ Lock(r) \/ LockRaises(r) \/ DoubleCheck(r) \/ Query(r)
             \/ Release(r) \/ Poll(r) \/ QueryDirectly(r)
      PROVE  FreshInv' /\ StaleInv'
  <2>1. UNCHANGED <<kind, cache, data>>
    BY <1>1 DEF Get, Lock, LockRaises, DoubleCheck, Query, Release, Poll, QueryDirectly
  <2>2. /\ \A x \in Reader : x # r => read'[x] = read[x]
        /\ read'[r].pc = "set" => read'[r].got = Rows
    BY <1>1, ReaderMoves
  <2>3. Rows.outage \/ pg \subseteq Rows.val
    BY DEF Rows
  <2> QED
    BY <2>1, <2>2, <2>3, ReadersKeep
<1>2. ASSUME UNCHANGED <<kind, cache, read, data>> PROVE FreshInv' /\ StaleInv'
  BY <1>2, ReadersKeep
<1>3. CASE PgFails \/ PgRecovers \/ RedisFails \/ RedisRecovers \/ UNCHANGED vars
  BY <1>2, <1>3 DEF PgFails, PgRecovers, RedisFails, RedisRecovers, vars, data
<1> QED
  BY <1>1, <1>3, FillKeeps, CommitKeeps, ApplyKeeps, TouchKeeps, PublishKeeps, DeliverKeeps,
     TickKeeps DEF Next

LEMMA Initially == Init => LoadersCounted /\ FreshInv /\ StaleInv
<1> SUFFICES ASSUME Init PROVE LoadersCounted /\ FreshInv /\ StaleInv
  OBVIOUS
<1>1. /\ \A r \in Reader : read[r].pc = "idle"
      /\ \A c \in Change : write[c].pc = "idle" /\ since[c] = 0
      /\ pg = {} /\ cache = Nothing /\ overruns = 0
  BY Blank DEF Init
<1>2. LoadersCounted
  <2>1. Loaders = {}
    BY <1>1 DEF Loaders
  <2> QED
    BY <1>1, <2>1, FS_EmptySet DEF LoadersCounted
<1>3. FreshInv
  BY <1>1 DEF FreshInv, Touched
<1>4. StaleInv
  BY <1>1 DEF StaleInv, Spread, ReadersBehind, SnapsBehind, EntryBehind
<1> QED
  BY <1>2, <1>3, <1>4

CacheInv == Types /\ LoadersCounted /\ FreshInv /\ StaleInv

LEMMA CacheInvHolds == Spec => []CacheInv
<1>1. Init => CacheInv
  BY TypesInit, Initially DEF CacheInv
<1>2. CacheInv /\ [Next]_vars => CacheInv'
  <2> SUFFICES ASSUME CacheInv, [Next]_vars PROVE CacheInv'
    OBVIOUS
  <2>1. OnInstances
    BY DEF CacheInv, StaleInv, Spread, OnInstances
  <2> QED
    BY <2>1, TypesStep, LoadersStep, StaleStep DEF CacheInv
<1> QED
  BY <1>1, <1>2, PTL DEF Spec

LEMMA TypesTogether == Types => TypeOK
<1> SUFFICES ASSUME Types PROVE TypeOK
  OBVIOUS
<1>1. (IF TTL > WarmTTL THEN TTL ELSE WarmTTL) = WarmTTL
  BY TimesAssumption
<1> QED
  BY <1>1 DEF Types, DataTypes, CacheTypes, TypeOK, ReadType, WriteType, EntryType

----------------------------------------------------------------------------

\* The variables keep their types, whatever order the calls of Redis and
\* Postgres come in.
THEOREM TypeCorrect == Spec => []TypeOK
BY CacheInvHolds, TypesTogether, PTL DEF CacheInv

\* However many requests meet an empty entry, and although a request deletes
\* whoever's lock it finds, the stampede lock of cached_read_pg() lets one at a
\* time through to the query, and one more for every lock that expired.
THEOREM LoadersAlwaysBounded == Spec => []LoadersBounded
<1>1. CacheInv => LoadersBounded
  BY TypesTogether DEF CacheInv, LoadersCounted, LoadersBounded
<1> QED
  BY <1>1, CacheInvHolds, PTL

\* A change whose _broadcast_event deleted the entry while no reader held an
\* older list is in the entry from then on, however often it is filled.
THEOREM AlwaysFreshOnceInvalidated == Spec => []FreshOnceInvalidated
<1>1. CacheInv => FreshOnceInvalidated
  BY DEF CacheInv, FreshInv, Touched, FreshOnceInvalidated
<1> QED
  BY <1>1, CacheInvHolds, PTL

\* No cached list lacks a change for longer than the longest lag and the ttl
\* (lost persons: twice the lag and the longer ttl), whatever deletions fail.
THEOREM StalenessBounded == Spec => []BoundedStaleness
<1>1. CacheInv => BoundedStaleness
  <2> SUFFICES ASSUME CacheInv, cache # Nothing, ~cache.outage, NEW c \in pg,
                      since[c] > Bound, ~(kind = "lost" /\ c \in missed), c \notin cache.val
               PROVE  FALSE
    BY DEF BoundedStaleness
  <2>1. since[c] + cache.ttl <= Bound
    BY DEF CacheInv, StaleInv, EntryBehind
  <2>2. since[c] \in Nat /\ cache.ttl \in 1..WarmTTL
    BY Numbers DEF CacheInv
  <2> QED
    BY <2>1, <2>2, BoundType
<1> QED
  BY <1>1, CacheInvHolds, PTL

=============================================================================
