---------------------- MODULE VolunteerRegistryProofs ----------------------
(* The volunteer accounts for any number of instances, volunteers,          *)
(* usernames and changes: the indexes follow the list whatever overlaps,    *)
(* and without a fault the instances and the table agree in the end.  The   *)
(* argument follows one volunteer from creation to deletion; two that share *)
(* a username are out of each other's way unless it is disputed.            *)
EXTENDS VolunteerRegistry, FiniteSetTheorems, SequenceTheorems, TLAPS

Position == Change \cup {Initial}
MessageType ==
    [type : {"VOLUNTEER_CREATED", "VOLUNTEER_UPDATED", "VOLUNTEER_DELETED"},
     id : Volunteer, position : Position]
Task(pcs) == [pc : {"new", "announcing", "done"} \cup pcs, at : Instance \cup {None},
              of : Volunteer \cup {None}, seen : Position]

MemoryTypes ==
    /\ list \in [Instance -> Seq(Volunteer)]
    /\ byName \in [Instance -> [Username -> Volunteer \cup {None}]]
    /\ byId \in [Instance -> SUBSET Volunteer]
    /\ position \in [Instance -> [Volunteer -> Position]]

OtherTypes ==
    /\ row \in [Username -> Volunteer \cup {None}]
    /\ rowPosition \in [Volunteer -> Position]
    /\ creating \in [Volunteer -> Task({"writing", "written"})]
    /\ changing \in [Change -> Task({"persisting"})]
    /\ deleting \in [Volunteer -> Task({"erasing"})]
    /\ channel \in [Instance -> Seq(MessageType)]
    /\ disputed \in SUBSET Username /\ raced \in SUBSET Volunteer
    /\ faults \in 0..MaxFaults

\* A task in progress is one of an instance; a change is one of a volunteer.
Placed ==
    /\ \A v \in Volunteer :
        /\ creating[v].pc \notin {"new", "done"} => creating[v].at \in Instance
        /\ deleting[v].pc \notin {"new", "done"} => deleting[v].at \in Instance
        /\ creating[v].pc = "new" => creating[v].at = None
        /\ deleting[v].pc = "new" => deleting[v].at = None
    /\ \A c \in Change :
        IF changing[c].pc \in {"new", "done"} THEN changing[c].of = None /\ changing[c].at = None
        ELSE changing[c].at \in Instance /\ changing[c].of \in Volunteer

Types == MemoryTypes /\ OtherTypes /\ Placed

\* The lists and indexes of an instance.
Indexed ==
    \A i \in Instance :
        /\ IsInjective(list[i])
        /\ byId[i] = Listed(i)
        /\ \A u \in Username : byName[i][u] # None =>
             byName[i][u] \in Listed(i) /\ NameOf[byName[i][u]] = u

Sent(i, type, v) ==
    \E k \in DOMAIN channel[i] : channel[i][k].type = type /\ channel[i][k].id = v

Mentioned(i, v) == \E k \in DOMAIN channel[i] : channel[i][k].id = v

Born(v) == v \in Sample \/ creating[v].pc \in {"announcing", "done"}

\* Before a volunteer is enlisted no one has heard of it.
Unheard(v) ==
    /\ \A i \in Instance : v \notin byId[i] /\ ~Mentioned(i, v) /\ position[i][v] = Initial
    /\ \A c \in Change : changing[c].of # v
    /\ ~Gone(v)
    /\ rowPosition[v] = Initial
    /\ creating[v].pc # "written" => row[NameOf[v]] # v

Births ==
    /\ \A v \in Volunteer : ~Born(v) => Unheard(v)
    /\ \A v \in Sample : creating[v].pc = "new" /\ row[NameOf[v]] # v
    /\ \A u \in Username : row[u] # None => NameOf[row[u]] = u

BasicInv == Types /\ Indexed /\ Births

----------------------------------------------------------------------------

\* The volunteers about which something is promised.
Fair(v) == faults = 0 /\ NameOf[v] \notin disputed

\* The volunteer uses its name.
Alive(v) ==
    \/ creating[v].pc \notin {"new", "done"}
    \/ row[NameOf[v]] = v
    \/ \E i \in Instance : v \in byId[i] \/ Sent(i, "VOLUNTEER_CREATED", v)

\* One volunteer at a time uses an undisputed name, and can log in with it.
OneOwner ==
    \A v \in Volunteer : Fair(v) =>
        /\ \A w \in Volunteer : Alive(v) /\ Alive(w) /\ NameOf[v] = NameOf[w] => v = w
        /\ creating[v].pc = "written" => row[NameOf[v]] = v
        /\ \A i \in Instance : v \in byId[i] => byName[i][NameOf[v]] = v

\* What instances still have to hear of volunteer v: its creation once, its
\* creation and then its deletion, or position p at last.
CreatedOnce(i, v) ==
    \A m, n \in DOMAIN channel[i] :
        /\ channel[i][m].type = "VOLUNTEER_CREATED" /\ channel[i][m].id = v
        /\ channel[i][n].type = "VOLUNTEER_CREATED" /\ channel[i][n].id = v
        => m = n

DeletedLater(i, v) ==
    \A m \in DOMAIN channel[i] :
        channel[i][m].type = "VOLUNTEER_CREATED" /\ channel[i][m].id = v =>
          \E n \in DOMAIN channel[i] :
            n > m /\ channel[i][n].type = "VOLUNTEER_DELETED" /\ channel[i][n].id = v

ShownLater(i, v, p) ==
    \A m \in DOMAIN channel[i] : channel[i][m].id = v =>
        /\ channel[i][m].type = "VOLUNTEER_UPDATED" => channel[i][m].position = p
        /\ channel[i][m].type = "VOLUNTEER_CREATED" =>
             \/ channel[i][m].position = p
             \/ \E n \in DOMAIN channel[i] :
                  n > m /\ channel[i][n].type = "VOLUNTEER_UPDATED" /\ channel[i][n].id = v

\* An announcement is what a route does last.
Answers(v) ==
    \A i \in Instance :
        /\ Sent(i, "VOLUNTEER_CREATED", v) => creating[v].pc = "done"
        /\ Sent(i, "VOLUNTEER_DELETED", v) => deleting[v].pc = "done"

\* Only the instance that enlisted the volunteer has it ...
Unannounced(v) ==
    LET i == creating[v].at IN
    /\ v \in byId[i] /\ ~Mentioned(i, v)
    /\ \A j \in Instance : j # i => v \notin byId[j]
    /\ \A c \in Change : changing[c].of = v => changing[c].at = i

\* ... or every one has it or a message that brings it, once.
Announced(v) ==
    \A i \in Instance :
        /\ v \in byId[i] \/ Sent(i, "VOLUNTEER_CREATED", v)
        /\ Sent(i, "VOLUNTEER_CREATED", v) => v \notin byId[i]
        /\ CreatedOnce(i, v)

Living(v) ==
    /\ v \notin Sample => row[NameOf[v]] = v
    /\ IF creating[v].pc = "announcing" THEN Unannounced(v) ELSE Announced(v)

\* The deletion is under way at an instance, or it reaches every instance that
\* has the volunteer or will have it.
Dying(v) ==
    LET i == deleting[v].at IN
    IF deleting[v].pc # "done"
    THEN /\ v \notin byId[i] /\ ~Sent(i, "VOLUNTEER_CREATED", v)
         /\ deleting[v].pc = "announcing" => row[NameOf[v]] # v
    ELSE /\ row[NameOf[v]] # v
         /\ \A j \in Instance :
              /\ v \in byId[j] => Sent(j, "VOLUNTEER_DELETED", v)
              /\ DeletedLater(j, v)

Life(v) ==
    /\ ~Gone(v) => Living(v)
    /\ Gone(v) /\ creating[v].pc # "announcing" => Dying(v)

----------------------------------------------------------------------------

\* Change c of volunteer v is under way: it is the only one, its instance shows it.
OneChange(c, v) ==
    LET i == changing[c].at IN
    /\ \A d \in Change : changing[d].of = v => d = c
    /\ \A j \in Instance : ~Sent(j, "VOLUNTEER_UPDATED", v)
    /\ v \in byId[i] /\ position[i][v] = c
    /\ changing[c].pc = "announcing" =>
         /\ changing[c].seen = c
         /\ v \notin Sample => rowPosition[v] = c

\* Instance i shows position p of v, or will when its messages have arrived.
WillShow(i, v, p) ==
    /\ v \in byId[i] => position[i][v] = p \/ Sent(i, "VOLUNTEER_UPDATED", v)
    /\ ShownLater(i, v, p)

Shown(v) ==
    /\ \A c \in Change : changing[c].of = v => OneChange(c, v)
    /\ (\A c \in Change : changing[c].of # v) =>
         \E p \in Position :
           /\ v \notin Sample => rowPosition[v] = p
           /\ \A i \in Instance : WillShow(i, v, p)

Promised(v) ==
    /\ faults = 0 => Answers(v)
    /\ Fair(v) /\ Born(v) => Life(v)
    /\ Fair(v) /\ v \notin raced /\ Born(v) /\ ~Gone(v) => Shown(v)

AgreementInv == OneOwner /\ \A v \in Volunteer : Promised(v)

----------------------------------------------------------------------------
(* Lists and indexes.                                                       *)

LEMMA AppendedFacts ==
    ASSUME NEW S, NEW l \in Seq(S), NEW v \in S
    PROVE  /\ Append(l, v) \in Seq(S) /\ DOMAIN Append(l, v) = 1..(Len(l) + 1)
           /\ \A n \in DOMAIN l : n \in DOMAIN Append(l, v) /\ Append(l, v)[n] = l[n]
           /\ Len(l) + 1 \notin DOMAIN l /\ Append(l, v)[Len(l) + 1] = v
           /\ \A n \in DOMAIN Append(l, v) : n \in DOMAIN l \/ n = Len(l) + 1
           /\ \A n \in DOMAIN l : n < Len(l) + 1
           /\ ToSet(Append(l, v)) = ToSet(l) \cup {v}
           /\ IsInjective(l) /\ v \notin ToSet(l) => IsInjective(Append(l, v))
<1> DEFINE s == Append(l, v)
<1>1. /\ Len(l) \in Nat /\ DOMAIN l = 1..Len(l) /\ \A n \in DOMAIN l : l[n] \in S
      /\ s \in Seq(S) /\ Len(s) = Len(l) + 1 /\ DOMAIN s = 1..Len(s)
      /\ \A n \in DOMAIN l : s[n] = l[n]
      /\ s[Len(l) + 1] = v
  OBVIOUS
<1> HIDE DEF s
<1>2. /\ \A n \in DOMAIN l : n \in DOMAIN s /\ n < Len(l) + 1
      /\ Len(l) + 1 \notin DOMAIN l /\ Len(l) + 1 \in DOMAIN s
      /\ \A n \in DOMAIN s : n \in DOMAIN l \/ n = Len(l) + 1
  BY <1>1
<1>3. ToSet(s) = ToSet(l) \cup {v}
  BY <1>1, <1>2, Zenon DEF ToSet
<1>4. ASSUME IsInjective(l), v \notin ToSet(l) PROVE IsInjective(s)
  BY <1>1, <1>2, <1>4, Zenon DEF IsInjective, ToSet
<1> QED
  BY <1>1, <1>2, <1>3, <1>4 DEF s

LEMMA StretchFacts ==
    ASSUME NEW S, NEW s \in Seq(S), NEW a \in 1..(Len(s) + 1), NEW b \in (a - 1)..Len(s)
    PROVE  /\ SubSeq(s, a, b) \in Seq(S) /\ Len(SubSeq(s, a, b)) = b - a + 1
           /\ \A m \in 1..(b - a + 1) : SubSeq(s, a, b)[m] = s[a + m - 1]
<1>1. Len(s) \in Nat /\ a \in Nat /\ b \in Int /\ \A n \in 1..Len(s) : s[n] \in S
  OBVIOUS
<1>2. SubSeq(s, a, b) = [m \in 1..(b - a + 1) |-> s[a + m - 1]]
  BY <1>1
<1>3. SubSeq(s, a, b) \in [1..(b - a + 1) -> S]
  <2>1. \A m \in 1..(b - a + 1) : a + m - 1 \in 1..Len(s)
    BY <1>1
  <2> QED
    BY <1>1, <1>2, <2>1
<1> QED
  BY <1>1, <1>2, <1>3

LEMMA RemovedFacts ==
    ASSUME NEW S, NEW l \in Seq(S), IsInjective(l), NEW v \in S
    PROVE  /\ RemoveFirst(l, v) \in Seq(S) /\ IsInjective(RemoveFirst(l, v))
           /\ ToSet(RemoveFirst(l, v)) = ToSet(l) \ {v}
<1> DEFINE r == RemoveFirst(l, v)
<1>1. Len(l) \in Nat /\ DOMAIN l = 1..Len(l) /\ \A n \in 1..Len(l) : l[n] \in S
  OBVIOUS
<1>2. CASE \A n \in 1..Len(l) : l[n] # v
  <2>1. r = l
    BY <1>2 DEF RemoveFirst
  <2>2. v \notin ToSet(l)
    BY <1>1, <1>2 DEF ToSet
  <2> QED
    BY <2>1, <2>2
<1>3. CASE \E n \in 1..Len(l) : l[n] = v
  <2>1. PICK k \in 1..Len(l) : l[k] = v
    BY <1>3
  <2>2. \A n \in 1..Len(l) : l[n] = v <=> n = k
    BY <1>1, <2>1 DEF IsInjective
  <2>3. SelectInSeq(l, LAMBDA w : w = v) = k
    <3> DEFINE I == {n \in 1..Len(l) : l[n] = v}
    <3>1. I = {k}
      BY <2>2
    <3>2. Min(I) = k
      BY <3>1 DEF Min
    <3>3. SelectInSeq(l, LAMBDA w : w = v) = IF I # {} THEN Min(I) ELSE 0
      BY DEF SelectInSeq
    <3> QED
      BY <3>1, <3>2, <3>3
  <2> DEFINE a == SubSeq(l, 1, k - 1)
             b == SubSeq(l, k + 1, Len(l))
  <2>4. r = a \o b
    BY <1>3, <2>3 DEF RemoveFirst, RemoveAt
  <2>5. /\ a \in Seq(S) /\ Len(a) = k - 1 /\ \A n \in 1..(k - 1) : a[n] = l[n]
        /\ b \in Seq(S) /\ Len(b) = Len(l) - k /\ \A n \in 1..(Len(l) - k) : b[n] = l[k + n]
    <3>1. k \in Nat /\ k - 1 \in 0..Len(l) /\ k + 1 \in 1..(Len(l) + 1) /\ Len(l) \in (k + 1 - 1)..Len(l)
      BY <1>1
    <3>2. a \in Seq(S) /\ Len(a) = k - 1 - 1 + 1 /\ \A n \in 1..(k - 1 - 1 + 1) : a[n] = l[1 + n - 1]
      BY <1>1, <3>1, StretchFacts
    <3>3. /\ b \in Seq(S) /\ Len(b) = Len(l) - (k + 1) + 1
          /\ \A n \in 1..(Len(l) - (k + 1) + 1) : b[n] = l[k + 1 + n - 1]
      <4>1. PICK c \in 1..(Len(l) + 1) : c = k + 1
        BY <3>1
      <4>2. Len(l) \in (c - 1)..Len(l)
        BY <3>1, <4>1
      <4>3. /\ SubSeq(l, c, Len(l)) \in Seq(S) /\ Len(SubSeq(l, c, Len(l))) = Len(l) - c + 1
            /\ \A n \in 1..(Len(l) - c + 1) : SubSeq(l, c, Len(l))[n] = l[c + n - 1]
        BY <4>2, StretchFacts
      <4> QED
        BY <4>1, <4>3
    <3> HIDE DEF a, b
    <3>4. \A n \in 1..(k - 1) : a[n] = l[n]
      BY <1>1, <3>1, <3>2
    <3>5. \A n \in 1..(Len(l) - k) : b[n] = l[k + n]
      BY <1>1, <3>1, <3>3
    <3> QED
      BY <1>1, <3>1, <3>2, <3>3, <3>4, <3>5
  <2> HIDE DEF a, b
  <2>6. /\ r \in Seq(S) /\ Len(r) = Len(l) - 1
        /\ \A n \in 1..(Len(l) - 1) : r[n] = IF n < k THEN l[n] ELSE l[n + 1]
    <3>0. /\ a \o b \in Seq(S) /\ Len(a \o b) = Len(a) + Len(b)
          /\ \A n \in 1..(Len(a) + Len(b)) : (a \o b)[n] = IF n <= Len(a) THEN a[n] ELSE b[n - Len(a)]
      BY <2>5, ConcatProperties
    <3> HIDE DEF r
    <3>1. /\ r \in Seq(S) /\ Len(r) = Len(a) + Len(b)
          /\ \A n \in 1..(Len(a) + Len(b)) : r[n] = IF n <= Len(a) THEN a[n] ELSE b[n - Len(a)]
      BY <2>4, <3>0
    <3>2. Len(a) + Len(b) = Len(l) - 1 /\ Len(a) = k - 1 /\ Len(b) = Len(l) - k /\ k \in Nat
      BY <1>1, <2>5
    <3>3. ASSUME NEW n \in 1..(Len(l) - 1) PROVE r[n] = IF n < k THEN l[n] ELSE l[n + 1]
      <4>1. CASE n < k
        <5>1. n \in 1..(k - 1) /\ n <= Len(a) /\ n \in 1..(Len(a) + Len(b))
          BY <1>1, <3>2, <4>1
        <5>2. r[n] = a[n] /\ a[n] = l[n]
          BY <2>5, <3>1, <5>1
        <5> QED
          BY <4>1, <5>2
      <4>2. CASE ~(n < k)
        <5>1. n - (k - 1) \in 1..(Len(l) - k) /\ k + (n - (k - 1)) = n + 1
          BY <1>1, <4>2
        <5>2. r[n] = b[n - (k - 1)]
          <6>1. n \in 1..(Len(a) + Len(b)) /\ ~(n <= Len(a)) /\ n - Len(a) = n - (k - 1)
            BY <1>1, <3>2, <4>2
          <6> QED
            BY <3>1, <6>1
        <5>3. b[n - (k - 1)] = l[n + 1]
          BY <2>5, <5>1
        <5> QED
          BY <4>2, <5>2, <5>3
      <4> QED
        BY <4>1, <4>2
    <3> QED
      BY <3>1, <3>2, <3>3
  <2> HIDE DEF r
  <2>7. DOMAIN r = 1..(Len(l) - 1)
    BY <2>6
  <2>8. IsInjective(r)
    <3> DEFINE At(n) == IF n < k THEN n ELSE n + 1
    <3>1. \A n \in 1..(Len(l) - 1) : At(n) \in DOMAIN l /\ r[n] = l[At(n)]
      BY <1>1, <2>6
    <3>2. ASSUME NEW m \in 1..(Len(l) - 1), NEW n \in 1..(Len(l) - 1), r[m] = r[n] PROVE m = n
      <4>1. At(m) = At(n)
        BY <3>1, <3>2, Zenon DEF IsInjective
      <4> QED
        BY <1>1, <4>1
    <3> QED
      BY <2>7, <3>2 DEF IsInjective
  <2>9. \A n \in 1..(Len(l) - 1) : r[n] \in ToSet(l) \ {v}
    <3> SUFFICES ASSUME NEW n \in 1..(Len(l) - 1) PROVE r[n] \in ToSet(l) \ {v}
      OBVIOUS
    <3> DEFINE m == IF n < k THEN n ELSE n + 1
    <3>1. m \in 1..Len(l) /\ m # k /\ r[n] = l[m]
      BY <1>1, <2>6
    <3> HIDE DEF m
    <3>2. l[m] # v /\ l[m] \in ToSet(l)
      BY <1>1, <2>2, <3>1 DEF ToSet
    <3> QED
      BY <3>1, <3>2
  <2>10. \A n \in 1..Len(l) : n # k => \E m \in 1..(Len(l) - 1) : r[m] = l[n]
    <3> SUFFICES ASSUME NEW n \in 1..Len(l), n # k PROVE \E m \in 1..(Len(l) - 1) : r[m] = l[n]
      OBVIOUS
    <3> DEFINE m == IF n < k THEN n ELSE n - 1
    <3>1. m \in 1..(Len(l) - 1) /\ r[m] = l[n]
      BY <1>1, <2>6
    <3> QED
      BY <3>1
  <2>11. ToSet(r) = ToSet(l) \ {v}
    <3>1. \A w : w \in ToSet(r) <=> \E n \in 1..(Len(l) - 1) : w = r[n]
      BY <2>7 DEF ToSet
    <3>2. \A w : w \in ToSet(l) <=> \E n \in 1..Len(l) : w = l[n]
      BY <1>1 DEF ToSet
    <3>3. \A w : w \in ToSet(r) <=> w \in ToSet(l) /\ w # v
      <4>1. ASSUME NEW w \in ToSet(r) PROVE w \in ToSet(l) \ {v}
        BY <2>9, <3>1
      <4>2. ASSUME NEW w \in ToSet(l), w # v PROVE w \in ToSet(r)
        <5>1. PICK n \in 1..Len(l) : w = l[n]
          BY <3>2
        <5>2. PICK m \in 1..(Len(l) - 1) : r[m] = l[n]
          BY <2>2, <2>10, <4>2, <5>1
        <5> QED
          BY <3>1, <5>1, <5>2
      <4> QED
        BY <4>1, <4>2
    <3> QED
      BY <3>3
  <2> QED
    BY <2>6, <2>8, <2>11 DEF r
<1> QED
  BY <1>2, <1>3

LEMMA SampleFacts ==
    SampleList \in Seq(Volunteer) /\ IsInjective(SampleList) /\ ToSet(SampleList) = Sample
<1> DEFINE n == Cardinality(Sample)
           s == SampleList
<1>1. n \in Nat /\ ExistsBijection(1..n, Sample)
  BY ConstantsAssumption, FS_CardinalityType
<1>2. \E f \in [1..n -> Sample] : IsInjective(f)
  BY <1>1 DEF ExistsBijection, Bijection, Injection, IsInjective
<1>3. s \in [1..n -> Sample] /\ IsInjective(s)
  BY <1>2 DEF SampleList, SetToSeq
<1>4. IsFiniteSet(1..n) /\ Cardinality(1..n) = n
  BY <1>1, FS_Interval
<1>5. s \in Injection(1..n, Sample)
  BY <1>3 DEF Injection, IsInjective
<1>6. s \in Surjection(1..n, Sample)
  BY <1>4, <1>5, ConstantsAssumption, FS_Injection
<1>7. ToSet(s) = Sample
  BY <1>3, <1>6 DEF Surjection, ToSet
<1>8. s \in Seq(Sample)
  BY <1>1, <1>3
<1>9. s \in Seq(Volunteer)
  BY <1>8, ConstantsAssumption, SeqMonotonic
<1> QED
  BY <1>3, <1>7, <1>9

\* A finite set of numbers that is not empty has a greatest element.
LEMMA Greatest ==
    ASSUME NEW S \in SUBSET Nat, IsFiniteSet(S), S # {}
    PROVE  \E k \in S : \A j \in S : j <= k
<1> DEFINE N == Cardinality(S)
           Below(x) == {y \in S : y < x}
           rank == [x \in S |-> Cardinality(Below(x)) + 1]
<1>1. N \in Nat /\ N # 0
  BY FS_CardinalityType, FS_EmptySet
<1>2. ASSUME NEW x \in S
      PROVE  IsFiniteSet(Below(x)) /\ Cardinality(Below(x)) \in 0..(N - 1)
  <2>1. Below(x) \subseteq S \ {x}
    OBVIOUS
  <2>2. IsFiniteSet(S \ {x}) /\ Cardinality(S \ {x}) = N - 1
    BY FS_RemoveElement
  <2>3. IsFiniteSet(Below(x)) /\ Cardinality(Below(x)) <= N - 1
    BY <2>1, <2>2, FS_Subset
  <2> QED
    BY <1>1, <2>3, FS_CardinalityType
<1>3. ASSUME NEW x \in S, NEW y \in S, x < y PROVE rank[x] # rank[y]
  <2>1. Below(x) \subseteq Below(y) \ {x} /\ x \in Below(y)
    <3>1. \A z \in S : z < x => z < y /\ z # x
      BY <1>3
    <3> QED
      BY <1>3, <3>1
  <2>2. Cardinality(Below(x)) < Cardinality(Below(y))
    <3>1. IsFiniteSet(Below(y) \ {x}) /\ Cardinality(Below(y) \ {x}) = Cardinality(Below(y)) - 1
      BY <1>2, <2>1, FS_RemoveElement
    <3>2. Cardinality(Below(x)) <= Cardinality(Below(y) \ {x})
      BY <2>1, <3>1, FS_Subset
    <3> QED
      BY <1>1, <1>2, <3>1, <3>2
  <2> QED
    BY <1>2, <2>2
<1>4. rank \in [S -> 1..N]
  BY <1>1, <1>2
<1> HIDE DEF rank, N
<1>5. \A x, y \in S : rank[x] = rank[y] => x = y
  BY <1>3
<1>6. rank \in Injection(S, 1..N)
  BY <1>4, <1>5 DEF Injection, IsInjective
<1>7. IsFiniteSet(1..N) /\ Cardinality(1..N) = Cardinality(S)
  BY <1>1, FS_Interval DEF N
<1>8. rank \in Surjection(S, 1..N)
  BY <1>6, <1>7, FS_Injection
<1>9. PICK k \in S : rank[k] = N
  BY <1>1, <1>8 DEF Surjection
<1>10. Cardinality(Below(k)) = N - 1
  BY <1>2, <1>9 DEF rank
<1>11. IsFiniteSet(S \ {k}) /\ Cardinality(S \ {k}) = N - 1
  BY FS_RemoveElement DEF N
<1>12. Below(k) \in SUBSET (S \ {k})
  OBVIOUS
<1>13. Below(k) = S \ {k}
  BY <1>10, <1>11, <1>12, FS_Subset
<1>14. \A j \in S : j <= k
  BY <1>13
<1> QED
  BY <1>14

LEMMA RebuiltFacts ==
    ASSUME NEW l \in Seq(Volunteer)
    PROVE  /\ Rebuilt(l) \in [Username -> Volunteer \cup {None}]
           /\ \A u \in Username : Rebuilt(l)[u] # None =>
                Rebuilt(l)[u] \in ToSet(l) /\ NameOf[Rebuilt(l)[u]] = u
           /\ \A v \in ToSet(l) :
                (\A w \in ToSet(l) : NameOf[w] = NameOf[v] => w = v) => Rebuilt(l)[NameOf[v]] = v
<1>1. Len(l) \in Nat /\ DOMAIN l = 1..Len(l) /\ \A n \in DOMAIN l : l[n] \in Volunteer
  OBVIOUS
<1> DEFINE Named(u) == {k \in DOMAIN l : NameOf[l[k]] = u}
           Newest(u) == CHOOSE k \in Named(u) : \A j \in Named(u) : j <= k
<1>2. ASSUME NEW u \in Username, Named(u) # {}
      PROVE  Newest(u) \in Named(u)
  <2>1. Named(u) \in SUBSET Nat /\ Named(u) \in SUBSET (1..Len(l))
    BY <1>1
  <2>2. IsFiniteSet(Named(u))
    <3>1. IsFiniteSet(1..Len(l))
      BY <1>1, FS_Interval
    <3> QED
      BY <2>1, <3>1, FS_Subset
  <2>3. \E k \in Named(u) : \A j \in Named(u) : j <= k
    BY <1>2, <2>1, <2>2, Greatest
  <2> HIDE DEF Named
  <2> QED
    BY <2>3
<1>3. \A u \in Username : Rebuilt(l)[u] = IF Named(u) = {} THEN None ELSE l[Newest(u)]
  BY DEF Rebuilt
<1>4. \A u \in Username : Rebuilt(l)[u] = None \/ \E k \in Named(u) : Rebuilt(l)[u] = l[k]
  BY <1>2, <1>3
<1>5. \A u \in Username : Named(u) # {} => \E k \in Named(u) : Rebuilt(l)[u] = l[k]
  BY <1>2, <1>3
<1> HIDE DEF Newest
<1>6. \A u \in Username : Rebuilt(l)[u] # None =>
        Rebuilt(l)[u] \in ToSet(l) /\ NameOf[Rebuilt(l)[u]] = u
  BY <1>4 DEF ToSet
<1>7. \A u \in Username : Rebuilt(l)[u] \in Volunteer \cup {None}
  BY <1>1, <1>4
<1>8. Rebuilt(l) \in [Username -> Volunteer \cup {None}]
  <2>1. Rebuilt(l) = [u \in Username |-> Rebuilt(l)[u]]
    BY DEF Rebuilt
  <2> QED
    BY <1>7, <2>1
<1>9. ASSUME NEW v \in ToSet(l), \A w \in ToSet(l) : NameOf[w] = NameOf[v] => w = v
      PROVE  Rebuilt(l)[NameOf[v]] = v
  <2>1. PICK k \in DOMAIN l : l[k] = v
    BY DEF ToSet
  <2>2. k \in Named(NameOf[v]) /\ NameOf[v] \in Username
    BY <1>1, <2>1, ConstantsAssumption
  <2>3. PICK j \in Named(NameOf[v]) : Rebuilt(l)[NameOf[v]] = l[j]
    BY <1>5, <2>2
  <2>4. l[j] \in ToSet(l) /\ NameOf[l[j]] = NameOf[v]
    BY <2>3 DEF ToSet
  <2> QED
    BY <1>9, <2>3, <2>4
<1> QED
  BY <1>6, <1>8, <1>9

----------------------------------------------------------------------------
(* What the actions do to lists, indexes and messages.                      *)

LEMMA ElementsOf ==
    ASSUME NEW S, NEW l \in Seq(S)
    PROVE  ToSet(l) \in SUBSET S
BY DEF ToSet

LEMMA AddedKeeps ==
    ASSUME MemoryTypes, Indexed, NEW i \in Instance, NEW v \in Volunteer, Added(i, v), v \notin byId[i]
    PROVE  /\ list' \in [Instance -> Seq(Volunteer)]
           /\ byName' \in [Instance -> [Username -> Volunteer \cup {None}]]
           /\ byId' \in [Instance -> SUBSET Volunteer]
           /\ Indexed'
           /\ \A j \in Instance : byId'[j] = IF j = i THEN byId[j] \cup {v} ELSE byId[j]
           /\ \A j \in Instance, u \in Username :
                byName'[j][u] = IF j = i /\ u = NameOf[v] THEN v ELSE byName[j][u]
<1>1. NameOf[v] \in Username
  BY ConstantsAssumption
<1>2. list[i] \in Seq(Volunteer) /\ IsInjective(list[i]) /\ v \notin ToSet(list[i])
  BY DEF MemoryTypes, Indexed, Listed
<1>3. /\ Append(list[i], v) \in Seq(Volunteer) /\ IsInjective(Append(list[i], v))
      /\ ToSet(Append(list[i], v)) = ToSet(list[i]) \cup {v}
  BY <1>2, AppendedFacts
<1>4. /\ list' \in [Instance -> Seq(Volunteer)]
      /\ \A j \in Instance : list'[j] = IF j = i THEN Append(list[i], v) ELSE list[j]
  BY <1>3 DEF Added, MemoryTypes
<1>5. \A j \in Instance : byId'[j] = IF j = i THEN byId[j] \cup {v} ELSE byId[j]
  BY DEF Added, MemoryTypes
<1>6. byId' \in [Instance -> SUBSET Volunteer]
  BY DEF Added, MemoryTypes
<1>7. /\ byName' \in [Instance -> [Username -> Volunteer \cup {None}]]
      /\ \A j \in Instance, u \in Username :
           byName'[j][u] = IF j = i /\ u = NameOf[v] THEN v ELSE byName[j][u]
  BY <1>1 DEF Added, MemoryTypes
<1>8. \A j \in Instance : ToSet(list'[j]) = IF j = i THEN ToSet(list[j]) \cup {v} ELSE ToSet(list[j])
  BY <1>3, <1>4
<1>9. Indexed'
  <2> SUFFICES ASSUME NEW j \in Instance
               PROVE  /\ IsInjective(list'[j]) /\ byId'[j] = ToSet(list'[j])
                      /\ \A u \in Username : byName'[j][u] # None =>
                           byName'[j][u] \in ToSet(list'[j]) /\ NameOf[byName'[j][u]] = u
    BY DEF Indexed, Listed
  <2>1. IsInjective(list'[j])
    BY <1>3, <1>4 DEF Indexed
  <2>2. byId'[j] = ToSet(list'[j])
    BY <1>5, <1>8 DEF Indexed, Listed
  <2>3. ASSUME NEW u \in Username, byName'[j][u] # None
        PROVE  byName'[j][u] \in ToSet(list'[j]) /\ NameOf[byName'[j][u]] = u
    <3>1. CASE j = i /\ u = NameOf[v]
      BY <1>7, <1>8, <3>1
    <3>2. CASE ~(j = i /\ u = NameOf[v])
      <4>1. byName'[j][u] = byName[j][u]
        BY <1>7, <3>2
      <4>2. byName[j][u] \in ToSet(list[j]) /\ NameOf[byName[j][u]] = u
        BY <2>3, <4>1 DEF Indexed, Listed
      <4> QED
        BY <1>8, <4>1, <4>2
    <3> QED
      BY <3>1, <3>2
  <2> QED
    BY <2>1, <2>2, <2>3
<1> QED
  BY <1>4, <1>5, <1>6, <1>7, <1>9

LEMMA TakenOutKeeps ==
    ASSUME MemoryTypes, Indexed, NEW i \in Instance, NEW v \in Volunteer, TakenOut(i, v)
    PROVE  /\ list' \in [Instance -> Seq(Volunteer)]
           /\ byName' \in [Instance -> [Username -> Volunteer \cup {None}]]
           /\ byId' \in [Instance -> SUBSET Volunteer]
           /\ Indexed'
           /\ \A j \in Instance : byId'[j] = IF j = i THEN byId[j] \ {v} ELSE byId[j]
           /\ \A j \in Instance, u \in Username :
                byName'[j][u] = IF j = i /\ u = NameOf[v] /\ byName[j][u] = v
                                THEN None ELSE byName[j][u]
<1>1. NameOf[v] \in Username
  BY ConstantsAssumption
<1>2. list[i] \in Seq(Volunteer) /\ IsInjective(list[i])
  BY DEF MemoryTypes, Indexed
<1>3. /\ RemoveFirst(list[i], v) \in Seq(Volunteer) /\ IsInjective(RemoveFirst(list[i], v))
      /\ ToSet(RemoveFirst(list[i], v)) = ToSet(list[i]) \ {v}
  BY <1>2, RemovedFacts
<1>4. /\ list' \in [Instance -> Seq(Volunteer)]
      /\ \A j \in Instance : list'[j] = IF j = i THEN RemoveFirst(list[i], v) ELSE list[j]
  BY <1>3 DEF TakenOut, MemoryTypes
<1>5. \A j \in Instance : byId'[j] = IF j = i THEN byId[j] \ {v} ELSE byId[j]
  BY DEF TakenOut, MemoryTypes
<1>6. byId' \in [Instance -> SUBSET Volunteer]
  BY DEF TakenOut, MemoryTypes
<1>7. /\ byName' \in [Instance -> [Username -> Volunteer \cup {None}]]
      /\ \A j \in Instance, u \in Username :
           byName'[j][u] = IF j = i /\ u = NameOf[v] /\ byName[j][u] = v
                           THEN None ELSE byName[j][u]
  BY <1>1 DEF TakenOut, MemoryTypes
<1>8. \A j \in Instance : ToSet(list'[j]) = IF j = i THEN ToSet(list[j]) \ {v} ELSE ToSet(list[j])
  BY <1>3, <1>4
<1>9. Indexed'
  <2> SUFFICES ASSUME NEW j \in Instance
               PROVE  /\ IsInjective(list'[j]) /\ byId'[j] = ToSet(list'[j])
                      /\ \A u \in Username : byName'[j][u] # None =>
                           byName'[j][u] \in ToSet(list'[j]) /\ NameOf[byName'[j][u]] = u
    BY DEF Indexed, Listed
  <2>1. IsInjective(list'[j])
    BY <1>3, <1>4 DEF Indexed
  <2>2. byId'[j] = ToSet(list'[j])
    BY <1>5, <1>8 DEF Indexed, Listed
  <2>3. ASSUME NEW u \in Username, byName'[j][u] # None
        PROVE  byName'[j][u] \in ToSet(list'[j]) /\ NameOf[byName'[j][u]] = u
    <3>1. /\ byName'[j][u] = byName[j][u]
          /\ byName[j][u] \in ToSet(list[j]) /\ NameOf[byName[j][u]] = u
      BY <1>7, <2>3 DEF Indexed, Listed
    <3>2. j = i => byName[j][u] # v
      BY <1>7, <2>3, <3>1
    <3> QED
      BY <1>8, <3>1, <3>2
  <2> QED
    BY <2>1, <2>2, <2>3
<1> QED
  BY <1>4, <1>5, <1>6, <1>7, <1>9

\* A publication is appended for all other instances.
LEMMA PublishFacts ==
    ASSUME channel \in [Instance -> Seq(MessageType)], NEW i \in Instance, NEW m \in MessageType,
           Publish(i, m)
    PROVE  /\ channel' \in [Instance -> Seq(MessageType)]
           /\ channel'[i] = channel[i]
           /\ \A j \in Instance : j # i =>
                /\ \A n \in DOMAIN channel[j] :
                     n \in DOMAIN channel'[j] /\ channel'[j][n] = channel[j][n]
                /\ \E k \in DOMAIN channel'[j] :
                     /\ channel'[j][k] = m
                     /\ \A n \in DOMAIN channel'[j] : n \in DOMAIN channel[j] \/ n = k
                     /\ \A n \in DOMAIN channel[j] : n < k
           /\ \A j \in Instance, v \in Volunteer :
                Mentioned(j, v)' <=> Mentioned(j, v) \/ (j # i /\ m.id = v)
           /\ \A j \in Instance, v \in Volunteer : \A t :
                Sent(j, t, v)' <=> Sent(j, t, v) \/ (j # i /\ m.id = v /\ m.type = t)
<1>1. \A j \in Instance : channel'[j] = IF j = i THEN channel[j] ELSE Append(channel[j], m)
  BY DEF Publish
<1>2. channel' \in [Instance -> Seq(MessageType)]
  <2>1. \A j \in Instance : Append(channel[j], m) \in Seq(MessageType)
    BY AppendProperties
  <2> QED
    BY <2>1 DEF Publish
<1>3. ASSUME NEW j \in Instance, j # i
      PROVE  /\ \A n \in DOMAIN channel[j] :
                  n \in DOMAIN channel'[j] /\ channel'[j][n] = channel[j][n]
             /\ \E k \in DOMAIN channel'[j] :
                  /\ channel'[j][k] = m
                  /\ \A n \in DOMAIN channel'[j] : n \in DOMAIN channel[j] \/ n = k
                  /\ \A n \in DOMAIN channel[j] : n < k
  <2>1. channel[j] \in Seq(MessageType) /\ channel'[j] = Append(channel[j], m)
    BY <1>1, <1>3
  <2>2. Len(channel[j]) + 1 \in DOMAIN Append(channel[j], m)
    BY <2>1, AppendedFacts
  <2> QED
    BY <2>1, <2>2, AppendedFacts
<1>4. ASSUME NEW j \in Instance, NEW v \in Volunteer
      PROVE  Mentioned(j, v)' <=> Mentioned(j, v) \/ (j # i /\ m.id = v)
  <2>1. CASE j = i
    BY <1>1, <2>1 DEF Mentioned
  <2>2. CASE j # i
    <3>1. \A n \in DOMAIN channel[j] : n \in DOMAIN channel'[j] /\ channel'[j][n] = channel[j][n]
      BY <1>3, <2>2
    <3>2. PICK k \in DOMAIN channel'[j] :
            channel'[j][k] = m /\ \A n \in DOMAIN channel'[j] : n \in DOMAIN channel[j] \/ n = k
      BY <1>3, <2>2
    <3> QED
      BY <2>2, <3>1, <3>2, Zenon DEF Mentioned
  <2> QED
    BY <2>1, <2>2
<1>5. ASSUME NEW j \in Instance, NEW v \in Volunteer, NEW t
      PROVE  Sent(j, t, v)' <=> Sent(j, t, v) \/ (j # i /\ m.id = v /\ m.type = t)
  <2>1. CASE j = i
    BY <1>1, <2>1 DEF Sent
  <2>2. CASE j # i
    <3>1. \A n \in DOMAIN channel[j] : n \in DOMAIN channel'[j] /\ channel'[j][n] = channel[j][n]
      BY <1>3, <2>2
    <3>2. PICK k \in DOMAIN channel'[j] :
            channel'[j][k] = m /\ \A n \in DOMAIN channel'[j] : n \in DOMAIN channel[j] \/ n = k
      BY <1>3, <2>2
    <3> QED
      BY <2>2, <3>1, <3>2, Zenon DEF Sent
  <2> QED
    BY <2>1, <2>2
<1> QED
  BY <1>1, <1>2, <1>3, <1>4, <1>5

\* The first message of an instance is taken off.
LEMMA TakeFacts ==
    ASSUME channel \in [Instance -> Seq(MessageType)], NEW i \in Instance, channel[i] # << >>,
           channel' = [channel EXCEPT ![i] = Tail(@)]
    PROVE  /\ channel' \in [Instance -> Seq(MessageType)]
           /\ \A j \in Instance : j # i => channel'[j] = channel[j]
           /\ Head(channel[i]) \in MessageType
           /\ 1 \in DOMAIN channel[i] /\ Head(channel[i]) = channel[i][1]
           /\ \A n \in DOMAIN channel'[i] :
                n + 1 \in DOMAIN channel[i] /\ channel'[i][n] = channel[i][n + 1]
           /\ \A n \in DOMAIN channel[i] :
                n = 1 \/ (n - 1 \in DOMAIN channel'[i] /\ channel'[i][n - 1] = channel[i][n])
           /\ DOMAIN channel[i] \subseteq Nat /\ DOMAIN channel'[i] \subseteq Nat
           /\ \A j \in Instance, v \in Volunteer : Mentioned(j, v)' => Mentioned(j, v)
           /\ \A j \in Instance, v \in Volunteer : \A t :
                /\ Sent(j, t, v)' => Sent(j, t, v)
                /\ Sent(j, t, v) => \/ Sent(j, t, v)'
                                    \/ j = i /\ Head(channel[i]).type = t /\ Head(channel[i]).id = v
<1>1. channel[i] \in Seq(MessageType)
  OBVIOUS
<1>2. /\ Tail(channel[i]) \in Seq(MessageType) /\ Head(channel[i]) \in MessageType
      /\ 1 \in 1..Len(channel[i]) /\ Head(channel[i]) = channel[i][1]
      /\ \A n \in 1..Len(Tail(channel[i])) :
           n + 1 \in 1..Len(channel[i]) /\ Tail(channel[i])[n] = channel[i][n + 1]
      /\ \A n \in 1..Len(channel[i]) :
           n = 1 \/ (n - 1 \in 1..Len(Tail(channel[i])) /\ channel[i][n] = Tail(channel[i])[n - 1])
  <2>1. PICK s \in Seq(MessageType) : s = channel[i]
    BY <1>1
  <2>2. s # << >>
    BY <2>1
  <2>3. /\ Tail(s) \in Seq(MessageType) /\ Head(s) \in MessageType /\ 1 \in 1..Len(s) /\ Head(s) = s[1]
        /\ \A n \in 1..Len(Tail(s)) : n + 1 \in 1..Len(s) /\ Tail(s)[n] = s[n + 1]
        /\ \A n \in 1..Len(s) : n = 1 \/ (n - 1 \in 1..Len(Tail(s)) /\ s[n] = Tail(s)[n - 1])
    BY <2>2
  <2> QED
    BY <2>1, <2>3
<1>3. /\ channel' \in [Instance -> Seq(MessageType)] /\ channel'[i] = Tail(channel[i])
      /\ \A j \in Instance : j # i => channel'[j] = channel[j]
  BY <1>2
<1>4. /\ DOMAIN channel[i] = 1..Len(channel[i]) /\ DOMAIN channel'[i] = 1..Len(Tail(channel[i]))
      /\ DOMAIN channel[i] \subseteq Nat /\ DOMAIN channel'[i] \subseteq Nat
  BY <1>1, <1>2, <1>3
<1>5. /\ \A n \in DOMAIN channel'[i] :
           n + 1 \in DOMAIN channel[i] /\ channel'[i][n] = channel[i][n + 1]
      /\ \A n \in DOMAIN channel[i] :
           n = 1 \/ (n - 1 \in DOMAIN channel'[i] /\ channel'[i][n - 1] = channel[i][n])
  BY <1>2, <1>3, <1>4
<1>6. ASSUME NEW j \in Instance, NEW v \in Volunteer
      PROVE  Mentioned(j, v)' => Mentioned(j, v)
  BY <1>3, <1>5 DEF Mentioned
<1>7. ASSUME NEW j \in Instance, NEW v \in Volunteer, NEW t
      PROVE  /\ Sent(j, t, v)' => Sent(j, t, v)
             /\ Sent(j, t, v) => \/ Sent(j, t, v)'
                                 \/ j = i /\ Head(channel[i]).type = t /\ Head(channel[i]).id = v
  <2>1. CASE j # i
    BY <1>3, <2>1 DEF Sent
  <2>2. CASE j = i
    <3>1. Sent(i, t, v)' => Sent(i, t, v)
      BY <1>5 DEF Sent
    <3>2. ASSUME NEW n \in DOMAIN channel[i], channel[i][n].type = t, channel[i][n].id = v
          PROVE  Sent(i, t, v)' \/ (Head(channel[i]).type = t /\ Head(channel[i]).id = v)
      BY <1>2, <1>5, <3>2 DEF Sent
    <3> QED
      BY <2>2, <3>1, <3>2 DEF Sent
  <2> QED
    BY <2>1, <2>2
<1> QED
  BY <1>2, <1>3, <1>4, <1>5, <1>6, <1>7

----------------------------------------------------------------------------
(* The indexes follow the list.                                             *)

LEMMA NoTaskFacts ==
    /\ \A P : NoTask \in Task(P) /\ Answered \in Task(P)
    /\ NoTask.pc = "new" /\ NoTask.at = None /\ NoTask.of = None
    /\ Answered.pc = "done" /\ Answered.at = None /\ Answered.of = None
BY DEF NoTask, Answered, Task, Position

LEMMA BasicInit == Init => BasicInv
<1> SUFFICES ASSUME Init PROVE BasicInv
  OBVIOUS
<1>1. /\ SampleList \in Seq(Volunteer) /\ IsInjective(SampleList) /\ ToSet(SampleList) = Sample
      /\ Sample \in SUBSET Volunteer
  BY SampleFacts, ConstantsAssumption
<1>2. /\ Rebuilt(SampleList) \in [Username -> Volunteer \cup {None}]
      /\ \A u \in Username : Rebuilt(SampleList)[u] # None =>
           Rebuilt(SampleList)[u] \in Sample /\ NameOf[Rebuilt(SampleList)[u]] = u
  BY <1>1, RebuiltFacts
<1>3. MemoryTypes
  BY <1>1, <1>2 DEF Init, MemoryTypes, Position
<1>4. OtherTypes
  <2>1. << >> \in Seq(MessageType)
    BY EmptySeq
  <2> QED
    BY <2>1, NoTaskFacts, ConstantsAssumption DEF Init, OtherTypes, Position
<1>5. Placed
  BY NoTaskFacts DEF Init, Placed
<1>6. Indexed
  BY <1>1, <1>2 DEF Init, Indexed, Listed
<1>7. Births
  <2>1. \A v \in Volunteer, i \in Instance : ~Mentioned(i, v)
    <3>1. DOMAIN << >> = {}
      OBVIOUS
    <3> QED
      BY <3>1 DEF Init, Mentioned
  <2>2. \A v \in Volunteer : ~Born(v) => v \notin Sample
    BY DEF Born
  <2>3. \A v \in Volunteer : v # None /\ NameOf[v] \in Username
    BY ConstantsAssumption
  <2>4. \A v \in Volunteer : ~Born(v) => Unheard(v)
    BY <2>1, <2>2, <2>3, NoTaskFacts DEF Init, Unheard, Gone
  <2>5. \A v \in Sample : creating[v].pc = "new" /\ row[NameOf[v]] # v
    BY <1>1, <2>3, NoTaskFacts DEF Init
  <2> QED
    BY <2>4, <2>5 DEF Init, Births
<1> QED
  BY <1>3, <1>4, <1>5, <1>6, <1>7 DEF BasicInv, Types

LEMMA UnheardKept ==
    ASSUME NEW v \in Volunteer, Unheard(v),
           \A i \in Instance :
             /\ v \in byId'[i] => v \in byId[i]
             /\ Mentioned(i, v)' => Mentioned(i, v)
             /\ position'[i][v] \in {position[i][v], Initial},
           \A c \in Change : changing'[c].of = v => changing[c].of = v,
           Gone(v)' => Gone(v),
           rowPosition'[v] \in {rowPosition[v], Initial},
           creating'[v].pc # "written" /\ row'[NameOf[v]] = v =>
             creating[v].pc # "written" /\ row[NameOf[v]] = v
    PROVE  Unheard(v)'
BY DEF Unheard

LEMMA SameMentions ==
    ASSUME NEW i \in Instance, channel'[i] = channel[i]
    PROVE  /\ \A v \in Volunteer : Mentioned(i, v)' <=> Mentioned(i, v)
           /\ \A v \in Volunteer : \A t : Sent(i, t, v)' <=> Sent(i, t, v)
BY DEF Mentioned, Sent

LEMMA CheckNameKeeps ==
    ASSUME BasicInv, NEW v \in Volunteer, NEW i \in Instance, CheckName(v, i)
    PROVE  BasicInv'
<1>1. /\ v \notin Sample /\ creating[v].pc = "new"
      /\ creating' = [creating EXCEPT ![v].pc = "writing", ![v].at = i]
      /\ UNCHANGED <<list, byName, byId, position, row, rowPosition, changing, deleting, channel, faults>>
  BY DEF CheckName, memory, postgres
<1>2. /\ creating' \in [Volunteer -> Task({"writing", "written"})]
      /\ creating'[v].pc = "writing" /\ creating'[v].at = i
      /\ \A w \in Volunteer : w # v => creating'[w] = creating[w]
  <2> DEFINE t == [creating[v] EXCEPT !.pc = "writing", !.at = i]
  <2>1. creating \in [Volunteer -> Task({"writing", "written"})]
    BY DEF BasicInv, Types, OtherTypes
  <2>2. t \in Task({"writing", "written"}) /\ t.pc = "writing" /\ t.at = i
    BY <2>1 DEF Task
  <2>3. creating' = [creating EXCEPT ![v] = t]
    BY <1>1
  <2> QED
    BY <2>1, <2>2, <2>3
<1>3. disputed' \in SUBSET Username
  BY ConstantsAssumption DEF CheckName, BasicInv, Types, OtherTypes
<1>4. raced' = raced
  BY DEF CheckName
<1>5. Types'
  <2>1. MemoryTypes'
    BY <1>1 DEF BasicInv, Types, MemoryTypes
  <2>2. OtherTypes'
    BY <1>1, <1>2, <1>3, <1>4 DEF BasicInv, Types, OtherTypes
  <2>3. Placed'
    BY <1>1, <1>2 DEF BasicInv, Types, Placed
  <2> QED
    BY <2>1, <2>2, <2>3 DEF Types
<1>6. Indexed'
  BY <1>1 DEF BasicInv, Indexed, Listed
<1>7. Births'
  <2>1. ASSUME NEW w \in Volunteer, ~Born(w)' PROVE Unheard(w)'
    <3>1. ~Born(w)
      BY <1>1, <1>2, <2>1 DEF Born
    <3>2. Unheard(w)
      BY <3>1 DEF BasicInv, Births
    <3>3. creating'[w].pc # "written" => creating[w].pc # "written"
      BY <1>1, <1>2
    <3> QED
      BY <1>1, <3>2, <3>3 DEF Unheard, Mentioned, Gone
  <2>2. \A w \in Sample : creating'[w].pc = "new" /\ row'[NameOf[w]] # w
    BY <1>1, <1>2, ConstantsAssumption DEF BasicInv, Births
  <2>3. \A u \in Username : row'[u] # None => NameOf[row'[u]] = u
    BY <1>1 DEF BasicInv, Births
  <2> QED
    BY <2>1, <2>2, <2>3 DEF Births
<1> QED
  BY <1>5, <1>6, <1>7 DEF BasicInv

LEMMA WriteVolunteerKeeps ==
    ASSUME BasicInv, NEW v \in Volunteer, WriteVolunteer(v)
    PROVE  BasicInv'
<1>1. /\ creating[v].pc = "writing"
      /\ creating' = [creating EXCEPT ![v].pc = "written"]
      /\ UNCHANGED <<list, byName, byId, position, rowPosition, changing, deleting, channel,
                     disputed, raced>>
  BY DEF WriteVolunteer, memory, ghosts
<1>2. /\ creating' \in [Volunteer -> Task({"writing", "written"})]
      /\ creating'[v].pc = "written" /\ creating'[v].at = creating[v].at
      /\ \A w \in Volunteer : w # v => creating'[w] = creating[w]
  BY <1>1 DEF BasicInv, Types, OtherTypes, Task
<1>3. /\ row' \in [Username -> Volunteer \cup {None}] /\ faults' \in 0..MaxFaults
      /\ \A u \in Username : row'[u] = row[u] \/ (u = NameOf[v] /\ row'[u] = v)
  <2>1. CASE row' = [row EXCEPT ![NameOf[v]] = IF @ = None THEN v ELSE @] /\ UNCHANGED faults
    BY <2>1, ConstantsAssumption DEF BasicInv, Types, OtherTypes
  <2>2. CASE faults < MaxFaults /\ faults' = faults + 1 /\ UNCHANGED row
    BY <2>2, ConstantsAssumption DEF BasicInv, Types, OtherTypes
  <2> QED
    BY <2>1, <2>2 DEF WriteVolunteer
<1>5. Types'
  <2>1. MemoryTypes'
    BY <1>1 DEF BasicInv, Types, MemoryTypes
  <2>2. OtherTypes'
    BY <1>1, <1>2, <1>3 DEF BasicInv, Types, OtherTypes
  <2>3. Placed'
    BY <1>1, <1>2 DEF BasicInv, Types, Placed
  <2> QED
    BY <2>1, <2>2, <2>3 DEF Types
<1>6. Indexed'
  BY <1>1 DEF BasicInv, Indexed, Listed
<1>7. Births'
  <2>0. v \notin Sample /\ \A w \in Volunteer : NameOf[w] \in Username
    BY <1>1, ConstantsAssumption DEF BasicInv, Births
  <2>1. ASSUME NEW w \in Volunteer, ~Born(w)' PROVE Unheard(w)'
    <3>1. ~Born(w)
      BY <1>1, <1>2, <2>1 DEF Born
    <3>2. Unheard(w)
      BY <3>1 DEF BasicInv, Births
    <3>3. creating'[w].pc # "written" =>
            w # v /\ creating[w].pc # "written" /\ row'[NameOf[w]] \in {row[NameOf[w]], v}
      BY <1>2, <1>3, <2>0
    <3> QED
      BY <1>1, <3>2, <3>3 DEF Unheard, Mentioned, Gone
  <2>2. \A w \in Sample : creating'[w].pc = "new" /\ row'[NameOf[w]] # w
    BY <1>2, <1>3, <2>0, ConstantsAssumption DEF BasicInv, Births
  <2>3. \A u \in Username : row'[u] # None => NameOf[row'[u]] = u
    BY <1>3 DEF BasicInv, Births
  <2> QED
    BY <2>1, <2>2, <2>3 DEF Births
<1> QED
  BY <1>5, <1>6, <1>7 DEF BasicInv

LEMMA EnlistKeeps ==
    ASSUME BasicInv, NEW v \in Volunteer, Enlist(v)
    PROVE  BasicInv'
<1>0. creating[v].pc = "written"
  BY DEF Enlist
<1> PICK i \in Instance : i = creating[v].at
  BY <1>0 DEF BasicInv, Types, Placed
<1>1. /\ creating[v].pc = "written"
      /\ creating' = [creating EXCEPT ![v].pc = "announcing"]
      /\ Added(i, v)
      /\ UNCHANGED <<position, row, rowPosition, changing, deleting, channel, disputed, raced, faults>>
  BY DEF Enlist, postgres, ghosts
<1>2. /\ creating' \in [Volunteer -> Task({"writing", "written"})]
      /\ creating'[v].pc = "announcing" /\ creating'[v].at = creating[v].at
      /\ \A w \in Volunteer : w # v => creating'[w] = creating[w]
  BY <1>1 DEF BasicInv, Types, OtherTypes, Task
<1>3. v \notin Sample /\ ~Born(v) /\ Unheard(v)
  BY <1>1 DEF BasicInv, Births, Born
<1>4. v \notin byId[i]
  BY <1>3 DEF Unheard
<1>5. /\ list' \in [Instance -> Seq(Volunteer)]
      /\ byName' \in [Instance -> [Username -> Volunteer \cup {None}]]
      /\ byId' \in [Instance -> SUBSET Volunteer]
      /\ Indexed'
      /\ \A j \in Instance : byId'[j] = IF j = i THEN byId[j] \cup {v} ELSE byId[j]
  <2>1. MemoryTypes /\ Indexed /\ Added(i, v)
    BY <1>1 DEF BasicInv, Types
  <2> QED
    BY <1>4, <2>1, AddedKeeps, Zenon
<1>6. Types'
  <2>1. MemoryTypes'
    BY <1>1, <1>5 DEF BasicInv, Types, MemoryTypes
  <2>2. OtherTypes'
    BY <1>1, <1>2 DEF BasicInv, Types, OtherTypes
  <2>3. Placed'
    BY <1>1, <1>2 DEF BasicInv, Types, Placed
  <2> QED
    BY <2>1, <2>2, <2>3 DEF Types
<1>7. Births'
  <2>1. ASSUME NEW w \in Volunteer, ~Born(w)' PROVE Unheard(w)'
    <3>1. ~Born(w) /\ w # v
      BY <1>1, <1>2, <2>1 DEF Born
    <3>2. Unheard(w)
      BY <3>1 DEF BasicInv, Births
    <3>3. \A j \in Instance : w \in byId'[j] => w \in byId[j]
      BY <1>5, <3>1
    <3> QED
      BY <1>1, <1>2, <3>1, <3>2, <3>3 DEF Unheard, Mentioned, Gone
  <2>2. \A w \in Sample : creating'[w].pc = "new" /\ row'[NameOf[w]] # w
    BY <1>1, <1>2, <1>3, ConstantsAssumption DEF BasicInv, Births
  <2>3. \A u \in Username : row'[u] # None => NameOf[row'[u]] = u
    BY <1>1 DEF BasicInv, Births
  <2> QED
    BY <2>1, <2>2, <2>3 DEF Births
<1> QED
  BY <1>5, <1>6, <1>7 DEF BasicInv

LEMMA AnnounceCreatedKeeps ==
    ASSUME BasicInv, NEW v \in Volunteer, AnnounceCreated(v)
    PROVE  BasicInv'
<1> DEFINE i == creating[v].at
           m == Message("VOLUNTEER_CREATED", v, position[creating[v].at][v])
<1>1. /\ creating[v].pc = "announcing"
      /\ creating' = [creating EXCEPT ![v] = Answered]
      /\ Publish(i, m)
      /\ UNCHANGED <<list, byName, byId, position, row, rowPosition, changing, deleting, raced, faults>>
  BY DEF AnnounceCreated, memory, postgres
<1>2. /\ creating' \in [Volunteer -> Task({"writing", "written"})]
      /\ creating'[v] = Answered
      /\ \A w \in Volunteer : w # v => creating'[w] = creating[w]
  BY <1>1, NoTaskFacts DEF BasicInv, Types, OtherTypes
<1>3. i \in Instance
  BY <1>1 DEF BasicInv, Types, Placed
<1>4. m \in MessageType /\ m.id = v
  BY <1>3 DEF Message, MessageType, BasicInv, Types, MemoryTypes
<1>5. /\ channel' \in [Instance -> Seq(MessageType)]
      /\ \A j \in Instance, w \in Volunteer : Mentioned(j, w)' => Mentioned(j, w) \/ w = v
  BY <1>1, <1>3, <1>4, PublishFacts DEF BasicInv, Types, OtherTypes
<1>6. disputed' \in SUBSET Username
  BY ConstantsAssumption DEF AnnounceCreated, BasicInv, Types, OtherTypes
<1>7. Types'
  <2>1. MemoryTypes'
    BY <1>1 DEF BasicInv, Types, MemoryTypes
  <2>2. OtherTypes'
    BY <1>1, <1>2, <1>5, <1>6 DEF BasicInv, Types, OtherTypes
  <2>3. Placed'
    BY <1>1, <1>2, NoTaskFacts DEF BasicInv, Types, Placed
  <2> QED
    BY <2>1, <2>2, <2>3 DEF Types
<1>8. Indexed'
  BY <1>1 DEF BasicInv, Indexed, Listed
<1>9. Births'
  <2>1. ASSUME NEW w \in Volunteer, ~Born(w)' PROVE Unheard(w)'
    <3>1. ~Born(w) /\ w # v
      BY <1>1, <1>2, <2>1, NoTaskFacts DEF Born
    <3>2. Unheard(w)
      BY <3>1 DEF BasicInv, Births
    <3> QED
      BY <1>1, <1>2, <1>5, <3>1, <3>2 DEF Unheard, Gone
  <2>2. \A w \in Sample : creating'[w].pc = "new" /\ row'[NameOf[w]] # w
    BY <1>1, <1>2, ConstantsAssumption DEF BasicInv, Births
  <2>3. \A u \in Username : row'[u] # None => NameOf[row'[u]] = u
    BY <1>1 DEF BasicInv, Births
  <2> QED
    BY <2>1, <2>2, <2>3 DEF Births
<1> QED
  BY <1>7, <1>8, <1>9 DEF BasicInv

LEMMA UpdateKeeps ==
    ASSUME BasicInv, NEW c \in Change, NEW v \in Volunteer, NEW i \in Instance, Update(c, v, i)
    PROVE  BasicInv'
<1> DEFINE t == [NoTask EXCEPT !.pc = "persisting", !.at = i, !.of = v]
<1>1. /\ changing[c].pc = "new" /\ v \in byId[i]
      /\ changing' = [changing EXCEPT ![c] = t]
      /\ position' = [position EXCEPT ![i][v] = c]
      /\ UNCHANGED <<list, byName, byId, row, rowPosition, creating, deleting, channel, disputed, faults>>
  BY DEF Update, postgres
<1>2. t \in Task({"persisting"}) /\ t.pc = "persisting" /\ t.at = i /\ t.of = v
  BY DEF NoTask, Task, Position
<1> HIDE DEF t
<1>3. /\ changing' \in [Change -> Task({"persisting"})] /\ changing'[c] = t
      /\ \A d \in Change : d # c => changing'[d] = changing[d]
  BY <1>1, <1>2 DEF BasicInv, Types, OtherTypes
<1>4. /\ position' \in [Instance -> [Volunteer -> Position]]
      /\ \A j \in Instance, w \in Volunteer :
           position'[j][w] = IF j = i /\ w = v THEN c ELSE position[j][w]
  BY <1>1 DEF BasicInv, Types, MemoryTypes, Position
<1>5. raced' \in SUBSET Volunteer
  BY DEF Update, BasicInv, Types, OtherTypes
<1>6. Types'
  <2>1. MemoryTypes'
    BY <1>1, <1>4 DEF BasicInv, Types, MemoryTypes
  <2>2. OtherTypes'
    BY <1>1, <1>3, <1>5 DEF BasicInv, Types, OtherTypes
  <2>3. Placed'
    BY <1>1, <1>2, <1>3 DEF BasicInv, Types, Placed
  <2> QED
    BY <2>1, <2>2, <2>3 DEF Types
<1>7. Indexed'
  BY <1>1 DEF BasicInv, Indexed, Listed
<1>8. Births'
  <2>1. ASSUME NEW w \in Volunteer, ~Born(w)' PROVE Unheard(w)'
    <3>1. ~Born(w)
      BY <1>1, <2>1 DEF Born
    <3>2. Unheard(w) /\ w # v
      BY <1>1, <3>1 DEF BasicInv, Births, Unheard
    <3> QED
      BY <1>1, <1>2, <1>3, <1>4, <3>2 DEF Unheard, Mentioned, Gone
  <2>2. \A w \in Sample : creating'[w].pc = "new" /\ row'[NameOf[w]] # w
    BY <1>1, ConstantsAssumption DEF BasicInv, Births
  <2>3. \A u \in Username : row'[u] # None => NameOf[row'[u]] = u
    BY <1>1 DEF BasicInv, Births
  <2> QED
    BY <2>1, <2>2, <2>3 DEF Births
<1> QED
  BY <1>6, <1>7, <1>8 DEF BasicInv

LEMMA PersistKeeps ==
    ASSUME BasicInv, NEW c \in Change, Persist(c)
    PROVE  /\ BasicInv'
           /\ byId' = byId
           /\ \A i \in Instance, u \in Username : byName'[i][u] \in {byName[i][u], Rebuilt(list[i])[u]}
<1>0. changing[c].pc = "persisting"
  BY DEF Persist
<1>1. changing[c].at \in Instance /\ changing[c].of \in Volunteer
  BY <1>0 DEF BasicInv, Types, Placed
<1>2. PICK i \in Instance : i = changing[c].at
  BY <1>1
<1>3. PICK v \in Volunteer : v = changing[c].of
  BY <1>1
<1> DEFINE t == [changing[c] EXCEPT !.pc = "announcing", !.seen = position[i][v]]
<1>4. /\ changing' = [changing EXCEPT ![c] = t]
      /\ UNCHANGED <<list, position, row, creating, deleting, channel, disputed, raced>>
  BY <1>2, <1>3 DEF Persist, ghosts
<1>5. t \in Task({"persisting"}) /\ t.pc = "announcing" /\ t.at = i /\ t.of = v
  <2>1. changing[c] \in Task({"persisting"}) /\ position[i][v] \in Position
    BY DEF BasicInv, Types, OtherTypes, MemoryTypes
  <2>2. changing[c].at = i /\ changing[c].of = v
    BY <1>2, <1>3
  <2> QED
    BY <2>1, <2>2 DEF Task
<1> HIDE DEF t
<1>6. /\ changing' \in [Change -> Task({"persisting"})] /\ changing'[c] = t
      /\ \A d \in Change : d # c => changing'[d] = changing[d]
  BY <1>4, <1>5 DEF BasicInv, Types, OtherTypes
<1>7. /\ rowPosition' \in [Volunteer -> Position] /\ faults' \in 0..MaxFaults
      /\ \A w \in Volunteer : w # v => rowPosition'[w] = rowPosition[w]
  <2>1. CASE /\ rowPosition' = IF row[NameOf[v]] = v THEN [rowPosition EXCEPT ![v] = c] ELSE rowPosition
             /\ UNCHANGED faults
    BY <2>1 DEF BasicInv, Types, OtherTypes, Position
  <2>2. CASE faults < MaxFaults /\ faults' = faults + 1 /\ UNCHANGED rowPosition
    BY <2>2, ConstantsAssumption DEF BasicInv, Types, OtherTypes
  <2> QED
    BY <1>2, <1>3, <2>1, <2>2 DEF Persist
<1>8. /\ Rebuilt(list[i]) \in [Username -> Volunteer \cup {None}]
      /\ \A u \in Username : Rebuilt(list[i])[u] # None =>
           Rebuilt(list[i])[u] \in Listed(i) /\ NameOf[Rebuilt(list[i])[u]] = u
  <2>1. list[i] \in Seq(Volunteer)
    BY DEF BasicInv, Types, MemoryTypes
  <2> QED
    BY <2>1, RebuiltFacts DEF Listed
<1>9. /\ byId' = byId
      /\ byName' = byName \/ byName' = [byName EXCEPT ![i] = Rebuilt(list[i])]
  <2>1. CASE c \in AdminChange
    <3>1. byName' = [byName EXCEPT ![i] = Rebuilt(list[i])] /\ byId' = [byId EXCEPT ![i] = ToSet(list[i])]
      BY <1>2, <2>1 DEF Persist
    <3>2. byId[i] = ToSet(list[i]) /\ byId \in [Instance -> SUBSET Volunteer]
      BY DEF BasicInv, Types, MemoryTypes, Indexed, Listed
    <3> QED
      BY <3>1, <3>2
  <2>2. CASE c \notin AdminChange
    BY <2>2 DEF Persist
  <2> QED
    BY <2>1, <2>2
<1>10. /\ byName' \in [Instance -> [Username -> Volunteer \cup {None}]]
       /\ \A j \in Instance : byName'[j] = byName[j] \/ (j = i /\ byName'[j] = Rebuilt(list[i]))
  BY <1>8, <1>9 DEF BasicInv, Types, MemoryTypes
<1>11. Types'
  <2>1. MemoryTypes'
    BY <1>4, <1>9, <1>10 DEF BasicInv, Types, MemoryTypes
  <2>2. OtherTypes'
    BY <1>4, <1>6, <1>7 DEF BasicInv, Types, OtherTypes
  <2>3. Placed'
    BY <1>4, <1>5, <1>6 DEF BasicInv, Types, Placed
  <2> QED
    BY <2>1, <2>2, <2>3 DEF Types
<1>12. Indexed'
  BY <1>4, <1>8, <1>9, <1>10 DEF BasicInv, Indexed, Listed
<1>13. Births'
  <2>1. ASSUME NEW w \in Volunteer, ~Born(w)' PROVE Unheard(w)'
    <3>1. ~Born(w)
      BY <1>4, <2>1 DEF Born
    <3>2. Unheard(w) /\ w # v
      BY <1>3, <3>1 DEF BasicInv, Births, Unheard
    <3> QED
      BY <1>4, <1>5, <1>6, <1>7, <1>9, <3>2 DEF Unheard, Mentioned, Gone
  <2>2. \A w \in Sample : creating'[w].pc = "new" /\ row'[NameOf[w]] # w
    BY <1>4, ConstantsAssumption DEF BasicInv, Births
  <2>3. \A u \in Username : row'[u] # None => NameOf[row'[u]] = u
    BY <1>4 DEF BasicInv, Births
  <2> QED
    BY <2>1, <2>2, <2>3 DEF Births
<1> QED
  BY <1>9, <1>10, <1>11, <1>12, <1>13 DEF BasicInv

LEMMA AnnounceUpdatedKeeps ==
    ASSUME BasicInv, NEW c \in Change, AnnounceUpdated(c)
    PROVE  BasicInv'
<1>0. changing[c].pc = "announcing"
  BY DEF AnnounceUpdated
<1>1. changing[c].at \in Instance /\ changing[c].of \in Volunteer
  BY <1>0 DEF BasicInv, Types, Placed
<1>2. PICK i \in Instance : i = changing[c].at
  BY <1>1
<1>3. PICK v \in Volunteer : v = changing[c].of
  BY <1>1
<1>4. PICK p : p = IF c \in AdminChange THEN position[i][v] ELSE changing[c].seen
  OBVIOUS
<1> DEFINE m == Message("VOLUNTEER_UPDATED", v, p)
<1>5. /\ changing' = [changing EXCEPT ![c] = Answered]
      /\ Publish(i, m)
      /\ UNCHANGED <<list, byName, byId, position, row, rowPosition, creating, deleting,
                     disputed, raced, faults>>
  BY <1>2, <1>3, <1>4 DEF AnnounceUpdated, memory, postgres, ghosts
<1>6. /\ changing' \in [Change -> Task({"persisting"})] /\ changing'[c] = Answered
      /\ \A d \in Change : d # c => changing'[d] = changing[d]
  BY <1>5, NoTaskFacts DEF BasicInv, Types, OtherTypes
<1>7. m \in MessageType /\ m.id = v
  <2>1. p \in Position
    BY <1>4 DEF BasicInv, Types, OtherTypes, MemoryTypes, Task
  <2> QED
    BY <2>1 DEF Message, MessageType
<1> HIDE DEF m
<1>8. /\ channel' \in [Instance -> Seq(MessageType)]
      /\ \A j \in Instance, w \in Volunteer : Mentioned(j, w)' => Mentioned(j, w) \/ w = v
  BY <1>5, <1>7, PublishFacts DEF BasicInv, Types, OtherTypes
<1>9. Types'
  <2>1. MemoryTypes'
    BY <1>5 DEF BasicInv, Types, MemoryTypes
  <2>2. OtherTypes'
    BY <1>5, <1>6, <1>8 DEF BasicInv, Types, OtherTypes
  <2>3. Placed'
    BY <1>5, <1>6, NoTaskFacts DEF BasicInv, Types, Placed
  <2> QED
    BY <2>1, <2>2, <2>3 DEF Types
<1>10. Indexed'
  BY <1>5 DEF BasicInv, Indexed, Listed
<1>11. Births'
  <2>1. ASSUME NEW w \in Volunteer, ~Born(w)' PROVE Unheard(w)'
    <3>1. ~Born(w)
      BY <1>5, <2>1 DEF Born
    <3>2. Unheard(w) /\ w # v
      BY <1>3, <3>1 DEF BasicInv, Births, Unheard
    <3>3. w # None
      BY ConstantsAssumption
    <3> QED
      BY <1>5, <1>6, <1>8, <3>2, <3>3, NoTaskFacts DEF Unheard, Gone
  <2>2. \A w \in Sample : creating'[w].pc = "new" /\ row'[NameOf[w]] # w
    BY <1>5, ConstantsAssumption DEF BasicInv, Births
  <2>3. \A u \in Username : row'[u] # None => NameOf[row'[u]] = u
    BY <1>5 DEF BasicInv, Births
  <2> QED
    BY <2>1, <2>2, <2>3 DEF Births
<1> QED
  BY <1>9, <1>10, <1>11 DEF BasicInv

LEMMA DeleteKeeps ==
    ASSUME BasicInv, NEW v \in Volunteer, NEW i \in Instance, Delete(v, i)
    PROVE  BasicInv'
<1> DEFINE t == [deleting[v] EXCEPT !.pc = "erasing", !.at = i]
<1>1. /\ deleting[v].pc = "new" /\ v \in byId[i]
      /\ deleting' = [deleting EXCEPT ![v] = t]
      /\ TakenOut(i, v)
      /\ UNCHANGED <<position, row, rowPosition, creating, changing, channel, disputed, raced, faults>>
  BY DEF Delete, postgres, ghosts
<1>2. t \in Task({"erasing"}) /\ t.pc = "erasing" /\ t.at = i
  BY DEF BasicInv, Types, OtherTypes, Task
<1> HIDE DEF t
<1>3. /\ deleting' \in [Volunteer -> Task({"erasing"})] /\ deleting'[v] = t
      /\ \A w \in Volunteer : w # v => deleting'[w] = deleting[w]
  BY <1>1, <1>2 DEF BasicInv, Types, OtherTypes
<1>4. /\ list' \in [Instance -> Seq(Volunteer)]
      /\ byName' \in [Instance -> [Username -> Volunteer \cup {None}]]
      /\ byId' \in [Instance -> SUBSET Volunteer]
      /\ Indexed'
      /\ \A j \in Instance : byId'[j] = IF j = i THEN byId[j] \ {v} ELSE byId[j]
  BY <1>1, TakenOutKeeps DEF BasicInv, Types
<1>5. Types'
  <2>1. MemoryTypes'
    BY <1>1, <1>4 DEF BasicInv, Types, MemoryTypes
  <2>2. OtherTypes'
    BY <1>1, <1>3 DEF BasicInv, Types, OtherTypes
  <2>3. Placed'
    BY <1>1, <1>2, <1>3 DEF BasicInv, Types, Placed
  <2> QED
    BY <2>1, <2>2, <2>3 DEF Types
<1>6. Births'
  <2>1. ASSUME NEW w \in Volunteer, ~Born(w)' PROVE Unheard(w)'
    <3>1. ~Born(w)
      BY <1>1, <2>1 DEF Born
    <3>2. Unheard(w) /\ w # v
      BY <1>1, <3>1 DEF BasicInv, Births, Unheard
    <3>3. \A j \in Instance : w \in byId'[j] => w \in byId[j]
      BY <1>4
    <3> QED
      BY <1>1, <1>3, <3>2, <3>3 DEF Unheard, Mentioned, Gone
  <2>2. \A w \in Sample : creating'[w].pc = "new" /\ row'[NameOf[w]] # w
    BY <1>1, ConstantsAssumption DEF BasicInv, Births
  <2>3. \A u \in Username : row'[u] # None => NameOf[row'[u]] = u
    BY <1>1 DEF BasicInv, Births
  <2> QED
    BY <2>1, <2>2, <2>3 DEF Births
<1> QED
  BY <1>4, <1>5, <1>6 DEF BasicInv

LEMMA EraseKeeps ==
    ASSUME BasicInv, NEW v \in Volunteer, Erase(v)
    PROVE  BasicInv'
<1> DEFINE t == [deleting[v] EXCEPT !.pc = "announcing"]
<1>1. /\ deleting[v].pc = "erasing"
      /\ deleting' = [deleting EXCEPT ![v] = t]
      /\ UNCHANGED <<list, byName, byId, position, creating, changing, channel, disputed, raced>>
  BY DEF Erase, memory, ghosts
<1>2. t \in Task({"erasing"}) /\ t.pc = "announcing" /\ t.at = deleting[v].at
  BY DEF BasicInv, Types, OtherTypes, Task
<1> HIDE DEF t
<1>3. /\ deleting' \in [Volunteer -> Task({"erasing"})] /\ deleting'[v] = t
      /\ \A w \in Volunteer : w # v => deleting'[w] = deleting[w]
  BY <1>1, <1>2 DEF BasicInv, Types, OtherTypes
<1>4. /\ row' \in [Username -> Volunteer \cup {None}] /\ faults' \in 0..MaxFaults
      /\ rowPosition' \in [Volunteer -> Position]
      /\ \A u \in Username : row'[u] \in {row[u], None}
      /\ \A w \in Volunteer : rowPosition'[w] \in {rowPosition[w], Initial}
  <2>1. CASE /\ row' = [row EXCEPT ![NameOf[v]] = IF @ = v THEN None ELSE @]
             /\ rowPosition' = [rowPosition EXCEPT ![v] = Initial]
             /\ UNCHANGED faults
    BY <2>1, ConstantsAssumption DEF BasicInv, Types, OtherTypes, Position
  <2>2. CASE faults < MaxFaults /\ faults' = faults + 1 /\ UNCHANGED postgres
    BY <2>2, ConstantsAssumption DEF BasicInv, Types, OtherTypes, postgres
  <2> QED
    BY <2>1, <2>2 DEF Erase
<1>5. Types'
  <2>1. MemoryTypes'
    BY <1>1 DEF BasicInv, Types, MemoryTypes
  <2>2. OtherTypes'
    BY <1>1, <1>3, <1>4 DEF BasicInv, Types, OtherTypes
  <2>3. Placed'
    BY <1>1, <1>2, <1>3 DEF BasicInv, Types, Placed
  <2> QED
    BY <2>1, <2>2, <2>3 DEF Types
<1>6. Indexed'
  BY <1>1 DEF BasicInv, Indexed, Listed
<1>7. Births'
  <2>0. \A w \in Volunteer : NameOf[w] \in Username /\ w # None
    BY ConstantsAssumption
  <2>1. ASSUME NEW w \in Volunteer, ~Born(w)' PROVE Unheard(w)'
    <3>1. ~Born(w)
      BY <1>1, <2>1 DEF Born
    <3>2. Unheard(w) /\ w # v
      BY <1>1, <3>1 DEF BasicInv, Births, Unheard, Gone
    <3>3. row'[NameOf[w]] \in {row[NameOf[w]], None}
      BY <1>4, <2>0
    <3> QED
      BY <1>1, <1>3, <1>4, <2>0, <3>2, <3>3 DEF Unheard, Mentioned, Gone
  <2>2. \A w \in Sample : creating'[w].pc = "new" /\ row'[NameOf[w]] # w
    BY <1>1, <1>4, <2>0, ConstantsAssumption DEF BasicInv, Births
  <2>3. \A u \in Username : row'[u] # None => NameOf[row'[u]] = u
    BY <1>4 DEF BasicInv, Births
  <2> QED
    BY <2>1, <2>2, <2>3 DEF Births
<1> QED
  BY <1>5, <1>6, <1>7 DEF BasicInv

LEMMA AnnounceDeletedKeeps ==
    ASSUME BasicInv, NEW v \in Volunteer, AnnounceDeleted(v)
    PROVE  BasicInv'
<1>0. deleting[v].pc = "announcing"
  BY DEF AnnounceDeleted
<1>1. PICK i \in Instance : i = deleting[v].at
  BY <1>0 DEF BasicInv, Types, Placed
<1> DEFINE m == Message("VOLUNTEER_DELETED", v, Initial)
<1>2. /\ deleting' = [deleting EXCEPT ![v] = Answered]
      /\ Publish(i, m)
      /\ UNCHANGED <<list, byName, byId, position, row, rowPosition, creating, changing,
                     disputed, raced, faults>>
  BY <1>1 DEF AnnounceDeleted, memory, postgres, ghosts
<1>3. /\ deleting' \in [Volunteer -> Task({"erasing"})] /\ deleting'[v] = Answered
      /\ \A w \in Volunteer : w # v => deleting'[w] = deleting[w]
  BY <1>2, NoTaskFacts DEF BasicInv, Types, OtherTypes
<1>4. m \in MessageType /\ m.id = v
  BY DEF Message, MessageType, Position
<1> HIDE DEF m
<1>5. /\ channel' \in [Instance -> Seq(MessageType)]
      /\ \A j \in Instance, w \in Volunteer : Mentioned(j, w)' => Mentioned(j, w) \/ w = v
  BY <1>2, <1>4, PublishFacts DEF BasicInv, Types, OtherTypes
<1>6. Types'
  <2>1. MemoryTypes'
    BY <1>2 DEF BasicInv, Types, MemoryTypes
  <2>2. OtherTypes'
    BY <1>2, <1>3, <1>5 DEF BasicInv, Types, OtherTypes
  <2>3. Placed'
    BY <1>2, <1>3, NoTaskFacts DEF BasicInv, Types, Placed
  <2> QED
    BY <2>1, <2>2, <2>3 DEF Types
<1>7. Indexed'
  BY <1>2 DEF BasicInv, Indexed, Listed
<1>8. Births'
  <2>1. ASSUME NEW w \in Volunteer, ~Born(w)' PROVE Unheard(w)'
    <3>1. ~Born(w)
      BY <1>2, <2>1 DEF Born
    <3>2. Unheard(w) /\ w # v
      BY <1>0, <3>1 DEF BasicInv, Births, Unheard, Gone
    <3> QED
      BY <1>2, <1>3, <1>5, <3>2 DEF Unheard, Gone
  <2>2. \A w \in Sample : creating'[w].pc = "new" /\ row'[NameOf[w]] # w
    BY <1>2, ConstantsAssumption DEF BasicInv, Births
  <2>3. \A u \in Username : row'[u] # None => NameOf[row'[u]] = u
    BY <1>2 DEF BasicInv, Births
  <2> QED
    BY <2>1, <2>2, <2>3 DEF Births
<1> QED
  BY <1>6, <1>7, <1>8 DEF BasicInv

LEMMA ReceiveKeeps ==
    ASSUME BasicInv, NEW i \in Instance, Receive(i)
    PROVE  BasicInv'
<1>1. /\ channel[i] # << >> /\ channel' = [channel EXCEPT ![i] = Tail(@)]
      /\ channel \in [Instance -> Seq(MessageType)]
      /\ UNCHANGED <<row, rowPosition, creating, changing, deleting, disputed, raced, faults>>
  BY DEF Receive, postgres, routes, ghosts, BasicInv, Types, OtherTypes
<1>2. /\ channel' \in [Instance -> Seq(MessageType)]
      /\ \A j \in Instance, w \in Volunteer : Mentioned(j, w)' => Mentioned(j, w)
      /\ Head(channel[i]) \in MessageType
      /\ 1 \in DOMAIN channel[i] /\ Head(channel[i]) = channel[i][1]
  BY <1>1, TakeFacts
<1>3. PICK v \in Volunteer : v = Head(channel[i]).id
  BY <1>2 DEF MessageType
<1>4. PICK p \in Position : p = Head(channel[i]).position
  BY <1>2 DEF MessageType
<1>5. Mentioned(i, v)
  BY <1>2, <1>3 DEF Mentioned
<1>6. /\ list' \in [Instance -> Seq(Volunteer)]
      /\ byName' \in [Instance -> [Username -> Volunteer \cup {None}]]
      /\ byId' \in [Instance -> SUBSET Volunteer]
      /\ Indexed'
      /\ \A j \in Instance, w \in Volunteer : w \in byId'[j] => w \in byId[j] \/ w = v
  <2>0. MemoryTypes /\ Indexed
    BY DEF BasicInv, Types
  <2>1. CASE v \notin byId[i] /\ Added(i, v)
    <3>1. /\ list' \in [Instance -> Seq(Volunteer)]
          /\ byName' \in [Instance -> [Username -> Volunteer \cup {None}]]
          /\ byId' \in [Instance -> SUBSET Volunteer]
          /\ Indexed'
          /\ \A j \in Instance : byId'[j] = IF j = i THEN byId[j] \cup {v} ELSE byId[j]
      BY <2>0, <2>1, AddedKeeps, Zenon
    <3> QED
      BY <3>1
  <2>2. CASE TakenOut(i, v)
    BY <2>0, <2>2, TakenOutKeeps
  <2>3. CASE UNCHANGED <<list, byName, byId>>
    BY <2>0, <2>3 DEF MemoryTypes, Indexed, Listed
  <2> QED
    BY <1>3, <2>1, <2>2, <2>3 DEF Receive, memory
<1>7. /\ position' \in [Instance -> [Volunteer -> Position]]
      /\ \A j \in Instance, w \in Volunteer : w # v => position'[j][w] = position[j][w]
  <2>1. position \in [Instance -> [Volunteer -> Position]]
    BY DEF BasicInv, Types, MemoryTypes
  <2>2. position' = [position EXCEPT ![i][v] = p] \/ position' = position
    BY <1>3, <1>4 DEF Receive, memory
  <2> QED
    BY <2>1, <2>2
<1>8. Types'
  <2>1. MemoryTypes'
    BY <1>6, <1>7 DEF MemoryTypes
  <2>2. OtherTypes'
    BY <1>1, <1>2 DEF BasicInv, Types, OtherTypes
  <2>3. Placed'
    BY <1>1 DEF BasicInv, Types, Placed
  <2> QED
    BY <2>1, <2>2, <2>3 DEF Types
<1>9. Births'
  <2>1. ASSUME NEW w \in Volunteer, ~Born(w)' PROVE Unheard(w)'
    <3>1. ~Born(w)
      BY <1>1, <2>1 DEF Born
    <3>2. Unheard(w) /\ w # v
      BY <1>5, <3>1 DEF BasicInv, Births, Unheard
    <3>3. \A j \in Instance :
            /\ w \in byId'[j] => w \in byId[j]
            /\ Mentioned(j, w)' => Mentioned(j, w)
            /\ position'[j][w] \in {position[j][w], Initial}
      BY <1>2, <1>6, <1>7, <3>2
    <3> QED
      BY <1>1, <3>2, <3>3 DEF Unheard, Gone
  <2>2. \A w \in Sample : creating'[w].pc = "new" /\ row'[NameOf[w]] # w
    BY <1>1, ConstantsAssumption DEF BasicInv, Births
  <2>3. \A u \in Username : row'[u] # None => NameOf[row'[u]] = u
    BY <1>1 DEF BasicInv, Births
  <2> QED
    BY <2>1, <2>2, <2>3 DEF Births
<1> QED
  BY <1>6, <1>8, <1>9 DEF BasicInv

LEMMA LoseKeeps ==
    ASSUME BasicInv, NEW i \in Instance, Lose(i)
    PROVE  BasicInv'
<1>1. /\ channel[i] # << >> /\ channel' = [channel EXCEPT ![i] = Tail(@)]
      /\ channel \in [Instance -> Seq(MessageType)]
      /\ UNCHANGED <<list, byName, byId, position, row, rowPosition, creating, changing, deleting,
                     disputed, raced>>
  BY DEF Lose, memory, postgres, routes, ghosts, BasicInv, Types, OtherTypes
<1>2. /\ channel' \in [Instance -> Seq(MessageType)]
      /\ \A j \in Instance, w \in Volunteer : Mentioned(j, w)' => Mentioned(j, w)
  BY <1>1, TakeFacts
<1>3. faults' \in 0..MaxFaults
  BY ConstantsAssumption DEF Lose, BasicInv, Types, OtherTypes
<1>4. Types'
  <2>1. MemoryTypes'
    BY <1>1 DEF BasicInv, Types, MemoryTypes
  <2>2. OtherTypes'
    BY <1>1, <1>2, <1>3 DEF BasicInv, Types, OtherTypes
  <2>3. Placed'
    BY <1>1 DEF BasicInv, Types, Placed
  <2> QED
    BY <2>1, <2>2, <2>3 DEF Types
<1>5. Indexed'
  BY <1>1 DEF BasicInv, Indexed, Listed
<1>6. Births'
  <2>1. ASSUME NEW w \in Volunteer, ~Born(w)' PROVE Unheard(w)'
    <3>1. Unheard(w)
      BY <1>1, <2>1 DEF BasicInv, Births, Born
    <3> QED
      BY <1>1, <1>2, <3>1 DEF Unheard, Gone
  <2>2. \A w \in Sample : creating'[w].pc = "new" /\ row'[NameOf[w]] # w
    BY <1>1, ConstantsAssumption DEF BasicInv, Births
  <2>3. \A u \in Username : row'[u] # None => NameOf[row'[u]] = u
    BY <1>1 DEF BasicInv, Births
  <2> QED
    BY <2>1, <2>2, <2>3 DEF Births
<1> QED
  BY <1>4, <1>5, <1>6 DEF BasicInv

LEMMA RestartKeeps ==
    ASSUME BasicInv, NEW i \in Instance, Restart(i)
    PROVE  BasicInv'
<1>1. /\ SampleList \in Seq(Volunteer) /\ IsInjective(SampleList) /\ ToSet(SampleList) = Sample
      /\ Sample \in SUBSET Volunteer
  BY SampleFacts, ConstantsAssumption
<1>2. /\ Rebuilt(SampleList) \in [Username -> Volunteer \cup {None}]
      /\ \A u \in Username : Rebuilt(SampleList)[u] # None =>
           Rebuilt(SampleList)[u] \in Sample /\ NameOf[Rebuilt(SampleList)[u]] = u
  BY <1>1, RebuiltFacts
<1>3. UNCHANGED <<row, rowPosition, disputed, raced>> /\ faults' \in 0..MaxFaults
  BY ConstantsAssumption DEF Restart, postgres, BasicInv, Types, OtherTypes
<1>4. /\ creating' \in [Volunteer -> Task({"writing", "written"})]
      /\ changing' \in [Change -> Task({"persisting"})]
      /\ deleting' \in [Volunteer -> Task({"erasing"})]
      /\ \A w \in Volunteer :
           /\ creating'[w] = IF creating[w].at = i THEN Answered ELSE creating[w]
           /\ deleting'[w] = IF deleting[w].at = i THEN Answered ELSE deleting[w]
      /\ \A c \in Change : changing'[c] = IF changing[c].at = i THEN Answered ELSE changing[c]
  BY NoTaskFacts DEF Restart, BasicInv, Types, OtherTypes
<1>5. /\ channel' \in [Instance -> Seq(MessageType)] /\ channel'[i] = << >>
      /\ \A j \in Instance : j # i => channel'[j] = channel[j]
  BY DEF Restart, BasicInv, Types, OtherTypes
<1>6. /\ list' \in [Instance -> Seq(Volunteer)]
      /\ byName' \in [Instance -> [Username -> Volunteer \cup {None}]]
      /\ byId' \in [Instance -> SUBSET Volunteer]
      /\ list'[i] = SampleList /\ byName'[i] = Rebuilt(SampleList) /\ byId'[i] = Sample
      /\ \A j \in Instance : j # i => list'[j] = list[j] /\ byName'[j] = byName[j] /\ byId'[j] = byId[j]
  BY <1>1, <1>2 DEF Restart, BasicInv, Types, MemoryTypes
<1>7. /\ position' \in [Instance -> [Volunteer -> Position]]
      /\ \A j \in Instance, w \in Volunteer : position'[j][w] \in {position[j][w], Initial}
  BY DEF Restart, BasicInv, Types, MemoryTypes, Position
<1>8. Types'
  <2>1. MemoryTypes'
    BY <1>6, <1>7 DEF MemoryTypes
  <2>2. OtherTypes'
    BY <1>3, <1>4, <1>5 DEF BasicInv, Types, OtherTypes
  <2>3. Placed'
    BY <1>4, NoTaskFacts DEF BasicInv, Types, Placed
  <2> QED
    BY <2>1, <2>2, <2>3 DEF Types
<1>9. Indexed'
  <2> SUFFICES ASSUME NEW j \in Instance
               PROVE  /\ IsInjective(list'[j]) /\ byId'[j] = ToSet(list'[j])
                      /\ \A u \in Username : byName'[j][u] # None =>
                           byName'[j][u] \in ToSet(list'[j]) /\ NameOf[byName'[j][u]] = u
    BY DEF Indexed, Listed
  <2>1. CASE j = i
    BY <1>1, <1>2, <1>6, <2>1
  <2>2. CASE j # i
    <3>1. list'[j] = list[j] /\ byName'[j] = byName[j] /\ byId'[j] = byId[j]
      BY <1>6, <2>2
    <3>2. /\ IsInjective(list[j]) /\ byId[j] = ToSet(list[j])
          /\ \A u \in Username : byName[j][u] # None =>
               byName[j][u] \in ToSet(list[j]) /\ NameOf[byName[j][u]] = u
      BY DEF BasicInv, Indexed, Listed
    <3> QED
      BY <3>1, <3>2
  <2> QED
    BY <2>1, <2>2
<1>10. Births'
  <2>1. ASSUME NEW w \in Volunteer, ~Born(w)' PROVE Unheard(w)'
    <3>1. w \notin Sample /\ creating'[w] = creating[w] /\ ~Born(w)
      BY <1>4, <2>1, NoTaskFacts DEF Born
    <3>2. Unheard(w)
      BY <3>1 DEF BasicInv, Births
    <3>3. \A j \in Instance : w \notin byId'[j]
      BY <1>6, <3>1, <3>2 DEF Unheard
    <3>4. \A j \in Instance : ~Mentioned(j, w)'
      BY <1>5, <3>2 DEF Unheard, Mentioned
    <3>5. ~Gone(w)'
      <4>1. deleting[w].pc = "new"
        BY <3>2 DEF Unheard, Gone
      <4>2. deleting[w].at = None
        BY <4>1 DEF BasicInv, Types, Placed
      <4> QED
        BY <1>4, <4>1, <4>2, ConstantsAssumption DEF Gone
    <3>6. \A c \in Change : changing'[c].of # w
      BY <1>4, <3>2, NoTaskFacts, ConstantsAssumption DEF Unheard
    <3>7. \A j \in Instance : position'[j][w] = Initial
      BY <1>7, <3>2 DEF Unheard
    <3> QED
      BY <1>3, <3>1, <3>2, <3>3, <3>4, <3>5, <3>6, <3>7 DEF Unheard
  <2>2. \A w \in Sample : creating'[w].pc = "new" /\ row'[NameOf[w]] # w
    <3> SUFFICES ASSUME NEW w \in Sample PROVE creating'[w].pc = "new" /\ row'[NameOf[w]] # w
      OBVIOUS
    <3>1. w \in Volunteer /\ creating[w].pc = "new" /\ row[NameOf[w]] # w
      BY <1>1 DEF BasicInv, Births
    <3>2. creating[w].at = None
      BY <3>1 DEF BasicInv, Types, Placed
    <3> QED
      BY <1>3, <1>4, <3>1, <3>2, ConstantsAssumption
  <2>3. \A u \in Username : row'[u] # None => NameOf[row'[u]] = u
    BY <1>3 DEF BasicInv, Births
  <2> QED
    BY <2>1, <2>2, <2>3 DEF Births
<1> QED
  BY <1>8, <1>9, <1>10 DEF BasicInv

LEMMA BasicStep == BasicInv /\ [Next]_vars => BasicInv'
<1> SUFFICES ASSUME BasicInv, [Next]_vars PROVE BasicInv'
  OBVIOUS
<1>1. CASE Next
  BY <1>1, CheckNameKeeps, WriteVolunteerKeeps, EnlistKeeps, AnnounceCreatedKeeps, UpdateKeeps,
     PersistKeeps, AnnounceUpdatedKeeps, DeleteKeeps, EraseKeeps, AnnounceDeletedKeeps,
     ReceiveKeeps, LoseKeeps, RestartKeeps DEF Next
<1>2. CASE UNCHANGED vars
  BY <1>2 DEF vars, BasicInv, Types, MemoryTypes, OtherTypes, Placed, Indexed, Listed, Births, Born,
              Unheard, Mentioned, Gone
<1> QED
  BY <1>1, <1>2

LEMMA BasicAlways == Spec => []BasicInv
  BY BasicInit, BasicStep, PTL DEF Spec

\* The types of the variables, and that no list names a volunteer twice: lists,
\* indexes, tasks, messages and table rows of sync_state() and the admin routes.
THEOREM TypeCorrect == Spec => []TypeOK
<1>1. BasicInv => TypeOK
  BY DEF BasicInv, Types, MemoryTypes, OtherTypes, Indexed, Position, TypeOK
<1> QED
  BY <1>1, BasicAlways, PTL

\* Neither index of auth.py outlives the list at any instance: whatever
\* creations, deletions, rebuilds, messages, losses and restarts overlap, an id a
\* route can act on is listed, and a username that can log in is that of a listed
\* volunteer.
THEOREM IndexesAlwaysFollow == Spec => []IndexesFollowList
<1>1. BasicInv => IndexesFollowList
  BY DEF BasicInv, Types, MemoryTypes, OtherTypes, Indexed, Position, TypeOK, IndexesFollowList
<1> QED
  BY <1>1, BasicAlways, PTL

----------------------------------------------------------------------------
(* What a step does to the messages about one volunteer.                    *)

SameMessages(v) ==
    \A i \in Instance :
        /\ Mentioned(i, v)' <=> Mentioned(i, v)
        /\ \A t : Sent(i, t, v)' <=> Sent(i, t, v)
        /\ CreatedOnce(i, v) => CreatedOnce(i, v)'
        /\ DeletedLater(i, v) => DeletedLater(i, v)'
        /\ \A p : ShownLater(i, v, p) => ShownLater(i, v, p)'

LEMMA SilentStep ==
    ASSUME channel' = channel, NEW v
    PROVE  SameMessages(v)
BY DEF SameMessages, Mentioned, Sent, CreatedOnce, DeletedLater, ShownLater

LEMMA PublishOther ==
    ASSUME channel \in [Instance -> Seq(MessageType)], NEW i \in Instance, NEW m \in MessageType,
           Publish(i, m), NEW v \in Volunteer, m.id # v
    PROVE  SameMessages(v)
<1> SUFFICES ASSUME NEW j \in Instance
             PROVE  /\ CreatedOnce(j, v) => CreatedOnce(j, v)'
                    /\ DeletedLater(j, v) => DeletedLater(j, v)'
                    /\ \A p : ShownLater(j, v, p) => ShownLater(j, v, p)'
  BY PublishFacts DEF SameMessages
<1>1. CASE j = i
  <2>1. channel'[j] = channel[j]
    BY <1>1, PublishFacts
  <2> QED
    BY <2>1 DEF CreatedOnce, DeletedLater, ShownLater
<1>2. CASE j # i
  <2>1. \A n \in DOMAIN channel[j] : n \in DOMAIN channel'[j] /\ channel'[j][n] = channel[j][n]
    BY <1>2, PublishFacts
  <2>2. \A n \in DOMAIN channel'[j] : channel'[j][n].id = v => n \in DOMAIN channel[j]
    <3>1. PICK k \in DOMAIN channel'[j] :
            channel'[j][k] = m /\ \A n \in DOMAIN channel'[j] : n \in DOMAIN channel[j] \/ n = k
      BY <1>2, PublishFacts
    <3> QED
      BY <3>1
  <2>3. CreatedOnce(j, v) => CreatedOnce(j, v)'
    BY <2>1, <2>2 DEF CreatedOnce
  <2>4. DeletedLater(j, v) => DeletedLater(j, v)'
    BY <2>1, <2>2 DEF DeletedLater
  <2>5. ASSUME NEW p, ShownLater(j, v, p) PROVE ShownLater(j, v, p)'
    BY <2>1, <2>2, <2>5 DEF ShownLater
  <2> QED
    BY <2>3, <2>4, <2>5
<1> QED
  BY <1>1, <1>2

\* The creation reaches all others, with the position the volunteer has.
LEMMA PublishCreated ==
    ASSUME channel \in [Instance -> Seq(MessageType)], NEW i \in Instance, NEW m \in MessageType,
           Publish(i, m), m.type = "VOLUNTEER_CREATED", NEW j \in Instance
    PROVE  /\ ~Sent(j, "VOLUNTEER_CREATED", m.id) => CreatedOnce(j, m.id)'
           /\ ShownLater(j, m.id, m.position) => ShownLater(j, m.id, m.position)'
<1> DEFINE v == m.id
<1>1. CASE j = i
  <2>1. channel'[j] = channel[j]
    BY <1>1, PublishFacts
  <2> QED
    BY <2>1 DEF CreatedOnce, ShownLater, Sent
<1>2. CASE j # i
  <2>1. \A n \in DOMAIN channel[j] : n \in DOMAIN channel'[j] /\ channel'[j][n] = channel[j][n]
    BY <1>2, PublishFacts
  <2>2. PICK k \in DOMAIN channel'[j] :
          channel'[j][k] = m /\ \A n \in DOMAIN channel'[j] : n \in DOMAIN channel[j] \/ n = k
    BY <1>2, PublishFacts
  <2>3. ~Sent(j, "VOLUNTEER_CREATED", v) => CreatedOnce(j, v)'
    BY <2>1, <2>2 DEF CreatedOnce, Sent
  <2>4. ShownLater(j, v, m.position) => ShownLater(j, v, m.position)'
    BY <2>1, <2>2 DEF ShownLater
  <2> QED
    BY <2>3, <2>4
<1> QED
  BY <1>1, <1>2

\* An update overrides what the creation said, a deletion ends it.
LEMMA PublishLater ==
    ASSUME channel \in [Instance -> Seq(MessageType)], NEW i \in Instance, NEW m \in MessageType,
           Publish(i, m), NEW j \in Instance, j # i
    PROVE  /\ m.type = "VOLUNTEER_UPDATED" /\ ~Sent(j, "VOLUNTEER_UPDATED", m.id) =>
                ShownLater(j, m.id, m.position)'
           /\ m.type = "VOLUNTEER_DELETED" => DeletedLater(j, m.id)'
           /\ m.type # "VOLUNTEER_CREATED" /\ CreatedOnce(j, m.id) => CreatedOnce(j, m.id)'
           /\ m.type # "VOLUNTEER_CREATED" /\ DeletedLater(j, m.id) => DeletedLater(j, m.id)'
<1>1. \A n \in DOMAIN channel[j] : n \in DOMAIN channel'[j] /\ channel'[j][n] = channel[j][n]
  BY PublishFacts
<1>2. PICK k \in DOMAIN channel'[j] :
        /\ channel'[j][k] = m
        /\ \A n \in DOMAIN channel'[j] : n \in DOMAIN channel[j] \/ n = k
        /\ \A n \in DOMAIN channel[j] : n < k
  <2>1. channel[j] \in Seq(MessageType) /\ channel'[j] = Append(channel[j], m)
    BY DEF Publish
  <2>2. Len(channel[j]) + 1 \in DOMAIN Append(channel[j], m)
    BY <2>1, AppendedFacts
  <2> QED
    BY <2>1, <2>2, AppendedFacts
<1>3. DOMAIN channel'[j] \subseteq Int
  <2>1. channel'[j] \in Seq(MessageType)
    BY PublishFacts
  <2> QED
    BY <2>1
<1>4. ASSUME m.type = "VOLUNTEER_UPDATED", ~Sent(j, "VOLUNTEER_UPDATED", m.id)
      PROVE  ShownLater(j, m.id, m.position)'
  <2> SUFFICES ASSUME NEW n \in DOMAIN channel'[j], channel'[j][n].id = m.id
               PROVE  /\ channel'[j][n].type = "VOLUNTEER_UPDATED" => channel'[j][n].position = m.position
                      /\ channel'[j][n].type = "VOLUNTEER_CREATED" =>
                           \E l \in DOMAIN channel'[j] :
                             l > n /\ channel'[j][l].type = "VOLUNTEER_UPDATED" /\ channel'[j][l].id = m.id
    BY DEF ShownLater
  <2>1. CASE n = k
    BY <1>2, <1>4, <2>1
  <2>2. CASE n # k
    <3>1. n \in DOMAIN channel[j] /\ channel[j][n] = channel'[j][n] /\ k > n
      BY <1>1, <1>2, <1>3, <2>2
    <3>2. channel[j][n].type # "VOLUNTEER_UPDATED"
      BY <1>4, <3>1 DEF Sent
    <3> QED
      BY <1>2, <1>4, <3>1, <3>2
  <2> QED
    BY <2>1, <2>2
<1>5. ASSUME m.type = "VOLUNTEER_DELETED" PROVE DeletedLater(j, m.id)'
  <2> SUFFICES ASSUME NEW n \in DOMAIN channel'[j], channel'[j][n].type = "VOLUNTEER_CREATED"
               PROVE  \E l \in DOMAIN channel'[j] :
                        l > n /\ channel'[j][l].type = "VOLUNTEER_DELETED" /\ channel'[j][l].id = m.id
    BY DEF DeletedLater
  <2>1. n # k /\ n \in DOMAIN channel[j] /\ k > n
    BY <1>2, <1>3, <1>5
  <2> QED
    BY <1>2, <1>5, <2>1
<1>6. ASSUME m.type # "VOLUNTEER_CREATED", CreatedOnce(j, m.id) PROVE CreatedOnce(j, m.id)'
  BY <1>1, <1>2, <1>6 DEF CreatedOnce
<1>7. ASSUME m.type # "VOLUNTEER_CREATED", DeletedLater(j, m.id) PROVE DeletedLater(j, m.id)'
  <2> SUFFICES ASSUME NEW n \in DOMAIN channel'[j],
                      channel'[j][n].type = "VOLUNTEER_CREATED", channel'[j][n].id = m.id
               PROVE  \E l \in DOMAIN channel'[j] :
                        l > n /\ channel'[j][l].type = "VOLUNTEER_DELETED" /\ channel'[j][l].id = m.id
    BY DEF DeletedLater
  <2>1. n \in DOMAIN channel[j] /\ channel[j][n] = channel'[j][n]
    BY <1>1, <1>2, <1>7
  <2>2. PICK l \in DOMAIN channel[j] :
          l > n /\ channel[j][l].type = "VOLUNTEER_DELETED" /\ channel[j][l].id = m.id
    BY <1>7, <2>1 DEF DeletedLater
  <2> QED
    BY <1>1, <2>2
<1> QED
  BY <1>4, <1>5, <1>6, <1>7

\* What is promised of the messages of a volunteer outlasts the first of them.
LEMMA TakeKeeps ==
    ASSUME channel \in [Instance -> Seq(MessageType)], NEW i \in Instance, channel[i] # << >>,
           channel' = [channel EXCEPT ![i] = Tail(@)], NEW v, NEW j \in Instance
    PROVE  /\ CreatedOnce(j, v) => CreatedOnce(j, v)'
           /\ DeletedLater(j, v) => DeletedLater(j, v)'
           /\ \A p : ShownLater(j, v, p) => ShownLater(j, v, p)'
<1>1. CASE j # i
  <2>1. channel'[j] = channel[j]
    BY <1>1, TakeFacts
  <2> QED
    BY <2>1 DEF CreatedOnce, DeletedLater, ShownLater
<1>2. CASE j = i
  <2>1. \A n \in DOMAIN channel'[i] : n + 1 \in DOMAIN channel[i] /\ channel'[i][n] = channel[i][n + 1]
    BY TakeFacts
  <2>2. \A n \in DOMAIN channel[i] :
          n = 1 \/ (n - 1 \in DOMAIN channel'[i] /\ channel'[i][n - 1] = channel[i][n])
    BY TakeFacts
  <2>3. DOMAIN channel[i] \subseteq Nat /\ DOMAIN channel'[i] \subseteq Nat /\ 0 \notin DOMAIN channel'[i]
    <3>1. channel'[i] \in Seq(MessageType)
      BY TakeFacts
    <3>2. DOMAIN channel'[i] = 1..Len(channel'[i])
      BY <3>1
    <3> QED
      BY <3>2, TakeFacts
  <2>4. CreatedOnce(i, v) => CreatedOnce(i, v)'
    <3> SUFFICES ASSUME CreatedOnce(i, v), NEW m \in DOMAIN channel'[i], NEW n \in DOMAIN channel'[i],
                        channel'[i][m].type = "VOLUNTEER_CREATED", channel'[i][m].id = v,
                        channel'[i][n].type = "VOLUNTEER_CREATED", channel'[i][n].id = v
                 PROVE  m = n
      BY DEF CreatedOnce
    <3>1. m + 1 = n + 1
      BY <2>1 DEF CreatedOnce
    <3> QED
      BY <2>3, <3>1
  <2>5. \A m \in DOMAIN channel'[i], n \in DOMAIN channel[i] : n > m + 1 =>
          n - 1 \in DOMAIN channel'[i] /\ channel'[i][n - 1] = channel[i][n] /\ n - 1 > m
    BY <2>2, <2>3
  <2>6. DeletedLater(i, v) => DeletedLater(i, v)'
    <3> SUFFICES ASSUME DeletedLater(i, v), NEW m \in DOMAIN channel'[i],
                        channel'[i][m].type = "VOLUNTEER_CREATED", channel'[i][m].id = v
                 PROVE  \E n \in DOMAIN channel'[i] :
                          n > m /\ channel'[i][n].type = "VOLUNTEER_DELETED" /\ channel'[i][n].id = v
      BY DEF DeletedLater
    <3>1. PICK n \in DOMAIN channel[i] :
            n > m + 1 /\ channel[i][n].type = "VOLUNTEER_DELETED" /\ channel[i][n].id = v
      BY <2>1 DEF DeletedLater
    <3> QED
      BY <2>5, <3>1
  <2>7. ASSUME NEW p, ShownLater(i, v, p) PROVE ShownLater(i, v, p)'
    <3> SUFFICES ASSUME NEW m \in DOMAIN channel'[i], channel'[i][m].id = v
                 PROVE  /\ channel'[i][m].type = "VOLUNTEER_UPDATED" => channel'[i][m].position = p
                        /\ channel'[i][m].type = "VOLUNTEER_CREATED" =>
                             \/ channel'[i][m].position = p
                             \/ \E n \in DOMAIN channel'[i] :
                                  n > m /\ channel'[i][n].type = "VOLUNTEER_UPDATED" /\ channel'[i][n].id = v
      BY DEF ShownLater
    <3>1. m + 1 \in DOMAIN channel[i] /\ channel'[i][m] = channel[i][m + 1] /\ channel[i][m + 1].id = v
      BY <2>1
    <3>2. /\ channel[i][m + 1].type = "VOLUNTEER_UPDATED" => channel[i][m + 1].position = p
          /\ channel[i][m + 1].type = "VOLUNTEER_CREATED" =>
               \/ channel[i][m + 1].position = p
               \/ \E n \in DOMAIN channel[i] :
                    n > m + 1 /\ channel[i][n].type = "VOLUNTEER_UPDATED" /\ channel[i][n].id = v
      BY <2>7, <3>1 DEF ShownLater
    <3> QED
      BY <2>5, <3>1, <3>2
  <2> QED
    BY <1>2, <2>4, <2>6, <2>7
<1> QED
  BY <1>1, <1>2

LEMMA TakeOther ==
    ASSUME channel \in [Instance -> Seq(MessageType)], NEW i \in Instance, channel[i] # << >>,
           channel' = [channel EXCEPT ![i] = Tail(@)], NEW v \in Volunteer, Head(channel[i]).id # v
    PROVE  SameMessages(v)
<1>1. ASSUME NEW j \in Instance
      PROVE  /\ Mentioned(j, v)' <=> Mentioned(j, v)
             /\ \A t : Sent(j, t, v)' <=> Sent(j, t, v)
  <2>1. CASE j # i
    <3>1. channel'[j] = channel[j]
      BY <2>1, TakeFacts
    <3> QED
      BY <3>1 DEF Mentioned, Sent
  <2>2. CASE j = i
    <3>1. ASSUME NEW n \in DOMAIN channel[i], channel[i][n].id = v PROVE Mentioned(i, v)'
      <4>1. n - 1 \in DOMAIN channel'[i] /\ channel'[i][n - 1] = channel[i][n]
        BY <3>1, TakeFacts
      <4> QED
        BY <3>1, <4>1 DEF Mentioned
    <3>2. Mentioned(i, v) => Mentioned(i, v)'
      BY <3>1 DEF Mentioned
    <3> QED
      BY <2>2, <3>2, TakeFacts
  <2> QED
    BY <2>1, <2>2
<1> QED
  BY <1>1, TakeKeeps DEF SameMessages

\* The first message is no creation any more once it is taken.
LEMMA TakeCreated ==
    ASSUME channel \in [Instance -> Seq(MessageType)], NEW i \in Instance, channel[i] # << >>,
           channel' = [channel EXCEPT ![i] = Tail(@)], NEW v \in Volunteer,
           Head(channel[i]).id = v, Head(channel[i]).type = "VOLUNTEER_CREATED"
    PROVE  /\ Sent(i, "VOLUNTEER_CREATED", v)
           /\ CreatedOnce(i, v) => ~Sent(i, "VOLUNTEER_CREATED", v)'
           /\ DeletedLater(i, v) => Sent(i, "VOLUNTEER_DELETED", v)'
           /\ \A p : ShownLater(i, v, p) =>
                Head(channel[i]).position = p \/ Sent(i, "VOLUNTEER_UPDATED", v)'
<1>1. 1 \in DOMAIN channel[i] /\ channel[i][1] = Head(channel[i])
  BY TakeFacts
<1>2. \A n \in DOMAIN channel'[i] : n + 1 \in DOMAIN channel[i] /\ channel'[i][n] = channel[i][n + 1]
  BY TakeFacts
<1>3. \A n \in DOMAIN channel[i] :
        n = 1 \/ (n - 1 \in DOMAIN channel'[i] /\ channel'[i][n - 1] = channel[i][n])
  BY TakeFacts
<1>4. 0 \notin DOMAIN channel'[i] /\ DOMAIN channel'[i] \subseteq Nat
  <2>1. channel'[i] \in Seq(MessageType)
    BY TakeFacts
  <2>2. DOMAIN channel'[i] = 1..Len(channel'[i])
    BY <2>1
  <2> QED
    BY <2>2
<1>5. Sent(i, "VOLUNTEER_CREATED", v)
  BY <1>1 DEF Sent
<1>6. ASSUME CreatedOnce(i, v), Sent(i, "VOLUNTEER_CREATED", v)' PROVE FALSE
  <2>1. PICK n \in DOMAIN channel'[i] :
          channel'[i][n].type = "VOLUNTEER_CREATED" /\ channel'[i][n].id = v
    BY <1>6 DEF Sent
  <2>2. n + 1 = 1
    BY <1>1, <1>2, <1>6, <2>1 DEF CreatedOnce
  <2> QED
    BY <1>4, <2>2
<1>7. ASSUME NEW t, NEW n \in DOMAIN channel[i], n > 1, channel[i][n].type = t, channel[i][n].id = v
      PROVE  Sent(i, t, v)'
  <2>1. n - 1 \in DOMAIN channel'[i] /\ channel'[i][n - 1] = channel[i][n]
    BY <1>3, <1>7
  <2> QED
    BY <1>7, <2>1 DEF Sent
<1>8. DeletedLater(i, v) => Sent(i, "VOLUNTEER_DELETED", v)'
  BY <1>1, <1>7 DEF DeletedLater
<1>9. ASSUME NEW p, ShownLater(i, v, p)
      PROVE  Head(channel[i]).position = p \/ Sent(i, "VOLUNTEER_UPDATED", v)'
  BY <1>1, <1>7, <1>9 DEF ShownLater
<1> QED
  BY <1>5, <1>6, <1>8, <1>9

----------------------------------------------------------------------------
(* Steps without a fault, and the volunteers they do not touch.             *)

Quiet == faults = 0 /\ faults' = 0 /\ disputed \subseteq disputed' /\ raced \subseteq raced'

Untouched(v) ==
    /\ creating'[v] = creating[v] /\ deleting'[v] = deleting[v]
    /\ row'[NameOf[v]] = v <=> row[NameOf[v]] = v
    /\ \A i \in Instance : v \in byId'[i] <=> v \in byId[i]
    /\ SameMessages(v)
    /\ \A c \in Change : changing'[c].of = v =>
         \/ changing[c].of = v /\ changing'[c].at = changing[c].at
         \/ changing'[c].at \in Instance /\ v \in byId[changing'[c].at]

Shelved(v) ==
    /\ \A i \in Instance : position'[i][v] = position[i][v]
    /\ rowPosition'[v] = rowPosition[v]
    /\ \A c \in Change : changing[c].of = v \/ changing'[c].of = v => changing'[c] = changing[c]

LEMMA LifeKept ==
    ASSUME Types, NEW v \in Volunteer, Untouched(v), Life(v)
    PROVE  Life(v)'
<1>1. creating'[v] = creating[v] /\ deleting'[v] = deleting[v] /\ (Gone(v)' <=> Gone(v))
  BY DEF Untouched, Gone
<1>2. ASSUME Living(v) PROVE Living(v)'
  <2>1. CASE creating[v].pc = "announcing"
    <3>1. creating[v].at \in Instance
      BY <2>1 DEF Types, Placed
    <3>2. PICK i \in Instance : i = creating[v].at
      BY <3>1
    <3>3. /\ v \in byId[i] /\ ~Mentioned(i, v) /\ \A j \in Instance : j # i => v \notin byId[j]
          /\ \A c \in Change : changing[c].of = v => changing[c].at = i
      BY <1>2, <2>1, <3>2 DEF Living, Unannounced
    <3>4. /\ v \in byId'[i] /\ ~Mentioned(i, v)' /\ \A j \in Instance : j # i => v \notin byId'[j]
          /\ \A c \in Change : changing'[c].of = v => changing'[c].at = i
      BY <3>3 DEF Untouched, SameMessages
    <3>5. Unannounced(v)'
      BY <1>1, <3>2, <3>4 DEF Unannounced
    <3> QED
      BY <1>1, <1>2, <2>1, <3>5 DEF Living, Untouched
  <2>2. CASE creating[v].pc # "announcing"
    <3>1. Announced(v)'
      BY <1>2, <2>2 DEF Living, Announced, Untouched, SameMessages
    <3> QED
      BY <1>1, <1>2, <2>2, <3>1 DEF Living, Untouched
  <2> QED
    BY <2>1, <2>2
<1>3. ASSUME Dying(v), Gone(v) PROVE Dying(v)'
  <2>1. CASE deleting[v].pc = "done"
    BY <1>1, <1>3, <2>1 DEF Dying, Untouched, SameMessages
  <2>2. CASE deleting[v].pc # "done"
    <3>1. deleting[v].at \in Instance
      BY <1>3, <2>2 DEF Types, Placed, Gone
    <3>2. PICK i \in Instance : i = deleting[v].at
      BY <3>1
    <3>3. v \notin byId'[i] /\ ~Sent(i, "VOLUNTEER_CREATED", v)'
      BY <1>3, <2>2, <3>2 DEF Dying, Untouched, SameMessages
    <3> QED
      BY <1>1, <1>3, <2>2, <3>2, <3>3 DEF Dying, Untouched
  <2> QED
    BY <2>1, <2>2
<1> QED
  BY <1>1, <1>2, <1>3 DEF Life

LEMMA ShownKept ==
    ASSUME Types, NEW v \in Volunteer, Untouched(v), Shelved(v), Shown(v)
    PROVE  Shown(v)'
<1>1. \A c \in Change : changing'[c].of = v <=> changing[c].of = v
  BY DEF Shelved
<1>2. ASSUME NEW c \in Change, changing'[c].of = v PROVE OneChange(c, v)'
  <2>1. changing[c].of = v /\ changing'[c] = changing[c]
    BY <1>2 DEF Shelved
  <2>2. v # None
    BY ConstantsAssumption
  <2>3. changing[c].at \in Instance
    BY <2>1, <2>2 DEF Types, Placed
  <2>4. PICK i \in Instance : i = changing[c].at
    BY <2>3
  <2>5. /\ \A d \in Change : changing[d].of = v => d = c
        /\ \A j \in Instance : ~Sent(j, "VOLUNTEER_UPDATED", v)
        /\ v \in byId[i] /\ position[i][v] = c
        /\ changing[c].pc = "announcing" =>
             changing[c].seen = c /\ (v \notin Sample => rowPosition[v] = c)
    BY <2>1, <2>4 DEF Shown, OneChange
  <2>6. /\ \A d \in Change : changing'[d].of = v => d = c
        /\ \A j \in Instance : ~Sent(j, "VOLUNTEER_UPDATED", v)'
        /\ v \in byId'[i] /\ position'[i][v] = c
        /\ changing'[c].pc = "announcing" =>
             changing'[c].seen = c /\ (v \notin Sample => rowPosition'[v] = c)
    BY <1>1, <2>1, <2>5 DEF Untouched, Shelved, SameMessages
  <2> QED
    BY <2>1, <2>4, <2>6 DEF OneChange
<1>3. ASSUME \A c \in Change : changing'[c].of # v
      PROVE  \E p \in Position :
               /\ v \notin Sample => rowPosition'[v] = p
               /\ \A i \in Instance : WillShow(i, v, p)'
  <2>1. PICK p \in Position :
          (v \notin Sample => rowPosition[v] = p) /\ \A i \in Instance : WillShow(i, v, p)
    BY <1>1, <1>3 DEF Shown
  <2>2. ASSUME NEW i \in Instance PROVE WillShow(i, v, p)'
    BY <2>1 DEF WillShow, Untouched, Shelved, SameMessages
  <2>3. v \notin Sample => rowPosition'[v] = p
    BY <2>1 DEF Shelved
  <2> QED
    BY <2>2, <2>3
<1> QED
  BY <1>2, <1>3 DEF Shown

LEMMA AnswersKept ==
    ASSUME NEW v \in Volunteer, Untouched(v), Answers(v)
    PROVE  Answers(v)'
BY DEF Answers, Untouched, SameMessages

LEMMA PromiseKept ==
    ASSUME Types, Quiet, NEW v \in Volunteer, Promised(v), Untouched(v), Shelved(v)
    PROVE  Promised(v)'
<1>1. /\ Fair(v)' => Fair(v)
      /\ v \notin raced' => v \notin raced
      /\ Born(v)' => Born(v)
      /\ ~Gone(v)' => ~Gone(v)
  BY DEF Quiet, Fair, Born, Gone, Untouched
<1>2. Answers(v)'
  BY AnswersKept DEF Promised, Quiet
<1>3. Fair(v)' /\ Born(v)' => Life(v)'
  BY <1>1, LifeKept DEF Promised
<1>4. Fair(v)' /\ v \notin raced' /\ Born(v)' /\ ~Gone(v)' => Shown(v)'
  BY <1>1, ShownKept DEF Promised
<1> QED
  BY <1>2, <1>3, <1>4 DEF Promised

\* Nothing is promised of a volunteer before it is enlisted.
LEMMA UnbornPromised ==
    ASSUME Births', NEW v \in Volunteer, ~Born(v)'
    PROVE  Promised(v)'
<1>1. Unheard(v)'
  BY DEF Births
<1>2. \A i \in Instance : ~Mentioned(i, v)'
  BY <1>1 DEF Unheard
<1>3. Answers(v)'
  BY <1>2 DEF Answers, Sent, Mentioned
<1> QED
  BY <1>3 DEF Promised

----------------------------------------------------------------------------
(* One owner of a username.                                                 *)

LEMMA OwnerKept ==
    ASSUME OneOwner, Quiet, \A v \in Volunteer : Alive(v)' => Alive(v),
           \A v \in Volunteer : Fair(v) /\ creating'[v].pc = "written" => row'[NameOf[v]] = v,
           \A v \in Volunteer, i \in Instance :
             Fair(v) /\ v \in byId'[i] => byName'[i][NameOf[v]] = v
    PROVE  OneOwner'
<1>1. \A v \in Volunteer : Fair(v)' => Fair(v)
  BY DEF Quiet, Fair
<1> SUFFICES ASSUME NEW v \in Volunteer, Fair(v)'
             PROVE  /\ \A w \in Volunteer : Alive(v)' /\ Alive(w)' /\ NameOf[v] = NameOf[w] => v = w
                    /\ creating'[v].pc = "written" => row'[NameOf[v]] = v
                    /\ \A i \in Instance : v \in byId'[i] => byName'[i][NameOf[v]] = v
  BY DEF OneOwner
<1>2. \A w \in Volunteer : Alive(v) /\ Alive(w) /\ NameOf[v] = NameOf[w] => v = w
  BY <1>1 DEF OneOwner
<1> QED
  BY <1>1, <1>2

LEMMA OwnerIndexSame ==
    ASSUME OneOwner, Quiet, \A v \in Volunteer : Alive(v)' => Alive(v),
           \A v \in Volunteer : Fair(v) /\ creating'[v].pc = "written" => row'[NameOf[v]] = v,
           byName' = byName, byId' = byId
    PROVE  OneOwner'
<1>1. \A v \in Volunteer, i \in Instance : Fair(v) /\ v \in byId'[i] => byName'[i][NameOf[v]] = v
  BY DEF OneOwner
<1> QED
  BY <1>1, OwnerKept

LEMMA OwnerAdded ==
    ASSUME BasicInv, OneOwner, Quiet, \A v \in Volunteer : Alive(v)' => Alive(v),
           \A v \in Volunteer : creating'[v].pc = "written" => creating[v].pc = "written",
           row' = row,
           NEW i \in Instance, NEW v \in Volunteer, Added(i, v), v \notin byId[i], Alive(v)
    PROVE  OneOwner'
<1>1. \A w \in Volunteer : Fair(w) /\ creating'[w].pc = "written" => row'[NameOf[w]] = w
  BY DEF OneOwner
<1>2. /\ \A j \in Instance : byId'[j] = IF j = i THEN byId[j] \cup {v} ELSE byId[j]
      /\ \A j \in Instance, u \in Username :
           byName'[j][u] = IF j = i /\ u = NameOf[v] THEN v ELSE byName[j][u]
  <2>1. MemoryTypes /\ Indexed
    BY DEF BasicInv, Types
  <2>2. \A j \in Instance : byId'[j] = IF j = i THEN byId[j] \cup {v} ELSE byId[j]
    BY <2>1 DEF Added, MemoryTypes
  <2>3. \A j \in Instance, u \in Username :
          byName'[j][u] = IF j = i /\ u = NameOf[v] THEN v ELSE byName[j][u]
    BY <2>1, AddedKeeps
  <2> QED
    BY <2>2, <2>3
<1>3. ASSUME NEW w \in Volunteer, NEW j \in Instance, Fair(w), w \in byId'[j]
      PROVE  byName'[j][NameOf[w]] = w
  <2>1. NameOf[w] \in Username
    BY ConstantsAssumption
  <2>2. CASE j = i /\ NameOf[w] = NameOf[v]
    <3>1. Alive(w)
      BY <1>2, <1>3 DEF Alive
    <3>2. w = v
      BY <1>3, <2>2, <3>1 DEF OneOwner
    <3> QED
      BY <1>2, <2>1, <2>2, <3>2
  <2>3. CASE ~(j = i /\ NameOf[w] = NameOf[v])
    <3>1. w \in byId[j] /\ byName'[j][NameOf[w]] = byName[j][NameOf[w]]
      BY <1>2, <1>3, <2>1, <2>3
    <3> QED
      BY <1>3, <3>1 DEF OneOwner
  <2> QED
    BY <2>2, <2>3
<1> QED
  BY <1>1, <1>3, OwnerKept

LEMMA OwnerTakenOut ==
    ASSUME BasicInv, OneOwner, Quiet, \A v \in Volunteer : Alive(v)' => Alive(v),
           \A v \in Volunteer : creating'[v].pc = "written" => creating[v].pc = "written",
           row' = row,
           NEW i \in Instance, NEW v \in Volunteer, TakenOut(i, v)
    PROVE  OneOwner'
<1>1. \A w \in Volunteer : Fair(w) /\ creating'[w].pc = "written" => row'[NameOf[w]] = w
  BY DEF OneOwner
<1>2. /\ \A j \in Instance : byId'[j] = IF j = i THEN byId[j] \ {v} ELSE byId[j]
      /\ \A j \in Instance, u \in Username :
           byName'[j][u] = IF j = i /\ u = NameOf[v] /\ byName[j][u] = v THEN None ELSE byName[j][u]
  <2>1. MemoryTypes /\ Indexed
    BY DEF BasicInv, Types
  <2>2. \A j \in Instance : byId'[j] = IF j = i THEN byId[j] \ {v} ELSE byId[j]
    BY <2>1, TakenOutKeeps, Zenon
  <2>3. \A j \in Instance, u \in Username :
          byName'[j][u] = IF j = i /\ u = NameOf[v] /\ byName[j][u] = v THEN None ELSE byName[j][u]
    BY <2>1, TakenOutKeeps
  <2> QED
    BY <2>2, <2>3
<1>3. ASSUME NEW w \in Volunteer, NEW j \in Instance, Fair(w), w \in byId'[j]
      PROVE  byName'[j][NameOf[w]] = w
  <2>1. NameOf[w] \in Username
    BY ConstantsAssumption
  <2>2. w \in byId[j] /\ (j = i => w # v)
    BY <1>2, <1>3
  <2>3. byName[j][NameOf[w]] = w
    BY <1>3, <2>2 DEF OneOwner
  <2> QED
    BY <1>2, <2>1, <2>2, <2>3
<1> QED
  BY <1>1, <1>3, OwnerKept

\* A username that is not in use has no owner.
LEMMA NotInUse ==
    ASSUME Types, NEW w \in Volunteer, ~InUse(NameOf[w])
    PROVE  ~Alive(w)
<1>1. w # None
  BY ConstantsAssumption
<1>2. \A i \in Instance : ~Sent(i, "VOLUNTEER_CREATED", w)
  BY DEF InUse, Sent
<1> QED
  BY <1>1, <1>2 DEF InUse, Alive

----------------------------------------------------------------------------
(* The creation of a volunteer.                                             *)

LEMMA CheckNameAgrees ==
    ASSUME BasicInv, BasicInv', AgreementInv, Quiet, NEW v \in Volunteer, NEW i \in Instance,
           CheckName(v, i)
    PROVE  AgreementInv'
<1>1. /\ v \notin Sample /\ creating[v].pc = "new"
      /\ creating' = [creating EXCEPT ![v].pc = "writing", ![v].at = i]
      /\ UNCHANGED <<list, byName, byId, position, row, rowPosition, changing, deleting, channel>>
  BY DEF CheckName, memory, postgres
<1>2. creating'[v].pc = "writing" /\ \A w \in Volunteer : w # v => creating'[w] = creating[w]
  BY <1>1 DEF BasicInv, Types, OtherTypes, Task
<1>3. ASSUME NEW w \in Volunteer, Alive(w)' PROVE Alive(w) \/ w = v
  BY <1>1, <1>2, <1>3 DEF Alive, Sent
<1>4. OneOwner'
  <2> SUFFICES ASSUME NEW x \in Volunteer, Fair(x)'
               PROVE  /\ \A w \in Volunteer : Alive(x)' /\ Alive(w)' /\ NameOf[x] = NameOf[w] => x = w
                      /\ creating'[x].pc = "written" => row'[NameOf[x]] = x
                      /\ \A j \in Instance : x \in byId'[j] => byName'[j][NameOf[x]] = x
    BY DEF OneOwner
  <2>1. Fair(x)
    BY DEF Fair, Quiet
  <2>2. ASSUME NEW w \in Volunteer, Alive(x)', Alive(w)', NameOf[x] = NameOf[w] PROVE x = w
    <3>1. CASE InUse(NameOf[v])
      <4>1. disputed' = disputed \cup {NameOf[v]}
        BY <3>1 DEF CheckName
      <4>2. x # v /\ w # v
        BY <2>2, <4>1 DEF Fair
      <4> QED
        BY <1>3, <2>1, <2>2, <4>2 DEF AgreementInv, OneOwner
    <3>2. CASE ~InUse(NameOf[v])
      <4>1. NameOf[x] = NameOf[v] => ~Alive(x) /\ ~Alive(w)
        BY <2>2, <3>2, NotInUse DEF BasicInv
      <4>2. CASE NameOf[x] = NameOf[v]
        BY <1>3, <2>2, <4>1, <4>2
      <4>3. CASE NameOf[x] # NameOf[v]
        BY <1>3, <2>1, <2>2, <4>3 DEF AgreementInv, OneOwner
      <4> QED
        BY <4>2, <4>3
    <3> QED
      BY <3>1, <3>2
  <2>3. creating'[x].pc = "written" => row'[NameOf[x]] = x
    BY <1>1, <1>2, <2>1 DEF AgreementInv, OneOwner
  <2>4. \A j \in Instance : x \in byId'[j] => byName'[j][NameOf[x]] = x
    BY <1>1, <2>1 DEF AgreementInv, OneOwner
  <2> QED
    BY <2>2, <2>3, <2>4
<1>5. Promised(v)'
  <2>1. ~Born(v)' /\ Births'
    BY <1>1, <1>2 DEF Born, BasicInv
  <2> QED
    BY <2>1, UnbornPromised
<1>6. ASSUME NEW w \in Volunteer, w # v PROVE Promised(w)'
  <2>1. Untouched(w) /\ Shelved(w)
    BY <1>1, <1>2, <1>6, SilentStep DEF Untouched, Shelved
  <2> QED
    BY <2>1, PromiseKept DEF AgreementInv, BasicInv
<1> QED
  BY <1>4, <1>5, <1>6 DEF AgreementInv

LEMMA WriteVolunteerAgrees ==
    ASSUME BasicInv, BasicInv', AgreementInv, Quiet, NEW v \in Volunteer, WriteVolunteer(v)
    PROVE  AgreementInv'
<1>1. /\ creating[v].pc = "writing"
      /\ creating' = [creating EXCEPT ![v].pc = "written"]
      /\ row' = [row EXCEPT ![NameOf[v]] = IF @ = None THEN v ELSE @]
      /\ UNCHANGED <<list, byName, byId, position, rowPosition, changing, deleting, channel, disputed>>
  BY DEF WriteVolunteer, memory, ghosts, Quiet
<1>2. creating'[v].pc = "written" /\ \A w \in Volunteer : w # v => creating'[w] = creating[w]
  BY <1>1 DEF BasicInv, Types, OtherTypes, Task
<1>3. /\ v # None /\ NameOf[v] \in Username
      /\ \A w \in Volunteer : w # None /\ NameOf[w] \in Username
      /\ v \notin Sample
  BY <1>1, ConstantsAssumption DEF BasicInv, Births
<1>4. \A u \in Username : row'[u] = IF u = NameOf[v] /\ row[u] = None THEN v ELSE row[u]
  BY <1>1, <1>3 DEF BasicInv, Types, OtherTypes
<1>5. \A w \in Volunteer : w # v => (row'[NameOf[w]] = w <=> row[NameOf[w]] = w)
  BY <1>3, <1>4
<1>6. ASSUME NEW w \in Volunteer, Alive(w)' PROVE Alive(w)
  BY <1>1, <1>2, <1>5, <1>6 DEF Alive, Sent
<1>7. ASSUME NEW w \in Volunteer, Fair(w), creating'[w].pc = "written" PROVE row'[NameOf[w]] = w
  <2>1. CASE w # v
    BY <1>2, <1>5, <1>7, <2>1 DEF AgreementInv, OneOwner
  <2>2. CASE w = v
    <3>1. CASE row[NameOf[v]] = None
      BY <1>3, <1>4, <2>2, <3>1
    <3>2. CASE row[NameOf[v]] # None
      <4>1. PICK x \in Volunteer : x = row[NameOf[v]]
        BY <1>3, <3>2 DEF BasicInv, Types, OtherTypes
      <4>2. NameOf[x] = NameOf[v]
        BY <1>3, <3>2, <4>1 DEF BasicInv, Births
      <4>3. Alive(x) /\ Alive(v)
        BY <1>1, <4>1, <4>2 DEF Alive
      <4>4. x = v
        BY <1>7, <2>2, <4>2, <4>3 DEF AgreementInv, OneOwner
      <4> QED
        BY <1>3, <1>4, <2>2, <4>1, <4>4
    <3> QED
      BY <3>1, <3>2
  <2> QED
    BY <2>1, <2>2
<1>8. OneOwner'
  BY <1>1, <1>6, <1>7, OwnerIndexSame DEF AgreementInv
<1>9. Promised(v)'
  <2>1. ~Born(v)' /\ Births'
    BY <1>2, <1>3 DEF Born, BasicInv
  <2> QED
    BY <2>1, UnbornPromised
<1>10. ASSUME NEW w \in Volunteer, w # v PROVE Promised(w)'
  <2>1. Untouched(w) /\ Shelved(w)
    BY <1>1, <1>2, <1>5, <1>10, SilentStep DEF Untouched, Shelved
  <2> QED
    BY <2>1, PromiseKept DEF AgreementInv, BasicInv
<1> QED
  BY <1>8, <1>9, <1>10 DEF AgreementInv

LEMMA EnlistAgrees ==
    ASSUME BasicInv, BasicInv', AgreementInv, Quiet, NEW v \in Volunteer, Enlist(v)
    PROVE  AgreementInv'
<1>1. /\ creating[v].pc = "written"
      /\ creating' = [creating EXCEPT ![v].pc = "announcing"]
      /\ UNCHANGED <<position, row, rowPosition, changing, deleting, channel, disputed>>
  BY DEF Enlist, postgres, ghosts
<1>2. PICK i \in Instance : i = creating[v].at
  BY <1>1 DEF BasicInv, Types, Placed
<1>3. /\ creating'[v].pc = "announcing" /\ creating'[v].at = i
      /\ \A w \in Volunteer : w # v => creating'[w] = creating[w]
  BY <1>1, <1>2 DEF BasicInv, Types, OtherTypes, Task
<1>4. Added(i, v)
  BY <1>2 DEF Enlist
<1>5. Unheard(v) /\ v \notin Sample
  BY <1>1 DEF BasicInv, Births, Born
<1>6. \A j \in Instance : byId'[j] = IF j = i THEN byId[j] \cup {v} ELSE byId[j]
  BY <1>4 DEF Added, BasicInv, Types, MemoryTypes
<1>7. Alive(v)
  BY <1>1 DEF Alive
<1>8. ASSUME NEW w \in Volunteer, Alive(w)' PROVE Alive(w)
  <2>1. CASE w = v
    BY <1>7, <2>1
  <2>2. CASE w # v
    <3>1. \A j \in Instance : w \in byId'[j] => w \in byId[j]
      BY <1>6, <2>2
    <3>2. \A j \in Instance : Sent(j, "VOLUNTEER_CREATED", w)' => Sent(j, "VOLUNTEER_CREATED", w)
      BY <1>1 DEF Sent
    <3>3. creating'[w] = creating[w] /\ row' = row
      BY <1>1, <1>3, <2>2
    <3> QED
      BY <1>8, <3>1, <3>2, <3>3 DEF Alive
  <2> QED
    BY <2>1, <2>2
<1>9. OneOwner'
  <2>1. v \notin byId[i] /\ row' = row
    BY <1>1, <1>5 DEF Unheard
  <2>2. \A w \in Volunteer : creating'[w].pc = "written" => creating[w].pc = "written"
    BY <1>3
  <2>3. OneOwner
    BY DEF AgreementInv
  <2> QED
    BY <1>4, <1>7, <1>8, <2>1, <2>2, <2>3, OwnerAdded
<1>10. Promised(v)'
  <2>1. ~Gone(v)'
    BY <1>1, <1>5 DEF Unheard, Gone
  <2>2. \A j \in Instance : ~Mentioned(j, v)' /\ v \notin byId[j] /\ position'[j][v] = Initial
    BY <1>1, <1>5 DEF Unheard, Mentioned
  <2>3. \A c \in Change : changing'[c].of # v
    BY <1>1, <1>5 DEF Unheard
  <2>4. Answers(v)'
    BY <2>2 DEF Answers, Sent, Mentioned
  <2>5. ASSUME Fair(v)' PROVE Living(v)'
    <3>1. row'[NameOf[v]] = v
      BY <1>1, <2>5 DEF AgreementInv, OneOwner, Fair, Quiet
    <3>2. Unannounced(v)'
      BY <1>3, <1>6, <2>2, <2>3 DEF Unannounced
    <3> QED
      BY <1>3, <3>1, <3>2 DEF Living
  <2>6. Shown(v)'
    <3>1. rowPosition'[v] = Initial
      BY <1>1, <1>5 DEF Unheard
    <3>2. ASSUME NEW j \in Instance PROVE WillShow(j, v, Initial)'
      BY <2>2 DEF WillShow, ShownLater, Mentioned
    <3>3. Initial \in Position
      BY DEF Position
    <3> QED
      BY <2>3, <3>1, <3>2, <3>3 DEF Shown
  <2> QED
    BY <2>1, <2>4, <2>5, <2>6 DEF Promised, Life
<1>11. ASSUME NEW w \in Volunteer, w # v PROVE Promised(w)'
  <2>1. \A j \in Instance : w \in byId'[j] <=> w \in byId[j]
    BY <1>6, <1>11
  <2>2. Untouched(w) /\ Shelved(w)
    BY <1>1, <1>3, <1>11, <2>1, SilentStep DEF Untouched, Shelved
  <2> QED
    BY <2>2, PromiseKept DEF AgreementInv, BasicInv
<1> QED
  BY <1>9, <1>10, <1>11 DEF AgreementInv

LEMMA AnnounceCreatedAgrees ==
    ASSUME BasicInv, BasicInv', AgreementInv, Quiet, NEW v \in Volunteer, AnnounceCreated(v)
    PROVE  AgreementInv'
<1>1. creating[v].pc = "announcing"
  BY DEF AnnounceCreated
<1>2. PICK i \in Instance : i = creating[v].at
  BY <1>1 DEF BasicInv, Types, Placed
<1>3. PICK p \in Position : p = position[i][v]
  BY DEF BasicInv, Types, MemoryTypes
<1> DEFINE m == Message("VOLUNTEER_CREATED", v, p)
<1>4. /\ creating' = [creating EXCEPT ![v] = Answered]
      /\ Publish(i, m)
      /\ UNCHANGED <<list, byName, byId, position, row, rowPosition, changing, deleting>>
  BY <1>2, <1>3 DEF AnnounceCreated, memory, postgres
<1>5. m \in MessageType /\ m.id = v /\ m.type = "VOLUNTEER_CREATED" /\ m.position = p
  BY DEF Message, MessageType
<1> HIDE DEF m
<1>6. channel \in [Instance -> Seq(MessageType)]
  BY DEF BasicInv, Types, OtherTypes
<1>7. creating'[v].pc = "done" /\ \A w \in Volunteer : w # v => creating'[w] = creating[w]
  BY <1>4, NoTaskFacts DEF BasicInv, Types, OtherTypes
<1>8. \A j \in Instance, w \in Volunteer : \A t :
        Sent(j, t, w)' <=> Sent(j, t, w) \/ (j # i /\ v = w /\ t = "VOLUNTEER_CREATED")
  BY <1>4, <1>5, <1>6, PublishFacts
<1>9. ASSUME NEW w \in Volunteer, Alive(w)' PROVE Alive(w)
  <2>1. CASE w = v
    BY <1>1, <2>1 DEF Alive
  <2>2. CASE w # v
    <3>1. \A j \in Instance : Sent(j, "VOLUNTEER_CREATED", w)' => Sent(j, "VOLUNTEER_CREATED", w)
      BY <1>8, <2>2
    <3> QED
      BY <1>4, <1>7, <1>9, <2>2, <3>1 DEF Alive
  <2> QED
    BY <2>1, <2>2
<1>10. OneOwner'
  <2>1. \A w \in Volunteer : Fair(w) /\ creating'[w].pc = "written" => row'[NameOf[w]] = w
    BY <1>4, <1>7 DEF AgreementInv, OneOwner
  <2> QED
    BY <1>4, <1>9, <2>1, OwnerIndexSame DEF AgreementInv
<1>11. Answers(v)
  BY DEF AgreementInv, Promised, Quiet
<1>12. Answers(v)'
  <2>1. \A j \in Instance : Sent(j, "VOLUNTEER_DELETED", v)' => deleting'[v].pc = "done"
    BY <1>4, <1>8, <1>11 DEF Answers
  <2> QED
    BY <1>7, <2>1 DEF Answers
<1>13. Promised(v)'
  <2>1. CASE Gone(v)
    <3>1. ~Fair(v)'
      BY <2>1 DEF AnnounceCreated, Fair
    <3> QED
      BY <1>12, <3>1 DEF Promised
  <2>2. CASE ~Gone(v)
    <3>1. ~Gone(v)'
      BY <1>4, <2>2 DEF Gone
    <3>2. SUFFICES ASSUME Fair(v)' PROVE Living(v)' /\ (v \notin raced' => Shown(v)')
      BY <1>12, <3>1 DEF Promised, Life
    <3>3. Fair(v) /\ Born(v)
      BY <1>1, <3>2 DEF Fair, Quiet, Born
    <3>4. Living(v)
      BY <2>2, <3>3 DEF AgreementInv, Promised, Life
    <3>5. v \in byId[i] /\ ~Mentioned(i, v) /\ \A j \in Instance : j # i => v \notin byId[j]
      BY <1>1, <1>2, <3>4 DEF Living, Unannounced
    <3>6. \A j \in Instance : ~Sent(j, "VOLUNTEER_CREATED", v)
      BY <1>1, <1>11 DEF Answers
    <3>7. \A j \in Instance : CreatedOnce(j, v)'
      BY <1>4, <1>5, <1>6, <3>6, PublishCreated
    <3>8. Announced(v)'
      BY <1>4, <1>8, <3>5, <3>6, <3>7 DEF Announced
    <3>9. Living(v)'
      BY <1>4, <1>7, <3>4, <3>8 DEF Living
    <3>10. ASSUME v \notin raced' PROVE Shown(v)'
      <4>1. Shown(v)
        BY <2>2, <3>3, <3>10 DEF AgreementInv, Promised, Quiet
      <4>2. ASSUME NEW c \in Change, changing'[c].of = v PROVE OneChange(c, v)'
        <5>1. OneChange(c, v)
          BY <1>4, <4>1, <4>2 DEF Shown
        <5>2. \A j \in Instance : ~Sent(j, "VOLUNTEER_UPDATED", v)'
          BY <1>8, <5>1 DEF OneChange
        <5> QED
          BY <1>4, <5>1, <5>2 DEF OneChange
      <4>3. ASSUME \A c \in Change : changing'[c].of # v
            PROVE  /\ v \notin Sample => rowPosition'[v] = p
                   /\ \A j \in Instance : WillShow(j, v, p)'
        <5>1. PICK q \in Position :
                (v \notin Sample => rowPosition[v] = q) /\ \A j \in Instance : WillShow(j, v, q)
          BY <1>4, <4>1, <4>3 DEF Shown
        <5>2. ~Sent(i, "VOLUNTEER_UPDATED", v)
          BY <3>5 DEF Sent, Mentioned
        <5>3. q = p
          BY <1>3, <3>5, <5>1, <5>2 DEF WillShow
        <5>4. ASSUME NEW j \in Instance PROVE WillShow(j, v, p)'
          <6>1. ShownLater(j, v, p)
            BY <5>1, <5>3 DEF WillShow
          <6>2. ShownLater(j, v, p)'
            BY <1>4, <1>5, <1>6, <6>1, PublishCreated
          <6>3. v \in byId'[j] => position'[j][v] = p
            BY <1>3, <1>4, <3>5
          <6> QED
            BY <6>2, <6>3 DEF WillShow
        <5> QED
          BY <1>4, <5>1, <5>3, <5>4
      <4> QED
        BY <4>2, <4>3 DEF Shown
    <3> QED
      BY <3>9, <3>10
  <2> QED
    BY <2>1, <2>2
<1>14. ASSUME NEW w \in Volunteer, w # v PROVE Promised(w)'
  <2>1. SameMessages(w)
    BY <1>4, <1>5, <1>6, <1>14, PublishOther
  <2>2. Untouched(w) /\ Shelved(w)
    BY <1>4, <1>7, <1>14, <2>1 DEF Untouched, Shelved
  <2> QED
    BY <2>2, PromiseKept DEF AgreementInv, BasicInv
<1> QED
  BY <1>10, <1>13, <1>14 DEF AgreementInv

----------------------------------------------------------------------------
(* The changes of a volunteer.                                              *)

LEMMA UpdateAgrees ==
    ASSUME BasicInv, BasicInv', AgreementInv, Quiet, NEW c \in Change, NEW v \in Volunteer,
           NEW i \in Instance, Update(c, v, i)
    PROVE  AgreementInv'
<1> DEFINE t == [NoTask EXCEPT !.pc = "persisting", !.at = i, !.of = v]
<1>1. /\ changing[c].pc = "new" /\ v \in byId[i]
      /\ changing' = [changing EXCEPT ![c] = t]
      /\ position' = [position EXCEPT ![i][v] = c]
      /\ raced' = IF Unsettled(v) THEN raced \cup {v} ELSE raced
      /\ UNCHANGED <<list, byName, byId, row, rowPosition, creating, deleting, channel, disputed>>
  BY DEF Update, postgres
<1>2. t.pc = "persisting" /\ t.at = i /\ t.of = v
  BY DEF NoTask
<1> HIDE DEF t
<1>3. changing'[c] = t /\ \A d \in Change : d # c => changing'[d] = changing[d]
  BY <1>1 DEF BasicInv, Types, OtherTypes
<1>4. changing[c].of = None /\ v # None /\ \A w \in Volunteer : w # None
  BY <1>1, ConstantsAssumption DEF BasicInv, Types, Placed
<1>5. \A j \in Instance, w \in Volunteer :
        position'[j][w] = IF j = i /\ w = v THEN c ELSE position[j][w]
  BY <1>1 DEF BasicInv, Types, MemoryTypes
<1>6. OneOwner'
  <2>1. \A w \in Volunteer : Alive(w)' => Alive(w)
    BY <1>1 DEF Alive, Sent
  <2>2. \A w \in Volunteer : Fair(w) /\ creating'[w].pc = "written" => row'[NameOf[w]] = w
    BY <1>1 DEF AgreementInv, OneOwner
  <2> QED
    BY <1>1, <2>1, <2>2, OwnerIndexSame DEF AgreementInv
<1>7. ASSUME NEW w \in Volunteer PROVE Untouched(w)
  <2>1. ASSUME NEW d \in Change, changing'[d].of = w
        PROVE  \/ changing[d].of = w /\ changing'[d].at = changing[d].at
               \/ changing'[d].at \in Instance /\ w \in byId[changing'[d].at]
    BY <1>1, <1>2, <1>3, <2>1
  <2> QED
    BY <1>1, <2>1, SilentStep DEF Untouched
<1>8. Promised(v)'
  <2>1. Answers(v)'
    BY <1>7, AnswersKept DEF AgreementInv, Promised, Quiet
  <2>2. Fair(v)' /\ Born(v)' => Life(v)'
    BY <1>1, <1>7, LifeKept DEF AgreementInv, Promised, BasicInv, Fair, Quiet, Born
  <2>3. ASSUME v \notin raced' PROVE Shown(v)'
    <3>1. ~Unsettled(v)
      BY <1>1, <2>3
    <3>2. \A d \in Change : changing[d].of # v
      BY <1>4, <3>1 DEF Unsettled, BasicInv, Types, Placed
    <3>3. \A d \in Change : changing'[d].of = v => d = c
      BY <1>3, <3>2
    <3>4. \A j \in Instance : ~Sent(j, "VOLUNTEER_UPDATED", v)'
      BY <1>1, <3>1 DEF Unsettled, Sent
    <3>5. changing'[c].at = i /\ changing'[c].pc = "persisting" /\ changing'[c].of = v
      BY <1>2, <1>3
    <3>6. v \in byId'[i] /\ position'[i][v] = c
      BY <1>1, <1>5
    <3>7. OneChange(c, v)'
      BY <3>3, <3>4, <3>5, <3>6 DEF OneChange
    <3> QED
      BY <3>3, <3>5, <3>7 DEF Shown
  <2> QED
    BY <2>1, <2>2, <2>3 DEF Promised
<1>9. ASSUME NEW w \in Volunteer, w # v PROVE Promised(w)'
  <2>1. \A d \in Change : changing[d].of = w \/ changing'[d].of = w => changing'[d] = changing[d]
    BY <1>2, <1>3, <1>4, <1>9
  <2>2. Shelved(w)
    BY <1>1, <1>5, <1>9, <2>1 DEF Shelved
  <2> QED
    BY <1>7, <2>2, PromiseKept DEF AgreementInv, BasicInv
<1> QED
  BY <1>6, <1>8, <1>9 DEF AgreementInv

LEMMA PersistAgrees ==
    ASSUME BasicInv, BasicInv', AgreementInv, Quiet, NEW c \in Change, Persist(c)
    PROVE  AgreementInv'
<1>0. changing[c].pc = "persisting"
  BY DEF Persist
<1>1. changing[c].at \in Instance /\ changing[c].of \in Volunteer
  BY <1>0 DEF BasicInv, Types, Placed
<1>2. PICK i \in Instance : i = changing[c].at
  BY <1>1
<1>3. PICK v \in Volunteer : v = changing[c].of
  BY <1>1
<1> DEFINE t == [changing[c] EXCEPT !.pc = "announcing", !.seen = position[i][v]]
<1>4. /\ changing' = [changing EXCEPT ![c] = t]
      /\ rowPosition' = IF row[NameOf[v]] = v THEN [rowPosition EXCEPT ![v] = c] ELSE rowPosition
      /\ UNCHANGED <<list, position, row, creating, deleting, channel, disputed, raced>>
  <2>1. /\ changing' = [changing EXCEPT ![c] = t]
        /\ UNCHANGED <<list, position, row, creating, deleting, channel, disputed, raced>>
    BY <1>2, <1>3 DEF Persist, ghosts
  <2>2. ~(faults' = faults + 1)
    BY DEF Quiet
  <2>3. rowPosition' = IF row[NameOf[v]] = v THEN [rowPosition EXCEPT ![v] = c] ELSE rowPosition
    BY <1>2, <1>3, <2>2 DEF Persist
  <2> QED
    BY <2>1, <2>3
<1>5. t.pc = "announcing" /\ t.at = i /\ t.of = v /\ t.seen = position[i][v]
  <2>1. changing[c] \in Task({"persisting"})
    BY DEF BasicInv, Types, OtherTypes
  <2> QED
    BY <1>2, <1>3, <2>1 DEF Task
<1> HIDE DEF t
<1>6. changing'[c] = t /\ \A d \in Change : d # c => changing'[d] = changing[d]
  BY <1>4 DEF BasicInv, Types, OtherTypes
<1>7. /\ byId' = byId
      /\ \A j \in Instance, u \in Username : byName'[j][u] \in {byName[j][u], Rebuilt(list[j])[u]}
  BY PersistKeeps
<1>8. rowPosition \in [Volunteer -> Position]
  BY DEF BasicInv, Types, OtherTypes
<1>9. OneOwner'
  <2>1. \A w \in Volunteer : Alive(w)' => Alive(w)
    BY <1>4, <1>7 DEF Alive, Sent
  <2>2. \A w \in Volunteer : Fair(w) /\ creating'[w].pc = "written" => row'[NameOf[w]] = w
    BY <1>4 DEF AgreementInv, OneOwner
  <2>3. ASSUME NEW w \in Volunteer, NEW j \in Instance, Fair(w), w \in byId'[j]
        PROVE  byName'[j][NameOf[w]] = w
    <3>1. list[j] \in Seq(Volunteer) /\ byId[j] = ToSet(list[j]) /\ byId[j] \in SUBSET Volunteer
      BY DEF BasicInv, Types, MemoryTypes, Indexed, Listed
    <3>2. \A x \in byId[j] : NameOf[x] = NameOf[w] => x = w
      BY <1>7, <2>3, <3>1 DEF AgreementInv, OneOwner, Alive
    <3>3. Rebuilt(list[j])[NameOf[w]] = w
      BY <1>7, <2>3, <3>1, <3>2, RebuiltFacts
    <3>4. byName[j][NameOf[w]] = w
      BY <1>7, <2>3 DEF AgreementInv, OneOwner
    <3>5. NameOf[w] \in Username
      BY ConstantsAssumption
    <3> QED
      BY <1>7, <3>3, <3>4, <3>5
  <2>4. OneOwner
    BY DEF AgreementInv
  <2> QED
    BY <2>1, <2>2, <2>3, <2>4, OwnerKept
<1>10. ASSUME NEW w \in Volunteer PROVE Untouched(w)
  <2>1. \A d \in Change : changing'[d].of = w => changing[d].of = w /\ changing'[d].at = changing[d].at
    BY <1>2, <1>3, <1>5, <1>6
  <2> QED
    BY <1>4, <1>7, <2>1, SilentStep DEF Untouched
<1>11. Promised(v)'
  <2>1. Answers(v)'
    BY <1>10, AnswersKept DEF AgreementInv, Promised, Quiet
  <2>2. Fair(v)' /\ Born(v)' => Life(v)'
    BY <1>4, <1>10, LifeKept DEF AgreementInv, Promised, BasicInv, Fair, Quiet, Born
  <2>3. ASSUME Fair(v)', v \notin raced', Born(v)', ~Gone(v)' PROVE Shown(v)'
    <3>1. Fair(v) /\ v \notin raced /\ Born(v) /\ ~Gone(v)
      BY <1>4, <2>3 DEF Fair, Quiet, Born, Gone
    <3>2. OneChange(c, v)
      BY <1>3, <3>1 DEF AgreementInv, Promised, Shown
    <3>3. v \notin Sample => row[NameOf[v]] = v
      BY <3>1 DEF AgreementInv, Promised, Life, Living
    <3>4. position[i][v] = c /\ v \in byId[i]
      BY <1>2, <3>2 DEF OneChange
    <3>5. v \notin Sample => rowPosition'[v] = c
      BY <1>4, <1>8, <3>3
    <3>6. /\ \A d \in Change : changing'[d].of = v => d = c
          /\ \A j \in Instance : ~Sent(j, "VOLUNTEER_UPDATED", v)'
      BY <1>4, <1>6, <3>2 DEF OneChange, Sent
    <3>7. changing'[c].at = i /\ changing'[c].seen = c /\ changing'[c].of = v
      BY <1>5, <1>6, <3>4
    <3>8. OneChange(c, v)'
      BY <1>4, <1>7, <3>4, <3>5, <3>6, <3>7 DEF OneChange
    <3> QED
      BY <3>6, <3>7, <3>8 DEF Shown
  <2> QED
    BY <2>1, <2>2, <2>3 DEF Promised
<1>12. ASSUME NEW w \in Volunteer, w # v PROVE Promised(w)'
  <2>1. rowPosition'[w] = rowPosition[w]
    BY <1>4, <1>8, <1>12
  <2>2. \A d \in Change : changing[d].of = w \/ changing'[d].of = w => changing'[d] = changing[d]
    BY <1>3, <1>5, <1>6, <1>12
  <2>3. Shelved(w)
    BY <1>4, <2>1, <2>2 DEF Shelved
  <2> QED
    BY <1>10, <2>3, PromiseKept DEF AgreementInv, BasicInv
<1> QED
  BY <1>9, <1>11, <1>12 DEF AgreementInv

LEMMA AnnounceUpdatedAgrees ==
    ASSUME BasicInv, BasicInv', AgreementInv, Quiet, NEW c \in Change, AnnounceUpdated(c)
    PROVE  AgreementInv'
<1>0. changing[c].pc = "announcing"
  BY DEF AnnounceUpdated
<1>1. changing[c].at \in Instance /\ changing[c].of \in Volunteer
  BY <1>0 DEF BasicInv, Types, Placed
<1>2. PICK i \in Instance : i = changing[c].at
  BY <1>1
<1>3. PICK v \in Volunteer : v = changing[c].of
  BY <1>1
<1>4. PICK p : p = IF c \in AdminChange THEN position[i][v] ELSE changing[c].seen
  OBVIOUS
<1> DEFINE m == Message("VOLUNTEER_UPDATED", v, p)
<1>5. /\ changing' = [changing EXCEPT ![c] = Answered]
      /\ Publish(i, m)
      /\ UNCHANGED <<list, byName, byId, position, row, rowPosition, creating, deleting,
                     disputed, raced>>
  BY <1>2, <1>3, <1>4 DEF AnnounceUpdated, memory, postgres, ghosts
<1>6. m \in MessageType /\ m.id = v /\ m.type = "VOLUNTEER_UPDATED" /\ m.position = p
  <2>1. p \in Position
    BY <1>4 DEF BasicInv, Types, OtherTypes, MemoryTypes, Task
  <2> QED
    BY <2>1 DEF Message, MessageType
<1> HIDE DEF m
<1>7. channel \in [Instance -> Seq(MessageType)]
  BY DEF BasicInv, Types, OtherTypes
<1>8. /\ changing'[c].of = None /\ v # None
      /\ \A d \in Change : d # c => changing'[d] = changing[d]
  BY <1>5, NoTaskFacts, ConstantsAssumption DEF BasicInv, Types, OtherTypes
<1>9. \A j \in Instance, w \in Volunteer : \A t :
        Sent(j, t, w)' <=> Sent(j, t, w) \/ (j # i /\ v = w /\ t = "VOLUNTEER_UPDATED")
  BY <1>5, <1>6, <1>7, PublishFacts
<1>10. channel'[i] = channel[i]
  BY <1>5, <1>6, <1>7, PublishFacts
<1>11. OneOwner'
  <2>1. \A w \in Volunteer : Alive(w)' => Alive(w)
    BY <1>5, <1>9 DEF Alive
  <2>2. \A w \in Volunteer : Fair(w) /\ creating'[w].pc = "written" => row'[NameOf[w]] = w
    BY <1>5 DEF AgreementInv, OneOwner
  <2> QED
    BY <1>5, <2>1, <2>2, OwnerIndexSame DEF AgreementInv
<1>12. Promised(v)'
  <2>1. Answers(v)
    BY DEF AgreementInv, Promised, Quiet
  <2>2. Answers(v)'
    BY <1>5, <1>9, <2>1 DEF Answers
  <2>3. ASSUME NEW j \in Instance
        PROVE  /\ CreatedOnce(j, v) => CreatedOnce(j, v)'
               /\ DeletedLater(j, v) => DeletedLater(j, v)'
    <3>1. CASE j = i
      BY <1>10, <3>1 DEF CreatedOnce, DeletedLater
    <3>2. CASE j # i
      BY <1>5, <1>6, <1>7, <3>2, PublishLater
    <3> QED
      BY <3>1, <3>2
  <2>4. ASSUME Living(v) PROVE Living(v)'
    <3>1. CASE creating[v].pc = "announcing"
      <4>1. PICK k \in Instance : k = creating[v].at
        BY <3>1 DEF BasicInv, Types, Placed
      <4>2. /\ v \in byId[k] /\ ~Mentioned(k, v) /\ \A j \in Instance : j # k => v \notin byId[j]
            /\ \A d \in Change : changing[d].of = v => changing[d].at = k
        BY <2>4, <3>1, <4>1 DEF Living, Unannounced
      <4>3. k = i
        BY <1>2, <1>3, <4>2
      <4>4. ~Mentioned(k, v)'
        BY <1>10, <4>2, <4>3 DEF Mentioned
      <4>5. \A d \in Change : changing'[d].of = v => changing'[d].at = k
        BY <1>8, <4>2
      <4>6. Unannounced(v)'
        BY <1>5, <4>1, <4>2, <4>4, <4>5 DEF Unannounced
      <4> QED
        BY <1>5, <2>4, <3>1, <4>6 DEF Living
    <3>2. CASE creating[v].pc # "announcing"
      <4>1. Announced(v)'
        BY <1>5, <1>9, <2>3, <2>4, <3>2 DEF Living, Announced
      <4> QED
        BY <1>5, <2>4, <3>2, <4>1 DEF Living
    <3> QED
      BY <3>1, <3>2
  <2>5. ASSUME Dying(v), Gone(v) PROVE Dying(v)'
    <3>1. CASE deleting[v].pc = "done"
      BY <1>5, <1>9, <2>3, <2>5, <3>1 DEF Dying
    <3>2. CASE deleting[v].pc # "done"
      <4>1. PICK k \in Instance : k = deleting[v].at
        BY <2>5, <3>2 DEF BasicInv, Types, Placed, Gone
      <4>2. ~Sent(k, "VOLUNTEER_CREATED", v)'
        BY <1>9, <2>5, <3>2, <4>1 DEF Dying
      <4> QED
        BY <1>5, <2>5, <3>2, <4>1, <4>2 DEF Dying
    <3> QED
      BY <3>1, <3>2
  <2>6. ASSUME Fair(v)', Born(v)' PROVE Life(v)'
    <3>1. Life(v)
      BY <1>5, <2>6 DEF AgreementInv, Promised, Fair, Quiet, Born
    <3> QED
      BY <1>5, <2>4, <2>5, <3>1 DEF Life, Gone
  <2>7. ASSUME Fair(v)', v \notin raced', Born(v)', ~Gone(v)' PROVE Shown(v)'
    <3>1. Fair(v) /\ v \notin raced /\ Born(v) /\ ~Gone(v)
      BY <1>5, <2>7 DEF Fair, Quiet, Born, Gone
    <3>2. OneChange(c, v)
      BY <1>3, <3>1 DEF AgreementInv, Promised, Shown
    <3>3. /\ \A d \in Change : changing[d].of = v => d = c
          /\ \A j \in Instance : ~Sent(j, "VOLUNTEER_UPDATED", v)
          /\ v \in byId[i] /\ position[i][v] = c
          /\ changing[c].seen = c /\ (v \notin Sample => rowPosition[v] = c)
      BY <1>0, <1>2, <3>2 DEF OneChange
    <3>4. p = c
      BY <1>4, <3>3
    <3>5. ~Sent(i, "VOLUNTEER_CREATED", v)
      BY <2>1, <3>1, <3>3 DEF AgreementInv, Promised, Life, Living, Announced, Answers
    <3>6. ASSUME NEW j \in Instance PROVE WillShow(j, v, c)'
      <4>1. CASE j = i
        <5>1. ShownLater(i, v, c)'
          BY <1>10, <3>3, <3>5 DEF ShownLater, Sent
        <5> QED
          BY <1>5, <3>3, <4>1, <5>1 DEF WillShow
      <4>2. CASE j # i
        <5>1. ShownLater(j, v, c)'
          BY <1>5, <1>6, <1>7, <3>3, <3>4, <4>2, PublishLater
        <5>2. Sent(j, "VOLUNTEER_UPDATED", v)'
          BY <1>9, <4>2
        <5> QED
          BY <5>1, <5>2 DEF WillShow
      <4> QED
        BY <4>1, <4>2
    <3>7. \A d \in Change : changing'[d].of # v
      BY <1>8, <3>3
    <3>8. c \in Position
      BY DEF Position
    <3> QED
      BY <1>5, <3>3, <3>6, <3>7, <3>8 DEF Shown
  <2> QED
    BY <2>2, <2>6, <2>7 DEF Promised
<1>13. ASSUME NEW w \in Volunteer, w # v PROVE Promised(w)'
  <2>1. SameMessages(w)
    BY <1>5, <1>6, <1>7, <1>13, PublishOther
  <2>2. \A d \in Change : changing[d].of = w \/ changing'[d].of = w => changing'[d] = changing[d]
    <3>1. w # None
      BY ConstantsAssumption
    <3> QED
      BY <1>3, <1>8, <1>13, <3>1
  <2>3. Untouched(w) /\ Shelved(w)
    BY <1>5, <2>1, <2>2 DEF Untouched, Shelved
  <2> QED
    BY <2>3, PromiseKept DEF AgreementInv, BasicInv
<1> QED
  BY <1>11, <1>12, <1>13 DEF AgreementInv

----------------------------------------------------------------------------
(* The deletion of a volunteer.                                             *)

LEMMA DeleteAgrees ==
    ASSUME BasicInv, BasicInv', AgreementInv, Quiet, NEW v \in Volunteer, NEW i \in Instance,
           Delete(v, i)
    PROVE  AgreementInv'
<1> DEFINE t == [deleting[v] EXCEPT !.pc = "erasing", !.at = i]
<1>1. /\ deleting[v].pc = "new" /\ v \in byId[i]
      /\ deleting' = [deleting EXCEPT ![v] = t]
      /\ TakenOut(i, v)
      /\ UNCHANGED <<position, row, rowPosition, creating, changing, channel, disputed, raced>>
  BY DEF Delete, postgres, ghosts
<1>2. t.pc = "erasing" /\ t.at = i
  <2>1. deleting[v] \in Task({"erasing"})
    BY DEF BasicInv, Types, OtherTypes
  <2> QED
    BY <2>1 DEF Task
<1> HIDE DEF t
<1>3. deleting'[v] = t /\ \A w \in Volunteer : w # v => deleting'[w] = deleting[w]
  BY <1>1 DEF BasicInv, Types, OtherTypes
<1>4. \A j \in Instance : byId'[j] = IF j = i THEN byId[j] \ {v} ELSE byId[j]
  BY <1>1 DEF TakenOut, BasicInv, Types, MemoryTypes
<1>5. \A j \in Instance, w \in Volunteer : \A k : Sent(j, k, w)' <=> Sent(j, k, w)
  BY <1>1 DEF Sent
<1>6. ASSUME NEW w \in Volunteer, Alive(w)' PROVE Alive(w)
  <2>1. \A j \in Instance : w \in byId'[j] => w \in byId[j]
    BY <1>4
  <2> QED
    BY <1>1, <1>5, <1>6, <2>1 DEF Alive
<1>7. OneOwner'
  <2>1. OneOwner
    BY DEF AgreementInv
  <2>2. row' = row /\ \A w \in Volunteer : creating'[w].pc = "written" => creating[w].pc = "written"
    BY <1>1
  <2> QED
    BY <1>1, <1>6, <2>1, <2>2, OwnerTakenOut
<1>8. Promised(v)'
  <2>1. Answers(v)
    BY DEF AgreementInv, Promised, Quiet
  <2>2. Answers(v)'
    BY <1>1, <1>5, <2>1 DEF Answers
  <2>3. Gone(v)' /\ ~Gone(v)
    BY <1>1, <1>2, <1>3 DEF Gone
  <2>4. ASSUME Fair(v)', Born(v)', creating'[v].pc # "announcing" PROVE Dying(v)'
    <3>1. Living(v)
      BY <1>1, <2>3, <2>4 DEF AgreementInv, Promised, Life, Fair, Quiet, Born
    <3>2. ~Sent(i, "VOLUNTEER_CREATED", v)'
      BY <1>1, <1>5, <2>4, <3>1 DEF Living, Announced
    <3>3. v \notin byId'[i]
      BY <1>4
    <3> QED
      BY <1>2, <1>3, <3>2, <3>3 DEF Dying
  <2> QED
    BY <2>2, <2>3, <2>4 DEF Promised, Life
<1>9. ASSUME NEW w \in Volunteer, w # v PROVE Promised(w)'
  <2>1. \A j \in Instance : w \in byId'[j] <=> w \in byId[j]
    BY <1>4, <1>9
  <2>2. Untouched(w) /\ Shelved(w)
    BY <1>1, <1>3, <1>9, <2>1, SilentStep DEF Untouched, Shelved
  <2> QED
    BY <2>2, PromiseKept DEF AgreementInv, BasicInv
<1> QED
  BY <1>7, <1>8, <1>9 DEF AgreementInv

LEMMA EraseAgrees ==
    ASSUME BasicInv, BasicInv', AgreementInv, Quiet, NEW v \in Volunteer, Erase(v)
    PROVE  AgreementInv'
<1> DEFINE t == [deleting[v] EXCEPT !.pc = "announcing"]
<1>1. /\ deleting[v].pc = "erasing"
      /\ deleting' = [deleting EXCEPT ![v] = t]
      /\ row' = [row EXCEPT ![NameOf[v]] = IF @ = v THEN None ELSE @]
      /\ rowPosition' = [rowPosition EXCEPT ![v] = Initial]
      /\ UNCHANGED <<list, byName, byId, position, creating, changing, channel, disputed, raced>>
  <2>1. ~(faults' = faults + 1)
    BY DEF Quiet
  <2> QED
    BY <2>1 DEF Erase, memory, ghosts
<1>2. t.pc = "announcing" /\ t.at = deleting[v].at
  <2>1. deleting[v] \in Task({"erasing"})
    BY DEF BasicInv, Types, OtherTypes
  <2> QED
    BY <2>1 DEF Task
<1> HIDE DEF t
<1>3. deleting'[v] = t /\ \A w \in Volunteer : w # v => deleting'[w] = deleting[w]
  BY <1>1 DEF BasicInv, Types, OtherTypes
<1>4. \A w \in Volunteer : w # None /\ NameOf[w] \in Username
  BY ConstantsAssumption
<1>5. \A u \in Username : row'[u] = IF u = NameOf[v] /\ row[u] = v THEN None ELSE row[u]
  BY <1>1, <1>4 DEF BasicInv, Types, OtherTypes
<1>6. /\ row'[NameOf[v]] # v
      /\ \A w \in Volunteer : w # v => (row'[NameOf[w]] = w <=> row[NameOf[w]] = w)
  BY <1>4, <1>5
<1>7. \A w \in Volunteer : w # v => rowPosition'[w] = rowPosition[w]
  BY <1>1 DEF BasicInv, Types, OtherTypes
<1>8. Born(v)
  BY <1>1 DEF BasicInv, Births, Unheard, Gone
<1>9. OneOwner'
  <2>1. \A w \in Volunteer : Alive(w)' => Alive(w)
    BY <1>1, <1>6 DEF Alive, Sent
  <2>2. ASSUME NEW w \in Volunteer, Fair(w), creating'[w].pc = "written" PROVE row'[NameOf[w]] = w
    <3>1. row[NameOf[w]] = w
      BY <1>1, <2>2 DEF AgreementInv, OneOwner
    <3>2. w # v
      BY <1>1, <1>8, <2>2 DEF Born, BasicInv, Births
    <3> QED
      BY <1>6, <3>1, <3>2
  <2> QED
    BY <1>1, <2>1, <2>2, OwnerIndexSame DEF AgreementInv
<1>10. Promised(v)'
  <2>1. Answers(v)'
    BY <1>1 DEF AgreementInv, Promised, Quiet, Answers, Sent
  <2>2. Gone(v) /\ Gone(v)'
    BY <1>1, <1>2, <1>3 DEF Gone
  <2>3. ASSUME Fair(v)', creating'[v].pc # "announcing" PROVE Dying(v)'
    <3>1. Dying(v)
      BY <1>1, <1>8, <2>2, <2>3 DEF AgreementInv, Promised, Life, Fair, Quiet
    <3>2. PICK k \in Instance : k = deleting[v].at
      BY <1>1 DEF BasicInv, Types, Placed
    <3>3. v \notin byId'[k] /\ ~Sent(k, "VOLUNTEER_CREATED", v)'
      BY <1>1, <3>1, <3>2 DEF Dying, Sent
    <3> QED
      BY <1>2, <1>3, <1>6, <3>2, <3>3 DEF Dying
  <2> QED
    BY <2>1, <2>2, <2>3 DEF Promised, Life
<1>11. ASSUME NEW w \in Volunteer, w # v PROVE Promised(w)'
  <2>1. Untouched(w) /\ Shelved(w)
    BY <1>1, <1>3, <1>6, <1>7, <1>11, SilentStep DEF Untouched, Shelved
  <2> QED
    BY <2>1, PromiseKept DEF AgreementInv, BasicInv
<1> QED
  BY <1>9, <1>10, <1>11 DEF AgreementInv

LEMMA AnnounceDeletedAgrees ==
    ASSUME BasicInv, BasicInv', AgreementInv, Quiet, NEW v \in Volunteer, AnnounceDeleted(v)
    PROVE  AgreementInv'
<1>0. deleting[v].pc = "announcing"
  BY DEF AnnounceDeleted
<1>1. PICK i \in Instance : i = deleting[v].at
  BY <1>0 DEF BasicInv, Types, Placed
<1> DEFINE m == Message("VOLUNTEER_DELETED", v, Initial)
<1>2. /\ deleting' = [deleting EXCEPT ![v] = Answered]
      /\ Publish(i, m)
      /\ UNCHANGED <<list, byName, byId, position, row, rowPosition, creating, changing,
                     disputed, raced>>
  BY <1>1 DEF AnnounceDeleted, memory, postgres, ghosts
<1>3. m \in MessageType /\ m.id = v /\ m.type = "VOLUNTEER_DELETED"
  BY DEF Message, MessageType, Position
<1> HIDE DEF m
<1>4. channel \in [Instance -> Seq(MessageType)]
  BY DEF BasicInv, Types, OtherTypes
<1>5. deleting'[v].pc = "done" /\ \A w \in Volunteer : w # v => deleting'[w] = deleting[w]
  BY <1>2, NoTaskFacts DEF BasicInv, Types, OtherTypes
<1>6. \A j \in Instance, w \in Volunteer : \A t :
        Sent(j, t, w)' <=> Sent(j, t, w) \/ (j # i /\ v = w /\ t = "VOLUNTEER_DELETED")
  BY <1>2, <1>3, <1>4, PublishFacts
<1>7. channel'[i] = channel[i]
  BY <1>2, <1>3, <1>4, PublishFacts
<1>8. Born(v)
  BY <1>0 DEF BasicInv, Births, Unheard, Gone
<1>9. OneOwner'
  <2>1. \A w \in Volunteer : Alive(w)' => Alive(w)
    BY <1>2, <1>6 DEF Alive
  <2>2. \A w \in Volunteer : Fair(w) /\ creating'[w].pc = "written" => row'[NameOf[w]] = w
    BY <1>2 DEF AgreementInv, OneOwner
  <2> QED
    BY <1>2, <2>1, <2>2, OwnerIndexSame DEF AgreementInv
<1>10. Promised(v)'
  <2>1. Answers(v)
    BY DEF AgreementInv, Promised, Quiet
  <2>2. Answers(v)'
    BY <1>2, <1>5, <1>6, <2>1 DEF Answers
  <2>3. Gone(v) /\ Gone(v)'
    BY <1>0, <1>5 DEF Gone
  <2>4. ASSUME Fair(v)', creating'[v].pc # "announcing" PROVE Dying(v)'
    <3>1. Dying(v)
      BY <1>2, <1>8, <2>3, <2>4 DEF AgreementInv, Promised, Life, Fair, Quiet
    <3>2. row[NameOf[v]] # v /\ v \notin byId[i] /\ ~Sent(i, "VOLUNTEER_CREATED", v)
      BY <1>0, <1>1, <3>1 DEF Dying
    <3>3. ASSUME NEW j \in Instance
          PROVE  /\ v \in byId'[j] => Sent(j, "VOLUNTEER_DELETED", v)'
                 /\ DeletedLater(j, v)'
      <4>1. CASE j = i
        BY <1>2, <1>7, <3>2, <4>1 DEF DeletedLater, Sent
      <4>2. CASE j # i
        <5>1. DeletedLater(j, v)'
          BY <1>2, <1>3, <1>4, <4>2, PublishLater
        <5> QED
          BY <1>6, <4>2, <5>1
      <4> QED
        BY <4>1, <4>2
    <3> QED
      BY <1>2, <1>5, <3>2, <3>3 DEF Dying
  <2> QED
    BY <2>2, <2>3, <2>4 DEF Promised, Life
<1>11. ASSUME NEW w \in Volunteer, w # v PROVE Promised(w)'
  <2>1. SameMessages(w)
    BY <1>2, <1>3, <1>4, <1>11, PublishOther
  <2>2. Untouched(w) /\ Shelved(w)
    BY <1>2, <1>5, <1>11, <2>1 DEF Untouched, Shelved
  <2> QED
    BY <2>2, PromiseKept DEF AgreementInv, BasicInv
<1> QED
  BY <1>9, <1>10, <1>11 DEF AgreementInv

----------------------------------------------------------------------------
(* The messages.                                                            *)

LEMMA ReceiveAgrees ==
    ASSUME BasicInv, BasicInv', AgreementInv, Quiet, NEW i \in Instance, Receive(i)
    PROVE  AgreementInv'
<1>1. /\ channel[i] # << >> /\ channel' = [channel EXCEPT ![i] = Tail(@)]
      /\ channel \in [Instance -> Seq(MessageType)]
      /\ UNCHANGED <<row, rowPosition, creating, changing, deleting, disputed, raced, faults>>
  BY DEF Receive, postgres, routes, ghosts, BasicInv, Types, OtherTypes
<1>2. PICK m \in MessageType : m = Head(channel[i])
  BY <1>1, TakeFacts
<1>3. PICK v \in Volunteer : v = m.id
  BY DEF MessageType
<1>4. PICK p \in Position : p = m.position
  BY DEF MessageType
<1>5. m.type \in {"VOLUNTEER_CREATED", "VOLUNTEER_UPDATED", "VOLUNTEER_DELETED"}
  BY DEF MessageType
<1>6. 1 \in DOMAIN channel[i] /\ channel[i][1] = m
  BY <1>1, <1>2, TakeFacts
<1>7. /\ \A j \in Instance, w \in Volunteer : Mentioned(j, w)' => Mentioned(j, w)
      /\ \A j \in Instance, w \in Volunteer : \A t :
           /\ Sent(j, t, w)' => Sent(j, t, w)
           /\ Sent(j, t, w) => Sent(j, t, w)' \/ (j = i /\ m.type = t /\ v = w)
  <2>1. /\ \A j \in Instance, w \in Volunteer : Mentioned(j, w)' => Mentioned(j, w)
        /\ \A j \in Instance, w \in Volunteer : \A t :
             /\ Sent(j, t, w)' => Sent(j, t, w)
             /\ Sent(j, t, w) => \/ Sent(j, t, w)'
                                 \/ j = i /\ Head(channel[i]).type = t /\ Head(channel[i]).id = w
    BY <1>1, TakeFacts
  <2> QED
    BY <1>2, <1>3, <2>1
<1>8. Sent(i, m.type, v) /\ Mentioned(i, v)
  BY <1>3, <1>6 DEF Sent, Mentioned
<1>9. Born(v)
  BY <1>8 DEF BasicInv, Births, Unheard
<1>10. \/ /\ m.type = "VOLUNTEER_CREATED" /\ v \notin byId[i] /\ Added(i, v)
          /\ position' = [position EXCEPT ![i][v] = p]
       \/ /\ m.type = "VOLUNTEER_UPDATED" /\ v \in byId[i]
          /\ position' = [position EXCEPT ![i][v] = p] /\ UNCHANGED <<list, byName, byId>>
       \/ /\ m.type = "VOLUNTEER_DELETED" /\ v \in byId[i] /\ TakenOut(i, v)
          /\ UNCHANGED position
       \/ /\ (m.type = "VOLUNTEER_CREATED") = (v \in byId[i])
          /\ UNCHANGED <<list, byName, byId, position>>
  BY <1>2, <1>3, <1>4 DEF Receive, memory
<1>11. /\ byId \in [Instance -> SUBSET Volunteer]
       /\ position \in [Instance -> [Volunteer -> Position]]
  BY DEF BasicInv, Types, MemoryTypes
<1>12. /\ Added(i, v) => \A j \in Instance : byId'[j] = IF j = i THEN byId[j] \cup {v} ELSE byId[j]
       /\ TakenOut(i, v) => \A j \in Instance : byId'[j] = IF j = i THEN byId[j] \ {v} ELSE byId[j]
  BY <1>11 DEF Added, TakenOut
<1>13. /\ \A j \in Instance : j # i => byId'[j] = byId[j] /\ position'[j] = position[j]
       /\ \A j \in Instance, w \in Volunteer : w # v =>
            (w \in byId'[j] <=> w \in byId[j]) /\ position'[j][w] = position[j][w]
  <2>1. position' \in {position, [position EXCEPT ![i][v] = p]}
    BY <1>10
  <2>2. /\ \A j \in Instance : j # i => position'[j] = position[j]
        /\ \A j \in Instance, w \in Volunteer : w # v => position'[j][w] = position[j][w]
    BY <1>11, <2>1
  <2>3. /\ \A j \in Instance : j # i => byId'[j] = byId[j]
        /\ \A j \in Instance, w \in Volunteer : w # v => (w \in byId'[j] <=> w \in byId[j])
    <3>1. CASE byId' = byId
      BY <3>1
    <3>2. CASE Added(i, v)
      BY <1>12, <3>2
    <3>3. CASE TakenOut(i, v)
      BY <1>12, <3>3
    <3> QED
      BY <1>10, <3>1, <3>2, <3>3
  <2> QED
    BY <2>2, <2>3
<1>14. /\ m.type = "VOLUNTEER_CREATED" => v \in byId'[i]
       /\ m.type = "VOLUNTEER_UPDATED" => (v \in byId'[i] <=> v \in byId[i])
       /\ m.type = "VOLUNTEER_DELETED" => v \notin byId'[i]
  BY <1>10, <1>12
<1>15. /\ m.type = "VOLUNTEER_CREATED" /\ v \notin byId[i] => position'[i][v] = p
       /\ m.type = "VOLUNTEER_CREATED" /\ v \in byId[i] => position'[i][v] = position[i][v]
       /\ m.type = "VOLUNTEER_UPDATED" /\ v \in byId[i] => position'[i][v] = p
  BY <1>10, <1>11
<1>16. ASSUME NEW w \in Volunteer, Alive(w)' PROVE Alive(w)
  <2>1. ASSUME NEW j \in Instance, w \in byId'[j] PROVE w \in byId[j] \/ Sent(j, "VOLUNTEER_CREATED", w)
    BY <1>5, <1>8, <1>13, <1>14, <2>1
  <2> QED
    BY <1>1, <1>7, <1>16, <2>1 DEF Alive
<1>17. OneOwner'
  <2>1. OneOwner /\ row' = row
    BY <1>1 DEF AgreementInv
  <2>2. \A w \in Volunteer : creating'[w].pc = "written" => creating[w].pc = "written"
    BY <1>1
  <2>3. CASE m.type = "VOLUNTEER_CREATED" /\ v \notin byId[i] /\ Added(i, v)
    <3>1. Alive(v)
      BY <1>8, <2>3 DEF Alive
    <3> QED
      BY <1>16, <2>1, <2>2, <2>3, <3>1, OwnerAdded
  <2>4. CASE TakenOut(i, v)
    BY <1>16, <2>1, <2>2, <2>4, OwnerTakenOut
  <2>5. CASE UNCHANGED <<list, byName, byId>>
    <3>1. \A w \in Volunteer : Fair(w) /\ creating'[w].pc = "written" => row'[NameOf[w]] = w
      BY <2>1, <2>2 DEF OneOwner
    <3> QED
      BY <1>16, <2>1, <2>5, <3>1, OwnerIndexSame
  <2> QED
    BY <1>10, <2>3, <2>4, <2>5
<1>18. Answers(v)
  BY DEF AgreementInv, Promised, Quiet
<1>19. m.type = "VOLUNTEER_DELETED" => Gone(v)
  BY <1>8, <1>18 DEF Answers, Gone
<1>20. \A j \in Instance :
         /\ CreatedOnce(j, v) => CreatedOnce(j, v)'
         /\ DeletedLater(j, v) => DeletedLater(j, v)'
         /\ \A q : ShownLater(j, v, q) => ShownLater(j, v, q)'
  BY <1>1, TakeKeeps
<1>21. m.type = "VOLUNTEER_CREATED" =>
         /\ CreatedOnce(i, v) => ~Sent(i, "VOLUNTEER_CREATED", v)'
         /\ DeletedLater(i, v) => Sent(i, "VOLUNTEER_DELETED", v)'
         /\ \A q : ShownLater(i, v, q) => p = q \/ Sent(i, "VOLUNTEER_UPDATED", v)'
  BY <1>1, <1>2, <1>3, <1>4, TakeCreated
<1>22. ASSUME Living(v), ~Gone(v) PROVE Living(v)'
  <2>1. CASE creating[v].pc = "announcing"
    <3>1. PICK k \in Instance : k = creating[v].at
      BY <2>1 DEF BasicInv, Types, Placed
    <3>2. /\ v \in byId[k] /\ ~Mentioned(k, v) /\ \A j \in Instance : j # k => v \notin byId[j]
          /\ \A c \in Change : changing[c].of = v => changing[c].at = k
      BY <1>22, <2>1, <3>1 DEF Living, Unannounced
    <3>3. m.type = "VOLUNTEER_UPDATED"
      BY <1>5, <1>8, <1>18, <1>19, <1>22, <2>1 DEF Answers
    <3>4. \A j \in Instance : v \in byId'[j] <=> v \in byId[j]
      BY <1>13, <1>14, <3>3
    <3>5. Unannounced(v)'
      BY <1>1, <1>7, <3>1, <3>2, <3>4 DEF Unannounced
    <3> QED
      BY <1>1, <1>22, <2>1, <3>5 DEF Living
  <2>2. CASE creating[v].pc # "announcing"
    <3>1. Announced(v)
      BY <1>22, <2>2 DEF Living
    <3>2. ASSUME NEW j \in Instance
          PROVE  /\ v \in byId'[j] \/ Sent(j, "VOLUNTEER_CREATED", v)'
                 /\ Sent(j, "VOLUNTEER_CREATED", v)' => v \notin byId'[j]
                 /\ CreatedOnce(j, v)'
      <4>1. CreatedOnce(j, v)'
        BY <1>20, <3>1 DEF Announced
      <4>2. CASE j = i /\ m.type = "VOLUNTEER_CREATED"
        BY <1>14, <1>21, <3>1, <4>1, <4>2 DEF Announced
      <4>3. CASE ~(j = i /\ m.type = "VOLUNTEER_CREATED")
        <5>1. v \in byId'[j] <=> v \in byId[j]
          BY <1>5, <1>13, <1>14, <1>19, <1>22, <4>3
        <5>2. Sent(j, "VOLUNTEER_CREATED", v)' <=> Sent(j, "VOLUNTEER_CREATED", v)
          BY <1>7, <4>3
        <5> QED
          BY <3>1, <4>1, <5>1, <5>2 DEF Announced
      <4> QED
        BY <4>2, <4>3
    <3>3. Announced(v)'
      BY <3>2 DEF Announced
    <3> QED
      BY <1>1, <1>22, <2>2, <3>3 DEF Living
  <2> QED
    BY <2>1, <2>2
<1>23. ASSUME Dying(v), Gone(v) PROVE Dying(v)'
  <2>1. CASE deleting[v].pc # "done"
    <3>1. PICK k \in Instance : k = deleting[v].at
      BY <1>23, <2>1 DEF BasicInv, Types, Placed, Gone
    <3>2. v \notin byId[k] /\ ~Sent(k, "VOLUNTEER_CREATED", v)
      BY <1>23, <2>1, <3>1 DEF Dying
    <3>3. v \notin byId'[k] /\ ~Sent(k, "VOLUNTEER_CREATED", v)'
      BY <1>5, <1>7, <1>8, <1>13, <1>14, <3>2
    <3> QED
      BY <1>1, <1>23, <2>1, <3>1, <3>3 DEF Dying
  <2>2. CASE deleting[v].pc = "done"
    <3>1. /\ row[NameOf[v]] # v
          /\ \A j \in Instance :
               (v \in byId[j] => Sent(j, "VOLUNTEER_DELETED", v)) /\ DeletedLater(j, v)
      BY <1>23, <2>2 DEF Dying
    <3>2. ASSUME NEW j \in Instance, v \in byId'[j] PROVE Sent(j, "VOLUNTEER_DELETED", v)'
      <4>1. CASE j = i /\ m.type = "VOLUNTEER_CREATED"
        BY <1>21, <3>1, <4>1
      <4>2. CASE ~(j = i /\ m.type = "VOLUNTEER_CREATED")
        <5>1. v \in byId[j] /\ ~(j = i /\ m.type = "VOLUNTEER_DELETED")
          BY <1>5, <1>13, <1>14, <3>2, <4>2
        <5> QED
          BY <1>7, <3>1, <5>1
      <4> QED
        BY <4>1, <4>2
    <3> QED
      BY <1>1, <1>20, <2>2, <3>1, <3>2 DEF Dying
  <2> QED
    BY <2>1, <2>2
<1>24. ASSUME Shown(v), ~Gone(v) PROVE Shown(v)'
  <2>1. m.type \in {"VOLUNTEER_CREATED", "VOLUNTEER_UPDATED"}
    BY <1>5, <1>19, <1>24
  <2>2. ASSUME NEW c \in Change, changing'[c].of = v PROVE OneChange(c, v)'
    <3>1. OneChange(c, v)
      BY <1>1, <1>24, <2>2 DEF Shown
    <3>2. v # None /\ changing[c].of = v
      BY <1>1, <2>2, ConstantsAssumption
    <3>3. PICK k \in Instance : k = changing[c].at
      BY <3>2 DEF BasicInv, Types, Placed
    <3>4. /\ \A j \in Instance : ~Sent(j, "VOLUNTEER_UPDATED", v)
          /\ v \in byId[k] /\ position[k][v] = c
      BY <3>1, <3>3 DEF OneChange
    <3>5. m.type = "VOLUNTEER_CREATED"
      BY <1>8, <2>1, <3>4
    <3>6. v \in byId'[k] /\ position'[k][v] = c
      BY <1>13, <1>14, <1>15, <3>4, <3>5
    <3>7. \A j \in Instance : ~Sent(j, "VOLUNTEER_UPDATED", v)'
      BY <1>7, <3>4
    <3> QED
      BY <1>1, <3>1, <3>3, <3>6, <3>7 DEF OneChange
  <2>3. ASSUME \A c \in Change : changing'[c].of # v
        PROVE  \E q \in Position :
                 /\ v \notin Sample => rowPosition'[v] = q
                 /\ \A j \in Instance : WillShow(j, v, q)'
    <3>1. PICK q \in Position :
            (v \notin Sample => rowPosition[v] = q) /\ \A j \in Instance : WillShow(j, v, q)
      BY <1>1, <1>24, <2>3 DEF Shown
    <3>2. ASSUME NEW j \in Instance, v \in byId'[j]
          PROVE  position'[j][v] = q \/ Sent(j, "VOLUNTEER_UPDATED", v)'
      <4>1. CASE j # i
        <5>1. v \in byId[j] /\ position'[j][v] = position[j][v]
          BY <1>13, <3>2, <4>1
        <5> QED
          BY <1>7, <3>1, <4>1, <5>1 DEF WillShow
      <4>2. CASE j = i /\ m.type = "VOLUNTEER_CREATED"
        <5>1. CASE v \notin byId[i]
          BY <1>15, <1>21, <3>1, <4>2, <5>1 DEF WillShow
        <5>2. CASE v \in byId[i]
          BY <1>7, <1>15, <3>1, <4>2, <5>2 DEF WillShow
        <5> QED
          BY <5>1, <5>2
      <4>3. CASE j = i /\ m.type = "VOLUNTEER_UPDATED"
        <5>1. m.position = q
          BY <1>3, <1>6, <3>1, <4>3 DEF WillShow, ShownLater
        <5> QED
          BY <1>4, <1>14, <1>15, <3>2, <4>3, <5>1
      <4> QED
        BY <2>1, <4>1, <4>2, <4>3
    <3>3. \A j \in Instance : WillShow(j, v, q)'
      BY <1>20, <3>1, <3>2 DEF WillShow
    <3> QED
      BY <1>1, <3>1, <3>3
  <2> QED
    BY <2>2, <2>3 DEF Shown
<1>25. Promised(v)'
  <2>1. Answers(v)'
    BY <1>1, <1>7, <1>18 DEF Answers
  <2>2. (Fair(v)' <=> Fair(v)) /\ (Gone(v)' <=> Gone(v))
    BY <1>1 DEF Fair, Gone
  <2>3. Fair(v)' => Life(v)'
    BY <1>1, <1>9, <1>22, <1>23, <2>2 DEF AgreementInv, Promised, Life
  <2>4. Fair(v)' /\ v \notin raced' /\ ~Gone(v)' => Shown(v)'
    BY <1>1, <1>9, <1>24, <2>2 DEF AgreementInv, Promised
  <2> QED
    BY <2>1, <2>3, <2>4 DEF Promised
<1>26. ASSUME NEW w \in Volunteer, w # v PROVE Promised(w)'
  <2>1. SameMessages(w)
    BY <1>1, <1>2, <1>3, <1>26, TakeOther
  <2>2. Untouched(w) /\ Shelved(w)
    BY <1>1, <1>13, <1>26, <2>1 DEF Untouched, Shelved
  <2> QED
    BY <2>2, PromiseKept DEF AgreementInv, BasicInv
<1> QED
  BY <1>17, <1>25, <1>26 DEF AgreementInv

----------------------------------------------------------------------------
(* The registries agree.                                                    *)

LEMMA AgreementInit == Init => AgreementInv
<1> SUFFICES ASSUME Init PROVE AgreementInv
  OBVIOUS
<1>1. /\ SampleList \in Seq(Volunteer) /\ ToSet(SampleList) = Sample /\ Sample \in SUBSET Volunteer
      /\ \A v, w \in Sample : NameOf[v] = NameOf[w] => v = w
  BY SampleFacts, ConstantsAssumption
<1>2. /\ \A i \in Instance : byName[i] = Rebuilt(SampleList) /\ byId[i] = Sample /\ channel[i] = << >>
      /\ \A i \in Instance, v \in Volunteer : position[i][v] = Initial
      /\ \A v \in Volunteer :
           /\ creating[v].pc = "new" /\ deleting[v].pc = "new" /\ rowPosition[v] = Initial
           /\ row[NameOf[v]] # v /\ v # None
      /\ \A c \in Change : changing[c].of = None
  BY NoTaskFacts, ConstantsAssumption DEF Init
<1>3. \A i \in Instance, v \in Volunteer : ~Mentioned(i, v) /\ \A t : ~Sent(i, t, v)
  BY <1>2 DEF Mentioned, Sent
<1>4. OneOwner
  <2>1. \A v \in Volunteer : Alive(v) => v \in Sample
    BY <1>2, <1>3 DEF Alive
  <2>2. \A v \in Sample : Rebuilt(SampleList)[NameOf[v]] = v
    BY <1>1, RebuiltFacts
  <2>3. \A v \in Volunteer, i \in Instance : v \in byId[i] => byName[i][NameOf[v]] = v
    BY <1>2, <2>2
  <2> QED
    BY <1>1, <1>2, <2>1, <2>3 DEF OneOwner
<1>5. ASSUME NEW v \in Volunteer PROVE Promised(v)
  <2>1. Answers(v) /\ ~Gone(v)
    BY <1>2, <1>3 DEF Answers, Gone
  <2>2. ASSUME Born(v) PROVE Living(v)
    <3>1. v \in Sample
      BY <1>2, <2>2 DEF Born
    <3>2. \A i \in Instance : CreatedOnce(i, v)
      BY <1>2 DEF CreatedOnce
    <3>3. Announced(v)
      BY <1>2, <1>3, <3>1, <3>2 DEF Announced
    <3> QED
      BY <1>2, <3>1, <3>3 DEF Living
  <2>3. Shown(v)
    <3>1. \A i \in Instance : WillShow(i, v, Initial)
      BY <1>2 DEF WillShow, ShownLater
    <3>2. Initial \in Position
      BY DEF Position
    <3> QED
      BY <1>2, <3>1, <3>2 DEF Shown
  <2> QED
    BY <2>1, <2>2, <2>3 DEF Promised, Life
<1> QED
  BY <1>4, <1>5 DEF AgreementInv

LEMMA StepQuiet ==
    ASSUME BasicInv, Next, faults' = 0
    PROVE  Quiet /\ \A i \in Instance : ~Lose(i) /\ ~Restart(i)
<1>1. faults \in Nat
  BY ConstantsAssumption DEF BasicInv, Types, OtherTypes
<1>2. ~(faults' = faults + 1)
  BY <1>1
<1>3. \A i \in Instance : ~Lose(i) /\ ~Restart(i)
  BY <1>2 DEF Lose, Restart
<1>4. \A v \in Volunteer, i \in Instance : CheckName(v, i) => Quiet
  BY DEF CheckName, Quiet
<1>5. \A v \in Volunteer, i \in Instance : Delete(v, i) => Quiet
  BY DEF Delete, Quiet, ghosts
<1>6. \A v \in Volunteer : WriteVolunteer(v) \/ Enlist(v) \/ Erase(v) \/ AnnounceDeleted(v) => Quiet
  BY <1>2 DEF WriteVolunteer, Enlist, Erase, AnnounceDeleted, Quiet, ghosts
<1>7. \A v \in Volunteer : AnnounceCreated(v) => Quiet
  BY DEF AnnounceCreated, Quiet
<1>8. \A c \in Change, v \in Volunteer, i \in Instance : Update(c, v, i) => Quiet
  BY DEF Update, Quiet
<1>9. \A c \in Change : Persist(c) \/ AnnounceUpdated(c) => Quiet
  BY <1>2 DEF Persist, AnnounceUpdated, Quiet, ghosts
<1>10. \A i \in Instance : Receive(i) => Quiet
  BY DEF Receive, Quiet, ghosts
<1> QED
  BY <1>3, <1>4, <1>5, <1>6, <1>7, <1>8, <1>9, <1>10 DEF Next

LEMMA AgreementStep == BasicInv /\ BasicInv' /\ AgreementInv /\ [Next]_vars => AgreementInv'
<1> SUFFICES ASSUME BasicInv, BasicInv', AgreementInv, [Next]_vars PROVE AgreementInv'
  OBVIOUS
<1>1. CASE faults' # 0
  BY <1>1 DEF AgreementInv, OneOwner, Promised, Fair
<1>2. CASE faults' = 0 /\ Next
  <2>1. Quiet /\ \A i \in Instance : ~Lose(i) /\ ~Restart(i)
    BY <1>2, StepQuiet
  <2> QED
    BY <1>2, <2>1, CheckNameAgrees, WriteVolunteerAgrees, EnlistAgrees, AnnounceCreatedAgrees,
       UpdateAgrees, PersistAgrees, AnnounceUpdatedAgrees, DeleteAgrees, EraseAgrees,
       AnnounceDeletedAgrees, ReceiveAgrees DEF Next
<1>3. CASE faults' = 0 /\ UNCHANGED vars
  <2>1. /\ UNCHANGED <<list, byName, byId, position, row, rowPosition, creating, changing,
                       deleting, channel, disputed, raced, faults>>
        /\ Quiet
    BY <1>3 DEF vars, Quiet
  <2>2. OneOwner'
    <3>1. \A w \in Volunteer : Alive(w)' => Alive(w)
      BY <2>1 DEF Alive, Sent
    <3>2. \A w \in Volunteer : Fair(w) /\ creating'[w].pc = "written" => row'[NameOf[w]] = w
      BY <2>1 DEF AgreementInv, OneOwner
    <3> QED
      BY <2>1, <3>1, <3>2, OwnerIndexSame DEF AgreementInv
  <2>3. ASSUME NEW w \in Volunteer PROVE Promised(w)'
    <3>1. Untouched(w) /\ Shelved(w)
      BY <2>1, SilentStep DEF Untouched, Shelved
    <3> QED
      BY <2>1, <3>1, PromiseKept DEF AgreementInv, BasicInv
  <2> QED
    BY <2>2, <2>3 DEF AgreementInv
<1> QED
  BY <1>1, <1>2, <1>3

LEMMA AgreementAlways == Spec => []AgreementInv
<1>1. Init => AgreementInv
  BY AgreementInit
<1>2. BasicInv /\ BasicInv' /\ AgreementInv /\ [Next]_vars => AgreementInv'
  BY AgreementStep
<1> QED
  BY <1>1, <1>2, BasicAlways, PTL DEF Spec

LEMMA SettledFromInvariants == BasicInv /\ AgreementInv => SettledRegistriesAgree
<1> SUFFICES ASSUME BasicInv, AgreementInv, Settled, faults = 0, NEW v \in Volunteer,
                    NEW i \in Instance, NameOf[v] \notin disputed
             PROVE  IF v \in Listed(i)
                    THEN /\ ~Gone(v)
                         /\ byName[i][NameOf[v]] = v
                         /\ v \notin Sample => row[NameOf[v]] = v
                         /\ \A j \in Instance : v \in Listed(j)
                         /\ v \notin raced =>
                              /\ \A j \in Instance : position[j][v] = position[i][v]
                              /\ v \notin Sample => rowPosition[v] = position[i][v]
                    ELSE row[NameOf[v]] # v
  BY DEF SettledRegistriesAgree
<1>1. /\ creating[v].pc \in {"new", "done"} /\ deleting[v].pc \in {"new", "done"}
      /\ \A c \in Change : changing[c].of # v
      /\ \A j \in Instance : \A t : ~Sent(j, t, v)
  BY ConstantsAssumption DEF Settled, BasicInv, Types, Placed, Sent
<1>2. /\ Fair(v) /\ (Born(v) => Life(v))
      /\ v \notin raced /\ Born(v) /\ ~Gone(v) => Shown(v)
  BY DEF Fair, AgreementInv, Promised
<1>3. \A j \in Instance : Listed(j) = byId[j]
  BY DEF BasicInv, Indexed
<1>4. ASSUME Born(v), ~Gone(v)
      PROVE  (\A j \in Instance : v \in byId[j]) /\ (v \notin Sample => row[NameOf[v]] = v)
  BY <1>1, <1>2, <1>4 DEF Life, Living, Announced
<1>5. ASSUME Born(v), Gone(v)
      PROVE  (\A j \in Instance : v \notin byId[j]) /\ row[NameOf[v]] # v
  BY <1>1, <1>2, <1>5 DEF Life, Dying, Gone
<1>6. ~Born(v) => v \notin byId[i] /\ row[NameOf[v]] # v
  BY <1>1 DEF BasicInv, Births, Unheard
<1>7. CASE v \in byId[i]
  <2>1. Born(v) /\ ~Gone(v)
    BY <1>5, <1>6, <1>7
  <2>2. byName[i][NameOf[v]] = v
    BY <1>2, <1>7 DEF AgreementInv, OneOwner
  <2>3. ASSUME v \notin raced
        PROVE  /\ \A j \in Instance : position[j][v] = position[i][v]
               /\ v \notin Sample => rowPosition[v] = position[i][v]
    <3>1. PICK p \in Position :
            (v \notin Sample => rowPosition[v] = p) /\ \A j \in Instance : WillShow(j, v, p)
      BY <1>1, <1>2, <2>1, <2>3 DEF Shown
    <3>2. \A j \in Instance : position[j][v] = p
      BY <1>1, <1>4, <2>1, <3>1 DEF WillShow
    <3> QED
      BY <3>1, <3>2
  <2> QED
    BY <1>3, <1>4, <1>7, <2>1, <2>2, <2>3
<1>8. CASE v \notin byId[i]
  <2>1. row[NameOf[v]] # v
    BY <1>4, <1>5, <1>6, <1>8
  <2> QED
    BY <1>3, <1>8, <2>1
<1> QED
  BY <1>7, <1>8

\* When every route has answered, every message has arrived and nothing failed,
\* all instances list the same volunteers, log each in by its username, and agree
\* with Postgres and each other on rows and positions; a deleted one is nowhere.
\* It is about the routes of main.py that check, await and then act.
THEOREM SettledRegistries == Spec => []SettledRegistriesAgree
BY SettledFromInvariants, BasicAlways, AgreementAlways, PTL

=============================================================================
