------------------------ MODULE RecordReplicasProofs ------------------------
(* The replicas for any number of instances, requests, volunteers and       *)
(* records and any bounds of the lists: no list has a record twice, the     *)
(* index follows the lists, and what has settled is the same everywhere.    *)
(* The argument follows a record from its creation: one request creates it, *)
(* and an undisturbed record has one request at a time, which finds all     *)
(* instances alike and, when its messages have arrived, leaves them so.     *)
EXTENDS RecordReplicas, FiniteSetTheorems, SequenceTheorems, TLAPS

Message == [type : {"new", "update"}, id : Record, data : Rec]

RequestType ==
    [pc : {"idle", "pg", "resume", "send", "accept", "xadd"}, inst : Instance \cup {Nobody},
     op : Op, id : Nat, arg : Rec, data : Rec \cup {NoRec}]

SharedTypes ==
    /\ pg \in [Record -> Rec \cup {NoRec}] /\ stream \in [Record -> Rec \cup {NoRec}]
    /\ kind \in [Record -> Kind \cup {Nobody}]
    /\ nextId \in 1..(MaxRecords + 1)
    /\ begun \in 0..MaxRequests /\ faults \in 0..MaxFaults

InstanceTypes ==
    /\ up \subseteq Instance /\ sub \subseteq up
    /\ list \in [Instance -> [Kind -> Seq(Record)]]
    /\ index \in [Instance -> SUBSET Record]
    /\ mem \in [Instance -> [Record -> Rec \cup {NoRec}]]
    /\ inbox \in [Instance -> Seq(Message)]
    /\ req \in [Request -> RequestType]

Types == SharedTypes /\ InstanceTypes

Created == 1..(nextId - 1)

\* Nothing is known of a record before it is created, nor by a stopped instance.
Origins ==
    /\ \A id \in Record : IF id \in Created THEN kind[id] \in Kind
                          ELSE kind[id] = Nobody /\ pg[id] = NoRec /\ stream[id] = NoRec
    /\ \A i \in Instance : \A n \in 1..Len(inbox[i]) : inbox[i][n].id \in Created
    /\ \A i \in Instance \ up : index[i] = {} /\ inbox[i] = << >> /\ Listed(i) = {}

\* What a request in progress goes by.
Requests ==
    \A q \in Request : Active(q) =>
        /\ req[q].id \in Created /\ req[q].inst \in up
        /\ req[q].op = "wa_lost" => kind[req[q].id] = "lost" /\ req[q].id \in disturbed
        /\ Creates(req[q].op) => req[q].arg.status = "open"
        /\ req[q].op \in {"accept", "update"} => kind[req[q].id] # "sos"
        /\ req[q].pc \in {"send", "accept", "xadd"} \/ req[q].op = "assign" =>
              mem[req[q].inst][req[q].id] \in Rec
        /\ req[q].pc = "accept" => req[q].data \in Rec
        /\ req[q].pc = "xadd" => req[q].op = "create"

\* The lists and the index of an instance.
Lists ==
    /\ \A i \in Instance, k \in Kind : \A id \in ToSet(list[i][k]) : id \in Created /\ kind[id] = k
    /\ NoDuplicateRecords
    /\ \A i \in Instance :
        /\ index[i] \subseteq Listed(i)
        /\ \A id \in Listed(i) \ index[i] : kind[id] = "lost" /\ id \in disturbed
        /\ \A id \in Listed(i) : mem[i][id] \in Rec

Creating(q, id) == Active(q) /\ Creates(req[q].op) /\ req[q].id = id

\* A record has one creation, which its instance has not listed before, and the
\* others hear of it only when it is past its last step in memory.
OneCreation ==
    \A q \in Request, id \in Record : Creating(q, id) =>
        /\ \A p \in Request : Creating(p, id) => p = q
        /\ req[q].pc \in {"pg", "resume"} => id \notin Listed(req[q].inst)
        /\ \A i \in Instance : i # req[q].inst => id \notin Listed(i) \ index[i]
        /\ req[q].pc # "xadd" =>
              \A i \in Instance : \A n \in 1..Len(inbox[i]) :
                  ~(inbox[i][n].type = "new" /\ inbox[i][n].id = id)

\* A creation is news to whoever lists it without the index.
NewsIsNew ==
    \A i \in Instance : \A n \in 1..Len(inbox[i]) :
        inbox[i][n].type = "new" => inbox[i][n].id \notin Listed(i) \ index[i]

ListInv == Types /\ Origins /\ Requests /\ Lists /\ OneCreation /\ NewsIsNew

----------------------------------------------------------------------------

Undisturbed == Created \ disturbed

Busy(q, id) == Active(q) /\ req[q].id = id

Unmentioned(i, id) == \A n \in 1..Len(inbox[i]) : inbox[i][n].id # id

\* An undisturbed record has one request at a time, and no message meanwhile.
AloneAt(id) ==
    \A q \in Request : Busy(q, id) =>
        /\ \A p \in Request : Busy(p, id) => p = q
        /\ req[q].pc # "xadd" => \A i \in Instance : Unmentioned(i, id)

Alone == \A id \in Undisturbed : AloneAt(id)

\* A row agrees with the object v in memory, if Postgres took all that was written.
Matches(row, v) == row.vol = v.vol /\ row.status \in {v.status, "assigned"}

RowMatches(id, v) == id \in unsaved \/ (pg[id] \in Rec /\ Matches(pg[id], v))

\* Instance i has v, or will have it when its messages have arrived.
Holds(i, id, v) ==
    /\ \A n \in 1..Len(inbox[i]) : inbox[i][n].id = id =>
          /\ inbox[i][n].data = v
          /\ inbox[i][n].type = "update" => id \in index[i]
          /\ inbox[i][n].type = "new" /\ id \in index[i] => mem[i][id] = v
    /\ Unmentioned(i, id) => id \in index[i] /\ mem[i][id] = v

Agreed(id) == \E v \in Rec : RowMatches(id, v) /\ \A i \in up : Holds(i, id, v)

\* A request that has changed neither Postgres nor memory, or has told everyone.
AtRest(q) == req[q].pc = "xadd" \/ (req[q].pc = "pg" /\ ~Creates(req[q].op))

\* Where an undisturbed record is while its creation runs ...
CreationInTune(q, id) ==
    LET r == req[q] IN
    /\ r.pc # "xadd" => stream[id] = NoRec
    /\ r.pc = "pg" => pg[id] = NoRec /\ \A i \in Instance : id \notin index[i]
    /\ r.pc \in {"resume", "send", "accept"} =>
          /\ id \in unsaved \/ pg[id] = r.arg
          /\ \A i \in up : id \in index[i] => mem[i][id] = r.arg
    /\ r.pc \in {"send", "accept"} => id \in index[r.inst]
    /\ r.pc = "accept" => r.data = mem[r.inst][id]
    /\ r.pc = "xadd" =>
          /\ id \in index[r.inst] /\ Unmentioned(r.inst, id)
          /\ id \in unsaved \/ mem[r.inst][id] = pg[id]

\* ... and while an update does.
UpdateInTune(q, id) ==
    LET r == req[q] IN
    /\ id \in unsaved \/ stream[id] = NoRec
    /\ r.pc \in {"resume", "send", "accept"} => \A i \in up : id \in index[i]
    /\ r.pc = "resume" => RowMatches(id, MemValue(r.op, r.arg, mem[r.inst][id]))
    /\ r.pc \in {"send", "accept"} => RowMatches(id, mem[r.inst][id])
    /\ r.pc = "accept" => r.data = mem[r.inst][id]

InTuneAt(id) ==
    /\ id \in unsaved \/ stream[id] \in {NoRec, pg[id]}
    /\ (\A q \in Request : Busy(q, id) => AtRest(q)) => Agreed(id)
    /\ \A q \in Request : Busy(q, id) =>
          IF Creates(req[q].op) THEN CreationInTune(q, id) ELSE UpdateInTune(q, id)

InTune == \A id \in Undisturbed : InTuneAt(id)

Together == Alone /\ InTune

----------------------------------------------------------------------------
(* Sequences.                                                               *)

\* The ranks of a finite set of numbers number its elements.
LEMMA AscendingFacts ==
    ASSUME NEW S \in SUBSET Nat, IsFiniteSet(S)
    PROVE  /\ Cardinality(S) \in Nat
           /\ Ascending(S) \in Seq(S) /\ Len(Ascending(S)) = Cardinality(S)
           /\ \A m, n \in 1..Cardinality(S) : Ascending(S)[m] = Ascending(S)[n] => m = n
<1> DEFINE N == Cardinality(S)
           Below(x) == {y \in S : y < x}
           rank == [x \in S |-> Cardinality(Below(x)) + 1]
<1>1. N \in Nat
  BY FS_CardinalityType
<1>2. ASSUME NEW x \in S
      PROVE  IsFiniteSet(Below(x)) /\ Cardinality(Below(x)) \in 0..(N - 1)
  <2>1. Below(x) \in SUBSET (S \ {x})
    OBVIOUS
  <2>2. IsFiniteSet(S \ {x}) /\ Cardinality(S \ {x}) = N - 1
    BY FS_RemoveElement
  <2>3. IsFiniteSet(Below(x)) /\ Cardinality(Below(x)) <= N - 1
    BY <2>1, <2>2, FS_Subset
  <2>4. Cardinality(Below(x)) \in Nat
    BY <2>3, FS_CardinalityType
  <2> QED
    BY <1>1, <2>3, <2>4
<1>3. ASSUME NEW x \in S, NEW y \in S, x < y
      PROVE  Cardinality(Below(x)) < Cardinality(Below(y))
  <2>1. Below(x) \in SUBSET (Below(y) \ {x}) /\ x \in Below(y)
    <3>1. \A z \in S : z \in Nat
      OBVIOUS
    <3>2. \A z \in Below(x) : z \in Below(y) /\ z # x
      BY <1>3, <3>1
    <3> QED
      BY <1>3, <3>2
  <2>2. IsFiniteSet(Below(y) \ {x}) /\ Cardinality(Below(y) \ {x}) = Cardinality(Below(y)) - 1
    BY <1>2, <2>1, FS_RemoveElement
  <2>3. Cardinality(Below(x)) <= Cardinality(Below(y)) - 1
    BY <2>1, <2>2, FS_Subset
  <2>4. Cardinality(Below(x)) \in Int /\ Cardinality(Below(y)) \in Int
    BY <1>1, <1>2
  <2> QED
    BY <2>3, <2>4
<1> HIDE DEF Below
<1>4. rank \in Injection(S, 1..N)
  <2>1. rank \in [S -> 1..N]
    BY <1>1, <1>2
  <2>2. ASSUME NEW x \in S, NEW y \in S, rank[x] = rank[y] PROVE x = y
    <3>1. Cardinality(Below(x)) = Cardinality(Below(y))
      BY <1>1, <1>2, <2>2
    <3>2. ~(x < y) /\ ~(y < x)
      BY <1>1, <1>2, <1>3, <3>1
    <3> QED
      BY <3>2
  <2> HIDE DEF rank
  <2> QED
    BY <2>1, <2>2 DEF Injection, IsInjective
<1>5. \A n \in 1..N : \E x \in S : rank[x] = n
  <2>1. IsFiniteSet(1..N) /\ Cardinality(1..N) = N
    BY <1>1, FS_Interval
  <2>2. rank \in Surjection(S, 1..N)
    BY <1>4, <2>1, FS_Injection
  <2> HIDE DEF rank, N
  <2> QED
    BY <2>2 DEF Surjection
<1>6. Ascending(S) = [n \in 1..N |-> CHOOSE x \in S : Cardinality(Below(x)) = n - 1]
  BY Zenon DEF Ascending, Below
<1>7. ASSUME NEW n \in 1..N
      PROVE  Ascending(S)[n] \in S /\ Cardinality(Below(Ascending(S)[n])) = n - 1
  <2>1. PICK x \in S : rank[x] = n
    BY <1>5
  <2>2. Cardinality(Below(x)) = n - 1
    BY <1>1, <1>2, <2>1
  <2>3. Ascending(S)[n] = CHOOSE z \in S : Cardinality(Below(z)) = n - 1
    BY <1>6
  <2> QED
    BY <2>2, <2>3
<1> HIDE DEF rank, N
<1>8. Ascending(S) \in [1..N -> S]
  BY <1>6, <1>7
<1>9. Ascending(S) \in Seq(S) /\ Len(Ascending(S)) = N
  BY <1>1, <1>8
<1>10. \A m, n \in 1..N : Ascending(S)[m] = Ascending(S)[n] => m = n
  BY <1>1, <1>7
<1> QED
  BY <1>1, <1>9, <1>10 DEF N

LEMMA ReverseFacts ==
    ASSUME NEW S, NEW s \in Seq(S)
    PROVE  /\ Reverse(s) \in Seq(S) /\ Len(Reverse(s)) = Len(s)
           /\ \A n \in 1..Len(s) : Reverse(s)[n] = s[Len(s) - n + 1] /\ Len(s) - n + 1 \in 1..Len(s)
<1>1. Len(s) \in Nat /\ \A n \in 1..Len(s) : s[n] \in S
  OBVIOUS
<1>2. \A n \in 1..Len(s) : Len(s) - n + 1 \in 1..Len(s)
  BY <1>1
<1>3. Reverse(s) = [n \in 1..Len(s) |-> s[Len(s) - n + 1]]
  BY DEF Reverse
<1>4. Reverse(s) \in [1..Len(s) -> S]
  BY <1>1, <1>2, <1>3
<1> QED
  BY <1>1, <1>2, <1>3, <1>4

\* No element twice.
Distinct(s) == \A a, b \in 1..Len(s) : s[a] = s[b] => a = b

LEMMA NewestFirstFacts ==
    ASSUME NEW S \in SUBSET Nat, IsFiniteSet(S)
    PROVE  NewestFirst(S) \in Seq(S) /\ Distinct(NewestFirst(S))
<1>1. /\ Ascending(S) \in Seq(S) /\ Len(Ascending(S)) = Cardinality(S) /\ Cardinality(S) \in Nat
      /\ \A m, n \in 1..Cardinality(S) : Ascending(S)[m] = Ascending(S)[n] => m = n
  BY AscendingFacts
<1> DEFINE s == Ascending(S)
           N == Cardinality(S)
<1>2. /\ Reverse(s) \in Seq(S) /\ Len(Reverse(s)) = N
      /\ \A n \in 1..N : Reverse(s)[n] = s[N - n + 1] /\ N - n + 1 \in 1..N
  BY <1>1, ReverseFacts
<1> HIDE DEF s
<1>3. ASSUME NEW m \in 1..N, NEW n \in 1..N, Reverse(s)[m] = Reverse(s)[n] PROVE m = n
  <2>1. N - m + 1 = N - n + 1
    BY <1>1, <1>2, <1>3 DEF s
  <2> QED
    BY <1>1, <2>1
<1> QED
  BY <1>2, <1>3 DEF NewestFirst, Distinct, s

LEMMA PickedFacts ==
    ASSUME NEW S, NEW l \in Seq(S), NEW P \in SUBSET (DOMAIN l)
    PROVE  /\ Picked(l, P) \in Seq(S)
           /\ \A m \in 1..Len(Picked(l, P)) : \E a \in P : Picked(l, P)[m] = l[a]
           /\ Distinct(l) => Distinct(Picked(l, P))
<1>1. DOMAIN l = 1..Len(l) /\ Len(l) \in Nat /\ \A n \in 1..Len(l) : l[n] \in S
  OBVIOUS
<1>2. IsFiniteSet(P) /\ P \in SUBSET Nat
  <2>1. IsFiniteSet(1..Len(l))
    BY <1>1, FS_Interval
  <2>2. P \in SUBSET (1..Len(l))
    BY <1>1
  <2>3. IsFiniteSet(P)
    BY <2>1, <2>2, FS_Subset
  <2> QED
    BY <1>1, <2>2, <2>3
<1> DEFINE N == Cardinality(P)
           s == Ascending(P)
<1>3. /\ N \in Nat /\ s \in Seq(P) /\ Len(s) = N
      /\ \A m, n \in 1..N : s[m] = s[n] => m = n
  BY <1>2, AscendingFacts
<1>4. Picked(l, P) = [n \in 1..N |-> l[s[n]]]
  BY DEF Picked
<1> HIDE DEF N, s
<1>5. \A n \in 1..N : s[n] \in P /\ s[n] \in 1..Len(l)
  BY <1>1, <1>3
<1>6. Picked(l, P) \in [1..N -> S]
  BY <1>1, <1>4, <1>5
<1>7. Picked(l, P) \in Seq(S) /\ Len(Picked(l, P)) = N
  BY <1>3, <1>6
<1>8. ASSUME Distinct(l), NEW m \in 1..N, NEW n \in 1..N, l[s[m]] = l[s[n]] PROVE m = n
  <2>1. s[m] = s[n]
    BY <1>5, <1>8 DEF Distinct
  <2> QED
    BY <1>3, <2>1
<1> QED
  BY <1>4, <1>5, <1>7, <1>8 DEF Distinct

\* A stretch of s from position a to position b.
LEMMA StretchFacts ==
    ASSUME NEW S, NEW s \in Seq(S), NEW a \in 1..(Len(s) + 1), NEW b \in (a - 1)..Len(s)
    PROVE  /\ SubSeq(s, a, b) \in Seq(S) /\ Len(SubSeq(s, a, b)) = b - a + 1
           /\ \A m \in 1..Len(SubSeq(s, a, b)) : \E n \in 1..Len(s) : SubSeq(s, a, b)[m] = s[n]
           /\ Distinct(s) => Distinct(SubSeq(s, a, b))
<1> DEFINE t == SubSeq(s, a, b)
<1>0. Len(s) \in Nat /\ a \in Nat /\ b \in Nat /\ \A n \in 1..Len(s) : s[n] \in S
  OBVIOUS
<1>1. t = [m \in 1..(b - a + 1) |-> s[a + m - 1]]
  BY <1>0
<1>2. \A m \in 1..(b - a + 1) : a + m - 1 \in 1..Len(s)
  BY <1>0
<1>3. t \in [1..(b - a + 1) -> S]
  BY <1>0, <1>1, <1>2
<1>4. t \in Seq(S) /\ Len(t) = b - a + 1
  BY <1>0, <1>3
<1>5. \A m \in 1..(b - a + 1) : t[m] = s[a + m - 1]
  BY <1>1
<1> HIDE DEF t
<1>6. ASSUME Distinct(s), NEW m \in 1..(b - a + 1), NEW n \in 1..(b - a + 1), t[m] = t[n]
      PROVE  m = n
  <2>1. a + m - 1 = a + n - 1
    BY <1>2, <1>5, <1>6 DEF Distinct
  <2> QED
    BY <1>0, <2>1
<1>7. Distinct(s) => Distinct(t)
  BY <1>4, <1>6 DEF Distinct
<1>8. \A m \in 1..Len(t) : \E n \in 1..Len(s) : t[m] = s[n]
  BY <1>2, <1>4, <1>5
<1> QED
  BY <1>4, <1>7, <1>8 DEF t

LEMMA LastOfFacts ==
    ASSUME NEW S, NEW s \in Seq(S), NEW k \in Nat
    PROVE  /\ LastOf(s, k) \in Seq(S) /\ Len(LastOf(s, k)) <= k
           /\ \A m \in 1..Len(LastOf(s, k)) : \E n \in 1..Len(s) : LastOf(s, k)[m] = s[n]
           /\ Distinct(s) => Distinct(LastOf(s, k))
<1> DEFINE a == IF Len(s) > k THEN Len(s) - k + 1 ELSE 1
<1>1. Len(s) \in Nat
  OBVIOUS
<1>2. a \in 1..(Len(s) + 1) /\ Len(s) \in (a - 1)..Len(s) /\ Len(s) - a + 1 <= k
  BY <1>1
<1>3. LastOf(s, k) = SubSeq(s, a, Len(s))
  BY DEF LastOf
<1> HIDE DEF a
<1> QED
  BY <1>2, <1>3, StretchFacts

\* Records of one list follow those of another.
LEMMA JoinFacts ==
    ASSUME NEW S, NEW s \in Seq(S), NEW t \in Seq(S)
    PROVE  /\ s \o t \in Seq(S)
           /\ \A m \in 1..Len(s \o t) : (\E n \in 1..Len(s) : (s \o t)[m] = s[n])
                                        \/ (\E n \in 1..Len(t) : (s \o t)[m] = t[n])
           /\ Distinct(s) /\ Distinct(t) /\ (\A m \in 1..Len(s), n \in 1..Len(t) : s[m] # t[n])
                => Distinct(s \o t)
<1>1. /\ s \o t \in Seq(S) /\ Len(s \o t) = Len(s) + Len(t)
      /\ \A m \in 1..(Len(s) + Len(t)) : (s \o t)[m] = IF m <= Len(s) THEN s[m] ELSE t[m - Len(s)]
  BY ConcatProperties
<1>2. Len(s) \in Nat /\ Len(t) \in Nat
  OBVIOUS
<1> DEFINE w == s \o t
<1>3. \A m \in 1..(Len(s) + Len(t)) :
        \/ m \in 1..Len(s) /\ w[m] = s[m]
        \/ m - Len(s) \in 1..Len(t) /\ w[m] = t[m - Len(s)]
  BY <1>1, <1>2
<1> HIDE DEF w
<1>4. ASSUME Distinct(s), Distinct(t), \A m \in 1..Len(s), n \in 1..Len(t) : s[m] # t[n],
             NEW m \in 1..(Len(s) + Len(t)), NEW n \in 1..(Len(s) + Len(t)), w[m] = w[n]
      PROVE  m = n
  <2>1. CASE m \in 1..Len(s) /\ w[m] = s[m]
    BY <1>3, <1>4, <2>1 DEF Distinct
  <2>2. CASE m - Len(s) \in 1..Len(t) /\ w[m] = t[m - Len(s)]
    <3>1. CASE n \in 1..Len(s) /\ w[n] = s[n]
      BY <1>4, <2>2, <3>1
    <3>2. CASE n - Len(s) \in 1..Len(t) /\ w[n] = t[n - Len(s)]
      <4>1. m - Len(s) = n - Len(s)
        BY <1>4, <2>2, <3>2 DEF Distinct
      <4> QED
        BY <1>2, <4>1
    <3> QED
      BY <1>3, <3>1, <3>2
  <2> QED
    BY <1>3, <2>1, <2>2
<1> QED
  BY <1>1, <1>3, <1>4 DEF Distinct, w

LEMMA AppendFacts ==
    ASSUME NEW S, NEW s \in Seq(S), NEW x \in S
    PROVE  /\ Append(s, x) \in Seq(S) /\ Len(Append(s, x)) = Len(s) + 1 /\ Len(s) \in Nat
           /\ \A n \in 1..Len(s) : Append(s, x)[n] = s[n]
           /\ Append(s, x)[Len(s) + 1] = x
           /\ ToSet(Append(s, x)) = ToSet(s) \cup {x}
           /\ Distinct(s) /\ x \notin ToSet(s) => Distinct(Append(s, x))
<1>1. /\ Append(s, x) \in Seq(S) /\ Len(Append(s, x)) = Len(s) + 1 /\ Len(s) \in Nat
      /\ \A n \in 1..Len(s) : Append(s, x)[n] = s[n]
      /\ Append(s, x)[Len(s) + 1] = x
  OBVIOUS
<1>2. ToSet(s) = {s[n] : n \in 1..Len(s)}
      /\ ToSet(Append(s, x)) = {Append(s, x)[n] : n \in 1..(Len(s) + 1)}
  BY <1>1 DEF ToSet
<1>3. 1..(Len(s) + 1) = (1..Len(s)) \cup {Len(s) + 1}
  BY <1>1
<1>4. ToSet(Append(s, x)) = ToSet(s) \cup {x}
  BY <1>1, <1>2, <1>3
<1>5. Distinct(s) /\ x \notin ToSet(s) => Distinct(Append(s, x))
  BY <1>1, <1>2, <1>3 DEF Distinct
<1> QED
  BY <1>1, <1>4, <1>5

LEMMA PrunedFacts ==
    ASSUME NEW i, NEW S, NEW l \in Seq(S)
    PROVE  /\ Pruned(i, l) \in Seq(S) /\ ToSet(Pruned(i, l)) \subseteq ToSet(l)
           /\ Distinct(l) => Distinct(Pruned(i, l))
<1> DEFINE closed == {n \in DOMAIN l : mem[i][l[n]].status = "closed"}
           open == DOMAIN l \ closed
           o == Picked(l, open)
           c == Picked(l, closed)
           s == LastOf(o, PruneTarget)
           k == PruneTarget - Len(s)
           t == LastOf(c, k)
<1>0. Pruned(i, l) = IF Len(l) <= ListMax THEN l ELSE s \o t
  BY DEF Pruned
<1>1. /\ closed \in SUBSET (DOMAIN l) /\ open \in SUBSET (DOMAIN l) /\ DOMAIN l = 1..Len(l)
      /\ open \cap closed = {}
  OBVIOUS
<1> HIDE DEF closed, open
<1>2. /\ o \in Seq(S) /\ (Distinct(l) => Distinct(o))
      /\ \A m \in 1..Len(o) : \E a \in open : o[m] = l[a]
  BY <1>1, PickedFacts
<1>3. /\ c \in Seq(S) /\ (Distinct(l) => Distinct(c))
      /\ \A m \in 1..Len(c) : \E a \in closed : c[m] = l[a]
  BY <1>1, PickedFacts
<1> HIDE DEF o, c
<1>4. /\ s \in Seq(S) /\ Len(s) <= PruneTarget /\ (Distinct(o) => Distinct(s))
      /\ \A m \in 1..Len(s) : \E n \in 1..Len(o) : s[m] = o[n]
  BY <1>2, LastOfFacts, BoundsAssumption
<1>5. k \in Nat
  <2>1. Len(s) \in Nat
    BY <1>4
  <2> QED
    BY <1>4, <2>1, BoundsAssumption
<1>6. /\ t \in Seq(S) /\ (Distinct(c) => Distinct(t))
      /\ \A m \in 1..Len(t) : \E n \in 1..Len(c) : t[m] = c[n]
  <2> HIDE DEF k
  <2> QED
    BY <1>3, <1>5, LastOfFacts
<1> HIDE DEF s, t
<1>7. \A m \in 1..Len(s) : \E a \in open : s[m] = l[a]
  BY <1>2, <1>4
<1>8. \A m \in 1..Len(t) : \E a \in closed : t[m] = l[a]
  BY <1>3, <1>6
<1>9. Distinct(l) => \A m \in 1..Len(s), n \in 1..Len(t) : s[m] # t[n]
  BY <1>1, <1>7, <1>8 DEF Distinct
<1>10. /\ s \o t \in Seq(S)
       /\ \A m \in 1..Len(s \o t) : \E a \in DOMAIN l : (s \o t)[m] = l[a]
       /\ Distinct(l) => Distinct(s \o t)
  <2>1. /\ s \o t \in Seq(S)
        /\ \A m \in 1..Len(s \o t) : (\E n \in 1..Len(s) : (s \o t)[m] = s[n])
                                     \/ (\E n \in 1..Len(t) : (s \o t)[m] = t[n])
        /\ Distinct(s) /\ Distinct(t) /\ (\A m \in 1..Len(s), n \in 1..Len(t) : s[m] # t[n])
             => Distinct(s \o t)
    BY <1>4, <1>6, JoinFacts
  <2>2. \A m \in 1..Len(s \o t) : \E a \in DOMAIN l : (s \o t)[m] = l[a]
    <3> DEFINE w == s \o t
    <3>1. \A m \in 1..Len(w) : (\E n \in 1..Len(s) : w[m] = s[n])
                               \/ (\E n \in 1..Len(t) : w[m] = t[n])
      BY <2>1
    <3>2. open \subseteq DOMAIN l /\ closed \subseteq DOMAIN l
      BY <1>1
    <3> HIDE DEF w
    <3>3. \A m \in 1..Len(w) : \E a \in DOMAIN l : w[m] = l[a]
      BY <1>7, <1>8, <3>1, <3>2
    <3> QED
      BY <3>3 DEF w
  <2>3. Distinct(l) => Distinct(s \o t)
    BY <1>2, <1>3, <1>4, <1>6, <1>9, <2>1
  <2> QED
    BY <2>1, <2>2, <2>3
<1>11. ToSet(s \o t) \subseteq ToSet(l)
  BY <1>10 DEF ToSet
<1> QED
  BY <1>0, <1>10, <1>11

LEMMA HydratedFacts ==
    ASSUME NEW k
    PROVE  /\ Hydrated(k) \in Seq(Record) /\ ToSet(Hydrated(k)) \subseteq Rows(k)
           /\ Distinct(Hydrated(k))
<1> DEFINE rows == NewestFirst(Rows(k))
           b == IF Len(rows) < HydrateLimit THEN Len(rows) ELSE HydrateLimit
<1>1. IsFiniteSet(Rows(k)) /\ Rows(k) \in SUBSET Nat /\ Rows(k) \in SUBSET Record
  <2>1. Rows(k) \in SUBSET Record /\ IsFiniteSet(Record) /\ Record \subseteq Nat
    BY FS_Interval, BoundsAssumption DEF Rows, Record
  <2> QED
    BY <2>1, FS_Subset
<1>2. rows \in Seq(Rows(k)) /\ Distinct(rows)
  BY <1>1, NewestFirstFacts
<1>3. Hydrated(k) = SubSeq(rows, 1, b)
  BY DEF Hydrated
<1> HIDE DEF rows
<1>4. Len(rows) \in Nat /\ b \in 0..Len(rows)
  BY <1>2, BoundsAssumption
<1> HIDE DEF b
<1>5. Hydrated(k) \in Seq(Rows(k)) /\ Distinct(Hydrated(k))
  BY <1>2, <1>3, <1>4, StretchFacts
<1> QED
  BY <1>1, <1>5 DEF ToSet

\* The first message leaves an inbox, the others move up.
LEMMA TailFacts ==
    ASSUME NEW S, NEW s \in Seq(S), s # << >>
    PROVE  /\ Tail(s) \in Seq(S) /\ Head(s) \in S /\ 1 \in 1..Len(s) /\ Head(s) = s[1]
           /\ \A n \in 1..Len(Tail(s)) : n + 1 \in 1..Len(s) /\ Tail(s)[n] = s[n + 1]
           /\ \A n \in 1..Len(s) : n = 1 \/ (n - 1 \in 1..Len(Tail(s)) /\ s[n] = Tail(s)[n - 1])
OBVIOUS

----------------------------------------------------------------------------
(* Values, requests and lists as the actions change them.                   *)

LEMMA ArgFacts ==
    ASSUME NEW op \in Op, NEW k, NEW arg \in ArgsFor(op, k)
    PROVE  /\ arg \in Rec
           /\ Creates(op) => arg.status = "open"
           /\ op \in {"accept", "update"} => k # "sos"
<1>1. CASE op = "create" /\ k # "lost"
  BY <1>1 DEF ArgsFor, Creates, Rec, Status
<1>2. CASE Creates(op) /\ k = "lost"
  BY <1>2 DEF ArgsFor, Creates, Rec, Status
<1>3. CASE op = "wa_lost" /\ k # "lost"
  BY <1>3 DEF ArgsFor, Creates
<1>4. CASE op = "assign"
  BY <1>4 DEF ArgsFor, Creates, Rec, Status
<1>5. CASE op = "resolve"
  BY <1>5 DEF ArgsFor, Creates, Rec, Status
<1>6. CASE op = "accept"
  BY <1>6 DEF ArgsFor, Creates, Rec, Status
<1>7. CASE op = "update"
  BY <1>7 DEF ArgsFor, Creates, Rec, Status
<1> QED
  BY <1>1, <1>2, <1>3, <1>4, <1>5, <1>6, <1>7 DEF Op, Creates

LEMMA ValueFacts ==
    ASSUME NEW op \in Op, NEW arg \in Rec, NEW old, Creates(op) \/ old \in Rec
    PROVE  PgValue(op, arg, old) \in Rec /\ MemValue(op, arg, old) \in Rec
<1>1. CASE Creates(op)
  BY <1>1 DEF PgValue, MemValue, Creates
<1>2. CASE op = "assign"
  BY <1>2 DEF PgValue, MemValue, Creates, Rec, Status
<1>3. CASE op = "accept"
  BY <1>3 DEF PgValue, MemValue, Creates, Rec, Status
<1>4. CASE op = "resolve"
  BY <1>4 DEF PgValue, MemValue, Creates, Rec, Status
<1>5. CASE op = "update"
  BY <1>5 DEF PgValue, MemValue, Creates, Rec, Status
<1> QED
  BY <1>1, <1>2, <1>3, <1>4, <1>5 DEF Op, Creates

LEMMA IdleFacts == Idle \in RequestType /\ Idle.pc = "idle"
BY DEF Idle, RequestType, Op, Rec, Status

\* A request goes on to its next step.
LEMMA PcFacts ==
    ASSUME Types, NEW q \in Request, NEW pc \in {"resume", "send"},
           req' = [req EXCEPT ![q].pc = pc]
    PROVE  /\ req' \in [Request -> RequestType]
           /\ \A p \in Request : p # q => req'[p] = req[p]
           /\ req'[q].pc = pc /\ req'[q].inst = req[q].inst /\ req'[q].op = req[q].op
           /\ req'[q].id = req[q].id /\ req'[q].arg = req[q].arg /\ req'[q].data = req[q].data
<1>1. req[q] \in RequestType
  BY DEF Types, InstanceTypes
<1> DEFINE new == [req[q] EXCEPT !.pc = pc]
<1>2. /\ new \in RequestType /\ new.pc = pc /\ new.inst = req[q].inst /\ new.op = req[q].op
      /\ new.id = req[q].id /\ new.arg = req[q].arg /\ new.data = req[q].data
  BY <1>1 DEF RequestType
<1>3. req' = [req EXCEPT ![q] = new]
  OBVIOUS
<1> HIDE DEF new
<1> QED
  BY <1>2, <1>3 DEF Types, InstanceTypes

\* A record is appended to list k of instance i.
ListsOneMore(i, k, id) == list' = [list EXCEPT ![i][k] = Append(@, id)]

LEMMA Appends ==
    ASSUME Types, NEW i \in Instance, NEW k \in Kind, NEW id \in Record, ListsOneMore(i, k, id)
    PROVE  /\ list' \in [Instance -> [Kind -> Seq(Record)]]
           /\ \A j \in Instance, c \in Kind : j # i \/ c # k => list'[j][c] = list[j][c]
           /\ NoDuplicateRecords /\ id \notin Listed(i) => NoDuplicateRecords'
<1>1. list[i] \in [Kind -> Seq(Record)] /\ list[i][k] \in Seq(Record)
  BY DEF Types, InstanceTypes
<1> DEFINE s == list[i][k]
           new == Append(s, id)
<1>2. /\ new \in Seq(Record) /\ ToSet(new) = ToSet(s) \cup {id}
      /\ Distinct(s) /\ id \notin ToSet(s) => Distinct(new)
  BY <1>1, AppendFacts
<1>3. list' = [list EXCEPT ![i] = [list[i] EXCEPT ![k] = new]]
  BY DEF ListsOneMore
<1> HIDE DEF new
<1>4. /\ list' \in [Instance -> [Kind -> Seq(Record)]]
      /\ list'[i][k] = new
      /\ \A j \in Instance, c \in Kind : j # i \/ c # k => list'[j][c] = list[j][c]
  BY <1>1, <1>2, <1>3 DEF Types, InstanceTypes
<1>5. ASSUME NoDuplicateRecords, id \notin Listed(i) PROVE NoDuplicateRecords'
  <2>1. \A j \in Instance, c \in Kind : Distinct(list[j][c])
    BY <1>5 DEF NoDuplicateRecords, Distinct
  <2>2. id \notin ToSet(s)
    BY <1>5 DEF Listed
  <2>3. \A j \in Instance, c \in Kind : Distinct(list'[j][c])
    BY <1>2, <1>4, <2>1, <2>2
  <2> QED
    BY <2>3 DEF NoDuplicateRecords, Distinct
<1> QED
  BY <1>4, <1>5

LEMMA AppendsTo ==
    ASSUME Types, NEW i \in Instance, NEW k \in Kind, NEW id \in Record, ListsOneMore(i, k, id)
    PROVE  ToSet(list'[i][k]) = ToSet(list[i][k]) \cup {id}
<1>1. list[i] \in [Kind -> Seq(Record)] /\ list[i][k] \in Seq(Record)
  BY DEF Types, InstanceTypes
<1> DEFINE new == Append(list[i][k], id)
<1>2. ToSet(new) = ToSet(list[i][k]) \cup {id}
  BY <1>1, AppendFacts
<1>3. list' = [list EXCEPT ![i] = [list[i] EXCEPT ![k] = new]]
  BY DEF ListsOneMore
<1> HIDE DEF new
<1>4. list'[i][k] = new
  BY <1>1, <1>3 DEF Types, InstanceTypes
<1> QED
  BY <1>2, <1>4

LEMMA AppendsListed ==
    ASSUME Types, NEW i \in Instance, NEW k \in Kind, NEW id \in Record, ListsOneMore(i, k, id),
           NEW j \in Instance
    PROVE  Listed(j)' = IF j = i THEN Listed(j) \cup {id} ELSE Listed(j)
<1>a. ToSet(list'[i][k]) = ToSet(list[i][k]) \cup {id}
  BY AppendsTo
<1>b. \A l \in Instance, c \in Kind : l # i \/ c # k => list'[l][c] = list[l][c]
  BY Appends
<1>1. /\ \A d : d \in Listed(j)' <=> \E c \in Kind : d \in ToSet(list'[j][c])
      /\ \A d : d \in Listed(j) <=> \E c \in Kind : d \in ToSet(list[j][c])
  BY DEF Listed
<1>2. CASE j = i
  <2>1. \A c \in Kind : \A d : d \in ToSet(list'[j][c]) <=>
          d \in ToSet(list[j][c]) \/ (c = k /\ d = id)
    BY <1>a, <1>b, <1>2
  <2>2. \A d : d \in Listed(j)' <=> d \in Listed(j) \/ d = id
    BY <1>1, <2>1
  <2> QED
    BY <1>2, <2>2
<1>3. CASE j # i
  <2>1. Listed(j)' = Listed(j)
    BY <1>b, <1>3 DEF Listed
  <2> QED
    BY <1>3, <2>1
<1> QED
  BY <1>2, <1>3
----------------------------------------------------------------------------
(* Types.                                                                   *)

LEMMA CreatedFacts ==
    ASSUME SharedTypes
    PROVE  nextId \in Nat /\ Created \subseteq Record /\ \A id \in Created : id \in Record
BY BoundsAssumption DEF SharedTypes, Created, Record

LEMMA SequencesInit ==
    << >> \in Seq(Record) /\ << >> \in Seq(Message) /\ ToSet(<< >>) = {} /\ Len(<< >>) = 0
BY DEF ToSet

LEMMA TypesInit == Init => Types
<1> SUFFICES ASSUME Init PROVE Types
  OBVIOUS
<1>1. SharedTypes
  BY BoundsAssumption DEF Init, SharedTypes
<1>2. InstanceTypes
  BY SequencesInit, IdleFacts DEF Init, InstanceTypes
<1> QED
  BY <1>1, <1>2 DEF Types

LEMMA BeginFacts ==
    ASSUME Types, NEW q \in Request, NEW i \in Instance, NEW op \in Op, NEW id \in Nat,
           NEW arg \in Rec, Begin(q, i, op, id, arg)
    PROVE  /\ req' \in [Request -> RequestType] /\ begun' \in 0..MaxRequests
           /\ \A p \in Request : p # q => req'[p] = req[p]
           /\ req'[q].pc = "pg" /\ req'[q].inst = i /\ req'[q].op = op
           /\ req'[q].id = id /\ req'[q].arg = arg
<1> DEFINE new == [pc |-> "pg", inst |-> i, op |-> op, id |-> id, arg |-> arg, data |-> NoRec]
<1>1. new \in RequestType /\ new.pc = "pg" /\ new.inst = i /\ new.op = op
      /\ new.id = id /\ new.arg = arg
  BY DEF RequestType
<1>2. req' = [req EXCEPT ![q] = new] /\ begun < MaxRequests /\ begun' = begun + 1
  BY DEF Begin
<1> HIDE DEF new
<1> QED
  BY <1>1, <1>2, BoundsAssumption DEF Types, InstanceTypes, SharedTypes

LEMMA StartCreateFacts ==
    ASSUME ListInv, NEW q \in Request, NEW i \in Instance, StartCreate(q, i)
    PROVE  /\ Types' /\ i \in up /\ nextId \in Record /\ nextId' = nextId + 1 /\ begun' \in 0..MaxRequests
           /\ UNCHANGED <<pg, stream, up, sub, list, index, mem, inbox, faults, unsaved>>
           /\ ~Active(q)
           /\ \A p \in Request : p # q => req'[p] = req[p]
           /\ req'[q].pc = "pg" /\ req'[q].inst = i /\ req'[q].id = nextId
           /\ Creates(req'[q].op) /\ req'[q].arg.status = "open"
           /\ kind'[nextId] \in Kind /\ \A id \in Record : id # nextId => kind'[id] = kind[id]
           /\ \/ req'[q].op = "create" /\ disturbed' = disturbed
              \/ /\ req'[q].op = "wa_lost" /\ kind'[nextId] = "lost"
                 /\ disturbed' = disturbed \cup {nextId}
<1>1. PICK op \in {"create", "wa_lost"}, k \in Kind :
        /\ op = "wa_lost" => k = "lost"
        /\ kind' = [kind EXCEPT ![nextId] = k]
        /\ \E arg \in ArgsFor(op, k) : Begin(q, i, op, nextId, arg)
        /\ disturbed' = IF op = "wa_lost" THEN disturbed \cup {nextId} ELSE disturbed
  BY Zenon DEF StartCreate
<1>2. PICK arg \in ArgsFor(op, k) : Begin(q, i, op, nextId, arg)
  BY <1>1
<1>3. op \in Op /\ Creates(op)
  BY DEF Op, Creates
<1>4. arg \in Rec /\ arg.status = "open"
  BY <1>3, ArgFacts
<1>5. /\ req[q].pc = "idle" /\ i \in up /\ nextId \in Record /\ nextId' = nextId + 1
      /\ UNCHANGED <<pg, stream, up, sub, list, index, mem, inbox, faults, unsaved>>
  BY Zenon DEF StartCreate
<1>6. Types /\ nextId \in Nat
  BY CreatedFacts DEF ListInv, Types
<1>7. /\ req' \in [Request -> RequestType] /\ begun' \in 0..MaxRequests
      /\ \A p \in Request : p # q => req'[p] = req[p]
      /\ req'[q].pc = "pg" /\ req'[q].inst = i /\ req'[q].op = op
      /\ req'[q].id = nextId /\ req'[q].arg = arg
  BY <1>2, <1>3, <1>4, <1>6, BeginFacts
<1>8. /\ kind' \in [Record -> Kind \cup {Nobody}] /\ kind'[nextId] = k
      /\ \A id \in Record : id # nextId => kind'[id] = kind[id]
  BY <1>1, <1>5, <1>6 DEF Types, SharedTypes
<1>9. nextId' \in 1..(MaxRecords + 1)
  BY <1>5, BoundsAssumption DEF Record
<1>10. Types'
  BY <1>5, <1>6, <1>7, <1>8, <1>9 DEF Types, SharedTypes, InstanceTypes
<1> QED
  BY <1>1, <1>3, <1>4, <1>5, <1>7, <1>8, <1>10 DEF Active

LEMMA StartUpdateFacts ==
    ASSUME ListInv, NEW q \in Request, NEW i \in Instance, StartUpdate(q, i)
    PROVE  /\ Types' /\ i \in up /\ ~Active(q)
           /\ UNCHANGED <<pg, stream, up, sub, list, index, mem, inbox, kind, nextId, faults>>
           /\ \A p \in Request : p # q => req'[p] = req[p]
           /\ req'[q].pc = "pg" /\ req'[q].inst = i /\ req'[q].id \in Created
           /\ req'[q].op \in {"assign", "resolve", "accept", "update"}
           /\ req'[q].op = "assign" => req'[q].id \in index[i]
           /\ req'[q].op \in {"accept", "update"} => kind[req'[q].id] # "sos"
           /\ req'[q].op = "resolve" /\ kind[req'[q].id] = "sos" => req'[q].arg.status = "closed"
           /\ disturbed' = IF Quiet(req'[q].id) THEN disturbed ELSE disturbed \cup {req'[q].id}
           /\ unsaved' = IF stream[req'[q].id] = NoRec THEN unsaved ELSE unsaved \cup {req'[q].id}
<1>1. PICK id \in 1..(nextId - 1), op \in {"assign", "resolve", "accept", "update"} :
        /\ op = "assign" => id \in index[i]
        /\ \E arg \in ArgsFor(op, kind[id]) : Begin(q, i, op, id, arg)
        /\ disturbed' = IF Quiet(id) THEN disturbed ELSE disturbed \cup {id}
        /\ unsaved' = IF stream[id] = NoRec THEN unsaved ELSE unsaved \cup {id}
  BY Zenon DEF StartUpdate
<1>2. PICK arg \in ArgsFor(op, kind[id]) : Begin(q, i, op, id, arg)
  BY <1>1
<1>3. op \in Op
  BY DEF Op
<1>4. arg \in Rec /\ (op \in {"accept", "update"} => kind[id] # "sos")
  BY <1>3, ArgFacts
<1>5. op = "resolve" /\ kind[id] = "sos" => arg.status = "closed"
  BY DEF ArgsFor, Creates
<1>6. /\ req[q].pc = "idle" /\ i \in up
      /\ UNCHANGED <<pg, stream, up, sub, list, index, mem, inbox, kind, nextId, faults>>
  BY Zenon DEF StartUpdate
<1>7. Types /\ id \in Nat /\ id \in Created
  BY DEF ListInv, Created
<1>8. /\ req' \in [Request -> RequestType] /\ begun' \in 0..MaxRequests
      /\ \A p \in Request : p # q => req'[p] = req[p]
      /\ req'[q].pc = "pg" /\ req'[q].inst = i /\ req'[q].op = op
      /\ req'[q].id = id /\ req'[q].arg = arg
  BY <1>2, <1>3, <1>4, <1>7, BeginFacts
<1>9. Types'
  BY <1>6, <1>7, <1>8 DEF Types, SharedTypes, InstanceTypes
<1> QED
  BY <1>1, <1>4, <1>5, <1>6, <1>7, <1>8, <1>9 DEF Active

LEMMA RecordsKnown ==
    ASSUME ListInv
    PROVE  /\ \A q \in Request : Active(q) => req[q].id \in Created /\ req[q].id \in Record
                                              /\ kind[req[q].id] \in Kind /\ req[q].inst \in Instance
           /\ \A i \in Instance : \A id \in index[i] : mem[i][id] \in Rec /\ id \in Created
           /\ \A q \in Request : Active(q) => req[q].op \in Op /\ req[q].arg \in Rec
<1>1. \A id \in Created : id \in Record
  BY CreatedFacts DEF ListInv, Types
<1>2. \A q \in Request : Active(q) => req[q].id \in Created /\ req[q].inst \in up
  BY DEF ListInv, Requests
<1>3. \A id \in Created : kind[id] \in Kind
  BY <1>1 DEF ListInv, Origins
<1>4. \A i \in Instance : \A id \in index[i] : mem[i][id] \in Rec
  BY DEF ListInv, Lists
<1>5. \A i \in Instance : \A id \in index[i] : id \in Created
  BY DEF ListInv, Lists, Listed
<1>6. up \subseteq Instance /\ \A q \in Request : req[q].op \in Op /\ req[q].arg \in Rec
  BY DEF ListInv, Types, InstanceTypes, RequestType
<1> QED
  BY <1>1, <1>2, <1>3, <1>4, <1>5, <1>6

LEMMA PgStatementFacts ==
    ASSUME ListInv, NEW q \in Request, PgStatement(q)
    PROVE  /\ Types' /\ Active(q) /\ req[q].pc = "pg"
           /\ UNCHANGED <<stream, up, sub, list, index, mem, inbox, kind, nextId, disturbed>>
           /\ \A p \in Request : p # q => req'[p] = req[p]
           /\ req'[q].pc = "resume" /\ req'[q].inst = req[q].inst /\ req'[q].op = req[q].op
           /\ req'[q].id = req[q].id /\ req'[q].arg = req[q].arg
           /\ \A id \in Record : id # req[q].id => pg'[id] = pg[id]
           /\ \/ /\ unsaved' = unsaved
                 /\ pg'[req[q].id] = IF Creates(req[q].op) \/ pg[req[q].id] # NoRec
                                     THEN PgValue(req[q].op, req[q].arg, pg[req[q].id])
                                     ELSE pg[req[q].id]
              \/ unsaved' = unsaved \cup {req[q].id} /\ UNCHANGED pg
<1> DEFINE id == req[q].id
           value == IF Creates(req[q].op) \/ pg[id] # NoRec
                    THEN PgValue(req[q].op, req[q].arg, pg[id]) ELSE pg[id]
<1>1. /\ req[q].pc = "pg" /\ req' = [req EXCEPT ![q].pc = "resume"]
      /\ UNCHANGED <<stream, up, sub, list, index, mem, inbox, kind, nextId, begun, faults, disturbed>>
      /\ \/ pg' = [pg EXCEPT ![id] = value] /\ UNCHANGED unsaved
         \/ unsaved' = unsaved \cup {id} /\ UNCHANGED pg
  BY DEF PgStatement
<1>2. Active(q) /\ Types /\ id \in Record /\ req[q].op \in Op /\ req[q].arg \in Rec
  BY <1>1, RecordsKnown DEF Active, ListInv
<1>3. value \in Rec \cup {NoRec}
  BY <1>2, ValueFacts DEF Types, SharedTypes
<1>4. /\ req' \in [Request -> RequestType]
      /\ \A p \in Request : p # q => req'[p] = req[p]
      /\ req'[q].pc = "resume" /\ req'[q].inst = req[q].inst /\ req'[q].op = req[q].op
      /\ req'[q].id = req[q].id /\ req'[q].arg = req[q].arg
  BY <1>1, <1>2, PcFacts
<1> HIDE DEF value, id
<1>5. /\ pg' \in [Record -> Rec \cup {NoRec}]
      /\ \A d \in Record : d # id => pg'[d] = pg[d]
      /\ \/ unsaved' = unsaved /\ pg'[id] = value
         \/ unsaved' = unsaved \cup {id} /\ UNCHANGED pg
  BY <1>1, <1>2, <1>3 DEF Types, SharedTypes
<1>6. Types'
  BY <1>1, <1>2, <1>4, <1>5 DEF Types, SharedTypes, InstanceTypes
<1> QED
  BY <1>1, <1>2, <1>4, <1>5, <1>6 DEF id, value

\* The object of one record changes in one instance.
LEMMA Stores ==
    ASSUME Types, NEW i \in Instance, NEW id \in Record, NEW v \in Rec,
           mem' = [mem EXCEPT ![i][id] = v]
    PROVE  /\ mem' \in [Instance -> [Record -> Rec \cup {NoRec}]] /\ mem'[i][id] = v
           /\ \A j \in Instance, d \in Record : j # i \/ d # id => mem'[j][d] = mem[j][d]
<1>1. mem[i] \in [Record -> Rec \cup {NoRec}]
  BY DEF Types, InstanceTypes
<1>2. [mem[i] EXCEPT ![id] = v] \in [Record -> Rec \cup {NoRec}]
  BY <1>1
<1>3. mem' = [mem EXCEPT ![i] = [mem[i] EXCEPT ![id] = v]]
  OBVIOUS
<1> QED
  BY <1>1, <1>2, <1>3 DEF Types, InstanceTypes

LEMMA MutateFacts ==
    ASSUME ListInv, NEW q \in Request, Mutate(q)
    PROVE  /\ Types' /\ Active(q) /\ req[q].pc = "resume"
           /\ UNCHANGED <<pg, stream, up, sub, inbox, kind, nextId, disturbed, unsaved>>
           /\ \A p \in Request : p # q => req'[p] = req[p]
           /\ req'[q].pc = "send" /\ req'[q].inst = req[q].inst /\ req'[q].op = req[q].op
           /\ req'[q].id = req[q].id /\ req'[q].arg = req[q].arg
           /\ mem'[req[q].inst][req[q].id] \in Rec
           /\ mem'[req[q].inst][req[q].id]
                = MemValue(req[q].op, req[q].arg, mem[req[q].inst][req[q].id])
           /\ \A j \in Instance, d \in Record :
                j # req[q].inst \/ d # req[q].id => mem'[j][d] = mem[j][d]
           /\ \/ /\ Creates(req[q].op) /\ req[q].id \notin Listed(req[q].inst)
                 /\ ListsOneMore(req[q].inst, kind[req[q].id], req[q].id)
                 /\ index' = IF req[q].op = "create"
                             THEN [index EXCEPT ![req[q].inst] = @ \cup {req[q].id}] ELSE index
              \/ /\ ~Creates(req[q].op) /\ UNCHANGED <<list, index>>
                 /\ req[q].op # "assign" => req[q].id \in index[req[q].inst]
<1> DEFINE id == req[q].id
           i == req[q].inst
           old == mem[i][id]
<1>1. /\ req[q].pc = "resume" /\ req' = [req EXCEPT ![q].pc = "send"]
      /\ UNCHANGED <<pg, stream, up, sub, inbox, kind, nextId, begun, faults, disturbed, unsaved>>
      /\ mem' = [mem EXCEPT ![i][id] = MemValue(req[q].op, req[q].arg, old)]
      /\ \/ /\ Creates(req[q].op)
            /\ ListsOneMore(i, kind[id], id)
            /\ index' = IF req[q].op = "create" THEN [index EXCEPT ![i] = @ \cup {id}] ELSE index
         \/ /\ ~ Creates(req[q].op)
            /\ req[q].op # "assign" => id \in index[i]
            /\ UNCHANGED <<list, index>>
  BY DEF Mutate, ListsOneMore
<1>2. /\ Active(q) /\ Types /\ id \in Record /\ req[q].op \in Op /\ req[q].arg \in Rec
      /\ i \in Instance /\ kind[id] \in Kind
  BY <1>1, RecordsKnown DEF Active, ListInv
<1>3. Creates(req[q].op) \/ old \in Rec
  <2>1. CASE req[q].op = "assign"
    BY <1>2, <2>1 DEF ListInv, Requests
  <2>2. CASE id \in index[i]
    BY <1>2, <2>2, RecordsKnown
  <2> QED
    BY <1>1, <2>1, <2>2
<1>4. MemValue(req[q].op, req[q].arg, old) \in Rec
  BY <1>2, <1>3, ValueFacts
<1>5. Creates(req[q].op) => id \notin Listed(i)
  BY <1>1, <1>2 DEF ListInv, OneCreation, Creating
<1>6. /\ req' \in [Request -> RequestType]
      /\ \A p \in Request : p # q => req'[p] = req[p]
      /\ req'[q].pc = "send" /\ req'[q].inst = i /\ req'[q].op = req[q].op
      /\ req'[q].id = id /\ req'[q].arg = req[q].arg
  BY <1>1, <1>2, PcFacts
<1>7. /\ mem' \in [Instance -> [Record -> Rec \cup {NoRec}]]
      /\ mem'[i][id] = MemValue(req[q].op, req[q].arg, old)
      /\ \A j \in Instance, d \in Record : j # i \/ d # id => mem'[j][d] = mem[j][d]
  <2> DEFINE v == MemValue(req[q].op, req[q].arg, old)
  <2>1. mem' = [mem EXCEPT ![i][id] = v] /\ v \in Rec /\ i \in Instance /\ id \in Record /\ Types
    BY <1>1, <1>2, <1>4
  <2> HIDE DEF v, i, id
  <2>2. /\ mem' \in [Instance -> [Record -> Rec \cup {NoRec}]] /\ mem'[i][id] = v
        /\ \A j \in Instance, d \in Record : j # i \/ d # id => mem'[j][d] = mem[j][d]
    BY <2>1, Stores
  <2> QED
    BY <2>2 DEF v
<1> HIDE DEF id, i, old
<1>8. list' \in [Instance -> [Kind -> Seq(Record)]] /\ index' \in [Instance -> SUBSET Record]
  <2>1. CASE Creates(req[q].op)
    <3>1. ListsOneMore(i, kind[id], id)
      BY <1>1, <2>1
    <3>2. list' \in [Instance -> [Kind -> Seq(Record)]]
      BY <1>2, <3>1, Appends
    <3>3. index' = [index EXCEPT ![i] = @ \cup {id}] \/ index' = index
      BY <1>1, <2>1
    <3>4. index \in [Instance -> SUBSET Record]
      BY <1>2 DEF Types, InstanceTypes
    <3>5. index' \in [Instance -> SUBSET Record]
      BY <1>2, <3>3, <3>4
    <3> QED
      BY <3>2, <3>5
  <2>2. CASE ~Creates(req[q].op)
    BY <1>1, <1>2, <2>2 DEF Types, InstanceTypes
  <2> QED
    BY <2>1, <2>2
<1>9. Types'
  BY <1>1, <1>2, <1>6, <1>7, <1>8 DEF Types, SharedTypes, InstanceTypes
<1> QED
  BY <1>1, <1>2, <1>4, <1>5, <1>6, <1>7, <1>9 DEF id, i, old

\* A request ends.
LEMMA EndFacts ==
    ASSUME Types, NEW q \in Request, req' = [req EXCEPT ![q] = Idle]
    PROVE  /\ req' \in [Request -> RequestType] /\ ~Active(q)'
           /\ \A p \in Request : p # q => req'[p] = req[p]
BY IdleFacts DEF Types, InstanceTypes, Active

LEMMA NotFoundFacts ==
    ASSUME ListInv, NEW q \in Request, NotFound(q)
    PROVE  /\ Types' /\ Active(q) /\ ~Active(q)' /\ req[q].pc = "resume"
           /\ ~Creates(req[q].op) /\ req[q].op # "assign" /\ req[q].id \notin index[req[q].inst]
           /\ UNCHANGED <<pg, stream, up, sub, list, index, mem, inbox, kind, nextId, disturbed, unsaved>>
           /\ \A p \in Request : p # q => req'[p] = req[p]
<1>1. /\ req[q].pc = "resume" /\ ~Creates(req[q].op) /\ req[q].op # "assign"
      /\ req[q].id \notin index[req[q].inst] /\ req' = [req EXCEPT ![q] = Idle]
      /\ UNCHANGED <<pg, stream, up, sub, list, index, mem, inbox, kind, nextId, begun, faults, disturbed, unsaved>>
  BY DEF NotFound
<1>2. Types
  BY DEF ListInv
<1>3. /\ req' \in [Request -> RequestType] /\ ~Active(q)'
      /\ \A p \in Request : p # q => req'[p] = req[p]
  BY <1>1, <1>2, EndFacts
<1>4. Types'
  BY <1>1, <1>2, <1>3 DEF Types, SharedTypes, InstanceTypes
<1> QED
  BY <1>1, <1>3, <1>4 DEF Active

LEMMA SendFacts ==
    ASSUME ListInv, NEW q \in Request, Send(q)
    PROVE  /\ Types' /\ Active(q) /\ req[q].pc = "send"
           /\ UNCHANGED <<pg, stream, up, sub, list, index, mem, inbox, kind, nextId, disturbed, unsaved>>
           /\ \A p \in Request : p # q => req'[p] = req[p]
           /\ req'[q].pc = "accept" /\ req'[q].inst = req[q].inst /\ req'[q].op = req[q].op
           /\ req'[q].id = req[q].id /\ req'[q].arg = req[q].arg
           /\ req'[q].data = mem[req[q].inst][req[q].id] /\ mem[req[q].inst][req[q].id] \in Rec
<1> DEFINE data == mem[req[q].inst][req[q].id]
           mid == [req[q] EXCEPT !.pc = "accept"]
           new == [mid EXCEPT !.data = data]
<1>1. /\ req[q].pc = "send" /\ req' = [req EXCEPT ![q].pc = "accept", ![q].data = data]
      /\ UNCHANGED <<pg, stream, up, sub, list, index, mem, inbox, kind, nextId, begun, faults, disturbed, unsaved>>
  BY DEF Send
<1>2. Active(q) /\ Types /\ req[q] \in RequestType
  BY <1>1 DEF Active, ListInv, Types, InstanceTypes
<1>3. data \in Rec
  BY <1>1, <1>2 DEF ListInv, Requests
<1>4. req' = [req EXCEPT ![q] = new]
  BY <1>1, <1>2 DEF Types, InstanceTypes
<1> HIDE DEF data
<1>5. mid \in RequestType /\ mid.pc = "accept" /\ mid.inst = req[q].inst /\ mid.op = req[q].op
      /\ mid.id = req[q].id /\ mid.arg = req[q].arg
  BY <1>2 DEF RequestType
<1> HIDE DEF mid
<1>6. new \in RequestType /\ new.pc = "accept" /\ new.inst = req[q].inst /\ new.op = req[q].op
      /\ new.id = req[q].id /\ new.arg = req[q].arg /\ new.data = data
  BY <1>3, <1>5 DEF RequestType
<1> HIDE DEF new
<1>7. /\ req' \in [Request -> RequestType] /\ req'[q] = new
      /\ \A p \in Request : p # q => req'[p] = req[p]
  BY <1>2, <1>4, <1>6 DEF Types, InstanceTypes
<1>8. Types'
  BY <1>1, <1>2, <1>7 DEF Types, SharedTypes, InstanceTypes
<1> QED
  BY <1>1, <1>2, <1>3, <1>6, <1>7, <1>8 DEF data

\* What the others are told.
News(r) == [type |-> IF Creates(r.op) THEN "new" ELSE "update", id |-> r.id, data |-> r.data]

LEMMA AcceptFacts ==
    ASSUME ListInv, NEW q \in Request, Accept(q)
    PROVE  /\ Types' /\ Active(q) /\ req[q].pc = "accept" /\ req[q].data \in Rec
           /\ UNCHANGED <<pg, stream, up, sub, list, index, mem, kind, nextId, unsaved>>
           /\ \A p \in Request : p # q => req'[p] = req[p]
           /\ \/ /\ req[q].op = "create" /\ req'[q].pc = "xadd" /\ req'[q].op = "create"
                 /\ req'[q].inst = req[q].inst /\ req'[q].id = req[q].id
                 /\ req'[q].arg = req[q].arg
              \/ req[q].op # "create" /\ ~Active(q)'
           /\ \A j \in Instance : \A n \in 1..Len(inbox[j]) :
                n \in 1..Len(inbox'[j]) /\ inbox'[j][n] = inbox[j][n]
           /\ \A j \in Instance : \A n \in 1..Len(inbox'[j]) :
                \/ n \in 1..Len(inbox[j]) /\ inbox'[j][n] = inbox[j][n]
                \/ j \in sub \ {req[q].inst} /\ inbox'[j][n] = News(req[q])
           /\ \/ /\ disturbed' = IF up \ {req[q].inst} \subseteq sub
                                 THEN disturbed ELSE disturbed \cup {req[q].id}
                 /\ \A j \in sub \ {req[q].inst} :
                      \E n \in 1..Len(inbox'[j]) : inbox'[j][n] = News(req[q])
              \/ disturbed' = disturbed \cup {req[q].id}
<1> DEFINE r == req[q]
           m == News(r)
           to == sub \ {r.inst}
           new == [r EXCEPT !.pc = "xadd"]
<1>1. /\ r.pc = "accept"
      /\ req' = [req EXCEPT ![q] = IF r.op = "create" THEN new ELSE Idle]
      /\ UNCHANGED <<pg, stream, up, sub, list, index, mem, kind, nextId, begun, unsaved>>
      /\ \/ /\ inbox' = [j \in Instance |-> IF j \in to THEN Append(inbox[j], m) ELSE inbox[j]]
            /\ disturbed' = IF up \ {r.inst} \subseteq sub THEN disturbed ELSE disturbed \cup {r.id}
            /\ UNCHANGED faults
         \/ /\ faults < MaxFaults /\ faults' = faults + 1
            /\ disturbed' = disturbed \cup {r.id} /\ UNCHANGED inbox
  BY Zenon DEF Accept, News
<1>2. Active(q) /\ Types /\ r \in RequestType /\ r.id \in Record
  BY <1>1, RecordsKnown DEF Active, ListInv, Types, InstanceTypes
<1>3. r.data \in Rec
  BY <1>1, <1>2 DEF ListInv, Requests
<1>4. m \in Message
  BY <1>2, <1>3 DEF News, Message
<1>5. new \in RequestType /\ new.pc = "xadd" /\ new.op = r.op /\ new.inst = r.inst
      /\ new.id = r.id /\ new.arg = r.arg
  BY <1>2 DEF RequestType
<1> HIDE DEF m, new, to
<1>6. /\ req' \in [Request -> RequestType]
      /\ \A p \in Request : p # q => req'[p] = req[p]
      /\ \/ r.op = "create" /\ req'[q] = new
         \/ r.op # "create" /\ ~Active(q)'
  <2>1. CASE r.op = "create"
    <3>1. req' = [req EXCEPT ![q] = new]
      BY <1>1, <2>1
    <3> QED
      BY <1>2, <1>5, <2>1, <3>1 DEF Types, InstanceTypes
  <2>2. CASE r.op # "create"
    <3>1. req' = [req EXCEPT ![q] = Idle]
      BY <1>1, <2>2
    <3> QED
      BY <1>2, <2>2, <3>1, EndFacts
  <2> QED
    BY <2>1, <2>2
<1>7. inbox \in [Instance -> Seq(Message)]
  BY <1>2 DEF Types, InstanceTypes
<1>8. CASE /\ inbox' = [j \in Instance |-> IF j \in to THEN Append(inbox[j], m) ELSE inbox[j]]
           /\ disturbed' = IF up \ {r.inst} \subseteq sub THEN disturbed ELSE disturbed \cup {r.id}
           /\ UNCHANGED faults
  <2> DEFINE longer(j) == Append(inbox[j], m)
  <2>1. /\ \A j \in Instance : inbox'[j] = IF j \in to THEN longer(j) ELSE inbox[j]
        /\ inbox' = [j \in Instance |-> IF j \in to THEN longer(j) ELSE inbox[j]]
    BY <1>8
  <2>2. ASSUME NEW j \in Instance
        PROVE  /\ inbox[j] \in Seq(Message)
               /\ longer(j) \in Seq(Message) /\ Len(longer(j)) = Len(inbox[j]) + 1
               /\ Len(inbox[j]) \in Nat
               /\ \A n \in 1..Len(inbox[j]) : longer(j)[n] = inbox[j][n]
               /\ longer(j)[Len(inbox[j]) + 1] = m
    BY <1>4, <1>7, AppendFacts
  <2> HIDE DEF longer
  <2>3. inbox' \in [Instance -> Seq(Message)]
    <3>1. \A j \in Instance : (IF j \in to THEN longer(j) ELSE inbox[j]) \in Seq(Message)
      BY <2>2
    <3> QED
      BY <2>1, <3>1
  <2>4. to \subseteq Instance
    BY <1>2 DEF to, Types, InstanceTypes
  <2>5. ASSUME NEW j \in to
        PROVE  Len(inbox[j]) + 1 \in 1..Len(inbox'[j]) /\ inbox'[j][Len(inbox[j]) + 1] = m
    <3>1. inbox'[j] = longer(j) /\ j \in Instance
      BY <2>1, <2>4
    <3> QED
      BY <2>2, <3>1
  <2>6. \A j \in to : \E n \in 1..Len(inbox'[j]) : inbox'[j][n] = m
    BY <2>5
  <2>7. ASSUME NEW j \in Instance, NEW n \in 1..Len(inbox[j])
        PROVE  n \in 1..Len(inbox'[j]) /\ inbox'[j][n] = inbox[j][n]
    <3>1. CASE j \in to
      <4>1. inbox'[j] = longer(j)
        BY <2>1, <3>1
      <4> QED
        BY <2>2, <4>1
    <3>2. CASE j \notin to
      <4>1. inbox'[j] = inbox[j]
        BY <2>1, <3>2
      <4> QED
        BY <4>1
    <3> QED
      BY <3>1, <3>2
  <2>8. ASSUME NEW j \in Instance, NEW n \in 1..Len(inbox'[j])
        PROVE  \/ n \in 1..Len(inbox[j]) /\ inbox'[j][n] = inbox[j][n]
               \/ j \in to /\ inbox'[j][n] = m
    <3>1. CASE j \in to
      <4>1. inbox'[j] = longer(j)
        BY <2>1, <3>1
      <4>2. n \in 1..(Len(inbox[j]) + 1)
        BY <2>2, <4>1
      <4> QED
        BY <2>2, <3>1, <4>1, <4>2
    <3>2. CASE j \notin to
      <4>1. inbox'[j] = inbox[j]
        BY <2>1, <3>2
      <4> QED
        BY <4>1
    <3> QED
      BY <3>1, <3>2
  <2>9. Types'
    BY <1>1, <1>2, <1>6, <1>8, <2>3 DEF Types, SharedTypes, InstanceTypes
  <2> QED
    BY <1>1, <1>2, <1>3, <1>5, <1>6, <1>8, <2>6, <2>7, <2>8, <2>9 DEF m, to
<1>9. CASE /\ faults < MaxFaults /\ faults' = faults + 1
           /\ disturbed' = disturbed \cup {r.id} /\ UNCHANGED inbox
  <2>1. faults' \in 0..MaxFaults
    BY <1>2, <1>9, BoundsAssumption DEF Types, SharedTypes
  <2>2. Types'
    BY <1>1, <1>2, <1>6, <1>9, <2>1 DEF Types, SharedTypes, InstanceTypes
  <2> QED
    BY <1>1, <1>2, <1>3, <1>5, <1>6, <1>9, <2>2
<1> QED
  BY <1>1, <1>8, <1>9

LEMMA AddToStreamFacts ==
    ASSUME ListInv, NEW q \in Request, AddToStream(q)
    PROVE  /\ Types' /\ Active(q) /\ ~Active(q)' /\ req[q].pc = "xadd" /\ req[q].op = "create"
           /\ UNCHANGED <<pg, up, sub, list, index, mem, inbox, kind, nextId, disturbed, unsaved>>
           /\ \A p \in Request : p # q => req'[p] = req[p]
           /\ \A id \in Record : stream'[id] = stream[id]
                  \/ (id = req[q].id /\ stream'[id] = mem[req[q].inst][id])
<1> DEFINE id == req[q].id
           v == mem[req[q].inst][id]
<1>1. /\ req[q].pc = "xadd" /\ req' = [req EXCEPT ![q] = Idle]
      /\ UNCHANGED <<pg, up, sub, list, index, mem, inbox, kind, nextId, begun, disturbed, unsaved>>
      /\ \/ stream' = [stream EXCEPT ![id] = v] /\ UNCHANGED faults
         \/ faults < MaxFaults /\ faults' = faults + 1 /\ UNCHANGED stream
  BY DEF AddToStream
<1>2. Active(q) /\ Types /\ id \in Record
  BY <1>1, RecordsKnown DEF Active, ListInv
<1>3. v \in Rec /\ req[q].op = "create"
  BY <1>1, <1>2 DEF ListInv, Requests
<1>4. /\ req' \in [Request -> RequestType] /\ ~Active(q)'
      /\ \A p \in Request : p # q => req'[p] = req[p]
  BY <1>1, <1>2, EndFacts
<1> HIDE DEF id, v
<1>5. /\ stream' \in [Record -> Rec \cup {NoRec}] /\ faults' \in 0..MaxFaults
      /\ \A d \in Record : stream'[d] = stream[d] \/ (d = id /\ stream'[d] = v)
  BY <1>1, <1>2, <1>3, BoundsAssumption DEF Types, SharedTypes
<1>6. Types'
  BY <1>1, <1>2, <1>4, <1>5 DEF Types, SharedTypes, InstanceTypes
<1> QED
  BY <1>1, <1>2, <1>3, <1>4, <1>5, <1>6 DEF id, v

LEMMA DeliverFacts ==
    ASSUME ListInv, NEW i \in Instance, Deliver(i)
    PROVE  /\ Types' /\ 1 \in 1..Len(inbox[i]) /\ inbox[i][1] \in Message /\ i \in up
           /\ UNCHANGED <<pg, stream, up, sub, req, kind, nextId, disturbed, unsaved>>
           /\ \A j \in Instance : j # i =>
                inbox'[j] = inbox[j] /\ list'[j] = list[j] /\ index'[j] = index[j] /\ mem'[j] = mem[j]
           /\ \A n \in 1..Len(inbox'[i]) :
                n + 1 \in 1..Len(inbox[i]) /\ inbox'[i][n] = inbox[i][n + 1]
           /\ \A n \in 1..Len(inbox[i]) :
                n = 1 \/ (n - 1 \in 1..Len(inbox'[i]) /\ inbox[i][n] = inbox'[i][n - 1])
           /\ \A d \in Record : d # inbox[i][1].id => mem'[i][d] = mem[i][d]
           /\ \/ /\ inbox[i][1].type = "new" /\ inbox[i][1].id \notin index[i]
                 /\ ListsOneMore(i, kind[inbox[i][1].id], inbox[i][1].id)
                 /\ index'[i] = index[i] \cup {inbox[i][1].id}
                 /\ mem'[i][inbox[i][1].id] = inbox[i][1].data
              \/ /\ inbox[i][1].type = "update" /\ inbox[i][1].id \in index[i]
                 /\ mem'[i][inbox[i][1].id] = inbox[i][1].data
                 /\ UNCHANGED <<list, index>>
              \/ /\ inbox[i][1].type = "new" <=> inbox[i][1].id \in index[i]
                 /\ UNCHANGED <<list, index, mem>>
<1> DEFINE m == inbox[i][1]
           k == kind[m.id]
<1>1. /\ inbox[i] # << >> /\ Apply(i, Head(inbox[i]))
      /\ inbox' = [inbox EXCEPT ![i] = Tail(inbox[i])]
      /\ UNCHANGED <<pg, stream, up, sub, req, kind, nextId, begun, faults, disturbed, unsaved>>
  BY DEF Deliver
<1>2. Types /\ inbox \in [Instance -> Seq(Message)] /\ inbox[i] \in Seq(Message)
  BY DEF ListInv, Types, InstanceTypes
<1>3. /\ Tail(inbox[i]) \in Seq(Message) /\ m \in Message /\ 1 \in 1..Len(inbox[i])
      /\ Head(inbox[i]) = m
      /\ \A n \in 1..Len(Tail(inbox[i])) :
           n + 1 \in 1..Len(inbox[i]) /\ Tail(inbox[i])[n] = inbox[i][n + 1]
      /\ \A n \in 1..Len(inbox[i]) :
           n = 1 \/ (n - 1 \in 1..Len(Tail(inbox[i])) /\ inbox[i][n] = Tail(inbox[i])[n - 1])
  BY <1>1, <1>2, TailFacts
<1>4. /\ inbox' \in [Instance -> Seq(Message)] /\ inbox'[i] = Tail(inbox[i])
      /\ \A j \in Instance : j # i => inbox'[j] = inbox[j]
  BY <1>1, <1>2, <1>3
<1>5. m.id \in Record /\ m.data \in Rec /\ k \in Kind /\ i \in up
  <2>1. m.id \in Created
    BY <1>3 DEF ListInv, Origins
  <2>2. m.id \in Record /\ m.data \in Rec
    BY <1>3 DEF Message
  <2>3. i \in up
    BY <1>1 DEF ListInv, Origins
  <2> QED
    BY <2>1, <2>2, <2>3 DEF ListInv, Origins
<1>6. \/ /\ m.type = "new" /\ m.id \notin index[i]
         /\ ListsOneMore(i, k, m.id)
         /\ index' = [index EXCEPT ![i] = @ \cup {m.id}]
         /\ mem' = [mem EXCEPT ![i][m.id] = m.data]
      \/ /\ m.type = "update" /\ m.id \in index[i]
         /\ mem' = [mem EXCEPT ![i][m.id] = m.data]
         /\ UNCHANGED <<list, index>>
      \/ /\ m.type = "new" <=> m.id \in index[i]
         /\ UNCHANGED <<list, index, mem>>
  BY <1>1, <1>3 DEF Apply, ListsOneMore
<1> HIDE DEF m, k
<1>7. CASE /\ m.type = "new" /\ m.id \notin index[i]
           /\ ListsOneMore(i, k, m.id)
           /\ index' = [index EXCEPT ![i] = @ \cup {m.id}]
           /\ mem' = [mem EXCEPT ![i][m.id] = m.data]
  <2>1. /\ mem' \in [Instance -> [Record -> Rec \cup {NoRec}]] /\ mem'[i][m.id] = m.data
        /\ \A j \in Instance, d \in Record : j # i \/ d # m.id => mem'[j][d] = mem[j][d]
        /\ \A j \in Instance : j # i => mem'[j] = mem[j]
    BY <1>2, <1>5, <1>7, Stores DEF Types, InstanceTypes
  <2>2. list' \in [Instance -> [Kind -> Seq(Record)]]
    BY <1>2, <1>5, <1>7, Appends
  <2>3. \A j \in Instance : j # i => list'[j] = list[j]
    BY <1>2, <1>7 DEF Types, InstanceTypes, ListsOneMore
  <2>4. /\ index' \in [Instance -> SUBSET Record] /\ index'[i] = index[i] \cup {m.id}
        /\ \A j \in Instance : j # i => index'[j] = index[j]
    BY <1>2, <1>5, <1>7 DEF Types, InstanceTypes
  <2>5. Types'
    BY <1>1, <1>2, <1>4, <2>1, <2>2, <2>4 DEF Types, SharedTypes, InstanceTypes
  <2> QED
    BY <1>1, <1>3, <1>4, <1>5, <1>7, <2>1, <2>3, <2>4, <2>5 DEF m, k
<1>8. CASE /\ m.type = "update" /\ m.id \in index[i]
           /\ mem' = [mem EXCEPT ![i][m.id] = m.data]
           /\ UNCHANGED <<list, index>>
  <2>1. /\ mem' \in [Instance -> [Record -> Rec \cup {NoRec}]] /\ mem'[i][m.id] = m.data
        /\ \A j \in Instance, d \in Record : j # i \/ d # m.id => mem'[j][d] = mem[j][d]
        /\ \A j \in Instance : j # i => mem'[j] = mem[j]
    BY <1>2, <1>5, <1>8, Stores DEF Types, InstanceTypes
  <2>2. Types'
    BY <1>1, <1>2, <1>4, <1>8, <2>1 DEF Types, SharedTypes, InstanceTypes
  <2> QED
    BY <1>1, <1>3, <1>4, <1>5, <1>8, <2>1, <2>2 DEF m, k
<1>9. CASE /\ m.type = "new" <=> m.id \in index[i]
           /\ UNCHANGED <<list, index, mem>>
  <2>1. Types'
    BY <1>1, <1>2, <1>4, <1>9 DEF Types, SharedTypes, InstanceTypes
  <2> QED
    BY <1>1, <1>3, <1>4, <1>5, <1>9, <2>1 DEF m, k
<1> QED
  BY <1>6, <1>7, <1>8, <1>9

LEMMA DisconnectFacts ==
    ASSUME ListInv, NEW i \in Instance, Disconnect(i)
    PROVE  /\ Types' /\ i \in up
           /\ UNCHANGED <<pg, stream, up, list, index, mem, req, kind, nextId, unsaved>>
           /\ inbox'[i] = << >> /\ \A j \in Instance : j # i => inbox'[j] = inbox[j]
           /\ disturbed' = disturbed \cup InFlight(i)
<1>1. /\ i \in sub /\ faults < MaxFaults /\ faults' = faults + 1 /\ sub' = sub \ {i}
      /\ inbox' = [inbox EXCEPT ![i] = << >>] /\ disturbed' = disturbed \cup InFlight(i)
      /\ UNCHANGED <<pg, stream, up, list, index, mem, req, kind, nextId, begun, unsaved>>
  BY DEF Disconnect
<1>2. Types /\ inbox \in [Instance -> Seq(Message)]
  BY DEF ListInv, Types, InstanceTypes
<1>3. /\ inbox' \in [Instance -> Seq(Message)] /\ inbox'[i] = << >>
      /\ \A j \in Instance : j # i => inbox'[j] = inbox[j]
  BY <1>1, <1>2, SequencesInit
<1>4. faults' \in 0..MaxFaults
  BY <1>1, <1>2, BoundsAssumption DEF Types, SharedTypes
<1>5. Types'
  BY <1>1, <1>2, <1>3, <1>4 DEF Types, SharedTypes, InstanceTypes
<1> QED
  BY <1>1, <1>2, <1>3, <1>5 DEF Types, InstanceTypes

LEMMA SubscribeFacts ==
    ASSUME ListInv, NEW i \in Instance, Subscribe(i)
    PROVE  /\ Types'
           /\ UNCHANGED <<pg, stream, up, list, index, mem, inbox, req, kind, nextId, disturbed, unsaved>>
<1>1. /\ i \in up \ sub /\ sub' = sub \cup {i}
      /\ UNCHANGED <<pg, stream, up, list, index, mem, inbox, req, kind, nextId, begun, faults, disturbed, unsaved>>
  BY DEF Subscribe
<1> QED
  BY <1>1 DEF ListInv, Types, SharedTypes, InstanceTypes

LEMMA WriterApplyFacts ==
    ASSUME ListInv, NEW id \in Record, WriterApply(id)
    PROVE  /\ Types' /\ stream[id] # NoRec /\ pg'[id] = stream[id]
           /\ stream'[id] \in {NoRec, stream[id]}
           /\ \A d \in Record : d # id => pg'[d] = pg[d] /\ stream'[d] = stream[d]
           /\ UNCHANGED <<up, list, index, mem, inbox, req, kind, nextId, disturbed, unsaved>>
<1>1. /\ stream[id] # NoRec /\ pg' = [pg EXCEPT ![id] = stream[id]]
      /\ stream' \in {stream, [stream EXCEPT ![id] = NoRec]}
      /\ UNCHANGED <<up, sub, list, index, mem, inbox, req, kind, nextId, begun, faults, disturbed, unsaved>>
  BY DEF WriterApply
<1>2. Types
  BY DEF ListInv
<1>3. /\ pg' \in [Record -> Rec \cup {NoRec}] /\ stream' \in [Record -> Rec \cup {NoRec}]
      /\ pg'[id] = stream[id] /\ stream'[id] \in {NoRec, stream[id]}
      /\ \A d \in Record : d # id => pg'[d] = pg[d] /\ stream'[d] = stream[d]
  BY <1>1, <1>2 DEF Types, SharedTypes
<1>4. Types'
  BY <1>1, <1>2, <1>3 DEF Types, SharedTypes, InstanceTypes
<1> QED
  BY <1>1, <1>3, <1>4

LEMMA CrashFacts ==
    ASSUME ListInv, NEW i \in Instance, Crash(i)
    PROVE  /\ Types' /\ i \in up /\ up' = up \ {i} /\ UNCHANGED <<pg, stream, kind, nextId, unsaved>>
           /\ \A j \in Instance : j # i =>
                inbox'[j] = inbox[j] /\ list'[j] = list[j] /\ index'[j] = index[j] /\ mem'[j] = mem[j]
           /\ index'[i] = {} /\ inbox'[i] = << >> /\ \A k \in Kind : list'[i][k] = << >>
           /\ \A q \in Request :
                Active(q)' => Active(q) /\ req'[q] = req[q] /\ req[q].inst # i
           /\ \A q \in Request : Active(q) /\ ~Active(q)' => req[q].id \in disturbed'
           /\ disturbed \subseteq disturbed'
<1>1. /\ i \in up /\ faults < MaxFaults /\ faults' = faults + 1
      /\ up' = up \ {i} /\ sub' = sub \ {i}
      /\ list' = [list EXCEPT ![i] = [k \in Kind |-> << >>]]
      /\ index' = [index EXCEPT ![i] = {}]
      /\ mem' = [mem EXCEPT ![i] = [id \in Record |-> NoRec]]
      /\ inbox' = [inbox EXCEPT ![i] = << >>]
      /\ req' = [q \in Request |-> IF q \in OfInstance(i) THEN Idle ELSE req[q]]
      /\ disturbed' = disturbed \cup {req[q].id : q \in OfInstance(i)}
      /\ UNCHANGED <<pg, stream, kind, nextId, begun, unsaved>>
  BY DEF Crash
<1>2. Types /\ \A q \in Request : req[q] \in RequestType
  BY DEF ListInv, Types, InstanceTypes
<1>3. /\ req' \in [Request -> RequestType]
      /\ \A q \in Request : req'[q] = IF q \in OfInstance(i) THEN Idle ELSE req[q]
  BY <1>1, <1>2, IdleFacts
<1>4. /\ \A q \in Request : Active(q)' => Active(q) /\ req'[q] = req[q] /\ req[q].inst # i
      /\ \A q \in Request : Active(q) /\ ~Active(q)' => q \in OfInstance(i)
  BY <1>3, IdleFacts DEF Active, OfInstance
<1>5. disturbed \subseteq disturbed' /\ \A q \in OfInstance(i) : req[q].id \in disturbed'
  BY <1>1
<1>6. faults' \in 0..MaxFaults
  BY <1>1, <1>2, BoundsAssumption DEF Types, SharedTypes
<1>7. /\ list' \in [Instance -> [Kind -> Seq(Record)]] /\ list'[i] = [k \in Kind |-> << >>]
      /\ \A j \in Instance : j # i => list'[j] = list[j]
  <2>1. [k \in Kind |-> << >>] \in [Kind -> Seq(Record)]
    BY SequencesInit
  <2> QED
    BY <1>1, <1>2, <2>1 DEF Types, InstanceTypes
<1>8. /\ index' \in [Instance -> SUBSET Record] /\ index'[i] = {}
      /\ \A j \in Instance : j # i => index'[j] = index[j]
  BY <1>1, <1>2 DEF Types, InstanceTypes
<1>9. /\ mem' \in [Instance -> [Record -> Rec \cup {NoRec}]]
      /\ \A j \in Instance : j # i => mem'[j] = mem[j]
  BY <1>1, <1>2 DEF Types, InstanceTypes
<1>10. /\ inbox' \in [Instance -> Seq(Message)] /\ inbox'[i] = << >>
       /\ \A j \in Instance : j # i => inbox'[j] = inbox[j]
  BY <1>1, <1>2, SequencesInit DEF Types, InstanceTypes
<1>11. Types'
  BY <1>1, <1>2, <1>3, <1>6, <1>7, <1>8, <1>9, <1>10 DEF Types, SharedTypes, InstanceTypes
<1> QED
  BY <1>1, <1>4, <1>5, <1>7, <1>8, <1>9, <1>10, <1>11

LEMMA PruneFacts ==
    ASSUME ListInv, NEW i \in Instance, Prune(i)
    PROVE  /\ Types' /\ i \in up
           /\ UNCHANGED <<pg, stream, up, mem, inbox, req, kind, nextId, unsaved>>
           /\ \A j \in Instance : j # i => list'[j] = list[j] /\ index'[j] = index[j]
           /\ \A k \in Kind : ToSet(list'[i][k]) \subseteq ToSet(list[i][k])
                              /\ (Distinct(list[i][k]) => Distinct(list'[i][k]))
           /\ index'[i] = Listed(i)'
           /\ disturbed' = disturbed \cup (Listed(i) \ index'[i])
<1> DEFINE l == [k \in Kind |-> Pruned(i, list[i][k])]
           kept == UNION {ToSet(l[k]) : k \in Kind}
<1>1. /\ i \in up /\ list' = [list EXCEPT ![i] = l] /\ index' = [index EXCEPT ![i] = kept]
      /\ disturbed' = disturbed \cup (Listed(i) \ kept)
      /\ UNCHANGED <<pg, stream, up, sub, mem, inbox, req, kind, nextId, begun, faults, unsaved>>
  BY Zenon DEF Prune
<1>2. Types /\ list[i] \in [Kind -> Seq(Record)]
  BY DEF ListInv, Types, InstanceTypes
<1>3. ASSUME NEW k \in Kind
      PROVE  /\ l[k] \in Seq(Record) /\ ToSet(l[k]) \subseteq ToSet(list[i][k])
             /\ Distinct(list[i][k]) => Distinct(l[k])
  <2>1. list[i][k] \in Seq(Record) /\ l[k] = Pruned(i, list[i][k])
    BY <1>2
  <2> HIDE DEF l
  <2> QED
    BY <2>1, PrunedFacts
<1>4. l \in [Kind -> Seq(Record)]
  <2>1. l = [k \in Kind |-> l[k]]
    OBVIOUS
  <2> HIDE DEF l
  <2> QED
    BY <1>3, <2>1
<1> HIDE DEF l
<1>5. /\ list' \in [Instance -> [Kind -> Seq(Record)]] /\ list'[i] = l
      /\ \A j \in Instance : j # i => list'[j] = list[j]
  BY <1>1, <1>2, <1>4 DEF Types, InstanceTypes
<1>6. kept = Listed(i)'
  BY <1>5 DEF Listed
<1>7. kept \subseteq Record
  <2>1. \A k \in Kind : ToSet(list[i][k]) \subseteq Record
    BY <1>2 DEF ToSet
  <2> QED
    BY <1>3, <2>1
<1> HIDE DEF kept
<1>8. /\ index' \in [Instance -> SUBSET Record] /\ index'[i] = kept
      /\ \A j \in Instance : j # i => index'[j] = index[j]
  BY <1>1, <1>2, <1>7 DEF Types, InstanceTypes
<1>9. Types'
  BY <1>1, <1>2, <1>5, <1>8 DEF Types, SharedTypes, InstanceTypes
<1> QED
  BY <1>1, <1>3, <1>5, <1>6, <1>8, <1>9

LEMMA BootFacts ==
    ASSUME ListInv, NEW i \in Instance, Boot(i)
    PROVE  /\ Types' /\ i \notin up /\ up' = up \cup {i}
           /\ UNCHANGED <<pg, stream, inbox, req, kind, nextId, unsaved>>
           /\ \A j \in Instance : j # i =>
                list'[j] = list[j] /\ index'[j] = index[j] /\ mem'[j] = mem[j]
           /\ disturbed \subseteq disturbed'
           /\ \/ /\ \A k \in Kind : ToSet(list'[i][k]) \subseteq Rows(k) /\ Distinct(list'[i][k])
                 /\ index'[i] = Listed(i)'
                 /\ \A id \in index'[i] : id \in Record /\ pg[id] # NoRec /\ mem'[i][id] = pg[id]
                 /\ \A id \in Record : pg[id] # NoRec /\ id \notin disturbed' =>
                      id \in index'[i] /\ pg[id].status # "assigned"
                 /\ unsaved \subseteq disturbed'
              \/ disturbed' = disturbed \cup Created /\ UNCHANGED <<list, index, mem>>
<1> DEFINE l == [k \in Kind |-> Hydrated(k)]
           ids == UNION {ToSet(l[k]) : k \in Kind}
           lacking == {id \in Record : pg[id] # NoRec /\ (id \notin ids \/ pg[id].status = "assigned")}
           known == [id \in Record |-> IF id \in ids THEN pg[id] ELSE NoRec]
<1>1. /\ i \notin up /\ up' = up \cup {i}
      /\ UNCHANGED <<pg, stream, sub, inbox, req, kind, nextId, begun, unsaved>>
      /\ \/ /\ list' = [list EXCEPT ![i] = l] /\ index' = [index EXCEPT ![i] = ids]
            /\ mem' = [mem EXCEPT ![i] = known] /\ disturbed' = disturbed \cup unsaved \cup lacking
            /\ UNCHANGED faults
         \/ /\ faults < MaxFaults /\ faults' = faults + 1 /\ disturbed' = disturbed \cup Created
            /\ UNCHANGED <<list, index, mem>>
  BY Zenon DEF Boot, Created
<1>2. Types
  BY DEF ListInv
<1>3. CASE /\ faults < MaxFaults /\ faults' = faults + 1 /\ disturbed' = disturbed \cup Created
           /\ UNCHANGED <<list, index, mem>>
  <2>1. faults' \in 0..MaxFaults
    BY <1>2, <1>3, BoundsAssumption DEF Types, SharedTypes
  <2>2. Types'
    BY <1>1, <1>2, <1>3, <2>1 DEF Types, SharedTypes, InstanceTypes
  <2> QED
    BY <1>1, <1>2, <1>3, <2>2
<1>4. CASE /\ list' = [list EXCEPT ![i] = l] /\ index' = [index EXCEPT ![i] = ids]
           /\ mem' = [mem EXCEPT ![i] = known] /\ disturbed' = disturbed \cup unsaved \cup lacking
           /\ UNCHANGED faults
  <2>1. ASSUME NEW k \in Kind
        PROVE  l[k] \in Seq(Record) /\ ToSet(l[k]) \subseteq Rows(k) /\ Distinct(l[k])
    BY HydratedFacts
  <2>2. l \in [Kind -> Seq(Record)]
    <3>1. l = [k \in Kind |-> l[k]]
      OBVIOUS
    <3> HIDE DEF l
    <3> QED
      BY <2>1, <3>1
  <2> HIDE DEF l
  <2>3. \A id \in ids : id \in Record /\ pg[id] # NoRec
    BY <2>1 DEF Rows
  <2>4. /\ list' \in [Instance -> [Kind -> Seq(Record)]] /\ list'[i] = l
        /\ \A j \in Instance : j # i => list'[j] = list[j]
    BY <1>2, <1>4, <2>2 DEF Types, InstanceTypes
  <2>5. ids = Listed(i)'
    BY <2>4 DEF Listed
  <2> HIDE DEF ids
  <2>6. known \in [Record -> Rec \cup {NoRec}] /\ \A id \in ids : known[id] = pg[id]
    BY <1>2, <2>3 DEF Types, SharedTypes
  <2>7. \A id \in Record : pg[id] # NoRec /\ id \notin disturbed' =>
          id \in ids /\ pg[id].status # "assigned"
    BY <1>4
  <2>8. disturbed \subseteq disturbed' /\ unsaved \subseteq disturbed'
    BY <1>4
  <2> HIDE DEF known, lacking
  <2>9. /\ mem' \in [Instance -> [Record -> Rec \cup {NoRec}]] /\ mem'[i] = known
        /\ \A j \in Instance : j # i => mem'[j] = mem[j]
    BY <1>2, <1>4, <2>6 DEF Types, InstanceTypes
  <2>10. /\ index' \in [Instance -> SUBSET Record] /\ index'[i] = ids
         /\ \A j \in Instance : j # i => index'[j] = index[j]
    <3>1. ids \in SUBSET Record
      BY <2>3
    <3> QED
      BY <1>2, <1>4, <3>1 DEF Types, InstanceTypes
  <2>11. Types'
    BY <1>1, <1>2, <1>4, <2>4, <2>9, <2>10 DEF Types, SharedTypes, InstanceTypes
  <2> QED
    BY <1>1, <2>1, <2>3, <2>4, <2>5, <2>6, <2>7, <2>8, <2>9, <2>10, <2>11
<1> QED
  BY <1>1, <1>3, <1>4

----------------------------------------------------------------------------
(* The lists.                                                               *)

LEMMA ListedFacts ==
    ASSUME NEW i
    PROVE  /\ list'[i] = list[i] => Listed(i)' = Listed(i)
           /\ \A d : d \in Listed(i) <=> \E k \in Kind : d \in ToSet(list[i][k])
BY DEF Listed

\* A request takes another step, or an update starts.
GoesOn(p) ==
    /\ Active(p) /\ req'[p].id = req[p].id /\ req'[p].inst = req[p].inst
    /\ req'[p].op = req[p].op /\ req'[p].arg = req[p].arg
    /\ req'[p].pc \in {"pg", "resume"} => req[p].pc \in {"pg", "resume"}
    /\ req'[p].pc # "xadd" => req[p].pc # "xadd"
    /\ req'[p].pc \in {"send", "accept", "xadd"} => req[p].pc \in {"send", "accept", "xadd"}
    /\ req'[p].pc = "accept" => req'[p].data \in Rec
    /\ req'[p].pc = "xadd" => req[p].op = "create"

UpdateStarts(p) ==
    /\ req'[p].pc = "pg" /\ req'[p].id \in Created /\ req'[p].inst \in up
    /\ req'[p].op \in {"assign", "resolve", "accept", "update"}
    /\ req'[p].op \in {"accept", "update"} => kind[req'[p].id] # "sos"
    /\ req'[p].op = "assign" => req'[p].id \in index[req'[p].inst]

\* A message that was there, or one of an event that is not a creation or is
\* the creation's last step in memory.
Justified(i, m) ==
    \/ \E n \in 1..Len(inbox[i]) : m = inbox[i][n]
    \/ /\ m.id \in Created
       /\ m.type = "new" => \E q \in Request :
            /\ Creating(q, m.id) /\ req[q].inst # i
            /\ \A p \in Request :
                 Active(p)' /\ Creates(req'[p].op) /\ req'[p].id = m.id => req'[p].pc = "xadd"

\* Steps that leave the memories alone.
LEMMA MemoriesKept ==
    ASSUME ListInv, Types', UNCHANGED <<up, list, index, mem, kind, nextId>>,
           disturbed \subseteq disturbed',
           \A id \in Record : id \notin Created => pg'[id] = NoRec /\ stream'[id] = NoRec,
           \A p \in Request : Active(p)' => GoesOn(p) \/ UpdateStarts(p),
           \A i \in Instance : \A n \in 1..Len(inbox'[i]) : Justified(i, inbox'[i][n]),
           \A i \in Instance \ up : inbox'[i] = << >>
    PROVE  ListInv'
<1>0. Created' = Created /\ \A i \in Instance : Listed(i)' = Listed(i)
  BY DEF Created, Listed
<1>1. Origins'
  <2>1. \A i \in Instance : \A n \in 1..Len(inbox[i]) : inbox[i][n].id \in Created
    BY DEF ListInv, Origins
  <2>2. \A i \in Instance : \A n \in 1..Len(inbox'[i]) : inbox'[i][n].id \in Created
    BY <2>1 DEF Justified
  <2> QED
    BY <1>0, <2>2 DEF ListInv, Origins
<1>2. Requests'
  <2> SUFFICES ASSUME NEW p \in Request, Active(p)'
               PROVE  /\ req'[p].id \in Created /\ req'[p].inst \in up
                      /\ req'[p].op = "wa_lost" => kind[req'[p].id] = "lost" /\ req'[p].id \in disturbed'
                      /\ Creates(req'[p].op) => req'[p].arg.status = "open"
                      /\ req'[p].op \in {"accept", "update"} => kind[req'[p].id] # "sos"
                      /\ req'[p].pc \in {"send", "accept", "xadd"} \/ req'[p].op = "assign" =>
                            mem[req'[p].inst][req'[p].id] \in Rec
                      /\ req'[p].pc = "accept" => req'[p].data \in Rec
                      /\ req'[p].pc = "xadd" => req'[p].op = "create"
    BY <1>0 DEF Requests, Active
  <2>1. CASE GoesOn(p)
    BY <2>1 DEF ListInv, Requests, GoesOn
  <2>2. CASE UpdateStarts(p)
    <3>1. up \subseteq Instance
      BY DEF ListInv, Types, InstanceTypes
    <3> QED
      BY <2>2, <3>1, RecordsKnown DEF UpdateStarts, Creates
  <2> QED
    BY <2>1, <2>2
<1>3. Lists'
  <2>1. \A i \in Instance : \A d \in Listed(i) \ index[i] : kind[d] = "lost" /\ d \in disturbed'
    BY DEF ListInv, Lists
  <2> QED
    BY <1>0, <2>1 DEF ListInv, Lists, NoDuplicateRecords
<1>4. \A p \in Request, id \in Record : Creating(p, id)' =>
        /\ Creating(p, id) /\ req'[p].inst = req[p].inst
        /\ req'[p].pc \in {"pg", "resume"} => req[p].pc \in {"pg", "resume"}
        /\ req'[p].pc # "xadd" => req[p].pc # "xadd"
  BY DEF Creating, GoesOn, UpdateStarts, Creates, Active
<1>5. OneCreation'
  <2> SUFFICES ASSUME NEW q \in Request, NEW id \in Record, Creating(q, id)'
               PROVE  /\ \A p \in Request : Creating(p, id)' => p = q
                      /\ req'[q].pc \in {"pg", "resume"} => id \notin Listed(req[q].inst)'
                      /\ \A i \in Instance : i # req'[q].inst => id \notin Listed(i)' \ index'[i]
                      /\ req'[q].pc # "xadd" =>
                            \A i \in Instance : \A n \in 1..Len(inbox'[i]) :
                                ~(inbox'[i][n].type = "new" /\ inbox'[i][n].id = id)
    BY DEF OneCreation
  <2>1. /\ Creating(q, id) /\ req'[q].inst = req[q].inst /\ req[q].inst \in Instance
        /\ req'[q].pc \in {"pg", "resume"} => req[q].pc \in {"pg", "resume"}
        /\ req'[q].pc # "xadd" => req[q].pc # "xadd"
    BY <1>4, RecordsKnown DEF Creating
  <2>2. \A p \in Request : Creating(p, id)' => p = q
    BY <1>4, <2>1 DEF ListInv, OneCreation
  <2>3. req'[q].pc \in {"pg", "resume"} => id \notin Listed(req[q].inst)'
    BY <1>0, <2>1 DEF ListInv, OneCreation
  <2>4. \A i \in Instance : i # req'[q].inst => id \notin Listed(i)' \ index'[i]
    BY <1>0, <2>1 DEF ListInv, OneCreation
  <2>5. ASSUME req'[q].pc # "xadd", NEW i \in Instance, NEW n \in 1..Len(inbox'[i]),
               inbox'[i][n].type = "new", inbox'[i][n].id = id
        PROVE  FALSE
    <3>1. Justified(i, inbox'[i][n])
      OBVIOUS
    <3>2. ~\E m \in 1..Len(inbox[i]) : inbox'[i][n] = inbox[i][m]
      BY <2>1, <2>5 DEF ListInv, OneCreation
    <3>3. Active(q)' /\ Creates(req'[q].op) /\ req'[q].id = id
      BY DEF Creating
    <3> QED
      BY <2>5, <3>1, <3>2, <3>3 DEF Justified
  <2> QED
    BY <2>2, <2>3, <2>4, <2>5
<1>6. NewsIsNew'
  <2> SUFFICES ASSUME NEW i \in Instance, NEW n \in 1..Len(inbox'[i]), inbox'[i][n].type = "new"
               PROVE  inbox'[i][n].id \notin Listed(i)' \ index'[i]
    BY DEF NewsIsNew
  <2>1. Justified(i, inbox'[i][n])
    OBVIOUS
  <2>2. CASE \E m \in 1..Len(inbox[i]) : inbox'[i][n] = inbox[i][m]
    BY <1>0, <2>2 DEF ListInv, NewsIsNew
  <2>3. CASE ~\E m \in 1..Len(inbox[i]) : inbox'[i][n] = inbox[i][m]
    <3>1. inbox'[i][n].id \in Created
      BY <2>1, <2>3 DEF Justified
    <3>2. inbox'[i][n].id \in Record
      BY <3>1, CreatedFacts DEF ListInv, Types
    <3>3. PICK q \in Request : Creating(q, inbox'[i][n].id) /\ req[q].inst # i
      BY <2>1, <2>3 DEF Justified
    <3> QED
      BY <1>0, <3>2, <3>3 DEF ListInv, OneCreation
  <2> QED
    BY <2>2, <2>3
<1> QED
  BY <1>1, <1>2, <1>3, <1>5, <1>6 DEF ListInv

LEMMA ListsInit == Init => ListInv
<1> SUFFICES ASSUME Init PROVE ListInv
  OBVIOUS
<1>1. Types
  BY TypesInit
<1>2. /\ \A i \in Instance, k \in Kind : list[i][k] = << >> /\ ToSet(list[i][k]) = {}
      /\ \A i \in Instance : index[i] = {} /\ inbox[i] = << >> /\ Len(inbox[i]) = 0
      /\ \A q \in Request : ~Active(q)
      /\ Created = {} /\ disturbed = {} /\ up = Instance
  BY SequencesInit, IdleFacts DEF Init, Active, Created
<1>3. \A i \in Instance : Listed(i) = {}
  BY <1>2 DEF Listed
<1>4. Origins
  BY <1>2, <1>3 DEF Init, Origins
<1>5. Requests /\ OneCreation /\ NewsIsNew
  BY <1>2 DEF Requests, OneCreation, NewsIsNew, Creating
<1>6. Lists
  <2>1. NoDuplicateRecords
    BY <1>2, SequencesInit DEF NoDuplicateRecords
  <2> QED
    BY <1>2, <1>3, <2>1 DEF Lists
<1> QED
  BY <1>1, <1>4, <1>5, <1>6 DEF ListInv

\* No record that is yet to be created has a row, a stream event or a message.
LEMMA OriginFacts ==
    ASSUME ListInv
    PROVE  /\ \A id \in Record : id \notin Created => pg[id] = NoRec /\ stream[id] = NoRec
           /\ \A i \in Instance : \A n \in 1..Len(inbox[i]) : Justified(i, inbox[i][n])
           /\ \A i \in Instance \ up : inbox[i] = << >>
BY DEF ListInv, Origins, Justified

LEMMA RequestKeepsLists ==
    ASSUME ListInv, NEW q \in Request,
           \/ \E i \in Instance : StartUpdate(q, i)
           \/ PgStatement(q) \/ NotFound(q) \/ Send(q) \/ AddToStream(q)
    PROVE  ListInv'
<1>1. /\ Types' /\ UNCHANGED <<up, list, index, mem, kind, nextId, inbox>>
      /\ disturbed \subseteq disturbed'
      /\ \A id \in Record : id \notin Created => pg'[id] = NoRec /\ stream'[id] = NoRec
      /\ \A p \in Request : p # q => req'[p] = req[p]
      /\ Active(q)' => GoesOn(q) \/ UpdateStarts(q)
  <2>1. CASE \E i \in Instance : StartUpdate(q, i)
    <3>1. PICK i \in Instance : StartUpdate(q, i)
      BY <2>1
    <3>2. UpdateStarts(q)
      BY <3>1, StartUpdateFacts DEF UpdateStarts
    <3> QED
      BY <3>1, <3>2, StartUpdateFacts, OriginFacts
  <2>2. CASE PgStatement(q)
    <3>1. GoesOn(q)
      BY <2>2, PgStatementFacts DEF GoesOn
    <3>2. req[q].id \in Created
      BY <2>2, PgStatementFacts, RecordsKnown
    <3> QED
      BY <2>2, <3>1, <3>2, PgStatementFacts, OriginFacts
  <2>3. CASE NotFound(q)
    BY <2>3, NotFoundFacts, OriginFacts
  <2>4. CASE Send(q)
    <3>1. GoesOn(q)
      BY <2>4, SendFacts DEF GoesOn
    <3> QED
      BY <2>4, <3>1, SendFacts, OriginFacts
  <2>5. CASE AddToStream(q)
    <3>1. req[q].id \in Created
      BY <2>5, AddToStreamFacts, RecordsKnown
    <3> QED
      BY <2>5, <3>1, AddToStreamFacts, OriginFacts
  <2> QED
    BY <2>1, <2>2, <2>3, <2>4, <2>5
<1>2. \A p \in Request : Active(p)' => GoesOn(p) \/ UpdateStarts(p)
  <2>1. \A p \in Request : p # q /\ Active(p)' => GoesOn(p)
    BY <1>1 DEF GoesOn, Active, ListInv, Requests
  <2> QED
    BY <1>1, <2>1
<1>3. /\ \A i \in Instance : \A n \in 1..Len(inbox'[i]) : Justified(i, inbox'[i][n])
      /\ \A i \in Instance \ up : inbox'[i] = << >>
  BY <1>1, OriginFacts DEF Justified
<1> QED
  BY <1>1, <1>2, <1>3, MemoriesKept

LEMMA AcceptKeepsLists ==
    ASSUME ListInv, NEW q \in Request, Accept(q)
    PROVE  ListInv'
<1>1. Active(q) /\ req[q].id \in Created /\ req[q].inst \in Instance /\ req[q].id \in Record
  BY AcceptFacts, RecordsKnown
<1>2. \A p \in Request : Active(p)' => GoesOn(p)
  <2>1. Active(q)' => GoesOn(q)
    BY AcceptFacts DEF GoesOn
  <2>2. \A p \in Request : p # q /\ Active(p)' => GoesOn(p)
    BY AcceptFacts DEF GoesOn, Active, ListInv, Requests
  <2> QED
    BY <2>1, <2>2
<1>3. ASSUME NEW i \in Instance, NEW n \in 1..Len(inbox'[i]) PROVE Justified(i, inbox'[i][n])
  <2>1. CASE n \in 1..Len(inbox[i]) /\ inbox'[i][n] = inbox[i][n]
    BY <2>1 DEF Justified
  <2>2. CASE i \in sub \ {req[q].inst} /\ inbox'[i][n] = News(req[q])
    <3>1. /\ inbox'[i][n].id = req[q].id
          /\ inbox'[i][n].type = "new" => Creates(req[q].op)
      BY <2>2 DEF News
    <3>2. CASE Creates(req[q].op)
      <4>1. Creating(q, req[q].id) /\ req[q].inst # i
        BY <1>1, <2>2, <3>2 DEF Creating
      <4>2. ASSUME NEW p \in Request, Active(p)', Creates(req'[p].op), req'[p].id = req[q].id
            PROVE  req'[p].pc = "xadd"
        <5>1. Creating(p, req[q].id)
          BY <1>2, <4>2 DEF GoesOn, Creating
        <5>2. p = q
          BY <1>1, <4>1, <5>1 DEF ListInv, OneCreation
        <5> QED
          BY <4>2, <5>2, AcceptFacts
      <4> QED
        BY <1>1, <3>1, <4>1, <4>2 DEF Justified
    <3>3. CASE ~Creates(req[q].op)
      BY <1>1, <3>1, <3>3 DEF Justified
    <3> QED
      BY <3>2, <3>3
  <2> QED
    BY <2>1, <2>2, AcceptFacts
<1>4. ASSUME NEW i \in Instance \ up PROVE inbox'[i] = << >>
  <2>1. inbox[i] = << >> /\ i \notin sub
    BY OriginFacts DEF ListInv, Types, InstanceTypes
  <2>2. Len(inbox[i]) = 0 /\ inbox'[i] \in Seq(Message)
    BY <2>1, AcceptFacts DEF Types, InstanceTypes
  <2>3. \A n \in 1..Len(inbox'[i]) : FALSE
    BY <2>1, <2>2, AcceptFacts
  <2> QED
    BY <2>2, <2>3
<1>5. /\ disturbed \subseteq disturbed'
      /\ \A id \in Record : id \notin Created => pg'[id] = NoRec /\ stream'[id] = NoRec
  BY <1>1, AcceptFacts, OriginFacts
<1> QED
  BY <1>2, <1>3, <1>4, <1>5, AcceptFacts, MemoriesKept

LEMMA EnvironmentKeepsLists ==
    ASSUME ListInv,
           \/ \E i \in Instance : Subscribe(i) \/ Disconnect(i)
           \/ \E id \in Record : WriterApply(id)
    PROVE  ListInv'
<1>1. /\ Types' /\ UNCHANGED <<up, list, index, mem, kind, nextId, req>>
      /\ disturbed \subseteq disturbed'
      /\ \A id \in Record : id \notin Created => pg'[id] = NoRec /\ stream'[id] = NoRec
      /\ \A i \in Instance : inbox'[i] = inbox[i] \/ inbox'[i] = << >>
  <2>1. CASE \E i \in Instance : Subscribe(i)
    BY <2>1, SubscribeFacts, OriginFacts
  <2>2. CASE \E i \in Instance : Disconnect(i)
    <3>1. PICK i \in Instance : Disconnect(i)
      BY <2>2
    <3>2. InFlight(i) \subseteq Created
      BY DEF InFlight, ListInv, Origins
    <3> QED
      BY <3>1, <3>2, DisconnectFacts, OriginFacts
  <2>3. CASE \E id \in Record : WriterApply(id)
    <3>1. PICK d \in Record : WriterApply(d)
      BY <2>3
    <3>2. \A id \in Record : id \notin Created => pg'[id] = NoRec /\ stream'[id] = NoRec
      BY <3>1, WriterApplyFacts, OriginFacts
    <3> QED
      BY <3>1, <3>2, WriterApplyFacts, OriginFacts
  <2> QED
    BY <2>1, <2>2, <2>3
<1>2. \A p \in Request : Active(p)' => GoesOn(p)
  BY <1>1 DEF GoesOn, Active, ListInv, Requests
<1>3. /\ \A i \in Instance : \A n \in 1..Len(inbox'[i]) : Justified(i, inbox'[i][n])
      /\ \A i \in Instance \ up : inbox'[i] = << >>
  <2>1. ASSUME NEW i \in Instance, NEW n \in 1..Len(inbox'[i]) PROVE Justified(i, inbox'[i][n])
    <3>1. CASE inbox'[i] = << >>
      <4>1. n \in 1..0
        BY <3>1, SequencesInit
      <4> QED
        BY <4>1
    <3>2. CASE inbox'[i] = inbox[i]
      BY <3>2 DEF Justified
    <3> QED
      BY <1>1, <3>1, <3>2
  <2> QED
    BY <1>1, <2>1, OriginFacts
<1> QED
  BY <1>1, <1>2, <1>3, MemoriesKept

LEMMA StartCreateKeepsLists ==
    ASSUME ListInv, NEW q \in Request, NEW i \in Instance, StartCreate(q, i)
    PROVE  ListInv'
<1>1. /\ nextId \in Nat /\ nextId \in Record /\ nextId' = nextId + 1
      /\ Created' = Created \cup {nextId} /\ nextId \notin Created /\ Created \subseteq Record
  <2>1. nextId \in Nat /\ nextId \in Record /\ nextId' = nextId + 1 /\ nextId >= 1
    BY StartCreateFacts, CreatedFacts DEF ListInv, Types, Record
  <2> QED
    BY <2>1, CreatedFacts DEF Created, ListInv, Types
<1>2. /\ \A j \in Instance : Listed(j)' = Listed(j) /\ inbox'[j] = inbox[j] /\ index'[j] = index[j]
      /\ \A d \in Created : kind'[d] = kind[d]
      /\ \A j \in Instance, d \in Record : mem'[j][d] = mem[j][d]
  BY <1>1, StartCreateFacts, ListedFacts
<1>3. \A p \in Request : Active(p) => req[p].id # nextId
  BY <1>1, RecordsKnown
<1>4. /\ \A j \in Instance : nextId \notin Listed(j)
      /\ \A j \in Instance : \A n \in 1..Len(inbox[j]) : inbox[j][n].id # nextId
  BY <1>1 DEF ListInv, Lists, Listed, Origins
<1>5. Origins'
  <2>1. \A id \in Record : IF id \in Created' THEN kind'[id] \in Kind
                           ELSE kind'[id] = Nobody /\ pg'[id] = NoRec /\ stream'[id] = NoRec
    <3>1. /\ kind'[nextId] \in Kind /\ \A id \in Record : id # nextId => kind'[id] = kind[id]
          /\ pg' = pg /\ stream' = stream
      BY StartCreateFacts
    <3>2. \A id \in Record : IF id \in Created THEN kind[id] \in Kind
                             ELSE kind[id] = Nobody /\ pg[id] = NoRec /\ stream[id] = NoRec
      BY DEF ListInv, Origins
    <3> QED
      BY <1>1, <3>1, <3>2
  <2>2. \A j \in Instance : \A n \in 1..Len(inbox'[j]) : inbox'[j][n].id \in Created'
    BY <1>1, <1>2 DEF ListInv, Origins
  <2>3. \A j \in Instance \ up' : index'[j] = {} /\ inbox'[j] = << >> /\ Listed(j)' = {}
    BY <1>2, StartCreateFacts DEF ListInv, Origins
  <2> QED
    BY <2>1, <2>2, <2>3 DEF Origins
<1>6. Requests'
  <2>1. ASSUME NEW p \in Request, Active(p)', p # q
        PROVE  /\ req'[p].id \in Created' /\ req'[p].inst \in up'
               /\ req'[p].op = "wa_lost" => kind'[req'[p].id] = "lost" /\ req'[p].id \in disturbed'
               /\ Creates(req'[p].op) => req'[p].arg.status = "open"
               /\ req'[p].op \in {"accept", "update"} => kind'[req'[p].id] # "sos"
               /\ req'[p].pc \in {"send", "accept", "xadd"} \/ req'[p].op = "assign" =>
                     mem'[req'[p].inst][req'[p].id] \in Rec
               /\ req'[p].pc = "accept" => req'[p].data \in Rec
               /\ req'[p].pc = "xadd" => req'[p].op = "create"
    <3>1. req'[p] = req[p] /\ Active(p)
      BY <2>1, StartCreateFacts DEF Active
    <3>2. req[p].id \in Created /\ kind'[req[p].id] = kind[req[p].id]
      BY <1>2, <3>1, RecordsKnown
    <3> QED
      BY <1>1, <1>2, <3>1, <3>2, StartCreateFacts DEF ListInv, Requests
  <2>2. /\ req'[q].id \in Created' /\ req'[q].inst \in up'
        /\ req'[q].op = "wa_lost" => kind'[req'[q].id] = "lost" /\ req'[q].id \in disturbed'
        /\ Creates(req'[q].op) /\ req'[q].arg.status = "open" /\ req'[q].pc = "pg"
    BY <1>1, StartCreateFacts
  <2>3. req'[q].op \notin {"accept", "update", "assign"}
    BY <2>2 DEF Creates
  <2> QED
    BY <2>1, <2>2, <2>3 DEF Requests, Active
<1>7. Lists'
  <2>1. \A j \in Instance, k \in Kind : list'[j][k] = list[j][k]
    BY StartCreateFacts
  <2>2. ASSUME NEW j \in Instance, NEW k \in Kind, NEW id \in ToSet(list'[j][k])
        PROVE  id \in Created' /\ kind'[id] = k
    <3>1. id \in ToSet(list[j][k])
      BY <2>1
    <3>2. id \in Created /\ kind[id] = k
      BY <3>1 DEF ListInv, Lists
    <3> QED
      BY <1>1, <1>2, <3>2
  <2>3. NoDuplicateRecords'
    BY <2>1 DEF ListInv, Lists, NoDuplicateRecords
  <2>4. ASSUME NEW j \in Instance
        PROVE  /\ index'[j] \subseteq Listed(j)'
               /\ \A id \in Listed(j)' \ index'[j] : kind'[id] = "lost" /\ id \in disturbed'
               /\ \A id \in Listed(j)' : mem'[j][id] \in Rec
    <3>1. \A id \in Listed(j) : id \in Created /\ mem[j][id] \in Rec
      BY DEF ListInv, Lists, Listed
    <3>2. /\ index[j] \subseteq Listed(j)
          /\ \A id \in Listed(j) \ index[j] : kind[id] = "lost" /\ id \in disturbed
      BY DEF ListInv, Lists
    <3>3. disturbed \subseteq disturbed'
      BY StartCreateFacts
    <3>4. \A id \in Listed(j) : kind'[id] = kind[id] /\ mem'[j][id] = mem[j][id]
      BY <1>1, <1>2, <3>1
    <3>5. Listed(j)' = Listed(j) /\ index'[j] = index[j]
      BY <1>2
    <3> QED
      BY <3>1, <3>2, <3>3, <3>4, <3>5
  <2> QED
    BY <2>2, <2>3, <2>4 DEF Lists
<1>8. OneCreation'
  <2> SUFFICES ASSUME NEW p \in Request, NEW id \in Record, Creating(p, id)'
               PROVE  /\ \A r \in Request : Creating(r, id)' => r = p
                      /\ req'[p].pc \in {"pg", "resume"} => id \notin Listed(req[p].inst)'
                      /\ \A j \in Instance : j # req'[p].inst => id \notin Listed(j)' \ index'[j]
                      /\ req'[p].pc # "xadd" =>
                            \A j \in Instance : \A n \in 1..Len(inbox'[j]) :
                                ~(inbox'[j][n].type = "new" /\ inbox'[j][n].id = id)
    BY DEF OneCreation
  <2>1. \A r \in Request : r # q /\ Creating(r, id)' => Creating(r, id) /\ req'[r] = req[r]
    BY StartCreateFacts DEF Creating, Active
  <2>2. \A d : Creating(q, d)' => d = nextId
    BY StartCreateFacts DEF Creating
  <2>3. CASE p = q
    <3>1. id = nextId /\ req'[p].inst = i
      BY <2>2, <2>3, StartCreateFacts
    <3>2. \A r \in Request : Creating(r, id)' => r = p
      BY <1>3, <2>1, <2>3, <3>1 DEF Creating
    <3>3. id \notin Listed(req[p].inst)'
      <4>1. \A k \in Kind : id \notin ToSet(list'[i][k])
        BY <1>2, <1>4, <3>1, ListedFacts DEF Listed
      <4> QED
        BY <3>1, <4>1 DEF Listed
    <3> QED
      BY <1>2, <1>4, <3>1, <3>2, <3>3
  <2>4. CASE p # q
    <3>1. Creating(p, id) /\ req'[p] = req[p] /\ id # nextId /\ req[p].inst \in Instance
      BY <1>3, <2>1, <2>4, RecordsKnown DEF Creating
    <3>2. \A r \in Request : Creating(r, id)' => r = p
      BY <2>1, <2>2, <3>1 DEF ListInv, OneCreation
    <3> QED
      BY <1>2, <3>1, <3>2 DEF ListInv, OneCreation
  <2> QED
    BY <2>3, <2>4
<1>9. NewsIsNew'
  BY <1>2 DEF ListInv, NewsIsNew
<1> QED
  BY <1>5, <1>6, <1>7, <1>8, <1>9, StartCreateFacts DEF ListInv

\* Steps that replace what one instance knows.
LEMMA OneMemoryReplaced ==
    ASSUME ListInv, Types', NEW i \in Instance, UNCHANGED <<pg, stream, kind, nextId, unsaved>>,
           \A j \in Instance : j # i =>
             list'[j] = list[j] /\ index'[j] = index[j] /\ mem'[j] = mem[j],
           \A j \in Instance : inbox'[j] = inbox[j] \/ inbox'[j] = << >>,
           index'[i] = Listed(i)',
           \A k \in Kind : Distinct(list'[i][k]),
           \A k \in Kind : \A id \in ToSet(list'[i][k]) :
             id \in Created /\ kind[id] = k /\ mem'[i][id] \in Rec,
           \/ mem'[i] = mem[i] /\ Listed(i)' \subseteq Listed(i)
           \/ \A q \in Request : Active(q)' => req[q].inst # i,
           \A q \in Request : Active(q)' => Active(q) /\ req'[q] = req[q] /\ req[q].inst \in up',
           disturbed \subseteq disturbed',
           \A j \in Instance \ up' : index'[j] = {} /\ inbox'[j] = << >> /\ Listed(j)' = {}
    PROVE  ListInv'
<1>0. /\ Created' = Created
      /\ \A j \in Instance : j # i => Listed(j)' = Listed(j)
      /\ \A j \in Instance : Listed(j)' \ index'[j] \subseteq Listed(j) \ index[j]
  BY DEF Created, Listed
<1>1. \A j \in Instance : \A n \in 1..Len(inbox'[j]) :
        n \in 1..Len(inbox[j]) /\ inbox'[j][n] = inbox[j][n]
  <2>1. ASSUME NEW j \in Instance, NEW n \in 1..Len(inbox'[j]), inbox'[j] = << >> PROVE FALSE
    <3>1. n \in 1..0
      BY <2>1, SequencesInit
    <3> QED
      BY <3>1
  <2> QED
    BY <2>1
<1>2. Origins'
  BY <1>0, <1>1 DEF ListInv, Origins
<1>3. Requests'
  <2> SUFFICES ASSUME NEW p \in Request, Active(p)'
               PROVE  /\ req'[p].id \in Created /\ req'[p].inst \in up'
                      /\ req'[p].op = "wa_lost" => kind[req'[p].id] = "lost" /\ req'[p].id \in disturbed'
                      /\ Creates(req'[p].op) => req'[p].arg.status = "open"
                      /\ req'[p].op \in {"accept", "update"} => kind[req'[p].id] # "sos"
                      /\ req'[p].pc \in {"send", "accept", "xadd"} \/ req'[p].op = "assign" =>
                            mem'[req'[p].inst][req'[p].id] \in Rec
                      /\ req'[p].pc = "accept" => req'[p].data \in Rec
                      /\ req'[p].pc = "xadd" => req'[p].op = "create"
    BY <1>0 DEF Requests, Active
  <2>1. Active(p) /\ req'[p] = req[p] /\ req[p].inst \in up' /\ req[p].inst \in Instance
    BY RecordsKnown
  <2>2. mem'[req[p].inst] = mem[req[p].inst]
    BY <2>1
  <2> QED
    BY <2>1, <2>2 DEF ListInv, Requests
<1>4. Lists'
  <2>1. ASSUME NEW j \in Instance, NEW k \in Kind, NEW id \in ToSet(list'[j][k])
        PROVE  id \in Created /\ kind[id] = k
    BY DEF ListInv, Lists
  <2>2. NoDuplicateRecords'
    BY DEF ListInv, Lists, NoDuplicateRecords, Distinct
  <2>3. ASSUME NEW j \in Instance
        PROVE  /\ index'[j] \subseteq Listed(j)'
               /\ \A id \in Listed(j)' \ index'[j] : kind[id] = "lost" /\ id \in disturbed'
               /\ \A id \in Listed(j)' : mem'[j][id] \in Rec
    <3>1. CASE j = i
      BY <3>1 DEF Listed
    <3>2. CASE j # i
      BY <1>0, <3>2 DEF ListInv, Lists
    <3> QED
      BY <3>1, <3>2
  <2> QED
    BY <1>0, <2>1, <2>2, <2>3 DEF Lists
<1>5. OneCreation'
  <2> SUFFICES ASSUME NEW p \in Request, NEW id \in Record, Creating(p, id)'
               PROVE  /\ \A r \in Request : Creating(r, id)' => r = p
                      /\ req'[p].pc \in {"pg", "resume"} => id \notin Listed(req[p].inst)'
                      /\ \A j \in Instance : j # req'[p].inst => id \notin Listed(j)' \ index'[j]
                      /\ req'[p].pc # "xadd" =>
                            \A j \in Instance : \A n \in 1..Len(inbox'[j]) :
                                ~(inbox'[j][n].type = "new" /\ inbox'[j][n].id = id)
    BY DEF OneCreation
  <2>1. \A r \in Request : Creating(r, id)' => Creating(r, id) /\ req'[r] = req[r]
    BY DEF Creating, Active
  <2>2. Creating(p, id) /\ req'[p] = req[p] /\ Active(p)' /\ req[p].inst \in Instance
    BY <2>1, RecordsKnown DEF Creating
  <2>3. \A r \in Request : Creating(r, id)' => r = p
    BY <2>1, <2>2 DEF ListInv, OneCreation
  <2>4. req'[p].pc \in {"pg", "resume"} => id \notin Listed(req[p].inst)'
    <3> DEFINE j == req[p].inst
    <3>1. req[p].pc \in {"pg", "resume"} => id \notin Listed(j)
      BY <2>2 DEF ListInv, OneCreation
    <3>2. \A d : d \in Listed(j)' => d \in Listed(j)
      BY <1>0, <2>2
    <3> QED
      BY <2>2, <3>1, <3>2
  <2>5. \A j \in Instance : j # req'[p].inst => id \notin Listed(j)' \ index'[j]
    BY <1>0, <2>2 DEF ListInv, OneCreation
  <2>6. req'[p].pc # "xadd" =>
          \A j \in Instance : \A n \in 1..Len(inbox'[j]) :
              ~(inbox'[j][n].type = "new" /\ inbox'[j][n].id = id)
    BY <1>1, <2>2 DEF ListInv, OneCreation
  <2> QED
    BY <2>3, <2>4, <2>5, <2>6
<1>6. NewsIsNew'
  BY <1>0, <1>1 DEF ListInv, NewsIsNew
<1> QED
  BY <1>2, <1>3, <1>4, <1>5, <1>6 DEF ListInv

LEMMA CrashKeepsLists ==
    ASSUME ListInv, NEW i \in Instance, Crash(i)
    PROVE  ListInv'
<1>1. \A k \in Kind : ToSet(list'[i][k]) = {} /\ Distinct(list'[i][k])
  BY CrashFacts, SequencesInit DEF Distinct
<1>2. Listed(i)' = {}
  BY <1>1 DEF Listed
<1>3. \A q \in Request : Active(q)' =>
        Active(q) /\ req'[q] = req[q] /\ req[q].inst # i /\ req[q].inst \in up'
  BY CrashFacts DEF ListInv, Requests
<1>4. \A j \in Instance \ up' : index'[j] = {} /\ inbox'[j] = << >> /\ Listed(j)' = {}
  <2>1. ASSUME NEW j \in Instance \ up', j # i
        PROVE  index'[j] = {} /\ inbox'[j] = << >> /\ Listed(j)' = {}
    <3>1. index[j] = {} /\ inbox[j] = << >> /\ Listed(j) = {}
      BY <2>1, CrashFacts DEF ListInv, Origins
    <3> QED
      BY <2>1, <3>1, CrashFacts, ListedFacts
  <2> QED
    BY <1>2, <2>1, CrashFacts
<1>5. \A j \in Instance : inbox'[j] = inbox[j] \/ inbox'[j] = << >>
  BY CrashFacts
<1>6. /\ Types' /\ UNCHANGED <<pg, stream, kind, nextId, unsaved>>
      /\ \A j \in Instance : j # i =>
           list'[j] = list[j] /\ index'[j] = index[j] /\ mem'[j] = mem[j]
      /\ index'[i] = Listed(i)' /\ \A k \in Kind : Distinct(list'[i][k])
      /\ disturbed \subseteq disturbed'
  BY <1>1, <1>2, CrashFacts
<1>7. \A k \in Kind : \A id \in ToSet(list'[i][k]) :
        id \in Created /\ kind[id] = k /\ mem'[i][id] \in Rec
  BY <1>1
<1>8. \A q \in Request : Active(q)' => req[q].inst # i
  BY <1>3
<1>9. \A q \in Request : Active(q)' => Active(q) /\ req'[q] = req[q] /\ req[q].inst \in up'
  BY <1>3
<1> QED
  BY <1>4, <1>5, <1>6, <1>7, <1>8, <1>9, OneMemoryReplaced

LEMMA PruneKeepsLists ==
    ASSUME ListInv, NEW i \in Instance, Prune(i)
    PROVE  ListInv'
<1>1. \A k \in Kind : Distinct(list[i][k])
  BY DEF ListInv, Lists, NoDuplicateRecords, Distinct
<1>2. ASSUME NEW k \in Kind, NEW id \in ToSet(list'[i][k])
      PROVE  id \in Created /\ kind[id] = k /\ mem'[i][id] \in Rec
  <2>1. id \in ToSet(list[i][k])
    BY PruneFacts
  <2>2. mem[i][id] \in Rec
    BY <2>1 DEF ListInv, Lists, Listed
  <2>3. id \in Created /\ kind[id] = k
    BY <2>1 DEF ListInv, Lists
  <2> QED
    BY <2>2, <2>3, PruneFacts
<1>3. Listed(i)' \subseteq Listed(i) /\ Listed(i) \subseteq Created
  <2>1. \A k \in Kind : ToSet(list'[i][k]) \subseteq ToSet(list[i][k])
    BY PruneFacts
  <2> QED
    BY <2>1 DEF Listed, ListInv, Lists
<1>4. \A q \in Request : Active(q)' => Active(q) /\ req'[q] = req[q] /\ req[q].inst \in up'
  BY PruneFacts DEF ListInv, Requests, Active
<1>5. disturbed \subseteq disturbed'
  BY <1>3, PruneFacts, OriginFacts
<1>6. \A j \in Instance \ up' : index'[j] = {} /\ inbox'[j] = << >> /\ Listed(j)' = {}
  <2>1. ASSUME NEW j \in Instance \ up'
        PROVE  index'[j] = {} /\ inbox'[j] = << >> /\ Listed(j)' = {}
    <3>1. index[j] = {} /\ inbox[j] = << >> /\ Listed(j) = {} /\ j # i
      BY PruneFacts DEF ListInv, Origins
    <3> QED
      BY <3>1, PruneFacts, ListedFacts
  <2> QED
    BY <2>1
<1>7. /\ Types' /\ UNCHANGED <<pg, stream, kind, nextId, unsaved>> /\ mem'[i] = mem[i]
      /\ \A j \in Instance : j # i =>
           list'[j] = list[j] /\ index'[j] = index[j] /\ mem'[j] = mem[j]
      /\ \A j \in Instance : inbox'[j] = inbox[j] \/ inbox'[j] = << >>
      /\ index'[i] = Listed(i)' /\ \A k \in Kind : Distinct(list'[i][k])
  BY <1>1, PruneFacts
<1> QED
  BY <1>2, <1>3, <1>4, <1>5, <1>6, <1>7, OneMemoryReplaced

LEMMA BootKeepsLists ==
    ASSUME ListInv, NEW i \in Instance, Boot(i)
    PROVE  ListInv'
<1>1. index[i] = {} /\ Listed(i) = {} /\ up' = up \cup {i} /\ i \notin up
  BY BootFacts DEF ListInv, Origins
<1>2. \A q \in Request : Active(q)' =>
        Active(q) /\ req'[q] = req[q] /\ req[q].inst # i /\ req[q].inst \in up'
  BY <1>1, BootFacts DEF ListInv, Requests, Active
<1>3. \A j \in Instance \ up' : index'[j] = {} /\ inbox'[j] = << >> /\ Listed(j)' = {}
  <2>1. ASSUME NEW j \in Instance \ up'
        PROVE  index'[j] = {} /\ inbox'[j] = << >> /\ Listed(j)' = {}
    <3>1. index[j] = {} /\ inbox[j] = << >> /\ Listed(j) = {} /\ j # i
      BY <1>1 DEF ListInv, Origins
    <3> QED
      BY <3>1, BootFacts, ListedFacts
  <2> QED
    BY <2>1
<1>4. /\ index'[i] = Listed(i)'
      /\ \A k \in Kind : Distinct(list'[i][k])
      /\ \A k \in Kind : \A id \in ToSet(list'[i][k]) :
           id \in Created /\ kind[id] = k /\ mem'[i][id] \in Rec
  <2>1. CASE /\ \A k \in Kind : ToSet(list'[i][k]) \subseteq Rows(k) /\ Distinct(list'[i][k])
             /\ index'[i] = Listed(i)'
             /\ \A id \in index'[i] : id \in Record /\ pg[id] # NoRec /\ mem'[i][id] = pg[id]
    <3>1. ASSUME NEW k \in Kind, NEW id \in ToSet(list'[i][k])
          PROVE  id \in Created /\ kind[id] = k /\ mem'[i][id] \in Rec
      <4>1. id \in index'[i] /\ id \in Rows(k)
        BY <2>1 DEF Listed
      <4>2. id \in Record /\ pg[id] # NoRec /\ kind[id] = k /\ mem'[i][id] = pg[id]
        BY <2>1, <4>1 DEF Rows
      <4>3. id \in Created /\ pg[id] \in Rec
        BY <4>2, OriginFacts DEF ListInv, Types, SharedTypes
      <4> QED
        BY <4>2, <4>3
    <3> QED
      BY <2>1, <3>1
  <2>2. CASE UNCHANGED <<list, index, mem>>
    <3>1. Listed(i)' = {} /\ index'[i] = {}
      BY <1>1, <2>2, ListedFacts
    <3>2. \A k \in Kind : ToSet(list'[i][k]) = {}
      BY <3>1 DEF Listed
    <3>3. \A k \in Kind : Distinct(list'[i][k])
      BY <2>2 DEF ListInv, Lists, NoDuplicateRecords, Distinct
    <3> QED
      BY <3>1, <3>2, <3>3
  <2> QED
    BY <2>1, <2>2, BootFacts
<1>5. /\ Types' /\ UNCHANGED <<pg, stream, kind, nextId, unsaved>>
      /\ \A j \in Instance : j # i =>
           list'[j] = list[j] /\ index'[j] = index[j] /\ mem'[j] = mem[j]
      /\ \A j \in Instance : inbox'[j] = inbox[j] \/ inbox'[j] = << >>
      /\ disturbed \subseteq disturbed'
  BY BootFacts
<1> QED
  BY <1>2, <1>3, <1>4, <1>5, OneMemoryReplaced

LEMMA DeliverKeepsLists ==
    ASSUME ListInv, NEW i \in Instance, Deliver(i)
    PROVE  ListInv'
<1> DEFINE m == inbox[i][1]
<1>1. /\ m \in Message /\ m.id \in Created /\ m.id \in Record /\ m.data \in Rec /\ kind[m.id] \in Kind
      /\ 1 \in 1..Len(inbox[i])
  <2>1. m \in Message /\ 1 \in 1..Len(inbox[i])
    BY DeliverFacts
  <2>2. m.id \in Created
    BY <2>1 DEF ListInv, Origins
  <2>3. m.id \in Record /\ m.data \in Rec
    BY <2>1 DEF Message
  <2> QED
    BY <2>1, <2>2, <2>3 DEF ListInv, Origins
<1>2. \A j \in Instance : \A n \in 1..Len(inbox'[j]) :
        \E h \in 1..Len(inbox[j]) : inbox'[j][n] = inbox[j][h]
  <2>1. \A n \in 1..Len(inbox'[i]) : n + 1 \in 1..Len(inbox[i]) /\ inbox'[i][n] = inbox[i][n + 1]
    BY DeliverFacts
  <2>2. \A j \in Instance : j # i => inbox'[j] = inbox[j]
    BY DeliverFacts
  <2> QED
    BY <2>1, <2>2
<1>3. \A j \in Instance, d \in Record : mem[j][d] \in Rec => mem'[j][d] \in Rec
  <2>1. \A j \in Instance : j # i => mem'[j] = mem[j]
    BY DeliverFacts
  <2>2. \A d \in Record : mem'[i][d] = mem[i][d] \/ mem'[i][d] \in Rec
    BY <1>1, DeliverFacts
  <2> QED
    BY <2>1, <2>2
<1>4. /\ Lists'
      /\ \A j \in Instance : Listed(j)' \ index'[j] \subseteq Listed(j) \ index[j]
      /\ \A j \in Instance : \A d \in Record : d \in Listed(j)' =>
           d \in Listed(j) \/ (d = m.id /\ j = i /\ m.type = "new")
  <2>1. CASE /\ m.type = "new" /\ m.id \notin index[i]
             /\ ListsOneMore(i, kind[m.id], m.id)
             /\ index'[i] = index[i] \cup {m.id}
             /\ mem'[i][m.id] = m.data
    <3>0. PICK id \in Record, k \in Kind :
            /\ Types /\ id = m.id /\ k = kind[id]
            /\ ListsOneMore(i, k, id)
      BY <1>1, <2>1 DEF ListInv
    <3>1. /\ ToSet(list'[i][k]) = ToSet(list[i][k]) \cup {id}
          /\ \A j \in Instance, c \in Kind : j # i \/ c # k => list'[j][c] = list[j][c]
          /\ \A j \in Instance : Listed(j)' = IF j = i THEN Listed(j) \cup {id} ELSE Listed(j)
          /\ NoDuplicateRecords /\ id \notin Listed(i) => NoDuplicateRecords'
      <4>1. ToSet(list'[i][k]) = ToSet(list[i][k]) \cup {id}
        BY <3>0, AppendsTo
      <4>2. /\ \A j \in Instance, c \in Kind : j # i \/ c # k => list'[j][c] = list[j][c]
            /\ NoDuplicateRecords /\ id \notin Listed(i) => NoDuplicateRecords'
        BY <3>0, Appends
      <4>3. \A j \in Instance : Listed(j)' = IF j = i THEN Listed(j) \cup {id} ELSE Listed(j)
        BY <3>0, AppendsListed
      <4> QED
        BY <4>1, <4>2, <4>3
    <3>2. id \notin Listed(i)
      BY <1>1, <2>1, <3>0 DEF ListInv, NewsIsNew
    <3>3. NoDuplicateRecords'
      BY <3>1, <3>2 DEF ListInv, Lists
    <3>4. \A j \in Instance : IF j = i THEN index'[j] = index[j] \cup {id} ELSE index'[j] = index[j]
      BY <2>1, <3>0, DeliverFacts
    <3>5. Created' = Created
      BY DeliverFacts DEF Created
    <3>6. ASSUME NEW j \in Instance, NEW c \in Kind, NEW d \in ToSet(list'[j][c])
          PROVE  d \in Created' /\ kind'[d] = c
      <4>1. d \in ToSet(list[j][c]) \/ (d = id /\ c = k)
        BY <3>1
      <4> QED
        BY <1>1, <3>0, <3>5, <4>1, DeliverFacts DEF ListInv, Lists
    <3>7. ASSUME NEW j \in Instance
          PROVE  /\ index'[j] \subseteq Listed(j)'
                 /\ Listed(j)' \ index'[j] \subseteq Listed(j) \ index[j]
                 /\ \A d \in Listed(j)' : mem'[j][d] \in Rec
      <4>1. /\ index[j] \subseteq Listed(j)
            /\ \A d \in Listed(j) : d \in Created /\ mem[j][d] \in Rec
        BY DEF ListInv, Lists, Listed
      <4>2. index'[j] \subseteq Listed(j)' /\ Listed(j)' \ index'[j] \subseteq Listed(j) \ index[j]
        BY <3>1, <3>4, <4>1
      <4>3. \A d \in Listed(j) : mem'[j][d] \in Rec
        BY <1>3, <4>1, CreatedFacts DEF ListInv, Types
      <4>4. mem'[i][id] \in Rec
        BY <1>1, <2>1, <3>0
      <4> QED
        BY <3>1, <4>2, <4>3, <4>4
    <3>8. ASSUME NEW j \in Instance, NEW d \in Listed(j)' \ index'[j]
          PROVE  kind'[d] = "lost" /\ d \in disturbed'
      <4>1. d \in Listed(j) \ index[j]
        BY <3>7
      <4> QED
        BY <4>1, DeliverFacts DEF ListInv, Lists
    <3>9. Lists'
      BY <3>3, <3>6, <3>7, <3>8 DEF Lists
    <3> QED
      BY <2>1, <3>0, <3>1, <3>7, <3>9
  <2>2. CASE UNCHANGED <<list, index>>
    <3>1. Created' = Created /\ \A j \in Instance : Listed(j)' = Listed(j)
      BY <2>2, DeliverFacts DEF Created, Listed
    <3>2. \A j \in Instance, c \in Kind : \A d \in ToSet(list'[j][c]) : d \in Created' /\ kind'[d] = c
      BY <2>2, <3>1, DeliverFacts DEF ListInv, Lists
    <3>3. NoDuplicateRecords'
      BY <2>2 DEF ListInv, Lists, NoDuplicateRecords
    <3>4. ASSUME NEW j \in Instance
          PROVE  /\ index'[j] \subseteq Listed(j)'
                 /\ \A d \in Listed(j)' \ index'[j] : kind'[d] = "lost" /\ d \in disturbed'
                 /\ \A d \in Listed(j)' : mem'[j][d] \in Rec
      <4>1. \A d \in Listed(j) : d \in Created /\ mem[j][d] \in Rec
        BY DEF ListInv, Lists, Listed
      <4>2. \A d \in Listed(j) : mem'[j][d] \in Rec
        BY <1>3, <4>1, CreatedFacts DEF ListInv, Types
      <4> QED
        BY <2>2, <3>1, <4>2, DeliverFacts DEF ListInv, Lists
    <3>5. Lists'
      BY <3>2, <3>3, <3>4 DEF Lists
    <3> QED
      BY <2>2, <3>1, <3>5
  <2> QED
    BY <2>1, <2>2, DeliverFacts
<1>5. Created' = Created
  BY DeliverFacts DEF Created
<1> HIDE DEF m
<1>6. Origins'
  <2>1. \A j \in Instance \ up' : index'[j] = {} /\ inbox'[j] = << >> /\ Listed(j)' = {}
    <3>1. ASSUME NEW j \in Instance \ up' PROVE index'[j] = {} /\ inbox'[j] = << >> /\ Listed(j)' = {}
      <4>1. index[j] = {} /\ inbox[j] = << >> /\ Listed(j) = {} /\ j # i
        BY DeliverFacts DEF ListInv, Origins
      <4> QED
        BY <4>1, DeliverFacts, ListedFacts
    <3> QED
      BY <3>1
  <2>2. \A j \in Instance : \A n \in 1..Len(inbox'[j]) : inbox'[j][n].id \in Created'
    BY <1>2, <1>5 DEF ListInv, Origins
  <2>3. UNCHANGED <<disturbed, kind, pg, stream>>
    BY DeliverFacts
  <2> QED
    BY <1>5, <2>1, <2>2, <2>3 DEF ListInv, Origins
<1>7. Requests'
  <2>1. \A p \in Request : Active(p)' => Active(p) /\ req'[p] = req[p]
    BY DeliverFacts DEF Active
  <2>2. \A p \in Request : Active(p) /\ mem[req[p].inst][req[p].id] \in Rec =>
          mem'[req[p].inst][req[p].id] \in Rec
    BY <1>3, RecordsKnown
  <2>3. UNCHANGED <<up, kind, disturbed>>
    BY DeliverFacts
  <2> QED
    BY <1>5, <2>1, <2>2, <2>3 DEF ListInv, Requests
<1>8. OneCreation'
  <2> SUFFICES ASSUME NEW p \in Request, NEW id \in Record, Creating(p, id)'
               PROVE  /\ \A r \in Request : Creating(r, id)' => r = p
                      /\ req'[p].pc \in {"pg", "resume"} => id \notin Listed(req[p].inst)'
                      /\ \A j \in Instance : j # req'[p].inst => id \notin Listed(j)' \ index'[j]
                      /\ req'[p].pc # "xadd" =>
                            \A j \in Instance : \A n \in 1..Len(inbox'[j]) :
                                ~(inbox'[j][n].type = "new" /\ inbox'[j][n].id = id)
    BY DEF OneCreation
  <2>1. /\ \A r \in Request : Creating(r, id)' => Creating(r, id)
        /\ Creating(p, id) /\ req'[p] = req[p] /\ req[p].inst \in Instance
    BY DeliverFacts, RecordsKnown DEF Creating, Active
  <2>2. \A r \in Request : Creating(r, id)' => r = p
    BY <2>1 DEF ListInv, OneCreation
  <2>3. req[p].pc # "xadd" => ~(m.type = "new" /\ m.id = id)
    BY <1>1, <2>1 DEF ListInv, OneCreation, m
  <2>4. req'[p].pc \in {"pg", "resume"} => id \notin Listed(req[p].inst)'
    <3> DEFINE j == req[p].inst
    <3>1. req[p].pc \in {"pg", "resume"} => id \notin Listed(j)
      BY <2>1 DEF ListInv, OneCreation
    <3>2. id \in Listed(j)' => id \in Listed(j) \/ (id = m.id /\ m.type = "new")
      BY <1>4, <2>1
    <3> QED
      BY <2>1, <2>3, <3>1, <3>2
  <2>5. \A j \in Instance : j # req'[p].inst => id \notin Listed(j)' \ index'[j]
    BY <1>4, <2>1 DEF ListInv, OneCreation
  <2>6. req'[p].pc # "xadd" =>
          \A j \in Instance : \A n \in 1..Len(inbox'[j]) :
              ~(inbox'[j][n].type = "new" /\ inbox'[j][n].id = id)
    BY <1>2, <2>1 DEF ListInv, OneCreation
  <2> QED
    BY <2>2, <2>4, <2>5, <2>6
<1>9. NewsIsNew'
  BY <1>2, <1>4 DEF ListInv, NewsIsNew
<1> QED
  BY <1>4, <1>6, <1>7, <1>8, <1>9, DeliverFacts DEF ListInv

LEMMA MutateKeepsLists ==
    ASSUME ListInv, NEW q \in Request, Mutate(q)
    PROVE  ListInv'
<1>1. PICK i \in Instance, id \in Record, k \in Kind :
        i = req[q].inst /\ id = req[q].id /\ k = kind[id] /\ id \in Created
  BY MutateFacts, RecordsKnown
<1>2. /\ Active(q) /\ req[q].pc = "resume" /\ req'[q].pc = "send" /\ req'[q].inst = i
      /\ req'[q].op = req[q].op /\ req'[q].id = id /\ req'[q].arg = req[q].arg
      /\ \A p \in Request : p # q => req'[p] = req[p]
      /\ UNCHANGED <<pg, stream, up, sub, inbox, kind, nextId, disturbed, unsaved>>
      /\ Created' = Created
  BY <1>1, MutateFacts DEF Created
<1>3. \A j \in Instance, d \in Record : mem[j][d] \in Rec => mem'[j][d] \in Rec
  BY <1>1, MutateFacts
<1>4. mem'[i][id] \in Rec
  BY <1>1, MutateFacts
<1>5. ASSUME Creates(req[q].op)
      PROVE  /\ id \notin Listed(i) /\ ListsOneMore(i, k, id)
             /\ \A p \in Request : Creating(p, id) => p = q
             /\ \A j \in Instance : j # i => id \notin Listed(j) \ index[j]
             /\ \A j \in Instance : \A n \in 1..Len(inbox[j]) :
                  ~(inbox[j][n].type = "new" /\ inbox[j][n].id = id)
  <2>1. Creating(q, id)
    BY <1>1, <1>2, <1>5 DEF Creating
  <2>2. id \notin Listed(i) /\ ListsOneMore(i, k, id)
    BY <1>1, <1>5, MutateFacts
  <2> QED
    BY <1>1, <1>2, <2>1, <2>2 DEF ListInv, OneCreation
<1>6. /\ Lists'
      /\ \A j \in Instance, d \in Record : d \in Listed(j)' =>
           d \in Listed(j) \/ (d = id /\ j = i /\ Creates(req[q].op))
      /\ \A j \in Instance : \A d \in Listed(j)' \ index'[j] :
           d \in Listed(j) \ index[j] \/ (d = id /\ j = i /\ Creates(req[q].op))
  <2>1. CASE Creates(req[q].op)
    <3>1. Types /\ ListsOneMore(i, k, id) /\ id \notin Listed(i)
      BY <1>5, <2>1 DEF ListInv
    <3>2. ToSet(list'[i][k]) = ToSet(list[i][k]) \cup {id}
      BY <3>1, AppendsTo
    <3>3. /\ \A j \in Instance, c \in Kind : j # i \/ c # k => list'[j][c] = list[j][c]
          /\ NoDuplicateRecords /\ id \notin Listed(i) => NoDuplicateRecords'
      BY <3>1, Appends
    <3>4. \A j \in Instance : Listed(j)' = IF j = i THEN Listed(j) \cup {id} ELSE Listed(j)
      BY <3>1, AppendsListed
    <3>5. NoDuplicateRecords'
      BY <3>1, <3>3 DEF ListInv, Lists
    <3>6. index' = IF req[q].op = "create" THEN [index EXCEPT ![i] = @ \cup {id}] ELSE index
      BY <1>1, <2>1, MutateFacts
    <3>7. index \in [Instance -> SUBSET Record]
      BY DEF ListInv, Types, InstanceTypes
    <3>8. /\ \A j \in Instance : index'[j] = index[j] \/ (j = i /\ index'[j] = index[j] \cup {id})
          /\ id \in index'[i] \/ req[q].op = "wa_lost"
      BY <2>1, <3>6, <3>7 DEF Creates
    <3>9. ASSUME NEW j \in Instance, NEW c \in Kind, NEW d \in ToSet(list'[j][c])
          PROVE  d \in Created' /\ kind'[d] = c
      <4>1. d \in ToSet(list[j][c]) \/ (d = id /\ c = k)
        BY <3>2, <3>3
      <4> QED
        BY <1>1, <1>2, <4>1 DEF ListInv, Lists
    <3>10. ASSUME NEW j \in Instance
           PROVE  /\ index'[j] \subseteq Listed(j)'
                  /\ \A d \in Listed(j)' : mem'[j][d] \in Rec
      <4>1. /\ index[j] \subseteq Listed(j)
            /\ \A d \in Listed(j) : d \in Created /\ mem[j][d] \in Rec
        BY DEF ListInv, Lists, Listed
      <4>2. index'[j] \subseteq Listed(j)'
        BY <3>4, <3>8, <4>1
      <4>3. \A d \in Listed(j) : mem'[j][d] \in Rec
        BY <1>3, <4>1, CreatedFacts DEF ListInv, Types
      <4> QED
        BY <1>4, <3>4, <4>2, <4>3
    <3>11. ASSUME NEW j \in Instance, NEW d \in Listed(j)' \ index'[j]
           PROVE  /\ kind'[d] = "lost" /\ d \in disturbed'
                  /\ d \in Listed(j) \ index[j] \/ (d = id /\ j = i)
      <4>1. d \in Listed(j) \ index[j] \/ (d = id /\ j = i /\ req[q].op = "wa_lost")
        BY <3>4, <3>8
      <4>2. CASE d \in Listed(j) \ index[j]
        BY <1>2, <4>2 DEF ListInv, Lists
      <4>3. CASE d = id /\ j = i /\ req[q].op = "wa_lost"
        BY <1>1, <1>2, <4>3 DEF ListInv, Requests
      <4> QED
        BY <4>1, <4>2, <4>3
    <3>12. Lists'
      BY <3>5, <3>9, <3>10, <3>11 DEF Lists
    <3> QED
      BY <2>1, <3>4, <3>11, <3>12
  <2>2. CASE ~Creates(req[q].op)
    <3>1. UNCHANGED <<list, index>>
      BY <2>2, MutateFacts
    <3>2. \A j \in Instance : Listed(j)' = Listed(j)
      BY <3>1 DEF Listed
    <3>3. \A j \in Instance, c \in Kind : \A d \in ToSet(list'[j][c]) : d \in Created' /\ kind'[d] = c
      BY <1>2, <3>1 DEF ListInv, Lists
    <3>4. NoDuplicateRecords'
      BY <3>1 DEF ListInv, Lists, NoDuplicateRecords
    <3>5. ASSUME NEW j \in Instance
          PROVE  /\ index'[j] \subseteq Listed(j)'
                 /\ \A d \in Listed(j)' \ index'[j] : kind'[d] = "lost" /\ d \in disturbed'
                 /\ \A d \in Listed(j)' : mem'[j][d] \in Rec
      <4>1. \A d \in Listed(j) : d \in Created /\ mem[j][d] \in Rec
        BY DEF ListInv, Lists, Listed
      <4>2. \A d \in Listed(j) : mem'[j][d] \in Rec
        BY <1>3, <4>1, CreatedFacts DEF ListInv, Types
      <4> QED
        BY <1>2, <3>1, <3>2, <4>2 DEF ListInv, Lists
    <3>6. Lists'
      BY <3>3, <3>4, <3>5 DEF Lists
    <3> QED
      BY <3>1, <3>2, <3>6
  <2> QED
    BY <2>1, <2>2
<1>7. Origins'
  <2>1. ASSUME NEW j \in Instance \ up' PROVE index'[j] = {} /\ inbox'[j] = << >> /\ Listed(j)' = {}
    <3>1. index[j] = {} /\ inbox[j] = << >> /\ Listed(j) = {} /\ j # i
      BY <1>1, <1>2 DEF ListInv, Origins, Requests
    <3>2. index'[j] \subseteq Listed(j)' /\ \A d \in Listed(j)' : d \in Created'
      BY <1>6 DEF Lists, Listed
    <3>3. \A d \in Listed(j)' : d \in Listed(j)
      BY <1>2, <1>6, <3>1, <3>2, CreatedFacts DEF ListInv, Types
    <3> QED
      BY <1>2, <3>1, <3>2, <3>3
  <2> QED
    BY <1>2, <2>1 DEF ListInv, Origins
<1>8. Requests'
  <2>1. ASSUME NEW p \in Request, Active(p)', p # q
        PROVE  /\ Active(p) /\ req'[p] = req[p]
               /\ mem[req[p].inst][req[p].id] \in Rec => mem'[req[p].inst][req[p].id] \in Rec
    BY <1>2, <1>3, <2>1, RecordsKnown DEF Active
  <2>2. up \subseteq Instance
    BY DEF ListInv, Types, InstanceTypes
  <2> QED
    BY <1>1, <1>2, <1>4, <2>1, <2>2 DEF ListInv, Requests, Active
<1>9. OneCreation'
  <2> SUFFICES ASSUME NEW p \in Request, NEW d \in Record, Creating(p, d)'
               PROVE  /\ \A r \in Request : Creating(r, d)' => r = p
                      /\ req'[p].pc \in {"pg", "resume"} => d \notin Listed(req[p].inst)'
                      /\ \A j \in Instance : j # req'[p].inst => d \notin Listed(j)' \ index'[j]
                      /\ req'[p].pc # "xadd" =>
                            \A j \in Instance : \A n \in 1..Len(inbox'[j]) :
                                ~(inbox'[j][n].type = "new" /\ inbox'[j][n].id = d)
    BY DEF OneCreation
  <2>1. /\ \A r \in Request : Creating(r, d)' => Creating(r, d)
        /\ Creating(p, d) /\ req'[p].inst = req[p].inst /\ req[p].inst \in Instance
        /\ req'[p].pc \in {"pg", "resume"} => p # q /\ req[p].pc \in {"pg", "resume"}
        /\ req'[p].pc # "xadd" => req[p].pc # "xadd"
    BY <1>1, <1>2, RecordsKnown DEF Creating, Active
  <2>2. \A r \in Request : Creating(r, d)' => r = p
    BY <2>1 DEF ListInv, OneCreation
  <2>3. d = id /\ Creates(req[q].op) => p = q
    BY <1>5, <2>1
  <2>4. req'[p].pc \in {"pg", "resume"} => d \notin Listed(req[p].inst)'
    <3> DEFINE j == req[p].inst
    <3>1. req[p].pc \in {"pg", "resume"} => d \notin Listed(j)
      BY <2>1 DEF ListInv, OneCreation
    <3>2. d \in Listed(j)' => d \in Listed(j) \/ (d = id /\ Creates(req[q].op))
      BY <1>6, <2>1
    <3> QED
      BY <2>1, <2>3, <3>1, <3>2
  <2>5. \A j \in Instance : j # req'[p].inst => d \notin Listed(j)' \ index'[j]
    <3>1. \A j \in Instance : j # req[p].inst => d \notin Listed(j) \ index[j]
      BY <2>1 DEF ListInv, OneCreation
    <3> QED
      BY <1>1, <1>6, <2>1, <2>3, <3>1
  <2>6. req'[p].pc # "xadd" =>
          \A j \in Instance : \A n \in 1..Len(inbox'[j]) :
              ~(inbox'[j][n].type = "new" /\ inbox'[j][n].id = d)
    BY <1>2, <2>1 DEF ListInv, OneCreation
  <2> QED
    BY <2>2, <2>4, <2>5, <2>6
<1>10. NewsIsNew'
  <2> SUFFICES ASSUME NEW j \in Instance, NEW n \in 1..Len(inbox'[j]), inbox'[j][n].type = "new"
               PROVE  inbox'[j][n].id \notin Listed(j)' \ index'[j]
    BY DEF NewsIsNew
  <2>1. inbox'[j][n].id \notin Listed(j) \ index[j]
    BY <1>2 DEF ListInv, NewsIsNew
  <2>2. Creates(req[q].op) => inbox'[j][n].id # id
    BY <1>2, <1>5
  <2> QED
    BY <1>6, <2>1, <2>2
<1> QED
  BY <1>6, <1>7, <1>8, <1>9, <1>10, MutateFacts DEF ListInv

LEMMA ListsStep == ListInv /\ [Next]_vars => ListInv'
<1> SUFFICES ASSUME ListInv, [Next]_vars PROVE ListInv'
  OBVIOUS
<1>1. ASSUME NEW q \in Request, NEW i \in Instance, StartCreate(q, i) PROVE ListInv'
  BY <1>1, StartCreateKeepsLists
<1>2. ASSUME NEW q \in Request,
             \/ \E i \in Instance : StartUpdate(q, i)
             \/ PgStatement(q) \/ NotFound(q) \/ Send(q) \/ AddToStream(q)
      PROVE  ListInv'
  BY <1>2, RequestKeepsLists
<1>3. ASSUME NEW q \in Request, Mutate(q) PROVE ListInv'
  BY <1>3, MutateKeepsLists
<1>4. ASSUME NEW q \in Request, Accept(q) PROVE ListInv'
  BY <1>4, AcceptKeepsLists
<1>5. ASSUME NEW i \in Instance, Deliver(i) PROVE ListInv'
  BY <1>5, DeliverKeepsLists
<1>6. ASSUME NEW i \in Instance, Subscribe(i) \/ Disconnect(i) PROVE ListInv'
  BY <1>6, EnvironmentKeepsLists
<1>7. ASSUME NEW i \in Instance, Crash(i) PROVE ListInv'
  BY <1>7, CrashKeepsLists
<1>8. ASSUME NEW i \in Instance, Boot(i) PROVE ListInv'
  BY <1>8, BootKeepsLists
<1>9. ASSUME NEW i \in Instance, Prune(i) PROVE ListInv'
  BY <1>9, PruneKeepsLists
<1>10. ASSUME NEW id \in Record, WriterApply(id) PROVE ListInv'
  BY <1>10, EnvironmentKeepsLists
<1>11. CASE UNCHANGED vars
  <2>1. UNCHANGED <<pg, stream, up, sub, list, index, mem, inbox, req, kind, nextId, begun,
                    faults, disturbed, unsaved>>
    BY <1>11 DEF vars
  <2>2. Types'
    BY <2>1 DEF ListInv, Types, SharedTypes, InstanceTypes
  <2>3. \A p \in Request : Active(p)' => GoesOn(p)
    BY <2>1 DEF GoesOn, Active, ListInv, Requests
  <2>4. /\ \A id \in Record : id \notin Created => pg'[id] = NoRec /\ stream'[id] = NoRec
        /\ \A i \in Instance : \A n \in 1..Len(inbox'[i]) : Justified(i, inbox'[i][n])
        /\ \A i \in Instance \ up : inbox'[i] = << >>
    BY <2>1, OriginFacts
  <2> QED
    BY <2>1, <2>2, <2>3, <2>4, MemoriesKept
<1> QED
  BY <1>1, <1>2, <1>3, <1>4, <1>5, <1>6, <1>7, <1>8, <1>9, <1>10, <1>11 DEF Next

LEMMA ListInvariant == Spec => []ListInv
<1>1. Init => ListInv
  BY ListsInit
<1>2. ListInv /\ [Next]_vars => ListInv'
  BY ListsStep
<1> QED
  BY <1>1, <1>2, PTL DEF Spec

LEMMA ListInvTogether == ListInv => TypeOK /\ NoDuplicateRecords /\ IndexMatchesLists
<1> SUFFICES ASSUME ListInv PROVE TypeOK /\ NoDuplicateRecords /\ IndexMatchesLists
  OBVIOUS
<1>1. ASSUME NEW i \in Instance, NEW k \in Kind
      PROVE  ToSet(list[i][k]) \subseteq {id \in 1..(nextId - 1) : kind[id] = k}
  BY DEF ListInv, Lists, Created
<1>2. \A i \in Instance : index[i] \subseteq 1..(nextId - 1)
  BY RecordsKnown DEF Created
<1>3. \A id \in Record : kind[id] \in IF id < nextId THEN Kind ELSE {Nobody}
  <2>1. \A id \in Record : id < nextId <=> id \in Created
    BY CreatedFacts DEF Record, Created, ListInv, Types
  <2> QED
    BY <2>1 DEF ListInv, Origins
<1>4. TypeOK
  BY <1>1, <1>2, <1>3 DEF TypeOK, ListInv, Types, SharedTypes, InstanceTypes, Origins, Requests
<1>5. NoDuplicateRecords
  BY DEF ListInv, Lists
<1>6. \A i \in Instance : \A id \in Listed(i) : mem[i][id] # NoRec
  BY NoRecAssumption DEF ListInv, Lists
<1>7. IndexMatchesLists
  BY <1>4, <1>6 DEF IndexMatchesLists, ListInv, Lists
<1> QED
  BY <1>4, <1>5, <1>7

\* The components have their types; nothing exists of a record before it is
\* created, or of what an instance knew before it stopped.
THEOREM TypeCorrect == Spec => []TypeOK
BY ListInvariant, ListInvTogether, PTL

\* No list of an instance has a record twice, whatever route each copy took:
\* the handler that created it, hydration, or sync_state.
THEOREM NoDuplicates == Spec => []NoDuplicateRecords
BY ListInvariant, ListInvTogether, PTL

\* DB_BY_ID has only what a list has, and misses none but the lost persons the
\* WhatsApp router registers without indexing them.
THEOREM IndexAlwaysMatches == Spec => []IndexMatchesLists
BY ListInvariant, ListInvTogether, PTL

----------------------------------------------------------------------------
(* What has settled agrees.                                                 *)

\* An update keeps a row and an object that match in step.
LEMMA MatchesFacts ==
    ASSUME NEW row \in Rec, NEW v \in Rec, NEW arg \in Rec, Matches(row, v),
           NEW op \in {"assign", "resolve", "accept", "update"}
    PROVE  Matches(PgValue(op, arg, row), MemValue(op, arg, v))
<1> USE DEF PgValue, MemValue, Matches, Creates, Rec
<1>1. CASE op = "assign"
  BY <1>1
<1>2. CASE op = "accept"
  BY <1>2
<1>3. CASE op = "resolve"
  BY <1>3
<1>4. CASE op = "update"
  BY <1>4
<1> QED
  BY <1>1, <1>2, <1>3, <1>4

\* The messages about a record that instance i has yet to apply are the same.
SameNews(i, id) ==
    /\ \A n \in 1..Len(inbox'[i]) : inbox'[i][n].id = id =>
          \E m \in 1..Len(inbox[i]) : inbox[i][m] = inbox'[i][n]
    /\ i \in up' => \A n \in 1..Len(inbox[i]) : inbox[i][n].id = id =>
          \E m \in 1..Len(inbox'[i]) : inbox'[i][m] = inbox[i][n]

\* A step that has nothing to do with record id, though an instance may stop.
Unconcerned(id) ==
    /\ pg'[id] = pg[id] /\ stream'[id] = stream[id] /\ up' \subseteq up
    /\ id \in unsaved' <=> id \in unsaved
    /\ \A q \in Request : Busy(q, id) => Busy(q, id)'
    /\ \A q \in Request : Busy(q, id)' =>
          Busy(q, id) /\ req'[q] = req[q] /\ req[q].inst \in up'
    /\ \A i \in Instance : (id \in index'[i] => id \in index[i]) /\ SameNews(i, id)
    /\ \A i \in up' : (id \in index[i] => id \in index'[i]) /\ mem'[i][id] = mem[i][id]

LEMMA UnconcernedKeeps ==
    ASSUME Types, NEW id \in Record, AloneAt(id), InTuneAt(id), Unconcerned(id)
    PROVE  AloneAt(id)' /\ InTuneAt(id)'
<1>0. up' \subseteq up /\ up \subseteq Instance
  BY DEF Unconcerned, Types, InstanceTypes
<1>1. ASSUME NEW i \in Instance, Unmentioned(i, id) PROVE Unmentioned(i, id)'
  BY <1>1 DEF Unmentioned, Unconcerned, SameNews
<1>2. ASSUME NEW i \in up', Unmentioned(i, id)' PROVE Unmentioned(i, id)
  BY <1>0, <1>2 DEF Unmentioned, Unconcerned, SameNews
<1>3. \A q \in Request : Busy(q, id)' => Busy(q, id) /\ req'[q] = req[q] /\ req[q].inst \in up'
  BY DEF Unconcerned
<1>4. AloneAt(id)'
  <2> SUFFICES ASSUME NEW q \in Request, Busy(q, id)'
               PROVE  /\ \A p \in Request : Busy(p, id)' => p = q
                      /\ req'[q].pc # "xadd" => \A i \in Instance : Unmentioned(i, id)'
    BY DEF AloneAt
  <2> QED
    BY <1>1, <1>3 DEF AloneAt, Unconcerned
<1>5. ASSUME NEW v, NEW i \in up', Holds(i, id, v) PROVE Holds(i, id, v)'
  <2>1. i \in Instance /\ mem'[i][id] = mem[i][id] /\ (id \in index'[i] <=> id \in index[i])
    BY <1>0 DEF Unconcerned
  <2>2. \A n \in 1..Len(inbox'[i]) : inbox'[i][n].id = id =>
          \E m \in 1..Len(inbox[i]) : inbox[i][m] = inbox'[i][n]
    BY <2>1 DEF Unconcerned, SameNews
  <2> QED
    BY <1>2, <1>5, <2>1, <2>2 DEF Holds
<1>6. Agreed(id) => Agreed(id)'
  BY <1>0, <1>5 DEF Agreed, RowMatches, Unconcerned
<1>7. (\A q \in Request : Busy(q, id)' => AtRest(q)') => Agreed(id)'
  <2>1. \A q \in Request : Busy(q, id) => Busy(q, id)' /\ req'[q] = req[q]
    BY <1>3 DEF Unconcerned
  <2>2. \A q \in Request : Busy(q, id) /\ AtRest(q)' => AtRest(q)
    BY <2>1 DEF AtRest
  <2> QED
    BY <1>6, <2>1, <2>2 DEF InTuneAt
<1>8. ASSUME NEW q \in Request, Busy(q, id)', Creates(req'[q].op) PROVE CreationInTune(q, id)'
  <2>1. CreationInTune(q, id) /\ req'[q] = req[q] /\ req[q].inst \in up' /\ req[q].inst \in Instance
    BY <1>0, <1>3, <1>8 DEF InTuneAt
  <2>2. Unmentioned(req[q].inst, id) => Unmentioned(req[q].inst, id)'
    <3> DEFINE i == req[q].inst
    <3>1. i \in Instance
      BY <2>1
    <3>2. Unmentioned(i, id) => \A n \in 1..Len(inbox'[i]) : inbox'[i][n].id # id
      BY <3>1 DEF Unmentioned, Unconcerned, SameNews
    <3> QED
      BY <2>1, <3>2 DEF Unmentioned
  <2> QED
    BY <1>0, <2>1, <2>2 DEF CreationInTune, Unconcerned
<1>9. ASSUME NEW q \in Request, Busy(q, id)', ~Creates(req'[q].op) PROVE UpdateInTune(q, id)'
  <2>1. UpdateInTune(q, id) /\ req'[q] = req[q] /\ req[q].inst \in up'
    BY <1>3, <1>9 DEF InTuneAt
  <2> QED
    BY <1>0, <2>1 DEF UpdateInTune, RowMatches, Unconcerned
<1>10. id \in unsaved' \/ stream'[id] \in {NoRec, pg'[id]}
  BY DEF InTuneAt, Unconcerned
<1> QED
  BY <1>4, <1>7, <1>8, <1>9, <1>10 DEF InTuneAt

LEMMA TogetherFacts ==
    ASSUME ListInv, Together, NEW id \in Undisturbed
    PROVE  id \in Record /\ id \in Created /\ id \notin disturbed /\ AloneAt(id) /\ InTuneAt(id)
BY CreatedFacts DEF Together, Alone, InTune, Undisturbed, ListInv, Types

\* A step of request q that is not about record id.
LEMMA OthersKept ==
    ASSUME ListInv, Together, NEW id \in Undisturbed, NEW q \in Request,
           ~Busy(q, id), ~Busy(q, id)', \A p \in Request : p # q => req'[p] = req[p],
           pg'[id] = pg[id], stream'[id] = stream[id], up' = up, id \in unsaved' <=> id \in unsaved,
           \A i \in Instance : id \in index'[i] <=> id \in index[i],
           \A i \in Instance : mem'[i][id] = mem[i][id],
           \A i \in Instance : SameNews(i, id)
    PROVE  AloneAt(id)' /\ InTuneAt(id)'
<1>1. Types /\ id \in Record /\ AloneAt(id) /\ InTuneAt(id)
  BY TogetherFacts DEF ListInv
<1>2. \A p \in Request : Busy(p, id)' => p # q /\ req'[p] = req[p]
  OBVIOUS
<1>3. \A p \in Request : Busy(p, id)' => Active(p) /\ req[p].id = id
  BY <1>2 DEF Busy, Active
<1>4. \A p \in Request : Busy(p, id) => Busy(p, id)'
  BY DEF Busy, Active
<1>5. \A p \in Request : Busy(p, id)' => Busy(p, id) /\ req'[p] = req[p] /\ req[p].inst \in up
  BY <1>2, <1>3 DEF Busy, ListInv, Requests
<1>6. Unconcerned(id)
  BY <1>1, <1>4, <1>5 DEF Unconcerned, Types, InstanceTypes
<1> QED
  BY <1>1, <1>6, UnconcernedKeeps

LEMMA SameInbox ==
    ASSUME NEW i, NEW id, inbox'[i] = inbox[i]
    PROVE  SameNews(i, id)
BY DEF SameNews

LEMMA StartCreateKeepsTogether ==
    ASSUME ListInv, Together, NEW q \in Request, NEW i \in Instance, StartCreate(q, i),
           NEW id \in Undisturbed'
    PROVE  AloneAt(id)' /\ InTuneAt(id)'
<1>1. /\ nextId \in Record /\ nextId' = nextId + 1 /\ nextId \notin Created
      /\ disturbed \subseteq disturbed'
      /\ UNCHANGED <<pg, stream, up, sub, list, index, mem, inbox, faults, unsaved>>
      /\ ~Active(q) /\ \A p \in Request : p # q => req'[p] = req[p]
      /\ req'[q].pc = "pg" /\ req'[q].inst = i /\ req'[q].id = nextId /\ Creates(req'[q].op)
  BY StartCreateFacts DEF Created
<1>2. id \in Created \/ id = nextId
  BY <1>1, CreatedFacts DEF Undisturbed, Created, ListInv, Types
<1>3. CASE id \in Created
  <2>1. id \in Undisturbed /\ id # nextId
    BY <1>1, <1>3 DEF Undisturbed
  <2> QED
    BY <1>1, <2>1, OthersKept, SameInbox DEF Busy
<1>4. CASE id = nextId
  <2>1. \A p \in Request : Busy(p, id)' => p = q
    <3>1. \A p \in Request : Active(p) => req[p].id # id
      BY <1>1, <1>4, RecordsKnown
    <3> QED
      BY <1>1, <3>1 DEF Busy, Active
  <2>2. pg'[id] = NoRec /\ stream'[id] = NoRec
    BY <1>1, <1>4 DEF ListInv, Origins
  <2>3. \A j \in Instance : Unmentioned(j, id)' /\ id \notin index'[j]
    <3>1. \A j \in Instance : \A n \in 1..Len(inbox[j]) : inbox[j][n].id # id
      BY <1>1, <1>4 DEF ListInv, Origins
    <3>2. \A j \in Instance : id \notin index[j]
      BY <1>1, <1>4, RecordsKnown
    <3> QED
      BY <1>1, <3>1, <3>2 DEF Unmentioned
  <2>4. AloneAt(id)'
    BY <2>1, <2>2, <2>3 DEF AloneAt
  <2>5. Busy(q, id)' /\ ~AtRest(q)'
    BY <1>1, <1>4 DEF Busy, Active, AtRest
  <2>6. CreationInTune(q, id)'
    BY <1>1, <2>2, <2>3 DEF CreationInTune
  <2> QED
    BY <1>1, <2>1, <2>2, <2>4, <2>5, <2>6 DEF InTuneAt
<1> QED
  BY <1>2, <1>3, <1>4

LEMMA StartUpdateKeepsTogether ==
    ASSUME ListInv, Together, NEW q \in Request, NEW i \in Instance, StartUpdate(q, i),
           NEW id \in Undisturbed'
    PROVE  AloneAt(id)' /\ InTuneAt(id)'
<1>1. /\ ~Active(q) /\ UNCHANGED <<pg, stream, up, sub, list, index, mem, inbox, kind, nextId, faults>>
      /\ \A p \in Request : p # q => req'[p] = req[p]
      /\ req'[q].pc = "pg" /\ req'[q].op \in {"assign", "resolve", "accept", "update"}
      /\ disturbed' = IF Quiet(req'[q].id) THEN disturbed ELSE disturbed \cup {req'[q].id}
      /\ unsaved' = IF stream[req'[q].id] = NoRec THEN unsaved ELSE unsaved \cup {req'[q].id}
  BY StartUpdateFacts
<1>2. id \in Undisturbed /\ (id = req'[q].id => Quiet(id))
  BY <1>1 DEF Undisturbed, Created
<1>3. CASE id # req'[q].id
  BY <1>1, <1>2, <1>3, OthersKept, SameInbox DEF Busy
<1>4. CASE id = req'[q].id
  <2>1. id \in Record /\ InTuneAt(id)
    BY <1>2, TogetherFacts
  <2>2. /\ \A p \in Request : ~Busy(p, id)
        /\ \A j \in Instance : Unmentioned(j, id)
    BY <1>2, <1>4 DEF Quiet, Busy, Unmentioned
  <2>a. unsaved \subseteq unsaved' /\ (id \in unsaved' \/ stream'[id] = NoRec)
    BY <1>1, <1>4
  <2>3. Agreed(id)'
    <3>1. Agreed(id)
      BY <2>1, <2>2 DEF InTuneAt
    <3> QED
      BY <1>1, <2>a, <3>1 DEF Agreed, RowMatches, Holds, Unmentioned
  <2>4. \A p \in Request : Busy(p, id)' => p = q
    BY <1>1, <2>2 DEF Busy, Active
  <2>5. AloneAt(id)'
    BY <1>1, <2>2, <2>4 DEF AloneAt, Unmentioned
  <2>6. ~Creates(req'[q].op) /\ UpdateInTune(q, id)'
    BY <1>1, <2>a DEF UpdateInTune, Creates
  <2> QED
    BY <2>a, <2>3, <2>4, <2>5, <2>6 DEF InTuneAt
<1> QED
  BY <1>3, <1>4

LEMMA PgStatementKeepsTogether ==
    ASSUME ListInv, Together, NEW q \in Request, PgStatement(q), NEW id \in Undisturbed'
    PROVE  AloneAt(id)' /\ InTuneAt(id)'
<1>1. /\ Active(q) /\ req[q].pc = "pg"
      /\ UNCHANGED <<stream, up, sub, list, index, mem, inbox, kind, nextId, disturbed>>
      /\ \A p \in Request : p # q => req'[p] = req[p]
      /\ req'[q].pc = "resume" /\ req'[q].inst = req[q].inst /\ req'[q].op = req[q].op
      /\ req'[q].id = req[q].id /\ req'[q].arg = req[q].arg
      /\ \A d \in Record : d # req[q].id => pg'[d] = pg[d]
      /\ \/ /\ unsaved' = unsaved
            /\ pg'[req[q].id] = IF Creates(req[q].op) \/ pg[req[q].id] # NoRec
                                THEN PgValue(req[q].op, req[q].arg, pg[req[q].id])
                                ELSE pg[req[q].id]
         \/ unsaved' = unsaved \cup {req[q].id}
  BY PgStatementFacts
<1>2. id \in Undisturbed
  BY <1>1 DEF Undisturbed, Created
<1>3. id \in Record /\ AloneAt(id) /\ InTuneAt(id)
  BY <1>2, TogetherFacts
<1>4. CASE id # req[q].id
  BY <1>1, <1>2, <1>3, <1>4, OthersKept, SameInbox DEF Busy
<1>5. CASE id = req[q].id
  <2>1. Busy(q, id)
    BY <1>1, <1>5 DEF Busy
  <2>2. /\ \A p \in Request : Busy(p, id) => p = q
        /\ \A j \in Instance : Unmentioned(j, id)
    BY <1>1, <1>3, <2>1 DEF AloneAt
  <2>3. \A p \in Request : Busy(p, id)' => p = q
    BY <1>1, <2>2 DEF Busy, Active
  <2>4. AloneAt(id)'
    BY <1>1, <2>2, <2>3 DEF AloneAt, Unmentioned
  <2>5. Busy(q, id)' /\ ~AtRest(q)'
    BY <1>1, <1>5 DEF Busy, Active, AtRest
  <2>6. ASSUME Creates(req[q].op) PROVE CreationInTune(q, id)'
    <3>1. id \in unsaved' \/ pg'[id] = PgValue(req[q].op, req[q].arg, pg[id])
      BY <1>1, <1>5, <2>6
    <3>2. id \in unsaved' \/ pg'[id] = req[q].arg
      BY <2>6, <3>1 DEF PgValue, Creates
    <3>3. stream[id] = NoRec /\ \A j \in Instance : id \notin index[j]
      BY <1>1, <1>3, <2>1, <2>6 DEF InTuneAt, CreationInTune
    <3> QED
      BY <1>1, <3>2, <3>3 DEF CreationInTune, ListInv, Types, InstanceTypes
  <2>7. ASSUME ~Creates(req[q].op) PROVE UpdateInTune(q, id)'
    <3>1. Agreed(id)
      BY <1>1, <1>3, <2>2, <2>7 DEF InTuneAt, AtRest
    <3>2. PICK v \in Rec : RowMatches(id, v) /\ \A j \in up : Holds(j, id, v)
      BY <3>1 DEF Agreed
    <3>3. up \subseteq Instance /\ req[q].inst \in up
      BY <1>1 DEF ListInv, Requests, Types, InstanceTypes
    <3>4. \A j \in up : id \in index[j] /\ mem[j][id] = v
      BY <2>2, <3>2, <3>3 DEF Holds
    <3>5. id \in unsaved' \/ stream'[id] = NoRec
      BY <1>1, <1>3, <1>5, <2>1, <2>7 DEF InTuneAt, UpdateInTune
    <3>6. RowMatches(id, MemValue(req[q].op, req[q].arg, mem[req[q].inst][id]))'
      <4>1. SUFFICES ASSUME id \notin unsaved'
                     PROVE  /\ pg'[id] \in Rec
                            /\ Matches(pg'[id], MemValue(req[q].op, req[q].arg, mem[req[q].inst][id]))
        BY <1>1 DEF RowMatches
      <4>2. pg[id] \in Rec /\ pg[id] # NoRec /\ Matches(pg[id], v)
        BY <1>1, <3>2, <4>1, NoRecAssumption DEF RowMatches
      <4>3. pg'[id] = PgValue(req[q].op, req[q].arg, pg[id])
        BY <1>1, <1>5, <4>1, <4>2
      <4>4. /\ req[q].op \in {"assign", "resolve", "accept", "update"}
            /\ req[q].op \in Op /\ req[q].arg \in Rec
        BY <1>1, <2>7, RecordsKnown DEF Op, Creates
      <4>5. pg'[id] \in Rec
        BY <4>2, <4>3, <4>4, ValueFacts
      <4>6. Matches(pg'[id], MemValue(req[q].op, req[q].arg, mem[req[q].inst][id]))
        BY <3>3, <3>4, <4>2, <4>3, <4>4, MatchesFacts
      <4> QED
        BY <4>5, <4>6
    <3> QED
      BY <1>1, <3>4, <3>5, <3>6 DEF UpdateInTune
  <2>8. id \in unsaved' \/ stream'[id] \in {NoRec, pg'[id]}
    BY <2>6, <2>7, <2>1, <1>1 DEF CreationInTune, UpdateInTune
  <2> QED
    BY <1>1, <2>3, <2>4, <2>5, <2>6, <2>7, <2>8 DEF InTuneAt
<1> QED
  BY <1>4, <1>5

LEMMA MutateKeepsTogether ==
    ASSUME ListInv, Together, NEW q \in Request, Mutate(q), NEW id \in Undisturbed'
    PROVE  AloneAt(id)' /\ InTuneAt(id)'
<1> DEFINE i == req[q].inst
<1>1. /\ Active(q) /\ req[q].pc = "resume"
      /\ UNCHANGED <<pg, stream, up, sub, inbox, kind, nextId, disturbed, unsaved>>
      /\ \A p \in Request : p # q => req'[p] = req[p]
      /\ req'[q].pc = "send" /\ req'[q].inst = i /\ req'[q].op = req[q].op
      /\ req'[q].id = req[q].id /\ req'[q].arg = req[q].arg
      /\ mem'[i][req[q].id] = MemValue(req[q].op, req[q].arg, mem[i][req[q].id])
      /\ \A j \in Instance, d \in Record : j # i \/ d # req[q].id => mem'[j][d] = mem[j][d]
      /\ \/ /\ Creates(req[q].op)
            /\ index' = IF req[q].op = "create"
                        THEN [index EXCEPT ![i] = @ \cup {req[q].id}] ELSE index
         \/ ~Creates(req[q].op) /\ UNCHANGED index
  BY MutateFacts
<1>2. id \in Undisturbed /\ id \notin disturbed
  BY <1>1 DEF Undisturbed, Created
<1>3. id \in Record /\ AloneAt(id) /\ InTuneAt(id)
  BY <1>2, TogetherFacts
<1>4. i \in up /\ i \in Instance /\ index \in [Instance -> SUBSET Record]
      /\ up \subseteq Instance
  BY <1>1, RecordsKnown DEF ListInv, Requests, Types, InstanceTypes
<1> HIDE DEF i
<1>5. CASE id # req[q].id
  <2>1. \A j \in Instance : mem'[j][id] = mem[j][id]
    BY <1>1, <1>3, <1>5
  <2>2. \A j \in Instance : id \in index'[j] <=> id \in index[j]
    BY <1>1, <1>4, <1>5
  <2> QED
    BY <1>1, <1>2, <1>5, <2>1, <2>2, OthersKept, SameInbox DEF Busy
<1>6. CASE id = req[q].id
  <2>1. Busy(q, id)
    BY <1>1, <1>6 DEF Busy
  <2>2. /\ \A p \in Request : Busy(p, id) => p = q
        /\ \A j \in Instance : Unmentioned(j, id)
    BY <1>1, <1>3, <2>1 DEF AloneAt
  <2>3. \A p \in Request : Busy(p, id)' => p = q
    BY <1>1, <2>2 DEF Busy, Active
  <2>4. AloneAt(id)'
    BY <1>1, <2>2, <2>3 DEF AloneAt, Unmentioned
  <2>5. Busy(q, id)' /\ ~AtRest(q)'
    BY <1>1, <1>6 DEF Busy, Active, AtRest
  <2>6. ASSUME Creates(req[q].op) PROVE CreationInTune(q, id)'
    <3>1. req[q].op = "create"
      BY <1>1, <1>2, <1>6, <2>6 DEF ListInv, Requests, Creates
    <3>2. /\ stream[id] = NoRec /\ (id \in unsaved \/ pg[id] = req[q].arg)
          /\ \A j \in up : id \in index[j] => mem[j][id] = req[q].arg
      BY <1>1, <1>3, <2>1, <2>6 DEF InTuneAt, CreationInTune
    <3>3. mem'[i][id] = req[q].arg
      BY <1>1, <1>6, <2>6, <3>1 DEF MemValue, Creates
    <3>4. \A j \in Instance : index'[j] = IF j = i THEN index[j] \cup {id} ELSE index[j]
      BY <1>1, <1>4, <1>6, <2>6, <3>1
    <3>5. \A j \in Instance : j # i => mem'[j][id] = mem[j][id]
      BY <1>1, <1>3
    <3>6. id \in index'[i] /\ \A j \in up : id \in index'[j] => mem'[j][id] = req[q].arg
      BY <1>4, <3>2, <3>3, <3>4, <3>5
    <3> QED
      BY <1>1, <3>2, <3>6 DEF CreationInTune
  <2>7. ASSUME ~Creates(req[q].op) PROVE UpdateInTune(q, id)'
    <3>1. /\ id \in unsaved \/ stream[id] = NoRec
          /\ \A j \in up : id \in index[j]
          /\ RowMatches(id, MemValue(req[q].op, req[q].arg, mem[i][id]))
      BY <1>1, <1>3, <2>1, <2>7 DEF InTuneAt, UpdateInTune, i
    <3>2. id \in unsaved' \/ (pg'[id] \in Rec /\ Matches(pg'[id], mem'[i][id]))
      BY <1>1, <1>6, <3>1 DEF RowMatches
    <3>3. UNCHANGED <<pg, index, up>>
      BY <1>1, <2>7
    <3> QED
      BY <1>1, <3>1, <3>2, <3>3 DEF UpdateInTune, RowMatches
  <2>8. id \in unsaved' \/ stream'[id] \in {NoRec, pg'[id]}
    BY <1>1, <1>3 DEF InTuneAt
  <2> QED
    BY <1>1, <2>3, <2>4, <2>5, <2>6, <2>7, <2>8 DEF InTuneAt
<1> QED
  BY <1>5, <1>6

LEMMA NotFoundKeepsTogether ==
    ASSUME ListInv, Together, NEW q \in Request, NotFound(q), NEW id \in Undisturbed'
    PROVE  AloneAt(id)' /\ InTuneAt(id)'
<1>1. /\ Active(q) /\ ~Active(q)' /\ req[q].pc = "resume"
      /\ ~Creates(req[q].op) /\ req[q].id \notin index[req[q].inst]
      /\ UNCHANGED <<pg, stream, up, sub, list, index, mem, inbox, kind, nextId, disturbed, unsaved>>
      /\ \A p \in Request : p # q => req'[p] = req[p]
  BY NotFoundFacts
<1>2. id \in Undisturbed
  BY <1>1 DEF Undisturbed, Created
<1>3. id \in Record /\ InTuneAt(id) /\ req[q].inst \in up
  BY <1>1, <1>2, TogetherFacts DEF ListInv, Requests
<1>4. ~Busy(q, id)
  BY <1>1, <1>3 DEF InTuneAt, UpdateInTune, Busy
<1> QED
  BY <1>1, <1>2, <1>4, OthersKept, SameInbox DEF Busy

LEMMA SendKeepsTogether ==
    ASSUME ListInv, Together, NEW q \in Request, Send(q), NEW id \in Undisturbed'
    PROVE  AloneAt(id)' /\ InTuneAt(id)'
<1>1. /\ Active(q) /\ req[q].pc = "send"
      /\ UNCHANGED <<pg, stream, up, sub, list, index, mem, inbox, kind, nextId, disturbed, unsaved>>
      /\ \A p \in Request : p # q => req'[p] = req[p]
      /\ req'[q].pc = "accept" /\ req'[q].inst = req[q].inst /\ req'[q].op = req[q].op
      /\ req'[q].id = req[q].id /\ req'[q].arg = req[q].arg
      /\ req'[q].data = mem[req[q].inst][req[q].id]
  BY SendFacts
<1>2. id \in Undisturbed
  BY <1>1 DEF Undisturbed, Created
<1>3. id \in Record /\ AloneAt(id) /\ InTuneAt(id)
  BY <1>2, TogetherFacts
<1>4. CASE id # req[q].id
  BY <1>1, <1>2, <1>4, OthersKept, SameInbox DEF Busy
<1>5. CASE id = req[q].id
  <2>1. Busy(q, id)
    BY <1>1, <1>5 DEF Busy
  <2>2. /\ \A p \in Request : Busy(p, id) => p = q
        /\ \A j \in Instance : Unmentioned(j, id)
    BY <1>1, <1>3, <2>1 DEF AloneAt
  <2>3. \A p \in Request : Busy(p, id)' => p = q
    BY <1>1, <2>2 DEF Busy, Active
  <2>4. AloneAt(id)'
    BY <1>1, <2>2, <2>3 DEF AloneAt, Unmentioned
  <2>5. Busy(q, id)' /\ ~AtRest(q)'
    BY <1>1, <1>5 DEF Busy, Active, AtRest
  <2>6. ASSUME Creates(req[q].op) PROVE CreationInTune(q, id)'
    <3>1. CreationInTune(q, id)
      BY <1>3, <2>1, <2>6 DEF InTuneAt
    <3> QED
      BY <1>1, <1>5, <3>1 DEF CreationInTune
  <2>7. ASSUME ~Creates(req[q].op) PROVE UpdateInTune(q, id)'
    <3>1. UpdateInTune(q, id)
      BY <1>3, <2>1, <2>7 DEF InTuneAt
    <3> QED
      BY <1>1, <1>5, <3>1 DEF UpdateInTune, RowMatches
  <2>8. id \in unsaved' \/ stream'[id] \in {NoRec, pg'[id]}
    BY <1>1, <1>3 DEF InTuneAt
  <2> QED
    BY <1>1, <2>3, <2>4, <2>5, <2>6, <2>7, <2>8 DEF InTuneAt
<1> QED
  BY <1>4, <1>5

LEMMA AcceptKeepsTogether ==
    ASSUME ListInv, Together, NEW q \in Request, Accept(q), NEW id \in Undisturbed'
    PROVE  AloneAt(id)' /\ InTuneAt(id)'
<1> DEFINE r == req[q]
<1>a. PICK i \in Instance : i = r.inst
  BY AcceptFacts, RecordsKnown
<1>b. PICK v \in Rec : v = r.data
  BY AcceptFacts
<1>1. /\ Active(q) /\ r.pc = "accept"
      /\ UNCHANGED <<pg, stream, up, sub, list, index, mem, kind, nextId, unsaved>>
      /\ \A p \in Request : p # q => req'[p] = req[p]
  BY AcceptFacts
<1>2. \/ /\ r.op = "create" /\ req'[q].pc = "xadd" /\ req'[q].op = "create"
         /\ req'[q].inst = i /\ req'[q].id = r.id /\ req'[q].arg = r.arg
      \/ r.op # "create" /\ ~Active(q)'
  BY <1>a, AcceptFacts
<1>3. /\ \A j \in Instance : \A n \in 1..Len(inbox[j]) :
           n \in 1..Len(inbox'[j]) /\ inbox'[j][n] = inbox[j][n]
      /\ \A j \in Instance : \A n \in 1..Len(inbox'[j]) :
           \/ n \in 1..Len(inbox[j]) /\ inbox'[j][n] = inbox[j][n]
           \/ j \in sub \ {i} /\ inbox'[j][n] = News(r)
  BY <1>a, AcceptFacts
<1>4. disturbed \subseteq disturbed'
  BY AcceptFacts
<1>5. id = r.id => /\ up \ {i} \subseteq sub
                   /\ \A j \in sub \ {i} : \E n \in 1..Len(inbox'[j]) : inbox'[j][n] = News(r)
  <2>1. id \notin disturbed'
    BY DEF Undisturbed
  <2> QED
    BY <1>a, <2>1, AcceptFacts
<1>6. id \in Undisturbed /\ id \notin disturbed
  BY <1>1, <1>4 DEF Undisturbed, Created
<1>7. id \in Record /\ AloneAt(id) /\ InTuneAt(id)
  BY <1>6, TogetherFacts
<1>8. i \in up /\ i \in Instance /\ up \subseteq Instance /\ r.op \in Op
  BY <1>a, <1>1, RecordsKnown DEF ListInv, Requests, Types, InstanceTypes
<1>9. News(r).id = r.id /\ News(r).data = v
      /\ (IF Creates(r.op) THEN News(r).type = "new" ELSE News(r).type = "update")
  BY <1>b DEF News
<1>10. CASE id # r.id
  <2>1. ASSUME NEW j \in Instance PROVE SameNews(j, id)
    BY <1>3, <1>9, <1>10 DEF SameNews
  <2>2. ~Busy(q, id) /\ ~Busy(q, id)'
    BY <1>2, <1>10 DEF Busy
  <2> QED
    BY <1>1, <1>6, <2>1, <2>2, OthersKept
<1>11. CASE id = r.id
  <2>1. Busy(q, id)
    BY <1>1, <1>11 DEF Busy
  <2>2. /\ \A p \in Request : Busy(p, id) => p = q
        /\ \A j \in Instance : Unmentioned(j, id)
    BY <1>1, <1>7, <2>1 DEF AloneAt
  <2>3. \A p \in Request : Busy(p, id)' => p = q
    BY <1>1, <2>2 DEF Busy, Active
  <2>4. \A p \in Request : Busy(p, id)' => req'[p].pc = "xadd" /\ r.op = "create" /\ req'[p].op = "create" /\ req'[p].inst = i
    BY <1>2, <2>3 DEF Busy
  <2>5. AloneAt(id)'
    BY <2>3, <2>4 DEF AloneAt
  <2>6. \A j \in Instance : \A n \in 1..Len(inbox'[j]) : inbox'[j][n].id = id =>
           j \in sub \ {i} /\ inbox'[j][n] = News(r)
    BY <1>3, <2>2 DEF Unmentioned
  <2>7. /\ RowMatches(id, v) /\ id \in index[i] /\ mem[i][id] = v
        /\ Creates(r.op) => /\ id \in unsaved \/ pg[id] = v
                            /\ \A j \in up : id \in index[j] => mem[j][id] = v
        /\ ~Creates(r.op) => \A j \in up : id \in index[j]
    <3>1. CASE Creates(r.op)
      <4>1. CreationInTune(q, id)
        BY <1>7, <2>1, <3>1 DEF InTuneAt
      <4>2. /\ id \in unsaved \/ pg[id] = r.arg
            /\ \A j \in up : id \in index[j] => mem[j][id] = r.arg
            /\ id \in index[i] /\ v = mem[i][id]
        BY <1>a, <1>b, <1>1, <4>1 DEF CreationInTune
      <4> QED
        BY <1>1, <1>8, <3>1, <4>2 DEF RowMatches, Matches
    <3>2. CASE ~Creates(r.op)
      <4>1. UpdateInTune(q, id)
        BY <1>7, <2>1, <3>2 DEF InTuneAt
      <4> QED
        BY <1>a, <1>b, <1>1, <1>8, <3>2, <4>1 DEF UpdateInTune
    <3> QED
      BY <3>1, <3>2
  <2>8. ASSUME NEW j \in up PROVE Holds(j, id, v)'
    <3>1. j \in Instance
      BY <1>8
    <3>2. CASE j = i
      <4>1. \A n \in 1..Len(inbox'[j]) : inbox'[j][n].id # id
        BY <2>6, <3>1, <3>2
      <4> QED
        BY <1>1, <2>7, <3>2, <4>1 DEF Holds, Unmentioned
    <3>3. CASE j # i
      <4>1. j \in sub \ {i}
        BY <1>5, <1>11, <3>3
      <4>2. ~Unmentioned(j, id)'
        BY <1>5, <1>9, <1>11, <4>1 DEF Unmentioned
      <4>3. \A n \in 1..Len(inbox'[j]) : inbox'[j][n].id = id =>
              /\ inbox'[j][n].data = v
              /\ inbox'[j][n].type = "update" => id \in index[j]
              /\ inbox'[j][n].type = "new" /\ id \in index[j] => mem[j][id] = v
        BY <1>9, <2>6, <2>7, <3>1
      <4> QED
        BY <1>1, <4>2, <4>3 DEF Holds
    <3> QED
      BY <3>2, <3>3
  <2>9. Agreed(id)'
    BY <1>1, <2>7, <2>8 DEF Agreed, RowMatches
  <2>10. Unmentioned(i, id)'
    BY <1>8, <2>6 DEF Unmentioned
  <2>11. ASSUME NEW p \in Request, Busy(p, id)'
         PROVE  Creates(req'[p].op) /\ CreationInTune(p, id)'
    <3>1. req'[p].pc = "xadd" /\ r.op = "create" /\ req'[p].op = "create" /\ req'[p].inst = i
      BY <2>4, <2>11
    <3>2. Creates(r.op)
      BY <3>1 DEF Creates
    <3> QED
      BY <1>1, <2>7, <2>10, <3>1, <3>2 DEF CreationInTune, Creates, Unmentioned
  <2>12. id \in unsaved' \/ stream'[id] \in {NoRec, pg'[id]}
    BY <1>1, <1>7 DEF InTuneAt
  <2> QED
    BY <2>5, <2>9, <2>11, <2>12 DEF InTuneAt
<1> QED
  BY <1>10, <1>11

LEMMA AddToStreamKeepsTogether ==
    ASSUME ListInv, Together, NEW q \in Request, AddToStream(q), NEW id \in Undisturbed'
    PROVE  AloneAt(id)' /\ InTuneAt(id)'
<1>1. /\ Active(q) /\ ~Active(q)' /\ req[q].pc = "xadd" /\ req[q].op = "create"
      /\ UNCHANGED <<pg, up, sub, list, index, mem, inbox, kind, nextId, disturbed, unsaved>>
      /\ \A p \in Request : p # q => req'[p] = req[p]
      /\ \A d \in Record : stream'[d] = stream[d]
             \/ (d = req[q].id /\ stream'[d] = mem[req[q].inst][d])
  BY AddToStreamFacts
<1>2. id \in Undisturbed
  BY <1>1 DEF Undisturbed, Created
<1>3. id \in Record /\ AloneAt(id) /\ InTuneAt(id)
  BY <1>2, TogetherFacts
<1>4. CASE id # req[q].id
  BY <1>1, <1>2, <1>3, <1>4, OthersKept, SameInbox DEF Busy
<1>5. CASE id = req[q].id
  <2>1. Busy(q, id) /\ Creates(req[q].op) /\ AtRest(q)
    BY <1>1, <1>5 DEF Busy, Creates, AtRest
  <2>2. \A p \in Request : Busy(p, id) => p = q
    BY <1>3, <2>1 DEF AloneAt
  <2>3. \A p \in Request : ~Busy(p, id)'
    BY <1>1, <2>2 DEF Busy, Active
  <2>4. AloneAt(id)'
    BY <2>3 DEF AloneAt
  <2>5. Agreed(id)
    BY <1>3, <2>1, <2>2 DEF InTuneAt
  <2>6. Agreed(id)'
    BY <1>1, <2>5 DEF Agreed, RowMatches, Holds, Unmentioned
  <2>7. id \in unsaved \/ mem[req[q].inst][id] = pg[id]
    BY <1>1, <1>3, <2>1 DEF InTuneAt, CreationInTune
  <2>8. id \in unsaved' \/ stream'[id] \in {NoRec, pg'[id]}
    BY <1>1, <1>3, <1>5, <2>7 DEF InTuneAt
  <2> QED
    BY <2>3, <2>4, <2>6, <2>8 DEF InTuneAt
<1> QED
  BY <1>4, <1>5

LEMMA DeliverKeepsTogether ==
    ASSUME ListInv, Together, NEW i \in Instance, Deliver(i), NEW id \in Undisturbed'
    PROVE  AloneAt(id)' /\ InTuneAt(id)'
<1> DEFINE m == inbox[i][1]
<1>1. /\ 1 \in 1..Len(inbox[i]) /\ i \in up
      /\ UNCHANGED <<pg, stream, up, sub, req, kind, nextId, disturbed, unsaved>>
      /\ \A j \in Instance : j # i =>
           inbox'[j] = inbox[j] /\ index'[j] = index[j] /\ mem'[j] = mem[j]
  BY DeliverFacts
<1>2. /\ \A n \in 1..Len(inbox'[i]) :
           n + 1 \in 1..Len(inbox[i]) /\ inbox'[i][n] = inbox[i][n + 1]
      /\ \A n \in 1..Len(inbox[i]) :
           n = 1 \/ (n - 1 \in 1..Len(inbox'[i]) /\ inbox[i][n] = inbox'[i][n - 1])
  BY DeliverFacts
<1>3. m \in Message
  BY DeliverFacts
<1>4. /\ \A d \in Record : d # m.id => mem'[i][d] = mem[i][d]
      /\ \/ /\ m.type = "new" /\ m.id \notin index[i]
            /\ index'[i] = index[i] \cup {m.id} /\ mem'[i][m.id] = m.data
         \/ /\ m.type = "update" /\ m.id \in index[i]
            /\ mem'[i][m.id] = m.data /\ UNCHANGED index
         \/ /\ m.type = "new" <=> m.id \in index[i]
            /\ UNCHANGED <<index, mem>>
  BY DeliverFacts
<1>5. id \in Undisturbed
  BY <1>1 DEF Undisturbed, Created
<1>6. id \in Record /\ AloneAt(id) /\ InTuneAt(id)
  BY <1>5, TogetherFacts
<1>7. up \subseteq Instance
  BY DEF ListInv, Types, InstanceTypes
<1>8. CASE id # m.id
  <2>1. SameNews(i, id)
    BY <1>2, <1>8 DEF SameNews
  <2>2. \A j \in Instance : SameNews(j, id)
    BY <1>1, <2>1, SameInbox
  <2>3. \A j \in Instance : (id \in index'[j] <=> id \in index[j]) /\ mem'[j][id] = mem[j][id]
    BY <1>1, <1>4, <1>6, <1>8
  <2>4. \A q \in Request : Busy(q, id)' <=> Busy(q, id)
    BY <1>1 DEF Busy, Active
  <2>5. \A q \in Request : Busy(q, id) => req[q].inst \in up
    BY DEF Busy, ListInv, Requests
  <2>6. Unconcerned(id)
    BY <1>1, <1>7, <2>2, <2>3, <2>4, <2>5 DEF Unconcerned
  <2> QED
    BY <1>6, <2>6, UnconcernedKeeps DEF ListInv
<1>9. CASE id = m.id
  <2>1. ~Unmentioned(i, id)
    BY <1>1, <1>9 DEF Unmentioned
  <2>2. \A q \in Request : Busy(q, id) => req[q].pc = "xadd" /\ req[q].op = "create"
    BY <1>6, <2>1 DEF AloneAt, ListInv, Requests, Busy
  <2>3. Agreed(id)
    BY <1>6, <2>2 DEF InTuneAt, AtRest
  <2>4. PICK v \in Rec : RowMatches(id, v) /\ \A j \in up : Holds(j, id, v)
    BY <2>3 DEF Agreed
  <2>5. id \in index'[i] /\ mem'[i][id] = v
    <3>1. /\ m.data = v /\ (m.type = "update" => id \in index[i])
          /\ m.type = "new" /\ id \in index[i] => mem[i][id] = v
      BY <1>1, <1>9, <2>4 DEF Holds
    <3>2. m.type \in {"new", "update"}
      BY <1>3 DEF Message
    <3> QED
      BY <1>4, <1>9, <3>1, <3>2
  <2>6. ASSUME NEW j \in up PROVE Holds(j, id, v)'
    <3>1. CASE j = i
      <4>1. \A n \in 1..Len(inbox'[i]) : inbox'[i][n].id = id => inbox'[i][n].data = v
        <5>1. \A n \in 1..Len(inbox[i]) : inbox[i][n].id = id => inbox[i][n].data = v
          BY <1>1, <2>4 DEF Holds
        <5> QED
          BY <1>2, <5>1
      <4> QED
        BY <2>5, <3>1, <4>1 DEF Holds
    <3>2. CASE j # i
      <4>1. j \in Instance /\ Holds(j, id, v)
        BY <1>7, <2>4
      <4>2. inbox'[j] = inbox[j] /\ index'[j] = index[j] /\ mem'[j] = mem[j]
        BY <1>1, <3>2, <4>1
      <4> QED
        BY <4>1, <4>2 DEF Holds, Unmentioned
    <3> QED
      BY <3>1, <3>2
  <2>7. Agreed(id)'
    BY <1>1, <2>4, <2>6 DEF Agreed, RowMatches
  <2>8. AloneAt(id)'
    BY <1>1, <1>6, <2>2 DEF AloneAt, Busy, Active
  <2>9. ASSUME NEW q \in Request, Busy(q, id)'
        PROVE  Creates(req'[q].op) /\ CreationInTune(q, id)'
    <3>1. Busy(q, id) /\ req'[q] = req[q] /\ req[q].inst \in up
      BY <1>1, <2>9 DEF Busy, Active, ListInv, Requests
    <3>2. Creates(req[q].op) /\ req[q].pc = "xadd"
      BY <2>2, <3>1 DEF Creates
    <3>3. /\ id \in index[req[q].inst] /\ (id \in unsaved \/ mem[req[q].inst][id] = pg[id])
          /\ Unmentioned(req[q].inst, id)
      BY <1>6, <3>1, <3>2 DEF InTuneAt, CreationInTune
    <3>4. PICK j \in Instance : j = req[q].inst
      BY <1>7, <3>1
    <3>5. inbox'[j] = inbox[j] /\ index'[j] = index[j] /\ mem'[j] = mem[j]
      BY <1>1, <2>1, <3>3, <3>4
    <3>6. Unmentioned(req[q].inst, id)'
      BY <3>1, <3>3, <3>4, <3>5 DEF Unmentioned
    <3> QED
      BY <1>1, <3>1, <3>2, <3>3, <3>4, <3>5, <3>6 DEF CreationInTune
  <2> QED
    BY <1>1, <1>6, <2>7, <2>8, <2>9 DEF InTuneAt
<1> QED
  BY <1>8, <1>9

\* What the environment does, though an instance may stop or drop records.
LEMMA EnvironmentKeepsTogether ==
    ASSUME ListInv, Together, NEW i \in Instance,
           Subscribe(i) \/ Disconnect(i) \/ Crash(i) \/ Prune(i),
           NEW id \in Undisturbed'
    PROVE  AloneAt(id)' /\ InTuneAt(id)'
<1>1. up \subseteq Instance /\ Types
  BY DEF ListInv, Types, InstanceTypes
<1>2. UNCHANGED <<pg, stream, kind, nextId, unsaved>> /\ disturbed \subseteq disturbed'
  BY SubscribeFacts, DisconnectFacts, CrashFacts, PruneFacts
<1>3. id \in Undisturbed /\ id \notin disturbed /\ id \notin disturbed'
  BY <1>2 DEF Undisturbed, Created
<1>4. id \in Record /\ AloneAt(id) /\ InTuneAt(id)
  BY <1>3, TogetherFacts
<1>5. \A q \in Request : Busy(q, id) => req[q].inst \in up
  BY DEF Busy, ListInv, Requests
<1>6. CASE Subscribe(i)
  <2>1. UNCHANGED <<pg, stream, up, list, index, mem, inbox, req, kind, nextId, disturbed, unsaved>>
    BY <1>6, SubscribeFacts
  <2>2. Unconcerned(id)
    BY <1>1, <1>5, <2>1, SameInbox DEF Unconcerned, Busy, Active
  <2> QED
    BY <1>1, <1>4, <2>2, UnconcernedKeeps
<1>7. CASE Disconnect(i)
  <2>1. /\ UNCHANGED <<pg, stream, up, list, index, mem, req, kind, nextId, unsaved>>
        /\ inbox'[i] = << >> /\ \A j \in Instance : j # i => inbox'[j] = inbox[j]
        /\ disturbed' = disturbed \cup InFlight(i)
    BY <1>7, DisconnectFacts
  <2>2. \A n \in 1..Len(inbox[i]) : inbox[i][n].id # id
    BY <1>3, <2>1 DEF InFlight
  <2>3. SameNews(i, id)
    BY <2>1, <2>2, SequencesInit DEF SameNews
  <2>4. \A j \in Instance : SameNews(j, id)
    BY <2>1, <2>3, SameInbox
  <2>5. Unconcerned(id)
    BY <1>1, <1>5, <2>1, <2>4 DEF Unconcerned, Busy, Active
  <2> QED
    BY <1>1, <1>4, <2>5, UnconcernedKeeps
<1>8. CASE Crash(i)
  <2>1. /\ up' = up \ {i}
        /\ \A j \in Instance : j # i =>
             inbox'[j] = inbox[j] /\ index'[j] = index[j] /\ mem'[j] = mem[j]
        /\ index'[i] = {} /\ inbox'[i] = << >>
        /\ \A q \in Request : Active(q)' => Active(q) /\ req'[q] = req[q] /\ req[q].inst # i
        /\ \A q \in Request : Active(q) /\ ~Active(q)' => req[q].id \in disturbed'
    BY <1>8, CrashFacts
  <2>2. /\ \A q \in Request : Busy(q, id) => Busy(q, id)'
        /\ \A q \in Request : Busy(q, id)' =>
              Busy(q, id) /\ req'[q] = req[q] /\ req[q].inst \in up'
    BY <1>3, <1>5, <2>1 DEF Busy
  <2>3. SameNews(i, id)
    BY <2>1, SequencesInit DEF SameNews
  <2>4. \A j \in Instance : SameNews(j, id)
    BY <2>1, <2>3, SameInbox
  <2>5. /\ \A j \in Instance : id \in index'[j] => id \in index[j]
        /\ \A j \in up' : (id \in index[j] => id \in index'[j]) /\ mem'[j][id] = mem[j][id]
    BY <1>1, <2>1
  <2>6. Unconcerned(id)
    BY <1>2, <2>1, <2>2, <2>4, <2>5 DEF Unconcerned
  <2> QED
    BY <1>1, <1>4, <2>6, UnconcernedKeeps
<1>9. CASE Prune(i)
  <2>1. /\ UNCHANGED <<pg, stream, up, mem, inbox, req, kind, nextId, unsaved>>
        /\ \A j \in Instance : j # i => index'[j] = index[j]
        /\ \A k \in Kind : ToSet(list'[i][k]) \subseteq ToSet(list[i][k])
        /\ index'[i] = Listed(i)' /\ disturbed' = disturbed \cup (Listed(i) \ index'[i])
    BY <1>9, PruneFacts
  <2>2. id \in index[i] => id \in index'[i]
    BY <1>3, <2>1 DEF ListInv, Lists
  <2>3. id \in index'[i] => id \in index[i]
    <3>1. id \in Listed(i)' => id \in Listed(i)
      BY <2>1 DEF Listed
    <3> QED
      BY <1>3, <2>1, <3>1 DEF ListInv, Lists
  <2>4. Unconcerned(id)
    BY <1>1, <1>5, <2>1, <2>2, <2>3, SameInbox DEF Unconcerned, Busy, Active
  <2> QED
    BY <1>1, <1>4, <2>4, UnconcernedKeeps
<1> QED
  BY <1>6, <1>7, <1>8, <1>9

LEMMA BootKeepsTogether ==
    ASSUME ListInv, Together, NEW i \in Instance, Boot(i), NEW id \in Undisturbed'
    PROVE  AloneAt(id)' /\ InTuneAt(id)'
<1>1. /\ i \notin up /\ up' = up \cup {i}
      /\ UNCHANGED <<pg, stream, inbox, req, kind, nextId, unsaved>>
      /\ \A j \in Instance : j # i => index'[j] = index[j] /\ mem'[j] = mem[j]
      /\ disturbed \subseteq disturbed'
  BY BootFacts
<1>2. id \in Undisturbed /\ id \in Created /\ id \notin disturbed'
  BY <1>1 DEF Undisturbed, Created
<1>3. id \in Record /\ AloneAt(id) /\ InTuneAt(id)
  BY <1>2, TogetherFacts
<1>4. /\ id \in index'[i] => pg[id] # NoRec /\ mem'[i][id] = pg[id]
      /\ pg[id] # NoRec => id \in index'[i] /\ pg[id].status # "assigned"
      /\ id \notin unsaved
  BY <1>2, <1>3, BootFacts
<1>5. up \subseteq Instance /\ inbox[i] = << >> /\ \A q \in Request : Active(q) => req[q].inst \in up
  BY <1>1 DEF ListInv, Types, InstanceTypes, Origins, Requests
<1>6. \A q \in Request : Busy(q, id)' <=> Busy(q, id)
  BY <1>1 DEF Busy, Active
<1>7. AloneAt(id)'
  BY <1>1, <1>3, <1>6 DEF AloneAt, Unmentioned
<1>8. \A j \in up : id \in index'[j] <=> id \in index[j]
  BY <1>1, <1>5
<1>9. \A j \in up : mem'[j] = mem[j]
  BY <1>1, <1>5
<1>10. ASSUME Agreed(id) PROVE Agreed(id)'
  <2>1. PICK v \in Rec : RowMatches(id, v) /\ \A j \in up : Holds(j, id, v)
    BY <1>10 DEF Agreed
  <2>2. pg[id] \in Rec /\ pg[id] # NoRec /\ Matches(pg[id], v)
    BY <1>4, <2>1, NoRecAssumption DEF RowMatches
  <2>3. pg[id] = v
    BY <1>4, <2>2 DEF Matches, Rec
  <2>4. Holds(i, id, v)'
    BY <1>1, <1>4, <1>5, <2>2, <2>3, SequencesInit DEF Holds
  <2>5. ASSUME NEW j \in up PROVE Holds(j, id, v)'
    BY <1>1, <1>8, <1>9, <2>1, <2>5 DEF Holds, Unmentioned
  <2> QED
    BY <1>1, <2>1, <2>4, <2>5 DEF Agreed, RowMatches
<1>11. (\A q \in Request : Busy(q, id)' => AtRest(q)') => Agreed(id)'
  <2>1. \A q \in Request : AtRest(q)' <=> AtRest(q)
    BY <1>1 DEF AtRest
  <2> QED
    BY <1>3, <1>6, <1>10, <2>1 DEF InTuneAt
<1>12. ASSUME NEW q \in Request, Busy(q, id)', Creates(req'[q].op) PROVE CreationInTune(q, id)'
  <2>1. Busy(q, id) /\ CreationInTune(q, id) /\ req'[q] = req[q] /\ req[q].inst \in up
    BY <1>1, <1>3, <1>5, <1>6, <1>12 DEF InTuneAt, Busy
  <2>2. req[q].pc = "pg" => \A j \in Instance : id \notin index'[j]
    BY <1>1, <1>4, <2>1 DEF CreationInTune
  <2>3. req[q].pc \in {"resume", "send", "accept"} =>
          \A j \in up' : id \in index'[j] => mem'[j][id] = req[q].arg
    BY <1>1, <1>4, <1>8, <1>9, <2>1 DEF CreationInTune
  <2> QED
    BY <1>1, <1>8, <1>9, <2>1, <2>2, <2>3 DEF CreationInTune, Unmentioned
<1>13. ASSUME NEW q \in Request, Busy(q, id)', ~Creates(req'[q].op) PROVE UpdateInTune(q, id)'
  <2>1. Busy(q, id) /\ UpdateInTune(q, id) /\ req'[q] = req[q] /\ req[q].inst \in up
    BY <1>1, <1>3, <1>5, <1>6, <1>13 DEF InTuneAt, Busy
  <2>2. req[q].pc \in {"resume", "send", "accept"} => \A j \in up' : id \in index'[j]
    BY <1>1, <1>4, <1>8, <2>1, NoRecAssumption DEF UpdateInTune, RowMatches
  <2> QED
    BY <1>1, <1>9, <2>1, <2>2 DEF UpdateInTune, RowMatches
<1>14. id \in unsaved' \/ stream'[id] \in {NoRec, pg'[id]}
  BY <1>1, <1>3 DEF InTuneAt
<1> QED
  BY <1>7, <1>11, <1>12, <1>13, <1>14 DEF InTuneAt

LEMMA WriterApplyKeepsTogether ==
    ASSUME ListInv, Together, NEW d \in Record, WriterApply(d), NEW id \in Undisturbed'
    PROVE  AloneAt(id)' /\ InTuneAt(id)'
<1>1. /\ stream[d] # NoRec /\ pg'[d] = stream[d] /\ stream'[d] \in {NoRec, stream[d]}
      /\ \A e \in Record : e # d => pg'[e] = pg[e] /\ stream'[e] = stream[e]
      /\ UNCHANGED <<up, list, index, mem, inbox, req, kind, nextId, disturbed, unsaved>>
  BY WriterApplyFacts
<1>2. id \in Undisturbed
  BY <1>1 DEF Undisturbed, Created
<1>3. id \in Record /\ AloneAt(id) /\ InTuneAt(id)
  BY <1>2, TogetherFacts
<1>4. /\ stream[id] = NoRec => stream'[id] = NoRec /\ pg'[id] = pg[id]
      /\ id \in unsaved \/ (pg'[id] = pg[id] /\ stream'[id] \in {NoRec, pg[id]})
  BY <1>1, <1>3 DEF InTuneAt
<1>5. \A q \in Request : (Busy(q, id)' <=> Busy(q, id)) /\ (AtRest(q)' <=> AtRest(q))
  BY <1>1 DEF Busy, Active, AtRest
<1>6. AloneAt(id)'
  BY <1>1, <1>3, <1>4, <1>5 DEF AloneAt, Unmentioned
<1>7. Agreed(id) => Agreed(id)'
  BY <1>1, <1>4 DEF Agreed, RowMatches, Holds, Unmentioned
<1>8. \A q \in Request : CreationInTune(q, id) => CreationInTune(q, id)'
  BY <1>1, <1>4 DEF CreationInTune, Unmentioned
<1>9. \A q \in Request : UpdateInTune(q, id) => UpdateInTune(q, id)'
  BY <1>1, <1>4 DEF UpdateInTune, RowMatches
<1> QED
  BY <1>1, <1>3, <1>4, <1>5, <1>6, <1>7, <1>8, <1>9 DEF InTuneAt

LEMMA TogetherStep == ListInv /\ Together /\ [Next]_vars => Together'
<1> SUFFICES ASSUME ListInv, Together, [Next]_vars, NEW id \in Undisturbed'
             PROVE  AloneAt(id)' /\ InTuneAt(id)'
  BY DEF Together, Alone, InTune
<1>1. CASE \E q \in Request :
             \/ \E i \in Instance : StartCreate(q, i) \/ StartUpdate(q, i)
             \/ PgStatement(q) \/ Mutate(q) \/ NotFound(q)
             \/ Send(q) \/ Accept(q) \/ AddToStream(q)
  BY <1>1, StartCreateKeepsTogether, StartUpdateKeepsTogether, PgStatementKeepsTogether,
     MutateKeepsTogether, NotFoundKeepsTogether, SendKeepsTogether, AcceptKeepsTogether,
     AddToStreamKeepsTogether
<1>2. CASE \E i \in Instance :
             Deliver(i) \/ Subscribe(i) \/ Disconnect(i) \/ Crash(i) \/ Boot(i) \/ Prune(i)
  BY <1>2, DeliverKeepsTogether, EnvironmentKeepsTogether, BootKeepsTogether
<1>3. CASE \E d \in Record : WriterApply(d)
  BY <1>3, WriterApplyKeepsTogether
<1>4. CASE UNCHANGED vars
  <2>1. UNCHANGED <<pg, stream, up, sub, list, index, mem, inbox, req, kind, nextId, begun,
                    faults, disturbed, unsaved>>
    BY <1>4 DEF vars
  <2>2. id \in Undisturbed
    BY <2>1 DEF Undisturbed, Created
  <2>3. id \in Record /\ AloneAt(id) /\ InTuneAt(id) /\ Types
    BY <2>2, TogetherFacts DEF ListInv
  <2>4. Unconcerned(id)
    BY <2>1, SameInbox DEF Unconcerned, Busy, Active, ListInv, Requests, Types, InstanceTypes
  <2> QED
    BY <2>3, <2>4, UnconcernedKeeps
<1> QED
  BY <1>1, <1>2, <1>3, <1>4 DEF Next

LEMMA TogetherInvariant == Spec => []Together
<1>1. Init => Together
  BY DEF Init, Together, Alone, InTune, Undisturbed, Created
<1>2. ListInv /\ Together /\ [Next]_vars => Together'
  BY TogetherStep
<1> QED
  BY <1>1, <1>2, ListInvariant, PTL DEF Spec

\* What no request is about and has arrived, they all hold with one value.
LEMMA SettledFacts ==
    ASSUME ListInv, Together, NEW id \in Settled
    PROVE  \E v \in Rec : \A i \in up : id \in index[i] /\ mem[i][id] = v
<1>1. id \in Undisturbed /\ Quiet(id)
  BY DEF Settled, Undisturbed, Created
<1>2. InTuneAt(id) /\ up \subseteq Instance
  BY <1>1, TogetherFacts DEF ListInv, Types, InstanceTypes
<1>3. \A q \in Request : ~Busy(q, id)
  BY <1>1 DEF Quiet, Busy
<1>4. Agreed(id)
  BY <1>2, <1>3 DEF InTuneAt
<1>5. \A i \in up : Unmentioned(i, id)
  BY <1>1, <1>2 DEF Quiet, Unmentioned
<1> QED
  BY <1>4, <1>5 DEF Agreed, Holds

LEMMA SettledTogether == ListInv /\ Together => SettledReplicasAgree
BY SettledFacts DEF SettledReplicasAgree

\* Once nothing about an undisturbed record is under way, all serving instances
\* know it, with one status and one volunteer: through handlers that interleave
\* at their awaits, messages in any order between instances, pruning, statements
\* that Postgres refuses, a db-writer that writes late, twice or never, and
\* restarts, as long as Postgres has all that a restarted instance hydrates.
THEOREM SettledReplicas == Spec => []SettledReplicasAgree
BY ListInvariant, TogetherInvariant, SettledTogether, PTL

----------------------------------------------------------------------------
(* Closed alerts.                                                           *)

\* Where an alert is closed, so is all that an instance is about to hear of it
\* and all that a request is about to make of it.
ClosedAt(i, id) == id \in index[i] /\ mem[i][id].status = "closed"

NewsClosed(i, id) ==
    \A n \in 1..Len(inbox[i]) : inbox[i][n].id = id => inbox[i][n].data.status = "closed"

UpdatesClosed(id) ==
    \A q \in Request : Busy(q, id) /\ ~Creates(req[q].op) =>
        /\ req[q].pc = "resume" =>
              MemValue(req[q].op, req[q].arg, mem[req[q].inst][id]).status = "closed"
        /\ req[q].pc \in {"send", "accept"} => mem[req[q].inst][id].status = "closed"

ClosedAhead ==
    \A id \in Undisturbed, i \in up :
        kind[id] = "sos" /\ ClosedAt(i, id) => NewsClosed(i, id) /\ UpdatesClosed(id)

\* Requests that go on with what they had.
LEMMA UpdatesKept ==
    ASSUME NEW id, UpdatesClosed(id),
           \A q \in Request : Busy(q, id)' /\ ~Creates(req'[q].op) =>
              \/ req'[q].pc \in {"pg", "xadd"}
              \/ /\ Busy(q, id) /\ req'[q].op = req[q].op /\ req'[q].arg = req[q].arg
                 /\ req'[q].inst = req[q].inst
                 /\ mem'[req[q].inst][id] = mem[req[q].inst][id]
                 /\ req'[q].pc = req[q].pc \/ (req'[q].pc = "accept" /\ req[q].pc = "send")
    PROVE  UpdatesClosed(id)'
<1> SUFFICES ASSUME NEW q \in Request, Busy(q, id)', ~Creates(req'[q].op)
             PROVE  /\ req'[q].pc = "resume" =>
                          MemValue(req'[q].op, req'[q].arg, mem'[req'[q].inst][id]).status = "closed"
                    /\ req'[q].pc \in {"send", "accept"} => mem'[req'[q].inst][id].status = "closed"
  BY DEF UpdatesClosed
<1>1. CASE req'[q].pc \in {"pg", "xadd"}
  BY <1>1
<1>2. CASE /\ Busy(q, id) /\ req'[q].op = req[q].op /\ req'[q].arg = req[q].arg
           /\ req'[q].inst = req[q].inst
           /\ mem'[req[q].inst][id] = mem[req[q].inst][id]
           /\ req'[q].pc = req[q].pc \/ (req'[q].pc = "accept" /\ req[q].pc = "send")
  BY <1>2 DEF UpdatesClosed
<1> QED
  BY <1>1, <1>2

LEMMA ClosedFacts ==
    ASSUME ListInv, Together, ClosedAhead, NEW id \in Undisturbed, NEW i \in up, kind[id] = "sos"
    PROVE  /\ ClosedAt(i, id) => NewsClosed(i, id) /\ UpdatesClosed(id)
           /\ id \in Record /\ id \in Created /\ AloneAt(id) /\ InTuneAt(id) /\ i \in Instance
           /\ up \subseteq Instance
           /\ \A q \in Request : Busy(q, id) => req[q].inst \in up /\ req[q].op \in Op /\ req[q].arg \in Rec
           /\ \A q \in Request : Busy(q, id) /\ ~Creates(req[q].op) => req[q].op \in {"assign", "resolve"}
<1>1. ClosedAt(i, id) => NewsClosed(i, id) /\ UpdatesClosed(id)
  BY DEF ClosedAhead
<1>2. id \in Record /\ id \in Created /\ AloneAt(id) /\ InTuneAt(id)
  BY TogetherFacts
<1>3. up \subseteq Instance
  BY DEF ListInv, Types, InstanceTypes
<1>4. \A q \in Request : Busy(q, id) => req[q].inst \in up /\ req[q].op \in Op /\ req[q].arg \in Rec
  BY RecordsKnown DEF Busy, ListInv, Requests
<1>5. \A q \in Request : Busy(q, id) /\ ~Creates(req[q].op) => req[q].op \in {"assign", "resolve"}
  BY <1>4 DEF Busy, ListInv, Requests, Op, Creates
<1> QED
  BY <1>1, <1>2, <1>3, <1>4, <1>5

\* The steps before the messages, and those that only drop something.
LEMMA RequestsKeepClosed ==
    ASSUME ListInv, Together, ClosedAhead, NEW q \in Request,
           \/ \E j \in Instance : StartCreate(q, j) \/ StartUpdate(q, j)
           \/ NotFound(q) \/ Send(q) \/ AddToStream(q),
           NEW id \in Undisturbed', NEW i \in up', kind'[id] = "sos", ClosedAt(i, id)'
    PROVE  NewsClosed(i, id)' /\ UpdatesClosed(id)'
<1>1. /\ UNCHANGED <<up, index, mem, inbox>> /\ disturbed \subseteq disturbed'
      /\ \A p \in Request : p # q => req'[p] = req[p]
  BY StartCreateFacts, StartUpdateFacts, NotFoundFacts, SendFacts, AddToStreamFacts
<1>2. \/ req'[q].pc = "pg"
      \/ ~Active(q)'
      \/ /\ Active(q) /\ req[q].pc = "send" /\ req'[q].pc = "accept" /\ req'[q].inst = req[q].inst
         /\ req'[q].op = req[q].op /\ req'[q].id = req[q].id /\ req'[q].arg = req[q].arg
  BY StartCreateFacts, StartUpdateFacts, NotFoundFacts, SendFacts, AddToStreamFacts
<1>3. id \in index[i] /\ i \in up /\ up \subseteq Instance
  BY <1>1 DEF ClosedAt, ListInv, Types, InstanceTypes
<1>4. id \in Undisturbed /\ id \in Record
  <2>1. id \in Created /\ id \notin disturbed'
    BY <1>3, RecordsKnown DEF Undisturbed
  <2> QED
    BY <1>1, <2>1, TogetherFacts DEF Undisturbed
<1>5. kind[id] = "sos"
  <2>1. CASE \E j \in Instance : StartCreate(q, j)
    <3>1. nextId \notin Created /\ \A d \in Record : d # nextId => kind'[d] = kind[d]
      BY <2>1, StartCreateFacts DEF Created
    <3> QED
      BY <1>4, <3>1 DEF Undisturbed
  <2>2. CASE (\E j \in Instance : StartUpdate(q, j)) \/ NotFound(q) \/ Send(q) \/ AddToStream(q)
    BY <2>2, StartUpdateFacts, NotFoundFacts, SendFacts, AddToStreamFacts
  <2> QED
    BY <2>1, <2>2
<1>6. NewsClosed(i, id) /\ UpdatesClosed(id)
  BY <1>1, <1>3, <1>4, <1>5, ClosedFacts DEF ClosedAt
<1>7. UpdatesClosed(id)'
  <2>1. ASSUME NEW p \in Request, Busy(p, id)', ~Creates(req'[p].op)
        PROVE  \/ req'[p].pc \in {"pg", "xadd"}
               \/ /\ Busy(p, id) /\ req'[p].op = req[p].op /\ req'[p].arg = req[p].arg
                  /\ req'[p].inst = req[p].inst
                  /\ mem'[req[p].inst][id] = mem[req[p].inst][id]
                  /\ req'[p].pc = req[p].pc \/ (req'[p].pc = "accept" /\ req[p].pc = "send")
    BY <1>1, <1>2, <2>1 DEF Busy, Active
  <2> QED
    BY <1>6, <2>1, UpdatesKept
<1> QED
  BY <1>1, <1>6, <1>7 DEF NewsClosed

LEMMA PgStatementKeepsClosed ==
    ASSUME ListInv, Together, ClosedAhead, NEW q \in Request, PgStatement(q),
           NEW id \in Undisturbed', NEW i \in up', kind'[id] = "sos", ClosedAt(i, id)'
    PROVE  NewsClosed(i, id)' /\ UpdatesClosed(id)'
<1>1. /\ Active(q) /\ req[q].pc = "pg"
      /\ UNCHANGED <<stream, up, sub, list, index, mem, inbox, kind, nextId>>
      /\ \A p \in Request : p # q => req'[p] = req[p]
      /\ req'[q].pc = "resume" /\ req'[q].inst = req[q].inst /\ req'[q].op = req[q].op
      /\ req'[q].id = req[q].id /\ req'[q].arg = req[q].arg
      /\ disturbed \subseteq disturbed'
  BY PgStatementFacts
<1>2. id \in Undisturbed /\ i \in up /\ kind[id] = "sos" /\ ClosedAt(i, id)
  BY <1>1 DEF Undisturbed, Created, ClosedAt
<1>3. /\ NewsClosed(i, id) /\ UpdatesClosed(id) /\ AloneAt(id) /\ InTuneAt(id) /\ up \subseteq Instance
      /\ \A p \in Request : Busy(p, id) => req[p].inst \in up
      /\ \A p \in Request : Busy(p, id) /\ ~Creates(req[p].op) => req[p].op \in {"assign", "resolve"}
  BY <1>2, ClosedFacts
<1>4. ASSUME Busy(q, id), ~Creates(req[q].op)
      PROVE  MemValue(req[q].op, req[q].arg, mem[req[q].inst][id]).status = "closed"
  <2>1. CASE req[q].op = "resolve"
    BY <2>1 DEF MemValue, Creates
  <2>2. CASE req[q].op = "assign"
    <3>1. /\ \A p \in Request : Busy(p, id) => p = q
          /\ \A j \in Instance : Unmentioned(j, id)
      BY <1>1, <1>3, <1>4 DEF AloneAt
    <3>2. Agreed(id)
      BY <1>1, <1>3, <1>4, <3>1 DEF InTuneAt, AtRest
    <3>3. PICK v \in Rec : \A j \in up : Holds(j, id, v)
      BY <3>2 DEF Agreed
    <3>4. \A j \in up : mem[j][id] = v
      BY <1>3, <3>1, <3>3 DEF Holds
    <3>5. v.status = "closed" /\ mem[req[q].inst][id] = v
      BY <1>2, <1>3, <1>4, <3>4 DEF ClosedAt
    <3>6. MemValue(req[q].op, req[q].arg, v) = [v EXCEPT !.vol = req[q].arg.vol]
      BY <2>2 DEF MemValue, Creates
    <3> QED
      BY <3>5, <3>6 DEF Rec
  <2> QED
    BY <1>3, <1>4, <2>1, <2>2
<1>5. UpdatesClosed(id)'
  <2> SUFFICES ASSUME NEW p \in Request, Busy(p, id)', ~Creates(req'[p].op)
               PROVE  /\ req'[p].pc = "resume" =>
                            MemValue(req'[p].op, req'[p].arg, mem'[req'[p].inst][id]).status = "closed"
                      /\ req'[p].pc \in {"send", "accept"} => mem'[req'[p].inst][id].status = "closed"
    BY DEF UpdatesClosed
  <2>1. CASE p = q
    BY <1>1, <1>4, <2>1 DEF Busy
  <2>2. CASE p # q
    BY <1>1, <1>3, <2>2 DEF UpdatesClosed, Busy, Active
  <2> QED
    BY <2>1, <2>2
<1> QED
  BY <1>1, <1>3, <1>5 DEF NewsClosed

LEMMA MutateKeepsClosed ==
    ASSUME ListInv, Together, ClosedAhead, ListInv', Together', NEW q \in Request, Mutate(q),
           NEW id \in Undisturbed', NEW i \in up', kind'[id] = "sos", ClosedAt(i, id)'
    PROVE  NewsClosed(i, id)' /\ UpdatesClosed(id)'
<1>1. /\ Active(q) /\ req[q].pc = "resume"
      /\ UNCHANGED <<pg, stream, up, sub, inbox, kind, nextId, disturbed, unsaved>>
      /\ \A p \in Request : p # q => req'[p] = req[p]
      /\ req'[q].pc = "send" /\ req'[q].inst = req[q].inst /\ req'[q].op = req[q].op
      /\ req'[q].id = req[q].id /\ req'[q].arg = req[q].arg
      /\ mem'[req[q].inst][req[q].id]
           = MemValue(req[q].op, req[q].arg, mem[req[q].inst][req[q].id])
      /\ \A j \in Instance, d \in Record :
           j # req[q].inst \/ d # req[q].id => mem'[j][d] = mem[j][d]
      /\ \/ /\ Creates(req[q].op)
            /\ index' = IF req[q].op = "create"
                        THEN [index EXCEPT ![req[q].inst] = @ \cup {req[q].id}] ELSE index
         \/ ~Creates(req[q].op) /\ UNCHANGED index
  BY MutateFacts
<1>2. id \in Undisturbed /\ i \in up /\ kind[id] = "sos"
  BY <1>1 DEF Undisturbed, Created
<1>3. /\ ClosedAt(i, id) => NewsClosed(i, id) /\ UpdatesClosed(id)
      /\ AloneAt(id) /\ InTuneAt(id) /\ id \in Record /\ i \in Instance
      /\ up \subseteq Instance /\ \A p \in Request : Busy(p, id) => req[p].inst \in up
  BY <1>2, ClosedFacts
<1>4. CASE id # req[q].id
  <2>1. \A j \in Instance : mem'[j][id] = mem[j][id]
    BY <1>1, <1>3, <1>4
  <2>2. id \in index[i]
    <3>1. id \in index'[i]
      BY DEF ClosedAt
    <3>2. index \in [Instance -> SUBSET Record] /\ req[q].inst \in Instance
      BY <1>1, RecordsKnown DEF ListInv, Types, InstanceTypes
    <3> QED
      BY <1>1, <1>3, <1>4, <3>1, <3>2
  <2>3. ClosedAt(i, id)
    BY <1>3, <2>1, <2>2 DEF ClosedAt
  <2>4. UpdatesClosed(id)'
    <3>1. ASSUME NEW p \in Request, Busy(p, id)'
          PROVE  p # q /\ Busy(p, id) /\ req'[p] = req[p] /\ mem'[req[p].inst][id] = mem[req[p].inst][id]
      <4>1. p # q /\ req'[p] = req[p]
        BY <1>1, <1>4, <3>1 DEF Busy
      <4>2. Busy(p, id)
        BY <3>1, <4>1 DEF Busy, Active
      <4> QED
        BY <1>3, <2>1, <4>1, <4>2
    <3> QED
      BY <1>3, <2>3, <3>1, UpdatesKept
  <2> QED
    BY <1>1, <1>3, <2>3, <2>4 DEF NewsClosed
<1>5. CASE id = req[q].id
  <2>1. Busy(q, id)
    BY <1>1, <1>5 DEF Busy
  <2>2. /\ \A p \in Request : Busy(p, id) => p = q
        /\ \A j \in Instance : Unmentioned(j, id)
    BY <1>1, <1>3, <2>1 DEF AloneAt
  <2>3. \A p \in Request : Busy(p, id)' => p = q
    BY <1>1, <2>2 DEF Busy, Active
  <2>4. NewsClosed(i, id)'
    BY <1>1, <1>3, <2>2 DEF NewsClosed, Unmentioned
  <2>5. ASSUME ~Creates(req[q].op) PROVE mem'[req[q].inst][id].status = "closed"
    <3>1. CASE i = req[q].inst
      BY <3>1 DEF ClosedAt
    <3>2. CASE i # req[q].inst
      <4>1. ClosedAt(i, id)
        BY <1>1, <1>3, <2>5, <3>2 DEF ClosedAt
      <4>2. MemValue(req[q].op, req[q].arg, mem[req[q].inst][id]).status = "closed"
        BY <1>1, <1>3, <2>1, <2>5, <4>1 DEF UpdatesClosed
      <4> QED
        BY <1>1, <1>5, <4>2
    <3> QED
      BY <3>1, <3>2
  <2>6. UpdatesClosed(id)'
    BY <1>1, <2>3, <2>5 DEF UpdatesClosed
  <2> QED
    BY <2>4, <2>6
<1> QED
  BY <1>4, <1>5

LEMMA AcceptKeepsClosed ==
    ASSUME ListInv, Together, ClosedAhead, NEW q \in Request, Accept(q),
           NEW id \in Undisturbed', NEW i \in up', kind'[id] = "sos", ClosedAt(i, id)'
    PROVE  NewsClosed(i, id)' /\ UpdatesClosed(id)'
<1>1. /\ Active(q) /\ req[q].pc = "accept"
      /\ UNCHANGED <<pg, stream, up, sub, list, index, mem, kind, nextId, unsaved>>
      /\ \A p \in Request : p # q => req'[p] = req[p]
      /\ req'[q].pc = "xadd" \/ ~Active(q)'
      /\ \A n \in 1..Len(inbox'[i]) :
           \/ n \in 1..Len(inbox[i]) /\ inbox'[i][n] = inbox[i][n]
           \/ inbox'[i][n] = News(req[q])
      /\ disturbed \subseteq disturbed'
  <2>1. i \in Instance
    BY AcceptFacts DEF ListInv, Types, InstanceTypes
  <2> QED
    BY <2>1, AcceptFacts
<1>2. id \in Undisturbed /\ i \in up /\ kind[id] = "sos" /\ ClosedAt(i, id)
  BY <1>1 DEF Undisturbed, Created, ClosedAt
<1>3. NewsClosed(i, id) /\ UpdatesClosed(id) /\ InTuneAt(id)
  BY <1>2, ClosedFacts
<1>4. ASSUME req[q].id = id PROVE req[q].data.status = "closed"
  <2>1. Busy(q, id)
    BY <1>1, <1>4 DEF Busy
  <2>2. CASE Creates(req[q].op)
    <3>1. mem[i][id] = req[q].arg
      BY <1>1, <1>2, <1>3, <2>1, <2>2 DEF InTuneAt, CreationInTune, ClosedAt
    <3>2. req[q].arg.status = "open"
      BY <1>1, <2>2 DEF ListInv, Requests
    <3> QED
      BY <1>2, <3>1, <3>2 DEF ClosedAt
  <2>3. CASE ~Creates(req[q].op)
    <3>1. req[q].data = mem[req[q].inst][id]
      BY <1>1, <1>3, <2>1, <2>3 DEF InTuneAt, UpdateInTune
    <3> QED
      BY <1>1, <1>3, <2>1, <2>3, <3>1 DEF UpdatesClosed
  <2> QED
    BY <2>2, <2>3
<1>5. NewsClosed(i, id)'
  BY <1>1, <1>3, <1>4 DEF NewsClosed, News
<1>6. UpdatesClosed(id)'
  <2>1. \A p \in Request : Busy(p, id)' =>
          \/ req'[p].pc = "xadd"
          \/ Busy(p, id) /\ req'[p] = req[p]
    BY <1>1 DEF Busy, Active
  <2> QED
    BY <1>1, <1>3, <2>1, UpdatesKept
<1> QED
  BY <1>5, <1>6

LEMMA DeliverKeepsClosed ==
    ASSUME ListInv, Together, ClosedAhead, Together', NEW j \in Instance, Deliver(j),
           NEW id \in Undisturbed', NEW i \in up', kind'[id] = "sos", ClosedAt(i, id)'
    PROVE  NewsClosed(i, id)' /\ UpdatesClosed(id)'
<1> DEFINE m == inbox[j][1]
<1>1. /\ 1 \in 1..Len(inbox[j]) /\ j \in up
      /\ UNCHANGED <<pg, stream, up, sub, req, kind, nextId, disturbed, unsaved>>
      /\ \A l \in Instance : l # j =>
           inbox'[l] = inbox[l] /\ index'[l] = index[l] /\ mem'[l] = mem[l]
  BY DeliverFacts
<1>2. \A n \in 1..Len(inbox'[j]) : n + 1 \in 1..Len(inbox[j]) /\ inbox'[j][n] = inbox[j][n + 1]
  BY DeliverFacts
<1>3. m \in Message
  BY DeliverFacts
<1>4. /\ \A d \in Record : d # m.id => mem'[j][d] = mem[j][d]
      /\ \/ /\ m.type = "new" /\ m.id \notin index[j]
            /\ index'[j] = index[j] \cup {m.id} /\ mem'[j][m.id] = m.data
         \/ /\ m.type = "update" /\ m.id \in index[j]
            /\ mem'[j][m.id] = m.data /\ UNCHANGED index
         \/ /\ m.type = "new" <=> m.id \in index[j]
            /\ UNCHANGED <<index, mem>>
  BY DeliverFacts
<1>5. id \in Undisturbed /\ i \in up /\ kind[id] = "sos"
  BY <1>1 DEF Undisturbed, Created
<1>6. /\ ClosedAt(i, id) => NewsClosed(i, id) /\ UpdatesClosed(id)
      /\ AloneAt(id) /\ InTuneAt(id) /\ id \in Record /\ i \in Instance
      /\ up \subseteq Instance /\ \A p \in Request : Busy(p, id) => req[p].inst \in up
  BY <1>5, ClosedFacts
<1>7. CASE id # m.id
  <2>1. \A l \in Instance : mem'[l][id] = mem[l][id]
    BY <1>1, <1>4, <1>6, <1>7
  <2>2. ClosedAt(i, id)
    BY <1>1, <1>4, <1>6, <1>7, <2>1 DEF ClosedAt
  <2>3. NewsClosed(i, id)'
    BY <1>1, <1>2, <1>6, <2>2 DEF NewsClosed
  <2>4. \A p \in Request : Busy(p, id)' =>
          Busy(p, id) /\ req'[p] = req[p] /\ mem'[req[p].inst][id] = mem[req[p].inst][id]
    BY <1>1, <1>6, <2>1 DEF Busy, Active
  <2> QED
    BY <1>6, <2>2, <2>3, <2>4, UpdatesKept
<1>8. CASE id = m.id
  <2>1. ~Unmentioned(j, id)
    BY <1>1, <1>8 DEF Unmentioned
  <2>2. \A q \in Request : Busy(q, id) => req[q].pc = "xadd" /\ Creates(req[q].op)
    BY <1>6, <2>1 DEF AloneAt, ListInv, Requests, Busy, Creates
  <2>3. UpdatesClosed(id)'
    BY <1>1, <2>2 DEF UpdatesClosed, Busy, Active
  <2>4. PICK v \in Rec : \A l \in up : Holds(l, id, v)
    BY <1>6, <2>2 DEF InTuneAt, AtRest, Agreed
  <2>5. CASE i = j
    <3>1. mem'[j][id] = v
      <4>1. /\ m.data = v /\ (m.type = "update" => id \in index[j])
            /\ m.type = "new" /\ id \in index[j] => mem[j][id] = v
        BY <1>1, <1>8, <2>4 DEF Holds
      <4>2. m.type \in {"new", "update"}
        BY <1>3 DEF Message
      <4> QED
        BY <1>4, <1>8, <4>1, <4>2
    <3>2. v.status = "closed"
      BY <2>5, <3>1 DEF ClosedAt
    <3>3. \A n \in 1..Len(inbox'[i]) : inbox'[i][n].id = id => inbox'[i][n].data = v
      BY <1>1, <1>2, <2>4, <2>5 DEF Holds
    <3> QED
      BY <2>3, <3>2, <3>3 DEF NewsClosed
  <2>6. CASE i # j
    <3>1. inbox'[i] = inbox[i] /\ index'[i] = index[i] /\ mem'[i] = mem[i]
      BY <1>1, <1>6, <2>6
    <3>2. NewsClosed(i, id)
      BY <1>6, <3>1 DEF ClosedAt
    <3> QED
      BY <2>3, <3>1, <3>2 DEF NewsClosed
  <2> QED
    BY <2>5, <2>6
<1> QED
  BY <1>7, <1>8

LEMMA EnvironmentKeepsClosed ==
    ASSUME ListInv, Together, ClosedAhead, NEW j \in Instance,
           Subscribe(j) \/ Disconnect(j) \/ Crash(j) \/ Prune(j),
           NEW id \in Undisturbed', NEW i \in up', kind'[id] = "sos", ClosedAt(i, id)'
    PROVE  NewsClosed(i, id)' /\ UpdatesClosed(id)'
<1>1. UNCHANGED <<kind, nextId>> /\ disturbed \subseteq disturbed' /\ up' \subseteq up
  BY SubscribeFacts, DisconnectFacts, CrashFacts, PruneFacts
<1>2. id \in Undisturbed /\ id \notin disturbed' /\ i \in up /\ kind[id] = "sos"
  BY <1>1 DEF Undisturbed, Created
<1>3. /\ ClosedAt(i, id) => NewsClosed(i, id) /\ UpdatesClosed(id)
      /\ id \in Record /\ i \in Instance
      /\ up \subseteq Instance /\ \A p \in Request : Busy(p, id) => req[p].inst \in up
  BY <1>2, ClosedFacts
<1>4. /\ id \in index[i] /\ mem'[i][id] = mem[i][id]
      /\ inbox'[i] = inbox[i] \/ inbox'[i] = << >>
  <2>1. CASE Subscribe(j)
    BY <2>1, SubscribeFacts DEF ClosedAt
  <2>2. CASE Disconnect(j)
    BY <1>3, <2>2, DisconnectFacts DEF ClosedAt
  <2>3. CASE Crash(j)
    <3>1. i # j
      BY <2>3, CrashFacts
    <3> QED
      BY <1>3, <2>3, <3>1, CrashFacts DEF ClosedAt
  <2>4. CASE Prune(j)
    <3>1. /\ UNCHANGED <<mem, inbox>>
          /\ \A l \in Instance : l # j => index'[l] = index[l]
          /\ \A k \in Kind : ToSet(list'[j][k]) \subseteq ToSet(list[j][k])
          /\ index'[j] = Listed(j)'
      BY <2>4, PruneFacts
    <3>2. id \in Listed(j)' => id \in Listed(j)
      BY <3>1 DEF Listed
    <3>3. id \in Listed(j) /\ id \notin disturbed => id \in index[j]
      BY DEF ListInv, Lists
    <3> QED
      BY <1>1, <1>2, <1>3, <3>1, <3>2, <3>3 DEF ClosedAt
  <2> QED
    BY <2>1, <2>2, <2>3, <2>4
<1>5. ClosedAt(i, id)
  BY <1>4 DEF ClosedAt
<1>6. NewsClosed(i, id)'
  BY <1>3, <1>4, <1>5, SequencesInit DEF NewsClosed
<1>7. \A p \in Request : Busy(p, id)' =>
        Busy(p, id) /\ req'[p] = req[p] /\ mem'[req[p].inst] = mem[req[p].inst]
  <2>1. CASE Subscribe(j)
    BY <2>1, SubscribeFacts DEF Busy, Active
  <2>2. CASE Disconnect(j)
    BY <2>2, DisconnectFacts DEF Busy, Active
  <2>3. CASE Crash(j)
    BY <1>3, <2>3, CrashFacts DEF Busy
  <2>4. CASE Prune(j)
    BY <2>4, PruneFacts DEF Busy, Active
  <2> QED
    BY <2>1, <2>2, <2>3, <2>4
<1> QED
  BY <1>3, <1>5, <1>6, <1>7, UpdatesKept

\* An instance that hydrates a closed row: who is about to change the record
\* agrees with Postgres already.
LEMMA BootKeepsClosed ==
    ASSUME ListInv, Together, ClosedAhead, NEW j \in Instance, Boot(j),
           NEW id \in Undisturbed', NEW i \in up', kind'[id] = "sos", ClosedAt(i, id)'
    PROVE  NewsClosed(i, id)' /\ UpdatesClosed(id)'
<1>1. /\ j \notin up /\ up' = up \cup {j}
      /\ UNCHANGED <<pg, stream, inbox, req, kind, nextId, unsaved>>
      /\ \A l \in Instance : l # j => index'[l] = index[l] /\ mem'[l] = mem[l]
      /\ disturbed \subseteq disturbed'
  BY BootFacts
<1>2. id \in Undisturbed /\ kind[id] = "sos" /\ id \notin disturbed' /\ id \in Created
  BY <1>1 DEF Undisturbed, Created
<1>3. /\ up \subseteq Instance /\ id \in Record /\ InTuneAt(id)
      /\ \A p \in Request : Busy(p, id) => req[p].inst \in up /\ req[p].inst # j
  BY <1>1, <1>2, TogetherFacts DEF ListInv, Types, InstanceTypes, Requests, Busy
<1>4. \A p \in Request : Busy(p, id)' =>
        Busy(p, id) /\ req'[p] = req[p] /\ mem'[req[p].inst] = mem[req[p].inst]
  BY <1>1, <1>3 DEF Busy, Active
<1>5. CASE i # j
  <2>1. i \in up /\ ClosedAt(i, id)
    BY <1>1, <1>3, <1>5 DEF ClosedAt
  <2>2. NewsClosed(i, id) /\ UpdatesClosed(id)
    BY <1>2, <2>1 DEF ClosedAhead
  <2> QED
    BY <1>1, <1>4, <2>2, UpdatesKept DEF NewsClosed
<1>6. CASE i = j
  <2>1. mem'[j][id] = pg[id] /\ pg[id].status = "closed"
    <3>1. id \in index'[j] /\ mem'[j][id].status = "closed"
      BY <1>6 DEF ClosedAt
    <3> QED
      BY <1>2, <3>1, BootFacts
  <2>2. NewsClosed(i, id)'
    BY <1>1, <1>6, SequencesInit DEF NewsClosed, ListInv, Origins
  <2>3. UpdatesClosed(id)
    <3> SUFFICES ASSUME NEW q \in Request, Busy(q, id), ~Creates(req[q].op)
                 PROVE  /\ req[q].pc = "resume" =>
                              MemValue(req[q].op, req[q].arg, mem[req[q].inst][id]).status = "closed"
                        /\ req[q].pc \in {"send", "accept"} => mem[req[q].inst][id].status = "closed"
      BY DEF UpdatesClosed
    <3>1. UpdateInTune(q, id)
      BY <1>3 DEF InTuneAt
    <3>2. id \notin unsaved
      BY <1>2, <1>6, BootFacts DEF ClosedAt
    <3> QED
      BY <2>1, <3>1, <3>2 DEF UpdateInTune, RowMatches, Matches
  <2> QED
    BY <1>4, <2>2, <2>3, UpdatesKept
<1> QED
  BY <1>5, <1>6

LEMMA ClosedStep ==
    ListInv /\ Together /\ ClosedAhead /\ ListInv' /\ Together' /\ [Next]_vars => ClosedAhead'
<1> SUFFICES ASSUME ListInv, Together, ClosedAhead, ListInv', Together', [Next]_vars,
                    NEW id \in Undisturbed', NEW i \in up', kind'[id] = "sos", ClosedAt(i, id)'
             PROVE  NewsClosed(i, id)' /\ UpdatesClosed(id)'
  BY DEF ClosedAhead
<1>1. CASE \E q \in Request :
             \/ \E j \in Instance : StartCreate(q, j) \/ StartUpdate(q, j)
             \/ PgStatement(q) \/ Mutate(q) \/ NotFound(q)
             \/ Send(q) \/ Accept(q) \/ AddToStream(q)
  BY <1>1, RequestsKeepClosed, PgStatementKeepsClosed, MutateKeepsClosed, AcceptKeepsClosed
<1>2. CASE \E j \in Instance :
             Deliver(j) \/ Subscribe(j) \/ Disconnect(j) \/ Crash(j) \/ Boot(j) \/ Prune(j)
  BY <1>2, DeliverKeepsClosed, EnvironmentKeepsClosed, BootKeepsClosed
<1>3. CASE (\E d \in Record : WriterApply(d)) \/ UNCHANGED vars
  <2>1. UNCHANGED <<up, index, mem, inbox, req, kind, nextId, disturbed>>
    BY <1>3, WriterApplyFacts DEF vars
  <2>2. id \in Undisturbed /\ i \in up /\ kind[id] = "sos" /\ ClosedAt(i, id)
    BY <2>1 DEF Undisturbed, Created, ClosedAt
  <2>3. NewsClosed(i, id) /\ UpdatesClosed(id)
    BY <2>2 DEF ClosedAhead
  <2> QED
    BY <2>1, <2>3 DEF NewsClosed, UpdatesClosed, Busy, Active
<1> QED
  BY <1>1, <1>2, <1>3 DEF Next

\* A closed alert is overwritten with a closed one.
LEMMA ClosedOverwritten ==
    ASSUME ListInv, Together, ClosedAhead, Next, NEW i \in up, i \in up', NEW id \in Record,
           kind[id] = "sos", id \notin disturbed', ClosedAt(i, id)
    PROVE  mem'[i][id].status = "closed"
<1>1. i \in Instance /\ id \in Created
  BY RecordsKnown DEF ClosedAt, ListInv, Types, InstanceTypes
<1>2. ASSUME id \notin disturbed PROVE NewsClosed(i, id) /\ UpdatesClosed(id)
  BY <1>1, <1>2 DEF ClosedAhead, Undisturbed
<1>3. CASE mem'[i] = mem[i]
  BY <1>3 DEF ClosedAt
<1>4. ASSUME NEW q \in Request, Mutate(q) PROVE mem'[i][id].status = "closed"
  <2>1. CASE i # req[q].inst \/ id # req[q].id
    BY <1>1, <1>4, <2>1, MutateFacts DEF ClosedAt
  <2>2. CASE i = req[q].inst /\ id = req[q].id
    <3>1. ~Creates(req[q].op)
      <4>1. id \in Listed(i)
        BY <1>1 DEF ListInv, Lists, ClosedAt
      <4> QED
        BY <1>4, <2>2, <4>1, MutateFacts
    <3>2. UpdatesClosed(id)
      BY <1>2, <1>4, MutateFacts
    <3>3. Busy(q, id) /\ req[q].pc = "resume"
      BY <1>4, <2>2, MutateFacts DEF Busy
    <3> QED
      BY <1>4, <2>2, <3>1, <3>2, <3>3, MutateFacts DEF UpdatesClosed
  <2> QED
    BY <2>1, <2>2
<1>5. ASSUME NEW j \in Instance, Deliver(j) PROVE mem'[i][id].status = "closed"
  <2>1. CASE i # j \/ id # inbox[j][1].id
    BY <1>1, <1>5, <2>1, DeliverFacts DEF ClosedAt
  <2>2. CASE i = j /\ id = inbox[j][1].id
    <3>1. NewsClosed(i, id) /\ 1 \in 1..Len(inbox[i])
      BY <1>2, <1>5, <2>2, DeliverFacts
    <3>2. inbox[i][1].data.status = "closed"
      BY <2>2, <3>1 DEF NewsClosed
    <3> QED
      BY <1>5, <2>2, <3>2, DeliverFacts DEF ClosedAt
  <2> QED
    BY <2>1, <2>2
<1>6. ASSUME NEW j \in Instance, Crash(j) \/ Boot(j) PROVE mem'[i] = mem[i]
  <2>1. i # j
    BY <1>6, CrashFacts, BootFacts
  <2> QED
    BY <1>1, <1>6, <2>1, CrashFacts, BootFacts
<1>7. ASSUME NEW q \in Request, NEW j \in Instance, StartCreate(q, j) \/ StartUpdate(q, j)
      PROVE  mem'[i] = mem[i]
  BY <1>7, StartCreateFacts, StartUpdateFacts
<1>8. ASSUME NEW q \in Request, PgStatement(q) \/ NotFound(q) \/ Send(q) \/ Accept(q) \/ AddToStream(q)
      PROVE  mem'[i] = mem[i]
  BY <1>8, PgStatementFacts, NotFoundFacts, SendFacts, AcceptFacts, AddToStreamFacts
<1>9. ASSUME NEW j \in Instance, Subscribe(j) \/ Disconnect(j) \/ Prune(j) PROVE mem'[i] = mem[i]
  BY <1>9, SubscribeFacts, DisconnectFacts, PruneFacts
<1>10. ASSUME NEW d \in Record, WriterApply(d) PROVE mem'[i] = mem[i]
  BY <1>10, WriterApplyFacts
<1> QED
  BY <1>3, <1>4, <1>5, <1>6, <1>7, <1>8, <1>9, <1>10 DEF Next

\* An undisturbed SOS alert that is closed on an instance stays closed there,
\* whatever assign_sos, sync_state or a later resolve_sos does, until the
\* instance stops.
THEOREM ClosedStays == Spec => ClosedSosStaysClosed
<1>1. Init => ClosedAhead
  BY DEF Init, ClosedAhead, Undisturbed, Created
<1>2. ListInv /\ Together /\ ClosedAhead /\ ListInv' /\ Together' /\ [Next]_vars => ClosedAhead'
  BY ClosedStep
<1>3. Spec => []ClosedAhead
  BY <1>1, <1>2, ListInvariant, TogetherInvariant, PTL DEF Spec
<1>4. ListInv /\ Together /\ ClosedAhead /\ [Next]_vars =>
        [\A i \in Instance, id \in Record :
            /\ kind[id] = "sos" /\ id \notin disturbed' /\ i \in up /\ i \in up'
            /\ id \in index[i] /\ mem[i][id].status = "closed"
            => mem'[i][id].status = "closed"]_vars
  BY ClosedOverwritten DEF ClosedAt
<1> QED
  BY <1>3, <1>4, ListInvariant, TogetherInvariant, PTL DEF Spec, ClosedSosStaysClosed

=============================================================================
