--------------------------- MODULE DbWriterProofs --------------------------
(* The safety invariants of DbWriter for every batch size, stream bound,    *)
(* number of consumer names and number of faults.                           *)
(* NoSilentLoss is not inductive: an XACK takes entries off the pending     *)
(* list, so what write_batch was given must be known to be written by then, *)
(* which in turn depends on what the process held when it read.             *)
EXTENDS DbWriter, FiniteSetTheorems, TLAPS

\* A stopped process holds nothing.
DownHoldsNothing == pc = "down" => batch = {}

\* write_batch misses the fields of trimmed entries only.
FullUnlessTrimmed == Writing => batch \ full \subseteq trimmed

\* What is about to be acknowledged is written, or trimmed.
AckIsSafe ==
    pc \in {"ack", "reack"} => \A e \in batch : recorded[e] > 0 \/ e \in trimmed

IInv ==
    /\ TypeOK
    /\ NoSilentLoss
    /\ HeldIsPending
    /\ DownHoldsNothing
    /\ FullUnlessTrimmed
    /\ AckIsSafe

----------------------------------------------------------------------------
(* Reads return a prefix of what they read from.                            *)

\* The entries below any bound are finitely many, and fewer in a subset.
LEMMA BelowFacts ==
    ASSUME NEW S \in SUBSET Entry, NEW T \in SUBSET S, NEW d, NEW e,
           \A x \in T : x < d => x < e
    PROVE  /\ Cardinality({x \in T : x < d}) \in Nat
           /\ Cardinality({x \in S : x < e}) \in Nat
           /\ Cardinality({x \in T : x < d}) <= Cardinality({x \in S : x < e})
<1> DEFINE A == {x \in S : x < e}
           B == {x \in T : x < d}
<1>1. IsFiniteSet(Entry)
  <2>1. MaxEntries \in Int
    BY BoundsAssumption
  <2> QED
    BY <2>1, FS_Interval DEF Entry
<1>2. A \in SUBSET Entry /\ B \in SUBSET A
  OBVIOUS
<1> HIDE DEF A, B
<1>3. IsFiniteSet(A)
  BY <1>1, <1>2, FS_Subset
<1>4. IsFiniteSet(B) /\ Cardinality(B) <= Cardinality(A)
  BY <1>2, <1>3, FS_Subset
<1> QED
  BY <1>3, <1>4, FS_CardinalityType DEF A, B

\* First(S, n) holds, with each entry, every lower entry of S.
LEMMA FirstIsPrefix ==
    ASSUME NEW S \in SUBSET Entry, NEW n \in Nat,
           NEW e \in First(S, n), NEW d \in S, d <= e
    PROVE  d \in First(S, n)
<1>1. d \in Nat /\ e \in Nat /\ \A x \in S : x \in Nat
  BY DEF First, Entry
<1>2. \A x \in S : x < d => x < e
  BY <1>1
<1>3. /\ Cardinality({x \in S : x < d}) \in Nat
      /\ Cardinality({x \in S : x < e}) \in Nat
      /\ Cardinality({x \in S : x < d}) <= Cardinality({x \in S : x < e})
  BY <1>2, BelowFacts
<1>4. Cardinality({x \in S : x < e}) < n
  BY DEF First
<1>5. Cardinality({x \in S : x < d}) < n
  BY <1>3, <1>4
<1> QED
  BY <1>5 DEF First

\* Reading a prefix again with at least the same count returns all of it.
LEMMA FirstOfFirst ==
    ASSUME NEW S \in SUBSET Entry, NEW m \in Nat, NEW n \in Nat, m <= n
    PROVE  First(First(S, m), n) = First(S, m)
<1> DEFINE T == First(S, m)
<1>1. T \in SUBSET S
  BY DEF First
<1>2. ASSUME NEW e \in T
      PROVE  Cardinality({x \in T : x < e}) < n
  <2>1. Cardinality({x \in S : x < e}) < m
    BY <1>2 DEF First
  <2> HIDE DEF T
  <2>2. /\ Cardinality({x \in T : x < e}) \in Nat
        /\ Cardinality({x \in S : x < e}) \in Nat
        /\ Cardinality({x \in T : x < e}) <= Cardinality({x \in S : x < e})
    BY <1>1, BelowFacts
  <2> QED
    BY <2>1, <2>2
<1> HIDE DEF T
<1>3. First(T, n) = T
  BY <1>2 DEF First
<1> QED
  BY <1>3 DEF T

----------------------------------------------------------------------------
(* The invariant.                                                           *)

LEMMA InitInv == Init => IInv
<1> SUFFICES ASSUME Init PROVE IInv
  OBVIOUS
<1>1. TypeOK
  <2>1. MaxEntries \in Nat /\ MaxFaults \in Nat
    BY BoundsAssumption
  <2>2. recorded \in [Entry -> 0..2] /\ pel \in [Consumer -> SUBSET (1..last)]
    BY DEF Init
  <2>3. /\ added = 0 /\ data = {} /\ refused = {} /\ trimmed = {} /\ last = 0 /\ me \in Consumer
        /\ pc = "down" /\ buffer = {} /\ batch = {} /\ full = {} /\ attempts = 0
        /\ available = FALSE /\ connecting = 0 /\ faults = 0
    BY DEF Init
  <2>4. available \in BOOLEAN /\ pc \in PC
    BY <2>3, Zenon DEF PC
  <2>5. /\ added \in 0..MaxEntries /\ last \in 0..added
        /\ attempts \in Nat /\ connecting \in Nat /\ faults \in 0..MaxFaults
    BY <2>1, <2>3
  <2> QED
    BY <2>2, <2>3, <2>4, <2>5, Zenon DEF TypeOK
<1>2. NoSilentLoss
  <2>1. 1..last = {}
    BY DEF Init
  <2> QED
    BY <2>1 DEF NoSilentLoss
<1>3. HeldIsPending /\ DownHoldsNothing /\ FullUnlessTrimmed /\ AckIsSafe
  BY DEF Init, HeldIsPending, DownHoldsNothing, FullUnlessTrimmed, AckIsSafe, Writing
<1> QED
  BY <1>1, <1>2, <1>3 DEF IInv

\* What a read of new entries can return.
LEMMA NewFacts ==
    ASSUME TypeOK
    PROVE  /\ New \in SUBSET {e \in 1..added : e > last /\ e \notin trimmed}
           /\ \A e \in New : \A d \in 1..added :
                 d > last /\ d \notin trimmed /\ d <= e => d \in New
           /\ First(New, BatchSize) = New
           /\ First(New, BufferMax) = New
<1> DEFINE S == {e \in 1..added : e > last /\ e \notin trimmed}
<1>1. S \in SUBSET Entry
  BY BoundsAssumption DEF TypeOK, Entry
<1>2. BatchSize \in Nat /\ BufferMax \in Nat /\ BatchSize <= BufferMax
  BY BatchAssumption, BufferAssumption
<1>3. New = First(S, BatchSize)
  BY DEF New
<1> HIDE DEF S
<1>4. New \in SUBSET S
  BY <1>3 DEF First
<1>5. \A e \in New : \A d \in S : d <= e => d \in New
  BY <1>1, <1>2, <1>3, FirstIsPrefix
<1>6. First(New, BatchSize) = New /\ First(New, BufferMax) = New
  BY <1>1, <1>2, <1>3, FirstOfFirst
<1> QED
  BY <1>4, <1>5, <1>6 DEF S

\* With an empty buffer, what is read is what is written.
LEMMA ReadFacts ==
    ASSUME TypeOK, HeldIsPending, ReadNew
    PROVE  /\ batch' = New /\ full' = New /\ buffer' = {}
           /\ pc' \in {"recover", "write"}
<1> DEFINE held == buffer \cup First(New, BufferMax - Cardinality(buffer))
<1>1. Cardinality(buffer) = 0
  BY FS_EmptySet DEF HeldIsPending
<1>2. BufferMax - Cardinality(buffer) = BufferMax
  BY <1>1, BatchAssumption
<1>3. held = New
  BY <1>2, NewFacts DEF HeldIsPending
<1>4. Drained(held) = New
  BY <1>3, NewFacts DEF Drained
<1> QED
  BY <1>3, <1>4 DEF ReadNew

\* The group hands entries over: they become pending, and none is skipped.
LEMMA AdvanceFacts ==
    ASSUME TypeOK, NoSilentLoss, Advance,
           pel' = [pel EXCEPT ![me] = @ \cup New],
           UNCHANGED <<added, trimmed, me, recorded>>
    PROVE  /\ last' \in 0..added /\ last <= last'
           /\ pel' \in [Consumer -> SUBSET (1..last')]
           /\ NoSilentLoss'
           /\ pel[me] \subseteq pel'[me] /\ New \subseteq pel'[me]
<1>1. /\ New \in SUBSET {e \in 1..added : e > last /\ e \notin trimmed}
      /\ \A e \in New : \A d \in 1..added :
            d > last /\ d \notin trimmed /\ d <= e => d \in New
  BY NewFacts
<1>2. added \in Nat /\ last \in 0..added
  BY DEF TypeOK
<1>3. last' \in 0..added /\ last <= last' /\ \A e \in New : e \in 1..last'
  BY <1>1, <1>2 DEF Advance
<1>4. ASSUME NEW e \in 1..last', e > last, e \notin trimmed
      PROVE  e \in New
  BY <1>1, <1>2, <1>3, <1>4 DEF Advance
<1>5. /\ me \in Consumer
      /\ pel \in [Consumer -> SUBSET (1..last)]
      /\ \A c \in Consumer : pel'[c] = IF c = me THEN pel[c] \cup New ELSE pel[c]
  BY DEF TypeOK
<1>6. \A c \in Consumer : pel[c] \subseteq 1..last
  BY <1>5
<1>7. pel' \in [Consumer -> SUBSET (1..last')]
  <2>1. \A c \in Consumer : pel'[c] \in SUBSET (1..last')
    BY <1>2, <1>3, <1>5, <1>6
  <2> QED
    BY <2>1, <1>5
<1>8. NoSilentLoss'
  <2> SUFFICES ASSUME NEW e \in 1..last', e \notin trimmed, ~ recorded[e] > 0
               PROVE  \E c \in Consumer : e \in pel'[c]
    BY DEF NoSilentLoss, Pending
  <2>1. CASE e > last
    BY <1>4, <1>5, <2>1
  <2>2. CASE ~ e > last
    <3>1. e \in 1..last
      BY <1>2, <1>3, <2>2
    <3>2. \E c \in Consumer : e \in pel[c]
      BY <3>1 DEF NoSilentLoss, Pending
    <3> QED
      BY <3>2, <1>5
  <2> QED
    BY <2>1, <2>2
<1> QED
  BY <1>3, <1>5, <1>7, <1>8
----------------------------------------------------------------------------
(* Every step keeps the invariant.                                          *)

\* The steps that leave the stream, the group, the batch and Postgres alone.
LEMMA QuietInv ==
    ASSUME IInv,
           UNCHANGED <<added, data, refused, trimmed, last, pel, me, buffer, recorded>>,
           pc' \in PC, attempts' \in Nat, available' \in BOOLEAN,
           connecting' \in Nat, faults' \in 0..MaxFaults,
           \/ batch' = {} /\ full' = {}
           \/ UNCHANGED <<batch, full, pc>>
    PROVE  IInv'
<1>1. TypeOK'
  BY DEF IInv, TypeOK, Entry
<1>2. NoSilentLoss'
  BY DEF IInv, NoSilentLoss, Pending
<1>3. HeldIsPending'
  BY DEF IInv, HeldIsPending
<1>4. DownHoldsNothing' /\ FullUnlessTrimmed' /\ AckIsSafe'
  BY DEF IInv, DownHoldsNothing, FullUnlessTrimmed, AckIsSafe, Writing
<1> QED
  BY <1>1, <1>2, <1>3, <1>4 DEF IInv

\* An entry is added: nothing delivered changes.
LEMMA AddInv == ASSUME IInv, Add PROVE IInv'
<1>1. /\ added' = added + 1 /\ added' \in 0..MaxEntries
      /\ data' \in SUBSET Entry /\ refused' \in SUBSET data'
  BY BoundsAssumption DEF IInv, TypeOK, Add, Entry
<1>2. TypeOK'
  <2>1. UNCHANGED <<trimmed, last, pel, me, pc, buffer, batch, full, attempts,
                    available, connecting, recorded, faults>>
    BY DEF Add
  <2>2. last' \in 0..added'
    BY <1>1, <2>1 DEF IInv, TypeOK
  <2> QED
    BY <1>1, <2>1, <2>2 DEF IInv, TypeOK
<1>3. NoSilentLoss'
  BY DEF IInv, NoSilentLoss, Pending, Add
<1>4. HeldIsPending' /\ DownHoldsNothing' /\ FullUnlessTrimmed' /\ AckIsSafe'
  BY DEF IInv, Add, HeldIsPending, DownHoldsNothing, FullUnlessTrimmed, AckIsSafe, Writing
<1> QED
  BY <1>2, <1>3, <1>4 DEF IInv

\* Trimming only weakens what must be shown.
LEMMA TrimInv == ASSUME IInv, Trim PROVE IInv'
<1>1. trimmed \subseteq trimmed' /\ trimmed' \in SUBSET Entry
  <2>1. trimmed \subseteq Entry /\ 1..added \subseteq Entry
    BY BoundsAssumption DEF IInv, TypeOK, Entry
  <2>2. First((1..added) \ trimmed, 1) \subseteq 1..added
    BY DEF First
  <2> QED
    BY <2>1, <2>2 DEF Trim
<1>2. TypeOK'
  BY <1>1 DEF IInv, TypeOK, Trim
<1>3. NoSilentLoss'
  BY <1>1 DEF IInv, NoSilentLoss, Pending, Trim
<1>4. HeldIsPending' /\ DownHoldsNothing' /\ FullUnlessTrimmed' /\ AckIsSafe'
  BY <1>1 DEF IInv, Trim, HeldIsPending, DownHoldsNothing, FullUnlessTrimmed, AckIsSafe,
              Writing
<1> QED
  BY <1>2, <1>3, <1>4 DEF IInv

\* A process that starts under another name holds nothing yet.
LEMMA StartInv == ASSUME IInv, NEW c \in Consumer, Start(c) PROVE IInv'
<1>1. batch = {} /\ buffer = {} /\ full = {}
  BY DEF IInv, Start, DownHoldsNothing, HeldIsPending, TypeOK
<1>2. TypeOK'
  BY DEF IInv, TypeOK, Start, stream, PC
<1>3. NoSilentLoss'
  BY DEF IInv, NoSilentLoss, Pending, Start, stream
<1>4. HeldIsPending' /\ DownHoldsNothing' /\ FullUnlessTrimmed' /\ AckIsSafe'
  BY <1>1 DEF Start, HeldIsPending, DownHoldsNothing, FullUnlessTrimmed, AckIsSafe, Writing
<1> QED
  BY <1>2, <1>3, <1>4 DEF IInv

\* New entries are pending before they are held.
LEMMA ReadNewInv == ASSUME IInv, ReadNew PROVE IInv'
<1>1. /\ batch' = New /\ full' = New /\ buffer' = {}
      /\ pc' \in {"recover", "write"}
  BY ReadFacts DEF IInv
<1>2. /\ Advance /\ attempts' = 0
      /\ pel' = [pel EXCEPT ![me] = @ \cup New]
      /\ UNCHANGED <<added, data, refused, trimmed, me, available, connecting, recorded, faults>>
  BY DEF ReadNew, stream
<1>3. /\ last' \in 0..added
      /\ pel' \in [Consumer -> SUBSET (1..last')]
      /\ NoSilentLoss'
      /\ New \subseteq pel'[me]
  BY <1>2, AdvanceFacts DEF IInv
<1>4. New \in SUBSET Entry
  BY NewFacts, BoundsAssumption DEF IInv, TypeOK, Entry
<1>5. TypeOK'
  BY <1>1, <1>2, <1>3, <1>4 DEF IInv, TypeOK, PC
<1>6. HeldIsPending' /\ DownHoldsNothing' /\ FullUnlessTrimmed' /\ AckIsSafe'
  BY <1>1, <1>2, <1>3 DEF HeldIsPending, DownHoldsNothing, FullUnlessTrimmed, AckIsSafe, Writing
<1> QED
  BY <1>3, <1>5, <1>6 DEF IInv

\* A lost reply leaves the entries pending.
LEMMA ReadLostInv == ASSUME IInv, ReadLost PROVE IInv'
<1>1. /\ Advance
      /\ pel' = [pel EXCEPT ![me] = @ \cup New]
      /\ faults' \in 0..MaxFaults
      /\ UNCHANGED <<added, data, refused, trimmed, me, pc, buffer, batch, full, attempts,
                     available, connecting, recorded>>
  BY BoundsAssumption DEF ReadLost, stream, IInv, TypeOK
<1>2. /\ last' \in 0..added
      /\ pel' \in [Consumer -> SUBSET (1..last')]
      /\ NoSilentLoss'
      /\ pel[me] \subseteq pel'[me]
  BY <1>1, AdvanceFacts DEF IInv
<1>3. TypeOK'
  BY <1>1, <1>2 DEF IInv, TypeOK
<1>4. HeldIsPending' /\ DownHoldsNothing' /\ FullUnlessTrimmed' /\ AckIsSafe'
  BY <1>1, <1>2
     DEF IInv, HeldIsPending, DownHoldsNothing, FullUnlessTrimmed, AckIsSafe, Writing
<1> QED
  BY <1>2, <1>3, <1>4 DEF IInv

\* An insertion counts every entry of the batch that came with its fields, and
\* takes nothing back.
LEMMA RecordedFacts ==
    ASSUME TypeOK
    PROVE  /\ Recorded \in [Entry -> 0..2]
           /\ \A e \in Entry : recorded[e] > 0 => Recorded[e] > 0
           /\ \A e \in full : Recorded[e] > 0
<1>1. /\ \A e \in Entry : recorded[e] \in 0..2
      /\ full \subseteq Entry
  BY DEF TypeOK
<1> QED
  BY <1>1 DEF Recorded

\* A commit makes the batch safe to acknowledge.
LEMMA WriteCommitInv == ASSUME IInv, WriteCommit PROVE IInv'
<1>1. /\ Recorded \in [Entry -> 0..2]
      /\ \A e \in Entry : recorded[e] > 0 => Recorded[e] > 0
      /\ \A e \in full : Recorded[e] > 0
  BY RecordedFacts DEF IInv
<1>2. /\ recorded' = Recorded
      /\ UNCHANGED <<added, data, refused, trimmed, last, pel, me, buffer, attempts, available,
                     connecting, faults>>
      /\ Writing
  BY DEF WriteCommit, Attempting, stream
<1>3. \/ pc' \in {"ack", "reack"} /\ UNCHANGED <<batch, full>>
      \/ pc' \in {"recover", "loop"} /\ batch' = {} /\ full' = {}
  BY <1>2 DEF WriteCommit, AckPlace, AfterWrite, Writing
<1>4. TypeOK'
  BY <1>1, <1>2, <1>3 DEF IInv, TypeOK, PC
<1>5. NoSilentLoss'
  <2>1. \A e \in 1..last : e \in Entry
    BY BoundsAssumption DEF IInv, TypeOK, Entry
  <2> QED
    BY <1>1, <1>2, <2>1 DEF IInv, NoSilentLoss, Pending
<1>6. AckIsSafe'
  <2>1. \A e \in batch : e \in full \/ e \in trimmed
    BY <1>2 DEF IInv, FullUnlessTrimmed
  <2> QED
    BY <1>1, <1>2, <1>3, <2>1 DEF AckIsSafe
<1>7. HeldIsPending' /\ DownHoldsNothing' /\ FullUnlessTrimmed'
  BY <1>2, <1>3 DEF IInv, HeldIsPending, DownHoldsNothing, FullUnlessTrimmed, Writing
<1> QED
  BY <1>4, <1>5, <1>6, <1>7 DEF IInv

\* A failed attempt keeps the batch or drops it whole, and takes nothing back that
\* was written; it may have committed all the same.
LEMMA AttemptMoves ==
    ASSUME IInv, Attempting, RetryOrGiveUp, recorded' \in {recorded, Recorded},
           faults' \in 0..MaxFaults,
           UNCHANGED <<added, data, refused, trimmed, last, pel, me, buffer, connecting>>
    PROVE  IInv'
<1>1. /\ recorded' \in [Entry -> 0..2]
      /\ \A e \in Entry : recorded[e] > 0 => recorded'[e] > 0
  BY RecordedFacts DEF IInv, TypeOK
<1>2. Writing
  BY DEF Attempting
<1>3. attempts' \in Nat
  BY DEF RetryOrGiveUp, IInv, TypeOK
<1>4. available' \in BOOLEAN
  <2>1. available \in BOOLEAN
    BY DEF IInv, TypeOK
  <2> QED
    BY <2>1, Zenon DEF RetryOrGiveUp
<1>5. \/ UNCHANGED <<pc, batch, full>>
      \/ pc' \in {"recover", "loop"} /\ batch' = {} /\ full' = {}
  BY <1>2 DEF RetryOrGiveUp, AfterWrite, Writing
<1>6. TypeOK'
  BY <1>1, <1>3, <1>4, <1>5 DEF IInv, TypeOK, PC
<1>7. NoSilentLoss'
  <2>1. \A e \in 1..last : e \in Entry
    BY BoundsAssumption DEF IInv, TypeOK, Entry
  <2> QED
    BY <1>1, <2>1 DEF IInv, NoSilentLoss, Pending
<1>8. HeldIsPending' /\ DownHoldsNothing' /\ FullUnlessTrimmed' /\ AckIsSafe'
  BY <1>2, <1>5
     DEF IInv, HeldIsPending, DownHoldsNothing, FullUnlessTrimmed, AckIsSafe, Writing
<1> QED
  BY <1>6, <1>7, <1>8 DEF IInv

\* Acknowledging the batch, with or without effect, forgets nothing unwritten.
LEMMA AckMoves ==
    ASSUME IInv, pc \in {"ack", "reack"},
           pel' \in {pel, [pel EXCEPT ![me] = @ \ batch]},
           pc' \in {"recover", "loop"}, batch' = {}, full' = {},
           faults' \in 0..MaxFaults,
           UNCHANGED <<added, data, refused, trimmed, last, me, buffer, attempts, available,
                       connecting, recorded>>
    PROVE  IInv'
<1>1. /\ pel \in [Consumer -> SUBSET (1..last)] /\ me \in Consumer
      /\ \A e \in batch : recorded[e] > 0 \/ e \in trimmed
  BY DEF IInv, TypeOK, AckIsSafe
<1>2. /\ pel' \in [Consumer -> SUBSET (1..last)]
      /\ \A c \in Consumer : pel[c] \ batch \subseteq pel'[c]
  BY <1>1
<1>3. TypeOK'
  BY <1>2 DEF IInv, TypeOK, PC
<1>4. NoSilentLoss'
  <2> SUFFICES ASSUME NEW e \in 1..last, ~ recorded[e] > 0, e \notin trimmed
               PROVE  \E c \in Consumer : e \in pel'[c]
    BY DEF NoSilentLoss, Pending
  <2>1. \E c \in Consumer : e \in pel[c]
    BY DEF IInv, NoSilentLoss, Pending
  <2>2. e \notin batch
    BY <1>1
  <2> QED
    BY <1>2, <2>1, <2>2
<1>5. HeldIsPending' /\ DownHoldsNothing' /\ FullUnlessTrimmed' /\ AckIsSafe'
  BY DEF IInv, HeldIsPending, DownHoldsNothing, FullUnlessTrimmed, AckIsSafe, Writing
<1> QED
  BY <1>3, <1>4, <1>5 DEF IInv

\* The pending check reads what is pending for this process.
LEMMA RecoverInv == ASSUME IInv, Recover PROVE IInv'
<1>1. /\ batch' \subseteq pel[me] /\ full' = batch' \ trimmed
      /\ attempts' = 0 /\ pc' = "rewrite"
      /\ UNCHANGED <<added, data, refused, trimmed, last, pel, me, buffer, available, connecting,
                     recorded, faults>>
  BY DEF Recover, stream, First
<1>2. batch' \in SUBSET Entry
  BY <1>1, BoundsAssumption DEF IInv, TypeOK, Entry
<1>3. TypeOK'
  BY <1>1, <1>2 DEF IInv, TypeOK, PC
<1>4. NoSilentLoss'
  BY <1>1 DEF IInv, NoSilentLoss, Pending
<1>5. HeldIsPending' /\ DownHoldsNothing' /\ FullUnlessTrimmed' /\ AckIsSafe'
  BY <1>1 DEF IInv, HeldIsPending, DownHoldsNothing, FullUnlessTrimmed, AckIsSafe, Writing
<1> QED
  BY <1>3, <1>4, <1>5 DEF IInv

LEMMA NextInv == ASSUME IInv, [Next]_vars PROVE IInv'
<1> USE DEF stream
<1>0. /\ pc \in PC /\ attempts \in Nat /\ available \in BOOLEAN
      /\ connecting \in Nat /\ faults \in 0..MaxFaults
      /\ connecting > 0 => connecting - 1 \in Nat
      /\ faults < MaxFaults => faults + 1 \in 0..MaxFaults
  BY BoundsAssumption DEF IInv, TypeOK
<1>1. CASE Add
  BY <1>1, AddInv
<1>2. CASE Trim
  BY <1>2, TrimInv
<1>3. CASE \E c \in Consumer : Start(c)
  BY <1>3, StartInv
<1>4. CASE HealthCheckFails
  <2>1. /\ UNCHANGED <<added, data, refused, trimmed, last, pel, me, buffer, recorded>>
        /\ UNCHANGED <<batch, full, pc>>
        /\ attempts' = attempts /\ available' = FALSE
        /\ connecting' = connecting + 1 /\ faults' \in 0..MaxFaults
    BY <1>0, <1>4 DEF HealthCheckFails
  <2>2. attempts' \in Nat /\ connecting' \in Nat /\ pc' \in PC
    BY <1>0, <2>1
  <2>3. available' \in BOOLEAN
    BY <2>1, Zenon
  <2> QED
    BY <2>1, <2>2, <2>3, QuietInv, Zenon
<1>5. CASE Reconnect
  BY <1>0, <1>5, QuietInv DEF Reconnect
<1>6. CASE Connected
  BY <1>0, <1>6, QuietInv DEF Connected
<1>7. CASE ConnectFails
  BY <1>0, <1>7, QuietInv DEF ConnectFails
<1>8. CASE ReadNew
  BY <1>8, ReadNewInv
<1>9. CASE ReadLost
  BY <1>9, ReadLostInv
<1>10. CASE WriteUnavailable
  <2>1. AfterWrite \in PC
    BY DEF AfterWrite, PC
  <2> QED
    BY <1>0, <1>10, <2>1, QuietInv DEF WriteUnavailable
<1>11. CASE WriteCommit
  BY <1>11, WriteCommitInv
<1>12. CASE WriteFail
  BY <1>0, <1>12, AttemptMoves DEF WriteFail
<1>13. CASE Ack
  <2>1. /\ pc \in {"ack", "reack"} /\ pc' \in {"recover", "loop"}
        /\ batch' = {} /\ full' = {} /\ faults' = faults
        /\ pel' = [pel EXCEPT ![me] = @ \ batch]
        /\ UNCHANGED <<added, data, refused, trimmed, last, me, buffer, attempts, available,
                       connecting, recorded>>
    BY <1>13 DEF Ack
  <2> QED
    BY <1>0, <2>1, AckMoves
<1>14. CASE AckFail
  <2>1. /\ pc \in {"ack", "reack"} /\ pc' \in {"recover", "loop"}
        /\ batch' = {} /\ full' = {} /\ faults' \in 0..MaxFaults
        /\ pel' \in {pel, [pel EXCEPT ![me] = @ \ batch]}
        /\ UNCHANGED <<added, data, refused, trimmed, last, me, buffer, attempts, available,
                       connecting, recorded>>
    BY <1>0, <1>14 DEF AckFail
  <2> QED
    BY <2>1, AckMoves
<1>15. CASE SkipRecovery
  <2>1. TypeOK' /\ NoSilentLoss' /\ HeldIsPending'
    BY <1>15 DEF SkipRecovery, IInv, TypeOK, NoSilentLoss, Pending, HeldIsPending, PC
  <2>2. DownHoldsNothing' /\ FullUnlessTrimmed' /\ AckIsSafe'
    BY <1>15 DEF SkipRecovery, DownHoldsNothing, FullUnlessTrimmed, AckIsSafe, Writing
  <2> QED
    BY <2>1, <2>2 DEF IInv
<1>16. CASE Recover
  BY <1>16, RecoverInv
<1>17. CASE Crash
  <2>1. buffer' = buffer
    BY <1>17 DEF Crash, IInv, HeldIsPending
  <2>2. pc' \in PC
    BY <1>17 DEF Crash, PC
  <2> QED
    BY <1>0, <1>17, <2>1, <2>2, QuietInv DEF Crash
<1>18. CASE WriteRefused
  BY <1>0, <1>18, AttemptMoves DEF WriteRefused
<1>19. CASE UNCHANGED vars
  BY <1>0, <1>19, QuietInv DEF vars
<1> QED
  BY <1>1, <1>2, <1>3, <1>4, <1>5, <1>6, <1>7, <1>8, <1>9, <1>10, <1>11, <1>12,
     <1>13, <1>14, <1>15, <1>16, <1>17, <1>18, <1>19 DEF Next, Writer

----------------------------------------------------------------------------
(* Theorems.                                                                *)

\* The strengthening holds in every reachable state.
THEOREM Invariance == Spec => []IInv
<1>1. Init => IInv
  BY InitInv
<1>2. IInv /\ [Next]_vars => IInv'
  BY NextInv
<1> QED
  BY <1>1, <1>2, PTL DEF Spec

\* The variables keep their types; the pending lists name delivered entries only.
THEOREM TypeCorrect == Spec => []TypeOK
<1>1. IInv => TypeOK
  BY DEF IInv
<1> QED
  BY <1>1, Invariance, PTL

\* No crash, lost reply, failed write or failed XACK of the db-writer makes the
\* consumer group forget an event that was delivered and never written.
THEOREM NothingLostSilently == Spec => []NoSilentLoss
<1>1. IInv => NoSilentLoss
  BY DEF IInv
<1> QED
  BY <1>1, Invariance, PTL

\* What write_batch works on is pending under the process's own name, and the
\* WriteBuffer never keeps an entry between two turns of the loop.
THEOREM HeldStaysPending == Spec => []HeldIsPending
<1>1. IInv => HeldIsPending
  BY DEF IInv
<1> QED
  BY <1>1, Invariance, PTL
=============================================================================
