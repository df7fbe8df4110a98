---------------------------- MODULE BoundedGate ----------------------------
(* What an admission gate promises, without saying how: a request is out,   *)
(* owns one of MaxConcurrent permits, or has had its answer.  A permit may  *)
(* pass from one request to the next in a single step, and a request may    *)
(* hand a permit back unused (it was granted as its timer ran out).         *)
(* AdmissionGate implements this specification.                             *)
EXTENDS Naturals, FiniteSets

CONSTANTS Request,       \* the requests that may arrive
          MaxConcurrent  \* the number of permits

VARIABLE status          \* Request -> "out" | "inside" | "served" | "refused"

Inside == {r \in Request : status[r] = "inside"}

Bounded == Cardinality(Inside) <= MaxConcurrent

Init == status = [r \in Request |-> "out"]

Admit(r) ==
    /\ status[r] = "out"
    /\ Cardinality(Inside) < MaxConcurrent
    /\ status' = [status EXCEPT ![r] = "inside"]

\* A request gives its permit up, with its answer ("served") or without ("out").
GiveUp(r, s) ==
    /\ status[r] = "inside"
    /\ status' = [status EXCEPT ![r] = s]

\* The permit r gives up goes straight to w.
HandOver(r, s, w) ==
    /\ status[r] = "inside"
    /\ status[w] = "out"
    /\ r # w
    /\ status' = [status EXCEPT ![r] = s, ![w] = "inside"]

Refuse(r) ==
    /\ status[r] = "out"
    /\ status' = [status EXCEPT ![r] = "refused"]

Next ==
    \E r \in Request :
        \/ Admit(r)
        \/ Refuse(r)
        \/ \E s \in {"served", "out"} :
              GiveUp(r, s) \/ \E w \in Request : HandOver(r, s, w)

Spec == Init /\ [][Next]_status
=============================================================================
