-------------------------- MODULE MCRecordReplicas -------------------------
(* Two instances.  Two lost persons meet the list bounds under overlapping  *)
(* requests and a fault; an SOS alert or an issue is followed through its   *)
(* life.  Each write to Postgres may be refused, and each creation event    *)
(* written late, again or never.                                            *)
EXTENDS RecordReplicas, TLC

CONSTANTS api1, api2, q1, q2, v1

TwoLost == [k \in Kind |-> IF k = "lost" THEN 2 ELSE 1]

\* What can still be seen of a state.  Only a Boot reads Postgres, and once no instance
\* can stop any more and none is down, there is no Boot to come.  Of the unsaved records
\* a Boot adds those to the disturbed ones that are not among them.
BootToCome == up # Instance \/ faults < MaxFaults
View == <<up, sub, list, index, mem, inbox, req, kind, nextId, begun, faults, disturbed,
          IF BootToCome THEN <<pg, stream, unsaved \ disturbed>> ELSE << >> >>

Symmetry == Permutations(Request) \cup Permutations(Instance)
=============================================================================
