-------------------------- MODULE MCAdmissionGate --------------------------
(* A gate of two permits and two wait slots under five requests: enough for *)
(* a spare permit to meet two queued requests while a third is woken.       *)
EXTENDS AdmissionGate

CONSTANTS r1, r2, r3, r4, r5

MCRequest == {r1, r2, r3, r4, r5}
=============================================================================
