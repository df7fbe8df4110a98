--------------------------- MODULE MCRecordCache ---------------------------
(* Two instances whose readers race two changes of a list through outages   *)
(* and expiring locks.                                                      *)
EXTENDS RecordCache, TLC

CONSTANTS api1, api2, r1, r2, c1, c2

Symmetry == Permutations(Instance) \cup Permutations(Reader) \cup Permutations(Change)
=============================================================================
