--------------------------- MODULE MCCrowdControl --------------------------
(* Two instances with the real order of the durations: a sleep is shorter   *)
(* than the life of the key, and a round may be late.                       *)
EXTENDS CrowdControl, TLC

CONSTANTS api1, api2, u1, low, high

Symmetry == Permutations(Instance)
=============================================================================
