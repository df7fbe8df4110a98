---------------------------- MODULE MCCrowdRisk ----------------------------
(* Two instances that lead in any order.                                    *)
EXTENDS CrowdRisk, TLC

CONSTANTS a, b

TwoInstances == {a, b}
Instances == Permutations(TwoInstances)
=============================================================================
