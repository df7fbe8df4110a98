------------------------ MODULE MCVolunteerRegistry ------------------------
(* Two instances; two volunteers created with one username, and two changes *)
(* of either.                                                               *)
EXTENDS VolunteerRegistry, TLC

CONSTANTS a, b, v1, v2, c1, c2, ravi

OneName == [v \in Volunteer |-> ravi]
Symmetry == Permutations(Instance) \cup Permutations(Volunteer)
=============================================================================
