---------------------------- MODULE BoundedGroups --------------------------
(* What a connection manager promises about membership: a client joins one  *)
(* group at most once, no group exceeds its bound, and who left stays out.  *)
EXTENDS Naturals, FiniteSets

CONSTANTS Client,   \* the clients
          Group,    \* the groups
          Max,      \* members a group may have
          Outside,  \* group of a client that has not joined
          Left      \* group of a client that has left or was turned away

VARIABLE group

Members(g) == {c \in Client : group[c] = g}

Init == group = [c \in Client |-> Outside]

Join(c, g) ==
    /\ group[c] = Outside
    /\ Cardinality(Members(g)) < Max
    /\ group' = [group EXCEPT ![c] = g]

TurnAway(c, g) ==
    /\ group[c] = Outside
    /\ Cardinality(Members(g)) >= Max
    /\ group' = [group EXCEPT ![c] = Left]

\* Several members may be dropped at once.
Leave(cs) ==
    /\ \A c \in cs : group[c] \in Group
    /\ group' = [c \in Client |-> IF c \in cs THEN Left ELSE group[c]]

Next ==
    \/ \E c \in Client, g \in Group : Join(c, g) \/ TurnAway(c, g)
    \/ \E cs \in SUBSET Client : Leave(cs)

Spec == Init /\ [][Next]_group
=============================================================================
