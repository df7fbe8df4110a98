----------------------------- MODULE MCWsFanout ----------------------------
(* Clients that share two buckets of one place each, and a broadcast of     *)
(* this instance or of another one, to any target.                          *)
EXTENDS WsFanout

CONSTANTS w1, w2, g1, e1

TwoClients == {w1, w2}
OneGhat == {g1}
OneEvent == {e1}
=============================================================================
