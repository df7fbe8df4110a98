----------------------------- MODULE MCDbWriter ----------------------------
(* Three events through batches of two, two consumer names, two faults.     *)
EXTENDS DbWriter

CONSTANTS w1, w2

MCConsumer == {w1, w2}
=============================================================================
