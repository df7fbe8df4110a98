----------------------------- MODULE MCWhatsApp ----------------------------
(* A message of a pilgrim, delivered up to twice, beside requests of the    *)
(* app from the same phone.                                                 *)
EXTENDS WhatsApp, TLC

CONSTANTS m1, a1, a2

Repeated == [m \in {m1} |-> 2]
=============================================================================
