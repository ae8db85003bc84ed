--------------------------- MODULE MCLocalAddress ---------------------------
(* Instances of LocalAddress for TLC. *)
EXTENDS LocalAddress

CONSTANTS c1, c2, a1, factory, nospoof, opening

MCCall    == {c1, c2}
MCAddress == {a1, factory}
=============================================================================
