--------------------------- MODULE MCDiagnostics ---------------------------
(* Instances of Diagnostics for TLC: two tasks of one backend and one of   *)
(* another emit three events, among them a chunk, an error and a warning.  *)
EXTENDS Diagnostics

CONSTANTS t1, t2, t3, b1, b2, p1, p2

MCTask       == {t1, t2, t3}
MCBackend    == {b1, b2}
MCDrives     == [t \in MCTask |-> IF t = t3 THEN b2 ELSE b1]
MCController == [b \in MCBackend |-> b]
MCSpec802    == {[radio |-> "802.15.1", port_auth |-> "n/a"]}
MCHappening  ==
  {[peer |-> p1, kind |-> "data-chunk", bytes |-> 2],
   [peer |-> p2, kind |-> "error", bytes |-> 0],
   [peer |-> p1, kind |-> "warning", bytes |-> 0]}
MCInstants   == {0, 1}
=============================================================================
