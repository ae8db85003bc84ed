--------------------------- MODULE MCInboundWindow ---------------------------
(***************************************************************************)
(* An instance of InboundWindow for TLC, with two polls to a second: c1's  *)
(* window is a second and a half and stops at one device, c2's is under a  *)
(* second and has no limit.  Both peers may pair while c1 sleeps, and p1   *)
(* may pair twice.  Any of c1's D-Bus calls but the best-effort timeouts   *)
(* may fail, and its caller may drop it; c2 fares well.                    *)
(***************************************************************************)
EXTENDS InboundWindow

CONSTANTS c1, c2, p1, p2

MCCaller == {c1, c2}
MCPeer   == {p1, p2}
MCWindow == [c \in Caller |-> IF c = c1 THEN 3 ELSE 1]
MCMax    == [c \in Caller |-> IF c = c1 THEN 1 ELSE Never]
MCFrail  == [c \in Caller |-> IF c = c1 THEN {"register", "on", "off"} ELSE {}]
MCTries  == [p \in Peer |-> IF p = p1 THEN 2 ELSE 1]
=============================================================================
