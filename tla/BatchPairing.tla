---------------------------- MODULE BatchPairing ----------------------------
(***************************************************************************)
(* What the batch pairing workflow of pax-pairing promises its caller,     *)
(* without rounds, slots, prompts or completion order: every wanted device *)
(* is tried until a verdict is reached or a budget of backend calls is     *)
(* spent, a verdict is never revisited, and the batch closes only when     *)
(* nothing more may be tried.                                              *)
(***************************************************************************)
EXTENDS Naturals

CONSTANT Device     \* the devices that may be named in a batch

VARIABLES
  wanted,    \* the devices of this batch
  budget,    \* how many backend calls one device may cost
  spent,     \* spent[d]: backend calls made for d
  verdict,   \* verdict[d]: "open", or what was decided about d
  closed     \* the batch has returned to its caller

vars == <<wanted, budget, spent, verdict, closed>>

Verdicts == {"ok", "rejected", "not_found"}

Init ==
  /\ wanted \in SUBSET Device
  /\ budget \in Nat \ {0}
  /\ spent = [d \in Device |-> 0]
  /\ verdict = [d \in Device |-> "open"]
  /\ closed = FALSE

(* One more backend call for a device that is still open. *)
Call(d) ==
  /\ ~closed
  /\ d \in wanted
  /\ verdict[d] = "open"
  /\ spent[d] < budget
  /\ spent' = [spent EXCEPT ![d] = @ + 1]
  /\ UNCHANGED <<wanted, budget, verdict, closed>>

(* A call decided the device: bonded, refused, or unknown to the backend. *)
Decide(d, v) ==
  /\ ~closed
  /\ verdict[d] = "open"
  /\ spent[d] > 0
  /\ verdict' = [verdict EXCEPT ![d] = v]
  /\ UNCHANGED <<wanted, budget, spent, closed>>

(* Every wanted device has its verdict or has used its whole budget. *)
Close ==
  /\ ~closed
  /\ \A d \in wanted : verdict[d] # "open" \/ spent[d] = budget
  /\ closed' = TRUE
  /\ UNCHANGED <<wanted, budget, spent, verdict>>

(* The step before pairing (address spoof, scan) failed: nothing was tried. *)
Abandon ==
  /\ ~closed
  /\ \A d \in Device : spent[d] = 0
  /\ closed' = TRUE
  /\ UNCHANGED <<wanted, budget, spent, verdict>>

Next ==
  \/ \E d \in Device : Call(d)
  \/ \E d \in Device, v \in Verdicts : Decide(d, v)
  \/ Close
  \/ Abandon

Spec == Init /\ [][Next]_vars
=============================================================================
