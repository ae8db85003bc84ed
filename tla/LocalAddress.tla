---------------------------- MODULE LocalAddress ----------------------------
(***************************************************************************)
(* Changing the adapter's own address, and what is done under it.          *)
(*                                                                         *)
(* Calls of discover_as, connect_as and connect_default run at once over   *)
(* one BlueZ adapter.  A spoof powers the controller off, sets its address *)
(* and powers it on again, each by a command on a management socket of its *)
(* own.  A command's answer is looked for among a few events only, and     *)
(* each of them is waited for a short while: the kernel may carry out a    *)
(* command whose caller has given up.  The kernel and bluetoothd, which    *)
(* may put the controller's own address back whenever it manages the       *)
(* adapter, are modelled from how the code uses them and what it says of   *)
(* them.                                                                   *)
(***************************************************************************)
EXTENDS Naturals, Sequences

CONSTANTS
  Call,      \* the calls
  Address,   \* the addresses callers ask for, its own perhaps among them
  Factory,   \* the controller's own address
  NoSpoof,   \* a call that asks for none
  Opening,   \* a call of connect_default
  Reads,     \* how many events are read for one answer
  Crowd      \* bound: other events waiting in a socket

ASSUME AddressAssumption ==
  /\ NoSpoof \notin Address /\ Opening \notin Address
  /\ NoSpoof # Opening
  /\ Reads \in Nat \ {0} /\ Crowd \in Nat

VARIABLES
  wish,       \* wish[c]: the address c asks for, NoSpoof or Opening
  support,    \* what the backend can do: "none", "noindex" or "full"
  pc,         \* pc[c]: the step the call is at
  waiting,    \* the calls that have sent a command and read its socket
  left,       \* left[c]: events c may still read for this answer
  inbox,      \* inbox[c]: events in c's socket
  pending,    \* commands the kernel has not carried out yet
  powered,    \* the controller is "on" or "off"
  address,    \* the address the controller presents
  dropped,    \* calls whose future was dropped while their thread goes on
  disturbed,  \* calls during which another's command took effect, or bluetoothd's
  exposed     \* calls since whose own change the controller's address was put back

kernel == <<pending, powered, address, disturbed, exposed>>
vars   == <<wish, support, pc, waiting, left, inbox, kernel, dropped>>

Steps    == {"off", "address", "on"}
Commands == Steps \cup {"info"}
Over     == {"done", "failed", "dropped"}

Init ==
  /\ wish \in [Call -> Address \cup {NoSpoof, Opening}]
  /\ support \in {"none", "noindex", "full"}
  /\ pc = [c \in Call |-> "idle"]
  /\ waiting = {} /\ dropped = {} /\ disturbed = {} /\ exposed = {} /\ pending = {}
  /\ left = [c \in Call |-> 0]
  /\ inbox = [c \in Call |-> <<>>]
  /\ powered = "on" /\ address \in Address \cup {Factory}

At(c, here) == pc[c] = here
Goto(c, there) == pc' = [pc EXCEPT ![c] = there]

-----------------------------------------------------------------------------
(* The calls. *)

(* The capability is not consulted, and neither is set_local_address. *)
BeginUnchecked(c) ==
  /\ At(c, "idle")
  /\ \/ wish[c] = NoSpoof /\ Goto(c, "operate")
     \/ wish[c] = Opening /\ Goto(c, "powerup")
     \/ wish[c] \in Address /\ Goto(c, IF support = "full" THEN "off" ELSE "operate")
  /\ UNCHANGED <<wish, support, waiting, left, inbox, kernel, dropped>>

(* apply_spoof: nothing to do, a refusal by a backend that cannot, or      *)
(* set_local_address, which needs the controller's index.                  *)
Begin(c) ==
  /\ At(c, "idle")
  /\ \/ wish[c] = NoSpoof /\ Goto(c, "operate")
     \/ wish[c] = Opening /\ Goto(c, "powerup")
     \/ wish[c] \in Address /\ support = "full" /\ Goto(c, "off")
     \/ wish[c] \in Address /\ support # "full" /\ Goto(c, "failed")
  /\ UNCHANGED <<wish, support, waiting, left, inbox, kernel, dropped>>

(* A socket is opened, and the command framed and written to it. *)
Send(c) ==
  /\ pc[c] \in Commands /\ c \notin waiting
  /\ waiting' = waiting \cup {c}
  /\ left' = [left EXCEPT ![c] = Reads]
  /\ pending' = pending \cup {<<c, pc[c]>>}
  /\ UNCHANGED <<wish, support, pc, inbox, powered, address, disturbed, exposed,
                 dropped>>

(* FdGuard: the socket is closed with what is left in it. *)
Close(c) ==
  /\ waiting' = waiting \ {c}
  /\ left' = [left EXCEPT ![c] = 0]
  /\ inbox' = [inbox EXCEPT ![c] = <<>>]

(* An error ends a spoof; it leaves a call that only wanted to know the    *)
(* controller with its defaults.                                           *)
AfterError(c) == IF At(c, "info") THEN "done" ELSE "failed"

(* The power cycle ends with the address set. *)
AfterSuccessUnpowered(c, step) ==
  CASE step = "off"     -> "address"
    [] step = "address" -> "done"
    [] step = "on"      -> "resume"

(* The step after `step` was answered with success. *)
AfterSuccess(c, step) ==
  CASE step = "off"     -> "address"
    [] step = "address" -> "on"
    [] step = "on"      -> IF c \in dropped THEN "dropped" ELSE "resume"

StepFails(c) ==
  /\ Goto(c, AfterError(c))
  /\ Close(c)
  /\ UNCHANGED <<wish, support, kernel, dropped>>

SendFails(c) == pc[c] \in Commands /\ c \notin waiting /\ StepFails(c)

ReadTimesOut(c) == c \in waiting /\ inbox[c] = <<>> /\ StepFails(c)

(* An event that answers no command of this caller; the query after the    *)
(* controller takes no Command Status for an answer either.                *)
IsOther(c) ==
  /\ c \in waiting /\ inbox[c] # <<>>
  /\ Head(inbox[c]) = "other" \/ (At(c, "info") /\ Head(inbox[c]) = "refused")

(* Reading goes on until the answer comes. *)
ReadOtherForever(c) ==
  /\ IsOther(c)
  /\ inbox' = [inbox EXCEPT ![c] = Tail(@)]
  /\ UNCHANGED <<wish, support, pc, waiting, left, kernel, dropped>>

(* Such an event uses up one read. *)
ReadOther(c) ==
  /\ IsOther(c)
  /\ IF left[c] > 1
     THEN /\ left' = [left EXCEPT ![c] = @ - 1]
          /\ inbox' = [inbox EXCEPT ![c] = Tail(@)]
          /\ UNCHANGED <<wish, support, pc, waiting, kernel, dropped>>
     ELSE StepFails(c)

(* A command's status is not looked at. *)
ReadAnyAnswer(c) ==
  /\ pc[c] \in Steps /\ c \in waiting /\ inbox[c] # <<>> /\ Head(inbox[c]) # "other"
  /\ Goto(c, AfterSuccess(c, pc[c]))
  /\ Close(c)
  /\ UNCHANGED <<wish, support, kernel, dropped>>

(* run_command_inner: a command is answered with its status. *)
ReadAnswer(c) ==
  /\ pc[c] \in Steps /\ c \in waiting /\ inbox[c] # <<>>
  /\ \/ Head(inbox[c]) = "refused" /\ StepFails(c)
     \/ /\ Head(inbox[c]) = "ok"
        /\ Goto(c, AfterSuccess(c, pc[c]))
        /\ Close(c)
        /\ UNCHANGED <<wish, support, kernel, dropped>>

(* read_inner: with the information, or with nothing. *)
ReadInfo(c) ==
  /\ At(c, "info") /\ c \in waiting /\ inbox[c] # <<>> /\ Head(inbox[c]) # "other"
  /\ Goto(c, "done")
  /\ Close(c)
  /\ UNCHANGED <<wish, support, kernel, dropped>>

(* adapter.set_powered(true), answered by bluetoothd; an error may hide    *)
(* that the adapter came on.                                               *)
PowerUp(c) ==
  /\ pc[c] \in {"resume", "powerup"}
  /\ \/ /\ powered' = "on"
        /\ Goto(c, IF At(c, "resume") THEN "operate" ELSE "info")
     \/ powered' \in {powered, "on"} /\ Goto(c, "failed")
  /\ UNCHANGED <<wish, support, waiting, left, inbox, pending, address,
                 disturbed, exposed, dropped>>

(* discover or connect, under the address the controller presents now. *)
Operate(c) ==
  /\ At(c, "operate") /\ Goto(c, "done")
  /\ UNCHANGED <<wish, support, waiting, left, inbox, kernel, dropped>>

(* The caller leaves: the blocking thread goes on with the spoof. *)
Drop(c) ==
  /\ \/ /\ pc[c] \in {"resume", "powerup", "operate"}
        /\ Goto(c, "dropped") /\ UNCHANGED dropped
     \/ /\ pc[c] \in Steps /\ c \notin dropped
        /\ dropped' = dropped \cup {c} /\ UNCHANGED pc
  /\ UNCHANGED <<wish, support, waiting, left, inbox, kernel>>

-----------------------------------------------------------------------------
(* The kernel. *)

(* Only a controller that is off takes an address. *)
Takes(step) == step = "address" => powered = "off"

Running == {d \in Call : ~ At(d, "idle")}

TakeEffect(c, step) ==
  /\ powered' = IF step \in {"off", "on"} THEN step ELSE powered
  /\ address' = IF step = "address" THEN wish[c] ELSE address
  /\ disturbed' = IF step \in {"off", "address"}
                  THEN disturbed \cup (Running \ {c}) ELSE disturbed
  /\ exposed' = IF step = "address"
                THEN (exposed \cup (IF wish[c] = Factory THEN Running ELSE {})) \ {c}
                ELSE exposed

(* A command is carried out or refused, and answered if anyone still reads *)
(* the socket it came from.                                                *)
CarryOut(c, step) ==
  /\ <<c, step>> \in pending
  /\ pending' = pending \ {<<c, step>>}
  /\ \E answer \in {"ok", "refused"} :
       /\ \/ answer = "ok" /\ Takes(step) /\ TakeEffect(c, step)
          \/ answer = "refused" /\ UNCHANGED <<powered, address, disturbed, exposed>>
       /\ inbox' = IF c \in waiting /\ At(c, step)
                   THEN [inbox EXCEPT ![c] = Append(@, answer)] ELSE inbox
  /\ UNCHANGED <<wish, support, pc, waiting, left, dropped>>

(* Events for everyone: a device found, another program's settings, ... *)
Announce(c) ==
  /\ c \in waiting /\ Len(inbox[c]) < Crowd
  /\ inbox' = [inbox EXCEPT ![c] = Append(@, "other")]
  /\ UNCHANGED <<wish, support, pc, waiting, left, kernel, dropped>>

(* bluetoothd puts the controller's own address back.                      *)
Reassert ==
  /\ address' = Factory
  /\ disturbed' = disturbed \cup Running /\ exposed' = exposed \cup Running
  /\ UNCHANGED <<wish, support, pc, waiting, left, inbox, pending, powered, dropped>>

-----------------------------------------------------------------------------
Moves(c) ==
  \/ Begin(c) \/ Send(c) \/ SendFails(c) \/ ReadTimesOut(c) \/ ReadOther(c)
  \/ ReadAnswer(c) \/ ReadInfo(c) \/ PowerUp(c) \/ Operate(c)

Next ==
  \/ \E c \in Call :
       \/ Moves(c) \/ Drop(c) \/ Announce(c)
       \/ \E step \in Commands : CarryOut(c, step)
  \/ Reassert

Spec == Init /\ [][Next]_vars
FairSpec == Spec /\ \A c \in Call : WF_vars(Moves(c))

-----------------------------------------------------------------------------
(* What the checks say. *)

(* Every variable keeps its type. *)
TypeOK ==
  /\ wish \in [Call -> Address \cup {NoSpoof, Opening}]
  /\ support \in {"none", "noindex", "full"}
  /\ pc \in [Call -> Commands \cup Over \cup {"idle", "resume", "powerup", "operate"}]
  /\ waiting \subseteq Call /\ dropped \subseteq Call
  /\ disturbed \subseteq Call /\ exposed \subseteq Call
  /\ left \in [Call -> 0 .. Reads]
  /\ inbox \in [Call -> Seq({"other", "ok", "refused"})]
  /\ pending \subseteq Call \X Commands
  /\ powered \in {"on", "off"}
  /\ address \in Address \cup {Factory}

(* discover_as and connect_as given an address other than the              *)
(* controller's own never reach the air under its own, unless that was put *)
(* back after theirs was set, by bluetoothd or by a call that asked for    *)
(* it: whatever else other calls do, whatever is lost or late, and         *)
(* whatever the backend cannot do.                                         *)
NeverUnmasked ==
  \A c \in Call :
    At(c, "operate") /\ wish[c] \in Address \ {Factory} /\ c \notin exposed
      => address # Factory

(* A call during which the kernel carried out no other call's change and   *)
(* bluetoothd left the address alone operates under exactly the address it *)
(* asked for, on a controller that is on: no answer is mistaken for        *)
(* another's, and no error is passed over.                                 *)
AloneAsAsked ==
  \A c \in Call :
    At(c, "operate") /\ wish[c] \in Address /\ c \notin disturbed
      => address = wish[c] /\ powered = "on"

(* Stated by the contract of discover_as, "scan under it", and refuted: in *)
(* no run.  Another call, or bluetoothd, changes the address in between.   *)
ScansUnderSpoof ==
  \A c \in Call : At(c, "operate") /\ wish[c] \in Address => address = wish[c]

(* When everything has settled and the controller is off, a call that      *)
(* asked for an address has failed or lost its caller: spoofs that succeed *)
(* never leave the adapter dead, however they overlapped.                  *)
NeverSilentlyOff ==
  (pending = {} /\ \A c \in Call : pc[c] \in Over) /\ powered = "off"
    => \E c \in Call : wish[c] \in Address /\ pc[c] \in {"failed", "dropped"}

(* Every call ends, whatever the kernel answers and however many events of *)
(* others crowd its sockets.                                               *)
CallsEnd == \A c \in Call : <>(pc[c] \in Over)

=============================================================================
