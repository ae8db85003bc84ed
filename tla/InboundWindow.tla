---------------------------- MODULE InboundWindow ----------------------------
(***************************************************************************)
(* BlueZ's accept_pairings: a call registers an agent, makes the adapter   *)
(* pairable and discoverable, sleeps in polls until its window is over or  *)
(* enough devices were authorised, switches both off again and returns the *)
(* devices its agent authorised.                                           *)
(*                                                                         *)
(* Meanwhile peers pair (the agent's callbacks run beside the call), the   *)
(* adapter's own timers switch it back, D-Bus calls fail, and the caller   *)
(* may drop the future at any await.  Several calls may share the adapter. *)
(* Time is counted in polls of the call's loop.                            *)
(***************************************************************************)
EXTENDS Integers, Sequences, FiniteSets, Functions

CONSTANTS
  Caller,          \* tasks, each making one call
  Peer,            \* remote devices
  Window,          \* Window[c]: how long the call stays open, in polls
  MaxDevices,             \* MaxDevices[c]: its max_devices, or Never
  Never,           \* no limit
  PollsPerSecond,  \* polls in a second, the unit of the adapter's timers
  Fallible,        \* Fallible[c]: which of its D-Bus calls may fail
  SlowBus,         \* whether a D-Bus call may take a poll's time or longer
  MayDrop,         \* the callers that may drop their call
  MaxTries         \* MaxTries[p]: bound on the pairings p attempts

ASSUME WindowAssumption ==
  /\ Window \in [Caller -> Nat]
  /\ \A c \in Caller : MaxDevices[c] \in Nat \union {Never}
  /\ PollsPerSecond \in Nat \ {0}
  /\ Fallible \in [Caller -> SUBSET {"register", "timeout", "on", "off"}]
  /\ SlowBus \in BOOLEAN /\ MayDrop \subseteq Caller
  /\ MaxTries \in [Peer -> Nat]

(* What a call switches on and off again. *)
Switches == {"pairable", "discoverable"}
NoOne    == "nobody"

VARIABLES
  pc,       \* pc[c]: the await the call is at
  left,     \* left[c]: polls to the deadline
  awake,    \* the callers whose sleep in the loop is over
  bonded,   \* bonded[c]: BondedSet, the devices c's agent authorised
  result,   \* result[c]: what the call returned
  overrun,  \* overrun[c]: polls it stayed open with its limit reached (history)
  agents,   \* the registered agents, the default one last
  on,       \* the adapter's switches that are on
  timeout,  \* timeout[s]: the adapter's timeout for s, in polls, 0 for none
  timer,    \* timer[s]: polls until s reverts, 0 when it will not
  prompt,   \* prompt[p]: the caller whose agent is asked about p, or NoOne
  link,     \* link[p]: "away", "asked", "granted" or "bonded"
  tries     \* tries[p]: pairings p has attempted

call  == <<pc, left, awake, result, overrun>>
peers == <<prompt, link, tries>>
adapter == <<on, timeout, timer>>
vars  == <<call, bonded, agents, adapter, peers>>

Init ==
  /\ pc = [c \in Caller |-> "register"]
  /\ left = [c \in Caller |-> 0]
  /\ awake = {}
  /\ bonded = [c \in Caller |-> {}]
  /\ result = [c \in Caller |-> {}]
  /\ overrun = [c \in Caller |-> 0]
  /\ agents = <<>>
  /\ on = {}
  /\ timeout = [s \in Switches |-> 0]
  /\ timer = [s \in Switches |-> 0]
  /\ prompt = [p \in Peer |-> NoOne]
  /\ link = [p \in Peer |-> "away"]
  /\ tries = [p \in Peer |-> 0]

-----------------------------------------------------------------------------
(* The call. *)

At(c, here) == pc[c] = here
Goto(c, there) ==
  /\ pc' = [pc EXCEPT ![c] = there]
  /\ UNCHANGED <<left, awake, result, overrun>>

(* The agents but c's; a call registers one agent. *)
Without(c) ==
  IF c \in Range(agents)
  THEN LET i == CHOOSE i \in DOMAIN agents : agents[i] = c
       IN  SubSeq(agents, 1, i - 1) \o SubSeq(agents, i + 1, Len(agents))
  ELSE agents

(* The call is over and its agent handle dropped: BlueZ cancels what that  *)
(* agent was being asked, and the previous agent is the default again.     *)
Leave(c, how) ==
  /\ Goto(c, how)
  /\ agents' = Without(c)
  /\ prompt' = [p \in Peer |-> IF prompt[p] = c THEN NoOne ELSE prompt[p]]
  /\ link' = [p \in Peer |-> IF prompt[p] = c THEN "away" ELSE link[p]]
  /\ UNCHANGED <<bonded, tries>>

Register(c) ==
  /\ At(c, "register")
  /\ Goto(c, "pairable_timeout")
  /\ agents' = Append(agents, c)
  /\ UNCHANGED <<bonded, adapter, peers>>

(* A switched-on adapter restarts its timer; a timeout of 0 is for ever.   *)
SwitchOn(s) ==
  /\ on' = on \union {s}
  /\ timer' = [timer EXCEPT ![s] = timeout[s]]
  /\ UNCHANGED timeout

SwitchOff(s) ==
  /\ on' = on \ {s}
  /\ timer' = [timer EXCEPT ![s] = 0]
  /\ UNCHANGED timeout

SecondsRoundedDown(c) == Window[c] \div PollsPerSecond

(* Whole seconds of the window, at least one. *)
Seconds(c) ==
  LET s == Window[c] \div PollsPerSecond IN IF s < 1 THEN 1 ELSE s

(* Best-effort: a failure is ignored. *)
SetTimeout(c, s) ==
  LET polls == Seconds(c) * PollsPerSecond
  IN  \/ /\ timeout' = [timeout EXCEPT ![s] = polls]
         /\ timer' = [timer EXCEPT ![s] = IF s \in on THEN polls ELSE 0]
         /\ UNCHANGED on
      \/ "timeout" \in Fallible[c] /\ UNCHANGED adapter

(* The adapter's own timeouts, "so the adapter auto-reverts even if we     *)
(* die"; then its switches.                                                *)
Prepare(c) ==
  /\ \/ /\ At(c, "pairable_timeout")     /\ SetTimeout(c, "pairable")
        /\ Goto(c, "discoverable_timeout")
     \/ /\ At(c, "discoverable_timeout") /\ SetTimeout(c, "discoverable")
        /\ Goto(c, "pairable_on")
     \/ /\ At(c, "pairable_on")          /\ SwitchOn("pairable")
        /\ Goto(c, "discoverable_on")
  /\ UNCHANGED <<bonded, agents, peers>>

Open(c) ==
  /\ At(c, "discoverable_on")
  /\ SwitchOn("discoverable")
  /\ pc' = [pc EXCEPT ![c] = "open"]
  /\ left' = [left EXCEPT ![c] = Window[c]]
  /\ awake' = awake \union {c}
  /\ UNCHANGED <<result, overrun, bonded, agents, peers>>

(* set_pairable(true)? or set_discoverable(true)? or the registration      *)
(* fails: the call returns the error at once.                              *)
Fails(c) ==
  /\ \/ At(c, "register") /\ "register" \in Fallible[c]
     \/ pc[c] \in {"pairable_on", "discoverable_on"} /\ "on" \in Fallible[c]
  /\ Leave(c, "failed")
  /\ UNCHANGED adapter

Full(c) == IF MaxDevices[c] = Never THEN FALSE ELSE Cardinality(bonded[c]) >= MaxDevices[c]

PollUntilFull(c) ==
  /\ At(c, "open") /\ c \in awake
  /\ IF Full(c)
       THEN pc' = [pc EXCEPT ![c] = "discoverable_off"] ELSE UNCHANGED pc
  /\ awake' = awake \ {c}
  /\ UNCHANGED <<left, result, overrun, bonded, agents, adapter, peers>>

PollWhenExactly(c) ==
  /\ At(c, "open") /\ c \in awake
  /\ IF Cardinality(bonded[c]) = MaxDevices[c] \/ left[c] = 0
       THEN pc' = [pc EXCEPT ![c] = "discoverable_off"] ELSE UNCHANGED pc
  /\ awake' = awake \ {c}
  /\ UNCHANGED <<left, result, overrun, bonded, agents, adapter, peers>>

(* One turn of the loop: stop, or sleep for another poll. *)
Poll(c) ==
  /\ At(c, "open") /\ c \in awake
  /\ IF Full(c) \/ left[c] = 0
       THEN pc' = [pc EXCEPT ![c] = "discoverable_off"] ELSE UNCHANGED pc
  /\ awake' = awake \ {c}
  /\ UNCHANGED <<left, result, overrun, bonded, agents, adapter, peers>>

(* Best-effort: a failure to switch off is ignored. *)
Close(c) ==
  /\ \/ /\ At(c, "discoverable_off") /\ Goto(c, "pairable_off")
        /\ \/ SwitchOff("discoverable")
           \/ "off" \in Fallible[c] /\ UNCHANGED adapter
     \/ /\ At(c, "pairable_off") /\ Goto(c, "collect")
        /\ \/ SwitchOff("pairable")
           \/ "off" \in Fallible[c] /\ UNCHANGED adapter
  /\ UNCHANGED <<bonded, agents, peers>>

(* The authorised devices are copied out; the agent lives until the return. *)
Collect(c) ==
  /\ At(c, "collect")
  /\ pc' = [pc EXCEPT ![c] = "return"]
  /\ result' = [result EXCEPT ![c] = bonded[c]]
  /\ UNCHANGED <<left, awake, overrun, bonded, agents, adapter, peers>>

Return(c) ==
  /\ At(c, "return")
  /\ Leave(c, "returned")
  /\ UNCHANGED adapter

Over == {"returned", "failed", "dropped"}

(* The caller drops the future, at any await after the first. *)
Drop(c) ==
  /\ c \in MayDrop
  /\ pc[c] \notin Over \union {"register", "collect", "return"}
  /\ Leave(c, "dropped")
  /\ UNCHANGED adapter

-----------------------------------------------------------------------------
(* The peers and the agent's callbacks. *)

(* A peer starts pairing; BlueZ asks the default agent. *)
Ask(p) ==
  /\ link[p] = "away"
  /\ tries[p] < MaxTries[p]
  /\ "pairable" \in on
  /\ agents # <<>>
  /\ link' = [link EXCEPT ![p] = "asked"]
  /\ prompt' = [prompt EXCEPT ![p] = agents[Len(agents)]]
  /\ tries' = [tries EXCEPT ![p] = @ + 1]
  /\ UNCHANGED <<call, bonded, agents, adapter>>

GrantShared(p) ==
  /\ link[p] = "asked"
  /\ link' = [link EXCEPT ![p] = "granted"]
  /\ bonded' = [c \in Caller |->
       IF c \in Range(agents) THEN bonded[c] \union {p} ELSE bonded[c]]
  /\ prompt' = [prompt EXCEPT ![p] = NoOne]
  /\ UNCHANGED <<call, agents, adapter, tries>>

(* The agent's reply fits the prompt: the device is recorded at once. *)
Grant(p) ==
  /\ link[p] = "asked"
  /\ link' = [link EXCEPT ![p] = "granted"]
  /\ bonded' = [bonded EXCEPT ![prompt[p]] = @ \union {p}]
  /\ prompt' = [prompt EXCEPT ![p] = NoOne]
  /\ UNCHANGED <<call, agents, adapter, tries>>

(* Any other reply cancels or rejects it. *)
Refuse(p) ==
  /\ link[p] = "asked"
  /\ link' = [link EXCEPT ![p] = "away"]
  /\ prompt' = [prompt EXCEPT ![p] = NoOne]
  /\ UNCHANGED <<call, bonded, agents, adapter, tries>>

(* The pairing goes on over the air, and completes or does not. *)
Settle(p) ==
  /\ link[p] = "granted"
  /\ link' \in {[link EXCEPT ![p] = "bonded"], [link EXCEPT ![p] = "away"]}
  /\ UNCHANGED <<call, bonded, agents, adapter, prompt, tries>>

-----------------------------------------------------------------------------
(* saturating_duration_since; the adapter counts down alike. *)
Remaining(n) == IF n > 0 THEN n - 1 ELSE 0

(* A poll's time passes: sleeping calls wake, the adapter's timers run.    *)
(* A task that is awake runs at once.                                      *)
Tick ==
  /\ \/ \E c \in Caller : At(c, "open")
     \/ \E s \in Switches : timer[s] > 0
  /\ \A c \in Caller : ~(At(c, "open") /\ c \in awake)
  /\ SlowBus \/ \A c \in Caller : pc[c] \in Over \union {"register", "open"}
  /\ left' = [c \in Caller |-> Remaining(left[c])]
  /\ awake' = {c \in Caller : At(c, "open")}
  /\ overrun' = [c \in Caller |->
       IF At(c, "open") /\ Full(c) THEN overrun[c] + 1 ELSE overrun[c]]
  /\ timer' = [s \in Switches |-> Remaining(timer[s])]
  /\ on' = on \ {s \in Switches : timer[s] = 1}
  /\ UNCHANGED timeout
  /\ UNCHANGED <<pc, result, bonded, agents, peers>>

Moves(c) ==
  \/ Register(c) \/ Prepare(c) \/ Open(c) \/ Fails(c) \/ Poll(c)
  \/ Close(c) \/ Collect(c) \/ Return(c)

Next ==
  \/ \E c \in Caller : Moves(c) \/ Drop(c)
  \/ \E p \in Peer : Ask(p) \/ Grant(p) \/ Refuse(p) \/ Settle(p)
  \/ Tick

Spec == Init /\ [][Next]_vars

(* Time passes, and D-Bus calls return; nothing is asked of the peers, the *)
(* agent or the caller.                                                    *)
FairSpec ==
  Spec /\ WF_vars(Tick) /\ \A c \in Caller : WF_vars(Moves(c))

-----------------------------------------------------------------------------
(* Properties. *)

Places == Over \union
  {"register", "pairable_timeout", "discoverable_timeout", "pairable_on",
   "discoverable_on", "open", "discoverable_off", "pairable_off", "collect",
   "return"}

TypeOK ==
  /\ pc \in [Caller -> Places]
  /\ left \in [Caller -> Nat]
  /\ awake \in SUBSET Caller
  /\ bonded \in [Caller -> SUBSET Peer]
  /\ result \in [Caller -> SUBSET Peer]
  /\ overrun \in [Caller -> Nat]
  /\ agents \in Seq(Caller)
  /\ on \in SUBSET Switches
  /\ timeout \in [Switches -> Nat]
  /\ timer \in [Switches -> Nat]
  /\ prompt \in [Peer -> Caller \union {NoOne}]
  /\ link \in [Peer -> {"away", "asked", "granted", "bonded"}]
  /\ \A p \in Peer : link[p] = "asked" => prompt[p] \in Caller
  /\ tries \in [Peer -> Nat]

(* A call that has reached its max_devices stays open for at most the poll *)
(* it is sleeping through, however many devices pair in that time.         *)
StopsAtLimit == \A c \in Caller : overrun[c] <= 1

(* Whatever else fails and whoever drops a call, an adapter whose timeouts *)
(* could be set does not stay visible or pairable for ever: it             *)
(* "auto-reverts even if we die".                                          *)
Reverts == <>[](on = {})

(* Every call ends by itself, whatever the peers and the agent do.         *)
CallsEnd == <>(\A c \in Caller : pc[c] \in Over)

(* A device that two overlapping calls both report has paired twice: each  *)
(* authorisation counts for the call whose agent gave it, and no other.    *)
EachBondReportedOnce ==
  \A c, d \in Caller : c # d =>
    \A p \in result[c] \intersect result[d] : tries[p] > 1

(* accept_pairings "restores discoverable/pairable off on exit": once all  *)
(* calls are over, both are off; refuted.                                  *)
RestoredOnExit ==
  (\A c \in Caller : pc[c] \in {"returned", "failed"}) =>
    on = {}

(* accept_pairings "returns the devices that bonded"; refuted.             *)
ReturnedHaveBonded ==
  \A c \in Caller : pc[c] = "returned" =>
    \A p \in result[c] : link[p] = "bonded"
=============================================================================
