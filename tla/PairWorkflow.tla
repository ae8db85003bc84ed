---------------------------- MODULE PairWorkflow ----------------------------
(***************************************************************************)
(* The retrying pairing workflow of pax-pairing: pair_device, pair_devices *)
(* and pair_discovered, driven over a backend that answers each pair call  *)
(* the way the mock, BlueZ, Android or btleplug backend does, with one of  *)
(* the agents of pax-pairing answering the prompts.                        *)
(*                                                                         *)
(* One behaviour is one call of the workflow.  A step runs from one await  *)
(* to the next: `trying` holds the pair_device futures suspended inside    *)
(* backend.pair, and they resume in any order.                             *)
(***************************************************************************)
EXTENDS Integers, Sequences, FiniteSets, Functions

CONSTANTS
  Device,      \* device ids a caller may name
  Known,       \* those the mock backend was scripted with
  Prompt,      \* Prompt[d]: the prompt d's association model raises
  Agent,       \* which agent answers: a key of Policy
  Requests,    \* the calls the caller may make
  U32Max       \* the largest u32 (retries is a u32)

Prompts == {"just_works", "numeric", "pin", "passkey", "display"}
Replies == {"yes", "no", "pin", "passkey", "ack", "cancel"}

Backends == {"mock", "bluez", "android", "btleplug"}

(* A call, the backend it is made on, and the devices bonded there already. *)
Request == [backend : Backends, entry : {"device", "batch", "discovered"}, targets : Seq(Device),
            auto : BOOLEAN, slots : Nat, rounds : Nat, retries : Nat,
            spoof : BOOLEAN, bonded : SUBSET Device]

ASSUME PairAssumption ==
  /\ IsFiniteSet(Device)
  /\ Known \subseteq Device
  /\ Prompt \in [Device -> Prompts]
  /\ Agent \in {"accept_all", "reject_all", "fixed_pin", "callback"}
  /\ U32Max \in Nat \ {0}
  /\ \A r \in Requests :
       /\ r \in Request
       /\ r.retries <= U32Max
       /\ r.entry = "device" => Len(r.targets) = 1 /\ r.rounds = 1

VARIABLES
  req,        \* the call being served
  pc,         \* where its task stands
  identity,   \* the adapter's address: "real" or "spoofed"
  order,      \* distinct targets, first seen first
  pending,    \* the devices of the current round
  next,       \* index in pending of the next device to launch
  requeue,    \* next_pending: those that failed transiently this round
  round,      \* rounds started
  trying,     \* trying[d]: number of the attempt in flight, 0 when none is
  outcome,    \* PairItem.outcome
  passes,     \* PairItem.attempts
  bonds,      \* the backend's bond store
  started,    \* devices whose bonding may go on though pair has returned
  calls,      \* calls[d]: backend.pair calls so far (history)
  refused     \* devices some prompt of which the agent refused (history)

flow == <<req, pc, identity, order, pending, next, requeue, round>>
vars == <<req, pc, identity, order, pending, next, requeue, round, trying,
          outcome, passes, bonds, started, calls, refused>>

-----------------------------------------------------------------------------
(* The agents. *)

(* The reply that grants each prompt. *)
Supply == [just_works |-> "yes", numeric |-> "yes", pin |-> "pin",
           passkey |-> "passkey", display |-> "ack"]

Policy ==
  [accept_all |-> [p \in Prompts |-> {Supply[p]}],
   reject_all |-> [p \in Prompts |->
                     {IF p \in {"just_works", "numeric"} THEN "no" ELSE "cancel"}],
   fixed_pin  |-> [p \in Prompts |->
                     {IF p = "passkey" THEN "cancel" ELSE Supply[p]}],
   callback   |-> [p \in Prompts |-> Replies]]

-----------------------------------------------------------------------------
(* The backends, as the workflow sees them. *)

Kind == req.backend

(* The mock's usize::MAX never limits a batch. *)
Capability == IF Kind = "mock" THEN Cardinality(Device) ELSE 1
CanSpoof   == Kind \in {"mock", "bluez"}

(* The mock refuses on Confirm(false) and Cancel only; the BlueZ agent     *)
(* bridge grants a prompt only for the one reply that fits it.             *)
Refuses(p, r) ==
  IF Kind = "mock" THEN r \in {"no", "cancel"} ELSE r # Supply[p]

(* A refusal is PairingRejected on the mock; BlueZ's pair turns every      *)
(* error of Device1.Pair, a refusal by the agent included, into            *)
(* PairingFailed.                                                          *)
RefusalAsFailure == "failed"
RefusalResult == IF Kind = "mock" THEN "rejected" ELSE "failed"

(* What backend.pair may return without having prompted the agent.  BlueZ  *)
(* may bond a peer no callback ran for: pair then reports JustWorks.       *)
Unprompted(d) ==
  [mock     |-> IF d \in Known THEN {} ELSE {"not_found"},
   bluez    |-> {"ok", "failed", "backend"},
   android  |-> {"ok", "failed", "backend"},
   btleplug |-> {"unsupported"}][Kind]

(* Values of `started` once pair has returned r for d: Android's           *)
(* createBond returning true only starts the bonding, and bluetoothd may   *)
(* go on with a Pair whose reply did not come in time.                     *)
MayGoOn(d, r) ==
  (IF Kind = "android" /\ r = "ok" THEN {} ELSE {started})
    \union (IF <<Kind, r>> \in {<<"android", "ok">>, <<"bluez", "failed">>}
            THEN {started \union {d}} ELSE {})

Prompting(d) == Kind = "bluez" \/ (Kind = "mock" /\ d \in Known)

Results == {"ok", "rejected", "not_found", "failed", "backend", "unsupported"}

-----------------------------------------------------------------------------
(* The workflow. *)

Final == {"rejected", "not_found"}

(* retries.saturating_add(1) and rounds.max(1) *)
MaxAttempts == IF req.retries < U32Max THEN req.retries + 1 ELSE U32Max
Rounds      == IF req.rounds = 0 THEN 1 ELSE req.rounds
Budget      == Rounds * MaxAttempts

InFlight == {d \in Device : trying[d] > 0}

(* The caller's override or the backend's limit, at least one. *)
Width == LET n == IF req.auto THEN Capability ELSE req.slots
         IN  IF n = 0 THEN 1 ELSE n

Active == IF Width < Len(pending) THEN Width ELSE Len(pending)

(* s lists the elements of t once each, in the order t first names them. *)
IsFirstSeen(s, t) ==
  /\ Range(s) = Range(t)
  /\ IsInjective(s)
  /\ \A i, j \in DOMAIN s : i < j =>
       \E k \in DOMAIN t : /\ t[k] = s[i]
                           /\ \A m \in 1..k : t[m] # s[j]

Init ==
  /\ req \in Requests
  /\ pc = "start"
  /\ identity = "real"
  /\ order = <<>> /\ pending = <<>> /\ requeue = <<>>
  /\ next = 1
  /\ round = 0
  /\ trying = [d \in Device |-> 0]
  /\ outcome = [d \in Device |-> "not_attempted"]
  /\ passes = [d \in Device |-> 0]
  /\ bonds = req.bonded
  /\ started = {}
  /\ calls = [d \in Device |-> 0]
  /\ refused = {}

AfterSpoof == IF req.entry = "discovered" THEN "scan" ELSE "targets"

work == <<order, pending, next, requeue, round, trying, passes, bonds, started,
          calls, refused>>

ApplySpoofOnlyToBatch ==
  /\ pc = "start"
  /\ req.spoof => CanSpoof
  /\ identity' = IF req.spoof /\ req.entry = "batch" THEN "spoofed" ELSE identity
  /\ pc' = AfterSpoof
  /\ UNCHANGED <<req, outcome, work>>

(* apply_spoof: nothing asked, or the backend reprogrammed the adapter. *)
ApplySpoof ==
  /\ pc = "start"
  /\ req.spoof => CanSpoof
  /\ identity' = IF req.spoof THEN "spoofed" ELSE identity
  /\ pc' = AfterSpoof
  /\ UNCHANGED <<req, outcome, work>>

(* apply_spoof fails: unsupported, or set_local_address reported an error; *)
(* BlueZ's may come from the final power-on, the address already changed.  *)
(* A batch reports the error on every item, the others return it.          *)
SpoofFails ==
  /\ pc = "start"
  /\ req.spoof
  /\ Kind # "mock"
  /\ identity' \in IF CanSpoof THEN {identity, "spoofed"} ELSE {identity}
  /\ IF req.entry = "batch"
       THEN /\ pc' = "done"
            /\ outcome' = [d \in Device |-> IF d \in Range(req.targets)
                             THEN "local_address" ELSE outcome[d]]
       ELSE pc' = "error" /\ UNCHANGED outcome
  /\ UNCHANGED <<req, work>>

(* pair_discovered's scan; req.targets stands for what it finds. *)
Scan ==
  /\ pc = "scan"
  /\ pc' \in IF Kind = "mock" THEN {"targets"} ELSE {"targets", "error"}
  /\ UNCHANGED <<req, identity, outcome, work>>

(* De-duplicate the targets; the first round has not started. *)
BeginBatch ==
  /\ pc = "targets"
  /\ \E s \in [1..Cardinality(Range(req.targets)) -> Range(req.targets)] :
       /\ IsFirstSeen(s, req.targets)
       /\ order' = s /\ pending' = s
  /\ pc' = "between"
  /\ UNCHANGED <<req, identity, next, requeue, round, trying, outcome, passes,
                 bonds, started, calls, refused>>

StartRound ==
  /\ pc = "between"
  /\ pending # <<>>
  /\ round < Rounds
  /\ round' = round + 1
  /\ next' = 1
  /\ requeue' = <<>>
  /\ pc' = "round"
  /\ UNCHANGED <<req, identity, order, pending, trying, outcome, passes,
                 bonds, started, calls, refused>>

LaunchAll ==
  /\ pc = "round"
  /\ next <= Len(pending)
  /\ next' = next + 1
  /\ trying' = [trying EXCEPT ![pending[next]] = 1]
  /\ calls' = [calls EXCEPT ![pending[next]] = @ + 1]
  /\ UNCHANGED <<req, pc, identity, order, pending, requeue, round, outcome,
                 passes, bonds, started, refused>>

(* buffer_unordered polls the next future while a slot is free: its        *)
(* pair_device makes the first backend.pair call and suspends in it.       *)
Launch ==
  /\ pc = "round"
  /\ next <= Len(pending)
  /\ Cardinality(InFlight) < Active
  /\ next' = next + 1
  /\ trying' = [trying EXCEPT ![pending[next]] = 1]
  /\ calls' = [calls EXCEPT ![pending[next]] = @ + 1]
  /\ UNCHANGED <<req, pc, identity, order, pending, requeue, round, outcome,
                 passes, bonds, started, refused>>

(* pair_device calls backend.pair again. *)
Retry(d) ==
  /\ trying' = [trying EXCEPT ![d] = @ + 1]
  /\ calls' = [calls EXCEPT ![d] = @ + 1]
  /\ UNCHANGED <<flow, outcome, passes>>

(* pair_device returned result r for d.  The code applies the results of a *)
(* round, in completion order, when the round is over; nothing reads an    *)
(* item before that, so each is applied here as it completes.              *)
Settle(d, r) ==
  /\ trying' = [trying EXCEPT ![d] = 0]
  /\ outcome' = [outcome EXCEPT ![d] = r]
  /\ passes' = [passes EXCEPT ![d] = @ + 1]
  /\ requeue' = IF r \in Final \union {"ok"} THEN requeue
                ELSE Append(requeue, d)
  /\ UNCHANGED <<req, pc, identity, order, pending, next, round, calls>>

ResumeOnceMore(d, r) ==
  IF r \notin Final \union {"ok"} /\ trying[d] <= MaxAttempts
  THEN Retry(d)
  ELSE Settle(d, r)

(* backend.pair returned r: success, a rejection and an unknown device end *)
(* pair_device at once, any other error is retried while attempts remain.  *)
Resume(d, r) ==
  IF r \notin Final \union {"ok"} /\ trying[d] < MaxAttempts
  THEN Retry(d)
  ELSE Settle(d, r)

AgentRepliesBondFirst(d) ==
  /\ trying[d] > 0
  /\ Prompting(d)
  /\ \E r \in Policy[Agent][Prompt[d]], completes \in BOOLEAN :
       IF Refuses(Prompt[d], r)
       THEN /\ refused' = refused \union {d}
            /\ UNCHANGED <<bonds, started>>
            /\ Resume(d, RefusalResult)
       ELSE /\ UNCHANGED refused
            /\ bonds' = bonds \union {d}
            /\ LET result == IF completes THEN "ok" ELSE "failed"
               IN  started' \in MayGoOn(d, result) /\ Resume(d, result)

(* The agent answers d's prompt; if granted, the peer completes or fails.  *)
AgentReplies(d) ==
  /\ trying[d] > 0
  /\ Prompting(d)
  /\ \E r \in Policy[Agent][Prompt[d]], completes \in BOOLEAN :
       IF Refuses(Prompt[d], r)
       THEN /\ refused' = refused \union {d}
            /\ UNCHANGED <<bonds, started>>
            /\ Resume(d, RefusalResult)
       ELSE /\ UNCHANGED refused
            /\ bonds' = IF completes THEN bonds \union {d} ELSE bonds
            /\ LET result == IF completes THEN "ok" ELSE "failed"
               IN  started' \in MayGoOn(d, result) /\ Resume(d, result)

(* backend.pair returns without prompting. *)
BackendReturns(d) ==
  /\ trying[d] > 0
  /\ \E r \in Unprompted(d) :
       /\ bonds' = IF Kind = "bluez" /\ r = "ok" THEN bonds \union {d} ELSE bonds
       /\ started' \in MayGoOn(d, r)
       /\ Resume(d, r)
  /\ UNCHANGED refused

(* The OS completes a bonding that went on when pair had returned. *)
OsBonds(d) ==
  /\ d \in started
  /\ bonds' = bonds \union {d}
  /\ UNCHANGED <<flow, trying, outcome, passes, started, calls, refused>>

EndRoundEarly ==
  /\ pc = "round"
  /\ next > Len(pending)
  /\ pending' = requeue
  /\ pc' = "between"
  /\ UNCHANGED <<req, identity, order, next, requeue, round, trying, outcome,
                 passes, bonds, started, calls, refused>>

EndRound ==
  /\ pc = "round"
  /\ next > Len(pending)
  /\ InFlight = {}
  /\ pending' = requeue
  /\ pc' = "between"
  /\ UNCHANGED <<req, identity, order, next, requeue, round, trying, outcome,
                 passes, bonds, started, calls, refused>>

ReturnWhenAllPaired ==
  /\ pc = "between"
  /\ pending = <<>>
  /\ pc' = "done"
  /\ UNCHANGED <<req, identity, outcome, work>>

Return ==
  /\ pc = "between"
  /\ pending = <<>> \/ round = Rounds
  /\ pc' = "done"
  /\ UNCHANGED <<req, identity, outcome, work>>

Next ==
  \/ ApplySpoof \/ SpoofFails \/ Scan \/ BeginBatch
  \/ StartRound \/ Launch \/ EndRound \/ Return
  \/ \E d \in Device : AgentReplies(d) \/ BackendReturns(d) \/ OsBonds(d)

Spec == Init /\ [][Next]_vars

(* The runtime polls the task whenever it can go on, the backend's calls   *)
(* return and agents answer; nothing is assumed of OsBonds.                *)
FairSpec ==
  /\ Spec
  /\ WF_vars(ApplySpoof \/ SpoofFails \/ Scan \/ BeginBatch)
  /\ WF_vars(StartRound \/ Launch \/ EndRound \/ Return)
  /\ \A d \in Device : WF_vars(AgentReplies(d) \/ BackendReturns(d))

-----------------------------------------------------------------------------
(* Properties. *)

TypeOK ==
  /\ req \in Requests
  /\ pc \in {"start", "scan", "targets", "between", "round", "done", "error"}
  /\ identity \in {"real", "spoofed"}
  /\ order \in Seq(Device) /\ pending \in Seq(Device) /\ requeue \in Seq(Device)
  /\ next \in Nat \ {0}
  /\ round \in Nat
  /\ trying \in [Device -> Nat]
  /\ outcome \in [Device -> Results \union {"not_attempted", "local_address"}]
  /\ passes \in [Device -> Nat]
  /\ bonds \in SUBSET Device /\ started \in SUBSET Device
  /\ calls \in [Device -> Nat]
  /\ refused \in SUBSET Device

(* The item a device has when it is decided (bonded, rejected, unknown) is *)
(* the one returned, and no later round or retry calls the backend for it: *)
(* "rejections / device-not-found are final".                              *)
DecidedIsFinal ==
  [][\A d \in Device : outcome[d] \in Final \union {"ok"} =>
        outcome'[d] = outcome[d] /\ calls'[d] = calls[d]]_vars

(* Once the agent has refused a prompt for a device, the workflow does not *)
(* call pair for it again, in this pair_device or in a later round.        *)
RefusalIsFinal ==
  [][\A d \in refused : calls'[d] = calls[d]]_vars

(* So it is on a backend that tells a refusal from a failure. *)
ToldRefusalIsFinal ==
  [][Kind = "mock" => \A d \in refused : calls'[d] = calls[d]]_vars

(* One device failing never costs another its attempts: when the batch     *)
(* returns normally, every target is decided or has had every attempt of   *)
(* every round.                                                            *)
EveryTargetGetsItsBudget ==
  pc = "done" =>
    \A d \in Range(req.targets) :
      \/ outcome[d] \in Final \union {"ok"}
      \/ outcome[d] = "local_address" /\ calls[d] = 0
      \/ calls[d] = Budget

(* At most Width pairings run at once, and only one where the backend      *)
(* serializes pairing and the caller does not override it.                 *)
SlotsRespected ==
  /\ Cardinality(InFlight) <= Width
  /\ req.auto /\ Kind # "mock" => Cardinality(InFlight) <= 1

(* A device never waits for a slot while a pairing of it is in flight, and *)
(* is never queued twice: the same peer is not paired twice at once.       *)
NeverTwiceAtOnce ==
  pc = "round" =>
    /\ IsInjective(pending)
    /\ \A i \in next..Len(pending) : trying[pending[i]] = 0
    /\ \A i \in 1..Len(requeue) : trying[requeue[i]] = 0

(* A call that asks for a spoofed identity makes no backend.pair call      *)
(* under the real one ("so the peer sees the bond coming from spoof_local  *)
(* rather than the real adapter").                                         *)
PairsUnderSpoof ==
  req.spoof /\ identity = "real" => \A d \in Device : calls[d] = 0

(* The items returned tell the truth about the backend's bond store, after *)
(* whatever rounds and retries: a device reported paired is bonded, and a  *)
(* bond nobody reports was there before the call, or is the work of a      *)
(* pairing the backend gave up on and the OS did not.  Android reports a   *)
(* bonding that has only started, and is left out.                         *)
ReportMatchesBonds ==
  pc = "done" /\ Kind # "android" =>
    /\ \A d \in Device : outcome[d] = "ok" => d \in bonds
    /\ \A d \in bonds \ (req.bonded \union started) : outcome[d] = "ok"

(* The invariant behind the properties above: where each device stands.    *)
Decided(d)  == outcome[d] \in Final \union {"ok"}
Waiting(d)  == \E i \in next..Len(pending) : pending[i] = d
Requeued(d) == \E i \in 1..Len(requeue) : requeue[i] = d
Pending(d)  == \E i \in 1..Len(pending) : pending[i] = d
Targets     == Range(req.targets)

BeforeBatch ==
  pc \in {"start", "scan", "targets", "error"} =>
    /\ round = 0
    /\ \A d \in Device : calls[d] = 0 /\ trying[d] = 0 /\ ~Decided(d)

BetweenRounds ==
  pc = "between" =>
    /\ round <= Rounds
    /\ IsInjective(pending)
    /\ \A d \in Device : trying[d] = 0
    /\ \A d \in Device : Pending(d) =>
         d \in Targets /\ ~Decided(d) /\ calls[d] = round * MaxAttempts
    /\ \A d \in Targets : Decided(d) \/ Pending(d)

InRound ==
  pc = "round" =>
    /\ round \in 1..Rounds
    /\ IsInjective(pending) /\ IsInjective(requeue)
    /\ \A d \in Device : Pending(d) => d \in Targets
    /\ \A d \in Device : Waiting(d) =>
         /\ ~Decided(d) /\ trying[d] = 0 /\ ~Requeued(d)
         /\ calls[d] = (round - 1) * MaxAttempts
    /\ \A d \in InFlight :
         /\ d \in Targets /\ ~Decided(d) /\ trying[d] <= MaxAttempts
         /\ calls[d] = (round - 1) * MaxAttempts + trying[d]
    /\ \A d \in Device : Requeued(d) =>
         /\ d \in Targets /\ ~Decided(d) /\ trying[d] = 0
         /\ calls[d] = round * MaxAttempts
    /\ \A d \in Targets :
         Decided(d) \/ d \in InFlight \/ Waiting(d) \/ Requeued(d)

AfterBatch ==
  pc = "done" =>
    /\ \A d \in Device : trying[d] = 0
    /\ EveryTargetGetsItsBudget

(* Before the batch nothing was called; between rounds the pending devices *)
(* have used exactly the attempts of the rounds behind them; in a round    *)
(* every target is decided, in flight, waiting or requeued, and the calls  *)
(* made for it are those its place says.                                   *)
Accounting == BeforeBatch /\ BetweenRounds /\ InRound /\ AfterBatch

(* The workflow returns, whatever the devices, the agent and the backend   *)
(* answer: retries and rounds are bounded.                                 *)
Returns == <>(pc \in {"done", "error"})

(* The workflow implements the batch it promises (module BatchPairing).    *)
Batch == INSTANCE BatchPairing WITH
  wanted  <- Range(req.targets),
  budget  <- Budget,
  spent   <- calls,
  verdict <- [d \in Device |-> IF outcome[d] \in Final \union {"ok"}
                               THEN outcome[d] ELSE "open"],
  closed  <- pc \in {"done", "error"}

ImplementsBatch == Batch!Spec
=============================================================================
