----------------------------- MODULE MockBackend -----------------------------
(***************************************************************************)
(* The deterministic in-memory backend of pax-transport, shared by several *)
(* tasks.  Its state sits under one mutex that no operation keeps: each    *)
(* takes it for a lookup, for an insertion, and for every event it stamps. *)
(* A step below is one such critical section, an event's delivery, or the  *)
(* agent's answer; any two tasks interleave between them.                  *)
(*                                                                         *)
(* `job[t]` is the call task t is in.  What event number n says is kept in *)
(* said[n + 1], with the call that emitted it and the connection's token,  *)
(* which the code leaves out; nothing but the properties reads those.      *)
(***************************************************************************)
EXTENDS Integers, Sequences, FiniteSets, Functions

CONSTANTS
  Task,        \* the tasks that share the backend
  Fan,         \* observers its events are fanned out to
  Device,      \* device ids a caller may name
  Scripted,    \* MockState.devices, in order
  Incoming,    \* MockBackend.incoming, in order
  Fails,       \* devices scripted with a pairing_failure
  Chunk,       \* Chunk[d]: chunk_size
  Latency,     \* Latency[d]: per_chunk_latency
  LinkLimit,   \* LinkLimit[d]: transfer_failure_after, or Never
  Never,       \* no limit
  Calls,       \* Calls[t]: the calls task t may make, records, see Begin
  MaxCalls     \* bound on the calls of a behaviour

(* The calls a caller may make, by the methods of the backend trait; a     *)
(* connection to use is chosen when the call begins.                       *)
Call ==
  [op : {"discover"}, accepts : SUBSET Device, limit : Nat \union {Never}]
    \union [op : {"pair", "connect"}, peer : Device]
    \union [op : {"accept"}, max : Nat \union {Never}, window : Nat]
    \union [op : {"push"}, total : Nat]
    \union [op : {"disconnect"}]

NoPeer == "adapter"

ASSUME MockAssumption ==
  /\ Fan \in Nat \ {0}
  /\ Never \notin Nat /\ NoPeer \notin Device
  /\ Scripted \in Seq(Device) /\ Incoming \in Seq(Device)
  /\ Fails \subseteq Device
  /\ Chunk \in [Device -> Nat] /\ Latency \in [Device -> Nat]
  /\ LinkLimit \in [Device -> Nat \union {Never}]
  /\ Calls \in [Task -> SUBSET Call]
  /\ MaxCalls \in Nat

VARIABLES
  seq, clock, held, due, log,  \* the event stream, see EventStream
  said,         \* what each event says, by number
  connections,  \* the live tokens
  nextToken,
  paired,
  handles,      \* the Connection values the tasks have got hold of
  job,          \* job[t]: where task t stands in its call
  made,         \* calls made so far
  results       \* what the calls returned (history)

streamVars == <<seq, clock, held, due, log, said>>
table == <<connections, nextToken, paired>>
vars == <<streamVars, table, handles, job, made, results>>

Kinds == {"discovery_started", "device_discovered", "pairing_started",
          "pairing_failed", "pairing_completed", "connected", "disconnected",
          "transfer_started", "data_chunk", "transfer_progress",
          "transfer_completed", "error"}

Said == [kind : Kinds, peer : Device \union {NoPeer}, token : Nat,
         call : Nat, n : Nat]

StepTime == 1

(* By how much the code advances the clock. *)
Ticks == {0, StepTime} \union Range(Latency)
           \union {c.window : c \in {b \in UNION Range(Calls) : b.op = "accept"}}

Stream == INSTANCE EventStream WITH MaxEvents <- 0, MaxTime <- 0

Known == Range(Scripted)

Idle == [pc |-> "idle"]

Init ==
  /\ Stream!Init
  /\ said = <<>>
  /\ connections = {}
  /\ nextToken = 1
  /\ paired = {}
  /\ handles = {}
  /\ job = [t \in Task |-> Idle]
  /\ made = 0
  /\ results = {}

(* Task t emits an event of its call about peer d and token k. *)
Emit(t, kind, d, k, n, dt) ==
  /\ Stream!Stamp(t, dt)
  /\ said' = Append(said, [kind |-> kind, peer |-> d, token |-> k,
                           call |-> job[t].call, n |-> n])

(* Task t, its last event delivered, stands at pc. *)
At(t, pc) == job[t].pc = pc /\ due[t] = 0

Goto(t, pc) == job' = [job EXCEPT ![t].pc = pc]

Answer(t, res) ==
  job' = [job EXCEPT ![t] = [pc |-> "return", call |-> @.call, res |-> res]]

(* A task makes one of the calls; a connection is used through any handle. *)
Begin(t) ==
  /\ At(t, "idle")
  /\ made < MaxCalls
  /\ made' = made + 1
  /\ \E c \in Calls[t] :
       \/ /\ c.op \in {"discover", "pair", "connect", "accept"}
          /\ job' = [job EXCEPT ![t] =
               [pc |-> c.op, call |-> made + 1, arg |-> c, i |-> 1, out |-> <<>>]]
       \/ /\ c.op \in {"disconnect", "push"}
          /\ \E h \in handles :
               job' = [job EXCEPT ![t] =
                 [pc |-> c.op, call |-> made + 1, arg |-> c, conn |-> h]]
  /\ UNCHANGED <<streamVars, table, handles, results>>

(* The call returns once its last event is delivered. *)
Return(t) ==
  /\ At(t, "return")
  /\ results' = results \union {job[t].res}
  /\ handles' = IF job[t].res.op = "connect" /\ job[t].res.ok
                THEN handles \union {job[t].res.conn} ELSE handles
  /\ job' = [job EXCEPT ![t] = Idle]
  /\ UNCHANGED <<streamVars, table, made>>

(* Some task calls on_event of the next observer. *)
Deliver(t) ==
  /\ Stream!Deliver(t)
  /\ UNCHANGED <<said, table, handles, job, made, results>>

-----------------------------------------------------------------------------
(* Discovery. *)

StartDiscovery(t) ==
  /\ At(t, "discover")
  /\ Emit(t, "discovery_started", NoPeer, 0, 0, StepTime)
  /\ Goto(t, "scan")
  /\ UNCHANGED <<table, handles, made, results>>

DiscoverPastLimit(t) ==
  /\ At(t, "scan")
  /\ LET f == job[t].arg
         left == {k \in job[t].i..Len(Scripted) : Scripted[k] \in f.accepts}
         full == IF f.limit = Never THEN FALSE ELSE Len(job[t].out) > f.limit
     IN  IF left = {} \/ full
         THEN /\ Answer(t, [op |-> "discover", arg |-> f, out |-> job[t].out])
              /\ UNCHANGED streamVars
         ELSE \E k \in left :
              /\ \A l \in left : k <= l
              /\ Emit(t, "device_discovered", Scripted[k], 0, 0, StepTime)
              /\ job' = [job EXCEPT ![t].i = k + 1, ![t].out = Append(@, Scripted[k])]
  /\ UNCHANGED <<table, handles, made, results>>

(* The next device the filter accepts, unless the limit is reached. *)
DiscoverNext(t) ==
  /\ At(t, "scan")
  /\ LET f == job[t].arg
         left == {k \in job[t].i..Len(Scripted) : Scripted[k] \in f.accepts}
         full == IF f.limit = Never THEN FALSE ELSE Len(job[t].out) >= f.limit
     IN  IF left = {} \/ full
         THEN /\ Answer(t, [op |-> "discover", arg |-> f, out |-> job[t].out])
              /\ UNCHANGED streamVars
         ELSE \E k \in left :
              /\ \A l \in left : k <= l
              /\ Emit(t, "device_discovered", Scripted[k], 0, 0, StepTime)
              /\ job' = [job EXCEPT ![t].i = k + 1, ![t].out = Append(@, Scripted[k])]
  /\ UNCHANGED <<table, handles, made, results>>

-----------------------------------------------------------------------------
(* Pairing, outbound (pair) and inbound (accept_pairings). *)

Inbound(t) == job[t].arg.op = "accept"

(* The device job t is pairing. *)
Peer(t) == IF Inbound(t) THEN Incoming[job[t].i] ELSE job[t].arg.peer

StartPair(t) ==
  /\ At(t, "pair")
  /\ IF Peer(t) \in Known
     THEN /\ Emit(t, "pairing_started", Peer(t), 0, 0, StepTime)
          /\ Goto(t, "ask")
     ELSE /\ Answer(t, [op |-> "pair", peer |-> Peer(t), ok |-> FALSE])
          /\ UNCHANGED streamVars
  /\ UNCHANGED <<table, handles, made, results>>

(* take(max_devices): the limit counts devices tried. *)
TakesMore(t) ==
  /\ job[t].i <= Len(Incoming)
  /\ IF job[t].arg.max = Never THEN TRUE ELSE job[t].i <= job[t].arg.max

AcceptNext(t) ==
  /\ At(t, "accept")
  /\ TakesMore(t)
  /\ Emit(t, "pairing_started", Peer(t), 0, 0, StepTime)
  /\ Goto(t, "ask")
  /\ UNCHANGED <<table, handles, made, results>>

AcceptEndsResettingClock(t) ==
  /\ At(t, "accept")
  /\ ~TakesMore(t)
  /\ Stream!SetClock(job[t].arg.window) /\ UNCHANGED said
  /\ Answer(t, [op |-> "accept", arg |-> job[t].arg, out |-> job[t].out,
                tried |-> job[t].i - 1])
  /\ UNCHANGED <<table, handles, made, results>>

(* The window passes, on the virtual clock alone. *)
AcceptEnds(t) ==
  /\ At(t, "accept")
  /\ ~TakesMore(t)
  /\ Stream!Advance(job[t].arg.window) /\ UNCHANGED said
  /\ Answer(t, [op |-> "accept", arg |-> job[t].arg, out |-> job[t].out,
                tried |-> job[t].i - 1])
  /\ UNCHANGED <<table, handles, made, results>>

(* One pairing is over: pair returns, accept_pairings goes on. *)
PairingOver(t, ok) ==
  IF Inbound(t)
  THEN job' = [job EXCEPT ![t].pc = "accept", ![t].i = @ + 1,
                          ![t].out = IF ok THEN Append(@, Peer(t)) ELSE @]
  ELSE Answer(t, [op |-> "pair", peer |-> Peer(t), ok |-> ok])

(* The agent refuses, or the device is scripted to fail. *)
PairingFails(t) ==
  /\ At(t, "ask")
  /\ Emit(t, "pairing_failed", Peer(t), 0, 0, StepTime)
  /\ PairingOver(t, FALSE)
  /\ UNCHANGED <<table, handles, made, results>>

BondOutboundOnly(t) ==
  /\ At(t, "ask")
  /\ Peer(t) \notin Fails
  /\ paired' = IF Inbound(t) THEN paired ELSE paired \union {Peer(t)}
  /\ Goto(t, "bonded")
  /\ UNCHANGED <<streamVars, connections, nextToken, handles, made, results>>

(* The agent grants and the device pairs: the bond is recorded. *)
Bond(t) ==
  /\ At(t, "ask")
  /\ Peer(t) \notin Fails
  /\ paired' = paired \union {Peer(t)}
  /\ Goto(t, "bonded")
  /\ UNCHANGED <<streamVars, connections, nextToken, handles, made, results>>

PairingCompletes(t) ==
  /\ At(t, "bonded")
  /\ Emit(t, "pairing_completed", Peer(t), 0, 0, StepTime)
  /\ PairingOver(t, TRUE)
  /\ UNCHANGED <<table, handles, made, results>>

(* The caller drops the future while the agent is being asked. *)
Cancel(t) ==
  /\ At(t, "ask")
  /\ job' = [job EXCEPT ![t] = Idle]
  /\ UNCHANGED <<streamVars, table, handles, made, results>>

-----------------------------------------------------------------------------
(* Connections. *)

Connect(t) ==
  /\ At(t, "connect")
  /\ LET d == job[t].arg.peer
         h == [token |-> nextToken, peer |-> d]
     IN  IF d \in Known
         THEN /\ connections' = connections \union {nextToken}
              /\ nextToken' = nextToken + 1
              /\ job' = [job EXCEPT ![t] = [pc |-> "connected", call |-> @.call, conn |-> h]]
         ELSE /\ Answer(t, [op |-> "connect", ok |-> FALSE])
              /\ UNCHANGED <<connections, nextToken>>
  /\ UNCHANGED <<streamVars, paired, handles, made, results>>

TellConnected(t) ==
  /\ At(t, "connected")
  /\ Emit(t, "connected", job[t].conn.peer, job[t].conn.token, 0, StepTime)
  /\ Answer(t, [op |-> "connect", ok |-> TRUE, conn |-> job[t].conn])
  /\ UNCHANGED <<table, handles, made, results>>

DisconnectUnchecked(t) ==
  /\ At(t, "disconnect")
  /\ connections' = connections \ {job[t].conn.token}
  /\ Goto(t, "parted")
  /\ UNCHANGED <<streamVars, nextToken, paired, handles, made, results>>

(* Only the call that finds the token removes it; the others fail. *)
Disconnect(t) ==
  /\ At(t, "disconnect")
  /\ connections' = connections \ {job[t].conn.token}
  /\ IF job[t].conn.token \in connections
     THEN Goto(t, "parted")
     ELSE Answer(t, [op |-> "disconnect", ok |-> FALSE])
  /\ UNCHANGED <<streamVars, nextToken, paired, handles, made, results>>

TellDisconnected(t) ==
  /\ At(t, "parted")
  /\ Emit(t, "disconnected", job[t].conn.peer, job[t].conn.token, 0, StepTime)
  /\ Answer(t, [op |-> "disconnect", ok |-> TRUE])
  /\ UNCHANGED <<table, handles, made, results>>

-----------------------------------------------------------------------------
(* Transfers.  The token is checked once, at the start. *)

PushResult(t, ok, duration) ==
  [op |-> "push", call |-> job[t].call, peer |-> job[t].conn.peer,
   total |-> job[t].arg.total, ok |-> ok, bytes |-> job[t].sent,
   chunks |-> job[t].chunks, duration |-> duration]

PushEmit(t, kind, n, dt) ==
  Emit(t, kind, job[t].conn.peer, job[t].conn.token, n, dt)

CheckPush(t) ==
  /\ At(t, "push")
  /\ IF job[t].conn.token \in connections
     THEN job' = [job EXCEPT ![t] =
            [pc |-> "push_start", call |-> @.call, arg |-> @.arg, conn |-> @.conn,
             sent |-> 0, chunks |-> 0, start |-> 0]]
     ELSE Answer(t, [op |-> "push_refused"])
  /\ UNCHANGED <<streamVars, table, handles, made, results>>

(* now(), a critical section of its own. *)
ReadStart(t) ==
  /\ At(t, "push_start")
  /\ job' = [job EXCEPT ![t].start = clock, ![t].pc = "push_open"]
  /\ UNCHANGED <<streamVars, table, handles, made, results>>

OpenTransfer(t) ==
  /\ At(t, "push_open")
  /\ PushEmit(t, "transfer_started", job[t].arg.total, StepTime)
  /\ Goto(t, "chunk")
  /\ UNCHANGED <<table, handles, made, results>>

(* chunk_size.max(1) *)
ChunkSize(d) == IF Chunk[d] = 0 THEN 1 ELSE Chunk[d]

Piece(t) ==
  LET size == ChunkSize(job[t].conn.peer)
      rest == job[t].arg.total - job[t].sent
  IN  IF size < rest THEN size ELSE rest

Limit(t) == LinkLimit[job[t].conn.peer]

LinkDropsAtLimit(t) ==
  IF Limit(t) = Never THEN FALSE ELSE job[t].sent + Piece(t) >= Limit(t)

LinkDrops(t) ==
  IF Limit(t) = Never THEN FALSE ELSE job[t].sent + Piece(t) > Limit(t)

SendChunk(t) ==
  /\ At(t, "chunk")
  /\ Piece(t) > 0
  /\ ~LinkDrops(t)
  /\ PushEmit(t, "data_chunk", Piece(t), Latency[job[t].conn.peer])
  /\ job' = [job EXCEPT ![t].pc = "progress", ![t].sent = @ + Piece(t),
                        ![t].chunks = @ + 1]
  /\ UNCHANGED <<table, handles, made, results>>

TransferDrops(t) ==
  /\ At(t, "chunk")
  /\ Piece(t) > 0
  /\ LinkDrops(t)
  /\ PushEmit(t, "error", Limit(t), StepTime)
  /\ Answer(t, PushResult(t, FALSE, 0))
  /\ UNCHANGED <<table, handles, made, results>>

TellProgress(t) ==
  /\ At(t, "progress")
  /\ PushEmit(t, "transfer_progress", job[t].sent, 0)
  /\ Goto(t, "chunk")
  /\ UNCHANGED <<table, handles, made, results>>

(* now().saturating_since(start) *)
ReadDuration(t) ==
  /\ At(t, "chunk")
  /\ Piece(t) = 0
  /\ job' = [job EXCEPT ![t] = [pc |-> "push_close", call |-> @.call, conn |-> @.conn,
       res |-> PushResult(t, TRUE, clock - @.start)]]
  /\ UNCHANGED <<streamVars, table, handles, made, results>>

CloseTransfer(t) ==
  /\ At(t, "push_close")
  /\ PushEmit(t, "transfer_completed", job[t].res.bytes, StepTime)
  /\ Answer(t, job[t].res)
  /\ UNCHANGED <<table, handles, made, results>>

-----------------------------------------------------------------------------
Moves(t) ==
  \/ Return(t) \/ Deliver(t)
  \/ StartDiscovery(t) \/ DiscoverNext(t)
  \/ StartPair(t) \/ AcceptNext(t) \/ AcceptEnds(t) \/ PairingCompletes(t)
  \/ Connect(t) \/ TellConnected(t) \/ Disconnect(t) \/ TellDisconnected(t)
  \/ CheckPush(t) \/ ReadStart(t) \/ OpenTransfer(t) \/ SendChunk(t)
  \/ TransferDrops(t) \/ TellProgress(t) \/ ReadDuration(t) \/ CloseTransfer(t)

(* What becomes of a prompt. *)
Answers(t) == PairingFails(t) \/ Bond(t) \/ Cancel(t)

Next == \E t \in Task : Begin(t) \/ Moves(t) \/ Answers(t)

Spec == Init /\ [][Next]_vars

(* The runtime polls every task that can go on, and agents answer.         *)
FairSpec == Spec /\ \A t \in Task : WF_vars(Moves(t)) /\ WF_vars(Answers(t))

-----------------------------------------------------------------------------
(* Properties. *)

(* What the i-th event observer o received says. *)
Heard(o, i) == said[log[o][i].seq + 1]

Told(o, k, kind) ==
  {i \in DOMAIN log[o] : Heard(o, i).token = k /\ Heard(o, i).kind = kind}

(* Each token's life as any observer sees it: one Connected, before every  *)
(* other event of the connection; at most one Disconnected, however many   *)
(* clones of the Connection are closed at once, and none while the token   *)
(* is live.                                                                *)
LinkLife ==
  \A o \in 1..Fan, k \in 1..(nextToken - 1) :
    /\ Cardinality(Told(o, k, "connected")) <= 1
    /\ Cardinality(Told(o, k, "disconnected")) <= 1
    /\ k \in connections => Told(o, k, "disconnected") = {}
    /\ \A i \in DOMAIN log[o] : Heard(o, i).token = k =>
         \E j \in Told(o, k, "connected") : j <= i

(* A push succeeds exactly when the scripted link carries the whole file,  *)
(* sends each byte once in ceil(total / chunk) chunks, and a failed one    *)
(* reports the whole chunks the limit lets through; its duration covers    *)
(* its own chunks whatever the other tasks do to the clock.                *)
MatchesLink(r) ==
  LET lim == LinkLimit[r.peer]
      c   == ChunkSize(r.peer)
  IN  /\ r.ok <=> lim = Never \/ r.total <= lim
      /\ r.ok => /\ r.bytes = r.total
                 /\ r.chunks = (r.total + c - 1) \div c
                 /\ r.duration >= StepTime + r.chunks * Latency[r.peer]
      /\ ~r.ok => r.bytes = c * r.chunks /\ r.chunks = lim \div c

(* When push_file returns, every observer has been told of the chunks the  *)
(* receipt (or the failure) counts, once each, by this call and no other:  *)
(* full ones, and a last one that brings the bytes to the count.           *)
Chunks(o, call) ==
  {i \in DOMAIN log[o] : Heard(o, i).call = call /\ Heard(o, i).kind = "data_chunk"}

InLog(r) ==
  LET c == ChunkSize(r.peer)
  IN  \A o \in 1..Fan :
        /\ Cardinality(Chunks(o, r.call)) = r.chunks
        /\ \A i \in Chunks(o, r.call) :
             Heard(o, i).n = IF \E j \in Chunks(o, r.call) : j > i
                             THEN c ELSE r.bytes - c * (r.chunks - 1)
        /\ \E i \in DOMAIN log[o] :
             /\ Heard(o, i).call = r.call
             /\ Heard(o, i).kind = IF r.ok THEN "transfer_completed" ELSE "error"

(* What a push returns is what the link let through, and what the          *)
(* observers were told.                                                    *)
ReceiptTruthful ==
  \A r \in results : r.op = "push" => MatchesLink(r) /\ InLog(r)

(* The bond table and the events tell one story: a device some event says  *)
(* was paired is in the table, and one in the table has been, or is about  *)
(* to be, announced.                                                       *)
BondsAnnounced ==
  LET announced == {e.peer : e \in {f \in Range(said) :
                                      f.kind = "pairing_completed"}}
      pending   == {Peer(t) : t \in {u \in Task : job[u].pc = "bonded"}}
  IN  announced \subseteq paired /\ paired \subseteq announced \union pending

(* discover returns the first devices the filter accepts, in script order, *)
(* as many as its limit allows (none for a limit of zero): it skips one    *)
(* only when the limit is reached, and those after it.                     *)
DiscoveryExact ==
  \A r \in results : r.op = "discover" =>
    /\ r.arg.limit = Never \/ Len(r.out) <= r.arg.limit
    /\ \E at \in [DOMAIN r.out -> DOMAIN Scripted] :
         /\ \A j \in DOMAIN r.out :
              /\ r.out[j] = Scripted[at[j]] /\ r.out[j] \in r.arg.accepts
              /\ \A l \in DOMAIN r.out : l < j => at[l] < at[j]
         /\ \A k \in DOMAIN Scripted :
              Scripted[k] \in r.arg.accepts =>
                \/ \E j \in DOMAIN r.out : at[j] = k
                \/ Len(r.out) = r.arg.limit /\ \A j \in DOMAIN r.out : at[j] < k

(* The events are stamped and delivered the way EventStream promises, and  *)
(* each of them is, though a pairing may be cancelled half way.            *)
ImplementsStream == Stream!FairSpec

=============================================================================
