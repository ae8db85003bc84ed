# Verification of pax

pax is a Rust toolkit for Bluetooth: it discovers devices, pairs with them,
connects, pushes files over OBEX, and records what happened as a stream of
events. One trait, `BluetoothBackend`, hides five implementations (BlueZ,
Android, btleplug, iOS, and a deterministic mock); workflows, agents, uploads
and diagnostics are written against the trait.

This directory holds TLA+ models of the parts of pax that keep state across
concurrent tasks, the TLC configurations that check them on small instances,
and TLAPS proofs of the results that matter most. Source paths below are
relative to the repository; the models name functions and fields as the code
does. `PROJECT.json` maps every definition to the lines it translates, lists
the runs, the mutants that show each property can fail, the hazards and the
theorems.

## The system

| component | source | state it keeps | operations |
|---|---|---|---|
| batch pairing workflow | `pax-pairing/src/workflow.rs` | the items of the report, the pending list, the retry counters, the futures in flight | `pair_device`, `pair_devices`, `pair_discovered` |
| pairing agents | `pax-pairing/src/agents.rs`, `pax-transport/src/pairing.rs` | none, or a callback | `respond` |
| backend contract | `pax-transport/src/backend.rs` | none | the trait; `apply_spoof`, `discover_as`, `connect_as`, `dump_in_range(_as)`; filters; capabilities |
| mock backend | `pax-transport/src/mock.rs` | one mutex over sequence number, virtual clock, live tokens, bonds, powered, address, GATT values | every operation of the trait |
| BlueZ backend | `pax-transport/src/bluez.rs` | a session, an adapter, a sequence counter; the adapter's discoverable / pairable flags and bonds live in bluetoothd | every operation of the trait |
| obexd client | `pax-transport/src/bluez/obex.rs` | an OBEX session and a transfer object, in obexd | `object_push` |
| port authentication | `pax-transport/src/bluez/port_auth.rs`, `wpa.rs` | a cache of 802.1X states behind a mutex, refreshed by a task | `refresh`, `spawn_auto_refresh`, `resolve` |
| Android backend | `pax-transport/src/android.rs`, `android/obex_opp.rs`, `android-companion/.../PaxBluetooth.java` | a sequence counter; a static queue of found devices in the companion | discovery, `pair`, `connect`, OBEX push over RFCOMM |
| btleplug, iOS | `pax-transport/src/btleplug.rs`, `ios.rs` | a sequence counter | discovery, connection, GATT |
| events and observers | `pax-core/src/event.rs`, `observe.rs`, `pax-diagnostics/src/recorder.rs` | the recorder's vector | `on_event`, `FanOut`, `events`, `drain` |
| uploads | `pax-transfer/src/upload.rs`, `progress.rs`, `pax-transport/src/transfer.rs` | the progress observer's last object | `upload_file(s)`, `upload_bytes` |
| diagnostics | `pax-diagnostics/src/analyze.rs`, `metrics.rs` | none (functions of a recorded stream) | `breakdown`, `anomalies`, `report` |
| kernel management socket | `pax-hci/src/lib.rs` | the controller's power and public address, in the kernel | `spoof_public_address`, `set_powered`, `run_command` |
| identities and profiles | the rest of `pax-core/src` | none | parsing, formatting, tables |
| command line | `pax-cli/src/main.rs` | none | one subcommand per operation |

How they interact. A caller's task calls a workflow or the backend directly;
several tasks may share one backend through an `Arc`. The backend suspends at
each await: for the radio, for a D-Bus reply, or for the caller's
`PairingAgent`, which is called back in the middle of `pair` and of
`accept_pairings`. Every noteworthy step is reported to the backend's one
observer, usually a `FanOut` over several, which is called on the producing
task. Nothing is persisted by pax itself: bonds, flags and addresses live in
bluetoothd, obexd, Android or the kernel, and outlive a call that is dropped.

What is hard here:

* *interleaving*: the futures of a batch complete in any order; tasks that
  share a backend interleave at every await, and on the mock between any two
  of its short critical sections;
* *stale reads*: a connection token is checked once and a whole transfer
  follows; `createBond` returning true is reported as a bond; BlueZ's agent
  records a device when it is authorised, not when it is bonded;
* *shared things nobody locks*: the name of a staged file, the controller's
  address, the companion's queue and its one inquiry, a progress observer that
  hears every upload;
* *retries*: attempts inside a round, rounds inside a batch, retries of
  uploads, each with its own idea of which errors are final;
* *answers that do not come*: a reply looked for among a few events only, a
  signal lost before anyone listens, a command carried out after its caller has
  given up;
* *partial failure*: a spoof that has powered the controller off, an inbound
  window whose second switch fails, a cancelled call whose clean-up is skipped;
* *ordering*: numbering, timing and delivery of events are separate steps.

## What makes each component correct

* **Batch pairing**: each target gets its whole budget of attempts unless it
  is decided earlier; a decided device is never asked again; the concurrency
  limit holds; a spoofed identity is in place before the first pairing call;
  the report tells the truth about the bonds; the call returns.
* **Event stream**: no event is lost, repeated or renumbered; on the mock times
  follow numbers; a task's own events arrive in order.
* **Mock backend**: tokens are unique, announced once and closed at most once;
  a receipt tells what was carried and when; bonds and events agree; results
  of discovery are exact.
* **Inbound pairing on BlueZ**: the adapter is closed again after the window,
  whatever fails; a call stops at its limit; no bond is reported twice.
* **Push on BlueZ**: a receipt means the caller's own bytes arrived; progress
  adds up to it; session and staged file are removed; no step of the loop is
  begun more than a poll past the deadline.
* **Uploads and OBEX on Android**: success means whole objects delivered; a
  second copy needs the peer to have rejected the last packet of the first, or
  its DISCONNECT; after a file that failed nothing is sent; packets fit what
  the peer accepts; a bar that says done tells the truth.
* **Address changes**: nothing asked for under another identity goes out under
  the real one unless that one was put back meanwhile; an undisturbed call runs
  as asked; no spoof that succeeds leaves the controller off; calls end.
* **Discovery**: nothing twice in a call, nothing wanted missed by an
  undisturbed one, nothing wanted lost between overlapping ones; the radio rests
  afterwards.
* **Port authentication**: what is cached was true while it was read, and comes
  to be true once the network rests.
* **Diagnostics**: breakdowns partition the log, whatever order it arrived in;
  a recorder drained while tasks emit loses nothing.

## Modules

| module | what it models |
|---|---|
| `BatchPairing` | the abstract promise of a batch: targets, a budget of calls each, a verdict |
| `PairWorkflow` | `workflow.rs`, over `pair` of the mock, BlueZ, Android or btleplug, and the agents |
| `PairWorkflowProofs` | proofs of its type invariant and safety properties, and that it implements `BatchPairing` |
| `EventStream` | stamping an event under the backend's mutex, and delivering it outside |
| `EventStreamProofs` | proofs of its safety properties, for any number of tasks and observers |
| `MockBackend` | `mock.rs`: discovery, pairing both ways, connections, transfers, by several tasks; instantiates `EventStream` over its own variables |
| `MockBackendProofs` | proofs of its type invariant and safety properties, and that its steps are those of `EventStream` |
| `InboundWindow` | BlueZ's `accept_pairings`: the call, its agent, the adapter's switches and timers, the peers |
| `InboundWindowProofs` | proofs of its type invariant and safety properties |
| `BlueZPush` | BlueZ's `push_file`: the staged file, the OBEX session, the transfer in obexd, lost signals, polls and the deadline, for concurrent pushes |
| `BlueZPushProofs` | proofs of its type invariant and safety properties |
| `LocalAddress` | `discover_as`, `connect_as` and `connect_default` over one BlueZ adapter, with the management socket of `pax-hci` and the kernel behind it |
| `Upload` | `upload_files` and its retries over Android's OBEX push, and the progress observer |
| `Discovery` | `discover` of Android with its Java companion, of btleplug and of BlueZ |
| `DiscoveryProofs` | proofs of its type invariant and safety properties |
| `PortAuth` | both resolvers of port-auth state and their overlapping refreshes |
| `BlueZAdapterProofs` | proofs of the type invariants and safety properties of `LocalAddress` and `PortAuth` |
| `Diagnostics` | the real backends' `emit`, the recorder, and `metrics.rs` / `analyze.rs` as functions of its logs |
| `UploadDiagnosticsProofs` | proofs of the type invariants and safety properties of `Upload` and `Diagnostics` |
| `MC*` | values of the constants for TLC |

Where a definition such as `ReadOtherForever` or `StopForgettingQueue` stands
before the one it is a variant of and is used nowhere, it is a plausible mistake in that
code; `PROJECT.json` names the property that would catch it.

### PairWorkflow

One behaviour is one call, chosen from `Requests`. A step runs from one await
to the next. `trying[d] > 0` says that a `pair_device` future for `d` is
suspended inside `backend.pair`, in that attempt; `Launch` is
`buffer_unordered` polling the next future while a slot is free,
`AgentReplies` / `BackendReturns` is the backend's answer, `Resume` is the
match on it in `pair_device`, and `Settle` the loop body of `pair_devices` that
updates the item. The code collects a whole round's results before it applies
them; the model applies each as it completes, which nothing can tell apart
because items are read only after the round, and which keeps the code's order
(completion order) of the requeued devices.

A request says which backend it runs on (`Kind`), as the workflow sees it. The mock
prompts, and refuses only on `Confirm(false)` or `Cancel`. BlueZ grants a
prompt only for the matching reply, may succeed with no prompt at all (the code
then calls it Just Works), and reports every failure as `PairingFailed`, be it
that the device is bonded already. A request names the devices bonded before the call
(`bonded`): bonds outlive the process. Android never prompts and returns success
when bonding starts. `started` holds the devices whose bonding may go on once
`pair` has returned: those of Android, and on BlueZ one whose `Pair` failed,
since its reply may only have been late; `OsBonds` is the system finishing it.
btleplug does not support pairing.
Prompts and replies are names; passkeys and PINs have no value, since nothing
here depends on which one is given. `U32Max` stands for 2^32 - 1, so that the
saturation of `retries + 1` is reached.

`calls` and `refused` are history: the number of `backend.pair` calls for each
device, and the devices whose prompt the agent refused.

### EventStream

`Stamp` is the critical section of `MockBackend::emit`: it takes the sequence
number and the time and advances both. `Deliver` is one observer's `on_event`,
called by `FanOut` in turn, after the lock is released. `held[t]` and `due[t]`
are the event a task is carrying and the observer it hands it to next.
`Advance` is the window of `accept_pairings`, added to the clock at once.

### MockBackend

Each task is in at most one call, `job[t]`. A step is one critical section of
the mutex, one delivery, or the agent's answer. The event variables are those
of `EventStream`, and each emission is its `Stamp`, so that `ImplementsStream`
(`Stream!FairSpec`, its fairness included) says: whatever the operations do, the
stream keeps its promises. What an event
says (`said`) is kept beside it. Connections are cloneable in Rust, so any task
may use any handle that `connect` has returned: `handles` keeps them all,
closed ones included. `Cancel` is the caller dropping a pairing future while
the agent is asked, the only await in the mock that may really suspend.
Powered state, the address register and GATT values are left out: each is one
assignment or read under the lock.

### InboundWindow

Several calls share one adapter. `pc[c]` is the await a call is at, from the
registration of its agent to its return; one action moves it over each. The
agent's callbacks (`Ask`, `Grant`, `Refuse`) run beside the call on the same
`bonded` set, and `Settle` is what BlueZ makes of an authorised pairing.
`agents` is bluetoothd's list of agents, of which the last answers; dropping a
call's handle (`Leave`) removes it and cancels what it was being asked.

Time is counted in polls of the loop (250 ms in the code, `PollsPerSecond`).
`Tick` passes one: it wakes the sleeping calls and runs the adapter's timers.
A task that is awake runs before time goes on; a D-Bus call may take longer
than that when `SlowBus` holds. `Fallible` says which of a call's D-Bus requests may
fail, and `MayDrop` whose caller may drop the future, at any await but the first.
What the adapter and bluetoothd do is modelled from how the code uses them and
marked external. `Switches` are the timeouts and the switching on of
`accept_pairings` (bluez.rs:636-638); the backend's public `set_discoverable` and
`set_pairable` (597-617), which `accept_pairings` does not use and which round a
timeout of under a second to 0, are not modelled. A window cannot be `Never`
long, and the overflow of `as_millis() / 1000` past 2^32 seconds is left out.

### BlueZPush

Each push is one call of `push_file`; `pc[p]` is the step it is at, from
`File::create` to the answer of `RemoveSession`. What they share is the
temporary directory: `entry[n]` is the file under a name, and an open handle
(`handle`, obexd's `source`) goes on reading or writing a file whose name is
gone. `PathOf` is the name the code makes of the process and the object, so two
pushes of equally named objects have the same one; `Names` holds the ways the
pushes may be named. `Transmit`, `Conclude` and `Vanish` are obexd: it reads the
staged file as it sends it, reports by property changes, and withdraws a
transfer that has ended. A change is only seen once the push has subscribed,
and obexd need not report every byte.

At the top of the loop of `run_transfer` the push asks for Status and awaits the
answer, on which the code sets no timeout: `TellStatus` is obexd giving it, up to
`Stall` later, and `seen` what it said, which may be old when `Check` acts on it
and then compares the time with the deadline. `ReadSignal` is a change that has
arrived, `StopWaiting` the poll interval running out. `Tick` passes time while
calls wait for a signal or for that answer; steps that need no waiting come
first, so `elapsed` is what the deadline is compared with.
`Fallible[p]` names what may fail for each push, its caller dropping the future
("drop") included. An object's bytes are members of a small set; obexd's
"queued" status counts as active, and a change that carries both Transferred
and Status is read as two. `CreateSession`, `SendFile` and `RemoveSession` take
no time here, though the code puts no limit on them (the deadline is only
compared with what the loop has taken), and the bus connection is not lost.

The reading `Alone(p)` in `ReceiptIsTrue` is what the code delivers: for pushes
that share a staged name the statement is false (see Findings).

### LocalAddress

Calls of `discover_as` and `connect_as` with an address, of either without one,
and of `connect_default` (which only powers up and asks for the controller's
information) run at once over one adapter. `Begin` is `apply_spoof` with its
capability check and `set_local_address`'s lookup of the index; then `pc[c]`
goes through the commands of `spoof_public_address`, off, address, on
(`AfterSuccess`), each on a management socket of its own. `Send` writes a
command, `ReadOther` / `ReadAnswer` / `ReadInfo` are one iteration of the read
loop, `ReadTimesOut` its 2 s timeout. `Reads` is the code's 16. `PowerUp` is the
`set_powered(true)` of bluer that follows, and `Operate` the discovery or
connection, at the moment it goes on the air.

The kernel keeps `pending` commands apart from the calls: `CarryOut` may come
after the caller has given up, may refuse, and answers only a socket that is
still being read. `Announce` is any event for everyone. The spoof runs in
`spawn_blocking`: a caller that leaves in the middle of it (`Drop`) stops
nothing, the thread goes on (`dropped`).

`Reassert` is bluetoothd putting the controller's own address back, at any
moment: `pax-hci/src/lib.rs:49-50`, its documentation of `spoof_public_address`
(213-215) and README.md:637-638 say that it may do so when it next manages the
adapter. The code neither prevents nor notices it. The own address (`Factory`)
is among those a caller may ask for, as `tests/hardware.rs:148-153` does to
restore it. Two variables are history: `disturbed`, the calls during which
another's `off` or `address` took effect or bluetoothd put the address back; and
`exposed`, the calls since whose own change of the address it became the
controller's own again, by bluetoothd or because another call asked for that.
The properties except these calls, in so many words; `ScansUnderSpoof`, which
does not, is refuted. No property covers an address that has changed although
the caller was told that it has not (a spoof that fails at its last step, or
whose answer came too late): nothing in the code undoes it, and the model
contains these outcomes.

### Upload

`Connect` .. `Leave` are `upload_files` for one caller, `Start` .. `Conclude`
one `push_file` of the Android backend: a socket of its own, an OBEX CONNECT, PUT
packets, DISCONNECT. `Ask` writes a request, `Answer` is the peer's reply to it
(success, continue, refusal, or a broken answer after the peer did or did not act
on the request; a peer that keeps the object may answer its last packet with
any code, such as one of OBEX's other successes, which the client takes for a
rejection), `Acknowledged`, `Refused` and `ReadFails` are what the client
makes of it. `MayRetry` is the match of `push_with_retries`. `Overhead`, `Take`
and `IsLast` are the packet arithmetic of `obex_opp.rs`, over byte counts.

An object is its length and a name its number of UTF-16 units; the 16-bit
lengths of a name never wrap here because names stay short. The code's other
conversions (obex_opp.rs:168, 173 and 218-220) are taken as exact: a packet and its
body stay below 8192 bytes unless the name is longer, and the length announced
is right for objects under 4 GiB.
`shown` is the `ProgressObserver`'s line: one object name for all it hears, set
by `TransferStarted`. `late` (the attempts whose last packet or DISCONNECT was
rejected), the `attempt` of each object kept, and `overlap` are history.

### Discovery

`kind` chooses the backend all calls use. An entry (`Entry`) is a device with a
strength, which may be unknown, and whether it bears the name filters look for;
each answer (`Adverts`) is an entry of its own, so that a device may be heard weak
and nameless first and well later. What a system lists of a device that has not
answered is `Stored`. On Android, `StartAndroid` lists the
bonded devices and starts an inquiry through the companion, which registers its
receiver and leaves the queue as it is; `Answer` is a device found, queued by the
receiver; `Poll` and `StopDiscovery` are the drain after the window and the
stop, and `Merge` the loop of `discover` that adds one drained device after
another to the bonded ones, unless listed already. Without a `Context` it falls back to the bonded devices. On btleplug and
iOS, `StartScan` / `ListPeripherals` scan and list what the library knows by
then. On BlueZ, `StartSession` opens a stream of devices that `SessionEnds` at
its window. `Sift` looks at one entry: seen before, filter, limit, then
`DeviceDiscovered`. `Drop` is the caller leaving at an await, `DrainFails` a
JNI error. Android's filter sees the entry that was listed first
(`Seen`); btleplug and BlueZ ask for the device's properties as they look at
it, `props`: the last strength heard, and the name once one was heard, which is
assumed of their libraries (`Update`). A library that has lost a strength since
counts as one whose properties could not be read.

A device is `Wanted` by a call whose filter accepts every entry told of it: all
that it ever answered (`answered`) and, on Android, what a bonded one is listed
with. The properties that nothing is missed are about such devices, because for
others it is an accident which entry decides; `OneGoodAnswerSuffices` is refuted.
`answered`, `heard`, `crossed`, `forgotten` and `partial` are history and say
what devices answered, in whose window, which calls overlapped, what bluetoothd
forgot and which call passed over an error.

### PortAuth

`kind` chooses the resolver. `BeginRefresh` lists the interfaces, `ReadNm` /
`ReadWpa` ask for the properties of one of them, in the service's present
state, and `Store` replaces the cache under its lock; `Change` moves an
interface to another state, removes it or brings it back, between any two of
these. `ListFails` is the early return. `Refresher` holds background tasks
(`Background`, which refresh for ever) and callers. NetworkManager's answers are kept
per device, wpa_supplicant's as one state, the highest by `rank`. `held`,
`steady`, `broken` and `basis` are history of each refresh and of the one
stored last.

### Diagnostics

`Resolve`, `Number`, `Stamp` and `Deliver` are the steps of the `emit` of the
real backends: the standards, the sequence number (`fetch_add`), the wall clock,
the observer. `SetClock` moves the clock to any instant, back included. `Drain`
is `Recorder::drain`. `report` is `Analyzer::new` and `Analyzer::report`: the log
sorted by sequence number, the total and a `breakdown` along each of the seven
dimensions, each a loop of `record`, and the `anomalies`. Each loop is a
recursive function of the number of events it has passed. `SortedBySeq` says
where a stable sort puts each event (`Place`): after those with a smaller
number, and after those with the same number that arrived before it.
The report is evaluated on every log the recorder can hold, not on made-up ones.
`emitted` is history: the number of each event delivered, with its backend.

## Runs

| run | shows | instance |
|---|---|---|
| `pair` | budgets, slots, spoofing before pairing, a truthful report, no second question after a refusal that was told, the abstract batch, termination; on every backend | 3 devices (one unknown, one named twice, one bonded before or not), 0..2 rounds and retries, 0/2 slots or the default, with and without spoofing, an agent that answers anything |
| `pair_bluez_refusal` | *violation*: a refused device is asked again | requests on BlueZ |
| `stream` | completeness, time order, own order | 3 tasks, 2 observers, 4 events, clock up to 4 |
| `mock_push` | the life of a token; receipts, and what the log says of them | 2 tasks, 3 calls, a sound and a failing link, files of 0, 2 and 3 bytes |
| `mock_pairing` | bonds, discovery, the abstract stream with its fairness | 2 tasks, 2 calls, 3 devices (one unknown, one failing) |
| `window_shared` | a call stops within a poll of its limit, no bond is reported twice, the adapter always reverts, calls end | 2 overlapping calls, one limited to 1 device, which may meet failures of registration and switches or be dropped, 2 peers, one pairing up to twice, a slow bus |
| `push` | a receipt is true, progress adds up to it, sessions and staged files are cleared, no await of the loop begins a poll or more past the deadline | 2 pushes, of two bytes and of none, under one name or two; the first meets every failure and an obexd 1 late; polls of 2, a deadline of 1 |
| `address` | nothing under the real address that was not put back, an undisturbed call runs as asked, no success leaves the controller off, calls end | 2 calls of any kind, 2 addresses, one of them the controller's own, bluetoothd putting it back at any time, 2 reads for an answer, up to 1 other event in a socket |
| `upload` | success is delivery, further copies have two causes and a failed file is the last, packets fit, done means done | 2 uploads: of 300 bytes and of none, with a retry; of 2 bytes under a name of 130 units, without; peers that announce 100 or 65535 |
| `discovery` | nothing twice, nothing wanted missed alone or lost between, the radio rests | 2 calls, a bonded device and another that is heard weak and nameless or well, 3 answers; one call takes all, the other too, or filters by strength and name, or has a limit of 0 |
| `auth` | the cache was true during the refresh, and comes to be true | a background task and a caller, 2 interfaces, 1 change, 1 error, on either resolver |
| `diagnostics` | splits add up, arrival order is irrelevant, each event captured once | 3 tasks of 2 backends, 3 events (chunk, error, warning), 1 drain, a clock of two instants |

**Why the bounds are enough.** Three devices give every pair of relations
between two devices (in flight / waiting / requeued / decided) with a third one
holding a slot. Two rounds of up to three attempts reach every branch of both
retry loops and the saturation. Two tasks are enough for a race on one token or
one bond, three for an event overtaken by two others. Chunks of two bytes
against three give a short last chunk, `0` gives the empty file, and the
failing link sits exactly at its limit. Two inbound calls, one window under a
second and one above, suffice for one call to switch off what another has
switched on and for each to own the default agent in turn; two peers for a
limit of one to be exceeded during one sleep, and one of them pairing twice for
both calls to report it. Only one call fails or is dropped: what it leaves open
is then seen with the other's closing before and after it. Two pushes are what
sharing a name needs; an object of two bytes can be reported in part, one of none is
complete before it starts. With a deadline shorter than a poll a single wait passes
it, signals that come in between must not start another, and an obexd that is
late by one overruns deadline and poll together.
(The run identifies states that differ only in a push's loop variables after its
loop is over, `MCView`: nothing reads them there.)

Two spoofs interleave at every command, and two reads let an answer come first,
come after another event, or, with one more event since, be crowded out. A peer that announces 100 is raised
to 255 by the code, so that 300 bytes take two packets, and 65535 is cut to
8192; 130 units fill a packet of 255 on their own. One retry of one file is what
a second copy takes, and the empty file after it is what a failure must keep from
being sent. Two overlapping discoveries are what sharing a queue and an inquiry
needs, three answers let a device answer before, between and after two drains,
or weakly at first and well later, in either order.
One change between two reads of two interfaces is what a torn refresh needs, one
refresh overtaking another what a stale store needs; the background task
refreshes again and again. Three events fill two batches unevenly and let times
run against numbers.

Bounds are named, each where it is declared: `Stall`, `MaxEvents`, `MaxTime`, `MaxCalls`,
`MaxTries`, `Crowd`, `Answers`, `Changes`, `Errors`, `Emissions`, `Drains`,
`Instants`. The theorems hold for every value of them; `PairWorkflow` and
`Upload` have none.

`CHECK_DEADLOCK FALSE` is stated because every modelled call ends: after the
last one nothing more happens.

**Fairness.** `PairWorkflow!FairSpec`: the runtime polls a task that can go on,
a backend's `pair` returns, and the agent answers. The last is an assumption on
the caller: no timeout surrounds `agent.respond`, so an agent that never answers
blocks its batch. Nothing is assumed of Android finishing a bond.
`EventStream!FairSpec`: `on_event` returns, as `observe.rs` asks of it.
`MockBackend!FairSpec`: a task that can take a step of its own eventually does.
`InboundWindow!FairSpec`: time passes, and a call's D-Bus requests return, with
an answer or an error (bluetoothd's replies and D-Bus's own timeouts). Nothing
is assumed of the peers, the agent or the caller. `Reverts` further needs that
the adapter's two timeouts could be set, which the code attempts but does not
insist on; with them the adapter closes even when nobody is left to close it.
`LocalAddress!FairSpec`: a call that can go on does, where a read that finds
nothing ends with its 2 s timeout and bluetoothd answers, with an error if
need be; nothing is assumed of the kernel carrying out a command, and bluetoothd
may put the address back again and again.
`PortAuth!AuthFairSpec`: the background task's timer fires and its D-Bus calls
return; nothing is assumed of a caller's refresh, which may hang for ever with an
old answer and store it late.

## Findings

`RefusalIsFinal` is shown by a run that expects the violation: the top-level
README says a real refusal is never re-asked; on BlueZ a refusal comes back as
`PairingFailed` and is retried. (`ToldRefusalIsFinal`, which passes, is what the
code does deliver: a refusal the backend reports as one is final.)

Other statements of docs and comments are kept in their module as definitions,
after the properties, and named as refuted there. None of them is part of a run;
TLC finds each violated when it is put in place of the properties of the
configuration given:

| definition | stated at | what the code does | configuration |
|---|---|---|---|
| `InNumberOrder` | observers hear events in `seq` order | two tasks of the mock deliver them otherwise | `Stream.cfg` |
| `RestoredOnExit` | discoverable and pairable are off on exit | when `set_discoverable(true)` fails, pairable stays on | `WindowShared.cfg` |
| `ReturnedHaveBonded` | `accept_pairings` returns the devices that bonded | on BlueZ it returns those its agent authorised | `WindowShared.cfg` |
| `ReceiptProvesTransfer` | a receipt proves that a transfer completed | two pushes of one name share the staged file; one may empty or replace it while obexd sends it for the other | `Push.cfg` |
| `FinishedIsSeen` (temporal) | a transfer that finishes before or between signals is noticed | once obexd has withdrawn the transfer its Status cannot be read, and the push waits for its deadline | `Push.cfg` |
| `NeverBlocksPastDeadline` | obex.rs:138-139, the loop wakes "so we never block past the deadline" | it awaits a read of Status first (117), without a timeout: an obexd slow to answer holds the push when deadline and poll are over | `Push.cfg` |
| `OnlyMidFlightRetried` | only a mid-flight failure is retried | an answer but the expected one to the last packet, or to the DISCONNECT, is a rejection too, though the peer has the whole object: it is pushed again | `Upload.cfg` |
| `DoneNamesItsObject` | the last update of an object names it | overlapping uploads are shown under whichever object started last | `Upload.cfg` |
| `ScansUnderSpoof` | backend.rs:572-575, `discover_as` scans under the address given | another call, or bluetoothd, may change it between the spoof and the scan | `Address.cfg` |
| `OneGoodAnswerSuffices` | backend.rs:159-166, the filter decides what is returned | Android keeps the first entry of a device, so one heard weak or nameless, or listed as bonded, is filtered by that | `Discovery.cfg` |
| `NoPacketOverMax` | the negotiated size is a maximum | a first packet whose name leaves no room exceeds it | `Upload.cfg` |

Noted while modelling and not run: Android reports a bond when bonding has only
started, and an early `?` in its `pair` leaves a `PairingStarted` without an
end; the mock's `accept_pairings` counts devices tried, not bonded, against
`max_devices`, and its GATT calls look at a connection's peer only, so that they
work on a closed one, too; BlueZ's timeouts are the window rounded down to a second, so the
last fraction of a window is spent closed; `read_inner` of `pax-hci` passes over
a Command Status, so a refused query waits for its timeout; the task of
`spawn_auto_refresh` holds an `Arc` of the resolver whose last drop is meant to
end it; `WpaSupplicantStandards::for_interface` copies the state cached for all
interfaces into a resolver that a task refreshing the first never refreshes; the documentation of `payload_bytes` names
`TransferCompleted`, and only `DataChunk` counts; a name that contains `|`
garbles the companion's line.

## Proofs

All for every value of the constants allowed by the named assumptions:
`PairAssumption` (devices are finite, requests well formed), `StreamAssumption`,
`WindowAssumption`, `PushAssumption`, `AddressAssumption`, `UploadAssumption`,
`MockAssumption` (scripts and calls well formed), `DiscoveryAssumption`
(answers and filters are well formed, their strengths integers or `None`; what a
system lists unheard has no strength; finitely many devices are bonded),
`PortAuthAssumption` (background tasks are refreshers, Bluetooth interfaces are
interfaces) and `DiagnosticsAssumption` (each task runs on a backend, sizes are
numbers).

* `PairWorkflowProofs`. The inductive invariant is `TypeOK /\ Accounting`.
  None of the properties is inductive alone: that a target has used its whole
  budget when the batch returns (`EveryTargetGetsItsBudget`) needs to know, in
  each round, that every target is decided, in flight, waiting or requeued, and
  how many calls each of these places stands for. `Accounting` says so, per
  phase. From it: `TypeCorrect`, `AccountingCorrect`, `BudgetCorrect`,
  `NeverTwiceCorrect`, `DecidedCorrect` (an action property), and
  `SlotsCorrect`, which adds the cardinality of the set in flight;
  `BatchCorrect`, that every step of the workflow is a step of `BatchPairing`
  or a stutter under the mapping at the end of `PairWorkflow`; `SpoofCorrect`;
  `ReportCorrect`, since at every moment a device whose item says "ok" is
  bonded, and one that is bonded has that item, was bonded before the call, or is
  being bonded by an OS that went on (`BondsReported`, not on Android); and `ToldRefusalCorrect`,
  an action property, since on the mock a refused device is decided
  (`RefusalsReported`) and `Accounting` keeps the decided out of the queue.
* `EventStreamProofs`: one inductive invariant (`StreamCorrect`) that places
  each number: in an observer's log, or owed to it by exactly one task. From
  it `NothingLost`, `TimeCorrect`, `OwnOrderCorrect`.
* `MockBackendProofs`. `TypeCorrect` gives each `job` the fields of the point it
  is at. `StreamImplemented` is the refinement without its fairness, and
  `LogCorrect` carries the invariant of `EventStreamProofs` over to the mock's
  log. `BondsCorrect` rests on `BondInv`: a bond is in the table from the step
  that makes it, before any event tells of it. `DiscoveryCorrect` rests on
  `Scanned`, that what was found so far is a selection of what was looked at,
  with nothing accepted left out. `LinkLifeCorrect` needs five facts of tokens
  (`TokenInv`: all below the next, none told before it is issued, said once each
  way, dead once said to be, closed by one task alone) and, of each observer,
  that no event of a token is in its log or on the way to it before the
  `Connected` (`OpenInv`), which holds because a handle is given out only after
  that event has reached every observer. `ReceiptCorrect` puts three
  invariants together: `SendInv`, that a transfer has sent whole chunks, within
  the link's limit, at their time (`Quotient` and its like turn that into the
  code's divisions); `CallInv`, that no two calls share a number; `TallyInv`, that
  the chunks in each observer's log, with the one it is still owed, are
  those sent.
* `InboundWindowProofs`: the invariant is `TypeOK /\ Tallied /\ Limited`.
  `Limited` ties the polls spent over the limit to a sleep that was already
  under way, which is what makes `LimitCorrect` inductive; `Tallied`
  says that a peer two calls have recorded has attempted at least two pairings,
  and one that is asked again after being recorded too, from which
  `ReportedOnceCorrect` follows.
* `BlueZPushProofs`: `TypeCorrect`; `SessionCorrect`, from where each session is
  open; `TimeCorrect`, whose invariant (`InTime`) says that every await of the
  loop began within a poll of the deadline, and one for a signal before the
  deadline and no longer ago than a poll, however long Status takes: it uses no
  bound on `Stall`;
  `StagedCorrect`, that every name in use is answered for by a push that has yet
  to remove it or failed to write it, and with the sessions `NothingLeftCorrect`;
  `ProgressCorrect`, whose invariant orders
  the signals still to be read and bounds them by what was sent;
  `ReceiptCorrect`. For that one, `FileNames` says that a file is
  reached only by pushes of its own name, so that nobody disturbs the file of a
  push that is alone with its name; `Sent` that the peer has a beginning of the
  object, all of it when obexd says complete; `Known` that a signal of completion
  is only sent for a complete transfer. The last two need each other and the
  order of the signals.
* `BlueZAdapterProofs`, `LocalAddress`: `TypeCorrect`, `NeverUnmaskedCorrect`, `AloneCorrect`,
  `NeverSilentlyOffCorrect`. That a call operates as it asked rests on reading
  answers right, with the kernel free to act late: `Awaited` says that a command
  of a call still to be carried out is the one it waits for, or that the call has
  failed, so an `ok` in its socket (`Silent`: sockets not read are empty) is
  for the present step. `Masked` follows the address once set (`IsSet`): that of
  a call nobody disturbed is the one it asked for, and that of a call that is
  not `exposed`, if it asked for another than the controller's, is not the
  controller's, whatever other calls set it to;
  `Lit` and `Owed` keep track of who will power a controller on that is off.
* `UploadDiagnosticsProofs`, `Upload`: `TypeCorrect`, `DeliveryCorrect`, `CopiesCorrect`,
  `PacketsCorrect`, `DoneCorrect`. `Fine(c)` is about one upload alone: what
  client and peer count is in step (`InStep`), so an object the peer ends is
  whole (`Whole`); receipts are those of the files before (`Receipted`); and a
  copy of the present file is `Settled`: of an earlier attempt, which was repeated
  because its last packet or DISCONNECT was rejected (`Again`), or of this one,
  whose last packet has been answered (`Ended`); that copies are `Ordered` follows
  as each is added (`Explained` is both). `OthersSame` and `SameFine` carry it past the
  steps of other uploads. `Named` ties the progress bar to the one upload under
  way while none overlap.
* `DiscoveryProofs`: `TypeCorrect`; `OnceCorrect`, from an invariant of each call
  by itself (`Local`: what it returned and what it has still to look at hold a
  device twice only if bluetoothd forgot it; on BlueZ both are known to
  bluetoothd or forgotten); `RestCorrect`, since while the radio searches or the
  receiver is registered some call is at a step that will see to it, or one
  did not end well (`RadioInv`); `CompleteCorrect`, where `Kept` follows a
  device from the queue through what was drained and listed to what is returned,
  and `Alone`, that calls which run at once have crossed, keeps other calls'
  hands off the queue; `BetweenCorrect`, where `Somewhere` follows it through
  any number of calls. Neither would hold if a call could look at anything that
  was not told of a device: `Measured` and `QueueTruly` say that on Android
  what is queued, drained and listed was (`Truly`), and on btleplug that the
  properties are as good as some answer (`Good`); and a further answer only makes
  a device wanted by fewer. That `Merge` is a step for each drained device, as the
  loop is in the code, is what lets induction over steps take the place of
  induction over the drained list.
* `BlueZAdapterProofs`, `PortAuth`: `AuthTypeCorrect`; `CacheCorrect`, that what
  a resolver answers was true of an interface of the device at some moment of the
  refresh that stored it, or is `n/a`, or stands for a state that could not be
  read. `CacheWasTrue` speaks of the cache; the invariant (`AuthInv`) has to say
  the same of each refresh under way. `Witnessed`: what the interfaces are in now
  is among what a refresh takes for held, and what it takes for steady is still
  so. `Gathering`: what it has gathered is true of what was held (`TrueOf`,
  `AllTrue`), and with wpa_supplicant no steady interface it has read outranks it
  (`Topmost`). `Rested`: a refresh not under way has gathered nothing. `Stored`
  says of the cache what `Gathering` said of the refresh it came from, however
  late that one stored.
* `UploadDiagnosticsProofs`, `Diagnostics`: `RecordTypeCorrect`; `CapturedCorrect`,
  from `NumbersOnce`: a number given by a backend's counter is of one event only,
  being made by one task or delivered, so that as many events are drained or held
  as numbers were delivered; `SplitsCorrect` and `ArrivalCorrect`, which
  are about the analyzer and hold of any log of events, of any length.
  For those the loops of `analyze.rs` and `metrics.rs` are followed by induction.
  The library's induction theorems take an operator, which no installed prover can
  instantiate, but its theorem on well-founded relations (`WFMin`) does not: from
  it `Least`, that a set of numbers has a least one, and `Induction`, on a set
  in place of an operator. A recursive function is a `CHOOSE`, so each needs to be
  shown to exist: `Loop` does it for any loop that takes a step of one set to
  itself, and `TotalsAre`, `BucketsAre`, `AnomaliesAre` and `Flatten` use it.
  `SumsAre` does it for the sum of the community modules, which takes the
  elements in an unspecified order; `SumsRemove` shows that the order does not matter, and
  `SumUpdate` what becomes of a sum when one number changes or is added.
  `BreakdownAgrees` is then the induction itself: after each event the counts of
  the buckets add up to the total's, and their times lie within it (`Agree`).
  `ArrivalCorrect` rests on `PlaceInjective` and `PlaceSurjective`, that sorting
  gives each event a place of its own and leaves none empty, and on `SwapSorts`, that exchanging two
  neighbours with different numbers leaves every place as it was.

**Only model-checked**: the liveness properties, and with them the fairness in
`ImplementsStream` (the prover does not handle fairness and ENABLED). Every
invariant and every action property that a run checks is also a theorem.

## What could be added

* Proofs: the safety halves of the liveness properties: who will act in each
  state that must not last.
* Models: `upload_files` over BlueZ's push, with the retries of the one around
  the sessions of the other.

## Not modelled

* **Command line**: argument parsing and printing around single library calls;
  the process ends after each.
* **GATT** on every backend, and `connect` / `disconnect` of the real ones beyond
  their result: one library call each, no state of pax's own.
* **Power, address and GATT registers of the mock**: one assignment or read
  under the lock.
* **Value types of `pax-core`**: parsing, formatting and lookup tables, which
  unit tests enumerate; `PortAuthState` and the saturating difference of
  timestamps are modelled where other modules use them. `Recorder::events`
  and `len` are one locked read each.
* **Rendering**: text of reports, progress bars and messages.
* **Marshalling**: D-Bus and JNI values; the framing of management packets and OBEX
  headers beyond their lengths.
* **A lost bus connection** in the watch loop of a BlueZ push, which then asks
  for Status without waiting until its deadline, and **delays inside
  `CreateSession`, `SendFile` and `RemoveSession`**, which no deadline covers.
* **`set_discoverable` and `set_pairable`** as callers may use them on their own.
* **Conversions of lengths to `u16` and `u32`** in OBEX packets, where nothing
  else keeps them in range.
* **Examples and tests**.
