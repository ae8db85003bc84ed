---------------------------- MODULE Diagnostics ----------------------------
(***************************************************************************)
(* From the tasks that emit events to the report on them: backends whose   *)
(* tasks emit at once into one Recorder, which somebody drains now and     *)
(* then, and the Analyzer's breakdowns of any log it is given.             *)
(***************************************************************************)
EXTENDS Integers, Sequences, FiniteSets, Functions, SequencesExt

CONSTANTS
  Task,        \* the tasks that emit
  Backend,
  Drives,      \* Drives[t]: the backend t runs on
  Controller,  \* Controller[b]: how b labels its controller
  Spec802,     \* the [radio, port_auth] profiles a resolver may give
  Happening,   \* what may happen: [peer, kind, bytes]
  Emissions,   \* bound: events
  Drains,      \* bound: drains
  Instants     \* bound: what the wall clock may show, stepping back too

ASSUME DiagnosticsAssumption ==
  /\ Drives \in [Task -> Backend]
  /\ \A h \in Happening : h.bytes \in Nat
  /\ Emissions \in Nat /\ Drains \in Nat /\ Instants \subseteq Nat

VARIABLES
  clock,    \* the wall clock
  counter,  \* counter[b]: b's next sequence number
  stage,    \* stage[t]: "idle", "resolved", "numbered" or "stamped"
  event,    \* event[t]: the event t is making
  events,   \* what the recorder holds, in arrival order
  batches,  \* what was drained
  emitted   \* the numbers of the events delivered: <<backend, seq>> (history)

recordVars == <<clock, counter, stage, event, events, batches, emitted>>

-----------------------------------------------------------------------------
(* Events. *)

payload_bytes(e) == IF e.kind = "data-chunk" THEN e.bytes ELSE 0
is_failure(e) == e.kind \in {"error", "pairing-failed"}

SplitBy ==
  {"controller", "spec", "transport", "radio", "port_auth", "kind", "peer"}

(* The bucket of an event: its origin's label along a dimension. *)
key(by, e) ==
  CASE by = "controller" -> e.local
    [] by = "spec"       -> e.spec
    [] by = "transport"  -> e.spec[2]
    [] by = "radio"      -> e.standards.radio
    [] by = "port_auth"  -> e.standards.port_auth
    [] by = "kind"       -> e.kind
    [] by = "peer"       -> e.peer

-----------------------------------------------------------------------------
(* Metrics. *)

Never == -1
NoMetrics ==
  [events |-> 0, bytes |-> 0, failures |-> 0, warnings |-> 0,
   first_at |-> Never, last_at |-> Never]

(* One more event in a summary. *)
record(m, e) ==
  [events |-> m.events + 1, bytes |-> m.bytes + payload_bytes(e),
   failures |-> m.failures + (IF is_failure(e) THEN 1 ELSE 0),
   warnings |-> m.warnings + (IF e.kind = "warning" THEN 1 ELSE 0),
   first_at |-> IF m.first_at = Never \/ e.at < m.first_at THEN e.at ELSE m.first_at,
   last_at  |-> IF e.at > m.last_at THEN e.at ELSE m.last_at]

from_events(s) ==
  LET m[n \in 0 .. Len(s)] == IF n = 0 THEN NoMetrics ELSE record(m[n - 1], s[n])
  IN  m[Len(s)]

saturating_since(a, b) == IF a < b THEN 0 ELSE a - b

span(m) == IF m.first_at = Never THEN 0 ELSE saturating_since(m.last_at, m.first_at)

-----------------------------------------------------------------------------
(* The analyzer. *)

AsArrived(s) == s

(* The place of the i-th event: events go by number, and in the order of   *)
(* arrival where numbers repeat.                                           *)
Place(s, i) ==
  Cardinality({j \in 1 .. Len(s) :
                 \/ s[j].seq < s[i].seq
                 \/ s[j].seq = s[i].seq /\ j <= i})

(* Appending nothing lets TLC compute the sequence once. *)
SortedBySeq(s) ==
  [n \in 1 .. Len(s) |-> s[CHOOSE i \in 1 .. Len(s) : Place(s, i) = n]] \o <<>>

NoBuckets == [k \in {} |-> NoMetrics]

BeginAnew(buckets, k, e) ==
  [l \in DOMAIN buckets \cup {k} |-> IF l = k THEN record(NoMetrics, e) ELSE buckets[l]]

(* The bucket k, begun where there is none, records e. *)
RecordIn(buckets, k, e) ==
  [l \in DOMAIN buckets \cup {k} |->
     IF l # k THEN buckets[l]
     ELSE record(IF k \in DOMAIN buckets THEN buckets[k] ELSE NoMetrics, e)]

breakdown(by, s) ==
  LET buckets[n \in 0 .. Len(s)] ==
        IF n = 0 THEN NoBuckets ELSE RecordIn(buckets[n - 1], key(by, s[n]), s[n])
  IN  buckets[Len(s)]

(* The failures and warnings: what each was, and its number. *)
flagged(e) == e.kind \in {"error", "pairing-failed", "warning"}

anomalies(s) ==
  LET out[n \in 0 .. Len(s)] ==
        IF n = 0 THEN <<>>
        ELSE IF flagged(s[n]) THEN Append(out[n - 1], <<s[n].kind, s[n].seq>>)
        ELSE out[n - 1]
  IN  out[Len(s)]

(* Analyzer::new, then report. *)
report(log) ==
  LET s == SortedBySeq(log)
  IN [total |-> from_events(s), by |-> [d \in SplitBy |-> breakdown(d, s)],
      anomalies |-> anomalies(s)]

-----------------------------------------------------------------------------
(* Emitting. *)

RecordInit ==
  /\ clock \in Instants
  /\ counter = [b \in Backend |-> 0]
  /\ stage = [t \in Task |-> "idle"] /\ event = [t \in Task |-> <<>>]
  /\ events = <<>> /\ batches = <<>> /\ emitted = {}

EventsBegun == Len(events) + Len(FlattenSeq(batches)) + Cardinality({t \in Task : stage[t] # "idle"})

(* Something happens to a peer: the event's origin is put together. *)
Resolve(t) ==
  /\ stage[t] = "idle" /\ EventsBegun < Emissions
  /\ \E h \in Happening, p \in Spec802 :
       event' = [event EXCEPT ![t] =
                   [seq |-> 0, at |-> 0, local |-> Controller[Drives[t]],
                    spec |-> <<"5.2", "BR/EDR">>, standards |-> p,
                    peer |-> h.peer, kind |-> h.kind, bytes |-> h.bytes]]
  /\ stage' = [stage EXCEPT ![t] = "resolved"]
  /\ UNCHANGED <<clock, counter, events, batches, emitted>>

(* next_seq: fetch_add. *)
Number(t) ==
  /\ stage[t] = "resolved"
  /\ event' = [event EXCEPT ![t].seq = counter[Drives[t]]]
  /\ counter' = [counter EXCEPT ![Drives[t]] = @ + 1]
  /\ stage' = [stage EXCEPT ![t] = "numbered"]
  /\ UNCHANGED <<clock, events, batches, emitted>>

(* Timestamp::now. *)
Stamp(t) ==
  /\ stage[t] = "numbered"
  /\ event' = [event EXCEPT ![t].at = clock]
  /\ stage' = [stage EXCEPT ![t] = "stamped"]
  /\ UNCHANGED <<clock, counter, events, batches, emitted>>

(* Recorder::on_event. *)
Deliver(t) ==
  /\ stage[t] = "stamped"
  /\ events' = Append(events, event[t])
  /\ emitted' = emitted \cup {<<Drives[t], event[t].seq>>}
  /\ stage' = [stage EXCEPT ![t] = "idle"]
  /\ event' = [event EXCEPT ![t] = <<>>]
  /\ UNCHANGED <<clock, counter, batches>>

DrainKeeping ==
  /\ Len(batches) < Drains /\ events # <<>>
  /\ batches' = Append(batches, events)
  /\ UNCHANGED <<clock, counter, stage, event, events, emitted>>

(* What was recorded is taken, and a new log begun, under one lock. *)
Drain ==
  /\ Len(batches) < Drains /\ events # <<>>
  /\ batches' = Append(batches, events)
  /\ events' = <<>>
  /\ UNCHANGED <<clock, counter, stage, event, emitted>>

SetClock ==
  /\ \E now \in Instants \ {clock} : clock' = now
  /\ UNCHANGED <<counter, stage, event, events, batches, emitted>>

RecordNext ==
  \/ \E t \in Task : Resolve(t) \/ Number(t) \/ Stamp(t) \/ Deliver(t)
  \/ Drain \/ SetClock

RecordSpec == RecordInit /\ [][RecordNext]_recordVars

-----------------------------------------------------------------------------
(* What the checks say. *)

(* Every log that can be analysed: what was drained, what the recorder     *)
(* holds, and both.                                                        *)
RecordedLogs == Range(batches) \cup {events, FlattenSeq(batches) \o events}

Sum(f, field) == SumFunction([k \in DOMAIN f |-> f[k][field]])

(* Along every dimension the buckets add up to the total, and the flagged  *)
(* events are its failures and warnings; the longest span is the total's.  *)
SplitsAddUp ==
  \A log \in RecordedLogs :
    LET r == report(log)
    IN /\ \A d \in SplitBy :
            /\ \A field \in {"events", "bytes", "failures", "warnings"} :
                 Sum(r.by[d], field) = r.total[field]
            /\ \A k \in DOMAIN r.by[d] : span(r.by[d][k]) <= span(r.total)
       /\ Len(r.anomalies) = r.total.failures + r.total.warnings
       /\ r.total.events = Len(log)

(* The report on a log tells nothing of how the emitting tasks interleaved *)
(* between a number and its delivery, though times may run against the     *)
(* numbers: in any order of arrival that keeps those apart that have one   *)
(* number, the same events make the same report.                           *)
ArrivalIrrelevant ==
  \A log \in RecordedLogs :
    LET r == report(log)
    IN  \A i \in 1 .. Len(log) - 1 :
          log[i].seq # log[i + 1].seq =>
            report([log EXCEPT ![i] = log[i + 1], ![i + 1] = log[i]]) = r

(* Whoever drains while tasks emit: each event delivered is in exactly one *)
(* batch or in the recorder, once.                                         *)
CapturedOnce ==
  LET all == FlattenSeq(batches) \o events
  IN /\ {<<all[i].local, all[i].seq>> : i \in 1 .. Len(all)} =
          {<<Controller[p[1]], p[2]>> : p \in emitted}
     /\ Len(all) = Cardinality(emitted)
=============================================================================
