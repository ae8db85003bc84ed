----------------------------- MODULE Discovery -----------------------------
(***************************************************************************)
(* discover, as the Android, btleplug (and iOS) and BlueZ backends do it:  *)
(* several calls at once over one radio.                                   *)
(*                                                                         *)
(* Android lists the bonded devices, starts an inquiry through the Java    *)
(* companion, whose receiver queues what is found, sleeps, drains the      *)
(* queue and stops the inquiry.  btleplug scans, sleeps and lists what its *)
(* library knows by then.  BlueZ reads a stream of devices of a session of *)
(* its own until its window ends.  The radio and the system services are   *)
(* modelled from how the code uses them.                                   *)
(***************************************************************************)
EXTENDS Integers, Sequences, SequencesExt

CONSTANTS
  Call,      \* the calls of discover
  Device,
  Bonded,    \* the devices bonded to the phone
  Adverts,   \* what devices may answer with, [dev, rssi, named]: the strength,
             \* or None, and whether the name, which an answer may lack,
             \* contains what filters look for
  Stored,    \* Stored[d]: the entry a system lists d with that has not answered
  Filters,   \* the filters callers may give: each c's [min, named, limit]
  None,
  Answers    \* bound: how often devices answer or are forgotten

Entry == [dev : Device, rssi : Int \cup {None}, named : {"yes", "no"}]

ASSUME DiscoveryAssumption ==
  /\ Bonded \subseteq Device /\ Adverts \subseteq Entry
  /\ Stored \in [Device -> Entry]
  /\ \A d \in Device : Stored[d].dev = d /\ Stored[d].rssi = None
  /\ Filters \subseteq [Call -> [min : Int \cup {None}, named : {"yes", "no"},
                                limit : Nat \cup {None}]]
  /\ IsFiniteSet(Bonded) /\ None \notin Int /\ Answers \in Nat

VARIABLES
  filter,      \* filter[c]: min and limit may be None
  kind,        \* the backend all calls use
  context,     \* whether Android was given a Context: "yes" or "no"
  pc,          \* pc[c]: the step the call is at
  found,       \* found[c]: entries still to be looked at
  live,        \* live[c]: entries drained from the companion's queue
  out,         \* out[c]: devices returned; observers are told of the same
  inquiry,     \* whether the radio searches: "on" or "off"
  receiver,    \* whether the companion's receiver is registered: "yes" or "no"
  queue,       \* FOUND, the companion's queue of entries
  known,       \* devices the library or bluetoothd knows
  props,       \* props[d]: the properties it has of d at present
  answers,     \* how often a device answered or was forgotten so far
  answered,    \* what devices answered at any time
  heard,       \* heard[c]: what they answered during c's window
  crossed,     \* calls that another call overlapped
  forgotten,   \* devices bluetoothd has forgotten
  partial      \* calls that passed over an error

radio   == <<inquiry, receiver, queue, known, props>>
history == <<answers, answered, heard, crossed, forgotten>>
vars    == <<filter, kind, context, pc, found, live, out, radio, history, partial>>

Over == {"ok", "failed", "dropped"}

Init ==
  /\ filter \in Filters
  /\ kind \in {"android", "btleplug", "bluez"}
  /\ context \in IF kind = "android" THEN {"yes", "no"} ELSE {"no"}
  /\ pc = [c \in Call |-> "idle"]
  /\ found = [c \in Call |-> <<>>] /\ live = [c \in Call |-> <<>>]
  /\ out = [c \in Call |-> <<>>]
  /\ inquiry = "off" /\ receiver = "no" /\ queue = <<>>
  /\ known \in IF kind = "android" THEN {{}} ELSE {{}, Bonded}
  /\ props = Stored
  /\ answers = 0 /\ answered = {} /\ heard = [c \in Call |-> {}] /\ crossed = {} /\ forgotten = {}
  /\ partial = {}

At(c, here) == pc[c] = here
Goto(c, there) == pc' = [pc EXCEPT ![c] = there]
Running(c) == pc[c] \notin Over \cup {"idle"}

(* Others run while c begins. *)
Cross(c) ==
  LET others == {d \in Call \ {c} : Running(d)}
  IN crossed' = IF others = {} THEN crossed ELSE crossed \cup others \cup {c}

Entries(s) == [i \in 1 .. Len(s) |-> Stored[s[i]]]

-----------------------------------------------------------------------------
(* Starting. *)

(* read_bonded, in whatever order Java's set has, and, given a context,    *)
(* startDiscovery; if that fails, perhaps with the receiver registered,    *)
(* the bonded devices are all there is.                                    *)
StartAndroid(c) ==
  /\ kind = "android" /\ At(c, "idle") /\ Cross(c)
  /\ \/ Goto(c, "failed") /\ UNCHANGED <<found, inquiry, receiver, partial>>
     \/ /\ \E s \in SetToSeqs(Bonded) :
             found' = [found EXCEPT ![c] = Entries(s)]
        /\ \/ /\ context = "yes" /\ Goto(c, "window")
              /\ receiver' = "yes" /\ inquiry' = "on" /\ UNCHANGED partial
           \/ /\ context = "yes" /\ Goto(c, "sift")
              /\ receiver' \in {receiver, "yes"} /\ UNCHANGED inquiry
              /\ partial' = partial \cup {c}
           \/ /\ context = "no" /\ Goto(c, "sift")
              /\ UNCHANGED <<inquiry, receiver, partial>>
  /\ UNCHANGED <<filter, kind, context, live, out, queue, known, props, answers, answered,
                 heard, forgotten>>

StartScan(c) ==
  /\ kind = "btleplug" /\ At(c, "idle") /\ Cross(c)
  /\ \/ inquiry' = "on" /\ Goto(c, "window")
     \/ Goto(c, "failed") /\ UNCHANGED inquiry
  /\ UNCHANGED <<filter, kind, context, found, live, out, receiver, queue, known,
                 props, answers, answered, heard, forgotten, partial>>

(* discover_devices: the stream begins with what bluetoothd knows. *)
StartSession(c) ==
  /\ kind = "bluez" /\ At(c, "idle") /\ Cross(c)
  /\ \/ /\ Goto(c, "collect")
        /\ inquiry' = "on"
        /\ \E s \in SetToSeqs(known) :
             found' = [found EXCEPT ![c] = Entries(s)]
     \/ Goto(c, "failed") /\ UNCHANGED <<inquiry, found>>
  /\ UNCHANGED <<filter, kind, context, live, out, receiver, queue, known, props,
                 answers, answered, heard, forgotten, partial>>

-----------------------------------------------------------------------------
(* The end of the window. *)

Rest == UNCHANGED <<filter, kind, context, out, history, partial>>

PollClearing(c) ==
  /\ kind = "android" /\ pc[c] \in {"window", "poll"}
  /\ live' = [live EXCEPT ![c] = IF queue = <<>> THEN @ ELSE Append(@, Head(queue))]
  /\ queue' = <<>> /\ Goto(c, "stop")
  /\ UNCHANGED <<found, inquiry, receiver, known, props>> /\ Rest

(* drain, one entry after another: calls at it together share the queue. *)
Poll(c) ==
  /\ kind = "android" /\ pc[c] \in {"window", "poll"}
  /\ IF queue # <<>>
     THEN /\ live' = [live EXCEPT ![c] = Append(@, Head(queue))]
          /\ queue' = Tail(queue) /\ Goto(c, "poll")
     ELSE Goto(c, "stop") /\ UNCHANGED <<live, queue>>
  /\ UNCHANGED <<found, inquiry, receiver, known, props>> /\ Rest

(* The class is not found again, or drain throws. *)
DrainFails(c) ==
  /\ kind = "android" /\ At(c, "window") /\ Goto(c, "sift")
  /\ partial' = partial \cup {c}
  /\ UNCHANGED <<filter, kind, context, found, live, out, radio, history>>

StopKeepingReceiver(c) ==
  /\ kind = "android" /\ At(c, "stop") /\ Goto(c, "merge")
  /\ inquiry' = "off" /\ UNCHANGED <<found, live, receiver, queue, known, props>> /\ Rest

StopForgettingQueue(c) ==
  /\ kind = "android" /\ At(c, "stop") /\ Goto(c, "merge")
  /\ inquiry' = "off" /\ receiver' = "no" /\ queue' = <<>>
  /\ UNCHANGED <<found, live, known, props>> /\ Rest

(* stopDiscovery: the inquiry ends for every call.  An error of it is      *)
(* passed over, but what was drained cannot be read from then on.          *)
StopDiscovery(c) ==
  /\ kind = "android" /\ At(c, "stop")
  /\ \/ /\ inquiry' = "off" /\ receiver' = "no"
        /\ Goto(c, "merge") /\ UNCHANGED <<live, partial>>
     \/ /\ \/ inquiry' = "off" /\ receiver' = "no"
           \/ UNCHANGED <<inquiry, receiver>>
        /\ Goto(c, "sift") /\ live' = [live EXCEPT ![c] = <<>>]
        /\ partial' = partial \cup {c}
  /\ UNCHANGED <<filter, kind, context, found, out, queue, known, props, history>>

AddAnyway(s, e) == Append(s, e)

(* A device that is listed already stays as it was listed first, even if   *)
(* this entry has the name or the strength that one lacks.                 *)
Add(s, e) == IF \E i \in 1 .. Len(s) : s[i].dev = e.dev THEN s ELSE Append(s, e)

(* What was drained joins the bonded devices, one entry after another. *)
Merge(c) ==
  /\ kind = "android" /\ At(c, "merge")
  /\ IF live[c] # <<>>
     THEN /\ found' = [found EXCEPT ![c] = Add(@, Head(live[c]))]
          /\ live' = [live EXCEPT ![c] = Tail(@)] /\ UNCHANGED pc
     ELSE Goto(c, "sift") /\ UNCHANGED <<found, live>>
  /\ UNCHANGED radio /\ Rest

(* peripherals, whose properties are read as each is looked at, and        *)
(* stop_scan; an error in the first skips the second, and one in the       *)
(* second is passed over.                                                  *)
ListPeripherals(c) ==
  /\ kind = "btleplug" /\ At(c, "window")
  /\ \/ /\ \E s \in SetToSeqs(known) :
             found' = [found EXCEPT ![c] = Entries(s)]
        /\ Goto(c, "sift")
        /\ \/ inquiry' = "off" /\ UNCHANGED partial
           \/ partial' = partial \cup {c} /\ UNCHANGED inquiry
     \/ Goto(c, "failed") /\ UNCHANGED <<found, inquiry, partial>>
  /\ UNCHANGED <<filter, kind, context, live, out, receiver, queue, known, props, history>>

(* A session's end ends the inquiry when it was the last. *)
InquiryWithout(c) ==
  IF kind = "bluez" /\ ~ \E d \in Call \ {c} : At(d, "collect") THEN "off" ELSE inquiry

(* The time is up, or the stream ended, whatever it still held. *)
SessionEnds(c) ==
  /\ kind = "bluez" /\ At(c, "collect") /\ Goto(c, "ok")
  /\ inquiry' = InquiryWithout(c)
  /\ UNCHANGED <<found, live, receiver, queue, known, props>> /\ Rest

-----------------------------------------------------------------------------
(* What is kept of what was found. *)

Accepts(c, e) ==
  /\ filter[c].min # None => (e.rssi # None /\ e.rssi >= filter[c].min)
  /\ filter[c].named = "yes" => e.named = "yes"

(* The limit is looked at once a device has been added. *)
Full(c, s) == filter[c].limit # None /\ Len(s) >= filter[c].limit

(* Android has the entry it drained or listed; the others ask only now for *)
(* the properties of the device.                                           *)
Seen(e) == IF kind = "android" THEN e ELSE props[e.dev]

(* The next entry is accepted or passed over; btleplug passes over one     *)
(* whose properties it cannot read, or no longer in full, and BlueZ gives  *)
(* up, as it must on a device that was forgotten.                          *)
Sift(c) ==
  /\ pc[c] \in {"sift", "collect"} /\ found[c] # <<>>
  /\ LET e == Head(found[c])
         kept == IF Accepts(c, Seen(e)) THEN Append(out[c], e.dev) ELSE out[c]
     IN \/ /\ kind = "bluez" => e.dev \in known
           /\ out' = [out EXCEPT ![c] = kept]
           /\ IF kept # out[c] /\ Full(c, kept)
              THEN Goto(c, "ok") /\ inquiry' = InquiryWithout(c)
              ELSE UNCHANGED <<pc, inquiry>>
           /\ UNCHANGED partial
        \/ /\ kind = "btleplug" /\ partial' = partial \cup {c}
           /\ UNCHANGED <<out, pc, inquiry>>
        \/ /\ kind = "bluez" /\ Goto(c, "failed")
           /\ inquiry' = InquiryWithout(c) /\ UNCHANGED <<out, partial>>
  /\ found' = [found EXCEPT ![c] = Tail(@)]
  /\ UNCHANGED <<filter, kind, context, live, receiver, queue, known, props, history>>

Return(c) ==
  /\ At(c, "sift") /\ found[c] = <<>> /\ Goto(c, "ok")
  /\ UNCHANGED <<found, live, radio>> /\ Rest

(* The caller leaves at an await. *)
Drop(c) ==
  /\ pc[c] \in {"window", "collect"} /\ Goto(c, "dropped")
  /\ inquiry' = InquiryWithout(c)
  /\ UNCHANGED <<found, live, receiver, queue, known, props>> /\ Rest

-----------------------------------------------------------------------------
(* The air. *)

(* What the library has of a device once it answered with a: the strength  *)
(* it was last heard with, and its name once one was heard.                *)
Update(a) == [a EXCEPT !.named = IF @ = "yes" THEN "yes" ELSE props[a.dev].named]

(* A device answers the inquiry, each time as strongly as it is heard and  *)
(* with its name or without: the receiver queues the answer; the library   *)
(* learns of it; every session hears of a device that was not known.       *)
Answer(a) ==
  /\ inquiry = "on" /\ answers < Answers
  /\ answers' = answers + 1 /\ answered' = answered \cup {a}
  /\ queue' = IF kind = "android" /\ receiver = "yes" THEN Append(queue, a) ELSE queue
  /\ known' = IF kind = "android" THEN known ELSE known \cup {a.dev}
  /\ props' = IF kind = "android" THEN props ELSE [props EXCEPT ![a.dev] = Update(a)]
  /\ found' = [c \in Call |->
                 IF kind = "bluez" /\ At(c, "collect") /\ a.dev \notin known
                 THEN Append(found[c], a) ELSE found[c]]
  /\ heard' = [c \in Call |-> IF At(c, "window") THEN heard[c] \cup {a} ELSE heard[c]]
  /\ UNCHANGED <<filter, kind, context, pc, live, out, inquiry, receiver, crossed, forgotten,
                 partial>>

(* bluetoothd forgets a device. *)
Forget(d) ==
  /\ kind = "bluez" /\ d \in known /\ answers < Answers
  /\ answers' = answers + 1
  /\ known' = known \ {d} /\ forgotten' = forgotten \cup {d}
  /\ UNCHANGED <<filter, kind, context, pc, found, live, out, inquiry, receiver, queue,
                 props, answered, heard, crossed, partial>>

-----------------------------------------------------------------------------
Moves(c) ==
  \/ StartAndroid(c) \/ StartScan(c) \/ StartSession(c)
  \/ Poll(c) \/ DrainFails(c) \/ StopDiscovery(c) \/ Merge(c)
  \/ ListPeripherals(c) \/ SessionEnds(c) \/ Sift(c) \/ Return(c)

Next ==
  \/ \E c \in Call : Moves(c) \/ Drop(c)
  \/ \E a \in Adverts : Answer(a)
  \/ \E d \in Device : Forget(d)

Spec == Init /\ [][Next]_vars

-----------------------------------------------------------------------------
(* What the checks say. *)

(* What was told of a device: all it ever answered, and, where Android     *)
(* lists the bonded devices first, the entry of a bonded one.              *)
Told(d) ==
  {a \in answered : a.dev = d}
    \cup (IF kind = "android" /\ d \in Bonded THEN {Stored[d]} ELSE {})

(* The filter c's caller gave accepts d as whatever was told of it: with   *)
(* only some of it accepted, the first entry (Android) or the last         *)
(* properties (btleplug) decide.                                           *)
Wanted(c, d) == \A e \in Told(d) : Accepts(c, e)

(* No device is returned, nor its DeviceDiscovered emitted, twice in one   *)
(* call, though it answers again and again and may be bonded; only         *)
(* bluetoothd may tell of a device again that it had forgotten.            *)
OncePerDevice ==
  \A c \in Call : \A i, j \in 1 .. Len(out[c]) :
    (i < j /\ out[c][i] = out[c][j]) => (kind = "bluez" /\ out[c][i] \in forgotten)

(* A call of Android's that no other overlaps, and any of btleplug's,      *)
(* returns every device it wants that answered in its window, unless it    *)
(* fell back or passed over one, or reached its limit: a device heard weak *)
(* or nameless before it was heard well is not promised.                   *)
CompleteAlone ==
  \A c \in Call :
    (/\ At(c, "ok") /\ c \notin partial /\ ~ Full(c, out[c])
     /\ kind = "btleplug" \/ (kind = "android" /\ c \notin crossed))
    => \A a \in heard[c] : Wanted(c, a.dev) => a.dev \in Range(out[c])

(* Calls of Android's that overlap share one queue and stop each other's   *)
(* inquiry, but lose nothing between them: when all have ended well,       *)
(* without limits, a device all of them want that answered in any window   *)
(* has been returned by one of them, or waits in the queue for the next.   *)
NothingLostBetween ==
  (kind = "android" /\ partial = {} /\ \A c \in Call : At(c, "ok") /\ ~ Full(c, out[c]))
    => \A c \in Call : \A a \in heard[c] :
         (\A e \in Call : Wanted(e, a.dev))
           => \/ \E i \in 1 .. Len(queue) : queue[i].dev = a.dev
              \/ \E e \in Call : a.dev \in Range(out[e])

(* What one might expect of CompleteAlone's calls, and is not so: that one *)
(* answer the filter accepts is enough for its device to be returned.  The *)
(* merge keeps a device's first entry, and a later, better one is dropped. *)
OneGoodAnswerSuffices ==
  \A c \in Call :
    (/\ At(c, "ok") /\ c \notin partial /\ ~ Full(c, out[c])
     /\ kind = "android" /\ c \notin crossed)
    => \A a \in heard[c] : Accepts(c, a) => a.dev \in Range(out[c])

(* Once every call is over the radio rests, and so does Android's          *)
(* receiver, unless a call failed, was dropped or fell back on the way;    *)
(* BlueZ's sessions end however their calls do.                            *)
RadioRests ==
  (/\ \A c \in Call : At(c, "ok") \/ (kind = "bluez" /\ pc[c] \in Over)
   /\ partial = {})
  => inquiry = "off" /\ receiver = "no"
=============================================================================
