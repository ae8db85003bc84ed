--------------------------- MODULE DiscoveryProofs ---------------------------
(***************************************************************************)
(* Proofs about Discovery: what its four invariants say of any number of   *)
(* calls, devices, filters and answers.  Local holds of each call by       *)
(* itself, RadioInv of the radio, and Alone, Kept and Between of where the *)
(* devices heard have got to, in a call nobody disturbs and among several. *)
(***************************************************************************)
EXTENDS Discovery, FiniteSetTheorems, SequenceTheorems, TLAPS

(* Where a call of each backend may be. *)
Stage ==
  CASE kind = "android"  -> {"idle", "window", "poll", "stop", "merge", "sift"}
    [] kind = "btleplug" -> {"idle", "window", "sift"}
    [] kind = "bluez"    -> {"idle", "collect"}

(* The type of every variable. *)
TypeOK ==
  /\ filter \in Filters
  /\ kind \in {"android", "btleplug", "bluez"} /\ context \in {"yes", "no"}
  /\ pc \in [Call -> Stage \cup Over]
  /\ found \in [Call -> Seq(Entry)]
  /\ live \in [Call -> Seq(Entry)] /\ out \in [Call -> Seq(Device)]
  /\ inquiry \in {"on", "off"} /\ receiver \in {"yes", "no"}
  /\ queue \in Seq(Entry)
  /\ known \in SUBSET Device /\ IsFiniteSet(known)
  /\ props \in [Device -> Entry]
  /\ answers \in Nat
  /\ answered \in SUBSET Adverts /\ heard \in [Call -> SUBSET Adverts]
  /\ crossed \in SUBSET Call /\ forgotten \in SUBSET Device /\ partial \in SUBSET Call

-----------------------------------------------------------------------------

(* While the radio searches, or the receiver is registered, some call will *)
(* see to it, or one did not end well.                                     *)
RadioInv ==
  /\ kind # "android" => receiver = "no"
  /\ (kind = "android" /\ inquiry = "on") => receiver = "yes"
  /\ (kind = "bluez" /\ inquiry = "on") => \E c \in Call : At(c, "collect")
  /\ (kind = "btleplug" /\ inquiry = "on" /\ partial = {})
        => \E c \in Call : pc[c] \in {"window", "dropped", "failed"}
  /\ (kind = "android" /\ receiver = "yes" /\ partial = {})
        => \E c \in Call : pc[c] \in {"window", "poll", "stop", "dropped"}

(* What c lists: what it returned, then what it has still to look at. *)
Devices(s) == {s[i].dev : i \in 1 .. Len(s)}

(* What bluetoothd may tell of again. *)
Excused == IF kind = "bluez" THEN forgotten ELSE {}

(* What is twice in a sequence of devices, or of entries, is in F. *)
TwiceOnly(s, F) ==
  \A i, j \in 1 .. Len(s) : (i < j /\ s[i] = s[j]) => s[i] \in F
ListedTwiceOnly(s, F) ==
  \A i, j \in 1 .. Len(s) : (i < j /\ s[i].dev = s[j].dev) => s[i].dev \in F

(* No other device is in both or twice in either. *)
Once(c) ==
  /\ TwiceOnly(out[c], Excused) /\ ListedTwiceOnly(found[c], Excused)
  /\ Range(out[c]) \cap Devices(found[c]) \subseteq Excused
  /\ At(c, "collect") => Range(out[c]) \cup Devices(found[c]) \subseteq known \cup forgotten

(* What a step has left, and what it has not begun. *)
Begun(c) ==
  /\ pc[c] \in {"idle", "window", "poll", "stop", "merge"} => out[c] = <<>>
  /\ At(c, "idle") => found[c] = <<>> /\ heard[c] = {}
  /\ pc[c] \notin {"poll", "stop", "merge"} => live[c] = <<>>
  /\ (At(c, "ok") /\ ~ Full(c, out[c]) /\ kind # "bluez") => found[c] = <<>>

(* The devices of a set of entries. *)
DevicesOf(S) == {e.dev : e \in S}

(* With A answered, an entry was told of its device on Android: answered,  *)
(* or listed as bonded.                                                    *)
Truly(e, A) == e \in A \/ (e.dev \in Bonded /\ e = Stored[e.dev])
AllTruly(s, A) == \A i \in 1 .. Len(s) : Truly(s[i], A)

(* Properties p of d are as good as some answer of d's. *)
Good(d, p, A) ==
  \E b \in A : b.dev = d /\ p.rssi = b.rssi /\ (b.named = "yes" => p.named = "yes")

(* What a call looks at was told: on Android the entries themselves, on    *)
(* btleplug the properties of the devices it heard.                        *)
Measured(c) ==
  /\ kind = "android" => AllTruly(found[c], answered) /\ AllTruly(live[c], answered)
  /\ kind = "btleplug" => \A d \in DevicesOf(heard[c]) : Good(d, props[d], answered)

Local(c) == Once(c) /\ Begun(c) /\ Measured(c)

(* So was what waits in the companion's queue. *)
QueueTruly == kind = "android" => AllTruly(queue, answered)

(* Two calls that run at once have crossed. *)
Alone ==
  \A c, d \in Call : (c # d /\ Running(c) /\ Running(d)) => c \in crossed

(* Where the devices heard in c's window are, if nobody disturbs c. *)
Kept(c) ==
  /\ (kind = "btleplug" /\ At(c, "window")) => DevicesOf(heard[c]) \subseteq known
  /\ (kind = "android" /\ c \notin crossed) =>
       /\ pc[c] \in {"window", "poll"} =>
            DevicesOf(heard[c]) \subseteq Devices(queue) \cup Devices(live[c])
       /\ pc[c] \in {"stop", "merge"} =>
            DevicesOf(heard[c]) \subseteq Devices(live[c]) \cup Devices(found[c])
  /\ (/\ pc[c] \in {"sift", "ok"} /\ c \notin partial /\ ~ (At(c, "ok") /\ Full(c, out[c]))
      /\ kind = "btleplug" \/ (kind = "android" /\ c \notin crossed))
     => \A d \in DevicesOf(heard[c]) :
          Wanted(c, d) => d \in Range(out[c]) \cup Devices(found[c])

(* Where it is, whoever took it. *)
Somewhere(d) ==
  \/ d \in Devices(queue)
  \/ \E e \in Call : \/ d \in Devices(live[e]) \cup Range(out[e]) \cup Devices(found[e])
                     \/ pc[e] \in {"failed", "dropped"}
                     \/ At(e, "ok") /\ Full(e, out[e])

Between ==
  (kind = "android" /\ partial = {}) =>
    \A c \in Call : \A d \in DevicesOf(heard[c]) :
      (\A e \in Call : Wanted(e, d)) => Somewhere(d)
-----------------------------------------------------------------------------
(* Sequences. *)

(* Appending adds one element to what a sequence holds. *)
LEMMA AppendRange ==
  ASSUME NEW S, NEW s \in Seq(S), NEW x \in S
  PROVE  Append(s, x) \in Seq(S) /\ Range(Append(s, x)) = Range(s) \cup {x}
  <1>1. /\ Append(s, x) \in Seq(S) /\ Len(Append(s, x)) = Len(s) + 1
        /\ \A i \in 1 .. Len(s) : Append(s, x)[i] = s[i]
        /\ Append(s, x)[Len(s) + 1] = x /\ Len(s) \in Nat
    OBVIOUS
  <1>2. DOMAIN Append(s, x) = 1 .. Len(s) + 1 /\ DOMAIN s = 1 .. Len(s)
    BY <1>1
  <1> QED BY <1>1, <1>2 DEF Range

(* The same of the devices of a sequence of entries. *)
LEMMA AppendDevices ==
  ASSUME NEW s \in Seq(Entry), NEW e \in Entry
  PROVE  Append(s, e) \in Seq(Entry) /\ Devices(Append(s, e)) = Devices(s) \cup {e.dev}
  <1>1. /\ Append(s, e) \in Seq(Entry) /\ Len(Append(s, e)) = Len(s) + 1
        /\ \A i \in 1 .. Len(s) : Append(s, e)[i] = s[i]
        /\ Append(s, e)[Len(s) + 1] = e /\ Len(s) \in Nat
    OBVIOUS
  <1> QED BY <1>1 DEF Devices

(* The devices of a sequence are the first entry's and the rest's. *)
LEMMA HeadDevices ==
  ASSUME NEW s \in Seq(Entry), s # <<>>
  PROVE  /\ Head(s) \in Entry /\ Tail(s) \in Seq(Entry)
         /\ Devices(s) = {Head(s).dev} \cup Devices(Tail(s))
  <1>1. /\ Head(s) = s[1] /\ Head(s) \in Entry /\ Tail(s) \in Seq(Entry)
        /\ Len(s) \in Nat \ {0} /\ Len(Tail(s)) = Len(s) - 1
        /\ \A i \in 1 .. Len(s) - 1 : Tail(s)[i] = s[i + 1]
    OBVIOUS
  <1>2. \A i \in 1 .. Len(s) :
          i = 1 \/ (i - 1 \in 1 .. Len(Tail(s)) /\ Tail(s)[i - 1] = s[i])
    BY <1>1
  <1>3. \A i \in 1 .. Len(Tail(s)) : i + 1 \in 1 .. Len(s) /\ Tail(s)[i] = s[i + 1]
    BY <1>1
  <1>4. 1 \in 1 .. Len(s)
    BY <1>1
  <1>6. ASSUME NEW x \in Devices(s) PROVE x \in {Head(s).dev} \cup Devices(Tail(s))
    <2>1. PICK i \in 1 .. Len(s) : x = s[i].dev
      BY DEF Devices
    <2> QED BY <1>1, <1>2, <2>1 DEF Devices
  <1>7. ASSUME NEW x \in Devices(Tail(s)) PROVE x \in Devices(s)
    <2>1. PICK i \in 1 .. Len(Tail(s)) : x = Tail(s)[i].dev
      BY DEF Devices
    <2> QED BY <1>3, <2>1 DEF Devices
  <1>8. Head(s).dev \in Devices(s)
    BY <1>1, <1>4 DEF Devices
  <1> QED BY <1>1, <1>6, <1>7, <1>8

(* The empty sequence holds nothing. *)
LEMMA EmptyHolds == Range(<<>>) = {} /\ Devices(<<>>) = {} /\ Len(<<>>) = 0
  BY DEF Range, Devices

(* A sequence of all of a finite set's elements, each once, holds them.    *)
LEMMA WholeOrder ==
  ASSUME NEW S, IsFiniteSet(S), NEW s \in SetToSeqs(S)
  PROVE  /\ s \in Seq(S) /\ Range(s) = S
         /\ \A i, j \in 1 .. Len(s) : i # j => s[i] # s[j]
  <1> DEFINE n == Cardinality(S)
  <1>1. n \in Nat
    BY FS_CardinalityType
  <1>2. s \in [1 .. n -> S] /\ \A i, j \in 1 .. n : i # j => s[i] # s[j]
    BY DEF SetToSeqs
  <1>3. s \in Seq(S) /\ Len(s) = n
    BY <1>1, <1>2
  <1>4. IsFiniteSet(1 .. n) /\ Cardinality(1 .. n) = n
    BY <1>1, FS_Interval
  <1>5. s \in Injection(1 .. n, S)
    BY <1>2, Zenon DEF Injection, IsInjective
  <1>6. s \in Surjection(1 .. n, S)
    BY <1>4, <1>5, FS_Injection
  <1>7. Range(s) = S
    BY <1>2, <1>6 DEF Surjection, Range
  <1> QED BY <1>2, <1>3, <1>7

(* Listing a finite set of devices: the stored entry of each, each once.   *)
LEMMA EntriesHold ==
  ASSUME NEW S \in SUBSET Device, IsFiniteSet(S), NEW s \in SetToSeqs(S)
  PROVE  /\ Entries(s) \in Seq(Entry) /\ Devices(Entries(s)) = S
         /\ \A i, j \in 1 .. Len(Entries(s)) :
              i # j => Entries(s)[i].dev # Entries(s)[j].dev
         /\ \A i \in 1 .. Len(Entries(s)) :
              Entries(s)[i] = Stored[Entries(s)[i].dev] /\ Entries(s)[i].dev \in S
  <1>1. /\ s \in Seq(S) /\ Range(s) = S
        /\ \A i, j \in 1 .. Len(s) : i # j => s[i] # s[j]
    BY WholeOrder
  <1> DEFINE E == Entries(s)
  <1>2. Len(s) \in Nat /\ \A i \in 1 .. Len(s) : s[i] \in S /\ s[i] \in Device
    BY <1>1
  <1>3. E = [i \in 1 .. Len(s) |-> Stored[s[i]]]
    BY DEF Entries
  <1>4. E \in [1 .. Len(s) -> Entry]
    BY <1>2, <1>3, DiscoveryAssumption
  <1>5. E \in Seq(Entry) /\ Len(E) = Len(s)
    BY <1>2, <1>4
  <1>6. \A i \in 1 .. Len(s) : E[i].dev = s[i] /\ E[i] = Stored[s[i]]
    BY <1>2, <1>3, DiscoveryAssumption
  <1>7. Devices(E) = Range(s)
    BY <1>1, <1>5, <1>6 DEF Devices, Range
  <1> HIDE DEF E
  <1>8. E \in Seq(Entry) /\ Devices(E) = S
        /\ (\A i, j \in 1 .. Len(E) : i # j => E[i].dev # E[j].dev)
        /\ \A i \in 1 .. Len(E) : E[i] = Stored[E[i].dev] /\ E[i].dev \in S
    BY <1>1, <1>2, <1>5, <1>6, <1>7
  <1> QED BY <1>8 DEF E

-----------------------------------------------------------------------------
(* Types. *)

(* What is found, drained or heard is of the right type initially. *)
LEMMA TypeInit == Init => TypeOK
  <1> SUFFICES ASSUME Init PROVE TypeOK
    OBVIOUS
  <1>1. known \in SUBSET Device /\ IsFiniteSet(known)
    BY FS_EmptySet, DiscoveryAssumption DEF Init
  <1>2. <<>> \in Seq(Entry) /\ <<>> \in Seq(Device)
    OBVIOUS
  <1>3. props \in [Device -> Entry]
    BY DiscoveryAssumption DEF Init
  <1> QED BY <1>1, <1>2, <1>3 DEF Init, TypeOK, Stage

(* Every step keeps the types. *)
LEMMA TypeStep == TypeOK /\ [Next]_vars => TypeOK'
  <1> SUFFICES ASSUME TypeOK, [Next]_vars PROVE TypeOK'
    OBVIOUS
  <1> USE DiscoveryAssumption
  <1>t. /\ filter \in Filters /\ kind \in {"android", "btleplug", "bluez"}
        /\ context \in {"yes", "no"} /\ pc \in [Call -> Stage \cup Over]
        /\ found \in [Call -> Seq(Entry)]
        /\ live \in [Call -> Seq(Entry)] /\ out \in [Call -> Seq(Device)]
        /\ inquiry \in {"on", "off"} /\ receiver \in {"yes", "no"} /\ queue \in Seq(Entry)
        /\ known \in SUBSET Device /\ IsFiniteSet(known) /\ props \in [Device -> Entry]
        /\ answers \in Nat /\ answered \in SUBSET Adverts
        /\ heard \in [Call -> SUBSET Adverts] /\ crossed \in SUBSET Call
        /\ forgotten \in SUBSET Device /\ partial \in SUBSET Call
    BY DEF TypeOK
  <1>e. <<>> \in Seq(Entry) /\ <<>> \in Seq(Device)
    OBVIOUS
  <1>x. ASSUME NEW c \in Call, Cross(c) PROVE crossed' \in SUBSET Call
    BY <1>t, <1>x DEF Cross
  <1>q. ASSUME NEW c \in Call PROVE InquiryWithout(c) \in {"on", "off"}
    BY <1>t DEF InquiryWithout
  <1>1. ASSUME NEW c \in Call, StartAndroid(c) PROVE TypeOK'
    <2>1. \A s \in SetToSeqs(Bonded) : Entries(s) \in Seq(Entry)
      BY EntriesHold
    <2>2. found' \in [Call -> Seq(Entry)]
      BY <1>1, <1>t, <2>1 DEF StartAndroid
    <2>3. pc' \in [Call -> Stage \cup Over]
      BY <1>1, <1>t DEF StartAndroid, Goto, Stage, Over
    <2>4. partial' \in SUBSET Call /\ receiver' \in {"yes", "no"} /\ inquiry' \in {"on", "off"}
      BY <1>1, <1>t DEF StartAndroid
    <2>5. UNCHANGED <<filter, kind, context, live, out, queue, known, props, answers,
                      answered, heard, forgotten>>
      BY <1>1 DEF StartAndroid
    <2>6. crossed' \in SUBSET Call
      BY <1>1, <1>x DEF StartAndroid
    <2> QED BY <1>t, <2>2, <2>3, <2>4, <2>5, <2>6 DEF TypeOK, Stage
  <1>2. ASSUME NEW c \in Call, StartScan(c) PROVE TypeOK'
    <2>1. crossed' \in SUBSET Call
      BY <1>2, <1>x DEF StartScan
    <2> QED BY <1>2, <1>t, <2>1 DEF StartScan, TypeOK, Goto, Stage, Over
  <1>3. ASSUME NEW c \in Call, StartSession(c) PROVE TypeOK'
    <2>1. \A s \in SetToSeqs(known) : Entries(s) \in Seq(Entry)
      BY <1>t, EntriesHold
    <2>2. found' \in [Call -> Seq(Entry)]
      BY <1>3, <1>t, <2>1 DEF StartSession
    <2>3. crossed' \in SUBSET Call
      BY <1>3, <1>x DEF StartSession
    <2>4. pc' \in [Call -> Stage \cup Over] /\ inquiry' \in {"on", "off"}
      BY <1>3, <1>t DEF StartSession, Goto, Stage, Over
    <2>5. UNCHANGED <<filter, kind, context, live, out, receiver, queue, known, props,
                      answers, answered, heard, forgotten, partial>>
      BY <1>3 DEF StartSession
    <2> QED BY <1>t, <2>2, <2>3, <2>4, <2>5 DEF TypeOK, Stage
  <1>4. ASSUME NEW c \in Call, Poll(c) PROVE TypeOK'
    <2>1. queue # <<>> => Head(queue) \in Entry /\ Tail(queue) \in Seq(Entry)
      BY <1>t
    <2>2. live' \in [Call -> Seq(Entry)]
      <3>1. queue # <<>> => Append(live[c], Head(queue)) \in Seq(Entry)
        BY <1>t, <2>1
      <3> QED BY <1>4, <1>t, <3>1 DEF Poll
    <2>n. queue' \in Seq(Entry)
      BY <1>4, <1>t, <2>1 DEF Poll
    <2>3. pc' \in [Call -> Stage \cup Over]
      <3>1. pc' \in {[pc EXCEPT ![c] = "poll"], [pc EXCEPT ![c] = "stop"]} /\ kind = "android"
        BY <1>4 DEF Poll, Goto
      <3> QED BY <1>t, <3>1 DEF Stage
    <2> QED BY <1>4, <1>t, <2>2, <2>n, <2>3 DEF Poll, TypeOK, Stage, Rest, history
  <1>5. ASSUME NEW c \in Call, DrainFails(c) PROVE TypeOK'
    BY <1>5, <1>t DEF DrainFails, TypeOK, Goto, Stage, radio, history
  <1>6. ASSUME NEW c \in Call, StopDiscovery(c) PROVE TypeOK'
    <2>1. live' \in [Call -> Seq(Entry)]
      BY <1>6, <1>t, <1>e DEF StopDiscovery
    <2>2. pc' \in [Call -> Stage \cup Over]
      BY <1>6, <1>t DEF StopDiscovery, Goto, Stage
    <2> QED BY <1>6, <1>t, <2>1, <2>2 DEF StopDiscovery, TypeOK, Stage, history
  <1>7. ASSUME NEW c \in Call, Merge(c) PROVE TypeOK'
    <2>1. live[c] # <<>> => Head(live[c]) \in Entry /\ Tail(live[c]) \in Seq(Entry)
      BY <1>t
    <2>2. ASSUME NEW e \in Entry PROVE Add(found[c], e) \in Seq(Entry)
      BY <1>t DEF Add
    <2>3. live' \in [Call -> Seq(Entry)] /\ found' \in [Call -> Seq(Entry)]
      BY <1>7, <1>t, <2>1, <2>2 DEF Merge
    <2>4. pc' \in [Call -> Stage \cup Over]
      BY <1>7, <1>t DEF Merge, Goto, Stage
    <2> QED BY <1>7, <1>t, <2>3, <2>4 DEF Merge, TypeOK, Stage, radio, Rest, history
  <1>8. ASSUME NEW c \in Call, ListPeripherals(c) PROVE TypeOK'
    <2>1. \A s \in SetToSeqs(known) : Entries(s) \in Seq(Entry)
      BY <1>t, EntriesHold
    <2>2. found' \in [Call -> Seq(Entry)]
      BY <1>8, <1>t, <2>1 DEF ListPeripherals
    <2>3. pc' \in [Call -> Stage \cup Over]
      BY <1>8, <1>t DEF ListPeripherals, Goto, Stage, Over
    <2>4. partial' \in SUBSET Call /\ inquiry' \in {"on", "off"}
      BY <1>8, <1>t DEF ListPeripherals
    <2>5. UNCHANGED <<filter, kind, context, live, out, receiver, queue, known, props,
                      history>>
      BY <1>8 DEF ListPeripherals
    <2> QED BY <1>t, <2>2, <2>3, <2>4, <2>5 DEF TypeOK, Stage, history
  <1>9. ASSUME NEW c \in Call, SessionEnds(c) PROVE TypeOK'
    BY <1>9, <1>t, <1>q DEF SessionEnds, TypeOK, Goto, Stage, Over, Rest, history
  <1>10. ASSUME NEW c \in Call, Sift(c) PROVE TypeOK'
    <2>1. Head(found[c]) \in Entry /\ Tail(found[c]) \in Seq(Entry)
      BY <1>10, <1>t DEF Sift
    <2>2. Append(out[c], Head(found[c]).dev) \in Seq(Device) /\ out[c] \in Seq(Device)
      BY <1>t, <2>1 DEF Entry
    <2>3. out' \in [Call -> Seq(Device)] /\ found' \in [Call -> Seq(Entry)]
      BY <1>10, <1>t, <2>1, <2>2 DEF Sift
    <2>4. pc' \in [Call -> Stage \cup Over]
      BY <1>10, <1>t DEF Sift, Goto, Over, Stage
    <2>5. partial' \in SUBSET Call /\ inquiry' \in {"on", "off"}
      BY <1>10, <1>t, <1>q DEF Sift
    <2>6. UNCHANGED <<filter, kind, context, live, receiver, queue, known, props, history>>
      BY <1>10 DEF Sift
    <2> QED BY <1>t, <2>3, <2>4, <2>5, <2>6 DEF TypeOK, Stage, history
  <1>11. ASSUME NEW c \in Call, Return(c) PROVE TypeOK'
    BY <1>11, <1>t DEF Return, TypeOK, Goto, Stage, Over, radio, Rest, history
  <1>12. ASSUME NEW c \in Call, Drop(c) PROVE TypeOK'
    BY <1>12, <1>t, <1>q DEF Drop, TypeOK, Goto, Stage, Over, Rest, history
  <1>13. ASSUME NEW a \in Adverts, Answer(a) PROVE TypeOK'
    <2>1. a \in Entry /\ a.dev \in Device
      BY DEF Entry
    <2>2. found' \in [Call -> Seq(Entry)] /\ queue' \in Seq(Entry)
      BY <1>13, <1>t, <2>1 DEF Answer
    <2>3. heard' \in [Call -> SUBSET Adverts] /\ answers' \in Nat /\ answered' \in SUBSET Adverts
      BY <1>13, <1>t DEF Answer
    <2>4. known' \in SUBSET Device /\ IsFiniteSet(known')
      BY <1>13, <1>t, <2>1, FS_AddElement DEF Answer
    <2>5. props' \in [Device -> Entry]
      <3>1. Update(a) \in Entry
        BY <1>t, <2>1 DEF Update, Entry
      <3> QED BY <1>13, <1>t, <2>1, <3>1 DEF Answer
    <2>6. UNCHANGED <<filter, kind, context, pc, live, out, inquiry, receiver, crossed,
                      forgotten, partial>>
      BY <1>13 DEF Answer
    <2> QED BY <1>t, <2>2, <2>3, <2>4, <2>5, <2>6 DEF TypeOK, Stage
  <1>14. ASSUME NEW d \in Device, Forget(d) PROVE TypeOK'
    <2>1. known' \in SUBSET Device /\ IsFiniteSet(known')
      BY <1>14, <1>t, FS_RemoveElement DEF Forget
    <2> QED BY <1>14, <1>t, <2>1 DEF Forget, TypeOK, Stage
  <1>15. CASE UNCHANGED vars
    BY <1>15, <1>t DEF vars, radio, history, TypeOK, Stage
  <1> QED
    BY <1>1, <1>2, <1>3, <1>4, <1>5, <1>6, <1>7, <1>8, <1>9, <1>10, <1>11, <1>12, <1>13,
       <1>14, <1>15 DEF Next, Moves

(* Every reachable state is well formed: no call of one backend is at a    *)
(* step of another's.                                                      *)
THEOREM TypeCorrect == Spec => []TypeOK
  BY TypeInit, TypeStep, PTL DEF Spec

-----------------------------------------------------------------------------
(* Each call by itself. *)

(* What a step leaves of a call. *)
Same(e) ==
  /\ pc'[e] = pc[e] /\ found'[e] = found[e] /\ live'[e] = live[e]
  /\ out'[e] = out[e] /\ heard'[e] = heard[e]

(* What every step leaves. *)
Frame ==
  /\ kind' = kind /\ filter' = filter /\ props' = props /\ answered \subseteq answered'
  /\ known \subseteq known' \cup forgotten' /\ forgotten \subseteq forgotten'

(* What was told stays told. *)
LEMMA TruthStill ==
  ASSUME NEW A, NEW B, A \subseteq B
  PROVE  /\ \A s : AllTruly(s, A) => AllTruly(s, B)
         /\ \A d, p : Good(d, p, A) => Good(d, p, B)
  BY DEF AllTruly, Truly, Good

(* An entry told of may join entries told of, and they may lose their      *)
(* first.                                                                  *)
LEMMA TruthMoves ==
  ASSUME NEW A, NEW s \in Seq(Entry), AllTruly(s, A)
  PROVE  /\ \A e \in Entry : Truly(e, A) => AllTruly(Append(s, e), A)
         /\ s # <<>> => AllTruly(Tail(s), A) /\ Truly(Head(s), A)
  <1>1. ASSUME NEW e \in Entry, Truly(e, A) PROVE AllTruly(Append(s, e), A)
    <2>1. /\ Len(Append(s, e)) = Len(s) + 1 /\ Append(s, e)[Len(s) + 1] = e
          /\ \A i \in 1 .. Len(s) : Append(s, e)[i] = s[i]
          /\ Len(s) \in Nat
      OBVIOUS
    <2> QED BY <1>1, <2>1 DEF AllTruly
  <1>2. ASSUME s # <<>> PROVE AllTruly(Tail(s), A) /\ Truly(Head(s), A)
    <2>1. /\ Head(s) = s[1] /\ Len(s) \in Nat \ {0} /\ Len(Tail(s)) = Len(s) - 1
          /\ \A i \in 1 .. Len(s) - 1 : Tail(s)[i] = s[i + 1]
      BY <1>2
    <2>2. \A i \in 1 .. Len(Tail(s)) : i + 1 \in 1 .. Len(s) /\ Tail(s)[i] = s[i + 1]
      BY <2>1
    <2> QED BY <2>1, <2>2 DEF AllTruly
  <1> QED BY <1>1, <1>2

(* Who may be listed twice may be so from then on. *)
LEMMA TwiceStill ==
  ASSUME NEW s, NEW F, NEW G, F \subseteq G
  PROVE  /\ TwiceOnly(s, F) => TwiceOnly(s, G)
         /\ ListedTwiceOnly(s, F) => ListedTwiceOnly(s, G)
  BY DEF TwiceOnly, ListedTwiceOnly

(* A device may join a sequence it is not in. *)
LEMMA TwiceAppend ==
  ASSUME NEW S, NEW s \in Seq(S), NEW x \in S, NEW F,
         TwiceOnly(s, F), x \in Range(s) => x \in F
  PROVE  TwiceOnly(Append(s, x), F)
  <1>1. /\ Len(Append(s, x)) = Len(s) + 1 /\ Append(s, x)[Len(s) + 1] = x
        /\ \A i \in 1 .. Len(s) : Append(s, x)[i] = s[i] /\ s[i] \in Range(s)
        /\ Len(s) \in Nat
    BY DEF Range
  <1> QED BY <1>1 DEF TwiceOnly

(* An entry may join a list that its device is not in, and the list may    *)
(* lose its first.                                                         *)
LEMMA ListedAppend ==
  ASSUME NEW s \in Seq(Entry), NEW e \in Entry, NEW F,
         ListedTwiceOnly(s, F), e.dev \in Devices(s) => e.dev \in F
  PROVE  ListedTwiceOnly(Append(s, e), F)
  <1>1. /\ Len(Append(s, e)) = Len(s) + 1 /\ Append(s, e)[Len(s) + 1] = e
        /\ \A i \in 1 .. Len(s) : Append(s, e)[i] = s[i] /\ s[i].dev \in Devices(s)
        /\ Len(s) \in Nat
    BY DEF Devices
  <1> QED BY <1>1 DEF ListedTwiceOnly

(* A list's first device is twice in it only if excused. *)
LEMMA ListedTail ==
  ASSUME NEW s \in Seq(Entry), s # <<>>, NEW F, ListedTwiceOnly(s, F)
  PROVE  /\ ListedTwiceOnly(Tail(s), F)
         /\ Head(s).dev \in Devices(Tail(s)) => Head(s).dev \in F
  <1>1. /\ Head(s) = s[1] /\ Len(s) \in Nat \ {0} /\ Len(Tail(s)) = Len(s) - 1
        /\ \A i \in 1 .. Len(s) - 1 : Tail(s)[i] = s[i + 1]
    OBVIOUS
  <1>2. ListedTwiceOnly(Tail(s), F)
    BY <1>1 DEF ListedTwiceOnly
  <1>3. ASSUME Head(s).dev \in Devices(Tail(s)) PROVE Head(s).dev \in F
    <2>1. PICK i \in 1 .. Len(Tail(s)) : Tail(s)[i].dev = Head(s).dev
      BY <1>3 DEF Devices
    <2>2. 1 \in 1 .. Len(s) /\ i + 1 \in 1 .. Len(s) /\ 1 < i + 1 /\ s[1].dev = s[i + 1].dev
      BY <1>1, <2>1
    <2> QED BY <1>1, <2>2 DEF ListedTwiceOnly
  <1> QED BY <1>2, <1>3

(* A call that a step leaves alone stays as it should be. *)
LEMMA LocalStill ==
  ASSUME TypeOK, Frame, NEW e \in Call, Same(e), Local(e)
  PROVE  Local(e)'
  <1>1. Excused \subseteq Excused'
    BY DEF Frame, Excused
  <1>2. Once(e)'
    <2>1. TwiceOnly(out[e], Excused') /\ ListedTwiceOnly(found[e], Excused')
      BY <1>1, TwiceStill DEF Local, Once
    <2> QED BY <1>1, <2>1 DEF Local, Once, Same, Frame, At
  <1>3. Begun(e)'
    BY DEF Local, Begun, Same, Frame, At, Full
  <1>4. Measured(e)'
    BY TruthStill DEF Local, Measured, Same, Frame
  <1> QED BY <1>2, <1>3, <1>4 DEF Local

(* A call's own steps leave the others alone. *)
LEMMA OthersStill ==
  ASSUME TypeOK, NEW c \in Call, Moves(c) \/ Drop(c)
  PROVE  Frame /\ \A e \in Call \ {c} : Same(e)
  <1>1. Frame
    <2>1. UNCHANGED <<kind, filter, known, props, answered, forgotten>>
      BY DEF Moves, Drop, StartAndroid, StartScan, StartSession, Poll, DrainFails,
             StopDiscovery, Merge, ListPeripherals, SessionEnds, Sift, Return, Rest, radio,
             history
    <2> QED BY <2>1 DEF Frame
  <1>2. ASSUME NEW e \in Call \ {c} PROVE Same(e)
    <2>1. heard' = heard
      BY DEF Moves, Drop, StartAndroid, StartScan, StartSession, Poll, DrainFails,
             StopDiscovery, Merge, ListPeripherals, SessionEnds, Sift, Return, Rest, radio,
             history
    <2>2. pc'[e] = pc[e]
      BY DEF Moves, Drop, StartAndroid, StartScan, StartSession, Poll, DrainFails,
             StopDiscovery, Merge, ListPeripherals, SessionEnds, Sift, Return, Goto, TypeOK
    <2>3. found'[e] = found[e]
      BY DEF Moves, Drop, StartAndroid, StartScan, StartSession, Poll, DrainFails,
             StopDiscovery, Merge, ListPeripherals, SessionEnds, Sift, Return, TypeOK
    <2>4. live'[e] = live[e]
      BY DEF Moves, Drop, StartAndroid, StartScan, StartSession, Poll, DrainFails,
             StopDiscovery, Merge, ListPeripherals, SessionEnds, Sift, Return, TypeOK
    <2>5. out'[e] = out[e]
      BY DEF Moves, Drop, StartAndroid, StartScan, StartSession, Poll, DrainFails,
             StopDiscovery, Merge, ListPeripherals, SessionEnds, Sift, Return, Rest, TypeOK
    <2> QED BY <2>1, <2>2, <2>3, <2>4, <2>5 DEF Same
  <1> QED BY <1>1, <1>2

(* A call begins with nothing listed. *)
LEMMA LocalInit == Init => \A c \in Call : Local(c)
  BY EmptyHolds DEF Init, Local, Once, Begun, Measured, AllTruly, DevicesOf, TwiceOnly,
                    ListedTwiceOnly, At, Over

(* A list of all of a set of devices, put in the place of an empty one.    *)
LEMMA LocalListed ==
  ASSUME TypeOK, NEW c \in Call, NEW S \in SUBSET Device, IsFiniteSet(S),
         NEW s \in SetToSeqs(S), found'[c] = Entries(s), out'[c] = <<>>, live'[c] = <<>>,
         Measured(c), UNCHANGED <<kind, filter, known, props, answered, heard, forgotten>>,
         At(c, "collect")' => S \subseteq known,
         kind = "android" => S \subseteq Bonded
  PROVE  Once(c)' /\ Measured(c)'
  <1>1. /\ found'[c] \in Seq(Entry) /\ Devices(found'[c]) = S
        /\ \A i, j \in 1 .. Len(found'[c]) : i # j => found'[c][i].dev # found'[c][j].dev
        /\ \A i \in 1 .. Len(found'[c]) :
             found'[c][i] = Stored[found'[c][i].dev] /\ found'[c][i].dev \in S
    BY EntriesHold
  <1>2. Once(c)'
    BY <1>1, EmptyHolds DEF Once, TwiceOnly, ListedTwiceOnly, At
  <1>3. Measured(c)'
    <2>1. kind = "android" => AllTruly(found'[c], answered) /\ AllTruly(live'[c], answered)
      BY <1>1, EmptyHolds DEF AllTruly, Truly
    <2> QED BY <2>1 DEF Measured
  <1> QED BY <1>2, <1>3

(* A call's own steps keep what it lists as it should be. *)
LEMMA LocalMove ==
  ASSUME TypeOK, QueueTruly, NEW c \in Call, Local(c), Moves(c) \/ Drop(c)
  PROVE  Local(c)'
  <1> USE DiscoveryAssumption
  <1>k. UNCHANGED <<kind, filter, known, props, answered, forgotten, heard>>
    BY DEF Moves, Drop, StartAndroid, StartScan, StartSession, Poll, DrainFails,
           StopDiscovery, Merge, ListPeripherals, SessionEnds, Sift, Return, Rest, radio,
           history
  <1>t. /\ found[c] \in Seq(Entry) /\ live[c] \in Seq(Entry) /\ out[c] \in Seq(Device)
        /\ pc \in [Call -> Stage \cup Over] /\ pc[c] \in Stage \cup Over
        /\ kind \in {"android", "btleplug", "bluez"} /\ queue \in Seq(Entry)
        /\ found \in [Call -> Seq(Entry)] /\ live \in [Call -> Seq(Entry)]
        /\ out \in [Call -> Seq(Device)] /\ known \in SUBSET Device /\ IsFiniteSet(known)
    BY DEF TypeOK
  <1>l. Once(c) /\ Begun(c) /\ Measured(c)
    BY DEF Local
  <1>o. ASSUME found'[c] = found[c], out'[c] = out[c], At(c, "collect")' => At(c, "collect")
        PROVE  Once(c)'
    BY <1>o, <1>k, <1>l DEF Once, Excused, At
  <1>m. ASSUME kind = "android" => AllTruly(found'[c], answered) /\ AllTruly(live'[c], answered)
        PROVE  Measured(c)'
    BY <1>m, <1>k, <1>l DEF Measured
  <1>s. ASSUME found'[c] = found[c], out'[c] = out[c], At(c, "collect")' => At(c, "collect"),
               live'[c] \in {live[c], <<>>}
        PROVE  Once(c)' /\ Measured(c)'
    <2>1. AllTruly(<<>>, answered)
      BY EmptyHolds DEF AllTruly
    <2> QED BY <1>s, <1>o, <1>m, <1>l, <2>1 DEF Measured
  <1>1. CASE StartAndroid(c)
    <2>1. At(c, "idle") /\ out'[c] = <<>> /\ live'[c] = <<>> /\ kind = "android"
      BY <1>1, <1>l DEF StartAndroid, Begun, At
    <2>2. \/ pc'[c] = "failed" /\ found'[c] = found[c]
          \/ /\ pc'[c] \in {"window", "sift"}
             /\ \E s \in SetToSeqs(Bonded) : found'[c] = Entries(s)
      BY <1>1, <1>t DEF StartAndroid, Goto
    <2>3. Once(c)' /\ Measured(c)'
      <3>1. CASE pc'[c] = "failed" /\ found'[c] = found[c]
        BY <1>s, <1>l, <2>1, <3>1 DEF At, Begun
      <3>2. CASE /\ pc'[c] \in {"window", "sift"}
                 /\ \E s \in SetToSeqs(Bonded) : found'[c] = Entries(s)
        <4>1. PICK s \in SetToSeqs(Bonded) : found'[c] = Entries(s)
          BY <3>2
        <4>2. ~ At(c, "collect")'
          BY <3>2 DEF At
        <4> QED BY <1>k, <1>l, <2>1, <4>1, <4>2, LocalListed, DiscoveryAssumption
      <3> QED BY <2>2, <3>1, <3>2
    <2>4. Begun(c)'
      BY <1>k, <2>1, <2>2 DEF Begun, At
    <2> QED BY <2>3, <2>4 DEF Local
  <1>2. CASE StartScan(c)
    <2>1. /\ At(c, "idle") /\ kind = "btleplug" /\ pc'[c] \in {"window", "failed"}
          /\ UNCHANGED <<found, live, out>>
      BY <1>2, <1>t DEF StartScan, Goto
    <2>2. Begun(c)'
      BY <1>k, <1>l, <2>1 DEF Begun, At
    <2>3. Once(c)' /\ Measured(c)'
      BY <1>s, <2>1 DEF At
    <2> QED BY <2>2, <2>3 DEF Local
  <1>3. CASE StartSession(c)
    <2>1. At(c, "idle") /\ out'[c] = <<>> /\ live'[c] = <<>> /\ kind = "bluez"
      BY <1>3, <1>l DEF StartSession, Begun, At
    <2>2. \/ pc'[c] = "failed" /\ found'[c] = found[c]
          \/ /\ pc'[c] = "collect"
             /\ \E s \in SetToSeqs(known) : found'[c] = Entries(s)
      BY <1>3, <1>t DEF StartSession, Goto
    <2>3. Once(c)' /\ Measured(c)'
      <3>1. CASE pc'[c] = "failed" /\ found'[c] = found[c]
        BY <1>s, <1>l, <2>1, <3>1 DEF At, Begun
      <3>2. CASE /\ pc'[c] = "collect"
                 /\ \E s \in SetToSeqs(known) : found'[c] = Entries(s)
        <4>1. PICK s \in SetToSeqs(known) : found'[c] = Entries(s)
          BY <3>2
        <4> QED BY <1>k, <1>l, <1>t, <2>1, <4>1, LocalListed
      <3> QED BY <2>2, <3>1, <3>2
    <2>4. Begun(c)'
      BY <1>k, <2>1, <2>2 DEF Begun, At
    <2> QED BY <2>3, <2>4 DEF Local
  <1>4. CASE Poll(c)
    <2>1. /\ pc[c] \in {"window", "poll"} /\ pc'[c] \in {"poll", "stop"}
          /\ UNCHANGED <<found, out>> /\ kind = "android"
      BY <1>4, <1>t DEF Poll, Goto, Rest
    <2>2. Begun(c)'
      BY <1>k, <1>l, <2>1 DEF Begun, At
    <2>3. Once(c)'
      BY <1>o, <2>1 DEF At
    <2>4. live'[c] = live[c] \/ (queue # <<>> /\ live'[c] = Append(live[c], Head(queue)))
      BY <1>4, <1>t DEF Poll
    <2>5. ASSUME queue # <<>> PROVE Head(queue) \in Entry /\ Truly(Head(queue), answered)
      <3>1. queue \in Seq(Entry) /\ AllTruly(queue, answered)
        BY <1>t, <2>1 DEF QueueTruly
      <3>2. Truly(Head(queue), answered)
        BY <2>5, <3>1, TruthMoves
      <3>3. Head(queue) \in Entry
        BY <2>5, <3>1
      <3> QED BY <3>2, <3>3
    <2>6. AllTruly(live'[c], answered)
      <3>1. live[c] \in Seq(Entry) /\ AllTruly(live[c], answered)
        BY <1>l, <1>t, <2>1 DEF Measured
      <3>2. \A e \in Entry : Truly(e, answered) => AllTruly(Append(live[c], e), answered)
        BY <3>1, TruthMoves
      <3> QED BY <2>4, <2>5, <3>1, <3>2
    <2>7. Measured(c)'
      BY <1>l, <1>m, <2>1, <2>6 DEF Measured
    <2> QED BY <2>2, <2>3, <2>7 DEF Local
  <1>5. CASE DrainFails(c)
    <2>1. /\ At(c, "window") /\ pc'[c] = "sift" /\ UNCHANGED <<found, live, out>>
      BY <1>5, <1>t DEF DrainFails, Goto
    <2>2. Begun(c)'
      BY <1>k, <1>l, <2>1 DEF Begun, At
    <2>3. Once(c)' /\ Measured(c)'
      BY <1>s, <2>1 DEF At
    <2> QED BY <2>2, <2>3 DEF Local
  <1>6. CASE StopDiscovery(c)
    <2>1. /\ At(c, "stop") /\ UNCHANGED <<found, out>>
          /\ \/ pc'[c] = "merge" /\ live'[c] = live[c]
             \/ pc'[c] = "sift" /\ live'[c] = <<>>
      BY <1>6, <1>t DEF StopDiscovery, Goto
    <2>2. Begun(c)'
      BY <1>k, <1>l, <2>1 DEF Begun, At
    <2>3. Once(c)' /\ Measured(c)'
      BY <1>s, <2>1 DEF At
    <2> QED BY <2>2, <2>3 DEF Local
  <1>7. CASE Merge(c)
    <2>1. CASE live[c] = <<>>
      <3>1. At(c, "merge") /\ pc'[c] = "sift" /\ UNCHANGED <<found, live, out>>
        BY <1>7, <1>t, <2>1 DEF Merge, Goto, Rest
      <3>2. Begun(c)'
        BY <1>k, <1>l, <2>1, <3>1 DEF Begun, At
      <3>3. Once(c)' /\ Measured(c)'
        BY <1>s, <3>1 DEF At
      <3> QED BY <3>2, <3>3 DEF Local
    <2>2. CASE live[c] # <<>>
      <3> DEFINE e == Head(live[c])
      <3>1. /\ At(c, "merge") /\ pc'[c] = pc[c] /\ kind = "android"
            /\ found'[c] = Add(found[c], e) /\ live'[c] = Tail(live[c]) /\ UNCHANGED out
        BY <1>7, <1>t, <2>2 DEF Merge, Rest
      <3>2. Begun(c)'
        BY <1>k, <1>l, <3>1 DEF Begun, At
      <3>3. e \in Entry /\ Truly(e, answered) /\ AllTruly(live'[c], answered) /\ AllTruly(found[c], answered)
        BY <1>l, <1>t, <2>2, <3>1, TruthMoves DEF Measured
      <3> HIDE DEF e
      <3>4. CASE found'[c] = found[c]
        <4>1. Once(c)'
          BY <1>o, <3>1, <3>4 DEF At
        <4>2. Measured(c)'
          BY <1>m, <3>3, <3>4
        <4> QED BY <3>2, <4>1, <4>2 DEF Local
      <3>5. CASE found'[c] # found[c]
        <4>1. found'[c] = Append(found[c], e) /\ e.dev \notin Devices(found[c])
          BY <3>1, <3>5 DEF Add, Devices
        <4>2. ListedTwiceOnly(found'[c], Excused)
          BY <1>l, <1>t, <3>3, <4>1, ListedAppend DEF Once
        <4>3. out'[c] = <<>> /\ ~ At(c, "collect")'
          BY <1>l, <3>1 DEF Begun, At
        <4>4. Once(c)'
          BY <1>k, <1>l, <4>2, <4>3, <3>1, EmptyHolds DEF Once, Excused
        <4>5. Measured(c)'
          <5>1. found[c] \in Seq(Entry) /\ AllTruly(found[c], answered)
            BY <1>t, <3>3
          <5>2. AllTruly(Append(found[c], e), answered)
            BY <3>3, <5>1, TruthMoves
          <5> QED BY <1>m, <3>3, <4>1, <5>2
        <4> QED BY <3>2, <4>4, <4>5 DEF Local
      <3> QED BY <3>4, <3>5
    <2> QED BY <2>1, <2>2
  <1>8. CASE ListPeripherals(c)
    <2>1. /\ At(c, "window") /\ UNCHANGED <<live, out>> /\ kind = "btleplug"
          /\ \/ pc'[c] = "failed" /\ found'[c] = found[c]
             \/ /\ pc'[c] = "sift"
                /\ \E s \in SetToSeqs(known) : found'[c] = Entries(s)
      BY <1>8, <1>t DEF ListPeripherals, Goto
    <2>2. out'[c] = <<>> /\ live'[c] = <<>>
      BY <1>l, <2>1 DEF Begun, At
    <2>3. Begun(c)'
      BY <1>k, <2>1, <2>2 DEF Begun, At
    <2>4. CASE pc'[c] = "failed" /\ found'[c] = found[c]
      BY <1>s, <2>1, <2>3, <2>4 DEF At, Local
    <2>5. CASE pc'[c] = "sift" /\ \E s \in SetToSeqs(known) : found'[c] = Entries(s)
      <3>1. PICK s \in SetToSeqs(known) : found'[c] = Entries(s)
        BY <2>5
      <3>2. Once(c)' /\ Measured(c)'
        BY <1>k, <1>l, <1>t, <2>1, <2>2, <3>1, LocalListed
      <3> QED BY <2>3, <3>2 DEF Local
    <2> QED BY <2>1, <2>4, <2>5
  <1>9. CASE SessionEnds(c)
    <2>1. /\ At(c, "collect") /\ pc'[c] = "ok" /\ UNCHANGED <<found, live, out>>
          /\ kind = "bluez"
      BY <1>9, <1>t DEF SessionEnds, Goto, Rest
    <2>2. Begun(c)'
      BY <1>k, <1>l, <2>1 DEF Begun, At
    <2>3. Once(c)' /\ Measured(c)'
      BY <1>s, <2>1 DEF At
    <2> QED BY <2>2, <2>3 DEF Local
  <1>10. CASE Sift(c)
    <2> DEFINE e == Head(found[c])
    <2>1. /\ pc[c] \in {"sift", "collect"} /\ found[c] # <<>> /\ UNCHANGED live
          /\ found'[c] = Tail(found[c])
          /\ out'[c] \in {out[c], Append(out[c], e.dev)}
          /\ \/ pc'[c] = pc[c]
             \/ pc'[c] = "ok" /\ Full(c, out'[c])
             \/ pc'[c] = "failed"
      BY <1>10, <1>t DEF Sift, Goto
    <2>2. e \in Entry /\ e.dev \in Device /\ Tail(found[c]) \in Seq(Entry)
          /\ Devices(found[c]) = {e.dev} \cup Devices(Tail(found[c]))
      BY <1>t, <2>1, HeadDevices DEF Entry
    <2>3. /\ ListedTwiceOnly(Tail(found[c]), Excused)
          /\ e.dev \in Devices(Tail(found[c])) => e.dev \in Excused
      BY <1>l, <1>t, <2>1, ListedTail DEF Once
    <2>4. Measured(c)'
      BY <1>l, <1>m, <1>t, <2>1, TruthMoves DEF Measured
    <2>5. Begun(c)'
      BY <1>k, <1>l, <2>1 DEF Begun, At, Full
    <2>6. Once(c)'
      <3> HIDE DEF e
      <3>1. Excused' = Excused
        BY <1>k DEF Excused
      <3>2. TwiceOnly(out'[c], Excused) /\ Range(out'[c]) \subseteq Range(out[c]) \cup {e.dev}
        <4>1. CASE out'[c] = out[c]
          BY <1>l, <4>1 DEF Once
        <4>2. CASE out'[c] = Append(out[c], e.dev)
          <5>1. e.dev \in Range(out[c]) => e.dev \in Excused
            BY <1>l, <2>2 DEF Once
          <5>2. TwiceOnly(out[c], Excused)
            BY <1>l DEF Once
          <5> QED BY <1>t, <2>2, <4>2, <5>1, <5>2, TwiceAppend, AppendRange
        <4> QED BY <2>1, <4>1, <4>2
      <3>3. Range(out'[c]) \cap Devices(Tail(found[c])) \subseteq Excused
        BY <1>l, <2>2, <2>3, <3>2 DEF Once
      <3>4. pc'[c] = "collect" =>
              Range(out'[c]) \cup Devices(Tail(found[c])) \subseteq known \cup forgotten
        BY <1>l, <2>1, <2>2, <3>2 DEF Once, At
      <3> QED BY <1>k, <2>1, <2>3, <3>1, <3>2, <3>3, <3>4 DEF Once, At
    <2> QED BY <2>4, <2>5, <2>6 DEF Local
  <1>11. CASE Return(c)
    <2>1. /\ At(c, "sift") /\ found[c] = <<>> /\ pc'[c] = "ok" /\ UNCHANGED <<found, live, out>>
      BY <1>11, <1>t DEF Return, Goto, Rest
    <2>2. Begun(c)'
      BY <1>k, <1>l, <2>1 DEF Begun, At
    <2>3. Once(c)' /\ Measured(c)'
      BY <1>s, <2>1 DEF At
    <2> QED BY <2>2, <2>3 DEF Local
  <1>12. CASE Drop(c)
    <2>1. /\ pc[c] \in {"window", "collect"} /\ pc'[c] = "dropped"
          /\ UNCHANGED <<found, live, out>>
      BY <1>12, <1>t DEF Drop, Goto, Rest
    <2>2. Begun(c)'
      BY <1>k, <1>l, <2>1 DEF Begun, At
    <2>3. Once(c)' /\ Measured(c)'
      BY <1>s, <2>1 DEF At
    <2> QED BY <2>2, <2>3 DEF Local
  <1> QED
    BY <1>1, <1>2, <1>3, <1>4, <1>5, <1>6, <1>7, <1>8, <1>9, <1>10, <1>11, <1>12 DEF Moves

(* What the library has of a device that answered is as good as the        *)
(* answer.                                                                 *)
LEMMA GoodAnswer ==
  ASSUME TypeOK, NEW a \in Adverts, Answer(a), kind # "android"
  PROVE  /\ Good(a.dev, props'[a.dev], answered')
         /\ \A d \in Device :
              Good(d, props[d], answered) => Good(d, props'[d], answered')
  <1>t. /\ a \in Entry /\ a.dev \in Device /\ props \in [Device -> Entry]
    BY DiscoveryAssumption DEF TypeOK, Entry
  <1>1. answered' = answered \cup {a} /\ props' = [props EXCEPT ![a.dev] = Update(a)]
    BY DEF Answer
  <1>2. Update(a).rssi = a.rssi /\ (a.named = "yes" => Update(a).named = "yes")
    BY <1>t DEF Update, Entry
  <1>3. Good(a.dev, props'[a.dev], answered')
    BY <1>t, <1>1, <1>2 DEF Good
  <1>4. ASSUME NEW d \in Device, Good(d, props[d], answered), d # a.dev
        PROVE  Good(d, props'[d], answered')
    <2>1. props'[d] = props[d]
      BY <1>1, <1>t, <1>4
    <2> QED BY <1>1, <1>4, <2>1 DEF Good
  <1> QED BY <1>3, <1>4

(* A device that answers joins each session once, unless forgotten before. *)
LEMMA LocalAnswer ==
  ASSUME TypeOK, NEW a \in Adverts, Answer(a), NEW c \in Call, Local(c)
  PROVE  Local(c)'
  <1> DEFINE d == a.dev
  <1>t. /\ found[c] \in Seq(Entry) /\ heard \in [Call -> SUBSET Adverts]
        /\ a \in Entry /\ d \in Device
    BY DiscoveryAssumption DEF TypeOK, Entry
  <1>k. /\ UNCHANGED <<kind, filter, pc, live, out, forgotten>> /\ answered \subseteq answered'
        /\ known \subseteq known' /\ (kind # "android" => d \in known')
        /\ pc[c] # "window" => heard'[c] = heard[c]
        /\ heard'[c] \subseteq heard[c] \cup {a}
    BY <1>t DEF Answer, At
  <1>m. Measured(c)'
    <2>1. kind = "android" => found'[c] = found[c]
      BY DEF Answer
    <2>2. kind = "android" => AllTruly(found'[c], answered') /\ AllTruly(live'[c], answered')
      BY <1>k, <2>1, TruthStill DEF Local, Measured
    <2>3. ASSUME kind = "btleplug", NEW x \in DevicesOf(heard'[c]) PROVE Good(x, props'[x], answered')
      <3>1. (x \in DevicesOf(heard[c]) /\ x \in Device) \/ x = d
        BY <1>k, <1>t, <2>3, DiscoveryAssumption DEF DevicesOf, Entry
      <3> QED BY <2>3, <3>1, GoodAnswer DEF Local, Measured
    <2> QED BY <1>k, <2>2, <2>3 DEF Measured
  <1>1. CASE kind = "bluez" /\ At(c, "collect") /\ d \notin known
    <2>1. found'[c] = Append(found[c], a)
      BY <1>1 DEF Answer
    <2>2. Excused = forgotten /\ Excused' = forgotten
      BY <1>1, <1>k DEF Excused
    <2>3. d \in Range(out[c]) \cup Devices(found[c]) => d \in forgotten
      BY <1>1 DEF Local, Once
    <2>4. /\ ListedTwiceOnly(Append(found[c], a), forgotten)
          /\ Devices(Append(found[c], a)) = Devices(found[c]) \cup {d}
      BY <1>t, <2>2, <2>3, ListedAppend, AppendDevices DEF Local, Once
    <2>5. Once(c)'
      BY <1>1, <1>k, <2>1, <2>2, <2>3, <2>4 DEF Local, Once, At
    <2>6. Begun(c)'
      BY <1>1, <1>k, <2>1 DEF Local, Begun, At
    <2> QED BY <1>m, <2>5, <2>6 DEF Local
  <1>2. CASE ~ (kind = "bluez" /\ At(c, "collect") /\ d \notin known)
    <2>1. found'[c] = found[c]
      BY <1>2 DEF Answer
    <2>2. Once(c)'
      BY <1>k, <2>1 DEF Local, Once, Excused, At
    <2>4. Begun(c)'
      BY <1>k, <2>1 DEF Local, Begun, At, Full
    <2> QED BY <1>m, <2>2, <2>4 DEF Local
  <1> QED BY <1>1, <1>2

(* What waits in the companion's queue was told. *)
LEMMA QueueInit == Init => QueueTruly
  BY EmptyHolds DEF Init, QueueTruly, AllTruly

(* It stays so. *)
LEMMA QueueStep == TypeOK /\ QueueTruly /\ [Next]_vars => QueueTruly'
  <1> SUFFICES ASSUME TypeOK, QueueTruly, [Next]_vars, kind' = "android"
               PROVE  AllTruly(queue', answered')
    BY DEF QueueTruly
  <1>t. queue \in Seq(Entry) /\ \A a \in Adverts : a \in Entry
    BY DiscoveryAssumption DEF TypeOK
  <1>k. kind' = kind /\ answered \subseteq answered'
    BY DEF Next, Moves, Drop, StartAndroid, StartScan, StartSession, Poll, DrainFails,
           StopDiscovery, Merge, ListPeripherals, SessionEnds, Sift, Return, Answer, Forget,
           Rest, vars, history
  <1>q. AllTruly(queue', answered')
    <2>1. AllTruly(queue, answered)
      BY <1>k DEF QueueTruly
    <2>2. CASE queue' = queue
      BY <1>k, <2>1, <2>2, TruthStill
    <2>3. ASSUME NEW c \in Call, Poll(c), queue # <<>> PROVE AllTruly(queue', answered')
      <3>1. queue' = Tail(queue)
        BY <2>3 DEF Poll
      <3>2. AllTruly(Tail(queue), answered)
        BY <1>t, <2>1, <2>3, TruthMoves
      <3> QED BY <1>k, <3>1, <3>2, TruthStill
    <2>4. ASSUME NEW a \in Adverts, Answer(a), queue' # queue PROVE AllTruly(queue', answered')
      <3>1. queue' = Append(queue, a) /\ answered' = answered \cup {a}
        BY <2>4 DEF Answer
      <3>2. AllTruly(queue, answered') /\ Truly(a, answered')
        BY <1>k, <2>1, <3>1, TruthStill DEF Truly
      <3> QED BY <1>t, <3>1, <3>2, TruthMoves
    <2>5. \/ queue' = queue
          \/ \E c \in Call : Poll(c) /\ queue # <<>>
          \/ \E a \in Adverts : Answer(a) /\ queue' # queue
      BY DEF Next, Moves, Drop, StartAndroid, StartScan, StartSession, Poll, DrainFails,
             StopDiscovery, Merge, ListPeripherals, SessionEnds, Sift, Return, Answer, Forget,
             Rest, vars, radio
    <2> QED BY <2>1, <2>2, <2>3, <2>4, <2>5
  <1> QED BY <1>q

(* Every step keeps every call as it should be. *)
LEMMA LocalStep ==
  TypeOK /\ QueueTruly /\ (\A c \in Call : Local(c)) /\ [Next]_vars
    => \A c \in Call : Local(c)'
  <1> SUFFICES ASSUME TypeOK, QueueTruly, \A c \in Call : Local(c), [Next]_vars, NEW e \in Call
               PROVE  Local(e)'
    OBVIOUS
  <1>1. ASSUME NEW c \in Call, Moves(c) \/ Drop(c) PROVE Local(e)'
    <2>1. CASE e = c
      BY <1>1, <2>1, LocalMove
    <2>2. CASE e # c
      BY <1>1, <2>2, OthersStill, LocalStill
    <2> QED BY <2>1, <2>2
  <1>2. ASSUME NEW a \in Adverts, Answer(a) PROVE Local(e)'
    BY <1>2, LocalAnswer
  <1>3. ASSUME NEW d \in Device, Forget(d) PROVE Local(e)'
    <2>1. Frame /\ Same(e)
      BY <1>3 DEF Forget, Frame, Same
    <2> QED BY <2>1, LocalStill
  <1>4. CASE UNCHANGED vars
    <2>1. Frame /\ Same(e)
      BY <1>4 DEF vars, radio, history, Frame, Same
    <2> QED BY <2>1, LocalStill
  <1> QED BY <1>1, <1>2, <1>3, <1>4 DEF Next

(* OncePerDevice for every value of the constants: however often devices   *)
(* answer, however calls overlap and whatever is bonded, no call returns a *)
(* device twice that bluetoothd had not forgotten meanwhile.               *)
THEOREM OnceCorrect == Spec => []OncePerDevice
  <1>1. TypeOK /\ (\A c \in Call : Local(c)) => OncePerDevice
    <2> SUFFICES ASSUME TypeOK, \A c \in Call : Local(c), NEW c \in Call,
                        NEW i \in 1 .. Len(out[c]), NEW j \in 1 .. Len(out[c]),
                        i < j, out[c][i] = out[c][j]
                 PROVE  kind = "bluez" /\ out[c][i] \in forgotten
      BY DEF OncePerDevice
    <2>1. out[c][i] \in Excused
      BY DEF Local, Once, TwiceOnly
    <2> QED BY <2>1 DEF Excused
  <1>2. Init => (\A c \in Call : Local(c)) /\ QueueTruly
    BY LocalInit, QueueInit
  <1>3. TypeOK /\ QueueTruly /\ (\A c \in Call : Local(c)) /\ [Next]_vars
          => (\A c \in Call : Local(c))' /\ QueueTruly'
    BY LocalStep, QueueStep
  <1> QED BY <1>1, <1>2, <1>3, TypeCorrect, PTL DEF Spec

-----------------------------------------------------------------------------
(* The radio. *)

(* Nothing searches at first. *)
LEMMA RadioInit == Init => RadioInv
  BY DEF Init, RadioInv

(* The end of a session leaves the inquiry on only for another session. *)
LEMMA SessionGone ==
  ASSUME TypeOK, RadioInv, kind = "bluez", NEW c \in Call, NEW there \in Over, Goto(c, there),
         inquiry' = InquiryWithout(c), UNCHANGED <<kind, receiver>>
  PROVE  RadioInv'
  <1>1. CASE \E d \in Call \ {c} : At(d, "collect")
    <2>1. PICK d \in Call \ {c} : At(d, "collect")
      BY <1>1
    <2>2. At(d, "collect")'
      BY <2>1 DEF TypeOK, Goto, At
    <2> QED BY <2>2 DEF RadioInv
  <1>2. CASE ~ \E d \in Call \ {c} : At(d, "collect")
    BY <1>2 DEF InquiryWithout, RadioInv
  <1> QED BY <1>1, <1>2

(* Every step leaves someone to end the inquiry. *)
LEMMA RadioStep == TypeOK /\ RadioInv /\ [Next]_vars => RadioInv'
  <1> SUFFICES ASSUME TypeOK, RadioInv, [Next]_vars PROVE RadioInv'
    OBVIOUS
  <1>t. /\ pc \in [Call -> Stage \cup Over] /\ kind \in {"android", "btleplug", "bluez"}
        /\ inquiry \in {"on", "off"} /\ receiver \in {"yes", "no"} /\ partial \in SUBSET Call
    BY DEF TypeOK
  <1>s. ASSUME UNCHANGED <<kind, pc, inquiry, receiver>>, partial \subseteq partial'
        PROVE  RadioInv'
    BY <1>s DEF RadioInv, At
  <1>1. ASSUME NEW c \in Call, StartAndroid(c) PROVE RadioInv'
    <2>1. /\ kind = "android" /\ At(c, "idle") /\ UNCHANGED kind
          /\ \/ /\ pc' = [pc EXCEPT ![c] = "failed"] /\ UNCHANGED <<inquiry, receiver, partial>>
             \/ /\ pc' = [pc EXCEPT ![c] = "window"] /\ inquiry' = "on" /\ receiver' = "yes"
             \/ /\ pc' = [pc EXCEPT ![c] = "sift"] /\ partial' = partial \cup {c}
                /\ UNCHANGED inquiry /\ receiver' \in {receiver, "yes"}
             \/ /\ pc' = [pc EXCEPT ![c] = "sift"] /\ UNCHANGED <<inquiry, receiver, partial>>
      BY <1>1 DEF StartAndroid, Goto
    <2>2. \A e \in Call : pc[e] \in {"window", "poll", "stop", "dropped"} =>
                            pc'[e] \in {"window", "poll", "stop", "dropped"}
      BY <1>t, <2>1 DEF At
    <2> QED BY <1>t, <2>1, <2>2 DEF RadioInv
  <1>2. ASSUME NEW c \in Call, StartScan(c) PROVE RadioInv'
    <2>1. /\ kind = "btleplug" /\ At(c, "idle") /\ UNCHANGED <<kind, receiver, partial>>
          /\ pc'[c] \in {"window", "failed"}
      BY <1>2, <1>t DEF StartScan, Goto
    <2> QED BY <1>t, <2>1 DEF RadioInv
  <1>3. ASSUME NEW c \in Call, StartSession(c) PROVE RadioInv'
    <2>1. /\ kind = "bluez" /\ At(c, "idle") /\ UNCHANGED <<kind, receiver>>
          /\ \/ pc' = [pc EXCEPT ![c] = "collect"]
             \/ pc' = [pc EXCEPT ![c] = "failed"] /\ UNCHANGED inquiry
      BY <1>3 DEF StartSession, Goto
    <2>2. \A e \in Call : At(e, "collect") => At(e, "collect")'
      BY <1>t, <2>1 DEF At
    <2>3. pc'[c] = "collect" \/ UNCHANGED inquiry
      BY <1>t, <2>1
    <2> QED BY <2>1, <2>2, <2>3 DEF RadioInv, At
  <1>4. ASSUME NEW c \in Call, Poll(c) PROVE RadioInv'
    <2>1. /\ kind = "android" /\ UNCHANGED <<kind, inquiry, receiver, partial>>
          /\ pc'[c] \in {"poll", "stop"}
      BY <1>4, <1>t DEF Poll, Goto, Rest
    <2> QED BY <2>1 DEF RadioInv
  <1>5. ASSUME NEW c \in Call, DrainFails(c) PROVE RadioInv'
    BY <1>5, <1>t DEF DrainFails, RadioInv, radio
  <1>6. ASSUME NEW c \in Call, StopDiscovery(c) PROVE RadioInv'
    BY <1>6, <1>t DEF StopDiscovery, RadioInv
  <1>7. ASSUME NEW c \in Call, Merge(c) PROVE RadioInv'
    <2>1. /\ kind = "android" /\ At(c, "merge") /\ UNCHANGED <<kind, inquiry, receiver, partial>>
          /\ \A e \in Call \ {c} : pc'[e] = pc[e]
      BY <1>7, <1>t DEF Merge, Goto, radio, Rest
    <2> QED BY <1>t, <2>1 DEF RadioInv, At
  <1>8. ASSUME NEW c \in Call, ListPeripherals(c) PROVE RadioInv'
    <2>1. /\ kind = "btleplug" /\ UNCHANGED <<kind, receiver>>
          /\ \/ inquiry' = "off"
             \/ partial' = partial \cup {c}
             \/ pc'[c] = "failed"
      BY <1>8, <1>t DEF ListPeripherals, Goto
    <2> QED BY <2>1 DEF RadioInv
  <1>9. ASSUME NEW c \in Call, SessionEnds(c) PROVE RadioInv'
    BY <1>9, SessionGone DEF SessionEnds, Rest, Over
  <1>10. ASSUME NEW c \in Call, Sift(c) PROVE RadioInv'
    <2>1. pc[c] \in {"sift", "collect"} /\ UNCHANGED <<kind, receiver>> /\ partial \subseteq partial'
      BY <1>10 DEF Sift
    <2>2. \/ UNCHANGED <<pc, inquiry>>
          \/ (Goto(c, "ok") \/ (kind = "bluez" /\ Goto(c, "failed"))) /\ inquiry' = InquiryWithout(c)
      BY <1>10 DEF Sift
    <2>3. CASE UNCHANGED <<pc, inquiry>>
      BY <1>s, <2>1, <2>3
    <2>4. CASE kind = "bluez" /\ ~ UNCHANGED <<pc, inquiry>>
      BY <2>1, <2>2, <2>4, SessionGone DEF Over
    <2>5. CASE kind # "bluez" /\ ~ UNCHANGED <<pc, inquiry>>
      <3>1. Goto(c, "ok") /\ UNCHANGED inquiry /\ At(c, "sift")
        BY <1>t, <2>1, <2>2, <2>5 DEF InquiryWithout, Stage, At, Over
      <3>2. \A e \in Call : pc[e] \in {"window", "poll", "stop", "dropped", "failed"} =>
                              pc'[e] = pc[e]
        BY <1>t, <3>1 DEF Goto, At
      <3> QED BY <1>t, <2>1, <2>5, <3>1, <3>2 DEF RadioInv
    <2> QED BY <2>3, <2>4, <2>5
  <1>11. ASSUME NEW c \in Call, Return(c) PROVE RadioInv'
    <2>1. At(c, "sift") /\ Goto(c, "ok") /\ UNCHANGED <<kind, inquiry, receiver, partial>>
      BY <1>11 DEF Return, radio, Rest
    <2>2. \A e \in Call : pc[e] \in {"window", "poll", "stop", "dropped", "failed", "collect"} =>
                            pc'[e] = pc[e]
      BY <1>t, <2>1 DEF Goto, At
    <2> QED BY <1>t, <2>1, <2>2 DEF RadioInv, At
  <1>12. ASSUME NEW c \in Call, Drop(c) PROVE RadioInv'
    <2>1. /\ pc[c] \in {"window", "collect"} /\ Goto(c, "dropped")
          /\ inquiry' = InquiryWithout(c) /\ UNCHANGED <<kind, receiver, partial>>
      BY <1>12 DEF Drop, Rest
    <2>2. CASE kind = "bluez"
      BY <2>1, <2>2, SessionGone DEF Over
    <2>3. CASE kind # "bluez"
      <3>1. UNCHANGED inquiry /\ pc'[c] = "dropped"
        BY <1>t, <2>1, <2>3 DEF InquiryWithout, Goto
      <3> QED BY <1>t, <2>1, <2>3, <3>1 DEF RadioInv
    <2> QED BY <2>2, <2>3
  <1>13. ASSUME \/ \E a \in Adverts : Answer(a)
                \/ \E d \in Device : Forget(d)
         PROVE  RadioInv'
    BY <1>13, <1>s DEF Answer, Forget
  <1>14. CASE UNCHANGED vars
    BY <1>14, <1>s DEF vars, radio
  <1> QED
    BY <1>1, <1>2, <1>3, <1>4, <1>5, <1>6, <1>7, <1>8, <1>9, <1>10, <1>11, <1>12, <1>13,
       <1>14 DEF Next, Moves

(* RadioRests for every value of the constants: on each backend the last   *)
(* of any number of calls to end turns the radio off, unless one failed,   *)
(* was dropped or fell back.                                               *)
THEOREM RestCorrect == Spec => []RadioRests
  <1>1. TypeOK /\ RadioInv => RadioRests
    <2> SUFFICES ASSUME TypeOK, RadioInv, partial = {},
                        \A c \in Call : At(c, "ok") \/ (kind = "bluez" /\ pc[c] \in Over)
                 PROVE  inquiry = "off" /\ receiver = "no"
      BY DEF RadioRests
    <2>1. kind \in {"android", "btleplug", "bluez"} /\ inquiry \in {"on", "off"}
          /\ receiver \in {"yes", "no"}
      BY DEF TypeOK
    <2> QED BY <2>1 DEF RadioInv, At, Over
  <1> QED BY <1>1, RadioInit, RadioStep, TypeCorrect, PTL DEF Spec

-----------------------------------------------------------------------------
(* Where the devices heard have got to. *)

(* No call runs at first. *)
LEMMA AloneInit == Init => Alone
  BY DEF Init, Alone, Running

(* A call that begins crosses those that run, and is crossed by them.      *)
LEMMA AloneStep == TypeOK /\ Alone /\ [Next]_vars => Alone' /\ crossed \subseteq crossed'
  <1> SUFFICES ASSUME TypeOK, Alone, [Next]_vars PROVE Alone' /\ crossed \subseteq crossed'
    OBVIOUS
  <1>t. pc \in [Call -> Stage \cup Over] /\ crossed \in SUBSET Call
    BY DEF TypeOK
  <1>s. ASSUME crossed' = crossed, \A c \in Call : Running(c)' => Running(c)
        PROVE  Alone' /\ crossed \subseteq crossed'
    BY <1>s DEF Alone
  <1>1. ASSUME NEW c \in Call, StartAndroid(c) \/ StartScan(c) \/ StartSession(c)
        PROVE  Alone' /\ crossed \subseteq crossed'
    <2>1. Cross(c) /\ \A e \in Call \ {c} : pc'[e] = pc[e]
      BY <1>1, <1>t DEF StartAndroid, StartScan, StartSession, Goto
    <2>2. \A e \in Call \ {c} : Running(e)' <=> Running(e)
      BY <2>1 DEF Running
    <2>3. crossed \subseteq crossed'
      BY <2>1 DEF Cross
    <2>4. \A e \in Call \ {c} : Running(e) => c \in crossed' /\ e \in crossed'
      BY <2>1 DEF Cross
    <2> QED BY <2>2, <2>3, <2>4 DEF Alone
  <1>2. ASSUME NEW c \in Call,
               \/ Poll(c) \/ DrainFails(c) \/ StopDiscovery(c) \/ Merge(c)
               \/ ListPeripherals(c) \/ SessionEnds(c) \/ Sift(c) \/ Return(c) \/ Drop(c)
        PROVE  Alone' /\ crossed \subseteq crossed'
    <2>1. crossed' = crossed /\ Running(c) /\ \A e \in Call \ {c} : pc'[e] = pc[e]
      BY <1>2, <1>t DEF Poll, DrainFails, StopDiscovery, Merge, ListPeripherals, SessionEnds,
                        Sift, Return, Drop, Goto, Rest, history, Running, At, Over
    <2> QED BY <1>s, <2>1 DEF Running
  <1>3. ASSUME \/ \E a \in Adverts : Answer(a)
               \/ \E d \in Device : Forget(d)
        PROVE  Alone' /\ crossed \subseteq crossed'
    BY <1>3, <1>s DEF Answer, Forget, Running
  <1>4. CASE UNCHANGED vars
    BY <1>4, <1>s DEF vars, history, Running
  <1> QED BY <1>1, <1>2, <1>3, <1>4 DEF Next, Moves

(* What a caller wants passes its filter, as listed and as read. *)
LEMMA WantedAccepted ==
  ASSUME TypeOK, kind # "bluez", NEW c \in Call, NEW e \in Entry, Wanted(c, e.dev),
         kind = "android" => Truly(e, answered),
         kind = "btleplug" => Good(e.dev, props[e.dev], answered)
  PROVE  Accepts(c, Seen(e))
  <1>1. CASE kind = "android"
    <2>1. e \in Told(e.dev) /\ Seen(e) = e
      BY <1>1 DEF Told, Truly, Seen
    <2> QED BY <2>1 DEF Wanted
  <1>2. CASE kind = "btleplug"
    <2>1. PICK b \in answered : /\ b.dev = e.dev /\ props[e.dev].rssi = b.rssi
                                /\ b.named = "yes" => props[e.dev].named = "yes"
      BY <1>2 DEF Good
    <2>2. b \in Told(e.dev) /\ Seen(e) = props[e.dev]
      BY <1>2, <2>1 DEF Told, Seen
    <2>3. Accepts(c, b)
      BY <2>2 DEF Wanted
    <2> QED BY <2>1, <2>2, <2>3 DEF Accepts
  <1> QED BY <1>1, <1>2 DEF TypeOK

(* The more a device answers, the less it is wanted. *)
LEMMA WantedStill ==
  ASSUME NEW c, NEW d, UNCHANGED <<kind, filter>>, answered \subseteq answered'
  PROVE  Wanted(c, d)' => Wanted(c, d)
  <1>1. Told(d) \subseteq Told(d)'
    BY DEF Told
  <1>2. \A e : Accepts(c, e)' <=> Accepts(c, e)
    BY DEF Accepts
  <1> QED BY <1>1, <1>2 DEF Wanted

(* Looking at the next entry loses nothing wanted, but for the limit.      *)
LEMMA SiftKeeps ==
  ASSUME TypeOK, NEW c \in Call, Local(c), kind # "bluez", Sift(c),
         kind = "android" \/ c \notin partial', NEW d \in Device, Wanted(c, d),
         kind = "btleplug" => d \in DevicesOf(heard[c]),
         d \in Range(out[c]) \cup Devices(found[c])
  PROVE  d \in Range(out'[c]) \cup Devices(found'[c])
  <1> DEFINE e == Head(found[c])
  <1>t. found \in [Call -> Seq(Entry)] /\ out \in [Call -> Seq(Device)]
        /\ found[c] \in Seq(Entry) /\ out[c] \in Seq(Device) /\ found[c] # <<>>
    BY DEF TypeOK, Sift
  <1>1. /\ found'[c] = Tail(found[c])
        /\ out'[c] = IF Accepts(c, Seen(e)) THEN Append(out[c], e.dev) ELSE out[c]
    BY <1>t DEF Sift
  <1>2. /\ e \in Entry /\ e.dev \in Device
        /\ Devices(found[c]) = {e.dev} \cup Devices(Tail(found[c]))
    BY <1>t, HeadDevices DEF Entry
  <1>3. kind = "android" => Truly(e, answered)
    BY <1>t, TruthMoves DEF Local, Measured
  <1> HIDE DEF e
  <1>4. Range(Append(out[c], e.dev)) = Range(out[c]) \cup {e.dev}
    BY <1>t, <1>2, AppendRange
  <1>5. d = e.dev => Accepts(c, Seen(e))
    BY <1>2, <1>3, WantedAccepted DEF Local, Measured
  <1> QED BY <1>1, <1>2, <1>4, <1>5

(* What joins the list is in it. *)
LEMMA AddHolds ==
  ASSUME NEW s \in Seq(Entry), NEW e \in Entry
  PROVE  Devices(s) \cup {e.dev} \subseteq Devices(Add(s, e))
  <1>1. Devices(Append(s, e)) = Devices(s) \cup {e.dev}
    BY AppendDevices
  <1>2. (\E i \in 1 .. Len(s) : s[i].dev = e.dev) => e.dev \in Devices(s)
    BY DEF Devices
  <1> QED BY <1>1, <1>2 DEF Add

(* A call's drained entry is taken from the queue and kept. *)
LEMMA PollKeeps ==
  ASSUME TypeOK, NEW c \in Call, Poll(c)
  PROVE  /\ Devices(queue') \cup Devices(live'[c]) = Devices(queue) \cup Devices(live[c])
         /\ pc'[c] \in {"poll", "stop"} /\ (pc'[c] = "stop" => queue' = <<>>)
         /\ kind = "android" /\ pc[c] \in {"window", "poll"}
  <1>t. /\ live \in [Call -> Seq(Entry)] /\ live[c] \in Seq(Entry) /\ queue \in Seq(Entry)
        /\ pc \in [Call -> Stage \cup Over]
    BY DEF TypeOK
  <1>1. CASE queue = <<>>
    BY <1>t, <1>1 DEF Poll, Goto
  <1>2. CASE queue # <<>>
    <2>1. /\ live'[c] = Append(live[c], Head(queue)) /\ queue' = Tail(queue)
          /\ pc'[c] = "poll" /\ kind = "android" /\ pc[c] \in {"window", "poll"}
      BY <1>t, <1>2 DEF Poll, Goto
    <2>2. /\ Head(queue) \in Entry
          /\ Devices(queue) = {Head(queue).dev} \cup Devices(Tail(queue))
      BY <1>t, <1>2, HeadDevices
    <2>3. Devices(Append(live[c], Head(queue))) = Devices(live[c]) \cup {Head(queue).dev}
      BY <1>t, <2>2, AppendDevices
    <2> QED BY <2>1, <2>2, <2>3
  <1> QED BY <1>1, <1>2

(* Nothing is heard at first. *)
LEMMA KeptInit == Init => \A c \in Call : Kept(c)
  BY DEF Init, Kept, DevicesOf

(* What another call does is no matter to one that did not cross it.       *)
LEMMA KeptOther ==
  ASSUME TypeOK, Alone, [Next]_vars, NEW c \in Call, Moves(c) \/ Drop(c),
         NEW e \in Call \ {c}, Kept(e)
  PROVE  Kept(e)'
  <1>1. Same(e) /\ kind' = kind /\ filter' = filter /\ answered \subseteq answered'
    BY OthersStill DEF Frame
  <1>2. crossed \subseteq crossed'
    BY AloneStep
  <1>3. known' = known /\ partial \subseteq partial'
    BY DEF Moves, Drop, StartAndroid, StartScan, StartSession, Poll, DrainFails,
           StopDiscovery, Merge, ListPeripherals, SessionEnds, Sift, Return, Rest, radio
  <1>4. (kind = "android" /\ e \notin crossed' /\ pc[e] \in {"window", "poll"}) => queue' = queue
    <2> SUFFICES ASSUME queue' # queue, pc[e] \in {"window", "poll"} PROVE e \in crossed
      BY <1>2
    <2>1. Poll(c)
      BY DEF Moves, Drop, StartAndroid, StartScan, StartSession, DrainFails,
             StopDiscovery, Merge, ListPeripherals, SessionEnds, Sift, Return, radio
    <2>2. Running(c) /\ Running(e)
      BY <2>1, PollKeeps DEF Running, Over
    <2> QED BY <2>2 DEF Alone
  <1>5. \A d : Wanted(e, d)' => Wanted(e, d)
    BY <1>1, WantedStill
  <1>6. Full(e, out[e])' <=> Full(e, out[e])
    BY <1>1 DEF Full, Same
  <1> QED BY <1>1, <1>2, <1>3, <1>4, <1>5, <1>6 DEF Kept, Same, At

(* A call's own steps keep what it heard. *)
LEMMA KeptMove ==
  ASSUME TypeOK, [Next]_vars, Alone, NEW c \in Call, Local(c), Kept(c), Moves(c) \/ Drop(c)
  PROVE  Kept(c)'
  <1>k. UNCHANGED <<kind, filter, known, answered, forgotten, heard>> /\ crossed \subseteq crossed'
        /\ partial \subseteq partial'
    BY AloneStep
       DEF Moves, Drop, StartAndroid, StartScan, StartSession, Poll, DrainFails,
           StopDiscovery, Merge, ListPeripherals, SessionEnds, Sift, Return, Rest, radio,
           history
  <1>t. /\ found[c] \in Seq(Entry) /\ live[c] \in Seq(Entry) /\ out[c] \in Seq(Device)
        /\ pc \in [Call -> Stage \cup Over] /\ known \in SUBSET Device /\ IsFiniteSet(known)
        /\ found \in [Call -> Seq(Entry)] /\ live \in [Call -> Seq(Entry)]
        /\ out \in [Call -> Seq(Device)] /\ heard[c] \in SUBSET Adverts
        /\ kind \in {"android", "btleplug", "bluez"}
    BY DEF TypeOK
  <1>w. \A d : Wanted(c, d)' => Wanted(c, d)
    BY <1>k, WantedStill
  <1>l. Begun(c)
    BY DEF Local
  <1>0. CASE kind = "bluez"
    BY <1>0, <1>k DEF Kept
  <1>1. CASE StartAndroid(c) \/ StartScan(c) \/ StartSession(c)
    <2>1. At(c, "idle")
      BY <1>1 DEF StartAndroid, StartScan, StartSession
    <2>2. heard'[c] = {}
      BY <2>1, <1>k, <1>l DEF Begun
    <2> QED BY <2>2 DEF Kept, DevicesOf
  <1>2. CASE Poll(c)
    <2>1. /\ Devices(queue') \cup Devices(live'[c]) = Devices(queue) \cup Devices(live[c])
          /\ pc'[c] \in {"poll", "stop"} /\ (pc'[c] = "stop" => queue' = <<>>)
          /\ kind = "android" /\ pc[c] \in {"window", "poll"}
      BY <1>2, PollKeeps
    <2>2. pc'[c] = "stop" => Devices(queue') = {}
      BY <2>1, EmptyHolds
    <2> QED BY <1>k, <2>1, <2>2 DEF Kept, At
  <1>3. CASE DrainFails(c)
    <2>1. c \in partial' /\ pc'[c] = "sift"
      BY <1>3, <1>t DEF DrainFails, Goto
    <2> QED BY <2>1 DEF Kept, At
  <1>4. CASE StopDiscovery(c)
    <2>1. /\ At(c, "stop") /\ UNCHANGED found
          /\ (pc'[c] = "merge" /\ UNCHANGED live) \/ (pc'[c] = "sift" /\ c \in partial')
      BY <1>4, <1>t DEF StopDiscovery, Goto
    <2> QED BY <1>k, <2>1 DEF Kept, At
  <1>5. CASE Merge(c)
    <2>1. CASE live[c] = <<>>
      <3>1. At(c, "merge") /\ pc'[c] = "sift" /\ UNCHANGED <<found, live>> /\ kind = "android"
        BY <1>5, <1>t, <2>1 DEF Merge, Goto
      <3>2. Devices(live[c]) = {}
        BY <2>1, EmptyHolds
      <3> QED BY <1>k, <3>1, <3>2 DEF Kept, At
    <2>2. CASE live[c] # <<>>
      <3>1. /\ At(c, "merge") /\ pc'[c] = pc[c] /\ live'[c] = Tail(live[c])
            /\ found'[c] = Add(found[c], Head(live[c]))
        BY <1>5, <1>t, <2>2 DEF Merge
      <3>2. Head(live[c]) \in Entry /\ Devices(live[c]) = {Head(live[c]).dev} \cup Devices(Tail(live[c]))
        BY <1>t, <2>2, HeadDevices
      <3>3. Devices(found[c]) \cup {Head(live[c]).dev} \subseteq Devices(found'[c])
        BY <1>t, <3>1, <3>2, AddHolds
      <3> QED BY <1>k, <3>1, <3>2, <3>3 DEF Kept, At
    <2> QED BY <2>1, <2>2
  <1>6. CASE ListPeripherals(c)
    <2>1. /\ At(c, "window") /\ kind = "btleplug"
          /\ \/ pc'[c] = "failed"
             \/ /\ pc'[c] = "sift"
                /\ \E s \in SetToSeqs(known) : found'[c] = Entries(s)
      BY <1>6, <1>t DEF ListPeripherals, Goto
    <2>2. ASSUME pc'[c] = "sift" PROVE Devices(found'[c]) = known
      <3>1. PICK s \in SetToSeqs(known) : found'[c] = Entries(s)
        BY <2>1, <2>2
      <3> QED BY <1>t, <3>1, EntriesHold
    <2> QED BY <1>k, <2>1, <2>2 DEF Kept, At
  <1>7. CASE Sift(c) /\ kind # "bluez"
    <2>1. /\ At(c, "sift")
          /\ pc'[c] = pc[c] \/ (pc'[c] = "ok" /\ Full(c, out'[c]))
      BY <1>7, <1>t DEF Sift, Goto, At, Stage, Over
    <2>2. ASSUME c \notin partial', NEW d \in DevicesOf(heard[c]), Wanted(c, d),
                 d \in Range(out[c]) \cup Devices(found[c])
          PROVE  d \in Range(out'[c]) \cup Devices(found'[c])
      <3>1. d \in Device
        BY <1>t, DiscoveryAssumption DEF DevicesOf, Entry
      <3> QED BY <1>7, <1>t, <2>2, <3>1, SiftKeeps
    <2> QED BY <1>k, <1>w, <2>1, <2>2 DEF Kept, At, Full
  <1>8. CASE Return(c)
    <2>1. At(c, "sift") /\ pc'[c] = "ok" /\ UNCHANGED <<found, out>>
      BY <1>8, <1>t DEF Return, Goto, Rest
    <2> QED BY <1>k, <1>w, <2>1 DEF Kept, At
  <1>9. CASE Drop(c) \/ SessionEnds(c)
    <2>1. pc'[c] = "dropped" \/ kind = "bluez"
      BY <1>9, <1>t DEF Drop, SessionEnds, Goto
    <2> QED BY <1>k, <2>1 DEF Kept, At
  <1> QED BY <1>0, <1>1, <1>2, <1>3, <1>4, <1>5, <1>6, <1>7, <1>8, <1>9 DEF Moves

(* A device that answers is heard and kept. *)
LEMMA KeptAnswer ==
  ASSUME TypeOK, RadioInv, NEW a \in Adverts, Answer(a), NEW c \in Call, Kept(c)
  PROVE  Kept(c)'
  <1>t. /\ queue \in Seq(Entry) /\ heard[c] \in SUBSET Adverts /\ a \in Entry
        /\ kind \in {"android", "btleplug", "bluez"}
    BY DiscoveryAssumption DEF TypeOK
  <1>1. /\ UNCHANGED <<kind, filter, pc, live, out, crossed, partial>> /\ inquiry = "on"
        /\ heard'[c] = IF At(c, "window") THEN heard[c] \cup {a} ELSE heard[c]
        /\ kind # "bluez" => found'[c] = found[c]
        /\ known' = IF kind = "android" THEN known ELSE known \cup {a.dev}
        /\ answered \subseteq answered'
    BY DEF Answer
  <1>2. kind = "android" => Devices(queue') = Devices(queue) \cup {a.dev}
    BY <1>1, <1>t, AppendDevices DEF Answer, RadioInv
  <1>3. \A x : Wanted(c, x)' => Wanted(c, x)
    BY <1>1, WantedStill
  <1>4. DevicesOf(heard'[c]) =
          IF At(c, "window") THEN DevicesOf(heard[c]) \cup {a.dev} ELSE DevicesOf(heard[c])
    BY <1>1 DEF DevicesOf
  <1> QED BY <1>1, <1>2, <1>3, <1>4 DEF Kept, At, Full

(* What holds of every call by itself, of the radio and of crossing.       *)
Inv == TypeOK /\ (\A c \in Call : Local(c)) /\ QueueTruly /\ RadioInv /\ Alone

(* It is an invariant. *)
LEMMA InvCorrect == Spec => []Inv
  <1>1. Init => (\A c \in Call : Local(c)) /\ QueueTruly
    BY LocalInit, QueueInit
  <1>2. TypeOK /\ QueueTruly /\ (\A c \in Call : Local(c)) /\ [Next]_vars
          => (\A c \in Call : Local(c))' /\ QueueTruly'
    BY LocalStep, QueueStep
  <1>3. TypeOK /\ Alone /\ [Next]_vars => Alone'
    BY AloneStep
  <1> QED
    BY <1>1, <1>2, <1>3, RadioInit, RadioStep, AloneInit, TypeInit, TypeStep, PTL DEF Spec, Inv

(* Every step keeps what calls heard. *)
LEMMA KeptStep ==
  Inv /\ (\A c \in Call : Kept(c)) /\ [Next]_vars => \A c \in Call : Kept(c)'
  <1> SUFFICES ASSUME Inv, \A c \in Call : Kept(c), [Next]_vars, NEW e \in Call
               PROVE  Kept(e)'
    OBVIOUS
  <1>i. TypeOK /\ Alone /\ RadioInv /\ Local(e)
    BY DEF Inv
  <1>1. ASSUME NEW c \in Call, Moves(c) \/ Drop(c) PROVE Kept(e)'
    <2>1. CASE e = c
      BY <1>1, <1>i, <2>1, KeptMove
    <2>2. CASE e # c
      BY <1>1, <1>i, <2>2, KeptOther
    <2> QED BY <2>1, <2>2
  <1>2. ASSUME NEW a \in Adverts, Answer(a) PROVE Kept(e)'
    BY <1>2, <1>i, KeptAnswer
  <1>3. ASSUME NEW d \in Device, Forget(d) PROVE Kept(e)'
    BY <1>3 DEF Forget, Kept
  <1>4. CASE UNCHANGED vars
    <2>1. UNCHANGED <<kind, filter, pc, found, live, out, queue, known, answered, heard,
                      crossed, partial>>
      BY <1>4 DEF vars, radio, history
    <2>2. \A d : Wanted(e, d)' => Wanted(e, d)
      BY <2>1, WantedStill
    <2> QED BY <2>1, <2>2 DEF Kept, At, Full
  <1> QED BY <1>1, <1>2, <1>3, <1>4 DEF Next

(* CompleteAlone for every value of the constants: a call that no other    *)
(* crosses, whatever it drained, merged and sifted, misses no device it    *)
(* wants that answered in its window.                                      *)
THEOREM CompleteCorrect == Spec => []CompleteAlone
  <1>1. Inv /\ (\A c \in Call : Kept(c)) => CompleteAlone
    <2> SUFFICES ASSUME Inv, \A c \in Call : Kept(c), NEW c \in Call,
                        At(c, "ok"), c \notin partial, ~ Full(c, out[c]),
                        kind = "btleplug" \/ (kind = "android" /\ c \notin crossed),
                        NEW d \in DevicesOf(heard[c]), Wanted(c, d)
                 PROVE  d \in Range(out[c])
      BY DEF CompleteAlone, DevicesOf
    <2>1. d \in Range(out[c]) \cup Devices(found[c])
      BY DEF Kept, At
    <2>2. found[c] = <<>>
      BY DEF Inv, Local, Begun
    <2> QED BY <2>1, <2>2, EmptyHolds
  <1>2. Init => \A c \in Call : Kept(c)
    BY KeptInit
  <1>3. Inv /\ (\A c \in Call : Kept(c)) /\ [Next]_vars => (\A c \in Call : Kept(c))'
    BY KeptStep
  <1> QED BY <1>1, <1>2, <1>3, InvCorrect, PTL DEF Spec

(* What all want is somewhere still after a call's own step, unless the    *)
(* call passed over an error.                                              *)
LEMMA SomewhereMove ==
  ASSUME Inv, NEW c \in Call, Moves(c) \/ Drop(c), kind = "android", partial' = {},
         NEW d \in Device, Wanted(c, d), Somewhere(d)
  PROVE  Somewhere(d)'
  <1>t. /\ found[c] \in Seq(Entry) /\ live[c] \in Seq(Entry) /\ out[c] \in Seq(Device)
        /\ pc \in [Call -> Stage \cup Over]
        /\ found \in [Call -> Seq(Entry)] /\ live \in [Call -> Seq(Entry)]
        /\ out \in [Call -> Seq(Device)] /\ TypeOK /\ Local(c) /\ Begun(c)
    BY DEF Inv, TypeOK, Local
  <1>k. kind' = kind /\ filter' = filter /\ \A e \in Call \ {c} : Same(e)
    BY <1>t, OthersStill DEF Frame
  (* Where c leaves the queue alone, it has only to keep what it has. *)
  <1>s. ASSUME queue' = queue,
               d \in Devices(live[c]) \cup Range(out[c]) \cup Devices(found[c]) =>
                 \/ d \in Devices(live'[c]) \cup Range(out'[c]) \cup Devices(found'[c])
                 \/ At(c, "ok")' /\ Full(c, out[c])',
               pc[c] \notin Over
        PROVE  Somewhere(d)'
    <2>1. CASE d \in Devices(queue)
      BY <1>s, <2>1 DEF Somewhere
    <2>2. CASE d \notin Devices(queue)
      <3>1. PICK e \in Call : \/ d \in Devices(live[e]) \cup Range(out[e]) \cup Devices(found[e])
                              \/ pc[e] \in {"failed", "dropped"}
                              \/ At(e, "ok") /\ Full(e, out[e])
        BY <2>2 DEF Somewhere
      <3>2. CASE e = c
        BY <1>s, <3>1, <3>2 DEF Somewhere, Over, At
      <3>3. CASE e # c
        <4>1. Same(e)
          BY <1>k, <3>3
        <4> QED BY <1>k, <3>1, <4>1 DEF Somewhere, Same, At, Full
      <3> QED BY <3>2, <3>3
    <2> QED BY <2>1, <2>2
  <1>1. CASE StartAndroid(c)
    <2>1. /\ pc[c] = "idle" /\ UNCHANGED <<queue, live, out>>
      BY <1>1 DEF StartAndroid, At
    <2>2. found[c] = <<>>
      BY <1>t, <2>1 DEF Begun, At
    <2> QED BY <1>s, <2>1, <2>2, EmptyHolds DEF Over
  <1>2. CASE Poll(c)
    <2>1. /\ Devices(queue') \cup Devices(live'[c]) = Devices(queue) \cup Devices(live[c])
          /\ pc[c] \in {"window", "poll"}
      BY <1>2, <1>t, PollKeeps
    <2>2. UNCHANGED <<found, out>>
      BY <1>2 DEF Poll, Rest
    <2>3. CASE d \in Devices(queue) \cup Devices(live[c]) \cup Range(out[c]) \cup Devices(found[c])
      BY <2>1, <2>2, <2>3 DEF Somewhere
    <2>4. CASE d \notin Devices(queue) \cup Devices(live[c]) \cup Range(out[c]) \cup Devices(found[c])
      <3>1. PICK e \in Call \ {c} :
                   \/ d \in Devices(live[e]) \cup Range(out[e]) \cup Devices(found[e])
                   \/ pc[e] \in {"failed", "dropped"}
                   \/ At(e, "ok") /\ Full(e, out[e])
        BY <2>1, <2>4 DEF Somewhere, At
      <3>2. Same(e)
        BY <1>k
      <3> QED BY <1>k, <3>1, <3>2 DEF Somewhere, Same, At, Full
    <2> QED BY <2>3, <2>4
  <1>3. CASE StopDiscovery(c)
    <2>1. pc[c] = "stop" /\ UNCHANGED <<queue, found, live, out>>
      BY <1>3 DEF StopDiscovery, At
    <2> QED BY <1>s, <2>1 DEF Over
  <1>4. CASE Merge(c)
    <2>1. pc[c] = "merge" /\ UNCHANGED <<queue, out>>
      BY <1>4 DEF Merge, At, radio, Rest
    <2>2. CASE live[c] = <<>>
      BY <1>4, <1>s, <2>1, <2>2 DEF Merge, Over
    <2>3. CASE live[c] # <<>>
      <3>1. live'[c] = Tail(live[c]) /\ found'[c] = Add(found[c], Head(live[c]))
        BY <1>4, <1>t, <2>3 DEF Merge
      <3>2. Head(live[c]) \in Entry /\ Devices(live[c]) = {Head(live[c]).dev} \cup Devices(Tail(live[c]))
        BY <1>t, <2>3, HeadDevices
      <3>3. Devices(found[c]) \cup {Head(live[c]).dev} \subseteq Devices(found'[c])
        BY <1>t, <3>1, <3>2, AddHolds
      <3> QED BY <1>s, <2>1, <3>1, <3>2, <3>3 DEF Over
    <2> QED BY <2>2, <2>3
  <1>5. CASE Sift(c)
    <2>1. /\ pc[c] \in {"sift", "collect"} /\ UNCHANGED <<queue, live>>
      BY <1>5 DEF Sift
    <2>2. d \in Range(out[c]) \cup Devices(found[c]) => d \in Range(out'[c]) \cup Devices(found'[c])
      BY <1>5, <1>t, SiftKeeps
    <2> QED BY <1>s, <2>1, <2>2 DEF Over
  <1>6. CASE Return(c)
    <2>1. pc[c] = "sift" /\ UNCHANGED <<queue, found, live, out>>
      BY <1>6 DEF Return, At, radio, Rest
    <2> QED BY <1>s, <2>1 DEF Over
  <1>7. CASE Drop(c)
    <2>1. pc[c] \in {"window", "collect"} /\ UNCHANGED <<queue, found, live, out>>
      BY <1>7 DEF Drop, Rest
    <2> QED BY <1>s, <2>1 DEF Over
  <1>8. ~ (StartScan(c) \/ StartSession(c) \/ DrainFails(c) \/ ListPeripherals(c) \/ SessionEnds(c))
    BY DEF StartScan, StartSession, DrainFails, ListPeripherals, SessionEnds
  <1> QED BY <1>1, <1>2, <1>3, <1>4, <1>5, <1>6, <1>7, <1>8 DEF Moves

(* Every step of anyone's keeps what calls heard between them. *)
LEMMA BetweenStep == Inv /\ Between /\ [Next]_vars => Between'
  <1> SUFFICES ASSUME Inv, Between, [Next]_vars, kind' = "android", partial' = {},
                      NEW x \in Call, NEW d \in DevicesOf(heard'[x]), \A e \in Call : Wanted(e, d)'
               PROVE  Somewhere(d)'
    BY DEF Between
  <1>k. /\ kind' = kind /\ filter' = filter /\ partial \subseteq partial'
        /\ answered \subseteq answered'
    BY DEF Next, Moves, Drop, StartAndroid, StartScan, StartSession, Poll, DrainFails,
           StopDiscovery, Merge, ListPeripherals, SessionEnds, Sift, Return, Answer, Forget,
           Rest, vars, history
  <1>w. \A e \in Call : Wanted(e, d)
    BY <1>k, WantedStill
  <1>h. \A y \in DevicesOf(heard[x]) : y \in Device
    BY DiscoveryAssumption DEF Inv, TypeOK, DevicesOf, Entry
  <1>b. ASSUME d \in DevicesOf(heard[x]) PROVE Somewhere(d)
    BY <1>b, <1>k, <1>w DEF Between
  <1>1. ASSUME NEW c \in Call, Moves(c) \/ Drop(c) PROVE Somewhere(d)'
    <2>1. heard' = heard
      BY <1>1 DEF Moves, Drop, StartAndroid, StartScan, StartSession, Poll, DrainFails,
                  StopDiscovery, Merge, ListPeripherals, SessionEnds, Sift, Return, Rest, history
    <2>2. Somewhere(d) /\ d \in Device
      BY <1>b, <1>h, <2>1
    <2> QED BY <1>1, <1>k, <1>w, <2>2, SomewhereMove
  <1>2. ASSUME NEW a \in Adverts, Answer(a) PROVE Somewhere(d)'
    <2>1. /\ UNCHANGED <<kind, filter, pc, live, out>> /\ inquiry = "on"
          /\ heard'[x] \subseteq heard[x] \cup {a}
          /\ \A e \in Call : found'[e] = found[e]
      BY <1>2, <1>k DEF Answer
    <2>2. Devices(queue') = Devices(queue) \cup {a.dev}
      BY <1>2, <1>k, <2>1, AppendDevices, DiscoveryAssumption DEF Answer, Inv, RadioInv, TypeOK
    <2>3. CASE d = a.dev
      BY <2>2, <2>3 DEF Somewhere
    <2>4. CASE d # a.dev
      <3>1. Somewhere(d)
        BY <1>b, <2>1, <2>4 DEF DevicesOf
      <3> QED BY <2>1, <2>2, <3>1 DEF Somewhere, At, Full
    <2> QED BY <2>3, <2>4
  <1>3. ASSUME NEW y \in Device, Forget(y) PROVE Somewhere(d)'
    BY <1>3, <1>k DEF Forget
  <1>4. CASE UNCHANGED vars
    <2>1. UNCHANGED <<filter, pc, found, live, out, queue, heard>>
      BY <1>4 DEF vars, radio, history
    <2> QED BY <1>b, <2>1 DEF Somewhere, At, Full
  <1> QED BY <1>1, <1>2, <1>3, <1>4 DEF Next

(* NothingLostBetween for every value of the constants: any number of      *)
(* calls that share Android's queue and stop each other's inquiry return   *)
(* between them what all of them want, or leave it in the queue.           *)
THEOREM BetweenCorrect == Spec => []NothingLostBetween
  <1>1. Inv /\ Between => NothingLostBetween
    <2> SUFFICES ASSUME Inv, Between, kind = "android", partial = {},
                        \A c \in Call : At(c, "ok") /\ ~ Full(c, out[c]),
                        NEW x \in Call, NEW d \in DevicesOf(heard[x]),
                        \A e \in Call : Wanted(e, d), d \notin Devices(queue)
                 PROVE  \E e \in Call : d \in Range(out[e])
      BY DEF NothingLostBetween, DevicesOf, Devices
    <2>1. Somewhere(d)
      BY DEF Between
    <2>2. PICK e \in Call : d \in Devices(live[e]) \cup Range(out[e]) \cup Devices(found[e])
      BY <2>1 DEF Somewhere, At
    <2>3. found[e] = <<>> /\ live[e] = <<>>
      BY DEF Inv, Local, Begun, At
    <2> QED BY <2>2, <2>3, EmptyHolds
  <1>2. Init => Between
    BY DEF Init, Between, DevicesOf
  <1> QED BY <1>1, <1>2, InvCorrect, BetweenStep, PTL DEF Spec

=============================================================================
