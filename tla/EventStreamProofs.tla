-------------------------- MODULE EventStreamProofs --------------------------
(***************************************************************************)
(* The guarantees of the event stream for any number of tasks, observers   *)
(* and events.  The inductive invariant adds to the properties that what   *)
(* was stamped lies behind the counter and the clock (Behind), and that    *)
(* what a task still owes an observer is newer than all it has sent there  *)
(* (OwesNewer).                                                            *)
(***************************************************************************)
EXTENDS EventStream, SequenceTheorems, TLAPS

Behind == \A e \in Stamped : e.seq < seq /\ e.at <= clock

OwesNewer ==
  \A o \in Observers, t \in Task : Owes(t, o) =>
    \A i \in 1..Len(log[o]) : log[o][i].by = t => log[o][i].seq < held[t].seq

StreamInv ==
  /\ StreamTypeOK
  /\ Complete
  /\ Behind /\ TimeFollowsNumber /\ ObserversAgree
  /\ OwnOrder /\ OwesNewer

(* What Stamped ranges over.                                               *)
LEMMA StampedIs ==
  ASSUME StreamTypeOK
  PROVE  /\ \A e \in Stamped :
              \/ \E t \in Task : due[t] > 0 /\ e = held[t]
              \/ \E o \in Observers : \E i \in 1..Len(log[o]) : e = log[o][i]
         /\ \A t \in Task : due[t] > 0 => held[t] \in Stamped
         /\ \A o \in Observers : \A i \in 1..Len(log[o]) : log[o][i] \in Stamped
         /\ Stamped \subseteq Event
<1>1. \A o \in Observers : log[o] \in Seq(Event) /\ DOMAIN log[o] = 1..Len(log[o])
  BY LenProperties DEF StreamTypeOK
<1>2. \A e \in Stamped :
        \/ \E t \in Task : due[t] > 0 /\ e = held[t]
        \/ \E o \in Observers : \E i \in 1..Len(log[o]) : e = log[o][i]
  BY <1>1, Zenon DEF Stamped, Range
<1>3. \A t \in Task : due[t] > 0 => held[t] \in Stamped
  BY Zenon DEF Stamped
<1>4. \A o \in Observers : \A i \in 1..Len(log[o]) : log[o][i] \in Stamped
  <2>1. \A o \in Observers : \A i \in 1..Len(log[o]) : log[o][i] \in Range(log[o])
    BY <1>1 DEF Range
  <2> QED BY <2>1, Zenon DEF Stamped
<1>5. Stamped \subseteq Event
  <2>1. \A o \in Observers : \A i \in 1..Len(log[o]) : log[o][i] \in Event
    BY <1>1
  <2> QED BY <1>2, <2>1 DEF StreamTypeOK
<1> QED BY <1>2, <1>3, <1>4, <1>5

(* Where a stamped event may be after a step. *)
LEMMA StampedNext ==
  ASSUME StreamTypeOK'
  PROVE  \A e \in Stamped' :
           \/ \E t \in Task : due'[t] > 0 /\ e = held'[t]
           \/ \E o \in Observers : \E i \in 1..Len(log'[o]) : e = log'[o][i]
<1>1. \A o \in Observers : DOMAIN log'[o] = 1..Len(log'[o])
  BY LenProperties DEF StreamTypeOK, Observers
<1> QED BY <1>1, Zenon DEF Stamped, Range, Observers

(* Nothing is stamped at the start. *)
LEMMA InvInit == Init => StreamInv
<1> SUFFICES ASSUME Init PROVE StreamInv
  OBVIOUS
<1>1. /\ \A t \in Task : due[t] = 0
      /\ \A o \in Observers : log[o] = <<>> /\ Len(log[o]) = 0
  BY EmptySeq DEF Init
<1>2. StreamTypeOK
  BY <1>1, EmptySeq, StreamAssumption DEF Init, StreamTypeOK
<1>3. \A e \in Stamped : FALSE
  BY <1>1, <1>2, StampedIs
<1>4. Complete
  BY <1>1 DEF Init, Complete, Owes
<1>5. OwnOrder /\ OwesNewer
  BY <1>1 DEF OwnOrder, OwesNewer, Owes
<1> QED BY <1>2, <1>3, <1>4, <1>5
        DEF StreamInv, Behind, TimeFollowsNumber, ObserversAgree

-----------------------------------------------------------------------------
(* Stamping.                                                               *)

(* Stamping keeps the invariant. *)
LEMMA StampInv ==
  ASSUME StreamInv, NEW t \in Task, NEW dt \in Nat, Stamp(t, dt)
  PROVE  StreamInv'
<1> DEFINE e == [seq |-> seq, at |-> clock, by |-> t]
<1>1. /\ due[t] = 0 /\ log' = log /\ seq' = seq + 1 /\ clock' = clock + dt
      /\ held' = [held EXCEPT ![t] = e] /\ due' = [due EXCEPT ![t] = 1]
      /\ seq \in Nat /\ clock \in Nat /\ e \in Event
  BY DEF Stamp, StreamInv, StreamTypeOK, Event
<1>2. /\ held'[t] = e /\ due'[t] = 1
      /\ \A u \in Task : u # t => held'[u] = held[u] /\ due'[u] = due[u]
  BY <1>1 DEF StreamInv, StreamTypeOK
<1>3. StreamTypeOK'
  BY <1>1, <1>2, StreamAssumption DEF StreamInv, StreamTypeOK, Event
<1>4. \A f \in Stamped' : f \in Stamped \/ f = e
  <2>1. \A f \in Stamped' :
          \/ \E u \in Task : due'[u] > 0 /\ f = held'[u]
          \/ \E o \in Observers : \E i \in 1..Len(log[o]) : f = log[o][i]
    BY <1>1, <1>3, StampedNext
  <2> QED BY <1>2, <2>1, StampedIs DEF StreamInv
<1>5. Behind /\ Stamped \subseteq Event
  BY StampedIs DEF StreamInv
<1>6. Behind'
  <2>1. e.seq = seq /\ e.at = clock
    OBVIOUS
  <2> QED BY <1>1, <1>4, <1>5, <2>1 DEF Behind, Event
<1>7. TimeFollowsNumber' /\ ObserversAgree'
  <2>1. e.seq = seq /\ e.at = clock
    OBVIOUS
  <2> HIDE DEF e
  <2>2. \A f, g \in Stamped' : f.seq < g.seq => f.at <= g.at
    BY <1>1, <1>4, <1>5, <2>1 DEF Behind, StreamInv, TimeFollowsNumber, Event
  <2>3. \A f, g \in Stamped' : f.seq = g.seq => f = g
    BY <1>1, <1>4, <1>5, <2>1 DEF Behind, StreamInv, ObserversAgree, Event
  <2> QED BY <2>2, <2>3 DEF TimeFollowsNumber, ObserversAgree
<1>8. \A o \in Observers : \A i \in 1..Len(log[o]) : log[o][i].seq \in Nat
  BY StampedIs DEF StreamInv, Event
<1>9. \A o \in Observers, u \in Task :
        Owes(u, o)' <=> u = t \/ Owes(u, o)
  BY <1>1, <1>2 DEF Owes, Observers
<1>10. Complete'
  <2> SUFFICES ASSUME NEW o \in Observers
               PROVE  /\ \A n \in 0..(seq' - 1) :
                           n \in Seen(o)' \/ \E u \in Task : Owes(u, o)' /\ held'[u].seq = n
                      /\ \A i, j \in 1..Len(log[o]) : log[o][i].seq = log[o][j].seq => i = j
                      /\ \A i \in 1..Len(log[o]) : log[o][i].seq < seq'
                      /\ \A u \in Task : Owes(u, o)' =>
                           held'[u].seq < seq' /\ held'[u].seq \notin Seen(o)'
                      /\ \A u, w \in Task :
                           Owes(u, o)' /\ Owes(w, o)' /\ held'[u].seq = held'[w].seq => u = w
    BY <1>1 DEF Complete, Observers
  <2>1. Seen(o)' = Seen(o) /\ seq \notin Seen(o)
    BY <1>1, <1>8 DEF Seen, StreamInv, Complete
  <2>2. ~Owes(t, o) /\ held'[t].seq = seq
    BY <1>1, <1>2 DEF Owes
  <2>3. \A u \in Task : Owes(u, o) => /\ u # t /\ held'[u] = held[u]
                                       /\ held[u].seq < seq /\ held[u].seq \notin Seen(o)
    BY <1>2, <2>2 DEF StreamInv, Complete
  <2>4. \A n \in 0..(seq' - 1) :
          n \in Seen(o)' \/ \E u \in Task : Owes(u, o)' /\ held'[u].seq = n
    BY <1>1, <1>9, <2>1, <2>2, <2>3 DEF StreamInv, Complete
  <2>5. \A u \in Task : Owes(u, o)' =>
          held'[u].seq < seq' /\ held'[u].seq \notin Seen(o)'
    <3>1. \A u \in Task : Owes(u, o) => held[u].seq \in Nat
      BY DEF StreamInv, StreamTypeOK, Event, Owes
    <3> QED BY <1>1, <1>9, <2>1, <2>2, <2>3, <3>1
  <2>6. \A u, w \in Task :
          Owes(u, o)' /\ Owes(w, o)' /\ held'[u].seq = held'[w].seq => u = w
    <3>1. \A u, w \in Task :
            Owes(u, o) /\ Owes(w, o) /\ held[u].seq = held[w].seq => u = w
      BY DEF StreamInv, Complete
    <3> QED BY <1>1, <1>9, <2>2, <2>3, <3>1
  <2> QED BY SMTT(30), <1>1, <1>8, <2>4, <2>5, <2>6 DEF StreamInv, Complete
<1>11. OwnOrder'
  BY SMTT(30), <1>1 DEF StreamInv, OwnOrder, Observers
<1>12. OwesNewer'
  <2>1. \A o \in Observers : \A i \in 1..Len(log[o]) : log[o][i].seq < held'[t].seq
    BY <1>1, <1>2 DEF StreamInv, Complete
  <2>2. \A o \in Observers, u \in Task : u # t /\ Owes(u, o) =>
          \A i \in 1..Len(log[o]) : log[o][i].by = u => log[o][i].seq < held'[u].seq
    BY <1>2 DEF StreamInv, OwesNewer
  <2> QED BY <1>1, <1>9, <2>1, <2>2 DEF OwesNewer, Observers
<1> QED BY <1>3, <1>6, <1>7, <1>10, <1>11, <1>12 DEF StreamInv

-----------------------------------------------------------------------------
(* Delivering.                                                             *)

(* Delivering keeps the invariant. *)
LEMMA DeliverInv ==
  ASSUME StreamInv, NEW t \in Task, Deliver(t)
  PROVE  StreamInv'
<1>0. PICK o \in Observers : due[t] = o
  BY DEF Deliver, StreamInv, StreamTypeOK, Observers
<1>1. /\ o \in Observers /\ held[t] \in Event /\ held[t].by = t
      /\ seq' = seq /\ clock' = clock /\ held' = held
      /\ log' = [log EXCEPT ![o] = Append(@, held[t])]
      /\ due' = [due EXCEPT ![t] = IF @ = Fan THEN 0 ELSE @ + 1]
  BY <1>0 DEF Deliver, StreamInv, StreamTypeOK, Observers
<1>2. \A p \in Observers : p # o => log'[p] = log[p]
  BY <1>1 DEF StreamInv, StreamTypeOK
<1>3. /\ log[o] \in Seq(Event) /\ Len(log[o]) \in Nat
      /\ log'[o] = Append(log[o], held[t])
  BY <1>1 DEF StreamInv, StreamTypeOK
<1>4. /\ Len(log'[o]) = Len(log[o]) + 1
      /\ log'[o][Len(log[o]) + 1] = held[t]
      /\ \A i \in 1..Len(log[o]) : log'[o][i] = log[o][i]
      /\ log'[o] \in Seq(Event)
  BY <1>1, <1>3, AppendProperties
<1>5. /\ due'[t] = IF o = Fan THEN 0 ELSE o + 1
      /\ \A u \in Task : u # t => due'[u] = due[u]
  BY <1>0, <1>1 DEF StreamInv, StreamTypeOK
<1>6. StreamTypeOK'
  <2>1. \A u \in Task : due'[u] > 0 => held'[u] \in Event /\ held'[u].by = u
    BY <1>0, <1>1, <1>5 DEF StreamInv, StreamTypeOK, Observers
  <2>2. due' \in [Task -> 0..Fan]
    BY <1>0, <1>1, StreamAssumption DEF StreamInv, StreamTypeOK, Observers
  <2>3. log' \in [Observers -> Seq(Event)]
    BY <1>1, <1>4 DEF StreamInv, StreamTypeOK
  <2> QED BY <1>1, <2>1, <2>2, <2>3 DEF StreamInv, StreamTypeOK
<1>7. \A u \in Task, p \in Observers :
        Owes(u, p)' <=> Owes(u, p) /\ ~(u = t /\ p = o)
  BY <1>0, <1>1, <1>5, StreamAssumption DEF Owes, Observers, StreamInv, StreamTypeOK
<1>8. Owes(t, o)
  BY <1>0, <1>1 DEF Owes, Observers
<1>9. \A f \in Stamped' : f \in Stamped
  <2>1. \A f \in Stamped' :
          \/ \E u \in Task : due'[u] > 0 /\ f = held'[u]
          \/ \E p \in Observers : \E i \in 1..Len(log'[p]) : f = log'[p][i]
    BY <1>6, StampedNext
  <2>2. \A u \in Task : due'[u] > 0 => held'[u] \in Stamped
    BY <1>0, <1>1, <1>5, StampedIs DEF StreamInv, Observers
  <2>3. \A p \in Observers : \A i \in 1..Len(log'[p]) : log'[p][i] \in Stamped
    <3>1. held[t] \in Stamped
      BY <1>0, <1>1, StampedIs DEF StreamInv, Observers
    <3>2. \A i \in 1..Len(log'[o]) : i = Len(log[o]) + 1 \/ i \in 1..Len(log[o])
      BY <1>3, <1>4
    <3>3. \A p \in Observers : \A i \in 1..Len(log[p]) : log[p][i] \in Stamped
      BY StampedIs DEF StreamInv
    <3> QED BY <1>1, <1>2, <1>4, <3>1, <3>2, <3>3
  <2> QED BY <2>1, <2>2, <2>3
<1>10. Behind' /\ TimeFollowsNumber' /\ ObserversAgree'
  BY <1>1, <1>9 DEF StreamInv, Behind, TimeFollowsNumber, ObserversAgree
<1>11. \A i \in 1..Len(log'[o]) :
         i = Len(log[o]) + 1 \/ (i \in 1..Len(log[o]) /\ i < Len(log[o]) + 1)
  BY <1>3, <1>4
<1>12. /\ Seen(o)' = Seen(o) \union {held[t].seq}
       /\ \A p \in Observers : p # o => Seen(p)' = Seen(p)
  <2>1. Seen(o)' = {log'[o][i].seq : i \in 1..Len(log'[o])}
    BY <1>1 DEF Seen
  <2>2. \A n \in Seen(o)' : n \in Seen(o) \union {held[t].seq}
    BY <1>4, <1>11 DEF Seen
  <2>3. \A n \in Seen(o) \union {held[t].seq} : n \in {log'[o][i].seq : i \in 1..Len(log'[o])}
    <3>1. Len(log[o]) + 1 \in 1..Len(log'[o]) /\ 1..Len(log[o]) \subseteq 1..Len(log'[o])
      BY <1>3, <1>4
    <3> QED BY <1>4, <3>1 DEF Seen
  <2>4. \A p \in Observers : p # o => Seen(p)' = Seen(p)
    BY <1>2 DEF Seen
  <2> QED BY <2>1, <2>2, <2>3, <2>4
<1>13. Complete'
  <2> SUFFICES ASSUME NEW p \in Observers
               PROVE  /\ \A n \in 0..(seq - 1) :
                           n \in Seen(p)' \/ \E u \in Task : Owes(u, p)' /\ held[u].seq = n
                      /\ \A i, j \in 1..Len(log'[p]) : log'[p][i].seq = log'[p][j].seq => i = j
                      /\ \A i \in 1..Len(log'[p]) : log'[p][i].seq < seq
                      /\ \A u \in Task : Owes(u, p)' =>
                           held[u].seq < seq /\ held[u].seq \notin Seen(p)'
                      /\ \A u, w \in Task :
                           Owes(u, p)' /\ Owes(w, p)' /\ held[u].seq = held[w].seq => u = w
    BY <1>1 DEF Complete, Observers
  <2>1. CASE p # o
    BY <1>2, <1>7, <1>12, <2>1 DEF StreamInv, Complete
  <2>2. CASE p = o
    <3>1. /\ \A n \in 0..(seq - 1) :
               n \in Seen(o) \/ \E u \in Task : Owes(u, o) /\ held[u].seq = n
          /\ \A i, j \in 1..Len(log[o]) : log[o][i].seq = log[o][j].seq => i = j
          /\ \A i \in 1..Len(log[o]) : log[o][i].seq < seq
          /\ \A u \in Task : Owes(u, o) =>
               held[u].seq < seq /\ held[u].seq \notin Seen(o)
          /\ \A u, w \in Task :
               Owes(u, o) /\ Owes(w, o) /\ held[u].seq = held[w].seq => u = w
      BY <1>1 DEF StreamInv, Complete
    <3>2. \A i \in 1..Len(log[o]) : log[o][i].seq # held[t].seq
      BY <1>8, <3>1 DEF Seen
    <3>3. \A n \in 0..(seq - 1) :
            n \in Seen(o)' \/ \E u \in Task : Owes(u, o)' /\ held[u].seq = n
      BY <1>1, <1>7, <1>12, <3>1
    <3>4. \A i, j \in 1..Len(log'[o]) : log'[o][i].seq = log'[o][j].seq => i = j
      BY <1>4, <1>11, <3>1, <3>2
    <3>5. \A i \in 1..Len(log'[o]) : log'[o][i].seq < seq
      BY <1>4, <1>8, <1>11, <3>1
    <3>6. \A u \in Task : Owes(u, o)' => held[u].seq < seq /\ held[u].seq \notin Seen(o)'
      BY <1>1, <1>7, <1>8, <1>12, <3>1
    <3>7. \A u, w \in Task :
            Owes(u, o)' /\ Owes(w, o)' /\ held[u].seq = held[w].seq => u = w
      BY <1>1, <1>7, <3>1
    <3> QED BY <2>2, <3>3, <3>4, <3>5, <3>6, <3>7
  <2> QED BY <2>1, <2>2
<1>14. OwnOrder'
  <2> SUFFICES ASSUME NEW p \in Observers, NEW i \in 1..Len(log'[p]),
                      NEW j \in 1..Len(log'[p]), i < j,
                      log'[p][i].by = log'[p][j].by
               PROVE  log'[p][i].seq < log'[p][j].seq
    BY DEF OwnOrder, Observers
  <2>1. CASE p # o
    BY <1>2, <2>1 DEF StreamInv, OwnOrder
  <2>2. CASE p = o
    <3>1. i \in 1..Len(log[o]) /\ log'[o][i] = log[o][i]
      BY <1>3, <1>4, <2>2
    <3>2. CASE j \in 1..Len(log[o])
      BY <1>1, <1>4, <2>2, <3>1, <3>2 DEF StreamInv, OwnOrder
    <3>3. CASE j = Len(log[o]) + 1
      BY <1>1, <1>4, <1>8, <2>2, <3>1, <3>3 DEF StreamInv, OwesNewer
    <3> QED BY <1>11, <2>2, <3>2, <3>3
  <2> QED BY <2>1, <2>2
<1>15. OwesNewer'
  <2> SUFFICES ASSUME NEW p \in Observers, NEW u \in Task, Owes(u, p)',
                      NEW i \in 1..Len(log'[p]), log'[p][i].by = u
               PROVE  log'[p][i].seq < held[u].seq
    BY <1>1 DEF OwesNewer, Observers
  <2>1. Owes(u, p) /\ ~(u = t /\ p = o)
    BY <1>7
  <2>2. CASE p # o
    BY <1>2, <2>1, <2>2 DEF StreamInv, OwesNewer
  <2>3. CASE p = o
    <3>1. u # t
      BY <2>1, <2>3
    <3>2. i \in 1..Len(log[o]) /\ log'[o][i] = log[o][i]
      BY <1>1, <1>4, <1>11, <2>3, <3>1
    <3> QED BY <2>1, <2>3, <3>2 DEF StreamInv, OwesNewer
  <2> QED BY <2>2, <2>3
<1> QED BY <1>6, <1>10, <1>13, <1>14, <1>15 DEF StreamInv

-----------------------------------------------------------------------------
(* Advancing the clock keeps the invariant. *)
LEMMA AdvanceInv ==
  ASSUME StreamInv, NEW dt \in Nat, Advance(dt)
  PROVE  StreamInv'
<1>1. Stamped' = Stamped
  BY DEF Advance, Stamped, Observers
<1>2. StreamTypeOK'
  BY DEF Advance, StreamInv, StreamTypeOK
<1>3. Behind'
  <2>1. clock' \in Nat /\ clock' >= clock /\ clock \in Nat /\ seq' = seq
    BY DEF Advance, StreamInv, StreamTypeOK
  <2>2. \A e \in Stamped : e.at \in Nat /\ e.seq < seq /\ e.at <= clock
    BY StampedIs DEF StreamInv, Behind, Event
  <2> QED BY <1>1, <2>1, <2>2 DEF Behind
<1>4. Complete' /\ OwnOrder' /\ OwesNewer'
  <2>1. seq' = seq /\ held' = held /\ due' = due /\ log' = log
    BY DEF Advance
  <2>2. \A o \in Observers : Seen(o)' = Seen(o) /\ \A t \in Task : Owes(t, o)' <=> Owes(t, o)
    BY <2>1 DEF Seen, Owes
  <2>3. Complete'
    BY <2>1, <2>2 DEF StreamInv, Complete, Observers
  <2>4. OwnOrder' /\ OwesNewer'
    BY <2>1, <2>2 DEF StreamInv, OwnOrder, OwesNewer, Observers
  <2> QED BY <2>3, <2>4
<1>5. TimeFollowsNumber' /\ ObserversAgree'
  BY <1>1 DEF StreamInv, TimeFollowsNumber, ObserversAgree
<1> QED BY <1>2, <1>3, <1>4, <1>5 DEF StreamInv

(* A step of others keeps the invariant. *)
LEMMA StutterInv ==
  ASSUME StreamInv, UNCHANGED streamVars
  PROVE  StreamInv'
<1>1. Stamped' = Stamped
  BY DEF streamVars, Stamped, Observers
<1>2. StreamTypeOK'
  BY DEF streamVars, StreamInv, StreamTypeOK
<1>3. Complete' /\ OwnOrder' /\ OwesNewer'
  BY DEF streamVars, StreamInv, Complete, OwnOrder, OwesNewer, Owes, Seen, Observers
<1>4. Behind' /\ TimeFollowsNumber' /\ ObserversAgree'
  BY <1>1 DEF streamVars, StreamInv, Behind, TimeFollowsNumber, ObserversAgree
<1> QED BY <1>2, <1>3, <1>4 DEF StreamInv

(* Every state of the stream satisfies the inductive invariant.            *)
THEOREM StreamCorrect == Spec => []StreamInv
<1>1. StreamInv /\ [Step]_streamVars => StreamInv'
  BY StampInv, DeliverInv, AdvanceInv, StutterInv, StreamAssumption DEF Step
<1> QED BY InvInit, <1>1, PTL DEF Spec

(* No event is lost, repeated or renumbered between its stamping and any   *)
(* observer, however tasks interleave.                                     *)
THEOREM NothingLost == Spec => []Complete
<1>1. StreamInv => Complete
  BY DEF StreamInv
<1> QED BY <1>1, StreamCorrect, PTL

(* Numbers and times agree; a number names one event.                      *)
THEOREM TimeCorrect == Spec => [](TimeFollowsNumber /\ ObserversAgree)
<1>1. StreamInv => TimeFollowsNumber /\ ObserversAgree
  BY DEF StreamInv
<1> QED BY <1>1, StreamCorrect, PTL

(* Each task's events reach each observer in the order it emitted them.    *)
THEOREM OwnOrderCorrect == Spec => []OwnOrder
<1>1. StreamInv => OwnOrder
  BY DEF StreamInv
<1> QED BY <1>1, StreamCorrect, PTL
=============================================================================
