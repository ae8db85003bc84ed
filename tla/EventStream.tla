----------------------------- MODULE EventStream -----------------------------
(***************************************************************************)
(* The event stream between a backend and its observers: tasks that stamp  *)
(* events under the backend's mutex, each with the next sequence number    *)
(* and the virtual time, and hand them to a fan-out of observers after     *)
(* releasing it.  Between stamping and delivering, and between one         *)
(* observer and the next, any other task may run.                          *)
(***************************************************************************)
EXTENDS Integers, Sequences, Functions

CONSTANTS
  Task,       \* the tasks that share the backend
  Fan,        \* how many observers the fan-out calls, in turn
  Ticks,      \* by how much one event, or a wait, may advance the clock
  MaxEvents,  \* bound on the events of a model-checked behaviour
  MaxTime     \* bound on its clock

ASSUME StreamAssumption ==
  /\ Fan \in Nat \ {0}
  /\ Ticks \subseteq Nat
  /\ MaxEvents \in Nat /\ MaxTime \in Nat

VARIABLES
  seq,     \* MockState.seq: the next sequence number
  clock,   \* MockState.clock_ns: the virtual time
  held,    \* held[t]: the event task t stamped last
  due,     \* due[t]: the observer t hands it to next, 0 when none is left
  log      \* log[o]: what observer o has received, in order of arrival

streamVars == <<seq, clock, held, due, log>>

Observers == 1..Fan

(* What an event says is of no concern here. *)
Event == [seq : Nat, at : Nat, by : Task]

Init ==
  /\ seq = 0
  /\ clock = 0
  /\ held = [t \in Task |-> <<>>]
  /\ due = [t \in Task |-> 0]
  /\ log = [o \in Observers |-> <<>>]

StampWithoutTakingNumber(t, dt) ==
  /\ due[t] = 0
  /\ held' = [held EXCEPT ![t] = [seq |-> seq, at |-> clock, by |-> t]]
  /\ due' = [due EXCEPT ![t] = 1]
  /\ clock' = clock + dt
  /\ UNCHANGED <<seq, log>>

(* emit's critical section: take the number and the time, advance both. *)
Stamp(t, dt) ==
  /\ due[t] = 0
  /\ held' = [held EXCEPT ![t] = [seq |-> seq, at |-> clock, by |-> t]]
  /\ due' = [due EXCEPT ![t] = 1]
  /\ seq' = seq + 1
  /\ clock' = clock + dt
  /\ UNCHANGED log

(* FanOut.on_event's loop calls the next observer, outside the lock. *)
Deliver(t) ==
  /\ due[t] > 0
  /\ log' = [log EXCEPT ![due[t]] = Append(@, held[t])]
  /\ due' = [due EXCEPT ![t] = IF @ = Fan THEN 0 ELSE @ + 1]
  /\ UNCHANGED <<seq, clock, held>>

SetClock(dt) ==
  /\ clock' = dt
  /\ UNCHANGED <<seq, held, due, log>>

(* accept_pairings lets its window pass. *)
Advance(dt) ==
  /\ clock' = clock + dt
  /\ UNCHANGED <<seq, held, due, log>>

Step ==
  \/ \E t \in Task, dt \in Ticks : Stamp(t, dt)
  \/ \E t \in Task : Deliver(t)
  \/ \E dt \in Ticks : Advance(dt)

Spec == Init /\ [][Step]_streamVars

(* The steps within the bounds of a model-checked behaviour. *)
Next == Step /\ seq' <= MaxEvents /\ clock' <= MaxTime

(* on_event returns: it must be "cheap and non-blocking". *)
Fairness    == \A t \in Task : WF_streamVars(Deliver(t))
FairSpec    == Spec /\ Fairness
BoundedSpec == Init /\ [][Next]_streamVars /\ Fairness

-----------------------------------------------------------------------------
(* Properties. *)

StreamTypeOK ==
  /\ seq \in Nat
  /\ clock \in Nat
  /\ due \in [Task -> 0..Fan]
  /\ DOMAIN held = Task
  /\ \A t \in Task : due[t] > 0 => held[t] \in Event /\ held[t].by = t
  /\ log \in [Observers -> Seq(Event)]

Seen(o)    == {log[o][i].seq : i \in 1..Len(log[o])}
Owes(t, o) == due[t] \in 1..o

(* No event is lost, duplicated or renumbered on its way: each number      *)
(* handed out has reached observer o exactly once, or exactly one task     *)
(* still owes it to o.                                                     *)
Complete ==
  \A o \in Observers :
    /\ \A n \in 0..(seq - 1) :
         n \in Seen(o) \/ \E t \in Task : Owes(t, o) /\ held[t].seq = n
    /\ \A i, j \in 1..Len(log[o]) : log[o][i].seq = log[o][j].seq => i = j
    /\ \A i \in 1..Len(log[o]) : log[o][i].seq < seq
    /\ \A t \in Task : Owes(t, o) => held[t].seq < seq /\ held[t].seq \notin Seen(o)
    /\ \A t, u \in Task :
         Owes(t, o) /\ Owes(u, o) /\ held[t].seq = held[u].seq => t = u

(* Virtual time agrees with the numbering: of two events, the later number *)
(* never has the earlier time, even though tasks stamp concurrently and a  *)
(* window of waiting may pass in between.                                  *)
Stamped == {held[t] : t \in {u \in Task : due[u] > 0}}
             \union UNION {Range(log[o]) : o \in Observers}

TimeFollowsNumber ==
  \A e, f \in Stamped : e.seq < f.seq => e.at <= f.at

(* Observers of one fan-out receive the same events: a number that two of  *)
(* them have seen names one event.                                         *)
ObserversAgree ==
  \A e, f \in Stamped : e.seq = f.seq => e = f

(* The events of one task reach each observer in the order it emitted them *)
(* (across tasks there is no such order: InNumberOrder).                   *)
OwnOrder ==
  \A o \in Observers : \A i, j \in 1..Len(log[o]) :
    i < j /\ log[o][i].by = log[o][j].by => log[o][i].seq < log[o][j].seq

(* "Called once per event, in seq order", as observe.rs has it; refuted.    *)
InNumberOrder ==
  \A o \in Observers : \A i, j \in 1..Len(log[o]) :
    i < j => log[o][i].seq < log[o][j].seq
=============================================================================
