--------------------------- MODULE BlueZPushProofs ---------------------------
(* Safety of BlueZ's push, for any pushes, objects, names and deadlines.   *)
EXTENDS BlueZPush, SequenceTheorems, TLAPS

-----------------------------------------------------------------------------
(* Types. *)

(* Bytes written over bytes are bytes. *)
LEMMA WrittenType ==
  ASSUME NEW old \in Seq(Byte), NEW new \in Seq(Byte)
  PROVE  Written(old, new) \in Seq(Byte)
<1>1. Len(new) \in Nat /\ Len(old) \in Nat
  BY LenProperties
<1>2. SubSeq(old, Len(new) + 1, Len(old)) \in Seq(Byte)
  BY <1>1, SubSeqProperties, ElementOfSeq
<1> QED BY <1>2, ConcatProperties DEF Written

CallTypeOK ==
  /\ name \in Names
  /\ pc \in [Push -> Places]
  /\ verdict \in [Push -> Verdicts]
  /\ receipt \in [Push -> Nat]

DiskTypeOK ==
  /\ entry \in [Path -> Push \union {NoFile}]
  /\ data \in [Push -> Seq(Byte)]
  /\ handle \in [Push -> Push \union {NoFile}]
  /\ \A p \in Push : pc[p] = "write" => handle[p] \in Push

ObexdTypeOK ==
  /\ session \in [Push -> {"none", "open", "removed"}]
  /\ source \in [Push -> Push \union {NoFile}]
  /\ status \in [Push -> {"none", "active", "complete", "error"}]
  /\ vanished \in SUBSET Push
  /\ got \in [Push -> Seq(Byte)]
  /\ signals \in [Push -> Seq(Signal)]
  /\ \A p \in Push : status[p] = "active" => source[p] \in Push

CountTypeOK ==
  /\ total \in [Push -> Nat] /\ transferred \in [Push -> Nat]
  /\ last \in [Push -> Nat] /\ chunked \in [Push -> Nat]
  /\ elapsed \in [Push -> Nat] /\ waited \in [Push -> Nat]
  /\ seen \in [Push -> {"none", "active", "complete", "error", "unread"}]

(* The types are those of the calls, the disk, obexd and the counts. *)
LEMMA TypeParts == TypeOK <=> CallTypeOK /\ DiskTypeOK /\ ObexdTypeOK /\ CountTypeOK
BY DEF TypeOK, CallTypeOK, DiskTypeOK, ObexdTypeOK, CountTypeOK

(* The clauses about the counters that a step can disturb. *)
LEMMA ProgressType ==
  ASSUME CountTypeOK, NEW p \in Push, NEW n \in Nat, Progress(p, n)
  PROVE  last' \in [Push -> Nat] /\ chunked' \in [Push -> Nat]
BY DEF Progress, Beyond, CountTypeOK

(* The types, as a push succeeds. *)
LEMMA SucceedType ==
  ASSUME CallTypeOK, CountTypeOK, NEW p \in Push, NEW n \in Nat, Succeed(p, n)
  PROVE  CallTypeOK' /\ last' \in [Push -> Nat] /\ chunked' \in [Push -> Nat]
<1>1. Larger(total[p], n) \in Nat
  BY DEF Larger, CountTypeOK
<1> QED
  BY <1>1, ProgressType DEF Succeed, Finish, CallTypeOK, Places, Verdicts

(* The types, as obexd signals a change. *)
LEMMA TellType ==
  ASSUME ObexdTypeOK, NEW p \in Push, NEW n \in Nat,
         NEW how \in {"active", "complete", "error"}, Tell(p, n, how)
  PROVE  signals' \in [Push -> Seq(Signal)]
<1>1. [bytes |-> n, status |-> how] \in Signal
  BY DEF Signal
<1>2. Append(signals[p], [bytes |-> n, status |-> how]) \in Seq(Signal)
  BY <1>1, AppendProperties DEF ObexdTypeOK
<1> QED BY <1>2 DEF Tell, ObexdTypeOK

(* Every step keeps the types of the calls. *)
LEMMA CallStep ==
  ASSUME TypeOK, [Next]_vars
  PROVE  CallTypeOK'
<1> USE PushAssumption DEF CallTypeOK, Places, Verdicts
<1>0. CallTypeOK /\ CountTypeOK /\ ObexdTypeOK
  BY TypeParts
<1>1. ASSUME NEW p \in Push, Check(p) PROVE CallTypeOK'
  <2>1. transferred[p] \in Nat
    BY <1>0 DEF CountTypeOK
  <2> QED BY <1>0, <1>1, <2>1, SucceedType DEF Check, Finish, Goto
<1>2. ASSUME NEW p \in Push, ReadSignal(p) PROVE CallTypeOK'
  <2>1. transferred[p] \in Nat
    BY <1>0 DEF CountTypeOK
  <2> QED BY <1>0, <1>2, <2>1, SucceedType DEF ReadSignal, Finish, Goto, Turn
<1>3. ASSUME NEW p \in Push, Create(p) \/ Write(p) \/ SendFile(p) \/ Subscribe(p) \/ StopWaiting(p)
      PROVE  CallTypeOK'
  BY <1>0, <1>3 DEF Create, Write, SendFile, Subscribe, StopWaiting, Goto, Turn
<1>4. ASSUME NEW p \in Push, CreateSession(p) \/ SendFails(p) \/ StagingFails(p) \/ RemoveSession(p) \/ Drop(p)
      PROVE  CallTypeOK'
  BY <1>0, <1>4 DEF CreateSession, SendFails, StagingFails, RemoveSession, Drop, Goto, Leave, Finish
<1>5. ASSUME NEW p \in Push, Obexd(p) PROVE CallTypeOK'
  BY <1>0, <1>5 DEF Obexd, Transmit, Conclude, Vanish, call, TellStatus
<1>6. CASE Tick \/ UNCHANGED vars
  BY <1>0, <1>6 DEF Tick, vars, call
<1> QED BY <1>1, <1>2, <1>3, <1>4, <1>5, <1>6 DEF Next, Moves

(* The steps that leave the staged files alone. *)
LEMMA DiskKept ==
  ASSUME [Next]_vars,
         ~ \E p \in Push : Create(p) \/ Write(p) \/ CreateSession(p)
                             \/ RemoveSession(p) \/ Drop(p)
  PROVE  UNCHANGED disk
BY DEF Next, Moves, Obexd, StagingFails, SendFile, SendFails, Subscribe, Check,
       ReadSignal, StopWaiting, Transmit, Conclude, Vanish, Tick, vars,
       TellStatus, Turn

(* Every step keeps the types of the disk. *)
LEMMA DiskStep ==
  ASSUME TypeOK, [Next]_vars
  PROVE  DiskTypeOK'
<1> USE PushAssumption DEF DiskTypeOK
<1>0. CallTypeOK /\ DiskTypeOK /\ CallTypeOK'
  BY TypeParts, CallStep
<1>n. name \in [Push -> Path]
  BY <1>0 DEF CallTypeOK
<1>1. ASSUME NEW p \in Push, Create(p) PROVE DiskTypeOK'
  BY <1>0, <1>n, <1>1 DEF Create, PathOf, Goto, CallTypeOK
<1>2. ASSUME NEW p \in Push, Write(p) PROVE DiskTypeOK'
  <2>1. handle[p] \in Push
    BY <1>2 DEF TypeOK, Write, At
  <2>2. Written(data[handle[p]], Object[p]) \in Seq(Byte)
    BY <1>0, <2>1, PushAssumption, WrittenType
  <2> QED BY <1>0, <1>2, <2>1, <2>2 DEF Write, Goto, CallTypeOK
<1>3. ASSUME NEW p \in Push, CreateSession(p) \/ RemoveSession(p) \/ Drop(p)
      PROVE  DiskTypeOK'
  BY <1>0, <1>n, <1>3
  DEF CreateSession, RemoveSession, Drop, Leave, Unstage, PathOf, Goto, CallTypeOK, disk
<1>4. CASE ~ \E p \in Push : Create(p) \/ Write(p) \/ CreateSession(p)
                               \/ RemoveSession(p) \/ Drop(p)
  <2>1. UNCHANGED disk
    BY <1>4, DiskKept
  <2>2. ASSUME NEW p \in Push, pc'[p] = "write" PROVE pc[p] = "write"
    BY SMTT(30), <1>0, <1>4, <2>2
    DEF Next, Moves, Obexd, StagingFails, SendFile, SendFails, Subscribe, Check,
        ReadSignal, StopWaiting, Transmit, Conclude, Vanish, Tick, vars, call,
        Goto, Finish, Succeed, CallTypeOK, TellStatus, Turn
  <2> QED BY <1>0, <2>1, <2>2 DEF disk
<1> QED BY <1>1, <1>2, <1>3, <1>4

(* Every step keeps the types of obexd. *)
LEMMA ObexdStep ==
  ASSUME TypeOK, [Next]_vars
  PROVE  ObexdTypeOK'
<1> USE DEF ObexdTypeOK
<1>0. CallTypeOK /\ DiskTypeOK /\ ObexdTypeOK /\ CountTypeOK
  BY TypeParts
<1>1. ASSUME NEW p \in Push,
             Create(p) \/ Write(p) \/ StagingFails(p) \/ CreateSession(p)
               \/ SendFails(p) \/ Subscribe(p) \/ Check(p) \/ StopWaiting(p) \/ Vanish(p)
      PROVE  ObexdTypeOK'
  BY <1>0, <1>1
  DEF Create, Write, StagingFails, CreateSession, SendFails, Subscribe, Check,
      StopWaiting, Vanish, obexd, TellStatus, Turn
<1>2. ASSUME NEW p \in Push, SendFile(p) PROVE ObexdTypeOK'
  <2>1. entry[PathOf(p)] \in Push
    BY <1>0, <1>2, PushAssumption DEF SendFile, PathOf, CallTypeOK, DiskTypeOK
  <2> QED BY <1>0, <1>2, <2>1 DEF SendFile
<1>3. ASSUME NEW p \in Push, ReadSignal(p) PROVE ObexdTypeOK'
  <2>1. Tail(signals[p]) \in Seq(Signal)
    BY <1>0, <1>3, HeadTailProperties DEF ReadSignal, Turn
  <2> QED BY <1>0, <1>3, <2>1 DEF ReadSignal, obexd, Turn
<1>4. ASSUME NEW p \in Push, RemoveSession(p) \/ Drop(p) PROVE ObexdTypeOK'
  BY <1>0, <1>4 DEF RemoveSession, Drop, CloseSession
<1>5. ASSUME NEW p \in Push, Transmit(p) PROVE ObexdTypeOK'
  <2>1. Len(got[p]) \in Nat /\ data[source[p]] \in Seq(Byte)
    BY <1>0, <1>5, LenProperties DEF Transmit, DiskTypeOK
  <2>2. data[source[p]][Len(got[p]) + 1] \in Byte
    BY <1>5, <2>1, ElementOfSeq DEF Transmit
  <2>3. got' \in [Push -> Seq(Byte)]
    BY <1>0, <1>5, <2>2, AppendProperties DEF Transmit
  <2>4. signals' \in [Push -> Seq(Signal)]
    BY <1>0, <1>5, <2>1, TellType DEF Transmit
  <2> QED BY <1>0, <1>5, <2>3, <2>4 DEF Transmit
<1>6. ASSUME NEW p \in Push, Conclude(p) PROVE ObexdTypeOK'
  <2>1. PICK how \in {"complete", "error"} :
          status' = [status EXCEPT ![p] = how] /\ Tell(p, 0, how)
    BY <1>6 DEF Conclude
  <2>2. signals' \in [Push -> Seq(Signal)]
    BY <1>0, <2>1, TellType
  <2> QED BY <1>0, <1>6, <2>1, <2>2 DEF Conclude
<1>7. ASSUME NEW p \in Push, TellStatus(p) PROVE ObexdTypeOK'
  BY <1>0, <1>7 DEF TellStatus, obexd
<1>8. CASE Tick \/ UNCHANGED vars
  BY <1>0, <1>8 DEF Tick, vars, obexd
<1> QED BY <1>1, <1>2, <1>3, <1>4, <1>5, <1>6, <1>7, <1>8 DEF Next, Moves, Obexd

(* Every step keeps the types of the counts. *)
LEMMA CountStep ==
  ASSUME TypeOK, [Next]_vars
  PROVE  CountTypeOK'
<1> USE DEF CountTypeOK
<1>0. CallTypeOK /\ DiskTypeOK /\ ObexdTypeOK /\ CountTypeOK
  BY TypeParts
<1>1. ASSUME NEW p \in Push,
             Create(p) \/ Write(p) \/ StagingFails(p) \/ CreateSession(p)
               \/ SendFails(p) \/ Subscribe(p) \/ RemoveSession(p) \/ Drop(p)
               \/ Transmit(p) \/ Conclude(p) \/ Vanish(p)
      PROVE  CountTypeOK'
  BY <1>0, <1>1
  DEF Create, Write, StagingFails, CreateSession, SendFails, Subscribe,
      RemoveSession, Drop, Transmit, Conclude, Vanish, tally, clock
<1>2. ASSUME NEW p \in Push, SendFile(p) PROVE CountTypeOK'
  <2>1. entry[PathOf(p)] \in Push
    BY <1>0, <1>2, PushAssumption DEF SendFile, PathOf, CallTypeOK, DiskTypeOK
  <2>2. Len(data[entry[PathOf(p)]]) \in Nat
    BY <1>0, <2>1, LenProperties DEF DiskTypeOK
  <2> QED BY <1>0, <1>2, <2>2 DEF SendFile, tally, clock
<1>3. ASSUME NEW p \in Push, Check(p) PROVE CountTypeOK'
  BY <1>0, <1>3, SucceedType DEF Check, tally, clock
<1>4. ASSUME NEW p \in Push, ReadSignal(p) PROVE CountTypeOK'
  <2>1. Head(signals[p]).bytes \in Nat
    <3>1. Head(signals[p]) \in Signal
      BY <1>0, <1>4, HeadTailProperties DEF ReadSignal, ObexdTypeOK, Turn
    <3> QED BY <3>1 DEF Signal
  <2>2. UNCHANGED <<total, elapsed, seen>> /\ waited' \in [Push -> Nat]
    BY <1>0, <1>4 DEF ReadSignal, Turn
  <2> QED BY <1>0, <1>4, <2>1, <2>2, SucceedType, ProgressType DEF ReadSignal, tally, Turn
<1>5. CASE Tick
  <2>1. UNCHANGED <<total, tally, seen>>
    BY <1>5 DEF Tick
  <2>2. elapsed' \in [Push -> Nat] /\ waited' \in [Push -> Nat]
    BY <1>0, <1>5, \A n \in Nat : n + 1 \in Nat DEF Tick
  <2> QED BY <1>0, <2>1, <2>2 DEF tally
<1>6. CASE UNCHANGED vars
  BY <1>0, <1>6 DEF vars, tally, clock
<1>7. ASSUME NEW p \in Push, StopWaiting(p) PROVE CountTypeOK'
  BY <1>0, <1>7 DEF StopWaiting, Turn, tally
<1>8. ASSUME NEW p \in Push, TellStatus(p) PROVE CountTypeOK'
  <2>1. PICK answer \in {status[p], "unread"} : seen' = [seen EXCEPT ![p] = answer]
    BY <1>8 DEF TellStatus
  <2>2. answer \in {"none", "active", "complete", "error", "unread"}
    BY <1>0 DEF ObexdTypeOK
  <2> QED BY <1>0, <1>8, <2>1, <2>2 DEF TellStatus, tally
<1> QED BY <1>1, <1>2, <1>3, <1>4, <1>5, <1>6, <1>7, <1>8 DEF Next, Moves, Obexd

(* The types at the start. *)
LEMMA InitType == Init => TypeOK
BY PushAssumption, EmptySeq DEF Init, TypeOK, Places, Verdicts

(* Every step keeps the types. *)
LEMMA TypeStep == TypeOK /\ [Next]_vars => TypeOK'
<1> SUFFICES ASSUME TypeOK, [Next]_vars PROVE TypeOK' OBVIOUS
<1>1. CallTypeOK' /\ DiskTypeOK' /\ ObexdTypeOK' /\ CountTypeOK'
  BY CallStep, DiskStep, ObexdStep, CountStep
<1> QED BY <1>1 DEF TypeOK, CallTypeOK, DiskTypeOK, ObexdTypeOK, CountTypeOK

(* Every reachable state is well formed. *)
THEOREM TypeCorrect == Spec => []TypeOK
BY InitType, TypeStep, PTL DEF Spec

-----------------------------------------------------------------------------
(* Sessions. *)

SessionOf(p) ==
  /\ pc[p] \in {"create", "write", "session"} => session[p] = "none"
  /\ pc[p] = "over" => session[p] # "open"

(* Every step keeps each session to the steps it is open in. *)
LEMMA SessionStep ==
  ASSUME TypeOK, \A p \in Push : SessionOf(p), [Next]_vars
  PROVE  \A p \in Push : SessionOf(p)'
<1> USE DEF SessionOf
<1>0. CallTypeOK /\ ObexdTypeOK
  BY TypeParts
<1>1. ASSUME NEW q \in Push,
             Create(q) \/ Write(q) \/ SendFile(q) \/ Subscribe(q) \/ StopWaiting(q)
      PROVE  \A p \in Push : SessionOf(p)'
  BY <1>0, <1>1
  DEF Create, Write, SendFile, Subscribe, StopWaiting, Goto, At, obexd, CallTypeOK,
      Turn
<1>2. ASSUME NEW q \in Push, StagingFails(q) \/ SendFails(q) \/ CreateSession(q)
      PROVE  \A p \in Push : SessionOf(p)'
  BY <1>0, <1>2
  DEF StagingFails, SendFails, CreateSession, Leave, Finish, Goto, At, obexd,
      CallTypeOK, ObexdTypeOK
<1>3. ASSUME NEW q \in Push, Check(q) \/ ReadSignal(q)
      PROVE  \A p \in Push : SessionOf(p)'
  <2>1. \E there \in {"check", "wait", "remove"} : pc' = [pc EXCEPT ![q] = there]
    BY <1>3 DEF Check, ReadSignal, Succeed, Finish, Goto, Turn
  <2>2. UNCHANGED session
    BY <1>3 DEF Check, ReadSignal, obexd, Turn
  <2> QED BY <1>0, <2>1, <2>2 DEF CallTypeOK
<1>4. ASSUME NEW q \in Push, RemoveSession(q) \/ Drop(q)
      PROVE  \A p \in Push : SessionOf(p)'
  <2>1. pc' = [pc EXCEPT ![q] = "over"]
    BY <1>4 DEF RemoveSession, Drop, Leave
  <2>2. session' = [session EXCEPT ![q] = "removed"]
    BY <1>4 DEF RemoveSession, Drop, CloseSession
  <2> QED BY <1>0, <2>1, <2>2 DEF CallTypeOK, ObexdTypeOK
<1>5. ASSUME NEW q \in Push, Obexd(q)
      PROVE  \A p \in Push : SessionOf(p)'
  <2>1. UNCHANGED <<pc, session>>
    BY <1>5 DEF Obexd, Transmit, Conclude, Vanish, TellStatus, call, obexd
  <2> QED BY <2>1
<1>6. CASE Tick \/ UNCHANGED vars
  BY <1>6 DEF Tick, vars, call, obexd
<1> QED BY <1>1, <1>2, <1>3, <1>4, <1>5, <1>6 DEF Next, Moves

(* A call that is over has left no session open.                           *)
THEOREM SessionCorrect == Spec => []NoSessionLeft
<1> DEFINE Inv == TypeOK /\ \A p \in Push : SessionOf(p)
<1>1. Init => Inv
  <2>1. Init => \A p \in Push : SessionOf(p)
    BY DEF Init, SessionOf
  <2> QED BY <2>1, InitType
<1>2. Inv /\ [Next]_vars => Inv'
  BY SessionStep, TypeStep
<1>3. Inv => NoSessionLeft
  BY DEF NoSessionLeft, SessionOf
<1> QED BY <1>1, <1>2, <1>3, PTL DEF Spec

-----------------------------------------------------------------------------
(* Time. *)

(* An await of the loop begins within a poll of the deadline, one for a    *)
(* signal before it, which lasts a poll at most.                           *)
InTime(p) ==
  /\ elapsed[p] - waited[p] < Deadline + Poll
  /\ pc[p] \in {"create", "write", "session", "send", "subscribe"} =>
       elapsed[p] = 0 /\ waited[p] = 0
  /\ pc[p] = "wait" => waited[p] <= Poll /\ elapsed[p] - waited[p] < Deadline

(* A turn of the loop begins in time where the wait before it did. *)
LEMMA TurnInTime ==
  ASSUME TypeOK, NEW p \in Push, InTime(p), pc[p] = "wait", Turn(p), UNCHANGED elapsed
  PROVE  InTime(p)'
<1>1. /\ elapsed[p] \in Nat /\ waited[p] \in Nat
      /\ Deadline \in Nat /\ Poll \in Nat
  BY PushAssumption DEF TypeOK
<1>2. pc'[p] = "check" /\ waited'[p] = 0 /\ elapsed'[p] = elapsed[p]
  BY DEF Turn, Goto, TypeOK
<1>3. elapsed[p] < Deadline + Poll
  BY <1>1 DEF InTime
<1> QED BY <1>1, <1>2, <1>3 DEF InTime

(* The loop's own steps keep each await within its bound. *)
LEMMA LoopInTime ==
  ASSUME TypeOK, NEW p \in Push, InTime(p), Check(p) \/ ReadSignal(p) \/ StopWaiting(p)
  PROVE  InTime(p)'
<1>0. CallTypeOK
  BY TypeParts
<1>1. /\ elapsed[p] \in Nat /\ waited[p] \in Nat
      /\ Deadline \in Nat /\ Poll \in Nat \ {0}
  BY PushAssumption DEF TypeOK
<1>2. ASSUME UNCHANGED <<elapsed, waited>>, pc'[p] = "remove" PROVE InTime(p)'
  BY <1>2 DEF InTime
<1>3. CASE Check(p)
  <2>1. CASE UNCHANGED waited /\ pc' = [pc EXCEPT ![p] = "remove"]
    BY <1>0, <1>2, <1>3, <2>1 DEF Check, CallTypeOK
  <2>2. CASE ~Late(p) /\ Goto(p, "wait") /\ waited' = [waited EXCEPT ![p] = 0]
    <3>1. pc'[p] = "wait" /\ waited'[p] = 0 /\ elapsed'[p] = elapsed[p]
      BY <1>0, <1>3, <2>2 DEF Check, Goto, CallTypeOK, TypeOK
    <3> QED BY <1>1, <2>2, <3>1 DEF InTime, Late
  <2> QED BY <1>3, <2>1, <2>2 DEF Check, Succeed, Finish
<1>4. CASE ReadSignal(p)
  <2>1. pc[p] = "wait" /\ UNCHANGED elapsed
    BY <1>4 DEF ReadSignal, At
  <2>2. CASE Turn(p)
    BY <2>1, <2>2, TurnInTime
  <2>3. CASE UNCHANGED waited /\ pc' = [pc EXCEPT ![p] = "remove"]
    BY <1>0, <1>2, <2>1, <2>3 DEF CallTypeOK
  <2> QED BY <1>4, <2>2, <2>3 DEF ReadSignal, Succeed, Finish
<1>5. CASE StopWaiting(p)
  BY <1>5, TurnInTime DEF StopWaiting, At
<1> QED BY <1>3, <1>4, <1>5

(* Every step keeps each await within its bound. *)
LEMMA TimeStep ==
  ASSUME TypeOK, \A p \in Push : InTime(p), [Next]_vars
  PROVE  \A p \in Push : InTime(p)'
<1> SUFFICES ASSUME NEW p \in Push PROVE InTime(p)'
  OBVIOUS
<1>0. CallTypeOK /\ CountTypeOK
  BY TypeParts
<1>t. /\ elapsed[p] \in Nat /\ waited[p] \in Nat
      /\ Deadline \in Nat /\ Poll \in Nat \ {0}
  BY <1>0, PushAssumption DEF CountTypeOK
<1>1. ASSUME NEW q \in Push, q # p, Moves(q) \/ Drop(q) \/ Obexd(q)
      PROVE  InTime(p)'
  <2>1. UNCHANGED <<elapsed[p], waited[p]>>
    BY <1>0, <1>1
    DEF Moves, Obexd, Create, Write, StagingFails, CreateSession, SendFile, SendFails,
        Subscribe, Check, ReadSignal, StopWaiting, RemoveSession, Drop, Transmit,
        Conclude, Vanish, TellStatus, Turn, clock, CountTypeOK
  <2>2. pc'[p] = pc[p]
    BY <1>0, <1>1
    DEF Moves, Obexd, Create, Write, StagingFails, CreateSession, SendFile, SendFails,
        Subscribe, Check, ReadSignal, StopWaiting, RemoveSession, Drop, Transmit,
        Conclude, Vanish, TellStatus, Turn, Goto, Leave, Finish, Succeed, call, CallTypeOK
  <2> QED BY <2>1, <2>2 DEF InTime
<1>2. CASE Check(p) \/ ReadSignal(p) \/ StopWaiting(p)
  BY <1>2, LoopInTime
<1>3. ASSUME UNCHANGED <<elapsed, waited>>, pc'[p] # "wait",
             pc'[p] \in {"create", "write", "session", "send", "subscribe"} =>
               pc[p] \in {"create", "write", "session", "send"}
      PROVE  InTime(p)'
  BY <1>3 DEF InTime
<1>4. CASE Create(p) \/ Write(p) \/ StagingFails(p) \/ CreateSession(p) \/ SendFile(p)
             \/ SendFails(p) \/ Subscribe(p) \/ RemoveSession(p) \/ Drop(p)
  <2>1. UNCHANGED <<elapsed, waited>>
    BY <1>4
    DEF Create, Write, StagingFails, CreateSession, SendFile, SendFails, Subscribe,
        RemoveSession, Drop, clock
  <2>2. /\ pc'[p] # "wait"
        /\ pc'[p] \in {"create", "write", "session", "send", "subscribe"} =>
             pc[p] \in {"create", "write", "session", "send"}
    BY <1>0, <1>4
    DEF Create, Write, StagingFails, CreateSession, SendFile, SendFails, Subscribe,
        RemoveSession, Drop, At, Goto, Leave, Finish, CallTypeOK
  <2> QED BY <1>3, <2>1, <2>2
<1>5. CASE Obexd(p) \/ UNCHANGED vars
  <2>1. UNCHANGED <<pc, elapsed, waited>>
    BY <1>5 DEF Obexd, Transmit, Conclude, Vanish, TellStatus, vars, call, clock
  <2> QED BY <2>1 DEF InTime
<1>6. CASE Tick
  <2>1. pc' = pc
    BY <1>6 DEF Tick, call
  <2>2. CASE pc[p] \in {"check", "wait"}
    <3>1. /\ elapsed'[p] = elapsed[p] + 1 /\ waited'[p] = waited[p] + 1
          /\ pc[p] = "wait" => waited[p] < Poll
      BY <1>6, <2>2 DEF Tick, At
    <3>2. /\ elapsed'[p] - waited'[p] = elapsed[p] - waited[p]
          /\ pc[p] = "wait" => waited'[p] <= Poll
      BY <1>t, <3>1
    <3> QED BY <2>1, <2>2, <3>2 DEF InTime
  <2>3. CASE pc[p] \notin {"check", "wait"}
    <3>1. elapsed'[p] = elapsed[p] /\ waited'[p] = waited[p]
      BY <1>6, <2>3 DEF Tick
    <3> QED BY <2>1, <3>1 DEF InTime
  <2> QED BY <2>2, <2>3
<1> QED BY <1>1, <1>2, <1>4, <1>5, <1>6 DEF Next, Moves

(* No await of the loop begins a poll past the deadline, nor does a wait   *)
(* for a signal last beyond that: only the answer about Status, for which  *)
(* the code sets no limit, can keep a call longer.                         *)
THEOREM TimeCorrect == Spec => []GivesUpInTime
<1> DEFINE Inv == TypeOK /\ \A p \in Push : InTime(p)
<1>1. Init => Inv
  <2>1. 0 < Deadline + Poll
    BY PushAssumption
  <2>2. ASSUME Init, NEW p \in Push PROVE InTime(p)
    <3>1. elapsed[p] = 0 /\ waited[p] = 0 /\ pc[p] = "create"
      BY <2>2 DEF Init
    <3> QED BY <2>1, <3>1 DEF InTime
  <2> QED BY <2>2, InitType
<1>2. Inv /\ [Next]_vars => Inv'
  BY TimeStep, TypeStep
<1>3. Inv => GivesUpInTime
  <2> SUFFICES ASSUME Inv, NEW p \in Push
               PROVE  /\ elapsed[p] - waited[p] < Deadline + Poll
                      /\ At(p, "wait") => elapsed[p] < Deadline + Poll
    BY DEF GivesUpInTime
  <2>1. /\ elapsed[p] \in Nat /\ waited[p] \in Nat
        /\ Deadline \in Nat /\ Poll \in Nat
    BY PushAssumption DEF TypeOK
  <2> QED BY <2>1 DEF InTime, At
<1> QED BY <1>1, <1>2, <1>3, PTL DEF Spec

-----------------------------------------------------------------------------
(* The staged files. *)

(* Whoever still has its name's file to remove, or never will. *)
Answers(p, n) ==
  /\ name[p] = n
  /\ pc[p] # "create"
  /\ pc[p] = "over" => verdict[p] = "not_staged"

Staged == \A n \in Path : entry[n] # NoFile => \E p \in Push : Answers(p, n)

(* Every step keeps each name in use answered for. *)
LEMMA StagedStep ==
  ASSUME TypeOK, Staged, [Next]_vars
  PROVE  Staged'
<1> USE DEF Staged, Answers
<1>0. CallTypeOK /\ DiskTypeOK /\ CallTypeOK'
  BY TypeParts, CallStep
<1>n. name \in [Push -> Path]
  BY <1>0, PushAssumption DEF CallTypeOK
<1>1. ASSUME NEW q \in Push, Create(q) PROVE Staged'
  <2> SUFFICES ASSUME NEW n \in Path, entry'[n] # NoFile
               PROVE  \E p \in Push : Answers(p, n)'
    OBVIOUS
  <2>1. CASE n = name[q]
    <3>1. Answers(q, n)'
      BY <1>0, <1>1, <2>1 DEF Create, Goto, CallTypeOK
    <3> QED BY <3>1
  <2>2. CASE n # name[q]
    <3>1. PICK p \in Push : Answers(p, n)
      BY <1>0, <1>1, <2>2 DEF Create, PathOf, DiskTypeOK
    <3>2. Answers(p, n)'
      BY <1>0, <1>1, <2>2, <3>1 DEF Create, Goto, CallTypeOK
    <3> QED BY <3>2
  <2> QED BY <2>1, <2>2
<1>2. ASSUME NEW q \in Push,
             /\ UNCHANGED <<name, entry>>
             /\ \A p \in Push : \A n \in Path : Answers(p, n) => Answers(p, n)'
      PROVE  Staged'
  BY <1>2
<1>3. ASSUME NEW q \in Push,
             Write(q) \/ StagingFails(q) \/ SendFile(q) \/ SendFails(q)
               \/ Subscribe(q) \/ Check(q) \/ ReadSignal(q) \/ StopWaiting(q) \/ Obexd(q)
      PROVE  UNCHANGED <<name, entry>>
  BY <1>3
  DEF Write, StagingFails, SendFile, SendFails, Subscribe, Check, ReadSignal,
      StopWaiting, Obexd, Transmit, Conclude, Vanish, Goto, Finish, Succeed, call, disk,
      TellStatus, Turn
<1>4. ASSUME NEW q \in Push,
             Write(q) \/ StagingFails(q) \/ SendFile(q) \/ SendFails(q)
               \/ Subscribe(q) \/ Check(q) \/ ReadSignal(q) \/ StopWaiting(q) \/ Obexd(q)
      PROVE  \A p \in Push : \A n \in Path : Answers(p, n) => Answers(p, n)'
  BY <1>0, <1>4
  DEF Write, StagingFails, SendFile, SendFails, Subscribe, Check, ReadSignal,
      StopWaiting, Obexd, Transmit, Conclude, Vanish, Goto, Finish, Succeed, At, call,
      CallTypeOK, TellStatus, Turn
<1>5. ASSUME NEW q \in Push, NEW how, Leave(q, how), pc[q] # "over" PROVE Staged'
  <2> SUFFICES ASSUME NEW n \in Path, entry'[n] # NoFile
               PROVE  \E p \in Push : Answers(p, n)'
    OBVIOUS
  <2>1. n # name[q] /\ entry[n] # NoFile
    BY <1>0, <1>n, <1>5 DEF Leave, Unstage, PathOf, DiskTypeOK
  <2>2. PICK p \in Push : Answers(p, n)
    BY <2>1
  <2>3. Answers(p, n)'
    BY <1>0, <1>5, <2>1, <2>2 DEF Leave, CallTypeOK
  <2> QED BY <2>3
<1>6. ASSUME NEW q \in Push, RemoveSession(q) \/ Drop(q) PROVE Staged'
  <2>1. PICK how : Leave(q, how)
    BY <1>6 DEF RemoveSession, Drop
  <2>2. pc[q] # "over"
    BY <1>6 DEF RemoveSession, Drop, At
  <2> QED BY <1>5, <2>1, <2>2
<1>7. ASSUME NEW q \in Push, CreateSession(q) PROVE Staged'
  <2>1. CASE Goto(q, "send") /\ UNCHANGED disk
    <3>1. UNCHANGED <<name, entry>>
      BY <2>1 DEF Goto, disk
    <3>2. \A p \in Push : \A n \in Path : Answers(p, n) => Answers(p, n)'
      BY <1>0, <2>1 DEF Goto, CallTypeOK
    <3> QED BY <1>2, <1>7, <3>1, <3>2
  <2>2. CASE Leave(q, "failed")
    BY <1>5, <1>7, <2>2 DEF CreateSession, At
  <2> QED BY <1>7, <2>1, <2>2 DEF CreateSession
<1>8. CASE Tick \/ UNCHANGED vars
  BY <1>8 DEF Tick, vars, call, disk
<1> QED BY <1>1, <1>2, <1>3, <1>4, <1>6, <1>7, <1>8 DEF Next, Moves

(* Only a failed write leaves a staged file behind.                        *)
THEOREM StagedCorrect == Spec => []NothingLeftStaged
<1> DEFINE Inv == TypeOK /\ Staged
<1>1. Init => Inv
  <2>1. Init => Staged
    BY DEF Init, Staged
  <2> QED BY <2>1, InitType
<1>2. Inv /\ [Next]_vars => Inv'
  BY StagedStep, TypeStep
<1>3. Inv => NothingLeftStaged
  BY DEF NothingLeftStaged, Staged, Answers
<1> QED BY <1>1, <1>2, <1>3, PTL DEF Spec

(* Both, of any number of pushes.                                          *)
THEOREM NothingLeftCorrect == Spec => []NothingLeft
<1>1. NoSessionLeft /\ NothingLeftStaged => NothingLeft
  BY DEF NothingLeft
<1> QED BY <1>1, SessionCorrect, StagedCorrect, PTL

-----------------------------------------------------------------------------
(* Progress. *)

Active(p, i) == i \in 1..Len(signals[p]) /\ signals[p][i].status = "active"

(* The signals p has still to read tell more than it has read, in order,   *)
(* and no more than was sent.                                              *)
Told(p) ==
  /\ transferred[p] <= Len(got[p])
  /\ \A i \in Nat : Active(p, i) =>
       transferred[p] <= signals[p][i].bytes /\ signals[p][i].bytes <= Len(got[p])
  /\ \A i, j \in Nat : i < j /\ Active(p, i) /\ Active(p, j) =>
       signals[p][i].bytes <= signals[p][j].bytes

ProgressOf(p) ==
  /\ chunked[p] = last[p]
  /\ verdict[p] = "none" <=> pc[p] \notin {"remove", "over"}
  /\ verdict[p] = "none" => last[p] = transferred[p] /\ Told(p)
  /\ verdict[p] = "ok" => receipt[p] = last[p]

(* What a report adds to the DataChunk events. *)
LEMMA ProgressAdds ==
  ASSUME CountTypeOK, NEW p \in Push, NEW n \in Nat, last[p] <= n,
         chunked[p] = last[p], Progress(p, n)
  PROVE  chunked'[p] = n /\ last'[p] = n
BY DEF Progress, Beyond, CountTypeOK

(* Progress stays true of a push that a step leaves alone. *)
LEMMA ProgressOther ==
  ASSUME NEW p \in Push,
         UNCHANGED <<pc[p], verdict[p], receipt[p], chunked[p], last[p],
                     transferred[p], got[p], signals[p]>>,
         ProgressOf(p)
  PROVE  ProgressOf(p)'
BY DEF ProgressOf, Told, Active

(* What a push tells as it succeeds makes up its receipt. *)
LEMMA SucceedAdds ==
  ASSUME CallTypeOK, CountTypeOK, NEW p \in Push, Succeed(p, transferred[p]),
         ProgressOf(p), verdict[p] = "none"
  PROVE  ProgressOf(p)'
<1> DEFINE n == Larger(total[p], transferred[p])
<1>1. n \in Nat /\ last[p] <= n
  BY DEF Larger, CountTypeOK, ProgressOf
<1>2. chunked'[p] = n /\ last'[p] = n
  BY <1>1, ProgressAdds DEF Succeed, ProgressOf
<1>3. pc'[p] = "remove" /\ verdict'[p] = "ok" /\ receipt'[p] = n
  BY DEF Succeed, Finish, CallTypeOK
<1> QED BY <1>2, <1>3 DEF ProgressOf

(* A signal that tells of bytes tells a number of them. *)
LEMMA SignalBytes ==
  ASSUME ObexdTypeOK, NEW p \in Push, NEW i \in Nat, Active(p, i)
  PROVE  signals[p][i].bytes \in Nat
<1>1. signals[p] \in Seq(Signal)
  BY DEF ObexdTypeOK
<1>2. signals[p][i] \in Signal
  BY <1>1, ElementOfSeq DEF Active
<1> QED BY <1>2 DEF Signal

(* A signal about more than any before is appended. *)
LEMMA TellKeepsOrder ==
  ASSUME ObexdTypeOK, CountTypeOK, NEW p \in Push, Told(p), UNCHANGED transferred,
         NEW n \in Nat, NEW how \in {"active", "complete", "error"}, Tell(p, n, how),
         got'[p] \in Seq(Byte), Len(got[p]) <= Len(got'[p]),
         how = "active" => n = Len(got'[p])
  PROVE  Told(p)'
<1> USE DEF Told, Active
<1>0. /\ signals[p] \in Seq(Signal) /\ Len(signals[p]) \in Nat
      /\ transferred[p] \in Nat
      /\ Len(got[p]) \in Nat /\ Len(got'[p]) \in Nat
  BY LenProperties DEF ObexdTypeOK, CountTypeOK
<1>1. CASE signals' = signals
  <2>1. \A i \in Nat : Active(p, i) => signals[p][i].bytes \in Nat
    BY SignalBytes
  <2> QED BY <1>0, <1>1, <2>1
<1>2. CASE signals' = [signals EXCEPT ![p] = Append(@, [bytes |-> n, status |-> how])]
  <2> DEFINE s == [bytes |-> n, status |-> how]
  <2>1. s \in Signal
    BY DEF Signal
  <2>2. /\ signals'[p] = Append(signals[p], s)
        /\ Len(signals'[p]) = Len(signals[p]) + 1
        /\ \A i \in 1..Len(signals[p]) : signals'[p][i] = signals[p][i]
        /\ signals'[p][Len(signals[p]) + 1] = s
    BY <1>0, <1>2, <2>1, AppendProperties DEF ObexdTypeOK
  <2>3. \A i \in Nat : Active(p, i) => signals[p][i].bytes \in Nat
    BY SignalBytes
  <2>4. ASSUME NEW i \in Nat, Active(p, i)'
        PROVE  \/ i \in 1..Len(signals[p]) /\ Active(p, i)
               \/ i = Len(signals[p]) + 1 /\ how = "active"
    BY <1>0, <2>2, <2>4
  <2>5. ASSUME NEW i \in Nat, Active(p, i)'
        PROVE  /\ transferred'[p] <= signals'[p][i].bytes
               /\ signals'[p][i].bytes <= Len(got'[p])
    BY SMTT(30), <1>0, <2>2, <2>3, <2>4, <2>5
  <2>6. ASSUME NEW i \in Nat, NEW j \in Nat, i < j, Active(p, i)', Active(p, j)'
        PROVE  signals'[p][i].bytes <= signals'[p][j].bytes
    <3>1. i \in 1..Len(signals[p]) /\ Active(p, i)
      BY <1>0, <2>2, <2>4, <2>6
    <3>2. CASE j \in 1..Len(signals[p]) /\ Active(p, j)
      BY <2>2, <2>6, <3>1, <3>2
    <3>3. CASE j = Len(signals[p]) + 1 /\ how = "active"
      BY <1>0, <2>2, <2>3, <3>1, <3>3
    <3> QED BY <2>4, <2>6, <3>2, <3>3
  <2> QED BY <1>0, <2>5, <2>6
<1> QED BY <1>1, <1>2 DEF Tell

(* Reading the first signal leaves the rest in order. *)
LEMMA ReadKeepsOrder ==
  ASSUME ObexdTypeOK, CountTypeOK, NEW p \in Push, Told(p), signals[p] # <<>>,
         Head(signals[p]).status = "active",
         signals' = [signals EXCEPT ![p] = Tail(@)],
         transferred' = [transferred EXCEPT ![p] = Head(signals[p]).bytes],
         UNCHANGED got
  PROVE  Told(p)' /\ transferred[p] <= transferred'[p] /\ transferred'[p] \in Nat
<1> USE DEF Told, Active
<1>1. /\ signals[p] \in Seq(Signal) /\ Len(signals[p]) \in Nat
      /\ Head(signals[p]) \in Signal /\ Len(signals[p]) > 0
      /\ Head(signals[p]) = signals[p][1]
      /\ Len(signals'[p]) = Len(signals[p]) - 1
      /\ \A i \in 1..Len(signals'[p]) : signals'[p][i] = signals[p][i + 1]
  BY HeadTailProperties, LenProperties, EmptySeq DEF ObexdTypeOK
<1>2. transferred'[p] = signals[p][1].bytes /\ transferred'[p] \in Nat
  BY <1>1 DEF CountTypeOK, Signal
<1>3. Active(p, 1)
  BY <1>1
<1>4. \A i \in Nat : Active(p, i)' => Active(p, i + 1) /\ signals'[p][i] = signals[p][i + 1]
  BY <1>1
<1>5. \A i \in Nat : Active(p, i)' => 1 < i + 1 /\ i + 1 \in Nat
  BY <1>1
<1> QED BY <1>1, <1>2, <1>3, <1>4, <1>5
(* Every step keeps the progress of each push true. *)
LEMMA ProgressStep ==
  ASSUME TypeOK, [Next]_vars, NEW p \in Push, ProgressOf(p)
  PROVE  ProgressOf(p)'
<1>0. CallTypeOK /\ ObexdTypeOK /\ CountTypeOK /\ ObexdTypeOK'
  BY TypeParts, ObexdStep
<1>1. ASSUME NEW q \in Push, q # p, Moves(q) \/ Drop(q) \/ Obexd(q)
      PROVE  ProgressOf(p)'
  <2>1. UNCHANGED <<pc[p], verdict[p], receipt[p]>>
    BY <1>0, <1>1
    DEF Moves, Obexd, Create, Write, StagingFails, CreateSession, SendFile, SendFails,
        Subscribe, Check, ReadSignal, StopWaiting, RemoveSession, Drop, Transmit,
        Conclude, Vanish, Goto, Leave, Finish, Succeed, call, CallTypeOK,
        TellStatus, Turn
  <2>2. UNCHANGED <<chunked[p], last[p], transferred[p]>>
    BY <1>0, <1>1
    DEF Moves, Obexd, Create, Write, StagingFails, CreateSession, SendFile, SendFails,
        Subscribe, Check, ReadSignal, StopWaiting, RemoveSession, Drop, Transmit,
        Conclude, Vanish, Progress, Succeed, tally, CountTypeOK, TellStatus, Turn
  <2>3. UNCHANGED <<got[p], signals[p]>>
    BY <1>0, <1>1
    DEF Moves, Obexd, Create, Write, StagingFails, CreateSession, SendFile, SendFails,
        Subscribe, Check, ReadSignal, StopWaiting, RemoveSession, Drop, Transmit,
        Conclude, Vanish, Tell, obexd, ObexdTypeOK, TellStatus, Turn
  <2> QED BY <2>1, <2>2, <2>3, ProgressOther
<1>2. ASSUME Create(p) \/ Write(p) \/ SendFile(p) \/ Subscribe(p) \/ StopWaiting(p)
      PROVE  ProgressOf(p)'
  <2>1. /\ pc[p] \notin {"remove", "over"} /\ pc'[p] \notin {"remove", "over"}
        /\ UNCHANGED <<verdict, receipt>>
    BY <1>0, <1>2
    DEF Create, Write, SendFile, Subscribe, StopWaiting, At, Goto, CallTypeOK, Turn
  <2>2. UNCHANGED <<tally, got, signals>>
    BY <1>2 DEF Create, Write, SendFile, Subscribe, StopWaiting, obexd, Turn
  <2> QED BY <2>1, <2>2 DEF ProgressOf, Told, Active, tally
<1>3. ASSUME pc'[p] \in {"remove", "over"}, verdict'[p] # "none",
             verdict'[p] = "ok" => verdict[p] = "ok",
             UNCHANGED <<receipt, tally>>
      PROVE  ProgressOf(p)'
  BY <1>3 DEF ProgressOf, tally
<1>4. ASSUME StagingFails(p) \/ SendFails(p) \/ RemoveSession(p) \/ Drop(p)
      PROVE  ProgressOf(p)'
  <2>1. /\ pc'[p] \in {"remove", "over"} /\ verdict'[p] # "none"
        /\ verdict'[p] = "ok" => verdict[p] = "ok"
    BY <1>0, <1>4
    DEF StagingFails, SendFails, RemoveSession, Drop, Leave, Finish, At, CallTypeOK,
        ProgressOf
  <2>2. UNCHANGED <<receipt, tally>>
    BY <1>4 DEF StagingFails, SendFails, RemoveSession, Drop, Leave
  <2> QED BY <1>3, <2>1, <2>2
<1>5. ASSUME CreateSession(p) PROVE ProgressOf(p)'
  <2>1. UNCHANGED <<tally, got, signals, receipt>>
    BY <1>5 DEF CreateSession, Goto, Leave
  <2>2. CASE Goto(p, "send")
    <3>1. /\ pc[p] \notin {"remove", "over"} /\ pc'[p] \notin {"remove", "over"}
          /\ UNCHANGED verdict
      BY <1>0, <1>5, <2>2 DEF CreateSession, At, Goto, CallTypeOK
    <3> QED BY <2>1, <3>1 DEF ProgressOf, Told, Active, tally
  <2>3. CASE Leave(p, "failed")
    <3>1. pc'[p] = "over" /\ verdict'[p] = "failed"
      BY <1>0, <2>3 DEF Leave, CallTypeOK
    <3> QED BY <1>3, <2>1, <3>1
  <2> QED BY <1>5, <2>2, <2>3 DEF CreateSession
<1>6. ASSUME Check(p) PROVE ProgressOf(p)'
  <2>1. verdict[p] = "none" /\ UNCHANGED <<signals, got>>
    BY <1>6 DEF Check, At, ProgressOf, obexd
  <2>2. CASE Succeed(p, transferred[p])
    BY <1>0, <2>1, <2>2, SucceedAdds
  <2>3. ASSUME NEW how \in {"failed", "timeout"}, Finish(p, how), UNCHANGED <<receipt, tally>>
        PROVE  ProgressOf(p)'
    <3>1. pc'[p] = "remove" /\ verdict'[p] = how
      BY <1>0, <2>3 DEF Finish, CallTypeOK
    <3> QED BY <1>3, <2>3, <3>1
  <2>4. CASE Goto(p, "wait") /\ UNCHANGED tally
    <3>1. pc'[p] = "wait" /\ pc[p] = "check" /\ UNCHANGED <<verdict, receipt>>
      BY <1>0, <1>6, <2>4 DEF Check, At, Goto, CallTypeOK
    <3> QED BY <2>1, <2>4, <3>1 DEF ProgressOf, Told, Active, tally
  <2> QED BY <1>6, <2>2, <2>3, <2>4 DEF Check
<1>7. ASSUME ReadSignal(p) PROVE ProgressOf(p)'
  <2> DEFINE s == Head(signals[p])
  <2>1. verdict[p] = "none" /\ pc[p] = "wait" /\ UNCHANGED got
    BY <1>7 DEF ReadSignal, At, ProgressOf, obexd, Turn
  <2>2. CASE /\ s.status = "active"
             /\ Goto(p, "check")
             /\ transferred' = [transferred EXCEPT ![p] = s.bytes]
             /\ Progress(p, s.bytes)
    <3>1. /\ Told(p)' /\ transferred[p] <= transferred'[p] /\ transferred'[p] \in Nat
          /\ transferred'[p] = s.bytes
      BY <1>0, <1>7, <2>1, <2>2, ReadKeepsOrder DEF ReadSignal, ProgressOf, CountTypeOK, Turn
    <3>2. chunked'[p] = transferred'[p] /\ last'[p] = transferred'[p]
      BY <1>0, <2>1, <2>2, <3>1, ProgressAdds DEF ProgressOf
    <3>3. pc'[p] = "check" /\ verdict' = verdict
      BY <1>0, <2>2 DEF Goto, CallTypeOK
    <3> QED BY <2>1, <3>1, <3>2, <3>3 DEF ProgressOf
  <2>3. CASE Succeed(p, transferred[p])
    BY <1>0, <2>1, <2>3, SucceedAdds
  <2>4. CASE Finish(p, "failed") /\ UNCHANGED <<receipt, tally>>
    <3>1. pc'[p] = "remove" /\ verdict'[p] = "failed"
      BY <1>0, <2>4 DEF Finish, CallTypeOK
    <3> QED BY <1>3, <2>4, <3>1
  <2> QED BY <1>7, <2>2, <2>3, <2>4 DEF ReadSignal, Turn
<1>8. ASSUME Obexd(p) PROVE ProgressOf(p)'
  <2>1. UNCHANGED <<call, tally>>
    BY <1>8 DEF Obexd, Transmit, Conclude, Vanish, TellStatus
  <2>2. SUFFICES ASSUME Told(p) PROVE Told(p)'
    BY <2>1 DEF ProgressOf, call, tally
  <2>3. got[p] \in Seq(Byte) /\ got'[p] \in Seq(Byte) /\ Len(got[p]) \in Nat
    BY <1>0, LenProperties DEF ObexdTypeOK
  <2>4. CASE Transmit(p)
    <3>1. got' = [got EXCEPT ![p] = Append(@, data[source[p]][Len(@) + 1])]
      BY <2>4 DEF Transmit
    <3>2. Len(got'[p]) = Len(got[p]) + 1
      BY <1>0, <2>3, <3>1 DEF ObexdTypeOK
    <3>3. CASE Tell(p, Len(got[p]) + 1, "active")
      BY <1>0, <2>1, <2>2, <2>3, <3>2, <3>3, TellKeepsOrder DEF tally
    <3>4. CASE UNCHANGED signals
      <4>1. \A i \in Nat : Active(p, i) => signals[p][i].bytes \in Nat
        BY <1>0, SignalBytes
      <4>2. transferred[p] \in Nat
        BY <1>0 DEF CountTypeOK
      <4>3. transferred' = transferred /\ signals'[p] = signals[p]
        BY <2>1, <3>4 DEF tally
      <4>4. \A i \in Nat : Active(p, i)' => Active(p, i)
        BY <4>3 DEF Active
      <4>5. Len(got[p]) <= Len(got'[p]) /\ Len(got'[p]) \in Nat
        BY <2>3, <3>2
      <4> QED BY <2>2, <2>3, <4>1, <4>2, <4>3, <4>4, <4>5 DEF Told
    <3> QED BY <2>4, <3>3, <3>4 DEF Transmit
  <2>5. CASE Conclude(p)
    <3>1. PICK how \in {"complete", "error"} : Tell(p, 0, how)
      BY <2>5 DEF Conclude
    <3>2. got' = got
      BY <2>5 DEF Conclude
    <3> QED BY <1>0, <2>1, <2>2, <2>3, <3>1, <3>2, TellKeepsOrder DEF tally
  <2>6. CASE Vanish(p) \/ TellStatus(p)
    <3>1. UNCHANGED <<got, signals>>
      BY <2>6 DEF Vanish, TellStatus, obexd
    <3> QED BY <2>1, <2>2, <3>1 DEF Told, Active, tally
  <2> QED BY <1>8, <2>4, <2>5, <2>6 DEF Obexd
<1>9. CASE Tick \/ UNCHANGED vars
  <2>1. UNCHANGED <<pc, verdict, receipt, chunked, last, transferred, got, signals>>
    BY <1>9 DEF Tick, vars, call, obexd, tally
  <2> QED BY <2>1, ProgressOther
<1> QED BY <1>1, <1>2, <1>4, <1>5, <1>6, <1>7, <1>8, <1>9 DEF Next, Moves

(* Nothing has been told at the start. *)
LEMMA ProgressInit == Init => \A p \in Push : ProgressOf(p)
<1> SUFFICES ASSUME Init, NEW p \in Push PROVE ProgressOf(p)
  OBVIOUS
<1>1. /\ signals[p] = <<>> /\ got[p] = <<>>
      /\ Len(signals[p]) = 0 /\ Len(got[p]) = 0
  BY DEF Init
<1>2. \A i \in Nat : ~Active(p, i)
  BY <1>1 DEF Active
<1>3. Told(p)
  BY <1>1, <1>2 DEF Init, Told
<1> QED BY <1>3 DEF Init, ProgressOf

(* The DataChunk events of a push that succeeds add up to its receipt.     *)
THEOREM ProgressCorrect == Spec => []ProgressAddsUp
<1> DEFINE Inv == TypeOK /\ \A p \in Push : ProgressOf(p)
<1>1. Init => Inv
  BY ProgressInit, InitType
<1>2. Inv /\ [Next]_vars => Inv'
  BY ProgressStep, TypeStep
<1>3. Inv => ProgressAddsUp
  BY DEF ProgressAddsUp, ProgressOf
<1> QED BY <1>1, <1>2, <1>3, PTL DEF Spec

-----------------------------------------------------------------------------
(* A receipt is true: the peer has the whole object, when no other push is *)
(* staged under the same name.  First, the files.                          *)

(* A file is only reached by pushes of the name it was created under.      *)
FileNames ==
  /\ \A n \in Path : entry[n] # NoFile => name[entry[n]] = n
  /\ \A q \in Push : handle[q] # NoFile => name[handle[q]] = name[q]
  /\ \A q \in Push : source[q] # NoFile => name[source[q]] = name[q]

(* Every step keeps a file to the pushes of its name. *)
LEMMA NamesStep ==
  ASSUME TypeOK, FileNames, [Next]_vars
  PROVE  FileNames'
<1> USE DEF FileNames
<1>0. CallTypeOK /\ DiskTypeOK /\ ObexdTypeOK
  BY TypeParts
<1>n. name \in [Push -> Path] /\ NoFile \notin Push
  BY <1>0, PushAssumption DEF CallTypeOK
<1>1. ASSUME NEW q \in Push, Create(q) PROVE FileNames'
  <2>1. UNCHANGED <<name, source>>
    BY <1>1 DEF Create, Goto, obexd
  <2> QED BY <1>0, <1>n, <1>1, <2>1 DEF Create, PathOf, DiskTypeOK
<1>2. ASSUME NEW q \in Push, Write(q) PROVE FileNames'
  <2>1. UNCHANGED <<name, source, entry>>
    BY <1>2 DEF Write, Goto, obexd
  <2> QED BY <1>0, <1>2, <2>1 DEF Write, DiskTypeOK
<1>3. ASSUME NEW q \in Push, SendFile(q) PROVE FileNames'
  <2>1. UNCHANGED <<name, handle, entry>>
    BY <1>3 DEF SendFile, Goto, disk
  <2> QED BY <1>0, <1>n, <1>3, <2>1 DEF SendFile, PathOf, ObexdTypeOK
<1>4. ASSUME NEW q \in Push, Unstage(q), UNCHANGED <<name, source>>
      PROVE  FileNames'
  BY <1>0, <1>4 DEF Unstage, PathOf, DiskTypeOK
<1>5. ASSUME NEW q \in Push, CreateSession(q) \/ RemoveSession(q) \/ Drop(q)
      PROVE  FileNames'
  <2>1. UNCHANGED <<name, source>>
    BY <1>5 DEF CreateSession, RemoveSession, Drop, Goto, Leave
  <2>2. Unstage(q) \/ UNCHANGED disk
    BY <1>5 DEF CreateSession, RemoveSession, Drop, Leave
  <2> QED BY <1>4, <2>1, <2>2 DEF disk
<1>6. ASSUME NEW q \in Push,
             StagingFails(q) \/ SendFails(q) \/ Subscribe(q) \/ Check(q)
               \/ ReadSignal(q) \/ StopWaiting(q) \/ Obexd(q)
      PROVE  UNCHANGED <<name, source, disk>>
  BY <1>6
  DEF StagingFails, SendFails, Subscribe, Check, ReadSignal, StopWaiting, Obexd,
      Transmit, Conclude, Vanish, Goto, Finish, Succeed, call, obexd,
      TellStatus, Turn
<1>7. CASE Tick \/ UNCHANGED vars
  BY <1>7 DEF Tick, vars, call, disk, obexd
<1>8. UNCHANGED <<name, source, disk>> => FileNames'
  BY DEF disk
<1> QED BY <1>1, <1>2, <1>3, <1>5, <1>6, <1>7, <1>8 DEF Next, Moves

(* Nobody else reaches the file of a push that is alone with its name.     *)
LEMMA OwnFile ==
  ASSUME TypeOK, FileNames, NEW p \in Push, Alone(p)
  PROVE  /\ \A q \in Push : q # p => entry[name[q]] # p /\ handle[q] # p
         /\ entry[name[p]] \in {p, NoFile}
         /\ handle[p] \in {p, NoFile} /\ source[p] \in {p, NoFile}
<1>1. /\ name \in [Push -> Path] /\ NoFile \notin Push
      /\ entry \in [Path -> Push \union {NoFile}]
      /\ handle \in [Push -> Push \union {NoFile}]
      /\ source \in [Push -> Push \union {NoFile}]
  BY PushAssumption DEF TypeOK
<1> QED BY <1>1 DEF FileNames, Alone

(* What another push does to a push's own file: nothing.                   *)
LEMMA OthersData ==
  ASSUME TypeOK, FileNames, NEW p \in Push, Alone(p), NEW q \in Push, q # p,
         Moves(q) \/ Drop(q) \/ Obexd(q)
  PROVE  data'[p] = data[p]
<1>0. data \in [Push -> Seq(Byte)] /\ NoFile \notin Push
  BY PushAssumption DEF TypeOK
<1>1. entry[name[q]] # p /\ handle[q] # p
  BY OwnFile
<1>2. CASE Create(q)
  BY <1>0, <1>1, <1>2 DEF Create, PathOf
<1>3. CASE Write(q)
  BY <1>0, <1>1, <1>3 DEF Write
<1>4. CASE ~(Create(q) \/ Write(q))
  BY <1>4
  DEF Moves, Obexd, StagingFails, CreateSession, SendFile, SendFails, Subscribe,
      Check, ReadSignal, StopWaiting, RemoveSession, Drop, Leave, Unstage,
      Transmit, Conclude, Vanish, disk, TellStatus, Turn
<1> QED BY <1>2, <1>3, <1>4

-----------------------------------------------------------------------------
(* The transfer. *)

Before == {"create", "write", "session", "send"}

(* The peer has the beginning of the object, and all of it once obexd says *)
(* that the transfer is complete.                                          *)
Sent(p) ==
  /\ status[p] = "none" => got[p] = <<>>
  /\ status[p] # "none" =>
       /\ pc[p] \notin Before
       /\ source[p] = p /\ data[p] = Object[p]
       /\ Len(got[p]) <= Len(Object[p])
       /\ \A i \in 1..Len(got[p]) : got[p][i] = Object[p][i]
  /\ status[p] = "complete" => Len(got[p]) >= Len(Object[p])

Holds(p) ==
  /\ pc[p] = "write" => data[p] = <<>> /\ handle[p] = p
  /\ pc[p] \in {"session", "send"} => data[p] = Object[p]

(* What the push was told of its transfer is so.                           *)
Known(p) ==
  /\ \A i \in 1..Len(signals[p]) :
       signals[p][i].status = "complete" => status[p] = "complete"
  /\ verdict[p] = "ok" => status[p] = "complete"
  /\ total[p] > 0 => pc[p] \notin Before /\ total[p] = Len(Object[p])
  /\ verdict[p] = "ok" /\ total[p] > 0 => receipt[p] = Len(Object[p])

(* Names are chosen once. *)
LEMMA NameKept == [Next]_vars => UNCHANGED name
BY DEF Next, Moves, Obexd, Create, Write, StagingFails, CreateSession, SendFile,
       SendFails, Subscribe, Check, ReadSignal, StopWaiting, RemoveSession, Drop,
       Transmit, Conclude, Vanish, Tick, Goto, Leave, Finish, Succeed, call, vars,
       TellStatus, Turn
(* What is written over nothing is there as it is. *)
LEMMA WrittenFresh ==
  ASSUME NEW s \in Seq(Byte)
  PROVE  Written(<<>>, s) = s
<1>1. Len(s) \in Nat /\ Len(<<>>) = 0
  BY LenProperties
<1>2. SubSeq(<<>>, Len(s) + 1, Len(<<>>)) = <<>>
  BY <1>1
<1> QED BY <1>2 DEF Written

(* Nobody disturbs the file of a push alone with its name. *)
LEMMA HoldsStep ==
  ASSUME TypeOK, FileNames, [Next]_vars, NEW p \in Push, Alone(p), Holds(p)
  PROVE  Holds(p)'
<1> USE DEF Holds
<1>0. CallTypeOK /\ DiskTypeOK
  BY TypeParts
<1>o. /\ entry[name[p]] \in {p, NoFile} /\ NoFile \notin Push
      /\ Object[p] \in Seq(Byte)
  BY OwnFile, PushAssumption
<1>1. ASSUME NEW q \in Push, q # p, Moves(q) \/ Drop(q) \/ Obexd(q)
      PROVE  Holds(p)'
  <2>1. data'[p] = data[p]
    BY <1>1, OthersData
  <2>2. pc'[p] = pc[p]
    BY <1>0, <1>1
    DEF Moves, Obexd, Create, Write, StagingFails, CreateSession, SendFile, SendFails,
        Subscribe, Check, ReadSignal, StopWaiting, RemoveSession, Drop, Transmit,
        Conclude, Vanish, Goto, Leave, Finish, Succeed, call, CallTypeOK,
        TellStatus, Turn
  <2>3. handle'[p] = handle[p]
    BY <1>0, <1>1
    DEF Moves, Obexd, Create, Write, StagingFails, CreateSession, SendFile, SendFails,
        Subscribe, Check, ReadSignal, StopWaiting, RemoveSession, Drop, Transmit,
        Conclude, Vanish, Leave, Unstage, disk, DiskTypeOK, TellStatus, Turn
  <2> QED BY <2>1, <2>2, <2>3
<1>2. CASE Create(p)
  <2>1. pc'[p] = "write"
    BY <1>0, <1>2 DEF Create, Goto, CallTypeOK
  <2>2. handle'[p] = p /\ data'[p] = <<>>
    BY <1>0, <1>o, <1>2 DEF Create, PathOf, DiskTypeOK
  <2> QED BY <2>1, <2>2
<1>3. CASE Write(p)
  <2>1. pc[p] = "write" /\ pc'[p] = "session"
    BY <1>0, <1>3 DEF Write, At, Goto, CallTypeOK
  <2>2. data'[p] = Written(<<>>, Object[p])
    BY <1>0, <1>3, <2>1 DEF Write, DiskTypeOK
  <2>3. data'[p] = Object[p]
    BY <1>o, <2>2, WrittenFresh
  <2> QED BY <2>1, <2>3
<1>4. CASE CreateSession(p)
  <2>1. /\ pc[p] = "session" /\ pc'[p] \in {"send", "over"}
        /\ UNCHANGED data
    BY <1>0, <1>4 DEF CreateSession, At, Goto, Leave, Unstage, disk, CallTypeOK
  <2> QED BY <2>1
<1>5. CASE StagingFails(p) \/ SendFile(p) \/ SendFails(p) \/ Subscribe(p)
             \/ Check(p) \/ ReadSignal(p) \/ StopWaiting(p) \/ RemoveSession(p) \/ Drop(p)
  <2>1. pc'[p] \notin {"write", "session", "send"}
    BY <1>0, <1>5
    DEF StagingFails, SendFile, SendFails, Subscribe, Check, ReadSignal, StopWaiting,
        RemoveSession, Drop, Goto, Leave, Finish, Succeed, CallTypeOK, Turn
  <2> QED BY <2>1
<1>6. CASE Obexd(p) \/ Tick \/ UNCHANGED vars
  BY <1>6 DEF Obexd, Transmit, Conclude, Vanish, Tick, vars, call, disk, TellStatus
<1> QED BY <1>1, <1>2, <1>3, <1>4, <1>5, <1>6 DEF Next, Moves

(* Every step keeps what the peer has a beginning of the object. *)
LEMMA SentStep ==
  ASSUME TypeOK, FileNames, [Next]_vars, NEW p \in Push, Alone(p), Holds(p), Sent(p)
  PROVE  Sent(p)'
<1>0. CallTypeOK /\ DiskTypeOK /\ ObexdTypeOK
  BY TypeParts
<1>o. /\ entry[name[p]] \in {p, NoFile} /\ NoFile \notin Push
      /\ Object[p] \in Seq(Byte) /\ Len(Object[p]) \in Nat
      /\ got[p] \in Seq(Byte) /\ Len(got[p]) \in Nat
  BY <1>0, OwnFile, PushAssumption, LenProperties DEF ObexdTypeOK
<1>1. ASSUME NEW q \in Push, q # p, Moves(q) \/ Drop(q) \/ Obexd(q)
      PROVE  Sent(p)'
  <2>1. data'[p] = data[p]
    BY <1>1, OthersData
  <2>2. pc'[p] = pc[p]
    BY <1>0, <1>1
    DEF Moves, Obexd, Create, Write, StagingFails, CreateSession, SendFile, SendFails,
        Subscribe, Check, ReadSignal, StopWaiting, RemoveSession, Drop, Transmit,
        Conclude, Vanish, Goto, Leave, Finish, Succeed, call, CallTypeOK,
        TellStatus, Turn
  <2>3. UNCHANGED <<status[p], got[p], source[p]>>
    BY <1>0, <1>1
    DEF Moves, Obexd, Create, Write, StagingFails, CreateSession, SendFile, SendFails,
        Subscribe, Check, ReadSignal, StopWaiting, RemoveSession, Drop, CloseSession,
        Transmit, Conclude, Vanish, obexd, ObexdTypeOK, TellStatus, Turn
  <2> QED BY <2>1, <2>2, <2>3 DEF Sent
<1>2. ASSUME pc[p] \in Before, UNCHANGED <<status[p], got[p]>> PROVE Sent(p)'
  BY <1>2 DEF Sent
<1>3. ASSUME pc'[p] \notin Before, status[p] # "none" => data'[p] = data[p],
             UNCHANGED <<status[p], got[p], source[p]>>
      PROVE  Sent(p)'
  BY <1>3 DEF Sent
<1>4. CASE Create(p) \/ Write(p) \/ StagingFails(p) \/ CreateSession(p)
  <2>1. pc[p] \in Before
    BY <1>4 DEF Create, Write, StagingFails, CreateSession, At, Before
  <2>2. UNCHANGED <<status, got>>
    BY <1>4 DEF Create, Write, StagingFails, CreateSession, obexd
  <2> QED BY <1>2, <2>1, <2>2
<1>5. CASE SendFile(p)
  <2>1. pc[p] = "send" /\ pc'[p] = "subscribe"
    BY <1>0, <1>5 DEF SendFile, At, Goto, CallTypeOK
  <2>2. source'[p] = p /\ status'[p] = "active"
    BY <1>0, <1>o, <1>5 DEF SendFile, PathOf, ObexdTypeOK
  <2>3. got'[p] = <<>> /\ data'[p] = Object[p]
    BY <1>5, <2>1 DEF SendFile, Sent, Holds, Before, disk
  <2>4. Len(got'[p]) = 0
    BY <2>3
  <2> QED BY <1>o, <2>1, <2>2, <2>3, <2>4 DEF Sent, Before
<1>6. CASE SendFails(p) \/ Subscribe(p) \/ Check(p) \/ ReadSignal(p) \/ StopWaiting(p)
  <2>1. pc'[p] \notin Before
    BY <1>0, <1>6
    DEF SendFails, Subscribe, Check, ReadSignal, StopWaiting, Goto, Finish, Succeed, CallTypeOK,
        Before, Turn
  <2>2. UNCHANGED <<data, status, got, source>>
    BY <1>6 DEF SendFails, Subscribe, Check, ReadSignal, StopWaiting, disk, obexd, Turn
  <2> QED BY <1>3, <2>1, <2>2
<1>7. CASE RemoveSession(p) \/ Drop(p)
  <2>1. pc'[p] = "over" /\ UNCHANGED <<data, got, source>>
    BY <1>0, <1>7 DEF RemoveSession, Drop, Leave, Unstage, CallTypeOK
  <2>2. status'[p] = IF status[p] = "active" THEN "error" ELSE status[p]
    BY <1>0, <1>7 DEF RemoveSession, Drop, CloseSession, ObexdTypeOK
  <2> QED BY <2>1, <2>2 DEF Sent, Before
<1>8. CASE Transmit(p)
  <2>1. /\ status[p] = "active" /\ UNCHANGED <<pc, status, source, data>>
        /\ source[p] = p /\ data[p] = Object[p]
        /\ Len(got[p]) < Len(Object[p])
    BY <1>8 DEF Transmit, Sent, call, disk
  <2> DEFINE b == Object[p][Len(got[p]) + 1]
  <2>2. b \in Byte
    BY <1>o, <2>1, ElementOfSeq
  <2>3. got'[p] = Append(got[p], b)
    BY <1>0, <1>8, <2>1 DEF Transmit, ObexdTypeOK
  <2>4. /\ Len(got'[p]) = Len(got[p]) + 1
        /\ \A i \in 1..Len(got[p]) : got'[p][i] = got[p][i]
        /\ got'[p][Len(got[p]) + 1] = b
    BY <1>o, <2>2, <2>3, AppendProperties
  <2>5. \A i \in 1..Len(got'[p]) : got'[p][i] = Object[p][i]
    BY <1>o, <2>1, <2>4 DEF Sent
  <2> QED BY <1>o, <2>1, <2>4, <2>5 DEF Sent
<1>9. CASE Conclude(p)
  <2>1. /\ status[p] = "active" /\ UNCHANGED <<pc, got, source, data>>
        /\ status'[p] # "none"
        /\ status'[p] = "complete" => Len(got[p]) >= Len(data[source[p]])
    BY <1>0, <1>9 DEF Conclude, call, disk, ObexdTypeOK
  <2> QED BY <2>1 DEF Sent
<1>10. CASE Vanish(p) \/ TellStatus(p) \/ Tick \/ UNCHANGED vars
  <2>1. UNCHANGED <<pc, data, status, got, source>>
    BY <1>10 DEF Vanish, TellStatus, Tick, vars, call, disk, obexd
  <2> QED BY <2>1 DEF Sent
<1> QED BY <1>1, <1>4, <1>5, <1>6, <1>7, <1>8, <1>9, <1>10 DEF Next, Moves, Obexd
-----------------------------------------------------------------------------
(* What the push knows. *)

(* A push that succeeds on completion knows it. *)
LEMMA SucceedKnows ==
  ASSUME TypeOK, NEW p \in Push, Sent(p), Known(p), ProgressOf(p), pc[p] \notin Before,
         verdict[p] = "none", status[p] = "complete",
         Succeed(p, transferred[p]), UNCHANGED <<status, total>>
  PROVE  /\ verdict'[p] = "ok" => status'[p] = "complete"
         /\ total'[p] > 0 => pc'[p] \notin Before /\ total'[p] = Len(Object[p])
         /\ verdict'[p] = "ok" /\ total'[p] > 0 => receipt'[p] = Len(Object[p])
<1>0. CallTypeOK /\ CountTypeOK /\ ObexdTypeOK
  BY TypeParts
<1>1. /\ transferred[p] \in Nat /\ total[p] \in Nat
      /\ Len(got[p]) \in Nat /\ Len(Object[p]) \in Nat
  BY <1>0, PushAssumption, LenProperties DEF CountTypeOK, ObexdTypeOK
<1>2. pc'[p] = "remove" /\ receipt'[p] = Larger(total[p], transferred[p])
  BY <1>0 DEF Succeed, Finish, CallTypeOK
<1>3. transferred[p] <= Len(got[p]) /\ Len(got[p]) <= Len(Object[p])
  BY DEF ProgressOf, Told, Sent
<1>4. total[p] > 0 => Larger(total[p], transferred[p]) = Len(Object[p])
  BY <1>1, <1>3 DEF Known, Larger
<1> QED BY <1>2, <1>4 DEF Known, Before

(* A transfer read as complete is complete, for good. *)
SeenOf(p) ==
  /\ pc[p] \in Before \union {"subscribe"} => seen[p] = "none"
  /\ seen[p] = "complete" => status[p] = "complete"

(* Every step keeps what was read of Status true. *)
LEMMA SeenStep ==
  ASSUME TypeOK, [Next]_vars, NEW p \in Push, SeenOf(p)
  PROVE  SeenOf(p)'
<1>0. CallTypeOK /\ ObexdTypeOK /\ CountTypeOK
  BY TypeParts
<1>1. ASSUME NEW q \in Push, q # p, Moves(q) \/ Drop(q) \/ Obexd(q)
      PROVE  SeenOf(p)'
  <2>1. pc'[p] = pc[p]
    BY <1>0, <1>1
    DEF Moves, Obexd, Create, Write, StagingFails, CreateSession, SendFile, SendFails,
        Subscribe, Check, ReadSignal, StopWaiting, RemoveSession, Drop, Transmit,
        Conclude, Vanish, TellStatus, Turn, Goto, Leave, Finish, Succeed, call, CallTypeOK
  <2>2. seen'[p] = seen[p]
    BY <1>0, <1>1
    DEF Moves, Obexd, Create, Write, StagingFails, CreateSession, SendFile, SendFails,
        Subscribe, Check, ReadSignal, StopWaiting, RemoveSession, Drop, Transmit,
        Conclude, Vanish, TellStatus, Turn, clock, CountTypeOK
  <2>3. status'[p] = status[p]
    BY <1>0, <1>1
    DEF Moves, Obexd, Create, Write, StagingFails, CreateSession, SendFile, SendFails,
        Subscribe, Check, ReadSignal, StopWaiting, RemoveSession, Drop, CloseSession,
        Transmit, Conclude, Vanish, TellStatus, obexd, ObexdTypeOK
  <2> QED BY <2>1, <2>2, <2>3 DEF SeenOf
<1>2. CASE Create(p) \/ Write(p) \/ CreateSession(p) \/ SendFile(p) \/ Subscribe(p)
             \/ StagingFails(p)
  <2>1. pc[p] \in Before \union {"subscribe"} /\ seen' = seen
    BY <1>2
    DEF Create, Write, CreateSession, SendFile, Subscribe, StagingFails, At, Before, clock
  <2> QED BY <2>1 DEF SeenOf
<1>3. CASE SendFails(p) \/ Check(p) \/ ReadSignal(p) \/ StopWaiting(p)
  <2>1. status' = status /\ seen'[p] \in {seen[p], "none"}
    BY <1>0, <1>3
    DEF SendFails, Check, ReadSignal, StopWaiting, obexd, clock, CountTypeOK
  <2>2. pc'[p] \notin Before \union {"subscribe"}
    BY <1>0, <1>3
    DEF SendFails, Check, ReadSignal, StopWaiting, Turn, Goto, Finish, Succeed, Before,
        CallTypeOK
  <2> QED BY <2>1, <2>2 DEF SeenOf
<1>4. CASE RemoveSession(p) \/ Drop(p)
  <2>1. pc'[p] = "over" /\ seen' = seen
    BY <1>0, <1>4 DEF RemoveSession, Drop, Leave, clock, CallTypeOK
  <2>2. status[p] = "complete" => status'[p] = "complete"
    BY <1>0, <1>4 DEF RemoveSession, Drop, CloseSession, ObexdTypeOK
  <2> QED BY <2>1, <2>2 DEF SeenOf, Before
<1>5. CASE Transmit(p) \/ Conclude(p) \/ Vanish(p)
  <2>1. UNCHANGED <<pc, seen>> /\ (status[p] = "complete" => status'[p] = "complete")
    BY <1>0, <1>5 DEF Transmit, Conclude, Vanish, call, clock, ObexdTypeOK
  <2> QED BY <2>1 DEF SeenOf
<1>6. CASE TellStatus(p)
  <2>1. UNCHANGED <<pc, status>> /\ pc[p] = "check" /\ seen'[p] \in {status[p], "unread"}
    BY <1>0, <1>6 DEF TellStatus, At, call, obexd, CountTypeOK
  <2> QED BY <2>1 DEF SeenOf, Before
<1>7. CASE Tick \/ UNCHANGED vars
  <2>1. UNCHANGED <<pc, seen, status>>
    BY <1>7 DEF Tick, vars, call, obexd, clock
  <2> QED BY <2>1 DEF SeenOf
<1> QED BY <1>1, <1>2, <1>3, <1>4, <1>5, <1>6, <1>7 DEF Next, Moves, Obexd

(* A change of Status to complete is only among the signals once told. *)
LEMMA CompleteIsTold ==
  ASSUME ObexdTypeOK, NEW p \in Push, NEW n \in Nat,
         NEW how \in {"active", "complete", "error"}, Tell(p, n, how),
         \A i \in 1..Len(signals[p]) : signals[p][i].status # "complete"
  PROVE  \A i \in 1..Len(signals'[p]) :
           signals'[p][i].status = "complete" => how = "complete"
<1> DEFINE s == [bytes |-> n, status |-> how]
<1>1. CASE signals' = signals
  BY <1>1
<1>2. CASE signals' = [signals EXCEPT ![p] = Append(@, s)]
  <2>1. signals[p] \in Seq(Signal) /\ Len(signals[p]) \in Nat
    BY LenProperties DEF ObexdTypeOK
  <2>2. s \in Signal /\ s.status = how
    BY DEF Signal
  <2>3. signals'[p] = Append(signals[p], s)
    BY <1>2 DEF ObexdTypeOK
  <2> HIDE DEF s
  <2>4. /\ Len(signals'[p]) = Len(signals[p]) + 1
        /\ \A i \in 1..Len(signals[p]) : signals'[p][i] = signals[p][i]
        /\ signals'[p][Len(signals[p]) + 1] = s
    BY <2>1, <2>2, <2>3, AppendProperties
  <2>5. ASSUME NEW i \in 1..Len(signals'[p]), signals'[p][i].status = "complete"
        PROVE  how = "complete"
    <3>1. i \in 1..Len(signals[p]) \/ i = Len(signals[p]) + 1
      BY <2>1, <2>4
    <3> QED BY <2>2, <2>4, <2>5, <3>1
  <2> QED BY <2>5
<1> QED BY <1>1, <1>2 DEF Tell

(* Every step keeps a signal of completion true. *)
LEMMA KnownStep ==
  ASSUME TypeOK, FileNames, [Next]_vars, NEW p \in Push, Alone(p), Holds(p), Sent(p),
         Known(p), ProgressOf(p), SeenOf(p)
  PROVE  Known(p)'
<1>0. CallTypeOK /\ DiskTypeOK /\ ObexdTypeOK /\ CountTypeOK
  BY TypeParts
<1>o. /\ entry[name[p]] \in {p, NoFile} /\ NoFile \notin Push
      /\ Len(Object[p]) \in Nat
      /\ signals[p] \in Seq(Signal) /\ Len(signals[p]) \in Nat
  BY <1>0, OwnFile, PushAssumption, LenProperties DEF ObexdTypeOK
<1>1. ASSUME NEW q \in Push, q # p, Moves(q) \/ Drop(q) \/ Obexd(q)
      PROVE  Known(p)'
  <2>1. UNCHANGED <<pc[p], verdict[p], receipt[p]>>
    BY <1>0, <1>1
    DEF Moves, Obexd, Create, Write, StagingFails, CreateSession, SendFile, SendFails,
        Subscribe, Check, ReadSignal, StopWaiting, RemoveSession, Drop, Transmit,
        Conclude, Vanish, Goto, Leave, Finish, Succeed, call, CallTypeOK,
        TellStatus, Turn
  <2>2. total'[p] = total[p]
    BY <1>0, <1>1
    DEF Moves, Obexd, Create, Write, StagingFails, CreateSession, SendFile, SendFails,
        Subscribe, Check, ReadSignal, StopWaiting, RemoveSession, Drop, Transmit,
        Conclude, Vanish, CountTypeOK, TellStatus, Turn
  <2>3. UNCHANGED <<status[p], signals[p]>>
    BY <1>0, <1>1
    DEF Moves, Obexd, Create, Write, StagingFails, CreateSession, SendFile, SendFails,
        Subscribe, Check, ReadSignal, StopWaiting, RemoveSession, Drop, CloseSession,
        Transmit, Conclude, Vanish, Tell, obexd, ObexdTypeOK, TellStatus, Turn
  <2> QED BY <2>1, <2>2, <2>3 DEF Known
(* A step that does not succeed, and leaves what was told as it was. *)
<1>2. ASSUME UNCHANGED <<signals, status, receipt, total>>,
             verdict'[p] = "ok" => verdict[p] = "ok",
             pc'[p] \in Before => pc[p] \in Before
      PROVE  Known(p)'
  BY <1>2 DEF Known
<1>3. CASE Create(p) \/ Write(p) \/ StagingFails(p) \/ CreateSession(p) \/ SendFails(p)
             \/ Subscribe(p) \/ StopWaiting(p)
  <2>1. UNCHANGED <<signals, status, receipt, total>>
    BY <1>3
    DEF Create, Write, StagingFails, CreateSession, SendFails, Subscribe, StopWaiting,
        Goto, Leave, obexd, Turn
  <2>2. /\ verdict'[p] = "ok" => verdict[p] = "ok"
        /\ pc'[p] \in Before => pc[p] \in Before
    BY <1>0, <1>3
    DEF Create, Write, StagingFails, CreateSession, SendFails, Subscribe, StopWaiting,
        At, Goto, Leave, Finish, CallTypeOK, Before, Turn
  <2> QED BY <1>2, <2>1, <2>2
<1>4. CASE SendFile(p)
  <2>1. /\ pc[p] = "send" /\ pc'[p] = "subscribe"
        /\ UNCHANGED <<signals, verdict, receipt>> /\ status'[p] = "active"
    BY <1>0, <1>4 DEF SendFile, At, Goto, CallTypeOK, ObexdTypeOK
  <2>2. entry[PathOf(p)] = p
    BY <1>o, <1>4 DEF SendFile, PathOf
  <2>3. total'[p] \in {Len(Object[p]), 0}
    BY <1>0, <1>4, <2>1, <2>2 DEF SendFile, Holds, CountTypeOK
  <2>4. verdict[p] = "none" /\ status[p] = "none"
    BY <2>1 DEF ProgressOf, Sent, Before
  <2> QED BY <1>o, <2>1, <2>3, <2>4 DEF Known, Before
<1>5. CASE Check(p)
  <2>1. /\ pc[p] = "check" /\ verdict[p] = "none"
        /\ UNCHANGED <<signals, status, total>>
    BY <1>5 DEF Check, At, ProgressOf, obexd
  <2>2. CASE seen[p] = "complete" /\ Succeed(p, transferred[p])
    <3>1. pc[p] \notin Before /\ status[p] = "complete"
      BY <2>1, <2>2 DEF Before, SeenOf
    <3> QED BY <2>1, <2>2, <3>1, SucceedKnows DEF Known
  <2>3. ASSUME NEW how \in {"failed", "timeout"}, Finish(p, how), UNCHANGED receipt
        PROVE  Known(p)'
    <3>1. pc'[p] = "remove" /\ verdict'[p] = how
      BY <1>0, <2>3 DEF Finish, CallTypeOK
    <3> QED BY <1>2, <2>1, <2>3, <3>1 DEF Before
  <2>4. CASE Goto(p, "wait")
    <3>1. pc'[p] = "wait" /\ UNCHANGED <<verdict, receipt>>
      BY <1>0, <2>4 DEF Goto, CallTypeOK
    <3> QED BY <1>2, <2>1, <3>1 DEF Before
  <2> QED BY <1>5, <2>2, <2>3, <2>4 DEF Check
<1>6. CASE ReadSignal(p)
  <2> DEFINE s == Head(signals[p])
  <2>1. /\ pc[p] = "wait" /\ verdict[p] = "none"
        /\ UNCHANGED <<status, total>> /\ signals[p] # <<>>
    BY <1>6 DEF ReadSignal, At, ProgressOf, obexd, Turn
  <2>2. /\ Len(signals[p]) > 0 /\ s = signals[p][1]
        /\ signals'[p] = Tail(signals[p])
        /\ Len(signals'[p]) = Len(signals[p]) - 1
        /\ \A i \in 1..Len(signals'[p]) : signals'[p][i] = signals[p][i + 1]
    BY <1>0, <1>6, <1>o, <2>1, HeadTailProperties, EmptySeq, LenProperties
    DEF ReadSignal, ObexdTypeOK, Turn
  <2>3. \A i \in 1..Len(signals'[p]) :
          signals'[p][i].status = "complete" => status'[p] = "complete"
    BY <1>o, <2>1, <2>2 DEF Known
  <2>4. CASE s.status = "complete" /\ Succeed(p, transferred[p])
    <3>1. status[p] = "complete" /\ pc[p] \notin Before
      BY <1>o, <2>1, <2>2, <2>4 DEF Known, Before
    <3>2. UNCHANGED <<status, total>>
      BY <2>1
    <3>3. Succeed(p, transferred[p])
      BY <2>4
    <3>4. /\ verdict'[p] = "ok" => status'[p] = "complete"
          /\ total'[p] > 0 => pc'[p] \notin Before /\ total'[p] = Len(Object[p])
          /\ verdict'[p] = "ok" /\ total'[p] > 0 => receipt'[p] = Len(Object[p])
      BY <2>1, <3>1, <3>2, <3>3, SucceedKnows
    <3> QED BY <2>3, <3>4 DEF Known
  <2>5. ASSUME verdict'[p] # "ok", pc'[p] \notin Before PROVE Known(p)'
    BY <2>1, <2>3, <2>5 DEF Known
  <2>6. CASE Turn(p)
    <3>1. pc'[p] = "check" /\ verdict' = verdict
      BY <1>0, <2>6 DEF Turn, Goto, CallTypeOK
    <3> QED BY <2>1, <2>5, <3>1 DEF Before
  <2>7. CASE Finish(p, "failed")
    <3>1. pc'[p] = "remove" /\ verdict'[p] = "failed"
      BY <1>0, <2>7 DEF Finish, CallTypeOK
    <3> QED BY <2>5, <3>1 DEF Before
  <2> QED BY <1>6, <2>4, <2>6, <2>7 DEF ReadSignal
<1>7. CASE RemoveSession(p) \/ Drop(p)
  <2>1. UNCHANGED <<signals, receipt, total>>
    BY <1>7 DEF RemoveSession, Drop, Leave
  <2>2. pc'[p] = "over" /\ (verdict'[p] = "ok" => verdict[p] = "ok")
    BY <1>0, <1>7 DEF RemoveSession, Drop, Leave, CallTypeOK
  <2>3. status'[p] = IF status[p] = "active" THEN "error" ELSE status[p]
    BY <1>0, <1>7 DEF RemoveSession, Drop, CloseSession, ObexdTypeOK
  <2> QED BY <2>1, <2>2, <2>3 DEF Known, Before
(* What obexd tells of a transfer that is not complete. *)
<1>8. ASSUME UNCHANGED <<pc, verdict, receipt, total>>, status[p] # "complete",
             NEW n \in Nat, NEW how \in {"active", "complete", "error"}, Tell(p, n, how),
             how = "complete" => status'[p] = "complete"
      PROVE  Known(p)'
  <2>1. \A i \in 1..Len(signals[p]) : signals[p][i].status # "complete"
    BY <1>8 DEF Known
  <2>2. \A i \in 1..Len(signals'[p]) :
          signals'[p][i].status = "complete" => how = "complete"
    BY <1>0, <1>8, <2>1, CompleteIsTold
  <2>3. verdict[p] # "ok"
    BY <1>8 DEF Known
  <2> QED BY <1>8, <2>2, <2>3 DEF Known
<1>9. CASE Transmit(p)
  <2>1. UNCHANGED <<pc, verdict, receipt, total, status>> /\ status[p] = "active"
    BY <1>9 DEF Transmit, call
  <2>2. Len(got[p]) + 1 \in Nat
    BY <1>0, LenProperties DEF ObexdTypeOK
  <2>3. CASE UNCHANGED signals
    BY <2>1, <2>3 DEF Known
  <2>4. CASE Tell(p, Len(got[p]) + 1, "active")
    BY <1>8, <2>1, <2>2, <2>4
  <2> QED BY <1>9, <2>3, <2>4 DEF Transmit
<1>10. CASE Conclude(p)
  <2>1. UNCHANGED <<pc, verdict, receipt, total>> /\ status[p] = "active"
    BY <1>10 DEF Conclude, call
  <2>2. PICK how \in {"complete", "error"} :
          status' = [status EXCEPT ![p] = how] /\ Tell(p, 0, how)
    BY <1>10 DEF Conclude
  <2>3. status'[p] = how
    BY <1>0, <2>2 DEF ObexdTypeOK
  <2> QED BY <1>8, <2>1, <2>2, <2>3
<1>11. CASE Vanish(p) \/ TellStatus(p) \/ Tick \/ UNCHANGED vars
  <2>1. UNCHANGED <<pc, verdict, receipt, total, status, signals>>
    BY <1>11 DEF Vanish, TellStatus, Tick, vars, call, obexd
  <2> QED BY <2>1 DEF Known
<1> QED BY <1>1, <1>3, <1>4, <1>5, <1>6, <1>7, <1>9, <1>10, <1>11 DEF Next, Moves, Obexd
-----------------------------------------------------------------------------

(* On completion the peer has the object. *)
LEMMA WholeObject ==
  ASSUME TypeOK, NEW p \in Push, Sent(p), status[p] = "complete"
  PROVE  got[p] = Object[p]
<1>1. /\ got[p] \in Seq(Byte) /\ Object[p] \in Seq(Byte)
      /\ Len(got[p]) \in Nat /\ Len(Object[p]) \in Nat
  BY PushAssumption, LenProperties DEF TypeOK
<1>2. /\ Len(got[p]) = Len(Object[p])
      /\ \A i \in 1..Len(got[p]) : got[p][i] = Object[p][i]
  BY <1>1 DEF Sent
<1> QED BY <1>1, <1>2, SeqEqual

(* A receipt proves that the peer has the object, and how many bytes it    *)
(* has, if no other push stages its object under the same name.            *)
THEOREM ReceiptCorrect == Spec => []ReceiptIsTrue
<1> DEFINE Inv == /\ TypeOK /\ FileNames
                  /\ \A p \in Push : ProgressOf(p) /\ SeenOf(p)
                  /\ \A p \in Push : Alone(p) => Sent(p) /\ Holds(p) /\ Known(p)
<1>1. Init => Inv
  <2>1. Init => \A p \in Push : ProgressOf(p)
    BY ProgressInit
  <2>2. Init => FileNames
    BY DEF Init, FileNames
  <2>3. ASSUME Init, NEW p \in Push PROVE SeenOf(p) /\ Sent(p) /\ Holds(p) /\ Known(p)
    <3>1. /\ pc[p] = "create" /\ status[p] = "none" /\ got[p] = <<>>
          /\ verdict[p] = "none" /\ total[p] = 0
          /\ signals[p] = <<>> /\ Len(signals[p]) = 0 /\ seen[p] = "none"
      BY <2>3 DEF Init
    <3> QED BY <3>1 DEF SeenOf, Sent, Holds, Known
  <2> QED BY <2>1, <2>2, <2>3, InitType
<1>2. Inv /\ [Next]_vars => Inv'
  <2> SUFFICES ASSUME Inv, [Next]_vars PROVE Inv'
    OBVIOUS
  <2>1. \A p \in Push : ProgressOf(p)' /\ SeenOf(p)'
    BY ProgressStep, SeenStep
  <2>2. name' = name
    BY NameKept
  <2>3. ASSUME NEW p \in Push, Alone(p)' PROVE (Sent(p) /\ Holds(p) /\ Known(p))'
    <3>1. Alone(p)
      BY <2>2, <2>3 DEF Alone
    <3> QED BY <3>1, SentStep, HoldsStep, KnownStep
  <2> QED BY <2>1, <2>3, TypeStep, NamesStep
<1>3. Inv => ReceiptIsTrue
  <2> SUFFICES ASSUME Inv, NEW p \in Push, verdict[p] = "ok", Alone(p)
               PROVE  /\ got[p] = Object[p]
                      /\ total[p] > 0 => receipt[p] = Len(Object[p])
    BY DEF ReceiptIsTrue
  <2>1. Sent(p) /\ Known(p)
    OBVIOUS
  <2> QED BY <2>1, WholeObject DEF Known
<1> QED BY <1>1, <1>2, <1>3, PTL DEF Spec
=============================================================================
