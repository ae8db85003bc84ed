-------------------------- MODULE MockBackendProofs --------------------------
(***************************************************************************)
(* What holds of the mock backend for any tasks, devices, scripts and      *)
(* calls.  TypeOK says what a task holds at each point of its call.  With  *)
(* it every step is a step of EventStream, whose invariant then holds of   *)
(* the mock's log; the other theorems rest on both.  Bonds and discoveries *)
(* need little more; TokenInv and OpenInv follow each token from connect   *)
(* to disconnect, in the table, in what was said and in each log; SendInv, *)
(* CallInv and TallyInv a transfer's chunks, from the scripted link to the *)
(* log of each observer.                                                   *)
(***************************************************************************)
EXTENDS MockBackend, FiniteSetTheorems, SequenceTheorems, TLAPS

-----------------------------------------------------------------------------
(* Types. *)

Handle == [token : Nat \ {0}, peer : Device]

Receipt == [op : {"push"}, call : Nat, peer : Device, total : Nat,
            ok : BOOLEAN, bytes : Nat, chunks : Nat, duration : Int]

Result ==
  [op : {"discover"}, arg : Call, out : Seq(Device)]
    \union [op : {"pair"}, peer : Device, ok : BOOLEAN]
    \union [op : {"accept"}, arg : Call, out : Seq(Device), tried : Nat]
    \union [op : {"connect"}, ok : {FALSE}]
    \union [op : {"connect"}, ok : {TRUE}, conn : Handle]
    \union [op : {"disconnect"}, ok : BOOLEAN]
    \union [op : {"push_refused"}]
    \union Receipt

(* What a task holds: while it asks, uses a connection, announces one,     *)
(* transfers, closes a transfer, and returns.                              *)
Asking(t) ==
  [pc : {"discover", "scan", "pair", "connect", "accept", "ask", "bonded"},
   call : Nat, arg : Calls[t], i : Nat \ {0}, out : Seq(Device)]
Using(t) ==
  [pc : {"disconnect", "parted", "push"}, call : Nat, arg : Calls[t], conn : Handle]
Opening == [pc : {"connected"}, call : Nat, conn : Handle]
Sending(t) ==
  [pc : {"push_start", "push_open", "chunk", "progress"}, call : Nat,
   arg : Calls[t], conn : Handle, sent : Nat, chunks : Nat, start : Nat]
Closing == [pc : {"push_close"}, call : Nat, conn : Handle, res : Receipt]
Returning == [pc : {"return"}, call : Nat, res : Result]

JobOf(t) == {Idle} \union Asking(t) \union Using(t) \union Opening
              \union Sending(t) \union Closing \union Returning

(* The call a task is in is one that passes where the task stands.         *)
Fits(j) ==
  /\ j.pc \in {"discover", "scan"} => j.arg.op = "discover"
  /\ j.pc \in {"pair", "connect", "accept"} => j.arg.op = j.pc
  /\ j.pc \in {"ask", "bonded"} =>
       \/ j.arg.op = "pair"
       \/ j.arg.op = "accept" /\ j.i <= Len(Incoming)
  /\ j.pc \in {"push", "push_start", "push_open", "chunk", "progress"} =>
       j.arg.op = "push"

TypeOK ==
  /\ seq \in Nat /\ clock \in Nat
  /\ said \in Seq(Said) /\ Len(said) = seq
  /\ nextToken \in Nat \ {0} /\ connections \subseteq 1..(nextToken - 1)
  /\ paired \subseteq Device
  /\ handles \subseteq Handle
  /\ DOMAIN job = Task
  /\ \A t \in Task : job[t] \in JobOf(t) /\ Fits(job[t])
  /\ made \in Nat
  /\ results \subseteq Result

(* The fields of each kind of call. *)
LEMMA CallFields ==
  ASSUME NEW c \in Call
  PROVE  /\ c.op = "discover" => c.accepts \subseteq Device /\ c.limit \in Nat \union {Never}
         /\ c.op \in {"pair", "connect"} => c.peer \in Device
         /\ c.op = "accept" => c.max \in Nat \union {Never} /\ c.window \in Nat
         /\ c.op = "push" => c.total \in Nat
BY DEF Call

(* Where a task stands decides what it holds.                              *)
LEMMA JobShape ==
  ASSUME TypeOK, NEW t \in Task
  PROVE  /\ job[t].pc \in {"discover", "scan", "pair", "connect", "accept", "ask", "bonded"}
              => job[t] \in Asking(t)
         /\ job[t].pc \in {"disconnect", "parted", "push"} => job[t] \in Using(t)
         /\ job[t].pc = "connected" => job[t] \in Opening
         /\ job[t].pc \in {"push_start", "push_open", "chunk", "progress"}
              => job[t] \in Sending(t)
         /\ job[t].pc = "push_close" => job[t] \in Closing
         /\ job[t].pc = "return" => job[t] \in Returning
         /\ job[t].pc # "idle" => job[t].call \in Nat
<1>1. job[t] \in JobOf(t)
  BY DEF TypeOK
<1> QED BY <1>1 DEF JobOf, Idle, Asking, Using, Opening, Sending, Closing, Returning

(* Every task's calls are calls. *)
LEMMA CallsType == \A t \in Task : Calls[t] \subseteq Call
BY MockAssumption

(* A task that pairs has a device to pair with. *)
LEMMA PeerType ==
  ASSUME TypeOK, NEW t \in Task, job[t].pc \in {"pair", "ask", "bonded"}
  PROVE  Peer(t) \in Device
<1>1. job[t] \in Asking(t) /\ Fits(job[t]) /\ job[t].arg \in Call
  BY JobShape, CallsType DEF TypeOK, Asking
<1>2. CASE job[t].arg.op = "pair"
  BY <1>1, <1>2, CallFields DEF Peer, Inbound
<1>3. CASE job[t].arg.op = "accept"
  BY <1>1, <1>3, MockAssumption DEF Peer, Inbound, Fits, Asking
<1> QED BY <1>1, <1>2, <1>3 DEF Fits

(* Stamping an event adds one entry to what the events say.                *)
LEMMA EmitSays ==
  ASSUME TypeOK, NEW t \in Task, job[t].pc # "idle", NEW kind \in Kinds,
         NEW d \in Device \union {NoPeer}, NEW k \in Nat, NEW n \in Nat,
         NEW dt \in Nat, Emit(t, kind, d, k, n, dt)
  PROVE  /\ seq' = seq + 1 /\ seq' \in Nat
         /\ clock' = clock + dt /\ clock' \in Nat
         /\ said' \in Seq(Said) /\ Len(said') = seq'
         /\ said'[seq + 1] = [kind |-> kind, peer |-> d, token |-> k,
                              call |-> job[t].call, n |-> n]
         /\ \A m \in 1..seq : said'[m] = said[m]
<1> DEFINE e == [kind |-> kind, peer |-> d, token |-> k,
                 call |-> job[t].call, n |-> n]
<1>1. e \in Said
  BY JobShape DEF Said
<1>2. said \in Seq(Said) /\ said' = Append(said, e) /\ Len(said) = seq
  BY DEF Emit, TypeOK
<1>3. said' \in Seq(Said) /\ Len(said') = seq + 1 /\ said'[seq + 1] = e
      /\ \A m \in 1..seq : said'[m] = said[m]
  BY <1>1, <1>2, AppendProperties
<1>4. seq' = seq + 1 /\ clock' = clock + dt
  BY DEF Emit, Stream!Stamp
<1> QED BY <1>3, <1>4 DEF TypeOK

(* A step of task t alone: the others hold what they held.                 *)
LEMMA OneJob ==
  ASSUME TypeOK, NEW t \in Task, NEW j, job' = [job EXCEPT ![t] = j],
         j \in JobOf(t), Fits(j)
  PROVE  /\ DOMAIN job' = Task
         /\ \A u \in Task : job'[u] \in JobOf(u) /\ Fits(job'[u])
BY DEF TypeOK

(* The types at the start. *)
LEMMA TypeInit == Init => TypeOK
<1> SUFFICES ASSUME Init PROVE TypeOK
  OBVIOUS
<1>1. seq = 0 /\ clock = 0 /\ said = <<>> /\ Len(said) = 0 /\ said \in Seq(Said)
  BY EmptySeq DEF Init, Stream!Init
<1>2. \A t \in Task : job[t] = Idle /\ job[t].pc = "idle"
  BY DEF Init, Idle
<1>3. \A t \in Task : Fits(job[t])
  BY <1>2 DEF Fits
<1> QED BY <1>1, <1>2, <1>3 DEF Init, TypeOK, JobOf

(* Each piece is what is left or a whole chunk; none is left when the file *)
(* is sent.                                                                *)
LEMMA PieceType ==
  ASSUME TypeOK, NEW t \in Task, job[t].pc = "chunk"
  PROVE  /\ job[t].conn.peer \in Device /\ job[t].arg.total \in Nat
         /\ ChunkSize(job[t].conn.peer) \in Nat \ {0}
         /\ Piece(t) \in Int /\ Latency[job[t].conn.peer] \in Nat
         /\ Limit(t) \in Nat \union {Never}
         /\ Piece(t) = IF ChunkSize(job[t].conn.peer) < job[t].arg.total - job[t].sent
                       THEN ChunkSize(job[t].conn.peer)
                       ELSE job[t].arg.total - job[t].sent
<1>1. job[t] \in Sending(t) /\ Fits(job[t])
  BY JobShape DEF TypeOK
<1>2. job[t].conn.peer \in Device /\ job[t].sent \in Nat /\ job[t].arg.total \in Nat
  BY <1>1, CallsType, CallFields DEF Sending, Handle, Fits
<1>3. Chunk[job[t].conn.peer] \in Nat /\ Latency[job[t].conn.peer] \in Nat
      /\ LinkLimit[job[t].conn.peer] \in Nat \union {Never}
  BY <1>2, MockAssumption
<1>4. ChunkSize(job[t].conn.peer) \in Nat \ {0}
  BY <1>3 DEF ChunkSize
<1> QED BY <1>2, <1>3, <1>4 DEF Piece, Limit

-----------------------------------------------------------------------------
(* The steps, by what they hold afterwards. *)

(* A step that emits nothing and leaves the table alone.                   *)
LEMMA QuietStep ==
  ASSUME TypeOK, NEW t \in Task, NEW j, job' = [job EXCEPT ![t] = j],
         j \in JobOf(t), Fits(j), made' \in Nat, results' \subseteq Result,
         handles' \subseteq Handle, UNCHANGED <<streamVars, table>>
  PROVE  TypeOK'
BY OneJob DEF TypeOK, streamVars, table

(* A step that emits an event.                                             *)
LEMMA EmitStep ==
  ASSUME TypeOK, NEW t \in Task, job[t].pc # "idle",
         NEW j, job' = [job EXCEPT ![t] = j], j \in JobOf(t), Fits(j),
         NEW kind \in Kinds, NEW d \in Device \union {NoPeer}, NEW k \in Nat,
         NEW n \in Nat, NEW dt \in Nat, Emit(t, kind, d, k, n, dt),
         UNCHANGED <<table, handles, made, results>>
  PROVE  TypeOK'
BY OneJob, EmitSays DEF TypeOK, table

(* The types, as a task takes up a call. *)
LEMMA BeginType ==
  ASSUME TypeOK, NEW t \in Task, Begin(t)
  PROVE  TypeOK'
<1> USE DEF Fits, JobOf
<1>1. PICK c \in Calls[t] :
        \/ /\ c.op \in {"discover", "pair", "connect", "accept"}
           /\ job' = [job EXCEPT ![t] =
                [pc |-> c.op, call |-> made + 1, arg |-> c, i |-> 1, out |-> <<>>]]
        \/ /\ c.op \in {"disconnect", "push"}
           /\ \E h \in handles :
                job' = [job EXCEPT ![t] =
                  [pc |-> c.op, call |-> made + 1, arg |-> c, conn |-> h]]
  BY DEF Begin
<1>2. /\ made' \in Nat /\ made + 1 \in Nat
      /\ UNCHANGED <<streamVars, table, handles, results>>
      /\ results' \subseteq Result /\ handles' \subseteq Handle
  BY DEF Begin, TypeOK
<1>3. CASE c.op \in {"discover", "pair", "connect", "accept"}
  <2> DEFINE j == [pc |-> c.op, call |-> made + 1, arg |-> c, i |-> 1, out |-> <<>>]
  <2>1. job' = [job EXCEPT ![t] = j]
    BY <1>1, <1>3
  <2>2. j \in Asking(t) /\ Fits(j)
    BY <1>2, <1>3, EmptySeq DEF Asking
  <2> QED BY <1>2, <2>1, <2>2, QuietStep
<1>4. CASE c.op \in {"disconnect", "push"}
  <2>1. PICK h \in handles : job' = [job EXCEPT ![t] =
                  [pc |-> c.op, call |-> made + 1, arg |-> c, conn |-> h]]
    BY <1>1, <1>4
  <2> DEFINE j == [pc |-> c.op, call |-> made + 1, arg |-> c, conn |-> h]
  <2>2. j \in Using(t) /\ Fits(j)
    BY <1>2, <1>4 DEF Using, TypeOK
  <2> QED BY <1>2, <2>1, <2>2, QuietStep
<1> QED BY <1>1, <1>3, <1>4

(* The types, as a call returns. *)
LEMMA ReturnType ==
  ASSUME TypeOK, NEW t \in Task, Return(t)
  PROVE  TypeOK'
<1>1. job[t] \in Returning
  BY JobShape DEF Return, At
<1>2. handles' \subseteq Handle /\ results' \subseteq Result
  BY <1>1 DEF Return, TypeOK, Returning, Result, Receipt
<1>3. Idle \in JobOf(t) /\ Fits(Idle) /\ job' = [job EXCEPT ![t] = Idle]
  BY DEF JobOf, Fits, Idle, Return
<1> QED BY <1>2, <1>3, QuietStep DEF Return, TypeOK

(* A task that asks goes on asking.                                        *)
LEMMA AskingOn ==
  ASSUME NEW t \in Task, NEW a \in Asking(t), NEW k \in Nat \ {0},
         NEW o \in Seq(Device),
         NEW p \in {"discover", "scan", "pair", "connect", "accept", "ask", "bonded"}
  PROVE  /\ [a EXCEPT !.pc = p] \in Asking(t)
         /\ [a EXCEPT !.i = k, !.out = o] \in Asking(t)
         /\ [a EXCEPT !.pc = p, !.i = k, !.out = o] \in Asking(t)
<1>1. \A b \in Asking(t) : [b EXCEPT !.pc = p] \in Asking(t)
  BY DEF Asking
<1>2. \A b \in Asking(t) : [b EXCEPT !.i = k] \in Asking(t)
  BY DEF Asking
<1>3. \A b \in Asking(t) : [b EXCEPT !.out = o] \in Asking(t)
  BY DEF Asking
<1>4. [a EXCEPT !.i = k, !.out = o] = [[a EXCEPT !.i = k] EXCEPT !.out = o]
  OBVIOUS
<1>5. [a EXCEPT !.pc = p, !.i = k, !.out = o] =
        [[[a EXCEPT !.pc = p] EXCEPT !.i = k] EXCEPT !.out = o]
  OBVIOUS
<1> QED BY <1>1, <1>2, <1>3, <1>4, <1>5

(* The types, through a discovery. *)
LEMMA DiscoveryType ==
  ASSUME TypeOK, NEW t \in Task, StartDiscovery(t) \/ DiscoverNext(t)
  PROVE  TypeOK'
<1> USE DEF JobOf
<1>1. CASE StartDiscovery(t)
  <2>1. job[t] \in Asking(t) /\ job[t].pc = "discover" /\ Fits(job[t])
    BY <1>1, JobShape DEF StartDiscovery, At, TypeOK
  <2> DEFINE j == [job[t] EXCEPT !.pc = "scan"]
  <2>2. job' = [job EXCEPT ![t] = j]
    BY <1>1 DEF StartDiscovery, Goto
  <2>3. j \in Asking(t) /\ Fits(j)
    BY <2>1 DEF Asking, Fits
  <2> QED BY <1>1, <2>1, <2>2, <2>3, EmitStep
          DEF StartDiscovery, Kinds, StepTime
<1>2. CASE DiscoverNext(t)
  <2>1. job[t] \in Asking(t) /\ job[t].pc = "scan" /\ Fits(job[t]) /\ job[t].call \in Nat
    BY <1>2, JobShape DEF DiscoverNext, At, TypeOK
  <2>2. UNCHANGED <<table, handles, made, results>>
    BY <1>2 DEF DiscoverNext
  <2>3. \/ /\ Answer(t, [op |-> "discover", arg |-> job[t].arg, out |-> job[t].out])
           /\ UNCHANGED streamVars
        \/ \E k \in job[t].i..Len(Scripted) :
             /\ Emit(t, "device_discovered", Scripted[k], 0, 0, StepTime)
             /\ job' = [job EXCEPT ![t].i = k + 1, ![t].out = Append(@, Scripted[k])]
    BY <1>2 DEF DiscoverNext
  <2>4. CASE /\ Answer(t, [op |-> "discover", arg |-> job[t].arg, out |-> job[t].out])
             /\ UNCHANGED streamVars
    <3> DEFINE j == [pc |-> "return", call |-> job[t].call,
                     res |-> [op |-> "discover", arg |-> job[t].arg, out |-> job[t].out]]
    <3>1. job' = [job EXCEPT ![t] = j]
      BY <2>4 DEF Answer
    <3>2. j \in Returning /\ Fits(j)
      BY <2>1, CallsType DEF Asking, Returning, Result, Fits
    <3> QED BY <2>2, <2>4, <3>1, <3>2, QuietStep DEF TypeOK
  <2>5. ASSUME NEW k \in job[t].i..Len(Scripted),
               Emit(t, "device_discovered", Scripted[k], 0, 0, StepTime),
               job' = [job EXCEPT ![t].i = k + 1, ![t].out = Append(@, Scripted[k])]
        PROVE  TypeOK'
    <3> DEFINE j == [job[t] EXCEPT !.i = k + 1, !.out = Append(@, Scripted[k])]
    <3>1. job' = [job EXCEPT ![t] = j]
      BY <2>5
    <3>2. k \in Nat \ {0} /\ Scripted[k] \in Device
      BY <2>1, MockAssumption DEF Asking
    <3>3. Append(job[t].out, Scripted[k]) \in Seq(Device)
      BY <2>1, <3>2, AppendProperties DEF Asking
    <3>4. j \in Asking(t)
      <4>1. k + 1 \in Nat \ {0}
        BY <3>2
      <4> QED BY <2>1, <3>3, <4>1, AskingOn
    <3>5. j.pc = "scan" /\ j.arg = job[t].arg
      BY <2>1 DEF Asking
    <3>6. Fits(j)
      BY <2>1, <3>5 DEF Fits
    <3> HIDE DEF j
    <3> QED BY <3>6, <2>1, <2>2, <2>5, <3>1, <3>2, <3>4, EmitStep DEF Kinds, StepTime
  <2> QED BY <2>3, <2>4, <2>5
<1> QED BY <1>1, <1>2

(* The types, as a pairing starts, either way. *)
LEMMA StartPairType ==
  ASSUME TypeOK, NEW t \in Task, StartPair(t) \/ AcceptNext(t)
  PROVE  TypeOK'
<1> USE DEF JobOf
<1> DEFINE j == [job[t] EXCEPT !.pc = "ask"]
<1>1. job[t] \in Asking(t) /\ Fits(job[t]) /\ job[t].call \in Nat
      /\ job[t].pc \in {"pair", "accept"}
  BY JobShape DEF StartPair, AcceptNext, At, TypeOK
<1>2. UNCHANGED <<table, handles, made, results>>
  BY DEF StartPair, AcceptNext
<1>3. ASSUME Emit(t, "pairing_started", Peer(t), 0, 0, StepTime), Goto(t, "ask"),
             Peer(t) \in Device, job[t].arg.op = "accept" => job[t].i <= Len(Incoming)
      PROVE  TypeOK'
  <2>1. j \in Asking(t) /\ Fits(j)
    BY <1>1, <1>3 DEF Asking, Fits
  <2> QED BY <1>1, <1>2, <1>3, <2>1, EmitStep DEF Goto, Kinds, StepTime
<1>4. CASE StartPair(t) /\ Peer(t) \in Known
  BY <1>1, <1>3, <1>4, PeerType DEF StartPair, At, Fits
<1>5. CASE StartPair(t) /\ Peer(t) \notin Known
  <2> DEFINE k == [pc |-> "return", call |-> job[t].call,
                   res |-> [op |-> "pair", peer |-> Peer(t), ok |-> FALSE]]
  <2>1. job' = [job EXCEPT ![t] = k] /\ UNCHANGED streamVars
    BY <1>5 DEF StartPair, Answer
  <2>2. Peer(t) \in Device
    BY <1>5, PeerType DEF StartPair, At
  <2>3. k \in Returning /\ Fits(k)
    BY <1>1, <2>2 DEF Returning, Result, Fits
  <2> HIDE DEF k
  <2> QED BY <1>2, <2>1, <2>3, QuietStep DEF TypeOK
<1>6. CASE AcceptNext(t)
  <2>1. job[t].arg.op = "accept" /\ job[t].i \in 1..Len(Incoming)
    BY <1>1, <1>6 DEF AcceptNext, At, Fits, TakesMore, Asking
  <2>2. Peer(t) \in Device
    BY <2>1, MockAssumption DEF Peer, Inbound
  <2> QED BY <1>3, <1>6, <2>1, <2>2 DEF AcceptNext
<1> QED BY <1>4, <1>5, <1>6

(* The types, as an inbound window ends. *)
LEMMA AcceptEndsType ==
  ASSUME TypeOK, NEW t \in Task, AcceptEnds(t)
  PROVE  TypeOK' /\ job[t].arg.window \in Nat
<1> USE DEF JobOf
<1> DEFINE j == [pc |-> "return", call |-> job[t].call,
                 res |-> [op |-> "accept", arg |-> job[t].arg, out |-> job[t].out,
                          tried |-> job[t].i - 1]]
<1>1. job[t] \in Asking(t) /\ job[t].arg.op = "accept" /\ job[t].arg \in Call
  BY JobShape, CallsType DEF AcceptEnds, At, TypeOK, Asking, Fits
<1>2. job[t].arg.window \in Nat
  BY <1>1, CallFields
<1>3. j \in Returning /\ Fits(j)
  <2>1. job[t].i - 1 \in Nat /\ job[t].out \in Seq(Device)
    BY <1>1 DEF Asking
  <2>2. j.res \in [op : {"accept"}, arg : Call, out : Seq(Device), tried : Nat]
    BY <1>1, <2>1
  <2>3. j.res \in Result
    BY <2>2 DEF Result
  <2> QED BY <1>1, <2>3 DEF Asking, Returning, Fits
<1>4. job' = [job EXCEPT ![t] = j] /\ UNCHANGED <<said, table, handles, made, results>>
  BY DEF AcceptEnds, Answer
<1>5. clock' = clock + job[t].arg.window /\ seq' = seq
  BY DEF AcceptEnds, Stream!Advance
<1> QED BY <1>2, <1>3, <1>4, <1>5, OneJob DEF TypeOK, table

(* One pairing is over.                                                    *)
LEMMA OverType ==
  ASSUME TypeOK, NEW t \in Task, NEW ok \in BOOLEAN, PairingOver(t, ok),
         job[t].pc \in {"ask", "bonded"}
  PROVE  \E j \in Asking(t) \union Returning :
           Fits(j) /\ job' = [job EXCEPT ![t] = j] /\ j.pc \in {"accept", "return"}
<1>1. job[t] \in Asking(t) /\ Fits(job[t]) /\ Peer(t) \in Device
  BY JobShape, PeerType DEF TypeOK
<1>2. CASE Inbound(t)
  <2> DEFINE j == [job[t] EXCEPT !.pc = "accept", !.i = @ + 1,
                                 !.out = IF ok THEN Append(@, Peer(t)) ELSE @]
  <2>1. job' = [job EXCEPT ![t] = j]
    BY <1>2 DEF PairingOver
  <2>2. (IF ok THEN Append(job[t].out, Peer(t)) ELSE job[t].out) \in Seq(Device)
    BY <1>1, AppendProperties DEF Asking
  <2>3. j \in Asking(t)
    <3>1. job[t].i + 1 \in Nat \ {0}
      BY <1>1 DEF Asking
    <3> QED BY <1>1, <2>2, <3>1, AskingOn
  <2>4. j.pc = "accept" /\ j.arg = job[t].arg
    BY <1>1 DEF Asking
  <2>5. Fits(j)
    BY <1>2, <2>4 DEF Fits, Inbound
  <2> HIDE DEF j
  <2> QED BY <2>1, <2>3, <2>4, <2>5
<1>3. CASE ~Inbound(t)
  <2> DEFINE j == [pc |-> "return", call |-> job[t].call,
                   res |-> [op |-> "pair", peer |-> Peer(t), ok |-> ok]]
  <2>1. job' = [job EXCEPT ![t] = j]
    BY <1>3 DEF PairingOver, Answer
  <2>2. j \in Returning /\ Fits(j)
    BY <1>1 DEF Asking, Returning, Result, Fits
  <2>3. j.pc = "return"
    OBVIOUS
  <2> HIDE DEF j
  <2> QED BY <2>1, <2>2, <2>3
<1> QED BY <1>2, <1>3

(* The types, as a pairing ends or is cancelled. *)
LEMMA PairingType ==
  ASSUME TypeOK, NEW t \in Task,
         PairingFails(t) \/ Bond(t) \/ PairingCompletes(t) \/ Cancel(t)
  PROVE  TypeOK'
<1> USE DEF JobOf
<1>1. job[t] \in Asking(t) /\ Fits(job[t]) /\ Peer(t) \in Device
      /\ job[t].pc \in {"ask", "bonded"}
  BY JobShape, PeerType
     DEF PairingFails, Bond, PairingCompletes, Cancel, At, TypeOK
<1>2. CASE PairingFails(t)
  <2>1. PICK j \in Asking(t) \union Returning : Fits(j) /\ job' = [job EXCEPT ![t] = j]
    BY <1>1, <1>2, OverType DEF PairingFails
  <2> QED BY <1>1, <1>2, <2>1, EmitStep DEF PairingFails, Kinds, StepTime
<1>3. CASE PairingCompletes(t)
  <2>1. PICK j \in Asking(t) \union Returning : Fits(j) /\ job' = [job EXCEPT ![t] = j]
    BY <1>1, <1>3, OverType DEF PairingCompletes
  <2> QED BY <1>1, <1>3, <2>1, EmitStep DEF PairingCompletes, Kinds, StepTime
<1>4. CASE Bond(t)
  <2> DEFINE j == [job[t] EXCEPT !.pc = "bonded"]
  <2>1. job' = [job EXCEPT ![t] = j] /\ paired' = paired \union {Peer(t)}
        /\ UNCHANGED <<streamVars, connections, nextToken, handles, made, results>>
    BY <1>4 DEF Bond, Goto
  <2>2. j \in Asking(t)
    BY <1>1 DEF Asking
  <2>3. j.pc = "bonded" /\ j.arg = job[t].arg /\ j.i = job[t].i
    BY <1>1 DEF Asking
  <2>4. Fits(j)
    BY <1>1, <2>3 DEF Fits
  <2> HIDE DEF j
  <2> QED BY <1>1, <2>1, <2>2, <2>4, OneJob DEF TypeOK, streamVars
<1>5. CASE Cancel(t)
  <2>1. Idle \in JobOf(t) /\ Fits(Idle) /\ job' = [job EXCEPT ![t] = Idle]
    BY <1>5 DEF Fits, Idle, Cancel
  <2> QED BY <1>5, <2>1, QuietStep DEF Cancel, TypeOK
<1> QED BY <1>2, <1>3, <1>4, <1>5

(* Answering ends the call.                                                *)
LEMMA AnswerJob ==
  ASSUME TypeOK, NEW t \in Task, job[t].pc # "idle", NEW r \in Result, Answer(t, r)
  PROVE  \E j \in JobOf(t) : /\ Fits(j) /\ job' = [job EXCEPT ![t] = j]
                             /\ j = [pc |-> "return", call |-> job[t].call, res |-> r]
<1> DEFINE j == [pc |-> "return", call |-> job[t].call, res |-> r]
<1>1. job' = [job EXCEPT ![t] = j]
  BY DEF Answer
<1>2. j \in Returning /\ Fits(j)
  BY JobShape DEF Returning, Fits
<1> QED BY <1>1, <1>2 DEF JobOf

(* The types, as a token is issued. *)
LEMMA ConnectType ==
  ASSUME TypeOK, NEW t \in Task, Connect(t)
  PROVE  TypeOK'
<1>1. job[t] \in Asking(t) /\ job[t].arg.op = "connect" /\ job[t].arg \in Call
      /\ job[t].call \in Nat /\ job[t].pc = "connect"
  BY JobShape, CallsType DEF Connect, At, TypeOK, Asking, Fits
<1>2. job[t].arg.peer \in Device
  BY <1>1, CallFields
<1> DEFINE h == [token |-> nextToken, peer |-> job[t].arg.peer]
           j == [pc |-> "connected", call |-> job[t].call, conn |-> h]
<1>3. CASE job[t].arg.peer \in Known
  <2>1. /\ connections' = connections \union {nextToken} /\ nextToken' = nextToken + 1
        /\ job' = [job EXCEPT ![t] = j]
        /\ UNCHANGED <<streamVars, paired, handles, made, results>>
    BY <1>3 DEF Connect
  <2>2. j \in Opening /\ Fits(j)
    BY <1>1, <1>2 DEF Opening, Handle, Fits, TypeOK
  <2>3. j \in JobOf(t)
    BY <2>2 DEF JobOf
  <2> HIDE DEF j
  <2>4. DOMAIN job' = Task /\ \A u \in Task : job'[u] \in JobOf(u) /\ Fits(job'[u])
    BY <2>1, <2>2, <2>3, OneJob
  <2>5. nextToken' \in Nat \ {0} /\ connections' \subseteq 1..(nextToken' - 1)
    BY <2>1 DEF TypeOK
  <2> QED BY <2>1, <2>4, <2>5 DEF TypeOK, streamVars
<1>4. CASE job[t].arg.peer \notin Known
  <2>1. /\ Answer(t, [op |-> "connect", ok |-> FALSE])
        /\ UNCHANGED <<connections, nextToken, streamVars, paired, handles, made, results>>
    BY <1>4 DEF Connect
  <2>2. [op |-> "connect", ok |-> FALSE] \in Result
    BY DEF Result
  <2> QED BY <1>1, <2>1, <2>2, AnswerJob, QuietStep DEF TypeOK, table
<1> QED BY <1>3, <1>4

(* The types, as a connection is announced. *)
LEMMA TellConnectedType ==
  ASSUME TypeOK, NEW t \in Task, TellConnected(t)
  PROVE  TypeOK'
<1>1. job[t] \in Opening /\ job[t].pc = "connected" /\ job[t].conn \in Handle
  BY JobShape DEF TellConnected, At, Opening
<1>2. [op |-> "connect", ok |-> TRUE, conn |-> job[t].conn] \in Result
  BY <1>1 DEF Result
<1>3. job[t].conn.peer \in Device /\ job[t].conn.token \in Nat
  BY <1>1 DEF Handle
<1> QED BY <1>1, <1>2, <1>3, AnswerJob, EmitStep
        DEF TellConnected, Kinds, StepTime

(* The types, as a connection is closed. *)
LEMMA DisconnectType ==
  ASSUME TypeOK, NEW t \in Task, Disconnect(t) \/ TellDisconnected(t)
  PROVE  TypeOK'
<1>1. job[t] \in Using(t) /\ job[t].pc \in {"disconnect", "parted"}
      /\ job[t].conn \in Handle
  BY JobShape DEF Disconnect, TellDisconnected, At, Using
<1>2. \A ok \in BOOLEAN : [op |-> "disconnect", ok |-> ok] \in Result
  BY DEF Result
<1>3. CASE Disconnect(t)
  <2>1. connections' \subseteq 1..(nextToken - 1)
        /\ UNCHANGED <<streamVars, nextToken, paired, handles, made, results>>
    BY <1>3 DEF Disconnect, TypeOK
  <2>2. \E j \in JobOf(t) : Fits(j) /\ job' = [job EXCEPT ![t] = j]
    <3>1. CASE Goto(t, "parted")
      <4> DEFINE j == [job[t] EXCEPT !.pc = "parted"]
      <4>1. job' = [job EXCEPT ![t] = j]
        BY <3>1 DEF Goto
      <4>2. j \in Using(t) /\ j.pc = "parted"
        BY <1>1 DEF Using
      <4>3. Fits(j)
        BY <4>2 DEF Fits
      <4> QED BY <4>1, <4>2, <4>3 DEF JobOf
    <3>2. CASE Answer(t, [op |-> "disconnect", ok |-> FALSE])
      BY <1>1, <1>2, <3>2, AnswerJob
    <3> QED BY <1>3, <3>1, <3>2 DEF Disconnect
  <2> QED BY <2>1, <2>2, OneJob DEF TypeOK, streamVars
<1>4. CASE TellDisconnected(t)
  <2>1. job[t].conn.peer \in Device /\ job[t].conn.token \in Nat
    BY <1>1 DEF Handle
  <2> QED BY <1>1, <1>2, <1>4, <2>1, AnswerJob, EmitStep
          DEF TellDisconnected, Kinds, StepTime
<1> QED BY <1>3, <1>4

(* The types, as a transfer is checked and reads the clock. *)
LEMMA StartPushType ==
  ASSUME TypeOK, NEW t \in Task, CheckPush(t) \/ ReadStart(t)
  PROVE  TypeOK'
<1>1. CASE CheckPush(t)
  <2>1. job[t] \in Using(t) /\ job[t].pc = "push" /\ job[t].arg.op = "push"
    BY <1>1, JobShape DEF CheckPush, At, TypeOK, Fits
  <2>2. \E j \in JobOf(t) : Fits(j) /\ job' = [job EXCEPT ![t] = j]
    <3>1. CASE job[t].conn.token \in connections
      <4> DEFINE j == [pc |-> "push_start", call |-> job[t].call, arg |-> job[t].arg,
                       conn |-> job[t].conn, sent |-> 0, chunks |-> 0, start |-> 0]
      <4>1. job' = [job EXCEPT ![t] = j]
        BY <1>1, <3>1 DEF CheckPush
      <4>2. j \in Sending(t) /\ Fits(j)
        BY <2>1 DEF Using, Sending, Fits
      <4> QED BY <4>1, <4>2 DEF JobOf
    <3>2. CASE job[t].conn.token \notin connections
      <4>1. [op |-> "push_refused"] \in Result
        BY DEF Result
      <4> QED BY <1>1, <2>1, <3>2, <4>1, AnswerJob DEF CheckPush
    <3> QED BY <3>1, <3>2
  <2> QED BY <1>1, <2>2, QuietStep DEF CheckPush, TypeOK
<1>2. CASE ReadStart(t)
  <2>1. job[t] \in Sending(t) /\ job[t].pc = "push_start" /\ job[t].arg.op = "push"
        /\ clock \in Nat
    BY <1>2, JobShape DEF ReadStart, At, TypeOK, Fits
  <2> DEFINE j == [[job[t] EXCEPT !.start = clock] EXCEPT !.pc = "push_open"]
  <2>2. job' = [job EXCEPT ![t] = j]
    BY <1>2 DEF ReadStart, TypeOK
  <2>3. j \in Sending(t) /\ j.pc = "push_open" /\ j.arg = job[t].arg
    BY <2>1 DEF Sending
  <2>4. Fits(j)
    BY <2>1, <2>3 DEF Fits
  <2> HIDE DEF j
  <2> QED BY <1>2, <2>2, <2>3, <2>4, QuietStep DEF ReadStart, JobOf, TypeOK
<1> QED BY <1>1, <1>2

(* What a task that sends holds.                                           *)
LEMMA SendingFields ==
  ASSUME TypeOK, NEW t \in Task,
         job[t].pc \in {"push_start", "push_open", "chunk", "progress"}
  PROVE  /\ job[t] \in Sending(t) /\ job[t].arg.op = "push"
         /\ job[t].conn.peer \in Device /\ job[t].conn.token \in Nat \ {0}
         /\ job[t].arg.total \in Nat /\ job[t].sent \in Nat
         /\ job[t].chunks \in Nat /\ job[t].start \in Nat /\ job[t].call \in Nat
<1>1. job[t] \in Sending(t) /\ job[t].arg.op = "push"
  BY JobShape DEF TypeOK, Fits
<1> QED BY <1>1, CallsType, CallFields DEF Sending, Handle

(* A task that sends goes on sending.                                      *)
LEMMA SendingOn ==
  ASSUME TypeOK, NEW t \in Task,
         job[t].pc \in {"push_start", "push_open", "chunk", "progress"},
         NEW p \in {"chunk", "progress"}, NEW n \in Nat, NEW c \in Nat,
         NEW j, j = [job[t] EXCEPT !.pc = p]
                \/ j = [[[job[t] EXCEPT !.pc = p] EXCEPT !.sent = n] EXCEPT !.chunks = c]
  PROVE  j \in JobOf(t) /\ Fits(j)
<1>1. job[t] \in Sending(t) /\ job[t].arg.op = "push"
  BY SendingFields
<1>2. \A b \in Sending(t) : [b EXCEPT !.pc = p] \in Sending(t)
                            /\ [b EXCEPT !.pc = p].arg = b.arg
                            /\ [b EXCEPT !.pc = p].pc = p
  BY DEF Sending
<1>3. \A b \in Sending(t) : [b EXCEPT !.sent = n] \in Sending(t)
                            /\ [b EXCEPT !.sent = n].arg = b.arg
                            /\ [b EXCEPT !.sent = n].pc = b.pc
  BY DEF Sending
<1>4. \A b \in Sending(t) : [b EXCEPT !.chunks = c] \in Sending(t)
                            /\ [b EXCEPT !.chunks = c].arg = b.arg
                            /\ [b EXCEPT !.chunks = c].pc = b.pc
  BY DEF Sending
<1> DEFINE b == [job[t] EXCEPT !.pc = p]
           e == [b EXCEPT !.sent = n]
           f == [e EXCEPT !.chunks = c]
<1>5. j \in Sending(t) /\ j.arg.op = "push" /\ j.pc = p
  <2>1. b \in Sending(t) /\ b.arg.op = "push" /\ b.pc = p
    BY <1>1, <1>2
  <2>2. e \in Sending(t) /\ e.arg.op = "push" /\ e.pc = p
    <3> HIDE DEF b
    <3> QED BY <1>3, <2>1
  <2>3. f \in Sending(t) /\ f.arg.op = "push" /\ f.pc = p
    <3> HIDE DEF e
    <3> QED BY <1>4, <2>2
  <2>4. j = b \/ j = f
    OBVIOUS
  <2> HIDE DEF b, f
  <2> QED BY <2>1, <2>3, <2>4
<1>6. Fits(j)
  BY <1>5 DEF Fits
<1> QED BY <1>5, <1>6 DEF JobOf

(* The types, as a transfer opens, sends a chunk and tells of it. *)
LEMMA SendType ==
  ASSUME TypeOK, NEW t \in Task, OpenTransfer(t) \/ SendChunk(t) \/ TellProgress(t)
  PROVE  TypeOK'
<1>1. job[t].pc \in {"push_open", "chunk", "progress"}
  BY DEF OpenTransfer, SendChunk, TellProgress, At
<1>2. /\ job[t].conn.peer \in Device /\ job[t].conn.token \in Nat
      /\ job[t].arg.total \in Nat /\ job[t].sent \in Nat /\ job[t].chunks \in Nat
  BY <1>1, SendingFields
<1>3. CASE OpenTransfer(t) \/ TellProgress(t)
  <2>1. PICK p \in {"chunk", "progress"} : Goto(t, p)
    BY <1>3 DEF OpenTransfer, TellProgress
  <2> DEFINE j == [job[t] EXCEPT !.pc = p]
  <2>2. job' = [job EXCEPT ![t] = j]
    BY <2>1 DEF Goto
  <2>3. j \in JobOf(t) /\ Fits(j)
    BY <1>1, <1>2, SendingOn
  <2> HIDE DEF j
  <2> QED BY <1>1, <1>2, <1>3, <2>2, <2>3, EmitStep
          DEF OpenTransfer, TellProgress, PushEmit, Kinds, StepTime
<1>4. CASE SendChunk(t)
  <2>1. Piece(t) \in Nat /\ Latency[job[t].conn.peer] \in Nat
    BY <1>4, PieceType DEF SendChunk, At
  <2> DEFINE n == job[t].sent + Piece(t)
             c == job[t].chunks + 1
             j == [[[job[t] EXCEPT !.pc = "progress"] EXCEPT !.sent = n] EXCEPT !.chunks = c]
  <2>2. job' = [job EXCEPT ![t] = j]
    BY <1>4, <1>1, SendingFields DEF SendChunk, TypeOK, Sending
  <2>3. n \in Nat /\ c \in Nat
    BY <1>2, <2>1
  <2>4. j \in JobOf(t) /\ Fits(j)
    <3> HIDE DEF n, c
    <3> QED BY <1>1, <2>3, SendingOn
  <2> HIDE DEF j
  <2> QED BY <1>1, <1>2, <1>4, <2>1, <2>2, <2>4, EmitStep
          DEF SendChunk, PushEmit, Kinds
<1> QED BY <1>3, <1>4

(* What a transfer returns is a receipt. *)
LEMMA ReceiptType ==
  ASSUME TypeOK, NEW t \in Task, job[t].pc = "chunk",
         NEW ok \in BOOLEAN, NEW d \in Int
  PROVE  PushResult(t, ok, d) \in Receipt
BY SendingFields DEF PushResult, Receipt

(* The types, as a transfer ends. *)
LEMMA EndPushType ==
  ASSUME TypeOK, NEW t \in Task,
         TransferDrops(t) \/ ReadDuration(t) \/ CloseTransfer(t)
  PROVE  TypeOK'
<1>1. CASE TransferDrops(t)
  <2>1. job[t].pc = "chunk"
    BY <1>1 DEF TransferDrops, At
  <2>2. Limit(t) \in Nat
    BY <1>1, <2>1, PieceType DEF TransferDrops, LinkDrops
  <2>3. job[t].conn.peer \in Device /\ job[t].conn.token \in Nat
    BY <2>1, SendingFields
  <2>4. PushResult(t, FALSE, 0) \in Result
    <3>1. PushResult(t, FALSE, 0) \in Receipt
      BY <2>1, SendingFields DEF PushResult, Receipt
    <3> QED BY <3>1 DEF Result
  <2>5. PICK j \in JobOf(t) : Fits(j) /\ job' = [job EXCEPT ![t] = j]
    BY <1>1, <2>1, <2>4, AnswerJob DEF TransferDrops
  <2> QED BY <1>1, <2>1, <2>2, <2>3, <2>5, EmitStep
          DEF TransferDrops, PushEmit, Kinds, StepTime
<1>2. CASE ReadDuration(t)
  <2>1. job[t].pc = "chunk"
    BY <1>2 DEF ReadDuration, At
  <2>2. clock - job[t].start \in Int
    BY <2>1, SendingFields DEF TypeOK
  <2> DEFINE j == [pc |-> "push_close", call |-> job[t].call, conn |-> job[t].conn,
                   res |-> PushResult(t, TRUE, clock - job[t].start)]
  <2>3. job' = [job EXCEPT ![t] = j]
    BY <1>2 DEF ReadDuration
  <2>4. PushResult(t, TRUE, clock - job[t].start) \in Receipt
    BY <2>1, <2>2, ReceiptType
  <2>5. job[t].call \in Nat /\ job[t].conn \in Handle
    BY <2>1, SendingFields DEF Sending
  <2>6. j \in Closing
    BY <2>4, <2>5 DEF Closing
  <2>7. Fits(j)
    BY DEF Fits
  <2> HIDE DEF j
  <2> QED BY <1>2, <2>3, <2>6, <2>7, QuietStep DEF ReadDuration, TypeOK, JobOf
<1>3. CASE CloseTransfer(t)
  <2>1. job[t] \in Closing /\ job[t].pc = "push_close" /\ job[t].res \in Receipt
        /\ job[t].conn \in Handle
    BY <1>3, JobShape DEF CloseTransfer, At, Closing
  <2>2. job[t].conn.peer \in Device /\ job[t].conn.token \in Nat
        /\ job[t].res.bytes \in Nat /\ job[t].res \in Result
    BY <2>1 DEF Handle, Receipt, Result
  <2>3. PICK j \in JobOf(t) : Fits(j) /\ job' = [job EXCEPT ![t] = j]
    BY <1>3, <2>1, <2>2, AnswerJob DEF CloseTransfer
  <2> QED BY <1>3, <2>1, <2>2, <2>3, EmitStep
          DEF CloseTransfer, PushEmit, Kinds, StepTime
<1> QED BY <1>1, <1>2, <1>3

(* The types, as an observer is handed an event. *)
LEMMA DeliverType ==
  ASSUME TypeOK, NEW t \in Task, Deliver(t)
  PROVE  TypeOK'
BY DEF Deliver, Stream!Deliver, table, TypeOK

(* Every step keeps the types. *)
LEMMA TypeStep == TypeOK /\ [Next]_vars => TypeOK'
<1> SUFFICES ASSUME TypeOK, [Next]_vars PROVE TypeOK'
  OBVIOUS
<1>1. CASE UNCHANGED vars
  BY <1>1 DEF vars, streamVars, table, TypeOK
<1>2. ASSUME NEW t \in Task, Begin(t) \/ Moves(t) \/ Answers(t)
      PROVE  TypeOK'
  BY <1>2, BeginType, ReturnType, DeliverType, DiscoveryType, StartPairType,
     AcceptEndsType, PairingType, ConnectType, TellConnectedType,
     DisconnectType, StartPushType, SendType, EndPushType
     DEF Moves, Answers
<1> QED BY <1>1, <1>2 DEF Next

(* What each task holds fits the point of the call where it stands, and    *)
(* the table holds tokens that were handed out.                            *)
THEOREM TypeCorrect == Spec => []TypeOK
BY TypeInit, TypeStep, PTL DEF Spec

-----------------------------------------------------------------------------
(* The event stream. *)

(* The step and every scripted latency are ticks.                          *)
LEMMA TicksType ==
  /\ Ticks \subseteq Nat /\ {0, StepTime} \subseteq Ticks
  /\ \A d \in Device : Latency[d] \in Ticks
  /\ \A t \in Task : \A c \in Calls[t] : c.op = "accept" => c.window \in Ticks
<1>1. \A d \in Device : Latency[d] \in Range(Latency)
  BY MockAssumption DEF Range
<1>2. Range(Latency) \subseteq Nat
  BY MockAssumption DEF Range
<1>3. \A t \in Task : \A c \in Calls[t] : c \in UNION Range(Calls)
  BY MockAssumption DEF Range
<1>4. \A c \in UNION Range(Calls) : c \in Call
  BY MockAssumption DEF Range
<1>5. \A c \in UNION Range(Calls) : c.op = "accept" => c.window \in Nat
  BY <1>4, CallFields
<1> QED BY <1>1, <1>2, <1>3, <1>5 DEF Ticks, StepTime

(* What every step does to the stream.                                     *)
LEMMA StreamStep ==
  ASSUME TypeOK, [Next]_vars
  PROVE  [Stream!Step]_(Stream!streamVars)
<1>1. ASSUME NEW t \in Task, NEW kind, NEW d, NEW k, NEW n, NEW dt \in Ticks,
             Emit(t, kind, d, k, n, dt)
      PROVE  Stream!Step
  BY <1>1 DEF Emit, Stream!Step
<1>2. ASSUME NEW t \in Task, UNCHANGED streamVars
      PROVE  UNCHANGED Stream!streamVars
  BY <1>2 DEF streamVars, Stream!streamVars
<1>3. ASSUME NEW t \in Task, Begin(t) \/ Return(t) \/ Bond(t) \/ Cancel(t)
               \/ Connect(t) \/ Disconnect(t) \/ CheckPush(t) \/ ReadStart(t)
               \/ ReadDuration(t)
      PROVE  UNCHANGED Stream!streamVars
  BY <1>3 DEF Begin, Return, Bond, Cancel, Connect, Disconnect, CheckPush,
              ReadStart, ReadDuration, streamVars, Stream!streamVars
<1>4. ASSUME NEW t \in Task, StartDiscovery(t) \/ DiscoverNext(t) \/ StartPair(t)
               \/ AcceptNext(t) \/ PairingFails(t) \/ PairingCompletes(t)
               \/ TellConnected(t) \/ TellDisconnected(t) \/ OpenTransfer(t)
               \/ TransferDrops(t) \/ TellProgress(t) \/ CloseTransfer(t)
      PROVE  [Stream!Step]_(Stream!streamVars)
  <2>1. \/ UNCHANGED streamVars
        \/ \E kind, d, k, n : \E dt \in {0, StepTime} : Emit(t, kind, d, k, n, dt)
    BY <1>4 DEF StartDiscovery, DiscoverNext, StartPair, AcceptNext, PairingFails,
                PairingCompletes, TellConnected, TellDisconnected, OpenTransfer,
                TransferDrops, TellProgress, CloseTransfer, PushEmit
  <2> QED BY <1>1, <1>2, <2>1, TicksType
<1>5. ASSUME NEW t \in Task, SendChunk(t) PROVE Stream!Step
  BY <1>1, <1>5, PieceType, TicksType DEF SendChunk, At, PushEmit
<1>6. ASSUME NEW t \in Task, AcceptEnds(t) PROVE Stream!Step
  <2>1. job[t].arg.op = "accept" /\ job[t].arg \in Calls[t]
    BY <1>6, JobShape DEF AcceptEnds, At, TypeOK, Fits, Asking
  <2> QED BY <1>6, <2>1, TicksType DEF AcceptEnds, Stream!Step
<1>7. ASSUME NEW t \in Task, Deliver(t) PROVE Stream!Step
  BY <1>7 DEF Deliver, Stream!Step
<1>8. CASE UNCHANGED vars
  BY <1>8 DEF vars, streamVars, Stream!streamVars
<1> QED BY <1>3, <1>4, <1>5, <1>6, <1>7, <1>8 DEF Next, Moves, Answers

(* The mock stamps and delivers as EventStream promises, whatever calls    *)
(* its tasks make.                                                         *)
THEOREM StreamImplemented == Spec => Stream!Spec
<1>1. Init => Stream!Init
  BY DEF Init
<1> QED BY <1>1, StreamStep, TypeCorrect, PTL DEF Spec, Stream!Spec

(* The stream as its proofs know it.                                       *)
Log == INSTANCE EventStreamProofs WITH MaxEvents <- 0, MaxTime <- 0

(* So its log is complete: no event is lost or repeated.                   *)
THEOREM LogCorrect == Spec => []Log!StreamInv
<1>1. Log!StreamAssumption
  BY MockAssumption, TicksType
<1>2. Log!Spec => []Log!StreamInv
  BY <1>1, Log!StreamCorrect
<1>3. Stream!Spec => Log!Spec
  BY DEF Stream!Spec, Log!Spec, Stream!Init, Log!Init, Stream!Observers,
         Log!Observers, Stream!Step, Log!Step, Stream!streamVars, Log!streamVars,
         Stream!Stamp, Log!Stamp, Stream!Deliver, Log!Deliver, Stream!Advance,
         Log!Advance
<1> QED BY <1>2, <1>3, StreamImplemented, PTL

-----------------------------------------------------------------------------
(* What a step changes in the jobs. *)

StepOf(t) == Begin(t) \/ Moves(t) \/ Answers(t)

(* A step is one task's: the others' calls stay where they are. *)
LEMMA OthersWait ==
  ASSUME TypeOK, NEW t \in Task, StepOf(t)
  PROVE  \A u \in Task : u # t => job'[u] = job[u]
<1> USE DEF TypeOK, Goto, Answer, PairingOver
<1>1. ASSUME Begin(t) \/ Return(t) \/ Deliver(t) \/ StartDiscovery(t)
               \/ DiscoverNext(t) \/ StartPair(t) \/ AcceptNext(t) \/ AcceptEnds(t)
      PROVE  \A u \in Task : u # t => job'[u] = job[u]
  BY <1>1 DEF Begin, Return, Deliver, StartDiscovery, DiscoverNext, StartPair,
              AcceptNext, AcceptEnds
<1>2. ASSUME Answers(t) \/ PairingCompletes(t) \/ Connect(t) \/ TellConnected(t)
               \/ Disconnect(t) \/ TellDisconnected(t)
      PROVE  \A u \in Task : u # t => job'[u] = job[u]
  BY <1>2 DEF Answers, PairingFails, Bond, Cancel, PairingCompletes, Connect,
              TellConnected, Disconnect, TellDisconnected
<1>3. ASSUME CheckPush(t) \/ ReadStart(t) \/ OpenTransfer(t) \/ SendChunk(t)
               \/ TransferDrops(t) \/ TellProgress(t) \/ ReadDuration(t)
               \/ CloseTransfer(t)
      PROVE  \A u \in Task : u # t => job'[u] = job[u]
  BY <1>3 DEF CheckPush, ReadStart, OpenTransfer, SendChunk, TransferDrops,
              TellProgress, ReadDuration, CloseTransfer
<1> QED BY <1>1, <1>2, <1>3 DEF StepOf, Moves

(* Going to another point keeps what the task holds.                       *)
LEMMA GotoKeeps ==
  ASSUME TypeOK, NEW t \in Task, NEW p, Goto(t, p)
  PROVE  /\ job[t].pc # "idle" => job'[t].pc = p /\ job'[t].call = job[t].call
         /\ job[t] \in Asking(t) => job'[t].arg = job[t].arg /\ job'[t].i = job[t].i
                                    /\ job'[t].out = job[t].out
         /\ job[t] \in Using(t) => job'[t].arg = job[t].arg /\ job'[t].conn = job[t].conn
         /\ job[t] \in Sending(t) =>
              /\ job'[t].arg = job[t].arg /\ job'[t].conn = job[t].conn
              /\ job'[t].sent = job[t].sent /\ job'[t].chunks = job[t].chunks
              /\ job'[t].start = job[t].start
<1>1. job'[t] = [job[t] EXCEPT !.pc = p]
  BY DEF Goto, TypeOK
<1>2. job[t].pc # "idle" => job'[t].pc = p /\ job'[t].call = job[t].call
  <2>1. job[t].pc # "idle" => job[t] \in Asking(t) \union Using(t) \union Opening
                               \union Sending(t) \union Closing \union Returning
    BY DEF TypeOK, JobOf, Idle
  <2> QED BY <1>1, <2>1 DEF Asking, Using, Opening, Sending, Closing, Returning
<1>3. job[t] \in Asking(t) => job'[t].arg = job[t].arg /\ job'[t].i = job[t].i
                              /\ job'[t].out = job[t].out
  BY <1>1 DEF Asking
<1>4. job[t] \in Using(t) => job'[t].arg = job[t].arg /\ job'[t].conn = job[t].conn
  BY <1>1 DEF Using
<1>5. job[t] \in Sending(t) =>
              /\ job'[t].arg = job[t].arg /\ job'[t].conn = job[t].conn
              /\ job'[t].sent = job[t].sent /\ job'[t].chunks = job[t].chunks
              /\ job'[t].start = job[t].start
  BY <1>1 DEF Sending
<1> QED BY <1>2, <1>3, <1>4, <1>5

(* An answer puts its task where it returns it. *)
LEMMA AnswerReturns ==
  ASSUME TypeOK, NEW t \in Task, NEW r, Answer(t, r)
  PROVE  job'[t] = [pc |-> "return", call |-> job[t].call, res |-> r]
BY DEF Answer, TypeOK

(* Where each step leads.                                                  *)
LEMMA WhereNext ==
  ASSUME TypeOK, NEW t \in Task
  PROVE  /\ Begin(t) => job[t].pc = "idle" /\ job'[t].pc \in
              {"discover", "pair", "connect", "accept", "disconnect", "push"}
         /\ Return(t) => job[t].pc = "return" /\ job'[t] = Idle
         /\ Deliver(t) => job' = job
         /\ StartDiscovery(t) => job[t].pc = "discover" /\ job'[t].pc = "scan"
         /\ DiscoverNext(t) => job[t].pc = "scan" /\ job'[t].pc \in {"scan", "return"}
         /\ StartPair(t) => job[t].pc = "pair" /\ job'[t].pc \in {"ask", "return"}
         /\ AcceptNext(t) => job[t].pc = "accept" /\ job'[t].pc = "ask"
         /\ AcceptEnds(t) => job[t].pc = "accept" /\ job'[t].pc = "return"
         /\ PairingFails(t) => job[t].pc = "ask" /\ job'[t].pc \in {"accept", "return"}
         /\ Bond(t) => job[t].pc = "ask" /\ job'[t].pc = "bonded"
         /\ Cancel(t) => job[t].pc = "ask" /\ job'[t] = Idle
         /\ PairingCompletes(t) =>
              job[t].pc = "bonded" /\ job'[t].pc \in {"accept", "return"}
         /\ Connect(t) => job[t].pc = "connect" /\ job'[t].pc \in {"connected", "return"}
         /\ TellConnected(t) => job[t].pc = "connected" /\ job'[t].pc = "return"
         /\ Disconnect(t) => job[t].pc = "disconnect" /\ job'[t].pc \in {"parted", "return"}
         /\ TellDisconnected(t) => job[t].pc = "parted" /\ job'[t].pc = "return"
         /\ CheckPush(t) => job[t].pc = "push" /\ job'[t].pc \in {"push_start", "return"}
         /\ ReadStart(t) => job[t].pc = "push_start" /\ job'[t].pc = "push_open"
         /\ OpenTransfer(t) => job[t].pc = "push_open" /\ job'[t].pc = "chunk"
         /\ SendChunk(t) => job[t].pc = "chunk" /\ job'[t].pc = "progress"
         /\ TransferDrops(t) => job[t].pc = "chunk" /\ job'[t].pc = "return"
         /\ TellProgress(t) => job[t].pc = "progress" /\ job'[t].pc = "chunk"
         /\ ReadDuration(t) => job[t].pc = "chunk" /\ job'[t].pc = "push_close"
         /\ CloseTransfer(t) => job[t].pc = "push_close" /\ job'[t].pc = "return"
<1>0. \A r : Answer(t, r) => job'[t].pc = "return"
  BY DEF Answer, TypeOK
<1>1. Begin(t) => job[t].pc = "idle" /\ job'[t].pc \in
        {"discover", "pair", "connect", "accept", "disconnect", "push"}
  BY DEF Begin, At, TypeOK
<1>2. /\ Return(t) => job[t].pc = "return" /\ job'[t] = Idle
      /\ Deliver(t) => job' = job
      /\ Cancel(t) => job[t].pc = "ask" /\ job'[t] = Idle
  BY DEF Return, Deliver, Cancel, At, TypeOK
<1>3. DiscoverNext(t) => job[t].pc = "scan" /\ job'[t].pc \in {"scan", "return"}
  <2>1. DiscoverNext(t) => job[t].pc = "scan" /\ job[t] \in Asking(t)
    BY JobShape DEF DiscoverNext, At
  <2>2. ASSUME NEW k, job' = [job EXCEPT ![t].i = k + 1, ![t].out = Append(@, Scripted[k])],
               job[t].pc = "scan", job[t] \in Asking(t)
        PROVE  job'[t].pc = "scan"
    BY <2>2 DEF TypeOK, Asking
  <2> QED BY <1>0, <2>1, <2>2 DEF DiscoverNext
<1>4. /\ PairingFails(t) => job[t].pc = "ask" /\ job'[t].pc \in {"accept", "return"}
      /\ PairingCompletes(t) =>
              job[t].pc = "bonded" /\ job'[t].pc \in {"accept", "return"}
  <2>1. ASSUME job[t].pc \in {"ask", "bonded"}, NEW ok \in BOOLEAN, PairingOver(t, ok)
        PROVE  job'[t].pc \in {"accept", "return"}
    <3>1. PICK j : job' = [job EXCEPT ![t] = j] /\ j.pc \in {"accept", "return"}
      BY <2>1, OverType
    <3> QED BY <3>1 DEF TypeOK
  <2> QED BY <2>1 DEF PairingFails, PairingCompletes, At
<1>5. /\ StartDiscovery(t) => job[t].pc = "discover" /\ job'[t].pc = "scan"
      /\ StartPair(t) => job[t].pc = "pair" /\ job'[t].pc \in {"ask", "return"}
      /\ AcceptNext(t) => job[t].pc = "accept" /\ job'[t].pc = "ask"
      /\ AcceptEnds(t) => job[t].pc = "accept" /\ job'[t].pc = "return"
      /\ Bond(t) => job[t].pc = "ask" /\ job'[t].pc = "bonded"
  BY <1>0, GotoKeeps DEF StartDiscovery, StartPair, AcceptNext, AcceptEnds, Bond, At
<1>6. Connect(t) => job[t].pc = "connect" /\ job'[t].pc \in {"connected", "return"}
  BY <1>0 DEF Connect, At, TypeOK
<1>7. /\ TellConnected(t) => job[t].pc = "connected" /\ job'[t].pc = "return"
      /\ Disconnect(t) => job[t].pc = "disconnect" /\ job'[t].pc \in {"parted", "return"}
      /\ TellDisconnected(t) => job[t].pc = "parted" /\ job'[t].pc = "return"
      /\ OpenTransfer(t) => job[t].pc = "push_open" /\ job'[t].pc = "chunk"
      /\ TransferDrops(t) => job[t].pc = "chunk" /\ job'[t].pc = "return"
      /\ TellProgress(t) => job[t].pc = "progress" /\ job'[t].pc = "chunk"
      /\ CloseTransfer(t) => job[t].pc = "push_close" /\ job'[t].pc = "return"
  BY <1>0, GotoKeeps DEF TellConnected, Disconnect, TellDisconnected, OpenTransfer,
     TransferDrops, TellProgress, CloseTransfer, At
<1>8. CheckPush(t) => job[t].pc = "push" /\ job'[t].pc \in {"push_start", "return"}
  BY <1>0 DEF CheckPush, At, TypeOK
<1>9. ReadDuration(t) => job[t].pc = "chunk" /\ job'[t].pc = "push_close"
  BY DEF ReadDuration, At, TypeOK
<1>10. /\ ReadStart(t) => job[t].pc = "push_start" /\ job'[t].pc = "push_open"
       /\ SendChunk(t) => job[t].pc = "chunk" /\ job'[t].pc = "progress"
  <2>1. ReadStart(t) \/ SendChunk(t) => job[t] \in Sending(t)
    BY SendingFields DEF ReadStart, SendChunk, At
  <2> QED BY <2>1 DEF ReadStart, SendChunk, At, TypeOK, Sending
<1> QED BY <1>1, <1>2, <1>3, <1>4, <1>5, <1>6, <1>7, <1>8, <1>9, <1>10

(* Task t emits an event, the last of said'.                               *)
Adds(t) ==
  /\ due[t] = 0 /\ due' = [due EXCEPT ![t] = 1]
  /\ held' = [held EXCEPT ![t] = [seq |-> seq, at |-> clock, by |-> t]]
  /\ log' = log
  /\ seq' = seq + 1
  /\ said' \in Seq(Said) /\ Len(said') = seq'
  /\ \A m \in 1..seq : said'[m] = said[m]
  /\ said'[seq + 1].call = job[t].call

Silent == UNCHANGED <<seq, said, held, due, log>>

(* An emission says one thing more, what it was asked to say. *)
LEMMA EmitAdds ==
  ASSUME TypeOK, NEW t \in Task, job[t].pc # "idle", NEW kind \in Kinds,
         NEW d \in Device \union {NoPeer}, NEW k \in Nat, NEW n \in Nat,
         NEW dt \in Nat, Emit(t, kind, d, k, n, dt)
  PROVE  /\ Adds(t)
         /\ said'[seq + 1].kind = kind /\ said'[seq + 1].peer = d
         /\ said'[seq + 1].token = k /\ said'[seq + 1].n = n
<1> DEFINE e == [kind |-> kind, peer |-> d, token |-> k,
                 call |-> job[t].call, n |-> n]
<1>1. e \in Said
  BY JobShape DEF Said
<1>2. said \in Seq(Said) /\ said' = Append(said, e) /\ Len(said) = seq
  BY DEF Emit, TypeOK
<1>3. said' \in Seq(Said) /\ Len(said') = seq + 1 /\ said'[seq + 1] = e
      /\ \A m \in 1..seq : said'[m] = said[m]
  BY <1>1, <1>2, AppendProperties
<1>4. /\ due[t] = 0 /\ due' = [due EXCEPT ![t] = 1]
      /\ held' = [held EXCEPT ![t] = [seq |-> seq, at |-> clock, by |-> t]]
      /\ log' = log /\ seq' = seq + 1
  BY DEF Emit, Stream!Stamp
<1>5. e.kind = kind /\ e.peer = d /\ e.token = k /\ e.n = n /\ e.call = job[t].call
  OBVIOUS
<1> HIDE DEF e
<1> QED BY <1>3, <1>4, <1>5 DEF Adds

(* What each step says, and of which connection.                           *)
LEMMA Emissions ==
  ASSUME TypeOK, NEW t \in Task
  PROVE  /\ Begin(t) \/ Return(t) \/ AcceptEnds(t) \/ Bond(t) \/ Cancel(t)
              \/ Connect(t) \/ Disconnect(t) \/ CheckPush(t) \/ ReadStart(t)
              \/ ReadDuration(t) => Silent
         /\ StartDiscovery(t) \/ DiscoverNext(t) \/ StartPair(t) \/ AcceptNext(t)
              \/ PairingFails(t) =>
              \/ Silent
              \/ /\ Adds(t) /\ said'[seq + 1].token = 0
                 /\ said'[seq + 1].kind \in {"discovery_started", "device_discovered",
                                             "pairing_started", "pairing_failed"}
         /\ PairingCompletes(t) =>
              /\ Adds(t) /\ said'[seq + 1].token = 0
              /\ said'[seq + 1].kind = "pairing_completed"
              /\ said'[seq + 1].peer = Peer(t)
         /\ TellConnected(t) =>
              /\ Adds(t) /\ said'[seq + 1].token = job[t].conn.token
              /\ said'[seq + 1].kind = "connected"
         /\ TellDisconnected(t) =>
              /\ Adds(t) /\ said'[seq + 1].token = job[t].conn.token
              /\ said'[seq + 1].kind = "disconnected"
         /\ OpenTransfer(t) \/ TellProgress(t) \/ TransferDrops(t) \/ CloseTransfer(t) =>
              /\ Adds(t) /\ said'[seq + 1].token = job[t].conn.token
         /\ OpenTransfer(t) => said'[seq + 1].kind = "transfer_started"
         /\ TellProgress(t) => said'[seq + 1].kind = "transfer_progress"
         /\ TransferDrops(t) => said'[seq + 1].kind = "error"
         /\ CloseTransfer(t) => said'[seq + 1].kind = "transfer_completed"
         /\ SendChunk(t) =>
              /\ Adds(t) /\ said'[seq + 1].token = job[t].conn.token
              /\ said'[seq + 1].kind = "data_chunk" /\ said'[seq + 1].n = Piece(t)
<1> USE DEF Kinds, StepTime
<1>1. Begin(t) \/ Return(t) \/ AcceptEnds(t) \/ Bond(t) \/ Cancel(t)
        \/ Connect(t) \/ Disconnect(t) \/ CheckPush(t) \/ ReadStart(t)
        \/ ReadDuration(t) => Silent
  BY DEF Begin, Return, AcceptEnds, Stream!Advance, Bond, Cancel, Connect, Disconnect,
         CheckPush, ReadStart, ReadDuration, streamVars, Silent
<1>2. StartDiscovery(t) \/ DiscoverNext(t) \/ StartPair(t) \/ AcceptNext(t)
        \/ PairingFails(t) =>
        \/ Silent
        \/ \E kind \in {"discovery_started", "device_discovered", "pairing_started",
                        "pairing_failed"} :
             \E d \in Device \union {NoPeer} : Emit(t, kind, d, 0, 0, StepTime)
  <2>1. DiscoverNext(t) => job[t] \in Asking(t)
    BY JobShape DEF DiscoverNext, At
  <2>2. DiscoverNext(t) => \A k \in job[t].i..Len(Scripted) : Scripted[k] \in Device
    BY <2>1, MockAssumption DEF Asking
  <2>3. AcceptNext(t) => Peer(t) \in Device
    <3>1. AcceptNext(t) => job[t] \in Asking(t) /\ job[t].arg.op = "accept"
      BY JobShape DEF AcceptNext, At, TypeOK, Fits
    <3> QED BY <3>1, MockAssumption DEF AcceptNext, Peer, Inbound, TakesMore, Asking
  <2>4. StartPair(t) \/ PairingFails(t) => Peer(t) \in Device
    BY PeerType DEF StartPair, PairingFails, At
  <2>5. DiscoverNext(t) => Silent \/ \E k \in job[t].i..Len(Scripted) :
                                       Emit(t, "device_discovered", Scripted[k], 0, 0, StepTime)
    BY DEF DiscoverNext, streamVars, Silent
  <2>6. StartDiscovery(t) => Emit(t, "discovery_started", NoPeer, 0, 0, StepTime)
    BY DEF StartDiscovery
  <2>7. StartPair(t) => Silent \/ Emit(t, "pairing_started", Peer(t), 0, 0, StepTime)
    BY DEF StartPair, streamVars, Silent
  <2>8. /\ AcceptNext(t) => Emit(t, "pairing_started", Peer(t), 0, 0, StepTime)
        /\ PairingFails(t) => Emit(t, "pairing_failed", Peer(t), 0, 0, StepTime)
    BY DEF AcceptNext, PairingFails
  <2> QED BY <2>2, <2>3, <2>4, <2>5, <2>6, <2>7, <2>8
<1>3. StartDiscovery(t) \/ DiscoverNext(t) \/ StartPair(t) \/ AcceptNext(t)
        \/ PairingFails(t) => job[t].pc # "idle"
  BY WhereNext
<1>4. StartDiscovery(t) \/ DiscoverNext(t) \/ StartPair(t) \/ AcceptNext(t)
        \/ PairingFails(t) =>
        \/ Silent
        \/ /\ Adds(t) /\ said'[seq + 1].token = 0
           /\ said'[seq + 1].kind \in {"discovery_started", "device_discovered",
                                       "pairing_started", "pairing_failed"}
  <2>1. ASSUME NEW kind \in {"discovery_started", "device_discovered",
                             "pairing_started", "pairing_failed"},
               NEW d \in Device \union {NoPeer}, Emit(t, kind, d, 0, 0, StepTime),
               job[t].pc # "idle"
        PROVE  Adds(t) /\ said'[seq + 1].token = 0 /\ said'[seq + 1].kind = kind
    <3>1. kind \in Kinds /\ 0 \in Nat /\ StepTime \in Nat
      OBVIOUS
    <3> HIDE DEF Kinds, StepTime
    <3> QED BY <2>1, <3>1, EmitAdds
  <2> QED BY <1>2, <1>3, <2>1
<1>5. PairingCompletes(t) =>
        /\ Adds(t) /\ said'[seq + 1].token = 0
        /\ said'[seq + 1].kind = "pairing_completed"
        /\ said'[seq + 1].peer = Peer(t)
  BY EmitAdds, PeerType DEF PairingCompletes, At
<1>6. TellConnected(t) =>
        /\ Adds(t) /\ said'[seq + 1].token = job[t].conn.token
        /\ said'[seq + 1].kind = "connected"
  <2>1. TellConnected(t) => /\ job[t].pc # "idle"
                            /\ job[t].conn.peer \in Device /\ job[t].conn.token \in Nat
    BY JobShape DEF TellConnected, At, Opening, Handle
  <2> QED BY <2>1, EmitAdds DEF TellConnected
<1>7. TellDisconnected(t) =>
        /\ Adds(t) /\ said'[seq + 1].token = job[t].conn.token
        /\ said'[seq + 1].kind = "disconnected"
  <2>1. TellDisconnected(t) => /\ job[t].pc # "idle"
                               /\ job[t].conn.peer \in Device /\ job[t].conn.token \in Nat
    BY JobShape DEF TellDisconnected, At, Using, Handle
  <2> QED BY <2>1, EmitAdds DEF TellDisconnected
<1>8. job[t].pc \in {"push_open", "chunk", "progress", "push_close"} =>
        /\ job[t].conn.peer \in Device /\ job[t].conn.token \in Nat
        /\ job[t].pc # "idle"
  BY SendingFields, JobShape DEF Closing, Handle
<1>9. OpenTransfer(t) => /\ Adds(t) /\ said'[seq + 1].token = job[t].conn.token
                         /\ said'[seq + 1].kind = "transfer_started"
  BY <1>8, SendingFields, EmitAdds DEF OpenTransfer, At, PushEmit
<1>10. TellProgress(t) => /\ Adds(t) /\ said'[seq + 1].token = job[t].conn.token
                          /\ said'[seq + 1].kind = "transfer_progress"
  BY <1>8, SendingFields, EmitAdds DEF TellProgress, At, PushEmit
<1>11. TransferDrops(t) => /\ Adds(t) /\ said'[seq + 1].token = job[t].conn.token
                           /\ said'[seq + 1].kind = "error"
  <2>1. TransferDrops(t) => Limit(t) \in Nat
    BY PieceType DEF TransferDrops, At, LinkDrops
  <2> QED BY <1>8, <2>1, EmitAdds DEF TransferDrops, At, PushEmit
<1>12. CloseTransfer(t) => /\ Adds(t) /\ said'[seq + 1].token = job[t].conn.token
                           /\ said'[seq + 1].kind = "transfer_completed"
  <2>1. CloseTransfer(t) => job[t].res.bytes \in Nat
    BY JobShape DEF CloseTransfer, At, Closing, Receipt
  <2> QED BY <1>8, <2>1, EmitAdds DEF CloseTransfer, At, PushEmit
<1>13. SendChunk(t) =>
         /\ Adds(t) /\ said'[seq + 1].token = job[t].conn.token
         /\ said'[seq + 1].kind = "data_chunk" /\ said'[seq + 1].n = Piece(t)
  <2>1. SendChunk(t) => Piece(t) \in Nat /\ Latency[job[t].conn.peer] \in Nat
    BY PieceType DEF SendChunk, At
  <2> QED BY <1>8, <2>1, EmitAdds DEF SendChunk, At, PushEmit
<1> QED BY <1>1, <1>4, <1>5, <1>6, <1>7, <1>9, <1>10, <1>11, <1>12, <1>13

-----------------------------------------------------------------------------
(* Bonds. *)

Completed(n) == said[n].kind = "pairing_completed"

(* A bond is in the table from the step that makes it, before it is told.  *)
BondInv ==
  /\ \A n \in 1..seq : Completed(n) => said[n].peer \in paired
  /\ \A t \in Task : job[t].pc = "bonded" => Peer(t) \in paired
  /\ \A d \in paired : \/ \E n \in 1..seq : Completed(n) /\ said[n].peer = d
                       \/ \E t \in Task : job[t].pc = "bonded" /\ Peer(t) = d

(* Bonds stay accounted for where none is made or announced. *)
LEMMA BondKept ==
  ASSUME TypeOK, BondInv, NEW t \in Task, paired' = paired,
         \A u \in Task : u # t => job'[u] = job[u],
         job[t].pc # "bonded", job'[t].pc # "bonded",
         \/ Silent
         \/ Adds(t) /\ said'[seq + 1].kind # "pairing_completed"
  PROVE  BondInv'
<1>1. \A u \in Task : /\ job'[u].pc = "bonded" <=> job[u].pc = "bonded"
                      /\ job[u].pc = "bonded" => Peer(u)' = Peer(u)
  BY DEF Peer, Inbound
<1>2. seq \in Nat /\ \A n \in 1..seq : Completed(n)' <=> Completed(n)
  BY DEF Silent, Adds, Completed, TypeOK
<1>3. \A n \in 1..seq : said'[n] = said[n]
  BY DEF Silent, Adds
<1>4. \A n \in 1..seq' : n \in 1..seq \/ ~Completed(n)'
  BY <1>2 DEF Silent, Adds, Completed
<1>5. seq' = seq \/ seq' = seq + 1
  BY DEF Silent, Adds
<1> QED BY <1>1, <1>2, <1>3, <1>4, <1>5 DEF BondInv

(* Every step keeps the bonds accounted for. *)
LEMMA BondStep ==
  ASSUME TypeOK, BondInv, [Next]_vars
  PROVE  BondInv'
<1>1. ASSUME NEW t \in Task, Bond(t)
      PROVE  BondInv'
  <2>1. job[t] \in Asking(t) /\ job[t].pc = "ask"
    BY <1>1, JobShape DEF Bond, At
  <2>2. job'[t].pc = "bonded" /\ Peer(t)' = Peer(t)
    BY <1>1, <2>1, GotoKeeps DEF Bond, Peer, Inbound
  <2>3. \A u \in Task : u # t => job'[u] = job[u] /\ Peer(u)' = Peer(u)
    BY <1>1, OthersWait DEF StepOf, Answers, Peer, Inbound
  <2>4. paired' = paired \union {Peer(t)} /\ seq' = seq /\ said' = said
    BY <1>1 DEF Bond, streamVars
  <2>5. \A n \in 1..seq : Completed(n)' <=> Completed(n)
    BY <2>4 DEF Completed
  <2>6. \A u \in Task : job[u].pc = "bonded" => u # t
    BY <2>1
  <2> QED BY <2>2, <2>3, <2>4, <2>5, <2>6 DEF BondInv
<1>2. ASSUME NEW t \in Task, PairingCompletes(t)
      PROVE  BondInv'
  <2>1. job[t].pc = "bonded" /\ job'[t].pc # "bonded" /\ paired' = paired
    BY <1>2, WhereNext DEF PairingCompletes, table
  <2>2. Adds(t) /\ said'[seq + 1].kind = "pairing_completed"
        /\ said'[seq + 1].peer = Peer(t)
    BY <1>2, Emissions
  <2>3. \A u \in Task : u # t => job'[u] = job[u] /\ Peer(u)' = Peer(u)
    BY <1>2, OthersWait DEF StepOf, Moves, Peer, Inbound
  <2>4. seq \in Nat /\ seq' = seq + 1 /\ \A n \in 1..seq : said'[n] = said[n]
    BY <2>2 DEF Adds, TypeOK
  <2>5. /\ \A n \in 1..seq : Completed(n)' <=> Completed(n)
        /\ \A n \in 1..seq' : n = seq + 1 => Completed(n)'
    BY <2>2, <2>4 DEF Completed
  <2>6. \A n \in 1..seq' : n \in 1..seq \/ n = seq + 1
    BY <2>4
  <2>7. \A n \in 1..seq' : Completed(n)' => said'[n].peer \in paired
    BY <2>1, <2>2, <2>4, <2>5, <2>6 DEF BondInv
  <2>8. \A u \in Task : job'[u].pc = "bonded" => Peer(u)' \in paired
    BY <2>1, <2>3 DEF BondInv
  <2>9. \A d \in paired : \/ \E n \in 1..seq' : Completed(n)' /\ said'[n].peer = d
                          \/ \E u \in Task : job'[u].pc = "bonded" /\ Peer(u)' = d
    <3> SUFFICES ASSUME NEW d \in paired
                 PROVE  \/ \E n \in 1..seq' : Completed(n)' /\ said'[n].peer = d
                        \/ \E u \in Task : job'[u].pc = "bonded" /\ Peer(u)' = d
      OBVIOUS
    <3>1. CASE \E n \in 1..seq : Completed(n) /\ said[n].peer = d
      BY <2>4, <2>5, <3>1
    <3>2. CASE d = Peer(t)
      <4>1. seq + 1 \in 1..seq'
        BY <2>4
      <4> QED BY <2>2, <2>5, <3>2, <4>1
    <3>3. CASE \E u \in Task : u # t /\ job[u].pc = "bonded" /\ Peer(u) = d
      <4>1. PICK u \in Task : u # t /\ job[u].pc = "bonded" /\ Peer(u) = d
        BY <3>3
      <4>2. job'[u].pc = "bonded" /\ Peer(u)' = d
        BY <2>3, <4>1
      <4> QED BY <4>2
    <3> QED BY <3>1, <3>2, <3>3 DEF BondInv
  <2> QED BY <2>1, <2>7, <2>8, <2>9 DEF BondInv
<1>3. ASSUME NEW t \in Task, StepOf(t), ~Bond(t), ~PairingCompletes(t), ~Deliver(t)
      PROVE  BondInv'
  <2>1. job[t].pc # "bonded" /\ job'[t].pc # "bonded"
    <3>1. Idle.pc = "idle"
      BY DEF Idle
    <3> QED BY <1>3, <3>1, WhereNext DEF StepOf, Moves, Answers
  <2>2. Silent \/ (Adds(t) /\ said'[seq + 1].kind # "pairing_completed")
    BY <1>3, Emissions DEF StepOf, Moves, Answers
  <2>3. paired' = paired
    BY <1>3 DEF StepOf, Moves, Answers, table, Begin, Return, StartDiscovery,
       DiscoverNext, StartPair, AcceptNext, AcceptEnds, PairingFails, Cancel,
       Connect, TellConnected, Disconnect, TellDisconnected, CheckPush, ReadStart,
       OpenTransfer, SendChunk, TransferDrops, TellProgress, ReadDuration, CloseTransfer
  <2> QED BY <1>3, <2>1, <2>2, <2>3, OthersWait, BondKept
<1>4. ASSUME UNCHANGED <<seq, said, paired, job>>
      PROVE  BondInv'
  BY <1>4 DEF BondInv, Completed, Peer, Inbound
<1>5. ASSUME NEW t \in Task, Deliver(t)
      PROVE  BondInv'
  BY <1>4, <1>5 DEF Deliver, Stream!Deliver, table
<1>6. CASE UNCHANGED vars
  BY <1>4, <1>6 DEF vars, streamVars, table
<1> QED BY <1>1, <1>2, <1>3, <1>5, <1>6 DEF Next, StepOf

(* A device that an event says was paired is in the table; one in the      *)
(* table has been announced, or is about to be.                            *)
THEOREM BondsCorrect == Spec => []BondsAnnounced
<1>1. Init => BondInv
  BY DEF Init, Stream!Init, Idle, BondInv
<1>2. TypeOK /\ BondInv => BondsAnnounced
  <2> SUFFICES ASSUME TypeOK, BondInv PROVE BondsAnnounced
    OBVIOUS
  <2>1. Range(said) = {said[n] : n \in 1..seq}
    BY LenProperties DEF TypeOK, Range
  <2> DEFINE announced == {e.peer : e \in {f \in Range(said) :
                                             f.kind = "pairing_completed"}}
             waiting == {Peer(t) : t \in {u \in Task : job[u].pc = "bonded"}}
  <2>2. announced \subseteq paired
    BY <2>1 DEF BondInv, Completed
  <2>3. paired \subseteq announced \union waiting
    BY <2>1 DEF BondInv, Completed
  <2> QED BY <2>2, <2>3 DEF BondsAnnounced
<1> QED BY <1>1, <1>2, BondStep, TypeCorrect, PTL DEF Spec

-----------------------------------------------------------------------------
(* What calls return. *)

(* Which steps return what.                                                *)
LEMMA Outcomes ==
  ASSUME TypeOK, NEW t \in Task, StepOf(t), ~Deliver(t), job'[t].pc = "return"
  PROVE  /\ job'[t].res.op = "discover" => DiscoverNext(t)
         /\ job'[t].res.op = "push" => TransferDrops(t) \/ CloseTransfer(t)
         /\ job'[t].res.op = "connect" /\ job'[t].res.ok => TellConnected(t)
<1>0. \A r : Answer(t, r) => job'[t].res = r
  BY DEF Answer, TypeOK
<1>1. Idle.pc = "idle"
  BY DEF Idle
<1>2. \/ DiscoverNext(t) \/ StartPair(t) \/ AcceptEnds(t) \/ PairingFails(t)
      \/ PairingCompletes(t) \/ Connect(t) \/ TellConnected(t) \/ Disconnect(t)
      \/ TellDisconnected(t) \/ CheckPush(t) \/ TransferDrops(t) \/ CloseTransfer(t)
  BY <1>1, WhereNext DEF StepOf, Moves, Answers
<1>3. ASSUME StartPair(t)
      PROVE  job'[t].res.op = "pair"
  <2>1. CASE Answer(t, [op |-> "pair", peer |-> Peer(t), ok |-> FALSE])
    BY <1>0, <2>1
  <2>2. CASE Goto(t, "ask")
    BY <1>3, <2>2, GotoKeeps DEF StartPair, At
  <2> QED BY <1>3, <2>1, <2>2 DEF StartPair
<1>4. ASSUME AcceptEnds(t)
      PROVE  job'[t].res.op = "accept"
  <2>1. Answer(t, [op |-> "accept", arg |-> job[t].arg, out |-> job[t].out,
                   tried |-> job[t].i - 1])
    BY <1>4 DEF AcceptEnds
  <2> QED BY <1>0, <2>1
<1>5. ASSUME PairingFails(t) \/ PairingCompletes(t)
      PROVE  job'[t].res.op = "pair"
  <2>1. PICK ok \in BOOLEAN : PairingOver(t, ok)
    BY <1>5 DEF PairingFails, PairingCompletes
  <2>2. job[t].pc \in {"ask", "bonded"}
    BY <1>5 DEF PairingFails, PairingCompletes, At
  <2>3. job[t] \in Asking(t)
    BY <2>2, JobShape
  <2>4. CASE Inbound(t)
    <3> DEFINE j == [job[t] EXCEPT !.pc = "accept", !.i = @ + 1,
                                   !.out = IF ok THEN Append(@, Peer(t)) ELSE @]
    <3>1. job' = [job EXCEPT ![t] = j]
      BY <2>1, <2>4 DEF PairingOver
    <3>2. j.pc = "accept"
      BY <2>3 DEF Asking
    <3> HIDE DEF j
    <3> QED BY <3>1, <3>2 DEF TypeOK
  <2>5. CASE Answer(t, [op |-> "pair", peer |-> Peer(t), ok |-> ok])
    BY <1>0, <2>5
  <2> QED BY <2>1, <2>4, <2>5 DEF PairingOver
<1>6. ASSUME Connect(t)
      PROVE  job'[t].res.op = "connect" /\ ~job'[t].res.ok
  <2>1. CASE Answer(t, [op |-> "connect", ok |-> FALSE])
    BY <1>0, <2>1
  <2>2. CASE job[t].arg.peer \in Known
    <3>1. job'[t].pc = "connected"
      BY <1>6, <2>2 DEF Connect, TypeOK
    <3> QED BY <3>1
  <2> QED BY <1>6, <2>1, <2>2 DEF Connect
<1>7. ASSUME Disconnect(t) \/ TellDisconnected(t)
      PROVE  job'[t].res.op = "disconnect"
  <2>1. ASSUME NEW ok \in BOOLEAN, Answer(t, [op |-> "disconnect", ok |-> ok])
        PROVE  job'[t].res.op = "disconnect"
    BY <1>0, <2>1
  <2>2. CASE Goto(t, "parted")
    BY <1>7, <2>2, GotoKeeps DEF Disconnect, TellDisconnected, At
  <2> QED BY <1>7, <2>1, <2>2 DEF Disconnect, TellDisconnected
<1>8. ASSUME CheckPush(t)
      PROVE  job'[t].res.op = "push_refused"
  <2>1. CASE Answer(t, [op |-> "push_refused"])
    BY <1>0, <2>1
  <2>2. CASE job[t].conn.token \in connections
    <3>1. job'[t].pc = "push_start"
      BY <1>8, <2>2 DEF CheckPush, TypeOK
    <3> QED BY <3>1
  <2> QED BY <1>8, <2>1, <2>2 DEF CheckPush
<1>9. ASSUME DiscoverNext(t)
      PROVE  job'[t].res.op = "discover"
  <2>1. CASE Answer(t, [op |-> "discover", arg |-> job[t].arg, out |-> job[t].out])
    BY <1>0, <2>1
  <2>2. ASSUME NEW k, job' = [job EXCEPT ![t].i = k + 1, ![t].out = Append(@, Scripted[k])]
        PROVE  FALSE
    <3>1. job[t] \in Asking(t) /\ job[t].pc = "scan"
      BY <1>9, JobShape DEF DiscoverNext, At
    <3> QED BY <2>2, <3>1 DEF TypeOK, Asking
  <2> QED BY <1>9, <2>1, <2>2 DEF DiscoverNext
<1>10. ASSUME TellConnected(t)
       PROVE  job'[t].res.op = "connect"
  <2>1. Answer(t, [op |-> "connect", ok |-> TRUE, conn |-> job[t].conn])
    BY <1>10 DEF TellConnected
  <2> QED BY <1>0, <2>1
<1>11. ASSUME TransferDrops(t) \/ CloseTransfer(t)
       PROVE  job'[t].res.op = "push"
  <2>1. CASE TransferDrops(t)
    BY <1>0, <2>1 DEF TransferDrops, PushResult
  <2>2. CASE CloseTransfer(t)
    BY <1>0, <2>2, JobShape DEF CloseTransfer, At, Closing, Receipt
  <2> QED BY <1>11, <2>1, <2>2
<1> QED BY <1>2, <1>3, <1>4, <1>5, <1>6, <1>7, <1>8, <1>9, <1>10, <1>11

(* Only a return adds a result.                                            *)
LEMMA ResultsStep ==
  ASSUME TypeOK, NEW t \in Task, StepOf(t)
  PROVE  /\ ~Return(t) => results' = results
         /\ Return(t) => results' = results \union {job[t].res} /\ job[t].pc = "return"
         /\ ~Return(t) => handles' = handles
         /\ ~Begin(t) => made' = made
<1>1. ASSUME Begin(t) \/ Return(t) \/ Deliver(t) \/ StartDiscovery(t)
               \/ DiscoverNext(t) \/ StartPair(t) \/ AcceptNext(t) \/ AcceptEnds(t)
      PROVE  /\ ~Return(t) => results' = results
             /\ Return(t) => results' = results \union {job[t].res} /\ job[t].pc = "return"
             /\ ~Return(t) => handles' = handles
             /\ ~Begin(t) => made' = made
  BY <1>1 DEF Begin, Return, At, Deliver, StartDiscovery, DiscoverNext, StartPair,
              AcceptNext, AcceptEnds
<1>2. ASSUME Answers(t) \/ PairingCompletes(t) \/ Connect(t) \/ TellConnected(t)
               \/ Disconnect(t) \/ TellDisconnected(t)
      PROVE  UNCHANGED <<results, handles, made>>
  BY <1>2 DEF Answers, PairingFails, Bond, Cancel, PairingCompletes, Connect,
              TellConnected, Disconnect, TellDisconnected
<1>3. ASSUME CheckPush(t) \/ ReadStart(t) \/ OpenTransfer(t) \/ SendChunk(t)
               \/ TransferDrops(t) \/ TellProgress(t) \/ ReadDuration(t)
               \/ CloseTransfer(t)
      PROVE  UNCHANGED <<results, handles, made>>
  BY <1>3 DEF CheckPush, ReadStart, OpenTransfer, SendChunk, TransferDrops,
              TellProgress, ReadDuration, CloseTransfer
<1> QED BY <1>1, <1>2, <1>3 DEF StepOf, Moves

-----------------------------------------------------------------------------
(* Discovery. *)

(* `at` says where in the script each device found was: in order, accepted *)
(* by the filter, before position n, and leaving out none that is accepted.*)
Places(f, out, n, at) ==
  /\ at \in [DOMAIN out -> DOMAIN Scripted]
  /\ \A j \in DOMAIN out :
       /\ out[j] = Scripted[at[j]] /\ out[j] \in f.accepts /\ at[j] < n
       /\ \A l \in DOMAIN out : l < j => at[l] < at[j]
  /\ \A k \in DOMAIN Scripted :
       k < n /\ Scripted[k] \in f.accepts => \E j \in DOMAIN out : at[j] = k

(* What a scan has found when it stands at position n of the script.       *)
Scanned(f, out, n) ==
  /\ f.limit = Never \/ Len(out) <= f.limit
  /\ \E at : Places(f, out, n, at)

Exact(r) ==
  /\ r.arg.limit = Never \/ Len(r.out) <= r.arg.limit
  /\ \E at \in [DOMAIN r.out -> DOMAIN Scripted] :
       /\ \A j \in DOMAIN r.out :
            /\ r.out[j] = Scripted[at[j]] /\ r.out[j] \in r.arg.accepts
            /\ \A l \in DOMAIN r.out : l < j => at[l] < at[j]
       /\ \A k \in DOMAIN Scripted :
            Scripted[k] \in r.arg.accepts =>
              \/ \E j \in DOMAIN r.out : at[j] = k
              \/ Len(r.out) = r.arg.limit /\ \A j \in DOMAIN r.out : at[j] < k

ScanOf(t) ==
  /\ job[t].pc = "discover" => job[t].i = 1 /\ job[t].out = <<>>
  /\ job[t].pc = "scan" => Scanned(job[t].arg, job[t].out, job[t].i)
  /\ job[t].pc = "return" /\ job[t].res.op = "discover" => Exact(job[t].res)

ScanInv ==
  /\ \A t \in Task : ScanOf(t)
  /\ \A r \in results : r.op = "discover" => Exact(r)

(* A scan begins with nothing found.                                       *)
LEMMA ScanBegins ==
  ASSUME NEW f \in Call, f.op = "discover"
  PROVE  Scanned(f, <<>>, 1)
<1>1. f.limit \in Nat \union {Never} /\ Len(<<>>) = 0 /\ DOMAIN <<>> = 1..0
  BY CallFields, EmptySeq
<1>2. DOMAIN Scripted = 1..Len(Scripted) /\ Len(Scripted) \in Nat
  BY MockAssumption, LenProperties
<1> DEFINE at == [j \in 1..0 |-> 1]
<1>3. Places(f, <<>>, 1, at)
  BY <1>1, <1>2 DEF Places
<1> QED BY <1>1, <1>3 DEF Scanned

(* The next accepted device is added, if the limit is not reached.         *)
LEMMA ScanFinds ==
  ASSUME NEW f \in Call, f.op = "discover", NEW out \in Seq(Device), NEW n \in Nat \ {0},
         Scanned(f, out, n), NEW k \in n..Len(Scripted), Scripted[k] \in f.accepts,
         \A l \in n..Len(Scripted) : Scripted[l] \in f.accepts => k <= l,
         f.limit = Never \/ Len(out) < f.limit
  PROVE  Scanned(f, Append(out, Scripted[k]), k + 1)
<1> DEFINE d == Scripted[k]
           o == Append(out, d)
           m == Len(out)
<1>1. PICK at : Places(f, out, n, at)
  BY DEF Scanned
<1>2. /\ DOMAIN Scripted = 1..Len(Scripted) /\ Len(Scripted) \in Nat
      /\ k \in DOMAIN Scripted /\ k \in Nat /\ d \in Device
  BY MockAssumption, LenProperties
<1>3. /\ m \in Nat /\ DOMAIN out = 1..m /\ Len(o) = m + 1 /\ DOMAIN o = 1..(m + 1)
      /\ o[m + 1] = d /\ \A j \in 1..m : o[j] = out[j]
  BY <1>2, LenProperties, AppendProperties
<1> DEFINE p == [j \in 1..(m + 1) |-> IF j = m + 1 THEN k ELSE at[j]]
<1>4. at \in [1..m -> 1..Len(Scripted)]
  BY <1>1, <1>2, <1>3 DEF Places
<1> HIDE DEF o, m, d
<1>5. p[m + 1] = k /\ \A j \in 1..m : p[j] = at[j]
  BY <1>3
<1>6. p \in [DOMAIN o -> DOMAIN Scripted]
  BY <1>2, <1>3, <1>4
<1> HIDE DEF p
<1>7. \A j \in 1..m : /\ out[j] = Scripted[at[j]] /\ out[j] \in f.accepts /\ at[j] < n
                      /\ \A l \in 1..m : l < j => at[l] < at[j]
  BY <1>1, <1>3 DEF Places
<1>8. \A j \in 1..(m + 1) : j \in 1..m \/ j = m + 1
  BY <1>3
<1>9. \A j \in DOMAIN o :
        /\ o[j] = Scripted[p[j]] /\ o[j] \in f.accepts /\ p[j] < k + 1
        /\ \A l \in DOMAIN o : l < j => p[l] < p[j]
  <2>1. ASSUME NEW j \in 1..m
        PROVE  /\ o[j] = Scripted[p[j]] /\ o[j] \in f.accepts /\ p[j] < k + 1
               /\ \A l \in 1..(m + 1) : l < j => p[l] < p[j]
    BY <1>2, <1>3, <1>4, <1>5, <1>7, <1>8
  <2>2. /\ o[m + 1] = Scripted[p[m + 1]] /\ o[m + 1] \in f.accepts /\ p[m + 1] < k + 1
        /\ \A l \in 1..(m + 1) : l < m + 1 => p[l] < p[m + 1]
    <3>1. o[m + 1] = Scripted[p[m + 1]] /\ o[m + 1] \in f.accepts
      BY <1>3, <1>5 DEF d
    <3>2. \A l \in 1..(m + 1) : l < m + 1 => p[l] < p[m + 1]
      BY <1>2, <1>3, <1>4, <1>5, <1>7, <1>8
    <3> QED BY <1>2, <1>5, <3>1, <3>2
  <2> QED BY <1>3, <1>8, <2>1, <2>2
<1>10. \A l \in DOMAIN Scripted :
         l < k + 1 /\ Scripted[l] \in f.accepts => \E j \in DOMAIN o : p[j] = l
  <2> SUFFICES ASSUME NEW l \in DOMAIN Scripted, l < k + 1, Scripted[l] \in f.accepts
               PROVE  \E j \in DOMAIN o : p[j] = l
    OBVIOUS
  <2>1. CASE l < n
    <3>1. PICK j \in 1..m : at[j] = l
      BY <1>1, <1>3, <2>1 DEF Places
    <3> QED BY <1>3, <1>5, <3>1
  <2>2. CASE l >= n
    <3>1. l = k
      BY <1>2, <2>2
    <3> QED BY <1>3, <1>5, <3>1
  <2> QED BY <1>2, <2>1, <2>2
<1>11. Places(f, o, k + 1, p)
  BY <1>6, <1>9, <1>10 DEF Places
<1>12. f.limit = Never \/ Len(o) <= f.limit
  BY <1>3, CallFields DEF m
<1> QED BY <1>11, <1>12 DEF Scanned, o, d

(* A scan that ends has found what it should.                              *)
LEMMA ScanEnds ==
  ASSUME NEW r, r.arg \in Call, r.arg.op = "discover", r.out \in Seq(Device),
         NEW n \in Nat \ {0}, Scanned(r.arg, r.out, n),
         \/ \A l \in n..Len(Scripted) : Scripted[l] \notin r.arg.accepts
         \/ r.arg.limit # Never /\ Len(r.out) >= r.arg.limit
  PROVE  Exact(r)
<1>1. PICK at : Places(r.arg, r.out, n, at)
  BY DEF Scanned
<1>2. DOMAIN Scripted = 1..Len(Scripted) /\ Len(Scripted) \in Nat
  BY MockAssumption, LenProperties
<1>3. Len(r.out) \in Nat /\ r.arg.limit \in Nat \union {Never}
      /\ (r.arg.limit = Never \/ Len(r.out) <= r.arg.limit)
  BY LenProperties, CallFields DEF Scanned
<1>4. ASSUME NEW k \in DOMAIN Scripted, Scripted[k] \in r.arg.accepts
      PROVE  \/ \E j \in DOMAIN r.out : at[j] = k
             \/ Len(r.out) = r.arg.limit /\ \A j \in DOMAIN r.out : at[j] < k
  <2>1. CASE k < n
    BY <1>1, <1>4, <2>1 DEF Places
  <2>2. CASE k >= n
    <3>1. k \in n..Len(Scripted)
      BY <1>2, <2>2
    <3>2. Len(r.out) = r.arg.limit
      BY <1>3, <1>4, <3>1
    <3>3. \A j \in DOMAIN r.out : at[j] \in Nat /\ at[j] < n
      BY <1>1, <1>2 DEF Places
    <3>4. \A j \in DOMAIN r.out : at[j] < k
      BY <1>2, <2>2, <3>3
    <3> QED BY <3>2, <3>4
  <2> QED BY <1>2, <2>1, <2>2
<1> QED BY <1>1, <1>3, <1>4 DEF Places, Exact

(* The step of a scan.                                                     *)
LEMMA DiscoverScans ==
  ASSUME TypeOK, NEW t \in Task, ScanOf(t), DiscoverNext(t)
  PROVE  ScanOf(t)'
<1> DEFINE f == job[t].arg
           left == {k \in job[t].i..Len(Scripted) : Scripted[k] \in f.accepts}
           full == IF f.limit = Never THEN FALSE ELSE Len(job[t].out) >= f.limit
           res == [op |-> "discover", arg |-> f, out |-> job[t].out]
<1>1. /\ job[t].pc = "scan" /\ job[t] \in Asking(t) /\ f \in Call /\ f.op = "discover"
      /\ job[t].i \in Nat \ {0} /\ job[t].out \in Seq(Device) /\ Len(job[t].out) \in Nat
      /\ Scanned(f, job[t].out, job[t].i)
  BY JobShape, CallsType, LenProperties
     DEF DiscoverNext, At, Asking, TypeOK, Fits, ScanOf
<1>2. CASE left = {} \/ full
  <2>1. Answer(t, res)
    BY <1>2 DEF DiscoverNext
  <2>2. job'[t].res = res /\ job'[t].pc = "return"
    BY <2>1 DEF Answer, TypeOK
  <2>3. res.arg = f /\ res.out = job[t].out
    OBVIOUS
  <2>4. \/ \A l \in job[t].i..Len(Scripted) : Scripted[l] \notin f.accepts
        \/ f.limit # Never /\ Len(job[t].out) >= f.limit
    BY <1>2
  <2>5. Exact(res)
    <3> HIDE DEF f, res, left, full
    <3> QED BY <1>1, <2>3, <2>4, ScanEnds
  <2> QED BY <2>2, <2>5 DEF ScanOf, Exact
<1>3. CASE ~(left = {} \/ full)
  <2>1. PICK k \in left : /\ \A l \in left : k <= l
                          /\ job' = [job EXCEPT ![t].i = k + 1,
                                                ![t].out = Append(@, Scripted[k])]
    BY <1>3 DEF DiscoverNext
  <2>2. /\ job'[t].pc = "scan" /\ job'[t].arg = f
        /\ job'[t].i = k + 1 /\ job'[t].out = Append(job[t].out, Scripted[k])
    BY <1>1, <2>1 DEF TypeOK, Asking
  <2>3. f.limit = Never \/ Len(job[t].out) < f.limit
    BY <1>1, <1>3, CallFields
  <2>4. k \in job[t].i..Len(Scripted) /\ Scripted[k] \in f.accepts
        /\ \A l \in job[t].i..Len(Scripted) : Scripted[l] \in f.accepts => k <= l
    BY <2>1
  <2>5. Scanned(f, Append(job[t].out, Scripted[k]), k + 1)
    <3> HIDE DEF f
    <3> QED BY <1>1, <2>3, <2>4, ScanFinds
  <2> QED BY <2>2, <2>5 DEF ScanOf
<1> QED BY <1>2, <1>3

(* Every step keeps discoveries exact so far. *)
LEMMA ScanStep ==
  ASSUME TypeOK, ScanInv, [Next]_vars
  PROVE  ScanInv'
<1>1. ASSUME NEW t \in Task, StepOf(t)
      PROVE  ScanOf(t)'
  <2>1. CASE Deliver(t)
    BY <2>1 DEF Deliver, ScanInv, ScanOf
  <2>2. CASE DiscoverNext(t)
    BY <2>2, DiscoverScans DEF ScanInv
  <2>3. CASE Begin(t)
    <3>1. job'[t].pc = "discover" => job'[t].i = 1 /\ job'[t].out = <<>>
      BY <2>3 DEF Begin, TypeOK
    <3>2. job'[t].pc # "scan" /\ job'[t].pc # "return"
      BY <2>3, WhereNext
    <3> QED BY <3>1, <3>2 DEF ScanOf
  <2>4. CASE StartDiscovery(t)
    <3>1. job[t] \in Asking(t) /\ job[t].pc = "discover" /\ job[t].arg \in Call
          /\ job[t].arg.op = "discover"
      BY <2>4, JobShape, CallsType DEF StartDiscovery, At, Asking, TypeOK, Fits
    <3>2. job'[t].pc = "scan" /\ job'[t].arg = job[t].arg /\ job'[t].i = 1
          /\ job'[t].out = <<>>
      BY <2>4, <3>1, GotoKeeps DEF StartDiscovery, ScanInv, ScanOf
    <3>3. Scanned(job[t].arg, <<>>, 1)
      BY <3>1, ScanBegins
    <3> QED BY <3>2, <3>3 DEF ScanOf
  <2>5. CASE ~Deliver(t) /\ ~DiscoverNext(t) /\ ~Begin(t) /\ ~StartDiscovery(t)
    <3>1. job'[t].pc # "discover" /\ job'[t].pc # "scan"
      <4>1. Idle.pc = "idle"
        BY DEF Idle
      <4> QED BY <1>1, <2>5, <4>1, WhereNext DEF StepOf, Moves, Answers
    <3>2. job'[t].pc = "return" => job'[t].res.op # "discover"
      BY <1>1, <2>5, Outcomes
    <3> QED BY <3>1, <3>2 DEF ScanOf
  <2> QED BY <2>1, <2>2, <2>3, <2>4, <2>5
<1>2. ASSUME NEW t \in Task, StepOf(t)
      PROVE  ScanInv'
  <2>1. \A u \in Task : u # t => ScanOf(u)'
    BY <1>2, OthersWait DEF ScanInv, ScanOf
  <2>2. \A r \in results' : r.op = "discover" => Exact(r)
    BY <1>2, ResultsStep DEF ScanInv, ScanOf
  <2>3. \A r \in results' : r.op = "discover" => Exact(r)'
    BY <2>2 DEF Exact
  <2> QED BY <1>1, <1>2, <2>1, <2>3 DEF ScanInv
<1>3. CASE UNCHANGED vars
  BY <1>3 DEF vars, ScanInv, ScanOf, Exact
<1> QED BY <1>2, <1>3 DEF Next, StepOf

(* A discovery returns the first devices its filter accepts, in script     *)
(* order and up to its limit, whatever the other tasks do meanwhile.       *)
THEOREM DiscoveryCorrect == Spec => []DiscoveryExact
<1>1. Init => ScanInv
  BY DEF Init, Idle, ScanInv, ScanOf
<1>2. ScanInv => DiscoveryExact
  BY DEF ScanInv, Exact, DiscoveryExact
<1> QED BY <1>1, <1>2, ScanStep, TypeCorrect, PTL DEF Spec

-----------------------------------------------------------------------------
(* The log. *)

(* What the stream's invariant says of the logs. *)
LEMMA LogFacts ==
  ASSUME Log!StreamInv
  PROVE  /\ seq \in Nat /\ due \in [Task -> 0..Fan] /\ DOMAIN held = Task
         /\ log \in [1..Fan -> Seq(Log!Event)]
         /\ \A o \in 1..Fan :
              /\ Len(log[o]) \in Nat /\ DOMAIN log[o] = 1..Len(log[o])
              /\ \A i \in DOMAIN log[o] : log[o][i].seq \in 0..(seq - 1)
              /\ \A i, j \in DOMAIN log[o] : log[o][i].seq = log[o][j].seq => i = j
         /\ \A t \in Task : due[t] > 0 => held[t].seq \in 0..(seq - 1)
<1>1. /\ seq \in Nat /\ due \in [Task -> 0..Fan] /\ DOMAIN held = Task
      /\ log \in [1..Fan -> Seq(Log!Event)]
      /\ \A t \in Task : due[t] > 0 => held[t] \in Log!Event
  BY DEF Log!StreamInv, Log!StreamTypeOK, Log!Observers
<1>2. \A o \in 1..Fan : /\ Len(log[o]) \in Nat /\ DOMAIN log[o] = 1..Len(log[o])
                        /\ log[o] \in Seq(Log!Event)
  BY <1>1, LenProperties
<1>3. \A o \in 1..Fan : \A i \in 1..Len(log[o]) : log[o][i] \in Log!Event
  BY <1>2
<1>4. \A o \in 1..Fan : \A i \in 1..Len(log[o]) : log[o][i].seq \in 0..(seq - 1)
  BY <1>1, <1>3 DEF Log!StreamInv, Log!Complete, Log!Event, Log!Observers
<1>5. \A o \in 1..Fan : \A i, j \in 1..Len(log[o]) :
        log[o][i].seq = log[o][j].seq => i = j
  BY DEF Log!StreamInv, Log!Complete, Log!Observers
<1>6. \A t \in Task : due[t] > 0 => held[t].seq \in 0..(seq - 1)
  <2>1. \A t \in Task : due[t] > 0 => Log!Owes(t, Fan) /\ Fan \in 1..Fan
    BY <1>1, MockAssumption DEF Log!Owes
  <2> QED BY <1>1, <2>1 DEF Log!StreamInv, Log!Complete, Log!Event, Log!Observers
<1>7. \A o \in 1..Fan :
        /\ Len(log[o]) \in Nat /\ DOMAIN log[o] = 1..Len(log[o])
        /\ \A i \in DOMAIN log[o] : log[o][i].seq \in 0..(seq - 1)
        /\ \A i, j \in DOMAIN log[o] : log[o][i].seq = log[o][j].seq => i = j
  BY <1>2, <1>4, <1>5
<1> QED BY <1>1, <1>6, <1>7

(* What is heard stays heard, and means the same.                          *)
LEMMA SilentLog ==
  ASSUME TypeOK, Log!StreamInv, NEW t \in Task, Silent \/ Adds(t)
  PROVE  /\ log' = log
         /\ \A o \in 1..Fan : \A i \in DOMAIN log[o] : Heard(o, i)' = Heard(o, i)
<1>1. \A o \in 1..Fan : \A i \in DOMAIN log[o] : log[o][i].seq + 1 \in 1..seq
  BY LogFacts
<1> QED BY <1>1 DEF Silent, Adds, Heard

(* A delivery: one observer hears of what t stamped last.                  *)
LEMMA DeliverLog ==
  ASSUME TypeOK, Log!StreamInv, NEW t \in Task, Deliver(t)
  PROVE  \E o \in 1..Fan :
           /\ due[t] = o /\ held' = held /\ said' = said /\ seq' = seq
           /\ due'[t] = IF o = Fan THEN 0 ELSE o + 1
           /\ \A u \in Task : u # t => due'[u] = due[u]
           /\ DOMAIN log'[o] = (1..Len(log[o])) \union {Len(log[o]) + 1}
           /\ \A m : m = Len(log[o]) + 1 => Heard(o, m)' = said[held[t].seq + 1]
           /\ \A p \in 1..Fan : p # o => log'[p] = log[p]
           /\ \A p \in 1..Fan : \A i \in DOMAIN log[p] :
                i \in DOMAIN log'[p] /\ Heard(p, i)' = Heard(p, i)
<1>1. PICK o \in 1..Fan : due[t] = o
  BY LogFacts DEF Deliver, Stream!Deliver
<1>2. /\ log' = [log EXCEPT ![o] = Append(@, held[t])]
      /\ due' = [due EXCEPT ![t] = IF @ = Fan THEN 0 ELSE @ + 1]
      /\ held' = held /\ said' = said /\ seq' = seq
  BY <1>1 DEF Deliver, Stream!Deliver
<1>3. held[t] \in Log!Event
  BY <1>1 DEF Log!StreamInv, Log!StreamTypeOK
<1>4. /\ log[o] \in Seq(Log!Event) /\ Len(log[o]) \in Nat
      /\ DOMAIN log[o] = 1..Len(log[o])
      /\ log'[o] = Append(log[o], held[t])
      /\ \A p \in 1..Fan : p # o => log'[p] = log[p]
  BY <1>2, LogFacts
<1>5. /\ Len(log'[o]) = Len(log[o]) + 1 /\ DOMAIN log'[o] = 1..(Len(log[o]) + 1)
      /\ \A m : m = Len(log[o]) + 1 => log'[o][m] = held[t]
      /\ \A i \in 1..Len(log[o]) : log'[o][i] = log[o][i]
  BY <1>3, <1>4, AppendProperties, LenProperties
<1>6. DOMAIN log'[o] = (1..Len(log[o])) \union {Len(log[o]) + 1}
  BY <1>4, <1>5
<1>7. \A m : m = Len(log[o]) + 1 => Heard(o, m)' = said[held[t].seq + 1]
  BY <1>2, <1>5 DEF Heard
<1>8. \A p \in 1..Fan : \A i \in DOMAIN log[p] :
        i \in DOMAIN log'[p] /\ Heard(p, i)' = Heard(p, i)
  BY <1>2, <1>4, <1>5, <1>6 DEF Heard
<1>9. /\ due'[t] = IF o = Fan THEN 0 ELSE o + 1
      /\ \A u \in Task : u # t => due'[u] = due[u]
  BY <1>1, <1>2, LogFacts
<1> QED BY <1>1, <1>2, <1>4, <1>6, <1>7, <1>8, <1>9

-----------------------------------------------------------------------------
(* The connections of a step. *)

(* Task t holds a connection it uses, and t is about to hand one out.      *)
Uses(t) == job[t].pc \in {"disconnect", "parted", "push", "push_start", "push_open",
                          "chunk", "progress", "push_close"}
Gives(t) == job[t].pc = "return" /\ job[t].res.op = "connect" /\ job[t].res.ok

(* A connection a task uses, announces or returns is a handle. *)
LEMMA ConnTypes ==
  ASSUME TypeOK, NEW t \in Task
  PROVE  /\ Uses(t) \/ job[t].pc = "connected" =>
              job[t].conn \in Handle /\ job[t].conn.token \in Nat \ {0}
         /\ Gives(t) => job[t].res.conn \in Handle /\ job[t].res.conn.token \in Nat \ {0}
<1>1. Uses(t) \/ job[t].pc = "connected" => job[t].conn \in Handle
  BY JobShape DEF Uses, Using, Sending, Opening, Closing
<1>2. Gives(t) => job[t].res.conn \in Handle
  BY JobShape DEF Gives, Returning, Result, Receipt
<1> QED BY <1>1, <1>2 DEF Handle

(* Where the connections a task holds come from.                           *)
LEMMA ConnStep ==
  ASSUME TypeOK, NEW t \in Task, StepOf(t), ~Deliver(t)
  PROVE  /\ Uses(t)' => \/ Uses(t) /\ job'[t].conn = job[t].conn
                        \/ Begin(t) /\ job'[t].conn \in handles
         /\ job'[t].pc = "connected" => Connect(t) /\ job'[t].conn.token = nextToken
         /\ Gives(t)' => TellConnected(t) /\ job'[t].res.conn = job[t].conn
         /\ handles' # handles => Gives(t) /\ handles' = handles \union {job[t].res.conn}
                                  /\ due[t] = 0
<1>0. Idle.pc = "idle" /\ \A r : Answer(t, r) => job'[t].pc = "return" /\ job'[t].res = r
  BY DEF Idle, Answer, TypeOK
<1>1. Begin(t) => (Uses(t)' => job'[t].conn \in handles)
  BY DEF Begin, Uses, TypeOK
<1>2. ASSUME Uses(t)', ~Begin(t)
      PROVE  Uses(t) /\ job'[t].conn = job[t].conn
  <2>1. \/ Disconnect(t) \/ CheckPush(t) \/ ReadStart(t) \/ OpenTransfer(t)
        \/ SendChunk(t) \/ TellProgress(t) \/ ReadDuration(t)
    BY <1>0, <1>2, WhereNext DEF StepOf, Moves, Answers, Uses
  <2>2. Uses(t)
    BY <2>1, WhereNext DEF Uses
  <2>3. CASE Disconnect(t)
    <3>1. job[t] \in Using(t)
      BY <2>3, JobShape DEF Disconnect, At
    <3>2. Goto(t, "parted")
      BY <1>0, <1>2, <2>3 DEF Disconnect, Uses
    <3> QED BY <2>2, <3>1, <3>2, GotoKeeps
  <2>4. CASE CheckPush(t)
    <3>1. job[t].conn.token \in connections
      BY <1>0, <1>2, <2>4 DEF CheckPush, Uses
    <3> QED BY <2>2, <2>4, <3>1 DEF CheckPush, TypeOK
  <2>5. CASE OpenTransfer(t) \/ TellProgress(t)
    <3>1. job[t] \in Sending(t)
      BY <2>5, SendingFields DEF OpenTransfer, TellProgress, At
    <3> QED BY <2>2, <2>5, <3>1, GotoKeeps DEF OpenTransfer, TellProgress
  <2>6. CASE ReadStart(t) \/ SendChunk(t)
    <3>1. job[t] \in Sending(t)
      BY <2>6, SendingFields DEF ReadStart, SendChunk, At
    <3> QED BY <2>2, <2>6, <3>1 DEF ReadStart, SendChunk, TypeOK, Sending
  <2>7. CASE ReadDuration(t)
    BY <2>2, <2>7 DEF ReadDuration, TypeOK
  <2> QED BY <2>1, <2>3, <2>4, <2>5, <2>6, <2>7
<1>3. job'[t].pc = "connected" => Connect(t) /\ job'[t].conn.token = nextToken
  <2>1. job'[t].pc = "connected" => Connect(t)
    BY <1>0, WhereNext DEF StepOf, Moves, Answers
  <2>2. ASSUME Connect(t), job'[t].pc = "connected"
        PROVE  job'[t].conn.token = nextToken
    BY <1>0, <2>2 DEF Connect, TypeOK
  <2> QED BY <2>1, <2>2
<1>4. Gives(t)' => TellConnected(t) /\ job'[t].res.conn = job[t].conn
  <2>1. Gives(t)' => TellConnected(t)
    BY Outcomes DEF Gives
  <2>2. ASSUME TellConnected(t) PROVE job'[t].res.conn = job[t].conn
    <3>1. job'[t].res = [op |-> "connect", ok |-> TRUE, conn |-> job[t].conn]
      BY <1>0, <2>2 DEF TellConnected
    <3> QED BY <3>1
  <2> QED BY <2>1, <2>2
<1>5. handles' # handles => Gives(t) /\ handles' = handles \union {job[t].res.conn}
                            /\ due[t] = 0
  BY ResultsStep DEF Return, Gives, At
<1> QED BY <1>1, <1>2, <1>3, <1>4, <1>5

(* What a step says of connections.                                        *)
LEMMA Talk ==
  ASSUME TypeOK, NEW t \in Task, StepOf(t), ~Deliver(t)
  PROVE  \/ Silent
         \/ /\ Adds(t) /\ said'[seq + 1].token = 0
            /\ said'[seq + 1].kind \notin {"connected", "disconnected"}
         \/ /\ Adds(t) /\ TellConnected(t) /\ said'[seq + 1].kind = "connected"
            /\ said'[seq + 1].token = job[t].conn.token
         \/ /\ Adds(t) /\ Uses(t) /\ said'[seq + 1].token = job[t].conn.token
            /\ said'[seq + 1].kind # "connected"
            /\ said'[seq + 1].kind = "disconnected" => TellDisconnected(t)
<1>1. OpenTransfer(t) \/ TellProgress(t) \/ TransferDrops(t) \/ CloseTransfer(t)
        \/ SendChunk(t) \/ TellDisconnected(t) => Uses(t)
  BY WhereNext DEF Uses
<1> QED BY <1>1, Emissions DEF StepOf, Moves, Answers

-----------------------------------------------------------------------------
(* The life of a connection. *)

Token(t) == job[t].conn.token
Holds(t) == Uses(t) \/ job[t].pc = "connected"

(* Tokens are below the next one.                                          *)
TokensKnown ==
  /\ \A n \in 1..seq : said[n].token < nextToken
  /\ \A h \in handles : h.token < nextToken
  /\ \A t \in Task : Holds(t) => Token(t) < nextToken
  /\ \A t \in Task : Gives(t) => job[t].res.conn.token < nextToken

(* Nobody but the task that connects knows of a connection not announced.  *)
NotYetTold ==
  \A t \in Task : job[t].pc = "connected" =>
    /\ \A n \in 1..seq : said[n].token # Token(t)
    /\ \A h \in handles : h.token # Token(t)
    /\ \A u \in Task : u # t /\ Holds(u) => Token(u) # Token(t)
    /\ \A u \in Task : Gives(u) => job[u].res.conn.token # Token(t)

SaidOnce ==
  \A m, n \in 1..seq :
    (/\ said[m].token = said[n].token /\ said[m].kind = said[n].kind
     /\ said[m].kind \in {"connected", "disconnected"}) => m = n

(* A token said to be disconnected is dead, and so is that of a task about *)
(* to say so, which is the only one.                                       *)
SaidDead ==
  \A n \in 1..seq : said[n].kind = "disconnected" => said[n].token \notin connections

PartsAlone ==
  \A t \in Task : job[t].pc = "parted" =>
    /\ Token(t) \notin connections
    /\ \A n \in 1..seq : said[n].kind = "disconnected" => said[n].token # Token(t)
    /\ \A u \in Task : u # t /\ job[u].pc = "parted" => Token(u) # Token(t)

TokenInv == TokensKnown /\ NotYetTold /\ SaidOnce /\ SaidDead /\ PartsAlone

(* How a step changes the table of connections.                            *)
LEMMA TableStep ==
  ASSUME TypeOK, NEW t \in Task, StepOf(t)
  PROVE  /\ \/ /\ connections' = connections /\ nextToken' = nextToken
               /\ job'[t].pc = "connected" => Deliver(t)
               /\ job'[t].pc = "parted" => Deliver(t)
            \/ /\ Connect(t) /\ job'[t].pc = "connected" /\ Token(t)' = nextToken
               /\ connections' = connections \union {nextToken}
               /\ nextToken' = nextToken + 1
            \/ /\ Disconnect(t) /\ nextToken' = nextToken /\ Uses(t)
               /\ job'[t].pc # "connected"
               /\ connections' = connections \ {Token(t)}
               /\ job'[t].pc = "parted" =>
                    Token(t) \in connections /\ Token(t)' = Token(t)
<1>0. Idle.pc = "idle" /\ \A r : Answer(t, r) => job'[t].pc = "return"
  BY DEF Idle, Answer, TypeOK
<1>1. /\ ~Connect(t) /\ job'[t].pc = "connected" => Deliver(t)
      /\ ~Disconnect(t) /\ job'[t].pc = "parted" => Deliver(t)
  BY <1>0, WhereNext DEF StepOf, Moves, Answers
<1>2. CASE Connect(t)
  <2>1. job'[t].pc # "parted" /\ ~Deliver(t)
    BY <1>2, WhereNext DEF Connect, Deliver, Stream!Deliver, At
  <2>2. CASE job[t].arg.peer \in Known
    <3>1. job'[t] = [pc |-> "connected", call |-> job[t].call,
                     conn |-> [token |-> nextToken, peer |-> job[t].arg.peer]]
      BY <1>2, <2>2 DEF Connect, TypeOK
    <3> QED BY <1>2, <2>2, <3>1 DEF Connect, Token
  <2>3. CASE job[t].arg.peer \notin Known
    BY <1>0, <1>2, <2>1, <2>3 DEF Connect
  <2> QED BY <2>2, <2>3
<1>3. CASE Disconnect(t)
  <2>1. job[t].pc = "disconnect" /\ job[t] \in Using(t) /\ job'[t].pc # "connected"
    BY <1>3, JobShape, WhereNext DEF Disconnect, At
  <2>2. Token(t) \in connections => Token(t)' = Token(t)
    BY <1>3, <2>1, GotoKeeps DEF Disconnect, Token
  <2>3. job'[t].pc = "parted" => Token(t) \in connections
    BY <1>0, <1>3 DEF Disconnect, Token
  <2> QED BY <1>3, <2>1, <2>2, <2>3 DEF Disconnect, Uses, Token
<1>4. CASE ~Connect(t) /\ ~Disconnect(t)
  <2>1. ASSUME Begin(t) \/ Return(t) \/ Deliver(t) \/ StartDiscovery(t)
                 \/ DiscoverNext(t) \/ StartPair(t) \/ AcceptNext(t) \/ AcceptEnds(t)
        PROVE  connections' = connections /\ nextToken' = nextToken
    BY <2>1 DEF Begin, Return, Deliver, StartDiscovery, DiscoverNext, StartPair,
                AcceptNext, AcceptEnds, table
  <2>2. ASSUME Answers(t) \/ PairingCompletes(t) \/ TellConnected(t) \/ TellDisconnected(t)
        PROVE  connections' = connections /\ nextToken' = nextToken
    BY <2>2 DEF Answers, PairingFails, Bond, Cancel, PairingCompletes, TellConnected,
                TellDisconnected, table
  <2>3. ASSUME CheckPush(t) \/ ReadStart(t) \/ OpenTransfer(t) \/ SendChunk(t)
                 \/ TransferDrops(t) \/ TellProgress(t) \/ ReadDuration(t)
                 \/ CloseTransfer(t)
        PROVE  connections' = connections /\ nextToken' = nextToken
    BY <2>3 DEF CheckPush, ReadStart, OpenTransfer, SendChunk, TransferDrops,
                TellProgress, ReadDuration, CloseTransfer, table
  <2> QED BY <1>1, <1>4, <2>1, <2>2, <2>3 DEF StepOf, Moves
<1> QED BY <1>2, <1>3, <1>4

(* A step keeps the tokens apart.                                          *)
LEMMA TokenStep ==
  ASSUME TypeOK, TokenInv, NEW t \in Task, StepOf(t), ~Deliver(t)
  PROVE  TokenInv'
<1>1. /\ nextToken \in Nat /\ connections \subseteq 1..(nextToken - 1)
      /\ nextToken' \in Nat /\ nextToken <= nextToken'
      /\ job'[t].pc = "connected" => Token(t)' = nextToken /\ nextToken' = nextToken + 1
                                     /\ Connect(t)
  <2>1. nextToken \in Nat /\ connections \subseteq 1..(nextToken - 1)
    BY DEF TypeOK
  <2>2. \/ nextToken' = nextToken /\ job'[t].pc # "connected"
        \/ Token(t)' = nextToken /\ nextToken' = nextToken + 1 /\ Connect(t)
    BY TableStep, Zenon
  <2> QED BY <2>1, <2>2
<1>2. \A u \in Task : u # t => job'[u] = job[u]
  BY OthersWait
<1>3. /\ Uses(t)' => \/ Uses(t) /\ Token(t)' = Token(t)
                    \/ \E h \in handles : Token(t)' = h.token
      /\ Gives(t)' => job[t].pc = "connected" /\ job'[t].res.conn.token = Token(t)
      /\ \A h \in handles' : h \in handles \/ (Gives(t) /\ h = job[t].res.conn)
  <2>1. Gives(t)' => TellConnected(t) /\ job'[t].res.conn = job[t].conn
    BY ConnStep
  <2>2. TellConnected(t) => job[t].pc = "connected"
    BY DEF TellConnected, At
  <2>3. \A h \in handles' : h \in handles \/ (Gives(t) /\ h = job[t].res.conn)
    <3>1. handles' = handles \/ (Gives(t) /\ handles' = handles \union {job[t].res.conn})
      BY ConnStep, Zenon
    <3> QED BY <3>1
  <2> QED BY <2>1, <2>2, <2>3, ConnStep DEF Token
<1>4. /\ seq \in Nat /\ \A n \in 1..seq : said'[n] = said[n]
      /\ \/ seq' = seq
         \/ /\ seq' = seq + 1 /\ ~Connect(t) /\ ~Disconnect(t)
            /\ \/ said'[seq + 1].token = 0
                  /\ said'[seq + 1].kind \notin {"connected", "disconnected"}
               \/ job[t].pc = "connected" /\ said'[seq + 1].token = Token(t)
                  /\ said'[seq + 1].kind = "connected"
               \/ Uses(t) /\ said'[seq + 1].token = Token(t)
                  /\ said'[seq + 1].kind # "connected"
                  /\ (said'[seq + 1].kind = "disconnected" => TellDisconnected(t))
  <2>0. seq \in Nat
    BY DEF TypeOK
  <2>1. Adds(t) => ~Connect(t) /\ ~Disconnect(t)
    <3>1. Connect(t) \/ Disconnect(t) => seq' = seq
      BY Emissions DEF Silent
    <3> QED BY <2>0, <3>1 DEF Adds
  <2>2. TellConnected(t) => job[t].pc = "connected"
    BY DEF TellConnected, At
  <2>3. (Silent \/ Adds(t)) /\ \A n \in 1..seq : said'[n] = said[n]
    BY Talk DEF Silent, Adds
  <2>4. Silent => seq' = seq
    BY DEF Silent
  <2>5. Adds(t) => seq' = seq + 1
    BY DEF Adds
  <2> QED BY <2>0, <2>1, <2>2, <2>3, <2>4, <2>5, Talk, Zenon DEF Token
<1>5. \A u \in Task : /\ Holds(u) => Token(u) \in Nat \ {0}
                      /\ Gives(u) => job[u].res.conn.token \in Nat \ {0}
  BY ConnTypes DEF Holds, Token
<1>6. \A u \in Task : u # t => /\ Holds(u)' = Holds(u) /\ Token(u)' = Token(u)
                               /\ Gives(u)' = Gives(u)
  BY <1>2 DEF Holds, Uses, Gives, Token
<1>7. TokensKnown'
  <2>1. \A n \in 1..seq : said'[n].token \in Nat /\ said'[n].token < nextToken
    <3>1. \A n \in 1..seq : said[n] \in Said
      BY DEF TypeOK
    <3> QED BY <1>4, <3>1 DEF TokenInv, TokensKnown, Said
  <2>2. \A n \in 1..seq' : said'[n].token < nextToken'
    <3>1. Holds(t) => Token(t) < nextToken
      BY DEF TokenInv, TokensKnown
    <3>2. nextToken > 0
      BY DEF TypeOK
    <3>3. seq' = seq + 1 => said'[seq + 1].token \in Nat /\ said'[seq + 1].token < nextToken
      BY <1>1, <1>4, <1>5, <3>1, <3>2 DEF Holds
    <3> QED BY <1>1, <1>4, <1>5, <2>1, <3>3
  <2>3. \A h \in handles' : h.token < nextToken'
    <3>1. \A h \in handles' : h.token \in Nat
      <4>1. \A h \in handles : h.token \in Nat
        BY DEF TypeOK, Handle
      <4>2. Gives(t) => job[t].res.conn.token \in Nat
        BY ConnTypes
      <4> QED BY <1>3, <4>1, <4>2
    <3> QED BY <1>1, <1>3, <3>1 DEF TokenInv, TokensKnown
  <2>4. ASSUME NEW u \in Task
        PROVE  /\ Holds(u)' => Token(u)' < nextToken'
               /\ Gives(u)' => job'[u].res.conn.token < nextToken'
    <3>1. CASE u # t
      BY <1>1, <1>2, <1>5, <1>6, <3>1 DEF TokenInv, TokensKnown
    <3>2. CASE u = t
      <4>1. \A h \in handles : h.token \in Nat
        BY DEF TypeOK, Handle
      <4> QED BY <1>1, <1>3, <1>5, <3>2, <4>1 DEF TokenInv, TokensKnown, Holds
    <3> QED BY <3>1, <3>2
  <2> QED BY <2>2, <2>3, <2>4 DEF TokensKnown
<1>8. NotYetTold'
  <2>1. ASSUME NEW u \in Task, job'[u].pc = "connected"
        PROVE  /\ \A n \in 1..seq' : said'[n].token # Token(u)'
               /\ \A h \in handles' : h.token # Token(u)'
    <3>1. CASE u # t
      <4>1. job[u].pc = "connected" /\ Token(u)' = Token(u) /\ Token(u) # 0
        BY <1>2, <1>5, <1>6, <2>1, <3>1 DEF Holds
      <4>2. /\ \A n \in 1..seq : said[n].token # Token(u)
            /\ \A h \in handles : h.token # Token(u)
            /\ Holds(t) => Token(t) # Token(u)
            /\ Gives(t) => job[t].res.conn.token # Token(u)
        BY <3>1, <4>1 DEF TokenInv, NotYetTold
      <4>3. seq' = seq + 1 => said'[seq + 1].token # Token(u)
        BY <1>4, <4>1, <4>2 DEF Holds
      <4> QED BY <1>3, <1>4, <4>1, <4>2, <4>3
    <3>2. CASE u = t
      <4>1. Token(u)' = nextToken /\ Connect(t) /\ seq' = seq /\ handles' = handles
        BY <1>1, <1>4, <2>1, <3>2, ResultsStep, WhereNext
      <4>2. /\ \A n \in 1..seq : said[n].token < nextToken
            /\ \A h \in handles : h.token < nextToken
        BY DEF TokenInv, TokensKnown
      <4> QED BY <1>1, <1>4, <4>1, <4>2
    <3> QED BY <3>1, <3>2
  <2>2. ASSUME NEW u \in Task, job'[u].pc = "connected", NEW w \in Task
        PROVE  /\ w # u /\ Holds(w)' => Token(w)' # Token(u)'
               /\ Gives(w)' => job'[w].res.conn.token # Token(u)'
    <3>1. CASE u # t
      <4>1. job[u].pc = "connected" /\ Token(u)' = Token(u) /\ Token(u) < nextToken
        BY <1>2, <1>6, <2>2, <3>1 DEF Holds, TokenInv, TokensKnown
      <4>2. /\ \A h \in handles : h.token # Token(u)
            /\ \A v \in Task : v # u /\ Holds(v) => Token(v) # Token(u)
            /\ \A v \in Task : Gives(v) => job[v].res.conn.token # Token(u)
        BY <3>1, <4>1 DEF TokenInv, NotYetTold
      <4>3. CASE w = t
        BY <1>1, <1>3, <3>1, <4>1, <4>2, <4>3 DEF Holds
      <4>4. CASE w # t
        BY <1>2, <1>6, <4>1, <4>2, <4>4
      <4> QED BY <4>3, <4>4
    <3>2. CASE u = t
      <4>1. Token(u)' = nextToken /\ ~Gives(t)'
        BY <1>1, <2>2, <3>2 DEF Gives
      <4>2. w # t => /\ Holds(w)' => Token(w)' < nextToken
                     /\ Gives(w)' => job'[w].res.conn.token < nextToken
        BY <1>2, <1>6 DEF TokenInv, TokensKnown
      <4> QED BY <1>1, <3>2, <4>1, <4>2
    <3> QED BY <3>1, <3>2
  <2> QED BY <2>1, <2>2 DEF NotYetTold
<1>9. SaidOnce'
  <2>1. seq' = seq => SaidOnce'
    BY <1>4 DEF TokenInv, SaidOnce
  <2>2. ASSUME seq' = seq + 1, NEW n \in 1..seq,
               said'[seq + 1].kind \in {"connected", "disconnected"}
        PROVE  \/ said'[n].token # said'[seq + 1].token
               \/ said'[n].kind # said'[seq + 1].kind
    <3>1. said'[n] = said[n]
      BY <1>4
    <3>2. CASE said'[seq + 1].kind = "connected"
      <4>1. job[t].pc = "connected" /\ said'[seq + 1].token = Token(t)
        BY <1>4, <2>2, <3>2
      <4> QED BY <3>1, <4>1 DEF TokenInv, NotYetTold
    <3>3. CASE said'[seq + 1].kind = "disconnected"
      <4>1. TellDisconnected(t) /\ said'[seq + 1].token = Token(t)
        BY <1>4, <2>2, <3>3
      <4>2. job[t].pc = "parted"
        BY <4>1 DEF TellDisconnected, At
      <4> QED BY <3>1, <3>3, <4>1, <4>2 DEF TokenInv, PartsAlone
    <3> QED BY <2>2, <3>2, <3>3
  <2>3. ASSUME seq' = seq + 1 PROVE SaidOnce'
    <3> SUFFICES ASSUME NEW m \in 1..(seq + 1), NEW n \in 1..(seq + 1),
                        said'[m].token = said'[n].token, said'[m].kind = said'[n].kind,
                        said'[m].kind \in {"connected", "disconnected"}
                 PROVE  m = n
      BY <2>3 DEF SaidOnce
    <3>1. CASE m \in 1..seq /\ n \in 1..seq
      BY <1>4, <3>1 DEF TokenInv, SaidOnce
    <3>2. CASE m = seq + 1 /\ n \in 1..seq
      BY <2>2, <2>3, <3>2
    <3>3. CASE n = seq + 1 /\ m \in 1..seq
      BY <2>2, <2>3, <3>3
    <3> QED BY <1>4, <3>1, <3>2, <3>3
  <2> QED BY <1>4, <2>1, <2>3
<1>10. \A n \in 1..seq' : said'[n].kind = "disconnected" =>
         \/ n \in 1..seq /\ said'[n] = said[n]
         \/ n = seq + 1 /\ job[t].pc = "parted" /\ said'[n].token = Token(t)
            /\ connections' = connections
  <2>1. TellDisconnected(t) => job[t].pc = "parted" /\ connections' = connections
    BY DEF TellDisconnected, At, table
  <2> QED BY <1>4, <2>1
<1>11. SaidDead'
  <2> SUFFICES ASSUME NEW n \in 1..seq', said'[n].kind = "disconnected"
               PROVE  said'[n].token \notin connections'
    BY DEF SaidDead
  <2>1. CASE n \in 1..seq /\ said'[n] = said[n]
    <3>1. said[n].token \notin connections /\ said[n].token < nextToken
      BY <2>1 DEF TokenInv, SaidDead, TokensKnown
    <3>2. said[n].token # nextToken
      BY <1>1, <3>1
    <3> QED BY <2>1, <3>1, <3>2, TableStep
  <2>2. CASE n = seq + 1 /\ job[t].pc = "parted" /\ said'[n].token = Token(t)
             /\ connections' = connections
    BY <2>2 DEF TokenInv, PartsAlone
  <2> QED BY <1>10, <2>1, <2>2
<1>12. job'[t].pc = "parted" => /\ Token(t) \in connections /\ Token(t)' = Token(t)
                                /\ connections' = connections \ {Token(t)} /\ seq' = seq
  BY <1>4, TableStep
<1>13. PartsAlone'
  <2>1. ASSUME NEW u \in Task, job'[u].pc = "parted"
        PROVE  /\ Token(u)' \notin connections'
               /\ \A n \in 1..seq' : said'[n].kind = "disconnected" =>
                    said'[n].token # Token(u)'
    <3>1. CASE u # t
      <4>1. job[u].pc = "parted" /\ Token(u)' = Token(u) /\ Token(u) # nextToken
        BY <1>1, <1>2, <1>6, <2>1, <3>1 DEF Holds, Uses, TokenInv, TokensKnown
      <4>2. Token(u)' \notin connections'
        BY <4>1, TableStep DEF TokenInv, PartsAlone
      <4>3. /\ \A n \in 1..seq : said[n].kind = "disconnected" => said[n].token # Token(u)
            /\ job[t].pc = "parted" => Token(t) # Token(u)
        BY <3>1, <4>1 DEF TokenInv, PartsAlone
      <4> QED BY <1>10, <4>1, <4>2, <4>3
    <3>2. CASE u = t
      BY <1>10, <1>12, <2>1, <3>2 DEF TokenInv, SaidDead
    <3> QED BY <3>1, <3>2
  <2>2. ASSUME NEW u \in Task, job'[u].pc = "parted",
               NEW w \in Task, w # u, job'[w].pc = "parted", w # t
        PROVE  Token(w)' # Token(u)'
    <3>1. job[w].pc = "parted" /\ Token(w)' = Token(w) /\ Token(w) \notin connections
      BY <1>2, <1>6, <2>2 DEF TokenInv, PartsAlone
    <3>2. CASE u = t
      BY <1>12, <2>2, <3>1, <3>2
    <3>3. CASE u # t
      BY <1>2, <1>6, <2>2, <3>1, <3>3 DEF TokenInv, PartsAlone
    <3> QED BY <3>2, <3>3
  <2>3. ASSUME NEW u \in Task, job'[u].pc = "parted",
               NEW w \in Task, w # u, job'[w].pc = "parted"
        PROVE  Token(w)' # Token(u)'
    BY <2>2, <2>3
  <2> QED BY <2>1, <2>3 DEF PartsAlone
<1> QED BY <1>7, <1>8, <1>9, <1>11, <1>13 DEF TokenInv


-----------------------------------------------------------------------------
(* Observer o has been told of connection k, and what task t owes it.      *)
Opened(o, k) == \E j \in DOMAIN log[o] : Heard(o, j).token = k
                                         /\ Heard(o, j).kind = "connected"
Owed(t) == said[held[t].seq + 1]

(* A connection is used once every observer knows of it, and what they are *)
(* told of a connection comes after that.                                  *)
OpenedAt(o) ==
  /\ \A h \in handles : Opened(o, h.token)
  /\ \A t \in Task : Uses(t) => Opened(o, Token(t))
  /\ \A t \in Task : Gives(t) =>
       \/ Opened(o, job[t].res.conn.token)
       \/ /\ due[t] \in 1..o /\ Owed(t).kind = "connected"
          /\ Owed(t).token = job[t].res.conn.token
  /\ \A t \in Task : due[t] > 0 =>
       Owed(t).token = 0 \/ Owed(t).kind = "connected" \/ Opened(o, Owed(t).token)
  /\ \A i \in DOMAIN log[o] : Heard(o, i).token > 0 =>
       \E j \in DOMAIN log[o] : /\ j <= i /\ Heard(o, j).token = Heard(o, i).token
                                /\ Heard(o, j).kind = "connected"

OpenInv == \A o \in 1..Fan : OpenedAt(o)

(* What other tasks owe stays what it was.                                 *)
LEMMA OwedKept ==
  ASSUME TypeOK, Log!StreamInv, NEW t \in Task, Silent \/ Adds(t)
  PROVE  /\ \A u \in Task : u # t \/ Silent => due'[u] = due[u]
         /\ \A u \in Task : (u # t \/ Silent) /\ due[u] > 0 => Owed(u)' = Owed(u)
         /\ Adds(t) => due[t] = 0 /\ due'[t] = 1 /\ Owed(t)' = said'[seq + 1]
<1>1. /\ DOMAIN due = Task /\ DOMAIN held = Task
      /\ \A u \in Task : due[u] > 0 => held[u].seq + 1 \in 1..seq
  BY LogFacts
<1>2. \A u \in Task : u # t \/ Silent => due'[u] = due[u] /\ held'[u] = held[u]
  BY <1>1 DEF Silent, Adds
<1>3. \A m \in 1..seq : said'[m] = said[m]
  BY DEF Silent, Adds
<1>4. Adds(t) => due[t] = 0 /\ due'[t] = 1 /\ held'[t].seq = seq
  BY <1>1 DEF Adds
<1> QED BY <1>1, <1>2, <1>3, <1>4 DEF Owed

(* Every step but a delivery keeps each token opened in time. *)
LEMMA OpenStep ==
  ASSUME TypeOK, Log!StreamInv, OpenInv, NEW t \in Task, StepOf(t), ~Deliver(t),
         NEW o \in 1..Fan
  PROVE  OpenedAt(o)'
<1>1. OpenedAt(o)
  BY DEF OpenInv
<1>2. Silent \/ Adds(t)
  BY Talk
<1>3. /\ log' = log /\ \A i \in DOMAIN log[o] : Heard(o, i)' = Heard(o, i)
      /\ \A k : Opened(o, k)' = Opened(o, k)
  <2>1. log' = log /\ \A i \in DOMAIN log[o] : Heard(o, i)' = Heard(o, i)
    BY <1>2, SilentLog
  <2> QED BY <2>1 DEF Opened
<1>4. \A u \in Task : u # t => job'[u] = job[u]
  BY OthersWait
<1>5. \A h \in handles' : Opened(o, h.token)'
  <2>1. \A h \in handles' : h \in handles \/ (Gives(t) /\ due[t] = 0 /\ h = job[t].res.conn)
    <3>1. \/ handles' = handles
          \/ Gives(t) /\ due[t] = 0 /\ handles' = handles \union {job[t].res.conn}
      BY ConnStep, Zenon
    <3> QED BY <3>1
  <2>2. Gives(t) /\ due[t] = 0 => Opened(o, job[t].res.conn.token)
    BY <1>1 DEF OpenedAt
  <2>3. \A h \in handles' : Opened(o, h.token)
    BY <1>1, <2>1, <2>2 DEF OpenedAt
  <2> QED BY <1>3, <2>3
<1>6. ASSUME NEW u \in Task, Uses(u)'
      PROVE  Opened(o, Token(u))'
  <2>1. CASE u # t
    <3>1. Uses(u) /\ Token(u)' = Token(u)
      BY <1>4, <1>6, <2>1 DEF Uses, Token
    <3>2. Opened(o, Token(u))
      BY <1>1, <3>1 DEF OpenedAt
    <3> QED BY <1>3, <3>1, <3>2
  <2>2. CASE u = t
    <3>1. \/ Uses(t) /\ Token(t)' = Token(t)
          \/ \E h \in handles : Token(t)' = h.token
      BY <1>6, <2>2, ConnStep DEF Token
    <3>2. \E k : k = Token(t)' /\ Opened(o, k)
      BY <1>1, <3>1 DEF OpenedAt
    <3> QED BY <1>3, <2>2, <3>2
  <2> QED BY <2>1, <2>2
<1>7. ASSUME NEW u \in Task, Gives(u)'
      PROVE  \/ Opened(o, job[u].res.conn.token)'
             \/ /\ due'[u] \in 1..o /\ Owed(u)'.kind = "connected"
                /\ Owed(u)'.token = job'[u].res.conn.token
  <2>1. CASE u # t
    <3>1. Gives(u) /\ job'[u] = job[u]
      BY <1>4, <1>7, <2>1 DEF Gives
    <3>2. CASE Opened(o, job[u].res.conn.token)
      BY <1>3, <3>1, <3>2
    <3>3. CASE /\ due[u] \in 1..o /\ Owed(u).kind = "connected"
               /\ Owed(u).token = job[u].res.conn.token
      BY <1>2, <2>1, <3>1, <3>3, OwedKept
    <3> QED BY <1>1, <3>1, <3>2, <3>3 DEF OpenedAt
  <2>2. CASE u = t
    <3>1. TellConnected(t) /\ job'[t].res.conn = job[t].conn
      BY <1>7, <2>2, ConnStep
    <3>2. Adds(t) /\ said'[seq + 1].token = job[t].conn.token
          /\ said'[seq + 1].kind = "connected"
      BY <3>1, Emissions
    <3> QED BY <2>2, <3>1, <3>2, OwedKept
  <2> QED BY <2>1, <2>2
<1>8. ASSUME NEW u \in Task, due'[u] > 0
      PROVE  \/ Owed(u)'.token = 0 \/ Owed(u)'.kind = "connected"
             \/ \E k : k = Owed(u)'.token /\ Opened(o, k)
  <2>1. CASE u # t \/ Silent
    <3>1. due[u] > 0 /\ Owed(u)' = Owed(u)
      BY <1>2, <1>8, <2>1, OwedKept
    <3> QED BY <1>1, <3>1 DEF OpenedAt
  <2>2. CASE u = t /\ Adds(t)
    <3>1. Owed(t)' = said'[seq + 1]
      BY <2>2, OwedKept
    <3>2. Uses(t) => Opened(o, Token(t))
      BY <1>1 DEF OpenedAt
    <3>3. ~Silent
      BY <2>2 DEF Silent, Adds, TypeOK
    <3> QED BY <2>2, <3>1, <3>2, <3>3, Talk DEF Token
  <2> QED BY <1>2, <2>1, <2>2
<1>9. \A i \in DOMAIN log'[o] : Heard(o, i)'.token > 0 =>
       \E j \in DOMAIN log'[o] : /\ j <= i /\ Heard(o, j)'.token = Heard(o, i)'.token
                                 /\ Heard(o, j)'.kind = "connected"
  BY <1>1, <1>3 DEF OpenedAt
<1>10. \A u \in Task : due'[u] > 0 =>
         Owed(u)'.token = 0 \/ Owed(u)'.kind = "connected" \/ Opened(o, Owed(u).token)'
  BY <1>3, <1>8
<1> QED BY <1>5, <1>6, <1>7, <1>9, <1>10 DEF OpenedAt

(* A delivery tells one observer more.                                     *)
LEMMA OpenDeliver ==
  ASSUME TypeOK, Log!StreamInv, OpenInv, NEW t \in Task, Deliver(t)
  PROVE  OpenInv'
<1>1. PICK p \in 1..Fan :
           /\ due[t] = p /\ held' = held /\ said' = said /\ seq' = seq
           /\ due'[t] = IF p = Fan THEN 0 ELSE p + 1
           /\ \A u \in Task : u # t => due'[u] = due[u]
           /\ DOMAIN log'[p] = (1..Len(log[p])) \union {Len(log[p]) + 1}
           /\ \A m : m = Len(log[p]) + 1 => Heard(p, m)' = said[held[t].seq + 1]
           /\ \A q \in 1..Fan : q # p => log'[q] = log[q]
           /\ \A q \in 1..Fan : \A i \in DOMAIN log[q] :
                i \in DOMAIN log'[q] /\ Heard(q, i)' = Heard(q, i)
  BY DeliverLog, Zenon
<1>2. UNCHANGED <<handles, job>>
  BY DEF Deliver
<1>3. \A u \in Task : Owed(u)' = Owed(u)
  BY <1>1 DEF Owed
<1>4. SUFFICES ASSUME NEW o \in 1..Fan PROVE OpenedAt(o)'
  BY DEF OpenInv
<1>5. OpenedAt(o) /\ Fan \in Nat /\ due \in [Task -> 0..Fan]
  BY LogFacts, MockAssumption DEF OpenInv
<1>6. DOMAIN log[o] = 1..Len(log[o]) /\ Len(log[o]) \in Nat
  BY LogFacts
<1>7. \A k : Opened(o, k) => Opened(o, k)'
  BY <1>1 DEF Opened
<1>8. o = p => /\ \A m : m = Len(log[p]) + 1 => Heard(o, m)' = Owed(t)
               /\ DOMAIN log'[o] = (1..Len(log[o])) \union {Len(log[o]) + 1}
  BY <1>1 DEF Owed
<1>9. o = p /\ Owed(t).kind = "connected" => Opened(o, Owed(t).token)'
  <2>1. \A k : o = p /\ Owed(t).kind = "connected" /\ Owed(t).token = k => Opened(o, k)'
    <3>1. PICK m : m = Len(log[p]) + 1
      OBVIOUS
    <3>2. o = p => m \in DOMAIN log'[o] /\ Heard(o, m)' = Owed(t)
      BY <1>8, <3>1
    <3> QED BY <3>2 DEF Opened
  <2> QED BY <1>3, <2>1
<1>10. /\ \A h \in handles' : Opened(o, h.token)'
       /\ \A u \in Task : Uses(u)' => Opened(o, Token(u))'
  BY <1>2, <1>5, <1>7 DEF OpenedAt, Uses, Token
<1>11. ASSUME NEW u \in Task, Gives(u)'
       PROVE  \/ Opened(o, job[u].res.conn.token)'
              \/ /\ due'[u] \in 1..o /\ Owed(u)'.kind = "connected"
                 /\ Owed(u)'.token = job'[u].res.conn.token
  <2>1. Gives(u) /\ job'[u] = job[u]
    BY <1>2, <1>11 DEF Gives
  <2>2. CASE Opened(o, job[u].res.conn.token)
    BY <1>7, <2>1, <2>2
  <2>3. CASE /\ due[u] \in 1..o /\ Owed(u).kind = "connected"
             /\ Owed(u).token = job[u].res.conn.token
    <3>1. CASE u # t
      BY <1>1, <1>3, <2>1, <2>3, <3>1
    <3>2. CASE u = t /\ o = p
      BY <1>3, <1>9, <2>1, <2>3, <3>2
    <3>3. CASE u = t /\ o # p
      <4>1. due'[t] \in 1..o
        BY <1>1, <1>5, <2>3, <3>3
      <4> QED BY <1>3, <2>1, <2>3, <3>3, <4>1
    <3> QED BY <3>1, <3>2, <3>3
  <2> QED BY <1>5, <2>1, <2>2, <2>3 DEF OpenedAt
<1>12. ASSUME NEW u \in Task, due'[u] > 0
       PROVE  \/ Owed(u)'.token = 0 \/ Owed(u)'.kind = "connected"
              \/ Opened(o, Owed(u).token)'
  <2>1. due[u] > 0
    BY <1>1, <1>5, <1>12
  <2> QED BY <1>3, <1>5, <1>7, <2>1 DEF OpenedAt
<1>13. ASSUME NEW i \in DOMAIN log'[o], Heard(o, i)'.token > 0
       PROVE  \E j \in DOMAIN log'[o] : /\ j <= i /\ Heard(o, j)'.token = Heard(o, i)'.token
                                        /\ Heard(o, j)'.kind = "connected"
  <2>1. CASE i \in DOMAIN log[o]
    <3>1. Heard(o, i)' = Heard(o, i)
      BY <1>1, <2>1
    <3>2. PICK j \in DOMAIN log[o] : /\ j <= i /\ Heard(o, j).token = Heard(o, i).token
                                     /\ Heard(o, j).kind = "connected"
      BY <1>5, <1>13, <2>1, <3>1 DEF OpenedAt
    <3> QED BY <1>1, <3>1, <3>2
  <2>2. CASE i \notin DOMAIN log[o]
    <3>1. o = p /\ i = Len(log[o]) + 1
      BY <1>1, <1>6, <1>13, <2>2
    <3>2. Heard(o, i)' = Owed(t)
      BY <1>8, <3>1
    <3>3. CASE Owed(t).kind = "connected"
      BY <1>6, <3>1, <3>2, <3>3
    <3>4. CASE Opened(o, Owed(t).token)
      <4>1. PICK j \in DOMAIN log[o] : Heard(o, j).token = Owed(t).token
                                       /\ Heard(o, j).kind = "connected"
        BY <3>4 DEF Opened
      <4>2. j <= i /\ j \in DOMAIN log'[o] /\ Heard(o, j)' = Heard(o, j)
        BY <1>1, <1>6, <3>1, <4>1
      <4> QED BY <3>2, <4>1, <4>2
    <3> QED BY <1>1, <1>5, <1>13, <3>1, <3>2, <3>3, <3>4 DEF OpenedAt
  <2> QED BY <2>1, <2>2
<1> QED BY <1>10, <1>11, <1>12, <1>13 DEF OpenedAt

(* Every step keeps tokens and their announcements in order. *)
LEMMA LinkStep ==
  ASSUME TypeOK, Log!StreamInv, TokenInv, OpenInv, [Next]_vars
  PROVE  TokenInv' /\ OpenInv'
<1>1. ASSUME NEW t \in Task, Deliver(t)
      PROVE  TokenInv' /\ OpenInv'
  <2>1. UNCHANGED <<seq, said, connections, nextToken, handles, job>>
    BY <1>1 DEF Deliver, Stream!Deliver, table
  <2>2. TokenInv'
    BY <2>1 DEF TokenInv, TokensKnown, NotYetTold, SaidOnce, SaidDead, PartsAlone,
                Holds, Uses, Gives, Token
  <2> QED BY <1>1, <2>2, OpenDeliver
<1>2. ASSUME NEW t \in Task, StepOf(t), ~Deliver(t)
      PROVE  TokenInv' /\ OpenInv'
  BY <1>2, TokenStep, OpenStep DEF OpenInv
<1>3. ASSUME UNCHANGED vars
      PROVE  TokenInv' /\ OpenInv'
  <2>1. UNCHANGED <<seq, said, held, due, log, connections, nextToken, handles, job>>
    BY <1>3 DEF vars, streamVars, table
  <2>2. TokenInv'
    BY <2>1 DEF TokenInv, TokensKnown, NotYetTold, SaidOnce, SaidDead, PartsAlone,
                Holds, Uses, Gives, Token
  <2>3. OpenInv'
    BY <2>1 DEF OpenInv, OpenedAt, Opened, Owed, Heard, Uses, Gives, Token
  <2> QED BY <2>2, <2>3
<1> QED BY <1>1, <1>2, <1>3 DEF Next, StepOf

(* A set without two members has at most one.                              *)
LEMMA AtMostOne ==
  ASSUME NEW S, \A x, y \in S : x = y
  PROVE  Cardinality(S) <= 1
<1>1. CASE S = {}
  BY <1>1, FS_EmptySet
<1>2. CASE S # {}
  <2>1. PICK x \in S : S = {x}
    BY <1>2
  <2> QED BY <2>1, FS_Singleton
<1> QED BY <1>1, <1>2

(* In order, they live as LinkLife says. *)
LEMMA LinksHold ==
  ASSUME TypeOK, Log!StreamInv, TokenInv, OpenInv
  PROVE  LinkLife
<1> SUFFICES ASSUME NEW o \in 1..Fan, NEW k \in 1..(nextToken - 1)
             PROVE  /\ Cardinality(Told(o, k, "connected")) <= 1
                    /\ Cardinality(Told(o, k, "disconnected")) <= 1
                    /\ k \in connections => Told(o, k, "disconnected") = {}
                    /\ \A i \in DOMAIN log[o] : Heard(o, i).token = k =>
                         \E j \in Told(o, k, "connected") : j <= i
  BY DEF LinkLife
<1>1. /\ seq \in Nat /\ \A i \in DOMAIN log[o] : log[o][i].seq \in 0..(seq - 1)
      /\ \A i, j \in DOMAIN log[o] : log[o][i].seq = log[o][j].seq => i = j
  BY LogFacts
<1>2. \A kind \in {"connected", "disconnected"} :
        Cardinality(Told(o, k, kind)) <= 1
  <2> SUFFICES ASSUME NEW kind \in {"connected", "disconnected"},
                      NEW i \in Told(o, k, kind), NEW j \in Told(o, k, kind)
               PROVE  i = j
    BY AtMostOne
  <2>1. /\ i \in DOMAIN log[o] /\ j \in DOMAIN log[o]
        /\ Heard(o, i).token = Heard(o, j).token /\ Heard(o, i).kind = Heard(o, j).kind
        /\ Heard(o, i).kind \in {"connected", "disconnected"}
    BY DEF Told
  <2>2. log[o][i].seq + 1 \in 1..seq /\ log[o][j].seq + 1 \in 1..seq
    BY <1>1, <2>1
  <2>3. log[o][i].seq + 1 = log[o][j].seq + 1
    BY <2>1, <2>2 DEF TokenInv, SaidOnce, Heard
  <2> QED BY <1>1, <2>1, <2>3
<1>3. k \in connections => Told(o, k, "disconnected") = {}
  <2>1. \A i \in DOMAIN log[o] : log[o][i].seq + 1 \in 1..seq
    BY <1>1
  <2> QED BY <2>1 DEF TokenInv, SaidDead, Told, Heard
<1>4. \A i \in DOMAIN log[o] : Heard(o, i).token = k =>
        \E j \in Told(o, k, "connected") : j <= i
  BY DEF OpenInv, OpenedAt, Told
<1> QED BY <1>2, <1>3, <1>4

(* Each connection's life is what LinkLife says, however many tasks use,   *)
(* clone and close its handles.                                            *)
THEOREM LinkLifeCorrect == Spec => []LinkLife
<1>1. Init => TokenInv /\ OpenInv
  <2> SUFFICES ASSUME Init PROVE TokenInv /\ OpenInv
    OBVIOUS
  <2>1. /\ seq = 0 /\ handles = {} /\ \A t \in Task : job[t].pc = "idle" /\ due[t] = 0
        /\ \A o \in 1..Fan : log[o] = <<>>
    BY DEF Init, Stream!Init, Stream!Observers, Idle
  <2>2. TokenInv
    BY <2>1 DEF TokenInv, TokensKnown, NotYetTold, SaidOnce, SaidDead, PartsAlone,
                Holds, Uses, Gives
  <2>3. \A o \in 1..Fan : DOMAIN log[o] = {}
    BY <2>1
  <2> QED BY <2>1, <2>2, <2>3 DEF OpenInv, OpenedAt, Uses, Gives
<1> QED BY <1>1, LinkStep, LinksHold, TypeCorrect, LogCorrect, PTL DEF Spec

-----------------------------------------------------------------------------
(* Arithmetic of chunks. *)

(* What a quotient is, by the bounds of the product. *)
LEMMA Quotient ==
  ASSUME NEW a \in Nat, NEW b \in Nat \ {0}, NEW q \in Nat,
         q * b <= a, a < q * b + b
  PROVE  a \div b = q
<1>1. a = b * (a \div b) + (a % b) /\ a % b \in 0..(b - 1) /\ a \div b \in Nat
  OBVIOUS
<1> DEFINE d == a \div b
<1> HIDE DEF d
<1>2. d \in Nat /\ b * d <= a /\ a < b * d + b
  BY <1>1 DEF d
<1>3. ~(d < q)
  <2>1. d < q => b * (d + 1) <= b * q
    BY <1>2
  <2> QED BY <1>2, <2>1
<1>4. ~(q < d)
  <2>1. q < d => b * (q + 1) <= b * d
    BY <1>2
  <2> QED BY <1>2, <2>1
<1> QED BY <1>2, <1>3, <1>4 DEF d

(* One more chunk.                                                         *)
LEMMA OneMore ==
  ASSUME NEW n \in Nat, NEW c \in Nat
  PROVE  /\ c * (n + 1) = c * n + c /\ c * n \in Nat
         /\ c * ((n + 1) - 1) = c * n
         /\ (n + 1) * c = n * c + c /\ n * c \in Nat /\ n * c = c * n
OBVIOUS

-----------------------------------------------------------------------------
(* Pushes. *)

Pushing(t) ==
  \/ job[t].pc \in {"push_start", "push_open", "chunk", "progress", "push_close"}
  \/ job[t].pc = "return" /\ job[t].res.op = "push"

(* A push has its receipt.                                                 *)
Counted(t) == job[t].pc \in {"push_close", "return"}

(* The bytes and the chunks push t counts, of a file for device To(t).     *)
To(t)    == IF Counted(t) THEN job[t].res.peer ELSE job[t].conn.peer
Bytes(t) == IF Counted(t) THEN job[t].res.bytes ELSE job[t].sent
Count(t) == IF Counted(t) THEN job[t].res.chunks ELSE job[t].chunks

Total(t) == job[t].arg.total

Goes(t) == /\ job'[t].conn = job[t].conn /\ job'[t].arg = job[t].arg
           /\ job'[t].call = job[t].call

(* The steps of a push.                                                    *)
LEMMA PushStep ==
  ASSUME TypeOK, NEW t \in Task, StepOf(t), ~Deliver(t), Pushing(t)'
  PROVE  \/ /\ CheckPush(t) /\ job[t].pc = "push" /\ job'[t].pc = "push_start" /\ Goes(t)
            /\ job'[t].sent = 0 /\ job'[t].chunks = 0 /\ job'[t].start = 0
            /\ clock' = clock
         \/ /\ ReadStart(t) /\ job[t].pc = "push_start" /\ job'[t].pc = "push_open"
            /\ Goes(t) /\ job'[t].sent = job[t].sent /\ job'[t].chunks = job[t].chunks
            /\ job'[t].start = clock /\ clock' = clock
         \/ /\ \/ OpenTransfer(t) /\ job[t].pc = "push_open" /\ clock' = clock + StepTime
               \/ TellProgress(t) /\ job[t].pc = "progress" /\ clock' = clock
            /\ job'[t].pc = "chunk" /\ Goes(t) /\ job'[t].sent = job[t].sent
            /\ job'[t].chunks = job[t].chunks /\ job'[t].start = job[t].start
         \/ /\ SendChunk(t) /\ job[t].pc = "chunk" /\ job'[t].pc = "progress" /\ Goes(t)
            /\ job'[t].sent = job[t].sent + Piece(t)
            /\ job'[t].chunks = job[t].chunks + 1 /\ job'[t].start = job[t].start
            /\ clock' = clock + Latency[job[t].conn.peer]
         \/ /\ TransferDrops(t) /\ job[t].pc = "chunk" /\ job'[t].pc = "return"
            /\ job'[t].call = job[t].call /\ job'[t].res = PushResult(t, FALSE, 0)
         \/ /\ ReadDuration(t) /\ job[t].pc = "chunk" /\ job'[t].pc = "push_close"
            /\ job'[t].call = job[t].call
            /\ job'[t].res = PushResult(t, TRUE, clock - job[t].start)
         \/ /\ CloseTransfer(t) /\ job[t].pc = "push_close" /\ job'[t].pc = "return"
            /\ job'[t].call = job[t].call /\ job'[t].res = job[t].res
<1>0. Idle.pc = "idle"
  BY DEF Idle
<1>1. \/ CheckPush(t) \/ ReadStart(t) \/ OpenTransfer(t) \/ SendChunk(t)
      \/ TransferDrops(t) \/ TellProgress(t) \/ ReadDuration(t) \/ CloseTransfer(t)
  <2>1. CASE job'[t].pc = "return" /\ job'[t].res.op = "push"
    BY <2>1, Outcomes
  <2>2. CASE job'[t].pc \in {"push_start", "push_open", "chunk", "progress", "push_close"}
    BY <1>0, <2>2, WhereNext DEF StepOf, Moves, Answers
  <2> QED BY <2>1, <2>2 DEF Pushing
<1>2. CASE CheckPush(t)
  <2>1. job'[t].pc = "push_start"
    BY <1>2, Outcomes, WhereNext DEF Pushing
  <2>2. job[t].conn.token \in connections
    <3>1. \A r : Answer(t, r) => job'[t].pc = "return"
      BY DEF Answer, TypeOK
    <3> QED BY <1>2, <2>1, <3>1 DEF CheckPush
  <2>3. job'[t] = [pc |-> "push_start", call |-> job[t].call, arg |-> job[t].arg,
                   conn |-> job[t].conn, sent |-> 0, chunks |-> 0, start |-> 0]
    BY <1>2, <2>2 DEF CheckPush, TypeOK
  <2> QED BY <1>2, <2>3 DEF Goes, CheckPush, At, streamVars
<1>3. CASE ReadStart(t)
  <2>1. job[t] \in Sending(t) /\ job[t].pc = "push_start"
    BY <1>3, SendingFields DEF ReadStart, At
  <2> QED BY <1>3, <2>1 DEF ReadStart, streamVars, TypeOK, Sending, Goes
<1>4. CASE OpenTransfer(t) \/ TellProgress(t)
  <2>1. job[t] \in Sending(t) /\ job[t].pc \in {"push_open", "progress"}
        /\ Goto(t, "chunk")
    BY <1>4, SendingFields DEF OpenTransfer, TellProgress, At
  <2>2. /\ OpenTransfer(t) => job[t].pc = "push_open" /\ clock' = clock + StepTime
        /\ TellProgress(t) => job[t].pc = "progress" /\ clock' = clock
    BY DEF OpenTransfer, TellProgress, At, PushEmit, Emit, Stream!Stamp, TypeOK
  <2> QED BY <1>4, <2>1, <2>2, GotoKeeps DEF Goes
<1>5. CASE SendChunk(t)
  <2>1. job[t] \in Sending(t) /\ job[t].pc = "chunk"
    BY <1>5, SendingFields DEF SendChunk, At
  <2>2. clock' = clock + Latency[job[t].conn.peer]
    BY <1>5 DEF SendChunk, PushEmit, Emit, Stream!Stamp
  <2>3. job' = [job EXCEPT ![t].pc = "progress", ![t].sent = @ + Piece(t),
                        ![t].chunks = @ + 1]
    BY <1>5 DEF SendChunk
  <2>4. /\ job'[t].pc = "progress" /\ Goes(t)
        /\ job'[t].sent = job[t].sent + Piece(t)
        /\ job'[t].chunks = job[t].chunks + 1 /\ job'[t].start = job[t].start
    BY <2>1, <2>3 DEF TypeOK, Sending, Goes
  <2> QED BY <1>5, <2>1, <2>2, <2>4
<1>6. ASSUME NEW r, Answer(t, r)
      PROVE  job'[t].pc = "return" /\ job'[t].call = job[t].call /\ job'[t].res = r
  BY <1>6 DEF Answer, TypeOK
<1>7. CASE TransferDrops(t)
  BY <1>6, <1>7 DEF TransferDrops, At
<1>8. CASE CloseTransfer(t)
  BY <1>6, <1>8 DEF CloseTransfer, At
<1>9. CASE ReadDuration(t)
  <2>1. job'[t] = [pc |-> "push_close", call |-> job[t].call, conn |-> job[t].conn,
                   res |-> PushResult(t, TRUE, clock - job[t].start)]
    BY <1>9 DEF ReadDuration, TypeOK
  <2>2. /\ job'[t].pc = "push_close" /\ job'[t].call = job[t].call
        /\ job'[t].res = PushResult(t, TRUE, clock - job[t].start)
    BY <2>1
  <2> QED BY <1>9, <2>2 DEF ReadDuration, At
<1> QED BY <1>1, <1>2, <1>3, <1>4, <1>5, <1>7, <1>8, <1>9

(* n chunks of at most c bytes carry `sent` bytes of a file of `total`.    *)
Cut(total, c, sent, n) ==
  \/ sent = c * n /\ c * n <= total
  \/ sent = total /\ n > 0 /\ c * (n - 1) < total /\ total <= c * n

(* The next piece is a whole chunk or the rest.                            *)
LEMMA CutGrows ==
  ASSUME NEW total \in Nat, NEW c \in Nat \ {0}, NEW sent \in Nat, NEW n \in Nat,
         Cut(total, c, sent, n), NEW p \in Int, p > 0,
         p = IF c < total - sent THEN c ELSE total - sent
  PROVE  /\ Cut(total, c, sent + p, n + 1)
         /\ sent = c * n /\ sent < total /\ sent + p <= total /\ p <= c
<1>1. sent = c * n /\ sent < total /\ sent + p <= total /\ p <= c
  BY DEF Cut
<1>2. c * (n + 1) = c * n + c /\ c * n \in Nat /\ c * ((n + 1) - 1) = c * n
  BY OneMore
<1>3. CASE c < total - sent
  BY <1>1, <1>2, <1>3 DEF Cut
<1>4. CASE ~(c < total - sent)
  BY <1>1, <1>2, <1>4 DEF Cut
<1> QED BY <1>1, <1>3, <1>4

(* When no piece is left the file is sent, in as few chunks as it takes.   *)
LEMMA CutEnds ==
  ASSUME NEW total \in Nat, NEW c \in Nat \ {0}, NEW sent \in Nat, NEW n \in Nat,
         Cut(total, c, sent, n),
         0 = IF c < total - sent THEN c ELSE total - sent
  PROVE  sent = total /\ n = (total + c - 1) \div c
<1>1. sent = total /\ c * n \in Nat /\ n * c = c * n /\ (n > 0 => c * n = c * (n - 1) + c)
      /\ (n = 0 => c * n = 0) /\ c * (n - 1) \in Int
  <2>1. n > 0 => n - 1 \in Nat /\ (n - 1) + 1 = n
    OBVIOUS
  <2>2. n > 0 => c * ((n - 1) + 1) = c * (n - 1) + c
    BY <2>1, OneMore
  <2>3. n > 0 => c * n = c * (n - 1) + c
    BY <2>1, <2>2
  <2> QED BY <2>3, OneMore
<1>2. n * c <= total + c - 1 /\ total + c - 1 < n * c + c
  BY <1>1 DEF Cut
<1>3. total + c - 1 \in Nat
  OBVIOUS
<1> QED BY <1>1, <1>2, <1>3, Quotient

(* When the link drops, the chunks sent are those the limit lets through.  *)
LEMMA CutDrops ==
  ASSUME NEW total \in Nat, NEW c \in Nat \ {0}, NEW sent \in Nat, NEW n \in Nat,
         Cut(total, c, sent, n), NEW p \in Int, p > 0,
         p = IF c < total - sent THEN c ELSE total - sent,
         NEW lim \in Nat, sent <= lim, sent + p > lim
  PROVE  lim < total /\ sent = c * n /\ n = lim \div c
<1>1. sent = c * n /\ sent + p <= total /\ p <= c
  BY DEF Cut
<1>2. n * c = c * n /\ c * n \in Nat
  BY OneMore
<1>3. n * c <= lim /\ lim < n * c + c
  BY <1>1, <1>2
<1> QED BY <1>1, <1>3, Quotient

(* No step of a task sets the clock back. *)
LEMMA ClockGrows ==
  ASSUME TypeOK, NEW t \in Task, StepOf(t)
  PROVE  clock' \in Nat /\ clock <= clock'
<1>1. [Stream!Step]_(Stream!streamVars)
  BY StreamStep DEF Next, StepOf
<1> QED BY <1>1, TicksType
        DEF Stream!Step, Stream!streamVars, Stream!Stamp, Stream!Deliver,
            Stream!Advance, TypeOK

(* How far push t has come.                                                *)
SendOf(t) ==
  LET c == ChunkSize(To(t))
  IN  /\ Cut(Total(t), c, Bytes(t), Count(t))
      /\ Limit(t) # Never => Bytes(t) <= Limit(t)
      /\ job[t].start <= clock
      /\ job[t].pc \in {"push_start", "push_open"} => Bytes(t) = 0 /\ Count(t) = 0
      /\ job[t].pc \in {"chunk", "progress"} =>
           clock >= job[t].start + StepTime + Count(t) * Latency[To(t)]

SendInv ==
  /\ \A t \in Task : Pushing(t) =>
       IF Counted(t) THEN MatchesLink(job[t].res) ELSE SendOf(t)
  /\ \A r \in results : r.op = "push" => MatchesLink(r)

(* What SendOf speaks of.                                                  *)
LEMMA SendTypes ==
  ASSUME TypeOK, NEW t \in Task, Pushing(t), ~Counted(t)
  PROVE  /\ To(t) = job[t].conn.peer /\ Bytes(t) = job[t].sent /\ Count(t) = job[t].chunks
         /\ To(t) \in Device /\ Bytes(t) \in Nat /\ Count(t) \in Nat
         /\ Total(t) \in Nat /\ job[t].start \in Nat
         /\ ChunkSize(To(t)) \in Nat \ {0} /\ Latency[To(t)] \in Nat
         /\ Limit(t) \in Nat \union {Never} /\ Limit(t) = LinkLimit[To(t)]
         /\ Piece(t) = IF ChunkSize(To(t)) < Total(t) - Bytes(t)
                       THEN ChunkSize(To(t)) ELSE Total(t) - Bytes(t)
<1>1. job[t].pc \in {"push_start", "push_open", "chunk", "progress"}
  BY DEF Pushing, Counted
<1>2. /\ To(t) = job[t].conn.peer /\ Bytes(t) = job[t].sent /\ Count(t) = job[t].chunks
      /\ To(t) \in Device /\ Bytes(t) \in Nat /\ Count(t) \in Nat
      /\ Total(t) \in Nat /\ job[t].start \in Nat
  BY <1>1, SendingFields DEF To, Bytes, Count, Total, Counted
<1>3. /\ Chunk[To(t)] \in Nat /\ Latency[To(t)] \in Nat
      /\ LinkLimit[To(t)] \in Nat \union {Never}
  BY <1>2, MockAssumption
<1> QED BY <1>2, <1>3 DEF ChunkSize, Limit, Piece, Total

(* The sender's own step.                                                  *)
LEMMA SendStep ==
  ASSUME TypeOK, SendInv, NEW t \in Task, StepOf(t), ~Deliver(t), Pushing(t)'
  PROVE  (IF Counted(t) THEN MatchesLink(job[t].res) ELSE SendOf(t))'
<1> DEFINE c == ChunkSize(job[t].conn.peer)
<1>1. clock \in Nat /\ clock' \in Nat /\ clock <= clock'
  BY ClockGrows DEF TypeOK
<1>2. CASE CheckPush(t)
  <2>1. job'[t].pc = "push_start" /\ Goes(t) /\ job[t].pc = "push"
        /\ job'[t].sent = 0 /\ job'[t].chunks = 0 /\ job'[t].start = 0
    BY <1>2, PushStep, WhereNext
  <2>2. /\ ~Counted(t)' /\ To(t)' = job[t].conn.peer /\ Bytes(t)' = 0 /\ Count(t)' = 0
        /\ Total(t)' = Total(t) /\ Limit(t)' = Limit(t)
    BY <2>1 DEF Counted, To, Bytes, Count, Total, Goes, Limit
  <2>3. Total(t) \in Nat /\ job[t].conn.peer \in Device
    BY <2>1, JobShape, CallsType, CallFields
       DEF TypeOK, Fits, Using, Handle, Total
  <2>4. c \in Nat \ {0} /\ Limit(t) \in Nat \union {Never}
    BY <2>3, MockAssumption DEF ChunkSize, Limit
  <2>5. Cut(Total(t), c, 0, 0)
    BY <2>3, <2>4 DEF Cut
  <2> QED BY <1>1, <2>1, <2>2, <2>4, <2>5 DEF SendOf
<1>3. CASE ReadStart(t) \/ OpenTransfer(t) \/ TellProgress(t)
  <2>1. Pushing(t) /\ ~Counted(t) /\ ~Counted(t)'
    BY <1>3, WhereNext DEF Pushing, Counted
  <2>2. SendOf(t)
    BY <2>1 DEF SendInv
  <2>3. /\ Goes(t) /\ job'[t].sent = job[t].sent /\ job'[t].chunks = job[t].chunks
        /\ \/ /\ job[t].pc = "push_start" /\ job'[t].pc = "push_open"
              /\ job'[t].start = clock /\ clock' = clock
           \/ /\ job[t].pc = "push_open" /\ job'[t].pc = "chunk"
              /\ job'[t].start = job[t].start /\ clock' = clock + StepTime
           \/ /\ job[t].pc = "progress" /\ job'[t].pc = "chunk"
              /\ job'[t].start = job[t].start /\ clock' = clock
    BY <1>3, PushStep, WhereNext
  <2>4. /\ To(t)' = To(t) /\ Bytes(t)' = Bytes(t) /\ Count(t)' = Count(t)
        /\ Total(t)' = Total(t) /\ Limit(t)' = Limit(t)
    BY <2>1, <2>3 DEF To, Bytes, Count, Total, Goes, Limit
  <2>5. 0 * Latency[To(t)] = 0
    BY <2>1, SendTypes
  <2>6. job'[t].start <= clock'
    BY <1>1, <2>1, <2>2, <2>3, SendTypes DEF SendOf, StepTime
  <2>7. job'[t].pc \in {"chunk", "progress"} =>
          clock' >= job'[t].start + StepTime + Count(t) * Latency[To(t)]
    BY <1>1, <2>1, <2>2, <2>3, <2>5, SendTypes DEF SendOf, StepTime
  <2>8. job'[t].pc \in {"push_start", "push_open"} => Bytes(t) = 0 /\ Count(t) = 0
    BY <2>2, <2>3 DEF SendOf
  <2> QED BY <2>1, <2>2, <2>4, <2>6, <2>7, <2>8 DEF SendOf
<1>4. CASE SendChunk(t)
  <2>1. Pushing(t) /\ ~Counted(t) /\ ~Counted(t)' /\ job[t].pc = "chunk"
    BY <1>4, WhereNext DEF Pushing, Counted
  <2>2. SendOf(t)
    BY <2>1 DEF SendInv
  <2>3. /\ Goes(t) /\ job'[t].pc = "progress" /\ job'[t].sent = job[t].sent + Piece(t)
        /\ job'[t].chunks = job[t].chunks + 1 /\ job'[t].start = job[t].start
        /\ clock' = clock + Latency[job[t].conn.peer]
    BY <1>4, PushStep, WhereNext
  <2>4. /\ To(t)' = To(t) /\ Bytes(t)' = Bytes(t) + Piece(t) /\ Count(t)' = Count(t) + 1
        /\ Total(t)' = Total(t) /\ Limit(t)' = Limit(t)
    BY <2>1, <2>3 DEF To, Bytes, Count, Total, Goes, Limit
  <2>5. /\ Piece(t) \in Int /\ Piece(t) > 0
        /\ Limit(t) # Never => Bytes(t) + Piece(t) <= Limit(t)
    BY <1>4, <2>1, SendTypes DEF SendChunk, LinkDrops
  <2>6. Cut(Total(t), ChunkSize(To(t)), Bytes(t) + Piece(t), Count(t) + 1)
    BY <2>1, <2>2, <2>5, SendTypes, CutGrows DEF SendOf
  <2>7. (Count(t) + 1) * Latency[To(t)] = Count(t) * Latency[To(t)] + Latency[To(t)]
    BY <2>1, SendTypes, OneMore
  <2>8. clock' >= job'[t].start + StepTime + (Count(t) + 1) * Latency[To(t)]
    BY <1>1, <2>1, <2>2, <2>3, <2>7, SendTypes DEF SendOf, StepTime
  <2>9. job'[t].start <= clock'
    BY <1>1, <2>1, <2>2, <2>3, SendTypes DEF SendOf
  <2> QED BY <2>1, <2>3, <2>4, <2>5, <2>6, <2>8, <2>9 DEF SendOf
<1>5. CASE TransferDrops(t)
  <2>1. Pushing(t) /\ ~Counted(t) /\ Counted(t)' /\ job[t].pc = "chunk"
    BY <1>5, WhereNext DEF Pushing, Counted
  <2>2. SendOf(t)
    BY <2>1 DEF SendInv
  <2>3. job'[t].res = PushResult(t, FALSE, 0)
    BY <1>5, PushStep, WhereNext
  <2> DEFINE r == PushResult(t, FALSE, 0)
  <2>4. /\ r.peer = To(t) /\ r.total = Total(t) /\ r.ok = FALSE
        /\ r.bytes = Bytes(t) /\ r.chunks = Count(t)
    BY <2>1, SendTypes DEF PushResult, Total
  <2>5. /\ Piece(t) \in Int /\ Piece(t) > 0 /\ Limit(t) # Never /\ Limit(t) \in Nat
        /\ Bytes(t) + Piece(t) > Limit(t) /\ Bytes(t) <= Limit(t)
    BY <1>5, <2>1, <2>2, SendTypes DEF TransferDrops, LinkDrops, SendOf
  <2>6. /\ Limit(t) < Total(t) /\ Bytes(t) = ChunkSize(To(t)) * Count(t)
        /\ Count(t) = Limit(t) \div ChunkSize(To(t))
    <3> DEFINE n == Total(t)  b == Bytes(t)  k == Count(t)  z == ChunkSize(To(t))
               p == Piece(t)  lim == Limit(t)
    <3>1. /\ n \in Nat /\ z \in Nat \ {0} /\ b \in Nat /\ k \in Nat /\ Cut(n, z, b, k)
          /\ p \in Int /\ p > 0 /\ p = IF z < n - b THEN z ELSE n - b
          /\ lim \in Nat /\ b <= lim /\ b + p > lim
      BY <2>1, <2>2, <2>5, SendTypes DEF SendOf
    <3> HIDE DEF n, b, k, z, p, lim
    <3>2. lim < n /\ b = z * k /\ k = lim \div z
      BY <3>1, CutDrops
    <3> QED BY <3>2 DEF n, b, k, z, lim
  <2>7. Limit(t) = LinkLimit[To(t)] /\ Total(t) \in Nat
    BY <2>1, SendTypes
  <2> HIDE DEF r
  <2>8. MatchesLink(r)
    BY <2>4, <2>5, <2>6, <2>7 DEF MatchesLink
  <2>9. \A q : q = r => MatchesLink(q)
    BY <2>8
  <2> QED BY <2>1, <2>3, <2>9 DEF r, MatchesLink
<1>6. CASE ReadDuration(t)
  <2>1. Pushing(t) /\ ~Counted(t) /\ Counted(t)' /\ job[t].pc = "chunk"
    BY <1>6, WhereNext DEF Pushing, Counted
  <2>2. SendOf(t)
    BY <2>1 DEF SendInv
  <2> DEFINE r == PushResult(t, TRUE, clock - job[t].start)
  <2>3. job'[t].res = r
    BY <1>6, PushStep, WhereNext
  <2>4. /\ r.peer = To(t) /\ r.total = Total(t) /\ r.ok = TRUE
        /\ r.bytes = Bytes(t) /\ r.chunks = Count(t) /\ r.duration = clock - job[t].start
    BY <2>1, SendTypes DEF PushResult, Total
  <2>5. 0 = Piece(t)
    BY <1>6 DEF ReadDuration
  <2>6. Bytes(t) = Total(t)
        /\ Count(t) = (Total(t) + ChunkSize(To(t)) - 1) \div ChunkSize(To(t))
    BY <2>1, <2>2, <2>5, SendTypes, CutEnds DEF SendOf
  <2>7. LinkLimit[To(t)] = Never \/ Total(t) <= LinkLimit[To(t)]
    BY <2>1, <2>2, <2>6, SendTypes DEF SendOf
  <2>8. clock - job[t].start >= StepTime + Count(t) * Latency[To(t)]
    <3>1. Count(t) * Latency[To(t)] \in Nat
      BY <2>1, SendTypes, OneMore
    <3> QED BY <1>1, <2>1, <2>2, <3>1, SendTypes DEF SendOf, StepTime
  <2> HIDE DEF r
  <2>9. MatchesLink(r)
    BY <2>4, <2>6, <2>7, <2>8 DEF MatchesLink
  <2> QED BY <2>1, <2>3, <2>9 DEF MatchesLink
<1>7. CASE CloseTransfer(t)
  <2>1. Pushing(t) /\ Counted(t) /\ Counted(t)'
    BY <1>7, WhereNext DEF Pushing, Counted
  <2>2. job'[t].res = job[t].res
    BY <1>7, PushStep, WhereNext
  <2> QED BY <2>1, <2>2 DEF SendInv, MatchesLink
<1> QED BY <1>2, <1>3, <1>4, <1>5, <1>6, <1>7, PushStep

(* Every step keeps what was sent in whole chunks and within the limit. *)
LEMMA SendInvStep ==
  ASSUME TypeOK, SendInv, [Next]_vars
  PROVE  SendInv'
<1>1. ASSUME NEW t \in Task, StepOf(t)
      PROVE  SendInv'
  <2>1. clock \in Nat /\ clock' \in Nat /\ clock <= clock'
    BY <1>1, ClockGrows DEF TypeOK
  <2>2. ASSUME NEW u \in Task, Pushing(u)', job'[u] = job[u]
        PROVE  (IF Counted(u) THEN MatchesLink(job[u].res) ELSE SendOf(u))'
    <3>1. Pushing(u) /\ Counted(u)' = Counted(u)
      BY <2>2 DEF Pushing, Counted
    <3>2. CASE Counted(u)
      BY <2>2, <3>1, <3>2 DEF SendInv, MatchesLink
    <3>3. CASE ~Counted(u)
      <4>1. SendOf(u) /\ job[u].start \in Nat
        BY <3>1, <3>3, SendTypes DEF SendInv
      <4>2. /\ To(u)' = To(u) /\ Bytes(u)' = Bytes(u) /\ Count(u)' = Count(u)
            /\ Total(u)' = Total(u) /\ Limit(u)' = Limit(u)
        BY <2>2, <3>1 DEF To, Bytes, Count, Total, Limit
      <4>3. job[u].start + StepTime + Count(u) * Latency[To(u)] \in Nat
        <5>1. Count(u) * Latency[To(u)] \in Nat
          BY <3>1, <3>3, SendTypes, OneMore
        <5> QED BY <4>1, <5>1 DEF StepTime
      <4>4. job[u].start <= clock'
        BY <2>1, <4>1 DEF SendOf
      <4>5. job[u].pc \in {"chunk", "progress"} =>
              clock' >= job[u].start + StepTime + Count(u) * Latency[To(u)]
        BY <2>1, <4>1, <4>3 DEF SendOf
      <4> QED BY <2>2, <3>1, <3>3, <4>1, <4>2, <4>4, <4>5 DEF SendOf
    <3> QED BY <3>2, <3>3
  <2>3. ASSUME NEW u \in Task, Pushing(u)'
        PROVE  (IF Counted(u) THEN MatchesLink(job[u].res) ELSE SendOf(u))'
    <3>1. CASE job'[u] = job[u]
      BY <2>2, <2>3, <3>1
    <3>2. CASE u = t /\ ~Deliver(t)
      BY <1>1, <2>3, <3>2, SendStep
    <3>3. Deliver(t) => job' = job
      BY DEF Deliver
    <3> QED BY <1>1, <3>1, <3>2, <3>3, OthersWait
  <2>4. \A r \in results' : r.op = "push" => MatchesLink(r)'
    <3>1. \A r : MatchesLink(r)' <=> MatchesLink(r)
      BY DEF MatchesLink
    <3>2. Return(t) /\ job[t].res.op = "push" => MatchesLink(job[t].res)
      BY DEF Return, At, SendInv, Pushing, Counted
    <3> QED BY <1>1, <3>1, <3>2, ResultsStep DEF SendInv
  <2> QED BY <2>3, <2>4 DEF SendInv
<1>2. ASSUME UNCHANGED vars PROVE SendInv'
  <2>1. job' = job /\ results' = results /\ clock' = clock
    BY <1>2 DEF vars, streamVars
  <2> QED BY <2>1 DEF SendInv, Pushing, Counted, SendOf, MatchesLink, To, Bytes, Count,
                      Total, Limit
<1> QED BY <1>1, <1>2 DEF Next, StepOf

-----------------------------------------------------------------------------
(* Calls. *)

(* Two calls never share a number, nor do the events of two calls.         *)
CallInv ==
  /\ \A t \in Task : job[t].pc # "idle" => job[t].call \in 1..made
  /\ \A t, u \in Task : t # u /\ job[t].pc # "idle" /\ job[u].pc # "idle" =>
       job[t].call # job[u].call
  /\ \A n \in 1..seq : said[n].call \in 1..made
  /\ \A t \in Task : job[t].pc \in {"push", "push_start", "push_open"} =>
       \A n \in 1..seq : said[n].call # job[t].call
  /\ \A t \in Task : due[t] > 0 => job[t].pc # "idle" /\ Owed(t).call = job[t].call
  /\ \A t \in Task : Pushing(t) /\ Counted(t) => job[t].res.call = job[t].call
  /\ \A r \in results : r.op = "push" =>
       /\ r.call \in 1..made
       /\ \A t \in Task : job[t].pc # "idle" => job[t].call # r.call

(* A task goes on with its call.                                           *)
LEMMA CallKept ==
  ASSUME TypeOK, NEW t \in Task, StepOf(t), ~Begin(t), job'[t].pc # "idle"
  PROVE  job[t].pc # "idle" /\ job'[t].call = job[t].call
<1>0. Idle.pc = "idle"
  BY DEF Idle
<1>1. \A r : Answer(t, r) => job'[t].call = job[t].call
  BY DEF Answer, TypeOK
<1>2. job[t].pc # "idle" \/ Deliver(t)
  BY WhereNext DEF StepOf, Moves, Answers
<1>3. \A p : Goto(t, p) /\ job[t].pc # "idle" => job'[t].call = job[t].call
  BY GotoKeeps
<1>4. CASE Deliver(t)
  <2>1. job' = job
    BY <1>4 DEF Deliver
  <2> QED BY <2>1
<1>5. ~Return(t) /\ ~Cancel(t)
  BY <1>0, WhereNext
<1>6. CASE DiscoverNext(t)
  <2>1. job[t] \in Asking(t)
    BY <1>6, JobShape DEF DiscoverNext, At
  <2>2. ASSUME NEW k, job' = [job EXCEPT ![t].i = k + 1, ![t].out = Append(@, Scripted[k])]
        PROVE  job'[t].call = job[t].call
    BY <2>1, <2>2 DEF TypeOK, Asking
  <2> QED BY <1>1, <1>2, <1>6, <2>2 DEF DiscoverNext, Deliver, Stream!Deliver, At
<1>7. CASE PairingFails(t) \/ PairingCompletes(t)
  <2>1. PICK ok \in BOOLEAN : PairingOver(t, ok)
    BY <1>7 DEF PairingFails, PairingCompletes
  <2>2. job[t] \in Asking(t) /\ job[t].pc # "idle"
    BY <1>7, JobShape DEF PairingFails, PairingCompletes, At
  <2>3. CASE Inbound(t)
    <3> DEFINE j == [job[t] EXCEPT !.pc = "accept", !.i = @ + 1,
                                   !.out = IF ok THEN Append(@, Peer(t)) ELSE @]
    <3>1. job' = [job EXCEPT ![t] = j]
      BY <2>1, <2>3 DEF PairingOver
    <3>2. j.call = job[t].call
      BY <2>2 DEF Asking
    <3> HIDE DEF j
    <3> QED BY <2>2, <3>1, <3>2 DEF TypeOK
  <2>4. CASE ~Inbound(t)
    BY <1>1, <2>1, <2>2, <2>4 DEF PairingOver
  <2> QED BY <2>3, <2>4
<1>8. CASE StartDiscovery(t) \/ StartPair(t) \/ AcceptNext(t) \/ AcceptEnds(t) \/ Bond(t)
  <2>1. job[t].pc # "idle"
    BY <1>8, WhereNext
  <2> QED BY <1>1, <1>3, <1>8, <2>1
          DEF StartDiscovery, StartPair, AcceptNext, AcceptEnds, Bond
<1>9. CASE Connect(t)
  <2>1. job[t].pc # "idle"
    BY <1>9, WhereNext
  <2> QED BY <1>1, <1>9, <2>1 DEF Connect, TypeOK
<1>10. CASE TellConnected(t) \/ Disconnect(t) \/ TellDisconnected(t)
  <2>1. job[t].pc # "idle"
    BY <1>10, WhereNext
  <2> QED BY <1>1, <1>3, <1>10, <2>1 DEF TellConnected, Disconnect, TellDisconnected
<1>11. CASE CheckPush(t)
  <2>1. job[t].pc # "idle"
    BY <1>11, WhereNext
  <2> QED BY <1>1, <1>11, <2>1 DEF CheckPush, TypeOK
<1>12. CASE OpenTransfer(t) \/ TransferDrops(t) \/ TellProgress(t) \/ CloseTransfer(t)
  <2>1. job[t].pc # "idle"
    BY <1>12, WhereNext
  <2> QED BY <1>1, <1>3, <1>12, <2>1 DEF OpenTransfer, TransferDrops, TellProgress,
                                         CloseTransfer
<1>13. CASE ReadStart(t) \/ SendChunk(t) \/ ReadDuration(t)
  <2>1. Pushing(t)' /\ ~Deliver(t) /\ job[t].pc # "idle"
    BY <1>13, WhereNext DEF Pushing, ReadStart, SendChunk, ReadDuration, At, Deliver,
                            Stream!Deliver
  <2> QED BY <1>13, <2>1, PushStep DEF Goes
<1> QED BY <1>4, <1>5, <1>6, <1>7, <1>8, <1>9, <1>10, <1>11, <1>12, <1>13
        DEF StepOf, Moves, Answers

(* Every step keeps each event with its call. *)
LEMMA CallStep ==
  ASSUME TypeOK, Log!StreamInv, CallInv, [Next]_vars
  PROVE  CallInv'
<1>0. Idle.pc = "idle" /\ made \in Nat /\ seq \in Nat
  BY DEF Idle, TypeOK
<1>1. ASSUME NEW t \in Task, StepOf(t), ~Deliver(t)
      PROVE  CallInv'
  <2>1. \A u \in Task : u # t => job'[u] = job[u]
    BY <1>1, OthersWait
  <2>2. /\ ~Begin(t) /\ job'[t].pc # "idle" =>
             job[t].pc # "idle" /\ job'[t].call = job[t].call
        /\ Begin(t) => job'[t].call = made + 1 /\ made' = made + 1 /\ seq' = seq
                       /\ job[t].pc = "idle"
        /\ ~Begin(t) => made' = made
    <3>1. Begin(t) => job'[t].call = made + 1 /\ made' = made + 1 /\ seq' = seq
                      /\ job[t].pc = "idle"
      BY DEF Begin, TypeOK, streamVars, At
    <3> QED BY <1>1, <3>1, CallKept, ResultsStep
  <2>3. made' \in Nat /\ \A k \in 1..made : k \in 1..made' /\ k # made + 1
    BY <1>0, <2>2
  <2>4. \A u \in Task : job'[u].pc # "idle" => job'[u].call \in 1..made'
    BY <1>0, <2>1, <2>2, <2>3 DEF CallInv
  <2>5. ASSUME NEW u \in Task, NEW w \in Task, u # w, job'[u].pc # "idle",
               job'[w].pc # "idle", w # t
        PROVE  job'[u].call # job'[w].call
    <3>1. job[w].pc # "idle" /\ job'[w] = job[w] /\ job[w].call \in 1..made
      BY <2>1, <2>5 DEF CallInv
    <3>2. CASE u # t
      BY <2>1, <2>5, <3>1, <3>2 DEF CallInv
    <3>3. CASE u = t /\ Begin(t)
      BY <2>2, <2>3, <3>1, <3>3
    <3>4. CASE u = t /\ ~Begin(t)
      BY <2>2, <2>5, <3>1, <3>4 DEF CallInv
    <3> QED BY <3>2, <3>3, <3>4
  <2>6. \A u, w \in Task : u # w /\ job'[u].pc # "idle" /\ job'[w].pc # "idle" =>
          job'[u].call # job'[w].call
    BY <2>5
  <2>7. /\ \A n \in 1..seq : said'[n] = said[n]
        /\ \/ Silent /\ seq' = seq
           \/ Adds(t) /\ ~Silent /\ seq' = seq + 1 /\ said'[seq + 1].call = job[t].call
              /\ job[t].pc # "idle" /\ ~Begin(t)
    <3>1. Silent \/ Adds(t)
      BY <1>1, Talk
    <3>2. Silent => seq' = seq /\ said' = said
      BY DEF Silent
    <3>3. Adds(t) => /\ seq' = seq + 1 /\ said'[seq + 1].call = job[t].call
                     /\ \A n \in 1..seq : said'[n] = said[n]
      BY DEF Adds
    <3>4. Adds(t) => job[t].pc # "idle" /\ ~Begin(t)
      <4>1. Begin(t) => seq' = seq
        BY <2>2
      <4>2. job[t].pc = "idle" => Begin(t)
        BY <1>1, WhereNext DEF StepOf, Moves, Answers
      <4> QED BY <1>0, <3>3, <4>1, <4>2
    <3> QED BY <1>0, <3>1, <3>2, <3>3, <3>4
  <2>8. \A n \in 1..seq' : said'[n].call \in 1..made'
    BY <1>0, <2>3, <2>7 DEF CallInv
  <2>9. ASSUME NEW u \in Task, job'[u].pc \in {"push", "push_start", "push_open"},
               NEW n \in 1..seq'
        PROVE  said'[n].call # job'[u].call
    <3>1. CASE u # t
      <4>1. job'[u] = job[u] /\ job[u].pc \in {"push", "push_start", "push_open"}
        BY <2>1, <2>9, <3>1
      <4>2. /\ \A m \in 1..seq : said[m].call # job[u].call
            /\ job[t].pc # "idle" => job[t].call # job[u].call
        BY <3>1, <4>1 DEF CallInv
      <4> QED BY <1>0, <2>7, <4>1, <4>2
    <3>2. CASE u = t /\ Begin(t)
      BY <1>0, <2>2, <2>3, <2>7, <3>2 DEF CallInv
    <3>3. CASE u = t /\ ~Begin(t)
      <4>1. CheckPush(t) \/ ReadStart(t)
        BY <1>0, <1>1, <2>9, <3>3, WhereNext DEF StepOf, Moves, Answers
      <4>2. Silent /\ job[t].pc \in {"push", "push_start", "push_open"}
        BY <4>1, WhereNext, Emissions
      <4>3. job'[t].call = job[t].call
        BY <2>2, <2>9, <3>3
      <4> QED BY <2>7, <3>3, <4>2, <4>3 DEF CallInv
    <3> QED BY <3>1, <3>2, <3>3
  <2>10. ASSUME NEW u \in Task, due'[u] > 0
         PROVE  job'[u].pc # "idle" /\ Owed(u)'.call = job'[u].call
    <3>1. CASE u # t
      BY <2>1, <2>7, <2>10, <3>1, OwedKept DEF CallInv
    <3>2. CASE u = t /\ Silent
      <4>1. due[t] > 0 /\ Owed(t)' = Owed(t)
        BY <2>10, <3>2, OwedKept
      <4>2. due[t] = 0
        BY <1>1 DEF StepOf, Moves, Answers, At, Begin, Return, StartDiscovery,
           DiscoverNext, StartPair, AcceptNext, AcceptEnds, PairingCompletes, Connect,
           TellConnected, Disconnect, TellDisconnected, CheckPush, ReadStart,
           OpenTransfer, SendChunk, TransferDrops, TellProgress, ReadDuration,
           CloseTransfer, PairingFails, Bond, Cancel
      <4> QED BY <4>1, <4>2
    <3>3. CASE u = t /\ Adds(t) /\ ~Silent
      <4>1. Owed(t)'.call = job[t].call
        BY <2>7, <3>3, OwedKept
      <4>2. job'[t].pc # "idle"
        <5>1. ~Return(t) /\ ~Cancel(t)
          BY <3>3, Emissions
        <5> QED BY <1>1, <5>1, WhereNext DEF StepOf, Moves, Answers
      <4> QED BY <2>2, <2>7, <3>3, <4>1, <4>2
    <3> QED BY <2>7, <3>1, <3>2, <3>3
  <2>11. ASSUME NEW u \in Task, Pushing(u)', Counted(u)'
         PROVE  job'[u].res.call = job'[u].call
    <3>1. CASE u # t
      BY <2>1, <2>11, <3>1 DEF CallInv, Pushing, Counted
    <3>2. CASE u = t
      <4>1. \/ job'[t].res.call = job[t].call
            \/ /\ job[t].pc = "push_close" /\ job'[t].res = job[t].res
        <5>1. \A ok, d : PushResult(t, ok, d).call = job[t].call
          BY DEF PushResult
        <5> QED BY <1>1, <2>11, <3>2, <5>1, PushStep DEF Counted
      <4>2. job'[t].pc # "idle" /\ ~Begin(t)
        BY <2>11, <3>2, WhereNext DEF Counted
      <4> QED BY <2>2, <3>2, <4>1, <4>2 DEF CallInv, Pushing, Counted
    <3> QED BY <3>1, <3>2
  <2>12. ASSUME NEW r \in results', r.op = "push"
         PROVE  /\ r.call \in 1..made'
                /\ \A u \in Task : job'[u].pc # "idle" => job'[u].call # r.call
    <3>1. CASE r \in results
      <4>1. /\ r.call \in 1..made
            /\ \A u \in Task : job[u].pc # "idle" => job[u].call # r.call
        BY <2>12, <3>1 DEF CallInv
      <4>2. CASE Begin(t)
        BY <2>1, <2>2, <2>3, <4>1, <4>2
      <4>3. CASE ~Begin(t)
        BY <2>1, <2>2, <2>3, <4>1, <4>3
      <4> QED BY <4>2, <4>3
    <3>2. CASE r \notin results
      <4>1. Return(t) /\ r = job[t].res /\ job[t].pc = "return"
        BY <1>1, <2>12, <3>2, ResultsStep
      <4>2. r.call = job[t].call /\ job[t].call \in 1..made
        BY <2>12, <4>1 DEF CallInv, Pushing, Counted
      <4>3. job'[t].pc = "idle"
        BY <1>0, <4>1, WhereNext
      <4> QED BY <2>1, <2>3, <4>1, <4>2, <4>3 DEF CallInv
    <3> QED BY <3>1, <3>2
  <2> QED BY <2>4, <2>6, <2>8, <2>9, <2>10, <2>11, <2>12 DEF CallInv
<1>2. ASSUME NEW t \in Task, Deliver(t)
      PROVE  CallInv'
  <2>1. UNCHANGED <<seq, said, held, job, made, results>>
    BY <1>2 DEF Deliver, Stream!Deliver
  <2>2. \A u \in Task : due'[u] > 0 => due[u] > 0
    <3>1. due[t] > 0 /\ due \in [Task -> 0..Fan]
      BY <1>2, LogFacts DEF Deliver, Stream!Deliver
    <3> QED BY <1>2, <3>1 DEF Deliver, Stream!Deliver
  <2> QED BY <2>1, <2>2 DEF CallInv, Pushing, Counted, Owed
<1>3. ASSUME UNCHANGED vars PROVE CallInv'
  <2>1. UNCHANGED <<seq, said, held, due, job, made, results>>
    BY <1>3 DEF vars, streamVars
  <2> QED BY <2>1 DEF CallInv, Pushing, Counted, Owed
<1> QED BY <1>1, <1>2, <1>3 DEF Next, StepOf

-----------------------------------------------------------------------------
(* What the observers were told of a push. *)

(* Task t owes observer o an event of this kind.                           *)
OwesKind(t, o, kind) == due[t] \in 1..o /\ Owed(t).kind = kind

Heeded(o, call, ok) ==
  \E i \in DOMAIN log[o] : /\ Heard(o, i).call = call
                           /\ Heard(o, i).kind = IF ok THEN "transfer_completed" ELSE "error"

(* The chunks observer o has been told of, and the one it is owed, are     *)
(* those push t counts; all are full, but for the last.                    *)
TallyOf(t, o) ==
  LET S == Chunks(o, job[t].call)
      c == ChunkSize(To(t))
      last == Bytes(t) - c * (Count(t) - 1)
      owed == OwesKind(t, o, "data_chunk")
  IN  /\ IsFiniteSet(S)
      /\ Cardinality(S) = IF owed THEN Count(t) - 1 ELSE Count(t)
      /\ \A i \in S : Heard(o, i).n = IF owed \/ \E j \in S : j > i THEN c ELSE last
      /\ owed => Owed(t).n = last
      /\ job[t].pc = "push_close" => job[t].res.ok
      /\ job[t].pc = "return" =>
           \/ OwesKind(t, o, IF job[t].res.ok THEN "transfer_completed" ELSE "error")
           \/ Heeded(o, job[t].call, job[t].res.ok)

TallyInv ==
  /\ \A t \in Task : Pushing(t) => \A o \in 1..Fan : TallyOf(t, o)
  /\ \A r \in results : r.op = "push" => InLog(r)

(* Between deliveries a log is what it was.                                *)
LEMMA LogStill ==
  ASSUME TypeOK, Log!StreamInv, NEW t \in Task, StepOf(t), ~Deliver(t), NEW o \in 1..Fan
  PROVE  /\ DOMAIN log'[o] = DOMAIN log[o]
         /\ \A i \in DOMAIN log[o] : Heard(o, i)' = Heard(o, i)
         /\ \A k : Chunks(o, k)' = Chunks(o, k)
         /\ \A k : Chunks(o, k) \subseteq DOMAIN log[o]
         /\ \A k, ok : Heeded(o, k, ok)' <=> Heeded(o, k, ok)
<1>1. log' = log /\ \A i \in DOMAIN log[o] : Heard(o, i)' = Heard(o, i)
  BY Talk, SilentLog
<1> QED BY <1>1 DEF Chunks, Heeded

(* Another task's step leaves the tally of push u.                         *)
LEMMA TallyKept ==
  ASSUME TypeOK, Log!StreamInv, TallyInv, NEW t \in Task, StepOf(t), ~Deliver(t),
         NEW u \in Task, u # t, Pushing(u)', NEW o \in 1..Fan
  PROVE  TallyOf(u, o)'
<1>1. job'[u] = job[u]
  BY OthersWait
<1>2. Pushing(u) /\ TallyOf(u, o)
  BY <1>1 DEF Pushing, TallyInv
<1>3. Bytes(u)' = Bytes(u) /\ Count(u)' = Count(u) /\ To(u)' = To(u)
  BY <1>1 DEF Bytes, Count, To, Counted
<1>4. /\ \A kind : OwesKind(u, o, kind)' <=> OwesKind(u, o, kind)
      /\ due[u] \in 1..o => Owed(u)' = Owed(u)
  BY Talk, OwedKept DEF OwesKind
<1>5. OwesKind(u, o, "data_chunk") => Owed(u)' = Owed(u)
  BY <1>4 DEF OwesKind
<1>6. Chunks(o, job[u].call)' = Chunks(o, job[u].call)
  BY <1>1, LogStill
<1>7. \A i \in Chunks(o, job[u].call) : Heard(o, i)' = Heard(o, i)
  BY LogStill
<1>8. \A ok : Heeded(o, job[u].call, ok)' <=> Heeded(o, job[u].call, ok)
  BY <1>1, LogStill
<1> QED BY <1>1, <1>2, <1>3, <1>4, <1>5, <1>6, <1>7, <1>8, Zenon DEF TallyOf

(* The sender's own step.                                                  *)
LEMMA TallyStep ==
  ASSUME TypeOK, Log!StreamInv, CallInv, SendInv, TallyInv,
         NEW t \in Task, StepOf(t), ~Deliver(t), Pushing(t)', NEW o \in 1..Fan
  PROVE  TallyOf(t, o)'
<1>1. /\ \A k : Chunks(o, k)' = Chunks(o, k) /\ Chunks(o, k) \subseteq DOMAIN log[o]
      /\ \A i \in DOMAIN log[o] : Heard(o, i)' = Heard(o, i)
  BY LogStill
<1>2. job'[t].call = job[t].call /\ due[t] = 0
  <2>1. ~Begin(t) /\ job'[t].pc # "idle"
    BY WhereNext DEF Pushing
  <2>2. due[t] = 0
    BY DEF StepOf, Moves, Answers, At, Begin, Return, StartDiscovery, DiscoverNext,
           StartPair, AcceptNext, AcceptEnds, PairingCompletes, Connect, TellConnected,
           Disconnect, TellDisconnected, CheckPush, ReadStart, OpenTransfer, SendChunk,
           TransferDrops, TellProgress, ReadDuration, CloseTransfer, PairingFails, Bond,
           Cancel
  <2> QED BY <2>1, <2>2, CallKept
<1>3. Chunks(o, job[t].call)' = Chunks(o, job[t].call)
  BY <1>1, <1>2
<1>4. \A kind : ~OwesKind(t, o, kind)
  BY <1>2 DEF OwesKind
<1>5. /\ Silent => \A kind : ~OwesKind(t, o, kind)'
      /\ Adds(t) => \A kind : OwesKind(t, o, kind)' <=> said'[seq + 1].kind = kind
      /\ Adds(t) => Owed(t)' = said'[seq + 1]
  <2>1. Silent => due'[t] = 0
    BY <1>2 DEF Silent
  <2>2. Adds(t) => due'[t] = 1 /\ Owed(t)' = said'[seq + 1]
    BY OwedKept
  <2> QED BY <2>1, <2>2 DEF OwesKind
<1>6. CASE CheckPush(t)
  <2>1. /\ job'[t].pc = "push_start" /\ job[t].pc = "push"
        /\ job'[t].sent = 0 /\ job'[t].chunks = 0
    BY <1>6, PushStep, WhereNext
  <2>2. Silent /\ Count(t)' = 0
    BY <1>6, <2>1, Emissions DEF Count, Counted
  <2>3. Chunks(o, job[t].call) = {}
    <3>1. \A i \in DOMAIN log[o] : log[o][i].seq + 1 \in 1..seq
      BY LogFacts
    <3> QED BY <2>1, <3>1 DEF CallInv, Chunks, Heard
  <2>4. Cardinality({}) = 0 /\ IsFiniteSet({})
    BY FS_EmptySet
  <2> QED BY <1>3, <1>5, <2>1, <2>2, <2>3, <2>4 DEF TallyOf
<1>7. ASSUME ~CheckPush(t)
      PROVE  Pushing(t) /\ TallyOf(t, o)
  BY <1>7, PushStep DEF Pushing, TallyInv
<1>8. ASSUME ~CheckPush(t), ~SendChunk(t)
      PROVE  TallyOf(t, o)'
  <2>2. CASE ReadStart(t) \/ OpenTransfer(t) \/ TellProgress(t)
    <3>1. /\ ~Counted(t) /\ ~Counted(t)' /\ Goes(t)
          /\ job'[t].sent = job[t].sent /\ job'[t].chunks = job[t].chunks
          /\ job'[t].pc \notin {"return", "push_close"}
      BY <2>2, PushStep, WhereNext DEF Counted
    <3>2. Bytes(t)' = Bytes(t) /\ Count(t)' = Count(t) /\ To(t)' = To(t)
      BY <3>1 DEF Bytes, Count, To, Goes
    <3>3. ~OwesKind(t, o, "data_chunk")'
      BY <1>5, <2>2, Emissions
    <3> QED BY <1>1, <1>3, <1>4, <1>7, <1>8, <3>1, <3>2, <3>3 DEF TallyOf
  <2>3. CASE TransferDrops(t)
    <3>1. ~Counted(t) /\ Counted(t)' /\ job'[t].pc = "return"
          /\ job'[t].res = PushResult(t, FALSE, 0)
      BY <2>3, PushStep, WhereNext DEF Counted
    <3>2. Bytes(t)' = Bytes(t) /\ Count(t)' = Count(t) /\ To(t)' = To(t)
          /\ job'[t].res.ok = FALSE
      <4>1. /\ job'[t].res.bytes = job[t].sent /\ job'[t].res.chunks = job[t].chunks
            /\ job'[t].res.peer = job[t].conn.peer /\ job'[t].res.ok = FALSE
        BY <3>1 DEF PushResult
      <4> QED BY <3>1, <4>1 DEF Bytes, Count, To
    <3>3. ~OwesKind(t, o, "data_chunk")' /\ OwesKind(t, o, "error")'
      BY <1>5, <2>3, Emissions
    <3> QED BY <1>1, <1>3, <1>4, <1>7, <1>8, <3>1, <3>2, <3>3 DEF TallyOf
  <2>4. CASE ReadDuration(t)
    <3>1. ~Counted(t) /\ Counted(t)' /\ job'[t].pc = "push_close"
          /\ job'[t].res = PushResult(t, TRUE, clock - job[t].start)
      BY <2>4, PushStep, WhereNext DEF Counted
    <3>2. Bytes(t)' = Bytes(t) /\ Count(t)' = Count(t) /\ To(t)' = To(t)
          /\ job'[t].res.ok = TRUE
      <4>1. /\ job'[t].res.bytes = job[t].sent /\ job'[t].res.chunks = job[t].chunks
            /\ job'[t].res.peer = job[t].conn.peer /\ job'[t].res.ok = TRUE
        BY <3>1 DEF PushResult
      <4> QED BY <3>1, <4>1 DEF Bytes, Count, To
    <3>3. ~OwesKind(t, o, "data_chunk")'
      BY <1>5, <2>4, Emissions
    <3> QED BY <1>1, <1>3, <1>4, <1>7, <1>8, <3>1, <3>2, <3>3 DEF TallyOf
  <2>5. CASE CloseTransfer(t)
    <3>1. /\ Counted(t) /\ Counted(t)' /\ job[t].pc = "push_close"
          /\ job'[t].pc = "return" /\ job'[t].res = job[t].res
      BY <2>5, PushStep, WhereNext DEF Counted
    <3>2. Bytes(t)' = Bytes(t) /\ Count(t)' = Count(t) /\ To(t)' = To(t)
      BY <3>1 DEF Bytes, Count, To
    <3>3. job'[t].res.ok
      BY <1>7, <1>8, <3>1 DEF TallyOf
    <3>4. ~OwesKind(t, o, "data_chunk")' /\ OwesKind(t, o, "transfer_completed")'
      BY <1>5, <2>5, Emissions
    <3> QED BY <1>1, <1>3, <1>4, <1>7, <1>8, <3>1, <3>2, <3>3, <3>4 DEF TallyOf
  <2> QED BY <1>8, <2>2, <2>3, <2>4, <2>5, PushStep
<1>9. CASE SendChunk(t)
  <2>1. /\ job[t].pc = "chunk" /\ job'[t].pc = "progress" /\ Goes(t)
        /\ job'[t].sent = job[t].sent + Piece(t)
        /\ job'[t].chunks = job[t].chunks + 1
    BY <1>9, PushStep, WhereNext
  <2>2. Pushing(t) /\ ~Counted(t) /\ ~Counted(t)' /\ TallyOf(t, o)
    BY <2>1 DEF Pushing, Counted, TallyInv
  <2>3. To(t)' = To(t) /\ Bytes(t)' = Bytes(t) + Piece(t) /\ Count(t)' = Count(t) + 1
    BY <2>1, <2>2 DEF To, Bytes, Count, Goes
  <2>4. /\ OwesKind(t, o, "data_chunk")' /\ Owed(t)'.n = Piece(t)
    BY <1>5, <1>9, Emissions
  <2> DEFINE c == ChunkSize(To(t))
             n == Count(t)
             b == Bytes(t)
             p == Piece(t)
  <2>5. /\ b = c * n /\ c \in Nat \ {0} /\ n \in Nat /\ p \in Int
    <3>1. Piece(t) \in Int /\ Piece(t) > 0
      BY <1>9, <2>2, SendTypes DEF SendChunk
    <3>2. Cut(Total(t), c, b, n)
      BY <2>2 DEF SendInv, SendOf
    <3>3. /\ c \in Nat \ {0} /\ n \in Nat /\ b \in Nat /\ Total(t) \in Nat
          /\ p = IF c < Total(t) - b THEN c ELSE Total(t) - b
      BY <2>2, SendTypes
    <3> HIDE DEF c, n, b, p
    <3>4. b = c * n
      BY <3>1, <3>2, <3>3 DEF Cut, p
    <3> QED BY <3>1, <3>3, <3>4 DEF p
  <2>6. c * (n - 1) = c * n - c /\ c * ((n + 1) - 1) = c * n /\ c * n \in Nat
    <3> HIDE DEF c, n
    <3> QED BY <2>5
  <2>7. b - c * (n - 1) = c /\ (b + p) - c * ((n + 1) - 1) = p
    <3> HIDE DEF c, n, b, p
    <3> QED BY <2>5, <2>6
  <2>8. c' = c
    BY <2>3 DEF ChunkSize
  <2>9. /\ IsFiniteSet(Chunks(o, job[t].call)) /\ Cardinality(Chunks(o, job[t].call)) = n
        /\ \A i \in Chunks(o, job[t].call) : Heard(o, i).n = c
    BY <1>4, <2>2, <2>7 DEF TallyOf
  <2>10. (n + 1) - 1 = n
    <3> HIDE DEF n
    <3> QED BY <2>5
  <2>11. Bytes(t)' - c' * (Count(t)' - 1) = Piece(t)
    BY <2>3, <2>7, <2>8
  <2>12. Count(t)' - 1 = n
    BY <2>3, <2>10
  <2>13. \A i \in Chunks(o, job[t].call)' : Heard(o, i)'.n = c'
    BY <1>1, <1>3, <2>8, <2>9
  <2> QED BY <1>3, <2>1, <2>4, <2>9, <2>11, <2>12, <2>13 DEF TallyOf
<1> QED BY <1>6, <1>8, <1>9

(* A delivery tells observer p of what task t emitted last, and adds it to *)
(* the chunks of t's call if it is one.                                    *)
LEMMA ChunkDelivered ==
  ASSUME TypeOK, Log!StreamInv, NEW t \in Task, Deliver(t)
  PROVE  \E p \in 1..Fan :
           \E m \in Nat :
           /\ due[t] = p /\ due'[t] = IF p = Fan THEN 0 ELSE p + 1
           /\ \A u \in Task : u # t => due'[u] = due[u]
           /\ \A u \in Task : Owed(u)' = Owed(u)
           /\ \A o \in 1..Fan : \A k : \A i \in Chunks(o, k) :
                i \in DOMAIN log[o] /\ Heard(o, i)' = Heard(o, i)
           /\ \A o \in 1..Fan : \A k :
                o # p \/ k # Owed(t).call \/ Owed(t).kind # "data_chunk" =>
                  Chunks(o, k)' = Chunks(o, k)
           /\ \A k : k = Owed(t).call /\ Owed(t).kind = "data_chunk" =>
                Chunks(p, k)' = Chunks(p, k) \union {m}
           /\ Heard(p, m)' = Owed(t) /\ m \notin DOMAIN log[p]
           /\ \A i \in DOMAIN log[p] : i < m
           /\ \A o \in 1..Fan : \A k, ok :
                \/ Heeded(o, k, ok)
                \/ o = p /\ k = Owed(t).call
                   /\ Owed(t).kind = IF ok THEN "transfer_completed" ELSE "error"
                => Heeded(o, k, ok)'
<1>1. PICK p \in 1..Fan :
           /\ due[t] = p /\ held' = held /\ said' = said /\ seq' = seq
           /\ due'[t] = IF p = Fan THEN 0 ELSE p + 1
           /\ \A u \in Task : u # t => due'[u] = due[u]
           /\ DOMAIN log'[p] = (1..Len(log[p])) \union {Len(log[p]) + 1}
           /\ \A m : m = Len(log[p]) + 1 => Heard(p, m)' = said[held[t].seq + 1]
           /\ \A q \in 1..Fan : q # p => log'[q] = log[q]
           /\ \A q \in 1..Fan : \A i \in DOMAIN log[q] :
                i \in DOMAIN log'[q] /\ Heard(q, i)' = Heard(q, i)
  BY DeliverLog, Zenon
<1>2. Len(log[p]) \in Nat /\ DOMAIN log[p] = 1..Len(log[p])
  BY LogFacts
<1>3. PICK m \in Nat : m = Len(log[p]) + 1
  BY <1>2
<1>4. /\ DOMAIN log'[p] = DOMAIN log[p] \union {m} /\ m \notin DOMAIN log[p]
      /\ \A i \in DOMAIN log[p] : i < m
      /\ Heard(p, m)' = Owed(t)
  BY <1>1, <1>2, <1>3 DEF Owed
<1>5. \A u \in Task : Owed(u)' = Owed(u)
  BY <1>1 DEF Owed
<1>6. \A o \in 1..Fan : o # p => DOMAIN log'[o] = DOMAIN log[o]
  BY <1>1
<1>7. \A o \in 1..Fan : \A i \in DOMAIN log[o] : Heard(o, i)' = Heard(o, i)
  BY <1>1
<1>8. \A o \in 1..Fan : \A k :
        o # p \/ k # Owed(t).call \/ Owed(t).kind # "data_chunk" =>
          Chunks(o, k)' = Chunks(o, k)
  BY <1>4, <1>6, <1>7 DEF Chunks
<1>9. \A k : k = Owed(t).call /\ Owed(t).kind = "data_chunk" =>
        Chunks(p, k)' = Chunks(p, k) \union {m}
  BY <1>4, <1>7 DEF Chunks
<1>10. ASSUME NEW o \in 1..Fan, NEW k, NEW ok,
              \/ Heeded(o, k, ok)
              \/ o = p /\ k = Owed(t).call
                 /\ Owed(t).kind = IF ok THEN "transfer_completed" ELSE "error"
       PROVE  Heeded(o, k, ok)'
  <2>1. CASE Heeded(o, k, ok)
    BY <1>1, <1>7, <2>1 DEF Heeded
  <2>2. CASE o = p /\ k = Owed(t).call
             /\ Owed(t).kind = IF ok THEN "transfer_completed" ELSE "error"
    BY <1>4, <2>2 DEF Heeded
  <2> QED BY <1>10, <2>1, <2>2
<1>11. \A o \in 1..Fan : \A k : \A i \in Chunks(o, k) : i \in DOMAIN log[o]
  BY DEF Chunks
<1> QED BY <1>1, <1>4, <1>5, <1>7, <1>8, <1>9, <1>10, <1>11

(* The chunks told so far are a number. *)
LEMMA CountType ==
  ASSUME TypeOK, NEW t \in Task, Pushing(t)
  PROVE  Count(t) \in Nat
<1>1. CASE ~Counted(t)
  BY <1>1, SendTypes
<1>2. CASE Counted(t)
  <2>1. job[t].res \in Receipt
    BY <1>2, JobShape DEF Counted, Pushing, Closing, Returning, Result
  <2> QED BY <1>2, <2>1 DEF Count, Receipt
<1> QED BY <1>1, <1>2

(* A delivery keeps each observer's tally. *)
LEMMA TallyDeliver ==
  ASSUME TypeOK, Log!StreamInv, CallInv, TallyInv, NEW t \in Task, Deliver(t),
         NEW u \in Task, Pushing(u)', NEW o \in 1..Fan
  PROVE  TallyOf(u, o)'
<1>1. PICK p \in 1..Fan :
           \E m \in Nat :
           /\ due[t] = p /\ due'[t] = IF p = Fan THEN 0 ELSE p + 1
           /\ \A w \in Task : w # t => due'[w] = due[w]
           /\ \A w \in Task : Owed(w)' = Owed(w)
           /\ \A q \in 1..Fan : \A k : \A i \in Chunks(q, k) :
                i \in DOMAIN log[q] /\ Heard(q, i)' = Heard(q, i)
           /\ \A q \in 1..Fan : \A k :
                q # p \/ k # Owed(t).call \/ Owed(t).kind # "data_chunk" =>
                  Chunks(q, k)' = Chunks(q, k)
           /\ \A k : k = Owed(t).call /\ Owed(t).kind = "data_chunk" =>
                Chunks(p, k)' = Chunks(p, k) \union {m}
           /\ Heard(p, m)' = Owed(t) /\ m \notin DOMAIN log[p]
           /\ \A i \in DOMAIN log[p] : i < m
           /\ \A q \in 1..Fan : \A k, ok :
                \/ Heeded(q, k, ok)
                \/ q = p /\ k = Owed(t).call
                   /\ Owed(t).kind = IF ok THEN "transfer_completed" ELSE "error"
                => Heeded(q, k, ok)'
  BY ChunkDelivered, Zenon
<1>2. PICK m \in Nat :
           /\ due[t] = p /\ due'[t] = IF p = Fan THEN 0 ELSE p + 1
           /\ \A w \in Task : w # t => due'[w] = due[w]
           /\ \A w \in Task : Owed(w)' = Owed(w)
           /\ \A q \in 1..Fan : \A k : \A i \in Chunks(q, k) :
                i \in DOMAIN log[q] /\ Heard(q, i)' = Heard(q, i)
           /\ \A q \in 1..Fan : \A k :
                q # p \/ k # Owed(t).call \/ Owed(t).kind # "data_chunk" =>
                  Chunks(q, k)' = Chunks(q, k)
           /\ \A k : k = Owed(t).call /\ Owed(t).kind = "data_chunk" =>
                Chunks(p, k)' = Chunks(p, k) \union {m}
           /\ Heard(p, m)' = Owed(t) /\ m \notin DOMAIN log[p]
           /\ \A i \in DOMAIN log[p] : i < m
           /\ \A q \in 1..Fan : \A k, ok :
                \/ Heeded(q, k, ok)
                \/ q = p /\ k = Owed(t).call
                   /\ Owed(t).kind = IF ok THEN "transfer_completed" ELSE "error"
                => Heeded(q, k, ok)'
  BY <1>1, Zenon
<1>3. job' = job /\ Fan \in Nat
  BY MockAssumption DEF Deliver
<1>4. Pushing(u) /\ job[u].pc # "idle" /\ TallyOf(u, o)
  BY <1>3 DEF Pushing, TallyInv
<1>5. Bytes(u)' = Bytes(u) /\ Count(u)' = Count(u) /\ To(u)' = To(u) /\ job'[u] = job[u]
  BY <1>3 DEF Bytes, Count, To, Counted
<1>6. Owed(t).call = job[t].call /\ job[t].pc # "idle"
  BY <1>2 DEF CallInv
<1>7. u # t => Owed(t).call # job[u].call
  BY <1>4, <1>6 DEF CallInv
(* What p heard it is owed no more; for the others nothing changes.        *)
<1>8. \A kind : OwesKind(u, o, kind)' <=> OwesKind(u, o, kind) /\ ~(u = t /\ o = p)
  <2>1. due'[u] \in 1..o <=> due[u] \in 1..o /\ ~(u = t /\ o = p)
    BY <1>2, <1>3
  <2> QED BY <1>2, <2>1 DEF OwesKind
<1>9. \A i \in Chunks(o, job[u].call) : Heard(o, i)' = Heard(o, i)
  BY <1>2
<1>10. Owed(u)' = Owed(u)
  BY <1>2
<1>11. CASE ~(u = t /\ o = p)
  <2>1. Chunks(o, job[u].call)' = Chunks(o, job[u].call)
    BY <1>2, <1>5, <1>7, <1>11
  <2>2. \A ok : Heeded(o, job[u].call, ok) => Heeded(o, job[u].call, ok)'
    BY <1>2, <1>5
  <2>3. \A kind : OwesKind(u, o, kind)' <=> OwesKind(u, o, kind)
    BY <1>8, <1>11
  <2> QED BY <1>4, <1>5, <1>9, <1>10, <2>1, <2>2, <2>3, Zenon DEF TallyOf
<1>12. CASE u = t /\ o = p
  <2>1. \A kind : ~OwesKind(t, o, kind)'
    BY <1>8, <1>12
  <2>2. \A kind : OwesKind(t, o, kind) <=> Owed(t).kind = kind
    BY <1>2, <1>12 DEF OwesKind
  <2>3. \A ok : Heeded(o, job[t].call, ok) => Heeded(o, job[t].call, ok)'
    BY <1>2, <1>5, <1>12
  <2>4. \A ok : Owed(t).kind = (IF ok THEN "transfer_completed" ELSE "error") =>
          Heeded(o, job[t].call, ok)'
    BY <1>2, <1>5, <1>6, <1>12
  <2>5. job[t].pc = "return" => Heeded(o, job[t].call, job[t].res.ok)'
    <3>1. job[t].pc = "return" =>
            \/ Owed(t).kind = (IF job[t].res.ok THEN "transfer_completed" ELSE "error")
            \/ Heeded(o, job[t].call, job[t].res.ok)
      BY <1>4, <1>12, <2>2 DEF TallyOf
    <3> QED BY <1>5, <1>12, <2>3, <2>4, <3>1
  <2>6. job[t].pc = "push_close" => job[t].res.ok
    BY <1>4, <1>12 DEF TallyOf
  <2>7. CASE Owed(t).kind # "data_chunk"
    <3>1. Chunks(o, job[u].call)' = Chunks(o, job[u].call)
      BY <1>2, <1>5, <2>7
    <3>2. ~OwesKind(u, o, "data_chunk") /\ ~OwesKind(u, o, "data_chunk")'
      BY <1>12, <2>1, <2>2, <2>7
    <3> QED BY <1>4, <1>5, <1>9, <1>10, <1>12, <2>5, <2>6, <3>1, <3>2 DEF TallyOf
  <2>8. CASE Owed(t).kind = "data_chunk"
    <3> DEFINE S == Chunks(o, job[u].call)
               c == ChunkSize(To(u))
               last == Bytes(u) - c * (Count(u) - 1)
    <3>1. Chunks(o, job[u].call)' = S \union {m} /\ m \notin S /\ \A i \in S : i < m
      BY <1>2, <1>5, <1>6, <1>12, <2>8
    <3>2. OwesKind(u, o, "data_chunk") /\ ~OwesKind(u, o, "data_chunk")'
      BY <1>12, <2>1, <2>2, <2>8
    <3>3. /\ IsFiniteSet(S) /\ Cardinality(S) = Count(u) - 1
          /\ \A i \in S : Heard(o, i).n = c
          /\ Owed(u).n = last
      BY <1>4, <3>2 DEF TallyOf
    <3>4. c' = c /\ last' = last
      BY <1>5 DEF ChunkSize
    <3>5. IsFiniteSet(S \union {m}) /\ Cardinality(S \union {m}) = Cardinality(S) + 1
          /\ Cardinality(S) \in Nat
      BY <3>1, <3>3, FS_AddElement, FS_CardinalityType
    <3>6. Count(u) \in Nat
      BY <1>4, CountType
    <3>7. Cardinality(S \union {m}) = Count(u)
      BY <3>3, <3>5, <3>6
    <3>8. /\ \A i \in S : Heard(o, i)'.n = c
          /\ Heard(o, m)'.n = last
      BY <1>2, <1>9, <1>12, <3>3
    <3>9. \A i \in S \union {m} :
            Heard(o, i)'.n = IF \E j \in S \union {m} : j > i THEN c ELSE last
      <4>1. \A i \in S : i \in Int
        <5>1. DOMAIN log[o] \subseteq Nat
          BY LogFacts
        <5> QED BY <1>2, <5>1
      <4> QED BY <3>1, <3>8, <4>1
    <3> QED BY <1>5, <1>12, <2>5, <2>6, <3>1, <3>2, <3>4, <3>5, <3>7, <3>9 DEF TallyOf
  <2> QED BY <2>7, <2>8
<1> QED BY <1>11, <1>12

(* Once its last event is delivered a push has told what its result says.  *)
LEMMA ToldAll ==
  ASSUME TypeOK, CallInv, TallyInv, NEW t \in Task, At(t, "return"),
         job[t].res.op = "push"
  PROVE  InLog(job[t].res)
<1>1. Pushing(t) /\ Counted(t) /\ due[t] = 0 /\ job[t].pc = "return"
  BY DEF Pushing, Counted, At
<1>2. job[t].res.call = job[t].call
  BY <1>1 DEF CallInv
<1>3. /\ To(t) = job[t].res.peer /\ Bytes(t) = job[t].res.bytes
      /\ Count(t) = job[t].res.chunks
  BY <1>1 DEF To, Bytes, Count
<1>4. ASSUME NEW o \in 1..Fan
      PROVE  /\ Cardinality(Chunks(o, job[t].call)) = Count(t)
             /\ \A i \in Chunks(o, job[t].call) :
                  Heard(o, i).n = IF \E j \in Chunks(o, job[t].call) : j > i
                                  THEN ChunkSize(To(t))
                                  ELSE Bytes(t) - ChunkSize(To(t)) * (Count(t) - 1)
             /\ Heeded(o, job[t].call, job[t].res.ok)
  <2>1. TallyOf(t, o)
    BY <1>1 DEF TallyInv
  <2>2. \A kind : ~OwesKind(t, o, kind)
    BY <1>1 DEF OwesKind
  <2> QED BY <1>1, <2>1, <2>2, Zenon DEF TallyOf
<1> QED BY <1>2, <1>3, <1>4 DEF InLog, Heeded

(* Every step keeps each observer's tally. *)
LEMMA TallyInvStep ==
  ASSUME TypeOK, Log!StreamInv, CallInv, SendInv, TallyInv, [Next]_vars
  PROVE  TallyInv'
<1>1. ASSUME NEW t \in Task, StepOf(t), ~Deliver(t)
      PROVE  TallyInv'
  <2>1. ASSUME NEW u \in Task, Pushing(u)', NEW o \in 1..Fan
        PROVE  TallyOf(u, o)'
    BY <1>1, <2>1, TallyKept, TallyStep
  <2>2. ASSUME NEW r \in results', r.op = "push"
        PROVE  InLog(r)'
    <3>1. InLog(r)
      <4>1. CASE r \in results
        BY <2>2, <4>1 DEF TallyInv
      <4>2. CASE r \notin results
        <5>1. Return(t) /\ r = job[t].res
          BY <1>1, <2>2, <4>2, ResultsStep
        <5>2. At(t, "return")
          BY <5>1 DEF Return
        <5> QED BY <2>2, <5>1, <5>2, ToldAll
      <4> QED BY <4>1, <4>2
    <3>2. \A o \in 1..Fan :
            /\ DOMAIN log'[o] = DOMAIN log[o]
            /\ \A i \in DOMAIN log[o] : Heard(o, i)' = Heard(o, i)
            /\ Chunks(o, r.call)' = Chunks(o, r.call)
            /\ Chunks(o, r.call) \subseteq DOMAIN log[o]
      BY <1>1, LogStill
    <3> QED BY <3>1, <3>2 DEF InLog
  <2> QED BY <2>1, <2>2 DEF TallyInv
<1>2. ASSUME NEW t \in Task, Deliver(t)
      PROVE  TallyInv'
  <2>1. ASSUME NEW u \in Task, Pushing(u)', NEW o \in 1..Fan
        PROVE  TallyOf(u, o)'
    BY <1>2, <2>1, TallyDeliver
  <2>2. results' = results
    BY <1>2 DEF Deliver
  <2>3. ASSUME NEW r \in results, r.op = "push"
        PROVE  InLog(r)'
    <3>1. InLog(r)
      BY <2>3 DEF TallyInv
    <3>2. r.call # Owed(t).call
      <4>1. due[t] > 0
        BY <1>2 DEF Deliver, Stream!Deliver
      <4> QED BY <2>3, <4>1 DEF CallInv
    <3>3. ASSUME NEW o \in 1..Fan
          PROVE  /\ Chunks(o, r.call)' = Chunks(o, r.call)
                 /\ \A i \in Chunks(o, r.call) : Heard(o, i)' = Heard(o, i)
                 /\ \A ok : Heeded(o, r.call, ok) => Heeded(o, r.call, ok)'
      BY <1>2, <3>2, ChunkDelivered
    <3>4. \A o \in 1..Fan : Heeded(o, r.call, r.ok)'
      BY <3>1, <3>3 DEF InLog, Heeded
    <3>5. \A o \in 1..Fan :
            /\ Cardinality(Chunks(o, r.call)') = r.chunks
            /\ \A i \in Chunks(o, r.call)' :
                 Heard(o, i)'.n = IF \E j \in Chunks(o, r.call)' : j > i
                                  THEN ChunkSize(r.peer)
                                  ELSE r.bytes - ChunkSize(r.peer) * (r.chunks - 1)
      BY <3>1, <3>3 DEF InLog
    <3> QED BY <3>4, <3>5 DEF InLog, Heeded
  <2> QED BY <2>1, <2>2, <2>3 DEF TallyInv
<1>3. ASSUME UNCHANGED vars PROVE TallyInv'
  <2>1. UNCHANGED <<seq, said, held, due, log, job, results>>
    BY <1>3 DEF vars, streamVars
  <2>2. ASSUME NEW t \in Task PROVE Pushing(t)' <=> Pushing(t)
    BY <2>1 DEF Pushing
  <2>3. ASSUME NEW t \in Task, NEW o \in 1..Fan, TallyOf(t, o)
        PROVE  TallyOf(t, o)'
    BY <2>1, <2>3 DEF TallyOf, Counted, To, Bytes, Count, OwesKind, Owed, Heeded, Chunks,
                      Heard
  <2>4. ASSUME NEW r, InLog(r) PROVE InLog(r)'
    BY <2>1, <2>4 DEF InLog, Chunks, Heard
  <2> QED BY <2>1, <2>2, <2>3, <2>4 DEF TallyInv
<1> QED BY <1>1, <1>2, <1>3 DEF Next, StepOf

(* What a push returns is what the scripted link let through and what the  *)
(* observers were told, whatever the other tasks do to the clock, the      *)
(* numbering and the connection.                                           *)
THEOREM ReceiptCorrect == Spec => []ReceiptTruthful
<1>1. Init => CallInv /\ SendInv /\ TallyInv
  <2> SUFFICES ASSUME Init PROVE CallInv /\ SendInv /\ TallyInv
    OBVIOUS
  <2>1. /\ seq = 0 /\ results = {}
        /\ \A t \in Task : job[t].pc = "idle" /\ due[t] = 0
    BY DEF Init, Stream!Init, Idle
  <2> QED BY <2>1 DEF CallInv, SendInv, TallyInv, Pushing
<1>2. SendInv /\ TallyInv => ReceiptTruthful
  BY DEF SendInv, TallyInv, ReceiptTruthful
<1> QED BY <1>1, <1>2, CallStep, SendInvStep, TallyInvStep, TypeCorrect, LogCorrect, PTL
        DEF Spec
=============================================================================
