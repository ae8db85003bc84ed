------------------------- MODULE BlueZAdapterProofs -------------------------
(***************************************************************************)
(* What is proved of a BlueZ adapter's address (LocalAddress) and of the   *)
(* port-auth state that is told of its events (PortAuth), for any calls,   *)
(* addresses and numbers of events read, and for any interfaces and        *)
(* refreshes.                                                              *)
(*                                                                         *)
(* LocalAddress: the inductive invariant says what a call may conclude     *)
(* from the answer it reads: a step of a spoof that the kernel has yet to  *)
(* carry out is the one its call waits for, or its call has failed; so     *)
(* that, once the last answer was read, no command of the call can come    *)
(* late.                                                                   *)
(*                                                                         *)
(* PortAuth: it says of each refresh under way what it says of the cache   *)
(* once the refresh is stored, with the interfaces still to be read set    *)
(* apart: what it gathered was true of what it saw.                        *)
(***************************************************************************)
EXTENDS LocalAddress, PortAuth, TLAPS

Answers == {"other", "ok", "refused"}
HasOk(s) == \E i \in 1 .. Len(s) : s[i] = "ok"

(* A socket nobody reads is closed, with nothing in it. *)
Silent == \A c \in Call : c \notin waiting => inbox[c] = <<>>

(* Only calls that ask for an address spoof. *)
Spoofing == \A c \in Call : pc[c] \in Steps \cup {"resume"} => wish[c] \in Address

(* A step not carried out yet is the one waited for, or its call failed. *)
Awaited ==
  \A c \in Call, s \in Steps : <<c, s>> \in pending =>
    /\ wish[c] \in Address
    /\ \/ pc[c] = s /\ c \in waiting /\ ~HasOk(inbox[c])
       \/ pc[c] = "failed"

(* The address was set, as far as c knows or is about to read. *)
IsSet(c) ==
  /\ wish[c] \in Address
  /\ pc[c] \in {"on", "resume", "operate"} \/ (pc[c] = "address" /\ HasOk(inbox[c]))

Masked ==
  \A c \in Call : IsSet(c) =>
    /\ wish[c] # Factory /\ c \notin exposed => address # Factory
    /\ c \notin disturbed => address = wish[c]

Lit ==
  \A c \in Call :
    pc[c] = "operate" /\ wish[c] \in Address /\ c \notin disturbed => powered = "on"

(* Who turned the controller off has yet to turn it on, or has failed. *)
Owed ==
  powered = "off" =>
    \E c \in Call : /\ wish[c] \in Address
                    /\ pc[c] \in Steps \cup {"resume", "failed", "dropped"}

IInv == TypeOK /\ Silent /\ Spoofing /\ Awaited /\ Masked /\ Lit /\ Owed

-----------------------------------------------------------------------------
(* Sockets. *)

(* A socket has an ok once it was there or has come. *)
LEMMA OkAfter ==
  ASSUME NEW s \in Seq(Answers), NEW e \in Answers
  PROVE  /\ Append(s, e) \in Seq(Answers)
         /\ HasOk(Append(s, e)) <=> HasOk(s) \/ e = "ok"
  BY DEF HasOk

(* An ok that is read was there. *)
LEMMA OkBefore ==
  ASSUME NEW s \in Seq(Answers), s # <<>>
  PROVE  /\ Tail(s) \in Seq(Answers)
         /\ HasOk(Tail(s)) => HasOk(s)
         /\ Head(s) \in Answers
         /\ Head(s) = "ok" => HasOk(s)
  BY DEF HasOk

(* An empty socket has none. *)
LEMMA OkNone == <<>> \in Seq(Answers) /\ ~HasOk(<<>>)
  BY DEF HasOk

(* The order of a spoof's commands. *)
LEMMA NextStep ==
  ASSUME NEW c
  PROVE  /\ AfterSuccess(c, "off") = "address"
         /\ AfterSuccess(c, "address") = "on"
         /\ AfterSuccess(c, "on") \in {"dropped", "resume"}
  BY DEF AfterSuccess

-----------------------------------------------------------------------------
(* Types. *)

(* The types at the start. *)
LEMMA InitType == Init => TypeOK
  BY AddressAssumption, OkNone DEF Init, TypeOK, Commands, Steps, Answers

(* The types, as a socket is closed. *)
LEMMA CloseType ==
  ASSUME TypeOK, NEW c \in Call, Close(c)
  PROVE  /\ waiting' \subseteq Call /\ left' \in [Call -> 0 .. Reads]
         /\ inbox' \in [Call -> Seq(Answers)]
  BY AddressAssumption, OkNone DEF TypeOK, Close, Answers

(* The types, as a command fails. *)
LEMMA FailType ==
  ASSUME TypeOK, NEW c \in Call, StepFails(c)
  PROVE  TypeOK'
<1>1. AfterError(c) \in {"done", "failed"}
  BY DEF AfterError
<1>2. pc' \in [Call -> Commands \cup Over \cup {"idle", "resume", "powerup", "operate"}]
  BY <1>1 DEF StepFails, Goto, TypeOK, Over
<1>3. Close(c)
  BY DEF StepFails
<1> QED BY <1>2, <1>3, CloseType DEF TypeOK, StepFails, kernel, Answers

(* Every step keeps the types. *)
LEMMA TypeStep == TypeOK /\ Awaited /\ [Next]_vars => TypeOK'
<1> SUFFICES ASSUME TypeOK, Awaited, [Next]_vars PROVE TypeOK'
  OBVIOUS
<1>u. CASE UNCHANGED vars
  BY <1>u DEF vars, kernel, TypeOK
<1>1. ASSUME NEW c \in Call, Begin(c) PROVE TypeOK'
  BY <1>1 DEF Begin, TypeOK, Goto, kernel, Commands, Steps, Over
<1>2. ASSUME NEW c \in Call, Send(c) PROVE TypeOK'
  BY <1>2, AddressAssumption DEF Send, TypeOK
<1>3. ASSUME NEW c \in Call, SendFails(c) \/ ReadTimesOut(c) PROVE TypeOK'
  BY <1>3, FailType DEF SendFails, ReadTimesOut
<1>4. ASSUME NEW c \in Call, ReadOther(c) PROVE TypeOK'
  <2>1. CASE left[c] > 1
    <3>1. inbox[c] \in Seq(Answers) /\ inbox[c] # <<>>
      BY <1>4 DEF ReadOther, IsOther, TypeOK, Answers
    <3>2. Tail(inbox[c]) \in Seq(Answers)
      BY <3>1, OkBefore
    <3>3. left[c] - 1 \in 0 .. Reads /\ left' = [left EXCEPT ![c] = left[c] - 1]
      BY <1>4, <2>1, AddressAssumption DEF ReadOther, TypeOK
    <3>4. left' \in [Call -> 0 .. Reads]
      BY <3>3 DEF TypeOK
    <3> QED BY <1>4, <2>1, <3>2, <3>4 DEF ReadOther, TypeOK, kernel, Answers
  <2> QED BY <1>4, <2>1, FailType DEF ReadOther
<1>5. ASSUME NEW c \in Call, ReadAnswer(c) PROVE TypeOK'
  <2>1. CASE StepFails(c)
    BY <2>1, FailType
  <2>2. CASE Goto(c, AfterSuccess(c, pc[c])) /\ Close(c) /\ UNCHANGED <<wish, support, kernel, dropped>>
    <3>1. AfterSuccess(c, pc[c]) \in {"address", "on", "dropped", "resume"}
      BY <1>5, NextStep DEF ReadAnswer, Steps
    <3>2. pc' \in [Call -> Commands \cup Over \cup {"idle", "resume", "powerup", "operate"}]
      BY <2>2, <3>1 DEF Goto, TypeOK, Commands, Steps, Over
    <3> QED BY <2>2, <3>2, CloseType DEF TypeOK, kernel, Answers
  <2> QED BY <1>5, <2>1, <2>2 DEF ReadAnswer
<1>6. ASSUME NEW c \in Call, ReadInfo(c) PROVE TypeOK'
  BY <1>6, CloseType DEF ReadInfo, TypeOK, Goto, kernel, Over, Answers
<1>7. ASSUME NEW c \in Call, PowerUp(c) PROVE TypeOK'
  BY <1>7 DEF PowerUp, TypeOK, Goto, Commands, Over
<1>8. ASSUME NEW c \in Call, Operate(c) \/ Drop(c) PROVE TypeOK'
  BY <1>8 DEF Operate, Drop, TypeOK, Goto, kernel, Over
<1>9. ASSUME NEW c \in Call, Announce(c) PROVE TypeOK'
  BY <1>9, OkAfter DEF Announce, TypeOK, kernel, Answers
<1>10. ASSUME NEW c \in Call, NEW s \in Commands, CarryOut(c, s) PROVE TypeOK'
  <2>1. inbox' \in [Call -> Seq(Answers)]
    BY <1>10, OkAfter DEF CarryOut, TypeOK, Answers
  <2>2. powered' \in {"on", "off"} /\ disturbed' \subseteq Call /\ exposed' \subseteq Call
    BY <1>10 DEF CarryOut, TakeEffect, Running, TypeOK
  <2>3. address' \in Address \cup {Factory}
    BY <1>10 DEF CarryOut, TakeEffect, TypeOK, Awaited, Steps
  <2> QED BY <1>10, <2>1, <2>2, <2>3 DEF CarryOut, TypeOK, Answers
<1>11. CASE Reassert
  BY <1>11 DEF Reassert, Running, TypeOK
<1> QED BY <1>1, <1>2, <1>3, <1>4, <1>5, <1>6, <1>7, <1>8, <1>9, <1>10, <1>11, <1>u DEF Next, Moves

-----------------------------------------------------------------------------
(* Silent and Spoofing. *)

(* Every step keeps sockets nobody reads empty. *)
LEMMA SilentStep == TypeOK /\ Silent /\ [Next]_vars => Silent'
<1> SUFFICES ASSUME TypeOK, Silent, [Next]_vars, NEW d \in Call, d \notin waiting'
             PROVE  inbox'[d] = <<>>
  BY DEF Silent
<1>u. CASE UNCHANGED vars
  BY <1>u DEF vars, Silent
<1>1. ASSUME NEW c \in Call, Begin(c) \/ PowerUp(c) \/ Operate(c) \/ Drop(c)
      PROVE  inbox'[d] = <<>>
  BY <1>1 DEF Begin, PowerUp, Operate, Drop, Silent
<1>2. ASSUME NEW c \in Call, Send(c) PROVE inbox'[d] = <<>>
  BY <1>2 DEF Send, Silent
<1>3. ASSUME NEW c \in Call, Close(c) PROVE inbox'[d] = <<>>
  BY <1>3 DEF Close, Silent, TypeOK
<1>4. ASSUME NEW c \in Call, ReadOther(c) PROVE inbox'[d] = <<>>
  BY <1>3, <1>4 DEF ReadOther, IsOther, StepFails, Silent, TypeOK
<1>5. ASSUME NEW c \in Call, Announce(c) PROVE inbox'[d] = <<>>
  BY <1>5 DEF Announce, Silent, TypeOK
<1>6. ASSUME NEW c \in Call, NEW s \in Commands, CarryOut(c, s) PROVE inbox'[d] = <<>>
  BY <1>6 DEF CarryOut, Silent, TypeOK
<1>7. ASSUME NEW c \in Call, SendFails(c) \/ ReadTimesOut(c) \/ ReadAnswer(c) \/ ReadInfo(c)
      PROVE  inbox'[d] = <<>>
  BY <1>3, <1>7 DEF SendFails, ReadTimesOut, ReadAnswer, ReadInfo, StepFails
<1>8. CASE Reassert
  BY <1>8 DEF Reassert, Silent
<1> QED BY <1>1, <1>2, <1>4, <1>5, <1>6, <1>7, <1>8, <1>u DEF Next, Moves

(* A step fails, or is done and the next one taken: where c is then. *)
LEMMA MovesOn ==
  ASSUME TypeOK, NEW c \in Call,
         SendFails(c) \/ ReadTimesOut(c) \/ ReadOther(c) \/ ReadAnswer(c) \/ ReadInfo(c)
  PROVE  /\ UNCHANGED <<wish, support, kernel, dropped>>
         /\ \A d \in Call \ {c} : pc'[d] = pc[d] /\ inbox'[d] = inbox[d]
                                 /\ (d \in waiting' <=> d \in waiting)
         /\ \/ /\ pc'[c] = "failed" \/ (pc[c] = "info" /\ pc'[c] = "done")
               /\ inbox'[c] = <<>>
            \/ /\ pc'[c] = pc[c] /\ c \in waiting' /\ inbox[c] # <<>>
               /\ inbox'[c] = Tail(inbox[c])
            \/ /\ pc[c] \in Steps /\ inbox[c] # <<>> /\ Head(inbox[c]) = "ok"
               /\ pc'[c] = AfterSuccess(c, pc[c])
               /\ inbox'[c] = <<>>
<1>1. CASE StepFails(c)
  BY <1>1 DEF StepFails, Goto, AfterError, At, Close, TypeOK
<1>2. CASE ReadOther(c) /\ left[c] > 1
  BY <1>2 DEF ReadOther, IsOther, TypeOK
<1>3. CASE ReadAnswer(c) /\ ~StepFails(c)
  BY <1>3 DEF ReadAnswer, Goto, Close, TypeOK
<1>4. CASE ReadInfo(c)
  BY <1>4 DEF ReadInfo, Goto, Close, At, TypeOK
<1> QED BY <1>1, <1>2, <1>3, <1>4 DEF SendFails, ReadTimesOut, ReadOther

(* Every step keeps commands to the calls that spoof. *)
LEMMA SpoofingStep == TypeOK /\ Spoofing /\ [Next]_vars => Spoofing'
<1> SUFFICES ASSUME TypeOK, Spoofing, [Next]_vars, NEW d \in Call,
                    pc'[d] \in Steps \cup {"resume"}
             PROVE  wish'[d] \in Address
  BY DEF Spoofing
<1>1. wish' = wish
  BY DEF Next, vars, Moves, Begin, Send, SendFails, ReadTimesOut, ReadOther, ReadAnswer,
         ReadInfo, PowerUp, Operate, Drop, Announce, CarryOut, StepFails, Reassert
<1>2. CASE pc'[d] = pc[d]
  BY <1>1, <1>2 DEF Spoofing
<1>3. ASSUME NEW c \in Call, Begin(c) PROVE wish[d] \in Address
  BY <1>3 DEF Begin, Goto, At, TypeOK, Spoofing, Steps
<1>4. ASSUME NEW c \in Call,
             SendFails(c) \/ ReadTimesOut(c) \/ ReadOther(c) \/ ReadAnswer(c) \/ ReadInfo(c)
      PROVE  wish[d] \in Address
  BY <1>4, MovesOn DEF Spoofing, Steps
<1>5. ASSUME NEW c \in Call, PowerUp(c) \/ Operate(c) \/ Drop(c) PROVE wish[d] \in Address
  BY <1>5 DEF PowerUp, Operate, Drop, Goto, TypeOK, Spoofing, Steps
<1>6. ASSUME NEW c \in Call, Send(c) \/ Announce(c) \/ \E s \in Commands : CarryOut(c, s)
      PROVE  pc' = pc
  BY <1>6 DEF Send, Announce, CarryOut
<1>7. CASE Reassert \/ UNCHANGED vars
  BY <1>2, <1>7 DEF Reassert, vars
<1> QED BY <1>1, <1>2, <1>3, <1>4, <1>5, <1>6, <1>7 DEF Next, Moves

-----------------------------------------------------------------------------
(* Awaited: no command of a call comes later than its answer. *)

(* Every step keeps what is pending awaited. *)
LEMMA AwaitedStep == TypeOK /\ Silent /\ Spoofing /\ Awaited /\ [Next]_vars => Awaited'
<1> SUFFICES ASSUME TypeOK, Silent, Spoofing, Awaited, [Next]_vars,
                    NEW d \in Call, NEW t \in Steps, <<d, t>> \in pending'
             PROVE  /\ wish'[d] \in Address
                    /\ \/ pc'[d] = t /\ d \in waiting' /\ ~HasOk(inbox'[d])
                       \/ pc'[d] = "failed"
  BY DEF Awaited
<1> DEFINE Goal == /\ wish'[d] \in Address
                   /\ \/ pc'[d] = t /\ d \in waiting' /\ ~HasOk(inbox'[d])
                      \/ pc'[d] = "failed"
           Was  == /\ wish[d] \in Address
                   /\ \/ pc[d] = t /\ d \in waiting /\ ~HasOk(inbox[d])
                      \/ pc[d] = "failed"
<1>w. <<d, t>> \in pending => Was
  BY DEF Awaited
<1>i. inbox[d] \in Seq(Answers) /\ Steps \subseteq Commands
  BY DEF TypeOK, Answers, Commands
<1>u. CASE UNCHANGED vars
  BY <1>u, <1>w DEF vars, kernel
<1>1. ASSUME NEW c \in Call, Begin(c) \/ PowerUp(c) \/ Operate(c) \/ Drop(c) PROVE Goal
  <2>1. <<d, t>> \in pending /\ UNCHANGED <<wish, waiting, inbox>>
    BY <1>1 DEF Begin, PowerUp, Operate, Drop, kernel
  <2>2. pc[d] \in Steps \cup {"failed"} => pc'[d] = pc[d]
    BY <1>1 DEF Begin, PowerUp, Operate, Drop, Goto, At, TypeOK, Steps
  <2> QED BY <1>w, <2>1, <2>2
<1>2. ASSUME NEW c \in Call, Send(c) PROVE Goal
  <2>1. UNCHANGED <<wish, pc, inbox>> /\ waiting \subseteq waiting'
    BY <1>2 DEF Send
  <2>2. CASE <<d, t>> \in pending
    BY <1>w, <2>1, <2>2
  <2>3. CASE <<d, t>> \notin pending
    <3>1. d = c /\ pc[d] = t /\ d \in waiting' /\ d \notin waiting
      BY <1>2, <2>3 DEF Send
    <3>2. ~HasOk(inbox[d])
      BY <3>1, OkNone DEF Silent
    <3>3. wish[d] \in Address
      BY <3>1 DEF Spoofing
    <3> QED BY <2>1, <3>1, <3>2, <3>3
  <2> QED BY <2>2, <2>3
<1>3. ASSUME NEW c \in Call,
             SendFails(c) \/ ReadTimesOut(c) \/ ReadOther(c) \/ ReadAnswer(c) \/ ReadInfo(c)
      PROVE  Goal
  <2>1. <<d, t>> \in pending /\ wish' = wish
    BY <1>3, MovesOn DEF kernel
  <2>2. CASE d # c
    BY <1>3, <1>w, <2>1, <2>2, MovesOn
  <2>3. CASE d = c /\ pc'[c] = "failed"
    BY <1>w, <2>1, <2>3
  <2>4. CASE d = c /\ pc[c] = "info"
    BY <1>w, <2>1, <2>4 DEF Steps
  <2>5. CASE d = c /\ pc'[c] = pc[c] /\ c \in waiting' /\ inbox[c] # <<>> /\ inbox'[c] = Tail(inbox[c])
    BY <1>i, <1>w, <2>1, <2>5, OkBefore
  <2>6. CASE d = c /\ pc[c] \in Steps /\ inbox[c] # <<>> /\ Head(inbox[c]) = "ok"
    BY <1>i, <1>w, <2>1, <2>6, OkBefore DEF Steps
  <2> QED BY <1>3, <2>2, <2>3, <2>4, <2>5, <2>6, MovesOn
<1>4. ASSUME NEW c \in Call, Announce(c) PROVE Goal
  <2>1. <<d, t>> \in pending /\ UNCHANGED <<wish, pc, waiting>>
    BY <1>4 DEF Announce, kernel
  <2>2. inbox'[d] = inbox[d] \/ inbox'[d] = Append(inbox[d], "other")
    BY <1>4 DEF Announce, TypeOK
  <2>3. HasOk(inbox'[d]) => HasOk(inbox[d])
    <3>1. HasOk(Append(inbox[d], "other")) <=> HasOk(inbox[d])
      BY <1>i, OkAfter DEF Answers
    <3> QED BY <2>2, <3>1
  <2> QED BY <1>w, <2>1, <2>3
<1>5. ASSUME NEW c \in Call, NEW s \in Commands, CarryOut(c, s) PROVE Goal
  <2>1. <<d, t>> \in pending /\ <<d, t>> # <<c, s>> /\ UNCHANGED <<wish, pc, waiting>>
    BY <1>5 DEF CarryOut
  <2>2. CASE inbox'[d] = inbox[d]
    BY <1>w, <2>1, <2>2
  <2>3. CASE inbox'[d] # inbox[d]
    <3>1. d = c /\ pc[c] = s
      BY <1>5, <2>3 DEF CarryOut, At, TypeOK
    <3>2. pc[d] = "failed"
      BY <1>w, <2>1, <3>1
    <3> QED BY <1>w, <2>1, <3>2
  <2> QED BY <2>2, <2>3
<1>6. CASE Reassert
  BY <1>w, <1>6 DEF Reassert
<1> QED BY <1>1, <1>2, <1>3, <1>4, <1>5, <1>6, <1>u DEF Next, Moves

-----------------------------------------------------------------------------
(* What the kernel does for a call, and what it does for others. *)

(* A command carried out: the address and the power follow it, and every   *)
(* other call that has begun counts as disturbed, and as exposed if the    *)
(* address is the controller's own.                                        *)
LEMMA Effect ==
  ASSUME TypeOK, Awaited, NEW c \in Call, NEW s \in Commands, CarryOut(c, s)
  PROVE  /\ UNCHANGED <<wish, pc, waiting>> /\ disturbed \subseteq disturbed'
         /\ \A d \in Call : inbox'[d] = inbox[d] \/ (d = c /\ pc[c] = s)
         /\ address' # address => s = "address" /\ address' = wish[c]
         /\ powered' # powered => s \in {"off", "on"} /\ powered' = s
         /\ powered' # powered /\ powered' = "off" => wish[c] \in Address /\ pc[c] \in {"off", "failed"}
         /\ address' # address \/ (powered' # powered /\ powered' = "off") =>
              \A d \in Call \ {c} : pc[d] = "idle" \/ d \in disturbed'
         /\ s = "address" => wish[c] \in Address
         /\ \A d \in exposed \ exposed' : d = c /\ address' = wish[c]
         /\ address' # address /\ wish[c] = Factory =>
              \A d \in Call \ {c} : pc[d] = "idle" \/ d \in exposed'
<1>1. UNCHANGED <<wish, pc, waiting>> /\ <<c, s>> \in pending
  BY DEF CarryOut
<1>2. \A d \in Call : inbox'[d] = inbox[d] \/ (d = c /\ pc[c] = s)
  BY DEF CarryOut, TypeOK, At
<1>3. \/ UNCHANGED <<powered, address, disturbed, exposed>>
      \/ TakeEffect(c, s)
  BY DEF CarryOut
<1>4. s \in Steps => wish[c] \in Address /\ pc[c] \in {s, "failed"}
  BY <1>1 DEF Awaited
<1>5. CASE UNCHANGED <<powered, address, disturbed, exposed>>
  BY <1>1, <1>2, <1>4, <1>5 DEF Steps
<1>6. CASE TakeEffect(c, s)
  <2>1. /\ address' # address => s = "address" /\ address' = wish[c]
        /\ powered' # powered => s \in {"off", "on"} /\ powered' = s
        /\ s \in {"off", "address"} =>
             disturbed' = disturbed \cup (Running \ {c})
        /\ disturbed \subseteq disturbed'
        /\ \A d \in exposed \ exposed' : d = c /\ address' = wish[c]
        /\ s = "address" /\ wish[c] = Factory =>
             exposed' = (exposed \cup Running) \ {c}
    BY <1>6 DEF TakeEffect
  <2>2. s \in {"off", "address"} =>
          \A d \in Call \ {c} : pc[d] = "idle" \/ d \in disturbed'
    BY <2>1 DEF At, Running
  <2>3. s = "address" /\ wish[c] = Factory =>
          \A d \in Call \ {c} : pc[d] = "idle" \/ d \in exposed'
    BY <2>1 DEF At, Running
  <2> QED BY <1>1, <1>2, <1>4, <2>1, <2>2, <2>3 DEF Steps
<1> QED BY <1>3, <1>5, <1>6

(* An answer "ok" to the address comes with the address. *)
LEMMA OkMeansSet ==
  ASSUME TypeOK, Awaited, NEW c \in Call, NEW s \in Commands, CarryOut(c, s),
         pc[c] = "address", HasOk(inbox'[c]), ~HasOk(inbox[c])
  PROVE  s = "address" /\ address' = wish[c]
<1>1. inbox[c] \in Seq(Answers)
  BY DEF TypeOK, Answers
<1>2. PICK a \in {"ok", "refused"} :
        /\ a = "ok" => TakeEffect(c, s)
        /\ inbox' = IF c \in waiting /\ At(c, s)
                    THEN [inbox EXCEPT ![c] = Append(@, a)] ELSE inbox
  BY DEF CarryOut
<1>3. At(c, s) /\ inbox'[c] = Append(inbox[c], a)
  BY <1>2 DEF TypeOK
<1>4. a = "ok" /\ s = "address"
  BY <1>1, <1>2, <1>3, OkAfter DEF At, Answers
<1> QED BY <1>2, <1>4 DEF TakeEffect

(* A call's own progress never makes its address more certain than it is.  *)
LEMMA SetEarlier ==
  ASSUME TypeOK, Silent, [Next]_vars, NEW d \in Call,
         ~ Reassert, ~ \E c \in Call, s \in Commands : CarryOut(c, s), IsSet(d)'
  PROVE  IsSet(d) /\ UNCHANGED <<wish, address, disturbed, exposed>>
<1>i. inbox[d] \in Seq(Answers)
  BY DEF TypeOK, Answers
<1>u. CASE UNCHANGED vars
  BY <1>u DEF vars, kernel, IsSet
<1>1. ASSUME NEW c \in Call, Begin(c) \/ PowerUp(c) \/ Operate(c) \/ Drop(c)
      PROVE  IsSet(d) /\ UNCHANGED <<wish, address, disturbed, exposed>>
  <2>1. UNCHANGED <<wish, inbox, address, disturbed, exposed>>
    BY <1>1 DEF Begin, PowerUp, Operate, Drop, kernel
  <2>2. CASE pc'[d] = pc[d]
    BY <2>1, <2>2 DEF IsSet
  <2>3. CASE pc'[d] # pc[d]
    <3>1. pc[d] = "idle" => pc'[d] = "off" \/ (pc'[d] = "operate" /\ wish[d] = NoSpoof) \/ pc'[d] \in {"powerup", "failed"}
      BY <1>1, <2>3 DEF Begin, PowerUp, Operate, Drop, Goto, At, TypeOK, Steps
    <3>2. pc[d] # "idle" => pc'[d] \in {"info", "failed", "done", "dropped"} \/ (pc[d] = "resume" /\ pc'[d] = "operate")
      BY <1>1, <2>3 DEF Begin, PowerUp, Operate, Drop, Goto, At, TypeOK, Steps
    <3> QED BY <2>1, <3>1, <3>2, AddressAssumption DEF IsSet
  <2> QED BY <2>2, <2>3
<1>2. ASSUME NEW c \in Call, Send(c) PROVE IsSet(d) /\ UNCHANGED <<wish, address, disturbed, exposed>>
  BY <1>2 DEF Send, IsSet
<1>3. ASSUME NEW c \in Call,
             SendFails(c) \/ ReadTimesOut(c) \/ ReadOther(c) \/ ReadAnswer(c) \/ ReadInfo(c)
      PROVE  IsSet(d) /\ UNCHANGED <<wish, address, disturbed, exposed>>
  <2>1. UNCHANGED <<wish, address, disturbed, exposed>>
    BY <1>3, MovesOn DEF kernel
  <2>2. CASE d # c
    BY <1>3, <2>1, <2>2, MovesOn DEF IsSet
  <2>3. CASE d = c /\ pc'[c] \in {"failed", "done"}
    BY <2>3 DEF IsSet
  <2>4. CASE d = c /\ pc'[c] = pc[c] /\ inbox[c] # <<>> /\ inbox'[c] = Tail(inbox[c])
    BY <1>i, <2>1, <2>4, OkBefore DEF IsSet
  <2>5. CASE d = c /\ pc[c] \in Steps /\ inbox[c] # <<>> /\ Head(inbox[c]) = "ok"
                   /\ pc'[c] = AfterSuccess(c, pc[c]) /\ inbox'[c] = <<>>
    <3>1. HasOk(inbox[c]) /\ ~HasOk(inbox'[c])
      BY <1>i, <2>5, OkBefore, OkNone
    <3> QED BY <2>1, <2>5, <3>1, NextStep DEF IsSet, Steps
  <2> QED BY <1>3, <2>2, <2>3, <2>4, <2>5, MovesOn
<1>4. ASSUME NEW c \in Call, Announce(c) PROVE IsSet(d) /\ UNCHANGED <<wish, address, disturbed, exposed>>
  <2>1. inbox'[d] = inbox[d] \/ inbox'[d] = Append(inbox[d], "other")
    BY <1>4 DEF Announce, TypeOK
  <2>2. HasOk(inbox'[d]) => HasOk(inbox[d])
    <3>1. HasOk(Append(inbox[d], "other")) <=> HasOk(inbox[d])
      BY <1>i, OkAfter DEF Answers
    <3> QED BY <2>1, <3>1
  <2> QED BY <1>4, <2>2 DEF Announce, kernel, IsSet
<1> QED BY <1>1, <1>2, <1>3, <1>4, <1>u DEF Next, Moves

(* Every step keeps the address set in place. *)
LEMMA MaskedStep ==
  TypeOK /\ Silent /\ Awaited /\ Masked /\ [Next]_vars => Masked'
<1> SUFFICES ASSUME TypeOK, Silent, Awaited, Masked, [Next]_vars, NEW d \in Call, IsSet(d)'
             PROVE  /\ wish'[d] # Factory /\ d \notin exposed' => address' # Factory
                    /\ d \notin disturbed' => address' = wish'[d]
  BY DEF Masked
<1>1. CASE ~ Reassert /\ ~ \E c \in Call, s \in Commands : CarryOut(c, s)
  BY <1>1, SetEarlier DEF Masked
<1>2. CASE Reassert
  <2>1. pc[d] # "idle"
    BY <1>2 DEF Reassert, IsSet
  <2>2. d \in exposed' /\ d \in disturbed'
    BY <1>2, <2>1 DEF Reassert, Running, At
  <2> QED BY <2>2
<1>3. ASSUME NEW c \in Call, NEW s \in Commands, CarryOut(c, s)
      PROVE  /\ wish'[d] # Factory /\ d \notin exposed' => address' # Factory
             /\ d \notin disturbed' => address' = wish'[d]
  <2>w. UNCHANGED <<wish, pc>>
    BY <1>3, Effect
  <2>1. CASE IsSet(d) /\ address' = address
    <3>1. d \notin disturbed' => address' = wish'[d]
      BY <1>3, <2>w, <2>1, Effect DEF Masked
    <3>2. CASE d \in exposed \ exposed'
      BY <1>3, <2>w, <3>1, <3>2, Effect
    <3>3. CASE d \notin exposed \ exposed'
      BY <2>w, <2>1, <3>1, <3>3 DEF Masked
    <3> QED BY <3>2, <3>3
  <2>2. CASE address' # address
    <3>1. address' = wish[c] /\ pc[d] # "idle"
      BY <1>3, <2>w, <2>2, Effect DEF IsSet
    <3>2. d = c \/ (d \in disturbed' /\ (wish[c] = Factory => d \in exposed'))
      BY <1>3, <2>2, <3>1, Effect
    <3> QED BY <2>w, <3>1, <3>2
  <2>3. CASE ~IsSet(d)
    <3>1. wish[d] \in Address /\ pc[d] = "address" /\ HasOk(inbox'[d]) /\ ~HasOk(inbox[d])
      BY <2>3, <2>w DEF IsSet
    <3>2. d = c
      BY <1>3, <3>1, Effect
    <3>3. address' = wish[d]
      BY <1>3, <3>1, <3>2, OkMeansSet
    <3> QED BY <2>w, <3>3
  <2> QED BY <2>1, <2>2, <2>3
<1> QED BY <1>1, <1>2, <1>3

(* Every step keeps the controller on where it should be. *)
LEMMA LitStep ==
  TypeOK /\ Awaited /\ Lit /\ [Next]_vars => Lit'
<1> SUFFICES ASSUME TypeOK, Awaited, Lit, [Next]_vars, NEW d \in Call,
                    pc'[d] = "operate", wish'[d] \in Address, d \notin disturbed'
             PROVE  powered' = "on"
  BY DEF Lit
<1>u. CASE UNCHANGED vars
  BY <1>u DEF vars, kernel, Lit
<1>1. ASSUME NEW c \in Call, Begin(c) PROVE powered' = "on"
  BY <1>1, AddressAssumption DEF Begin, Goto, At, kernel, Lit, TypeOK
<1>2. ASSUME NEW c \in Call, PowerUp(c) PROVE powered' = "on"
  BY <1>2 DEF PowerUp, Goto, At, Lit, TypeOK
<1>3. ASSUME NEW c \in Call, Operate(c) \/ Drop(c) \/ Send(c) \/ Announce(c) PROVE powered' = "on"
  BY <1>3 DEF Operate, Drop, Send, Announce, Goto, kernel, Lit, TypeOK
<1>4. ASSUME NEW c \in Call,
             SendFails(c) \/ ReadTimesOut(c) \/ ReadOther(c) \/ ReadAnswer(c) \/ ReadInfo(c)
      PROVE  powered' = "on"
  <2>1. UNCHANGED <<wish, powered, disturbed>>
    BY <1>4, MovesOn DEF kernel
  <2>2. pc[d] = "operate"
    BY <1>4, MovesOn, NextStep DEF Steps
  <2> QED BY <2>1, <2>2 DEF Lit
<1>5. ASSUME NEW c \in Call, NEW s \in Commands, CarryOut(c, s) PROVE powered' = "on"
  <2>1. /\ UNCHANGED <<wish, pc>> /\ d \notin disturbed
    BY <1>5, Effect
  <2>2. powered = "on"
    BY <2>1 DEF Lit
  <2>3. ASSUME powered' # "on" PROVE FALSE
    <3>1. powered' = "off" /\ pc[c] \in {"off", "failed"}
      BY <1>5, <2>2, <2>3, Effect
    <3>2. d = c
      BY <1>5, <2>1, <2>2, <3>1, Effect
    <3> QED BY <2>1, <3>1, <3>2
  <2> QED BY <2>3
<1>6. CASE Reassert
  BY <1>6 DEF Reassert, Lit
<1> QED BY <1>1, <1>2, <1>3, <1>4, <1>5, <1>6, <1>u DEF Next, Moves

(* Every step keeps someone to answer for a controller that is off. *)
LEMMA OwedStep ==
  TypeOK /\ Awaited /\ Owed /\ [Next]_vars => Owed'
<1> DEFINE Owes(d) == /\ wish[d] \in Address
                      /\ pc[d] \in Steps \cup {"resume", "failed", "dropped"}
<1> SUFFICES ASSUME TypeOK, Awaited, Owed, [Next]_vars, powered' = "off"
             PROVE  \E d \in Call : Owes(d)'
  BY DEF Owed
<1>1. CASE powered = "off"
  <2>1. PICK d \in Call : Owes(d)
    BY <1>1 DEF Owed
  <2>u. CASE UNCHANGED vars
    BY <2>1, <2>u DEF vars
  <2>2. ASSUME NEW c \in Call, Begin(c) \/ Operate(c) \/ Drop(c) \/ Send(c) \/ Announce(c)
        PROVE  Owes(d)'
    BY <2>1, <2>2 DEF Begin, Operate, Drop, Send, Announce, Goto, At, TypeOK, Steps
  <2>3. ASSUME NEW c \in Call, PowerUp(c) PROVE Owes(d)'
    BY <2>1, <2>3 DEF PowerUp, Goto, TypeOK
  <2>4. ASSUME NEW c \in Call,
               SendFails(c) \/ ReadTimesOut(c) \/ ReadOther(c) \/ ReadAnswer(c) \/ ReadInfo(c)
        PROVE  Owes(d)'
    <3>1. wish' = wish
      BY <2>4, MovesOn
    <3>2. pc'[d] \in {pc[d], "failed"} \/ (pc[d] = "info" /\ pc'[d] = "done") \/ (pc[d] \in Steps /\ pc'[d] = AfterSuccess(d, pc[d]))
      BY <2>4, MovesOn
    <3> QED BY <2>1, <3>1, <3>2, NextStep DEF Steps
  <2>5. ASSUME NEW c \in Call, NEW s \in Commands, CarryOut(c, s) PROVE Owes(d)'
    BY <2>1, <2>5, Effect
  <2>6. CASE Reassert
    BY <2>1, <2>6 DEF Reassert
  <2> QED BY <2>2, <2>3, <2>4, <2>5, <2>6, <2>u DEF Next, Moves
<1>2. CASE powered # "off"
  <2>1. PICK c \in Call, s \in Commands : CarryOut(c, s)
    BY <1>2, MovesOn DEF Next, vars, Moves, Begin, Send, PowerUp, Operate, Drop, Announce, Reassert, kernel, TypeOK
  <2>2. wish[c] \in Address /\ pc[c] \in {"off", "failed"} /\ UNCHANGED <<wish, pc>>
    BY <1>2, <2>1, Effect
  <2> QED BY <2>2 DEF Steps
<1> QED BY <1>1, <1>2

-----------------------------------------------------------------------------
(* The theorems. *)

(* The invariant holds at the start. *)
LEMMA InitHolds == Init => IInv
<1> SUFFICES ASSUME Init PROVE IInv
  OBVIOUS
<1>1. Silent /\ Spoofing /\ Awaited /\ Lit /\ Owed
  BY DEF Init, Silent, Spoofing, Awaited, Lit, Owed, Steps
<1>2. Masked
  BY DEF Init, Masked, IsSet
<1> QED BY <1>1, <1>2, InitType DEF IInv

(* Every step keeps the invariant. *)
LEMMA StepHolds == IInv /\ [Next]_vars => IInv'
  BY TypeStep, SilentStep, SpoofingStep, AwaitedStep, MaskedStep, LitStep, OwedStep
     DEF IInv

(* Every variable keeps its type. *)
THEOREM TypeCorrect == Spec => []TypeOK
<1>1. IInv => TypeOK
  BY DEF IInv
<1> QED BY <1>1, InitHolds, StepHolds, PTL DEF Spec

(* Nothing asked for under another address goes out under the controller's *)
(* own, unless that was put back since.                                    *)
THEOREM NeverUnmaskedCorrect == Spec => []NeverUnmasked
<1>1. IInv => NeverUnmasked
  BY DEF IInv, Masked, IsSet, NeverUnmasked, At
<1> QED BY <1>1, InitHolds, StepHolds, PTL DEF Spec

(* An undisturbed call operates under the address it asked for.            *)
THEOREM AloneCorrect == Spec => []AloneAsAsked
<1>1. IInv => AloneAsAsked
  BY DEF IInv, Masked, IsSet, Lit, AloneAsAsked, At
<1> QED BY <1>1, InitHolds, StepHolds, PTL DEF Spec

(* Spoofs that succeed never leave the controller off between them.        *)
THEOREM NeverSilentlyOffCorrect == Spec => []NeverSilentlyOff
<1>1. IInv => NeverSilentlyOff
  BY DEF IInv, Owed, NeverSilentlyOff, Over, Steps
<1> QED BY <1>1, InitHolds, StepHolds, PTL DEF Spec

-----------------------------------------------------------------------------
(* Port authentication. *)

(* Kinds of network states, and what a refresh gathers of each kind. *)
ServiceState == IF kind = "nm" THEN NmState ELSE WpaState
DeviceStates == UNION {[D -> PortAuthState] : D \in SUBSET Device}
Answering    == IF kind = "nm" THEN DeviceStates ELSE PortAuthState

AuthTypeOK ==
  /\ kind \in {"nm", "wpa"}
  /\ wanted \subseteq Interface
  /\ state \in [Interface -> ServiceState]
  /\ present \subseteq Interface
  /\ cache \in Answering
  /\ stage \in [Refresher -> {"rest", "reading", "over"}]
  /\ unread \in [Refresher -> SUBSET Interface]
  /\ fresh \in [Refresher -> Answering]
  /\ errors \in Nat /\ changes \in Nat
  /\ held \in [Refresher -> SUBSET (Interface \X ServiceState)]
  /\ steady \in [Refresher -> SUBSET (Interface \X ServiceState)]
  /\ broken \in [Refresher -> {"no", "yes"}]
  /\ basis \in [stored : {"no", "yes"}, held : SUBSET (Interface \X ServiceState),
                steady : SUBSET (Interface \X ServiceState), broken : {"no", "yes"}]

(* What is true now is among what a refresh under way takes for held, and  *)
(* what it takes for steady is true now.                                   *)
Witnessed ==
  \A r \in Refresher : stage[r] = "reading" => Now \subseteq held[r] /\ steady[r] \subseteq Now

(* A refresh that is not under way reads nothing and has gathered nothing. *)
Rested ==
  \A r \in Refresher :
    stage[r] # "reading" => unread[r] = {} /\ fresh[r] = Empty /\ broken[r] = "no"

(* An answer about d that was true of an interface of d's in h, or says    *)
(* that nothing is known, or stands for a state that could not be read.    *)
TrueOf(answer, d, h, b) ==
  \/ \E p \in h : p[1] \in About(d) /\ answer = Map(p[2])
  \/ answer = "n/a"
  \/ kind = "nm" /\ b = "yes" /\ answer = Map("unnamed")

(* What value answers of each device is true in h. *)
AllTrue(value, h, b) ==
  IF kind = "nm" THEN \A d \in DOMAIN value : TrueOf(value[d], d, h, b)
  ELSE \A d \in Device : TrueOf(value, d, h, b)

(* No steady wanted interface outside rest outranks value. *)
Topmost(value, s, rest) ==
  \A p \in s : p[1] \in wanted \ rest => rank(value) >= rank(Map(p[2]))

Gathering ==
  \A r \in Refresher :
    /\ AllTrue(fresh[r], held[r], broken[r])
    /\ kind = "wpa" /\ stage[r] = "reading" /\ broken[r] = "no" =>
         Topmost(fresh[r], steady[r], unread[r])

Stored ==
  basis.stored = "yes" =>
    /\ AllTrue(cache, basis.held, basis.broken)
    /\ kind = "wpa" /\ basis.broken = "no" => Topmost(cache, basis.steady, {})

AuthInv == AuthTypeOK /\ Witnessed /\ Rested /\ Gathering /\ Stored

-----------------------------------------------------------------------------
(* States. *)

(* A state of either service maps to a port-auth state, which has a rank.  *)
LEMMA MapType ==
  ASSUME kind \in {"nm", "wpa"}
  PROVE  /\ \A s : Map(s) \in PortAuthState
         /\ \A s \in PortAuthState : rank(s) \in Nat
  BY DEF Map, MapNm, MapWpa, PortAuthState, rank

(* What nothing is known of answers nothing. *)
LEMMA EmptyType ==
  ASSUME kind \in {"nm", "wpa"}
  PROVE  Empty \in Answering
<1>1. NoDevice \in [{} -> PortAuthState]
  BY DEF NoDevice
<1>2. NoDevice \in DeviceStates
  BY <1>1 DEF DeviceStates
<1> QED BY <1>2 DEF Empty, Answering, PortAuthState

(* Answers stay answers when a device is added. *)
LEMMA WithDeviceType ==
  ASSUME NEW f \in DeviceStates, NEW d \in Device, NEW s \in PortAuthState
  PROVE  WithDevice(f, d, s) \in DeviceStates
<1>1. PICK D \in SUBSET Device : f \in [D -> PortAuthState]
  BY DEF DeviceStates
<1>2. WithDevice(f, d, s) \in [D \cup {d} -> PortAuthState]
  BY <1>1 DEF WithDevice
<1>3. D \cup {d} \in SUBSET Device
  OBVIOUS
<1> QED BY <1>2, <1>3 DEF DeviceStates

(* The better of two is one of them and outranks both. *)
LEMMA BetterOf ==
  ASSUME NEW old \in PortAuthState, NEW new \in PortAuthState, kind \in {"nm", "wpa"}
  PROVE  /\ Better(old, new) \in {old, new}
         /\ rank(Better(old, new)) >= rank(old) /\ rank(Better(old, new)) >= rank(new)
<1>1. rank(old) \in Nat /\ rank(new) \in Nat
  BY MapType
<1> QED BY <1>1 DEF Better

-----------------------------------------------------------------------------
(* Types. *)

(* The types at the start. *)
LEMMA AuthInitType ==
  ASSUME PortAuthAssumption, AuthInit
  PROVE  AuthTypeOK
<1>1. kind \in {"nm", "wpa"} /\ Empty \in Answering
  BY EmptyType DEF AuthInit
<1>2. wanted \subseteq Interface /\ present \subseteq Interface
  BY DEF AuthInit
<1>3. cache \in Answering
  <2>1. CASE kind = "nm"
    <3>1. wanted = Interface
      BY <2>1 DEF AuthInit
    <3> QED BY <1>1, <3>1 DEF AuthInit
  <2>2. CASE kind = "wpa"
    BY <2>2 DEF AuthInit, Answering, PortAuthState, Empty
  <2> QED BY <1>1, <2>1, <2>2
<1>4. state \in [Interface -> ServiceState]
  BY DEF AuthInit, ServiceState
<1> QED BY <1>1, <1>2, <1>3, <1>4 DEF AuthInit, AuthTypeOK

(* What is true now is a set of states of interfaces. *)
LEMMA NowType ==
  ASSUME AuthTypeOK
  PROVE  Now \subseteq Interface \X ServiceState
  BY DEF AuthTypeOK, Now

(* What a read gathers. *)
LEMMA GatheredType ==
  ASSUME PortAuthAssumption, AuthTypeOK, NEW r \in Refresher, NEW i \in Interface,
         ReadNm(r, i) \/ ReadWpa(r, i)
  PROVE  /\ \E value \in Answering : Gathered(r, i, value)
         /\ errors' \in Nat
         /\ broken' \in [Refresher -> {"no", "yes"}]
<1>1. fresh[r] \in Answering /\ state[i] \in ServiceState /\ Owner[i] \in Device
  BY DEF AuthTypeOK, PortAuthAssumption
<1>2. \A s : Map(s) \in PortAuthState
  BY MapType DEF AuthTypeOK
<1>3. errors' \in Nat
  BY DEF AuthTypeOK, ReadNm, ReadWpa, Unreadable
<1>4. broken' \in [Refresher -> {"no", "yes"}]
  BY DEF AuthTypeOK, ReadNm, ReadWpa
<1>5. CASE ReadNm(r, i)
  <2>1. fresh[r] \in DeviceStates /\ Answering = DeviceStates
    BY <1>1, <1>5 DEF ReadNm, Answering
  <2>2. \A s \in NmState : WithDevice(fresh[r], Owner[i], Map(s)) \in Answering
    BY <1>1, <1>2, <2>1, WithDeviceType
  <2>3. state[i] \in NmState /\ "unnamed" \in NmState
    BY <1>1, <1>5 DEF ReadNm, ServiceState, NmState
  <2>4. \E value \in {fresh[r], WithDevice(fresh[r], Owner[i], Map(state[i])),
                      WithDevice(fresh[r], Owner[i], Map("unnamed"))} : Gathered(r, i, value)
    BY <1>5 DEF ReadNm
  <2> QED BY <1>1, <1>3, <1>4, <2>2, <2>3, <2>4
<1>6. CASE ReadWpa(r, i)
  <2>1. Answering = PortAuthState
    BY <1>6 DEF ReadWpa, Answering
  <2>2. Better(fresh[r], Map(state[i])) \in Answering
    BY <1>1, <1>2, <2>1 DEF Better
  <2>3. \E value \in {fresh[r], Better(fresh[r], Map(state[i]))} : Gathered(r, i, value)
    BY <1>6 DEF ReadWpa
  <2> QED BY <1>1, <1>3, <1>4, <2>2, <2>3
<1> QED BY <1>5, <1>6

(* Every step keeps the types. *)
LEMMA AuthTypeStep ==
  ASSUME PortAuthAssumption, AuthTypeOK, [AuthNext]_authVars
  PROVE  AuthTypeOK'
<1>1. ASSUME NEW r \in Refresher, BeginRefresh(r) PROVE AuthTypeOK'
  BY <1>1, NowType DEF BeginRefresh, AuthTypeOK, service, Answering, ServiceState
<1>2. ASSUME NEW r \in Refresher, ListFails(r) PROVE AuthTypeOK'
  BY <1>2 DEF ListFails, After, AuthTypeOK, service, Answering, ServiceState
<1>3. ASSUME NEW r \in Refresher, Store(r) PROVE AuthTypeOK'
  <2>1. Empty \in Answering
    BY EmptyType DEF AuthTypeOK
  <2>2. basis' \in [stored : {"no", "yes"}, held : SUBSET (Interface \X ServiceState),
                    steady : SUBSET (Interface \X ServiceState), broken : {"no", "yes"}]
    BY <1>3 DEF Store, AuthTypeOK
  <2>3. fresh' \in [Refresher -> Answering] /\ cache' \in Answering
    BY <1>3, <2>1 DEF Store, Forget, AuthTypeOK
  <2>4. stage' \in [Refresher -> {"rest", "reading", "over"}]
    BY <1>3 DEF Store, AuthTypeOK, After
  <2> QED BY <1>3, <2>2, <2>3, <2>4 DEF Store, Forget, AuthTypeOK, service, Answering, ServiceState
<1>4. ASSUME NEW r \in Refresher, NEW i \in Interface, ReadNm(r, i) \/ ReadWpa(r, i)
      PROVE  AuthTypeOK'
  <2>1. PICK value \in Answering : Gathered(r, i, value)
    BY <1>4, GatheredType
  <2>2. errors' \in Nat /\ broken' \in [Refresher -> {"no", "yes"}]
    BY <1>4, GatheredType
  <2>3. unread' \in [Refresher -> SUBSET Interface]
    BY <2>1 DEF Gathered, AuthTypeOK
  <2>4. fresh' \in [Refresher -> Answering]
    BY <2>1 DEF Gathered, AuthTypeOK
  <2> QED BY <2>1, <2>2, <2>3, <2>4 DEF Gathered, AuthTypeOK, service, Answering, ServiceState
<1>5. ASSUME NEW i \in Interface, Change(i) PROVE AuthTypeOK'
  <2>1. state' \in [Interface -> ServiceState] /\ present' \subseteq Interface
    BY <1>5 DEF Change, AuthTypeOK, ServiceState
  <2>2. held' \in [Refresher -> SUBSET (Interface \X ServiceState)]
    BY <1>5, <2>1 DEF Change, AuthTypeOK
  <2>3. steady' \in [Refresher -> SUBSET (Interface \X ServiceState)]
    BY <1>5 DEF Change, AuthTypeOK
  <2>4. changes' \in Nat
    BY <1>5 DEF Change, AuthTypeOK
  <2> QED BY <1>5, <2>1, <2>2, <2>3, <2>4 DEF Change, AuthTypeOK, Answering, ServiceState
<1>6. CASE UNCHANGED authVars
  BY <1>6 DEF authVars, service, AuthTypeOK, Answering, ServiceState
<1> QED BY <1>1, <1>2, <1>3, <1>4, <1>5, <1>6 DEF AuthNext, Refresh

-----------------------------------------------------------------------------
(* What refreshes have seen. *)

(* Every step keeps what refreshes saw between what is steady and held.    *)
LEMMA WitnessStep ==
  ASSUME PortAuthAssumption, AuthTypeOK, Witnessed, [AuthNext]_authVars
  PROVE  Witnessed'
<1> SUFFICES ASSUME NEW q \in Refresher, stage'[q] = "reading"
             PROVE  Now' \subseteq held'[q] /\ steady'[q] \subseteq Now'
  BY DEF Witnessed
<1>1. ASSUME NEW r \in Refresher, BeginRefresh(r)
      PROVE  Now' \subseteq held'[q] /\ steady'[q] \subseteq Now'
  <2>1. Now' = Now
    BY <1>1 DEF BeginRefresh, service, Now
  <2>2. CASE q = r
    BY <1>1, <2>1, <2>2 DEF BeginRefresh, AuthTypeOK
  <2>3. CASE q # r
    BY <1>1, <2>1, <2>3 DEF BeginRefresh, AuthTypeOK, Witnessed
  <2> QED BY <2>2, <2>3
<1>2. ASSUME NEW r \in Refresher,
             ListFails(r) \/ Store(r) \/ \E i \in Interface : ReadNm(r, i) \/ ReadWpa(r, i)
      PROVE  Now' \subseteq held'[q] /\ steady'[q] \subseteq Now'
  <2>1. Now' = Now
    BY <1>2 DEF ListFails, Store, ReadNm, ReadWpa, Gathered, service, Now
  <2>2. stage[q] = "reading"
    BY <1>2 DEF ListFails, Store, ReadNm, ReadWpa, Gathered, After, AuthTypeOK
  <2>3. held'[q] = held[q] /\ steady'[q] = steady[q]
    <3>1. CASE Store(r)
      <4>1. q # r
        BY <3>1 DEF Store, After, AuthTypeOK
      <4> QED BY <3>1, <4>1 DEF Store, Forget, AuthTypeOK
    <3>2. CASE ~Store(r)
      BY <1>2, <3>2 DEF ListFails, ReadNm, ReadWpa, Gathered
    <3> QED BY <3>1, <3>2
  <2> QED BY <2>1, <2>2, <2>3 DEF Witnessed
<1>3. ASSUME NEW i \in Interface, Change(i)
      PROVE  Now' \subseteq held'[q] /\ steady'[q] \subseteq Now'
  <2>1. stage[q] = "reading"
    BY <1>3 DEF Change
  <2>2. Now \subseteq held[q] /\ steady[q] \subseteq Now
    BY <2>1 DEF Witnessed
  <2>3. \A j \in Interface \ {i} : state'[j] = state[j] /\ (j \in present' <=> j \in present)
    BY <1>3 DEF Change, AuthTypeOK
  <2>4. held'[q] = IF i \in present' THEN held[q] \cup {<<i, state'[i]>>} ELSE held[q]
    BY <1>3, <2>1 DEF Change
  <2>5. steady'[q] = {p \in steady[q] : p[1] # i}
    BY <1>3 DEF Change
  <2>6. present' \subseteq Interface /\ present \subseteq Interface
    BY <1>3 DEF Change, AuthTypeOK
  <2>7. ASSUME NEW j \in present' PROVE <<j, state'[j]>> \in held'[q]
    BY <2>2, <2>3, <2>4, <2>6 DEF Now
  <2>8. ASSUME NEW p \in steady'[q] PROVE p \in Now'
    <3>1. PICK j \in present : p = <<j, state[j]>>
      BY <2>2, <2>5 DEF Now
    <3>2. j # i
      BY <2>5, <3>1
    <3> QED BY <2>3, <2>6, <3>1, <3>2 DEF Now
  <2> QED BY <2>7, <2>8 DEF Now
<1>4. CASE UNCHANGED authVars
  BY <1>4 DEF authVars, service, Witnessed, Now
<1> QED BY <1>1, <1>2, <1>3, <1>4 DEF AuthNext, Refresh

(* Every step leaves what is not under way with nothing. *)
LEMMA RestedStep ==
  ASSUME PortAuthAssumption, AuthTypeOK, Rested, [AuthNext]_authVars
  PROVE  Rested'
<1> SUFFICES ASSUME NEW q \in Refresher, stage'[q] # "reading"
             PROVE  unread'[q] = {} /\ fresh'[q] = Empty' /\ broken'[q] = "no"
  BY DEF Rested
<1> DEFINE Resting == unread'[q] = {} /\ fresh'[q] = Empty /\ broken'[q] = "no"
<1>1. Empty' = Empty
  BY DEF AuthNext, Refresh, BeginRefresh, ListFails, Store, ReadNm, ReadWpa, Gathered, Change,
         authVars, service, Empty
<1>2. ASSUME NEW r \in Refresher, BeginRefresh(r) PROVE Resting
  BY <1>2 DEF BeginRefresh, AuthTypeOK, Rested
<1>3. ASSUME NEW r \in Refresher, ListFails(r) PROVE Resting
  BY <1>3 DEF ListFails, AuthTypeOK, Rested
<1>4. ASSUME NEW r \in Refresher, Store(r) PROVE Resting
  BY <1>4 DEF Store, Forget, AuthTypeOK, Rested
<1>5. ASSUME NEW r \in Refresher, NEW i \in Interface, ReadNm(r, i) \/ ReadWpa(r, i)
      PROVE  Resting
  BY <1>5 DEF ReadNm, ReadWpa, Gathered, AuthTypeOK, Rested
<1>6. ASSUME NEW i \in Interface, Change(i) PROVE Resting
  BY <1>6 DEF Change, Rested
<1>7. CASE UNCHANGED authVars
  BY <1>1, <1>7 DEF authVars, Rested
<1> QED BY <1>1, <1>2, <1>3, <1>4, <1>5, <1>6, <1>7 DEF AuthNext, Refresh

-----------------------------------------------------------------------------
(* What was gathered. *)

(* What is true of a device stays true of it as more is seen. *)
LEMMA TrueMore ==
  ASSUME NEW answer, NEW d, NEW h, NEW g, NEW b, TrueOf(answer, d, h, b), h \subseteq g
  PROVE  TrueOf(answer, d, g, b) /\ TrueOf(answer, d, g, "yes")
  BY DEF TrueOf

(* What is true of all of them, too. *)
LEMMA AllTrueMore ==
  ASSUME NEW value, NEW h, NEW g, NEW b, AllTrue(value, h, b), h \subseteq g
  PROVE  AllTrue(value, g, b) /\ AllTrue(value, g, "yes")
<1>1. CASE kind = "nm"
  BY <1>1, TrueMore DEF AllTrue
<1>2. CASE kind # "nm"
  BY <1>2, TrueMore DEF AllTrue
<1> QED BY <1>1, <1>2

(* Nothing gathered is true. *)
LEMMA EmptyTrue ==
  ASSUME kind \in {"nm", "wpa"}
  PROVE  \A h, b : AllTrue(Empty, h, b)
  BY DEF AllTrue, TrueOf, Empty, NoDevice

(* No step changes what kind of resolver it is and what it is about. *)
LEMMA SameResolver ==
  ASSUME [AuthNext]_authVars
  PROVE  kind' = kind /\ wanted' = wanted
  BY DEF AuthNext, Refresh, BeginRefresh, ListFails, Store, ReadNm, ReadWpa, Gathered, Change,
         authVars, service

(* What is true of a device is true of it after the step. *)
LEMMA SameTruth ==
  ASSUME kind' = kind, wanted' = wanted
  PROVE  /\ \A value, h, b : AllTrue(value, h, b)' <=> AllTrue(value, h, b)
         /\ \A value, s, u : Topmost(value, s, u)' <=> Topmost(value, s, u)
  BY DEF AllTrue, TrueOf, About, Topmost, Map

(* A read of NetworkManager gathers what is true. *)
LEMMA NmTrue ==
  ASSUME PortAuthAssumption, AuthTypeOK, Witnessed, Rested,
         NEW r \in Refresher, NEW i \in Interface, ReadNm(r, i),
         AllTrue(fresh[r], held[r], broken[r])
  PROVE  AllTrue(fresh'[r], held[r], broken'[r])
<1>1. kind = "nm" /\ stage[r] = "reading" /\ held[r] \subseteq held[r]
  BY DEF ReadNm, Rested
<1>2. Owner[i] \in Device
  BY DEF PortAuthAssumption
<1>3. \A s : Map(s) \in PortAuthState
  BY <1>1, MapType
<1>4. \A v : Gathered(r, i, v) => fresh'[r] = v
  BY DEF Gathered, AuthTypeOK
<1>5. ASSUME NEW s \in PortAuthState
      PROVE  /\ DOMAIN WithDevice(fresh[r], Owner[i], s) = DOMAIN fresh[r] \cup {Owner[i]}
             /\ WithDevice(fresh[r], Owner[i], s)[Owner[i]] = s
             /\ \A e \in DOMAIN fresh[r] \ {Owner[i]} :
                  WithDevice(fresh[r], Owner[i], s)[e] = fresh[r][e]
  BY DEF WithDevice
<1>6. CASE i \in present /\ UNCHANGED broken /\ Gathered(r, i,
             IF i \in Bluetooth THEN WithDevice(fresh[r], Owner[i], Map(state[i])) ELSE fresh[r])
  <2>1. CASE i \in Bluetooth
    <3>1. <<i, state[i]>> \in held[r]
      BY <1>1, <1>6 DEF Witnessed, Now
    <3>2. i \in About(Owner[i])
      BY <1>1, <2>1 DEF About
    <3>3. TrueOf(Map(state[i]), Owner[i], held[r], broken[r])
      BY <3>1, <3>2 DEF TrueOf
    <3>4. fresh'[r] = WithDevice(fresh[r], Owner[i], Map(state[i]))
      BY <1>4, <1>6, <2>1
    <3>5. /\ DOMAIN fresh'[r] = DOMAIN fresh[r] \cup {Owner[i]}
          /\ fresh'[r][Owner[i]] = Map(state[i])
          /\ \A e \in DOMAIN fresh[r] \ {Owner[i]} : fresh'[r][e] = fresh[r][e]
      <4>1. Map(state[i]) \in PortAuthState
        BY <1>3
      <4> QED BY <1>5, <3>4, <4>1
    <3> QED BY <1>1, <1>6, <3>3, <3>5 DEF AllTrue
  <2>2. CASE i \notin Bluetooth
    BY <1>4, <1>6, <2>2
  <2> QED BY <2>1, <2>2
<1>7. CASE Gathered(r, i, fresh[r]) /\ broken'[r] = "yes"
  BY <1>1, <1>4, <1>7, AllTrueMore
<1>8. CASE Gathered(r, i, WithDevice(fresh[r], Owner[i], Map("unnamed"))) /\ broken'[r] = "yes"
  <2>1. fresh'[r] = WithDevice(fresh[r], Owner[i], Map("unnamed"))
    BY <1>4, <1>8
  <2>2. /\ DOMAIN fresh'[r] = DOMAIN fresh[r] \cup {Owner[i]}
        /\ fresh'[r][Owner[i]] = Map("unnamed")
        /\ \A e \in DOMAIN fresh[r] \ {Owner[i]} : fresh'[r][e] = fresh[r][e]
    BY <1>3, <1>5, <2>1
  <2>3. TrueOf(Map("unnamed"), Owner[i], held[r], "yes")
    BY <1>1 DEF TrueOf
  <2>4. AllTrue(fresh[r], held[r], "yes")
    BY <1>1, AllTrueMore
  <2> QED BY <1>1, <1>8, <2>2, <2>3, <2>4 DEF AllTrue
<1> QED BY <1>6, <1>7, <1>8 DEF ReadNm, AuthTypeOK

(* A read of wpa_supplicant gathers what is true and tops what was read.   *)
LEMMA WpaTrue ==
  ASSUME PortAuthAssumption, AuthTypeOK, Witnessed, Rested,
         NEW r \in Refresher, NEW i \in Interface, ReadWpa(r, i),
         AllTrue(fresh[r], held[r], broken[r]),
         broken[r] = "no" => Topmost(fresh[r], steady[r], unread[r])
  PROVE  /\ AllTrue(fresh'[r], held[r], broken'[r])
         /\ broken'[r] = "no" => Topmost(fresh'[r], steady[r], unread'[r])
<1>1. kind = "wpa" /\ stage[r] = "reading" /\ held[r] \subseteq held[r]
  BY DEF ReadWpa, Rested
<1>2. fresh[r] \in PortAuthState /\ Map(state[i]) \in PortAuthState
  BY <1>1, MapType DEF AuthTypeOK, Answering
<1>3. \A v : Gathered(r, i, v) => fresh'[r] = v /\ unread'[r] = unread[r] \ {i}
  BY DEF Gathered, AuthTypeOK
<1>4. CASE Gathered(r, i, fresh[r]) /\ broken'[r] = "yes"
  BY <1>1, <1>3, <1>4, AllTrueMore
<1>5. CASE i \in present /\ UNCHANGED broken /\ Gathered(r, i,
             IF i \in wanted THEN Better(fresh[r], Map(state[i])) ELSE fresh[r])
  <2>1. \A p \in steady[r] : p[1] = i => p[2] = state[i]
    BY <1>1 DEF Witnessed, Now
  <2>2. CASE i \in wanted
    <3>1. fresh'[r] = Better(fresh[r], Map(state[i])) /\ unread'[r] = unread[r] \ {i}
      BY <1>3, <1>5, <2>2
    <3>2. /\ fresh'[r] \in {fresh[r], Map(state[i])}
          /\ rank(fresh'[r]) >= rank(fresh[r]) /\ rank(fresh'[r]) >= rank(Map(state[i]))
      BY <1>1, <1>2, <3>1, BetterOf
    <3>3. <<i, state[i]>> \in held[r]
      BY <1>1, <1>5 DEF Witnessed, Now
    <3>4. \A d \in Device : TrueOf(Map(state[i]), d, held[r], broken[r])
      BY <1>1, <2>2, <3>3 DEF TrueOf, About
    <3>5. AllTrue(fresh'[r], held[r], broken'[r])
      BY <1>1, <1>5, <3>2, <3>4 DEF AllTrue
    <3>6. ASSUME broken'[r] = "no" PROVE Topmost(fresh'[r], steady[r], unread'[r])
      <4> SUFFICES ASSUME NEW p \in steady[r], p[1] \in wanted \ unread'[r]
                   PROVE  rank(fresh'[r]) >= rank(Map(p[2]))
        BY DEF Topmost
      <4>1. CASE p[1] = i
        BY <2>1, <3>2, <4>1
      <4>2. CASE p[1] # i
        <5>1. rank(fresh[r]) >= rank(Map(p[2]))
          BY <1>5, <3>1, <3>6, <4>2 DEF Topmost
        <5>2. rank(fresh[r]) \in Nat /\ rank(Map(p[2])) \in Nat /\ rank(fresh'[r]) \in Nat
          BY <1>1, <1>2, <3>2, MapType
        <5> QED BY <3>2, <5>1, <5>2
      <4> QED BY <4>1, <4>2
    <3> QED BY <3>5, <3>6
  <2>3. CASE i \notin wanted
    BY <1>3, <1>5, <2>3 DEF Topmost
  <2> QED BY <2>2, <2>3
<1> QED BY <1>4, <1>5 DEF ReadWpa, AuthTypeOK

(* What a refresh has gathered, another's step leaves alone, and new states *)
(* only add to.                                                            *)
LEMMA GatheringStep ==
  ASSUME PortAuthAssumption, AuthTypeOK, Witnessed, Rested, Gathering, [AuthNext]_authVars
  PROVE  Gathering'
<1> DEFINE Good(value, h, b, reading, s, u) ==
             /\ AllTrue(value, h, b)
             /\ kind = "wpa" /\ reading /\ b = "no" => Topmost(value, s, u)
<1>1. SUFFICES ASSUME NEW q \in Refresher
      PROVE  Good(fresh'[q], held'[q], broken'[q], stage'[q] = "reading", steady'[q], unread'[q])
  <2>1. kind' = kind /\ wanted' = wanted
    BY SameResolver
  <2>2. /\ \A value, h, b : AllTrue(value, h, b)' <=> AllTrue(value, h, b)
        /\ \A value, s, u : Topmost(value, s, u)' <=> Topmost(value, s, u)
    BY <2>1, SameTruth
  <2> QED BY <2>1, <2>2 DEF Gathering
<1>2. Good(fresh[q], held[q], broken[q], stage[q] = "reading", steady[q], unread[q])
  BY DEF Gathering
<1>3. kind \in {"nm", "wpa"}
  BY DEF AuthTypeOK
<1>4. ASSUME UNCHANGED <<fresh[q], broken[q], unread[q]>>, stage'[q] = "reading" => stage[q] = "reading",
             held[q] \subseteq held'[q], steady'[q] \subseteq steady[q]
      PROVE  Good(fresh'[q], held'[q], broken'[q], stage'[q] = "reading", steady'[q], unread'[q])
  <2>1. AllTrue(fresh'[q], held'[q], broken'[q])
    BY <1>2, <1>4, AllTrueMore
  <2>2. Topmost(fresh[q], steady[q], unread[q]) => Topmost(fresh'[q], steady'[q], unread'[q])
    BY <1>4 DEF Topmost
  <2> QED BY <1>2, <1>4, <2>1, <2>2
<1> HIDE DEF Good
<1>5. ASSUME NEW r \in Refresher, BeginRefresh(r)
      PROVE  Good(fresh'[q], held'[q], broken'[q], stage'[q] = "reading", steady'[q], unread'[q])
  <2>1. CASE q # r
    BY <1>4, <1>5, <2>1 DEF BeginRefresh, AuthTypeOK
  <2>2. CASE q = r
    <3>1. fresh'[q] = Empty /\ held'[q] = Now /\ steady'[q] = Now /\ unread'[q] = present
      BY <1>5, <2>2 DEF BeginRefresh, AuthTypeOK, Rested
    <3>2. AllTrue(fresh'[q], held'[q], broken'[q])
      BY <1>3, <3>1, EmptyTrue
    <3>3. Topmost(fresh'[q], steady'[q], unread'[q])
      BY <3>1 DEF Topmost, Now
    <3> QED BY <3>2, <3>3 DEF Good
  <2> QED BY <2>1, <2>2
<1>6. ASSUME NEW r \in Refresher, ListFails(r)
      PROVE  Good(fresh'[q], held'[q], broken'[q], stage'[q] = "reading", steady'[q], unread'[q])
  BY <1>4, <1>6 DEF ListFails, AuthTypeOK, After
<1>7. ASSUME NEW r \in Refresher, Store(r)
      PROVE  Good(fresh'[q], held'[q], broken'[q], stage'[q] = "reading", steady'[q], unread'[q])
  <2>1. CASE q # r
    BY <1>4, <1>7, <2>1 DEF Store, Forget, AuthTypeOK
  <2>2. CASE q = r
    <3>1. fresh'[q] = Empty /\ stage'[q] # "reading"
      BY <1>7, <2>2 DEF Store, Forget, AuthTypeOK, After
    <3>2. AllTrue(fresh'[q], held'[q], broken'[q])
      BY <1>3, <3>1, EmptyTrue
    <3> QED BY <3>1, <3>2 DEF Good
  <2> QED BY <2>1, <2>2
<1>8. ASSUME NEW r \in Refresher, NEW i \in Interface, ReadNm(r, i) \/ ReadWpa(r, i)
      PROVE  Good(fresh'[q], held'[q], broken'[q], stage'[q] = "reading", steady'[q], unread'[q])
  <2>1. UNCHANGED <<held, steady, stage>>
    BY <1>8 DEF ReadNm, ReadWpa, Gathered
  <2>2. CASE q # r
    BY <1>4, <1>8, <2>1, <2>2 DEF ReadNm, ReadWpa, Gathered, AuthTypeOK
  <2>3. CASE q = r /\ ReadNm(r, i)
    <3>1. AllTrue(fresh[r], held[r], broken[r])
      BY <1>2, <2>3 DEF Good
    <3>2. AllTrue(fresh'[r], held[r], broken'[r])
      BY <2>3, <3>1, NmTrue
    <3>3. kind = "nm"
      BY <2>3 DEF ReadNm
    <3> QED BY <2>1, <2>3, <3>2, <3>3 DEF Good
  <2>4. CASE q = r /\ ReadWpa(r, i)
    <3>1. kind = "wpa" /\ stage[r] = "reading"
      BY <2>4 DEF ReadWpa, Rested
    <3>2. /\ AllTrue(fresh[r], held[r], broken[r])
          /\ broken[r] = "no" => Topmost(fresh[r], steady[r], unread[r])
      BY <1>2, <2>4, <3>1 DEF Good
    <3>3. /\ AllTrue(fresh'[r], held[r], broken'[r])
          /\ broken'[r] = "no" => Topmost(fresh'[r], steady[r], unread'[r])
      BY <2>4, <3>2, WpaTrue
    <3> QED BY <2>1, <2>4, <3>3 DEF Good
  <2> QED BY <1>8, <2>2, <2>3, <2>4
<1>9. ASSUME NEW i \in Interface, Change(i)
      PROVE  Good(fresh'[q], held'[q], broken'[q], stage'[q] = "reading", steady'[q], unread'[q])
  <2>1. held[q] \subseteq held'[q] /\ steady'[q] \subseteq steady[q]
    BY <1>9 DEF Change
  <2> QED BY <1>4, <1>9, <2>1 DEF Change
<1>10. CASE UNCHANGED authVars
  BY <1>4, <1>10 DEF authVars
<1> QED BY <1>5, <1>6, <1>7, <1>8, <1>9, <1>10 DEF AuthNext, Refresh

(* Every step keeps what is stored true of what its refresh saw.           *)
LEMMA StoredStep ==
  ASSUME PortAuthAssumption, AuthTypeOK, Gathering, Stored, [AuthNext]_authVars
  PROVE  Stored'
<1>1. kind' = kind /\ wanted' = wanted
  BY SameResolver
<1>2. /\ \A value, h, b : AllTrue(value, h, b)' <=> AllTrue(value, h, b)
      /\ \A value, s, u : Topmost(value, s, u)' <=> Topmost(value, s, u)
  BY <1>1, SameTruth
<1>3. CASE UNCHANGED <<cache, basis>>
  BY <1>1, <1>2, <1>3 DEF Stored
<1>4. ASSUME NEW r \in Refresher, Store(r) PROVE Stored'
  <2>1. stage[r] = "reading" /\ unread[r] = {}
    BY <1>4 DEF Store
  <2>2. /\ cache' = fresh[r] /\ basis'.held = held[r] /\ basis'.steady = steady[r]
        /\ basis'.broken = broken[r]
    BY <1>4 DEF Store
  <2>3. AllTrue(cache', basis'.held, basis'.broken)
    BY <2>2 DEF Gathering
  <2>4. kind = "wpa" /\ basis'.broken = "no" => Topmost(cache', basis'.steady, {})
    BY <2>1, <2>2 DEF Gathering
  <2> QED BY <1>1, <1>2, <2>3, <2>4 DEF Stored
<1>5. (\E r \in Refresher : Store(r)) \/ UNCHANGED <<cache, basis>>
  BY DEF AuthNext, Refresh, BeginRefresh, ListFails, ReadNm, ReadWpa, Gathered, Change, authVars
<1> QED BY <1>3, <1>4, <1>5

(* The invariant holds at the start. *)
LEMMA AuthInitHolds ==
  ASSUME PortAuthAssumption, AuthInit
  PROVE  AuthInv
<1>1. AuthTypeOK
  BY AuthInitType
<1>2. \A r \in Refresher : stage[r] = "rest" /\ fresh[r] = Empty /\ broken[r] = "no" /\ unread[r] = {}
  BY DEF AuthInit
<1>3. Witnessed /\ Rested
  BY <1>2 DEF Witnessed, Rested
<1>4. Gathering
  BY <1>1, <1>2, EmptyTrue DEF Gathering, AuthTypeOK
<1>5. Stored
  BY DEF AuthInit, Stored
<1> QED BY <1>1, <1>3, <1>4, <1>5 DEF AuthInv

(* Every step keeps it. *)
LEMMA AuthStepHolds ==
  ASSUME PortAuthAssumption, AuthInv, [AuthNext]_authVars
  PROVE  AuthInv'
  BY AuthTypeStep, WitnessStep, RestedStep, GatheringStep, StoredStep DEF AuthInv

(* The states, the caches and what refreshes gather keep their types.      *)
THEOREM AuthTypeCorrect == AuthSpec => []AuthTypeOK
<1>1. AuthInv => AuthTypeOK
  BY DEF AuthInv
<1> QED BY <1>1, PortAuthAssumption, AuthInitHolds, AuthStepHolds, PTL DEF AuthSpec

(* Whatever refreshes overlap, and whatever changes, goes or cannot be     *)
(* read meanwhile, what a resolver answers was true during the refresh     *)
(* that stored it.                                                         *)
THEOREM CacheCorrect == AuthSpec => []CacheWasTrue
<1>1. ASSUME AuthInv PROVE CacheWasTrue
  <2> SUFFICES ASSUME basis.stored = "yes" PROVE CacheWasTrue
    BY DEF CacheWasTrue
  <2>1. AllTrue(cache, basis.held, basis.broken)
    BY <1>1 DEF AuthInv, Stored
  <2>2. ASSUME kind = "wpa", basis.broken = "no", NEW p \in basis.steady, p[1] \in wanted
        PROVE  rank(cache) >= rank(Map(p[2]))
    BY <1>1, <2>2 DEF AuthInv, Stored, Topmost
  <2>3. ASSUME NEW d \in Device PROVE TrueOf(resolve(d), d, basis.held, basis.broken)
    <3>1. CASE kind = "nm"
      BY <2>1, <3>1 DEF AllTrue, resolve, TrueOf
    <3>2. CASE kind = "wpa"
      BY <2>1, <3>2 DEF AllTrue, resolve
    <3> QED BY <1>1, <3>1, <3>2 DEF AuthInv, AuthTypeOK
  <2> QED BY <2>2, <2>3 DEF CacheWasTrue, TrueOf
<1> QED BY <1>1, PortAuthAssumption, AuthInitHolds, AuthStepHolds, PTL DEF AuthSpec
=============================================================================
