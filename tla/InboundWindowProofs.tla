------------------------- MODULE InboundWindowProofs -------------------------
(* Safety of BlueZ's inbound window, for any callers, peers and windows.   *)
EXTENDS InboundWindow, FiniteSetTheorems, TLAPS

(* The prompts and the bookkeeping of the peers that have been authorised: *)
(* each authorisation cost its peer a pairing attempt of its own.          *)
Tallied ==
  /\ \A c \in Caller : result[c] \subseteq bonded[c]
  /\ \A c \in Caller : \A p \in bonded[c] :
       tries[p] >= 1 /\ (link[p] = "asked" => tries[p] >= 2)
  /\ \A c, d \in Caller : c # d =>
       \A p \in bonded[c] \intersect bonded[d] : tries[p] >= 2
  /\ \A p \in Peer : link[p] = "asked" => tries[p] >= 1

BeforeOpen == {"register", "pairable_timeout", "discoverable_timeout",
               "pairable_on", "discoverable_on"}

(* A call has overrun its limit only while it slept; it is closing now, or *)
(* awake and about to.                                                     *)
LimitedCall(c) ==
  /\ IsFiniteSet(bonded[c])
  /\ pc[c] \in BeforeOpen => overrun[c] = 0
  /\ overrun[c] <= 1
  /\ At(c, "open") /\ overrun[c] = 1 => c \in awake /\ Full(c)

Limited == \A c \in Caller : LimitedCall(c)

IInv == TypeOK /\ Tallied /\ Limited

(* Where a call may be, one by one. *)
LEMMA PlacesAre ==
  /\ "register" \in Places /\ "pairable_timeout" \in Places
  /\ "discoverable_timeout" \in Places /\ "pairable_on" \in Places
  /\ "discoverable_on" \in Places /\ "open" \in Places
  /\ "discoverable_off" \in Places /\ "pairable_off" \in Places
  /\ "collect" \in Places /\ "return" \in Places
  /\ "returned" \in Places /\ "failed" \in Places /\ "dropped" \in Places
BY DEF Places, Over

(* Dropping an agent leaves a sequence of callers. *)
LEMMA WithoutType ==
  ASSUME NEW c, agents \in Seq(Caller)
  PROVE  Without(c) \in Seq(Caller)
<1>1. CASE c \in Range(agents)
  <2>1. PICK i \in DOMAIN agents : i = (CHOOSE j \in DOMAIN agents : agents[j] = c)
    BY <1>1 DEF Range
  <2>2. i \in 1..Len(agents)
    OBVIOUS
  <2>3. /\ SubSeq(agents, 1, i - 1) \in Seq(Caller)
        /\ SubSeq(agents, i + 1, Len(agents)) \in Seq(Caller)
    BY <2>2
  <2> QED BY <1>1, <2>1, <2>3 DEF Without
<1>2. CASE c \notin Range(agents)
  BY <1>2 DEF Without
<1> QED BY <1>1, <1>2

(* A full call stays full, whatever else its agent authorises. *)
LEMMA FullStays ==
  ASSUME NEW c \in Caller, WindowAssumption, IsFiniteSet(bonded[c]),
         IsFiniteSet(bonded'[c]), bonded[c] \subseteq bonded'[c], Full(c)
  PROVE  Full(c)'
<1>1. Cardinality(bonded[c]) <= Cardinality(bonded'[c])
  BY FS_Subset
<1>2. Cardinality(bonded[c]) \in Nat /\ Cardinality(bonded'[c]) \in Nat
  BY FS_CardinalityType
<1> QED BY <1>1, <1>2 DEF Full, WindowAssumption

(* The initial state satisfies the invariant. *)
LEMMA InitInv == Init => IInv
<1> SUFFICES ASSUME Init PROVE IInv OBVIOUS
<1>1. TypeOK BY PlacesAre DEF Init, TypeOK, Switches
<1>2. Tallied BY DEF Init, Tallied
<1>3. Limited BY FS_EmptySet DEF Init, Limited, LimitedCall, At
<1> QED BY <1>1, <1>2, <1>3 DEF IInv

(* Every step keeps the types. *)
LEMMA TypeStep ==
  ASSUME WindowAssumption, TypeOK, [Next]_vars
  PROVE  TypeOK'
<1> USE PlacesAre DEF TypeOK, Switches, adapter, peers, call
<1>1. ASSUME NEW c \in Caller, NEW how \in Places, Leave(c, how), UNCHANGED adapter
      PROVE  TypeOK'
  BY <1>1, WithoutType DEF Leave, Goto
<1>2. ASSUME NEW c \in Caller, Register(c) PROVE TypeOK'
  BY <1>2 DEF Register, Goto
<1>3. ASSUME NEW c \in Caller, Prepare(c) PROVE TypeOK'
  <2>0. \A m \in Nat, n \in Nat \ {0} : m \div n \in Int
    OBVIOUS
  <2>1. Seconds(c) \in Nat
    BY <2>0 DEF Seconds, WindowAssumption
  <2>2. Seconds(c) * PollsPerSecond \in Nat
    BY <2>1 DEF WindowAssumption
  <2>3. \E there \in Places : Goto(c, there)
    BY <1>3 DEF Prepare
  <2>6. pc' \in [Caller -> Places]
    BY <2>3 DEF Goto
  <2>4. on' \in SUBSET Switches
    BY <1>3 DEF Prepare, SetTimeout, SwitchOn
  <2>5. timeout' \in [Switches -> Nat] /\ timer' \in [Switches -> Nat]
    BY <1>3, <2>2 DEF Prepare, SetTimeout, SwitchOn
  <2> QED BY <1>3, <2>3, <2>4, <2>5, <2>6 DEF Prepare, Goto
<1>4. ASSUME NEW c \in Caller, Open(c) PROVE TypeOK'
  BY <1>4 DEF Open, SwitchOn, WindowAssumption
<1>5. ASSUME NEW c \in Caller, Fails(c) PROVE TypeOK'
  BY <1>5, <1>1 DEF Fails
<1>6. ASSUME NEW c \in Caller, Poll(c) PROVE TypeOK'
  <2>1. pc' \in [Caller -> Places]
    <3>1. "discoverable_off" \in Places /\ pc \in [Caller -> Places]
      OBVIOUS
    <3>2. pc' = [pc EXCEPT ![c] = "discoverable_off"] \/ pc' = pc
      BY <1>6 DEF Poll
    <3> HIDE DEF TypeOK
    <3> QED BY <3>1, <3>2
  <2> QED BY <1>6, <2>1 DEF Poll
<1>7. ASSUME NEW c \in Caller, Close(c) PROVE TypeOK'
  <2>1. \E there \in Places : Goto(c, there)
    BY <1>7 DEF Close
  <2>2. pc' \in [Caller -> Places]
    BY <2>1 DEF Goto
  <2>3. (\E s \in Switches : SwitchOff(s)) \/ UNCHANGED adapter
    BY <1>7 DEF Close
  <2>4. /\ on' \in SUBSET Switches
        /\ timeout' \in [Switches -> Nat]
        /\ timer' \in [Switches -> Nat]
    <3>1. ASSUME NEW s \in Switches, SwitchOff(s)
          PROVE  /\ on' \in SUBSET Switches
                 /\ timeout' \in [Switches -> Nat]
                 /\ timer' \in [Switches -> Nat]
      BY <3>1 DEF SwitchOff
    <3> QED BY <2>3, <3>1
  <2> QED BY <1>7, <2>1, <2>2, <2>4 DEF Close, Goto
<1>8. ASSUME NEW c \in Caller, Collect(c) PROVE TypeOK'
  BY <1>8 DEF Collect
<1>9. ASSUME NEW c \in Caller, Return(c) \/ Drop(c) PROVE TypeOK'
  BY <1>9, <1>1 DEF Return, Drop
<1>10. ASSUME NEW p \in Peer, Ask(p) PROVE TypeOK'
  <2>1. agents[Len(agents)] \in Caller
    BY <1>10 DEF Ask
  <2>2. prompt' \in [Peer -> Caller \union {NoOne}]
    BY <1>10, <2>1 DEF Ask
  <2>3. link' \in [Peer -> {"away", "asked", "granted", "bonded"}]
    BY <1>10 DEF Ask
  <2>4. (\A q \in Peer : link[q] = "asked" => prompt[q] \in Caller)'
    BY <1>10, <2>1 DEF Ask
  <2>5. tries' \in [Peer -> Nat]
    BY SMTT(30), <1>10 DEF Ask
  <2> QED BY <1>10, <2>2, <2>3, <2>4, <2>5 DEF Ask
<1>11. ASSUME NEW p \in Peer, Grant(p) PROVE TypeOK'
  BY <1>11 DEF Grant
<1>12. ASSUME NEW p \in Peer, Refuse(p) \/ Settle(p) PROVE TypeOK'
  <2>1. link' \in [Peer -> {"away", "asked", "granted", "bonded"}]
    BY <1>12 DEF Refuse, Settle
  <2>2. prompt' \in [Peer -> Caller \union {NoOne}]
    BY <1>12 DEF Refuse, Settle
  <2>3. ASSUME NEW q \in Peer, link'[q] = "asked" PROVE prompt'[q] \in Caller
    BY <1>12, <2>3 DEF Refuse, Settle
  <2>4. UNCHANGED <<call, bonded, agents, adapter, tries>>
    BY <1>12 DEF Refuse, Settle
  <2> QED BY <2>1, <2>2, <2>3, <2>4
<1>13. ASSUME Tick PROVE TypeOK'
  <2>1. \A n \in Nat : Remaining(n) \in Nat
    BY DEF Remaining
  <2>2. left' \in [Caller -> Nat] /\ timer' \in [Switches -> Nat]
    BY <1>13, <2>1 DEF Tick
  <2>3. overrun' \in [Caller -> Nat]
    BY <1>13 DEF Tick
  <2> QED BY <1>13, <2>2, <2>3 DEF Tick
<1>14. ASSUME UNCHANGED vars PROVE TypeOK'
  BY <1>14 DEF vars
<1> QED BY <1>2, <1>3, <1>4, <1>5, <1>6, <1>7, <1>8, <1>9, <1>10, <1>11, <1>12,
           <1>13, <1>14 DEF Next, Moves

(* Only peers' attempts and their agents' answers touch the tally.         *)
LEMMA TallyStep ==
  ASSUME TypeOK, TypeOK', Tallied, [Next]_vars
  PROVE  Tallied'
<1> USE DEF TypeOK, Tallied, peers, call
<1>1. ASSUME NEW c \in Caller, NEW how, Leave(c, how) PROVE Tallied'
  BY <1>1 DEF Leave, Goto
<1>2. ASSUME UNCHANGED <<bonded, peers>>, UNCHANGED result PROVE Tallied'
  BY <1>2
<1>3. ASSUME NEW c \in Caller, Moves(c) \/ Drop(c) PROVE Tallied'
  <2>1. CASE Collect(c)
    BY <2>1 DEF Collect
  <2>2. CASE Fails(c) \/ Return(c) \/ Drop(c)
    BY <2>2, <1>1 DEF Fails, Return, Drop
  <2>3. CASE Register(c) \/ Prepare(c) \/ Open(c) \/ Poll(c) \/ Close(c)
    BY <2>3, <1>2 DEF Register, Prepare, Open, Poll, Close, Goto
  <2> QED BY <1>3, <2>1, <2>2, <2>3 DEF Moves
<1>4. ASSUME NEW p \in Peer, Ask(p) PROVE Tallied'
  <2>1. /\ UNCHANGED <<bonded, result>>
        /\ \A q \in Peer : tries'[q] >= tries[q]
        /\ \A q \in Peer \ {p} : link'[q] = link[q]
        /\ tries'[p] = tries[p] + 1 /\ tries[p] \in Nat
    BY <1>4 DEF Ask
  <2>2. \A c \in Caller : result'[c] \subseteq bonded'[c]
    BY <2>1
  <2>3. ASSUME NEW c \in Caller, NEW q \in bonded'[c]
        PROVE  tries'[q] >= 1 /\ (link'[q] = "asked" => tries'[q] >= 2)
    <3>1. q \in Peer /\ q \in bonded[c] /\ tries[q] >= 1
      BY <2>1, <2>3
    <3>2. tries[q] \in Nat /\ tries'[q] \in Nat
      BY <3>1
    <3> QED BY <2>1, <2>3, <3>1, <3>2
  <2>4. ASSUME NEW c \in Caller, NEW d \in Caller, c # d,
               NEW q \in bonded'[c] \intersect bonded'[d]
        PROVE  tries'[q] >= 2
    <3>1. q \in Peer /\ tries[q] >= 2
      BY <2>1, <2>4
    <3>2. tries[q] \in Nat /\ tries'[q] \in Nat
      BY <3>1
    <3> QED BY <2>1, <3>1, <3>2
  <2>5. ASSUME NEW q \in Peer, link'[q] = "asked" PROVE tries'[q] >= 1
    <3>1. tries[q] \in Nat /\ tries'[q] \in Nat
      OBVIOUS
    <3> QED BY <2>1, <2>5, <3>1
  <2> QED BY <2>2, <2>3, <2>4, <2>5
<1>5. ASSUME NEW p \in Peer, Grant(p) PROVE Tallied'
  BY <1>5 DEF Grant
<1>6. ASSUME NEW p \in Peer, Refuse(p) \/ Settle(p) PROVE Tallied'
  BY <1>6 DEF Refuse, Settle
<1>7. ASSUME Tick \/ UNCHANGED vars PROVE Tallied'
  BY <1>7, <1>2 DEF Tick, vars
<1> QED BY <1>3, <1>4, <1>5, <1>6, <1>7 DEF Next

(* A step that lets no time pass, opens nothing, and wakes or lulls nobody *)
(* keeps the limit, as long as the authorised devices only grow.           *)
LEMMA LimitKept ==
  ASSUME WindowAssumption, TypeOK, Limited, UNCHANGED overrun,
         NEW c \in Caller,
         IsFiniteSet(bonded'[c]), bonded[c] \subseteq bonded'[c],
         pc'[c] \in BeforeOpen => pc[c] \in BeforeOpen,
         pc'[c] = "open" => /\ pc[c] \in BeforeOpen \union {"open"}
                            /\ pc[c] = "open" /\ c \in awake => c \in awake'
  PROVE  LimitedCall(c)'
<1>1. ASSUME At(c, "open")', overrun'[c] = 1 PROVE c \in awake' /\ Full(c)'
  <2>1. At(c, "open") /\ overrun[c] = 1
    BY <1>1 DEF Limited, LimitedCall, At
  <2> QED BY <1>1, <2>1, FullStays DEF Limited, LimitedCall, At
<1> QED BY <1>1 DEF Limited, LimitedCall, At

(* Every step keeps the limit. *)
LEMMA LimitStep ==
  ASSUME WindowAssumption, TypeOK, Limited, [Next]_vars
  PROVE  Limited'
<1> USE DEF peers, call
<1> SUFFICES ASSUME NEW d \in Caller PROVE LimitedCall(d)'
  BY DEF Limited
<1>f. IsFiniteSet(bonded[d])
  BY DEF Limited, LimitedCall
<1>1. ASSUME NEW c \in Caller, NEW how \in Over, Leave(c, how) PROVE LimitedCall(d)'
  BY <1>1, <1>f, LimitKept DEF Leave, Goto, Over, BeforeOpen, TypeOK
<1>2. ASSUME NEW c \in Caller, Register(c) \/ Prepare(c) \/ Close(c) PROVE LimitedCall(d)'
  BY <1>2, <1>f, LimitKept
     DEF Register, Prepare, Close, Goto, At, BeforeOpen, TypeOK
<1>3. ASSUME NEW c \in Caller, Open(c) PROVE LimitedCall(d)'
  BY <1>3, <1>f, LimitKept DEF Open, At, BeforeOpen, TypeOK
<1>4. ASSUME NEW c \in Caller, Fails(c) \/ Return(c) \/ Drop(c) PROVE LimitedCall(d)'
  BY <1>4, <1>1 DEF Fails, Return, Drop, Over
<1>5. ASSUME NEW c \in Caller, Poll(c) PROVE LimitedCall(d)'
  <2>1. CASE c = d
    <3>1. CASE Full(c) \/ left[c] = 0
      BY <1>5, <2>1, <3>1, <1>f, LimitKept DEF Poll, At, BeforeOpen, TypeOK
    <3>2. CASE ~(Full(c) \/ left[c] = 0)
      <4>1. overrun[d] # 1
        BY <1>5, <2>1, <3>2 DEF Poll, Limited, LimitedCall
      <4> QED BY <1>5, <2>1, <3>2, <4>1, <1>f DEF Poll, At, Limited, LimitedCall, TypeOK
    <3> QED BY <3>1, <3>2
  <2>2. CASE c # d
    BY <1>5, <2>2, <1>f, LimitKept DEF Poll, At, TypeOK
  <2> QED BY <2>1, <2>2
<1>6. ASSUME NEW c \in Caller, Collect(c) PROVE LimitedCall(d)'
  BY <1>6, <1>f, LimitKept DEF Collect, At, BeforeOpen, TypeOK
<1>7. ASSUME NEW p \in Peer, Ask(p) \/ Refuse(p) \/ Settle(p) PROVE LimitedCall(d)'
  BY <1>7, <1>f, LimitKept DEF Ask, Refuse, Settle
<1>8. ASSUME NEW p \in Peer, Grant(p) PROVE LimitedCall(d)'
  <2>1. IsFiniteSet(bonded[d] \union {p})
    BY <1>f, FS_AddElement
  <2>2. bonded'[d] = bonded[d] \/ bonded'[d] = bonded[d] \union {p}
    BY <1>8 DEF Grant, TypeOK
  <2> QED BY <1>8, <2>1, <2>2, <1>f, LimitKept DEF Grant
<1>9. ASSUME Tick PROVE LimitedCall(d)'
  <2>1. CASE At(d, "open")
    <3>1. d \notin awake /\ d \in awake'
      BY <1>9, <2>1 DEF Tick
    <3>2. overrun[d] = 0
      <4>1. overrun[d] <= 1 /\ overrun[d] # 1
        BY <2>1, <3>1 DEF Limited, LimitedCall
      <4>2. overrun[d] \in Nat
        BY DEF TypeOK
      <4> QED BY <4>1, <4>2
    <3>3. overrun'[d] = IF Full(d) THEN 1 ELSE 0
      BY <1>9, <2>1, <3>2 DEF Tick
    <3>4. Full(d) => Full(d)'
      BY <1>9 DEF Tick, Full
    <3> QED BY <1>9, <2>1, <3>1, <3>3, <3>4, <1>f DEF Tick, At, BeforeOpen, LimitedCall
  <2>2. CASE ~At(d, "open")
    BY <1>9, <2>2, <1>f DEF Tick, At, Limited, LimitedCall, TypeOK
  <2> QED BY <2>1, <2>2
<1>10. ASSUME UNCHANGED vars PROVE LimitedCall(d)'
  BY <1>10, <1>f, LimitKept DEF vars
<1> QED BY <1>2, <1>3, <1>4, <1>5, <1>6, <1>7, <1>8, <1>9, <1>10 DEF Next, Moves

(* The invariant holds of every behaviour. *)
LEMMA Invariant == Spec => []IInv
<1>1. IInv /\ [Next]_vars => IInv'
  BY WindowAssumption, TypeStep, TallyStep, LimitStep DEF IInv
<1> QED BY <1>1, InitInv, PTL DEF Spec

(* Every reachable state of the window is well formed. *)
THEOREM TypeCorrect == Spec => []TypeOK
BY Invariant, PTL DEF IInv

(* A call closes within a poll of reaching its limit, however many devices *)
(* pair at once and however many calls overlap.                            *)
THEOREM LimitCorrect == Spec => []StopsAtLimit
<1>1. IInv => StopsAtLimit
  BY DEF IInv, Limited, LimitedCall, StopsAtLimit
<1> QED BY <1>1, Invariant, PTL

(* Overlapping calls report a device twice only if it paired twice.        *)
THEOREM ReportedOnceCorrect == Spec => []EachBondReportedOnce
<1>1. IInv => EachBondReportedOnce
  BY DEF IInv, Tallied, TypeOK, EachBondReportedOnce
<1> QED BY <1>1, Invariant, PTL
=============================================================================
