---------------------- MODULE UploadDiagnosticsProofs ----------------------
(***************************************************************************)
(* What is proved of Upload, for any uploads, files, retries and packet    *)
(* sizes, and of Diagnostics, for any tasks, backends, events and clocks.  *)
(*                                                                         *)
(* Upload.  Each upload is followed by itself: the client's offset and the *)
(* bytes the peer holds agree whenever neither waits for the other, and a  *)
(* copy of the file being pushed is either of this very attempt, whose     *)
(* last packet was answered then, or of an earlier one that was rejected   *)
(* so late that it was tried again (Settled).                              *)
(* Between uploads it matters only whose name the progress bar shows.      *)
(*                                                                         *)
(* Diagnostics.  The analyzer's loops are followed event by event: the     *)
(* buckets agree with the total after every event (Agree), and events sort *)
(* to the same places whichever of two neighbours arrived first.  Of the   *)
(* recording tasks, a number a backend gave is of one event (NumbersOnce), *)
(* hence as many events are captured as numbers were delivered.            *)
(***************************************************************************)
EXTENDS Upload, Diagnostics, FiniteSetTheorems, SequenceTheorems, WellFoundedInduction, TLAPS


Objects == [index : Nat, attempt : Nat, bytes : Nat]
Begun == {"start"} \cup Pushing

Has(c, i) == \E j \in 1 .. Len(kept[c]) : kept[c][j].index = i

(* Client and peer, step by step. *)
InStep(c) ==
  /\ pc[c] \notin Exchange => wire[c] = "quiet"
  /\ pc[c] = "connect" => index[c] = 1
  /\ pc[c] \in Begun => index[c] \in 1 .. Len(Files[c])
  /\ pc[c] \in Pushing => offset[c] <= File(c).size
  /\ pc[c] \in {"open", "hello"} => offset[c] = 0
  /\ pc[c] = "hello" => got[c] = 0
  /\ pc[c] \in {"put", "bye"} \/ (pc[c] = "hello" /\ wire[c] = "success")
       => peerMax[c] >= Smallest
  /\ pc[c] = "put" /\ wire[c] \in {"quiet", "asked"} => got[c] = offset[c]
  /\ pc[c] = "put" /\ wire[c] = "continue" /\ ~IsLast(c)
       => got[c] = offset[c] + Take(c)
  /\ pc[c] = "put" /\ wire[c] = "success" => IsLast(c)
  /\ pc[c] = "close" => result[c] \in {"ok", "rejected", "backend"}

(* What the peer keeps is whole, and of files taken up so far. *)
Whole(c) ==
  \A j \in 1 .. Len(kept[c]) :
    /\ kept[c][j].index \in 1 .. index[c]
    /\ kept[c][j].bytes = Files[c][kept[c][j].index].size

(* The current file has arrived, as far as the client knows. *)
Landed(c) ==
  \/ pc[c] = "put" /\ wire[c] = "success"
  \/ pc[c] = "bye"
  \/ pc[c] = "close" /\ result[c] = "ok"

Receipted(c) ==
  /\ pc[c] \in Begun \cup {"connect"} => Len(receipts[c]) = index[c] - 1
  /\ index[c] <= Len(receipts[c]) + 1
  /\ \A i \in 1 .. Len(receipts[c]) : receipts[c][i].index = i /\ Has(c, i)
  /\ verdict[c] = "ok" =>
       pc[c] \in {"leave", "over"} /\ Len(receipts[c]) = Len(Files[c])

(* A copy whose attempt was rejected once the peer had it. *)
Again(c, j) ==
  /\ kept[c][j].attempt \in 1 .. Retries[c]
  /\ <<kept[c][j].index, kept[c][j].attempt>> \in late[c]

(* The last packet of this attempt was answered; if the attempt is to be   *)
(* repeated, it is on record why.                                          *)
Ended(c) ==
  \/ pc[c] = "put" /\ wire[c] \notin {"quiet", "asked"} /\ IsLast(c)
  \/ pc[c] = "bye"
  \/ pc[c] = "close" /\ result[c] \in {"ok", "backend"}
  \/ pc[c] = "close" /\ <<index[c], attempt[c]>> \in late[c]

(* A copy of the file being pushed is of this attempt or of one repeated. *)
Settled(c, j) ==
  \/ pc[c] \in {"leave", "over"}
  \/ kept[c][j].attempt < attempt[c] /\ Again(c, j)
  \/ kept[c][j].attempt = attempt[c] /\ Ended(c)

AllSettled(c) == \A j \in 1 .. Len(kept[c]) : kept[c][j].index = index[c] => Settled(c, j)

Ordered(c) ==
  \A j, k \in 1 .. Len(kept[c]) : j < k =>
    /\ kept[c][j].index <= kept[c][k].index
    /\ kept[c][j].index = kept[c][k].index =>
         kept[c][j].attempt < kept[c][k].attempt /\ Again(c, j)

Explained(c) == AllSettled(c) /\ Ordered(c)

Fine(c) ==
  /\ InStep(c) /\ Whole(c) /\ Receipted(c) /\ Explained(c)
  /\ Landed(c) => Has(c, index[c])

(* Without an overlap the bar names the one file being pushed. *)
Named ==
  overlap = "no" =>
    /\ \A c, d \in Call : pc[c] \in Pushing /\ pc[d] \in Pushing => c = d
    /\ \A c \in Call : pc[c] \in Pushing => shown.object = <<c, index[c]>>
    /\ shown.done = "yes" =>
         \E c \in Call, i \in Nat : shown.object = <<c, i>> /\ Has(c, i)

IInv == TypeOK /\ (\A c \in Call : Fine(c)) /\ Named

-----------------------------------------------------------------------------
(* Packets and objects. *)

(* An element of a sequence is of its type. *)
LEMMA Element ==
  ASSUME NEW S, NEW s \in Seq(S), NEW i \in 1 .. Len(s)
  PROVE  s[i] \in S
  OBVIOUS

(* The present file's fields. *)
LEMMA FileFacts ==
  ASSUME NEW c \in Call, index[c] \in 1 .. Len(Files[c])
  PROVE  File(c) = Files[c][index[c]] /\ File(c).size \in Nat /\ File(c).units \in Nat
<1>1. Files[c] \in Seq([units : Nat, size : Nat])
  BY UploadAssumption
<1>2. Files[c][index[c]] \in [units : Nat, size : Nat]
  BY <1>1, Element
<1> QED BY <1>2 DEF File

(* A packet takes some of what is left, and all of it if it is the last. *)
LEMMA TakeFacts ==
  ASSUME TypeOK, NEW c \in Call, index[c] \in 1 .. Len(Files[c]), offset[c] <= File(c).size
  PROVE  /\ Take(c) \in Nat /\ MaxPacket(c) \in Nat /\ Overhead(c) \in Nat
         /\ offset[c] \in Nat /\ offset[c] + Take(c) <= File(c).size
         /\ IsLast(c) <=> offset[c] + Take(c) = File(c).size
<1>1. File(c).size \in Nat /\ File(c).units \in Nat /\ offset[c] \in Nat /\ peerMax[c] \in Nat
  BY FileFacts DEF TypeOK
<1>2. MaxPacket(c) \in Nat
  BY <1>1 DEF MaxPacket, Lesser, OurMax
<1>3. Overhead(c) \in Nat
  BY <1>1 DEF Overhead
<1>4. Take(c) \in Nat /\ offset[c] + Take(c) <= File(c).size
  <2>1. Greater(MaxPacket(c) - Overhead(c), 1) \in Nat
    BY <1>2, <1>3 DEF Greater
  <2>2. File(c).size - offset[c] \in Nat
    BY <1>1
  <2>3. ASSUME NEW m \in Nat, NEW n \in Nat PROVE Lesser(m, n) \in Nat /\ Lesser(m, n) <= m
    BY DEF Lesser
  <2>4. Take(c) \in Nat /\ Take(c) <= File(c).size - offset[c]
    BY <2>1, <2>2, <2>3 DEF Take
  <2> QED BY <1>1, <2>4
<1> QED BY <1>1, <1>2, <1>3, <1>4 DEF IsLast

(* An object kept is the last of those kept. *)
LEMMA KeptFacts ==
  ASSUME NEW s \in Seq(Objects), NEW o \in Objects
  PROVE  /\ Append(s, o) \in Seq(Objects)
         /\ Len(Append(s, o)) = Len(s) + 1 /\ Len(s) \in Nat
         /\ \A j \in 1 .. Len(s) : Append(s, o)[j] = s[j]
         /\ Append(s, o)[Len(s) + 1] = o
  OBVIOUS

(* All that is c's own. *)
Same(c) ==
  /\ pc'[c] = pc[c] /\ index'[c] = index[c] /\ attempt'[c] = attempt[c]
  /\ wire'[c] = wire[c] /\ peerMax'[c] = peerMax[c] /\ offset'[c] = offset[c]
  /\ result'[c] = result[c] /\ receipts'[c] = receipts[c] /\ verdict'[c] = verdict[c]
  /\ got'[c] = got[c] /\ kept'[c] = kept[c] /\ late'[c] = late[c]

(* An upload that a step leaves alone stays fine. *)
LEMMA SameFine ==
  ASSUME NEW c \in Call, Same(c), Fine(c) PROVE Fine(c)'
<1>1. File(c)' = File(c) /\ (\A i : Has(c, i)' = Has(c, i)) /\ (\A j : Again(c, j)' = Again(c, j))
  BY DEF Same, File, Has, Again
<1>2. Take(c)' = Take(c) /\ IsLast(c)' = IsLast(c)
  BY <1>1 DEF Same, Take, IsLast, Overhead, MaxPacket
<1>3. InStep(c)'
  BY <1>1, <1>2 DEF Same, Fine, InStep
<1>4. Whole(c)' /\ (Landed(c)' <=> Landed(c))
  BY DEF Same, Fine, Whole, Landed
<1>5. Receipted(c)'
  BY <1>1 DEF Same, Fine, Receipted
<1>6. Explained(c)'
  <2>1. Ended(c)' <=> Ended(c)
    BY <1>2 DEF Same, Ended
  <2>2. Ordered(c)'
    BY <1>1 DEF Same, Fine, Explained, Ordered
  <2>3. AllSettled(c)'
    BY <1>1, <2>1 DEF Same, Fine, Explained, AllSettled, Settled
  <2> QED BY <2>2, <2>3 DEF Explained
<1> QED BY <1>1, <1>3, <1>4, <1>5, <1>6 DEF Fine, Same

(* An upload's steps leave the others alone. *)
LEMMA OthersSame ==
  ASSUME TypeOK, NEW d \in Call, Moves(d) \/ Answer(d), NEW c \in Call, c # d
  PROVE  Same(c)
<1>0. /\ DOMAIN pc = Call /\ DOMAIN index = Call /\ DOMAIN attempt = Call
      /\ DOMAIN wire = Call /\ DOMAIN peerMax = Call /\ DOMAIN offset = Call
      /\ DOMAIN result = Call /\ DOMAIN receipts = Call /\ DOMAIN verdict = Call
      /\ DOMAIN got = Call /\ DOMAIN kept = Call /\ DOMAIN late = Call
  BY DEF TypeOK
<1>1. CASE Connect(d)
  BY <1>0, <1>1 DEF Connect, Goto, Same, client, peer
<1>2. CASE Leave(d)
  BY <1>0, <1>2 DEF Leave, Goto, Same, client, peer
<1>3. CASE Start(d)
  BY <1>0, <1>3 DEF Start, Goto, Same, peer
<1>4. CASE Open(d)
  BY <1>0, <1>4 DEF Open, Goto, Same
<1>5. CASE Ask(d)
  BY <1>0, <1>5 DEF Ask, Same, client, upload
<1>6. ASSUME NEW how, Abort(d, how) PROVE Same(c)
  BY <1>0, <1>6 DEF Abort, Goto, Same
<1>7. CASE Acknowledged(d)
  <2>1. UNCHANGED <<index, attempt, receipts, verdict, peerMax, got, kept, late>>
    BY <1>7 DEF Acknowledged
  <2>2. pc'[c] = pc[c] /\ wire'[c] = wire[c]
    BY <1>0, <1>7 DEF Acknowledged, Goto
  <2>3. offset'[c] = offset[c] /\ result'[c] = result[c]
    BY <1>0, <1>7 DEF Acknowledged
  <2> QED BY <2>1, <2>2, <2>3 DEF Same
<1>8. CASE Conclude(d)
  <2>1. UNCHANGED <<wire, peerMax, offset, result, got, kept, late>>
    BY <1>8 DEF Conclude, peer
  <2>2. pc'[c] = pc[c] /\ index'[c] = index[c] /\ attempt'[c] = attempt[c]
    BY <1>0, <1>8 DEF Conclude, Goto
  <2>3. receipts'[c] = receipts[c] /\ verdict'[c] = verdict[c]
    BY <1>0, <1>8 DEF Conclude
  <2> QED BY <2>1, <2>2, <2>3 DEF Same
<1>9. CASE Answer(d)
  <2>1. UNCHANGED <<pc, index, attempt, offset, result, receipts, verdict, late>>
    BY <1>9 DEF Answer, upload
  <2>2. wire'[c] = wire[c] /\ peerMax'[c] = peerMax[c]
    BY <1>0, <1>9 DEF Answer
  <2>3. got'[c] = got[c] /\ kept'[c] = kept[c]
    BY <1>0, <1>9 DEF Answer
  <2> QED BY <2>1, <2>2, <2>3 DEF Same
<1> QED BY <1>1, <1>2, <1>3, <1>4, <1>5, <1>6, <1>7, <1>8, <1>9
        DEF Moves, WriteFails, ReadFails, Refused

-----------------------------------------------------------------------------
(* Types. *)

(* The steps of a push, spelled out. *)
LEMMA PlacesAre ==
  /\ Pushing = {"hello", "put", "bye", "open", "close"}
  /\ Begun = {"start", "hello", "put", "bye", "open", "close"}
  BY DEF Begun, Pushing, Exchange

(* TypeOK without what has a structure. *)
Small ==
  /\ pc \in [Call -> Pushing \cup {"connect", "start", "leave", "over"}]
  /\ index \in [Call -> Nat \ {0}] /\ attempt \in [Call -> Nat \ {0}]
  /\ link \in [Call -> {"down", "up", "left"}]
  /\ socket \in [Call -> {"none", "open", "closed", "lost"}]
  /\ wire \in [Call -> {"quiet", "asked", "success", "continue", "refusal", "broken"}]
  /\ peerMax \in [Call -> Nat] /\ offset \in [Call -> Nat] /\ chunks \in [Call -> Nat]
  /\ result \in [Call -> {"none", "ok", "rejected", "backend"}]
  /\ verdict \in [Call -> {"none", "ok", "rejected", "backend", "unreachable"}]
  /\ got \in [Call -> Nat]
  /\ overlap \in {"yes", "no"}

Receipts == [index : Nat, bytes : Nat, chunks : Nat]
Logs ==
  /\ receipts \in [Call -> Seq(Receipts)] /\ kept \in [Call -> Seq(Objects)]
  /\ late \in [Call -> SUBSET (Nat \X Nat)]
ShownOK == shown.object \in {Nothing} \cup Call \X Nat /\ shown.done \in {"yes", "no"}

(* The types are those of the places, the logs and the bar. *)
LEMMA TypeParts == TypeOK <=> Small /\ Logs /\ ShownOK
  BY DEF TypeOK, Small, Logs, ShownOK, Receipts, Objects

(* The types at the start. *)
LEMMA InitType == Init => TypeOK
<1> SUFFICES ASSUME Init PROVE TypeOK
  OBVIOUS
<1>1. Small
  BY DEF Init, Small
<1>2. Logs
  BY DEF Init, Logs
<1>3. ShownOK
  BY DEF Init, ShownOK
<1> QED BY <1>1, <1>2, <1>3, TypeParts

(* The types, as an exchange is given up. *)
LEMMA AbortSmall ==
  ASSUME Small, NEW c \in Call, NEW how \in {"rejected", "backend"}, Abort(c, how)
  PROVE  Small'
  BY PlacesAre DEF Abort, Goto, Small

(* The types, as the peer acknowledges. *)
LEMMA AcknowledgedSmall ==
  ASSUME TypeOK, NEW c \in Call, InStep(c), Acknowledged(c) PROVE Small'
<1>0. Small
  BY TypeParts
<1>1. /\ pc' \in [Call -> Pushing \cup {"connect", "start", "leave", "over"}]
      /\ result' \in [Call -> {"none", "ok", "rejected", "backend"}]
      /\ wire' \in [Call -> {"quiet", "asked", "success", "continue", "refusal", "broken"}]
  BY <1>0, PlacesAre DEF Acknowledged, Goto, Small
<1>2. offset' \in [Call -> Nat] /\ chunks' \in [Call -> Nat]
  <2>1. CASE At(c, "put")
    <3>1. Take(c) \in Nat
      BY <2>1, TakeFacts, PlacesAre DEF InStep, At
    <3>2. offset' = [offset EXCEPT ![c] = @ + Take(c)]
          /\ (chunks' = chunks \/ chunks' = [chunks EXCEPT ![c] = @ + 1])
      BY <2>1 DEF Acknowledged, At
    <3> QED BY <1>0, <3>1, <3>2 DEF Small
  <2>2. CASE ~At(c, "put")
    BY <1>0, <2>2 DEF Acknowledged, Small
  <2> QED BY <2>1, <2>2
<1> QED BY <1>0, <1>1, <1>2 DEF Acknowledged, Small

(* The types, as an attempt ends. *)
LEMMA ConcludeSmall ==
  ASSUME Small, NEW c \in Call, InStep(c), Conclude(c) PROVE Small'
<1>0. pc[c] = "close" /\ result[c] \in {"ok", "rejected", "backend"}
  BY DEF Conclude, At, InStep
<1>1. /\ pc' \in [Call -> Pushing \cup {"connect", "start", "leave", "over"}]
      /\ index' \in [Call -> Nat \ {0}]
  <2>1. \E p \in {"start", "leave"} : pc' = [pc EXCEPT ![c] = p]
    BY DEF Conclude, Goto
  <2>2. index' = index \/ index' = [index EXCEPT ![c] = @ + 1]
    BY DEF Conclude
  <2> QED BY <2>1, <2>2 DEF Small
<1>2. attempt' \in [Call -> Nat \ {0}]
  <2>1. \E n \in {1, attempt[c] + 1} :
          attempt' = [attempt EXCEPT ![c] = n] \/ attempt' = attempt
    BY DEF Conclude, NextAttempt
  <2>2. attempt \in [Call -> Nat \ {0}] /\ {1, attempt[c] + 1} \subseteq Nat \ {0}
    BY DEF Small
  <2> QED BY <2>1, <2>2
<1>3. /\ socket' \in [Call -> {"none", "open", "closed", "lost"}]
      /\ verdict' \in [Call -> {"none", "ok", "rejected", "backend", "unreachable"}]
  <2>1. socket' = [socket EXCEPT ![c] = IF @ = "open" THEN "closed" ELSE @]
    BY DEF Conclude, CloseSocket
  <2>2. \/ verdict' = verdict
        \/ verdict' = [verdict EXCEPT ![c] = "ok"]
        \/ verdict' = [verdict EXCEPT ![c] = result[c]]
    BY DEF Conclude, Failure
  <2> QED BY <1>0, <2>1, <2>2 DEF Small
<1> QED BY <1>1, <1>2, <1>3 DEF Conclude, Small, peer

(* The types, as the peer answers. *)
LEMMA AnswerSmall ==
  ASSUME TypeOK, NEW c \in Call, InStep(c), Answer(c) PROVE Small'
<1>0. Small
  BY TypeParts
<1>1. wire' \in [Call -> {"quiet", "asked", "success", "continue", "refusal", "broken"}]
  <2>1. \E a \in {"refusal", "broken", "success", "continue"} : wire' = [wire EXCEPT ![c] = a]
    BY DEF Answer
  <2> QED BY <1>0, <2>1 DEF Small
<1>2. peerMax' \in [Call -> Nat]
  <2>1. \A n \in Announced : Greater(n, Smallest) \in Nat
    BY UploadAssumption DEF Greater, Smallest
  <2>2. peerMax' = peerMax \/ \E n \in Announced : peerMax' = [peerMax EXCEPT ![c] = Greater(n, Smallest)]
    BY DEF Answer
  <2> QED BY <1>0, <2>1, <2>2 DEF Small
<1>3. pc[c] = "put" => Take(c) \in Nat
  BY TakeFacts, PlacesAre DEF InStep
<1>4. got' \in [Call -> Nat]
  <2>1. \/ got' = got
        \/ pc[c] = "put" /\ got' = [got EXCEPT ![c] = @ + Take(c)]
        \/ got' = [got EXCEPT ![c] = 0]
    BY DEF Answer, At
  <2> QED BY <1>0, <1>3, <2>1 DEF Small
<1> QED BY <1>0, <1>1, <1>2, <1>4 DEF Answer, Small, upload

(* Every step keeps the types of the places. *)
LEMMA SmallStep ==
  ASSUME TypeOK, \A c \in Call : InStep(c), [Next]_vars PROVE Small'
<1>0. Small
  BY TypeParts
<1>u. CASE UNCHANGED vars
  BY <1>0, <1>u DEF vars, upload, client, peer, Small
<1>1. ASSUME NEW c \in Call, Connect(c) PROVE Small'
  <2>1. \E p \in {"leave", "start", "over"} : pc' = [pc EXCEPT ![c] = p]
    BY <1>1 DEF Connect, Goto
  <2>2. link' = link \/ link' = [link EXCEPT ![c] = "up"]
    BY <1>1 DEF Connect
  <2>3. \E v \in {"ok", verdict[c], "unreachable"} : verdict' = [verdict EXCEPT ![c] = v]
    BY <1>1 DEF Connect
  <2>4. UNCHANGED <<index, attempt, client, peer, overlap>>
    BY <1>1 DEF Connect
  <2> QED BY <1>0, <2>1, <2>2, <2>3, <2>4 DEF Small, client, peer
<1>2. ASSUME NEW c \in Call, Leave(c) PROVE Small'
  BY <1>0, <1>2 DEF Leave, Goto, Small, client, peer
<1>3. ASSUME NEW c \in Call, Start(c) PROVE Small'
  BY <1>0, <1>3, PlacesAre DEF Start, Goto, Small, peer
<1>4. ASSUME NEW c \in Call, Open(c) PROVE Small'
  BY <1>0, <1>4, PlacesAre DEF Open, Goto, Small
<1>5. ASSUME NEW c \in Call, Ask(c) PROVE Small'
  BY <1>0, <1>5 DEF Ask, Small, upload, client
<1>6. ASSUME NEW c \in Call, WriteFails(c) \/ ReadFails(c) \/ Refused(c) PROVE Small'
  BY <1>0, <1>6, AbortSmall DEF WriteFails, ReadFails, Refused
<1> QED BY <1>0, <1>1, <1>2, <1>3, <1>4, <1>5, <1>6, <1>u, AcknowledgedSmall,
           ConcludeSmall, AnswerSmall DEF Next, Moves

(* The logs grow by one entry, or not at all. *)
LEMMA LogsGrow ==
  ASSUME TypeOK, [Next]_vars
  PROVE  /\ \/ receipts' = receipts
            \/ \E c \in Call : /\ Conclude(c) /\ pc[c] = "close" /\ result[c] = "ok"
                               /\ receipts' = [receipts EXCEPT ![c] = Append(@, Receipt(c))]
         /\ \/ kept' = kept
            \/ \E c \in Call : /\ Answer(c) /\ pc[c] = "put"
                               /\ kept' = [kept EXCEPT ![c] =
                                    Append(@, Copy(c))]
         /\ \/ late' = late
            \/ \E c \in Call : late' = [late EXCEPT ![c] = @ \cup {<<index[c], attempt[c]>>}]
         /\ \/ shown' = shown
            \/ \E c \in Call : shown'.object = <<c, index[c]>> /\ shown'.done = "no"
            \/ shown'.object = shown.object /\ shown'.done \in {"yes", "no"}
<1>u. CASE UNCHANGED vars
  BY <1>u DEF vars, upload, client, peer
<1>1. ASSUME NEW c \in Call, Connect(c) \/ Leave(c) \/ Open(c) \/ Ask(c)
      PROVE  UNCHANGED <<receipts, kept, late, shown>>
  BY <1>1 DEF Connect, Leave, Open, Ask, upload, client, peer
<1>2. ASSUME NEW c \in Call, Start(c)
      PROVE  /\ UNCHANGED <<receipts, kept, late>>
             /\ shown'.object = <<c, index[c]>> /\ shown'.done = "no"
  BY <1>2 DEF Start, Show, peer
<1>3. ASSUME NEW c \in Call, WriteFails(c) \/ ReadFails(c) \/ Refused(c)
      PROVE  /\ UNCHANGED <<receipts, kept, shown>>
             /\ late' = late \/ late' = [late EXCEPT ![c] = @ \cup {<<index[c], attempt[c]>>}]
  BY <1>3 DEF WriteFails, ReadFails, Refused, Abort
<1>4. ASSUME NEW c \in Call, Acknowledged(c)
      PROVE  /\ UNCHANGED <<receipts, kept, late>>
             /\ shown' = shown \/ (shown'.object = shown.object /\ shown'.done = "no")
  BY <1>4 DEF Acknowledged, Show
<1>5. ASSUME NEW c \in Call, Conclude(c)
      PROVE  /\ UNCHANGED <<kept, late>>
             /\ \/ receipts' = receipts
                \/ /\ pc[c] = "close" /\ result[c] = "ok"
                   /\ receipts' = [receipts EXCEPT ![c] = Append(@, Receipt(c))]
             /\ shown' = shown \/ (shown'.object = shown.object /\ shown'.done = "yes")
  BY <1>5 DEF Conclude, Show, At, peer
<1>6. ASSUME NEW c \in Call, Answer(c)
      PROVE  /\ UNCHANGED <<receipts, late, shown>>
             /\ \/ kept' = kept
                \/ /\ pc[c] = "put"
                   /\ kept' = [kept EXCEPT ![c] =
                        Append(@, Copy(c))]
  BY <1>6 DEF Answer, At, upload
<1>7. \/ UNCHANGED vars
      \/ \E c \in Call :
           \/ Connect(c) \/ Leave(c) \/ Open(c) \/ Ask(c) \/ Start(c) \/ WriteFails(c)
           \/ ReadFails(c) \/ Refused(c) \/ Acknowledged(c) \/ Conclude(c) \/ Answer(c)
  BY DEF Next, Moves
<1> QED BY <1>1, <1>2, <1>3, <1>4, <1>5, <1>6, <1>7, <1>u

(* Every step keeps the types of the logs and the bar. *)
LEMMA LogsStep ==
  ASSUME TypeOK, \A c \in Call : InStep(c), [Next]_vars PROVE Logs' /\ ShownOK'
<1>0. Small /\ Logs /\ ShownOK
  BY TypeParts
<1>1. receipts' \in [Call -> Seq(Receipts)]
  <2>1. CASE receipts' = receipts
    BY <1>0, <2>1 DEF Logs
  <2>2. ASSUME NEW c \in Call, pc[c] = "close",
               receipts' = [receipts EXCEPT ![c] = Append(@, Receipt(c))]
        PROVE  receipts' \in [Call -> Seq(Receipts)]
    <3>1. File(c).size \in Nat
      BY <2>2, FileFacts, PlacesAre DEF InStep
    <3>2. Greater(chunks[c], 1) \in Nat /\ index[c] \in Nat
      BY <1>0 DEF Greater, Small
    <3>3. Receipt(c) \in Receipts
      BY <3>1, <3>2 DEF Receipt, Receipts
    <3>4. Append(receipts[c], Receipt(c)) \in Seq(Receipts)
      BY <1>0, <3>3 DEF Logs
    <3> QED BY <1>0, <2>2, <3>4 DEF Logs
  <2> QED BY <2>1, <2>2, LogsGrow
<1>2. kept' \in [Call -> Seq(Objects)]
  <2>1. CASE kept' = kept
    BY <1>0, <2>1 DEF Logs
  <2>2. ASSUME NEW c \in Call, pc[c] = "put",
               kept' = [kept EXCEPT ![c] =
                          Append(@, Copy(c))]
        PROVE  kept' \in [Call -> Seq(Objects)]
    <3>1. Take(c) \in Nat
      BY <2>2, TakeFacts, PlacesAre DEF InStep
    <3>2. Copy(c) \in Objects
      BY <1>0, <3>1 DEF Small, Objects, Copy
    <3>3. kept[c] \in Seq(Objects)
      BY <1>0 DEF Logs
    <3>4. Append(kept[c], Copy(c)) \in Seq(Objects)
      BY <3>2, <3>3, KeptFacts
    <3> QED BY <1>0, <2>2, <3>4 DEF Logs
  <2> QED BY <2>1, <2>2, LogsGrow
<1>3. late' \in [Call -> SUBSET (Nat \X Nat)]
  <2>1. \A c \in Call : <<index[c], attempt[c]>> \in Nat \X Nat
    BY <1>0 DEF Small
  <2>2. late' = late \/ \E c \in Call : late' = [late EXCEPT ![c] = @ \cup {<<index[c], attempt[c]>>}]
    BY LogsGrow
  <2>3. late \in [Call -> SUBSET (Nat \X Nat)]
    BY <1>0 DEF Logs
  <2> QED BY <2>1, <2>2, <2>3
<1>4. ShownOK'
  <2>1. \A c \in Call : <<c, index[c]>> \in Call \X Nat
    BY <1>0 DEF Small
  <2> QED BY <1>0, <2>1, LogsGrow DEF ShownOK
<1> QED BY <1>1, <1>2, <1>3, <1>4 DEF Logs

(* Every step keeps the types. *)
LEMMA TypeStep ==
  ASSUME TypeOK, \A c \in Call : InStep(c), [Next]_vars PROVE TypeOK'
<1>1. Small' /\ Logs' /\ ShownOK'
  BY SmallStep, LogsStep
<1> QED BY <1>1 DEF TypeOK, Small, Logs, ShownOK, Receipts, Objects

-----------------------------------------------------------------------------
(* What each step does for the upload whose step it is. *)

(* c's logs stay as they are. *)
Quiet(c) ==
  /\ kept'[c] = kept[c] /\ receipts'[c] = receipts[c]
  /\ late[c] \subseteq late'[c] /\ index'[c] = index[c]

(* What a step that adds no object and no receipt leaves true. *)
LEMMA QuietFacts ==
  ASSUME NEW c \in Call, Quiet(c), Fine(c)
  PROVE  /\ \A i : Has(c, i)' = Has(c, i)
         /\ \A j : Again(c, j) => Again(c, j)'
         /\ Whole(c)'
         /\ \A i \in 1 .. Len(receipts'[c]) : receipts'[c][i].index = i /\ Has(c, i)'
         /\ Ordered(c)'
<1>1. (\A i : Has(c, i)' = Has(c, i)) /\ \A j : Again(c, j) => Again(c, j)'
  BY DEF Quiet, Has, Again
<1>2. Whole(c)'
  BY DEF Quiet, Fine, Whole
<1>3. \A i \in 1 .. Len(receipts'[c]) : receipts'[c][i].index = i /\ Has(c, i)'
  BY <1>1 DEF Quiet, Fine, Receipted
<1>4. Ordered(c)'
  BY <1>1 DEF Fine, Explained, Ordered, Quiet
<1> QED BY <1>1, <1>2, <1>3, <1>4

(* A quiet step of the same attempt settles what was settled, if it does   *)
(* not take back that the attempt has ended.                               *)
LEMMA QuietSettled ==
  ASSUME NEW c \in Call, Fine(c), Quiet(c), attempt'[c] = attempt[c],
         pc[c] \in {"leave", "over"} => pc'[c] \in {"leave", "over"},
         Ended(c) => Ended(c)' \/ pc'[c] \in {"leave", "over"}
  PROVE  AllSettled(c)'
<1>1. \A j : Again(c, j) => Again(c, j)'
  BY QuietFacts
<1>2. \A j : Settled(c, j) => Settled(c, j)'
  BY <1>1 DEF Settled, Quiet
<1> QED BY <1>2 DEF AllSettled, Fine, Explained, Quiet

(* A quiet step keeps everything fine if it keeps in step, lands nothing   *)
(* new and does not take back that the attempt has ended.                  *)
LEMMA QuietFine ==
  ASSUME NEW c \in Call, Fine(c), Quiet(c), InStep(c)', verdict'[c] = verdict[c],
         attempt'[c] = attempt[c],
         pc'[c] \in Begun \cup {"connect"} => pc[c] \in Begun \cup {"connect"},
         pc[c] \in {"leave", "over"} => pc'[c] \in {"leave", "over"},
         Landed(c)' => Landed(c),
         Ended(c) => Ended(c)' \/ pc'[c] \in {"leave", "over"}
  PROVE  Fine(c)'
<1>1. Receipted(c)'
  BY QuietFacts DEF Fine, Receipted, Quiet
<1>2. Explained(c)'
  BY QuietFacts, QuietSettled DEF Explained
<1>3. Landed(c)' => Has(c, index[c])'
  BY QuietFacts DEF Fine, Quiet, Has
<1> QED BY <1>1, <1>2, <1>3, QuietFacts DEF Fine

(* An upload stays fine as it connects. *)
LEMMA ConnectFine ==
  ASSUME TypeOK, NEW c \in Call, Fine(c), Connect(c) PROVE Fine(c)'
<1>0. Small
  BY TypeParts
<1>1. /\ pc[c] = "connect" /\ pc'[c] \in {"leave", "start", "over"}
      /\ pc'[c] = "start" => Files[c] # <<>> /\ verdict'[c] = verdict[c]
      /\ pc'[c] # "start" => verdict'[c] = "unreachable" \/ Files[c] = <<>>
      /\ wire'[c] = wire[c] /\ index'[c] = index[c]
  BY <1>0 DEF Connect, Goto, At, client, peer, Small
<1>2. Quiet(c)
  BY DEF Connect, Quiet, client, peer
<1>3. index[c] = 1 /\ wire[c] = "quiet" /\ Len(receipts[c]) = 0
      /\ verdict[c] # "ok"
  BY <1>1, PlacesAre DEF Fine, InStep, Receipted, Exchange
<1>4. Files[c] # <<>> => 1 \in 1 .. Len(Files[c])
  <2>1. Files[c] \in Seq([units : Nat, size : Nat])
    BY UploadAssumption
  <2> QED BY <2>1
<1>5. InStep(c)'
  BY <1>1, <1>3, <1>4, PlacesAre DEF InStep, Exchange
<1>6. Receipted(c)'
  BY <1>1, <1>2, <1>3, QuietFacts, PlacesAre DEF Receipted, Quiet
<1>7. Explained(c)'
  <2>1. ~Ended(c) /\ attempt'[c] = attempt[c]
    BY <1>1 DEF Ended, Connect
  <2> QED BY <1>1, <1>2, <2>1, QuietFacts, QuietSettled DEF Explained
<1>8. ~Landed(c)'
  BY <1>1 DEF Landed
<1> QED BY <1>2, <1>5, <1>6, <1>7, <1>8, QuietFacts DEF Fine

(* An upload stays fine as it returns. *)
LEMMA LeaveFine ==
  ASSUME TypeOK, NEW c \in Call, Fine(c), Leave(c) PROVE Fine(c)'
<1>0. Small
  BY TypeParts
<1>1. /\ pc[c] = "leave" /\ pc'[c] = "over" /\ wire'[c] = wire[c]
      /\ verdict'[c] = verdict[c] /\ attempt'[c] = attempt[c]
  BY <1>0 DEF Leave, Goto, At, client, peer, Small
<1>2. Quiet(c)
  BY DEF Leave, Quiet, client, peer
<1>3. InStep(c)'
  BY <1>1, PlacesAre DEF Fine, InStep, Exchange
<1> QED BY <1>1, <1>2, <1>3, QuietFine, PlacesAre DEF Landed, Ended

(* An upload stays fine as it starts a file. *)
LEMMA StartFine ==
  ASSUME TypeOK, NEW c \in Call, Fine(c), Start(c) PROVE Fine(c)'
<1>0. Small
  BY TypeParts
<1>1. /\ pc[c] = "start" /\ pc'[c] = "open" /\ wire'[c] = wire[c]
      /\ verdict'[c] = verdict[c] /\ offset'[c] = 0 /\ index'[c] = index[c]
      /\ attempt'[c] = attempt[c]
  BY <1>0 DEF Start, Goto, At, peer, Small
<1>2. Quiet(c)
  BY DEF Start, Quiet, peer
<1>3. InStep(c)'
  <2>1. index[c] \in 1 .. Len(Files[c]) /\ wire[c] = "quiet"
    BY <1>1, PlacesAre DEF Fine, InStep, Exchange
  <2>2. File(c)'.size \in Nat
    BY <1>1, <2>1, FileFacts DEF File
  <2> QED BY <1>1, <2>1, <2>2, PlacesAre DEF InStep, Exchange
<1> QED BY <1>1, <1>2, <1>3, QuietFine, PlacesAre DEF Landed, Ended

(* An upload stays fine as its socket opens. *)
LEMMA OpenFine ==
  ASSUME TypeOK, NEW c \in Call, Fine(c), Open(c) PROVE Fine(c)'
<1>0. Small
  BY TypeParts
<1>1. /\ pc[c] = "open" /\ pc'[c] \in {"hello", "close"} /\ wire'[c] = wire[c]
      /\ verdict'[c] = verdict[c] /\ offset'[c] = offset[c] /\ index'[c] = index[c]
      /\ got'[c] = 0 /\ (pc'[c] = "close" => result'[c] = "backend")
      /\ attempt'[c] = attempt[c]
  BY <1>0 DEF Open, Goto, At, Small
<1>2. Quiet(c)
  BY DEF Open, Quiet
<1>3. InStep(c)'
  <2>1. index[c] \in 1 .. Len(Files[c]) /\ wire[c] = "quiet" /\ offset[c] <= File(c).size
        /\ offset[c] = 0
    BY <1>1, PlacesAre DEF Fine, InStep, Exchange
  <2>2. File(c)' = File(c)
    BY <1>1 DEF File
  <2> QED BY <1>1, <2>1, <2>2, PlacesAre DEF InStep, Exchange
<1> QED BY <1>1, <1>2, <1>3, QuietFine, PlacesAre DEF Landed, Ended

(* An upload stays fine as it sends a request. *)
LEMMA AskFine ==
  ASSUME TypeOK, NEW c \in Call, Fine(c), Ask(c) PROVE Fine(c)'
<1>0. Small
  BY TypeParts
<1>1. /\ pc[c] \in Exchange /\ wire[c] = "quiet" /\ wire'[c] = "asked"
      /\ UNCHANGED <<pc, verdict, offset, index, peerMax, got, result, attempt, late>>
  BY <1>0 DEF Ask, upload, client, Small
<1>2. Quiet(c)
  BY DEF Ask, Quiet, upload
<1>3. InStep(c)'
  <2>1. File(c)' = File(c)
    BY <1>1 DEF File
  <2> QED BY <1>1, <2>1, PlacesAre DEF Fine, InStep, Exchange
<1> QED BY <1>1, <1>2, <1>3, QuietFine, PlacesAre DEF Landed, Ended

(* An upload stays fine as it gives up an exchange. *)
LEMMA AbortFine ==
  ASSUME TypeOK, NEW c \in Call, Fine(c), NEW how \in {"rejected", "backend"}, Abort(c, how),
         pc[c] \in Exchange
  PROVE  Fine(c)'
<1>0. Small /\ Logs
  BY TypeParts
<1>1. /\ pc'[c] = "close" /\ wire'[c] = "quiet" /\ result'[c] = how
      /\ UNCHANGED <<verdict, offset, index, attempt>>
  BY <1>0 DEF Abort, Goto, Small
<1>2. /\ late[c] \subseteq late'[c]
      /\ how = "rejected" /\ (pc[c] = "bye" \/ (pc[c] = "put" /\ IsLast(c)))
           => <<index[c], attempt[c]>> \in late'[c]
  BY <1>0 DEF Abort, At, Logs
<1>3. Quiet(c)
  BY <1>2 DEF Abort, Quiet
<1>4. InStep(c)'
  <2>1. File(c)' = File(c)
    BY <1>1 DEF File
  <2> QED BY <1>1, <2>1, PlacesAre DEF Fine, InStep, Exchange
<1>5. Ended(c) => Ended(c)'
  BY <1>1, <1>2 DEF Ended, Exchange
<1>6. ~Landed(c)'
  BY <1>1 DEF Landed
<1> QED BY <1>1, <1>3, <1>4, <1>5, <1>6, QuietFine, PlacesAre DEF Exchange

(* An upload stays fine as its socket fails or the peer refuses. *)
LEMMA FailsFine ==
  ASSUME TypeOK, NEW c \in Call, Fine(c), WriteFails(c) \/ ReadFails(c) \/ Refused(c)
  PROVE  Fine(c)'
<1>1. CASE WriteFails(c)
  BY <1>1, AbortFine DEF WriteFails
<1>2. CASE ReadFails(c)
  BY <1>2, AbortFine DEF ReadFails
<1>3. CASE Refused(c)
  BY <1>3, AbortFine DEF Refused
<1> QED BY <1>1, <1>2, <1>3

(* An upload stays fine as the peer acknowledges. *)
LEMMA AcknowledgedFine ==
  ASSUME TypeOK, NEW c \in Call, Fine(c), Acknowledged(c) PROVE Fine(c)'
<1>0. Small
  BY TypeParts
<1>1. /\ pc[c] \in Exchange /\ wire[c] = Expected(c) /\ wire'[c] = "quiet"
      /\ UNCHANGED <<index, attempt, verdict, peerMax, got, late>>
      /\ \/ pc[c] = "hello" /\ pc'[c] = "put" /\ offset'[c] = offset[c]
         \/ /\ pc[c] = "put" /\ pc'[c] = (IF IsLast(c) THEN "bye" ELSE "put")
            /\ offset'[c] = offset[c] + Take(c)
         \/ /\ pc[c] = "bye" /\ pc'[c] = "close" /\ offset'[c] = offset[c]
            /\ result'[c] = "ok"
  BY <1>0 DEF Acknowledged, Goto, At, Small
<1>2. Quiet(c)
  BY DEF Acknowledged, Quiet
<1>3. File(c)' = File(c)
  BY <1>1 DEF File
<1>4. /\ index[c] \in 1 .. Len(Files[c]) /\ offset[c] <= File(c).size
      /\ wire[c] = "success" \/ (pc[c] = "put" /\ ~IsLast(c) /\ wire[c] = "continue")
  BY <1>1, PlacesAre DEF Fine, InStep, Expected, At, Exchange
<1>5. CASE pc[c] = "hello"
  <2>1. InStep(c)'
    BY <1>1, <1>3, <1>4, <1>5, PlacesAre DEF Fine, InStep, Exchange
  <2> QED BY <1>1, <1>2, <1>5, <2>1, QuietFine, PlacesAre DEF Landed, Ended
<1>6. CASE pc[c] = "put"
  <2>1. Take(c) \in Nat /\ offset[c] + Take(c) <= File(c).size
    BY <1>4, TakeFacts
  <2>2. InStep(c)'
    BY <1>1, <1>3, <1>4, <1>6, <2>1, PlacesAre DEF Fine, InStep, Exchange, Expected, At
  <2>3. (Landed(c)' => Landed(c)) /\ (Ended(c) => Ended(c)')
    BY <1>1, <1>4, <1>6 DEF Landed, Ended, Expected, At
  <2> QED BY <1>1, <1>2, <1>6, <2>2, <2>3, QuietFine, PlacesAre
<1>7. CASE pc[c] = "bye"
  <2>1. InStep(c)'
    BY <1>1, <1>3, <1>4, <1>7, PlacesAre DEF Fine, InStep, Exchange
  <2> QED BY <1>1, <1>2, <1>7, <2>1, QuietFine, PlacesAre DEF Landed, Ended
<1> QED BY <1>1, <1>5, <1>6, <1>7

(* The peer accepts an object: it is whole, and a copy only for cause. *)
LEMMA AcceptFine ==
  ASSUME TypeOK, NEW c \in Call, Fine(c), Answer(c), pc[c] = "put", IsLast(c),
         wire[c] = "asked", wire'[c] \in {"success", "continue", "refusal", "broken"},
         kept' = [kept EXCEPT ![c] =
                    Append(@, Copy(c))]
  PROVE  Fine(c)'
<1>0. Small /\ Logs
  BY TypeParts
<1> DEFINE o == Copy(c)
           n == Len(kept[c])
<1>1. UNCHANGED <<pc, index, attempt, verdict, receipts, offset, late, result>>
  BY DEF Answer, upload
<1>2. index[c] \in 1 .. Len(Files[c]) /\ offset[c] <= File(c).size /\ got[c] = offset[c]
  BY PlacesAre DEF Fine, InStep
<1>3. Take(c) \in Nat /\ offset[c] + Take(c) = File(c).size
  BY <1>2, TakeFacts
<1>4. o \in Objects /\ o.index = index[c] /\ o.attempt = attempt[c] /\ o.bytes = Files[c][index[c]].size
  BY <1>0, <1>2, <1>3, FileFacts DEF Small, Objects, Copy
<1>5. /\ kept'[c] = Append(kept[c], o) /\ n \in Nat /\ Len(kept'[c]) = n + 1
      /\ \A j \in 1 .. n : kept'[c][j] = kept[c][j]
      /\ kept'[c][n + 1] = o
  <2>1. kept[c] \in Seq(Objects)
    BY <1>0 DEF Logs
  <2>2. kept'[c] = Append(kept[c], o)
    BY <1>0 DEF Logs
  <2> QED BY <1>4, <2>1, <2>2, KeptFacts
<1>6. Has(c, index[c])'
  BY <1>1, <1>4, <1>5 DEF Has
<1>7. Whole(c)'
  <2>1. \A j \in 1 .. n : kept[c][j].index \in 1 .. index[c]
                          /\ kept[c][j].bytes = Files[c][kept[c][j].index].size
    BY DEF Fine, Whole
  <2>2. index[c] \in 1 .. index[c]
    BY <1>0 DEF Small
  <2>3. \A j \in 1 .. n + 1 : j \in 1 .. n \/ j = n + 1
    BY <1>5
  <2> QED BY <1>1, <1>4, <1>5, <2>1, <2>2, <2>3 DEF Whole
<1>8. InStep(c)'
  <2>1. peerMax'[c] = peerMax[c]
    BY DEF Answer, At
  <2>2. File(c)' = File(c) /\ IsLast(c)' = IsLast(c)
    BY <1>1, <2>1 DEF File, IsLast, Take, Overhead, MaxPacket
  <2> QED BY <1>1, <1>2, <2>1, <2>2, PlacesAre DEF Fine, InStep, Exchange
<1>9. Receipted(c)'
  <2>1. \A i : Has(c, i) => Has(c, i)'
    BY <1>5 DEF Has
  <2> QED BY <1>1, <2>1 DEF Fine, Receipted
<1>10. \A j \in 1 .. n : kept[c][j].index = index[c] => kept[c][j].attempt < attempt[c] /\ Again(c, j)
  <2>1. ~Ended(c) /\ pc[c] \notin {"leave", "over"}
    BY DEF Ended
  <2> QED BY <2>1 DEF Fine, Explained, AllSettled, Settled
<1>11. \A j \in 1 .. n : Again(c, j) <=> Again(c, j)'
  BY <1>1, <1>5 DEF Again
<1>12. Ordered(c)'
  <2>1. \A j \in 1 .. n : kept[c][j].index <= index[c]
    <3>1. \A j \in 1 .. n : kept[c][j].index \in 1 .. index[c]
      BY DEF Fine, Whole
    <3>2. \A a, b : a \in 1 .. b => a <= b
      OBVIOUS
    <3> QED BY ONLY <3>1, <3>2
  <2>2. SUFFICES ASSUME NEW j \in 1 .. n + 1, NEW k \in 1 .. n + 1, j < k
                 PROVE  /\ kept'[c][j].index <= kept'[c][k].index
                        /\ kept'[c][j].index = kept'[c][k].index =>
                             kept'[c][j].attempt < kept'[c][k].attempt /\ Again(c, j)'
    BY <1>5 DEF Ordered
  <2>3. j \in 1 .. n
    BY <1>5, <2>2
  <2>4. CASE k \in 1 .. n
    BY <1>5, <1>11, <2>2, <2>3, <2>4 DEF Fine, Explained, Ordered
  <2>5. CASE k = n + 1
    <3>1. /\ kept'[c][j] = kept[c][j]
          /\ kept'[c][k].index = index[c] /\ kept'[c][k].attempt = attempt[c]
      BY <1>4, <1>5, <2>3, <2>5
    <3> QED BY <1>10, <1>11, <2>1, <2>3, <3>1
  <2>6. k \in 1 .. n \/ k = n + 1
    BY <1>5
  <2> QED BY <2>4, <2>5, <2>6
<1>13. AllSettled(c)'
  <2>1. Ended(c)'
    <3>1. peerMax'[c] = peerMax[c]
      BY DEF Answer, At
    <3>2. File(c)' = File(c) /\ IsLast(c)' = IsLast(c)
      BY <1>1, <3>1 DEF File, IsLast, Take, Overhead, MaxPacket
    <3> QED BY <1>1, <3>2 DEF Ended
  <2>2. SUFFICES ASSUME NEW j \in 1 .. n + 1, kept'[c][j].index = index[c]
                 PROVE  Settled(c, j)'
    BY <1>1, <1>5 DEF AllSettled
  <2>3. CASE j \in 1 .. n
    BY <1>1, <1>5, <1>10, <1>11, <2>2, <2>3 DEF Settled
  <2>4. CASE j = n + 1
    BY <1>1, <1>4, <1>5, <2>1, <2>4 DEF Settled
  <2>5. j \in 1 .. n \/ j = n + 1
    BY <1>5
  <2> QED BY <2>3, <2>4, <2>5
<1> QED BY <1>6, <1>7, <1>8, <1>9, <1>12, <1>13 DEF Fine, Explained

(* An upload stays fine as the peer answers. *)
LEMMA AnswerFine ==
  ASSUME TypeOK, NEW c \in Call, Fine(c), Answer(c) PROVE Fine(c)'
<1>0. Small
  BY TypeParts
<1>1. /\ wire[c] = "asked" /\ pc[c] \in Exchange
      /\ UNCHANGED <<pc, index, attempt, verdict, receipts, offset, late, result>>
  BY DEF Answer, upload, Fine, InStep
<1>2. File(c)' = File(c)
  BY <1>1 DEF File
<1>3. ASSUME kept' = kept PROVE Quiet(c)
  BY <1>1, <1>3 DEF Quiet
<1>4. ASSUME UNCHANGED <<got, kept, peerMax>>, wire'[c] \in {"refusal", "broken"}
      PROVE  Fine(c)'
  <2>1. InStep(c)'
    BY <1>1, <1>2, <1>4, PlacesAre DEF Fine, InStep, Exchange
  <2>2. (Landed(c)' => Landed(c)) /\ (Ended(c) => Ended(c)')
    BY <1>1, <1>4 DEF Landed, Ended
  <2> QED BY <1>1, <1>3, <1>4, <2>1, <2>2, QuietFine
<1>5. ASSUME pc[c] = "hello", wire'[c] = "success", UNCHANGED <<got, kept>>,
             NEW m \in Announced, peerMax'[c] = Greater(m, Smallest)
      PROVE  Fine(c)'
  <2>1. peerMax'[c] >= Smallest
    BY <1>5, UploadAssumption DEF Greater, Smallest
  <2>2. InStep(c)'
    BY <1>1, <1>2, <1>5, <2>1, PlacesAre DEF Fine, InStep, Exchange
  <2>3. (Landed(c)' => Landed(c)) /\ (Ended(c) => Ended(c)')
    BY <1>1, <1>5 DEF Landed, Ended
  <2> QED BY <1>1, <1>3, <1>5, <2>2, <2>3, QuietFine
<1>6. ASSUME pc[c] = "put", ~IsLast(c), wire'[c] = "continue", got'[c] = got[c] + Take(c),
             UNCHANGED <<kept, peerMax>>
      PROVE  Fine(c)'
  <2>1. Take(c)' = Take(c) /\ IsLast(c)' = IsLast(c)
    BY <1>1, <1>2, <1>6 DEF IsLast, Take, Overhead, MaxPacket
  <2>2. InStep(c)'
    BY <1>1, <1>2, <1>6, <2>1, PlacesAre DEF Fine, InStep, Exchange
  <2>3. (Landed(c)' => Landed(c)) /\ (Ended(c) => Ended(c)')
    BY <1>1, <1>6 DEF Landed, Ended
  <2> QED BY <1>1, <1>3, <1>6, <2>2, <2>3, QuietFine
<1>7. ASSUME pc[c] = "bye", wire'[c] = "success", UNCHANGED <<got, kept, peerMax>>
      PROVE  Fine(c)'
  <2>1. InStep(c)'
    BY <1>1, <1>2, <1>7, PlacesAre DEF Fine, InStep, Exchange
  <2>2. (Landed(c)' => Landed(c)) /\ (Ended(c) => Ended(c)')
    BY <1>1, <1>7 DEF Landed, Ended
  <2> QED BY <1>1, <1>3, <1>7, <2>1, <2>2, QuietFine
<1>8. \/ UNCHANGED <<got, kept, peerMax>> /\ wire'[c] \in {"refusal", "broken"}
      \/ /\ pc[c] = "hello" /\ wire'[c] = "success" /\ UNCHANGED <<got, kept>>
         /\ \E m \in Announced : peerMax'[c] = Greater(m, Smallest)
      \/ /\ pc[c] = "put" /\ ~IsLast(c) /\ wire'[c] = "continue"
         /\ got'[c] = got[c] + Take(c) /\ UNCHANGED <<kept, peerMax>>
      \/ /\ pc[c] = "put" /\ IsLast(c)
         /\ wire'[c] \in {"success", "continue", "refusal", "broken"}
         /\ kept' = [kept EXCEPT ![c] =
                       Append(@, Copy(c))]
      \/ pc[c] = "bye" /\ wire'[c] = "success" /\ UNCHANGED <<got, kept, peerMax>>
  BY <1>0 DEF Answer, At, Small
<1> QED BY <1>1, <1>4, <1>5, <1>6, <1>7, <1>8, AcceptFine

(* An upload stays fine as an attempt ends, to be retried or not. *)
LEMMA ConcludeFine ==
  ASSUME TypeOK, NEW c \in Call, Fine(c), Conclude(c) PROVE Fine(c)'
<1>0. Small /\ Logs
  BY TypeParts
<1>1. /\ pc[c] = "close" /\ wire[c] = "quiet" /\ index[c] \in 1 .. Len(Files[c])
      /\ UNCHANGED <<wire, kept, late, result>>
      /\ verdict[c] # "ok" /\ Len(receipts[c]) = index[c] - 1
  BY PlacesAre DEF Conclude, At, Fine, InStep, Receipted, Exchange, peer
<1>2. /\ index[c] \in Nat /\ Len(Files[c]) \in Nat
  <2>1. Files[c] \in Seq([units : Nat, size : Nat])
    BY UploadAssumption
  <2> QED BY <1>0, <2>1 DEF Small
<1>3. /\ \A i : Has(c, i)' = Has(c, i)
      /\ \A j : Again(c, j)' = Again(c, j)
      /\ Ordered(c)'
  BY <1>1 DEF Has, Again, Fine, Explained, Ordered
<1>4. CASE result[c] = "ok"
  <2>1. /\ receipts'[c] = Append(receipts[c], Receipt(c))
        /\ \/ /\ index[c] < Len(Files[c]) /\ index'[c] = index[c] + 1
              /\ pc'[c] = "start" /\ verdict'[c] = verdict[c]
           \/ /\ ~(index[c] < Len(Files[c])) /\ index'[c] = index[c]
              /\ pc'[c] = "leave" /\ verdict'[c] = "ok"
    BY <1>0, <1>4 DEF Conclude, Goto, Small, Logs
  <2>2. Has(c, index[c])
    BY <1>1, <1>4 DEF Fine, Landed
  <2>3. /\ Len(receipts'[c]) = index[c]
        /\ \A i \in 1 .. index[c] : receipts'[c][i].index = i /\ Has(c, i)
    <3>1. Receipt(c).index = index[c] /\ receipts[c] \in Seq(Receipts)
      BY <1>0 DEF Receipt, Logs
    <3>2. /\ Len(receipts'[c]) = index[c] /\ receipts'[c][index[c]] = Receipt(c)
          /\ \A i \in 1 .. index[c] - 1 : receipts'[c][i] = receipts[c][i]
      BY <1>1, <1>2, <2>1, <3>1
    <3>3. \A i \in 1 .. index[c] - 1 : receipts[c][i].index = i /\ Has(c, i)
      BY <1>1 DEF Fine, Receipted
    <3>4. \A i \in 1 .. index[c] : i = index[c] \/ i \in 1 .. index[c] - 1
      BY <1>2
    <3> QED BY <2>2, <3>1, <3>2, <3>3, <3>4
  <2>4. Receipted(c)'
    BY <1>1, <1>2, <1>3, <2>1, <2>3, PlacesAre DEF Receipted
  <2>5. Whole(c)'
    <3>1. index'[c] \in Nat /\ index[c] <= index'[c]
      BY <1>2, <2>1
    <3> QED BY <1>1, <1>2, <3>1 DEF Fine, Whole
  <2>6. InStep(c)'
    BY <1>1, <1>2, <2>1, PlacesAre DEF InStep, Exchange
  <2>7. pc'[c] = "start" => \A j \in 1 .. Len(kept[c]) : kept[c][j].index # index'[c]
    BY <1>2, <2>1 DEF Fine, Whole
  <2>8. AllSettled(c)' /\ ~Landed(c)'
    BY <1>1, <2>1, <2>7 DEF AllSettled, Settled, Landed
  <2> QED BY <1>3, <2>4, <2>5, <2>6, <2>8 DEF Fine, Explained
<1>5. CASE result[c] # "ok"
  <2>1. /\ receipts'[c] = receipts[c] /\ index'[c] = index[c]
        /\ \/ /\ MayRetry(c) /\ pc'[c] = "start" /\ verdict'[c] = verdict[c]
              /\ attempt'[c] = attempt[c] + 1
           \/ ~MayRetry(c) /\ pc'[c] = "leave" /\ verdict'[c] = result[c]
    BY <1>0, <1>5 DEF Conclude, Goto, Small, Failure, NextAttempt
  <2>2. Receipted(c)'
    BY <1>1, <1>3, <1>5, <2>1, PlacesAre DEF Fine, Receipted
  <2>3. Whole(c)'
    BY <1>1, <2>1 DEF Fine, Whole
  <2>4. InStep(c)'
    BY <1>1, <1>2, <2>1, PlacesAre DEF InStep, Exchange
  <2>5. ASSUME MayRetry(c), NEW j \in 1 .. Len(kept[c]), kept[c][j].index = index[c]
        PROVE  kept[c][j].attempt < attempt[c] + 1 /\ Again(c, j)
    <3>1. attempt[c] \in Nat \ {0} /\ Retries[c] \in Nat /\ attempt[c] <= Retries[c]
      BY <1>0, <2>5, UploadAssumption DEF MayRetry, Small
    <3>2. Ended(c) => <<index[c], attempt[c]>> \in late[c]
      BY <1>1, <2>5 DEF MayRetry, Ended
    <3>3. \/ kept[c][j].attempt < attempt[c] /\ Again(c, j)
          \/ kept[c][j].attempt = attempt[c] /\ Ended(c)
      BY <1>1, <2>5 DEF Fine, Explained, AllSettled, Settled
    <3>4. kept[c][j].attempt \in Nat
      <4>1. kept[c] \in Seq(Objects)
        BY <1>0 DEF Logs
      <4>2. kept[c][j] \in Objects
        BY <4>1, Element
      <4> QED BY <4>2 DEF Objects
    <3> QED BY <2>5, <3>1, <3>2, <3>3, <3>4 DEF Again
  <2>6. AllSettled(c)' /\ ~Landed(c)'
    BY <1>1, <1>3, <2>1, <2>5 DEF AllSettled, Settled, Landed
  <2> QED BY <1>3, <2>2, <2>3, <2>4, <2>6 DEF Fine, Explained
<1> QED BY <1>4, <1>5

(* Every step keeps each upload fine. *)
LEMMA FineStep ==
  ASSUME TypeOK, \A c \in Call : Fine(c), [Next]_vars, NEW c \in Call PROVE Fine(c)'
<1>1. CASE UNCHANGED vars
  <2>1. Same(c)
    BY <1>1 DEF vars, upload, client, peer, Same
  <2> QED BY <2>1, SameFine
<1>2. ASSUME NEW d \in Call, Moves(d) \/ Answer(d) PROVE Fine(c)'
  <2>1. CASE c # d
    BY <1>2, <2>1, OthersSame, SameFine
  <2>2. CASE c = d
    BY <1>2, <2>2, ConnectFine, LeaveFine, StartFine, OpenFine, AskFine, FailsFine,
       AcknowledgedFine, ConcludeFine, AnswerFine DEF Moves
  <2> QED BY <2>1, <2>2
<1> QED BY <1>1, <1>2 DEF Next

-----------------------------------------------------------------------------
(* Whose name the bar shows. *)

(* An object the peer has it keeps. *)
LEMMA HasStays ==
  ASSUME TypeOK, \A c \in Call : Fine(c), [Next]_vars, NEW c \in Call, NEW i \in Nat, Has(c, i)
  PROVE  Has(c, i)'
<1>0. Logs
  BY TypeParts
<1>1. CASE kept' = kept
  BY <1>1 DEF Has
<1>2. ASSUME NEW d \in Call, pc[d] = "put",
             kept' = [kept EXCEPT ![d] =
                        Append(@, Copy(d))]
      PROVE  Has(c, i)'
  <2>1. CASE c # d
    BY <1>0, <1>2, <2>1 DEF Has, Logs
  <2>2. CASE c = d
    <3>1. kept[c] \in Seq(Objects)
      BY <1>0 DEF Logs
    <3>2. kept'[c] = Append(kept[c], Copy(d))
      BY <1>0, <1>2, <2>2 DEF Logs
    <3>3. \A j \in 1 .. Len(kept[c]) : j \in 1 .. Len(kept'[c]) /\ kept'[c][j] = kept[c][j]
      BY <3>1, <3>2
    <3> QED BY <3>3 DEF Has
  <2> QED BY <2>1, <2>2
<1> QED BY <1>1, <1>2, LogsGrow

(* Every step keeps the bar at the one upload under way. *)
LEMMA NamedStep ==
  ASSUME TypeOK, \A c \in Call : Fine(c), Named, [Next]_vars PROVE Named'
<1> SUFFICES ASSUME overlap' = "no"
             PROVE  /\ \A c, d \in Call : pc'[c] \in Pushing /\ pc'[d] \in Pushing => c = d
                    /\ \A c \in Call : pc'[c] \in Pushing => shown'.object = <<c, index'[c]>>
                    /\ shown'.done = "yes" =>
                         \E c \in Call, i \in Nat : shown'.object = <<c, i>> /\ Has(c, i)'
  BY DEF Named
<1>0. Small
  BY TypeParts
<1>1. overlap = "no"
  BY DEF Next, Moves, vars, Connect, Start, Open, Ask, WriteFails, ReadFails, Refused, Abort,
         Acknowledged, Conclude, Leave, Answer
<1>2. /\ \A c, d \in Call : pc[c] \in Pushing /\ pc[d] \in Pushing => c = d
      /\ \A c \in Call : pc[c] \in Pushing => shown.object = <<c, index[c]>>
      /\ shown.done = "yes" =>
           \E c \in Call, i \in Nat : shown.object = <<c, i>> /\ Has(c, i)'
  BY <1>1, HasStays DEF Named
<1> DEFINE
  Goal == /\ \A c, d \in Call : pc'[c] \in Pushing /\ pc'[d] \in Pushing => c = d
          /\ \A c \in Call : pc'[c] \in Pushing => shown'.object = <<c, index'[c]>>
          /\ shown'.done = "yes" =>
               \E c \in Call, i \in Nat : shown'.object = <<c, i>> /\ Has(c, i)'
  Still(d) == /\ pc'[d] \in Pushing => pc[d] \in Pushing
              /\ \A c \in Call \ {d} : pc'[c] = pc[c]
              /\ \A c \in Call : pc'[c] \in Pushing => index'[c] = index[c]
<1>3. ASSUME NEW d \in Call, Still(d), shown'.object = shown.object,
             shown'.done = "yes" => shown.done = "yes"
      PROVE  Goal
  BY <1>2, <1>3
<1>u. CASE UNCHANGED vars
  <2>1. UNCHANGED <<pc, index, shown>>
    BY <1>u DEF vars, upload
  <2> QED BY <1>2, <2>1
<1>4. ASSUME NEW d \in Call, Connect(d) \/ Leave(d) PROVE Goal
  <2>1. Still(d) /\ shown' = shown
    BY <1>0, <1>4, PlacesAre DEF Connect, Leave, Goto, Small
  <2> QED BY <1>3, <2>1
<1>5. ASSUME NEW d \in Call, Start(d) PROVE Goal
  <2>1. /\ shown'.object = <<d, index[d]>> /\ shown'.done = "no"
        /\ pc' = [pc EXCEPT ![d] = "open"] /\ index' = index
        /\ \A c \in Call \ {d} : pc[c] \notin Pushing
    BY <1>5 DEF Start, Show, Goto
  <2> QED BY <1>0, <2>1 DEF Small
<1>6. ASSUME NEW d \in Call, Open(d) \/ Ask(d) \/ Answer(d) PROVE Goal
  <2>1. Still(d) /\ shown' = shown
    BY <1>0, <1>6, PlacesAre DEF Open, Ask, Answer, upload, Goto, At, Small
  <2> QED BY <1>3, <2>1
<1>7. ASSUME NEW d \in Call, WriteFails(d) \/ ReadFails(d) \/ Refused(d) PROVE Goal
  <2>1. Still(d) /\ shown' = shown
    BY <1>0, <1>7, PlacesAre DEF WriteFails, ReadFails, Refused, Abort, Exchange, Goto, Small
  <2> QED BY <1>3, <2>1
<1>8. ASSUME NEW d \in Call, Acknowledged(d) PROVE Goal
  <2>1. Still(d)
    BY <1>0, <1>8, PlacesAre DEF Acknowledged, Exchange, Goto, Small
  <2>2. shown' = shown \/ (shown'.object = shown.object /\ shown'.done = "no")
    BY <1>8 DEF Acknowledged, Show
  <2> QED BY <1>3, <2>1, <2>2
<1>9. ASSUME NEW d \in Call, Conclude(d) PROVE Goal
  <2>1. /\ pc[d] = "close" /\ pc'[d] \in {"start", "leave"}
        /\ \A c \in Call \ {d} : pc'[c] = pc[c] /\ index'[c] = index[c]
    BY <1>0, <1>9 DEF Conclude, At, Goto, Small
  <2>2. pc'[d] \notin Pushing /\ pc[d] \in Pushing
    BY <2>1, PlacesAre
  <2>3. shown'.done = "yes" /\ shown' # shown => shown'.object = shown.object /\ result[d] = "ok"
    BY <1>9 DEF Conclude, Show
  <2>4. CASE shown' = shown
    <3>1. Still(d)
      BY <2>1, <2>2
    <3> QED BY <1>3, <2>4, <3>1
  <2>5. CASE shown' # shown
    <3>1. shown'.object = shown.object /\ result[d] = "ok"
      BY <1>9, <2>5 DEF Conclude, Show
    <3>2. Has(d, index[d]) /\ shown.object = <<d, index[d]>> /\ index[d] \in Nat
      BY <1>0, <1>2, <2>1, <2>2, <3>1 DEF Fine, Landed, Small
    <3>3. PICK i \in Nat : i = index[d]
      BY <3>2
    <3>4. Has(d, i)'
      BY <3>2, <3>3, HasStays
    <3>5. \E c \in Call, m \in Nat : shown'.object = <<c, m>> /\ Has(c, m)'
      BY <3>1, <3>2, <3>3, <3>4
    <3>6. \A c, e \in Call : pc'[c] \in Pushing /\ pc'[e] \in Pushing => c = e
      BY <1>2, <2>1, <2>2
    <3>7. \A c \in Call : pc'[c] \in Pushing => shown'.object = <<c, index'[c]>>
      BY <1>2, <2>1, <2>2, <3>1
    <3> QED BY <3>5, <3>6, <3>7
  <2> QED BY <2>4, <2>5
<1> QED BY <1>4, <1>5, <1>6, <1>7, <1>8, <1>9, <1>u DEF Next, Moves

-----------------------------------------------------------------------------
(* The theorems. *)

(* The invariant holds at the start. *)
LEMMA InitHolds == Init => IInv
<1> SUFFICES ASSUME Init PROVE IInv
  OBVIOUS
<1>1. Named
  BY PlacesAre DEF Init, Named
<1>2. ASSUME NEW c \in Call PROVE Fine(c)
  <2>1. /\ pc[c] = "connect" /\ index[c] = 1 /\ wire[c] = "quiet" /\ result[c] = "none"
        /\ receipts[c] = <<>> /\ kept[c] = <<>> /\ verdict[c] = "none"
        /\ Len(kept[c]) = 0 /\ Len(receipts[c]) = 0
    BY DEF Init
  <2>2. AllSettled(c)
    BY <2>1 DEF AllSettled
  <2>3. InStep(c)
    BY <2>1, PlacesAre DEF InStep, Exchange
  <2>4. Whole(c) /\ Receipted(c) /\ Ordered(c) /\ ~Landed(c)
    BY <2>1 DEF Whole, Receipted, Ordered, Landed
  <2> QED BY <2>2, <2>3, <2>4 DEF Fine, Explained
<1> QED BY <1>1, <1>2, InitType DEF IInv

(* Every step keeps the invariant. *)
LEMMA StepHolds == IInv /\ [Next]_vars => IInv'
<1> SUFFICES ASSUME IInv, [Next]_vars PROVE IInv'
  OBVIOUS
<1>1. TypeOK'
  BY TypeStep DEF IInv, Fine
<1>2. \A c \in Call : Fine(c)'
  BY FineStep DEF IInv
<1>3. Named'
  BY NamedStep DEF IInv
<1> QED BY <1>1, <1>2, <1>3 DEF IInv

(* Every variable keeps its type. *)
THEOREM TypeCorrect == Spec => []TypeOK
<1>1. IInv => TypeOK
  BY DEF IInv
<1> QED BY <1>1, InitHolds, StepHolds, PTL DEF Spec

(* Success means that every file was delivered, and whatever was delivered *)
(* is whole, through any refusals, losses and retries.                     *)
THEOREM DeliveryCorrect == Spec => []SuccessIsDelivery
<1>1. IInv => SuccessIsDelivery
  <2> SUFFICES ASSUME IInv, NEW c \in Call
               PROVE  /\ verdict[c] = "ok" =>
                           /\ Len(receipts[c]) = Len(Files[c])
                           /\ \A i \in 1 .. Len(Files[c]) :
                                receipts[c][i].index = i /\ Copies(c, i) # {}
                      /\ \A j \in 1 .. Len(kept[c]) :
                           kept[c][j].bytes = Files[c][kept[c][j].index].size
    BY DEF SuccessIsDelivery
  <2>1. \A i : Has(c, i) => Copies(c, i) # {}
    BY DEF Has, Copies
  <2>2. Receipted(c) /\ Whole(c)
    BY DEF IInv, Fine
  <2> QED BY <2>1, <2>2 DEF Receipted, Whole
<1> QED BY <1>1, InitHolds, StepHolds, PTL DEF Spec

(* Only an attempt rejected once the peer had the object is repeated with  *)
(* it there, and nothing is sent past a file that failed.                  *)
THEOREM CopiesCorrect == Spec => []CopiesExplained
<1>1. ASSUME IInv PROVE CopiesExplained
  <2> SUFFICES ASSUME NEW c \in Call
               PROVE  /\ \A k \in 1 .. Len(kept[c]) : kept[c][k].index <= Len(receipts[c]) + 1
                      /\ Ordered(c)
    BY DEF CopiesExplained, Ordered, Again
  <2>1. Whole(c) /\ Receipted(c) /\ Ordered(c) /\ Logs /\ Small
    BY <1>1, TypeParts DEF IInv, Fine, Explained
  <2>2. index[c] \in Nat /\ Len(receipts[c]) \in Nat /\ index[c] <= Len(receipts[c]) + 1
    BY <2>1 DEF Receipted, Logs, Small
  <2>3. \A k \in 1 .. Len(kept[c]) : kept[c][k].index \in 1 .. index[c]
    BY <2>1 DEF Whole
  <2> QED BY <2>1, <2>2, <2>3
<1> QED BY <1>1, InitHolds, StepHolds, PTL DEF Spec

(* Only a first packet whose name leaves no room exceeds what was agreed.  *)
THEOREM PacketsCorrect == Spec => []PacketsFit
<1>1. IInv => PacketsFit
  <2> SUFFICES ASSUME IInv, NEW c \in Call, pc[c] = "put"
               PROVE  \/ PacketLength(c) <= MaxPacket(c)
                      \/ offset[c] = 0 /\ Take(c) <= 1 /\ Overhead(c) >= MaxPacket(c)
    BY DEF PacketsFit, At
  <2>1. /\ TypeOK /\ index[c] \in 1 .. Len(Files[c]) /\ offset[c] <= File(c).size
        /\ peerMax[c] >= Smallest
    BY PlacesAre DEF IInv, Fine, InStep
  <2>2. Take(c) \in Nat /\ MaxPacket(c) \in Nat /\ Overhead(c) \in Nat /\ File(c).size \in Nat
        /\ offset[c] \in Nat
    BY <2>1, TakeFacts, FileFacts
  <2>3. MaxPacket(c) >= 255
    BY <2>1 DEF MaxPacket, Lesser, OurMax, Smallest, TypeOK
  <2>4. offset[c] # 0 => Overhead(c) = 6
    BY DEF Overhead
  <2>5. Take(c) <= Greater(MaxPacket(c) - Overhead(c), 1)
    <3>1. ASSUME NEW m \in Int, NEW n \in Int PROVE Lesser(m, n) <= n
      BY <3>1 DEF Lesser
    <3>2. File(c).size - offset[c] \in Int /\ Greater(MaxPacket(c) - Overhead(c), 1) \in Int
      BY <2>2 DEF Greater
    <3> QED BY <3>1, <3>2 DEF Take
  <2>6. CASE MaxPacket(c) - Overhead(c) >= 1
    BY <2>2, <2>5, <2>6 DEF Greater, PacketLength
  <2>7. CASE ~(MaxPacket(c) - Overhead(c) >= 1)
    BY <2>2, <2>3, <2>4, <2>5, <2>7 DEF Greater
  <2> QED BY <2>6, <2>7
<1> QED BY <1>1, InitHolds, StepHolds, PTL DEF Spec

(* Uploads that never overlap are never shown as done before they are.     *)
THEOREM DoneCorrect == Spec => []DoneIsDone
<1>1. IInv => DoneIsDone
  <2> SUFFICES ASSUME IInv, overlap = "no", shown.done = "yes"
               PROVE  Copies(shown.object[1], shown.object[2]) # {}
    BY DEF DoneIsDone
  <2>1. PICK c \in Call, i \in Nat : shown.object = <<c, i>> /\ Has(c, i)
    BY DEF IInv, Named
  <2>2. Copies(c, i) # {}
    BY <2>1 DEF Has, Copies
  <2> QED BY <2>1, <2>2
<1> QED BY <1>1, InitHolds, StepHolds, PTL DEF Spec

-----------------------------------------------------------------------------
(* Loops.  A fold of the model is a recursive function, which is a CHOOSE:  *)
(* that there is one, and what it computes, is shown by induction on a set *)
(* of numbers (the library's induction takes an operator).                 *)

(* A set of natural numbers that is not empty has a least one. *)
LEMMA Least ==
  ASSUME NEW S, S \subseteq Nat, S # {}
  PROVE \E n \in S : \A m \in S : n <= m
<1> DEFINE R == {p \in Nat \X Nat : p[1] < p[2]}
<1>1. OpToRel(<, Nat) = R
  BY DEF OpToRel
<1>2. IsWellFoundedOn(R, Nat)
  BY <1>1, NatLessThanWellFounded, Zenon
<1>3. PICK n \in S : \A m \in S : ~ (<<m, n>> \in R)
  BY <1>2, WFMin, Zenon
<1>4. ASSUME NEW m \in S PROVE n <= m
  <2>1. n \in Nat /\ m \in Nat
    OBVIOUS
  <2>2. ~ (m < n)
    BY <1>3, <2>1
  <2> HIDE DEF R
  <2> QED BY <2>1, <2>2
<1> QED BY <1>4

(* A set that holds 0, and n + 1 if it holds n, holds every number. *)
LEMMA Induction ==
  ASSUME NEW T, 0 \in T, \A n \in Nat : n \in T => n + 1 \in T
  PROVE  Nat \subseteq T
<1> DEFINE S == {n \in Nat : n \notin T}
<1>1. SUFFICES ASSUME S # {} PROVE FALSE
  OBVIOUS
<1>2. PICK n \in S : \A m \in S : n <= m
  BY <1>1, Least, Zenon
<1>3. n \in Nat /\ n # 0 /\ n \notin T
  OBVIOUS
<1>4. n - 1 \in Nat /\ n - 1 \notin S
  BY <1>2, <1>3
<1> QED BY <1>3, <1>4

(* What a loop of N rounds that begins with a and takes step in each goes  *)
(* through.                                                                *)
Runs(N, A, a, step) ==
  {g \in [0 .. N -> A] : /\ g[0] = a
                         /\ \A n \in 1 .. N : g[n] = step[<<g[n - 1], n>>]}

(* There is such a run. *)
LEMMA Loop ==
  ASSUME NEW N \in Nat, NEW A, NEW a \in A, NEW step \in [A \X (1 .. N) -> A]
  PROVE  Runs(N, A, a, step) # {}
<1> DEFINE Run(k, g) == /\ g \in [0 .. k -> A]
                        /\ g[0] = a
                        /\ \A n \in 1 .. k : g[n] = step[<<g[n - 1], n>>]
           T == {k \in Nat : k <= N => \E g : Run(k, g)}
<1>1. 0 \in T
  <2>1. Run(0, [n \in 0 .. 0 |-> a])
    OBVIOUS
  <2> QED BY <2>1
<1>2. ASSUME NEW k \in Nat, k \in T PROVE k + 1 \in T
  <2>1. SUFFICES ASSUME k + 1 <= N PROVE \E g : Run(k + 1, g)
    OBVIOUS
  <2>2. PICK g : Run(k, g)
    BY <1>2, <2>1
  <2> DEFINE next == step[<<g[k], k + 1>>]
             h == [n \in 0 .. k + 1 |-> IF n = k + 1 THEN next ELSE g[n]]
  <2>3. next \in A
    BY <2>1, <2>2
  <2>4. h \in [0 .. k + 1 -> A] /\ h[0] = a
    <3> HIDE DEF next
    <3> QED BY <2>2, <2>3
  <2>5. ASSUME NEW n \in 1 .. k + 1 PROVE h[n] = step[<<h[n - 1], n>>]
    <3>1. n - 1 \in 0 .. k /\ h[n - 1] = g[n - 1]
      OBVIOUS
    <3>2. CASE n = k + 1
      <4>1. h[n] = next /\ n - 1 = k
        BY <3>2
      <4>2. h[n - 1] = g[k]
        BY <3>1, <4>1
      <4> HIDE DEF h
      <4> QED BY <3>2, <4>1, <4>2
    <3>3. CASE n # k + 1
      <4>1. n \in 1 .. k /\ h[n] = g[n]
        BY <3>3
      <4> QED BY <2>2, <3>1, <4>1
    <3> QED BY <3>2, <3>3
  <2>6. Run(k + 1, h)
    BY <2>4, <2>5
  <2> QED BY <2>6
<1>3. Nat \subseteq T
  <2> HIDE DEF T
  <2> QED BY <1>1, <1>2, Induction
<1>4. N \in T
  <2> HIDE DEF T
  <2> QED BY <1>3
<1>5. \E g : Run(N, g)
  BY <1>4
<1> QED BY <1>5 DEF Runs

(* What the first value has, and each hands on, all have. *)
LEMMA Along ==
  ASSUME NEW N \in Nat, NEW A, NEW h, h[0] \in A,
         \A n \in 1 .. N : h[n - 1] \in A => h[n] \in A
  PROVE  \A n \in 0 .. N : h[n] \in A
<1> DEFINE T == {n \in Nat : n <= N => h[n] \in A}
<1>1. 0 \in T
  OBVIOUS
<1>2. ASSUME NEW n \in Nat, n \in T PROVE n + 1 \in T
  <2> SUFFICES ASSUME n + 1 <= N PROVE h[n + 1] \in A
    OBVIOUS
  <2>1. n + 1 \in 1 .. N /\ (n + 1) - 1 = n /\ h[n] \in A
    BY <1>2
  <2> QED BY <2>1
<1>3. Nat \subseteq T
  <2> HIDE DEF T
  <2> QED BY <1>1, <1>2, Induction
<1> QED BY <1>3

-----------------------------------------------------------------------------
(* Metrics. *)

Event ==
  [seq : Nat, at : Nat, local : {Controller[b] : b \in Backend},
   spec : {<<"5.2", "BR/EDR">>}, standards : Spec802,
   peer : {h.peer : h \in Happening}, kind : {h.kind : h \in Happening}, bytes : Nat]

Metrics ==
  [events : Nat, bytes : Nat, failures : Nat, warnings : Nat,
   first_at : Nat \cup {Never}, last_at : Nat \cup {Never}]

(* Recording one more event in a summary gives a summary. *)
LEMMA RecordType ==
  ASSUME NEW m \in Metrics, NEW e \in Event
  PROVE  record(m, e) \in Metrics /\ NoMetrics \in Metrics
  BY DEF record, payload_bytes, is_failure, Metrics, Event, NoMetrics, Never

(* The summaries of the beginnings of a log. *)
Totals(s) ==
  CHOOSE m : m = [n \in 0 .. Len(s) |-> IF n = 0 THEN NoMetrics ELSE record(m[n - 1], s[n])]

(* from_events goes through them. *)
LEMMA TotalsAre ==
  ASSUME NEW s \in Seq(Event)
  PROVE  /\ from_events(s) = Totals(s)[Len(s)]
         /\ Totals(s) \in [0 .. Len(s) -> Metrics]
         /\ Totals(s)[0] = NoMetrics
         /\ \A n \in 1 .. Len(s) : Totals(s)[n] = record(Totals(s)[n - 1], s[n])
<1> DEFINE N == Len(s)
           step == [p \in Metrics \X (1 .. N) |-> record(p[1], s[p[2]])]
<1>1. from_events(s) = Totals(s)[N]
  BY DEF from_events, Totals
<1>2. N \in Nat /\ \A n \in 1 .. N : s[n] \in Event
  OBVIOUS
<1>3. step \in [Metrics \X (1 .. N) -> Metrics]
  <2> SUFFICES ASSUME NEW p \in Metrics \X (1 .. N) PROVE record(p[1], s[p[2]]) \in Metrics
    OBVIOUS
  <2>1. p[1] \in Metrics /\ s[p[2]] \in Event
    BY <1>2
  <2> QED BY <2>1, RecordType
<1>4. NoMetrics \in Metrics
  BY DEF Metrics, NoMetrics, Never
<1> HIDE DEF N
<1>5. Runs(N, Metrics, NoMetrics, step) # {}
  <2> HIDE DEF step
  <2>1. N \in Nat
    BY <1>2
  <2> QED BY <2>1, <1>3, <1>4, Loop, Zenon
<1>6. PICK g \in [0 .. N -> Metrics] :
        g[0] = NoMetrics /\ \A n \in 1 .. N : g[n] = step[<<g[n - 1], n>>]
  BY <1>5 DEF Runs
<1>7. \A n \in 1 .. N : g[n] = record(g[n - 1], s[n])
  BY <1>2, <1>6
<1>8. g = [n \in 0 .. N |-> IF n = 0 THEN NoMetrics ELSE record(g[n - 1], s[n])]
  BY <1>2, <1>6, <1>7
<1>9. Totals(s) = [n \in 0 .. N |-> IF n = 0 THEN NoMetrics ELSE record(Totals(s)[n - 1], s[n])]
  BY <1>8 DEF Totals, N
<1> DEFINE total == Totals(s)
<1>10. /\ total = [n \in 0 .. N |-> total[n]]
       /\ total[0] = NoMetrics
       /\ \A n \in 1 .. N : total[n] = record(total[n - 1], s[n])
  <2> HIDE DEF total
  <2>1. total = [n \in 0 .. N |-> IF n = 0 THEN NoMetrics ELSE record(total[n - 1], s[n])]
    BY <1>9 DEF total
  <2> QED BY <1>2, <2>1
<1>11. \A n \in 0 .. N : total[n] \in Metrics
  <2> HIDE DEF total
  <2>1. total[0] \in Metrics
    BY <1>4, <1>10
  <2>2. ASSUME NEW n \in 1 .. N, total[n - 1] \in Metrics PROVE total[n] \in Metrics
    BY <1>2, <1>10, <2>2, RecordType
  <2>3. N \in Nat
    BY <1>2
  <2> QED BY <2>1, <2>2, <2>3, Along, Zenon
<1> QED
  <2> HIDE DEF total
  <2>1. total \in [0 .. N -> Metrics]
    BY <1>10, <1>11
  <2> QED BY <1>1, <1>10, <2>1 DEF total, N

-----------------------------------------------------------------------------
(* Sums. *)

(* The element of s that a sum takes next. *)
Chosen(s) == CHOOSE x \in s : TRUE

(* What the sum of f over S adds up on its way, for each subset of S. *)
Sums(f, S) ==
  CHOOSE it : it = [s \in SUBSET S |->
                      IF s = {} THEN 0 ELSE f[Chosen(s)] + it[s \ {Chosen(s)}]]

(* A finite set and the rest of it: what a sum takes, and what it leaves. *)
LEMMA Rest ==
  ASSUME NEW S, IsFiniteSet(S), NEW s \in SUBSET S
  PROVE  /\ IsFiniteSet(s) /\ Cardinality(s) \in Nat /\ Cardinality(s) <= Cardinality(S)
         /\ s # {} => Chosen(s) \in s
         /\ \A k \in s : s \ {k} \in SUBSET S /\ Cardinality(s \ {k}) = Cardinality(s) - 1
         /\ Cardinality(s) = 0 <=> s = {}
<1>1. IsFiniteSet(s) /\ Cardinality(s) <= Cardinality(S)
  BY FS_Subset
<1>2. Cardinality(s) \in Nat
  BY <1>1, FS_CardinalityType
<1>3. s # {} => Chosen(s) \in s
  BY DEF Chosen
<1>4. ASSUME NEW k \in s PROVE s \ {k} \in SUBSET S /\ Cardinality(s \ {k}) = Cardinality(s) - 1
  BY <1>1, FS_RemoveElement
<1>5. Cardinality(s) = 0 <=> s = {}
  BY <1>1, FS_EmptySet
<1> QED BY <1>1, <1>2, <1>3, <1>4, <1>5

(* A sum of numbers over a finite set goes through numbers, and comes to   *)
(* the last of them.                                                       *)
LEMMA SumsAre ==
  ASSUME NEW S, IsFiniteSet(S), NEW f \in [S -> Nat]
  PROVE  /\ SumFunction(f) = Sums(f, S)[S]
         /\ \A s \in SUBSET S :
              Sums(f, S)[s] = IF s = {} THEN 0 ELSE f[Chosen(s)] + Sums(f, S)[s \ {Chosen(s)}]
<1> DEFINE N == Cardinality(S) + 1
           A == [SUBSET S -> Nat]
           better(h) == [s \in SUBSET S |-> IF s = {} THEN 0 ELSE f[Chosen(s)] + h[s \ {Chosen(s)}]]
           step == [p \in A \X (1 .. N) |-> better(p[1])]
           zero == [s \in SUBSET S |-> 0]
<1>1. SumFunction(f) = Sums(f, S)[S]
  BY DEF SumFunction, SumFunctionOnSet, FoldFunctionOnSet, MapThenFoldSet, Sums, Chosen
<1>2. N \in Nat /\ N > 0
  BY FS_CardinalityType
<1>3. ASSUME NEW h \in A PROVE better(h) \in A
  <2> SUFFICES ASSUME NEW s \in SUBSET S, s # {}
               PROVE  f[Chosen(s)] + h[s \ {Chosen(s)}] \in Nat
    OBVIOUS
  <2>1. Chosen(s) \in S /\ s \ {Chosen(s)} \in SUBSET S
    BY Rest
  <2> QED BY <2>1
<1>4. step \in [A \X (1 .. N) -> A]
  <2> HIDE DEF better, A
  <2> QED BY <1>3
<1>5. zero \in A
  OBVIOUS
<1>6. Runs(N, A, zero, step) # {}
  <2> HIDE DEF A, step, zero, N
  <2>1. N \in Nat
    BY <1>2
  <2> QED BY <2>1, <1>4, <1>5, Loop, Zenon
<1>7. PICK g \in [0 .. N -> A] : g[0] = zero /\ \A n \in 1 .. N : g[n] = step[<<g[n - 1], n>>]
  <2> HIDE DEF A, step, zero, N
  <2> QED BY <1>6 DEF Runs
<1>8. ASSUME NEW n \in 1 .. N PROVE n - 1 \in 0 .. N /\ g[n - 1] \in A /\ g[n] = better(g[n - 1])
  <2> HIDE DEF better, A, N
  <2>1. n - 1 \in 0 .. N
    BY <1>2
  <2>2. g[n - 1] \in A
    BY <2>1, <1>7
  <2> QED BY <1>7, <2>1, <2>2
<1> DEFINE T == {n \in Nat : n + 1 <= N =>
                   \A s \in SUBSET S : Cardinality(s) <= n => g[n + 1][s] = g[n][s]}
<1>9. 0 \in T
  <2> SUFFICES ASSUME NEW s \in SUBSET S, Cardinality(s) <= 0 PROVE g[1][s] = g[0][s]
    BY <1>2
  <2>1. s = {}
    BY Rest
  <2>2. g[1] = better(g[0])
    <3> HIDE DEF better, N
    <3>1. 1 \in 1 .. N /\ 1 - 1 = 0
      BY <1>2
    <3>2. g[1] = better(g[1 - 1])
      BY <3>1, <1>8, Zenon
    <3> QED BY <3>1, <3>2
  <2> QED BY <2>1, <2>2, <1>7
<1>10. ASSUME NEW n \in Nat, n \in T PROVE n + 1 \in T
  <2> SUFFICES ASSUME n + 2 <= N, NEW s \in SUBSET S, Cardinality(s) <= n + 1
               PROVE  g[n + 2][s] = g[n + 1][s]
    BY <1>2
  <2>1. g[n + 2] = better(g[n + 1]) /\ g[n + 1] = better(g[n])
    <3>1. n + 2 \in 1 .. N /\ n + 1 \in 1 .. N /\ (n + 2) - 1 = n + 1 /\ (n + 1) - 1 = n
      BY <1>2
    <3> HIDE DEF better, N
    <3>2. g[n + 2] = better(g[(n + 2) - 1]) /\ g[n + 1] = better(g[(n + 1) - 1])
      BY <3>1, <1>8, Zenon
    <3> QED BY <3>1, <3>2
  <2>2. CASE s = {}
    BY <2>1, <2>2
  <2>3. CASE s # {}
    <3> DEFINE r == s \ {Chosen(s)}
    <3> DEFINE x == Chosen(s)
    <3>1. r \in SUBSET S /\ Cardinality(r) <= n
      <4>1. x \in s
        BY <2>3, Rest
      <4> HIDE DEF x
      <4>2. s \ {x} \in SUBSET S /\ Cardinality(s \ {x}) = Cardinality(s) - 1 /\ Cardinality(s) \in Nat
        BY <4>1, Rest
      <4>3. Cardinality(s \ {x}) <= n
        BY <4>2
      <4> QED BY <4>2, <4>3 DEF x
    <3>2. n + 1 <= N
      BY <1>2
    <3>3. g[n + 1][r] = g[n][r]
      BY <1>10, <3>1, <3>2
    <3>4. g[n + 2][s] = f[Chosen(s)] + g[n + 1][r] /\ g[n + 1][s] = f[Chosen(s)] + g[n][r]
      BY <2>1, <2>3
    <3> QED BY <3>3, <3>4
  <2> QED BY <2>2, <2>3
<1>11. Nat \subseteq T
  <2> HIDE DEF T
  <2> QED BY <1>9, <1>10, Induction
<1> DEFINE last == g[N - 1]
<1>12. last \in A /\ g[N] = better(last) /\ g[N] \in A
  <2>1. N \in 1 .. N /\ N \in 0 .. N
    BY <1>2
  <2> HIDE DEF N, A, better
  <2> QED BY <2>1, <1>7, <1>8
<1>13. ASSUME NEW s \in SUBSET S PROVE g[N][s] = last[s]
  <2>1. N - 1 \in Nat /\ (N - 1) + 1 <= N /\ Cardinality(s) <= N - 1 /\ (N - 1) + 1 = N
    BY <1>2, Rest
  <2>2. N - 1 \in T
    BY <1>11, <2>1
  <2> HIDE DEF N
  <2> QED BY <2>1, <2>2
<1>14. last = better(last)
  <2> HIDE DEF better, last, N
  <2> QED BY <1>12, <1>13
<1>15. last = [s \in SUBSET S |-> IF s = {} THEN 0 ELSE f[Chosen(s)] + last[s \ {Chosen(s)}]]
  <2> HIDE DEF last
  <2> QED BY <1>14
<1>16. Sums(f, S) =
         [s \in SUBSET S |->
            IF s = {} THEN 0 ELSE f[Chosen(s)] + Sums(f, S)[s \ {Chosen(s)}]]
  <2> HIDE DEF last
  <2> QED BY <1>15 DEF Sums
<1>17. \A s \in SUBSET S :
         Sums(f, S)[s] = IF s = {} THEN 0 ELSE f[Chosen(s)] + Sums(f, S)[s \ {Chosen(s)}]
  <2> DEFINE it == Sums(f, S)
  <2> HIDE DEF it
  <2>1. it = [s \in SUBSET S |-> IF s = {} THEN 0 ELSE f[Chosen(s)] + it[s \ {Chosen(s)}]]
    BY <1>16 DEF it
  <2>2. \A s \in SUBSET S : it[s] = IF s = {} THEN 0 ELSE f[Chosen(s)] + it[s \ {Chosen(s)}]
    BY <2>1
  <2> QED BY <2>2 DEF it
<1> QED BY <1>1, <1>17

(* Each sum is a number. *)
LEMMA SumsType ==
  ASSUME NEW S, IsFiniteSet(S), NEW f \in [S -> Nat]
  PROVE  \A s \in SUBSET S : Sums(f, S)[s] \in Nat
<1> DEFINE it == Sums(f, S)
           T == {n \in Nat : \A s \in SUBSET S : Cardinality(s) = n => it[s] \in Nat}
<1>1. \A s \in SUBSET S : it[s] = IF s = {} THEN 0 ELSE f[Chosen(s)] + it[s \ {Chosen(s)}]
  BY SumsAre
<1> HIDE DEF it
<1>2. 0 \in T
  <2> SUFFICES ASSUME NEW s \in SUBSET S, Cardinality(s) = 0 PROVE it[s] \in Nat
    OBVIOUS
  <2>1. s = {}
    BY Rest
  <2>2. it[s] = 0
    BY <1>1, <2>1, Zenon
  <2> QED BY <2>2
<1>3. ASSUME NEW n \in Nat, n \in T PROVE n + 1 \in T
  <2> SUFFICES ASSUME NEW s \in SUBSET S, Cardinality(s) = n + 1 PROVE it[s] \in Nat
    OBVIOUS
  <2> DEFINE x == Chosen(s)
  <2>1. s # {}
    BY Rest
  <2>2. x \in s
    BY <2>1, Rest
  <2>3. it[s] = f[x] + it[s \ {x}]
    BY <1>1, <2>1
  <2> HIDE DEF x
  <2>4. s \ {x} \in SUBSET S /\ Cardinality(s \ {x}) = n
    BY <2>2, Rest
  <2> QED BY <1>3, <2>2, <2>3, <2>4
<1>4. Nat \subseteq T
  <2> HIDE DEF T
  <2> QED BY <1>2, <1>3, Induction
<1> QED BY <1>4, Rest DEF it

(* Any element may be taken first. *)
LEMMA SumsRemove ==
  ASSUME NEW S, IsFiniteSet(S), NEW f \in [S -> Nat]
  PROVE  \A s \in SUBSET S : \A k \in s : Sums(f, S)[s] = f[k] + Sums(f, S)[s \ {k}]
<1> DEFINE it == Sums(f, S)
           T == {n \in Nat : \A s \in SUBSET S : Cardinality(s) = n =>
                               \A k \in s : it[s] = f[k] + it[s \ {k}]}
<1>1. \A s \in SUBSET S : it[s] = IF s = {} THEN 0 ELSE f[Chosen(s)] + it[s \ {Chosen(s)}]
  BY SumsAre
<1>2. \A s \in SUBSET S : it[s] \in Nat
  BY SumsType
<1> HIDE DEF it
<1>3. 0 \in T
  BY Rest
<1>4. ASSUME NEW n \in Nat, n \in T PROVE n + 1 \in T
  <2> SUFFICES ASSUME NEW s \in SUBSET S, Cardinality(s) = n + 1, NEW k \in s
               PROVE  it[s] = f[k] + it[s \ {k}]
    OBVIOUS
  <2> DEFINE x == Chosen(s)
  <2>1. s # {} /\ x \in s
    BY Rest
  <2>2. it[s] = f[x] + it[s \ {x}]
    BY <1>1, <2>1
  <2> HIDE DEF x
  <2>3. CASE x = k
    BY <2>2, <2>3
  <2>4. CASE x # k
    <3>1. /\ s \ {x} \in SUBSET S /\ Cardinality(s \ {x}) = n /\ k \in s \ {x}
          /\ s \ {k} \in SUBSET S /\ Cardinality(s \ {k}) = n /\ x \in s \ {k}
      BY <2>1, <2>4, Rest
    <3>2. it[s \ {x}] = f[k] + it[(s \ {x}) \ {k}] /\ it[s \ {k}] = f[x] + it[(s \ {k}) \ {x}]
      BY <1>4, <3>1
    <3>3. (s \ {x}) \ {k} = (s \ {k}) \ {x} /\ (s \ {k}) \ {x} \in SUBSET S
      OBVIOUS
    <3>4. it[(s \ {k}) \ {x}] \in Nat /\ f[x] \in Nat /\ f[k] \in Nat
      BY <1>2, <2>1, <3>3
    <3>5. it[s] = f[x] + (f[k] + it[(s \ {k}) \ {x}])
      BY <2>2, <3>2, <3>3
    <3>6. it[s \ {k}] = f[x] + it[(s \ {k}) \ {x}]
      BY <3>2
    <3> DEFINE c == it[(s \ {k}) \ {x}]
               d == it[s \ {k}]
               fx == f[x]
               fk == f[k]
    <3>7. c \in Nat /\ fx \in Nat /\ fk \in Nat /\ d = fx + c /\ it[s] = fx + (fk + c)
      BY <3>4, <3>5, <3>6
    <3> HIDE DEF c, d, fx, fk
    <3>8. it[s] = fk + d
      BY <3>7
    <3> QED BY <3>8 DEF fk, d
  <2> QED BY <2>3, <2>4
<1>5. Nat \subseteq T
  <2> HIDE DEF T
  <2> QED BY <1>3, <1>4, Induction
<1> QED BY <1>5, Rest DEF it

(* Where two functions agree, so do their sums. *)
LEMMA SumsAgree ==
  ASSUME NEW S, IsFiniteSet(S), NEW f \in [S -> Nat],
         NEW R, IsFiniteSet(R), NEW g \in [R -> Nat],
         NEW U \in SUBSET (S \cap R), \A l \in U : f[l] = g[l]
  PROVE  Sums(f, S)[U] = Sums(g, R)[U]
<1> DEFINE it == Sums(f, S)
           jt == Sums(g, R)
           T == {n \in Nat : \A s \in SUBSET U : Cardinality(s) = n => it[s] = jt[s]}
<1>a. \A s \in SUBSET S : it[s] = IF s = {} THEN 0 ELSE f[Chosen(s)] + it[s \ {Chosen(s)}]
  BY SumsAre
<1>b. \A s \in SUBSET R : jt[s] = IF s = {} THEN 0 ELSE g[Chosen(s)] + jt[s \ {Chosen(s)}]
  BY SumsAre
<1> HIDE DEF it, jt
<1>2. IsFiniteSet(U)
  BY FS_Subset
<1>3. 0 \in T
  <2> SUFFICES ASSUME NEW s \in SUBSET U, Cardinality(s) = 0 PROVE it[s] = jt[s]
    OBVIOUS
  <2>1. s = {}
    BY <1>2, Rest
  <2> QED BY <1>a, <1>b, <2>1
<1>4. ASSUME NEW n \in Nat, n \in T PROVE n + 1 \in T
  <2> SUFFICES ASSUME NEW s \in SUBSET U, Cardinality(s) = n + 1 PROVE it[s] = jt[s]
    OBVIOUS
  <2> DEFINE x == Chosen(s)
  <2>1. s # {} /\ x \in s
    BY <1>2, Rest
  <2>2. it[s] = f[x] + it[s \ {x}] /\ jt[s] = g[x] + jt[s \ {x}]
    BY <1>a, <1>b, <2>1
  <2> HIDE DEF x
  <2>3. s \ {x} \in SUBSET U /\ Cardinality(s \ {x}) = n
    <3>1. s \ {x} \in SUBSET U /\ Cardinality(s \ {x}) = Cardinality(s) - 1
      BY <1>2, <2>1, Rest
    <3> QED BY <3>1
  <2> QED BY <1>4, <2>1, <2>2, <2>3
<1>5. Nat \subseteq T
  <2> HIDE DEF T
  <2> QED BY <1>3, <1>4, Induction
<1>6. Cardinality(U) \in Nat
  BY <1>2, FS_CardinalityType
<1> QED BY <1>5, <1>6 DEF it, jt

(* Changing, or adding, one number changes the sum by as much. *)
LEMMA SumUpdate ==
  ASSUME NEW S, IsFiniteSet(S), NEW f \in [S -> Nat],
         NEW k, NEW g \in [S \cup {k} -> Nat], \A l \in S \ {k} : g[l] = f[l]
  PROVE  /\ SumFunction(f) \in Nat
         /\ SumFunction(g) + (IF k \in S THEN f[k] ELSE 0) = SumFunction(f) + g[k]
<1> DEFINE R == S \cup {k}
           U == S \ {k}
<1>1. IsFiniteSet(R)
  BY FS_AddElement
<1>2. SumFunction(f) = Sums(f, S)[S] /\ SumFunction(g) = Sums(g, R)[R]
  BY <1>1, SumsAre
<1>3. SumFunction(f) \in Nat
  BY <1>2, SumsType
<1>4. Sums(f, S)[U] = Sums(g, R)[U] /\ Sums(f, S)[U] \in Nat
  <2>1. U \in SUBSET (S \cap R) /\ U \in SUBSET S /\ \A l \in U : f[l] = g[l]
    OBVIOUS
  <2> HIDE DEF U, R
  <2>2. g \in [R -> Nat]
    BY DEF R
  <2> QED BY <1>1, <2>1, <2>2, SumsAgree, SumsType
<1>5. Sums(g, R)[R] = g[k] + Sums(g, R)[U]
  <2>1. R \in SUBSET R /\ k \in R /\ R \ {k} = U
    OBVIOUS
  <2>2. g \in [R -> Nat]
    OBVIOUS
  <2> HIDE DEF U, R
  <2> QED BY <1>1, <2>1, <2>2, SumsRemove
<1>6. CASE k \in S
  <2>1. Sums(f, S)[S] = f[k] + Sums(f, S)[U]
    BY <1>6, SumsRemove
  <2>2. f[k] \in Nat /\ g[k] \in Nat
    BY <1>6
  <2> HIDE DEF U, R
  <2> QED BY <1>2, <1>3, <1>4, <1>5, <1>6, <2>1, <2>2
<1>7. CASE k \notin S
  <2>1. U = S
    BY <1>7
  <2>2. g[k] \in Nat
    OBVIOUS
  <2> HIDE DEF U, R
  <2> QED BY <1>2, <1>3, <1>4, <1>5, <1>7, <2>1, <2>2
<1> QED BY <1>6, <1>7

-----------------------------------------------------------------------------
(* Buckets. *)

Counted == {"events", "bytes", "failures", "warnings"}

(* What an event adds to a count. *)
Adds(e, field) ==
  [events |-> 1, bytes |-> payload_bytes(e),
   failures |-> IF is_failure(e) THEN 1 ELSE 0,
   warnings |-> IF e.kind = "warning" THEN 1 ELSE 0][field]

(* record adds to every count what the event adds to it, whatever it was.  *)
LEMMA RecordAdds ==
  ASSUME NEW m \in Metrics, NEW e \in Event, NEW field \in Counted
  PROVE  /\ m[field] \in Nat /\ Adds(e, field) \in Nat /\ NoMetrics[field] = 0
         /\ record(m, e)[field] = m[field] + Adds(e, field)
<1>1. CASE field = "events"
  BY <1>1 DEF Adds, record, Metrics, Event, NoMetrics
<1>2. CASE field = "bytes"
  BY <1>2 DEF Adds, record, Metrics, Event, NoMetrics, payload_bytes
<1>3. CASE field = "failures"
  BY <1>3 DEF Adds, record, Metrics, Event, NoMetrics
<1>4. CASE field = "warnings"
  BY <1>4 DEF Adds, record, Metrics, Event, NoMetrics
<1> QED BY <1>1, <1>2, <1>3, <1>4 DEF Counted

(* The times of a bucket lie within those of the total. *)
Within(m, total) ==
  /\ m.first_at # Never /\ total.first_at # Never
  /\ total.first_at <= m.first_at /\ m.last_at <= total.last_at

(* A bucket that records an event stays within a total that does too; one  *)
(* that does not, too.                                                     *)
LEMMA RecordWithin ==
  ASSUME NEW total \in Metrics, NEW e \in Event, NEW m \in Metrics,
         m = NoMetrics \/ Within(m, total)
  PROVE  /\ Within(record(m, e), record(total, e))
         /\ Within(m, total) => Within(m, record(total, e))
  BY DEF Within, record, Metrics, Event, NoMetrics, Never

(* The buckets agree with a total. *)
Agree(buckets, total) ==
  /\ \A field \in Counted : Sum(buckets, field) = total[field]
  /\ \A k \in DOMAIN buckets : Within(buckets[k], total)

(* What the bucket k held before. *)
Was(buckets, k) == IF k \in DOMAIN buckets THEN buckets[k] ELSE NoMetrics

(* What RecordIn makes of the bucket k and of the others. *)
LEMMA RecordInIs ==
  ASSUME NEW K, NEW buckets \in [K -> Metrics], NEW k, NEW e \in Event
  PROVE  /\ Was(buckets, k) \in Metrics
         /\ RecordIn(buckets, k, e) \in [K \cup {k} -> Metrics]
         /\ RecordIn(buckets, k, e)[k] = record(Was(buckets, k), e)
         /\ \A l \in K \ {k} : RecordIn(buckets, k, e)[l] = buckets[l]
<1> DEFINE was == Was(buckets, k)
           new == RecordIn(buckets, k, e)
           now == record(was, e)
<1>1. NoMetrics \in Metrics
  BY DEF NoMetrics, Metrics, Never
<1>2. was \in Metrics
  <2>1. CASE k \in K
    BY <2>1 DEF Was
  <2>2. CASE k \notin K
    BY <1>1, <2>2 DEF Was
  <2> QED BY <2>1, <2>2
<1>3. new = [l \in K \cup {k} |-> IF l # k THEN buckets[l] ELSE now]
  <2>1. DOMAIN buckets = K
    OBVIOUS
  <2> QED BY <2>1 DEF RecordIn, Was
<1>4. now \in Metrics
  BY <1>2, RecordType
<1> HIDE DEF new, now, was
<1>5. new \in [K \cup {k} -> Metrics] /\ new[k] = now /\ \A l \in K \ {k} : new[l] = buckets[l]
  BY <1>3, <1>4
<1> QED BY <1>2, <1>5 DEF new, now, was

(* Buckets that agree with a total still do when both record an event.     *)
LEMMA RecordInAgrees ==
  ASSUME NEW K, IsFiniteSet(K), NEW buckets \in [K -> Metrics], NEW k, NEW e \in Event,
         NEW total \in Metrics, Agree(buckets, total)
  PROVE  Agree(RecordIn(buckets, k, e), record(total, e))
<1> DEFINE was == Was(buckets, k)
           new == RecordIn(buckets, k, e)
<1>1. /\ was \in Metrics /\ new \in [K \cup {k} -> Metrics] /\ new[k] = record(was, e)
      /\ \A l \in K \ {k} : new[l] = buckets[l]
  BY RecordInIs
<1>2. k \in K => was = buckets[k]
  BY DEF Was
<1>3. k \notin K => was = NoMetrics
  BY DEF Was
<1> HIDE DEF was, new
<1>4. ASSUME NEW field \in Counted PROVE Sum(new, field) = record(total, e)[field]
  <2> DEFINE f == [l \in K |-> buckets[l][field]]
             g == [l \in K \cup {k} |-> new[l][field]]
  <2>1. f \in [K -> Nat]
    BY RecordAdds
  <2>2. g \in [K \cup {k} -> Nat]
    BY <1>1, RecordAdds
  <2>3. \A l \in K \ {k} : g[l] = f[l]
    BY <1>1
  <2>4. Sum(buckets, field) = SumFunction(f) /\ Sum(new, field) = SumFunction(g)
    BY <1>1 DEF Sum
  <2>5. g[k] = was[field] + Adds(e, field) /\ was[field] \in Nat /\ Adds(e, field) \in Nat
    BY <1>1, RecordAdds
  <2>6. (IF k \in K THEN f[k] ELSE 0) = was[field]
    BY <1>2, <1>3, RecordAdds
  <2>7. SumFunction(f) \in Nat /\ SumFunction(g) + was[field] = SumFunction(f) + g[k]
    <3> DEFINE taken == IF k \in K THEN f[k] ELSE 0
    <3>1. SumFunction(f) \in Nat /\ SumFunction(g) + taken = SumFunction(f) + g[k]
      <4> HIDE DEF f, g
      <4> QED BY <2>1, <2>2, <2>3, SumUpdate DEF taken
    <3> QED BY <2>6, <3>1
  <2>8. SumFunction(g) \in Nat
    <3>1. IsFiniteSet(K \cup {k})
      BY FS_AddElement
    <3> HIDE DEF g
    <3> QED BY <2>2, <3>1, SumsAre, SumsType
  <2>9. SumFunction(f) = total[field] /\ record(total, e)[field] = total[field] + Adds(e, field)
        /\ total[field] \in Nat
    BY <2>4, RecordAdds DEF Agree
  <2> DEFINE sf == SumFunction(f)
             sg == SumFunction(g)
             gk == g[k]
             wf == was[field]
             ad == Adds(e, field)
             tf == total[field]
             rf == record(total, e)[field]
  <2>10. /\ sf \in Nat /\ sg \in Nat /\ wf \in Nat /\ ad \in Nat /\ sg + wf = sf + gk
         /\ gk = wf + ad /\ sf = tf /\ rf = tf + ad /\ tf \in Nat
    BY <2>5, <2>7, <2>8, <2>9
  <2>11. sg = rf
    <3> HIDE DEF sf, sg, gk, wf, ad, tf, rf
    <3> QED BY <2>10
  <2> QED BY <2>4, <2>11
<1>5. ASSUME NEW l \in DOMAIN new PROVE Within(new[l], record(total, e))
  <2>1. CASE l = k
    <3>1. was = NoMetrics \/ Within(was, total)
      BY <1>2, <1>3 DEF Agree
    <3> QED BY <1>1, <2>1, <3>1, RecordWithin
  <2>2. CASE l # k
    <3>1. l \in K /\ new[l] = buckets[l]
      BY <1>1, <2>2
    <3>2. Within(buckets[l], total) /\ buckets[l] \in Metrics
      BY <3>1 DEF Agree
    <3> QED BY <3>1, <3>2, RecordWithin
  <2> QED BY <2>1, <2>2
<1> QED BY <1>4, <1>5 DEF Agree, new

(* With nothing recorded they agree. *)
LEMMA NoBucketsAgree == Agree(NoBuckets, NoMetrics) /\ NoBuckets \in [{} -> Metrics]
<1>1. DOMAIN NoBuckets = {} /\ NoBuckets \in [{} -> Metrics]
  BY DEF NoBuckets
<1>2. ASSUME NEW field \in Counted PROVE Sum(NoBuckets, field) = NoMetrics[field]
  <2> DEFINE f == [k \in DOMAIN NoBuckets |-> NoBuckets[k][field]]
  <2>1. f \in [{} -> Nat]
    BY <1>1
  <2>2. SumFunction(f) = 0
    <3>1. IsFiniteSet({})
      BY FS_EmptySet
    <3> HIDE DEF f
    <3> QED BY <2>1, <3>1, SumsAre
  <2>3. NoMetrics[field] = 0
    BY DEF NoMetrics, Counted
  <2> QED BY <2>2, <2>3 DEF Sum
<1> QED BY <1>1, <1>2 DEF Agree

(* The buckets of the beginnings of a log. *)
Buckets(by, s) ==
  CHOOSE b : b = [n \in 0 .. Len(s) |->
                    IF n = 0 THEN NoBuckets ELSE RecordIn(b[n - 1], key(by, s[n]), s[n])]

(* breakdown goes through them. *)
LEMMA BucketsAre ==
  ASSUME NEW s \in Seq(Event), NEW by
  PROVE  /\ breakdown(by, s) = Buckets(by, s)[Len(s)]
         /\ Buckets(by, s)[0] = NoBuckets
         /\ \A n \in 1 .. Len(s) :
              Buckets(by, s)[n] = RecordIn(Buckets(by, s)[n - 1], key(by, s[n]), s[n])
<1> DEFINE N == Len(s)
           Keys == {key(by, s[i]) : i \in 1 .. N}
           A == UNION {[K -> Metrics] : K \in SUBSET Keys}
           step == [p \in A \X (1 .. N) |-> RecordIn(p[1], key(by, s[p[2]]), s[p[2]])]
<1>1. breakdown(by, s) = Buckets(by, s)[N]
  BY DEF breakdown, Buckets
<1>2. N \in Nat /\ \A n \in 1 .. N : s[n] \in Event
  OBVIOUS
<1>3. ASSUME NEW b \in A, NEW n \in 1 .. N PROVE RecordIn(b, key(by, s[n]), s[n]) \in A
  <2> DEFINE k == key(by, s[n])
  <2>1. PICK K \in SUBSET Keys : b \in [K -> Metrics]
    OBVIOUS
  <2>2. k \in Keys
    OBVIOUS
  <2>3. s[n] \in Event
    BY <1>2
  <2> HIDE DEF k, Keys, N
  <2>4. RecordIn(b, k, s[n]) \in [K \cup {k} -> Metrics]
    BY <2>1, <2>3, RecordInIs
  <2>5. K \cup {k} \in SUBSET Keys
    BY <2>1, <2>2
  <2> QED BY <2>4, <2>5 DEF k
<1>4. step \in [A \X (1 .. N) -> A]
  <2> HIDE DEF A, N
  <2> QED BY <1>3
<1>5. NoBuckets \in A
  BY NoBucketsAgree
<1> HIDE DEF N
<1>6. Runs(N, A, NoBuckets, step) # {}
  <2> HIDE DEF A, step
  <2>1. N \in Nat
    BY <1>2
  <2> QED BY <2>1, <1>4, <1>5, Loop, Zenon
<1>7. PICK g \in [0 .. N -> A] :
        g[0] = NoBuckets /\ \A n \in 1 .. N : g[n] = step[<<g[n - 1], n>>]
  <2> HIDE DEF A, step
  <2> QED BY <1>6 DEF Runs
<1>8. \A n \in 1 .. N : g[n] = RecordIn(g[n - 1], key(by, s[n]), s[n])
  <2> SUFFICES ASSUME NEW n \in 1 .. N PROVE g[n] = RecordIn(g[n - 1], key(by, s[n]), s[n])
    OBVIOUS
  <2> DEFINE p == <<g[n - 1], n>>
  <2> HIDE DEF A
  <2>1. g[n - 1] \in A
    BY <1>2
  <2>2. p \in A \X (1 .. N) /\ p[1] = g[n - 1] /\ p[2] = n
    BY <2>1
  <2>3. g[n] = step[p]
    BY <1>7
  <2> HIDE DEF p
  <2> QED BY <2>2, <2>3
<1>9. g = [n \in 0 .. N |->
            IF n = 0 THEN NoBuckets ELSE RecordIn(g[n - 1], key(by, s[n]), s[n])]
  <2> HIDE DEF A
  <2> QED BY <1>2, <1>7, <1>8
<1>10. Buckets(by, s) =
         [n \in 0 .. N |->
            IF n = 0 THEN NoBuckets
            ELSE RecordIn(Buckets(by, s)[n - 1], key(by, s[n]), s[n])]
  <2> HIDE DEF A
  <2> QED BY <1>9 DEF Buckets, N
<1> DEFINE table == Buckets(by, s)
<1>11. /\ table[0] = NoBuckets
       /\ \A n \in 1 .. N : table[n] = RecordIn(table[n - 1], key(by, s[n]), s[n])
  <2> HIDE DEF table
  <2>1. table = [n \in 0 .. N |->
                   IF n = 0 THEN NoBuckets ELSE RecordIn(table[n - 1], key(by, s[n]), s[n])]
    BY <1>10 DEF table
  <2> QED BY <1>2, <2>1
<1> QED BY <1>1, <1>11 DEF N

(* Along every dimension the buckets of a log agree with its total.        *)
LEMMA BreakdownAgrees ==
  ASSUME NEW s \in Seq(Event), NEW by
  PROVE  /\ Agree(breakdown(by, s), from_events(s))
         /\ \A k \in DOMAIN breakdown(by, s) : breakdown(by, s)[k] \in Metrics
         /\ from_events(s) \in Metrics /\ from_events(s).events = Len(s)
<1> DEFINE N == Len(s)
           table == Buckets(by, s)
           total == Totals(s)
           Fit(n) == /\ \E K : IsFiniteSet(K) /\ table[n] \in [K -> Metrics]
                     /\ Agree(table[n], total[n])
                     /\ total[n].events = n
           T == {n \in Nat : n <= N => Fit(n)}
<1>1. N \in Nat /\ \A n \in 1 .. N : s[n] \in Event
  OBVIOUS
<1>2. /\ breakdown(by, s) = table[N] /\ table[0] = NoBuckets
      /\ \A n \in 1 .. N : table[n] = RecordIn(table[n - 1], key(by, s[n]), s[n])
  BY BucketsAre
<1>3. from_events(s) = total[N] /\ total \in [0 .. N -> Metrics] /\ total[0] = NoMetrics
  BY TotalsAre
<1>4. \A n \in 1 .. N : total[n] = record(total[n - 1], s[n])
  BY TotalsAre
<1> HIDE DEF table, total, N
<1>5. 0 \in T
  <2>1. IsFiniteSet({}) /\ table[0] \in [{} -> Metrics]
    BY <1>2, NoBucketsAgree, FS_EmptySet
  <2>2. Agree(table[0], total[0]) /\ total[0].events = 0
    BY <1>2, <1>3, NoBucketsAgree DEF NoMetrics
  <2> QED BY <2>1, <2>2
<1>6. ASSUME NEW n \in Nat, n \in T PROVE n + 1 \in T
  <2> SUFFICES ASSUME n + 1 <= N PROVE Fit(n + 1)
    OBVIOUS
  <2> DEFINE e == s[n + 1]
             k == key(by, e)
  <2>1. Fit(n) /\ n \in 0 .. N /\ n + 1 \in 1 .. N /\ (n + 1) - 1 = n
    BY <1>1, <1>6
  <2>2. e \in Event
    BY <1>1, <2>1
  <2>3. table[n + 1] = RecordIn(table[n], k, e)
    BY <1>2, <2>1
  <2>4. total[n + 1] = record(total[n], e) /\ total[n] \in Metrics
    BY <1>3, <1>4, <2>1
  <2>5. PICK K : IsFiniteSet(K) /\ table[n] \in [K -> Metrics]
    BY <2>1
  <2>6. Agree(table[n], total[n]) /\ total[n].events = n
    BY <2>1
  <2> HIDE DEF k, e
  <2>7. table[n + 1] \in [K \cup {k} -> Metrics] /\ IsFiniteSet(K \cup {k})
    <3>1. RecordIn(table[n], k, e) \in [K \cup {k} -> Metrics]
      BY <2>2, <2>5, RecordInIs
    <3>2. IsFiniteSet(K \cup {k})
      BY <2>5, FS_AddElement
    <3> QED BY <2>3, <3>1, <3>2
  <2>8. Agree(table[n + 1], total[n + 1])
    BY <2>2, <2>3, <2>4, <2>5, <2>6, RecordInAgrees
  <2>9. total[n + 1].events = n + 1
    BY <2>4, <2>6 DEF record
  <2> QED BY <2>7, <2>8, <2>9
<1>7. Nat \subseteq T
  <2> HIDE DEF T
  <2> QED BY <1>5, <1>6, Induction
<1>8. Fit(N)
  BY <1>1, <1>7
<1>9. N \in 0 .. N
  BY <1>1
<1> QED BY <1>2, <1>3, <1>8, <1>9 DEF N

(* What lies within the total is no longer than it. *)
LEMMA SpanWithin ==
  ASSUME NEW m \in Metrics, NEW total \in Metrics, Within(m, total)
  PROVE  span(m) <= span(total)
  BY DEF span, saturating_since, Within, Metrics, Never

-----------------------------------------------------------------------------
(* Anomalies. *)

(* What is flagged of the beginnings of a log. *)
Flags(s) ==
  CHOOSE out : out = [n \in 0 .. Len(s) |->
                        IF n = 0 THEN <<>>
                        ELSE IF flagged(s[n]) THEN Append(out[n - 1], <<s[n].kind, s[n].seq>>)
                        ELSE out[n - 1]]

(* anomalies goes through it, and takes every failure and every warning.   *)
LEMMA AnomaliesAre ==
  ASSUME NEW s \in Seq(Event)
  PROVE  Len(anomalies(s)) = from_events(s).failures + from_events(s).warnings
<1> DEFINE N == Len(s)
           What == {<<s[i].kind, s[i].seq>> : i \in 1 .. N}
           A == Seq(What)
           more(o, n) == IF flagged(s[n]) THEN Append(o, <<s[n].kind, s[n].seq>>) ELSE o
           step == [p \in A \X (1 .. N) |-> more(p[1], p[2])]
           total == Totals(s)
           out == Flags(s)
<1>1. anomalies(s) = out[N]
  BY DEF anomalies, Flags
<1>2. N \in Nat /\ \A n \in 1 .. N : s[n] \in Event
  OBVIOUS
<1>3. ASSUME NEW o \in A, NEW n \in 1 .. N PROVE more(o, n) \in A
  <2>1. <<s[n].kind, s[n].seq>> \in What
    OBVIOUS
  <2> HIDE DEF What
  <2> QED BY <2>1
<1>4. step \in [A \X (1 .. N) -> A]
  <2> HIDE DEF A, N, more
  <2> QED BY <1>3
<1>5. <<>> \in A
  <2> HIDE DEF What
  <2> QED OBVIOUS
<1> HIDE DEF N
<1>6. Runs(N, A, <<>>, step) # {}
  <2> HIDE DEF A, step
  <2>1. N \in Nat
    BY <1>2
  <2> QED BY <2>1, <1>4, <1>5, Loop, Zenon
<1>7. PICK g \in [0 .. N -> A] : g[0] = <<>> /\ \A n \in 1 .. N : g[n] = step[<<g[n - 1], n>>]
  <2> HIDE DEF A, step
  <2> QED BY <1>6 DEF Runs
<1>8. \A n \in 1 .. N : g[n] = more(g[n - 1], n)
  <2> SUFFICES ASSUME NEW n \in 1 .. N PROVE g[n] = more(g[n - 1], n)
    OBVIOUS
  <2> DEFINE p == <<g[n - 1], n>>
  <2> HIDE DEF A, more
  <2>1. g[n - 1] \in A
    BY <1>2
  <2>2. p \in A \X (1 .. N) /\ p[1] = g[n - 1] /\ p[2] = n
    BY <2>1
  <2>3. g[n] = step[p]
    BY <1>7
  <2> HIDE DEF p
  <2> QED BY <2>2, <2>3
<1>9. g = [n \in 0 .. N |-> IF n = 0 THEN <<>> ELSE more(g[n - 1], n)]
  <2> HIDE DEF A, more
  <2> QED BY <1>2, <1>7, <1>8
<1>10. g = [n \in 0 .. N |->
             IF n = 0 THEN <<>>
             ELSE IF flagged(s[n]) THEN Append(g[n - 1], <<s[n].kind, s[n].seq>>)
             ELSE g[n - 1]]
  BY <1>9
<1>11. out = [n \in 0 .. N |->
               IF n = 0 THEN <<>>
               ELSE IF flagged(s[n]) THEN Append(out[n - 1], <<s[n].kind, s[n].seq>>)
               ELSE out[n - 1]]
  <2> HIDE DEF A
  <2> QED BY <1>10 DEF Flags, N
<1> HIDE DEF out
<1>12. out[0] = <<>> /\ \A n \in 1 .. N : out[n] = more(out[n - 1], n)
  <2>1. out = [n \in 0 .. N |-> IF n = 0 THEN <<>> ELSE more(out[n - 1], n)]
    BY <1>11
  <2> HIDE DEF more
  <2> QED BY <1>2, <2>1
<1>13. from_events(s) = total[N] /\ total \in [0 .. N -> Metrics] /\ total[0] = NoMetrics
  BY TotalsAre DEF N
<1>14. \A n \in 1 .. N : total[n] = record(total[n - 1], s[n])
  BY TotalsAre DEF N
<1> DEFINE Fit(n) == out[n] \in A /\ Len(out[n]) = total[n].failures + total[n].warnings
           T == {n \in Nat : n <= N => Fit(n)}
<1> HIDE DEF total
<1>15. 0 \in T
  <2> HIDE DEF A
  <2> QED BY <1>5, <1>12, <1>13 DEF NoMetrics
<1>16. ASSUME NEW n \in Nat, n \in T PROVE n + 1 \in T
  <2> SUFFICES ASSUME n + 1 <= N PROVE Fit(n + 1)
    OBVIOUS
  <2> DEFINE e == s[n + 1]
  <2>1. Fit(n) /\ n \in 0 .. N /\ n + 1 \in 1 .. N /\ (n + 1) - 1 = n
    BY <1>2, <1>16
  <2>2. e \in Event
    BY <1>2, <2>1
  <2>3. out[n + 1] = more(out[n], n + 1)
    <3> HIDE DEF more
    <3> QED BY <1>12, <2>1
  <2>4. total[n + 1] = record(total[n], e) /\ total[n] \in Metrics
    BY <1>13, <1>14, <2>1
  <2>5. out[n + 1] \in A
    <3> HIDE DEF A, more
    <3> QED BY <1>3, <2>1, <2>3
  <2>6. /\ Len(out[n]) = total[n].failures + total[n].warnings
        /\ total[n].failures \in Nat /\ total[n].warnings \in Nat
    BY <2>1, <2>4 DEF Metrics
  <2>7. /\ total[n + 1].failures = total[n].failures + (IF is_failure(e) THEN 1 ELSE 0)
        /\ total[n + 1].warnings = total[n].warnings + (IF e.kind = "warning" THEN 1 ELSE 0)
    BY <2>4 DEF record
  <2>8. Len(out[n + 1]) = Len(out[n]) + (IF flagged(e) THEN 1 ELSE 0)
    <3>1. out[n] \in Seq(What) /\ <<e.kind, e.seq>> \in What
      BY <2>1
    <3>2. out[n + 1] = IF flagged(e) THEN Append(out[n], <<e.kind, e.seq>>) ELSE out[n]
      BY <2>3
    <3> DEFINE was == out[n]
               now == out[n + 1]
               what == <<e.kind, e.seq>>
    <3>3. was \in Seq(What) /\ what \in What /\ now = IF flagged(e) THEN Append(was, what) ELSE was
      BY <3>1, <3>2
    <3> HIDE DEF What, e, was, now, what
    <3>4. CASE flagged(e)
      <4>1. now = Append(was, what)
        BY <3>3, <3>4
      <4>2. Len(now) = Len(was) + 1
        BY <3>3, <4>1
      <4> QED BY <3>4, <4>2 DEF was, now
    <3>5. CASE ~ flagged(e)
      <4>1. now = was /\ Len(was) \in Nat
        BY <3>3, <3>5
      <4> QED BY <3>5, <4>1 DEF was, now
    <3> QED BY <3>4, <3>5
  <2>9. (IF flagged(e) THEN 1 ELSE 0) = (IF is_failure(e) THEN 1 ELSE 0) + (IF e.kind = "warning" THEN 1 ELSE 0)
    <3> HIDE DEF e
    <3> QED BY DEF flagged, is_failure
  <2>10. Len(out[n + 1]) = total[n + 1].failures + total[n + 1].warnings
    <3> DEFINE a == IF is_failure(e) THEN 1 ELSE 0
               b == IF e.kind = "warning" THEN 1 ELSE 0
    <3>1. a \in Nat /\ b \in Nat
      OBVIOUS
    <3>2. /\ Len(out[n + 1]) = Len(out[n]) + (a + b)
          /\ total[n + 1].failures = total[n].failures + a /\ total[n + 1].warnings = total[n].warnings + b
      BY <2>7, <2>8, <2>9
    <3> HIDE DEF a, b
    <3> QED BY <2>6, <3>1, <3>2
  <2> HIDE DEF A
  <2> QED BY <2>5, <2>10
<1>17. Nat \subseteq T
  <2> HIDE DEF T
  <2> QED BY <1>15, <1>16, Induction
<1>18. Fit(N)
  <2> HIDE DEF A
  <2> QED BY <1>2, <1>17
<1> QED BY <1>1, <1>13, <1>18

-----------------------------------------------------------------------------
(* Sorting. *)

(* A log holds events, each with its number. *)
LEMMA LogIs ==
  ASSUME NEW s \in Seq(Event)
  PROVE  /\ Len(s) \in Nat /\ s \in [1 .. Len(s) -> Event]
         /\ \A n \in 1 .. Len(s) : s[n] \in Event /\ s[n].seq \in Nat
<1>1. Len(s) \in Nat /\ s \in [1 .. Len(s) -> Event]
  OBVIOUS
<1>2. \A e \in Event : e.seq \in Nat
  BY DEF Event
<1> QED BY <1>1, <1>2

(* The events up to the i-th in the order of their numbers. *)
UpTo(s, i) ==
  {j \in 1 .. Len(s) : s[j].seq < s[i].seq \/ (s[j].seq = s[i].seq /\ j <= i)}

(* They are finitely many, and among them the i-th; those up to an earlier *)
(* one are fewer.                                                          *)
LEMMA UpToIs ==
  ASSUME NEW s \in Seq(Event), NEW i \in 1 .. Len(s)
  PROVE  /\ i \in UpTo(s, i) /\ UpTo(s, i) \subseteq 1 .. Len(s)
         /\ IsFiniteSet(UpTo(s, i)) /\ Place(s, i) = Cardinality(UpTo(s, i))
         /\ Place(s, i) \in 1 .. Len(s)
<1> DEFINE N == Len(s)
<1>1. N \in Nat /\ \A n \in 1 .. N : s[n] \in Event /\ s[n].seq \in Nat
  BY LogIs
<1>2. i \in UpTo(s, i) /\ UpTo(s, i) \subseteq 1 .. N
  BY <1>1 DEF UpTo
<1>3. IsFiniteSet(1 .. N) /\ Cardinality(1 .. N) = N
  BY <1>1, FS_Interval
<1>4. IsFiniteSet(UpTo(s, i)) /\ Cardinality(UpTo(s, i)) <= N
  <2> HIDE DEF N
  <2> QED BY <1>2, <1>3, FS_Subset
<1>5. Cardinality(UpTo(s, i)) \in Nat /\ Cardinality(UpTo(s, i)) # 0
  BY <1>2, <1>4, FS_CardinalityType, FS_EmptySet
<1>6. Place(s, i) = Cardinality(UpTo(s, i))
  BY DEF Place, UpTo
<1>7. Place(s, i) \in 1 .. N
  <2> HIDE DEF N
  <2> QED BY <1>1, <1>4, <1>5, <1>6
<1> QED BY <1>2, <1>4, <1>6, <1>7

(* No two events have one place. *)
LEMMA PlaceInjective ==
  ASSUME NEW s \in Seq(Event), NEW i \in 1 .. Len(s), NEW k \in 1 .. Len(s), i # k
  PROVE  Place(s, i) # Place(s, k)
<1>1. ASSUME NEW a \in 1 .. Len(s), NEW b \in 1 .. Len(s), a # b,
             s[a].seq < s[b].seq \/ (s[a].seq = s[b].seq /\ a <= b)
      PROVE  Place(s, a) # Place(s, b)
  <2>1. \A n \in 1 .. Len(s) : s[n].seq \in Nat
    BY LogIs
  <2>2. b \notin UpTo(s, a)
    BY <1>1, <2>1 DEF UpTo
  <2>3. UpTo(s, a) \subseteq UpTo(s, b)
    BY <1>1, <2>1 DEF UpTo
  <2>4. b \in UpTo(s, b) /\ IsFiniteSet(UpTo(s, b))
    BY UpToIs
  <2>5. Cardinality(UpTo(s, a)) # Cardinality(UpTo(s, b))
    BY <2>2, <2>3, <2>4, FS_Subset
  <2> QED BY <2>5, UpToIs
<1>2. s[i].seq \in Nat /\ s[k].seq \in Nat
  BY LogIs
<1>3. \/ s[i].seq < s[k].seq \/ (s[i].seq = s[k].seq /\ i <= k)
      \/ s[k].seq < s[i].seq \/ (s[k].seq = s[i].seq /\ k <= i)
  BY <1>2
<1> QED BY <1>1, <1>3

(* Every place has its event. *)
LEMMA PlaceSurjective ==
  ASSUME NEW s \in Seq(Event), NEW n \in 1 .. Len(s)
  PROVE  \E i \in 1 .. Len(s) : Place(s, i) = n
<1> DEFINE D == 1 .. Len(s)
           f == [i \in D |-> Place(s, i)]
<1>1. f \in [D -> D]
  BY UpToIs
<1>2. \A i, k \in D : f[i] = f[k] => i = k
  BY PlaceInjective
<1>3. f \in Injection(D, D)
  <2> HIDE DEF D, f
  <2> QED BY <1>1, <1>2 DEF Injection, IsInjective
<1>4. IsFiniteSet(D)
  BY FS_Interval
<1>5. f \in Surjection(D, D)
  <2> HIDE DEF D, f
  <2> QED BY <1>3, <1>4, FS_Injection
<1>6. \E i \in D : f[i] = n
  <2> HIDE DEF f
  <2> QED BY <1>5 DEF Surjection
<1> QED BY <1>6

(* The event that is n-th in order. *)
NthOf(s, n) == CHOOSE i \in 1 .. Len(s) : Place(s, i) = n

(* A log in order holds as many events, the n-th where NthOf says. *)
LEMMA SortedIs ==
  ASSUME NEW s \in Seq(Event)
  PROVE  /\ \A n \in 1 .. Len(s) : NthOf(s, n) \in 1 .. Len(s) /\ Place(s, NthOf(s, n)) = n
         /\ SortedBySeq(s) = [n \in 1 .. Len(s) |-> s[NthOf(s, n)]]
         /\ SortedBySeq(s) \in Seq(Event) /\ Len(SortedBySeq(s)) = Len(s)
<1> DEFINE N == Len(s)
           q == [n \in 1 .. N |-> s[NthOf(s, n)]]
<1>1. \A n \in 1 .. N : NthOf(s, n) \in 1 .. N /\ Place(s, NthOf(s, n)) = n
  BY PlaceSurjective DEF NthOf
<1>2. N \in Nat /\ \A n \in 1 .. N : s[n] \in Event
  OBVIOUS
<1>3. q \in [1 .. N -> Event]
  BY <1>1, <1>2
<1>4. q \in Seq(Event) /\ Len(q) = N
  <2> HIDE DEF q, N
  <2> QED BY <1>2, <1>3
<1>5. SortedBySeq(s) = q \o <<>>
  BY DEF SortedBySeq, NthOf
<1>6. q \o <<>> = q
  <2> HIDE DEF q, N
  <2> QED BY <1>4
<1> QED BY <1>1, <1>4, <1>5, <1>6

(* Two neighbours with different numbers may change places. *)
LEMMA SwapSorts ==
  ASSUME NEW log \in Seq(Event), NEW i \in 1 .. Len(log) - 1, log[i].seq # log[i + 1].seq
  PROVE  LET other == [log EXCEPT ![i] = log[i + 1], ![i + 1] = log[i]]
         IN  /\ other \in Seq(Event)
             /\ SortedBySeq(other) = SortedBySeq(log)
<1> DEFINE N == Len(log)
           other == [log EXCEPT ![i] = log[i + 1], ![i + 1] = log[i]]
           swap == [j \in 1 .. N |-> IF j = i THEN i + 1 ELSE IF j = i + 1 THEN i ELSE j]
<1>1. /\ N \in Nat /\ i \in 1 .. N /\ i + 1 \in 1 .. N
      /\ log \in [1 .. N -> Event] /\ \A j \in 1 .. N : log[j].seq \in Nat
  BY LogIs
<1>2. other \in [1 .. N -> Event]
  <2> HIDE DEF N
  <2> QED BY <1>1
<1>3. other \in Seq(Event) /\ Len(other) = N
  <2> HIDE DEF N, other
  <2> QED BY <1>1, <1>2
<1>4. \A j \in 1 .. N : swap[j] \in 1 .. N /\ swap[swap[j]] = j /\ other[j] = log[swap[j]]
  <2> HIDE DEF N
  <2> QED BY <1>1
<1>5. ASSUME NEW j \in 1 .. N, NEW l \in 1 .. N, log[swap[j]].seq = log[swap[l]].seq
      PROVE  l <= j <=> swap[l] <= swap[j]
  <2> HIDE DEF N
  <2> QED BY <1>1, <1>5
<1> HIDE DEF N, other, swap
<1>6. ASSUME NEW j \in 1 .. N PROVE Place(other, j) = Place(log, swap[j])
  <2> DEFINE S == UpTo(other, j)
             R == UpTo(log, swap[j])
             f == [l \in S |-> swap[l]]
  <2>1. S = {l \in 1 .. N : log[swap[l]].seq < log[swap[j]].seq
                            \/ (log[swap[l]].seq = log[swap[j]].seq /\ l <= j)}
    BY <1>3, <1>4 DEF UpTo
  <2>2. S = {l \in 1 .. N : log[swap[l]].seq < log[swap[j]].seq
                            \/ (log[swap[l]].seq = log[swap[j]].seq /\ swap[l] <= swap[j])}
    BY <1>5, <2>1
  <2>3. R = {l \in 1 .. N : log[l].seq < log[swap[j]].seq
                            \/ (log[l].seq = log[swap[j]].seq /\ l <= swap[j])}
    BY DEF UpTo, N
  <2>4. \A l \in 1 .. N : l \in S <=> swap[l] \in R
    BY <1>4, <2>2, <2>3
  <2>5. S \subseteq 1 .. N /\ R \subseteq 1 .. N
    BY <2>2, <2>3
  <2>6. IsFiniteSet(S) /\ Place(other, j) = Cardinality(S)
    BY <1>3, UpToIs
  <2>7. Place(log, swap[j]) = Cardinality(R)
    BY <1>4, UpToIs DEF N
  <2> HIDE DEF S, R
  <2>8. f \in [S -> R] /\ \A a, b \in S : f[a] = f[b] => a = b
    <3>1. f \in [S -> R]
      BY <1>4, <2>4, <2>5
    <3>2. ASSUME NEW a \in S, NEW b \in S, f[a] = f[b] PROVE a = b
      <4>1. swap[swap[a]] = a /\ swap[swap[b]] = b
        BY <1>4, <2>5
      <4> QED BY <3>2, <4>1
    <3> QED BY <3>1, <3>2
  <2>9. \A l \in R : \E a \in S : f[a] = l
    BY <1>4, <2>4, <2>5
  <2>10. f \in Bijection(S, R)
    <3> HIDE DEF f
    <3> QED BY <2>8, <2>9 DEF Bijection, Injection, Surjection, IsInjective
  <2>11. Cardinality(S) = Cardinality(R)
    BY <2>6, <2>10, FS_Bijection DEF ExistsBijection
  <2> QED BY <2>6, <2>7, <2>11
<1>7. ASSUME NEW n \in 1 .. N PROVE other[NthOf(other, n)] = log[NthOf(log, n)]
  <2> DEFINE j == NthOf(other, n)
             k == NthOf(log, n)
  <2>1. j \in 1 .. N /\ Place(other, j) = n
    BY <1>3, SortedIs
  <2>2. k \in 1 .. N /\ Place(log, k) = n
    BY SortedIs DEF N
  <2> HIDE DEF j, k
  <2>3. swap[j] \in 1 .. N /\ Place(log, swap[j]) = n /\ other[j] = log[swap[j]]
    BY <1>4, <1>6, <2>1
  <2>4. swap[j] = k
    BY <2>2, <2>3, PlaceInjective DEF N
  <2> QED BY <2>3, <2>4 DEF j, k
<1>8. SortedBySeq(other) = SortedBySeq(log)
  <2>1. SortedBySeq(other) = [n \in 1 .. N |-> other[NthOf(other, n)]]
    BY <1>3, SortedIs
  <2>2. SortedBySeq(log) = [n \in 1 .. N |-> log[NthOf(log, n)]]
    BY SortedIs DEF N
  <2> QED BY <1>7, <2>1, <2>2
<1> QED BY <1>3, <1>8 DEF other

-----------------------------------------------------------------------------
(* Batches. *)

(* Flattening one batch more appends it. *)
LEMMA Flatten ==
  ASSUME NEW E, NEW seqs \in Seq(Seq(E)), NEW more \in Seq(E)
  PROVE  /\ FlattenSeq(seqs) \in Seq(E)
         /\ FlattenSeq(Append(seqs, more)) = FlattenSeq(seqs) \o more
<1> DEFINE A == Seq(E)
           flat(q) == CHOOSE h : h = [i \in 1 .. Len(q) |-> IF i = 1 THEN q[i] ELSE h[i - 1] \o q[i]]
<1>1. ASSUME NEW q \in Seq(A)
      PROVE  /\ \A i \in 1 .. Len(q) : /\ flat(q)[i] = IF i = 1 THEN q[i] ELSE flat(q)[i - 1] \o q[i]
                                       /\ flat(q)[i] \in A
  <2> DEFINE N == Len(q)
             step == [p \in A \X (1 .. N) |-> p[1] \o q[p[2]]]
  <2>1. N \in Nat /\ \A i \in 1 .. N : q[i] \in A
    OBVIOUS
  <2> HIDE DEF N
  <2>2. step \in [A \X (1 .. N) -> A]
    <3> SUFFICES ASSUME NEW p \in A \X (1 .. N) PROVE p[1] \o q[p[2]] \in A
      OBVIOUS
    <3>1. p[1] \in Seq(E) /\ q[p[2]] \in Seq(E)
      BY <2>1
    <3> QED BY <3>1
  <2>3. <<>> \in A
    OBVIOUS
  <2>4. Runs(N, A, <<>>, step) # {}
    <3> HIDE DEF A, step
    <3>1. N \in Nat
      BY <2>1
    <3> QED BY <3>1, <2>2, <2>3, Loop, Zenon
  <2>5. PICK g \in [0 .. N -> A] : g[0] = <<>> /\ \A n \in 1 .. N : g[n] = step[<<g[n - 1], n>>]
    <3> HIDE DEF A, step
    <3> QED BY <2>4 DEF Runs
  <2>6. ASSUME NEW n \in 1 .. N PROVE g[n] = g[n - 1] \o q[n] /\ g[n - 1] \in A /\ g[n] \in A
    <3> DEFINE p == <<g[n - 1], n>>
    <3> HIDE DEF A
    <3>1. g[n - 1] \in A /\ g[n] \in A
      BY <2>1
    <3>2. p \in A \X (1 .. N) /\ p[1] = g[n - 1] /\ p[2] = n
      BY <3>1
    <3>3. g[n] = step[p]
      BY <2>5
    <3> HIDE DEF p
    <3> QED BY <3>1, <3>2, <3>3
  <2> DEFINE h == [i \in 1 .. N |-> g[i]]
  <2>7. \A i \in 1 .. N : h[i] = IF i = 1 THEN q[i] ELSE h[i - 1] \o q[i]
    <3> SUFFICES ASSUME NEW i \in 1 .. N PROVE g[i] = IF i = 1 THEN q[i] ELSE h[i - 1] \o q[i]
      OBVIOUS
    <3>1. CASE i = 1
      <4>1. g[i] = g[i - 1] \o q[i] /\ i - 1 = 0 /\ q[i] \in A
        <5>1. g[i] = g[i - 1] \o q[i]
          <6> HIDE DEF A
          <6> QED BY <2>6
        <5>2. q[i] \in A
          <6> HIDE DEF A
          <6> QED BY <2>1
        <5>3. i - 1 = 0
          BY <3>1
        <5> QED BY <5>1, <5>2, <5>3
      <4>2. g[i] = <<>> \o q[i]
        <5> HIDE DEF A
        <5> QED BY <2>5, <4>1
      <4>3. <<>> \o q[i] = q[i]
        BY <4>1
      <4> QED BY <3>1, <4>2, <4>3
    <3>2. CASE i # 1
      <4>1. i - 1 \in 1 .. N
        BY <2>1, <3>2
      <4> HIDE DEF A
      <4> QED BY <2>6, <3>2, <4>1
    <3> QED BY <3>1, <3>2
  <2>8. h = [i \in 1 .. N |-> IF i = 1 THEN q[i] ELSE h[i - 1] \o q[i]]
    <3> HIDE DEF A
    <3> QED BY <2>7
  <2> DEFINE f == flat(q)
  <2>9. f = [i \in 1 .. N |-> IF i = 1 THEN q[i] ELSE f[i - 1] \o q[i]]
    <3> HIDE DEF h
    <3> QED BY <2>8 DEF N
  <2> HIDE DEF f
  <2>10. \A i \in 1 .. N : f[i] = IF i = 1 THEN q[i] ELSE f[i - 1] \o q[i]
    BY <2>9
  <2> DEFINE T == {n \in Nat : n + 1 <= N => f[n + 1] \in A}
  <2>11. 0 \in T
    <3> HIDE DEF A
    <3> QED BY <2>1, <2>10
  <2>12. ASSUME NEW n \in Nat, n \in T PROVE n + 1 \in T
    <3> SUFFICES ASSUME n + 2 <= N PROVE f[n + 2] \in A
      OBVIOUS
    <3>1. f[n + 1] \in Seq(E) /\ q[n + 2] \in Seq(E) /\ n + 2 \in 1 .. N /\ n + 2 # 1 /\ (n + 2) - 1 = n + 1
      BY <2>1, <2>12
    <3>2. f[n + 2] = f[n + 1] \o q[n + 2]
      BY <2>10, <3>1
    <3> QED BY <3>1, <3>2
  <2>13. Nat \subseteq T
    <3> HIDE DEF T
    <3> QED BY <2>11, <2>12, Induction
  <2>14. \A i \in 1 .. N : f[i] \in A
    <3> SUFFICES ASSUME NEW i \in 1 .. N PROVE f[i] \in A
      OBVIOUS
    <3>1. i - 1 \in Nat /\ (i - 1) + 1 = i /\ i <= N
      BY <2>1
    <3> HIDE DEF A
    <3> QED BY <2>13, <3>1
  <2> HIDE DEF A
  <2> QED BY <2>10, <2>14 DEF f, N
<1>2. \A q : FlattenSeq(q) = IF Len(q) = 0 THEN q ELSE flat(q)[Len(q)]
  BY DEF FlattenSeq
<1> DEFINE N == Len(seqs)
           longer == Append(seqs, more)
<1>3. /\ N \in Nat /\ longer \in Seq(A) /\ Len(longer) = N + 1 /\ longer[N + 1] = more
      /\ \A i \in 1 .. N : longer[i] = seqs[i]
  OBVIOUS
<1>4. FlattenSeq(seqs) \in A
  <2>1. CASE N = 0
    <3>1. seqs = <<>>
      BY <2>1
    <3>2. FlattenSeq(seqs) = seqs
      <4> HIDE DEF flat
      <4> QED BY <1>2, <2>1
    <3>3. <<>> \in A
      OBVIOUS
    <3> HIDE DEF A
    <3> QED BY <3>1, <3>2, <3>3
  <2>2. CASE N # 0
    <3>1. flat(seqs)[N] \in A
      <4> HIDE DEF flat, A
      <4>1. seqs \in Seq(A) /\ N \in 1 .. Len(seqs)
        BY <1>3, <2>2 DEF A
      <4> QED BY <1>1, <4>1
    <3> QED BY <1>2, <2>2, <3>1
  <2> QED BY <2>1, <2>2
<1> DEFINE f == flat(seqs)
           g == flat(longer)
<1>5. \A i \in 1 .. N : f[i] = IF i = 1 THEN seqs[i] ELSE f[i - 1] \o seqs[i]
  <2> HIDE DEF flat, A
  <2> QED BY <1>1 DEF A
<1>6. \A i \in 1 .. N + 1 : g[i] = IF i = 1 THEN longer[i] ELSE g[i - 1] \o longer[i]
  <2> HIDE DEF flat, A, longer
  <2>1. \A i \in 1 .. Len(longer) : flat(longer)[i] = IF i = 1 THEN longer[i] ELSE flat(longer)[i - 1] \o longer[i]
    BY <1>1, <1>3
  <2> QED BY <1>3, <2>1
<1>7. FlattenSeq(longer) = g[N + 1]
  <2> HIDE DEF flat, longer
  <2> QED BY <1>2, <1>3
<1>8. FlattenSeq(seqs) = IF N = 0 THEN seqs ELSE f[N]
  <2> HIDE DEF flat
  <2> QED BY <1>2
<1> HIDE DEF f, g, longer, flat
<1> DEFINE T == {n \in Nat : n + 1 <= N => g[n + 1] = f[n + 1]}
<1>9. 0 \in T
  <2> HIDE DEF N
  <2> QED BY <1>3, <1>5, <1>6
<1>10. ASSUME NEW n \in Nat, n \in T PROVE n + 1 \in T
  <2> SUFFICES ASSUME n + 2 <= N PROVE g[n + 2] = f[n + 2]
    OBVIOUS
  <2>1. n + 2 \in 1 .. N /\ n + 2 \in 1 .. N + 1 /\ n + 2 # 1 /\ (n + 2) - 1 = n + 1 /\ n + 1 <= N
    BY <1>3
  <2>2. g[n + 2] = g[n + 1] \o longer[n + 2] /\ f[n + 2] = f[n + 1] \o seqs[n + 2]
    <3> HIDE DEF N
    <3> QED BY <1>5, <1>6, <2>1
  <2>3. longer[n + 2] = seqs[n + 2] /\ g[n + 1] = f[n + 1]
    <3> HIDE DEF N
    <3> QED BY <1>3, <1>10, <2>1
  <2> QED BY <2>2, <2>3
<1>11. Nat \subseteq T
  <2> HIDE DEF T
  <2> QED BY <1>9, <1>10, Induction
<1>12. g[N + 1] = FlattenSeq(seqs) \o more
  <2>1. CASE N = 0
    <3>1. g[1] = more
      <4> HIDE DEF N
      <4> QED BY <1>3, <1>6, <2>1
    <3>2. FlattenSeq(seqs) = <<>>
      BY <1>8, <2>1
    <3> QED BY <2>1, <3>1, <3>2
  <2>2. CASE N # 0
    <3>1. N + 1 \in 1 .. N + 1 /\ N + 1 # 1 /\ (N + 1) - 1 = N /\ N - 1 \in Nat /\ (N - 1) + 1 = N
      BY <1>3, <2>2
    <3>2. g[N + 1] = g[N] \o more
      <4> HIDE DEF N
      <4> QED BY <1>3, <1>6, <3>1
    <3>3. g[N] = f[N]
      <4> HIDE DEF N
      <4>1. N - 1 \in T
        BY <1>11, <3>1
      <4> QED BY <3>1, <4>1
    <3> QED BY <1>8, <2>2, <3>2, <3>3
  <2> QED BY <2>1, <2>2
<1> QED BY <1>4, <1>7, <1>12 DEF longer

-----------------------------------------------------------------------------
(* One log. *)

(* However a log was put together, its report adds up. *)
LEMMA LogAddsUp ==
  ASSUME NEW log \in Seq(Event)
  PROVE  LET r == report(log)
         IN  /\ \A d \in SplitBy :
                  /\ \A field \in {"events", "bytes", "failures", "warnings"} :
                       Sum(r.by[d], field) = r.total[field]
                  /\ \A k \in DOMAIN r.by[d] : span(r.by[d][k]) <= span(r.total)
             /\ Len(r.anomalies) = r.total.failures + r.total.warnings
             /\ r.total.events = Len(log)
<1> DEFINE s == SortedBySeq(log)
           r == report(log)
<1>1. s \in Seq(Event) /\ Len(s) = Len(log)
  BY SortedIs
<1>2. /\ r.total = from_events(s) /\ r.anomalies = anomalies(s)
      /\ \A d \in SplitBy : r.by[d] = breakdown(d, s)
  BY DEF report
<1> HIDE DEF s, r
<1>3. ASSUME NEW d \in SplitBy
      PROVE  /\ \A field \in Counted : Sum(r.by[d], field) = r.total[field]
             /\ \A k \in DOMAIN r.by[d] : span(r.by[d][k]) <= span(r.total)
  <2>1. /\ Agree(r.by[d], r.total) /\ r.total \in Metrics
        /\ \A k \in DOMAIN r.by[d] : r.by[d][k] \in Metrics
    <3>1. /\ Agree(breakdown(d, s), from_events(s)) /\ from_events(s) \in Metrics
          /\ \A k \in DOMAIN breakdown(d, s) : breakdown(d, s)[k] \in Metrics
      BY <1>1, BreakdownAgrees
    <3> QED BY <1>2, <3>1
  <2>2. ASSUME NEW k \in DOMAIN r.by[d] PROVE span(r.by[d][k]) <= span(r.total)
    <3>1. r.by[d][k] \in Metrics
      BY <2>1
    <3>2. Within(r.by[d][k], r.total)
      BY <2>1 DEF Agree
    <3> QED BY <2>1, <3>1, <3>2, SpanWithin
  <2> QED BY <2>1, <2>2 DEF Agree
<1>4. Len(r.anomalies) = r.total.failures + r.total.warnings
  BY <1>1, <1>2, AnomaliesAre
<1>5. r.total.events = Len(log)
  BY <1>1, <1>2, BreakdownAgrees
<1> QED BY <1>3, <1>4, <1>5 DEF r, Counted

-----------------------------------------------------------------------------
(* The recording tasks. *)

RecordTypeOK ==
  /\ clock \in Instants
  /\ counter \in [Backend -> Nat]
  /\ stage \in [Task -> {"idle", "resolved", "numbered", "stamped"}]
  /\ DOMAIN event = Task
  /\ \A t \in Task : stage[t] # "idle" =>
                       event[t] \in Event /\ event[t].local = Controller[Drives[t]]
  /\ events \in Seq(Event) /\ batches \in Seq(Seq(Event))
  /\ emitted \subseteq Backend \X Nat /\ IsFiniteSet(emitted)

Numbered(t) == stage[t] \in {"numbered", "stamped"}

(* A number a backend gave is below its counter, and is that of one event: *)
(* delivered, or being made by one task.                                   *)
NumbersOnce ==
  /\ \A p \in emitted : p[2] < counter[p[1]]
  /\ \A t \in Task : Numbered(t) =>
       event[t].seq < counter[Drives[t]] /\ <<Drives[t], event[t].seq>> \notin emitted
  /\ \A t, u \in Task : t # u /\ Numbered(t) /\ Numbered(u) /\ Drives[t] = Drives[u] =>
       event[t].seq # event[u].seq

RecordInv == RecordTypeOK /\ NumbersOnce /\ CapturedOnce

(* Everything delivered, in the order it will be in once drained. *)
All == FlattenSeq(batches) \o events

(* Initially. *)
LEMMA RecordInitOK == RecordInit => RecordInv
<1> SUFFICES ASSUME RecordInit PROVE RecordInv
  OBVIOUS
<1>1. RecordTypeOK
  BY DiagnosticsAssumption, FS_EmptySet DEF RecordInit, RecordTypeOK
<1>2. NumbersOnce
  BY DEF RecordInit, NumbersOnce, Numbered
<1>3. CapturedOnce
  <2>1. FlattenSeq(<<>>) = <<>>
    BY DEF FlattenSeq
  <2>2. All = <<>> /\ emitted = {}
    BY <2>1 DEF RecordInit, All
  <2>3. Len(All) = 0 /\ {<<All[i].local, All[i].seq>> : i \in 1 .. Len(All)} = {}
    BY <2>2
  <2>4. Cardinality(emitted) = 0 /\ {<<Controller[p[1]], p[2]>> : p \in emitted} = {}
    BY <2>2, FS_EmptySet
  <2> QED BY <2>3, <2>4 DEF CapturedOnce, All
<1> QED BY <1>1, <1>2, <1>3 DEF RecordInv

(* CapturedOnce speaks of everything delivered and of the numbers only. *)
LEMMA CapturedStays ==
  ASSUME CapturedOnce, All' = All, emitted' = emitted
  PROVE  CapturedOnce'
<1>1. /\ {<<All[i].local, All[i].seq>> : i \in 1 .. Len(All)} = {<<Controller[p[1]], p[2]>> : p \in emitted}
      /\ Len(All) = Cardinality(emitted)
  BY DEF CapturedOnce, All
<1>2. /\ {<<All'[i].local, All'[i].seq>> : i \in 1 .. Len(All')} = {<<Controller[p[1]], p[2]>> : p \in emitted'}
      /\ Len(All') = Cardinality(emitted')
  <2> HIDE DEF All
  <2> QED BY <1>1
<1> QED BY <1>2 DEF CapturedOnce, All

(* Types and numbers, action by action. *)
LEMMA RecordNumbers ==
  ASSUME RecordTypeOK, NumbersOnce, [RecordNext]_recordVars
  PROVE  RecordTypeOK' /\ NumbersOnce'
<1> USE DiagnosticsAssumption
<1>1. ASSUME NEW t \in Task, Resolve(t) PROVE RecordTypeOK' /\ NumbersOnce'
  <2>1. PICK h \in Happening, p \in Spec802 :
          event' = [event EXCEPT ![t] =
                      [seq |-> 0, at |-> 0, local |-> Controller[Drives[t]],
                       spec |-> <<"5.2", "BR/EDR">>, standards |-> p,
                       peer |-> h.peer, kind |-> h.kind, bytes |-> h.bytes]]
    BY <1>1 DEF Resolve
  <2> DEFINE e == [seq |-> 0, at |-> 0, local |-> Controller[Drives[t]],
                   spec |-> <<"5.2", "BR/EDR">>, standards |-> p,
                   peer |-> h.peer, kind |-> h.kind, bytes |-> h.bytes]
  <2>2. e \in Event /\ e.local = Controller[Drives[t]]
    BY DEF Event
  <2>3. event' = [event EXCEPT ![t] = e] /\ stage' = [stage EXCEPT ![t] = "resolved"]
        /\ UNCHANGED <<clock, counter, events, batches, emitted>>
    BY <1>1, <2>1 DEF Resolve
  <2> HIDE DEF e
  <2>4. RecordTypeOK'
    BY <2>2, <2>3 DEF RecordTypeOK
  <2>5. NumbersOnce'
    BY <2>3 DEF NumbersOnce, Numbered, RecordTypeOK
  <2> QED BY <2>4, <2>5
<1>2. ASSUME NEW t \in Task, Number(t) PROVE RecordTypeOK' /\ NumbersOnce'
  <2> DEFINE n == counter[Drives[t]]
  <2> DEFINE e == [event[t] EXCEPT !.seq = n]
  <2>1. /\ stage[t] = "resolved" /\ event[t] \in Event /\ n \in Nat /\ Drives[t] \in Backend
        /\ event' = [event EXCEPT ![t] = e]
        /\ counter' = [counter EXCEPT ![Drives[t]] = n + 1]
        /\ stage' = [stage EXCEPT ![t] = "numbered"]
        /\ UNCHANGED <<clock, events, batches, emitted>>
    BY <1>2 DEF Number, RecordTypeOK
  <2>2. e \in Event /\ e.local = event[t].local /\ e.seq = n
    BY <2>1 DEF Event
  <2> HIDE DEF n, e
  <2>3. RecordTypeOK'
    <3>1. \A u \in Task : stage'[u] # "idle" =>
            event'[u] \in Event /\ event'[u].local = Controller[Drives[u]]
      BY <2>1, <2>2 DEF RecordTypeOK
    <3>2. counter' \in [Backend -> Nat]
      BY <2>1 DEF RecordTypeOK
    <3> QED BY <2>1, <3>1, <3>2 DEF RecordTypeOK
  <2>a. event'[t].seq = n
    BY <2>1, <2>2 DEF RecordTypeOK
  <2>b. \A u \in Task : u # t => event'[u] = event[u] /\ stage'[u] = stage[u]
    BY <2>1 DEF RecordTypeOK
  <2>4. \A b \in Backend : counter[b] \in Nat /\ counter'[b] = IF b = Drives[t] THEN n + 1 ELSE counter[b]
    BY <2>1 DEF RecordTypeOK
  <2>5. \A p \in emitted : p[1] \in Backend /\ p[2] \in Nat /\ p[2] < counter[p[1]]
    BY DEF RecordTypeOK, NumbersOnce
  <2>6. \A u \in Task : Drives[u] \in Backend /\ (u # t /\ Numbered(u) => event[u].seq < counter[Drives[u]]
                                                   /\ event[u].seq \in Nat)
    BY DEF NumbersOnce, RecordTypeOK, Event, Numbered
  <2>7. \A p \in emitted' : p[2] < counter'[p[1]]
    BY <2>1, <2>4, <2>5 DEF n
  <2>8. ASSUME NEW u \in Task, Numbered(u)'
        PROVE  event'[u].seq < counter'[Drives[u]] /\ <<Drives[u], event'[u].seq>> \notin emitted'
    <3>1. CASE u = t
      <4>1. <<Drives[t], n>> \notin emitted
        BY <2>1, <2>5 DEF n
      <4>2. counter'[Drives[t]] = n + 1
        BY <2>1, <2>4
      <4> QED BY <2>1, <2>a, <3>1, <4>1, <4>2
    <3>2. CASE u # t
      <4>1. Numbered(u) /\ event'[u] = event[u]
        BY <2>b, <2>8, <3>2 DEF Numbered
      <4>2. event[u].seq < counter[Drives[u]] /\ event[u].seq \in Nat
        BY <2>6, <3>2, <4>1
      <4>3. <<Drives[u], event[u].seq>> \notin emitted
        BY <4>1 DEF NumbersOnce
      <4>4. event[u].seq < counter'[Drives[u]]
        BY <2>1, <2>4, <2>6, <4>2 DEF n
      <4>5. event'[u].seq = event[u].seq
        BY <4>1
      <4> QED BY <2>1, <4>3, <4>4, <4>5
    <3> QED BY <3>1, <3>2
  <2>9. ASSUME NEW u \in Task, NEW v \in Task, u # v, Numbered(u)', Numbered(v)', Drives[u] = Drives[v]
        PROVE  event'[u].seq # event'[v].seq
    <3>1. ASSUME NEW a \in Task, a # t, Numbered(a)', Drives[a] = Drives[t] PROVE event'[a].seq # event'[t].seq
      <4>1. Numbered(a) /\ event'[a].seq = event[a].seq
        BY <2>b, <3>1 DEF Numbered
      <4>2. event[a].seq < n /\ event[a].seq \in Nat
        BY <2>6, <3>1, <4>1 DEF n
      <4>3. event[a].seq # n
        BY <2>1, <4>2
      <4> QED BY <2>a, <4>1, <4>3
    <3>2. CASE u # t /\ v # t
      BY <2>b, <2>9, <3>2 DEF Numbered, NumbersOnce
    <3> QED BY <2>9, <3>1, <3>2
  <2> QED BY <2>3, <2>7, <2>8, <2>9 DEF NumbersOnce
<1>3. ASSUME NEW t \in Task, Stamp(t) PROVE RecordTypeOK' /\ NumbersOnce'
  <2>1. /\ stage[t] = "numbered" /\ event[t] \in Event /\ clock \in Nat
        /\ event' = [event EXCEPT ![t] = [event[t] EXCEPT !.at = clock]]
        /\ stage' = [stage EXCEPT ![t] = "stamped"]
        /\ UNCHANGED <<clock, counter, events, batches, emitted>>
    BY <1>3 DEF Stamp, RecordTypeOK
  <2> DEFINE e == [event[t] EXCEPT !.at = clock]
  <2>2. e \in Event /\ e.local = event[t].local /\ e.seq = event[t].seq
    BY <2>1 DEF Event
  <2> HIDE DEF e
  <2>3. event' = [event EXCEPT ![t] = e]
    BY <2>1 DEF e
  <2>4. RecordTypeOK'
    BY <2>1, <2>2, <2>3 DEF RecordTypeOK
  <2>5. \A u \in Task : event'[u].seq = event[u].seq /\ (Numbered(u)' <=> Numbered(u))
    BY <2>1, <2>2, <2>3 DEF Numbered, RecordTypeOK
  <2>6. NumbersOnce'
    BY <2>1, <2>5 DEF NumbersOnce
  <2> QED BY <2>4, <2>6
<1>4. ASSUME NEW t \in Task, Deliver(t) PROVE RecordTypeOK' /\ NumbersOnce'
  <2>1. /\ stage[t] = "stamped" /\ event[t] \in Event /\ event[t].seq \in Nat /\ Drives[t] \in Backend
        /\ events' = Append(events, event[t])
        /\ emitted' = emitted \cup {<<Drives[t], event[t].seq>>}
        /\ stage' = [stage EXCEPT ![t] = "idle"]
        /\ event' = [event EXCEPT ![t] = <<>>]
        /\ UNCHANGED <<clock, counter, batches>>
    BY <1>4 DEF Deliver, RecordTypeOK, Event
  <2>2. IsFiniteSet(emitted') /\ emitted' \subseteq Backend \X Nat
    <3>1. IsFiniteSet(emitted) /\ emitted \subseteq Backend \X Nat
      BY DEF RecordTypeOK
    <3>2. IsFiniteSet(emitted \cup {<<Drives[t], event[t].seq>>})
      BY <3>1, FS_AddElement
    <3> QED BY <2>1, <3>1, <3>2
  <2>3. RecordTypeOK'
    BY <2>1, <2>2 DEF RecordTypeOK
  <2>4. \A u \in Task : Numbered(u)' => u # t /\ Numbered(u) /\ event'[u] = event[u]
    BY <2>1 DEF Numbered, RecordTypeOK
  <2>5. Numbered(t)
    BY <2>1 DEF Numbered
  <2>6. \A p \in emitted' : p[2] < counter'[p[1]]
    BY <2>1, <2>5 DEF NumbersOnce
  <2>7. ASSUME NEW u \in Task, Numbered(u)'
        PROVE  event'[u].seq < counter'[Drives[u]] /\ <<Drives[u], event'[u].seq>> \notin emitted'
    <3>1. /\ u # t /\ Numbered(u) /\ event'[u] = event[u]
          /\ event[u].seq < counter[Drives[u]] /\ <<Drives[u], event[u].seq>> \notin emitted
      BY <2>4, <2>7 DEF NumbersOnce
    <3>2. <<Drives[u], event[u].seq>> # <<Drives[t], event[t].seq>>
      BY <2>5, <3>1 DEF NumbersOnce
    <3> QED BY <2>1, <3>1, <3>2
  <2>8. \A u, v \in Task : u # v /\ Numbered(u)' /\ Numbered(v)' /\ Drives[u] = Drives[v] =>
          event'[u].seq # event'[v].seq
    BY <2>4 DEF NumbersOnce
  <2> QED BY <2>3, <2>6, <2>7, <2>8 DEF NumbersOnce
<1>5. CASE Drain
  <2>1. RecordTypeOK'
    BY <1>5 DEF Drain, RecordTypeOK
  <2>2. NumbersOnce'
    BY <1>5 DEF Drain, NumbersOnce, Numbered
  <2> QED BY <2>1, <2>2
<1>6. CASE SetClock
  BY <1>6 DEF SetClock, RecordTypeOK, NumbersOnce, Numbered
<1>7. CASE UNCHANGED recordVars
  BY <1>7 DEF recordVars, RecordTypeOK, NumbersOnce, Numbered
<1> QED BY <1>1, <1>2, <1>3, <1>4, <1>5, <1>6, <1>7 DEF RecordNext

(* An event delivered is one more of all, with a number of its own; a      *)
(* drain moves what was recorded, and no more.                             *)
LEMMA RecordCaptures ==
  ASSUME RecordTypeOK, NumbersOnce, CapturedOnce, [RecordNext]_recordVars
  PROVE  CapturedOnce'
<1> USE DiagnosticsAssumption
<1>1. ASSUME NEW t \in Task, Resolve(t) PROVE CapturedOnce'
  BY <1>1, CapturedStays DEF Resolve, All
<1>2. ASSUME NEW t \in Task, Number(t) PROVE CapturedOnce'
  BY <1>2, CapturedStays DEF Number, All
<1>3. ASSUME NEW t \in Task, Stamp(t) PROVE CapturedOnce'
  BY <1>3, CapturedStays DEF Stamp, All
<1>4. ASSUME NEW t \in Task, Deliver(t) PROVE CapturedOnce'
  <2> DEFINE e == event[t]
             b == Drives[t]
             flat == FlattenSeq(batches)
  <2>1. /\ e \in Event /\ e.local = Controller[b] /\ Numbered(t)
        /\ events' = Append(events, e) /\ batches' = batches
        /\ emitted' = emitted \cup {<<b, e.seq>>}
    BY <1>4 DEF Deliver, RecordTypeOK, Numbered
  <2>2. flat \in Seq(Event) /\ events \in Seq(Event)
    BY Flatten DEF RecordTypeOK
  <2>3. All = flat \o events /\ All' = flat \o Append(events, e)
    BY <2>1 DEF All
  <2>4. IsFiniteSet(emitted) /\ <<b, e.seq>> \notin emitted
    BY <2>1 DEF RecordTypeOK, NumbersOnce
  <2>5. /\ {<<All[i].local, All[i].seq>> : i \in 1 .. Len(All)} = {<<Controller[p[1]], p[2]>> : p \in emitted}
        /\ Len(All) = Cardinality(emitted)
    BY DEF CapturedOnce, All
  <2> HIDE DEF e, b, flat
  <2> DEFINE x == All
             y == All'
  <2>6. x \in Seq(Event) /\ y = Append(x, e)
    BY <2>1, <2>2, <2>3
  <2>7. /\ Len(y) = Len(x) + 1 /\ y[Len(x) + 1] = e /\ Len(x) \in Nat
        /\ \A i \in 1 .. Len(x) : y[i] = x[i]
    <3> HIDE DEF x, y
    <3> QED BY <2>1, <2>6
  <2>8. Cardinality(emitted') = Cardinality(emitted) + 1
    BY <2>1, <2>4, FS_AddElement
  <2>9. {<<y[i].local, y[i].seq>> : i \in 1 .. Len(y)} =
          {<<x[i].local, x[i].seq>> : i \in 1 .. Len(x)} \cup {<<e.local, e.seq>>}
    <3> HIDE DEF x, y
    <3> QED BY <2>7
  <2>10. {<<Controller[p[1]], p[2]>> : p \in emitted'} =
           {<<Controller[p[1]], p[2]>> : p \in emitted} \cup {<<e.local, e.seq>>}
    <3> DEFINE q == <<b, e.seq>>
    <3>1. q[1] = b /\ q[2] = e.seq
      OBVIOUS
    <3>2. emitted' = emitted \cup {q}
      BY <2>1
    <3>3. <<Controller[q[1]], q[2]>> = <<e.local, e.seq>>
      BY <2>1, <3>1
    <3> HIDE DEF q
    <3> QED BY <3>2, <3>3
  <2>11. /\ {<<y[i].local, y[i].seq>> : i \in 1 .. Len(y)} = {<<Controller[p[1]], p[2]>> : p \in emitted'}
         /\ Len(y) = Cardinality(emitted')
    BY <2>5, <2>7, <2>8, <2>9, <2>10
  <2> QED BY <2>11 DEF CapturedOnce, All
<1>5. CASE Drain
  <2> DEFINE flat == FlattenSeq(batches)
  <2>1. events \in Seq(Event) /\ flat \in Seq(Event)
        /\ FlattenSeq(Append(batches, events)) = flat \o events
    BY Flatten DEF RecordTypeOK
  <2>2. All' = (flat \o events) \o <<>>
    BY <1>5, <2>1 DEF Drain, All
  <2>3. All' = All
    <3>1. All = flat \o events
      BY DEF All
    <3> HIDE DEF flat
    <3>2. flat \o events \in Seq(Event)
      BY <2>1
    <3>3. (flat \o events) \o <<>> = flat \o events
      <4> DEFINE z == flat \o events
      <4> HIDE DEF z
      <4>1. z \in Seq(Event)
        BY <3>2 DEF z
      <4>2. z \o <<>> = z
        BY <4>1
      <4> QED BY <4>2 DEF z
    <3> QED BY <2>2, <3>1, <3>3 DEF flat
  <2> QED BY <1>5, <2>3, CapturedStays DEF Drain
<1>6. CASE SetClock
  BY <1>6, CapturedStays DEF SetClock, All
<1>7. CASE UNCHANGED recordVars
  BY <1>7, CapturedStays DEF recordVars, All
<1> QED BY <1>1, <1>2, <1>3, <1>4, <1>5, <1>6, <1>7 DEF RecordNext

(* The invariant, in every state. *)
LEMMA Recorded == RecordSpec => []RecordInv
<1>1. RecordInv /\ [RecordNext]_recordVars => RecordInv'
  BY RecordNumbers, RecordCaptures DEF RecordInv
<1> QED BY <1>1, RecordInitOK, PTL DEF RecordSpec

(* What can be analysed is a log of events. *)
LEMMA LogsAre ==
  ASSUME RecordTypeOK, NEW log \in RecordedLogs
  PROVE  log \in Seq(Event)
<1>1. FlattenSeq(batches) \in Seq(Event) /\ events \in Seq(Event)
  BY Flatten DEF RecordTypeOK
<1>2. FlattenSeq(batches) \o events \in Seq(Event)
  BY <1>1
<1>3. ASSUME NEW b \in Range(batches) PROVE b \in Seq(Event)
  BY DEF RecordTypeOK, Range
<1> QED BY <1>1, <1>2, <1>3 DEF RecordedLogs

(* Recorder and tasks hold events, and logs hold nothing else. *)
THEOREM RecordTypeCorrect == RecordSpec => []RecordTypeOK
<1>1. RecordInv => RecordTypeOK
  BY DEF RecordInv
<1> QED BY <1>1, Recorded, PTL

(* Each event delivered is drained or still recorded, exactly once: next_seq gives *)
(* a number away once, and drain takes and empties in one step.            *)
THEOREM CapturedCorrect == RecordSpec => []CapturedOnce
<1>1. RecordInv => CapturedOnce
  BY DEF RecordInv
<1> QED BY <1>1, Recorded, PTL

(* Whatever was recorded, however it was drained and at whatever times:    *)
(* the buckets of every dimension add up to the total.                     *)
THEOREM SplitsCorrect == RecordSpec => []SplitsAddUp
<1>1. RecordInv => SplitsAddUp
  BY LogsAre, LogAddsUp, Zenon DEF RecordInv, SplitsAddUp
<1> QED BY <1>1, Recorded, PTL

(* Neighbours in a log with different numbers may have arrived the other   *)
(* way round: the report is the same.                                      *)
THEOREM ArrivalCorrect == RecordSpec => []ArrivalIrrelevant
<1>1. ASSUME RecordInv PROVE ArrivalIrrelevant
  <2> SUFFICES ASSUME NEW log \in RecordedLogs, NEW i \in 1 .. Len(log) - 1,
                      log[i].seq # log[i + 1].seq
               PROVE  report([log EXCEPT ![i] = log[i + 1], ![i + 1] = log[i]]) = report(log)
    BY DEF ArrivalIrrelevant
  <2>1. log \in Seq(Event)
    BY <1>1, LogsAre DEF RecordInv
  <2> DEFINE other == [log EXCEPT ![i] = log[i + 1], ![i + 1] = log[i]]
  <2>2. SortedBySeq(other) = SortedBySeq(log)
    BY <2>1, SwapSorts
  <2> HIDE DEF other
  <2>3. report(other) = report(log)
    BY <2>2 DEF report
  <2> QED BY <2>3 DEF other
<1> QED BY <1>1, Recorded, PTL
=============================================================================
