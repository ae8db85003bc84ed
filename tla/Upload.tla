------------------------------- MODULE Upload -------------------------------
(***************************************************************************)
(* Uploading files: upload_files connects, pushes one file after another,  *)
(* each with retries, and disconnects.  A push of the Android backend      *)
(* opens a socket of its own and speaks OBEX Object Push over it: CONNECT, *)
(* PUT packets cut to the size agreed on, DISCONNECT, each answered by the *)
(* peer.  One ProgressObserver hears every upload.                         *)
(*                                                                         *)
(* An object's bytes are counted, not kept; a name is its number of UTF-16 *)
(* units.  The peer, the link and the Java stack are modelled from how the *)
(* code uses them.                                                         *)
(***************************************************************************)
EXTENDS Integers, Sequences

CONSTANTS
  Call,        \* the uploads
  Files,       \* Files[c]: a sequence of [units, size], a name and a length
  Retries,     \* Retries[c]: attempts after the first
  Announced,   \* packet sizes a peer may announce
  Nothing      \* no object

ASSUME UploadAssumption ==
  /\ Files \in [Call -> Seq([units : Nat, size : Nat])]
  /\ Retries \in [Call -> Nat]
  /\ Announced \subseteq Nat
  /\ Nothing \notin Call \X Nat

VARIABLES
  pc,        \* pc[c]: the step c is at
  index,     \* index[c]: which of its files c pushes
  attempt,   \* attempt[c]: which attempt at that file
  link,      \* link[c]: c's connection, as observers are told of it
  socket,    \* socket[c]: "none", "open", "closed", or "lost" while open
  wire,      \* wire[c]: "quiet", "asked", or the peer's answer
  peerMax,   \* peerMax[c]: the peer's packet size, as the client took it
  offset,    \* offset[c]: bytes of the object acknowledged
  chunks,    \* chunks[c]: packets that carried bytes
  result,    \* result[c]: how the exchange on the socket went
  receipts,  \* receipts[c]
  verdict,   \* verdict[c]: how the upload ended
  got,       \* got[c]: bytes the peer holds of an object not ended yet
  kept,      \* kept[c]: the objects the peer keeps, [index, attempt, bytes]
  late,      \* late[c]: <<file, attempt>> of the rejections of a last packet
             \*   or of a DISCONNECT
  shown,     \* the last progress update
  overlap    \* whether pushes of two uploads were ever under way at once

upload == <<pc, index, attempt, link, receipts, verdict>>
client == <<socket, peerMax, offset, chunks, result>>
peer   == <<wire, got, kept>>
vars   == <<upload, client, peer, late, shown, overlap>>

Exchange == {"hello", "put", "bye"}
Pushing  == Exchange \cup {"open", "close"}

Init ==
  /\ pc = [c \in Call |-> "connect"]
  /\ index = [c \in Call |-> 1] /\ attempt = [c \in Call |-> 1]
  /\ link = [c \in Call |-> "down"] /\ socket = [c \in Call |-> "none"]
  /\ wire = [c \in Call |-> "quiet"] /\ peerMax = [c \in Call |-> 0]
  /\ offset = [c \in Call |-> 0] /\ chunks = [c \in Call |-> 0]
  /\ result = [c \in Call |-> "none"] /\ verdict = [c \in Call |-> "none"]
  /\ receipts = [c \in Call |-> <<>>] /\ kept = [c \in Call |-> <<>>]
  /\ got = [c \in Call |-> 0] /\ late = [c \in Call |-> {}]
  /\ shown = [object |-> Nothing, transferred |-> 0, done |-> "no"]
  /\ overlap = "no"

At(c, here) == pc[c] = here
Goto(c, there) == pc' = [pc EXCEPT ![c] = there]
File(c) == Files[c][index[c]]

-----------------------------------------------------------------------------
(* The size of packets. *)

Lesser(a, b)  == IF a < b THEN a ELSE b
Greater(a, b) == IF a < b THEN b ELSE a

OurMax == 8192
Smallest == 255

MaxPacket(c) == Lesser(OurMax, peerMax[c])

(* What a PUT packet holds beside the body: the packet's and the body's    *)
(* headers, and in the first one the name, with its header and terminator, *)
(* and the length.                                                         *)
Overhead(c) ==
  6 + (IF offset[c] = 0 THEN (3 + 2 * File(c).units + 2) + 5 ELSE 0)

TakeWithoutName(c) == Lesser(File(c).size - offset[c], MaxPacket(c) - 6)

(* As many bytes as there is room for, and one where there is none. *)
Take(c) == Lesser(File(c).size - offset[c], Greater(MaxPacket(c) - Overhead(c), 1))

IsLast(c) == offset[c] + Take(c) >= File(c).size

PacketLength(c) == Overhead(c) + Take(c)

-----------------------------------------------------------------------------
(* The progress bar: one object name for all that its observer hears. *)

ShowEarly(object, transferred, done) ==
  shown' = [object |-> object, transferred |-> transferred,
            done |-> IF transferred = Files[object[1]][object[2]].size THEN "yes" ELSE done]

Show(object, transferred, done) ==
  shown' = [object |-> object, transferred |-> transferred, done |-> done]

-----------------------------------------------------------------------------
(* The upload. *)

(* connect checks the device can be named; the socket comes later. *)
Connect(c) ==
  /\ At(c, "connect")
  /\ \/ /\ link' = [link EXCEPT ![c] = "up"]
        /\ Goto(c, IF Files[c] = <<>> THEN "leave" ELSE "start")
        /\ verdict' = [verdict EXCEPT ![c] = IF Files[c] = <<>> THEN "ok" ELSE @]
     \/ /\ Goto(c, "over") /\ UNCHANGED link
        /\ verdict' = [verdict EXCEPT ![c] = "unreachable"]
  /\ UNCHANGED <<index, attempt, receipts, client, peer, late, shown, overlap>>

(* push_file: TransferStarted. *)
Start(c) ==
  /\ At(c, "start") /\ Goto(c, "open")
  /\ socket' = [socket EXCEPT ![c] = "none"]
  /\ offset' = [offset EXCEPT ![c] = 0]
  /\ chunks' = [chunks EXCEPT ![c] = 0]
  /\ result' = [result EXCEPT ![c] = "none"]
  /\ Show(<<c, index[c]>>, 0, "no")
  /\ overlap' = IF \E d \in Call \ {c} : pc[d] \in Pushing THEN "yes" ELSE overlap
  /\ UNCHANGED <<index, attempt, link, receipts, verdict, peerMax, peer, late>>

(* run_push up to the streams: a failure returns at once, whether or not   *)
(* the socket is there already.                                            *)
Open(c) ==
  /\ At(c, "open")
  /\ \/ /\ socket' = [socket EXCEPT ![c] = "open"] /\ Goto(c, "hello")
        /\ UNCHANGED result
     \/ /\ socket' \in {[socket EXCEPT ![c] = s] : s \in {"none", "lost"}}
        /\ result' = [result EXCEPT ![c] = "backend"] /\ Goto(c, "close")
  /\ got' = [got EXCEPT ![c] = 0]
  /\ UNCHANGED <<index, attempt, link, receipts, verdict, peerMax, offset,
                 chunks, wire, kept, late, shown, overlap>>

(* A request is written: CONNECT, a PUT packet or DISCONNECT. *)
Ask(c) ==
  /\ pc[c] \in Exchange /\ wire[c] = "quiet"
  /\ wire' = [wire EXCEPT ![c] = "asked"]
  /\ UNCHANGED <<upload, client, got, kept, late, shown, overlap>>

Expected(c) == IF At(c, "put") /\ ~ IsLast(c) THEN "continue" ELSE "success"

(* The exchange ends early: the closure returns its error. *)
Abort(c, how) ==
  /\ Goto(c, "close")
  /\ result' = [result EXCEPT ![c] = how]
  /\ wire' = [wire EXCEPT ![c] = "quiet"]
  /\ late' = IF how = "rejected" /\ (At(c, "bye") \/ (At(c, "put") /\ IsLast(c)))
             THEN [late EXCEPT ![c] = @ \cup {<<index[c], attempt[c]>>}] ELSE late
  /\ UNCHANGED <<index, attempt, link, receipts, verdict, socket, peerMax,
                 offset, chunks, got, kept, shown, overlap>>

WriteFails(c) == pc[c] \in Exchange /\ wire[c] = "quiet" /\ Abort(c, "backend")

(* Any other code is a rejection; no answer, or half a one, an error. *)
Refused(c) ==
  /\ pc[c] \in Exchange
  /\ wire[c] \in {"success", "continue", "refusal"} \ {Expected(c)}
  /\ Abort(c, "rejected")

ReadFails(c) == pc[c] \in Exchange /\ wire[c] = "broken" /\ Abort(c, "backend")

(* The expected answer: on with the exchange.  A packet that carried bytes *)
(* is a DataChunk and a TransferProgress.                                  *)
Acknowledged(c) ==
  /\ pc[c] \in Exchange /\ wire[c] = Expected(c)
  /\ wire' = [wire EXCEPT ![c] = "quiet"]
  /\ \/ /\ At(c, "hello") /\ Goto(c, "put")
        /\ UNCHANGED <<offset, chunks, result, shown>>
     \/ /\ At(c, "put") /\ Goto(c, IF IsLast(c) THEN "bye" ELSE "put")
        /\ offset' = [offset EXCEPT ![c] = @ + Take(c)]
        /\ IF Take(c) > 0
           THEN /\ chunks' = [chunks EXCEPT ![c] = @ + 1]
                /\ Show(shown.object, offset[c] + Take(c), "no")
           ELSE UNCHANGED <<chunks, shown>>
        /\ UNCHANGED result
     \/ /\ At(c, "bye") /\ Goto(c, "close")
        /\ result' = [result EXCEPT ![c] = "ok"]
        /\ UNCHANGED <<offset, chunks, shown>>
  /\ UNCHANGED <<index, attempt, link, receipts, verdict, socket, peerMax,
                 got, kept, late, overlap>>

Receipt(c) ==
  [index |-> index[c], bytes |-> File(c).size, chunks |-> Greater(chunks[c], 1)]

MayRetryAlways(c) == attempt[c] <= Retries[c]

(* push_with_retries: only a rejected transfer is tried again. *)
MayRetry(c) == result[c] = "rejected" /\ attempt[c] <= Retries[c]

CloseSocket(c) ==
  socket' = [socket EXCEPT ![c] = IF @ = "open" THEN "closed" ELSE @]

NextAttempt(c) == attempt[c] + 1

Swallowed(c) == "ok"
Failure(c) == result[c]

(* run_push returns, push_file reports the end of it, and upload_files     *)
(* goes on with the next file, again with this one, or not at all.         *)
Conclude(c) ==
  /\ At(c, "close")
  /\ CloseSocket(c)
  /\ \/ /\ result[c] = "ok"
        /\ Show(shown.object, File(c).size, "yes")
        /\ receipts' = [receipts EXCEPT ![c] = Append(@, Receipt(c))]
        /\ attempt' = [attempt EXCEPT ![c] = 1]
        /\ IF index[c] < Len(Files[c])
           THEN /\ index' = [index EXCEPT ![c] = @ + 1]
                /\ Goto(c, "start") /\ UNCHANGED verdict
           ELSE /\ Goto(c, "leave") /\ UNCHANGED index
                /\ verdict' = [verdict EXCEPT ![c] = "ok"]
     \/ /\ result[c] # "ok" /\ MayRetry(c)
        /\ attempt' = [attempt EXCEPT ![c] = NextAttempt(c)]
        /\ Goto(c, "start")
        /\ UNCHANGED <<index, receipts, verdict, shown>>
     \/ /\ result[c] # "ok" /\ ~ MayRetry(c)
        /\ verdict' = [verdict EXCEPT ![c] = Failure(c)]
        /\ Goto(c, "leave")
        /\ UNCHANGED <<index, attempt, receipts, shown>>
  /\ UNCHANGED <<link, peerMax, offset, chunks, result, peer, late, overlap>>

(* disconnect_after; without it the connection is the caller's. *)
Leave(c) ==
  /\ At(c, "leave") /\ Goto(c, "over")
  /\ link' \in {[link EXCEPT ![c] = l] : l \in {"down", "left"}}
  /\ UNCHANGED <<index, attempt, receipts, verdict, client, peer, late, shown,
                 overlap>>

-----------------------------------------------------------------------------
(* The peer, and the link to it. *)

(* The object, as the peer keeps it. *)
Copy(c) == [index |-> index[c], attempt |-> attempt[c], bytes |-> got[c] + Take(c)]

(* It answers a packet by the book, refuses it, or breaks off.  It keeps   *)
(* an object with its last packet only, and then answers whatever it       *)
(* likes: a code the client does not expect, or none.                      *)
Answer(c) ==
  /\ wire[c] = "asked"
  /\ \/ /\ wire' \in {[wire EXCEPT ![c] = a] : a \in {"refusal", "broken"}}
        /\ UNCHANGED <<got, kept, peerMax>>
     \/ /\ At(c, "hello") /\ wire' = [wire EXCEPT ![c] = "success"]
        /\ \E n \in Announced : peerMax' = [peerMax EXCEPT ![c] = Greater(n, Smallest)]
        /\ UNCHANGED <<got, kept>>
     \/ /\ At(c, "put") /\ ~ IsLast(c)
        /\ wire' = [wire EXCEPT ![c] = "continue"]
        /\ got' = [got EXCEPT ![c] = @ + Take(c)]
        /\ UNCHANGED <<kept, peerMax>>
     \/ /\ At(c, "put") /\ IsLast(c)
        /\ wire' \in {[wire EXCEPT ![c] = a] :
                        a \in {"success", "continue", "refusal", "broken"}}
        /\ kept' = [kept EXCEPT ![c] = Append(@, Copy(c))]
        /\ got' = [got EXCEPT ![c] = 0]
        /\ UNCHANGED peerMax
     \/ /\ At(c, "bye") /\ wire' = [wire EXCEPT ![c] = "success"]
        /\ UNCHANGED <<got, kept, peerMax>>
  /\ UNCHANGED <<upload, socket, offset, chunks, result, late, shown, overlap>>

-----------------------------------------------------------------------------
Moves(c) ==
  \/ Connect(c) \/ Start(c) \/ Open(c) \/ Ask(c) \/ WriteFails(c) \/ ReadFails(c)
  \/ Refused(c) \/ Acknowledged(c) \/ Conclude(c) \/ Leave(c)

Next == \E c \in Call : Moves(c) \/ Answer(c)

Spec == Init /\ [][Next]_vars

-----------------------------------------------------------------------------
(* What the checks say. *)

(* How often the peer accepted a file of c. *)
Copies(c, i) == {j \in 1 .. Len(kept[c]) : kept[c][j].index = i}

(* Every variable keeps its type. *)
TypeOK ==
  /\ pc \in [Call -> Pushing \cup {"connect", "start", "leave", "over"}]
  /\ index \in [Call -> Nat \ {0}] /\ attempt \in [Call -> Nat \ {0}]
  /\ link \in [Call -> {"down", "up", "left"}]
  /\ socket \in [Call -> {"none", "open", "closed", "lost"}]
  /\ wire \in [Call -> {"quiet", "asked", "success", "continue", "refusal", "broken"}]
  /\ peerMax \in [Call -> Nat] /\ offset \in [Call -> Nat] /\ chunks \in [Call -> Nat]
  /\ result \in [Call -> {"none", "ok", "rejected", "backend"}]
  /\ verdict \in [Call -> {"none", "ok", "rejected", "backend", "unreachable"}]
  /\ got \in [Call -> Nat]
  /\ receipts \in [Call -> Seq([index : Nat, bytes : Nat, chunks : Nat])]
  /\ kept \in [Call -> Seq([index : Nat, attempt : Nat, bytes : Nat])]
  /\ late \in [Call -> SUBSET (Nat \X Nat)]
  /\ shown.object \in {Nothing} \cup Call \X Nat /\ shown.done \in {"yes", "no"}
  /\ overlap \in {"yes", "no"}

(* An upload that succeeds has a receipt for each file, in order, and the  *)
(* peer has accepted each of them; and what a peer accepts is always the   *)
(* whole object, neither cut short nor with a packet twice, whatever was   *)
(* refused or lost in earlier attempts.                                    *)
SuccessIsDelivery ==
  \A c \in Call :
    /\ verdict[c] = "ok" =>
         /\ Len(receipts[c]) = Len(Files[c])
         /\ \A i \in 1 .. Len(Files[c]) :
              receipts[c][i].index = i /\ Copies(c, i) # {}
    /\ \A j \in 1 .. Len(kept[c]) :
         kept[c][j].bytes = Files[c][kept[c][j].index].size

(* The peer gets a file again only in a later attempt, after it rejected   *)
(* the last packet or the DISCONNECT of the attempt whose copy it kept;    *)
(* and it gets nothing of a file before all earlier ones have a receipt:   *)
(* the first file to fail is the last to be sent.                          *)
CopiesExplained ==
  \A c \in Call :
    /\ \A k \in 1 .. Len(kept[c]) : kept[c][k].index <= Len(receipts[c]) + 1
    /\ \A j, k \in 1 .. Len(kept[c]) : j < k =>
         /\ kept[c][j].index <= kept[c][k].index
         /\ kept[c][j].index = kept[c][k].index =>
              /\ kept[c][j].attempt < kept[c][k].attempt
              /\ kept[c][j].attempt \in 1 .. Retries[c]
              /\ <<kept[c][j].index, kept[c][j].attempt>> \in late[c]

(* Every packet fits what was agreed on, unless it is a first one whose    *)
(* name leaves no room: that one carries a single byte of the object.      *)
PacketsFit ==
  \A c \in Call : At(c, "put") =>
    \/ PacketLength(c) <= MaxPacket(c)
    \/ offset[c] = 0 /\ Take(c) <= 1 /\ Overhead(c) >= MaxPacket(c)

(* When pushes of different uploads never overlap, a bar that says "done"  *)
(* names an object the peer has accepted.                                  *)
DoneIsDone ==
  overlap = "no" /\ shown.done = "yes" =>
    Copies(shown.object[1], shown.object[2]) # {}

(* upload.rs: only mid-flight transfer failures are retried; refuted. *)
OnlyMidFlightRetried ==
  \A c \in Call : At(c, "open") => Copies(c, index[c]) = {}

(* progress.rs: the final update for an object names it; refuted. *)
DoneNamesItsObject ==
  shown.done = "yes" => Copies(shown.object[1], shown.object[2]) # {}

(* obex_opp.rs: the packet size negotiated is a maximum; refuted. *)
NoPacketOverMax == \A c \in Call : At(c, "put") => PacketLength(c) <= MaxPacket(c)
=============================================================================
