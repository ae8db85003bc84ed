------------------------------ MODULE BlueZPush ------------------------------
(***************************************************************************)
(* BlueZ's push_file: the bytes are staged in a temporary file, obexd is   *)
(* asked to send that file, and its progress is watched until it says that *)
(* the transfer is complete or broken, or until a deadline.                *)
(*                                                                         *)
(* Several pushes run at once.  They share the temporary directory, where  *)
(* a file's name depends on the object's name only, and obexd, which reads *)
(* the file while it sends it.  The file system and obexd are modelled     *)
(* from how the code uses them.  A file that is removed stays readable by  *)
(* whoever has it open; each file is known by the push that created it.    *)
(***************************************************************************)
EXTENDS Integers, Sequences

CONSTANTS
  Push,      \* the calls of push_file
  Byte,      \* what objects are made of
  Object,    \* Object[p]: the bytes p is given
  Path,      \* names in the temporary directory
  Names,     \* the ways objects may be named: each gives p's staged name
  NoFile,    \* nothing under a name
  Poll,      \* POLL_INTERVAL, in ticks
  Deadline,  \* OVERALL_DEADLINE, in ticks
  Stall,     \* Stall[p]: bound on the ticks a read of Status takes
  Fallible   \* Fallible[p]: what may fail for p, "drop" for its caller leaving

Failures == {"create", "write", "session", "size", "status", "link", "drop"}

ASSUME PushAssumption ==
  /\ Object \in [Push -> Seq(Byte)]
  /\ Names \subseteq [Push -> Path]
  /\ NoFile \notin Push
  /\ Poll \in Nat \ {0} /\ Deadline \in Nat /\ Stall \in [Push -> Nat]
  /\ Fallible \in [Push -> SUBSET Failures]

VARIABLES
  name,         \* name[p]: the name of p's staged file
  pc,           \* pc[p]: the step the call is at
  verdict,      \* verdict[p]: how the call ended, or "none"
  entry,        \* entry[n]: the file under name n, or NoFile
  data,         \* data[i]: the content of file i
  handle,       \* handle[p]: the file p writes to
  session,      \* session[p]: p's session in obexd
  source,       \* source[p]: the file obexd reads for p
  status,       \* status[p]: the transfer's Status in obexd
  vanished,     \* the transfers whose object obexd has withdrawn
  got,          \* got[p]: the bytes the peer has received
  signals,      \* signals[p]: property changes p has not read yet
  total,        \* total[p]: Size, as obexd gave it, or 0
  transferred,  \* transferred[p]: the last Transferred p has read
  last,         \* last[p]: the last absolute progress reported
  chunked,      \* chunked[p]: bytes of the DataChunk events so far
  receipt,      \* receipt[p]: the bytes of the receipt
  elapsed,      \* elapsed[p]: ticks since the loop was entered
  waited,       \* waited[p]: ticks spent in its present, or last, await
  seen          \* seen[p]: obexd's answer to the read of Status, or "none"

call  == <<name, pc, verdict, receipt>>
disk  == <<entry, data, handle>>
obexd == <<session, source, status, vanished, got>>
tally == <<transferred, last, chunked>>
clock == <<elapsed, waited, seen>>
vars  == <<call, disk, obexd, signals, total, tally, clock>>

Init ==
  /\ name \in Names
  /\ pc = [p \in Push |-> "create"]
  /\ verdict = [p \in Push |-> "none"]
  /\ entry = [n \in Path |-> NoFile]
  /\ data = [p \in Push |-> <<>>]
  /\ handle = [p \in Push |-> NoFile]
  /\ session = [p \in Push |-> "none"]
  /\ source = [p \in Push |-> NoFile]
  /\ status = [p \in Push |-> "none"]
  /\ vanished = {}
  /\ got = [p \in Push |-> <<>>]
  /\ signals = [p \in Push |-> <<>>]
  /\ total = [p \in Push |-> 0]
  /\ transferred = [p \in Push |-> 0]
  /\ last = [p \in Push |-> 0]
  /\ chunked = [p \in Push |-> 0]
  /\ receipt = [p \in Push |-> 0]
  /\ elapsed = [p \in Push |-> 0]
  /\ waited = [p \in Push |-> 0]
  /\ seen = [p \in Push |-> "none"]

At(p, here) == pc[p] = here
Goto(p, there) ==
  /\ pc' = [pc EXCEPT ![p] = there]
  /\ UNCHANGED <<name, verdict, receipt>>

OnePath(p) == CHOOSE n \in Path : TRUE

(* The process id and the sanitised name of the object. *)
PathOf(p) == name[p]

(* StagedFile is dropped: the file under the name is removed. *)
Unstage(p) ==
  /\ entry' = [entry EXCEPT ![PathOf(p)] = NoFile]
  /\ UNCHANGED <<data, handle>>

Leave(p, how) ==
  /\ pc' = [pc EXCEPT ![p] = "over"]
  /\ verdict' = [verdict EXCEPT ![p] = how]
  /\ UNCHANGED <<name, receipt>>
  /\ Unstage(p)

-----------------------------------------------------------------------------
(* stage_temp_file. *)

(* File::create: the file under that name is emptied if there is one. *)
Create(p) ==
  /\ At(p, "create")
  /\ LET i == IF entry[PathOf(p)] = NoFile THEN p ELSE entry[PathOf(p)]
     IN  /\ entry' = [entry EXCEPT ![PathOf(p)] = i]
         /\ data' = [data EXCEPT ![i] = <<>>]
         /\ handle' = [handle EXCEPT ![p] = i]
  /\ Goto(p, "write")
  /\ UNCHANGED <<obexd, signals, total, tally, clock>>

(* What writing `new` from the start leaves of a file's content. *)
Written(old, new) == new \o SubSeq(old, Len(new) + 1, Len(old))

Write(p) ==
  /\ At(p, "write")
  /\ data' = [data EXCEPT ![handle[p]] = Written(data[handle[p]], Object[p])]
  /\ handle' = [handle EXCEPT ![p] = NoFile]
  /\ Goto(p, "session")
  /\ UNCHANGED <<entry, obexd, signals, total, tally, clock>>

(* Creating or writing fails: there is no StagedFile to drop. *)
StagingFails(p) ==
  /\ pc[p] \in {"create", "write"} \intersect Fallible[p]
  /\ pc' = [pc EXCEPT ![p] = "over"]
  /\ verdict' = [verdict EXCEPT ![p] = "not_staged"]
  /\ UNCHANGED <<name, receipt, disk, obexd, signals, total, tally, clock>>

-----------------------------------------------------------------------------
(* object_push and run_transfer. *)

CreateSession(p) ==
  /\ At(p, "session")
  /\ \/ /\ session' = [session EXCEPT ![p] = "open"]
        /\ Goto(p, "send") /\ UNCHANGED disk
     \/ /\ "session" \in Fallible[p]
        /\ Leave(p, "failed") /\ UNCHANGED session
  /\ UNCHANGED <<source, status, vanished, got, signals, total, tally, clock>>

(* run_transfer is over; object_push goes on to remove the session. *)
Finish(p, how) ==
  /\ pc' = [pc EXCEPT ![p] = "remove"]
  /\ verdict' = [verdict EXCEPT ![p] = how]
  /\ UNCHANGED name

(* obexd opens the file under the name and tells its size. *)
SendFile(p) ==
  /\ At(p, "send")
  /\ entry[PathOf(p)] # NoFile
  /\ source' = [source EXCEPT ![p] = entry[PathOf(p)]]
  /\ status' = [status EXCEPT ![p] = "active"]
  /\ \E size \in {Len(data[entry[PathOf(p)]])}
               \union (IF "size" \in Fallible[p] THEN {0} ELSE {}) :
       total' = [total EXCEPT ![p] = size]
  /\ Goto(p, "subscribe")
  /\ UNCHANGED <<disk, session, vanished, got, signals, tally, clock>>

(* SendFile fails, or what follows it up to the subscription does. *)
SendFails(p) ==
  /\ \/ At(p, "send") /\ entry[PathOf(p)] = NoFile
     \/ pc[p] \in {"send", "subscribe"} /\ "session" \in Fallible[p]
  /\ Finish(p, "failed")
  /\ UNCHANGED <<receipt, disk, obexd, signals, total, tally, clock>>

(* Changes are seen from here on. *)
Subscribe(p) ==
  /\ At(p, "subscribe")
  /\ Goto(p, "check")
  /\ UNCHANGED <<disk, obexd, signals, total, tally, clock>>

Larger(a, b)  == IF a > b THEN a ELSE b
Beyond(a, b)  == IF a > b THEN a - b ELSE 0

ProgressForgettingLast(p, n) ==
  /\ chunked' = [chunked EXCEPT ![p] = @ + n]
  /\ last' = [last EXCEPT ![p] = n]

(* on_progress: the bytes beyond the last report are one DataChunk. *)
Progress(p, n) ==
  /\ chunked' = [chunked EXCEPT ![p] = @ + Beyond(n, last[p])]
  /\ last' = [last EXCEPT ![p] = n]

(* The transfer is complete, t bytes of it reported. *)
Succeed(p, t) ==
  /\ Finish(p, "ok")
  /\ receipt' = [receipt EXCEPT ![p] = Larger(total[p], t)]
  /\ Progress(p, Larger(total[p], t))

LateThisTurn(p) == waited[p] >= Deadline
Late(p) == elapsed[p] >= Deadline

(* The Status that was read; then the deadline, then wait for a change.    *)
Check(p) ==
  /\ At(p, "check")
  /\ seen[p] # "none"
  /\ seen' = [seen EXCEPT ![p] = "none"]
  /\ \/ /\ seen[p] = "complete"
        /\ Succeed(p, transferred[p])
        /\ UNCHANGED <<transferred, waited>>
     \/ /\ seen[p] = "error"
        /\ Finish(p, "failed")
        /\ UNCHANGED <<receipt, tally, waited>>
     \/ /\ seen[p] \in {"active", "unread"}
        /\ IF Late(p)
             THEN /\ Finish(p, "timeout")
                  /\ UNCHANGED <<receipt, tally, waited>>
             ELSE /\ Goto(p, "wait")
                  /\ waited' = [waited EXCEPT ![p] = 0]
                  /\ UNCHANGED tally
  /\ UNCHANGED <<disk, obexd, signals, total, elapsed>>

(* The loop turns: Status is asked for again. *)
Turn(p) ==
  /\ Goto(p, "check")
  /\ waited' = [waited EXCEPT ![p] = 0]

(* A change arrives, of Transferred or of Status. *)
ReadSignal(p) ==
  /\ At(p, "wait")
  /\ signals[p] # <<>>
  /\ signals' = [signals EXCEPT ![p] = Tail(@)]
  /\ LET s == Head(signals[p])
     IN  \/ /\ s.status = "active"
            /\ Turn(p)
            /\ transferred' = [transferred EXCEPT ![p] = s.bytes]
            /\ Progress(p, s.bytes)
         \/ /\ s.status = "complete"
            /\ Succeed(p, transferred[p])
            /\ UNCHANGED <<transferred, waited>>
         \/ /\ s.status = "error"
            /\ Finish(p, "failed")
            /\ UNCHANGED <<receipt, tally, waited>>
  /\ UNCHANGED <<disk, obexd, total, elapsed, seen>>

(* POLL_INTERVAL passed without a change. *)
StopWaiting(p) ==
  /\ At(p, "wait")
  /\ signals[p] = <<>>
  /\ waited[p] >= Poll
  /\ Turn(p)
  /\ UNCHANGED <<disk, obexd, signals, total, tally, elapsed, seen>>

(* obexd cancels what it is still sending. *)
CloseSession(p) ==
  /\ session' = [session EXCEPT ![p] = "removed"]
  /\ status' = [status EXCEPT ![p] = IF @ = "active" THEN "error" ELSE @]
  /\ vanished' = vanished \union {p}

LeaveSession(p) ==
  /\ At(p, "remove")
  /\ Leave(p, verdict[p])
  /\ UNCHANGED <<obexd, signals, total, tally, clock>>

(* RemoveSession, and push_file returns. *)
RemoveSession(p) ==
  /\ At(p, "remove")
  /\ CloseSession(p)
  /\ Leave(p, verdict[p])
  /\ UNCHANGED <<source, got, signals, total, tally, clock>>

(* The caller drops the future at an await; obexd closes the session of a  *)
(* client that left the bus.                                               *)
Drop(p) ==
  /\ "drop" \in Fallible[p]
  /\ pc[p] \in {"session", "send", "subscribe", "check", "wait", "remove"}
  /\ CloseSession(p)
  /\ Leave(p, "dropped")
  /\ UNCHANGED <<source, got, signals, total, tally, clock>>

-----------------------------------------------------------------------------
(* obexd. *)

(* A property change reaches p once it has subscribed; it is of the bytes  *)
(* Transferred while the transfer is active, and then of its Status.       *)
Tell(p, bytes, how) ==
  signals' = IF pc[p] \in {"check", "wait"}
             THEN [signals EXCEPT ![p] = Append(@, [bytes |-> bytes, status |-> how])]
             ELSE signals

(* It reads the next byte of the file and sends it. *)
Transmit(p) ==
  /\ status[p] = "active"
  /\ Len(got[p]) < Len(data[source[p]])
  /\ got' = [got EXCEPT ![p] = Append(@, data[source[p]][Len(@) + 1])]
  /\ UNCHANGED signals \/ Tell(p, Len(got[p]) + 1, "active")
  /\ UNCHANGED <<call, disk, session, source, status, vanished, total, tally, clock>>

(* The end of the file, wherever it is by now; or the link breaks. *)
Conclude(p) ==
  /\ status[p] = "active"
  /\ \E how \in {"complete", "error"} :
       /\ IF how = "complete" THEN Len(got[p]) >= Len(data[source[p]])
                              ELSE "link" \in Fallible[p]
       /\ status' = [status EXCEPT ![p] = how]
       /\ Tell(p, 0, how)
  /\ UNCHANGED <<call, disk, session, source, vanished, got, total, tally, clock>>

(* A transfer that has ended is withdrawn from the bus. *)
Vanish(p) ==
  /\ status[p] \in {"complete", "error"}
  /\ p \notin vanished
  /\ vanished' = vanished \union {p}
  /\ UNCHANGED <<call, disk, session, source, status, got, signals, total, tally, clock>>

(* It answers a read of Status, which fails once the transfer is withdrawn. *)
TellStatus(p) ==
  /\ At(p, "check")
  /\ seen[p] = "none"
  /\ \E answer \in (IF p \in vanished THEN {} ELSE {status[p]}) \union
         (IF p \in vanished \/ "status" \in Fallible[p] THEN {"unread"} ELSE {}) :
       seen' = [seen EXCEPT ![p] = answer]
  /\ UNCHANGED <<call, disk, obexd, signals, total, tally, elapsed, waited>>

-----------------------------------------------------------------------------
(* Time passes while calls await a signal or the answer about Status, which *)
(* nothing in the code bounds; one that can go on does so first.           *)
Tick ==
  LET waiting == {p \in Push : pc[p] \in {"check", "wait"}}
  IN  /\ waiting # {}
      /\ \A p \in waiting :
           IF At(p, "wait") THEN signals[p] = <<>> /\ waited[p] < Poll
                            ELSE seen[p] = "none" /\ waited[p] < Stall[p]
      /\ elapsed' = [p \in Push |-> IF p \in waiting THEN elapsed[p] + 1 ELSE elapsed[p]]
      /\ waited' = [p \in Push |-> IF p \in waiting THEN waited[p] + 1 ELSE waited[p]]
      /\ UNCHANGED <<call, disk, obexd, signals, total, tally, seen>>

Moves(p) ==
  \/ Create(p) \/ Write(p) \/ StagingFails(p) \/ CreateSession(p)
  \/ SendFile(p) \/ SendFails(p) \/ Subscribe(p) \/ Check(p)
  \/ ReadSignal(p) \/ StopWaiting(p) \/ RemoveSession(p)

Obexd(p) == Transmit(p) \/ Conclude(p) \/ Vanish(p) \/ TellStatus(p)

Next ==
  \/ \E p \in Push : Moves(p) \/ Drop(p) \/ Obexd(p)
  \/ Tick

Spec == Init /\ [][Next]_vars

-----------------------------------------------------------------------------
(* Properties. *)

Places == {"create", "write", "session", "send", "subscribe", "check", "wait",
           "remove", "over"}
Verdicts == {"none", "not_staged", "ok", "failed", "timeout", "dropped"}
Signal == [bytes : Nat, status : {"active", "complete", "error"}]

TypeOK ==
  /\ name \in Names
  /\ pc \in [Push -> Places]
  /\ verdict \in [Push -> Verdicts]
  /\ entry \in [Path -> Push \union {NoFile}]
  /\ data \in [Push -> Seq(Byte)]
  /\ handle \in [Push -> Push \union {NoFile}]
  /\ session \in [Push -> {"none", "open", "removed"}]
  /\ source \in [Push -> Push \union {NoFile}]
  /\ status \in [Push -> {"none", "active", "complete", "error"}]
  /\ vanished \in SUBSET Push
  /\ got \in [Push -> Seq(Byte)]
  /\ signals \in [Push -> Seq(Signal)]
  /\ total \in [Push -> Nat] /\ transferred \in [Push -> Nat]
  /\ last \in [Push -> Nat] /\ chunked \in [Push -> Nat]
  /\ receipt \in [Push -> Nat]
  /\ elapsed \in [Push -> Nat] /\ waited \in [Push -> Nat]
  /\ seen \in [Push -> {"none", "active", "complete", "error", "unread"}]
  /\ \A p \in Push : pc[p] = "write" => handle[p] \in Push
  /\ \A p \in Push : status[p] = "active" => source[p] \in Push

(* A receipt is proof of the transfer when no other push stages under the  *)
(* same name: the peer has every byte of the object, and the receipt tells *)
(* how many if obexd told the size.                                        *)
Alone(p) == \A q \in Push \ {p} : name[q] # name[p]

ReceiptIsTrue ==
  \A p \in Push : verdict[p] = "ok" /\ Alone(p) =>
    /\ got[p] = Object[p]
    /\ total[p] > 0 => receipt[p] = Len(Object[p])

(* Whatever signals were lost or read late, the DataChunk events add up to *)
(* the receipt.                                                            *)
ProgressAddsUp ==
  \A p \in Push : verdict[p] = "ok" =>
    chunked[p] = receipt[p] /\ last[p] = receipt[p]

(* "Always tear the session down regardless of how it ended": a call that  *)
(* is over has no session open in obexd.                                   *)
NoSessionLeft == \A p \in Push : pc[p] = "over" => session[p] # "open"

(* "A wedged transfer cannot hang forever": however its signals are spaced *)
(* and however late obexd's answers are, no await of the loop begins later *)
(* than a poll past the deadline, and none for a signal lasts beyond that. *)
(* Only obexd's answer about Status is waited for without a limit.         *)
GivesUpInTime ==
  \A p \in Push : /\ elapsed[p] - waited[p] < Deadline + Poll
                  /\ At(p, "wait") => elapsed[p] < Deadline + Poll

(* It wakes periodically "so we never block past the deadline" by more     *)
(* than a poll; refuted.                                                   *)
NeverBlocksPastDeadline == \A p \in Push : elapsed[p] < Deadline + Poll

(* A staged file is left behind only where writing one failed, though      *)
(* pushes of the same name create, empty and remove each other's.          *)
NothingLeftStaged ==
  (\A p \in Push : pc[p] = "over") =>
    \A n \in Path : entry[n] # NoFile =>
      \E p \in Push : name[p] = n /\ verdict[p] = "not_staged"

(* A push leaves nothing behind in obexd or on disk that it could clear.   *)
NothingLeft == NoSessionLeft /\ NothingLeftStaged

(* The loop "handles a transfer that finished before or between signals":  *)
(* with no signal left to read, it does not give up on a transfer that     *)
(* obexd has completed; refuted.                                           *)
FinishedIsSeen ==
  [][\A p \in Push :
       verdict[p] = "none" /\ verdict'[p] = "timeout" /\ signals[p] = <<>> =>
         status[p] # "complete"]_vars

(* A receipt is "proof that a transfer completed": the peer has the bytes  *)
(* the caller gave; refuted.                                               *)
ReceiptProvesTransfer ==
  \A p \in Push : verdict[p] = "ok" => got[p] = Object[p]
=============================================================================
