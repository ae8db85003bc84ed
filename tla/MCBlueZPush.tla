----------------------------- MODULE MCBlueZPush -----------------------------
(***************************************************************************)
(* An instance of BlueZPush for TLC: two pushes, of two bytes and of none, *)
(* under the same name or each under its own, the first of which may meet  *)
(* any failure, and an obexd slow to answer.                               *)
(***************************************************************************)
EXTENDS BlueZPush

CONSTANTS p1, p2, n1, n2

MCPush   == {p1, p2}
MCByte   == {"a", "b"}
MCObject == [p \in Push |-> IF p = p1 THEN <<"a", "b">> ELSE <<>>]
MCPath   == {n1, n2}
MCFrail  == [p \in Push |-> IF p = p1 THEN Failures ELSE {}]
MCStall  == [p \in Push |-> IF p = p1 THEN 1 ELSE 0]
MCNames  == {[p \in Push |-> n1], [p \in Push |-> IF p = p1 THEN n1 ELSE n2]}

(* What a push keeps for its loop alone is gone once run_transfer returns: *)
(* states are one that differ only in such, which no step reads any more,  *)
(* and which keeps the value that GivesUpInTime saw within the loop.       *)
InLoop(p) == pc[p] \notin {"remove", "over"}
LoopOf(p) ==
  IF InLoop(p) THEN <<signals[p], transferred[p], elapsed[p], waited[p], seen[p]>> ELSE <<>>
MCView ==
  <<call, disk, obexd, total, last, chunked, [p \in Push |-> LoopOf(p)]>>
=============================================================================
