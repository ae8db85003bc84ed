--------------------------- MODULE MCMockBackend ---------------------------
(* Model-checking instances of MockBackend: two tasks, three devices.  d1  *)
(* has a chunk size of 2 and a sound link; d2 has chunk size 0 (which the  *)
(* code raises to 1) and a link that drops; d3 is known to no one.         *)
EXTENDS MockBackend, TLC

CONSTANTS t1, t2, d1, d2, d3

MCTask == {t1, t2}
MCDevice == {d1, d2, d3}
MCScripted == <<d1, d2>>
MCIncoming == <<d2, d1>>
MCFails == {}
MCFailing == {d2}
MCChunk == [d \in MCDevice |-> IF d = d1 THEN 2 ELSE 0]
MCLatency == [d \in MCDevice |-> IF d = d1 THEN 3 ELSE 2]
MCLinkLimit == [d \in MCDevice |-> IF d = d1 THEN Never ELSE 1]

Connects(D) == {[op |-> "connect", peer |-> d] : d \in D}
Pushes(N)   == {[op |-> "push", total |-> n] : n \in N}
Pairs(D)    == {[op |-> "pair", peer |-> d] : d \in D}
Scans(N)    == {[op |-> "discover", accepts |-> a, limit |-> n] :
                  a \in {{d1, d2}, {d2}}, n \in N}
Accepts(N)  == {[op |-> "accept", max |-> n, window |-> 5] : n \in N}
Closing     == {[op |-> "disconnect"]}

(* One task connects, transfers and disconnects; the other closes its      *)
(* connection, transfers too, or advances the clock by discovering.        *)
MCPushCalls ==
  (t1 :> (Connects({d1, d2}) \union Pushes({0, 3}) \union Closing))
    @@ (t2 :> (Pushes({2}) \union Closing \union Scans({1})))

MCPairCalls ==
  (t1 :> (Pairs({d1, d2, d3}) \union Accepts({0, 1, Never}) \union Connects({d3})))
    @@ (t2 :> (Pairs({d1}) \union Accepts({1}) \union Scans({0, 2, Never})))
=============================================================================
