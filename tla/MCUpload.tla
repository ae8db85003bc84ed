------------------------------ MODULE MCUpload ------------------------------
(* Instances of Upload for TLC: one upload of an object that needs two     *)
(* packets and an empty one, with a retry; another of an object whose name *)
(* fills a packet, without.                                                *)
EXTENDS Upload

CONSTANTS u1, u2, nothing

MCCall      == {u1, u2}
MCFiles     == [c \in MCCall |->
                  IF c = u1 THEN <<[units |-> 4, size |-> 300], [units |-> 2, size |-> 0]>>
                  ELSE <<[units |-> 130, size |-> 2]>>]
MCRetries   == [c \in MCCall |-> IF c = u1 THEN 1 ELSE 0]
MCAnnounced == {100, 65535}
=============================================================================
