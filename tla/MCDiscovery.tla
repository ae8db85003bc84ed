---------------------------- MODULE MCDiscovery ----------------------------
(* Instances of Discovery for TLC: two calls, of which the second may have *)
(* a minimum strength and a name to look for, or a limit of none; a bonded *)
(* device, heard well, and another, heard weak and nameless or well.       *)
EXTENDS Discovery

CONSTANTS c1, c2, bonded, other, none

MCCall     == {c1, c2}
MCDevice   == {bonded, other}
MCBonded   == {bonded}
Sight(d, rssi, named) == [dev |-> d, rssi |-> rssi, named |-> named]
MCAdverts  == {Sight(bonded, -40, "yes"), Sight(other, -80, "no"), Sight(other, -40, "yes")}
MCStored   == [d \in MCDevice |-> Sight(d, none, IF d = bonded THEN "yes" ELSE "no")]
Everything == [min |-> none, named |-> "no", limit |-> none]
Near       == [min |-> -50, named |-> "yes", limit |-> none]
NoneAtAll  == [min |-> none, named |-> "no", limit |-> 0]
MCFilters  == {[c \in MCCall |-> IF c = c1 THEN Everything ELSE f] :
                 f \in {Everything, Near, NoneAtAll}}
=============================================================================
