----------------------------- MODULE MCPortAuth -----------------------------
(* Instances of PortAuth for TLC: the background task and a caller refresh *)
(* at once; two Bluetooth interfaces of two devices, or two of any kind.   *)
EXTENDS PortAuth

CONSTANTS task, caller, i1, i2, d1, d2

MCRefresher  == {task, caller}
MCBackground == {task}
MCInterface  == {i1, i2}
MCBluetooth  == {i1, i2}
MCDevice     == {d1, d2}
MCOwner      == [i \in MCInterface |-> IF i = i1 THEN d1 ELSE d2]
=============================================================================
