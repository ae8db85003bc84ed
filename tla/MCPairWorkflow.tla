--------------------------- MODULE MCPairWorkflow ---------------------------
(***************************************************************************)
(* Instances of PairWorkflow for TLC: three devices, of which the mock     *)
(* knows two, each with an association model of its own.                   *)
(***************************************************************************)
EXTENDS PairWorkflow, TLC

CONSTANTS d1, d2, d3

MCDevice == {d1, d2, d3}
MCKnown  == {d1, d2}
MCPrompt == d1 :> "passkey" @@ d2 :> "numeric" @@ d3 :> "pin"

Batches(backends, targets, slots, rounds, retries, bonded) ==
  [backend : backends, entry : {"batch", "discovered"}, targets : targets,
   auto : BOOLEAN, slots : slots, rounds : rounds, retries : retries,
   spoof : BOOLEAN, bonded : bonded]

Singles(backends) ==
  [backend : backends, entry : {"device"}, targets : {<<d1>>, <<d3>>},
   auto : {TRUE}, slots : {1}, rounds : {1}, retries : 0..2, spoof : BOOLEAN,
   bonded : {{}, {d1}}]

(* Every way to run a batch over repeated, unknown and absent targets on   *)
(* the mock, and a choice of them on the others, with d1 bonded already    *)
(* and without.                                                            *)
MCRequests ==
  Batches({"mock"}, {<<>>, <<d1, d2, d1>>, <<d3, d1, d2>>}, {0, 2}, 0..2, 0..2, {{}})
    \union Batches({"mock", "bluez"}, {<<d3, d1, d2>>}, {2}, {1, 2}, {0}, {{d1}})
    \union Batches({"bluez"}, {<<d1, d2, d1>>}, {2}, 0..2, 0..1, {{}, {d1}})
    \union Batches({"android"}, {<<d1, d2, d1>>, <<d3, d1, d2>>}, {2}, 0..2, 0..1, {{}})
    \union Batches({"btleplug"}, {<<d1, d2>>}, {2}, {2}, {1}, {{}})
    \union Singles(Backends)

MCBlueZRequests == Batches({"bluez"}, {<<d1, d2, d1>>}, {2}, 0..2, 0..2, {{}})
=============================================================================
