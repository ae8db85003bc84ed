--------------------------- MODULE MCEventStream ---------------------------
(* Model-checking instance of EventStream: the clock may stand still or    *)
(* advance with an event.                                                  *)
EXTENDS EventStream

CONSTANTS t1, t2, t3

MCTask == {t1, t2, t3}
MCTicks == {0, 2}
=============================================================================
