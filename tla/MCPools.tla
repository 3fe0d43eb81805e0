------------------------------- MODULE MCPools -------------------------------
(* The pools with two workers, two producers and three tasks: more tasks than *)
(* workers, so that tasks queue up, workers compete and some are abandoned.   *)
(* The service is woken up twice: the second wake-up meets the tokens the     *)
(* first sleep left behind.                                                   *)
EXTENDS Pools

CONSTANTS w1, w2, p1, p2

MCWorkers   == {w1, w2}
MCProducers == {p1, p2}
MCTasks     == 0..2
==============================================================================
