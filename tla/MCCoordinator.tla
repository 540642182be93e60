--------------------------- MODULE MCCoordinator ----------------------------
(***************************************************************************)
(* Coordinator for TLC: runs that must converge, and runs in which workers *)
(* reject, rounds run out and attempts are displaced.                      *)
(***************************************************************************)
EXTENDS Coordinator

Orderly == [rejects |-> FALSE, bounded |-> FALSE, preemptions |-> 0, deaths |-> 1,
            crashes |-> 1]

MCPlans == {Orderly,
            [Orderly EXCEPT !.preemptions = 1, !.deaths = 0],
            [Orderly EXCEPT !.rejects = TRUE, !.bounded = TRUE, !.preemptions = 1,
                            !.crashes = 0]}
=============================================================================
