--------------------------- MODULE MCArbitration ---------------------------
(***************************************************************************)
(* Settings of Arbitration for TLC.                                        *)
(***************************************************************************)
EXTENDS Arbitration

\* A flow without deadline or minimum service that is always ready.
Plain(rank, weight) ==
    [rank |-> rank, weight |-> weight, quantum |-> 1, slack |-> NoDeadline,
     min_service |-> 0, min_service_window |-> 0, preemptible |-> TRUE,
     may_pause |-> FALSE]

Pausing(d) == [d EXCEPT !.may_pause = TRUE]

Setting(flow, overlap, mode, bound) ==
    [flow |-> flow, max_overlap |-> overlap, preemption |-> mode,
     deadline_ordering |-> TRUE, weighted_fairness |-> TRUE, min_service_guarantee |-> TRUE,
     starvation_bound |-> bound, deadline_urgency |-> 1, min_preempt_service |-> 1,
     windows_return |-> TRUE]

Due(d, ticks) == [d EXCEPT !.slack = ticks]
Guaranteed(d) == [d EXCEPT !.min_service = 1, !.min_service_window = 2]

\* The ordering stages of the policy are switched off.
Bare(s) == [s EXCEPT !.deadline_ordering = FALSE, !.weighted_fairness = FALSE,
                     !.min_service_guarantee = FALSE]

MCSettings ==
    {Setting(<<Plain(0, 1), Plain(0, 2), Pausing(Plain(0, 2))>>, 1, "None", 1),
     Setting(<<Plain(0, 1), Guaranteed(Plain(0, 1)), Plain(0, 2)>>, 1, "Tiered", 2),
     Setting(<<Plain(0, 2), Plain(0, 2), Plain(0, 2)>>, 2, "Tiered", 1),
     Setting(<<Due(Plain(0, 1), 2), Due(Plain(1, 1), 2), Plain(1, 1)>>, 1, "Deadline", 1),
     Setting(<<Pausing(Plain(0, 1)), Plain(1, 1), Plain(2, 1)>>, 1, "StrictPriority", 1),
     Setting(<<Plain(0, 1), Plain(0, 3), Plain(0, 3)>>, 1, "Tiered", 1),
     Bare(Setting(<<Plain(0, 1), Guaranteed(Plain(0, 2)), Due(Plain(0, 1), 2)>>, 1, "Tiered", 1))}

\* Two flows of a better rank and one of a worse rank; every window is delivered.
MCOverload ==
    {[Setting(<<Plain(0, 1), Plain(0, 1), Plain(1, 1)>>, 1, "None", 1)
         EXCEPT !.windows_return = FALSE]}
=============================================================================
