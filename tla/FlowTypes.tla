------------------------------ MODULE FlowTypes ------------------------------
(***************************************************************************)
(* The enumerations of model.hpp and dispatch.hpp and the predicates       *)
(* model.cpp and dispatch.cpp define on them.  "Absent" is not an          *)
(* enumerator: it stands for a flow that has no row in the flow table.     *)
(***************************************************************************)

\* FlowLifecycle.  CompletionReported is declared by the source but no
\* statement of the runtime ever assigns it.
Lifecycles == {"Waiting", "Ready", "Scheduled", "Dispatched", "Running",
               "CompletionReported", "Completed", "Cancelling", "Cancelled",
               "Preempting", "Failed", "Ambiguous"}

is_terminal(l) == l \in {"Completed", "Cancelled", "Failed"}

\* A Scheduled flow is not in this list: it holds a window, not a dispatch.
holds_open_work(l) == l \in {"Dispatched", "Running", "CompletionReported",
                             "Cancelling", "Preempting"}

AttemptStates == {"Open", "Started", "Committed", "Preempted", "Cancelled",
                  "Abandoned", "Rejected"}

is_attempt_terminal(s) == s \notin {"Open", "Started"}

CompletionOutcomes == {"Served", "NoService", "Failed"}

ReadinessSignals == {"Unset", "Ready", "NotReady"}
=============================================================================
