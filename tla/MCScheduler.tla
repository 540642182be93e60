----------------------------- MODULE MCScheduler -----------------------------
(***************************************************************************)
(* Small instances of Scheduler.  Each configuration opens one part of the *)
(* interface wide and keeps the rest narrow.                               *)
(***************************************************************************)
EXTENDS Scheduler

\* A flow that is ready at once, needs two units in windows of one, and may be
\* displaced.
PlainFlow ==
    [generation |-> 1, resource |-> "r", resource_generation |-> 1,
     reservation |-> NoReservation, reservation_generation |-> 0,
     class_generation |-> 1, estimated_work |-> 2, service_quantum |-> 1,
     release_tick |-> 0, deadline_tick |-> kNoDeadline, dependencies |-> {},
     auto_ready |-> TRUE, readiness_signal |-> "Unset", preemptible |-> TRUE]

PlainResource == [generation |-> 1, capacity |-> 2, interval |-> 2, max_overlap |-> 1]

PlainPolicy ==
    [policy |-> 1, generation |-> 1, max_flows |-> 2,
     max_entries_per_schedule |-> 2, max_quantum |-> 2, strict_deadlines |-> FALSE,
     preemption |-> FALSE, min_preempt_service |-> 0,
     max_preemptions_per_interval |-> 1, preemption_interval_ticks |-> 2,
     dispatch_delivery_horizon |-> 1, retained_schedule_history |-> 1]

PreemptingPolicy == [PlainPolicy EXCEPT !.preemption = TRUE]
StrictPolicy == [PreemptingPolicy EXCEPT !.strict_deadlines = TRUE]

NoDescriptors == {}
PlainFlows == {PlainFlow}
PlainResources == {PlainResource}

\* Updates: of the work and the class of a flow, of the resource, the policy.
UpdatedFlows ==
    {[PlainFlow EXCEPT !.generation = g, !.resource_generation = r,
                       !.estimated_work = w, !.class_generation = g,
                       !.service_quantum = 2] :
        g \in {1, 2}, r \in {1, 2}, w \in {1, 2}}
UpdatedResources ==
    {[PlainResource EXCEPT !.capacity = 4],
     [PlainResource EXCEPT !.generation = 2, !.capacity = 1]}
UpdatedPolicies ==
    {[PlainPolicy EXCEPT !.generation = 2]}

\* A flow that can wait, and one that must be done by tick 1.
DeadlineFlows == {PlainFlow, [PlainFlow EXCEPT !.deadline_tick = 1]}

\* Flows bound to the reservation and not.
ReservedFlows ==
    {PlainFlow,
     [PlainFlow EXCEPT !.reservation = 1, !.reservation_generation = 1,
                       !.service_quantum = 2]}
WindowReservation ==
    [generation |-> 1, resource |-> "r", resource_generation |-> 1,
     window_begin |-> 1, window_end |-> 2, capacity |-> 2,
     exclusive |-> TRUE, retired |-> FALSE]
WindowReservations ==
    {WindowReservation,
     [WindowReservation EXCEPT !.generation = 2, !.capacity = 1, !.exclusive = FALSE]}
WideResources == {[PlainResource EXCEPT !.max_overlap = 2, !.capacity = 3]}

\* Flows under a deadline on a resource of one slot, or flows with and without the
\* reservation on a resource of two.
BoundFlows == DeadlineFlows \cup ReservedFlows
BoundResources == PlainResources \cup WideResources

UnderDeadline ==
    /\ resource["r"] \in {PlainResource, NoDescriptor}
    /\ reservation[1] = NoDescriptor
    /\ \A f \in Flows : flow[f] \in DeadlineFlows \cup {NoDescriptor}
UnderReservation ==
    /\ resource["r"] # PlainResource
    /\ next_attempt <= 2
    /\ flow[1] \in (ReservedFlows \ PlainFlows) \cup {NoDescriptor}
    /\ flow[2] \in ReservedFlows \cup {NoDescriptor}
DeadlineOrReservation == UnderDeadline \/ UnderReservation

\* Flows that wait for a signal or for each other.
DependentFlows ==
    {PlainFlow, [PlainFlow EXCEPT !.dependencies = {1}],
     [PlainFlow EXCEPT !.dependencies = {2}, !.auto_ready = FALSE]}
AllSignals == ReadinessSignals

\* One flow that is updated, with its resource and its policy, or two flows
\* that wait for signals and for each other and stay as they are.
ChangingFlows == UpdatedFlows \cup DependentFlows
ChangingResources == UpdatedResources \cup PlainResources

OneUpdatedFlow ==
    /\ lifecycle[2] = "Absent"
    /\ resource["r"] # PlainResource
    /\ flow[1] \in UpdatedFlows \cup {NoDescriptor}
TwoDependentFlows ==
    /\ policy = FirstPolicy
    /\ class_generation <= 1
    /\ resource["r"] \in {PlainResource, NoDescriptor}
    /\ \A f \in Flows : flow[f] # NoDescriptor =>
           \E s \in ReadinessSignals :
              [flow[f] EXCEPT !.readiness_signal = s] \in DependentFlows
OneOrTwoFlows == OneUpdatedFlow \/ TwoDependentFlows
==============================================================================
