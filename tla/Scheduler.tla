------------------------------- MODULE Scheduler -------------------------------
(***************************************************************************)
(* The runtime of src/scheduler.cpp: the flow table, the schedules it      *)
(* issues, the dispatch attempts it opens and the completions it commits.  *)
(*                                                                         *)
(* Every public method holds one mutex, so each is one action, except      *)
(* arbitrate: its loops are steps of their own (the Round... actions)      *)
(* between which round.phase # "Idle" and no other method can run.         *)
(*                                                                         *)
(* Data left out:                                                          *)
(*   - the order of candidates and of incumbents (OrderKey): a round takes *)
(*     them in any order, which covers every policy;                       *)
(*   - the schedule generation, which advances with the schedule identity  *)
(*     and so is the same number; the path binding and the window end of   *)
(*     an entry, which the flow and the reservation generation determine;  *)
(*   - priority and QoS classes are one class with one generation, as both *)
(*     are registered, bound and checked alike;                            *)
(*   - counters, explanations, digests.                                    *)
(***************************************************************************)
EXTENDS FlowTypes, Integers, Sequences, FiniteSets

CONSTANTS
    Flows,             \* FlowId values
    Resources,         \* ResourceId values
    Reservations,      \* ReservationId values
    Boots,             \* worker incarnations: WorkerId with BootId
    FlowSpace,         \* descriptors that callers submit for flows
    ResourceSpace,     \* ... for resources
    ReservationSpace,  \* ... for reservations
    PolicySpace,       \* policies that callers install
    SignalSpace,       \* readiness signals that callers send
    FirstPolicy,       \* SchedulerOptions::policy
    JournalMayFail,    \* whether an append to the journal can fail
    MaxTick,           \* bound on ticks
    MaxLag,            \* how far a caller's tick may be behind last_tick
    MaxGeneration,     \* bound on the class generation
    MaxEpoch,          \* bound on epochs
    MaxSchedules,      \* bound on schedules issued
    MaxAttempts        \* bound on attempts opened

kNoDeadline == -1
NoReservation == 0
NoAttempt == 0
NoSlot == <<0, 0>>

Ticks == 0..MaxTick

FlowDescriptors ==
    [generation : Nat, resource : Resources, resource_generation : Nat,
     reservation : Reservations \cup {NoReservation},
     reservation_generation : Nat, class_generation : Nat,
     estimated_work : Nat, service_quantum : Nat, release_tick : Nat,
     deadline_tick : Int, dependencies : SUBSET Flows,
     auto_ready : BOOLEAN, readiness_signal : ReadinessSignals,
     preemptible : BOOLEAN]

ResourceDescriptors ==
    [generation : Nat, capacity : Nat, interval : Nat, max_overlap : Nat]

ReservationDescriptors ==
    [generation : Nat, resource : Resources, resource_generation : Nat,
     window_begin : Nat, window_end : Nat, capacity : Nat,
     exclusive : BOOLEAN, retired : BOOLEAN]

Policies ==
    [policy : Nat, generation : Nat, max_flows : Nat,
     max_entries_per_schedule : Nat, max_quantum : Nat,
     strict_deadlines : BOOLEAN, preemption : BOOLEAN,
     min_preempt_service : Nat, max_preemptions_per_interval : Nat,
     preemption_interval_ticks : Nat, dispatch_delivery_horizon : Nat,
     retained_schedule_history : Nat]

has_deadline(d) == d # kNoDeadline

\* The overloads of validate(); their upper bounds on sizes are left out.
validate_resource(d) ==
    d.generation > 0 /\ d.capacity > 0 /\ d.interval > 0 /\ d.max_overlap > 0

validate_reservation(d) ==
    /\ d.generation > 0 /\ d.resource_generation > 0
    /\ d.window_begin < d.window_end
    /\ d.capacity > 0

\* The source asks for a retained history of at least 16 schedules.
validate_policy(p) ==
    /\ p.policy > 0 /\ p.generation > 0
    /\ p.max_flows > 0 /\ p.max_entries_per_schedule > 0 /\ p.max_quantum > 0
    /\ p.preemption_interval_ticks > 0
    /\ p.dispatch_delivery_horizon > 0
    /\ p.retained_schedule_history > 0

validate_flow(f, d) ==
    /\ d.generation > 0 /\ d.resource_generation > 0 /\ d.class_generation > 0
    /\ d.reservation = NoReservation <=> d.reservation_generation = 0
    /\ d.estimated_work > 0 /\ d.service_quantum > 0
    /\ has_deadline(d.deadline_tick) => d.deadline_tick > d.release_tick
    /\ f \notin d.dependencies

ASSUME IdentityAssumption ==
    /\ Flows \subseteq Nat \ {0}
    /\ Reservations \subseteq Nat \ {0}
    /\ IsFiniteSet(Flows)
    /\ MaxTick \in Nat /\ MaxLag \in Nat /\ MaxGeneration \in Nat
    /\ MaxEpoch \in Nat /\ MaxSchedules \in Nat /\ MaxAttempts \in Nat
    /\ JournalMayFail \in BOOLEAN

\* Callers pass values of the descriptor types; the policy a runtime is created
\* with has passed validate_policy.
ASSUME DescriptorAssumption ==
    /\ FlowSpace \subseteq FlowDescriptors
    /\ ResourceSpace \subseteq ResourceDescriptors
    /\ ReservationSpace \subseteq ReservationDescriptors
    /\ PolicySpace \subseteq Policies
    /\ FirstPolicy \in Policies /\ validate_policy(FirstPolicy)
    /\ SignalSpace \subseteq ReadinessSignals

VARIABLES
    epoch,            \* epoch_
    last_tick,        \* last_tick_
    policy,           \* policy_
    class_generation, \* generation of the registered class, 0 before that
    resource,         \* resources_: descriptors, NoResource before that
    in_flight,        \* ... in_flight
    reserved,         \* ... reserved_this_interval
    interval_index,   \* ... interval_index, -1 when not initialized
    reservation,      \* reservations_: descriptors, NoReservationRow before
    reserved_units,   \* ... reserved_units
    lifecycle,        \* flows_: lifecycle, "Absent" when not registered
    flow,             \* ... descriptor
    served_work,      \* ... served_work
    outstanding,      \* ... outstanding_reserved
    open_attempt,     \* ... open_attempt
    scheduled,        \* ... <<scheduled_schedule, scheduled_ordinal>>
    missed,           \* ... deadline_missed_counted
    schedules,        \* schedules_, keyed by ScheduleId
    attempts,         \* attempts_, keyed by DispatchAttemptId
    next_schedule,    \* next_schedule_
    next_attempt,     \* next_attempt_
    preemptions,      \* [window, count] of the preemption throttle
    round,            \* locals of the arbitrate() call in progress
    tickets           \* every ticket ever handed to a caller

authorityVars == <<epoch, policy, class_generation>>
resourceVars == <<resource, in_flight, reserved, interval_index>>
reservationVars == <<reservation, reserved_units>>
flowVars == <<lifecycle, flow, served_work, outstanding, open_attempt,
              scheduled, missed>>
dispatchVars == <<schedules, attempts, next_schedule, next_attempt, tickets>>
vars == <<authorityVars, last_tick, resourceVars, reservationVars, flowVars,
          dispatchVars, preemptions, round>>

NoDescriptor == [generation |-> 0]

IdleRound == [phase |-> "Idle", now |-> 0, todo |-> {}, entries |-> <<>>, next |-> 1,
              pending_in_flight |-> [r \in Resources |-> 0],
              pending_capacity |-> [r \in Resources |-> 0],
              pending_reservation |-> [v \in Reservations |-> 0]]

Init ==
    /\ epoch = 1
    /\ last_tick = 0
    /\ policy = FirstPolicy
    /\ class_generation = 0
    /\ resource = [r \in Resources |-> NoDescriptor]
    /\ in_flight = [r \in Resources |-> 0]
    /\ reserved = [r \in Resources |-> 0]
    /\ interval_index = [r \in Resources |-> -1]
    /\ reservation = [v \in Reservations |-> NoDescriptor]
    /\ reserved_units = [v \in Reservations |-> 0]
    /\ lifecycle = [f \in Flows |-> "Absent"]
    /\ flow = [f \in Flows |-> NoDescriptor]
    /\ served_work = [f \in Flows |-> 0]
    /\ outstanding = [f \in Flows |-> 0]
    /\ open_attempt = [f \in Flows |-> NoAttempt]
    /\ scheduled = [f \in Flows |-> NoSlot]
    /\ missed = [f \in Flows |-> FALSE]
    /\ schedules = <<>>
    /\ attempts = <<>>
    /\ next_schedule = 1
    /\ next_attempt = 1
    /\ preemptions = [window |-> 0, count |-> 0]
    /\ round = IdleRound
    /\ tickets = {}

-----------------------------------------------------------------------------
(***************************************************************************)
(* Helpers                                                                 *)
(***************************************************************************)

Idle == round.phase = "Idle"

\* Unsigned subtraction as the source guards it: never below zero.
Minus(a, b) == IF a >= b THEN a - b ELSE 0

Least(a, b) == IF a <= b THEN a ELSE b

Without(f, S) == [x \in DOMAIN f \ S |-> f[x]]

With(f, x, v) == [y \in DOMAIN f \cup {x} |-> IF y = x THEN v ELSE f[y]]

\* Ticks a caller may pass: it read its clock a little before the call.
Readings == {t \in Ticks : last_tick - MaxLag <= t /\ t <= last_tick + 1}

Touch(now) == last_tick' = IF last_tick < now THEN now ELSE last_tick

DeadlinePassed(d, now) == has_deadline(d) /\ now >= d

Registered(table, x) == table[x].generation > 0

window_contains(v, now) ==
    reservation[v].window_begin <= now /\ now < reservation[v].window_end

normalize_cancelling_only(table) ==
    [f \in Flows |-> IF table[f] = "Cancelling" THEN "Cancelled" ELSE table[f]]

normalize_transient_states(table) ==
    [f \in Flows |-> CASE table[f] = "Preempting" -> "Ready"
                       [] table[f] = "Cancelling" -> "Cancelled"
                       [] OTHER -> table[f]]

PolicyBinding == <<policy.policy, policy.generation>>

LiveAttempts == {a \in DOMAIN attempts : ~is_attempt_terminal(attempts[a].state)}

-----------------------------------------------------------------------------
(***************************************************************************)
(* Readiness                                                               *)
(***************************************************************************)

no_dependency_pending(f) ==
    \A g \in flow[f].dependencies : lifecycle[g] \in {"Absent", "Completed"}

dependencies_satisfied(f) ==
    \A g \in flow[f].dependencies : lifecycle[g] = "Completed"

DependencyLost(f) ==
    \E g \in flow[f].dependencies : lifecycle[g] \in {"Cancelled", "Failed"}

reservation_usable(f, now) ==
    LET v == flow[f].reservation
    IN  IF v = NoReservation
        THEN ~ \E x \in Reservations : /\ Registered(reservation, x)
                                       /\ ~reservation[x].retired
                                       /\ reservation[x].resource = flow[f].resource
                                       /\ reservation[x].exclusive
                                       /\ window_contains(x, now)
        ELSE /\ Registered(reservation, v)
             /\ ~reservation[v].retired
             /\ reservation[v].generation = flow[f].reservation_generation
             /\ reservation[v].resource = flow[f].resource
             /\ window_contains(v, now)
             /\ reserved_units[v] < reservation[v].capacity

\* Whether the signal and the release tick let the flow be looked at further.
Signalled(f, now) ==
    /\ ~is_terminal(lifecycle[f])
    /\ lifecycle[f] # "Ambiguous"
    /\ flow[f].readiness_signal # "NotReady"
    /\ flow[f].auto_ready \/ flow[f].readiness_signal = "Ready"
    /\ now >= flow[f].release_tick

\* Every reason that only defers the flow is "Blocked".
derived_readiness(f, now) ==
    IF ~Signalled(f, now) THEN "Blocked"
    ELSE IF ~dependencies_satisfied(f)
         THEN IF DependencyLost(f) THEN "DependencyFailed" ELSE "Blocked"
    ELSE IF ~reservation_usable(f, now) THEN "Blocked"
    ELSE IF DeadlinePassed(flow[f].deadline_tick, now) THEN "DeadlineMissed"
    ELSE "Selected"

\* What a round does with a flow it finds not ready: handle_deadline_miss, or
\* the failure of a flow whose dependency is lost.
LapseLifecycle(f, reason) ==
    IF \/ reason = "DependencyFailed"
       \/ reason = "DeadlineMissed" /\ ~missed[f] /\ policy.strict_deadlines
    THEN "Failed" ELSE lifecycle[f]

-----------------------------------------------------------------------------
(***************************************************************************)
(* State transitions shared by the methods                                 *)
(***************************************************************************)

\* apply_attempt_closed without the decrement of in_flight.
ClosedKeepingSlot(a, state, table) ==
    LET t == attempts[a].ticket
        f == t.entry.flow
    IN  /\ attempts' = [attempts EXCEPT ![a].state = state]
        /\ schedules' = [schedules EXCEPT ![t.schedule].open_attempts = Minus(@, 1)]
        /\ outstanding' = [outstanding EXCEPT ![f] = Minus(@, t.entry.quantum)]
        /\ open_attempt' = [open_attempt EXCEPT ![f] = NoAttempt]
        /\ lifecycle' = table
        /\ UNCHANGED in_flight

\* apply_attempt_closed without the reset of open_attempt.
ClosedButNamed(a, state, table) ==
    LET t == attempts[a].ticket
        f == t.entry.flow
    IN  /\ attempts' = [attempts EXCEPT ![a].state = state]
        /\ schedules' = [schedules EXCEPT ![t.schedule].open_attempts = Minus(@, 1)]
        /\ outstanding' = [outstanding EXCEPT ![f] = Minus(@, t.entry.quantum)]
        /\ in_flight' = [in_flight EXCEPT ![t.entry.resource] = Minus(@, 1)]
        /\ lifecycle' = table
        /\ UNCHANGED open_attempt

\* apply_attempt_closed: table is the flow table's lifecycle once the caller
\* has dealt with the closed attempt's flow.
apply_attempt_closed(a, state, table) ==
    LET t == attempts[a].ticket
        f == t.entry.flow
    IN  /\ attempts' = [attempts EXCEPT ![a].state = state]
        /\ schedules' = [schedules EXCEPT ![t.schedule].open_attempts = Minus(@, 1)]
        /\ IF open_attempt[f] = a
           THEN /\ outstanding' = [outstanding EXCEPT ![f] = Minus(@, t.entry.quantum)]
                /\ open_attempt' = [open_attempt EXCEPT ![f] = NoAttempt]
                /\ in_flight' = [in_flight EXCEPT ![t.entry.resource] = Minus(@, 1)]
                /\ lifecycle' = table
           ELSE UNCHANGED <<outstanding, open_attempt, in_flight, lifecycle>>

\* The Run entries of schedule s among the indexes I whose window is still
\* held by their flow: the flows that release_run_entry returns to Ready.
Holding(s, I) ==
    {i \in I \cap DOMAIN schedules[s].entries :
               /\ schedules[s].consumed[i] = 0
               /\ schedules[s].entries[i].kind = "Run"
               /\ lifecycle[schedules[s].entries[i].flow] = "Scheduled"
               /\ scheduled[schedules[s].entries[i].flow][1] = s}

\* release_run_entry for every index of I; table is the lifecycle table after
\* the caller has dealt with the released flows.
release_run_entries(s, I, table) ==
    LET sch == schedules[s]
        open == {i \in I \cap DOMAIN sch.entries : sch.consumed[i] = 0}
        runs == {i \in open : sch.entries[i].kind = "Run"}
        held == Holding(s, I)
        freed == {sch.entries[i].flow : i \in held}
        entry(f) == sch.entries[CHOOSE i \in held : sch.entries[i].flow = f]
    IN  /\ schedules' = [schedules EXCEPT
              ![s].consumed = [i \in DOMAIN @ |-> IF i \in open THEN 2 ELSE @[i]],
              ![s].pending_entries = Minus(@, Cardinality(runs))]
        /\ outstanding' = [f \in Flows |->
              IF f \in freed THEN Minus(outstanding[f], entry(f).quantum)
              ELSE outstanding[f]]
        /\ scheduled' = [f \in Flows |-> IF f \in freed THEN NoSlot ELSE scheduled[f]]
        /\ in_flight' = [r \in Resources |->
              Minus(in_flight[r],
                    Cardinality({i \in held : sch.entries[i].resource = r}))]
        /\ lifecycle' = table

\* The lifecycle table with the released flows back in Ready.
Released(s, I) ==
    [f \in Flows |-> IF \E i \in Holding(s, I) : schedules[s].entries[i].flow = f
                     THEN "Ready" ELSE lifecycle[f]]

-----------------------------------------------------------------------------
(***************************************************************************)
(* Topology and policy                                                     *)
(***************************************************************************)

\* A generation change restarts the interval; work in flight is kept.
register_resource(r, d) ==
    /\ Idle
    /\ validate_resource(d)
    /\ d.generation = resource[r].generation + 1
    /\ resource' = [resource EXCEPT ![r] = d]
    /\ interval_index' = [interval_index EXCEPT ![r] = -1]
    /\ reserved' = [reserved EXCEPT ![r] = 0]
    /\ UNCHANGED <<authorityVars, last_tick, in_flight, reservationVars,
                   flowVars, dispatchVars, preemptions, round>>

\* An update revives a retired reservation and keeps the units granted so far.
register_reservation(v, d) ==
    /\ Idle
    /\ validate_reservation(d)
    /\ Registered(resource, d.resource)
    /\ d.resource_generation = resource[d.resource].generation
    /\ d.generation = reservation[v].generation + 1
    /\ reservation' = [reservation EXCEPT ![v] = d]
    /\ UNCHANGED <<authorityVars, last_tick, resourceVars, reserved_units,
                   flowVars, dispatchVars, preemptions, round>>

retire_reservation(v) ==
    /\ Idle
    /\ Registered(reservation, v)
    /\ ~reservation[v].retired
    /\ reservation' = [reservation EXCEPT ![v].retired = TRUE]
    /\ UNCHANGED <<authorityVars, last_tick, resourceVars, reserved_units,
                   flowVars, dispatchVars, preemptions, round>>

\* register_priority_class and register_qos_class.
register_class ==
    /\ Idle
    /\ class_generation < MaxGeneration
    /\ class_generation' = class_generation + 1
    /\ UNCHANGED <<epoch, policy, last_tick, resourceVars, reservationVars,
                   flowVars, dispatchVars, preemptions, round>>

Present == {f \in Flows : lifecycle[f] # "Absent"}

install_policy(p) ==
    /\ Idle
    /\ validate_policy(p)
    /\ p.generation = IF p.policy = policy.policy THEN policy.generation + 1 ELSE 1
    /\ p.max_flows >= Cardinality(Present)
    /\ policy' = p
    /\ UNCHANGED <<epoch, class_generation, last_tick, resourceVars,
                   reservationVars, flowVars, dispatchVars, preemptions, round>>

-----------------------------------------------------------------------------
(***************************************************************************)
(* Flow lifecycle                                                          *)
(***************************************************************************)

\* The bindings a descriptor must name as they are now.
BindsCurrent(d) ==
    /\ Registered(resource, d.resource)
    /\ d.resource_generation = resource[d.resource].generation

admit_flow(f, d) ==
    /\ Idle
    /\ validate_flow(f, d)
    /\ lifecycle[f] = "Absent"
    /\ BindsCurrent(d)
    /\ class_generation > 0 /\ d.class_generation = class_generation
    /\ d.reservation # NoReservation =>
          /\ Registered(reservation, d.reservation)
          /\ ~reservation[d.reservation].retired
          /\ reservation[d.reservation].generation = d.reservation_generation
          /\ reservation[d.reservation].resource = d.resource
    /\ Cardinality(Present) < policy.max_flows
    /\ flow' = [flow EXCEPT ![f] = d]
    /\ lifecycle' = [lifecycle EXCEPT ![f] = "Waiting"]
    /\ served_work' = [served_work EXCEPT ![f] = 0]
    /\ outstanding' = [outstanding EXCEPT ![f] = 0]
    /\ open_attempt' = [open_attempt EXCEPT ![f] = NoAttempt]
    /\ scheduled' = [scheduled EXCEPT ![f] = NoSlot]
    /\ missed' = [missed EXCEPT ![f] = FALSE]
    /\ UNCHANGED <<authorityVars, last_tick, resourceVars, reservationVars,
                   dispatchVars, preemptions, round>>

AnyWorkloadChange(f, d) == TRUE

\* Dependencies or work may not change once the flow has progress, unless it
\* is Waiting.
WorkloadChangeAllowed(f, d) ==
    \/ /\ flow[f].dependencies = {} /\ d.dependencies = {}
       /\ flow[f].estimated_work = d.estimated_work
    \/ lifecycle[f] = "Waiting"
    \/ served_work[f] = 0

KeepWindow(f) ==
    UNCHANGED <<schedules, outstanding, scheduled, in_flight, lifecycle>>

\* The window a Scheduled flow holds was issued under the old generation, so
\* it is released.
RetireWindow(f) ==
    IF lifecycle[f] = "Scheduled" /\ scheduled[f][1] \in DOMAIN schedules
    THEN release_run_entries(scheduled[f][1], {scheduled[f][2]},
                             Released(scheduled[f][1], {scheduled[f][2]}))
    ELSE UNCHANGED <<schedules, outstanding, scheduled, in_flight, lifecycle>>

update_flow(f, d) ==
    /\ Idle
    /\ validate_flow(f, d)
    /\ lifecycle[f] # "Absent"
    /\ d.generation = flow[f].generation + 1
    /\ WorkloadChangeAllowed(f, d)
    /\ BindsCurrent(d)
    /\ ~holds_open_work(lifecycle[f])
    /\ flow' = [flow EXCEPT ![f] = d]
    /\ RetireWindow(f)
    /\ UNCHANGED <<authorityVars, last_tick, resource, reserved, interval_index,
                   reservationVars, served_work, open_attempt, missed, attempts,
                   next_schedule, next_attempt, tickets, preemptions, round>>

\* cancel_flow closes the open attempt or releases the window; in every case
\* the flow ends Cancelled and holds nothing.
cancel_flow(f) ==
    LET table == normalize_transient_states([lifecycle EXCEPT ![f] = "Cancelled"])
        slot == scheduled[f]
    IN  /\ Idle
        /\ lifecycle[f] # "Absent"
        /\ ~is_terminal(lifecycle[f])
        /\ lifecycle' = table
        /\ outstanding' = [outstanding EXCEPT ![f] = 0]
        /\ scheduled' = [scheduled EXCEPT ![f] = NoSlot]
        /\ IF open_attempt[f] # NoAttempt
           THEN LET t == attempts[open_attempt[f]].ticket
                IN  /\ attempts' = [attempts EXCEPT ![open_attempt[f]].state = "Cancelled"]
                    /\ schedules' = [schedules EXCEPT
                           ![t.schedule].open_attempts = Minus(@, 1)]
                    /\ open_attempt' = [open_attempt EXCEPT ![f] = NoAttempt]
                    /\ in_flight' = [in_flight EXCEPT ![t.entry.resource] = Minus(@, 1)]
           ELSE /\ UNCHANGED <<attempts, open_attempt>>
                /\ IF lifecycle[f] = "Scheduled"
                   THEN /\ schedules' = [schedules EXCEPT
                               ![slot[1]].consumed[slot[2]] = 2,
                               ![slot[1]].pending_entries = Minus(@, 1)]
                        /\ in_flight' = [in_flight EXCEPT
                               ![schedules[slot[1]].entries[slot[2]].resource] = Minus(@, 1)]
                   ELSE UNCHANGED <<schedules, in_flight>>
        /\ UNCHANGED <<authorityVars, last_tick, resource, reserved,
                       interval_index, reservationVars, flow, served_work,
                       missed, next_schedule, next_attempt, tickets,
                       preemptions, round>>

notify_readiness(f, signal, now) ==
    /\ Idle
    /\ lifecycle[f] # "Absent"
    /\ ~is_terminal(lifecycle[f])
    /\ Touch(now)
    /\ flow' = [flow EXCEPT ![f].readiness_signal = signal]
    /\ UNCHANGED <<authorityVars, resourceVars, reservationVars, lifecycle,
                   served_work, outstanding, open_attempt, scheduled, missed,
                   dispatchVars, preemptions, round>>

\* Mutant of resolve_ambiguous: a cancelled flow is resolved too.
resolve_cancelled(f, after, now) ==
    /\ Idle
    /\ lifecycle[f] \in {"Ambiguous", "Cancelled"}
    /\ after \in {"Waiting", "Failed"}
    /\ Touch(now)
    /\ lifecycle' = [lifecycle EXCEPT ![f] = after]
    /\ UNCHANGED <<authorityVars, resourceVars, reservationVars, flow,
                   served_work, outstanding, open_attempt, scheduled, missed,
                   dispatchVars, preemptions, round>>

\* Retry returns the flow to Waiting, Abandon makes it Failed.
resolve_ambiguous(f, after, now) ==
    /\ Idle
    /\ lifecycle[f] = "Ambiguous"
    /\ after \in {"Waiting", "Failed"}
    /\ Touch(now)
    /\ lifecycle' = [lifecycle EXCEPT ![f] = after]
    /\ UNCHANGED <<authorityVars, resourceVars, reservationVars, flow,
                   served_work, outstanding, open_attempt, scheduled, missed,
                   dispatchVars, preemptions, round>>

\* The row is erased; its fields are reset here so that equal tables are equal
\* states.
retire_flow(f) ==
    /\ Idle
    /\ is_terminal(lifecycle[f])
    /\ lifecycle' = [lifecycle EXCEPT ![f] = "Absent"]
    /\ flow' = [flow EXCEPT ![f] = NoDescriptor]
    /\ served_work' = [served_work EXCEPT ![f] = 0]
    /\ outstanding' = [outstanding EXCEPT ![f] = 0]
    /\ open_attempt' = [open_attempt EXCEPT ![f] = NoAttempt]
    /\ scheduled' = [scheduled EXCEPT ![f] = NoSlot]
    /\ missed' = [missed EXCEPT ![f] = FALSE]
    /\ UNCHANGED <<authorityVars, last_tick, resourceVars, reservationVars,
                   dispatchVars, preemptions, round>>

-----------------------------------------------------------------------------
(***************************************************************************)
(* Epoch, dispatch, completion                                             *)
(***************************************************************************)

\* Every live attempt is abandoned, every window released (a Scheduled flow holds
\* one: WindowHeld), and the retained schedules and attempts are forgotten.
advance_epoch ==
    /\ Idle
    /\ epoch < MaxEpoch
    /\ epoch' = epoch + 1
    /\ lifecycle' = normalize_transient_states([f \in Flows |->
          IF open_attempt[f] \in LiveAttempts THEN "Ambiguous"
          ELSE IF lifecycle[f] = "Scheduled" THEN "Ready" ELSE lifecycle[f]])
    /\ open_attempt' = [f \in Flows |->
          IF open_attempt[f] \in LiveAttempts THEN NoAttempt ELSE open_attempt[f]]
    /\ outstanding' = [f \in Flows |-> 0]
    /\ scheduled' = [f \in Flows |-> NoSlot]
    /\ in_flight' = [r \in Resources |-> 0]
    /\ schedules' = <<>>
    /\ attempts' = <<>>
    /\ preemptions' = [window |-> 0, count |-> 0]
    /\ UNCHANGED <<policy, class_generation, last_tick, resource, reserved,
                   interval_index, reservationVars, flow, served_work, missed,
                   next_schedule, next_attempt, round, tickets>>

\* Returns the flows of undelivered entries to Ready; the units they reserved
\* in the interval and in a reservation stay charged.
release_schedule(s) ==
    /\ Idle
    /\ s \in DOMAIN schedules
    /\ release_run_entries(s, DOMAIN schedules[s].entries,
           normalize_transient_states(Released(s, DOMAIN schedules[s].entries)))
    /\ UNCHANGED <<authorityVars, last_tick, resource, reserved, interval_index,
                   reservationVars, flow, served_work, open_attempt, missed,
                   attempts, next_schedule, next_attempt, tickets, preemptions,
                   round>>

\* e is the entry a dispatch rests on; binding and ep are the policy binding
\* and the epoch the caller of the check presents.
validate_ticket_fields(e, binding, ep, now) ==
    /\ ep = epoch
    /\ binding = PolicyBinding
    /\ lifecycle[e.flow] # "Absent"
    /\ flow[e.flow].generation = e.flow_generation
    /\ resource[e.resource].generation = e.resource_generation
    /\ class_generation = e.class_generation
    /\ e.reservation # NoReservation =>
          /\ ~reservation[e.reservation].retired
          /\ reservation[e.reservation].generation = e.reservation_generation
          /\ window_contains(e.reservation, now)
    /\ ~DeadlinePassed(e.deadline_tick, now)

\* The check is handed the current policy and epoch, not the schedule's.
begin_dispatch(s, i, boot, now) ==
    LET sch == schedules[s]
        e == sch.entries[i]
        t == [attempt |-> next_attempt, epoch |-> epoch, schedule |-> s,
              policy |-> PolicyBinding, boot |-> boot, entry |-> e]
    IN  /\ Idle
        /\ next_attempt <= MaxAttempts
        /\ sch.epoch = epoch
        /\ e.kind = "Run"
        /\ sch.consumed[i] = 0
        /\ lifecycle[e.flow] = "Scheduled"
        /\ scheduled[e.flow][1] = s
        /\ flow[e.flow].generation = e.flow_generation
        /\ validate_ticket_fields(e, PolicyBinding, epoch, now)
        /\ Touch(now)
        /\ attempts' = With(attempts, next_attempt,
                            [ticket |-> t, state |-> "Open", evidence |-> <<>>])
        /\ schedules' = [schedules EXCEPT ![s].open_attempts = @ + 1,
                                          ![s].consumed[i] = 1,
                                          ![s].pending_entries = Minus(@, 1)]
        /\ open_attempt' = [open_attempt EXCEPT ![e.flow] = next_attempt]
        /\ lifecycle' = [lifecycle EXCEPT ![e.flow] = "Dispatched"]
        /\ next_attempt' = next_attempt + 1
        /\ tickets' = tickets \cup {t}
        /\ UNCHANGED <<authorityVars, resourceVars, reservationVars, flow,
                       served_work, outstanding, scheduled, missed,
                       next_schedule, preemptions, round>>

\* A second acknowledgement, of a Started attempt, changes nothing.
mark_started(t, now) ==
    /\ Idle
    /\ t.attempt \in DOMAIN attempts
    /\ attempts[t.attempt].state = "Open"
    /\ validate_ticket_fields(t.entry, t.policy, t.epoch, now)
    /\ Touch(now)
    /\ attempts' = [attempts EXCEPT ![t.attempt].state = "Started"]
    /\ LET f == attempts[t.attempt].ticket.entry.flow
       IN  lifecycle' = IF open_attempt[f] = t.attempt
                        THEN [lifecycle EXCEPT ![f] = "Running"] ELSE lifecycle
    /\ UNCHANGED <<authorityVars, resourceVars, reservationVars, flow,
                   served_work, outstanding, open_attempt, scheduled, missed,
                   schedules, next_schedule, next_attempt, tickets, preemptions,
                   round>>

\* abandon_attempt and preempt_attempt; a closed attempt is left as it is.
CloseByCaller(a, state, after, now) ==
    /\ Idle
    /\ a \in LiveAttempts
    /\ Touch(now)
    /\ apply_attempt_closed(a, state, normalize_transient_states(
           [lifecycle EXCEPT ![attempts[a].ticket.entry.flow] = after]))
    /\ UNCHANGED <<authorityVars, resource, reserved, interval_index,
                   reservationVars, flow, served_work, scheduled, missed,
                   next_schedule, next_attempt, tickets, preemptions, round>>

abandon_attempt(a, now) == CloseByCaller(a, "Abandoned", "Ambiguous", now)

preempt_attempt(a, now) == CloseByCaller(a, "Preempted", "Preempting", now)

\* The checks of complete() in their order; ev echoes a ticket.
NamesAttempt(ev) ==
    LET f == ev.ticket.entry.flow
    IN  /\ ev.ticket.epoch = epoch
        /\ lifecycle[f] # "Absent"
        /\ flow[f].generation = ev.ticket.entry.flow_generation
        /\ ev.attempt \in DOMAIN attempts
        /\ attempts[ev.attempt].ticket.entry.flow = f
        /\ attempts[ev.attempt].ticket.schedule = ev.ticket.schedule

FromAnyone(ev) == TRUE

FromOwner(ev) == attempts[ev.attempt].ticket.boot = ev.boot

StillRetained(ev) == TRUE

StillOpen(ev) ==
    /\ ~is_attempt_terminal(attempts[ev.attempt].state)
    /\ open_attempt[ev.ticket.entry.flow] = ev.attempt

WithinDeadline(ev, now) ==
    ~(/\ DeadlinePassed(attempts[ev.attempt].ticket.entry.deadline_tick, now)
      /\ ev.outcome = "Served")

WithinGrant(ev, now) ==
    /\ ev.served <= attempts[ev.attempt].ticket.entry.quantum
    /\ WithinDeadline(ev, now)

Credit(ev) == IF ev.outcome = "Served" THEN ev.served ELSE 0

\* A flow with work left is looked at again at once.
LifecycleAfter(ev, now) ==
    LET f == ev.ticket.entry.flow
    IN  IF ev.outcome = "Failed" THEN "Failed"
        ELSE IF served_work[f] + Credit(ev) >= flow[f].estimated_work THEN "Completed"
        ELSE IF derived_readiness(f, now) = "Selected" THEN "Ready"
        ELSE "Waiting"

\* The commit.  Evidence that is refused, and an exact duplicate, change
\* nothing but last_tick: that is Refused.
complete(ev, now) ==
    LET f == ev.ticket.entry.flow
        t == attempts[ev.attempt].ticket
    IN  /\ Idle
        /\ NamesAttempt(ev)
        /\ FromOwner(ev)
        /\ StillOpen(ev)
        /\ WithinGrant(ev, now)
        /\ Touch(now)
        /\ attempts' = [attempts EXCEPT ![ev.attempt].state = "Committed",
                                        ![ev.attempt].evidence = <<ev>>]
        /\ schedules' = [schedules EXCEPT ![t.schedule].open_attempts = Minus(@, 1)]
        /\ outstanding' = [outstanding EXCEPT ![f] = Minus(@, t.entry.quantum)]
        /\ open_attempt' = [open_attempt EXCEPT ![f] = NoAttempt]
        /\ scheduled' = [scheduled EXCEPT ![f] = NoSlot]
        /\ in_flight' = [in_flight EXCEPT ![t.entry.resource] = Minus(@, 1)]
        /\ served_work' = [served_work EXCEPT ![f] = @ + Credit(ev)]
        /\ lifecycle' = normalize_transient_states(
                            [lifecycle EXCEPT ![f] = LifecycleAfter(ev, now)])
        /\ UNCHANGED <<authorityVars, resource, reserved, interval_index,
                       reservationVars, flow, missed, next_schedule,
                       next_attempt, tickets, preemptions, round>>

\* A call that is refused after it has recorded its tick.
Refused(now) ==
    /\ Idle
    /\ last_tick < now
    /\ Touch(now)
    /\ UNCHANGED <<authorityVars, resourceVars, reservationVars, flowVars,
                   dispatchVars, preemptions, round>>

-----------------------------------------------------------------------------
(***************************************************************************)
(* arbitrate().  A round goes through the phases                           *)
(*    Reclaim -> Refresh -> Overdue -> Assign -> Issue -> Idle             *)
(* and holds the mutex until it is Idle again.                             *)
(***************************************************************************)

\* The loop variable of the next phase.
Enter(phase, todo) == round' = [round EXCEPT !.phase = phase, !.todo = todo]

RoundBegin(now) ==
    /\ Idle
    /\ now >= last_tick
    /\ next_schedule <= MaxSchedules
    /\ last_tick' = now
    /\ round' = [IdleRound EXCEPT !.phase = "Reclaim", !.now = now]
    /\ UNCHANGED <<authorityVars, resourceVars, reservationVars, flowVars,
                   dispatchVars, preemptions>>

\* Schedules whose undelivered entries have outlived the delivery horizon.
\* Issue ticks never decrease along schedule_order_, so these are the ones
\* the loop meets before its break.
Expired ==
    {s \in DOMAIN schedules :
        /\ schedules[s].pending_entries > 0
        /\ schedules[s].at_tick + policy.dispatch_delivery_horizon <= round.now}

\* reclaim_expired_deliveries, one schedule at a time.
RoundReclaim(s) ==
    /\ round.phase = "Reclaim"
    /\ s \in Expired
    /\ \A x \in Expired : s <= x
    /\ release_run_entries(s, DOMAIN schedules[s].entries,
                           Released(s, DOMAIN schedules[s].entries))
    /\ UNCHANGED <<authorityVars, last_tick, resource, reserved, interval_index,
                   reservationVars, flow, served_work, open_attempt, missed,
                   attempts, next_schedule, next_attempt, tickets, preemptions,
                   round>>

\* Nothing left to reclaim, or the journal refused the record and the rest is
\* left for a later round.
RoundReclaimed ==
    /\ round.phase = "Reclaim"
    /\ Expired = {} \/ JournalMayFail
    /\ Enter("Refresh", {f \in Flows : lifecycle[f] = "Waiting"})
    /\ UNCHANGED <<authorityVars, last_tick, resourceVars, reservationVars,
                   flowVars, dispatchVars, preemptions>>

\* refresh_lifecycles, first loop: waiting flows in the order of their ids.
RoundRefresh(f) ==
    LET reason == derived_readiness(f, round.now)
    IN  /\ round.phase = "Refresh"
        /\ f \in round.todo
        /\ \A g \in round.todo : f <= g
        /\ lifecycle' = [lifecycle EXCEPT ![f] =
               IF reason = "Selected" THEN "Ready" ELSE LapseLifecycle(f, reason)]
        /\ missed' = [missed EXCEPT ![f] = @ \/ reason = "DeadlineMissed"]
        /\ Enter("Refresh", round.todo \ {f})
        /\ UNCHANGED <<authorityVars, last_tick, resourceVars, reservationVars,
                       flow, served_work, outstanding, open_attempt, scheduled,
                       dispatchVars, preemptions>>

LateOverdue == {f \in Flows : /\ holds_open_work(lifecycle[f])
                              /\ has_deadline(flow[f].deadline_tick)
                              /\ round.now > flow[f].deadline_tick}

\* Flows that hold open work past their deadline.
Overdue == {f \in Flows : /\ holds_open_work(lifecycle[f])
                          /\ DeadlinePassed(flow[f].deadline_tick, round.now)}

\* refresh_lifecycles, second loop: the miss of a flow in flight is counted.
RoundRefreshed ==
    /\ round.phase = "Refresh"
    /\ round.todo = {}
    /\ missed' = [f \in Flows |-> missed[f] \/ f \in Overdue]
    /\ Enter("Overdue", {f \in Overdue : open_attempt[f] # NoAttempt})
    /\ UNCHANGED <<authorityVars, last_tick, resourceVars, reservationVars,
                   lifecycle, flow, served_work, outstanding, open_attempt,
                   scheduled, dispatchVars, preemptions>>

\* Step 1 of a round: stop a flow that runs past its deadline.
RoundOverdue(f) ==
    /\ round.phase = "Overdue"
    /\ f \in round.todo
    /\ apply_attempt_closed(open_attempt[f], "Preempted",
                            [lifecycle EXCEPT ![f] = "Preempting"])
    /\ Enter("Overdue", round.todo \ {f})
    /\ UNCHANGED <<authorityVars, last_tick, resource, reserved, interval_index,
                   reservationVars, flow, served_work, scheduled, missed,
                   next_schedule, next_attempt, tickets, preemptions>>

\* Step 2: the candidates are the ready flows; the preemption throttle starts
\* over in a new window.
RoundRank ==
    LET window == round.now \div policy.preemption_interval_ticks
    IN  /\ round.phase = "Overdue"
        /\ round.todo = {}
        /\ Enter("Assign", {f \in Flows : lifecycle[f] = "Ready"})
        /\ preemptions' = IF window = preemptions.window THEN preemptions
                          ELSE [window |-> window, count |-> 0]
        /\ UNCHANGED <<authorityVars, last_tick, resourceVars, reservationVars,
                       flowVars, dispatchVars>>

\* An append fails while the round closes an attempt or issues its schedule:
\* arbitrate returns the error at once, and nothing is normalized.
RoundAborted ==
    /\ JournalMayFail
    /\ \/ round.phase = "Overdue" /\ round.todo # {}
       \/ round.phase = "Assign" /\ round.todo = {} /\ round.entries # <<>>
    /\ round' = IdleRound
    /\ UNCHANGED <<authorityVars, last_tick, resourceVars, reservationVars,
                   flowVars, dispatchVars, preemptions>>

-----------------------------------------------------------------------------
(***************************************************************************)
(* Step 3 of a round: greedy assignment, one candidate at a time.          *)
(***************************************************************************)

Candidate(f) ==
    /\ round.phase = "Assign"
    /\ f \in round.todo

\* Readiness lapsed while the flow stayed in the ready set.
RoundLapse(f) ==
    LET reason == derived_readiness(f, round.now)
    IN  /\ Candidate(f)
        /\ reason # "Selected"
        /\ lifecycle' = [lifecycle EXCEPT ![f] = LapseLifecycle(f, reason)]
        /\ missed' = [missed EXCEPT ![f] = @ \/ reason = "DeadlineMissed"]
        /\ Enter("Assign", round.todo \ {f})
        /\ UNCHANGED <<authorityVars, last_tick, resourceVars, reservationVars,
                       flow, served_work, outstanding, open_attempt, scheduled,
                       dispatchVars, preemptions>>

\* The round may still place an entry for f on its resource.
Placeable(f) ==
    /\ Len(round.entries) < policy.max_entries_per_schedule
    /\ resource[flow[f].resource].generation = flow[f].resource_generation

RoundSkip(f) ==
    /\ Candidate(f)
    /\ derived_readiness(f, round.now) = "Selected"
    /\ ~Placeable(f)
    /\ Enter("Assign", round.todo \ {f})
    /\ UNCHANGED <<authorityVars, last_tick, resourceVars, reservationVars,
                   flowVars, dispatchVars, preemptions>>

RolledReserved(r) ==
    IF interval_index[r] = round.now \div resource[r].interval THEN reserved[r] ELSE 0

roll_interval(r) ==
    /\ interval_index' = [interval_index EXCEPT ![r] = round.now \div resource[r].interval]
    /\ reserved' = [reserved EXCEPT ![r] = RolledReserved(r)]

\* The concurrency ceiling, counting the windows this round has granted.
AtCeiling(r) ==
    in_flight[r] + round.pending_in_flight[r] >= resource[r].max_overlap

AllWork(f) == flow[f].estimated_work

remaining_work(f) == Minus(flow[f].estimated_work, served_work[f])

\* What the interval has left, less what this round has placed.
CapacityLeft(r) ==
    Minus(Minus(resource[r].capacity, RolledReserved(r)), round.pending_capacity[r])

SlackBeforeRound(v) == Minus(reservation[v].capacity, reserved_units[v])

ReservationSlack(v) ==
    Minus(Minus(reservation[v].capacity, reserved_units[v]), round.pending_reservation[v])

\* The largest legal service window.  policy.max_quantum stands for the
\* policy's and the class's ceiling.
Quantum(f) ==
    LET d == flow[f]
        work == Least(Least(d.service_quantum, remaining_work(f)), policy.max_quantum)
        room == Least(work, CapacityLeft(d.resource))
        bound == IF d.reservation = NoReservation THEN room
                 ELSE Least(room, ReservationSlack(d.reservation))
    IN  IF has_deadline(d.deadline_tick) /\ policy.strict_deadlines
        THEN Least(bound, Minus(d.deadline_tick, round.now)) ELSE bound

RunEntry(f, q) ==
    [kind |-> "Run", flow |-> f, flow_generation |-> flow[f].generation,
     resource |-> flow[f].resource,
     resource_generation |-> flow[f].resource_generation,
     reservation |-> flow[f].reservation,
     reservation_generation |-> flow[f].reservation_generation,
     class_generation |-> flow[f].class_generation,
     quantum |-> q, deadline_tick |-> flow[f].deadline_tick]

\* Place without the test for an empty window.
PlaceAny(f, entries) ==
    round' = [round EXCEPT !.todo = @ \ {f},
                           !.entries = Append(entries, RunEntry(f, Quantum(f)))]

\* Place the window of f after the entries given; no window of zero units is
\* ever placed.
Place(f, entries) ==
    LET q == Quantum(f)
        r == flow[f].resource
        v == flow[f].reservation
        next == [round EXCEPT !.todo = @ \ {f}, !.entries = entries]
    IN  round' = IF q = 0 THEN next
                 ELSE [next EXCEPT
                         !.entries = Append(entries, RunEntry(f, q)),
                         !.pending_in_flight[r] = @ + 1,
                         !.pending_capacity[r] = @ + q,
                         !.pending_reservation =
                             [x \in Reservations |-> IF x = v THEN @[x] + q ELSE @[x]]]

RoundGrant(f) ==
    /\ Candidate(f)
    /\ derived_readiness(f, round.now) = "Selected"
    /\ Placeable(f)
    /\ ~AtCeiling(flow[f].resource)
    /\ roll_interval(flow[f].resource)
    /\ Place(f, round.entries)
    /\ UNCHANGED <<authorityVars, last_tick, resource, in_flight,
                   reservationVars, flowVars, dispatchVars, preemptions>>

\* The part of preemption_allowed that does not depend on the order of flows.
MayDisplace(v) ==
    /\ policy.preemption
    /\ flow[v].preemptible
    /\ served_work[v] >= policy.min_preempt_service
    /\ preemptions.count < policy.max_preemptions_per_interval

Incumbents(r) == {v \in Flows : /\ holds_open_work(lifecycle[v])
                                /\ open_attempt[v] # NoAttempt
                                /\ flow[v].resource = r}

\* The ceiling blocks f and no displacement is authorized, or the journal
\* refuses the displacement and the round ends with the error.
RoundBlocked(f) ==
    LET r == flow[f].resource
    IN  /\ Candidate(f)
        /\ derived_readiness(f, round.now) = "Selected"
        /\ Placeable(f)
        /\ AtCeiling(r)
        /\ roll_interval(r)
        /\ \/ Enter("Assign", round.todo \ {f})
           \/ /\ JournalMayFail
              /\ \E v \in Incumbents(r) : MayDisplace(v)
              /\ round' = IdleRound
        /\ UNCHANGED <<authorityVars, last_tick, resource, in_flight,
                       reservationVars, flowVars, dispatchVars, preemptions>>

\* f displaces the incumbent v; v is in Preempting until the round ends.
RoundDisplace(f, v) ==
    LET r == flow[f].resource
        a == open_attempt[v]
    IN  /\ Candidate(f)
        /\ derived_readiness(f, round.now) = "Selected"
        /\ Placeable(f)
        /\ AtCeiling(r)
        /\ v \in Incumbents(r)
        /\ MayDisplace(v)
        /\ roll_interval(r)
        /\ apply_attempt_closed(a, "Preempted", [lifecycle EXCEPT ![v] = "Preempting"])
        /\ preemptions' = [preemptions EXCEPT !.count = @ + 1]
        /\ Place(f, Append(round.entries,
                           [attempts[a].ticket.entry EXCEPT !.kind = "Preempt"]))
        /\ UNCHANGED <<authorityVars, last_tick, resource, reservationVars, flow,
                       served_work, scheduled, missed, next_schedule,
                       next_attempt, tickets>>

\* apply_schedule skips an entry whose flow is gone, advanced or busy.
Applies(e) ==
    /\ e.kind = "Run"
    /\ lifecycle[e.flow] # "Absent"
    /\ flow[e.flow].generation = e.flow_generation
    /\ ~is_terminal(lifecycle[e.flow]) /\ ~holds_open_work(lifecycle[e.flow])

\* maybe_retire_schedules: from the front, while the history is too long and
\* the schedule has no outstanding authority.
Retired(table) ==
    {s \in DOMAIN table :
        /\ Cardinality({x \in DOMAIN table : x <= s})
              <= Cardinality(DOMAIN table) - policy.retained_schedule_history
        /\ \A x \in DOMAIN table :
              x <= s => table[x].open_attempts = 0 /\ table[x].pending_entries = 0}

\* The schedule is stored with its entries not yet applied.
RoundIssue ==
    LET issued == [epoch |-> epoch, policy |-> PolicyBinding, at_tick |-> round.now,
                   entries |-> round.entries,
                   consumed |-> [i \in DOMAIN round.entries |-> 0],
                   open_attempts |-> 0, pending_entries |-> 0]
    IN  /\ round.phase = "Assign"
        /\ round.todo = {}
        /\ schedules' = IF round.entries = <<>> THEN schedules
                        ELSE With(schedules, next_schedule, issued)
        /\ round' = [round EXCEPT !.phase = "Issue", !.next = 1]
        /\ UNCHANGED <<authorityVars, last_tick, resourceVars, reservationVars,
                       flowVars, attempts, next_schedule, next_attempt, tickets,
                       preemptions>>

\* The window of one entry is handed to its flow and charged to the resource and
\* the reservation it names; the round has rolled the resource's interval.
Assign(e) ==
    /\ outstanding' = [outstanding EXCEPT ![e.flow] = @ + e.quantum]
    /\ scheduled' = [scheduled EXCEPT ![e.flow] = <<next_schedule, round.next>>]
    /\ lifecycle' = [lifecycle EXCEPT ![e.flow] = "Scheduled"]
    /\ schedules' = [schedules EXCEPT ![next_schedule].pending_entries = @ + 1]
    /\ IF resource[e.resource].generation = e.resource_generation
       THEN /\ reserved' = [reserved EXCEPT ![e.resource] = @ + e.quantum]
            /\ in_flight' = [in_flight EXCEPT ![e.resource] = @ + 1]
       ELSE UNCHANGED <<reserved, in_flight>>
    /\ reserved_units' = [v \in Reservations |->
           IF v = e.reservation /\ reservation[v].generation = e.reservation_generation
           THEN reserved_units[v] + e.quantum ELSE reserved_units[v]]

\* apply_schedule, one entry at a time.
RoundApply ==
    /\ round.phase = "Issue"
    /\ round.next <= Len(round.entries)
    /\ IF Applies(round.entries[round.next])
       THEN Assign(round.entries[round.next])
       ELSE UNCHANGED <<outstanding, scheduled, lifecycle, schedules, reserved,
                        in_flight, reserved_units>>
    /\ round' = [round EXCEPT !.next = @ + 1]
    /\ UNCHANGED <<authorityVars, last_tick, resource, interval_index, reservation,
                   flow, served_work, open_attempt, missed, attempts,
                   next_schedule, next_attempt, tickets, preemptions>>

\* The end of a round: normalize, and retire old schedules with their attempts.
RoundFinish ==
    /\ round.phase = "Issue"
    /\ round.next > Len(round.entries)
    /\ lifecycle' = normalize_transient_states(lifecycle)
    /\ schedules' = Without(schedules, Retired(schedules))
    /\ attempts' = Without(attempts,
           {a \in DOMAIN attempts : attempts[a].ticket.schedule \in Retired(schedules)})
    /\ next_schedule' = IF round.entries = <<>> THEN next_schedule ELSE next_schedule + 1
    /\ round' = IdleRound
    /\ UNCHANGED <<authorityVars, last_tick, resourceVars, reservationVars, flow,
                   served_work, outstanding, open_attempt, scheduled, missed,
                   next_attempt, tickets, preemptions>>

RoundStep ==
    \/ \E s \in DOMAIN schedules : RoundReclaim(s)
    \/ RoundReclaimed
    \/ \E f \in Flows : RoundRefresh(f)
    \/ RoundRefreshed
    \/ \E f \in Flows : RoundOverdue(f)
    \/ RoundRank
    \/ \E f \in Flows : RoundLapse(f) \/ RoundSkip(f) \/ RoundGrant(f) \/ RoundBlocked(f)
    \/ \E f, v \in Flows : RoundDisplace(f, v)
    \/ RoundIssue
    \/ RoundApply
    \/ RoundFinish

-----------------------------------------------------------------------------
\* Evidence a worker may send: it echoes a ticket it was handed, possibly
\* under another attempt's number, from another incarnation, or with more
\* service than it was granted.
Evidence ==
    UNION {[ticket : {t}, attempt : {u.attempt : u \in tickets}, boot : Boots,
            served : 0..(t.entry.quantum + 1), outcome : CompletionOutcomes] :
           t \in tickets}

Topology ==
    \/ \E r \in Resources, d \in ResourceSpace : register_resource(r, d)
    \/ \E v \in Reservations, d \in ReservationSpace : register_reservation(v, d)
    \/ \E v \in Reservations : retire_reservation(v)
    \/ register_class
    \/ \E p \in PolicySpace : install_policy(p)

FlowCall ==
    \E f \in Flows :
       \/ \E d \in FlowSpace : admit_flow(f, d) \/ update_flow(f, d)
       \/ cancel_flow(f)
       \/ \E signal \in SignalSpace, now \in Readings : notify_readiness(f, signal, now)
       \/ \E after \in {"Waiting", "Failed"}, now \in Readings : resolve_ambiguous(f, after, now)
       \/ retire_flow(f)

DispatchCall ==
    \/ \E s \in DOMAIN schedules : release_schedule(s)
    \/ \E s \in DOMAIN schedules : \E i \in DOMAIN schedules[s].entries,
          boot \in Boots, now \in Readings : begin_dispatch(s, i, boot, now)
    \/ \E t \in tickets, now \in Readings : mark_started(t, now)
    \/ \E a \in DOMAIN attempts, now \in Readings :
          abandon_attempt(a, now) \/ preempt_attempt(a, now)
    \/ \E ev \in Evidence, now \in Readings : complete(ev, now)

Next ==
    \/ Topology
    \/ FlowCall
    \/ advance_epoch
    \/ DispatchCall
    \/ \E now \in Readings : Refused(now) \/ RoundBegin(now)
    \/ RoundStep
    \/ RoundAborted

Spec == Init /\ [][Next]_vars

-----------------------------------------------------------------------------
(***************************************************************************)
(* Properties                                                              *)
(***************************************************************************)

Bindings == Nat \X Nat

Entries ==
    [kind : {"Run", "Preempt"}, flow : Flows, flow_generation : Nat,
     resource : Resources, resource_generation : Nat,
     reservation : Reservations \cup {NoReservation},
     reservation_generation : Nat, class_generation : Nat,
     quantum : Nat \ {0}, deadline_tick : Int]

Tickets == [attempt : Nat \ {0}, epoch : Nat, schedule : Nat \ {0},
            policy : Bindings, boot : Boots, entry : Entries]

Reports == [ticket : Tickets, attempt : Nat, boot : Boots, served : Nat,
            outcome : CompletionOutcomes]

AttemptRows == [ticket : Tickets, state : AttemptStates,
                evidence : Seq(Reports)]

\* A schedule of n entries.
ScheduleRows(n) ==
    [epoch : Nat, policy : Bindings, at_tick : Nat, entries : [1..n -> Entries],
     consumed : [1..n -> 0..2], open_attempts : Nat, pending_entries : Nat]

Rounds == [phase : {"Idle", "Reclaim", "Refresh", "Overdue", "Assign", "Issue"},
           now : Nat, todo : SUBSET Flows, entries : Seq(Entries), next : Nat \ {0},
           pending_in_flight : [Resources -> Nat],
           pending_capacity : [Resources -> Nat],
           pending_reservation : [Reservations -> Nat]]

AuthorityTyped ==
    /\ epoch \in Nat \ {0} /\ last_tick \in Nat /\ class_generation \in Nat
    /\ policy \in Policies /\ validate_policy(policy)

ResourcesTyped ==
    /\ resource \in [Resources -> {NoDescriptor} \cup
                      {d \in ResourceDescriptors : validate_resource(d)}]
    /\ in_flight \in [Resources -> Nat] /\ reserved \in [Resources -> Nat]
    /\ interval_index \in [Resources -> Int]

ReservationsTyped ==
    /\ reservation \in [Reservations -> ReservationDescriptors \cup {NoDescriptor}]
    /\ reserved_units \in [Reservations -> Nat]

FlowRowsTyped ==
    /\ lifecycle \in [Flows -> Lifecycles \cup {"Absent"}]
    /\ flow \in [Flows -> FlowDescriptors \cup {NoDescriptor}]
    /\ \A f \in Flows : IF lifecycle[f] = "Absent" THEN flow[f] = NoDescriptor
                        ELSE flow[f] \in FlowDescriptors /\ validate_flow(f, flow[f])

FlowFieldsTyped ==
    /\ served_work \in [Flows -> Nat] /\ outstanding \in [Flows -> Nat]
    /\ open_attempt \in [Flows -> Nat]
    /\ scheduled \in [Flows -> Nat \X Nat] /\ missed \in [Flows -> BOOLEAN]

SchedulesTyped ==
    /\ next_schedule \in Nat \ {0}
    /\ DOMAIN schedules \subseteq
           1..(IF round.phase = "Issue" /\ round.entries # <<>>
               THEN next_schedule ELSE next_schedule - 1)
    /\ \A s \in DOMAIN schedules :
          schedules[s] \in ScheduleRows(Len(schedules[s].entries))

AttemptsTyped ==
    /\ next_attempt \in Nat \ {0}
    /\ DOMAIN attempts \subseteq 1..(next_attempt - 1)
    /\ \A a \in DOMAIN attempts : attempts[a] \in AttemptRows
    /\ tickets \subseteq Tickets

\* Every table holds values of its type; a schedule marks each of its entries
\* delivered or not, and the identities still to be issued are unused.
TypeOK ==
    /\ AuthorityTyped
    /\ ResourcesTyped
    /\ ReservationsTyped
    /\ FlowRowsTyped
    /\ FlowFieldsTyped
    /\ SchedulesTyped
    /\ AttemptsTyped
    /\ preemptions \in [window : Nat, count : Nat]
    /\ round \in Rounds

\* Dispatch authority is exclusive: an attempt that is open or started is the
\* one its flow names, the flow is in the matching lifecycle and at the ticket's
\* generation, the epoch is the ticket's, and the schedule is still retained;
\* a flow in flight names such an attempt.  (apply_attempt_opened, every path
\* that closes an attempt, maybe_retire_schedules, update_flow's refusal.)
AuthorityExclusive ==
    /\ \A a \in LiveAttempts :
          LET t == attempts[a].ticket
          IN  /\ open_attempt[t.entry.flow] = a
              /\ t.attempt = a
              /\ t.epoch = epoch
              /\ t.schedule \in DOMAIN schedules
              /\ flow[t.entry.flow].generation = t.entry.flow_generation
              /\ lifecycle[t.entry.flow] =
                     IF attempts[a].state = "Open" THEN "Dispatched" ELSE "Running"
    /\ \A f \in Flows :
          /\ open_attempt[f] # NoAttempt =>
                open_attempt[f] \in LiveAttempts
                /\ attempts[open_attempt[f]].ticket.entry.flow = f
          /\ lifecycle[f] \in {"Dispatched", "Running"} => open_attempt[f] # NoAttempt

\* The counter that keeps a schedule from being retired counts its live attempts.
AttemptsCounted ==
    \A s \in DOMAIN schedules :
        schedules[s].open_attempts =
            Cardinality({a \in LiveAttempts : attempts[a].ticket.schedule = s})

\* The flows a loop of the round has yet to visit are as the loop found them.
CandidatesSettled ==
    \A f \in round.todo :
        /\ round.phase = "Refresh" => lifecycle[f] = "Waiting"
        /\ round.phase = "Overdue" => open_attempt[f] # NoAttempt
        /\ round.phase = "Assign" => lifecycle[f] = "Ready"

\* Entries of the schedule being issued that the round has yet to apply.
Ahead(s, i) == round.phase = "Issue" /\ s = next_schedule /\ i >= round.next

\* The undelivered Run entries of schedule s.
Undelivered(s) == {i \in DOMAIN schedules[s].entries :
                      /\ schedules[s].entries[i].kind = "Run"
                      /\ schedules[s].consumed[i] = 0
                      /\ ~Ahead(s, i)}

\* A window has one holder: an undelivered entry belongs to a Scheduled flow
\* that names exactly that entry at that generation, a Scheduled flow names such
\* an entry, and the two counters that keep a schedule from being retired count
\* what they stand for.  (apply_schedule, release_run_entry, begin_dispatch.)
WindowHeld ==
    /\ AttemptsCounted
    /\ \A s \in DOMAIN schedules :
          /\ schedules[s].epoch = epoch
          /\ schedules[s].pending_entries = Cardinality(Undelivered(s))
          /\ \A i \in Undelivered(s) :
                LET e == schedules[s].entries[i]
                IN  /\ lifecycle[e.flow] = "Scheduled"
                    /\ scheduled[e.flow] = <<s, i>>
                    /\ flow[e.flow].generation = e.flow_generation
    /\ \A f \in Flows : lifecycle[f] = "Scheduled" =>
          /\ scheduled[f][1] \in DOMAIN schedules
          /\ scheduled[f][2] \in Undelivered(scheduled[f][1])
          /\ schedules[scheduled[f][1]].entries[scheduled[f][2]].flow = f

\* The entry whose units a flow holds: of its window, or of its attempt.
HeldEntry(f) ==
    IF lifecycle[f] = "Scheduled"
    THEN schedules[scheduled[f][1]].entries[scheduled[f][2]]
    ELSE attempts[open_attempt[f]].ticket.entry

Holders == {f \in Flows : lifecycle[f] \in {"Scheduled", "Dispatched", "Running"}}

\* The books balance: a resource counts exactly the windows and attempts held
\* on it, a flow's outstanding units are those of the window it holds, and an
\* interval is never granted more than the resource's capacity.  (The counters
\* are decremented in five places, each guarded against underflow, which would
\* hide a double release.)
BooksBalance ==
    /\ \A r \in Resources :
          /\ in_flight[r] = Cardinality({f \in Holders : HeldEntry(f).resource = r})
          /\ Registered(resource, r) => reserved[r] <= resource[r].capacity
    /\ \A f \in Flows :
          outstanding[f] = IF f \in Holders THEN HeldEntry(f).quantum ELSE 0

\* No caller sees a flow in Preempting or Cancelling: between calls both are
\* empty.  (normalize_transient_states; README "always zero at rest".)
NoTransientAtRest ==
    Idle => \A f \in Flows : lifecycle[f] \notin {"Preempting", "Cancelling"}

\* The evidence an attempt was committed on echoes that attempt's own ticket
\* and comes from the incarnation it was handed to, although complete() compares
\* neither the entry nor the flow's generation with the attempt's ticket.
CommittedOnOwnTicket ==
    \A a \in DOMAIN attempts : attempts[a].evidence # <<>> =>
        LET ev == attempts[a].evidence[1]
        IN  /\ attempts[a].state = "Committed"
            /\ ev.ticket = attempts[a].ticket
            /\ ev.boot = attempts[a].ticket.boot

\* A Completed flow has been served all its work, also after updates of its
\* descriptor, which update_flow accepts in that state.
CompletedMeansServed ==
    \A f \in Flows : lifecycle[f] = "Completed" =>
        served_work[f] >= flow[f].estimated_work

\* Whatever was updated between the grant of a window and its completion, a
\* commit does not credit more than the work the flow has.
NoServiceBeyondWork ==
    [][\A f \in Flows : served_work'[f] > served_work[f] =>
           served_work'[f] <= flow[f].estimated_work]_vars

\* A terminal flow leaves its state only by being retired from the table, and
\* gets no further service.
TerminalIsFinal ==
    [][\A f \in Flows : is_terminal(lifecycle[f]) =>
           \/ lifecycle'[f] = "Absent"
           \/ lifecycle'[f] = lifecycle[f] /\ served_work'[f] = served_work[f]]_vars

\* An attempt is closed once: while it is retained, neither a second completion
\* nor a late start, preemption, cancellation or abandonment changes a closed
\* attempt or the evidence it was committed on.  ("An attempt commits at most
\* once"; complete, mark_started and every caller of apply_attempt_closed.)
ClosedIsFinal ==
    [][\A a \in DOMAIN attempts \cap DOMAIN attempts' :
           is_attempt_terminal(attempts[a].state) => attempts'[a] = attempts[a]]_vars

\* When a round ends, no attempt is live past the deadline of its ticket ("a
\* running flow that has crossed its deadline is always stopped"), and none of
\* the windows it has issued is, although a flow whose miss was counted while it
\* ran is not failed (handle_deadline_miss) and stays among the candidates.
OverdueStopped ==
    [][(round.phase = "Issue" /\ round'.phase = "Idle") =>
           /\ \A a \in LiveAttempts' :
                 ~DeadlinePassed(attempts'[a].ticket.entry.deadline_tick, round.now)
           /\ \A f \in Flows : lifecycle'[f] = "Scheduled"
                                   /\ scheduled'[f][1] = next_schedule =>
                 ~DeadlinePassed(flow[f].deadline_tick, round.now)]_vars

\* No flow is scheduled before it is ready: when the round issues a window, every
\* dependency is authoritatively complete, the release tick has passed and the
\* caller has not withdrawn readiness.  (The test is made per candidate, the
\* issue comes after the loop over all of them.)
ScheduledOnlyWhenReady ==
    [][\A f \in Flows : lifecycle[f] # "Scheduled" /\ lifecycle'[f] = "Scheduled" =>
           /\ \A g \in flow[f].dependencies : lifecycle'[g] = "Completed"
           /\ round.now >= flow[f].release_tick
           /\ flow[f].readiness_signal # "NotReady"]_vars

\* A step that charges a reservation leaves it within its capacity.
ReservationWithinCapacity ==
    [][\A v \in Reservations : reserved_units'[v] > reserved_units[v] =>
           reserved_units'[v] <= reservation[v].capacity]_vars

\* The scheduler implements the dispatch contract: a ticket carries authority
\* while its attempt is open or started.
Contract == INSTANCE DispatchContract
            WITH granted <- tickets, served <- served_work,
                 live <- {attempts[a].ticket : a \in LiveAttempts}

\* Every behaviour of the runtime is one the contract allows: one live ticket
\* per flow, one commit per ticket, nothing revived, epochs fence.
ImplementsContract == Contract!Spec
=============================================================================
