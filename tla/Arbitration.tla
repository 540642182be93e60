---------------------------- MODULE Arbitration ----------------------------
(***************************************************************************)
(* The order of a round: which of the flows that compete for one resource  *)
(* gets its windows, over rounds without end.  Scheduler leaves that order *)
(* open; this module has the tiers, the order key, the virtual clock of    *)
(* weighted fairness, the minimum-service window, displacement by order,   *)
(* and time, and leaves out tickets, generations and the journal.          *)
(*                                                                         *)
(* The flows share a fairness group, have work without end and fit the     *)
(* resource's capacity, so that only the concurrency ceiling is scarce.    *)
(* The policy is the one a run was started with.                           *)
(* Deadlines order but are not strict: past its deadline a flow is never   *)
(* ready again, as it would not be if the policy made it fail.             *)
(* Quantities are kept relative to the clock they are compared with, up to *)
(* the point from which the code no longer tells them apart: age is        *)
(* now - eligible_since_tick, slack is deadline_tick - now, and lead is    *)
(* virtual_finish less the group's virtual time.  Of leads below zero only *)
(* the order counts, see Shifted.  The source's stamps saturate at 2^64-1; *)
(* these do not, so the module is about the service before that point.     *)
(***************************************************************************)
EXTENDS Integers, FiniteSets, SequencesExt

CONSTANTS Flows,              \* flow identities, which the order ends in
          Settings,           \* policies with the populations they are run on
          kVirtualTimeScale,
          NoDeadline,         \* a slack above every other one
          MaxWeight           \* stands for the largest 64-bit weight

Modes == {"None", "StrictPriority", "Deadline", "Tiered"}

\* What a flow's descriptor and its classes say of its order.
Descriptors ==
    [rank : Nat, weight : 1..MaxWeight, quantum : Nat \ {0}, slack : Nat,
     min_service : Nat, min_service_window : Nat, preemptible : BOOLEAN,
     may_pause : BOOLEAN]

IsSetting(s) ==
    /\ DOMAIN s.flow \subseteq Flows
    /\ s.flow \in [DOMAIN s.flow -> Descriptors]
    /\ s.max_overlap \in Nat \ {0}
    /\ s.preemption \in Modes
    /\ {s.deadline_ordering, s.weighted_fairness, s.min_service_guarantee} \subseteq BOOLEAN
    /\ s.starvation_bound \in Nat \ {0}
    /\ s.deadline_urgency \in Nat
    /\ s.min_preempt_service \in Nat
    /\ s.windows_return \in BOOLEAN

ASSUME ArbitrationAssumption ==
    /\ Flows \subseteq Nat
    /\ kVirtualTimeScale \in Nat \ {0}
    /\ NoDeadline \in Nat
    /\ MaxWeight \in Nat \ {0}
    /\ \A s \in Settings : IsSetting(s)

VARIABLES
    setting,    \* the policy installed and the flows admitted
    runtime,    \* the FlowRuntime of each flow
    signal,     \* the flows the caller has not signalled NotReady
    slack,      \* deadline_tick - now
    last,       \* the room the throttle left the round just made, or NoRound
    share       \* history: stamps granted while the flows were comparable

core == <<setting, runtime, signal, slack>>
vars == <<setting, runtime, signal, slack, last, share>>

NoRound == -1

Admitted == DOMAIN setting.flow
Greater(a, b) == IF a < b THEN b ELSE a
Smaller(a, b) == IF a < b THEN a ELSE b

-----------------------------------------------------------------------------
(***************************************************************************)
(* Entering the ready set.                                                 *)
(***************************************************************************)

\* What a window costs in virtual time.
Cost(f) == (setting.flow[f].quantum * kVirtualTimeScale) \div setting.flow[f].weight

\* Mutant of Stamp: an idle flow keeps the stamp it left with.
StaleStamp(f, lead) == lead + Cost(f)

\* F = max(F, V) + quantum / weight, as a lead over V.
Stamp(f, lead) == Greater(lead, 0) + Cost(f)

\* The minimum-service window starts again when it is over.
refresh_min_service_window(f, x) ==
    IF setting.flow[f].min_service > 0 /\ x.window >= setting.flow[f].min_service_window
    THEN [x EXCEPT !.window = 0, !.delivered = 0] ELSE x

\* set_lifecycle(Ready): a new interval of eligibility, and, if service is shared
\* by weight, a new stamp.
Readied(f, x) ==
    refresh_min_service_window(f,
        [x EXCEPT !.lifecycle = "Ready", !.age = 0,
                  !.lead = IF setting.weighted_fairness THEN Stamp(f, @) ELSE @])

derived_readiness(f) == f \in signal /\ slack[f] > 0

-----------------------------------------------------------------------------
(***************************************************************************)
(* The order.                                                              *)
(***************************************************************************)

\* What orders f by its deadline.
deadline(f) == IF setting.deadline_ordering THEN slack[f] ELSE NoDeadline

Urgent(f) == deadline(f) # NoDeadline /\ deadline(f) <= setting.deadline_urgency

Deficient(f, x) ==
    setting.min_service_guarantee /\ x.delivered < setting.flow[f].min_service

\* Mutant of tier_of: waiting does not count.
AgelessTier(f, x) ==
    IF Urgent(f) THEN 0 ELSE IF Deficient(f, x) THEN 2 ELSE 3

\* Deadline-urgent, starving, short of minimum service, normal.
tier_of(f, x) ==
    IF Urgent(f) THEN 0
    ELSE IF x.age >= setting.starvation_bound THEN 1
    ELSE IF Deficient(f, x) THEN 2
    ELSE 3

\* OrderKey: tier, priority rank, deadline, virtual finish, inverted weight, flow.
compute_key(f, x) ==
    <<tier_of(f, x), setting.flow[f].rank, deadline(f),
      IF setting.weighted_fairness THEN x.lead ELSE 0,
      MaxWeight - setting.flow[f].weight, f>>

\* Mutant of Before: the tier is not compared.
BeforeInTier(a, b) ==
    \E i \in DOMAIN a \ {1} : a[i] < b[i] /\ \A j \in 2..(i - 1) : a[j] = b[j]

\* operator< of OrderKey.
Before(a, b) ==
    \E i \in DOMAIN a : a[i] < b[i] /\ \A j \in 1..(i - 1) : a[j] = b[j]

-----------------------------------------------------------------------------
(***************************************************************************)
(* A round.  r is the table of runtimes as the round has left it so far.   *)
(***************************************************************************)

\* refresh_lifecycles, and step 1: waiting flows whose readiness is derived now
\* are ready, and what runs past its deadline is stopped, whatever the policy.
Opened ==
    [f \in Admitted |->
        LET x == runtime[f] IN
        IF x.lifecycle = "Waiting" /\ derived_readiness(f) THEN Readied(f, x)
        ELSE IF x.lifecycle = "Running" /\ slack[f] = 0
        THEN [x EXCEPT !.lifecycle = "Preempting"]
        ELSE x]

\* Step 2: the ready flows, best key first.  One whose readiness has lapsed
\* stays in the ready set and is passed over.
Ranked(r) ==
    SetToSortSeq({f \in Admitted : r[f].lifecycle = "Ready" /\ derived_readiness(f)},
                 LAMBDA f, g : Before(compute_key(f, r[f]), compute_key(g, r[g])))

InState(r, states) == {f \in Admitted : r[f].lifecycle \in states}

\* Mutant of in_flight: an undelivered window holds no slot.
RunningOnly(r) == Cardinality(InState(r, {"Running"}))

\* Undelivered windows and running attempts hold a slot.
in_flight(r) == Cardinality(InState(r, {"Scheduled", "Running"}))

\* The running flow with the worst key.
worst_incumbent(r) ==
    CHOOSE v \in InState(r, {"Running"}) :
        \A w \in InState(r, {"Running"}) :
            w # v => Before(compute_key(w, r[w]), compute_key(v, r[v]))

\* Mutant of Authorized: an urgent flow displaces another one.
UrgentDisplacesUrgent(mode, c, v) ==
    CASE mode = "None" -> FALSE
      [] mode = "StrictPriority" -> c[2] < v[2]
      [] mode = "Deadline" -> c[1] = 0
      [] mode = "Tiered" -> c[1] < v[1] \/ c[2] < v[2]

\* What the mode authorizes, c and v the keys of candidate and incumbent.  An
\* overdue incumbent was stopped in step 1.
Authorized(mode, c, v) ==
    CASE mode = "None" -> FALSE
      [] mode = "StrictPriority" -> c[2] < v[2]
      [] mode = "Deadline" -> c[1] = 0 /\ v[1] # 0
      [] mode = "Tiered" -> c[1] < v[1] \/ c[2] < v[2]

\* Neither the incumbent's class nor the service it has had protects it.
Displaceable(v) ==
    /\ setting.flow[v].preemptible
    /\ runtime[v].served >= setting.min_preempt_service

\* Displaced in this round, and not stopped for its deadline.
Displaced(r) == {f \in InState(r, {"Preempting"}) : slack[f] > 0}

preemption_allowed(r, f, v, throttle) ==
    /\ Displaceable(v)
    /\ Cardinality(Displaced(r)) < throttle
    /\ Authorized(setting.preemption, compute_key(f, r[f]), compute_key(v, r[v]))

\* Mutant of Considered: the ceiling is tested for one slot too few.
ConsideredBelow(r, f, throttle) ==
    IF in_flight(r) + 1 < setting.max_overlap
    THEN [r EXCEPT ![f].lifecycle = "Scheduled"] ELSE r

\* Step 3, for one candidate: a free slot, a displacement, or nothing.
Considered(r, f, throttle) ==
    LET v == worst_incumbent(r)
    IN  IF in_flight(r) < setting.max_overlap
        THEN [r EXCEPT ![f].lifecycle = "Scheduled"]
        ELSE IF InState(r, {"Running"}) # {} /\ preemption_allowed(r, f, v, throttle)
        THEN [r EXCEPT ![f].lifecycle = "Scheduled", ![v].lifecycle = "Preempting"]
        ELSE r

\* The throttle has room for some number of displacements more.
Assigned(r, throttle) ==
    FoldLeft(LAMBDA t, f : Considered(t, f, throttle), r, Ranked(r))

Granted(r) == {f \in Admitted : /\ r[f].lifecycle = "Scheduled"
                                /\ runtime[f].lifecycle # "Scheduled"}

\* apply_schedule moves the virtual clock up to the largest stamp it grants, if
\* service is shared by weight.
ClockGain(r) ==
    LET leads == {0} \cup {r[f].lead : f \in {g \in Granted(r) : setting.weighted_fairness}}
    IN  CHOOSE m \in leads : \A l \in leads : l <= m

\* The leads once the clock has moved.  Those below zero are compared with each
\* other until Stamp lifts them to zero, and a further move keeps their order, so
\* they are numbered from -1 down.
Shifted(r, gain) ==
    LET lead(f) == r[f].lead - gain
        below(f) == {lead(g) : g \in {g \in Admitted : lead(f) <= lead(g) /\ lead(g) < 0}}
    IN  [f \in Admitted |-> [r[f] EXCEPT
            !.lead = IF lead(f) < 0 THEN -Cardinality(below(f)) ELSE lead(f)]]

\* apply_schedule and normalize_transient_states.
arbitrate(throttle) ==
    LET r == Assigned(Opened, throttle)
        moved == Shifted(r, ClockGain(r))
    IN  /\ runtime' = [f \in Admitted |->
               IF moved[f].lifecycle = "Preempting" THEN Readied(f, moved[f]) ELSE moved[f]]
        /\ last' = throttle
        /\ UNCHANGED <<setting, signal, slack>>

-----------------------------------------------------------------------------
(***************************************************************************)
(* Everything else that happens to the flows.                              *)
(***************************************************************************)

\* begin_dispatch, which refuses a window past its deadline, and report_started.
deliver(f) ==
    /\ runtime[f].lifecycle = "Scheduled"
    /\ slack[f] > 0
    /\ runtime' = [runtime EXCEPT ![f].lifecycle = "Running"]
    /\ last' = NoRound
    /\ UNCHANGED <<setting, signal, slack>>

\* release_run_entry: the window is released, or not delivered in time.
release_run_entry(f) ==
    /\ setting.windows_return
    /\ runtime[f].lifecycle = "Scheduled"
    /\ runtime' = [runtime EXCEPT ![f] = Readied(f, @)]
    /\ last' = NoRound
    /\ UNCHANGED <<setting, signal, slack>>

\* complete: the service is credited, and readiness derived at once.  After the
\* deadline only a report without service is accepted.
complete(f, credited) ==
    LET d == setting.flow[f]
        x == [runtime[f] EXCEPT
                !.delivered = Smaller(@ + credited, d.min_service),
                !.served = Smaller(@ + credited, setting.min_preempt_service),
                !.lifecycle = "Waiting"]
    IN  /\ runtime[f].lifecycle = "Running"
        /\ slack[f] = 0 => credited = 0
        /\ runtime' = [runtime EXCEPT
               ![f] = IF derived_readiness(f) THEN Readied(f, x) ELSE x]
        /\ last' = NoRound
        /\ UNCHANGED <<setting, signal, slack>>

\* notify_readiness, both ways.  The flow changes its lifecycle in a later round.
notify_readiness(f) ==
    /\ setting.flow[f].may_pause
    /\ signal' = IF f \in signal THEN signal \ {f} ELSE signal \cup {f}
    /\ last' = NoRound
    /\ UNCHANGED <<setting, runtime, slack>>

\* The clock advances by one.
tick ==
    /\ runtime' = [f \in Admitted |->
           [runtime[f] EXCEPT
               !.age = Smaller(@ + 1, setting.starvation_bound),
               !.window = Smaller(@ + 1, setting.flow[f].min_service_window)]]
    /\ slack' = [f \in Admitted |->
           IF slack[f] \in {0, NoDeadline} THEN slack[f] ELSE slack[f] - 1]
    /\ last' = NoRound
    /\ UNCHANGED <<setting, signal>>

-----------------------------------------------------------------------------

\* The flows are backlogged on one slot, of one rank and tier, and without a
\* deadline: what tells them apart is their stamps.
Comparable ==
    setting.weighted_fairness /\ setting.max_overlap = 1 /\ \A f, g \in Admitted :
        /\ runtime[f].lifecycle # "Waiting"
        /\ derived_readiness(f)
        /\ slack[f] = NoDeadline
        /\ setting.flow[f].rank = setting.flow[g].rank
        /\ tier_of(f, runtime[f]) = tier_of(g, runtime[g])

NoShare == [f \in Admitted |-> 0]

\* The least of the shares is zero.
Levelled(s) ==
    LET least == CHOOSE m \in {s[f] : f \in Admitted} : \A f \in Admitted : m <= s[f]
    IN  [f \in Admitted |-> s[f] - least]

Account ==
    share' = IF Comparable /\ Comparable'
             THEN Levelled([f \in Admitted |->
                      share[f] + IF /\ runtime[f].lifecycle = "Ready"
                                    /\ runtime'[f].lifecycle = "Scheduled"
                                 THEN Cost(f) ELSE 0])
             ELSE NoShare

Init ==
    /\ setting \in Settings
    /\ runtime = [f \in Admitted |->
           [lifecycle |-> "Waiting", age |-> 0, lead |-> 0, delivered |-> 0,
            window |-> 0, served |-> 0]]
    /\ signal = Admitted
    /\ slack = [f \in Admitted |-> setting.flow[f].slack]
    /\ last = NoRound
    /\ share = NoShare

\* The room the throttle may have left: none matters when nothing displaces.
Throttles == 0..(IF setting.preemption = "None" THEN 0 ELSE setting.max_overlap)

Next ==
    /\ \/ \E throttle \in Throttles : arbitrate(throttle)
       \/ \E f \in Admitted :
             \/ deliver(f)
             \/ release_run_entry(f)
             \/ \E credited \in 0..setting.flow[f].quantum : complete(f, credited)
             \/ notify_readiness(f)
       \/ tick
    /\ Account

Spec == Init /\ [][Next]_vars

\* The caller keeps making rounds, time passes, windows are delivered or come
\* back (the delivery horizon), and what runs completes unless it is displaced.
Fairness ==
    /\ WF_last(last' \in Throttles)
    /\ WF_core(tick)
    /\ \A f \in Flows :
          /\ WF_core(f \in Admitted /\ (deliver(f) \/ release_run_entry(f)))
          /\ WF_core(f \in Admitted /\
                     \E credited \in 0..setting.flow[f].quantum : complete(f, credited))

FairSpec == Spec /\ Fairness

-----------------------------------------------------------------------------
(***************************************************************************)
(* Properties                                                              *)
(***************************************************************************)

\* Types and ranges of the state.
TypeOK ==
    /\ setting \in Settings
    /\ \A f \in Admitted :
          LET x == runtime[f] IN
          /\ x.lifecycle \in {"Waiting", "Ready", "Scheduled", "Running"}
          /\ x.age \in 0..setting.starvation_bound
          /\ x.lead \in (-Cardinality(Admitted))..(2 * Cost(f))
          /\ x.delivered \in 0..setting.flow[f].min_service
          /\ x.window \in 0..setting.flow[f].min_service_window
          /\ x.served \in 0..setting.min_preempt_service
    /\ signal \subseteq Admitted
    /\ last \in Throttles \cup {NoRound}
    /\ Cardinality({f \in Admitted : runtime[f].lifecycle \in {"Scheduled", "Running"}})
          <= setting.max_overlap

\* With weighted_fairness, service is shared in proportion to weight
\* (set_lifecycle's stamps and apply_schedule's clock): while two flows stay
\* backlogged in one tier, the windows they are granted, each counted as the
\* rounded cost of set_lifecycle, never differ by more than one window of each;
\* a flow back from a pause has no credit.
FairShare ==
    \A f, g \in Admitted : share[f] - share[g] <= Cost(f) + Cost(g)

\* The slots a round leaves free, it leaves free for lack of candidates.
WorkConserving ==
    [][last' # NoRound =>
          \A f \in Admitted :
              derived_readiness(f) /\ runtime[f].lifecycle \in {"Waiting", "Ready"}
                  /\ runtime'[f].lifecycle = "Ready"
              => in_flight(runtime') = setting.max_overlap]_vars

Peers == \A f, g \in Admitted : setting.flow[f].rank = setting.flow[g].rank

\* f competed in a round that has left it in the ready set.
PassedOver(f) ==
    /\ runtime[f].lifecycle \in {"Waiting", "Ready"}
    /\ derived_readiness(f)
    /\ runtime'[f].lifecycle = "Ready"

\* Where priority displaces nobody, no round passes a flow over for one of a
\* worse tier: neither by a grant nor, when the mode is Tiered and the throttle
\* and the incumbents' protection allow it, by leaving an incumbent in place
\* ("an eligible flow cannot wait longer than starvation_bound_ticks while
\* lower-tier work runs").
TierOrder ==
    [][last' # NoRound /\ (Peers \/ setting.preemption \in {"None", "Deadline"}) =>
          \A f, g \in Admitted :
              PassedOver(f) /\ tier_of(f, Opened[f]) < tier_of(g, Opened[g]) =>
                  /\ g \notin Granted(runtime')
                  /\ (/\ setting.preemption = "Tiered"
                      /\ \A v \in InState(runtime, {"Running"}) : Displaceable(v)
                      /\ last' = setting.max_overlap)
                     => runtime'[g].lifecycle # "Running"]_vars

\* Displacement does not undo itself: with one slot, the flow that lost it may
\* not take it back from the flow it was given to, unless one of the two changes
\* its tier.  (preemption_allowed; among peers also when tiers displace.)
NoExchange ==
    [][(setting.max_overlap = 1 /\ (Peers \/ setting.preemption # "Tiered")) =>
          \A v, f \in Admitted :
              /\ runtime[v].lifecycle = "Running" /\ runtime'[v].lifecycle = "Ready"
              /\ runtime[f].lifecycle # "Scheduled" /\ runtime'[f].lifecycle = "Scheduled"
              /\ derived_readiness(v)
              => ~Authorized(setting.preemption, compute_key(v, runtime'[v]),
                             compute_key(f, runtime'[f]))]_vars

Waits(f) == f \in Admitted /\ runtime[f].lifecycle = "Ready" /\ derived_readiness(f)

\* Every window moves its flow's stamp: weighted_fairness is on, and no weight is
\* so large that the cost of a quantum is rounded to nothing.
StampsGrow == setting.weighted_fairness /\ \A f \in Admitted : Cost(f) > 0

\* Among flows of one rank nobody starves as long as stamps grow: a flow that
\* stays eligible is granted a window, however long the windows of the others
\* last.  (Aging alone does not give this: two flows that reach the starvation
\* tier in turn and tie there with a third one are told apart by weight and
\* identity, each time in the same way.)
PeersServed == \A f \in Flows : []<>(Peers /\ StampsGrow => ~Waits(f))

\* "A continuously eligible flow must be scheduled within this many ticks"
\* (policy.hpp, of starvation_bound_ticks), whatever its priority: at the least
\* it does not stay eligible for ever.
NoStarvation == \A f \in Flows : []<>~Waits(f)
=============================================================================
