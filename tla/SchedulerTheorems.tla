------------------------- MODULE SchedulerTheorems --------------------------
(***************************************************************************)
(* For every value of the constants: types hold, dispatch authority is     *)
(* exclusive, windows have one holder and go to ready flows, completion is *)
(* service, closed attempts and terminal flows stay as they are, the       *)
(* scheduler implements its dispatch contract, commits are on their own    *)
(* tickets, the books are exact and within the capacities, and rounds stop *)
(* what is overdue.  The inductive invariant adds to AuthorityExclusive    *)
(* the types, that each schedule counts its live attempts (so retention    *)
(* cannot drop the schedule of one), and that a round's work list is what  *)
(* the phase left it to be.                                                *)
(***************************************************************************)
EXTENDS StepProofs, AuthorityProofs, WindowProofs, LedgerProofs

\* A leaf that names no prover is left to Zenon.
USE ZenonT(60)
USE DEF authorityVars, resourceVars, reservationVars, flowVars, dispatchVars

\* The inductive invariant holds in every reachable state of the scheduler.
THEOREM Invariance == Spec => []Inv
<1>1. Inv /\ [Next]_vars => Inv'
  BY NextType, NextInv DEF Inv
<1> QED BY <1>1, InitInv, PTL DEF Spec

-----------------------------------------------------------------------------
(***************************************************************************)
(* The invariant of the windows                                            *)
(***************************************************************************)

\* Before the first round there is no window, and no plan.
LEMMA InitWindows == Init => Windows /\ PlanHeld
<1> SUFFICES ASSUME Init PROVE Windows /\ PlanHeld
  OBVIOUS
<1>1. DOMAIN schedules = {} /\ \A f \in Flows : lifecycle[f] # "Scheduled"
  BY SMTT(60) DEF Init
<1>2. round.phase = "Idle" /\ round.entries = <<>>
  BY DEF Init, IdleRound
<1>3. ToApply = {} /\ OneRun(round.entries)
  BY <1>2, SMTT(60) DEF ToApply, OneRun
<1> QED BY <1>1, <1>2, <1>3 DEF Windows, WindowsOfSchedules, WindowsOfFlows, PlanHeld

\* Every step keeps one holder to a window.
LEMMA NextWindows ==
    ASSUME Inv, Windows, PlanHeld, Next
    PROVE  Windows' /\ PlanHeld'
<1> USE DEF Inv
<1>1. CASE Topology \/ advance_epoch \/ \E now \in Readings : Refused(now) \/ RoundBegin(now)
  BY <1>1, TopologyWindows, EpochWindows, BeginRoundWindows
<1>2. CASE FlowCall
  <2>1. PICK f \in Flows :
           \/ \E d \in FlowSpace : admit_flow(f, d) \/ update_flow(f, d)
           \/ cancel_flow(f)
           \/ \E signal \in SignalSpace, now \in Readings : notify_readiness(f, signal, now)
           \/ \E after \in {"Waiting", "Failed"}, now \in Readings :
                 resolve_ambiguous(f, after, now)
           \/ retire_flow(f)
    BY <1>2 DEF FlowCall
  <2> QED BY <2>1, FlowCallWindows, UpdateWindows, CancelWindows
<1>3. CASE DispatchCall
  BY <1>3, ReleaseScheduleWindows, BeginWindows, StartWindows, CloseByCallerWindows,
     CompleteWindows DEF DispatchCall
<1>4. CASE RoundStep \/ RoundAborted
  <2>1. CASE \/ \E s \in DOMAIN schedules : RoundReclaim(s)
             \/ \E f \in Flows : RoundRefresh(f) \/ RoundOverdue(f)
             \/ RoundReclaimed \/ RoundRefreshed \/ RoundRank \/ RoundAborted
    BY <2>1, ReleaseScheduleWindows, RefreshWindows, OverdueWindows, EnterWindows
  <2>2. CASE \/ \E f \in Flows : RoundLapse(f) \/ RoundSkip(f) \/ RoundGrant(f) \/ RoundBlocked(f)
             \/ \E f, v \in Flows : RoundDisplace(f, v)
             \/ RoundIssue \/ RoundApply \/ RoundFinish
    BY <2>2, PassedWindows, GrantWindows, DisplaceWindows, IssueWindows, ApplyWindows,
       FinishWindows
  <2> QED BY <1>4, <2>1, <2>2 DEF RoundStep
<1> QED BY <1>1, <1>2, <1>3, <1>4 DEF Next

\* The windows and the plan, in every reachable state.
LEMMA WindowsInvariant == Spec => [](Windows /\ PlanHeld)
<1>1. ASSUME Inv, Windows, PlanHeld, [Next]_vars PROVE Windows' /\ PlanHeld'
  <2>1. CASE UNCHANGED vars
    <3>1. UNCHANGED <<epoch, resource, lifecycle, flow, served_work, scheduled, schedules,
                      next_schedule, round>>
      BY <2>1 DEF vars
    <3>2. SameWindows /\ SameHolds
      BY <3>1, SameSchedules DEF SameHolds
    <3>3. \A s, i : Ahead(s, i)' <=> Ahead(s, i)
      BY <3>1 DEF Ahead
    <3>4. ASSUME NEW e, Placed(e) PROVE Placed(e)'
      BY <3>1, <3>4 DEF Placed
    <3>5. PlanHeld'
      BY <1>1, <3>1, <3>4 DEF PlanHeld, ToApply
    <3> QED BY <1>1, <3>2, <3>3, <3>5, WindowsKept DEF Inv
  <2> QED BY <1>1, <2>1, NextWindows
<1> QED BY <1>1, InitWindows, Invariance, PTL DEF Spec

\* The step that grants a window finds the flow as the round placed it.
LEMMA GrantedReady ==
    ASSUME Inv, PlanHeld, [Next]_vars, NEW f \in Flows,
           lifecycle[f] # "Scheduled", lifecycle'[f] = "Scheduled"
    PROVE  /\ \A g \in flow[f].dependencies : lifecycle'[g] = "Completed"
           /\ round.now >= flow[f].release_tick
           /\ flow[f].readiness_signal # "NotReady"
<1>1. RoundApply
  BY StepTerminal DEF Inv, FlowsMove
<1>2. PICK e : /\ e = round.entries[round.next] /\ round.phase = "Issue"
               /\ round.next <= Len(round.entries)
               /\ IF Applies(e) THEN Assign(e) ELSE lifecycle' = lifecycle
  BY <1>1 DEF RoundApply
<1>3. Applies(e) /\ lifecycle' = [lifecycle EXCEPT ![e.flow] = "Scheduled"]
  BY <1>2 DEF Assign
<1>4. lifecycle \in [Flows -> Lifecycles \cup {"Absent"}] /\ TypeOK
  BY DEF Inv, TypeOK, FlowRowsTyped
<1>5. f = e.flow
  BY <1>3, <1>4
<1>6. Placed(e)
  BY <1>2, <1>3, <1>4, AppliesPlaced
<1>7. lifecycle[f] = "Ready" /\ \A g \in flow[f].dependencies : lifecycle[g] = "Completed"
  BY <1>5, <1>6 DEF Placed
<1>8. flow[f].dependencies \subseteq Flows
  BY <1>4, <1>7 DEF TypeOK, FlowRowsTyped, FlowDescriptors
<1>9. \A g \in flow[f].dependencies : lifecycle'[g] = "Completed"
  BY <1>3, <1>4, <1>5, <1>7, <1>8
<1> QED BY <1>5, <1>6, <1>9 DEF Placed

-----------------------------------------------------------------------------
(***************************************************************************)
(* The theorems                                                            *)
(***************************************************************************)

\* Every table of the scheduler keeps its type, whatever its callers do.
THEOREM TypeCorrect == Spec => []TypeOK
<1>1. Inv => TypeOK
  BY DEF Inv
<1> QED BY <1>1, Invariance, PTL

\* A live attempt is the one its flow names, was issued in the current epoch for
\* the flow's current generation by a schedule that still exists, and no flow is
\* Dispatched or Running without one: authority over a flow is exclusive.
THEOREM Exclusive == Spec => []AuthorityExclusive
<1>1. Inv => AuthorityExclusive
  BY DEF Inv
<1> QED BY <1>1, Invariance, PTL

\* A window has one holder: an undelivered entry of a retained schedule belongs to
\* the one Scheduled flow that names it, at its generation, and a Scheduled flow
\* names such an entry.  Undelivered entries and live attempts are what the counters
\* of the schedule count, so retention drops no schedule that has one.
THEOREM WindowsHaveOneHolder == Spec => []WindowHeld
<1>1. Inv /\ Windows /\ PlanHeld => WindowHeld
  BY WindowsDef DEF Inv
<1> QED BY <1>1, Invariance, WindowsInvariant, PTL

\* apply_schedule grants no window to a flow that is not ready: its dependencies
\* are complete, its release tick has passed and readiness was not withdrawn, when
\* the entry is applied and not only when the candidate was tested.
THEOREM WindowsGoToReadyFlows == Spec => ScheduledOnlyWhenReady
<1> DEFINE Granted == \A f \in Flows : lifecycle[f] # "Scheduled" /\ lifecycle'[f] = "Scheduled" =>
              /\ \A g \in flow[f].dependencies : lifecycle'[g] = "Completed"
              /\ round.now >= flow[f].release_tick
              /\ flow[f].readiness_signal # "NotReady"
<1>1. Inv /\ PlanHeld /\ [Next]_vars => [Granted]_vars
  BY GrantedReady
<1>2. Spec => [][Granted]_vars
  BY <1>1, Invariance, WindowsInvariant, PTL DEF Spec
<1> QED BY <1>2 DEF ScheduledOnlyWhenReady

\* A Completed flow has been served all its work, although update_flow accepts a
\* new descriptor in that state.
THEOREM CompletionIsService == Spec => []CompletedMeansServed
<1>1. Init => CompletedMeansServed
  BY DEF Init, CompletedMeansServed
<1>2. Inv /\ CompletedMeansServed /\ [Next]_vars => CompletedMeansServed'
  BY StepServed DEF Inv
<1> QED BY <1>1, <1>2, Invariance, PTL DEF Spec

\* A closed attempt is never written again, whatever reports arrive late and
\* whatever the rounds stop: it is retained as it was, or forgotten.
THEOREM ClosedForGood == Spec => ClosedIsFinal
<1>1. Inv /\ [Next]_vars => [ClosedKept]_vars
  BY StepKeeps DEF Inv
<1>2. Spec => [][ClosedKept]_vars
  BY <1>1, Invariance, PTL DEF Spec
<1> QED BY <1>2 DEF ClosedIsFinal, ClosedKept

\* A Completed, Cancelled or Failed flow is neither moved nor served again, by a
\* late report, a round or an epoch advance, until it is retired.
THEOREM TerminalForGood == Spec => TerminalIsFinal
<1>1. Inv /\ [Next]_vars => [TerminalKept]_vars
  BY StepTerminal DEF Inv, FlowsMove
<1>2. Spec => [][TerminalKept]_vars
  BY <1>1, Invariance, PTL DEF Spec
<1> QED BY <1>2 DEF TerminalIsFinal, TerminalKept

\* Every behaviour of the scheduler is one the dispatch contract allows: a ticket
\* is granted under a new number to a flow without one, is used up by one commit
\* of at most its quantum or withdrawn, and is fenced by the next epoch.
THEOREM Implements == Spec => ImplementsContract
<1>1. Inv => Evidence \subseteq Reports
  BY EvidenceType DEF Inv
<1>2. Inv /\ TicketsFresh /\ [Next]_vars => TicketsFresh'
  BY FreshStep DEF Inv
<1>3. Inv /\ Inv' /\ TicketsFresh /\ [Next]_vars => ContractStep
  BY <1>1, StepContract DEF Inv
<1>4. Inv /\ Inv' /\ TicketsFresh /\ [Next]_vars => [Contract!Next]_(Contract!contractVars)
  BY <1>3 DEF ContractStep
<1>5. Spec => Contract!Init /\ [][Contract!Next]_(Contract!contractVars)
  BY <1>2, <1>4, InitContract, Invariance, PTL DEF Spec
<1> QED BY <1>5 DEF ImplementsContract, Contract!Spec

\* While no append fails, every call leaves the Preempting and Cancelling states
\* empty: the paths that stop flows all end in normalize_transient_states.  (A round
\* that an append interrupts does not normalize, and leaves flows in Preempting.)
THEOREM NothingRestsInTransit ==
    ASSUME ~JournalMayFail
    PROVE  Spec => []NoTransientAtRest
<1>1. Init => Quiet
  BY DEF Init, Quiet, Settled
<1>2. Inv /\ Quiet /\ [Next]_vars => Quiet'
  BY StepQuiet DEF Inv
<1>3. Quiet => NoTransientAtRest
  BY DEF Quiet, Settled, NoTransientAtRest, Idle
<1> QED BY <1>1, <1>2, <1>3, Invariance, PTL DEF Spec

\* The evidence an attempt was committed on echoes the ticket the attempt was opened
\* with, from the incarnation it was handed to.  complete() compares the flow, the
\* schedule and the incarnation; a schedule delivers each of its entries once, and
\* has one Run entry for a flow, so that these name one ticket.
THEOREM CommitsAreOnOwnTickets == Spec => []CommittedOnOwnTicket
<1>1. Init => TicketsOwn /\ CommittedOnOwnTicket
  BY SMTT(60) DEF Init, TicketsOwn, CommittedOnOwnTicket
<1>2. Inv /\ Inv' /\ PlanHeld /\ TicketsOwn /\ [Next]_vars => TicketsOwn'
  BY StepOwn DEF Inv
<1>3. Inv /\ TicketsOwn /\ CommittedOnOwnTicket /\ [Next]_vars => CommittedOnOwnTicket'
  BY StepKeeps, StepCommitted DEF Inv
<1> QED BY <1>1, <1>2, <1>3, Invariance, WindowsInvariant, PTL DEF Spec

\* The counters, in every reachable state.
LEMMA AccountsInvariant == Spec => []Accounts
<1>1. Init => Accounts
  <2> SUFFICES ASSUME Init PROVE Accounts
    OBVIOUS
  <2>1. Holders = {}
    BY DEF Init, Holders
  <2>2. Cardinality({}) = 0
    BY FS_EmptySet
  <2>3. \A r \in Resources : in_flight[r] = 0 /\ HeldOn(r) = {}
    BY <2>1 DEF Init, HeldOn
  <2>4. \A f \in Flows : outstanding[f] = 0
    BY DEF Init
  <2> QED BY <2>1, <2>2, <2>3, <2>4 DEF Accounts, Terms
<1>2. Inv /\ Inv' /\ Windows /\ Windows' /\ PlanHeld /\ Accounts /\ [Next]_vars => Accounts'
  <2> SUFFICES ASSUME Inv, Inv', Windows, Windows', PlanHeld, Accounts, [Next]_vars
               PROVE  Accounts'
    OBVIOUS
  <2>1. HeldStep
    BY StepGoesOn, StepTickets DEF Inv, Held, HeldStep
  <2>2. Evidence \subseteq Reports /\ CandidatesSettled
    BY EvidenceType DEF Inv
  <2> QED BY <2>1, <2>2, StepAccounts
<1> QED BY <1>1, <1>2, Invariance, WindowsInvariant, PTL DEF Spec

\* A commit credits no more than the work the flow has, whatever was updated between
\* the grant and the commit: apply_schedule grants within the remaining work, complete()
\* within the grant, and update_flow leaves the work of a flow with progress alone.
THEOREM ServiceWithinWork == Spec => NoServiceBeyondWork
<1>1. Inv /\ Inv' /\ Windows /\ Windows' /\ Accounts /\ [Next]_vars
         => [\A f \in Flows : served_work'[f] > served_work[f] =>
                served_work'[f] <= flow[f].estimated_work]_vars
  <2> SUFFICES ASSUME Inv, Inv', Windows, Windows', Accounts, [Next]_vars, NEW f \in Flows,
                      served_work'[f] > served_work[f]
               PROVE  served_work'[f] <= flow[f].estimated_work
    OBVIOUS
  <2>1. HeldStep
    BY StepGoesOn, StepTickets DEF Inv, Held, HeldStep
  <2>2. Evidence \subseteq Reports
    BY EvidenceType DEF Inv
  <2> QED BY <2>1, <2>2, StepCredit
<1> QED BY <1>1, Invariance, WindowsInvariant, AccountsInvariant, PTL DEF Spec, NoServiceBeyondWork

\* The units reserved and planned, in every reachable state.
LEMMA PlanInvariant == Spec => []CapacityPlan
<1>1. Init => CapacityPlan
  <2> SUFFICES ASSUME Init PROVE CapacityPlan
    OBVIOUS
  <2>1. round = IdleRound /\ \A r \in Resources : resource[r] = NoDescriptor
    BY DEF Init
  <2>2. /\ round.phase = "Idle" /\ round.entries = <<>>
        /\ \A r \in Resources : round.pending_capacity[r] = 0
        /\ \A v \in Reservations : round.pending_reservation[v] = 0
    BY <2>1 DEF IdleRound
  <2>3. \A r \in Resources : ~Registered(resource, r)
    BY <2>1, SMTT(60) DEF Registered, NoDescriptor
  <2>4. Done = 0
    BY <2>2 DEF Done
  <2>5. \A v \in Reservations :
           Booked(ReservationCharge(v), round.entries, Done, round.pending_reservation[v],
                  reserved_units[v], reservation[v].capacity)
    BY <2>2, <2>4, BookedEmpty
  <2> QED BY <2>2, <2>3, <2>5 DEF CapacityPlan
<1>2. Inv /\ PlanHeld /\ CapacityPlan /\ [Next]_vars => CapacityPlan'
  BY StepPlan DEF Inv
<1> QED BY <1>1, <1>2, Invariance, WindowsInvariant, PTL DEF Spec

\* in_flight counts the windows and attempts held on a resource, outstanding_service
\* the units each flow holds, and a resource has no more reserved in an interval than
\* its capacity: every path that grants, consumes, releases or closes keeps them exact.
THEOREM BooksAreExact == Spec => []BooksBalance
<1>1. Accounts /\ CapacityPlan => BooksBalance
  BY DEF Accounts, HeldOn, CapacityPlan, BooksBalance
<1> QED BY <1>1, AccountsInvariant, PlanInvariant, PTL

\* A charge to a reservation leaves it within its capacity, however many windows of
\* one schedule draw on it: arbitrate() counts what the round has placed against it
\* before apply_schedule charges any of it.
THEOREM ReservationsHold == Spec => ReservationWithinCapacity
<1>1. Inv /\ PlanHeld /\ CapacityPlan /\ [Next]_vars
         => [\A v \in Reservations : reserved_units'[v] > reserved_units[v] =>
                reserved_units'[v] <= reservation[v].capacity]_vars
  BY StepPlan DEF Inv
<1> QED BY <1>1, Invariance, WindowsInvariant, PlanInvariant, PTL DEF Spec, ReservationWithinCapacity

\* When arbitrate() has issued a schedule, no attempt is live past the deadline of its
\* ticket, and no window of the schedule is.  The round looks for overdue flows by
\* their descriptors; that a ticket's deadline is still its flow's is part of the
\* invariant (update_flow is refused while a flow holds open work).
THEOREM RoundsStopOverdueWork == Spec => OverdueStopped
<1>1. Init => OnTime
  BY SMTT(60) DEF Init, IdleRound, OnTime
<1>2. Inv /\ Windows /\ Accounts /\ PlanHeld /\ OnTime /\ [Next]_vars => OnTime'
  <2> SUFFICES ASSUME Inv, Windows, Accounts, PlanHeld, OnTime, [Next]_vars PROVE OnTime'
    OBVIOUS
  <2>1. Held
    BY DEF Inv, Held
  <2> QED BY <2>1, StepOnTime
<1>3. Inv /\ OnTime /\ [Next]_vars =>
      [(round.phase = "Issue" /\ round'.phase = "Idle") =>
           /\ \A a \in LiveAttempts' :
                 ~DeadlinePassed(attempts'[a].ticket.entry.deadline_tick, round.now)
           /\ \A f \in Flows : lifecycle'[f] = "Scheduled"
                                   /\ scheduled'[f][1] = next_schedule =>
                 ~DeadlinePassed(flow[f].deadline_tick, round.now)]_vars
  <2> SUFFICES ASSUME Inv, OnTime, [Next]_vars, round.phase = "Issue", round'.phase = "Idle"
               PROVE  /\ \A a \in LiveAttempts' :
                            ~DeadlinePassed(attempts'[a].ticket.entry.deadline_tick, round.now)
                      /\ \A f \in Flows : lifecycle'[f] = "Scheduled"
                                              /\ scheduled'[f][1] = next_schedule =>
                            ~DeadlinePassed(flow[f].deadline_tick, round.now)
    OBVIOUS
  <2>1. TypeOK
    BY DEF Inv
  <2>2. RoundFinish
    BY <2>1, IssueEnds
  <2>3. /\ \E S : attempts' = Without(attempts, S)
        /\ lifecycle' = normalize_transient_states(lifecycle) /\ scheduled' = scheduled
    BY <2>2 DEF RoundFinish
  <2>4. \A a \in LiveAttempts' : a \in LiveAttempts /\ attempts'[a].ticket = attempts[a].ticket
    BY <2>1, <2>3, StillLive
  <2>5. ASSUME NEW f \in Flows, lifecycle'[f] = "Scheduled" PROVE lifecycle[f] = "Scheduled"
    BY <2>3, <2>5, NormalRow
  <2> QED BY <2>3, <2>4, <2>5 DEF OnTime, Late
<1> QED BY <1>1, <1>2, <1>3, Invariance, WindowsInvariant, AccountsInvariant, PTL
        DEF Spec, OverdueStopped

=============================================================================
