------------------------------ MODULE Recovery ------------------------------
(***************************************************************************)
(* How the scheduler's tables survive a restart: every durable operation   *)
(* writes a journal record and then applies it, checkpoint() folds the     *)
(* tables into a snapshot and truncates the journal, and recover() applies *)
(* the snapshot, replays the journal and advances the epoch.               *)
(*                                                                         *)
(* The tables are one record `mem', changed by the operators of            *)
(* SchedulerTables.  What only the live call does (marking a               *)
(* schedule entry consumed, advancing the next identifier, releasing the   *)
(* window of an updated flow, letting a deadline lapse) is added by the    *)
(* action and is missing from replay, as in the source.                    *)
(*                                                                         *)
(* Left to Scheduler.tla: ticks, capacities, reservations, policy and the  *)
(* topology.  Which flows a round picks, wakes or lets lapse is therefore  *)
(* a free choice.  The file behind the journal is DurableStore.tla: here a *)
(* record is written whole or not at all.                                  *)
(***************************************************************************)
EXTENDS SchedulerTables

CONSTANTS Work,                \* estimated_work of every flow
          MaxGeneration,       \* bound: flow generations
          Extents              \* bounds of a behaviour: the flows it admits, and
                               \* how many journal records and checkpoints it writes

ASSUME RecoveryAssumption ==
    /\ IsFiniteSet(Flows)
    /\ {Work, MaxFlows, Retained, MaxGeneration} \subseteq Nat
    /\ \A x \in Extents : /\ x.flows \subseteq Flows
                          /\ {x.records, x.checkpoints} \subseteq Nat

VARIABLES mem,        \* the tables of Scheduler::Impl; once the process has
                      \* died, what they held at that moment
          journal,    \* the records in the journal file
          snapshot,   \* the tables in the snapshot file
          phase,      \* Running, Compacting (inside checkpoint), Down,
                      \* or Refused (create() returned an error)
          extent,     \* the bounds of this behaviour
          written,    \* records ever written (bound)
          checkpoints,\* checkpoints ever taken (bound)
          credited,   \* history: service committed since a flow's admission
          tickets,    \* history: <<epoch, attempt>> of every ticket issued
          lapses,     \* history: flows failed by a round, which writes no record
          overlapped  \* history: a crash has left records in the journal
                      \* that the snapshot contains as well

vars == <<mem, journal, snapshot, phase, extent, written, checkpoints, credited,
          tickets, lapses, overlapped>>

MaxRecords == extent.records

-----------------------------------------------------------------------------
NoSnapshot == [absent |-> TRUE]

\* Journal records, and their application by replay and by the live calls.

apply_record(m, r) ==
    IF m = Refused THEN Refused
    ELSE CASE r.type = "FlowAdmitted"  -> apply_admit(m, r.flow)
           [] r.type = "FlowUpdated"   -> apply_update(m, r.flow, r.generation)
           [] r.type = "FlowCancelled" ->
                  normalize_transient_states(
                      apply_cancel(m, r.flow, r.generation))
           [] r.type = "FlowRetired"   ->
                  apply_retire_flow(m, r.flow, r.generation)
           [] r.type = "AmbiguityResolved" ->
                  apply_ambiguity_resolved(m, r.flow, r.generation, r.lifecycle)
           [] r.type = "ScheduleIssued" -> apply_schedule(m, r.schedule, r.runs)
           [] r.type = "ScheduleReleased" ->
                  apply_release_schedule(m, r.schedule)
           [] r.type = "AttemptOpened"  ->
                  apply_attempt_opened(m, r.attempt, r.ticket)
           [] r.type = "AttemptStarted" -> apply_attempt_started(m, r.attempt)
           [] r.type = "AttemptClosed"  ->
                  normalize_transient_states(
                      apply_attempt_closed(m, r.attempt, r.state))
           [] r.type = "CompletionCommitted" ->
                  apply_completion(m, r.attempt, r.credited, r.lifecycle)
           [] r.type = "EpochAdvanced" -> apply_epoch_advance(m, r.next)

replay(m, records) == FoldLeft(apply_record, m, records)

\* Mutant of encode_state_snapshot: the image leaves out the served work.
encode_without_service(m) ==
    [epoch |-> m.epoch, attempts |-> m.attempts, schedules |-> m.schedules,
     flows |-> [f \in DOMAIN m.flows |-> [m.flows[f] EXCEPT !.served = 0]],
     next_attempt |-> m.next_attempt, next_schedule |-> m.next_schedule]

\* Every table and the next identifiers are part of the image.
encode_state_snapshot(m) ==
    [epoch |-> m.epoch, flows |-> m.flows, attempts |-> m.attempts,
     schedules |-> m.schedules, next_attempt |-> m.next_attempt,
     next_schedule |-> m.next_schedule]

\* The decoder bounds the attempts by the number of retained schedules.
apply_state_snapshot(image) ==
    IF image = NoSnapshot THEN Fresh
    ELSE IF \/ Cardinality(DOMAIN image.flows) > MaxFlows
            \/ Cardinality(DOMAIN image.attempts) > Retained + 1
            \/ Cardinality(DOMAIN image.schedules) > Retained + 1
         THEN Refused
         ELSE image

-----------------------------------------------------------------------------
Init ==
    /\ mem = Fresh
    /\ journal = <<>>
    /\ snapshot = NoSnapshot
    /\ phase = "Down"
    /\ extent \in Extents
    /\ written = 0
    /\ checkpoints = 0
    /\ credited = [f \in Flows |-> 0]
    /\ tickets = <<>>
    /\ lapses = {}
    /\ overlapped = FALSE

\* A live call: the records reach the journal, then the tables move.
Commit(records, after) ==
    /\ phase = "Running"
    /\ written + Len(records) =< MaxRecords
    /\ journal' = journal \o records
    /\ written' = written + Len(records)
    /\ mem' = IF after = Refused THEN mem ELSE after
    /\ UNCHANGED <<snapshot, phase, extent, checkpoints, overlapped>>

\* The common case: one record, and nothing beyond its application.
Durable(r) ==
    /\ Commit(<<r>>, apply_record(mem, r))
    /\ UNCHANGED <<credited, tickets, lapses>>

admit_flow(f) ==
    /\ f \in extent.flows \ DOMAIN mem.flows
    /\ LET r == [type |-> "FlowAdmitted", flow |-> f]
       IN Commit(<<r>>, apply_record(mem, r))
    /\ credited' = [credited EXCEPT ![f] = 0]
    /\ lapses' = lapses \ {f}
    /\ UNCHANGED tickets

\* apply_update may refuse after the record has been written.  The window of
\* a Scheduled flow is released by this call and not by the replay.
update_flow(f) ==
    /\ f \in DOMAIN mem.flows
    /\ mem.flows[f].generation < MaxGeneration
    /\ LET r == [type |-> "FlowUpdated", flow |-> f,
                 generation |-> mem.flows[f].generation + 1]
           updated == apply_record(mem, r)
       IN Commit(<<r>>,
                 IF mem.flows[f].lifecycle = "Scheduled"
                 THEN release_run_entries(updated, mem.flows[f].scheduled, {f})
                 ELSE updated)
    /\ UNCHANGED <<credited, tickets, lapses>>

cancel_flow(f) ==
    /\ f \in DOMAIN mem.flows
    /\ ~is_terminal(mem.flows[f].lifecycle)
    /\ Durable([type |-> "FlowCancelled", flow |-> f,
                generation |-> mem.flows[f].generation])

retire_flow(f) ==
    /\ f \in InState(mem, {"Completed", "Cancelled", "Failed"})
    /\ Durable([type |-> "FlowRetired", flow |-> f,
                generation |-> mem.flows[f].generation])

resolve_ambiguous(f, after) ==
    /\ f \in InState(mem, {"Ambiguous"})
    /\ Durable([type |-> "AmbiguityResolved", flow |-> f,
                generation |-> mem.flows[f].generation, lifecycle |-> after])

\* One round: the undelivered windows of schedules up to `expired' return,
\* waiting flows wake or lapse, attempts are preempted, and the chosen Ready
\* flows get windows.  Waking and lapsing leave no record.
arbitrate(expired, lapsed, woken, stopped, chosen) ==
    LET due   == {s \in DOMAIN mem.schedules :
                      s =< expired /\ mem.schedules[s].pending > 0}
        freed == FoldSet(LAMBDA s, n : apply_release_schedule(n, s), mem, due)
        aged  == set_lifecycle(set_lifecycle(freed, woken, "Ready"),
                               lapsed, "Failed")
        cut   == FoldSet(LAMBDA a, n : apply_attempt_closed(n, a, "Preempted"),
                         aged, stopped)
        runs  == [f \in chosen |-> mem.flows[f].generation]
        s     == mem.next_schedule
        given == IF chosen = {} THEN cut
                 ELSE [apply_schedule(cut, s, runs) EXCEPT
                           !.next_schedule = s + 1]
    IN /\ woken \subseteq InState(freed, {"Waiting"}) \ lapsed
       /\ lapsed \subseteq InState(freed, {"Waiting", "Ready"})
       /\ stopped \subseteq Live(mem)
       /\ chosen \subseteq InState(aged, {"Ready"})
       /\ Commit(SetToSeq({[type |-> "ScheduleReleased", schedule |-> x] :
                               x \in due}) \o
                 SetToSeq({[type |-> "AttemptClosed", attempt |-> a,
                            state |-> "Preempted"] : a \in stopped}) \o
                 (IF chosen = {} THEN <<>>
                  ELSE <<[type |-> "ScheduleIssued", schedule |-> s,
                          runs |-> runs]>>),
                 maybe_retire_schedules(normalize_transient_states(given)))
       /\ lapses' = lapses \cup lapsed
       /\ UNCHANGED <<credited, tickets>>

release_schedule(s) ==
    /\ s \in DOMAIN mem.schedules
    /\ Durable([type |-> "ScheduleReleased", schedule |-> s])

\* The entry is consumed and the identifier advanced by the live call only.
begin_dispatch(s, f) ==
    LET a == mem.next_attempt
        r == [type |-> "AttemptOpened", attempt |-> a,
              ticket |-> [flow |-> f, generation |-> mem.schedules[s].runs[f],
                          schedule |-> s]]
    IN /\ s \in DOMAIN mem.schedules
       /\ f \in DOMAIN mem.schedules[s].runs \ mem.schedules[s].consumed
       /\ Names(mem, f, mem.schedules[s].runs[f])
       /\ mem.flows[f].lifecycle = "Scheduled"
       /\ mem.flows[f].scheduled = s
       /\ Commit(<<r>>,
                 [apply_record(mem, r) EXCEPT
                     !.schedules[s].consumed = @ \cup {f},
                     !.schedules[s].pending = IF @ > 0 THEN @ - 1 ELSE 0,
                     !.next_attempt = a + 1])
       /\ tickets' = Append(tickets, <<mem.epoch, a>>)
       /\ UNCHANGED <<credited, lapses>>

mark_started(a) ==
    /\ a \in Live(mem)
    /\ mem.attempts[a].state = "Open"
    /\ Durable([type |-> "AttemptStarted", attempt |-> a])

\* abandon_attempt and preempt_attempt.
close_attempt(a, state) ==
    /\ a \in Live(mem)
    /\ Durable([type |-> "AttemptClosed", attempt |-> a, state |-> state])

\* Mutant of complete: acknowledged before it is durable.
CompleteUnlogged(a, outcome, served, again) ==
    LET t == mem.attempts[a].ticket
        credit == IF outcome = "Served" THEN served ELSE 0
        after == IF outcome = "Failed" THEN "Failed"
                 ELSE IF mem.flows[t.flow].served + credit >= Work
                      THEN "Completed" ELSE "Waiting"
        r == [type |-> "CompletionCommitted", attempt |-> a,
              credited |-> credit, lifecycle |-> after]
        done == apply_record(mem, r)
    IN /\ a \in Live(mem)
       /\ Names(mem, t.flow, t.generation)
       /\ Holds(mem, t.flow, a)
       /\ Commit(<<>>, IF after = "Waiting" /\ again
                       THEN set_lifecycle(done, {t.flow}, "Ready") ELSE done)
       /\ credited' = [credited EXCEPT ![t.flow] = @ + credit]
       /\ UNCHANGED <<tickets, lapses>>

\* A report that passes every check of complete().  A flow with work left is
\* Waiting in the record, and Ready in the tables when it is eligible again.
complete(a, outcome, served, again) ==
    LET t == mem.attempts[a].ticket
        credit == IF outcome = "Served" THEN served ELSE 0
        after == IF outcome = "Failed" THEN "Failed"
                 ELSE IF mem.flows[t.flow].served + credit >= Work
                      THEN "Completed" ELSE "Waiting"
        r == [type |-> "CompletionCommitted", attempt |-> a,
              credited |-> credit, lifecycle |-> after]
        done == apply_record(mem, r)
    IN /\ a \in Live(mem)
       /\ Names(mem, t.flow, t.generation)
       /\ Holds(mem, t.flow, a)
       /\ Commit(<<r>>, IF after = "Waiting" /\ again
                        THEN set_lifecycle(done, {t.flow}, "Ready") ELSE done)
       /\ credited' = [credited EXCEPT ![t.flow] = @ + credit]
       /\ UNCHANGED <<tickets, lapses>>

advance_epoch ==
    Durable([type |-> "EpochAdvanced", next |-> mem.epoch + 1])

\* checkpoint() is compact(): write_snapshot, then truncate the journal.
checkpoint ==
    /\ phase = "Running"
    /\ checkpoints < extent.checkpoints
    /\ checkpoints' = checkpoints + 1
    /\ snapshot' = encode_state_snapshot(mem)
    /\ phase' = "Compacting"
    /\ lapses' = {}
    /\ UNCHANGED <<mem, journal, extent, written, credited, tickets, overlapped>>

compact ==
    /\ phase = "Compacting"
    /\ journal' = <<>>
    /\ phase' = "Running"
    /\ UNCHANGED <<mem, snapshot, extent, written, checkpoints, credited, tickets,
                   lapses, overlapped>>

\* The process may die between the rename of the snapshot and the truncation.
Crash ==
    /\ phase \in {"Running", "Compacting"}
    /\ phase' = "Down"
    /\ overlapped' = (overlapped \/ (phase = "Compacting" /\ journal # <<>>))
    /\ UNCHANGED <<mem, journal, snapshot, extent, written, checkpoints, credited,
                   tickets, lapses>>

\* Mutant of NextEpoch: recovery resumes the epoch it finds.
ResumeEpoch(restored) == IF restored.epoch = 0 THEN 1 ELSE restored.epoch

\* Opening durable state creates a new incarnation, so the epoch advances
\* unconditionally.
NextEpoch(restored) == restored.epoch + 1

recover ==
    LET restored == replay(apply_state_snapshot(snapshot), journal)
        next == NextEpoch(restored)
    IN /\ phase = "Down"
       /\ written < MaxRecords
       /\ IF restored = Refused
          THEN /\ phase' = "Refused"
               /\ UNCHANGED <<mem, journal, written>>
          ELSE /\ phase' = "Running"
               /\ mem' = apply_epoch_advance(restored, next)
               /\ journal' = Append(journal, [type |-> "EpochAdvanced",
                                              next |-> next])
               /\ written' = written + 1
       /\ lapses' = {}
       /\ UNCHANGED <<snapshot, extent, checkpoints, credited, tickets, overlapped>>

Next ==
    \/ \E f \in Flows : \/ admit_flow(f)
                        \/ update_flow(f)
                        \/ cancel_flow(f)
                        \/ retire_flow(f)
                        \/ \E l \in {"Waiting", "Failed"} :
                               resolve_ambiguous(f, l)
    \/ \E expired \in DOMAIN mem.schedules \cup {0},
          lapsed, woken, chosen \in SUBSET DOMAIN mem.flows,
          stopped \in SUBSET Live(mem) :
           arbitrate(expired, lapsed, woken, stopped, chosen)
    \/ \E s \in DOMAIN mem.schedules : \/ release_schedule(s)
                                       \/ \E f \in Flows : begin_dispatch(s, f)
    \/ \E a \in Live(mem) :
           \/ mark_started(a)
           \/ \E st \in {"Abandoned", "Preempted"} : close_attempt(a, st)
           \/ \E o \in CompletionOutcomes, again \in BOOLEAN :
                  complete(a, o, 1, again)
    \/ advance_epoch
    \/ checkpoint \/ compact
    \/ Crash \/ recover

Spec == Init /\ [][Next]_vars

-----------------------------------------------------------------------------
FlowRows == [generation : 1..MaxGeneration, lifecycle : Lifecycles,
             served : 0..MaxRecords, open_attempt : 0..MaxRecords,
             scheduled : 0..MaxRecords]

AttemptRows == [ticket : [flow : Flows, generation : 1..MaxGeneration,
                          schedule : 1..MaxRecords],
                state : AttemptStates]

TablesOK(m) ==
    /\ m.epoch \in 0..MaxRecords
    /\ DOMAIN m.flows \subseteq Flows
    /\ DOMAIN m.attempts \subseteq 1..(m.next_attempt - 1)
    /\ DOMAIN m.schedules \subseteq 1..(m.next_schedule - 1)
    /\ Range(m.flows) \subseteq FlowRows
    /\ Range(m.attempts) \subseteq AttemptRows
    /\ \A s \in DOMAIN m.schedules :
          LET row == m.schedules[s]
          IN /\ row.consumed \subseteq DOMAIN row.runs
             /\ row.pending = Cardinality(DOMAIN row.runs \ row.consumed)
             /\ row.open = Cardinality({a \in Live(m) :
                                m.attempts[a].ticket.schedule = s})

\* The tables stay well formed, in memory and in the snapshot file: every
\* identifier in use is below the next one to be handed out, and the counts
\* kept with a schedule are those of its open attempts and free entries.
TypeOK ==
    /\ TablesOK(mem)
    /\ snapshot = NoSnapshot \/ TablesOK(snapshot)
    /\ phase \in {"Running", "Compacting", "Down", "Refused"}
    /\ written \in 0..MaxRecords /\ checkpoints \in 0..extent.checkpoints
    /\ credited \in [Flows -> 0..MaxRecords]
    /\ Len(journal) =< written
    /\ lapses \subseteq Flows
    /\ overlapped \in BOOLEAN

\* No two tickets agree in epoch and attempt number, over any number of
\* restarts, although replay does not restore next_attempt_: evidence of an
\* earlier incarnation can never be taken for evidence of this one.
TicketsUnique == IsInjective(tickets)

Reopened == phase = "Down" /\ phase' = "Running"

\* "Liveness is never restored": a recovered scheduler holds no schedule, no
\* attempt, and no flow that is scheduled or holds open work.
NoLivenessRestored ==
    [][Reopened =>
         /\ Live(mem') = {}
         /\ DOMAIN mem'.schedules = {}
         /\ \A f \in DOMAIN mem'.flows :
               /\ mem'.flows[f].lifecycle # "Scheduled"
               /\ ~holds_open_work(mem'.flows[f].lifecycle)
               /\ mem'.flows[f].open_attempt = 0]_vars

\* What the lifecycle of flow f may become over a restart.  A flow that a round
\* failed for its deadline, after the last checkpoint, comes back as it was
\* before: that failure, and no other one, is never written.
AfterRestart(f) ==
    LET l == mem.flows[f].lifecycle
    IN  CASE is_terminal(l) /\ f \notin lapses       -> {l}
          [] l = "Ambiguous" \/ holds_open_work(l)  -> {"Ambiguous"}
          [] OTHER                                  -> {"Waiting", "Ready"}

\* A restart that succeeds loses no flow, generation or committed service, and no
\* terminal outcome but that of a lapse, and turns every dispatched flow into an
\* ambiguous one, as long as no crash has fallen into a compaction.
ReplayRestores ==
    [][Reopened /\ ~overlapped =>
         /\ DOMAIN mem'.flows = DOMAIN mem.flows
         /\ \A f \in DOMAIN mem.flows :
               /\ mem'.flows[f].generation = mem.flows[f].generation
               /\ mem'.flows[f].served = mem.flows[f].served
               /\ mem'.flows[f].lifecycle \in AfterRestart(f)]_vars

\* A committed completion is credited exactly once, replay included.
ServedOnce ==
    phase = "Running" =>
        \A f \in DOMAIN mem.flows : mem.flows[f].served = credited[f]

\* It is, unless a crash has fallen into a compaction: whatever is replayed,
\* checkpointed and replayed again, each completion counts once.
CreditedOnce == ~overlapped => ServedOnce

\* create() succeeds on whatever the scheduler itself has written.
RecoveryOpens == phase # "Refused"
=============================================================================
