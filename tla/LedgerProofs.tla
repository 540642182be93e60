---------------------------- MODULE LedgerProofs ----------------------------
(***************************************************************************)
(* Invariants that follow a flow through several calls: a ticket is the    *)
(* only one of its flow in its schedule (TicketsOwn), the counters of      *)
(* flows and resources are exact (Accounts), and a round leaves no work    *)
(* past its deadline (OnTime).                                             *)
(***************************************************************************)
EXTENDS StateProofs

\* A leaf that names no prover is left to Zenon.
USE ZenonT(60)
USE DEF authorityVars, resourceVars, reservationVars, flowVars, dispatchVars

-----------------------------------------------------------------------------
(***************************************************************************)
(* An attempt is committed on its own ticket                               *)
(***************************************************************************)

\* A row of the schedule table goes on: the same entries, none undelivered again.
RowGoesOn(old, new) ==
    /\ new.entries = old.entries
    /\ \A i \in DOMAIN old.entries : old.consumed[i] # 0 => new.consumed[i] # 0

\* The schedules retained after this step: the ones issued before it were there,
\* and every row that was there goes on.
SchedulesGoOn ==
    \A s \in DOMAIN schedules' :
       /\ s < next_schedule => s \in DOMAIN schedules
       /\ s \in DOMAIN schedules => RowGoesOn(schedules[s], schedules'[s])

\* The tickets handed out: a ticket is the only one for its flow in its schedule,
\* it carries an entry that the schedule has delivered, and it is what the
\* attempt that names it was opened with.
TicketsOwn ==
    /\ \A t, u \in tickets :
          t.schedule = u.schedule /\ t.entry.flow = u.entry.flow => t = u
    /\ \A t \in tickets :
          /\ t.schedule < next_schedule /\ t.entry.kind = "Run"
          /\ t.schedule \in DOMAIN schedules =>
                \E i \in DOMAIN schedules[t.schedule].entries :
                   /\ schedules[t.schedule].entries[i] = t.entry
                   /\ schedules[t.schedule].consumed[i] # 0
    /\ \A a \in DOMAIN attempts : attempts[a].ticket \in tickets

\* One row of the schedule table changes.
LEMMA OneGoesOn ==
    ASSUME NEW s, NEW row, schedules' = [schedules EXCEPT ![s] = row],
           s \in DOMAIN schedules => RowGoesOn(schedules[s], row)
    PROVE  SchedulesGoOn
<1>1. /\ DOMAIN schedules' = DOMAIN schedules /\ (s \in DOMAIN schedules => schedules'[s] = row)
      /\ \A x \in DOMAIN schedules : x # s => schedules'[x] = schedules[x]
  OBVIOUS
<1> QED BY <1>1 DEF SchedulesGoOn, RowGoesOn

\* A counter of a schedule changes.
LEMMA CountGoesOn ==
    ASSUME TypeOK, NEW s, NEW n,
           \/ schedules' = [schedules EXCEPT ![s].open_attempts = n]
           \/ schedules' = [schedules EXCEPT ![s].pending_entries = n]
    PROVE  SchedulesGoOn
<1>1. PICK row : /\ schedules' = [schedules EXCEPT ![s] = row]
                 /\ row \in {[schedules[s] EXCEPT !.open_attempts = n],
                             [schedules[s] EXCEPT !.pending_entries = n]}
  OBVIOUS
<1>2. s \in DOMAIN schedules =>
         row.entries = schedules[s].entries /\ row.consumed = schedules[s].consumed
  <2> SUFFICES ASSUME s \in DOMAIN schedules
               PROVE  row.entries = schedules[s].entries /\ row.consumed = schedules[s].consumed
    OBVIOUS
  <2>1. schedules[s] \in ScheduleRows(Len(schedules[s].entries))
    BY ScheduleRow
  <2> QED BY <1>1, <2>1 DEF ScheduleRows
<1> QED BY <1>1, <1>2, OneGoesOn DEF RowGoesOn

\* Windows that are released are marked delivered.
LEMMA ReleaseGoesOn ==
    ASSUME TypeOK, NEW s \in DOMAIN schedules, NEW I, NEW t, release_run_entries(s, I, t)
    PROVE  SchedulesGoOn
<1> DEFINE sch == schedules[s]
           open == {i \in I \cap DOMAIN sch.entries : sch.consumed[i] = 0}
           runs == {i \in open : sch.entries[i].kind = "Run"}
           marks == [i \in DOMAIN sch.consumed |-> IF i \in open THEN 2 ELSE sch.consumed[i]]
           left == Minus(sch.pending_entries, Cardinality(runs))
           row == [sch EXCEPT !.consumed = marks, !.pending_entries = left]
<1>1. schedules' = [schedules EXCEPT ![s] = row]
  BY DEF release_run_entries
<1>2. /\ sch \in ScheduleRows(Len(sch.entries))
      /\ DOMAIN sch.consumed = 1..Len(sch.entries) /\ DOMAIN sch.entries = 1..Len(sch.entries)
  BY ScheduleRow
<1>3. \A i \in DOMAIN sch.entries : sch.consumed[i] # 0 => marks[i] # 0
  <2> HIDE DEF open, sch
  <2> QED BY <1>2, SMTT(60)
<1> HIDE DEF marks, left, sch
<1>4. row.entries = sch.entries /\ row.consumed = marks
  BY <1>2 DEF ScheduleRows
<1> HIDE DEF row
<1> QED BY <1>1, <1>3, <1>4, OneGoesOn DEF RowGoesOn, sch

\* One entry of a schedule is marked delivered.
LEMMA DeliverGoesOn ==
    ASSUME TypeOK, NEW s, NEW i, NEW k \in {1, 2}, NEW row,
           schedules' = [schedules EXCEPT ![s] = row],
           s \in DOMAIN schedules =>
              /\ row.entries = schedules[s].entries
              /\ row.consumed = [schedules[s].consumed EXCEPT ![i] = k]
    PROVE  SchedulesGoOn
<1>1. ASSUME s \in DOMAIN schedules PROVE RowGoesOn(schedules[s], row)
  <2>1. DOMAIN schedules[s].consumed = DOMAIN schedules[s].entries
    BY <1>1, ScheduleRow
  <2> QED BY <1>1, <2>1, SMTT(60) DEF RowGoesOn
<1> QED BY <1>1, OneGoesOn

\* A cancelled flow's window is marked delivered, or its attempt no longer counted.
LEMMA CancelGoesOn ==
    ASSUME TypeOK, NEW f \in Flows, cancel_flow(f)
    PROVE  SchedulesGoOn
<1> DEFINE s == scheduled[f][1]
           i == scheduled[f][2]
           marks == [schedules[s].consumed EXCEPT ![i] = 2]
           left == Minus(schedules[s].pending_entries, 1)
           row == [schedules[s] EXCEPT !.consumed = marks, !.pending_entries = left]
<1>1. \/ schedules' = schedules
      \/ \E x, n : schedules' = [schedules EXCEPT ![x].open_attempts = n]
      \/ schedules' = [schedules EXCEPT ![s] = row]
  <2>1. CASE open_attempt[f] # NoAttempt
    BY <2>1 DEF cancel_flow
  <2>2. CASE open_attempt[f] = NoAttempt /\ lifecycle[f] = "Scheduled"
    BY <2>2 DEF cancel_flow
  <2>3. CASE open_attempt[f] = NoAttempt /\ lifecycle[f] # "Scheduled"
    BY <2>3 DEF cancel_flow
  <2> QED BY <2>1, <2>2, <2>3
<1>2. s \in DOMAIN schedules => row.entries = schedules[s].entries /\ row.consumed = marks
  <2> SUFFICES ASSUME s \in DOMAIN schedules
               PROVE  row.entries = schedules[s].entries /\ row.consumed = marks
    OBVIOUS
  <2>1. schedules[s] \in ScheduleRows(Len(schedules[s].entries))
    BY ScheduleRow
  <2> HIDE DEF marks, left, s
  <2> QED BY <2>1 DEF ScheduleRows
<1>3. 2 \in {1, 2}
  OBVIOUS
<1> HIDE DEF row, s, i
<1>4. CASE schedules' = [schedules EXCEPT ![s] = row]
  BY <1>2, <1>3, <1>4, DeliverGoesOn
<1>5. CASE schedules' = schedules
  BY <1>5 DEF SchedulesGoOn, RowGoesOn
<1> QED BY <1>1, <1>4, <1>5, CountGoesOn

\* A dispatched entry is marked delivered.
LEMMA BeginGoesOn ==
    ASSUME TypeOK, NEW s \in DOMAIN schedules, NEW i, NEW boot, NEW now,
           begin_dispatch(s, i, boot, now)
    PROVE  SchedulesGoOn
<1> DEFINE sch == schedules[s]
           marks == [sch.consumed EXCEPT ![i] = 1]
           left == Minus(sch.pending_entries, 1)
           open == sch.open_attempts + 1
           row == [sch EXCEPT !.open_attempts = open, !.consumed = marks,
                              !.pending_entries = left]
<1>1. schedules' = [schedules EXCEPT ![s] = row]
  BY DEF begin_dispatch
<1>2. row.entries = sch.entries /\ row.consumed = marks
  <2>1. sch \in ScheduleRows(Len(sch.entries))
    BY ScheduleRow
  <2> HIDE DEF marks, left, open, sch
  <2> QED BY <2>1 DEF ScheduleRows
<1>3. 1 \in {1, 2}
  OBVIOUS
<1> HIDE DEF row
<1> QED BY <1>1, <1>2, <1>3, DeliverGoesOn

\* Storing a schedule and retiring old ones change no schedule issued before.
LEMMA RoundGoesOn ==
    ASSUME TypeOK, RoundIssue \/ RoundApply \/ RoundFinish
    PROVE  SchedulesGoOn /\ next_schedule <= next_schedule'
<1>1. next_schedule \in Nat
  BY DEF TypeOK, SchedulesTyped
<1>2. CASE RoundIssue
  <2>1. PICK row : /\ schedules' = schedules \/ schedules' = With(schedules, next_schedule, row)
                   /\ next_schedule' = next_schedule
    BY <1>2 DEF RoundIssue
  <2>2. \A s \in DOMAIN schedules' : s # next_schedule =>
           s \in DOMAIN schedules /\ schedules'[s] = schedules[s]
    BY <2>1 DEF With
  <2>3. \A s \in DOMAIN schedules' : s < next_schedule => s # next_schedule
    BY <1>1, SMTT(60)
  <2>4. next_schedule \notin DOMAIN schedules
    BY <1>1, <1>2, SMTT(60) DEF RoundIssue, TypeOK, SchedulesTyped
  <2>5. SchedulesGoOn
    BY <2>2, <2>3, <2>4 DEF SchedulesGoOn, RowGoesOn
  <2> QED BY <1>1, <2>1, <2>5, SMTT(60)
<1>3. CASE RoundApply
  <2>1. /\ schedules' = schedules \/ \E s, n : schedules' = [schedules EXCEPT ![s].pending_entries = n]
        /\ next_schedule' = next_schedule
    BY <1>3 DEF RoundApply, Assign
  <2>2. ASSUME schedules' = schedules PROVE SchedulesGoOn
    BY <2>2 DEF SchedulesGoOn, RowGoesOn
  <2>3. SchedulesGoOn
    BY <2>1, <2>2, CountGoesOn
  <2> QED BY <1>1, <2>1, <2>3, SMTT(60)
<1>4. CASE RoundFinish
  <2>1. PICK S : /\ schedules' = Without(schedules, S)
                 /\ next_schedule' \in {next_schedule, next_schedule + 1}
    BY <1>4 DEF RoundFinish
  <2>2. \A s \in DOMAIN schedules' : s \in DOMAIN schedules /\ schedules'[s] = schedules[s]
    BY <2>1 DEF Without
  <2>3. SchedulesGoOn
    BY <2>2 DEF SchedulesGoOn, RowGoesOn
  <2> QED BY <1>1, <2>1, <2>3, SMTT(60)
<1> QED BY <1>2, <1>3, <1>4

\* Closing an attempt counts it no longer.
LEMMA CloseGoesOn ==
    ASSUME TypeOK, NEW a, NEW state, NEW table, apply_attempt_closed(a, state, table)
    PROVE  SchedulesGoOn
<1>1. \E s, n : schedules' = [schedules EXCEPT ![s].open_attempts = n]
  BY DEF apply_attempt_closed
<1> QED BY <1>1, CountGoesOn

\* No step changes the entries of an issued schedule, or takes back a delivery.
LEMMA StepGoesOn ==
    ASSUME TypeOK, [Next]_vars
    PROVE  SchedulesGoOn /\ next_schedule <= next_schedule'
<1>1. next_schedule \in Nat
  BY DEF TypeOK, SchedulesTyped
<1>2. ASSUME SchedulesGoOn, next_schedule' = next_schedule
      PROVE  SchedulesGoOn /\ next_schedule <= next_schedule'
  BY <1>1, <1>2, SMTT(60)
<1>3. ASSUME schedules' = schedules, next_schedule' = next_schedule
      PROVE  SchedulesGoOn /\ next_schedule <= next_schedule'
  <2>1. SchedulesGoOn
    BY <1>3 DEF SchedulesGoOn, RowGoesOn
  <2> QED BY <1>2, <1>3, <2>1
<1>4. CASE Topology \/ RoundAborted \/ \E now \in Readings : Refused(now) \/ RoundBegin(now)
  BY <1>3, <1>4 DEF Topology, register_resource, register_reservation,
     retire_reservation, register_class, install_policy, Refused, RoundBegin, RoundAborted
<1>5. CASE FlowCall
  <2>1. PICK f \in Flows :
           \/ \E d \in FlowSpace : admit_flow(f, d) \/ update_flow(f, d)
           \/ cancel_flow(f)
           \/ \E signal \in SignalSpace, now \in Readings : notify_readiness(f, signal, now)
           \/ \E after \in {"Waiting", "Failed"}, now \in Readings :
                 resolve_ambiguous(f, after, now)
           \/ retire_flow(f)
    BY <1>5 DEF FlowCall
  <2>2. ASSUME NEW x, NEW now,
               admit_flow(f, x) \/ notify_readiness(f, x, now) \/ resolve_ambiguous(f, x, now)
               \/ retire_flow(f)
        PROVE  SchedulesGoOn /\ next_schedule <= next_schedule'
    BY <1>3, <2>2 DEF admit_flow, notify_readiness, resolve_ambiguous, retire_flow
  <2>3. ASSUME NEW d, update_flow(f, d)
        PROVE  SchedulesGoOn /\ next_schedule <= next_schedule'
    <3>1. RetireWindow(f) /\ next_schedule' = next_schedule
      BY <2>3 DEF update_flow
    <3> QED BY <1>2, <1>3, <3>1, ReleaseGoesOn DEF RetireWindow
  <2>4. CASE cancel_flow(f)
    <3>1. next_schedule' = next_schedule
      BY <2>4 DEF cancel_flow
    <3> QED BY <1>2, <2>4, <3>1, CancelGoesOn
  <2> QED BY <2>1, <2>2, <2>3, <2>4
<1>6. CASE DispatchCall
  <2>1. ASSUME NEW s \in DOMAIN schedules, release_schedule(s)
        PROVE  SchedulesGoOn /\ next_schedule <= next_schedule'
    BY <1>2, <2>1, ReleaseGoesOn DEF release_schedule
  <2>2. ASSUME NEW s \in DOMAIN schedules, NEW i, NEW boot, NEW now,
               begin_dispatch(s, i, boot, now)
        PROVE  SchedulesGoOn /\ next_schedule <= next_schedule'
    <3>1. next_schedule' = next_schedule
      BY <2>2 DEF begin_dispatch
    <3> QED BY <1>2, <2>2, <3>1, BeginGoesOn
  <2>3. ASSUME NEW t, NEW now, mark_started(t, now)
        PROVE  SchedulesGoOn /\ next_schedule <= next_schedule'
    BY <1>3, <2>3 DEF mark_started
  <2>4. ASSUME NEW a, NEW now, abandon_attempt(a, now) \/ preempt_attempt(a, now)
        PROVE  SchedulesGoOn /\ next_schedule <= next_schedule'
    BY <1>2, <2>4, CloseGoesOn DEF abandon_attempt, preempt_attempt, CloseByCaller
  <2>5. ASSUME NEW ev, NEW now, complete(ev, now)
        PROVE  SchedulesGoOn /\ next_schedule <= next_schedule'
    <3>1. /\ \E s, n : schedules' = [schedules EXCEPT ![s].open_attempts = n]
          /\ next_schedule' = next_schedule
      BY <2>5 DEF complete
    <3> QED BY <1>2, <3>1, CountGoesOn
  <2> QED BY <1>6, <2>1, <2>2, <2>3, <2>4, <2>5 DEF DispatchCall
<1>7. CASE RoundStep
  <2>1. ASSUME NEW s \in DOMAIN schedules, RoundReclaim(s)
        PROVE  SchedulesGoOn /\ next_schedule <= next_schedule'
    BY <1>2, <2>1, ReleaseGoesOn DEF RoundReclaim
  <2>2. ASSUME NEW f, NEW v, RoundOverdue(f) \/ RoundDisplace(f, v)
        PROVE  SchedulesGoOn /\ next_schedule <= next_schedule'
    BY <1>2, <2>2, CloseGoesOn DEF RoundOverdue, RoundDisplace
  <2>3. CASE \/ \E f \in Flows : RoundRefresh(f)
             \/ \E f \in Flows : RoundLapse(f) \/ RoundSkip(f) \/ RoundGrant(f) \/ RoundBlocked(f)
             \/ RoundReclaimed \/ RoundRefreshed \/ RoundRank
    BY <1>3, <2>3 DEF RoundRefresh, RoundLapse, RoundSkip, RoundGrant, RoundBlocked,
       RoundReclaimed, RoundRefreshed, RoundRank
  <2> QED BY <1>7, <2>1, <2>2, <2>3, RoundGoesOn DEF RoundStep
<1>8. CASE advance_epoch
  <2>1. DOMAIN schedules' = {} /\ next_schedule' = next_schedule
    BY <1>8, SMTT(60) DEF advance_epoch
  <2>2. SchedulesGoOn
    BY <2>1 DEF SchedulesGoOn
  <2> QED BY <1>2, <2>1, <2>2
<1>9. CASE UNCHANGED vars
  BY <1>3, <1>9 DEF vars
<1> QED BY <1>4, <1>5, <1>6, <1>7, <1>8, <1>9 DEF Next

\* Every attempt retained was there before, under the same ticket and evidence.
AttemptsGoOn ==
    \A a \in DOMAIN attempts' :
       /\ a \in DOMAIN attempts
       /\ attempts'[a].ticket = attempts[a].ticket
       /\ attempts'[a].evidence = attempts[a].evidence

Begins ==
    \E s \in DOMAIN schedules : \E i \in DOMAIN schedules[s].entries, boot \in Boots,
       now \in Readings : begin_dispatch(s, i, boot, now)

Completes == \E ev \in Evidence, now \in Readings : complete(ev, now)

\* The state of an attempt changes.
LEMMA StateGoesOn ==
    ASSUME TypeOK, NEW a, NEW state, attempts' = [attempts EXCEPT ![a].state = state]
    PROVE  AttemptsGoOn
<1>1. PICK row : /\ attempts' = [attempts EXCEPT ![a] = row]
                 /\ row = [attempts[a] EXCEPT !.state = state]
  OBVIOUS
<1>2. ASSUME a \in DOMAIN attempts
      PROVE  row.ticket = attempts[a].ticket /\ row.evidence = attempts[a].evidence
  <2>1. attempts[a] \in AttemptRows
    BY <1>2 DEF TypeOK, AttemptsTyped
  <2> QED BY <1>1, <2>1 DEF AttemptRows
<1>3. /\ DOMAIN attempts' = DOMAIN attempts /\ (a \in DOMAIN attempts => attempts'[a] = row)
      /\ \A b \in DOMAIN attempts : b # a => attempts'[b] = attempts[b]
  BY <1>1
<1> QED BY <1>2, <1>3 DEF AttemptsGoOn

\* Attempts are opened by begin_dispatch, and given evidence by complete, alone.
LEMMA StepAttempts ==
    ASSUME TypeOK, [Next]_vars
    PROVE  Begins \/ Completes \/ (AttemptsGoOn /\ tickets' = tickets)
<1>1. ASSUME UNCHANGED <<attempts, tickets>> PROVE AttemptsGoOn /\ tickets' = tickets
  BY <1>1 DEF AttemptsGoOn
<1>2. ASSUME NEW a, NEW state, attempts' = [attempts EXCEPT ![a].state = state], tickets' = tickets
      PROVE  AttemptsGoOn /\ tickets' = tickets
  BY <1>2, StateGoesOn
<1>3. CASE Topology \/ RoundAborted \/ \E now \in Readings : Refused(now) \/ RoundBegin(now)
  BY <1>1, <1>3 DEF Topology, register_resource, register_reservation,
     retire_reservation, register_class, install_policy, Refused, RoundBegin, RoundAborted
<1>4. CASE FlowCall
  <2>1. PICK f \in Flows :
           \/ \E d \in FlowSpace : admit_flow(f, d) \/ update_flow(f, d)
           \/ cancel_flow(f)
           \/ \E signal \in SignalSpace, now \in Readings : notify_readiness(f, signal, now)
           \/ \E after \in {"Waiting", "Failed"}, now \in Readings :
                 resolve_ambiguous(f, after, now)
           \/ retire_flow(f)
    BY <1>4 DEF FlowCall
  <2>2. ASSUME NEW x, NEW now,
               admit_flow(f, x) \/ update_flow(f, x) \/ notify_readiness(f, x, now)
               \/ resolve_ambiguous(f, x, now) \/ retire_flow(f)
        PROVE  UNCHANGED <<attempts, tickets>>
    BY <2>2 DEF admit_flow, update_flow, notify_readiness, resolve_ambiguous, retire_flow
  <2>3. CASE cancel_flow(f)
    <3>1. /\ tickets' = tickets
          /\ attempts' = attempts \/ \E a, state : attempts' = [attempts EXCEPT ![a].state = state]
      BY <2>3 DEF cancel_flow
    <3> QED BY <1>1, <1>2, <3>1
  <2> QED BY <1>1, <2>1, <2>2, <2>3
<1>5. CASE DispatchCall
  <2>1. ASSUME NEW s, release_schedule(s) PROVE UNCHANGED <<attempts, tickets>>
    BY <2>1 DEF release_schedule
  <2>2. ASSUME NEW t, NEW now, mark_started(t, now) PROVE AttemptsGoOn /\ tickets' = tickets
    BY <1>2, <2>2 DEF mark_started
  <2>3. ASSUME NEW a, NEW now, abandon_attempt(a, now) \/ preempt_attempt(a, now)
        PROVE  AttemptsGoOn /\ tickets' = tickets
    BY <1>2, <2>3 DEF abandon_attempt, preempt_attempt, CloseByCaller, apply_attempt_closed
  <2> QED BY <1>1, <1>5, <2>1, <2>2, <2>3 DEF DispatchCall, Begins, Completes
<1>6. CASE RoundStep
  <2>1. ASSUME NEW f, NEW v, RoundOverdue(f) \/ RoundDisplace(f, v)
        PROVE  AttemptsGoOn /\ tickets' = tickets
    BY <1>2, <2>1 DEF RoundOverdue, RoundDisplace, apply_attempt_closed
  <2>2. CASE RoundFinish
    <3>1. PICK S : attempts' = Without(attempts, S) /\ tickets' = tickets
      BY <2>2 DEF RoundFinish
    <3> QED BY <3>1 DEF Without, AttemptsGoOn
  <2>3. CASE \/ \E s \in DOMAIN schedules : RoundReclaim(s)
             \/ \E f \in Flows : RoundRefresh(f)
             \/ \E f \in Flows : RoundLapse(f) \/ RoundSkip(f) \/ RoundGrant(f) \/ RoundBlocked(f)
             \/ RoundReclaimed \/ RoundRefreshed \/ RoundRank \/ RoundIssue \/ RoundApply
    BY <1>1, <2>3 DEF RoundReclaim, RoundRefresh, RoundLapse, RoundSkip, RoundGrant,
       RoundBlocked, RoundReclaimed, RoundRefreshed, RoundRank, RoundIssue, RoundApply
  <2> QED BY <1>6, <2>1, <2>2, <2>3 DEF RoundStep
<1>7. CASE advance_epoch
  <2>1. DOMAIN attempts' = {} /\ tickets' = tickets
    BY <1>7, SMTT(60) DEF advance_epoch
  <2> QED BY <2>1 DEF AttemptsGoOn
<1>8. CASE UNCHANGED vars
  BY <1>1, <1>8 DEF vars
<1> QED BY <1>3, <1>4, <1>5, <1>6, <1>7, <1>8 DEF Next

\* The schedule of a ticket is retained with the ticket's entry delivered, or gone.
LEMMA OwnKept ==
    ASSUME TicketsOwn, SchedulesGoOn, NEW t \in tickets,
           t.schedule \in DOMAIN schedules'
    PROVE  \E i \in DOMAIN schedules'[t.schedule].entries :
              /\ schedules'[t.schedule].entries[i] = t.entry
              /\ schedules'[t.schedule].consumed[i] # 0
<1>1. t.schedule \in DOMAIN schedules
      /\ RowGoesOn(schedules[t.schedule], schedules'[t.schedule])
  BY DEF TicketsOwn, SchedulesGoOn
<1> QED BY <1>1 DEF TicketsOwn, RowGoesOn

\* begin_dispatch hands out the only ticket for its entry.
LEMMA BeginOwn ==
    ASSUME TypeOK, PlanHeld, TicketsOwn, SchedulesGoOn, NEW s \in DOMAIN schedules,
           NEW i \in DOMAIN schedules[s].entries, NEW boot, NEW now,
           begin_dispatch(s, i, boot, now)
    PROVE  TicketsOwn'
<1> DEFINE sch == schedules[s]
           e == sch.entries[i]
           n == next_attempt
           t == [attempt |-> n, epoch |-> epoch, schedule |-> s,
                 policy |-> PolicyBinding, boot |-> boot, entry |-> e]
           marks == [sch.consumed EXCEPT ![i] = 1]
           left == Minus(sch.pending_entries, 1)
           open == sch.open_attempts + 1
           row == [sch EXCEPT !.open_attempts = open, !.consumed = marks,
                              !.pending_entries = left]
<1>1. /\ Idle /\ e.kind = "Run" /\ sch.consumed[i] = 0
      /\ next_schedule' = next_schedule /\ tickets' = tickets \cup {t}
  BY DEF begin_dispatch
<1>2. attempts' = With(attempts, n, [ticket |-> t, state |-> "Open", evidence |-> <<>>])
  BY DEF begin_dispatch
<1>3. schedules' = [schedules EXCEPT ![s] = row]
  BY DEF begin_dispatch
<1>4. sch \in ScheduleRows(Len(sch.entries)) /\ DOMAIN sch.consumed = DOMAIN sch.entries
  BY ScheduleRow
<1>5. row.entries = sch.entries /\ row.consumed = marks
  <2> HIDE DEF marks, left, open, sch
  <2> QED BY <1>4 DEF ScheduleRows
<1>6. schedules'[s] = row /\ marks[i] = 1
  <2>1. schedules'[s] = row
    <3> HIDE DEF row
    <3> QED BY <1>3
  <2>2. marks[i] = 1
    BY <1>4
  <2> QED BY <2>1, <2>2
<1> HIDE DEF row, marks
<1>7. t.schedule = s /\ t.entry = e
  OBVIOUS
<1>8. s < next_schedule
  BY <1>1, SMTT(60) DEF TypeOK, SchedulesTyped, Idle
<1>9. ASSUME NEW u \in tickets, u.schedule = s, u.entry.flow = e.flow PROVE FALSE
  <2>1. PICK j \in DOMAIN sch.entries : sch.entries[j] = u.entry /\ sch.consumed[j] # 0
    BY <1>9 DEF TicketsOwn
  <2>2. u.entry.kind = "Run" /\ OneRun(sch.entries)
    BY <1>9 DEF TicketsOwn, PlanHeld
  <2>3. j = i
    BY <1>1, <1>9, <2>1, <2>2 DEF OneRun
  <2> QED BY <1>1, <2>1, <2>3
<1> HIDE DEF t, e, sch
<1>10. \A u, w \in tickets' : u.schedule = w.schedule /\ u.entry.flow = w.entry.flow => u = w
  BY <1>1, <1>7, <1>9 DEF TicketsOwn
<1>11. ASSUME NEW u \in tickets'
       PROVE  /\ u.schedule < next_schedule' /\ u.entry.kind = "Run"
              /\ u.schedule \in DOMAIN schedules' =>
                    \E j \in DOMAIN schedules'[u.schedule].entries :
                       /\ schedules'[u.schedule].entries[j] = u.entry
                       /\ schedules'[u.schedule].consumed[j] # 0
  <2>1. CASE u = t
    <3>1. i \in DOMAIN row.entries /\ row.entries[i] = e /\ row.consumed[i] # 0
      BY <1>5, <1>6, SMTT(60) DEF e, sch
    <3> QED BY <1>1, <1>6, <1>7, <1>8, <2>1, <3>1
  <2>2. CASE u \in tickets
    BY <1>1, <2>2, OwnKept DEF TicketsOwn
  <2> QED BY <1>1, <2>1, <2>2
<1>12. \A a \in DOMAIN attempts' : attempts'[a].ticket \in tickets'
  <2>1. PICK new : /\ attempts' = With(attempts, n, new) /\ new.ticket = t
    BY <1>2, SMTT(60)
  <2>2. ASSUME NEW a \in DOMAIN attempts'
        PROVE  IF a = n THEN attempts'[a] = new
               ELSE a \in DOMAIN attempts /\ attempts'[a] = attempts[a]
    BY <2>1 DEF With
  <2> QED BY <1>1, <2>1, <2>2 DEF TicketsOwn
<1> QED BY <1>10, <1>11, <1>12 DEF TicketsOwn

\* What a commit does to the attempts.
LEMMA CompleteRows ==
    ASSUME TypeOK, NEW ev, NEW now, complete(ev, now)
    PROVE  /\ ev.attempt \in DOMAIN attempts /\ DOMAIN attempts' = DOMAIN attempts
           /\ attempts'[ev.attempt].ticket = attempts[ev.attempt].ticket
           /\ attempts'[ev.attempt].state = "Committed"
           /\ attempts'[ev.attempt].evidence = <<ev>>
           /\ \A a \in DOMAIN attempts : a # ev.attempt => attempts'[a] = attempts[a]
           /\ tickets' = tickets
<1> DEFINE a == ev.attempt
<1>1. /\ a \in DOMAIN attempts /\ tickets' = tickets
      /\ attempts' = [attempts EXCEPT ![a].state = "Committed", ![a].evidence = <<ev>>]
  BY DEF complete, NamesAttempt
<1>2. PICK row : /\ attempts' = [attempts EXCEPT ![a] = row]
                 /\ row = [[attempts[a] EXCEPT !.state = "Committed"] EXCEPT !.evidence = <<ev>>]
  BY <1>1
<1>3. attempts[a] \in AttemptRows
  BY <1>1 DEF TypeOK, AttemptsTyped
<1>4. /\ row.ticket = attempts[a].ticket /\ row.state = "Committed" /\ row.evidence = <<ev>>
  BY <1>2, <1>3 DEF AttemptRows
<1> QED BY <1>1, <1>2, <1>4

\* The tickets stay as they were handed out.
LEMMA StepOwn ==
    ASSUME TypeOK, TypeOK', PlanHeld, TicketsOwn, [Next]_vars
    PROVE  TicketsOwn'
<1>1. SchedulesGoOn /\ next_schedule <= next_schedule'
  BY StepGoesOn
<1>2. ASSUME tickets' = tickets, \A a \in DOMAIN attempts' :
                a \in DOMAIN attempts /\ attempts'[a].ticket = attempts[a].ticket
      PROVE  TicketsOwn'
  <2>1. ASSUME NEW t \in tickets PROVE t.schedule < next_schedule'
    <3>1. t.schedule \in Nat /\ next_schedule \in Nat /\ next_schedule' \in Nat
      BY DEF TypeOK, AttemptsTyped, SchedulesTyped, Tickets
    <3>2. t.schedule < next_schedule
      BY DEF TicketsOwn
    <3> QED BY <1>1, <3>1, <3>2, SMTT(60)
  <2> QED BY <1>1, <1>2, <2>1, OwnKept DEF TicketsOwn
<1>3. CASE Begins
  BY <1>1, <1>3, BeginOwn DEF Begins
<1>4. CASE Completes
  <2>1. PICK ev, now : complete(ev, now)
    BY <1>4 DEF Completes
  <2> QED BY <1>2, <2>1, CompleteRows
<1>5. CASE AttemptsGoOn /\ tickets' = tickets
  BY <1>2, <1>5 DEF AttemptsGoOn
<1> QED BY <1>3, <1>4, <1>5, StepAttempts

\* The ticket that evidence echoes is the attempt's own: it names the same flow in
\* the same schedule.  A closed attempt keeps its evidence.
LEMMA StepCommitted ==
    ASSUME TypeOK, AuthorityExclusive, CandidatesSettled, TicketsOwn, CommittedOnOwnTicket,
           ClosedKept, [Next]_vars
    PROVE  CommittedOnOwnTicket'
<1> SUFFICES ASSUME NEW a \in DOMAIN attempts', attempts'[a].evidence # <<>>
             PROVE  /\ attempts'[a].state = "Committed"
                    /\ attempts'[a].evidence[1].ticket = attempts'[a].ticket
                    /\ attempts'[a].evidence[1].boot = attempts'[a].ticket.boot
  BY DEF CommittedOnOwnTicket
<1>2. ASSUME a \in DOMAIN attempts, attempts[a].evidence # <<>>
      PROVE  /\ attempts'[a].state = "Committed"
             /\ attempts'[a].evidence[1].ticket = attempts'[a].ticket
             /\ attempts'[a].evidence[1].boot = attempts'[a].ticket.boot
  <2>1. /\ attempts[a].state = "Committed"
        /\ attempts[a].evidence[1].ticket = attempts[a].ticket
        /\ attempts[a].evidence[1].boot = attempts[a].ticket.boot
    BY <1>2 DEF CommittedOnOwnTicket
  <2>2. attempts'[a] = attempts[a]
    BY <1>2, <2>1 DEF ClosedKept, is_attempt_terminal
  <2> QED BY <2>1, <2>2
<1>3. CASE AttemptsGoOn
  BY <1>2, <1>3 DEF AttemptsGoOn
<1>4. CASE Begins
  <2>1. PICK s, i, boot, now : begin_dispatch(s, i, boot, now)
    BY <1>4 DEF Begins
  <2>2. PICK t : attempts' = With(attempts, next_attempt,
                                  [ticket |-> t, state |-> "Open", evidence |-> <<>>])
    BY <2>1 DEF begin_dispatch
  <2>3. PICK row : attempts' = With(attempts, next_attempt, row) /\ row.evidence = <<>>
    BY <2>2, SMTT(60)
  <2>4. IF a = next_attempt THEN attempts'[a] = row
        ELSE a \in DOMAIN attempts /\ attempts'[a] = attempts[a]
    BY <2>3 DEF With
  <2> QED BY <1>2, <2>3, <2>4
<1>5. CASE Completes
  <2>1. PICK ev \in Evidence, now \in Readings : complete(ev, now)
    BY <1>5 DEF Completes
  <2>2. CASE a # ev.attempt
    BY <1>2, <2>1, <2>2, CompleteRows
  <2>3. CASE a = ev.attempt
    <3> DEFINE t == attempts[a].ticket
    <3>1. /\ a \in DOMAIN attempts /\ t.entry.flow = ev.ticket.entry.flow
          /\ t.schedule = ev.ticket.schedule /\ t.boot = ev.boot
      BY <2>1, <2>3 DEF complete, NamesAttempt, FromOwner
    <3>2. ev.ticket \in tickets
      BY SMTT(60) DEF Evidence
    <3>3. t = ev.ticket
      BY <3>1, <3>2 DEF TicketsOwn
    <3>4. /\ attempts'[a].ticket = t /\ attempts'[a].state = "Committed"
          /\ attempts'[a].evidence = <<ev>>
      BY <2>1, <2>3, CompleteRows
    <3> QED BY <3>1, <3>3, <3>4, SMTT(60)
  <2> QED BY <2>2, <2>3
<1> QED BY <1>3, <1>4, <1>5, StepAttempts

-----------------------------------------------------------------------------
(***************************************************************************)
(* The books: what is in flight, and what is outstanding                   *)
(***************************************************************************)

\* The holders of a window or an attempt on resource r.
HeldOn(r) == {f \in Holders : HeldEntry(f).resource = r}

\* The units of a holder are within the work its flow has left, and the deadline
\* it was granted under is the flow's.
Terms == \A f \in Holders :
            /\ served_work[f] + HeldEntry(f).quantum <= flow[f].estimated_work
            /\ HeldEntry(f).deadline_tick = flow[f].deadline_tick

\* The counters of the flows and of the resources in flight are exact.
Accounts ==
    /\ \A r \in Resources : in_flight[r] = Cardinality(HeldOn(r))
    /\ \A f \in Flows : outstanding[f] = IF f \in Holders THEN HeldEntry(f).quantum ELSE 0
    /\ Terms

\* Retained attempts keep their tickets.
TicketsKept == \A a \in DOMAIN attempts \cap DOMAIN attempts' :
                  attempts'[a].ticket = attempts[a].ticket

Held == TypeOK /\ AuthorityExclusive /\ Windows

HeldStep == Held /\ Held' /\ SchedulesGoOn /\ TicketsKept

\* What a step changes in the row of flow f, seen by the books.
RowKept(f) ==
    /\ \/ lifecycle'[f] = lifecycle[f]
       \/ {lifecycle[f], lifecycle'[f]} \subseteq {"Dispatched", "Running"}
       \/ {lifecycle[f], lifecycle'[f]} \cap {"Scheduled", "Dispatched", "Running"} = {}
    /\ f \in Holders =>
          /\ scheduled'[f] = scheduled[f] /\ open_attempt'[f] = open_attempt[f]
          /\ served_work'[f] = served_work[f]
          /\ flow'[f].estimated_work = flow[f].estimated_work
          /\ flow'[f].deadline_tick = flow[f].deadline_tick

\* Flow f holds after a step what it held before it.
Stays(f) ==
    /\ f \in Holders' <=> f \in Holders
    /\ f \in Holders =>
          /\ HeldEntry(f)' = HeldEntry(f)
          /\ served_work'[f] = served_work[f]
          /\ flow'[f].estimated_work = flow[f].estimated_work
          /\ flow'[f].deadline_tick = flow[f].deadline_tick

\* What a holder holds.
LEMMA HeldType ==
    ASSUME Held, NEW f \in Holders
    PROVE  /\ f \in Flows
           /\ HeldEntry(f) \in Entries /\ HeldEntry(f).flow = f
           /\ HeldEntry(f).quantum \in Nat /\ HeldEntry(f).resource \in Resources
<1>1. f \in Flows /\ lifecycle[f] \in {"Scheduled", "Dispatched", "Running"}
  BY DEF Holders
<1>2. HeldEntry(f) \in Entries /\ HeldEntry(f).flow = f
  <2>1. CASE lifecycle[f] = "Scheduled"
    <3>1. PICK s, i : /\ s \in DOMAIN schedules /\ i \in Undelivered(s)
                      /\ scheduled[f] = <<s, i>> /\ schedules[s].entries[i].flow = f
      BY <1>1, <2>1, HeldRow DEF Held
    <3>2. i \in DOMAIN schedules[s].entries
      BY <3>1 DEF Undelivered
    <3>3. schedules[s].entries[i] \in Entries
      BY <3>1, <3>2, ScheduleRow DEF Held
    <3>4. HeldEntry(f) = schedules[s].entries[i]
      BY <2>1, <3>1, SMTT(60) DEF HeldEntry
    <3> QED BY <3>1, <3>3, <3>4
  <2>2. CASE lifecycle[f] \in {"Dispatched", "Running"}
    <3>1. /\ open_attempt[f] \in DOMAIN attempts
          /\ attempts[open_attempt[f]].ticket.entry.flow = f
      BY <1>1, <2>2, NamedAttempt DEF Held
    <3>2. attempts[open_attempt[f]].ticket.entry \in Entries
      BY <3>1, AttemptRow DEF Held
    <3>3. HeldEntry(f) = attempts[open_attempt[f]].ticket.entry
      BY <2>2 DEF HeldEntry
    <3> QED BY <3>1, <3>2, <3>3
  <2> QED BY <1>1, <2>1, <2>2
<1> QED BY <1>1, <1>2 DEF Entries

\* The flow of a live attempt holds the entry of its ticket.
LEMMA HeldByAttempt ==
    ASSUME Held, NEW a \in LiveAttempts, NEW g, g = attempts[a].ticket.entry.flow
    PROVE  /\ g \in Flows /\ g \in Holders /\ HeldEntry(g) = attempts[a].ticket.entry
           /\ open_attempt[g] = a /\ lifecycle[g] \in {"Dispatched", "Running"}
<1>1. /\ g \in Flows /\ open_attempt[g] = a /\ lifecycle[g] \in {"Dispatched", "Running"}
  BY LiveAttempt DEF Held
<1>2. lifecycle[g] # "Scheduled"
  BY <1>1
<1> QED BY <1>1, <1>2 DEF Holders, HeldEntry

\* The flow of an undelivered entry holds the entry.
LEMMA HeldByWindow ==
    ASSUME Held, NEW s \in DOMAIN schedules, NEW i \in Undelivered(s), NEW g,
           g = schedules[s].entries[i].flow
    PROVE  /\ g \in Flows /\ g \in Holders /\ HeldEntry(g) = schedules[s].entries[i]
           /\ lifecycle[g] = "Scheduled" /\ scheduled[g] = <<s, i>>
<1>1. g \in Flows /\ lifecycle[g] = "Scheduled" /\ scheduled[g] = <<s, i>>
  BY WindowRow DEF Held
<1>2. scheduled[g][1] = s /\ scheduled[g][2] = i
  BY <1>1, SMTT(60)
<1> QED BY <1>1, <1>2 DEF Holders, HeldEntry

\* A flow whose row is kept holds what it held.
LEMMA KeptStays ==
    ASSUME HeldStep, NEW f \in Flows, RowKept(f)
    PROVE  Stays(f)
<1>0. WindowsOfFlows'
  BY DEF HeldStep, Held, Windows
<1>1. f \in Holders' <=> f \in Holders
  BY DEF RowKept, Holders
<1>2. ASSUME f \in Holders PROVE HeldEntry(f)' = HeldEntry(f)
  <2>1. CASE lifecycle[f] = "Scheduled"
    <3>1. lifecycle'[f] = "Scheduled" /\ scheduled'[f] = scheduled[f]
      BY <1>2, <2>1 DEF RowKept
    <3>2. PICK s, i : /\ s \in DOMAIN schedules /\ i \in Undelivered(s)
                      /\ scheduled[f] = <<s, i>> /\ schedules[s].entries[i].flow = f
      BY <2>1, HeldRow DEF HeldStep, Held
    <3>3. PICK x, j : /\ x \in DOMAIN schedules' /\ scheduled'[f] = <<x, j>>
      BY <1>0, <3>1 DEF WindowsOfFlows
    <3>4. s \in DOMAIN schedules'
      BY <3>1, <3>2, <3>3, SMTT(60)
    <3>5. schedules'[s].entries = schedules[s].entries
      BY <3>2, <3>4 DEF HeldStep, SchedulesGoOn, RowGoesOn
    <3>6. HeldEntry(f) = schedules[s].entries[i] /\ HeldEntry(f)' = schedules'[s].entries[i]
      BY <2>1, <3>1, <3>2, SMTT(60) DEF HeldEntry
    <3> QED BY <3>5, <3>6
  <2>2. CASE lifecycle[f] \in {"Dispatched", "Running"}
    <3>1. lifecycle'[f] \in {"Dispatched", "Running"} /\ open_attempt'[f] = open_attempt[f]
      BY <1>2, <2>2 DEF RowKept
    <3>2. open_attempt[f] \in DOMAIN attempts
      BY <2>2, NamedAttempt DEF HeldStep, Held
    <3>3. open_attempt'[f] \in DOMAIN attempts'
      BY <3>1 DEF HeldStep, Held, AuthorityExclusive, LiveAttempts
    <3>4. attempts'[open_attempt[f]].ticket = attempts[open_attempt[f]].ticket
      BY <3>1, <3>2, <3>3 DEF HeldStep, TicketsKept
    <3> QED BY <2>2, <3>1, <3>4 DEF HeldEntry
  <2> QED BY <1>2, <2>1, <2>2 DEF Holders
<1> QED BY <1>1, <1>2 DEF RowKept, Stays

\* Nothing is taken and nothing given back.
LEMMA AccountsKept ==
    ASSUME Accounts, \A f \in Flows : Stays(f),
           \A r \in Resources : in_flight'[r] = in_flight[r],
           \A f \in Flows : outstanding'[f] = outstanding[f]
    PROVE  Accounts'
<1>1. Holders' = Holders
  BY DEF Stays, Holders
<1>2. \A f \in Holders : f \in Flows /\ HeldEntry(f)' = HeldEntry(f)
  BY DEF Stays, Holders
<1>3. ASSUME NEW r \in Resources PROVE HeldOn(r)' = HeldOn(r)
  BY <1>1, <1>2 DEF HeldOn
<1>4. Terms'
  <2>1. Terms
    BY DEF Accounts
  <2> SUFFICES ASSUME NEW f \in Holders'
               PROVE  /\ served_work'[f] + HeldEntry(f)'.quantum <= flow'[f].estimated_work
                      /\ HeldEntry(f)'.deadline_tick = flow'[f].deadline_tick
    BY DEF Terms
  <2>2. f \in Holders /\ Stays(f)
    BY <1>1, <1>2
  <2> QED BY <2>1, <2>2 DEF Stays, Terms
<1>5. \A r \in Resources : in_flight'[r] = Cardinality(HeldOn(r))'
  BY <1>3 DEF Accounts
<1>6. \A f \in Flows : outstanding'[f] = IF f \in Holders' THEN HeldEntry(f)'.quantum ELSE 0
  BY <1>1, <1>2 DEF Accounts
<1> QED BY <1>4, <1>5, <1>6 DEF Accounts

\* The flows of G give back what they hold.
LEMMA AccountsLeft ==
    ASSUME Accounts, Held, NEW G \in SUBSET Holders,
           \A f \in Flows \ G : Stays(f), \A f \in G : f \notin Holders',
           \A r \in Resources :
              in_flight'[r] = Minus(in_flight[r],
                                    Cardinality({f \in G : HeldEntry(f).resource = r})),
           \A f \in Flows : outstanding'[f] = IF f \in G THEN 0 ELSE outstanding[f]
    PROVE  Accounts'
<1>1. Holders' = Holders \ G
  BY DEF Stays, Holders
<1>2. \A f \in Holders' : /\ f \in Flows /\ f \in Holders /\ Stays(f)
                          /\ HeldEntry(f)' = HeldEntry(f)
  BY <1>1 DEF Stays, Holders
<1>3. ASSUME NEW r \in Resources
      PROVE  in_flight'[r] = Cardinality(HeldOn(r))'
  <2> DEFINE J == {f \in G : HeldEntry(f).resource = r}
  <2>1. HeldOn(r)' = HeldOn(r) \ J
    BY <1>1, <1>2 DEF HeldOn
  <2>2. J \in SUBSET HeldOn(r)
    BY DEF HeldOn
  <2>3. HeldOn(r) \subseteq Flows /\ IsFiniteSet(Flows)
    BY IdentityAssumption DEF HeldOn, Holders
  <2>4. IsFiniteSet(HeldOn(r))
    BY <2>3, FS_Subset
  <2>5. in_flight[r] = Cardinality(HeldOn(r)) /\ in_flight'[r] = Minus(in_flight[r], Cardinality(J))
    BY DEF Accounts
  <2> HIDE DEF J
  <2> QED BY <2>1, <2>2, <2>4, <2>5, CardMinus, SMTT(60)
<1>4. Terms'
  <2>1. Terms
    BY DEF Accounts
  <2> SUFFICES ASSUME NEW f \in Holders'
               PROVE  /\ served_work'[f] + HeldEntry(f)'.quantum <= flow'[f].estimated_work
                      /\ HeldEntry(f)'.deadline_tick = flow'[f].deadline_tick
    BY DEF Terms
  <2> QED BY <1>2, <2>1 DEF Stays, Terms
<1>5. \A f \in Flows : outstanding'[f] = IF f \in Holders' THEN HeldEntry(f)'.quantum ELSE 0
  BY <1>1, <1>2 DEF Accounts
<1> QED BY <1>3, <1>4, <1>5 DEF Accounts

\* Flow g gives back what it holds.
LEMMA AccountsOneLeft ==
    ASSUME Accounts, Held, NEW g \in Holders, g \notin Holders',
           \A f \in Flows \ {g} : Stays(f),
           \A r \in Resources : in_flight'[r] =
              IF r = HeldEntry(g).resource THEN Minus(in_flight[r], 1) ELSE in_flight[r],
           \A f \in Flows : outstanding'[f] = IF f = g THEN 0 ELSE outstanding[f]
    PROVE  Accounts'
<1>1. \A r \in Resources : in_flight[r] \in Nat
  BY DEF Held, TypeOK, ResourcesTyped
<1>2. ASSUME NEW r \in Resources
      PROVE  in_flight'[r] = Minus(in_flight[r],
                                   Cardinality({f \in {g} : HeldEntry(f).resource = r}))
  <2>1. CASE HeldEntry(g).resource = r
    <3>1. {f \in {g} : HeldEntry(f).resource = r} = {g}
      BY <2>1
    <3> QED BY <2>1, <3>1, FS_Singleton, SMTT(60)
  <2>2. CASE HeldEntry(g).resource # r
    <3>1. {f \in {g} : HeldEntry(f).resource = r} = {}
      BY <2>2
    <3>2. Minus(in_flight[r], 0) = in_flight[r]
      BY <1>1, SMTT(60) DEF Minus
    <3> QED BY <2>2, <3>1, <3>2, FS_EmptySet
  <2> QED BY <2>1, <2>2
<1>3. {g} \in SUBSET Holders
  OBVIOUS
<1>4. \A f \in Flows : outstanding'[f] = IF f \in {g} THEN 0 ELSE outstanding[f]
  OBVIOUS
<1> QED BY <1>2, <1>3, <1>4, AccountsLeft

\* Flow g is granted the window of entry e.
LEMMA AccountsTaken ==
    ASSUME Accounts, Held, NEW g \in Flows, NEW e, g \notin Holders, g \in Holders',
           HeldEntry(g)' = e, e.quantum \in Nat, e.resource \in Resources,
           \A f \in Flows \ {g} : Stays(f),
           in_flight' = [in_flight EXCEPT ![e.resource] = @ + 1],
           outstanding' = [outstanding EXCEPT ![g] = @ + e.quantum],
           served_work'[g] + e.quantum <= flow'[g].estimated_work,
           e.deadline_tick = flow'[g].deadline_tick
    PROVE  Accounts'
<1>1. Holders' = Holders \cup {g}
  BY DEF Stays, Holders
<1>2. \A f \in Holders : /\ f \in Flows /\ f # g /\ Stays(f)
                         /\ HeldEntry(f)' = HeldEntry(f)
  BY DEF Stays, Holders
<1>3. in_flight \in [Resources -> Nat] /\ outstanding \in [Flows -> Nat]
  BY DEF Held, TypeOK, ResourcesTyped, FlowFieldsTyped
<1>4. ASSUME NEW r \in Resources
      PROVE  in_flight'[r] = Cardinality(HeldOn(r))'
  <2>1. HeldOn(r) \subseteq Flows /\ IsFiniteSet(Flows)
    BY IdentityAssumption DEF HeldOn, Holders
  <2>2. IsFiniteSet(HeldOn(r)) /\ g \notin HeldOn(r)
    BY <2>1, FS_Subset DEF HeldOn
  <2>3. HeldOn(r)' = IF r = e.resource THEN HeldOn(r) \cup {g} ELSE HeldOn(r)
    BY <1>1, <1>2 DEF HeldOn
  <2>4. in_flight'[r] = IF r = e.resource THEN in_flight[r] + 1 ELSE in_flight[r]
    BY <1>3
  <2>5. Cardinality(HeldOn(r) \cup {g}) = Cardinality(HeldOn(r)) + 1
    BY <2>2, FS_AddElement
  <2> QED BY <2>3, <2>4, <2>5 DEF Accounts
<1>5. \A f \in Flows : outstanding'[f] = IF f \in Holders' THEN HeldEntry(f)'.quantum ELSE 0
  <2>1. outstanding[g] = 0 /\ outstanding'[g] = e.quantum
    BY <1>3, SMTT(60) DEF Accounts
  <2>2. \A f \in Flows : f # g => outstanding'[f] = outstanding[f]
    BY <1>3
  <2>3. ASSUME NEW f \in Flows, f # g
        PROVE  outstanding'[f] = IF f \in Holders' THEN HeldEntry(f)'.quantum ELSE 0
    BY <1>1, <1>2, <2>2, <2>3 DEF Accounts
  <2> QED BY <1>1, <2>1, <2>3
<1>6. Terms'
  <2>1. Terms
    BY DEF Accounts
  <2> SUFFICES ASSUME NEW f \in Holders'
               PROVE  /\ served_work'[f] + HeldEntry(f)'.quantum <= flow'[f].estimated_work
                      /\ HeldEntry(f)'.deadline_tick = flow'[f].deadline_tick
    BY DEF Terms
  <2>2. CASE f = g
    BY <2>2
  <2>3. CASE f # g
    <3>1. f \in Holders
      BY <1>1, <2>3
    <3> QED BY <1>2, <2>1, <3>1 DEF Stays, Terms
  <2> QED BY <2>2, <2>3
<1> QED BY <1>4, <1>5, <1>6 DEF Accounts

\* A step that no holder notices.
LEMMA AccountsAlone ==
    ASSUME HeldStep, Accounts, \A f \in Flows : RowKept(f),
           UNCHANGED <<in_flight, outstanding>>
    PROVE  Accounts'
<1>1. \A f \in Flows : Stays(f)
  BY KeptStays
<1> QED BY <1>1, AccountsKept

\* A flow that holds nothing changes, and does not become a holder.
LEMMA AccountsOutside ==
    ASSUME HeldStep, Accounts, NEW g \in Flows, g \notin Holders, g \notin Holders',
           \A f \in Flows : f # g => RowKept(f) /\ outstanding'[f] = outstanding[f],
           outstanding'[g] \in {0, outstanding[g]}, in_flight' = in_flight
    PROVE  Accounts'
<1>1. RowKept(g)
  BY DEF RowKept, Holders
<1>2. outstanding[g] = 0
  BY DEF Accounts
<1>3. \A f \in Flows : Stays(f)
  BY <1>1, KeptStays
<1>4. \A f \in Flows : outstanding'[f] = outstanding[f]
  BY <1>2
<1> QED BY <1>3, <1>4, AccountsKept

\* A live attempt is closed, and its flow holds nothing more.
LEMMA AccountsClosed ==
    ASSUME HeldStep, Accounts, NEW a \in LiveAttempts, NEW g,
           g = attempts[a].ticket.entry.flow, g \notin Holders',
           \A f \in Flows : f # g => RowKept(f) /\ outstanding'[f] = outstanding[f],
           outstanding'[g] \in {0, Minus(outstanding[g], attempts[a].ticket.entry.quantum)},
           in_flight' = [in_flight EXCEPT ![attempts[a].ticket.entry.resource] = Minus(@, 1)]
    PROVE  Accounts'
<1>2. g \in Flows /\ g \in Holders /\ HeldEntry(g) = attempts[a].ticket.entry
  BY HeldByAttempt DEF HeldStep
<1>3. HeldEntry(g).quantum \in Nat /\ outstanding[g] = HeldEntry(g).quantum
  BY <1>2, HeldType DEF HeldStep, Accounts
<1>4. outstanding'[g] = 0
  <2>1. \A n \in Nat : Minus(n, n) = 0
    BY SMTT(60) DEF Minus
  <2> QED BY <1>2, <1>3, <2>1
<1>5. in_flight \in [Resources -> Nat] /\ Held
  BY DEF HeldStep, Held, TypeOK, ResourcesTyped
<1>6. \A r \in Resources : in_flight'[r] =
         IF r = HeldEntry(g).resource THEN Minus(in_flight[r], 1) ELSE in_flight[r]
  BY <1>2, <1>5
<1>7. \A f \in Flows \ {g} : Stays(f)
  BY KeptStays
<1>8. \A f \in Flows : outstanding'[f] = IF f = g THEN 0 ELSE outstanding[f]
  BY <1>4
<1> QED BY <1>2, <1>5, <1>6, <1>7, <1>8, AccountsOneLeft

\* Two finite sets with a bijection between them have the same size.
LEMMA CardImage ==
    ASSUME NEW S, IsFiniteSet(S), NEW T, NEW m \in [S -> T],
           \A x, y \in S : m[x] = m[y] => x = y, \A y \in T : \E x \in S : m[x] = y
    PROVE  Cardinality(T) = Cardinality(S)
<1>1. m \in Bijection(S, T)
  BY DEF Bijection, Injection, Surjection, IsInjective
<1>2. ExistsBijection(S, T)
  BY <1>1 DEF ExistsBijection
<1> QED BY <1>2, FS_Bijection

\* The windows of a schedule that release_run_entry finds holding are given back.
LEMMA ReleaseAccounts ==
    ASSUME HeldStep, Accounts, NEW s \in DOMAIN schedules, NEW I, NEW t,
           release_run_entries(s, I, t), round.phase # "Issue",
           \A f \in Flows : IF \E i \in Holding(s, I) : schedules[s].entries[i].flow = f
                            THEN f \notin Holders' ELSE RowKept(f)
    PROVE  Accounts'
<1> DEFINE es == schedules[s].entries
           J == Holding(s, I)
           G == {es[i].flow : i \in J}
           entry(f) == es[CHOOSE i \in J : es[i].flow = f]
<1>1. /\ Held /\ TypeOK /\ Windows
      /\ in_flight \in [Resources -> Nat] /\ outstanding \in [Flows -> Nat]
  BY DEF HeldStep, Held, TypeOK, ResourcesTyped, FlowFieldsTyped
<1>2. J \subseteq Undelivered(s)
  BY <1>1, HoldingWindows
<1>3. \A i \in J : /\ es[i].flow \in Flows /\ lifecycle[es[i].flow] = "Scheduled"
                   /\ scheduled[es[i].flow] = <<s, i>>
  BY <1>1, <1>2, WindowRow
<1>4. /\ outstanding' = [f \in Flows |-> IF f \in G
                         THEN Minus(outstanding[f], entry(f).quantum) ELSE outstanding[f]]
      /\ in_flight' = [r \in Resources |-> Minus(in_flight[r],
                         Cardinality({i \in J : es[i].resource = r}))]
  BY DEF release_run_entries
<1>5. IsFiniteSet(J)
  <2>1. J \subseteq DOMAIN schedules[s].entries /\ IsFiniteSet(DOMAIN schedules[s].entries)
    BY <1>1, ScheduleRow DEF Holding
  <2> QED BY <2>1, FS_Subset
<1> HIDE DEF J
<1>6. \A i \in J : /\ es[i].flow \in Holders /\ HeldEntry(es[i].flow) = es[i]
                   /\ entry(es[i].flow) = es[i]
  <2> SUFFICES ASSUME NEW i \in J
               PROVE  /\ es[i].flow \in Holders /\ HeldEntry(es[i].flow) = es[i]
                      /\ entry(es[i].flow) = es[i]
    OBVIOUS
  <2>1. es[i].flow \in Holders /\ HeldEntry(es[i].flow) = es[i]
    <3>1. i \in Undelivered(s)
      BY <1>2
    <3>2. PICK g : g = schedules[s].entries[i].flow
      OBVIOUS
    <3>3. g \in Holders /\ HeldEntry(g) = schedules[s].entries[i]
      BY <1>1, <3>1, <3>2, HeldByWindow, SMTT(60)
    <3> QED BY <3>2, <3>3
  <2>2. \A j \in J : es[j].flow = es[i].flow => j = i
    BY <1>3, SMTT(60)
  <2>3. (CHOOSE j \in J : es[j].flow = es[i].flow) = i
    BY <2>2
  <2> QED BY <2>1, <2>3
<1>7. G \in SUBSET Holders
  BY <1>6, SMTT(60)
<1>8. ASSUME NEW r \in Resources
      PROVE  Cardinality({f \in G : HeldEntry(f).resource = r})
                = Cardinality({i \in J : es[i].resource = r})
  <2> DEFINE S == {i \in J : es[i].resource = r}
             T == {f \in G : HeldEntry(f).resource = r}
             m == [i \in S |-> es[i].flow]
  <2>1. IsFiniteSet(S)
    BY <1>5, FS_Subset
  <2>2. m \in [S -> T]
    BY <1>6
  <2>3. \A x, y \in S : m[x] = m[y] => x = y
    BY <1>3, SMTT(60)
  <2>4. \A y \in T : \E x \in S : m[x] = y
    BY <1>6, SMTT(60)
  <2> HIDE DEF S, T, m
  <2>5. Cardinality(T) = Cardinality(S)
    BY <2>1, <2>2, <2>3, <2>4, CardImage
  <2> QED BY <2>5 DEF S, T
<1>9. \A r \in Resources : in_flight'[r] = Minus(in_flight[r],
                              Cardinality({f \in G : HeldEntry(f).resource = r}))
  <2> HIDE DEF G
  <2> QED BY <1>4, <1>8
<1>10. \A f \in Flows : outstanding'[f] = IF f \in G THEN 0 ELSE outstanding[f]
  <2>1. ASSUME NEW f \in G PROVE Minus(outstanding[f], entry(f).quantum) = 0
    <3>1. f \in Flows /\ HeldEntry(f).quantum \in Nat
      BY <1>1, <1>7, HeldType
    <3>2. outstanding[f] = HeldEntry(f).quantum
      BY <1>7, <3>1 DEF Accounts
    <3>3. entry(f) = HeldEntry(f)
      <4>1. PICK i \in J : es[i].flow = f
        OBVIOUS
      <4> HIDE DEF entry
      <4> QED BY <1>6, <4>1
    <3> HIDE DEF entry
    <3> QED BY <3>1, <3>2, <3>3, SMTT(60) DEF Minus
  <2> HIDE DEF G, entry
  <2> QED BY <1>4, <2>1
<1>11. (\A f \in Flows \ G : Stays(f)) /\ \A f \in G : f \notin Holders'
  <2>1. \A f \in Flows : IF f \in G THEN f \notin Holders' ELSE RowKept(f)
    BY DEF J
  <2>2. G \subseteq Flows
    BY <1>3
  <2> HIDE DEF G
  <2> QED BY <2>1, <2>2, KeptStays
<1> HIDE DEF G
<1> QED BY <1>1, <1>7, <1>9, <1>10, <1>11, AccountsLeft

\* What normalize_transient_states does to a row.
LEMMA NormalRow ==
    ASSUME NEW table, NEW f \in Flows
    PROVE  IF table[f] \in {"Preempting", "Cancelling"}
           THEN normalize_transient_states(table)[f] \in {"Ready", "Cancelled"}
           ELSE normalize_transient_states(table)[f] = table[f]
BY DEF normalize_transient_states

\* A step moves flow g; what it does to the other rows no holder notices.
LEMMA OthersKept ==
    ASSUME TypeOK, NEW g \in Flows, NEW l,
           \/ lifecycle' = [lifecycle EXCEPT ![g] = l]
           \/ lifecycle' = normalize_transient_states([lifecycle EXCEPT ![g] = l]),
           \A f \in Flows : f # g =>
              /\ scheduled'[f] = scheduled[f] /\ open_attempt'[f] = open_attempt[f]
              /\ served_work'[f] = served_work[f] /\ flow'[f] = flow[f]
    PROVE  /\ \A f \in Flows : f # g => RowKept(f)
           /\ l \notin {"Scheduled", "Dispatched", "Running"} => g \notin Holders'
<1> DEFINE table == [lifecycle EXCEPT ![g] = l]
<1>1. table[g] = l /\ \A f \in Flows : f # g => table[f] = lifecycle[f]
  BY DEF TypeOK, FlowRowsTyped
<1>2. lifecycle' = table \/ lifecycle' = normalize_transient_states(table)
  OBVIOUS
<1> HIDE DEF table
<1>3. \A f \in Flows : lifecycle'[f] = table[f]
         \/ (table[f] \in {"Preempting", "Cancelling"} /\ lifecycle'[f] \in {"Ready", "Cancelled"})
  BY <1>2, NormalRow
<1>4. ASSUME NEW f \in Flows, f # g PROVE RowKept(f)
  <2>1. \/ lifecycle'[f] = lifecycle[f]
        \/ lifecycle[f] \in {"Preempting", "Cancelling"} /\ lifecycle'[f] \in {"Ready", "Cancelled"}
    BY <1>1, <1>3, <1>4
  <2> QED BY <1>4, <2>1 DEF RowKept
<1>5. ASSUME l \notin {"Scheduled", "Dispatched", "Running"} PROVE g \notin Holders'
  <2>1. lifecycle'[g] \notin {"Scheduled", "Dispatched", "Running"}
    BY <1>1, <1>3, <1>5
  <2> QED BY <2>1 DEF Holders
<1> QED BY <1>4, <1>5

\* Closing a live attempt gives back what its flow holds.
LEMMA CloseAccounts ==
    ASSUME HeldStep, Accounts, NEW a \in LiveAttempts, NEW state, NEW l, NEW g,
           g = attempts[a].ticket.entry.flow,
           \/ apply_attempt_closed(a, state, [lifecycle EXCEPT ![g] = l])
           \/ apply_attempt_closed(a, state,
                                   normalize_transient_states([lifecycle EXCEPT ![g] = l])),
           UNCHANGED <<served_work, scheduled, flow>>,
           l \notin {"Scheduled", "Dispatched", "Running"}
    PROVE  Accounts'
<1>1. g \in Flows /\ open_attempt[g] = a
  BY HeldByAttempt DEF HeldStep
<1>0. \/ lifecycle' = [lifecycle EXCEPT ![g] = l]
      \/ lifecycle' = normalize_transient_states([lifecycle EXCEPT ![g] = l])
  BY <1>1 DEF apply_attempt_closed
<1>2. /\ outstanding' = [outstanding EXCEPT ![g] = Minus(@, attempts[a].ticket.entry.quantum)]
      /\ open_attempt' = [open_attempt EXCEPT ![g] = NoAttempt]
      /\ in_flight' = [in_flight EXCEPT ![attempts[a].ticket.entry.resource] = Minus(@, 1)]
  BY <1>1 DEF apply_attempt_closed
<1>3. /\ TypeOK /\ DOMAIN outstanding = Flows /\ DOMAIN open_attempt = Flows
  BY DEF HeldStep, Held, TypeOK, FlowFieldsTyped
<1>4. \A f \in Flows : f # g => /\ outstanding'[f] = outstanding[f]
                                /\ open_attempt'[f] = open_attempt[f]
                                /\ scheduled'[f] = scheduled[f]
                                /\ served_work'[f] = served_work[f]
                                /\ flow'[f] = flow[f]
  BY <1>2, <1>3
<1>5. outstanding'[g] = Minus(outstanding[g], attempts[a].ticket.entry.quantum)
  BY <1>1, <1>2, <1>3
<1>6. (\A f \in Flows : f # g => RowKept(f)) /\ g \notin Holders'
  <2>1. TypeOK
    BY <1>3
  <2>2. \A f \in Flows : f # g =>
           /\ scheduled'[f] = scheduled[f] /\ open_attempt'[f] = open_attempt[f]
           /\ served_work'[f] = served_work[f] /\ flow'[f] = flow[f]
    BY <1>4
  <2> QED BY <1>0, <1>1, <2>1, <2>2, OthersKept
<1> QED BY <1>2, <1>4, <1>5, <1>6, AccountsClosed

\* abandon_attempt() and preempt_attempt() end one holding.
LEMMA CallerCloseAccounts ==
    ASSUME HeldStep, Accounts, NEW a, NEW now,
           abandon_attempt(a, now) \/ preempt_attempt(a, now)
    PROVE  Accounts'
<1>1. PICK state \in {"Abandoned", "Preempted"}, after \in {"Ambiguous", "Preempting"} :
         CloseByCaller(a, state, after, now)
  BY DEF abandon_attempt, preempt_attempt
<1>2. PICK g : g = attempts[a].ticket.entry.flow
  OBVIOUS
<1>3. /\ a \in LiveAttempts
      /\ apply_attempt_closed(a, state, normalize_transient_states(
             [lifecycle EXCEPT ![g] = after]))
      /\ UNCHANGED <<served_work, scheduled, flow>>
  BY <1>1, <1>2 DEF CloseByCaller
<1>4. after \notin {"Scheduled", "Dispatched", "Running"}
  OBVIOUS
<1> QED BY <1>2, <1>3, <1>4, CloseAccounts

\* Stopping an overdue flow or a displaced incumbent ends one holding.
LEMMA RoundCloseAccounts ==
    ASSUME HeldStep, Accounts, CandidatesSettled, NEW f \in Flows, NEW v \in Flows,
           RoundOverdue(f) \/ RoundDisplace(f, v)
    PROVE  Accounts'
<1>1. ASSUME NEW g \in Flows, open_attempt[g] # NoAttempt,
             apply_attempt_closed(open_attempt[g], "Preempted",
                                  [lifecycle EXCEPT ![g] = "Preempting"]),
             UNCHANGED <<served_work, scheduled, flow>>
      PROVE  Accounts'
  <2>1. open_attempt[g] \in LiveAttempts /\ attempts[open_attempt[g]].ticket.entry.flow = g
    BY <1>1 DEF HeldStep, Held, AuthorityExclusive
  <2>2. "Preempting" \notin {"Scheduled", "Dispatched", "Running"}
    OBVIOUS
  <2>3. PICK a : a = open_attempt[g]
    OBVIOUS
  <2> QED BY <1>1, <2>1, <2>2, <2>3, CloseAccounts
<1>2. CASE RoundOverdue(f)
  <2>1. /\ round.phase = "Overdue" /\ f \in round.todo
        /\ UNCHANGED <<served_work, scheduled, flow>>
        /\ apply_attempt_closed(open_attempt[f], "Preempted",
                                [lifecycle EXCEPT ![f] = "Preempting"])
    BY <1>2 DEF RoundOverdue
  <2>2. open_attempt[f] # NoAttempt
    BY <2>1 DEF CandidatesSettled
  <2> QED BY <1>1, <2>1, <2>2
<1>3. CASE RoundDisplace(f, v)
  <2>1. /\ v \in Incumbents(flow[f].resource) /\ UNCHANGED <<served_work, scheduled, flow>>
        /\ apply_attempt_closed(open_attempt[v], "Preempted",
                                [lifecycle EXCEPT ![v] = "Preempting"])
    BY <1>3 DEF RoundDisplace
  <2>2. open_attempt[v] # NoAttempt
    BY <2>1 DEF Incumbents
  <2> QED BY <1>1, <2>1, <2>2
<1> QED BY <1>2, <1>3

\* A commit gives back what its flow holds, and credits no more than that.
LEMMA CompleteAccounts ==
    ASSUME HeldStep, Accounts, NEW ev \in Reports, NEW now, complete(ev, now)
    PROVE  /\ Accounts'
           /\ \A f \in Flows : served_work'[f] > served_work[f] =>
                 served_work'[f] <= flow[f].estimated_work
<1> DEFINE a == ev.attempt
           e == attempts[a].ticket.entry
<1>1. PICK g : g = ev.ticket.entry.flow
  OBVIOUS
<1>2. /\ a \in LiveAttempts /\ e.flow = g
      /\ ev.served <= e.quantum
  BY <1>1 DEF complete, StillOpen, NamesAttempt, WithinGrant, LiveAttempts
<1>3. /\ lifecycle' = normalize_transient_states([lifecycle EXCEPT ![g] = LifecycleAfter(ev, now)])
      /\ outstanding' = [outstanding EXCEPT ![g] = Minus(@, e.quantum)]
      /\ open_attempt' = [open_attempt EXCEPT ![g] = NoAttempt]
      /\ scheduled' = [scheduled EXCEPT ![g] = NoSlot]
      /\ in_flight' = [in_flight EXCEPT ![e.resource] = Minus(@, 1)]
      /\ served_work' = [served_work EXCEPT ![g] = @ + Credit(ev)]
      /\ flow' = flow
  BY <1>1 DEF complete
<1>4. LifecycleAfter(ev, now) \notin {"Scheduled", "Dispatched", "Running"}
  BY DEF LifecycleAfter
<1>5. /\ TypeOK /\ DOMAIN outstanding = Flows /\ DOMAIN open_attempt = Flows
      /\ DOMAIN scheduled = Flows /\ served_work \in [Flows -> Nat]
  BY DEF HeldStep, Held, TypeOK, FlowFieldsTyped
<1>6. g \in Flows /\ g \in Holders /\ HeldEntry(g) = e
  BY <1>2, HeldByAttempt DEF HeldStep
<1>7. ev.served \in Nat /\ Credit(ev) \in Nat /\ Credit(ev) <= ev.served
  BY SMTT(60) DEF Reports, Credit
<1> HIDE DEF e, a
<1>8. \A f \in Flows : f # g => /\ outstanding'[f] = outstanding[f]
                                /\ open_attempt'[f] = open_attempt[f]
                                /\ scheduled'[f] = scheduled[f]
                                /\ served_work'[f] = served_work[f]
                                /\ flow'[f] = flow[f]
  BY <1>3, <1>5
<1>9. outstanding'[g] = Minus(outstanding[g], e.quantum)
  BY <1>3, <1>5, <1>6
<1>10. PICK l : l = LifecycleAfter(ev, now)
  OBVIOUS
<1>11. (\A f \in Flows : f # g => RowKept(f)) /\ g \notin Holders'
  BY <1>3, <1>4, <1>5, <1>6, <1>8, <1>10, OthersKept
<1>12. Accounts'
  BY <1>2, <1>3, <1>8, <1>9, <1>11, AccountsClosed DEF e
<1>13. served_work'[g] <= flow[g].estimated_work
  <2>1. /\ served_work[g] + e.quantum <= flow[g].estimated_work
        /\ e.quantum \in Nat /\ flow[g].estimated_work \in Nat
    <3>1. served_work[g] + e.quantum <= flow[g].estimated_work
      BY <1>6 DEF Accounts, Terms
    <3>2. e.quantum \in Nat
      BY <1>6, HeldType DEF HeldStep
    <3>3. lifecycle[g] # "Absent"
      BY <1>6 DEF Holders
    <3>4. flow[g].estimated_work \in Nat
      BY <1>5, <1>6, <3>3 DEF TypeOK, FlowRowsTyped, FlowDescriptors
    <3> QED BY <3>1, <3>2, <3>4
  <2>2. served_work'[g] = served_work[g] + Credit(ev)
    BY <1>3, <1>5, <1>6
  <2> QED BY <1>2, <1>5, <1>6, <1>7, <2>1, <2>2, SMTT(60)
<1>14. \A f \in Flows : f # g => ~(served_work'[f] > served_work[f])
  BY <1>5, <1>8, SMTT(60)
<1> QED BY <1>12, <1>13, <1>14

\* A cancelled flow gives back what it holds.
LEMMA CancelAccounts ==
    ASSUME HeldStep, Accounts, NEW f \in Flows, cancel_flow(f)
    PROVE  Accounts'
<1>1. /\ lifecycle' = normalize_transient_states([lifecycle EXCEPT ![f] = "Cancelled"])
      /\ outstanding' = [outstanding EXCEPT ![f] = 0]
      /\ scheduled' = [scheduled EXCEPT ![f] = NoSlot]
      /\ open_attempt' \in {open_attempt, [open_attempt EXCEPT ![f] = NoAttempt]}
      /\ UNCHANGED <<served_work, flow>>
  BY DEF cancel_flow
<1>2. /\ TypeOK /\ DOMAIN outstanding = Flows /\ DOMAIN open_attempt = Flows
      /\ DOMAIN scheduled = Flows /\ Held
  BY DEF HeldStep, Held, TypeOK, FlowFieldsTyped
<1>3. /\ outstanding'[f] = 0
      /\ \A g \in Flows : g # f => /\ outstanding'[g] = outstanding[g]
                                   /\ scheduled'[g] = scheduled[g]
                                   /\ open_attempt'[g] = open_attempt[g]
                                   /\ served_work'[g] = served_work[g]
                                   /\ flow'[g] = flow[g]
  BY <1>1, <1>2
<1>4. "Cancelled" \notin {"Scheduled", "Dispatched", "Running"}
  OBVIOUS
<1>5. (\A g \in Flows : g # f => RowKept(g)) /\ f \notin Holders'
  BY <1>1, <1>2, <1>3, <1>4, OthersKept
<1>6. CASE open_attempt[f] # NoAttempt
  <2>1. PICK a : a = open_attempt[f]
    OBVIOUS
  <2>2. a \in LiveAttempts /\ attempts[a].ticket.entry.flow = f
    BY <1>2, <1>6, <2>1 DEF Held, AuthorityExclusive
  <2>3. in_flight' = [in_flight EXCEPT ![attempts[a].ticket.entry.resource] = Minus(@, 1)]
    BY <1>6, <2>1 DEF cancel_flow
  <2> QED BY <1>3, <1>5, <2>2, <2>3, AccountsClosed
<1>7. CASE open_attempt[f] = NoAttempt /\ lifecycle[f] = "Scheduled"
  <2>1. PICK r : r = schedules[scheduled[f][1]].entries[scheduled[f][2]].resource
    OBVIOUS
  <2>2. f \in Holders /\ HeldEntry(f).resource = r
    BY <1>7, <2>1 DEF Holders, HeldEntry
  <2>3. in_flight' = [in_flight EXCEPT ![r] = Minus(@, 1)]
    BY <1>7, <2>1 DEF cancel_flow
  <2>4. in_flight \in [Resources -> Nat]
    BY <1>2 DEF TypeOK, ResourcesTyped
  <2>5. \A x \in Resources : in_flight'[x] =
           IF x = HeldEntry(f).resource THEN Minus(in_flight[x], 1) ELSE in_flight[x]
    BY <2>2, <2>3, <2>4
  <2>6. \A g \in Flows \ {f} : Stays(g)
    BY <1>5, KeptStays
  <2>7. \A g \in Flows : outstanding'[g] = IF g = f THEN 0 ELSE outstanding[g]
    BY <1>3
  <2> QED BY <1>2, <1>5, <2>2, <2>5, <2>6, <2>7, AccountsOneLeft
<1>8. CASE open_attempt[f] = NoAttempt /\ lifecycle[f] # "Scheduled"
  <2>1. in_flight' = in_flight
    BY <1>8 DEF cancel_flow
  <2>2. lifecycle[f] \notin {"Dispatched", "Running"}
    BY <1>2, <1>8, NamedAttempt DEF Held
  <2>3. f \notin Holders
    BY <1>8, <2>2 DEF Holders
  <2> QED BY <1>3, <1>5, <2>1, <2>3, AccountsOutside
<1> QED BY <1>6, <1>7, <1>8

\* A flow that holds nothing moves to a state in which it holds nothing.
LEMMA MoveAccounts ==
    ASSUME HeldStep, Accounts, NEW g \in Flows, NEW l,
           lifecycle' = [lifecycle EXCEPT ![g] = l],
           {lifecycle[g], l} \cap {"Scheduled", "Dispatched", "Running"} = {},
           \A f \in Flows : f # g =>
              /\ scheduled'[f] = scheduled[f] /\ open_attempt'[f] = open_attempt[f]
              /\ served_work'[f] = served_work[f] /\ flow'[f] = flow[f]
              /\ outstanding'[f] = outstanding[f],
           outstanding'[g] \in {0, outstanding[g]}, in_flight' = in_flight
    PROVE  Accounts'
<1>1. l \notin {"Scheduled", "Dispatched", "Running"} /\ g \notin Holders
  BY DEF Holders
<1>2. TypeOK
  BY DEF HeldStep, Held
<1>3. (\A f \in Flows : f # g => RowKept(f)) /\ g \notin Holders'
  BY <1>1, <1>2, OthersKept
<1> QED BY <1>1, <1>3, AccountsOutside

\* Calls about a flow that holds nothing.
LEMMA FlowCallAccounts ==
    ASSUME HeldStep, Accounts, NEW f \in Flows,
           \/ \E d \in FlowSpace : admit_flow(f, d)
           \/ \E after \in {"Waiting", "Failed"}, now \in Readings :
                 resolve_ambiguous(f, after, now)
           \/ retire_flow(f)
    PROVE  Accounts'
<1>1. /\ DOMAIN outstanding = Flows /\ DOMAIN open_attempt = Flows /\ DOMAIN scheduled = Flows
      /\ DOMAIN served_work = Flows /\ DOMAIN flow = Flows
  BY DEF HeldStep, Held, TypeOK, FlowFieldsTyped, FlowRowsTyped
<1>2. CASE (\E d \in FlowSpace : admit_flow(f, d)) \/ retire_flow(f)
  <2>1. PICK l, d :
           /\ \/ lifecycle[f] = "Absent" /\ l = "Waiting"
              \/ is_terminal(lifecycle[f]) /\ l = "Absent"
           /\ lifecycle' = [lifecycle EXCEPT ![f] = l]
           /\ flow' = [flow EXCEPT ![f] = d]
           /\ served_work' = [served_work EXCEPT ![f] = 0]
           /\ outstanding' = [outstanding EXCEPT ![f] = 0]
           /\ open_attempt' = [open_attempt EXCEPT ![f] = NoAttempt]
           /\ scheduled' = [scheduled EXCEPT ![f] = NoSlot]
           /\ in_flight' = in_flight
    BY <1>2 DEF admit_flow, retire_flow
  <2>2. {lifecycle[f], l} \cap {"Scheduled", "Dispatched", "Running"} = {}
    BY <2>1 DEF is_terminal
  <2>3. /\ outstanding'[f] \in {0, outstanding[f]}
        /\ \A g \in Flows : g # f =>
              /\ scheduled'[g] = scheduled[g] /\ open_attempt'[g] = open_attempt[g]
              /\ served_work'[g] = served_work[g] /\ flow'[g] = flow[g]
              /\ outstanding'[g] = outstanding[g]
    BY <1>1, <2>1
  <2> QED BY <2>1, <2>2, <2>3, MoveAccounts
<1>3. ASSUME NEW after \in {"Waiting", "Failed"}, NEW now, resolve_ambiguous(f, after, now)
      PROVE  Accounts'
  <2>1. /\ lifecycle[f] = "Ambiguous" /\ lifecycle' = [lifecycle EXCEPT ![f] = after]
        /\ UNCHANGED <<scheduled, open_attempt, served_work, flow, outstanding, in_flight>>
    BY <1>3 DEF resolve_ambiguous
  <2>2. {lifecycle[f], after} \cap {"Scheduled", "Dispatched", "Running"} = {}
    BY <2>1
  <2> QED BY <2>1, <2>2, MoveAccounts
<1> QED BY <1>2, <1>3

\* A readiness signal touches no other field of the descriptor.
LEMMA NotifyAccounts ==
    ASSUME HeldStep, Accounts, NEW f \in Flows, NEW signal, NEW now,
           notify_readiness(f, signal, now)
    PROVE  Accounts'
<1>1. /\ flow' = [flow EXCEPT ![f].readiness_signal = signal] /\ lifecycle[f] # "Absent"
      /\ UNCHANGED <<lifecycle, scheduled, open_attempt, served_work, in_flight, outstanding>>
  BY DEF notify_readiness
<1>2. flow[f] \in FlowDescriptors /\ DOMAIN flow = Flows
  BY <1>1 DEF HeldStep, Held, TypeOK, FlowRowsTyped
<1>3. \A g \in Flows : /\ flow'[g].estimated_work = flow[g].estimated_work
                       /\ flow'[g].deadline_tick = flow[g].deadline_tick
  BY <1>1, <1>2 DEF FlowDescriptors
<1>4. \A g \in Flows : RowKept(g)
  BY <1>1, <1>3 DEF RowKept
<1> QED BY <1>1, <1>4, AccountsAlone

\* What Released does to a row.
LEMMA ReleasedRow ==
    ASSUME NEW s, NEW I, NEW f \in Flows
    PROVE  IF \E i \in Holding(s, I) : schedules[s].entries[i].flow = f
           THEN Released(s, I)[f] = "Ready" ELSE Released(s, I)[f] = lifecycle[f]
BY DEF Released

\* Windows that are released are given back.
LEMMA ReleaseCallAccounts ==
    ASSUME HeldStep, Accounts, NEW s \in DOMAIN schedules,
           release_schedule(s) \/ RoundReclaim(s)
    PROVE  Accounts'
<1>1. PICK I, t :
         /\ release_run_entries(s, I, t)
         /\ t = Released(s, I) \/ t = normalize_transient_states(Released(s, I))
         /\ round.phase \in {"Idle", "Reclaim"}
         /\ UNCHANGED <<flow, served_work, open_attempt>>
  BY DEF release_schedule, RoundReclaim, Idle
<1>2. ASSUME NEW f \in Flows
      PROVE  IF \E i \in Holding(s, I) : schedules[s].entries[i].flow = f
             THEN f \notin Holders' ELSE RowKept(f)
  <2>1. lifecycle' = t /\ scheduled'[f] =
           IF \E i \in Holding(s, I) : schedules[s].entries[i].flow = f
           THEN NoSlot ELSE scheduled[f]
    BY <1>1 DEF release_run_entries
  <2>2. IF \E i \in Holding(s, I) : schedules[s].entries[i].flow = f
        THEN lifecycle'[f] = "Ready"
        ELSE \/ lifecycle'[f] = lifecycle[f]
             \/ /\ lifecycle[f] \in {"Preempting", "Cancelling"}
                /\ lifecycle'[f] \in {"Ready", "Cancelled"}
    BY <1>1, <2>1, ReleasedRow, NormalRow, SMTT(60)
  <2>3. CASE \E i \in Holding(s, I) : schedules[s].entries[i].flow = f
    BY <2>2, <2>3 DEF Holders
  <2>4. CASE ~ \E i \in Holding(s, I) : schedules[s].entries[i].flow = f
    <3>1. scheduled'[f] = scheduled[f]
      BY <2>1, <2>4
    <3>2. \/ lifecycle'[f] = lifecycle[f]
          \/ /\ lifecycle[f] \in {"Preempting", "Cancelling"}
             /\ lifecycle'[f] \in {"Ready", "Cancelled"}
      BY <2>2, <2>4
    <3>3. RowKept(f)
      BY <1>1, <3>1, <3>2 DEF RowKept
    <3> QED BY <2>4, <3>3
  <2> QED BY <2>3, <2>4
<1>3. round.phase # "Issue"
  BY <1>1
<1> QED BY <1>1, <1>2, <1>3, ReleaseAccounts

\* An update releases the window of its flow, or the flow holds none.
LEMMA UpdateAccounts ==
    ASSUME HeldStep, Accounts, NEW f \in Flows, NEW d, update_flow(f, d)
    PROVE  Accounts'
<1>1. /\ Idle /\ ~holds_open_work(lifecycle[f]) /\ RetireWindow(f)
      /\ flow' = [flow EXCEPT ![f] = d] /\ UNCHANGED <<served_work, open_attempt>>
  BY DEF update_flow
<1>2. DOMAIN flow = Flows /\ Held
  BY DEF HeldStep, Held, TypeOK, FlowRowsTyped
<1>3. \A g \in Flows : g # f => flow'[g] = flow[g]
  BY <1>1, <1>2
<1>4. lifecycle[f] \notin {"Dispatched", "Running"}
  BY <1>1 DEF holds_open_work
<1>5. CASE lifecycle[f] # "Scheduled"
  <2>1. UNCHANGED <<outstanding, scheduled, in_flight, lifecycle>>
    BY <1>1, <1>5 DEF RetireWindow
  <2>2. f \notin Holders
    BY <1>4, <1>5 DEF Holders
  <2>3. \A g \in Flows : RowKept(g)
    BY <1>1, <1>3, <2>1, <2>2 DEF RowKept
  <2> QED BY <2>1, <2>3, AccountsAlone
<1>6. CASE lifecycle[f] = "Scheduled"
  <2>1. PICK s, i : /\ s \in DOMAIN schedules /\ i \in Undelivered(s)
                    /\ scheduled[f] = <<s, i>> /\ schedules[s].entries[i].flow = f
    BY <1>2, <1>6, HeldRow DEF Held
  <2>2. scheduled[f][1] = s /\ scheduled[f][2] = i
    BY <2>1, SMTT(60)
  <2>a. PICK I : I = {i}
    OBVIOUS
  <2>3. release_run_entries(s, I, Released(s, I))
    BY <1>1, <1>6, <2>1, <2>2, <2>a DEF RetireWindow
  <2>4. round.phase # "Issue"
    BY <1>1 DEF Idle
  <2>5. i \in Holding(s, I)
    BY <1>2, <2>1, <2>4, <2>a, HoldingWindows DEF Held
  <2>6. ASSUME NEW g \in Flows
        PROVE  IF \E j \in Holding(s, I) : schedules[s].entries[j].flow = g
               THEN g \notin Holders' ELSE RowKept(g)
    <3>1. lifecycle' = Released(s, I) /\ scheduled'[g] =
             IF \E j \in Holding(s, I) : schedules[s].entries[j].flow = g
             THEN NoSlot ELSE scheduled[g]
      BY <2>3 DEF release_run_entries
    <3>2. CASE \E j \in Holding(s, I) : schedules[s].entries[j].flow = g
      <4>1. lifecycle'[g] = "Ready"
        BY <3>1, <3>2, ReleasedRow
      <4> QED BY <3>2, <4>1 DEF Holders
    <3>3. CASE ~ \E j \in Holding(s, I) : schedules[s].entries[j].flow = g
      <4>0. Released(s, I)[g] = lifecycle[g]
        BY <3>3 DEF Released
      <4>1. lifecycle'[g] = lifecycle[g] /\ scheduled'[g] = scheduled[g]
        BY <3>1, <3>3, <4>0
      <4>2. g # f
        BY <2>1, <2>5, <3>3
      <4>3. RowKept(g)
        BY <1>1, <1>3, <4>1, <4>2 DEF RowKept
      <4> QED BY <3>3, <4>3
    <3> QED BY <3>2, <3>3
  <2> QED BY <2>1, <2>3, <2>4, <2>6, ReleaseAccounts
<1> QED BY <1>5, <1>6

\* A dispatch holds what the window held.
LEMMA BeginAccounts ==
    ASSUME HeldStep, Accounts, NEW s \in DOMAIN schedules,
           NEW i \in DOMAIN schedules[s].entries, NEW boot, NEW now,
           begin_dispatch(s, i, boot, now)
    PROVE  Accounts'
<1>1. PICK e : e = schedules[s].entries[i]
  OBVIOUS
<1>2. PICK g : g = e.flow
  OBVIOUS
<1>3. PICK t : t.entry = e /\ attempts' = With(attempts, next_attempt,
                            [ticket |-> t, state |-> "Open", evidence |-> <<>>])
  <2> DEFINE u == [attempt |-> next_attempt, epoch |-> epoch, schedule |-> s,
                   policy |-> PolicyBinding, boot |-> boot, entry |-> e]
  <2>1. u.entry = e
    OBVIOUS
  <2>2. attempts' = With(attempts, next_attempt,
                         [ticket |-> u, state |-> "Open", evidence |-> <<>>])
    BY <1>1 DEF begin_dispatch
  <2> QED BY <2>1, <2>2
<1>4. /\ round.phase = "Idle" /\ e.kind = "Run" /\ schedules[s].consumed[i] = 0
      /\ open_attempt' = [open_attempt EXCEPT ![g] = next_attempt]
      /\ lifecycle' = [lifecycle EXCEPT ![g] = "Dispatched"]
      /\ UNCHANGED <<flow, served_work, outstanding, scheduled, in_flight>>
  BY <1>1, <1>2 DEF begin_dispatch, Idle
<1>5. i \in Undelivered(s)
  BY <1>1, <1>4 DEF Undelivered, Ahead
<1>6. g \in Flows /\ g \in Holders /\ HeldEntry(g) = e
  BY <1>1, <1>2, <1>5, HeldByWindow DEF HeldStep
<1>7. /\ TypeOK /\ DOMAIN open_attempt = Flows /\ DOMAIN lifecycle = Flows
  BY DEF HeldStep, Held, TypeOK, FlowFieldsTyped, FlowRowsTyped
<1>8. attempts'[next_attempt].ticket.entry = e
  BY <1>3 DEF With
<1>9. Stays(g)
  <2>1. lifecycle'[g] = "Dispatched" /\ open_attempt'[g] = next_attempt
    BY <1>4, <1>6, <1>7
  <2>2. HeldEntry(g)' = e
    BY <1>8, <2>1 DEF HeldEntry
  <2>3. g \in Holders'
    BY <1>6, <2>1 DEF Holders
  <2> QED BY <1>4, <1>6, <2>2, <2>3 DEF Stays
<1>10. ASSUME NEW f \in Flows, f # g PROVE Stays(f)
  <2>1. lifecycle'[f] = lifecycle[f] /\ open_attempt'[f] = open_attempt[f]
    BY <1>4, <1>7, <1>10
  <2>2. RowKept(f)
    BY <1>4, <2>1 DEF RowKept
  <2> QED BY <2>2, KeptStays
<1> QED BY <1>4, <1>9, <1>10, AccountsKept

\* A start moves a flow in flight.
LEMMA StartAccounts ==
    ASSUME HeldStep, Accounts, NEW t \in tickets, NEW now, mark_started(t, now)
    PROVE  Accounts'
<1>1. PICK g : g = attempts[t.attempt].ticket.entry.flow
  OBVIOUS
<1>2. /\ t.attempt \in DOMAIN attempts
      /\ lifecycle' = IF open_attempt[g] = t.attempt
                      THEN [lifecycle EXCEPT ![g] = "Running"] ELSE lifecycle
      /\ UNCHANGED <<flow, served_work, open_attempt, scheduled, outstanding, in_flight>>
  BY <1>1 DEF mark_started
<1>3. /\ TypeOK /\ DOMAIN lifecycle = Flows /\ AuthorityExclusive
  BY DEF HeldStep, Held, TypeOK, FlowRowsTyped
<1>4. g \in Flows /\ t.attempt # NoAttempt
  BY <1>1, <1>2, <1>3, AttemptRow DEF NoAttempt
<1>5. open_attempt[g] = t.attempt => lifecycle[g] \in {"Dispatched", "Running"}
  BY <1>3, <1>4, NamedAttempt
<1>6. ASSUME NEW f \in Flows PROVE RowKept(f)
  <2>1. \/ lifecycle'[f] = lifecycle[f]
        \/ lifecycle[f] \in {"Dispatched", "Running"} /\ lifecycle'[f] = "Running"
    BY <1>2, <1>3, <1>5
  <2> QED BY <1>2, <2>1 DEF RowKept
<1> QED BY <1>2, <1>6, AccountsAlone

\* An epoch advance leaves no holder.
LEMMA EpochAccounts ==
    ASSUME HeldStep, Accounts, advance_epoch
    PROVE  Accounts'
<1> DEFINE table == [f \in Flows |-> IF open_attempt[f] \in LiveAttempts THEN "Ambiguous"
                      ELSE IF lifecycle[f] = "Scheduled" THEN "Ready" ELSE lifecycle[f]]
<1>1. /\ lifecycle' = normalize_transient_states(table)
      /\ outstanding' = [f \in Flows |-> 0] /\ in_flight' = [r \in Resources |-> 0]
  BY DEF advance_epoch
<1>2. ASSUME NEW f \in Flows PROVE table[f] \notin {"Scheduled", "Dispatched", "Running"}
  <2>1. lifecycle[f] \in {"Dispatched", "Running"} => open_attempt[f] \in LiveAttempts
    BY DEF HeldStep, Held, AuthorityExclusive
  <2> QED BY <2>1
<1> HIDE DEF table
<1>3. Holders' = {}
  <2>1. \A f \in Flows : lifecycle'[f] \notin {"Scheduled", "Dispatched", "Running"}
    BY <1>1, <1>2, NormalRow
  <2> QED BY <2>1 DEF Holders
<1>4. \A r \in Resources : HeldOn(r)' = {}
  BY <1>3 DEF HeldOn
<1>5. Cardinality({}) = 0
  BY FS_EmptySet
<1>6. Terms'
  BY <1>3 DEF Terms
<1>7. \A r \in Resources : in_flight'[r] = Cardinality(HeldOn(r))'
  BY <1>1, <1>4, <1>5
<1>8. \A f \in Flows : outstanding'[f] = IF f \in Holders' THEN HeldEntry(f)'.quantum ELSE 0
  BY <1>1, <1>3
<1> QED BY <1>6, <1>7, <1>8 DEF Accounts

\* apply_schedule charges the window it grants.
LEMMA ApplyAccounts ==
    ASSUME HeldStep, Accounts, PlanHeld, RoundApply
    PROVE  Accounts'
<1>1. PICK e : e = round.entries[round.next]
  OBVIOUS
<1>2. PICK g : g = e.flow
  OBVIOUS
<1>3. /\ round.phase = "Issue" /\ round.next <= Len(round.entries)
      /\ UNCHANGED <<flow, served_work, open_attempt>>
      /\ IF Applies(e) THEN Assign(e)
         ELSE UNCHANGED <<outstanding, scheduled, lifecycle, in_flight>>
  BY <1>1 DEF RoundApply
<1>4. Held /\ TypeOK
  BY DEF HeldStep, Held
<1>5. /\ e \in Entries /\ next_schedule \in DOMAIN schedules
      /\ schedules[next_schedule].entries = round.entries
      /\ e.kind = "Run" => Placed(e)
  BY <1>1, <1>3, <1>4, AppliesPlaced
<1>6. CASE ~Applies(e)
  <2>1. \A f \in Flows : RowKept(f)
    BY <1>3, <1>6 DEF RowKept
  <2> QED BY <1>3, <1>6, <2>1, AccountsAlone
<1>7. CASE Applies(e)
  <2>1. Placed(e)
    BY <1>5, <1>7 DEF Applies
  <2>2. /\ lifecycle[g] = "Ready" /\ resource[e.resource].generation = e.resource_generation
        /\ served_work[g] + e.quantum <= flow[g].estimated_work
        /\ e.deadline_tick = flow[g].deadline_tick
    BY <1>2, <2>1 DEF Placed
  <2>3. /\ outstanding' = [outstanding EXCEPT ![g] = @ + e.quantum]
        /\ scheduled' = [scheduled EXCEPT ![g] = <<next_schedule, round.next>>]
        /\ lifecycle' = [lifecycle EXCEPT ![g] = "Scheduled"]
        /\ in_flight' = [in_flight EXCEPT ![e.resource] = @ + 1]
        /\ DOMAIN schedules' = DOMAIN schedules
    BY <1>2, <1>3, <1>7, <2>2 DEF Assign
  <2>4. g \in Flows /\ e.quantum \in Nat /\ e.resource \in Resources
    BY <1>2, <1>5 DEF Entries
  <2>5. DOMAIN lifecycle = Flows /\ DOMAIN scheduled = Flows
    BY <1>4 DEF TypeOK, FlowRowsTyped, FlowFieldsTyped
  <2>6. lifecycle'[g] = "Scheduled" /\ scheduled'[g] = <<next_schedule, round.next>>
    BY <2>3, <2>4, <2>5
  <2>7. schedules'[next_schedule].entries = round.entries
    BY <1>5, <2>3 DEF HeldStep, SchedulesGoOn, RowGoesOn
  <2>8. HeldEntry(g)' = e
    BY <1>1, <2>6, <2>7, SMTT(60) DEF HeldEntry
  <2>9. g \notin Holders /\ g \in Holders'
    BY <2>2, <2>4, <2>6 DEF Holders
  <2>10. ASSUME NEW f \in Flows \ {g} PROVE Stays(f)
    <3>1. f \in Flows /\ lifecycle'[f] = lifecycle[f] /\ scheduled'[f] = scheduled[f]
      BY <2>3, <2>5
    <3>2. RowKept(f)
      BY <1>3, <3>1 DEF RowKept
    <3> QED BY <3>1, <3>2, KeptStays
  <2>11. served_work'[g] + e.quantum <= flow'[g].estimated_work /\ e.deadline_tick = flow'[g].deadline_tick
    BY <1>3, <2>2
  <2> QED BY <1>4, <2>3, <2>4, <2>8, <2>9, <2>10, <2>11, AccountsTaken
<1> QED BY <1>6, <1>7

\* The other steps of a round take nothing.
LEMMA RoundAccounts ==
    ASSUME HeldStep, Accounts, CandidatesSettled,
           \/ \E f \in Flows : RoundRefresh(f) \/ RoundLapse(f)
           \/ RoundFinish
    PROVE  Accounts'
<1>1. ASSUME NEW f \in Flows, RoundRefresh(f) \/ RoundLapse(f)
      PROVE  Accounts'
  <2>1. \/ round.phase = "Refresh" /\ f \in round.todo
        \/ round.phase = "Assign" /\ f \in round.todo
    BY <1>1 DEF RoundRefresh, RoundLapse, Candidate
  <2>2. lifecycle[f] \in {"Waiting", "Ready"}
    BY <2>1 DEF CandidatesSettled
  <2>3. PICK l : /\ l \in {"Ready", "Failed", lifecycle[f]}
                 /\ lifecycle' = [lifecycle EXCEPT ![f] = l]
                 /\ UNCHANGED <<scheduled, open_attempt, served_work, flow, outstanding, in_flight>>
    BY <1>1 DEF RoundRefresh, RoundLapse, LapseLifecycle
  <2>4. {lifecycle[f], l} \cap {"Scheduled", "Dispatched", "Running"} = {}
    BY <2>2, <2>3
  <2> QED BY <2>3, <2>4, MoveAccounts
<1>2. CASE RoundFinish
  <2>1. /\ lifecycle' = normalize_transient_states(lifecycle)
        /\ UNCHANGED <<scheduled, open_attempt, served_work, flow, outstanding, in_flight>>
    BY <1>2 DEF RoundFinish
  <2>2. ASSUME NEW f \in Flows PROVE RowKept(f)
    <3>1. \/ lifecycle'[f] = lifecycle[f]
          \/ /\ lifecycle[f] \in {"Preempting", "Cancelling"}
             /\ lifecycle'[f] \in {"Ready", "Cancelled"}
      BY <2>1, NormalRow
    <3> QED BY <2>1, <3>1 DEF RowKept
  <2> QED BY <2>1, <2>2, AccountsAlone
<1> QED BY <1>1, <1>2

\* No step changes the ticket of an attempt it retains.
LEMMA StepTickets ==
    ASSUME TypeOK, [Next]_vars
    PROVE  TicketsKept
<1>1. CASE Begins
  <2>a. PICK s, i, boot, now : begin_dispatch(s, i, boot, now)
    BY <1>1 DEF Begins
  <2>1. PICK new : attempts' = With(attempts, next_attempt, new)
    BY <2>a DEF begin_dispatch
  <2>2. next_attempt \notin DOMAIN attempts
    BY SMTT(60) DEF TypeOK, AttemptsTyped
  <2> QED BY <2>1, <2>2 DEF With, TicketsKept
<1>2. CASE Completes
  <2>1. PICK ev, now : complete(ev, now)
    BY <1>2 DEF Completes
  <2> QED BY <2>1, CompleteRows DEF TicketsKept
<1>3. CASE AttemptsGoOn
  BY <1>3 DEF AttemptsGoOn, TicketsKept
<1> QED BY <1>1, <1>2, <1>3, StepAttempts

\* A call that leaves the flows' rows and the counters alone.
LEMMA AccountsQuiet ==
    ASSUME HeldStep, Accounts,
           UNCHANGED <<lifecycle, flow, served_work, open_attempt, scheduled, in_flight, outstanding>>
    PROVE  Accounts'
<1>1. \A f \in Flows : RowKept(f)
  BY DEF RowKept
<1> QED BY <1>1, AccountsAlone

\* Every step keeps the counters exact, and a commit credits no more than the work.
LEMMA StepAccounts ==
    ASSUME HeldStep, PlanHeld, CandidatesSettled, Evidence \subseteq Reports, Accounts,
           [Next]_vars
    PROVE  Accounts'
<1>1. CASE Topology \/ RoundAborted \/ \E now \in Readings : Refused(now) \/ RoundBegin(now)
  BY <1>1, AccountsQuiet DEF Topology, register_resource, register_reservation,
     retire_reservation, register_class, install_policy, Refused, RoundBegin, RoundAborted
<1>2. CASE FlowCall
  <2>1. PICK f \in Flows :
           \/ \E d \in FlowSpace : admit_flow(f, d) \/ update_flow(f, d)
           \/ cancel_flow(f)
           \/ \E signal \in SignalSpace, now \in Readings : notify_readiness(f, signal, now)
           \/ \E after \in {"Waiting", "Failed"}, now \in Readings :
                 resolve_ambiguous(f, after, now)
           \/ retire_flow(f)
    BY <1>2 DEF FlowCall
  <2> QED BY <2>1, FlowCallAccounts, UpdateAccounts, CancelAccounts, NotifyAccounts
<1>3. CASE DispatchCall
  BY <1>3, ReleaseCallAccounts, BeginAccounts, StartAccounts, CallerCloseAccounts,
     CompleteAccounts DEF DispatchCall
<1>4. CASE RoundStep
  <2>1. CASE \E s \in DOMAIN schedules : RoundReclaim(s)
    BY <2>1, ReleaseCallAccounts
  <2>2. CASE (\E f \in Flows : RoundOverdue(f)) \/ \E f, v \in Flows : RoundDisplace(f, v)
    BY <2>2, RoundCloseAccounts
  <2>3. CASE (\E f \in Flows : RoundRefresh(f) \/ RoundLapse(f)) \/ RoundFinish
    BY <2>3, RoundAccounts
  <2>4. CASE \/ \E f \in Flows : RoundSkip(f) \/ RoundGrant(f) \/ RoundBlocked(f)
             \/ RoundReclaimed \/ RoundRefreshed \/ RoundRank \/ RoundIssue
    BY <2>4, AccountsQuiet DEF RoundSkip, RoundGrant, RoundBlocked, RoundReclaimed,
       RoundRefreshed, RoundRank, RoundIssue
  <2> QED BY <1>4, <2>1, <2>2, <2>3, <2>4, ApplyAccounts DEF RoundStep
<1>5. CASE advance_epoch
  BY <1>5, EpochAccounts
<1>6. CASE UNCHANGED vars
  BY <1>6, AccountsQuiet DEF vars
<1> QED BY <1>1, <1>2, <1>3, <1>4, <1>5, <1>6 DEF Next

\* Only a commit credits service, and within the work of the flow.
LEMMA StepCredit ==
    ASSUME HeldStep, Accounts, Evidence \subseteq Reports, [Next]_vars, NEW f \in Flows,
           served_work'[f] > served_work[f]
    PROVE  served_work'[f] <= flow[f].estimated_work
<1>1. served_work \in [Flows -> Nat]
  BY DEF HeldStep, Held, TypeOK, FlowFieldsTyped
<1>2. CASE served_work' = served_work
  BY <1>1, <1>2, SMTT(60)
<1>3. CASE \E g \in Flows : served_work' = [served_work EXCEPT ![g] = 0]
  BY <1>1, <1>3, SMTT(60)
<1>4. CASE Completes
  BY <1>4, CompleteAccounts DEF Completes
<1>5. CASE RoundStep
  BY <1>2, <1>5 DEF RoundStep, RoundReclaim, RoundRefresh, RoundOverdue, RoundLapse,
     RoundSkip, RoundGrant, RoundBlocked, RoundDisplace, RoundReclaimed, RoundRefreshed,
     RoundRank, RoundIssue, RoundApply, RoundFinish
<1>6. CASE DispatchCall
  <2>1. ASSUME NEW s, NEW i, NEW boot, NEW now, begin_dispatch(s, i, boot, now)
        PROVE  served_work' = served_work
    BY <2>1 DEF begin_dispatch
  <2> QED BY <1>2, <1>4, <1>6, <2>1 DEF DispatchCall, release_schedule, mark_started,
             abandon_attempt, preempt_attempt, CloseByCaller, Completes
<1>7. CASE Topology \/ advance_epoch \/ RoundAborted
           \/ \E now \in Readings : Refused(now) \/ RoundBegin(now)
  BY <1>2, <1>7 DEF Topology, register_resource, register_reservation,
     retire_reservation, register_class, install_policy, advance_epoch, Refused, RoundBegin,
     RoundAborted
<1>8. CASE FlowCall
  <2>1. ASSUME NEW g \in Flows, NEW d, admit_flow(g, d) \/ retire_flow(g)
        PROVE  \E h \in Flows : served_work' = [served_work EXCEPT ![h] = 0]
    BY <2>1 DEF admit_flow, retire_flow
  <2>2. ASSUME NEW g \in Flows, NEW x, NEW now,
               update_flow(g, x) \/ notify_readiness(g, x, now) \/ resolve_ambiguous(g, x, now)
        PROVE  served_work' = served_work
    BY <2>2 DEF update_flow, notify_readiness, resolve_ambiguous
  <2>3. ASSUME NEW g \in Flows, cancel_flow(g) PROVE served_work' = served_work
    BY <2>3 DEF cancel_flow
  <2> QED BY <1>2, <1>3, <1>8, <2>1, <2>2, <2>3 DEF FlowCall
<1>9. CASE UNCHANGED vars
  BY <1>2, <1>9 DEF vars
<1> QED BY <1>5, <1>6, <1>7, <1>8, <1>9 DEF Next

-----------------------------------------------------------------------------
(***************************************************************************)
(* No round leaves work running past its deadline                          *)
(***************************************************************************)

\* The ticket of attempt a was granted under a deadline that has passed.
Late(a) == DeadlinePassed(attempts[a].ticket.entry.deadline_tick, round.now)

\* What a round has stopped, or still has to stop.
OnTime ==
    /\ round.phase = "Overdue" =>
          \A a \in LiveAttempts : Late(a) => attempts[a].ticket.entry.flow \in round.todo
    /\ round.phase \in {"Assign", "Issue"} => \A a \in LiveAttempts : ~Late(a)
    /\ round.phase = "Issue" =>
          \A f \in Flows : lifecycle[f] = "Scheduled" /\ scheduled[f][1] = next_schedule =>
             ~DeadlinePassed(flow[f].deadline_tick, round.now)

\* The clock of a round is read once.
LEMMA EnterClock ==
    ASSUME TypeOK, NEW p, NEW T, Enter(p, T)
    PROVE  round'.phase = p /\ round'.todo = T /\ round'.now = round.now
<1>1. round' = [round EXCEPT !.phase = p, !.todo = T] /\ round \in Rounds
  BY DEF Enter, TypeOK
<1> QED BY <1>1 DEF Rounds

\* A preempted attempt is not live.
LEMMA ClosedLive ==
    ASSUME TypeOK, NEW b, attempts' = [attempts EXCEPT ![b].state = "Preempted"]
    PROVE  \A a \in LiveAttempts' :
              a \in LiveAttempts /\ attempts'[a].ticket = attempts[a].ticket /\ a # b
<1>1. PICK row : /\ attempts' = [attempts EXCEPT ![b] = row]
                 /\ row = [attempts[b] EXCEPT !.state = "Preempted"]
  OBVIOUS
<1>2. b \in DOMAIN attempts => row.state = "Preempted"
  <2>1. b \in DOMAIN attempts => attempts[b] \in AttemptRows
    BY DEF TypeOK, AttemptsTyped
  <2> QED BY <1>1, <2>1 DEF AttemptRows
<1>3. is_attempt_terminal("Preempted")
  BY DEF is_attempt_terminal
<1>4. /\ DOMAIN attempts' = DOMAIN attempts /\ (b \in DOMAIN attempts => attempts'[b] = row)
      /\ \A a \in DOMAIN attempts : a # b => attempts'[a] = attempts[a]
  BY <1>1
<1> QED BY <1>2, <1>3, <1>4 DEF LiveAttempts

\* Attempts that stay live.
LEMMA StillLive ==
    ASSUME TypeOK,
           \/ attempts' = attempts
           \/ \E b : attempts' = [attempts EXCEPT ![b].state = "Preempted"]
           \/ \E S : attempts' = Without(attempts, S)
    PROVE  \A a \in LiveAttempts' : a \in LiveAttempts /\ attempts'[a].ticket = attempts[a].ticket
<1>1. CASE attempts' = attempts
  BY <1>1 DEF LiveAttempts
<1>2. ASSUME NEW b, attempts' = [attempts EXCEPT ![b].state = "Preempted"]
      PROVE  \A a \in LiveAttempts' :
                a \in LiveAttempts /\ attempts'[a].ticket = attempts[a].ticket
  BY <1>2, ClosedLive
<1>3. ASSUME NEW S, attempts' = Without(attempts, S)
      PROVE  \A a \in LiveAttempts' :
                a \in LiveAttempts /\ attempts'[a].ticket = attempts[a].ticket
  BY <1>3 DEF Without, LiveAttempts
<1> QED BY <1>1, <1>2, <1>3

\* The candidates are tried after the overdue attempts are stopped.
LEMMA AssignOnTime ==
    ASSUME TypeOK, OnTime, round.phase = "Assign", round'.phase = "Assign", round'.now = round.now,
           \A a \in LiveAttempts' : a \in LiveAttempts /\ attempts'[a].ticket = attempts[a].ticket
    PROVE  OnTime'
<1>1. ASSUME NEW a \in LiveAttempts' PROVE ~Late(a)'
  BY DEF OnTime, Late
<1>2. round'.phase # "Overdue" /\ round'.phase # "Issue"
  OBVIOUS
<1> QED BY <1>1, <1>2 DEF OnTime

\* The round looks for the overdue attempts among the flows, and finds all of them.
LEMMA OverdueOnTime ==
    ASSUME Held, Accounts, OnTime, \/ RoundRefreshed
                                   \/ RoundRank
                                   \/ \E f \in Flows : RoundOverdue(f)
    PROVE  OnTime'
<1>0. TypeOK
  BY DEF Held
<1>1. CASE RoundRefreshed
  <2>1. /\ Enter("Overdue", {f \in Overdue : open_attempt[f] # NoAttempt}) /\ attempts' = attempts
    BY <1>1 DEF RoundRefreshed
  <2>2. /\ round'.phase = "Overdue" /\ round'.now = round.now
        /\ round'.todo = {f \in Overdue : open_attempt[f] # NoAttempt}
    BY <1>0, <2>1, EnterClock
  <2>3. ASSUME NEW a \in LiveAttempts', Late(a)' PROVE attempts'[a].ticket.entry.flow \in round'.todo
    <3>1. PICK g : g = attempts[a].ticket.entry.flow
      OBVIOUS
    <3>2. a \in LiveAttempts /\ Late(a)
      BY <2>1, <2>2, <2>3 DEF LiveAttempts, Late
    <3>3. /\ g \in Flows /\ g \in Holders /\ HeldEntry(g) = attempts[a].ticket.entry
          /\ open_attempt[g] = a /\ lifecycle[g] \in {"Dispatched", "Running"}
      BY <3>1, <3>2, HeldByAttempt
    <3>4. flow[g].deadline_tick = attempts[a].ticket.entry.deadline_tick
      BY <3>3 DEF Accounts, Terms
    <3>5. a # NoAttempt
      BY <1>0, <3>2, LiveAttempt DEF Held
    <3>6. g \in Overdue
      <4>1. holds_open_work(lifecycle[g])
        BY <3>3 DEF holds_open_work
      <4>2. DeadlinePassed(flow[g].deadline_tick, round.now)
        BY <3>2, <3>4 DEF Late
      <4> QED BY <3>3, <4>1, <4>2 DEF Overdue
    <3> QED BY <2>1, <2>2, <3>1, <3>3, <3>5, <3>6
  <2> QED BY <2>2, <2>3 DEF OnTime
<1>2. CASE RoundRank
  <2>1. PICK T : Enter("Assign", T) /\ attempts' = attempts /\ round.phase = "Overdue" /\ round.todo = {}
    BY <1>2 DEF RoundRank
  <2>2. round'.phase = "Assign" /\ round'.now = round.now
    BY <1>0, <2>1, EnterClock
  <2>3. ASSUME NEW a \in LiveAttempts' PROVE ~Late(a)'
    <3>1. a \in LiveAttempts /\ (Late(a)' <=> Late(a))
      BY <2>1, <2>2 DEF LiveAttempts, Late
    <3> QED BY <2>1, <3>1 DEF OnTime
  <2> QED BY <2>2, <2>3 DEF OnTime
<1>3. ASSUME NEW f \in Flows, RoundOverdue(f) PROVE OnTime'
  <2>1. /\ round.phase = "Overdue" /\ Enter("Overdue", round.todo \ {f})
        /\ attempts' = [attempts EXCEPT ![open_attempt[f]].state = "Preempted"]
    BY <1>3 DEF RoundOverdue, apply_attempt_closed
  <2>2. round'.phase = "Overdue" /\ round'.now = round.now /\ round'.todo = round.todo \ {f}
    BY <1>0, <2>1, EnterClock
  <2>3. ASSUME NEW a \in LiveAttempts', Late(a)' PROVE attempts'[a].ticket.entry.flow \in round'.todo
    <3>1. a \in LiveAttempts /\ attempts'[a].ticket = attempts[a].ticket /\ a # open_attempt[f]
      BY <1>0, <2>1, ClosedLive
    <3>2. PICK g : g = attempts[a].ticket.entry.flow
      OBVIOUS
    <3>3. open_attempt[g] = a
      BY <3>1, <3>2, HeldByAttempt
    <3>4. Late(a)
      BY <2>2, <2>3, <3>1 DEF Late
    <3>5. g \in round.todo
      BY <2>1, <3>1, <3>2, <3>4 DEF OnTime
    <3> QED BY <2>2, <3>1, <3>2, <3>3, <3>5
  <2> QED BY <2>2, <2>3 DEF OnTime
<1> QED BY <1>1, <1>2, <1>3

\* The windows a round grants end before their deadlines.
LEMMA IssueOnTime ==
    ASSUME Held, PlanHeld, OnTime, RoundIssue \/ RoundApply
    PROVE  OnTime'
<1>0. TypeOK
  BY DEF Held
<1>1. CASE RoundIssue
  <2>1. /\ round' = [round EXCEPT !.phase = "Issue", !.next = 1] /\ round \in Rounds
        /\ round.phase = "Assign"
        /\ UNCHANGED <<attempts, lifecycle, scheduled, next_schedule>>
    BY <1>0, <1>1 DEF RoundIssue, TypeOK
  <2>2. round'.phase = "Issue" /\ round'.now = round.now
    BY <2>1 DEF Rounds
  <2>3. ASSUME NEW a \in LiveAttempts' PROVE ~Late(a)'
    <3>1. a \in LiveAttempts /\ (Late(a)' <=> Late(a))
      BY <2>1, <2>2 DEF LiveAttempts, Late
    <3> QED BY <2>1, <3>1 DEF OnTime
  <2>4. ASSUME NEW f \in Flows, lifecycle'[f] = "Scheduled", scheduled'[f][1] = next_schedule'
        PROVE  FALSE
    <3>0. lifecycle[f] = "Scheduled" /\ Windows
      BY <2>1, <2>4 DEF Held
    <3>1. PICK s, i : s \in DOMAIN schedules /\ scheduled[f] = <<s, i>>
      BY <1>0, <3>0, HeldRow, SMTT(60)
    <3>2. s = next_schedule
      BY <2>1, <2>4, <3>1, SMTT(60)
    <3>3. next_schedule \in Nat /\ s \in 1..(next_schedule - 1)
      BY <1>0, <2>1, <3>1 DEF TypeOK, SchedulesTyped
    <3> QED BY <3>2, <3>3, SMTT(60)
  <2> QED BY <2>2, <2>3, <2>4 DEF OnTime
<1>2. CASE RoundApply
  <2>1. PICK e : e = round.entries[round.next]
    OBVIOUS
  <2>2. /\ round.phase = "Issue" /\ round.next <= Len(round.entries)
        /\ round' = [round EXCEPT !.next = @ + 1] /\ round \in Rounds
        /\ IF Applies(e) THEN Assign(e) ELSE UNCHANGED <<scheduled, lifecycle>>
        /\ UNCHANGED <<attempts, flow, next_schedule>>
    BY <1>0, <1>2, <2>1 DEF RoundApply, TypeOK
  <2>3. round'.phase = "Issue" /\ round'.now = round.now
    BY <2>2 DEF Rounds
  <2>4. ASSUME NEW a \in LiveAttempts' PROVE ~Late(a)'
    <3>1. a \in LiveAttempts /\ (Late(a)' <=> Late(a))
      BY <2>2, <2>3 DEF LiveAttempts, Late
    <3> QED BY <2>2, <3>1 DEF OnTime
  <2>5. ASSUME NEW f \in Flows, lifecycle'[f] = "Scheduled", scheduled'[f][1] = next_schedule'
        PROVE  ~DeadlinePassed(flow'[f].deadline_tick, round'.now)
    <3>1. CASE lifecycle'[f] = lifecycle[f] /\ scheduled'[f] = scheduled[f]
      BY <2>2, <2>3, <2>5, <3>1 DEF OnTime
    <3>2. CASE Applies(e) /\ f = e.flow
      <4>1. Placed(e)
        BY <1>0, <2>1, <2>2, <3>2, AppliesPlaced
      <4>2. e.deadline_tick = flow[f].deadline_tick /\ ~DeadlinePassed(e.deadline_tick, round.now)
        BY <3>2, <4>1 DEF Placed
      <4> QED BY <2>2, <2>3, <4>2
    <3>3. CASE Applies(e) /\ f # e.flow
      <4>1. DOMAIN lifecycle = Flows /\ DOMAIN scheduled = Flows
        BY <1>0 DEF TypeOK, FlowRowsTyped, FlowFieldsTyped
      <4>2. lifecycle'[f] = lifecycle[f] /\ scheduled'[f] = scheduled[f]
        BY <2>2, <3>3, <4>1 DEF Assign
      <4> QED BY <3>1, <4>2
    <3>4. CASE ~Applies(e)
      BY <2>2, <3>1, <3>4
    <3> QED BY <3>2, <3>3, <3>4
  <2> QED BY <2>3, <2>4, <2>5 DEF OnTime
<1> QED BY <1>1, <1>2

\* Every step of a round keeps to the deadlines.
LEMMA StepOnTime ==
    ASSUME Held, Accounts, PlanHeld, OnTime, [Next]_vars
    PROVE  OnTime'
<1>0. TypeOK
  BY DEF Held
<1>1. ASSUME round'.phase \in {"Idle", "Reclaim", "Refresh"} PROVE OnTime'
  BY <1>1 DEF OnTime
<1>2. ASSUME Idle, round' = round PROVE OnTime'
  BY <1>1, <1>2 DEF Idle
<1>3. CASE Topology \/ FlowCall \/ DispatchCall \/ advance_epoch \/ \E now \in Readings : Refused(now)
  <2>1. ASSUME NEW f, NEW x, NEW now,
               \/ admit_flow(f, x) \/ update_flow(f, x) \/ notify_readiness(f, x, now)
               \/ resolve_ambiguous(f, x, now) \/ retire_flow(f)
        PROVE  Idle /\ round' = round
    BY <2>1 DEF admit_flow, update_flow, notify_readiness, resolve_ambiguous, retire_flow
  <2>2. ASSUME NEW f, cancel_flow(f) PROVE Idle /\ round' = round
    BY <2>2 DEF cancel_flow
  <2>3. ASSUME NEW s, NEW i, NEW boot, NEW now, begin_dispatch(s, i, boot, now)
        PROVE  Idle /\ round' = round
    BY <2>3 DEF begin_dispatch
  <2>4. ASSUME NEW s, NEW now,
               release_schedule(s) \/ mark_started(s, now) \/ abandon_attempt(s, now)
               \/ preempt_attempt(s, now)
        PROVE  Idle /\ round' = round
    BY <2>4 DEF release_schedule, mark_started, abandon_attempt, preempt_attempt,
       CloseByCaller
  <2>5. ASSUME NEW ev, NEW now, complete(ev, now) PROVE Idle /\ round' = round
    BY <2>5 DEF complete
  <2>6. CASE Topology
    BY <1>2, <2>6 DEF Topology, register_resource, register_reservation,
       retire_reservation, register_class, install_policy
  <2>7. CASE advance_epoch \/ \E now \in Readings : Refused(now)
    BY <1>2, <2>7 DEF advance_epoch, Refused
  <2>8. CASE FlowCall
    BY <1>2, <2>1, <2>2, <2>8 DEF FlowCall
  <2>9. CASE DispatchCall
    BY <1>2, <2>3, <2>4, <2>5, <2>9 DEF DispatchCall
  <2> QED BY <1>3, <2>6, <2>7, <2>8, <2>9
<1>4. CASE RoundAborted \/ RoundFinish
  <2>1. round' = IdleRound
    BY <1>4 DEF RoundAborted, RoundFinish
  <2>2. round'.phase = "Idle"
    BY <2>1 DEF IdleRound
  <2> QED BY <1>1, <2>2
<1>a. ASSUME NEW now, RoundBegin(now) PROVE OnTime'
  <2>1. round' = [IdleRound EXCEPT !.phase = "Reclaim", !.now = now]
    BY <1>a DEF RoundBegin
  <2>2. round'.phase = "Reclaim"
    BY <2>1 DEF IdleRound
  <2> QED BY <1>1, <2>2
<1>5. CASE RoundReclaimed \/ \E f \in Flows : RoundRefresh(f)
  <2>1. PICK T : Enter("Refresh", T)
    BY <1>5 DEF RoundReclaimed, RoundRefresh
  <2> QED BY <1>0, <1>1, <2>1, EnterClock
<1>6. ASSUME NEW s, RoundReclaim(s) PROVE OnTime'
  BY <1>1, <1>6 DEF RoundReclaim
<1>7. ASSUME NEW f \in Flows, RoundLapse(f) \/ RoundSkip(f) PROVE OnTime'
  <2>1. PICK T : Enter("Assign", T) /\ attempts' = attempts /\ round.phase = "Assign"
    BY <1>7 DEF RoundLapse, RoundSkip, Candidate
  <2> QED BY <1>0, <2>1, EnterClock, StillLive, AssignOnTime
<1>8. ASSUME NEW f \in Flows, RoundBlocked(f) PROVE OnTime'
  <2>1. /\ (\E T : Enter("Assign", T)) \/ round' = IdleRound
        /\ attempts' = attempts /\ round.phase = "Assign"
    BY <1>8 DEF RoundBlocked, Candidate
  <2>2. CASE round' = IdleRound
    <3>1. round'.phase = "Idle"
      BY <2>2 DEF IdleRound
    <3> QED BY <1>1, <3>1
  <2>3. CASE \E T : Enter("Assign", T)
    BY <1>0, <2>1, <2>3, EnterClock, StillLive, AssignOnTime
  <2> QED BY <2>1, <2>2, <2>3
<1>9. ASSUME NEW f \in Flows, NEW v \in Flows, RoundGrant(f) \/ RoundDisplace(f, v) PROVE OnTime'
  <2>1. PICK es :
           /\ round.phase = "Assign" /\ Place(f, es)
           /\ \/ attempts' = attempts
              \/ \E b : attempts' = [attempts EXCEPT ![b].state = "Preempted"]
    BY <1>9 DEF RoundGrant, RoundDisplace, Candidate, apply_attempt_closed
  <2>2. round'.phase = "Assign" /\ round'.now = round.now
    BY <1>0, <2>1 DEF Place, TypeOK, Rounds
  <2> QED BY <1>0, <2>1, <2>2, StillLive, AssignOnTime
<1>10. CASE UNCHANGED vars
  <2>1. UNCHANGED <<round, attempts, lifecycle, scheduled, next_schedule, flow>>
    BY <1>10 DEF vars
  <2> QED BY <2>1 DEF OnTime, Late, LiveAttempts
<1> QED BY <1>3, <1>4, <1>a, <1>5, <1>6, <1>7, <1>8, <1>9, <1>10, OverdueOnTime, IssueOnTime DEF Next, RoundStep

\* A round that issues ends with its last entry.
LEMMA IssueEnds ==
    ASSUME TypeOK, [Next]_vars, round.phase = "Issue", round'.phase = "Idle"
    PROVE  RoundFinish
<1>0. ~Idle /\ round \in Rounds /\ round' # round
  BY DEF Idle, TypeOK
<1>1. ~(FlowCall \/ DispatchCall)
  <2>1. ASSUME NEW s, NEW i, NEW boot, NEW now, begin_dispatch(s, i, boot, now) PROVE Idle
    BY <2>1 DEF begin_dispatch
  <2>2. ASSUME NEW ev, NEW now, complete(ev, now) PROVE Idle
    BY <2>2 DEF complete
  <2>3. ASSUME NEW f, cancel_flow(f) PROVE Idle
    BY <2>3 DEF cancel_flow
  <2>4. ASSUME NEW f, NEW x, NEW now,
               \/ admit_flow(f, x) \/ update_flow(f, x) \/ notify_readiness(f, x, now)
               \/ resolve_ambiguous(f, x, now) \/ retire_flow(f) \/ release_schedule(f)
               \/ mark_started(f, now) \/ abandon_attempt(f, now) \/ preempt_attempt(f, now)
        PROVE  Idle
    BY <2>4 DEF admit_flow, update_flow, notify_readiness, resolve_ambiguous, retire_flow,
       release_schedule, mark_started, abandon_attempt, preempt_attempt, CloseByCaller
  <2> QED BY <1>0, <2>1, <2>2, <2>3, <2>4 DEF FlowCall, DispatchCall
<1>2. ~(Topology \/ advance_epoch)
  BY <1>0 DEF Topology, register_resource, register_reservation,
     retire_reservation, register_class, install_policy, advance_epoch
<1>3. ~\E now \in Readings : Refused(now) \/ RoundBegin(now)
  BY <1>0 DEF Refused, RoundBegin
<1>4. /\ "Issue" # "Reclaim" /\ "Issue" # "Refresh" /\ "Issue" # "Overdue" /\ "Issue" # "Assign"
      /\ "Issue" # "Idle"
  OBVIOUS
<1>5. ~RoundAborted
  BY <1>4 DEF RoundAborted
<1>6. ~RoundIssue
  BY <1>4 DEF RoundIssue
<1>7. ~RoundApply
  <2> SUFFICES ASSUME RoundApply PROVE FALSE
    OBVIOUS
  <2>1. round' = [round EXCEPT !.next = @ + 1]
    BY DEF RoundApply
  <2>2. round'.phase = round.phase
    BY <1>0, <2>1 DEF Rounds
  <2> QED BY <1>4, <2>2
<1>8. round' # round /\ ~UNCHANGED vars
  BY <1>4 DEF vars
<1>9. RoundStep
  BY <1>1, <1>2, <1>3, <1>5, <1>8 DEF Next
<1> QED BY <1>4, <1>6, <1>7, <1>9 DEF RoundStep, RoundReclaim, RoundReclaimed, RoundRefresh,
           RoundRefreshed, RoundOverdue, RoundRank, RoundLapse, RoundSkip, RoundGrant,
           RoundBlocked, RoundDisplace, Candidate

=============================================================================
