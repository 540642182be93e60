---------------------------- MODULE StateProofs -----------------------------
(***************************************************************************)
(* Facts about the state of Scheduler that the proofs about its actions    *)
(* share: what the operators return, the rows of a typed state, and what   *)
(* releasing window entries, closing an attempt or placing a window does   *)
(* to them.                                                                *)
(***************************************************************************)
EXTENDS Scheduler, TLAPS, FiniteSetTheorems

\* A leaf that names no prover is left to Zenon.
USE ZenonT(60)
USE DEF authorityVars, resourceVars, reservationVars, flowVars, dispatchVars

-----------------------------------------------------------------------------
(***************************************************************************)
(* Lemmas about the operators                                              *)
(***************************************************************************)

Table == [Flows -> Lifecycles \cup {"Absent"}]

\* Table t has the rows that the flow table has now.
SameRows(t) == \A f \in Flows : t[f] = "Absent" <=> lifecycle[f] = "Absent"

\* Windows have one holder: WindowHeld without the count of live attempts.
WindowsOfSchedules ==
    \A s \in DOMAIN schedules :
       /\ schedules[s].epoch = epoch
       /\ schedules[s].pending_entries = Cardinality(Undelivered(s))
       /\ \A i \in Undelivered(s) :
             LET e == schedules[s].entries[i]
             IN  /\ lifecycle[e.flow] = "Scheduled"
                 /\ scheduled[e.flow] = <<s, i>>
                 /\ flow[e.flow].generation = e.flow_generation

WindowsOfFlows ==
    \A f \in Flows : lifecycle[f] = "Scheduled" =>
       \E s \in DOMAIN schedules : \E i \in Undelivered(s) :
          scheduled[f] = <<s, i>> /\ schedules[s].entries[i].flow = f

Windows == WindowsOfSchedules /\ WindowsOfFlows

\* At most one entry of a schedule grants a window to a flow.
OneRun(es) ==
    \A i, j \in DOMAIN es :
       es[i].kind = "Run" /\ es[j].kind = "Run" /\ es[i].flow = es[j].flow => i = j

\* An entry that a round has placed and not applied: its flow is as the round
\* found it when it tested the candidate.
Placed(e) ==
    /\ lifecycle[e.flow] = "Ready" /\ e.flow \notin round.todo
    /\ flow[e.flow].generation = e.flow_generation
    /\ resource[e.resource].generation = e.resource_generation
    /\ served_work[e.flow] + e.quantum <= flow[e.flow].estimated_work
    /\ e.deadline_tick = flow[e.flow].deadline_tick
    /\ ~DeadlinePassed(e.deadline_tick, round.now)
    /\ \A g \in flow[e.flow].dependencies : lifecycle[g] = "Completed"
    /\ round.now >= flow[e.flow].release_tick
    /\ flow[e.flow].readiness_signal # "NotReady"

\* The entries of the round that grant a window and are not applied.
ToApply == {i \in DOMAIN round.entries :
               /\ round.entries[i].kind = "Run"
               /\ round.phase = "Issue" => i >= round.next}

\* The plan of a round, and the schedules that came from one.
PlanHeld ==
    /\ round.phase \notin {"Assign", "Issue"} => round.entries = <<>>
    /\ round.phase = "Issue" => round.todo = {}
    /\ round.phase = "Issue" /\ round.entries # <<>> =>
          /\ next_schedule \in DOMAIN schedules
          /\ schedules[next_schedule].entries = round.entries
          /\ \A i \in DOMAIN round.entries : schedules[next_schedule].consumed[i] = 0
    /\ \A e \in {round.entries[i] : i \in ToApply} : Placed(e)
    /\ OneRun(round.entries)
    /\ \A s \in DOMAIN schedules : OneRun(schedules[s].entries)

\* Guarded subtraction stays in the naturals.
LEMMA MinusType == \A a, b \in Nat : Minus(a, b) \in Nat
BY SMTT(60) DEF Minus

\* A counter is charged, or discharged.
LEMMA CountRow ==
    ASSUME NEW S, NEW c \in [S -> Nat], NEW k \in S, NEW n \in Nat
    PROVE  /\ [c EXCEPT ![k] = Minus(@, n)] \in [S -> Nat]
           /\ [c EXCEPT ![k] = @ + n] \in [S -> Nat]
<1>1. c[k] \in Nat
  OBVIOUS
<1>2. Minus(c[k], n) \in Nat
  BY <1>1, MinusType
<1>3. c[k] + n \in Nat
  BY <1>1, SMTT(60)
<1> QED BY <1>2, <1>3

\* normalize_transient_states touches transient states only, and removes them.
LEMMA NormalizeTable ==
    ASSUME NEW t \in Table
    PROVE  /\ normalize_transient_states(t) \in Table
           /\ \A f \in Flows :
                 /\ normalize_transient_states(t)[f] = "Absent" <=> t[f] = "Absent"
                 /\ t[f] \notin {"Preempting", "Cancelling"} =>
                       normalize_transient_states(t)[f] = t[f]
                 /\ t[f] \in {"Preempting", "Cancelling"} =>
                       normalize_transient_states(t)[f] \in {"Ready", "Cancelled"}
BY DEF Table, normalize_transient_states, Lifecycles

\* The lifecycle table itself.
LEMMA LifecycleTable == TypeOK => lifecycle \in Table /\ SameRows(lifecycle)
BY DEF TypeOK, FlowRowsTyped, Table, SameRows

\* The rows of the tables.
LEMMA ScheduleRow ==
    ASSUME TypeOK, NEW s \in DOMAIN schedules
    PROVE  LET sch == schedules[s] IN
           /\ s \in Nat \ {0}
           /\ sch \in ScheduleRows(Len(sch.entries))
           /\ DOMAIN sch.entries = 1..Len(sch.entries)
           /\ DOMAIN sch.consumed = 1..Len(sch.entries)
           /\ IsFiniteSet(DOMAIN sch.entries)
           /\ \A i \in DOMAIN sch.entries : sch.entries[i] \in Entries
           /\ sch.consumed \in [1..Len(sch.entries) -> 0..2]
           /\ sch.open_attempts \in Nat /\ sch.pending_entries \in Nat
<1>1. s \in Nat \ {0} /\ schedules[s] \in ScheduleRows(Len(schedules[s].entries))
  BY SMTT(60) DEF TypeOK, SchedulesTyped
<1> DEFINE sch == schedules[s]
<1> HIDE DEF sch
<1>2. sch \in ScheduleRows(Len(sch.entries))
  BY <1>1 DEF sch
<1>3. /\ DOMAIN sch.entries = 1..Len(sch.entries)
      /\ DOMAIN sch.consumed = 1..Len(sch.entries)
      /\ \A i \in DOMAIN sch.entries : sch.entries[i] \in Entries
      /\ sch.consumed \in [1..Len(sch.entries) -> 0..2]
      /\ sch.open_attempts \in Nat /\ sch.pending_entries \in Nat
  BY <1>2 DEF ScheduleRows
<1>4. Len(sch.entries) \in Nat
  BY <1>3, SMTT(60)
<1>5. IsFiniteSet(DOMAIN sch.entries)
  BY <1>3, <1>4, FS_Interval, SMTT(60)
<1> QED BY <1>1, <1>3, <1>5 DEF sch

\* The fields of a retained attempt and of its ticket.
LEMMA AttemptRow ==
    ASSUME TypeOK, NEW a \in DOMAIN attempts
    PROVE  LET t == attempts[a].ticket IN
           /\ a \in Nat \ {0} /\ a < next_attempt
           /\ attempts[a] \in AttemptRows /\ t \in Tickets /\ t.entry \in Entries
           /\ t.entry.flow \in Flows /\ t.entry.resource \in Resources
           /\ t.entry.quantum \in Nat /\ t.schedule \in Nat
<1>1. a \in Nat \ {0} /\ a < next_attempt /\ attempts[a] \in AttemptRows
  BY SMTT(60) DEF TypeOK, AttemptsTyped
<1>2. attempts[a].ticket \in Tickets
  BY <1>1 DEF AttemptRows
<1>3. attempts[a].ticket.entry \in Entries /\ attempts[a].ticket.schedule \in Nat
  BY <1>2 DEF Tickets
<1>4. /\ attempts[a].ticket.entry.flow \in Flows /\ attempts[a].ticket.entry.resource \in Resources
      /\ attempts[a].ticket.entry.quantum \in Nat
  BY <1>3 DEF Entries
<1> QED BY <1>1, <1>2, <1>3, <1>4

-----------------------------------------------------------------------------
(***************************************************************************)
(* Typed states, and the methods the actions call                          *)
(***************************************************************************)

\* A group of variables that a step leaves alone stays typed.
LEMMA Frame ==
    /\ UNCHANGED <<epoch, last_tick, class_generation, policy>> /\ AuthorityTyped
          => AuthorityTyped'
    /\ UNCHANGED <<resource, in_flight, reserved, interval_index>> /\ ResourcesTyped
          => ResourcesTyped'
    /\ UNCHANGED <<reservation, reserved_units>> /\ ReservationsTyped => ReservationsTyped'
    /\ UNCHANGED <<lifecycle, flow>> /\ FlowRowsTyped => FlowRowsTyped'
    /\ UNCHANGED <<served_work, outstanding, open_attempt, scheduled, missed>> /\ FlowFieldsTyped
          => FlowFieldsTyped'
    /\ UNCHANGED <<next_schedule, schedules, round>> /\ SchedulesTyped => SchedulesTyped'
    /\ UNCHANGED <<next_attempt, attempts, tickets>> /\ AttemptsTyped => AttemptsTyped'
<1>1. UNCHANGED <<epoch, last_tick, class_generation, policy>> /\ AuthorityTyped => AuthorityTyped'
  BY DEF AuthorityTyped
<1>2. UNCHANGED <<resource, in_flight, reserved, interval_index>> /\ ResourcesTyped
          => ResourcesTyped'
  BY DEF ResourcesTyped
<1>3. UNCHANGED <<reservation, reserved_units>> /\ ReservationsTyped => ReservationsTyped'
  BY DEF ReservationsTyped
<1>4. UNCHANGED <<lifecycle, flow>> /\ FlowRowsTyped => FlowRowsTyped'
  BY DEF FlowRowsTyped
<1>5. UNCHANGED <<served_work, outstanding, open_attempt, scheduled, missed>> /\ FlowFieldsTyped
          => FlowFieldsTyped'
  BY DEF FlowFieldsTyped
<1>6. UNCHANGED <<next_schedule, schedules, round>> /\ SchedulesTyped => SchedulesTyped'
  BY DEF SchedulesTyped
<1>7. UNCHANGED <<next_attempt, attempts, tickets>> /\ AttemptsTyped => AttemptsTyped'
  BY DEF AttemptsTyped
<1> QED BY <1>1, <1>2, <1>3, <1>4, <1>5, <1>6, <1>7

\* The state a constructed scheduler starts in is typed.
LEMMA InitType == Init => TypeOK
<1> SUFFICES ASSUME Init PROVE TypeOK
    OBVIOUS
<1>1. AuthorityTyped
  BY DescriptorAssumption, SMTT(60) DEF Init, AuthorityTyped
<1>2. ResourcesTyped
  <2>1. resource \in [Resources -> {NoDescriptor} \cup
                      {d \in ResourceDescriptors : validate_resource(d)}]
    BY DEF Init
  <2> QED BY <2>1, SMTT(60) DEF Init, ResourcesTyped
<1>3. ReservationsTyped /\ FlowRowsTyped /\ FlowFieldsTyped
  BY DEF Init, ReservationsTyped, FlowRowsTyped, FlowFieldsTyped, NoAttempt, NoSlot
<1>4. SchedulesTyped /\ AttemptsTyped
  BY SMTT(60) DEF Init, SchedulesTyped, AttemptsTyped
<1>5. preemptions \in [window : Nat, count : Nat] /\ round \in Rounds
  BY SMTT(60) DEF Init, IdleRound, Rounds
<1> QED BY <1>1, <1>2, <1>3, <1>4, <1>5 DEF TypeOK

\* One schedule's marks and counters change, its entries stay.
LEMMA ScheduleKept ==
    ASSUME TypeOK, NEW s, NEW row,
           s \in DOMAIN schedules =>
              /\ row \in ScheduleRows(Len(schedules[s].entries))
              /\ row.entries = schedules[s].entries,
           schedules' = [schedules EXCEPT ![s] = row],
           next_schedule' = next_schedule,
           (round'.phase = "Issue" /\ round'.entries # <<>>) <=>
              (round.phase = "Issue" /\ round.entries # <<>>)
    PROVE  SchedulesTyped'
<1>1. DOMAIN schedules' = DOMAIN schedules
  OBVIOUS
<1>2. \A x \in DOMAIN schedules : schedules'[x] \in ScheduleRows(Len(schedules'[x].entries))
  <2> SUFFICES ASSUME NEW x \in DOMAIN schedules
               PROVE  schedules'[x] \in ScheduleRows(Len(schedules'[x].entries))
    OBVIOUS
  <2>1. CASE x = s
    <3>1. schedules'[x] = row
      BY <2>1
    <3> QED BY <2>1, <3>1
  <2>2. CASE x # s
    <3>1. schedules'[x] = schedules[x]
      BY <2>2
    <3> QED BY <3>1, ScheduleRow
  <2> QED BY <2>1, <2>2
<1> QED BY <1>1, <1>2 DEF TypeOK, SchedulesTyped

\* What release_run_entries leaves typed.
LEMMA ReleaseType ==
    ASSUME TypeOK, NEW s \in DOMAIN schedules, NEW I, NEW t,
           release_run_entries(s, I, t),
           next_schedule' = next_schedule, round' = round
    PROVE  /\ SchedulesTyped'
           /\ DOMAIN schedules' = DOMAIN schedules
           /\ \A x \in DOMAIN schedules :
                 schedules'[x].open_attempts = schedules[x].open_attempts
           /\ outstanding' \in [Flows -> Nat]
           /\ scheduled' \in [Flows -> Nat \X Nat]
           /\ in_flight' \in [Resources -> Nat]
           /\ lifecycle' = t
<1> DEFINE sch == schedules[s]
           open == {i \in I \cap DOMAIN sch.entries : sch.consumed[i] = 0}
           runs == {i \in open : sch.entries[i].kind = "Run"}
           held == Holding(s, I)
           freed == {sch.entries[i].flow : i \in held}
           marks == [i \in DOMAIN sch.consumed |-> IF i \in open THEN 2 ELSE sch.consumed[i]]
           left == Minus(sch.pending_entries, Cardinality(runs))
           row == [sch EXCEPT !.consumed = marks, !.pending_entries = left,
                              !.open_attempts = sch.open_attempts]
           first(f) == CHOOSE i \in held : sch.entries[i].flow = f
           n(r) == Cardinality({i \in held : sch.entries[i].resource = r})
<1>1. /\ sch \in ScheduleRows(Len(sch.entries))
      /\ DOMAIN sch.consumed = 1..Len(sch.entries)
      /\ IsFiniteSet(DOMAIN sch.entries)
      /\ \A i \in DOMAIN sch.entries : sch.entries[i] \in Entries
      /\ sch.consumed \in [1..Len(sch.entries) -> 0..2]
      /\ sch.open_attempts \in Nat /\ sch.pending_entries \in Nat
  BY ScheduleRow
<1>2. runs \subseteq DOMAIN sch.entries /\ held \subseteq DOMAIN sch.entries
  BY DEF Holding
<1>3. Cardinality(runs) \in Nat
  BY <1>1, <1>2, FS_Subset, FS_CardinalityType
<1>4. \A r \in Resources : n(r) \in Nat
  <2> HIDE DEF sch, held
  <2> SUFFICES ASSUME NEW r \in Resources PROVE n(r) \in Nat
    OBVIOUS
  <2>1. {i \in held : sch.entries[i].resource = r} \subseteq DOMAIN sch.entries
    BY <1>2
  <2> QED BY <1>1, <2>1, FS_Subset, FS_CardinalityType
<1>5. left \in Nat
  <2> HIDE DEF sch, runs
  <2> QED BY <1>1, <1>3, MinusType
<1>6. marks \in [1..Len(sch.entries) -> 0..2]
  <2> HIDE DEF sch, open
  <2> QED BY <1>1, SMTT(60)
<1>7. schedules' = [schedules EXCEPT ![s] = row]
  <2>1. schedules' = [schedules EXCEPT ![s] = [sch EXCEPT !.consumed = marks,
                                                          !.pending_entries = left]]
    BY DEF release_run_entries
  <2>2. [sch EXCEPT !.consumed = marks, !.pending_entries = left] = row
    <3> HIDE DEF marks, left, sch
    <3> QED BY <1>1 DEF ScheduleRows
  <2> QED BY <2>1, <2>2
<1>8. row \in ScheduleRows(Len(sch.entries)) /\ row.entries = sch.entries
      /\ row.open_attempts = sch.open_attempts
  <2> DEFINE k == Len(sch.entries)
  <2>1. sch \in ScheduleRows(k) /\ marks \in [1..k -> 0..2] /\ left \in Nat
        /\ sch.open_attempts \in Nat
    BY <1>1, <1>5, <1>6
  <2> HIDE DEF marks, left, sch, k
  <2>2. row \in ScheduleRows(k) /\ row.entries = sch.entries
        /\ row.open_attempts = sch.open_attempts
    BY <2>1 DEF ScheduleRows
  <2> QED BY <2>2 DEF k
<1>9. SchedulesTyped'
  <2> HIDE DEF row
  <2> QED BY <1>7, <1>8, ScheduleKept
<1>10. /\ DOMAIN schedules' = DOMAIN schedules
       /\ \A x \in DOMAIN schedules :
             schedules'[x].open_attempts = schedules[x].open_attempts
  <2> HIDE DEF row
  <2> QED BY <1>7, <1>8
<1>11. \A f \in freed : sch.entries[first(f)].quantum \in Nat
  <2> SUFFICES ASSUME NEW f \in freed PROVE sch.entries[first(f)].quantum \in Nat
    OBVIOUS
  <2>1. PICK i \in held : sch.entries[i].flow = f
    OBVIOUS
  <2> HIDE DEF sch, held
  <2>2. first(f) \in held
    BY <2>1
  <2> HIDE DEF first
  <2>3. sch.entries[first(f)] \in Entries
    BY <2>2, <1>1, <1>2
  <2> QED BY <2>3 DEF Entries
<1>12. outstanding' \in [Flows -> Nat]
  <2>1. outstanding' = [f \in Flows |->
           IF f \in freed THEN Minus(outstanding[f], sch.entries[first(f)].quantum)
           ELSE outstanding[f]]
    BY DEF release_run_entries
  <2>2. outstanding \in [Flows -> Nat]
    BY DEF TypeOK, FlowFieldsTyped
  <2> HIDE DEF freed, first, sch
  <2> QED BY <1>11, <2>1, <2>2, MinusType
<1>13. scheduled' \in [Flows -> Nat \X Nat]
  <2>1. scheduled' = [f \in Flows |-> IF f \in freed THEN NoSlot ELSE scheduled[f]]
    BY DEF release_run_entries
  <2> HIDE DEF freed
  <2> QED BY <2>1 DEF TypeOK, FlowFieldsTyped, NoSlot
<1>14. in_flight' \in [Resources -> Nat]
  <2>1. in_flight' = [r \in Resources |-> Minus(in_flight[r], n(r))]
    BY DEF release_run_entries
  <2>2. in_flight \in [Resources -> Nat]
    BY DEF TypeOK, ResourcesTyped
  <2> HIDE DEF n
  <2> QED BY <1>4, <2>1, <2>2, MinusType
<1>15. lifecycle' = t
  BY DEF release_run_entries
<1> QED BY <1>9, <1>10, <1>12, <1>13, <1>14, <1>15

\* The released flows are in the table, and go to Ready.
LEMMA ReleasedTable ==
    ASSUME TypeOK, NEW s \in DOMAIN schedules, NEW I
    PROVE  /\ Released(s, I) \in Table /\ SameRows(Released(s, I))
           /\ normalize_transient_states(Released(s, I)) \in Table
           /\ SameRows(normalize_transient_states(Released(s, I)))
           /\ \A f \in Flows :
                 \/ Released(s, I)[f] = lifecycle[f]
                 \/ Released(s, I)[f] = "Ready" /\ lifecycle[f] = "Scheduled"
<1>1. \A i \in Holding(s, I) : lifecycle[schedules[s].entries[i].flow] = "Scheduled"
  BY DEF Holding
<1> DEFINE F == {f \in Flows : \E i \in Holding(s, I) : schedules[s].entries[i].flow = f}
<1>2. Released(s, I) = [f \in Flows |-> IF f \in F THEN "Ready" ELSE lifecycle[f]]
  BY DEF Released
<1>3. \A f \in F : lifecycle[f] = "Scheduled"
  BY <1>1
<1>4. lifecycle \in Table
  BY LifecycleTable
<1> HIDE DEF F
<1>5. /\ Released(s, I) \in Table /\ SameRows(Released(s, I))
      /\ \A f \in Flows :
            \/ Released(s, I)[f] = lifecycle[f]
            \/ Released(s, I)[f] = "Ready" /\ lifecycle[f] = "Scheduled"
  BY <1>2, <1>3, <1>4 DEF Table, SameRows, Lifecycles
<1> QED BY <1>5, NormalizeTable DEF SameRows

\* A change of state of one attempt.
LEMMA StateType ==
    ASSUME TypeOK, NEW a \in DOMAIN attempts, NEW state \in AttemptStates,
           attempts' = [attempts EXCEPT ![a].state = state],
           UNCHANGED <<next_attempt, tickets>>
    PROVE  /\ AttemptsTyped'
           /\ DOMAIN attempts' = DOMAIN attempts
           /\ \A x \in DOMAIN attempts :
                 /\ attempts'[x].ticket = attempts[x].ticket
                 /\ attempts'[x].state = IF x = a THEN state ELSE attempts[x].state
<1> DEFINE row == [attempts[a] EXCEPT !.state = state]
<1>1. attempts[a] \in AttemptRows
  BY AttemptRow
<1>2. row \in AttemptRows /\ row.ticket = attempts[a].ticket /\ row.state = state
  BY <1>1 DEF AttemptRows
<1>3. attempts' = [attempts EXCEPT ![a] = row]
  OBVIOUS
<1> HIDE DEF row
<1>4. DOMAIN attempts' = DOMAIN attempts
  BY <1>3
<1>5. \A x \in DOMAIN attempts : attempts'[x] = IF x = a THEN row ELSE attempts[x]
  BY <1>3
<1>6. AttemptsTyped'
  BY <1>2, <1>4, <1>5 DEF TypeOK, AttemptsTyped
<1> QED BY <1>2, <1>4, <1>5, <1>6, SMTT(60)

\* A schedule loses an open attempt.
LEMMA CountType ==
    ASSUME TypeOK, NEW s,
           schedules' = [schedules EXCEPT ![s].open_attempts = Minus(@, 1)],
           next_schedule' = next_schedule,
           (round'.phase = "Issue" /\ round'.entries # <<>>) <=>
              (round.phase = "Issue" /\ round.entries # <<>>)
    PROVE  /\ SchedulesTyped'
           /\ DOMAIN schedules' = DOMAIN schedules
           /\ \A x \in DOMAIN schedules :
                 schedules'[x].open_attempts =
                    IF x = s THEN Minus(schedules[s].open_attempts, 1)
                    ELSE schedules[x].open_attempts
<1> DEFINE n == Minus(schedules[s].open_attempts, 1)
           k == Len(schedules[s].entries)
           row == [schedules[s] EXCEPT !.open_attempts = n]
<1>1. schedules' = [schedules EXCEPT ![s] = row]
  OBVIOUS
<1>2. ASSUME s \in DOMAIN schedules
      PROVE  row \in ScheduleRows(k) /\ row.entries = schedules[s].entries
             /\ row.open_attempts = n
  <2>1. schedules[s] \in ScheduleRows(k) /\ schedules[s].open_attempts \in Nat
    BY <1>2, ScheduleRow
  <2>2. n \in Nat
    BY <2>1, MinusType
  <2> HIDE DEF n, k
  <2> QED BY <2>1, <2>2 DEF ScheduleRows
<1> HIDE DEF row, n
<1>3. SchedulesTyped'
  BY <1>1, <1>2, ScheduleKept
<1>4. /\ DOMAIN schedules' = DOMAIN schedules
      /\ \A x \in DOMAIN schedules : schedules'[x] = IF x = s THEN row ELSE schedules[x]
  BY <1>1
<1> QED BY <1>2, <1>3, <1>4 DEF n

\* Outside the phase that applies a schedule no entry is ahead.
LEMMA NothingAhead == round.phase # "Issue" => \A s, i : ~Ahead(s, i)
BY DEF Ahead

\* What remains of a finite set.
LEMMA CardMinus ==
    ASSUME NEW U, IsFiniteSet(U), NEW J \in SUBSET U
    PROVE  Cardinality(U \ J) = Minus(Cardinality(U), Cardinality(J))
<1>1. U \cap J = J
  OBVIOUS
<1>2. /\ IsFiniteSet(J) /\ Cardinality(U) \in Nat /\ Cardinality(J) \in Nat
      /\ Cardinality(J) <= Cardinality(U)
  BY FS_Subset, FS_CardinalityType
<1>3. Cardinality(U \ J) = Cardinality(U) - Cardinality(J)
  BY <1>1, FS_Difference
<1> QED BY <1>2, <1>3 DEF Minus

\* An undelivered entry and its flow.
LEMMA WindowRow ==
    ASSUME TypeOK, Windows, NEW s \in DOMAIN schedules, NEW i \in Undelivered(s)
    PROVE  LET e == schedules[s].entries[i] IN
           /\ i \in DOMAIN schedules[s].entries
           /\ e.flow \in Flows /\ e.resource \in Resources /\ e.quantum \in Nat \ {0}
           /\ lifecycle[e.flow] = "Scheduled"
           /\ scheduled[e.flow] = <<s, i>>
           /\ flow[e.flow].generation = e.flow_generation
<1>1. i \in DOMAIN schedules[s].entries
  BY DEF Undelivered
<1>2. schedules[s].entries[i] \in Entries
  BY <1>1, ScheduleRow
<1>3. LET e == schedules[s].entries[i] IN
      /\ lifecycle[e.flow] = "Scheduled"
      /\ scheduled[e.flow] = <<s, i>>
      /\ flow[e.flow].generation = e.flow_generation
  BY DEF Windows, WindowsOfSchedules
<1> QED BY <1>1, <1>2, <1>3 DEF Entries

\* A Scheduled flow and its entry.
LEMMA HeldRow ==
    ASSUME TypeOK, Windows, NEW f \in Flows, lifecycle[f] = "Scheduled"
    PROVE  \E s, i : /\ s \in DOMAIN schedules /\ i \in Undelivered(s)
                     /\ scheduled[f] = <<s, i>> /\ schedules[s].entries[i].flow = f
BY DEF Windows, WindowsOfFlows

\* The entries that release_run_entry finds holding are the undelivered ones.
LEMMA HoldingWindows ==
    ASSUME TypeOK, Windows, NEW s \in DOMAIN schedules, NEW I, round.phase # "Issue"
    PROVE  /\ Holding(s, I) = I \cap Undelivered(s)
           /\ {i \in I \cap DOMAIN schedules[s].entries :
                 schedules[s].consumed[i] = 0 /\ schedules[s].entries[i].kind = "Run"}
                 = Holding(s, I)
<1>1. \A i \in Undelivered(s) :
         /\ lifecycle[schedules[s].entries[i].flow] = "Scheduled"
         /\ scheduled[schedules[s].entries[i].flow][1] = s
  BY WindowRow, SMTT(60)
<1>2. Undelivered(s) = {i \in DOMAIN schedules[s].entries :
                          schedules[s].entries[i].kind = "Run" /\ schedules[s].consumed[i] = 0}
  BY NothingAhead DEF Undelivered
<1> QED BY <1>1, <1>2 DEF Holding

\* apply_schedule finds every Run entry of the plan fit to apply.
LEMMA AppliesPlaced ==
    ASSUME TypeOK, PlanHeld, round.phase = "Issue", round.next <= Len(round.entries)
    PROVE  LET e == round.entries[round.next] IN
           /\ e \in Entries /\ round.next \in DOMAIN round.entries
           /\ next_schedule \in DOMAIN schedules
           /\ schedules[next_schedule].entries = round.entries
           /\ schedules[next_schedule].consumed[round.next] = 0
           /\ e.kind = "Run" => Placed(e)
           /\ Applies(e) <=> e.kind = "Run"
<1> DEFINE e == round.entries[round.next]
<1>1. round.entries \in Seq(Entries) /\ round.next \in Nat \ {0}
  BY DEF TypeOK, Rounds
<1>2. e \in Entries /\ round.next \in DOMAIN round.entries /\ round.entries # <<>>
  BY <1>1, SMTT(60)
<1>3. e.kind = "Run" => round.next \in ToApply
  BY <1>1, <1>2, SMTT(60) DEF ToApply
<1>4. e.kind = "Run" => Placed(e)
  BY <1>3 DEF PlanHeld
<1>5. /\ next_schedule \in DOMAIN schedules
      /\ schedules[next_schedule].entries = round.entries
      /\ schedules[next_schedule].consumed[round.next] = 0
  BY <1>2 DEF PlanHeld
<1> HIDE DEF e
<1>6. Applies(e) <=> e.kind = "Run"
  BY <1>4 DEF Applies, Placed, is_terminal, holds_open_work
<1> QED BY <1>2, <1>4, <1>5, <1>6 DEF e

\* A live attempt and its flow, as AuthorityExclusive has them.
LEMMA LiveAttempt ==
    ASSUME TypeOK, AuthorityExclusive, NEW a \in LiveAttempts
    PROVE  LET f == attempts[a].ticket.entry.flow IN
           /\ a \in DOMAIN attempts /\ a # NoAttempt
           /\ f \in Flows /\ open_attempt[f] = a
           /\ lifecycle[f] \in {"Dispatched", "Running"}
           /\ attempts[a].ticket.schedule \in DOMAIN schedules
<1>1. a \in DOMAIN attempts
  BY DEF LiveAttempts
<1>2. a \in Nat \ {0} /\ attempts[a].ticket.entry.flow \in Flows
  BY <1>1, AttemptRow
<1> QED BY <1>1, <1>2 DEF AuthorityExclusive, NoAttempt

\* A flow that names an attempt.
LEMMA NamedAttempt ==
    ASSUME TypeOK, AuthorityExclusive, NEW f \in Flows
    PROVE  /\ open_attempt[f] # NoAttempt =>
                 /\ open_attempt[f] \in LiveAttempts
                 /\ open_attempt[f] \in DOMAIN attempts
                 /\ attempts[open_attempt[f]].ticket.entry.flow = f
                 /\ lifecycle[f] \in {"Dispatched", "Running"}
           /\ lifecycle[f] \in {"Dispatched", "Running"} => open_attempt[f] # NoAttempt
<1>1. open_attempt[f] # NoAttempt =>
         open_attempt[f] \in LiveAttempts /\ attempts[open_attempt[f]].ticket.entry.flow = f
  BY DEF AuthorityExclusive
<1>2. lifecycle[f] \in {"Dispatched", "Running"} => open_attempt[f] # NoAttempt
  BY DEF AuthorityExclusive
<1> QED BY <1>1, <1>2, LiveAttempt

\* What closing an attempt changes, in every method that does it.
LEMMA CloseEffect ==
    ASSUME TypeOK, AuthorityExclusive, NEW a \in LiveAttempts,
           NEW state \in AttemptStates, NEW t,
           apply_attempt_closed(a, state, t)
    PROVE  LET f == attempts[a].ticket.entry.flow IN
           /\ attempts' = [attempts EXCEPT ![a].state = state]
           /\ schedules' = [schedules EXCEPT
                 ![attempts[a].ticket.schedule].open_attempts = Minus(@, 1)]
           /\ outstanding' \in [Flows -> Nat]
           /\ open_attempt' = [open_attempt EXCEPT ![f] = NoAttempt]
           /\ in_flight' \in [Resources -> Nat]
           /\ lifecycle' = t
<1> DEFINE e == attempts[a].ticket.entry
<1>1. e.quantum \in Nat /\ e.flow \in Flows /\ e.resource \in Resources
      /\ open_attempt[e.flow] = a
  BY LiveAttempt, AttemptRow
<1>2. /\ attempts' = [attempts EXCEPT ![a].state = state]
      /\ schedules' = [schedules EXCEPT
            ![attempts[a].ticket.schedule].open_attempts = Minus(@, 1)]
      /\ outstanding' = [outstanding EXCEPT ![e.flow] = Minus(@, e.quantum)]
      /\ open_attempt' = [open_attempt EXCEPT ![e.flow] = NoAttempt]
      /\ in_flight' = [in_flight EXCEPT ![e.resource] = Minus(@, 1)]
      /\ lifecycle' = t
  BY <1>1 DEF apply_attempt_closed
<1>3. outstanding \in [Flows -> Nat] /\ in_flight \in [Resources -> Nat]
  BY DEF TypeOK, FlowFieldsTyped, ResourcesTyped
<1>4. [outstanding EXCEPT ![e.flow] = Minus(@, e.quantum)] \in [Flows -> Nat]
  <2> HIDE DEF e
  <2> QED BY <1>1, <1>3, CountRow
<1>5. [in_flight EXCEPT ![e.resource] = Minus(@, 1)] \in [Resources -> Nat]
  <2>1. 1 \in Nat
    OBVIOUS
  <2> HIDE DEF e
  <2> QED BY <1>1, <1>3, <2>1, CountRow
<1> QED BY <1>2, <1>4, <1>5

\* The round that no call has begun.
LEMMA IdleType == IdleRound \in Rounds /\ IdleRound.phase = "Idle"
BY SMTT(60) DEF IdleRound, Rounds

\* Evidence is well formed.
LEMMA EvidenceType == TypeOK => Evidence \subseteq Reports
<1> SUFFICES ASSUME TypeOK, NEW ev \in Evidence PROVE ev \in Reports
    OBVIOUS
<1>1. PICK t \in tickets :
         ev \in [ticket : {t}, attempt : {u.attempt : u \in tickets}, boot : Boots,
                 served : 0..(t.entry.quantum + 1), outcome : CompletionOutcomes]
  BY DEF Evidence
<1>2. \A u \in tickets : u \in Tickets
  BY DEF TypeOK, AttemptsTyped
<1>3. \A u \in tickets : u.attempt \in Nat /\ u.entry.quantum \in Nat
  BY <1>2 DEF Tickets, Entries
<1>4. 0..(t.entry.quantum + 1) \subseteq Nat
  BY <1>3, SMTT(60)
<1>5. t \in Tickets /\ {u.attempt : u \in tickets} \subseteq Nat
  BY <1>2, <1>3
<1> QED BY <1>1, <1>4, <1>5 DEF Reports

\* What a step may not do to the closed attempts it retains.
ClosedKept ==
    \A a \in DOMAIN attempts \cap DOMAIN attempts' :
        is_attempt_terminal(attempts[a].state) => attempts'[a] = attempts[a]

-----------------------------------------------------------------------------
(***************************************************************************)
(* The work list and the plan of a round                                   *)
(***************************************************************************)

\* Entering a phase.
LEMMA EnterType ==
    ASSUME round \in Rounds, round.phase # "Issue",
           NEW p \in {"Reclaim", "Refresh", "Overdue", "Assign"}, NEW S \in SUBSET Flows,
           Enter(p, S)
    PROVE  /\ round' \in Rounds /\ round'.phase = p /\ round'.todo = S
           /\ round'.entries = round.entries
           /\ (round'.phase = "Issue" /\ round'.entries # <<>>) <=>
                 (round.phase = "Issue" /\ round.entries # <<>>)
<1>1. p \in {"Idle", "Reclaim", "Refresh", "Overdue", "Assign", "Issue"} /\ p # "Issue"
  OBVIOUS
<1>2. round' = [round EXCEPT !.phase = p, !.todo = S]
  BY DEF Enter
<1>3. round' \in Rounds
  BY <1>1, <1>2 DEF Rounds
<1>4. round'.phase = p /\ round'.todo = S /\ round'.entries = round.entries
  BY <1>2 DEF Rounds
<1> QED BY <1>1, <1>3, <1>4

\* A flow that a loop of the round finds not ready.
LEMMA LapseType ==
    ASSUME TypeOK, NEW f \in Flows, NEW reason, lifecycle[f] # "Absent"
    PROVE  LapseLifecycle(f, reason) \in {"Failed", lifecycle[f]} \cap Lifecycles
<1>1. LapseLifecycle(f, reason) \in {"Failed", lifecycle[f]}
  BY DEF LapseLifecycle
<1>2. "Failed" \in Lifecycles /\ lifecycle[f] \in Lifecycles
  BY DEF TypeOK, FlowRowsTyped, Lifecycles
<1> QED BY <1>1, <1>2

\* A candidate is registered, and so is the resource it is bound to.
LEMMA CandidateRow ==
    ASSUME TypeOK, CandidatesSettled, NEW f \in Flows, Candidate(f), Placeable(f)
    PROVE  /\ lifecycle[f] = "Ready"
           /\ flow[f] \in FlowDescriptors /\ flow[f].resource \in Resources
           /\ resource[flow[f].resource] \in ResourceDescriptors
           /\ validate_resource(resource[flow[f].resource])
           /\ round.phase = "Assign" /\ f \in round.todo
<1>1. round.phase = "Assign" /\ f \in round.todo /\ lifecycle[f] = "Ready"
  BY DEF Candidate, CandidatesSettled
<1>2. flow[f] \in FlowDescriptors /\ validate_flow(f, flow[f])
  BY <1>1 DEF TypeOK, FlowRowsTyped
<1>3. flow[f].resource \in Resources /\ flow[f].resource_generation > 0
  BY <1>2 DEF FlowDescriptors, validate_flow
<1>4. resource[flow[f].resource].generation > 0
  BY <1>3 DEF Placeable
<1>5. resource[flow[f].resource] # NoDescriptor
  BY <1>4, SMTT(60) DEF NoDescriptor
<1>6. resource[flow[f].resource] \in {d \in ResourceDescriptors : validate_resource(d)}
  BY <1>3, <1>5 DEF TypeOK, ResourcesTyped
<1> QED BY <1>1, <1>2, <1>3, <1>6

\* The window of a candidate is a number of units, and no more than the work the
\* flow has left, than what the interval has left and than its reservation has.
LEMMA QuantumType ==
    ASSUME TypeOK, CandidatesSettled, NEW f \in Flows, Candidate(f), Placeable(f),
           derived_readiness(f, round.now) = "Selected"
    PROVE  /\ Quantum(f) \in Nat
           /\ Quantum(f) <= remaining_work(f)
           /\ Quantum(f) <= CapacityLeft(flow[f].resource)
           /\ flow[f].reservation # NoReservation =>
                 Quantum(f) <= ReservationSlack(flow[f].reservation)
<1> DEFINE d == flow[f]
           room == CapacityLeft(d.resource)
           slack == ReservationSlack(d.reservation)
           left == remaining_work(f)
<1>1. /\ d \in FlowDescriptors /\ d.resource \in Resources
      /\ resource[d.resource] \in ResourceDescriptors
  BY CandidateRow
<1>2. d.service_quantum \in Nat /\ d.estimated_work \in Nat /\ d.deadline_tick \in Int
      /\ d.reservation \in Reservations \cup {NoReservation}
  BY <1>1 DEF FlowDescriptors
<1>3. policy.max_quantum \in Nat /\ round.now \in Nat
  BY DEF TypeOK, AuthorityTyped, Policies, Rounds
<1>4. left \in Nat
  <2>1. served_work[f] \in Nat
    BY DEF TypeOK, FlowFieldsTyped
  <2> QED BY <1>2, <2>1, MinusType DEF remaining_work
<1>5. room \in Nat
  <2>1. resource[d.resource].capacity \in Nat
    BY <1>1 DEF ResourceDescriptors
  <2>2. RolledReserved(d.resource) \in Nat
    BY <1>1 DEF RolledReserved, TypeOK, ResourcesTyped
  <2>3. round.pending_capacity[d.resource] \in Nat
    BY <1>1 DEF TypeOK, Rounds
  <2> QED BY <2>1, <2>2, <2>3, MinusType DEF CapacityLeft
<1>6. d.reservation # NoReservation => slack \in Nat
  <2> SUFFICES ASSUME d.reservation # NoReservation PROVE slack \in Nat
    OBVIOUS
  <2>1. reservation_usable(f, round.now)
    BY DEF derived_readiness
  <2>2. d.reservation \in Reservations /\ Registered(reservation, d.reservation)
    BY <1>2, <2>1 DEF reservation_usable
  <2>3. reservation[d.reservation] # NoDescriptor
    BY <2>2, SMTT(60) DEF Registered, NoDescriptor
  <2>4. reservation[d.reservation] \in ReservationDescriptors
        /\ reserved_units[d.reservation] \in Nat
        /\ round.pending_reservation[d.reservation] \in Nat
    BY <2>2, <2>3 DEF TypeOK, ReservationsTyped, Rounds
  <2>5. reservation[d.reservation].capacity \in Nat
    BY <2>4 DEF ReservationDescriptors
  <2> QED BY <2>4, <2>5, MinusType DEF ReservationSlack
<1>7. \A x, y \in Nat : Least(x, y) \in Nat /\ Least(x, y) <= x /\ Least(x, y) <= y
  BY SMTT(60) DEF Least
<1>8. Minus(d.deadline_tick, round.now) \in Nat
  BY <1>2, <1>3, SMTT(60) DEF Minus
<1> DEFINE bound == IF d.reservation = NoReservation
                    THEN Least(Least(Least(d.service_quantum, left), policy.max_quantum), room)
                    ELSE Least(Least(Least(Least(d.service_quantum, left),
                                           policy.max_quantum), room), slack)
<1>9. Quantum(f) = IF has_deadline(d.deadline_tick) /\ policy.strict_deadlines
                   THEN Least(bound, Minus(d.deadline_tick, round.now)) ELSE bound
  BY DEF Quantum
<1>10. bound \in Nat /\ bound <= left /\ bound <= room
       /\ (d.reservation # NoReservation => bound <= slack)
  <2> HIDE DEF room, slack, left
  <2> DEFINE a == Least(d.service_quantum, left)
             b == Least(a, policy.max_quantum)
             c == Least(b, room)
  <2>1. a \in Nat /\ a <= left
    BY <1>2, <1>4, <1>7
  <2> HIDE DEF a
  <2>2. b \in Nat /\ b <= a
    BY <1>3, <1>7, <2>1
  <2> HIDE DEF b
  <2>3. c \in Nat /\ c <= b /\ c <= room
    BY <1>5, <1>7, <2>2
  <2> HIDE DEF c
  <2>4. c <= left
    BY <1>4, <2>1, <2>2, <2>3, SMTT(60)
  <2>5. bound = IF d.reservation = NoReservation THEN c ELSE Least(c, slack)
    BY DEF a, b, c
  <2> HIDE DEF bound
  <2>6. CASE d.reservation = NoReservation
    BY <2>3, <2>4, <2>5, <2>6
  <2>7. CASE d.reservation # NoReservation
    <3>1. bound \in Nat /\ bound <= c /\ bound <= slack
      BY <1>6, <1>7, <2>3, <2>5, <2>7
    <3> QED BY <1>4, <1>5, <2>3, <2>4, <3>1, SMTT(60)
  <2> QED BY <2>6, <2>7
<1> HIDE DEF bound
<1>11. Quantum(f) \in Nat /\ Quantum(f) <= bound
  BY <1>7, <1>8, <1>9, <1>10, SMTT(60)
<1> HIDE DEF room, slack, left
<1>12. Quantum(f) <= left /\ Quantum(f) <= room
       /\ (d.reservation # NoReservation => Quantum(f) <= slack)
  BY <1>4, <1>5, <1>6, <1>10, <1>11, SMTT(60)
<1> QED BY <1>11, <1>12 DEF room, slack, left

\* Placing a window keeps the round typed, and adds one entry at most.
LEMMA PlaceType ==
    ASSUME TypeOK, CandidatesSettled, NEW f \in Flows, Candidate(f), Placeable(f),
           derived_readiness(f, round.now) = "Selected",
           NEW es \in Seq(Entries), Place(f, es)
    PROVE  LET q == Quantum(f)
               r == flow[f].resource
               v == flow[f].reservation
           IN
           /\ round' \in Rounds /\ round'.phase = "Assign"
           /\ round'.todo = round.todo \ {f} /\ round'.now = round.now
           /\ q = 0 => /\ round'.entries = es
                       /\ round'.pending_capacity = round.pending_capacity
                       /\ round'.pending_reservation = round.pending_reservation
           /\ q # 0 =>
                 /\ RunEntry(f, q) \in Entries
                 /\ round'.entries = Append(es, RunEntry(f, q))
                 /\ round'.pending_capacity = [round.pending_capacity EXCEPT ![r] = @ + q]
                 /\ round'.pending_reservation =
                       [x \in Reservations |-> IF x = v THEN round.pending_reservation[x] + q
                                               ELSE round.pending_reservation[x]]
<1> DEFINE q == Quantum(f)
           d == flow[f]
           r == d.resource
           v == d.reservation
           e == RunEntry(f, q)
           in == [round.pending_in_flight EXCEPT ![r] = @ + 1]
           cap == [round.pending_capacity EXCEPT ![r] = @ + q]
           res == [x \in Reservations |-> IF x = v THEN round.pending_reservation[x] + q
                                          ELSE round.pending_reservation[x]]
           todo == round.todo \ {f}
<1>1. q \in Nat
  BY QuantumType
<1>2. d \in FlowDescriptors /\ r \in Resources /\ round.phase = "Assign" /\ round \in Rounds
  BY CandidateRow DEF TypeOK
<1>3. todo \in SUBSET Flows
  BY <1>2 DEF Rounds
<1>4. CASE q = 0
  <2>1. round' = [round EXCEPT !.todo = todo, !.entries = es]
    BY <1>4 DEF Place
  <2> HIDE DEF todo
  <2>2. /\ round' \in Rounds /\ round'.phase = "Assign" /\ round'.todo = todo
        /\ round'.now = round.now /\ round'.entries = es
        /\ round'.pending_capacity = round.pending_capacity
        /\ round'.pending_reservation = round.pending_reservation
    BY <1>2, <1>3, <2>1 DEF Rounds
  <2> QED BY <1>4, <2>2 DEF todo
<1>5. CASE q # 0
  <2>1. round' = [round EXCEPT !.todo = todo, !.entries = Append(es, e),
                               !.pending_in_flight = in, !.pending_capacity = cap,
                               !.pending_reservation = res]
    <3>1. round' = [[round EXCEPT !.todo = todo, !.entries = es] EXCEPT
                         !.entries = Append(es, e),
                         !.pending_in_flight[r] = @ + 1,
                         !.pending_capacity[r] = @ + q,
                         !.pending_reservation =
                             [x \in Reservations |-> IF x = v THEN @[x] + q ELSE @[x]]]
      BY <1>5 DEF Place
    <3> HIDE DEF todo, e, q, r, v
    <3> QED BY <1>2, <3>1 DEF Rounds
  <2>2. e \in Entries
    <3>1. q \in Nat \ {0}
      BY <1>1, <1>5
    <3>2. /\ d.generation \in Nat /\ d.resource \in Resources /\ d.resource_generation \in Nat
          /\ d.reservation \in Reservations \cup {NoReservation}
          /\ d.reservation_generation \in Nat /\ d.class_generation \in Nat
          /\ d.deadline_tick \in Int
      BY <1>2 DEF FlowDescriptors
    <3>3. "Run" \in {"Run", "Preempt"}
      OBVIOUS
    <3> HIDE DEF q
    <3> QED BY <3>1, <3>2, <3>3 DEF RunEntry, Entries
  <2> HIDE DEF e
  <2>3. Append(es, e) \in Seq(Entries)
    BY <2>2, SMTT(60)
  <2>4. /\ round.pending_in_flight \in [Resources -> Nat]
        /\ round.pending_capacity \in [Resources -> Nat]
        /\ round.pending_reservation \in [Reservations -> Nat]
    BY <1>2 DEF Rounds
  <2> HIDE DEF q, r, v
  <2>5. in \in [Resources -> Nat] /\ cap \in [Resources -> Nat]
    BY <1>1, <1>2, <2>4, CountRow
  <2>6. res \in [Reservations -> Nat]
    BY <1>1, <2>4, SMTT(60)
  <2> HIDE DEF in, cap, res, todo
  <2>7. /\ round' \in Rounds /\ round'.phase = "Assign" /\ round'.todo = todo
        /\ round'.now = round.now /\ round'.entries = Append(es, e)
        /\ round'.pending_capacity = cap /\ round'.pending_reservation = res
    BY <1>2, <1>3, <2>1, <2>3, <2>5, <2>6 DEF Rounds
  <2> QED BY <1>5, <2>2, <2>7 DEF todo, cap, res, e, q, r, v, d
<1> QED BY <1>4, <1>5

\* Placing a window takes its flow off the work list.
LEMMA PlaceTodo ==
    ASSUME TypeOK, NEW f, \E es : Place(f, es)
    PROVE  round'.phase = round.phase /\ round'.todo = round.todo \ {f}
<1>1. PICK es : Place(f, es)
  OBVIOUS
<1>2. PICK next : next = [round EXCEPT !.todo = @ \ {f}, !.entries = es]
  OBVIOUS
<1>3. round \in Rounds
  BY DEF TypeOK
<1>4. next \in [phase : {round.phase}, now : {round.now}, todo : {round.todo \ {f}},
               entries : {es}, next : {round.next},
               pending_in_flight : {round.pending_in_flight},
               pending_capacity : {round.pending_capacity},
               pending_reservation : {round.pending_reservation}]
  BY <1>2, <1>3 DEF Rounds
<1>5. \/ round' = next
      \/ \E e, p, c, v : round' = [[[[next EXCEPT !.entries = e] EXCEPT !.pending_in_flight = p]
                                      EXCEPT !.pending_capacity = c]
                                    EXCEPT !.pending_reservation = v]
  BY <1>1, <1>2 DEF Place
<1> QED BY <1>4, <1>5

\* Applying an entry counts a window, never an attempt.
LEMMA ApplyCounts ==
    ASSUME TypeOK, RoundApply
    PROVE  /\ DOMAIN schedules' = DOMAIN schedules
           /\ \A x \in DOMAIN schedules :
                 schedules'[x].open_attempts = schedules[x].open_attempts
<1> DEFINE s == next_schedule
           p == schedules[s].pending_entries + 1
           row == [schedules[s] EXCEPT !.pending_entries = p]
<1>1. schedules' = [schedules EXCEPT ![s] = row] \/ schedules' = schedules
  BY DEF RoundApply, Assign
<1>2. s \in DOMAIN schedules => row.open_attempts = schedules[s].open_attempts
  <2>1. SUFFICES ASSUME s \in DOMAIN schedules
                 PROVE  row.open_attempts = schedules[s].open_attempts
    OBVIOUS
  <2>2. schedules[s] \in ScheduleRows(Len(schedules[s].entries))
    BY <2>1, ScheduleRow
  <2> HIDE DEF p
  <2> QED BY <2>2 DEF ScheduleRows
<1> HIDE DEF row
<1> QED BY <1>1, <1>2

=============================================================================
