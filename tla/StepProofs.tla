----------------------------- MODULE StepProofs -----------------------------
(***************************************************************************)
(* What every step of the scheduler keeps, one lemma per action: the types *)
(* of the state, the attempts that are closed, and the flows that are      *)
(* terminal.                                                               *)
(***************************************************************************)
EXTENDS StateProofs

\* A leaf that names no prover is left to Zenon.
USE ZenonT(60)
USE DEF authorityVars, resourceVars, reservationVars, flowVars, dispatchVars

-----------------------------------------------------------------------------
(***************************************************************************)
(* Lemmas about the operators                                              *)
(***************************************************************************)

\* A change of one row of a table.
LEMMA SetRow ==
    ASSUME NEW S, NEW T, NEW c \in [S -> T], NEW k, NEW m \in T
    PROVE  [c EXCEPT ![k] = m] \in [S -> T]
OBVIOUS

\* A step that neither creates nor erases a row keeps the rows well formed.
LEMMA RowsKept ==
    ASSUME TypeOK, lifecycle' \in Table, SameRows(lifecycle'), flow' = flow
    PROVE  FlowRowsTyped'
BY DEF TypeOK, FlowRowsTyped, Table, SameRows

\* A change of one row of the lifecycle table.
LEMMA SetLifecycle ==
    ASSUME TypeOK, NEW f \in Flows, NEW l \in Lifecycles, lifecycle[f] # "Absent"
    PROVE  /\ [lifecycle EXCEPT ![f] = l] \in Table
           /\ SameRows([lifecycle EXCEPT ![f] = l])
           /\ normalize_transient_states([lifecycle EXCEPT ![f] = l]) \in Table
           /\ SameRows(normalize_transient_states([lifecycle EXCEPT ![f] = l]))
<1>1. lifecycle \in Table
  BY LifecycleTable
<1>2. l # "Absent"
  BY DEF Lifecycles
<1>3. /\ [lifecycle EXCEPT ![f] = l] \in Table
      /\ SameRows([lifecycle EXCEPT ![f] = l])
  BY <1>1, <1>2 DEF Table, SameRows
<1> DEFINE t == [lifecycle EXCEPT ![f] = l]
<1>4. t \in Table /\ SameRows(t)
  BY <1>3
<1> HIDE DEF t
<1>5. normalize_transient_states(t) \in Table /\ SameRows(normalize_transient_states(t))
  BY <1>4, NormalizeTable DEF SameRows
<1> QED BY <1>3, <1>5 DEF t

-----------------------------------------------------------------------------
(***************************************************************************)
(* Typed states, and the methods the actions call                          *)
(***************************************************************************)

\* A tick a caller passes is recorded.
LEMMA TouchType ==
    ASSUME TypeOK, NEW now \in Readings, Touch(now), UNCHANGED authorityVars
    PROVE  AuthorityTyped'
<1>1. now \in Nat
  BY IdentityAssumption, SMTT(60) DEF Readings, Ticks
<1>2. last_tick' \in Nat
  BY <1>1 DEF Touch, TypeOK, AuthorityTyped
<1> QED BY <1>2 DEF TypeOK, AuthorityTyped

\* Methods that close an attempt and leave the other tables alone.
LEMMA ClosedType ==
    ASSUME TypeOK, NEW s, NEW f \in Flows,
           schedules' = [schedules EXCEPT ![s].open_attempts = Minus(@, 1)],
           outstanding' \in [Flows -> Nat],
           open_attempt' = [open_attempt EXCEPT ![f] = NoAttempt],
           in_flight' \in [Resources -> Nat],
           lifecycle' \in Table, SameRows(lifecycle'),
           UNCHANGED <<resource, flow, missed, next_schedule, reservation,
                       reserved_units>>,
           served_work' \in [Flows -> Nat], scheduled' \in [Flows -> Nat \X Nat],
           reserved' \in [Resources -> Nat], interval_index' \in [Resources -> Int],
           (round'.phase = "Issue" /\ round'.entries # <<>>) <=>
              (round.phase = "Issue" /\ round.entries # <<>>)
    PROVE  /\ ResourcesTyped' /\ ReservationsTyped' /\ FlowRowsTyped' /\ FlowFieldsTyped'
           /\ SchedulesTyped'
<1>1. ResourcesTyped'
  BY DEF TypeOK, ResourcesTyped
<1>2. FlowRowsTyped'
  BY RowsKept
<1>3. FlowFieldsTyped'
  <2>1. NoAttempt \in Nat /\ open_attempt \in [Flows -> Nat]
    BY DEF NoAttempt, TypeOK, FlowFieldsTyped
  <2>2. open_attempt' \in [Flows -> Nat]
    BY <2>1
  <2> QED BY <2>2 DEF TypeOK, FlowFieldsTyped
<1>4. SchedulesTyped'
  BY CountType
<1>5. ReservationsTyped'
  BY Frame DEF TypeOK
<1> QED BY <1>1, <1>2, <1>3, <1>4, <1>5

-----------------------------------------------------------------------------
(***************************************************************************)
(* The topology, and the calls on one flow                                 *)
(***************************************************************************)

\* Registering and retiring resources, reservations, classes and policies.
LEMMA TopologyType == TypeOK /\ Topology => TypeOK'
<1> SUFFICES ASSUME TypeOK, Topology PROVE TypeOK'
    OBVIOUS
<1>1. ASSUME NEW r \in Resources, NEW d \in ResourceSpace, register_resource(r, d)
      PROVE TypeOK'
  <2>1. d \in {x \in ResourceDescriptors : validate_resource(x)}
    BY <1>1, DescriptorAssumption DEF register_resource
  <2>2. resource' = [resource EXCEPT ![r] = d]
        /\ interval_index' = [interval_index EXCEPT ![r] = -1]
        /\ reserved' = [reserved EXCEPT ![r] = 0]
        /\ in_flight' = in_flight
    BY <1>1 DEF register_resource
  <2>3. resource' \in [Resources -> {NoDescriptor} \cup
                        {x \in ResourceDescriptors : validate_resource(x)}]
    BY <2>1, <2>2 DEF TypeOK, ResourcesTyped
  <2>4. interval_index' \in [Resources -> Int] /\ reserved' \in [Resources -> Nat]
    BY <2>2, SMTT(60) DEF TypeOK, ResourcesTyped
  <2>5. ResourcesTyped'
    BY <2>2, <2>3, <2>4 DEF TypeOK, ResourcesTyped
  <2> QED BY <1>1, <2>5, Frame DEF TypeOK, register_resource
<1>2. ASSUME NEW v \in Reservations, NEW d \in ReservationSpace, register_reservation(v, d)
      PROVE TypeOK'
  <2>1. ReservationsTyped'
    BY <1>2, DescriptorAssumption DEF TypeOK, ReservationsTyped, register_reservation
  <2> QED BY <1>2, <2>1, Frame DEF TypeOK, register_reservation
<1>3. ASSUME NEW v \in Reservations, retire_reservation(v)
      PROVE TypeOK'
  <2>1. reservation[v] \in ReservationDescriptors
    <3>1. reservation[v].generation > 0
      BY <1>3 DEF retire_reservation, Registered
    <3>2. reservation[v] # NoDescriptor
      BY <3>1, SMTT(60) DEF NoDescriptor
    <3> QED BY <3>2 DEF TypeOK, ReservationsTyped
  <2>2. [reservation[v] EXCEPT !.retired = TRUE] \in ReservationDescriptors
    BY <2>1 DEF ReservationDescriptors
  <2>3. reservation' = [reservation EXCEPT ![v] = [reservation[v] EXCEPT !.retired = TRUE]]
        /\ reserved_units' = reserved_units
    BY <1>3 DEF retire_reservation
  <2>4. ReservationsTyped'
    BY <2>2, <2>3 DEF TypeOK, ReservationsTyped
  <2> QED BY <1>3, <2>4, Frame DEF TypeOK, retire_reservation
<1>4. CASE register_class
  <2>1. AuthorityTyped'
    BY <1>4, SMTT(60) DEF TypeOK, AuthorityTyped, register_class
  <2> QED BY <1>4, <2>1, Frame DEF TypeOK, register_class
<1>5. ASSUME NEW p \in PolicySpace, install_policy(p) PROVE TypeOK'
  <2>0. policy' = p /\ p \in Policies /\ validate_policy(p)
        /\ UNCHANGED <<epoch, class_generation, last_tick>>
    BY <1>5, DescriptorAssumption DEF install_policy
  <2>1. AuthorityTyped'
    BY <2>0 DEF TypeOK, AuthorityTyped
  <2> QED BY <1>5, <2>1, Frame DEF TypeOK, install_policy
<1> QED BY <1>1, <1>2, <1>3, <1>4, <1>5 DEF Topology

\* admit_flow writes every field of the row it creates.
LEMMA AdmitType ==
    ASSUME NEW f \in Flows, NEW d \in FlowSpace, TypeOK, admit_flow(f, d)
    PROVE  TypeOK'
<1>1. d \in FlowDescriptors /\ validate_flow(f, d)
  BY DescriptorAssumption DEF admit_flow
<1>2. FlowRowsTyped'
  <2>1. lifecycle' = [lifecycle EXCEPT ![f] = "Waiting"] /\ flow' = [flow EXCEPT ![f] = d]
    BY DEF admit_flow
  <2> QED BY <1>1, <2>1 DEF TypeOK, FlowRowsTyped, Lifecycles
<1>3. FlowFieldsTyped'
  BY DEF TypeOK, FlowFieldsTyped, admit_flow, NoAttempt, NoSlot
<1> QED BY <1>2, <1>3, Frame DEF TypeOK, admit_flow

\* retire_flow erases the row, whose fields go back to those of no flow.
LEMMA RetireFlowType ==
    ASSUME NEW f \in Flows, TypeOK, retire_flow(f)
    PROVE  TypeOK'
<1>1. FlowRowsTyped'
  <2>1. lifecycle' = [lifecycle EXCEPT ![f] = "Absent"]
        /\ flow' = [flow EXCEPT ![f] = NoDescriptor]
    BY DEF retire_flow
  <2> QED BY <2>1 DEF TypeOK, FlowRowsTyped
<1>2. FlowFieldsTyped'
  BY DEF TypeOK, FlowFieldsTyped, retire_flow, NoAttempt, NoSlot
<1> QED BY <1>1, <1>2, Frame DEF TypeOK, retire_flow

\* notify_readiness writes the signal into the descriptor.
LEMMA NotifyType ==
    ASSUME NEW f \in Flows, NEW signal \in SignalSpace, NEW now \in Readings,
           TypeOK, notify_readiness(f, signal, now)
    PROVE  TypeOK'
<1> DEFINE d == [flow[f] EXCEPT !.readiness_signal = signal]
<1>1. flow[f] \in FlowDescriptors /\ validate_flow(f, flow[f])
  BY DEF TypeOK, FlowRowsTyped, notify_readiness
<1>2. d \in FlowDescriptors
  BY <1>1, DescriptorAssumption DEF FlowDescriptors
<1>3. validate_flow(f, d)
  BY <1>1 DEF FlowDescriptors, validate_flow
<1>4. flow' = [flow EXCEPT ![f] = d] /\ lifecycle' = lifecycle /\ lifecycle[f] # "Absent"
  BY DEF notify_readiness
<1> HIDE DEF d
<1>5. FlowRowsTyped'
  BY <1>2, <1>3, <1>4 DEF TypeOK, FlowRowsTyped
<1>6. AuthorityTyped'
  BY TouchType DEF notify_readiness
<1> QED BY <1>5, <1>6, Frame DEF TypeOK, notify_readiness

\* resolve_ambiguous sends the flow to Failed or back to Waiting.
LEMMA ResolveType ==
    ASSUME NEW f \in Flows, NEW after \in {"Waiting", "Failed"}, NEW now \in Readings,
           TypeOK, resolve_ambiguous(f, after, now)
    PROVE  TypeOK'
<1>1. /\ lifecycle' = [lifecycle EXCEPT ![f] = after] /\ flow' = flow
      /\ lifecycle[f] # "Absent" /\ after \in Lifecycles
  BY DEF resolve_ambiguous, Lifecycles
<1>2. FlowRowsTyped'
  BY <1>1, SetLifecycle, RowsKept
<1>3. AuthorityTyped'
  BY TouchType DEF resolve_ambiguous
<1> QED BY <1>2, <1>3, Frame DEF TypeOK, resolve_ambiguous

\* update_flow replaces the descriptor and gives the window up.
LEMMA UpdateType ==
    ASSUME NEW f \in Flows, NEW d \in FlowSpace, TypeOK, update_flow(f, d)
    PROVE  TypeOK'
<1> DEFINE s == scheduled[f][1]
           I == {scheduled[f][2]}
<1>1. /\ SchedulesTyped'
      /\ outstanding' \in [Flows -> Nat]
      /\ scheduled' \in [Flows -> Nat \X Nat]
      /\ in_flight' \in [Resources -> Nat]
      /\ lifecycle' \in Table /\ SameRows(lifecycle')
  <2>0. next_schedule' = next_schedule /\ round' = round /\ RetireWindow(f)
    BY DEF update_flow
  <2>1. CASE lifecycle[f] = "Scheduled" /\ s \in DOMAIN schedules
    <3>1. release_run_entries(s, I, Released(s, I))
      BY <2>0, <2>1 DEF RetireWindow
    <3> HIDE DEF I, s
    <3>2. /\ Released(s, I) \in Table /\ SameRows(Released(s, I))
      BY <2>1, ReleasedTable
    <3>3. lifecycle' = Released(s, I)
      BY <3>1 DEF release_run_entries
    <3>4. /\ SchedulesTyped'
          /\ outstanding' \in [Flows -> Nat]
          /\ scheduled' \in [Flows -> Nat \X Nat]
          /\ in_flight' \in [Resources -> Nat]
      BY <2>0, <2>1, <3>1, ReleaseType
    <3> QED BY <3>2, <3>3, <3>4
  <2>2. CASE ~(lifecycle[f] = "Scheduled" /\ s \in DOMAIN schedules)
    <3>1. UNCHANGED <<schedules, outstanding, scheduled, in_flight, lifecycle>>
      BY <2>0, <2>2 DEF RetireWindow
    <3>2. lifecycle \in Table /\ SameRows(lifecycle)
      BY LifecycleTable
    <3> QED BY <2>0, <3>1, <3>2, Frame DEF TypeOK, FlowFieldsTyped, ResourcesTyped
  <2> QED BY <2>1, <2>2
<1>2. flow' = [flow EXCEPT ![f] = d] /\ d \in FlowDescriptors /\ validate_flow(f, d)
      /\ lifecycle[f] # "Absent"
  BY DescriptorAssumption DEF update_flow
<1>3. FlowRowsTyped'
  BY <1>1, <1>2 DEF TypeOK, FlowRowsTyped, SameRows, Table
<1>4. FlowFieldsTyped'
  BY <1>1 DEF TypeOK, FlowFieldsTyped, update_flow
<1>5. ResourcesTyped'
  <2>1. UNCHANGED <<resource, reserved, interval_index>>
    BY DEF update_flow
  <2> QED BY <1>1, <2>1 DEF TypeOK, ResourcesTyped
<1> QED BY <1>1, <1>3, <1>4, <1>5, Frame DEF TypeOK, update_flow

\* cancel_flow closes the open attempt, then releases the window.
LEMMA CancelType ==
    ASSUME NEW f \in Flows, TypeOK, AuthorityExclusive, cancel_flow(f)
    PROVE  TypeOK'
<1> DEFINE slot == scheduled[f]
           s == slot[1]
<1>1. lifecycle' \in Table /\ SameRows(lifecycle')
  <2>1. /\ lifecycle' = normalize_transient_states([lifecycle EXCEPT ![f] = "Cancelled"])
        /\ lifecycle[f] # "Absent" /\ "Cancelled" \in Lifecycles
    BY DEF cancel_flow, Lifecycles
  <2> QED BY <2>1, SetLifecycle
<1>2. outstanding' \in [Flows -> Nat] /\ scheduled' \in [Flows -> Nat \X Nat]
  <2>1. /\ outstanding' = [outstanding EXCEPT ![f] = 0]
        /\ scheduled' = [scheduled EXCEPT ![f] = NoSlot]
    BY DEF cancel_flow
  <2> QED BY <2>1 DEF TypeOK, FlowFieldsTyped, NoSlot
<1>3. /\ UNCHANGED <<authorityVars, last_tick, resource, reserved, interval_index,
                     reservationVars, flow, served_work, missed, next_schedule,
                     next_attempt, tickets, preemptions, round>>
      /\ reserved' \in [Resources -> Nat] /\ interval_index' \in [Resources -> Int]
      /\ served_work' \in [Flows -> Nat]
  BY DEF cancel_flow, TypeOK, ResourcesTyped, FlowFieldsTyped
<1>4. CASE open_attempt[f] # NoAttempt
  <2> DEFINE t == attempts[open_attempt[f]].ticket
  <2>1. /\ attempts' = [attempts EXCEPT ![open_attempt[f]].state = "Cancelled"]
        /\ schedules' = [schedules EXCEPT ![t.schedule].open_attempts = Minus(@, 1)]
        /\ open_attempt' = [open_attempt EXCEPT ![f] = NoAttempt]
        /\ in_flight' = [in_flight EXCEPT ![t.entry.resource] = Minus(@, 1)]
    BY <1>4 DEF cancel_flow
  <2>2. open_attempt[f] \in DOMAIN attempts /\ "Cancelled" \in AttemptStates
    BY <1>4, NamedAttempt DEF AttemptStates
  <2>3. AttemptsTyped'
    BY <1>3, <2>1, <2>2, StateType
  <2>4. t.entry.resource \in Resources /\ 1 \in Nat
    BY <2>2, AttemptRow
  <2>5. in_flight' \in [Resources -> Nat]
    <3>1. in_flight \in [Resources -> Nat]
      BY DEF TypeOK, ResourcesTyped
    <3> HIDE DEF t
    <3> QED BY <2>1, <2>4, <3>1, CountRow
  <2> HIDE DEF t
  <2>6. ResourcesTyped' /\ ReservationsTyped' /\ FlowRowsTyped' /\ FlowFieldsTyped'
        /\ SchedulesTyped'
    BY <1>1, <1>2, <1>3, <2>1, <2>5, ClosedType
  <2> QED BY <1>3, <2>3, <2>6, Frame DEF TypeOK
<1>5. CASE open_attempt[f] = NoAttempt
  <2>1. UNCHANGED <<attempts, open_attempt>>
    BY <1>5 DEF cancel_flow
  <2>2. SchedulesTyped' /\ in_flight' \in [Resources -> Nat]
    <3>1. CASE lifecycle[f] = "Scheduled"
      <4> DEFINE sch == schedules[s]
                 marks == [sch.consumed EXCEPT ![slot[2]] = 2]
                 left == Minus(sch.pending_entries, 1)
                 row == [sch EXCEPT !.consumed = marks, !.pending_entries = left]
                 r == sch.entries[slot[2]].resource
                 k == Len(sch.entries)
      <4>1. /\ schedules' = [schedules EXCEPT ![s] = row]
            /\ in_flight' = [in_flight EXCEPT ![r] = Minus(@, 1)]
        BY <1>5, <3>1 DEF cancel_flow
      <4>2. s \in DOMAIN schedules => row \in ScheduleRows(k) /\ row.entries = sch.entries
        <5> SUFFICES ASSUME s \in DOMAIN schedules
                     PROVE  row \in ScheduleRows(k) /\ row.entries = sch.entries
          OBVIOUS
        <5>1. /\ sch \in ScheduleRows(k) /\ sch.consumed \in [1..k -> 0..2]
              /\ sch.pending_entries \in Nat /\ 2 \in 0..2 /\ 1 \in Nat
          BY ScheduleRow, SMTT(60)
        <5> HIDE DEF k, s, slot, sch
        <5>2. marks \in [1..k -> 0..2] /\ left \in Nat
          BY <5>1, MinusType, SetRow
        <5> HIDE DEF marks, left
        <5> QED BY <5>1, <5>2 DEF ScheduleRows
      <4>3. SchedulesTyped'
        <5> HIDE DEF row
        <5> QED BY <1>3, <4>1, <4>2, ScheduleKept
      <4>4. in_flight' \in [Resources -> Nat]
        <5>1. in_flight \in [Resources -> Nat]
          BY DEF TypeOK, ResourcesTyped
        <5> HIDE DEF r
        <5> QED BY <4>1, <5>1, MinusType
      <4> QED BY <4>3, <4>4
    <3>2. CASE lifecycle[f] # "Scheduled"
      <4>1. UNCHANGED <<schedules, in_flight>>
        BY <1>5, <3>2 DEF cancel_flow
      <4> QED BY <1>3, <4>1, Frame DEF TypeOK, ResourcesTyped
    <3> QED BY <3>1, <3>2
  <2>3. ResourcesTyped'
    BY <1>3, <2>2 DEF TypeOK, ResourcesTyped
  <2>4. FlowFieldsTyped'
    BY <1>2, <1>3, <2>1 DEF TypeOK, FlowFieldsTyped
  <2>5. FlowRowsTyped'
    BY <1>1, <1>3, RowsKept
  <2> QED BY <1>3, <2>1, <2>2, <2>3, <2>4, <2>5, Frame DEF TypeOK
<1> QED BY <1>4, <1>5

-----------------------------------------------------------------------------
(***************************************************************************)
(* Dispatch                                                                *)
(***************************************************************************)

\* abandon_attempt and preempt_attempt close one live attempt.
LEMMA CloseType ==
    ASSUME NEW a, NEW state \in AttemptStates, NEW after \in Lifecycles, NEW now \in Readings,
           TypeOK, AuthorityExclusive, CloseByCaller(a, state, after, now)
    PROVE  TypeOK'
<1> DEFINE f == attempts[a].ticket.entry.flow
           t == normalize_transient_states([lifecycle EXCEPT ![f] = after])
<1>1. a \in LiveAttempts /\ apply_attempt_closed(a, state, t)
  BY DEF CloseByCaller
<1>2. f \in Flows /\ lifecycle[f] # "Absent" /\ a \in DOMAIN attempts
  BY <1>1, LiveAttempt
<1>3. t \in Table /\ SameRows(t)
  <2> HIDE DEF f
  <2> QED BY <1>2, SetLifecycle
<1>4. /\ attempts' = [attempts EXCEPT ![a].state = state]
      /\ schedules' = [schedules EXCEPT
            ![attempts[a].ticket.schedule].open_attempts = Minus(@, 1)]
      /\ outstanding' \in [Flows -> Nat]
      /\ open_attempt' = [open_attempt EXCEPT ![f] = NoAttempt]
      /\ in_flight' \in [Resources -> Nat]
      /\ lifecycle' = t
  <2> HIDE DEF t
  <2> QED BY <1>1, CloseEffect
<1>5. /\ UNCHANGED <<authorityVars, resource, reserved, interval_index, reservationVars,
                     flow, served_work, scheduled, missed, next_schedule, next_attempt,
                     tickets, preemptions, round>>
      /\ reserved' \in [Resources -> Nat] /\ interval_index' \in [Resources -> Int]
      /\ served_work' \in [Flows -> Nat] /\ scheduled' \in [Flows -> Nat \X Nat]
  BY DEF CloseByCaller, TypeOK, ResourcesTyped, FlowFieldsTyped
<1>6. AuthorityTyped'
  BY TouchType DEF CloseByCaller
<1>7. AttemptsTyped'
  BY <1>2, <1>4, <1>5, StateType
<1> HIDE DEF t, f
<1>8. ResourcesTyped' /\ ReservationsTyped' /\ FlowRowsTyped' /\ FlowFieldsTyped'
      /\ SchedulesTyped'
  BY <1>2, <1>3, <1>4, <1>5, ClosedType
<1> QED BY <1>5, <1>6, <1>7, <1>8 DEF TypeOK

\* mark_started moves the attempt and its flow to running.
LEMMA StartType ==
    ASSUME NEW t \in tickets, NEW now \in Readings, TypeOK, AuthorityExclusive,
           mark_started(t, now)
    PROVE  TypeOK'
<1> DEFINE a == t.attempt
           f == attempts[a].ticket.entry.flow
<1>1. a \in LiveAttempts /\ a \in DOMAIN attempts
  BY DEF mark_started, LiveAttempts, is_attempt_terminal
<1>2. f \in Flows /\ lifecycle[f] # "Absent" /\ "Running" \in Lifecycles
      /\ "Started" \in AttemptStates
  BY <1>1, LiveAttempt DEF Lifecycles, AttemptStates
<1>3. /\ attempts' = [attempts EXCEPT ![a].state = "Started"]
      /\ lifecycle' = IF open_attempt[f] = a THEN [lifecycle EXCEPT ![f] = "Running"]
                      ELSE lifecycle
      /\ flow' = flow /\ UNCHANGED <<next_attempt, tickets>>
  BY DEF mark_started
<1>4. FlowRowsTyped'
  <2>1. lifecycle \in Table /\ SameRows(lifecycle)
    BY LifecycleTable
  <2> HIDE DEF f, a
  <2>2. /\ [lifecycle EXCEPT ![f] = "Running"] \in Table
        /\ SameRows([lifecycle EXCEPT ![f] = "Running"])
    BY <1>2, SetLifecycle
  <2> QED BY <1>3, <2>1, <2>2, RowsKept
<1>5. AttemptsTyped'
  BY <1>1, <1>2, <1>3, StateType
<1>6. AuthorityTyped'
  BY TouchType DEF mark_started
<1> QED BY <1>4, <1>5, <1>6, Frame DEF TypeOK, mark_started

\* begin_dispatch consumes an entry and opens an attempt with a fresh identity.
LEMMA BeginType ==
    ASSUME TypeOK, NEW s \in DOMAIN schedules, NEW i \in DOMAIN schedules[s].entries,
           NEW boot \in Boots, NEW now \in Readings, begin_dispatch(s, i, boot, now)
    PROVE  TypeOK'
<1> DEFINE sch == schedules[s]
           e == sch.entries[i]
           t == [attempt |-> next_attempt, epoch |-> epoch, schedule |-> s,
                 policy |-> PolicyBinding, boot |-> boot, entry |-> e]
           new == [ticket |-> t, state |-> "Open", evidence |-> <<>>]
           marks == [sch.consumed EXCEPT ![i] = 1]
           left == Minus(sch.pending_entries, 1)
           open == sch.open_attempts + 1
           row == [sch EXCEPT !.open_attempts = open, !.consumed = marks,
                              !.pending_entries = left]
           k == Len(sch.entries)
<1>1. /\ attempts' = With(attempts, next_attempt, new)
      /\ schedules' = [schedules EXCEPT ![s] = row]
      /\ open_attempt' = [open_attempt EXCEPT ![e.flow] = next_attempt]
      /\ lifecycle' = [lifecycle EXCEPT ![e.flow] = "Dispatched"]
      /\ next_attempt' = next_attempt + 1
      /\ tickets' = tickets \cup {t}
      /\ lifecycle[e.flow] = "Scheduled"
  BY DEF begin_dispatch
<1>2. UNCHANGED <<authorityVars, resourceVars, reservationVars, flow, served_work,
                  outstanding, scheduled, missed, next_schedule, preemptions, round>>
  BY DEF begin_dispatch
<1>3. /\ sch \in ScheduleRows(k) /\ sch.consumed \in [1..k -> 0..2]
      /\ sch.pending_entries \in Nat /\ sch.open_attempts \in Nat
      /\ e \in Entries /\ s \in Nat \ {0}
  BY ScheduleRow
<1>4. e.flow \in Flows
  BY <1>3 DEF Entries
<1>5. t \in Tickets
  <2>1. PolicyBinding \in Bindings
    BY DEF PolicyBinding, Bindings, TypeOK, AuthorityTyped, Policies
  <2>2. epoch \in Nat /\ next_attempt \in Nat \ {0}
    BY DEF TypeOK, AuthorityTyped, AttemptsTyped
  <2> HIDE DEF e
  <2> QED BY <1>3, <2>1, <2>2 DEF Tickets
<1>6. new \in AttemptRows
  <2>1. <<>> \in Seq(Reports) /\ "Open" \in AttemptStates
    BY SMTT(60) DEF AttemptStates
  <2> HIDE DEF t
  <2> QED BY <1>5, <2>1 DEF AttemptRows
<1>7. AttemptsTyped'
  <2>1. /\ DOMAIN attempts' = DOMAIN attempts \cup {next_attempt}
        /\ \A x \in DOMAIN attempts' :
              attempts'[x] = IF x = next_attempt THEN new ELSE attempts[x]
    BY <1>1 DEF With
  <2> HIDE DEF new, t
  <2>2. next_attempt \in Nat \ {0} /\ DOMAIN attempts \subseteq 1..(next_attempt - 1)
    BY DEF TypeOK, AttemptsTyped
  <2>3. next_attempt' \in Nat \ {0} /\ DOMAIN attempts' \subseteq 1..(next_attempt' - 1)
    BY <1>1, <2>1, <2>2, SMTT(60)
  <2>4. \A x \in DOMAIN attempts' : attempts'[x] \in AttemptRows
    BY <1>6, <2>1 DEF TypeOK, AttemptsTyped
  <2>5. tickets' \subseteq Tickets
    BY <1>1, <1>5 DEF TypeOK, AttemptsTyped
  <2> QED BY <2>3, <2>4, <2>5 DEF AttemptsTyped
<1>8. SchedulesTyped'
  <2>1. marks \in [1..k -> 0..2] /\ left \in Nat /\ open \in Nat
    <3>1. 1 \in Nat /\ 1 \in 0..2 /\ open \in Nat
      BY <1>3, SMTT(60)
    <3> HIDE DEF sch, k
    <3> QED BY <1>3, <3>1, MinusType, SetRow
  <2>2. row \in ScheduleRows(k) /\ row.entries = sch.entries
    <3> HIDE DEF marks, left, open, sch, k
    <3> QED BY <1>3, <2>1 DEF ScheduleRows
  <2> HIDE DEF row
  <2> QED BY <1>1, <1>2, <2>2, ScheduleKept
<1>9. FlowRowsTyped'
  <2>1. "Dispatched" \in Lifecycles /\ lifecycle[e.flow] # "Absent"
    BY <1>1 DEF Lifecycles
  <2> HIDE DEF e
  <2> QED BY <1>1, <1>2, <1>4, <2>1, SetLifecycle, RowsKept
<1>10. FlowFieldsTyped'
  <2>1. next_attempt \in Nat /\ open_attempt \in [Flows -> Nat]
    BY DEF TypeOK, FlowFieldsTyped, AttemptsTyped
  <2> HIDE DEF e
  <2>2. open_attempt' \in [Flows -> Nat]
    BY <1>1, <2>1, SetRow
  <2> QED BY <1>2, <2>2 DEF TypeOK, FlowFieldsTyped
<1>11. AuthorityTyped'
  BY TouchType DEF begin_dispatch
<1> QED BY <1>2, <1>7, <1>8, <1>9, <1>10, <1>11, Frame DEF TypeOK

\* complete commits evidence: credit is a natural number and the lifecycle
\* it leads to is one of the enumeration.
LEMMA CompleteType ==
    ASSUME TypeOK, AuthorityExclusive, NEW ev \in Evidence, NEW now \in Readings,
           complete(ev, now)
    PROVE  TypeOK'
<1> DEFINE a == ev.attempt
           f == ev.ticket.entry.flow
           t == attempts[a].ticket
           l == LifecycleAfter(ev, now)
           row == [attempts[a] EXCEPT !.state = "Committed", !.evidence = <<ev>>]
<1>1. NamesAttempt(ev) /\ StillOpen(ev)
  BY DEF complete
<1>2. /\ a \in DOMAIN attempts /\ t.entry.flow = f /\ lifecycle[f] # "Absent"
      /\ ~is_attempt_terminal(attempts[a].state)
  BY <1>1 DEF NamesAttempt, StillOpen
<1>3. f \in Flows /\ t.entry.resource \in Resources /\ t.entry.quantum \in Nat
      /\ attempts[a] \in AttemptRows
  BY <1>2, AttemptRow
<1>4. /\ attempts' = [attempts EXCEPT ![a] = row]
      /\ schedules' = [schedules EXCEPT ![t.schedule].open_attempts = Minus(@, 1)]
      /\ outstanding' = [outstanding EXCEPT ![f] = Minus(@, t.entry.quantum)]
      /\ open_attempt' = [open_attempt EXCEPT ![f] = NoAttempt]
      /\ scheduled' = [scheduled EXCEPT ![f] = NoSlot]
      /\ in_flight' = [in_flight EXCEPT ![t.entry.resource] = Minus(@, 1)]
      /\ served_work' = [served_work EXCEPT ![f] = @ + Credit(ev)]
      /\ lifecycle' = normalize_transient_states([lifecycle EXCEPT ![f] = l])
  BY DEF complete
<1>5. /\ UNCHANGED <<authorityVars, resource, reserved, interval_index, reservationVars,
                     flow, missed, next_schedule, next_attempt, tickets, preemptions, round>>
      /\ reserved' \in [Resources -> Nat] /\ interval_index' \in [Resources -> Int]
  BY DEF complete, TypeOK, ResourcesTyped
<1>6. ev \in Reports
  BY EvidenceType
<1>7. AttemptsTyped'
  <2>1. <<ev>> \in Seq(Reports) /\ "Committed" \in AttemptStates
    BY <1>6, SMTT(60) DEF AttemptStates
  <2>2. row \in AttemptRows
    BY <1>3, <2>1 DEF AttemptRows
  <2> HIDE DEF row, a
  <2>3. /\ DOMAIN attempts' = DOMAIN attempts
        /\ \A x \in DOMAIN attempts : attempts'[x] \in AttemptRows
    BY <1>4, <2>2 DEF TypeOK, AttemptsTyped
  <2> QED BY <1>5, <2>3 DEF TypeOK, AttemptsTyped
<1>8. Credit(ev) \in Nat
  BY <1>6 DEF Credit, Reports
<1>9. /\ outstanding' \in [Flows -> Nat] /\ in_flight' \in [Resources -> Nat]
      /\ served_work' \in [Flows -> Nat] /\ scheduled' \in [Flows -> Nat \X Nat]
  <2> DEFINE q == t.entry.quantum
             r == t.entry.resource
             c == Credit(ev)
  <2>1. f \in Flows /\ q \in Nat /\ r \in Resources /\ c \in Nat /\ 1 \in Nat
    BY <1>3, <1>8
  <2> HIDE DEF f, q, r, c
  <2>2. [outstanding EXCEPT ![f] = Minus(@, q)] \in [Flows -> Nat]
    BY <2>1, CountRow DEF TypeOK, FlowFieldsTyped
  <2>3. [in_flight EXCEPT ![r] = Minus(@, 1)] \in [Resources -> Nat]
    BY <2>1, CountRow DEF TypeOK, ResourcesTyped
  <2>4. [served_work EXCEPT ![f] = @ + c] \in [Flows -> Nat]
    BY <2>1, CountRow DEF TypeOK, FlowFieldsTyped
  <2>5. [scheduled EXCEPT ![f] = NoSlot] \in [Flows -> Nat \X Nat]
    BY DEF TypeOK, FlowFieldsTyped, NoSlot
  <2> QED BY <1>4, <2>2, <2>3, <2>4, <2>5 DEF q, r, c
<1>10. lifecycle' \in Table /\ SameRows(lifecycle')
  <2>1. l \in {"Failed", "Completed", "Ready", "Waiting"}
    BY DEF LifecycleAfter
  <2>2. l \in Lifecycles
    BY <2>1 DEF Lifecycles
  <2> HIDE DEF l, f
  <2> QED BY <1>2, <1>3, <1>4, <2>2, SetLifecycle
<1>11. AuthorityTyped'
  BY TouchType DEF complete
<1> HIDE DEF f, t, l, row, a
<1>12. ResourcesTyped' /\ ReservationsTyped' /\ FlowRowsTyped' /\ FlowFieldsTyped'
       /\ SchedulesTyped'
  BY <1>3, <1>4, <1>5, <1>9, <1>10, ClosedType
<1> QED BY <1>5, <1>7, <1>11, <1>12 DEF TypeOK

\* advance_epoch clears the schedules, the attempts and every counter.
LEMMA EpochType == TypeOK /\ AuthorityExclusive /\ advance_epoch => TypeOK'
<1> SUFFICES ASSUME TypeOK, AuthorityExclusive, advance_epoch PROVE TypeOK'
    OBVIOUS
<1> DEFINE t == [f \in Flows |->
                   IF open_attempt[f] \in LiveAttempts THEN "Ambiguous"
                   ELSE IF lifecycle[f] = "Scheduled" THEN "Ready" ELSE lifecycle[f]]
<1>1. lifecycle' \in Table /\ SameRows(lifecycle') /\ flow' = flow
  <2>1. lifecycle' = normalize_transient_states(t) /\ flow' = flow
    BY DEF advance_epoch
  <2>2. \A f \in Flows : open_attempt[f] \in LiveAttempts => lifecycle[f] # "Absent"
    <3> SUFFICES ASSUME NEW f \in Flows, open_attempt[f] \in LiveAttempts
                 PROVE  lifecycle[f] # "Absent"
      OBVIOUS
    <3>1. open_attempt[f] # NoAttempt
      BY LiveAttempt
    <3> QED BY <3>1, NamedAttempt
  <2>3. lifecycle \in Table
    BY LifecycleTable
  <2>4. t \in Table /\ SameRows(t)
    BY <2>2, <2>3 DEF Table, SameRows, Lifecycles
  <2> HIDE DEF t
  <2> QED BY <2>1, <2>4, NormalizeTable DEF SameRows
<1>2. FlowRowsTyped'
  BY <1>1, RowsKept
<1>3. FlowFieldsTyped'
  <2>1. /\ open_attempt' = [f \in Flows |->
              IF open_attempt[f] \in LiveAttempts THEN NoAttempt ELSE open_attempt[f]]
        /\ outstanding' = [f \in Flows |-> 0]
        /\ scheduled' = [f \in Flows |-> NoSlot]
        /\ served_work' = served_work /\ missed' = missed
    BY DEF advance_epoch
  <2> QED BY <2>1 DEF TypeOK, FlowFieldsTyped, NoAttempt, NoSlot
<1>4. AuthorityTyped'
  BY SMTT(60) DEF advance_epoch, TypeOK, AuthorityTyped
<1>5. ResourcesTyped'
  <2>1. in_flight' \in [Resources -> Nat] /\ UNCHANGED <<resource, reserved, interval_index>>
    BY DEF advance_epoch
  <2> QED BY <2>1 DEF TypeOK, ResourcesTyped
<1>6. /\ attempts' = <<>> /\ schedules' = <<>>
      /\ UNCHANGED <<next_schedule, next_attempt, tickets, round, reservationVars>>
      /\ preemptions' \in [window : Nat, count : Nat]
  BY DEF advance_epoch
<1>7. SchedulesTyped' /\ AttemptsTyped'
  BY <1>6, SMTT(60) DEF TypeOK, SchedulesTyped, AttemptsTyped
<1> QED BY <1>2, <1>3, <1>4, <1>5, <1>6, <1>7, Frame DEF TypeOK

\* release_schedule releases every undelivered entry of one schedule.
LEMMA ReleaseScheduleType ==
    ASSUME TypeOK, NEW s \in DOMAIN schedules, release_schedule(s)
    PROVE  TypeOK'
<1> DEFINE I == DOMAIN schedules[s].entries
           t == normalize_transient_states(Released(s, I))
<1>1. /\ release_run_entries(s, I, t)
      /\ UNCHANGED <<authorityVars, last_tick, resource, reserved, interval_index,
                     reservationVars, flow, served_work, open_attempt, missed, attempts,
                     next_schedule, next_attempt, tickets, preemptions, round>>
  BY DEF release_schedule
<1>2. t \in Table /\ SameRows(t)
  BY ReleasedTable
<1> HIDE DEF t, I
<1>3. /\ SchedulesTyped'
      /\ outstanding' \in [Flows -> Nat]
      /\ scheduled' \in [Flows -> Nat \X Nat]
      /\ in_flight' \in [Resources -> Nat]
      /\ lifecycle' = t
  BY <1>1, ReleaseType
<1>4. FlowRowsTyped'
  BY <1>1, <1>2, <1>3, RowsKept
<1>5. FlowFieldsTyped'
  BY <1>1, <1>3 DEF TypeOK, FlowFieldsTyped
<1>6. ResourcesTyped'
  BY <1>1, <1>3 DEF TypeOK, ResourcesTyped
<1> QED BY <1>1, <1>3, <1>4, <1>5, <1>6, Frame DEF TypeOK

-----------------------------------------------------------------------------
(***************************************************************************)
(* The steps of a round                                                    *)
(***************************************************************************)

\* The schedules when a step of the round leaves them alone.
LEMMA SchedulesFrame ==
    ASSUME TypeOK, UNCHANGED <<schedules, next_schedule>>,
           (round'.phase = "Issue" /\ round'.entries # <<>>) <=>
              (round.phase = "Issue" /\ round.entries # <<>>)
    PROVE  SchedulesTyped'
BY DEF TypeOK, SchedulesTyped

\* arbitrate refuses a tick, or begins a round.
LEMMA BeginRoundType ==
    ASSUME TypeOK, NEW now \in Readings, Refused(now) \/ RoundBegin(now)
    PROVE  TypeOK'
<1>1. CASE Refused(now)
  <2>1. AuthorityTyped'
    BY <1>1, TouchType DEF Refused
  <2> QED BY <1>1, <2>1, Frame DEF TypeOK, Refused
<1>2. CASE RoundBegin(now)
  <2>1. now \in Nat
    BY IdentityAssumption, SMTT(60) DEF Readings, Ticks
  <2>2. /\ round.phase = "Idle" /\ last_tick' = now
        /\ round' = [IdleRound EXCEPT !.phase = "Reclaim", !.now = now]
        /\ UNCHANGED <<authorityVars, resourceVars, reservationVars, flowVars,
                       dispatchVars, preemptions>>
    BY <1>2 DEF RoundBegin, Idle
  <2>3. AuthorityTyped'
    BY <2>1, <2>2 DEF TypeOK, AuthorityTyped
  <2>4. round' \in Rounds /\ round'.phase = "Reclaim"
    <3>1. "Reclaim" \in {"Idle", "Reclaim", "Refresh", "Overdue", "Assign", "Issue"}
      OBVIOUS
    <3> QED BY <2>1, <2>2, <3>1, IdleType DEF Rounds
  <2>5. SchedulesTyped'
    BY <2>2, <2>4, SchedulesFrame
  <2> QED BY <2>2, <2>3, <2>4, <2>5, Frame DEF TypeOK
<1> QED BY <1>1, <1>2

\* A refused append ends the round.
LEMMA AbortType ==
    ASSUME TypeOK, RoundAborted
    PROVE  TypeOK'
<1>1. /\ round.phase # "Issue" /\ round' = IdleRound
      /\ UNCHANGED <<authorityVars, last_tick, resourceVars, reservationVars, flowVars,
                     dispatchVars, preemptions>>
  BY DEF RoundAborted
<1>2. round' \in Rounds /\ round'.phase = "Idle"
  BY <1>1, IdleType
<1>3. SchedulesTyped'
  BY <1>1, <1>2, SchedulesFrame
<1> QED BY <1>1, <1>2, <1>3, Frame DEF TypeOK

\* One schedule whose delivery horizon has passed is reclaimed.
LEMMA ReclaimType ==
    ASSUME TypeOK, NEW s \in DOMAIN schedules, RoundReclaim(s)
    PROVE  TypeOK'
<1> DEFINE I == DOMAIN schedules[s].entries
           t == Released(s, I)
<1>1. /\ release_run_entries(s, I, t)
      /\ UNCHANGED <<authorityVars, last_tick, resource, reserved, interval_index,
                     reservationVars, flow, served_work, open_attempt, missed, attempts,
                     next_schedule, next_attempt, tickets, preemptions, round>>
  BY DEF RoundReclaim
<1>2. t \in Table /\ SameRows(t)
  BY ReleasedTable
<1> HIDE DEF t, I
<1>3. /\ SchedulesTyped'
      /\ outstanding' \in [Flows -> Nat]
      /\ scheduled' \in [Flows -> Nat \X Nat]
      /\ in_flight' \in [Resources -> Nat]
      /\ lifecycle' = t
  BY <1>1, ReleaseType
<1>4. FlowRowsTyped'
  BY <1>1, <1>2, <1>3, RowsKept
<1>5. FlowFieldsTyped'
  BY <1>1, <1>3 DEF TypeOK, FlowFieldsTyped
<1>6. ResourcesTyped'
  BY <1>1, <1>3 DEF TypeOK, ResourcesTyped
<1> QED BY <1>1, <1>3, <1>4, <1>5, <1>6, Frame DEF TypeOK

\* Reclaiming is over; the flows are refreshed next.
LEMMA ReclaimedType ==
    ASSUME TypeOK, RoundReclaimed
    PROVE  TypeOK'
<1> DEFINE S == {f \in Flows : lifecycle[f] = "Waiting"}
<1>1. /\ round.phase = "Reclaim" /\ Enter("Refresh", S)
      /\ UNCHANGED <<authorityVars, last_tick, resourceVars, reservationVars, flowVars,
                     dispatchVars, preemptions>>
  BY DEF RoundReclaimed
<1>2. S \in SUBSET Flows /\ round \in Rounds
  BY DEF TypeOK
<1> HIDE DEF S
<1>3. round' \in Rounds /\ SchedulesTyped'
  BY <1>1, <1>2, EnterType, SchedulesFrame
<1> QED BY <1>1, <1>3, Frame DEF TypeOK

\* One flow is moved between Waiting and Ready, or counted as missed.
LEMMA RefreshType ==
    ASSUME TypeOK, CandidatesSettled, NEW f \in Flows, RoundRefresh(f)
    PROVE  TypeOK'
<1> DEFINE reason == derived_readiness(f, round.now)
           l == IF reason = "Selected" THEN "Ready" ELSE LapseLifecycle(f, reason)
<1>1. /\ round.phase = "Refresh" /\ f \in round.todo
      /\ lifecycle' = [lifecycle EXCEPT ![f] = l]
      /\ missed' = [missed EXCEPT ![f] = @ \/ reason = "DeadlineMissed"]
      /\ Enter("Refresh", round.todo \ {f})
      /\ UNCHANGED <<authorityVars, last_tick, resourceVars, reservationVars, flow,
                     served_work, outstanding, open_attempt, scheduled, dispatchVars,
                     preemptions>>
  BY DEF RoundRefresh
<1>2. lifecycle[f] = "Waiting"
  BY <1>1 DEF CandidatesSettled
<1> HIDE DEF reason
<1>3. l \in Lifecycles
  BY <1>2, LapseType DEF Lifecycles
<1> HIDE DEF l
<1>4. FlowRowsTyped'
  BY <1>1, <1>2, <1>3, SetLifecycle, RowsKept
<1>5. FlowFieldsTyped'
  BY <1>1 DEF TypeOK, FlowFieldsTyped
<1>6. round \in Rounds /\ round.todo \ {f} \in SUBSET Flows
  BY DEF TypeOK, Rounds
<1>7. round' \in Rounds /\ SchedulesTyped'
  BY <1>1, <1>6, EnterType, SchedulesFrame
<1> QED BY <1>1, <1>4, <1>5, <1>7, Frame DEF TypeOK

\* Refreshing is over; the overdue attempts are stopped next.
LEMMA RefreshedType ==
    ASSUME TypeOK, RoundRefreshed
    PROVE  TypeOK'
<1> DEFINE S == {f \in Overdue : open_attempt[f] # NoAttempt}
<1>1. /\ round.phase = "Refresh" /\ Enter("Overdue", S)
      /\ missed' = [f \in Flows |-> missed[f] \/ f \in Overdue]
      /\ UNCHANGED <<authorityVars, last_tick, resourceVars, reservationVars, lifecycle,
                     flow, served_work, outstanding, open_attempt, scheduled,
                     dispatchVars, preemptions>>
  BY DEF RoundRefreshed
<1>2. S \in SUBSET Flows /\ round \in Rounds
  BY DEF Overdue, TypeOK
<1> HIDE DEF S
<1>3. FlowFieldsTyped'
  BY <1>1 DEF TypeOK, FlowFieldsTyped
<1>4. round' \in Rounds /\ SchedulesTyped'
  BY <1>1, <1>2, EnterType, SchedulesFrame
<1> QED BY <1>1, <1>3, <1>4, Frame DEF TypeOK

\* One overdue attempt is preempted.
LEMMA OverdueType ==
    ASSUME TypeOK, AuthorityExclusive, CandidatesSettled, NEW f \in Flows, RoundOverdue(f)
    PROVE  TypeOK'
<1> DEFINE a == open_attempt[f]
           t == [lifecycle EXCEPT ![f] = "Preempting"]
<1>1. /\ round.phase = "Overdue" /\ f \in round.todo
      /\ apply_attempt_closed(a, "Preempted", t)
      /\ Enter("Overdue", round.todo \ {f})
      /\ UNCHANGED <<authorityVars, last_tick, resource, reserved, interval_index,
                     reservationVars, flow, served_work, scheduled, missed,
                     next_schedule, next_attempt, tickets, preemptions>>
  BY DEF RoundOverdue
<1>2. a # NoAttempt
  BY <1>1 DEF CandidatesSettled
<1>3. a \in LiveAttempts /\ a \in DOMAIN attempts /\ lifecycle[f] # "Absent"
      /\ attempts[a].ticket.entry.flow = f
  BY <1>2, NamedAttempt
<1>4. "Preempting" \in Lifecycles /\ "Preempted" \in AttemptStates
  BY DEF Lifecycles, AttemptStates
<1>5. t \in Table /\ SameRows(t)
  BY <1>3, <1>4, SetLifecycle
<1> HIDE DEF t
<1>6. /\ attempts' = [attempts EXCEPT ![a].state = "Preempted"]
      /\ schedules' = [schedules EXCEPT
            ![attempts[a].ticket.schedule].open_attempts = Minus(@, 1)]
      /\ outstanding' \in [Flows -> Nat]
      /\ open_attempt' = [open_attempt EXCEPT ![f] = NoAttempt]
      /\ in_flight' \in [Resources -> Nat]
      /\ lifecycle' = t
  BY <1>1, <1>3, <1>4, CloseEffect
<1>7. round \in Rounds /\ round.todo \ {f} \in SUBSET Flows
  BY DEF TypeOK, Rounds
<1>8. /\ round' \in Rounds
      /\ (round'.phase = "Issue" /\ round'.entries # <<>>) <=>
            (round.phase = "Issue" /\ round.entries # <<>>)
  BY <1>1, <1>7, EnterType
<1>9. AttemptsTyped'
  BY <1>1, <1>3, <1>4, <1>6, StateType
<1>10. /\ reserved' \in [Resources -> Nat] /\ interval_index' \in [Resources -> Int]
       /\ served_work' \in [Flows -> Nat] /\ scheduled' \in [Flows -> Nat \X Nat]
  BY <1>1 DEF TypeOK, ResourcesTyped, FlowFieldsTyped
<1>11. ResourcesTyped' /\ ReservationsTyped' /\ FlowRowsTyped' /\ FlowFieldsTyped'
       /\ SchedulesTyped'
  BY <1>1, <1>5, <1>6, <1>8, <1>10, ClosedType
<1> QED BY <1>1, <1>8, <1>9, <1>11, Frame DEF TypeOK

\* The ready flows become the candidates of the round.
LEMMA RankType ==
    ASSUME TypeOK, RoundRank
    PROVE  TypeOK'
<1> DEFINE S == {f \in Flows : lifecycle[f] = "Ready"}
           w == round.now \div policy.preemption_interval_ticks
<1>1. /\ round.phase = "Overdue" /\ Enter("Assign", S)
      /\ preemptions' = IF w = preemptions.window THEN preemptions
                        ELSE [window |-> w, count |-> 0]
      /\ UNCHANGED <<authorityVars, last_tick, resourceVars, reservationVars, flowVars,
                     dispatchVars>>
  BY DEF RoundRank
<1>2. S \in SUBSET Flows /\ round \in Rounds
  BY DEF TypeOK
<1>3. w \in Nat
  <2>1. round.now \in Nat /\ policy.preemption_interval_ticks \in Nat
        /\ policy.preemption_interval_ticks > 0
    BY DEF TypeOK, Rounds, AuthorityTyped, Policies, validate_policy
  <2> QED BY <2>1, SMTT(60)
<1> HIDE DEF S, w
<1>4. preemptions' \in [window : Nat, count : Nat]
  BY <1>1, <1>3 DEF TypeOK
<1>5. round' \in Rounds /\ SchedulesTyped'
  BY <1>1, <1>2, EnterType, SchedulesFrame
<1> QED BY <1>1, <1>4, <1>5, Frame DEF TypeOK

\* A candidate whose deadline has passed fails or waits.
LEMMA RoundLapseType ==
    ASSUME TypeOK, CandidatesSettled, NEW f \in Flows, RoundLapse(f)
    PROVE  TypeOK'
<1> DEFINE reason == derived_readiness(f, round.now)
           l == LapseLifecycle(f, reason)
<1>1. /\ round.phase = "Assign" /\ f \in round.todo
      /\ lifecycle' = [lifecycle EXCEPT ![f] = l]
      /\ missed' = [missed EXCEPT ![f] = @ \/ reason = "DeadlineMissed"]
      /\ Enter("Assign", round.todo \ {f})
      /\ UNCHANGED <<authorityVars, last_tick, resourceVars, reservationVars, flow,
                     served_work, outstanding, open_attempt, scheduled, dispatchVars,
                     preemptions>>
  BY DEF RoundLapse, Candidate
<1>2. lifecycle[f] = "Ready"
  BY <1>1 DEF CandidatesSettled
<1> HIDE DEF reason
<1>3. l \in Lifecycles
  BY <1>2, LapseType
<1> HIDE DEF l
<1>4. FlowRowsTyped'
  BY <1>1, <1>2, <1>3, SetLifecycle, RowsKept
<1>5. FlowFieldsTyped'
  BY <1>1 DEF TypeOK, FlowFieldsTyped
<1>6. round \in Rounds /\ round.todo \ {f} \in SUBSET Flows
  BY DEF TypeOK, Rounds
<1>7. round' \in Rounds /\ SchedulesTyped'
  BY <1>1, <1>6, EnterType, SchedulesFrame
<1> QED BY <1>1, <1>4, <1>5, <1>7, Frame DEF TypeOK

\* A candidate that cannot be placed gets no entry.
LEMMA SkipType ==
    ASSUME TypeOK, NEW f \in Flows, RoundSkip(f)
    PROVE  TypeOK'
<1>1. /\ round.phase = "Assign" /\ Enter("Assign", round.todo \ {f})
      /\ UNCHANGED <<authorityVars, last_tick, resourceVars, reservationVars, flowVars,
                     dispatchVars, preemptions>>
  BY DEF RoundSkip, Candidate
<1>2. round \in Rounds /\ round.todo \ {f} \in SUBSET Flows
  BY DEF TypeOK, Rounds
<1>3. round' \in Rounds /\ SchedulesTyped'
  BY <1>1, <1>2, EnterType, SchedulesFrame
<1> QED BY <1>1, <1>3, Frame DEF TypeOK

\* roll_interval keeps the resources typed.
LEMMA RollType ==
    ASSUME TypeOK, NEW r \in Resources, resource[r] \in ResourceDescriptors,
           validate_resource(resource[r]), roll_interval(r)
    PROVE  interval_index' \in [Resources -> Int] /\ reserved' \in [Resources -> Nat]
<1>1. round.now \in Nat /\ resource[r].interval \in Nat /\ resource[r].interval > 0
  BY DEF TypeOK, Rounds, ResourceDescriptors, validate_resource
<1> DEFINE w == round.now \div resource[r].interval
           n == RolledReserved(r)
<1>2. w \in Int
  BY <1>1, SMTT(60)
<1>3. n \in Nat
  BY DEF RolledReserved, TypeOK, ResourcesTyped
<1>4. interval_index' = [interval_index EXCEPT ![r] = w] /\ reserved' = [reserved EXCEPT ![r] = n]
  BY DEF roll_interval
<1> HIDE DEF w, n
<1> QED BY <1>2, <1>3, <1>4 DEF TypeOK, ResourcesTyped

\* A candidate is placed: one entry, its capacity and its reservation.
LEMMA GrantType ==
    ASSUME TypeOK, CandidatesSettled, NEW f \in Flows, RoundGrant(f)
    PROVE  TypeOK' /\ round'.phase = "Assign" /\ round'.todo = round.todo \ {f}
<1> DEFINE r == flow[f].resource
<1>1. /\ Candidate(f) /\ derived_readiness(f, round.now) = "Selected" /\ Placeable(f)
      /\ roll_interval(r) /\ Place(f, round.entries)
      /\ UNCHANGED <<authorityVars, last_tick, resource, in_flight, reservationVars,
                     flowVars, dispatchVars, preemptions>>
  BY DEF RoundGrant
<1>2. /\ r \in Resources /\ resource[r] \in ResourceDescriptors /\ validate_resource(resource[r])
      /\ round.phase = "Assign"
  BY <1>1, CandidateRow
<1>3. ResourcesTyped'
  <2>1. interval_index' \in [Resources -> Int] /\ reserved' \in [Resources -> Nat]
    BY <1>1, <1>2, RollType
  <2> QED BY <1>1, <2>1 DEF TypeOK, ResourcesTyped
<1>4. round.entries \in Seq(Entries)
  BY DEF TypeOK, Rounds
<1>5. round' \in Rounds /\ round'.phase = "Assign" /\ round'.todo = round.todo \ {f}
  BY <1>1, <1>4, PlaceType
<1>6. SchedulesTyped'
  BY <1>1, <1>2, <1>5, SchedulesFrame
<1> QED BY <1>1, <1>3, <1>5, <1>6, Frame DEF TypeOK

\* The ceiling is reached and nothing may be displaced.
LEMMA BlockedType ==
    ASSUME TypeOK, CandidatesSettled, NEW f \in Flows, RoundBlocked(f)
    PROVE  TypeOK'
<1> DEFINE r == flow[f].resource
<1>1. /\ Candidate(f) /\ Placeable(f) /\ roll_interval(r)
      /\ Enter("Assign", round.todo \ {f}) \/ round' = IdleRound
      /\ UNCHANGED <<authorityVars, last_tick, resource, in_flight, reservationVars,
                     flowVars, dispatchVars, preemptions>>
  BY DEF RoundBlocked
<1>2. /\ r \in Resources /\ resource[r] \in ResourceDescriptors /\ validate_resource(resource[r])
      /\ round.phase = "Assign"
  BY <1>1, CandidateRow
<1>3. ResourcesTyped'
  <2>1. interval_index' \in [Resources -> Int] /\ reserved' \in [Resources -> Nat]
    BY <1>1, <1>2, RollType
  <2> QED BY <1>1, <2>1 DEF TypeOK, ResourcesTyped
<1>4. round \in Rounds /\ round.todo \ {f} \in SUBSET Flows
  BY DEF TypeOK, Rounds
<1>5. round' \in Rounds /\ round'.phase # "Issue"
  <2>1. CASE Enter("Assign", round.todo \ {f})
    BY <1>2, <1>4, <2>1, EnterType
  <2>2. CASE round' = IdleRound
    BY <2>2, IdleType
  <2> QED BY <1>1, <2>1, <2>2
<1>6. SchedulesTyped'
  BY <1>1, <1>2, <1>5, SchedulesFrame
<1> QED BY <1>1, <1>3, <1>5, <1>6, Frame DEF TypeOK

\* An incumbent is preempted and the candidate takes its place.
LEMMA DisplaceType ==
    ASSUME TypeOK, AuthorityExclusive, CandidatesSettled, NEW f \in Flows, NEW v \in Flows,
           RoundDisplace(f, v)
    PROVE  TypeOK' /\ round'.phase = "Assign" /\ round'.todo = round.todo \ {f}
<1> DEFINE r == flow[f].resource
           a == open_attempt[v]
           t == [lifecycle EXCEPT ![v] = "Preempting"]
           stop == [attempts[a].ticket.entry EXCEPT !.kind = "Preempt"]
<1>1. /\ Candidate(f) /\ derived_readiness(f, round.now) = "Selected" /\ Placeable(f)
      /\ v \in Incumbents(r)
      /\ roll_interval(r)
      /\ apply_attempt_closed(a, "Preempted", t)
      /\ preemptions' = [preemptions EXCEPT !.count = @ + 1]
      /\ Place(f, Append(round.entries, stop))
      /\ UNCHANGED <<authorityVars, last_tick, resource, reservationVars, flow,
                     served_work, scheduled, missed, next_schedule, next_attempt, tickets>>
  BY DEF RoundDisplace
<1>2. /\ r \in Resources /\ resource[r] \in ResourceDescriptors /\ validate_resource(resource[r])
      /\ round.phase = "Assign"
  BY <1>1, CandidateRow
<1>3. a # NoAttempt
  BY <1>1 DEF Incumbents
<1>4. a \in LiveAttempts /\ a \in DOMAIN attempts /\ lifecycle[v] # "Absent"
      /\ attempts[a].ticket.entry.flow = v
  BY <1>3, NamedAttempt
<1>5. "Preempting" \in Lifecycles /\ "Preempted" \in AttemptStates
  BY DEF Lifecycles, AttemptStates
<1>6. t \in Table /\ SameRows(t)
  BY <1>4, <1>5, SetLifecycle
<1>7. Append(round.entries, stop) \in Seq(Entries)
  <2>1. attempts[a].ticket.entry \in Entries
    BY <1>4, AttemptRow
  <2>2. "Preempt" \in {"Run", "Preempt"}
    OBVIOUS
  <2>3. stop \in Entries
    BY <2>1, <2>2 DEF Entries
  <2> HIDE DEF stop
  <2> QED BY <2>3, SMTT(60) DEF TypeOK, Rounds
<1> HIDE DEF stop, t
<1>8. round' \in Rounds /\ round'.phase = "Assign" /\ round'.todo = round.todo \ {f}
  BY <1>1, <1>7, PlaceType
<1>9. interval_index' \in [Resources -> Int] /\ reserved' \in [Resources -> Nat]
  BY <1>1, <1>2, RollType
<1>10. /\ attempts' = [attempts EXCEPT ![a].state = "Preempted"]
       /\ schedules' = [schedules EXCEPT
             ![attempts[a].ticket.schedule].open_attempts = Minus(@, 1)]
       /\ outstanding' \in [Flows -> Nat]
       /\ open_attempt' = [open_attempt EXCEPT ![v] = NoAttempt]
       /\ in_flight' \in [Resources -> Nat]
       /\ lifecycle' = t
  BY <1>1, <1>4, <1>5, CloseEffect
<1>11. AttemptsTyped'
  BY <1>1, <1>4, <1>5, <1>10, StateType
<1>12. served_work' \in [Flows -> Nat] /\ scheduled' \in [Flows -> Nat \X Nat]
  BY <1>1 DEF TypeOK, FlowFieldsTyped
<1>13. ~(round'.phase = "Issue" /\ round'.entries # <<>>)
       /\ ~(round.phase = "Issue" /\ round.entries # <<>>)
  BY <1>2, <1>8
<1>14. ResourcesTyped' /\ ReservationsTyped' /\ FlowRowsTyped' /\ FlowFieldsTyped'
       /\ SchedulesTyped'
  BY <1>1, <1>6, <1>9, <1>10, <1>12, <1>13, ClosedType
<1>15. preemptions' \in [window : Nat, count : Nat]
  BY <1>1, SMTT(60) DEF TypeOK
<1> QED BY <1>1, <1>8, <1>11, <1>14, <1>15, Frame DEF TypeOK

\* The round turns to issuing its schedule under the next identity.
LEMMA IssueType ==
    ASSUME TypeOK, RoundIssue
    PROVE  TypeOK'
<1> DEFINE n == Len(round.entries)
           marks == [i \in DOMAIN round.entries |-> 0]
           issued == [epoch |-> epoch, policy |-> PolicyBinding, at_tick |-> round.now,
                      entries |-> round.entries, consumed |-> marks,
                      open_attempts |-> 0, pending_entries |-> 0]
<1>1. /\ round.phase = "Assign"
      /\ schedules' = IF round.entries = <<>> THEN schedules
                      ELSE With(schedules, next_schedule, issued)
      /\ round' = [round EXCEPT !.phase = "Issue", !.next = 1]
      /\ UNCHANGED <<authorityVars, last_tick, resourceVars, reservationVars, flowVars,
                     attempts, next_schedule, next_attempt, tickets, preemptions>>
  BY DEF RoundIssue
<1>2. round' \in Rounds /\ round'.phase = "Issue" /\ round'.entries = round.entries
  <2>1. /\ "Issue" \in {"Idle", "Reclaim", "Refresh", "Overdue", "Assign", "Issue"}
        /\ 1 \in Nat \ {0}
    BY SMTT(60)
  <2> QED BY <1>1, <2>1 DEF TypeOK, Rounds
<1>3. issued \in ScheduleRows(n)
  <2>1. round.entries \in Seq(Entries) /\ round.now \in Nat
    BY DEF TypeOK, Rounds
  <2>2. round.entries \in [1..n -> Entries] /\ marks \in [1..n -> 0..2] /\ 0 \in Nat
    BY <2>1, SMTT(60)
  <2>3. PolicyBinding \in Bindings /\ epoch \in Nat
    BY DEF PolicyBinding, Bindings, TypeOK, AuthorityTyped, Policies
  <2> HIDE DEF marks, n
  <2> QED BY <2>1, <2>2, <2>3 DEF ScheduleRows
<1>4. issued.entries = round.entries
  OBVIOUS
<1> HIDE DEF issued
<1>5. SchedulesTyped'
  <2>1. CASE round.entries = <<>>
    BY <1>1, <1>2, <2>1, SchedulesFrame
  <2>2. CASE round.entries # <<>>
    <3>1. /\ DOMAIN schedules' = DOMAIN schedules \cup {next_schedule}
          /\ \A x \in DOMAIN schedules' :
                schedules'[x] = IF x = next_schedule THEN issued ELSE schedules[x]
      BY <1>1, <2>2 DEF With
    <3>2. next_schedule \in Nat \ {0} /\ DOMAIN schedules \subseteq 1..(next_schedule - 1)
      BY <1>1 DEF TypeOK, SchedulesTyped
    <3>3. DOMAIN schedules' \subseteq 1..next_schedule'
      BY <1>1, <3>1, <3>2, SMTT(60)
    <3>4. \A x \in DOMAIN schedules' : schedules'[x] \in ScheduleRows(Len(schedules'[x].entries))
      BY <1>3, <1>4, <3>1 DEF TypeOK, SchedulesTyped
    <3> QED BY <1>1, <1>2, <2>2, <3>2, <3>3, <3>4 DEF SchedulesTyped
  <2> QED BY <2>1, <2>2
<1> QED BY <1>1, <1>2, <1>5, Frame DEF TypeOK

\* One entry of the issued schedule is applied to its flow.
LEMMA AssignType ==
    ASSUME TypeOK, NEW e \in Entries, Applies(e), Assign(e),
           UNCHANGED <<resource, interval_index, reservation, flow, served_work, open_attempt,
                       missed, next_schedule>>,
           (round'.phase = "Issue" /\ round'.entries # <<>>) <=>
              (round.phase = "Issue" /\ round.entries # <<>>)
    PROVE  /\ ResourcesTyped' /\ ReservationsTyped' /\ FlowRowsTyped' /\ FlowFieldsTyped'
           /\ SchedulesTyped'
           /\ DOMAIN schedules' = DOMAIN schedules
           /\ \A x \in DOMAIN schedules :
                 schedules'[x].open_attempts = schedules[x].open_attempts
<1> DEFINE f == e.flow
           r == e.resource
           q == e.quantum
           s == next_schedule
           p == schedules[s].pending_entries + 1
           k == Len(schedules[s].entries)
           row == [schedules[s] EXCEPT !.pending_entries = p]
<1>1. f \in Flows /\ r \in Resources /\ q \in Nat
  BY DEF Entries
<1>2. /\ outstanding' = [outstanding EXCEPT ![f] = @ + q]
      /\ scheduled' = [scheduled EXCEPT ![f] = <<s, round.next>>]
      /\ lifecycle' = [lifecycle EXCEPT ![f] = "Scheduled"]
      /\ schedules' = [schedules EXCEPT ![s] = row]
      /\ IF resource[r].generation = e.resource_generation
         THEN /\ reserved' = [reserved EXCEPT ![r] = @ + q]
              /\ in_flight' = [in_flight EXCEPT ![r] = @ + 1]
         ELSE UNCHANGED <<reserved, in_flight>>
      /\ reserved_units' = [v \in Reservations |->
             IF v = e.reservation /\ reservation[v].generation = e.reservation_generation
             THEN reserved_units[v] + q ELSE reserved_units[v]]
  BY DEF Assign
<1>3. ASSUME s \in DOMAIN schedules
      PROVE  row \in ScheduleRows(k) /\ row.entries = schedules[s].entries
             /\ row.open_attempts = schedules[s].open_attempts
  <2>1. schedules[s] \in ScheduleRows(k) /\ schedules[s].pending_entries \in Nat
    BY <1>3, ScheduleRow
  <2>2. p \in Nat
    BY <2>1, SMTT(60)
  <2> HIDE DEF p, k
  <2> QED BY <2>1, <2>2 DEF ScheduleRows
<1> HIDE DEF row
<1>4. SchedulesTyped'
  BY <1>2, <1>3, ScheduleKept
<1>5. /\ DOMAIN schedules' = DOMAIN schedules
      /\ \A x \in DOMAIN schedules : schedules'[x] = IF x = s THEN row ELSE schedules[x]
  BY <1>2
<1>6. \A x \in DOMAIN schedules : schedules'[x].open_attempts = schedules[x].open_attempts
  BY <1>3, <1>5
<1>7. s \in Nat /\ round.next \in Nat
  BY DEF TypeOK, SchedulesTyped, Rounds
<1> HIDE DEF f, r, q, s
<1>8. FlowFieldsTyped'
  <2>1. outstanding \in [Flows -> Nat] /\ scheduled \in [Flows -> Nat \X Nat]
    BY DEF TypeOK, FlowFieldsTyped
  <2>2. outstanding' \in [Flows -> Nat]
    BY <1>1, <1>2, <2>1, CountRow
  <2>3. <<s, round.next>> \in Nat \X Nat
    BY <1>7
  <2>4. scheduled' \in [Flows -> Nat \X Nat]
    BY <1>2, <2>1, <2>3, SetRow
  <2> QED BY <2>2, <2>4 DEF TypeOK, FlowFieldsTyped
<1>9. FlowRowsTyped'
  <2>1. lifecycle[f] # "Absent" /\ "Scheduled" \in Lifecycles
    BY DEF Applies, Lifecycles, f
  <2>2. lifecycle' \in Table /\ SameRows(lifecycle')
    BY <1>1, <1>2, <2>1, SetLifecycle
  <2> QED BY <2>2, RowsKept
<1>10. ResourcesTyped'
  <2>1. reserved \in [Resources -> Nat] /\ in_flight \in [Resources -> Nat] /\ 1 \in Nat
    BY DEF TypeOK, ResourcesTyped
  <2>2. [reserved EXCEPT ![r] = @ + q] \in [Resources -> Nat]
    BY <1>1, <2>1, CountRow
  <2>3. [in_flight EXCEPT ![r] = @ + 1] \in [Resources -> Nat]
    BY <1>1, <2>1, CountRow
  <2>4. reserved' \in [Resources -> Nat] /\ in_flight' \in [Resources -> Nat]
    BY <1>2, <2>1, <2>2, <2>3
  <2> QED BY <2>4 DEF TypeOK, ResourcesTyped
<1>11. ReservationsTyped'
  <2>1. reserved_units \in [Reservations -> Nat]
    BY DEF TypeOK, ReservationsTyped
  <2>2. reserved_units' \in [Reservations -> Nat]
    BY <1>1, <1>2, <2>1, SMTT(60)
  <2> QED BY <2>2 DEF TypeOK, ReservationsTyped
<1> QED BY <1>4, <1>5, <1>6, <1>8, <1>9, <1>10, <1>11

\* apply_schedule goes on to the next entry.
LEMMA ApplyType ==
    ASSUME TypeOK, RoundApply
    PROVE  /\ TypeOK'
           /\ DOMAIN schedules' = DOMAIN schedules
           /\ \A x \in DOMAIN schedules :
                 schedules'[x].open_attempts = schedules[x].open_attempts
<1> DEFINE e == round.entries[round.next]
<1>1. /\ round.next <= Len(round.entries)
      /\ IF Applies(e) THEN Assign(e)
         ELSE UNCHANGED <<outstanding, scheduled, lifecycle, schedules, reserved,
                          in_flight, reserved_units>>
      /\ round' = [round EXCEPT !.next = @ + 1]
      /\ UNCHANGED <<authorityVars, last_tick, resource, interval_index, reservation,
                     flow, served_work, open_attempt, missed, attempts,
                     next_schedule, next_attempt, tickets, preemptions>>
  BY DEF RoundApply
<1>2. round.entries \in Seq(Entries) /\ round.next \in Nat \ {0}
  BY DEF TypeOK, Rounds
<1>3. e \in Entries
  BY <1>1, <1>2, SMTT(60)
<1>4. round' \in Rounds /\ round'.phase = round.phase /\ round'.entries = round.entries
  <2> DEFINE n == round.next + 1
  <2>1. n \in Nat \ {0}
    BY <1>2, SMTT(60)
  <2>2. round' = [round EXCEPT !.next = n]
    BY <1>1
  <2> HIDE DEF n
  <2> QED BY <2>1, <2>2 DEF TypeOK, Rounds
<1> HIDE DEF e
<1>5. CASE Applies(e)
  <2>1. /\ ResourcesTyped' /\ ReservationsTyped' /\ FlowRowsTyped' /\ FlowFieldsTyped'
        /\ SchedulesTyped'
        /\ DOMAIN schedules' = DOMAIN schedules
        /\ \A x \in DOMAIN schedules :
              schedules'[x].open_attempts = schedules[x].open_attempts
    BY <1>1, <1>3, <1>4, <1>5, AssignType
  <2> QED BY <1>1, <1>4, <2>1, Frame DEF TypeOK
<1>6. CASE ~Applies(e)
  <2>1. SchedulesTyped'
    BY <1>1, <1>4, <1>6, SchedulesFrame
  <2> QED BY <1>1, <1>4, <1>6, <2>1, Frame DEF TypeOK
<1> QED BY <1>5, <1>6

\* The round ends: old schedules are retired and transient states normalised.
LEMMA FinishType ==
    ASSUME TypeOK, RoundFinish
    PROVE  TypeOK'
<1> DEFINE S == Retired(schedules)
           A == {a \in DOMAIN attempts : attempts[a].ticket.schedule \in S}
<1>1. /\ round.phase = "Issue"
      /\ lifecycle' = normalize_transient_states(lifecycle)
      /\ schedules' = Without(schedules, S)
      /\ attempts' = Without(attempts, A)
      /\ next_schedule' = IF round.entries = <<>> THEN next_schedule ELSE next_schedule + 1
      /\ round' = IdleRound
      /\ UNCHANGED <<authorityVars, last_tick, resourceVars, reservationVars, flow,
                     served_work, outstanding, open_attempt, scheduled, missed,
                     next_attempt, tickets, preemptions>>
  BY DEF RoundFinish
<1>2. lifecycle' \in Table /\ SameRows(lifecycle')
  BY <1>1, LifecycleTable, NormalizeTable, SMTT(60) DEF SameRows
<1>3. FlowRowsTyped'
  BY <1>1, <1>2, RowsKept
<1>4. round' \in Rounds /\ round'.phase = "Idle"
  BY <1>1, IdleType
<1> HIDE DEF S, A
<1>5. SchedulesTyped'
  <2>1. /\ DOMAIN schedules' \subseteq DOMAIN schedules
        /\ \A x \in DOMAIN schedules' : schedules'[x] = schedules[x]
    BY <1>1 DEF Without
  <2>2. next_schedule' \in Nat \ {0} /\ DOMAIN schedules \subseteq 1..(next_schedule' - 1)
    BY <1>1, SMTT(60) DEF TypeOK, SchedulesTyped
  <2>3. \A x \in DOMAIN schedules' : schedules'[x] \in ScheduleRows(Len(schedules'[x].entries))
    BY <2>1 DEF TypeOK, SchedulesTyped
  <2> QED BY <1>4, <2>1, <2>2, <2>3 DEF SchedulesTyped
<1>6. AttemptsTyped'
  <2>1. /\ DOMAIN attempts' \subseteq DOMAIN attempts
        /\ \A x \in DOMAIN attempts' : attempts'[x] = attempts[x]
    BY <1>1 DEF Without
  <2> QED BY <1>1, <2>1 DEF TypeOK, AttemptsTyped
<1> QED BY <1>1, <1>3, <1>4, <1>5, <1>6, Frame DEF TypeOK

\* Every step keeps the types: one case per method, one per step of an arbitration
\* round, and a step of the callers alone.
LEMMA NextType ==
    ASSUME TypeOK, AuthorityExclusive, CandidatesSettled, [Next]_vars
    PROVE  TypeOK'
<1>1. CASE Topology
  BY <1>1, TopologyType
<1>2. CASE FlowCall
  <2>1. PICK f \in Flows :
           \/ \E d \in FlowSpace : admit_flow(f, d) \/ update_flow(f, d)
           \/ cancel_flow(f)
           \/ \E signal \in SignalSpace, now \in Readings : notify_readiness(f, signal, now)
           \/ \E after \in {"Waiting", "Failed"}, now \in Readings :
                 resolve_ambiguous(f, after, now)
           \/ retire_flow(f)
    BY <1>2 DEF FlowCall
  <2> QED BY <2>1, AdmitType, UpdateType, CancelType, NotifyType, ResolveType, RetireFlowType
<1>3. CASE advance_epoch
  BY <1>3, EpochType
<1>4. CASE DispatchCall
  <2>1. CASE \E s \in DOMAIN schedules : release_schedule(s)
    BY <2>1, ReleaseScheduleType
  <2>2. CASE \E s \in DOMAIN schedules : \E i \in DOMAIN schedules[s].entries,
                boot \in Boots, now \in Readings : begin_dispatch(s, i, boot, now)
    BY <2>2, BeginType
  <2>3. CASE \E t \in tickets, now \in Readings : mark_started(t, now)
    BY <2>3, StartType
  <2>4. CASE \E a \in DOMAIN attempts, now \in Readings :
                abandon_attempt(a, now) \/ preempt_attempt(a, now)
    <3>1. /\ "Abandoned" \in AttemptStates /\ "Preempted" \in AttemptStates
          /\ "Ambiguous" \in Lifecycles /\ "Preempting" \in Lifecycles
      BY DEF AttemptStates, Lifecycles
    <3> QED BY <2>4, <3>1, CloseType DEF abandon_attempt, preempt_attempt
  <2>5. CASE \E ev \in Evidence, now \in Readings : complete(ev, now)
    BY <2>5, CompleteType
  <2> QED BY <1>4, <2>1, <2>2, <2>3, <2>4, <2>5 DEF DispatchCall
<1>5. CASE \E now \in Readings : Refused(now) \/ RoundBegin(now)
  BY <1>5, BeginRoundType
<1>6. CASE RoundStep
  <2>1. CASE \E s \in DOMAIN schedules : RoundReclaim(s)
    BY <2>1, ReclaimType
  <2>2. CASE \E f \in Flows : RoundRefresh(f) \/ RoundOverdue(f)
    BY <2>2, RefreshType, OverdueType
  <2>3. CASE \E f \in Flows : RoundLapse(f) \/ RoundSkip(f) \/ RoundGrant(f) \/ RoundBlocked(f)
    BY <2>3, RoundLapseType, SkipType, GrantType, BlockedType
  <2>4. CASE \E f, v \in Flows : RoundDisplace(f, v)
    BY <2>4, DisplaceType
  <2>5. CASE RoundReclaimed \/ RoundRefreshed \/ RoundRank \/ RoundIssue \/ RoundApply
             \/ RoundFinish
    BY <2>5, ReclaimedType, RefreshedType, RankType, IssueType, ApplyType, FinishType
  <2> QED BY <1>6, <2>1, <2>2, <2>3, <2>4, <2>5 DEF RoundStep
<1>7. CASE RoundAborted
  BY <1>7, AbortType
<1>8. CASE UNCHANGED vars
  BY <1>8, Frame DEF TypeOK, vars
<1> QED BY <1>1, <1>2, <1>3, <1>4, <1>5, <1>6, <1>7, <1>8 DEF Next

-----------------------------------------------------------------------------
(***************************************************************************)
(* Closed attempts                                                         *)
(***************************************************************************)

\* A step that writes the row of one live attempt only.
LEMMA OneRow ==
    ASSUME NEW a \in LiveAttempts, NEW row, attempts' = [attempts EXCEPT ![a] = row]
    PROVE  ClosedKept
<1>1. ~is_attempt_terminal(attempts[a].state)
  BY DEF LiveAttempts
<1> QED BY <1>1 DEF ClosedKept

\* The attempt a flow names is live.
LEMMA NamedIsLive ==
    ASSUME AuthorityExclusive, NEW f \in Flows, open_attempt[f] # NoAttempt
    PROVE  open_attempt[f] \in LiveAttempts
BY DEF AuthorityExclusive

\* Every path that closes an attempt closes a live one.
LEMMA CloseKeeps ==
    ASSUME NEW a \in LiveAttempts, NEW state, NEW table,
           apply_attempt_closed(a, state, table)
    PROVE  ClosedKept
<1>1. attempts' = [attempts EXCEPT ![a].state = state]
  BY DEF apply_attempt_closed
<1>2. attempts' = [attempts EXCEPT ![a] = [attempts[a] EXCEPT !.state = state]]
  BY <1>1
<1> QED BY <1>2, OneRow

\* A caller abandons or preempts a live attempt.
LEMMA CallerCloseKeeps ==
    ASSUME NEW a, NEW now, abandon_attempt(a, now) \/ preempt_attempt(a, now)
    PROVE  ClosedKept
<1>1. PICK state \in {"Abandoned", "Preempted"}, after \in {"Ambiguous", "Preempting"} :
         CloseByCaller(a, state, after, now)
  BY DEF abandon_attempt, preempt_attempt
<1>2. /\ a \in LiveAttempts
      /\ apply_attempt_closed(a, state, normalize_transient_states(
             [lifecycle EXCEPT ![attempts[a].ticket.entry.flow] = after]))
  BY <1>1 DEF CloseByCaller
<1> QED BY <1>2, CloseKeeps

\* A round stops what is overdue and displaces incumbents.
LEMMA RoundCloseKeeps ==
    ASSUME TypeOK, AuthorityExclusive, CandidatesSettled, NEW f \in Flows, NEW v \in Flows,
           RoundOverdue(f) \/ RoundDisplace(f, v)
    PROVE  ClosedKept
<1>1. CASE RoundOverdue(f)
  <2>1. /\ round.phase = "Overdue" /\ f \in round.todo
        /\ apply_attempt_closed(open_attempt[f], "Preempted",
                                [lifecycle EXCEPT ![f] = "Preempting"])
    BY <1>1 DEF RoundOverdue
  <2>2. open_attempt[f] # NoAttempt
    BY <2>1 DEF CandidatesSettled
  <2> QED BY <2>1, <2>2, NamedIsLive, CloseKeeps
<1>2. CASE RoundDisplace(f, v)
  <2>1. /\ v \in Incumbents(flow[f].resource)
        /\ apply_attempt_closed(open_attempt[v], "Preempted",
                                [lifecycle EXCEPT ![v] = "Preempting"])
    BY <1>2 DEF RoundDisplace
  <2>2. open_attempt[v] # NoAttempt
    BY <2>1 DEF Incumbents
  <2> QED BY <2>1, <2>2, NamedIsLive, CloseKeeps
<1> QED BY <1>1, <1>2

\* Cancelling a flow closes the attempt it names.
LEMMA CancelKeeps ==
    ASSUME AuthorityExclusive, NEW f \in Flows, cancel_flow(f)
    PROVE  ClosedKept
<1> DEFINE a == open_attempt[f]
<1>1. CASE a # NoAttempt
  <2>1. attempts' = [attempts EXCEPT ![a].state = "Cancelled"]
    BY <1>1 DEF cancel_flow
  <2>2. attempts' = [attempts EXCEPT ![a] = [attempts[a] EXCEPT !.state = "Cancelled"]]
    BY <2>1
  <2> QED BY <1>1, <2>2, NamedIsLive, OneRow
<1>2. CASE a = NoAttempt
  <2>1. attempts' = attempts
    BY <1>2 DEF cancel_flow
  <2> QED BY <2>1 DEF ClosedKept
<1> QED BY <1>1, <1>2

\* A dispatch opens an attempt under a number no retained attempt has.
LEMMA BeginKeeps ==
    ASSUME TypeOK, NEW s, NEW i, NEW boot, NEW now, begin_dispatch(s, i, boot, now)
    PROVE  ClosedKept
<1>1. PICK row : attempts' = With(attempts, next_attempt, row)
  BY DEF begin_dispatch
<1>2. next_attempt \in Nat /\ DOMAIN attempts \subseteq 1..(next_attempt - 1)
  BY DEF TypeOK, AttemptsTyped
<1>3. next_attempt \notin DOMAIN attempts
  BY <1>2, SMTT(60)
<1>4. \A a \in DOMAIN attempts : attempts'[a] = attempts[a]
  BY <1>1, <1>3 DEF With
<1> QED BY <1>4 DEF ClosedKept

\* A start report is taken for an open attempt only.
LEMMA StartKeeps ==
    ASSUME NEW t, NEW now, mark_started(t, now)
    PROVE  ClosedKept
<1> DEFINE a == t.attempt
<1>1. /\ a \in DOMAIN attempts /\ attempts[a].state = "Open"
      /\ attempts' = [attempts EXCEPT ![a].state = "Started"]
  BY DEF mark_started
<1>2. a \in LiveAttempts
  BY <1>1 DEF LiveAttempts, is_attempt_terminal
<1>3. attempts' = [attempts EXCEPT ![a] = [attempts[a] EXCEPT !.state = "Started"]]
  BY <1>1
<1> QED BY <1>2, <1>3, OneRow

\* Evidence is committed on an attempt that is still open.
LEMMA CompleteKeeps ==
    ASSUME NEW ev, NEW now, complete(ev, now)
    PROVE  ClosedKept
<1> DEFINE a == ev.attempt
<1>1. /\ a \in DOMAIN attempts /\ ~is_attempt_terminal(attempts[a].state)
      /\ attempts' = [attempts EXCEPT ![a].state = "Committed", ![a].evidence = <<ev>>]
  BY DEF complete, NamesAttempt, StillOpen
<1>2. a \in LiveAttempts
  BY <1>1 DEF LiveAttempts
<1>3. attempts' = [attempts EXCEPT
         ![a] = [[attempts[a] EXCEPT !.state = "Committed"] EXCEPT !.evidence = <<ev>>]]
  BY <1>1
<1> QED BY <1>2, <1>3, OneRow

\* The end of a round and an epoch advance forget attempts, and change none.
LEMMA ForgetKeeps ==
    ASSUME RoundFinish \/ advance_epoch
    PROVE  ClosedKept
<1>1. CASE RoundFinish
  <2>1. PICK S : attempts' = Without(attempts, S)
    BY <1>1 DEF RoundFinish
  <2> QED BY <2>1 DEF Without, ClosedKept
<1>2. CASE advance_epoch
  <2>1. DOMAIN attempts' = {}
    BY <1>2, SMTT(60) DEF advance_epoch
  <2> QED BY <2>1 DEF ClosedKept
<1> QED BY <1>1, <1>2

\* The calls on the topology and on a flow, other than its cancellation, and the
\* steps of a round that close nothing.
LEMMA QuietKeeps ==
    ASSUME NEW f, NEW now,
           \/ Topology \/ Refused(now) \/ RoundBegin(now) \/ RoundAborted
           \/ \E d \in FlowSpace : admit_flow(f, d) \/ update_flow(f, d)
           \/ \E signal \in SignalSpace, at \in Readings : notify_readiness(f, signal, at)
           \/ \E after \in {"Waiting", "Failed"}, at \in Readings :
                 resolve_ambiguous(f, after, at)
           \/ retire_flow(f)
           \/ \E s \in DOMAIN schedules : release_schedule(s) \/ RoundReclaim(s)
           \/ RoundRefresh(f) \/ RoundLapse(f)
           \/ RoundSkip(f) \/ RoundGrant(f) \/ RoundBlocked(f)
           \/ RoundReclaimed \/ RoundRefreshed \/ RoundRank \/ RoundIssue \/ RoundApply
    PROVE  ClosedKept
<1>1. attempts' = attempts
  BY DEF Topology, register_resource, register_reservation, retire_reservation,
     register_class, install_policy, Refused, RoundBegin, RoundAborted, admit_flow,
     update_flow, notify_readiness, resolve_ambiguous, retire_flow, release_schedule,
     RoundReclaim, RoundRefresh, RoundLapse, RoundSkip, RoundGrant, RoundBlocked,
     RoundReclaimed, RoundRefreshed, RoundRank, RoundIssue, RoundApply
<1> QED BY <1>1 DEF ClosedKept

\* No step changes a closed attempt it retains.
LEMMA StepKeeps ==
    ASSUME TypeOK, AuthorityExclusive, CandidatesSettled, [Next]_vars
    PROVE  ClosedKept
<1>1. CASE Topology \/ RoundAborted \/ \E now \in Readings : Refused(now) \/ RoundBegin(now)
  BY <1>1, QuietKeeps
<1>2. CASE FlowCall
  <2>1. PICK f \in Flows :
           \/ \E d \in FlowSpace : admit_flow(f, d) \/ update_flow(f, d)
           \/ cancel_flow(f)
           \/ \E signal \in SignalSpace, now \in Readings : notify_readiness(f, signal, now)
           \/ \E after \in {"Waiting", "Failed"}, now \in Readings :
                 resolve_ambiguous(f, after, now)
           \/ retire_flow(f)
    BY <1>2 DEF FlowCall
  <2> QED BY <2>1, CancelKeeps, QuietKeeps
<1>3. CASE DispatchCall
  <2>1. CASE \E s \in DOMAIN schedules : release_schedule(s)
    BY <2>1, QuietKeeps
  <2>2. CASE \E s \in DOMAIN schedules : \E i \in DOMAIN schedules[s].entries,
                boot \in Boots, now \in Readings : begin_dispatch(s, i, boot, now)
    BY <2>2, BeginKeeps
  <2>3. CASE \E t \in tickets, now \in Readings : mark_started(t, now)
    BY <2>3, StartKeeps
  <2>4. CASE \E a \in DOMAIN attempts, now \in Readings :
                abandon_attempt(a, now) \/ preempt_attempt(a, now)
    BY <2>4, CallerCloseKeeps
  <2>5. CASE \E ev \in Evidence, now \in Readings : complete(ev, now)
    BY <2>5, CompleteKeeps
  <2> QED BY <1>3, <2>1, <2>2, <2>3, <2>4, <2>5 DEF DispatchCall
<1>4. CASE RoundStep
  <2>1. CASE \E f \in Flows : RoundOverdue(f)
    BY <2>1, RoundCloseKeeps
  <2>2. CASE \E f, v \in Flows : RoundDisplace(f, v)
    BY <2>2, RoundCloseKeeps
  <2>3. CASE RoundFinish
    BY <2>3, ForgetKeeps
  <2>4. CASE \/ \E s \in DOMAIN schedules : RoundReclaim(s)
             \/ \E f \in Flows : RoundRefresh(f)
             \/ \E f \in Flows : RoundLapse(f) \/ RoundSkip(f) \/ RoundGrant(f) \/ RoundBlocked(f)
             \/ RoundReclaimed \/ RoundRefreshed \/ RoundRank \/ RoundIssue \/ RoundApply
    BY <2>4, QuietKeeps
  <2> QED BY <1>4, <2>1, <2>2, <2>3, <2>4 DEF RoundStep
<1>5. CASE advance_epoch
  BY <1>5, ForgetKeeps
<1>6. CASE UNCHANGED vars
  BY <1>6 DEF vars, ClosedKept
<1> QED BY <1>1, <1>2, <1>3, <1>4, <1>5, <1>6 DEF Next

-----------------------------------------------------------------------------
(***************************************************************************)
(* The lifecycle of a flow                                                 *)
(***************************************************************************)

\* What a step may not do to a terminal flow.
TerminalKept ==
    \A f \in Flows : is_terminal(lifecycle[f]) =>
        \/ lifecycle'[f] = "Absent"
        \/ lifecycle'[f] = lifecycle[f] /\ served_work'[f] = served_work[f]

\* What a step may do to a flow: a terminal one is left alone, one completes by
\* being served all its work, and only apply_schedule hands out a window.
FlowsMove ==
    /\ TerminalKept
    /\ \A f \in Flows : lifecycle'[f] = "Completed" =>
          \/ lifecycle[f] = "Completed"
          \/ served_work'[f] >= flow[f].estimated_work /\ flow' = flow
    /\ \A f \in Flows : lifecycle'[f] = "Scheduled" => lifecycle[f] = "Scheduled" \/ RoundApply

\* Normalization leaves the terminal states alone, and makes no other state one
\* that grants a window or completes.
LEMMA NormalTerminal ==
    ASSUME NEW table, NEW f \in Flows
    PROVE  LET new == normalize_transient_states(table)[f] IN
           /\ is_terminal(table[f]) => new = table[f]
           /\ new \in {"Scheduled", "Completed"} => new = table[f]
BY DEF normalize_transient_states, is_terminal

\* A step that moves one flow, which is not terminal.
LEMMA OneMoves ==
    ASSUME TypeOK, NEW g \in Flows, ~is_terminal(lifecycle[g]), NEW l,
           \/ lifecycle' = [lifecycle EXCEPT ![g] = l]
           \/ lifecycle' = normalize_transient_states([lifecycle EXCEPT ![g] = l]),
           \A f \in Flows : f # g => served_work'[f] = served_work[f],
           l # "Scheduled" \/ RoundApply,
           l = "Completed" => served_work'[g] >= flow[g].estimated_work /\ flow' = flow
    PROVE  FlowsMove
<1> DEFINE table == [lifecycle EXCEPT ![g] = l]
<1>1. table[g] = l /\ \A f \in Flows : f # g => table[f] = lifecycle[f]
  BY DEF TypeOK, FlowRowsTyped
<1> HIDE DEF table
<1>2. \A f \in Flows : /\ is_terminal(table[f]) => lifecycle'[f] = table[f]
                       /\ lifecycle'[f] \in {"Scheduled", "Completed"} => lifecycle'[f] = table[f]
  BY NormalTerminal DEF table
<1>3. TerminalKept
  BY <1>1, <1>2 DEF TerminalKept
<1> QED BY <1>1, <1>2, <1>3 DEF FlowsMove

\* The flow of a live attempt is in flight, so it is not terminal.
LEMMA LiveFlowMoves ==
    ASSUME TypeOK, AuthorityExclusive, NEW a \in LiveAttempts
    PROVE  LET f == attempts[a].ticket.entry.flow
           IN  f \in Flows /\ ~is_terminal(lifecycle[f])
<1> DEFINE f == attempts[a].ticket.entry.flow
<1>1. attempts[a] \in AttemptRows
  BY DEF TypeOK, AttemptsTyped, LiveAttempts
<1>2. attempts[a].ticket \in Tickets
  BY <1>1 DEF AttemptRows
<1>3. f \in Flows
  BY <1>2 DEF Tickets, Entries
<1>4. lifecycle[f] \in {"Dispatched", "Running"}
  BY DEF AuthorityExclusive
<1> QED BY <1>3, <1>4 DEF is_terminal

\* Closing a live attempt moves its flow.
LEMMA CloseMoves ==
    ASSUME TypeOK, AuthorityExclusive, NEW a \in LiveAttempts, NEW state, NEW l,
           LET table == [lifecycle EXCEPT ![attempts[a].ticket.entry.flow] = l]
           IN  \/ apply_attempt_closed(a, state, table)
               \/ apply_attempt_closed(a, state, normalize_transient_states(table)),
           served_work' = served_work, l \notin {"Scheduled", "Completed"}
    PROVE  FlowsMove
<1> DEFINE f == attempts[a].ticket.entry.flow
<1>1. f \in Flows /\ ~is_terminal(lifecycle[f])
  BY LiveFlowMoves
<1>2. open_attempt[f] = a
  BY DEF AuthorityExclusive
<1>3. \/ lifecycle' = [lifecycle EXCEPT ![f] = l]
      \/ lifecycle' = normalize_transient_states([lifecycle EXCEPT ![f] = l])
  BY <1>2 DEF apply_attempt_closed
<1>4. l # "Scheduled" /\ l # "Completed"
  OBVIOUS
<1> HIDE DEF f
<1> QED BY <1>1, <1>3, <1>4, OneMoves

\* abandon_attempt() and preempt_attempt() move the flow of a live attempt.
LEMMA CallerCloseMoves ==
    ASSUME TypeOK, AuthorityExclusive, NEW a, NEW now,
           abandon_attempt(a, now) \/ preempt_attempt(a, now)
    PROVE  FlowsMove
<1>1. PICK state \in {"Abandoned", "Preempted"}, after \in {"Ambiguous", "Preempting"} :
         CloseByCaller(a, state, after, now)
  BY DEF abandon_attempt, preempt_attempt
<1>2. /\ a \in LiveAttempts
      /\ apply_attempt_closed(a, state, normalize_transient_states(
             [lifecycle EXCEPT ![attempts[a].ticket.entry.flow] = after]))
      /\ served_work' = served_work
  BY <1>1 DEF CloseByCaller
<1>3. after \notin {"Scheduled", "Completed"}
  OBVIOUS
<1> QED BY <1>2, <1>3, CloseMoves

\* A round stops overdue flows and incumbents that it displaces.
LEMMA RoundCloseMoves ==
    ASSUME TypeOK, AuthorityExclusive, CandidatesSettled, NEW f \in Flows, NEW v \in Flows,
           RoundOverdue(f) \/ RoundDisplace(f, v)
    PROVE  FlowsMove
<1>1. ASSUME NEW g \in Flows, open_attempt[g] # NoAttempt,
             apply_attempt_closed(open_attempt[g], "Preempted",
                                  [lifecycle EXCEPT ![g] = "Preempting"]),
             served_work' = served_work
      PROVE  FlowsMove
  <2>1. open_attempt[g] \in LiveAttempts /\ attempts[open_attempt[g]].ticket.entry.flow = g
    BY <1>1 DEF AuthorityExclusive
  <2>2. "Preempting" \notin {"Scheduled", "Completed"}
    OBVIOUS
  <2> QED BY <1>1, <2>1, <2>2, CloseMoves
<1>2. CASE RoundOverdue(f)
  <2>1. /\ round.phase = "Overdue" /\ f \in round.todo /\ served_work' = served_work
        /\ apply_attempt_closed(open_attempt[f], "Preempted",
                                [lifecycle EXCEPT ![f] = "Preempting"])
    BY <1>2 DEF RoundOverdue
  <2>2. open_attempt[f] # NoAttempt
    BY <2>1 DEF CandidatesSettled
  <2> QED BY <1>1, <2>1, <2>2
<1>3. CASE RoundDisplace(f, v)
  <2>1. /\ v \in Incumbents(flow[f].resource) /\ served_work' = served_work
        /\ apply_attempt_closed(open_attempt[v], "Preempted",
                                [lifecycle EXCEPT ![v] = "Preempting"])
    BY <1>3 DEF RoundDisplace
  <2>2. open_attempt[v] # NoAttempt
    BY <2>1 DEF Incumbents
  <2> QED BY <1>1, <2>1, <2>2
<1> QED BY <1>2, <1>3

\* Releasing windows moves Scheduled flows only.
LEMMA ReleaseMoves ==
    ASSUME TypeOK,
           \/ \E s \in DOMAIN schedules : release_schedule(s) \/ RoundReclaim(s)
           \/ \E f \in Flows, d \in FlowSpace : update_flow(f, d)
    PROVE  FlowsMove
<1>1. served_work' = served_work
  BY DEF release_schedule, RoundReclaim, update_flow
<1>2. \/ \E s, I : lifecycle' = Released(s, I)
      \/ \E s, I : lifecycle' = normalize_transient_states(Released(s, I))
      \/ lifecycle' = lifecycle
  BY DEF release_schedule, RoundReclaim, update_flow, RetireWindow, release_run_entries
<1>3. ASSUME NEW s, NEW I, NEW f \in Flows
      PROVE  /\ is_terminal(lifecycle[f]) => Released(s, I)[f] = lifecycle[f]
             /\ Released(s, I)[f] \in {"Scheduled", "Completed"} =>
                   Released(s, I)[f] = lifecycle[f]
  <2>1. is_terminal(lifecycle[f]) => ~ \E i \in Holding(s, I) : schedules[s].entries[i].flow = f
    BY DEF Holding, is_terminal
  <2> QED BY <2>1 DEF Released
<1>4. \A f \in Flows :
         /\ is_terminal(lifecycle[f]) => lifecycle'[f] = lifecycle[f]
         /\ lifecycle'[f] \in {"Scheduled", "Completed"} => lifecycle'[f] = lifecycle[f]
  <2>1. CASE \E s, I : lifecycle' = Released(s, I)
    BY <1>3, <2>1
  <2>2. CASE \E s, I : lifecycle' = normalize_transient_states(Released(s, I))
    <3>1. PICK table : /\ \E s, I : table = Released(s, I)
                       /\ lifecycle' = normalize_transient_states(table)
      BY <2>2
    <3>2. \A f \in Flows :
             /\ is_terminal(lifecycle[f]) => table[f] = lifecycle[f]
             /\ table[f] \in {"Scheduled", "Completed"} => table[f] = lifecycle[f]
      BY <1>3, <3>1
    <3> QED BY <3>1, <3>2, NormalTerminal
  <2> QED BY <1>2, <2>1, <2>2
<1> QED BY <1>1, <1>4 DEF TerminalKept, FlowsMove

\* Calls that move the flow they name.
LEMMA FlowCallMoves ==
    ASSUME TypeOK, NEW f \in Flows,
           \/ \E d \in FlowSpace : admit_flow(f, d)
           \/ cancel_flow(f) \/ retire_flow(f)
           \/ \E after \in {"Waiting", "Failed"}, now \in Readings :
                 resolve_ambiguous(f, after, now)
    PROVE  FlowsMove
<1>1. CASE retire_flow(f)
  <2>1. /\ lifecycle' = [lifecycle EXCEPT ![f] = "Absent"]
        /\ served_work' = [served_work EXCEPT ![f] = 0]
    BY <1>1 DEF retire_flow
  <2>2. DOMAIN lifecycle = Flows /\ DOMAIN served_work = Flows
    BY DEF TypeOK, FlowRowsTyped, FlowFieldsTyped
  <2> QED BY <2>1, <2>2 DEF TerminalKept, FlowsMove
<1>2. CASE cancel_flow(f)
  <2>1. /\ lifecycle' = normalize_transient_states([lifecycle EXCEPT ![f] = "Cancelled"])
        /\ ~is_terminal(lifecycle[f]) /\ served_work' = served_work
    BY <1>2 DEF cancel_flow
  <2>2. "Cancelled" # "Scheduled" /\ "Cancelled" # "Completed"
    OBVIOUS
  <2> QED BY <2>1, <2>2, OneMoves
<1>3. CASE \E d \in FlowSpace : admit_flow(f, d)
  <2>1. /\ lifecycle' = [lifecycle EXCEPT ![f] = "Waiting"]
        /\ lifecycle[f] = "Absent" /\ served_work' = [served_work EXCEPT ![f] = 0]
    BY <1>3 DEF admit_flow
  <2>2. /\ ~is_terminal(lifecycle[f])
        /\ \A g \in Flows : g # f => served_work'[g] = served_work[g]
        /\ "Waiting" # "Scheduled" /\ "Waiting" # "Completed"
    BY <2>1 DEF is_terminal, TypeOK, FlowFieldsTyped
  <2> QED BY <2>1, <2>2, OneMoves
<1>4. CASE \E after \in {"Waiting", "Failed"}, now \in Readings :
              resolve_ambiguous(f, after, now)
  <2>1. PICK after \in {"Waiting", "Failed"} :
                     /\ lifecycle' = [lifecycle EXCEPT ![f] = after]
                     /\ lifecycle[f] = "Ambiguous" /\ served_work' = served_work
    BY <1>4 DEF resolve_ambiguous
  <2>2. ~is_terminal(lifecycle[f]) /\ after # "Scheduled" /\ after # "Completed"
    BY <2>1 DEF is_terminal
  <2> QED BY <2>1, <2>2, OneMoves
<1> QED BY <1>1, <1>2, <1>3, <1>4

\* Dispatch, start and completion move a flow that is Scheduled or in flight.
LEMMA DispatchMoves ==
    ASSUME TypeOK, AuthorityExclusive,
           \/ \E s \in DOMAIN schedules : \E i \in DOMAIN schedules[s].entries,
                 boot \in Boots, now \in Readings : begin_dispatch(s, i, boot, now)
           \/ \E t \in tickets, now \in Readings : mark_started(t, now)
           \/ \E ev \in Evidence, now \in Readings : complete(ev, now)
    PROVE  FlowsMove
<1>1. ASSUME NEW s \in DOMAIN schedules, NEW i \in DOMAIN schedules[s].entries, NEW boot,
             NEW now, begin_dispatch(s, i, boot, now)
      PROVE  FlowsMove
  <2> DEFINE f == schedules[s].entries[i].flow
  <2>1. /\ lifecycle[f] = "Scheduled" /\ served_work' = served_work
        /\ lifecycle' = [lifecycle EXCEPT ![f] = "Dispatched"]
    BY <1>1 DEF begin_dispatch
  <2>2. f \in Flows
    <3>1. schedules[s].entries[i] \in Entries
      BY ScheduleRow
    <3> QED BY <3>1 DEF Entries
  <2>3. /\ ~is_terminal(lifecycle[f])
        /\ "Dispatched" # "Scheduled" /\ "Dispatched" # "Completed"
    BY <2>1 DEF is_terminal
  <2> HIDE DEF f
  <2> QED BY <2>1, <2>2, <2>3, OneMoves
<1>2. ASSUME NEW t, NEW now, mark_started(t, now)
      PROVE  FlowsMove
  <2> DEFINE f == attempts[t.attempt].ticket.entry.flow
  <2>1. /\ t.attempt \in DOMAIN attempts /\ attempts[t.attempt].state = "Open"
        /\ served_work' = served_work
        /\ lifecycle' = [lifecycle EXCEPT ![f] = "Running"] \/ lifecycle' = lifecycle
    BY <1>2 DEF mark_started
  <2>2. t.attempt \in LiveAttempts
    BY <2>1 DEF LiveAttempts, is_attempt_terminal
  <2>3. /\ f \in Flows /\ ~is_terminal(lifecycle[f])
        /\ "Running" # "Scheduled" /\ "Running" # "Completed"
    BY <2>2, LiveFlowMoves
  <2> HIDE DEF f
  <2>4. CASE lifecycle' = lifecycle
    BY <2>1, <2>4 DEF TerminalKept, FlowsMove
  <2> QED BY <2>1, <2>3, <2>4, OneMoves
<1>3. ASSUME NEW ev, NEW now, complete(ev, now)
      PROVE  FlowsMove
  <2> DEFINE f == ev.ticket.entry.flow
  <2>1. /\ ev.attempt \in DOMAIN attempts /\ ~is_attempt_terminal(attempts[ev.attempt].state)
        /\ attempts[ev.attempt].ticket.entry.flow = f
        /\ served_work' = [served_work EXCEPT ![f] = @ + Credit(ev)] /\ flow' = flow
        /\ lifecycle' = normalize_transient_states(
                            [lifecycle EXCEPT ![f] = LifecycleAfter(ev, now)])
    BY <1>3 DEF complete, NamesAttempt, StillOpen
  <2>2. ev.attempt \in LiveAttempts
    BY <2>1 DEF LiveAttempts
  <2>3. f \in Flows /\ ~is_terminal(lifecycle[f])
    BY <2>1, <2>2, LiveFlowMoves
  <2> HIDE DEF f
  <2>4. /\ \A g \in Flows : g # f => served_work'[g] = served_work[g]
        /\ served_work'[f] = served_work[f] + Credit(ev)
    BY <2>1, <2>3 DEF TypeOK, FlowFieldsTyped
  <2>5. PICK l : l = LifecycleAfter(ev, now)
    OBVIOUS
  <2>6. /\ lifecycle' = normalize_transient_states([lifecycle EXCEPT ![f] = l])
        /\ l # "Scheduled"
        /\ l = "Completed" => served_work'[f] >= flow[f].estimated_work /\ flow' = flow
    BY <2>1, <2>4, <2>5 DEF LifecycleAfter, f
  <2> QED BY <2>3, <2>4, <2>6, OneMoves, SMTT(60)
<1> QED BY <1>1, <1>2, <1>3

\* A round moves the waiting and the ready flows it visits, hands windows to
\* flows that are not terminal, and ends with a normalization.
LEMMA RoundMoves ==
    ASSUME TypeOK, CandidatesSettled,
           \/ \E f \in Flows : RoundRefresh(f) \/ RoundLapse(f)
           \/ RoundApply \/ RoundFinish
    PROVE  FlowsMove
<1>1. ASSUME NEW f \in Flows, RoundRefresh(f) \/ RoundLapse(f)
      PROVE  FlowsMove
  <2>1. \/ round.phase = "Refresh" /\ f \in round.todo
        \/ round.phase = "Assign" /\ f \in round.todo
    BY <1>1 DEF RoundRefresh, RoundLapse, Candidate
  <2>2. lifecycle[f] \in {"Waiting", "Ready"}
    BY <2>1 DEF CandidatesSettled
  <2>3. ~is_terminal(lifecycle[f])
    BY <2>2 DEF is_terminal
  <2>4. PICK l : /\ l \in {"Ready", "Failed", lifecycle[f]}
                 /\ lifecycle' = [lifecycle EXCEPT ![f] = l]
                 /\ served_work' = served_work
    BY <1>1 DEF RoundRefresh, RoundLapse, LapseLifecycle
  <2>5. l # "Scheduled" /\ l # "Completed"
    BY <2>2, <2>4
  <2> QED BY <2>3, <2>4, <2>5, OneMoves
<1>2. CASE RoundApply
  <2> DEFINE e == round.entries[round.next]
  <2>1. /\ served_work' = served_work
        /\ \/ lifecycle' = lifecycle
           \/ /\ ~is_terminal(lifecycle[e.flow])
              /\ lifecycle' = [lifecycle EXCEPT ![e.flow] = "Scheduled"]
    BY <1>2 DEF RoundApply, Applies, Assign
  <2>2. CASE lifecycle' = lifecycle
    BY <2>1, <2>2 DEF TerminalKept, FlowsMove
  <2>3. DOMAIN lifecycle = Flows
    BY DEF TypeOK, FlowRowsTyped
  <2> HIDE DEF e
  <2>4. CASE /\ ~is_terminal(lifecycle[e.flow])
             /\ lifecycle' = [lifecycle EXCEPT ![e.flow] = "Scheduled"]
    BY <1>2, <2>1, <2>3, <2>4 DEF TerminalKept, FlowsMove
  <2> QED BY <2>1, <2>2, <2>4
<1>3. CASE RoundFinish
  <2>1. served_work' = served_work /\ lifecycle' = normalize_transient_states(lifecycle)
    BY <1>3 DEF RoundFinish
  <2> QED BY <2>1, NormalTerminal DEF TerminalKept, FlowsMove
<1> QED BY <1>1, <1>2, <1>3

\* An epoch advance moves Scheduled flows and flows in flight.
LEMMA EpochMoves ==
    ASSUME TypeOK, AuthorityExclusive, advance_epoch
    PROVE  FlowsMove
<1> DEFINE table == [f \in Flows |-> IF open_attempt[f] \in LiveAttempts THEN "Ambiguous"
                      ELSE IF lifecycle[f] = "Scheduled" THEN "Ready" ELSE lifecycle[f]]
<1>1. lifecycle' = normalize_transient_states(table) /\ served_work' = served_work
  BY DEF advance_epoch
<1>2. ASSUME NEW f \in Flows
      PROVE  /\ is_terminal(lifecycle[f]) => table[f] = lifecycle[f]
             /\ table[f] \in {"Scheduled", "Completed"} => table[f] = lifecycle[f]
  <2>1. NoAttempt \notin LiveAttempts
    BY LiveAttempt
  <2>2. is_terminal(lifecycle[f]) => open_attempt[f] = NoAttempt
    BY NamedAttempt DEF is_terminal
  <2> QED BY <2>1, <2>2 DEF is_terminal
<1> HIDE DEF table
<1> QED BY <1>1, <1>2, NormalTerminal DEF TerminalKept, FlowsMove

\* No step moves or serves a terminal flow that stays in the table, completes a
\* flow short of its work, or grants a window elsewhere than in apply_schedule.
LEMMA StepTerminal ==
    ASSUME TypeOK, AuthorityExclusive, CandidatesSettled, [Next]_vars
    PROVE  FlowsMove
<1>1. ASSUME UNCHANGED <<lifecycle, served_work>> PROVE FlowsMove
  BY <1>1 DEF TerminalKept, FlowsMove
<1>2. CASE Topology \/ RoundAborted \/ \E now \in Readings : Refused(now) \/ RoundBegin(now)
  BY <1>1, <1>2 DEF Topology, register_resource, register_reservation,
     retire_reservation, register_class, install_policy, Refused, RoundBegin, RoundAborted
<1>3. CASE FlowCall
  <2>1. PICK f \in Flows :
           \/ \E d \in FlowSpace : admit_flow(f, d) \/ update_flow(f, d)
           \/ cancel_flow(f)
           \/ \E signal \in SignalSpace, now \in Readings : notify_readiness(f, signal, now)
           \/ \E after \in {"Waiting", "Failed"}, now \in Readings :
                 resolve_ambiguous(f, after, now)
           \/ retire_flow(f)
    BY <1>3 DEF FlowCall
  <2>2. CASE \E signal \in SignalSpace, now \in Readings : notify_readiness(f, signal, now)
    BY <1>1, <2>2 DEF notify_readiness
  <2> QED BY <2>1, <2>2, ReleaseMoves, FlowCallMoves
<1>4. CASE DispatchCall
  BY <1>4, ReleaseMoves, DispatchMoves, CallerCloseMoves DEF DispatchCall
<1>5. CASE RoundStep
  <2>1. CASE \E s \in DOMAIN schedules : RoundReclaim(s)
    BY <2>1, ReleaseMoves
  <2>2. CASE \E f \in Flows : RoundOverdue(f)
    BY <2>2, RoundCloseMoves
  <2>3. CASE \E f, v \in Flows : RoundDisplace(f, v)
    BY <2>3, RoundCloseMoves
  <2>4. CASE (\E f \in Flows : RoundRefresh(f) \/ RoundLapse(f)) \/ RoundApply \/ RoundFinish
    BY <2>4, RoundMoves
  <2>5. CASE \/ \E f \in Flows : RoundSkip(f) \/ RoundGrant(f) \/ RoundBlocked(f)
             \/ RoundReclaimed \/ RoundRefreshed \/ RoundRank \/ RoundIssue
    BY <1>1, <2>5 DEF RoundSkip, RoundGrant, RoundBlocked, RoundReclaimed,
       RoundRefreshed, RoundRank, RoundIssue
  <2> QED BY <1>5, <2>1, <2>2, <2>3, <2>4, <2>5 DEF RoundStep
<1>6. CASE advance_epoch
  BY <1>6, EpochMoves
<1>7. CASE UNCHANGED vars
  BY <1>1, <1>7 DEF vars
<1> QED BY <1>2, <1>3, <1>4, <1>5, <1>6, <1>7 DEF Next

\* The work of a flow with progress changes while it is Waiting, or not at all.
LEMMA WorkKept ==
    ASSUME TypeOK, [Next]_vars, NEW g \in Flows,
           lifecycle[g] = "Completed", served_work[g] # 0, lifecycle'[g] # "Absent"
    PROVE  flow'[g].estimated_work = flow[g].estimated_work
<1>1. flow \in [Flows -> FlowDescriptors \cup {NoDescriptor}] /\ DOMAIN lifecycle = Flows
  BY DEF TypeOK, FlowRowsTyped
<1>2. CASE FlowCall
  <2>1. PICK f \in Flows :
           \/ \E d \in FlowSpace : admit_flow(f, d) \/ update_flow(f, d)
           \/ flow' = flow
           \/ \E signal : flow' = [flow EXCEPT ![f].readiness_signal = signal]
           \/ lifecycle' = [lifecycle EXCEPT ![f] = "Absent"]
              /\ flow' = [flow EXCEPT ![f] = NoDescriptor]
    BY <1>2 DEF FlowCall, cancel_flow, notify_readiness, resolve_ambiguous, retire_flow
  <2>2. CASE \E d \in FlowSpace : admit_flow(f, d) \/ update_flow(f, d)
    <3>1. PICK d : /\ flow' = [flow EXCEPT ![f] = d]
                   /\ lifecycle[f] = "Absent" \/ WorkloadChangeAllowed(f, d)
      BY <2>2 DEF admit_flow, update_flow
    <3> QED BY <1>1, <3>1 DEF WorkloadChangeAllowed
  <2>3. CASE \E signal : flow' = [flow EXCEPT ![f].readiness_signal = signal]
    <3>1. flow[g] \in FlowDescriptors
      BY DEF TypeOK, FlowRowsTyped
    <3> QED BY <1>1, <2>3, <3>1, SMTT(60) DEF FlowDescriptors
  <2> QED BY <1>1, <2>1, <2>2, <2>3
<1>3. CASE flow' = flow
  BY <1>3
<1>4. CASE RoundStep
  BY <1>3, <1>4 DEF RoundStep, RoundReclaim, RoundRefresh, RoundOverdue, RoundLapse,
     RoundSkip, RoundGrant, RoundBlocked, RoundDisplace, RoundReclaimed, RoundRefreshed,
     RoundRank, RoundIssue, RoundApply, RoundFinish
<1>5. CASE DispatchCall
  <2>1. ASSUME NEW s, NEW i, NEW boot, NEW now, begin_dispatch(s, i, boot, now)
        PROVE  flow' = flow
    BY <2>1 DEF begin_dispatch
  <2>2. ASSUME NEW ev, NEW now, complete(ev, now) PROVE flow' = flow
    BY <2>2 DEF complete
  <2> QED BY <1>3, <1>5, <2>1, <2>2 DEF DispatchCall, release_schedule, mark_started,
             abandon_attempt, preempt_attempt, CloseByCaller
<1>6. CASE Topology \/ advance_epoch \/ RoundAborted
           \/ \E now \in Readings : Refused(now) \/ RoundBegin(now)
  BY <1>3, <1>6 DEF Topology, register_resource, register_reservation,
     retire_reservation, register_class, install_policy, advance_epoch, Refused, RoundBegin,
     RoundAborted
<1> QED BY <1>2, <1>3, <1>4, <1>5, <1>6 DEF Next, vars

\* A flow completes when it has been served its work, and keeps its work after.
LEMMA StepServed ==
    ASSUME TypeOK, AuthorityExclusive, CandidatesSettled, CompletedMeansServed, [Next]_vars
    PROVE  CompletedMeansServed'
<1> SUFFICES ASSUME NEW f \in Flows, lifecycle'[f] = "Completed"
             PROVE  served_work'[f] >= flow'[f].estimated_work
  BY DEF CompletedMeansServed
<1>1. CASE lifecycle[f] = "Completed"
  <2>1. served_work'[f] = served_work[f]
    BY <1>1, StepTerminal DEF FlowsMove, TerminalKept, is_terminal
  <2>2. served_work[f] \in Nat /\ flow[f].estimated_work \in Nat \ {0}
    BY <1>1, SMTT(60) DEF TypeOK, FlowRowsTyped, FlowFieldsTyped, FlowDescriptors, validate_flow
  <2>3. served_work[f] >= flow[f].estimated_work
    BY <1>1 DEF CompletedMeansServed
  <2>4. flow'[f].estimated_work = flow[f].estimated_work
    BY <1>1, <2>2, <2>3, WorkKept, SMTT(60)
  <2> QED BY <2>1, <2>3, <2>4
<1>2. CASE lifecycle[f] # "Completed"
  BY <1>2, StepTerminal DEF FlowsMove
<1> QED BY <1>1, <1>2

=============================================================================
