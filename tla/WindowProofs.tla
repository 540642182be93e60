---------------------------- MODULE WindowProofs ----------------------------
(***************************************************************************)
(* Every window has one holder (WindowHeld).  What the invariant needs     *)
(* beside itself is the plan of a round: the entries it has placed and not *)
(* yet applied belong to flows that are still Ready, at their generation,  *)
(* one entry to a flow (PlanHeld).  The plan stays within the capacities   *)
(* of resources and reservations (CapacityPlan).                           *)
(***************************************************************************)
EXTENDS StateProofs

\* A leaf that names no prover is left to Zenon.
USE ZenonT(60)
USE DEF authorityVars, resourceVars, reservationVars, flowVars, dispatchVars

\* The two halves of Windows, by schedule and by flow, are what WindowHeld says.
LEMMA WindowsDef == AttemptsCounted /\ Windows => WindowHeld
<1> SUFFICES ASSUME AttemptsCounted, Windows PROVE WindowHeld
  OBVIOUS
<1>1. ASSUME NEW f \in Flows, lifecycle[f] = "Scheduled"
      PROVE  /\ scheduled[f][1] \in DOMAIN schedules
             /\ scheduled[f][2] \in Undelivered(scheduled[f][1])
             /\ schedules[scheduled[f][1]].entries[scheduled[f][2]].flow = f
  <2>1. PICK s, i : /\ s \in DOMAIN schedules /\ i \in Undelivered(s)
                  /\ scheduled[f] = <<s, i>> /\ schedules[s].entries[i].flow = f
    BY <1>1 DEF Windows, WindowsOfFlows
  <2> QED BY <2>1, SMTT(60)
<1> QED BY <1>1 DEF WindowHeld, Windows, WindowsOfSchedules

-----------------------------------------------------------------------------
(***************************************************************************)
(* Steps that keep the windows, and steps that release some                *)
(***************************************************************************)

\* The rows of schedule s agree on what its windows are.
SameRow(s) ==
    /\ schedules'[s].entries = schedules[s].entries
    /\ schedules'[s].consumed = schedules[s].consumed
    /\ schedules'[s].pending_entries = schedules[s].pending_entries
    /\ schedules'[s].epoch = schedules[s].epoch

SameWindows == /\ DOMAIN schedules' = DOMAIN schedules
               /\ \A s \in DOMAIN schedules : SameRow(s)
               /\ epoch' = epoch

\* The flows that hold a window keep it, and their generation.
SameHolds ==
    \A f \in Flows :
       /\ lifecycle'[f] = "Scheduled" <=> lifecycle[f] = "Scheduled"
       /\ lifecycle[f] = "Scheduled" =>
             scheduled'[f] = scheduled[f] /\ flow'[f].generation = flow[f].generation

\* The undelivered entries of a schedule can be counted.
LEMMA UndeliveredFinite ==
    ASSUME TypeOK, NEW s \in DOMAIN schedules
    PROVE  IsFiniteSet(Undelivered(s)) /\ Cardinality(Undelivered(s)) \in Nat
<1>1. Undelivered(s) \subseteq DOMAIN schedules[s].entries
  BY DEF Undelivered
<1> QED BY <1>1, ScheduleRow, FS_Subset, FS_CardinalityType

\* The holders keep their windows; a schedule that is new has none, and one that is
\* forgotten had none.
LEMMA WindowsCarried ==
    ASSUME TypeOK, Windows, SameHolds, epoch' = epoch,
           \A s \in DOMAIN schedules' :
              /\ schedules'[s].epoch = epoch
              /\ s \in DOMAIN schedules =>
                    /\ schedules'[s].entries = schedules[s].entries
                    /\ schedules'[s].pending_entries = schedules[s].pending_entries
                    /\ Undelivered(s)' = Undelivered(s)
              /\ s \notin DOMAIN schedules =>
                    schedules'[s].pending_entries = 0 /\ Undelivered(s)' = {},
           \A s \in DOMAIN schedules :
              schedules[s].pending_entries # 0 => s \in DOMAIN schedules'
    PROVE  Windows'
<1>1. ASSUME NEW s \in DOMAIN schedules'
      PROVE  schedules'[s].pending_entries = Cardinality(Undelivered(s)')
  <2>1. Cardinality({}) = 0
    BY FS_EmptySet
  <2>2. s \in DOMAIN schedules => schedules[s].pending_entries = Cardinality(Undelivered(s))
    BY DEF Windows, WindowsOfSchedules
  <2> QED BY <2>1, <2>2
<1>2. ASSUME NEW s \in DOMAIN schedules', NEW i \in Undelivered(s)'
      PROVE  LET e == schedules'[s].entries[i]
             IN  /\ lifecycle'[e.flow] = "Scheduled"
                 /\ scheduled'[e.flow] = <<s, i>>
                 /\ flow'[e.flow].generation = e.flow_generation
  <2>1. /\ s \in DOMAIN schedules /\ i \in Undelivered(s)
        /\ schedules'[s].entries = schedules[s].entries
    OBVIOUS
  <2>2. PICK e : e = schedules[s].entries[i]
    OBVIOUS
  <2>3. /\ e.flow \in Flows /\ lifecycle[e.flow] = "Scheduled"
        /\ scheduled[e.flow] = <<s, i>> /\ flow[e.flow].generation = e.flow_generation
    BY <2>1, <2>2, WindowRow
  <2> QED BY <2>1, <2>2, <2>3 DEF SameHolds
<1>3. WindowsOfSchedules'
  BY <1>1, <1>2 DEF WindowsOfSchedules
<1>4. WindowsOfFlows'
  <2> SUFFICES ASSUME NEW f \in Flows, lifecycle'[f] = "Scheduled"
               PROVE  \E s \in DOMAIN schedules' : \E i \in Undelivered(s)' :
                         scheduled'[f] = <<s, i>> /\ schedules'[s].entries[i].flow = f
    BY DEF WindowsOfFlows
  <2>1. lifecycle[f] = "Scheduled" /\ scheduled'[f] = scheduled[f]
    BY DEF SameHolds
  <2>2. PICK s, i : /\ s \in DOMAIN schedules /\ i \in Undelivered(s)
                  /\ scheduled[f] = <<s, i>> /\ schedules[s].entries[i].flow = f
    BY <2>1, HeldRow, SMTT(60)
  <2>3. schedules[s].pending_entries # 0
    <3>1. schedules[s].pending_entries = Cardinality(Undelivered(s))
      BY <2>2 DEF Windows, WindowsOfSchedules
    <3> QED BY <2>2, <3>1, UndeliveredFinite, FS_EmptySet
  <2> QED BY <2>1, <2>2, <2>3
<1> QED BY <1>3, <1>4 DEF Windows

\* Nothing about windows changes.
LEMMA WindowsKept ==
    ASSUME TypeOK, Windows, SameWindows, SameHolds,
           \A s \in DOMAIN schedules : \A i \in DOMAIN schedules[s].entries :
              schedules[s].entries[i].kind = "Run" => (Ahead(s, i)' <=> Ahead(s, i))
    PROVE  Windows'
<1>1. \A s \in DOMAIN schedules : Undelivered(s)' = Undelivered(s)
  BY DEF SameWindows, SameRow, Undelivered
<1>2. \A s \in DOMAIN schedules : schedules'[s].epoch = epoch
  BY DEF Windows, WindowsOfSchedules, SameWindows, SameRow
<1> QED BY <1>1, <1>2, WindowsCarried DEF SameWindows, SameRow

\* Entries J of schedule s are delivered or given up: their flows leave
\* Scheduled, and the others keep their windows.
LEMMA WindowsReleased ==
    ASSUME TypeOK, Windows, NEW s \in DOMAIN schedules, NEW J \in SUBSET Undelivered(s),
           DOMAIN schedules' = DOMAIN schedules, epoch' = epoch,
           \A x \in DOMAIN schedules : x # s => SameRow(x),
           schedules'[s].entries = schedules[s].entries,
           schedules'[s].epoch = schedules[s].epoch,
           \A i \in DOMAIN schedules[s].entries : schedules[s].entries[i].kind = "Run" =>
              (schedules'[s].consumed[i] = 0 <=> schedules[s].consumed[i] = 0 /\ i \notin J),
           schedules'[s].pending_entries =
              Minus(schedules[s].pending_entries, Cardinality(J)),
           \A f \in Flows :
              /\ lifecycle'[f] = "Scheduled" <=>
                    /\ lifecycle[f] = "Scheduled"
                    /\ \A i \in J : schedules[s].entries[i].flow # f
              /\ lifecycle'[f] = "Scheduled" =>
                    scheduled'[f] = scheduled[f] /\ flow'[f].generation = flow[f].generation,
           \A x, i : Ahead(x, i)' <=> Ahead(x, i)
    PROVE  Windows'
<1>1. \A x \in DOMAIN schedules : x # s => Undelivered(x)' = Undelivered(x)
  BY SMTT(60) DEF SameRow, Undelivered
<1>2. Undelivered(s)' = Undelivered(s) \ J
  BY SMTT(60) DEF Undelivered
<1>3. Cardinality(Undelivered(s)') = Minus(Cardinality(Undelivered(s)), Cardinality(J))
  <2>1. IsFiniteSet(Undelivered(s)) /\ J \in SUBSET Undelivered(s)
    BY UndeliveredFinite
  <2>2. Cardinality(Undelivered(s) \ J) = Minus(Cardinality(Undelivered(s)), Cardinality(J))
    BY <2>1, CardMinus
  <2> QED BY <1>2, <2>2
<1>4. ASSUME NEW x \in DOMAIN schedules
      PROVE  /\ schedules'[x].epoch = epoch'
             /\ schedules'[x].pending_entries = Cardinality(Undelivered(x)')
             /\ schedules'[x].entries = schedules[x].entries
             /\ Undelivered(x)' \subseteq Undelivered(x)
  <2>1. schedules[x].epoch = epoch /\ schedules[x].pending_entries = Cardinality(Undelivered(x))
    BY DEF Windows, WindowsOfSchedules
  <2>2. CASE x = s
    BY <1>2, <1>3, <2>1, <2>2
  <2>3. CASE x # s
    BY <1>1, <2>1, <2>3 DEF SameRow
  <2> QED BY <2>2, <2>3
<1>5. ASSUME NEW x \in DOMAIN schedules, NEW i \in Undelivered(x)'
      PROVE  LET e == schedules'[x].entries[i]
             IN  /\ lifecycle'[e.flow] = "Scheduled"
                 /\ scheduled'[e.flow] = <<x, i>>
                 /\ flow'[e.flow].generation = e.flow_generation
  <2> DEFINE e == schedules[x].entries[i]
  <2>1. /\ i \in Undelivered(x) /\ schedules'[x].entries[i] = e
        /\ x = s => i \notin J
    BY <1>2, <1>4
  <2>2. /\ e.flow \in Flows
        /\ lifecycle[e.flow] = "Scheduled"
        /\ scheduled[e.flow] = <<x, i>>
        /\ flow[e.flow].generation = e.flow_generation
    BY <2>1, WindowRow
  <2>3. \A j \in J : schedules[s].entries[j].flow # e.flow
    <3> SUFFICES ASSUME NEW j \in J, schedules[s].entries[j].flow = e.flow PROVE FALSE
      OBVIOUS
    <3>1. j \in Undelivered(s)
      OBVIOUS
    <3>2. scheduled[schedules[s].entries[j].flow] = <<s, j>>
      BY <3>1, WindowRow, SMTT(60)
    <3>3. <<s, j>> = <<x, i>>
      BY <2>2, <3>2
    <3> QED BY <2>1, <3>3
  <2> HIDE DEF e
  <2> QED BY <2>1, <2>2, <2>3
<1>6. WindowsOfSchedules'
  BY <1>4, <1>5 DEF WindowsOfSchedules
<1>7. WindowsOfFlows'
  <2> SUFFICES ASSUME NEW f \in Flows, lifecycle'[f] = "Scheduled"
               PROVE  \E x \in DOMAIN schedules' : \E i \in Undelivered(x)' :
                         scheduled'[f] = <<x, i>> /\ schedules'[x].entries[i].flow = f
    BY DEF WindowsOfFlows
  <2>1. /\ lifecycle[f] = "Scheduled" /\ scheduled'[f] = scheduled[f]
        /\ \A j \in J : schedules[s].entries[j].flow # f
    OBVIOUS
  <2>2. PICK x, i : /\ x \in DOMAIN schedules /\ i \in Undelivered(x)
                  /\ scheduled[f] = <<x, i>> /\ schedules[x].entries[i].flow = f
    BY <2>1, HeldRow, SMTT(60)
  <2>3. x \in DOMAIN schedules' /\ i \in Undelivered(x)' /\ schedules'[x].entries = schedules[x].entries
    BY <1>1, <1>2, <1>4, <2>1, <2>2
  <2> QED BY <2>1, <2>2, <2>3
<1> QED BY <1>6, <1>7 DEF Windows

\* The schedules keep their entries: none is added, some may be forgotten.
EntriesKept ==
    \A s \in DOMAIN schedules' :
       s \in DOMAIN schedules /\ schedules'[s].entries = schedules[s].entries

\* The step does not touch a schedule that is being applied.
NotIssuing == round.phase # "Issue" /\ round'.phase # "Issue"

\* The round has no plan after the step.
LEMMA PlanEmpty ==
    ASSUME PlanHeld, EntriesKept, round'.entries = <<>>, round'.phase # "Issue"
    PROVE  PlanHeld'
<1>1. ToApply' = {} /\ OneRun(round.entries)'
  BY SMTT(60) DEF ToApply, OneRun
<1>2. (\A s \in DOMAIN schedules : OneRun(schedules[s].entries))'
  BY DEF PlanHeld, EntriesKept, OneRun
<1> QED BY <1>1, <1>2 DEF PlanHeld

\* Steps outside the application of a schedule that keep the windows.
LEMMA QuietWindows ==
    ASSUME TypeOK, Windows, SameWindows, SameHolds, NotIssuing
    PROVE  Windows' /\ EntriesKept
<1>1. \A s, i : Ahead(s, i)' <=> Ahead(s, i)
  BY DEF NotIssuing, Ahead
<1> QED BY <1>1, WindowsKept DEF SameWindows, SameRow, EntriesKept

\* A schedule loses an open attempt and keeps its windows.
LEMMA CountWindows ==
    ASSUME TypeOK, NEW s, epoch' = epoch,
           schedules' = [schedules EXCEPT ![s].open_attempts = Minus(@, 1)]
    PROVE  SameWindows
<1> DEFINE row == [schedules[s] EXCEPT !.open_attempts = Minus(@, 1)]
<1>1. schedules' = [schedules EXCEPT ![s] = row]
  OBVIOUS
<1>2. s \in DOMAIN schedules =>
         /\ row.entries = schedules[s].entries /\ row.consumed = schedules[s].consumed
         /\ row.pending_entries = schedules[s].pending_entries
         /\ row.epoch = schedules[s].epoch
  <2> SUFFICES ASSUME s \in DOMAIN schedules
               PROVE  /\ row.entries = schedules[s].entries /\ row.consumed = schedules[s].consumed
                      /\ row.pending_entries = schedules[s].pending_entries
                      /\ row.epoch = schedules[s].epoch
    OBVIOUS
  <2>1. schedules[s] \in ScheduleRows(Len(schedules[s].entries))
    BY ScheduleRow
  <2> QED BY <2>1 DEF ScheduleRows
<1> HIDE DEF row
<1> QED BY <1>1, <1>2 DEF SameWindows, SameRow

\* One flow that holds no window moves, and takes none.
LEMMA OneMove ==
    ASSUME TypeOK, NEW f \in Flows, NEW l \in Lifecycles \cup {"Absent"},
           lifecycle[f] # "Scheduled", l # "Scheduled",
           LET t == [lifecycle EXCEPT ![f] = l]
           IN  lifecycle' = t \/ lifecycle' = normalize_transient_states(t),
           \A g \in Flows \ {f} :
              scheduled'[g] = scheduled[g] /\ flow'[g].generation = flow[g].generation
    PROVE  SameHolds
<1> DEFINE t == [lifecycle EXCEPT ![f] = l]
<1>1. t \in Table /\ t[f] = l /\ \A g \in Flows \ {f} : t[g] = lifecycle[g]
  BY LifecycleTable DEF Table
<1> HIDE DEF t
<1>2. \A g \in Flows : normalize_transient_states(t)[g] = "Scheduled" <=> t[g] = "Scheduled"
  BY <1>1, NormalizeTable
<1>3. \A g \in Flows : lifecycle'[g] = "Scheduled" <=> t[g] = "Scheduled"
  BY <1>2 DEF t
<1> QED BY <1>1, <1>3 DEF SameHolds

\* What release_run_entries does to the windows.
LEMMA ReleaseWindows ==
    ASSUME TypeOK, Windows, NEW s \in DOMAIN schedules, NEW I, NEW t,
           release_run_entries(s, I, t), epoch' = epoch, NotIssuing,
           \A f \in Flows : t[f] = "Scheduled" <=> Released(s, I)[f] = "Scheduled",
           \A f \in Flows : lifecycle'[f] = "Scheduled" =>
              flow'[f].generation = flow[f].generation
    PROVE  Windows' /\ EntriesKept
<1> DEFINE sch == schedules[s]
           open == {i \in I \cap DOMAIN sch.entries : sch.consumed[i] = 0}
           runs == {i \in open : sch.entries[i].kind = "Run"}
           J == Holding(s, I)
           marks == [i \in DOMAIN sch.consumed |-> IF i \in open THEN 2 ELSE sch.consumed[i]]
           left == Minus(sch.pending_entries, Cardinality(runs))
           row == [sch EXCEPT !.consumed = marks, !.pending_entries = left]
<1>1. J \in SUBSET Undelivered(s) /\ runs = J
  BY HoldingWindows, SMTT(60) DEF NotIssuing
<1>2. /\ schedules' = [schedules EXCEPT ![s] = row]
      /\ scheduled' = [f \in Flows |->
            IF f \in {sch.entries[i].flow : i \in J} THEN NoSlot ELSE scheduled[f]]
      /\ lifecycle' = t
  BY DEF release_run_entries
<1>3. /\ sch \in ScheduleRows(Len(sch.entries))
      /\ DOMAIN sch.entries = DOMAIN sch.consumed
  BY ScheduleRow
<1>4. /\ row.entries = sch.entries /\ row.epoch = sch.epoch
      /\ row.consumed = marks /\ row.pending_entries = left
  <2> HIDE DEF marks, left, sch
  <2> QED BY <1>3 DEF ScheduleRows
<1>5. \A i \in DOMAIN sch.entries : sch.entries[i].kind = "Run" =>
         (marks[i] = 0 <=> sch.consumed[i] = 0 /\ i \notin J)
  <2>1. \A i \in DOMAIN sch.entries : sch.entries[i].kind = "Run" =>
           (i \in J <=> i \in open)
    BY <1>1
  <2>2. \A i \in open : sch.consumed[i] = 0
    OBVIOUS
  <2> HIDE DEF sch, open, J
  <2> QED BY <1>3, <2>1, <2>2, SMTT(60)
<1> HIDE DEF row, marks
<1>6. /\ DOMAIN schedules' = DOMAIN schedules
      /\ schedules'[s] = row
      /\ \A x \in DOMAIN schedules : x # s => schedules'[x] = schedules[x]
  BY <1>2
<1>7. \A f \in Flows :
         /\ Released(s, I)[f] = "Scheduled" <=>
               lifecycle[f] = "Scheduled" /\ \A i \in J : sch.entries[i].flow # f
         /\ (\A i \in J : sch.entries[i].flow # f) => scheduled'[f] = scheduled[f]
  <2>1. \A f \in Flows : Released(s, I)[f] =
           IF \E i \in J : sch.entries[i].flow = f THEN "Ready" ELSE lifecycle[f]
    BY DEF Released
  <2> HIDE DEF J, sch
  <2> QED BY <1>2, <2>1
<1>8. \A x, i : Ahead(x, i)' <=> Ahead(x, i)
  BY DEF NotIssuing, Ahead
<1>9. Windows'
  <2> HIDE DEF J, sch, runs, left
  <2>1. \A x \in DOMAIN schedules : x # s => SameRow(x)
    BY <1>6 DEF SameRow
  <2>2. \A f \in Flows :
           /\ lifecycle'[f] = "Scheduled" <=>
                 lifecycle[f] = "Scheduled" /\ \A i \in J : sch.entries[i].flow # f
           /\ lifecycle'[f] = "Scheduled" =>
                 scheduled'[f] = scheduled[f] /\ flow'[f].generation = flow[f].generation
    BY <1>2, <1>7
  <2>3. schedules'[s].pending_entries = Minus(sch.pending_entries, Cardinality(J))
    BY <1>1, <1>4, <1>6 DEF left
  <2> QED BY <1>1, <1>4, <1>5, <1>6, <1>8, <2>1, <2>2, <2>3, WindowsReleased, SMTT(60) DEF sch
<1> QED BY <1>4, <1>6, <1>9 DEF EntriesKept

-----------------------------------------------------------------------------
(***************************************************************************)
(* The calls                                                               *)
(***************************************************************************)

\* A call between rounds: there is no plan.
LEMMA IdlePlan ==
    ASSUME PlanHeld, Idle, round' = round
    PROVE  NotIssuing /\ (EntriesKept => PlanHeld')
<1>1. round.phase = "Idle" /\ round.entries = <<>>
  BY DEF Idle, PlanHeld
<1> QED BY <1>1, PlanEmpty DEF NotIssuing

\* A call between rounds that leaves windows and their holders alone.
LEMMA CallKeeps ==
    ASSUME TypeOK, Windows, PlanHeld, Idle, round' = round, SameWindows, SameHolds
    PROVE  Windows' /\ PlanHeld'
BY IdlePlan, QuietWindows

\* A step that leaves the schedules and the epoch alone.
LEMMA SameSchedules == schedules' = schedules /\ epoch' = epoch => SameWindows
BY DEF SameWindows, SameRow

\* Registering and retiring resources, reservations, classes and policies.
LEMMA TopologyWindows ==
    ASSUME TypeOK, Windows, PlanHeld, Topology
    PROVE  Windows' /\ PlanHeld'
<1>1. Idle /\ UNCHANGED <<epoch, lifecycle, flow, scheduled, schedules, round>>
  BY DEF Topology, register_resource, register_reservation, retire_reservation,
               register_class, install_policy
<1> QED BY <1>1, SameSchedules, CallKeeps DEF SameHolds

\* A refused call, and the start of a round.
LEMMA BeginRoundWindows ==
    ASSUME TypeOK, Windows, PlanHeld, NEW now \in Readings, Refused(now) \/ RoundBegin(now)
    PROVE  Windows' /\ PlanHeld'
<1>1. Idle /\ UNCHANGED <<epoch, lifecycle, flow, scheduled, schedules>>
  BY DEF Refused, RoundBegin
<1>2. SameHolds /\ SameWindows
  BY <1>1, SameSchedules DEF SameHolds
<1>3. CASE round' = round
  BY <1>1, <1>2, <1>3, CallKeeps
<1>4. CASE round' = [IdleRound EXCEPT !.phase = "Reclaim", !.now = now]
  <2>1. round'.phase = "Reclaim" /\ round'.entries = <<>> /\ round.phase = "Idle"
    BY <1>1, <1>4 DEF Idle, IdleRound
  <2> QED BY <1>2, <2>1, QuietWindows, PlanEmpty DEF NotIssuing
<1> QED BY <1>3, <1>4 DEF Refused, RoundBegin

\* The calls on one flow that holds no window, and a signal to any flow.
LEMMA FlowCallWindows ==
    ASSUME TypeOK, Windows, PlanHeld, NEW f \in Flows,
           \/ \E d \in FlowSpace : admit_flow(f, d)
           \/ \E signal \in SignalSpace, now \in Readings : notify_readiness(f, signal, now)
           \/ \E after \in {"Waiting", "Failed"}, now \in Readings :
                 resolve_ambiguous(f, after, now)
           \/ retire_flow(f)
    PROVE  Windows' /\ PlanHeld'
<1>1. CASE \E d \in FlowSpace : admit_flow(f, d)
  <2>1. PICK d \in FlowSpace : admit_flow(f, d)
    BY <1>1
  <2>2. /\ Idle /\ lifecycle[f] = "Absent" /\ lifecycle' = [lifecycle EXCEPT ![f] = "Waiting"]
        /\ scheduled' = [scheduled EXCEPT ![f] = NoSlot] /\ flow' = [flow EXCEPT ![f] = d]
        /\ UNCHANGED <<epoch, schedules, round>>
    BY <2>1 DEF admit_flow
  <2>3. \A g \in Flows \ {f} : scheduled'[g] = scheduled[g] /\ flow'[g] = flow[g]
    BY <2>2 DEF TypeOK, FlowFieldsTyped, FlowRowsTyped
  <2>4. SameHolds
    BY <2>2, <2>3, OneMove DEF Lifecycles
  <2> QED BY <2>2, <2>4, SameSchedules, CallKeeps
<1>2. CASE \E signal \in SignalSpace, now \in Readings : notify_readiness(f, signal, now)
  <2>1. PICK signal \in SignalSpace, now \in Readings : notify_readiness(f, signal, now)
    BY <1>2
  <2>2. /\ Idle /\ flow' = [flow EXCEPT ![f].readiness_signal = signal]
        /\ lifecycle[f] # "Absent"
        /\ UNCHANGED <<epoch, schedules, lifecycle, scheduled, round>>
    BY <2>1 DEF notify_readiness
  <2>3. flow[f] \in FlowDescriptors
    BY <2>2 DEF TypeOK, FlowRowsTyped
  <2>4. [flow[f] EXCEPT !.readiness_signal = signal].generation = flow[f].generation
    BY <2>3 DEF FlowDescriptors
  <2>5. \A g \in Flows : flow'[g].generation = flow[g].generation
    BY <2>2, <2>4 DEF TypeOK, FlowRowsTyped
  <2> QED BY <2>2, <2>5, SameSchedules, CallKeeps DEF SameHolds
<1>3. CASE \E after \in {"Waiting", "Failed"}, now \in Readings :
              resolve_ambiguous(f, after, now)
  <2>1. PICK after \in {"Waiting", "Failed"}, now \in Readings : resolve_ambiguous(f, after, now)
    BY <1>3
  <2>2. /\ Idle /\ lifecycle[f] = "Ambiguous" /\ lifecycle' = [lifecycle EXCEPT ![f] = after]
        /\ UNCHANGED <<epoch, schedules, flow, scheduled, round>>
    BY <2>1 DEF resolve_ambiguous
  <2>3. SameHolds
    BY <2>2, OneMove DEF Lifecycles
  <2> QED BY <2>2, <2>3, SameSchedules, CallKeeps
<1>4. CASE retire_flow(f)
  <2>1. /\ Idle /\ is_terminal(lifecycle[f]) /\ lifecycle' = [lifecycle EXCEPT ![f] = "Absent"]
        /\ scheduled' = [scheduled EXCEPT ![f] = NoSlot]
        /\ flow' = [flow EXCEPT ![f] = NoDescriptor]
        /\ UNCHANGED <<epoch, schedules, round>>
    BY <1>4 DEF retire_flow
  <2>2. lifecycle[f] # "Scheduled"
    BY <2>1 DEF is_terminal
  <2>3. \A g \in Flows \ {f} : scheduled'[g] = scheduled[g] /\ flow'[g] = flow[g]
    BY <2>1 DEF TypeOK, FlowFieldsTyped, FlowRowsTyped
  <2>4. SameHolds
    BY <2>1, <2>2, <2>3, OneMove
  <2> QED BY <2>1, <2>4, SameSchedules, CallKeeps
<1> QED BY <1>1, <1>2, <1>3, <1>4

\* One entry of schedule s is delivered (k = 1) or given up (k = 2).
LEMMA OneDelivered ==
    ASSUME TypeOK, Windows, NEW s \in DOMAIN schedules, NEW i \in Undelivered(s),
           NEW k \in {1, 2}, NEW row, schedules' = [schedules EXCEPT ![s] = row],
           row.entries = schedules[s].entries, row.epoch = schedules[s].epoch,
           row.consumed = [schedules[s].consumed EXCEPT ![i] = k],
           row.pending_entries = Minus(schedules[s].pending_entries, 1),
           epoch' = epoch, NotIssuing,
           \A f \in Flows :
              /\ lifecycle'[f] = "Scheduled" <=>
                    lifecycle[f] = "Scheduled" /\ f # schedules[s].entries[i].flow
              /\ lifecycle'[f] = "Scheduled" =>
                    scheduled'[f] = scheduled[f] /\ flow'[f].generation = flow[f].generation
    PROVE  Windows' /\ EntriesKept
<1>1. /\ DOMAIN schedules' = DOMAIN schedules /\ schedules'[s] = row
      /\ \A x \in DOMAIN schedules : x # s => schedules'[x] = schedules[x]
  OBVIOUS
<1> DEFINE J == {i}
<1>2. \A j \in DOMAIN schedules[s].entries : schedules[s].entries[j].kind = "Run" =>
         (schedules'[s].consumed[j] = 0 <=> schedules[s].consumed[j] = 0 /\ j \notin J)
  <2>1. DOMAIN schedules[s].consumed = DOMAIN schedules[s].entries
    BY ScheduleRow
  <2> QED BY <1>1, <2>1, SMTT(60)
<1>3. schedules'[s].pending_entries = Minus(schedules[s].pending_entries, Cardinality(J))
  BY <1>1, FS_Singleton
<1>4. \A x \in DOMAIN schedules : x # s => SameRow(x)
  BY <1>1 DEF SameRow
<1>5. \A x, j : Ahead(x, j)' <=> Ahead(x, j)
  BY DEF NotIssuing, Ahead
<1>6. J \in SUBSET Undelivered(s) /\ schedules'[s].entries = schedules[s].entries
      /\ schedules'[s].epoch = schedules[s].epoch
  BY <1>1
<1>7. \A f \in Flows :
         /\ lifecycle'[f] = "Scheduled" <=>
               lifecycle[f] = "Scheduled" /\ \A j \in J : schedules[s].entries[j].flow # f
         /\ lifecycle'[f] = "Scheduled" =>
               scheduled'[f] = scheduled[f] /\ flow'[f].generation = flow[f].generation
  OBVIOUS
<1> HIDE DEF J
<1>8. Windows'
  BY <1>1, <1>2, <1>3, <1>4, <1>5, <1>6, <1>7, WindowsReleased, SMTT(60)
<1> QED BY <1>1, <1>8 DEF EntriesKept

\* A generation change releases the window of a Scheduled flow.
LEMMA UpdateWindows ==
    ASSUME TypeOK, Windows, PlanHeld, NEW f \in Flows, NEW d \in FlowSpace,
           update_flow(f, d)
    PROVE  Windows' /\ PlanHeld'
<1>1. /\ Idle /\ RetireWindow(f) /\ flow' = [flow EXCEPT ![f] = d]
      /\ UNCHANGED <<epoch, round>>
  BY DEF update_flow
<1>2. NotIssuing /\ (EntriesKept => PlanHeld')
  BY <1>1, IdlePlan
<1>3. \A g \in Flows : g # f => flow'[g] = flow[g]
  BY <1>1 DEF TypeOK, FlowRowsTyped
<1>4. CASE lifecycle[f] = "Scheduled"
  <2>1. PICK s, i : /\ s \in DOMAIN schedules /\ i \in Undelivered(s)
                    /\ scheduled[f] = <<s, i>> /\ schedules[s].entries[i].flow = f
    BY <1>4, HeldRow
  <2>2. release_run_entries(s, {i}, Released(s, {i}))
    <3>1. scheduled[f][1] = s /\ scheduled[f][2] = i
      BY <2>1, SMTT(60)
    <3> QED BY <1>1, <1>4, <2>1, <3>1 DEF RetireWindow
  <2>3. lifecycle' = Released(s, {i}) /\ i \in Holding(s, {i})
    <3>1. i \in {i} \cap Undelivered(s)
      BY <2>1
    <3> QED BY <1>2, <2>1, <2>2, <3>1, HoldingWindows DEF release_run_entries, NotIssuing
  <2>4. lifecycle'[f] = "Ready"
    BY <2>1, <2>3 DEF Released
  <2>5. \A g \in Flows : lifecycle'[g] = "Scheduled" => flow'[g].generation = flow[g].generation
    BY <1>3, <2>4
  <2>6. \A g \in Flows : Released(s, {i})[g] = "Scheduled" <=> Released(s, {i})[g] = "Scheduled"
    OBVIOUS
  <2>7. s \in DOMAIN schedules
    BY <2>1
  <2> QED BY <1>1, <1>2, <2>2, <2>5, <2>6, <2>7, ReleaseWindows
<1>5. CASE lifecycle[f] # "Scheduled"
  <2>1. UNCHANGED <<schedules, scheduled, lifecycle>>
    BY <1>1, <1>5 DEF RetireWindow
  <2>2. SameHolds
    BY <1>3, <1>5, <2>1 DEF SameHolds
  <2> QED BY <1>1, <2>1, <2>2, SameSchedules, CallKeeps
<1> QED BY <1>4, <1>5

\* Cancelling closes the attempt or gives up the window.
LEMMA CancelWindows ==
    ASSUME TypeOK, AuthorityExclusive, Windows, PlanHeld, NEW f \in Flows, cancel_flow(f)
    PROVE  Windows' /\ PlanHeld'
<1> DEFINE t == [lifecycle EXCEPT ![f] = "Cancelled"]
<1>1. /\ Idle /\ lifecycle' = normalize_transient_states(t)
      /\ scheduled' = [scheduled EXCEPT ![f] = NoSlot]
      /\ UNCHANGED <<epoch, flow, round>>
  BY DEF cancel_flow
<1>2. NotIssuing /\ (EntriesKept => PlanHeld')
  BY <1>1, IdlePlan
<1>3. \A g \in Flows \ {f} : scheduled'[g] = scheduled[g] /\ flow'[g] = flow[g]
  BY <1>1 DEF TypeOK, FlowFieldsTyped
<1>4. CASE lifecycle[f] = "Scheduled"
  <2>1. PICK s, i : /\ s \in DOMAIN schedules /\ i \in Undelivered(s)
                    /\ scheduled[f] = <<s, i>> /\ schedules[s].entries[i].flow = f
    BY <1>4, HeldRow
  <2>2. open_attempt[f] = NoAttempt
    BY <1>4, NamedAttempt
  <2> DEFINE marks == [schedules[s].consumed EXCEPT ![i] = 2]
             left == Minus(schedules[s].pending_entries, 1)
             row == [schedules[s] EXCEPT !.consumed = marks, !.pending_entries = left]
  <2>3. schedules' = [schedules EXCEPT ![s] = row]
    <3>1. scheduled[f][1] = s /\ scheduled[f][2] = i
      BY <2>1, SMTT(60)
    <3> QED BY <1>4, <2>2, <3>1 DEF cancel_flow
  <2>4. /\ row.entries = schedules[s].entries /\ row.epoch = schedules[s].epoch
        /\ row.consumed = marks /\ row.pending_entries = left
    <3>1. schedules[s] \in ScheduleRows(Len(schedules[s].entries))
      BY <2>1, ScheduleRow
    <3> HIDE DEF marks, left
    <3> QED BY <3>1 DEF ScheduleRows
  <2>5. \A g \in Flows : lifecycle'[g] = "Scheduled" <=> lifecycle[g] = "Scheduled" /\ g # f
    <3>1. t \in Table /\ \A g \in Flows : t[g] = IF g = f THEN "Cancelled" ELSE lifecycle[g]
      BY LifecycleTable DEF Table, Lifecycles
    <3> HIDE DEF t
    <3> QED BY <1>1, <3>1, NormalizeTable, SMTT(60)
  <2>6. \A g \in Flows :
           /\ lifecycle'[g] = "Scheduled" <=>
                 lifecycle[g] = "Scheduled" /\ g # schedules[s].entries[i].flow
           /\ lifecycle'[g] = "Scheduled" =>
                 scheduled'[g] = scheduled[g] /\ flow'[g].generation = flow[g].generation
    BY <1>3, <2>1, <2>5
  <2>7. s \in DOMAIN schedules /\ i \in Undelivered(s) /\ 2 \in {1, 2} /\ epoch' = epoch
    BY <1>1, <2>1
  <2> HIDE DEF row
  <2> QED BY <1>2, <2>3, <2>4, <2>6, <2>7, OneDelivered
<1>5. CASE lifecycle[f] # "Scheduled"
  <2>1. SameHolds
    BY <1>1, <1>3, <1>5, OneMove DEF Lifecycles
  <2>2. \/ schedules' = schedules
        \/ \E s : schedules' = [schedules EXCEPT ![s].open_attempts = Minus(@, 1)]
    BY <1>5 DEF cancel_flow
  <2>3. SameWindows
    BY <1>1, <2>2, SameSchedules, CountWindows
  <2> QED BY <1>1, <2>1, <2>3, CallKeeps
<1> QED BY <1>4, <1>5

\* The attempt of a flow is closed: the windows stay with their holders.
LEMMA ClosedWindows ==
    ASSUME TypeOK, AuthorityExclusive, NEW a \in LiveAttempts, NEW f \in Flows,
           f = attempts[a].ticket.entry.flow, epoch' = epoch, flow' = flow,
           schedules' = [schedules EXCEPT
              ![attempts[a].ticket.schedule].open_attempts = Minus(@, 1)],
           NEW l \in Lifecycles, l # "Scheduled",
           \/ lifecycle' = [lifecycle EXCEPT ![f] = l]
           \/ lifecycle' = normalize_transient_states([lifecycle EXCEPT ![f] = l]),
           \A g \in Flows \ {f} : scheduled'[g] = scheduled[g]
    PROVE  SameWindows /\ SameHolds
<1>1. lifecycle[f] # "Scheduled"
  <2>1. lifecycle[f] \in {"Dispatched", "Running"}
    BY LiveAttempt
  <2> QED BY <2>1
<1>2. SameWindows
  BY CountWindows
<1>3. l \in Lifecycles \cup {"Absent"}
  OBVIOUS
<1> QED BY <1>1, <1>2, <1>3, OneMove

\* abandon_attempt and preempt_attempt.
LEMMA CloseByCallerWindows ==
    ASSUME TypeOK, AuthorityExclusive, Windows, PlanHeld,
           NEW a \in DOMAIN attempts, NEW now \in Readings,
           abandon_attempt(a, now) \/ preempt_attempt(a, now)
    PROVE  Windows' /\ PlanHeld'
<1>1. ASSUME NEW state \in AttemptStates, NEW after \in Lifecycles, after # "Scheduled",
             CloseByCaller(a, state, after, now)
      PROVE  Windows' /\ PlanHeld'
  <2> DEFINE f == attempts[a].ticket.entry.flow
             t == normalize_transient_states([lifecycle EXCEPT ![f] = after])
  <2>1. /\ Idle /\ a \in LiveAttempts /\ apply_attempt_closed(a, state, t)
        /\ UNCHANGED <<epoch, flow, scheduled, round>>
    BY <1>1 DEF CloseByCaller
  <2>2. /\ lifecycle' = t
        /\ schedules' = [schedules EXCEPT
              ![attempts[a].ticket.schedule].open_attempts = Minus(@, 1)]
    <3> HIDE DEF t
    <3> QED BY <1>1, <2>1, CloseEffect
  <2>3. f \in Flows
    BY <2>1, LiveAttempt
  <2>4. SameWindows /\ SameHolds
    <3>1. \A g \in Flows \ {f} : scheduled'[g] = scheduled[g]
      BY <2>1
    <3> HIDE DEF f
    <3> QED BY <1>1, <2>1, <2>2, <2>3, <3>1, ClosedWindows DEF f
  <2> QED BY <2>1, <2>4, CallKeeps
<1>2. /\ "Abandoned" \in AttemptStates /\ "Preempted" \in AttemptStates
      /\ "Ambiguous" \in Lifecycles /\ "Preempting" \in Lifecycles
  BY DEF AttemptStates, Lifecycles
<1> QED BY <1>1, <1>2 DEF abandon_attempt, preempt_attempt

\* A commit.
LEMMA CompleteWindows ==
    ASSUME TypeOK, AuthorityExclusive, Windows, PlanHeld, NEW ev \in Evidence,
           NEW now \in Readings, complete(ev, now)
    PROVE  Windows' /\ PlanHeld'
<1> DEFINE f == ev.ticket.entry.flow
           a == ev.attempt
           l == LifecycleAfter(ev, now)
<1>1. /\ Idle /\ NamesAttempt(ev) /\ StillOpen(ev)
      /\ schedules' = [schedules EXCEPT
            ![attempts[a].ticket.schedule].open_attempts = Minus(@, 1)]
      /\ scheduled' = [scheduled EXCEPT ![f] = NoSlot]
      /\ lifecycle' = normalize_transient_states([lifecycle EXCEPT ![f] = l])
      /\ UNCHANGED <<epoch, flow, round>>
  BY DEF complete
<1>2. a \in LiveAttempts /\ attempts[a].ticket.entry.flow = f
  BY <1>1 DEF NamesAttempt, StillOpen, LiveAttempts
<1>3. f \in Flows
  BY <1>2, LiveAttempt
<1>4. l \in Lifecycles /\ l # "Scheduled"
  BY DEF LifecycleAfter, Lifecycles
<1> HIDE DEF f, a, l
<1>5. \A g \in Flows \ {f} : scheduled'[g] = scheduled[g]
  BY <1>1, <1>3 DEF TypeOK, FlowFieldsTyped
<1>6. SameWindows /\ SameHolds
  BY <1>1, <1>2, <1>3, <1>4, <1>5, ClosedWindows
<1> QED BY <1>1, <1>6, CallKeeps

\* A start is recorded for a flow in flight.
LEMMA StartWindows ==
    ASSUME TypeOK, AuthorityExclusive, Windows, PlanHeld, NEW t \in tickets,
           NEW now \in Readings, mark_started(t, now)
    PROVE  Windows' /\ PlanHeld'
<1> DEFINE a == t.attempt
           f == attempts[a].ticket.entry.flow
<1>1. /\ Idle /\ a \in DOMAIN attempts /\ attempts[a].state = "Open"
      /\ lifecycle' = IF open_attempt[f] = a
                      THEN [lifecycle EXCEPT ![f] = "Running"] ELSE lifecycle
      /\ UNCHANGED <<epoch, flow, scheduled, schedules, round>>
  BY DEF mark_started
<1>2. a \in LiveAttempts
  BY <1>1 DEF LiveAttempts, is_attempt_terminal
<1>3. f \in Flows /\ open_attempt[f] = a /\ lifecycle[f] # "Scheduled"
  <2>1. f \in Flows /\ open_attempt[f] = a /\ lifecycle[f] \in {"Dispatched", "Running"}
    BY <1>2, LiveAttempt
  <2> QED BY <2>1
<1> HIDE DEF f, a
<1>4. SameHolds
  BY <1>1, <1>3, OneMove DEF Lifecycles
<1> QED BY <1>1, <1>4, SameSchedules, CallKeeps

\* A dispatch delivers one window.
LEMMA BeginWindows ==
    ASSUME TypeOK, Windows, PlanHeld, NEW s \in DOMAIN schedules,
           NEW i \in DOMAIN schedules[s].entries, NEW boot \in Boots, NEW now \in Readings,
           begin_dispatch(s, i, boot, now)
    PROVE  Windows' /\ PlanHeld'
<1> DEFINE sch == schedules[s]
           e == sch.entries[i]
           marks == [sch.consumed EXCEPT ![i] = 1]
           left == Minus(sch.pending_entries, 1)
           open == sch.open_attempts + 1
           row == [sch EXCEPT !.open_attempts = open, !.consumed = marks,
                              !.pending_entries = left]
<1>1. /\ Idle /\ schedules' = [schedules EXCEPT ![s] = row]
      /\ lifecycle' = [lifecycle EXCEPT ![e.flow] = "Dispatched"]
      /\ e.kind = "Run" /\ sch.consumed[i] = 0
      /\ UNCHANGED <<epoch, flow, scheduled, round>>
  BY DEF begin_dispatch
<1>2. NotIssuing /\ (EntriesKept => PlanHeld')
  BY <1>1, IdlePlan
<1>3. i \in Undelivered(s)
  BY <1>1, <1>2, NothingAhead DEF NotIssuing, Undelivered
<1>4. /\ row.entries = sch.entries /\ row.epoch = sch.epoch
      /\ row.consumed = marks /\ row.pending_entries = left
  <2>1. sch \in ScheduleRows(Len(sch.entries))
    BY ScheduleRow
  <2> HIDE DEF marks, left, open, sch
  <2> QED BY <2>1 DEF ScheduleRows
<1> HIDE DEF row
<1>5. \A g \in Flows : lifecycle'[g] = "Scheduled" <=> lifecycle[g] = "Scheduled" /\ g # e.flow
  <2> HIDE DEF e
  <2> QED BY <1>1 DEF TypeOK, FlowRowsTyped
<1>6. \A g \in Flows :
         /\ lifecycle'[g] = "Scheduled" <=>
               lifecycle[g] = "Scheduled" /\ g # schedules[s].entries[i].flow
         /\ lifecycle'[g] = "Scheduled" =>
               scheduled'[g] = scheduled[g] /\ flow'[g].generation = flow[g].generation
  BY <1>1, <1>5
<1>7. 1 \in {1, 2}
  OBVIOUS
<1>8. Windows' /\ EntriesKept
  BY <1>1, <1>2, <1>3, <1>4, <1>6, <1>7, OneDelivered
<1> QED BY <1>2, <1>8

\* release_schedule, and the reclaiming of one expired schedule.
LEMMA ReleaseScheduleWindows ==
    ASSUME TypeOK, Windows, PlanHeld, NEW s \in DOMAIN schedules,
           release_schedule(s) \/ RoundReclaim(s)
    PROVE  Windows' /\ PlanHeld'
<1> DEFINE I == DOMAIN schedules[s].entries
           t == Released(s, I)
<1>1. /\ \/ release_run_entries(s, I, t)
         \/ release_run_entries(s, I, normalize_transient_states(t))
      /\ UNCHANGED <<epoch, flow, round>>
      /\ round.phase \in {"Idle", "Reclaim"}
  BY DEF release_schedule, RoundReclaim, Idle
<1>2. t \in Table
  BY ReleasedTable
<1> HIDE DEF t
<1>3. \A g \in Flows : normalize_transient_states(t)[g] = "Scheduled" <=> t[g] = "Scheduled"
  BY <1>2, NormalizeTable
<1>4. NotIssuing /\ round'.entries = <<>>
  BY <1>1 DEF PlanHeld, NotIssuing
<1>5. Windows' /\ EntriesKept
  <2> HIDE DEF I
  <2> QED BY <1>1, <1>3, <1>4, ReleaseWindows DEF t
<1> QED BY <1>4, <1>5, PlanEmpty DEF NotIssuing

\* A new epoch forgets the schedules and takes back every window.
LEMMA EpochWindows ==
    ASSUME TypeOK, PlanHeld, advance_epoch
    PROVE  Windows' /\ PlanHeld'
<1> DEFINE t == [f \in Flows |->
                   IF open_attempt[f] \in LiveAttempts THEN "Ambiguous"
                   ELSE IF lifecycle[f] = "Scheduled" THEN "Ready" ELSE lifecycle[f]]
<1>1. /\ Idle /\ schedules' = <<>> /\ round' = round
      /\ lifecycle' = normalize_transient_states(t)
  BY DEF advance_epoch
<1>2. t \in Table /\ \A f \in Flows : t[f] # "Scheduled"
  BY LifecycleTable DEF Table, Lifecycles
<1> HIDE DEF t
<1>3. \A f \in Flows : lifecycle'[f] # "Scheduled"
  BY <1>1, <1>2, NormalizeTable, SMTT(60)
<1>4. DOMAIN schedules' = {}
  BY <1>1, SMTT(60)
<1>5. Windows'
  BY <1>3, <1>4 DEF Windows, WindowsOfSchedules, WindowsOfFlows
<1>6. EntriesKept
  BY <1>4 DEF EntriesKept
<1> QED BY <1>1, <1>5, <1>6, IdlePlan

-----------------------------------------------------------------------------
(***************************************************************************)
(* The rounds                                                              *)
(***************************************************************************)

\* A round enters its next phase, or is cut off by the journal.
LEMMA EnterWindows ==
    ASSUME TypeOK, Windows, PlanHeld,
           RoundReclaimed \/ RoundRefreshed \/ RoundRank \/ RoundAborted
    PROVE  Windows' /\ PlanHeld'
<1>1. /\ UNCHANGED <<epoch, lifecycle, flow, scheduled, schedules>>
      /\ \/ round' = IdleRound /\ round.phase # "Issue"
         \/ \E p \in {"Refresh", "Overdue", "Assign"}, S \in SUBSET Flows :
               Enter(p, S) /\ round.phase \in {"Reclaim", "Refresh", "Overdue"}
  BY DEF RoundReclaimed, RoundRefreshed, RoundRank, RoundAborted, Overdue
<1>2. SameHolds /\ SameWindows
  BY <1>1, SameSchedules DEF SameHolds
<1>3. NotIssuing /\ round'.entries = <<>>
  <2>1. CASE round' = IdleRound /\ round.phase # "Issue"
    BY <2>1 DEF IdleRound, NotIssuing
  <2>2. ASSUME NEW p \in {"Refresh", "Overdue", "Assign"}, NEW S \in SUBSET Flows,
               Enter(p, S), round.phase \in {"Reclaim", "Refresh", "Overdue"}
        PROVE  NotIssuing /\ round'.entries = <<>>
    <3>1. round \in Rounds /\ round.phase # "Issue"
          /\ p \in {"Reclaim", "Refresh", "Overdue", "Assign"} /\ p # "Issue"
      BY <2>2 DEF TypeOK
    <3>2. round'.phase = p /\ round'.entries = round.entries
      BY <2>2, <3>1, EnterType
    <3>3. round.phase \notin {"Assign", "Issue"}
      BY <2>2
    <3> QED BY <3>1, <3>2, <3>3 DEF NotIssuing, PlanHeld
  <2> QED BY <1>1, <2>1, <2>2
<1> QED BY <1>2, <1>3, QuietWindows, PlanEmpty DEF NotIssuing

\* A waiting flow is looked at.
LEMMA RefreshWindows ==
    ASSUME TypeOK, CandidatesSettled, Windows, PlanHeld, NEW f \in Flows, RoundRefresh(f)
    PROVE  Windows' /\ PlanHeld'
<1> DEFINE reason == derived_readiness(f, round.now)
           l == IF reason = "Selected" THEN "Ready" ELSE LapseLifecycle(f, reason)
<1>1. /\ round.phase = "Refresh" /\ f \in round.todo
      /\ lifecycle' = [lifecycle EXCEPT ![f] = l]
      /\ Enter("Refresh", round.todo \ {f})
      /\ UNCHANGED <<epoch, flow, scheduled, schedules>>
  BY DEF RoundRefresh
<1>2. lifecycle[f] = "Waiting"
  BY <1>1 DEF CandidatesSettled
<1>3. l \in Lifecycles /\ l # "Scheduled"
  <2>1. LapseLifecycle(f, reason) \in {"Failed", "Waiting"}
    BY <1>2, LapseType
  <2> QED BY <2>1 DEF Lifecycles
<1> HIDE DEF l
<1>4. NotIssuing /\ round'.entries = <<>>
  <2>1. /\ round \in Rounds /\ round.phase # "Issue" /\ round.todo \ {f} \in SUBSET Flows
        /\ "Refresh" \in {"Reclaim", "Refresh", "Overdue", "Assign"}
    BY <1>1 DEF TypeOK, Rounds
  <2>2. round'.phase = "Refresh" /\ round'.entries = round.entries
    BY <1>1, <2>1, EnterType
  <2> QED BY <1>1, <2>2 DEF NotIssuing, PlanHeld
<1>5. SameHolds
  BY <1>1, <1>2, <1>3, OneMove
<1> QED BY <1>1, <1>4, <1>5, SameSchedules, QuietWindows, PlanEmpty DEF NotIssuing

\* An overdue attempt is stopped.
LEMMA OverdueWindows ==
    ASSUME TypeOK, AuthorityExclusive, CandidatesSettled, Windows, PlanHeld,
           NEW f \in Flows, RoundOverdue(f)
    PROVE  Windows' /\ PlanHeld'
<1> DEFINE a == open_attempt[f]
           t == [lifecycle EXCEPT ![f] = "Preempting"]
<1>1. /\ round.phase = "Overdue" /\ f \in round.todo
      /\ apply_attempt_closed(a, "Preempted", t)
      /\ Enter("Overdue", round.todo \ {f})
      /\ UNCHANGED <<epoch, flow, scheduled>>
  BY DEF RoundOverdue
<1>2. a \in LiveAttempts /\ attempts[a].ticket.entry.flow = f
  <2>1. a # NoAttempt
    BY <1>1 DEF CandidatesSettled
  <2> QED BY <2>1, NamedAttempt
<1>3. "Preempted" \in AttemptStates /\ "Preempting" \in Lifecycles /\ "Preempting" # "Scheduled"
  BY DEF AttemptStates, Lifecycles
<1>4. /\ lifecycle' = t
      /\ schedules' = [schedules EXCEPT
            ![attempts[a].ticket.schedule].open_attempts = Minus(@, 1)]
  <2> HIDE DEF t, a
  <2> QED BY <1>1, <1>2, <1>3, CloseEffect
<1>5. SameWindows /\ SameHolds
  <2>1. \A g \in Flows \ {f} : scheduled'[g] = scheduled[g]
    BY <1>1
  <2> HIDE DEF a
  <2> QED BY <1>1, <1>2, <1>3, <1>4, <2>1, ClosedWindows
<1>6. NotIssuing /\ round'.entries = <<>>
  <2>1. /\ round \in Rounds /\ round.phase # "Issue" /\ round.todo \ {f} \in SUBSET Flows
        /\ "Overdue" \in {"Reclaim", "Refresh", "Overdue", "Assign"}
    BY <1>1 DEF TypeOK, Rounds
  <2>2. round'.phase = "Overdue" /\ round'.entries = round.entries
    BY <1>1, <2>1, EnterType
  <2> QED BY <1>1, <2>2 DEF NotIssuing, PlanHeld
<1> QED BY <1>5, <1>6, QuietWindows, PlanEmpty DEF NotIssuing

\* An entry stays as it was placed while only flow f and flows that are neither
\* Ready nor Completed move.
LEMMA PlacedKept ==
    ASSUME TypeOK, NEW e \in Entries, Placed(e), UNCHANGED <<resource, flow, served_work>>,
           round'.now = round.now, round'.todo \subseteq round.todo,
           NEW f, e.flow # f, lifecycle[f] = "Ready",
           \A g \in Flows : g # f /\ lifecycle[g] \in {"Ready", "Completed"} =>
              lifecycle'[g] = lifecycle[g]
    PROVE  Placed(e)'
<1>1. e.flow \in Flows /\ lifecycle[e.flow] = "Ready"
  BY DEF Placed, Entries
<1>2. flow[e.flow] \in FlowDescriptors
  BY <1>1 DEF TypeOK, FlowRowsTyped
<1>3. \A g \in flow[e.flow].dependencies : g \in Flows /\ lifecycle[g] = "Completed" /\ g # f
  BY <1>2 DEF Placed, FlowDescriptors
<1>4. /\ lifecycle'[e.flow] = "Ready"
      /\ \A g \in flow[e.flow].dependencies : lifecycle'[g] = "Completed"
  BY <1>1, <1>3
<1> QED BY <1>4 DEF Placed

\* A candidate has been dealt with: the entries placed before are as good as
\* they were, and the one that may have been added is the candidate's.
LEMMA PlanGrown ==
    ASSUME TypeOK, CandidatesSettled, PlanHeld, NEW f \in round.todo,
           round.phase = "Assign", round'.phase = "Assign", round'.now = round.now,
           round'.todo = round.todo \ {f}, EntriesKept,
           UNCHANGED <<resource, flow, served_work>>,
           \A g \in Flows : g # f /\ lifecycle[g] \in {"Ready", "Completed"} =>
              lifecycle'[g] = lifecycle[g],
           \A i \in DOMAIN round'.entries : round'.entries[i].kind = "Run" =>
              \/ i \in DOMAIN round.entries /\ round'.entries[i] = round.entries[i]
              \/ /\ i = Len(round'.entries) /\ round'.entries[i].flow = f
                 /\ \E e : round'.entries[i] = e /\ Placed(e)'
    PROVE  PlanHeld'
<1> DEFINE new == round'.entries
           old == round.entries
<1>1. round.todo \subseteq Flows /\ lifecycle[f] = "Ready" /\ f \in Flows
      /\ \A i \in DOMAIN old : old[i] \in Entries
  BY SMTT(60) DEF TypeOK, Rounds, CandidatesSettled
<1>2. \A i \in DOMAIN old : old[i].kind = "Run" => Placed(old[i])
  BY DEF PlanHeld, ToApply
<1>3. ASSUME NEW i \in DOMAIN old, old[i].kind = "Run", NEW e, e = old[i]
      PROVE  e.flow # f /\ Placed(e)'
  <2>1. Placed(e) /\ e \in Entries
    BY <1>1, <1>2, <1>3
  <2>2. e.flow # f
    BY <2>1 DEF Placed
  <2> QED BY <1>1, <2>1, <2>2, PlacedKept
<1>4. \A e \in {new[i] : i \in ToApply'} : Placed(e)'
  <2> SUFFICES ASSUME NEW i \in DOMAIN new, new[i].kind = "Run", NEW e, e = new[i]
               PROVE  Placed(e)'
    BY DEF ToApply
  <2>1. CASE i \in DOMAIN old /\ new[i] = old[i]
    BY <1>3, <2>1
  <2> QED BY <2>1
<1>5. OneRun(new)
  <2> SUFFICES ASSUME NEW i \in DOMAIN new, NEW j \in DOMAIN new, new[i].kind = "Run",
                      new[j].kind = "Run", new[i].flow = new[j].flow
               PROVE  i = j
    BY DEF OneRun
  <2> DEFINE Old(k) == k \in DOMAIN old /\ new[k] = old[k]
             Last(k) == k = Len(new) /\ new[k].flow = f
  <2>1. (Old(i) \/ Last(i)) /\ (Old(j) \/ Last(j))
    OBVIOUS
  <2>2. CASE Old(i) /\ Old(j)
    BY <2>2 DEF PlanHeld, OneRun
  <2>3. \A k \in {i, j} : Old(k) => new[k].flow # f
    BY <1>3
  <2> QED BY <2>1, <2>2, <2>3
<1>6. (\A s \in DOMAIN schedules : OneRun(schedules[s].entries))'
  BY DEF PlanHeld, EntriesKept, OneRun
<1> QED BY <1>4, <1>5, <1>6 DEF PlanHeld

\* What the test of a candidate establishes.
LEMMA CandidatePlaced ==
    ASSUME TypeOK, CandidatesSettled, NEW f \in Flows, Candidate(f), Placeable(f),
           derived_readiness(f, round.now) = "Selected", Quantum(f) # 0,
           round'.now = round.now, round'.todo = round.todo \ {f},
           UNCHANGED <<resource, flow, served_work>>,
           \A g \in Flows : lifecycle[g] \in {"Ready", "Completed"} =>
              lifecycle'[g] = lifecycle[g],
           NEW e, e = RunEntry(f, Quantum(f))
    PROVE  Placed(e)' /\ e.flow = f
<1> DEFINE q == Quantum(f)
<1>1. /\ lifecycle[f] = "Ready" /\ flow[f] \in FlowDescriptors
      /\ served_work[f] \in Nat
  BY CandidateRow DEF TypeOK, FlowFieldsTyped
<1>2. q \in Nat /\ q # 0 /\ q <= remaining_work(f)
  BY QuantumType
<1>3. /\ Signalled(f, round.now) /\ dependencies_satisfied(f)
      /\ ~DeadlinePassed(flow[f].deadline_tick, round.now)
  BY DEF derived_readiness
<1>4. flow[f].dependencies \subseteq Flows /\ flow[f].estimated_work \in Nat
  BY <1>1 DEF FlowDescriptors
<1> HIDE DEF q
<1>5. served_work[f] + q <= flow[f].estimated_work
  BY <1>1, <1>2, <1>4, SMTT(60) DEF remaining_work, Minus
<1>6. /\ e.flow = f /\ e.flow_generation = flow[f].generation /\ e.resource = flow[f].resource
      /\ e.resource_generation = flow[f].resource_generation /\ e.quantum = q
      /\ e.deadline_tick = flow[f].deadline_tick
  BY DEF RunEntry, q
<1>7. lifecycle'[f] = "Ready" /\ \A g \in flow[f].dependencies : lifecycle'[g] = "Completed"
  BY <1>1, <1>3, <1>4 DEF dependencies_satisfied
<1>8. resource[e.resource].generation = e.resource_generation
  BY <1>6 DEF Placeable
<1>9. Placed(e)'
  <2>1. /\ lifecycle'[e.flow] = "Ready" /\ e.flow \notin round'.todo
        /\ flow'[e.flow].generation = e.flow_generation
        /\ resource'[e.resource].generation = e.resource_generation
        /\ served_work'[e.flow] + e.quantum <= flow'[e.flow].estimated_work
        /\ e.deadline_tick = flow'[e.flow].deadline_tick
    BY <1>5, <1>6, <1>7, <1>8
  <2>2. /\ ~DeadlinePassed(e.deadline_tick, round'.now)
        /\ \A g \in flow'[e.flow].dependencies : lifecycle'[g] = "Completed"
        /\ round'.now >= flow'[e.flow].release_tick
        /\ flow'[e.flow].readiness_signal # "NotReady"
    BY <1>3, <1>6, <1>7 DEF Signalled
  <2> QED BY <2>1, <2>2 DEF Placed, DeadlinePassed, has_deadline
<1> QED BY <1>6, <1>9

\* A candidate lapses, is skipped or finds its resource at the ceiling.
LEMMA PassedWindows ==
    ASSUME TypeOK, CandidatesSettled, Windows, PlanHeld, NEW f \in Flows,
           RoundLapse(f) \/ RoundSkip(f) \/ RoundBlocked(f)
    PROVE  Windows' /\ PlanHeld'
<1> DEFINE l == LapseLifecycle(f, derived_readiness(f, round.now))
<1>1. /\ round.phase = "Assign" /\ f \in round.todo
      /\ lifecycle' = lifecycle \/ lifecycle' = [lifecycle EXCEPT ![f] = l]
      /\ Enter("Assign", round.todo \ {f}) \/ round' = IdleRound
      /\ UNCHANGED <<epoch, resource, flow, served_work, scheduled, schedules>>
  BY DEF RoundLapse, RoundSkip, RoundBlocked, Candidate
<1>2. lifecycle[f] = "Ready"
  BY <1>1 DEF CandidatesSettled
<1>3. l \in Lifecycles \cup {"Absent"} /\ l # "Scheduled"
  <2>1. l \in {"Failed", "Ready"}
    BY <1>2, LapseType
  <2> QED BY <2>1 DEF Lifecycles
<1> HIDE DEF l
<1>4. SameHolds
  <2>1. CASE lifecycle' = lifecycle
    BY <1>1, <2>1 DEF SameHolds
  <2>2. CASE lifecycle' = [lifecycle EXCEPT ![f] = l]
    BY <1>1, <1>2, <1>3, <2>2, OneMove
  <2> QED BY <1>1, <2>1, <2>2
<1>5. SameWindows
  BY <1>1, SameSchedules
<1>6. CASE round' = IdleRound
  <2>1. NotIssuing /\ round'.entries = <<>>
    BY <1>1, <1>6 DEF IdleRound, NotIssuing
  <2> QED BY <1>4, <1>5, <2>1, QuietWindows, PlanEmpty DEF NotIssuing
<1>7. CASE Enter("Assign", round.todo \ {f})
  <2>1. /\ round \in Rounds /\ round.phase # "Issue" /\ round.todo \ {f} \in SUBSET Flows
        /\ "Assign" \in {"Reclaim", "Refresh", "Overdue", "Assign"}
    BY <1>1 DEF TypeOK, Rounds
  <2>2. round'.phase = "Assign" /\ round'.entries = round.entries /\ round'.todo = round.todo \ {f}
    BY <1>7, <2>1, EnterType
  <2>3. round'.now = round.now
    BY <1>7, <2>1 DEF Enter, Rounds
  <2>4. Windows' /\ EntriesKept
    BY <1>1, <1>4, <1>5, <2>2, QuietWindows DEF NotIssuing
  <2>5. \A g \in Flows : g # f => lifecycle'[g] = lifecycle[g]
    BY <1>1 DEF TypeOK, FlowRowsTyped
  <2>6. \A i \in DOMAIN round'.entries :
           i \in DOMAIN round.entries /\ round'.entries[i] = round.entries[i]
    BY <2>2
  <2>7. PlanHeld'
    BY <1>1, <2>2, <2>3, <2>4, <2>5, <2>6, PlanGrown
  <2> QED BY <2>4, <2>7
<1> QED BY <1>1, <1>6, <1>7

\* An element of an extended sequence is an old one or the one put at its end.
LEMMA AppendCases ==
    ASSUME NEW S, NEW s \in Seq(S), NEW e, NEW t, t = Append(s, e), NEW i \in DOMAIN t
    PROVE  \/ i \in DOMAIN s /\ t[i] = s[i]
           \/ i = Len(t) /\ t[i] = e
<1>1. /\ Len(s) \in Nat /\ DOMAIN s = 1..Len(s) /\ DOMAIN t = 1..(Len(s) + 1)
      /\ Len(t) = Len(s) + 1 /\ t[Len(s) + 1] = e /\ \A j \in 1..Len(s) : t[j] = s[j]
  BY SMTT(60)
<1>2. i \in 1..Len(s) \/ i = Len(s) + 1
  BY <1>1, SMTT(60)
<1>3. CASE i \in 1..Len(s)
  BY <1>1, <1>3
<1>4. CASE i = Len(s) + 1
  BY <1>1, <1>4
<1> QED BY <1>2, <1>3, <1>4

\* The window of a candidate is placed after the entries es, which add to the
\* plan nothing that grants a window.
LEMMA PlacePlan ==
    ASSUME TypeOK, CandidatesSettled, PlanHeld, NEW f \in Flows, Candidate(f), Placeable(f),
           derived_readiness(f, round.now) = "Selected",
           NEW es \in Seq(Entries), Place(f, es), EntriesKept,
           UNCHANGED <<resource, flow, served_work>>,
           \A g \in Flows : lifecycle[g] \in {"Ready", "Completed"} =>
              lifecycle'[g] = lifecycle[g],
           \A i \in DOMAIN es : es[i].kind = "Run" =>
              i \in DOMAIN round.entries /\ es[i] = round.entries[i]
    PROVE  PlanHeld' /\ round'.phase = "Assign"
<1> DEFINE q == Quantum(f)
           old == round.entries
           new == round'.entries
<1>1. /\ round.phase = "Assign" /\ f \in round.todo
      /\ round'.phase = "Assign" /\ round'.todo = round.todo \ {f} /\ round'.now = round.now
      /\ q = 0 => new = es
      /\ q # 0 => RunEntry(f, q) \in Entries /\ new = Append(es, RunEntry(f, q))
  BY PlaceType DEF Candidate
<1>2. ASSUME NEW i \in DOMAIN new, new[i].kind = "Run"
      PROVE  \/ i \in DOMAIN old /\ new[i] = old[i]
             \/ i = Len(new) /\ new[i].flow = f /\ \E e : new[i] = e /\ Placed(e)'
  <2>1. CASE q = 0
    BY <1>1, <1>2, <2>1
  <2>2. CASE q # 0
    <3>1. PICK e : e = RunEntry(f, q)
      OBVIOUS
    <3>2. Placed(e)' /\ e.flow = f
      BY <1>1, <2>2, <3>1, CandidatePlaced
    <3> HIDE DEF q
    <3>3. new = Append(es, e)
      BY <1>1, <2>2, <3>1
    <3>4. \/ i \in DOMAIN es /\ new[i] = es[i]
          \/ i = Len(new) /\ new[i] = e
      <4> HIDE DEF new
      <4>1. i \in DOMAIN new
        BY <1>2
      <4> QED BY <3>3, <4>1, AppendCases, SMTT(60)
    <3> QED BY <1>2, <3>2, <3>4
  <2> QED BY <2>1, <2>2
<1>3. PlanHeld'
  BY <1>1, <1>2, PlanGrown
<1> QED BY <1>1, <1>3

\* A window is placed.
LEMMA GrantWindows ==
    ASSUME TypeOK, CandidatesSettled, Windows, PlanHeld, NEW f \in Flows, RoundGrant(f)
    PROVE  Windows' /\ PlanHeld'
<1>1. /\ Candidate(f) /\ derived_readiness(f, round.now) = "Selected" /\ Placeable(f)
      /\ Place(f, round.entries)
      /\ UNCHANGED <<epoch, resource, flow, lifecycle, served_work, scheduled, schedules>>
  BY DEF RoundGrant
<1>2. round.entries \in Seq(Entries) /\ round.phase = "Assign"
  BY <1>1 DEF TypeOK, Rounds, Candidate
<1>3. EntriesKept /\ SameHolds /\ SameWindows
  BY <1>1, SameSchedules DEF EntriesKept, SameHolds
<1>4. PlanHeld' /\ round'.phase = "Assign"
  BY <1>1, <1>2, <1>3, PlacePlan
<1> QED BY <1>2, <1>3, <1>4, QuietWindows DEF NotIssuing

\* A window is placed in the stead of an incumbent.
LEMMA DisplaceWindows ==
    ASSUME TypeOK, AuthorityExclusive, CandidatesSettled, Windows, PlanHeld,
           NEW f \in Flows, NEW v \in Flows, RoundDisplace(f, v)
    PROVE  Windows' /\ PlanHeld'
<1> DEFINE a == open_attempt[v]
           t == [lifecycle EXCEPT ![v] = "Preempting"]
           stop == [attempts[a].ticket.entry EXCEPT !.kind = "Preempt"]
           es == Append(round.entries, stop)
<1>1. /\ Candidate(f) /\ derived_readiness(f, round.now) = "Selected" /\ Placeable(f)
      /\ v \in Incumbents(flow[f].resource)
      /\ apply_attempt_closed(a, "Preempted", t) /\ Place(f, es)
      /\ UNCHANGED <<epoch, resource, flow, served_work, scheduled>>
  BY DEF RoundDisplace
<1>2. /\ a \in LiveAttempts /\ attempts[a].ticket.entry.flow = v
      /\ lifecycle[v] \in {"Dispatched", "Running"}
  <2>1. open_attempt[v] # NoAttempt
    BY <1>1 DEF Incumbents
  <2> QED BY <2>1, NamedAttempt
<1>3. "Preempted" \in AttemptStates /\ "Preempting" \in Lifecycles /\ "Preempting" # "Scheduled"
  BY DEF AttemptStates, Lifecycles
<1>4. /\ lifecycle' = t
      /\ schedules' = [schedules EXCEPT
            ![attempts[a].ticket.schedule].open_attempts = Minus(@, 1)]
  <2> HIDE DEF t, a
  <2> QED BY <1>1, <1>2, <1>3, CloseEffect
<1>5. SameWindows /\ SameHolds
  <2>1. \A g \in Flows \ {v} : scheduled'[g] = scheduled[g]
    BY <1>1
  <2> HIDE DEF a
  <2> QED BY <1>1, <1>2, <1>3, <1>4, <2>1, ClosedWindows
<1>6. round.entries \in Seq(Entries) /\ round.phase = "Assign"
  BY <1>1 DEF TypeOK, Rounds, Candidate
<1>7. es \in Seq(Entries) /\ stop.kind = "Preempt"
  <2>1. attempts[a].ticket.entry \in Entries
    BY <1>2, LiveAttempt, AttemptRow
  <2> HIDE DEF a
  <2>2. stop \in Entries /\ stop.kind = "Preempt"
    BY <2>1 DEF Entries
  <2> QED BY <1>6, <2>2, SMTT(60)
<1> HIDE DEF stop
<1>8. \A i \in DOMAIN es : es[i].kind = "Run" =>
         i \in DOMAIN round.entries /\ es[i] = round.entries[i]
  BY <1>6, <1>7, SMTT(60)
<1>9. \A g \in Flows : lifecycle[g] \in {"Ready", "Completed"} => lifecycle'[g] = lifecycle[g]
  BY <1>2, <1>4 DEF TypeOK, FlowRowsTyped
<1>10. EntriesKept
  BY <1>5 DEF EntriesKept, SameWindows, SameRow
<1> HIDE DEF es
<1>11. PlanHeld' /\ round'.phase = "Assign"
  BY <1>1, <1>7, <1>8, <1>9, <1>10, PlacePlan
<1> QED BY <1>5, <1>6, <1>11, QuietWindows DEF NotIssuing

-----------------------------------------------------------------------------
(***************************************************************************)
(* The windows: a schedule is issued, applied entry by entry, and retired  *)
(***************************************************************************)

\* A round's schedule is stored; nothing of it is applied yet.
LEMMA IssueWindows ==
    ASSUME TypeOK, Windows, PlanHeld, RoundIssue
    PROVE  Windows' /\ PlanHeld'
<1> DEFINE ns == next_schedule
           es == round.entries
           issued == [epoch |-> epoch, policy |-> PolicyBinding, at_tick |-> round.now,
                      entries |-> es, consumed |-> [i \in DOMAIN es |-> 0],
                      open_attempts |-> 0, pending_entries |-> 0]
<1>1. /\ round.phase = "Assign" /\ round.todo = {}
      /\ schedules' = IF es = <<>> THEN schedules ELSE With(schedules, ns, issued)
      /\ round' = [round EXCEPT !.phase = "Issue", !.next = 1]
      /\ UNCHANGED <<epoch, resource, lifecycle, flow, served_work, scheduled, next_schedule>>
  BY DEF RoundIssue
<1>2. /\ round'.phase = "Issue" /\ round'.next = 1 /\ round'.entries = es
      /\ round'.todo = {} /\ round'.now = round.now
  <2>1. round \in Rounds
    BY DEF TypeOK
  <2> QED BY <1>1, <2>1 DEF Rounds
<1>3. es \in Seq(Entries) /\ ns \notin DOMAIN schedules
  BY <1>1, SMTT(60) DEF TypeOK, SchedulesTyped, Rounds
<1>4. /\ issued.epoch = epoch /\ issued.entries = es /\ issued.pending_entries = 0
      /\ \A i \in DOMAIN es : issued.consumed[i] = 0
  OBVIOUS
<1> HIDE DEF issued
<1>5. /\ \A x \in DOMAIN schedules : x \in DOMAIN schedules' /\ schedules'[x] = schedules[x]
      /\ \A x \in DOMAIN schedules' : x \in DOMAIN schedules \/ x = ns
      /\ es # <<>> => ns \in DOMAIN schedules' /\ schedules'[ns] = issued
      /\ ns \in DOMAIN schedules' => schedules'[ns] = issued
  BY <1>1, <1>3 DEF With
<1>6. \A x \in DOMAIN schedules : Undelivered(x)' = Undelivered(x)
  BY <1>1, <1>3, <1>5 DEF Undelivered, Ahead
<1>7. \A x \in DOMAIN schedules' : x = ns => Undelivered(x)' = {}
  BY <1>1, <1>2, <1>3, <1>4, <1>5, SMTT(60) DEF Undelivered, Ahead
<1>8. Windows'
  <2>1. SameHolds
    BY <1>1 DEF SameHolds
  <2>2. \A x \in DOMAIN schedules : schedules[x].epoch = epoch
    BY DEF Windows, WindowsOfSchedules
  <2>3. \A x \in DOMAIN schedules' :
           /\ schedules'[x].epoch = epoch
           /\ x \notin DOMAIN schedules =>
                 schedules'[x].pending_entries = 0 /\ Undelivered(x)' = {}
    BY <1>4, <1>5, <1>7, <2>2
  <2> QED BY <1>1, <1>5, <1>6, <2>1, <2>3, WindowsCarried
<1>9. PlanHeld'
  <2>1. ToApply' = ToApply
    BY <1>1, <1>2, <1>3, SMTT(60) DEF ToApply
  <2>2. ASSUME NEW e, Placed(e) PROVE Placed(e)'
    BY <1>1, <1>2, <2>2 DEF Placed
  <2>3. \A e \in {round'.entries[i] : i \in ToApply'} : Placed(e)'
    BY <1>2, <2>1, <2>2 DEF PlanHeld
  <2>4. \A s \in DOMAIN schedules' : OneRun(schedules'[s].entries)
    BY <1>4, <1>5 DEF PlanHeld
  <2>5. OneRun(round'.entries)
    BY <1>2 DEF PlanHeld
  <2>6. round'.entries # <<>> =>
           /\ next_schedule' \in DOMAIN schedules'
           /\ schedules'[next_schedule'].entries = round'.entries
           /\ \A i \in DOMAIN round'.entries : schedules'[next_schedule'].consumed[i] = 0
    BY <1>1, <1>2, <1>4, <1>5
  <2> QED BY <1>2, <2>3, <2>4, <2>5, <2>6 DEF PlanHeld
<1> QED BY <1>8, <1>9

\* The end of a round retires no schedule with an undelivered window.
LEMMA FinishWindows ==
    ASSUME TypeOK, Windows, PlanHeld, RoundFinish
    PROVE  Windows' /\ PlanHeld'
<1> DEFINE ns == next_schedule
           S == Retired(schedules)
<1>1. /\ round.phase = "Issue" /\ round.next > Len(round.entries)
      /\ lifecycle' = normalize_transient_states(lifecycle)
      /\ schedules' = Without(schedules, S) /\ round' = IdleRound
      /\ UNCHANGED <<epoch, flow, scheduled>>
  BY DEF RoundFinish
<1>2. round'.phase = "Idle" /\ round'.entries = <<>>
  BY <1>1 DEF IdleRound
<1>3. \A f \in Flows : lifecycle'[f] = "Scheduled" <=> lifecycle[f] = "Scheduled"
  BY <1>1, LifecycleTable, NormalizeTable
<1>4. /\ \A x \in DOMAIN schedules' : /\ x \in DOMAIN schedules /\ schedules'[x] = schedules[x]
      /\ \A x \in DOMAIN schedules : x \notin S => x \in DOMAIN schedules'
  BY <1>1 DEF Without
<1>5. ASSUME NEW x \in DOMAIN schedules, NEW i \in DOMAIN schedules[x].entries
      PROVE  ~Ahead(x, i)
  <2> SUFFICES ASSUME x = ns, i >= round.next PROVE FALSE
    BY DEF Ahead
  <2>1. round.entries \in Seq(Entries) /\ round.next \in Nat /\ ns \in Nat
    BY DEF TypeOK, Rounds, SchedulesTyped
  <2>2. round.entries # <<>>
    BY <2>1, SMTT(60) DEF TypeOK, SchedulesTyped
  <2>3. schedules[x].entries = round.entries
    BY <1>1, <2>2 DEF PlanHeld
  <2> QED BY <1>1, <2>1, <2>3, SMTT(60)
<1>6. \A x \in DOMAIN schedules' : Undelivered(x)' = Undelivered(x)
  <2> SUFFICES ASSUME NEW x \in DOMAIN schedules' PROVE Undelivered(x)' = Undelivered(x)
    OBVIOUS
  <2>1. x \in DOMAIN schedules /\ schedules'[x] = schedules[x]
    BY <1>4
  <2>2. \A i \in DOMAIN schedules[x].entries : ~Ahead(x, i) /\ ~Ahead(x, i)'
    BY <1>2, <1>5, <2>1 DEF Ahead
  <2> QED BY <2>1, <2>2 DEF Undelivered
<1>7. Windows'
  <2>1. SameHolds
    BY <1>1, <1>3 DEF SameHolds
  <2>2. \A x \in DOMAIN schedules : schedules[x].epoch = epoch
    BY DEF Windows, WindowsOfSchedules
  <2>3. ASSUME NEW x \in DOMAIN schedules, schedules[x].pending_entries # 0
        PROVE  x \in DOMAIN schedules'
    <3>1. x \in Nat
      BY ScheduleRow
    <3>2. x \notin S
      BY <2>3, <3>1, SMTT(60) DEF Retired
    <3> QED BY <1>4, <3>2
  <2> QED BY <1>1, <1>4, <1>6, <2>1, <2>2, <2>3, WindowsCarried
<1>8. EntriesKept
  BY <1>4 DEF EntriesKept
<1> QED BY <1>2, <1>7, <1>8, PlanEmpty

\* One entry is applied: its flow takes the window, and no other flow of the
\* plan is touched.
LEMMA ApplyWindows ==
    ASSUME TypeOK, Windows, PlanHeld, RoundApply
    PROVE  Windows' /\ PlanHeld'
<1> DEFINE ns == next_schedule
           n == round.next
           es == round.entries
<1>1. PICK e : e = es[n]
  OBVIOUS
<1>2. /\ round.phase = "Issue" /\ n <= Len(es)
      /\ round' = [round EXCEPT !.next = @ + 1]
      /\ IF Applies(e) THEN Assign(e) ELSE UNCHANGED <<scheduled, lifecycle, schedules>>
      /\ UNCHANGED <<epoch, resource, flow, served_work, next_schedule>>
  BY <1>1 DEF RoundApply
<1>3. /\ e \in Entries /\ n \in DOMAIN es /\ ns \in DOMAIN schedules
      /\ schedules[ns].entries = es /\ schedules[ns].consumed[n] = 0
      /\ e.kind = "Run" => Placed(e)
      /\ Applies(e) <=> e.kind = "Run"
  BY <1>1, <1>2, AppliesPlaced
<1>4. /\ round'.phase = "Issue" /\ round'.next = n + 1 /\ round'.entries = es
      /\ round'.todo = round.todo /\ round'.now = round.now
  <2>1. round \in Rounds
    BY DEF TypeOK
  <2> QED BY <1>2, <2>1 DEF Rounds
<1>5. n \in Nat \ {0} /\ \A i \in DOMAIN es : i \in Nat
  BY SMTT(60) DEF TypeOK, Rounds
<1>6. \A x : x # ns => \A i : ~Ahead(x, i) /\ ~Ahead(x, i)'
  BY <1>2 DEF Ahead
<1>7. CASE e.kind # "Run"
  <2>1. UNCHANGED <<scheduled, lifecycle, schedules>>
    BY <1>2, <1>3, <1>7
  <2>2. ASSUME NEW x \in DOMAIN schedules, NEW i \in DOMAIN schedules[x].entries,
               schedules[x].entries[i].kind = "Run"
        PROVE  Ahead(x, i)' <=> Ahead(x, i)
    <3>1. CASE x = ns
      BY <1>1, <1>2, <1>3, <1>4, <1>5, <1>7, <2>2, <3>1, SMTT(60) DEF Ahead
    <3> QED BY <1>6, <3>1
  <2>3. Windows'
    <3>1. SameWindows /\ SameHolds
      BY <1>2, <2>1, SameSchedules DEF SameHolds
    <3> QED BY <2>2, <3>1, WindowsKept
  <2>4. PlanHeld'
    <3>1. ToApply' = ToApply
      BY <1>1, <1>2, <1>3, <1>4, <1>5, <1>7, SMTT(60) DEF ToApply
    <3>2. ASSUME NEW d, Placed(d) PROVE Placed(d)'
      BY <1>2, <1>4, <2>1, <3>2 DEF Placed
    <3>3. \A d \in {round'.entries[i] : i \in ToApply'} : Placed(d)'
      BY <1>4, <3>1, <3>2 DEF PlanHeld
    <3>4. OneRun(round'.entries) /\ \A s \in DOMAIN schedules' : OneRun(schedules'[s].entries)
      BY <1>4, <2>1 DEF PlanHeld
    <3> QED BY <1>2, <1>4, <2>1, <3>3, <3>4 DEF PlanHeld
  <2> QED BY <2>3, <2>4
<1>8. CASE e.kind = "Run"
  <2> DEFINE p == schedules[ns].pending_entries + 1
             row == [schedules[ns] EXCEPT !.pending_entries = p]
  <2>1. /\ scheduled' = [scheduled EXCEPT ![e.flow] = <<ns, n>>]
        /\ lifecycle' = [lifecycle EXCEPT ![e.flow] = "Scheduled"]
        /\ schedules' = [schedules EXCEPT ![ns] = row]
    BY <1>2, <1>3, <1>8 DEF Assign
  <2>2. /\ row.entries = es /\ row.consumed = schedules[ns].consumed
        /\ row.epoch = schedules[ns].epoch /\ row.pending_entries = p
    <3>1. schedules[ns] \in ScheduleRows(Len(schedules[ns].entries))
      BY <1>3, ScheduleRow
    <3> HIDE DEF p
    <3> QED BY <1>3, <3>1 DEF ScheduleRows
  <2> HIDE DEF row
  <2>3. /\ DOMAIN schedules' = DOMAIN schedules /\ schedules'[ns] = row
        /\ \A x \in DOMAIN schedules : x # ns => schedules'[x] = schedules[x]
    BY <1>3, <2>1
  <2>4. /\ e.flow \in Flows /\ lifecycle[e.flow] = "Ready"
        /\ flow[e.flow].generation = e.flow_generation
    BY <1>3, <1>8 DEF Placed, Entries
  <2>5. /\ lifecycle'[e.flow] = "Scheduled" /\ scheduled'[e.flow] = <<ns, n>>
        /\ \A f \in Flows \ {e.flow} :
              lifecycle'[f] = lifecycle[f] /\ scheduled'[f] = scheduled[f]
    BY <2>1, <2>4 DEF TypeOK, FlowRowsTyped, FlowFieldsTyped
  <2>6. \A x \in DOMAIN schedules : x # ns => Undelivered(x)' = Undelivered(x)
    BY <1>6, <2>3 DEF Undelivered
  <2>7. \A x \in DOMAIN schedules : x = ns =>
           Undelivered(x)' = Undelivered(x) \cup {n} /\ n \notin Undelivered(x)
    BY <1>1, <1>2, <1>3, <1>4, <1>5, <1>8, <2>2, <2>3, SMTT(60) DEF Undelivered, Ahead
  <2>8. ASSUME NEW x \in DOMAIN schedules
        PROVE  /\ schedules'[x].epoch = epoch'
               /\ schedules'[x].entries = schedules[x].entries
               /\ schedules'[x].consumed = schedules[x].consumed
               /\ schedules'[x].pending_entries = Cardinality(Undelivered(x)')
    <3>1. schedules[x].epoch = epoch /\ schedules[x].pending_entries = Cardinality(Undelivered(x))
      BY DEF Windows, WindowsOfSchedules
    <3>2. CASE x = ns
      <4>1. IsFiniteSet(Undelivered(x)) /\ n \notin Undelivered(x)
            /\ Undelivered(x)' = Undelivered(x) \cup {n}
        BY <2>7, <3>2, UndeliveredFinite
      <4>2. Cardinality(Undelivered(x) \cup {n}) = Cardinality(Undelivered(x)) + 1
        BY <4>1, FS_AddElement
      <4> QED BY <1>2, <1>3, <2>2, <2>3, <3>1, <3>2, <4>1, <4>2
    <3>3. CASE x # ns
      BY <1>2, <2>3, <2>6, <3>1, <3>3
    <3> QED BY <3>2, <3>3
  <2>9. ASSUME NEW x \in DOMAIN schedules, NEW i \in Undelivered(x)'
        PROVE  LET d == schedules[x].entries[i]
               IN  /\ lifecycle'[d.flow] = "Scheduled"
                   /\ scheduled'[d.flow] = <<x, i>>
                   /\ flow'[d.flow].generation = d.flow_generation
    <3>1. CASE i \in Undelivered(x)
      <4>1. PICK d : d = schedules[x].entries[i]
        OBVIOUS
      <4>2. /\ d.flow \in Flows /\ lifecycle[d.flow] = "Scheduled"
            /\ scheduled[d.flow] = <<x, i>> /\ flow[d.flow].generation = d.flow_generation
        BY <3>1, <4>1, WindowRow
      <4>3. d.flow # e.flow
        BY <2>4, <4>2
      <4> QED BY <1>2, <2>5, <4>1, <4>2, <4>3
    <3>2. CASE i \notin Undelivered(x)
      <4>1. x = ns /\ i = n
        BY <2>6, <2>7, <3>2, SMTT(60)
      <4>2. schedules[x].entries[i] = e
        BY <1>1, <1>3, <4>1
      <4> QED BY <1>2, <2>4, <2>5, <4>1, <4>2
    <3> QED BY <3>1, <3>2
  <2>10. WindowsOfSchedules'
    <3>1. \A x \in DOMAIN schedules : \A i \in Undelivered(x)' :
             LET d == schedules'[x].entries[i]
             IN  /\ lifecycle'[d.flow] = "Scheduled"
                 /\ scheduled'[d.flow] = <<x, i>>
                 /\ flow'[d.flow].generation = d.flow_generation
      BY <2>8, <2>9
    <3> QED BY <2>3, <2>8, <3>1 DEF WindowsOfSchedules
  <2>11. WindowsOfFlows'
    <3> SUFFICES ASSUME NEW f \in Flows, lifecycle'[f] = "Scheduled"
                 PROVE  \E s \in DOMAIN schedules' : \E i \in Undelivered(s)' :
                           scheduled'[f] = <<s, i>> /\ schedules'[s].entries[i].flow = f
      BY DEF WindowsOfFlows
    <3>1. CASE f = e.flow
      <4>1. PICK s : s = ns
        OBVIOUS
      <4>2. s \in DOMAIN schedules' /\ n \in Undelivered(s)' /\ schedules'[s].entries[n] = e
        BY <1>1, <1>3, <2>2, <2>3, <2>7, <4>1
      <4> QED BY <2>5, <3>1, <4>1, <4>2
    <3>2. CASE f # e.flow
      <4>1. PICK s, i : /\ s \in DOMAIN schedules /\ i \in Undelivered(s)
                        /\ scheduled[f] = <<s, i>> /\ schedules[s].entries[i].flow = f
        BY <2>5, <3>2, HeldRow
      <4>2. i \in Undelivered(s)'
        BY <2>6, <2>7, <4>1
      <4> QED BY <2>3, <2>5, <2>8, <3>2, <4>1, <4>2
    <3> QED BY <3>1, <3>2
  <2>12. PlanHeld'
    <3>1. \A i \in ToApply' : i \in ToApply /\ i # n
      BY <1>2, <1>4, <1>5, SMTT(60) DEF ToApply
    <3>2. ASSUME NEW i \in ToApply', NEW d, d = es[i] PROVE Placed(d)'
      <4>1. i \in DOMAIN es /\ d.kind = "Run" /\ Placed(d) /\ i # n /\ d \in Entries
        BY <1>3, <3>1, <3>2, SMTT(60) DEF ToApply, PlanHeld, TypeOK, Rounds
      <4>2. d.flow # e.flow
        BY <1>1, <1>3, <1>8, <3>2, <4>1 DEF PlanHeld, OneRun
      <4>3. round'.todo \subseteq round.todo
        BY <1>4
      <4> QED BY <1>2, <1>4, <2>4, <2>5, <4>1, <4>2, <4>3, PlacedKept, SMTT(60)
    <3>3. \A d \in {round'.entries[i] : i \in ToApply'} : Placed(d)'
      BY <1>4, <3>2
    <3>4. OneRun(round'.entries) /\ \A s \in DOMAIN schedules' : OneRun(schedules'[s].entries)
      BY <1>4, <2>3, <2>8 DEF PlanHeld
    <3>5. round'.entries # <<>> =>
             /\ next_schedule' \in DOMAIN schedules'
             /\ schedules'[next_schedule'].entries = round'.entries
             /\ \A i \in DOMAIN round'.entries : schedules'[next_schedule'].consumed[i] = 0
      BY <1>2, <1>3, <1>4, <2>3, <2>8 DEF PlanHeld
    <3> QED BY <1>2, <1>4, <3>3, <3>4, <3>5 DEF PlanHeld
  <2> QED BY <2>10, <2>11, <2>12 DEF Windows
<1> QED BY <1>7, <1>8

-----------------------------------------------------------------------------
(***************************************************************************)
(* The plan of a round stays within the capacities                         *)
(***************************************************************************)

\* S[i] is what the first i entries of es charge, entry e being charged c[e].
Sums(S, es, c) ==
    /\ S \in [0..Len(es) -> Nat] /\ S[0] = 0
    /\ \A i \in 1..Len(es) : S[i] = S[i - 1] + c[es[i]]
    /\ \A i \in 0..Len(es) : S[i] <= S[Len(es)]

\* The entries es charge p in all, and those after the first n, if they charge
\* anything, still fit into cap beside the b units charged already.
Booked(c, es, n, p, b, cap) ==
    \E S : /\ Sums(S, es, c) /\ S[Len(es)] = p
           /\ S[n] < p => cap \in Nat /\ b + p <= cap + S[n]

\* What an entry charges to resource r, and to reservation v.
ResourceCharge(r) ==
    [e \in Entries |-> IF e.kind = "Run" /\ e.resource = r THEN e.quantum ELSE 0]

ReservationCharge(v) ==
    [e \in Entries |-> IF e.kind = "Run" /\ e.reservation = v THEN e.quantum ELSE 0]

\* The number of entries apply_schedule is done with.
Done == IF round.phase = "Issue" THEN round.next - 1 ELSE 0

\* The units of every resource and reservation, with what the round still plans.
CapacityPlan ==
    /\ round.phase = "Issue" => round.next <= Len(round.entries) + 1
    /\ round.phase \notin {"Assign", "Issue"} =>
          /\ \A r \in Resources : round.pending_capacity[r] = 0
          /\ \A v \in Reservations : round.pending_reservation[v] = 0
    /\ \A r \in Resources : Registered(resource, r) =>
          /\ reserved[r] <= resource[r].capacity
          /\ Booked(ResourceCharge(r), round.entries, Done, round.pending_capacity[r],
                    reserved[r], resource[r].capacity)
    /\ \A v \in Reservations :
          Booked(ReservationCharge(v), round.entries, Done, round.pending_reservation[v],
                 reserved_units[v], reservation[v].capacity)

\* A round without entries.
LEMMA BookedEmpty ==
    ASSUME NEW c, NEW b, NEW cap
    PROVE  Booked(c, <<>>, 0, 0, b, cap)
<1> DEFINE S == [i \in {0} |-> 0]
<1>1. Sums(S, <<>>, c)
  BY SMTT(60) DEF Sums
<1>2. S[0] = 0 /\ Len(<<>>) = 0
  OBVIOUS
<1> QED BY <1>1, <1>2, SMTT(60) DEF Booked

\* Units are given back.
LEMMA BookedLess ==
    ASSUME NEW c, NEW es \in Seq(Entries), NEW n \in 0..Len(es), NEW p, NEW b \in Nat, NEW cap,
           NEW b2 \in Nat, b2 <= b, Booked(c, es, n, p, b, cap)
    PROVE  Booked(c, es, n, p, b2, cap)
<1>1. PICK S : /\ Sums(S, es, c) /\ S[Len(es)] = p
               /\ S[n] < p => cap \in Nat /\ b + p <= cap + S[n]
  BY DEF Booked
<1>2. Len(es) \in Nat
  BY SMTT(60)
<1>3. S[n] \in Nat /\ p \in Nat
  BY <1>1, <1>2, SMTT(60) DEF Sums
<1>4. S[n] < p => cap \in Nat /\ b2 + p <= cap + S[n]
  BY <1>1, <1>3, SMTT(60)
<1> QED BY <1>1, <1>4 DEF Booked

\* An entry is placed that still fits.
LEMMA BookedAppend ==
    ASSUME NEW c \in [Entries -> Nat], NEW es \in Seq(Entries), NEW e \in Entries, NEW p,
           NEW b, NEW cap, NEW b2 \in Nat, Booked(c, es, 0, p, b, cap),
           p \in Nat /\ 0 < p + c[e] => cap \in Nat /\ b2 + p + c[e] <= cap
    PROVE  Booked(c, Append(es, e), 0, p + c[e], b2, cap)
<1>1. PICK S : Sums(S, es, c) /\ S[Len(es)] = p
  BY DEF Booked
<1>2. PICK m \in Nat : m = Len(es)
  BY SMTT(60)
<1>3. /\ S \in [0..m -> Nat] /\ S[0] = 0 /\ S[m] = p
      /\ \A i \in 1..m : S[i] = S[i - 1] + c[es[i]]
      /\ \A i \in 0..m : S[i] <= S[m]
  BY <1>1, <1>2 DEF Sums
<1>4. p \in Nat /\ c[e] \in Nat
  BY <1>3, SMTT(60)
<1>5. /\ Len(Append(es, e)) = m + 1 /\ Append(es, e)[m + 1] = e
      /\ \A i \in 1..m : Append(es, e)[i] = es[i]
  BY <1>2, SMTT(60)
<1> DEFINE T == [i \in 0..(m + 1) |-> IF i <= m THEN S[i] ELSE p + c[e]]
<1>6. T \in [0..(m + 1) -> Nat] /\ T[0] = 0 /\ T[m + 1] = p + c[e]
  BY <1>3, <1>4, SMTT(60)
<1>7. ASSUME NEW i \in 1..(m + 1) PROVE T[i] = T[i - 1] + c[Append(es, e)[i]]
  BY <1>3, <1>4, <1>5, SMTT(60)
<1>8. ASSUME NEW i \in 0..(m + 1) PROVE T[i] <= T[m + 1]
  <2>1. i <= m => S[i] \in Nat /\ S[i] <= p
    BY <1>3, SMTT(60)
  <2> QED BY <1>4, <2>1, SMTT(60)
<1> HIDE DEF T
<1>9. Sums(T, Append(es, e), c)
  BY <1>5, <1>6, <1>7, <1>8 DEF Sums
<1>10. T[0] < p + c[e] => cap \in Nat /\ b2 + (p + c[e]) <= cap + T[0]
  BY <1>4, <1>6, SMTT(60)
<1> QED BY <1>5, <1>6, <1>9, <1>10 DEF Booked

\* An entry is placed that charges nothing.
LEMMA BookedAside ==
    ASSUME NEW c \in [Entries -> Nat], NEW es \in Seq(Entries), NEW e \in Entries, NEW p,
           NEW b \in Nat, NEW cap, Booked(c, es, 0, p, b, cap), c[e] = 0
    PROVE  p \in Nat /\ Booked(c, Append(es, e), 0, p, b, cap)
<1>1. PICK S : /\ Sums(S, es, c) /\ S[Len(es)] = p
               /\ S[0] < p => cap \in Nat /\ b + p <= cap + S[0]
  BY DEF Booked
<1>2. Len(es) \in Nat
  BY SMTT(60)
<1>3. S[0] = 0 /\ p \in Nat
  BY <1>1, <1>2, SMTT(60) DEF Sums
<1>4. 0 < p + c[e] => cap \in Nat /\ b + p + c[e] <= cap
  BY <1>1, <1>3, SMTT(60)
<1>5. p + c[e] = p
  BY <1>3, SMTT(60)
<1> QED BY <1>3, <1>4, <1>5, BookedAppend

\* An entry is applied.
LEMMA BookedNext ==
    ASSUME NEW c \in [Entries -> Nat], NEW es \in Seq(Entries), NEW n \in Nat, n < Len(es),
           NEW p, NEW b \in Nat, NEW b2 \in Nat, NEW cap, Booked(c, es, n, p, b, cap),
           b2 <= b + c[es[n + 1]]
    PROVE  /\ Booked(c, es, n + 1, p, b2, cap)
           /\ b2 > b => cap \in Nat /\ b2 <= cap
<1>1. PICK S : /\ Sums(S, es, c) /\ S[Len(es)] = p
               /\ S[n] < p => cap \in Nat /\ b + p <= cap + S[n]
  BY DEF Booked
<1>2. PICK m \in Nat : m = Len(es)
  BY SMTT(60)
<1>3. n \in 0..m /\ n + 1 \in 1..m /\ n + 1 \in 0..m /\ m \in 0..m /\ (n + 1) - 1 = n
  BY <1>2, SMTT(60)
<1>4. /\ S \in [0..m -> Nat] /\ S[m] = p
      /\ S[n + 1] = S[(n + 1) - 1] + c[es[n + 1]] /\ S[n + 1] <= S[m]
  BY <1>1, <1>2, <1>3 DEF Sums
<1>5. es[n + 1] \in Entries
  BY <1>2, <1>3, SMTT(60)
<1>6. PICK k \in Nat : k = c[es[n + 1]]
  BY <1>5
<1>7. S[n] \in Nat /\ p \in Nat /\ S[n + 1] = S[n] + k /\ S[n + 1] <= p
  BY <1>3, <1>4, <1>6
<1>8. S[n + 1] < p => cap \in Nat /\ b2 + p <= cap + S[n + 1]
  BY <1>1, <1>6, <1>7, SMTT(60)
<1>9. b2 > b => cap \in Nat /\ b2 <= cap
  BY <1>1, <1>6, <1>7, SMTT(60)
<1> QED BY <1>1, <1>8, <1>9 DEF Booked

\* A registered resource has a capacity.
LEMMA CapacityType ==
    ASSUME TypeOK, NEW r \in Resources, Registered(resource, r)
    PROVE  resource[r].capacity \in Nat /\ reserved[r] \in Nat
<1>1. resource[r] # NoDescriptor
  BY SMTT(60) DEF Registered, NoDescriptor
<1>2. resource[r] \in ResourceDescriptors /\ reserved[r] \in Nat
  BY <1>1 DEF TypeOK, ResourcesTyped
<1> QED BY <1>2 DEF ResourceDescriptors

\* What entries charge.
LEMMA ChargeType ==
    /\ \A r : ResourceCharge(r) \in [Entries -> Nat]
    /\ \A v : ReservationCharge(v) \in [Entries -> Nat]
<1>1. \A e \in Entries : e.quantum \in Nat
  BY DEF Entries
<1> QED BY <1>1 DEF ResourceCharge, ReservationCharge

\* A step that leaves the units and the plan alone.
LEMMA PlanKept ==
    ASSUME CapacityPlan, UNCHANGED <<resource, reserved, reservation, reserved_units>>,
           round'.entries = round.entries, Done' = Done,
           round'.pending_capacity = round.pending_capacity,
           round'.pending_reservation = round.pending_reservation,
           round'.phase = "Issue" => round'.next <= Len(round'.entries) + 1,
           round'.phase \notin {"Assign", "Issue"} => round.phase \notin {"Assign", "Issue"}
    PROVE  CapacityPlan'
<1>1. ASSUME NEW r \in Resources, Registered(resource, r)'
      PROVE  /\ reserved'[r] <= resource'[r].capacity
             /\ Booked(ResourceCharge(r), round'.entries, Done', round'.pending_capacity[r],
                       reserved'[r], resource'[r].capacity)
  BY <1>1 DEF CapacityPlan, Registered
<1>2. ASSUME NEW v \in Reservations
      PROVE  Booked(ReservationCharge(v), round'.entries, Done', round'.pending_reservation[v],
                    reserved_units'[v], reservation'[v].capacity)
  BY DEF CapacityPlan
<1>3. round'.phase \notin {"Assign", "Issue"} =>
         /\ \A r \in Resources : round'.pending_capacity[r] = 0
         /\ \A v \in Reservations : round'.pending_reservation[v] = 0
  BY DEF CapacityPlan
<1> QED BY <1>1, <1>2, <1>3 DEF CapacityPlan

\* A round with no plan: what is reserved is within the capacity.
LEMMA UnitsEmpty ==
    ASSUME round'.phase \notin {"Assign", "Issue"}, round'.entries = <<>>,
           \A r \in Resources : round'.pending_capacity[r] = 0,
           \A v \in Reservations : round'.pending_reservation[v] = 0,
           \A r \in Resources : Registered(resource, r)' => reserved'[r] <= resource'[r].capacity
    PROVE  CapacityPlan'
<1>1. Done' = 0
  BY DEF Done
<1>2. ASSUME NEW r \in Resources
      PROVE  Booked(ResourceCharge(r), round'.entries, Done', round'.pending_capacity[r],
                    reserved'[r], resource'[r].capacity)
  BY <1>1, BookedEmpty
<1>3. ASSUME NEW v \in Reservations
      PROVE  Booked(ReservationCharge(v), round'.entries, Done', round'.pending_reservation[v],
                    reserved_units'[v], reservation'[v].capacity)
  BY <1>1, BookedEmpty
<1>4. round'.phase # "Issue"
  OBVIOUS
<1> QED BY <1>2, <1>3, <1>4 DEF CapacityPlan

\* A round ends or gives up; it may have rolled an interval.
LEMMA PlanOver ==
    ASSUME TypeOK, CapacityPlan, round' = IdleRound, resource' = resource,
           \A r \in Resources : reserved'[r] \in {0, reserved[r]}
    PROVE  CapacityPlan'
<1>1. /\ round'.phase \notin {"Assign", "Issue"} /\ round'.entries = <<>>
      /\ \A r \in Resources : round'.pending_capacity[r] = 0
      /\ \A v \in Reservations : round'.pending_reservation[v] = 0
  BY DEF IdleRound
<1>2. ASSUME NEW r \in Resources, Registered(resource, r)'
      PROVE  reserved'[r] <= resource'[r].capacity
  <2>1. Registered(resource, r) /\ resource'[r].capacity = resource[r].capacity
    BY <1>2 DEF Registered
  <2>2. reserved[r] <= resource[r].capacity
    BY <2>1 DEF CapacityPlan
  <2> QED BY <2>1, <2>2, CapacityType, SMTT(60)
<1> QED BY <1>1, <1>2, UnitsEmpty

\* Topology changes between rounds: a resource starts a new interval.
LEMMA PlanTopology ==
    ASSUME TypeOK, PlanHeld, CapacityPlan, Topology
    PROVE  CapacityPlan'
<1>1. /\ round' = round /\ Idle
      /\ \/ UNCHANGED <<resource, reserved>>
         \/ \E r \in Resources, d \in ResourceSpace :
               /\ resource' = [resource EXCEPT ![r] = d]
               /\ reserved' = [reserved EXCEPT ![r] = 0]
  BY DEF Topology, register_resource, register_reservation, retire_reservation,
     register_class, install_policy
<1>2. round.phase = "Idle"
  BY <1>1 DEF Idle
<1>3. /\ round'.phase \notin {"Assign", "Issue"} /\ round'.entries = <<>>
      /\ \A r \in Resources : round'.pending_capacity[r] = 0
      /\ \A v \in Reservations : round'.pending_reservation[v] = 0
  BY <1>1, <1>2 DEF CapacityPlan, PlanHeld
<1>4. ASSUME NEW r \in Resources, Registered(resource, r)'
      PROVE  reserved'[r] <= resource'[r].capacity
  <2>1. CASE UNCHANGED <<resource, reserved>>
    BY <1>4, <2>1 DEF CapacityPlan, Registered
  <2>2. CASE \E s \in Resources, d \in ResourceSpace :
               /\ resource' = [resource EXCEPT ![s] = d]
               /\ reserved' = [reserved EXCEPT ![s] = 0]
    <3>1. PICK s \in Resources, d \in ResourceSpace :
               /\ resource' = [resource EXCEPT ![s] = d]
               /\ reserved' = [reserved EXCEPT ![s] = 0]
      BY <2>2
    <3>2. d.capacity \in Nat
      BY DescriptorAssumption DEF ResourceDescriptors
    <3>3. DOMAIN resource = Resources /\ DOMAIN reserved = Resources
      BY DEF TypeOK, ResourcesTyped
    <3>4. CASE r = s
      <4>1. resource'[r] = d /\ reserved'[r] = 0
        BY <3>1, <3>3, <3>4
      <4> QED BY <3>2, <4>1, SMTT(60)
    <3>5. CASE r # s
      <4>1. resource'[r] = resource[r] /\ reserved'[r] = reserved[r]
        BY <3>1, <3>3, <3>5
      <4> QED BY <1>4, <4>1 DEF CapacityPlan, Registered
    <3> QED BY <3>4, <3>5
  <2> QED BY <1>1, <2>1, <2>2
<1> QED BY <1>3, <1>4, UnitsEmpty

\* The round goes through its phases.
LEMMA PlanEnter ==
    ASSUME TypeOK, CapacityPlan, NEW p \in {"Reclaim", "Refresh", "Overdue", "Assign"}, NEW T,
           Enter(p, T), round.phase # "Issue", p # "Assign" => round.phase # "Assign",
           UNCHANGED <<resource, reserved, reservation, reserved_units>>
    PROVE  CapacityPlan'
<1>1. /\ round' = [round EXCEPT !.phase = p, !.todo = T] /\ round \in Rounds
  BY DEF Enter, TypeOK
<1>2. /\ round'.phase = p /\ round'.entries = round.entries
      /\ round'.pending_capacity = round.pending_capacity
      /\ round'.pending_reservation = round.pending_reservation
  BY <1>1 DEF Rounds
<1>3. p # "Issue" /\ (p \notin {"Assign", "Issue"} => round.phase \notin {"Assign", "Issue"})
  OBVIOUS
<1>4. Done' = Done
  BY <1>2, <1>3 DEF Done
<1> QED BY <1>2, <1>3, <1>4, PlanKept

\* The plan is issued.
LEMMA PlanIssue ==
    ASSUME TypeOK, CapacityPlan, RoundIssue
    PROVE  CapacityPlan'
<1>1. /\ round' = [round EXCEPT !.phase = "Issue", !.next = 1] /\ round \in Rounds
      /\ round.phase = "Assign" /\ UNCHANGED <<resource, reserved, reservation, reserved_units>>
  BY DEF RoundIssue, TypeOK
<1>2. /\ round'.phase = "Issue" /\ round'.next = 1 /\ round'.entries = round.entries
      /\ round'.pending_capacity = round.pending_capacity
      /\ round'.pending_reservation = round.pending_reservation
  BY <1>1 DEF Rounds
<1>3. Len(round.entries) \in Nat
  BY SMTT(60) DEF TypeOK, Rounds
<1>4. Done' = Done /\ round'.next <= Len(round'.entries) + 1
  BY <1>1, <1>2, <1>3, SMTT(60) DEF Done
<1> QED BY <1>1, <1>2, <1>4, PlanKept

\* Rolling an interval keeps or clears what is reserved in it.
LEMMA RolledLess ==
    ASSUME TypeOK, NEW r \in Resources, roll_interval(r)
    PROVE  /\ RolledReserved(r) \in {0, reserved[r]} /\ reserved'[r] = RolledReserved(r)
           /\ \A s \in Resources : s # r => reserved'[s] = reserved[s]
<1>1. DOMAIN reserved = Resources
  BY DEF TypeOK, ResourcesTyped
<1>2. reserved' = [reserved EXCEPT ![r] = RolledReserved(r)]
  BY DEF roll_interval
<1>3. RolledReserved(r) \in {0, reserved[r]}
  BY DEF RolledReserved
<1> QED BY <1>1, <1>2, <1>3

\* The entries a candidate's window is placed after: the plan so far, and the
\* preemption that makes room for it.
Planned(es) ==
    \/ es = round.entries
    \/ \E x \in Entries : x.kind = "Preempt" /\ es = Append(round.entries, x)

\* What the plan charges does not depend on a preemption.
LEMMA PlannedBooked ==
    ASSUME TypeOK, NEW es, Planned(es), NEW c \in [Entries -> Nat], NEW p \in Nat,
           NEW b \in Nat, NEW cap, Booked(c, round.entries, 0, p, b, cap),
           \A x \in Entries : x.kind = "Preempt" => c[x] = 0
    PROVE  Booked(c, es, 0, p, b, cap)
<1>1. round.entries \in Seq(Entries)
  BY DEF TypeOK, Rounds
<1>2. CASE es = round.entries
  BY <1>2
<1>3. ASSUME NEW x \in Entries, x.kind = "Preempt", es = Append(round.entries, x)
      PROVE  Booked(c, es, 0, p, b, cap)
  BY <1>1, <1>3, BookedAside
<1> QED BY <1>2, <1>3 DEF Planned

\* A window is placed within what the interval and the reservation have left.
LEMMA PlanPlace ==
    ASSUME TypeOK, CandidatesSettled, CapacityPlan, NEW f \in Flows, Candidate(f), Placeable(f),
           derived_readiness(f, round.now) = "Selected",
           NEW es \in Seq(Entries), Planned(es), Place(f, es),
           roll_interval(flow[f].resource), UNCHANGED <<resource, reservation, reserved_units>>
    PROVE  CapacityPlan'
<1> DEFINE r == flow[f].resource
           v == flow[f].reservation
           q == Quantum(f)
           e == RunEntry(f, q)
<1>1. r \in Resources /\ round.phase = "Assign" /\ flow[f] \in FlowDescriptors
  BY CandidateRow
<1>2. /\ q \in Nat /\ q <= CapacityLeft(r)
      /\ v # NoReservation => q <= ReservationSlack(v)
  BY QuantumType
<1>3. /\ round'.phase = "Assign"
      /\ q = 0 => /\ round'.entries = es
                  /\ round'.pending_capacity = round.pending_capacity
                  /\ round'.pending_reservation = round.pending_reservation
      /\ q # 0 => /\ e \in Entries /\ round'.entries = Append(es, e)
                  /\ round'.pending_capacity = [round.pending_capacity EXCEPT ![r] = @ + q]
                  /\ round'.pending_reservation =
                        [x \in Reservations |-> IF x = v THEN round.pending_reservation[x] + q
                                                ELSE round.pending_reservation[x]]
  BY PlaceType
<1>4. Done = 0 /\ Done' = 0
  BY <1>1, <1>3 DEF Done
<1>5. /\ RolledReserved(r) \in {0, reserved[r]} /\ reserved'[r] = RolledReserved(r)
      /\ \A s \in Resources : s # r => reserved'[s] = reserved[s]
  BY <1>1, RolledLess
<1>6. /\ round.pending_capacity \in [Resources -> Nat] /\ reserved \in [Resources -> Nat]
      /\ round.pending_reservation \in [Reservations -> Nat]
      /\ reserved_units \in [Reservations -> Nat]
  BY DEF TypeOK, Rounds, ResourcesTyped, ReservationsTyped
<1>7. e.kind = "Run" /\ e.resource = r /\ e.reservation = v /\ e.quantum = q
  BY DEF RunEntry
<1> HIDE DEF e
<1>8. ASSUME NEW s \in Resources, Registered(resource, s)'
      PROVE  /\ reserved'[s] <= resource'[s].capacity
             /\ Booked(ResourceCharge(s), round'.entries, Done', round'.pending_capacity[s],
                       reserved'[s], resource'[s].capacity)
  <2> DEFINE c == ResourceCharge(s)
             p == round.pending_capacity[s]
             cap == resource[s].capacity
  <2>1. Registered(resource, s) /\ resource'[s].capacity = cap
    BY <1>8 DEF Registered
  <2>2. cap \in Nat /\ reserved[s] \in Nat /\ reserved'[s] \in Nat /\ p \in Nat
        /\ reserved'[s] <= reserved[s]
    <3>1. cap \in Nat /\ reserved[s] \in Nat
      BY <2>1, CapacityType
    <3>2. p \in Nat
      BY <1>6
    <3>3. reserved'[s] \in {0, reserved[s]}
      BY <1>5
    <3> QED BY <3>1, <3>2, <3>3, SMTT(60)
  <2>3. c \in [Entries -> Nat] /\ \A x \in Entries : x.kind = "Preempt" => c[x] = 0
    BY ChargeType DEF ResourceCharge
  <2>4. reserved[s] <= cap /\ Booked(c, round.entries, 0, p, reserved[s], cap)
    BY <1>4, <2>1 DEF CapacityPlan
  <2>5. Booked(c, es, 0, p, reserved[s], cap)
    BY <2>2, <2>3, <2>4, PlannedBooked
  <2> HIDE DEF c, p, cap
  <2>6. CASE q = 0
    <3>1. round'.entries = es /\ round'.pending_capacity[s] = p /\ 0 \in 0..Len(es)
      BY <1>3, <2>6, SMTT(60) DEF p
    <3>2. Booked(c, es, 0, p, reserved'[s], cap)
      BY <2>2, <2>5, <3>1, BookedLess
    <3> QED BY <1>4, <2>1, <2>2, <2>4, <3>1, <3>2, SMTT(60) DEF c
  <2>7. CASE q # 0 /\ s # r
    <3>1. round'.entries = Append(es, e) /\ e \in Entries /\ round'.pending_capacity[s] = p
      BY <1>1, <1>3, <1>6, <2>7 DEF p
    <3>2. c[e] = 0
      BY <1>7, <2>7, <3>1 DEF c, ResourceCharge
    <3>3. Booked(c, Append(es, e), 0, p, reserved[s], cap)
      BY <2>2, <2>3, <2>5, <3>1, <3>2, BookedAside
    <3> QED BY <1>4, <1>5, <2>1, <2>4, <2>7, <3>1, <3>3 DEF c
  <2>8. CASE q # 0 /\ s = r
    <3>1. /\ round'.entries = Append(es, e) /\ e \in Entries
          /\ round'.pending_capacity[s] = p + q
      BY <1>1, <1>3, <1>6, <2>8 DEF p
    <3>2. c[e] = q
      BY <1>7, <2>8, <3>1 DEF c, ResourceCharge
    <3>3. q <= Minus(Minus(cap, reserved'[s]), p)
      BY <1>2, <1>5, <2>8 DEF CapacityLeft, cap, p
    <3>4. reserved'[s] + p + q <= cap
      BY <1>2, <2>2, <2>8, <3>3, SMTT(60) DEF Minus
    <3>5. Booked(c, Append(es, e), 0, p + c[e], reserved'[s], cap)
      BY <2>2, <2>3, <2>5, <3>1, <3>2, <3>4, BookedAppend
    <3>6. reserved'[s] <= cap
      BY <2>2, <2>4, SMTT(60)
    <3> QED BY <1>4, <2>1, <3>1, <3>2, <3>5, <3>6 DEF c
  <2> QED BY <2>6, <2>7, <2>8
<1>9. ASSUME NEW w \in Reservations
      PROVE  Booked(ReservationCharge(w), round'.entries, Done', round'.pending_reservation[w],
                    reserved_units'[w], reservation'[w].capacity)
  <2> DEFINE c == ReservationCharge(w)
             p == round.pending_reservation[w]
             b == reserved_units[w]
             cap == reservation[w].capacity
  <2>1. reserved_units'[w] = b /\ reservation'[w].capacity = cap
    OBVIOUS
  <2>2. b \in Nat /\ p \in Nat
    BY <1>6
  <2>3. c \in [Entries -> Nat] /\ \A x \in Entries : x.kind = "Preempt" => c[x] = 0
    BY ChargeType DEF ReservationCharge
  <2>4. Booked(c, round.entries, 0, p, b, cap)
    BY <1>4 DEF CapacityPlan
  <2>5. Booked(c, es, 0, p, b, cap)
    BY <2>2, <2>3, <2>4, PlannedBooked
  <2>6. CASE q # 0 /\ w = v
    <3>1. /\ round'.entries = Append(es, e) /\ e \in Entries
          /\ round'.pending_reservation[w] = p + q
      BY <1>3, <2>6
    <3>2. c[e] = q
      BY <1>7, <2>6, <3>1 DEF ReservationCharge
    <3>3. cap \in Nat
      <4>1. v # NoReservation
        BY <2>6, IdentityAssumption DEF NoReservation
      <4>2. reservation_usable(f, round.now)
        BY DEF derived_readiness
      <4>3. Registered(reservation, w)
        BY <2>6, <4>1, <4>2 DEF reservation_usable
      <4>4. reservation[w] # NoDescriptor
        BY <4>3, SMTT(60) DEF Registered, NoDescriptor
      <4>5. reservation[w] \in ReservationDescriptors
        BY <4>4 DEF TypeOK, ReservationsTyped
      <4> QED BY <4>5 DEF ReservationDescriptors
    <3>4. q <= Minus(Minus(cap, b), p)
      BY <1>2, <2>6, IdentityAssumption DEF ReservationSlack, NoReservation
    <3> HIDE DEF c, b, p, cap
    <3>5. b + p + q <= cap
      BY <1>2, <2>2, <2>6, <3>3, <3>4, SMTT(60) DEF Minus
    <3>6. Booked(c, Append(es, e), 0, p + c[e], b, cap)
      BY <2>2, <2>3, <2>5, <3>1, <3>2, <3>3, <3>5, BookedAppend
    <3> QED BY <1>4, <2>1, <3>1, <3>2, <3>6 DEF c
  <2>7. CASE q # 0 /\ w # v
    <3>1. round'.entries = Append(es, e) /\ e \in Entries /\ round'.pending_reservation[w] = p
      BY <1>3, <2>7
    <3>2. c[e] = 0
      BY <1>7, <2>7, <3>1 DEF ReservationCharge
    <3> HIDE DEF c, b, p, cap
    <3>3. Booked(c, Append(es, e), 0, p, b, cap)
      BY <2>2, <2>3, <2>5, <3>1, <3>2, BookedAside
    <3> QED BY <1>4, <2>1, <3>1, <3>3 DEF c
  <2>8. CASE q = 0
    <3>1. round'.entries = es /\ round'.pending_reservation[w] = p
      BY <1>3, <2>8
    <3> QED BY <1>4, <2>1, <2>5, <3>1
  <2> QED BY <2>6, <2>7, <2>8
<1> QED BY <1>3, <1>8, <1>9 DEF CapacityPlan

\* A window of the plan is charged.
LEMMA PlanApply ==
    ASSUME TypeOK, PlanHeld, CapacityPlan, RoundApply
    PROVE  /\ CapacityPlan'
           /\ \A v \in Reservations : reserved_units'[v] > reserved_units[v] =>
                 reserved_units'[v] <= reservation[v].capacity
<1>1. PICK e : e = round.entries[round.next]
  OBVIOUS
<1>2. PICK n : n = round.next - 1
  OBVIOUS
<1>3. /\ round.phase = "Issue" /\ round.next <= Len(round.entries)
      /\ IF Applies(e) THEN Assign(e) ELSE UNCHANGED <<reserved, reserved_units>>
      /\ round' = [round EXCEPT !.next = @ + 1] /\ round \in Rounds
      /\ UNCHANGED <<resource, reservation>>
  BY <1>1 DEF RoundApply, TypeOK
<1>4. /\ round.entries \in Seq(Entries) /\ round.next \in Nat \ {0}
      /\ reserved \in [Resources -> Nat] /\ reserved_units \in [Reservations -> Nat]
  BY DEF TypeOK, Rounds, ResourcesTyped, ReservationsTyped
<1>5. n \in Nat /\ n + 1 = round.next /\ n < Len(round.entries) /\ Done = n
  BY <1>2, <1>3, <1>4, SMTT(60) DEF Done
<1>6. /\ round'.phase = "Issue" /\ round'.next = round.next + 1
      /\ round'.entries = round.entries /\ round'.pending_capacity = round.pending_capacity
      /\ round'.pending_reservation = round.pending_reservation
  BY <1>3 DEF Rounds
<1>7. Done' = n + 1 /\ round'.next <= Len(round'.entries) + 1
  BY <1>3, <1>4, <1>5, <1>6, SMTT(60) DEF Done
<1>8. /\ e \in Entries /\ (Applies(e) <=> e.kind = "Run")
      /\ e.kind = "Run" => resource[e.resource].generation = e.resource_generation
  BY <1>1, <1>3, AppliesPlaced DEF Placed
<1>9. e.quantum \in Nat /\ e.resource \in Resources
  BY <1>8 DEF Entries
<1>10. ASSUME NEW s \in Resources, Registered(resource, s)'
       PROVE  /\ reserved'[s] <= resource'[s].capacity
              /\ Booked(ResourceCharge(s), round'.entries, Done', round'.pending_capacity[s],
                        reserved'[s], resource'[s].capacity)
  <2> DEFINE c == ResourceCharge(s)
             p == round.pending_capacity[s]
             cap == resource[s].capacity
  <2>1. Registered(resource, s) /\ resource'[s].capacity = cap
    BY <1>3, <1>10 DEF Registered
  <2>2. cap \in Nat /\ reserved[s] \in Nat /\ reserved[s] <= cap
    BY <2>1, CapacityType DEF CapacityPlan
  <2>3. c \in [Entries -> Nat] /\ c[e] = IF e.kind = "Run" /\ e.resource = s THEN e.quantum ELSE 0
    BY <1>8, ChargeType DEF ResourceCharge
  <2>4. Booked(c, round.entries, n, p, reserved[s], cap)
    BY <1>5, <2>1 DEF CapacityPlan
  <2> HIDE DEF c, p, cap
  <2>5. reserved'[s] = reserved[s] + c[e]
    <3>1. CASE Applies(e)
      <4>1. reserved' = [reserved EXCEPT ![e.resource] = @ + e.quantum]
        BY <1>3, <1>8, <3>1 DEF Assign
      <4> QED BY <1>4, <1>8, <1>9, <2>3, <3>1, <4>1, SMTT(60)
    <3>2. CASE ~Applies(e)
      BY <1>3, <1>8, <2>2, <2>3, <3>2, SMTT(60)
    <3> QED BY <3>1, <3>2
  <2>6. c[e] \in Nat /\ reserved'[s] \in Nat /\ reserved'[s] <= reserved[s] + c[round.entries[n + 1]]
    BY <1>1, <1>5, <1>8, <2>2, <2>3, <2>5, SMTT(60)
  <2>7. /\ Booked(c, round.entries, n + 1, p, reserved'[s], cap)
        /\ reserved'[s] > reserved[s] => reserved'[s] <= cap
    BY <1>4, <1>5, <2>2, <2>3, <2>4, <2>6, BookedNext
  <2>8. reserved'[s] <= cap
    BY <2>2, <2>6, <2>7, SMTT(60)
  <2> QED BY <1>6, <1>7, <2>1, <2>7, <2>8 DEF c, p
<1>11. ASSUME NEW w \in Reservations
       PROVE  /\ Booked(ReservationCharge(w), round'.entries, Done',
                        round'.pending_reservation[w], reserved_units'[w], reservation'[w].capacity)
              /\ reserved_units'[w] > reserved_units[w] =>
                    reserved_units'[w] <= reservation[w].capacity
  <2> DEFINE c == ReservationCharge(w)
             p == round.pending_reservation[w]
             b == reserved_units[w]
             cap == reservation[w].capacity
  <2>1. b \in Nat /\ reservation'[w].capacity = cap
    BY <1>3, <1>4
  <2>2. c \in [Entries -> Nat]
        /\ c[e] = IF e.kind = "Run" /\ e.reservation = w THEN e.quantum ELSE 0
    BY <1>8, ChargeType DEF ReservationCharge
  <2>3. Booked(c, round.entries, n, p, b, cap)
    BY <1>5 DEF CapacityPlan
  <2>4. reserved_units'[w] \in {b, b + c[e]}
    <3>1. CASE Applies(e)
      <4>1. reserved_units' = [v \in Reservations |->
              IF v = e.reservation /\ reservation[v].generation = e.reservation_generation
              THEN reserved_units[v] + e.quantum ELSE reserved_units[v]]
        BY <1>3, <3>1 DEF Assign
      <4> QED BY <1>8, <2>2, <3>1, <4>1
    <3>2. CASE ~Applies(e)
      BY <1>3, <3>2
    <3> QED BY <3>1, <3>2
  <2> HIDE DEF c, p, b, cap
  <2>5. /\ reserved_units'[w] \in Nat
        /\ reserved_units'[w] <= b + c[round.entries[n + 1]]
    <3>1. c[e] \in Nat /\ c[round.entries[n + 1]] = c[e]
      BY <1>1, <1>5, <1>8, <2>2
    <3> QED BY <2>1, <2>4, <3>1, SMTT(60)
  <2>6. /\ Booked(c, round.entries, n + 1, p, reserved_units'[w], cap)
        /\ reserved_units'[w] > b => reserved_units'[w] <= cap
    BY <1>4, <1>5, <2>1, <2>2, <2>3, <2>5, BookedNext
  <2> QED BY <1>6, <1>7, <2>1, <2>6 DEF c, p, b, cap
<1>12. CapacityPlan'
  BY <1>6, <1>7, <1>10, <1>11 DEF CapacityPlan
<1> QED BY <1>11, <1>12

\* A call that leaves the round and the units alone.
LEMMA PlanAlone ==
    ASSUME CapacityPlan, UNCHANGED <<resource, reserved, reservation, reserved_units, round>>
    PROVE  CapacityPlan'
<1>1. /\ round'.entries = round.entries /\ Done' = Done
      /\ round'.pending_capacity = round.pending_capacity
      /\ round'.pending_reservation = round.pending_reservation
      /\ round'.phase = "Issue" => round'.next <= Len(round'.entries) + 1
      /\ round'.phase \notin {"Assign", "Issue"} => round.phase \notin {"Assign", "Issue"}
  BY DEF CapacityPlan, Done
<1> QED BY <1>1, PlanKept

\* The steps of a round before it issues its schedule.
LEMMA PlanRound ==
    ASSUME TypeOK, AuthorityExclusive, CandidatesSettled, CapacityPlan,
           \/ RoundReclaimed \/ RoundRefreshed \/ RoundRank \/ RoundAborted \/ RoundFinish
           \/ \E f \in Flows : \/ RoundRefresh(f) \/ RoundOverdue(f) \/ RoundLapse(f)
                               \/ RoundSkip(f) \/ RoundGrant(f) \/ RoundBlocked(f)
           \/ \E f, v \in Flows : RoundDisplace(f, v)
    PROVE  CapacityPlan'
<1>0. "Assign" \in {"Reclaim", "Refresh", "Overdue", "Assign"} /\ "Refresh" # "Assign"
      /\ "Refresh" # "Issue" /\ "Overdue" # "Assign" /\ "Overdue" # "Issue" /\ "Assign" # "Issue"
      /\ "Refresh" \in {"Reclaim", "Refresh", "Overdue", "Assign"} /\ "Reclaim" # "Assign"
      /\ "Overdue" \in {"Reclaim", "Refresh", "Overdue", "Assign"} /\ "Reclaim" # "Issue"
  OBVIOUS
<1>1. CASE RoundReclaimed \/ \E f \in Flows : RoundRefresh(f)
  <2>1. PICK T : /\ Enter("Refresh", T) /\ round.phase \in {"Reclaim", "Refresh"}
                 /\ UNCHANGED <<resource, reserved, reservation, reserved_units>>
    BY <1>1 DEF RoundReclaimed, RoundRefresh
  <2> QED BY <1>0, <2>1, PlanEnter
<1>2. CASE RoundRefreshed \/ \E f \in Flows : RoundOverdue(f)
  <2>1. PICK T : /\ Enter("Overdue", T) /\ round.phase \in {"Refresh", "Overdue"}
                 /\ UNCHANGED <<resource, reserved, reservation, reserved_units>>
    BY <1>2 DEF RoundRefreshed, RoundOverdue
  <2> QED BY <1>0, <2>1, PlanEnter
<1>3. CASE RoundRank \/ \E f \in Flows : RoundLapse(f) \/ RoundSkip(f)
  <2>1. PICK T : /\ Enter("Assign", T) /\ round.phase \in {"Overdue", "Assign"}
                 /\ UNCHANGED <<resource, reserved, reservation, reserved_units>>
    BY <1>3 DEF RoundRank, RoundLapse, RoundSkip, Candidate
  <2> QED BY <1>0, <2>1, PlanEnter
<1>4. CASE RoundAborted \/ RoundFinish
  <2>1. round' = IdleRound /\ resource' = resource /\ reserved' = reserved
    BY <1>4 DEF RoundAborted, RoundFinish
  <2> QED BY <2>1, PlanOver
<1>5. ASSUME NEW f \in Flows, RoundGrant(f) PROVE CapacityPlan'
  <2>1. /\ Candidate(f) /\ derived_readiness(f, round.now) = "Selected" /\ Placeable(f)
        /\ roll_interval(flow[f].resource) /\ Place(f, round.entries)
        /\ UNCHANGED <<resource, reservation, reserved_units>>
    BY <1>5 DEF RoundGrant
  <2>2. round.entries \in Seq(Entries) /\ Planned(round.entries)
    BY DEF TypeOK, Rounds, Planned
  <2> QED BY <2>1, <2>2, PlanPlace
<1>6. ASSUME NEW f \in Flows, NEW v \in Flows, RoundDisplace(f, v) PROVE CapacityPlan'
  <2> DEFINE a == open_attempt[v]
             stop == [attempts[a].ticket.entry EXCEPT !.kind = "Preempt"]
  <2>1. /\ Candidate(f) /\ derived_readiness(f, round.now) = "Selected" /\ Placeable(f)
        /\ v \in Incumbents(flow[f].resource)
        /\ roll_interval(flow[f].resource) /\ Place(f, Append(round.entries, stop))
        /\ UNCHANGED <<resource, reservation, reserved_units>>
    BY <1>6 DEF RoundDisplace
  <2>2. a \in DOMAIN attempts
    BY <2>1, NamedAttempt DEF Incumbents
  <2>3. attempts[a].ticket.entry \in Entries /\ "Preempt" \in {"Run", "Preempt"}
    BY <2>2, AttemptRow
  <2>4. stop \in Entries /\ stop.kind = "Preempt"
    BY <2>3 DEF Entries
  <2> HIDE DEF stop
  <2>5. Append(round.entries, stop) \in Seq(Entries) /\ Planned(Append(round.entries, stop))
    BY <2>4, SMTT(60) DEF TypeOK, Rounds, Planned
  <2> QED BY <2>1, <2>5, PlanPlace
<1>7. ASSUME NEW f \in Flows, RoundBlocked(f) PROVE CapacityPlan'
  <2> DEFINE r == flow[f].resource
  <2>1. /\ Candidate(f) /\ Placeable(f) /\ roll_interval(r)
        /\ Enter("Assign", round.todo \ {f}) \/ round' = IdleRound
        /\ UNCHANGED <<resource, reservation, reserved_units>>
    BY <1>7 DEF RoundBlocked
  <2>2. r \in Resources /\ round.phase = "Assign"
    BY <2>1, CandidateRow
  <2>3. \A s \in Resources : reserved'[s] \in {0, reserved[s]}
    BY <2>1, <2>2, RolledLess
  <2>4. CASE round' = IdleRound
    BY <2>1, <2>3, <2>4, PlanOver
  <2>5. CASE Enter("Assign", round.todo \ {f})
    <3>1. /\ round' = [round EXCEPT !.phase = "Assign", !.todo = round.todo \ {f}]
          /\ round \in Rounds /\ round.entries \in Seq(Entries)
      BY <2>5 DEF Enter, TypeOK, Rounds
    <3>2. /\ round'.phase = "Assign" /\ round'.entries = round.entries
          /\ round'.pending_capacity = round.pending_capacity
          /\ round'.pending_reservation = round.pending_reservation
      BY <3>1 DEF Rounds
    <3>3. Done = 0 /\ Done' = 0
      BY <2>2, <3>2 DEF Done
    <3>4. ASSUME NEW s \in Resources, Registered(resource, s)'
          PROVE  /\ reserved'[s] <= resource'[s].capacity
                 /\ Booked(ResourceCharge(s), round'.entries, Done', round'.pending_capacity[s],
                           reserved'[s], resource'[s].capacity)
      <4>1. Registered(resource, s) /\ resource'[s].capacity = resource[s].capacity
        BY <2>1, <3>4 DEF Registered
      <4>2. /\ reserved[s] <= resource[s].capacity
            /\ Booked(ResourceCharge(s), round.entries, 0, round.pending_capacity[s],
                      reserved[s], resource[s].capacity)
        BY <3>3, <4>1 DEF CapacityPlan
      <4>3. resource[s].capacity \in Nat /\ reserved[s] \in Nat
        BY <4>1, CapacityType
      <4>4. reserved'[s] \in {0, reserved[s]}
        BY <2>3
      <4>5. reserved'[s] \in Nat /\ reserved'[s] <= reserved[s] /\ reserved'[s] <= resource[s].capacity
        BY <4>2, <4>3, <4>4, SMTT(60)
      <4>6. 0 \in 0..Len(round.entries)
        BY <3>1, SMTT(60)
      <4>7. Booked(ResourceCharge(s), round.entries, 0, round.pending_capacity[s],
                   reserved'[s], resource[s].capacity)
        BY <3>1, <4>2, <4>3, <4>5, <4>6, BookedLess
      <4> QED BY <3>2, <3>3, <4>1, <4>5, <4>7
    <3>5. ASSUME NEW w \in Reservations
          PROVE  Booked(ReservationCharge(w), round'.entries, Done',
                        round'.pending_reservation[w], reserved_units'[w], reservation'[w].capacity)
      BY <2>1, <3>2, <3>3 DEF CapacityPlan
    <3> QED BY <3>2, <3>4, <3>5 DEF CapacityPlan
  <2> QED BY <2>1, <2>4, <2>5
<1> QED BY <1>1, <1>2, <1>3, <1>4, <1>5, <1>6, <1>7

\* Every step keeps what is reserved and planned within the capacities, and charges a
\* reservation within its own.
LEMMA StepPlan ==
    ASSUME TypeOK, AuthorityExclusive, CandidatesSettled, PlanHeld, CapacityPlan, [Next]_vars
    PROVE  /\ CapacityPlan'
           /\ \A v \in Reservations : reserved_units'[v] > reserved_units[v] =>
                 reserved_units'[v] <= reservation[v].capacity
<1>1. CASE RoundApply
  BY <1>1, PlanApply
<1>2. ASSUME reserved_units' = reserved_units
      PROVE  \A v \in Reservations : reserved_units'[v] > reserved_units[v] =>
                 reserved_units'[v] <= reservation[v].capacity
  <2>1. reserved_units \in [Reservations -> Nat]
    BY DEF TypeOK, ReservationsTyped
  <2> QED BY <1>2, <2>1, SMTT(60)
<1>3. ASSUME UNCHANGED <<resource, reserved, reservation, reserved_units, round>>
      PROVE  CapacityPlan' /\ reserved_units' = reserved_units
  BY <1>3, PlanAlone
<1>4. CASE Topology
  <2>1. reserved_units' = reserved_units
    BY <1>4 DEF Topology, register_resource, register_reservation, retire_reservation,
       register_class, install_policy
  <2> QED BY <1>2, <1>4, <2>1, PlanTopology
<1>5. CASE FlowCall \/ DispatchCall \/ advance_epoch
           \/ \E s \in DOMAIN schedules : RoundReclaim(s)
  <2>1. ASSUME NEW f, NEW x, NEW now,
               \/ admit_flow(f, x) \/ update_flow(f, x) \/ notify_readiness(f, x, now)
               \/ resolve_ambiguous(f, x, now) \/ retire_flow(f)
        PROVE  UNCHANGED <<resource, reserved, reservation, reserved_units, round>>
    BY <2>1 DEF admit_flow, update_flow, notify_readiness, resolve_ambiguous, retire_flow
  <2>2. ASSUME NEW f, cancel_flow(f)
        PROVE  UNCHANGED <<resource, reserved, reservation, reserved_units, round>>
    BY <2>2 DEF cancel_flow
  <2>3. ASSUME NEW s, NEW i, NEW boot, NEW now, begin_dispatch(s, i, boot, now)
        PROVE  UNCHANGED <<resource, reserved, reservation, reserved_units, round>>
    BY <2>3 DEF begin_dispatch
  <2>4. ASSUME NEW s, NEW now,
               release_schedule(s) \/ RoundReclaim(s) \/ mark_started(s, now)
               \/ abandon_attempt(s, now) \/ preempt_attempt(s, now)
        PROVE  UNCHANGED <<resource, reserved, reservation, reserved_units, round>>
    BY <2>4 DEF release_schedule, RoundReclaim, mark_started, abandon_attempt,
       preempt_attempt, CloseByCaller
  <2>5. ASSUME NEW ev, NEW now, complete(ev, now)
        PROVE  UNCHANGED <<resource, reserved, reservation, reserved_units, round>>
    BY <2>5 DEF complete
  <2>6. CASE advance_epoch
    BY <1>2, <1>3, <2>6 DEF advance_epoch
  <2>7. CASE FlowCall
    BY <1>2, <1>3, <2>1, <2>2, <2>7 DEF FlowCall
  <2>8. CASE DispatchCall
    BY <1>2, <1>3, <2>3, <2>4, <2>5, <2>8 DEF DispatchCall
  <2> QED BY <1>2, <1>3, <1>5, <2>4, <2>6, <2>7, <2>8
<1>6. ASSUME NEW now \in Readings, Refused(now) \/ RoundBegin(now)
      PROVE  CapacityPlan' /\ reserved_units' = reserved_units
  <2>1. CASE Refused(now)
    BY <1>3, <2>1 DEF Refused
  <2>2. CASE RoundBegin(now)
    <3>1. /\ round' = [IdleRound EXCEPT !.phase = "Reclaim", !.now = now]
          /\ UNCHANGED <<resource, reserved, reserved_units>>
      BY <2>2 DEF RoundBegin
    <3>2. /\ round'.phase \notin {"Assign", "Issue"} /\ round'.entries = <<>>
          /\ \A r \in Resources : round'.pending_capacity[r] = 0
          /\ \A v \in Reservations : round'.pending_reservation[v] = 0
      BY <3>1 DEF IdleRound
    <3>3. \A r \in Resources : Registered(resource, r)' => reserved'[r] <= resource'[r].capacity
      BY <3>1 DEF CapacityPlan, Registered
    <3> QED BY <3>1, <3>2, <3>3, UnitsEmpty
  <2> QED BY <1>6, <2>1, <2>2
<1>7. CASE RoundIssue
  <2>1. reserved_units' = reserved_units
    BY <1>7 DEF RoundIssue
  <2> QED BY <1>2, <1>7, <2>1, PlanIssue
<1>8. CASE \/ RoundReclaimed \/ RoundRefreshed \/ RoundRank \/ RoundAborted \/ RoundFinish
           \/ \E f \in Flows : \/ RoundRefresh(f) \/ RoundOverdue(f) \/ RoundLapse(f)
                               \/ RoundSkip(f) \/ RoundGrant(f) \/ RoundBlocked(f)
           \/ \E f, v \in Flows : RoundDisplace(f, v)
  <2>1. reserved_units' = reserved_units
    BY <1>8 DEF RoundReclaimed, RoundRefreshed, RoundRank, RoundAborted, RoundFinish,
       RoundRefresh, RoundOverdue, RoundLapse, RoundSkip, RoundGrant, RoundBlocked, RoundDisplace
  <2> QED BY <1>2, <1>8, <2>1, PlanRound
<1>9. CASE UNCHANGED vars
  BY <1>2, <1>3, <1>9 DEF vars
<1>10. CASE RoundStep
  BY <1>1, <1>5, <1>7, <1>8, <1>10 DEF RoundStep
<1> QED BY <1>2, <1>4, <1>5, <1>6, <1>8, <1>9, <1>10 DEF Next

=============================================================================
