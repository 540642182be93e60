-------------------------- MODULE AuthorityProofs ---------------------------
(***************************************************************************)
(* Dispatch authority stays exclusive: under the calls and the steps of a  *)
(* round that leave the attempts alone or close one, under the steps that  *)
(* refresh, issue or finish, and under the calls that open or start an     *)
(* attempt or change the epoch; and the work list of a round stays what    *)
(* its phase left it to be.  Together with the types this is the inductive *)
(* invariant of the scheduler (Inv).  From it: every step is one the       *)
(* dispatch contract allows (ContractStep), and the calls leave no flow in *)
(* a transient state (Quiet).                                              *)
(***************************************************************************)
EXTENDS StateProofs

\* A leaf that names no prover is left to Zenon.
USE ZenonT(60)
USE DEF authorityVars, resourceVars, reservationVars, flowVars, dispatchVars

Owned == {"Dispatched", "Running"}

Inv == TypeOK /\ AuthorityExclusive /\ AttemptsCounted /\ CandidatesSettled

-----------------------------------------------------------------------------
(***************************************************************************)
(* What the methods do to authority                                        *)
(***************************************************************************)

\* Live attempts are finitely many.
LEMMA LiveFinite == TypeOK => IsFiniteSet(LiveAttempts)
<1> SUFFICES ASSUME TypeOK PROVE IsFiniteSet(LiveAttempts)
  OBVIOUS
<1>1. next_attempt \in Nat /\ LiveAttempts \subseteq 1..(next_attempt - 1)
  BY DEF TypeOK, AttemptsTyped, LiveAttempts
<1>2. IsFiniteSet(1..(next_attempt - 1))
  BY <1>1, FS_Interval, SMTT(60)
<1> QED BY <1>1, <1>2, FS_Subset

\* A step that leaves the attempts alone, drops no schedule and moves no flow
\* into or out of a dispatch.
LEMMA AuthorityKept ==
    ASSUME AuthorityExclusive,
           UNCHANGED <<epoch, attempts, open_attempt>>,
           DOMAIN schedules \subseteq DOMAIN schedules',
           \A f \in Flows :
              /\ open_attempt[f] # NoAttempt =>
                    lifecycle'[f] = lifecycle[f] /\ flow'[f].generation = flow[f].generation
              /\ lifecycle'[f] \in Owned => lifecycle[f] \in Owned,
           TypeOK
    PROVE  AuthorityExclusive'
<1>1. LiveAttempts' = LiveAttempts
  BY DEF LiveAttempts
<1>2. ASSUME NEW a \in LiveAttempts
      PROVE  LET t == attempts[a].ticket
             IN  /\ open_attempt[t.entry.flow] = a
                 /\ t.attempt = a
                 /\ t.epoch = epoch
                 /\ t.schedule \in DOMAIN schedules'
                 /\ flow'[t.entry.flow].generation = t.entry.flow_generation
                 /\ lifecycle'[t.entry.flow] =
                        IF attempts[a].state = "Open" THEN "Dispatched" ELSE "Running"
  <2>1. attempts[a].ticket.entry.flow \in Flows /\ open_attempt[attempts[a].ticket.entry.flow] = a
        /\ a # NoAttempt
    BY <1>2, LiveAttempt
  <2> DEFINE t == attempts[a].ticket
             f == t.entry.flow
  <2>2. /\ t.attempt = a /\ t.epoch = epoch /\ t.schedule \in DOMAIN schedules
        /\ flow[f].generation = t.entry.flow_generation
        /\ lifecycle[f] = IF attempts[a].state = "Open" THEN "Dispatched" ELSE "Running"
    BY <1>2 DEF AuthorityExclusive
  <2>3. lifecycle'[f] = lifecycle[f] /\ flow'[f].generation = flow[f].generation
    BY <2>1
  <2> QED BY <2>1, <2>2, <2>3
<1>3. ASSUME NEW f \in Flows
      PROVE  /\ open_attempt[f] # NoAttempt =>
                   open_attempt[f] \in LiveAttempts
                   /\ attempts[open_attempt[f]].ticket.entry.flow = f
             /\ lifecycle'[f] \in Owned => open_attempt[f] # NoAttempt
  BY <1>3 DEF AuthorityExclusive, Owned
<1> QED BY <1>1, <1>2, <1>3 DEF AuthorityExclusive, Owned

\* The counters, when attempts and counters are left alone.
LEMMA CountsKept ==
    ASSUME AttemptsCounted, attempts' = attempts,
           DOMAIN schedules' = DOMAIN schedules,
           \A s \in DOMAIN schedules : schedules'[s].open_attempts = schedules[s].open_attempts
    PROVE  AttemptsCounted'
<1>1. LiveAttempts' = LiveAttempts
  BY DEF LiveAttempts
<1> QED BY <1>1 DEF AttemptsCounted

\* An attempt closes: the flow is detached from it and the schedule counts one
\* attempt less.
LEMMA AuthorityClosed ==
    ASSUME TypeOK, AuthorityExclusive, AttemptsCounted, NEW a \in LiveAttempts,
           DOMAIN attempts' = DOMAIN attempts,
           \A x \in DOMAIN attempts :
              /\ attempts'[x].ticket = attempts[x].ticket
              /\ x # a => attempts'[x].state = attempts[x].state,
           is_attempt_terminal(attempts'[a].state),
           open_attempt' = [open_attempt EXCEPT ![attempts[a].ticket.entry.flow] = NoAttempt],
           DOMAIN schedules' = DOMAIN schedules,
           \A x \in DOMAIN schedules :
              schedules'[x].open_attempts =
                 IF x = attempts[a].ticket.schedule
                 THEN Minus(schedules[x].open_attempts, 1) ELSE schedules[x].open_attempts,
           UNCHANGED <<epoch, flow>>,
           lifecycle'[attempts[a].ticket.entry.flow] \notin Owned,
           \A g \in Flows : g # attempts[a].ticket.entry.flow =>
              /\ lifecycle[g] \in Owned => lifecycle'[g] = lifecycle[g]
              /\ lifecycle'[g] \in Owned => lifecycle[g] \in Owned
    PROVE  AuthorityExclusive' /\ AttemptsCounted'
<1> DEFINE f == attempts[a].ticket.entry.flow
           s == attempts[a].ticket.schedule
<1>1. /\ a \in DOMAIN attempts /\ a # NoAttempt
      /\ f \in Flows /\ open_attempt[f] = a /\ s \in DOMAIN schedules
  BY LiveAttempt
<1>2. LiveAttempts' = LiveAttempts \ {a}
  <2>1. \A x \in DOMAIN attempts : x # a => attempts'[x].state = attempts[x].state
    OBVIOUS
  <2> QED BY <1>1, <2>1 DEF LiveAttempts
<1>3. open_attempt \in [Flows -> Nat]
  BY DEF TypeOK, FlowFieldsTyped
<1>4. /\ open_attempt'[f] = NoAttempt
      /\ \A g \in Flows : g # f => open_attempt'[g] = open_attempt[g]
  BY <1>1, <1>3
<1>5. \A g \in Flows : open_attempt[g] # NoAttempt =>
         lifecycle[g] \in Owned /\ open_attempt[g] \in LiveAttempts
         /\ attempts[open_attempt[g]].ticket.entry.flow = g
  BY NamedAttempt DEF Owned
<1>6. ASSUME NEW b \in LiveAttempts'
      PROVE  LET t == attempts'[b].ticket
             IN  /\ open_attempt'[t.entry.flow] = b
                 /\ t.attempt = b
                 /\ t.epoch = epoch'
                 /\ t.schedule \in DOMAIN schedules'
                 /\ flow'[t.entry.flow].generation = t.entry.flow_generation
                 /\ lifecycle'[t.entry.flow] =
                        IF attempts'[b].state = "Open" THEN "Dispatched" ELSE "Running"
  <2> DEFINE t == attempts[b].ticket
             g == t.entry.flow
  <2>1. b \in LiveAttempts /\ b # a
    BY <1>2, <1>6
  <2>2. b \in DOMAIN attempts /\ g \in Flows /\ open_attempt[g] = b /\ lifecycle[g] \in Owned
    BY <2>1, LiveAttempt DEF Owned
  <2>3. g # f
    BY <1>1, <2>1, <2>2
  <2>4. attempts'[b].ticket = t /\ attempts'[b].state = attempts[b].state
    BY <2>1, <2>2
  <2>5. lifecycle'[g] = lifecycle[g] /\ open_attempt'[g] = b
    BY <1>4, <2>2, <2>3
  <2>6. /\ t.attempt = b /\ t.epoch = epoch /\ t.schedule \in DOMAIN schedules
        /\ flow[g].generation = t.entry.flow_generation
        /\ lifecycle[g] = IF attempts[b].state = "Open" THEN "Dispatched" ELSE "Running"
    BY <2>1 DEF AuthorityExclusive
  <2> QED BY <2>4, <2>5, <2>6
<1>7. ASSUME NEW g \in Flows
      PROVE  /\ open_attempt'[g] # NoAttempt =>
                   open_attempt'[g] \in LiveAttempts'
                   /\ attempts'[open_attempt'[g]].ticket.entry.flow = g
             /\ lifecycle'[g] \in Owned => open_attempt'[g] # NoAttempt
  <2>1. CASE g = f
    BY <1>4, <2>1
  <2>2. CASE g # f
    <3>1. open_attempt'[g] = open_attempt[g]
      BY <1>4, <1>7, <2>2
    <3>2. lifecycle'[g] \in Owned => open_attempt[g] # NoAttempt
      BY <1>7, <2>2 DEF AuthorityExclusive, Owned
    <3>3. ASSUME open_attempt[g] # NoAttempt
          PROVE  open_attempt[g] \in LiveAttempts'
                 /\ attempts'[open_attempt[g]].ticket.entry.flow = g
      <4>1. open_attempt[g] \in LiveAttempts /\ attempts[open_attempt[g]].ticket.entry.flow = g
        BY <1>5, <1>7, <3>3
      <4>2. open_attempt[g] # a /\ open_attempt[g] \in DOMAIN attempts
        BY <1>1, <2>2, <4>1 DEF LiveAttempts
      <4> QED BY <1>2, <4>1, <4>2
    <3> QED BY <3>1, <3>2, <3>3
  <2> QED BY <2>1, <2>2
<1>8. AuthorityExclusive'
  BY <1>6, <1>7 DEF AuthorityExclusive, Owned
<1>9. ASSUME NEW x \in DOMAIN schedules
      PROVE  schedules'[x].open_attempts =
                Cardinality({b \in LiveAttempts' : attempts'[b].ticket.schedule = x})
  <2> DEFINE S == {b \in LiveAttempts : attempts[b].ticket.schedule = x}
             T == {b \in LiveAttempts' : attempts'[b].ticket.schedule = x}
  <2>1. T = S \ {a}
    BY <1>2, SMTT(60) DEF LiveAttempts
  <2>2. IsFiniteSet(S)
    BY LiveFinite, FS_Subset
  <2>3. schedules[x].open_attempts = Cardinality(S)
    BY <1>9 DEF AttemptsCounted
  <2> HIDE DEF S, T
  <2>4. CASE x = s
    <3>1. a \in S
      BY <2>4 DEF S
    <3>2. Cardinality(T) = Cardinality(S) - 1 /\ Cardinality(S) \in Nat /\ Cardinality(T) \in Nat
      BY <2>1, <2>2, <3>1, FS_RemoveElement, FS_CardinalityType, FS_Subset
    <3>3. schedules'[x].open_attempts = Minus(Cardinality(S), 1)
      BY <1>9, <2>3, <2>4
    <3> QED BY <3>2, <3>3, SMTT(60) DEF Minus, T
  <2>5. CASE x # s
    <3>1. a \notin S
      BY <2>5 DEF S
    <3>2. T = S
      BY <2>1, <3>1
    <3> QED BY <1>9, <2>3, <2>5, <3>2 DEF T
  <2> QED BY <2>4, <2>5
<1>10. AttemptsCounted'
  BY <1>9 DEF AttemptsCounted
<1> QED BY <1>8, <1>10

\* A step that leaves flows, schedules and attempts alone: the topology
\* methods, a refused call, and the steps of a round that only plan.
LEMMA AuthorityQuiet ==
    ASSUME TypeOK, AuthorityExclusive, AttemptsCounted,
           UNCHANGED <<epoch, attempts, open_attempt, schedules, lifecycle, flow>>
    PROVE  AuthorityExclusive' /\ AttemptsCounted'
<1>1. AuthorityExclusive'
  BY AuthorityKept
<1> QED BY <1>1, CountsKept

\* A step that moves one flow that has no attempt: admission, retirement, the
\* resolution of an ambiguity, a refresh, a lapse, an assignment.
LEMMA AuthorityMoved ==
    ASSUME TypeOK, AuthorityExclusive, AttemptsCounted, NEW f \in Flows,
           lifecycle[f] \notin Owned, lifecycle'[f] \notin Owned,
           \A g \in Flows : g # f => lifecycle'[g] = lifecycle[g] /\ flow'[g] = flow[g],
           UNCHANGED <<epoch, attempts>>,
           \/ open_attempt' = open_attempt
           \/ open_attempt' = [open_attempt EXCEPT ![f] = NoAttempt],
           DOMAIN schedules' = DOMAIN schedules,
           \A s \in DOMAIN schedules : schedules'[s].open_attempts = schedules[s].open_attempts
    PROVE  AuthorityExclusive' /\ AttemptsCounted'
<1>1. open_attempt[f] = NoAttempt
  BY NamedAttempt DEF Owned
<1>2. open_attempt' = open_attempt
  <2>1. open_attempt \in [Flows -> Nat]
    BY DEF TypeOK, FlowFieldsTyped
  <2> QED BY <1>1, <2>1
<1>3. \A g \in Flows :
         /\ open_attempt[g] # NoAttempt =>
               lifecycle'[g] = lifecycle[g] /\ flow'[g].generation = flow[g].generation
         /\ lifecycle'[g] \in Owned => lifecycle[g] \in Owned
  BY <1>1
<1>4. AuthorityExclusive'
  BY <1>2, <1>3, AuthorityKept
<1> QED BY <1>4, CountsKept

\* The descriptor calls on one flow.  admit_flow, update_flow and retire_flow are
\* refused while the flow holds open work, so none of them detaches an attempt.
LEMMA FlowCallAuthority ==
    ASSUME TypeOK, AuthorityExclusive, AttemptsCounted, NEW f \in Flows, NEW now,
           NEW d, NEW signal, NEW after \in {"Waiting", "Failed"},
           \/ admit_flow(f, d) \/ retire_flow(f) \/ resolve_ambiguous(f, after, now)
           \/ notify_readiness(f, signal, now)
    PROVE  AuthorityExclusive' /\ AttemptsCounted'
<1>0. lifecycle \in [Flows -> Lifecycles \cup {"Absent"}]
      /\ flow \in [Flows -> FlowDescriptors \cup {NoDescriptor}]
  BY DEF TypeOK, FlowRowsTyped
<1>1. CASE admit_flow(f, d)
  <2>1. /\ lifecycle[f] = "Absent" /\ lifecycle' = [lifecycle EXCEPT ![f] = "Waiting"]
        /\ flow' = [flow EXCEPT ![f] = d]
        /\ open_attempt' = [open_attempt EXCEPT ![f] = NoAttempt]
        /\ UNCHANGED <<epoch, attempts, schedules>>
    BY <1>1 DEF admit_flow
  <2>2. /\ lifecycle[f] \notin Owned /\ lifecycle'[f] \notin Owned
        /\ \A g \in Flows : g # f => lifecycle'[g] = lifecycle[g] /\ flow'[g] = flow[g]
    BY <1>0, <2>1 DEF Owned
  <2> QED BY <2>1, <2>2, AuthorityMoved
<1>2. CASE retire_flow(f)
  <2>1. /\ is_terminal(lifecycle[f]) /\ lifecycle' = [lifecycle EXCEPT ![f] = "Absent"]
        /\ flow' = [flow EXCEPT ![f] = NoDescriptor]
        /\ open_attempt' = [open_attempt EXCEPT ![f] = NoAttempt]
        /\ UNCHANGED <<epoch, attempts, schedules>>
    BY <1>2 DEF retire_flow
  <2>2. /\ lifecycle[f] \notin Owned /\ lifecycle'[f] \notin Owned
        /\ \A g \in Flows : g # f => lifecycle'[g] = lifecycle[g] /\ flow'[g] = flow[g]
    BY <1>0, <2>1 DEF Owned, is_terminal
  <2> QED BY <2>1, <2>2, AuthorityMoved
<1>3. CASE resolve_ambiguous(f, after, now)
  <2>1. /\ lifecycle[f] = "Ambiguous" /\ lifecycle' = [lifecycle EXCEPT ![f] = after]
        /\ UNCHANGED <<epoch, attempts, schedules, open_attempt, flow>>
    BY <1>3 DEF resolve_ambiguous
  <2>2. /\ lifecycle[f] \notin Owned /\ lifecycle'[f] \notin Owned
        /\ \A g \in Flows : g # f => lifecycle'[g] = lifecycle[g] /\ flow'[g] = flow[g]
    BY <1>0, <2>1 DEF Owned
  <2> QED BY <2>1, <2>2, AuthorityMoved
<1>4. CASE notify_readiness(f, signal, now)
  <2> DEFINE row == [flow[f] EXCEPT !.readiness_signal = signal]
  <2>1. /\ lifecycle[f] # "Absent" /\ flow' = [flow EXCEPT ![f] = row]
        /\ UNCHANGED <<epoch, attempts, schedules, open_attempt, lifecycle>>
    BY <1>4 DEF notify_readiness
  <2>2. flow[f] \in FlowDescriptors
    BY <2>1 DEF TypeOK, FlowRowsTyped
  <2>3. row.generation = flow[f].generation
    BY <2>2 DEF FlowDescriptors
  <2> HIDE DEF row
  <2>4. \A g \in Flows : flow'[g].generation = flow[g].generation
    BY <1>0, <2>1, <2>3
  <2>5. AuthorityExclusive'
    BY <2>1, <2>4, AuthorityKept
  <2> QED BY <2>1, <2>5, CountsKept
<1> QED BY <1>1, <1>2, <1>3, <1>4

\* Windows are taken back: flows go from Scheduled to Ready, and flows with an
\* attempt are not touched.
LEMMA AuthorityReleased ==
    ASSUME TypeOK, AuthorityExclusive, AttemptsCounted, NEW s \in DOMAIN schedules, NEW I,
           NEW t, t \in {Released(s, I), normalize_transient_states(Released(s, I))},
           release_run_entries(s, I, t),
           UNCHANGED <<epoch, attempts, open_attempt, next_schedule, round>>,
           \A g \in Flows : lifecycle[g] \in Owned => flow'[g].generation = flow[g].generation
    PROVE  AuthorityExclusive' /\ AttemptsCounted'
<1>0. next_schedule' = next_schedule /\ round' = round
  OBVIOUS
<1>1. /\ DOMAIN schedules' = DOMAIN schedules
      /\ \A x \in DOMAIN schedules : schedules'[x].open_attempts = schedules[x].open_attempts
      /\ lifecycle' = t
  BY <1>0, ReleaseType
<1> DEFINE u == Released(s, I)
<1>2. u \in Table
      /\ \A g \in Flows : \/ u[g] = lifecycle[g]
                          \/ u[g] = "Ready" /\ lifecycle[g] = "Scheduled"
  BY ReleasedTable
<1>3. t \in {u, normalize_transient_states(u)}
  OBVIOUS
<1> HIDE DEF u
<1>4. \A g \in Flows :
         /\ u[g] \in Owned => normalize_transient_states(u)[g] = u[g]
         /\ normalize_transient_states(u)[g] \in Owned => u[g] \in Owned
  BY <1>2, NormalizeTable DEF Owned
<1>5. \A g \in Flows :
         /\ lifecycle[g] \in Owned => t[g] = lifecycle[g]
         /\ t[g] \in Owned => lifecycle[g] \in Owned
  <2>1. \A g \in Flows : /\ lifecycle[g] \in Owned => u[g] = lifecycle[g]
                         /\ u[g] \in Owned => lifecycle[g] \in Owned
    BY <1>2 DEF Owned
  <2> QED BY <1>3, <1>4, <2>1
<1>6. \A g \in Flows : open_attempt[g] # NoAttempt => lifecycle[g] \in Owned
  BY NamedAttempt DEF Owned
<1>7. AuthorityExclusive'
  BY <1>1, <1>5, <1>6, AuthorityKept
<1> QED BY <1>1, <1>7, CountsKept

\* release_schedule touches windows only, never an attempt.
LEMMA ReleaseScheduleAuthority ==
    ASSUME TypeOK, AuthorityExclusive, AttemptsCounted, NEW s \in DOMAIN schedules,
           release_schedule(s) \/ RoundReclaim(s)
    PROVE  AuthorityExclusive' /\ AttemptsCounted'
<1> DEFINE I == DOMAIN schedules[s].entries
           t == lifecycle'
<1>1. /\ release_run_entries(s, I, Released(s, I))
         \/ release_run_entries(s, I, normalize_transient_states(Released(s, I)))
      /\ UNCHANGED <<epoch, attempts, open_attempt, next_schedule, round, flow>>
  BY DEF release_schedule, RoundReclaim
<1> HIDE DEF I
<1> QED BY <1>1, AuthorityReleased

\* update_flow is refused while authority is open, so it moves none.
LEMMA UpdateAuthority ==
    ASSUME TypeOK, AuthorityExclusive, AttemptsCounted, NEW f \in Flows, NEW d,
           update_flow(f, d)
    PROVE  AuthorityExclusive' /\ AttemptsCounted'
<1> DEFINE s == scheduled[f][1]
           I == {scheduled[f][2]}
<1>1. /\ ~holds_open_work(lifecycle[f]) /\ flow' = [flow EXCEPT ![f] = d] /\ RetireWindow(f)
      /\ UNCHANGED <<epoch, attempts, open_attempt, next_schedule, round>>
  BY DEF update_flow
<1>2. lifecycle[f] \notin Owned /\ flow \in [Flows -> FlowDescriptors \cup {NoDescriptor}]
  BY <1>1 DEF holds_open_work, Owned, TypeOK, FlowRowsTyped
<1>3. \A g \in Flows : g # f => flow'[g] = flow[g]
  BY <1>1, <1>2
<1>4. CASE lifecycle[f] = "Scheduled" /\ s \in DOMAIN schedules
  <2>1. release_run_entries(s, I, Released(s, I))
    BY <1>1, <1>4 DEF RetireWindow
  <2>2. \A g \in Flows : lifecycle[g] \in Owned => flow'[g].generation = flow[g].generation
    BY <1>2, <1>3
  <2> HIDE DEF s, I
  <2> QED BY <1>1, <1>4, <2>1, <2>2, AuthorityReleased
<1>5. CASE ~(lifecycle[f] = "Scheduled" /\ s \in DOMAIN schedules)
  <2>1. UNCHANGED <<schedules, lifecycle>>
    BY <1>1, <1>5 DEF RetireWindow
  <2> QED BY <1>1, <1>2, <1>3, <2>1, AuthorityMoved
<1> QED BY <1>4, <1>5

-----------------------------------------------------------------------------
(***************************************************************************)
(* The methods that close an attempt                                       *)
(***************************************************************************)

\* One flow leaves its dispatch and the other dispatched flows stay.
LEMMA OwnedAfter ==
    ASSUME TypeOK, NEW f \in Flows, NEW l \in Lifecycles, l \notin Owned,
           NEW t, t \in {[lifecycle EXCEPT ![f] = l],
                         normalize_transient_states([lifecycle EXCEPT ![f] = l])}
    PROVE  /\ t[f] \notin Owned
           /\ \A g \in Flows : g # f =>
                 /\ lifecycle[g] \in Owned => t[g] = lifecycle[g]
                 /\ t[g] \in Owned => lifecycle[g] \in Owned
<1> DEFINE u == [lifecycle EXCEPT ![f] = l]
<1>1. lifecycle \in Table
  BY LifecycleTable
<1>2. u \in Table /\ u[f] = l /\ \A g \in Flows : g # f => u[g] = lifecycle[g]
  BY <1>1 DEF Table
<1>3. t \in {u, normalize_transient_states(u)}
  OBVIOUS
<1> HIDE DEF u
<1>4. \A g \in Flows :
         /\ u[g] \in Owned => normalize_transient_states(u)[g] = u[g]
         /\ normalize_transient_states(u)[g] \in Owned => u[g] \in Owned
  BY <1>2, NormalizeTable DEF Owned
<1> QED BY <1>2, <1>3, <1>4

\* apply_attempt_closed, whoever calls it.
LEMMA ClosedAuthority ==
    ASSUME TypeOK, AuthorityExclusive, AttemptsCounted, NEW a \in LiveAttempts,
           NEW state \in AttemptStates, is_attempt_terminal(state),
           NEW l \in Lifecycles, l \notin Owned, NEW t,
           t \in {[lifecycle EXCEPT ![attempts[a].ticket.entry.flow] = l],
                  normalize_transient_states(
                     [lifecycle EXCEPT ![attempts[a].ticket.entry.flow] = l])},
           apply_attempt_closed(a, state, t),
           UNCHANGED <<epoch, flow, next_schedule, next_attempt, tickets>>,
           (round'.phase = "Issue" /\ round'.entries # <<>>) <=>
              (round.phase = "Issue" /\ round.entries # <<>>)
    PROVE  AuthorityExclusive' /\ AttemptsCounted'
<1> DEFINE f == attempts[a].ticket.entry.flow
           s == attempts[a].ticket.schedule
<1>1. a \in DOMAIN attempts /\ f \in Flows
  BY LiveAttempt
<1>2. /\ attempts' = [attempts EXCEPT ![a].state = state]
      /\ schedules' = [schedules EXCEPT ![s].open_attempts = Minus(@, 1)]
      /\ open_attempt' = [open_attempt EXCEPT ![f] = NoAttempt]
      /\ lifecycle' = t
  BY CloseEffect
<1>3. next_schedule' = next_schedule /\ next_attempt' = next_attempt /\ tickets' = tickets
      /\ epoch' = epoch /\ flow' = flow
  OBVIOUS
<1>4. /\ DOMAIN attempts' = DOMAIN attempts
      /\ \A x \in DOMAIN attempts :
            /\ attempts'[x].ticket = attempts[x].ticket
            /\ attempts'[x].state = IF x = a THEN state ELSE attempts[x].state
  BY <1>1, <1>2, <1>3, StateType
<1>5. /\ DOMAIN schedules' = DOMAIN schedules
      /\ \A x \in DOMAIN schedules :
            schedules'[x].open_attempts =
               IF x = s THEN Minus(schedules[s].open_attempts, 1)
               ELSE schedules[x].open_attempts
  <2> HIDE DEF s
  <2> QED BY <1>2, <1>3, CountType
<1>6. /\ t[f] \notin Owned
      /\ \A g \in Flows : g # f =>
            /\ lifecycle[g] \in Owned => t[g] = lifecycle[g]
            /\ t[g] \in Owned => lifecycle[g] \in Owned
  <2>1. t \in {[lifecycle EXCEPT ![f] = l],
               normalize_transient_states([lifecycle EXCEPT ![f] = l])}
    OBVIOUS
  <2> HIDE DEF f
  <2> QED BY <1>1, <2>1, OwnedAfter, SMTT(60)
<1>7. /\ is_attempt_terminal(attempts'[a].state)
      /\ \A x \in DOMAIN attempts : x # a => attempts'[x].state = attempts[x].state
  BY <1>1, <1>4
<1>8. /\ lifecycle'[f] \notin Owned
      /\ \A g \in Flows : g # f =>
            /\ lifecycle[g] \in Owned => lifecycle'[g] = lifecycle[g]
            /\ lifecycle'[g] \in Owned => lifecycle[g] \in Owned
  BY <1>2, <1>6
<1>9. \A x \in DOMAIN schedules :
         schedules'[x].open_attempts =
            IF x = s THEN Minus(schedules[x].open_attempts, 1)
            ELSE schedules[x].open_attempts
  BY <1>5
<1>10. \A x \in DOMAIN attempts :
          /\ attempts'[x].ticket = attempts[x].ticket
          /\ x # a => attempts'[x].state = attempts[x].state
  BY <1>4, <1>7
<1> QED BY <1>2, <1>3, <1>4, <1>5, <1>7, <1>8, <1>9, <1>10, AuthorityClosed

\* abandon_attempt and preempt_attempt take the authority they close away from
\* the flow as well.
LEMMA CloseByCallerAuthority ==
    ASSUME TypeOK, AuthorityExclusive, AttemptsCounted, NEW a, NEW now,
           abandon_attempt(a, now) \/ preempt_attempt(a, now)
    PROVE  AuthorityExclusive' /\ AttemptsCounted'
<1> DEFINE f == attempts[a].ticket.entry.flow
<1>1. PICK state \in {"Abandoned", "Preempted"}, l \in {"Ambiguous", "Preempting"} :
         CloseByCaller(a, state, l, now)
  BY DEF abandon_attempt, preempt_attempt
<1>2. state \in AttemptStates /\ is_attempt_terminal(state) /\ l \in Lifecycles /\ l \notin Owned
  BY DEF AttemptStates, is_attempt_terminal, Lifecycles, Owned
<1>3. /\ a \in LiveAttempts
      /\ apply_attempt_closed(a, state, normalize_transient_states([lifecycle EXCEPT ![f] = l]))
      /\ UNCHANGED <<epoch, flow, next_schedule, next_attempt, tickets>> /\ round' = round
  BY <1>1 DEF CloseByCaller
<1>4. (round'.phase = "Issue" /\ round'.entries # <<>>) <=>
         (round.phase = "Issue" /\ round.entries # <<>>)
  BY <1>3
<1> QED BY <1>2, <1>3, <1>4, ClosedAuthority

\* Stopping an overdue attempt.
LEMMA OverdueAuthority ==
    ASSUME TypeOK, AuthorityExclusive, AttemptsCounted, CandidatesSettled,
           NEW f \in Flows, RoundOverdue(f)
    PROVE  AuthorityExclusive' /\ AttemptsCounted' /\ CandidatesSettled'
<1> DEFINE a == open_attempt[f]
<1>1. /\ round.phase = "Overdue" /\ f \in round.todo
      /\ apply_attempt_closed(a, "Preempted", [lifecycle EXCEPT ![f] = "Preempting"])
      /\ round' = [round EXCEPT !.phase = "Overdue", !.todo = round.todo \ {f}]
      /\ UNCHANGED <<epoch, flow, next_schedule, next_attempt, tickets>>
  BY DEF RoundOverdue, Enter
<1>2. a \in LiveAttempts /\ attempts[a].ticket.entry.flow = f
  BY <1>1, NamedAttempt DEF CandidatesSettled
<1>3. round'.phase = "Overdue" /\ round'.todo = round.todo \ {f}
  BY <1>1 DEF TypeOK, Rounds
<1>4. "Preempted" \in AttemptStates /\ is_attempt_terminal("Preempted")
      /\ "Preempting" \in Lifecycles /\ "Preempting" \notin Owned
  BY DEF AttemptStates, is_attempt_terminal, Lifecycles, Owned
<1>5. AuthorityExclusive' /\ AttemptsCounted'
  <2>1. (round'.phase = "Issue" /\ round'.entries # <<>>) <=>
           (round.phase = "Issue" /\ round.entries # <<>>)
    BY <1>1, <1>3
  <2> HIDE DEF a
  <2> QED BY <1>1, <1>2, <1>4, <2>1, ClosedAuthority
<1>6. CandidatesSettled'
  <2>1. open_attempt' = [open_attempt EXCEPT ![f] = NoAttempt]
    BY <1>1, <1>2, <1>4, CloseEffect
  <2>2. open_attempt \in [Flows -> Nat] /\ round.todo \subseteq Flows
    BY DEF TypeOK, FlowFieldsTyped, Rounds
  <2>3. \A g \in round.todo : g # f => open_attempt'[g] # NoAttempt
    BY <1>1, <2>1, <2>2 DEF CandidatesSettled
  <2> QED BY <1>3, <2>3 DEF CandidatesSettled
<1> QED BY <1>5, <1>6

\* cancel_flow closes the attempt its flow names, and no other.
LEMMA CancelAuthority ==
    ASSUME TypeOK, AuthorityExclusive, AttemptsCounted, NEW f \in Flows, cancel_flow(f)
    PROVE  AuthorityExclusive' /\ AttemptsCounted'
<1> DEFINE a == open_attempt[f]
           slot == scheduled[f]
           t == normalize_transient_states([lifecycle EXCEPT ![f] = "Cancelled"])
<1>1. /\ lifecycle' = t
      /\ UNCHANGED <<epoch, flow, next_schedule, next_attempt, tickets>> /\ round' = round
  BY DEF cancel_flow
<1>2. "Cancelled" \in AttemptStates /\ is_attempt_terminal("Cancelled")
      /\ "Cancelled" \in Lifecycles /\ "Cancelled" \notin Owned
  BY DEF AttemptStates, is_attempt_terminal, Lifecycles, Owned
<1>3. /\ lifecycle'[f] \notin Owned
      /\ \A g \in Flows : g # f =>
            /\ lifecycle[g] \in Owned => lifecycle'[g] = lifecycle[g]
            /\ lifecycle'[g] \in Owned => lifecycle[g] \in Owned
  <2>1. t \in {[lifecycle EXCEPT ![f] = "Cancelled"],
               normalize_transient_states([lifecycle EXCEPT ![f] = "Cancelled"])}
    OBVIOUS
  <2> HIDE DEF t
  <2>2. /\ t[f] \notin Owned
        /\ \A g \in Flows : g # f =>
              /\ lifecycle[g] \in Owned => t[g] = lifecycle[g]
              /\ t[g] \in Owned => lifecycle[g] \in Owned
    BY <1>2, <2>1, OwnedAfter, SMTT(60)
  <2> QED BY <1>1, <2>2
<1>4. CASE a # NoAttempt
  <2> DEFINE s == attempts[a].ticket.schedule
  <2>1. /\ attempts' = [attempts EXCEPT ![a].state = "Cancelled"]
        /\ schedules' = [schedules EXCEPT ![s].open_attempts = Minus(@, 1)]
        /\ open_attempt' = [open_attempt EXCEPT ![f] = NoAttempt]
    BY <1>4 DEF cancel_flow
  <2>2. a \in LiveAttempts /\ a \in DOMAIN attempts /\ attempts[a].ticket.entry.flow = f
    BY <1>4, NamedAttempt
  <2>3. /\ DOMAIN attempts' = DOMAIN attempts
        /\ \A x \in DOMAIN attempts :
              /\ attempts'[x].ticket = attempts[x].ticket
              /\ attempts'[x].state = IF x = a THEN "Cancelled" ELSE attempts[x].state
    <3> HIDE DEF a
    <3> QED BY <1>1, <1>2, <2>1, <2>2, StateType
  <2>4. /\ DOMAIN schedules' = DOMAIN schedules
        /\ \A x \in DOMAIN schedules :
              schedules'[x].open_attempts =
                 IF x = s THEN Minus(schedules[x].open_attempts, 1)
                 ELSE schedules[x].open_attempts
    <3>1. (round'.phase = "Issue" /\ round'.entries # <<>>) <=>
             (round.phase = "Issue" /\ round.entries # <<>>)
      BY <1>1
    <3>2. next_schedule' = next_schedule
      BY <1>1
    <3> HIDE DEF s
    <3>3. /\ DOMAIN schedules' = DOMAIN schedules
          /\ \A x \in DOMAIN schedules :
                schedules'[x].open_attempts =
                   IF x = s THEN Minus(schedules[s].open_attempts, 1)
                   ELSE schedules[x].open_attempts
      BY <2>1, <3>1, <3>2, CountType
    <3> QED BY <3>3
  <2>5. /\ is_attempt_terminal(attempts'[a].state)
        /\ \A x \in DOMAIN attempts :
              /\ attempts'[x].ticket = attempts[x].ticket
              /\ x # a => attempts'[x].state = attempts[x].state
    BY <1>2, <2>2, <2>3
  <2> HIDE DEF a
  <2> QED BY <1>1, <1>3, <2>1, <2>2, <2>3, <2>4, <2>5, AuthorityClosed
<1>5. CASE a = NoAttempt
  <2>1. UNCHANGED <<attempts, open_attempt>>
    BY <1>5 DEF cancel_flow
  <2>2. /\ DOMAIN schedules' = DOMAIN schedules
        /\ \A x \in DOMAIN schedules : schedules'[x].open_attempts = schedules[x].open_attempts
    <3>1. CASE lifecycle[f] = "Scheduled"
      <4> DEFINE s == slot[1]
                 sch == schedules[s]
                 marks == [sch.consumed EXCEPT ![slot[2]] = 2]
                 left == Minus(sch.pending_entries, 1)
                 row == [sch EXCEPT !.consumed = marks, !.pending_entries = left]
      <4>1. schedules' = [schedules EXCEPT ![s] = row]
        BY <1>5, <3>1 DEF cancel_flow
      <4>2. s \in DOMAIN schedules => row.open_attempts = sch.open_attempts
        <5>1. s \in DOMAIN schedules => sch \in ScheduleRows(Len(sch.entries))
          BY ScheduleRow
        <5> HIDE DEF sch, marks, left
        <5> QED BY <5>1 DEF ScheduleRows
      <4> HIDE DEF row, s
      <4> QED BY <4>1, <4>2 DEF sch
    <3>2. CASE lifecycle[f] # "Scheduled"
      BY <1>5, <3>2 DEF cancel_flow
    <3> QED BY <3>1, <3>2
  <2>3. \A g \in Flows :
           /\ open_attempt[g] # NoAttempt =>
                 lifecycle'[g] = lifecycle[g] /\ flow'[g].generation = flow[g].generation
           /\ lifecycle'[g] \in Owned => lifecycle[g] \in Owned
    <3>1. \A g \in Flows : open_attempt[g] # NoAttempt => lifecycle[g] \in Owned
      BY NamedAttempt DEF Owned
    <3> QED BY <1>1, <1>3, <1>5, <3>1
  <2>4. AuthorityExclusive'
    BY <1>1, <2>1, <2>2, <2>3, AuthorityKept
  <2> QED BY <2>1, <2>2, <2>4, CountsKept
<1> QED BY <1>4, <1>5

\* complete takes the authority away from the attempt it commits.
LEMMA CompleteAuthority ==
    ASSUME TypeOK, AuthorityExclusive, AttemptsCounted, NEW ev, NEW now,
           complete(ev, now)
    PROVE  AuthorityExclusive' /\ AttemptsCounted'
<1> DEFINE a == ev.attempt
           f == ev.ticket.entry.flow
           s == attempts[a].ticket.schedule
           l == LifecycleAfter(ev, now)
           row == [attempts[a] EXCEPT !.state = "Committed", !.evidence = <<ev>>]
<1>1. /\ a \in DOMAIN attempts /\ attempts[a].ticket.entry.flow = f
      /\ ~is_attempt_terminal(attempts[a].state)
  BY DEF complete, NamesAttempt, StillOpen
<1>2. a \in LiveAttempts /\ f \in Flows /\ attempts[a] \in AttemptRows
  <2>1. a \in LiveAttempts
    BY <1>1 DEF LiveAttempts
  <2> QED BY <1>1, <2>1, AttemptRow
<1>3. /\ attempts' = [attempts EXCEPT ![a] = row]
      /\ schedules' = [schedules EXCEPT ![s].open_attempts = Minus(@, 1)]
      /\ open_attempt' = [open_attempt EXCEPT ![f] = NoAttempt]
      /\ lifecycle' = normalize_transient_states([lifecycle EXCEPT ![f] = l])
      /\ UNCHANGED <<epoch, flow>> /\ next_schedule' = next_schedule /\ round' = round
  BY DEF complete
<1>4. /\ DOMAIN attempts' = DOMAIN attempts
      /\ is_attempt_terminal(attempts'[a].state)
      /\ \A x \in DOMAIN attempts :
            /\ attempts'[x].ticket = attempts[x].ticket
            /\ x # a => attempts'[x].state = attempts[x].state
  <2>1. row.ticket = attempts[a].ticket /\ row.state = "Committed"
    BY <1>2 DEF AttemptRows
  <2>2. is_attempt_terminal("Committed")
    BY DEF is_attempt_terminal
  <2> HIDE DEF row, a
  <2> QED BY <1>1, <1>3, <2>1, <2>2
<1>5. /\ DOMAIN schedules' = DOMAIN schedules
      /\ \A x \in DOMAIN schedules :
            schedules'[x].open_attempts =
               IF x = s THEN Minus(schedules[x].open_attempts, 1)
               ELSE schedules[x].open_attempts
  <2>1. (round'.phase = "Issue" /\ round'.entries # <<>>) <=>
           (round.phase = "Issue" /\ round.entries # <<>>)
    BY <1>3
  <2> HIDE DEF s
  <2>2. /\ DOMAIN schedules' = DOMAIN schedules
        /\ \A x \in DOMAIN schedules :
              schedules'[x].open_attempts =
                 IF x = s THEN Minus(schedules[s].open_attempts, 1)
                 ELSE schedules[x].open_attempts
    BY <1>3, <2>1, CountType
  <2> QED BY <2>2
<1>6. /\ lifecycle'[f] \notin Owned
      /\ \A g \in Flows : g # f =>
            /\ lifecycle[g] \in Owned => lifecycle'[g] = lifecycle[g]
            /\ lifecycle'[g] \in Owned => lifecycle[g] \in Owned
  <2>1. l \in {"Failed", "Completed", "Ready", "Waiting"}
    BY DEF LifecycleAfter
  <2>2. l \in Lifecycles /\ l \notin Owned
    BY <2>1 DEF Lifecycles, Owned
  <2> DEFINE t == normalize_transient_states([lifecycle EXCEPT ![f] = l])
  <2>3. t \in {[lifecycle EXCEPT ![f] = l],
               normalize_transient_states([lifecycle EXCEPT ![f] = l])}
    OBVIOUS
  <2> HIDE DEF l, f, t
  <2>4. /\ t[f] \notin Owned
        /\ \A g \in Flows : g # f =>
              /\ lifecycle[g] \in Owned => t[g] = lifecycle[g]
              /\ t[g] \in Owned => lifecycle[g] \in Owned
    BY <1>2, <2>2, <2>3, OwnedAfter, SMTT(60)
  <2> QED BY <1>3, <2>4 DEF t
<1> HIDE DEF a, f, row, l
<1> QED BY <1>1, <1>2, <1>3, <1>4, <1>5, <1>6, AuthorityClosed

-----------------------------------------------------------------------------
-----------------------------------------------------------------------------
(***************************************************************************)
(* The other methods and steps                                             *)
(***************************************************************************)

\* refresh of a waiting flow and lapse of a candidate.
LEMMA LapseAuthority ==
    ASSUME TypeOK, AuthorityExclusive, AttemptsCounted, CandidatesSettled,
           NEW f \in Flows, RoundRefresh(f) \/ RoundLapse(f)
    PROVE  AuthorityExclusive' /\ AttemptsCounted' /\ CandidatesSettled'
<1>1. PICK l \in {"Ready", "Failed", lifecycle[f]}, phase \in {"Refresh", "Assign"} :
         /\ round.phase = phase /\ f \in round.todo
         /\ lifecycle' = [lifecycle EXCEPT ![f] = l]
         /\ round' = [round EXCEPT !.phase = phase, !.todo = round.todo \ {f}]
         /\ UNCHANGED <<epoch, attempts, open_attempt, schedules, flow>>
  <2> DEFINE reason == derived_readiness(f, round.now)
             k == LapseLifecycle(f, reason)
             m == IF reason = "Selected" THEN "Ready" ELSE k
  <2>1. k \in {"Ready", "Failed", lifecycle[f]} /\ m \in {"Ready", "Failed", lifecycle[f]}
    BY DEF LapseLifecycle
  <2>2. CASE RoundRefresh(f)
    <3>1. /\ round.phase = "Refresh" /\ f \in round.todo
          /\ lifecycle' = [lifecycle EXCEPT ![f] = m]
          /\ round' = [round EXCEPT !.phase = "Refresh", !.todo = round.todo \ {f}]
          /\ UNCHANGED <<epoch, attempts, open_attempt, schedules, flow>>
      BY <2>2 DEF RoundRefresh, Enter
    <3> HIDE DEF m
    <3> QED BY <2>1, <3>1
  <2>3. CASE RoundLapse(f)
    <3>1. /\ round.phase = "Assign" /\ f \in round.todo
          /\ lifecycle' = [lifecycle EXCEPT ![f] = k]
          /\ round' = [round EXCEPT !.phase = "Assign", !.todo = round.todo \ {f}]
          /\ UNCHANGED <<epoch, attempts, open_attempt, schedules, flow>>
      BY <2>3 DEF RoundLapse, Candidate, Enter
    <3> HIDE DEF k
    <3> QED BY <2>1, <3>1
  <2> QED BY <2>2, <2>3
<1>2. lifecycle[f] \in {"Waiting", "Ready"}
  BY <1>1 DEF CandidatesSettled
<1>3. lifecycle \in [Flows -> Lifecycles \cup {"Absent"}] /\ round.todo \subseteq Flows
  BY DEF TypeOK, FlowRowsTyped, Rounds
<1>4. /\ lifecycle[f] \notin Owned /\ lifecycle'[f] \notin Owned
      /\ \A g \in Flows : g # f => lifecycle'[g] = lifecycle[g]
  BY <1>1, <1>2, <1>3 DEF Owned
<1>5. AuthorityExclusive' /\ AttemptsCounted'
  BY <1>1, <1>4, AuthorityMoved
<1>6. round'.phase = round.phase /\ round'.todo = round.todo \ {f}
  BY <1>1 DEF TypeOK, Rounds
<1>7. CandidatesSettled'
  BY <1>1, <1>3, <1>4, <1>6 DEF CandidatesSettled
<1> QED BY <1>5, <1>7

\* The issued schedule enters the table with no attempt of its own.
LEMMA IssueAuthority ==
    ASSUME TypeOK, AuthorityExclusive, AttemptsCounted, RoundIssue
    PROVE  AuthorityExclusive' /\ AttemptsCounted'
<1>1. /\ round.phase = "Assign"
      /\ UNCHANGED <<epoch, attempts, open_attempt, lifecycle, flow>>
      /\ \/ schedules' = schedules
         \/ \E row : row.open_attempts = 0 /\ schedules' = With(schedules, next_schedule, row)
  <2> DEFINE issued == [epoch |-> epoch, policy |-> PolicyBinding, at_tick |-> round.now,
                        entries |-> round.entries,
                        consumed |-> [i \in DOMAIN round.entries |-> 0],
                        open_attempts |-> 0, pending_entries |-> 0]
  <2>1. issued.open_attempts = 0
    OBVIOUS
  <2>2. /\ round.phase = "Assign"
        /\ UNCHANGED <<epoch, attempts, open_attempt, lifecycle, flow>>
        /\ schedules' = IF round.entries = <<>> THEN schedules
                        ELSE With(schedules, next_schedule, issued)
    BY DEF RoundIssue
  <2> HIDE DEF issued
  <2> QED BY <2>1, <2>2
<1>2. CASE schedules' = schedules
  BY <1>1, <1>2, AuthorityQuiet
<1>3. ASSUME NEW row, row.open_attempts = 0,
             schedules' = With(schedules, next_schedule, row)
      PROVE  AuthorityExclusive' /\ AttemptsCounted'
  <2>1. /\ DOMAIN schedules' = DOMAIN schedules \cup {next_schedule}
        /\ schedules'[next_schedule] = row
        /\ \A x \in DOMAIN schedules' : x # next_schedule => schedules'[x] = schedules[x]
    BY <1>3 DEF With
  <2>2. AuthorityExclusive'
    BY <1>1, <2>1, AuthorityKept
  <2>3. next_schedule \notin DOMAIN schedules
    BY <1>1, SMTT(60) DEF TypeOK, SchedulesTyped
  <2>4. {b \in LiveAttempts : attempts[b].ticket.schedule = next_schedule} = {}
    BY <2>3, LiveAttempt
  <2>5. LiveAttempts' = LiveAttempts
    BY <1>1 DEF LiveAttempts
  <2>6. ASSUME NEW x \in DOMAIN schedules'
        PROVE  schedules'[x].open_attempts =
                  Cardinality({b \in LiveAttempts' : attempts'[b].ticket.schedule = x})
    <3>1. CASE x = next_schedule
      <4>1. {b \in LiveAttempts' : attempts'[b].ticket.schedule = x} = {}
        BY <1>1, <2>4, <2>5, <3>1
      <4> QED BY <1>3, <2>1, <3>1, <4>1, FS_EmptySet
    <3>2. CASE x # next_schedule
      <4>1. x \in DOMAIN schedules /\ schedules'[x] = schedules[x]
        BY <2>1, <2>6, <3>2
      <4>2. schedules[x].open_attempts =
               Cardinality({b \in LiveAttempts : attempts[b].ticket.schedule = x})
        BY <4>1 DEF AttemptsCounted
      <4> QED BY <1>1, <2>5, <4>1, <4>2
    <3> QED BY <3>1, <3>2
  <2>7. AttemptsCounted'
    BY <2>6 DEF AttemptsCounted
  <2> QED BY <2>2, <2>7
<1> QED BY <1>1, <1>2, <1>3

\* Retention drops no schedule that a live attempt names, because such a schedule
\* counts at least that attempt.
LEMMA FinishAuthority ==
    ASSUME TypeOK, AuthorityExclusive, AttemptsCounted, RoundFinish
    PROVE  AuthorityExclusive' /\ AttemptsCounted'
<1> DEFINE S == Retired(schedules)
           A == {a \in DOMAIN attempts : attempts[a].ticket.schedule \in S}
<1>1. /\ lifecycle' = normalize_transient_states(lifecycle)
      /\ schedules' = Without(schedules, S)
      /\ attempts' = Without(attempts, A)
      /\ UNCHANGED <<epoch, flow, open_attempt>>
  BY DEF RoundFinish
<1>2. ASSUME NEW a \in LiveAttempts
      PROVE  attempts[a].ticket.schedule \in DOMAIN schedules \ S
  <2> DEFINE s == attempts[a].ticket.schedule
             T == {b \in LiveAttempts : attempts[b].ticket.schedule = s}
  <2>1. s \in DOMAIN schedules /\ a \in T
    BY <1>2, LiveAttempt
  <2>2. IsFiniteSet(T)
    BY LiveFinite, FS_Subset
  <2>3. schedules[s].open_attempts = Cardinality(T)
    BY <2>1 DEF AttemptsCounted
  <2>4. s \in Nat
    BY <2>1, ScheduleRow
  <2> HIDE DEF T, s
  <2>5. Cardinality(T) # 0
    BY <2>1, <2>2, FS_EmptySet
  <2>6. s \notin S
    BY <2>1, <2>3, <2>4, <2>5, SMTT(60) DEF Retired
  <2> QED BY <2>1, <2>6 DEF s
<1> HIDE DEF S
<1>3. /\ DOMAIN attempts' = DOMAIN attempts \ A
      /\ \A x \in DOMAIN attempts' : attempts'[x] = attempts[x]
      /\ DOMAIN schedules' = DOMAIN schedules \ S
      /\ \A x \in DOMAIN schedules' : schedules'[x] = schedules[x]
  <2> HIDE DEF A
  <2> QED BY <1>1 DEF Without
<1>4. LiveAttempts' = LiveAttempts
  BY <1>2, <1>3 DEF LiveAttempts
<1>5. \A a \in LiveAttempts : attempts'[a] = attempts[a]
  BY <1>3, <1>4 DEF LiveAttempts
<1>6. \A g \in Flows : /\ lifecycle[g] \in Owned => lifecycle'[g] = lifecycle[g]
                       /\ lifecycle'[g] \in Owned => lifecycle[g] \in Owned
  BY <1>1, LifecycleTable, NormalizeTable DEF Owned
<1>7. ASSUME NEW b \in LiveAttempts'
      PROVE  LET t == attempts'[b].ticket
             IN  /\ open_attempt'[t.entry.flow] = b
                 /\ t.attempt = b
                 /\ t.epoch = epoch'
                 /\ t.schedule \in DOMAIN schedules'
                 /\ flow'[t.entry.flow].generation = t.entry.flow_generation
                 /\ lifecycle'[t.entry.flow] =
                        IF attempts'[b].state = "Open" THEN "Dispatched" ELSE "Running"
  <2> DEFINE t == attempts[b].ticket
             g == t.entry.flow
  <2>1. b \in LiveAttempts /\ attempts'[b] = attempts[b]
    BY <1>4, <1>5, <1>7
  <2>2. g \in Flows /\ open_attempt[g] = b /\ lifecycle[g] \in Owned
    BY <2>1, LiveAttempt DEF Owned
  <2>3. lifecycle'[g] = lifecycle[g] /\ t.schedule \in DOMAIN schedules'
    BY <1>2, <1>3, <1>6, <2>1, <2>2
  <2>4. /\ t.attempt = b /\ t.epoch = epoch
        /\ flow[g].generation = t.entry.flow_generation
        /\ lifecycle[g] = IF attempts[b].state = "Open" THEN "Dispatched" ELSE "Running"
    BY <2>1 DEF AuthorityExclusive
  <2> QED BY <1>1, <2>1, <2>2, <2>3, <2>4
<1>8. ASSUME NEW g \in Flows
      PROVE  /\ open_attempt'[g] # NoAttempt =>
                   open_attempt'[g] \in LiveAttempts'
                   /\ attempts'[open_attempt'[g]].ticket.entry.flow = g
             /\ lifecycle'[g] \in Owned => open_attempt'[g] # NoAttempt
  BY <1>1, <1>4, <1>5, <1>6, <1>8, NamedAttempt DEF Owned
<1>9. AuthorityExclusive'
  BY <1>7, <1>8 DEF AuthorityExclusive, Owned
<1>10. ASSUME NEW x \in DOMAIN schedules'
       PROVE  schedules'[x].open_attempts =
                 Cardinality({b \in LiveAttempts' : attempts'[b].ticket.schedule = x})
  <2>1. x \in DOMAIN schedules /\ schedules'[x] = schedules[x]
    BY <1>3, <1>10
  <2>2. schedules[x].open_attempts =
           Cardinality({b \in LiveAttempts : attempts[b].ticket.schedule = x})
    BY <2>1 DEF AttemptsCounted
  <2>3. {b \in LiveAttempts' : attempts'[b].ticket.schedule = x}
           = {b \in LiveAttempts : attempts[b].ticket.schedule = x}
    BY <1>4, <1>5
  <2> QED BY <2>1, <2>2, <2>3
<1> QED BY <1>9, <1>10 DEF AttemptsCounted

\* mark_started keeps the attempt live and its flow its owner.
LEMMA StartAuthority ==
    ASSUME TypeOK, AuthorityExclusive, AttemptsCounted, NEW u, NEW now, mark_started(u, now)
    PROVE  AuthorityExclusive' /\ AttemptsCounted'
<1> DEFINE a == u.attempt
           f == attempts[a].ticket.entry.flow
<1>1. /\ a \in DOMAIN attempts /\ attempts[a].state = "Open"
      /\ attempts' = [attempts EXCEPT ![a].state = "Started"]
      /\ lifecycle' = IF open_attempt[f] = a THEN [lifecycle EXCEPT ![f] = "Running"]
                      ELSE lifecycle
      /\ UNCHANGED <<epoch, flow, open_attempt, schedules>>
      /\ UNCHANGED <<next_attempt, tickets>>
  BY DEF mark_started
<1>2. a \in LiveAttempts
  BY <1>1 DEF LiveAttempts, is_attempt_terminal
<1>3. f \in Flows /\ open_attempt[f] = a /\ lifecycle[f] \in Owned
  BY <1>2, LiveAttempt DEF Owned
<1>4. /\ DOMAIN attempts' = DOMAIN attempts
      /\ \A x \in DOMAIN attempts :
            /\ attempts'[x].ticket = attempts[x].ticket
            /\ attempts'[x].state = IF x = a THEN "Started" ELSE attempts[x].state
  <2>1. "Started" \in AttemptStates
    BY DEF AttemptStates
  <2> HIDE DEF a
  <2> QED BY <1>1, <2>1, StateType
<1>5. LiveAttempts' = LiveAttempts
  <2> HIDE DEF a
  <2> QED BY <1>1, <1>4 DEF LiveAttempts, is_attempt_terminal
<1>6. lifecycle'[f] = "Running" /\ \A g \in Flows : g # f => lifecycle'[g] = lifecycle[g]
  <2>1. lifecycle \in [Flows -> Lifecycles \cup {"Absent"}]
    BY DEF TypeOK, FlowRowsTyped
  <2> HIDE DEF f, a
  <2> QED BY <1>1, <1>3, <2>1
<1> HIDE DEF a
<1>7. ASSUME NEW b \in LiveAttempts
      PROVE  LET t == attempts'[b].ticket
             IN  /\ open_attempt'[t.entry.flow] = b
                 /\ t.attempt = b
                 /\ t.epoch = epoch'
                 /\ t.schedule \in DOMAIN schedules'
                 /\ flow'[t.entry.flow].generation = t.entry.flow_generation
                 /\ lifecycle'[t.entry.flow] =
                        IF attempts'[b].state = "Open" THEN "Dispatched" ELSE "Running"
  <2> DEFINE t == attempts[b].ticket
             g == t.entry.flow
  <2>1. b \in DOMAIN attempts /\ g \in Flows /\ open_attempt[g] = b
    BY <1>7, LiveAttempt
  <2>2. attempts'[b].ticket = t
    BY <1>4, <2>1
  <2>3. /\ t.attempt = b /\ t.epoch = epoch /\ t.schedule \in DOMAIN schedules
        /\ flow[g].generation = t.entry.flow_generation
        /\ lifecycle[g] = IF attempts[b].state = "Open" THEN "Dispatched" ELSE "Running"
    BY <1>7 DEF AuthorityExclusive
  <2>4. lifecycle'[g] = IF attempts'[b].state = "Open" THEN "Dispatched" ELSE "Running"
    <3>1. CASE b = a
      BY <1>4, <1>6, <2>1, <3>1
    <3>2. CASE b # a
      <4>1. g # f
        BY <1>3, <2>1, <3>2
      <4>2. attempts'[b].state = attempts[b].state
        BY <1>4, <2>1, <3>2
      <4> QED BY <1>6, <2>1, <2>3, <4>1, <4>2
    <3> QED BY <3>1, <3>2
  <2> QED BY <1>1, <2>1, <2>2, <2>3, <2>4
<1>8. ASSUME NEW g \in Flows
      PROVE  /\ open_attempt'[g] # NoAttempt =>
                   open_attempt'[g] \in LiveAttempts
                   /\ attempts'[open_attempt'[g]].ticket.entry.flow = g
             /\ lifecycle'[g] \in Owned => open_attempt'[g] # NoAttempt
  <2>1. /\ open_attempt[g] # NoAttempt =>
              /\ open_attempt[g] \in LiveAttempts /\ open_attempt[g] \in DOMAIN attempts
              /\ attempts[open_attempt[g]].ticket.entry.flow = g
        /\ lifecycle[g] \in Owned => open_attempt[g] # NoAttempt
    BY <1>8, NamedAttempt DEF Owned
  <2>2. lifecycle'[g] \in Owned => lifecycle[g] \in Owned
    BY <1>3, <1>6, <1>8
  <2> QED BY <1>1, <1>4, <2>1, <2>2
<1>9. AuthorityExclusive'
  BY <1>5, <1>7, <1>8 DEF AuthorityExclusive, Owned
<1>10. AttemptsCounted'
  <2>1. \A x : {b \in LiveAttempts : attempts'[b].ticket.schedule = x}
                  = {b \in LiveAttempts : attempts[b].ticket.schedule = x}
    BY <1>4 DEF LiveAttempts
  <2> QED BY <1>1, <1>5, <2>1 DEF AttemptsCounted
<1> QED BY <1>9, <1>10

\* An attempt opens for a flow that was Scheduled, hence had none.
LEMMA BeginAuthority ==
    ASSUME TypeOK, AuthorityExclusive, AttemptsCounted, NEW s \in DOMAIN schedules,
           NEW i \in DOMAIN schedules[s].entries, NEW boot, NEW now,
           begin_dispatch(s, i, boot, now)
    PROVE  AuthorityExclusive' /\ AttemptsCounted'
<1> DEFINE sch == schedules[s]
           e == sch.entries[i]
           f == e.flow
           n == next_attempt
           t == [attempt |-> n, epoch |-> epoch, schedule |-> s,
                 policy |-> PolicyBinding, boot |-> boot, entry |-> e]
           new == [ticket |-> t, state |-> "Open", evidence |-> <<>>]
           marks == [sch.consumed EXCEPT ![i] = 1]
           left == Minus(sch.pending_entries, 1)
           open == sch.open_attempts + 1
           row == [sch EXCEPT !.open_attempts = open, !.consumed = marks,
                              !.pending_entries = left]
<1>1. /\ attempts' = With(attempts, n, new)
      /\ schedules' = [schedules EXCEPT ![s] = row]
      /\ open_attempt' = [open_attempt EXCEPT ![f] = n]
      /\ lifecycle' = [lifecycle EXCEPT ![f] = "Dispatched"]
      /\ lifecycle[f] = "Scheduled"
      /\ flow[f].generation = e.flow_generation
      /\ UNCHANGED <<epoch, flow>>
  BY DEF begin_dispatch
<1>2. sch \in ScheduleRows(Len(sch.entries)) /\ e \in Entries
  BY ScheduleRow
<1>3. f \in Flows
  BY <1>2 DEF Entries
<1>4. n \notin DOMAIN attempts /\ n # NoAttempt
  BY SMTT(60) DEF TypeOK, AttemptsTyped, NoAttempt
<1>5. open_attempt[f] = NoAttempt
  <2>1. lifecycle[f] \notin {"Dispatched", "Running"}
    BY <1>1
  <2> HIDE DEF f
  <2> QED BY <1>3, <2>1, NamedAttempt
<1>6. row.open_attempts = sch.open_attempts + 1
  <2> HIDE DEF open, sch, marks, left
  <2>1. row.open_attempts = open
    BY <1>2 DEF ScheduleRows
  <2> QED BY <2>1 DEF open
<1>7. /\ new.ticket = t /\ new.state = "Open"
      /\ t.attempt = n /\ t.epoch = epoch /\ t.schedule = s /\ t.entry = e
  OBVIOUS
<1> HIDE DEF row, new, t
<1>8. /\ DOMAIN attempts' = DOMAIN attempts \cup {n}
      /\ attempts'[n] = new
      /\ \A x \in DOMAIN attempts : attempts'[x] = attempts[x]
  BY <1>1, <1>4 DEF With
<1>9. LiveAttempts' = LiveAttempts \cup {n}
  <2>1. ~is_attempt_terminal(attempts'[n].state)
    BY <1>7, <1>8 DEF is_attempt_terminal
  <2> HIDE DEF n
  <2> QED BY <1>8, <2>1 DEF LiveAttempts
<1>10. n \notin LiveAttempts
  BY <1>4 DEF LiveAttempts
<1> HIDE DEF n, e, f
<1>11. /\ open_attempt'[f] = n /\ lifecycle'[f] = "Dispatched"
       /\ \A g \in Flows : g # f => open_attempt'[g] = open_attempt[g]
                                    /\ lifecycle'[g] = lifecycle[g]
  <2>1. lifecycle \in [Flows -> Lifecycles \cup {"Absent"}] /\ open_attempt \in [Flows -> Nat]
    BY DEF TypeOK, FlowRowsTyped, FlowFieldsTyped
  <2> QED BY <1>1, <1>3, <2>1
<1>12. /\ DOMAIN schedules' = DOMAIN schedules
       /\ \A x \in DOMAIN schedules : schedules'[x] = IF x = s THEN row ELSE schedules[x]
  BY <1>1
<1>13. ASSUME NEW b \in LiveAttempts'
       PROVE  LET k == attempts'[b].ticket
              IN  /\ open_attempt'[k.entry.flow] = b
                  /\ k.attempt = b
                  /\ k.epoch = epoch'
                  /\ k.schedule \in DOMAIN schedules'
                  /\ flow'[k.entry.flow].generation = k.entry.flow_generation
                  /\ lifecycle'[k.entry.flow] =
                         IF attempts'[b].state = "Open" THEN "Dispatched" ELSE "Running"
  <2>1. CASE b = n
    <3>1. attempts'[b].ticket = t /\ attempts'[b].state = "Open" /\ t.entry.flow = f
      BY <1>7, <1>8, <2>1 DEF f
    <3> QED BY <1>1, <1>7, <1>11, <1>12, <2>1, <3>1
  <2>2. CASE b # n
    <3> DEFINE k == attempts[b].ticket
               g == k.entry.flow
    <3>1. b \in LiveAttempts
      BY <1>9, <1>13, <2>2
    <3>2. b \in DOMAIN attempts /\ g \in Flows /\ open_attempt[g] = b /\ b # NoAttempt
      BY <3>1, LiveAttempt
    <3>3. g # f
      BY <1>5, <3>2
    <3>4. attempts'[b] = attempts[b] /\ open_attempt'[g] = b /\ lifecycle'[g] = lifecycle[g]
      BY <1>8, <1>11, <3>2, <3>3
    <3>5. /\ k.attempt = b /\ k.epoch = epoch /\ k.schedule \in DOMAIN schedules
          /\ flow[g].generation = k.entry.flow_generation
          /\ lifecycle[g] = IF attempts[b].state = "Open" THEN "Dispatched" ELSE "Running"
      BY <3>1 DEF AuthorityExclusive
    <3> QED BY <1>1, <1>12, <3>4, <3>5
  <2> QED BY <2>1, <2>2
<1>14. ASSUME NEW g \in Flows
       PROVE  /\ open_attempt'[g] # NoAttempt =>
                    open_attempt'[g] \in LiveAttempts'
                    /\ attempts'[open_attempt'[g]].ticket.entry.flow = g
              /\ lifecycle'[g] \in Owned => open_attempt'[g] # NoAttempt
  <2>1. CASE g = f
    <3>1. new.ticket.entry.flow = f
      BY <1>7 DEF f
    <3> QED BY <1>4, <1>8, <1>9, <1>11, <2>1, <3>1 DEF n
  <2>2. CASE g # f
    <3>1. /\ open_attempt[g] # NoAttempt =>
                /\ open_attempt[g] \in LiveAttempts /\ open_attempt[g] \in DOMAIN attempts
                /\ attempts[open_attempt[g]].ticket.entry.flow = g
          /\ lifecycle[g] \in Owned => open_attempt[g] # NoAttempt
      BY <1>14, NamedAttempt DEF Owned
    <3>2. open_attempt'[g] = open_attempt[g] /\ lifecycle'[g] = lifecycle[g]
      BY <1>11, <1>14, <2>2
    <3> QED BY <1>8, <1>9, <3>1, <3>2
  <2> QED BY <2>1, <2>2
<1>15. AuthorityExclusive'
  BY <1>13, <1>14 DEF AuthorityExclusive, Owned
<1>16. ASSUME NEW x \in DOMAIN schedules
       PROVE  schedules'[x].open_attempts =
                 Cardinality({b \in LiveAttempts' : attempts'[b].ticket.schedule = x})
  <2> DEFINE S == {b \in LiveAttempts : attempts[b].ticket.schedule = x}
             T == {b \in LiveAttempts' : attempts'[b].ticket.schedule = x}
  <2>1. schedules[x].open_attempts = Cardinality(S)
    BY <1>16 DEF AttemptsCounted
  <2>2. IsFiniteSet(S)
    BY LiveFinite, FS_Subset
  <2>3. \A b \in LiveAttempts : attempts'[b] = attempts[b]
    BY <1>8 DEF LiveAttempts
  <2>4. attempts'[n].ticket.schedule = s
    BY <1>7, <1>8
  <2>5. CASE x = s
    <3>1. T = S \cup {n} /\ n \notin S
      BY <1>9, <1>10, <2>3, <2>4, <2>5
    <3> HIDE DEF S, T
    <3>2. Cardinality(T) = Cardinality(S) + 1
      BY <2>2, <3>1, FS_AddElement
    <3> QED BY <1>6, <1>12, <1>16, <2>1, <2>5, <3>2 DEF T
  <2>6. CASE x # s
    <3>1. T = S
      BY <1>9, <1>10, <2>3, <2>4, <2>6
    <3> HIDE DEF S, T
    <3> QED BY <1>12, <1>16, <2>1, <2>6, <3>1 DEF T
  <2> QED BY <2>5, <2>6
<1>17. AttemptsCounted'
  BY <1>12, <1>16 DEF AttemptsCounted
<1> QED BY <1>15, <1>17

\* After an epoch change nobody holds authority.
LEMMA EpochAuthority ==
    ASSUME TypeOK, AuthorityExclusive, AttemptsCounted, advance_epoch
    PROVE  AuthorityExclusive' /\ AttemptsCounted'
<1> DEFINE t == [f \in Flows |->
                   IF open_attempt[f] \in LiveAttempts THEN "Ambiguous"
                   ELSE IF lifecycle[f] = "Scheduled" THEN "Ready" ELSE lifecycle[f]]
<1>1. /\ lifecycle' = normalize_transient_states(t)
      /\ open_attempt' = [f \in Flows |->
            IF open_attempt[f] \in LiveAttempts THEN NoAttempt ELSE open_attempt[f]]
      /\ attempts' = <<>> /\ schedules' = <<>>
  BY DEF advance_epoch
<1>2. \A f \in Flows : open_attempt'[f] = NoAttempt
  BY <1>1, NamedAttempt
<1>3. \A f \in Flows : t[f] \notin Owned
  BY NamedAttempt DEF Owned
<1>4. t \in Table
  BY LifecycleTable DEF Table, Lifecycles
<1> HIDE DEF t
<1>5. \A f \in Flows : lifecycle'[f] \notin Owned
  BY <1>1, <1>3, <1>4, NormalizeTable DEF Owned
<1>6. LiveAttempts' = {} /\ DOMAIN schedules' = {}
  BY <1>1, SMTT(60) DEF LiveAttempts
<1>7. AuthorityExclusive'
  BY <1>2, <1>5, <1>6 DEF AuthorityExclusive, Owned
<1>8. AttemptsCounted'
  BY <1>6 DEF AttemptsCounted
<1> QED BY <1>7, <1>8

-----------------------------------------------------------------------------
(***************************************************************************)
(* The work list of a round                                                *)
(***************************************************************************)

\* Outside the three phases that have one, the work list is not constrained.
LEMMA SettledElsewhere ==
    ASSUME round'.phase \notin {"Refresh", "Overdue", "Assign"}
    PROVE  CandidatesSettled'
BY DEF CandidatesSettled

\* Entering a phase collects the flows it works on.
LEMMA SettledEnter ==
    ASSUME TypeOK, RoundReclaimed \/ RoundRefreshed \/ RoundRank
    PROVE  /\ CandidatesSettled'
           /\ UNCHANGED <<epoch, attempts, open_attempt, schedules, lifecycle, flow>>
<1>0. round \in Rounds
  BY DEF TypeOK
<1>1. CASE RoundReclaimed
  <2>1. /\ round' = [round EXCEPT !.phase = "Refresh",
                                  !.todo = {g \in Flows : lifecycle[g] = "Waiting"}]
        /\ UNCHANGED <<epoch, attempts, open_attempt, schedules, lifecycle, flow>>
    BY <1>1 DEF RoundReclaimed, Enter
  <2>2. round'.phase = "Refresh" /\ round'.todo = {g \in Flows : lifecycle[g] = "Waiting"}
    BY <1>0, <2>1 DEF Rounds
  <2> QED BY <2>1, <2>2 DEF CandidatesSettled
<1>2. CASE RoundRefreshed
  <2>1. /\ round' = [round EXCEPT !.phase = "Overdue",
                                  !.todo = {g \in Overdue : open_attempt[g] # NoAttempt}]
        /\ UNCHANGED <<epoch, attempts, open_attempt, schedules, lifecycle, flow>>
    BY <1>2 DEF RoundRefreshed, Enter
  <2>2. /\ round'.phase = "Overdue"
        /\ round'.todo = {g \in Overdue : open_attempt[g] # NoAttempt}
    BY <1>0, <2>1 DEF Rounds
  <2> QED BY <2>1, <2>2 DEF CandidatesSettled
<1>3. CASE RoundRank
  <2>1. /\ round' = [round EXCEPT !.phase = "Assign",
                                  !.todo = {g \in Flows : lifecycle[g] = "Ready"}]
        /\ UNCHANGED <<epoch, attempts, open_attempt, schedules, lifecycle, flow>>
    BY <1>3 DEF RoundRank, Enter
  <2>2. round'.phase = "Assign" /\ round'.todo = {g \in Flows : lifecycle[g] = "Ready"}
    BY <1>0, <2>1 DEF Rounds
  <2> QED BY <2>1, <2>2 DEF CandidatesSettled
<1> QED BY <1>1, <1>2, <1>3

-----------------------------------------------------------------------------
(***************************************************************************)
(* The inductive invariant                                                 *)
(***************************************************************************)

\* Displacing an incumbent, then granting the window to the candidate.
LEMMA DisplaceAuthority ==
    ASSUME TypeOK, AuthorityExclusive, AttemptsCounted, CandidatesSettled,
           NEW f \in Flows, NEW v \in Flows, RoundDisplace(f, v)
    PROVE  AuthorityExclusive' /\ AttemptsCounted' /\ CandidatesSettled'
<1> DEFINE a == open_attempt[v]
           t == [lifecycle EXCEPT ![v] = "Preempting"]
<1>1. /\ Candidate(f) /\ v \in Incumbents(flow[f].resource)
      /\ apply_attempt_closed(a, "Preempted", t) /\ \E es : Place(f, es)
      /\ UNCHANGED <<epoch, flow, next_schedule, next_attempt, tickets>>
  BY DEF RoundDisplace
<1>2. a \in LiveAttempts /\ attempts[a].ticket.entry.flow = v
      /\ lifecycle[v] \in {"Dispatched", "Running"}
  BY <1>1, NamedAttempt DEF Incumbents
<1>3. round.phase = "Assign" /\ round'.phase = "Assign" /\ round'.todo = round.todo \ {f}
  BY <1>1, PlaceTodo DEF Candidate
<1>4. "Preempted" \in AttemptStates /\ is_attempt_terminal("Preempted")
      /\ "Preempting" \in Lifecycles /\ "Preempting" \notin Owned
  BY DEF AttemptStates, is_attempt_terminal, Lifecycles, Owned
<1>5. AuthorityExclusive' /\ AttemptsCounted'
  <2>1. (round'.phase = "Issue" /\ round'.entries # <<>>) <=>
           (round.phase = "Issue" /\ round.entries # <<>>)
    BY <1>3
  <2> HIDE DEF a
  <2> QED BY <1>1, <1>2, <1>4, <2>1, ClosedAuthority
<1>6. CandidatesSettled'
  <2>1. lifecycle' = t
    <3> HIDE DEF t
    <3> QED BY <1>1, <1>2, <1>4, CloseEffect
  <2>2. lifecycle \in [Flows -> Lifecycles \cup {"Absent"}] /\ round.todo \subseteq Flows
    BY DEF TypeOK, FlowRowsTyped, Rounds
  <2>3. \A g \in round.todo : lifecycle[g] = "Ready" /\ g # v
    BY <1>2, <1>3 DEF CandidatesSettled
  <2>4. \A g \in round.todo : lifecycle'[g] = "Ready"
    BY <2>1, <2>2, <2>3
  <2> QED BY <1>3, <2>4 DEF CandidatesSettled
<1> QED BY <1>5, <1>6

\* Applying an entry gives a window, never a dispatch: the flow that gets it
\* holds no open work.
LEMMA ApplyAuthority ==
    ASSUME TypeOK, AuthorityExclusive, AttemptsCounted, RoundApply
    PROVE  AuthorityExclusive' /\ AttemptsCounted'
<1> DEFINE e == round.entries[round.next]
<1>1. /\ round.next <= Len(round.entries)
      /\ Applies(e) => lifecycle' = [lifecycle EXCEPT ![e.flow] = "Scheduled"]
      /\ ~Applies(e) => lifecycle' = lifecycle
      /\ UNCHANGED <<epoch, attempts, open_attempt, flow>>
  BY DEF RoundApply, Assign
<1>2. round.entries \in Seq(Entries) /\ round.next \in Nat \ {0}
  BY DEF TypeOK, Rounds
<1>3. e \in Entries
  BY <1>1, <1>2, SMTT(60)
<1>4. e.flow \in Flows
  BY <1>3 DEF Entries
<1>5. /\ DOMAIN schedules' = DOMAIN schedules
      /\ \A x \in DOMAIN schedules : schedules'[x].open_attempts = schedules[x].open_attempts
  BY ApplyCounts
<1> HIDE DEF e
<1>6. CASE Applies(e)
  <2>1. lifecycle[e.flow] \notin Owned
    BY <1>6 DEF Applies, holds_open_work, Owned
  <2>2. lifecycle \in [Flows -> Lifecycles \cup {"Absent"}]
    BY DEF TypeOK, FlowRowsTyped
  <2>3. /\ lifecycle'[e.flow] \notin Owned
        /\ \A g \in Flows : g # e.flow => lifecycle'[g] = lifecycle[g] /\ flow'[g] = flow[g]
    BY <1>1, <1>4, <1>6, <2>2 DEF Owned
  <2> QED BY <1>1, <1>4, <1>5, <2>1, <2>3, AuthorityMoved
<1>7. CASE ~Applies(e)
  <2>1. AuthorityExclusive'
    BY <1>1, <1>5, <1>7, AuthorityKept
  <2> QED BY <1>1, <1>5, <2>1, CountsKept
<1> QED BY <1>6, <1>7

\* Planning removes one candidate from the work list.
LEMMA SettledPlan ==
    ASSUME TypeOK, CandidatesSettled, NEW f \in Flows,
           RoundSkip(f) \/ RoundGrant(f) \/ RoundBlocked(f)
    PROVE  /\ CandidatesSettled'
           /\ UNCHANGED <<epoch, attempts, open_attempt, schedules, lifecycle, flow>>
<1>0. round \in Rounds
  BY DEF TypeOK
<1>1. CASE RoundSkip(f) \/ RoundBlocked(f)
  <2>1. /\ round.phase = "Assign"
        /\ \/ round' = [round EXCEPT !.phase = "Assign", !.todo = round.todo \ {f}]
           \/ round' = IdleRound
        /\ UNCHANGED <<epoch, attempts, open_attempt, schedules, lifecycle, flow>>
    BY <1>1 DEF RoundSkip, RoundBlocked, Candidate, Enter
  <2>2. \/ round'.phase = "Assign" /\ round'.todo = round.todo \ {f}
        \/ round'.phase = "Idle"
    BY <1>0, <2>1, IdleType DEF Rounds
  <2> QED BY <2>1, <2>2 DEF CandidatesSettled
<1>2. CASE RoundGrant(f)
  <2>1. /\ round.phase = "Assign"
        /\ UNCHANGED <<epoch, attempts, open_attempt, schedules, lifecycle, flow>>
    BY <1>2 DEF RoundGrant, Candidate
  <2>2. round'.phase = "Assign" /\ round'.todo = round.todo \ {f}
    BY <1>2, <2>1, PlaceTodo DEF RoundGrant
  <2> QED BY <2>1, <2>2 DEF CandidatesSettled
<1> QED BY <1>1, <1>2

\* In the initial state there is no flow, no attempt and no round.
LEMMA InitInv == Init => Inv
<1> SUFFICES ASSUME Init PROVE Inv
  OBVIOUS
<1>1. /\ epoch = 1 /\ attempts = <<>> /\ schedules = <<>> /\ round = IdleRound
      /\ lifecycle = [f \in Flows |-> "Absent"]
      /\ open_attempt = [f \in Flows |-> NoAttempt]
  BY DEF Init
<1>2. LiveAttempts = {} /\ DOMAIN schedules = {}
  BY <1>1, SMTT(60) DEF LiveAttempts
<1>3. \A f \in Flows : open_attempt[f] = NoAttempt /\ lifecycle[f] = "Absent"
  BY <1>1
<1>4. AuthorityExclusive
  BY <1>2, <1>3 DEF AuthorityExclusive
<1>5. AttemptsCounted
  BY <1>2 DEF AttemptsCounted
<1>6. CandidatesSettled
  BY <1>1, IdleType DEF CandidatesSettled
<1> QED BY <1>4, <1>5, <1>6, InitType DEF Inv

\* Calls on a flow, on a dispatch, on the topology and on the epoch all run
\* outside a round.
LEMMA CallAuthority ==
    ASSUME Inv, Topology \/ FlowCall \/ advance_epoch \/ DispatchCall
    PROVE  AuthorityExclusive' /\ AttemptsCounted' /\ CandidatesSettled'
<1> USE DEF Inv
<1>1. ASSUME round.phase = "Idle", round' = round PROVE CandidatesSettled'
  BY <1>1, SettledElsewhere
<1>2. CASE Topology
  <2>1. /\ round.phase = "Idle" /\ round' = round
        /\ UNCHANGED <<epoch, attempts, open_attempt, schedules, lifecycle, flow>>
    BY <1>2 DEF Topology, Idle, register_resource, register_reservation,
       retire_reservation, register_class, install_policy
  <2> QED BY <1>1, <2>1, AuthorityQuiet
<1>3. CASE FlowCall
  <2>1. PICK f \in Flows :
           \/ \E d \in FlowSpace : admit_flow(f, d) \/ update_flow(f, d)
           \/ cancel_flow(f)
           \/ \E signal \in SignalSpace, now \in Readings : notify_readiness(f, signal, now)
           \/ \E after \in {"Waiting", "Failed"}, now \in Readings :
                 resolve_ambiguous(f, after, now)
           \/ retire_flow(f)
    BY <1>3 DEF FlowCall
  <2>2. round.phase = "Idle" /\ round' = round
    BY <2>1 DEF Idle, admit_flow, update_flow, cancel_flow, notify_readiness,
       resolve_ambiguous, retire_flow
  <2>3. AuthorityExclusive' /\ AttemptsCounted'
    BY <2>1, FlowCallAuthority, UpdateAuthority, CancelAuthority
  <2> QED BY <1>1, <2>2, <2>3
<1>4. CASE advance_epoch
  <2>1. round.phase = "Idle" /\ round' = round
    BY <1>4 DEF Idle, advance_epoch
  <2> QED BY <1>1, <1>4, <2>1, EpochAuthority
<1>5. CASE DispatchCall
  <2>1. CASE \E s \in DOMAIN schedules : release_schedule(s)
    <3>1. round.phase = "Idle" /\ round' = round
      BY <2>1 DEF Idle, release_schedule
    <3> QED BY <1>1, <2>1, <3>1, ReleaseScheduleAuthority
  <2>2. CASE \E s \in DOMAIN schedules : \E i \in DOMAIN schedules[s].entries,
                boot \in Boots, now \in Readings : begin_dispatch(s, i, boot, now)
    <3>1. PICK s \in DOMAIN schedules : \E i \in DOMAIN schedules[s].entries,
             boot \in Boots, now \in Readings : begin_dispatch(s, i, boot, now)
      BY <2>2
    <3>2. PICK i \in DOMAIN schedules[s].entries, boot \in Boots, now \in Readings :
             begin_dispatch(s, i, boot, now)
      BY <3>1
    <3>3. round.phase = "Idle" /\ round' = round
      BY <3>2 DEF Idle, begin_dispatch
    <3> QED BY <1>1, <3>2, <3>3, BeginAuthority
  <2>3. CASE \E t \in tickets, now \in Readings : mark_started(t, now)
    <3>1. round.phase = "Idle" /\ round' = round
      BY <2>3 DEF Idle, mark_started
    <3> QED BY <1>1, <2>3, <3>1, StartAuthority
  <2>4. CASE \E a \in DOMAIN attempts, now \in Readings :
                abandon_attempt(a, now) \/ preempt_attempt(a, now)
    <3>1. round.phase = "Idle" /\ round' = round
      BY <2>4 DEF Idle, abandon_attempt, preempt_attempt, CloseByCaller
    <3> QED BY <1>1, <2>4, <3>1, CloseByCallerAuthority
  <2>5. CASE \E ev \in Evidence, now \in Readings : complete(ev, now)
    <3>1. round.phase = "Idle" /\ round' = round
      BY <2>5 DEF Idle, complete
    <3> QED BY <1>1, <2>5, <3>1, CompleteAuthority
  <2> QED BY <1>5, <2>1, <2>2, <2>3, <2>4, <2>5 DEF DispatchCall
<1> QED BY <1>2, <1>3, <1>4, <1>5

\* The steps of an arbitration round.
LEMMA RoundAuthority ==
    ASSUME Inv, NEW now,
           Refused(now) \/ RoundBegin(now) \/ RoundStep \/ RoundAborted
    PROVE  AuthorityExclusive' /\ AttemptsCounted' /\ CandidatesSettled'
<1> USE DEF Inv
<1>1. CASE Refused(now) \/ RoundBegin(now) \/ RoundAborted
  <2>1. /\ UNCHANGED <<epoch, attempts, open_attempt, schedules, lifecycle, flow>>
        /\ \/ round' = IdleRound
           \/ round' = [IdleRound EXCEPT !.phase = "Reclaim", !.now = now]
           \/ round.phase = "Idle" /\ round' = round
    BY <1>1 DEF Refused, RoundBegin, RoundAborted, Idle
  <2>2. round'.phase \in {"Idle", "Reclaim"}
    BY <2>1, IdleType DEF Rounds
  <2>3. CandidatesSettled'
    BY <2>2, SettledElsewhere
  <2> QED BY <2>1, <2>3, AuthorityQuiet
<1>2. CASE RoundStep
  <2>1. CASE \E s \in DOMAIN schedules : RoundReclaim(s)
    <3>1. round.phase = "Reclaim" /\ round' = round
      BY <2>1 DEF RoundReclaim
    <3>2. CandidatesSettled'
      BY <3>1, SettledElsewhere
    <3> QED BY <2>1, <3>2, ReleaseScheduleAuthority
  <2>2. CASE \E f \in Flows : RoundRefresh(f) \/ RoundLapse(f)
    BY <2>2, LapseAuthority
  <2>3. CASE \E f \in Flows : RoundOverdue(f)
    BY <2>3, OverdueAuthority
  <2>4. CASE \E f, v \in Flows : RoundDisplace(f, v)
    BY <2>4, DisplaceAuthority
  <2>5. CASE \E f \in Flows : RoundSkip(f) \/ RoundGrant(f) \/ RoundBlocked(f)
    <3>1. /\ CandidatesSettled'
          /\ UNCHANGED <<epoch, attempts, open_attempt, schedules, lifecycle, flow>>
      BY <2>5, SettledPlan
    <3> QED BY <3>1, AuthorityQuiet
  <2>6. CASE RoundReclaimed \/ RoundRefreshed \/ RoundRank
    <3>1. /\ CandidatesSettled'
          /\ UNCHANGED <<epoch, attempts, open_attempt, schedules, lifecycle, flow>>
      BY <2>6, SettledEnter
    <3> QED BY <3>1, AuthorityQuiet
  <2>7. CASE RoundIssue \/ RoundApply \/ RoundFinish
    <3>1. \/ round' = [round EXCEPT !.phase = "Issue", !.next = 1]
          \/ round.phase = "Issue" /\ round' = [round EXCEPT !.next = @ + 1]
          \/ round' = IdleRound
      BY <2>7 DEF RoundIssue, RoundApply, RoundFinish
    <3>2. round'.phase \in {"Issue", "Idle"}
      BY <3>1, IdleType DEF TypeOK, Rounds
    <3>3. CandidatesSettled'
      BY <3>2, SettledElsewhere
    <3> QED BY <2>7, <3>3, IssueAuthority, ApplyAuthority, FinishAuthority
  <2> QED BY <1>2, <2>1, <2>2, <2>3, <2>4, <2>5, <2>6, <2>7 DEF RoundStep
<1> QED BY <1>1, <1>2

\* A step of the scheduler that keeps the types, or a step of its callers that
\* leaves it alone.
LEMMA NextInv == Inv /\ TypeOK' /\ [Next]_vars => Inv'
<1> SUFFICES ASSUME Inv, TypeOK', [Next]_vars PROVE Inv'
  OBVIOUS
<1>1. CASE Next
  <2>1. CASE Topology \/ FlowCall \/ advance_epoch \/ DispatchCall
    BY <2>1, CallAuthority DEF Inv
  <2>2. ASSUME NEW now, Refused(now) \/ RoundBegin(now) \/ RoundStep \/ RoundAborted
        PROVE  Inv'
    BY <2>2, RoundAuthority DEF Inv
  <2> QED BY <1>1, <2>1, <2>2 DEF Next
<1>2. CASE UNCHANGED vars
  <2>1. AuthorityExclusive' /\ AttemptsCounted'
    BY <1>2, AuthorityQuiet DEF Inv, vars
  <2>2. CandidatesSettled'
    BY <1>2 DEF Inv, CandidatesSettled, vars
  <2> QED BY <2>1, <2>2 DEF Inv
<1> QED BY <1>1, <1>2

-----------------------------------------------------------------------------
(***************************************************************************)
(* The dispatch contract                                                   *)
(***************************************************************************)

-----------------------------------------------------------------------------
\* The tickets that still carry authority.
Live == {attempts[a].ticket : a \in LiveAttempts}

\* The number of the next attempt is on no ticket handed out so far.
TicketsFresh == \A t \in tickets : t.attempt < next_attempt

\* A step the contract allows.
ContractStep == [Contract!Next]_(Contract!contractVars)

-----------------------------------------------------------------------------
(***************************************************************************)
(* Steps the contract does not see                                         *)
(***************************************************************************)

\* A step that leaves the epoch, the live tickets and the service alone.
LEMMA Unseen ==
    ASSUME UNCHANGED <<epoch, tickets, served_work>>, Live' = Live
    PROVE  ContractStep
BY DEF ContractStep, Contract!contractVars, Live

\* A step that leaves the attempts alone, too.
LEMMA UnseenQuiet ==
    ASSUME UNCHANGED <<epoch, tickets, served_work, attempts>>
    PROVE  ContractStep
<1>1. Live' = Live
  BY DEF Live, LiveAttempts
<1> QED BY <1>1, Unseen

\* A start report: the attempt is live before and after, under the same ticket.
LEMMA StartUnseen ==
    ASSUME TypeOK, NEW t, NEW now, mark_started(t, now)
    PROVE  ContractStep
<1> DEFINE a == t.attempt
<1>1. /\ a \in DOMAIN attempts /\ attempts[a].state = "Open"
      /\ attempts' = [attempts EXCEPT ![a].state = "Started"]
      /\ UNCHANGED <<epoch, tickets, served_work>>
  BY DEF mark_started
<1>2. attempts[a] \in AttemptRows
  BY <1>1 DEF TypeOK, AttemptsTyped
<1>3. /\ DOMAIN attempts' = DOMAIN attempts
      /\ attempts'[a].state = "Started" /\ attempts'[a].ticket = attempts[a].ticket
      /\ \A b \in DOMAIN attempts : b # a => attempts'[b] = attempts[b]
  BY <1>1, <1>2 DEF AttemptRows
<1>4. LiveAttempts' = LiveAttempts
  BY <1>1, <1>3 DEF LiveAttempts, is_attempt_terminal
<1>5. \A b \in LiveAttempts : attempts'[b].ticket = attempts[b].ticket
  BY <1>3 DEF LiveAttempts
<1>6. Live' = Live
  BY <1>4, <1>5 DEF Live
<1> QED BY <1>1, <1>6, Unseen

-----------------------------------------------------------------------------
(***************************************************************************)
(* Grant                                                                   *)
(***************************************************************************)

\* Only a flow that is Dispatched or Running has authority out.
LEMMA NoAuthority ==
    ASSUME AuthorityExclusive, NEW f, lifecycle[f] \notin {"Dispatched", "Running"}
    PROVE  ~Contract!HasAuthority(f)
<1>1. ASSUME NEW a \in LiveAttempts PROVE attempts[a].ticket.entry.flow # f
  <2>1. lifecycle[attempts[a].ticket.entry.flow] \in {"Dispatched", "Running"}
    BY DEF AuthorityExclusive
  <2> QED BY <2>1
<1> QED BY <1>1 DEF Contract!HasAuthority

\* begin_dispatch() is a Grant: the attempt number is new, the flow has no ticket.
LEMMA BeginGrants ==
    ASSUME TypeOK, AuthorityExclusive, TicketsFresh,
           NEW s, NEW i, NEW boot, NEW now, begin_dispatch(s, i, boot, now)
    PROVE  ContractStep
<1> DEFINE e == schedules[s].entries[i]
           n == next_attempt
           t == [attempt |-> n, epoch |-> epoch, schedule |-> s,
                 policy |-> PolicyBinding, boot |-> boot, entry |-> e]
<1>1. /\ lifecycle[e.flow] = "Scheduled"
      /\ attempts' = With(attempts, n, [ticket |-> t, state |-> "Open", evidence |-> <<>>])
      /\ tickets' = tickets \cup {t}
      /\ UNCHANGED <<epoch, served_work>>
  BY DEF begin_dispatch
<1>2. n \notin DOMAIN attempts /\ n \in Nat
  BY SMTT(60) DEF TypeOK, AttemptsTyped
<1> HIDE DEF e
<1>3. /\ DOMAIN attempts' = DOMAIN attempts \cup {n}
      /\ attempts'[n].ticket = t /\ attempts'[n].state = "Open"
      /\ \A b \in DOMAIN attempts : attempts'[b] = attempts[b]
  BY <1>1, <1>2 DEF With
<1>4. t.attempt = n /\ t.epoch = epoch /\ t.entry = e
  OBVIOUS
<1> HIDE DEF t
<1>5. LiveAttempts' = LiveAttempts \cup {n}
  BY <1>2, <1>3 DEF LiveAttempts, is_attempt_terminal
<1>6. \A b \in LiveAttempts : attempts'[b].ticket = attempts[b].ticket
  BY <1>3 DEF LiveAttempts
<1>7. Live' = Live \cup {t}
  BY <1>3, <1>5, <1>6, SMTT(60) DEF Live
<1>8. \A u \in tickets : u.attempt # t.attempt
  <2> SUFFICES ASSUME NEW u \in tickets PROVE u.attempt # n
    BY <1>4
  <2>1. u.attempt \in Nat /\ u.attempt < n
    BY DEF TicketsFresh, TypeOK, AttemptsTyped, Tickets
  <2> QED BY <1>2, <2>1, SMTT(60)
<1>9. ~Contract!HasAuthority(t.entry.flow)
  BY <1>1, <1>4, NoAuthority
<1>10. t \in tickets' /\ t \notin tickets
  BY <1>1, <1>8
<1>11. Contract!Grant
  BY <1>1, <1>4, <1>7, <1>8, <1>9, <1>10 DEF Contract!Grant, Live
<1> QED BY <1>11 DEF ContractStep, Contract!Next

-----------------------------------------------------------------------------
(***************************************************************************)
(* Commit, withdrawal, restart, epoch                                      *)
(***************************************************************************)

\* What closing the live attempt a does to the tickets that carry authority.
LEMMA CloseLive ==
    ASSUME AuthorityExclusive, NEW a \in LiveAttempts,
           DOMAIN attempts' = DOMAIN attempts,
           is_attempt_terminal(attempts'[a].state),
           \A b \in DOMAIN attempts : b # a => attempts'[b] = attempts[b]
    PROVE  Live' = Live \ {attempts[a].ticket}
<1>1. LiveAttempts' = LiveAttempts \ {a}
  BY DEF LiveAttempts
<1>2. \A b \in LiveAttempts : b # a => attempts'[b] = attempts[b]
  BY DEF LiveAttempts
<1>3. \A b \in LiveAttempts : attempts[b].ticket.attempt = b
  BY DEF AuthorityExclusive
<1>4. \A b \in LiveAttempts : b # a => attempts[b].ticket # attempts[a].ticket
  BY <1>3
<1> QED BY <1>1, <1>2, <1>4 DEF Live

\* Closing an attempt without a commit withdraws its ticket.
LEMMA CloseWithdraws ==
    ASSUME TypeOK, AuthorityExclusive, NEW a \in LiveAttempts, NEW state \in AttemptStates,
           is_attempt_terminal(state), attempts' = [attempts EXCEPT ![a].state = state],
           UNCHANGED <<epoch, tickets, served_work>>
    PROVE  ContractStep
<1>1. a \in DOMAIN attempts
  BY DEF LiveAttempts
<1>2. attempts[a] \in AttemptRows
  BY <1>1 DEF TypeOK, AttemptsTyped
<1>3. /\ DOMAIN attempts' = DOMAIN attempts /\ attempts'[a].state = state
      /\ \A b \in DOMAIN attempts : b # a => attempts'[b] = attempts[b]
  BY <1>1, <1>2 DEF AttemptRows
<1>4. Live' \subseteq Live
  BY <1>3, CloseLive
<1>5. Contract!Withdraw
  BY <1>4 DEF Contract!Withdraw, Live
<1> QED BY <1>5 DEF ContractStep, Contract!Next

\* A commit uses up one live ticket and credits at most its quantum.
LEMMA CompleteCommits ==
    ASSUME TypeOK, AuthorityExclusive, NEW ev \in Reports, NEW now, complete(ev, now)
    PROVE  ContractStep
<1> DEFINE a == ev.attempt
           f == ev.ticket.entry.flow
           t == attempts[a].ticket
<1>1. /\ a \in DOMAIN attempts /\ ~is_attempt_terminal(attempts[a].state)
      /\ t.entry.flow = f
      /\ ev.served <= t.entry.quantum
      /\ attempts' = [attempts EXCEPT ![a].state = "Committed", ![a].evidence = <<ev>>]
      /\ served_work' = [served_work EXCEPT ![f] = @ + Credit(ev)]
      /\ UNCHANGED <<epoch, tickets>>
  BY DEF complete, NamesAttempt, StillOpen, WithinGrant
<1>2. a \in LiveAttempts
  BY <1>1 DEF LiveAttempts
<1>3. attempts[a] \in AttemptRows /\ served_work \in [Flows -> Nat]
  BY <1>1 DEF TypeOK, AttemptsTyped, FlowFieldsTyped
<1>4. t \in Tickets
  BY <1>3 DEF AttemptRows
<1>5. t.entry.quantum \in Nat /\ f \in Flows
  BY <1>1, <1>4 DEF Tickets, Entries
<1>6. /\ DOMAIN attempts' = DOMAIN attempts /\ attempts'[a].state = "Committed"
      /\ \A b \in DOMAIN attempts : b # a => attempts'[b] = attempts[b]
  BY <1>1, <1>3 DEF AttemptRows
<1>7. Live' = Live \ {t}
  BY <1>2, <1>6, CloseLive DEF is_attempt_terminal
<1>8. t \in Live
  BY <1>2 DEF Live
<1>9. Credit(ev) \in 0..t.entry.quantum
  <2>1. ev.served \in Nat
    BY DEF Reports
  <2> QED BY <1>1, <1>5, <2>1, SMTT(60) DEF Credit
<1>10. served_work'[f] = served_work[f] + Credit(ev)
  BY <1>1, <1>3, <1>5
<1>11. served_work'[f] - served_work[f] \in 0..t.entry.quantum
  BY <1>3, <1>5, <1>9, <1>10, SMTT(60)
<1>12. served_work' = [served_work EXCEPT ![f] = served_work'[f]]
  BY <1>1, <1>3, <1>5, <1>10
<1> HIDE DEF f, t
<1>13. t.entry.flow = f
  BY <1>1
<1>14. Contract!Commit
  BY <1>1, <1>7, <1>8, <1>11, <1>12, <1>13 DEF Contract!Commit, Live
<1> QED BY <1>14 DEF ContractStep, Contract!Next

\* A row is created or erased only while the flow has no authority out.
LEMMA RowRestarts ==
    ASSUME AuthorityExclusive, NEW f \in Flows,
           (\E d \in FlowSpace : admit_flow(f, d)) \/ retire_flow(f)
    PROVE  ContractStep
<1>1. /\ lifecycle[f] = "Absent" \/ is_terminal(lifecycle[f])
      /\ served_work' = [served_work EXCEPT ![f] = 0]
      /\ UNCHANGED <<epoch, tickets, attempts>>
  BY DEF admit_flow, retire_flow
<1>2. lifecycle[f] \notin {"Dispatched", "Running"}
  BY <1>1 DEF is_terminal
<1>3. ~Contract!HasAuthority(f)
  BY <1>2, NoAuthority
<1>4. Live' = Live
  BY <1>1 DEF Live, LiveAttempts
<1>5. Contract!Restart
  BY <1>1, <1>3, <1>4 DEF Contract!Restart, Live
<1> QED BY <1>5 DEF ContractStep, Contract!Next

\* An epoch advance withdraws every ticket.
LEMMA EpochFences ==
    ASSUME advance_epoch
    PROVE  ContractStep
<1>1. /\ epoch' = epoch + 1 /\ DOMAIN attempts' = {}
      /\ UNCHANGED <<tickets, served_work>>
  BY SMTT(60) DEF advance_epoch
<1>2. Live' = {}
  BY <1>1 DEF Live, LiveAttempts
<1>3. Contract!AdvanceEpoch
  BY <1>1, <1>2 DEF Contract!AdvanceEpoch, Live
<1> QED BY <1>3 DEF ContractStep, Contract!Next

\* The end of a round forgets closed attempts only: authority is exclusive after
\* it too, so that a flow with authority out still names a live attempt.
LEMMA FinishUnseen ==
    ASSUME TypeOK, AuthorityExclusive, AuthorityExclusive', RoundFinish
    PROVE  ContractStep
<1>1. PICK S : attempts' = Without(attempts, S)
  BY DEF RoundFinish
<1>2. UNCHANGED <<epoch, tickets, served_work, open_attempt>>
  BY DEF RoundFinish
<1>3. /\ DOMAIN attempts' \subseteq DOMAIN attempts
      /\ \A a \in DOMAIN attempts' : attempts'[a] = attempts[a]
  BY <1>1 DEF Without
<1>4. ASSUME NEW a \in LiveAttempts PROVE a \in LiveAttempts'
  <2> DEFINE f == attempts[a].ticket.entry.flow
  <2>1. open_attempt[f] = a
    BY <1>4 DEF AuthorityExclusive
  <2>2. a \in DOMAIN attempts
    BY <1>4 DEF LiveAttempts
  <2>3. a # NoAttempt /\ attempts[a] \in AttemptRows
    BY <2>2, SMTT(60) DEF TypeOK, AttemptsTyped, NoAttempt
  <2>4. attempts[a].ticket \in Tickets
    BY <2>3 DEF AttemptRows
  <2>5. f \in Flows
    BY <2>4 DEF Tickets, Entries
  <2>6. open_attempt'[f] = a
    BY <1>2, <2>1
  <2>7. \A g \in Flows : open_attempt'[g] # NoAttempt => open_attempt'[g] \in LiveAttempts'
    BY DEF AuthorityExclusive, NoAttempt
  <2> QED BY <2>3, <2>5, <2>6, <2>7
<1>5. LiveAttempts' = LiveAttempts
  BY <1>3, <1>4 DEF LiveAttempts
<1>6. \A a \in LiveAttempts : attempts'[a] = attempts[a]
  BY <1>3, <1>4 DEF LiveAttempts
<1>7. Live' = Live
  BY <1>5, <1>6 DEF Live
<1> QED BY <1>2, <1>7, Unseen

\* A caller abandons or preempts a live attempt.
LEMMA CallerWithdraws ==
    ASSUME TypeOK, AuthorityExclusive, NEW a, NEW now,
           abandon_attempt(a, now) \/ preempt_attempt(a, now)
    PROVE  ContractStep
<1>1. PICK state \in {"Abandoned", "Preempted"}, after \in {"Ambiguous", "Preempting"} :
         CloseByCaller(a, state, after, now)
  BY DEF abandon_attempt, preempt_attempt
<1>2. /\ a \in LiveAttempts
      /\ attempts' = [attempts EXCEPT ![a].state = state]
      /\ UNCHANGED <<epoch, tickets, served_work>>
  BY <1>1 DEF CloseByCaller, apply_attempt_closed
<1>3. state \in AttemptStates /\ is_attempt_terminal(state)
  BY <1>1 DEF AttemptStates, is_attempt_terminal
<1> QED BY <1>2, <1>3, CloseWithdraws

\* A round stops what is overdue and displaces incumbents; a flow is cancelled.
LEMMA StopWithdraws ==
    ASSUME TypeOK, AuthorityExclusive, CandidatesSettled, NEW f \in Flows, NEW v \in Flows,
           RoundOverdue(f) \/ RoundDisplace(f, v) \/ cancel_flow(f)
    PROVE  ContractStep
<1> DEFINE Closes(g, state) == /\ open_attempt[g] # NoAttempt
                               /\ attempts' = [attempts EXCEPT ![open_attempt[g]].state = state]
<1>1. \/ Closes(f, "Preempted") \/ Closes(v, "Preempted") \/ Closes(f, "Cancelled")
      \/ attempts' = attempts
  <2>1. CASE RoundOverdue(f)
    BY <2>1 DEF RoundOverdue, apply_attempt_closed, CandidatesSettled
  <2>2. CASE RoundDisplace(f, v)
    BY <2>2 DEF RoundDisplace, apply_attempt_closed, Incumbents
  <2>3. CASE cancel_flow(f)
    BY <2>3 DEF cancel_flow
  <2> QED BY <2>1, <2>2, <2>3
<1>2. UNCHANGED <<epoch, tickets, served_work>>
  BY DEF RoundOverdue, RoundDisplace, cancel_flow
<1>3. \A g \in Flows : open_attempt[g] # NoAttempt => open_attempt[g] \in LiveAttempts
  BY DEF AuthorityExclusive
<1>4. \A state \in {"Preempted", "Cancelled"} :
         state \in AttemptStates /\ is_attempt_terminal(state)
  BY DEF AttemptStates, is_attempt_terminal
<1>5. ASSUME NEW g \in Flows, NEW state \in {"Preempted", "Cancelled"}, Closes(g, state)
      PROVE  ContractStep
  BY <1>2, <1>3, <1>4, <1>5, CloseWithdraws
<1>6. CASE attempts' = attempts
  BY <1>2, <1>6, UnseenQuiet
<1> QED BY <1>1, <1>5, <1>6

-----------------------------------------------------------------------------
(***************************************************************************)
(* The refinement mapping                                                  *)
(***************************************************************************)

\* Calls and steps of a round that neither open nor close an attempt.
LEMMA QuietUnseen ==
    ASSUME NEW f, NEW now,
           \/ Topology \/ Refused(now) \/ RoundBegin(now) \/ RoundAborted
           \/ \E d \in FlowSpace : update_flow(f, d)
           \/ \E signal \in SignalSpace, at \in Readings : notify_readiness(f, signal, at)
           \/ \E after \in {"Waiting", "Failed"}, at \in Readings :
                 resolve_ambiguous(f, after, at)
           \/ \E s \in DOMAIN schedules : release_schedule(s) \/ RoundReclaim(s)
           \/ RoundRefresh(f) \/ RoundLapse(f)
           \/ RoundSkip(f) \/ RoundGrant(f) \/ RoundBlocked(f)
           \/ RoundReclaimed \/ RoundRefreshed \/ RoundRank \/ RoundIssue \/ RoundApply
    PROVE  ContractStep
<1>1. UNCHANGED <<epoch, tickets, served_work, attempts>>
  BY DEF Topology, register_resource, register_reservation, retire_reservation,
     register_class, install_policy, Refused, RoundBegin, RoundAborted,
     update_flow, notify_readiness, resolve_ambiguous, release_schedule,
     RoundReclaim, RoundRefresh, RoundLapse, RoundSkip, RoundGrant, RoundBlocked,
     RoundReclaimed, RoundRefreshed, RoundRank, RoundIssue, RoundApply
<1> QED BY <1>1, UnseenQuiet

\* Every step is one the contract allows.
LEMMA StepContract ==
    ASSUME TypeOK, AuthorityExclusive, CandidatesSettled, TicketsFresh,
           Evidence \subseteq Reports, AuthorityExclusive', [Next]_vars
    PROVE  ContractStep
<1>1. CASE Topology \/ RoundAborted \/ \E now \in Readings : Refused(now) \/ RoundBegin(now)
  BY <1>1, QuietUnseen
<1>2. CASE FlowCall
  <2>1. PICK f \in Flows :
           \/ \E d \in FlowSpace : admit_flow(f, d) \/ update_flow(f, d)
           \/ cancel_flow(f)
           \/ \E signal \in SignalSpace, now \in Readings : notify_readiness(f, signal, now)
           \/ \E after \in {"Waiting", "Failed"}, now \in Readings :
                 resolve_ambiguous(f, after, now)
           \/ retire_flow(f)
    BY <1>2 DEF FlowCall
  <2> QED BY <2>1, StopWithdraws, RowRestarts, QuietUnseen
<1>3. CASE DispatchCall
  <2>1. CASE \E s \in DOMAIN schedules : release_schedule(s)
    BY <2>1, QuietUnseen
  <2>2. CASE \E s \in DOMAIN schedules : \E i \in DOMAIN schedules[s].entries,
                boot \in Boots, now \in Readings : begin_dispatch(s, i, boot, now)
    BY <2>2, BeginGrants
  <2>3. CASE \E t \in tickets, now \in Readings : mark_started(t, now)
    BY <2>3, StartUnseen
  <2>4. CASE \E a \in DOMAIN attempts, now \in Readings :
                abandon_attempt(a, now) \/ preempt_attempt(a, now)
    BY <2>4, CallerWithdraws
  <2>5. CASE \E ev \in Evidence, now \in Readings : complete(ev, now)
    BY <2>5, CompleteCommits
  <2> QED BY <1>3, <2>1, <2>2, <2>3, <2>4, <2>5 DEF DispatchCall
<1>4. CASE RoundStep
  <2>1. CASE \E f \in Flows : RoundOverdue(f)
    BY <2>1, StopWithdraws
  <2>2. CASE \E f, v \in Flows : RoundDisplace(f, v)
    BY <2>2, StopWithdraws
  <2>3. CASE RoundFinish
    BY <2>3, FinishUnseen
  <2>4. CASE \/ \E s \in DOMAIN schedules : RoundReclaim(s)
             \/ \E f \in Flows : RoundRefresh(f)
             \/ \E f \in Flows : RoundLapse(f) \/ RoundSkip(f) \/ RoundGrant(f) \/ RoundBlocked(f)
             \/ RoundReclaimed \/ RoundRefreshed \/ RoundRank \/ RoundIssue \/ RoundApply
    BY <2>4, QuietUnseen
  <2> QED BY <1>4, <2>1, <2>2, <2>3, <2>4 DEF RoundStep
<1>5. CASE advance_epoch
  BY <1>5, EpochFences
<1>6. CASE UNCHANGED vars
  BY <1>6, UnseenQuiet DEF vars
<1> QED BY <1>1, <1>2, <1>3, <1>4, <1>5, <1>6 DEF Next

\* A step hands out at most one ticket, under the number it takes.
LEMMA FreshStep ==
    ASSUME TypeOK, TicketsFresh, [Next]_vars
    PROVE  TicketsFresh'
<1>1. CASE \E s \in DOMAIN schedules : \E i \in DOMAIN schedules[s].entries,
              boot \in Boots, now \in Readings : begin_dispatch(s, i, boot, now)
  <2>1. PICK s, i, boot, now : begin_dispatch(s, i, boot, now)
    BY <1>1
  <2> DEFINE t == [attempt |-> next_attempt, epoch |-> epoch, schedule |-> s,
                   policy |-> PolicyBinding, boot |-> boot, entry |-> schedules[s].entries[i]]
  <2>2. tickets' = tickets \cup {t} /\ next_attempt' = next_attempt + 1
    BY <2>1 DEF begin_dispatch
  <2>3. t.attempt = next_attempt
    OBVIOUS
  <2> HIDE DEF t
  <2>4. next_attempt \in Nat /\ \A u \in tickets : u.attempt \in Nat
    BY DEF TypeOK, AttemptsTyped, Tickets
  <2> QED BY <2>2, <2>3, <2>4, SMTT(60) DEF TicketsFresh
<1>2. CASE UNCHANGED <<tickets, next_attempt>>
  BY <1>2 DEF TicketsFresh
<1>3. CASE Topology \/ RoundAborted \/ \E now \in Readings : Refused(now) \/ RoundBegin(now)
  BY <1>2, <1>3 DEF Topology, register_resource, register_reservation,
     retire_reservation, register_class, install_policy, Refused, RoundBegin, RoundAborted
<1>4. CASE FlowCall \/ advance_epoch
  <2>1. \/ advance_epoch
        \/ \E f \in Flows :
              \/ \E d \in FlowSpace : admit_flow(f, d) \/ update_flow(f, d)
              \/ cancel_flow(f) \/ retire_flow(f)
              \/ \E signal \in SignalSpace, now \in Readings : notify_readiness(f, signal, now)
              \/ \E after \in {"Waiting", "Failed"}, now \in Readings :
                    resolve_ambiguous(f, after, now)
    BY <1>4 DEF FlowCall
  <2>2. ASSUME NEW f, NEW d, admit_flow(f, d) \/ update_flow(f, d) \/ retire_flow(f)
        PROVE  UNCHANGED <<tickets, next_attempt>>
    BY <2>2 DEF admit_flow, update_flow, retire_flow
  <2>3. ASSUME NEW f, cancel_flow(f)
        PROVE  UNCHANGED <<tickets, next_attempt>>
    BY <2>3 DEF cancel_flow
  <2>4. ASSUME NEW f, NEW x, NEW now, notify_readiness(f, x, now) \/ resolve_ambiguous(f, x, now)
        PROVE  UNCHANGED <<tickets, next_attempt>>
    BY <2>4 DEF notify_readiness, resolve_ambiguous
  <2>5. CASE advance_epoch
    BY <1>2, <2>5 DEF advance_epoch
  <2> QED BY <1>2, <2>1, <2>2, <2>3, <2>4, <2>5
<1>5. CASE DispatchCall
  BY <1>1, <1>2, <1>5 DEF DispatchCall, release_schedule, mark_started,
     abandon_attempt, preempt_attempt, CloseByCaller, complete
<1>6. CASE RoundStep
  BY <1>2, <1>6 DEF RoundStep, RoundReclaim, RoundReclaimed, RoundRefresh,
     RoundRefreshed, RoundOverdue, RoundRank, RoundLapse, RoundSkip, RoundGrant,
     RoundBlocked, RoundDisplace, RoundIssue, RoundApply, RoundFinish
<1>7. CASE UNCHANGED vars
  BY <1>2, <1>7 DEF vars
<1> QED BY <1>3, <1>4, <1>5, <1>6, <1>7 DEF Next

\* An empty scheduler is an empty contract.
LEMMA InitContract == Init => Contract!Init /\ TicketsFresh
<1> SUFFICES ASSUME Init PROVE Contract!Init /\ TicketsFresh
  OBVIOUS
<1>1. /\ epoch = 1 /\ tickets = {} /\ attempts = <<>>
      /\ served_work = [f \in Flows |-> 0]
  BY DEF Init
<1>2. Live = {}
  BY <1>1, SMTT(60) DEF Live, LiveAttempts
<1>3. Contract!Init
  BY <1>1, <1>2 DEF Contract!Init, Live
<1> QED BY <1>1, <1>3 DEF TicketsFresh

-----------------------------------------------------------------------------
(***************************************************************************)
(* No flow rests in Preempting or Cancelling                               *)
(***************************************************************************)

\* No flow of the table is in a transient state.
Settled(table) == \A f \in Flows : table[f] \notin {"Preempting", "Cancelling"}

\* A round leaves flows in transient states only after it has begun to stop them.
Quiet == round.phase \in {"Idle", "Reclaim", "Refresh"} => Settled(lifecycle)

\* normalize_transient_states leaves no transient state.
LEMMA NormalSettled ==
    ASSUME NEW table
    PROVE  Settled(normalize_transient_states(table))
BY DEF Settled, normalize_transient_states

\* One row of a settled table is set to a state that is not transient.
LEMMA SetSettled ==
    ASSUME TypeOK, Settled(lifecycle), NEW f \in Flows, NEW l,
           l \notin {"Preempting", "Cancelling"}, lifecycle' = [lifecycle EXCEPT ![f] = l]
    PROVE  Settled(lifecycle')
<1>1. DOMAIN lifecycle = Flows
  BY DEF TypeOK, FlowRowsTyped
<1> QED BY <1>1 DEF Settled

\* Windows that are released leave no transient state.
LEMMA ReleaseSettled ==
    ASSUME TypeOK, Settled(lifecycle), NEW s \in DOMAIN schedules, NEW I,
           lifecycle' = Released(s, I)
    PROVE  Settled(lifecycle')
BY ReleasedTable DEF Settled

\* A call made between rounds leaves no transient state.
LEMMA CallQuiet ==
    ASSUME TypeOK, Settled(lifecycle), Topology \/ FlowCall \/ advance_epoch \/ DispatchCall
    PROVE  Settled(lifecycle')
<1>1. CASE lifecycle' = lifecycle
  BY <1>1
<1>2. ASSUME NEW f \in Flows, NEW l \in {"Waiting", "Failed", "Absent", "Dispatched", "Running"},
             lifecycle' = [lifecycle EXCEPT ![f] = l]
      PROVE  Settled(lifecycle')
  BY <1>2, SetSettled
<1>3. ASSUME NEW table, lifecycle' = normalize_transient_states(table)
      PROVE  Settled(lifecycle')
  BY <1>3, NormalSettled
<1>4. CASE Topology
  BY <1>1, <1>4 DEF Topology, register_resource, register_reservation,
     retire_reservation, register_class, install_policy
<1>5. CASE FlowCall
  <2>1. PICK f \in Flows :
           \/ \E d \in FlowSpace : admit_flow(f, d) \/ update_flow(f, d)
           \/ cancel_flow(f)
           \/ \E signal \in SignalSpace, now \in Readings : notify_readiness(f, signal, now)
           \/ \E after \in {"Waiting", "Failed"}, now \in Readings :
                 resolve_ambiguous(f, after, now)
           \/ retire_flow(f)
    BY <1>5 DEF FlowCall
  <2>2. ASSUME NEW d, admit_flow(f, d) PROVE lifecycle' = [lifecycle EXCEPT ![f] = "Waiting"]
    BY <2>2 DEF admit_flow
  <2>3. ASSUME NEW d, update_flow(f, d) PROVE Settled(lifecycle')
    <3>1. RetireWindow(f)
      BY <2>3 DEF update_flow
    <3> QED BY <1>1, <3>1, ReleaseSettled DEF RetireWindow, release_run_entries
  <2>4. ASSUME NEW after, NEW now, resolve_ambiguous(f, after, now)
        PROVE  lifecycle' = [lifecycle EXCEPT ![f] = after]
    BY <2>4 DEF resolve_ambiguous
  <2>5. ASSUME NEW signal, NEW now, notify_readiness(f, signal, now)
        PROVE  lifecycle' = lifecycle
    BY <2>5 DEF notify_readiness
  <2>6. CASE retire_flow(f)
    <3>1. lifecycle' = [lifecycle EXCEPT ![f] = "Absent"]
      BY <2>6 DEF retire_flow
    <3> QED BY <1>2, <3>1
  <2>7. CASE cancel_flow(f)
    BY <1>3, <2>7 DEF cancel_flow
  <2>8. CASE \E d \in FlowSpace : admit_flow(f, d)
    BY <1>2, <2>2, <2>8
  <2>9. CASE \E after \in {"Waiting", "Failed"}, now \in Readings : resolve_ambiguous(f, after, now)
    BY <1>2, <2>4, <2>9
  <2> QED BY <1>1, <2>1, <2>3, <2>5, <2>6, <2>7, <2>8, <2>9
<1>6. CASE advance_epoch
  BY <1>3, <1>6 DEF advance_epoch
<1>7. CASE DispatchCall
  <2>1. ASSUME NEW s, release_schedule(s) PROVE Settled(lifecycle')
    BY <1>3, <2>1 DEF release_schedule, release_run_entries
  <2>2. ASSUME NEW a, NEW now, abandon_attempt(a, now) \/ preempt_attempt(a, now)
        PROVE  Settled(lifecycle')
    <3>1. PICK state, table :
             apply_attempt_closed(a, state, normalize_transient_states(table))
      BY <2>2 DEF abandon_attempt, preempt_attempt, CloseByCaller
    <3> QED BY <1>1, <1>3, <3>1 DEF apply_attempt_closed
  <2>3. ASSUME NEW ev, NEW now, complete(ev, now) PROVE Settled(lifecycle')
    BY <1>3, <2>3 DEF complete
  <2>4. ASSUME NEW t \in tickets, NEW now, mark_started(t, now) PROVE Settled(lifecycle')
    <3>1. PICK f : lifecycle' \in {lifecycle, [lifecycle EXCEPT ![f] = "Running"]}
                   /\ f = attempts[t.attempt].ticket.entry.flow
                   /\ t.attempt \in DOMAIN attempts
      BY <2>4 DEF mark_started
    <3>2. f \in Flows
      BY <3>1, AttemptRow
    <3> QED BY <1>1, <1>2, <3>1, <3>2
  <2>5. ASSUME NEW s \in DOMAIN schedules, NEW i \in DOMAIN schedules[s].entries, NEW boot,
               NEW now, begin_dispatch(s, i, boot, now)
        PROVE  Settled(lifecycle')
    <3>1. PICK f : f = schedules[s].entries[i].flow
                   /\ lifecycle' = [lifecycle EXCEPT ![f] = "Dispatched"]
      BY <2>5 DEF begin_dispatch
    <3>2. f \in Flows
      BY <3>1, ScheduleRow DEF Entries
    <3> QED BY <1>2, <3>1, <3>2
  <2> QED BY <1>7, <2>1, <2>2, <2>3, <2>4, <2>5 DEF DispatchCall
<1> QED BY <1>4, <1>5, <1>6, <1>7

\* A phase is entered.
LEMMA PhaseEntered ==
    ASSUME TypeOK, NEW p, NEW S, Enter(p, S)
    PROVE  round'.phase = p
<1>1. round \in Rounds
  BY DEF TypeOK
<1> QED BY <1>1 DEF Enter, Rounds

\* A round that no append interrupts leaves no transient state when it ends.
LEMMA RoundQuiet ==
    ASSUME TypeOK, CandidatesSettled, Quiet, ~JournalMayFail, RoundStep
    PROVE  Quiet'
<1>1. ASSUME round'.phase \in {"Overdue", "Assign", "Issue"} PROVE Quiet'
  BY <1>1 DEF Quiet
<1>2. ASSUME Settled(lifecycle') PROVE Quiet'
  BY <1>2 DEF Quiet
<1>3. CASE \E s \in DOMAIN schedules : RoundReclaim(s)
  <2>1. PICK s \in DOMAIN schedules : RoundReclaim(s)
    BY <1>3
  <2>2. /\ round.phase = "Reclaim"
        /\ lifecycle' = Released(s, DOMAIN schedules[s].entries)
    BY <2>1 DEF RoundReclaim, release_run_entries
  <2> QED BY <1>2, <2>2, ReleaseSettled DEF Quiet
<1>4. CASE RoundReclaimed
  <2>1. round.phase = "Reclaim" /\ lifecycle' = lifecycle
    BY <1>4 DEF RoundReclaimed
  <2> QED BY <1>2, <2>1 DEF Quiet
<1>5. CASE \E f \in Flows : RoundRefresh(f)
  <2>1. PICK f \in Flows : RoundRefresh(f)
    BY <1>5
  <2>2. /\ round.phase = "Refresh" /\ f \in round.todo
        /\ \/ lifecycle' = [lifecycle EXCEPT ![f] = "Ready"]
           \/ lifecycle' = [lifecycle EXCEPT ![f] = LapseLifecycle(f, derived_readiness(f, round.now))]
    BY <2>1 DEF RoundRefresh
  <2>3. lifecycle[f] = "Waiting" /\ Settled(lifecycle)
    BY <2>2 DEF CandidatesSettled, Quiet
  <2>4. PICK l \in {"Ready", "Failed", "Waiting"} : lifecycle' = [lifecycle EXCEPT ![f] = l]
    BY <2>2, <2>3 DEF LapseLifecycle
  <2>5. l \notin {"Preempting", "Cancelling"}
    OBVIOUS
  <2> QED BY <1>2, <2>3, <2>4, <2>5, SetSettled
<1>6. CASE RoundRefreshed \/ RoundRank
  BY <1>1, <1>6, PhaseEntered DEF RoundRefreshed, RoundRank
<1>7. CASE \E f \in Flows : RoundOverdue(f) \/ RoundLapse(f) \/ RoundSkip(f) \/ RoundBlocked(f)
  BY <1>1, <1>7, PhaseEntered DEF RoundOverdue, RoundLapse, RoundSkip, RoundBlocked
<1>8. CASE \E f, v \in Flows : RoundGrant(f) \/ RoundDisplace(f, v)
  <2>1. PICK f, es : round.phase = "Assign" /\ Place(f, es)
    BY <1>8 DEF RoundGrant, RoundDisplace, Candidate
  <2>2. round'.phase = "Assign"
    BY <2>1 DEF Place, TypeOK, Rounds
  <2> QED BY <1>1, <2>2
<1>9. CASE RoundIssue \/ RoundApply
  <2>1. round'.phase = "Issue"
    BY <1>9 DEF RoundIssue, RoundApply, TypeOK, Rounds
  <2> QED BY <1>1, <2>1
<1>10. CASE RoundFinish
  BY <1>2, <1>10, NormalSettled DEF RoundFinish
<1> QED BY <1>3, <1>4, <1>5, <1>6, <1>7, <1>8, <1>9, <1>10 DEF RoundStep

\* A call is made between rounds.
LEMMA CallsIdle ==
    ASSUME Topology \/ FlowCall \/ advance_epoch \/ DispatchCall
    PROVE  Idle
<1>1. CASE Topology
  BY <1>1 DEF Topology, register_resource, register_reservation, retire_reservation,
     register_class, install_policy
<1>2. CASE FlowCall
  BY <1>2 DEF FlowCall, admit_flow, update_flow, cancel_flow, notify_readiness,
     resolve_ambiguous, retire_flow
<1>3. CASE advance_epoch
  BY <1>3 DEF advance_epoch
<1>4. CASE DispatchCall
  <2>1. ASSUME NEW s, NEW i, NEW boot, NEW now, begin_dispatch(s, i, boot, now) PROVE Idle
    BY <2>1 DEF begin_dispatch
  <2>2. ASSUME NEW ev, NEW now, complete(ev, now) PROVE Idle
    BY <2>2 DEF complete
  <2> QED BY <1>4, <2>1, <2>2 DEF DispatchCall, release_schedule, mark_started,
             abandon_attempt, preempt_attempt, CloseByCaller
<1> QED BY <1>1, <1>2, <1>3, <1>4

\* While no append fails, only a round in progress holds transient states.
LEMMA StepQuiet ==
    ASSUME TypeOK, CandidatesSettled, Quiet, ~JournalMayFail, [Next]_vars
    PROVE  Quiet'
<1>1. ASSUME Settled(lifecycle') PROVE Quiet'
  BY <1>1 DEF Quiet
<1>2. CASE Topology \/ FlowCall \/ advance_epoch \/ DispatchCall
  <2>1. Idle
    BY <1>2, CallsIdle
  <2>2. Settled(lifecycle)
    BY <2>1 DEF Quiet, Idle
  <2> QED BY <1>1, <1>2, <2>2, CallQuiet
<1>3. CASE \E now \in Readings : Refused(now) \/ RoundBegin(now)
  <2>1. Idle /\ lifecycle' = lifecycle
    BY <1>3 DEF Refused, RoundBegin
  <2> QED BY <1>1, <2>1 DEF Quiet, Idle
<1>4. CASE RoundStep
  BY <1>4, RoundQuiet
<1>5. CASE RoundAborted
  BY <1>5 DEF RoundAborted
<1>6. CASE UNCHANGED vars
  BY <1>6 DEF vars, Quiet
<1> QED BY <1>2, <1>3, <1>4, <1>5, <1>6 DEF Next

=============================================================================
