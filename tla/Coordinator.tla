---------------------------- MODULE Coordinator ----------------------------
(***************************************************************************)
(* The coordinator process, its workers and the connections between them:  *)
(* fs_coordinator.cpp opens the durable scheduler, admits the flows,       *)
(* greets the workers, and then runs rounds (arbitrate, dispatch the       *)
(* schedule, drain what the workers have sent) until every flow is         *)
(* terminal.  fs_worker.cpp answers each dispatch with a start report and  *)
(* a completion.  Either may die at any step.                              *)
(*                                                                         *)
(* The scheduler behind the coordinator is the one of SchedulerTables.     *)
(* Time, deadlines and capacity are not here: a round wakes every waiting  *)
(* flow and fills every free slot, in any order, and the deadlines the     *)
(* tool hands out lie outside its round budget.  What a restart restores   *)
(* is Recovery's result ReplayRestores, taken here as a definition.        *)
(***************************************************************************)
EXTENDS SchedulerTables

CONSTANTS Workers,         \* worker processes
          Work,            \* estimated_work of every flow
          Quantum,         \* service per dispatch
          MaxOverlap,      \* max_overlap of the one resource
          MaxSchedules,    \* bound: schedules reissued after the horizon
          Plans            \* what may happen in a behaviour, see PlanType

\* Whether a worker may answer DispatchRejected and the round budget may run
\* out; max_preemptions_per_interval; and two bounds: the workers or connections
\* lost, and the coordinator's crashes.
PlanType(p) ==
    /\ {p.rejects, p.bounded} \subseteq BOOLEAN
    /\ {p.preemptions, p.deaths, p.crashes} \subseteq Nat

ASSUME CoordinatorAssumption ==
    /\ Flows = 1..Cardinality(Flows)
    /\ IsFiniteSet(Workers) /\ Workers # {}
    /\ {Work, Quantum, MaxOverlap} \subseteq Nat \ {0}
    /\ MaxSchedules \in Nat
    /\ \A p \in Plans : PlanType(p)

VARIABLES mem,         \* the scheduler's tables
          topology,    \* has the topology been journaled
          pc,          \* where the coordinator is
          todo,        \* flows of the schedule not yet handed to a worker
          peers,       \* the connection of each worker, as peers_ has it
          attempts,    \* attempts_: attempt -> [peer, started]
          inbox,       \* frames on their way to a worker
          outbox,      \* frames on their way to the coordinator
          worker,      \* Up, Down (dead) or Exited (after a shutdown frame)
          job,         \* the ticket a worker is executing, if any
          plan,        \* what may happen in this behaviour
          deaths, crashes, preemptions

coordinatorVars == <<topology, pc, todo, peers, attempts, plan>>
workerVars == <<worker, job>>
wires == <<inbox, outbox>>
budgets == <<deaths, crashes, preemptions>>
vars == <<mem, coordinatorVars, workerVars, wires, budgets>>

NoJob == [attempt |-> 0]

Empty == [w \in Workers |-> <<>>]

Init ==
    /\ mem = Fresh
    /\ topology = FALSE
    /\ pc = "Closed"
    /\ todo = {}
    /\ peers = [w \in Workers |-> "New"]
    /\ attempts = EmptyTable
    /\ inbox = Empty /\ outbox = Empty
    /\ worker = [w \in Workers |-> "Up"]
    /\ job = [w \in Workers |-> NoJob]
    /\ plan \in Plans
    /\ deaths = 0 /\ crashes = 0 /\ preemptions = 0

-----------------------------------------------------------------------------
\* Opening and greeting.

\* Scheduler::create on the state directory.  The tool never checkpoints, so
\* the identifiers start from 1 again.
Recovered(m) ==
    [apply_epoch_advance(m, m.epoch + 1) EXCEPT !.next_attempt = 1,
                                                !.next_schedule = 1]

\* Mutant of resolve_ambiguous_flows: the walk stops one identity early.
resolve_all_but_last(m) ==
    set_lifecycle(m, InState(m, {"Ambiguous"}) \cap
                         1..(Cardinality(DOMAIN m.flows) - 1), "Waiting")

\* A walk over the identities 1, 2, ... as many as there are flows.
resolve_ambiguous_flows(m) ==
    set_lifecycle(m, InState(m, {"Ambiguous"}) \cap
                         1..Cardinality(DOMAIN m.flows), "Waiting")

\* A recovered population is taken as it is; topology without a population
\* cannot be registered again, and the run is refused.
open_scheduler ==
    /\ pc = "Closed"
    /\ LET m == Recovered(mem)
       IN IF DOMAIN m.flows # {}
          THEN /\ mem' = resolve_ambiguous_flows(m)
               /\ pc' = "Handshake"
               /\ UNCHANGED topology
          ELSE /\ mem' = m
               /\ pc' = IF topology THEN "Refused" ELSE "Admit"
               /\ topology' = TRUE
    /\ UNCHANGED <<plan, todo, peers, attempts, workerVars, wires, budgets>>

\* One admission of the loop in admit_flows.
admit_flows ==
    /\ pc = "Admit"
    /\ LET f == Cardinality(DOMAIN mem.flows) + 1
       IN /\ mem' = apply_admit(mem, f)
          /\ pc' = IF f = Cardinality(Flows) THEN "Handshake" ELSE "Admit"
    /\ UNCHANGED <<topology, plan, todo, peers, attempts, workerVars, wires, budgets>>

\* A connection is accepted and its hello acknowledged; the last one starts the
\* main loop.  The worker may have died with its hello already sent.
handshake(w) ==
    /\ pc = "Handshake"
    /\ peers[w] = "Queued"
    /\ peers' = [peers EXCEPT ![w] = "Alive"]
    /\ pc' = IF \A v \in Workers \ {w} : peers[v] \notin {"New", "Queued"}
             THEN "Loop" ELSE pc
    /\ UNCHANGED <<mem, topology, plan, todo, attempts, workerVars, wires, budgets>>

\* A connection that ends before its hello, or before it is acknowledged, ends
\* the run.
handshake_fails(w) ==
    /\ pc = "Handshake"
    /\ peers[w] = "Queued"
    /\ worker[w] = "Down"
    /\ pc' = "Exited"
    /\ UNCHANGED <<mem, topology, plan, todo, peers, attempts, workerVars, wires,
                   budgets>>

-----------------------------------------------------------------------------
\* A round: arbitrate, dispatch, drain.

AllFlowsTerminal ==
    \A f \in DOMAIN mem.flows : is_terminal(mem.flows[f].lifecycle)

\* Mutant of InFlight: a dispatch that has not started takes no slot.
StartedOnly(m) == Cardinality(InState(m, {"Running"}))

InFlight(m) == Cardinality(InState(m, {"Scheduled", "Dispatched", "Running"}))

\* Undelivered windows may be past the horizon, one attempt may be displaced
\* when no slot is free, and the free slots are filled.
arbitrate(reclaim, stopped, chosen) ==
    LET old   == {s \in DOMAIN mem.schedules : mem.schedules[s].pending > 0}
        freed == IF reclaim
                 THEN FoldSet(LAMBDA x, n : apply_release_schedule(n, x),
                              mem, old)
                 ELSE mem
        woken == set_lifecycle(freed, InState(freed, {"Waiting"}), "Ready")
        ready == InState(woken, {"Ready"})
        cut   == FoldSet(LAMBDA a, n : apply_attempt_closed(n, a, "Preempted"),
                         woken, stopped)
        s     == mem.next_schedule
        given == IF chosen = {} THEN cut
                 ELSE [apply_schedule(cut, s, [f \in chosen |-> 1]) EXCEPT
                           !.next_schedule = s + 1]
    IN /\ pc = "Loop" /\ pc' = "Dispatch"
       /\ todo' = chosen
       /\ preemptions' = preemptions + Cardinality(stopped)
       /\ ~AllFlowsTerminal
       /\ reclaim => old # {} /\ s < MaxSchedules
       /\ stopped # {} => /\ Cardinality(stopped) = 1
                          /\ preemptions < plan.preemptions
                          /\ InFlight(woken) >= MaxOverlap
                          /\ ready # {}
       /\ chosen \subseteq ready
       /\ Cardinality(chosen) =
              Min({Cardinality(ready), MaxOverlap - InFlight(cut)})
       /\ mem' = maybe_retire_schedules(normalize_transient_states(given))
       /\ UNCHANGED <<topology, plan, peers, attempts, workerVars, wires, deaths,
                      crashes>>

\* Mutant of Abandon: the attempts of the lost peer are forgotten, not closed.
ForgetAttempts(m, mine) == resolve_ambiguous_flows(m)

\* retire_peer, on the scheduler: its attempts are abandoned, and the flows
\* that became ambiguous go back to waiting.
Abandon(m, mine) ==
    resolve_ambiguous_flows(
        normalize_transient_states(
            FoldSet(LAMBDA a, n : apply_attempt_closed(n, a, "Abandoned"),
                    m, mine)))

\* retire_peer(w) in a state with tables m and open attempts `open'.
retire_peer(m, open, w) ==
    LET mine == {a \in DOMAIN open : open[a].peer = w}
    IN /\ peers' = [peers EXCEPT ![w] = "Retired"]
       /\ outbox' = [outbox EXCEPT ![w] = <<>>]
       /\ attempts' = Restrict(open, DOMAIN open \ mine)
       /\ mem' = Abandon(m, mine)

\* begin_dispatch for flow f under ticket t, as the scheduler carries it out.
begin_dispatch(f, a) ==
    LET s == mem.flows[f].scheduled
        t == [flow |-> f, generation |-> 1, schedule |-> s]
    IN [apply_attempt_opened(mem, a, t) EXCEPT
           !.schedules[s].consumed = @ \cup {f},
           !.schedules[s].pending = @ - 1,
           !.next_attempt = a + 1]

\* One entry of dispatch_schedule.  Any live peer may be the next in turn.  A
\* frame sent to a dead peer may vanish in its socket or fail to be sent.
dispatch_entry(f, w) ==
    LET a == mem.next_attempt
        opened == begin_dispatch(f, a)
        open == (a :> [peer |-> w, started |-> FALSE]) @@ attempts
        frame == [type |-> "Dispatch", attempt |-> a, epoch |-> mem.epoch]
    IN /\ pc = "Dispatch"
       /\ f \in todo
       /\ peers[w] = "Alive"
       /\ todo' = todo \ {f}
       /\ \/ /\ UNCHANGED <<peers, outbox>>
             /\ inbox' = IF worker[w] = "Up"
                         THEN [inbox EXCEPT ![w] = Append(@, frame)] ELSE inbox
             /\ attempts' = open
             /\ mem' = opened
          \/ /\ worker[w] # "Up"
             /\ retire_peer(opened, open, w)
             /\ UNCHANGED inbox
       /\ UNCHANGED <<topology, plan, pc, workerVars, budgets>>

\* Nothing left to hand out, or nobody to hand it to.
dispatch_ends ==
    /\ pc = "Dispatch"
    /\ todo = {} \/ \A w \in Workers : peers[w] # "Alive"
    /\ todo' = {}
    /\ pc' = "Drain"
    /\ UNCHANGED <<mem, topology, plan, peers, attempts, workerVars, wires, budgets>>

\* handle_frame, Started.  A start that is no longer current is ignored.
handle_started(a) ==
    LET current == a \in DOMAIN attempts /\ a \in Live(mem)
    IN /\ mem' = IF current THEN apply_attempt_started(mem, a) ELSE mem
       /\ attempts' = IF current THEN [attempts EXCEPT ![a].started = TRUE]
                      ELSE attempts
       /\ UNCHANGED peers

\* handle_frame, Completion.  A report that the scheduler does not apply
\* leaves its attempt in attempts_.
handle_completion(a, epoch) ==
    LET f == mem.attempts[a].ticket.flow
        applies == /\ epoch = mem.epoch
                   /\ a \in Live(mem)
                   /\ Holds(mem, f, a)
        credit == Min({Quantum, Work - mem.flows[f].served})
        after == IF mem.flows[f].served + credit >= Work
                 THEN "Completed" ELSE "Ready"
    IN /\ mem' = IF applies THEN apply_completion(mem, a, credit, after)
                 ELSE mem
       /\ attempts' = IF applies THEN Restrict(attempts, DOMAIN attempts \ {a})
                      ELSE attempts
       /\ UNCHANGED peers

\* handle_frame, DispatchRejected.  The flow is left ambiguous.
handle_rejected(a) ==
    /\ mem' = IF a \in DOMAIN attempts
              THEN normalize_transient_states(
                       apply_attempt_closed(mem, a, "Abandoned"))
              ELSE mem
    /\ attempts' = Restrict(attempts, DOMAIN attempts \ {a})
    /\ UNCHANGED peers

receive(w) ==
    /\ pc = "Drain"
    /\ peers[w] = "Alive"
    /\ outbox[w] # <<>>
    /\ outbox' = [outbox EXCEPT ![w] = Tail(@)]
    /\ LET frame == Head(outbox[w])
       IN CASE frame.type = "Started"    -> handle_started(frame.attempt)
            [] frame.type = "Completion" ->
                   handle_completion(frame.attempt, frame.epoch)
            [] frame.type = "DispatchRejected" ->
                   handle_rejected(frame.attempt)
    /\ UNCHANGED <<topology, plan, pc, todo, workerVars, inbox, budgets>>

\* Mutant of peer_closed: the end of a stream is taken for silence.
peer_reset_only(w) ==
    /\ pc = "Drain"
    /\ peers[w] = "Alive"
    /\ worker[w] # "Up" /\ outbox[w] # <<>>
    /\ retire_peer(mem, attempts, w)
    /\ UNCHANGED <<topology, plan, pc, todo, workerVars, inbox, budgets>>

\* The end of a dead worker's stream, or a reset that loses unread frames.
peer_closed(w) ==
    /\ pc = "Drain"
    /\ peers[w] = "Alive"
    /\ worker[w] # "Up"
    /\ retire_peer(mem, attempts, w)
    /\ UNCHANGED <<topology, plan, pc, todo, workerVars, inbox, budgets>>

\* A transport failure, an unexpected frame or --kill-after: the coordinator
\* retires a worker that is still there.
peer_fails(w) ==
    /\ pc = "Drain"
    /\ peers[w] = "Alive"
    /\ deaths < plan.deaths
    /\ deaths' = deaths + 1
    /\ retire_peer(mem, attempts, w)
    /\ UNCHANGED <<topology, plan, pc, todo, workerVars, inbox, crashes, preemptions>>

\* drain returns: nothing more has arrived, the wait is over, or the budget
\* of frames is used up.
drain_ends ==
    /\ pc = "Drain"
    /\ pc' = "Loop"
    /\ UNCHANGED <<mem, topology, plan, todo, peers, attempts, workerVars, wires,
                   budgets>>

\* The sockets of the peers it still has end with the process.
End == peers' = [w \in Workers |-> IF peers[w] = "Alive" THEN "Ended"
                                   ELSE peers[w]]

\* The loop ends and shutdown_peers tells the live workers.
shutdown_peers ==
    /\ pc = "Loop"
    /\ AllFlowsTerminal \/ plan.bounded
    /\ pc' = "Done"
    /\ End
    /\ inbox' = [w \in Workers |->
                    IF peers[w] = "Alive" /\ worker[w] = "Up"
                    THEN Append(inbox[w], [type |-> "Shutdown"]) ELSE inbox[w]]
    /\ UNCHANGED <<mem, topology, plan, todo, attempts, workerVars, outbox, budgets>>

\* The process dies, or an error of the scheduler or a hello that is late ends it;
\* its sockets close, and with them its workers.
Crash ==
    /\ pc \notin {"Exited", "Refused", "Done"}
    /\ crashes < plan.crashes
    /\ crashes' = crashes + 1
    /\ pc' = "Exited"
    /\ UNCHANGED <<mem, topology, plan, todo, peers, attempts, workerVars, wires,
                   deaths, preemptions>>

\* The operator starts the coordinator and its workers again.
Restart ==
    /\ pc = "Exited"
    /\ pc' = "Closed"
    /\ todo' = {}
    /\ peers' = [w \in Workers |-> "New"]
    /\ attempts' = EmptyTable
    /\ inbox' = Empty /\ outbox' = Empty
    /\ worker' = [w \in Workers |-> "Up"]
    /\ job' = [w \in Workers |-> NoJob]
    /\ UNCHANGED <<mem, topology, plan, budgets>>

-----------------------------------------------------------------------------
\* The worker process.  While the coordinator is down its sends fail.

Connected(w) ==
    worker[w] = "Up" /\ peers[w] \in {"Alive", "Ended"} /\ pc # "Exited"

Send(w, type) ==
    outbox' = [outbox EXCEPT ![w] = Append(@, [type |-> type] @@ job'[w])]

\* connect_with_retry: the listener is bound before the scheduler is opened, so
\* the connection may wait there for a while.
connect(w) ==
    /\ worker[w] = "Up"
    /\ peers[w] = "New"
    /\ pc \in {"Closed", "Admit", "Handshake"}
    /\ peers' = [peers EXCEPT ![w] = "Queued"]
    /\ UNCHANGED <<mem, topology, pc, todo, attempts, plan, workerVars, wires, budgets>>

\* A dispatch frame: the start is reported first.
take_dispatch(w) ==
    /\ Connected(w)
    /\ job[w] = NoJob
    /\ inbox[w] # <<>> /\ Head(inbox[w]).type = "Dispatch"
    /\ job' = [job EXCEPT ![w] = [attempt |-> Head(inbox[w]).attempt,
                                  epoch |-> Head(inbox[w]).epoch]]
    /\ inbox' = [inbox EXCEPT ![w] = Tail(@)]
    /\ Send(w, "Started")
    /\ UNCHANGED <<mem, coordinatorVars, worker, budgets>>

\* Mutant of report_completion: the worker stops at the start report.
report_nothing(w) ==
    /\ Connected(w)
    /\ job[w] # NoJob
    /\ job' = [job EXCEPT ![w] = NoJob]
    /\ UNCHANGED <<mem, coordinatorVars, worker, wires, budgets>>

\* The completion, in a frame of its own.
report_completion(w) ==
    /\ Connected(w)
    /\ job[w] # NoJob
    /\ outbox' = [outbox EXCEPT ![w] =
                      Append(@, [type |-> "Completion"] @@ job[w])]
    /\ job' = [job EXCEPT ![w] = NoJob]
    /\ UNCHANGED <<mem, coordinatorVars, worker, inbox, budgets>>

\* The protocol's other answer to a dispatch.
reject_dispatch(w) ==
    /\ plan.rejects
    /\ Connected(w)
    /\ job[w] = NoJob
    /\ inbox[w] # <<>> /\ Head(inbox[w]).type = "Dispatch"
    /\ outbox' = [outbox EXCEPT ![w] =
                      Append(@, [type |-> "DispatchRejected",
                                 attempt |-> Head(inbox[w]).attempt])]
    /\ inbox' = [inbox EXCEPT ![w] = Tail(@)]
    /\ UNCHANGED <<mem, coordinatorVars, workerVars, budgets>>

worker_shutdown(w) ==
    /\ worker[w] = "Up"
    /\ job[w] = NoJob
    /\ inbox[w] # <<>> /\ Head(inbox[w]).type = "Shutdown"
    /\ worker' = [worker EXCEPT ![w] = "Exited"]
    /\ inbox' = [inbox EXCEPT ![w] = <<>>]
    /\ UNCHANGED <<mem, coordinatorVars, job, outbox, budgets>>

\* The worker dies, or its connection ends before a shutdown frame.
WorkerGone(w) ==
    /\ worker' = [worker EXCEPT ![w] = "Down"]
    /\ job' = [job EXCEPT ![w] = NoJob]
    /\ inbox' = [inbox EXCEPT ![w] = <<>>]
    /\ UNCHANGED <<mem, coordinatorVars, outbox, crashes, preemptions>>

worker_dies(w) ==
    /\ worker[w] = "Up"
    /\ pc # "Done"
    /\ deaths < plan.deaths
    /\ deaths' = deaths + 1
    /\ WorkerGone(w)

\* The worker owes the coordinator nothing, nor does it have to read anything
\* but the shutdown frame.
Quiet(w) ==
    /\ job[w] = NoJob
    /\ outbox[w] = <<>>
    /\ \A i \in DOMAIN inbox[w] : inbox[w][i].type = "Shutdown"

\* A socket closed with data unread, or written to after it was closed, is
\* reset, and a reset discards what its reader has not read.
worker_cut_off(w) ==
    /\ worker[w] = "Up"
    /\ \/ peers[w] = "Retired" \/ pc = "Refused"
       \/ peers[w] = "Ended" /\ (~Quiet(w) \/ inbox[w] = <<>>)
    /\ WorkerGone(w)
    /\ UNCHANGED deaths

-----------------------------------------------------------------------------
CoordinatorStep ==
    \/ open_scheduler \/ admit_flows
    \/ \E w \in Workers : handshake(w) \/ handshake_fails(w)
    \/ /\ pc = "Loop"
       /\ \E reclaim \in BOOLEAN, stopped \in SUBSET Live(mem),
             chosen \in SUBSET DOMAIN mem.flows :
              arbitrate(reclaim, stopped, chosen)
    \/ \E f \in todo, w \in Workers : dispatch_entry(f, w)
    \/ dispatch_ends
    \/ drain_ends
    \/ shutdown_peers

WorkerStep(w) ==
    \/ connect(w) \/ take_dispatch(w) \/ report_completion(w) \/ reject_dispatch(w)
    \/ worker_shutdown(w) \/ worker_cut_off(w)

Next ==
    \/ CoordinatorStep
    \/ \E w \in Workers : \/ receive(w) \/ peer_closed(w) \/ peer_fails(w)
                          \/ WorkerStep(w) \/ worker_dies(w)
    \/ Crash \/ Restart

Spec == Init /\ [][Next]_vars

\* The coordinator is one thread that waits only for frames, with a timeout, and
\* for workers to connect and to read, each worker is a process of its own, and
\* the operator restarts what has ended.  A frame
\* that a worker has sent arrives in time, and every drain reads every
\* readable socket: what can be received again and again, a frame or the end
\* of a stream, is received.
Fairness ==
    /\ WF_vars(CoordinatorStep)
    /\ WF_vars(Restart)
    /\ \A w \in Workers : /\ WF_vars(WorkerStep(w))
                          /\ SF_vars(receive(w))
                          /\ SF_vars(peer_closed(w))

FairSpec == Spec /\ Fairness

-----------------------------------------------------------------------------
Running == pc \in {"Loop", "Dispatch", "Drain"}

Frames == [type : {"Dispatch", "Started", "Completion"}, attempt : Nat,
           epoch : Nat] \cup
          [type : {"DispatchRejected"}, attempt : Nat] \cup
          [type : {"Shutdown"}]

\* The variables of the coordinator, the wires and the workers have their
\* types, and the scheduler holds no more attempts than it may overlap.
TypeOK ==
    /\ topology \in BOOLEAN
    /\ pc \in {"Closed", "Admit", "Handshake", "Loop", "Dispatch", "Drain",
               "Done", "Exited", "Refused"}
    /\ todo \subseteq Flows
    /\ peers \in [Workers -> {"New", "Queued", "Alive", "Retired", "Ended"}]
    /\ \A a \in DOMAIN attempts : attempts[a].peer \in Workers
    /\ \A w \in Workers : /\ Range(inbox[w]) \subseteq Frames
                          /\ Range(outbox[w]) \subseteq Frames
    /\ worker \in [Workers -> {"Up", "Down", "Exited"}]
    /\ Cardinality(InState(mem, {"Scheduled", "Dispatched", "Running"}))
           =< MaxOverlap

\* Every attempt the scheduler holds open is in attempts_ under a peer the
\* coordinator has not retired, so losing that peer will abandon it.
AttemptsTracked ==
    Running => \A a \in Live(mem) : /\ a \in DOMAIN attempts
                                    /\ peers[attempts[a].peer] = "Alive"

Carries(frames, a, types) ==
    \E i \in DOMAIN frames : frames[i].type \in types /\ frames[i].attempt = a

\* An open attempt is never waited for in vain: its ticket is on the wire or
\* at its worker, its answer is on the way back, or its worker is gone and
\* the coordinator has yet to notice.
AnswerPending ==
    Running => \A a \in Live(mem) :
        LET w == attempts[a].peer
        IN \/ Carries(inbox[w], a, {"Dispatch"})
           \/ job[w].attempt = a
           \/ Carries(outbox[w], a, {"Completion", "DispatchRejected"})
           \/ worker[w] # "Up"

\* The tool's policy for unknown outcomes is Retry: no flow rests ambiguous
\* while rounds are run, unless a worker rejects dispatches.
NoAmbiguityRests ==
    Running /\ ~plan.rejects => InState(mem, {"Ambiguous"}) = {}

\* The coordinator waits in accept(), which has no timeout, for workers that
\* have died before they connected.
Deserted ==
    /\ pc = "Handshake"
    /\ \E w \in Workers : peers[w] = "New"
    /\ \A w \in Workers : /\ peers[w] # "Queued"
                          /\ peers[w] = "New" => worker[w] = "Down"

\* If a worker survives, every flow becomes terminal, the run ends and its
\* workers end with it, whatever deaths, crashes and preemptions there are once
\* the workers have connected.  A worker lost before that leaves the coordinator
\* in accept() for good, a crash between the topology and the first admission is
\* refused for good, and a worker that rejects or a round budget that is too
\* small may leave flows behind.  A socket takes every frame here; the case that
\* it does not is in Connection.
Converges ==
    <>[](\/ plan.rejects \/ plan.bounded
         \/ pc = "Refused" \/ Deserted
         \/ pc = "Done" /\ AllFlowsTerminal /\ \A w \in Workers : worker[w] # "Up")
=============================================================================
