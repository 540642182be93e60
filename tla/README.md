# Flow Scheduler: a verification development in TLA+

Flow Scheduler is a deterministic arbiter over flows that were admitted
elsewhere. A caller registers resources, reservations and classes, admits
flows, asks for an arbitration round at a tick, dispatches the windows that the
round granted, and reports completions. Every piece of authority carries the
generations and the epoch it was issued under. State is durable through an
append-only journal and a snapshot. Two tools turn the library into a
coordinator process and worker processes.

This directory models that system. TLC checks the modules on small instances.
TLAPS proves, for every value of the constants, that dispatch authority and
windows have one holder, that what is closed, terminal or completed stays so,
that the runtime implements its dispatch contract, that the store keeps what it
acknowledged, and that frames arrive in order. `PROJECT.json` lists components, runs, mutants,
findings, hazards and theorems, and maps each definition to the source lines it
models.

Paths below are relative to the repository (`src/scheduler.cpp`,
`tools/fs_coordinator.cpp`, ...).

## The parts of the system

| Part | Source | Module |
| --- | --- | --- |
| Runtime: topology, flow lifecycle, arbitration, dispatch, completion | `src/scheduler.cpp` | `Scheduler` |
| Descriptors, policy, schedules, tickets, evidence | `src/model.cpp`, `src/schedule.cpp`, `src/dispatch.cpp` | `FlowTypes`, `Scheduler` |
| What the runtime promises to holders of tickets | `include/flow_scheduler/scheduler.hpp`, `README.md` | `DispatchContract` |
| The apply functions, shared by live calls and replay | `src/scheduler.cpp` | `SchedulerTables` |
| Journal records, snapshot, replay, recovery, checkpoint | `src/scheduler.cpp` | `Recovery` |
| Journal file and snapshot file | `src/journal.cpp` | `DurableStore` |
| Coordinator process | `tools/fs_coordinator.cpp` | `Coordinator`, `Connection` |
| Worker process | `tools/fs_worker.cpp` | `Coordinator`, `Connection` |
| Frames and the accumulator | `src/framing.cpp` | `Framing` |
| Sockets | `src/transport.cpp` | `Connection` |
| Order of candidates in a round, fairness, aging | `src/scheduler.cpp` | `Arbitration` |
| Accounting report | `src/accounting.cpp` | its equations are properties of `Scheduler` |
| Protocol encoders, hashes, identities, explanations, inspector, benchmark | | not modelled |

How they interact: the runtime journals a record before it applies it, so
`Recovery` is the runtime seen from its journal, and `DurableStore` is the file
under that journal. The coordinator drives a runtime and survives by its
recovery, so `Coordinator` composes the tables of `SchedulerTables` with worker
processes and the wires between them. `Connection` is the same coordinator and
the same workers one level down: what `Coordinator` takes for a frame in an
inbox is there a stream of cells, cut up by the kernel and put together by
`Framing`. `Scheduler` lets a round take its candidates in any order;
`Arbitration` is about that order, over rounds without end.

## The modules

### FlowTypes

The enumerations `FlowLifecycle`, `AttemptState`, `CompletionOutcome` and
`ReadinessSignal` and the predicates on them. `"Absent"` is added by
`Scheduler` for a flow without a row.

### Scheduler

The variables are the tables of `Scheduler::Impl`, field by field: `lifecycle`,
`flow`, `served_work`, `outstanding`, `open_attempt`, `scheduled`, `missed` for
`flows_`; `resource`, `in_flight`, `reserved`, `interval_index` for
`resources_`; `reservation` and `reserved_units`; `schedules` and `attempts`
with their next identifiers; `preemptions` for the throttle. `tickets` is a
history of every ticket handed out, from which late, repeated and mixed-up
evidence is drawn.

Every public method holds one mutex for its whole body, so a method is one
action under its own name. `arbitrate` is the exception. It changes state many
times and may return early when an append fails, so its loops are steps:

| Step | Loop of the source |
| --- | --- |
| `RoundBegin` | the tick is accepted |
| `RoundReclaim`, `RoundReclaimed` | `reclaim_expired_deliveries` |
| `RoundRefresh`, `RoundRefreshed` | `refresh_lifecycles` |
| `RoundOverdue`, `RoundRank` | attempts past their deadline; the candidates |
| `RoundLapse`, `RoundSkip`, `RoundGrant`, `RoundBlocked`, `RoundDisplace` | one candidate |
| `RoundIssue`, `RoundApply`, `RoundFinish` | the journal record, `apply_schedule`, normalisation and retention |
| `RoundAborted` | any append of the round fails (`JournalMayFail`) |

No other action is enabled while `round.phase # "Idle"`.

A caller passes a tick it read earlier: `Readings` contains ticks up to
`MaxLag` behind `last_tick`. `cancel_flow`, `advance_epoch` and
`release_schedule` use the tick the runtime already has.

Left out, and why it does not matter to the properties: the order of
candidates (any order is allowed, so the properties hold for all of them); the
schedule generation (it advances together with the identity); statistics,
explanations and digests. Byte-identical evidence is equality of records.
Priority class and QoS class are one class with one generation.

### DispatchContract

Five actions (`Grant`, `Commit`, `Withdraw`, `Restart`, `AdvanceEpoch`) over
the tickets granted, the tickets that are live, the epoch and the service
credited. It says that a flow never has two live tickets, that a ticket is used
up by one commit of at most its quantum, that an epoch advance withdraws
everything, and that nothing comes back to life. `Scheduler` implements it
under the mapping `live <- the tickets of open and started attempts`.

### DurableStore

The journal file is a sequence of records as they were written; a record is cut
into cells (two of header, its payload, one of trailer) and knows how many of
them reached the file. `scan_journal` classifies the first irregular record as
the source does: by what it can read from that place on, wherever those bytes
come from. A process may die after any cell of an append, between the
replacement of the snapshot and the truncation, and at any other point. With
`IOMayFail` writes, flushes and truncations fail too, and the store goes on.

### SchedulerTables and Recovery

`SchedulerTables` holds the tables in one record and each `apply_*` function as
an operator on it. `Recovery` has an action for each method that writes a flow,
schedule or attempt record: it appends the record, applies it with
`apply_record`, and adds what only the live call does. `recover` runs the same
`apply_record` over the journal. So a difference between what a call did and
what its replay does is visible in the model. After a crash `mem` keeps the
tables as they were at that moment, which lets `ReplayRestores` compare both
sides of the restart. `lapses` is a history: the flows that a round has failed
for their deadline since the last checkpoint. That failure is the only outcome
without a record, so these flows, and no other terminal ones, come back as they
were before it (`AfterRestart`).

Ticks and capacities are not in this model: which flows a round wakes, lets
lapse, stops and picks is a free choice.

### Coordinator

`pc` follows `Coordinator::run`: open, admit, handshake, then rounds of
arbitrate, dispatch and drain, then shutdown. `attempts` is `attempts_`,
`peers` the `alive` flags and, before them, whether a worker has connected: the
listener is bound before the scheduler is opened, so a connection may wait in it
(`Queued`) until `handshake` accepts it. A worker that dies with its connection
queued is greeted in vain or ends the run; one that dies before it connects
leaves the coordinator in `accept` (`Deserted`). Frames travel in order in `inbox` and `outbox`. A
dispatch to a dead worker may vanish in its socket or fail to be sent; a reset
may lose frames that a worker had sent. A worker takes a dispatch, reports its
start, then its completion, in two steps, and may die between them. After a
coordinator crash the operator starts the coordinator and all workers again,
with empty wires, from the recovered tables.

What `Scheduler::create` restores is written down as `Recovered`. It is the
outcome that `ReplayRestores` describes, taken as a definition: the histories
in which `Recovery` finds that a directory cannot be opened, or is replayed
twice, are not composed with this model.

A run is started under one of `Plans`: with or without workers that reject,
with or without a round budget, and with so many displacements, deaths and
crashes.

### Framing and Connection

A frame is a header, a payload of its length and a trailer, in cells. A cell
knows its frame and its place, so a checksum is an exact test; a damaged cell
belongs to a frame that nobody sent, of any length. `push_refuses` is the bound
of `FrameAccumulator::push`, `next` is `FrameAccumulator::next`: it reads the
length and waits for that many cells before it compares a checksum.

`Connection` has, for each worker and direction, what `send_all` has not written
yet (`out`), what the kernel holds (`wire`) and the reader's accumulator
(`buffer`). `Write` is one turn of the loop in `send_all`; `Read` is one
`recv_some` with its `push`; `Taken` hands a frame to its handler. `Close` ends
one side; if it leaves data unread, a reset follows that discards what the
other side has not read, at any later moment. The coordinator follows `pc`
(accept, greet, acknowledge, loop, stop) and is one thread: while it sends it
does nothing else (`Free`). A worker follows `wpc` and ends under one of the
exit codes of the tool. `sent` and `got` are histories. Waits that have a
budget may run out whenever nothing has arrived.

Faults: a process is killed at any point, a cell is damaged as it sets out, and,
where `launch.signals` says so, a send to an end that is gone raises a signal.

What is dispatched to whom is open here; `Coordinator` has the reasons. Nothing
in `dispatch_schedule` bounds the dispatches without an answer: `max_overlap`
counts live attempts, and a preempted attempt leaves that count while its
dispatch and its answers are still under way. So the only bound here is the
number of dispatches of the run, and the kernel's capacity is any number.

### Arbitration

`runtime` is the part of `FlowRuntime` that decides the order: lifecycle, age,
virtual finish, minimum service delivered and the service that protects an
incumbent. Quantities are kept relative to the clock they are compared with, up
to the point from which the code no longer tells them apart, so the state space
is finite although time is not bounded. Stamps behind the virtual clock are only
compared with each other until `Stamp` lifts them to it, so `Shifted` keeps
their order and not their distance. `arbitrate` is a whole round:
`Opened` (refresh, and stopping what is overdue), `Ranked` (the sort by
`OrderKey`), `Assigned` (the loop over the candidates, with displacement), then
`apply_schedule` and normalisation. `throttle` is the room that
`max_preemptions_per_interval` has left the round, any number up to
`max_overlap`. A `setting` is a policy with the flows it is run on, among it the
switches `deadline_ordering`, `weighted_fairness` and `min_service_guarantee`; it
is fixed for a behaviour.

`share` is a history: how much virtual time each flow has been granted while
all of them were backlogged on one slot, in one tier and of one rank.

Left out: several resources and fairness groups, capacity and reservations
(those are in `Scheduler`), strict deadlines, the end of a flow's work, and the
saturation of stamps at 2^64 - 1.

## What is checked

Bounds are named constants. Every passing run completes within a few minutes on
two cores.

| Run | Instance | Shows |
| --- | --- | --- |
| `dispatch` | 2 flows, 1 slot, 2 incarnations, preemption, 2 epochs | `TypeOK`, `AuthorityExclusive`, `BooksBalance`, `NoTransientAtRest`, `CommittedOnOwnTicket`, `ClosedIsFinal`, `TerminalIsFinal`, `ImplementsContract` |
| `update` | 1 flow whose descriptor, resource, class and policy change, or 2 flows with dependencies and signals | `WindowHeld`, `CompletedMeansServed`, `NoServiceBeyondWork`, `ScheduledOnlyWhenReady` |
| `bounds` | 2 flows; strict deadlines and stale ticks on 1 slot, or a reservation that opens, closes and is revived on 2; failing journal | `BooksBalance`, `ReservationWithinCapacity`, `OverdueStopped` |
| `store` | 4 appends, 2 compactions, any number of crashes, failing system calls | `CrashIsNotCorruption`, `AckedSurvives`, `CountersMatchFile` |
| `recovery` | 2 flows, 6 records, 1 checkpoint, or 1 flow, 8 records, 2 checkpoints | `TypeOK`, `TicketsUnique`, `CreditedOnce`, `NoLivenessRestored`, `ReplayRestores` |
| `coordinator` | 2 workers, 2 flows, 1 slot; 1 loss, before or after connecting, and 1 crash, or displacement and 1 crash, or rejections, a round budget, displacement and 1 loss | `TypeOK`, `AttemptsTracked`, `AnswerPending`, `NoAmbiguityRests`, `Converges` |
| `connection` | 1 worker with frames cut up in every way, or 2, of one incarnation or of two; up to 3 dispatches and 1 fault; kernel buffers of 4 or 8 cells | `InOrder`, `NoFalseAlarm`, `OneServes`, `NoStandoff`, `RunGoesOnWinsock`, `EveryoneEnds` |
| `arbitration` | 3 flows, 1 or 2 slots, each preemption mode, deadlines, minimum service, weights, pauses, a cost of zero, the three switches on or off | `TypeOK`, `FairShare`, `WorkConserving`, `TierOrder`, `NoExchange`, `PeersServed` |

`update` and `bounds` each explore two families of states, which a state
constraint of `MCScheduler` picks out of a wider instance (`OneOrTwoFlows`,
`DeadlineOrReservation`). TLC follows a behaviour until it leaves both: a mixture
of the two, and with the reservation anything after a second attempt was opened,
is outside these runs.

Some properties are conditional, because the code does not keep them
unconditionally. `CrashIsNotCorruption` and `CountersMatchFile` hold until a
system call fails, and `AckedSurvives` is about what was acknowledged before
that. `ReplayRestores` and `CreditedOnce` hold until a crash falls between the
two halves of a compaction (`overlapped`), and `ReplayRestores` excepts the
outcome of a lapse. `NoTransientAtRest` is checked with a journal that does not
fail. `NoStandoff` does not say that coordinator and worker never wait for each
other: with a buffer of four cells TLC reaches that state after three
dispatches. It says that they do so only when at least two more dispatches are
unanswered than the buffers of both directions hold, and this bound is exact:
with one more in it TLC finds it violated. `TierOrder` is stated for flows of one rank
and for the modes in which rank displaces nobody, `NoExchange` for one slot and,
in the mode `Tiered`, flows of one rank. `FairShare` and `PeersServed` are about
`weighted_fairness`; `FairShare` counts in the rounded cost that the code
charges, and `PeersServed` is for flows of one rank whose costs are not rounded
to zero (`StampsGrow`). Without the switch, or with a cost of zero, ties go by
weight and identity, and TLC finds a flow that is passed over for good.
`Converges` and `EveryoneEnds` except a coordinator that waits in `accept` for a
worker that died before it connected, and `EveryoneEnds` the wait of `NoStandoff`
as well; in `Coordinator` a socket takes every frame. The section on disagreements says what happens otherwise.

Why these bounds are enough for the cases in question:

* Two flows and one slot make flows compete, displace each other, and be
  dispatched again under a second ticket while evidence of the first is still
  on its way. Two units of work in windows of one make progress without
  completion.
* The history bound is scaled down. `validate` of the policy accepts 16 to
  2^20 (`src/schedule.cpp` 279); the model asks for a positive number and the
  runs use 1, so that the cut happens after two rounds.
  `maybe_retire_schedules` only compares the number of schedules with it.
* Six records let two flows be admitted, scheduled and dispatched; eight carry
  one flow through a completion, a restart and a second dispatch.
* Four appends and a limit of twelve cells let a journal be torn, repaired,
  filled to its bound and compacted, twice.
* A frame of three or four cells with reads of three covers a header in two
  reads, a frame in two reads, and the end of one frame with the beginning of
  the next. The bound of two frames in `push` is not reached: a reader asks
  `next` first, so less than a frame is left when it reads. A bound of one frame
  would be crossed, which is the mutant of `NoFalseAlarm`.
* Three flows let two of them alternate while the third waits. Windows last any
  number of ticks, so bounds of one and two ticks on starvation are crossed and
  not crossed. The virtual clock needs no bound: see `Shifted`.
* Identities of flows are interchangeable in `Recovery`, which compares them
  for equality only, so the symmetry of `MCRecovery` is sound. It is used with
  safety properties only.

Deadlock is checked in every run of `Scheduler` and `Arbitration`. In the other
runs the system may stop: a bound on records is reached, a store that the system
has damaged refuses to open, a run of the coordinator ends.

Every property of a passing run is broken by a mutant, an operator next to the
definition it replaces that makes a plausible mistake.

### Fairness

Liveness is stated for `Coordinator`, `Connection` and `Arbitration`. `FairSpec`
of `Coordinator` assumes:

* weak fairness of the coordinator's own steps: it is a single thread. Its
  waits for frames have a timeout (`kDrainWaitMs`, `kHandshakeBudgetMs`).
  `accept` and `send_all` have none. `handshake` is enabled only when a
  connection is there, so nothing is assumed of an `accept` that waits in vain;
  that `send_all` returns is an abstraction of this module, which `Connection`
  does not make;
* weak fairness of each worker process: it has no other work than to connect, to
  read the next frame and to answer it;
* weak fairness of the restart: an operator starts what has ended;
* strong fairness of `receive` and `peer_closed` for each worker: every round
  drains every readable socket, and what is readable stays readable, but the
  drain is interrupted by the rest of the round, so these steps are enabled
  again and again rather than continuously.

Nothing is assumed about deaths, crashes and resets: they may happen or not.
The plans leave one worker alive; without any, flows cannot be served.

`Connection` assumes weak fairness of the coordinator's steps and of each
worker's steps, for the same reasons. Faults, the arrival of resets and a worker
that gives up its handshake are not fair.

`Arbitration` assumes that the caller keeps making rounds, that time passes,
that a window is delivered or comes back (`reclaim_expired_deliveries` takes it
back when the delivery horizon has passed), and that an attempt that stays
running completes. The fairness of rounds is written over `last`, which only a
round sets to a throttle.

### Disagreements between code and text

Four are runs that TLC must find violated; `PROJECT.json` quotes the lines.

| Run | Property | What happens |
| --- | --- | --- |
| `reopen_update` | `RecoveryOpens` | an update refused because the flow has open work has already been journaled; recovery refuses it too, for good |
| `compaction_crash` | `ServedOnce` | a crash inside compaction credits service twice |
| `worker_signal` | `RunGoesOn` | on POSIX systems, a worker that dies while a dispatch is sent to it takes the coordinator with it: `send` raises SIGPIPE, which nobody ignores |
| `starvation` | `NoStarvation` | two flows of a better rank whose windows last as long as the starvation bound reach the starvation tier in turn, and there rank decides: a third flow of a worse rank is never scheduled |

The following were met while modelling, and TLC found each of them violated on
an instance of these modules. They have no run of their own; `PROJECT.json`
lists them as hazards with their lines.

* A window granted under one policy is dispatched under the next, while the
  repository's README makes the policy part of the tuple that must match.
* A failed append in a round leaves a flow in `Preempting`.
* The work of a partly served flow in `Waiting` can be changed.
* A displacement grants a slot above a `max_overlap` that was lowered.
* A flow stopped at its deadline is not failed under strict deadlines.
* An unbound flow is dispatched inside an exclusive window.
* An append that succeeds after one that failed cannot be read back.
* An admission refused by `max_flows` has already been journaled, and recovery
  refuses it too.
* A snapshot with more schedules or attempts than the history bound plus one is
  refused. (Seen with a history of 0; the program's least bound is 16, so there
  it takes at least eighteen.)
* A flow that a round failed at its deadline waits again after a restart.
* The coordinator and a worker wait in `send_all` for each other, or the
  coordinator in `accept`, for good, while `fs_coordinator.cpp` 34 says that
  every loop is bounded.
* A coordinator that dies during admission leaves a partial population.
* In the modes `Tiered` and `StrictPriority` a candidate of a better rank
  displaces an incumbent of a better tier. In `Tiered` a flow that lost its slot
  to one of a better tier, an urgent one say, may take it back by its rank.
* A damaged length is waited for before the header's checksum is compared.

## What is proved

Eight modules are checked by TLAPS: six about `Scheduler`, one about
`DurableStore` and one about `Connection`.

### The runtime

What `SchedulerTheorems` shows holds for any finite set of flows, any resources,
reservations, incarnations, descriptors, policies and bounds, with or without
journal failures, under the two assumptions of `Scheduler`
(`IdentityAssumption`, `DescriptorAssumption`): identities of flows and
reservations are positive numbers, callers pass values of the descriptor types,
and the first policy is valid.

* `TypeCorrect`: `Spec => []TypeOK`.
* `Exclusive`: `Spec => []AuthorityExclusive`. A live attempt is the one its
  flow names, in the matching lifecycle and at the ticket's generation and
  epoch, and its schedule is retained.
* `Invariance`: the inductive invariant behind both,
  `TypeOK /\ AuthorityExclusive /\ AttemptsCounted /\ CandidatesSettled`.
* `WindowsHaveOneHolder`: `Spec => []WindowHeld`. An undelivered window belongs
  to the one `Scheduled` flow that names it, and is counted by its schedule.
* `WindowsGoToReadyFlows`: `Spec => ScheduledOnlyWhenReady`. A window is applied
  to a flow that is ready then.
* `CompletionIsService`: `Spec => []CompletedMeansServed`.
* `ClosedForGood`: `Spec => ClosedIsFinal`. No step rewrites an attempt that is
  closed.
* `TerminalForGood`: `Spec => TerminalIsFinal`. A terminal flow stays as it is
  until it is retired.
* `Implements`: `Spec => ImplementsContract`. The runtime refines
  `DispatchContract`.
* `CommitsAreOnOwnTickets`: `Spec => []CommittedOnOwnTicket`. A commit rests on
  evidence for the ticket the attempt was opened with.
* `NothingRestsInTransit`: `Spec => []NoTransientAtRest`, if the journal does not
  fail (`~JournalMayFail`). With a failing journal it is false: a round that an
  append interrupts returns without normalizing, and leaves flows `Preempting`.
* `BooksAreExact`: `Spec => []BooksBalance`. The counters of resources and flows
  are exact, and no resource has more reserved than its capacity.
* `ServiceWithinWork`: `Spec => NoServiceBeyondWork`.
* `ReservationsHold`: `Spec => ReservationWithinCapacity`.
* `RoundsStopOverdueWork`: `Spec => OverdueStopped`.

Why the invariant needs its parts. `AuthorityExclusive` alone is not inductive.
`maybe_retire_schedules` drops a schedule when its counter `open_attempts` is
zero, so the proof needs that the counter is the number of live attempts
(`AttemptsCounted`), which in turn needs every path that closes an attempt to
close one that was counted. A round works through a list that it made in an
earlier phase; that the flows on it are still as the phase left them
(`CandidatesSettled`) is what keeps a grant from touching a flow in flight.
The types are not inductive by themselves either: the lemmas for cancelling,
closing, starting and an epoch advance look up the attempt that a flow names,
or the flow and schedule of an attempt, and need `AuthorityExclusive` to know
that it is there; the one for `RoundRefresh` needs `CandidatesSettled`.

`WindowHeld` needs one thing more. A round plans its entries in one phase and
applies them in another, one at a time, and displaces incumbents in between.
`PlanHeld` says that every entry that is planned and not yet applied belongs to
a flow that is still ready, at the entry's generation, with at most one window
to a flow. From this also follows that windows go to ready flows.

The argument is one lemma per action. `StateProofs` has what the tables are
made of and what the helpers on them preserve. Four modules rest on it and not on
each other: `StepProofs` (types, closed attempts, terminal flows),
`AuthorityProofs` (authority, the dispatch contract, transient states),
`WindowProofs` (windows, the plan, the capacities) and `LedgerProofs` (tickets,
books, deadlines). `SchedulerTheorems` puts them together.

In `AuthorityProofs` the lemmas `AuthorityKept`, `AuthorityMoved`,
`AuthorityReleased` and `AuthorityClosed` state what the common kinds of step do
to authority, and most actions are shown to be of one kind; `begin_dispatch`,
`mark_started`, `advance_epoch` and the end of a round have an argument of their
own. `WindowProofs` does the same for windows and for the plan.

The last part of `StepProofs` is about single steps: each one leaves the attempts
alone, drops some, or changes live ones only (`ClosedKept`); each one moves a lifecycle only
away from one that is not terminal (`TerminalKept`). Both need
`AuthorityExclusive`: an attempt is closed through the flow that names it, and a
flow that names one is not terminal.

For the refinement, `AuthorityProofs` shows that every step of the runtime is a
step of the contract or leaves it unchanged under the mapping. Most steps leave live
tickets and service alone. `begin_dispatch` is `Grant`: the ticket is new because
every ticket handed out has an attempt number below `next_attempt`
(`TicketsFresh`, an invariant of its own), and its flow has no other because
authority is exclusive. Closing an attempt is `Withdraw`, a completion is
`Commit`, a re-admission is `Restart`, and an epoch advance is `AdvanceEpoch`.

The other properties rest on invariants of their own, each proved from the ones
above.

* *Tickets* (`TicketsOwn`). `complete` compares the flow, the schedule and the
  incarnation of the evidence, not the ticket. That these name one ticket is an
  invariant over the life of a schedule: it delivers an entry once, has one `Run`
  entry for a flow (from `PlanHeld`), and its number is not used again, even when
  the schedule is retired and the attempts with it.
* *Transients* (`Quiet`). A round may stop flows in every phase after `Refresh`,
  and its last step normalizes them; every call outside a round normalizes what it
  stopped.
* *Books* (`Accounts`). `in_flight` is the number of flows that hold a window or a
  live attempt on the resource (`HeldOn`), `outstanding` the quantum of the entry a
  flow holds. A window and the attempt opened on it are the same holding, so that
  `begin_dispatch` moves nothing; every other step adds or removes at most one
  holder, the reclaim of a schedule and an epoch advance excepted, which remove
  several (`CardMinus`). The third part (`Terms`) is what the other two do not
  say: a holder's quantum is within the work left, and its deadline is still the
  flow's. `update_flow` keeps it because it refuses a flow with open work.
* *Capacity* (`CapacityPlan`). The plan of a round is charged entry by entry, after
  the assignment that sized it. The invariant says that what is reserved and what
  is planned and not yet applied fit together. The planned part is a sum over the
  end of a sequence; it is stated as prefix sums that exist (`Booked`) instead of a
  fold, so that appending an entry and applying the next one are single steps.
* *Deadlines* (`OnTime`). What is late when the round looks is on its work list;
  from the assignment on no live attempt is late, and neither is a window of the
  schedule that is being issued.

### The store

`StoreProofs` shows the three properties of the run `store` for any number of
appends and snapshots, any sizes of records, any bound on the journal, and with
failing system calls (`StoreAssumption` only says that the bounds are numbers):

* `CrashesAreNotCorruption`: `Spec => []CrashIsNotCorruption`.
* `AcknowledgedSurvives`: `Spec => []AckedSurvives`.
* `CountersDescribeFile`: `Spec => []CountersMatchFile`.

The inductive invariant `StoreInv` has two halves. As long as no system call has
failed, the records of the file are in sequence and all whole, the last one
perhaps excepted (`CleanFile`), and the counters are those of the file; an append
that dies then leaves such a file, because it writes behind the last whole
record. Once a call has failed nothing is known of the end of the file, and what
keeps the acknowledged records is different: a truncation at the recorded length
does not reach them (`Shielded`), and the caller has applied them, so that the
snapshot of a compaction contains them before the journal goes (`Rebuilt`).

### The connections

`ConnectionProofs` shows, for any finite set of workers, any launches, any
sizes of header, trailer, payload, read and kernel buffer, and any number of
kills and damaged cells:

* `FramesArriveInOrder`: `Spec => []InOrder`.
* `OnlyDamageAlarms`: `Spec => []NoFalseAlarm`.
* `OneIncarnationServes`: `Spec => []OneServes`.
* `LostWorkersEndNoRun`: `Spec => []RunGoesOnWinsock`.

The assumptions are those of the modules: a read is no longer than the longest
frame (`FramingAssumption`), no payload is longer than the limit
(`LengthsAssumption`), and `ConnectionAssumption`, which types the launches.

The inductive invariant `ConnInv` says of each direction what it carries
(`Carries`): there are offsets, one per frame sent, that grow by the length of
the frames; the accumulator, the kernel and the writer hold, one behind the
other, cells of the frames sent, each at its place, or damaged; and the
accumulator begins where the last frame taken ends. While neither end is closed
nothing is missing. Cells may be lost only with an end that has closed, and then
only behind what is still to be read. This makes the checksum of `decode_frame`
an argument: what passes it is the next frame sent. The rest of `ConnInv` is the
protocol: where the two processes are (`Contact`), that connections are greeted
one after the other (`Queue`), what has been said (`Speech`), that no incarnation
is acknowledged twice (`AckedOnce`), and why a run may have failed (`Cause`).

### What is only model-checked

* The liveness properties (`Converges`, `EveryoneEnds`, `PeersServed`) and
  everything about fairness and `ENABLED`, which are out of the prover's reach.
* `NoStandoff` of `Connection`, which counts the frames of one type in the
  histories against the cells of the wires.
* `Recovery`, `Coordinator` and `Arbitration`. Their operators fold over
  journals, tables and sorted candidates. What a fold computes for every input
  takes an induction over data that the prover cannot do; where the store and
  the connections have sequences of any length, the proofs use a least
  counterexample, or offsets that the invariant claims to exist.

## What is not modelled

* The order between flows of different fairness groups, whose stamps are
  compared although each group has a clock of its own, and aging together with
  scarce capacity.
* The records of topology, policy and readiness in `Recovery`: each replaces
  one descriptor by another and is replayed by the function that the live call
  uses.
* A failure of the machine, as opposed to the process: what the file system has
  accepted survives. The rename of a snapshot is not followed by a flush of
  its directory.
* A worker that sends frames of the protocol out of turn, and the worker's options
  `--exit-after` and `--stale-evidence`, which exist for tests.
* Addresses and socket options, encoders, hashes, the inspector and the
  benchmark: calls into the operating system, or pure functions without state.

## Plan

1. `Recovery`: the records of the topology and the policy, and a store under it
   that may lose the machine.
2. `Arbitration`: several fairness groups, and capacity as a second scarce good.
3. Proofs: `NoStandoff`, with the frames of the histories counted by prefix sums
   in the way of `CapacityPlan`.
