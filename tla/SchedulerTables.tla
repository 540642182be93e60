--------------------------- MODULE SchedulerTables ---------------------------
(***************************************************************************)
(* The tables of Scheduler::Impl as one value, and the apply_* functions   *)
(* of scheduler.cpp as operators from tables to tables.  A live call and   *)
(* the replay of its journal record run the same apply_* function in the   *)
(* source; here they use the same operator.                                *)
(*                                                                         *)
(* A row keeps the fields that replay, recovery and the coordinator read.  *)
(* Ticks, service reserved, resources, reservations and classes are in     *)
(* Scheduler.tla.  0 is the invalid identifier.                            *)
(***************************************************************************)
EXTENDS FlowTypes, Integers, Sequences, FiniteSets, FiniteSetsExt,
        SequencesExt, Functions, TLC

CONSTANTS Flows,       \* flow identities
          MaxFlows,    \* policy.max_flows
          Retained     \* policy.retained_schedule_history

-----------------------------------------------------------------------------
EmptyTable == [x \in {} |-> x]

Fresh == [epoch |-> 0, flows |-> EmptyTable, attempts |-> EmptyTable,
          schedules |-> EmptyTable, next_attempt |-> 1, next_schedule |-> 1]

\* An apply_* or the snapshot decoder returned an error.
Refused == [refused |-> TRUE]

Live(m) == {a \in DOMAIN m.attempts : ~is_attempt_terminal(m.attempts[a].state)}

InState(m, S) == {f \in DOMAIN m.flows : m.flows[f].lifecycle \in S}

set_lifecycle(m, F, l) ==
    [m EXCEPT !.flows = [f \in DOMAIN @ |->
        IF f \in F THEN [@[f] EXCEPT !.lifecycle = l] ELSE @[f]]]

apply_admit(m, f) ==
    IF Cardinality(DOMAIN m.flows) >= MaxFlows /\ f \notin DOMAIN m.flows
    THEN Refused
    ELSE [m EXCEPT !.flows = (f :> [generation |-> 1, lifecycle |-> "Waiting",
                                    served |-> 0, open_attempt |-> 0,
                                    scheduled |-> 0]) @@ @]

apply_update(m, f, g) ==
    IF f \notin DOMAIN m.flows \/ holds_open_work(m.flows[f].lifecycle)
    THEN Refused
    ELSE [m EXCEPT !.flows[f].generation = g]

Names(m, f, g) == f \in DOMAIN m.flows /\ m.flows[f].generation = g

apply_retire_flow(m, f, g) ==
    IF Names(m, f, g)
    THEN [m EXCEPT !.flows = Restrict(@, DOMAIN @ \ {f})] ELSE m

apply_ambiguity_resolved(m, f, g, l) ==
    IF Names(m, f, g) /\ m.flows[f].lifecycle = "Ambiguous"
    THEN set_lifecycle(m, {f}, l) ELSE m

\* release_run_entry for the entries of schedule s that name flows of F.
release_run_entries(m, s, F) ==
    IF s \notin DOMAIN m.schedules THEN m
    ELSE LET row   == m.schedules[s]
             fresh == (F \cap DOMAIN row.runs) \ row.consumed
             back  == {f \in InState(m, {"Scheduled"}) \cap fresh :
                           m.flows[f].scheduled = s}
             left  == row.pending - Cardinality(fresh)
         IN [m EXCEPT !.schedules[s] =
                          [row EXCEPT !.consumed = @ \cup fresh,
                                      !.pending = IF left > 0 THEN left ELSE 0],
                      !.flows = [f \in DOMAIN @ |->
                          IF f \in back
                          THEN [@[f] EXCEPT !.lifecycle = "Ready",
                                            !.scheduled = 0]
                          ELSE @[f]]]

apply_release_schedule(m, s) == release_run_entries(m, s, Flows)

apply_schedule(m, s, runs) ==
    LET taken == {f \in DOMAIN runs :
                    /\ Names(m, f, runs[f])
                    /\ ~is_terminal(m.flows[f].lifecycle)
                    /\ ~holds_open_work(m.flows[f].lifecycle)}
    IN [m EXCEPT !.schedules = (s :> [runs |-> runs, consumed |-> {},
                                      pending |-> Cardinality(taken),
                                      open |-> 0]) @@ @,
                 !.flows = [f \in DOMAIN @ |->
                     IF f \in taken
                     THEN [@[f] EXCEPT !.lifecycle = "Scheduled",
                                       !.scheduled = s]
                     ELSE @[f]]]

apply_attempt_opened(m, a, t) ==
    LET opened == [m EXCEPT
            !.attempts = (a :> [ticket |-> t, state |-> "Open"]) @@ @,
            !.schedules = [s \in DOMAIN @ |->
                IF s = t.schedule THEN [@[s] EXCEPT !.open = @ + 1] ELSE @[s]]]
    IN IF Names(m, t.flow, t.generation)
       THEN set_lifecycle([opened EXCEPT !.flows[t.flow].open_attempt = a],
                          {t.flow}, "Dispatched")
       ELSE opened

Holds(m, f, a) == f \in DOMAIN m.flows /\ m.flows[f].open_attempt = a

apply_attempt_started(m, a) ==
    IF a \notin Live(m) \/ m.attempts[a].state = "Started" THEN m
    ELSE LET f == m.attempts[a].ticket.flow
             started == [m EXCEPT !.attempts[a].state = "Started"]
         IN IF Holds(m, f, a) THEN set_lifecycle(started, {f}, "Running")
            ELSE started

\* Mutant of OneClosed: the count is never taken down.
NoneClosed(m, s) == m

\* The schedule's count of open attempts goes down, never below zero.
OneClosed(m, s) ==
    [m EXCEPT !.schedules = [x \in DOMAIN @ |->
        IF x = s /\ @[x].open > 0 THEN [@[x] EXCEPT !.open = @ - 1] ELSE @[x]]]

apply_attempt_closed(m, a, state) ==
    IF a \notin Live(m) THEN m
    ELSE LET t == m.attempts[a].ticket
             closed == OneClosed([m EXCEPT !.attempts[a].state = state],
                                 t.schedule)
         IN IF ~Holds(m, t.flow, a) THEN closed
            ELSE set_lifecycle([closed EXCEPT !.flows[t.flow].open_attempt = 0],
                               {t.flow},
                               CASE state = "Preempted" -> "Preempting"
                                 [] state = "Cancelled" -> "Cancelling"
                                 [] state = "Abandoned" -> "Ambiguous"
                                 [] state = "Rejected"  -> "Ready")

apply_cancel(m, f, g) ==
    IF ~Names(m, f, g) THEN m
    ELSE LET row    == m.flows[f]
             open   == row.open_attempt
             closed == IF open = 0 THEN m
                       ELSE apply_attempt_closed(m, open, "Cancelled")
             back   == IF closed.flows[f].lifecycle = "Scheduled"
                       THEN release_run_entries(closed, row.scheduled, {f})
                       ELSE closed
         IN [back EXCEPT !.flows[f].lifecycle = "Cancelled",
                         !.flows[f].scheduled = 0]

apply_completion(m, a, credit, after) ==
    IF a \notin DOMAIN m.attempts THEN m
    ELSE LET t == m.attempts[a].ticket
             done == OneClosed([m EXCEPT !.attempts[a].state = "Committed"],
                               t.schedule)
         IN IF t.flow \notin DOMAIN m.flows THEN done
            ELSE [done EXCEPT !.flows[t.flow] =
                    [@ EXCEPT !.open_attempt = 0, !.scheduled = 0,
                              !.served = @ + credit, !.lifecycle = after]]

normalize_transient_states(m) ==
    set_lifecycle(set_lifecycle(m, InState(m, {"Preempting"}), "Ready"),
                  InState(m, {"Cancelling"}), "Cancelled")

abandon_open_attempts(m) ==
    LET closed == FoldSet(LAMBDA a, n : apply_attempt_closed(n, a, "Abandoned"),
                          m, Live(m))
    IN normalize_transient_states(
           FoldSet(LAMBDA s, n : apply_release_schedule(n, s), closed,
                   DOMAIN closed.schedules))

\* Mutant of apply_epoch_advance: the flows are not told that their authority is
\* gone.
EpochWithoutFlows(m, next) ==
    [m EXCEPT !.schedules = EmptyTable, !.attempts = EmptyTable, !.epoch = next]

apply_epoch_advance(m, next) ==
    LET n == abandon_open_attempts(m)
    IN [n EXCEPT !.flows = [f \in DOMAIN @ |-> [@[f] EXCEPT !.scheduled = 0]],
                 !.schedules = EmptyTable, !.attempts = EmptyTable,
                 !.epoch = next]

\* The schedules maybe_retire_schedules drops: the oldest ones over the
\* history bound, up to the first that still has outstanding authority.
maybe_retire_schedules(m) ==
    LET ids == DOMAIN m.schedules
        upto(s) == {x \in ids : x =< s}
        dropped == {s \in ids :
                      /\ Cardinality(upto(s)) =< Cardinality(ids) - Retained
                      /\ \A x \in upto(s) : /\ m.schedules[x].open = 0
                                            /\ m.schedules[x].pending = 0}
    IN [m EXCEPT !.schedules = Restrict(@, ids \ dropped),
                 !.attempts = Restrict(@, {a \in DOMAIN @ :
                                   @[a].ticket.schedule \notin dropped})]
=============================================================================
