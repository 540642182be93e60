--------------------------- MODULE DispatchContract ---------------------------
(***************************************************************************)
(* What the scheduler promises to whoever holds dispatch tickets, whatever *)
(* it does inside: a ticket is authority for one flow, no flow has two     *)
(* live ones, a ticket is used up by one commit of at most its quantum or  *)
(* is withdrawn, an epoch advance withdraws all of them, and what has been *)
(* withdrawn or used never comes back to life.                             *)
(***************************************************************************)
EXTENDS Integers

CONSTANT Flows

VARIABLES
    epoch,    \* the fabric epoch
    granted,  \* every ticket ever handed out
    live,     \* the tickets that still carry authority
    served    \* service credited to each flow since it was admitted

contractVars == <<epoch, granted, live, served>>

Init ==
    /\ epoch = 1
    /\ granted = {}
    /\ live = {}
    /\ served = [f \in Flows |-> 0]

HasAuthority(f) == \E t \in live : t.entry.flow = f

Grant ==
    \E t \in granted' :
        /\ t \notin granted
        /\ \A u \in granted : u.attempt # t.attempt
        /\ t.epoch = epoch
        /\ ~HasAuthority(t.entry.flow)
        /\ granted' = granted \cup {t}
        /\ live' = live \cup {t}
        /\ UNCHANGED <<epoch, served>>

Commit ==
    \E t \in live :
        /\ live' = live \ {t}
        /\ served'[t.entry.flow] - served[t.entry.flow] \in 0..t.entry.quantum
        /\ served' = [served EXCEPT ![t.entry.flow] = served'[t.entry.flow]]
        /\ UNCHANGED <<epoch, granted>>

Withdraw ==
    /\ live' \subseteq live
    /\ UNCHANGED <<epoch, granted, served>>

\* A flow's row is created or erased.
Restart ==
    \E f \in Flows :
        /\ ~HasAuthority(f)
        /\ served' = [served EXCEPT ![f] = 0]
        /\ UNCHANGED <<epoch, granted, live>>

AdvanceEpoch ==
    /\ epoch' = epoch + 1
    /\ live' = {}
    /\ UNCHANGED <<granted, served>>

Next == Grant \/ Commit \/ Withdraw \/ Restart \/ AdvanceEpoch

Spec == Init /\ [][Next]_contractVars
=============================================================================
