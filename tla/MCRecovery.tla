----------------------------- MODULE MCRecovery -----------------------------
(***************************************************************************)
(* Recovery for TLC: short behaviours of two flows and long ones of one.   *)
(* Flow identities are interchangeable: nothing in the replay compares two *)
(* of them, and the order of a round's records does not depend on them.    *)
(***************************************************************************)
EXTENDS Recovery

CONSTANTS f1, f2

FlowSymmetry == Permutations(Flows)

MCExtents == {[flows |-> {f1, f2}, records |-> 6, checkpoints |-> 1],
              [flows |-> {f1}, records |-> 8, checkpoints |-> 2]}

MCShort == {[flows |-> {f1}, records |-> 6, checkpoints |-> 2]}
=============================================================================
