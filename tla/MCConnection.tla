---------------------------- MODULE MCConnection ----------------------------
(***************************************************************************)
(* Connection for TLC: one worker whose frames are cut up in every way, or *)
(* two, of one incarnation or not, whose frames are taken as far as the    *)
(* kernel has room.                                                        *)
(***************************************************************************)
EXTENDS Connection, TLC

CONSTANTS w1, w2

Launch(names, cut, posix, room, inAll, accidents) ==
    [identity |-> names, parts |-> cut, signals |-> posix, capacity |-> room,
     dispatches |-> inAll, faults |-> accidents]

One == w1 :> "a"
Twins == w1 :> "a" @@ w2 :> "a"
Two == w1 :> "a" @@ w2 :> "b"

MCLaunches == {Launch(One, TRUE, FALSE, 4, 3, 1),
               Launch(One, FALSE, TRUE, 4, 2, 1),
               Launch(Twins, FALSE, FALSE, 4, 1, 1),
               Launch(Two, FALSE, FALSE, 4, 1, 1),
               Launch(Two, FALSE, FALSE, 8, 2, 0)}
=============================================================================
