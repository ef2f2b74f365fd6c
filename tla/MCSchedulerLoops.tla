-------------------------- MODULE MCSchedulerLoops --------------------------
(***************************************************************************)
(* Instances of SchedulerLoops for TLC.                                    *)
(***************************************************************************)
EXTENDS SchedulerLoops

CONSTANTS s, p, q, i1, i2

OneTask    == {s}
TwoPrompts == {p, q}
TwoIds     == {i1, i2}
=============================================================================
