---------------------------- MODULE MCScheduler ----------------------------
(***************************************************************************)
(* Instances of Scheduler for TLC.                                         *)
(***************************************************************************)
EXTENDS Scheduler

CONSTANTS a, b, c

\* A recurring task, durable or of the session only, beside a durable one-shot.
MCTasks       == {a, b, c}
MCDurable     == {a, c}
MCOneShot     == {c}
MCPopulations == {{a, c}, {b, c}}
=============================================================================
