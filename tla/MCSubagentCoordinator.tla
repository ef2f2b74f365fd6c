----------------------- MODULE MCSubagentCoordinator -----------------------
(***************************************************************************)
(* Instances of SubagentCoordinator for TLC.  Each one takes a few kinds   *)
(* of request and of events, so that one aspect of the actor is explored   *)
(* to the end.                                                             *)
(***************************************************************************)
EXTENDS SubagentCoordinator, TLC

CONSTANTS a, b, c, root, other, prompt, run, q1

Request1(owner, background, to_completion) ==
  [owner |-> owner, prompt |-> prompt, background |-> background,
   to_completion |-> to_completion, surface |-> TRUE]

Foreground == Request1(Task, FALSE, FALSE)
Background == Request1(Task, TRUE, FALSE)
ToTheEnd   == Request1(Task, FALSE, TRUE)
OfRun      == Request1(run, FALSE, FALSE)

OneRoot  == {root}
TwoRoots == {root, other}
TwoIds   == {a, b}
ThreeIds == {a, b, c}
OnePrompt == {prompt}
OneRun   == {run}
NoRuns   == {}
OneQuery == {q1}
NoQuery  == {}

\* A host: its limits, its sessions, its callers and what happens to it.
Host(limit, behavior, buffer, sessions, kinds, events) ==
  [max_concurrent |-> limit, behavior |-> behavior, buffer_completions |-> buffer,
   sessions |-> sessions, kinds |-> kinds, events |-> events]

\* Three subagents and background spawns: a queue of two sessions, and nested
\* spawns under Stop and delete with a workflow at work.
AdmissionHosts ==
  {Host(1, "queue", FALSE, {root, other}, {Background}, {"spawn", "cancel", "token", "stop"}),
   Host(1, "queue", TRUE, {root}, {Background, OfRun},
        {"spawn", "stop", "teardown", "completions"})}

\* Two subagents, every kind of caller, and callers that leave.
DeliveryHosts ==
  {Host(1, "queue", FALSE, {root}, {Foreground, Background, OfRun},
        {"spawn", "cancel", "query", "workflow", "leave", "poll"}),
   Host(0, "fail", FALSE, {root}, {Foreground, Background}, {"spawn", "cancel", "leave"})}

\* Two subagents and foreground callers, up to the end of the actor.
LiveHosts ==
  {Host(1, "queue", FALSE, {root}, {Foreground},
        {"spawn", "token", "teardown", "query", "close", "drop"})}

IdSymmetry == Permutations(Ids)
=============================================================================
