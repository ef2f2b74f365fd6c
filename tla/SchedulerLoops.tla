--------------------------- MODULE SchedulerLoops ---------------------------
(***************************************************************************)
(* Background loops of the scheduler actor (fire_as_loop_subagent of       *)
(* grok_build/scheduler/actor.rs): every fire of a recurring task runs as  *)
(* a subagent, one iteration at a time, and an iteration resumes the       *)
(* transcript of the one before it unless the chain has to start afresh.   *)
(*                                                                         *)
(* The actor asks the subagent coordinator about the previous iteration,   *)
(* and awaits the answer for at most 10 seconds; meanwhile iterations end, *)
(* the watchers it left behind clear anchors, and the coordinator may go   *)
(* away.  The coordinator is here what the actor sees of it: a FIFO, and   *)
(* the children with their descendants.  Commands wait while a fire is     *)
(* under way, since the actor is sequential.                               *)
(***************************************************************************)
EXTENDS Integers, Sequences, SequencesExt, FiniteSets

CONSTANTS
  Tasks,              \* the recurring background tasks
  Prompts,            \* what a task is told to do
  Ids,                \* subagent ids; one that is forgotten may be used anew
  None,               \* no anchor, no prompt, no task
  FreshEvery          \* LOOP_FRESH_CHAIN_EVERY

ASSUME LoopsAssumption ==
  /\ None \notin Tasks \union Prompts \union Ids
  /\ FreshEvery \in Nat \ {0}

VARIABLES
  held,               \* the tasks in SchedulerState
  task,               \* what the actor keeps of a task
  due,                \* the tasks with next_fire_at() <= now
  pc,                 \* what the actor awaits, with what it read before it did
  up,                 \* the coordinator's channel is open
  inbox,              \* the coordinator's channel
  child,              \* the iterations
  watcher             \* the detached task behind each spawn

vars == << held, task, due, pc, up, inbox, child, watcher >>

Blank == [anchor |-> None, iterations |-> 0, reset |-> FALSE, prompt |-> None]

\* An iteration: its task, its prompt, the prompt of the transcript it resumed,
\* its position in the chain, whether descendants of it run, and whether it ended
\* with an error (history).
Unknown == [is |-> "unknown", of |-> None, job |-> None, resumed |-> None,
            depth |-> 0, nested |-> FALSE, bad |-> FALSE]

Idle == [at |-> "idle", task |-> None, saw |-> Blank, usable |-> FALSE]

-----------------------------------------------------------------------------
(***************************************************************************)
(* Commands.                                                               *)
(***************************************************************************)
Free == pc = Idle

Create(t, p) ==
  /\ Free
  /\ t \notin held /\ task[t] = Blank
  /\ held' = held \union {t}
  /\ task' = [task EXCEPT ![t] = [Blank EXCEPT !.prompt = p]]
  /\ UNCHANGED << due, pc, up, inbox, child, watcher >>

\* Mutant: the new job forgets the old iteration.
Patched_NoAnchor(r, p) ==
  [r EXCEPT !.prompt = p, !.anchor = IF p # r.prompt THEN None ELSE @,
            !.iterations = IF p # r.prompt THEN 0 ELSE @]

\* Mutant: the counter starts over, the transcript does not.
Patched_NoReset(r, p) ==
  [r EXCEPT !.prompt = p, !.iterations = IF p # r.prompt THEN 0 ELSE @]

\* A new prompt is a new job; the anchor is kept for the in-flight guard.
Patched(r, p) ==
  [r EXCEPT !.prompt = p, !.reset = @ \/ p # r.prompt,
            !.iterations = IF p # r.prompt THEN 0 ELSE @]

Update(t, p) ==
  /\ Free
  /\ t \in held
  /\ task' = [task EXCEPT ![t] = Patched(@, p)]
  /\ UNCHANGED << held, due, pc, up, inbox, child, watcher >>

\* The removal itself is Scheduler's; here the task is gone.
Delete(t) ==
  /\ Free
  /\ t \in held
  /\ held' = held \ {t}
  /\ due' = due \ {t}
  /\ UNCHANGED << task, pc, up, inbox, child, watcher >>

-----------------------------------------------------------------------------
(***************************************************************************)
(* A fire.                                                                 *)
(***************************************************************************)

\* Every exit of a fire without a spawn.
Skip == pc' = Idle

\* Sends of the actor go behind the spawns that the coordinator has not read.
Ask(kind, id, t) == inbox' = Append(inbox, [kind |-> kind, id |-> id, task |-> t])

\* fire_next_task up to the first await: the cadence is advanced, the record is
\* read.  Without an anchor there is nothing to ask.
Fire(t) ==
  /\ Free
  /\ t \in held \intersect due
  /\ due' = due \ {t}
  /\ LET r == task[t]
         now(where) == [at |-> where, task |-> t, saw |-> r, usable |-> FALSE]
     IN  \/ /\ r.anchor = None
            /\ pc' = now("spawn")
            /\ UNCHANGED inbox
         \/ /\ r.anchor # None /\ up
            /\ Ask("query", r.anchor, t)
            /\ pc' = now("query")
         \/ /\ r.anchor # None /\ ~up
            /\ Skip
            /\ UNCHANGED inbox
  /\ UNCHANGED << held, task, up, child, watcher >>

InFlight(i) == child[i].is \in {"sent", "live"}

\* Mutant: a child that the coordinator has forgotten counts as running.
StillRuns_Unknown(i) == InFlight(i) \/ child[i].is = "unknown"

\* SubagentSnapshotStatus::Initializing | Running
StillRuns(i) == InFlight(i)

\* Mutant: descendants are not asked for.
AfterQuery_NoUnit(id) ==
  /\ pc' = [pc EXCEPT !.at = "spawn", !.usable = child[id].is = "done"]
  /\ inbox' = Tail(inbox)

\* The previous iteration is over: now its descendants are asked for.
AfterQuery(id) ==
  /\ pc' = [pc EXCEPT !.at = "unit", !.usable = child[id].is = "done"]
  /\ inbox' = Append(Tail(inbox), [kind |-> "unit", id |-> id, task |-> pc.task])

\* The coordinator answers the query, and the actor takes the answer.
AnswerQuery ==
  /\ up /\ inbox # << >> /\ Head(inbox).kind = "query"
  /\ LET id == Head(inbox).id
     IN  \/ StillRuns(id) /\ Skip /\ inbox' = Tail(inbox)
         \/ ~StillRuns(id) /\ AfterQuery(id)
  /\ UNCHANGED << held, task, due, up, child, watcher >>

\* LoopUnitActive: what is tagged with the task, descendants included.
UnitActive(t) == \E i \in Ids : child[i].of = t /\ (InFlight(i) \/ child[i].nested)

AnswerUnit ==
  /\ up /\ inbox # << >> /\ Head(inbox).kind = "unit"
  /\ inbox' = Tail(inbox)
  /\ \/ UnitActive(pc.task) /\ Skip
     \/ ~UnitActive(pc.task) /\ pc' = [pc EXCEPT !.at = "spawn"]
  /\ UNCHANGED << held, task, due, up, child, watcher >>

\* The 10 seconds are over: an answer that comes now has no effect.  The question
\* is the last message, since nobody but the actor sends.
TimeOut ==
  /\ pc.at \in {"query", "unit"}
  /\ Skip
  /\ inbox' = Front(inbox)
  /\ UNCHANGED << held, task, due, up, child, watcher >>

\* resume_from is the anchor.
Resumes(saw, usable) ==
  ~saw.reset /\ saw.iterations < FreshEvery /\ usable

\* The record of the task once it is at a new iteration.
Advanced(r, saw, usable, id) ==
  [r EXCEPT !.anchor = id, !.reset = FALSE,
            !.iterations = IF Resumes(saw, usable) THEN saw.iterations + 1 ELSE 1]

\* An id that nobody refers to.
Unused(id) ==
  /\ child[id] = Unknown /\ watcher[id] = "none"
  /\ \A t \in Tasks : task[t].anchor # id
  /\ \A k \in DOMAIN inbox : inbox[k].id # id

\* The chain is decided by what was read before the awaits, though a watcher may
\* have cleared the anchor since.
Spawn(id) ==
  /\ pc.at = "spawn" /\ up
  /\ Unused(id) /\ pc.saw.anchor # id
  /\ LET t == pc.task
         from == IF Resumes(pc.saw, pc.usable) THEN pc.saw.anchor ELSE None
     IN  /\ task' = [task EXCEPT ![t] = Advanced(@, pc.saw, pc.usable, id)]
         /\ child' = [child EXCEPT ![id] =
              [is |-> "sent", of |-> t, job |-> pc.saw.prompt,
               resumed |-> IF from = None THEN None ELSE child[from].job,
               depth |-> IF from = None THEN 1 ELSE child[from].depth + 1,
               nested |-> FALSE, bad |-> FALSE]]
         /\ inbox' = Append(inbox, [kind |-> "spawn", id |-> id, task |-> t])
  /\ watcher' = [watcher EXCEPT ![id] = "waits"]
  /\ pc' = Idle
  /\ UNCHANGED << held, due, up >>

\* The coordinator is gone: the record has moved to an iteration that will never
\* be, until the actor has the lock again.
SpawnRefused(id) ==
  /\ pc.at = "spawn" /\ ~up
  /\ Unused(id) /\ pc.saw.anchor # id
  /\ task' = [task EXCEPT ![pc.task] = Advanced(@, pc.saw, pc.usable, id)]
  /\ pc' = [pc EXCEPT !.at = "restore"]
  /\ UNCHANGED << held, due, up, inbox, child, watcher >>

Restored(r, saw) ==
  [r EXCEPT !.anchor = saw.anchor, !.iterations = saw.iterations, !.reset = saw.reset]

\* The full snapshot is put back, and the fire goes to the foreground.
Restore ==
  /\ pc.at = "restore"
  /\ task' = [task EXCEPT ![pc.task] = Restored(@, pc.saw)]
  /\ pc' = Idle
  /\ UNCHANGED << held, due, up, inbox, child, watcher >>

-----------------------------------------------------------------------------
(***************************************************************************)
(* The watcher behind a spawn: it waits for the result, and clears the     *)
(* anchor of the task that still points at a failed iteration.             *)
(***************************************************************************)

PointsAt(t, id) == task[t].anchor = id

Watch(id) ==
  /\ watcher[id] = "error"
  /\ watcher' = [watcher EXCEPT ![id] = "none"]
  /\ task' = [t \in Tasks |-> IF t \in held /\ PointsAt(t, id)
                              THEN [task[t] EXCEPT !.anchor = None, !.iterations = 0]
                              ELSE task[t]]
  /\ UNCHANGED << held, due, pc, up, inbox, child >>

-----------------------------------------------------------------------------
(***************************************************************************)
(* The coordinator and its children.                                       *)
(***************************************************************************)

\* It takes the spawn up, or refuses it; the result of a background child is
\* sent when the child ends.
Admit(ok) ==
  /\ up /\ inbox # << >> /\ Head(inbox).kind = "spawn"
  /\ inbox' = Tail(inbox)
  /\ LET id == Head(inbox).id
     IN  /\ child' = [child EXCEPT ![id].is = IF ok THEN "live" ELSE "failed", ![id].bad = ~ok]
         /\ watcher' = [watcher EXCEPT ![id] = IF ok THEN @ ELSE "error"]
  /\ UNCHANGED << held, task, due, pc, up >>

End(id, ok) ==
  /\ up /\ child[id].is = "live"
  /\ child' = [child EXCEPT ![id].is = IF ok THEN "done" ELSE "failed", ![id].bad = ~ok]
  /\ watcher' = [watcher EXCEPT ![id] = IF ok THEN "none" ELSE "error"]
  /\ UNCHANGED << held, task, due, pc, up, inbox >>

\* An iteration starts a subagent of its own, which may outlive it.
Nest(id) ==
  /\ up /\ child[id].is = "live" /\ ~child[id].nested
  /\ child' = [child EXCEPT ![id].nested = TRUE]
  /\ UNCHANGED << held, task, due, pc, up, inbox, watcher >>

NestedEnd(id) ==
  /\ up /\ child[id].nested
  /\ child' = [child EXCEPT ![id] = IF @.is = "unknown" THEN Unknown
                                                        ELSE [@ EXCEPT !.nested = FALSE]]
  /\ UNCHANGED << held, task, due, pc, up, inbox, watcher >>

\* The cap on completed entries.
Forget(id) ==
  /\ child[id].is \in {"done", "failed"}
  /\ child' = [child EXCEPT ![id] = IF @.nested THEN [@ EXCEPT !.is = "unknown"] ELSE Unknown]
  /\ UNCHANGED << held, task, due, pc, up, inbox, watcher >>

\* The coordinator ends: replies are dropped, and watchers leave the anchor.
CoordinatorGone ==
  /\ up
  /\ up' = FALSE
  /\ inbox' = << >>
  /\ child' = [i \in Ids |-> Unknown]
  /\ watcher' = [i \in Ids |-> IF watcher[i] = "waits" THEN "none" ELSE watcher[i]]
  /\ pc' = IF pc.at \in {"query", "unit"} THEN Idle ELSE pc
  /\ UNCHANGED << held, task, due >>

Tick(t) ==
  /\ t \in held \ due
  /\ due' = due \union {t}
  /\ UNCHANGED << held, task, pc, up, inbox, child, watcher >>

Init ==
  /\ held = {} /\ due = {}
  /\ task = [t \in Tasks |-> Blank]
  /\ pc = Idle
  /\ up = TRUE /\ inbox = << >>
  /\ child = [i \in Ids |-> Unknown]
  /\ watcher = [i \in Ids |-> "none"]

Commands ==
  \E t \in Tasks : Delete(t) \/ (\E p \in Prompts : Create(t, p) \/ Update(t, p))

Answers == AnswerQuery \/ AnswerUnit

Advances == TimeOut \/ Restore \/ (\E id \in Ids : Spawn(id) \/ SpawnRefused(id))

Fires == \E t \in Tasks : Fire(t)

Watches == \E id \in Ids : Watch(id)

Admits == \E ok \in BOOLEAN : Admit(ok)

Ends == \E id \in Ids : NestedEnd(id) \/ (\E ok \in BOOLEAN : End(id, ok))

Next ==
  \/ Commands \/ Fires \/ Answers \/ Advances \/ Watches
  \/ Admits \/ Ends \/ CoordinatorGone
  \/ \E id \in Ids : Nest(id) \/ Forget(id)
  \/ \E t \in Tasks : Tick(t)

Spec == Init /\ [][Next]_vars

(***************************************************************************)
(* The actor, the coordinator and the watchers are tasks that run when     *)
(* they can; intervals elapse; children and their descendants end (they    *)
(* have budgets).  The coordinator does not always take more than the 10   *)
(* seconds that the actor grants it.  Forgetting is fair because fresh ids *)
(* never run out in the code, and here they are few.                       *)
(***************************************************************************)
LiveSpec ==
  /\ Spec
  /\ WF_vars(Advances) /\ WF_vars(Admits) /\ WF_vars(Watches)
  /\ \A t \in Tasks : WF_vars(Tick(t)) /\ SF_vars(Fire(t))
  /\ \A id \in Ids : WF_vars(NestedEnd(id)) /\ WF_vars(\E ok \in BOOLEAN : End(id, ok))
  /\ \A id \in Ids : WF_vars(Forget(id))
  /\ SF_vars(AnswerQuery) /\ SF_vars(AnswerUnit)

-----------------------------------------------------------------------------
(***************************************************************************)
(* Properties.                                                             *)
(***************************************************************************)
Record == [anchor : Ids \union {None}, iterations : 0..FreshEvery, reset : BOOLEAN,
           prompt : Prompts \union {None}]

Reading == [at : {"idle", "query", "unit", "spawn", "restore"}, task : Tasks \union {None},
            saw : Record, usable : BOOLEAN]

Message == [kind : {"query", "unit", "spawn"}, id : Ids, task : Tasks]

Iteration == [is : {"unknown", "sent", "live", "done", "failed"}, of : Tasks \union {None},
              job : Prompts \union {None}, resumed : Prompts \union {None}, depth : Nat,
              nested : BOOLEAN, bad : BOOLEAN]

\* The type of the state; it bounds the iterations counter.
TypeOK ==
  /\ held \subseteq Tasks /\ due \subseteq held
  /\ task \in [Tasks -> Record]
  /\ pc \in Reading
  /\ up \in BOOLEAN
  /\ inbox \in Seq(Message)
  /\ child \in [Ids -> Iteration]
  /\ watcher \in [Ids -> {"none", "waits", "error"}]

\* Two iterations of a task never overlap, although answers time out, prompts
\* change while an iteration runs, spawns fail and watchers come late.
OneIteration ==
  \A i, j \in Ids : (InFlight(i) /\ InFlight(j) /\ child[i].of = child[j].of) => i = j

\* The iteration in flight is the one the record points at, so that the next fire
\* asks about it: no watcher of an older iteration and no update takes it away.
InFlightIsAnchor ==
  \A i \in Ids : (InFlight(i) /\ child[i].of \in held) => task[child[i].of].anchor = i

\* The guard of a loop: one iteration at a time, and the record knows which.
LoopGuarded == OneIteration /\ InFlightIsAnchor

\* An iteration resumes only a transcript of its own prompt: the reset that a new
\* prompt asks for survives updates, skipped fires and aborted spawns.
ResumesOwnJob ==
  \A i \in Ids : child[i].resumed \in {None, child[i].job}

\* A transcript is never longer than LOOP_FRESH_CHAIN_EVERY iterations.
ChainBounded == \A i \in Ids : child[i].depth <= FreshEvery

\* A chain of transcripts is of one job and of bounded length.
ChainOfOneJob == ResumesOwnJob /\ ChainBounded

Members(t) == {i \in Ids : child[i].of = t /\ (InFlight(i) \/ child[i].nested)}

\* A fire whose predecessor ended well waits for the descendants too: work of two
\* iterations overlaps only if one of them failed.  (That it is the one left
\* behind, OthersFailed below: its watcher has cleared the anchor, and then
\* nothing is asked.)
OverlapOnlyAfterFailure ==
  \A t \in Tasks : \A i, j \in Members(t) :
    i # j => \E k \in {i, j} : child[k].bad

\* "Skipping loop fire: a descendant of the previous iteration is still running"
\* (actor.rs), and the test descendant_still_running_skips_fire.
DescendantsSkipFire == \A t \in Tasks : Cardinality(Members(t)) <= 1

\* A loop is not stuck on a dead iteration: if its coordinator stays, the anchor
\* moves on.
LoopGoesOn ==
  \A t \in Tasks : \A i \in Ids :
    (t \in held /\ task[t].anchor = i /\ ~InFlight(i))
      ~> (t \notin held \/ ~up \/ task[t].anchor # i)

-----------------------------------------------------------------------------
(***************************************************************************)
(* The strengthening behind LoopGuarded, ChainOfOneJob and                 *)
(* OverlapOnlyAfterFailure.                                                *)
(***************************************************************************)
\* A task that is there, or has iterations, has its prompt, and a name is not used again.
TasksKnown ==
  /\ \A t \in held : task[t].prompt # None
  /\ \A i \in Ids : child[i].of # None => task[child[i].of].prompt # None

\* The spawns in the channel are the children that were sent, each once; behind them is at
\* most the question that the actor waits on.
InboxKept ==
  /\ \A k \in DOMAIN inbox :
       IF inbox[k].kind = "spawn" THEN child[inbox[k].id].is = "sent"
       ELSE k = Len(inbox) /\ inbox[k].kind = pc.at /\ inbox[k].id = pc.saw.anchor
  /\ \A j, k \in DOMAIN inbox :
       inbox[j].kind = "spawn" /\ inbox[k].kind = "spawn" /\ inbox[j].id = inbox[k].id => j = k
  /\ pc.at \in {"query", "unit"} => inbox # << >> /\ Last(inbox).kind = pc.at

\* A watcher that will clear an anchor is that of an iteration that failed.
WatchersKept ==
  /\ \A i \in Ids : InFlight(i) => watcher[i] = "waits" /\ ~child[i].bad
  /\ \A i \in Ids : watcher[i] = "error" => child[i].bad \/ child[i] = Unknown

\* What the actor read before it awaits is what the record says, unless a watcher has cleared
\* the anchor.
ReadingKept ==
  pc.at # "idle" =>
    /\ pc.task \in held /\ pc.saw.prompt = task[pc.task].prompt
    /\ pc.at # "restore" =>
         /\ task[pc.task].anchor \in {pc.saw.anchor, None}
         /\ task[pc.task].anchor # None \/ pc.saw.anchor = None => task[pc.task] = pc.saw

\* What may be resumed is of the record's own prompt and not longer than its counter says.
Chained(r) ==
  r.anchor # None /\ ~r.reset =>
    child[r.anchor].job \in {None, r.prompt} /\ child[r.anchor].depth <= r.iterations

ChainsKept == (\A t \in held : Chained(task[t])) /\ (pc.at # "idle" => Chained(pc.saw))

\* Once the question is answered nothing of the task is in flight, and once both are only
\* descendants of failed iterations are left.
AnswersHold ==
  /\ pc.at \in {"unit", "spawn", "restore"} =>
       \A i \in Ids : child[i].of = pc.task => ~InFlight(i)
  /\ pc.at \in {"spawn", "restore"} => \A i \in Members(pc.task) : child[i].bad

\* Work that is not of the iteration the record points at is of failed ones.
OthersFailed ==
  \A t \in held : \A i \in Members(t) : i # task[t].anchor => child[i].bad

LoopsInv ==
  /\ TypeOK /\ TasksKnown /\ InboxKept /\ WatchersKept /\ ReadingKept /\ ChainsKept
  /\ AnswersHold /\ OthersFailed
  /\ LoopGuarded /\ ChainOfOneJob /\ OverlapOnlyAfterFailure
=============================================================================
