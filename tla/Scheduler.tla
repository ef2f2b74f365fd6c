----------------------------- MODULE Scheduler -----------------------------
(***************************************************************************)
(* The scheduler actor of xai-grok-tools (grok_build/scheduler): the tasks *)
(* of a session, the version that is stamped on every change, and the two  *)
(* durable stores a removal has to reach: the resources file, written by   *)
(* the background writer of persistence.rs, and the session log, which the *)
(* notification bridge of the shell feeds: it hands every update to the    *)
(* session's persistence actor, and that appends them in order.            *)
(*                                                                         *)
(* The actor handles one command or one fire at a time, but a removal      *)
(* awaits the writer and then the bridge, each for at most 30 seconds.     *)
(* Meanwhile tool calls enqueue snapshots, the writer and the bridge work  *)
(* on their queues, time passes, the session is cancelled and the process  *)
(* crashes.  The writer and the bridge answer late, with an error or not   *)
(* at all.                                                                 *)
(*                                                                         *)
(* Of a loop's fire only what it does to the version and to the log is     *)
(* here; SchedulerLoops has the rest.  Of a snapshot of the resources only *)
(* its tasks are kept, of the log only which tasks it shows and which      *)
(* tombstones it has.                                                      *)
(***************************************************************************)
EXTENDS Integers, Sequences, SequencesExt

CONSTANTS
  Tasks,              \* task ids: random, so a removed id never comes back
  Durable,            \* task.durable
  OneShot,            \* ~task.recurring
  None,               \* no task, no snapshot, no removal
  Populations,        \* the sets of tasks that are created in one behaviour
  MaxTasks,           \* MAX_SCHEDULED_TASKS
  MaxRevision,        \* u64::MAX
  MaxGenerations,     \* bound: uuids of generations
  MaxSaves,           \* bound: commands in the channel of the writer
  MaxEvents           \* bound: notifications on the way to the log

ASSUME SchedulerAssumption ==
  /\ Durable \subseteq Tasks
  /\ OneShot \subseteq Tasks
  /\ None \notin Tasks
  /\ Populations \subseteq SUBSET Tasks
  /\ MaxTasks \in Nat
  /\ MaxRevision \in Nat
  /\ MaxTasks <= MaxRevision /\ 2 <= MaxRevision
  /\ MaxGenerations \in Nat \ {0}
  /\ MaxSaves \in Nat
  /\ MaxEvents \in Nat

VARIABLES
  tasks,              \* SchedulerState.tasks, in the resources
  due,                \* the tasks with next_fire_at() <= now
  expired,            \* the tasks with is_expired(now)
  unborn,             \* the ids not created yet
  clock,              \* the version of the last change
  generations,        \* how many generations have been drawn
  pending,            \* pending_removal
  blocked,            \* blocked_expiries
  pc,                 \* what the actor awaits
  cancelled,          \* cancel_token
  open,               \* an acknowledging target is alive
  saves,              \* the channel of the writer
  debounced,          \* the writer's pending snapshot
  disk,               \* the tasks in the resources file
  events,             \* the channels of the bridge and of the persistence actor behind it
  shown,              \* the tasks the session log shows
  tombstones,         \* the tasks whose acknowledged removal is in the log
  deleted,            \* history: the tasks whose Delete was answered Ok(true)
  unsettled           \* history: the tasks whose removal was given up or lost

actor  == << tasks, clock, generations, pending, blocked >>
world  == << due, expired, unborn, cancelled >>
writer == << saves, debounced, disk >>
bridge == << open, events, shown, tombstones >>
ghosts == << deleted, unsettled >>
vars   == << actor, world, pc, writer, bridge, ghosts >>

-----------------------------------------------------------------------------
(***************************************************************************)
(* Versions (types.rs).                                                    *)
(***************************************************************************)
Version == [gen : 1..MaxGenerations, rev : 0..MaxRevision]

Reservation == [source : Version, gen : 1..MaxGenerations, next : Nat, rollover : BOOLEAN]

Older(v, w) == v.gen < w.gen \/ (v.gen = w.gen /\ v.rev < w.rev)

Overflows(count) == clock.rev + count > MaxRevision

\* Drawing a new generation is the only use of uuids that the bound counts.
MayReserve(count) == Overflows(count) => generations < MaxGenerations

\* prepare_transition
PrepareTransition(count) ==
  [source |-> clock,
   gen |-> IF Overflows(count) THEN generations + 1 ELSE clock.gen,
   next |-> IF Overflows(count) THEN 1 ELSE clock.rev + 1,
   rollover |-> Overflows(count)]

\* The uuid a reservation has drawn.
Draw(count) == generations' = IF Overflows(count) THEN generations + 1 ELSE generations

VersionAt(r, offset) == [gen |-> r.gen, rev |-> r.next + offset]

\* The version that the assertion of commit_next wants to find.
ExpectedSource(r) == IF r.rollover THEN r.source ELSE [gen |-> r.gen, rev |-> r.next - 1]

-----------------------------------------------------------------------------
(***************************************************************************)
(* What the actor sends, and what it awaits.                               *)
(***************************************************************************)

\* A notification, and a removal that is to be acknowledged; `awaited' is TRUE
\* as long as the actor holds the receipt.
Notice(kind, t, v) == [kind |-> kind, task |-> t, version |-> v, awaited |-> FALSE]

Tombstone(t, v) == [kind |-> "tombstone", task |-> t, version |-> v, awaited |-> TRUE]

\* ToolNotificationHandle::send: a closed target swallows it.
Send(notices) == events' = IF open THEN events \o notices ELSE events

\* A command of the writer's channel.
SaveCmd(snapshot) == [op |-> "save", snapshot |-> snapshot, awaited |-> FALSE]
SaveAndFlushCmd(snapshot) == [op |-> "flush", snapshot |-> snapshot, awaited |-> TRUE]

\* What the actor does not listen for any more.
Unheard(queue) == [i \in DOMAIN queue |-> [queue[i] EXCEPT !.awaited = FALSE]]

Idle == [at |-> "idle", task |-> None, index |-> 0, reservation |-> None]

At(where) == pc.at = where

Running == pc.at \notin {"stopped", "crashed"}

\* The select of run(), biased to cancellation.  The bound: the actor takes up
\* something new only while the bridge is not far behind.
Selects == At("idle") /\ ~cancelled /\ Len(events) < MaxEvents

Held == Range(tasks)

-----------------------------------------------------------------------------
(***************************************************************************)
(* Commands.                                                               *)
(***************************************************************************)

\* Mutant: a change is accepted while a removal is pending.
Accepts_Always == Selects

\* Create and Update are refused while a removal is pending.
Accepts == Selects /\ pending = None

Create(t) ==
  /\ Accepts
  /\ t \in unborn
  /\ Len(tasks) < MaxTasks
  /\ MayReserve(1)
  /\ unborn' = unborn \ {t}
  /\ tasks' = Append(tasks, t)
  /\ clock' = VersionAt(PrepareTransition(1), 0)
  /\ Draw(1)
  /\ Send(<< Notice("created", t, clock') >>)
  /\ UNCHANGED << due, expired, pending, blocked, pc, cancelled, open, writer, shown,
                  tombstones, ghosts >>

\* A new interval never leaves the task due: if it would, last_fired_at moves.
Update(t, interval) ==
  /\ Accepts
  /\ t \in Held
  /\ MayReserve(1)
  /\ due' = IF interval THEN due \ {t} ELSE due
  /\ clock' = VersionAt(PrepareTransition(1), 0)
  /\ Draw(1)
  /\ Send(<< Notice("created", t, clock') >>)
  /\ UNCHANGED << tasks, expired, unborn, pending, blocked, pc, cancelled, open, writer, shown,
                  tombstones, ghosts >>

\* complete_pending_removal up to its first await.
AwaitPersistence(left) ==
  /\ saves' = Append(saves, SaveAndFlushCmd(left))
  /\ pc' = [Idle EXCEPT !.at = "persist"]

\* Delete of a task that is held.  Without a durable target it is refused.
Delete(t) ==
  /\ Selects
  /\ pending = None
  /\ open
  /\ MayReserve(1)
  /\ Len(saves) < MaxSaves
  /\ \E i \in DOMAIN tasks : tasks[i] = t /\ tasks' = RemoveAt(tasks, i)
  /\ pending' = [task |-> t, reservation |-> PrepareTransition(1)]
  /\ Draw(1)
  /\ AwaitPersistence(tasks')
  /\ UNCHANGED << due, expired, unborn, clock, blocked, cancelled, debounced, disk, bridge,
                  ghosts >>

\* Delete of the task whose removal is pending tries again, under the version
\* that is reserved for it.
RetryDelete ==
  /\ Selects
  /\ pending # None
  /\ open
  /\ Len(saves) < MaxSaves
  /\ AwaitPersistence(tasks)
  /\ UNCHANGED << actor, world, debounced, disk, bridge, ghosts >>

\* The targets are gone for good: the reservation is dropped.
AbandonDelete ==
  /\ Selects
  /\ pending # None
  /\ ~open
  /\ pending' = None
  /\ UNCHANGED << tasks, clock, generations, blocked, world, pc, writer, bridge, ghosts >>

-----------------------------------------------------------------------------
(***************************************************************************)
(* The awaits of a removal.                                                *)
(***************************************************************************)

\* publish_durable_removal up to its await; a closed target is an error.
Publish(t, v) == Send(<< Tombstone(t, v) >>)

\* The durable save succeeded: the tombstone of the pending removal goes out.
DeletePersisted ==
  /\ At("persisted")
  /\ LET v == VersionAt(pending.reservation, 0)
     IN  Publish(pending.task, v)
  /\ pc' = IF open THEN [Idle EXCEPT !.at = "publish"] ELSE Idle
  /\ UNCHANGED << actor, world, writer, open, shown, tombstones, ghosts >>

\* The tombstone is acknowledged: the reservation is committed.
DeletePublished ==
  /\ At("published")
  /\ deleted' = deleted \union {pending.task}
  /\ unsettled' = unsettled
  /\ clock' = VersionAt(pending.reservation, 0)
  /\ pending' = None
  /\ pc' = Idle
  /\ UNCHANGED << tasks, generations, blocked, world, writer, bridge >>

\* The durable save of an expiry is acknowledged.
ExpiryPersisted ==
  /\ At("expiry persisted")
  /\ Publish(pc.task, VersionAt(pc.reservation, 0))
  /\ pc' = IF open THEN [pc EXCEPT !.at = "expiry publish"] ELSE Idle
  /\ UNCHANGED << actor, world, writer, open, shown, tombstones, ghosts >>

ExpiryPublished ==
  /\ At("expiry published")
  /\ clock' = VersionAt(pc.reservation, 0)
  /\ pc' = Idle
  /\ UNCHANGED << tasks, generations, pending, blocked, world, writer, bridge, ghosts >>

\* Mutant: the task whose expiry was not saved is not put back.
ExpiryNotCommitted_Lost ==
  /\ At("expiry failed")
  /\ blocked' = blocked \union {pc.task}
  /\ pc' = Idle
  /\ UNCHANGED << tasks, clock, generations, pending, world, writer, bridge, ghosts >>

\* ExpiryPersistenceOutcome::NotCommitted
ExpiryNotCommitted ==
  /\ At("expiry failed")
  /\ tasks' = InsertAt(tasks, pc.index, pc.task)
  /\ blocked' = blocked \union {pc.task}
  /\ pc' = Idle
  /\ UNCHANGED << clock, generations, pending, world, writer, bridge, ghosts >>

\* Mutant: an await without a timeout.
GiveUp_NoTimeout ==
  /\ At("failed")
  /\ pc' = Idle
  /\ unsettled' = unsettled \union ({pc.task} \ {None})
  /\ UNCHANGED << actor, world, writer, bridge, deleted >>

\* Any other error of an await: the timeout, the token, a receipt that is
\* dropped or rejected.  A pending removal stays pending, and a task whose
\* expiry is under way stays absent.
GiveUp ==
  /\ pc.at \in {"persist", "publish", "expiry persist", "expiry publish", "failed"}
  /\ pc' = Idle
  /\ saves' = Unheard(saves)
  /\ events' = Unheard(events)
  /\ unsettled' = unsettled \union ({pc.task} \ {None})
  /\ UNCHANGED << actor, world, debounced, disk, open, shown, tombstones, deleted >>

-----------------------------------------------------------------------------
(***************************************************************************)
(* Fires.                                                                  *)
(***************************************************************************)

\* Mutant: the timer runs while a removal is pending.
TimerRuns_Always == Selects
TimerRuns == Selects /\ pending = None

\* The first task that is due and not blocked.
Fires(i) ==
  /\ TimerRuns
  /\ i \in DOMAIN tasks
  /\ tasks[i] \in due \ blocked
  /\ \A j \in 1..(i - 1) : tasks[j] \notin due \ blocked

Expires(t) == t \in expired \ OneShot

\* A durable expiry without a durable target.
BlockExpiry(i) ==
  /\ Fires(i)
  /\ Expires(tasks[i]) /\ tasks[i] \in Durable /\ ~open
  /\ blocked' = blocked \union {tasks[i]}
  /\ UNCHANGED << tasks, clock, generations, pending, world, pc, writer, bridge, ghosts >>

ExpireDurable(i) ==
  /\ Fires(i)
  /\ Expires(tasks[i]) /\ tasks[i] \in Durable /\ open
  /\ MayReserve(1)
  /\ Len(saves) < MaxSaves
  /\ Draw(1)
  /\ tasks' = RemoveAt(tasks, i)
  /\ saves' = Append(saves, SaveAndFlushCmd(tasks'))
  /\ pc' = [at |-> "expiry persist", task |-> tasks[i], index |-> i,
            reservation |-> PrepareTransition(1)]
  /\ UNCHANGED << clock, pending, blocked, world, debounced, disk, bridge, ghosts >>

ExpireSessionOnly(i) ==
  /\ Fires(i)
  /\ Expires(tasks[i]) /\ tasks[i] \notin Durable
  /\ MayReserve(1)
  /\ Draw(1)
  /\ tasks' = RemoveAt(tasks, i)
  /\ clock' = VersionAt(PrepareTransition(1), 0)
  /\ Send(<< Notice("removed", tasks[i], clock') >>)
  /\ UNCHANGED << pending, blocked, world, pc, writer, open, shown, tombstones, ghosts >>

\* A recurring task fires, in the foreground or as a subagent.
FireRecurring(i) ==
  /\ Fires(i)
  /\ ~Expires(tasks[i]) /\ tasks[i] \notin OneShot
  /\ MayReserve(1)
  /\ Draw(1)
  /\ due' = due \ {tasks[i]}
  /\ clock' = VersionAt(PrepareTransition(1), 0)
  /\ Send(<< Notice("fired", tasks[i], clock') >>)
  /\ UNCHANGED << tasks, expired, unborn, pending, blocked, cancelled, pc, writer, open, shown,
                  tombstones, ghosts >>

\* LoopFireOutcome::Skipped: announced again, under the current version.  The
\* uuid of a reservation that is dropped is lost.
SkipRecurring(i) ==
  /\ Fires(i)
  /\ ~Expires(tasks[i]) /\ tasks[i] \notin OneShot
  /\ due' = due \ {tasks[i]}
  /\ Send(<< Notice("created", tasks[i], clock) >>)
  /\ UNCHANGED << actor, expired, unborn, cancelled, pc, writer, open, shown, tombstones, ghosts >>

FireOneShot(i) ==
  /\ Fires(i)
  /\ tasks[i] \in OneShot
  /\ MayReserve(2)
  /\ Draw(2)
  /\ tasks' = RemoveAt(tasks, i)
  /\ due' = due \ {tasks[i]}
  /\ LET r == PrepareTransition(2)
     IN  /\ clock' = VersionAt(r, 1)
         /\ Send(<< Notice("fired", tasks[i], VersionAt(r, 0)),
                    Notice("removed", tasks[i], VersionAt(r, 1)) >>)
  /\ UNCHANGED << expired, unborn, pending, blocked, cancelled, pc, writer, open, shown,
                  tombstones, ghosts >>

\* The end of run(): a removal for every task that is left.
Shutdown ==
  /\ At("idle")
  /\ cancelled
  /\ pc' = [Idle EXCEPT !.at = "stopped"]
  /\ IF tasks = << >>
     THEN UNCHANGED << clock, generations, events >>
     ELSE /\ MayReserve(Len(tasks))
          /\ Draw(Len(tasks))
          /\ LET r == PrepareTransition(Len(tasks))
             IN  /\ clock' = VersionAt(r, Len(tasks) - 1)
                 /\ Send([k \in DOMAIN tasks |-> Notice("removed", tasks[k], VersionAt(r, k - 1))])
  /\ UNCHANGED << tasks, pending, blocked, world, writer, open, shown, tombstones, ghosts >>

-----------------------------------------------------------------------------
(***************************************************************************)
(* The writer of the resources file (persistence.rs).                      *)
(***************************************************************************)

\* A tool call has ended: the resources are saved, whatever the tool.
ToolSave ==
  /\ Running
  /\ Len(saves) < MaxSaves
  /\ saves' = Append(saves, SaveCmd(tasks))
  /\ UNCHANGED << actor, world, pc, debounced, disk, bridge, ghosts >>

WriterSave ==
  /\ saves # << >>
  /\ Head(saves).op = "save"
  /\ debounced' = Head(saves).snapshot
  /\ saves' = Tail(saves)
  /\ UNCHANGED << actor, world, pc, disk, bridge, ghosts >>

\* The tick of the debounce, or a Flush command; a write that fails is logged.
WriterTick(ok) ==
  /\ debounced # None
  /\ disk' = IF ok THEN debounced ELSE disk
  /\ debounced' = None
  /\ UNCHANGED << actor, world, pc, saves, bridge, ghosts >>

\* What the actor makes of the writer's answer.
Answered(cmd, ok) ==
  CASE ~cmd.awaited                           -> pc
    [] cmd.awaited /\ At("persist") /\ ok     -> [pc EXCEPT !.at = "persisted"]
    [] cmd.awaited /\ At("persist") /\ ~ok    -> [pc EXCEPT !.at = "failed"]
    [] cmd.awaited /\ At("expiry persist") /\ ok  -> [pc EXCEPT !.at = "expiry persisted"]
    [] cmd.awaited /\ At("expiry persist") /\ ~ok -> [pc EXCEPT !.at = "expiry failed"]

\* Mutant: the older debounced snapshot survives.
WriterFlush_KeepsPending(ok, replaced) ==
  /\ saves # << >>
  /\ Head(saves).op = "flush"
  /\ (ok => replaced)
  /\ disk' = IF replaced THEN Head(saves).snapshot ELSE disk
  /\ pc' = Answered(Head(saves), ok)
  /\ saves' = Tail(saves)
  /\ UNCHANGED << actor, world, debounced, bridge, ghosts >>

\* SaveAndFlush: write_json_durable.  If the sync of the directory fails, the
\* file has been replaced and the answer is an error all the same.
WriterFlush(ok, replaced) ==
  /\ saves # << >>
  /\ Head(saves).op = "flush"
  /\ (ok => replaced)
  /\ debounced' = None
  /\ disk' = IF replaced THEN Head(saves).snapshot ELSE disk
  /\ pc' = Answered(Head(saves), ok)
  /\ saves' = Tail(saves)
  /\ UNCHANGED << actor, world, bridge, ghosts >>

-----------------------------------------------------------------------------
(***************************************************************************)
(* The way to the session log: the bridge (notification_bridge.rs) hands   *)
(* on what it receives and the persistence actor (session/persistence.rs)  *)
(* appends it.  Both channels are FIFO, so one sequence stands for the two *)
(* and an update leaves it with the append.                                *)
(***************************************************************************)

\* The append of a notification that nobody awaits.
Forward ==
  /\ events # << >>
  /\ Head(events).kind # "tombstone"
  /\ LET e == Head(events)
     IN  shown' = CASE e.kind = "created" -> shown \union {e.task}
                    [] e.kind = "removed" -> shown \ {e.task}
                    [] OTHER              -> shown
  /\ events' = Tail(events)
  /\ UNCHANGED << actor, world, pc, writer, open, tombstones, ghosts >>

\* What the actor makes of the bridge's receipt.
Receipted(notice, ok) ==
  CASE ~notice.awaited                              -> pc
    [] notice.awaited /\ ~ok                        -> [pc EXCEPT !.at = "failed"]
    [] notice.awaited /\ ok /\ At("publish")        -> [pc EXCEPT !.at = "published"]
    [] notice.awaited /\ ok /\ At("expiry publish") -> [pc EXCEPT !.at = "expiry published"]

\* A removal that is acknowledged once it is in the log.  An error may leave
\* it out or in (AcknowledgementLost).
AppendDurably(ok, landed) ==
  /\ events # << >>
  /\ Head(events).kind = "tombstone"
  /\ (ok => landed)
  /\ LET t == Head(events).task
     IN  /\ shown' = IF landed THEN shown \ {t} ELSE shown
         /\ tombstones' = IF landed THEN tombstones \union {t} ELSE tombstones
  /\ events' = Tail(events)
  /\ pc' = Receipted(Head(events), ok)
  /\ UNCHANGED << actor, world, writer, open, ghosts >>

\* How many updates the bridge may have handed on: it waits for a tombstone.
HandedOn == {n \in 0..Len(events) : \A i \in 1..(n - 1) : events[i].kind # "tombstone"}

\* The bridge ends.  What it handed on will be appended, without a receipt; what is
\* in its own channel is lost.
CloseTarget ==
  /\ Running
  /\ open
  /\ open' = FALSE
  /\ \E n \in HandedOn : events' = Unheard(SubSeq(events, 1, n))
  /\ pc' = IF pc.at \in {"publish", "expiry publish"} THEN [pc EXCEPT !.at = "failed"] ELSE pc
  /\ UNCHANGED << actor, world, writer, shown, tombstones, ghosts >>

-----------------------------------------------------------------------------
(***************************************************************************)
(* Time, cancellation, crashes.                                            *)
(***************************************************************************)
Tick(t) ==
  /\ Running
  /\ t \in Held \ due
  /\ due' = due \union {t}
  /\ UNCHANGED << actor, expired, unborn, cancelled, pc, writer, bridge, ghosts >>

Expire(t) ==
  /\ Running
  /\ t \in Held \ (expired \union OneShot)
  /\ expired' = expired \union {t}
  /\ UNCHANGED << actor, due, unborn, cancelled, pc, writer, bridge, ghosts >>

Cancel ==
  /\ Running
  /\ ~cancelled
  /\ cancelled' = TRUE
  /\ UNCHANGED << actor, due, expired, unborn, pc, writer, bridge, ghosts >>

\* The process dies, with every channel in it.
Crash ==
  /\ pc.at # "crashed"
  /\ pc' = [Idle EXCEPT !.at = "crashed"]
  /\ saves' = << >>
  /\ debounced' = None
  /\ events' = << >>
  /\ open' = FALSE
  /\ UNCHANGED << actor, world, disk, shown, tombstones, ghosts >>

\* announce_existing_tasks: the places of the tasks that are announced, in order.  A
\* one-shot that is due already is not.
Announced(s, overdue) ==
  {places \in UNION {[1..n -> DOMAIN s] : n \in 0..Len(s)} :
     /\ \A j, k \in DOMAIN places : j < k => places[j] < places[k]
     /\ Range(places) = {i \in DOMAIN s : s[i] \notin OneShot \intersect overdue}}

\* The session is loaded again: a new actor over the tasks in the file.
Restart ==
  /\ At("crashed")
  /\ generations < MaxGenerations
  /\ generations' = generations + 1
  /\ clock' = [gen |-> generations + 1, rev |-> 0]
  /\ tasks' = disk
  /\ due' \in SUBSET Range(disk)
  /\ \E places \in Announced(disk, due') :
       events' = [k \in DOMAIN places |-> Notice("created", disk[places[k]], clock')]
  /\ pending' = None
  /\ blocked' = {}
  /\ open' = TRUE
  /\ cancelled' = FALSE
  /\ pc' = Idle
  /\ unsettled' = unsettled \union ((Held \union shown) \ Range(disk))
  /\ UNCHANGED << expired, unborn, writer, shown, tombstones, deleted >>

Init ==
  /\ tasks = << >> /\ due = {} /\ expired = {} /\ unborn \in Populations
  /\ clock = [gen |-> 1, rev |-> 0] /\ generations = 1
  /\ pending = None /\ blocked = {}
  /\ pc = Idle /\ cancelled = FALSE
  /\ saves = << >> /\ debounced = None /\ disk = << >>
  /\ open = TRUE /\ events = << >> /\ shown = {} /\ tombstones = {}
  /\ deleted = {} /\ unsettled = {}

Commands ==
  \/ \E t \in Tasks : Create(t) \/ Delete(t) \/ (\E interval \in BOOLEAN : Update(t, interval))
  \/ RetryDelete \/ AbandonDelete

Continues ==
  \/ DeletePersisted \/ DeletePublished
  \/ ExpiryPersisted \/ ExpiryPublished \/ ExpiryNotCommitted
  \/ GiveUp

Timer ==
  \E i \in 1..MaxTasks :
    \/ BlockExpiry(i) \/ ExpireDurable(i) \/ ExpireSessionOnly(i)
    \/ FireRecurring(i) \/ SkipRecurring(i) \/ FireOneShot(i)

Writes ==
  \/ ToolSave \/ WriterSave
  \/ \E ok \in BOOLEAN : WriterTick(ok)
  \/ \E ok, replaced \in BOOLEAN : WriterFlush(ok, replaced)

Forwards == Forward \/ (\E ok, landed \in BOOLEAN : AppendDurably(ok, landed))

Faults == CloseTarget \/ Cancel \/ Crash \/ Restart

Passes == \E t \in Tasks : Tick(t) \/ Expire(t)

Next ==
  \/ Commands \/ Continues \/ Timer \/ Shutdown
  \/ Writes \/ Forwards \/ Faults \/ Passes

Spec == Init /\ [][Next]_vars

(***************************************************************************)
(* Every await of the actor is under a timeout, so it is fair whatever the *)
(* writer and the bridge do.                                               *)
(***************************************************************************)
Fairness == WF_vars(Continues)

LiveSpec == Spec /\ Fairness

-----------------------------------------------------------------------------
(***************************************************************************)
(* Properties.                                                             *)
(***************************************************************************)
Snapshot == Seq(Tasks)

Where == {"idle", "persist", "persisted", "publish", "published", "failed",
          "expiry persist", "expiry persisted", "expiry publish", "expiry published",
          "expiry failed", "stopped", "crashed"}

\* The type of the state.
TypeOK ==
  /\ tasks \in Seq(Tasks) /\ Len(tasks) <= MaxTasks
  /\ due \subseteq Tasks /\ expired \subseteq Tasks \ OneShot /\ unborn \subseteq Tasks
  /\ clock \in Version /\ generations \in 1..MaxGenerations
  /\ pending \in [task : Tasks, reservation : Reservation] \union {None}
  /\ blocked \subseteq Tasks
  /\ pc \in [at : Where, task : Tasks \union {None}, index : 0..MaxTasks,
             reservation : Reservation \union {None}]
  /\ cancelled \in BOOLEAN /\ open \in BOOLEAN
  /\ saves \in Seq([op : {"save", "flush"}, snapshot : Snapshot, awaited : BOOLEAN])
  /\ debounced \in Snapshot \union {None} /\ disk \in Snapshot
  /\ events \in Seq([kind : {"created", "fired", "removed", "tombstone"}, task : Tasks,
                     version : Version, awaited : BOOLEAN])
  /\ shown \subseteq Tasks /\ tombstones \subseteq Tasks /\ deleted \subseteq Tasks
  /\ unsettled \subseteq Tasks

\* The assertion of commit_next ("stale scheduler reservation", types.rs) never
\* fails: whatever happens while a reservation waits for the writer, for the
\* bridge or for the next retry, the clock is still where it was reserved from.
NoStaleReservation ==
  Running =>
    /\ pending # None => clock = ExpectedSource(pending.reservation)
    /\ pc.reservation # None => clock = ExpectedSource(pc.reservation)

\* A task whose acknowledged tombstone is in the session log is gone for good: it
\* is neither held nor in the file that the next start loads, whichever step a
\* crash, a late write of an older snapshot or an error comes after.
TombstoneIsFinal == tombstones \intersect (Held \union Range(disk)) = {}

\* scheduler_delete answers true only for a removal that both stores hold, and it
\* stays so across crashes.
DeleteIsDurable ==
  /\ deleted \subseteq tombstones
  /\ deleted \intersect (Held \union Range(disk)) = {}

\* What was removed, and reported as removed, stays removed.
RemovalIsFinal == TombstoneIsFinal /\ DeleteIsDurable

\* Once all that is under way is appended, what the session log shows is what the actor
\* holds: a recurring task is never hidden, also after a restart, and a task is
\* shown in vain only if its removal was given up on, or lost in a crash.
LogAgrees ==
  (At("idle") /\ open /\ events = << >> /\ pending = None) =>
    /\ Held \ OneShot \subseteq shown
    /\ shown \subseteq Held \union unsettled

\* Versions only grow, and a rollover is a new generation: no two changes of the
\* tasks are stamped alike.
ClockAdvances == [][clock' # clock => Older(clock, clock')]_vars

\* What the actor sends is in the order of the versions, retries of a delete and
\* rollovers included.  The one exception is the tombstone of an expired task: if
\* its expiry is given up on, the version is never committed and is used again.
EventsInOrder ==
  \A i, j \in DOMAIN events :
    (i < j /\ (events[i].kind = "tombstone" => events[i].task \notin expired))
      => ~Older(events[j].version, events[i].version)

\* No command and no fire holds the actor for ever, though the writer and the
\* bridge may never answer: every await is bounded.
ActorReturns == ~At("idle") ~> pc.at \in {"idle", "stopped", "crashed"}

-----------------------------------------------------------------------------
(***************************************************************************)
(* The strengthening behind NoStaleReservation and RemovalIsFinal.         *)
(***************************************************************************)
Stamp    == [gen : Nat, rev : Nat]
Reserved == [source : Stamp, gen : Nat, next : Nat, rollover : BOOLEAN]
Removal  == [task : Tasks, reservation : Reserved]

ASSUME NoRemovalAssumption == None \notin Removal \union Reserved

\* The awaits of a delete and of an expiry.
Deleting == {"persist", "persisted", "publish", "published"}
Expiring == {"expiry persist", "expiry persisted", "expiry publish", "expiry published",
             "expiry failed"}

ActorTyped ==
  /\ clock \in Stamp /\ generations \in Nat
  /\ pending \in Removal \union {None}
  /\ pc \in [at : Where, task : Tasks \union {None}, index : Nat,
             reservation : Reserved \union {None}]

\* The actor awaits one removal at a time: the pending one, or an expiry, and then
\* none is pending.
OneRemoval ==
  /\ pc.at \in Deleting => pending \in Removal
  /\ pc.at \in Expiring => pending = None /\ pc.task \in Tasks /\ pc.reservation \in Reserved
  /\ pc.at \in Deleting \union {"idle", "stopped", "crashed"} => pc.reservation = None

\* There is at most one answer the actor waits for, and it is the one of its await.
NoneAwaited(queue) == \A i \in DOMAIN queue : ~queue[i].awaited

OneAwaited(queue) ==
  /\ queue \in Seq({queue[i] : i \in DOMAIN queue})
  /\ \A i, j \in DOMAIN queue : queue[i].awaited /\ queue[j].awaited => i = j

\* Messages have their fields.
IsSave(x) == x = [op |-> x.op, snapshot |-> x.snapshot, awaited |-> x.awaited]
IsEvent(x) == x = [kind |-> x.kind, task |-> x.task, version |-> x.version, awaited |-> x.awaited]

AnswersHeard ==
  /\ \A i \in DOMAIN saves : IsSave(saves[i])
  /\ \A i \in DOMAIN events : IsEvent(events[i])
  /\ OneAwaited(saves) /\ (pc.at \notin {"persist", "expiry persist"} => NoneAwaited(saves))
  /\ OneAwaited(events) /\ (pc.at \notin {"publish", "expiry publish"} => NoneAwaited(events))

ReservationInv == ActorTyped /\ OneRemoval /\ AnswersHeard /\ NoStaleReservation

\* The task whose removal the actor awaits, and where its absence is saved.
Departing == IF pc.at \in Deleting THEN pending.task ELSE pc.task

Settled == {"persisted", "publish", "published",
            "expiry persisted", "expiry publish", "expiry published"}

\* The tasks with a tombstone in the log or on the way to it, and the one whose
\* absence is saved and that gets its tombstone next.
Gone ==
  UNION {tombstones,
         {events[i].task : i \in {k \in DOMAIN events : events[k].kind = "tombstone"}},
         IF pc.at \in Settled THEN {Departing} ELSE {}}

\* A list of tasks, each of them once, none of which is gone or still to be created.
Clean(s) ==
  /\ s \in Seq(Tasks)
  /\ \A i, j \in DOMAIN s : s[i] = s[j] => i = j
  /\ \A i \in DOMAIN s : s[i] \notin Gone \union unborn

\* Every copy of the tasks is clean, wherever it waits to be written.
CopiesClean ==
  /\ Clean(tasks) /\ Clean(disk)
  /\ debounced # None => Clean(debounced)
  /\ \A i \in DOMAIN saves : Clean(saves[i].snapshot)
  /\ unborn \intersect Gone = {}

\* Neither the snapshot whose answer the actor waits for nor a later one has the task.
AbsentFrom(t, queue) ==
  \A i, j \in DOMAIN queue : queue[i].awaited /\ i <= j => t \notin Range(queue[j].snapshot)

\* The task that departs is not held, and will not be in the file once the save is done.
DepartingAbsent ==
  /\ pending # None => pending.task \notin Held \union unborn
  /\ pc.at \in Expiring => pc.task \notin Held \union unborn
  /\ pc.at \in {"expiry persist", "expiry failed"} =>
       pc.task \notin Gone /\ pc.index \in 1..(Len(tasks) + 1)
  /\ AbsentFrom(Departing, saves)

\* A tombstone that the actor awaits is the one of the departing task, and it is in the
\* log when the delete is answered.
TombstoneOfDeparting ==
  /\ \A i \in DOMAIN events :
       events[i].awaited => events[i].kind = "tombstone" /\ events[i].task = Departing
  /\ At("published") => pending.task \in tombstones
  /\ deleted \subseteq tombstones

RemovalInv == ReservationInv /\ CopiesClean /\ DepartingAbsent /\ TombstoneOfDeparting

-----------------------------------------------------------------------------
(***************************************************************************)
(* The strengthening behind EventsInOrder.                                 *)
(***************************************************************************)

\* A reservation outbids the clock that it was made from, and a rollover was needed.
Outbids(r) ==
  /\ r.gen <= generations
  /\ r.rollover => r.source.gen < r.gen /\ MaxRevision < r.source.rev + 1

VersionsDrawn ==
  /\ clock.gen <= generations
  /\ pending # None => Outbids(pending.reservation)
  /\ pc.reservation # None => Outbids(pc.reservation)

\* A tombstone of an expiry, whose version may never be committed.
Uncommitted(e) == e.kind = "tombstone" /\ e.task \in expired

\* A version that the clock has reached, or that is reserved for the pending removal.
Spent(v) ==
  \/ ~Older(clock, v)
  \/ pending # None /\ v = VersionAt(pending.reservation, 0)

VersionsSpent ==
  /\ \A i \in DOMAIN events : events[i].version \in Stamp
  /\ pc.at \in Expiring => pc.task \in expired
  /\ (Running /\ open) => \A i \in DOMAIN events : Uncommitted(events[i]) \/ Spent(events[i].version)

OrderInv == VersionsDrawn /\ VersionsSpent /\ EventsInOrder

-----------------------------------------------------------------------------
(***************************************************************************)
(* The strengthening behind LogAgrees.                                     *)
(***************************************************************************)

\* The tasks that the notifications under way will show, and the ones they will hide.
Told(kind) == {events[i].task : i \in {k \in DOMAIN events : events[k].kind = kind}}

\* A task whose expiry is not saved yet, and may be put back.
Returning == IF pc.at \in {"expiry persist", "expiry failed"} THEN {pc.task} ELSE {}

\* The tasks whose removal the actor has still to finish.
Owed == (IF pending # None THEN {pending.task} ELSE {}) \union ({pc.task} \ {None})

\* No task is shown again behind its removal.
NoReturn ==
  \A i, j \in DOMAIN events :
    i < j /\ events[i].kind \in {"removed", "tombstone"} /\ events[j].kind = "created"
      => events[i].task # events[j].task

\* A recurring task that is held is shown or about to be, and about to be hidden only
\* when it is not held.
NothingHidden ==
  /\ (Held \union Returning) \ OneShot \subseteq shown \union Told("created")
  /\ Told("removed") \intersect UNION {Held, Returning, unborn} = {}

\* What is shown and not held will be hidden, or its removal is not finished or given up.
NothingInVain ==
  /\ shown \union Told("created") \subseteq UNION {Held, unsettled, Owed, Told("removed")}
  /\ At("published") => pending.task \notin shown \union Told("created")
  /\ At("expiry published") => pc.task \notin shown \union Told("created")
  /\ pc.at \in Deleting \union {"idle"} => pc.task = None

LogInv == (open /\ ~At("stopped")) => NoReturn /\ NothingHidden /\ NothingInVain
=============================================================================
