------------------------ MODULE SubagentCoordinator ------------------------
(***************************************************************************)
(* The subagent coordinator of xai-grok-tools (grok_build/task): the actor *)
(* that owns the lifecycle of every subagent of every session.  It admits  *)
(* or queues spawns, starts children, answers blocking queries, cancels,   *)
(* tears sessions down, and decides who hears of a completion.             *)
(*                                                                         *)
(* One iteration of the actor's select loop is one action.  A handler runs *)
(* several state-changing calls in a row (a command is preceded by a reap, *)
(* a completion is followed by a sweep of the queue, every iteration by an *)
(* eviction), so each call is an operator from state to state and an       *)
(* action is their composition.                                            *)
(*                                                                         *)
(* Concurrent with the actor are the callers, which may drop the receiver  *)
(* of their reply at any moment, the holders of the cancellation tokens,   *)
(* and the children, which start and end when they like.                   *)
(***************************************************************************)
EXTENDS Integers, FiniteSets

CONSTANTS
  Ids,                \* names of subagents; an evicted name may be used anew
  Roots,              \* top-level sessions
  Prompts,            \* parent_prompt_id of a request
  RunIds,             \* workflow runs
  Queries,            \* the response channels of Query and Inspect
  None,               \* absence of a session, an id or a scope
  Task,               \* SubagentOwner::Task
  MaxCompleted,       \* MAX_COMPLETED_ENTRIES
  MaxBuffered,        \* MAX_PENDING_COMPLETIONS
  Configs             \* the hosts the actor is started by

Kind == [owner : RunIds \union {Task}, prompt : Prompts, background : BOOLEAN,
         to_completion : BOOLEAN, surface : BOOLEAN]

\* What is settled when the actor starts: the limits (max_concurrent before it
\* is clamped), and of its host the sessions it has open, the requests its
\* callers make and the events that happen there.
Config == [max_concurrent : Nat, behavior : {"queue", "fail"},
           buffer_completions : BOOLEAN, sessions : SUBSET Roots,
           kinds : SUBSET Kind, events : SUBSET STRING]

ASSUME CoordinatorAssumption ==
  /\ IsFiniteSet(Ids)
  /\ Ids \intersect Roots = {}
  /\ None \notin Ids \union Roots
  /\ Task \notin RunIds
  /\ MaxCompleted \in Nat
  /\ MaxBuffered \in Nat
  /\ Configs \subseteq Config

VARIABLE co           \* the state of the actor and of its peers

\* The configuration does not change while the actor runs.
MaxConcurrent == co.config.max_concurrent
OnLimit == co.config.behavior
BufferCompletions == co.config.buffer_completions
Hosted == co.config.sessions
Kinds == co.config.kinds
Events == co.config.events

\* A subagent's own session has the subagent's id.
Sessions == Roots \union Ids

\* A request as the actor holds it; root is the top-level session it descends
\* from (history: no step reads it).
Request == [session : Sessions \union {None}, root : Roots \union {None},
            owner : RunIds \union {Task}, prompt : Prompts \union {None},
            background : BOOLEAN, to_completion : BOOLEAN, surface : BOOLEAN]

Blank == [session |-> None, root |-> None, owner |-> Task, prompt |-> None,
          background |-> FALSE, to_completion |-> FALSE, surface |-> FALSE]

\* What has become of the receiver of a spawn's result.
Caller == {"none", "waiting", "gone", "handed", "final", "closed"}

-----------------------------------------------------------------------------
(***************************************************************************)
(* A FIFO without duplicates: its members, and for each the ones ahead.    *)
(***************************************************************************)
Line == [has : SUBSET Ids, ahead : [Ids -> SUBSET Ids]]

EmptyLine == [has |-> {}, ahead |-> [i \in Ids |-> {}]]

\* The members of R go to the back, in the order `ahead' gives them.
Behind(line, R, ahead) ==
  [has   |-> line.has \union R,
   ahead |-> [i \in Ids |-> IF i \in R THEN line.has \union (ahead[i] \intersect R)
                                       ELSE line.ahead[i]]]

Without(line, R) ==
  [has   |-> line.has \ R,
   ahead |-> [i \in Ids |-> IF i \in R THEN {} ELSE line.ahead[i] \ R]]

\* The members of a line of more than n that are dropped to leave n.
Oldest(line, n) ==
  {i \in line.has : Cardinality(line.ahead[i]) < Cardinality(line.has) - n}

-----------------------------------------------------------------------------
(***************************************************************************)
(* Reading the state.                                                      *)
(***************************************************************************)
IsWorkflow(r) == r.owner # Task

AwaitsInForeground(r) == ~r.background /\ ~r.to_completion

BelongsToSession(r, scope) == scope = None \/ r.session = scope

\* The ids with a record and a run future, and all that are not finished.
Started(s) == s.pending \union s.active
Live(s)    == Started(s) \union s.queue.has

SessionRunning(s, p) ==
  {i \in Started(s) : s.req[i].session = p /\ ~IsWorkflow(s.req[i])}

SessionHasChildren(s, p) == \E i \in Live(s) : s.req[i].session = p

WorkflowOutstanding(s, run) == {i \in Started(s) : s.req[i].owner = run}

Limit == IF MaxConcurrent = 0 THEN 1 ELSE MaxConcurrent

HasCapacity(running) == running < Limit

-----------------------------------------------------------------------------
(***************************************************************************)
(* Starting and finishing children.                                        *)
(***************************************************************************)

\* Mutant: a dequeued spawn loses its await budget.
StartChild_NoBudget(s, R) ==
  [s EXCEPT !.pending = @ \union R,
            !.handle_only = @ \union {i \in R : s.req[i].background \/ i \notin s.reply},
            !.killed = @ \ R,
            !.deadline = @ \ (R \intersect s.queue.has)]

\* start_child, for the spawns in R: reply and deadline are already in place.
StartChild(s, R) ==
  [s EXCEPT !.pending = @ \union R,
            !.handle_only = @ \union {i \in R : s.req[i].background \/ i \notin s.reply},
            !.killed = @ \ R]

\* clear_teardown_drain
ClearTeardownDrain(s, P) == [s EXCEPT !.drains = @ \ P, !.blocked = @ \ P]

\* resolve_workflow_cancel_waiters and resolve_teardown_drain_waiters after
\* the children in R are gone.
ResolveWaiters(s, R) ==
  LET runs == {run \in s.run_waiters :
                 /\ \E i \in R : s.req[i].owner = run
                 /\ WorkflowOutstanding(s, run) = {}}
      sessions == {p \in s.drains :
                     /\ \E i \in R : s.req[i].session = p
                     /\ ~SessionHasChildren(s, p)}
  IN  ClearTeardownDrain([s EXCEPT !.run_waiters = @ \ runs], sessions)

\* The cap on pending_completions: the oldest go.
BufferPush(line, R, ahead) ==
  LET full == Behind(line, R, ahead)
  IN  Without(full, Oldest(full, MaxBuffered))

\* Mutant: handle_only as it was before the reply was tried.
ShouldSurface_Stale(s, R, fg, told, C) ==
  ({i \in R : s.req[i].surface} \intersect s.handle_only) \ (told \union C \union s.killed)

\* disposition.should_surface; by then handle_only is R without fg, the ones
\* whose foreground caller took the result.
ShouldSurface(s, R, fg, told, C) ==
  {i \in R : s.req[i].surface} \ (fg \union told \union C \union s.killed)

\* finish_child without its last call, for the children in R in the order
\* `ahead'; those in C report a cancelled result.
Conclude(s, R, ahead, C) ==
  LET asked == {q \in Queries : s.waiter[q] \in R}
      told  == {s.waiter[q] : q \in asked \ s.lost}
      sent  == {i \in R \intersect s.reply : s.caller[i] = "waiting"}
      fg    == sent \ s.handle_only
      kept  == {i \in R : s.req[i].surface /\ ~IsWorkflow(s.req[i])}
      t == [s EXCEPT
             !.pending = @ \ R,
             !.active = @ \ R,
             !.waiter = [q \in Queries |-> IF q \in asked THEN None ELSE @[q]],
             !.lost = @ \ asked,
             !.reply = @ \ R,
             !.deadline = @ \ R,
             !.caller = [i \in Ids |-> IF i \in sent THEN "final" ELSE @[i]],
             !.handle_only = @ \ R,
             !.buffer = IF BufferCompletions
                        THEN BufferPush(@, kept, ahead) ELSE @,
             !.told = @ \union told,
             !.surfaced = @ \union ShouldSurface(s, R, fg, told, C),
             !.aborted = @ \union C,
             !.done = Behind(@, R, ahead)]
  IN  ResolveWaiters(t, R)

\* finish_never_started: a spawn that never reached the runner takes the
\* same way out.
FinishNeverStarted(s, R, ahead, C) ==
  Conclude([s EXCEPT !.handle_only = (@ \ R) \union {i \in R : s.req[i].background},
                     !.killed = @ \ R],
           R, ahead, C)

\* finish_cancelled_queued
FinishCancelledQueued(s, R, ahead) ==
  FinishNeverStarted([s EXCEPT !.cancelled = @ \union R], R, ahead, R)

\* Mutant: last come, first served.
Starts_NewestFirst(s) ==
  LET fit == s.queue.has \ s.cancelled
      rivals(i) == {j \in fit : i \in s.queue.ahead[j] /\ s.req[j].session = s.req[i].session}
  IN  {i \in fit : HasCapacity(Cardinality(SessionRunning(s, s.req[i].session))
                               + Cardinality(rivals(i)))}

\* The entries the loop of start_queued_within_capacity starts.  It goes through
\* the queue in order and counts what it has itself started: the entries of the
\* same session ahead that are not cancelled take the free slots first.
Starts(s) ==
  LET fit == s.queue.has \ s.cancelled
      rivals(i) == {j \in s.queue.ahead[i] \intersect fit :
                      s.req[j].session = s.req[i].session}
  IN  {i \in fit : HasCapacity(Cardinality(SessionRunning(s, s.req[i].session))
                               + Cardinality(rivals(i)))}

\* start_queued_within_capacity.  Cancelled entries are finished after the loop,
\* under the latch that keeps their finish from sweeping again.
Sweep(s) ==
  LET dead == s.queue.has \intersect s.cancelled
      t == [StartChild(s, Starts(s)) EXCEPT !.queue = Without(@, Starts(s) \union dead)]
  IN  FinishCancelledQueued(t, dead, s.queue.ahead)

\* Mutant: the freed slot is not offered to the queue.
FinishChild_NoSweep(s, id, C) == Conclude(s, {id}, [i \in Ids |-> {}], C)

\* finish_child
FinishChild(s, id, C) == Sweep(Conclude(s, {id}, [i \in Ids |-> {}], C))

\* remove_queued: every entry it finishes also sweeps, but frees no slot.
RemoveQueued(s, R) ==
  IF R = {} THEN s
  ELSE Sweep(FinishCancelledQueued([s EXCEPT !.queue = Without(@, R)], R, s.queue.ahead))

-----------------------------------------------------------------------------
(***************************************************************************)
(* The reap before every command, and the eviction after every iteration.  *)
(***************************************************************************)

\* background_if_caller_gone: a workflow's child is cancelled, any other one
\* leaves the turn-blocking set.
CallerGone(s) ==
  {i \in Started(s) \intersect s.reply : i \notin s.handle_only /\ s.caller[i] = "gone"}

\* Mutant: callers that still wait are let go too.
CallerGoneQueued_All(s) == s.queue.has \intersect s.reply

\* The queued leg of the same sweep.
CallerGoneQueued(s) == {i \in s.queue.has \intersect s.reply : s.caller[i] = "gone"}

ReapCallers(s) ==
  LET workflow == {i \in CallerGone(s) : IsWorkflow(s.req[i])}
      background == (CallerGone(s) \ workflow) \union CallerGoneQueued(s)
  IN  [s EXCEPT !.reply = @ \ (workflow \union background),
                !.cancelled = @ \union workflow,
                !.handle_only = @ \union (background \intersect Started(s)),
                !.deadline = @ \ background]

\* Mutant: the tokens of queued spawns are not looked at.
Reap_KeepsCancelled(s) == ReapCallers(s)

\* reap_abandoned_callers
Reap(s) ==
  LET t == ReapCallers(s)
  IN  RemoveQueued(t, t.queue.has \intersect t.cancelled)

\* The actor keeps nothing of the evicted, but for a summary still buffered.
Forget(s, E) ==
  [s EXCEPT !.done = Without(@, E),
            !.req = [i \in Ids |-> IF i \in (Live(s) \union s.done.has \union s.buffer.has) \
                                          (E \ s.buffer.has)
                                   THEN @[i] ELSE Blank],
            !.caller = [i \in Ids |-> IF i \in E THEN "none" ELSE @[i]],
            !.cancelled = @ \ E, !.killed = @ \ E, !.handle_only = @ \ E,
            !.told = @ \ E, !.surfaced = @ \ E, !.aborted = @ \ E,
            !.ran = @ \ E, !.torn = @ \ E]

\* The last statement of the loop.
Trim(s) == Forget(s, Oldest(s.done, MaxCompleted))

-----------------------------------------------------------------------------
(***************************************************************************)
(* Commands.                                                               *)
(***************************************************************************)
Open == co.phase = "open"

Command(event) == Open /\ event \in Events

\* A name that may stand for a new subagent: nothing refers to an older one.
Unused(s, id) ==
  /\ id \notin Live(s) \union s.done.has \union s.buffer.has
  /\ \A q \in Queries : s.progress[q] # id
  /\ \A i \in Live(s) \union s.done.has : s.req[i].session # id
  /\ id \notin s.blocked

\* Nested spawns come from a subagent that has been started, be it still
\* active or already finished (its Task tool sends them from a detached task).
MaySpawn(s, session) == session \in Hosted \union s.ran

\* reparent_nested_spawn, for a spawner the actor finds among the active.
Reparent(s, session, kind) ==
  LET nested == session \in s.active
      spawner == s.req[session]
  IN  [session |-> IF nested THEN spawner.session ELSE session,
       root |-> IF session \in Roots THEN session ELSE spawner.root,
       owner |-> IF nested /\ kind.owner = Task THEN spawner.owner ELSE kind.owner,
       prompt |-> kind.prompt,
       background |-> kind.background,
       to_completion |-> kind.to_completion,
       surface |-> kind.surface /\ ~nested]

\* The command's own channel, and the await budget that starts with it.
Accept(s, id, r) ==
  [s EXCEPT !.req[id] = r,
            !.caller[id] = "waiting",
            !.reply = @ \union {id},
            !.deadline = IF AwaitsInForeground(r) THEN @ \union {id} ELSE @]

\* Mutant: an id that is queued or finished is not a duplicate.
Refused_LooksAtRuns(s, id, session, r) ==
  \/ session \in s.active \intersect s.cancelled
  \/ ~IsWorkflow(r) /\ r.session \in s.blocked
  \/ id \in Started(s)

\* The early returns of handle_spawn: a spawner that is being torn down, a
\* stopped session, an id that exists.
Refused(s, id, session, r) ==
  \/ session \in s.active \intersect s.cancelled
  \/ ~IsWorkflow(r) /\ r.session \in s.blocked
  \/ id \in Live(s) \union s.done.has

\* Admission::admit
Admit(s, r) ==
  IF IsWorkflow(r) \/ HasCapacity(Cardinality(SessionRunning(s, r.session))) THEN "start"
  ELSE IF OnLimit = "queue" THEN "enqueue" ELSE "reject"

\* handle_spawn
HandleSpawn(s, id, session, kind) ==
  LET r == Reparent(s, session, kind)
      t == Accept(s, id, r)
      nobody == [i \in Ids |-> {}]
  IN  IF Refused(s, id, session, r) THEN s
      ELSE CASE Admit(s, r) = "start"   -> StartChild(t, {id})
             [] Admit(s, r) = "enqueue" -> [t EXCEPT !.queue = Behind(@, {id}, nobody)]
             [] Admit(s, r) = "reject"  -> Sweep(FinishNeverStarted(t, {id}, nobody, {}))

Spawn(id, session, kind) ==
  /\ Command("spawn")
  /\ id # session
  /\ MaySpawn(co, session)
  /\ Unused(co, id) \/ id \in Live(co) \union co.done.has
  /\ co' = Trim(HandleSpawn(Reap(co), id, session, kind))

\* handle_query and handle_inspect.  A child the command may not see, or one
\* that is finished, is answered at once.
HandleQuery(s, q, id, scope, how) ==
  LET visible == id \in Live(s) /\ BelongsToSession(s.req[id], scope)
      hidden  == IsWorkflow(s.req[id]) /\ how # "inspect"
  IN  IF ~visible \/ hidden THEN s
      ELSE IF how = "block" THEN [s EXCEPT !.waiter[q] = id]
      ELSE IF id \in s.active THEN [s EXCEPT !.progress[q] = id]
      ELSE s

Query(q, id, scope, how) ==
  /\ Command("query")
  /\ co.waiter[q] = None /\ co.progress[q] = None
  /\ co' = Trim(HandleQuery(Reap(co), q, id, scope, how))

\* What the cancelling commands have in common: started children are told,
\* queued ones are finished.
CancelAll(s, R) ==
  RemoveQueued([s EXCEPT !.cancelled = @ \union (R \intersect Started(s))],
               R \intersect s.queue.has)

\* cancel_one with explicit = true
CancelOne(s, id, scope) ==
  IF id \notin Live(s) \/ ~BelongsToSession(s.req[id], scope) THEN s
  ELSE CancelAll([s EXCEPT !.killed = @ \union ({id} \intersect Started(s))], {id})

CancelSubagent(id, scope) ==
  /\ Command("cancel")
  /\ co' = Trim(CancelOne(Reap(co), id, scope))

\* cancel_parent_prompt
CancelParentPrompt(prompt, scope) ==
  /\ Command("cancel")
  /\ LET s == Reap(co)
     IN  co' = Trim(CancelAll(s, {i \in Live(s) : /\ s.req[i].prompt = prompt
                                                  /\ BelongsToSession(s.req[i], scope)}))

\* cancel_parent_session: the user's Stop.  Without a session it does nothing.
Stop(s, scope) ==
  IF scope = None THEN s
  ELSE CancelAll([s EXCEPT !.blocked = @ \union {scope}],
                 {i \in Live(s) : s.req[i].session = scope /\ ~IsWorkflow(s.req[i])})

CancelParentSession(scope) ==
  /\ Command("stop")
  /\ co' = Trim(Stop(Reap(co), scope))

\* cancel_workflow_children; the answer waits for the run to be quiet.
CancelRun(s, run, scope) ==
  LET R == {i \in WorkflowOutstanding(s, run) : BelongsToSession(s.req[i], scope)}
  IN  [s EXCEPT !.cancelled = @ \union R,
                !.run_waiters = IF WorkflowOutstanding(s, run) = {}
                                THEN @ ELSE @ \union {run}]

CancelWorkflowRun(run, scope) ==
  /\ Command("workflow")
  /\ co' = Trim(CancelRun(Reap(co), run, scope))

\* Completions: the host takes what is buffered for it.
Completions(scope) ==
  /\ Command("completions")
  /\ LET s == Reap(co)
     IN  co' = Trim([s EXCEPT !.buffer =
                       Without(@, {i \in @.has : BelongsToSession(s.req[i], scope)})])

\* teardown_session_children
TeardownChildren(s, p) ==
  LET R == {i \in Live(s) : s.req[i].session = p}
  IN  CancelAll([s EXCEPT !.req = [i \in Ids |-> IF i \in R THEN [@[i] EXCEPT !.surface = FALSE]
                                                           ELSE @[i]],
                          !.torn = @ \union R], R)

\* TeardownSession: close or idle unload, and with a responder, delete.
Teardown(s, p, respond) ==
  LET purged == [s EXCEPT !.buffer = Without(@, {i \in @.has : s.req[i].session = p})]
      t == TeardownChildren(purged, p)
  IN  IF respond /\ SessionHasChildren(t, p)
      THEN [t EXCEPT !.blocked = @ \union {p}, !.drains = @ \union {p}]
      ELSE t

TeardownSession(p, respond) ==
  /\ Command("teardown")
  /\ co' = Trim(Teardown(Reap(co), p, respond))

\* Mutant: the next turn reopens admission in the middle of a delete.
OpenAdmission_Always(s, p) == [s EXCEPT !.blocked = @ \ {p}]

\* OpenSpawnAdmission: the next turn.
OpenAdmission(s, p) == IF p \in s.drains THEN s ELSE [s EXCEPT !.blocked = @ \ {p}]

OpenSpawnAdmission(p) ==
  /\ Command("stop")
  /\ co' = Trim(OpenAdmission(Reap(co), p))

\* Every command that only reads: Outstanding, ListActive, SpawnedRefs, ...
Poll ==
  /\ Command("poll")
  /\ co' = Trim(Reap(co))

-----------------------------------------------------------------------------
(***************************************************************************)
(* The actor's other wake-ups.                                             *)
(***************************************************************************)

\* InternalEvent::Started, from the runner of a pending child.  When a cancel
\* came first the child stays pending and its runner is told to give up.
ReportStarted(id) ==
  /\ co.phase # "exited"
  /\ id \in co.pending \ co.cancelled
  /\ co' = Trim([co EXCEPT !.pending = @ \ {id}, !.active = @ \union {id},
                           !.ran = @ \union {id}])

\* A run future ends, or panics, which counts as a failure.
RunEnds(id, cancelled) ==
  /\ co.phase # "exited"
  /\ id \in Started(co)
  /\ co' = Trim(FinishChild(co, id, IF cancelled THEN {id} ELSE {}))

\* finish_progress
ProgressEnds(q) ==
  /\ co.phase # "exited"
  /\ co.progress[q] # None
  /\ co' = Trim([co EXCEPT !.progress[q] = None, !.lost = @ \ {q}])

\* background_at_deadline, and its queued counterpart, for the callers in D.
BackgroundAtDeadline(s, D) ==
  [s EXCEPT !.caller = [i \in Ids |-> IF i \in D \intersect s.reply /\ @[i] = "waiting"
                                      THEN "handed" ELSE @[i]],
            !.reply = @ \ D,
            !.deadline = @ \ D,
            !.handle_only = @ \union (D \intersect Started(s))]

\* Blocking queries W whose timeout is up.
QueriesDue(s, W) ==
  LET alive == {q \in W \ s.lost : s.waiter[q] \in s.active}
  IN  [s EXCEPT !.waiter = [q \in Queries |-> IF q \in W THEN None ELSE @[q]],
                !.progress = [q \in Queries |-> IF q \in alive THEN s.waiter[q] ELSE @[q]],
                !.lost = @ \ (W \ alive)]

\* process_deadlines at a moment when the await budgets D, the queries W and
\* the teardown drains X are due.
ProcessDeadlines(D, W, X) ==
  /\ co.phase # "exited"
  /\ co.queue.has # {} \/ D # {} \/ W # {} \/ X # {}
  /\ LET s == Reap(co)
         t == ClearTeardownDrain(s, X \intersect s.drains)
         u == BackgroundAtDeadline(t, D \intersect t.deadline)
     IN  co' = Trim(QueriesDue(u, {q \in W : u.waiter[q] # None}))

\* A wake-up at which at least D0, W0 and X0 are due.
Timer(D0, W0, X0) ==
  \E D \in SUBSET co.deadline, W \in SUBSET {q \in Queries : co.waiter[q] # None},
     X \in SUBSET co.drains :
       D0 \subseteq D /\ W0 \subseteq W /\ X0 \subseteq X /\ ProcessDeadlines(D, W, X)

\* The last sender of a command is gone.
CommandsClosed ==
  /\ Command("close")
  /\ co' = [co EXCEPT !.phase = "closed"]

\* Drop: resolve_queued_at_drop and cancel_all_children.  The channels of the
\* started children close without an answer.
Dropped(s) ==
  [s EXCEPT
     !.caller = [i \in Ids |-> IF i \in s.reply /\ @[i] = "waiting"
                               THEN IF i \in s.queue.has THEN "final" ELSE "closed"
                               ELSE @[i]],
     !.cancelled = @ \union Live(s),
     !.pending = {}, !.active = {}, !.queue = EmptyLine,
     !.reply = {}, !.deadline = {}, !.drains = {}, !.run_waiters = {}, !.lost = {},
     !.waiter = [q \in Queries |-> None], !.progress = [q \in Queries |-> None],
     !.phase = "exited"]

\* The loop ends by itself.
Exit ==
  /\ co.phase = "closed"
  /\ Started(co) = {}
  /\ \A q \in Queries : co.progress[q] = None
  /\ co' = Dropped(co)

\* The host drops the actor's future.
DropActor ==
  /\ co.phase # "exited" /\ "drop" \in Events
  /\ co' = Dropped(co)

-----------------------------------------------------------------------------
(***************************************************************************)
(* The peers of the actor.                                                 *)
(***************************************************************************)

\* The caller of a spawn stops waiting.  ChannelBackend then cancels the token
\* of a workflow's spawn; other hosts may not.
CallerDrops(id) ==
  /\ "leave" \in Events
  /\ co.caller[id] = "waiting"
  /\ \E tell \in IF IsWorkflow(co.req[id]) THEN BOOLEAN ELSE {FALSE} :
       co' = [co EXCEPT !.caller[id] = "gone",
                        !.cancelled = IF tell THEN @ \union {id} ELSE @]

\* A holder of the request's token cancels it: no wake-up of the actor.
TokenCancelled(id) ==
  /\ "token" \in Events
  /\ id \in Live(co) \ co.cancelled
  /\ co' = [co EXCEPT !.cancelled = @ \union {id}]

\* The caller of a query stops waiting.
QueryDropped(q) ==
  /\ "leave" \in Events
  /\ co.waiter[q] # None \/ co.progress[q] # None
  /\ q \notin co.lost
  /\ co' = [co EXCEPT !.lost = @ \union {q}]

-----------------------------------------------------------------------------
Init ==
  \E config \in Configs :
  co = [config |-> config, pending |-> {}, active |-> {}, queue |-> EmptyLine, done |-> EmptyLine,
        buffer |-> EmptyLine, req |-> [i \in Ids |-> Blank],
        caller |-> [i \in Ids |-> "none"], reply |-> {}, deadline |-> {},
        handle_only |-> {}, cancelled |-> {}, killed |-> {}, ran |-> {}, torn |-> {},
        waiter |-> [q \in Queries |-> None], progress |-> [q \in Queries |-> None],
        lost |-> {}, run_waiters |-> {}, drains |-> {}, blocked |-> {},
        told |-> {}, surfaced |-> {}, aborted |-> {}, phase |-> "open"]

Scopes == Hosted \union {None}

Next ==
  \/ \E id \in Ids, session \in Sessions, kind \in Kinds : Spawn(id, session, kind)
  \/ \E q \in Queries, id \in Ids, scope \in Scopes, how \in {"block", "poll", "inspect"} :
       Query(q, id, scope, how)
  \/ \E id \in Ids, scope \in Scopes : CancelSubagent(id, scope)
  \/ \E prompt \in Prompts, scope \in Scopes : CancelParentPrompt(prompt, scope)
  \/ \E scope \in Scopes : CancelParentSession(scope)
  \/ \E p \in Hosted : OpenSpawnAdmission(p)
  \/ \E run \in RunIds, scope \in Scopes : CancelWorkflowRun(run, scope)
  \/ \E scope \in Scopes : Completions(scope)
  \/ \E p \in Hosted, respond \in BOOLEAN : TeardownSession(p, respond)
  \/ Poll
  \/ \E id \in Ids : ReportStarted(id)
  \/ \E id \in Ids, cancelled \in BOOLEAN : RunEnds(id, cancelled)
  \/ \E q \in Queries : ProgressEnds(q)
  \/ Timer({}, {}, {})
  \/ CommandsClosed
  \/ Exit
  \/ DropActor
  \/ \E id \in Ids : CallerDrops(id) \/ TokenCancelled(id)
  \/ \E q \in Queries : QueryDropped(q)

Spec == Init /\ [][Next]_co

\* What the actor owes whatever the children do: a deadline that stays set is
\* reached, the queued sweep has its own interval, and the progress future of
\* a query resolves.  Each conjunct is weak fairness of an action, with the
\* condition under which the action changes co in place of ENABLED.
ActorFairness ==
  /\ \A id \in Ids : <>[](id \in co.deadline) => []<><<Timer({id}, {}, {})>>_co
  /\ \A q \in Queries : <>[](co.waiter[q] # None) => []<><<Timer({}, {q}, {})>>_co
  /\ \A q \in Queries : <>[](co.progress[q] # None) => []<><<ProgressEnds(q)>>_co
  /\ \A p \in Sessions : <>[](p \in co.drains) => []<><<Timer({}, {}, {p})>>_co
  /\ <>[](co.queue.has \intersect co.cancelled # {}) => []<><<Timer({}, {}, {})>>_co

ActorSpec == Spec /\ ActorFairness

\* What a host may add: every run ends.
RunsEnd ==
  \A id \in Ids : <>[](id \in Started(co))
                    => []<><<RunEnds(id, TRUE) \/ RunEnds(id, FALSE)>>_co

-----------------------------------------------------------------------------
(***************************************************************************)
(* Properties.                                                             *)
(***************************************************************************)
StateType ==
  [config : Configs, pending : SUBSET Ids, active : SUBSET Ids, queue : Line, done : Line, buffer : Line,
   req : [Ids -> Request], caller : [Ids -> Caller], reply : SUBSET Ids,
   deadline : SUBSET Ids, handle_only : SUBSET Ids, cancelled : SUBSET Ids,
   killed : SUBSET Ids, ran : SUBSET Ids, torn : SUBSET Ids,
   waiter : [Queries -> Ids \union {None}], progress : [Queries -> Ids \union {None}],
   lost : SUBSET Queries, run_waiters : SUBSET RunIds, drains : SUBSET Sessions,
   blocked : SUBSET Sessions, told : SUBSET Ids, surfaced : SUBSET Ids,
   aborted : SUBSET Ids, phase : {"open", "closed", "exited"}]

\* Every field of the actor's state has its type.
TypeOK == co \in StateType

\* A subagent is in one place: queued, pending, active or completed.  finish_child
\* and handle_spawn look an id up in one map after the other and rely on it; an id
\* in two of them would be started or reported twice.
OneHome ==
  /\ co.pending \intersect co.active = {}
  /\ Started(co) \intersect co.queue.has = {}
  /\ Live(co) \intersect co.done.has = {}

\* A session never runs more subagents of its own than the configured limit,
\* counting the nested ones re-keyed to it and those a sweep starts in one go.
WithinLimit ==
  \A p \in Sessions : Cardinality(SessionRunning(co, p)) <= Limit

\* A spawn waits only while its session has no free slot: no completion, cancel
\* or reap leaves a slot free behind it.  The exit test of run() rests on it
\* ("queued non-empty means some session is at capacity, so runs is non-empty").
QueuedImpliesFull ==
  \A i \in co.queue.has : ~HasCapacity(Cardinality(SessionRunning(co, co.req[i].session)))

\* The slots of a session are used, neither more nor fewer than it has.
SlotsUsed == WithinLimit /\ QueuedImpliesFull

\* Within a session the queue is first come, first served: a spawn is not started
\* while one that arrived earlier keeps waiting.
NoOvertaking ==
  [][\A j \in co.queue.has : \A i \in co.queue.ahead[j] :
       (co.req[i].session = co.req[j].session /\ j \in Started(co)') => i \notin co'.queue.has]_co

\* After Stop, and during a delete, nothing of the session is left to run: no
\* Task spawn is queued and every one that has been started is cancelled.  A
\* spawn that arrives later, nested ones of its active children included, must
\* not break it until admission reopens.
StopIsFinal ==
  \A i \in Live(co) :
    (co.req[i].session \in co.blocked /\ ~IsWorkflow(co.req[i])) =>
      i \in co.cancelled \intersect Started(co)

\* A delete holds admission closed exactly as long as the session has children:
\* no OpenSpawnAdmission reopens it meanwhile, and the last child to finish
\* resolves the drain.
DrainHeld ==
  \A p \in co.drains : p \in co.blocked /\ SessionHasChildren(co, p)

\* Nobody waits for what is over: a blocking query waits for a live child, and
\* a workflow cancel for a run that has one.
WaitersLive ==
  /\ \A q \in Queries : co.waiter[q] \in Live(co) \union {None}
  /\ \A run \in co.run_waiters : WorkflowOutstanding(co, run) # {}

\* The caller of a spawn that still waits will be answered: the actor holds its
\* channel in a live record, with a deadline if it awaits in the foreground,
\* whatever happened to the spawn in the queue.
CallerHeld ==
  \A i \in Ids : co.caller[i] = "waiting" =>
    /\ i \in co.reply \intersect Live(co)
    /\ AwaitsInForeground(co.req[i]) => i \in co.deadline

\* Whoever waits is waiting for something: a caller, a query or a workflow cancel is
\* held by a record that will be resolved.
WaitsHeld == CallerHeld /\ WaitersLive

\* The audience of a completion.  A result that a foreground caller has received
\* is not surfaced again; one whose caller was handed off or had left is heard
\* through a blocking query or surfaced, unless it was cancelled or killed.
Heard ==
  \A i \in co.done.has :
    /\ co.caller[i] = "final" /\ ~co.req[i].background => i \notin co.surfaced
    /\ /\ co.caller[i] \in {"handed", "gone"}
       /\ co.req[i].surface
       /\ i \notin co.aborted \union co.killed
       => i \in co.surfaced \union co.told

\* A child that was live when its session was torn down stays silent: its
\* completion is neither buffered for a later resume of the session nor surfaced.
TornDownSilent == co.torn \intersect (co.buffer.has \union co.surfaced) = {}

\* Stop and delete hold against everything that comes late: spawns, reopened
\* admission, and children that finish afterwards.
StopHolds == StopIsFinal /\ DrainHeld /\ TornDownSilent

\* "A detached late TaskTool spawn cannot outrun Stop / delete": while a top-level
\* session is blocked no Task spawn that descends from it is admitted.
LateSpawnRefused ==
  [][\A i \in Live(co)' \ Live(co) :
       IsWorkflow(co'.req[i]) \/ co'.req[i].root \notin co.blocked]_co

\* A foreground caller is answered within its budget even if no child ever ends,
\* also when the spawn was queued and dequeued in between.
CallerAnswered ==
  \A i \in Ids : (co.caller[i] = "waiting" /\ AwaitsInForeground(co.req[i]))
                  ~> (co.caller[i] # "waiting")

\* A blocking query is answered even if its child never ends.
QueryAnswered ==
  \A q \in Queries : (co.waiter[q] # None)
                      ~> (co.waiter[q] = None /\ co.progress[q] = None)

\* A delete stops holding admission even if a cancelled child never ends.
DrainEnds == \A p \in Sessions : (p \in co.drains) ~> (p \notin co.drains)

\* Nobody waits for ever on a child that never ends.
NobodyWaits == CallerAnswered /\ QueryAnswered /\ DrainEnds

\* A queued spawn whose token is cancelled behind the actor's back is resolved
\* even if no other event wakes the actor.
CancelledLeaves ==
  \A i \in Ids : (i \in co.queue.has \intersect co.cancelled) ~> (i \notin co.queue.has)

\* Where runs end, no queued spawn waits for ever.
QueueMoves ==
  RunsEnd => \A i \in Ids : (i \in co.queue.has) ~> (i \notin co.queue.has)

\* No entry stays in the queue for ever, be it cancelled or waiting its turn.
QueueEmpties == CancelledLeaves /\ QueueMoves

-----------------------------------------------------------------------------
(***************************************************************************)
(* The strengthening behind OneHome, WaitsHeld, StopHolds and Heard, of a  *)
(* state inside a handler: the subagents in R have left the queue or have  *)
(* ended and are not finished yet, and the sessions in B are closed or are *)
(* about to be.  Between two iterations R is empty and B is co.blocked.    *)
(***************************************************************************)
Fields == {"config", "pending", "active", "queue", "done", "buffer", "req", "caller", "reply",
           "deadline", "handle_only", "cancelled", "killed", "ran", "torn", "waiter", "progress",
           "lost", "run_waiters", "drains", "blocked", "told", "surfaced", "aborted", "phase"}

RequestFields == {"session", "root", "owner", "prompt", "background", "to_completion", "surface"}

Shaped(s, R) ==
  /\ DOMAIN s = Fields
  /\ DOMAIN s.req = Ids /\ \A i \in Ids : DOMAIN s.req[i] = RequestFields
  /\ DOMAIN s.caller = Ids /\ DOMAIN s.waiter = Queries
  /\ Live(s) \union R \union s.done.has \subseteq Ids

\* One place each.
Housed(s, R) ==
  /\ s.pending \intersect s.active = {}
  /\ Started(s) \intersect s.queue.has = {}
  /\ (Live(s) \union R) \intersect s.done.has = {}

\* Nothing of a closed session is left to run, and a delete waits for somebody.
Closed(s, R, B) ==
  /\ s.blocked \subseteq B
  /\ \A i \in Live(s) \ R :
       (s.req[i].session \in B /\ ~IsWorkflow(s.req[i])) => i \in s.cancelled \intersect Started(s)
  /\ \A p \in s.drains : p \in s.blocked /\ \E i \in Live(s) \union R : s.req[i].session = p

\* What was torn down has no audience: only the finished are surfaced, and a summary is
\* not buffered before its subagent is finished.
Silent(s, R) ==
  /\ s.torn \intersect (s.buffer.has \union s.surfaced) = {}
  /\ s.surfaced \subseteq s.done.has
  /\ s.buffer.has \intersect (Live(s) \union R) = {}
  /\ s.phase # "exited" => s.torn \subseteq Live(s) \union R \union s.done.has
  /\ \A i \in s.torn \intersect (Live(s) \union R) : ~s.req[i].surface

\* Whoever waits is held.
Waited(s, R) ==
  /\ \A i \in Ids : s.caller[i] = "waiting" =>
       /\ i \in s.reply /\ i \in Live(s) \union R
       /\ AwaitsInForeground(s.req[i]) => i \in s.deadline
  /\ \A q \in Queries : s.waiter[q] \in Live(s) \union R \union {None}
  /\ \A run \in s.run_waiters : \E i \in Started(s) : s.req[i].owner = run

\* Whoever is not finished has a caller that waits, left or was handed off; one that waits
\* in the foreground is not handle-only.
Audience(s, R) ==
  /\ \A i \in Live(s) \union R : s.caller[i] \in {"waiting", "gone", "handed"}
  /\ s.phase # "exited" => s.handle_only \subseteq Started(s) \union R
  /\ \A i \in Live(s) \union R :
       s.caller[i] = "waiting" /\ ~s.req[i].background => i \notin s.handle_only
  /\ \A i \in s.done.has :
       /\ s.caller[i] = "final" /\ ~s.req[i].background => i \notin s.surfaced
       /\ s.caller[i] \in {"handed", "gone"} /\ s.req[i].surface
            => i \in UNION {s.aborted, s.killed, s.surfaced, s.told}

Sound(s, R, B) ==
  /\ Shaped(s, R) /\ Housed(s, R) /\ Closed(s, R, B)
  /\ Silent(s, R) /\ Waited(s, R) /\ Audience(s, R)

CoordinatorInv == Sound(co, {}, co.blocked)

(***************************************************************************)
(* The strengthening behind SlotsUsed and NoOvertaking: the queue is in    *)
(* order and holds Task spawns only.  A handler that is at work keeps it,  *)
(* with the limit (Lined), though it may leave a slot free that the sweep  *)
(* at its end fills (Filled).                                              *)
(***************************************************************************)

\* A line is one: of two members one is ahead, and who is ahead is so of all behind.
InLine(line) ==
  /\ \A i \in line.has : line.ahead[i] \subseteq line.has \ {i}
  /\ \A i, j \in line.has : i = j \/ i \in line.ahead[j] \/ j \in line.ahead[i]
  /\ \A i \in line.has : \A j \in line.ahead[i] : line.ahead[j] \subseteq line.ahead[i]

Lined(s, limit) ==
  /\ InLine(s.queue)
  /\ \A i \in s.queue.has : ~IsWorkflow(s.req[i])
  /\ \A p \in Sessions : Cardinality(SessionRunning(s, p)) <= limit

Filled(s, limit) ==
  \A i \in s.queue.has : Cardinality(SessionRunning(s, s.req[i].session)) >= limit

SlotInv == co.config \in Configs /\ Lined(co, Limit) /\ Filled(co, Limit)
=============================================================================
