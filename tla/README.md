# TLA+ verification of Interstellar

TLA+ models of the parts of this repository whose correctness depends on
concurrency, ordering, deadlines and crashes, TLC configurations that check them on
small instances, and TLAPS proofs of what holds for every instance. Paths are relative
to the repository root (`src/` is the repository); `PROJECT.json` maps every
definition to the lines it models and lists the hazards each property is for.

| module | models | checked by |
| --- | --- | --- |
| `CircuitBreaker` | `crates/common/xai-circuit-breaker`: `breaker.rs`, `window.rs` | `MCCircuitBreaker`, `Breaker_threads.cfg` |
| `BreakerSpec`, `BreakerRefinement` | the abstract breaker, and the mapping under which `CircuitBreaker` implements it | `MCBreakerRefinement`, `Breaker_serial.cfg` |
| `CircuitBreakerProofs`, `BreakerRefinementProofs` | theorems about the breaker and its refinement | tlapm |
| `SubagentCoordinator` | `xai-grok-tools/.../grok_build/task`: `coordinator.rs`, `coordinator/{queue,spawn,query}.rs`, `admission.rs`, the transitions of `coordinator_state.rs` | `MCSubagentCoordinator`, `Subagent_*.cfg` |
| `Scheduler` | `xai-grok-tools/.../grok_build/scheduler/{actor,types,mod}.rs`, `persistence.rs`, `xai-grok-shell/src/tools/notification_bridge.rs` | `MCScheduler`, `Scheduler.cfg` |
| `SchedulerLoops` | `fire_as_loop_subagent` of `scheduler/actor.rs` and what it leaves behind | `MCSchedulerLoops`, `Loops.cfg` |
| `HubConnection` | `xai-computer-hub-sdk`: `connection.rs`, the waiters of `demux.rs` | `MCHubConnection`, `Hub_calls.cfg`; `MCHubClient`, `Hub_client.cfg` |
| `HubPool` | `pool.rs` of the same crate | `Hub_client.cfg` |
| `HubSessions` | `server.rs`, `cancel.rs`, `admission.rs`, `refcount.rs`, the inboxes of `demux.rs` | `MCHubSessions`, `Hub_sessions.cfg`; `Hub_client.cfg` |
| `HubReady` | the reconnect replay of `server.rs`, `diag_server.rs` and `hub.rs` of `xai-grok-workspace` | `Hub_client.cfg` |
| `WorkflowRun` | `xai-workflow`: `engine.rs`, `journal.rs`; `xai-grok-shell/src/session/workflow`: `manager.rs`, `tracker.rs`, `host_service.rs`, `notify.rs`, `store.rs` | `MCWorkflowRun`, `Workflow*.cfg` |
| `SubagentProofs`, `SchedulerProofs`, `LoopsProofs`, `HubConnectionProofs`, `HubClientProofs` (pool, readiness, sessions), `WorkflowProofs` | theorems about the modules above | tlapm |

Run `tlc -config Breaker_threads.cfg MCCircuitBreaker` (and so on, see `runs` in
`PROJECT.json`), and `tlapm M.tla` for each of the eight proof modules `M`.

## Inventory

The repository is a terminal coding agent, about sixty Rust crates under `crates/`,
and a Python pipeline (`interstellar/`) that analyses finished sessions.

| component | state | operations | what is hard | what makes it correct | here |
| --- | --- | --- | --- | --- | --- |
| circuit breaker | three atomics for the state machine, a mirror flag, a probe counter, a mutex around a sliding window | `check`, `record` | lock-free, several stores per transition, unsigned wrap-around, probes that never report | cool-down, probe budget, never stranded, mirror agrees | `CircuitBreaker` |
| breaker registry, configuration, retry policy | map of breakers | get or create, parse, back off | limits of the exponent and jitter | bounds of the delay | not yet |
| subagent coordinator | queued, pending, active, completed children; waiters; drains; blocked sessions; buffered completions | spawn, query, cancel, stop, teardown, deadlines | every order of commands, ends, deadlines and departing callers | limit, FIFO, one report to the right audience, Stop is final, nobody waits for ever | `SubagentCoordinator` |
| scheduled tasks | tasks, a version clock, a background writer, the session log | create, delete, fire, expire, restore | a removal awaits two stores, either of which may fail, answer late or never; crash between them | what was removed stays removed, versions grow, the log agrees | `Scheduler` |
| background loops | anchor, iteration counter and reset flag of each task; watchers | fire, skip, resume, patch the prompt | answers that time out, late watchers, sends that fail | one iteration at a time, chains of one job and of bounded length | `SchedulerLoops` |
| hub connection | waiters, outbound and control channels, reader, writer, sockets | call, reconnect, shutdown | two tasks and the callers meet in channels and in a map; sockets die at any moment | every call is resolved, the writer follows the reader | `HubConnection` |
| hub pool | one slot per (url, principal) | borrow, return, sweep, evict | connect happens outside the lock | one live connection per slot, closed when unused | `HubPool` |
| hub tool server | sessions with inbox, loop, cancellation registry, semaphore | bind, unbind, route, cancel, shut down | bind and unbind under a lock, loops, calls and shutdown not | no call escapes cancellation, a rebound session keeps its own | `HubSessions` |
| readiness marker | connected or not, epoch of disconnects | reconnect replay, settle | the replay races the next disconnect | settles for the socket it served, is never stuck off | `HubReady` |
| workflow runs | journal file, run status, agent budget, episodes | launch, pause, cancel, resume, host calls | torn appends, replay, an old thread beside a new one | the journal loads, replay repeats, the budget holds, runs end | `WorkflowRun` |
| interjections, prompt queue | queued user input with versions | push, edit, remove, drain | edits racing a drain | nothing lost, nothing sent twice | not yet |
| upload queue, storage client | bounded queue, retry counters | enqueue, upload, retry | pause after repeated failures, shutdown during it | bounded, retried or dropped once | not yet |
| chat state, hunk tracker | conversation; attribution of edits | actor commands; file events | order of events | | candidates |
| shell, workspace | sessions, leader lock | RPC | large, mostly I/O | | candidates for parts |
| compaction | none | select messages | boundaries | pure functions | candidate |
| sampler, MCP, auth, update, telemetry, sandbox, worktrees, memory, hooks, fsnotify, sqlite journal | | | external services, operating system | | not modelled |
| pager (terminal UI), tool runtime and protocol | | | rendering, typed dispatch | | not modelled |
| `interstellar/` and the scripts around it | files of a run | normalise, patch, replay, grade, report | sequential, model calls, floating-point statistics | | not modelled |
| `third_party/` | | | vendored | | not modelled |

How they interact. The storage client consults a breaker before a request and
records its outcome after it, from several tasks at once. The Task tool of a session
sends a spawn to the coordinator over a channel and waits for a one-shot reply; the
coordinator calls a host-provided runner, whose child may itself use the Task tool, so
spawns nest. The scheduler actor fires its loops through the same coordinator and asks
it about earlier iterations; its tasks go to the resources file through the background
writer and to the session log through the notification bridge of the shell. A workflow
run asks the shell's host service for every effect, agents among them, and the host
spawns those through the coordinator with the run as owner. The workspace server is a
tool server of the hub SDK: it borrows a pooled connection, binds sessions on it, and
marks itself ready when a reconnect has been replayed.

Each module keeps of its neighbours what its own code sees of them: `SchedulerLoops`
sees a FIFO of commands and children that end, `WorkflowRun` a host that answers, fails or
is cancelled. No module composes two of the detailed ones; the interfaces are channels
with a handful of messages, and the product of two of these state spaces is out of
TLC's reach.

## The runs

| run | shows | bounds |
| --- | --- | --- |
| `breaker_threads` | every interleaving of atomic accesses, under fairness | 2 callers, clock to 2, window of 1, counter modulo 4, `HalfOpenMaxProbes = 0` (clamped to one) |
| `breaker_serial` | calls that do not overlap; the refinement of `BreakerSpec` | 3 callers, clock to 5, window of 2, counter modulo 8 |
| `subagent_admission` | limit, queue order, Stop, delete | 3 ids, 2 sessions, limit 1, two hosts |
| `subagent_delivery` | who hears a result | 2 ids, 1 query, all kinds of caller, limit 1 queueing and limit 0 failing |
| `subagent_live` | nobody waits for ever | 2 ids, 1 query, fair actor |
| `scheduler` | versions, tombstones, durable removals, crashes | 2 tasks of 3 kinds, revision up to 2, 2 generations, 1 save and 2 events under way |
| `loops` | one iteration at a time, chains, progress | 1 task, 2 prompts, 2 ids, chains of 2 |
| `hub_calls` | waiters and writer over reconnects | 2 calls, one with a deadline, 2 sockets |
| `hub_client` | liveness of the four hub parts; pool and readiness | 1 call; 3 borrowers of 2 kinds, 3 connections; 2 sessions, 4 epochs; 1 tool call |
| `hub_sessions` | bind, unbind, shutdown against calls | 1 tool call, 2 loops, 3 operations, 1 cancel |
| `workflow` | journal, budget, replay, watchers, ends | 4 scripts, 2 episodes, 1 fault, 1 unsaved manifest |
| `workflow_overtaken` | `ResumableLoads` fails (finding) | 3 episodes, no faults |

A property of a run is often the conjunction of parts that state one promise together
(`SlotsUsed` is `WithinLimit` and `QueuedImpliesFull`); the parts are named, and the sections
below speak of them. `PROJECT.json` has a mutant of the code for each property that TLC must
find out. The type invariants, `NeverHalfOpensClosed` and `ClockAdvances` hold on the same
instances and are left out of the configurations, where stronger properties stand; the last
two are proved.

An instance that explores several situations chooses one in its initial state: the
host of the coordinator (`Configs`), the tasks of the scheduler (`Populations`), the
script of a workflow (`Scripts`), the part of the hub client (`part` of `MCHubClient`,
whose four parts share no state and stand side by side). Nothing is removed from a
part by this; it saves states that differ in what the others did.

Deadlock is checked where the system never stops: in the breaker and in two of the
coordinator's runs. The other systems end: the actor leaves its loop, connections and
runs are over, and bounds are used up.

## CircuitBreaker

The breaker is shared by reference and takes no lock around its state machine, so
the grain of the model is one access: every load, store, CAS or fetch of an
atomic, every reading of the clock that is kept, and every critical section of the
window mutex, is an action. `pc[c]` names the access that caller `c` makes next;
`seen` and `stamp` hold what it loaded before; `outcome` is the argument of its
`record`. A caller goes from `idle` through `check` to `admitted` or `probing`, then
either `Record`s or is dropped (`Abandon`: the future is cancelled and the outcome is
never reported).

The atomics are modelled as sequentially consistent. The code uses acquire and
release, so weaker-memory behaviours are possible in addition; what the model shows
to fail fails in the code, and what it shows to hold is conditional on this.
`half_open_probes` is a machine word: `WrapInc` and `WrapDec` wrap at `UsizeModulus`,
and the wrap below zero does happen in the runs. Time is in ticks; the error rate is
a comparison of fractions, exact where the code divides floats.

* `Spec`: every interleaving of the callers.
* `LiveSpec`: `Spec` with weak fairness of the clock, of the steps inside a call (a
  thread that has entered a call is eventually scheduled), of `Check` (traffic
  keeps coming: without requests a breaker rightly stays open) and of the end of a
  request, which may be `Abandon`. A probe is *not* assumed to record: that is the
  case the lease exists for.
* `SerialSpec`: calls do not overlap. `check` and `record` contain no await, so this
  is what tasks on one current-thread runtime produce; requests still overlap
  freely between the calls.

`breaker_threads` checks of `LiveSpec` that the incremental failure counter equals the
failures held (`WindowSound`), that of the callers that found one lease expired only one
takes it over (`LeaseTakenOnce`), and that no race and no dropped probe strands the breaker
(`NeverStranded`: `OpenRecovers` and `HalfOpenRecovers`), also when the slot counter has
wrapped below zero. That no stale caller half-opens a closed breaker
(`NeverHalfOpensClosed`) is proved.

`breaker_serial` checks the documented promises of `SerialSpec`, the budget of probes
(`ProbeBudget`), and that it implements `BreakerSpec` (`AtomicBreaker`): an object with a
mode, the moment of the last trip, the number of slots taken and what each caller has in
flight. Its steps carry the promises as guards. The cool-down counts from a clock reading
made after the trip (`Stamp`, `Offer`); beyond the last slot a probe is let in only when the
claim of every probe still out has lapsed (`Takeover`); a request that is abandoned, or
reported to an open breaker, frees nothing (`Leave`). It also says what the breaker does
*not* promise: while half-open, the first outcome decides whoever's it is (`Succeed`,
`Fail`), so a late success of a request admitted before the trip closes the breaker like
that of a probe (`breaker.rs:130`).
The mapping of `BreakerRefinement` lets `try_half_open_probe` take effect where it reads the
clock, since calls that do not overlap cannot change its verdict afterwards; `record` where
it loads the state, or where it weighs the window; and a trip's time where `trip` reads it.
What a call has yet to store is read off its program counter, and slots count in `HalfOpen`
only, without the one that a rejected caller is about to give back.

Two callers suffice for the races because each one is between one caller inside
`trip`, `close` or `try_half_open_probe` and one other; the serial run takes three so
that a slot can be held, refused and leased again at the same time. The clock must
outlast one cool-down and one lease (`2 * OpenDuration`); `breaker_serial` has room
for a second trip. The antecedents of the liveness properties exclude the end of the
bounded clock.

`MirrorAgrees`, `SlotsFreeAtHalfOpen`, `ProbeBudget` and `CoolDownRespected` fail when calls
overlap: `trip()` publishes `Open` before the rest of its stores (see "Further
disagreements"). They are stated of `SerialSpec` only.

Not modelled: observers (called with copies, no effect on the state), the read-only
accessors apart from `error_rate` (which evicts), and `force_half_open`, which exists only
under the `test-hooks` feature.

## SubagentCoordinator

The coordinator is an actor: one `select!` loop owns all its state, and callers
and children are concurrent with it. The state is one record, `co`. One iteration
of the loop is one action. A handler is a chain of calls that each change the state
(every command is preceded by `reap_abandoned_callers`, every completion is followed by
a sweep of the queue, every iteration ends by evicting old completions), so each call
is an operator from state to state, and an action is the composition, for example
`co' = Trim(HandleSpawn(Reap(co), id, session, kind))`.

| field of `co` | code |
| --- | --- |
| `config` | `SubagentLimits`, `buffer_completions`, and of the host its sessions, the requests made there and the events that happen |
| `queue`, `pending`, `active`, `done` | `queued`, `pending`, `active`, `completed`; a run future exists exactly for the ids in `pending` and `active` |
| `req` | the request held for an id: session, owner, prompt, mode, `surface_completion` |
| `reply`, `deadline`, `handle_only` | the reply channel still held, the await budget, `handle_only` |
| `cancelled`, `killed` | the cancellation token; `explicitly_killed` |
| `waiter`, `progress`, `lost` | a blocking query, a progress future, a query whose receiver is gone |
| `run_waiters`, `drains`, `blocked` | workflow-cancel waiters, teardown drains, `spawn_blocked_sessions` |
| `buffer` | `pending_completions` |
| `phase` | commands open, commands closed, loop left |
| `caller` | what became of the receiver of a spawn's result |
| `told`, `surfaced`, `aborted` | the audience and outcome of a completion |
| `root`, `torn`, `ran` | history: top-level ancestor, live at a teardown, was active once |

Abstractions, and why they lose nothing the properties tell apart:

* A `Line` is a FIFO without duplicates: its members and, for each, the members
  ahead. It carries the order of a `VecDeque` or of insertion-ordered completions
  without recursion.
* `Starts` is the closed form of the loop in `start_queued_within_capacity`: an entry
  is started if its session's running children, plus the uncancelled entries of the
  same session ahead of it, leave a slot.
* `RemoveQueued` finishes all its entries and sweeps once. The code sweeps after
  each; removing a queued entry frees no slot, so the sweeps in between start
  nothing that the last one would not.
* Durations are left out: at a wake-up any subset of the armed deadlines may be due
  (`ProcessDeadlines(D, W, X)`). Every order of deadlines, ends and commands is
  covered, also orders that particular durations would exclude.
* A name may be reused once nothing refers to its older use (`Unused`), which stands
  for the fresh UUIDs of the code. A spawn whose id is still known is tried as
  well: that is the duplicate check.
* A child's own session has the child's id.
* `events` of a host selects what the environment does there. It removes environment
  actions only; the actor's own steps are always there.

`subagent_admission` checks `SlotsUsed` (the limit holds, and a spawn waits only while its
session is full), `NoOvertaking` and `StopHolds` (`StopIsFinal`, `DrainHeld`,
`TornDownSilent`). `subagent_delivery` checks `OneHome` (an id is queued, pending, active or
completed, and only one of these), `WaitsHeld` (`CallerHeld`, `WaitersLive`: whoever waits is
held by a record that will be resolved) and `Heard` (the audience of a completion).
`subagent_live` checks `NobodyWaits` (`CallerAnswered`, `QueryAnswered`, `DrainEnds`) and
`QueueEmpties` (`CancelledLeaves`, `QueueMoves`).

Why the bounds are enough: three ids and limit one allow a running child with two
waiting, of one session or of two, one of which must be skipped, and a spawner with
its nested child and a queued sibling; two ids with limit one allow one running and one
queued child, and a reply, a query and a deadline to race over either. Ids are
interchangeable, and symmetry over them is used where only safety is checked.

Fairness. `ActorFairness` says that a deadline that stays armed is reached, that the
queue is swept at its interval while a cancelled entry sits in it, and that the progress
future of a query resolves. It is weak fairness, written with the condition under
which the action changes `co` in place of `ENABLED`. The select is biased and polls
the timer last, so this assumes that commands do not arrive without a gap; they come
from people and models. That runs end is assumed by `QueueMoves` alone, as its premise
`RunsEnd`; the other properties hold though no child need ever end.

Not modelled: usage-not-applied marks, `list_requests`, validation and description
futures, loop identities, contents of snapshots, several responders on one wait. The
buffer of completions drops its oldest entry when full, whichever session it belongs to;
the cap is modelled, but no document says which completions a host may lose.

## Scheduler

The actor handles one command or one fire at a time. `pc.at` says what it waits for: the
background writer (`persist`), the session log (`publish`) or nothing. The variables are
the actor's tasks, the version `clock` with the reservation under way and the removals
kept for a retry; the writer's channel and its debounced snapshot; the file; the
updates on their way to the log, and the log as the tasks it shows and its tombstones. The
bridge only hands an update on (`PersistenceMsg::Update`, or `append_update_durably`, which
it waits for); the session's persistence actor appends it. Both channels are FIFO, so
`events` stands for the two of them and an update leaves it with the append; when the bridge
ends, what it handed on is still appended, without a receipt, and the rest is lost
(`CloseTarget`). A durable removal
reserves a version, is saved, then published, then committed; each wait ends by an
answer, an error or the time-out of 30 seconds, and the late answer is lost. A crash
may come at any step, after which `Restart` loads the file. Revisions are capped as the
code's `u64` is: at `MaxRevision` a reservation draws a new generation.

`scheduler` shows that no reservation is stale when it is committed, which the code
asserts (`NoStaleReservation`); that a tombstone is final and an acknowledged delete
durable across crashes and late writes of older snapshots (`RemovalIsFinal`); that the
log, once everything under way is appended, shows what the actor holds (`LogAgrees`); that events go out in the order of their versions
(`EventsInOrder`); and that the actor comes back to its loop whatever its peers do
(`ActorReturns`), for which only the actor's own steps, time-outs included, are fair.

What the model brings out, and the properties state as exceptions: `NotCommitted` may
follow a rename that did happen, so a task that the caller was told is still there may be
gone after a restart; an expiry whose tombstone is given up leaves its version to be used
again; a crash between save and tombstone leaves a task in the log that nobody holds
(`unsettled`). Consumers of the events do not filter by version. The append of an update
that nobody awaits may fail and is then only logged (persistence.rs:2066); the model leaves
this out, so `LogAgrees` is about appends that succeed.

Two durable tasks, one of them a one-shot, or a session task beside a one-shot, are
enough for a removal to race an expiry and a restore; a revision of at most two makes the
rollover happen after the second change. `occurrence_journal.rs` is used by its own tests
only and is not modelled; nor is the arithmetic of intervals. One-shots are refused by the
tool but supported by the actor, so the model has them.

## SchedulerLoops

A fire goes through two questions to the coordinator (is the previous iteration running,
is any descendant of the loop), each with a time-out of ten seconds, then decides whether
to resume the transcript, moves the task to the new iteration, and sends the spawn. A
watcher waits for each iteration and clears the anchor of one that failed. Commands wait
while a fire is under way; iterations, watchers and the coordinator do not.

`loops` shows that two iterations never overlap and that the one in flight is the one the
next fire asks about (`LoopGuarded`), that a transcript is resumed only for the prompt it was
made for and no longer than `LOOP_FRESH_CHAIN_EVERY` (`ChainOfOneJob`), that work of two iterations overlaps only after a failure
(`OverlapOnlyAfterFailure`), and that a loop is not stuck on a dead iteration while its
coordinator stays (`LoopGoesOn`; the actor, the coordinator's answers, the watchers and
the children's ends are fair). Two ids, reused when forgotten, let an old and a new
iteration and their watchers coexist; with two tasks they would run out, which the
code's UUIDs do not, so the instance has one.

## The hub client

`HubConnection` has the callers, the reader task (routing, reconnects, drain, shutdown),
the writer task (biased select over stop, control channel and outbound frames, one poll
at a time) and the hub. A frame is the id it carries. A write that is preempted may or
may not have reached the hub. The reader drains the waiters as `drain_waiters_with` does:
it copies the keys (`DrainBegins`; a call that registers during the copy may or may not be
in it), removes them one by one (`DrainKey`), and goes on when none is left; callers act in
between. `CallsKept` (`WaitersMatch`, `NoOrphan`) says that a waiter goes
exactly once and that a caller who waits has somebody who will answer or drain it: a call
that a drain passes over has its frame queued for the next socket;
`WriterFollows` that the writer uses the reader's socket; `ConnectionSettles` that calls and
shutdowns end. Fairness: the tasks are polled, a reconnect that keeps being
possible succeeds, a writer that keeps finding frames takes one, and the hub answers what
it has. Bounds: `OUTBOUND_BUFFER` is 1, so that it fills up; the control channel holds 2
of the code's 4, which is more than the reader sends between two polls of the writer;
two sockets make one reconnect, with a second loss ending the run. Left out: the attempt
counter and the back-off, handshake and authentication, telemetry, the wire format,
progress frames. A drained call's frame that is still buffered may be flushed after
`Resume`; its answer finds no waiter, which the model has.

`HubPool` is one slot: borrowers that hit, miss, connect outside the lock, and return; the
idle sweep, which counts `Arc`s; eviction by a refused connection. `OneConnection` says
that a slot hands out one live connection; `UnusedIsClosed` that one that nobody holds
or asks for is closed (a borrower refused for its kind renews the idle clock, hence
the premise). Fairness: time passes and the reaper sweeps.

`HubSessions` is one session of the tool server: bind and unbind step by step under
their lock; routing, the loops, the calls and the shutdown outside of it. `CancelReaches`
is about the registry's look, insert, look again against `cancel_all` (`NoEscape`), a cancel
that comes first (`CancelApplied`) and tokens that nobody would find (`Cancellable`);
`RebindKeeps` (`FreshRegistryKept`, `BindKeepsCalls`) about a session that is bound again;
`SessionWindsDown` (`CancelledEnds`, `DeadLoopEnds`) about the end. `run` returns on a
shutdown or when the connection is over (`await_shutdown`, `server.rs:1641`; `RunExits`):
either way it aborts the loops and leaves registries open and calls running, and an aborted loop
may end with frames queued, inside the await of a hook (`LoopParks`).
Handlers need not return: only cancelled calls are assumed to notice. Three operations
make bind, unbind, bind and bind, bind, shutdown happen around one call. `serve`'s retry in
three attempts is one step.

`HubReady` is the reader's callbacks, the replay task and the marker. `MarkerSettles`:
a replay about to settle, with no disconnect since it began, has served every session
on the socket that is up now (`SettlesThisSocket`), and a late settle undoes neither a
terminal close nor a shutdown (`StaysOff`); `ReadyAgain`: no reconnect's wake-up is lost.

## WorkflowRun

One run. Every launch or resume is an episode: a thread with the journal in memory, a
cancellation token and a watcher. `pc[e]` is where episode `e` is: at the next call of the
script, reserving agents, waiting for the host, recording, releasing, ended, persisting its
status. The file is a sequence of lines, the last of which may be torn or lack its
newline; what is appended to such a line makes it garbage. `load` cuts or completes the
tail and insists on dense numbers. The script is deterministic; of results it matters
whether they are a value, an error, a null, a drop or a cancellation.

What the code does under several locks is several steps. A resume finds the run resumable
and loads the journal (`ResumeLoads`), then reconciles the agents and takes the run
(`ResumeRuns`); in between it holds the manager but not the tracker, so the thread and the
watcher of an episode that is not over go on. A cancel sets the token (`Cancel`), then the
status (`CancelMarks`), unless the watcher has reported something final in between. A pause
is one step: a report between its token and its status says the same as one after them. A
script may complete although it is told to stop, when the answer it waited for was its last
operation.

`disk` holds the manifests that a restart may find: `emit` queues one behind those that are
there (`Emit`), `persist_now` and `persist_ack` leave the newest only (`PersistNow`,
`Persists`), and `Crash` restores any of them, with the status, the message and the budget
of its time. `Persists` keeps a little more than the code may find when a cancel or an
interruption came after the report it waits for. An episode whose thread and watcher are over
keeps nothing (`Gone`).

`workflow` shows, for two episodes, one fault (a failed append, a dropped reply or a
crash) and one manifest that cannot be written:

* `JournalLoads`: whatever was cut short, a run that may be resumed can be;
* `ReplayIsFaithful`: a result the script has seen is the one it is given again
  (`ResultsAreFinal`), and a deterministic script does not diverge from its journal
  (`NeverDiverges`);
* `BudgetHeld`: agents in the journal and agents that run are never more than the cap;
* `NoOrphanThread`: a thread not told to stop belongs to the active, newest episode;
* `RunEnds` (`ActiveEnds`, `CancelledIsGone`): the run leaves `active`, a cancelled episode
  is gone (the thread and the watcher run, and the host answers or is cancelled).

A resume need not wait for the paused episode to end; the history variable `overtaken`
says that it did not, and that an episode was there when its journal was loaded. `JournalLoads`, `ResultsAreFinal` and `BudgetHeld` are stated as long as
it is false, `NeverDiverges` while every manifest was written, `NoOrphanThread` unless both
went wrong: the exceptions are real and listed under the findings. The four scripts are a panel of two
agents before a question, a call after one, an agent, and an agent in a `try` block; they have
every kind of call. The budget of one stops the panel, and the raise to two lets it go on; the
agents that are alone meet it exactly.

Left out: the script language, edited scripts, byte limits of the journal, the limit on
runs, `cancel_all_and_drain`, agent slots, schema retries, `BudgetExceeded` and
`AgentCallQuotaExceeded` answered by a spawn, scratch files. A fresh launch whose manifest
is not written leaves nothing.

## Proofs

Each theorem holds for every value of the constants that the module's `ASSUME` admits: any
number of callers, calls, tasks, sessions, iterations and episodes, any bound. The
invariants they rest on stand at the end of the component's module, under their own headings,
and TLC has checked each of them on an instance before it was proved.

| module | theorem | of | states |
| --- | --- | --- | --- |
| `CircuitBreakerProofs` | `TypeCorrect` | `Spec` | `[]TypeOK`: types, and no stamp is in the future |
| | `WindowCorrect` | `Spec` | `[]WindowSound`: the incremental counter equals the failures held |
| | `NeverHalfOpensClosedCorrect` | `Spec` | no step takes Closed to HalfOpen |
| | `MirrorCorrect`, `CoolDownCorrect` | `SerialSpec` | `[]MirrorAgrees`, `[]CoolDownRespected` |
| | `LeaseCorrect` | `Spec` | `LeaseTakenOnce`: a takeover moves the claim a whole lease ahead |
| | `SlotsCorrect` | `SerialSpec` | `SlotsFreeAtHalfOpen` |
| | `ProbeBudgetCorrect` | `SerialSpec` | `[]ProbeBudget`: at most `MaxProbes` claims younger than the lease |
| `BreakerRefinementProofs` | `AtomicCorrect` | `SerialSpec` | `AtomicBreaker`: it implements `BreakerSpec` |
| `SubagentProofs` | `OneHomeCorrect`, `StopCorrect`, `WaitsCorrect`, `HeardCorrect` | `Spec` | `[]OneHome`, `[]StopHolds`, `[]WaitsHeld`, `[]Heard` |
| | `SlotsUsedCorrect`, `TurnsCorrect` | `Spec` | `[]SlotsUsed`, `NoOvertaking` |
| `SchedulerProofs` | `NoStaleCorrect`, `RemovalCorrect` | `Spec` | `[]NoStaleReservation`, `[]RemovalIsFinal` |
| | `EventsCorrect`, `LogCorrect` | `Spec` | `[]EventsInOrder`, `[]LogAgrees` |
| | `ClockCorrect` | `Spec` | `ClockAdvances`: the version clock only goes on |
| `LoopsProofs` | `LoopGuardedCorrect`, `ChainCorrect`, `OverlapCorrect` | `Spec` | `[]LoopGuarded`, `[]ChainOfOneJob`, `[]OverlapOnlyAfterFailure` |
| `HubConnectionProofs` | `CallsCorrect`, `WriterCorrect` | `Spec` | `[]CallsKept`, `[]WriterFollows` |
| `HubClientProofs` | `OneConnectionCorrect` | `PoolSpec` | `[]OneConnection` |
| | `MarkerCorrect` | `ReadySpec` | `[]MarkerSettles` |
| | `CancelCorrect`, `RebindCorrect` | `SessionSpec` | `[]CancelReaches`, `RebindKeeps` |
| `WorkflowProofs` | `NoOrphanCorrect`, `JournalCorrect` | `Spec` | `[]NoOrphanThread`, `[]JournalLoads` |
| | `ReplayCorrect`, `BudgetCorrect` | `Spec` | `ReplayIsFaithful`, `[]BudgetHeld` |

With these, every safety property that a run expects to hold, invariant or action property,
is also a theorem.

Assumptions. Constants are naturals, and positive where a zero makes no sense (the window
cap, the word, buffers); the values that stand for "nothing" are none of the values they
stand beside (`None`, `Unset`, `Nothing`; `NoRemovalAssumption` says it of the scheduler's
removals and reservations, which are records and never a `None`). A workflow has at least one
episode (`MaxEpisodes`). `half_open_max_probes` is a `usize` (`UsizeAssumption`; without it
the counter would wrap below the limit and refuse nobody). The refinement needs
`WordAssumption`, that a `usize` has room for `MaxProbes + 1`: with 64 bits any limit the
configuration can hold but the largest. The specifications proved about state no
fairness; what they promise holds of the fair ones, which imply them.

The arguments, and why the properties are not inductive as they stand:

* Breaker. The type invariant is inductive by itself; the work is in the window, where
  lemmas on `Push` and `Evict` bound the prefix that eviction pops, and count the failures
  in it for `WindowSound`. The serial theorems share `SerialInv`: that the mirror agrees at rest
  says nothing about the middle of `trip`, so it adds that one caller is inside a call
  (`OneCall`), that what it read on entry still holds (`ReadingsHold`; exactly what overlapping
  calls break), that the mirror differs only between a transition's first and last store
  (`MirrorLag`) and that slots are taken in `Open` only until `trip` has zeroed the counter
  (`SlotsWhileOpen`). The budget of probes needs `ClaimInv` beside `SerialInv`: the
  counter bounds the young claims (`ClaimsCounted`), but a lease is taken over without
  counting, and a probe of an earlier episode may record late. Both are harmless because of
  their dates (`ClaimsDated`): no claim is later than `probe_claimed_at`, so an expired lease
  means that every other claim is old, and none is later than the last trip, so the cool-down
  makes those of earlier episodes old. The refinement needs both, and that `record` and the
  lease still hold what they read (`RecordReads`), that the counter runs one beyond the last
  slot at most (`CounterBounded`) and that a disabled breaker rests (`DisabledRests`):
  `RefinementInv`, with which each access is shown to stutter or to take the abstract step.
  `LeaseTakenOnce` holds of every interleaving, from `LeaseReadings` alone.
* Coordinator. An action is a composition of operators on the state, so the invariant is a
  predicate `Sound(s, R, B)` of any intermediate state: `R` are the subagents that have left
  the queue or have ended and are not finished yet, `B` the sessions that are closed or about
  to be. Each
  operator has a lemma saying how it moves `R` and `B`, and an action is proved by chaining
  them; `CoordinatorInv` is `Sound(co, {}, co.blocked)`.
* Slots and turns. `SlotsUsed` is broken inside every handler that frees a slot, so the
  invariant (`SlotInv`) is split: the queue is a line, holds Task spawns only and no session
  is over its limit (`Lined`), which every operator keeps; no slot is free for one that waits
  (`Filled`), which the sweep establishes from any `Lined` state. For the limit, take the
  last of a session's spawns that the sweep starts: the others are all among its rivals, and
  with them it still had a slot. For the full session, take the first that has to wait: its
  rivals were all started, and there were enough of them. For the turns, who is ahead of one that is
  started has fewer rivals. `NoOvertaking` speaks of a whole iteration, in which the reap may
  sweep before the command does; the relation `Turn` between two states says what survives
  the composition (order, sessions, and that nobody comes back to the queue).
* Scheduler. `RemovalInv` relates the version clock to every copy of a version that is under
  way (`ReservationInv`), and says that no copy of the tasks, wherever it waits to be written,
  has one that is gone (`CopiesClean`), that a task that is leaving is in no snapshot from
  the awaited one on (`DepartingAbsent`), and that the awaited tombstone is its own
  (`TombstoneOfDeparting`). A late write of an older snapshot, or a crash between the two
  stores, is what they are for.
* Events and log. `OrderInv` says that a version under way was spent: the clock has reached it,
  or it is the one reserved for the pending removal, which is sent again at the same
  version (`VersionsSpent`); what is stamped next outbids it (`VersionsDrawn`). `LogInv` adds
  what is under way to what is shown. A recurring task that is held, or whose expiry may yet be
  taken back (`Returning`), is shown or about to be (`NothingHidden`); what is shown and not
  held will be hidden, or the actor still owes its removal (`NothingInVain`); and no creation
  stands behind a removal of its task (`NoReturn`), so that both survive delivery.
* Loops. The guard is only as good as the answers the actor has waited for. `AnswersHold`
  says what an answer still means when it is used: nothing but this fire starts an iteration,
  so "not running" stays true, and a descendant can only go away. `ReadingKept` and
  `InboxKept` do the same for what was read and sent before the wait, `WatchersKept` for the
  late watcher, `ChainsKept` for the reset flag, `OthersFailed` for overlaps.
* Hub connection. `ConnectionInv` says what the control channel holds in each state of the
  reader and what the writer does with it (`WriterTold`, `WriterIdle`), and where the frame of
  a waiting call is (`CallersHeld`, `FramesKept`; `Uncopied` is a call that the drain under
  way will not find).
* Hub pool and readiness. A connection that is up is used only while it is in the slot
  (`UsedInSlot`), by borrowers of its kind (`KindAskedFor`); what a replay has served it
  served on this socket, if none was lost since (`ServedHere`).
* Hub session. `SessionInv`: a request is in one place until its call is spawned
  (`OnePlace`), so that the token of a call in flight is not the one being registered; a call
  not cancelled has its token in its loop's registry, and a registry that is closed and not
  being drained holds at most the one being registered (`TokensKept`), which look, insert, look
  again then finds; until a shutdown the registry in the map is the only open one and that
  of the loop in `session_handles`, or of one that ended when `run` returned (`RegistryKept`, with `BornInOrder` and `DrainsShut`);
  and a Cancel handled first is a tombstone until its request is registered (`AskedKept`).
* Workflow. The manager's record, the epoch and the tokens tell which thread is the
  current one (`ThreadsInv`; `ResumeHolds` says that an episode which was over when a resume
  loaded the journal stays over until it runs); while none was overtaken, a thread that runs
  has in memory exactly the lines of the file, which are dense (`MemoryIsFile`), a journal
  that was loaded is the file's unless somebody was there to append (`LoadedIsFile`), and
  every append, whole, torn or dropped, leaves a file that loads.
* Replay. `ReplayInv` fixes which numbers a call has: `Before(k)` counts those of the calls
  before it, so that a line is found under a number of its own call in every episode, and in what a
  resume has loaded, as long as every reservation was saved (`NumbersAgree`). A thread in the middle of a call holds the
  results that the journal has of it (`ThreadsPlaced`), and what the script was given is in
  the journal (`GivenKept`), hence given again.
* Budget. `agents_used` covers the agents in the file and those admitted, except under a thread
  that was told to stop: a resume that is refused, or not saved, resets the count beneath
  it. Such a thread reserves at most once more, which `UsedCovers` says by its place; it says
  so for every budget that a restart may find on disk (`Budgets`).

Proving changed the models in four places. `Applied` of `WorkflowRun` had overlapping
guards in a `CASE`, which TLC resolves by order and the logic does not; it is an
`IF` now. `Scheduler` and `SchedulerLoops` say what remains of a queue without
`SelectSeq`. The history of handled Cancels in `HubSessions` drops what an eviction from
the tombstones undid: with more Cancels than the instance of the run has, the property would
have blamed the loop for a documented limit. The values that a message or record may have are
named sets.

Only model-checked, and why:

* the temporal properties of fair specifications (`NeverStranded`, `NobodyWaits`,
  `QueueEmpties`, `ActorReturns`, `LoopGoesOn`, `ConnectionSettles`, `UnusedIsClosed`,
  `ReadyAgain`, `SessionWindsDown`, `RunEnds`): liveness and `ENABLED` are out of this prover's
  reach;
* `ResumableLoads` fails (see the findings).

## Findings

`workflow_overtaken`. Pausing a run marks it at once and leaves its thread to end by
itself; a resume loads the journal without waiting for it. The token does not take back a
reply that the host has already sent (an agent's answer is checked against it once more,
`host_service.rs:616`; after that, and for host calls that are not cancelled, it is in the
channel), and the old thread records it after the new episode has loaded the file, so two lines
carry the same number and the next resume is refused (`ResumableLoads`), where the user
guide says that a pause and resume "continues [...] from committed host-call results".

### Further disagreements

Met while modelling. Each property is in its module but in no configuration; adding it to
the one named shows the behaviour.

| property | add to | what the code does, and what it is held against |
| --- | --- | --- |
| `CircuitBreaker.MirrorAgrees` | `Breaker_threads.cfg` | the late `true` of a `trip` lands after another caller has left `Open` and stored `false`; `breaker.rs:41`: "Lock-free mirror of `state == Open`" |
| `CircuitBreaker.SlotsFreeAtHalfOpen` | `Breaker_threads.cfg` | a check between the first and the third store of `trip` reads the previous stamp and half-opens with the old slots taken; `breaker.rs:211`: "It is already 0". The lease repairs it (`HalfOpenRecovers`) |
| `SubagentCoordinator.LateSpawnRefused` | `Subagent_admission.cfg` | a nested spawn sent by a detached task finds its spawner finished, keeps the child's session as parent and is admitted while the top-level session is stopped; `coordinator.rs:72` excludes it. With the spawner still active `StopIsFinal` holds |
| `SchedulerLoops.DescendantsSkipFire` | `Loops.cfg` | the watcher of a failed iteration clears the anchor, so the next fire does not ask about descendants; `actor.rs:603`: "Skipping loop fire: a descendant of the previous iteration is still running" |
| `HubConnection.GapFramesKept` | `Hub_calls.cfg` | a writer that has just found the control channel empty takes the next frame though the Pause is there by then, and loses it; `connection.rs:1180`: "frames enqueued during the reconnect gap stay buffered" |
| `HubConnection.ShutdownResolves` | `Hub_calls.cfg` | a call that registers after the last drain has copied the keys and is sent before the writer ends is never resolved; `connection.rs:750` says that later sends fail |
| `HubPool.RefusedIsForgotten` | `Hub_client.cfg` | a connection refused before it is inserted is inserted afterwards; `connection.rs:496`: "evicts its own pool entry through this so the next caller opens a fresh socket" |
| `HubPool.SlotIsLive` | `Hub_client.cfg` | a terminal close ends the actor and leaves its entry; `pool.rs:70`: "Pool of live server connections" |
| `HubReady.ReadyMeansUp` | `Hub_client.cfg` | a disconnect between the epoch check and the settled callback; `server.rs:390`: "keeps a readiness marker from being resurrected while the socket is already down again" |
| `HubSessions.SemaphoreWithLoop` | `Hub_sessions.cfg` | an old loop's exit removes the semaphore of the session bound anew; `server.rs:904`: "Tie the per-session admission semaphore to the session-loop lifetime" |
| `HubSessions.UnboundIsUntracked` | `Hub_sessions.cfg` | every bind counts, also one that finds the session healthy; `connection.rs:769`: "Removes tracking when the last borrower drops" |
| `HubSessions.BoundIsReachable` | `Hub_sessions.cfg` | the router removes by key an inbox that was just replaced; `demux.rs:167`: "identity, not key-only" |
| `HubSessions.ShutdownLeavesNothing` | `Hub_sessions.cfg` | the teardown does not take the lock of bind; `server.rs:1757` |
| `WorkflowRun.PauseIsNoFailure` | `Workflow.cfg` with `MaxFaults = 0` | a request sent after the host has left its loop is dropped, and the paused run ends as failed; `manager.rs:1068`: "pause intent must map Cancelled → UserPaused" |
| `BudgetHeld` without `~overtaken` | `Workflow.cfg` | `release_agents` of the paused episode is not tied to its epoch; user guide: "an absolute cumulative cap on logical child-agent calls" |
| `NoOrphanThread` without its premise | `Workflow.cfg` | a watcher whose manifest is not written interrupts the run by its id after the epoch check; `manager.rs:341`: "or a quick resume could let this stale watcher stomp the successor" |
| `NeverDiverges` without `unsaved = 0` | `Workflow.cfg` with the script `try`, `ask` | a script catches the error of a reservation that was not saved, of which the journal knows nothing; `journal.rs:39`: "the workflow script is nondeterministic or was edited mid-run" |

## What could be added

Models still to write: the prompt queue and interjections; the upload queue with its
pause and retries; the retry policy as operators; the harness side of the hub SDK.

## Not modelled

The user interface, the sampler, MCP, authentication, updates, telemetry, sandboxing,
worktrees, memory and hooks are rendering or I/O against external services and the
operating system, with little state of their own to relate. The Python pipeline is
sequential, and its results are model calls and floating-point statistics. The shell and the
workspace are very large; the parts of them modelled here are the workflow manager, the
notification bridge and the readiness marker. The share of the repository that the models
cover is small for that reason: they are of the code whose orders no test enumerates.
