---------------------------- MODULE HubSessions ----------------------------
(***************************************************************************)
(* A session of a tool server (server.rs, cancel.rs, admission.rs and the  *)
(* session inboxes of demux.rs in xai-computer-hub-sdk): binding and       *)
(* unbinding it, its dispatch loop, its registry of cancellation tokens,   *)
(* its admission semaphore and the tool calls the loop spawns.             *)
(*                                                                         *)
(* Binds and unbinds hold session_bind_mu from their first to their last   *)
(* step.  The loops, the calls, the reader that routes frames into the     *)
(* inbox and the shutdown do not.  A loop that is aborted ends when it     *)
(* next yields; until then it goes on.  Loop, inbox and registry of a full *)
(* bind share one number.  Sessions do not touch each other's entries, so  *)
(* this is one of them.  Handlers, resolvers and their results are left    *)
(* out, and of the three admission permits the connection-wide and global  *)
(* ones are only what may make a call time out.                            *)
(***************************************************************************)
EXTENDS Integers, Sequences, FiniteSets

CONSTANTS
  ToolCalls,          \* tool call ids
  Nothing,            \* no frame
  SessionMax,         \* session_max: permits of the session's semaphore
  InboxBuffer,        \* SESSION_INBOX_BUFFER
  MaxTombstones,      \* MAX_PENDING_TOMBSTONES
  MaxLoops,           \* bound: full binds
  MaxOps,             \* bound: binds, unbinds and the shutdown
  MaxCancels          \* bound: Cancel frames

ASSUME HubSessionsAssumption ==
  /\ SessionMax \in Nat \ {0} /\ InboxBuffer \in Nat \ {0}
  /\ MaxTombstones \in Nat \ {0}
  /\ MaxLoops \in Nat \ {0} /\ MaxOps \in Nat
  /\ MaxCancels \in Nat

VARIABLES
  op,                 \* the step of the bind or unbind that holds session_bind_mu
  ops,                \* how many binds, unbinds and shutdowns there were
  stale,              \* the registry that a bind or unbind is draining
  refs,               \* connection.bound_sessions: the refcount of the session
  active,             \* the session is in active_sessions
  handle,             \* session_handles: the loop, or 0
  registry,           \* cancels: the registry, or 0
  inbox,              \* demux.sessions: the inbox, Peer, or 0
  sem,                \* session_sems: the semaphore, or 0
  sems,               \* how many semaphores were created
  loop,               \* where each loop is
  aborted,            \* the loops whose handle was aborted while they ran
  queue,              \* the frames in each inbox
  cur,                \* the request a loop is dispatching
  shut,               \* the registries that cancel_all has closed
  token,              \* per registry, the calls in its map
  tombs,              \* per registry, its pending tombstones
  task,               \* where each call is
  via,                \* the loop that spawned the call
  permit,             \* the semaphore the call is admitted by; 0 is a private one
  cancelled,          \* the calls whose token is cancelled
  routing,            \* the frame the reader is routing, and the inbox it looked up
  sent,               \* how many Cancel frames there were
  down,               \* the step of the shutdown
  snapshot,           \* active at the start of the shutdown
  doomed,             \* the registry the shutdown is draining
  serving,            \* run has not returned
  asked               \* history: the loops and the calls whose Cancel they handled and have
                      \* not evicted

binding == << op, ops, stale, refs, active >>
entries == << handle, registry, inbox, sem, sems >>
loops   == << loop, aborted, cur >>
cancels == << shut, token, tombs, cancelled >>
tasks   == << task, via, permit >>
router  == << routing, sent >>
ending  == << down, snapshot, doomed, serving >>
sessionVars == << binding, entries, loops, queue, cancels, tasks, router, ending, asked >>

Loops == 1..MaxLoops

\* The inbox of another tool server that bound the session on this connection.
Peer == MaxLoops + 1

Over == {"result", "cancelled", "overloaded"}

\* The number of the next full bind.
NextLoop == 1 + Cardinality({l \in Loops : loop[l] # "unborn"})

-----------------------------------------------------------------------------
(***************************************************************************)
(* The registry (cancel.rs).  cancel_all closes it and then drains it.     *)
(***************************************************************************)
CloseRegistry(r) == shut' = shut \cup {r}

DrainRegistry(r) ==
  /\ cancelled' = cancelled \cup token[r]
  /\ token' = [token EXCEPT ![r] = {}]
  /\ tombs' = [tombs EXCEPT ![r] = {}]

\* A live call is cancelled; else a tombstone is left, in place of any other one
\* when the set is full.
CancelCall(r, c) ==
  IF c \in token[r]
    THEN /\ cancelled' = cancelled \cup {c}
         /\ token' = [token EXCEPT ![r] = @ \ {c}]
         /\ asked' = asked \cup {<< r, c >>}
         /\ UNCHANGED tombs
    ELSE /\ \E evicted \in IF Cardinality(tombs[r]) >= MaxTombstones
                             THEN {{t} : t \in tombs[r]} ELSE {{}} :
              /\ tombs' = [tombs EXCEPT ![r] = (@ \ evicted) \cup {c}]
              /\ asked' = (asked \ ({r} \X evicted)) \cup {<< r, c >>}
         /\ UNCHANGED << cancelled, token >>

\* abort(): a loop that waits is gone, one that runs goes on until it yields.
Abort(l) ==
  IF l = 0 THEN UNCHANGED << loop, aborted >>
  ELSE /\ loop' = [loop EXCEPT ![l] = IF @ = "parked" THEN "done" ELSE @]
       /\ aborted' = aborted \cup {l}

-----------------------------------------------------------------------------
(***************************************************************************)
(* bind_session_local_with_metadata                                        *)
(***************************************************************************)
BindStart ==
  /\ op = "free" /\ ops < MaxOps /\ NextLoop <= MaxLoops
  /\ op' = "bind.gate"
  /\ ops' = ops + 1
  /\ refs' = refs + 1
  /\ active' = TRUE
  /\ UNCHANGED << stale, entries, loops, queue, cancels, tasks, router, ending, asked >>

\* Mutant: every bind is a full one.
Healthy_Never == FALSE

\* The loop of the session is alive and its registry open.
Healthy ==
  /\ handle # 0 /\ loop[handle] # "done"
  /\ registry # 0 /\ registry \notin shut

\* A bind of a healthy session is done; it has only refreshed what is served.
BindGate ==
  /\ op = "bind.gate"
  /\ op' = IF Healthy THEN "free" ELSE "bind.inbox"
  /\ UNCHANGED << ops, stale, refs, active, entries, loops, queue, cancels, tasks, router,
                  ending, asked >>

BindInbox ==
  /\ op = "bind.inbox"
  /\ inbox' = NextLoop
  /\ op' = "bind.admission"
  /\ UNCHANGED << ops, stale, refs, active, handle, registry, sem, sems, loops, queue, cancels,
                  tasks, router, ending, asked >>

\* ensure_session keeps an entry that is there.
BindAdmission ==
  /\ op = "bind.admission"
  /\ sem' = IF sem = 0 THEN sems + 1 ELSE sem
  /\ sems' = IF sem = 0 THEN sems + 1 ELSE sems
  /\ op' = "bind.registry"
  /\ UNCHANGED << ops, stale, refs, active, handle, registry, inbox, loops, queue, cancels,
                  tasks, router, ending, asked >>

\* The fresh registry goes in; an old one is closed and drained.
BindRegistry ==
  /\ op = "bind.registry"
  /\ registry' = NextLoop
  /\ stale' = registry
  /\ IF registry = 0
       THEN op' = "bind.spawn" /\ UNCHANGED shut
       ELSE op' = "bind.drain" /\ CloseRegistry(registry)
  /\ UNCHANGED << ops, refs, active, handle, inbox, sem, sems, loops, queue, token, tombs,
                  cancelled, tasks, router, ending, asked >>

BindDrain ==
  /\ op = "bind.drain"
  /\ DrainRegistry(stale)
  /\ op' = "bind.spawn"
  /\ UNCHANGED << ops, stale, refs, active, entries, loops, queue, shut, tasks, router,
                  ending, asked >>

BindSpawn ==
  /\ op = "bind.spawn"
  /\ handle' = NextLoop
  /\ loop' = [l \in Loops |->
                CASE l = NextLoop -> "parked"
                  [] l = handle /\ loop[l] = "parked" -> "done"
                  [] OTHER -> loop[l]]
  /\ aborted' = aborted \cup ({handle} \ {0})
  /\ op' = "free"
  /\ UNCHANGED << ops, stale, refs, active, registry, inbox, sem, sems, queue, cur, cancels,
                  tasks, router, ending, asked >>

-----------------------------------------------------------------------------
(***************************************************************************)
(* unbind_session                                                          *)
(***************************************************************************)
UnbindStart ==
  /\ op = "free" /\ ops < MaxOps
  /\ op' = "unbind.cancel"
  /\ ops' = ops + 1
  /\ active' = FALSE
  /\ UNCHANGED << stale, refs, entries, loops, queue, cancels, tasks, router, ending, asked >>

UnbindCancel ==
  /\ op = "unbind.cancel"
  /\ registry' = 0
  /\ stale' = registry
  /\ IF registry = 0
       THEN op' = "unbind.abort" /\ UNCHANGED shut
       ELSE op' = "unbind.drain" /\ CloseRegistry(registry)
  /\ UNCHANGED << ops, refs, active, handle, inbox, sem, sems, loops, queue, token, tombs,
                  cancelled, tasks, router, ending, asked >>

UnbindDrain ==
  /\ op = "unbind.drain"
  /\ DrainRegistry(stale)
  /\ op' = "unbind.abort"
  /\ UNCHANGED << ops, stale, refs, active, entries, loops, queue, shut, tasks, router,
                  ending, asked >>

UnbindAbort ==
  /\ op = "unbind.abort"
  /\ Abort(handle)
  /\ handle' = 0
  /\ op' = "unbind.inbox"
  /\ UNCHANGED << ops, stale, refs, active, registry, inbox, sem, sems, cur, queue, cancels,
                  tasks, router, ending, asked >>

UnbindInbox ==
  /\ op = "unbind.inbox"
  /\ inbox' = 0
  /\ op' = "unbind.admission"
  /\ UNCHANGED << ops, stale, refs, active, handle, registry, sem, sems, loops, queue, cancels,
                  tasks, router, ending, asked >>

UnbindAdmission ==
  /\ op = "unbind.admission"
  /\ sem' = 0
  /\ refs' = IF refs = 0 THEN 0 ELSE refs - 1
  /\ op' = "free"
  /\ UNCHANGED << ops, stale, active, handle, registry, inbox, sems, loops, queue, cancels,
                  tasks, router, ending, asked >>

-----------------------------------------------------------------------------
(***************************************************************************)
(* The reader of the connection: route_session looks the inbox up, lets go *)
(* of the map and sends.                                                   *)
(***************************************************************************)
Frames == [kind : {"request", "cancel"}, call : ToolCalls]

\* The reader routes nothing.
Idle == [frame |-> Nothing, to |-> 0]

RouteLookup(f) ==
  /\ routing = Idle
  /\ inbox \in Loops
  /\ IF f.kind = "request" THEN task[f.call] = "none" ELSE sent < MaxCancels
  /\ sent' = IF f.kind = "cancel" THEN sent + 1 ELSE sent
  /\ routing' = [frame |-> f, to |-> inbox]
  /\ task' = IF f.kind = "request" THEN [task EXCEPT ![f.call] = "sent"] ELSE task
  /\ UNCHANGED << binding, entries, loops, queue, cancels, via, permit, ending, asked >>

\* A request that finds the inbox full is refused, a notification is dropped.
RouteSend ==
  /\ routing # Idle
  /\ loop[routing.to] # "done"
  /\ LET l == routing.to
         c == routing.frame.call
     IN IF Len(queue[l]) < InboxBuffer
          THEN queue' = [queue EXCEPT ![l] = Append(@, routing.frame)] /\ UNCHANGED task
          ELSE /\ task' = IF routing.frame.kind = "request"
                            THEN [task EXCEPT ![c] = "overloaded"] ELSE task
               /\ UNCHANGED queue
  /\ routing' = Idle /\ UNCHANGED sent
  /\ UNCHANGED << binding, entries, loops, cancels, via, permit, ending, asked >>

\* The receiver is gone: the frame is dropped, and the binding with it.
RouteStale ==
  /\ routing # Idle
  /\ loop[routing.to] = "done"
  /\ inbox' = 0
  /\ routing' = Idle /\ UNCHANGED sent
  /\ UNCHANGED << binding, handle, registry, sem, sems, loops, queue, cancels, tasks, ending,
                  asked >>

\* Another tool server of the process, on the same connection, binds the session:
\* its inbox replaces this one.
PeerBinds ==
  /\ inbox \in Loops
  /\ inbox' = Peer
  /\ UNCHANGED << binding, handle, registry, sem, sems, loops, queue, cancels, tasks, router,
                  ending, asked >>

-----------------------------------------------------------------------------
(***************************************************************************)
(* run_session_loop                                                        *)
(***************************************************************************)
\* Every sender of the inbox is gone.
InboxClosed(l) == inbox # l /\ routing.to # l

LoopCancels(l) ==
  /\ loop[l] \in {"parked", "busy"}
  /\ queue[l] # << >> /\ Head(queue[l]).kind = "cancel"
  /\ CancelCall(l, Head(queue[l]).call)
  /\ queue' = [queue EXCEPT ![l] = Tail(@)]
  /\ loop' = [loop EXCEPT ![l] = "busy"]
  /\ UNCHANGED << binding, entries, aborted, cur, shut, tasks, router, ending >>

LoopTakes(l) ==
  /\ loop[l] \in {"parked", "busy"}
  /\ queue[l] # << >> /\ Head(queue[l]).kind = "request"
  /\ cur' = [cur EXCEPT ![l] = Head(queue[l]).call]
  /\ queue' = [queue EXCEPT ![l] = Tail(@)]
  /\ loop' = [loop EXCEPT ![l] = "check"]
  /\ UNCHANGED << binding, entries, aborted, cancels, tasks, router, ending, asked >>

\* execute_call is spawned with the token.
Spawned(l, c) ==
  /\ task' = [task EXCEPT ![c] = "spawned"]
  /\ via' = [via EXCEPT ![c] = l]
  /\ loop' = [loop EXCEPT ![l] = "busy"]
  /\ cur' = [cur EXCEPT ![l] = Nothing]
  /\ UNCHANGED permit

\* register: a closed registry cancels the token at once.
LoopChecks(l) ==
  /\ loop[l] = "check"
  /\ IF l \in shut
       THEN cancelled' = cancelled \cup {cur[l]} /\ Spawned(l, cur[l])
       ELSE loop' = [loop EXCEPT ![l] = "insert"] /\ UNCHANGED << cancelled, cur, tasks >>
  /\ UNCHANGED << binding, entries, aborted, queue, shut, token, tombs, router, ending, asked >>

LoopInserts(l) ==
  /\ loop[l] = "insert"
  /\ tombs' = [tombs EXCEPT ![l] = @ \ {cur[l]}]
  /\ cancelled' = IF cur[l] \in tombs[l] THEN cancelled \cup {cur[l]} ELSE cancelled
  /\ token' = [token EXCEPT ![l] = @ \cup {cur[l]}]
  /\ loop' = [loop EXCEPT ![l] = "recheck"]
  /\ UNCHANGED << binding, entries, aborted, cur, queue, shut, tasks, router, ending, asked >>

\* Mutant: the registry is not looked at again after the insert.
Missed_Never(l) == FALSE

\* The registry was closed, and perhaps drained, since the first look.
Missed(l) == l \in shut /\ cur[l] \in token[l]

LoopRechecks(l) ==
  /\ loop[l] = "recheck"
  /\ IF Missed(l)
       THEN /\ cancelled' = cancelled \cup {cur[l]}
            /\ token' = [token EXCEPT ![l] = @ \ {cur[l]}]
       ELSE UNCHANGED << cancelled, token >>
  /\ Spawned(l, cur[l])
  /\ UNCHANGED << binding, entries, aborted, queue, shut, tombs, router, ending, asked >>

\* The loop yields: with nothing to do it waits in recv.  One that was aborted is gone, with
\* frames still in its inbox when it yields to a handle_hook it awaits.
LoopParks(l) ==
  /\ loop[l] = "busy"
  /\ l \in aborted \/ (queue[l] = << >> /\ ~InboxClosed(l))
  /\ loop' = [loop EXCEPT ![l] = IF l \in aborted THEN "done" ELSE "parked"]
  /\ UNCHANGED << binding, entries, aborted, cur, queue, cancels, tasks, router, ending, asked >>

\* The inbox is closed and empty: the loop cancels its calls and removes the
\* session's entries, its registry only if it is still the one in the map.
LoopEnds(l) ==
  /\ loop[l] \in {"parked", "busy"} /\ queue[l] = << >> /\ InboxClosed(l)
  /\ CloseRegistry(l)
  /\ loop' = [loop EXCEPT ![l] = "drain"]
  /\ UNCHANGED << binding, entries, aborted, cur, queue, token, tombs, cancelled, tasks,
                  router, ending, asked >>

LoopDrains(l) ==
  /\ loop[l] = "drain"
  /\ DrainRegistry(l)
  /\ loop' = [loop EXCEPT ![l] = "admission"]
  /\ UNCHANGED << binding, entries, aborted, cur, queue, shut, tasks, router, ending, asked >>

LoopRemovesSession(l) ==
  /\ loop[l] = "admission"
  /\ sem' = 0
  /\ loop' = [loop EXCEPT ![l] = "registry"]
  /\ UNCHANGED << binding, handle, registry, inbox, sems, aborted, cur, queue, cancels, tasks,
                  router, ending, asked >>

LoopRemovesRegistry(l) ==
  /\ loop[l] = "registry"
  /\ registry' = IF registry = l THEN 0 ELSE registry
  /\ loop' = [loop EXCEPT ![l] = "done"]
  /\ UNCHANGED << binding, handle, inbox, sem, sems, aborted, cur, queue, cancels, tasks,
                  router, ending, asked >>

-----------------------------------------------------------------------------
(***************************************************************************)
(* execute_call and admission.rs                                           *)
(***************************************************************************)
\* The semaphore is looked up; without an entry the call gets one of its own.
CallLooksUp(c) ==
  /\ task[c] = "spawned"
  /\ permit' = [permit EXCEPT ![c] = sem]
  /\ task' = [task EXCEPT ![c] = "waiting"]
  /\ UNCHANGED << binding, entries, loops, queue, cancels, via, router, ending, asked >>

Running(s) == {c \in ToolCalls : task[c] = "running" /\ permit[c] = s}

HasPermit(s) == s = 0 \/ Cardinality(Running(s)) < SessionMax

CallAdmitted(c) ==
  /\ task[c] = "waiting"
  /\ HasPermit(permit[c])
  /\ task' = [task EXCEPT ![c] = "running"]
  /\ UNCHANGED << binding, entries, loops, queue, cancels, via, permit, router, ending, asked >>

\* The call leaves the registry of its loop when it is over.
CallEnds(c, how) ==
  /\ task' = [task EXCEPT ![c] = how]
  /\ token' = [token EXCEPT ![via[c]] = @ \ {c}]
  /\ UNCHANGED << binding, entries, loops, queue, shut, tombs, cancelled, via, permit, router,
                  ending, asked >>

CallOverloaded(c) == task[c] = "waiting" /\ CallEnds(c, "overloaded")

\* The select is biased towards the token.
CallReturns(c) == task[c] = "running" /\ c \notin cancelled /\ CallEnds(c, "result")

\* Mutant: the handler is not raced with the token.
CallCancelled_Never(c) == FALSE

CallCancelled(c) == task[c] = "running" /\ c \in cancelled /\ CallEnds(c, "cancelled")

-----------------------------------------------------------------------------
(***************************************************************************)
(* teardown_sessions, which does not take session_bind_mu                  *)
(***************************************************************************)
ShutdownStart ==
  /\ down = "no" /\ ops < MaxOps
  /\ ops' = ops + 1
  /\ down' = "cancel"
  /\ snapshot' = active
  /\ UNCHANGED << op, stale, refs, active, entries, loops, queue, cancels, tasks, router, doomed, serving, asked >>

ShutdownCloses ==
  /\ down = "cancel"
  /\ IF registry = 0 THEN UNCHANGED shut ELSE CloseRegistry(registry)
  /\ doomed' = registry
  /\ down' = "clear"
  /\ UNCHANGED << binding, entries, loops, queue, token, tombs, cancelled, tasks, router,
                  snapshot, serving, asked >>

ShutdownClears ==
  /\ down = "clear"
  /\ IF doomed = 0 THEN UNCHANGED << token, tombs, cancelled >> ELSE DrainRegistry(doomed)
  /\ registry' = 0
  /\ down' = "abort"
  /\ UNCHANGED << binding, handle, inbox, sem, sems, loops, queue, shut, tasks, router,
                  snapshot, doomed, serving, asked >>

ShutdownAborts ==
  /\ down = "abort"
  /\ Abort(handle)
  /\ handle' = 0
  /\ down' = "rest"
  /\ UNCHANGED << binding, registry, inbox, sem, sems, cur, queue, cancels, tasks, router,
                  snapshot, doomed, serving, asked >>

ShutdownRest ==
  /\ down = "rest"
  /\ down' = "done"
  /\ IF snapshot
       THEN inbox' = 0 /\ sem' = 0 /\ refs' = IF refs = 0 THEN 0 ELSE refs - 1
       ELSE UNCHANGED << inbox, sem, refs >>
  /\ UNCHANGED << op, ops, stale, active, handle, registry, sems, loops, queue, cancels, tasks,
                  router, snapshot, doomed, serving, asked >>

\* run sees the shutdown token, or the connection is over, and aborts the loops it finds.  The
\* registries stay in the map, open, and the calls run on.
RunExits ==
  /\ serving
  /\ serving' = FALSE
  /\ Abort(handle)
  /\ handle' = 0
  /\ UNCHANGED << binding, registry, inbox, sem, sems, cur, queue, cancels, tasks, router, down,
                  snapshot, doomed, asked >>

-----------------------------------------------------------------------------
SessionInit ==
  /\ op = "free" /\ ops = 0 /\ stale = 0 /\ refs = 0 /\ active = FALSE
  /\ handle = 0 /\ registry = 0 /\ inbox = 0 /\ sem = 0 /\ sems = 0
  /\ loop = [l \in Loops |-> "unborn"] /\ aborted = {} /\ cur = [l \in Loops |-> Nothing]
  /\ queue = [l \in Loops |-> << >>]
  /\ shut = {} /\ cancelled = {}
  /\ token = [l \in Loops |-> {}] /\ tombs = [l \in Loops |-> {}]
  /\ task = [c \in ToolCalls |-> "none"]
  /\ via = [c \in ToolCalls |-> 0] /\ permit = [c \in ToolCalls |-> 0]
  /\ routing = Idle /\ sent = 0
  /\ down = "no" /\ snapshot = FALSE /\ doomed = 0 /\ serving = TRUE
  /\ asked = {}

BindNext ==
  \/ BindStart \/ BindGate \/ BindInbox \/ BindAdmission \/ BindRegistry \/ BindDrain \/ BindSpawn
  \/ UnbindStart \/ UnbindCancel \/ UnbindDrain \/ UnbindAbort \/ UnbindInbox \/ UnbindAdmission

RouteNext == (\E f \in Frames : RouteLookup(f)) \/ RouteSend \/ RouteStale \/ PeerBinds

LoopNext ==
  \E l \in Loops :
    \/ LoopCancels(l) \/ LoopTakes(l) \/ LoopChecks(l) \/ LoopInserts(l) \/ LoopRechecks(l)
    \/ LoopParks(l) \/ LoopEnds(l) \/ LoopDrains(l) \/ LoopRemovesSession(l)
    \/ LoopRemovesRegistry(l)

CallNext ==
  \E c \in ToolCalls :
    CallLooksUp(c) \/ CallAdmitted(c) \/ CallOverloaded(c) \/ CallReturns(c) \/ CallCancelled(c)

ShutdownNext ==
  ShutdownStart \/ ShutdownCloses \/ ShutdownClears \/ ShutdownAborts \/ ShutdownRest \/ RunExits

SessionNext == BindNext \/ RouteNext \/ LoopNext \/ CallNext \/ ShutdownNext

SessionSpec == SessionInit /\ [][SessionNext]_sessionVars

-----------------------------------------------------------------------------
(***************************************************************************)
(* Fairness: the runtime polls every task that can run, the wait for       *)
(* admission has a deadline, and a handler returns or is dropped.          *)
(***************************************************************************)
SessionFairness ==
  /\ WF_sessionVars(RouteSend \/ RouteStale)
  /\ \A l \in Loops :
       WF_sessionVars(LoopCancels(l) \/ LoopTakes(l) \/ LoopChecks(l) \/ LoopInserts(l) \/ LoopRechecks(l)
               \/ LoopParks(l) \/ LoopEnds(l) \/ LoopDrains(l) \/ LoopRemovesSession(l)
               \/ LoopRemovesRegistry(l))
  /\ \A c \in ToolCalls : WF_sessionVars(CallLooksUp(c) \/ CallOverloaded(c) \/ CallCancelled(c))

SessionLiveSpec == SessionSpec /\ SessionFairness

-----------------------------------------------------------------------------
(***************************************************************************)
(* Properties.                                                             *)
(***************************************************************************)
SessionTypeOK ==
  /\ op \in {"free", "bind.gate", "bind.inbox", "bind.admission", "bind.registry", "bind.drain",
             "bind.spawn", "unbind.cancel", "unbind.drain", "unbind.abort", "unbind.inbox",
             "unbind.admission"}
  /\ ops \in 0..MaxOps /\ refs \in 0..MaxOps
  /\ {active, snapshot, serving} \subseteq BOOLEAN
  /\ {stale, handle, registry, doomed} \subseteq 0..MaxLoops
  /\ inbox \in {0, Peer} \cup Loops /\ sent \in 0..MaxCancels
  /\ sem \in 0..sems /\ sems \in 0..MaxLoops
  /\ loop \in [Loops -> {"unborn", "parked", "busy", "check", "insert", "recheck", "drain",
                         "admission", "registry", "done"}]
  /\ aborted \subseteq Loops /\ shut \subseteq Loops
  /\ cur \in [Loops -> ToolCalls \cup {Nothing}]
  /\ \A l \in Loops : queue[l] \in Seq(Frames) /\ Len(queue[l]) <= InboxBuffer
  /\ token \in [Loops -> SUBSET ToolCalls] /\ tombs \in [Loops -> SUBSET ToolCalls]
  /\ task \in [ToolCalls -> {"none", "sent", "spawned", "waiting", "running"} \cup Over]
  /\ via \in [ToolCalls -> 0..MaxLoops] /\ permit \in [ToolCalls -> 0..MaxLoops]
  /\ cancelled \subseteq ToolCalls
  /\ routing = Idle \/ (routing.frame \in Frames /\ routing.to \in Loops)
  /\ down \in {"no", "cancel", "clear", "abort", "rest", "done"}
  /\ asked \subseteq Loops \X ToolCalls

InFlight(c) == task[c] \in {"spawned", "waiting", "running"}

\* A cancel_all on registry r has closed it and has still to drain it.
Draining(r) ==
  \/ op \in {"bind.drain", "unbind.drain"} /\ stale = r
  \/ loop[r] = "drain"
  \/ down = "clear" /\ doomed = r

\* The loop runs and will take the next frame.
Serves(l) == loop[l] \in {"parked", "busy", "check", "insert", "recheck"} /\ l \notin aborted

\* A call that was dispatched while its registry was torn down does not escape:
\* once cancel_all is over every call of the registry is cancelled, whichever of
\* the two came first at each of their steps.
NoEscape ==
  \A c \in ToolCalls :
    InFlight(c) /\ via[c] \in shut /\ ~Draining(via[c]) => c \in cancelled

\* A Cancel that the loop has handled cancels the call, even if it came before the
\* request; only an eviction from the tombstones, when they are full, undoes it.
CancelApplied == \A c \in ToolCalls : InFlight(c) /\ << via[c], c >> \in asked => c \in cancelled

\* A call can be cancelled as long as it runs: its token is in the registry of the
\* session or of a loop that will drain it when it ends.
Cancellable ==
  down = "no" =>
    \A c \in ToolCalls :
      InFlight(c) /\ c \notin cancelled =>
        c \in token[via[c]] /\ (registry = via[c] \/ Draining(via[c]) \/ Serves(via[c]))

\* A cancellation reaches its call: of one that runs, of one being dispatched while
\* the registry goes, and of one that has not arrived yet.
CancelReaches == NoEscape /\ CancelApplied /\ Cancellable

\* The exit of an old loop takes nothing from the new one: the registry that was
\* installed with a loop stays in the map as long as the loop serves.
FreshRegistryKept ==
  down = "no" /\ op = "free" /\ handle # 0 /\ Serves(handle) /\ handle \notin shut =>
    registry = handle

\* A bind never cancels the calls of a loop that is alive.
BindKeepsCalls ==
  [][down = "no" /\ op = "bind.registry" /\ op' # op =>
       \A l \in shut' \ shut : ~Serves(l)]_sessionVars

\* To bind a session again takes nothing from what is alive of it.
RebindKeeps == []FreshRegistryKept /\ BindKeepsCalls

\* The semaphore of the session lives as long as its loop ("tie the per-session
\* admission semaphore to the session-loop lifetime").
SemaphoreWithLoop ==
  down = "no" /\ op = "free" /\ handle # 0 /\ Serves(handle) /\ inbox = handle => sem # 0

\* An unbound session is not tracked any more ("removes tracking when the last
\* borrower drops").
UnboundIsUntracked == down = "no" /\ op = "free" /\ ~active => refs = 0

\* A session that is bound and has a loop to serve it has an inbox (a late removal
\* must not be "clobbering a peer harness that rebound the same session in between").
BoundIsReachable ==
  down = "no" /\ op = "free" /\ active /\ handle # 0 /\ Serves(handle) => inbox # 0

\* After a shutdown the session is gone: no loop serves it and no call runs on.
ShutdownLeavesNothing ==
  down = "done" /\ op = "free" =>
    /\ inbox \in {0, Peer}
    /\ \A c \in ToolCalls : InFlight(c) => c \in cancelled

\* A cancelled call ends.
CancelledEnds == \A c \in ToolCalls : (InFlight(c) /\ c \in cancelled) ~> (task[c] \in Over)

\* A loop whose inbox was taken from it ends and does not linger.
DeadLoopEnds ==
  \A l \in Loops :
    (loop[l] \notin {"unborn", "done"} /\ inbox # l) ~> (loop[l] = "done" \/ inbox = l)

\* What is left of a session winds down.
SessionWindsDown == CancelledEnds /\ DeadLoopEnds

-----------------------------------------------------------------------------
(***************************************************************************)
(* The strengthening behind CancelReaches and RebindKeeps.                 *)
(***************************************************************************)
Dispatching == {"check", "insert", "recheck"}

Born(l) == loop[l] # "unborn"

\* What the steps below need to know of the types.
SessionShape ==
  /\ handle \in 0..MaxLoops /\ registry \in 0..MaxLoops /\ inbox \in {0, Peer} \cup Loops
  /\ loop \in [Loops -> {"unborn", "parked", "busy", "check", "insert", "recheck", "drain",
                         "admission", "registry", "done"}]
  /\ aborted \subseteq Loops /\ shut \subseteq Loops
  /\ cur \in [Loops -> ToolCalls \cup {Nothing}]
  /\ queue \in [Loops -> Seq(Frames)]
  /\ token \in [Loops -> SUBSET ToolCalls] /\ tombs \in [Loops -> SUBSET ToolCalls]
  /\ task \in [ToolCalls -> {"none", "sent", "spawned", "waiting", "running"} \cup Over]
  /\ via \in [ToolCalls -> 0..MaxLoops]
  /\ cancelled \subseteq ToolCalls
  /\ routing = Idle \/ (routing.frame \in Frames /\ routing.to \in Loops)

\* Loops are numbered in the order they are spawned.
BornInOrder ==
  /\ \E k \in 0..MaxLoops : \A l \in Loops : Born(l) <=> l <= k
  /\ op \in {"bind.gate", "bind.inbox", "bind.admission", "bind.registry", "bind.drain",
             "bind.spawn"} => NextLoop \in Loops

\* What is being drained is closed, and a loop that leaves has closed its own.
DrainsShut ==
  /\ op \in {"bind.drain", "unbind.drain"} => stale \in shut
  /\ down = "clear" => doomed = 0 \/ doomed \in shut
  /\ \A l \in Loops : loop[l] \in {"drain", "admission", "registry"} => l \in shut

\* Until the shutdown the registry in the map is the only one that is open; it is that of the
\* loop in session_handles or of one that was aborted when run returned, and a bind goes on past
\* the gate only if that loop does not serve.
RegistryKept ==
  /\ op \in {"unbind.drain", "unbind.abort", "unbind.inbox", "unbind.admission"} => registry = 0
  /\ down = "no" =>
       /\ op \in {"bind.drain", "bind.spawn"} => registry = NextLoop
       /\ \A l \in Loops : Born(l) /\ l \notin shut => registry = l
       /\ op \notin {"bind.drain", "bind.spawn"} /\ registry # 0 /\ registry \notin shut =>
            handle = registry \/ ~Serves(registry)
       /\ op \in {"bind.inbox", "bind.admission", "bind.registry"} /\ registry # 0
            /\ registry \notin shut => ~Serves(registry)

\* A request is in one place until its call is spawned: with the reader, in an inbox or with a
\* loop.
Routed(c) == routing # Idle /\ routing.frame = [kind |-> "request", call |-> c]
Queued(l, k, c) == k \in DOMAIN queue[l] /\ queue[l][k] = [kind |-> "request", call |-> c]
Current(l, c) == loop[l] \in Dispatching /\ cur[l] = c

OnePlace ==
  /\ \A l \in Loops : loop[l] \in Dispatching => cur[l] \in ToolCalls
  /\ \A c \in ToolCalls :
       /\ Routed(c) => task[c] = "sent"
       /\ \A l \in Loops : Current(l, c) => task[c] = "sent" /\ ~Routed(c)
       /\ \A l, m \in Loops : Current(l, c) /\ Current(m, c) => l = m
       /\ \A l \in Loops : \A k \in DOMAIN queue[l] : Queued(l, k, c) =>
            /\ task[c] = "sent" /\ ~Routed(c)
            /\ \A m \in Loops : ~Current(m, c)
            /\ \A m \in Loops : \A j \in DOMAIN queue[m] : Queued(m, j, c) => m = l /\ j = k

\* A call that is not cancelled has its token in the registry of its loop; a registry that was
\* drained holds at most the token that is being registered.
TokensKept ==
  /\ \A c \in ToolCalls : InFlight(c) => via[c] \in Loops /\ Born(via[c])
  /\ \A c \in ToolCalls : InFlight(c) /\ c \notin cancelled => c \in token[via[c]]
  /\ \A l \in shut : ~Draining(l) => \A c \in token[l] : loop[l] = "recheck" /\ cur[l] = c
  /\ \A l \in Loops : loop[l] = "recheck" => cur[l] \in token[l] \cup cancelled

\* A Cancel that came first is remembered until the call is registered.
AskedKept ==
  \A l \in Loops : \A c \in ToolCalls :
    << l, c >> \in asked /\ c \notin cancelled /\ task[c] \in {"none", "sent"} =>
      l \in shut \/ (c \in tombs[l] /\ ~(loop[l] = "recheck" /\ cur[l] = c))

SessionInv ==
  /\ SessionShape /\ BornInOrder /\ DrainsShut /\ RegistryKept /\ OnePlace
  /\ TokensKept /\ AskedKept /\ CancelApplied
=============================================================================
