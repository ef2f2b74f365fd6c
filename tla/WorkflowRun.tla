---------------------------- MODULE WorkflowRun ----------------------------
(***************************************************************************)
(* One run of a workflow: the engine that executes its script (engine.rs), *)
(* the journal that lets a later episode replay what an earlier one did    *)
(* (journal.rs), the tracker that keeps its status and its agent budget    *)
(* (tracker.rs), the manager that launches, pauses, cancels and resumes it *)
(* (manager.rs) and the host that answers its calls (host_service.rs).     *)
(*                                                                         *)
(* Every launch or resume is an episode: a thread with a copy of the       *)
(* journal in memory, a cancellation token and a watcher that reports its  *)
(* outcome.  All episodes of the run append to the same file.  The script  *)
(* is deterministic and immutable: a sequence of host calls, made one      *)
(* after the other.  Of the host's answers it matters whether they are a   *)
(* value, an error or a cancellation.  Phases, logs, telemetry, elapsed    *)
(* times and notifications are left out; of the manifest on disk it        *)
(* matters what status a restart finds.                                    *)
(***************************************************************************)
EXTENDS Integers, Sequences, FiniteSets

CONSTANTS
  Scripts,            \* the scripts a run may have; the calls of one are "call",
                      \* "agent", "try" (an agent call in a try block), "panel"
                      \* (parallel) and "ask" (await_user)
  Values,             \* results of host calls
  None,               \* no value
  Budget,             \* agent_budget at launch
  MaxBudget,          \* bound: agent_budget after raises
  MaxEpisodes,        \* bound: launches and resumes
  MaxFaults,          \* bound: failed appends, dropped replies and crashes
  MaxUnsaved          \* bound: manifests that could not be written

PanelWidth == 2

ASSUME WorkflowRunAssumption ==
  /\ Scripts \subseteq Seq({"call", "agent", "try", "panel", "ask"})
  /\ Budget \in Nat /\ MaxBudget \in Nat /\ MaxEpisodes \in Nat \ {0}
  /\ MaxFaults \in Nat /\ MaxUnsaved \in Nat

VARIABLES
  script,             \* the script of the run, which does not change
  status,             \* WorkflowRunState.status; one kind of pause stands for all
  epoch,              \* execution_epoch: the episode of this moment
  agents_used,        \* WorkflowRunState.agents_used
  agent_budget,       \* WorkflowRunState.agent_budget
  blame,              \* pause_message: it holds the message of a host error
  disk,               \* the manifests that a restart may find in state.json: the one on
                      \* disk and those queued behind it
  active,             \* WorkflowManager.active: the episode it holds, or 0
  manager,            \* the step of the launch or cancel that holds the manager
  loaded,             \* the journal a resume has loaded, and whether an episode was not over
  file,               \* journal.jsonl, line by line
  pc,                 \* where each episode is
  at,                 \* the call of the script it is at
  seq,                \* Ctx.seq
  entries,            \* Journal.entries
  vals,               \* the results of the call it is at
  out,                \* its WorkflowOutcome
  cancel,             \* its cancellation token
  pause_intent,       \* its pause_intent
  overtaken,          \* history: a resume did not wait for the episode before it
  given,              \* history: the result the script was given for each seq
  faults,             \* how many faults there were
  unsaved             \* how many manifests were not written

tracker == << status, epoch, agents_used, agent_budget, blame, disk >>
held    == << active, manager, loaded >>
thread  == << at, seq, entries, vals >>
ends    == << out, cancel, pause_intent >>
counts  == << faults, unsaved >>
aside   == << script, overtaken >>
vars    == << tracker, held, file, pc, thread, ends, given, aside, counts >>

Episodes == 1..MaxEpisodes

Paused    == {"paused", "budget"}
Terminal  == {"interrupted", "complete", "failed", "cancelled"}
Resumable == Paused \cup {"failed"}

IsAgent(k) == k \in {"agent", "try", "panel"}

Width(k) == IF k = "panel" THEN PanelWidth ELSE 1

\* An upper bound of the sequence numbers.
Seqs == 0..(PanelWidth * Len(script))

-----------------------------------------------------------------------------
(***************************************************************************)
(* The journal file.  A line is torn when the append was cut short, open   *)
(* when only its newline is missing, and garbage when something was        *)
(* appended to either.                                                     *)
(***************************************************************************)
Line(n, i, v) == [seq |-> n, call |-> i, val |-> v, form |-> "line"]

\* append_line
AppendLine(f, x) ==
  IF f # << >> /\ f[Len(f)].form \in {"torn", "open"}
    THEN [f EXCEPT ![Len(f)].form = "garbage"]
    ELSE Append(f, x)

\* What an append that fails, or that a crash cuts short, may leave behind.
PartialAppends(f, x) ==
  {f} \cup {AppendLine(f, [x EXCEPT !.form = how]) : how \in {"torn", "open", "line"}}

\* Mutant: a torn tail is kept.
Repaired_Kept(f) == f

\* load cuts a torn tail off and ends an open line.
Repaired(f) ==
  IF f = << >> THEN f
  ELSE CASE f[Len(f)].form = "torn" -> SubSeq(f, 1, Len(f) - 1)
         [] f[Len(f)].form = "open" -> [f EXCEPT ![Len(f)].form = "line"]
         [] OTHER -> f

\* load accepts a file whose lines parse and whose sequence numbers are dense.
Loads(f) ==
  \A i \in DOMAIN Repaired(f) : Repaired(f)[i].form = "line" /\ Repaired(f)[i].seq = i - 1

\* prune_trailing_host_error: the error that failed the run is tried again.
Prunes(f) == status = "failed" /\ blame /\ f # << >> /\ f[Len(f)].val = "err"

Pruned(f) == IF Prunes(f) THEN SubSeq(f, 1, Len(f) - 1) ELSE f

\* agent_reservation_count
AgentEntries(f) == Cardinality({i \in DOMAIN f : IsAgent(script[f[i].call])})

-----------------------------------------------------------------------------
(***************************************************************************)
(* The manager: launch, pause, cancel.                                     *)
(***************************************************************************)
Manifest(s, b, budget) == [status |-> s, blame |-> b, budget |-> budget]

\* The manifest of this moment.
Now == Manifest(status, blame, agent_budget)

\* emit queues the manifest: a restart may find it or an earlier one.
Emit == disk' = disk \cup {Now'}

\* persist_now writes it before it returns; what is still queued is older and skipped.
PersistNow == disk' = {Now'}

StartEpisode(e, f) ==
  /\ pc' = [pc EXCEPT ![e] = "step"]
  /\ entries' = [entries EXCEPT ![e] = f]
  /\ active' = e
  /\ epoch' = e
  /\ UNCHANGED << at, seq, vals, ends >>

NotLoaded == [entries |-> << >>, raced |-> FALSE]

Launch ==
  /\ manager = "free" /\ status = "none"
  /\ status' = "active"
  /\ StartEpisode(1, << >>)
  /\ UNCHANGED << agents_used, agent_budget, blame >>
  /\ PersistNow
  /\ UNCHANGED << manager, loaded, file, given, aside, counts >>

\* A resume finds the run resumable, loads its journal and prunes it.  The manager is held
\* until ResumeRuns, the tracker is not: the thread and the watcher of an episode that is not
\* over go on.
ResumeLoads ==
  LET f == Pruned(Repaired(file))
  IN /\ manager = "free" /\ epoch < MaxEpisodes
     /\ status \in Resumable
     /\ Loads(file)
     /\ manager' = "resume"
     /\ loaded' = [entries |-> f, raced |-> \E e \in 1..epoch : pc[e] # "gone"]
     /\ file' = f
     /\ given' = IF Prunes(Repaired(file)) THEN [given EXCEPT ![Len(f)] = None] ELSE given
     /\ UNCHANGED << tracker, active, pc, thread, ends, aside, counts >>

\* resume_run: a run that met its budget needs a higher one.
Accepts(used, budget) ==
  /\ status \in Resumable
  /\ status = "budget" => budget > agent_budget /\ used < budget

\* agents_used is set to what the loaded journal says.  The launch fails when the manifest
\* is not written.
ResumeRuns(budget) ==
  LET used == AgentEntries(loaded.entries)
  IN /\ manager = "resume"
     /\ manager' = "free" /\ loaded' = NotLoaded
     /\ agents_used' = used
     /\ \/ /\ Accepts(used, budget)
           /\ status' = "active" /\ agent_budget' = budget /\ blame' = FALSE
           /\ StartEpisode(epoch + 1, loaded.entries)
           /\ PersistNow
           /\ overtaken' = (overtaken \/ loaded.raced)
           /\ UNCHANGED << script, counts >>
        \/ /\ ~Accepts(used, budget)
           /\ UNCHANGED << status, epoch, agent_budget, blame, disk, active, pc, thread, ends, aside,
                           counts >>
        \/ /\ Accepts(used, budget) /\ unsaved < MaxUnsaved
           /\ unsaved' = unsaved + 1
           /\ status' = "interrupted" /\ agent_budget' = budget /\ blame' = FALSE
           /\ epoch' = epoch + 1
           /\ Emit
           /\ pc' = [pc EXCEPT ![epoch + 1] = "gone"]
           /\ UNCHANGED << active, thread, ends, aside, faults >>
     /\ UNCHANGED << file, given >>

CancelToken == cancel' = IF active = 0 THEN cancel ELSE [cancel EXCEPT ![active] = TRUE]

\* The token first, then the status: a watcher that reports in between says the same as one
\* that reports after.
Pause ==
  /\ manager = "free"
  /\ active # 0 /\ status \notin Terminal
  /\ CancelToken
  /\ pause_intent' = [pause_intent EXCEPT ![active] = TRUE]
  /\ active' = 0
  /\ status' = IF status = "active" THEN "paused" ELSE status
  /\ UNCHANGED << blame, agent_budget >>
  /\ Emit
  /\ UNCHANGED << epoch, agents_used, manager, loaded, file, pc, thread, out, given, aside, counts >>

Cancel ==
  /\ manager = "free"
  /\ status \in {"active"} \cup Paused
  /\ CancelToken
  /\ active' = 0
  /\ manager' = "cancel"
  /\ UNCHANGED << tracker, loaded, file, pc, thread, out, pause_intent, given, aside, counts >>

\* What the watcher has reported since may be final.
CancelMarks ==
  /\ manager = "cancel"
  /\ manager' = "free"
  /\ status' = IF status \in Terminal THEN status ELSE "cancelled"
  /\ UNCHANGED << blame, agent_budget >>
  /\ Emit
  /\ UNCHANGED << epoch, agents_used, active, loaded, file, pc, thread, ends, given, aside, counts >>

-----------------------------------------------------------------------------
(***************************************************************************)
(* The engine.  An outcome is the kind of WorkflowOutcome; "failed.host" is*)
(* a failure with the message of a recorded host error.                    *)
(***************************************************************************)
End(e, outcome) ==
  /\ pc' = [pc EXCEPT ![e] = "ended"]
  /\ out' = [out EXCEPT ![e] = outcome]

\* The thread and the watcher of the episode are over, and what they held is gone.
Gone(e) ==
  /\ pc' = [pc EXCEPT ![e] = "gone"]
  /\ at' = [at EXCEPT ![e] = 1] /\ seq' = [seq EXCEPT ![e] = 0]
  /\ entries' = [entries EXCEPT ![e] = << >>] /\ vals' = [vals EXCEPT ![e] = << >>]
  /\ out' = [out EXCEPT ![e] = "none"]
  /\ cancel' = [cancel EXCEPT ![e] = FALSE] /\ pause_intent' = [pause_intent EXCEPT ![e] = FALSE]

Continue(e, n) ==
  /\ pc' = [pc EXCEPT ![e] = "step"]
  /\ at' = [at EXCEPT ![e] = @ + 1]
  /\ seq' = [seq EXCEPT ![e] = @ + n]
  /\ UNCHANGED out

\* The script gets the results of the call: an error ends it unless it is caught.
\* replayed says that a pause of await_user is not a new one.
Deliver(e, vs, replayed) ==
  LET kind == script[at[e]]
  IN /\ given' = [n \in Seqs |-> IF n \in seq[e]..(seq[e] + Width(kind) - 1)
                                   THEN vs[n - seq[e] + 1] ELSE given[n]]
     /\ CASE \E i \in DOMAIN vs : vs[i] = "dropped" -> End(e, "failed") /\ UNCHANGED << at, seq >>
          [] kind \in {"call", "agent"} /\ vs[1] = "err" ->
               End(e, "failed.host") /\ UNCHANGED << at, seq >>
          [] kind = "ask" /\ ~replayed -> End(e, "paused") /\ UNCHANGED << at, seq >>
          [] OTHER -> Continue(e, Width(kind))

\* The results the journal in memory has for the call.
Replayed(e) ==
  LET n == Width(script[at[e]])
      known == IF Len(entries[e]) < seq[e] + n THEN Len(entries[e]) - seq[e] ELSE n
  IN [i \in 1..known |-> entries[e][seq[e] + i].val]

Live(e) == Width(script[at[e]]) - Len(Replayed(e))

\* replay: the journal has another call under this number.
Diverges(e) ==
  \E i \in 1..Len(Replayed(e)) : entries[e][seq[e] + i].call # at[e]

\* on_progress sees the token before the script goes on.
Stops(e) ==
  /\ pc[e] = "step" /\ cancel[e]
  /\ End(e, "cancelled")
  /\ UNCHANGED << tracker, held, file, thread, cancel, pause_intent, given, aside, counts >>

\* The last result of the script may have been its last operation.
Completes(e) ==
  /\ pc[e] = "step" /\ at[e] > Len(script)
  /\ End(e, "completed")
  /\ UNCHANGED << tracker, held, file, thread, cancel, pause_intent, given, aside, counts >>

Calls(e) ==
  /\ pc[e] = "step" /\ ~cancel[e] /\ at[e] <= Len(script)
  /\ vals' = [vals EXCEPT ![e] = Replayed(e)]
  /\ CASE Diverges(e) -> End(e, "diverged") /\ UNCHANGED << at, seq, given >>
       [] ~Diverges(e) /\ Live(e) = 0 -> Deliver(e, Replayed(e), TRUE)
       [] OTHER -> /\ pc' = [pc EXCEPT ![e] = IF IsAgent(script[at[e]]) THEN "reserve"
                                              ELSE "wait"]
                   /\ UNCHANGED << at, seq, out, given >>
  /\ UNCHANGED << tracker, held, file, entries, cancel, pause_intent, aside, counts >>

\* Mutant: a panel reserves one agent.
Reserves_One(e) ==
  /\ pc[e] = "reserve"
  /\ agents_used + 1 <= agent_budget
  /\ agents_used' = agents_used + 1
  /\ pc' = [pc EXCEPT ![e] = "wait"]
  /\ UNCHANGED << status, agent_budget, blame >>
  /\ PersistNow
  /\ UNCHANGED << epoch, held, file, thread, ends, given, aside, counts >>

\* reserve_agent_calls: all the live agents of the call, or none.
Reserves(e) ==
  /\ pc[e] = "reserve"
  /\ agents_used + Live(e) <= agent_budget
  /\ agents_used' = agents_used + Live(e)
  /\ pc' = [pc EXCEPT ![e] = "wait"]
  /\ UNCHANGED << status, agent_budget, blame >>
  /\ PersistNow
  /\ UNCHANGED << epoch, held, file, thread, ends, given, aside, counts >>

ReserveRefused(e) ==
  /\ pc[e] = "reserve"
  /\ \/ agents_used + Live(e) > agent_budget /\ End(e, "budget")
     \/ cancel[e] /\ End(e, "cancelled")
  /\ UNCHANGED << tracker, held, file, thread, cancel, pause_intent, given, aside, counts >>

\* The reservation was not written to the manifest: it is undone and the script gets
\* an error, of which the journal knows nothing.
ReserveUnsaved(e) ==
  /\ pc[e] = "reserve" /\ unsaved < MaxUnsaved
  /\ agents_used + Live(e) <= agent_budget
  /\ unsaved' = unsaved + 1
  /\ IF script[at[e]] = "try"
       THEN Continue(e, 0)
       ELSE End(e, "failed") /\ UNCHANGED << at, seq >>
  /\ UNCHANGED << tracker, held, file, entries, vals, cancel, pause_intent, given, aside, faults >>

\* The host answers the live calls.  Only a panel takes a failed agent for a null and
\* writes down a dropped reply.
Answers(e) ==
  UNION {Values,
         IF script[at[e]] = "panel" THEN {"null"} ELSE {"err"},
         IF cancel[e] THEN {"cancelled"} ELSE {}}

Answered(e) ==
  /\ pc[e] = "wait" /\ script[at[e]] # "ask"
  /\ \E vs \in [1..Live(e) -> Answers(e)] :
       /\ vals' = [vals EXCEPT ![e] = @ \o vs]
       /\ IF \E i \in 1..Live(e) : vs[i] = "cancelled"
            THEN IF IsAgent(script[at[e]])
                   THEN pc' = [pc EXCEPT ![e] = "release"] /\ UNCHANGED out
                   ELSE End(e, "cancelled")
            ELSE pc' = [pc EXCEPT ![e] = "record"] /\ UNCHANGED out
  /\ UNCHANGED << tracker, held, file, at, seq, entries, cancel, pause_intent, given, aside, counts >>

\* The host drops the reply: it failed, or it ended after a cancellation and took the
\* request with it.
ReplyDropped(e) ==
  /\ pc[e] = "wait" /\ script[at[e]] # "ask"
  /\ cancel[e] \/ faults < MaxFaults
  /\ faults' = IF cancel[e] THEN faults ELSE faults + 1
  /\ IF script[at[e]] = "panel"
       THEN \E vs \in [1..Live(e) -> Answers(e) \cup {"dropped"}] :
              /\ \E i \in 1..Live(e) : vs[i] = "dropped"
              /\ vals' = [vals EXCEPT ![e] = @ \o vs]
              /\ pc' = [pc EXCEPT ![e] = IF \E i \in 1..Live(e) : vs[i] = "cancelled"
                                          THEN "release" ELSE "record"]
              /\ UNCHANGED out
       ELSE End(e, "failed") /\ UNCHANGED vals
  /\ UNCHANGED << tracker, held, file, at, seq, entries, cancel, pause_intent, given, aside, unsaved >>

\* After a cancellation the host takes no request.
HostGone(e) ==
  /\ pc[e] \in {"reserve", "wait"} /\ script[at[e]] # "ask" /\ cancel[e]
  /\ End(e, "failed")
  /\ UNCHANGED << tracker, held, file, thread, cancel, pause_intent, given, aside, counts >>

\* await_user has nothing to wait for.
Asks(e) ==
  /\ pc[e] = "wait" /\ script[at[e]] = "ask"
  /\ vals' = [vals EXCEPT ![e] = << "null" >>]
  /\ pc' = [pc EXCEPT ![e] = "record"]
  /\ UNCHANGED << tracker, held, file, at, seq, entries, ends, given, aside, counts >>

\* The first terminal answer decides how the call ends.
Verdict(vs) ==
  IF \E i \in DOMAIN vs : vs[i] = "dropped" /\ \A j \in 1..(i - 1) : vs[j] # "cancelled"
    THEN "failed" ELSE "cancelled"

\* Mutant: the thread waits for the reply of a host that is gone.
Releases_Waits(e) ==
  LET live == Width(script[at[e]]) - (Len(entries[e]) - seq[e])
  IN /\ pc[e] = "release" /\ ~cancel[e]
     /\ agents_used' = IF agents_used < live THEN 0 ELSE agents_used - live
     /\ End(e, Verdict(vals[e]))
     /\ UNCHANGED << status, epoch, agent_budget, blame, disk, held, file, thread, cancel,
                     pause_intent, given, aside, counts >>

\* release_agent_calls: the host may be gone by now.
Releases(e) ==
  LET live == Width(script[at[e]]) - (Len(entries[e]) - seq[e])
  IN /\ pc[e] = "release"
     /\ UNCHANGED << status, agent_budget, blame >>
     /\ \/ /\ agents_used' = IF agents_used < live THEN 0 ELSE agents_used - live
           /\ PersistNow \/ UNCHANGED disk
        \/ UNCHANGED << agents_used, disk >>
     /\ End(e, Verdict(vals[e]))
     /\ UNCHANGED << epoch, held, file, thread, cancel, pause_intent, given, aside, counts >>

\* The line that record writes next.
NextLine(e) ==
  Line(Len(entries[e]), at[e], vals[e][Len(entries[e]) - seq[e] + 1])

\* record: the line is on disk before it is in memory, and there before the script
\* gets the result.
Records(e) ==
  /\ pc[e] = "record"
  /\ file' = AppendLine(file, NextLine(e))
  /\ entries' = [entries EXCEPT ![e] = Append(@, NextLine(e))]
  /\ IF Len(entries[e]) + 1 < seq[e] + Width(script[at[e]])
       THEN UNCHANGED << pc, at, seq, out, given >>
       ELSE Deliver(e, vals[e], FALSE)
  /\ UNCHANGED << tracker, held, vals, cancel, pause_intent, aside, counts >>

\* Mutant: the script gets its result though it is not written down.
RecordFails_Ignored(e) ==
  /\ pc[e] = "record" /\ faults < MaxFaults
  /\ faults' = faults + 1
  /\ file' \in PartialAppends(file, NextLine(e))
  /\ entries' = [entries EXCEPT ![e] = Append(@, NextLine(e))]
  /\ IF Len(entries[e]) + 1 < seq[e] + Width(script[at[e]])
       THEN UNCHANGED << pc, at, seq, out, given >>
       ELSE Deliver(e, vals[e], FALSE)
  /\ UNCHANGED << tracker, held, vals, cancel, pause_intent, aside, unsaved >>

RecordFails(e) ==
  /\ pc[e] = "record" /\ faults < MaxFaults
  /\ faults' = faults + 1
  /\ file' \in PartialAppends(file, NextLine(e))
  /\ End(e, "failed")
  /\ UNCHANGED << tracker, held, thread, cancel, pause_intent, given, aside, unsaved >>

-----------------------------------------------------------------------------
(***************************************************************************)
(* The watcher                                                             *)
(***************************************************************************)
\* apply_outcome and, after a pause, pause_user.
Applied(e) ==
  IF status \in {"interrupted", "failed", "cancelled"} THEN status
  ELSE IF pause_intent[e] /\ out[e] \in {"cancelled", "paused"}
         THEN IF status = "active" THEN "paused" ELSE status
  ELSE CASE out[e] = "completed" -> "complete"
         [] out[e] \in {"paused", "budget", "cancelled"} -> out[e]
         [] OTHER -> "failed"

\* Mutant: the watcher of an old episode reports too.
Superseded_Never(e) == FALSE

Superseded(e) == epoch # e

\* The children of the run may not end in time; then the run cannot be resumed.
Reports(e) ==
  /\ pc[e] = "ended" /\ ~Superseded(e)
  /\ \E drained \in BOOLEAN :
       /\ status' = IF drained THEN Applied(e) ELSE "interrupted"
       /\ blame' = (drained /\ status' = "failed"
                    /\ IF status = "failed" THEN blame ELSE out[e] = "failed.host")
  /\ pc' = [pc EXCEPT ![e] = "persist"]
  /\ UNCHANGED agent_budget
  /\ Emit
  /\ UNCHANGED << epoch, agents_used, held, file, thread, ends, given, aside, counts >>

IsSuperseded(e) ==
  /\ pc[e] = "ended" /\ Superseded(e)
  /\ Gone(e)
  /\ UNCHANGED << tracker, held, file, given, aside, counts >>

\* persist_ack: the manifest that was reported is on disk.  Only a resume, a cancel or an
\* interruption may have come after it.
Persists(e) ==
  /\ pc[e] = "persist"
  /\ Gone(e)
  /\ disk' = IF Superseded(e) THEN disk
             ELSE IF status \in {"cancelled", "interrupted"} THEN {m \in disk : m.status # "active"}
             ELSE {Now}
  /\ UNCHANGED << status, epoch, agents_used, agent_budget, blame, held, file, given, aside, counts >>

\* The manifest was not written: the run, whatever it is doing by now, is interrupted.
PersistFails(e) ==
  /\ pc[e] = "persist" /\ unsaved < MaxUnsaved
  /\ unsaved' = unsaved + 1
  /\ status' = "interrupted" /\ blame' = FALSE
  /\ Gone(e)
  /\ UNCHANGED agent_budget
  /\ Emit
  /\ UNCHANGED << epoch, agents_used, held, file, given, aside, faults >>

\* The process dies and a new one restores the run as the manifest on disk has it, which may
\* be an earlier one; what was active is interrupted.
Crash ==
  /\ status # "none" /\ faults < MaxFaults
  /\ faults' = faults + 1
  /\ \E e \in Episodes :
       file' \in IF pc[e] = "record" THEN PartialAppends(file, NextLine(e)) ELSE {file}
  /\ \E m \in disk :
       /\ status' = IF m.status = "active" THEN "interrupted" ELSE m.status
       /\ blame' = m.blame
       /\ agent_budget' = m.budget
       /\ disk' = {m}
  /\ pc' = [e \in Episodes |-> IF pc[e] = "unborn" THEN "unborn" ELSE "gone"]
  /\ at' = [e \in Episodes |-> 1] /\ seq' = [e \in Episodes |-> 0]
  /\ entries' = [e \in Episodes |-> << >>] /\ vals' = [e \in Episodes |-> << >>]
  /\ out' = [e \in Episodes |-> "none"]
  /\ cancel' = [e \in Episodes |-> FALSE] /\ pause_intent' = [e \in Episodes |-> FALSE]
  /\ active' = 0 /\ manager' = "free" /\ loaded' = NotLoaded
  /\ UNCHANGED << epoch, agents_used, given, aside, unsaved >>

-----------------------------------------------------------------------------
Init ==
  /\ script \in Scripts /\ overtaken = FALSE
  /\ status = "none" /\ epoch = 0 /\ agents_used = 0 /\ agent_budget = Budget /\ blame = FALSE
  /\ disk = {}
  /\ active = 0 /\ manager = "free" /\ loaded = NotLoaded /\ file = << >>
  /\ pc = [e \in Episodes |-> "unborn"]
  /\ at = [e \in Episodes |-> 1] /\ seq = [e \in Episodes |-> 0]
  /\ entries = [e \in Episodes |-> << >>] /\ vals = [e \in Episodes |-> << >>]
  /\ out = [e \in Episodes |-> "none"]
  /\ cancel = [e \in Episodes |-> FALSE] /\ pause_intent = [e \in Episodes |-> FALSE]
  /\ given = [n \in Seqs |-> None]
  /\ faults = 0 /\ unsaved = 0

ManagerNext ==
  \/ Launch \/ ResumeLoads \/ (\E b \in agent_budget..MaxBudget : ResumeRuns(b))
  \/ Pause \/ Cancel \/ CancelMarks

EngineNext ==
  \E e \in Episodes :
    \/ Stops(e) \/ Completes(e) \/ Calls(e)
    \/ Reserves(e) \/ ReserveRefused(e) \/ ReserveUnsaved(e)
    \/ Answered(e) \/ ReplyDropped(e) \/ HostGone(e) \/ Asks(e) \/ Releases(e)
    \/ Records(e) \/ RecordFails(e)

WatcherNext ==
  \E e \in Episodes : Reports(e) \/ IsSuperseded(e) \/ Persists(e) \/ PersistFails(e)

Next == ManagerNext \/ EngineNext \/ WatcherNext \/ Crash

Spec == Init /\ [][Next]_vars

(***************************************************************************)
(* Fairness: the thread of an episode and its watcher run, and the host    *)
(* answers or is cancelled.                                                *)
(***************************************************************************)
Fairness ==
  \A e \in Episodes :
    /\ WF_vars(Stops(e) \/ Completes(e) \/ Calls(e) \/ Reserves(e) \/ ReserveRefused(e)
               \/ Answered(e) \/ Asks(e) \/ Releases(e) \/ Records(e))
    /\ WF_vars(Reports(e) \/ IsSuperseded(e) \/ Persists(e))

LiveSpec == Spec /\ Fairness

-----------------------------------------------------------------------------
(***************************************************************************)
(* Properties                                                              *)
(***************************************************************************)
Results == Values \cup {"err", "null", "dropped", "cancelled"}

Lines ==
  [seq : Seqs, call : DOMAIN script, val : Results, form : {"line", "torn", "open", "garbage"}]

Manifests ==
  [status : {"active"} \cup Paused \cup Terminal, blame : BOOLEAN, budget : Budget..MaxBudget]

TypeOK ==
  /\ status \in {"none", "active"} \cup Paused \cup Terminal
  /\ epoch \in 0..MaxEpisodes /\ active \in 0..epoch
  /\ agents_used \in 0..agent_budget /\ agent_budget \in Budget..MaxBudget
  /\ blame \in BOOLEAN /\ disk \subseteq Manifests
  /\ manager \in {"free", "resume", "cancel"} /\ loaded.raced \in BOOLEAN
  /\ \A i \in DOMAIN loaded.entries : loaded.entries[i] \in Lines
  /\ \A i \in DOMAIN file : file[i] \in Lines
  /\ pc \in [Episodes -> {"unborn", "step", "reserve", "wait", "record", "release", "ended",
                          "persist", "gone"}]
  /\ \A e \in Episodes :
       /\ at[e] \in 1..(Len(script) + 1) /\ seq[e] \in Seqs
       /\ \A i \in DOMAIN entries[e] : entries[e][i] \in Lines
       /\ \A i \in DOMAIN vals[e] : vals[e][i] \in Results
       /\ out[e] \in {"none", "completed", "paused", "budget", "cancelled", "failed",
                      "failed.host", "diverged"}
  /\ cancel \in [Episodes -> BOOLEAN] /\ pause_intent \in [Episodes -> BOOLEAN]
  /\ \A n \in Seqs : given[n] \in Results \cup {None}
  /\ faults \in 0..MaxFaults /\ unsaved \in 0..MaxUnsaved

Running(e) == pc[e] \in {"step", "reserve", "wait", "record", "release"}

\* The agents of an episode that are admitted and not yet in the journal.
Admitted(e) ==
  IF pc[e] \in {"wait", "record"} /\ IsAgent(script[at[e]])
    THEN Width(script[at[e]]) - (Len(entries[e]) - seq[e]) ELSE 0

\* A run that may be resumed can be: whatever was cut short, its journal loads.
\* Two episodes that append at once are what ResumableLoads is about.
JournalLoads == ~overtaken /\ status \in Resumable => Loads(file)

\* The same of every run, however quickly it was resumed: "A same-process pause/resume
\* continues [...] from committed host-call results" (user guide, slash commands).
ResumableLoads == status \in Resumable => Loads(file)

\* "An absolute cumulative cap on logical child-agent calls": the agents in the
\* journal and the ones that run are never more than the budget, as long as one
\* episode runs at a time.
BudgetHeld ==
  ~overtaken /\ epoch > 0 => AgentEntries(Repaired(file)) + Admitted(epoch) <= agent_budget

\* What the script was once given for a call it is given again: no crash, pause,
\* failed append or resume changes a result it has seen, as long as one episode runs
\* at a time.
ResultsAreFinal ==
  [][~overtaken' => \A n \in Seqs : given[n] # None /\ given'[n] # None => given'[n] = given[n]]_vars

\* A thread that was not told to stop belongs to a run that is active, and is its
\* newest: no late report takes the run from under it.  Only the manifest that an
\* overtaken episode fails to write does.
NoOrphanThread ==
  ~(overtaken /\ unsaved > 0) =>
    \A e \in Episodes : Running(e) /\ ~cancel[e] => status = "active" /\ epoch = e

\* Only a script that "is nondeterministic or was edited mid-run" diverges from its
\* journal, and this one is neither.  Only a reservation that is not saved makes it one:
\* the journal does not know the error that the script was given.
NeverDiverges == unsaved = 0 => \A e \in Episodes : out[e] # "diverged"

\* A resumed script sees what it saw before: the same calls and the same results.
ReplayIsFaithful == []NeverDiverges /\ ResultsAreFinal

\* To pause a run is not to fail it: without a fault, an episode the user paused does
\* not end as failed, so that the run "continues [...] from committed host-call results".
PauseIsNoFailure == \A e \in Episodes : pause_intent[e] => out[e] # "failed"

\* A run does not stay active for ever: its thread ends and the end is reported.
ActiveEnds == (status = "active") ~> (status # "active")

\* An episode that is told to stop is gone at last, so that its slot is free.
CancelledIsGone == \A e \in Episodes : cancel[e] ~> (pc[e] = "gone")

\* Runs and cancelled episodes come to an end.
RunEnds == ActiveEnds /\ CancelledIsGone

-----------------------------------------------------------------------------
(***************************************************************************)
(* The strengthening behind NoOrphanThread and JournalLoads.               *)
(***************************************************************************)

\* The part of the state that says who runs.
ThreadsTyped ==
  /\ pc \in [Episodes -> {"unborn", "step", "reserve", "wait", "record", "release", "ended",
                          "persist", "gone"}]
  /\ cancel \in [Episodes -> BOOLEAN] /\ overtaken \in BOOLEAN
  /\ epoch \in Nat /\ unsaved \in Nat
  /\ \A m \in disk : m.status # "none"

\* Episodes are started in order; as long as none is overtaken the ones before the
\* newest are gone, except after a resume that failed to save its manifest.
InOrder ==
  /\ \A e \in Episodes : pc[e] = "unborn" <=> e > epoch
  /\ status = "none" => active = 0 /\ \A e \in Episodes : pc[e] = "unborn"
  /\ ~overtaken /\ status # "interrupted" => \A e \in Episodes : e < epoch => pc[e] = "gone"
  /\ ~overtaken => \A d, e \in Episodes : Running(d) /\ Running(e) => d = e
  /\ ~overtaken /\ status = "failed" => \A e \in Episodes : ~Running(e)

\* A thread that was not told to stop is the one that the manager holds; while a cancel is
\* between its two steps it holds none.
HeldByManager ==
  /\ manager = "cancel" => active = 0 /\ status # "none"
  /\ ~(overtaken /\ unsaved > 0) =>
       \A e \in Episodes : Running(e) /\ ~cancel[e] => status = "active" /\ epoch = e /\ active = e

\* While a resume is between its two steps the run is not active, and an episode that was over
\* when the journal was loaded still is.
ResumeHolds ==
  manager = "resume" =>
    /\ status \notin {"none", "active"} /\ epoch + 1 \in Episodes
    /\ loaded.raced \in BOOLEAN
    /\ ~loaded.raced => \A e \in Episodes : pc[e] \in {"unborn", "gone"}

ThreadsInv == ThreadsTyped /\ InOrder /\ HeldByManager /\ ResumeHolds

\* A sequence of lines, whatever they hold.
IsLine(x) == x = [seq |-> x.seq, call |-> x.call, val |-> x.val, form |-> x.form]

IsLines(f) == f \in Seq({f[i] : i \in DOMAIN f}) /\ \A i \in DOMAIN f : IsLine(f[i])

Dense(f) == \A i \in DOMAIN f : f[i].form = "line" /\ f[i].seq = i - 1

\* As long as no episode is overtaken the file loads, and a thread that runs has in
\* memory what is in the file, which then has no torn tail.
MemoryIsFile ==
  /\ DOMAIN entries = Episodes
  /\ ~overtaken =>
       /\ IsLines(file) /\ Loads(file)
       /\ \A e \in Episodes : Running(e) => entries[e] = file /\ Dense(file)

\* As long as no episode is overtaken, a journal that was loaded is dense and is what the file
\* holds, unless an episode that was not over has appended to it since; such a one makes no
\* further call.
LoadedIsFile ==
  manager = "resume" /\ ~overtaken =>
    /\ IsLines(loaded.entries) /\ Dense(loaded.entries)
    /\ ~loaded.raced \/ (\E e \in Episodes : pc[e] = "reserve") => loaded.entries = file

\* A run that was not launched has written nothing.
NothingYet == status = "none" => file = << >>

JournalInv == ThreadsInv /\ MemoryIsFile /\ LoadedIsFile /\ NothingYet

-----------------------------------------------------------------------------
(***************************************************************************)
(* The strengthening behind ReplayIsFaithful.                              *)
(***************************************************************************)

\* How many numbers the calls before call k take.
Before(k) ==
  (k - 1) + (PanelWidth - 1) * Cardinality({i \in 1..(k - 1) : script[i] = "panel"})

\* The number n is one of call k.
Belongs(n, k) == k \in DOMAIN script /\ n \in Before(k)..(Before(k) + Width(script[k]) - 1)

MidCall(e) == pc[e] \in {"reserve", "wait", "record", "release"}

\* A thread in the middle of a call has replayed what the journal has of it, which is
\* not all, and what it has of the results is what the journal says.
PlacedAt(e) ==
  /\ pc[e] = "unborn" => at[e] = 1 /\ seq[e] = 0
  /\ Running(e) => IsLines(entries[e]) /\ seq[e] <= Len(entries[e])
  /\ MidCall(e) =>
       at[e] \in DOMAIN script /\ Len(entries[e]) < seq[e] + Width(script[at[e]])
  /\ pc[e] \in {"reserve", "wait"} => vals[e] = Replayed(e)
  /\ pc[e] = "record" =>
       \A i \in 1..(Len(entries[e]) - seq[e]) : vals[e][i] = entries[e][seq[e] + i].val

ThreadsPlaced ==
  /\ script \in Scripts
  /\ at \in [Episodes -> Nat \ {0}] /\ seq \in [Episodes -> Nat]
  /\ DOMAIN vals = Episodes /\ DOMAIN out = Episodes
  /\ \A e \in Episodes : PlacedAt(e)

\* As long as every reservation was saved, a call has the same numbers in every
\* episode, and a line is found under a number of its call.
NumberedAt(e) ==
  /\ out[e] # "diverged"
  /\ Running(e) => /\ seq[e] = Before(at[e])
                   /\ \A i \in DOMAIN entries[e] : Belongs(i - 1, entries[e][i].call)

NumbersAgree ==
  /\ IsLines(file) /\ IsLines(loaded.entries)
  /\ unsaved = 0 => /\ \A i \in DOMAIN file : Belongs(file[i].seq, file[i].call)
                    /\ \A e \in Episodes : NumberedAt(e)
                    /\ manager = "resume" =>
                         \A i \in DOMAIN loaded.entries : Belongs(i - 1, loaded.entries[i].call)

\* What the script was given is in the journal.
GivenKept ==
  /\ DOMAIN given = Seqs
  /\ ~overtaken => \A n \in Seqs : given[n] # None =>
       n + 1 \in DOMAIN Repaired(file) /\ given[n] = Repaired(file)[n + 1].val

ReplayInv == JournalInv /\ ThreadsPlaced /\ NumbersAgree /\ GivenKept

(***************************************************************************)
(* The strengthening behind BudgetHeld: the tracker's count covers what is *)
(* in the file and what the thread has admitted.  A resume that starts no  *)
(* thread resets it under one that was told to stop, which may be about to *)
(* reserve, but will not do so twice.  What a restart may find on disk is  *)
(* enough as well: a reservation is written down before it is granted.     *)
(***************************************************************************)
Budgets == {agent_budget} \cup {m.budget : m \in disk}

CoveredAt(e, b) ==
  /\ AgentEntries(file) + Admitted(e) <= b
  /\ pc[e] = "reserve" => AgentEntries(file) <= agents_used
  /\ ~cancel[e] => AgentEntries(file) + Admitted(e) <= agents_used

UsedCovers ==
  /\ agents_used \in Nat /\ Budgets \subseteq Nat /\ epoch <= MaxEpisodes
  /\ ~overtaken => \A b \in Budgets :
       /\ AgentEntries(Repaired(file)) <= b
       /\ \A e \in Episodes : Running(e) => CoveredAt(e, b)

BudgetInv == ReplayInv /\ UsedCovers

=============================================================================
