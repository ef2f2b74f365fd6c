--------------------------- MODULE WorkflowProofs ---------------------------
(***************************************************************************)
(* Proofs about a workflow run, for every set of scripts, every budget and *)
(* every number of episodes and faults: no thread goes on for a run that   *)
(* has another one, the journal of a run that may be resumed loads, a      *)
(* replay is faithful, and the budget of agents is a cap.                  *)
(***************************************************************************)
EXTENDS WorkflowRun, SequenceTheorems, FiniteSetTheorems, TLAPS

Places == {"unborn", "step", "reserve", "wait", "record", "release", "ended", "persist", "gone"}

(***************************************************************************)
(* Who runs                                                                *)
(***************************************************************************)

\* What every step of an engine has in common: its own thread goes on or ends, and
\* the manager's state and the tokens stay as they are.
EngineMoves(e) ==
  /\ Running(e)
  /\ pc' \in [Episodes -> Places]
  /\ pc'[e] # "unborn" /\ pc'[e] # "gone"
  /\ \A d \in Episodes : d # e => pc'[d] = pc[d]
  /\ status' = status /\ epoch' = epoch
  /\ active' = active /\ manager' = manager /\ loaded' = loaded
  /\ disk' = disk \/ disk' = {Now}
  /\ pc'[e] = "reserve" => ~cancel[e]
  /\ cancel' = cancel /\ overtaken' = overtaken
  /\ unsaved' \in Nat /\ unsaved' >= unsaved

\* Every action of the engine is such a step.
LEMMA EngineSummary ==
  ASSUME ThreadsTyped, EngineNext
  PROVE  \E e \in Episodes : EngineMoves(e)
<1>1. PICK e \in Episodes :
        \/ Stops(e) \/ Completes(e) \/ Calls(e)
        \/ Reserves(e) \/ ReserveRefused(e) \/ ReserveUnsaved(e)
        \/ Answered(e) \/ ReplyDropped(e) \/ HostGone(e) \/ Asks(e) \/ Releases(e)
        \/ Records(e) \/ RecordFails(e)
  BY DEF EngineNext
<1>2. pc \in [Episodes -> Places] /\ unsaved \in Nat
  BY DEF ThreadsTyped, Places
<1>3. ASSUME NEW p \in {"step", "reserve", "wait", "record", "release", "ended"},
             pc' = [pc EXCEPT ![e] = p]
      PROVE  /\ pc' \in [Episodes -> Places]
             /\ pc'[e] # "unborn" /\ pc'[e] # "gone"
             /\ \A d \in Episodes : d # e => pc'[d] = pc[d]
  BY <1>2, <1>3 DEF Places
<1>4. ASSUME pc' = pc, Running(e)
      PROVE  /\ pc' \in [Episodes -> Places]
             /\ pc'[e] # "unborn" /\ pc'[e] # "gone"
             /\ \A d \in Episodes : d # e => pc'[d] = pc[d]
  BY <1>2, <1>4 DEF Running
<1>5. ASSUME UNCHANGED << status, epoch, held, cancel, overtaken >>,
             disk' = disk \/ disk' = {Now}, unsaved' \in {unsaved, unsaved + 1}, Running(e),
             \/ \E p \in {"step", "wait", "record", "release", "ended"} :
                  pc' = [pc EXCEPT ![e] = p]
             \/ pc' = [pc EXCEPT ![e] = "reserve"] /\ ~cancel[e]
             \/ pc' = pc /\ pc[e] = "record"
      PROVE  EngineMoves(e)
  <2>0. pc'[e] = "reserve" => ~cancel[e]
    BY <1>2, <1>5
  <2>1. unsaved' \in Nat /\ unsaved' >= unsaved
    BY <1>2, <1>5
  <2>2. QED
    BY <1>3, <1>4, <1>5, <2>0, <2>1 DEF EngineMoves, held
<1>6. CASE Stops(e) \/ Completes(e) \/ ReserveRefused(e) \/ HostGone(e) \/ Releases(e)
  BY <1>5, <1>6 DEF Stops, Completes, ReserveRefused, HostGone, Releases, End, Running,
                    tracker, aside, counts, PersistNow, Now, Manifest
<1>7. CASE Reserves(e) \/ Asks(e)
  BY <1>5, <1>7 DEF Reserves, Asks, Running, tracker, aside, counts, ends, PersistNow, Now,
                    Manifest
<1>8. CASE Answered(e)
  BY <1>5, <1>8 DEF Answered, End, Running, tracker, aside, counts
<1>9. CASE ReplyDropped(e)
  BY <1>5, <1>9 DEF ReplyDropped, End, Running, tracker, aside, counts
<1>10. CASE ReserveUnsaved(e)
  BY <1>5, <1>10 DEF ReserveUnsaved, End, Continue, Running, tracker, aside, counts
<1>11. ASSUME NEW vs, NEW replayed, Deliver(e, vs, replayed)
       PROVE  \E p \in {"step", "ended"} : pc' = [pc EXCEPT ![e] = p]
  BY <1>11 DEF Deliver, End, Continue
<1>12. CASE Calls(e)
  <2>1. \E p \in {"step", "reserve", "wait", "ended"} : pc' = [pc EXCEPT ![e] = p]
    <3>1. CASE Diverges(e)
      BY <1>12, <3>1 DEF Calls, End
    <3>2. CASE ~Diverges(e) /\ Live(e) = 0
      BY <1>12, <1>11, <3>2 DEF Calls
    <3>3. CASE ~Diverges(e) /\ Live(e) # 0
      BY <1>12, <3>3 DEF Calls
    <3>4. QED
      BY <3>1, <3>2, <3>3
  <2>2. QED
    BY <1>5, <1>12, <2>1 DEF Calls, Running, tracker, aside, counts
<1>13. CASE Records(e)
  BY <1>5, <1>11, <1>13 DEF Records, Running, tracker, aside, counts
<1>14. CASE RecordFails(e)
  BY <1>5, <1>14 DEF RecordFails, End, Running, tracker, aside, counts
<1>15. QED
  BY <1>1, <1>6, <1>7, <1>8, <1>9, <1>10, <1>12, <1>13, <1>14

\* A step of an engine keeps the invariant: who runs now ran before.
LEMMA EngineThreads ==
  ASSUME ThreadsInv, NEW e \in Episodes, EngineMoves(e)
  PROVE  ThreadsInv'
<1>1. \A d \in Episodes : Running(d)' => Running(d)
  BY DEF EngineMoves, Running
<1>2. \A d \in Episodes : d # e => pc'[d] = pc[d]
  BY DEF EngineMoves
<1>3. pc[e] # "unborn" /\ pc[e] # "gone"
  BY DEF EngineMoves, Running
<1>4. status # "none"
  BY <1>3 DEF ThreadsInv, InOrder
<1>5. ThreadsTyped'
  BY <1>4 DEF ThreadsInv, ThreadsTyped, EngineMoves, Places, Now, Manifest
<1>6. InOrder'
  BY <1>1, <1>2, <1>3 DEF ThreadsInv, InOrder, EngineMoves
<1>7. HeldByManager'
  BY <1>1 DEF ThreadsInv, ThreadsTyped, HeldByManager, EngineMoves
<1>8. ResumeHolds'
  BY <1>3 DEF ThreadsInv, ResumeHolds, EngineMoves
<1>9. QED
  BY <1>5, <1>6, <1>7, <1>8 DEF ThreadsInv

\* The first episode is the only one.
LEMMA LaunchThreads ==
  ASSUME ThreadsInv, Launch
  PROVE  ThreadsInv'
<1>1. /\ status' = "active" /\ epoch' = 1 /\ active' = 1 /\ pc' = [pc EXCEPT ![1] = "step"]
      /\ UNCHANGED << cancel, overtaken, unsaved >>
      /\ manager' = "free" /\ disk' = {Now'}
  BY DEF Launch, StartEpisode, ends, aside, counts, PersistNow
<1>2. \A e \in Episodes : pc[e] = "unborn"
  BY DEF Launch, ThreadsInv, InOrder
<1>3. pc \in [Episodes -> Places]
  BY DEF ThreadsInv, ThreadsTyped, Places
<1>4. pc' \in [Episodes -> Places] /\ \A e \in Episodes : pc'[e] = IF e = 1 THEN "step" ELSE "unborn"
  BY <1>1, <1>2, <1>3 DEF Places
<1>5. ThreadsTyped'
  BY <1>1, <1>4 DEF ThreadsInv, ThreadsTyped, Places, Now, Manifest
<1>6. \A e \in Episodes : Running(e)' => e = 1
  BY <1>4 DEF Running
<1>7. InOrder'
  BY <1>1, <1>4, <1>6 DEF InOrder, Episodes
<1>8. HeldByManager'
  BY <1>1, <1>6 DEF HeldByManager
<1>9. ResumeHolds'
  BY <1>1 DEF ResumeHolds
<1>10. QED
  BY <1>5, <1>7, <1>8, <1>9 DEF ThreadsInv

\* The first step of a resume starts no thread.
LEMMA ResumeLoadsThreads ==
  ASSUME ThreadsInv, ResumeLoads
  PROVE  ThreadsInv'
<1>1. /\ manager' = "resume" /\ loaded'.raced = (\E e \in 1..epoch : pc[e] # "gone")
      /\ status \in Resumable /\ epoch < MaxEpisodes
      /\ UNCHANGED << status, epoch, active, disk, pc, cancel, overtaken, unsaved >>
  BY DEF ResumeLoads, tracker, ends, aside, counts
<1>2. ThreadsTyped' /\ InOrder' /\ HeldByManager'
  BY <1>1 DEF ThreadsInv, ThreadsTyped, InOrder, HeldByManager, Running
<1>3. epoch \in Nat
  BY DEF ThreadsInv, ThreadsTyped
<1>4. epoch + 1 \in Episodes
  BY <1>1, <1>3, WorkflowRunAssumption DEF Episodes
<1>5. ~loaded'.raced => \A e \in Episodes : pc[e] \in {"unborn", "gone"}
  <2>1. \A e \in Episodes : e > epoch \/ e \in 1..epoch
    BY <1>3 DEF Episodes
  <2>2. QED
    BY <1>1, <2>1 DEF ThreadsInv, InOrder
<1>6. ResumeHolds'
  BY <1>1, <1>4, <1>5 DEF ResumeHolds, Resumable, Paused
<1>7. QED
  BY <1>2, <1>6 DEF ThreadsInv

\* A run that may be resumed has no thread that was not told to stop: the new one is
\* the only one of its kind.
LEMMA ResumeRunsThreads ==
  ASSUME ThreadsInv, NEW b, ResumeRuns(b)
  PROVE  ThreadsInv'
<1> DEFINE used == AgentEntries(loaded.entries)
<1> HIDE DEF used
<1>1. /\ manager = "resume" /\ status # "active" /\ status # "none" /\ epoch + 1 \in Episodes
      /\ loaded.raced \in BOOLEAN
      /\ ~loaded.raced => \A e \in Episodes : pc[e] \in {"unborn", "gone"}
  BY DEF ResumeRuns, ThreadsInv, ResumeHolds
<1>2. pc \in [Episodes -> Places] /\ epoch \in Nat /\ unsaved \in Nat /\ overtaken \in BOOLEAN
  BY DEF ThreadsInv, ThreadsTyped, Places
<1>3. cancel \in [Episodes -> BOOLEAN]
  BY DEF ThreadsInv, ThreadsTyped
<1>4. ~(overtaken /\ unsaved > 0) => \A e \in Episodes : Running(e) => cancel[e]
  BY <1>1 DEF ThreadsInv, HeldByManager
<1>5. cancel' = cancel /\ manager' = "free"
  BY DEF ResumeRuns, StartEpisode, ends
<1>6. CASE /\ status' = "active" /\ StartEpisode(epoch + 1, loaded.entries)
           /\ overtaken' = (overtaken \/ loaded.raced)
           /\ unsaved' = unsaved /\ disk' = {Now'}
  <2>1. /\ epoch' = epoch + 1 /\ active' = epoch + 1
        /\ pc' = [pc EXCEPT ![epoch + 1] = "step"]
    BY <1>6 DEF StartEpisode
  <2>2. pc' \in [Episodes -> Places]
    BY <1>2, <2>1 DEF Places
  <2>3. \A e \in Episodes : pc'[e] = IF e = epoch + 1 THEN "step" ELSE pc[e]
    BY <1>2, <2>1
  <2>4. overtaken' \in BOOLEAN /\ (overtaken => overtaken')
    BY <1>1, <1>2, <1>6
  <2>5. ThreadsTyped'
    BY <1>2, <1>3, <1>5, <1>6, <2>1, <2>2, <2>4 DEF ThreadsTyped, Places, Now, Manifest
  <2>6. ~overtaken' => \A e \in Episodes : e < epoch + 1 => pc[e] = "gone"
    <3>1. \A e \in Episodes : e < epoch + 1 => ~(e > epoch)
      BY <1>2 DEF Episodes
    <3>2. QED
      BY <1>1, <1>6, <3>1 DEF ThreadsInv, InOrder
  <2>7. ~overtaken' => \A e \in Episodes : Running(e)' => e = epoch + 1
    <3>1. \A e \in Episodes : e > epoch => pc[e] = "unborn"
      BY DEF ThreadsInv, InOrder
    <3>2. \A e \in Episodes : e # epoch + 1 => e < epoch + 1 \/ e > epoch
      BY <1>2 DEF Episodes
    <3>3. QED
      BY <2>3, <2>6, <3>1, <3>2 DEF Running
  <2>8. InOrder'
    <3>1. \A e \in Episodes : pc'[e] = "unborn" <=> e > epoch'
      <4>1. \A e \in Episodes : e > epoch + 1 <=> e > epoch /\ e # epoch + 1
        BY <1>2 DEF Episodes
      <4>2. QED
        BY <2>1, <2>3, <4>1 DEF ThreadsInv, InOrder
    <3>2. ~overtaken' => \A e \in Episodes : e < epoch' => pc'[e] = "gone"
      BY <1>2, <2>1, <2>3, <2>6 DEF Episodes
    <3>3. QED
      BY <1>6, <2>1, <2>7, <3>1, <3>2, Zenon DEF InOrder
  <2>9. HeldByManager'
    <3>1. SUFFICES ASSUME ~(overtaken' /\ unsaved' > 0), NEW e \in Episodes,
                          Running(e)', ~cancel'[e]
                   PROVE  e = epoch + 1
      BY <1>5, <1>6, <2>1 DEF HeldByManager
    <3>2. ~(overtaken /\ unsaved > 0)
      BY <1>6, <2>4, <3>1
    <3>3. ~Running(e)
      BY <1>4, <1>5, <3>1, <3>2
    <3>4. QED
      BY <2>3, <3>1, <3>3 DEF Running
  <2>10. QED
    BY <1>5, <2>5, <2>8, <2>9 DEF ThreadsInv, ResumeHolds
<1>7. CASE UNCHANGED << status, epoch, active, disk, pc, overtaken, unsaved >>
  BY <1>5, <1>7 DEF ThreadsInv, ThreadsTyped, InOrder, HeldByManager, ResumeHolds, Running
<1>8. CASE /\ unsaved' = unsaved + 1 /\ status' = "interrupted" /\ epoch' = epoch + 1
           /\ pc' = [pc EXCEPT ![epoch + 1] = "gone"] /\ disk' = disk \cup {Now'}
           /\ UNCHANGED << active, overtaken >>
  <2>1. pc' \in [Episodes -> Places]
    BY <1>2, <1>8 DEF Places
  <2>2. \A e \in Episodes : pc'[e] = IF e = epoch + 1 THEN "gone" ELSE pc[e]
    BY <1>2, <1>8
  <2>3. ThreadsTyped'
    BY <1>2, <1>3, <1>5, <1>8, <2>1 DEF ThreadsInv, ThreadsTyped, Places, Now, Manifest
  <2>4. \A e \in Episodes : Running(e)' => Running(e)
    BY <2>2 DEF Running
  <2>5. InOrder'
    <3>1. \A e \in Episodes : pc'[e] = "unborn" <=> e > epoch'
      <4>1. \A e \in Episodes : e > epoch + 1 <=> e > epoch /\ e # epoch + 1
        BY <1>2 DEF Episodes
      <4>2. QED
        BY <1>8, <2>2, <4>1 DEF ThreadsInv, InOrder
    <3>2. QED
      BY <1>8, <2>4, <3>1 DEF ThreadsInv, InOrder
  <2>6. HeldByManager'
    <3>1. SUFFICES ASSUME ~(overtaken' /\ unsaved' > 0), NEW e \in Episodes, Running(e)'
                   PROVE  cancel'[e]
      BY <1>5 DEF HeldByManager
    <3>2. ~overtaken
      BY <1>2, <1>8, <3>1
    <3>3. QED
      BY <1>4, <1>5, <2>4, <3>1, <3>2
  <2>7. QED
    BY <1>5, <2>3, <2>5, <2>6 DEF ThreadsInv, ResumeHolds
<1>9. QED
  BY <1>6, <1>7, <1>8 DEF ResumeRuns, PersistNow, Emit, aside, counts

\* A run that is paused or cancelled has its thread told to stop.
LEMMA PauseThreads ==
  ASSUME ThreadsInv, Pause \/ Cancel \/ CancelMarks
  PROVE  ThreadsInv'
<1>1. /\ UNCHANGED << epoch, pc, overtaken, unsaved >> /\ manager' # "resume"
      /\ status # "none" /\ status' # "none"
      /\ (status' = "interrupted" <=> status = "interrupted")
      /\ (status' = "failed" => status = "failed")
      /\ disk' = disk \/ disk' = disk \cup {Now'}
  <2>1. CASE Pause
    BY <2>1 DEF Pause, Emit, aside, counts, Paused, Terminal, ThreadsInv, InOrder
  <2>2. CASE Cancel
    BY <2>2 DEF Cancel, tracker, aside, counts, Paused
  <2>3. CASE CancelMarks
    BY <2>3 DEF CancelMarks, Emit, aside, counts, Terminal, ThreadsInv, HeldByManager
  <2>4. QED
    BY <2>1, <2>2, <2>3
<1>2. cancel \in [Episodes -> BOOLEAN]
  BY DEF ThreadsInv, ThreadsTyped
<1>3. cancel' \in [Episodes -> BOOLEAN]
  BY <1>2 DEF Pause, Cancel, CancelMarks, CancelToken, ends
<1>4. ThreadsTyped'
  BY <1>1, <1>3 DEF ThreadsInv, ThreadsTyped, Now, Manifest
<1>5. InOrder'
  BY <1>1 DEF ThreadsInv, InOrder, Running
<1>6. HeldByManager'
  <2>1. CASE Pause \/ Cancel
    <3>1. cancel' = (IF active = 0 THEN cancel ELSE [cancel EXCEPT ![active] = TRUE]) /\ active' = 0
      BY <2>1 DEF Pause, Cancel, CancelToken
    <3>2. \A e \in Episodes : cancel[e] \/ active = e => cancel'[e]
      BY <1>2, <3>1 DEF Episodes
    <3>3. QED
      BY <1>1, <3>1, <3>2 DEF ThreadsInv, HeldByManager, Running
  <2>2. CASE CancelMarks
    <3>1. manager = "cancel" /\ manager' = "free" /\ cancel' = cancel /\ active' = active
      BY <2>2 DEF CancelMarks, ends
    <3>2. \A e \in Episodes : active # e
      BY <3>1 DEF ThreadsInv, HeldByManager, Episodes
    <3>3. QED
      BY <1>1, <3>1, <3>2 DEF ThreadsInv, HeldByManager, Running
  <2>3. QED
    BY <2>1, <2>2
<1>7. QED
  BY <1>1, <1>4, <1>5, <1>6 DEF ThreadsInv, ResumeHolds

\* Only the newest episode reports, and when it does nobody runs for the run.
LEMMA WatcherThreads ==
  ASSUME ThreadsInv, NEW e \in Episodes,
         Reports(e) \/ IsSuperseded(e) \/ Persists(e) \/ PersistFails(e)
  PROVE  ThreadsInv'
<1>1. pc \in [Episodes -> Places] /\ unsaved \in Nat
  BY DEF ThreadsInv, ThreadsTyped, Places
<1>2. /\ UNCHANGED << epoch, active, manager, loaded, overtaken >>
      /\ cancel' = cancel \/ cancel' = [cancel EXCEPT ![e] = FALSE]
      /\ unsaved' \in {unsaved, unsaved + 1}
      /\ pc[e] \in {"ended", "persist"}
      /\ \E p \in {"persist", "gone"} : pc' = [pc EXCEPT ![e] = p]
      /\ pc' = [pc EXCEPT ![e] = "gone"] \/ epoch = e
      /\ \A m \in disk' : m \in disk \/ m \in {Now, Now'}
  BY DEF Reports, IsSuperseded, Persists, PersistFails, Superseded, Gone, Emit, held, tracker, ends,
         aside, counts
<1>3. pc' \in [Episodes -> Places] /\ \A d \in Episodes : d # e => pc'[d] = pc[d]
  BY <1>1, <1>2 DEF Places
<1>4. unsaved' \in Nat /\ (unsaved > 0 => unsaved' > 0)
  BY <1>1, <1>2
<1>5. \A d \in Episodes : Running(d)' => Running(d) /\ d # e
  BY <1>1, <1>2, <1>3 DEF Running
<1>6. \A d \in Episodes : Running(d) => Running(d)'
  BY <1>2, <1>3 DEF Running
<1>7. /\ cancel' \in [Episodes -> BOOLEAN]
      /\ \A d \in Episodes : d # e => cancel'[d] = cancel[d]
  BY <1>2 DEF ThreadsInv, ThreadsTyped
<1>8. status # "none" /\ e <= epoch
  <2>1. pc[e] # "unborn" /\ epoch \in Nat
    BY <1>2 DEF ThreadsInv, ThreadsTyped
  <2>2. ~(e > epoch)
    BY <2>1 DEF ThreadsInv, InOrder
  <2>3. QED
    BY <2>1, <2>2 DEF ThreadsInv, InOrder, Episodes
<1>9. /\ status' # "none" /\ (status = "interrupted" => status' = "interrupted")
      /\ status' = "active" => status = "active"
  <2>1. CASE Reports(e)
    <3>1. /\ Applied(e) # "none" /\ (status = "interrupted" => Applied(e) = "interrupted")
          /\ Applied(e) # "active" \/ status = "active"
      <4>1. CASE status \in {"interrupted", "failed", "cancelled"}
        BY <4>1 DEF Applied
      <4>2. CASE /\ status \notin {"interrupted", "failed", "cancelled"}
                 /\ pause_intent[e] /\ out[e] \in {"cancelled", "paused"}
        BY <1>8, <4>2 DEF Applied
      <4>3. CASE /\ status \notin {"interrupted", "failed", "cancelled"}
                 /\ ~(pause_intent[e] /\ out[e] \in {"cancelled", "paused"})
        BY <4>3 DEF Applied
      <4>4. QED
        BY <4>1, <4>2, <4>3
    <3>2. QED
      BY <2>1, <3>1 DEF Reports
  <2>2. CASE IsSuperseded(e) \/ Persists(e) \/ PersistFails(e)
    BY <1>8, <2>2 DEF IsSuperseded, Persists, PersistFails, tracker
  <2>3. QED
    BY <2>1, <2>2
<1>10. ~overtaken /\ status' = "failed" => \A d \in Episodes : ~Running(d)
  <2>1. CASE Reports(e)
    <3>1. SUFFICES ASSUME ~overtaken, status # "interrupted", NEW d \in Episodes
                   PROVE  ~Running(d)
      BY <1>9
    <3>2. epoch = e /\ pc[e] = "ended"
      BY <2>1 DEF Reports, Superseded
    <3>3. d < e \/ d = e \/ d > e
      BY DEF Episodes
    <3>4. QED
      BY <3>1, <3>2, <3>3 DEF ThreadsInv, InOrder, Running
  <2>2. CASE IsSuperseded(e) \/ Persists(e)
    BY <2>2 DEF IsSuperseded, Persists, tracker, ThreadsInv, InOrder
  <2>3. CASE PersistFails(e)
    BY <2>3 DEF PersistFails
  <2>4. QED
    BY <2>1, <2>2, <2>3
<1>11. InOrder'
  <2>1. \A d \in Episodes : d > epoch => d # e
    BY <1>8 DEF Episodes, ThreadsInv, ThreadsTyped
  <2>2. \A d \in Episodes : pc'[d] = "unborn" <=> d > epoch'
    BY <1>1, <1>2, <1>3, <2>1 DEF ThreadsInv, InOrder
  <2>3. ~overtaken' /\ status' # "interrupted" =>
          \A d \in Episodes : d < epoch' => pc'[d] = "gone"
    <3>1. SUFFICES ASSUME ~overtaken, status # "interrupted", NEW d \in Episodes, d < epoch
                   PROVE  pc'[d] = "gone"
      BY <1>2, <1>9
    <3>2. pc[d] = "gone"
      BY <3>1 DEF ThreadsInv, InOrder
    <3>3. d # e
      BY <1>2, <3>2
    <3>4. QED
      BY <1>3, <3>2, <3>3
  <2>4. ~overtaken' => \A c, d \in Episodes : Running(c)' /\ Running(d)' => c = d
    BY <1>2, <1>5 DEF ThreadsInv, InOrder
  <2>5. ~overtaken' /\ status' = "failed" => \A d \in Episodes : ~Running(d)'
    BY <1>2, <1>5, <1>10
  <2>6. QED
    BY <1>9, <2>2, <2>3, <2>4, <2>5 DEF InOrder
<1>12. HeldByManager'
  <2>1. SUFFICES ASSUME ~(overtaken' /\ unsaved' > 0), NEW d \in Episodes, Running(d)', ~cancel'[d]
                 PROVE  status' = "active" /\ epoch' = d /\ active' = d
    BY <1>2, <1>9 DEF ThreadsInv, HeldByManager
  <2>2. ~(overtaken /\ unsaved > 0) /\ Running(d) /\ d # e /\ ~cancel[d]
    BY <1>2, <1>4, <1>5, <1>7, <2>1
  <2>3. status = "active" /\ epoch = d /\ active = d
    BY <2>2 DEF ThreadsInv, HeldByManager
  <2>4. pc' = [pc EXCEPT ![e] = "gone"]
    BY <1>2, <2>2, <2>3
  <2>5. CASE Reports(e)
    BY <2>2, <2>3, <2>5 DEF Reports, Superseded
  <2>6. CASE PersistFails(e)
    <3>1. ~overtaken
      BY <1>1, <1>2, <2>1, <2>6 DEF PersistFails
    <3>2. e < epoch
      BY <1>8, <2>2, <2>3 DEF Episodes
    <3>3. pc[e] = "gone"
      BY <2>3, <3>1, <3>2 DEF ThreadsInv, InOrder
    <3>4. QED
      BY <1>2, <3>3
  <2>7. CASE IsSuperseded(e) \/ Persists(e)
    BY <1>2, <2>3, <2>7 DEF IsSuperseded, Persists, tracker
  <2>8. QED
    BY <2>5, <2>6, <2>7
<1>13. ThreadsTyped'
  BY <1>2, <1>3, <1>4, <1>7, <1>8, <1>9 DEF ThreadsInv, ThreadsTyped, Places, Now, Manifest
<1>14. ResumeHolds'
  <2>1. manager = "resume" => loaded.raced
    BY <1>2 DEF ThreadsInv, ResumeHolds
  <2>2. QED
    BY <1>2, <1>9, <2>1 DEF ThreadsInv, ResumeHolds
<1>15. QED
  BY <1>11, <1>12, <1>13, <1>14 DEF ThreadsInv

\* A crash leaves no thread behind.
LEMMA CrashThreads ==
  ASSUME ThreadsInv, Crash
  PROVE  ThreadsInv'
<1>1. /\ pc' = [e \in Episodes |-> IF pc[e] = "unborn" THEN "unborn" ELSE "gone"]
      /\ cancel' = [e \in Episodes |-> FALSE]
      /\ manager' = "free" /\ UNCHANGED << epoch, overtaken, unsaved >>
  BY DEF Crash, aside
<1>2. status' # "none" /\ \A m \in disk' : m.status # "none"
  BY DEF Crash, ThreadsInv, ThreadsTyped
<1>3. \A e \in Episodes : ~Running(e)'
  BY <1>1 DEF Running
<1>4. ThreadsTyped'
  BY <1>1, <1>2 DEF ThreadsInv, ThreadsTyped
<1>5. InOrder'
  <2>1. \A e \in Episodes : pc'[e] = "unborn" <=> e > epoch'
    BY <1>1 DEF ThreadsInv, InOrder
  <2>2. \A e \in Episodes : e < epoch' => pc'[e] = "gone"
    <3>1. \A e \in Episodes : e < epoch' => ~(e > epoch')
      BY <1>4 DEF ThreadsTyped, Episodes
    <3>2. QED
      BY <1>1, <2>1, <3>1
  <2>3. QED
    BY <1>1, <1>2, <1>3, <2>1, <2>2 DEF InOrder
<1>6. HeldByManager'
  BY <1>1, <1>3 DEF HeldByManager
<1>7. QED
  BY <1>1, <1>4, <1>5, <1>6 DEF ThreadsInv, ResumeHolds

LEMMA ThreadsInit ==
  ASSUME Init
  PROVE  ThreadsInv
<1>1. /\ pc \in [Episodes -> Places] /\ epoch \in Nat /\ unsaved \in Nat
      /\ \A e \in Episodes : pc[e] = "unborn"
  BY DEF Init, Places
<1>2. cancel \in [Episodes -> BOOLEAN] /\ overtaken \in BOOLEAN /\ disk = {} /\ manager = "free"
  BY DEF Init
<1>3. ThreadsTyped
  BY <1>1, <1>2 DEF ThreadsTyped, Places
<1>4. epoch = 0 /\ active = 0
  BY DEF Init
<1>5. InOrder
  <2>1. \A e \in Episodes : ~(e < epoch) /\ e > epoch /\ ~Running(e)
    BY <1>1, <1>4 DEF Episodes, Running
  <2>2. QED
    BY <1>1, <1>4, <2>1 DEF InOrder
<1>6. HeldByManager
  BY <1>1, <1>2 DEF HeldByManager, Running
<1>7. QED
  BY <1>2, <1>3, <1>5, <1>6 DEF ThreadsInv, ResumeHolds

LEMMA ThreadsStep ==
  ASSUME ThreadsInv, [Next]_vars
  PROVE  ThreadsInv'
<1>1. CASE ManagerNext
  BY <1>1, LaunchThreads, ResumeLoadsThreads, ResumeRunsThreads, PauseThreads DEF ManagerNext
<1>2. CASE EngineNext
  <2>1. ThreadsTyped
    BY DEF ThreadsInv
  <2>2. PICK e \in Episodes : EngineMoves(e)
    BY <1>2, <2>1, EngineSummary
  <2>3. QED
    BY <2>2, EngineThreads
<1>3. CASE WatcherNext
  BY <1>3, WatcherThreads DEF WatcherNext
<1>4. CASE Crash
  BY <1>4, CrashThreads
<1>5. CASE UNCHANGED vars
  BY <1>5 DEF vars, tracker, held, ends, aside, counts, ThreadsInv, ThreadsTyped, InOrder,
              HeldByManager, ResumeHolds, Running
<1>6. QED
  BY <1>1, <1>2, <1>3, <1>4, <1>5 DEF Next

\* A thread that was not told to stop belongs to a run that is active and is its newest
\* episode: no late report, pause, resume, crash or failed save takes the run from under
\* it, except the save an overtaken episode fails to make (manager.rs, the watcher).
THEOREM NoOrphanCorrect == Spec => []NoOrphanThread
<1>1. ThreadsInv => NoOrphanThread
  BY DEF ThreadsInv, HeldByManager, NoOrphanThread
<1>2. QED
  BY <1>1, ThreadsInit, ThreadsStep, PTL DEF Spec

-----------------------------------------------------------------------------
(***************************************************************************)
(* What loading, pruning and appending do to a journal                     *)
(***************************************************************************)

\* A sequence is a sequence of its own elements.
LEMMA SeqOfItems ==
  ASSUME NEW S, NEW f \in Seq(S)
  PROVE  f \in Seq({f[i] : i \in DOMAIN f})
<1> DEFINE T == {f[i] : i \in DOMAIN f}
<1>1. PICK n \in Nat : f \in [1..n -> S]
  BY SeqDef
<1>2. f \in [1..n -> T]
  BY <1>1
<1>3. QED
  BY <1>2, SeqDef

LEMMA LinesFacts ==
  ASSUME NEW f, IsLines(f)
  PROVE  /\ Len(f) \in Nat /\ DOMAIN f = 1..Len(f)
         /\ \A i \in 1..Len(f) : IsLine(f[i])
BY DEF IsLines

\* Without its last line a journal is a journal.
LEMMA CutLines ==
  ASSUME NEW f, IsLines(f), f # << >>
  PROVE  LET g == SubSeq(f, 1, Len(f) - 1)
         IN  IsLines(g) /\ DOMAIN g = 1..(Len(f) - 1) /\ \A i \in DOMAIN g : g[i] = f[i]
<1> DEFINE S == {f[i] : i \in DOMAIN f}
           g == SubSeq(f, 1, Len(f) - 1)
<1>1. f \in Seq(S) /\ Len(f) \in Nat /\ Len(f) # 0 /\ DOMAIN f = 1..Len(f)
  BY DEF IsLines
<1>2. g \in Seq(S) /\ Len(g) = Len(f) - 1 /\ \A i \in 1..(Len(f) - 1) : g[i] = f[i]
  <2> HIDE DEF S
  <2>1. QED
    BY <1>1
<1>3. DOMAIN g = 1..(Len(f) - 1)
  <2> HIDE DEF S
  <2>1. QED
    BY <1>1, <1>2
<1>4. g \in Seq({g[i] : i \in DOMAIN g})
  BY <1>2, SeqOfItems
<1>5. \A i \in DOMAIN g : IsLine(g[i])
  <2> HIDE DEF S, g
  <2>1. QED
    BY <1>1, <1>2, <1>3, LinesFacts
<1>6. QED
  BY <1>2, <1>3, <1>4, <1>5 DEF IsLines

\* A journal with one more line is a journal.
LEMMA AppendedLines ==
  ASSUME NEW f, IsLines(f), NEW n, NEW c, NEW v, NEW how
  PROVE  LET x == [seq |-> n, call |-> c, val |-> v, form |-> how]
             g == Append(f, x)
         IN  /\ IsLines(g) /\ Len(g) = Len(f) + 1 /\ g # << >>
             /\ \A i \in 1..Len(f) : g[i] = f[i]
             /\ g[Len(f) + 1] = x
<1> DEFINE x == [seq |-> n, call |-> c, val |-> v, form |-> how]
           S == {f[i] : i \in DOMAIN f} \cup {x}
           g == Append(f, x)
<1>1. f \in Seq(S)
  <2>1. f \in Seq({f[i] : i \in DOMAIN f})
    BY DEF IsLines
  <2>2. PICK k \in Nat : f \in [1..k -> {f[i] : i \in DOMAIN f}]
    BY <2>1, SeqDef
  <2>3. f \in [1..k -> S]
    BY <2>2
  <2>4. QED
    BY <2>3, SeqDef
<1>2. x \in S
  OBVIOUS
<1>3. /\ g \in Seq(S) /\ Len(g) = Len(f) + 1 /\ g # << >>
      /\ \A i \in 1..Len(f) : g[i] = f[i]
      /\ g[Len(f) + 1] = x
  <2> HIDE DEF S, x
  <2>1. QED
    BY <1>1, <1>2, AppendProperties
<1>4. Len(f) \in Nat /\ DOMAIN g = 1..(Len(f) + 1)
  <2> HIDE DEF S, x, g
  <2>1. QED
    BY <1>1, <1>3
<1>5. g \in Seq({g[i] : i \in DOMAIN g})
  BY <1>3, SeqOfItems
<1>6. \A i \in DOMAIN g : IsLine(g[i])
  <2>1. IsLine(x)
    BY DEF IsLine
  <2> HIDE DEF S, x, g
  <2>2. \A i \in 1..(Len(f) + 1) : i \in 1..Len(f) \/ i = Len(f) + 1
    BY <1>4
  <2>3. QED
    BY <1>3, <1>4, <2>1, <2>2, LinesFacts
<1>7. QED
  BY <1>3, <1>5, <1>6 DEF IsLines

\* A dense journal is loaded as it is.
LEMMA DenseLoads ==
  ASSUME NEW f, IsLines(f), Dense(f)
  PROVE  Repaired(f) = f /\ Loads(f)
<1>1. Repaired(f) = f
  <2>1. f # << >> => Len(f) \in DOMAIN f
    BY LinesFacts DEF IsLines
  <2>2. f # << >> => f[Len(f)].form = "line"
    BY <2>1 DEF Dense
  <2>3. QED
    BY <2>2 DEF Repaired
<1>2. QED
  BY <1>1 DEF Dense, Loads

\* What is loaded is dense.
LEMMA LoadedIsDense ==
  ASSUME NEW f, IsLines(f), Loads(f)
  PROVE  IsLines(Repaired(f)) /\ Dense(Repaired(f))
<1>1. Dense(Repaired(f))
  BY DEF Loads, Dense
<1>2. IsLines(Repaired(f))
  <2>1. CASE f = << >>
    BY <2>1 DEF Repaired
  <2>2. CASE f # << >> /\ f[Len(f)].form = "torn"
    BY <2>2, CutLines DEF Repaired
  <2>3. CASE f # << >> /\ f[Len(f)].form = "open"
    <3> DEFINE g == [f EXCEPT ![Len(f)].form = "line"]
               n == Len(f)
    <3>1. n \in Nat /\ n # 0 /\ DOMAIN f = 1..n /\ f \in [1..n -> {f[i] : i \in DOMAIN f}]
      BY <2>3 DEF IsLines
    <3>2. IsLine(f[n])
      BY <3>1, LinesFacts
    <3>3. g = [f EXCEPT ![n] = [f[n] EXCEPT !.form = "line"]]
      BY <3>1
    <3>4. [f[n] EXCEPT !.form = "line"] = [seq |-> f[n].seq, call |-> f[n].call, val |-> f[n].val, form |-> "line"]
      BY <3>2 DEF IsLine
    <3>5. DOMAIN g = 1..n /\ g = [i \in 1..n |-> g[i]]
      BY <3>1
    <3>6. \A i \in 1..n : g[i] = IF i = n THEN [f[n] EXCEPT !.form = "line"] ELSE f[i]
      BY <3>1, <3>3
    <3>7. g \in Seq({g[i] : i \in DOMAIN g})
      <4>1. g \in [1..n -> {g[i] : i \in DOMAIN g}]
        BY <3>5
      <4> HIDE DEF g, n
      <4>2. QED
        BY <3>1, <4>1, SeqDef
    <3>8. \A i \in DOMAIN g : IsLine(g[i])
      <4>1. g[n] = [seq |-> f[n].seq, call |-> f[n].call, val |-> f[n].val, form |-> "line"]
        BY <3>1, <3>4, <3>6
      <4> HIDE DEF g
      <4>2. IsLine(g[n])
        BY <4>1 DEF IsLine
      <4>3. \A i \in 1..n : i # n => IsLine(g[i])
        BY <3>6, LinesFacts
      <4>4. QED
        BY <3>5, <4>2, <4>3
    <3>9. QED
      BY <2>3, <3>7, <3>8 DEF Repaired, IsLines
  <2>4. CASE f # << >> /\ f[Len(f)].form \notin {"torn", "open"}
    BY <2>4 DEF Repaired
  <2>5. QED
    BY <2>1, <2>2, <2>3, <2>4
<1>3. QED
  BY <1>1, <1>2

\* A dense journal without its last error is dense.
LEMMA PrunedIsDense ==
  ASSUME NEW f, IsLines(f), Dense(f)
  PROVE  IsLines(Pruned(f)) /\ Dense(Pruned(f))
<1>1. CASE Prunes(f)
  <2>1. f # << >> /\ Pruned(f) = SubSeq(f, 1, Len(f) - 1)
    BY <1>1 DEF Prunes, Pruned
  <2>2. \A i \in 1..(Len(f) - 1) : i \in DOMAIN f
    BY LinesFacts
  <2>3. QED
    BY <2>1, <2>2, CutLines DEF Dense
<1>2. CASE ~Prunes(f)
  BY <1>2 DEF Pruned
<1>3. QED
  BY <1>1, <1>2

\* A line appended to a dense journal, with the next number, keeps it dense.
LEMMA AppendIsDense ==
  ASSUME NEW f, IsLines(f), Dense(f), NEW c, NEW v
  PROVE  LET x == Line(Len(f), c, v)
         IN  /\ AppendLine(f, x) = Append(f, x)
             /\ IsLines(Append(f, x)) /\ Dense(Append(f, x))
<1> DEFINE x == Line(Len(f), c, v)
           g == Append(f, x)
<1>1. f # << >> => Len(f) \in DOMAIN f
  BY DEF IsLines
<1>2. AppendLine(f, x) = g
  BY <1>1 DEF AppendLine, Dense
<1>3. /\ IsLines(g) /\ Len(g) = Len(f) + 1
      /\ \A i \in 1..Len(f) : g[i] = f[i]
      /\ g[Len(f) + 1] = x
  BY AppendedLines DEF Line
<1>4. Len(f) \in Nat /\ DOMAIN f = 1..Len(f) /\ DOMAIN g = 1..(Len(f) + 1)
  <2> HIDE DEF g
  <2>1. QED
    BY <1>3, LinesFacts
<1>5. x.form = "line" /\ x.seq = (Len(f) + 1) - 1
  BY <1>4 DEF Line
<1>6. Dense(g)
  <2> HIDE DEF x, g
  <2>1. \A i \in 1..(Len(f) + 1) : i \in 1..Len(f) \/ i = Len(f) + 1
    BY <1>4
  <2>2. QED
    BY <1>3, <1>4, <1>5, <2>1 DEF Dense
<1>7. QED
  BY <1>2, <1>3, <1>6

\* However an append to a dense journal is cut short, the journal loads.
LEMMA PartialLoads ==
  ASSUME NEW f, IsLines(f), Dense(f), NEW c, NEW v,
         NEW g \in PartialAppends(f, Line(Len(f), c, v))
  PROVE  IsLines(g) /\ Loads(g)
<1>1. CASE g = f
  BY <1>1, DenseLoads
<1>2. CASE g # f
  <2>1. PICK how \in {"torn", "open", "line"} :
          g = AppendLine(f, [Line(Len(f), c, v) EXCEPT !.form = how])
    BY <1>2 DEF PartialAppends
  <2> DEFINE x == [seq |-> Len(f), call |-> c, val |-> v, form |-> how]
             n == Len(f)
  <2>2. [Line(Len(f), c, v) EXCEPT !.form = how] = x
    BY DEF Line
  <2>3. f # << >> => n \in DOMAIN f
    BY DEF IsLines
  <2>4. g = Append(f, x)
    BY <2>1, <2>2, <2>3 DEF AppendLine, Dense
  <2>5. /\ IsLines(g) /\ Len(g) = n + 1 /\ g # << >>
        /\ \A i \in 1..n : g[i] = f[i]
        /\ g[n + 1] = x
    BY <2>4, AppendedLines
  <2>6. n \in Nat /\ DOMAIN f = 1..n /\ DOMAIN g = 1..(n + 1)
    <3> HIDE DEF x
    <3>1. QED
      BY <2>5, LinesFacts
  <2>7. x.form = how /\ x.seq = n
    OBVIOUS
  <2> HIDE DEF x
  <2>8. \A i \in 1..(n + 1) : i \in 1..n \/ i = n + 1
    BY <2>6
  <2>9. CASE how = "torn"
    <3>1. Repaired(g) = SubSeq(g, 1, Len(g) - 1)
      BY <2>5, <2>7, <2>9 DEF Repaired
    <3>2. DOMAIN Repaired(g) = 1..n /\ \A i \in 1..n : Repaired(g)[i] = f[i]
      <4>1. Len(g) - 1 = n
        BY <2>5, <2>6
      <4>2. \A i \in DOMAIN Repaired(g) : Repaired(g)[i] = g[i]
        BY <2>5, <3>1, CutLines
      <4>3. DOMAIN Repaired(g) = 1..n
        BY <2>5, <3>1, <4>1, CutLines
      <4>4. QED
        BY <2>5, <4>2, <4>3
    <3>3. QED
      BY <2>5, <2>6, <3>2 DEF Loads, Dense
  <2>10. CASE how = "open"
    <3>1. Repaired(g) = [g EXCEPT ![n + 1].form = "line"]
      BY <2>5, <2>7, <2>10 DEF Repaired
    <3>2. DOMAIN Repaired(g) = 1..(n + 1)
      BY <2>6, <3>1
    <3>3. \A i \in 1..n : Repaired(g)[i] = f[i]
      BY <2>5, <2>6, <3>1
    <3>4. Repaired(g)[n + 1] = [x EXCEPT !.form = "line"]
      BY <2>5, <2>6, <3>1
    <3>5. Repaired(g)[n + 1].form = "line" /\ Repaired(g)[n + 1].seq = n
      BY <2>7, <3>4 DEF x
    <3>6. n = (n + 1) - 1
      BY <2>6
    <3>7. Loads(g)
      BY <2>6, <2>8, <3>2, <3>3, <3>5, <3>6 DEF Loads, Dense
    <3>8. QED
      BY <2>5, <3>7
  <2>11. CASE how = "line"
    <3>1. Dense(g)
      BY <2>5, <2>6, <2>7, <2>8, <2>11 DEF Dense
    <3>2. QED
      BY <2>5, <3>1, DenseLoads
  <2>12. QED
    BY <2>9, <2>10, <2>11
<1>3. QED
  BY <1>1, <1>2

-----------------------------------------------------------------------------
(***************************************************************************)
(* The journal of a run                                                    *)
(***************************************************************************)

\* The thread that writes a line has in memory what is in the file, so that the line
\* gets the number the file needs.
LEMMA NextLineFits ==
  ASSUME JournalInv, ~overtaken, NEW e \in Episodes, Running(e)
  PROVE  /\ IsLines(file) /\ Dense(file) /\ entries[e] = file
         /\ \E v : NextLine(e) = Line(Len(file), at[e], v)
<1>1. IsLines(file) /\ Dense(file) /\ entries[e] = file
  BY DEF JournalInv, MemoryIsFile
<1>2. NextLine(e) = Line(Len(file), at[e], vals[e][Len(file) - seq[e] + 1])
  BY <1>1 DEF NextLine
<1>3. QED
  BY <1>1, <1>2

\* A step that leaves the journal, in memory and on disk, as it is and starts no thread.
LEMMA QuietMemory ==
  ASSUME MemoryIsFile, file' = file, overtaken' = overtaken, DOMAIN entries' = Episodes,
         \A e \in Episodes : Running(e)' => Running(e) /\ entries'[e] = entries[e]
  PROVE  MemoryIsFile'
<1>1. IsLines(file)' = IsLines(file) /\ Loads(file)' = Loads(file) /\ Dense(file)' = Dense(file)
  BY DEF IsLines, Loads, Repaired, Dense
<1>2. QED
  BY <1>1 DEF MemoryIsFile

\* So does such a step with what a resume has loaded, when nobody comes to reserve.
LEMMA QuietLoaded ==
  ASSUME LoadedIsFile, manager' # "resume" \/ UNCHANGED << manager, loaded >>,
         file' = file, overtaken' = overtaken,
         \A e \in Episodes : pc'[e] = "reserve" => pc[e] = "reserve"
  PROVE  LoadedIsFile'
BY DEF LoadedIsFile, IsLines, Dense

\* A thread that goes on between the two steps of a resume was told to stop: it will not
\* reserve any more.
LEMMA EngineLoaded ==
  ASSUME JournalInv, EngineNext
  PROVE  LoadedIsFile'
<1>1. PICK e \in Episodes : EngineMoves(e)
  BY EngineSummary DEF JournalInv, ThreadsInv
<1>2. SUFFICES ASSUME manager = "resume", ~overtaken
               PROVE  LoadedIsFile'
  BY <1>1 DEF EngineMoves, LoadedIsFile
<1>3. loaded.raced /\ cancel[e]
  BY <1>1, <1>2 DEF JournalInv, ThreadsInv, ResumeHolds, HeldByManager, EngineMoves, Running
<1>4. \A d \in Episodes : pc'[d] # "reserve"
  <2>1. \A d \in Episodes : d # e => ~Running(d)
    BY <1>1, <1>2 DEF JournalInv, ThreadsInv, InOrder, EngineMoves
  <2>2. QED
    BY <1>1, <1>3, <2>1 DEF EngineMoves, Running
<1>5. loaded' = loaded
  BY <1>1 DEF EngineMoves
<1>6. QED
  BY <1>2, <1>3, <1>4, <1>5 DEF JournalInv, LoadedIsFile, IsLines, Dense

LEMMA EngineMemory ==
  ASSUME JournalInv, EngineNext
  PROVE  MemoryIsFile'
<1>1. PICK e \in Episodes : 
        \/ Stops(e) \/ Completes(e) \/ Calls(e)
        \/ Reserves(e) \/ ReserveRefused(e) \/ ReserveUnsaved(e)
        \/ Answered(e) \/ ReplyDropped(e) \/ HostGone(e) \/ Asks(e) \/ Releases(e)
        \/ Records(e) \/ RecordFails(e)
  BY DEF EngineNext
<1>2. PICK d \in Episodes : EngineMoves(d)
  BY EngineSummary DEF JournalInv, ThreadsInv
<1>3. overtaken' = overtaken /\ \A c \in Episodes : Running(c)' => Running(c)
  BY <1>2 DEF EngineMoves, Running
<1>4. CASE \/ Stops(e) \/ Completes(e) \/ Calls(e)
           \/ Reserves(e) \/ ReserveRefused(e) \/ ReserveUnsaved(e)
           \/ Answered(e) \/ ReplyDropped(e) \/ HostGone(e) \/ Asks(e) \/ Releases(e)
  <2>1. UNCHANGED << file, entries >>
    BY <1>4 DEF Stops, Completes, Calls, Reserves, ReserveRefused, ReserveUnsaved, Answered,
                ReplyDropped, HostGone, Asks, Releases, thread
  <2>2. QED
    BY <1>3, <2>1, QuietMemory DEF JournalInv, MemoryIsFile
<1>5. CASE Records(e)
  <2>1. Running(e) /\ file' = AppendLine(file, NextLine(e))
        /\ entries' = [entries EXCEPT ![e] = Append(@, NextLine(e))]
    BY <1>5 DEF Records, Running
  <2>2. DOMAIN entries = Episodes /\ DOMAIN entries' = Episodes
    BY <2>1 DEF JournalInv, MemoryIsFile
  <2>3. SUFFICES ASSUME ~overtaken
                 PROVE  /\ IsLines(file') /\ Loads(file')
                        /\ \A c \in Episodes : Running(c)' => entries'[c] = file' /\ Dense(file')
    BY <1>3, <2>2 DEF MemoryIsFile, IsLines, Loads, Repaired, Dense
  <2>4. PICK v : /\ IsLines(file) /\ Dense(file) /\ entries[e] = file
                 /\ NextLine(e) = Line(Len(file), at[e], v)
    BY <2>1, <2>3, NextLineFits
  <2>5. file' = Append(file, NextLine(e)) /\ IsLines(file') /\ Dense(file')
    BY <2>1, <2>4, AppendIsDense
  <2>6. entries'[e] = file'
    BY <2>1, <2>2, <2>4, <2>5
  <2>7. \A c \in Episodes : Running(c)' => c = e
    BY <1>3, <2>1, <2>3 DEF JournalInv, ThreadsInv, InOrder
  <2>8. QED
    BY <2>5, <2>6, <2>7, DenseLoads
<1>6. CASE RecordFails(e)
  <2>1. /\ Running(e) /\ ~Running(e)' /\ file' \in PartialAppends(file, NextLine(e))
        /\ entries' = entries
    <3>1. pc'[e] = "ended"
      BY <1>6 DEF RecordFails, End, JournalInv, ThreadsInv, ThreadsTyped
    <3>2. QED
      BY <1>6, <3>1 DEF RecordFails, Running, thread
  <2>2. SUFFICES ASSUME ~overtaken
                 PROVE  /\ IsLines(file') /\ Loads(file')
                        /\ \A c \in Episodes : ~Running(c)'
    BY <1>3, <2>1 DEF JournalInv, MemoryIsFile, IsLines, Loads, Repaired, Dense
  <2>3. PICK v : /\ IsLines(file) /\ Dense(file)
                 /\ NextLine(e) = Line(Len(file), at[e], v)
    BY <2>1, <2>2, NextLineFits
  <2>4. IsLines(file') /\ Loads(file')
    BY <2>1, <2>3, PartialLoads
  <2>5. \A c \in Episodes : ~Running(c)'
    BY <1>3, <2>1, <2>2 DEF JournalInv, ThreadsInv, InOrder
  <2>6. QED
    BY <2>4, <2>5
<1>7. QED
  BY <1>1, <1>4, <1>5, <1>6

\* A resume loads the journal.  A thread that was told to stop and still runs has the file
\* in memory: then there is nothing to repair or prune.
LEMMA ResumeLoadsMemory ==
  ASSUME JournalInv, ResumeLoads
  PROVE  MemoryIsFile' /\ LoadedIsFile'
<1> DEFINE f == Pruned(Repaired(file))
<1>1. /\ file' = f /\ loaded'.entries = f /\ UNCHANGED << pc, entries, overtaken >>
  BY DEF ResumeLoads, thread, aside
<1>2. ~overtaken => IsLines(f) /\ Dense(f)
  <2>1. ~overtaken => IsLines(file) /\ Loads(file)
    BY DEF JournalInv, MemoryIsFile
  <2>2. QED
    BY <2>1, LoadedIsDense, PrunedIsDense
<1>3. ~overtaken => \A e \in Episodes : Running(e) => entries[e] = f
  <2>1. SUFFICES ASSUME ~overtaken, NEW e \in Episodes, Running(e)
                 PROVE  entries[e] = f
    OBVIOUS
  <2>2. IsLines(file) /\ Dense(file) /\ entries[e] = file
    BY <2>1 DEF JournalInv, MemoryIsFile
  <2>3. Repaired(file) = file
    BY <2>2, DenseLoads
  <2>4. ~Prunes(file)
    BY <2>1 DEF JournalInv, ThreadsInv, InOrder, Prunes
  <2>5. QED
    BY <2>2, <2>3, <2>4 DEF Pruned
<1>4. ~overtaken => IsLines(file') /\ Loads(file') /\ Dense(file')
  BY <1>1, <1>2, DenseLoads
<1> HIDE DEF f
<1>5. MemoryIsFile'
  BY <1>1, <1>3, <1>4 DEF JournalInv, MemoryIsFile, Running, IsLines, Loads, Repaired, Dense
<1>6. LoadedIsFile'
  BY <1>1, <1>4 DEF LoadedIsFile, IsLines, Dense
<1>7. QED
  BY <1>5, <1>6

\* The new thread has in memory what was loaded, which is the file still when nobody else
\* was running.
LEMMA ResumeRunsMemory ==
  ASSUME JournalInv, NEW b, ResumeRuns(b)
  PROVE  MemoryIsFile' /\ LoadedIsFile'
<1> DEFINE f == loaded.entries
<1>1. /\ manager = "resume" /\ manager' = "free" /\ file' = file
      /\ epoch + 1 \in Episodes
      /\ ~loaded.raced => \A e \in Episodes : pc[e] \in {"unborn", "gone"}
  BY DEF ResumeRuns, JournalInv, ThreadsInv, ResumeHolds
<1>2. pc \in [Episodes -> Places] /\ epoch \in Nat
  BY DEF JournalInv, ThreadsInv, ThreadsTyped, Places
<1>3. DOMAIN entries = Episodes
  BY DEF JournalInv, MemoryIsFile
<1>4. LoadedIsFile'
  BY <1>1 DEF LoadedIsFile
<1>5. CASE StartEpisode(epoch + 1, f) /\ overtaken' = (overtaken \/ loaded.raced)
  <2>1. /\ pc' = [pc EXCEPT ![epoch + 1] = "step"]
        /\ entries' = [entries EXCEPT ![epoch + 1] = f]
    BY <1>5 DEF StartEpisode
  <2>2. DOMAIN entries' = Episodes
    BY <1>3, <2>1
  <2>3. SUFFICES ASSUME ~overtaken'
                 PROVE  /\ IsLines(file') /\ Loads(file')
                        /\ \A e \in Episodes : Running(e)' => entries'[e] = file' /\ Dense(file')
    BY <1>4, <2>2 DEF MemoryIsFile, IsLines, Loads, Repaired, Dense
  <2>4. ~overtaken /\ ~loaded.raced
    BY <1>5, <2>3
  <2>5. f = file /\ IsLines(file) /\ Dense(file) /\ Loads(file)
    BY <1>1, <2>4, DenseLoads DEF JournalInv, LoadedIsFile
  <2>6. ASSUME NEW e \in Episodes, Running(e)'
        PROVE  entries'[e] = f
    <3>1. e # epoch + 1 => pc'[e] = pc[e]
      BY <1>2, <2>1
    <3>2. e = epoch + 1
      BY <1>1, <2>4, <2>6, <3>1 DEF Running
    <3>3. QED
      BY <1>3, <2>1, <3>2
  <2>7. QED
    BY <1>1, <2>5, <2>6
<1>6. CASE /\ entries' = entries /\ overtaken' = overtaken
           /\ pc' = pc \/ pc' = [pc EXCEPT ![epoch + 1] = "gone"]
  <2>1. \A e \in Episodes : Running(e)' => Running(e)
    BY <1>2, <1>6 DEF Running
  <2>2. QED
    BY <1>1, <1>3, <1>4, <1>6, <2>1, QuietMemory DEF JournalInv
<1>7. QED
  BY <1>4, <1>5, <1>6 DEF ResumeRuns, thread, aside

\* A crash may cut an append short, and leaves no thread behind.
LEMMA CrashMemory ==
  ASSUME JournalInv, Crash
  PROVE  MemoryIsFile'
<1>1. /\ overtaken' = overtaken /\ DOMAIN entries' = Episodes
      /\ \A e \in Episodes : ~Running(e)'
  BY DEF Crash, aside, Running
<1>2. SUFFICES ASSUME ~overtaken
               PROVE  IsLines(file') /\ Loads(file')
  BY <1>1 DEF JournalInv, MemoryIsFile, IsLines, Loads, Repaired, Dense
<1>3. PICK e \in Episodes :
        file' \in IF pc[e] = "record" THEN PartialAppends(file, NextLine(e)) ELSE {file}
  BY DEF Crash
<1>4. CASE pc[e] = "record"
  <2>1. Running(e)
    BY <1>4 DEF Running
  <2>2. PICK v : /\ IsLines(file) /\ Dense(file)
                 /\ NextLine(e) = Line(Len(file), at[e], v)
    BY <1>2, <2>1, NextLineFits
  <2>3. QED
    BY <1>3, <1>4, <2>2, PartialLoads
<1>5. CASE pc[e] # "record"
  <2>1. file' = file
    BY <1>3, <1>5
  <2>2. IsLines(file) /\ Loads(file)
    BY <1>2 DEF JournalInv, MemoryIsFile
  <2>3. QED
    BY <2>1, <2>2
<1>6. QED
  BY <1>4, <1>5

LEMMA JournalInit ==
  ASSUME Init
  PROVE  JournalInv
<1>1. /\ file = << >> /\ DOMAIN entries = Episodes /\ \A e \in Episodes : ~Running(e)
      /\ manager = "free"
  BY DEF Init, Running
<1>2. IsLines(file) /\ Dense(file)
  BY <1>1 DEF IsLines, Dense
<1>3. QED
  BY <1>1, <1>2, ThreadsInit, DenseLoads DEF JournalInv, MemoryIsFile, LoadedIsFile, NothingYet

LEMMA JournalStep ==
  ASSUME JournalInv, [Next]_vars
  PROVE  JournalInv'
<1>1. ThreadsInv'
  BY ThreadsStep DEF JournalInv
<1>2. NothingYet'
  <2>1. SUFFICES ASSUME status' = "none"
                 PROVE  status = "none" /\ file' = file
    BY DEF JournalInv, NothingYet
  <2>2. \A e \in Episodes : pc'[e] = "unborn"
    BY <1>1, <2>1 DEF ThreadsInv, InOrder
  <2>3. CASE ManagerNext \/ Crash
    BY <2>1, <2>3 DEF ManagerNext, Launch, ResumeLoads, ResumeRuns, Pause, Cancel, CancelMarks,
                      Crash, Paused, Terminal, Resumable, tracker, JournalInv, ThreadsInv,
                      ThreadsTyped
  <2>4. CASE EngineNext
    BY <2>2, <2>4, EngineSummary DEF JournalInv, ThreadsInv, EngineMoves
  <2>5. CASE WatcherNext
    <3>1. PICK e \in Episodes : \E p \in {"persist", "gone"} : pc' = [pc EXCEPT ![e] = p]
      BY <2>5 DEF WatcherNext, Reports, IsSuperseded, Persists, PersistFails, Gone
    <3>2. QED
      BY <2>2, <3>1 DEF JournalInv, ThreadsInv, ThreadsTyped
  <2>6. CASE UNCHANGED vars
    BY <2>1, <2>6 DEF vars, tracker
  <2>7. QED
    BY <2>3, <2>4, <2>5, <2>6 DEF Next
<1>3. MemoryIsFile' /\ LoadedIsFile'
  <2>1. CASE Launch
    <3>0. LoadedIsFile'
      BY <2>1 DEF Launch, LoadedIsFile
    <3>1. /\ overtaken' = overtaken /\ entries' = [entries EXCEPT ![1] = << >>]
          /\ file' = << >> /\ pc' = [pc EXCEPT ![1] = "step"]
          /\ \A e \in Episodes : pc[e] = "unborn"
      BY <2>1 DEF Launch, StartEpisode, aside, JournalInv, NothingYet, ThreadsInv, InOrder
    <3>2. DOMAIN entries = Episodes /\ DOMAIN entries' = Episodes
      BY <3>1 DEF JournalInv, MemoryIsFile
    <3>3. \A e \in Episodes : Running(e)' => entries'[e] = << >>
      BY <3>1, <3>2 DEF Running, JournalInv, ThreadsInv, ThreadsTyped
    <3>4. IsLines(<< >>) /\ Dense(<< >>) /\ Loads(<< >>)
      <4>1. IsLines(<< >>) /\ Dense(<< >>)
        BY DEF IsLines, Dense
      <4>2. QED
        BY <4>1, DenseLoads
    <3>5. IsLines(file') /\ Dense(file') /\ Loads(file')
      BY <3>1, <3>4
    <3>6. QED
      BY <3>0, <3>1, <3>2, <3>3, <3>5 DEF MemoryIsFile, IsLines, Loads, Repaired, Dense
  <2>2. CASE ResumeLoads \/ \E b \in agent_budget..MaxBudget : ResumeRuns(b)
    BY <2>2, ResumeLoadsMemory, ResumeRunsMemory
  <2>3. CASE Pause \/ Cancel \/ CancelMarks
    <3>1. UNCHANGED << file, entries, pc, overtaken >> /\ manager' # "resume"
      BY <2>3 DEF Pause, Cancel, CancelMarks, aside, thread
    <3>2. QED
      BY <3>1, QuietMemory, QuietLoaded DEF JournalInv, MemoryIsFile, Running
  <2>4. CASE EngineNext
    BY <2>4, EngineMemory, EngineLoaded
  <2>5. CASE WatcherNext
    <3>1. PICK e \in Episodes :
            /\ UNCHANGED << file, manager, loaded >> /\ overtaken' = overtaken
            /\ entries' = entries \/ entries' = [entries EXCEPT ![e] = << >>]
            /\ \E p \in {"persist", "gone"} : pc' = [pc EXCEPT ![e] = p]
      BY <2>5 DEF WatcherNext, Reports, IsSuperseded, Persists, PersistFails, Gone, held, aside, thread
    <3>2. \A d \in Episodes : /\ Running(d)' => Running(d) /\ d # e
                              /\ pc'[d] = "reserve" => pc[d] = "reserve"
      BY <3>1 DEF Running, JournalInv, ThreadsInv, ThreadsTyped
    <3>3. DOMAIN entries' = Episodes /\ \A d \in Episodes : d # e => entries'[d] = entries[d]
      BY <3>1 DEF JournalInv, MemoryIsFile
    <3>4. QED
      BY <3>1, <3>2, <3>3, QuietMemory, QuietLoaded DEF JournalInv
  <2>6. CASE Crash
    BY <2>6, CrashMemory DEF Crash, LoadedIsFile
  <2>7. CASE UNCHANGED vars
    <3>1. UNCHANGED << file, entries, pc, overtaken, manager, loaded >>
      BY <2>7 DEF vars, thread, aside, held
    <3>2. QED
      BY <3>1, QuietMemory, QuietLoaded DEF JournalInv, MemoryIsFile, Running
  <2>8. QED
    BY <2>1, <2>2, <2>3, <2>4, <2>5, <2>6, <2>7 DEF Next, ManagerNext
<1>4. QED
  BY <1>1, <1>2, <1>3 DEF JournalInv

\* The journal of a run that may be resumed loads, whatever append was cut short, by a
\* failed write or by a crash, and whatever was repaired or pruned since, as long as no
\* episode was overtaken (journal.rs, load and append).
THEOREM JournalCorrect == Spec => []JournalLoads
<1>1. JournalInv => JournalLoads
  BY DEF JournalInv, MemoryIsFile, JournalLoads
<1>2. QED
  BY <1>1, JournalInit, JournalStep, PTL DEF Spec

-----------------------------------------------------------------------------
(***************************************************************************)
(* The numbers of the calls                                                *)
(***************************************************************************)

LEMMA ScriptFacts ==
  ASSUME script \in Scripts
  PROVE  Len(script) \in Nat /\ DOMAIN script = 1..Len(script)
BY WorkflowRunAssumption, LenProperties

\* The panels among the calls before call k, whose number Before counts.
PanelsBefore(k) == {i \in 1..(k - 1) : script[i] = "panel"}

LEMMA PanelsFinite ==
  ASSUME NEW k \in Nat \ {0}
  PROVE  IsFiniteSet(PanelsBefore(k)) /\ Cardinality(PanelsBefore(k)) \in Nat
<1>1. PanelsBefore(k) \subseteq 1..(k - 1) /\ IsFiniteSet(1..(k - 1))
  BY FS_Interval DEF PanelsBefore
<1>2. IsFiniteSet(PanelsBefore(k))
  BY <1>1, FS_Subset
<1>3. QED
  BY <1>2, FS_CardinalityType

LEMMA BeforeFacts ==
  ASSUME NEW k \in Nat \ {0}
  PROVE  Before(k) = (k - 1) + Cardinality(PanelsBefore(k)) /\ Before(k) \in Nat
<1>1. Cardinality(PanelsBefore(k)) \in Nat
  BY PanelsFinite
<1>2. Before(k) = (k - 1) + (2 - 1) * Cardinality(PanelsBefore(k))
  BY DEF Before, PanelsBefore, PanelWidth
<1>3. QED
  BY <1>1, <1>2

\* A call takes as many numbers as it has results.
LEMMA BeforeNext ==
  ASSUME NEW k \in Nat \ {0}
  PROVE  Before(k + 1) = Before(k) + Width(script[k])
<1>1. IsFiniteSet(PanelsBefore(k)) /\ Cardinality(PanelsBefore(k)) \in Nat
  BY PanelsFinite
<1>2. k \notin PanelsBefore(k)
  BY DEF PanelsBefore
<1>3. Before(k) = (k - 1) + Cardinality(PanelsBefore(k))
      /\ Before(k + 1) = k + Cardinality(PanelsBefore(k + 1))
  BY BeforeFacts
<1>4. CASE script[k] = "panel"
  <2>1. PanelsBefore(k + 1) = PanelsBefore(k) \cup {k}
    BY <1>4 DEF PanelsBefore
  <2>2. Cardinality(PanelsBefore(k + 1)) = Cardinality(PanelsBefore(k)) + 1
    BY <1>1, <1>2, <2>1, FS_AddElement
  <2>3. QED
    BY <1>1, <1>3, <1>4, <2>2 DEF Width, PanelWidth
<1>5. CASE script[k] # "panel"
  <2>1. \A i \in 1..((k + 1) - 1) : i \in 1..(k - 1) \/ i = k
    OBVIOUS
  <2>2. PanelsBefore(k + 1) = PanelsBefore(k)
    BY <1>5, <2>1 DEF PanelsBefore
  <2>3. QED
    BY <1>1, <1>3, <1>5, <2>2 DEF Width
<1>6. QED
  BY <1>4, <1>5

LEMMA BeforeGrows ==
  ASSUME NEW j \in Nat \ {0}, NEW k \in Nat \ {0}, j < k
  PROVE  Before(j) + Width(script[j]) <= Before(k)
<1>1. PanelsBefore(j + 1) \subseteq PanelsBefore(k)
  BY DEF PanelsBefore
<1>2. Cardinality(PanelsBefore(j + 1)) <= Cardinality(PanelsBefore(k))
  BY <1>1, PanelsFinite, FS_Subset
<1>3. /\ Before(j + 1) = j + Cardinality(PanelsBefore(j + 1))
      /\ Before(k) = (k - 1) + Cardinality(PanelsBefore(k))
  BY BeforeFacts
<1>4. Cardinality(PanelsBefore(j + 1)) \in Nat /\ Cardinality(PanelsBefore(k)) \in Nat
  BY PanelsFinite
<1>5. Before(j + 1) <= Before(k)
  BY <1>2, <1>3, <1>4
<1>6. QED
  BY <1>5, BeforeNext

\* A number is one of one call only.
LEMMA BelongsOnce ==
  ASSUME script \in Scripts, NEW n, NEW j, NEW k, Belongs(n, j), Belongs(n, k)
  PROVE  j = k
<1>1. j \in Nat \ {0} /\ k \in Nat \ {0}
  BY ScriptFacts DEF Belongs
<1>2. Before(j) \in Nat /\ Before(k) \in Nat
  BY <1>1, BeforeFacts
<1>3. Width(script[j]) \in Nat /\ Width(script[k]) \in Nat
  BY DEF Width, PanelWidth
<1>4. /\ n \in Before(j)..(Before(j) + Width(script[j]) - 1)
      /\ n \in Before(k)..(Before(k) + Width(script[k]) - 1)
  BY DEF Belongs
<1>5. CASE j < k
  BY <1>1, <1>2, <1>3, <1>4, <1>5, BeforeGrows
<1>6. CASE k < j
  BY <1>1, <1>2, <1>3, <1>4, <1>6, BeforeGrows
<1>7. QED
  BY <1>1, <1>5, <1>6

-----------------------------------------------------------------------------
(***************************************************************************)
(* What stays of a line when the journal is repaired or appended to        *)
(***************************************************************************)

LEMMA SeqOfOwn ==
  ASSUME NEW n \in Nat, NEW g, g \in [1..n -> {g[i] : i \in DOMAIN g}]
  PROVE  g \in Seq({g[i] : i \in DOMAIN g})
BY SeqDef

Marked(f, how) == [f EXCEPT ![Len(f)].form = how]

\* A line with another form is a line of the same call with the same result.
LEMMA MarkedLines ==
  ASSUME NEW f, IsLines(f), f # << >>, NEW how
  PROVE  LET g == Marked(f, how)
         IN  /\ IsLines(g) /\ DOMAIN g = DOMAIN f
             /\ \A i \in DOMAIN f : g[i].seq = f[i].seq /\ g[i].call = f[i].call /\ g[i].val = f[i].val
<1> DEFINE g == Marked(f, how)
           n == Len(f)
           x == [seq |-> f[n].seq, call |-> f[n].call, val |-> f[n].val, form |-> how]
<1>1. n \in Nat /\ n # 0 /\ DOMAIN f = 1..n
  BY DEF IsLines
<1>2. IsLine(f[n])
  BY <1>1, LinesFacts
<1>3. [f[n] EXCEPT !.form = how] = x
  BY <1>2 DEF IsLine
<1>4. DOMAIN g = 1..n /\ g = [i \in 1..n |-> g[i]]
  BY <1>1 DEF Marked
<1>5. g[n] = x
  BY <1>1, <1>3 DEF Marked
<1>6. \A i \in 1..n : i # n => g[i] = f[i]
  BY <1>1 DEF Marked
<1>7. x.seq = f[n].seq /\ x.call = f[n].call /\ x.val = f[n].val /\ IsLine(x)
  BY DEF IsLine
<1>8. g \in Seq({g[i] : i \in DOMAIN g})
  <2>1. g \in [1..n -> {g[i] : i \in DOMAIN g}]
    BY <1>4
  <2> HIDE DEF g, n
  <2>2. QED
    BY <1>1, <2>1, SeqOfOwn
<1> HIDE DEF g, x
<1>9. \A i \in DOMAIN g : IsLine(g[i])
  BY <1>1, <1>4, <1>5, <1>6, <1>7, LinesFacts
<1>10. \A i \in DOMAIN f : g[i].seq = f[i].seq /\ g[i].call = f[i].call /\ g[i].val = f[i].val
  BY <1>1, <1>5, <1>6, <1>7
<1>11. QED
  BY <1>1, <1>4, <1>8, <1>9, <1>10 DEF IsLines, g

\* What load makes of a journal has its lines, the last one perhaps excepted.
LEMMA RepairedLines ==
  ASSUME NEW f, IsLines(f)
  PROVE  LET g == Repaired(f)
         IN  /\ IsLines(g) /\ DOMAIN g \subseteq DOMAIN f
             /\ 1..(Len(f) - 1) \subseteq DOMAIN g
             /\ \A i \in DOMAIN g : g[i].seq = f[i].seq /\ g[i].call = f[i].call /\ g[i].val = f[i].val
<1>1. Len(f) \in Nat /\ DOMAIN f = 1..Len(f)
  BY LinesFacts
<1>2. CASE f # << >> /\ f[Len(f)].form = "torn"
  <2>1. Repaired(f) = SubSeq(f, 1, Len(f) - 1)
    BY <1>2 DEF Repaired
  <2>2. QED
    BY <1>1, <1>2, <2>1, CutLines
<1>3. CASE f # << >> /\ f[Len(f)].form = "open"
  <2>1. Repaired(f) = Marked(f, "line")
    BY <1>3 DEF Repaired, Marked
  <2>2. IsLines(Repaired(f)) /\ DOMAIN Repaired(f) = DOMAIN f
        /\ \A i \in DOMAIN f : /\ Repaired(f)[i].seq = f[i].seq /\ Repaired(f)[i].call = f[i].call
                               /\ Repaired(f)[i].val = f[i].val
    BY <1>3, <2>1, MarkedLines
  <2>3. QED
    BY <1>1, <2>2
<1>4. CASE ~(f # << >> /\ f[Len(f)].form \in {"torn", "open"})
  <2>1. Repaired(f) = f
    BY <1>4 DEF Repaired
  <2>2. QED
    BY <1>1, <2>1
<1>5. QED
  BY <1>2, <1>3, <1>4

\* What an append leaves, whatever the journal ended with.
LEMMA AppendLineLines ==
  ASSUME NEW f, IsLines(f), NEW n, NEW c, NEW v, NEW how
  PROVE  LET x == [seq |-> n, call |-> c, val |-> v, form |-> how]
             g == AppendLine(f, x)
         IN  /\ IsLines(g) /\ DOMAIN f \subseteq DOMAIN g
             /\ \A i \in DOMAIN f : g[i].seq = f[i].seq /\ g[i].call = f[i].call /\ g[i].val = f[i].val
             /\ \A i \in DOMAIN g : i \notin DOMAIN f => g[i].seq = n /\ g[i].call = c /\ g[i].val = v
<1> DEFINE x == [seq |-> n, call |-> c, val |-> v, form |-> how]
           g == AppendLine(f, x)
<1>1. CASE f # << >> /\ f[Len(f)].form \in {"torn", "open"}
  <2>1. g = Marked(f, "garbage")
    BY <1>1 DEF AppendLine, Marked
  <2> HIDE DEF g
  <2>2. IsLines(g) /\ DOMAIN g = DOMAIN f
        /\ \A i \in DOMAIN f : g[i].seq = f[i].seq /\ g[i].call = f[i].call /\ g[i].val = f[i].val
    BY <1>1, <2>1, MarkedLines
  <2>3. QED
    BY <2>2 DEF g
<1>2. CASE ~(f # << >> /\ f[Len(f)].form \in {"torn", "open"})
  <2>1. g = Append(f, x)
    BY <1>2 DEF AppendLine
  <2> HIDE DEF g
  <2>2. /\ IsLines(g) /\ Len(g) = Len(f) + 1
        /\ \A i \in 1..Len(f) : g[i] = f[i]
        /\ g[Len(f) + 1] = x
    BY <2>1, AppendedLines
  <2>3. x.seq = n /\ x.call = c /\ x.val = v
    OBVIOUS
  <2> HIDE DEF x
  <2>4. Len(f) \in Nat /\ DOMAIN f = 1..Len(f) /\ DOMAIN g = 1..(Len(f) + 1)
    BY <2>2, LinesFacts
  <2>5. \A i \in 1..(Len(f) + 1) : i \in 1..Len(f) \/ i = Len(f) + 1
    BY <2>4
  <2>6. /\ IsLines(g) /\ DOMAIN f \subseteq DOMAIN g
        /\ \A i \in DOMAIN f : g[i].seq = f[i].seq /\ g[i].call = f[i].call /\ g[i].val = f[i].val
        /\ \A i \in DOMAIN g : i \notin DOMAIN f => g[i].seq = n /\ g[i].call = c /\ g[i].val = v
    BY <2>2, <2>3, <2>4, <2>5
  <2>7. QED
    BY <2>6 DEF g, x
<1>3. QED
  BY <1>1, <1>2

\* The same of an append that was cut short.
LEMMA PartialLines ==
  ASSUME NEW f, IsLines(f), NEW n, NEW c, NEW v, NEW g \in PartialAppends(f, Line(n, c, v))
  PROVE  /\ IsLines(g) /\ DOMAIN f \subseteq DOMAIN g
         /\ \A i \in DOMAIN f : g[i].seq = f[i].seq /\ g[i].call = f[i].call /\ g[i].val = f[i].val
         /\ \A i \in DOMAIN g : i \notin DOMAIN f => g[i].seq = n /\ g[i].call = c /\ g[i].val = v
<1>1. CASE g = f
  BY <1>1
<1>2. CASE g # f
  <2>1. PICK how \in {"torn", "open", "line"} :
          g = AppendLine(f, [Line(n, c, v) EXCEPT !.form = how])
    BY <1>2 DEF PartialAppends
  <2>2. [Line(n, c, v) EXCEPT !.form = how] = [seq |-> n, call |-> c, val |-> v, form |-> how]
    BY DEF Line
  <2>3. g = AppendLine(f, [seq |-> n, call |-> c, val |-> v, form |-> how])
    BY <2>1, <2>2
  <2>4. QED
    BY <2>3, AppendLineLines
<1>3. QED
  BY <1>1, <1>2

\* When the journal is dense, load finds in what the append left all the lines there
\* were, and at most the new one beside them.
LEMMA PartialRepaired ==
  ASSUME NEW f, IsLines(f), Dense(f), NEW c, NEW v,
         NEW g \in PartialAppends(f, Line(Len(f), c, v))
  PROVE  LET h == Repaired(g)
         IN  /\ IsLines(h) /\ DOMAIN f \subseteq DOMAIN h /\ DOMAIN h \subseteq 1..(Len(f) + 1)
             /\ \A i \in DOMAIN f : h[i].call = f[i].call /\ h[i].val = f[i].val
             /\ \A i \in DOMAIN h : i \notin DOMAIN f => h[i].call = c /\ h[i].val = v
<1>1. Len(f) \in Nat /\ DOMAIN f = 1..Len(f)
  BY LinesFacts
<1>2. CASE g = f
  <2>1. Repaired(g) = f
    BY <1>2, DenseLoads
  <2>2. QED
    BY <1>1, <2>1
<1>3. CASE g # f
  <2>1. PICK how \in {"torn", "open", "line"} :
          g = AppendLine(f, [Line(Len(f), c, v) EXCEPT !.form = how])
    BY <1>3 DEF PartialAppends
  <2> DEFINE x == [seq |-> Len(f), call |-> c, val |-> v, form |-> how]
  <2>2. [Line(Len(f), c, v) EXCEPT !.form = how] = x
    BY DEF Line
  <2>3. g = Append(f, x)
    <3>1. f # << >> => Len(f) \in DOMAIN f
      BY DEF IsLines
    <3>2. QED
      BY <2>1, <2>2, <3>1 DEF AppendLine, Dense
  <2>4. Len(g) = Len(f) + 1
    BY <2>3, AppendedLines
  <2>5. /\ IsLines(g) /\ DOMAIN f \subseteq DOMAIN g
        /\ \A i \in DOMAIN f : g[i].seq = f[i].seq /\ g[i].call = f[i].call /\ g[i].val = f[i].val
        /\ \A i \in DOMAIN g : i \notin DOMAIN f => g[i].seq = Len(f) /\ g[i].call = c /\ g[i].val = v
    BY PartialLines
  <2> HIDE DEF x
  <2>6. DOMAIN g = 1..(Len(f) + 1)
    BY <2>4, <2>5, LinesFacts
  <2>7. /\ IsLines(Repaired(g)) /\ DOMAIN Repaired(g) \subseteq DOMAIN g
        /\ 1..(Len(g) - 1) \subseteq DOMAIN Repaired(g)
        /\ \A i \in DOMAIN Repaired(g) :
             Repaired(g)[i].call = g[i].call /\ Repaired(g)[i].val = g[i].val
    BY <2>5, RepairedLines
  <2>8. Len(g) - 1 = Len(f)
    BY <1>1, <2>4
  <2>9. QED
    BY <1>1, <2>5, <2>6, <2>7, <2>8
<1>4. QED
  BY <1>2, <1>3

-----------------------------------------------------------------------------
(***************************************************************************)
(* Where the threads are                                                   *)
(***************************************************************************)

LEMMA WidthFacts ==
  ASSUME NEW k
  PROVE  Width(k) \in Nat /\ Width(k) >= 1
BY DEF Width, PanelWidth

\* What a thread replays of a call is what the journal has of it.
LEMMA ReplayedFacts ==
  ASSUME ThreadsPlaced, NEW e \in Episodes, Running(e)
  PROVE  LET r == Replayed(e)
             n == Width(script[at[e]])
         IN  /\ Len(r) \in Nat /\ DOMAIN r = 1..Len(r)
             /\ Len(r) <= n /\ seq[e] + Len(r) <= Len(entries[e])
             /\ \A i \in 1..Len(r) : r[i] = entries[e][seq[e] + i].val
             /\ Live(e) \in Nat
             /\ Live(e) = 0 => Len(r) = n
             /\ Live(e) # 0 => /\ Len(entries[e]) < seq[e] + n /\ Len(r) = Len(entries[e]) - seq[e]
                               /\ Live(e) = n - (Len(entries[e]) - seq[e])
<1> DEFINE r == Replayed(e)
           n == Width(script[at[e]])
           m == Len(entries[e])
           known == IF m < seq[e] + n THEN m - seq[e] ELSE n
<1>1. n \in Nat /\ n >= 1
  BY WidthFacts
<1>2. seq[e] \in Nat /\ m \in Nat /\ seq[e] <= m
  BY LinesFacts DEF ThreadsPlaced, PlacedAt
<1>3. known \in Nat /\ known <= n /\ seq[e] + known <= m
  BY <1>1, <1>2
<1>4. r = [i \in 1..known |-> entries[e][seq[e] + i].val]
  BY DEF Replayed
<1>5. Live(e) = n - Len(r)
  BY DEF Live
<1> HIDE DEF r, n, m
<1>6. Len(r) = known /\ DOMAIN r = 1..known
  <2> HIDE DEF known
  <2>1. QED
    BY <1>3, <1>4
<1>7. \A i \in 1..known : r[i] = entries[e][seq[e] + i].val
  BY <1>4
<1>8. /\ Len(r) \in Nat /\ DOMAIN r = 1..Len(r)
      /\ Len(r) <= n /\ seq[e] + Len(r) <= m
      /\ \A i \in 1..Len(r) : r[i] = entries[e][seq[e] + i].val
      /\ Live(e) \in Nat
      /\ Live(e) = 0 => Len(r) = n
      /\ Live(e) # 0 => m < seq[e] + n /\ Len(r) = m - seq[e] /\ Live(e) = n - (m - seq[e])
  BY <1>1, <1>2, <1>3, <1>5, <1>6, <1>7
<1>9. QED
  BY <1>8 DEF r, n, m

\* A step of the thread e as the others see it.
ThreadMoves(e) ==
  /\ script' = script
  /\ at' \in [Episodes -> Nat \ {0}] /\ seq' \in [Episodes -> Nat]
  /\ DOMAIN vals' = Episodes /\ DOMAIN out' = Episodes
  /\ \A d \in Episodes : d # e =>
       /\ pc'[d] = pc[d] /\ at'[d] = at[d] /\ seq'[d] = seq[d]
       /\ entries'[d] = entries[d] /\ vals'[d] = vals[d] /\ out'[d] = out[d]

\* A thread that nothing happened to is where it was.
LEMMA PlacedStays ==
  ASSUME NEW d \in Episodes, PlacedAt(d), script' = script,
         pc'[d] = pc[d], at'[d] = at[d], seq'[d] = seq[d], entries'[d] = entries[d],
         vals'[d] = vals[d]
  PROVE  PlacedAt(d)'
<1>1. Replayed(d)' = Replayed(d)
  BY DEF Replayed
<1>2. IsLines(entries[d])' = IsLines(entries[d])
  BY DEF IsLines
<1>3. Running(d)' = Running(d) /\ MidCall(d)' = MidCall(d)
  BY DEF Running, MidCall
<1>4. QED
  BY <1>1, <1>2, <1>3 DEF PlacedAt

LEMMA PlacedElsewhere ==
  ASSUME ThreadsPlaced, NEW e \in Episodes, ThreadMoves(e), PlacedAt(e)'
  PROVE  ThreadsPlaced'
<1>1. \A d \in Episodes : d # e => PlacedAt(d)'
  BY PlacedStays DEF ThreadMoves, ThreadsPlaced
<1>2. QED
  BY <1>1 DEF ThreadsPlaced, ThreadMoves

\* A thread that ended has no place.
LEMMA EndedPlaced ==
  ASSUME NEW e \in Episodes, pc'[e] \in {"ended", "persist", "gone"}
  PROVE  PlacedAt(e)'
BY DEF PlacedAt, Running, MidCall

\* A thread between two calls.
LEMMA StepPlaced ==
  ASSUME NEW e \in Episodes, pc'[e] = "step", IsLines(entries'[e]), seq'[e] <= Len(entries'[e])
  PROVE  PlacedAt(e)'
BY DEF PlacedAt, Running, MidCall, IsLines

\* What the delivery of the results does to the thread.
LEMMA DeliverMoves ==
  ASSUME NEW e \in Episodes, NEW vs, NEW replayed, Deliver(e, vs, replayed)
  PROVE  \/ /\ pc' = [pc EXCEPT ![e] = "ended"] /\ at' = at /\ seq' = seq
            /\ \E o \in {"failed", "failed.host", "paused"} : out' = [out EXCEPT ![e] = o]
         \/ /\ pc' = [pc EXCEPT ![e] = "step"] /\ at' = [at EXCEPT ![e] = at[e] + 1]
            /\ seq' = [seq EXCEPT ![e] = seq[e] + Width(script[at[e]])] /\ out' = out
BY DEF Deliver, End, Continue

\* The script has a call where a thread in the middle of one is.
LEMMA AtInScript ==
  ASSUME ThreadsPlaced, NEW e \in Episodes, at[e] <= Len(script)
  PROVE  at[e] \in DOMAIN script
BY ScriptFacts DEF ThreadsPlaced

LEMMA ConcatHead ==
  ASSUME NEW n \in Nat, NEW m \in Nat, NEW S, NEW T, NEW f \in [1..n -> S], NEW g \in [1..m -> T]
  PROVE  \A i \in 1..n : (f \o g)[i] = f[i]
<1>1. f \in Seq(S \cup T) /\ g \in Seq(S \cup T) /\ Len(f) = n
  <2>1. f \in [1..n -> S \cup T] /\ g \in [1..m -> S \cup T]
    OBVIOUS
  <2>2. QED
    BY <2>1, SeqDef
<1>2. QED
  BY <1>1, ConcatProperties

\* Every step of an engine leaves its thread in place and the others alone.
LEMMA EngineMoved ==
  ASSUME ThreadsTyped, ThreadsPlaced, DOMAIN entries = Episodes, NEW e \in Episodes,
         \/ Stops(e) \/ Completes(e) \/ Calls(e)
         \/ Reserves(e) \/ ReserveRefused(e) \/ ReserveUnsaved(e)
         \/ Answered(e) \/ ReplyDropped(e) \/ HostGone(e) \/ Asks(e) \/ Releases(e)
         \/ Records(e) \/ RecordFails(e)
  PROVE  ThreadMoves(e) /\ PlacedAt(e)'
<1> DEFINE n == Width(script[at[e]])
           m == Len(entries[e])
<1>1. /\ pc \in [Episodes -> Places] /\ at \in [Episodes -> Nat \ {0}] /\ seq \in [Episodes -> Nat]
      /\ DOMAIN vals = Episodes /\ DOMAIN out = Episodes
  BY DEF ThreadsTyped, ThreadsPlaced, Places
<1>2. at[e] \in Nat \ {0} /\ seq[e] \in Nat /\ n \in Nat /\ n >= 1
  BY <1>1, WidthFacts
<1>3. Running(e)
  BY DEF Stops, Completes, Calls, Reserves, ReserveRefused, ReserveUnsaved, Answered, ReplyDropped,
         HostGone, Asks, Releases, Records, RecordFails, Running
<1>4. IsLines(entries[e]) /\ m \in Nat /\ seq[e] <= m
  BY <1>3, LinesFacts DEF ThreadsPlaced, PlacedAt
<1>5. MidCall(e) => at[e] \in DOMAIN script /\ m < seq[e] + n
  BY DEF ThreadsPlaced, PlacedAt
<1>6. pc[e] \in {"reserve", "wait"} => vals[e] = Replayed(e)
  BY DEF ThreadsPlaced, PlacedAt
<1> HIDE DEF n, m
<1>7. ASSUME script' = script, pc' = [pc EXCEPT ![e] = "ended"], at' = at, seq' = seq,
             entries' = entries \/ \E x : entries' = [entries EXCEPT ![e] = x],
             vals' = vals \/ \E x : vals' = [vals EXCEPT ![e] = x],
             \E o : out' = [out EXCEPT ![e] = o]
      PROVE  ThreadMoves(e) /\ PlacedAt(e)'
  BY <1>1, <1>7, EndedPlaced DEF ThreadMoves
<1>8. CASE Stops(e) \/ Completes(e) \/ ReserveRefused(e) \/ HostGone(e) \/ Releases(e) \/ RecordFails(e)
  BY <1>7, <1>8 DEF Stops, Completes, ReserveRefused, HostGone, Releases, RecordFails, End, aside, thread
<1>9. ASSUME script' = script, seq' = seq, out' = out, entries' = entries, vals' = vals,
             pc' = [pc EXCEPT ![e] = "step"], at' = [at EXCEPT ![e] = at[e] + 1]
      PROVE  ThreadMoves(e) /\ PlacedAt(e)'
  BY <1>1, <1>2, <1>4, <1>9, StepPlaced DEF ThreadMoves, m
<1>10. CASE ReserveUnsaved(e)
  <2>1. CASE script[at[e]] = "try"
    <3>1. seq' = seq
      BY <1>1, <1>10, <2>1 DEF ReserveUnsaved, Continue
    <3>2. QED
      BY <1>9, <1>10, <2>1, <3>1 DEF ReserveUnsaved, Continue, aside
  <2>2. CASE script[at[e]] # "try"
    BY <1>7, <1>10, <2>2 DEF ReserveUnsaved, End, aside
  <2>3. QED
    BY <2>1, <2>2
<1>11. ASSUME NEW vs, NEW replayed, Deliver(e, vs, replayed), script' = script,
              vals' = vals \/ \E x : vals' = [vals EXCEPT ![e] = x],
              entries' = entries \/ \E x : entries' = [entries EXCEPT ![e] = x],
              IsLines(entries'[e]), seq[e] + n <= Len(entries'[e])
       PROVE  ThreadMoves(e) /\ PlacedAt(e)'
  <2>1. CASE /\ pc' = [pc EXCEPT ![e] = "ended"] /\ at' = at /\ seq' = seq
             /\ \E o \in {"failed", "failed.host", "paused"} : out' = [out EXCEPT ![e] = o]
    BY <1>7, <1>11, <2>1
  <2>2. CASE /\ pc' = [pc EXCEPT ![e] = "step"] /\ at' = [at EXCEPT ![e] = at[e] + 1]
             /\ seq' = [seq EXCEPT ![e] = seq[e] + n] /\ out' = out
    <3>1. ThreadMoves(e)
      BY <1>1, <1>2, <1>11, <2>2 DEF ThreadMoves
    <3>2. pc'[e] = "step" /\ seq'[e] = seq[e] + n
      BY <1>1, <2>2
    <3>3. QED
      BY <1>11, <3>1, <3>2, StepPlaced
  <2>3. QED
    BY <1>11, <2>1, <2>2, DeliverMoves DEF n
<1>12. CASE Calls(e)
  <2>1. /\ script' = script /\ entries' = entries /\ vals' = [vals EXCEPT ![e] = Replayed(e)]
        /\ at[e] <= Len(script)
    BY <1>12 DEF Calls, aside
  <2>2. CASE Diverges(e)
    <3>1. End(e, "diverged") /\ UNCHANGED << at, seq >>
      BY <1>12, <2>2 DEF Calls
    <3>2. QED
      BY <1>7, <2>1, <3>1 DEF End
  <2>3. CASE ~Diverges(e) /\ Live(e) = 0
    <3>1. Deliver(e, Replayed(e), TRUE)
      BY <1>12, <2>3 DEF Calls
    <3>2. seq[e] + n <= m
      BY <1>3, <2>3, ReplayedFacts DEF n, m
    <3>3. QED
      BY <1>4, <1>11, <2>1, <3>1, <3>2 DEF m
  <2>4. CASE ~Diverges(e) /\ Live(e) # 0
    <3>1. /\ \E p \in {"reserve", "wait"} : pc' = [pc EXCEPT ![e] = p]
          /\ UNCHANGED << at, seq, out >>
      BY <1>12, <2>4 DEF Calls
    <3>2. ThreadMoves(e)
      BY <1>1, <2>1, <3>1 DEF ThreadMoves
    <3>3. pc'[e] \in {"reserve", "wait"} /\ vals'[e] = Replayed(e)
      BY <1>1, <2>1, <3>1
    <3>4. Replayed(e)' = Replayed(e) /\ IsLines(entries[e])'
      BY <1>4, <2>1, <3>1 DEF Replayed, IsLines
    <3>5. m < seq[e] + n
      BY <1>3, <2>4, ReplayedFacts DEF n, m
    <3>6. at[e] \in DOMAIN script
      BY <2>1, AtInScript
    <3>7. PlacedAt(e)'
      BY <1>4, <2>1, <3>1, <3>3, <3>4, <3>5, <3>6 DEF PlacedAt, n, m
    <3>8. QED
      BY <3>2, <3>7
  <2>5. QED
    BY <2>2, <2>3, <2>4
<1>13. CASE Reserves(e)
  <2>1. /\ UNCHANGED << script, at, seq, entries, vals, out >> /\ pc' = [pc EXCEPT ![e] = "wait"]
        /\ pc[e] = "reserve"
    BY <1>13 DEF Reserves, thread, ends, aside
  <2>2. ThreadMoves(e) /\ pc'[e] = "wait"
    BY <1>1, <2>1 DEF ThreadMoves
  <2>3. Replayed(e)' = Replayed(e) /\ IsLines(entries[e])'
    BY <1>4, <2>1 DEF Replayed, IsLines
  <2>4. PlacedAt(e)'
    BY <1>4, <1>5, <1>6, <2>1, <2>2, <2>3 DEF PlacedAt, MidCall, n, m
  <2>5. QED
    BY <2>2, <2>4
<1>14. ASSUME UNCHANGED << script, at, seq, entries >>, MidCall(e),
              pc' = [pc EXCEPT ![e] = "release"], out' = out,
              vals' = vals \/ \E x : vals' = [vals EXCEPT ![e] = x]
       PROVE  ThreadMoves(e) /\ PlacedAt(e)'
  <2>1. ThreadMoves(e) /\ pc'[e] = "release"
    BY <1>1, <1>14 DEF ThreadMoves
  <2>2. IsLines(entries[e])'
    BY <1>4, <1>14 DEF IsLines
  <2>3. QED
    BY <1>4, <1>5, <1>14, <2>1, <2>2 DEF PlacedAt, n, m
<1>15. ASSUME UNCHANGED << script, at, seq, entries >>, pc[e] = "wait",
              pc' = [pc EXCEPT ![e] = "record"], out' = out,
              NEW S, NEW vs \in [1..Live(e) -> S], vals' = [vals EXCEPT ![e] = @ \o vs]
       PROVE  ThreadMoves(e) /\ PlacedAt(e)'
  <2>1. ThreadMoves(e) /\ pc'[e] = "record" /\ vals'[e] = Replayed(e) \o vs
    BY <1>1, <1>6, <1>15 DEF ThreadMoves
  <2>2. /\ Len(Replayed(e)) \in Nat /\ DOMAIN Replayed(e) = 1..Len(Replayed(e))
        /\ \A i \in 1..Len(Replayed(e)) : Replayed(e)[i] = entries[e][seq[e] + i].val
        /\ Live(e) \in Nat /\ Len(Replayed(e)) = m - seq[e]
    <3>1. m < seq[e] + n
      BY <1>5, <1>15 DEF MidCall
    <3>2. Live(e) # 0
      BY <1>2, <1>3, <1>4, <3>1, ReplayedFacts DEF n, m
    <3>3. QED
      BY <1>3, <3>2, ReplayedFacts DEF n, m
  <2>3. Replayed(e) \in [1..Len(Replayed(e)) -> {Replayed(e)[i] : i \in DOMAIN Replayed(e)}]
    BY <2>2 DEF Replayed
  <2>4. \A i \in 1..(m - seq[e]) : vals'[e][i] = entries[e][seq[e] + i].val
    <3> DEFINE r == Replayed(e)
               l == Live(e)
               T == {r[i] : i \in DOMAIN r}
    <3>1. Len(r) \in Nat /\ l \in Nat /\ r \in [1..Len(r) -> T] /\ vs \in [1..l -> S]
      BY <1>15, <2>2, <2>3
    <3> HIDE DEF r, l, T
    <3>2. \A i \in 1..Len(r) : (r \o vs)[i] = r[i]
      BY <3>1, ConcatHead
    <3>3. QED
      BY <2>1, <2>2, <3>2 DEF r
  <2>5. IsLines(entries[e])'
    BY <1>4, <1>15 DEF IsLines
  <2>6. PlacedAt(e)'
    BY <1>4, <1>5, <1>15, <2>1, <2>4, <2>5 DEF PlacedAt, MidCall, n, m
  <2>7. QED
    BY <2>1, <2>6
<1>16. CASE Answered(e)
  <2>1. UNCHANGED << script, at, seq, entries >> /\ pc[e] = "wait" /\ MidCall(e)
    BY <1>16 DEF Answered, aside, MidCall
  <2>2. PICK vs \in [1..Live(e) -> Answers(e)] :
          /\ vals' = [vals EXCEPT ![e] = @ \o vs]
          /\ \/ pc' = [pc EXCEPT ![e] = "release"] /\ UNCHANGED out
             \/ End(e, "cancelled")
             \/ pc' = [pc EXCEPT ![e] = "record"] /\ UNCHANGED out
    BY <1>16 DEF Answered
  <2>3. QED
    BY <1>7, <1>14, <1>15, <2>1, <2>2 DEF End
<1>17. CASE ReplyDropped(e)
  <2>1. UNCHANGED << script, at, seq, entries >> /\ pc[e] = "wait" /\ MidCall(e)
    BY <1>17 DEF ReplyDropped, aside, MidCall
  <2>2. CASE script[at[e]] = "panel"
    <3>1. PICK vs \in [1..Live(e) -> Answers(e) \cup {"dropped"}] :
            /\ vals' = [vals EXCEPT ![e] = @ \o vs]
            /\ \/ pc' = [pc EXCEPT ![e] = "release"]
               \/ pc' = [pc EXCEPT ![e] = "record"]
            /\ UNCHANGED out
      BY <1>17, <2>2 DEF ReplyDropped
    <3>2. QED
      BY <1>14, <1>15, <2>1, <3>1
  <2>3. CASE script[at[e]] # "panel"
    BY <1>7, <1>17, <2>1, <2>3 DEF ReplyDropped, End
  <2>4. QED
    BY <2>2, <2>3
<1>18. CASE Asks(e)
  <2>1. /\ UNCHANGED << script, at, seq, entries, out >> /\ pc' = [pc EXCEPT ![e] = "record"]
        /\ vals' = [vals EXCEPT ![e] = << "null" >>] /\ script[at[e]] = "ask" /\ pc[e] = "wait"
    BY <1>18 DEF Asks, ends, aside
  <2>2. ThreadMoves(e) /\ pc'[e] = "record"
    BY <1>1, <2>1 DEF ThreadMoves
  <2>3. n = 1
    BY <2>1 DEF n, Width
  <2>4. m = seq[e] /\ at[e] \in DOMAIN script
    BY <1>2, <1>4, <1>5, <2>1, <2>3 DEF MidCall
  <2>5. IsLines(entries[e])'
    BY <1>4, <2>1 DEF IsLines
  <2>6. PlacedAt(e)'
    BY <1>2, <1>4, <2>1, <2>2, <2>3, <2>4, <2>5 DEF PlacedAt, n, m
  <2>7. QED
    BY <2>2, <2>6
<1>19. CASE Records(e)
  <2> DEFINE x == NextLine(e)
  <2>1. /\ script' = script /\ vals' = vals /\ pc[e] = "record"
        /\ entries' = [entries EXCEPT ![e] = Append(entries[e], x)]
    BY <1>19 DEF Records, aside
  <2>2. entries'[e] = Append(entries[e], x)
    BY <2>1
  <2>3. x = [seq |-> m, call |-> at[e], val |-> vals[e][m - seq[e] + 1], form |-> "line"]
    BY DEF NextLine, Line, m
  <2>4. /\ IsLines(entries'[e]) /\ Len(entries'[e]) = m + 1
        /\ \A i \in 1..m : entries'[e][i] = entries[e][i]
        /\ entries'[e][m + 1] = x
    BY <1>4, <2>2, <2>3, AppendedLines DEF m
  <2>5. x.val = vals[e][m - seq[e] + 1]
    BY <2>3
  <2> HIDE DEF x
  <2>6. m < seq[e] + n /\ at[e] \in DOMAIN script
    BY <1>5, <2>1 DEF MidCall
  <2>7. CASE m + 1 < seq[e] + n
    <3>1. UNCHANGED << pc, at, seq, out >>
      BY <1>19, <2>7 DEF Records, n, m
    <3>2. ThreadMoves(e)
      BY <1>1, <2>1, <3>1 DEF ThreadMoves
    <3>3. \A i \in 1..(m - seq[e]) : vals[e][i] = entries[e][seq[e] + i].val
      BY <2>1 DEF ThreadsPlaced, PlacedAt, m
    <3>4. \A i \in 1..(m + 1 - seq[e]) : vals[e][i] = entries'[e][seq[e] + i].val
      <4>1. SUFFICES ASSUME NEW i \in 1..(m + 1 - seq[e])
                     PROVE  vals[e][i] = entries'[e][seq[e] + i].val
        OBVIOUS
      <4>2. CASE i \in 1..(m - seq[e])
        <5>1. seq[e] + i \in 1..m
          BY <1>2, <1>4, <4>2
        <5>2. QED
          BY <2>4, <3>3, <4>2, <5>1
      <4>3. CASE i = m + 1 - seq[e]
        <5>1. seq[e] + i = m + 1 /\ i = m - seq[e] + 1
          BY <1>2, <1>4, <4>3
        <5>2. QED
          BY <2>4, <2>5, <5>1
      <4>4. QED
        BY <1>2, <1>4, <4>2, <4>3
    <3>5. IsLines(entries[e])'
      BY <2>4 DEF IsLines
    <3>6. \A i \in 1..(Len(entries'[e]) - seq'[e]) : vals'[e][i] = entries'[e][seq'[e] + i].val
      <4>1. seq'[e] = seq[e] /\ vals'[e] = vals[e] /\ Len(entries'[e]) = m + 1
        BY <2>1, <2>4, <3>1
      <4>2. 1..(Len(entries'[e]) - seq'[e]) = 1..(m + 1 - seq[e])
        BY <1>2, <1>4, <4>1
      <4>3. QED
        BY <3>4, <4>1, <4>2
    <3>7. /\ pc'[e] = "record" /\ seq'[e] <= Len(entries'[e])
          /\ at'[e] \in DOMAIN script' /\ Len(entries'[e]) < seq'[e] + Width(script'[at'[e]])
      BY <1>2, <1>4, <2>1, <2>4, <2>6, <2>7, <3>1 DEF n
    <3>8. PlacedAt(e)'
      BY <3>5, <3>6, <3>7 DEF PlacedAt
    <3>9. QED
      BY <3>2, <3>8
  <2>8. CASE ~(m + 1 < seq[e] + n)
    <3>1. Deliver(e, vals[e], FALSE)
      BY <1>19, <2>8 DEF Records, n, m
    <3>2. seq[e] + n <= Len(entries'[e])
      BY <1>2, <1>4, <2>4, <2>6, <2>8
    <3>3. QED
      BY <1>11, <2>1, <2>4, <3>1, <3>2
  <2>9. QED
    BY <2>7, <2>8
<1>20. QED
  BY <1>8, <1>10, <1>12, <1>13, <1>16, <1>17, <1>18, <1>19

\* A step that only lets threads end leaves the others where they are.
LEMMA QuietPlaced ==
  ASSUME ThreadsPlaced, UNCHANGED << script, at, seq, entries, vals, out >>,
         \A e \in Episodes : pc'[e] = pc[e] \/ pc'[e] \in {"ended", "persist", "gone"}
  PROVE  ThreadsPlaced'
<1>1. \A e \in Episodes : PlacedAt(e)'
  BY PlacedStays, EndedPlaced DEF ThreadsPlaced
<1>2. QED
  BY <1>1 DEF ThreadsPlaced

\* A thread that starts has replayed nothing yet.
LEMMA StartPlaced ==
  ASSUME ThreadsTyped, InOrder, ThreadsPlaced, DOMAIN entries = Episodes,
         NEW e \in Episodes, e > epoch \/ status = "none", NEW f, IsLines(f), script' = script,
         StartEpisode(e, f)
  PROVE  ThreadsPlaced'
<1>1. /\ pc' = [pc EXCEPT ![e] = "step"] /\ entries' = [entries EXCEPT ![e] = f]
      /\ UNCHANGED << at, seq, vals, out >>
  BY DEF StartEpisode, ends
<1>2. pc[e] = "unborn"
  BY DEF InOrder
<1>3. seq[e] = 0
  BY <1>2 DEF ThreadsPlaced, PlacedAt
<1>4. pc'[e] = "step" /\ entries'[e] = f /\ seq'[e] = 0 /\ Len(f) \in Nat
  BY <1>1, <1>3, LinesFacts DEF ThreadsTyped
<1>5. PlacedAt(e)'
  BY <1>4, StepPlaced
<1>6. ThreadMoves(e)
  BY <1>1 DEF ThreadMoves, ThreadsTyped, ThreadsPlaced
<1>7. QED
  BY <1>5, <1>6, PlacedElsewhere

\* Every step leaves the threads in place.
LEMMA PlacedStep ==
  ASSUME ReplayInv, [Next]_vars
  PROVE  ThreadsPlaced'
<1>1. /\ ThreadsTyped /\ InOrder /\ ThreadsPlaced /\ DOMAIN entries = Episodes
      /\ IsLines(loaded.entries)
  BY DEF ReplayInv, JournalInv, ThreadsInv, MemoryIsFile, NumbersAgree
<1>2. pc \in [Episodes -> Places] /\ epoch \in Nat
  BY <1>1 DEF ThreadsTyped, Places
<1>3. CASE EngineNext
  <2>1. PICK e \in Episodes :
          \/ Stops(e) \/ Completes(e) \/ Calls(e)
          \/ Reserves(e) \/ ReserveRefused(e) \/ ReserveUnsaved(e)
          \/ Answered(e) \/ ReplyDropped(e) \/ HostGone(e) \/ Asks(e) \/ Releases(e)
          \/ Records(e) \/ RecordFails(e)
    BY <1>3 DEF EngineNext
  <2>2. ThreadMoves(e) /\ PlacedAt(e)'
    BY <1>1, <2>1, EngineMoved
  <2>3. QED
    BY <1>1, <2>2, PlacedElsewhere
<1>4. CASE Launch
  <2>1. StartEpisode(1, << >>) /\ script' = script /\ status = "none"
    BY <1>4 DEF Launch, aside
  <2>2. 1 \in Episodes /\ IsLines(<< >>)
    BY WorkflowRunAssumption DEF Episodes, IsLines
  <2>3. QED
    BY <1>1, <2>1, <2>2, StartPlaced
<1>5. ASSUME NEW b, ResumeRuns(b)
      PROVE  ThreadsPlaced'
  <2>1. epoch + 1 \in Episodes /\ epoch + 1 > epoch
    BY <1>2, <1>5 DEF ResumeRuns, ReplayInv, JournalInv, ThreadsInv, ResumeHolds
  <2>2. \/ StartEpisode(epoch + 1, loaded.entries) /\ script' = script
        \/ UNCHANGED << script, at, seq, entries, vals, out >> /\ pc' = pc
        \/ /\ UNCHANGED << script, at, seq, entries, vals, out >>
           /\ pc' = [pc EXCEPT ![epoch + 1] = "gone"]
    BY <1>5 DEF ResumeRuns, thread, ends, aside
  <2>3. QED
    BY <1>1, <1>2, <2>1, <2>2, StartPlaced, QuietPlaced
<1>6. CASE ResumeLoads \/ Pause \/ Cancel \/ CancelMarks
  BY <1>1, <1>6, QuietPlaced DEF ResumeLoads, Pause, Cancel, CancelMarks, thread, ends, aside
<1>7. CASE WatcherNext
  <2>1. PICK e \in Episodes : Reports(e) \/ IsSuperseded(e) \/ Persists(e) \/ PersistFails(e)
    BY <1>7 DEF WatcherNext
  <2>2. CASE Reports(e)
    <3>1. UNCHANGED << script, at, seq, entries, vals, out >> /\ pc' = [pc EXCEPT ![e] = "persist"]
      BY <2>2 DEF Reports, thread, ends, aside
    <3>2. QED
      BY <1>1, <1>2, <3>1, QuietPlaced
  <2>3. CASE IsSuperseded(e) \/ Persists(e) \/ PersistFails(e)
    <3>1. Gone(e) /\ script' = script
      BY <2>3 DEF IsSuperseded, Persists, PersistFails, aside
    <3>2. ThreadMoves(e) /\ pc'[e] = "gone"
      BY <1>1, <1>2, <3>1 DEF Gone, ThreadMoves, ThreadsPlaced
    <3>3. QED
      BY <1>1, <3>2, EndedPlaced, PlacedElsewhere
  <2>4. QED
    BY <2>1, <2>2, <2>3
<1>8. CASE Crash
  <2>1. /\ script' = script
        /\ at' = [e \in Episodes |-> 1] /\ seq' = [e \in Episodes |-> 0]
        /\ DOMAIN vals' = Episodes /\ DOMAIN out' = Episodes
        /\ pc' = [e \in Episodes |-> IF pc[e] = "unborn" THEN "unborn" ELSE "gone"]
    BY <1>8 DEF Crash, aside
  <2>2. \A e \in Episodes : PlacedAt(e)'
    BY <2>1 DEF PlacedAt, Running, MidCall
  <2>3. QED
    BY <1>1, <2>1, <2>2 DEF ThreadsPlaced
<1>9. CASE UNCHANGED vars
  BY <1>1, <1>9, QuietPlaced DEF vars, thread, ends, aside
<1>10. QED
  BY <1>3, <1>4, <1>5, <1>6, <1>7, <1>8, <1>9 DEF Next, ManagerNext

-----------------------------------------------------------------------------
(***************************************************************************)
(* The numbers of the lines                                                *)
(***************************************************************************)

AllBelong(f) == \A i \in DOMAIN f : Belongs(f[i].seq, f[i].call)

LEMMA SameScript ==
  ASSUME script' = script
  PROVE  /\ \A n, k : Belongs(n, k)' = Belongs(n, k)
         /\ \A k : Before(k)' = Before(k)
         /\ \A f : AllBelong(f)' = AllBelong(f)
<1>1. \A k : Before(k)' = Before(k)
  BY DEF Before
<1>2. \A n, k : Belongs(n, k)' = Belongs(n, k)
  BY <1>1 DEF Belongs
<1>3. QED
  BY <1>1, <1>2 DEF AllBelong

LEMMA RepairedBelong ==
  ASSUME NEW f, IsLines(f), AllBelong(f)
  PROVE  AllBelong(Repaired(f)) /\ AllBelong(Pruned(Repaired(f)))
<1> DEFINE g == Repaired(f)
<1>1. /\ IsLines(g) /\ DOMAIN g \subseteq DOMAIN f
      /\ \A i \in DOMAIN g : g[i].seq = f[i].seq /\ g[i].call = f[i].call
  BY RepairedLines
<1> HIDE DEF g
<1>2. AllBelong(g)
  BY <1>1 DEF AllBelong
<1>3. AllBelong(Pruned(g))
  <2>1. CASE Prunes(g)
    <3>1. Pruned(g) = SubSeq(g, 1, Len(g) - 1) /\ g # << >>
      BY <2>1 DEF Pruned, Prunes
    <3>2. /\ DOMAIN Pruned(g) = 1..(Len(g) - 1)
          /\ \A i \in DOMAIN Pruned(g) : Pruned(g)[i] = g[i]
      BY <1>1, <3>1, CutLines
    <3>3. DOMAIN g = 1..Len(g) /\ Len(g) \in Nat
      BY <1>1, LinesFacts
    <3>4. \A i \in DOMAIN Pruned(g) : i \in DOMAIN g
      BY <3>2, <3>3
    <3>5. QED
      BY <1>2, <3>2, <3>4 DEF AllBelong
  <2>2. CASE ~Prunes(g)
    BY <1>2, <2>2 DEF Pruned
  <2>3. QED
    BY <2>1, <2>2
<1>4. QED
  BY <1>2, <1>3 DEF g

\* An append, whole or cut short, of a line with a number of its call.
LEMMA AppendBelong ==
  ASSUME NEW f, IsLines(f), AllBelong(f), NEW n, NEW c, NEW v, Belongs(n, c)
  PROVE  /\ AllBelong(AppendLine(f, Line(n, c, v)))
         /\ \A g \in PartialAppends(f, Line(n, c, v)) : AllBelong(g)
<1>1. \A g \in PartialAppends(f, Line(n, c, v)) : AllBelong(g)
  BY PartialLines DEF AllBelong
<1>2. AppendLine(f, Line(n, c, v)) \in PartialAppends(f, Line(n, c, v))
  <2>1. [Line(n, c, v) EXCEPT !.form = "line"] = Line(n, c, v)
    BY DEF Line
  <2>2. QED
    BY <2>1 DEF PartialAppends
<1>3. QED
  BY <1>1, <1>2

\* The line that a thread writes next: the result of its call, under the next number.
LEMMA NextLineIs ==
  ASSUME NEW e
  PROVE  LET v == vals[e][Len(entries[e]) - seq[e] + 1]
             x == NextLine(e)
         IN  /\ x = Line(Len(entries[e]), at[e], v)
             /\ x = [seq |-> Len(entries[e]), call |-> at[e], val |-> v, form |-> "line"]
BY DEF NextLine, Line

LEMMA NextLineBelongs ==
  ASSUME ThreadsPlaced, NEW e \in Episodes, NumberedAt(e), pc[e] = "record"
  PROVE  Belongs(Len(entries[e]), at[e])
<1>1. Running(e) /\ MidCall(e)
  BY DEF Running, MidCall
<1>2. /\ at[e] \in DOMAIN script /\ Len(entries[e]) < seq[e] + Width(script[at[e]])
      /\ seq[e] <= Len(entries[e]) /\ seq[e] = Before(at[e])
      /\ Len(entries[e]) \in Nat /\ seq[e] \in Nat
  BY <1>1, LinesFacts DEF ThreadsPlaced, PlacedAt, NumberedAt
<1>3. Width(script[at[e]]) \in Nat
  BY WidthFacts
<1>4. QED
  BY <1>2, <1>3 DEF Belongs

\* A thread whose lines are under the numbers of their calls finds its own call there.
LEMMA NoDivergence ==
  ASSUME ThreadsPlaced, NEW e \in Episodes, NumberedAt(e), Running(e), at[e] <= Len(script)
  PROVE  ~Diverges(e)
<1>1. SUFFICES ASSUME NEW i \in 1..Len(Replayed(e))
               PROVE  entries[e][seq[e] + i].call = at[e]
  BY DEF Diverges
<1>2. script \in Scripts /\ at[e] \in DOMAIN script /\ seq[e] \in Nat /\ IsLines(entries[e])
  BY AtInScript DEF ThreadsPlaced, PlacedAt
<1>3. /\ Len(Replayed(e)) \in Nat /\ Len(Replayed(e)) <= Width(script[at[e]])
      /\ seq[e] + Len(Replayed(e)) <= Len(entries[e])
  BY ReplayedFacts
<1>4. Len(entries[e]) \in Nat /\ DOMAIN entries[e] = 1..Len(entries[e])
  BY <1>2, LinesFacts
<1>5. seq[e] + i \in DOMAIN entries[e]
  BY <1>2, <1>3, <1>4
<1>6. Belongs((seq[e] + i) - 1, entries[e][seq[e] + i].call)
  BY <1>5 DEF NumberedAt
<1>7. Belongs((seq[e] + i) - 1, at[e])
  <2>1. seq[e] = Before(at[e]) /\ Width(script[at[e]]) \in Nat
    BY WidthFacts DEF NumberedAt
  <2>2. QED
    BY <1>2, <1>3, <2>1 DEF Belongs
<1>8. QED
  BY <1>2, <1>6, <1>7, BelongsOnce

\* A thread that nothing happened to, and one that ended.
LEMMA NumberedStays ==
  ASSUME NEW d \in Episodes, NumberedAt(d), script' = script, at'[d] = at[d], seq'[d] = seq[d],
         entries'[d] = entries[d], Running(d)' => Running(d), out'[d] # "diverged"
  PROVE  NumberedAt(d)'
<1>1. \A n, k : Belongs(n, k)' = Belongs(n, k)
  BY SameScript
<1>2. Before(at[d])' = Before(at[d])
  BY DEF Before
<1>3. \A i \in DOMAIN entries[d] : Belongs(i - 1, entries[d][i].call) =>
        Belongs(i - 1, entries[d][i].call)'
  BY <1>1
<1>4. QED
  BY <1>2, <1>3 DEF NumberedAt

LEMMA NumberedEnded ==
  ASSUME NEW e \in Episodes, pc'[e] \in {"ended", "persist", "gone"}, out'[e] # "diverged"
  PROVE  NumberedAt(e)'
BY DEF NumberedAt, Running

\* The results of a call are delivered: the next call has the next numbers.
LEMMA DeliverNumbered ==
  ASSUME ThreadsTyped, ThreadsPlaced, NEW e \in Episodes, Running(e), NumberedAt(e),
         NEW vs, NEW replayed, Deliver(e, vs, replayed), script' = script,
         \A i \in DOMAIN entries'[e] : Belongs(i - 1, entries'[e][i].call)
  PROVE  NumberedAt(e)'
<1>1. /\ pc \in [Episodes -> Places] /\ at \in [Episodes -> Nat \ {0}] /\ seq \in [Episodes -> Nat]
      /\ DOMAIN out = Episodes
  BY DEF ThreadsTyped, ThreadsPlaced, Places
<1>2. CASE /\ pc' = [pc EXCEPT ![e] = "ended"] /\ at' = at /\ seq' = seq
           /\ \E o \in {"failed", "failed.host", "paused"} : out' = [out EXCEPT ![e] = o]
  BY <1>1, <1>2, NumberedEnded
<1>3. CASE /\ pc' = [pc EXCEPT ![e] = "step"] /\ at' = [at EXCEPT ![e] = at[e] + 1]
           /\ seq' = [seq EXCEPT ![e] = seq[e] + Width(script[at[e]])] /\ out' = out
  <2>1. /\ at'[e] = at[e] + 1 /\ seq'[e] = seq[e] + Width(script[at[e]]) /\ at[e] \in Nat \ {0}
        /\ out'[e] = out[e]
    BY <1>1, <1>3
  <2>2. seq'[e] = Before(at[e] + 1)
    BY <2>1, BeforeNext DEF NumberedAt
  <2>3. Before(at[e])' = Before(at[e] + 1)
    BY <2>1 DEF Before
  <2>4. \A i \in DOMAIN entries'[e] : Belongs(i - 1, entries[e][i].call)'
    BY SameScript
  <2>5. QED
    BY <2>1, <2>2, <2>3, <2>4 DEF NumberedAt
<1>4. QED
  BY <1>2, <1>3, DeliverMoves

\* Every step of an engine, as long as every reservation is saved.
LEMMA EngineNumbered ==
  ASSUME ReplayInv, unsaved = 0, unsaved' = 0, NEW e \in Episodes,
         \/ Stops(e) \/ Completes(e) \/ Calls(e)
         \/ Reserves(e) \/ ReserveRefused(e) \/ ReserveUnsaved(e)
         \/ Answered(e) \/ ReplyDropped(e) \/ HostGone(e) \/ Asks(e) \/ Releases(e)
         \/ Records(e) \/ RecordFails(e)
  PROVE  NumberedAt(e)' /\ AllBelong(file')
<1>1. ThreadsTyped /\ ThreadsPlaced /\ DOMAIN entries = Episodes /\ IsLines(file)
      /\ AllBelong(file) /\ NumberedAt(e)
  BY DEF ReplayInv, JournalInv, ThreadsInv, MemoryIsFile, NumbersAgree, AllBelong
<1>2. /\ pc \in [Episodes -> Places] /\ at \in [Episodes -> Nat \ {0}] /\ seq \in [Episodes -> Nat]
      /\ DOMAIN out = Episodes
  BY <1>1 DEF ThreadsTyped, ThreadsPlaced, Places
<1>3. Running(e)
  BY DEF Stops, Completes, Calls, Reserves, ReserveRefused, ReserveUnsaved, Answered, ReplyDropped,
         HostGone, Asks, Releases, Records, RecordFails, Running
<1>4. IsLines(entries[e])
  BY <1>1, <1>3 DEF ThreadsPlaced, PlacedAt
<1>5. ASSUME pc' = [pc EXCEPT ![e] = "ended"],
             \E o \in {"none", "completed", "paused", "budget", "cancelled", "failed", "failed.host"} :
               out' = [out EXCEPT ![e] = o]
      PROVE  NumberedAt(e)'
  BY <1>2, <1>5, NumberedEnded
<1>6. ASSUME UNCHANGED << script, at, seq, entries, out >>
      PROVE  NumberedAt(e)'
  BY <1>1, <1>3, <1>6, NumberedStays DEF NumberedAt
<1>7. CASE Stops(e) \/ Completes(e) \/ ReserveRefused(e) \/ HostGone(e) \/ Releases(e)
  <2>1. \A vs : Verdict(vs) \in {"failed", "cancelled"}
    BY DEF Verdict
  <2>2. file' = file
    BY <1>7 DEF Stops, Completes, ReserveRefused, HostGone, Releases
  <2>3. QED
    BY <1>1, <1>5, <1>7, <2>1, <2>2 DEF Stops, Completes, ReserveRefused, HostGone, Releases, End
<1>8. CASE ReserveUnsaved(e)
  BY <1>8 DEF ReserveUnsaved
<1>9. CASE Reserves(e) \/ Asks(e)
  BY <1>1, <1>6, <1>9 DEF Reserves, Asks, thread, ends, aside
<1>10. CASE Answered(e)
  <2>1. /\ UNCHANGED << script, at, seq, entries, file >>
        /\ UNCHANGED out \/ End(e, "cancelled")
    BY <1>10 DEF Answered, aside
  <2>2. QED
    BY <1>1, <1>5, <1>6, <2>1 DEF End
<1>11. CASE ReplyDropped(e)
  <2>1. /\ UNCHANGED << script, at, seq, entries, file >>
        /\ UNCHANGED out \/ End(e, "failed")
    BY <1>11 DEF ReplyDropped, aside
  <2>2. QED
    BY <1>1, <1>5, <1>6, <2>1 DEF End
<1>12. CASE Calls(e)
  <2>1. /\ script' = script /\ entries' = entries /\ file' = file /\ at[e] <= Len(script)
    BY <1>12 DEF Calls, aside
  <2>2. ~Diverges(e)
    BY <1>1, <1>3, <2>1, NoDivergence
  <2>3. CASE Live(e) = 0
    <3>1. Deliver(e, Replayed(e), TRUE)
      BY <1>12, <2>2, <2>3 DEF Calls
    <3>2. \A i \in DOMAIN entries'[e] : Belongs(i - 1, entries'[e][i].call)
      BY <1>1, <1>3, <2>1 DEF NumberedAt
    <3>3. NumberedAt(e)'
      BY <1>1, <1>3, <2>1, <3>1, <3>2, DeliverNumbered
    <3>4. QED
      BY <1>1, <2>1, <3>3
  <2>4. CASE Live(e) # 0
    <3>1. UNCHANGED << at, seq, out >>
      BY <1>12, <2>2, <2>4 DEF Calls
    <3>2. QED
      BY <1>1, <1>6, <2>1, <3>1
  <2>5. QED
    BY <2>3, <2>4
<1>13. CASE Records(e)
  <2> DEFINE m == Len(entries[e])
             v == vals[e][m - seq[e] + 1]
             x == NextLine(e)
  <2>1. /\ script' = script /\ pc[e] = "record" /\ file' = AppendLine(file, x)
        /\ entries' = [entries EXCEPT ![e] = Append(entries[e], x)]
    BY <1>13 DEF Records, aside
  <2>2. Belongs(m, at[e])
    BY <1>1, <2>1, NextLineBelongs
  <2>3. x = Line(m, at[e], v) /\ x = [seq |-> m, call |-> at[e], val |-> v, form |-> "line"]
    BY NextLineIs
  <2>4. AllBelong(file')
    BY <1>1, <2>1, <2>2, <2>3, AppendBelong
  <2>5. entries'[e] = Append(entries[e], x)
    BY <1>1, <2>1
  <2>6. /\ IsLines(entries'[e]) /\ Len(entries'[e]) = m + 1
        /\ \A i \in 1..m : entries'[e][i] = entries[e][i]
        /\ entries'[e][m + 1] = x
    BY <1>4, <2>3, <2>5, AppendedLines
  <2>7. x.call = at[e]
    BY <2>3
  <2> HIDE DEF x, v
  <2>8. m \in Nat /\ DOMAIN entries[e] = 1..m /\ DOMAIN entries'[e] = 1..(m + 1)
    BY <1>4, <2>6, LinesFacts
  <2>9. \A i \in DOMAIN entries'[e] : Belongs(i - 1, entries'[e][i].call)
    <3>1. \A i \in 1..m : Belongs(i - 1, entries[e][i].call)
      BY <1>1, <1>3, <2>8 DEF NumberedAt
    <3>2. (m + 1) - 1 = m
      BY <2>8
    <3>3. \A i \in 1..(m + 1) : i \in 1..m \/ i = m + 1
      BY <2>8
    <3> HIDE DEF m
    <3>4. QED
      BY <2>2, <2>6, <2>7, <2>8, <3>1, <3>2, <3>3
  <2>10. CASE m + 1 < seq[e] + Width(script[at[e]])
    <3>1. UNCHANGED << pc, at, seq, out >>
      BY <1>13, <2>10 DEF Records
    <3>2. Before(at[e])' = Before(at[e])
      BY <2>1, <3>1 DEF Before
    <3>3. \A i \in DOMAIN entries'[e] : Belongs(i - 1, entries[e][i].call)'
      BY <2>1, <2>9, SameScript
    <3>4. NumberedAt(e)'
      BY <1>1, <1>3, <3>1, <3>2, <3>3 DEF NumberedAt
    <3>5. QED
      BY <2>4, <3>4
  <2>11. CASE ~(m + 1 < seq[e] + Width(script[at[e]]))
    <3>1. Deliver(e, vals[e], FALSE)
      BY <1>13, <2>11 DEF Records
    <3>2. NumberedAt(e)'
      BY <1>1, <1>3, <2>1, <2>9, <3>1, DeliverNumbered
    <3>3. QED
      BY <2>4, <3>2
  <2>12. QED
    BY <2>10, <2>11
<1>14. CASE RecordFails(e)
  <2>1. pc[e] = "record" /\ file' \in PartialAppends(file, NextLine(e)) /\ End(e, "failed")
    BY <1>14 DEF RecordFails
  <2>2. Belongs(Len(entries[e]), at[e])
    BY <1>1, <2>1, NextLineBelongs
  <2>3. NextLine(e) = Line(Len(entries[e]), at[e], vals[e][Len(entries[e]) - seq[e] + 1])
    BY NextLineIs
  <2>4. AllBelong(file')
    BY <1>1, <2>1, <2>2, <2>3, AppendBelong
  <2>5. QED
    BY <1>5, <2>1, <2>4 DEF End
<1>15. QED
  BY <1>7, <1>8, <1>9, <1>10, <1>11, <1>12, <1>13, <1>14

\* The journal stays a sequence of lines.
LEMMA FileLines ==
  ASSUME ReplayInv, [Next]_vars
  PROVE  IsLines(file')
<1>1. IsLines(file)
  BY DEF ReplayInv, NumbersAgree
<1>2. ASSUME NEW e, file' \in PartialAppends(file, NextLine(e))
      PROVE  IsLines(file')
  <2>1. NextLine(e) = Line(Len(entries[e]), at[e], vals[e][Len(entries[e]) - seq[e] + 1])
    BY NextLineIs
  <2>2. QED
    BY <1>1, <1>2, <2>1, PartialLines
<1>3. CASE EngineNext
  <2>1. PICK e \in Episodes :
          file' = file \/ file' = AppendLine(file, NextLine(e)) \/ file' \in PartialAppends(file, NextLine(e))
    BY <1>3 DEF EngineNext, Stops, Completes, Calls, Reserves, ReserveRefused, ReserveUnsaved,
                Answered, ReplyDropped, HostGone, Asks, Releases, Records, RecordFails
  <2>2. NextLine(e) = [seq |-> Len(entries[e]), call |-> at[e],
                       val |-> vals[e][Len(entries[e]) - seq[e] + 1], form |-> "line"]
    BY NextLineIs
  <2>3. IsLines(AppendLine(file, NextLine(e)))
    BY <1>1, <2>2, AppendLineLines
  <2>4. QED
    BY <1>1, <1>2, <2>1, <2>3
<1>4. CASE Crash
  <2>1. PICK e \in Episodes : file' = file \/ file' \in PartialAppends(file, NextLine(e))
    BY <1>4 DEF Crash
  <2>2. QED
    BY <1>1, <1>2, <2>1
<1>5. CASE ResumeLoads
  BY <1>1, <1>5, LoadedIsDense, PrunedIsDense DEF ResumeLoads
<1>6. CASE \/ Launch \/ (\E b \in agent_budget..MaxBudget : ResumeRuns(b))
           \/ Pause \/ Cancel \/ CancelMarks \/ WatcherNext \/ UNCHANGED vars
  BY <1>1, <1>6 DEF Launch, ResumeRuns, Pause, Cancel, CancelMarks, WatcherNext, Reports,
                    IsSuperseded, Persists, PersistFails, vars
<1>7. QED
  BY <1>3, <1>4, <1>5, <1>6 DEF Next, ManagerNext

\* The script does not change, and manifests that were not saved are not forgotten.
LEMMA ScriptStays ==
  ASSUME ThreadsTyped, [Next]_vars
  PROVE  script' = script /\ (unsaved' = 0 => unsaved = 0)
<1>1. script' = script
  BY DEF Next, ManagerNext, Launch, ResumeLoads, ResumeRuns, Pause, Cancel, CancelMarks, EngineNext,
         Stops, Completes, Calls, Reserves, ReserveRefused, ReserveUnsaved, Answered, ReplyDropped,
         HostGone, Asks, Releases, Records, RecordFails, WatcherNext, Reports, IsSuperseded, Persists,
         PersistFails, Crash, aside, vars
<1>2. unsaved' = unsaved \/ unsaved' = unsaved + 1
  BY DEF Next, ManagerNext, Launch, ResumeLoads, ResumeRuns, Pause, Cancel, CancelMarks, EngineNext,
         Stops, Completes, Calls, Reserves, ReserveRefused, ReserveUnsaved, Answered, ReplyDropped,
         HostGone, Asks, Releases, Records, RecordFails, WatcherNext, Reports, IsSuperseded, Persists,
         PersistFails, Crash, counts, vars
<1>3. QED
  BY <1>1, <1>2 DEF ThreadsTyped

\* What a resume has loaded are lines under the numbers of their calls.
LEMMA LoadedNumbers ==
  ASSUME ReplayInv, [Next]_vars
  PROVE  /\ IsLines(loaded'.entries)
         /\ unsaved' = 0 /\ manager' = "resume" =>
              \A i \in DOMAIN loaded'.entries : Belongs(i - 1, loaded'.entries[i].call)
<1>1. IsLines(file) /\ IsLines(loaded.entries)
  BY DEF ReplayInv, NumbersAgree
<1>2. unsaved' = 0 => unsaved = 0
  BY ScriptStays DEF ReplayInv, JournalInv, ThreadsInv
<1>3. ASSUME manager' = manager, loaded' = loaded
      PROVE  /\ IsLines(loaded'.entries)
             /\ unsaved' = 0 /\ manager' = "resume" =>
                  \A i \in DOMAIN loaded'.entries : Belongs(i - 1, loaded'.entries[i].call)
  BY <1>1, <1>2, <1>3 DEF ReplayInv, NumbersAgree
<1>4. CASE ResumeLoads
  <2> DEFINE f == Pruned(Repaired(file))
  <2>1. IsLines(f) /\ Dense(f) /\ loaded'.entries = f
    BY <1>1, <1>4, LoadedIsDense, PrunedIsDense DEF ResumeLoads
  <2>2. unsaved = 0 => AllBelong(f)
    BY <1>1, RepairedBelong DEF ReplayInv, NumbersAgree, AllBelong
  <2> HIDE DEF f
  <2>3. QED
    BY <1>2, <2>1, <2>2 DEF AllBelong, Dense
<1>5. CASE (\E b \in agent_budget..MaxBudget : ResumeRuns(b)) \/ Crash
  <2>1. manager' = "free" /\ loaded'.entries = << >>
    BY <1>5 DEF ResumeRuns, Crash, NotLoaded
  <2>2. QED
    BY <2>1 DEF IsLines
<1>6. CASE Cancel \/ CancelMarks
  BY <1>1, <1>6 DEF Cancel, CancelMarks
<1>7. CASE EngineNext
  BY <1>3, <1>7, EngineSummary DEF EngineMoves, ReplayInv, JournalInv, ThreadsInv
<1>8. CASE Launch \/ Pause \/ WatcherNext \/ UNCHANGED vars
  BY <1>3, <1>8 DEF Launch, Pause, WatcherNext, Reports, IsSuperseded, Persists, PersistFails,
                    held, vars
<1>9. QED
  BY <1>4, <1>5, <1>6, <1>7, <1>8 DEF Next, ManagerNext

\* Every step keeps the numbers.
LEMMA NumbersStep ==
  ASSUME ReplayInv, [Next]_vars
  PROVE  NumbersAgree'
<1>1. ThreadsTyped /\ InOrder /\ ThreadsPlaced /\ DOMAIN entries = Episodes /\ IsLines(file)
  BY DEF ReplayInv, JournalInv, ThreadsInv, MemoryIsFile, NumbersAgree
<1>2. pc \in [Episodes -> Places] /\ epoch \in Nat /\ unsaved \in Nat /\ DOMAIN out = Episodes
  BY <1>1 DEF ThreadsTyped, ThreadsPlaced, Places
<1>3. IsLines(file)'
  BY FileLines DEF IsLines
<1>4. script' = script /\ (unsaved' = 0 => unsaved = 0)
  BY <1>1, ScriptStays
<1>5. SUFFICES ASSUME unsaved' = 0
               PROVE  AllBelong(file') /\ \A e \in Episodes : NumberedAt(e)'
  <2>1. AllBelong(file') => \A i \in DOMAIN file' : Belongs(file[i].seq, file[i].call)'
    BY <1>4, SameScript DEF AllBelong
  <2>2. IsLines(loaded.entries)'
    BY LoadedNumbers DEF IsLines
  <2>3. unsaved' = 0 /\ manager' = "resume" =>
          \A i \in DOMAIN loaded'.entries : Belongs(i - 1, loaded.entries[i].call)'
    BY <1>4, SameScript, LoadedNumbers
  <2>4. QED
    BY <1>3, <1>5, <2>1, <2>2, <2>3 DEF NumbersAgree
<1>6. unsaved = 0
  BY <1>4, <1>5
<1>7. AllBelong(file) /\ \A e \in Episodes : NumberedAt(e)
  BY <1>6 DEF ReplayInv, NumbersAgree, AllBelong
<1>8. CASE EngineNext
  <2>1. PICK e \in Episodes :
          \/ Stops(e) \/ Completes(e) \/ Calls(e)
          \/ Reserves(e) \/ ReserveRefused(e) \/ ReserveUnsaved(e)
          \/ Answered(e) \/ ReplyDropped(e) \/ HostGone(e) \/ Asks(e) \/ Releases(e)
          \/ Records(e) \/ RecordFails(e)
    BY <1>8 DEF EngineNext
  <2>2. ThreadMoves(e)
    BY <1>1, <2>1, EngineMoved
  <2>3. NumberedAt(e)' /\ AllBelong(file')
    BY <1>5, <1>6, <2>1, EngineNumbered
  <2>4. \A d \in Episodes : d # e => NumberedAt(d)'
    <3>1. SUFFICES ASSUME NEW d \in Episodes, d # e
                   PROVE  NumberedAt(d)'
      OBVIOUS
    <3>2. /\ pc'[d] = pc[d] /\ at'[d] = at[d] /\ seq'[d] = seq[d]
          /\ entries'[d] = entries[d] /\ out'[d] = out[d]
      BY <2>2, <3>1 DEF ThreadMoves
    <3>3. QED
      BY <1>4, <1>7, <3>2, NumberedStays DEF NumberedAt, Running
  <2>5. QED
    BY <2>3, <2>4
<1>9. ASSUME UNCHANGED << at, seq, entries, out >>,
             \A e \in Episodes : pc'[e] = pc[e] \/ pc'[e] \in {"ended", "persist", "gone"}
      PROVE  \A e \in Episodes : NumberedAt(e)'
  BY <1>4, <1>7, <1>9, NumberedStays, NumberedEnded DEF NumberedAt, Running
<1>10. ASSUME NEW e \in Episodes, e > epoch \/ status = "none", NEW f, StartEpisode(e, f),
              \A i \in DOMAIN f : Belongs(i - 1, f[i].call)
       PROVE  \A d \in Episodes : NumberedAt(d)'
  <2>1. /\ pc' = [pc EXCEPT ![e] = "step"] /\ entries' = [entries EXCEPT ![e] = f]
        /\ UNCHANGED << at, seq, vals, out >>
    BY <1>10 DEF StartEpisode, ends
  <2>2. \A d \in Episodes : d # e => NumberedAt(d)'
    BY <1>1, <1>2, <1>4, <1>7, <2>1, NumberedStays DEF NumberedAt, Running
  <2>3. at[e] = 1 /\ seq[e] = 0
    BY <1>1, <1>10 DEF InOrder, ThreadsPlaced, PlacedAt
  <2>4. Before(1) = 0
    <3>1. PanelsBefore(1) = {}
      BY DEF PanelsBefore
    <3>2. Cardinality(PanelsBefore(1)) = 0
      BY <3>1, FS_EmptySet
    <3>3. QED
      BY <3>2, BeforeFacts
  <2>5. Before(at[e])' = 0
    <3>1. Before(at[e])' = Before(1)
      BY <1>4, <2>1, <2>3 DEF Before
    <3>2. QED
      BY <2>4, <3>1
  <2>6. entries'[e] = f
    BY <1>1, <2>1
  <2>7. \A i \in DOMAIN entries'[e] : Belongs(i - 1, entries[e][i].call)'
    BY <1>4, <1>10, <2>6, SameScript
  <2>8. out'[e] # "diverged"
    BY <1>7, <2>1 DEF NumberedAt
  <2>9. NumberedAt(e)'
    BY <2>1, <2>3, <2>5, <2>7, <2>8 DEF NumberedAt
  <2>10. QED
    BY <2>2, <2>9
<1>11. CASE Launch
  <2>1. StartEpisode(1, << >>) /\ file' = file /\ status = "none" /\ 1 \in Episodes
    BY <1>11, WorkflowRunAssumption DEF Launch, Episodes
  <2>2. \A i \in DOMAIN << >> : Belongs(i - 1, << >>[i].call)
    OBVIOUS
  <2>3. QED
    BY <1>7, <1>10, <2>1, <2>2
<1>12. ASSUME NEW b, ResumeRuns(b)
       PROVE  AllBelong(file') /\ \A e \in Episodes : NumberedAt(e)'
  <2> DEFINE f == loaded.entries
  <2>1. manager = "resume" /\ file' = file
    BY <1>12 DEF ResumeRuns
  <2>2. \A i \in DOMAIN f : Belongs(i - 1, f[i].call)
    BY <1>6, <2>1 DEF ReplayInv, NumbersAgree
  <2>3. epoch + 1 \in Episodes /\ epoch + 1 > epoch
    BY <1>2, <2>1 DEF ReplayInv, JournalInv, ThreadsInv, ResumeHolds
  <2>4. \/ StartEpisode(epoch + 1, f)
        \/ UNCHANGED << at, seq, entries, out >> /\ pc' = pc
        \/ UNCHANGED << at, seq, entries, out >> /\ pc' = [pc EXCEPT ![epoch + 1] = "gone"]
    BY <1>12 DEF ResumeRuns, thread, ends
  <2> HIDE DEF f
  <2>5. QED
    BY <1>2, <1>7, <1>9, <1>10, <2>1, <2>2, <2>3, <2>4
<1>13. CASE Pause \/ Cancel \/ CancelMarks
  BY <1>7, <1>9, <1>13 DEF Pause, Cancel, CancelMarks, thread, ends
<1>14. CASE ResumeLoads
  <2>1. AllBelong(file')
    BY <1>1, <1>7, <1>14, RepairedBelong DEF ResumeLoads
  <2>2. QED
    BY <1>9, <1>14, <2>1 DEF ResumeLoads, thread, ends
<1>15. CASE WatcherNext
  <2>1. PICK e \in Episodes : Reports(e) \/ IsSuperseded(e) \/ Persists(e) \/ PersistFails(e)
    BY <1>15 DEF WatcherNext
  <2>2. file' = file
    BY <2>1 DEF Reports, IsSuperseded, Persists, PersistFails
  <2>3. CASE Reports(e)
    <3>1. UNCHANGED << at, seq, entries, out >> /\ pc' = [pc EXCEPT ![e] = "persist"]
      BY <2>3 DEF Reports, thread, ends
    <3>2. QED
      BY <1>2, <1>7, <1>9, <2>2, <3>1
  <2>4. CASE IsSuperseded(e) \/ Persists(e) \/ PersistFails(e)
    <3>1. Gone(e)
      BY <2>4 DEF IsSuperseded, Persists, PersistFails
    <3>2. pc'[e] = "gone" /\ out'[e] = "none"
      BY <1>2, <3>1 DEF Gone
    <3>3. \A d \in Episodes : d # e =>
            /\ pc'[d] = pc[d] /\ at'[d] = at[d] /\ seq'[d] = seq[d]
            /\ entries'[d] = entries[d] /\ out'[d] = out[d]
      BY <1>1, <1>2, <3>1 DEF Gone, ThreadsPlaced
    <3>4. \A d \in Episodes : d # e => NumberedAt(d)'
      BY <1>4, <1>7, <3>3, NumberedStays DEF NumberedAt, Running
    <3>5. QED
      BY <1>7, <2>2, <3>2, <3>4, NumberedEnded
  <2>5. QED
    BY <2>1, <2>3, <2>4
<1>16. CASE Crash
  <2>1. \A e \in Episodes : NumberedAt(e)'
    BY <1>16 DEF Crash, NumberedAt, Running
  <2>2. AllBelong(file')
    <3>1. PICK e \in Episodes :
            file' \in IF pc[e] = "record" THEN PartialAppends(file, NextLine(e)) ELSE {file}
      BY <1>16 DEF Crash
    <3>2. CASE pc[e] = "record"
      <4>1. Belongs(Len(entries[e]), at[e])
        BY <1>1, <1>7, <3>2, NextLineBelongs
      <4>2. NextLine(e) = Line(Len(entries[e]), at[e], vals[e][Len(entries[e]) - seq[e] + 1])
        BY NextLineIs
      <4>3. QED
        BY <1>1, <1>7, <3>1, <3>2, <4>1, <4>2, AppendBelong
    <3>3. QED
      BY <1>7, <3>1, <3>2
  <2>3. QED
    BY <2>1, <2>2
<1>17. CASE UNCHANGED vars
  BY <1>7, <1>9, <1>17 DEF vars, thread, ends
<1>18. QED
  BY <1>8, <1>11, <1>12, <1>13, <1>14, <1>15, <1>16, <1>17 DEF Next, ManagerNext

-----------------------------------------------------------------------------
(***************************************************************************)
(* What the script was given                                               *)
(***************************************************************************)

\* The results that file f, as loaded, holds for what the function g says was given.
InJournal(g, f) ==
  \A n \in Seqs : g[n] # None => n + 1 \in DOMAIN f /\ g[n] = f[n + 1].val

\* A result that was given is not given differently.
Final(g, h) ==
  \A n \in Seqs : g[n] # None /\ h[n] # None => h[n] = g[n]

\* A longer journal with the same results.
LEMMA LongerJournal ==
  ASSUME NEW g, NEW f, NEW h, InJournal(g, f), DOMAIN f \subseteq DOMAIN h,
         \A i \in DOMAIN f : h[i].val = f[i].val
  PROVE  InJournal(g, h)
BY DEF InJournal

LEMMA SameInterval ==
  ASSUME NEW a \in Nat, NEW b \in Nat, 1..a = 1..b
  PROVE  a = b
<1>1. a # 0 => a \in 1..b
  OBVIOUS
<1>2. b # 0 => b \in 1..a
  OBVIOUS
<1>3. QED
  BY <1>1, <1>2

\* The results of a call that is delivered are the ones in the journal.
LEMMA DeliverGiven ==
  ASSUME NEW e \in Episodes, NEW vs, NEW replayed, Deliver(e, vs, replayed),
         DOMAIN given = Seqs, seq[e] \in Nat, NEW f, InJournal(given, f),
         LET w == Width(script[at[e]])
         IN  \A i \in 1..w : seq[e] + i \in DOMAIN f /\ vs[i] = f[seq[e] + i].val
  PROVE  DOMAIN given' = Seqs /\ InJournal(given', f) /\ Final(given, given')
<1> DEFINE w == Width(script[at[e]])
<1>1. w \in Nat
  BY WidthFacts
<1>2. given' = [n \in Seqs |-> IF n \in seq[e]..(seq[e] + w - 1) THEN vs[n - seq[e] + 1] ELSE given[n]]
  BY DEF Deliver
<1>3. \A i \in 1..w : seq[e] + i \in DOMAIN f /\ vs[i] = f[seq[e] + i].val
  OBVIOUS
<1> HIDE DEF w
<1>4. \A n \in Seqs : n \in seq[e]..(seq[e] + w - 1) =>
        n + 1 \in DOMAIN f /\ given'[n] = f[n + 1].val
  <2>1. SUFFICES ASSUME NEW n \in Seqs, n \in seq[e]..(seq[e] + w - 1)
                 PROVE  n + 1 \in DOMAIN f /\ given'[n] = f[n + 1].val
    OBVIOUS
  <2>2. n - seq[e] + 1 \in 1..w /\ seq[e] + (n - seq[e] + 1) = n + 1
    BY <1>1, <2>1
  <2>3. given'[n] = vs[n - seq[e] + 1]
    BY <1>2, <2>1
  <2>4. QED
    BY <1>3, <2>2, <2>3
<1>5. \A n \in Seqs : n \notin seq[e]..(seq[e] + w - 1) => given'[n] = given[n]
  BY <1>2
<1>6. QED
  BY <1>2, <1>4, <1>5 DEF InJournal, Final

LEMMA GivenStep ==
  ASSUME ReplayInv, [Next]_vars
  PROVE  GivenKept' /\ (~overtaken' => Final(given, given'))
<1>1. ThreadsTyped /\ ThreadsPlaced /\ DOMAIN entries = Episodes /\ IsLines(file) /\ JournalInv
  BY DEF ReplayInv, JournalInv, ThreadsInv, MemoryIsFile, NumbersAgree
<1>2. script' = script
  BY <1>1, ScriptStays
<1>3. DOMAIN given = Seqs /\ (~overtaken => InJournal(given, Repaired(file)))
  BY DEF ReplayInv, GivenKept, InJournal
<1>4. SUFFICES /\ DOMAIN given' = Seqs
               /\ ~overtaken' => InJournal(given', Repaired(file')) /\ Final(given, given')
  <2>1. Seqs' = Seqs
    BY <1>2 DEF Seqs
  <2>2. Repaired(file)' = Repaired(file')
    BY DEF Repaired
  <2>3. QED
    BY <1>4, <2>1, <2>2 DEF GivenKept, InJournal
<1>5. ASSUME given' = given, ~overtaken' => ~overtaken /\ InJournal(given, Repaired(file'))
      PROVE  /\ DOMAIN given' = Seqs
             /\ ~overtaken' => InJournal(given', Repaired(file')) /\ Final(given, given')
  BY <1>3, <1>5 DEF Final
<1>6. ASSUME given' = given, file' = file, overtaken' = overtaken
      PROVE  /\ DOMAIN given' = Seqs
             /\ ~overtaken' => InJournal(given', Repaired(file')) /\ Final(given, given')
  BY <1>3, <1>5, <1>6
<1>7. ASSUME NEW e \in Episodes, Running(e), ~overtaken
      PROVE  /\ entries[e] = file /\ Dense(file) /\ Repaired(file) = file
             /\ InJournal(given, file)
             /\ Len(file) \in Nat /\ DOMAIN file = 1..Len(file) /\ seq[e] \in Nat
  <2>1. entries[e] = file /\ Dense(file)
    BY <1>1, <1>7 DEF JournalInv, MemoryIsFile
  <2>2. Repaired(file) = file
    BY <1>1, <2>1, DenseLoads
  <2>3. QED
    BY <1>1, <1>3, <1>7, <2>1, <2>2, LinesFacts DEF ThreadsPlaced
<1>8. ASSUME NEW e \in Episodes, pc[e] = "record", file' \in PartialAppends(file, NextLine(e)),
             given' = given, overtaken' = overtaken
      PROVE  /\ DOMAIN given' = Seqs
             /\ ~overtaken' => InJournal(given', Repaired(file')) /\ Final(given, given')
  <2>1. SUFFICES ASSUME ~overtaken
                 PROVE  InJournal(given, Repaired(file'))
    BY <1>5, <1>8
  <2>2. entries[e] = file /\ Dense(file) /\ InJournal(given, file)
    BY <1>7, <1>8, <2>1 DEF Running
  <2>3. NextLine(e) = Line(Len(file), at[e], vals[e][Len(file) - seq[e] + 1])
    BY <2>2, NextLineIs
  <2>4. DOMAIN file \subseteq DOMAIN Repaired(file')
        /\ \A i \in DOMAIN file : Repaired(file')[i].val = file[i].val
    BY <1>1, <1>8, <2>2, <2>3, PartialRepaired
  <2>5. QED
    BY <2>2, <2>4, LongerJournal
<1>9. ASSUME NEW e \in Episodes, Calls(e)
      PROVE  /\ DOMAIN given' = Seqs
             /\ ~overtaken' => InJournal(given', Repaired(file')) /\ Final(given, given')
  <2>1. file' = file /\ overtaken' = overtaken /\ Running(e)
    BY <1>9 DEF Calls, aside, Running
  <2>2. CASE given' = given
    BY <1>6, <2>1, <2>2
  <2>3. CASE ~Diverges(e) /\ Live(e) = 0
    <3>1. Deliver(e, Replayed(e), TRUE)
      BY <1>9, <2>3 DEF Calls
    <3>2. DOMAIN given' = Seqs
      BY <3>1 DEF Deliver
    <3>3. SUFFICES ASSUME ~overtaken
                   PROVE  InJournal(given', file) /\ Final(given, given')
      BY <1>7, <2>1, <3>2
    <3>4. /\ entries[e] = file /\ InJournal(given, file) /\ seq[e] \in Nat
          /\ Len(file) \in Nat /\ DOMAIN file = 1..Len(file)
      BY <1>7, <2>1, <3>3
    <3> DEFINE w == Width(script[at[e]])
    <3>5. /\ w \in Nat /\ Len(Replayed(e)) = w /\ seq[e] + w <= Len(file)
          /\ \A i \in 1..w : Replayed(e)[i] = file[seq[e] + i].val
      BY <1>1, <2>1, <2>3, <3>4, ReplayedFacts
    <3>6. \A i \in 1..w : seq[e] + i \in DOMAIN file /\ Replayed(e)[i] = file[seq[e] + i].val
      <4> HIDE DEF w
      <4>1. QED
        BY <3>4, <3>5
    <3>7. QED
      BY <1>3, <3>1, <3>4, <3>6, DeliverGiven
  <2>4. QED
    BY <1>9, <2>2, <2>3 DEF Calls
<1>10. ASSUME NEW e \in Episodes, Records(e)
       PROVE  /\ DOMAIN given' = Seqs
              /\ ~overtaken' => InJournal(given', Repaired(file')) /\ Final(given, given')
  <2> DEFINE w == Width(script[at[e]])
             m == Len(entries[e])
  <2>1. /\ overtaken' = overtaken /\ Running(e) /\ MidCall(e) /\ pc[e] = "record"
        /\ file' = AppendLine(file, NextLine(e))
    BY <1>10 DEF Records, aside, Running, MidCall
  <2>2. \/ given' = given
        \/ ~(m + 1 < seq[e] + w) /\ Deliver(e, vals[e], FALSE)
    <3>1. CASE m + 1 < seq[e] + w
      BY <1>10, <3>1 DEF Records
    <3>2. CASE ~(m + 1 < seq[e] + w)
      BY <1>10, <3>2 DEF Records
    <3>3. QED
      BY <3>1, <3>2
  <2>3. DOMAIN given' = Seqs
    BY <1>3, <2>2 DEF Deliver
  <2>4. SUFFICES ASSUME ~overtaken
                 PROVE  InJournal(given', Repaired(file')) /\ Final(given, given')
    BY <2>1, <2>3
  <2>5. /\ entries[e] = file /\ Dense(file) /\ InJournal(given, file) /\ seq[e] \in Nat
        /\ Len(file) \in Nat /\ DOMAIN file = 1..Len(file)
    BY <1>7, <2>1, <2>4
  <2> DEFINE x == NextLine(e)
  <2>6. /\ x = Line(m, at[e], vals[e][m - seq[e] + 1])
        /\ x = [seq |-> m, call |-> at[e], val |-> vals[e][m - seq[e] + 1], form |-> "line"]
    BY NextLineIs
  <2>7. file' = Append(file, x) /\ IsLines(file') /\ Dense(file')
    <3>1. x = Line(Len(file), at[e], vals[e][m - seq[e] + 1])
      BY <2>5, <2>6
    <3> DEFINE v == vals[e][m - seq[e] + 1]
    <3> HIDE DEF v
    <3>2. x = Line(Len(file), at[e], v)
      BY <3>1 DEF v
    <3> HIDE DEF x
    <3>3. /\ AppendLine(file, x) = Append(file, x)
          /\ IsLines(Append(file, x)) /\ Dense(Append(file, x))
      BY <1>1, <2>5, <3>2, AppendIsDense
    <3>4. QED
      BY <2>1, <3>3 DEF x
  <2>8. /\ Len(file') = m + 1 /\ file'[m + 1] = x
        /\ \A i \in 1..m : file'[i] = file[i]
    BY <1>1, <2>5, <2>6, <2>7, AppendedLines
  <2>9. x.val = vals[e][m - seq[e] + 1]
    BY <2>6
  <2>10. Repaired(file') = file'
    BY <2>7, DenseLoads
  <2>11. m \in Nat /\ DOMAIN file = 1..m /\ DOMAIN file' = 1..(m + 1)
    BY <2>5, <2>7, <2>8, LinesFacts
  <2>12. /\ \A i \in 1..(m - seq[e]) : vals[e][i] = file[seq[e] + i].val
         /\ m < seq[e] + w /\ w \in Nat /\ seq[e] <= m
    BY <1>1, <2>1, <2>5, WidthFacts DEF ThreadsPlaced, PlacedAt
  <2> HIDE DEF x, m, w
  <2>13. InJournal(given, file')
    BY <2>5, <2>8, <2>11, LongerJournal
  <2>14. CASE given' = given
    BY <2>10, <2>13, <2>14 DEF Final
  <2>15. CASE ~(m + 1 < seq[e] + w) /\ Deliver(e, vals[e], FALSE)
    <3>1. \A i \in 1..w : seq[e] + i \in DOMAIN file' /\ vals[e][i] = file'[seq[e] + i].val
      <4>1. SUFFICES ASSUME NEW i \in 1..w
                     PROVE  seq[e] + i \in DOMAIN file' /\ vals[e][i] = file'[seq[e] + i].val
        OBVIOUS
      <4>2. w = m + 1 - seq[e]
        <5>1. ~(m + 1 < seq[e] + w) /\ m < seq[e] + w
          BY <2>12, <2>15
        <5>2. m \in Nat /\ w \in Nat /\ seq[e] \in Nat
          BY <2>5, <2>11, <2>12
        <5>3. QED
          BY <5>1, <5>2
      <4>3. seq[e] + i \in 1..(m + 1)
        BY <2>5, <2>11, <4>2
      <4>4. CASE i \in 1..(m - seq[e])
        <5>1. seq[e] + i \in 1..m
          BY <2>5, <2>11, <4>4
        <5>2. QED
          BY <2>8, <2>11, <2>12, <4>3, <4>4, <5>1
      <4>5. CASE i = m - seq[e] + 1
        <5>1. seq[e] + i = m + 1
          BY <2>5, <2>11, <4>5
        <5>2. QED
          BY <2>8, <2>9, <2>11, <4>3, <4>5, <5>1
      <4>6. QED
        BY <2>5, <2>11, <4>2, <4>4, <4>5
    <3>2. InJournal(given', file') /\ Final(given, given')
      BY <1>3, <2>5, <2>13, <2>15, <3>1, DeliverGiven DEF w
    <3>3. QED
      BY <2>10, <3>2
  <2>16. QED
    BY <2>2, <2>14, <2>15
<1>11. CASE EngineNext
  <2>1. PICK e \in Episodes :
          \/ Stops(e) \/ Completes(e) \/ Calls(e)
          \/ Reserves(e) \/ ReserveRefused(e) \/ ReserveUnsaved(e)
          \/ Answered(e) \/ ReplyDropped(e) \/ HostGone(e) \/ Asks(e) \/ Releases(e)
          \/ Records(e) \/ RecordFails(e)
    BY <1>11 DEF EngineNext
  <2>2. CASE \/ Stops(e) \/ Completes(e)
             \/ Reserves(e) \/ ReserveRefused(e) \/ ReserveUnsaved(e)
             \/ Answered(e) \/ ReplyDropped(e) \/ HostGone(e) \/ Asks(e) \/ Releases(e)
    <3>1. given' = given /\ file' = file /\ overtaken' = overtaken
      BY <2>2 DEF Stops, Completes, Reserves, ReserveRefused, ReserveUnsaved, Answered,
                  ReplyDropped, HostGone, Asks, Releases, aside
    <3>2. QED
      BY <1>6, <3>1
  <2>3. CASE RecordFails(e)
    <3>1. /\ pc[e] = "record" /\ file' \in PartialAppends(file, NextLine(e))
          /\ given' = given /\ overtaken' = overtaken
      BY <2>3 DEF RecordFails, aside
    <3>2. QED
      BY <1>8, <3>1
  <2>4. QED
    BY <1>9, <1>10, <2>1, <2>2, <2>3
<1>12. CASE ResumeLoads
  <2> DEFINE g == Repaired(file)
             f == Pruned(g)
  <2>1. /\ file' = f /\ Loads(file)
        /\ given' = IF Prunes(g) THEN [given EXCEPT ![Len(f)] = None] ELSE given
    BY <1>12 DEF ResumeLoads
  <2>2. overtaken' = overtaken
    BY <1>12 DEF ResumeLoads, aside
  <2>3. IsLines(g) /\ Dense(g) /\ IsLines(f) /\ Dense(f)
    BY <1>1, <2>1, LoadedIsDense, PrunedIsDense
  <2>4. Repaired(f) = f
    BY <2>3, DenseLoads
  <2>5. ~overtaken => InJournal(given, g)
    BY <1>3
  <2>6. Prunes(g) => g # << >> /\ f = SubSeq(g, 1, Len(g) - 1)
    BY DEF Prunes, Pruned
  <2>7. ~Prunes(g) => f = g
    BY DEF Pruned
  <2> HIDE DEF f, g
  <2>8. DOMAIN given' = Seqs
    BY <1>3, <2>1
  <2>9. CASE ~Prunes(g)
    BY <1>5, <2>1, <2>2, <2>4, <2>5, <2>7, <2>9
  <2>10. CASE Prunes(g)
    <3>1. SUFFICES ASSUME ~overtaken
                   PROVE  InJournal(given', f) /\ Final(given, given')
      BY <2>1, <2>2, <2>4, <2>8
    <3>2. /\ DOMAIN f = 1..(Len(g) - 1) /\ \A i \in DOMAIN f : f[i] = g[i]
      BY <2>3, <2>6, <2>10, CutLines
    <3>3. Len(g) \in Nat /\ DOMAIN g = 1..Len(g) /\ Len(f) \in Nat /\ DOMAIN f = 1..Len(f)
      BY <2>3, LinesFacts
    <3>4. Len(g) # 0
      <4>1. g = << >> => Prunes(g) = FALSE
        BY DEF Prunes
      <4>2. QED
        BY <2>3, <2>10, <4>1 DEF IsLines
    <3>5. Len(f) = Len(g) - 1
      <4>1. Len(g) - 1 \in Nat /\ 1..Len(f) = 1..(Len(g) - 1)
        <5>1. Len(g) - 1 \in Nat
          BY <3>3, <3>4
        <5>2. QED
          BY <3>2, <3>3, <5>1
      <4>2. QED
        BY <3>3, <4>1, SameInterval
    <3>6. \A n \in Seqs : given'[n] = IF n = Len(f) THEN None ELSE given[n]
      BY <1>3, <2>1, <2>10
    <3>7. Final(given, given')
      BY <3>6 DEF Final
    <3>8. InJournal(given', f)
      <4>1. SUFFICES ASSUME NEW n \in Seqs, given'[n] # None
                     PROVE  n + 1 \in DOMAIN f /\ given'[n] = f[n + 1].val
        BY DEF InJournal
      <4>2. n # Len(f) /\ given'[n] = given[n]
        BY <3>6, <4>1
      <4>3. n + 1 \in DOMAIN g /\ given[n] = g[n + 1].val
        BY <2>5, <3>1, <4>1, <4>2 DEF InJournal
      <4>4. n \in Int
        <5>1. Len(script) \in Nat
          BY <1>1, ScriptFacts DEF ThreadsPlaced
        <5>2. QED
          BY <5>1 DEF Seqs, PanelWidth
      <4>5. n + 1 \in DOMAIN f
        <5>1. n + 1 \in 1..Len(g) /\ n # Len(g) - 1 /\ Len(g) \in Nat
          BY <3>3, <3>5, <4>2, <4>3
        <5>2. n + 1 \in 1..(Len(g) - 1)
          BY <4>4, <5>1
        <5>3. QED
          BY <3>2, <5>2
      <4>6. QED
        BY <3>2, <4>2, <4>3, <4>5
    <3>9. QED
      BY <3>7, <3>8
  <2>11. QED
    BY <2>9, <2>10
<1>13. CASE Crash
  <2>1. given' = given /\ overtaken' = overtaken
    BY <1>13 DEF Crash, aside
  <2>2. PICK e \in Episodes :
          file' \in IF pc[e] = "record" THEN PartialAppends(file, NextLine(e)) ELSE {file}
    BY <1>13 DEF Crash
  <2>3. QED
    BY <1>6, <1>8, <2>1, <2>2
<1>14. CASE Launch \/ Pause \/ Cancel \/ CancelMarks \/ WatcherNext \/ UNCHANGED vars
  <2>1. given' = given /\ file' = file /\ overtaken' = overtaken
    BY <1>14 DEF Launch, Pause, Cancel, CancelMarks, WatcherNext, Reports, IsSuperseded, Persists,
                 PersistFails, aside, vars
  <2>2. QED
    BY <1>6, <2>1
<1>15. ASSUME NEW b, ResumeRuns(b)
       PROVE  /\ DOMAIN given' = Seqs
              /\ ~overtaken' => InJournal(given', Repaired(file')) /\ Final(given, given')
  <2>1. given' = given /\ file' = file /\ (~overtaken' => ~overtaken)
    BY <1>1, <1>15 DEF ResumeRuns, aside, ThreadsTyped
  <2>2. QED
    BY <1>3, <1>5, <2>1
<1>16. QED
  BY <1>11, <1>12, <1>13, <1>14, <1>15 DEF Next, ManagerNext

LEMMA ReplayInit ==
  ASSUME Init
  PROVE  ReplayInv
<1>1. JournalInv
  BY JournalInit
<1>2. file = << >> /\ IsLines(file) /\ IsLines(loaded.entries) /\ manager = "free"
  BY DEF Init, NotLoaded, IsLines
<1>3. \A e \in Episodes : PlacedAt(e) /\ NumberedAt(e)
  BY DEF Init, PlacedAt, NumberedAt, Running, MidCall
<1>4. ThreadsPlaced
  BY <1>3 DEF Init, ThreadsPlaced
<1>5. NumbersAgree
  BY <1>2, <1>3 DEF NumbersAgree
<1>6. GivenKept
  BY DEF Init, GivenKept
<1>7. QED
  BY <1>1, <1>4, <1>5, <1>6 DEF ReplayInv

LEMMA ReplayStep ==
  ASSUME ReplayInv, [Next]_vars
  PROVE  ReplayInv'
BY JournalStep, PlacedStep, NumbersStep, GivenStep DEF ReplayInv

\* A resumed script sees what it saw before, whatever append was cut short, whatever
\* reply was dropped and whenever the process died: it makes the calls its journal has,
\* as long as every reservation was saved, and a result it was given is the one it is
\* given again, as long as no episode was overtaken (engine.rs, replay and record;
\* journal.rs, load).
THEOREM ReplayCorrect == Spec => ReplayIsFaithful
<1> DEFINE FinalStep ==
             ~overtaken' => \A n \in Seqs : given[n] # None /\ given'[n] # None => given'[n] = given[n]
<1>1. ReplayInv => NeverDiverges
  BY DEF ReplayInv, NumbersAgree, NumberedAt, NeverDiverges
<1>2. ReplayInv /\ [Next]_vars => [FinalStep]_vars
  BY GivenStep DEF Final
<1>3. Spec => []NeverDiverges
  BY <1>1, ReplayInit, ReplayStep, PTL DEF Spec
<1>4. Spec => [][FinalStep]_vars
  <2>1. Init => ReplayInv
    BY ReplayInit
  <2>2. ReplayInv /\ [Next]_vars => ReplayInv'
    BY ReplayStep
  <2> HIDE DEF FinalStep
  <2>3. QED
    BY <1>2, <2>1, <2>2, PTL DEF Spec
<1>5. ResultsAreFinal <=> [][FinalStep]_vars
  BY DEF ResultsAreFinal
<1>6. QED
  BY <1>3, <1>4, <1>5, PTL DEF ReplayIsFaithful

-----------------------------------------------------------------------------
(***************************************************************************)
(* Counting agents                                                         *)
(***************************************************************************)

\* The lines whose number AgentEntries is.
AgentLines(f) == {i \in DOMAIN f : IsAgent(script[f[i].call])}

LEMMA AgentsFinite ==
  ASSUME NEW f, IsLines(f)
  PROVE  /\ IsFiniteSet(AgentLines(f)) /\ AgentEntries(f) = Cardinality(AgentLines(f))
         /\ AgentEntries(f) \in Nat
<1>1. AgentLines(f) \subseteq 1..Len(f) /\ Len(f) \in Nat
  BY LinesFacts DEF AgentLines
<1>2. IsFiniteSet(1..Len(f))
  BY <1>1, FS_Interval
<1>3. IsFiniteSet(AgentLines(f))
  BY <1>1, <1>2, FS_Subset
<1>4. AgentEntries(f) = Cardinality(AgentLines(f))
  BY DEF AgentEntries, AgentLines
<1>5. QED
  BY <1>3, <1>4, FS_CardinalityType

\* Fewer lines, fewer agents.
LEMMA AgentsCut ==
  ASSUME NEW f, IsLines(f), NEW g, IsLines(g), DOMAIN g \subseteq DOMAIN f,
         \A i \in DOMAIN g : g[i].call = f[i].call
  PROVE  AgentEntries(g) <= AgentEntries(f)
<1>1. AgentLines(g) \subseteq AgentLines(f)
  BY DEF AgentLines
<1>2. Cardinality(AgentLines(g)) <= Cardinality(AgentLines(f))
  BY <1>1, AgentsFinite, FS_Subset
<1>3. QED
  BY <1>2, AgentsFinite

\* One more line is one more agent at most, and none if it is of another kind of call.
LEMMA AgentsMore ==
  ASSUME NEW f, IsLines(f), NEW g, IsLines(g), NEW c, DOMAIN g \subseteq 1..(Len(f) + 1),
         \A i \in DOMAIN f : i \in DOMAIN g => g[i].call = f[i].call,
         \A i \in DOMAIN g : i \notin DOMAIN f => g[i].call = c
  PROVE  /\ AgentEntries(g) <= AgentEntries(f) + 1
         /\ ~IsAgent(script[c]) => AgentEntries(g) <= AgentEntries(f)
<1> DEFINE n == Len(f) + 1
           A == AgentLines(f)
           B == AgentLines(g)
<1>1. Len(f) \in Nat /\ DOMAIN f = 1..Len(f)
  BY LinesFacts
<1>2. \A i \in 1..n : i \in DOMAIN f \/ i = n
  BY <1>1
<1>3. B \subseteq A \cup {n}
  BY <1>2 DEF AgentLines
<1>4. ~IsAgent(script[c]) => B \subseteq A
  BY <1>2 DEF AgentLines
<1>5. /\ IsFiniteSet(A) /\ AgentEntries(f) = Cardinality(A) /\ Cardinality(A) \in Nat
      /\ IsFiniteSet(B) /\ AgentEntries(g) = Cardinality(B) /\ Cardinality(B) \in Nat
  BY AgentsFinite
<1> HIDE DEF A, B
<1>6. /\ IsFiniteSet(A \cup {n})
      /\ Cardinality(A \cup {n}) = Cardinality(A) \/ Cardinality(A \cup {n}) = Cardinality(A) + 1
  BY <1>5, FS_AddElement
<1>7. Cardinality(B) <= Cardinality(A \cup {n})
  BY <1>3, <1>6, FS_Subset
<1>8. ~IsAgent(script[c]) => Cardinality(B) <= Cardinality(A)
  BY <1>4, <1>5, FS_Subset
<1>9. QED
  BY <1>5, <1>6, <1>7, <1>8

\* The same before and after, when the script and the calls are.
LEMMA SameAgents ==
  ASSUME script' = script
  PROVE  \A f : AgentEntries(f)' = AgentEntries(f)
BY DEF AgentEntries

\* What an append that was cut short adds.
LEMMA PartialAgents ==
  ASSUME NEW f, IsLines(f), Dense(f), NEW c, NEW v,
         NEW g \in PartialAppends(f, Line(Len(f), c, v))
  PROVE  /\ AgentEntries(Repaired(g)) <= AgentEntries(f) + 1
         /\ ~IsAgent(script[c]) => AgentEntries(Repaired(g)) <= AgentEntries(f)
<1> DEFINE h == Repaired(g)
<1>1. /\ IsLines(h) /\ DOMAIN f \subseteq DOMAIN h /\ DOMAIN h \subseteq 1..(Len(f) + 1)
      /\ \A i \in DOMAIN f : h[i].call = f[i].call
      /\ \A i \in DOMAIN h : i \notin DOMAIN f => h[i].call = c
  BY PartialRepaired
<1> HIDE DEF h
<1>2. AgentEntries(h) <= AgentEntries(f) + 1 /\ (~IsAgent(script[c]) => AgentEntries(h) <= AgentEntries(f))
  BY <1>1, AgentsMore
<1>3. QED
  BY <1>2 DEF h

\* The agents that a thread has admitted: at least one while a call of agents is
\* under way.
LEMMA AdmittedFacts ==
  ASSUME ThreadsPlaced, NEW e \in Episodes
  PROVE  /\ Admitted(e) \in Nat
         /\ pc[e] \notin {"wait", "record"} => Admitted(e) = 0
         /\ ~IsAgent(script[at[e]]) => Admitted(e) = 0
         /\ pc[e] \in {"wait", "record"} /\ IsAgent(script[at[e]]) =>
              /\ Admitted(e) = Width(script[at[e]]) - (Len(entries[e]) - seq[e])
              /\ Admitted(e) >= 1
<1>1. CASE pc[e] \in {"wait", "record"} /\ IsAgent(script[at[e]])
  <2> DEFINE w == Width(script[at[e]])
             m == Len(entries[e])
  <2>1. Running(e) /\ MidCall(e)
    BY <1>1 DEF Running, MidCall
  <2>2. m \in Nat /\ seq[e] \in Nat /\ seq[e] <= m /\ m < seq[e] + w /\ w \in Nat
    BY <2>1, LinesFacts, WidthFacts DEF ThreadsPlaced, PlacedAt
  <2>3. Admitted(e) = w - (m - seq[e])
    BY <1>1 DEF Admitted
  <2> HIDE DEF w, m
  <2>4. Admitted(e) \in Nat /\ Admitted(e) >= 1
    BY <2>2, <2>3
  <2>5. QED
    BY <1>1, <2>3, <2>4 DEF w, m
<1>2. CASE ~(pc[e] \in {"wait", "record"} /\ IsAgent(script[at[e]]))
  BY <1>2 DEF Admitted
<1>3. QED
  BY <1>1, <1>2

\* No step of an engine writes down another budget.
LEMMA EngineBudgets ==
  ASSUME ThreadsTyped, EngineNext
  PROVE  agent_budget' = agent_budget /\ Budgets' \subseteq Budgets
<1>1. agent_budget' = agent_budget
  BY DEF EngineNext, Stops, Completes, Calls, Reserves, ReserveRefused, ReserveUnsaved, Answered,
         ReplyDropped, HostGone, Asks, Releases, Records, RecordFails, tracker
<1>2. disk' = disk \/ disk' = {Now}
  BY EngineSummary DEF EngineMoves
<1>3. QED
  BY <1>1, <1>2 DEF Budgets, Now, Manifest

\* Every step of an engine, as long as no episode was overtaken: what is admitted is
\* covered by the count, and what is written was admitted.
LEMMA EngineBudget ==
  ASSUME BudgetInv, ~overtaken, NEW e \in Episodes, NEW b \in Budgets',
         \/ Stops(e) \/ Completes(e) \/ Calls(e)
         \/ Reserves(e) \/ ReserveRefused(e) \/ ReserveUnsaved(e)
         \/ Answered(e) \/ ReplyDropped(e) \/ HostGone(e) \/ Asks(e) \/ Releases(e)
         \/ Records(e) \/ RecordFails(e)
  PROVE  /\ AgentEntries(Repaired(file')) <= b
         /\ Running(e)' => CoveredAt(e, b)'
<1> DEFINE a == AgentEntries(file)
           A == Admitted(e)
           w == Width(script[at[e]])
           m == Len(entries[e])
           agent == IsAgent(script[at[e]])
<1>1. JournalInv /\ ThreadsTyped /\ ThreadsPlaced /\ DOMAIN entries = Episodes /\ IsLines(file)
  BY DEF BudgetInv, ReplayInv, JournalInv, ThreadsInv, MemoryIsFile, NumbersAgree
<1>2. /\ pc \in [Episodes -> Places] /\ at \in [Episodes -> Nat \ {0}] /\ seq \in [Episodes -> Nat]
  BY <1>1 DEF ThreadsTyped, ThreadsPlaced, Places
<1>3. Running(e)
  BY DEF Stops, Completes, Calls, Reserves, ReserveRefused, ReserveUnsaved, Answered, ReplyDropped,
         HostGone, Asks, Releases, Records, RecordFails, Running
<1>4. entries[e] = file /\ Dense(file)
  BY <1>1, <1>3 DEF JournalInv, MemoryIsFile
<1>5. Repaired(file) = file
  BY <1>1, <1>4, DenseLoads
<1>6. a \in Nat /\ agents_used \in Nat /\ b \in Nat /\ b \in Budgets
  <2>1. b \in Budgets
    BY <1>1, EngineBudgets DEF EngineNext
  <2>2. QED
    BY <1>1, <2>1, AgentsFinite DEF BudgetInv, UsedCovers
<1>7. /\ a <= b /\ a + A <= b
      /\ pc[e] = "reserve" => a <= agents_used
      /\ ~cancel[e] => a + A <= agents_used
  BY <1>3, <1>5, <1>6 DEF BudgetInv, UsedCovers, CoveredAt
<1>8. /\ A \in Nat /\ (pc[e] \notin {"wait", "record"} => A = 0) /\ (~agent => A = 0)
      /\ pc[e] \in {"wait", "record"} /\ agent => A = w - (m - seq[e]) /\ A >= 1
  BY <1>1, AdmittedFacts
<1>9. w \in Nat /\ m \in Nat /\ seq[e] \in Nat /\ seq[e] <= m /\ (MidCall(e) => m < seq[e] + w)
  BY <1>1, <1>2, <1>3, LinesFacts, WidthFacts DEF ThreadsPlaced, PlacedAt
<1>10. script' = script /\ cancel' = cancel
  BY DEF Stops, Completes, Calls, Reserves, ReserveRefused, ReserveUnsaved, Answered, ReplyDropped,
         HostGone, Asks, Releases, Records, RecordFails, tracker, ends, aside
<1>11. \A f : AgentEntries(f)' = AgentEntries(f)
  BY <1>10, SameAgents
<1> HIDE DEF a, A, w, m, agent
\* The thread ends and the journal stays.
<1>12. ASSUME file' = file, pc' = [pc EXCEPT ![e] = "ended"]
       PROVE  /\ AgentEntries(Repaired(file')) <= b
              /\ Running(e)' => CoveredAt(e, b)'
  BY <1>2, <1>5, <1>7, <1>12 DEF Running, a
\* The journal stays, and the thread has admitted at most what it had.
<1>13. ASSUME file' = file, agents_used' = agents_used, Admitted(e)' \in {0, A},
              pc'[e] = "reserve" => a <= agents_used
       PROVE  /\ AgentEntries(Repaired(file')) <= b
              /\ Running(e)' => CoveredAt(e, b)'
  <2>1. AgentEntries(file)' = a
    BY <1>11, <1>13 DEF a
  <2>2. AgentEntries(Repaired(file')) = a
    BY <1>5, <1>13 DEF a
  <2>3. ~cancel[e] => a <= agents_used
    BY <1>6, <1>7, <1>8
  <2>4. CoveredAt(e, b)'
    BY <1>6, <1>7, <1>8, <1>10, <1>13, <2>1, <2>3 DEF CoveredAt
  <2>5. QED
    BY <1>7, <2>2, <2>4
<1>14. CASE Stops(e) \/ Completes(e) \/ ReserveRefused(e) \/ HostGone(e) \/ Releases(e)
  BY <1>12, <1>14 DEF Stops, Completes, ReserveRefused, HostGone, Releases, End
<1>15. CASE ReserveUnsaved(e)
  <2>1. /\ file' = file /\ agents_used' = agents_used /\ pc[e] = "reserve"
        /\ \E p \in {"step", "ended"} : pc' = [pc EXCEPT ![e] = p]
    BY <1>15 DEF ReserveUnsaved, Continue, End, tracker
  <2>2. pc'[e] \in {"step", "ended"}
    BY <1>2, <2>1
  <2>3. Admitted(e)' = 0
    BY <2>2 DEF Admitted
  <2>4. QED
    BY <1>13, <2>1, <2>2, <2>3
<1>16. CASE Calls(e)
  <2>1. file' = file /\ agents_used' = agents_used /\ pc[e] = "step" /\ ~cancel[e]
    BY <1>16 DEF Calls, tracker
  <2>2. pc'[e] \in {"step", "ended", "reserve"} \/ (pc'[e] = "wait" /\ ~agent /\ at' = at)
    <3>1. CASE Diverges(e)
      BY <1>2, <1>16, <3>1 DEF Calls, End
    <3>2. CASE ~Diverges(e) /\ Live(e) = 0
      <4>1. Deliver(e, Replayed(e), TRUE)
        BY <1>16, <3>2 DEF Calls
      <4>2. \E p \in {"step", "ended"} : pc' = [pc EXCEPT ![e] = p]
        BY <4>1, DeliverMoves
      <4>3. QED
        BY <1>2, <4>2
    <3>3. CASE ~Diverges(e) /\ Live(e) # 0
      BY <1>2, <1>16, <3>3 DEF Calls, agent
    <3>4. QED
      BY <3>1, <3>2, <3>3
  <2>3. Admitted(e)' = 0
    BY <1>10, <2>2 DEF Admitted, agent
  <2>4. a <= agents_used
    BY <1>6, <1>7, <1>8, <2>1
  <2>5. QED
    BY <1>13, <2>1, <2>3, <2>4
<1>17. CASE Reserves(e)
  <2>1. /\ file' = file /\ pc[e] = "reserve" /\ UNCHANGED << at, seq, entries >>
        /\ agents_used + Live(e) <= b /\ agents_used' = agents_used + Live(e)
        /\ pc' = [pc EXCEPT ![e] = "wait"]
    <3>1. b = agent_budget
      BY <1>17 DEF Reserves, PersistNow, Now, Manifest, Budgets
    <3>2. QED
      BY <1>17, <3>1 DEF Reserves, thread
  <2>2. pc'[e] = "wait"
    BY <1>2, <2>1
  <2>3. Live(e) \in Nat /\ Live(e) = w - (m - seq[e])
    <3>1. m < seq[e] + w
      BY <1>9, <2>1 DEF MidCall
    <3>2. Live(e) # 0
      BY <1>1, <1>3, <1>9, <3>1, ReplayedFacts DEF w, m
    <3>3. QED
      BY <1>1, <1>3, <3>2, ReplayedFacts DEF w, m
  <2>4. Admitted(e)' \in {0, Live(e)}
    BY <1>10, <2>1, <2>2, <2>3 DEF Admitted, w, m
  <2>5. AgentEntries(file)' = a /\ AgentEntries(Repaired(file')) = a
    BY <1>5, <1>11, <2>1 DEF a
  <2>6. CoveredAt(e, b)'
    BY <1>6, <1>7, <1>10, <2>1, <2>2, <2>3, <2>4, <2>5 DEF CoveredAt
  <2>7. QED
    BY <1>7, <2>5, <2>6
<1>18. CASE Answered(e) \/ ReplyDropped(e) \/ Asks(e)
  <2>1. /\ file' = file /\ agents_used' = agents_used /\ pc[e] = "wait"
        /\ UNCHANGED << at, seq, entries >>
        /\ \E p \in {"release", "record", "ended"} : pc' = [pc EXCEPT ![e] = p]
    <3>1. CASE Answered(e)
      BY <3>1 DEF Answered, End, tracker
    <3>2. CASE ReplyDropped(e)
      BY <3>2 DEF ReplyDropped, End, tracker
    <3>3. CASE Asks(e)
      BY <3>3 DEF Asks, tracker
    <3>4. QED
      BY <1>18, <3>1, <3>2, <3>3
  <2>2. pc'[e] \in {"release", "record", "ended"}
    BY <1>2, <2>1
  <2>3. Admitted(e)' \in {0, A}
    BY <1>10, <2>1, <2>2 DEF Admitted, A
  <2>4. QED
    BY <1>13, <2>1, <2>2, <2>3
<1>19. CASE Records(e)
  <2> DEFINE x == NextLine(e)
             v == vals[e][m - seq[e] + 1]
  <2>1. /\ file' = AppendLine(file, x) /\ pc[e] = "record" /\ agents_used' = agents_used
        /\ entries' = [entries EXCEPT ![e] = Append(entries[e], x)]
    BY <1>19 DEF Records, tracker
  <2>2. /\ x = Line(Len(file), at[e], v)
        /\ x = [seq |-> Len(file), call |-> at[e], val |-> v, form |-> "line"]
    BY <1>4, NextLineIs DEF m
  <2> HIDE DEF x, v
  <2>3. file' = Append(file, x) /\ IsLines(file') /\ Dense(file')
    <3>1. /\ AppendLine(file, x) = Append(file, x)
          /\ IsLines(Append(file, x)) /\ Dense(Append(file, x))
      BY <1>1, <1>4, <2>2, AppendIsDense
    <3>2. QED
      BY <2>1, <3>1
  <2>4. file' \in PartialAppends(file, Line(Len(file), at[e], v))
    <3>1. [Line(Len(file), at[e], v) EXCEPT !.form = "line"] = Line(Len(file), at[e], v)
      BY DEF Line
    <3>2. QED
      BY <2>1, <2>2, <3>1 DEF PartialAppends
  <2>5. Repaired(file') = file'
    BY <2>3, DenseLoads
  <2>6. /\ AgentEntries(file') <= a + 1
        /\ ~agent => AgentEntries(file') <= a
    BY <1>1, <1>4, <2>4, <2>5, PartialAgents DEF a, agent
  <2>7. AgentEntries(file') \in Nat /\ AgentEntries(file)' = AgentEntries(file')
    BY <1>11, <2>3, AgentsFinite
  <2>8. AgentEntries(file') <= a + A
    BY <1>6, <1>8, <2>1, <2>6, <2>7
  <2>9. entries'[e] = file' /\ Len(file') = m + 1
    <3>1. Len(Append(file, x)) = Len(file) + 1
      BY <1>1, <2>2, AppendedLines
    <3>2. QED
      BY <1>1, <1>4, <2>1, <2>3, <3>1 DEF m
  <2>10. CASE m + 1 < seq[e] + w
    <3>1. UNCHANGED << pc, at, seq >>
      BY <1>19, <2>10 DEF Records, w, m
    <3>2. Admitted(e)' = IF agent THEN A - 1 ELSE 0
      <4>1. CASE agent
        <5>1. Admitted(e)' = w - ((m + 1) - seq[e])
          BY <1>10, <2>1, <2>9, <3>1, <4>1 DEF Admitted, agent, w
        <5>2. A = w - (m - seq[e])
          BY <1>8, <2>1, <4>1
        <5>3. QED
          BY <1>9, <4>1, <5>1, <5>2
      <4>2. CASE ~agent
        BY <1>10, <3>1, <4>2 DEF Admitted, agent
      <4>3. QED
        BY <4>1, <4>2
    <3>3. Admitted(e)' \in Nat /\ AgentEntries(file') + Admitted(e)' <= a + A
      BY <1>6, <1>8, <2>1, <2>6, <2>7, <3>2
    <3>4. pc'[e] = "record"
      BY <2>1, <3>1
    <3>5. CoveredAt(e, b)'
      BY <1>6, <1>7, <1>8, <1>10, <2>1, <2>7, <3>3, <3>4 DEF CoveredAt
    <3>6. AgentEntries(Repaired(file')) <= b
      BY <1>6, <1>7, <1>8, <2>5, <2>7, <2>8
    <3>7. QED
      BY <3>5, <3>6
  <2>11. CASE ~(m + 1 < seq[e] + w)
    <3>1. Deliver(e, vals[e], FALSE)
      BY <1>19, <2>11 DEF Records, w, m
    <3>2. \E p \in {"step", "ended"} : pc' = [pc EXCEPT ![e] = p]
      BY <3>1, DeliverMoves
    <3>3. pc'[e] \in {"step", "ended"}
      BY <1>2, <3>2
    <3>4. Admitted(e)' = 0
      BY <3>3 DEF Admitted
    <3>5. CoveredAt(e, b)'
      BY <1>6, <1>7, <1>8, <1>10, <2>1, <2>7, <2>8, <3>3, <3>4 DEF CoveredAt
    <3>6. AgentEntries(Repaired(file')) <= b
      BY <1>6, <1>7, <1>8, <2>5, <2>7, <2>8
    <3>7. QED
      BY <3>5, <3>6
  <2>12. QED
    BY <2>10, <2>11
<1>20. CASE RecordFails(e)
  <2> DEFINE v == vals[e][m - seq[e] + 1]
  <2>1. /\ file' \in PartialAppends(file, NextLine(e)) /\ pc[e] = "record"
        /\ pc' = [pc EXCEPT ![e] = "ended"]
    BY <1>20 DEF RecordFails, End
  <2>2. NextLine(e) = Line(Len(file), at[e], v)
    BY <1>4, NextLineIs DEF m
  <2> HIDE DEF v
  <2>3. /\ AgentEntries(Repaired(file')) <= a + 1
        /\ ~agent => AgentEntries(Repaired(file')) <= a
    BY <1>1, <1>4, <2>1, <2>2, PartialAgents DEF a, agent
  <2>4. AgentEntries(Repaired(file')) \in Nat
    <3>1. IsLines(file')
      BY <1>1, <2>1, <2>2, PartialLines
    <3>2. QED
      BY <3>1, RepairedLines, AgentsFinite
  <2>5. AgentEntries(Repaired(file')) <= b
    BY <1>6, <1>7, <1>8, <2>1, <2>3, <2>4
  <2>6. ~Running(e)'
    BY <1>2, <2>1 DEF Running
  <2>7. QED
    BY <2>5, <2>6
<1>21. QED
  BY <1>14, <1>15, <1>16, <1>17, <1>18, <1>19, <1>20

\* A step that leaves the journal alone and writes down no other budget, lets no thread
\* admit more and takes back no token.
LEMMA QuietBudget ==
  ASSUME UsedCovers, Budgets' \subseteq Budgets,
         UNCHANGED << script, file, agents_used, overtaken >>,
         \A e \in Episodes : Running(e)' =>
           /\ pc'[e] = pc[e] /\ at'[e] = at[e] /\ seq'[e] = seq[e] /\ entries'[e] = entries[e]
           /\ ~cancel'[e] => ~cancel[e],
         epoch' <= MaxEpisodes
  PROVE  UsedCovers'
<1>1. \A f : AgentEntries(f)' = AgentEntries(f)
  BY SameAgents
<1>2. Repaired(file)' = Repaired(file)
  BY DEF Repaired
<1>3. ASSUME NEW e \in Episodes, Running(e)', ~overtaken, NEW b \in Budgets
      PROVE  CoveredAt(e, b)'
  <2>1. Running(e) /\ CoveredAt(e, b)
    BY <1>3 DEF Running, UsedCovers
  <2>2. Admitted(e)' = Admitted(e)
    BY <1>3 DEF Admitted
  <2>3. AgentEntries(file)' = AgentEntries(file)
    BY <1>1
  <2>4. QED
    BY <1>3, <2>1, <2>2, <2>3 DEF CoveredAt
<1>4. AgentEntries(Repaired(file))' = AgentEntries(Repaired(file))
  BY <1>1, <1>2
<1>5. QED
  BY <1>3, <1>4 DEF UsedCovers

\* What is loaded counts no more agents than the file did.
LEMMA ResumeLoadsBudget ==
  ASSUME BudgetInv, ResumeLoads
  PROVE  UsedCovers'
<1> DEFINE g == Repaired(file)
           f == Pruned(g)
<1>1. JournalInv /\ ThreadsTyped /\ InOrder /\ IsLines(file) /\ UsedCovers
  BY DEF BudgetInv, ReplayInv, JournalInv, ThreadsInv, NumbersAgree
<1>2. /\ file' = f /\ Loads(file)
      /\ UNCHANGED << script, agents_used, agent_budget, disk, epoch, overtaken, pc, at, seq, entries,
                      cancel >>
  BY DEF ResumeLoads, tracker, thread, ends, aside
<1>3. IsLines(g) /\ Dense(g) /\ IsLines(f) /\ Dense(f)
  BY <1>1, <1>2, LoadedIsDense, PrunedIsDense
<1>4. AgentEntries(f) \in Nat /\ AgentEntries(f) <= AgentEntries(g) /\ AgentEntries(g) \in Nat
  <2>1. CASE Prunes(g)
    <3>1. f = SubSeq(g, 1, Len(g) - 1) /\ g # << >>
      BY <2>1 DEF Pruned, Prunes
    <3>2. DOMAIN f = 1..(Len(g) - 1) /\ \A i \in DOMAIN f : f[i] = g[i]
      BY <1>3, <3>1, CutLines
    <3>3. Len(g) \in Nat /\ DOMAIN g = 1..Len(g)
      BY <1>3, LinesFacts
    <3> HIDE DEF f, g
    <3>4. DOMAIN f \subseteq DOMAIN g
      BY <3>2, <3>3
    <3>5. QED
      BY <1>3, <3>2, <3>4, AgentsCut, AgentsFinite
  <2>2. CASE ~Prunes(g)
    <3>1. f = g
      BY <2>2 DEF Pruned
    <3>2. AgentEntries(g) \in Nat
      BY <1>3, AgentsFinite
    <3>3. QED
      BY <3>1, <3>2
  <2>3. QED
    BY <2>1, <2>2
<1>5. Repaired(f) = f
  BY <1>3, DenseLoads
<1>6. ~overtaken => \A e \in Episodes : Running(e) => f = file
  <2>1. SUFFICES ASSUME ~overtaken, NEW e \in Episodes, Running(e)
                 PROVE  f = file
    OBVIOUS
  <2>2. Dense(file)
    BY <1>1, <2>1 DEF JournalInv, MemoryIsFile
  <2>3. g = file
    BY <1>1, <2>2, DenseLoads
  <2>4. ~Prunes(file)
    BY <1>1, <2>1 DEF InOrder, Prunes
  <2>5. QED
    BY <2>3, <2>4 DEF Pruned
<1> HIDE DEF f
<1>7. Budgets' = Budgets /\ Budgets \subseteq Nat
  BY <1>1, <1>2 DEF Budgets, UsedCovers
<1>8. SUFFICES ASSUME ~overtaken, NEW b \in Budgets
               PROVE  /\ AgentEntries(Repaired(file))' <= b
                      /\ \A e \in Episodes : Running(e)' => CoveredAt(e, b)'
  BY <1>1, <1>2, <1>7 DEF UsedCovers
<1>9. AgentEntries(Repaired(file))' <= b
  <2>1. Repaired(file)' = f
    BY <1>2, <1>5 DEF Repaired
  <2>2. AgentEntries(Repaired(file))' = AgentEntries(f)
    BY <1>2, <2>1, SameAgents
  <2>3. AgentEntries(g) <= b /\ b \in Nat
    BY <1>1, <1>7, <1>8 DEF UsedCovers
  <2> HIDE DEF g
  <2>4. QED
    BY <1>4, <2>2, <2>3
<1>10. ASSUME NEW e \in Episodes, Running(e)'
       PROVE  CoveredAt(e, b)'
  <2>1. Running(e)
    BY <1>2, <1>10 DEF Running
  <2>2. file' = file /\ CoveredAt(e, b)
    BY <1>1, <1>2, <1>6, <1>8, <2>1 DEF UsedCovers
  <2>3. Admitted(e)' = Admitted(e) /\ AgentEntries(file)' = AgentEntries(file)
    BY <1>2, <2>2, SameAgents DEF Admitted
  <2>4. QED
    BY <1>2, <2>2, <2>3 DEF CoveredAt
<1>11. QED
  BY <1>9, <1>10

\* A resume counts the agents of the journal it has loaded.  A thread that is still
\* there when it starts no other one was told to stop, and when it is about to reserve the
\* journal is the file.
LEMMA ResumeRunsBudget ==
  ASSUME BudgetInv, NEW b \in agent_budget..MaxBudget, ResumeRuns(b)
  PROVE  UsedCovers'
<1> DEFINE f == loaded.entries
<1>1. JournalInv /\ ThreadsInv /\ IsLines(file) /\ IsLines(f) /\ UsedCovers /\ ThreadsPlaced
      /\ DOMAIN entries = Episodes
  BY DEF BudgetInv, ReplayInv, JournalInv, MemoryIsFile, NumbersAgree
<1>2. pc \in [Episodes -> Places] /\ epoch \in Nat
  BY <1>1 DEF ThreadsInv, ThreadsTyped, Places
<1>3. /\ manager = "resume" /\ file' = file /\ script' = script
      /\ agents_used' = AgentEntries(f)
  BY DEF ResumeRuns, aside
<1>4. /\ status # "active" /\ epoch + 1 \in Episodes
      /\ ~loaded.raced => \A e \in Episodes : pc[e] \in {"unborn", "gone"}
  BY <1>1, <1>3 DEF ThreadsInv, ResumeHolds
<1>5. /\ ~overtaken => IsLines(f) /\ Dense(f)
      /\ ~overtaken /\ (~loaded.raced \/ \E e \in Episodes : pc[e] = "reserve") => f = file
  BY <1>1, <1>3 DEF JournalInv, LoadedIsFile
<1>6. AgentEntries(f) \in Nat /\ AgentEntries(file) \in Nat
  BY <1>1, AgentsFinite
<1>7. agent_budget \in Budgets /\ Budgets \subseteq Nat /\ agent_budget \in Nat
  BY <1>1 DEF UsedCovers, Budgets
<1>8. b \in Nat /\ agent_budget <= b
  BY <1>7, WorkflowRunAssumption
<1>9. epoch <= MaxEpisodes /\ epoch + 1 <= MaxEpisodes
  BY <1>1, <1>2, <1>4, WorkflowRunAssumption DEF UsedCovers, Episodes
<1>10. /\ AgentEntries(file)' = AgentEntries(file)
       /\ AgentEntries(Repaired(file))' = AgentEntries(Repaired(file))
  <2>1. Repaired(file)' = Repaired(file)
    BY <1>3 DEF Repaired
  <2>2. QED
    BY <1>3, <2>1, SameAgents
<1>11. CASE /\ agent_budget' = b /\ StartEpisode(epoch + 1, f) /\ disk' = {Now'}
            /\ overtaken' = (overtaken \/ loaded.raced)
  <2>1. /\ pc' = [pc EXCEPT ![epoch + 1] = "step"] /\ epoch' = epoch + 1
        /\ Budgets' = {b}
    BY <1>11 DEF StartEpisode, Budgets, Now, Manifest
  <2>2. SUFFICES ASSUME ~overtaken'
                 PROVE  /\ AgentEntries(Repaired(file))' <= b
                        /\ \A e \in Episodes : Running(e)' => CoveredAt(e, b)'
    BY <1>3, <1>6, <1>8, <1>9, <2>1 DEF UsedCovers
  <2>3. ~overtaken /\ ~loaded.raced
    BY <1>11, <2>2
  <2>4. f = file /\ Repaired(file) = file
    BY <1>5, <2>3, DenseLoads
  <2>5. AgentEntries(file) <= b
    <3>1. AgentEntries(file) <= agent_budget
      BY <1>1, <1>7, <2>3, <2>4 DEF UsedCovers
    <3>2. QED
      BY <1>6, <1>7, <1>8, <3>1
  <2>6. ASSUME NEW e \in Episodes, Running(e)'
        PROVE  CoveredAt(e, b)'
    <3>1. e = epoch + 1
      BY <1>2, <1>4, <2>1, <2>3, <2>6 DEF Running
    <3>2. pc'[e] = "step"
      BY <1>2, <2>1, <3>1
    <3>3. Admitted(e)' = 0
      BY <3>2 DEF Admitted
    <3>4. QED
      BY <1>3, <1>6, <1>8, <1>10, <2>4, <2>5, <3>2, <3>3 DEF CoveredAt
  <2>7. QED
    BY <1>10, <2>4, <2>5, <2>6
<1>12. CASE /\ agent_budget' \in {agent_budget, b} /\ epoch' \in {epoch, epoch + 1}
            /\ pc' = pc \/ pc' = [pc EXCEPT ![epoch + 1] = "gone"]
            /\ disk' = disk \/ disk' = disk \cup {Now'}
            /\ UNCHANGED << at, seq, entries, cancel, overtaken >>
  <2>1. Budgets' \subseteq Budgets \cup {b}
    BY <1>12 DEF Budgets, Now, Manifest
  <2>2. SUFFICES ASSUME ~overtaken, NEW c \in Budgets'
                 PROVE  /\ AgentEntries(Repaired(file))' <= c
                        /\ \A e \in Episodes : Running(e)' => CoveredAt(e, c)'
    BY <1>3, <1>6, <1>7, <1>8, <1>9, <1>12, <2>1 DEF UsedCovers
  <2>3. PICK d \in Budgets : d <= c /\ d \in Nat /\ c \in Nat
    <3>1. c \in Budgets \/ c = b
      BY <2>1
    <3>2. CASE c \in Budgets
      BY <1>7, <3>2
    <3>3. CASE c = b
      BY <1>7, <1>8, <3>3
    <3>4. QED
      BY <3>1, <3>2, <3>3
  <2>4. AgentEntries(Repaired(file)) <= d /\ AgentEntries(Repaired(file)) \in Nat
    BY <1>1, <2>2, <2>3, RepairedLines, AgentsFinite DEF UsedCovers
  <2>5. ASSUME NEW e \in Episodes, Running(e)'
        PROVE  CoveredAt(e, c)'
    <3>1. Running(e) /\ pc'[e] = pc[e]
      BY <1>2, <1>12, <2>5 DEF Running
    <3>2. CoveredAt(e, d)
      BY <1>1, <2>2, <2>3, <3>1 DEF UsedCovers
    <3>3. cancel[e] /\ cancel'[e]
      BY <1>1, <1>4, <1>12, <2>2, <3>1 DEF ThreadsInv, HeldByManager
    <3>4. Admitted(e)' = Admitted(e)
      BY <1>3, <1>12, <3>1 DEF Admitted
    <3>5. Admitted(e) \in Nat
      BY <1>1, AdmittedFacts
    <3>6. pc[e] = "reserve" => AgentEntries(f) = AgentEntries(file)
      BY <1>5, <2>2
    <3>7. QED
      BY <1>3, <1>6, <1>10, <2>3, <3>1, <3>2, <3>3, <3>4, <3>5, <3>6 DEF CoveredAt
  <2>6. QED
    BY <1>10, <2>3, <2>4, <2>5
<1>13. QED
  BY <1>11, <1>12 DEF ResumeRuns, PersistNow, Emit, thread, ends, aside

\* Every step keeps the count.
LEMMA BudgetStep ==
  ASSUME BudgetInv, [Next]_vars
  PROVE  BudgetInv'
<1>1. ReplayInv'
  BY ReplayStep DEF BudgetInv
<1>2. JournalInv /\ ThreadsTyped /\ InOrder /\ ThreadsPlaced /\ IsLines(file) /\ UsedCovers
      /\ DOMAIN entries = Episodes /\ NothingYet /\ agent_budget \in Budgets
  BY DEF BudgetInv, ReplayInv, JournalInv, ThreadsInv, MemoryIsFile, NumbersAgree, Budgets
<1>3. /\ pc \in [Episodes -> Places] /\ cancel \in [Episodes -> BOOLEAN]
  BY <1>2 DEF ThreadsTyped, Places
<1>4. CASE EngineNext
  <2>1. PICK e \in Episodes :
          \/ Stops(e) \/ Completes(e) \/ Calls(e)
          \/ Reserves(e) \/ ReserveRefused(e) \/ ReserveUnsaved(e)
          \/ Answered(e) \/ ReplyDropped(e) \/ HostGone(e) \/ Asks(e) \/ Releases(e)
          \/ Records(e) \/ RecordFails(e)
    BY <1>4 DEF EngineNext
  <2>2. Running(e)
    BY <2>1 DEF Stops, Completes, Calls, Reserves, ReserveRefused, ReserveUnsaved, Answered,
                ReplyDropped, HostGone, Asks, Releases, Records, RecordFails, Running
  <2>3. script' = script /\ epoch' = epoch /\ overtaken' = overtaken
    BY <2>1 DEF Stops, Completes, Calls, Reserves, ReserveRefused, ReserveUnsaved, Answered,
                ReplyDropped, HostGone, Asks, Releases, Records, RecordFails, tracker, aside
  <2>4. agents_used' \in Nat
    <3>1. agents_used \in Nat
      BY <1>2 DEF UsedCovers
    <3>2. CASE Reserves(e)
      BY <1>2, <2>2, <3>1, <3>2, ReplayedFacts DEF Reserves
    <3>3. CASE Releases(e)
      <4> DEFINE live == Width(script[at[e]]) - (Len(entries[e]) - seq[e])
      <4>1. live \in Nat
        <5>1. MidCall(e)
          BY <3>3 DEF Releases, MidCall
        <5>2. QED
          BY <1>2, <2>2, <5>1, LinesFacts, WidthFacts DEF ThreadsPlaced, PlacedAt
      <4>2. \/ agents_used' = IF agents_used < live THEN 0 ELSE agents_used - live
            \/ agents_used' = agents_used
        BY <3>3 DEF Releases
      <4> HIDE DEF live
      <4>3. QED
        BY <3>1, <4>1, <4>2
    <3>4. CASE ~Reserves(e) /\ ~Releases(e)
      <4>1. agents_used' = agents_used
        BY <2>1, <3>4 DEF Stops, Completes, Calls, ReserveRefused, ReserveUnsaved, Answered,
             ReplyDropped, HostGone, Asks, Records, RecordFails, tracker
      <4>2. QED
        BY <3>1, <4>1
    <3>5. QED
      BY <3>2, <3>3, <3>4
  <2>5. UsedCovers'
    <3>0. Budgets' \subseteq Nat
      BY <1>2, <1>4, EngineBudgets DEF UsedCovers
    <3>1. SUFFICES ASSUME ~overtaken, NEW b \in Budgets'
                   PROVE  /\ AgentEntries(Repaired(file))' <= b
                          /\ \A d \in Episodes : Running(d)' => CoveredAt(d, b)'
      BY <1>2, <2>3, <2>4, <3>0 DEF UsedCovers
    <3>2. /\ AgentEntries(Repaired(file')) <= b
          /\ Running(e)' => CoveredAt(e, b)'
      BY <2>1, <3>1, EngineBudget
    <3>3. AgentEntries(Repaired(file))' = AgentEntries(Repaired(file'))
      <4>1. Repaired(file)' = Repaired(file')
        BY DEF Repaired
      <4>2. QED
        BY <2>3, <4>1, SameAgents
    <3>4. \A d \in Episodes : Running(d)' => d = e
      <4>1. ThreadMoves(e)
        BY <1>2, <2>1, EngineMoved
      <4>2. QED
        BY <1>2, <2>2, <3>1, <4>1 DEF ThreadMoves, Running, InOrder
    <3>5. QED
      BY <3>2, <3>3, <3>4
  <2>6. QED
    BY <1>1, <2>5 DEF BudgetInv
<1>5. CASE Launch
  <2>1. /\ pc' = [pc EXCEPT ![1] = "step"] /\ epoch' = 1 /\ status = "none"
        /\ UNCHANGED << script, file, agents_used, overtaken >> /\ Budgets' = {agent_budget}
    BY <1>5 DEF Launch, StartEpisode, PersistNow, Now, Manifest, Budgets, aside
  <2>2. file = << >> /\ \A e \in Episodes : pc[e] = "unborn"
    BY <1>2, <2>1 DEF NothingYet, InOrder
  <2>3. AgentEntries(file) = 0
    <3>1. AgentLines(file) = {}
      BY <2>2 DEF AgentLines
    <3>2. QED
      BY <1>2, <3>1, AgentsFinite, FS_EmptySet
  <2>4. AgentEntries(file)' = 0 /\ AgentEntries(Repaired(file))' = 0
    <3>1. Repaired(file)' = file
      BY <2>1, <2>2 DEF Repaired
    <3>2. QED
      BY <2>1, <2>3, <3>1, SameAgents
  <2>5. \A e \in Episodes : Running(e)' => pc'[e] = "step"
    BY <1>3, <2>1, <2>2 DEF Running
  <2>6. \A e \in Episodes : Running(e)' => Admitted(e)' = 0
    BY <2>5 DEF Admitted
  <2>7. agents_used \in Nat /\ agent_budget \in Nat
    BY <1>2 DEF UsedCovers
  <2>8. \A b \in Budgets' : \A e \in Episodes : Running(e)' => CoveredAt(e, b)'
    BY <2>1, <2>4, <2>5, <2>6, <2>7 DEF CoveredAt
  <2>9. UsedCovers'
    BY <2>1, <2>4, <2>7, <2>8, WorkflowRunAssumption DEF UsedCovers
  <2>10. QED
    BY <1>1, <2>9 DEF BudgetInv
<1>6. CASE ResumeLoads \/ \E b \in agent_budget..MaxBudget : ResumeRuns(b)
  BY <1>1, <1>6, ResumeLoadsBudget, ResumeRunsBudget DEF BudgetInv
<1>7. CASE Pause \/ Cancel \/ CancelMarks
  <2>1. /\ UNCHANGED << script, file, agents_used, agent_budget, at, seq, entries, overtaken, pc, epoch >>
        /\ CancelToken \/ cancel' = cancel
    BY <1>7 DEF Pause, Cancel, CancelMarks, thread, ends, aside, tracker
  <2>2. \A e \in Episodes : ~cancel'[e] => ~cancel[e]
    BY <1>3, <2>1 DEF CancelToken
  <2>3. Budgets' \subseteq Budgets
    <3>1. disk' = disk \/ disk' = disk \cup {Now'}
      BY <1>7 DEF Pause, Cancel, CancelMarks, Emit, tracker
    <3>2. QED
      BY <2>1, <3>1 DEF Budgets, Now, Manifest
  <2>4. epoch' <= MaxEpisodes
    BY <1>2, <2>1 DEF UsedCovers
  <2>5. UsedCovers'
    BY <1>2, <2>1, <2>2, <2>3, <2>4, QuietBudget
  <2>6. QED
    BY <1>1, <2>5 DEF BudgetInv
<1>8. CASE WatcherNext
  <2>1. PICK e \in Episodes : Reports(e) \/ IsSuperseded(e) \/ Persists(e) \/ PersistFails(e)
    BY <1>8 DEF WatcherNext
  <2>2. /\ UNCHANGED << script, file, agents_used, agent_budget, overtaken, epoch >>
        /\ disk' \subseteq disk \cup {Now, Now'}
        /\ \/ UNCHANGED << at, seq, entries, cancel >> /\ pc' = [pc EXCEPT ![e] = "persist"]
           \/ Gone(e)
    BY <2>1 DEF Reports, IsSuperseded, Persists, PersistFails, Emit, thread, ends, aside, tracker
  <2>3. \A d \in Episodes : Running(d)' =>
          /\ pc'[d] = pc[d] /\ at'[d] = at[d] /\ seq'[d] = seq[d] /\ entries'[d] = entries[d]
          /\ cancel'[d] = cancel[d]
    BY <1>2, <1>3, <2>2 DEF Running, Gone, ThreadsPlaced
  <2>4. Budgets' \subseteq Budgets
    BY <2>2 DEF Budgets, Now, Manifest
  <2>5. epoch' <= MaxEpisodes
    BY <1>2, <2>2 DEF UsedCovers
  <2>6. UsedCovers'
    BY <1>2, <2>2, <2>3, <2>4, <2>5, QuietBudget
  <2>7. QED
    BY <1>1, <2>6 DEF BudgetInv
<1>9. CASE Crash
  <2>1. /\ UNCHANGED << script, agents_used, overtaken, epoch >>
        /\ \A e \in Episodes : ~Running(e)'
        /\ Budgets' \subseteq Budgets
    BY <1>9 DEF Crash, Budgets, aside, Running
  <2>2. PICK e \in Episodes :
          file' \in IF pc[e] = "record" THEN PartialAppends(file, NextLine(e)) ELSE {file}
    BY <1>9 DEF Crash
  <2>3. SUFFICES ASSUME ~overtaken, NEW b \in Budgets
                 PROVE  AgentEntries(Repaired(file')) <= b
    <3>1. AgentEntries(Repaired(file))' = AgentEntries(Repaired(file'))
      <4>1. Repaired(file)' = Repaired(file')
        BY DEF Repaired
      <4>2. QED
        BY <2>1, <4>1, SameAgents
    <3>2. UsedCovers'
      BY <1>2, <2>1, <2>3, <3>1 DEF UsedCovers
    <3>3. QED
      BY <1>1, <3>2 DEF BudgetInv
  <2>4. CASE pc[e] # "record"
    BY <1>2, <2>2, <2>3, <2>4 DEF UsedCovers
  <2>5. CASE pc[e] = "record"
    <3> DEFINE v == vals[e][Len(entries[e]) - seq[e] + 1]
    <3>1. Running(e)
      BY <2>5 DEF Running
    <3>2. entries[e] = file /\ Dense(file) /\ CoveredAt(e, b)
      BY <1>2, <2>3, <3>1 DEF JournalInv, MemoryIsFile, UsedCovers
    <3>3. NextLine(e) = Line(Len(file), at[e], v)
      BY <3>2, NextLineIs
    <3> HIDE DEF v
    <3>4. file' \in PartialAppends(file, Line(Len(file), at[e], v))
      BY <2>2, <2>5, <3>3
    <3>5. /\ AgentEntries(Repaired(file')) <= AgentEntries(file) + 1
          /\ ~IsAgent(script[at[e]]) => AgentEntries(Repaired(file')) <= AgentEntries(file)
      BY <1>2, <3>2, <3>4, PartialAgents
    <3>6. IsLines(file')
      BY <1>2, <3>4, PartialLines
    <3>7. AgentEntries(Repaired(file')) \in Nat /\ AgentEntries(file) \in Nat
      BY <1>2, <3>6, RepairedLines, AgentsFinite
    <3>8. /\ Admitted(e) \in Nat /\ (IsAgent(script[at[e]]) => Admitted(e) >= 1)
      BY <1>2, <2>5, AdmittedFacts
    <3>9. AgentEntries(file) + Admitted(e) <= b /\ b \in Nat
      BY <1>2, <2>3, <3>2 DEF CoveredAt, UsedCovers
    <3>10. QED
      BY <3>5, <3>7, <3>8, <3>9
  <2>6. QED
    BY <2>4, <2>5
<1>10. CASE UNCHANGED vars
  <2>1. /\ UNCHANGED << script, file, agents_used, agent_budget, at, seq, entries, overtaken,
                        cancel, epoch, pc, disk >>
    BY <1>10 DEF vars, thread, ends, aside, tracker
  <2>2. epoch' <= MaxEpisodes /\ Budgets' \subseteq Budgets
    BY <1>2, <2>1 DEF UsedCovers, Budgets
  <2>3. UsedCovers'
    BY <1>2, <2>1, <2>2, QuietBudget
  <2>4. QED
    BY <1>1, <2>3 DEF BudgetInv
<1>11. QED
  BY <1>4, <1>5, <1>6, <1>7, <1>8, <1>9, <1>10 DEF Next, ManagerNext

LEMMA BudgetInit ==
  ASSUME Init
  PROVE  BudgetInv
<1>1. ReplayInv
  BY ReplayInit
<1>2. IsLines(file) /\ file = << >> /\ Repaired(file) = file
  BY <1>1 DEF Init, ReplayInv, NumbersAgree, Repaired
<1>3. AgentEntries(file) = 0
  <2>1. AgentLines(file) = {}
    BY <1>2 DEF AgentLines
  <2>2. QED
    BY <1>2, <2>1, AgentsFinite, FS_EmptySet
<1>4. \A e \in Episodes : ~Running(e)
  BY DEF Init, Running
<1>5. UsedCovers
  BY <1>2, <1>3, <1>4, WorkflowRunAssumption DEF Init, UsedCovers, Budgets
<1>6. QED
  BY <1>1, <1>5 DEF BudgetInv

\* The budget is a cap: as long as no episode was overtaken, the agents in the journal
\* and the ones that run are never more, however often a run is paused, cut short,
\* crashed and resumed (tracker.rs, reserve_agents; manager.rs, resume_run, which sets
\* the count from the journal).
THEOREM BudgetCorrect == Spec => []BudgetHeld
<1>1. BudgetInv => BudgetHeld
  <2>1. SUFFICES ASSUME BudgetInv, ~overtaken, epoch > 0
                 PROVE  AgentEntries(Repaired(file)) + Admitted(epoch) <= agent_budget
    BY DEF BudgetHeld
  <2>2. JournalInv /\ ThreadsTyped /\ ThreadsPlaced /\ IsLines(file) /\ UsedCovers
    BY <2>1 DEF BudgetInv, ReplayInv, JournalInv, ThreadsInv, NumbersAgree
  <2>3. epoch \in Episodes
    BY <2>1, <2>2, WorkflowRunAssumption DEF UsedCovers, ThreadsTyped, Episodes
  <2>4. /\ agent_budget \in Budgets
        /\ AgentEntries(Repaired(file)) <= agent_budget /\ AgentEntries(Repaired(file)) \in Nat
    BY <2>1, <2>2, RepairedLines, AgentsFinite DEF UsedCovers, Budgets
  <2>5. CASE Running(epoch)
    <3>1. Repaired(file) = file
      BY <2>1, <2>2, <2>3, <2>5, DenseLoads DEF JournalInv, MemoryIsFile
    <3>2. QED
      BY <2>1, <2>2, <2>3, <2>4, <2>5, <3>1 DEF UsedCovers, CoveredAt
  <2>6. CASE ~Running(epoch)
    <3>1. Admitted(epoch) = 0
      BY <2>6 DEF Admitted, Running
    <3>2. QED
      BY <2>2, <2>4, <3>1 DEF UsedCovers
  <2>7. QED
    BY <2>5, <2>6
<1>2. QED
  BY <1>1, BudgetInit, BudgetStep, PTL DEF Spec

=============================================================================
