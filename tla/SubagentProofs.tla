--------------------------- MODULE SubagentProofs ---------------------------
(***************************************************************************)
(* Proofs about the subagent coordinator, for every set of subagents,      *)
(* sessions, runs and queries and every configuration of the host.  A      *)
(* handler is a composition of operators from state to state; each lemma   *)
(* says that one of them keeps the state sound, possibly with some         *)
(* subagents on their way out.                                             *)
(***************************************************************************)
EXTENDS SubagentCoordinator, FiniteSetTheorems, NaturalsInduction, WellFoundedInduction, TLAPS

\* t is s but for some fields.
KeptBut(s, t, changed) == DOMAIN t = Fields /\ \A f \in Fields \ changed : t[f] = s[f]

(***************************************************************************)
(* Lines                                                                   *)
(***************************************************************************)
LEMMA LineFacts ==
  ASSUME NEW line, NEW R, NEW ahead, NEW n
  PROVE  /\ Behind(line, R, ahead).has = line.has \union R
         /\ Without(line, R).has = line.has \ R
         /\ Oldest(line, n) \subseteq line.has
         /\ BufferPush(line, R, ahead).has \subseteq line.has \union R
BY DEF Behind, Without, Oldest, BufferPush

-----------------------------------------------------------------------------
(***************************************************************************)
(* Finishing                                                               *)
(***************************************************************************)

\* u is s after the subagents in R were finished.
Concluded(s, R, u) ==
  /\ DOMAIN u = Fields /\ u.config = s.config
  /\ u.pending = s.pending \ R /\ u.active = s.active \ R /\ u.queue = s.queue
  /\ u.done.has = s.done.has \union R
  /\ u.req = s.req /\ u.cancelled = s.cancelled /\ u.killed = s.killed /\ u.torn = s.torn
  /\ u.phase = s.phase
  /\ u.reply = s.reply \ R /\ u.deadline = s.deadline \ R /\ u.handle_only = s.handle_only \ R
  /\ DOMAIN u.waiter = Queries
  /\ \A q \in Queries : u.waiter[q] = IF s.waiter[q] \in R THEN None ELSE s.waiter[q]
  /\ DOMAIN u.caller = Ids
  /\ \A i \in Ids : u.caller[i] = IF i \in R \intersect s.reply /\ s.caller[i] = "waiting"
                                  THEN "final" ELSE s.caller[i]
  /\ u.buffer.has \subseteq s.buffer.has \union {i \in R : s.req[i].surface}
  /\ s.told \subseteq u.told /\ s.aborted \subseteq u.aborted
  /\ s.surfaced \subseteq u.surfaced
  /\ u.surfaced \subseteq s.surfaced \union {i \in R : s.req[i].surface}
  /\ \A i \in R : (i \in s.reply /\ s.caller[i] = "waiting" /\ i \notin s.handle_only)
                    => i \notin u.surfaced \ s.surfaced
  /\ \A i \in R : (s.req[i].surface /\ ~(i \in s.reply /\ s.caller[i] = "waiting"))
                    => i \in UNION {u.aborted, s.killed, u.surfaced, u.told}
  /\ u.run_waiters \subseteq s.run_waiters
  /\ \A run \in u.run_waiters :
       (\E i \in R : s.req[i].owner = run) => \E i \in Started(u) : s.req[i].owner = run
  /\ u.drains \subseteq s.drains /\ u.blocked \subseteq s.blocked
  /\ \A p \in u.drains :
       /\ p \in s.blocked => p \in u.blocked
       /\ (\E i \in R : s.req[i].session = p) => \E i \in Live(u) : s.req[i].session = p

LEMMA ConcludeFacts ==
  ASSUME NEW s, NEW R, NEW ahead, NEW C, DOMAIN s = Fields, DOMAIN s.caller = Ids,
         DOMAIN s.waiter = Queries, R \subseteq Ids
  PROVE  Concluded(s, R, Conclude(s, R, ahead, C))
<1> DEFINE asked == {q \in Queries : s.waiter[q] \in R}
           told  == {s.waiter[q] : q \in asked \ s.lost}
           sent  == {i \in R \intersect s.reply : s.caller[i] = "waiting"}
           fg    == sent \ s.handle_only
           kept  == {i \in R : s.req[i].surface /\ ~IsWorkflow(s.req[i])}
           waiter == [q \in Queries |-> IF q \in asked THEN None ELSE s.waiter[q]]
           caller == [i \in Ids |-> IF i \in sent THEN "final" ELSE s.caller[i]]
           buffer == IF BufferCompletions THEN BufferPush(s.buffer, kept, ahead) ELSE s.buffer
           due    == ShouldSurface(s, R, fg, told, C)
           done   == Behind(s.done, R, ahead)
           t == [s EXCEPT !.pending = @ \ R, !.active = @ \ R, !.waiter = waiter,
                          !.lost = @ \ asked, !.reply = @ \ R, !.deadline = @ \ R,
                          !.caller = caller, !.handle_only = @ \ R, !.buffer = buffer,
                          !.told = @ \union told, !.surfaced = @ \union due,
                          !.aborted = @ \union C, !.done = done]
           u == ResolveWaiters(t, R)
<1>1. Conclude(s, R, ahead, C) = u
  BY DEF Conclude
<1>2. buffer.has \subseteq s.buffer.has \union {i \in R : s.req[i].surface}
  BY LineFacts
<1>3. done.has = s.done.has \union R
  BY LineFacts
<1>4. /\ DOMAIN waiter = Queries
      /\ \A q \in Queries : waiter[q] = IF s.waiter[q] \in R THEN None ELSE s.waiter[q]
  OBVIOUS
<1>5. /\ DOMAIN caller = Ids
      /\ \A i \in Ids : caller[i] = IF i \in R \intersect s.reply /\ s.caller[i] = "waiting"
                                    THEN "final" ELSE s.caller[i]
  OBVIOUS
<1>6. /\ due \subseteq {i \in R : s.req[i].surface}
      /\ \A i \in R : (i \in s.reply /\ s.caller[i] = "waiting" /\ i \notin s.handle_only)
                        => i \notin due
      /\ \A i \in R : (s.req[i].surface /\ ~(i \in s.reply /\ s.caller[i] = "waiting"))
                        => i \in UNION {C, s.killed, due, told}
  BY DEF ShouldSurface
<1> HIDE DEF asked, told, waiter, caller, buffer, due, done
<1>7. /\ DOMAIN t = Fields /\ t.config = s.config
      /\ t.pending = s.pending \ R /\ t.active = s.active \ R /\ t.queue = s.queue
      /\ t.done = done /\ t.req = s.req /\ t.cancelled = s.cancelled /\ t.killed = s.killed
      /\ t.torn = s.torn /\ t.phase = s.phase /\ t.reply = s.reply \ R
      /\ t.deadline = s.deadline \ R /\ t.handle_only = s.handle_only \ R
      /\ t.waiter = waiter /\ t.caller = caller /\ t.buffer = buffer
      /\ t.told = s.told \union told /\ t.surfaced = s.surfaced \union due
      /\ t.aborted = s.aborted \union C
      /\ t.run_waiters = s.run_waiters /\ t.drains = s.drains /\ t.blocked = s.blocked
  BY DEF Fields
<1> HIDE DEF t
<1> DEFINE runs == {run \in t.run_waiters : /\ \E i \in R : t.req[i].owner = run
                                            /\ WorkflowOutstanding(t, run) = {}}
           sessions == {p \in t.drains : /\ \E i \in R : t.req[i].session = p
                                         /\ ~SessionHasChildren(t, p)}
<1>8. u = [[t EXCEPT !.run_waiters = @ \ runs] EXCEPT !.drains = @ \ sessions, !.blocked = @ \ sessions]
  BY DEF ResolveWaiters, ClearTeardownDrain
<1>9. /\ \A run \in t.run_waiters \ runs :
           (\E i \in R : t.req[i].owner = run) => \E i \in Started(t) : t.req[i].owner = run
      /\ \A p \in t.drains \ sessions :
           (\E i \in R : t.req[i].session = p) => \E i \in Live(t) : t.req[i].session = p
  BY DEF WorkflowOutstanding, SessionHasChildren
<1> HIDE DEF runs, sessions, u
<1>10. /\ DOMAIN u = Fields /\ u.config = t.config
       /\ u.pending = t.pending /\ u.active = t.active /\ u.queue = t.queue /\ u.done = t.done
       /\ u.req = t.req /\ u.cancelled = t.cancelled /\ u.killed = t.killed
       /\ u.torn = t.torn /\ u.phase = t.phase /\ u.reply = t.reply /\ u.deadline = t.deadline
       /\ u.handle_only = t.handle_only /\ u.waiter = t.waiter /\ u.caller = t.caller
       /\ u.buffer = t.buffer /\ u.told = t.told /\ u.surfaced = t.surfaced
       /\ u.aborted = t.aborted
       /\ u.run_waiters = t.run_waiters \ runs /\ u.drains = t.drains \ sessions
       /\ u.blocked = t.blocked \ sessions
  BY <1>7, <1>8 DEF Fields
<1>11. Started(u) = Started(t) /\ Live(u) = Live(t)
  BY <1>10 DEF Live, Started
<1>12. Concluded(s, R, u)
  BY <1>2, <1>3, <1>4, <1>5, <1>6, <1>7, <1>9, <1>10, <1>11 DEF Concluded
<1>13. QED
  BY <1>1, <1>12

\* No subagent is lost: t has the subagents of s, those in Q on their way out.
Tracked(s, R, t, Q) ==
  /\ Live(t) \union Q \union t.done.has = Live(s) \union R \union s.done.has
  /\ Live(t) \union Q \subseteq Live(s) \union R
  /\ t.buffer.has \subseteq s.buffer.has \union Live(s) \union R
  /\ t.phase = s.phase

LEMMA TrackedOn ==
  ASSUME NEW s, NEW R, NEW t, NEW Q, Tracked(s, R, t, Q), NEW u, NEW P, Tracked(t, Q, u, P)
  PROVE  Tracked(s, R, u, P)
BY DEF Tracked

\* Those on their way out arrive.
LEMMA ConcludeSound ==
  ASSUME NEW s, NEW R, NEW B, Sound(s, R, B), R \intersect s.queue.has = {},
         NEW u, Concluded(s, R, u)
  PROVE  Sound(u, {}, B) /\ Tracked(s, R, u, {})
<1>1. /\ Live(u) = Live(s) \ R /\ Started(u) = Started(s) \ R /\ u.req = s.req
      /\ Live(u) \subseteq Live(s) \union R /\ Started(u) \subseteq Live(u)
  BY DEF Concluded, Live, Started
<1>2. Shaped(u, {})
  BY <1>1 DEF Sound, Shaped, Concluded
<1>3. Housed(u, {})
  BY <1>1 DEF Sound, Housed, Concluded
<1>4. Closed(u, {}, B)
  <2>1. u.blocked \subseteq B
    BY DEF Sound, Closed, Concluded
  <2>2. \A i \in Live(u) : (u.req[i].session \in B /\ ~IsWorkflow(u.req[i]))
                             => i \in u.cancelled \intersect Started(u)
    BY <1>1 DEF Sound, Closed, Concluded
  <2>3. ASSUME NEW p \in u.drains
        PROVE  p \in u.blocked /\ \E i \in Live(u) : u.req[i].session = p
    <3>1. p \in s.blocked /\ \E i \in Live(s) \union R : s.req[i].session = p
      BY DEF Sound, Closed, Concluded
    <3>2. QED
      BY <1>1, <3>1 DEF Concluded
  <2>4. QED
    BY <2>1, <2>2, <2>3 DEF Closed
<1>5. Silent(u, {})
  BY <1>1 DEF Sound, Silent, Housed, Concluded
<1>6. Waited(u, {})
  <2>1. ASSUME NEW i \in Ids, u.caller[i] = "waiting"
        PROVE  /\ i \in u.reply /\ i \in Live(u)
               /\ AwaitsInForeground(u.req[i]) => i \in u.deadline
    <3>1. s.caller[i] = "waiting" /\ ~(i \in R \intersect s.reply)
      BY <2>1 DEF Concluded
    <3>2. QED
      BY <1>1, <3>1 DEF Sound, Waited, Concluded
  <2>2. \A q \in Queries : u.waiter[q] \in Live(u) \union {None}
    BY <1>1 DEF Sound, Waited, Concluded
  <2>3. ASSUME NEW run \in u.run_waiters
        PROVE  \E i \in Started(u) : u.req[i].owner = run
    <3>1. \E i \in Started(s) : s.req[i].owner = run
      BY DEF Sound, Waited, Concluded
    <3>2. QED
      BY <1>1, <3>1 DEF Concluded
  <2>4. QED
    BY <2>1, <2>2, <2>3 DEF Waited
<1>7. Audience(u, {})
  <2>1. \A i \in Live(u) : /\ u.caller[i] \in {"waiting", "gone", "handed"}
                           /\ u.caller[i] = "waiting" /\ ~u.req[i].background
                                => i \notin u.handle_only
    BY <1>1 DEF Sound, Shaped, Audience, Concluded
  <2>2. u.phase # "exited" => u.handle_only \subseteq Started(u)
    BY <1>1 DEF Sound, Audience, Concluded
  <2>3. ASSUME NEW i \in u.done.has
        PROVE  /\ u.caller[i] = "final" /\ ~u.req[i].background => i \notin u.surfaced
               /\ u.caller[i] \in {"handed", "gone"} /\ u.req[i].surface
                    => i \in UNION {u.aborted, u.killed, u.surfaced, u.told}
    <3>1. CASE i \notin R
      <4>1. i \in s.done.has /\ (i \in u.surfaced => i \in s.surfaced) /\ u.req = s.req
        BY <3>1 DEF Concluded
      <4>2. u.caller[i] = s.caller[i]
        BY <3>1, <4>1 DEF Sound, Shaped, Concluded
      <4>3. QED
        BY <4>1, <4>2 DEF Sound, Audience, Concluded
    <3>2. CASE i \in R
      <4>1. i \in Ids /\ s.caller[i] \in {"waiting", "gone", "handed"} /\ i \notin s.surfaced
        BY <3>2 DEF Sound, Shaped, Audience, Silent, Housed
      <4>2. u.caller[i] = IF i \in s.reply /\ s.caller[i] = "waiting" THEN "final" ELSE s.caller[i]
        BY <3>2, <4>1 DEF Concluded
      <4>3. u.caller[i] = "final" /\ ~u.req[i].background => i \notin u.surfaced
        BY <3>2, <4>1, <4>2 DEF Sound, Audience, Concluded
      <4>4. u.caller[i] \in {"handed", "gone"} /\ u.req[i].surface
              => i \in UNION {u.aborted, u.killed, u.surfaced, u.told}
        BY <3>2, <4>1, <4>2 DEF Concluded
      <4>5. QED
        BY <4>3, <4>4
    <3>3. QED
      BY <3>1, <3>2
  <2>4. QED
    BY <2>1, <2>2, <2>3 DEF Audience
<1>8. Tracked(s, R, u, {})
  BY <1>1 DEF Tracked, Concluded
<1>9. QED
  BY <1>2, <1>3, <1>4, <1>5, <1>6, <1>7, <1>8 DEF Sound

\* Who leaves the queue is on the way out.
LEMMA LeaveQueue ==
  ASSUME NEW s, NEW R, NEW B, Sound(s, R, B)
  PROVE  /\ Sound([s EXCEPT !.queue = Without(@, R)], R, B)
         /\ [s EXCEPT !.queue = Without(@, R)].queue.has = s.queue.has \ R
         /\ Tracked(s, R, [s EXCEPT !.queue = Without(@, R)], R)
<1> DEFINE t == [s EXCEPT !.queue = Without(@, R)]
           line == Without(s.queue, R)
<1>1. line.has = s.queue.has \ R
  BY LineFacts
<1> HIDE DEF line
<1>2. /\ DOMAIN t = Fields /\ t.queue = line
      /\ t.pending = s.pending /\ t.active = s.active /\ t.done = s.done /\ t.buffer = s.buffer
      /\ t.req = s.req /\ t.caller = s.caller /\ t.reply = s.reply /\ t.deadline = s.deadline
      /\ t.handle_only = s.handle_only /\ t.cancelled = s.cancelled /\ t.killed = s.killed
      /\ t.torn = s.torn /\ t.waiter = s.waiter /\ t.run_waiters = s.run_waiters
      /\ t.drains = s.drains /\ t.blocked = s.blocked /\ t.told = s.told
      /\ t.surfaced = s.surfaced /\ t.aborted = s.aborted /\ t.phase = s.phase
  BY DEF Sound, Shaped, Fields, line
<1> HIDE DEF t
<1>3. /\ Live(t) \union R = Live(s) \union R /\ Started(t) = Started(s)
      /\ Live(t) \subseteq Live(s) /\ t.queue.has \subseteq s.queue.has
  BY <1>1, <1>2 DEF Live, Started
<1>4. Shaped(t, R)
  BY <1>2, <1>3 DEF Sound, Shaped
<1>5. Housed(t, R)
  BY <1>2, <1>3 DEF Sound, Housed
<1>6. Closed(t, R, B)
  BY <1>2, <1>3 DEF Sound, Closed
<1>7. Silent(t, R)
  BY <1>2, <1>3 DEF Sound, Silent
<1>8. Waited(t, R)
  BY <1>2, <1>3 DEF Sound, Waited
<1>9. Audience(t, R)
  BY <1>2, <1>3 DEF Sound, Audience
<1>10. Sound(t, R, B) /\ t.queue.has = s.queue.has \ R /\ Tracked(s, R, t, R)
  BY <1>1, <1>2, <1>3, <1>4, <1>5, <1>6, <1>7, <1>8, <1>9 DEF Sound, Tracked
<1>11. QED
  BY <1>10 DEF t

\* A subagent that is live may be on its way out.
LEMMA SoundLeaving ==
  ASSUME NEW s, NEW B, Sound(s, {}, B), NEW R, R \subseteq Live(s)
  PROVE  Sound(s, R, B)
<1>1. Live(s) \union R = Live(s) \union {}
  OBVIOUS
<1>2. Shaped(s, R) /\ Housed(s, R)
  BY <1>1 DEF Sound, Shaped, Housed
<1>3. Closed(s, R, B)
  BY <1>1 DEF Sound, Closed
<1>4. Silent(s, R) /\ Waited(s, R)
  BY <1>1 DEF Sound, Silent, Waited
<1>5. Audience(s, R)
  BY <1>1 DEF Sound, Audience
<1>6. QED
  BY <1>2, <1>3, <1>4, <1>5 DEF Sound

\* A cancellation token.
LEMMA TokenSound ==
  ASSUME NEW s, NEW R, NEW B, Sound(s, R, B), NEW K
  PROVE  /\ Sound([s EXCEPT !.cancelled = @ \union K], R, B)
         /\ [s EXCEPT !.cancelled = @ \union K].queue = s.queue
         /\ Tracked(s, R, [s EXCEPT !.cancelled = @ \union K], R)
<1> DEFINE t == [s EXCEPT !.cancelled = @ \union K]
<1>1. /\ DOMAIN t = Fields /\ t.queue = s.queue
      /\ t.pending = s.pending /\ t.active = s.active /\ t.done = s.done /\ t.buffer = s.buffer
      /\ t.req = s.req /\ t.caller = s.caller /\ t.reply = s.reply /\ t.deadline = s.deadline
      /\ t.handle_only = s.handle_only /\ t.cancelled = s.cancelled \union K /\ t.killed = s.killed
      /\ t.torn = s.torn /\ t.waiter = s.waiter /\ t.run_waiters = s.run_waiters
      /\ t.drains = s.drains /\ t.blocked = s.blocked /\ t.told = s.told
      /\ t.surfaced = s.surfaced /\ t.aborted = s.aborted /\ t.phase = s.phase
  BY DEF Sound, Shaped, Fields
<1> HIDE DEF t
<1>2. Live(t) = Live(s) /\ Started(t) = Started(s)
  BY <1>1 DEF Live, Started
<1>3. Shaped(t, R) /\ Housed(t, R) /\ Silent(t, R)
  BY <1>1, <1>2 DEF Sound, Shaped, Housed, Silent
<1>4. Closed(t, R, B)
  BY <1>1, <1>2 DEF Sound, Closed
<1>5. Waited(t, R) /\ Audience(t, R)
  BY <1>1, <1>2 DEF Sound, Waited, Audience
<1>6. Sound(t, R, B) /\ t.queue = s.queue /\ Tracked(s, R, t, R)
  BY <1>1, <1>2, <1>3, <1>4, <1>5 DEF Sound, Tracked
<1>7. QED
  BY <1>6 DEF t

\* finish_never_started
LEMMA NeverStartedSound ==
  ASSUME NEW s, NEW R, NEW B, Sound(s, R, B), R \intersect s.queue.has = {}, NEW ahead, NEW C
  PROVE  /\ Sound(FinishNeverStarted(s, R, ahead, C), {}, B)
         /\ Tracked(s, R, FinishNeverStarted(s, R, ahead, C), {})
<1> DEFINE t == [s EXCEPT !.handle_only = (@ \ R) \union {i \in R : s.req[i].background},
                          !.killed = @ \ R]
<1>1. /\ DOMAIN t = Fields /\ t.queue = s.queue
      /\ t.pending = s.pending /\ t.active = s.active /\ t.done = s.done /\ t.buffer = s.buffer
      /\ t.req = s.req /\ t.caller = s.caller /\ t.reply = s.reply /\ t.deadline = s.deadline
      /\ t.handle_only = (s.handle_only \ R) \union {i \in R : s.req[i].background}
      /\ t.cancelled = s.cancelled /\ t.killed = s.killed \ R
      /\ t.torn = s.torn /\ t.waiter = s.waiter /\ t.run_waiters = s.run_waiters
      /\ t.drains = s.drains /\ t.blocked = s.blocked /\ t.told = s.told
      /\ t.surfaced = s.surfaced /\ t.aborted = s.aborted /\ t.phase = s.phase
  BY DEF Sound, Shaped, Fields
<1>2. FinishNeverStarted(s, R, ahead, C) = Conclude(t, R, ahead, C)
  BY DEF FinishNeverStarted
<1> HIDE DEF t
<1>3. Live(t) = Live(s) /\ Started(t) = Started(s)
  BY <1>1 DEF Live, Started
<1>4. Shaped(t, R) /\ Housed(t, R) /\ Silent(t, R)
  BY <1>1, <1>3 DEF Sound, Shaped, Housed, Silent
<1>5. Closed(t, R, B)
  BY <1>1, <1>3 DEF Sound, Closed
<1>6. Waited(t, R)
  BY <1>1, <1>3 DEF Sound, Waited
<1>7. Audience(t, R)
  BY <1>1, <1>3 DEF Sound, Housed, Audience
<1>8. Sound(t, R, B)
  BY <1>4, <1>5, <1>6, <1>7 DEF Sound
<1>9. Concluded(t, R, Conclude(t, R, ahead, C))
  BY <1>4, ConcludeFacts DEF Shaped
<1>10. Tracked(s, R, t, R)
  BY <1>1, <1>3 DEF Tracked
<1>11. QED
  BY <1>1, <1>2, <1>8, <1>9, <1>10, ConcludeSound, TrackedOn

\* finish_cancelled_queued
LEMMA CancelledQueuedSound ==
  ASSUME NEW s, NEW R, NEW B, Sound(s, R, B), R \intersect s.queue.has = {}, NEW ahead
  PROVE  /\ Sound(FinishCancelledQueued(s, R, ahead), {}, B)
         /\ Tracked(s, R, FinishCancelledQueued(s, R, ahead), {})
<1> DEFINE t == [s EXCEPT !.cancelled = @ \union R]
<1>1. Sound(t, R, B) /\ t.queue = s.queue /\ Tracked(s, R, t, R)
  BY TokenSound
<1>2. FinishCancelledQueued(s, R, ahead) = FinishNeverStarted(t, R, ahead, R)
  BY DEF FinishCancelledQueued
<1> HIDE DEF t
<1>3. QED
  BY <1>1, <1>2, NeverStartedSound, TrackedOn

-----------------------------------------------------------------------------
(***************************************************************************)
(* Starting, and the sweep of the queue                                    *)
(***************************************************************************)
LEMMA StartFields ==
  ASSUME NEW s, DOMAIN s = Fields, NEW R, NEW t, t = StartChild(s, R)
  PROVE  /\ DOMAIN t = Fields /\ t.config = s.config /\ t.queue = s.queue
         /\ t.pending = s.pending \union R /\ t.active = s.active /\ t.done = s.done
         /\ t.buffer = s.buffer /\ t.req = s.req /\ t.caller = s.caller /\ t.reply = s.reply
         /\ t.deadline = s.deadline
         /\ t.handle_only = s.handle_only \union
                              {i \in R : s.req[i].background \/ i \notin s.reply}
         /\ t.cancelled = s.cancelled /\ t.killed = s.killed \ R
         /\ t.torn = s.torn /\ t.waiter = s.waiter /\ t.run_waiters = s.run_waiters
         /\ t.drains = s.drains /\ t.blocked = s.blocked /\ t.told = s.told
         /\ t.surfaced = s.surfaced /\ t.aborted = s.aborted /\ t.phase = s.phase
BY DEF StartChild, Fields

LEMMA SweepStarts ==
  ASSUME NEW s, NEW B, Sound(s, {}, B), NEW R, NEW X, R \union X \subseteq s.queue.has,
         R \intersect X = {}
  PROVE  LET t == [StartChild(s, R) EXCEPT !.queue = Without(@, R \union X)]
         IN  Sound(t, X, B) /\ X \intersect t.queue.has = {} /\ Tracked(s, {}, t, X)
<1> DEFINE v == StartChild(s, R)
           line == Without(v.queue, R \union X)
           t == [v EXCEPT !.queue = Without(@, R \union X)]
<1>1. /\ DOMAIN v = Fields /\ v.queue = s.queue
      /\ v.pending = s.pending \union R /\ v.active = s.active /\ v.done = s.done
      /\ v.buffer = s.buffer /\ v.req = s.req /\ v.caller = s.caller /\ v.reply = s.reply
      /\ v.deadline = s.deadline
      /\ v.handle_only = s.handle_only \union
                           {i \in R : s.req[i].background \/ i \notin s.reply}
      /\ v.cancelled = s.cancelled /\ v.killed = s.killed \ R
      /\ v.torn = s.torn /\ v.waiter = s.waiter /\ v.run_waiters = s.run_waiters
      /\ v.drains = s.drains /\ v.blocked = s.blocked /\ v.told = s.told
      /\ v.surfaced = s.surfaced /\ v.aborted = s.aborted /\ v.phase = s.phase
  BY StartFields DEF Sound, Shaped
<1> HIDE DEF v
<1>2. line.has = s.queue.has \ (R \union X)
  <2>1. \A l, Y : Without(l, Y).has = l.has \ Y
    BY LineFacts
  <2>2. QED
    BY <1>1, <2>1
<1> HIDE DEF line
<1>3. /\ DOMAIN t = Fields /\ t.queue = line
      /\ t.pending = v.pending /\ t.active = v.active /\ t.done = v.done
      /\ t.buffer = v.buffer /\ t.req = v.req /\ t.caller = v.caller /\ t.reply = v.reply
      /\ t.deadline = v.deadline /\ t.handle_only = v.handle_only
      /\ t.cancelled = v.cancelled /\ t.killed = v.killed
      /\ t.torn = v.torn /\ t.waiter = v.waiter /\ t.run_waiters = v.run_waiters
      /\ t.drains = v.drains /\ t.blocked = v.blocked /\ t.told = v.told
      /\ t.surfaced = v.surfaced /\ t.aborted = v.aborted /\ t.phase = v.phase
  BY <1>1 DEF Fields, line
<1> HIDE DEF t
<1>4. /\ Live(t) \union X = Live(s) /\ Started(t) = Started(s) \union R
      /\ t.queue.has = s.queue.has \ (R \union X) /\ Live(t) \subseteq Live(s) /\ X \subseteq Live(s)
      /\ R \subseteq Live(s)
  BY <1>1, <1>2, <1>3 DEF Live, Started
<1>5. \A i \in R \union X : i \notin s.done.has /\ i \notin Started(s)
  BY DEF Sound, Housed, Live
<1>6. Shaped(t, X)
  BY <1>1, <1>3, <1>4 DEF Sound, Shaped
<1>7. Housed(t, X)
  BY <1>1, <1>3, <1>4, <1>5 DEF Sound, Housed, Started
<1>8. Closed(t, X, B)
  <2>1. \A i \in Live(t) \ X : (t.req[i].session \in B /\ ~IsWorkflow(t.req[i]))
                                 => i \in t.cancelled \intersect Started(t)
    BY <1>1, <1>3, <1>4, <1>5 DEF Sound, Closed
  <2>2. QED
    BY <1>1, <1>3, <1>4, <2>1 DEF Sound, Closed
<1>9. Silent(t, X)
  BY <1>1, <1>3, <1>4 DEF Sound, Silent
<1>10. Waited(t, X)
  BY <1>1, <1>3, <1>4 DEF Sound, Waited
<1>11. Audience(t, X)
  <2>1. \A i \in Live(t) \union X :
          /\ t.caller[i] \in {"waiting", "gone", "handed"}
          /\ t.caller[i] = "waiting" /\ ~t.req[i].background => i \notin t.handle_only
    BY <1>1, <1>3, <1>4 DEF Sound, Shaped, Waited, Audience
  <2>2. t.phase # "exited" => t.handle_only \subseteq Started(t) \union X
    BY <1>1, <1>3, <1>4 DEF Sound, Audience
  <2>3. \A i \in t.done.has :
          /\ t.caller[i] = "final" /\ ~t.req[i].background => i \notin t.surfaced
          /\ t.caller[i] \in {"handed", "gone"} /\ t.req[i].surface
               => i \in UNION {t.aborted, t.killed, t.surfaced, t.told}
    BY <1>1, <1>3, <1>5 DEF Sound, Audience
  <2>4. QED
    BY <2>1, <2>2, <2>3 DEF Audience
<1>12. Sound(t, X, B) /\ X \intersect t.queue.has = {} /\ Tracked(s, {}, t, X)
  BY <1>1, <1>3, <1>4, <1>6, <1>7, <1>8, <1>9, <1>10, <1>11 DEF Sound, Tracked
<1>13. QED
  BY <1>12 DEF t, v

\* start_queued_within_capacity
LEMMA SweepSound ==
  ASSUME NEW s, NEW B, Sound(s, {}, B)
  PROVE  Sound(Sweep(s), {}, B) /\ Tracked(s, {}, Sweep(s), {})
<1> DEFINE R == Starts(s)
           X == s.queue.has \intersect s.cancelled
           t == [StartChild(s, R) EXCEPT !.queue = Without(@, R \union X)]
<1>1. R \union X \subseteq s.queue.has /\ R \intersect X = {}
  BY DEF Starts
<1> HIDE DEF R, X
<1>2. Sound(t, X, B) /\ X \intersect t.queue.has = {} /\ Tracked(s, {}, t, X)
  BY <1>1, SweepStarts
<1>3. Sweep(s) = FinishCancelledQueued(t, X, s.queue.ahead)
  BY DEF Sweep, R, X
<1> HIDE DEF t
<1>4. QED
  BY <1>2, <1>3, CancelledQueuedSound, TrackedOn

\* remove_queued
LEMMA RemoveQueuedSound ==
  ASSUME NEW s, NEW R, NEW B, Sound(s, R, B)
  PROVE  Sound(RemoveQueued(s, R), {}, B) /\ Tracked(s, R, RemoveQueued(s, R), {})
<1>1. CASE R = {}
  BY <1>1 DEF RemoveQueued, Tracked
<1>2. CASE R # {}
  <2> DEFINE t == [s EXCEPT !.queue = Without(@, R)]
  <2>1. Sound(t, R, B) /\ R \intersect t.queue.has = {} /\ Tracked(s, R, t, R)
    <3>1. Sound(t, R, B) /\ t.queue.has = s.queue.has \ R /\ Tracked(s, R, t, R)
      BY LeaveQueue
    <3> HIDE DEF t
    <3>2. QED
      BY <3>1
  <2>2. RemoveQueued(s, R) = Sweep(FinishCancelledQueued(t, R, s.queue.ahead))
    BY <1>2 DEF RemoveQueued
  <2> DEFINE u == FinishCancelledQueued(t, R, s.queue.ahead)
  <2> HIDE DEF t
  <2>3. Sound(u, {}, B) /\ Tracked(t, R, u, {})
    BY <2>1, CancelledQueuedSound
  <2> HIDE DEF u
  <2>4. Sound(Sweep(u), {}, B) /\ Tracked(u, {}, Sweep(u), {})
    BY <2>3, SweepSound
  <2>5. Tracked(s, R, Sweep(u), {})
    BY <2>1, <2>3, <2>4, TrackedOn
  <2>6. QED
    BY <2>2, <2>4, <2>5 DEF u
<1>3. QED
  BY <1>1, <1>2

\* finish_child
LEMMA FinishChildSound ==
  ASSUME NEW s, NEW B, Sound(s, {}, B), NEW id \in Started(s), NEW C
  PROVE  Sound(FinishChild(s, id, C), {}, B)
<1> DEFINE u == Conclude(s, {id}, [i \in Ids |-> {}], C)
<1>1. Sound(s, {id}, B) /\ {id} \intersect s.queue.has = {}
  BY SoundLeaving DEF Live, Sound, Housed
<1>2. Concluded(s, {id}, u)
  BY <1>1, ConcludeFacts DEF Sound, Shaped
<1> HIDE DEF u
<1>3. Sound(u, {}, B)
  BY <1>1, <1>2, ConcludeSound
<1>4. FinishChild(s, id, C) = Sweep(u)
  BY DEF FinishChild, u
<1>5. QED
  BY <1>3, <1>4, SweepSound

-----------------------------------------------------------------------------
(***************************************************************************)
(* The reap before every command, and the eviction after every iteration   *)
(***************************************************************************)
LEMMA ReapCallersSound ==
  ASSUME NEW s, NEW B, Sound(s, {}, B), NEW t, t = ReapCallers(s)
  PROVE  Sound(t, {}, B) /\ KeptBut(s, t, {"reply", "cancelled", "handle_only", "deadline"})
<1> DEFINE workflow == {i \in CallerGone(s) : IsWorkflow(s.req[i])}
           background == (CallerGone(s) \ workflow) \union CallerGoneQueued(s)
<1>1. \A i \in workflow \union background : s.caller[i] = "gone"
  BY DEF CallerGone, CallerGoneQueued
<1>2. /\ KeptBut(s, t, {"reply", "cancelled", "handle_only", "deadline"})
      /\ t.reply = s.reply \ (workflow \union background)
      /\ t.cancelled = s.cancelled \union workflow
      /\ t.handle_only = s.handle_only \union (background \intersect Started(s))
      /\ t.deadline = s.deadline \ background
  BY DEF ReapCallers, KeptBut, Fields, Sound, Shaped
<1> HIDE DEF workflow, background
<1>3. Live(t) = Live(s) /\ Started(t) = Started(s)
  BY <1>2 DEF Live, Started, KeptBut, Fields
<1>4. Shaped(t, {}) /\ Housed(t, {}) /\ Silent(t, {})
  BY <1>2, <1>3 DEF Sound, Shaped, Housed, Silent, KeptBut, Fields
<1>5. Closed(t, {}, B)
  BY <1>2, <1>3 DEF Sound, Closed, KeptBut, Fields
<1>6. Waited(t, {})
  BY <1>1, <1>2, <1>3 DEF Sound, Waited, KeptBut, Fields
<1>7. Audience(t, {})
  BY <1>1, <1>2, <1>3 DEF Sound, Audience, KeptBut, Fields
<1>8. QED
  BY <1>2, <1>4, <1>5, <1>6, <1>7 DEF Sound

\* reap_abandoned_callers
LEMMA ReapSound ==
  ASSUME NEW s, NEW B, Sound(s, {}, B)
  PROVE  Sound(Reap(s), {}, B) /\ Tracked(s, {}, Reap(s), {})
<1> DEFINE t == ReapCallers(s)
           R == t.queue.has \intersect t.cancelled
<1>1. Sound(t, {}, B) /\ KeptBut(s, t, {"reply", "cancelled", "handle_only", "deadline"})
  BY ReapCallersSound
<1>2. R \subseteq Live(t)
  BY DEF Live
<1>3. Reap(s) = RemoveQueued(t, R)
  BY DEF Reap
<1> HIDE DEF t, R
<1>4. Tracked(s, {}, t, R)
  <2>1. Live(t) = Live(s) /\ t.done = s.done /\ t.buffer = s.buffer /\ t.phase = s.phase
    BY <1>1 DEF KeptBut, Fields, Live, Started
  <2>2. QED
    BY <1>2, <2>1 DEF Tracked
<1>5. Sound(Reap(s), {}, B) /\ Tracked(t, R, Reap(s), {})
  BY <1>1, <1>2, <1>3, SoundLeaving, RemoveQueuedSound
<1>6. QED
  BY <1>4, <1>5, TrackedOn

\* The last statement of the loop.
LEMMA TrimSound ==
  ASSUME NEW s, NEW B, Sound(s, {}, B)
  PROVE  Sound(Trim(s), {}, B)
<1> DEFINE E == Oldest(s.done, MaxCompleted)
           done == Without(s.done, E)
           known == (Live(s) \union s.done.has \union s.buffer.has) \ (E \ s.buffer.has)
           req == [i \in Ids |-> IF i \in known THEN s.req[i] ELSE Blank]
           caller == [i \in Ids |-> IF i \in E THEN "none" ELSE s.caller[i]]
           t == Trim(s)
<1>1. E \subseteq s.done.has
  BY LineFacts
<1>2. E \intersect Live(s) = {}
  BY <1>1 DEF Sound, Housed
<1>3. done.has = s.done.has \ E
  BY LineFacts
<1>4. Live(s) \subseteq known /\ s.done.has \ E \subseteq known
  BY <1>2
<1>5. DOMAIN Blank = RequestFields
  BY DEF Blank, RequestFields
<1>6. /\ DOMAIN req = Ids /\ (\A i \in Ids : i \in known => req[i] = s.req[i])
      /\ DOMAIN caller = Ids /\ (\A i \in Ids : i \notin E => caller[i] = s.caller[i])
      /\ \A i \in E \intersect Ids : caller[i] = "none"
  OBVIOUS
<1>7. \A i \in Ids : DOMAIN req[i] = RequestFields
  BY <1>5 DEF Sound, Shaped
<1> HIDE DEF E, done, req, caller
<1>8. /\ KeptBut(s, t, {"done", "req", "caller", "cancelled", "killed", "handle_only", "told",
                        "surfaced", "aborted", "ran", "torn"})
      /\ t.done = done /\ t.req = req /\ t.caller = caller
      /\ t.cancelled = s.cancelled \ E /\ t.killed = s.killed \ E
      /\ t.handle_only = s.handle_only \ E /\ t.told = s.told \ E
      /\ t.surfaced = s.surfaced \ E /\ t.aborted = s.aborted \ E /\ t.torn = s.torn \ E
  BY DEF Trim, Forget, KeptBut, Fields, Sound, Shaped, E, done, req, caller
<1> HIDE DEF t, known
<1>9. Live(t) = Live(s) /\ Started(t) = Started(s) /\ Started(s) \subseteq Live(s)
  BY <1>8 DEF Live, Started, KeptBut, Fields
<1>10. Live(s) \subseteq Ids /\ s.done.has \subseteq Ids
  BY DEF Sound, Shaped
<1>11. /\ \A i \in Live(s) : t.req[i] = s.req[i] /\ t.caller[i] = s.caller[i] /\ i \notin E
       /\ \A i \in t.done.has : /\ t.req[i] = s.req[i] /\ t.caller[i] = s.caller[i]
                                /\ i \notin E /\ i \in s.done.has
  BY <1>2, <1>3, <1>4, <1>6, <1>8, <1>10
<1>12. Shaped(t, {})
  BY <1>3, <1>6, <1>7, <1>8, <1>9, <1>10 DEF Sound, Shaped, KeptBut, Fields
<1>13. Housed(t, {})
  BY <1>3, <1>8, <1>9 DEF Sound, Housed, KeptBut, Fields
<1>14. Closed(t, {}, B)
  <2>1. t.blocked = s.blocked /\ t.drains = s.drains
    BY <1>8 DEF KeptBut, Fields
  <2>2. \A i \in Live(t) : (t.req[i].session \in B /\ ~IsWorkflow(t.req[i]))
                             => i \in t.cancelled \intersect Started(t)
    BY <1>8, <1>9, <1>11 DEF Sound, Closed
  <2>3. \A p \in t.drains : p \in t.blocked /\ \E i \in Live(t) : t.req[i].session = p
    BY <1>9, <1>11, <2>1 DEF Sound, Closed
  <2>4. QED
    BY <2>1, <2>2, <2>3 DEF Sound, Closed
<1>15. Silent(t, {})
  BY <1>3, <1>8, <1>9, <1>11 DEF Sound, Silent, KeptBut, Fields
<1>16. Waited(t, {})
  <2>1. t.reply = s.reply /\ t.deadline = s.deadline /\ t.waiter = s.waiter
        /\ t.run_waiters = s.run_waiters
    BY <1>8 DEF KeptBut, Fields
  <2>2. ASSUME NEW i \in Ids, t.caller[i] = "waiting"
        PROVE  /\ i \in t.reply /\ i \in Live(t)
               /\ AwaitsInForeground(t.req[i]) => i \in t.deadline
    <3>1. s.caller[i] = "waiting"
      BY <1>6, <1>8, <2>2
    <3>2. QED
      BY <1>9, <1>11, <2>1, <3>1 DEF Sound, Waited
  <2>3. \A run \in t.run_waiters : \E i \in Started(t) : t.req[i].owner = run
    BY <1>9, <1>11, <2>1 DEF Sound, Waited
  <2>4. QED
    BY <1>9, <2>1, <2>2, <2>3 DEF Sound, Waited
<1>17. Audience(t, {})
  <2>1. t.phase = s.phase
    BY <1>8 DEF KeptBut, Fields
  <2>2. \A i \in Live(t) : /\ t.caller[i] \in {"waiting", "gone", "handed"}
                           /\ t.caller[i] = "waiting" /\ ~t.req[i].background
                                => i \notin t.handle_only
    BY <1>8, <1>9, <1>11 DEF Sound, Audience
  <2>3. t.phase # "exited" => t.handle_only \subseteq Started(t)
    BY <1>8, <1>9, <2>1 DEF Sound, Audience
  <2>4. \A i \in t.done.has :
          /\ t.caller[i] = "final" /\ ~t.req[i].background => i \notin t.surfaced
          /\ t.caller[i] \in {"handed", "gone"} /\ t.req[i].surface
               => i \in UNION {t.aborted, t.killed, t.surfaced, t.told}
    BY <1>8, <1>11 DEF Sound, Audience
  <2>5. QED
    BY <2>2, <2>3, <2>4 DEF Audience
<1>18. Sound(t, {}, B)
  BY <1>12, <1>13, <1>14, <1>15, <1>16, <1>17 DEF Sound
<1>19. QED
  BY <1>18 DEF t

-----------------------------------------------------------------------------
(***************************************************************************)
(* Spawns                                                                  *)
(***************************************************************************)

\* Fewer sessions are closed than was prepared for.
LEMMA SoundNarrow ==
  ASSUME NEW s, NEW R, NEW B, Sound(s, R, B)
  PROVE  Sound(s, R, s.blocked)
BY DEF Sound, Closed

\* A new subagent with its caller, in no place yet.
LEMMA AcceptSound ==
  ASSUME NEW s, NEW B, Sound(s, {}, B), s.phase # "exited", NEW id \in Ids,
         id \notin Live(s) \union s.done.has \union s.buffer.has,
         NEW r, DOMAIN r = RequestFields, NEW t, t = Accept(s, id, r)
  PROVE  /\ Sound(t, {id}, B) /\ t.req[id] = r /\ id \notin t.handle_only /\ id \in t.reply
         /\ id \notin Live(t)
<1> DEFINE req == [s.req EXCEPT ![id] = r]
           caller == [s.caller EXCEPT ![id] = "waiting"]
           deadline == IF AwaitsInForeground(r) THEN s.deadline \union {id} ELSE s.deadline
<1>1. /\ KeptBut(s, t, {"req", "caller", "reply", "deadline"})
      /\ t.req = req /\ t.caller = caller /\ t.reply = s.reply \union {id} /\ t.deadline = deadline
  BY DEF Accept, KeptBut, Fields, Sound, Shaped
<1>2. /\ DOMAIN req = Ids /\ req[id] = r /\ \A i \in Ids \ {id} : req[i] = s.req[i]
      /\ DOMAIN caller = Ids /\ caller[id] = "waiting"
      /\ \A i \in Ids \ {id} : caller[i] = s.caller[i]
  BY DEF Sound, Shaped
<1>3. s.deadline \subseteq deadline /\ (AwaitsInForeground(r) => id \in deadline)
  OBVIOUS
<1> HIDE DEF req, caller, deadline
<1>4. Live(t) = Live(s) /\ Started(t) = Started(s) /\ Started(s) \subseteq Live(s)
  BY <1>1 DEF Live, Started, KeptBut, Fields
<1>5. Live(s) \subseteq Ids \ {id} /\ s.done.has \subseteq Ids \ {id}
  BY DEF Sound, Shaped
<1>6. /\ \A i \in Live(s) \union s.done.has : t.req[i] = s.req[i] /\ t.caller[i] = s.caller[i]
      /\ t.req[id] = r /\ t.caller[id] = "waiting"
  BY <1>1, <1>2, <1>5
<1>7. id \notin s.torn /\ id \notin s.surfaced /\ id \notin s.handle_only
  BY <1>4 DEF Sound, Silent, Audience
<1>8. Shaped(t, {id})
  BY <1>1, <1>2, <1>4 DEF Sound, Shaped, KeptBut, Fields
<1>9. Housed(t, {id})
  BY <1>1, <1>4 DEF Sound, Housed, KeptBut, Fields
<1>10. Closed(t, {id}, B)
  <2>1. t.blocked = s.blocked /\ t.drains = s.drains /\ t.cancelled = s.cancelled
    BY <1>1 DEF KeptBut, Fields
  <2>2. QED
    BY <1>4, <1>6, <2>1 DEF Sound, Closed
<1>11. Silent(t, {id})
  BY <1>1, <1>4, <1>6, <1>7 DEF Sound, Silent, KeptBut, Fields
<1>12. Waited(t, {id})
  <2>1. t.waiter = s.waiter /\ t.run_waiters = s.run_waiters
    BY <1>1 DEF KeptBut, Fields
  <2>2. ASSUME NEW i \in Ids, t.caller[i] = "waiting"
        PROVE  /\ i \in t.reply /\ i \in Live(t) \union {id}
               /\ AwaitsInForeground(t.req[i]) => i \in t.deadline
    <3>1. CASE i = id
      BY <1>1, <1>3, <1>6, <3>1
    <3>2. CASE i # id
      <4>1. t.req[i] = s.req[i] /\ s.caller[i] = "waiting"
        BY <1>1, <1>2, <2>2, <3>2
      <4>2. QED
        BY <1>1, <1>3, <1>4, <4>1 DEF Sound, Waited
    <3>3. QED
      BY <3>1, <3>2
  <2>3. \A run \in t.run_waiters : \E i \in Started(t) : t.req[i].owner = run
    BY <1>4, <1>6, <2>1 DEF Sound, Waited
  <2>4. QED
    BY <1>4, <2>1, <2>2, <2>3 DEF Sound, Waited
<1>13. Audience(t, {id})
  <2>1. /\ t.handle_only = s.handle_only /\ t.done = s.done /\ t.aborted = s.aborted
        /\ t.killed = s.killed /\ t.told = s.told /\ t.surfaced = s.surfaced /\ t.phase = s.phase
    BY <1>1 DEF KeptBut, Fields
  <2>2. QED
    BY <1>4, <1>6, <1>7, <2>1 DEF Sound, Audience
<1>14. QED
  BY <1>1, <1>2, <1>4, <1>7, <1>8, <1>9, <1>10, <1>11, <1>12, <1>13 DEF Sound, KeptBut, Fields

\* It is started.
LEMMA StartSound ==
  ASSUME NEW s, NEW B, NEW id, Sound(s, {id}, B), id \notin Live(s), id \in s.reply,
         (s.req[id].session \in B => IsWorkflow(s.req[id]))
  PROVE  Sound(StartChild(s, {id}), {}, B)
<1> DEFINE t == StartChild(s, {id})
<1>1. /\ KeptBut(s, t, {"pending", "handle_only", "killed"})
      /\ t.pending = s.pending \union {id} /\ t.killed = s.killed \ {id}
      /\ t.handle_only = s.handle_only \union
                           {i \in {id} : s.req[i].background \/ i \notin s.reply}
  BY DEF StartChild, KeptBut, Fields, Sound, Shaped
<1> HIDE DEF t
<1>2. /\ Live(t) = Live(s) \union {id} /\ Started(t) = Started(s) \union {id}
      /\ id \notin s.queue.has /\ id \notin s.active
  BY <1>1 DEF Live, Started, KeptBut, Fields
<1>3. Shaped(t, {}) /\ Silent(t, {})
  BY <1>1, <1>2 DEF Sound, Shaped, Silent, KeptBut, Fields
<1>4. Housed(t, {})
  BY <1>1, <1>2 DEF Sound, Housed, KeptBut, Fields
<1>5. Closed(t, {}, B)
  BY <1>1, <1>2 DEF Sound, Closed, KeptBut, Fields
<1>6. Waited(t, {})
  BY <1>1, <1>2 DEF Sound, Waited, KeptBut, Fields
<1>7. Audience(t, {})
  <2>1. id \notin s.done.has
    BY DEF Sound, Housed
  <2>2. QED
    BY <1>1, <1>2, <2>1 DEF Sound, Audience, KeptBut, Fields
<1>8. Sound(t, {}, B)
  BY <1>3, <1>4, <1>5, <1>6, <1>7 DEF Sound
<1>9. QED
  BY <1>8 DEF t

\* It is queued.
LEMMA EnqueueSound ==
  ASSUME NEW s, NEW B, NEW id, Sound(s, {id}, B), id \notin Live(s), id \notin s.handle_only,
         (s.req[id].session \in B => IsWorkflow(s.req[id])), NEW ahead
  PROVE  Sound([s EXCEPT !.queue = Behind(@, {id}, ahead)], {}, B)
<1> DEFINE t == [s EXCEPT !.queue = Behind(@, {id}, ahead)]
           line == Behind(s.queue, {id}, ahead)
<1>1. line.has = s.queue.has \union {id}
  BY LineFacts
<1> HIDE DEF line
<1>2. KeptBut(s, t, {"queue"}) /\ t.queue = line
  BY DEF KeptBut, Fields, Sound, Shaped, line
<1> HIDE DEF t
<1>3. Live(t) = Live(s) \union {id} /\ Started(t) = Started(s) /\ id \notin Started(s)
  BY <1>1, <1>2 DEF Live, Started, KeptBut, Fields
<1>4. Shaped(t, {}) /\ Silent(t, {})
  BY <1>2, <1>3 DEF Sound, Shaped, Silent, KeptBut, Fields
<1>5. Housed(t, {})
  BY <1>1, <1>2, <1>3 DEF Sound, Housed, KeptBut, Fields
<1>6. Closed(t, {}, B)
  BY <1>2, <1>3 DEF Sound, Closed, KeptBut, Fields
<1>7. Waited(t, {})
  BY <1>2, <1>3 DEF Sound, Waited, KeptBut, Fields
<1>8. Audience(t, {})
  BY <1>2, <1>3 DEF Sound, Audience, KeptBut, Fields
<1>9. Sound(t, {}, B)
  BY <1>4, <1>5, <1>6, <1>7, <1>8 DEF Sound
<1>10. QED
  BY <1>9 DEF t

\* handle_spawn
LEMMA SpawnSound ==
  ASSUME NEW s, NEW B, Sound(s, {}, B), s.phase # "exited", NEW id \in Ids, NEW session, NEW kind,
         id \in Live(s) \union s.done.has \/ id \notin s.buffer.has
  PROVE  \E C : Sound(HandleSpawn(s, id, session, kind), {}, C)
<1> DEFINE r == Reparent(s, session, kind)
           t == Accept(s, id, r)
           nobody == [i \in Ids |-> {}]
<1>1. CASE Refused(s, id, session, r)
  <2>1. HandleSpawn(s, id, session, kind) = s
    BY <1>1 DEF HandleSpawn
  <2>2. QED
    BY <2>1
<1>2. CASE ~Refused(s, id, session, r)
  <2> DEFINE C == s.blocked
  <2>1. Sound(s, {}, C)
    BY SoundNarrow
  <2>2. DOMAIN r = RequestFields
    BY DEF Reparent, RequestFields
  <2>3. /\ id \notin Live(s) \union s.done.has \union s.buffer.has
        /\ r.session \in C => IsWorkflow(r)
    BY <1>2 DEF Refused
  <2>4. HandleSpawn(s, id, session, kind) \in
          {StartChild(t, {id}), [t EXCEPT !.queue = Behind(@, {id}, nobody)],
           Sweep(FinishNeverStarted(t, {id}, nobody, {}))}
    <3>1. HandleSpawn(s, id, session, kind) =
            CASE Admit(s, r) = "start"   -> StartChild(t, {id})
              [] Admit(s, r) = "enqueue" -> [t EXCEPT !.queue = Behind(@, {id}, nobody)]
              [] Admit(s, r) = "reject"  -> Sweep(FinishNeverStarted(t, {id}, nobody, {}))
      BY <1>2 DEF HandleSpawn
    <3>2. Admit(s, r) \in {"start", "enqueue", "reject"}
      BY DEF Admit
    <3> HIDE DEF r, t, nobody
    <3>3. QED
      BY <3>1, <3>2
  <2> HIDE DEF r, C, nobody
  <2>5. /\ Sound(t, {id}, C) /\ t.req[id] = r /\ id \notin t.handle_only /\ id \in t.reply
        /\ id \notin Live(t)
    BY <2>1, <2>2, <2>3, AcceptSound
  <2> HIDE DEF t
  <2>6. Sound(StartChild(t, {id}), {}, C)
    BY <2>3, <2>5, StartSound
  <2>7. Sound([t EXCEPT !.queue = Behind(@, {id}, nobody)], {}, C)
    BY <2>3, <2>5, EnqueueSound
  <2>8. Sound(Sweep(FinishNeverStarted(t, {id}, nobody, {})), {}, C)
    <3>1. {id} \intersect t.queue.has = {}
      BY <2>5 DEF Live
    <3>2. Sound(FinishNeverStarted(t, {id}, nobody, {}), {}, C)
      BY <2>5, <3>1, NeverStartedSound
    <3>3. QED
      BY <3>2, SweepSound
  <2>9. Sound(HandleSpawn(s, id, session, kind), {}, C)
    BY <2>4, <2>6, <2>7, <2>8
  <2>10. QED
    BY <2>9
<1>3. QED
  BY <1>1, <1>2

-----------------------------------------------------------------------------
(***************************************************************************)
(* The other commands                                                      *)
(***************************************************************************)

\* What no part of the strengthening reads, or reads one way only.
LEMMA UnreadSound ==
  ASSUME NEW s, NEW R, NEW B, Sound(s, R, B), NEW t,
         KeptBut(s, t, {"progress", "lost", "ran", "killed"}), s.killed \subseteq t.killed
  PROVE  Sound(t, R, B)
<1>1. Live(t) = Live(s) /\ Started(t) = Started(s)
  BY DEF Live, Started, KeptBut, Fields
<1>2. Shaped(t, R) /\ Housed(t, R) /\ Silent(t, R)
  BY <1>1 DEF Sound, Shaped, Housed, Silent, KeptBut, Fields
<1>3. Closed(t, R, B)
  BY <1>1 DEF Sound, Closed, KeptBut, Fields
<1>4. Waited(t, R)
  BY <1>1 DEF Sound, Waited, KeptBut, Fields
<1>5. Audience(t, R)
  BY <1>1 DEF Sound, Audience, KeptBut, Fields
<1>6. QED
  BY <1>2, <1>3, <1>4, <1>5 DEF Sound

\* Queries come and go; one that waits, waits for a live subagent.
LEMMA WaitersSound ==
  ASSUME NEW s, NEW B, Sound(s, {}, B), NEW t, KeptBut(s, t, {"waiter", "progress", "lost"}),
         DOMAIN t.waiter = Queries,
         \A q \in Queries : t.waiter[q] \in {s.waiter[q], None} \/ t.waiter[q] \in Live(s)
  PROVE  Sound(t, {}, B)
<1>1. Live(t) = Live(s) /\ Started(t) = Started(s)
  BY DEF Live, Started, KeptBut, Fields
<1>2. Shaped(t, {}) /\ Housed(t, {}) /\ Silent(t, {})
  BY <1>1 DEF Sound, Shaped, Housed, Silent, KeptBut, Fields
<1>3. Closed(t, {}, B)
  BY <1>1 DEF Sound, Closed, KeptBut, Fields
<1>4. Waited(t, {})
  BY <1>1 DEF Sound, Waited, KeptBut, Fields
<1>5. Audience(t, {})
  BY <1>1 DEF Sound, Audience, KeptBut, Fields
<1>6. QED
  BY <1>2, <1>3, <1>4, <1>5 DEF Sound

\* handle_query and handle_inspect
LEMMA QuerySound ==
  ASSUME NEW s, NEW B, Sound(s, {}, B), NEW q \in Queries, NEW id, NEW scope, NEW how
  PROVE  Sound(HandleQuery(s, q, id, scope, how), {}, B)
<1>1. CASE id \in Live(s)
  <2> DEFINE t == [s EXCEPT !.waiter[q] = id]
             u == [s EXCEPT !.progress[q] = id]
  <2>1. HandleQuery(s, q, id, scope, how) \in {s, t, u}
    BY DEF HandleQuery
  <2>2. /\ KeptBut(s, t, {"waiter", "progress", "lost"}) /\ DOMAIN t.waiter = Queries
        /\ \A x \in Queries : t.waiter[x] = IF x = q THEN id ELSE s.waiter[x]
    BY DEF KeptBut, Fields, Sound, Shaped
  <2>3. KeptBut(s, u, {"progress", "lost", "ran", "killed"}) /\ s.killed = u.killed
    BY DEF KeptBut, Fields, Sound, Shaped
  <2> HIDE DEF t, u
  <2>4. Sound(t, {}, B)
    BY <1>1, <2>2, WaitersSound
  <2>5. Sound(u, {}, B)
    BY <2>3, UnreadSound
  <2>6. QED
    BY <2>1, <2>4, <2>5
<1>2. CASE id \notin Live(s)
  BY <1>2 DEF HandleQuery
<1>3. QED
  BY <1>1, <1>2

\* The cancelling commands, once the subagents in R that are queued may leave.
LEMMA CancelAllSound ==
  ASSUME NEW s, NEW R, NEW B,
         Sound([s EXCEPT !.cancelled = @ \union (R \intersect Started(s))],
               R \intersect s.queue.has, B)
  PROVE  /\ Sound(CancelAll(s, R), {}, B)
         /\ CancelAll(s, R).phase = s.phase
<1> DEFINE t == [s EXCEPT !.cancelled = @ \union (R \intersect Started(s))]
           Q == R \intersect s.queue.has
<1>1. CancelAll(s, R) = RemoveQueued(t, Q)
  BY DEF CancelAll
<1>2. Sound(t, Q, B)
  OBVIOUS
<1>3. t.phase = s.phase
  BY DEF Sound, Shaped, Fields
<1> HIDE DEF t, Q
<1>4. Sound(RemoveQueued(t, Q), {}, B) /\ Tracked(t, Q, RemoveQueued(t, Q), {})
  BY <1>2, RemoveQueuedSound
<1>5. QED
  BY <1>1, <1>3, <1>4 DEF Tracked

LEMMA CancelSomeSound ==
  ASSUME NEW s, NEW B, Sound(s, {}, B), NEW R
  PROVE  Sound(CancelAll(s, R), {}, B)
<1> DEFINE t == [s EXCEPT !.cancelled = @ \union (R \intersect Started(s))]
           Q == R \intersect s.queue.has
<1>1. Sound(s, Q, B)
  BY SoundLeaving DEF Live
<1>2. Sound(t, Q, B)
  BY <1>1, TokenSound
<1>3. QED
  BY <1>2, CancelAllSound

\* cancel_one
LEMMA CancelOneSound ==
  ASSUME NEW s, NEW B, Sound(s, {}, B), NEW id, NEW scope
  PROVE  Sound(CancelOne(s, id, scope), {}, B)
<1> DEFINE t == [s EXCEPT !.killed = @ \union ({id} \intersect Started(s))]
<1>1. CancelOne(s, id, scope) \in {s, CancelAll(t, {id})}
  BY DEF CancelOne
<1>2. KeptBut(s, t, {"progress", "lost", "ran", "killed"}) /\ s.killed \subseteq t.killed
  BY DEF KeptBut, Fields, Sound, Shaped
<1> HIDE DEF t
<1>3. Sound(t, {}, B)
  BY <1>2, UnreadSound
<1>4. Sound(CancelAll(t, {id}), {}, B)
  BY <1>3, CancelSomeSound
<1>5. QED
  BY <1>1, <1>4

\* cancel_parent_session: every Task spawn of the session is cancelled or leaves the queue,
\* so that the session can be closed.
LEMMA StopSound ==
  ASSUME NEW s, NEW B, Sound(s, {}, B), NEW scope
  PROVE  \E C : Sound(Stop(s, scope), {}, C)
<1>1. CASE scope = None
  BY <1>1 DEF Stop
<1>2. CASE scope # None
  <2> DEFINE t == [s EXCEPT !.blocked = @ \union {scope}]
             R == {i \in Live(s) : s.req[i].session = scope /\ ~IsWorkflow(s.req[i])}
             u == [t EXCEPT !.cancelled = @ \union (R \intersect Started(t))]
             Q == R \intersect t.queue.has
             C == B \union {scope}
  <2>1. Stop(s, scope) = CancelAll(t, R)
    BY <1>2 DEF Stop
  <2>2. KeptBut(s, t, {"blocked"}) /\ t.blocked = s.blocked \union {scope}
    BY DEF KeptBut, Fields, Sound, Shaped
  <2>3. Q \subseteq Live(s) /\ Q \subseteq s.queue.has /\ R \intersect s.queue.has \subseteq Q
    BY <2>2 DEF KeptBut, Fields, Live
  <2>4. Started(t) = Started(s)
    BY <2>2 DEF Started, KeptBut, Fields
  <2> HIDE DEF t
  <2>5. /\ KeptBut(s, u, {"blocked", "cancelled"}) /\ u.blocked = s.blocked \union {scope}
        /\ u.cancelled = s.cancelled \union (R \intersect Started(s))
    BY <2>2, <2>4 DEF KeptBut, Fields
  <2>6. \A i \in Live(s) \ Q : (s.req[i].session = scope /\ ~IsWorkflow(s.req[i]))
                                 => i \in R \intersect Started(s)
    BY <2>3 DEF Live
  <2> HIDE DEF u, Q, R
  <2>7. Sound(s, Q, B)
    BY <2>3, SoundLeaving
  <2>8. Live(u) = Live(s) /\ Started(u) = Started(s)
    BY <2>5 DEF Live, Started, KeptBut, Fields
  <2>9. Shaped(u, Q) /\ Housed(u, Q) /\ Silent(u, Q)
    BY <2>5, <2>7, <2>8 DEF Sound, Shaped, Housed, Silent, KeptBut, Fields
  <2>10. Closed(u, Q, C)
    BY <2>5, <2>6, <2>7, <2>8 DEF Sound, Closed, KeptBut, Fields
  <2>11. Waited(u, Q) /\ Audience(u, Q)
    BY <2>5, <2>7, <2>8 DEF Sound, Waited, Audience, KeptBut, Fields
  <2>12. Sound(u, Q, C)
    BY <2>9, <2>10, <2>11 DEF Sound
  <2>13. Sound(CancelAll(t, R), {}, C)
    BY <2>12, CancelAllSound DEF u, Q
  <2>14. QED
    BY <2>1, <2>13
<1>3. QED
  BY <1>1, <1>2

\* cancel_workflow_children: a cancel waits only for a run that has a child.
LEMMA CancelRunSound ==
  ASSUME NEW s, NEW B, Sound(s, {}, B), NEW run, NEW scope
  PROVE  Sound(CancelRun(s, run, scope), {}, B)
<1> DEFINE R == {i \in WorkflowOutstanding(s, run) : BelongsToSession(s.req[i], scope)}
           t == CancelRun(s, run, scope)
<1>1. /\ KeptBut(s, t, {"cancelled", "run_waiters"}) /\ t.cancelled = s.cancelled \union R
      /\ t.run_waiters = IF WorkflowOutstanding(s, run) = {} THEN s.run_waiters
                         ELSE s.run_waiters \union {run}
  BY DEF CancelRun, KeptBut, Fields, Sound, Shaped
<1> HIDE DEF t, R
<1>2. \A x \in t.run_waiters \ s.run_waiters : \E i \in Started(s) : s.req[i].owner = x
  BY <1>1 DEF WorkflowOutstanding
<1>3. Live(t) = Live(s) /\ Started(t) = Started(s)
  BY <1>1 DEF Live, Started, KeptBut, Fields
<1>4. Shaped(t, {}) /\ Housed(t, {}) /\ Silent(t, {})
  BY <1>1, <1>3 DEF Sound, Shaped, Housed, Silent, KeptBut, Fields
<1>5. Closed(t, {}, B)
  BY <1>1, <1>3 DEF Sound, Closed, KeptBut, Fields
<1>6. Waited(t, {})
  BY <1>1, <1>2, <1>3 DEF Sound, Waited, KeptBut, Fields
<1>7. Audience(t, {})
  BY <1>1, <1>3 DEF Sound, Audience, KeptBut, Fields
<1>8. Sound(t, {}, B)
  BY <1>4, <1>5, <1>6, <1>7 DEF Sound
<1>9. QED
  BY <1>8 DEF t

\* Summaries leave the buffer.
LEMMA TakeSound ==
  ASSUME NEW s, NEW B, Sound(s, {}, B), NEW E,
         NEW t, t = [s EXCEPT !.buffer = Without(@, E)]
  PROVE  Sound(t, {}, B) /\ KeptBut(s, t, {"buffer"})
<1> DEFINE line == Without(s.buffer, E)
<1>1. line.has \subseteq s.buffer.has
  BY DEF Without
<1> HIDE DEF line
<1>2. KeptBut(s, t, {"buffer"}) /\ t.buffer = line
  BY DEF KeptBut, Fields, Sound, Shaped, line
<1>3. Live(t) = Live(s) /\ Started(t) = Started(s)
  BY <1>2 DEF Live, Started, KeptBut, Fields
<1>4. Shaped(t, {}) /\ Housed(t, {})
  BY <1>2, <1>3 DEF Sound, Shaped, Housed, KeptBut, Fields
<1>5. Silent(t, {})
  BY <1>1, <1>2, <1>3 DEF Sound, Silent, KeptBut, Fields
<1>6. Closed(t, {}, B)
  BY <1>2, <1>3 DEF Sound, Closed, KeptBut, Fields
<1>7. Waited(t, {}) /\ Audience(t, {})
  BY <1>2, <1>3 DEF Sound, Waited, Audience, KeptBut, Fields
<1>8. QED
  BY <1>2, <1>4, <1>5, <1>6, <1>7 DEF Sound

\* A request that is told not to surface is otherwise the same.
LEMMA MutedRequest ==
  ASSUME NEW r, DOMAIN r = RequestFields, NEW v, NEW m, m = [r EXCEPT !.surface = v]
  PROVE  /\ DOMAIN m = RequestFields /\ m.session = r.session /\ m.owner = r.owner
         /\ m.background = r.background /\ m.to_completion = r.to_completion
         /\ m.surface = v
BY DEF RequestFields

\* teardown_session_children
LEMMA TeardownChildrenSound ==
  ASSUME NEW s, NEW B, Sound(s, {}, B), NEW p
  PROVE  /\ \E C : p \in C /\ Sound(TeardownChildren(s, p), {}, C)
         /\ TeardownChildren(s, p).phase = s.phase
<1> DEFINE R == {i \in Live(s) : s.req[i].session = p}
           req == [i \in Ids |-> IF i \in R THEN [s.req[i] EXCEPT !.surface = FALSE] ELSE s.req[i]]
           t == [s EXCEPT !.req = req, !.torn = @ \union R]
           u == [t EXCEPT !.cancelled = @ \union (R \intersect Started(t))]
           Q == R \intersect t.queue.has
           C == B \union {p}
<1>1. TeardownChildren(s, p) = CancelAll(t, R)
  BY DEF TeardownChildren
<1>2. /\ DOMAIN req = Ids
      /\ \A i \in Ids : DOMAIN req[i] = RequestFields /\ req[i].session = s.req[i].session
      /\ \A i \in Ids : req[i].owner = s.req[i].owner /\ req[i].background = s.req[i].background
      /\ \A i \in Ids : req[i].to_completion = s.req[i].to_completion
      /\ \A i \in R : ~req[i].surface
      /\ \A i \in Ids \ R : req[i] = s.req[i]
  <2>1. \A i \in R : /\ DOMAIN req[i] = RequestFields /\ req[i].session = s.req[i].session
                     /\ req[i].owner = s.req[i].owner /\ req[i].background = s.req[i].background
                     /\ req[i].to_completion = s.req[i].to_completion /\ req[i].surface = FALSE
    <3> SUFFICES ASSUME NEW i \in R
                 PROVE  /\ DOMAIN req[i] = RequestFields /\ req[i].session = s.req[i].session
                        /\ req[i].owner = s.req[i].owner
                        /\ req[i].background = s.req[i].background
                        /\ req[i].to_completion = s.req[i].to_completion /\ req[i].surface = FALSE
      OBVIOUS
    <3>1. i \in Ids /\ DOMAIN s.req[i] = RequestFields
      BY DEF Sound, Shaped
    <3>2. req[i] = [s.req[i] EXCEPT !.surface = FALSE]
      BY <3>1
    <3> HIDE DEF req
    <3>3. QED
      BY <3>1, <3>2, MutedRequest
  <2>2. \A i \in Ids \ R : req[i] = s.req[i] /\ DOMAIN s.req[i] = RequestFields
    BY DEF Sound, Shaped
  <2>3. DOMAIN req = Ids
    OBVIOUS
  <2> HIDE DEF req, R
  <2>4. QED
    BY <2>1, <2>2, <2>3
<1>3. R \subseteq Live(s) /\ R \subseteq Ids
  BY DEF Sound, Shaped
<1> HIDE DEF req
<1>4. KeptBut(s, t, {"req", "torn"}) /\ t.req = req /\ t.torn = s.torn \union R
  BY DEF KeptBut, Fields, Sound, Shaped
<1>5. Q \subseteq Live(s) /\ Q \subseteq s.queue.has /\ R \intersect s.queue.has \subseteq Q
  BY <1>4 DEF KeptBut, Fields, Live
<1>6. Started(t) = Started(s) /\ t.phase = s.phase
  BY <1>4 DEF Started, KeptBut, Fields
<1> HIDE DEF t
<1>7. /\ KeptBut(s, u, {"req", "torn", "cancelled"}) /\ u.req = req /\ u.torn = s.torn \union R
      /\ u.cancelled = s.cancelled \union (R \intersect Started(s))
  BY <1>4, <1>6 DEF KeptBut, Fields
<1>8. \A i \in Live(s) \ Q : s.req[i].session = p => i \in R \intersect Started(s)
  BY <1>5 DEF Live
<1> HIDE DEF u, Q, R
<1>9. Sound(s, Q, B)
  BY <1>5, SoundLeaving
<1>10. Live(u) = Live(s) /\ Started(u) = Started(s) /\ Live(s) \union Q \subseteq Ids
       /\ s.done.has \subseteq Ids \ R /\ Started(s) \subseteq Ids
  BY <1>3, <1>5, <1>7, <1>9 DEF Live, Started, KeptBut, Fields, Sound, Shaped, Housed
<1>11. Shaped(u, Q) /\ Housed(u, Q)
  BY <1>2, <1>7, <1>9, <1>10 DEF Sound, Shaped, Housed, KeptBut, Fields
<1>12. Silent(u, Q)
  <2>1. \A i \in u.torn \intersect (Live(u) \union Q) : ~u.req[i].surface
    BY <1>2, <1>7, <1>9, <1>10 DEF Sound, Silent, KeptBut, Fields
  <2>2. u.torn \intersect (u.buffer.has \union u.surfaced) = {}
    BY <1>3, <1>7, <1>9, <1>10 DEF Sound, Silent, Housed, KeptBut, Fields
  <2>3. QED
    BY <1>3, <1>7, <1>9, <1>10, <2>1, <2>2 DEF Sound, Silent, KeptBut, Fields
<1>13. Closed(u, Q, C)
  <2>1. \A i \in Live(u) \ Q : (u.req[i].session \in C /\ ~IsWorkflow(u.req[i]))
                                 => i \in u.cancelled \intersect Started(u)
    BY <1>2, <1>7, <1>8, <1>9, <1>10 DEF Sound, Closed, KeptBut, Fields, IsWorkflow
  <2>2. \A x \in u.drains : x \in u.blocked /\ \E i \in Live(u) \union Q : u.req[i].session = x
    BY <1>2, <1>7, <1>9, <1>10 DEF Sound, Closed, KeptBut, Fields
  <2>3. u.blocked \subseteq C
    BY <1>7, <1>9 DEF Sound, Closed, KeptBut, Fields
  <2>4. QED
    BY <2>1, <2>2, <2>3 DEF Closed
<1>14. Waited(u, Q)
  BY <1>2, <1>7, <1>9, <1>10 DEF Sound, Waited, KeptBut, Fields, AwaitsInForeground
<1>15. Audience(u, Q)
  <2>1. \A i \in Live(u) \union Q :
          u.caller[i] = "waiting" /\ ~u.req[i].background => i \notin u.handle_only
    BY <1>2, <1>7, <1>9, <1>10 DEF Sound, Audience, KeptBut, Fields
  <2>2. \A i \in u.done.has : u.req[i] = s.req[i]
    BY <1>2, <1>7, <1>10 DEF KeptBut, Fields
  <2>3. QED
    BY <1>7, <1>9, <1>10, <2>1, <2>2 DEF Sound, Audience, KeptBut, Fields
<1>16. Sound(u, Q, C)
  BY <1>11, <1>12, <1>13, <1>14, <1>15 DEF Sound
<1>17. Sound(CancelAll(t, R), {}, C) /\ CancelAll(t, R).phase = t.phase
  BY <1>16, CancelAllSound DEF u, Q
<1>18. p \in C
  OBVIOUS
<1>19. QED
  BY <1>1, <1>6, <1>17, <1>18

\* TeardownSession
LEMMA TeardownSound ==
  ASSUME NEW s, NEW B, Sound(s, {}, B), NEW p, NEW respond
  PROVE  \E C : Sound(Teardown(s, p, respond), {}, C)
<1> DEFINE E == {i \in s.buffer.has : s.req[i].session = p}
           purged == [s EXCEPT !.buffer = Without(@, E)]
           t == TeardownChildren(purged, p)
           u == [t EXCEPT !.blocked = @ \union {p}, !.drains = @ \union {p}]
<1>1. Teardown(s, p, respond) = IF respond /\ SessionHasChildren(t, p) THEN u ELSE t
  BY DEF Teardown
<1>2. Sound(purged, {}, B)
  BY TakeSound
<1> HIDE DEF purged
<1>3. PICK C : p \in C /\ Sound(t, {}, C)
  BY <1>2, TeardownChildrenSound
<1> HIDE DEF t
<1>4. CASE SessionHasChildren(t, p)
  <2>1. KeptBut(t, u, {"blocked", "drains"}) /\ u.blocked = t.blocked \union {p}
        /\ u.drains = t.drains \union {p}
    BY <1>3 DEF KeptBut, Fields, Sound, Shaped
  <2> HIDE DEF u
  <2>2. Live(u) = Live(t) /\ Started(u) = Started(t)
    BY <2>1 DEF Live, Started, KeptBut, Fields
  <2>3. Shaped(u, {}) /\ Housed(u, {}) /\ Silent(u, {})
    BY <1>3, <2>1, <2>2 DEF Sound, Shaped, Housed, Silent, KeptBut, Fields
  <2>4. Closed(u, {}, C)
    BY <1>3, <1>4, <2>1, <2>2 DEF Sound, Closed, KeptBut, Fields, SessionHasChildren
  <2>5. Waited(u, {}) /\ Audience(u, {})
    BY <1>3, <2>1, <2>2 DEF Sound, Waited, Audience, KeptBut, Fields
  <2>6. Sound(u, {}, C)
    BY <2>3, <2>4, <2>5 DEF Sound
  <2>7. QED
    BY <1>1, <1>3, <2>6
<1>5. CASE ~SessionHasChildren(t, p)
  BY <1>1, <1>3, <1>5
<1>6. QED
  BY <1>4, <1>5

\* Sessions reopen, unless a delete still drains.
LEMMA ReopenSound ==
  ASSUME NEW s, NEW B, Sound(s, {}, B), NEW t, KeptBut(s, t, {"blocked", "drains"}),
         t.blocked \subseteq s.blocked, t.drains \subseteq s.drains,
         t.drains \intersect (s.blocked \ t.blocked) = {}
  PROVE  Sound(t, {}, B)
<1>1. Live(t) = Live(s) /\ Started(t) = Started(s)
  BY DEF Live, Started, KeptBut, Fields
<1>2. Shaped(t, {}) /\ Housed(t, {}) /\ Silent(t, {})
  BY <1>1 DEF Sound, Shaped, Housed, Silent, KeptBut, Fields
<1>3. Closed(t, {}, B)
  BY <1>1 DEF Sound, Closed, KeptBut, Fields
<1>4. Waited(t, {}) /\ Audience(t, {})
  BY <1>1 DEF Sound, Waited, Audience, KeptBut, Fields
<1>5. QED
  BY <1>2, <1>3, <1>4 DEF Sound

\* OpenSpawnAdmission
LEMMA OpenSound ==
  ASSUME NEW s, NEW B, Sound(s, {}, B), NEW p
  PROVE  Sound(OpenAdmission(s, p), {}, B)
<1> DEFINE t == [s EXCEPT !.blocked = @ \ {p}]
<1>1. OpenAdmission(s, p) = IF p \in s.drains THEN s ELSE t
  BY DEF OpenAdmission
<1>2. KeptBut(s, t, {"blocked", "drains"}) /\ t.blocked = s.blocked \ {p} /\ t.drains = s.drains
  BY DEF KeptBut, Fields, Sound, Shaped
<1> HIDE DEF t
<1>3. p \notin s.drains => Sound(t, {}, B)
  BY <1>2, ReopenSound
<1>4. QED
  BY <1>1, <1>3

-----------------------------------------------------------------------------
(***************************************************************************)
(* The actor's other wake-ups, its end, and its peers                      *)
(***************************************************************************)

\* A pending child becomes active.
LEMMA ReportSound ==
  ASSUME NEW s, NEW B, Sound(s, {}, B), NEW id \in s.pending,
         NEW t, t = [s EXCEPT !.pending = @ \ {id}, !.active = @ \union {id},
                              !.ran = @ \union {id}]
  PROVE  Sound(t, {}, B)
<1>1. /\ KeptBut(s, t, {"pending", "active", "ran"})
      /\ t.pending = s.pending \ {id} /\ t.active = s.active \union {id}
  BY DEF KeptBut, Fields, Sound, Shaped
<1>2. Live(t) = Live(s) /\ Started(t) = Started(s)
  BY <1>1 DEF Live, Started, KeptBut, Fields
<1>3. Shaped(t, {}) /\ Silent(t, {})
  BY <1>1, <1>2 DEF Sound, Shaped, Silent, KeptBut, Fields
<1>4. Housed(t, {})
  BY <1>1, <1>2 DEF Sound, Housed, KeptBut, Fields
<1>5. Closed(t, {}, B)
  BY <1>1, <1>2 DEF Sound, Closed, KeptBut, Fields
<1>6. Waited(t, {}) /\ Audience(t, {})
  BY <1>1, <1>2 DEF Sound, Waited, Audience, KeptBut, Fields
<1>7. QED
  BY <1>3, <1>4, <1>5, <1>6 DEF Sound

\* background_at_deadline: who is no longer waited for has been handed off.
LEMMA DeadlineSound ==
  ASSUME NEW s, NEW B, Sound(s, {}, B), NEW D
  PROVE  Sound(BackgroundAtDeadline(s, D), {}, B)
<1> DEFINE caller == [i \in Ids |-> IF i \in D \intersect s.reply /\ s.caller[i] = "waiting"
                                    THEN "handed" ELSE s.caller[i]]
           t == BackgroundAtDeadline(s, D)
<1>1. /\ DOMAIN caller = Ids
      /\ \A i \in Ids : caller[i] = IF i \in D \intersect s.reply /\ s.caller[i] = "waiting"
                                    THEN "handed" ELSE s.caller[i]
  OBVIOUS
<1> HIDE DEF caller
<1>2. /\ KeptBut(s, t, {"caller", "reply", "deadline", "handle_only"})
      /\ t.caller = caller /\ t.reply = s.reply \ D /\ t.deadline = s.deadline \ D
      /\ t.handle_only = s.handle_only \union (D \intersect Started(s))
  BY DEF BackgroundAtDeadline, KeptBut, Fields, Sound, Shaped, caller
<1> HIDE DEF t
<1>3. Live(t) = Live(s) /\ Started(t) = Started(s)
  BY <1>2 DEF Live, Started, KeptBut, Fields
<1>4. Shaped(t, {}) /\ Housed(t, {}) /\ Silent(t, {})
  BY <1>1, <1>2, <1>3 DEF Sound, Shaped, Housed, Silent, KeptBut, Fields
<1>5. Closed(t, {}, B)
  BY <1>2, <1>3 DEF Sound, Closed, KeptBut, Fields
<1>6. \A i \in Ids : t.caller[i] = "waiting" => s.caller[i] = "waiting" /\ i \notin D
  BY <1>1, <1>2 DEF Sound, Waited
<1>7. Waited(t, {})
  BY <1>2, <1>3, <1>6 DEF Sound, Waited, KeptBut, Fields
<1>8. Audience(t, {})
  <2>1. Live(s) \subseteq Ids /\ s.done.has \subseteq Ids \ Live(s)
    BY DEF Sound, Shaped, Housed
  <2>2. \A i \in Live(t) : t.caller[i] \in {"waiting", "gone", "handed"}
    BY <1>1, <1>2, <1>3, <2>1 DEF Sound, Audience
  <2>3. t.phase # "exited" => t.handle_only \subseteq Started(t)
    BY <1>2, <1>3 DEF Sound, Audience, KeptBut, Fields
  <2>4. \A i \in Live(t) :
          t.caller[i] = "waiting" /\ ~t.req[i].background => i \notin t.handle_only
    BY <1>2, <1>3, <1>6, <2>1 DEF Sound, Audience, KeptBut, Fields
  <2>5. \A i \in t.done.has : t.caller[i] = s.caller[i]
    <3>1. \A i \in s.done.has : s.caller[i] # "waiting"
      BY <2>1 DEF Sound, Waited
    <3>2. QED
      BY <1>1, <1>2, <2>1, <3>1 DEF KeptBut, Fields
  <2>6. QED
    BY <1>2, <2>2, <2>3, <2>4, <2>5 DEF Sound, Audience, KeptBut, Fields
<1>9. Sound(t, {}, B)
  BY <1>4, <1>5, <1>7, <1>8 DEF Sound
<1>10. QED
  BY <1>9 DEF t

\* Queries whose timeout is up stop waiting.
LEMMA QueriesDueSound ==
  ASSUME NEW s, NEW B, Sound(s, {}, B), NEW W
  PROVE  Sound(QueriesDue(s, W), {}, B)
<1> DEFINE waiter == [q \in Queries |-> IF q \in W THEN None ELSE s.waiter[q]]
           t == QueriesDue(s, W)
<1>1. DOMAIN waiter = Queries /\ \A q \in Queries : waiter[q] \in {s.waiter[q], None}
  OBVIOUS
<1> HIDE DEF waiter
<1>2. KeptBut(s, t, {"waiter", "progress", "lost"}) /\ t.waiter = waiter
  BY DEF QueriesDue, KeptBut, Fields, Sound, Shaped, waiter
<1> HIDE DEF t
<1>3. Sound(t, {}, B)
  BY <1>1, <1>2, WaitersSound
<1>4. QED
  BY <1>3 DEF t

\* process_deadlines
LEMMA TimerSound ==
  ASSUME NEW s, NEW B, Sound(s, {}, B), NEW D, NEW X, NEW t, NEW u,
         t = ClearTeardownDrain(s, X \intersect s.drains),
         u = BackgroundAtDeadline(t, D \intersect t.deadline)
  PROVE  \A W : Sound(QueriesDue(u, W), {}, B)
<1>1. /\ KeptBut(s, t, {"blocked", "drains"}) /\ t.blocked = s.blocked \ (X \intersect s.drains)
      /\ t.drains = s.drains \ (X \intersect s.drains)
  BY DEF ClearTeardownDrain, KeptBut, Fields, Sound, Shaped
<1>2. Sound(t, {}, B)
  BY <1>1, ReopenSound
<1>3. Sound(u, {}, B)
  BY <1>2, DeadlineSound
<1>4. QED
  BY <1>3, QueriesDueSound

\* Drop: nobody is left to wait.
LEMMA DroppedSound ==
  ASSUME NEW s, NEW B, Sound(s, {}, B)
  PROVE  Sound(Dropped(s), {}, B)
<1> DEFINE caller == [i \in Ids |-> IF i \in s.reply /\ s.caller[i] = "waiting"
                                    THEN IF i \in s.queue.has THEN "final" ELSE "closed"
                                    ELSE s.caller[i]]
           waiter == [q \in Queries |-> None]
           t == Dropped(s)
<1>1. /\ DOMAIN caller = Ids
      /\ \A i \in Ids : caller[i] # "waiting"
      /\ \A i \in Ids : s.caller[i] # "waiting" => caller[i] = s.caller[i]
  BY DEF Sound, Waited
<1>2. DOMAIN waiter = Queries /\ \A q \in Queries : waiter[q] = None
  OBVIOUS
<1>3. EmptyLine.has = {}
  BY DEF EmptyLine
<1> HIDE DEF caller, waiter
<1>4. /\ DOMAIN t = Fields /\ t.done = s.done /\ t.buffer = s.buffer /\ t.req = s.req
      /\ t.caller = caller /\ t.waiter = waiter /\ t.queue = EmptyLine
      /\ t.pending = {} /\ t.active = {} /\ t.drains = {} /\ t.run_waiters = {}
      /\ t.torn = s.torn /\ t.surfaced = s.surfaced /\ t.told = s.told /\ t.killed = s.killed
      /\ t.aborted = s.aborted /\ t.blocked = s.blocked /\ t.phase = "exited"
  BY DEF Dropped, Fields, Sound, Shaped, caller, waiter
<1> HIDE DEF t
<1>5. Live(t) = {} /\ Started(t) = {}
  BY <1>3, <1>4 DEF Live, Started
<1>6. Shaped(t, {})
  BY <1>1, <1>2, <1>4, <1>5 DEF Sound, Shaped
<1>7. Housed(t, {})
  BY <1>4, <1>5 DEF Sound, Housed
<1>8. Closed(t, {}, B)
  BY <1>4, <1>5 DEF Sound, Closed
<1>9. Silent(t, {})
  BY <1>4, <1>5 DEF Sound, Silent
<1>10. Waited(t, {})
  BY <1>1, <1>2, <1>4, <1>5 DEF Waited
<1>11. Audience(t, {})
  <2>1. \A i \in s.done.has : caller[i] = s.caller[i]
    BY <1>1 DEF Sound, Shaped, Housed, Waited
  <2>2. QED
    BY <1>4, <1>5, <2>1 DEF Sound, Audience
<1>12. Sound(t, {}, B)
  BY <1>6, <1>7, <1>8, <1>9, <1>10, <1>11 DEF Sound
<1>13. QED
  BY <1>12 DEF t

\* A caller that waits leaves.
LEMMA LeaveSound ==
  ASSUME NEW s, NEW B, Sound(s, {}, B), NEW id \in Ids, s.caller[id] = "waiting", NEW K,
         NEW t, t = [s EXCEPT !.caller[id] = "gone", !.cancelled = K],
         s.cancelled \subseteq K
  PROVE  Sound(t, {}, B)
<1> DEFINE caller == [s.caller EXCEPT ![id] = "gone"]
<1>1. /\ DOMAIN caller = Ids
      /\ \A i \in Ids : caller[i] = IF i = id THEN "gone" ELSE s.caller[i]
  BY DEF Sound, Shaped
<1> HIDE DEF caller
<1>2. KeptBut(s, t, {"caller", "cancelled"}) /\ t.caller = caller /\ t.cancelled = K
  BY DEF KeptBut, Fields, Sound, Shaped, caller
<1>3. Live(t) = Live(s) /\ Started(t) = Started(s)
  BY <1>2 DEF Live, Started, KeptBut, Fields
<1>4. Shaped(t, {}) /\ Housed(t, {}) /\ Silent(t, {})
  BY <1>1, <1>2, <1>3 DEF Sound, Shaped, Housed, Silent, KeptBut, Fields
<1>5. Closed(t, {}, B)
  BY <1>2, <1>3 DEF Sound, Closed, KeptBut, Fields
<1>6. Waited(t, {})
  BY <1>1, <1>2, <1>3 DEF Sound, Waited, KeptBut, Fields
<1>7. Audience(t, {})
  <2>1. Live(s) \subseteq Ids /\ s.done.has \subseteq Ids /\ id \notin s.done.has
    BY DEF Sound, Shaped, Housed, Waited
  <2>2. \A i \in Live(t) : t.caller[i] \in {"waiting", "gone", "handed"}
    BY <1>1, <1>2, <1>3, <2>1 DEF Sound, Audience
  <2>3. \A i \in t.done.has : t.caller[i] = s.caller[i]
    BY <1>1, <1>2, <2>1 DEF KeptBut, Fields
  <2>4. \A i \in Live(t) : t.caller[i] = "waiting" => s.caller[i] = "waiting"
    BY <1>1, <1>2, <1>3, <2>1
  <2>5. QED
    BY <1>2, <1>3, <2>2, <2>3, <2>4 DEF Sound, Audience, KeptBut, Fields
<1>8. QED
  BY <1>4, <1>5, <1>6, <1>7 DEF Sound

-----------------------------------------------------------------------------
(***************************************************************************)
(* The invariant                                                           *)
(***************************************************************************)

\* Every iteration of the loop ends with the eviction.
LEMMA SettledSound ==
  ASSUME NEW s, NEW C, Sound(s, {}, C), NEW t, t = Trim(s)
  PROVE  Sound(t, {}, t.blocked)
BY TrimSound, SoundNarrow

LEMMA CoordinatorInit == Init => CoordinatorInv
<1> SUFFICES ASSUME Init PROVE CoordinatorInv
  OBVIOUS
<1> DEFINE req == [i \in Ids |-> Blank]
           caller == [i \in Ids |-> "none"]
           none == [q \in Queries |-> None]
<1>1. EmptyLine.has = {}
  BY DEF EmptyLine
<1>2. /\ DOMAIN req = Ids /\ \A i \in Ids : DOMAIN req[i] = RequestFields
      /\ DOMAIN caller = Ids /\ \A i \in Ids : caller[i] = "none"
      /\ DOMAIN none = Queries /\ \A q \in Queries : none[q] = None
  BY DEF Blank, RequestFields
<1> HIDE DEF req, caller, none
<1>3. /\ DOMAIN co = Fields /\ co.pending = {} /\ co.active = {} /\ co.queue = EmptyLine
      /\ co.done = EmptyLine /\ co.buffer = EmptyLine /\ co.req = req /\ co.caller = caller
      /\ co.handle_only = {} /\ co.torn = {} /\ co.waiter = none /\ co.run_waiters = {}
      /\ co.drains = {} /\ co.blocked = {} /\ co.surfaced = {}
  BY DEF Init, Fields, req, caller, none
<1>4. Live(co) = {} /\ Started(co) = {}
  BY <1>1, <1>3 DEF Live, Started
<1>5. Shaped(co, {}) /\ Housed(co, {}) /\ Closed(co, {}, co.blocked)
  BY <1>1, <1>2, <1>3, <1>4 DEF Shaped, Housed, Closed
<1>6. Silent(co, {}) /\ Audience(co, {})
  BY <1>1, <1>3, <1>4 DEF Silent, Audience
<1>7. Waited(co, {})
  BY <1>2, <1>3, <1>4 DEF Waited
<1>8. QED
  BY <1>5, <1>6, <1>7 DEF Sound, CoordinatorInv

\* The last sender of a command is gone.
LEMMA ClosingSound ==
  ASSUME NEW s, NEW B, Sound(s, {}, B), s.phase # "exited", NEW t, KeptBut(s, t, {"phase"})
  PROVE  Sound(t, {}, B)
<1>1. Live(t) = Live(s) /\ Started(t) = Started(s)
  BY DEF Live, Started, KeptBut, Fields
<1>2. Shaped(t, {}) /\ Housed(t, {}) /\ Silent(t, {})
  BY <1>1 DEF Sound, Shaped, Housed, Silent, KeptBut, Fields
<1>3. Closed(t, {}, B)
  BY <1>1 DEF Sound, Closed, KeptBut, Fields
<1>4. Waited(t, {}) /\ Audience(t, {})
  BY <1>1 DEF Sound, Waited, Audience, KeptBut, Fields
<1>5. QED
  BY <1>2, <1>3, <1>4 DEF Sound

\* Every iteration of the loop, the end of the actor and every step of a peer keep it.
LEMMA CoordinatorStep == CoordinatorInv /\ [Next]_co => CoordinatorInv'
<1> SUFFICES ASSUME CoordinatorInv, [Next]_co PROVE CoordinatorInv'
  OBVIOUS
<1> SUFFICES Sound(co', {}, co'.blocked)
  BY DEF CoordinatorInv
<1> DEFINE B == co.blocked
           s == Reap(co)
<1>1. Sound(co, {}, B)
  BY DEF CoordinatorInv
<1> HIDE DEF B
<1>2. Sound(s, {}, B) /\ Tracked(co, {}, s, {})
  BY <1>1, ReapSound
<1> HIDE DEF s
<1>3. ASSUME NEW id \in Ids, NEW session \in Sessions, NEW kind \in Kinds, Spawn(id, session, kind)
      PROVE  Sound(co', {}, co'.blocked)
  <2>1. /\ co.phase = "open" /\ co' = Trim(HandleSpawn(s, id, session, kind))
        /\ Unused(co, id) \/ id \in Live(co) \union co.done.has
    BY <1>3 DEF Spawn, Command, Open, s
  <2>2. s.phase # "exited"
    BY <1>2, <2>1 DEF Tracked
  <2>3. id \in Live(s) \union s.done.has \/ id \notin s.buffer.has
    BY <1>2, <2>1 DEF Tracked, Unused
  <2>4. \E C : Sound(HandleSpawn(s, id, session, kind), {}, C)
    BY <1>2, <2>2, <2>3, SpawnSound
  <2>5. QED
    BY <2>1, <2>4, SettledSound
<1>4. ASSUME NEW q \in Queries, NEW id \in Ids, NEW scope \in Scopes,
             NEW how \in {"block", "poll", "inspect"}, Query(q, id, scope, how)
      PROVE  Sound(co', {}, co'.blocked)
  BY <1>2, <1>4, QuerySound, SettledSound DEF Query, s
<1>5. ASSUME NEW id \in Ids, NEW scope \in Scopes, CancelSubagent(id, scope)
      PROVE  Sound(co', {}, co'.blocked)
  BY <1>2, <1>5, CancelOneSound, SettledSound DEF CancelSubagent, s
<1>6. ASSUME NEW prompt \in Prompts, NEW scope \in Scopes, CancelParentPrompt(prompt, scope)
      PROVE  Sound(co', {}, co'.blocked)
  <2> DEFINE R == {i \in Live(s) : /\ s.req[i].prompt = prompt
                                   /\ BelongsToSession(s.req[i], scope)}
  <2>1. co' = Trim(CancelAll(s, R))
    BY <1>6 DEF CancelParentPrompt, s
  <2> HIDE DEF R
  <2>2. QED
    BY <1>2, <2>1, CancelSomeSound, SettledSound
<1>7. ASSUME NEW scope \in Scopes, CancelParentSession(scope)
      PROVE  Sound(co', {}, co'.blocked)
  <2>1. \E C : Sound(Stop(s, scope), {}, C)
    BY <1>2, StopSound
  <2>2. QED
    BY <1>7, <2>1, SettledSound DEF CancelParentSession, s
<1>8. ASSUME NEW p \in Hosted, OpenSpawnAdmission(p)
      PROVE  Sound(co', {}, co'.blocked)
  BY <1>2, <1>8, OpenSound, SettledSound DEF OpenSpawnAdmission, s
<1>9. ASSUME NEW run \in RunIds, NEW scope \in Scopes, CancelWorkflowRun(run, scope)
      PROVE  Sound(co', {}, co'.blocked)
  BY <1>2, <1>9, CancelRunSound, SettledSound DEF CancelWorkflowRun, s
<1>10. ASSUME NEW scope \in Scopes, Completions(scope)
       PROVE  Sound(co', {}, co'.blocked)
  <2> DEFINE E == {i \in s.buffer.has : BelongsToSession(s.req[i], scope)}
             t == [s EXCEPT !.buffer = Without(@, E)]
  <2>1. co' = Trim(t)
    BY <1>10 DEF Completions, s
  <2>2. Sound(t, {}, B)
    BY <1>2, TakeSound
  <2> HIDE DEF t
  <2>3. QED
    BY <2>1, <2>2, SettledSound
<1>11. ASSUME NEW p \in Hosted, NEW respond \in BOOLEAN, TeardownSession(p, respond)
       PROVE  Sound(co', {}, co'.blocked)
  <2>1. \E C : Sound(Teardown(s, p, respond), {}, C)
    BY <1>2, TeardownSound
  <2>2. QED
    BY <1>11, <2>1, SettledSound DEF TeardownSession, s
<1>12. ASSUME Poll
       PROVE  Sound(co', {}, co'.blocked)
  BY <1>2, <1>12, SettledSound DEF Poll, s
<1>13. ASSUME NEW id \in Ids, ReportStarted(id)
       PROVE  Sound(co', {}, co'.blocked)
  <2> DEFINE t == [co EXCEPT !.pending = @ \ {id}, !.active = @ \union {id}, !.ran = @ \union {id}]
  <2>1. co' = Trim(t) /\ id \in co.pending
    BY <1>13 DEF ReportStarted
  <2>2. Sound(t, {}, B)
    BY <1>1, <2>1, ReportSound
  <2> HIDE DEF t
  <2>3. QED
    BY <2>1, <2>2, SettledSound
<1>14. ASSUME NEW id \in Ids, NEW cancelled \in BOOLEAN, RunEnds(id, cancelled)
       PROVE  Sound(co', {}, co'.blocked)
  <2> DEFINE C == IF cancelled THEN {id} ELSE {}
  <2>1. co' = Trim(FinishChild(co, id, C)) /\ id \in Started(co)
    BY <1>14 DEF RunEnds
  <2> HIDE DEF C
  <2>2. Sound(FinishChild(co, id, C), {}, B)
    BY <1>1, <2>1, FinishChildSound
  <2>3. QED
    BY <2>1, <2>2, SettledSound
<1>15. ASSUME NEW q \in Queries, ProgressEnds(q)
       PROVE  Sound(co', {}, co'.blocked)
  <2> DEFINE t == [co EXCEPT !.progress[q] = None, !.lost = @ \ {q}]
  <2>1. co' = Trim(t)
    BY <1>15 DEF ProgressEnds
  <2>2. KeptBut(co, t, {"progress", "lost", "ran", "killed"}) /\ t.killed = co.killed
    BY <1>1 DEF KeptBut, Fields, Sound, Shaped
  <2> HIDE DEF t
  <2>3. Sound(t, {}, B)
    BY <1>1, <2>2, UnreadSound
  <2>4. QED
    BY <2>1, <2>3, SettledSound
<1>16. ASSUME Timer({}, {}, {})
       PROVE  Sound(co', {}, co'.blocked)
  <2>1. PICK D, W, X : ProcessDeadlines(D, W, X)
    BY <1>16 DEF Timer
  <2> DEFINE t == ClearTeardownDrain(s, X \intersect s.drains)
             u == BackgroundAtDeadline(t, D \intersect t.deadline)
             V == {q \in W : u.waiter[q] # None}
  <2>2. co' = Trim(QueriesDue(u, V))
    BY <2>1 DEF ProcessDeadlines, s
  <2>3. \A Y : Sound(QueriesDue(u, Y), {}, B)
    BY <1>1, <1>2, TimerSound
  <2> HIDE DEF u, V
  <2>4. QED
    BY <2>2, <2>3, SettledSound
<1>17. ASSUME CommandsClosed
       PROVE  Sound(co', {}, co'.blocked)
  <2>1. KeptBut(co, co', {"phase"}) /\ co.phase = "open" /\ co'.phase = "closed"
    BY <1>1, <1>17 DEF CommandsClosed, Command, Open, KeptBut, Fields, Sound, Shaped
  <2>2. Sound(co', {}, B)
    BY <1>1, <2>1, ClosingSound
  <2>3. QED
    BY <2>2, SoundNarrow
<1>18. ASSUME Exit \/ DropActor
       PROVE  Sound(co', {}, co'.blocked)
  BY <1>1, <1>18, DroppedSound, SoundNarrow DEF Exit, DropActor
<1>19. ASSUME NEW id \in Ids, CallerDrops(id)
       PROVE  Sound(co', {}, co'.blocked)
  <2>1. PICK tell \in BOOLEAN :
          co' = [co EXCEPT !.caller[id] = "gone",
                           !.cancelled = IF tell THEN @ \union {id} ELSE @]
    BY <1>19 DEF CallerDrops
  <2> DEFINE K == IF tell THEN co.cancelled \union {id} ELSE co.cancelled
  <2>2. co' = [co EXCEPT !.caller[id] = "gone", !.cancelled = K] /\ co.cancelled \subseteq K
    BY <2>1
  <2>3. co.caller[id] = "waiting"
    BY <1>19 DEF CallerDrops
  <2> HIDE DEF K
  <2>4. Sound(co', {}, B)
    BY <1>1, <2>2, <2>3, LeaveSound
  <2>5. QED
    BY <2>4, SoundNarrow
<1>20. ASSUME NEW id \in Ids, TokenCancelled(id)
       PROVE  Sound(co', {}, co'.blocked)
  <2>1. co' = [co EXCEPT !.cancelled = @ \union {id}]
    BY <1>20 DEF TokenCancelled
  <2>2. Sound([co EXCEPT !.cancelled = @ \union {id}], {}, B)
    BY <1>1, TokenSound
  <2>3. Sound(co', {}, B)
    BY <2>1, <2>2
  <2>4. QED
    BY <2>3, SoundNarrow
<1>21. ASSUME NEW q \in Queries, QueryDropped(q)
       PROVE  Sound(co', {}, co'.blocked)
  <2>1. KeptBut(co, co', {"progress", "lost", "ran", "killed"}) /\ co'.killed = co.killed
    BY <1>1, <1>21 DEF QueryDropped, KeptBut, Fields, Sound, Shaped
  <2>2. Sound(co', {}, B)
    BY <1>1, <2>1, UnreadSound
  <2>3. QED
    BY <2>2, SoundNarrow
<1>22. ASSUME UNCHANGED co
       PROVE  Sound(co', {}, co'.blocked)
  BY <1>22 DEF CoordinatorInv
<1>23. QED
  BY <1>3, <1>4, <1>5, <1>6, <1>7, <1>8, <1>9, <1>10, <1>11, <1>12, <1>13, <1>14, <1>15, <1>16,
     <1>17, <1>18, <1>19, <1>20, <1>21, <1>22 DEF Next

-----------------------------------------------------------------------------
(***************************************************************************)
(* The theorems                                                            *)
(***************************************************************************)
LEMMA CoordinatorSound == Spec => []CoordinatorInv
BY CoordinatorInit, CoordinatorStep, PTL DEF Spec

\* A subagent is in one place, however spawns, starts, sweeps, cancels and evictions follow
\* each other.
THEOREM OneHomeCorrect == Spec => []OneHome
<1>1. CoordinatorInv => OneHome
  BY DEF CoordinatorInv, Sound, Housed, OneHome
<1>2. QED
  BY <1>1, CoordinatorSound, PTL

\* Stop and delete hold: nothing of a closed session is left to run, a delete keeps admission
\* closed as long as it has children to wait for, and what was torn down stays silent.
THEOREM StopCorrect == Spec => []StopHolds
<1>1. CoordinatorInv => StopIsFinal
  BY DEF CoordinatorInv, Sound, Closed, StopIsFinal
<1>2. CoordinatorInv => DrainHeld
  BY DEF CoordinatorInv, Sound, Closed, DrainHeld, SessionHasChildren
<1>3. CoordinatorInv => TornDownSilent
  BY DEF CoordinatorInv, Sound, Silent, TornDownSilent
<1>4. CoordinatorInv => StopHolds
  BY <1>1, <1>2, <1>3 DEF StopHolds
<1>5. QED
  BY <1>4, CoordinatorSound, PTL

\* Whoever waits, a caller, a blocking query or the cancel of a workflow run, waits for a
\* subagent that is live and whose record holds the waiter.
THEOREM WaitsCorrect == Spec => []WaitsHeld
<1>1. CoordinatorInv => CallerHeld
  BY DEF CoordinatorInv, Sound, Waited, CallerHeld
<1>2. CoordinatorInv => WaitersLive
  BY DEF CoordinatorInv, Sound, Waited, WaitersLive, WorkflowOutstanding
<1>3. CoordinatorInv => WaitsHeld
  BY <1>1, <1>2 DEF WaitsHeld
<1>4. QED
  BY <1>3, CoordinatorSound, PTL

\* A completion has its audience, and not twice: what a foreground caller received is not
\* surfaced, and what was handed off or left behind is told, surfaced, cancelled or killed.
THEOREM HeardCorrect == Spec => []Heard
<1>1. CoordinatorInv => Heard
  BY DEF CoordinatorInv, Sound, Audience, Heard
<1>2. QED
  BY <1>1, CoordinatorSound, PTL

-----------------------------------------------------------------------------
(***************************************************************************)
(* The order of the queue                                                  *)
(***************************************************************************)

\* Of the naturals in a set that is not empty, one is the smallest.
LEMMA LeastNat ==
  ASSUME NEW S \in SUBSET Nat, S # {}
  PROVE  \E n \in S : \A m \in S : n <= m
<1>1. PICK n \in S : \A m \in S : ~(<<m, n>> \in OpToRel(<, Nat))
  BY NatLessThanWellFounded, WFMin
<1>2. \A m \in S : ~(m < n)
  BY <1>1 DEF OpToRel
<1>3. QED
  BY <1>2

\* Among some members of a line one is first,
LEMMA FirstInLine ==
  ASSUME NEW line, InLine(line), line.has \subseteq Ids, NEW S \in SUBSET line.has, S # {}
  PROVE  \E m \in S : \A i \in S \ {m} : m \in line.ahead[i]
<1> DEFINE C == {Cardinality(line.ahead[i]) : i \in S}
<1>1. \A i \in line.has : IsFiniteSet(line.ahead[i]) /\ Cardinality(line.ahead[i]) \in Nat
  <2>1. \A i \in line.has : line.ahead[i] \in SUBSET Ids
    BY DEF InLine
  <2>2. QED
    BY <2>1, FS_Subset, FS_CardinalityType, CoordinatorAssumption
<1>2. C \in SUBSET Nat /\ C # {}
  BY <1>1
<1>3. PICK n \in C : \A k \in C : n <= k
  BY <1>2, LeastNat
<1>4. PICK m \in S : n = Cardinality(line.ahead[m])
  OBVIOUS
<1>5. ASSUME NEW i \in S \ {m}, i \in line.ahead[m]
      PROVE  FALSE
  <2>1. line.ahead[i] \subseteq line.ahead[m] /\ i \notin line.ahead[i]
    BY <1>5 DEF InLine
  <2>2. line.ahead[i] # line.ahead[m]
    BY <1>5, <2>1
  <2>3. Cardinality(line.ahead[i]) < Cardinality(line.ahead[m])
    BY <1>1, <2>1, <2>2, FS_Subset
  <2>4. Cardinality(line.ahead[m]) <= Cardinality(line.ahead[i])
    BY <1>3, <1>4
  <2>5. Cardinality(line.ahead[m]) \in Nat /\ Cardinality(line.ahead[i]) \in Nat
    BY <1>1
  <2>6. QED
    BY <2>3, <2>4, <2>5
<1>6. QED
  BY <1>5 DEF InLine

\* and one is last.
LEMMA LastInLine ==
  ASSUME NEW line, InLine(line), line.has \subseteq Ids, NEW S \in SUBSET line.has, S # {}
  PROVE  \E m \in S : \A i \in S \ {m} : i \in line.ahead[m]
<1> DEFINE behind == [i \in Ids |-> {j \in line.has : i \in line.ahead[j]}]
           reverse == [has |-> line.has, ahead |-> behind]
<1>1. \A i \in line.has, j \in Ids : j \in behind[i] <=> j \in line.has /\ i \in line.ahead[j]
  OBVIOUS
<1>2. \A i \in line.has : behind[i] \subseteq line.has
  OBVIOUS
<1>3. reverse.has = line.has /\ reverse.ahead = behind
  OBVIOUS
<1> HIDE DEF behind, reverse
<1>4. InLine(reverse)
  <2>1. \A i \in line.has : behind[i] \subseteq line.has \ {i}
    BY <1>1, <1>2 DEF InLine
  <2>2. \A i, j \in line.has : i = j \/ i \in behind[j] \/ j \in behind[i]
    BY <1>1 DEF InLine
  <2>3. ASSUME NEW i \in line.has, NEW j \in behind[i], NEW k \in behind[j]
        PROVE  k \in behind[i]
    <3>1. j \in line.has /\ i \in line.ahead[j]
      BY <1>1, <1>2
    <3>2. k \in line.has /\ j \in line.ahead[k]
      BY <1>1, <1>2, <3>1
    <3>3. i \in line.ahead[k]
      BY <3>1, <3>2 DEF InLine
    <3>4. QED
      BY <1>1, <3>2, <3>3
  <2>4. QED
    BY <1>3, <2>1, <2>2, <2>3 DEF InLine
<1>5. PICK m \in S : \A i \in S \ {m} : m \in reverse.ahead[i]
  BY <1>3, <1>4, FirstInLine
<1>6. \A i \in S \ {m} : i \in line.ahead[m]
  BY <1>1, <1>3, <1>5
<1>7. QED
  BY <1>6

\* Who leaves a line does not disturb the order of the others.
LEMMA LineShrinks ==
  ASSUME NEW line, InLine(line), NEW new, NEW R, new.has = line.has \ R,
         \A i \in new.has : new.ahead[i] = line.ahead[i] \ R
  PROVE  InLine(new)
<1>1. \A i \in new.has : new.ahead[i] \subseteq new.has \ {i}
  BY DEF InLine
<1>2. \A i, j \in new.has : i = j \/ i \in new.ahead[j] \/ j \in new.ahead[i]
  BY DEF InLine
<1>3. ASSUME NEW i \in new.has, NEW j \in new.ahead[i]
      PROVE  new.ahead[j] \subseteq new.ahead[i]
  <2>1. j \in new.has /\ j \in line.ahead[i]
    BY <1>1
  <2>2. line.ahead[j] \subseteq line.ahead[i]
    BY <2>1 DEF InLine
  <2>3. QED
    BY <2>1, <2>2
<1>4. QED
  BY <1>1, <1>2, <1>3 DEF InLine

\* Who joins it is behind everybody.
LEMMA LineGrows ==
  ASSUME NEW line, InLine(line), line.has \subseteq Ids, NEW id \in Ids, id \notin line.has,
         NEW ahead, ahead[id] = {}, NEW new, new = Behind(line, {id}, ahead)
  PROVE  InLine(new) /\ new.has = line.has \union {id}
<1>1. /\ new.has = line.has \union {id}
      /\ \A i \in Ids : new.ahead[i] = IF i = id THEN line.has ELSE line.ahead[i]
  BY DEF Behind
<1>2. new.ahead[id] = line.has /\ \A i \in line.has : new.ahead[i] = line.ahead[i]
  BY <1>1
<1>3. \A i \in new.has : new.ahead[i] \subseteq new.has \ {i}
  BY <1>1, <1>2 DEF InLine
<1>4. \A i, j \in new.has : i = j \/ i \in new.ahead[j] \/ j \in new.ahead[i]
  BY <1>1, <1>2 DEF InLine
<1>5. ASSUME NEW i \in new.has, NEW j \in new.ahead[i]
      PROVE  new.ahead[j] \subseteq new.ahead[i]
  <2>1. j \in line.has /\ new.ahead[j] = line.ahead[j]
    BY <1>1, <1>2 DEF InLine
  <2>2. QED
    BY <1>1, <1>2, <2>1 DEF InLine
<1>6. QED
  BY <1>1, <1>3, <1>4, <1>5 DEF InLine

-----------------------------------------------------------------------------
(***************************************************************************)
(* The slots of a session                                                  *)
(***************************************************************************)

\* u is s after the queued subagents in R were started and those in X were finished.
Moved(s, u, R, X) ==
  /\ u.config = s.config
  /\ \A i \in Live(s) : u.req[i].session = s.req[i].session /\ u.req[i].owner = s.req[i].owner
  /\ u.queue.has = s.queue.has \ (R \union X)
  /\ \A i \in u.queue.has : u.queue.ahead[i] = s.queue.ahead[i] \ (R \union X)
  /\ Started(u) = (Started(s) \union R) \ X
  /\ u.done.has = s.done.has \union X

\* From s to u the queue has moved in turn: it keeps its order, nobody comes back to it,
\* and nobody was started past one of the same session that still waits.
Turn(s, u) ==
  /\ u.config = s.config
  /\ Live(s) \union s.done.has \subseteq Live(u) \union u.done.has
  /\ u.queue.has \intersect (Live(s) \union s.done.has) \subseteq s.queue.has
  /\ Live(u) \intersect s.done.has = {}
  /\ \A i \in s.queue.has \intersect u.queue.has : u.req[i].session = s.req[i].session
  /\ \A i, j \in s.queue.has \intersect u.queue.has :
       i \in s.queue.ahead[j] => i \in u.queue.ahead[j]
  /\ \A j \in s.queue.has \intersect Started(u) : \A i \in s.queue.ahead[j] :
       s.req[i].session = s.req[j].session => i \notin u.queue.has

LEMMA TurnOn ==
  ASSUME NEW s, InLine(s.queue), NEW t, Turn(s, t), NEW u, Turn(t, u)
  PROVE  Turn(s, u)
<1>1. /\ u.config = s.config
      /\ Live(s) \union s.done.has \subseteq Live(u) \union u.done.has
  BY DEF Turn
<1>2. s.queue.has \subseteq Live(s) /\ Started(u) \subseteq Live(u) /\ Live(t) = Started(t) \union t.queue.has
  BY DEF Live
<1>3. u.queue.has \intersect (Live(s) \union s.done.has) \subseteq s.queue.has \intersect t.queue.has
  BY DEF Turn
<1>4. Live(u) \intersect s.done.has = {}
  <2>1. ASSUME NEW i \in s.done.has, i \in Live(u) PROVE FALSE
    <3>1. i \notin Live(t) /\ i \in Live(t) \union t.done.has
      BY <2>1 DEF Turn
    <3>2. QED
      BY <2>1, <3>1 DEF Turn
  <2>2. QED
    BY <2>1
<1>5. \A i \in s.queue.has \intersect u.queue.has :
        i \in t.queue.has /\ u.req[i].session = s.req[i].session
  BY <1>2, <1>3 DEF Turn
<1>6. \A i, j \in s.queue.has \intersect u.queue.has :
        i \in s.queue.ahead[j] => i \in u.queue.ahead[j]
  BY <1>5 DEF Turn
<1>7. ASSUME NEW j \in s.queue.has \intersect Started(u), NEW i \in s.queue.ahead[j],
             s.req[i].session = s.req[j].session, i \in u.queue.has
      PROVE  FALSE
  <2>1. i \in s.queue.has /\ i \in t.queue.has
    BY <1>5, <1>7 DEF InLine
  <2>2. j \in Live(t)
    <3>1. j \in Live(t) \union t.done.has
      BY <1>2 DEF Turn
    <3>2. QED
      BY <1>2, <3>1 DEF Turn
  <2>3. CASE j \in t.queue.has
    <3>1. i \in t.queue.ahead[j] /\ t.req[i].session = t.req[j].session
      BY <1>7, <2>1, <2>3 DEF Turn
    <3>2. QED
      BY <1>7, <2>3, <3>1 DEF Turn
  <2>4. CASE j \in Started(t)
    BY <1>7, <2>1, <2>4 DEF Turn
  <2>5. QED
    BY <1>2, <2>2, <2>3, <2>4
<1>8. \A j \in s.queue.has \intersect Started(u) : \A i \in s.queue.ahead[j] :
        s.req[i].session = s.req[j].session => i \notin u.queue.has
  BY <1>7
<1>9. QED
  BY <1>1, <1>3, <1>4, <1>5, <1>6, <1>8 DEF Turn

\* It is in turn if who is started has nobody of the session ahead but those that leave too.
LEMMA MovedTurn ==
  ASSUME NEW s, NEW u, NEW R, NEW X, Moved(s, u, R, X), R \subseteq s.queue.has, Housed(s, {}),
         \A j \in R : \A i \in s.queue.ahead[j] :
           s.req[i].session = s.req[j].session => i \in R \union X
  PROVE  Turn(s, u)
<1>1. Live(s) = Started(s) \union s.queue.has /\ Live(u) = Started(u) \union u.queue.has
  BY DEF Live
<1>2. Started(s) \intersect s.queue.has = {} /\ Live(s) \intersect s.done.has = {}
  BY DEF Housed
<1>3. u.config = s.config
  BY DEF Moved
<1>4. Live(s) \union s.done.has \subseteq Live(u) \union u.done.has
  BY <1>1 DEF Moved
<1>5. u.queue.has \subseteq s.queue.has /\ Live(u) \subseteq Live(s)
  BY <1>1 DEF Moved
<1>6. \A i \in s.queue.has \intersect u.queue.has : u.req[i].session = s.req[i].session
  BY <1>1 DEF Moved
<1>7. \A i, j \in s.queue.has \intersect u.queue.has :
        i \in s.queue.ahead[j] => i \in u.queue.ahead[j]
  BY DEF Moved
<1>8. s.queue.has \intersect Started(u) \subseteq R
  BY <1>2 DEF Moved
<1>9. \A j \in R : \A i \in s.queue.ahead[j] :
        s.req[i].session = s.req[j].session => i \notin u.queue.has
  BY DEF Moved
<1>10. QED
  BY <1>2, <1>3, <1>4, <1>5, <1>6, <1>7, <1>8, <1>9 DEF Turn

\* What it does to the subagents a session runs.
LEMMA MovedRunning ==
  ASSUME NEW s, NEW u, NEW R, NEW X, Moved(s, u, R, X), R \subseteq s.queue.has,
         \A i \in s.queue.has : ~IsWorkflow(s.req[i]), NEW p
  PROVE  SessionRunning(u, p) = (SessionRunning(s, p) \union {i \in R : s.req[i].session = p}) \ X
<1>1. Started(s) \union R \subseteq Live(s)
  BY DEF Live
<1>2. \A i \in Live(s) : /\ u.req[i].session = s.req[i].session
                         /\ IsWorkflow(u.req[i]) <=> IsWorkflow(s.req[i])
  BY DEF Moved, IsWorkflow
<1>3. Started(u) = (Started(s) \union R) \ X
  BY DEF Moved
<1>4. QED
  BY <1>1, <1>2, <1>3 DEF SessionRunning

LEMMA RunningFinite ==
  ASSUME NEW s, Live(s) \subseteq Ids, NEW p, NEW S \in SUBSET SessionRunning(s, p)
  PROVE  /\ IsFiniteSet(S) /\ Cardinality(S) \in Nat
         /\ Cardinality(S) <= Cardinality(SessionRunning(s, p))
<1>1. SessionRunning(s, p) \in SUBSET Ids
  BY DEF SessionRunning, Live
<1>2. IsFiniteSet(SessionRunning(s, p))
  BY <1>1, FS_Subset, CoordinatorAssumption
<1>3. QED
  BY <1>2, FS_Subset, FS_CardinalityType

\* Nobody is started: the order and the limit stand, and if nobody running ended, so do
\* the full sessions.
LEMMA MovedLined ==
  ASSUME NEW s, NEW u, NEW X, Moved(s, u, {}, X), Live(s) \subseteq Ids,
         NEW limit \in Nat, Lined(s, limit)
  PROVE  /\ Lined(u, limit)
         /\ Filled(s, limit) /\ X \intersect Started(s) = {} => Filled(u, limit)
<1>1. InLine(u.queue)
  BY LineShrinks DEF Lined, Moved
<1>2. u.queue.has \subseteq s.queue.has /\ s.queue.has \subseteq Live(s)
  BY DEF Moved, Live
<1>3. \A i \in u.queue.has : ~IsWorkflow(u.req[i])
  BY <1>2 DEF Lined, Moved, IsWorkflow
<1>4. \A p : SessionRunning(u, p) = SessionRunning(s, p) \ X
  <2>1. \A p : SessionRunning(u, p) = (SessionRunning(s, p) \union {i \in {} : s.req[i].session = p}) \ X
    BY MovedRunning DEF Lined
  <2>2. QED
    BY <2>1
<1>5. \A p : Cardinality(SessionRunning(u, p)) <= Cardinality(SessionRunning(s, p))
             /\ Cardinality(SessionRunning(u, p)) \in Nat /\ Cardinality(SessionRunning(s, p)) \in Nat
  BY <1>4, RunningFinite
<1>6. \A p \in Sessions : Cardinality(SessionRunning(u, p)) <= limit
  BY <1>5 DEF Lined
<1>7. ASSUME Filled(s, limit), X \intersect Started(s) = {}
      PROVE  Filled(u, limit)
  <2>1. \A p : SessionRunning(u, p) = SessionRunning(s, p)
    BY <1>4, <1>7 DEF SessionRunning
  <2>2. \A i \in u.queue.has : u.req[i].session = s.req[i].session
    BY <1>2 DEF Moved
  <2>3. QED
    BY <1>2, <1>7, <2>1, <2>2 DEF Filled
<1>8. QED
  BY <1>1, <1>3, <1>6, <1>7 DEF Lined

-----------------------------------------------------------------------------
(***************************************************************************)
(* What the sweep starts                                                   *)
(***************************************************************************)

\* The queued subagents that are not cancelled, and of them those that take a free slot
\* of the session before i.
Fit(s) == s.queue.has \ s.cancelled

Rivals(s, i) == {j \in s.queue.ahead[i] \intersect Fit(s) : s.req[j].session = s.req[i].session}

LEMMA StartsFacts ==
  ASSUME NEW s
  PROVE  /\ Starts(s) \subseteq Fit(s)
         /\ \A i \in Fit(s) :
              i \in Starts(s) <=>
                Cardinality(SessionRunning(s, s.req[i].session)) + Cardinality(Rivals(s, i)) < Limit
BY DEF Starts, HasCapacity, Fit, Rivals

LEMMA RivalsFinite ==
  ASSUME NEW s, Live(s) \subseteq Ids, NEW i, NEW S \in SUBSET Rivals(s, i)
  PROVE  /\ IsFiniteSet(S) /\ Cardinality(S) \in Nat
         /\ Cardinality(S) <= Cardinality(Rivals(s, i))
         /\ IsFiniteSet(Rivals(s, i)) /\ Cardinality(Rivals(s, i)) \in Nat
<1>1. Rivals(s, i) \in SUBSET Ids
  BY DEF Rivals, Fit, Live
<1>2. IsFiniteSet(Rivals(s, i))
  BY <1>1, FS_Subset, CoordinatorAssumption
<1>3. QED
  BY <1>2, FS_Subset, FS_CardinalityType

\* Two sets with nothing in common.
LEMMA DisjointSum ==
  ASSUME NEW S, NEW T, IsFiniteSet(S), IsFiniteSet(T), S \intersect T = {}
  PROVE  /\ IsFiniteSet(S \union T)
         /\ Cardinality(S \union T) = Cardinality(S) + Cardinality(T)
<1>1. /\ IsFiniteSet(S \union T)
      /\ Cardinality(S \union T) = Cardinality(S) + Cardinality(T) - Cardinality(S \intersect T)
  BY FS_Union
<1>2. Cardinality(S \intersect T) = 0
  BY FS_EmptySet
<1>3. Cardinality(S) \in Nat /\ Cardinality(T) \in Nat
  BY FS_CardinalityType
<1>4. QED
  BY <1>1, <1>2, <1>3

\* A session is not given more slots than it has: the last one that is started has all the
\* others among its rivals.
LEMMA StartsFit ==
  ASSUME NEW s, Live(s) \subseteq Ids, Housed(s, {}), Limit \in Nat, InLine(s.queue), NEW p,
         Cardinality(SessionRunning(s, p)) <= Limit, NEW S,
         S = {i \in Starts(s) : s.req[i].session = p}
  PROVE  Cardinality(SessionRunning(s, p) \union S) <= Limit
<1>1. IsFiniteSet(SessionRunning(s, p)) /\ Cardinality(SessionRunning(s, p)) \in Nat
  BY RunningFinite
<1>2. CASE S = {}
  BY <1>2
<1>3. CASE S # {}
  <2>1. S \in SUBSET s.queue.has /\ s.queue.has \subseteq Ids /\ S \subseteq Fit(s)
    BY StartsFacts DEF Fit, Live
  <2>2. PICK m \in S : \A i \in S \ {m} : i \in s.queue.ahead[m]
    BY <1>3, <2>1, LastInLine
  <2> DEFINE T == S \ {m}
  <2>3. s.req[m].session = p /\ m \in Starts(s) /\ m \in Fit(s)
    BY <2>1
  <2>4. T \in SUBSET Rivals(s, m)
    BY <2>1, <2>2, <2>3 DEF Rivals
  <2>5. /\ IsFiniteSet(T) /\ Cardinality(T) \in Nat
        /\ Cardinality(T) <= Cardinality(Rivals(s, m)) /\ Cardinality(Rivals(s, m)) \in Nat
    BY <2>4, RivalsFinite
  <2>6. Cardinality(SessionRunning(s, p)) + Cardinality(Rivals(s, m)) < Limit
    BY <2>3, StartsFacts
  <2>7. SessionRunning(s, p) \intersect S = {}
    BY <2>1 DEF SessionRunning, Housed
  <2> HIDE DEF T
  <2>8. SessionRunning(s, p) \union S = (SessionRunning(s, p) \union T) \union {m}
    BY DEF T
  <2>9. /\ IsFiniteSet(SessionRunning(s, p) \union T)
        /\ Cardinality(SessionRunning(s, p) \union T)
             = Cardinality(SessionRunning(s, p)) + Cardinality(T)
    <3>1. SessionRunning(s, p) \intersect T = {}
      BY <2>7 DEF T
    <3>2. QED
      BY <1>1, <2>5, <3>1, DisjointSum
  <2> DEFINE U == SessionRunning(s, p) \union T
  <2>10. Cardinality(U \union {m}) = Cardinality(U) \/ Cardinality(U \union {m}) = Cardinality(U) + 1
    <3>1. IsFiniteSet(U)
      BY <2>9
    <3> HIDE DEF U
    <3>2. QED
      BY <3>1, FS_AddElement
  <2>11. /\ Cardinality(U) = Cardinality(SessionRunning(s, p)) + Cardinality(T)
         /\ Cardinality(SessionRunning(s, p) \union S) = Cardinality(U \union {m})
    BY <2>8, <2>9
  <2> HIDE DEF U
  <2>12. QED
    BY <1>1, <2>5, <2>6, <2>10, <2>11
<1>4. QED
  BY <1>2, <1>3

\* No slot is left free: of those of a session that have to wait, the first has lost to
\* rivals that are all started.
LEMMA StartsFill ==
  ASSUME NEW s, Live(s) \subseteq Ids, Housed(s, {}), Limit \in Nat, InLine(s.queue),
         NEW k \in Fit(s) \ Starts(s), NEW p, p = s.req[k].session, NEW S,
         S = {i \in Starts(s) : s.req[i].session = p}
  PROVE  Cardinality(SessionRunning(s, p) \union S) >= Limit
<1> DEFINE left == {i \in Fit(s) \ Starts(s) : s.req[i].session = p}
<1>1. IsFiniteSet(SessionRunning(s, p)) /\ Cardinality(SessionRunning(s, p)) \in Nat
  BY RunningFinite
<1>2. left \in SUBSET s.queue.has /\ left # {} /\ s.queue.has \subseteq Ids
  BY DEF Fit, Live
<1>3. PICK m \in left : \A i \in left \ {m} : m \in s.queue.ahead[i]
  BY <1>2, FirstInLine
<1>4. m \in Fit(s) /\ m \notin Starts(s) /\ s.req[m].session = p
  OBVIOUS
<1>5. Rivals(s, m) \subseteq S
  <2>1. ASSUME NEW i \in Rivals(s, m), i \notin Starts(s)
        PROVE  FALSE
    <3>1. i \in left /\ i \in s.queue.ahead[m]
      BY <1>4, <2>1 DEF Rivals
    <3>2. i # m /\ m \notin s.queue.ahead[i]
      BY <1>2, <1>3, <3>1 DEF InLine
    <3>3. QED
      BY <1>3, <3>1, <3>2
  <2>2. QED
    BY <1>4, <2>1 DEF Rivals
<1>6. ~(Cardinality(SessionRunning(s, p)) + Cardinality(Rivals(s, m)) < Limit)
  BY <1>4, StartsFacts
<1>7. IsFiniteSet(Rivals(s, m)) /\ Cardinality(Rivals(s, m)) \in Nat
  BY RivalsFinite
<1>8. /\ IsFiniteSet(SessionRunning(s, p) \union Rivals(s, m))
      /\ Cardinality(SessionRunning(s, p) \union Rivals(s, m))
           = Cardinality(SessionRunning(s, p)) + Cardinality(Rivals(s, m))
  <2>1. SessionRunning(s, p) \intersect Rivals(s, m) = {}
    BY DEF SessionRunning, Rivals, Fit, Housed
  <2>2. QED
    BY <1>1, <1>7, <2>1, DisjointSum
<1>9. /\ Cardinality(SessionRunning(s, p) \union Rivals(s, m))
           <= Cardinality(SessionRunning(s, p) \union S)
      /\ Cardinality(SessionRunning(s, p) \union S) \in Nat
  <2>1. SessionRunning(s, p) \union S \in SUBSET Ids
    BY StartsFacts DEF SessionRunning, Fit, Live
  <2>2. IsFiniteSet(SessionRunning(s, p) \union S)
    BY <2>1, FS_Subset, CoordinatorAssumption
  <2>3. SessionRunning(s, p) \union Rivals(s, m) \in SUBSET (SessionRunning(s, p) \union S)
    BY <1>5
  <2>4. QED
    BY <2>2, <2>3, FS_Subset, FS_CardinalityType
<1>10. QED
  BY <1>1, <1>6, <1>7, <1>8, <1>9

\* And the slots go to the first: who is ahead of one that is started has fewer rivals.
LEMMA StartsInTurn ==
  ASSUME NEW s, Live(s) \subseteq Ids, Limit \in Nat, InLine(s.queue),
         NEW j \in Starts(s), NEW i \in s.queue.ahead[j], s.req[i].session = s.req[j].session
  PROVE  i \in Starts(s) \union (s.queue.has \intersect s.cancelled)
<1>1. j \in s.queue.has
  BY StartsFacts DEF Fit
<1>2. i \in s.queue.has /\ s.queue.ahead[i] \subseteq s.queue.ahead[j]
  BY <1>1 DEF InLine
<1>3. CASE i \in Fit(s)
  <2>1. Rivals(s, i) \in SUBSET Rivals(s, j)
    BY <1>2 DEF Rivals
  <2>2. /\ Cardinality(Rivals(s, i)) \in Nat /\ Cardinality(Rivals(s, j)) \in Nat
        /\ Cardinality(Rivals(s, i)) <= Cardinality(Rivals(s, j))
    BY <2>1, RivalsFinite
  <2>3. Cardinality(SessionRunning(s, s.req[i].session)) \in Nat
    BY RunningFinite
  <2>4. Cardinality(SessionRunning(s, s.req[j].session)) + Cardinality(Rivals(s, j)) < Limit
    BY StartsFacts
  <2>5. Cardinality(SessionRunning(s, s.req[i].session)) + Cardinality(Rivals(s, i)) < Limit
    BY <2>2, <2>3, <2>4
  <2>6. QED
    BY <1>3, <2>5, StartsFacts
<1>4. CASE i \notin Fit(s)
  BY <1>2, <1>4 DEF Fit
<1>5. QED
  BY <1>3, <1>4

\* Together: whatever the state before it, the sweep leaves the slots used.
LEMMA SweepSlots ==
  ASSUME NEW s, Live(s) \subseteq Ids, Housed(s, {}), Limit \in Nat, Lined(s, Limit),
         NEW u, Moved(s, u, Starts(s), s.queue.has \intersect s.cancelled)
  PROVE  Lined(u, Limit) /\ Filled(u, Limit) /\ Turn(s, u)
<1> DEFINE R == Starts(s)
           X == s.queue.has \intersect s.cancelled
<1>1. R \subseteq s.queue.has /\ R \subseteq Fit(s)
  BY StartsFacts DEF Fit
<1>2. InLine(s.queue) /\ \A i \in s.queue.has : ~IsWorkflow(s.req[i])
  BY DEF Lined
<1>3. Moved(s, u, R, X)
  OBVIOUS
<1>4. \A j \in R : \A i \in s.queue.ahead[j] :
        s.req[i].session = s.req[j].session => i \in R \union X
  BY <1>2, StartsInTurn
<1>5. X \intersect Started(s) = {} /\ X \intersect R = {}
  BY <1>1 DEF Housed, Fit
<1>6. u.queue.has = Fit(s) \ R
  BY <1>1 DEF Moved, Fit
<1> HIDE DEF R, X
<1>7. Turn(s, u)
  BY <1>1, <1>3, <1>4, MovedTurn
<1>8. InLine(u.queue)
  <2>1. /\ u.queue.has = s.queue.has \ (R \union X)
        /\ \A i \in u.queue.has : u.queue.ahead[i] = s.queue.ahead[i] \ (R \union X)
    BY <1>3 DEF Moved
  <2>2. QED
    BY <1>2, <2>1, LineShrinks
<1>9. \A i \in u.queue.has : /\ i \in s.queue.has /\ ~IsWorkflow(u.req[i])
                             /\ u.req[i].session = s.req[i].session
  BY <1>2, <1>3, <1>6 DEF Moved, IsWorkflow, Live, Fit
<1>10. \A p : SessionRunning(u, p) = SessionRunning(s, p) \union {i \in R : s.req[i].session = p}
  <2>1. \A p : SessionRunning(u, p)
                 = (SessionRunning(s, p) \union {i \in R : s.req[i].session = p}) \ X
    BY <1>1, <1>2, <1>3, MovedRunning
  <2>2. QED
    BY <1>5, <2>1 DEF SessionRunning
<1>11. ASSUME NEW p \in Sessions
       PROVE  Cardinality(SessionRunning(u, p)) <= Limit
  <2>1. Cardinality(SessionRunning(s, p)) <= Limit
    BY DEF Lined
  <2>2. Cardinality(SessionRunning(s, p) \union {i \in Starts(s) : s.req[i].session = p}) <= Limit
    BY <1>2, <2>1, StartsFit
  <2>3. QED
    BY <1>10, <2>2 DEF R
<1>12. ASSUME NEW k \in u.queue.has
       PROVE  Cardinality(SessionRunning(u, u.req[k].session)) >= Limit
  <2> DEFINE p == s.req[k].session
  <2>1. k \in Fit(s) \ Starts(s)
    BY <1>6 DEF R
  <2>2. Cardinality(SessionRunning(s, p) \union {i \in Starts(s) : s.req[i].session = p}) >= Limit
    BY <1>2, <2>1, StartsFill
  <2>3. u.req[k].session = p
    BY <1>9
  <2> HIDE DEF p
  <2>4. QED
    BY <1>10, <2>2, <2>3 DEF R
<1>13. QED
  BY <1>7, <1>8, <1>9, <1>11, <1>12 DEF Lined, Filled

-----------------------------------------------------------------------------
(***************************************************************************)
(* The handlers and the slots                                              *)
(***************************************************************************)

\* As much of Sound as the queue rests on.
Plain(s, R) == Shaped(s, R) /\ Housed(s, R)

\* u is s after the subagents in R, none of them queued, were finished.
Finished(s, R, u) ==
  /\ u.config = s.config /\ u.req = s.req /\ u.queue = s.queue
  /\ Started(u) = Started(s) \ R /\ u.done.has = s.done.has \union R

LEMMA ConcludePlain ==
  ASSUME NEW s, NEW R, Plain(s, R), R \intersect s.queue.has = {}, NEW ahead, NEW C,
         NEW u, u = Conclude(s, R, ahead, C)
  PROVE  Plain(u, {}) /\ Finished(s, R, u)
<1>1. Concluded(s, R, u)
  BY ConcludeFacts DEF Plain, Shaped
<1>2. /\ Started(u) = Started(s) \ R /\ u.queue = s.queue /\ u.req = s.req
      /\ u.done.has = s.done.has \union R /\ u.config = s.config
  BY <1>1 DEF Concluded, Started
<1>3. Live(u) = Live(s) \ R
  BY <1>2 DEF Live
<1>4. Shaped(u, {})
  BY <1>1, <1>2, <1>3 DEF Plain, Shaped, Concluded
<1>5. Housed(u, {})
  BY <1>1, <1>2, <1>3 DEF Plain, Housed, Concluded
<1>6. QED
  BY <1>2, <1>4, <1>5 DEF Plain, Finished

\* finish_never_started
LEMMA NeverStartedPlain ==
  ASSUME NEW s, NEW R, Plain(s, R), R \intersect s.queue.has = {}, NEW ahead, NEW C,
         NEW u, u = FinishNeverStarted(s, R, ahead, C)
  PROVE  Plain(u, {}) /\ Finished(s, R, u)
<1> DEFINE t == [s EXCEPT !.handle_only = (@ \ R) \union {i \in R : s.req[i].background},
                          !.killed = @ \ R]
<1>1. /\ DOMAIN t = Fields /\ t.config = s.config /\ t.pending = s.pending /\ t.active = s.active
      /\ t.queue = s.queue /\ t.req = s.req /\ t.done = s.done /\ t.caller = s.caller
      /\ t.waiter = s.waiter
  BY DEF Plain, Shaped, Fields
<1>2. u = Conclude(t, R, ahead, C)
  BY DEF FinishNeverStarted
<1> HIDE DEF t
<1>3. Live(t) = Live(s) /\ Started(t) = Started(s)
  BY <1>1 DEF Live, Started
<1>4. Plain(t, R)
  BY <1>1, <1>3 DEF Plain, Shaped, Housed
<1>5. Plain(u, {}) /\ Finished(t, R, u)
  BY <1>1, <1>2, <1>4, ConcludePlain
<1>6. QED
  BY <1>1, <1>3, <1>5 DEF Finished

\* finish_cancelled_queued
LEMMA CancelledQueuedPlain ==
  ASSUME NEW s, NEW R, Plain(s, R), R \intersect s.queue.has = {}, NEW ahead,
         NEW u, u = FinishCancelledQueued(s, R, ahead)
  PROVE  Plain(u, {}) /\ Finished(s, R, u)
<1> DEFINE t == [s EXCEPT !.cancelled = @ \union R]
<1>1. /\ DOMAIN t = Fields /\ t.config = s.config /\ t.pending = s.pending /\ t.active = s.active
      /\ t.queue = s.queue /\ t.req = s.req /\ t.done = s.done /\ t.caller = s.caller
      /\ t.waiter = s.waiter
  BY DEF Plain, Shaped, Fields
<1>2. u = FinishNeverStarted(t, R, ahead, R)
  BY DEF FinishCancelledQueued
<1> HIDE DEF t
<1>3. Live(t) = Live(s) /\ Started(t) = Started(s)
  BY <1>1 DEF Live, Started
<1>4. Plain(t, R)
  BY <1>1, <1>3 DEF Plain, Shaped, Housed
<1>5. Plain(u, {}) /\ Finished(t, R, u)
  BY <1>1, <1>2, <1>4, NeverStartedPlain
<1>6. QED
  BY <1>1, <1>3, <1>5 DEF Finished

\* The order of who stays in a line.
LEMMA WithoutOrder ==
  ASSUME NEW line, line.has \subseteq Ids, NEW R, NEW new, new = Without(line, R)
  PROVE  /\ new.has = line.has \ R
         /\ \A i \in new.has : new.ahead[i] = line.ahead[i] \ R
BY DEF Without

LEMMA FinishedMoved ==
  ASSUME NEW s, InLine(s.queue), NEW R, R \intersect s.queue.has = {}, NEW u, Finished(s, R, u)
  PROVE  Moved(s, u, {}, R)
<1>1. s.queue.has = s.queue.has \ ({} \union R)
  OBVIOUS
<1>2. \A i \in s.queue.has : s.queue.ahead[i] = s.queue.ahead[i] \ ({} \union R)
  BY DEF InLine
<1>3. QED
  BY <1>1, <1>2 DEF Moved, Finished

\* start_queued_within_capacity
LEMMA SweepMoved ==
  ASSUME NEW s, Plain(s, {}), NEW u, u = Sweep(s)
  PROVE  Plain(u, {}) /\ Moved(s, u, Starts(s), s.queue.has \intersect s.cancelled)
<1> DEFINE R == Starts(s)
           X == s.queue.has \intersect s.cancelled
           v == StartChild(s, R)
           line == Without(v.queue, R \union X)
           t == [v EXCEPT !.queue = Without(@, R \union X)]
<1>1. R \union X \subseteq s.queue.has /\ R \intersect X = {}
  BY DEF Starts
<1>2. u = FinishCancelledQueued(t, X, s.queue.ahead)
  BY DEF Sweep
<1> HIDE DEF R, X
<1>3. /\ DOMAIN v = Fields /\ v.config = s.config /\ v.queue = s.queue
      /\ v.pending = s.pending \union R /\ v.active = s.active /\ v.done = s.done
      /\ v.req = s.req /\ v.caller = s.caller /\ v.waiter = s.waiter
  BY StartFields DEF Plain, Shaped
<1> HIDE DEF v
<1>4. s.queue.has \subseteq Ids
  BY DEF Plain, Shaped, Live
<1>5. /\ line.has = s.queue.has \ (R \union X)
      /\ \A i \in line.has : line.ahead[i] = s.queue.ahead[i] \ (R \union X)
  BY <1>3, <1>4, WithoutOrder
<1> HIDE DEF line
<1>6. /\ DOMAIN t = Fields /\ t.config = v.config /\ t.queue = line
      /\ t.pending = v.pending /\ t.active = v.active /\ t.done = v.done
      /\ t.req = v.req /\ t.caller = v.caller /\ t.waiter = v.waiter
  BY <1>3 DEF Fields, line
<1> HIDE DEF t
<1>7. /\ Started(t) = Started(s) \union R /\ Live(t) \union X = Live(s)
      /\ Live(t) \subseteq Live(s)
  BY <1>1, <1>3, <1>5, <1>6 DEF Live, Started
<1>8. Shaped(t, X)
  BY <1>3, <1>6, <1>7 DEF Plain, Shaped
<1>9. Housed(t, X)
  <2>1. \A i \in R \union X : i \notin Started(s)
    BY <1>1 DEF Plain, Housed
  <2>2. t.pending \intersect t.active = {}
    BY <1>1, <1>3, <1>6, <2>1 DEF Plain, Housed, Started
  <2>3. Started(t) \intersect t.queue.has = {}
    BY <1>5, <1>6, <1>7 DEF Plain, Housed
  <2>4. (Live(t) \union X) \intersect t.done.has = {}
    BY <1>3, <1>6, <1>7 DEF Plain, Housed
  <2>5. QED
    BY <2>2, <2>3, <2>4 DEF Housed
<1>10. Plain(u, {}) /\ Finished(t, X, u)
  BY <1>2, <1>5, <1>6, <1>8, <1>9, CancelledQueuedPlain DEF Plain
<1>11. Moved(s, u, R, X)
  BY <1>3, <1>5, <1>6, <1>7, <1>10 DEF Moved, Finished
<1>12. QED
  BY <1>10, <1>11 DEF R, X

\* The slots of the sessions are used, and the queue is in order.
Used(s) == Plain(s, {}) /\ Lined(s, Limit) /\ Filled(s, Limit)

\* From s the actor has come to u in turn.
InTurn(s, u) == Used(u) /\ Turn(s, u)

LEMMA InTurnOn ==
  ASSUME NEW s, InLine(s.queue), NEW t, Turn(s, t), NEW u, InTurn(t, u)
  PROVE  InTurn(s, u)
BY TurnOn DEF InTurn

\* Whatever is free before the sweep.
LEMMA SweepInTurn ==
  ASSUME NEW s, Plain(s, {}), Limit \in Nat, Lined(s, Limit)
  PROVE  InTurn(s, Sweep(s))
<1> DEFINE u == Sweep(s)
<1>1. Plain(u, {}) /\ Moved(s, u, Starts(s), s.queue.has \intersect s.cancelled)
  BY SweepMoved
<1> HIDE DEF u
<1>2. Lined(u, Limit) /\ Filled(u, Limit) /\ Turn(s, u)
  BY <1>1, SweepSlots DEF Plain, Shaped
<1>3. QED
  BY <1>1, <1>2 DEF InTurn, Used, u

\* Finished, and then the sweep.
LEMMA FinishInTurn ==
  ASSUME NEW s, Plain(s, {}), Limit \in Nat, Lined(s, Limit), NEW X,
         NEW u, Plain(u, {}), Moved(s, u, {}, X)
  PROVE  InTurn(s, Sweep(u))
<1>1. Lined(u, Limit)
  BY MovedLined DEF Plain, Shaped
<1>2. Turn(s, u)
  BY MovedTurn DEF Plain
<1>3. InTurn(u, Sweep(u))
  BY <1>1, SweepInTurn
<1>4. QED
  BY <1>2, <1>3, InTurnOn DEF Lined

\* Nobody has moved.
LEMMA StillInTurn ==
  ASSUME NEW s, Used(s), Limit \in Nat, NEW t, Plain(t, {}), Moved(s, t, {}, {})
  PROVE  InTurn(s, t)
<1>1. Lined(t, Limit) /\ Filled(t, Limit)
  BY MovedLined DEF Used, Plain, Shaped
<1>2. Turn(s, t)
  BY MovedTurn DEF Used, Plain
<1>3. QED
  BY <1>1, <1>2 DEF InTurn, Used

\* What the slots depend on.
SlotFields == {"config", "pending", "active", "queue", "done", "req"}

LEMMA QuietInTurn ==
  ASSUME NEW s, Used(s), Limit \in Nat, NEW t, Plain(t, {}), \A f \in SlotFields : t[f] = s[f]
  PROVE  InTurn(s, t)
<1>1. /\ t.config = s.config /\ t.pending = s.pending /\ t.active = s.active
      /\ t.queue = s.queue /\ t.done = s.done /\ t.req = s.req
  BY DEF SlotFields
<1>2. Moved(s, t, {}, {})
  BY <1>1 DEF Moved, Started
<1>3. QED
  BY <1>2, StillInTurn

LEMMA SelfInTurn ==
  ASSUME NEW s, Used(s), Limit \in Nat
  PROVE  InTurn(s, s)
BY QuietInTurn DEF Used

\* remove_queued
LEMMA RemoveQueuedInTurn ==
  ASSUME NEW s, Used(s), Limit \in Nat, NEW R, R \subseteq s.queue.has
  PROVE  InTurn(s, RemoveQueued(s, R))
<1>1. CASE R = {}
  BY <1>1, SelfInTurn DEF RemoveQueued
<1>2. CASE R # {}
  <2> DEFINE line == Without(s.queue, R)
             t == [s EXCEPT !.queue = Without(@, R)]
             u == FinishCancelledQueued(t, R, s.queue.ahead)
  <2>1. RemoveQueued(s, R) = Sweep(u)
    BY <1>2 DEF RemoveQueued
  <2>2. /\ line.has = s.queue.has \ R
        /\ \A i \in line.has : line.ahead[i] = s.queue.ahead[i] \ R
    BY WithoutOrder DEF Used, Plain, Shaped, Live
  <2> HIDE DEF line
  <2>3. /\ DOMAIN t = Fields /\ t.config = s.config /\ t.queue = line
        /\ t.pending = s.pending /\ t.active = s.active /\ t.done = s.done
        /\ t.req = s.req /\ t.caller = s.caller /\ t.waiter = s.waiter
    BY DEF Used, Plain, Shaped, Fields, line
  <2> HIDE DEF t
  <2>4. Started(t) = Started(s) /\ Live(t) \union R = Live(s) /\ Live(t) \subseteq Live(s)
    BY <2>2, <2>3 DEF Live, Started
  <2>5. Shaped(t, R) /\ Housed(t, R)
    BY <2>2, <2>3, <2>4 DEF Used, Plain, Shaped, Housed
  <2>6. R \intersect t.queue.has = {}
    BY <2>2, <2>3
  <2>7. Plain(u, {}) /\ Finished(t, R, u)
    BY <2>5, <2>6, CancelledQueuedPlain DEF Plain
  <2> HIDE DEF u
  <2>8. Moved(s, u, {}, R)
    BY <2>2, <2>3, <2>4, <2>7 DEF Moved, Finished
  <2>9. InTurn(s, Sweep(u))
    BY <2>7, <2>8, FinishInTurn DEF Used
  <2>10. QED
    BY <2>1, <2>9
<1>3. QED
  BY <1>1, <1>2

\* finish_child
LEMMA FinishChildInTurn ==
  ASSUME NEW s, Used(s), Limit \in Nat, NEW id \in Started(s), NEW C
  PROVE  InTurn(s, FinishChild(s, id, C))
<1> DEFINE u == Conclude(s, {id}, [i \in Ids |-> {}], C)
<1>1. {id} \intersect s.queue.has = {} /\ {id} \subseteq Live(s)
  BY DEF Used, Plain, Housed, Live
<1>2. Plain(s, {id})
  BY <1>1 DEF Used, Plain, Shaped, Housed
<1>3. Plain(u, {}) /\ Finished(s, {id}, u)
  BY <1>1, <1>2, ConcludePlain
<1>4. FinishChild(s, id, C) = Sweep(u)
  BY DEF FinishChild
<1> HIDE DEF u
<1>5. Moved(s, u, {}, {id})
  BY <1>1, <1>3, FinishedMoved DEF Used, Lined
<1>6. InTurn(s, Sweep(u))
  BY <1>3, <1>5, FinishInTurn DEF Used
<1>7. QED
  BY <1>4, <1>6

\* reap_abandoned_callers
LEMMA ReapInTurn ==
  ASSUME NEW s, NEW B, Sound(s, {}, B), Used(s), Limit \in Nat
  PROVE  InTurn(s, Reap(s))
<1> DEFINE t == ReapCallers(s)
           R == t.queue.has \intersect t.cancelled
<1>1. Sound(t, {}, B) /\ KeptBut(s, t, {"reply", "cancelled", "handle_only", "deadline"})
  BY ReapCallersSound
<1>2. Reap(s) = RemoveQueued(t, R) /\ R \subseteq t.queue.has
  BY DEF Reap
<1> HIDE DEF t, R
<1>3. InTurn(s, t)
  <2>1. \A f \in SlotFields : t[f] = s[f]
    BY <1>1 DEF KeptBut, Fields, SlotFields
  <2>2. Plain(t, {})
    BY <1>1 DEF Plain, Sound
  <2>3. QED
    BY <2>1, <2>2, QuietInTurn
<1>4. InTurn(t, Reap(s))
  BY <1>2, <1>3, RemoveQueuedInTurn DEF InTurn
<1>5. QED
  BY <1>3, <1>4, InTurnOn DEF InTurn, Used, Lined

\* The cancelling commands.
LEMMA CancelAllInTurn ==
  ASSUME NEW s, Used(s), Limit \in Nat, NEW R
  PROVE  InTurn(s, CancelAll(s, R))
<1> DEFINE t == [s EXCEPT !.cancelled = @ \union (R \intersect Started(s))]
           Q == R \intersect s.queue.has
<1>1. CancelAll(s, R) = RemoveQueued(t, Q)
  BY DEF CancelAll
<1>2. /\ DOMAIN t = Fields /\ t.config = s.config /\ t.queue = s.queue
      /\ t.pending = s.pending /\ t.active = s.active /\ t.done = s.done
      /\ t.req = s.req /\ t.caller = s.caller /\ t.waiter = s.waiter
  BY DEF Used, Plain, Shaped, Fields
<1>3. Q \subseteq t.queue.has
  BY <1>2
<1> HIDE DEF t, Q
<1>4. Plain(t, {})
  <2>1. Live(t) = Live(s) /\ Started(t) = Started(s)
    BY <1>2 DEF Live, Started
  <2>2. QED
    BY <1>2, <2>1 DEF Used, Plain, Shaped, Housed
<1>5. InTurn(s, t)
  BY <1>2, <1>4, QuietInTurn DEF SlotFields
<1>6. InTurn(t, CancelAll(s, R))
  BY <1>1, <1>3, <1>5, RemoveQueuedInTurn DEF InTurn
<1>7. QED
  BY <1>5, <1>6, InTurnOn DEF InTurn, Used, Lined

\* The same, after some other change.
LEMMA ThenCancelInTurn ==
  ASSUME NEW s, Used(s), Limit \in Nat, NEW t, InTurn(s, t), NEW R
  PROVE  InTurn(s, CancelAll(t, R))
<1>1. InTurn(t, CancelAll(t, R))
  BY CancelAllInTurn DEF InTurn
<1>2. QED
  BY <1>1, InTurnOn DEF InTurn, Used, Lined

\* A new subagent is accepted: nobody has moved.
LEMMA AcceptInTurn ==
  ASSUME NEW s, Used(s), Limit \in Nat, NEW id \in Ids, id \notin Live(s) \union s.done.has,
         NEW r, DOMAIN r = RequestFields, NEW t, t = Accept(s, id, r)
  PROVE  /\ InTurn(s, t) /\ Plain(t, {id}) /\ t.req[id] = r
         /\ id \notin Live(t) \union t.done.has
         /\ \A p : SessionRunning(t, p) = SessionRunning(s, p)
<1> DEFINE req == [s.req EXCEPT ![id] = r]
           caller == [s.caller EXCEPT ![id] = "waiting"]
<1>1. /\ DOMAIN t = Fields /\ t.config = s.config /\ t.queue = s.queue
      /\ t.pending = s.pending /\ t.active = s.active /\ t.done = s.done
      /\ t.req = req /\ t.caller = caller /\ t.waiter = s.waiter
  BY DEF Accept, Used, Plain, Shaped, Fields
<1>2. /\ DOMAIN req = Ids /\ req[id] = r /\ \A i \in Ids \ {id} : req[i] = s.req[i]
      /\ DOMAIN caller = Ids
  BY DEF Used, Plain, Shaped
<1> HIDE DEF req, caller
<1>3. Live(t) = Live(s) /\ Started(t) = Started(s)
  BY <1>1 DEF Live, Started
<1>4. \A i \in Live(s) : t.req[i] = s.req[i]
  BY <1>1, <1>2 DEF Used, Plain, Shaped
<1>5. Shaped(t, {id}) /\ Shaped(t, {})
  BY <1>1, <1>2, <1>3 DEF Used, Plain, Shaped
<1>6. Housed(t, {id}) /\ Housed(t, {})
  BY <1>1, <1>3 DEF Used, Plain, Housed
<1>7. Moved(s, t, {}, {})
  BY <1>1, <1>3, <1>4 DEF Moved
<1>8. InTurn(s, t)
  BY <1>5, <1>6, <1>7, StillInTurn DEF Plain
<1>9. \A p : SessionRunning(t, p) = SessionRunning(s, p)
  BY <1>3, <1>4 DEF SessionRunning, Live
<1>10. QED
  BY <1>1, <1>2, <1>3, <1>5, <1>6, <1>8, <1>9 DEF Plain

\* It is started in a free slot.
LEMMA StartInTurn ==
  ASSUME NEW s, Used(s), Limit \in Nat, NEW id \in Ids, id \notin Live(s) \union s.done.has,
         IsWorkflow(s.req[id]) \/ Cardinality(SessionRunning(s, s.req[id].session)) < Limit,
         NEW u, u = StartChild(s, {id})
  PROVE  InTurn(s, u)
<1>1. /\ DOMAIN u = Fields /\ u.config = s.config /\ u.queue = s.queue
      /\ u.pending = s.pending \union {id} /\ u.active = s.active /\ u.done = s.done
      /\ u.req = s.req /\ u.caller = s.caller /\ u.waiter = s.waiter
  BY StartFields DEF Used, Plain, Shaped
<1>2. /\ Live(u) = Live(s) \union {id} /\ Started(u) = Started(s) \union {id}
      /\ id \notin s.queue.has /\ id \notin Started(s) /\ s.queue.has \subseteq Live(s)
  BY <1>1 DEF Live, Started
<1>3. Shaped(u, {})
  BY <1>1, <1>2 DEF Used, Plain, Shaped
<1>4. Housed(u, {})
  BY <1>1, <1>2 DEF Used, Plain, Housed, Started
<1>5. \A p : SessionRunning(u, p) =
        IF s.req[id].session = p /\ ~IsWorkflow(s.req[id])
        THEN SessionRunning(s, p) \union {id} ELSE SessionRunning(s, p)
  BY <1>1, <1>2 DEF SessionRunning
<1>6. \A p : IsFiniteSet(SessionRunning(s, p)) /\ Cardinality(SessionRunning(s, p)) \in Nat
  BY RunningFinite DEF Used, Plain, Shaped
<1>7. ASSUME NEW p
      PROVE  /\ Cardinality(SessionRunning(u, p)) >= Cardinality(SessionRunning(s, p))
             /\ Cardinality(SessionRunning(u, p)) \in Nat
             /\ Cardinality(SessionRunning(s, p)) <= Limit =>
                  Cardinality(SessionRunning(u, p)) <= Limit
  <2>1. CASE s.req[id].session = p /\ ~IsWorkflow(s.req[id])
    <3>1. SessionRunning(u, p) = SessionRunning(s, p) \union {id}
      BY <1>5, <2>1
    <3>2. Cardinality(SessionRunning(s, p)) < Limit
      BY <2>1
    <3>3. id \notin SessionRunning(s, p)
      BY <1>2 DEF SessionRunning
    <3>4. Cardinality(SessionRunning(u, p)) = Cardinality(SessionRunning(s, p)) + 1
      BY <1>6, <3>1, <3>3, FS_AddElement
    <3>5. QED
      BY <1>6, <3>2, <3>4
  <2>2. CASE ~(s.req[id].session = p /\ ~IsWorkflow(s.req[id]))
    <3>1. SessionRunning(u, p) = SessionRunning(s, p)
      BY <1>5, <2>2
    <3>2. QED
      BY <1>6, <3>1
  <2>3. QED
    BY <2>1, <2>2
<1>8. Lined(u, Limit)
  BY <1>1, <1>7 DEF Used, Lined
<1>9. Filled(u, Limit)
  <2>1. \A i \in s.queue.has : Cardinality(SessionRunning(s, s.req[i].session)) >= Limit
    BY DEF Used, Filled
  <2>2. \A i \in s.queue.has : Cardinality(SessionRunning(u, s.req[i].session)) >= Limit
    BY <1>6, <1>7, <2>1
  <2>3. QED
    BY <1>1, <2>2 DEF Filled
<1>10. Turn(s, u)
  BY <1>1, <1>2 DEF Turn, Used, Plain, Housed
<1>11. QED
  BY <1>3, <1>4, <1>8, <1>9, <1>10 DEF InTurn, Used, Plain

\* It waits for one.
LEMMA EnqueueInTurn ==
  ASSUME NEW s, Used(s), Limit \in Nat, NEW id \in Ids, id \notin Live(s) \union s.done.has,
         ~IsWorkflow(s.req[id]), Cardinality(SessionRunning(s, s.req[id].session)) >= Limit,
         NEW ahead, ahead[id] = {}, NEW u, u = [s EXCEPT !.queue = Behind(@, {id}, ahead)]
  PROVE  InTurn(s, u)
<1> DEFINE line == Behind(s.queue, {id}, ahead)
<1>1. id \notin s.queue.has /\ id \notin Started(s) /\ s.queue.has \subseteq Ids \intersect Live(s)
  BY DEF Used, Plain, Shaped, Live
<1>2. InLine(line) /\ line.has = s.queue.has \union {id}
  BY <1>1, LineGrows DEF Used, Lined
<1>3. \A i \in s.queue.has : line.ahead[i] = s.queue.ahead[i]
  BY <1>1 DEF Behind
<1>4. /\ DOMAIN u = Fields /\ u.config = s.config /\ u.queue = line
      /\ u.pending = s.pending /\ u.active = s.active /\ u.done = s.done
      /\ u.req = s.req /\ u.caller = s.caller /\ u.waiter = s.waiter
  BY DEF Used, Plain, Shaped, Fields
<1> HIDE DEF line
<1>5. Live(u) = Live(s) \union {id} /\ Started(u) = Started(s)
  BY <1>2, <1>4 DEF Live, Started
<1>6. Shaped(u, {})
  BY <1>4, <1>5 DEF Used, Plain, Shaped
<1>7. Housed(u, {})
  BY <1>1, <1>2, <1>4, <1>5 DEF Used, Plain, Housed
<1>8. \A p : SessionRunning(u, p) = SessionRunning(s, p)
  BY <1>4, <1>5 DEF SessionRunning
<1>9. Lined(u, Limit)
  BY <1>2, <1>4, <1>8 DEF Used, Lined
<1>10. Filled(u, Limit)
  BY <1>2, <1>4, <1>8 DEF Used, Filled
<1>11. Turn(s, u)
  <2>1. u.queue.has \intersect (Live(s) \union s.done.has) \subseteq s.queue.has
    BY <1>2, <1>4
  <2>2. Live(u) \intersect s.done.has = {}
    BY <1>5 DEF Used, Plain, Housed
  <2>3. s.queue.has \intersect Started(u) = {}
    BY <1>5 DEF Used, Plain, Housed
  <2>4. QED
    BY <1>3, <1>4, <1>5, <2>1, <2>2, <2>3 DEF Turn
<1>12. QED
  BY <1>6, <1>7, <1>9, <1>10, <1>11 DEF InTurn, Used, Plain

\* handle_spawn
LEMMA SpawnInTurn ==
  ASSUME NEW s, Used(s), Limit \in Nat, NEW id \in Ids, NEW session, NEW kind
  PROVE  InTurn(s, HandleSpawn(s, id, session, kind))
<1> DEFINE r == Reparent(s, session, kind)
           t == Accept(s, id, r)
           nobody == [i \in Ids |-> {}]
           u == HandleSpawn(s, id, session, kind)
           running == Cardinality(SessionRunning(s, r.session))
<1>1. CASE Refused(s, id, session, r)
  <2>1. u = s
    BY <1>1 DEF HandleSpawn
  <2>2. QED
    BY <2>1, SelfInTurn
<1>2. CASE ~Refused(s, id, session, r)
  <2>1. DOMAIN r = RequestFields
    BY DEF Reparent, RequestFields
  <2>2. id \notin Live(s) \union s.done.has
    BY <1>2 DEF Refused
  <2>3. \/ u = StartChild(t, {id}) /\ (IsWorkflow(r) \/ running < Limit)
        \/ u = [t EXCEPT !.queue = Behind(@, {id}, nobody)] /\ ~IsWorkflow(r) /\ ~(running < Limit)
        \/ u = Sweep(FinishNeverStarted(t, {id}, nobody, {}))
    <3>1. u = CASE Admit(s, r) = "start"   -> StartChild(t, {id})
                [] Admit(s, r) = "enqueue" -> [t EXCEPT !.queue = Behind(@, {id}, nobody)]
                [] Admit(s, r) = "reject"  -> Sweep(FinishNeverStarted(t, {id}, nobody, {}))
      BY <1>2 DEF HandleSpawn
    <3>2. \/ Admit(s, r) = "start" /\ (IsWorkflow(r) \/ running < Limit)
          \/ Admit(s, r) = "enqueue" /\ ~IsWorkflow(r) /\ ~(running < Limit)
          \/ Admit(s, r) = "reject"
      BY DEF Admit, HasCapacity
    <3> HIDE DEF r, t, u, nobody, running
    <3>3. QED
      BY <3>1, <3>2
  <2>4. nobody[id] = {}
    OBVIOUS
  <2> HIDE DEF r, nobody, u
  <2>5. /\ InTurn(s, t) /\ Plain(t, {id}) /\ t.req[id] = r
        /\ id \notin Live(t) \union t.done.has
        /\ \A p : SessionRunning(t, p) = SessionRunning(s, p)
    BY <2>1, <2>2, AcceptInTurn
  <2> HIDE DEF t
  <2>6. Cardinality(SessionRunning(t, t.req[id].session)) = running /\ running \in Nat
    <3>1. running \in Nat
      BY RunningFinite DEF Used, Plain, Shaped
    <3>2. QED
      BY <2>5, <3>1
  <2>7. Used(t) /\ InLine(s.queue) /\ Turn(s, t)
    BY <2>5 DEF InTurn, Used, Lined
  <2> HIDE DEF running
  <2>8. CASE u = StartChild(t, {id}) /\ (IsWorkflow(r) \/ running < Limit)
    <3>1. InTurn(t, u)
      BY <2>5, <2>6, <2>7, <2>8, StartInTurn
    <3>2. QED
      BY <2>7, <3>1, InTurnOn DEF u
  <2>9. CASE u = [t EXCEPT !.queue = Behind(@, {id}, nobody)] /\ ~IsWorkflow(r) /\ ~(running < Limit)
    <3>1. Cardinality(SessionRunning(t, t.req[id].session)) >= Limit /\ ~IsWorkflow(t.req[id])
      BY <2>5, <2>6, <2>9
    <3>2. InTurn(t, u)
      BY <2>4, <2>5, <2>7, <2>9, <3>1, EnqueueInTurn
    <3>3. QED
      BY <2>7, <3>2, InTurnOn DEF u
  <2>10. CASE u = Sweep(FinishNeverStarted(t, {id}, nobody, {}))
    <3> DEFINE v == FinishNeverStarted(t, {id}, nobody, {})
    <3>1. {id} \intersect t.queue.has = {}
      BY <2>5 DEF Live
    <3>2. Plain(v, {}) /\ Finished(t, {id}, v)
      BY <2>5, <3>1, NeverStartedPlain
    <3>3. u = Sweep(v)
      BY <2>10
    <3> HIDE DEF v
    <3>4. Moved(t, v, {}, {id})
      BY <2>7, <3>1, <3>2, FinishedMoved DEF Used, Lined
    <3>5. InTurn(t, u)
      BY <2>7, <3>2, <3>3, <3>4, FinishInTurn DEF Used
    <3>6. QED
      BY <2>7, <3>5, InTurnOn DEF u
  <2>11. QED
    BY <2>3, <2>8, <2>9, <2>10
<1>3. QED
  BY <1>1, <1>2

\* teardown_session_children: the requests keep their session and owner.
LEMMA TeardownInTurn ==
  ASSUME NEW s, Used(s), Limit \in Nat, NEW p
  PROVE  InTurn(s, TeardownChildren(s, p))
<1> DEFINE R == {i \in Live(s) : s.req[i].session = p}
           req == [i \in Ids |-> IF i \in R THEN [s.req[i] EXCEPT !.surface = FALSE] ELSE s.req[i]]
           t == [s EXCEPT !.req = [i \in Ids |-> IF i \in R THEN [@[i] EXCEPT !.surface = FALSE]
                                                            ELSE @[i]],
                          !.torn = @ \union R]
<1>1. TeardownChildren(s, p) = CancelAll(t, R)
  BY DEF TeardownChildren
<1>2. /\ DOMAIN req = Ids
      /\ \A i \in Ids : /\ DOMAIN req[i] = RequestFields
                        /\ req[i].session = s.req[i].session /\ req[i].owner = s.req[i].owner
  <2>1. \A i \in Ids : DOMAIN s.req[i] = RequestFields
    BY DEF Used, Plain, Shaped
  <2>2. QED
    BY <2>1, MutedRequest
<1>3. /\ DOMAIN t = Fields /\ t.config = s.config /\ t.queue = s.queue
      /\ t.pending = s.pending /\ t.active = s.active /\ t.done = s.done
      /\ t.req = req /\ t.caller = s.caller /\ t.waiter = s.waiter
  BY DEF Used, Plain, Shaped, Fields
<1> HIDE DEF req, t, R
<1>4. Live(t) = Live(s) /\ Started(t) = Started(s)
  BY <1>3 DEF Live, Started
<1>5. Plain(t, {})
  BY <1>2, <1>3, <1>4 DEF Used, Plain, Shaped, Housed
<1>6. Live(s) \subseteq Ids
  BY DEF Used, Plain, Shaped
<1>7. Moved(s, t, {}, {})
  BY <1>2, <1>3, <1>4, <1>6 DEF Moved
<1>8. InTurn(s, t)
  BY <1>5, <1>7, StillInTurn
<1>9. QED
  BY <1>1, <1>8, ThenCancelInTurn

\* What an iteration of the loop promises of the state t it ends in.
Orderly(s, t) ==
  \A j \in s.queue.has : \A i \in s.queue.ahead[j] :
    (s.req[i].session = s.req[j].session /\ j \in Started(t)) => i \notin t.queue.has

Settles(s, t) ==
  t.config = s.config /\ Lined(t, Limit) /\ Filled(t, Limit) /\ Orderly(s, t)

LEMMA SettlesInTurn ==
  ASSUME NEW s, NEW t, InTurn(s, t)
  PROVE  Settles(s, t)
BY DEF InTurn, Used, Turn, Settles, Orderly

\* The eviction forgets the finished only.
LEMMA TrimSettles ==
  ASSUME NEW s, NEW u, InTurn(s, u), NEW t, t = Trim(u)
  PROVE  Settles(s, t)
<1> DEFINE E == Oldest(u.done, MaxCompleted)
           known == (Live(u) \union u.done.has \union u.buffer.has) \ (E \ u.buffer.has)
           req == [i \in Ids |-> IF i \in known THEN u.req[i] ELSE Blank]
<1>1. E \subseteq u.done.has
  BY LineFacts
<1>2. Live(u) \subseteq known /\ Live(u) \subseteq Ids
  BY <1>1 DEF InTurn, Used, Plain, Housed, Shaped
<1>3. \A i \in Live(u) : req[i] = u.req[i]
  BY <1>2
<1>4. /\ t.config = u.config /\ t.queue = u.queue /\ t.pending = u.pending
      /\ t.active = u.active /\ t.req = req
  BY DEF Trim, Forget, InTurn, Used, Plain, Shaped, Fields
<1> HIDE DEF E, known, req
<1>5. Started(t) = Started(u)
  BY <1>4 DEF Started
<1>6. \A p : SessionRunning(t, p) = SessionRunning(u, p)
  BY <1>3, <1>4, <1>5 DEF SessionRunning, Live
<1>7. \A i \in u.queue.has : t.req[i] = u.req[i]
  BY <1>3, <1>4 DEF Live
<1>8. Lined(t, Limit)
  BY <1>4, <1>6, <1>7 DEF InTurn, Used, Lined
<1>9. Filled(t, Limit)
  BY <1>4, <1>6, <1>7 DEF InTurn, Used, Filled
<1>10. Orderly(s, t) /\ t.config = s.config
  BY <1>4, <1>5 DEF InTurn, Turn, Orderly
<1>11. QED
  BY <1>8, <1>9, <1>10 DEF Settles

\* A handler that starts from the reap.
LEMMA HandledSettles ==
  ASSUME NEW s, InLine(s.queue), NEW r, InTurn(s, r), NEW u, InTurn(r, u), NEW t, t = Trim(u)
  PROVE  Settles(s, t)
<1>1. InTurn(s, u)
  BY InTurnOn DEF InTurn
<1>2. QED
  BY <1>1, TrimSettles

\* A step that touches nothing the slots depend on.
LEMMA KeptInTurn ==
  ASSUME NEW s, Used(s), Limit \in Nat, NEW B, NEW t, Sound(t, {}, B), NEW changed,
         KeptBut(s, t, changed), changed \intersect SlotFields = {}
  PROVE  InTurn(s, t)
<1>1. \A f \in SlotFields : t[f] = s[f]
  BY DEF KeptBut, Fields, SlotFields
<1>2. Plain(t, {})
  BY DEF Plain, Sound
<1>3. QED
  BY <1>1, <1>2, QuietInTurn

LEMMA LimitType == co.config \in Configs => Limit \in Nat
BY CoordinatorAssumption DEF Config, Limit, MaxConcurrent

LEMMA SlotStep ==
  ASSUME CoordinatorInv, SlotInv, [Next]_co
  PROVE  Settles(co, co')
<1> DEFINE B == co.blocked
           s == Reap(co)
<1>1. Sound(co, {}, B)
  BY DEF CoordinatorInv
<1> HIDE DEF B
<1>2. Limit \in Nat /\ Used(co) /\ InLine(co.queue)
  BY <1>1, LimitType DEF SlotInv, Used, Plain, Sound, Lined
<1>3. Sound(s, {}, B) /\ InTurn(co, s) /\ Used(s)
  <2>1. InTurn(co, s)
    BY <1>1, <1>2, ReapInTurn
  <2>2. Sound(s, {}, B)
    BY <1>1, ReapSound
  <2>3. QED
    BY <2>1, <2>2 DEF InTurn
<1>4. DOMAIN s = Fields /\ DOMAIN co = Fields
  BY <1>1, <1>3 DEF Sound, Shaped
<1> HIDE DEF s
<1>5. ASSUME NEW u, InTurn(s, u), co' = Trim(u)
      PROVE  Settles(co, co')
  BY <1>2, <1>3, <1>5, HandledSettles
<1>6. ASSUME NEW id \in Ids, NEW session \in Sessions, NEW kind \in Kinds, Spawn(id, session, kind)
      PROVE  Settles(co, co')
  <2>1. co' = Trim(HandleSpawn(s, id, session, kind))
    BY <1>6 DEF Spawn, s
  <2>2. InTurn(s, HandleSpawn(s, id, session, kind))
    BY <1>2, <1>3, SpawnInTurn
  <2>3. QED
    BY <1>5, <2>1, <2>2
<1>7. ASSUME NEW q \in Queries, NEW id \in Ids, NEW scope \in Scopes,
             NEW how \in {"block", "poll", "inspect"}, Query(q, id, scope, how)
      PROVE  Settles(co, co')
  <2> DEFINE u == HandleQuery(s, q, id, scope, how)
  <2>1. co' = Trim(u)
    BY <1>7 DEF Query, s
  <2>2. Sound(u, {}, B)
    BY <1>3, QuerySound
  <2>3. KeptBut(s, u, {"waiter", "progress"})
    <3>1. u \in {s, [s EXCEPT !.waiter[q] = id], [s EXCEPT !.progress[q] = id]}
      BY DEF HandleQuery
    <3> HIDE DEF u
    <3>2. QED
      BY <1>4, <3>1 DEF KeptBut, Fields
  <2> HIDE DEF u
  <2>4. InTurn(s, u)
    BY <1>2, <1>3, <2>2, <2>3, KeptInTurn DEF SlotFields
  <2>5. QED
    BY <1>5, <2>1, <2>4
<1>8. ASSUME NEW id \in Ids, NEW scope \in Scopes, CancelSubagent(id, scope)
      PROVE  Settles(co, co')
  <2> DEFINE t == [s EXCEPT !.killed = @ \union ({id} \intersect Started(s))]
  <2>1. co' = Trim(s) \/ co' = Trim(CancelAll(t, {id}))
    BY <1>8 DEF CancelSubagent, CancelOne, s
  <2>2. KeptBut(s, t, {"progress", "lost", "ran", "killed"}) /\ s.killed \subseteq t.killed
    BY <1>4 DEF KeptBut, Fields
  <2> HIDE DEF t
  <2>3. Sound(t, {}, B)
    BY <1>3, <2>2, UnreadSound
  <2>4. InTurn(s, t)
    BY <1>2, <1>3, <2>2, <2>3, KeptInTurn DEF SlotFields
  <2>5. InTurn(s, CancelAll(t, {id})) /\ InTurn(s, s)
    BY <1>2, <1>3, <2>4, ThenCancelInTurn, SelfInTurn
  <2>6. QED
    BY <1>5, <2>1, <2>5
<1>9. ASSUME NEW prompt \in Prompts, NEW scope \in Scopes, CancelParentPrompt(prompt, scope)
      PROVE  Settles(co, co')
  <2> DEFINE R == {i \in Live(s) : /\ s.req[i].prompt = prompt
                                   /\ BelongsToSession(s.req[i], scope)}
  <2>1. co' = Trim(CancelAll(s, R))
    BY <1>9 DEF CancelParentPrompt, s
  <2> HIDE DEF R
  <2>2. InTurn(s, CancelAll(s, R))
    BY <1>2, <1>3, CancelAllInTurn
  <2>3. QED
    BY <1>5, <2>1, <2>2
<1>10. ASSUME NEW scope \in Scopes, CancelParentSession(scope)
       PROVE  Settles(co, co')
  <2> DEFINE t == [s EXCEPT !.blocked = @ \union {scope}]
             R == {i \in Live(s) : s.req[i].session = scope /\ ~IsWorkflow(s.req[i])}
  <2>1. co' = Trim(s) \/ co' = Trim(CancelAll(t, R))
    BY <1>10 DEF CancelParentSession, Stop, s
  <2>2. /\ KeptBut(s, t, {"blocked"})
        /\ t.config = s.config /\ t.queue = s.queue
        /\ t.pending = s.pending /\ t.active = s.active /\ t.done = s.done
        /\ t.req = s.req /\ t.caller = s.caller /\ t.waiter = s.waiter
    BY <1>4 DEF KeptBut, Fields
  <2> HIDE DEF t, R
  <2>3. Plain(t, {})
    <3>1. Live(t) = Live(s) /\ Started(t) = Started(s)
      BY <2>2 DEF Live, Started
    <3>2. QED
      BY <1>3, <2>2, <3>1 DEF Used, Plain, Shaped, Housed, KeptBut
  <2>4. InTurn(s, t)
    BY <1>2, <1>3, <2>2, <2>3, QuietInTurn DEF SlotFields
  <2>5. InTurn(s, CancelAll(t, R)) /\ InTurn(s, s)
    BY <1>2, <1>3, <2>4, ThenCancelInTurn, SelfInTurn
  <2>6. QED
    BY <1>5, <2>1, <2>5
<1>11. ASSUME NEW p \in Hosted, OpenSpawnAdmission(p)
       PROVE  Settles(co, co')
  <2> DEFINE u == OpenAdmission(s, p)
  <2>1. co' = Trim(u)
    BY <1>11 DEF OpenSpawnAdmission, s
  <2>2. Sound(u, {}, B)
    BY <1>3, OpenSound
  <2>3. KeptBut(s, u, {"blocked"})
    BY <1>4 DEF OpenAdmission, KeptBut, Fields
  <2> HIDE DEF u
  <2>4. InTurn(s, u)
    BY <1>2, <1>3, <2>2, <2>3, KeptInTurn DEF SlotFields
  <2>5. QED
    BY <1>5, <2>1, <2>4
<1>12. ASSUME NEW run \in RunIds, NEW scope \in Scopes, CancelWorkflowRun(run, scope)
       PROVE  Settles(co, co')
  <2> DEFINE u == CancelRun(s, run, scope)
  <2>1. co' = Trim(u)
    BY <1>12 DEF CancelWorkflowRun, s
  <2>2. Sound(u, {}, B)
    BY <1>3, CancelRunSound
  <2>3. KeptBut(s, u, {"cancelled", "run_waiters"})
    BY <1>4 DEF CancelRun, KeptBut, Fields
  <2> HIDE DEF u
  <2>4. InTurn(s, u)
    BY <1>2, <1>3, <2>2, <2>3, KeptInTurn DEF SlotFields
  <2>5. QED
    BY <1>5, <2>1, <2>4
<1>13. ASSUME NEW scope \in Scopes, Completions(scope)
       PROVE  Settles(co, co')
  <2> DEFINE E == {i \in s.buffer.has : BelongsToSession(s.req[i], scope)}
             u == [s EXCEPT !.buffer = Without(@, E)]
  <2>1. co' = Trim(u)
    BY <1>13 DEF Completions, s
  <2>2. Sound(u, {}, B) /\ KeptBut(s, u, {"buffer"})
    BY <1>3, TakeSound
  <2> HIDE DEF u
  <2>3. InTurn(s, u)
    BY <1>2, <1>3, <2>2, KeptInTurn DEF SlotFields
  <2>4. QED
    BY <1>5, <2>1, <2>3
<1>14. ASSUME NEW p \in Hosted, NEW respond \in BOOLEAN, TeardownSession(p, respond)
       PROVE  Settles(co, co')
  <2> DEFINE E == {i \in s.buffer.has : s.req[i].session = p}
             purged == [s EXCEPT !.buffer = Without(@, E)]
             t == TeardownChildren(purged, p)
             u == [t EXCEPT !.blocked = @ \union {p}, !.drains = @ \union {p}]
  <2>1. co' = Trim(t) \/ co' = Trim(u)
    BY <1>14 DEF TeardownSession, Teardown, s
  <2>2. Sound(purged, {}, B) /\ KeptBut(s, purged, {"buffer"})
    BY <1>3, TakeSound
  <2> HIDE DEF purged
  <2>3. InTurn(s, purged)
    BY <1>2, <1>3, <2>2, KeptInTurn DEF SlotFields
  <2>4. InTurn(purged, t)
    BY <1>2, <2>3, TeardownInTurn DEF InTurn
  <2> HIDE DEF t
  <2>5. InTurn(s, t)
    BY <1>3, <2>3, <2>4, InTurnOn DEF InTurn, Used, Lined
  <2>6. /\ DOMAIN u = Fields /\ u.config = t.config /\ u.queue = t.queue
        /\ u.pending = t.pending /\ u.active = t.active /\ u.done = t.done
        /\ u.req = t.req /\ u.caller = t.caller /\ u.waiter = t.waiter
    BY <2>5 DEF InTurn, Used, Plain, Shaped, Fields
  <2> HIDE DEF u
  <2>7. Plain(u, {})
    <3>1. Live(u) = Live(t) /\ Started(u) = Started(t)
      BY <2>6 DEF Live, Started
    <3>2. QED
      BY <2>5, <2>6, <3>1 DEF InTurn, Used, Plain, Shaped, Housed
  <2>8. InTurn(t, u)
    BY <1>2, <2>5, <2>6, <2>7, QuietInTurn DEF SlotFields, InTurn
  <2>9. InTurn(s, u)
    BY <1>3, <2>5, <2>8, InTurnOn DEF InTurn, Used, Lined
  <2>10. QED
    BY <1>5, <2>1, <2>5, <2>9
<1>15. ASSUME Poll
       PROVE  Settles(co, co')
  BY <1>3, <1>15, TrimSettles DEF Poll, s
<1>16. ASSUME NEW id \in Ids, ReportStarted(id)
       PROVE  Settles(co, co')
  <2> DEFINE t == [co EXCEPT !.pending = @ \ {id}, !.active = @ \union {id}, !.ran = @ \union {id}]
  <2>1. co' = Trim(t) /\ id \in co.pending
    BY <1>16 DEF ReportStarted
  <2>2. Sound(t, {}, B)
    BY <1>1, <2>1, ReportSound
  <2>3. /\ t.pending = co.pending \ {id} /\ t.active = co.active \union {id}
        /\ t.config = co.config /\ t.queue = co.queue /\ t.done = co.done /\ t.req = co.req
    BY <1>4 DEF Fields
  <2> HIDE DEF t
  <2>4. Started(t) = Started(co)
    BY <2>1, <2>3 DEF Started
  <2>5. Moved(co, t, {}, {})
    BY <2>3, <2>4 DEF Moved
  <2>6. InTurn(co, t)
    BY <1>2, <2>2, <2>5, StillInTurn DEF Plain, Sound
  <2>7. QED
    BY <2>1, <2>6, TrimSettles
<1>17. ASSUME NEW id \in Ids, NEW cancelled \in BOOLEAN, RunEnds(id, cancelled)
       PROVE  Settles(co, co')
  <2> DEFINE C == IF cancelled THEN {id} ELSE {}
  <2>1. co' = Trim(FinishChild(co, id, C)) /\ id \in Started(co)
    BY <1>17 DEF RunEnds
  <2> HIDE DEF C
  <2>2. InTurn(co, FinishChild(co, id, C))
    BY <1>2, <2>1, FinishChildInTurn
  <2>3. QED
    BY <2>1, <2>2, TrimSettles
<1>18. ASSUME NEW q \in Queries, ProgressEnds(q)
       PROVE  Settles(co, co')
  <2> DEFINE t == [co EXCEPT !.progress[q] = None, !.lost = @ \ {q}]
  <2>1. co' = Trim(t)
    BY <1>18 DEF ProgressEnds
  <2>2. KeptBut(co, t, {"progress", "lost", "ran", "killed"}) /\ t.killed = co.killed
    BY <1>4 DEF KeptBut, Fields
  <2> HIDE DEF t
  <2>3. Sound(t, {}, B)
    BY <1>1, <2>2, UnreadSound
  <2>4. InTurn(co, t)
    BY <1>2, <2>2, <2>3, KeptInTurn DEF SlotFields
  <2>5. QED
    BY <2>1, <2>4, TrimSettles
<1>19. ASSUME Timer({}, {}, {})
       PROVE  Settles(co, co')
  <2>1. PICK D, W, X : ProcessDeadlines(D, W, X)
    BY <1>19 DEF Timer
  <2> DEFINE t == ClearTeardownDrain(s, X \intersect s.drains)
             u == BackgroundAtDeadline(t, D \intersect t.deadline)
             V == {q \in W : u.waiter[q] # None}
             v == QueriesDue(u, V)
  <2>2. co' = Trim(v)
    BY <2>1 DEF ProcessDeadlines, s
  <2>3. Sound(v, {}, B)
    BY <1>1, <1>3, TimerSound
  <2>4. KeptBut(s, t, {"blocked", "drains"})
    BY <1>4 DEF ClearTeardownDrain, KeptBut, Fields
  <2> HIDE DEF t
  <2>5. KeptBut(t, u, {"caller", "reply", "deadline", "handle_only"})
    BY <2>4 DEF BackgroundAtDeadline, KeptBut, Fields
  <2> HIDE DEF u, V
  <2>6. KeptBut(u, v, {"waiter", "progress", "lost"})
    BY <2>5 DEF QueriesDue, KeptBut, Fields
  <2> HIDE DEF v
  <2>7. \A f \in SlotFields : v[f] = s[f]
    BY <2>4, <2>5, <2>6 DEF KeptBut, Fields, SlotFields
  <2>8. InTurn(s, v)
    BY <1>2, <1>3, <2>3, <2>7, QuietInTurn DEF Plain, Sound
  <2>9. QED
    BY <1>5, <2>2, <2>8
<1>20. ASSUME NEW t, t = co', Sound(t, {}, t.blocked), NEW changed, KeptBut(co, t, changed),
              changed \intersect SlotFields = {}
       PROVE  Settles(co, co')
  BY <1>2, <1>20, KeptInTurn, SettlesInTurn
<1>21. ASSUME NEW t, t = co' PROVE Sound(t, {}, t.blocked)
  BY <1>21, CoordinatorStep DEF CoordinatorInv
<1>22. ASSUME CommandsClosed
       PROVE  Settles(co, co')
  <2>1. KeptBut(co, co', {"phase"})
    BY <1>4, <1>22 DEF CommandsClosed, KeptBut, Fields
  <2>2. QED
    BY <1>20, <1>21, <2>1 DEF SlotFields
<1>23. ASSUME Exit \/ DropActor
       PROVE  Settles(co, co')
  <2> DEFINE t == Dropped(co)
  <2>1. co' = t
    BY <1>23 DEF Exit, DropActor
  <2>2. t.queue = EmptyLine /\ t.pending = {} /\ t.active = {} /\ t.config = co.config
    BY <1>4 DEF Dropped, Fields
  <2> HIDE DEF t
  <2>3. Started(t) = {} /\ t.queue.has = {}
    BY <2>2 DEF Started, EmptyLine
  <2>4. \A p : SessionRunning(t, p) = {}
    BY <2>3 DEF SessionRunning
  <2>5. Cardinality({}) = 0
    BY FS_EmptySet
  <2>6. Lined(t, Limit) /\ Filled(t, Limit)
    BY <1>2, <2>3, <2>4, <2>5 DEF Lined, Filled, InLine
  <2>7. Settles(co, t)
    BY <2>2, <2>3, <2>6 DEF Settles, Orderly
  <2>8. QED
    BY <2>1, <2>7
<1>24. ASSUME NEW id \in Ids, CallerDrops(id)
       PROVE  Settles(co, co')
  <2>1. PICK tell \in BOOLEAN :
          co' = [co EXCEPT !.caller[id] = "gone",
                           !.cancelled = IF tell THEN @ \union {id} ELSE @]
    BY <1>24 DEF CallerDrops
  <2>2. KeptBut(co, co', {"caller", "cancelled"})
    BY <1>4, <2>1 DEF KeptBut, Fields
  <2>3. QED
    BY <1>20, <1>21, <2>2 DEF SlotFields
<1>25. ASSUME NEW id \in Ids, TokenCancelled(id)
       PROVE  Settles(co, co')
  <2>1. KeptBut(co, co', {"cancelled"})
    BY <1>4, <1>25 DEF TokenCancelled, KeptBut, Fields
  <2>2. QED
    BY <1>20, <1>21, <2>1 DEF SlotFields
<1>26. ASSUME NEW q \in Queries, QueryDropped(q)
       PROVE  Settles(co, co')
  <2>1. KeptBut(co, co', {"lost"})
    BY <1>4, <1>26 DEF QueryDropped, KeptBut, Fields
  <2>2. QED
    BY <1>20, <1>21, <2>1 DEF SlotFields
<1>27. ASSUME UNCHANGED co
       PROVE  Settles(co, co')
  <2>1. Settles(co, co)
    BY <1>2, SelfInTurn, SettlesInTurn
  <2>2. QED
    BY <1>27, <2>1
<1>28. QED
  BY <1>6, <1>7, <1>8, <1>9, <1>10, <1>11, <1>12, <1>13, <1>14, <1>15, <1>16, <1>17, <1>18,
     <1>19, <1>22, <1>23, <1>24, <1>25, <1>26, <1>27 DEF Next

LEMMA SlotInit == Init => SlotInv
<1> SUFFICES ASSUME Init PROVE SlotInv
  OBVIOUS
<1>1. /\ co.config \in Configs /\ co.queue = EmptyLine /\ co.pending = {} /\ co.active = {}
  BY DEF Init
<1>2. Started(co) = {} /\ co.queue.has = {}
  BY <1>1 DEF Started, EmptyLine
<1>3. \A p : SessionRunning(co, p) = {}
  BY <1>2 DEF SessionRunning
<1>4. Cardinality({}) = 0
  BY FS_EmptySet
<1>5. Limit \in Nat
  BY <1>1, LimitType
<1>6. QED
  BY <1>1, <1>2, <1>3, <1>4, <1>5 DEF SlotInv, Lined, Filled, InLine

LEMMA SlotNext == CoordinatorInv /\ SlotInv /\ [Next]_co => SlotInv'
<1> SUFFICES ASSUME CoordinatorInv, SlotInv, [Next]_co PROVE SlotInv'
  OBVIOUS
<1>1. Settles(co, co')
  BY SlotStep
<1>2. co'.config = co.config /\ co.config \in Configs
  BY <1>1 DEF Settles, SlotInv
<1>3. Limit' = Limit
  BY <1>2 DEF Limit, MaxConcurrent
<1>4. Lined(co', Limit) /\ Filled(co', Limit)
  BY <1>1 DEF Settles
<1>5. Lined(co', Limit') /\ Filled(co', Limit')
  BY <1>3, <1>4
<1>6. QED
  BY <1>2, <1>5 DEF SlotInv

LEMMA SlotSound == Spec => []SlotInv
<1>1. Init /\ [][Next]_co => []CoordinatorInv
  BY CoordinatorSound DEF Spec
<1>2. QED
  BY <1>1, SlotInit, SlotNext, PTL DEF Spec

\* A session runs no more subagents than its limit, and a spawn waits only while it runs
\* that many, whatever was finished, cancelled, swept, reaped or torn down in one go.
THEOREM SlotsUsedCorrect == Spec => []SlotsUsed
<1>1. CoordinatorInv /\ SlotInv => SlotsUsed
  <2> SUFFICES ASSUME CoordinatorInv, SlotInv PROVE SlotsUsed
    OBVIOUS
  <2>1. WithinLimit
    BY DEF SlotInv, Lined, WithinLimit
  <2>2. Limit \in Nat
    BY LimitType DEF SlotInv
  <2>3. \A p : Cardinality(SessionRunning(co, p)) \in Nat
    BY RunningFinite DEF CoordinatorInv, Sound, Shaped
  <2>4. QueuedImpliesFull
    BY <2>2, <2>3 DEF SlotInv, Filled, QueuedImpliesFull, HasCapacity
  <2>5. QED
    BY <2>1, <2>4 DEF SlotsUsed
<1>2. QED
  BY <1>1, CoordinatorSound, SlotSound, PTL

\* Within a session nobody is started past one that came earlier and still waits, although
\* a command may sweep the queue twice and a sweep start several.
THEOREM TurnsCorrect == Spec => NoOvertaking
<1> DEFINE Fair == \A j \in co.queue.has : \A i \in co.queue.ahead[j] :
                     (co.req[i].session = co.req[j].session /\ j \in Started(co)')
                       => i \notin co'.queue.has
<1>1. CoordinatorInv /\ SlotInv /\ [Next]_co => [Fair]_co
  <2> SUFFICES ASSUME CoordinatorInv, SlotInv, [Next]_co PROVE Fair
    OBVIOUS
  <2>1. Orderly(co, co')
    BY SlotStep DEF Settles
  <2>2. Started(co)' = Started(co')
    BY DEF Started
  <2>3. QED
    BY <2>1, <2>2 DEF Orderly
<1>2. QED
  BY <1>1, CoordinatorSound, SlotSound, PTL DEF Spec, NoOvertaking
=============================================================================
