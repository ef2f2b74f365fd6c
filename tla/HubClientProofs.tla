-------------------------- MODULE HubClientProofs --------------------------
(***************************************************************************)
(* Theorems about three parts of the hub client, for every number of       *)
(* borrowers, connections, sessions, disconnects, calls and loops: the     *)
(* pool of connections (HubPool), the readiness marker (HubReady) and a    *)
(* session with its cancellations (HubSessions).                           *)
(***************************************************************************)
EXTENDS HubPool, HubReady, HubSessions, FiniteSetTheorems, TLAPS

-----------------------------------------------------------------------------
(* The readiness marker                                                     *)

LEMMA ReadyInitial == ReadyInit => ReadyInv
<1> SUFFICES ASSUME ReadyInit PROVE ReadyInv
  OBVIOUS
<1>1. /\ notified \in BOOLEAN /\ all_served \in BOOLEAN
      /\ last_close_code \in BOOLEAN /\ shutting_down \in BOOLEAN
      /\ ~last_close_code /\ ~shutting_down
  BY DEF ReadyInit
<1>2. /\ epoch \in 0..MaxEpoch /\ epoch_at_start \in 0..epoch
      /\ left \subseteq Sessions /\ served \subseteq Sessions
  BY HubReadyAssumption DEF ReadyInit
<1>3. link = "up" /\ replay = "waiting" /\ state = "connected"
  BY DEF ReadyInit
<1> QED
  BY <1>1, <1>2, <1>3 DEF ReadyInv, ReadyTypeOK, ServedHere, EpochRoom, StaysOff

\* The callbacks of the reader: what they lose, they count.
LEMMA CallbackStep ==
  ASSUME ReadyInv, CallbackNext
  PROVE  ReadyInv'
<1> USE HubReadyAssumption
        DEF ReadyInv, ReadyTypeOK, ServedHere, EpochRoom, StaysOff, replayer, marker, Bump
<1>1. CASE Disconnects
  BY <1>1 DEF Disconnects
<1>2. CASE DisconnectCallback
  BY <1>2 DEF DisconnectCallback, SetDisconnected
<1>3. CASE Reconnects
  BY <1>3 DEF Reconnects, Notify
<1>4. CASE TerminalCloses
  BY <1>4 DEF TerminalCloses
<1>5. CASE TerminalCallback
  BY <1>5 DEF TerminalCallback, SetTerminalClose
<1>6. CASE TerminalDisconnects
  BY <1>6 DEF TerminalDisconnects
<1>7. CASE TerminalDisconnectCallback
  BY <1>7 DEF TerminalDisconnectCallback, SetDisconnected
<1> QED
  BY <1>1, <1>2, <1>3, <1>4, <1>5, <1>6, <1>7 DEF CallbackNext

\* The replay task, and a shutdown.
LEMMA ReplayStep ==
  ASSUME ReadyInv, ReplayNext \/ SetShuttingDown
  PROVE  ReadyInv'
<1> USE HubReadyAssumption
        DEF ReadyInv, ReadyTypeOK, ServedHere, EpochRoom, StaysOff, replayer, marker
<1>1. CASE Wakes
  BY <1>1 DEF Wakes
<1>2. CASE Starts
  BY <1>2 DEF Starts
<1>3. CASE \E s \in Sessions : ServesAgain(s)
  BY <1>3 DEF ServesAgain
<1>4. CASE \E s \in Sessions : ServeFails(s)
  <2>1. PICK s \in Sessions : ServeFails(s)
    BY <1>4
  <2>2. all_served' \in BOOLEAN /\ ~all_served' /\ replay = "serving"
    BY <2>1 DEF ServeFails
  <2> QED
    BY <2>1, <2>2 DEF ServeFails
<1>5. CASE Checks
  BY <1>5 DEF Checks, Raced
<1>6. CASE Settles
  BY <1>6 DEF Settles, SetConnected
<1>7. CASE SetShuttingDown
  BY <1>7 DEF SetShuttingDown
<1> QED
  BY <1>1, <1>2, <1>3, <1>4, <1>5, <1>6, <1>7 DEF ReplayNext

\* The marker is set to ready only for the socket on which every session was
\* served again, and never after a terminal close or a shutdown, however the
\* callbacks of the reader and the replay task interleave.
THEOREM MarkerCorrect == ReadySpec => []MarkerSettles
<1>1. ReadyInv /\ [ReadyNext]_readyVars => ReadyInv'
  <2> SUFFICES ASSUME ReadyInv, [ReadyNext]_readyVars PROVE ReadyInv'
    OBVIOUS
  <2>1. CASE UNCHANGED readyVars
    BY <2>1 DEF readyVars, replayer, marker, ReadyInv, ReadyTypeOK, ServedHere, EpochRoom,
                StaysOff
  <2> QED
    BY <2>1, CallbackStep, ReplayStep DEF ReadyNext
<1>2. ReadyInv => MarkerSettles
  BY DEF ReadyInv, ReadyTypeOK, ServedHere, MarkerSettles, SettlesThisSocket
<1> QED
  BY <1>1, <1>2, ReadyInitial, PTL DEF ReadySpec

-----------------------------------------------------------------------------
(* The pool                                                                 *)

LEMMA PoolInitial == PoolInit => PoolInv
<1> SUFFICES ASSUME PoolInit PROVE PoolInv
  OBVIOUS
<1>1. idle \in BOOLEAN
  BY DEF PoolInit
<1>2. /\ pooled \in 0..made /\ made \in 0..MaxConnections
      /\ borrower \in [Borrowers -> {"idle", "connecting", "connected", "using"}]
      /\ holds \in [Borrowers -> 0..made]
  BY HubPoolAssumption DEF PoolInit
<1>3. /\ actor \in [Connections -> {"unopened", "up", "refused", "forgotten", "ended", "stopped"}]
      /\ kind \in [Connections -> {"harness", "tool_server"}]
  BY DEF PoolInit
<1>4. \A b \in Borrowers : holds[b] = 0 /\ borrower[b] = "idle"
  BY DEF PoolInit
<1>5. \A c \in Connections : actor[c] = "unopened" /\ c > made
  BY HubPoolAssumption DEF PoolInit, Connections
<1> QED
  BY <1>1, <1>2, <1>3, <1>4, <1>5 DEF PoolInv, PoolTypeOK, KindAskedFor, UsedInSlot

ActorStates == {"unopened", "up", "refused", "forgotten", "ended", "stopped"}

\* No actor is brought up, and none is opened or unmade.
OnlyStops(before, after) ==
  /\ after \in [Connections -> ActorStates]
  /\ \A c \in Connections :
       /\ after[c] = "unopened" <=> before[c] = "unopened"
       /\ after[c] = "up" => before[c] = "up"

\* Dropping the connections that are left without an Arc only stops actors.
LEMMA DroppedType ==
  ASSUME NEW act \in [Connections -> ActorStates], NEW entry, NEW held
  PROVE  OnlyStops(act, Dropped(act, entry, held))
  BY DEF Dropped, OnlyStops, ActorStates

\* What get_or_connect does for a borrower.
LEMMA BorrowerStep ==
  ASSUME PoolInv, NEW b \in Borrowers,
         Hit(b) \/ Miss(b) \/ Connect(b) \/ ConnectFails(b) \/ Insert(b) \/ Release(b)
  PROVE  PoolInv'
<1> USE HubPoolAssumption
        DEF PoolInv, PoolTypeOK, KindAskedFor, UsedInSlot, Connections, ActorStates
<1>1. CASE Hit(b)
  <2>1. idle' \in BOOLEAN
    BY <1>1 DEF Hit
  <2>2. /\ pooled' = pooled /\ actor' = actor /\ kind' = kind /\ made' = made
        /\ pooled # 0 /\ borrower[b] = "idle"
    BY <1>1 DEF Hit
  <2>3. \/ /\ borrower' = [borrower EXCEPT ![b] = "using"]
           /\ holds' = [holds EXCEPT ![b] = pooled] /\ kind[pooled] = Kind[b]
        \/ /\ borrower' = [borrower EXCEPT ![b] = "idle"] /\ holds' = [holds EXCEPT ![b] = 0]
    BY <1>1 DEF Hit, Returns
  <2>4. pooled \in 1..made
    BY <2>2
  <2>5. /\ borrower' \in [Borrowers -> {"idle", "connecting", "connected", "using"}]
        /\ holds' \in [Borrowers -> 0..made]
    <3>1. borrower' \in [Borrowers -> {"idle", "connecting", "connected", "using"}]
      BY <2>3
    <3>2. holds \in [Borrowers -> 0..made] /\ 0 \in 0..made /\ pooled \in 0..made
      OBVIOUS
    <3>3. holds' \in [Borrowers -> 0..made]
      BY <2>3, <3>2
    <3> QED
      BY <3>1, <3>3
  <2>6. ASSUME NEW d \in Borrowers
        PROVE  /\ holds'[d] # 0 <=> borrower'[d] \in {"connected", "using"}
               /\ borrower'[d] \in {"connected", "using"} => kind[holds'[d]] = Kind[d]
               /\ borrower'[d] = "using" /\ actor[holds'[d]] = "up" => holds'[d] = pooled
    <3>1. CASE d = b
      BY <2>3, <2>4, <3>1
    <3>2. CASE d # b
      <4>1. holds'[d] = holds[d] /\ borrower'[d] = borrower[d]
        BY <2>3, <3>2
      <4>2. /\ holds[d] # 0 <=> borrower[d] \in {"connected", "using"}
            /\ borrower[d] \in {"connected", "using"} => kind[holds[d]] = Kind[d]
            /\ borrower[d] = "using" /\ actor[holds[d]] = "up" => holds[d] = pooled
        OBVIOUS
      <4> QED
        BY <4>1, <4>2
    <3> QED
      BY <3>1, <3>2
  <2> QED
    BY <2>1, <2>2, <2>5, <2>6
<1>2. CASE Miss(b)
  BY <1>2 DEF Miss
<1>3. CASE Connect(b)
  BY <1>3 DEF Connect
<1>4. CASE ConnectFails(b)
  BY <1>4 DEF ConnectFails
<1>5. CASE Insert(b)
  <2>1. OnlyStops(actor, actor')
    BY <1>5, DroppedType DEF Insert
  <2>2. /\ borrower[b] = "connected" /\ kind' = kind /\ made' = made
        /\ pooled' = IF pooled = 0 THEN holds[b] ELSE pooled
    BY <1>5 DEF Insert
  <2>3. idle' \in BOOLEAN
    BY <1>5 DEF Insert
  <2>4. pooled' \in 1..made /\ holds[b] \in 1..made /\ kind[holds[b]] = Kind[b]
    BY <2>2
  <2>5. \/ /\ borrower' = [borrower EXCEPT ![b] = "using"]
           /\ holds' = [holds EXCEPT ![b] = pooled'] /\ kind[pooled'] = Kind[b]
        \/ /\ borrower' = [borrower EXCEPT ![b] = "idle"] /\ holds' = [holds EXCEPT ![b] = 0]
    BY <1>5 DEF Insert, Returns
  <2>6. PoolTypeOK'
    <3>1. borrower' \in [Borrowers -> {"idle", "connecting", "connected", "using"}]
      BY <2>5
    <3>2. holds' \in [Borrowers -> 0..made]
      BY <2>4, <2>5
    <3>3. \A d \in Borrowers : holds'[d] # 0 <=> borrower'[d] \in {"connected", "using"}
      <4> SUFFICES ASSUME NEW d \in Borrowers
                   PROVE  holds'[d] # 0 <=> borrower'[d] \in {"connected", "using"}
        OBVIOUS
      <4>1. CASE d = b
        BY <2>4, <2>5, <4>1
      <4>2. CASE d # b
        <5>1. holds'[d] = holds[d] /\ borrower'[d] = borrower[d]
          BY <2>5, <4>2
        <5>2. holds[d] # 0 <=> borrower[d] \in {"connected", "using"}
          OBVIOUS
        <5> QED
          BY <5>1, <5>2
      <4> QED
        BY <4>1, <4>2
    <3>4. \A c \in Connections : actor'[c] = "unopened" <=> c > made
      BY <2>1 DEF OnlyStops
    <3> QED
      BY <2>1, <2>2, <2>3, <2>4, <3>1, <3>2, <3>3, <3>4 DEF OnlyStops
  <2>7. KindAskedFor'
    BY <2>2, <2>4, <2>5
  <2>8. ASSUME NEW d \in Borrowers, borrower'[d] = "using", actor'[holds'[d]] = "up"
        PROVE  holds'[d] = pooled'
    <3>1. CASE d = b
      BY <2>5, <2>8, <3>1
    <3>2. CASE d # b
      <4>1. borrower[d] = "using" /\ holds[d] = holds'[d] /\ holds[d] \in Connections
        BY <2>5, <2>8, <3>2
      <4>2. actor[holds[d]] = "up"
        BY <2>1, <2>8, <4>1 DEF OnlyStops
      <4>3. holds[d] = pooled /\ holds[d] # 0
        BY <4>1, <4>2
      <4> QED
        BY <2>2, <4>1, <4>3
    <3> QED
      BY <3>1, <3>2
  <2> QED
    BY <2>6, <2>7, <2>8
<1>6. CASE Release(b)
  <2>1. OnlyStops(actor, actor')
    BY <1>6, DroppedType DEF Release
  <2>2. /\ borrower' = [borrower EXCEPT ![b] = "idle"] /\ holds' = [holds EXCEPT ![b] = 0]
        /\ pooled' = pooled /\ idle' = idle /\ kind' = kind /\ made' = made
    BY <1>6 DEF Release
  <2>3. PoolTypeOK'
    BY <2>1, <2>2 DEF OnlyStops
  <2>4. KindAskedFor'
    BY <2>2
  <2>5. ASSUME NEW d \in Borrowers, borrower'[d] = "using", actor'[holds'[d]] = "up"
        PROVE  holds'[d] = pooled'
    <3>1. borrower[d] = "using" /\ holds[d] = holds'[d] /\ holds[d] \in Connections
      BY <2>2, <2>5
    <3>2. actor[holds[d]] = "up"
      BY <2>1, <2>5, <3>1 DEF OnlyStops
    <3> QED
      BY <2>2, <3>1, <3>2
  <2> QED
    BY <2>3, <2>4, <2>5
<1> QED
  BY <1>1, <1>2, <1>3, <1>4, <1>5, <1>6

\* What the reaper does, and the actors of the connections.
LEMMA SlotStep ==
  ASSUME PoolInv,
         \/ TimePasses \/ SweepIdle
         \/ \E c \in Connections : HandshakeRefused(c) \/ HubEndsIt(c) \/ ForgetIf(c)
  PROVE  PoolInv'
<1> USE HubPoolAssumption
        DEF PoolInv, PoolTypeOK, KindAskedFor, UsedInSlot, Connections, ActorStates
<1>1. CASE TimePasses
  BY <1>1 DEF TimePasses
<1>2. CASE SweepIdle
  <2>1. OnlyStops(actor, actor')
    BY <1>2, DroppedType DEF SweepIdle
  <2>2. /\ pooled' = 0 /\ idle' = idle /\ borrower' = borrower /\ holds' = holds
        /\ kind' = kind /\ made' = made /\ \A d \in Borrowers : holds[d] # pooled
    BY <1>2 DEF SweepIdle, Unused
  <2>3. PoolTypeOK' /\ KindAskedFor'
    BY <2>1, <2>2 DEF OnlyStops
  <2>4. ASSUME NEW d \in Borrowers, borrower[d] = "using", actor'[holds[d]] = "up"
        PROVE  FALSE
    <3>1. holds[d] \in Connections
      BY <2>4
    <3>2. actor[holds[d]] = "up"
      BY <2>1, <2>4, <3>1 DEF OnlyStops
    <3> QED
      BY <2>2, <2>4, <3>2
  <2> QED
    BY <2>2, <2>3, <2>4
<1>3. CASE \E c \in Connections : HandshakeRefused(c)
  BY <1>3 DEF HandshakeRefused
<1>4. CASE \E c \in Connections : HubEndsIt(c)
  BY <1>4 DEF HubEndsIt
<1>5. CASE \E c \in Connections : ForgetIf(c)
  <2>1. PICK c \in Connections : ForgetIf(c)
    BY <1>5
  <2>2. /\ [actor EXCEPT ![c] = "forgotten"] \in [Connections -> ActorStates]
        /\ actor' = Dropped([actor EXCEPT ![c] = "forgotten"], pooled', holds)
        /\ actor[c] = "refused"
    BY <2>1 DEF ForgetIf, ActorStates
  <2>3. OnlyStops([actor EXCEPT ![c] = "forgotten"], actor')
    BY <2>2, DroppedType
  <2>4. OnlyStops(actor, actor') /\ actor'[c] # "up"
    BY <2>2, <2>3 DEF OnlyStops, ActorStates
  <2>5. /\ pooled' = IF pooled = c THEN 0 ELSE pooled
        /\ idle' = idle /\ borrower' = borrower /\ holds' = holds /\ kind' = kind
        /\ made' = made
    BY <2>1 DEF ForgetIf
  <2>6. PoolTypeOK' /\ KindAskedFor'
    BY <2>4, <2>5 DEF OnlyStops
  <2>7. ASSUME NEW d \in Borrowers, borrower'[d] = "using", actor'[holds'[d]] = "up"
        PROVE  holds'[d] = pooled'
    <3>1. borrower[d] = "using" /\ holds[d] \in Connections /\ holds[d] # c
      BY <2>4, <2>5, <2>7
    <3>2. actor[holds[d]] = "up"
      BY <2>4, <2>5, <2>7, <3>1 DEF OnlyStops
    <3> QED
      BY <2>5, <3>1, <3>2
  <2> QED
    BY <2>6, <2>7
<1> QED
  BY <1>1, <1>2, <1>3, <1>4, <1>5

\* However opens race, time out, are refused and are swept, the borrowers whose
\* connection is up share the one in the slot, of the kind they asked for.
THEOREM OneConnectionCorrect == PoolSpec => []OneConnection
<1>1. PoolInv /\ [PoolNext]_poolVars => PoolInv'
  <2> SUFFICES ASSUME PoolInv, [PoolNext]_poolVars PROVE PoolInv'
    OBVIOUS
  <2>1. CASE UNCHANGED poolVars
    BY <2>1 DEF poolVars, PoolInv, PoolTypeOK, KindAskedFor, UsedInSlot
  <2> QED
    BY <2>1, BorrowerStep, SlotStep DEF PoolNext
<1>2. PoolInv => OneConnection
  BY DEF PoolInv, KindAskedFor, UsedInSlot, OneConnection
<1> QED
  BY <1>1, <1>2, PoolInitial, PTL DEF PoolSpec

-----------------------------------------------------------------------------
(* A session: its loops, registries and calls                                *)

\* What is left of an inbox when its first frame is taken, and when one is added.
LEMMA FrameTail ==
  ASSUME NEW S, NEW q \in Seq(S), q # << >>
  PROVE  /\ Head(q) \in S /\ Head(q) = q[1] /\ 1 \in DOMAIN q
         /\ Tail(q) \in Seq(S)
         /\ \A k \in DOMAIN Tail(q) :
              k \in Int /\ k # 0 /\ k + 1 \in DOMAIN q /\ Tail(q)[k] = q[k + 1]
OBVIOUS

LEMMA FrameAppend ==
  ASSUME NEW S, NEW q \in Seq(S), NEW e \in S
  PROVE  /\ Append(q, e) \in Seq(S) /\ Len(q) \in Nat /\ Len(q) + 1 \notin DOMAIN q
         /\ \A k \in DOMAIN Append(q, e) :
              IF k = Len(q) + 1 THEN Append(q, e)[k] = e
              ELSE k \in DOMAIN q /\ Append(q, e)[k] = q[k]
OBVIOUS

\* Where a loop can be.
Stations == {"unborn", "parked", "busy", "check", "insert", "recheck", "drain", "admission",
             "registry", "done"}

\* The numbers of the loops, and 0 for none.
LEMMA LoopNumbers ==
  /\ \A r \in 0..MaxLoops : r # 0 => r \in Loops
  /\ \A r \in Loops : r \in 0..MaxLoops /\ r # 0
BY HubSessionsAssumption DEF Loops

\* A loop that waits is gone, the others go on.
Stopped ==
  /\ \A l \in Loops : loop'[l] = loop[l] \/ (loop[l] = "parked" /\ loop'[l] = "done")
  /\ aborted \subseteq aborted' /\ aborted' \subseteq Loops
  /\ loop' \in [Loops -> Stations]

LEMMA AbortEffect == ASSUME SessionShape, Abort(handle) PROVE Stopped
<1>1. CASE handle = 0
  BY <1>1 DEF Abort, Stopped, SessionShape, Stations
<1>2. CASE handle # 0
  <2>1. handle \in Loops
    BY <1>2, LoopNumbers DEF SessionShape
  <2>2. QED
    BY <1>2, <2>1 DEF Abort, Stopped, SessionShape, Stations
<1>3. QED
  BY <1>1, <1>2

\* The number of the next full bind is the one after the last loop.
LEMMA NextLoopIs ==
  ASSUME SessionShape, NEW k \in 0..MaxLoops, \A l \in Loops : Born(l) <=> l <= k
  PROVE  NextLoop = k + 1
<1>1. {l \in Loops : loop[l] # "unborn"} = 1..k
  BY HubSessionsAssumption DEF Born, Loops
<1>2. Cardinality(1..k) = k
  <2>1. PICK a \in Int, b \in Int : a = 1 /\ b = k
    BY HubSessionsAssumption
  <2>2. Cardinality(a..b) = IF a > b THEN 0 ELSE b-a+1
    BY FS_Interval
  <2>3. QED
    BY <2>1, <2>2
<1>3. NextLoop = 1 + Cardinality(1..k)
  BY <1>1, Zenon DEF NextLoop
<1>4. QED
  BY <1>2, <1>3

\* No loop is spawned.
SameBorn == \A l \in Loops : Born(l)' <=> Born(l)

LEMMA SameNext == ASSUME SameBorn PROVE NextLoop' = NextLoop
<1>1. {l \in Loops : loop'[l] # "unborn"} = {l \in Loops : loop[l] # "unborn"}
  BY DEF SameBorn, Born
<1>2. QED
  BY <1>1, Zenon DEF NextLoop

\* The dispatch of a request ends in a task of its own.
Started(l, c) ==
  /\ c = cur[l] /\ c \in ToolCalls
  /\ task'[c] = "spawned" /\ via'[c] = l /\ loop'[l] = "busy"
  /\ \A d \in ToolCalls : d # c => task'[d] = task[d] /\ via'[d] = via[d]
  /\ \A m \in Loops : m # l => loop'[m] = loop[m] /\ cur'[m] = cur[m]
  /\ task' \in [ToolCalls -> {"none", "sent", "spawned", "waiting", "running"} \cup Over]
  /\ via' \in [ToolCalls -> 0..MaxLoops]
  /\ loop' \in [Loops -> Stations] /\ cur' \in [Loops -> ToolCalls \cup {Nothing}]

LEMMA SpawnedEffect ==
  ASSUME SessionShape, NEW l \in Loops, cur[l] \in ToolCalls, Spawned(l, cur[l])
  PROVE  Started(l, cur[l])
<1>1. l \in 0..MaxLoops
  BY LoopNumbers
<1>2. QED
  BY <1>1 DEF Spawned, Started, SessionShape, Stations

\* The Cancel at the head of the inbox is handled.
Handled(l, c) ==
  /\ c \in ToolCalls
  /\ queue[l] # << >> /\ queue'[l] = Tail(queue[l]) /\ queue' \in [Loops -> Seq(Frames)]
  /\ \A m \in Loops : m # l => queue'[m] = queue[m] /\ token'[m] = token[m] /\ tombs'[m] = tombs[m]
                               /\ loop'[m] = loop[m]
  /\ loop[l] \in {"parked", "busy"} /\ loop'[l] = "busy" /\ loop' \in [Loops -> Stations]
  /\ \/ /\ c \in token[l] /\ cancelled' = cancelled \cup {c} /\ token'[l] = token[l] \ {c}
        /\ tombs'[l] = tombs[l] /\ asked' = asked \cup {<< l, c >>}
     \/ /\ c \notin token[l] /\ cancelled' = cancelled /\ token'[l] = token[l]
        /\ \E evicted \in SUBSET tombs[l] :
             /\ tombs'[l] = (tombs[l] \ evicted) \cup {c}
             /\ asked' = (asked \ ({l} \X evicted)) \cup {<< l, c >>}
  /\ token' \in [Loops -> SUBSET ToolCalls] /\ tombs' \in [Loops -> SUBSET ToolCalls]
  /\ UNCHANGED << binding, entries, aborted, cur, shut, tasks, router, ending >>

LEMMA CancelEffect ==
  ASSUME SessionShape, NEW l \in Loops, LoopCancels(l)
  PROVE  \E c \in ToolCalls : Handled(l, c)
<1> DEFINE c == Head(queue[l]).call
<1>1. Head(queue[l]) \in Frames /\ Tail(queue[l]) \in Seq(Frames) /\ queue[l] # << >>
  BY FrameTail DEF LoopCancels, SessionShape
<1>2. c \in ToolCalls
  BY <1>1 DEF Frames
<1>3. /\ queue'[l] = Tail(queue[l]) /\ queue' \in [Loops -> Seq(Frames)]
      /\ \A m \in Loops : m # l => queue'[m] = queue[m] /\ loop'[m] = loop[m]
      /\ loop[l] \in {"parked", "busy"} /\ loop'[l] = "busy" /\ loop' \in [Loops -> Stations]
  BY <1>1 DEF LoopCancels, SessionShape, Stations
<1>4. /\ CancelCall(l, c)
      /\ UNCHANGED << binding, entries, aborted, cur, shut, tasks, router, ending >>
  BY DEF LoopCancels
<1> HIDE DEF c
<1>5. CASE c \in token[l]
  <2>1. /\ cancelled' = cancelled \cup {c} /\ token' = [token EXCEPT ![l] = @ \ {c}]
        /\ asked' = asked \cup {<< l, c >>} /\ tombs' = tombs
    BY <1>4, <1>5 DEF CancelCall
  <2>2. token'[l] = token[l] \ {c} /\ token' \in [Loops -> SUBSET ToolCalls]
        /\ \A m \in Loops : m # l => token'[m] = token[m]
    BY <2>1 DEF SessionShape
  <2>3. QED
    BY <1>1, <1>2, <1>3, <1>4, <1>5, <2>1, <2>2 DEF Handled, SessionShape
<1>6. CASE c \notin token[l]
  <2>1. PICK evicted \in SUBSET tombs[l] :
          /\ tombs' = [tombs EXCEPT ![l] = (@ \ evicted) \cup {c}]
          /\ asked' = (asked \ ({l} \X evicted)) \cup {<< l, c >>}
    <3>1. CASE Cardinality(tombs[l]) >= MaxTombstones
      BY <1>4, <1>6, <3>1 DEF CancelCall
    <3>2. CASE ~(Cardinality(tombs[l]) >= MaxTombstones)
      BY <1>4, <1>6, <3>2 DEF CancelCall
    <3>3. QED
      BY <3>1, <3>2
  <2>2. cancelled' = cancelled /\ token' = token
    BY <1>4, <1>6 DEF CancelCall
  <2>3. tombs'[l] = (tombs[l] \ evicted) \cup {c} /\ tombs' \in [Loops -> SUBSET ToolCalls]
        /\ \A m \in Loops : m # l => tombs'[m] = tombs[m]
    BY <1>2, <2>1 DEF SessionShape
  <2>4. QED
    BY <1>1, <1>2, <1>3, <1>4, <1>6, <2>1, <2>2, <2>3 DEF Handled, SessionShape
<1>7. QED
  BY <1>2, <1>5, <1>6

\* Only BindSpawn spawns a loop.
LEMMA KeepsBorn == SessionInv /\ [SessionNext]_sessionVars => BindSpawn \/ SameBorn
<1> SUFFICES ASSUME SessionInv, [SessionNext]_sessionVars PROVE (BindSpawn \/ SameBorn)
  OBVIOUS
<1> USE DEF Born, SameBorn, SessionShape, binding, entries, loops, cancels, tasks, router, ending
<1>0. SessionShape
  BY DEF SessionInv
<1>1. ASSUME BindStart PROVE (BindSpawn \/ SameBorn)
  BY <1>0, <1>1 DEF BindStart
<1>2. ASSUME BindGate PROVE (BindSpawn \/ SameBorn)
  BY <1>0, <1>2 DEF BindGate
<1>3. ASSUME BindInbox PROVE (BindSpawn \/ SameBorn)
  BY <1>0, <1>3 DEF BindInbox
<1>4. ASSUME BindAdmission PROVE (BindSpawn \/ SameBorn)
  BY <1>0, <1>4 DEF BindAdmission
<1>5. ASSUME BindRegistry PROVE (BindSpawn \/ SameBorn)
  BY <1>0, <1>5 DEF BindRegistry, CloseRegistry
<1>6. ASSUME BindDrain PROVE (BindSpawn \/ SameBorn)
  BY <1>0, <1>6 DEF BindDrain, DrainRegistry
<1>7. ASSUME BindSpawn PROVE (BindSpawn \/ SameBorn)
  BY <1>0, <1>7 DEF BindSpawn
<1>8. ASSUME UnbindStart PROVE (BindSpawn \/ SameBorn)
  BY <1>0, <1>8 DEF UnbindStart
<1>9. ASSUME UnbindCancel PROVE (BindSpawn \/ SameBorn)
  BY <1>0, <1>9 DEF UnbindCancel, CloseRegistry
<1>10. ASSUME UnbindDrain PROVE (BindSpawn \/ SameBorn)
  BY <1>0, <1>10 DEF UnbindDrain, DrainRegistry
<1>11. ASSUME UnbindAbort PROVE (BindSpawn \/ SameBorn)
  <2>1. Stopped
    BY <1>0, <1>11, AbortEffect DEF UnbindAbort
  <2>2. QED
    BY <1>0, <2>1 DEF Stopped
<1>12. ASSUME UnbindInbox PROVE (BindSpawn \/ SameBorn)
  BY <1>0, <1>12 DEF UnbindInbox
<1>13. ASSUME UnbindAdmission PROVE (BindSpawn \/ SameBorn)
  BY <1>0, <1>13 DEF UnbindAdmission
<1>14. ASSUME NEW f \in Frames, RouteLookup(f) PROVE (BindSpawn \/ SameBorn)
  BY <1>0, <1>14 DEF RouteLookup
<1>15. ASSUME RouteSend PROVE (BindSpawn \/ SameBorn)
  BY <1>0, <1>15 DEF RouteSend
<1>16. ASSUME RouteStale PROVE (BindSpawn \/ SameBorn)
  BY <1>0, <1>16 DEF RouteStale
<1>17. ASSUME PeerBinds PROVE (BindSpawn \/ SameBorn)
  BY <1>0, <1>17 DEF PeerBinds
<1>18. ASSUME NEW l \in Loops, LoopCancels(l) PROVE (BindSpawn \/ SameBorn)
  BY <1>0, <1>18 DEF LoopCancels, CancelCall
<1>19. ASSUME NEW l \in Loops, LoopTakes(l) PROVE (BindSpawn \/ SameBorn)
  BY <1>0, <1>19 DEF LoopTakes
<1>20. ASSUME NEW l \in Loops, LoopChecks(l) PROVE (BindSpawn \/ SameBorn)
  BY <1>0, <1>20 DEF LoopChecks, Spawned
<1>21. ASSUME NEW l \in Loops, LoopInserts(l) PROVE (BindSpawn \/ SameBorn)
  BY <1>0, <1>21 DEF LoopInserts
<1>22. ASSUME NEW l \in Loops, LoopRechecks(l) PROVE (BindSpawn \/ SameBorn)
  BY <1>0, <1>22 DEF LoopRechecks, Spawned
<1>23. ASSUME NEW l \in Loops, LoopParks(l) PROVE (BindSpawn \/ SameBorn)
  BY <1>0, <1>23 DEF LoopParks
<1>24. ASSUME NEW l \in Loops, LoopEnds(l) PROVE (BindSpawn \/ SameBorn)
  BY <1>0, <1>24 DEF LoopEnds, CloseRegistry
<1>25. ASSUME NEW l \in Loops, LoopDrains(l) PROVE (BindSpawn \/ SameBorn)
  BY <1>0, <1>25 DEF LoopDrains, DrainRegistry
<1>26. ASSUME NEW l \in Loops, LoopRemovesSession(l) PROVE (BindSpawn \/ SameBorn)
  BY <1>0, <1>26 DEF LoopRemovesSession
<1>27. ASSUME NEW l \in Loops, LoopRemovesRegistry(l) PROVE (BindSpawn \/ SameBorn)
  BY <1>0, <1>27 DEF LoopRemovesRegistry
<1>28. ASSUME NEW c \in ToolCalls, CallLooksUp(c) PROVE (BindSpawn \/ SameBorn)
  BY <1>0, <1>28 DEF CallLooksUp
<1>29. ASSUME NEW c \in ToolCalls, CallAdmitted(c) PROVE (BindSpawn \/ SameBorn)
  BY <1>0, <1>29 DEF CallAdmitted
<1>30. ASSUME NEW c \in ToolCalls, CallOverloaded(c) PROVE (BindSpawn \/ SameBorn)
  BY <1>0, <1>30 DEF CallOverloaded, CallEnds
<1>31. ASSUME NEW c \in ToolCalls, CallReturns(c) PROVE (BindSpawn \/ SameBorn)
  BY <1>0, <1>31 DEF CallReturns, CallEnds
<1>32. ASSUME NEW c \in ToolCalls, CallCancelled(c) PROVE (BindSpawn \/ SameBorn)
  BY <1>0, <1>32 DEF CallCancelled, CallEnds
<1>33. ASSUME ShutdownStart PROVE (BindSpawn \/ SameBorn)
  BY <1>0, <1>33 DEF ShutdownStart
<1>34. ASSUME ShutdownCloses PROVE (BindSpawn \/ SameBorn)
  BY <1>0, <1>34 DEF ShutdownCloses, CloseRegistry
<1>35. ASSUME ShutdownClears PROVE (BindSpawn \/ SameBorn)
  BY <1>0, <1>35 DEF ShutdownClears, DrainRegistry
<1>36. ASSUME ShutdownAborts PROVE (BindSpawn \/ SameBorn)
  <2>1. Stopped
    BY <1>0, <1>36, AbortEffect DEF ShutdownAborts
  <2>2. QED
    BY <1>0, <2>1 DEF Stopped
<1>37. ASSUME ShutdownRest PROVE (BindSpawn \/ SameBorn)
  BY <1>0, <1>37 DEF ShutdownRest
<1>38. ASSUME RunExits PROVE (BindSpawn \/ SameBorn)
  <2>1. Stopped
    BY <1>0, <1>38, AbortEffect DEF RunExits
  <2>2. QED
    BY <1>0, <2>1 DEF Stopped
<1>39. CASE UNCHANGED sessionVars
  BY <1>0, <1>39 DEF sessionVars
<1>40. QED
  BY <1>1, <1>2, <1>3, <1>4, <1>5, <1>6, <1>7, <1>8, <1>9, <1>10, <1>11, <1>12, <1>13, <1>14,
     <1>15, <1>16, <1>17, <1>18, <1>19, <1>20, <1>21, <1>22, <1>23, <1>24, <1>25, <1>26, <1>27,
     <1>28, <1>29, <1>30, <1>31, <1>32, <1>33, <1>34, <1>35, <1>36, <1>37, <1>38, <1>39
  DEF SessionNext, BindNext, RouteNext, LoopNext, CallNext, ShutdownNext

\* One lemma per part of SessionInv: every step keeps it.
LEMMA SessionShapeStep ==
  SessionInv /\ [SessionNext]_sessionVars => SessionShape'
<1> SUFFICES ASSUME SessionInv, [SessionNext]_sessionVars
             PROVE  SessionShape'
  OBVIOUS
<1> USE HubSessionsAssumption DEF SessionShape, Over, binding, entries, loops,
            cancels, tasks, router, ending
<1>0. SessionShape /\ BornInOrder /\ DrainsShut /\ OnePlace
  BY DEF SessionInv
<1>b. \A l \in Loops : loop[l] \in Dispatching => cur[l] \in ToolCalls
  BY <1>0 DEF OnePlace
<1>1. ASSUME BindStart PROVE SessionShape'
  BY <1>0, <1>1, LoopNumbers, <1>b DEF BindStart
<1>2. ASSUME BindGate PROVE SessionShape'
  BY <1>0, <1>2, LoopNumbers, <1>b DEF BindGate
<1>3. ASSUME BindInbox PROVE SessionShape'
  BY <1>0, <1>3, LoopNumbers, <1>b DEF BindInbox, BornInOrder
<1>4. ASSUME BindAdmission PROVE SessionShape'
  BY <1>0, <1>4, LoopNumbers, <1>b DEF BindAdmission
<1>5. ASSUME BindRegistry PROVE SessionShape'
  BY <1>0, <1>5, LoopNumbers, <1>b DEF BindRegistry, CloseRegistry, BornInOrder
<1>6. ASSUME BindDrain PROVE SessionShape'
  BY <1>0, <1>6, LoopNumbers, <1>b DEF BindDrain, DrainRegistry, DrainsShut
<1>7. ASSUME BindSpawn PROVE SessionShape'
  BY <1>0, <1>7, LoopNumbers, <1>b DEF BindSpawn, BornInOrder
<1>8. ASSUME UnbindStart PROVE SessionShape'
  BY <1>0, <1>8, LoopNumbers, <1>b DEF UnbindStart
<1>9. ASSUME UnbindCancel PROVE SessionShape'
  BY <1>0, <1>9, LoopNumbers, <1>b DEF UnbindCancel, CloseRegistry
<1>10. ASSUME UnbindDrain PROVE SessionShape'
  BY <1>0, <1>10, LoopNumbers, <1>b DEF UnbindDrain, DrainRegistry, DrainsShut
<1>11. ASSUME UnbindAbort PROVE SessionShape'
  <2>1. Stopped
    BY <1>0, <1>11, AbortEffect DEF UnbindAbort
  <2>2. QED
    BY <1>0, <1>11, <2>1 DEF UnbindAbort, Stopped, Stations
<1>12. ASSUME UnbindInbox PROVE SessionShape'
  BY <1>0, <1>12, LoopNumbers, <1>b DEF UnbindInbox
<1>13. ASSUME UnbindAdmission PROVE SessionShape'
  BY <1>0, <1>13, LoopNumbers, <1>b DEF UnbindAdmission
<1>14. ASSUME NEW f \in Frames, RouteLookup(f) PROVE SessionShape'
  BY <1>0, <1>14, LoopNumbers, <1>b DEF RouteLookup, Frames, Idle
<1>15. ASSUME RouteSend PROVE SessionShape'
  <2>1. routing.frame \in Frames /\ routing.to \in Loops /\ routing' = Idle
    BY <1>0, <1>15 DEF RouteSend
  <2>2. routing.frame.call \in ToolCalls
    BY <2>1 DEF Frames
  <2>3. queue' \in [Loops -> Seq(Frames)]
    <3>1. Append(queue[routing.to], routing.frame) \in Seq(Frames)
      BY <1>0, <2>1, FrameAppend
    <3>2. QED
      BY <1>0, <1>15, <2>1, <3>1 DEF RouteSend
  <2>4. task' \in [ToolCalls -> {"none", "sent", "spawned", "waiting", "running"} \cup Over]
    BY <1>0, <1>15, <2>2 DEF RouteSend
  <2>5. QED
    BY <1>0, <1>15, <2>1, <2>3, <2>4 DEF RouteSend
<1>16. ASSUME RouteStale PROVE SessionShape'
  BY <1>0, <1>16, LoopNumbers, <1>b DEF RouteStale
<1>17. ASSUME PeerBinds PROVE SessionShape'
  BY <1>0, <1>17, LoopNumbers, <1>b DEF PeerBinds
<1>18. ASSUME NEW l \in Loops, LoopCancels(l) PROVE SessionShape'
  <2>1. PICK c \in ToolCalls : Handled(l, c)
    BY <1>0, <1>18, CancelEffect
  <2>2. QED
    BY <1>0, <2>1 DEF Handled, Stations
<1>19. ASSUME NEW l \in Loops, LoopTakes(l) PROVE SessionShape'
  BY <1>0, <1>19, LoopNumbers, <1>b, FrameTail DEF LoopTakes, Frames
<1>20. ASSUME NEW l \in Loops, LoopChecks(l) PROVE SessionShape'
  <2>1. cur[l] \in ToolCalls
    BY <1>b, <1>20 DEF LoopChecks, Dispatching
  <2>2. CASE l \in shut
    <3>1. Started(l, cur[l])
      BY <1>0, <1>20, <2>1, <2>2, SpawnedEffect DEF LoopChecks
    <3>2. QED
      BY <1>0, <1>20, <2>1, <2>2, <3>1 DEF LoopChecks, Started, Stations
  <2>3. CASE l \notin shut
    BY <1>0, <1>20, <2>3 DEF LoopChecks
  <2>4. QED
    BY <2>2, <2>3
<1>21. ASSUME NEW l \in Loops, LoopInserts(l) PROVE SessionShape'
  BY <1>0, <1>21, LoopNumbers, <1>b DEF LoopInserts, Dispatching
<1>22. ASSUME NEW l \in Loops, LoopRechecks(l) PROVE SessionShape'
  <2>1. cur[l] \in ToolCalls
    BY <1>b, <1>22 DEF LoopRechecks, Dispatching
  <2>2. Started(l, cur[l])
    BY <1>0, <1>22, <2>1, SpawnedEffect DEF LoopRechecks
  <2>3. token' \in [Loops -> SUBSET ToolCalls] /\ cancelled' \subseteq ToolCalls
    <3>1. CASE Missed(l)
      <4>1. /\ cancelled' = cancelled \cup {cur[l]}
            /\ token' = [token EXCEPT ![l] = token[l] \ {cur[l]}]
        BY <1>22, <3>1 DEF LoopRechecks
      <4>2. QED
        BY <1>0, <2>1, <4>1
    <3>2. CASE ~Missed(l)
      BY <1>0, <1>22, <3>2 DEF LoopRechecks
    <3>3. QED
      BY <3>1, <3>2
  <2>4. QED
    BY <1>0, <1>22, <2>2, <2>3 DEF LoopRechecks, Started, Stations
<1>23. ASSUME NEW l \in Loops, LoopParks(l) PROVE SessionShape'
  BY <1>0, <1>23, LoopNumbers, <1>b DEF LoopParks
<1>24. ASSUME NEW l \in Loops, LoopEnds(l) PROVE SessionShape'
  BY <1>0, <1>24, LoopNumbers, <1>b DEF LoopEnds, CloseRegistry
<1>25. ASSUME NEW l \in Loops, LoopDrains(l) PROVE SessionShape'
  BY <1>0, <1>25, LoopNumbers, <1>b DEF LoopDrains, DrainRegistry
<1>26. ASSUME NEW l \in Loops, LoopRemovesSession(l) PROVE SessionShape'
  BY <1>0, <1>26, LoopNumbers, <1>b DEF LoopRemovesSession
<1>27. ASSUME NEW l \in Loops, LoopRemovesRegistry(l) PROVE SessionShape'
  BY <1>0, <1>27, LoopNumbers, <1>b DEF LoopRemovesRegistry
<1>28. ASSUME NEW c \in ToolCalls, CallLooksUp(c) PROVE SessionShape'
  BY <1>0, <1>28, LoopNumbers, <1>b DEF CallLooksUp
<1>29. ASSUME NEW c \in ToolCalls, CallAdmitted(c) PROVE SessionShape'
  BY <1>0, <1>29, LoopNumbers, <1>b DEF CallAdmitted
<1>30. ASSUME NEW c \in ToolCalls, CallOverloaded(c) PROVE SessionShape'
  BY <1>0, <1>30, LoopNumbers, <1>b DEF CallOverloaded, CallEnds
<1>31. ASSUME NEW c \in ToolCalls, CallReturns(c) PROVE SessionShape'
  BY <1>0, <1>31, LoopNumbers, <1>b DEF CallReturns, CallEnds
<1>32. ASSUME NEW c \in ToolCalls, CallCancelled(c) PROVE SessionShape'
  BY <1>0, <1>32, LoopNumbers, <1>b DEF CallCancelled, CallEnds
<1>33. ASSUME ShutdownStart PROVE SessionShape'
  BY <1>0, <1>33, LoopNumbers, <1>b DEF ShutdownStart
<1>34. ASSUME ShutdownCloses PROVE SessionShape'
  BY <1>0, <1>34, LoopNumbers, <1>b DEF ShutdownCloses, CloseRegistry
<1>35. ASSUME ShutdownClears PROVE SessionShape'
  <2>1. CASE doomed = 0
    BY <1>0, <1>35, <2>1 DEF ShutdownClears
  <2>2. CASE doomed # 0
    <3>1. doomed \in Loops
      BY <1>0, <1>35, <2>2 DEF ShutdownClears, DrainsShut
    <3>2. /\ token' = [token EXCEPT ![doomed] = {}] /\ tombs' = [tombs EXCEPT ![doomed] = {}]
          /\ cancelled' = cancelled \cup token[doomed]
      BY <1>35, <2>2 DEF ShutdownClears, DrainRegistry
    <3>3. /\ token' \in [Loops -> SUBSET ToolCalls] /\ tombs' \in [Loops -> SUBSET ToolCalls]
          /\ cancelled' \subseteq ToolCalls
      BY <1>0, <3>1, <3>2
    <3>4. QED
      BY <1>0, <1>35, <3>3 DEF ShutdownClears
  <2>3. QED
    BY <2>1, <2>2
<1>36. ASSUME ShutdownAborts PROVE SessionShape'
  <2>1. Stopped
    BY <1>0, <1>36, AbortEffect DEF ShutdownAborts
  <2>2. QED
    BY <1>0, <1>36, <2>1 DEF ShutdownAborts, Stopped, Stations
<1>37. ASSUME ShutdownRest PROVE SessionShape'
  BY <1>0, <1>37, LoopNumbers, <1>b DEF ShutdownRest
<1>38. ASSUME RunExits PROVE SessionShape'
  <2>1. Stopped
    BY <1>0, <1>38, AbortEffect DEF RunExits
  <2>2. QED
    BY <1>0, <1>38, <2>1 DEF RunExits, Stopped, Stations
<1>39. CASE UNCHANGED sessionVars
  BY <1>0, <1>39, LoopNumbers, <1>b DEF sessionVars
<1>40. QED
  BY <1>1, <1>2, <1>3, <1>4, <1>5, <1>6, <1>7, <1>8, <1>9, <1>10, <1>11, <1>12, <1>13, <1>14,
     <1>15, <1>16, <1>17, <1>18, <1>19, <1>20, <1>21, <1>22, <1>23, <1>24, <1>25, <1>26, <1>27,
     <1>28, <1>29, <1>30, <1>31, <1>32, <1>33, <1>34, <1>35, <1>36, <1>37, <1>38, <1>39
  DEF SessionNext, BindNext, RouteNext, LoopNext, CallNext, ShutdownNext

LEMMA BornStep == SessionInv /\ SessionShape' /\ [SessionNext]_sessionVars => BornInOrder'
<1> SUFFICES ASSUME SessionInv, SessionShape', [SessionNext]_sessionVars PROVE BornInOrder'
  OBVIOUS
<1>0. SessionShape /\ BornInOrder
  BY DEF SessionInv
<1>1. PICK k \in 0..MaxLoops : \A l \in Loops : Born(l) <=> l <= k
  BY <1>0 DEF BornInOrder
<1>2. NextLoop = k + 1
  BY <1>0, <1>1, NextLoopIs
<1>3. CASE BindSpawn
  <2>1. k + 1 \in Loops /\ k + 1 \in 0..MaxLoops /\ op' = "free"
    BY <1>0, <1>2, <1>3, LoopNumbers DEF BindSpawn, BornInOrder
  <2>2. ASSUME NEW l \in Loops PROVE Born(l)' <=> l <= k + 1
    BY <1>0, <1>1, <1>2, <1>3, <2>1 DEF BindSpawn, Born, Loops, SessionShape
  <2>3. \E j \in 0..MaxLoops : \A l \in Loops : Born(l)' <=> l <= j
    BY <2>1, <2>2
  <2>4. QED
    BY <2>1, <2>3 DEF BornInOrder
<1>4. CASE ~BindSpawn
  <2>1. SameBorn
    BY <1>4, KeepsBorn
  <2>2. NextLoop' = NextLoop
    BY <2>1, SameNext
  <2>3. \E j \in 0..MaxLoops : \A l \in Loops : Born(l)' <=> l <= j
    BY <1>1, <2>1 DEF SameBorn
  <2>4. op' \in {"bind.gate", "bind.inbox", "bind.admission", "bind.registry", "bind.drain",
                "bind.spawn"} => NextLoop \in Loops
    <3> USE HubSessionsAssumption DEF binding, entries, loops, cancels, tasks, router, ending
    <3>1. CASE op' = op
      BY <1>0, <3>1 DEF BornInOrder
    <3>2. CASE op' # op /\ ~BindStart
      BY <1>0, <3>2 DEF BornInOrder, SessionNext, BindNext, RouteNext, LoopNext, CallNext,
         ShutdownNext, BindGate, BindInbox, BindAdmission, BindRegistry, BindDrain, BindSpawn,
         UnbindStart, UnbindCancel, UnbindDrain, UnbindAbort, UnbindInbox, UnbindAdmission,
         RouteLookup, RouteSend, RouteStale, PeerBinds, LoopCancels, LoopTakes, LoopChecks,
         LoopInserts, LoopRechecks, LoopParks, LoopEnds, LoopDrains, LoopRemovesSession,
         LoopRemovesRegistry, CallLooksUp, CallAdmitted, CallOverloaded, CallReturns,
         CallCancelled, CallEnds, ShutdownStart, ShutdownCloses, ShutdownClears, ShutdownAborts,
         ShutdownRest, RunExits, sessionVars
    <3>3. CASE BindStart
      BY <1>0, <1>1, <1>2, <3>3 DEF BindStart, Loops
    <3>4. QED
      BY <3>1, <3>2, <3>3
  <2>5. QED
    BY <2>2, <2>3, <2>4 DEF BornInOrder
<1>5. QED
  BY <1>3, <1>4

LEMMA DrainsStep ==
  SessionInv /\ [SessionNext]_sessionVars => DrainsShut'
<1> SUFFICES ASSUME SessionInv, [SessionNext]_sessionVars
             PROVE  DrainsShut'
  OBVIOUS
<1> USE DEF DrainsShut, SessionShape, binding, entries, loops, cancels, tasks, router, ending
<1>0. SessionShape /\ DrainsShut
  BY DEF SessionInv
<1>1. ASSUME BindStart PROVE DrainsShut'
  BY <1>0, <1>1 DEF BindStart
<1>2. ASSUME BindGate PROVE DrainsShut'
  BY <1>0, <1>2 DEF BindGate
<1>3. ASSUME BindInbox PROVE DrainsShut'
  BY <1>0, <1>3 DEF BindInbox
<1>4. ASSUME BindAdmission PROVE DrainsShut'
  BY <1>0, <1>4 DEF BindAdmission
<1>5. ASSUME BindRegistry PROVE DrainsShut'
  BY <1>0, <1>5 DEF BindRegistry, CloseRegistry
<1>6. ASSUME BindDrain PROVE DrainsShut'
  BY <1>0, <1>6 DEF BindDrain, DrainRegistry
<1>7. ASSUME BindSpawn PROVE DrainsShut'
  BY <1>0, <1>7 DEF BindSpawn
<1>8. ASSUME UnbindStart PROVE DrainsShut'
  BY <1>0, <1>8 DEF UnbindStart
<1>9. ASSUME UnbindCancel PROVE DrainsShut'
  BY <1>0, <1>9 DEF UnbindCancel, CloseRegistry
<1>10. ASSUME UnbindDrain PROVE DrainsShut'
  BY <1>0, <1>10 DEF UnbindDrain, DrainRegistry
<1>11. ASSUME UnbindAbort PROVE DrainsShut'
  <2>1. Stopped
    BY <1>0, <1>11, AbortEffect DEF UnbindAbort
  <2>2. QED
    BY <1>0, <1>11, <2>1 DEF UnbindAbort, Stopped
<1>12. ASSUME UnbindInbox PROVE DrainsShut'
  BY <1>0, <1>12 DEF UnbindInbox
<1>13. ASSUME UnbindAdmission PROVE DrainsShut'
  BY <1>0, <1>13 DEF UnbindAdmission
<1>14. ASSUME NEW f \in Frames, RouteLookup(f) PROVE DrainsShut'
  BY <1>0, <1>14 DEF RouteLookup
<1>15. ASSUME RouteSend PROVE DrainsShut'
  BY <1>0, <1>15 DEF RouteSend
<1>16. ASSUME RouteStale PROVE DrainsShut'
  BY <1>0, <1>16 DEF RouteStale
<1>17. ASSUME PeerBinds PROVE DrainsShut'
  BY <1>0, <1>17 DEF PeerBinds
<1>18. ASSUME NEW l \in Loops, LoopCancels(l) PROVE DrainsShut'
  BY <1>0, <1>18 DEF LoopCancels, CancelCall
<1>19. ASSUME NEW l \in Loops, LoopTakes(l) PROVE DrainsShut'
  BY <1>0, <1>19 DEF LoopTakes
<1>20. ASSUME NEW l \in Loops, LoopChecks(l) PROVE DrainsShut'
  BY <1>0, <1>20 DEF LoopChecks, Spawned
<1>21. ASSUME NEW l \in Loops, LoopInserts(l) PROVE DrainsShut'
  BY <1>0, <1>21 DEF LoopInserts
<1>22. ASSUME NEW l \in Loops, LoopRechecks(l) PROVE DrainsShut'
  BY <1>0, <1>22 DEF LoopRechecks, Spawned
<1>23. ASSUME NEW l \in Loops, LoopParks(l) PROVE DrainsShut'
  BY <1>0, <1>23 DEF LoopParks
<1>24. ASSUME NEW l \in Loops, LoopEnds(l) PROVE DrainsShut'
  BY <1>0, <1>24 DEF LoopEnds, CloseRegistry
<1>25. ASSUME NEW l \in Loops, LoopDrains(l) PROVE DrainsShut'
  BY <1>0, <1>25 DEF LoopDrains, DrainRegistry
<1>26. ASSUME NEW l \in Loops, LoopRemovesSession(l) PROVE DrainsShut'
  BY <1>0, <1>26 DEF LoopRemovesSession
<1>27. ASSUME NEW l \in Loops, LoopRemovesRegistry(l) PROVE DrainsShut'
  BY <1>0, <1>27 DEF LoopRemovesRegistry
<1>28. ASSUME NEW c \in ToolCalls, CallLooksUp(c) PROVE DrainsShut'
  BY <1>0, <1>28 DEF CallLooksUp
<1>29. ASSUME NEW c \in ToolCalls, CallAdmitted(c) PROVE DrainsShut'
  BY <1>0, <1>29 DEF CallAdmitted
<1>30. ASSUME NEW c \in ToolCalls, CallOverloaded(c) PROVE DrainsShut'
  BY <1>0, <1>30 DEF CallOverloaded, CallEnds
<1>31. ASSUME NEW c \in ToolCalls, CallReturns(c) PROVE DrainsShut'
  BY <1>0, <1>31 DEF CallReturns, CallEnds
<1>32. ASSUME NEW c \in ToolCalls, CallCancelled(c) PROVE DrainsShut'
  BY <1>0, <1>32 DEF CallCancelled, CallEnds
<1>33. ASSUME ShutdownStart PROVE DrainsShut'
  BY <1>0, <1>33 DEF ShutdownStart
<1>34. ASSUME ShutdownCloses PROVE DrainsShut'
  BY <1>0, <1>34 DEF ShutdownCloses, CloseRegistry
<1>35. ASSUME ShutdownClears PROVE DrainsShut'
  BY <1>0, <1>35 DEF ShutdownClears, DrainRegistry
<1>36. ASSUME ShutdownAborts PROVE DrainsShut'
  <2>1. Stopped
    BY <1>0, <1>36, AbortEffect DEF ShutdownAborts
  <2>2. QED
    BY <1>0, <1>36, <2>1 DEF ShutdownAborts, Stopped
<1>37. ASSUME ShutdownRest PROVE DrainsShut'
  BY <1>0, <1>37 DEF ShutdownRest
<1>38. ASSUME RunExits PROVE DrainsShut'
  <2>1. Stopped
    BY <1>0, <1>38, AbortEffect DEF RunExits
  <2>2. QED
    BY <1>0, <1>38, <2>1 DEF RunExits, Stopped
<1>39. CASE UNCHANGED sessionVars
  BY <1>0, <1>39 DEF sessionVars
<1>40. QED
  BY <1>1, <1>2, <1>3, <1>4, <1>5, <1>6, <1>7, <1>8, <1>9, <1>10, <1>11, <1>12, <1>13, <1>14,
     <1>15, <1>16, <1>17, <1>18, <1>19, <1>20, <1>21, <1>22, <1>23, <1>24, <1>25, <1>26, <1>27,
     <1>28, <1>29, <1>30, <1>31, <1>32, <1>33, <1>34, <1>35, <1>36, <1>37, <1>38, <1>39
  DEF SessionNext, BindNext, RouteNext, LoopNext, CallNext, ShutdownNext

LEMMA RegistryStep ==
  SessionInv /\ SessionShape' /\ [SessionNext]_sessionVars => RegistryKept'
<1> SUFFICES ASSUME SessionInv, SessionShape', [SessionNext]_sessionVars
             PROVE  RegistryKept'
  OBVIOUS
<1> USE DEF binding, entries, loops, cancels, tasks, router, ending
<1>0. SessionShape /\ DrainsShut /\ RegistryKept /\ BornInOrder
  BY DEF SessionInv
<1>n. (op = "bind.spawn" /\ op' = "free") \/ (NextLoop' = NextLoop /\ SameBorn)
  BY KeepsBorn, SameNext DEF BindSpawn
<1>1. ASSUME BindStart PROVE RegistryKept'
  BY <1>0, <1>1, LoopNumbers, <1>n
  DEF BindStart, RegistryKept, Serves, Born, SessionShape, SameBorn
<1>2. ASSUME BindGate PROVE RegistryKept'
  BY <1>0, <1>2, LoopNumbers, <1>n
  DEF BindGate, RegistryKept, Serves, Born, SessionShape, SameBorn, Healthy
<1>3. ASSUME BindInbox PROVE RegistryKept'
  BY <1>0, <1>3, LoopNumbers, <1>n
  DEF BindInbox, RegistryKept, Serves, Born, SessionShape, SameBorn
<1>4. ASSUME BindAdmission PROVE RegistryKept'
  BY <1>0, <1>4, LoopNumbers, <1>n
  DEF BindAdmission, RegistryKept, Serves, Born, SessionShape, SameBorn
<1>5. ASSUME BindRegistry PROVE RegistryKept'
  BY <1>0, <1>5, LoopNumbers, <1>n
  DEF BindRegistry, CloseRegistry, RegistryKept, Serves, Born, SessionShape, SameBorn
<1>6. ASSUME BindDrain PROVE RegistryKept'
  BY <1>0, <1>6, LoopNumbers, <1>n
  DEF BindDrain, DrainRegistry, RegistryKept, Serves, Born, SessionShape, SameBorn
<1>7. ASSUME BindSpawn PROVE RegistryKept'
  BY <1>0, <1>7, LoopNumbers, <1>n
  DEF BindSpawn, RegistryKept, Serves, Born, SessionShape, SameBorn
<1>8. ASSUME UnbindStart PROVE RegistryKept'
  BY <1>0, <1>8, LoopNumbers, <1>n
  DEF UnbindStart, RegistryKept, Serves, Born, SessionShape, SameBorn
<1>9. ASSUME UnbindCancel PROVE RegistryKept'
  BY <1>0, <1>9, LoopNumbers, <1>n
  DEF UnbindCancel, CloseRegistry, RegistryKept, Serves, Born, SessionShape, SameBorn
<1>10. ASSUME UnbindDrain PROVE RegistryKept'
  BY <1>0, <1>10, LoopNumbers, <1>n
  DEF UnbindDrain, DrainRegistry, RegistryKept, Serves, Born, SessionShape, SameBorn
<1>11. ASSUME UnbindAbort PROVE RegistryKept'
  BY <1>0, <1>11, LoopNumbers, <1>n
  DEF UnbindAbort, Abort, RegistryKept, Serves, Born, SessionShape, SameBorn
<1>12. ASSUME UnbindInbox PROVE RegistryKept'
  BY <1>0, <1>12, LoopNumbers, <1>n
  DEF UnbindInbox, RegistryKept, Serves, Born, SessionShape, SameBorn
<1>13. ASSUME UnbindAdmission PROVE RegistryKept'
  BY <1>0, <1>13, LoopNumbers, <1>n
  DEF UnbindAdmission, RegistryKept, Serves, Born, SessionShape, SameBorn
<1>14. ASSUME NEW f \in Frames, RouteLookup(f) PROVE RegistryKept'
  BY <1>0, <1>14, LoopNumbers, <1>n
  DEF RouteLookup, RegistryKept, Serves, Born, SessionShape, SameBorn
<1>15. ASSUME RouteSend PROVE RegistryKept'
  BY <1>0, <1>15, LoopNumbers, <1>n
  DEF RouteSend, RegistryKept, Serves, Born, SessionShape, SameBorn
<1>16. ASSUME RouteStale PROVE RegistryKept'
  BY <1>0, <1>16, LoopNumbers, <1>n
  DEF RouteStale, RegistryKept, Serves, Born, SessionShape, SameBorn
<1>17. ASSUME PeerBinds PROVE RegistryKept'
  BY <1>0, <1>17, LoopNumbers, <1>n
  DEF PeerBinds, RegistryKept, Serves, Born, SessionShape, SameBorn
<1>18. ASSUME NEW l \in Loops, LoopCancels(l) PROVE RegistryKept'
  BY <1>0, <1>18, LoopNumbers, <1>n
  DEF LoopCancels, CancelCall, RegistryKept, Serves, Born, SessionShape, SameBorn
<1>19. ASSUME NEW l \in Loops, LoopTakes(l) PROVE RegistryKept'
  BY <1>0, <1>19, LoopNumbers, <1>n
  DEF LoopTakes, RegistryKept, Serves, Born, SessionShape, SameBorn
<1>20. ASSUME NEW l \in Loops, LoopChecks(l) PROVE RegistryKept'
  BY <1>0, <1>20, LoopNumbers, <1>n
  DEF LoopChecks, Spawned, RegistryKept, Serves, Born, SessionShape, SameBorn
<1>21. ASSUME NEW l \in Loops, LoopInserts(l) PROVE RegistryKept'
  BY <1>0, <1>21, LoopNumbers, <1>n
  DEF LoopInserts, RegistryKept, Serves, Born, SessionShape, SameBorn
<1>22. ASSUME NEW l \in Loops, LoopRechecks(l) PROVE RegistryKept'
  BY <1>0, <1>22, LoopNumbers, <1>n
  DEF LoopRechecks, Spawned, RegistryKept, Serves, Born, SessionShape, SameBorn
<1>23. ASSUME NEW l \in Loops, LoopParks(l) PROVE RegistryKept'
  BY <1>0, <1>23, LoopNumbers, <1>n
  DEF LoopParks, RegistryKept, Serves, Born, SessionShape, SameBorn
<1>24. ASSUME NEW l \in Loops, LoopEnds(l) PROVE RegistryKept'
  BY <1>0, <1>24, LoopNumbers, <1>n
  DEF LoopEnds, CloseRegistry, RegistryKept, Serves, Born, SessionShape, SameBorn
<1>25. ASSUME NEW l \in Loops, LoopDrains(l) PROVE RegistryKept'
  BY <1>0, <1>25, LoopNumbers, <1>n
  DEF LoopDrains, DrainRegistry, RegistryKept, Serves, Born, SessionShape, SameBorn
<1>26. ASSUME NEW l \in Loops, LoopRemovesSession(l) PROVE RegistryKept'
  BY <1>0, <1>26, LoopNumbers, <1>n
  DEF LoopRemovesSession, RegistryKept, Serves, Born, SessionShape, SameBorn
<1>27. ASSUME NEW l \in Loops, LoopRemovesRegistry(l) PROVE RegistryKept'
  <2>1. l # NextLoop
    <3>1. PICK k \in 0..MaxLoops : \A m \in Loops : Born(m) <=> m <= k
      BY <1>0 DEF BornInOrder
    <3>2. NextLoop = k + 1
      BY <1>0, <3>1, NextLoopIs
    <3>3. Born(l)
      BY <1>27 DEF LoopRemovesRegistry, Born
    <3>4. QED
      BY <3>1, <3>2, <3>3 DEF Loops
  <2>2. l \in shut
    BY <1>0, <1>27 DEF LoopRemovesRegistry, DrainsShut
  <2>3. CASE registry = l
    BY <1>0, <1>27, <1>n, <2>1, <2>2, <2>3 DEF LoopRemovesRegistry, RegistryKept, Born, SameBorn
  <2>4. CASE registry # l
    BY <1>0, <1>27, <1>n, <2>4, LoopNumbers
    DEF LoopRemovesRegistry, RegistryKept, Serves, Born, SessionShape, SameBorn
  <2>5. QED
    BY <2>3, <2>4
<1>28. ASSUME NEW c \in ToolCalls, CallLooksUp(c) PROVE RegistryKept'
  BY <1>0, <1>28, LoopNumbers, <1>n
  DEF CallLooksUp, RegistryKept, Serves, Born, SessionShape, SameBorn
<1>29. ASSUME NEW c \in ToolCalls, CallAdmitted(c) PROVE RegistryKept'
  BY <1>0, <1>29, LoopNumbers, <1>n
  DEF CallAdmitted, RegistryKept, Serves, Born, SessionShape, SameBorn
<1>30. ASSUME NEW c \in ToolCalls, CallOverloaded(c) PROVE RegistryKept'
  BY <1>0, <1>30, LoopNumbers, <1>n
  DEF CallOverloaded, CallEnds, RegistryKept, Serves, Born, SessionShape, SameBorn
<1>31. ASSUME NEW c \in ToolCalls, CallReturns(c) PROVE RegistryKept'
  BY <1>0, <1>31, LoopNumbers, <1>n
  DEF CallReturns, CallEnds, RegistryKept, Serves, Born, SessionShape, SameBorn
<1>32. ASSUME NEW c \in ToolCalls, CallCancelled(c) PROVE RegistryKept'
  BY <1>0, <1>32, LoopNumbers, <1>n
  DEF CallCancelled, CallEnds, RegistryKept, Serves, Born, SessionShape, SameBorn
<1>33. ASSUME ShutdownStart PROVE RegistryKept'
  BY <1>0, <1>33, LoopNumbers, <1>n
  DEF ShutdownStart, RegistryKept, Serves, Born, SessionShape, SameBorn
<1>34. ASSUME ShutdownCloses PROVE RegistryKept'
  BY <1>0, <1>34, LoopNumbers, <1>n
  DEF ShutdownCloses, CloseRegistry, RegistryKept, Serves, Born, SessionShape, SameBorn
<1>35. ASSUME ShutdownClears PROVE RegistryKept'
  BY <1>0, <1>35, LoopNumbers, <1>n
  DEF ShutdownClears, DrainRegistry, RegistryKept, Serves, Born, SessionShape, SameBorn
<1>36. ASSUME ShutdownAborts PROVE RegistryKept'
  BY <1>0, <1>36, LoopNumbers, <1>n
  DEF ShutdownAborts, Abort, RegistryKept, Serves, Born, SessionShape, SameBorn
<1>37. ASSUME ShutdownRest PROVE RegistryKept'
  BY <1>0, <1>37, LoopNumbers, <1>n
  DEF ShutdownRest, RegistryKept, Serves, Born, SessionShape, SameBorn
<1>38. ASSUME RunExits PROVE RegistryKept'
  BY <1>0, <1>38, LoopNumbers, <1>n
  DEF RunExits, Abort, RegistryKept, Serves, Born, SessionShape, SameBorn
<1>39. CASE UNCHANGED sessionVars
  BY <1>0, <1>39, LoopNumbers, <1>n
  DEF sessionVars, RegistryKept, Serves, Born, SessionShape, SameBorn
<1>40. QED
  BY <1>1, <1>2, <1>3, <1>4, <1>5, <1>6, <1>7, <1>8, <1>9, <1>10, <1>11, <1>12, <1>13, <1>14,
     <1>15, <1>16, <1>17, <1>18, <1>19, <1>20, <1>21, <1>22, <1>23, <1>24, <1>25, <1>26, <1>27,
     <1>28, <1>29, <1>30, <1>31, <1>32, <1>33, <1>34, <1>35, <1>36, <1>37, <1>38, <1>39
  DEF SessionNext, BindNext, RouteNext, LoopNext, CallNext, ShutdownNext

\* The request that a loop dispatched is nowhere any more when its call is spawned.
LEMMA PlaceStarted ==
  ASSUME OnePlace, NEW l \in Loops, loop[l] \in Dispatching, Started(l, cur[l]),
         queue' = queue, routing' = routing
  PROVE  OnePlace'
<1>0. PICK c \in ToolCalls : c = cur[l]
  BY DEF OnePlace
<1>1. Current(l, c)
  BY <1>0 DEF Current
<1>2. /\ \A d \in ToolCalls : d # c => task'[d] = task[d]
      /\ \A m \in Loops : m # l => loop'[m] = loop[m] /\ cur'[m] = cur[m]
      /\ loop'[l] \notin Dispatching
  BY <1>0 DEF Started, Dispatching
<1>3. /\ \A d \in ToolCalls : Routed(d)' <=> Routed(d)
      /\ \A d \in ToolCalls, m \in Loops : \A k : Queued(m, k, d)' <=> Queued(m, k, d)
  BY DEF Routed, Queued
<1>4. \A d \in ToolCalls, m \in Loops : Current(m, d)' => Current(m, d) /\ d # c
  BY <1>1, <1>2 DEF Current, OnePlace
<1>5. \A m \in Loops : loop'[m] \in Dispatching => cur'[m] \in ToolCalls
  BY <1>2 DEF OnePlace
<1>6. QED
  BY <1>1, <1>2, <1>3, <1>4, <1>5 DEF OnePlace

\* No request moves.
Quiet ==
  /\ queue' = queue /\ routing' = routing
  /\ \A l \in Loops : loop'[l] \in Dispatching => loop[l] \in Dispatching /\ cur'[l] = cur[l]
  /\ \A c \in ToolCalls : task[c] = "sent" => task'[c] = "sent"

LEMMA PlaceQuiet == ASSUME OnePlace, Quiet PROVE OnePlace'
<1>1. /\ \A d \in ToolCalls : Routed(d)' <=> Routed(d)
      /\ \A d \in ToolCalls, m \in Loops : \A k : Queued(m, k, d)' <=> Queued(m, k, d)
      /\ \A d \in ToolCalls, m \in Loops : Current(m, d)' => Current(m, d)
  BY DEF Quiet, Routed, Queued, Current
<1>2. \A m \in Loops : loop'[m] \in Dispatching => cur'[m] \in ToolCalls
  BY DEF OnePlace, Quiet
<1>3. queue' = queue /\ \A c \in ToolCalls : task[c] = "sent" => task'[c] = "sent"
  BY DEF Quiet
<1>4. QED
  BY <1>1, <1>2, <1>3 DEF OnePlace

LEMMA PlaceStep ==
  SessionInv /\ SessionShape' /\ [SessionNext]_sessionVars => OnePlace'
<1> SUFFICES ASSUME SessionInv, SessionShape', [SessionNext]_sessionVars
             PROVE  OnePlace'
  OBVIOUS
<1> USE DEF binding, entries, loops, cancels, tasks, router, ending, OnePlace,
            Routed, Queued, Current
<1>0. SessionShape /\ OnePlace
  BY DEF SessionInv
<1>1. ASSUME BindStart PROVE OnePlace'
  BY <1>0, <1>1 DEF BindStart
<1>2. ASSUME BindGate PROVE OnePlace'
  BY <1>0, <1>2 DEF BindGate
<1>3. ASSUME BindInbox PROVE OnePlace'
  BY <1>0, <1>3 DEF BindInbox
<1>4. ASSUME BindAdmission PROVE OnePlace'
  BY <1>0, <1>4 DEF BindAdmission
<1>5. ASSUME BindRegistry PROVE OnePlace'
  BY <1>0, <1>5 DEF BindRegistry, CloseRegistry
<1>6. ASSUME BindDrain PROVE OnePlace'
  BY <1>0, <1>6 DEF BindDrain, DrainRegistry
<1>7. ASSUME BindSpawn PROVE OnePlace'
  BY <1>0, <1>7 DEF BindSpawn, SessionShape, Dispatching
<1>8. ASSUME UnbindStart PROVE OnePlace'
  BY <1>0, <1>8 DEF UnbindStart
<1>9. ASSUME UnbindCancel PROVE OnePlace'
  BY <1>0, <1>9 DEF UnbindCancel, CloseRegistry
<1>10. ASSUME UnbindDrain PROVE OnePlace'
  BY <1>0, <1>10 DEF UnbindDrain, DrainRegistry
<1>11. ASSUME UnbindAbort PROVE OnePlace'
  <2>1. Stopped
    BY <1>0, <1>11, AbortEffect DEF UnbindAbort
  <2>2. Quiet
    BY <1>11, <2>1 DEF UnbindAbort, Stopped, Quiet, Dispatching
  <2>3. QED
    BY <1>0, <2>2, PlaceQuiet
<1>12. ASSUME UnbindInbox PROVE OnePlace'
  BY <1>0, <1>12 DEF UnbindInbox
<1>13. ASSUME UnbindAdmission PROVE OnePlace'
  BY <1>0, <1>13 DEF UnbindAdmission
<1>14. ASSUME NEW f \in Frames, RouteLookup(f) PROVE OnePlace'
  BY <1>0, <1>14 DEF RouteLookup, SessionShape, Dispatching
<1>15. ASSUME RouteSend PROVE OnePlace'
  <2> DEFINE m == routing.to
             f == routing.frame
  <2>1. m \in Loops /\ f \in Frames /\ routing # Idle /\ routing' = Idle
        /\ loop' = loop /\ cur' = cur
    BY <1>0, <1>15 DEF RouteSend, SessionShape
  <2>2. \A c \in ToolCalls : ~Routed(c)'
    BY <2>1
  <2>3. CASE Len(queue[m]) < InboxBuffer
    <3>1. /\ queue'[m] = Append(queue[m], f) /\ task' = task
          /\ \A l \in Loops : l # m => queue'[l] = queue[l]
      BY <1>0, <1>15, <2>1, <2>3 DEF RouteSend, SessionShape
    <3> HIDE DEF m, f
    <3>2. \A k \in DOMAIN queue'[m] : IF k = Len(queue[m]) + 1 THEN queue'[m][k] = f
                                     ELSE k \in DOMAIN queue[m] /\ queue'[m][k] = queue[m][k]
      BY <1>0, <2>1, <3>1, FrameAppend DEF SessionShape
    <3>3. ASSUME NEW c \in ToolCalls, NEW l \in Loops, NEW k \in DOMAIN queue'[l], Queued(l, k, c)'
          PROVE  \/ l = m /\ k = Len(queue[m]) + 1 /\ Routed(c)
                 \/ (k \in DOMAIN queue[l] /\ Queued(l, k, c))
      BY <2>1, <3>1, <3>2, <3>3 DEF f
    <3>4. \A c \in ToolCalls, l \in Loops : Current(l, c)' <=> Current(l, c)
      BY <2>1
    <3> HIDE DEF Routed, Queued, Current
    <3>5. QED
      BY <1>0, <2>1, <2>2, <3>1, <3>3, <3>4
  <2>4. CASE ~(Len(queue[m]) < InboxBuffer)
    <3>1. /\ queue' = queue
          /\ \A c \in ToolCalls : task'[c] = task[c] \/ (c = f.call /\ f.kind = "request")
      BY <1>0, <1>15, <2>1, <2>4 DEF RouteSend, SessionShape
    <3>2. \A c \in ToolCalls : task'[c] = task[c] \/ Routed(c)
      <4>1. f.kind = "request" => f = [kind |-> "request", call |-> f.call]
        BY <2>1 DEF Frames
      <4>2. QED
        BY <2>1, <3>1, <4>1
    <3>3. /\ \A c \in ToolCalls, l \in Loops : Current(l, c)' <=> Current(l, c)
          /\ \A c \in ToolCalls, l \in Loops : \A k : Queued(l, k, c)' <=> Queued(l, k, c)
      BY <2>1, <3>1
    <3> HIDE DEF Routed, Queued, Current, m, f
    <3>4. QED
      BY <1>0, <2>1, <2>2, <3>1, <3>2, <3>3
  <2>5. QED
    BY <2>3, <2>4
<1>16. ASSUME RouteStale PROVE OnePlace'
  BY <1>0, <1>16 DEF RouteStale
<1>17. ASSUME PeerBinds PROVE OnePlace'
  BY <1>0, <1>17 DEF PeerBinds
<1>18. ASSUME NEW l \in Loops, LoopCancels(l) PROVE OnePlace'
  BY <1>0, <1>18 DEF LoopCancels, CancelCall, SessionShape, Dispatching
<1>19. ASSUME NEW l \in Loops, LoopTakes(l) PROVE OnePlace'
  <2> DEFINE c == Head(queue[l]).call
  <2>1. /\ Head(queue[l]) \in Frames /\ Head(queue[l]) = queue[l][1] /\ 1 \in DOMAIN queue[l]
        /\ \A k \in DOMAIN Tail(queue[l]) : /\ k \in Int /\ k # 0 /\ k + 1 \in DOMAIN queue[l]
                                             /\ Tail(queue[l])[k] = queue[l][k + 1]
    BY <1>0, <1>19, FrameTail DEF LoopTakes, SessionShape
  <2>2. c \in ToolCalls /\ queue[l][1] = [kind |-> "request", call |-> c]
    BY <1>19, <2>1 DEF LoopTakes, Frames
  <2>3. /\ cur'[l] = c /\ loop'[l] = "check" /\ queue'[l] = Tail(queue[l])
        /\ \A m \in Loops : m # l => queue'[m] = queue[m] /\ cur'[m] = cur[m] /\ loop'[m] = loop[m]
        /\ routing' = routing /\ task' = task /\ loop[l] \in {"parked", "busy"}
    BY <1>0, <1>19 DEF LoopTakes, SessionShape
  <2> HIDE DEF c
  <2>4. ASSUME NEW d \in ToolCalls, NEW m \in Loops, NEW k \in DOMAIN queue'[m], Queued(m, k, d)'
        PROVE  IF m = l THEN k \in Int /\ k + 1 \in DOMAIN queue[m] /\ k + 1 # 1
                              /\ Queued(m, k + 1, d)
               ELSE k \in DOMAIN queue[m] /\ Queued(m, k, d)
    <3>1. CASE m = l
      <4>1. k \in DOMAIN Tail(queue[l]) /\ Tail(queue[l])[k] = [kind |-> "request", call |-> d]
        BY <2>3, <2>4, <3>1
      <4>2. /\ k \in Int /\ k # 0 /\ k + 1 \in DOMAIN queue[l]
            /\ queue[l][k + 1] = [kind |-> "request", call |-> d]
        BY <2>1, <4>1
      <4>3. QED
        BY <3>1, <4>2
    <3>2. CASE m # l
      BY <2>3, <2>4, <3>2
    <3>3. QED
      BY <3>1, <3>2
  <2>5. \A d \in ToolCalls, m \in Loops :
          Current(m, d)' => IF m = l THEN d = c ELSE Current(m, d)
    BY <2>3
  <2>6. Queued(l, 1, c) /\ \A d \in ToolCalls : Routed(d)' <=> Routed(d)
    BY <2>1, <2>2, <2>3
  <2>7. \A m \in Loops : loop'[m] \in Dispatching => cur'[m] \in ToolCalls
    BY <1>0, <2>2, <2>3
  <2>8. ASSUME NEW d \in ToolCalls, NEW m \in Loops, NEW k \in DOMAIN queue'[m], Queued(m, k, d)'
        PROVE  d # c
    <3>1. ASSUME NEW i \in DOMAIN queue[m], Queued(m, i, c) PROVE m = l /\ i = 1
      <4> HIDE DEF Routed, Queued, Current
      <4>1. QED
        BY <1>0, <2>1, <2>2, <2>6, <3>1
    <3> HIDE DEF Routed, Queued, Current
    <3>2. CASE m = l
      BY <2>4, <2>8, <3>1, <3>2
    <3>3. CASE m # l
      BY <2>4, <2>8, <3>1, <3>3
    <3>4. QED
      BY <3>2, <3>3
  <2> HIDE DEF Routed, Queued, Current
  <2>9. QED
    BY <1>0, <2>1, <2>2, <2>3, <2>4, <2>5, <2>6, <2>7, <2>8
<1>20. ASSUME NEW l \in Loops, LoopChecks(l) PROVE OnePlace'
  <2>1. cur[l] \in ToolCalls
    BY <1>0, <1>20 DEF LoopChecks, Dispatching
  <2>2. CASE l \in shut
    <3>1. Started(l, cur[l])
      BY <1>0, <1>20, <2>1, <2>2, SpawnedEffect DEF LoopChecks
    <3>2. loop[l] \in Dispatching /\ queue' = queue /\ routing' = routing
      BY <1>20 DEF LoopChecks, Dispatching
    <3>3. QED
      BY <1>0, <3>1, <3>2, PlaceStarted
  <2>3. CASE l \notin shut
    <3>1. Quiet
      BY <1>0, <1>20, <2>3 DEF LoopChecks, Quiet, SessionShape, Dispatching
    <3>2. QED
      BY <1>0, <3>1, PlaceQuiet
  <2>4. QED
    BY <2>2, <2>3
<1>21. ASSUME NEW l \in Loops, LoopInserts(l) PROVE OnePlace'
  <2>1. Quiet
    BY <1>0, <1>21 DEF LoopInserts, Quiet, SessionShape, Dispatching
  <2>2. QED
    BY <1>0, <2>1, PlaceQuiet
<1>22. ASSUME NEW l \in Loops, LoopRechecks(l) PROVE OnePlace'
  <2>1. cur[l] \in ToolCalls
    BY <1>0, <1>22 DEF LoopRechecks, Dispatching
  <2>2. Started(l, cur[l])
    BY <1>0, <1>22, <2>1, SpawnedEffect DEF LoopRechecks
  <2>3. loop[l] \in Dispatching /\ queue' = queue /\ routing' = routing
    BY <1>22 DEF LoopRechecks, Dispatching
  <2>4. QED
    BY <1>0, <2>2, <2>3, PlaceStarted
<1>23. ASSUME NEW l \in Loops, LoopParks(l) PROVE OnePlace'
  <2>1. Quiet
    BY <1>0, <1>23 DEF LoopParks, Quiet, SessionShape, Dispatching
  <2>2. QED
    BY <1>0, <2>1, PlaceQuiet
<1>24. ASSUME NEW l \in Loops, LoopEnds(l) PROVE OnePlace'
  <2>1. Quiet
    BY <1>0, <1>24 DEF LoopEnds, CloseRegistry, Quiet, SessionShape, Dispatching
  <2>2. QED
    BY <1>0, <2>1, PlaceQuiet
<1>25. ASSUME NEW l \in Loops, LoopDrains(l) PROVE OnePlace'
  <2>1. Quiet
    BY <1>0, <1>25 DEF LoopDrains, DrainRegistry, Quiet, SessionShape, Dispatching
  <2>2. QED
    BY <1>0, <2>1, PlaceQuiet
<1>26. ASSUME NEW l \in Loops, LoopRemovesSession(l) PROVE OnePlace'
  <2>1. Quiet
    BY <1>0, <1>26 DEF LoopRemovesSession, Quiet, SessionShape, Dispatching
  <2>2. QED
    BY <1>0, <2>1, PlaceQuiet
<1>27. ASSUME NEW l \in Loops, LoopRemovesRegistry(l) PROVE OnePlace'
  <2>1. Quiet
    BY <1>0, <1>27 DEF LoopRemovesRegistry, Quiet, SessionShape, Dispatching
  <2>2. QED
    BY <1>0, <2>1, PlaceQuiet
<1>28. ASSUME NEW c \in ToolCalls, CallLooksUp(c) PROVE OnePlace'
  <2>1. Quiet
    BY <1>0, <1>28 DEF CallLooksUp, Quiet, SessionShape, Dispatching
  <2>2. QED
    BY <1>0, <2>1, PlaceQuiet
<1>29. ASSUME NEW c \in ToolCalls, CallAdmitted(c) PROVE OnePlace'
  <2>1. Quiet
    BY <1>0, <1>29 DEF CallAdmitted, Quiet, SessionShape, Dispatching
  <2>2. QED
    BY <1>0, <2>1, PlaceQuiet
<1>30. ASSUME NEW c \in ToolCalls, CallOverloaded(c) PROVE OnePlace'
  <2>1. Quiet
    BY <1>0, <1>30 DEF CallOverloaded, CallEnds, Quiet, SessionShape, Dispatching
  <2>2. QED
    BY <1>0, <2>1, PlaceQuiet
<1>31. ASSUME NEW c \in ToolCalls, CallReturns(c) PROVE OnePlace'
  <2>1. Quiet
    BY <1>0, <1>31 DEF CallReturns, CallEnds, Quiet, SessionShape, Dispatching
  <2>2. QED
    BY <1>0, <2>1, PlaceQuiet
<1>32. ASSUME NEW c \in ToolCalls, CallCancelled(c) PROVE OnePlace'
  <2>1. Quiet
    BY <1>0, <1>32 DEF CallCancelled, CallEnds, Quiet, SessionShape, Dispatching
  <2>2. QED
    BY <1>0, <2>1, PlaceQuiet
<1>33. ASSUME ShutdownStart PROVE OnePlace'
  BY <1>0, <1>33 DEF ShutdownStart
<1>34. ASSUME ShutdownCloses PROVE OnePlace'
  BY <1>0, <1>34 DEF ShutdownCloses, CloseRegistry
<1>35. ASSUME ShutdownClears PROVE OnePlace'
  BY <1>0, <1>35 DEF ShutdownClears, DrainRegistry
<1>36. ASSUME ShutdownAborts PROVE OnePlace'
  <2>1. Stopped
    BY <1>0, <1>36, AbortEffect DEF ShutdownAborts
  <2>2. Quiet
    BY <1>36, <2>1 DEF ShutdownAborts, Stopped, Quiet, Dispatching
  <2>3. QED
    BY <1>0, <2>2, PlaceQuiet
<1>37. ASSUME ShutdownRest PROVE OnePlace'
  BY <1>0, <1>37 DEF ShutdownRest
<1>38. ASSUME RunExits PROVE OnePlace'
  <2>1. Stopped
    BY <1>0, <1>38, AbortEffect DEF RunExits
  <2>2. Quiet
    BY <1>38, <2>1 DEF RunExits, Stopped, Quiet, Dispatching
  <2>3. QED
    BY <1>0, <2>2, PlaceQuiet
<1>39. CASE UNCHANGED sessionVars
  BY <1>0, <1>39 DEF sessionVars
<1>40. QED
  BY <1>1, <1>2, <1>3, <1>4, <1>5, <1>6, <1>7, <1>8, <1>9, <1>10, <1>11, <1>12, <1>13, <1>14,
     <1>15, <1>16, <1>17, <1>18, <1>19, <1>20, <1>21, <1>22, <1>23, <1>24, <1>25, <1>26, <1>27,
     <1>28, <1>29, <1>30, <1>31, <1>32, <1>33, <1>34, <1>35, <1>36, <1>37, <1>38, <1>39
  DEF SessionNext, BindNext, RouteNext, LoopNext, CallNext, ShutdownNext

\* Nothing is dispatched, and a token leaves its registry only when its call is cancelled.
Calm ==
  /\ shut' = shut /\ via' = via /\ cancelled \subseteq cancelled'
  /\ \A l \in Loops : /\ Draining(l)' <=> Draining(l)
                      /\ Born(l) => Born(l)'
                      /\ loop'[l] = "recheck" <=> loop[l] = "recheck"
                      /\ cur'[l] = cur[l]
                      /\ token'[l] \subseteq token[l]
                      /\ token[l] \subseteq token'[l] \cup cancelled'
  /\ \A c \in ToolCalls : InFlight(c)' => InFlight(c)

LEMMA CalmKeeps == ASSUME SessionShape, TokensKept, Calm PROVE TokensKept'
<1>0. shut \subseteq Loops
  BY DEF SessionShape
<1>1. \A c \in ToolCalls : InFlight(c)' => via'[c] \in Loops /\ Born(via[c])'
  BY DEF TokensKept, Calm
<1>2. \A c \in ToolCalls : InFlight(c)' /\ c \notin cancelled' => c \in token'[via'[c]]
  BY DEF TokensKept, Calm
<1>3. \A l \in shut' : ~Draining(l)' => \A c \in token'[l] : loop'[l] = "recheck" /\ cur'[l] = c
  BY <1>0 DEF TokensKept, Calm
<1>4. \A l \in Loops : loop'[l] = "recheck" => cur'[l] \in token'[l] \cup cancelled'
  BY DEF TokensKept, Calm
<1>5. via' = via
  BY DEF Calm
<1>6. QED
  BY <1>1, <1>2, <1>3, <1>4, <1>5 DEF TokensKept, Born

LEMMA TokensStep ==
  SessionInv /\ SessionShape' /\ [SessionNext]_sessionVars => TokensKept'
<1> SUFFICES ASSUME SessionInv, SessionShape', [SessionNext]_sessionVars
             PROVE  TokensKept'
  OBVIOUS
<1> USE DEF binding, entries, loops, cancels, tasks, router, ending
<1>0. SessionShape /\ TokensKept /\ DrainsShut
  BY DEF SessionInv
<1>p. /\ \A l \in Loops : loop[l] \in Dispatching => cur[l] \in ToolCalls /\ task[cur[l]] = "sent"
      /\ \A l, m \in Loops :
           loop[l] \in Dispatching /\ loop[m] \in Dispatching /\ cur[l] = cur[m] => l = m
  BY DEF SessionInv, OnePlace, Current
<1>1. ASSUME BindStart PROVE TokensKept'
  BY <1>0, <1>1, LoopNumbers, <1>p
  DEF BindStart, SessionShape, TokensKept, InFlight, Draining, Born
<1>2. ASSUME BindGate PROVE TokensKept'
  BY <1>0, <1>2, LoopNumbers, <1>p
  DEF BindGate, SessionShape, TokensKept, InFlight, Draining, Born
<1>3. ASSUME BindInbox PROVE TokensKept'
  BY <1>0, <1>3, LoopNumbers, <1>p
  DEF BindInbox, SessionShape, TokensKept, InFlight, Draining, Born
<1>4. ASSUME BindAdmission PROVE TokensKept'
  BY <1>0, <1>4, LoopNumbers, <1>p
  DEF BindAdmission, SessionShape, TokensKept, InFlight, Draining, Born
<1>5. ASSUME BindRegistry PROVE TokensKept'
  BY <1>0, <1>5, LoopNumbers, <1>p
  DEF BindRegistry, CloseRegistry, SessionShape, TokensKept, InFlight, Draining, Born
<1>6. ASSUME BindDrain PROVE TokensKept'
  BY <1>0, <1>6, LoopNumbers, <1>p
  DEF BindDrain, DrainRegistry, SessionShape, TokensKept, InFlight, Draining, Born, DrainsShut
<1>7. ASSUME BindSpawn PROVE TokensKept'
  <2>1. \A l \in Loops :
          loop'[l] = loop[l] \/ (loop[l] \in {"unborn", "parked"} /\ loop'[l] \in {"parked", "done"})
    <3>1. PICK k \in 0..MaxLoops : \A l \in Loops : Born(l) <=> l <= k
      BY DEF SessionInv, BornInOrder
    <3>2. NextLoop = k + 1
      BY <1>0, <3>1, NextLoopIs
    <3>3. NextLoop \in Loops => loop[NextLoop] = "unborn"
      BY <3>1, <3>2 DEF Born
    <3>4. QED
      BY <1>0, <1>7, <3>3 DEF BindSpawn, SessionShape
  <2>2. Calm
    BY <1>7, <2>1 DEF BindSpawn, Calm, Draining, Born, InFlight
  <2>3. QED
    BY <1>0, <2>2, CalmKeeps
<1>8. ASSUME UnbindStart PROVE TokensKept'
  BY <1>0, <1>8, LoopNumbers, <1>p
  DEF UnbindStart, SessionShape, TokensKept, InFlight, Draining, Born
<1>9. ASSUME UnbindCancel PROVE TokensKept'
  BY <1>0, <1>9, LoopNumbers, <1>p
  DEF UnbindCancel, CloseRegistry, SessionShape, TokensKept, InFlight, Draining, Born
<1>10. ASSUME UnbindDrain PROVE TokensKept'
  BY <1>0, <1>10, LoopNumbers, <1>p
  DEF UnbindDrain, DrainRegistry, SessionShape, TokensKept, InFlight, Draining, Born, DrainsShut
<1>11. ASSUME UnbindAbort PROVE TokensKept'
  <2>1. Stopped
    BY <1>0, <1>11, AbortEffect DEF UnbindAbort
  <2>2. Calm
    BY <1>11, <2>1 DEF UnbindAbort, Stopped, Calm, Draining, Born, InFlight
  <2>3. QED
    BY <1>0, <2>2, CalmKeeps
<1>12. ASSUME UnbindInbox PROVE TokensKept'
  BY <1>0, <1>12, LoopNumbers, <1>p
  DEF UnbindInbox, SessionShape, TokensKept, InFlight, Draining, Born
<1>13. ASSUME UnbindAdmission PROVE TokensKept'
  BY <1>0, <1>13, LoopNumbers, <1>p
  DEF UnbindAdmission, SessionShape, TokensKept, InFlight, Draining, Born
<1>14. ASSUME NEW f \in Frames, RouteLookup(f) PROVE TokensKept'
  BY <1>0, <1>14, LoopNumbers, <1>p
  DEF RouteLookup, SessionShape, TokensKept, InFlight, Draining, Born
<1>15. ASSUME RouteSend PROVE TokensKept'
  BY <1>0, <1>15, LoopNumbers, <1>p
  DEF RouteSend, SessionShape, TokensKept, InFlight, Draining, Born
<1>16. ASSUME RouteStale PROVE TokensKept'
  BY <1>0, <1>16, LoopNumbers, <1>p
  DEF RouteStale, SessionShape, TokensKept, InFlight, Draining, Born
<1>17. ASSUME PeerBinds PROVE TokensKept'
  BY <1>0, <1>17, LoopNumbers, <1>p
  DEF PeerBinds, SessionShape, TokensKept, InFlight, Draining, Born
<1>18. ASSUME NEW l \in Loops, LoopCancels(l) PROVE TokensKept'
  <2>1. PICK c \in ToolCalls : Handled(l, c)
    BY <1>0, <1>18, CancelEffect
  <2>2. Calm
    <3>1. /\ cancelled \subseteq cancelled'
          /\ \A m \in Loops :
               token'[m] \subseteq token[m] /\ token[m] \subseteq token'[m] \cup cancelled'
      BY <2>1 DEF Handled
    <3>2. \A m \in Loops :
            loop'[m] = loop[m] \/ (m = l /\ loop[m] \in {"parked", "busy"} /\ loop'[m] = "busy")
      BY <2>1 DEF Handled
    <3>3. /\ shut' = shut /\ via' = via /\ cur' = cur /\ task' = task /\ op' = op /\ stale' = stale
          /\ down' = down /\ doomed' = doomed
      BY <2>1 DEF Handled
    <3>4. QED
      BY <3>1, <3>2, <3>3 DEF Calm, Draining, Born, InFlight
  <2>3. QED
    BY <1>0, <2>2, CalmKeeps
<1>19. ASSUME NEW l \in Loops, LoopTakes(l) PROVE TokensKept'
  BY <1>0, <1>19, LoopNumbers, <1>p
  DEF LoopTakes, SessionShape, TokensKept, InFlight, Draining, Born, Dispatching
<1>20. ASSUME NEW l \in Loops, LoopChecks(l) PROVE TokensKept'
  <2>1. cur[l] \in ToolCalls /\ loop[l] = "check" /\ task[cur[l]] = "sent"
    BY <1>p, <1>20 DEF LoopChecks, Dispatching
  <2>2. CASE l \in shut
    <3>1. Started(l, cur[l])
      BY <1>0, <1>20, <2>1, <2>2, SpawnedEffect DEF LoopChecks
    <3>2. cancelled' = cancelled \cup {cur[l]} /\ token' = token /\ shut' = shut
      BY <1>20, <2>2 DEF LoopChecks
    <3>0. PICK c \in ToolCalls : c = cur[l]
      BY <2>1
    <3>4. \A m \in Loops : (Draining(m)' <=> Draining(m)) /\ (Born(m) => Born(m)') /\ Born(l)'
      BY <1>20, <2>1, <3>1 DEF LoopChecks, Started, Draining, Born
    <3>5. /\ InFlight(c)' /\ via'[c] = l /\ loop'[l] = "busy"
          /\ \A d \in ToolCalls : d # c => (InFlight(d)' <=> InFlight(d)) /\ via'[d] = via[d]
          /\ \A m \in Loops : m # l => loop'[m] = loop[m] /\ cur'[m] = cur[m]
      BY <3>0, <3>1 DEF Started, InFlight
    <3>7. \A d \in ToolCalls : InFlight(d)' => via'[d] \in Loops /\ Born(via[d])'
      BY <1>0, <3>4, <3>5 DEF TokensKept, Born
    <3>8. \A d \in ToolCalls : InFlight(d)' /\ d \notin cancelled' => d \in token'[via'[d]]
      BY <1>0, <2>1, <3>0, <3>2, <3>5, <3>2 DEF TokensKept
    <3>9. \A m \in shut' : ~Draining(m)' => \A d \in token'[m] : loop'[m] = "recheck" /\ cur'[m] = d
      BY <1>0, <2>1, <3>0, <3>4, <3>5, <3>2 DEF TokensKept, SessionShape
    <3>10. \A m \in Loops : loop'[m] = "recheck" => cur'[m] \in token'[m] \cup cancelled'
      BY <1>0, <2>1, <3>0, <3>2, <3>5, <3>2 DEF TokensKept
    <3>11. QED
      BY <3>7, <3>8, <3>9, <3>10 DEF TokensKept, Born
  <2>3. CASE l \notin shut
    <3>1. /\ loop' = [loop EXCEPT ![l] = "insert"]
          /\ cancelled' = cancelled /\ cur' = cur /\ task' = task /\ via' = via
      BY <1>20, <2>3 DEF LoopChecks
    <3>2. Calm
      BY <1>0, <1>20, <2>1, <3>1 DEF LoopChecks, Calm, SessionShape, Draining, Born, InFlight
    <3>3. QED
      BY <1>0, <3>2, CalmKeeps
  <2>4. QED
    BY <2>2, <2>3
<1>21. ASSUME NEW l \in Loops, LoopInserts(l) PROVE TokensKept'
  BY <1>0, <1>21, LoopNumbers, <1>p
  DEF LoopInserts, SessionShape, TokensKept, InFlight, Draining, Born, Dispatching
<1>22. ASSUME NEW l \in Loops, LoopRechecks(l) PROVE TokensKept'
  <2>1. cur[l] \in ToolCalls /\ task[cur[l]] = "sent" /\ loop[l] = "recheck"
    BY <1>p, <1>22 DEF LoopRechecks, Dispatching
  <2>2. Started(l, cur[l])
    BY <1>0, <1>22, <2>1, SpawnedEffect DEF LoopRechecks
  <2>0. PICK c \in ToolCalls : c = cur[l]
    BY <2>1
  <2>4. \A m \in Loops : (Draining(m)' <=> Draining(m)) /\ (Born(m) => Born(m)') /\ Born(l)'
    BY <1>22, <2>1, <2>2 DEF LoopRechecks, Started, Draining, Born
  <2>5. /\ InFlight(c)' /\ via'[c] = l /\ loop'[l] = "busy"
        /\ \A d \in ToolCalls : d # c => (InFlight(d)' <=> InFlight(d)) /\ via'[d] = via[d]
        /\ \A m \in Loops : m # l => loop'[m] = loop[m] /\ cur'[m] = cur[m]
    BY <2>0, <2>2 DEF Started, InFlight
  <2>6. /\ shut' = shut /\ cancelled \subseteq cancelled'
        /\ \A m \in Loops : m # l => token'[m] = token[m]
        /\ IF l \in shut /\ cur[l] \in token[l]
             THEN cur[l] \in cancelled' /\ token'[l] = token[l] \ {cur[l]} ELSE token'[l] = token[l]
    <3>1. CASE Missed(l)
      <4>1. /\ cancelled' = cancelled \cup {cur[l]}
            /\ token' = [token EXCEPT ![l] = token[l] \ {cur[l]}]
        BY <1>22, <3>1 DEF LoopRechecks
      <4>2. token'[l] = token[l] \ {cur[l]} /\ \A m \in Loops : m # l => token'[m] = token[m]
        BY <1>0, <4>1 DEF SessionShape
      <4>3. QED
        BY <1>22, <3>1, <4>1, <4>2 DEF LoopRechecks, Missed
    <3>2. CASE ~Missed(l)
      BY <1>22, <3>2 DEF LoopRechecks, Missed
    <3>3. QED
      BY <3>1, <3>2
  <2>3. cur[l] \in token[l] \cup cancelled
    BY <1>0, <2>1 DEF TokensKept
  <2>7. \A d \in ToolCalls : InFlight(d)' => via'[d] \in Loops /\ Born(via[d])'
    BY <1>0, <2>4, <2>5 DEF TokensKept, Born
  <2>8. \A d \in ToolCalls : InFlight(d)' /\ d \notin cancelled' => d \in token'[via'[d]]
    BY <1>0, <2>1, <2>0, <2>3, <2>5, <2>6 DEF TokensKept
  <2>9. \A m \in shut' : ~Draining(m)' => \A d \in token'[m] : loop'[m] = "recheck" /\ cur'[m] = d
    <3> SUFFICES ASSUME NEW m \in shut', ~Draining(m)', NEW d \in token'[m]
                 PROVE  loop'[m] = "recheck" /\ cur'[m] = d
      OBVIOUS
    <3>1. m \in Loops /\ m \in shut /\ ~Draining(m)
      BY <1>0, <2>4, <2>6 DEF SessionShape
    <3>2. \A e \in token[m] : loop[m] = "recheck" /\ cur[m] = e
      BY <1>0, <3>1 DEF TokensKept
    <3>3. CASE m = l
      BY <2>6, <3>1, <3>2, <3>3
    <3>4. CASE m # l
      BY <2>5, <2>6, <3>1, <3>2, <3>4
    <3>5. QED
      BY <3>3, <3>4
  <2>10. \A m \in Loops : loop'[m] = "recheck" => cur'[m] \in token'[m] \cup cancelled'
    BY <1>0, <2>1, <2>0, <2>3, <2>5, <2>6 DEF TokensKept
  <2>11. QED
    BY <2>7, <2>8, <2>9, <2>10 DEF TokensKept, Born
<1>23. ASSUME NEW l \in Loops, LoopParks(l) PROVE TokensKept'
  BY <1>0, <1>23, LoopNumbers, <1>p
  DEF LoopParks, SessionShape, TokensKept, InFlight, Draining, Born
<1>24. ASSUME NEW l \in Loops, LoopEnds(l) PROVE TokensKept'
  BY <1>0, <1>24, LoopNumbers, <1>p
  DEF LoopEnds, CloseRegistry, SessionShape, TokensKept, InFlight, Draining, Born
<1>25. ASSUME NEW l \in Loops, LoopDrains(l) PROVE TokensKept'
  BY <1>0, <1>25, LoopNumbers, <1>p
  DEF LoopDrains, DrainRegistry, SessionShape, TokensKept, InFlight, Draining, Born
<1>26. ASSUME NEW l \in Loops, LoopRemovesSession(l) PROVE TokensKept'
  BY <1>0, <1>26, LoopNumbers, <1>p
  DEF LoopRemovesSession, SessionShape, TokensKept, InFlight, Draining, Born
<1>27. ASSUME NEW l \in Loops, LoopRemovesRegistry(l) PROVE TokensKept'
  BY <1>0, <1>27, LoopNumbers, <1>p
  DEF LoopRemovesRegistry, SessionShape, TokensKept, InFlight, Draining, Born
<1>28. ASSUME NEW c \in ToolCalls, CallLooksUp(c) PROVE TokensKept'
  BY <1>0, <1>28, LoopNumbers, <1>p
  DEF CallLooksUp, SessionShape, TokensKept, InFlight, Draining, Born
<1>29. ASSUME NEW c \in ToolCalls, CallAdmitted(c) PROVE TokensKept'
  BY <1>0, <1>29, LoopNumbers, <1>p
  DEF CallAdmitted, SessionShape, TokensKept, InFlight, Draining, Born
<1>30. ASSUME NEW c \in ToolCalls, CallOverloaded(c) PROVE TokensKept'
  BY <1>0, <1>30, LoopNumbers, <1>p
  DEF CallOverloaded, CallEnds, SessionShape, TokensKept, InFlight, Draining, Born, Dispatching
<1>31. ASSUME NEW c \in ToolCalls, CallReturns(c) PROVE TokensKept'
  BY <1>0, <1>31, LoopNumbers, <1>p
  DEF CallReturns, CallEnds, SessionShape, TokensKept, InFlight, Draining, Born, Dispatching
<1>32. ASSUME NEW c \in ToolCalls, CallCancelled(c) PROVE TokensKept'
  BY <1>0, <1>32, LoopNumbers, <1>p
  DEF CallCancelled, CallEnds, SessionShape, TokensKept, InFlight, Draining, Born, Dispatching
<1>33. ASSUME ShutdownStart PROVE TokensKept'
  BY <1>0, <1>33, LoopNumbers, <1>p
  DEF ShutdownStart, SessionShape, TokensKept, InFlight, Draining, Born
<1>34. ASSUME ShutdownCloses PROVE TokensKept'
  BY <1>0, <1>34, LoopNumbers, <1>p
  DEF ShutdownCloses, CloseRegistry, SessionShape, TokensKept, InFlight, Draining, Born
<1>35. ASSUME ShutdownClears PROVE TokensKept'
  <2>1. CASE doomed = 0
    <3>1. Calm
      BY <1>35, <2>1, LoopNumbers DEF ShutdownClears, Calm, Draining, Born, InFlight
    <3>2. QED
      BY <1>0, <3>1, CalmKeeps
  <2>2. CASE doomed # 0
    <3>1. /\ token' = [token EXCEPT ![doomed] = {}] /\ cancelled' = cancelled \cup token[doomed]
          /\ doomed \in Loops
      BY <1>0, <1>35, <2>2 DEF ShutdownClears, DrainRegistry, DrainsShut, SessionShape
    <3>2. QED
      BY <1>0, <1>35, <3>1 DEF ShutdownClears, SessionShape, TokensKept, InFlight, Draining, Born
  <2>3. QED
    BY <2>1, <2>2
<1>36. ASSUME ShutdownAborts PROVE TokensKept'
  <2>1. Stopped
    BY <1>0, <1>36, AbortEffect DEF ShutdownAborts
  <2>2. Calm
    BY <1>36, <2>1 DEF ShutdownAborts, Stopped, Calm, Draining, Born, InFlight
  <2>3. QED
    BY <1>0, <2>2, CalmKeeps
<1>37. ASSUME ShutdownRest PROVE TokensKept'
  BY <1>0, <1>37, LoopNumbers, <1>p
  DEF ShutdownRest, SessionShape, TokensKept, InFlight, Draining, Born
<1>38. ASSUME RunExits PROVE TokensKept'
  <2>1. Stopped
    BY <1>0, <1>38, AbortEffect DEF RunExits
  <2>2. Calm
    BY <1>38, <2>1 DEF RunExits, Stopped, Calm, Draining, Born, InFlight
  <2>3. QED
    BY <1>0, <2>2, CalmKeeps
<1>39. CASE UNCHANGED sessionVars
  BY <1>0, <1>39, LoopNumbers, <1>p
  DEF sessionVars, SessionShape, TokensKept, InFlight, Draining, Born
<1>40. QED
  BY <1>1, <1>2, <1>3, <1>4, <1>5, <1>6, <1>7, <1>8, <1>9, <1>10, <1>11, <1>12, <1>13, <1>14,
     <1>15, <1>16, <1>17, <1>18, <1>19, <1>20, <1>21, <1>22, <1>23, <1>24, <1>25, <1>26, <1>27,
     <1>28, <1>29, <1>30, <1>31, <1>32, <1>33, <1>34, <1>35, <1>36, <1>37, <1>38, <1>39
  DEF SessionNext, BindNext, RouteNext, LoopNext, CallNext, ShutdownNext

LEMMA AskedStep ==
  SessionInv /\ SessionShape' /\ [SessionNext]_sessionVars => (AskedKept /\ CancelApplied)'
<1> SUFFICES ASSUME SessionInv, SessionShape', [SessionNext]_sessionVars
             PROVE  (AskedKept /\ CancelApplied)'
  OBVIOUS
<1> USE DEF binding, entries, loops, cancels, tasks, router, ending, AskedKept,
            CancelApplied, InFlight
<1>0. SessionShape /\ AskedKept /\ CancelApplied /\ DrainsShut /\ TokensKept
  BY DEF SessionInv
<1>p. /\ \A l \in Loops : loop[l] \in Dispatching => cur[l] \in ToolCalls /\ task[cur[l]] = "sent"
      /\ \A l, m \in Loops :
           loop[l] \in Dispatching /\ loop[m] \in Dispatching /\ cur[l] = cur[m] => l = m
  BY DEF SessionInv, OnePlace, Current
<1>1. ASSUME BindStart PROVE (AskedKept /\ CancelApplied)'
  BY <1>0, <1>1, LoopNumbers, <1>p DEF BindStart, SessionShape
<1>2. ASSUME BindGate PROVE (AskedKept /\ CancelApplied)'
  BY <1>0, <1>2, LoopNumbers, <1>p DEF BindGate, SessionShape
<1>3. ASSUME BindInbox PROVE (AskedKept /\ CancelApplied)'
  BY <1>0, <1>3, LoopNumbers, <1>p DEF BindInbox, SessionShape
<1>4. ASSUME BindAdmission PROVE (AskedKept /\ CancelApplied)'
  BY <1>0, <1>4, LoopNumbers, <1>p DEF BindAdmission, SessionShape
<1>5. ASSUME BindRegistry PROVE (AskedKept /\ CancelApplied)'
  BY <1>0, <1>5, LoopNumbers, <1>p DEF BindRegistry, CloseRegistry, SessionShape
<1>6. ASSUME BindDrain PROVE (AskedKept /\ CancelApplied)'
  BY <1>0, <1>6, LoopNumbers, <1>p DEF BindDrain, DrainRegistry, SessionShape, DrainsShut
<1>7. ASSUME BindSpawn PROVE (AskedKept /\ CancelApplied)'
  BY <1>0, <1>7, LoopNumbers, <1>p DEF BindSpawn, SessionShape
<1>8. ASSUME UnbindStart PROVE (AskedKept /\ CancelApplied)'
  BY <1>0, <1>8, LoopNumbers, <1>p DEF UnbindStart, SessionShape
<1>9. ASSUME UnbindCancel PROVE (AskedKept /\ CancelApplied)'
  BY <1>0, <1>9, LoopNumbers, <1>p DEF UnbindCancel, CloseRegistry, SessionShape
<1>10. ASSUME UnbindDrain PROVE (AskedKept /\ CancelApplied)'
  BY <1>0, <1>10, LoopNumbers, <1>p DEF UnbindDrain, DrainRegistry, SessionShape, DrainsShut
<1>11. ASSUME UnbindAbort PROVE (AskedKept /\ CancelApplied)'
  <2>1. Stopped
    BY <1>0, <1>11, AbortEffect DEF UnbindAbort
  <2>2. QED
    BY <1>0, <1>11, <2>1 DEF UnbindAbort, Stopped, SessionShape
<1>12. ASSUME UnbindInbox PROVE (AskedKept /\ CancelApplied)'
  BY <1>0, <1>12, LoopNumbers, <1>p DEF UnbindInbox, SessionShape
<1>13. ASSUME UnbindAdmission PROVE (AskedKept /\ CancelApplied)'
  BY <1>0, <1>13, LoopNumbers, <1>p DEF UnbindAdmission, SessionShape
<1>14. ASSUME NEW f \in Frames, RouteLookup(f) PROVE (AskedKept /\ CancelApplied)'
  BY <1>0, <1>14, LoopNumbers, <1>p DEF RouteLookup, SessionShape
<1>15. ASSUME RouteSend PROVE (AskedKept /\ CancelApplied)'
  BY <1>0, <1>15, LoopNumbers, <1>p DEF RouteSend, SessionShape
<1>16. ASSUME RouteStale PROVE (AskedKept /\ CancelApplied)'
  BY <1>0, <1>16, LoopNumbers, <1>p DEF RouteStale, SessionShape
<1>17. ASSUME PeerBinds PROVE (AskedKept /\ CancelApplied)'
  BY <1>0, <1>17, LoopNumbers, <1>p DEF PeerBinds, SessionShape
<1>18. ASSUME NEW l \in Loops, LoopCancels(l) PROVE (AskedKept /\ CancelApplied)'
  <2>1. PICK c \in ToolCalls : Handled(l, c)
    BY <1>0, <1>18, CancelEffect
  <2>2. QED
    BY <1>0, <2>1 DEF Handled, SessionShape, TokensKept
<1>19. ASSUME NEW l \in Loops, LoopTakes(l) PROVE (AskedKept /\ CancelApplied)'
  BY <1>0, <1>19, LoopNumbers, <1>p DEF LoopTakes, SessionShape, Dispatching
<1>20. ASSUME NEW l \in Loops, LoopChecks(l) PROVE (AskedKept /\ CancelApplied)'
  <2>1. cur[l] \in ToolCalls /\ loop[l] = "check"
    BY <1>p, <1>20 DEF LoopChecks, Dispatching
  <2>2. CASE l \in shut
    <3>1. Started(l, cur[l])
      BY <1>0, <1>20, <2>1, <2>2, SpawnedEffect DEF LoopChecks
    <3>2. cancelled' = cancelled \cup {cur[l]}
      BY <1>20, <2>2 DEF LoopChecks
    <3>3. PICK c \in ToolCalls : c = cur[l]
      BY <2>1
    <3>4. tombs' = tombs /\ asked' = asked /\ shut' = shut
      BY <1>20 DEF LoopChecks
    <3>5. /\ \A d \in ToolCalls : d # c => task'[d] = task[d] /\ via'[d] = via[d]
          /\ \A m \in Loops : m # l => loop'[m] = loop[m] /\ cur'[m] = cur[m]
          /\ task'[c] = "spawned" /\ via'[c] = l /\ loop'[l] = "busy" /\ c \in cancelled'
      BY <3>1, <3>2, <3>3 DEF Started
    <3>6. AskedKept'
      BY <1>0, <3>2, <3>4, <3>5
    <3>7. CancelApplied'
      BY <1>0, <3>2, <3>4, <3>5
    <3>8. QED
      BY <3>6, <3>7
  <2>3. CASE l \notin shut
    BY <1>0, <1>20, <2>3 DEF LoopChecks, SessionShape
  <2>4. QED
    BY <2>2, <2>3
<1>21. ASSUME NEW l \in Loops, LoopInserts(l) PROVE (AskedKept /\ CancelApplied)'
  BY <1>0, <1>21, LoopNumbers, <1>p DEF LoopInserts, SessionShape, Dispatching
<1>22. ASSUME NEW l \in Loops, LoopRechecks(l) PROVE (AskedKept /\ CancelApplied)'
  <2>1. cur[l] \in ToolCalls /\ task[cur[l]] = "sent" /\ loop[l] = "recheck"
    BY <1>p, <1>22 DEF LoopRechecks, Dispatching
  <2>2. Started(l, cur[l])
    BY <1>0, <1>22, <2>1, SpawnedEffect DEF LoopRechecks
  <2>3. cur[l] \in cancelled' \/ << l, cur[l] >> \notin asked
    BY <1>0, <1>22, <2>1 DEF LoopRechecks, Missed, TokensKept
  <2>4. cancelled \subseteq cancelled'
    BY <1>22 DEF LoopRechecks
  <2>5. PICK c \in ToolCalls : c = cur[l]
    BY <2>1
  <2>6. tombs' = tombs /\ asked' = asked /\ shut' = shut
    BY <1>22 DEF LoopRechecks
  <2>7. /\ \A d \in ToolCalls : d # c => task'[d] = task[d] /\ via'[d] = via[d]
        /\ \A m \in Loops : m # l => loop'[m] = loop[m] /\ cur'[m] = cur[m]
        /\ task'[c] = "spawned" /\ via'[c] = l /\ loop'[l] = "busy"
    BY <2>2, <2>5 DEF Started
  <2>8. AskedKept'
    BY <1>0, <2>4, <2>6, <2>7
  <2>9. CancelApplied'
    BY <1>0, <2>3, <2>4, <2>5, <2>6, <2>7
  <2>10. QED
    BY <2>8, <2>9
<1>23. ASSUME NEW l \in Loops, LoopParks(l) PROVE (AskedKept /\ CancelApplied)'
  BY <1>0, <1>23, LoopNumbers, <1>p DEF LoopParks, SessionShape
<1>24. ASSUME NEW l \in Loops, LoopEnds(l) PROVE (AskedKept /\ CancelApplied)'
  BY <1>0, <1>24, LoopNumbers, <1>p DEF LoopEnds, CloseRegistry, SessionShape
<1>25. ASSUME NEW l \in Loops, LoopDrains(l) PROVE (AskedKept /\ CancelApplied)'
  BY <1>0, <1>25, LoopNumbers, <1>p DEF LoopDrains, DrainRegistry, SessionShape, DrainsShut
<1>26. ASSUME NEW l \in Loops, LoopRemovesSession(l) PROVE (AskedKept /\ CancelApplied)'
  BY <1>0, <1>26, LoopNumbers, <1>p DEF LoopRemovesSession, SessionShape
<1>27. ASSUME NEW l \in Loops, LoopRemovesRegistry(l) PROVE (AskedKept /\ CancelApplied)'
  BY <1>0, <1>27, LoopNumbers, <1>p DEF LoopRemovesRegistry, SessionShape
<1>28. ASSUME NEW c \in ToolCalls, CallLooksUp(c) PROVE (AskedKept /\ CancelApplied)'
  BY <1>0, <1>28, LoopNumbers, <1>p DEF CallLooksUp, SessionShape
<1>29. ASSUME NEW c \in ToolCalls, CallAdmitted(c) PROVE (AskedKept /\ CancelApplied)'
  BY <1>0, <1>29, LoopNumbers, <1>p DEF CallAdmitted, SessionShape
<1>30. ASSUME NEW c \in ToolCalls, CallOverloaded(c) PROVE (AskedKept /\ CancelApplied)'
  BY <1>0, <1>30, LoopNumbers, <1>p DEF CallOverloaded, CallEnds, SessionShape, Dispatching
<1>31. ASSUME NEW c \in ToolCalls, CallReturns(c) PROVE (AskedKept /\ CancelApplied)'
  BY <1>0, <1>31, LoopNumbers, <1>p DEF CallReturns, CallEnds, SessionShape, Dispatching
<1>32. ASSUME NEW c \in ToolCalls, CallCancelled(c) PROVE (AskedKept /\ CancelApplied)'
  BY <1>0, <1>32, LoopNumbers, <1>p DEF CallCancelled, CallEnds, SessionShape, Dispatching
<1>33. ASSUME ShutdownStart PROVE (AskedKept /\ CancelApplied)'
  BY <1>0, <1>33, LoopNumbers, <1>p DEF ShutdownStart, SessionShape
<1>34. ASSUME ShutdownCloses PROVE (AskedKept /\ CancelApplied)'
  BY <1>0, <1>34, LoopNumbers, <1>p DEF ShutdownCloses, CloseRegistry, SessionShape
<1>35. ASSUME ShutdownClears PROVE (AskedKept /\ CancelApplied)'
  BY <1>0, <1>35, LoopNumbers, <1>p DEF ShutdownClears, DrainRegistry, SessionShape, DrainsShut
<1>36. ASSUME ShutdownAborts PROVE (AskedKept /\ CancelApplied)'
  <2>1. Stopped
    BY <1>0, <1>36, AbortEffect DEF ShutdownAborts
  <2>2. QED
    BY <1>0, <1>36, <2>1 DEF ShutdownAborts, Stopped, SessionShape
<1>37. ASSUME ShutdownRest PROVE (AskedKept /\ CancelApplied)'
  BY <1>0, <1>37, LoopNumbers, <1>p DEF ShutdownRest, SessionShape
<1>38. ASSUME RunExits PROVE (AskedKept /\ CancelApplied)'
  <2>1. Stopped
    BY <1>0, <1>38, AbortEffect DEF RunExits
  <2>2. QED
    BY <1>0, <1>38, <2>1 DEF RunExits, Stopped, SessionShape
<1>39. CASE UNCHANGED sessionVars
  BY <1>0, <1>39, LoopNumbers, <1>p DEF sessionVars, SessionShape
<1>40. QED
  BY <1>1, <1>2, <1>3, <1>4, <1>5, <1>6, <1>7, <1>8, <1>9, <1>10, <1>11, <1>12, <1>13, <1>14,
     <1>15, <1>16, <1>17, <1>18, <1>19, <1>20, <1>21, <1>22, <1>23, <1>24, <1>25, <1>26, <1>27,
     <1>28, <1>29, <1>30, <1>31, <1>32, <1>33, <1>34, <1>35, <1>36, <1>37, <1>38, <1>39
  DEF SessionNext, BindNext, RouteNext, LoopNext, CallNext, ShutdownNext

LEMMA SessionInvInit == SessionInit => SessionInv
<1> SUFFICES ASSUME SessionInit PROVE SessionInv
  OBVIOUS
<1>1. SessionShape
  BY HubSessionsAssumption DEF SessionInit, SessionShape, Loops, Frames
<1>2. BornInOrder
  <2>1. 0 \in 0..MaxLoops /\ \A l \in Loops : Born(l) <=> l <= 0
    BY HubSessionsAssumption DEF SessionInit, Born, Loops
  <2>2. QED
    BY <2>1 DEF SessionInit, BornInOrder
<1>3. DrainsShut /\ RegistryKept
  BY DEF SessionInit, DrainsShut, RegistryKept, Born
<1>4. OnePlace
  BY DEF SessionInit, OnePlace, Routed, Queued, Current, Dispatching
<1>5. TokensKept /\ AskedKept /\ CancelApplied
  BY DEF SessionInit, TokensKept, AskedKept, CancelApplied, InFlight
<1>6. QED
  BY <1>1, <1>2, <1>3, <1>4, <1>5 DEF SessionInv

LEMMA SessionInvStep == SessionInv /\ [SessionNext]_sessionVars => SessionInv'
<1> SUFFICES ASSUME SessionInv, [SessionNext]_sessionVars PROVE SessionInv'
  OBVIOUS
<1>1. SessionShape'
  BY SessionShapeStep
<1>2. QED
  BY <1>1, BornStep, DrainsStep, RegistryStep, PlaceStep, TokensStep, AskedStep DEF SessionInv

LEMMA SessionSound == SessionSpec => []SessionInv
<1>1. QED
  BY SessionInvInit, SessionInvStep, PTL DEF SessionSpec

\* CancelReaches (cancel.rs, run_session_loop): a cancellation reaches its call, whether it
\* runs, is being dispatched while the registry is torn down, or has not arrived yet.
THEOREM CancelCorrect == SessionSpec => []CancelReaches
<1>1. SessionInv => CancelReaches
  <2> SUFFICES ASSUME SessionInv PROVE CancelReaches
    OBVIOUS
  <2>0. SessionShape /\ RegistryKept /\ OnePlace /\ TokensKept /\ CancelApplied
    BY DEF SessionInv
  <2>1. ASSUME NEW c \in ToolCalls, InFlight(c), via[c] \in shut, c \notin cancelled
        PROVE  Draining(via[c])
    <3>1. c \in token[via[c]] /\ via[c] \in Loops
      BY <2>0, <2>1 DEF TokensKept
    <3>2. CASE ~Draining(via[c])
      <4>1. Current(via[c], c)
        BY <2>0, <2>1, <3>1, <3>2 DEF TokensKept, Current, Dispatching
      <4>2. task[c] = "sent"
        BY <2>0, <3>1, <4>1 DEF OnePlace
      <4>3. QED
        BY <2>1, <4>2 DEF InFlight
    <3>3. QED
      BY <3>2
  <2>2. NoEscape
    BY <2>1 DEF NoEscape
  <2>3. Cancellable
    <3> SUFFICES ASSUME down = "no", NEW c \in ToolCalls, InFlight(c), c \notin cancelled
                 PROVE  c \in token[via[c]] /\ (registry = via[c] \/ Draining(via[c]))
      BY DEF Cancellable
    <3>1. c \in token[via[c]] /\ via[c] \in Loops /\ Born(via[c])
      BY <2>0 DEF TokensKept
    <3>2. CASE via[c] \in shut
      BY <2>1, <3>1, <3>2
    <3>3. CASE via[c] \notin shut
      BY <2>0, <3>1, <3>3 DEF RegistryKept
    <3>4. QED
      BY <3>2, <3>3
  <2>4. QED
    BY <2>0, <2>2, <2>3 DEF CancelReaches
<1>2. QED
  BY <1>1, SessionSound, PTL

\* RebindKeeps (bind_session_local_with_metadata): the registry that came with a loop stays in
\* the map as long as the loop serves, and a bind closes no registry of a loop that serves.
THEOREM RebindCorrect == SessionSpec => RebindKeeps
<1>1. SessionInv => FreshRegistryKept
  BY LoopNumbers DEF SessionInv, SessionShape, RegistryKept, FreshRegistryKept, Serves, Born
<1>2. ASSUME SessionInv, [SessionNext]_sessionVars, down = "no", op = "bind.registry", op' # op,
             NEW l \in shut' \ shut
      PROVE  ~Serves(l)
  <2> USE DEF binding
  <2>1. BindRegistry
    <3>1. ~RouteNext
      BY <1>2 DEF RouteNext, RouteLookup, RouteSend, RouteStale, PeerBinds
    <3>2. ~LoopNext
      BY <1>2 DEF LoopNext, LoopCancels, LoopTakes, LoopChecks, LoopInserts, LoopRechecks,
                  LoopParks, LoopEnds, LoopDrains, LoopRemovesSession, LoopRemovesRegistry
    <3>3. ~CallNext
      BY <1>2 DEF CallNext, CallLooksUp, CallAdmitted, CallOverloaded, CallReturns,
                  CallCancelled, CallEnds
    <3>4. ~ShutdownNext
      BY <1>2 DEF ShutdownNext, ShutdownStart, ShutdownCloses, ShutdownClears, ShutdownAborts,
                  ShutdownRest, RunExits
    <3>5. BindNext => BindRegistry
      BY <1>2 DEF BindNext, BindStart, BindGate, BindInbox, BindAdmission, BindDrain, BindSpawn,
                  UnbindStart, UnbindCancel, UnbindDrain, UnbindAbort, UnbindInbox,
                  UnbindAdmission
    <3>6. ~UNCHANGED sessionVars
      BY <1>2 DEF sessionVars
    <3>7. QED
      BY <1>2, <3>1, <3>2, <3>3, <3>4, <3>5, <3>6 DEF SessionNext
  <2>2. l = registry /\ registry # 0
    BY <1>2, <2>1 DEF BindRegistry, CloseRegistry
  <2>3. QED
    BY <1>2, <2>2 DEF SessionInv, RegistryKept
<1>3. SessionInv /\ [SessionNext]_sessionVars =>
        (down = "no" /\ op = "bind.registry" /\ op' # op => \A l \in shut' \ shut : ~Serves(l))
  BY <1>2
<1>4. SessionInv /\ [SessionNext]_sessionVars =>
        [down = "no" /\ op = "bind.registry" /\ op' # op =>
           \A l \in shut' \ shut : ~Serves(l)]_sessionVars
  BY <1>3
<1>5. SessionSpec => BindKeepsCalls
  BY <1>4, SessionSound, PTL DEF SessionSpec, BindKeepsCalls
<1>6. QED
  BY <1>1, <1>5, SessionSound, PTL DEF RebindKeeps
=============================================================================
