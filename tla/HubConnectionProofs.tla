------------------------- MODULE HubConnectionProofs -------------------------
(***************************************************************************)
(* Proofs about one connection of the hub client, for every number of      *)
(* calls, sockets and places in the channels: the calls are kept, and the  *)
(* writer follows the reader from socket to socket.                        *)
(***************************************************************************)
EXTENDS HubConnection, TLAPS

(***************************************************************************)
(* The channels                                                            *)
(***************************************************************************)
LEMMA TailFacts ==
  ASSUME NEW S, NEW q \in Seq(S), q # << >>
  PROVE  /\ Head(q) \in S /\ Tail(q) \in Seq(S) /\ Len(Tail(q)) = Len(q) - 1
         /\ IF Tail(q) = << >> THEN Head(q) = Last(q) ELSE Last(Tail(q)) = Last(q)
         /\ \A x : Contains(q, x) => x = Head(q) \/ Contains(Tail(q), x)
         /\ \A x : x = Head(q) \/ Contains(Tail(q), x) => Contains(q, x)
<1>1. Len(q) \in Nat /\ Len(q) > 0 /\ Head(q) = q[1] /\ q[1] \in S
  OBVIOUS
<1>2. /\ Tail(q) \in Seq(S) /\ Len(Tail(q)) = Len(q) - 1
      /\ \A i \in 1..(Len(q) - 1) : Tail(q)[i] = q[i + 1]
  OBVIOUS
<1>3. IF Tail(q) = << >> THEN Head(q) = Last(q) ELSE Last(Tail(q)) = Last(q)
  BY <1>1, <1>2 DEF Last
<1>4. ASSUME NEW x, Contains(q, x) PROVE x = Head(q) \/ Contains(Tail(q), x)
  <2>1. PICK i \in 1..Len(q) : q[i] = x
    BY <1>4 DEF Contains
  <2>2. CASE i = 1
    BY <1>1, <2>1, <2>2
  <2>3. CASE i # 1
    <3>1. i - 1 \in 1..Len(Tail(q)) /\ Tail(q)[i - 1] = x
      BY <1>1, <1>2, <2>1, <2>3
    <3>2. QED
      BY <3>1 DEF Contains
  <2>4. QED
    BY <2>2, <2>3
<1>5. ASSUME NEW x, x = Head(q) \/ Contains(Tail(q), x) PROVE Contains(q, x)
  <2>1. CASE x = Head(q)
    <3>1. 1 \in 1..Len(q) /\ q[1] = x
      BY <1>1, <2>1
    <3>2. QED
      BY <3>1 DEF Contains
  <2>2. CASE Contains(Tail(q), x)
    <3>1. PICK i \in 1..Len(Tail(q)) : Tail(q)[i] = x
      BY <2>2 DEF Contains
    <3>2. i + 1 \in 1..Len(q) /\ q[i + 1] = x
      BY <1>1, <1>2, <3>1
    <3>3. QED
      BY <3>2 DEF Contains
  <2>3. QED
    BY <1>5, <2>1, <2>2
<1>6. QED
  BY <1>1, <1>2, <1>3, <1>4, <1>5

LEMMA AppendFacts ==
  ASSUME NEW S, NEW q \in Seq(S), NEW e \in S
  PROVE  /\ Append(q, e) \in Seq(S) /\ Len(Append(q, e)) = Len(q) + 1 /\ Append(q, e) # << >>
         /\ Last(Append(q, e)) = e
         /\ \A x : Contains(Append(q, e), x) <=> (x = e \/ Contains(q, x))
<1>1. /\ Append(q, e) \in Seq(S) /\ Len(Append(q, e)) = Len(q) + 1 /\ Append(q, e) # << >>
      /\ \A i \in 1..Len(q) : Append(q, e)[i] = q[i]
      /\ Append(q, e)[Len(q) + 1] = e /\ Len(q) \in Nat
  OBVIOUS
<1>2. Last(Append(q, e)) = e
  BY <1>1 DEF Last
<1>3. ASSUME NEW x, Contains(Append(q, e), x) PROVE x = e \/ Contains(q, x)
  <2>1. PICK i \in 1..(Len(q) + 1) : Append(q, e)[i] = x
    BY <1>1, <1>3 DEF Contains
  <2>2. QED
    BY <1>1, <2>1 DEF Contains
<1>4. ASSUME NEW x, x = e \/ Contains(q, x) PROVE Contains(Append(q, e), x)
  <2>1. CASE x = e
    <3>1. Len(q) + 1 \in 1..Len(Append(q, e)) /\ Append(q, e)[Len(q) + 1] = x
      BY <1>1, <2>1
    <3>2. QED
      BY <3>1 DEF Contains
  <2>2. CASE Contains(q, x)
    <3>1. PICK i \in 1..Len(q) : q[i] = x
      BY <2>2 DEF Contains
    <3>2. i \in 1..Len(Append(q, e)) /\ Append(q, e)[i] = x
      BY <1>1, <3>1
    <3>3. QED
      BY <3>2 DEF Contains
  <2>3. QED
    BY <1>4, <2>1, <2>2
<1>5. QED
  BY <1>1, <1>2, <1>3, <1>4

LEMMA EmptyFacts ==
  ASSUME NEW S
  PROVE  << >> \in Seq(S) /\ Len(<< >>) = 0 /\ \A x : ~Contains(<< >>, x)
BY DEF Contains

LEMMA ControlFacts ==
  /\ PauseWriter \in Control /\ CloseWriter \in Control
  /\ \A s \in Sockets : ResumeWriter(s) \in Control
  /\ \A s : ResumeWriter(s).op = "resume" /\ ResumeWriter(s).sink = s
  /\ PauseWriter.op = "pause"
BY DEF Control, PauseWriter, CloseWriter, ResumeWriter

-----------------------------------------------------------------------------
(***************************************************************************)
(* Shapes                                                                  *)
(***************************************************************************)
LEMMA DrainFacts ==
  /\ DOMAIN DrainError = {"drain", "terminal", "refused", "exit"}
  /\ \A at \in DOMAIN DrainError : DrainError[at] \in {"network", "closed", "auth"}
BY DEF DrainError

LEMMA ShapeInit == Init => ConnectionShape
BY HubConnectionAssumption, EmptyFacts DEF Init, ConnectionShape, Sockets

LEMMA ShapeStep == ConnectionShape /\ [Next]_vars => ConnectionShape'
<1> SUFFICES ASSUME ConnectionShape, [Next]_vars PROVE ConnectionShape'
  OBVIOUS
<1> USE HubConnectionAssumption
    DEF ConnectionShape, callers, readers, drains, writers, hub, ghosts, Finish
<1>1. ASSUME NEW c \in Calls, Register(c) PROVE ConnectionShape'
  BY <1>1 DEF Register
<1>2. ASSUME NEW c \in Calls, SendOutbound(c) PROVE ConnectionShape'
  <2>1. CASE Enqueued(c)
    BY <1>2, <2>1, AppendFacts DEF SendOutbound, Enqueued
  <2>2. CASE Refused(c) \/ Blocked(c)
    BY <1>2, <2>2 DEF SendOutbound, Refused, Blocked, Ended
  <2>3. QED
    BY <1>2, <2>1, <2>2 DEF SendOutbound
<1>3. ASSUME NEW c \in Calls, Backpressure(c) \/ Receive(c) \/ Timeout(c) \/ Abandon(c)
      PROVE  ConnectionShape'
  BY <1>3 DEF Backpressure, Receive, Timeout, Abandon, Ended
<1>4. CASE RequestShutdown \/ ForceReconnect
  BY <1>4 DEF RequestShutdown, ForceReconnect
<1>5. ASSUME NEW c \in Calls, ReadResponse(c) \/ DrainKey(c) PROVE ConnectionShape'
  BY <1>5, DrainFacts DEF ReadResponse, DrainKey
<1>6. CASE ReaderPhaseEnds \/ Backoff \/ StopWriter \/ JoinWriter
  BY <1>6, DrainFacts DEF ReaderPhaseEnds, Backoff, StopWriter, JoinWriter
<1>7. CASE LostClose \/ LostPause
  <2>1. \E m \in Control : ctl' = Append(ctl, m)
    BY <1>7, ControlFacts DEF LostClose, LostPause, SendCtl
  <2>2. ctl' \in Seq(Control)
    BY <2>1, AppendFacts
  <2>3. QED
    BY <1>7, <2>2, DrainFacts DEF LostClose, LostPause
<1>8. CASE DrainBegins \/ LostDrain \/ TerminalClose \/ ActorExits
  BY <1>8 DEF DrainBegins, DrainEnds, LostDrain, TerminalClose, ActorExits
<1>9. CASE Reconnected
  BY <1>9, DrainFacts DEF Reconnected, Sockets
<1>10. CASE ReconnectFails
  BY <1>10, DrainFacts DEF ReconnectFails
<1>11. CASE Resume
  BY <1>11, AppendFacts, ControlFacts, DrainFacts DEF Resume, SendCtl
<1>12. CASE WriterStopped
  BY <1>12, EmptyFacts DEF WriterStopped, WriterEnds, Abandoned
<1>13. CASE WriterControlled
  BY <1>13, TailFacts DEF WriterControlled, Apply, Abandoned
<1>14. CASE WriterTakes
  BY <1>14, TailFacts DEF WriterTakes
<1>15. CASE WriterPolls \/ WriterBeats \/ WriterIdles
  BY <1>15 DEF WriterPolls, WriterBeats, WriterIdles
<1>16. CASE WriterSent
  BY <1>16 DEF WriterSent
<1>17. CASE WriteFails \/ WriterCloses
  BY <1>17 DEF WriteFails, WriterCloses
<1>18. CASE HubNext
  BY <1>18 DEF HubNext, HubAnswers, SocketDies
<1>19. CASE UNCHANGED vars
  BY <1>19 DEF vars
<1>20. QED
  BY <1>1, <1>2, <1>3, <1>4, <1>5, <1>6, <1>7, <1>8, <1>9, <1>10, <1>11, <1>12, <1>13, <1>14,
     <1>15, <1>16, <1>17, <1>18, <1>19
  DEF Next, CallerNext, ReaderNext, WriterNext

-----------------------------------------------------------------------------
(***************************************************************************)
(* The writer follows the reader                                           *)
(***************************************************************************)
LEMMA ToldInit == Init => WriterTold
BY DEF Init, WriterTold, InGap

LEMMA ToldStep == ConnectionShape /\ WriterTold /\ [Next]_vars => WriterTold'
<1> SUFFICES ASSUME ConnectionShape, WriterTold, [Next]_vars PROVE WriterTold'
  OBVIOUS
<1> USE DEF WriterTold, InGap, callers, readers, drains, writers, hub, ghosts
<1>1. CASE CallerNext
  BY <1>1 DEF CallerNext, Register, SendOutbound, Backpressure, Receive, Timeout, Abandon
<1>2. CASE RequestShutdown \/ ForceReconnect
  BY <1>2 DEF RequestShutdown, ForceReconnect
<1>3. CASE \E c \in Calls : ReadResponse(c) \/ DrainKey(c)
  BY <1>3 DEF ReadResponse, DrainKey
<1>4. CASE ReaderPhaseEnds \/ StopWriter \/ JoinWriter
  BY <1>4 DEF ReaderPhaseEnds, StopWriter, JoinWriter
<1>5. CASE LostClose
  BY <1>5 DEF LostClose, SendCtl
<1>6. CASE LostPause
  BY <1>6, AppendFacts, ControlFacts DEF LostPause, SendCtl, ConnectionShape
<1>7. CASE DrainBegins \/ LostDrain \/ TerminalClose \/ ActorExits
  BY <1>7 DEF DrainBegins, LostDrain, TerminalClose, ActorExits
<1>8. CASE Backoff \/ Reconnected \/ ReconnectFails
  BY <1>8 DEF Backoff, Reconnected, ReconnectFails
<1>9. CASE Resume
  BY <1>9, AppendFacts, ControlFacts DEF Resume, SendCtl, ConnectionShape
<1>10. CASE WriterStopped
  BY <1>10 DEF WriterStopped, WriterEnds
<1>11. CASE WriterControlled
  <2>1. /\ ctl # << >> /\ ctl' = Tail(ctl) /\ UNCHANGED << reader, stream, up >>
        /\ live' = (Head(ctl).op = "resume")
        /\ sink' = IF Head(ctl).op = "resume" THEN Head(ctl).sink ELSE sink
        /\ writer' \in {"closing", "select"}
    BY <1>11 DEF WriterControlled, Apply
  <2>2. IF ctl' = << >> THEN Head(ctl) = Last(ctl) ELSE Last(ctl)' = Last(ctl)
    BY <2>1, TailFacts DEF ConnectionShape
  <2>3. CASE ctl' = << >>
    <3>1. reader = "reading" => sink' = stream /\ live'
      BY <2>1, <2>2, <2>3, ControlFacts
    <3>2. InGap \/ reader = "drain" => ~live'
      BY <2>1, <2>2, <2>3, ControlFacts
    <3>3. QED
      BY <2>1, <2>3, <3>1, <3>2
  <2>4. CASE ctl' # << >>
    BY <2>1, <2>2, <2>4
  <2>5. QED
    BY <2>3, <2>4
<1>12. CASE WriterPolls \/ WriterBeats \/ WriterTakes \/ WriterIdles
  BY <1>12 DEF WriterPolls, WriterBeats, WriterTakes, WriterIdles
<1>13. CASE WriterSent
  BY <1>13 DEF WriterSent
<1>14. CASE WriteFails
  BY <1>14 DEF WriteFails
<1>15. CASE WriterCloses
  BY <1>15 DEF WriterCloses
<1>16. CASE HubNext
  BY <1>16 DEF HubNext, HubAnswers, SocketDies
<1>17. CASE UNCHANGED vars
  BY <1>17 DEF vars
<1>18. QED
  BY <1>1, <1>2, <1>3, <1>4, <1>5, <1>6, <1>7, <1>8, <1>9, <1>10, <1>11, <1>12, <1>13, <1>14,
     <1>15, <1>16, <1>17 DEF Next, ReaderNext, WriterNext

LEMMA IdleInit == Init => WriterIdle
BY DEF Init, WriterIdle

LEMMA IdleStep == WriterIdle /\ [Next]_vars => WriterIdle'
<1> SUFFICES ASSUME WriterIdle, [Next]_vars PROVE WriterIdle'
  OBVIOUS
<1> USE DEF WriterIdle, callers, readers, drains, writers, hub, ghosts
<1>1. CASE CallerNext
  BY <1>1 DEF CallerNext, Register, SendOutbound, Backpressure, Receive, Timeout, Abandon
<1>2. CASE RequestShutdown \/ ForceReconnect
  BY <1>2 DEF RequestShutdown, ForceReconnect
<1>3. CASE \E c \in Calls : ReadResponse(c) \/ DrainKey(c)
  BY <1>3 DEF ReadResponse, DrainKey
<1>4. CASE ReaderPhaseEnds \/ StopWriter \/ JoinWriter
  BY <1>4 DEF ReaderPhaseEnds, StopWriter, JoinWriter
<1>5. CASE LostClose \/ LostPause \/ DrainBegins \/ LostDrain
  BY <1>5 DEF LostClose, LostPause, DrainBegins, LostDrain
<1>6. CASE TerminalClose \/ ActorExits \/ Resume
  BY <1>6 DEF TerminalClose, ActorExits, Resume
<1>7. CASE Backoff \/ Reconnected \/ ReconnectFails
  BY <1>7 DEF Backoff, Reconnected, ReconnectFails
<1>8. CASE WriterStopped
  BY <1>8 DEF WriterStopped, WriterEnds
<1>9. CASE WriterControlled
  BY <1>9 DEF WriterControlled, Apply
<1>10. CASE WriterPolls \/ WriterBeats \/ WriterTakes \/ WriterIdles
  BY <1>10 DEF WriterPolls, WriterBeats, WriterTakes, WriterIdles
<1>11. CASE WriterSent
  BY <1>11 DEF WriterSent
<1>12. CASE WriteFails \/ WriterCloses
  BY <1>12 DEF WriteFails, WriterCloses
<1>13. CASE HubNext
  BY <1>13 DEF HubNext, HubAnswers, SocketDies
<1>14. CASE UNCHANGED vars
  BY <1>14 DEF vars
<1>15. QED
  BY <1>1, <1>2, <1>3, <1>4, <1>5, <1>6, <1>7, <1>8, <1>9, <1>10, <1>11, <1>12, <1>13, <1>14
  DEF Next, ReaderNext, WriterNext

-----------------------------------------------------------------------------
(***************************************************************************)
(* Callers and waiters                                                     *)
(***************************************************************************)
LEMMA HeldInit == Init => CallersHeld
BY HubConnectionAssumption, EmptyFacts DEF Init, CallersHeld

\* A call that ends gives its waiter back.
LEMMA FinishHeld ==
  ASSUME ConnectionShape, CallersHeld, NEW c \in Calls, NEW r \in Ended, Finish(c, r),
         UNCHANGED << outbound, hand >>
  PROVE  CallersHeld'
BY DEF ConnectionShape, CallersHeld, Finish, Ended

\* Who is drained has a result.
LEMMA DrainHeld ==
  ASSUME ConnectionShape, CallersHeld, NEW c \in Calls, DrainKey(c)
  PROVE  CallersHeld'
<1>1. DrainError[reader] # None
  BY DrainFacts, HubConnectionAssumption DEF DrainKey, ConnectionShape
<1>2. QED
  BY <1>1 DEF ConnectionShape, CallersHeld, DrainKey, writers

LEMMA HeldStep == ConnectionShape /\ CallersHeld /\ WriterIdle /\ [Next]_vars => CallersHeld'
<1> SUFFICES ASSUME ConnectionShape, CallersHeld, WriterIdle, [Next]_vars PROVE CallersHeld'
  OBVIOUS
<1> USE DEF callers, readers, drains, writers, hub, ghosts
<1>1. ASSUME NEW c \in Calls, Register(c) PROVE CallersHeld'
  BY <1>1 DEF Register, ConnectionShape, CallersHeld
<1>2. ASSUME NEW c \in Calls, SendOutbound(c) PROVE CallersHeld'
  <2>1. CASE Enqueued(c)
    <3>1. \A x : Contains(outbound', x) => x = c \/ Contains(outbound, x)
      BY <2>1, AppendFacts DEF Enqueued, ConnectionShape
    <3>2. /\ call[c] \in {"registered", "blocked"} /\ call' = [call EXCEPT ![c] = "waiting"]
          /\ UNCHANGED << waiters, slot, hand >>
      BY <1>2, <2>1 DEF SendOutbound, Enqueued
    <3>3. QED
      BY <3>1, <3>2 DEF ConnectionShape, CallersHeld
  <2>2. CASE Refused(c)
    BY <1>2, <2>2, FinishHeld, HubConnectionAssumption DEF SendOutbound, Refused, Ended
  <2>3. CASE Blocked(c) /\ call[c] = "registered"
    BY <1>2, <2>3 DEF SendOutbound, Blocked, ConnectionShape, CallersHeld
  <2>4. QED
    BY <1>2, <2>1, <2>2, <2>3 DEF SendOutbound
<1>3. ASSUME NEW c \in Calls, Backpressure(c) \/ Receive(c) \/ Timeout(c) \/ Abandon(c)
      PROVE  CallersHeld'
  <2>1. \E r \in Ended : Finish(c, r)
    BY <1>3 DEF Backpressure, Receive, Timeout, Abandon, Ended, ConnectionShape
  <2>2. UNCHANGED << outbound, hand >>
    BY <1>3 DEF Backpressure, Receive, Timeout, Abandon
  <2>3. QED
    BY <2>1, <2>2, FinishHeld
<1>4. CASE RequestShutdown \/ ForceReconnect
  BY <1>4 DEF RequestShutdown, ForceReconnect, CallersHeld
<1>5. ASSUME NEW c \in Calls, ReadResponse(c) PROVE CallersHeld'
  BY <1>5, HubConnectionAssumption DEF ReadResponse, ConnectionShape, CallersHeld
<1>6. CASE ReaderPhaseEnds \/ StopWriter \/ JoinWriter \/ LostClose \/ LostPause \/ Resume
  BY <1>6 DEF ReaderPhaseEnds, StopWriter, JoinWriter, LostClose, LostPause, Resume, CallersHeld
<1>7. ASSUME NEW c \in Calls, DrainKey(c) PROVE CallersHeld'
  BY <1>7, DrainHeld
<1>8. CASE DrainBegins \/ LostDrain \/ TerminalClose \/ ActorExits
  BY <1>8 DEF DrainBegins, DrainEnds, LostDrain, TerminalClose, ActorExits, CallersHeld
<1>9. CASE Backoff \/ Reconnected \/ ReconnectFails
  BY <1>9 DEF Backoff, Reconnected, ReconnectFails, CallersHeld
<1>10. CASE WriterStopped
  <2>1. outbound' = << >> /\ hand' = None /\ UNCHANGED << call, waiters, slot >>
    BY <1>10 DEF WriterStopped, WriterEnds
  <2>2. QED
    BY <2>1, EmptyFacts, HubConnectionAssumption DEF CallersHeld
<1>11. CASE WriterControlled
  BY <1>11, HubConnectionAssumption DEF WriterControlled, Apply, CallersHeld
<1>12. CASE WriterTakes
  <2>1. \A x : x = hand' \/ Contains(outbound', x) => Contains(outbound, x)
    BY <1>12, TailFacts DEF WriterTakes, ConnectionShape
  <2>2. UNCHANGED << call, waiters, slot >>
    BY <1>12 DEF WriterTakes
  <2>3. QED
    BY <2>1, <2>2 DEF CallersHeld
<1>13. CASE WriterPolls \/ WriterBeats \/ WriterIdles
  BY <1>13, HubConnectionAssumption DEF WriterPolls, WriterBeats, WriterIdles, CallersHeld
<1>14. CASE WriterSent
  BY <1>14, HubConnectionAssumption DEF WriterSent, CallersHeld
<1>15. CASE WriteFails \/ WriterCloses
  BY <1>15, HubConnectionAssumption DEF WriteFails, WriterCloses, CallersHeld
<1>16. CASE HubNext
  BY <1>16 DEF HubNext, HubAnswers, SocketDies, CallersHeld
<1>17. CASE UNCHANGED vars
  BY <1>17 DEF vars, CallersHeld
<1>18. QED
  BY <1>1, <1>2, <1>3, <1>4, <1>5, <1>6, <1>7, <1>8, <1>9, <1>10, <1>11, <1>12, <1>13, <1>14,
     <1>15, <1>16, <1>17 DEF Next, CallerNext, ReaderNext, WriterNext

-----------------------------------------------------------------------------
(***************************************************************************)
(* Frames                                                                  *)
(***************************************************************************)
LEMMA FramesInit == Init => FramesKept
BY DEF Init, FramesKept, Unresolved

\* What concerns the frame of one call.
FrameKept(c) ==
  /\ InGap \/ Uncopied(c) => Contains(outbound, c) /\ hand # c
  /\ reader = "reading" /\ ctl # << >> => hand # c
  /\ reader = "reading" =>
       Contains(outbound, c) \/ hand = c \/ wire[c] = stream \/ stream \notin up

LEMMA FrameKeptFacts ==
  /\ FramesKept <=> \A c \in Calls \ overtaken : Unresolved(c) => FrameKept(c)
  /\ FramesKept' <=> \A c \in Calls \ overtaken' : Unresolved(c)' => FrameKept(c)'
BY DEF FramesKept, FrameKept

LEMMA FramesStep ==
  ConnectionShape /\ WriterTold /\ WriterIdle /\ CallersHeld /\ FramesKept /\ [Next]_vars
    => FramesKept'
<1> SUFFICES ASSUME ConnectionShape, WriterTold, WriterIdle, CallersHeld, FramesKept, [Next]_vars,
                    NEW x \in Calls \ overtaken', Unresolved(x)'
             PROVE  FrameKept(x)'
  BY FrameKeptFacts
<1> USE DEF callers, readers, drains, writers, hub, ghosts
<1>1. ASSUME NEW c \in Calls, Register(c) PROVE FrameKept(x)'
  <2>1. Unresolved(x)
    BY <1>1 DEF Register, Unresolved, ConnectionShape
  <2>2. QED
    BY <1>1, <2>1, FrameKeptFacts DEF Register, FrameKept, InGap, Uncopied, ConnectionShape
<1>2. ASSUME NEW c \in Calls, SendOutbound(c) PROVE FrameKept(x)'
  <2>1. CASE Enqueued(c)
    <3>1. \A y : Contains(outbound', y) <=> (y = c \/ Contains(outbound, y))
      BY <2>1, AppendFacts DEF Enqueued, ConnectionShape
    <3>2. /\ call[c] \in {"registered", "blocked"} /\ call' = [call EXCEPT ![c] = "waiting"]
          /\ UNCHANGED << slot, hand, reader, drains, ctl, stream, up, wire, overtaken >>
      BY <1>2, <2>1 DEF SendOutbound, Enqueued
    <3>3. CASE x = c
      <4>1. hand # c
        BY <3>2 DEF CallersHeld
      <4>2. QED
        BY <3>1, <3>2, <3>3, <4>1 DEF FrameKept, InGap, Uncopied
    <3>4. CASE x # c
      <4>1. Unresolved(x)
        BY <3>2, <3>4 DEF Unresolved, ConnectionShape
      <4>2. QED
        BY <3>1, <3>2, <4>1, FrameKeptFacts DEF FrameKept, InGap, Uncopied
    <3>5. QED
      BY <3>3, <3>4
  <2>2. CASE Refused(c) \/ Blocked(c)
    <3>1. Unresolved(x)
      BY <1>2, <2>2 DEF SendOutbound, Refused, Blocked, Finish, Unresolved, ConnectionShape
    <3>2. QED
      BY <1>2, <2>2, <3>1, FrameKeptFacts DEF SendOutbound, Refused, Blocked, FrameKept, InGap, Uncopied
  <2>3. QED
    BY <1>2, <2>1, <2>2 DEF SendOutbound
<1>3. ASSUME NEW c \in Calls, Backpressure(c) \/ Receive(c) \/ Timeout(c) \/ Abandon(c)
      PROVE  FrameKept(x)'
  <2>1. Unresolved(x) /\ UNCHANGED << outbound, hand, reader, drains, ctl, stream, up, wire, overtaken >>
    BY <1>3 DEF Backpressure, Receive, Timeout, Abandon, Finish, Unresolved, ConnectionShape
  <2>2. QED
    BY <2>1, FrameKeptFacts DEF FrameKept, InGap, Uncopied
<1>4. CASE RequestShutdown \/ ForceReconnect
  BY <1>4, FrameKeptFacts DEF RequestShutdown, ForceReconnect, Unresolved, FrameKept, InGap, Uncopied
<1>5. ASSUME NEW c \in Calls, ReadResponse(c) PROVE FrameKept(x)'
  <2>1. Unresolved(x) /\ x # c
    BY <1>5, HubConnectionAssumption
    DEF ReadResponse, Unresolved, ConnectionShape, CallersHeld
  <2>2. QED
    BY <1>5, <2>1, FrameKeptFacts DEF ReadResponse, FrameKept, InGap, Uncopied, ConnectionShape
<1>6. CASE ReaderPhaseEnds \/ StopWriter \/ JoinWriter \/ LostClose \/ LostPause
  BY <1>6, DrainFacts DEF ReaderPhaseEnds, StopWriter, JoinWriter, LostClose, LostPause, FrameKept,
         InGap, Uncopied, ConnectionShape
<1>7. CASE DrainBegins
  <2>1. x \in keys' /\ UNCHANGED reader
    BY <1>7 DEF DrainBegins, Unresolved, CallersHeld
  <2>2. QED
    BY <1>7, <2>1, FrameKeptFacts DEF DrainBegins, Unresolved, FrameKept, InGap, Uncopied
<1>8. ASSUME NEW c \in Calls, DrainKey(c) PROVE FrameKept(x)'
  <2>1. Unresolved(x) /\ x # c
    <3>1. DrainError[reader] # None
      BY <1>8, DrainFacts, HubConnectionAssumption DEF DrainKey, ConnectionShape
    <3>2. QED
      BY <1>8, <3>1 DEF DrainKey, Unresolved, ConnectionShape, CallersHeld
  <2>2. QED
    BY <1>8, <2>1, FrameKeptFacts DEF DrainKey, FrameKept, InGap, Uncopied
<1>9. CASE LostDrain
  BY <1>9, FrameKeptFacts DEF LostDrain, DrainEnds, Unresolved, FrameKept, InGap, Uncopied
<1>10. CASE TerminalClose \/ ActorExits
  BY <1>10 DEF TerminalClose, ActorExits, FrameKept, InGap, Uncopied
<1>11. CASE Backoff \/ Reconnected
  BY <1>11, FrameKeptFacts DEF Backoff, Reconnected, Unresolved, FrameKept, InGap, Uncopied
<1>12. CASE ReconnectFails
  <2>1. CASE reader' = "backoff" /\ UNCHANGED callers
    BY <1>12, <2>1, FrameKeptFacts DEF ReconnectFails, Unresolved, FrameKept, InGap, Uncopied
  <2>2. CASE reader' \in {"exit", "refused"}
    BY <2>2 DEF FrameKept, InGap, Uncopied
  <2>3. QED
    BY <1>12, <2>1, <2>2 DEF ReconnectFails
<1>13. CASE Resume
  BY <1>13, FrameKeptFacts DEF Resume, Unresolved, FrameKept, InGap, Uncopied
<1>14. CASE WriterStopped
  BY <1>14 DEF WriterStopped, WriterIdle, FrameKept, InGap, Uncopied
<1>15. CASE WriterControlled
  <2>1. /\ Unresolved(x) /\ x \notin overtaken /\ ctl # << >> /\ hand' = None
        /\ UNCHANGED << outbound, reader, drains, stream, up >>
    BY <1>15 DEF WriterControlled, Apply, Unresolved
  <2>2. FrameKept(x)
    BY <2>1, FrameKeptFacts
  <2>3. hand # x => wire'[x] = wire[x]
    BY <1>15 DEF WriterControlled, Abandoned, ConnectionShape
  <2>4. QED
    BY <2>1, <2>2, <2>3, HubConnectionAssumption DEF FrameKept, InGap, Uncopied
<1>16. CASE WriterTakes
  <2>1. /\ Unresolved(x) /\ x \notin overtaken /\ live /\ outbound # << >> /\ hand' = Head(outbound)
        /\ outbound' = Tail(outbound) /\ UNCHANGED << reader, drains, ctl, stream, up, wire >>
        /\ ctl # << >> => x # Head(outbound)
    BY <1>16 DEF WriterTakes, Unresolved, WriterTold
  <2>2. FrameKept(x) /\ (Contains(outbound, x) => x = hand' \/ Contains(outbound', x))
    BY <2>1, FrameKeptFacts, TailFacts DEF ConnectionShape
  <2>3. hand # x
    BY <1>16, HubConnectionAssumption DEF WriterTakes, WriterIdle
  <2>4. InGap \/ reader = "drain" => ctl # << >>
    BY <2>1 DEF WriterTold
  <2>5. QED
    BY <2>1, <2>2, <2>3, <2>4 DEF FrameKept, InGap, Uncopied
<1>17. CASE WriterPolls \/ WriterBeats \/ WriterIdles
  <2>1. /\ Unresolved(x) /\ x \notin overtaken /\ hand # x
        /\ UNCHANGED << outbound, reader, drains, ctl, stream, up, wire >> /\ hand' # x
    BY <1>17, HubConnectionAssumption DEF WriterPolls, WriterBeats, WriterIdles, Unresolved, WriterIdle
  <2>2. QED
    BY <2>1, FrameKeptFacts DEF FrameKept, InGap, Uncopied
<1>18. CASE WriterSent
  <2>1. /\ Unresolved(x) /\ x \notin overtaken /\ ctl = << >> /\ live /\ hand' # x
        /\ UNCHANGED << outbound, reader, drains, ctl, stream, sink, up >>
    BY <1>18, HubConnectionAssumption DEF WriterSent, Unresolved, WriterTold
  <2>2. FrameKept(x)
    BY <2>1, FrameKeptFacts
  <2>3. hand # x => wire'[x] = wire[x]
    BY <1>18 DEF WriterSent, ConnectionShape
  <2>4. hand = x /\ reader = "reading" => wire'[x] = stream \/ stream \notin up
    BY <1>18, <2>1 DEF WriterSent, ConnectionShape, WriterTold
  <2>5. QED
    BY <2>1, <2>2, <2>3, <2>4 DEF FrameKept, InGap, Uncopied
<1>19. CASE WriteFails
  <2>1. /\ Unresolved(x) /\ x \notin overtaken /\ ctl = << >> /\ hand' # x /\ sink \notin up
        /\ UNCHANGED << outbound, reader, drains, ctl, stream, up, wire >>
    BY <1>19, HubConnectionAssumption DEF WriteFails, Unresolved
  <2>2. QED
    BY <2>1, FrameKeptFacts DEF FrameKept, InGap, Uncopied, WriterTold
<1>20. CASE WriterCloses
  BY <1>20, FrameKeptFacts DEF WriterCloses, Unresolved, FrameKept, InGap, Uncopied
<1>21. CASE HubNext
  BY <1>21, FrameKeptFacts DEF HubNext, HubAnswers, SocketDies, Unresolved, FrameKept, InGap, Uncopied
<1>22. CASE UNCHANGED vars
  BY <1>22, FrameKeptFacts DEF vars, Unresolved, FrameKept, InGap, Uncopied
<1>23. QED
  BY <1>1, <1>2, <1>3, <1>4, <1>5, <1>6, <1>7, <1>8, <1>9, <1>10, <1>11, <1>12, <1>13, <1>14,
     <1>15, <1>16, <1>17, <1>18, <1>19, <1>20, <1>21, <1>22
  DEF Next, CallerNext, ReaderNext, WriterNext

-----------------------------------------------------------------------------
(***************************************************************************)
(* The theorems                                                            *)
(***************************************************************************)
LEMMA ConnectionSound == Spec => []ConnectionInv
<1>1. Init => ConnectionInv
  BY ShapeInit, ToldInit, IdleInit, HeldInit, FramesInit DEF ConnectionInv
<1>2. ConnectionInv /\ [Next]_vars => ConnectionInv'
  BY ShapeStep, ToldStep, IdleStep, HeldStep, FramesStep DEF ConnectionInv
<1>3. QED
  BY <1>1, <1>2, PTL DEF Spec

\* Every waiter has a caller, and every caller that waits has its frame where somebody will
\* send, answer or drain it, whatever sockets die and whenever the writer is paused.
THEOREM CallsCorrect == Spec => []CallsKept
<1>1. ConnectionInv => WaitersMatch
  BY DEF ConnectionInv, ConnectionShape, CallersHeld, WaitersMatch, Unresolved
<1>2. ConnectionInv => NoOrphan
  BY DEF ConnectionInv, ConnectionShape, FramesKept, NoOrphan, InGap, Uncopied,
         PassedOver, WillBeDrained
<1>3. ConnectionInv => CallsKept
  BY <1>1, <1>2 DEF CallsKept
<1>4. QED
  BY <1>3, ConnectionSound, PTL

\* The writer uses the socket of the reader or has been told of it, and does not drain the
\* channel in the gap.
THEOREM WriterCorrect == Spec => []WriterFollows
<1>1. ConnectionInv => WriterFollows
  BY DEF ConnectionInv, WriterTold, WriterFollows
<1>2. QED
  BY <1>1, ConnectionSound, PTL
=============================================================================
