---------------------------- MODULE HubConnection ----------------------------
(***************************************************************************)
(* One connection of xai-computer-hub-sdk (connection.rs, demux.rs): the   *)
(* callers of call_request, the reader task, which routes the responses    *)
(* and drives the reconnects, the writer task, which owns the sink, and    *)
(* the sockets to the hub.                                                 *)
(*                                                                         *)
(* The four meet in the map of waiters, in the bounded channel of outbound *)
(* frames and in the channel on which the reader pauses, closes and        *)
(* resumes the writer.  The tasks run on several threads: between two      *)
(* polls of a task, and between two arms of one biased select, the others  *)
(* may act.  A frame is the request id it carries.  Pings and pongs are    *)
(* one frame, Beat; of an answer only its existence is kept.               *)
(***************************************************************************)
EXTENDS Integers, Sequences, SequencesExt

CONSTANTS
  Calls,              \* request ids: allocated once, never used again
  Timed,              \* the calls made by call_request_with_deadline
  Beat,               \* a frame of the keepalive
  None,               \* no frame, no result
  OutboundBuffer,     \* OUTBOUND_BUFFER
  CtlCapacity,        \* WRITER_CTL_CAPACITY
  MaxSockets          \* bound: sockets opened

ASSUME HubConnectionAssumption ==
  /\ Timed \subseteq Calls
  /\ Beat \notin Calls /\ None \notin Calls /\ Beat # None
  /\ None \notin {"ok", "network", "closed", "auth"}
  /\ OutboundBuffer \in Nat \ {0}
  /\ CtlCapacity \in Nat \ {0}
  /\ MaxSockets \in Nat \ {0}

VARIABLES
  call,               \* what each caller is doing, or how its call ended
  waiters,            \* demux.waiters
  slot,               \* the result in a waiter's oneshot channel
  outbound,           \* the channel of outbound frames
  closed,             \* outbound_rx is dropped
  stop,               \* a message in stop_rx
  forced,             \* a message in reconnect_rx
  reader,             \* where run_reader_actor is
  draining,           \* how far drain_waiters_with is: "no", "copying" or "removing"
  keys,               \* the request ids it has copied and not removed yet
  stream,             \* the socket the reader reads
  fresh,              \* the socket a reconnect has just opened
  ctl,                \* the channel to the writer
  wstop,              \* a message in writer_stop_rx
  writer,             \* where run_writer is
  live,               \* the writer drains the outbound channel
  sink,               \* the socket the writer writes to
  hand,               \* the frame in sink.send
  burst,              \* pending_app_ping: a frame goes out before the app ping
  opened,             \* how many sockets have been opened
  up,                 \* the sockets the hub still serves
  wire,               \* the socket on which the hub received a request
  answered,           \* the requests the hub has answered
  gap,                \* history: the frames enqueued in the present reconnect gap
  overtaken           \* history: the frames dequeued behind a control message

ghosts  == << gap, overtaken >>
callers == << call, waiters, slot >>
drains  == << draining, keys >>
readers == << reader, drains, stream, fresh, stop, forced >>
writers == << writer, live, sink, hand, burst >>
hub     == << opened, up, wire, answered >>
vars    == << callers, outbound, closed, readers, ctl, wstop, writers, hub, ghosts >>

Sockets == 1..MaxSockets

Ended == {"ok", "network", "closed", "auth", "backpressure", "timeout", "dropped"}

\* The messages of WriterControl.
PauseWriter == [op |-> "pause", sink |-> 0]

CloseWriter == [op |-> "close", sink |-> 0]

ResumeWriter(s) == [op |-> "resume", sink |-> s]

Control == {PauseWriter, CloseWriter} \cup {ResumeWriter(s) : s \in Sockets}

-----------------------------------------------------------------------------
(***************************************************************************)
(* Waiters (demux.rs).                                                     *)
(***************************************************************************)
\* The caller's call is over with result r; WaiterGuard reclaims the waiter.
Finish(c, r) ==
  /\ call' = [call EXCEPT ![c] = r]
  /\ waiters' = waiters \ {c}
  /\ UNCHANGED slot

\* What the waiters are told, by what the reader drains them for.
DrainError ==
  [drain |-> "network", terminal |-> "closed", refused |-> "auth", exit |-> "network"]

\* Mutant: only the deadline-bound calls are failed when the socket drops.
DrainBegins_TimedOnly ==
  /\ reader \in DOMAIN DrainError
  /\ draining = "no"
  /\ draining' = "copying"
  /\ keys' = waiters \cap Timed
  /\ UNCHANGED << callers, outbound, closed, reader, stream, fresh, stop, forced, ctl, wstop,
                  writers, hub, ghosts >>

\* drain_waiters_with: the keys are copied shard by shard.  A waiter that is
\* registered meanwhile may or may not be among them (Register).
DrainBegins ==
  /\ reader \in DOMAIN DrainError
  /\ draining = "no"
  /\ draining' = "copying"
  /\ keys' = waiters
  /\ UNCHANGED << callers, outbound, closed, reader, stream, fresh, stop, forced, ctl, wstop,
                  writers, hub, ghosts >>

\* The waiter of one key, if it is still there, is completed with the error.
DrainKey(c) ==
  /\ draining # "no"
  /\ c \in keys
  /\ draining' = "removing"
  /\ keys' = keys \ {c}
  /\ slot' = IF c \in waiters THEN [slot EXCEPT ![c] = DrainError[reader]] ELSE slot
  /\ waiters' = waiters \ {c}
  /\ UNCHANGED << call, outbound, closed, reader, stream, fresh, stop, forced, ctl, wstop,
                  writers, hub, ghosts >>

DrainEnds ==
  /\ draining # "no"
  /\ keys = {}
  /\ draining' = "no"
  /\ UNCHANGED << callers, keys >>

-----------------------------------------------------------------------------
(***************************************************************************)
(* Callers.                                                                *)
(***************************************************************************)
\* The writer was told to pause and the waiters were drained.
InGap == reader \in {"backoff", "connecting", "resume"}

Register(c) ==
  /\ call[c] = "idle"
  /\ call' = [call EXCEPT ![c] = "registered"]
  /\ waiters' = waiters \cup {c}
  /\ \/ UNCHANGED keys
     \/ draining = "copying" /\ keys' = keys \cup {c}
  /\ UNCHANGED << slot, outbound, closed, reader, draining, stream, fresh, stop, forced, ctl,
                  wstop, writers, hub, ghosts >>

Enqueued(c) ==
  /\ ~closed
  /\ Len(outbound) < OutboundBuffer
  /\ outbound' = Append(outbound, c)
  /\ call' = [call EXCEPT ![c] = "waiting"]
  /\ gap' = IF InGap THEN gap \cup {c} ELSE gap
  /\ UNCHANGED << waiters, slot >>

\* The channel is closed: send_outbound fails at once.
Refused(c) ==
  /\ closed
  /\ Finish(c, "network")
  /\ UNCHANGED << outbound, gap >>

\* The channel is full: send_outbound waits for room for 250 ms.
Blocked(c) ==
  /\ ~closed
  /\ Len(outbound) = OutboundBuffer
  /\ call' = [call EXCEPT ![c] = "blocked"]
  /\ UNCHANGED << waiters, slot, outbound, gap >>

SendOutbound(c) ==
  /\ \/ call[c] = "registered" /\ (Enqueued(c) \/ Refused(c) \/ Blocked(c))
     \/ call[c] = "blocked" /\ (Enqueued(c) \/ Refused(c))
  /\ UNCHANGED << closed, readers, ctl, wstop, writers, hub, overtaken >>

Backpressure(c) ==
  /\ call[c] = "blocked"
  /\ Finish(c, "backpressure")
  /\ UNCHANGED << outbound, closed, readers, ctl, wstop, writers, hub, ghosts >>

Receive(c) ==
  /\ call[c] = "waiting"
  /\ slot[c] # None
  /\ Finish(c, slot[c])
  /\ UNCHANGED << outbound, closed, readers, ctl, wstop, writers, hub, ghosts >>

Timeout(c) ==
  /\ c \in Timed
  /\ call[c] = "waiting"
  /\ slot[c] = None
  /\ Finish(c, "timeout")
  /\ UNCHANGED << outbound, closed, readers, ctl, wstop, writers, hub, ghosts >>

\* The caller drops the future of its call.
Abandon(c) ==
  /\ call[c] \in {"registered", "blocked", "waiting"}
  /\ Finish(c, "dropped")
  /\ UNCHANGED << outbound, closed, readers, ctl, wstop, writers, hub, ghosts >>

RequestShutdown ==
  /\ ~stop /\ reader # "done"
  /\ stop' = TRUE
  /\ UNCHANGED << callers, outbound, closed, reader, drains, stream, fresh, forced, ctl, wstop,
                  writers, hub, ghosts >>

ForceReconnect ==
  /\ ~forced /\ opened < MaxSockets /\ reader # "done"
  /\ forced' = TRUE
  /\ UNCHANGED << callers, outbound, closed, reader, drains, stream, fresh, stop, ctl, wstop,
                  writers, hub, ghosts >>

-----------------------------------------------------------------------------
(***************************************************************************)
(* The reader task: run_reader_phase, then run_reader_actor.               *)
(***************************************************************************)
\* Mutant: the waiter stays in the map and its oneshot is dropped.
ReadResponse_NotTaken(c) ==
  /\ reader = "reading" /\ ~stop /\ ~forced
  /\ c \in answered /\ wire[c] = stream
  /\ wire' = [wire EXCEPT ![c] = 0]
  /\ UNCHANGED << callers, outbound, closed, readers, ctl, wstop, writers, opened, up,
                  answered, ghosts >>

\* A response of the hub reaches its waiter, if there still is one.
ReadResponse(c) ==
  /\ reader = "reading" /\ ~stop /\ ~forced
  /\ c \in answered /\ wire[c] = stream
  /\ wire' = [wire EXCEPT ![c] = 0]
  /\ waiters' = waiters \ {c}
  /\ slot' = IF c \in waiters THEN [slot EXCEPT ![c] = "ok"] ELSE slot
  /\ UNCHANGED << call, outbound, closed, readers, ctl, wstop, writers, opened, up,
                  answered, ghosts >>

\* The phase ends: a stop, a forced reconnect, the end of the stream, the
\* liveness deadline, or a close frame with a code in 4100..4199.
ReaderPhaseEnds ==
  /\ reader = "reading"
  /\ \/ stop /\ reader' = "exit" /\ UNCHANGED << forced, up >>
     \/ ~stop /\ forced /\ reader' = "pause" /\ forced' = FALSE /\ UNCHANGED up
     \/ ~stop /\ ~forced /\ stream \notin up /\ reader' = "pause" /\ UNCHANGED << forced, up >>
     \/ ~stop /\ ~forced /\ opened < MaxSockets /\ reader' = "close" /\ UNCHANGED << forced, up >>
     \/ ~stop /\ ~forced /\ stream \in up /\ reader' = "terminal"
          /\ up' = up \ {stream} /\ UNCHANGED forced
  /\ UNCHANGED << callers, outbound, closed, drains, stream, fresh, stop, ctl, wstop, writers,
                  opened, wire, answered, ghosts >>

\* The send on the bounded channel waits for room.
SendCtl(m) == Len(ctl) < CtlCapacity /\ ctl' = Append(ctl, m)

\* After the liveness deadline the writer is to close the socket first.
LostClose ==
  /\ reader = "close"
  /\ SendCtl(CloseWriter)
  /\ reader' = "pause"
  /\ UNCHANGED << callers, outbound, closed, drains, stream, fresh, stop, forced, wstop, writers,
                  hub, ghosts >>

LostPause ==
  /\ reader = "pause"
  /\ SendCtl(PauseWriter)
  /\ reader' = "drain"
  /\ UNCHANGED << callers, outbound, closed, drains, stream, fresh, stop, forced, wstop, writers,
                  hub, ghosts >>

LostDrain ==
  /\ reader = "drain"
  /\ DrainEnds
  /\ reader' = "backoff"
  /\ UNCHANGED << outbound, closed, stream, fresh, stop, forced, ctl, wstop, writers,
                  hub, ghosts >>

\* The select between the stop and the backoff is not biased.
Backoff ==
  /\ reader = "backoff"
  /\ \/ stop /\ reader' = "exit" /\ gap' = {}
     \/ reader' = "connecting" /\ UNCHANGED gap
  /\ UNCHANGED << callers, outbound, closed, drains, stream, fresh, stop, forced, ctl, wstop,
                  writers, hub, overtaken >>

Reconnected ==
  /\ reader = "connecting"
  /\ opened < MaxSockets
  /\ opened' = opened + 1
  /\ up' = up \cup {opened + 1}
  /\ fresh' = opened + 1
  /\ forced' = FALSE
  /\ reader' = "resume"
  /\ UNCHANGED << callers, outbound, closed, drains, stream, stop, ctl, wstop, writers, wire,
                  answered, ghosts >>

\* A failed or timed-out attempt is retried; a stop or a refused handshake ends
\* the connection.
ReconnectFails ==
  /\ reader = "connecting"
  /\ \/ reader' = "backoff" /\ UNCHANGED gap
     \/ stop /\ reader' = "exit" /\ gap' = {}
     \/ reader' = "refused" /\ gap' = {}
  /\ UNCHANGED << callers, outbound, closed, drains, stream, fresh, stop, forced, ctl, wstop,
                  writers, hub, overtaken >>

Resume ==
  /\ reader = "resume"
  /\ SendCtl(ResumeWriter(fresh))
  /\ stream' = fresh
  /\ reader' = "reading"
  /\ gap' = {}
  /\ UNCHANGED << callers, outbound, closed, drains, fresh, stop, forced, wstop, writers, hub,
                  overtaken >>

\* After a terminal close code, or a refused handshake.
TerminalClose ==
  /\ reader \in {"terminal", "refused"}
  /\ DrainEnds
  /\ reader' = "exit"
  /\ UNCHANGED << outbound, closed, stream, fresh, stop, forced, ctl, wstop, writers,
                  hub, ghosts >>

ActorExits ==
  /\ reader = "exit"
  /\ DrainEnds
  /\ reader' = "stopping"
  /\ UNCHANGED << outbound, closed, stream, fresh, stop, forced, ctl, wstop, writers,
                  hub, ghosts >>

StopWriter ==
  /\ reader = "stopping"
  /\ wstop' = TRUE
  /\ reader' = "joining"
  /\ UNCHANGED << callers, outbound, closed, drains, stream, fresh, stop, forced, ctl, writers,
                  hub, ghosts >>

\* shutdown.cancel(): await_shutdown resolves.
JoinWriter ==
  /\ reader = "joining"
  /\ writer = "done"
  /\ reader' = "done"
  /\ up' = up \ {stream}
  /\ UNCHANGED << callers, outbound, closed, drains, stream, fresh, stop, forced, ctl, wstop,
                  writers, opened, wire, answered, ghosts >>

-----------------------------------------------------------------------------
(***************************************************************************)
(* The writer task.                                                        *)
(***************************************************************************)
WriterEnds ==
  /\ writer' = "done"
  /\ hand' = None
  /\ closed' = TRUE
  /\ outbound' = << >>
  /\ UNCHANGED << live, sink, burst >>

\* Mutant: Resume keeps the old sink.
Apply_OldSink(m) ==
  /\ hand' = None
  /\ burst' = FALSE
  /\ live' = (m.op = "resume")
  /\ sink' = sink
  /\ writer' = IF m.op = "close" THEN "closing" ELSE "select"

\* What a control message does: Pause and Close stop the draining, Close also
\* sends a close frame, Resume installs the fresh sink.
Apply(m) ==
  /\ hand' = None
  /\ burst' = FALSE
  /\ live' = (m.op = "resume")
  /\ sink' = IF m.op = "resume" THEN m.sink ELSE sink
  /\ writer' = IF m.op = "close" THEN "closing" ELSE "select"

\* The hub may or may not have received the frame in the hand when the send
\* is abandoned or fails.
Abandoned ==
  \/ UNCHANGED wire
  \/ hand \in Calls /\ sink \in up /\ wire' = [wire EXCEPT ![hand] = sink]

\* The two arms before all others, in the select and in send_or_preempt.
WriterStopped ==
  /\ writer \in {"select", "sending", "closing"}
  /\ wstop
  /\ WriterEnds
  /\ Abandoned
  /\ UNCHANGED << callers, readers, ctl, wstop, opened, up, answered, ghosts >>

WriterControlled ==
  /\ writer \in {"select", "sending"}
  /\ ~wstop
  /\ ctl # << >>
  /\ Apply(Head(ctl))
  /\ ctl' = Tail(ctl)
  /\ Abandoned
  /\ UNCHANGED << callers, outbound, closed, readers, wstop, opened, up, answered, ghosts >>

\* Both arms are pending; the others are polled next.
WriterPolls ==
  /\ writer = "select"
  /\ ~wstop /\ ctl = << >>
  /\ live
  /\ writer' = "polled"
  /\ UNCHANGED << callers, outbound, closed, readers, ctl, wstop, live, sink, hand, burst,
                  hub, ghosts >>

\* A ping is due or a pong is queued.
WriterBeats ==
  /\ writer = "polled"
  /\ \E b \in BOOLEAN : burst' = b
  /\ hand' = Beat
  /\ writer' = "sending"
  /\ UNCHANGED << callers, outbound, closed, readers, ctl, wstop, live, sink, hub, ghosts >>

WriterTakes ==
  /\ writer \in {"polled", "burst"}
  /\ outbound # << >>
  /\ hand' = Head(outbound)
  /\ outbound' = Tail(outbound)
  /\ writer' = "sending"
  /\ overtaken' = IF ctl = << >> THEN overtaken ELSE overtaken \cup {Head(outbound)}
  /\ UNCHANGED << callers, closed, readers, ctl, wstop, live, sink, burst, hub, gap >>

\* Nothing to send: the select parks.  A burst goes on to the app ping, after a
\* pong if one is queued.
WriterIdles ==
  /\ \/ writer = "polled" /\ outbound = << >> /\ writer' = "select" /\ UNCHANGED << hand, burst >>
     \/ writer = "burst" /\ writer' = "sending" /\ hand' = Beat /\ burst' = FALSE
  /\ UNCHANGED << callers, outbound, closed, readers, ctl, wstop, live, sink, hub, ghosts >>

\* sink.send succeeds.  After a ping one queued frame is sent without a poll
\* of the other channels, then the app ping.
WriterSent ==
  /\ writer = "sending" /\ ~wstop /\ ctl = << >>
  /\ wire' = IF hand \in Calls /\ sink \in up THEN [wire EXCEPT ![hand] = sink] ELSE wire
  /\ IF burst /\ hand \in Calls
       THEN hand' = Beat /\ burst' = FALSE /\ UNCHANGED writer
       ELSE hand' = None /\ UNCHANGED burst /\ writer' = IF burst THEN "burst" ELSE "select"
  /\ UNCHANGED << callers, outbound, closed, readers, ctl, wstop, live, sink, opened, up,
                  answered, ghosts >>

WriteFails ==
  /\ writer = "sending" /\ ~wstop /\ ctl = << >>
  /\ sink \notin up
  /\ live' = FALSE
  /\ hand' = None
  /\ burst' = FALSE
  /\ writer' = "select"
  /\ UNCHANGED << callers, outbound, closed, readers, ctl, wstop, sink, hub, ghosts >>

\* The close frame is sent, refused or given up after two seconds.
WriterCloses ==
  /\ writer = "closing" /\ ~wstop
  /\ writer' = "select"
  /\ up' \in {up, up \ {sink}}
  /\ UNCHANGED << callers, outbound, closed, readers, ctl, wstop, live, sink, hand, burst,
                  opened, wire, answered, ghosts >>

-----------------------------------------------------------------------------
(***************************************************************************)
(* The hub and the network.                                                *)
(***************************************************************************)
HubAnswers(c) ==
  /\ wire[c] \in up
  /\ c \notin answered
  /\ answered' = answered \cup {c}
  /\ UNCHANGED << callers, outbound, closed, readers, ctl, wstop, writers, opened, up,
                  wire, ghosts >>

\* A socket breaks: what was under way on it may or may not arrive.
SocketDies(s) ==
  /\ s \in up /\ opened < MaxSockets
  /\ up' = up \ {s}
  /\ UNCHANGED << callers, outbound, closed, readers, ctl, wstop, writers, opened, wire,
                  answered, ghosts >>

-----------------------------------------------------------------------------
Init ==
  /\ call = [c \in Calls |-> "idle"]
  /\ waiters = {}
  /\ slot = [c \in Calls |-> None]
  /\ outbound = << >> /\ closed = FALSE
  /\ stop = FALSE /\ forced = FALSE
  /\ reader = "reading" /\ stream = 1 /\ fresh = 1
  /\ draining = "no" /\ keys = {}
  /\ ctl = << >> /\ wstop = FALSE
  /\ writer = "select" /\ live = TRUE /\ sink = 1 /\ hand = None /\ burst = FALSE
  /\ opened = 1 /\ up = {1}
  /\ wire = [c \in Calls |-> 0] /\ answered = {}
  /\ gap = {} /\ overtaken = {}

ReaderNext ==
  \/ \E c \in Calls : ReadResponse(c)
  \/ ReaderPhaseEnds
  \/ DrainBegins \/ (\E c \in Calls : DrainKey(c))
  \/ LostClose \/ LostPause \/ LostDrain
  \/ Backoff \/ Reconnected \/ ReconnectFails \/ Resume
  \/ TerminalClose \/ ActorExits \/ StopWriter \/ JoinWriter

WriterNext ==
  \/ WriterStopped \/ WriterControlled \/ WriterPolls \/ WriterBeats \/ WriterTakes
  \/ WriterIdles \/ WriterSent \/ WriteFails \/ WriterCloses

CallerNext ==
  \E c \in Calls :
    Register(c) \/ SendOutbound(c) \/ Backpressure(c) \/ Receive(c) \/ Timeout(c) \/ Abandon(c)

HubNext == (\E c \in Calls : HubAnswers(c)) \/ (\E s \in Sockets : SocketDies(s))

Next == CallerNext \/ RequestShutdown \/ ForceReconnect \/ ReaderNext \/ WriterNext \/ HubNext

Spec == Init /\ [][Next]_vars

-----------------------------------------------------------------------------
(***************************************************************************)
(* Fairness.  The runtime polls every task that can run; the hub answers   *)
(* what it received on a socket it serves; a broken socket is noticed, by  *)
(* the end of the stream or by the liveness deadline; an attempt to        *)
(* reconnect succeeds in the end.  The pings come at intervals, so they    *)
(* cannot keep the writer from the outbound channel for ever.              *)
(***************************************************************************)
ReaderSteps ==
  \/ \E c \in Calls : ReadResponse(c) \/ DrainKey(c)
  \/ DrainBegins
  \/ ReaderPhaseEnds /\ (stop \/ forced \/ stream \notin up)
  \/ LostClose \/ LostPause \/ LostDrain \/ Backoff \/ Reconnected \/ Resume
  \/ TerminalClose \/ ActorExits \/ StopWriter \/ JoinWriter

Fairness ==
  /\ WF_vars(ReaderSteps) /\ SF_vars(Reconnected)
  /\ WF_vars(WriterNext) /\ SF_vars(WriterTakes)
  /\ \A c \in Calls : WF_vars(SendOutbound(c)) /\ WF_vars(Receive(c)) /\ WF_vars(HubAnswers(c))

LiveSpec == Spec /\ Fairness

-----------------------------------------------------------------------------
(***************************************************************************)
(* Properties.                                                             *)
(***************************************************************************)
TypeOK ==
  /\ call \in [Calls -> {"idle", "registered", "blocked", "waiting"} \cup Ended]
  /\ waiters \subseteq Calls
  /\ slot \in [Calls -> {None, "ok", "network", "closed", "auth"}]
  /\ outbound \in Seq(Calls) /\ Len(outbound) <= OutboundBuffer
  /\ closed \in BOOLEAN /\ stop \in BOOLEAN /\ forced \in BOOLEAN
  /\ reader \in {"reading", "close", "pause", "drain", "backoff", "connecting", "resume",
                 "terminal", "refused", "exit", "stopping", "joining", "done"}
  /\ draining \in {"no", "copying", "removing"} /\ keys \subseteq Calls
  /\ ctl \in Seq(Control) /\ Len(ctl) <= CtlCapacity
  /\ wstop \in BOOLEAN
  /\ writer \in {"select", "polled", "burst", "sending", "closing", "done"}
  /\ live \in BOOLEAN /\ burst \in BOOLEAN
  /\ hand \in Calls \cup {Beat, None}
  /\ opened \in Sockets /\ up \subseteq 1..opened
  /\ {stream, fresh, sink} \subseteq 1..opened
  /\ wire \in [Calls -> 0..opened]
  /\ answered \subseteq Calls /\ gap \subseteq Calls

Unresolved(c) == call[c] = "waiting" /\ slot[c] = None

\* The actor drains the waiters for the last time, or has done so, and without the
\* waiter of the call.
PassedOver(c) ==
  \/ reader = "exit" /\ draining # "no" /\ c \notin keys
  \/ reader \in {"stopping", "joining", "done"}

\* A drain is still to come that finds the waiter of the call.
WillBeDrained(c) ==
  \/ reader \in {"close", "pause", "terminal", "refused"}
  \/ reader \in {"drain", "exit"} /\ (draining = "no" \/ c \in keys)

\* A caller that waits has a waiter in the map, and a waiter in the map has a
\* caller: a call that never reached the wire leaves nothing behind, and nobody
\* waits for a oneshot that was dropped.
WaitersMatch ==
  /\ \A c \in Calls : Unresolved(c) => c \in waiters
  /\ waiters \subseteq {c \in Calls : call[c] \in {"registered", "blocked", "waiting"}}

\* A caller that waits is not forgotten: its frame is queued or being sent, the
\* hub has it on the socket the reader reads, or the frame was lost with a socket
\* and the reader has still to notice that and to drain the waiters.  A call that
\* registers while they are drained, too late to be copied, has its frame queued for
\* the next socket.  Left out are the two windows that GapFramesKept and ShutdownResolves are about.
NoOrphan ==
  \A c \in Calls \ overtaken :
    Unresolved(c) /\ ~PassedOver(c) =>
      \/ Contains(outbound, c)
      \/ hand = c
      \/ reader = "reading" /\ (wire[c] = stream \/ stream \notin up)
      \/ WillBeDrained(c)

\* Every waiter has a caller, and every caller somebody who will resolve its call.
CallsKept == WaitersMatch /\ NoOrphan

\* The writer follows the reader from socket to socket.  While the reader reads,
\* the writer has been told of its socket, and drains onto it unless a write on
\* it has failed; once a Pause is consumed the writer does not drain.
WriterFollows ==
  /\ reader = "reading" =>
       IF ctl = << >> THEN sink = stream /\ (live \/ stream \notin up) ELSE Last(ctl) = ResumeWriter(stream)
  /\ InGap /\ ctl = << >> => ~live
  /\ writer \in {"polled", "burst", "sending"} => live

\* Frames enqueued during the reconnect gap stay buffered and flush after the
\* Resume (the comment on run_writer).
GapFramesKept == \A c \in gap : Unresolved(c) => Contains(outbound, c)

\* Once await_shutdown resolves nobody waits for the connection any more (the
\* comment on request_shutdown: the waiters are drained, later sends fail).
ShutdownResolves == reader = "done" => \A c \in Calls : ~Unresolved(c)

\* A call that waits is resolved in the end, whatever happens to the sockets,
\* outside the two windows.
CallsResolve ==
  \A c \in Calls : Unresolved(c) ~> (~Unresolved(c) \/ c \in overtaken \/ PassedOver(c))

\* A requested shutdown completes: the reader never waits for ever for room in
\* the control channel or for the writer to end.
ShutdownCompletes == stop ~> (reader = "done")

\* Calls and shutdowns come to an end.
ConnectionSettles == CallsResolve /\ ShutdownCompletes

-----------------------------------------------------------------------------
(***************************************************************************)
(* The strengthening behind CallsKept and WriterFollows.                   *)
(***************************************************************************)
ConnectionShape ==
  /\ call \in [Calls -> {"idle", "registered", "blocked", "waiting"} \cup Ended]
  /\ waiters \subseteq Calls
  /\ slot \in [Calls -> {None, "ok", "network", "closed", "auth"}]
  /\ outbound \in Seq(Calls) /\ ctl \in Seq(Control)
  /\ opened \in Sockets /\ fresh \in Sockets /\ DOMAIN wire = Calls
  /\ reader \in {"reading", "close", "pause", "drain", "backoff", "connecting", "resume",
                 "terminal", "refused", "exit", "stopping", "joining", "done"}
  /\ draining \in {"no", "copying", "removing"} /\ keys \subseteq Calls
  /\ draining # "no" => reader \in DOMAIN DrainError

\* The last message under way decides what the writer will do.
WriterTold ==
  /\ reader = "reading" =>
       IF ctl = << >> THEN sink = stream /\ (live \/ stream \notin up)
       ELSE Last(ctl) = ResumeWriter(stream)
  /\ InGap \/ reader = "drain" => IF ctl = << >> THEN ~live ELSE Last(ctl) = PauseWriter
  /\ writer \in {"polled", "burst", "sending"} => live

\* A frame is in the hand only while it is sent, and the writer is stopped last.
WriterIdle ==
  /\ writer # "sending" => hand = None
  /\ wstop => reader \in {"joining", "done"}

\* Who has not got a result has a waiter, and only a call that waits has sent its frame.
CallersHeld ==
  /\ \A c \in Calls :
       call[c] \in {"registered", "blocked", "waiting"} /\ slot[c] = None => c \in waiters
  /\ \A c \in waiters : call[c] \in {"registered", "blocked", "waiting"}
  /\ \A c \in Calls : hand = c \/ Contains(outbound, c)
                         => call[c] \notin {"idle", "registered", "blocked"}

\* The drain after the loss of a socket is under way and will not find the call.
Uncopied(c) == reader = "drain" /\ draining # "no" /\ c \notin keys

\* Where the frame of a call that waits can be: in the gap, or behind the
\* drain before it, still in the channel; while the reader reads, not in a hand that a
\* message is about to empty.
FramesKept ==
  \A c \in Calls \ overtaken :
    Unresolved(c) =>
      /\ InGap \/ Uncopied(c) => Contains(outbound, c) /\ hand # c
      /\ reader = "reading" /\ ctl # << >> => hand # c
      /\ reader = "reading" =>
           Contains(outbound, c) \/ hand = c \/ wire[c] = stream \/ stream \notin up

ConnectionInv ==
  ConnectionShape /\ WriterTold /\ WriterIdle /\ CallersHeld /\ FramesKept
=============================================================================
