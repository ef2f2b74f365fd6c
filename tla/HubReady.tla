------------------------------ MODULE HubReady ------------------------------
(***************************************************************************)
(* The readiness marker of a workspace server: the callbacks of the        *)
(* connection's reader (connection.rs), the task of ToolServer::run that   *)
(* serves the sessions again after a reconnect (server.rs), and the marker *)
(* they set (DiagHandle, diag_server.rs, wired up in the workspace's       *)
(* hub.rs).                                                                *)
(*                                                                         *)
(* The reader's callbacks run in the reader, the settled callback in the   *)
(* replay task; the epoch of disconnects and a Notify are all they share.  *)
(* What is sent on the socket is left out: a serve succeeds only on a      *)
(* socket that is up, and may fail on any.  The marker starts as on_connect*)
(* leaves it; set_failed belongs to a first connect that failed.           *)
(***************************************************************************)
EXTENDS Naturals, FiniteSets

CONSTANTS
  Sessions,           \* active_sessions
  MaxEpoch            \* bound: disconnects and terminal closes

ASSUME HubReadyAssumption == IsFiniteSet(Sessions) /\ MaxEpoch \in Nat

VARIABLES
  link,               \* what the reader is doing
  epoch,              \* disconnect_epoch
  notified,           \* reconnect_notify holds a permit
  replay,             \* where the replay task is
  epoch_at_start,     \* the epoch it has read
  left,               \* the sessions it has still to serve
  all_served,         \* none of them failed so far
  served,             \* history: the sessions served on the socket of this moment
  state,              \* DiagHandle: connected or disconnected
  last_close_code,    \* DiagHandle: a terminal close is latched
  shutting_down       \* DiagHandle

replayer  == << replay, epoch_at_start, left, all_served >>
marker    == << state, last_close_code, shutting_down >>
readyVars == << link, epoch, notified, replayer, served, marker >>

-----------------------------------------------------------------------------
(***************************************************************************)
(* DiagHandle                                                              *)
(***************************************************************************)
SetConnected ==
  /\ state' = IF shutting_down \/ last_close_code THEN state ELSE "connected"
  /\ UNCHANGED << last_close_code, shutting_down >>

SetDisconnected == state' = "disconnected" /\ UNCHANGED << last_close_code, shutting_down >>

SetTerminalClose ==
  /\ state' = "disconnected" /\ last_close_code' = TRUE
  /\ UNCHANGED shutting_down

SetShuttingDown ==
  /\ ~shutting_down
  /\ state' = "disconnected" /\ shutting_down' = TRUE
  /\ UNCHANGED << link, epoch, notified, replayer, served, last_close_code >>

-----------------------------------------------------------------------------
(***************************************************************************)
(* The callbacks.  Each one of a loss bumps the epoch before it sets the   *)
(* marker.                                                                 *)
(***************************************************************************)
\* Mutant: a loss is not counted.
Bump_Forgotten == UNCHANGED epoch

Bump == epoch' = epoch + 1

\* on_disconnect
Disconnects ==
  /\ link = "up" /\ epoch < MaxEpoch
  /\ link' = "losing"
  /\ served' = {}
  /\ Bump
  /\ UNCHANGED << notified, replayer, marker >>

DisconnectCallback ==
  /\ link = "losing"
  /\ link' = "down"
  /\ SetDisconnected
  /\ UNCHANGED << epoch, notified, replayer, served >>

\* on_terminal_close, and then on_disconnect.
TerminalCloses ==
  /\ link = "up" /\ epoch + 1 < MaxEpoch
  /\ link' = "closing"
  /\ served' = {}
  /\ Bump
  /\ UNCHANGED << notified, replayer, marker >>

TerminalCallback ==
  /\ link = "closing"
  /\ link' = "closed"
  /\ SetTerminalClose
  /\ UNCHANGED << epoch, notified, replayer, served >>

TerminalDisconnects ==
  /\ link = "closed"
  /\ link' = "exiting"
  /\ Bump
  /\ UNCHANGED << notified, replayer, served, marker >>

TerminalDisconnectCallback ==
  /\ link = "exiting"
  /\ link' = "gone"
  /\ SetDisconnected
  /\ UNCHANGED << epoch, notified, replayer, served >>

\* Mutant: notify_waiters, which wakes only a task that waits.
Notify_Waiters == notified' = (replay = "waiting")

\* notify_one: the permit is kept for a task that does not wait yet.
Notify == notified' = TRUE

\* on_reconnect
Reconnects ==
  /\ link = "down"
  /\ link' = "up"
  /\ Notify
  /\ UNCHANGED << epoch, replayer, served, marker >>

-----------------------------------------------------------------------------
(***************************************************************************)
(* The replay task                                                         *)
(***************************************************************************)
Wakes ==
  /\ replay = "waiting" /\ notified
  /\ notified' = FALSE
  /\ replay' = "starting"
  /\ UNCHANGED << link, epoch, epoch_at_start, left, all_served, served, marker >>

Starts ==
  /\ replay = "starting"
  /\ epoch_at_start' = epoch
  /\ left' = Sessions
  /\ all_served' = TRUE
  /\ replay' = "serving"
  /\ UNCHANGED << link, epoch, notified, served, marker >>

\* The sessions are served one after the other; a failure does not end the replay.
ServesAgain(s) ==
  /\ replay = "serving" /\ s \in left /\ link = "up"
  /\ left' = left \ {s}
  /\ served' = served \cup {s}
  /\ UNCHANGED << link, epoch, notified, replay, epoch_at_start, all_served, marker >>

ServeFails(s) ==
  /\ replay = "serving" /\ s \in left
  /\ left' = left \ {s}
  /\ all_served' = FALSE
  /\ UNCHANGED << link, epoch, notified, replay, epoch_at_start, served, marker >>

Raced == epoch # epoch_at_start

Checks ==
  /\ replay = "serving" /\ left = {}
  /\ replay' = IF ~all_served \/ Raced THEN "waiting" ELSE "settling"
  /\ UNCHANGED << link, epoch, notified, epoch_at_start, left, all_served, served, marker >>

\* on_reconnect_settled
Settles ==
  /\ replay = "settling"
  /\ replay' = "waiting"
  /\ SetConnected
  /\ UNCHANGED << link, epoch, notified, epoch_at_start, left, all_served, served >>

-----------------------------------------------------------------------------
ReadyInit ==
  /\ link = "up" /\ epoch = 0 /\ notified = FALSE
  /\ replay = "waiting" /\ epoch_at_start = 0 /\ left = {} /\ all_served = TRUE
  /\ served = Sessions
  /\ state = "connected" /\ last_close_code = FALSE /\ shutting_down = FALSE

CallbackNext ==
  \/ Disconnects \/ DisconnectCallback \/ Reconnects
  \/ TerminalCloses \/ TerminalCallback \/ TerminalDisconnects \/ TerminalDisconnectCallback

ReplayNext ==
  \/ Wakes \/ Starts \/ Checks \/ Settles
  \/ \E s \in Sessions : ServesAgain(s) \/ ServeFails(s)

ReadyNext == CallbackNext \/ ReplayNext \/ SetShuttingDown

ReadySpec == ReadyInit /\ [][ReadyNext]_readyVars

(***************************************************************************)
(* Fairness: the replay task is polled and a serve has a deadline.  The    *)
(* reader goes on trying to reconnect, but the hub may never accept.       *)
(***************************************************************************)
ReadyFairness ==
  /\ WF_readyVars(DisconnectCallback)
  /\ WF_readyVars(Wakes \/ Starts \/ Checks \/ Settles)
  /\ \A s \in Sessions : WF_readyVars(ServesAgain(s) \/ ServeFails(s))

ReadyLiveSpec == ReadySpec /\ ReadyFairness

-----------------------------------------------------------------------------
(***************************************************************************)
(* Properties                                                              *)
(***************************************************************************)
ReadyTypeOK ==
  /\ link \in {"up", "losing", "down", "closing", "closed", "exiting", "gone"}
  /\ epoch \in 0..MaxEpoch /\ epoch_at_start \in 0..epoch
  /\ notified \in BOOLEAN /\ all_served \in BOOLEAN
  /\ replay \in {"waiting", "starting", "serving", "settling"}
  /\ left \subseteq Sessions /\ served \subseteq Sessions
  /\ state \in {"connected", "disconnected"}
  /\ last_close_code \in BOOLEAN /\ shutting_down \in BOOLEAN

\* A replay that is about to settle, with no disconnect since it began, has served
\* every session on the socket that is up now, not on one before it.
SettlesThisSocket ==
  replay = "settling" /\ epoch = epoch_at_start => served = Sessions

\* Neither a terminal close nor a shutdown is undone by a settle that comes late.
StaysOff == last_close_code \/ shutting_down => state = "disconnected"

\* The marker is set for the socket it was earned on, and not after the end.
MarkerSettles == SettlesThisSocket /\ StaysOff

\* While the socket is down the marker is off ("keeps a readiness marker from being
\* resurrected while the socket is already down again").
ReadyMeansUp == link \in {"down", "gone"} => state = "disconnected"

\* A socket that stays up makes the marker ready for good, unless the last replay was
\* refused a session or the process shuts down: no reconnect's wake-up is lost.
ReadyAgain ==
  <>[](link = "up") => <>[](state = "connected" \/ ~all_served \/ shutting_down)

-----------------------------------------------------------------------------
(* The strengthening behind MarkerSettles.                                  *)

\* What a replay has served it served on this socket, if none was lost since.
ServedHere ==
  /\ replay \in {"serving", "settling"} /\ epoch = epoch_at_start /\ all_served
       => Sessions \ left \subseteq served
  /\ replay = "settling" => all_served /\ left = {}

\* A terminal close has one disconnect left to count.
EpochRoom == link \in {"closing", "closed"} => epoch < MaxEpoch

ReadyInv == ReadyTypeOK /\ ServedHere /\ EpochRoom /\ StaysOff

=============================================================================
