---------------------------- MODULE MCHubClient ----------------------------
(***************************************************************************)
(* The four parts of the hub client side by side, for TLC: a connection,   *)
(* the pool of connections, the readiness marker and a session of the tool *)
(* server.  They share no state; a behaviour is one of one part, and the   *)
(* other parts rest.                                                       *)
(***************************************************************************)
EXTENDS HubConnection, HubPool, HubReady, HubSessions, TLC

CONSTANTS c1, b1, b2, b3, s1, s2, t1

VARIABLE part         \* which part the behaviour is one of

\* One call over a few sockets.
MCCalls == {c1}
MCTimed == {}

\* Borrowers of two kinds at one slot.
MCBorrowers == {b1, b2, b3}
MCKind == b1 :> "harness" @@ b2 :> "harness" @@ b3 :> "tool_server"

MCSessions == {s1, s2}

MCToolCalls == {t1}

\* A connection that was shut down before it was used.
NoConnection ==
  /\ call = [c \in Calls |-> "idle"] /\ waiters = {} /\ slot = [c \in Calls |-> None]
  /\ outbound = << >> /\ closed = TRUE /\ stop = TRUE /\ forced = FALSE
  /\ reader = "done" /\ draining = "no" /\ keys = {} /\ stream = 1 /\ fresh = 1 /\ ctl = << >> /\ wstop = TRUE
  /\ writer = "done" /\ live = FALSE /\ sink = 1 /\ hand = None /\ burst = FALSE
  /\ opened = 1 /\ up = {} /\ wire = [c \in Calls |-> 0] /\ answered = {}
  /\ gap = {} /\ overtaken = {}

ClientInit ==
  /\ part \in {"connection", "pool", "ready", "session"}
  /\ IF part = "connection" THEN Init ELSE NoConnection
  /\ PoolInit /\ ReadyInit /\ SessionInit

ClientNext ==
  \/ part = "connection" /\ Next /\ UNCHANGED << part, poolVars, readyVars, sessionVars >>
  \/ part = "pool" /\ PoolNext /\ UNCHANGED << part, vars, readyVars, sessionVars >>
  \/ part = "ready" /\ ReadyNext /\ UNCHANGED << part, vars, poolVars, sessionVars >>
  \/ part = "session" /\ SessionNext /\ UNCHANGED << part, vars, poolVars, readyVars >>

\* Of a part that rests nothing that is fair is enabled.
ClientSpec ==
  /\ ClientInit /\ [][ClientNext]_<< part, vars, poolVars, readyVars, sessionVars >>
  /\ Fairness /\ PoolFairness /\ ReadyFairness /\ SessionFairness
=============================================================================
