------------------------------ MODULE HubPool ------------------------------
(***************************************************************************)
(* The pool of hub connections (pool.rs): borrowers share the connection   *)
(* of a (url, principal), an idle reaper closes the one nobody holds, and  *)
(* a connection that the hub refuses evicts its own entry.  The slots of   *)
(* different keys are independent; this is one of them.                    *)
(*                                                                         *)
(* A connection lives as long as an Arc to it, in the slot or with a       *)
(* borrower; the last one to be dropped stops its actor.  The actor itself *)
(* holds no Arc and may end on its own, on a terminal close of the hub or  *)
(* on a refused handshake (HubConnection has what leads to those).         *)
(***************************************************************************)
EXTENDS Integers, FiniteSets

CONSTANTS
  Borrowers,          \* callers of get_or_connect
  Kind,               \* the ConnectionKind each of them asks for
  MaxConnections      \* bound: connections opened

ASSUME HubPoolAssumption ==
  /\ Kind \in [Borrowers -> {"harness", "tool_server"}]
  /\ MaxConnections \in Nat \ {0}

VARIABLES
  pooled,             \* the connection in the slot, or 0
  idle,               \* now - last_handout >= idle_ttl
  borrower,           \* where each borrower is in get_or_connect
  holds,              \* the Arc a borrower has, or 0
  actor,              \* the state of each connection's actor
  kind,               \* the ConnectionKind of each connection
  made                \* how many connections have been opened

poolVars == << pooled, idle, borrower, holds, actor, kind, made >>

Connections == 1..MaxConnections

\* The connections that are left without an Arc are dropped, which stops them.
Dropped(act, slot, held) ==
  [c \in Connections |->
     IF act[c] # "unopened" /\ c # slot /\ \A b \in Borrowers : held[b] # c
       THEN "stopped" ELSE act[c]]

\* Borrower b leaves get_or_connect with connection c, or with an error if c is
\* of another kind.
Returns(b, c) ==
  IF kind[c] = Kind[b]
    THEN borrower' = [borrower EXCEPT ![b] = "using"] /\ holds' = [holds EXCEPT ![b] = c]
    ELSE borrower' = [borrower EXCEPT ![b] = "idle"] /\ holds' = [holds EXCEPT ![b] = 0]

-----------------------------------------------------------------------------
\* The slot is taken: the entry is handed out and its clock starts again.
Hit(b) ==
  /\ borrower[b] = "idle"
  /\ pooled # 0
  /\ idle' = FALSE
  /\ Returns(b, pooled)
  /\ UNCHANGED << pooled, actor, kind, made >>

\* The slot is empty: a connection is opened without the lock of the map.
Miss(b) ==
  /\ borrower[b] = "idle"
  /\ pooled = 0
  /\ borrower' = [borrower EXCEPT ![b] = "connecting"]
  /\ UNCHANGED << pooled, idle, holds, actor, kind, made >>

Connect(b) ==
  /\ borrower[b] = "connecting"
  /\ made < MaxConnections
  /\ made' = made + 1
  /\ actor' = [actor EXCEPT ![made + 1] = "up"]
  /\ kind' = [kind EXCEPT ![made + 1] = Kind[b]]
  /\ holds' = [holds EXCEPT ![b] = made + 1]
  /\ borrower' = [borrower EXCEPT ![b] = "connected"]
  /\ UNCHANGED << pooled, idle >>

ConnectFails(b) ==
  /\ borrower[b] = "connecting"
  /\ borrower' = [borrower EXCEPT ![b] = "idle"]
  /\ UNCHANGED << pooled, idle, holds, actor, kind, made >>

\* The first to come back takes the slot; the others drop what they opened and
\* adopt the winner.
Insert(b) ==
  /\ borrower[b] = "connected"
  /\ idle' = FALSE
  /\ pooled' = IF pooled = 0 THEN holds[b] ELSE pooled
  /\ Returns(b, pooled')
  /\ actor' = Dropped(actor, pooled', holds')
  /\ UNCHANGED << kind, made >>

\* A borrower drops its Arc.
Release(b) ==
  /\ borrower[b] = "using"
  /\ borrower' = [borrower EXCEPT ![b] = "idle"]
  /\ holds' = [holds EXCEPT ![b] = 0]
  /\ actor' = Dropped(actor, pooled, holds')
  /\ UNCHANGED << pooled, idle, kind, made >>

TimePasses ==
  /\ pooled # 0 /\ ~idle
  /\ idle' = TRUE
  /\ UNCHANGED << pooled, borrower, holds, actor, kind, made >>

\* Mutant: the pool's own Arc counts as a use.
Unused_Never(c) == c # pooled /\ \A b \in Borrowers : holds[b] # c

\* Arc::strong_count(&pooled.conn) == 1
Unused(c) == \A b \in Borrowers : holds[b] # c

SweepIdle ==
  /\ pooled # 0
  /\ Unused(pooled)
  /\ idle
  /\ pooled' = 0
  /\ actor' = Dropped(actor, 0, holds)
  /\ UNCHANGED << idle, borrower, holds, kind, made >>

\* The hub refuses the reconnect of connection c, or ends it for good.
HandshakeRefused(c) ==
  /\ actor[c] = "up"
  /\ actor' = [actor EXCEPT ![c] = "refused"]
  /\ UNCHANGED << pooled, idle, borrower, holds, kind, made >>

HubEndsIt(c) ==
  /\ actor[c] = "up"
  /\ actor' = [actor EXCEPT ![c] = "ended"]
  /\ UNCHANGED << pooled, idle, borrower, holds, kind, made >>

\* Mutant: the slot is emptied whatever is in it.
ForgetIf_Any(c) ==
  /\ actor[c] = "refused"
  /\ pooled' = 0
  /\ actor' = Dropped([actor EXCEPT ![c] = "forgotten"], pooled', holds)
  /\ UNCHANGED << idle, borrower, holds, kind, made >>

\* The refused actor takes its own entry out of the slot.
ForgetIf(c) ==
  /\ actor[c] = "refused"
  /\ pooled' = IF pooled = c THEN 0 ELSE pooled
  /\ actor' = Dropped([actor EXCEPT ![c] = "forgotten"], pooled', holds)
  /\ UNCHANGED << idle, borrower, holds, kind, made >>

-----------------------------------------------------------------------------
PoolInit ==
  /\ pooled = 0 /\ idle = FALSE
  /\ borrower = [b \in Borrowers |-> "idle"]
  /\ holds = [b \in Borrowers |-> 0]
  /\ actor = [c \in Connections |-> "unopened"]
  /\ kind = [c \in Connections |-> "harness"]
  /\ made = 0

PoolNext ==
  \/ \E b \in Borrowers :
       Hit(b) \/ Miss(b) \/ Connect(b) \/ ConnectFails(b) \/ Insert(b) \/ Release(b)
  \/ TimePasses \/ SweepIdle
  \/ \E c \in Connections : HandshakeRefused(c) \/ HubEndsIt(c) \/ ForgetIf(c)

PoolSpec == PoolInit /\ [][PoolNext]_poolVars

\* The shared pool's reaper runs on an interval.
PoolFairness == WF_poolVars(TimePasses) /\ WF_poolVars(SweepIdle)

PoolLiveSpec == PoolSpec /\ PoolFairness

-----------------------------------------------------------------------------
PoolTypeOK ==
  /\ pooled \in 0..made
  /\ idle \in BOOLEAN
  /\ borrower \in [Borrowers -> {"idle", "connecting", "connected", "using"}]
  /\ holds \in [Borrowers -> 0..made]
  /\ actor \in [Connections -> {"unopened", "up", "refused", "forgotten", "ended", "stopped"}]
  /\ kind \in [Connections -> {"harness", "tool_server"}]
  /\ made \in 0..MaxConnections
  /\ \A b \in Borrowers : holds[b] # 0 <=> borrower[b] \in {"connected", "using"}
  /\ \A c \in Connections : actor[c] = "unopened" <=> c > made

\* The hub sees one connection of the process: borrowers that use connections
\* that are up use the same one, of the kind they asked for, and it is in the
\* slot for the next borrower.
OneConnection ==
  \A b, d \in Borrowers :
    borrower[b] = "using" /\ actor[holds[b]] = "up" =>
      /\ holds[b] = pooled
      /\ kind[pooled] = Kind[b]
      /\ borrower[d] = "using" /\ actor[holds[d]] = "up" => holds[d] = holds[b]

\* A refused connection does not stay in the slot ("so the next caller opens a
\* fresh socket", the comment on ConnectionConfig::on_fatal).
RefusedIsForgotten == pooled # 0 => actor[pooled] # "forgotten"

\* The slot holds a live connection ("Pool of live server connections").
SlotIsLive == pooled # 0 => actor[pooled] # "ended"

\* Once nobody holds or asks for a connection any more every one is closed: one that
\* lost the race is not left open, and the reaper gets the one in the slot.
UnusedIsClosed ==
  /\ <>[](\A b \in Borrowers : borrower[b] = "idle")
  /\ <>[][\A b \in Borrowers : ~Hit(b)]_poolVars
  => <>[](\A c \in Connections : actor[c] # "up")

-----------------------------------------------------------------------------
(* The strengthening behind OneConnection.                                  *)

\* A borrower has an Arc to a connection of the kind it asked for.
KindAskedFor ==
  \A b \in Borrowers : borrower[b] \in {"connected", "using"} => kind[holds[b]] = Kind[b]

\* A connection that is up is used only while it is in the slot.
UsedInSlot ==
  \A b \in Borrowers : borrower[b] = "using" /\ actor[holds[b]] = "up" => holds[b] = pooled

PoolInv == PoolTypeOK /\ KindAskedFor /\ UsedInSlot

=============================================================================
