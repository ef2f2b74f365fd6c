------------------------- MODULE BreakerRefinement -------------------------
(***************************************************************************)
(* The lock-free breaker implements the atomic one, when calls do not      *)
(* overlap.  A call takes many steps and takes effect at one of them:      *)
(* try_half_open_probe() where it reads the clock, record() where it loads *)
(* the state (or, closed, where it weighs the window), check_open() at its *)
(* CAS, and the time of a trip where trip() reads the clock.  What the     *)
(* call has yet to store is read off the program counter.                  *)
(***************************************************************************)
EXTENDS CircuitBreaker

CONSTANTS Unset, Out, Plain, Weighed

ASSUME MarksAssumption ==
  /\ Unset \notin Int /\ Out \notin Int /\ Plain \notin Int /\ Weighed \notin Int
  /\ Out # Plain /\ Out # Weighed /\ Plain # Weighed

\* The counter's word has room for every slot and for one caller beyond the last.
ASSUME WordAssumption == MaxProbes + 1 < UsizeModulus

SomeAt(labels) == \E c \in Callers : pc[c] \in labels

\* record() has decided, and trip() or close() has yet to store it.
Mode ==
  IF SomeAt({"close_state"}) THEN "Closed"
  ELSE IF SomeAt({"trip_state"}) THEN "Open" ELSE state

\* trip() has yet to read the clock, or to store what it read.
Since ==
  IF SomeAt({"trip_state", "trip_stamp"}) THEN Unset
  ELSE IF SomeAt({"trip_opened"})
    THEN stamp[CHOOSE c \in Callers : pc[c] = "trip_opened"] ELSE opened_at

FreeSlot == half_open_probes < MaxProbes
LeaseOver(c) == SaturatingSub(stamp[c], probe_claimed_at) >= OpenDuration

\* The callers whose check() is bound to admit them to probe, or has done so.
Granted(c) ==
  \/ pc[c] \in {"probe_claim", "lease_cas", "probing"}
  \/ pc[c] = "probe_add" /\ FreeSlot
  \/ pc[c] \in {"probe_add", "probe_sub", "lease"} /\ LeaseOver(c)

\* The counter has no meaning outside HalfOpen, where trip() and close() have
\* yet to zero it.
SlotsTaken ==
  IF Mode # "HalfOpen" THEN 0
  ELSE Held + One(FreeSlot /\ SomeAt({"probe_add"}))

Flight(c) ==
  CASE pc[c] = "admitted" -> Plain
    [] pc[c] = "push_closed" -> Weighed
    [] Granted(c) -> stamp[c]
    [] OTHER -> Out

Abstract ==
  INSTANCE BreakerSpec WITH
    Slots <- MaxProbes,
    mode <- Mode,
    since <- Since,
    slots <- SlotsTaken,
    inflight <- [c \in Callers |-> Flight(c)]

\* Non-overlapping calls of check() and record() behave like steps of the atomic
\* breaker: the cool-down counts from a clock reading made after the trip, every
\* half-open episode starts with all its slots, a probe beyond the last slot is
\* let in only when every claim still out has lapsed, an abandoned request frees
\* nothing, and an outcome acts on the mode in force when it is reported,
\* whatever mode admitted its request.
AtomicBreaker == Abstract!AbsSpec

-----------------------------------------------------------------------------
(* The part of the argument that SerialInv and ClaimInv leave out: what     *)
(* record() and the lease have read, and how far the counter can run.       *)

\* A disabled breaker never leaves Closed, and record() returns at once.
DisabledRests ==
  ~Enabled => state = "Closed" /\ \A c \in Callers : pc[c] \in {"idle", "admitted"}

RecordReads ==
  \A c \in Callers :
    /\ pc[c] = "push_closed" => state = "Closed"
    /\ pc[c] = "trip_state" => state # "Open"
    /\ pc[c] = "lease_cas" => seen[c] = probe_claimed_at

CounterBounded ==
  /\ \A c \in Callers : pc[c] = "probe_sub" => half_open_probes = MaxProbes + 1
  /\ ~SomeAt({"probe_sub"}) => half_open_probes <= MaxProbes

RefinementInv ==
  SerialInv /\ ClaimInv /\ DisabledRests /\ RecordReads /\ CounterBounded
=============================================================================
