---------------------------- MODULE BreakerSpec ----------------------------
(***************************************************************************)
(* What the circuit breaker promises its callers, as one atomic object:    *)
(* three modes, the moment of the last trip, the number of half-open slots *)
(* that are taken, and what each caller has in flight.  CircuitBreaker     *)
(* implements it as long as calls do not overlap (see BreakerRefinement).  *)
(***************************************************************************)
EXTENDS Integers

CONSTANTS
  Callers,
  OpenDuration,       \* how long a trip keeps everybody out, and a claim holds
  Slots,              \* how many probes a half-open episode has
  Unset               \* a trip that is not stamped yet

\* What a caller may have in flight besides a dated probe: nothing, a request
\* that a closed breaker let pass, an outcome that is being weighed.
CONSTANTS Out, Plain, Weighed

VARIABLES
  mode,
  since,              \* when the breaker was tripped, or Unset
  slots,              \* half-open slots taken
  inflight,           \* of each caller: one of the above, or the date of its probe
  now

absvars == << mode, since, slots, inflight, now >>

AbsInit ==
  /\ mode = "Closed"
  /\ since = 0
  /\ slots = 0
  /\ inflight = [c \in Callers |-> Out]
  /\ now = 0

Becomes(c, what) == inflight' = [inflight EXCEPT ![c] = what]
Abroad(c) == inflight[c] \notin {Out, Weighed}
Probe(c) == inflight[c] \notin {Out, Plain, Weighed}

-----------------------------------------------------------------------------
(* Admission                                                                *)

Pass(c) ==
  /\ mode = "Closed"
  /\ inflight[c] = Out
  /\ Becomes(c, Plain)
  /\ UNCHANGED << mode, since, slots, now >>

\* A whole cool-down after the trip, with every slot free.
Offer ==
  /\ mode = "Open"
  /\ since # Unset
  /\ now - since >= OpenDuration
  /\ mode' = "HalfOpen"
  /\ slots' = 0
  /\ UNCHANGED << since, inflight, now >>

Claim(c) ==
  /\ mode = "HalfOpen"
  /\ inflight[c] = Out
  /\ slots < Slots
  /\ slots' = slots + 1
  /\ Becomes(c, now)
  /\ UNCHANGED << mode, since, now >>

\* Beyond the last slot, a probe is let in only when the claim of every probe
\* that is still out has lapsed.
Takeover(c) ==
  /\ mode = "HalfOpen"
  /\ inflight[c] = Out
  /\ slots = Slots
  /\ \A d \in Callers : Probe(d) => now - inflight[d] >= OpenDuration
  /\ Becomes(c, now)
  /\ UNCHANGED << mode, since, slots, now >>

-----------------------------------------------------------------------------
(* Outcomes                                                                 *)

\* While closed an outcome is weighed against the others of the window, which
\* are not part of this object, and may trip the breaker.
Weigh(c) ==
  /\ mode = "Closed"
  /\ Abroad(c)
  /\ Becomes(c, Weighed)
  /\ UNCHANGED << mode, since, slots, now >>

Harmless(c) ==
  /\ inflight[c] = Weighed
  /\ Becomes(c, Out)
  /\ UNCHANGED << mode, since, slots, now >>

Opens(c) ==
  /\ mode' = "Open"
  /\ since' = Unset
  /\ slots' = 0
  /\ Becomes(c, Out)
  /\ now' = now

Trip(c) == mode = "Closed" /\ inflight[c] = Weighed /\ Opens(c)

\* While half-open one outcome decides, of whatever request is out: a request
\* that was let pass before the trip counts like a probe.
Fail(c) == mode = "HalfOpen" /\ Abroad(c) /\ Opens(c)

Succeed(c) ==
  /\ mode = "HalfOpen"
  /\ Abroad(c)
  /\ mode' = "Closed"
  /\ slots' = 0
  /\ Becomes(c, Out)
  /\ UNCHANGED << since, now >>

\* A request that is never reported, or is reported to an open breaker, changes
\* nothing: it frees no slot.
Leave(c) ==
  /\ Abroad(c)
  /\ Becomes(c, Out)
  /\ UNCHANGED << mode, since, slots, now >>

-----------------------------------------------------------------------------
\* The cool-down counts from a reading of the clock made after the trip.
Stamp ==
  /\ mode = "Open"
  /\ since = Unset
  /\ since' = now
  /\ UNCHANGED << mode, slots, inflight, now >>

Elapse ==
  /\ now' = now + 1
  /\ UNCHANGED << mode, since, slots, inflight >>

Request(c) ==
  \/ Pass(c) \/ Claim(c) \/ Takeover(c)
  \/ Weigh(c) \/ Harmless(c) \/ Trip(c) \/ Fail(c) \/ Succeed(c) \/ Leave(c)

AbsNext == (\E c \in Callers : Request(c)) \/ Offer \/ Stamp \/ Elapse

AbsSpec == AbsInit /\ [][AbsNext]_absvars
=============================================================================
