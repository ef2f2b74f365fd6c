----------------------- MODULE BreakerRefinementProofs -----------------------
(***************************************************************************)
(* The circuit breaker implements BreakerSpec as long as calls do not      *)
(* overlap, for every number of callers and every configuration whose      *)
(* slots fit the counter's word.  Each step of a caller is a step of the   *)
(* atomic breaker or leaves it as it is.                                   *)
(***************************************************************************)
EXTENDS BreakerRefinement, CircuitBreakerProofs

\* While a caller is alone, the mapping depends on where that caller is, and on
\* no other.
ModeBy(c) ==
  IF pc[c] = "close_state" THEN "Closed"
  ELSE IF pc[c] = "trip_state" THEN "Open" ELSE state

SinceBy(c) ==
  IF pc[c] \in {"trip_state", "trip_stamp"} THEN Unset
  ELSE IF pc[c] = "trip_opened" THEN stamp[c] ELSE opened_at

SlotsBy(c) ==
  IF ModeBy(c) # "HalfOpen" THEN 0
  ELSE HeldBy(c) + One(FreeSlot /\ pc[c] = "probe_add")

Flights == [d \in Callers |-> Flight(d)]

Mapped ==
  \A c \in Callers :
    Alone(c) => Mode = ModeBy(c) /\ Since = SinceBy(c) /\ SlotsTaken = SlotsBy(c)

LEMMA MappedBy == Mapped
<1> SUFFICES ASSUME NEW c \in Callers, Alone(c)
             PROVE  Mode = ModeBy(c) /\ Since = SinceBy(c) /\ SlotsTaken = SlotsBy(c)
  BY DEF Mapped
<1>1. ASSUME NEW L, L \intersect Resting = {} PROVE SomeAt(L) <=> pc[c] \in L
  BY <1>1 DEF SomeAt, Alone
<1>2. /\ SomeAt({"close_state"}) <=> pc[c] = "close_state"
      /\ SomeAt({"trip_state"}) <=> pc[c] = "trip_state"
      /\ SomeAt({"trip_state", "trip_stamp"}) <=> pc[c] \in {"trip_state", "trip_stamp"}
      /\ SomeAt({"trip_opened"}) <=> pc[c] = "trip_opened"
      /\ SomeAt({"probe_add"}) <=> pc[c] = "probe_add"
  BY <1>1 DEF Resting, InFlight
<1>3. Mode = ModeBy(c)
  BY <1>2 DEF Mode, ModeBy
<1>4. Since = SinceBy(c)
  <2>1. pc[c] = "trip_opened" => (CHOOSE d \in Callers : pc[d] = "trip_opened") = c
    BY DEF Alone, Resting, InFlight
  <2> QED
    BY <1>2, <2>1 DEF Since, SinceBy
<1>5. Held = HeldBy(c)
  BY DEF Held, HeldBy, Alone, Resting, InFlight
<1>6. (FreeSlot /\ SomeAt({"probe_add"})) = (FreeSlot /\ pc[c] = "probe_add")
  BY <1>2 DEF SomeAt
<1> QED
  BY <1>3, <1>4, <1>5, <1>6 DEF SlotsTaken, SlotsBy, One

\* The others keep what they have in flight, and stay at rest.
LEMMA StepMapping ==
  ASSUME TypeOK, NEW c \in Callers, Alone(c), CallerStep(c)
  PROVE  /\ Mode = ModeBy(c) /\ Since = SinceBy(c) /\ SlotsTaken = SlotsBy(c)
         /\ Mode' = ModeBy(c)' /\ Since' = SinceBy(c)' /\ SlotsTaken' = SlotsBy(c)'
         /\ Flights' = [Flights EXCEPT ![c] = Flight(c)']
         /\ now' = now
<1>1. \A d \in Callers \ {c} : pc[d] \in Resting /\ pc'[d] = pc[d] /\ stamp'[d] = stamp[d]
  BY CallerFrame, StampFrame DEF Alone
<1>2. Alone(c)'
  BY <1>1 DEF Alone
<1>3. Mode = ModeBy(c) /\ Since = SinceBy(c) /\ SlotsTaken = SlotsBy(c)
  BY MappedBy DEF Mapped
<1>4. Mode' = ModeBy(c)' /\ Since' = SinceBy(c)' /\ SlotsTaken' = SlotsBy(c)'
  <2>1. Mapped'
    BY MappedBy, PTL
  <2> QED
    BY <1>2, <2>1 DEF Mapped
<1>5. \A d \in Callers \ {c} : Flight(d)' = Flight(d)
  BY <1>1 DEF Flight, Granted, Resting, InFlight
<1>6. now' = now
  BY DEF CallerStep, CallSteps, CheckSteps, RecordSteps, Check, CheckOpenLoad,
         CheckOpenCas, CheckOpenMirror, CheckOpenLost, ProbeClock, ProbeAdd, ProbeClaim,
         ProbeSub, LeaseLoad, LeaseCas, Abandon, PushClosed, PushOpen, TripState,
         TripStamp, TripOpened, TripProbes, TripMirror, CloseState, CloseWindow,
         CloseProbes, CloseMirror, Record
<1> QED
  BY <1>3, <1>4, <1>5, <1>6 DEF Flights

LEMMA MaxProbesType == MaxProbes \in Nat \ {0} /\ UsizeModulus \in Nat
  BY ConfigAssumption DEF MaxProbes

-----------------------------------------------------------------------------
\* RecordReads, CounterBounded and DisabledRests, for the moving caller alone.
Reads(c) ==
  /\ pc[c] = "push_closed" => state = "Closed"
  /\ pc[c] = "trip_state" => state # "Open"
  /\ pc[c] = "lease_cas" => seen[c] = probe_claimed_at
  /\ pc[c] = "probe_sub" => half_open_probes = MaxProbes + 1
  /\ pc[c] # "probe_sub" => half_open_probes <= MaxProbes
  /\ ~Enabled => state = "Closed" /\ pc[c] \in {"idle", "admitted"}

\* A caller that is alone keeps what it read of the state, and the bound on the
\* counter.
LEMMA RefinementCallerStep ==
  ASSUME RefinementInv, NEW c \in Callers, Alone(c), CallerStep(c)
  PROVE  RefinementInv'
<1>1. TypeOK /\ SerialInv' /\ TypeOK'
  BY SerialCallerStep DEF RefinementInv, SerialInv
<1>2. \A d \in Callers \ {c} : pc[d] \in Resting /\ pc'[d] = pc[d] /\ seen'[d] = seen[d]
  BY <1>1, CallerFrame, StampFrame DEF Alone
<1>3. ClaimInv'
  BY DatedStep, CountedStep DEF RefinementInv, ClaimInv
<1>4. Reads(c)
  BY <1>2 DEF RefinementInv, DisabledRests, RecordReads, CounterBounded, SomeAt, Reads,
              Resting, InFlight
<1>5. SUFFICES Reads(c)'
  <2>1. ASSUME Reads(c)' PROVE RecordReads' /\ CounterBounded'
    BY <1>2, <2>1 DEF RecordReads, CounterBounded, SomeAt, Reads, Resting, InFlight
  <2>2. ASSUME Reads(c)' PROVE DisabledRests'
    BY <1>2, <2>2 DEF RefinementInv, DisabledRests, Reads
  <2> QED
    BY <1>1, <1>3, <2>1, <2>2 DEF RefinementInv
<1>6. half_open_probes \in Int /\ pc \in [Callers -> PC] /\ state \in BreakerState
      /\ seen \in [Callers -> Time] /\ (pc[c] = "close_state" => state = "HalfOpen")
  BY <1>1, ConfigAssumption DEF TypeOK, RefinementInv, SerialInv, ReadingsHold
<1> USE <1>4, <1>6, MaxProbesType DEF At, Goto, Return, InFlight, BreakerState, Reads
<1>7. CASE ProbeAdd(c)
  BY <1>7, WordAssumption DEF ProbeAdd, WrapInc
<1>8. CASE ProbeSub(c)
  BY <1>8 DEF ProbeSub, WrapDec
<1>9. CASE \E f \in BOOLEAN : Record(c, f)
  <2>1. PICK f \in BOOLEAN : Record(c, f)
    BY <1>9
  <2>2. /\ state' = state /\ half_open_probes' = half_open_probes /\ pc[c] \in InFlight
        /\ Enabled
    BY <2>1 DEF Record
  <2>3. \/ pc'[c] = "push_closed" /\ state = "Closed"
        \/ pc'[c] = "push_open"
        \/ pc'[c] = "trip_state" /\ state = "HalfOpen"
        \/ pc'[c] = "close_state"
    BY <2>1 DEF Record
  <2> QED
    BY <2>2, <2>3
<1>10. CASE CheckSteps(c) /\ ~ProbeAdd(c) /\ ~ProbeSub(c)
  BY <1>10
     DEF CheckSteps, CheckOpenLoad, CheckOpenCas, CheckOpenMirror, CheckOpenLost,
         ProbeClock, ProbeClaim, LeaseLoad, LeaseCas
<1>11. CASE RecordSteps(c)
  BY <1>11
     DEF RecordSteps, PushClosed, PushOpen, TripState, TripStamp, TripOpened, TripProbes,
         TripMirror, CloseState, CloseWindow, CloseProbes, CloseMirror
<1>12. CASE Check(c) \/ Abandon(c)
  BY <1>12 DEF Check, Abandon
<1> QED
  BY <1>7, <1>8, <1>9, <1>10, <1>11, <1>12 DEF CallerStep, CallSteps

LEMMA RefinementStep == RefinementInv /\ [SerialNext]_vars => RefinementInv'
<1> SUFFICES ASSUME RefinementInv, [SerialNext]_vars PROVE RefinementInv'
  OBVIOUS
<1>1. CASE \E c \in Callers : Alone(c) /\ CallerStep(c)
  BY <1>1, RefinementCallerStep
<1>2. CASE ErrorRate \/ Tick \/ UNCHANGED vars
  <2>1. SerialInv' /\ ClaimInv'
    BY SerialStep, ClaimInvStep DEF RefinementInv
  <2>2. /\ state' = state /\ pc' = pc /\ half_open_probes' = half_open_probes
        /\ seen' = seen /\ probe_claimed_at' = probe_claimed_at
    BY <1>2 DEF ErrorRate, Tick, vars, locals
  <2>3. RecordReads' /\ DisabledRests'
    BY <2>2 DEF RefinementInv, RecordReads, DisabledRests
  <2>4. CounterBounded'
    BY <2>2 DEF RefinementInv, CounterBounded, SomeAt
  <2> QED
    BY <2>1, <2>3, <2>4 DEF RefinementInv
<1> QED
  BY <1>1, <1>2 DEF SerialNext

LEMMA RefinementInit == Init => RefinementInv
<1> SUFFICES ASSUME Init PROVE RefinementInv
  OBVIOUS
<1>1. (\A c \in Callers : pc[c] = "idle") /\ state = "Closed"
  BY DEF Init
<1>2. half_open_probes <= MaxProbes
  BY MaxProbesType DEF Init
<1> QED
  BY <1>1, <1>2, SerialInit, ClaimInvInit
     DEF RefinementInv, RecordReads, CounterBounded, DisabledRests

-----------------------------------------------------------------------------
\* The initial breaker is the initial atomic breaker.
LEMMA MapInit == Init => Abstract!AbsInit
<1> SUFFICES ASSUME Init PROVE Abstract!AbsInit
  OBVIOUS
<1>1. \A c \in Callers : pc[c] = "idle"
  BY DEF Init
<1>2. Mode = "Closed" /\ Since = 0 /\ SlotsTaken = 0 /\ \A c \in Callers : Flight(c) = Out
  BY <1>1 DEF Init, Mode, Since, SlotsTaken, SomeAt, Flight, Granted
<1> QED
  BY <1>2 DEF Init, Abstract!AbsInit

\* Every step of a caller that is alone is one of the atomic breaker, or none.
LEMMA MapCallerStep ==
  ASSUME RefinementInv, NEW c \in Callers, Alone(c), CallerStep(c)
  PROVE  Abstract!AbsNext \/ UNCHANGED Abstract!absvars
<1>1. TypeOK /\ TypeOK'
  BY SerialCallerStep DEF RefinementInv, SerialInv
<1>2. /\ Mode = ModeBy(c) /\ Since = SinceBy(c) /\ SlotsTaken = SlotsBy(c)
      /\ Mode' = ModeBy(c)' /\ Since' = SinceBy(c)' /\ SlotsTaken' = SlotsBy(c)'
      /\ Flights' = [Flights EXCEPT ![c] = Flight(c)']
      /\ now' = now
  BY <1>1, StepMapping
<1>3. /\ half_open_probes \in Int /\ state \in BreakerState /\ pc \in [Callers -> PC]
      /\ opened_at \in Int /\ now \in Int /\ opened_at <= now /\ OpenDuration \in Int
      /\ probe_claimed_at \in Int /\ probe_claimed_at <= now
      /\ stamp \in [Callers -> Time] /\ stamp[c] \in Int
  BY <1>1, ConfigAssumption DEF TypeOK, Time
<1>4. /\ Reads(c)
      /\ pc[c] # "open_lost"
      /\ pc[c] \in ProbePath \union {"close_state"} => state = "HalfOpen"
      /\ pc[c] \in TripTail => state = "Open"
      /\ pc[c] \in CloseTail => state = "Closed"
      /\ pc[c] \in {"check_open", "open_cas"} => state = "Open"
      /\ pc[c] = "open_cas" => seen[c] = opened_at
  BY DEF RefinementInv, DisabledRests, RecordReads, CounterBounded, SerialInv, ReadingsHold,
         SomeAt, Alone, Resting, InFlight, Reads
\* the mapping's own words for a step
<1>5. ASSUME ModeBy(c)' = ModeBy(c), SinceBy(c)' = SinceBy(c), SlotsBy(c)' = SlotsBy(c),
             Flight(c)' = Flight(c)
      PROVE  UNCHANGED Abstract!absvars
  <2>1. Flights' = Flights
    BY <1>2, <1>5 DEF Flights
  <2> QED
    BY <1>2, <1>5, <2>1 DEF Abstract!absvars, Flights
<1>6. ASSUME Abstract!Request(c) PROVE Abstract!AbsNext
  BY <1>6 DEF Abstract!AbsNext
<1> USE <1>3, <1>4, MaxProbesType
        DEF At, Goto, Return, BreakerState, ModeBy, SinceBy, SlotsBy, HeldBy, Reads, One
\* admission
<1>7. CASE Check(c)
  <2>1. /\ pc[c] = "idle" /\ state' = state /\ opened_at' = opened_at
        /\ half_open_probes' = half_open_probes /\ Flight(c) = Out
    BY <1>7 DEF Check, Flight, Granted
  <2>2. CASE state = "Closed"
    <3>1. pc'[c] = "admitted"
      BY <1>7, <2>2 DEF Check
    <3>2. Flight(c)' = Plain
      BY <3>1 DEF Flight, Granted
    <3>3. Abstract!Pass(c)
      BY <1>2, <2>1, <2>2, <3>1, <3>2 DEF Abstract!Pass, Abstract!Becomes, Flights
    <3> QED
      BY <1>6, <3>3 DEF Abstract!Request
  <2>3. CASE state # "Closed"
    <3>1. pc'[c] \in {"check_open", "probe"}
      BY <1>7, <2>3 DEF Check
    <3>2. Flight(c)' = Out
      BY <3>1 DEF Flight, Granted
    <3> QED
      BY <1>5, <2>1, <3>1, <3>2
  <2> QED
    BY <2>2, <2>3
<1>8. CASE CheckOpenCas(c) /\ CooledDown(c)
  <2>1. /\ pc[c] = "open_cas" /\ pc'[c] = "open_mirror" /\ state = "Open" /\ state' = "HalfOpen"
        /\ opened_at' = opened_at /\ half_open_probes' = half_open_probes
    BY <1>8 DEF CheckOpenCas
  <2>2. now - opened_at >= OpenDuration
    BY <1>8, <2>1 DEF CooledDown, SaturatingSub
  <2>3. opened_at # Unset
    BY MarksAssumption
  <2>4. half_open_probes = 0
    BY <2>1 DEF RefinementInv, SerialInv, SlotsWhileOpen, TripTail, Alone, Resting, InFlight
  <2>5. Flight(c) = Out /\ Flight(c)' = Out
    BY <2>1 DEF Flight, Granted
  <2>6. Flights' = Flights
    BY <1>2, <2>5 DEF Flights
  <2> QED
    BY <1>2, <2>1, <2>2, <2>3, <2>4, <2>6 DEF Abstract!AbsNext, Abstract!Offer, Flights
<1>9. CASE ProbeClock(c)
  <2>1. /\ pc[c] = "probe" /\ pc'[c] = "probe_add" /\ state = "HalfOpen" /\ state' = state
        /\ opened_at' = opened_at /\ half_open_probes' = half_open_probes
        /\ probe_claimed_at' = probe_claimed_at /\ stamp'[c] = now
    BY <1>9 DEF ProbeClock, ProbePath
  <2>2. /\ Mode = "HalfOpen" /\ Mode' = Mode /\ Since' = Since /\ SlotsTaken = half_open_probes
        /\ Flight(c) = Out
    BY <1>2, <2>1 DEF Flight, Granted
  <2>3. CASE FreeSlot
    <3>1. SlotsTaken' = SlotsTaken + 1 /\ SlotsTaken < MaxProbes
      BY <1>2, <2>1, <2>2, <2>3 DEF FreeSlot
    <3>2. Flight(c)' = now
      BY <2>1, <2>3 DEF Flight, Granted, FreeSlot
    <3>3. Abstract!Claim(c)
      BY <1>2, <2>2, <3>1, <3>2 DEF Abstract!Claim, Abstract!Becomes, Flights
    <3> QED
      BY <1>6, <3>3 DEF Abstract!Request
  <2>4. CASE ~FreeSlot
    <3>1. SlotsTaken' = SlotsTaken /\ SlotsTaken = MaxProbes
      BY <1>2, <2>1, <2>2, <2>4 DEF FreeSlot
    <3>2. CASE LeaseOver(c)'
      <4>1. Flight(c)' = now
        BY <2>1, <3>2 DEF Flight, Granted
      <4>2. SaturatingSub(now, probe_claimed_at) >= OpenDuration
        BY <2>1, <3>2 DEF LeaseOver
      <4>3. now - probe_claimed_at >= OpenDuration
        BY <4>2 DEF SaturatingSub
      <4>4. ASSUME NEW d \in Callers, Flights[d] \notin {Out, Plain, Weighed}
            PROVE  now - Flights[d] >= OpenDuration
        <5>1. pc[d] = "probing"
          BY <2>2, <4>4 DEF Flights, Flight, Granted, Alone, Resting, InFlight
        <5>2. Flights[d] = stamp[d] /\ stamp[d] <= probe_claimed_at /\ stamp[d] \in Int
          BY <5>1 DEF Flights, Flight, Granted, RefinementInv, ClaimInv, ClaimsDated, Time
        <5> QED
          BY <4>3, <5>2
      <4>5. Abstract!Takeover(c)
        BY <1>2, <2>2, <3>1, <4>1, <4>4
           DEF Abstract!Takeover, Abstract!Becomes, Abstract!Probe, Flights
      <4> QED
        BY <1>6, <4>5 DEF Abstract!Request
    <3>3. CASE ~LeaseOver(c)'
      <4>1. Flight(c)' = Out
        BY <2>1, <2>4, <3>3 DEF Flight, Granted, FreeSlot
      <4> QED
        BY <1>2, <1>5, <2>2, <3>1, <4>1
    <3> QED
      BY <3>2, <3>3
  <2> QED
    BY <2>3, <2>4
\* outcomes
<1>10. ASSUME pc[c] \in InFlight
       PROVE  /\ Abstract!Abroad(c) /\ Flights[c] = Flight(c)
              /\ Mode = state /\ Since = opened_at
              /\ SlotsTaken = IF state # "HalfOpen" THEN 0 ELSE half_open_probes
  <2>1. Flight(c) \in {Plain, stamp[c]}
    BY <1>10 DEF Flight, Granted, InFlight
  <2>2. Abstract!Abroad(c) /\ Flights[c] = Flight(c)
    BY <2>1, MarksAssumption DEF Abstract!Abroad, Flights
  <2> QED
    BY <1>2, <1>10, <2>2 DEF InFlight
<1>11. CASE Abandon(c)
  <2>1. /\ pc[c] \in InFlight /\ pc'[c] = "idle" /\ state' = state /\ opened_at' = opened_at
        /\ half_open_probes' = half_open_probes
    BY <1>11 DEF Abandon
  <2>2. Flight(c)' = Out
    BY <2>1 DEF Flight, Granted
  <2>3. Abstract!Leave(c)
    BY <1>2, <1>10, <2>1, <2>2 DEF Abstract!Leave, Abstract!Becomes, Flights
  <2> QED
    BY <1>6, <2>3 DEF Abstract!Request
<1>12. CASE \E f \in BOOLEAN : Record(c, f)
  <2>1. PICK f \in BOOLEAN : Record(c, f)
    BY <1>12
  <2>2. /\ pc[c] \in InFlight /\ state' = state /\ opened_at' = opened_at
        /\ half_open_probes' = half_open_probes
    BY <2>1 DEF Record
  <2>3. CASE state = "Closed"
    <3>1. pc'[c] = "push_closed"
      BY <2>1, <2>3 DEF Record
    <3>2. Flight(c)' = Weighed
      BY <3>1 DEF Flight, Granted
    <3>3. Abstract!Weigh(c)
      BY <1>2, <1>10, <2>2, <2>3, <3>1, <3>2 DEF Abstract!Weigh, Abstract!Becomes, Flights
    <3> QED
      BY <1>6, <3>3 DEF Abstract!Request
  <2>4. CASE state = "Open"
    <3>1. pc'[c] = "push_open"
      BY <2>1, <2>4 DEF Record
    <3>2. Flight(c)' = Out
      BY <3>1 DEF Flight, Granted
    <3>3. Abstract!Leave(c)
      BY <1>2, <1>10, <2>2, <2>4, <3>1, <3>2 DEF Abstract!Leave, Abstract!Becomes, Flights
    <3> QED
      BY <1>6, <3>3 DEF Abstract!Request
  <2>5. CASE state = "HalfOpen" /\ f
    <3>1. pc'[c] = "trip_state"
      BY <2>1, <2>5 DEF Record
    <3>2. Flight(c)' = Out
      BY <3>1 DEF Flight, Granted
    <3>3. Abstract!Fail(c)
      BY <1>2, <1>10, <2>2, <2>5, <3>1, <3>2
         DEF Abstract!Fail, Abstract!Opens, Abstract!Becomes, Flights
    <3> QED
      BY <1>6, <3>3 DEF Abstract!Request
  <2>6. CASE state = "HalfOpen" /\ ~f
    <3>1. pc'[c] = "close_state"
      BY <2>1, <2>6 DEF Record
    <3>2. Flight(c)' = Out
      BY <3>1 DEF Flight, Granted
    <3>3. Abstract!Succeed(c)
      BY <1>2, <1>10, <2>2, <2>6, <3>1, <3>2 DEF Abstract!Succeed, Abstract!Becomes, Flights
    <3> QED
      BY <1>6, <3>3 DEF Abstract!Request
  <2> QED
    BY <2>3, <2>4, <2>5, <2>6
<1>13. CASE PushClosed(c)
  <2>1. /\ pc[c] = "push_closed" /\ state = "Closed" /\ state' = state /\ opened_at' = opened_at
        /\ half_open_probes' = half_open_probes /\ Flight(c) = Weighed
    BY <1>13 DEF PushClosed, Flight, Granted
  <2>2. Flights[c] = Weighed
    BY <2>1 DEF Flights
  <2>3. pc'[c] \in {"trip_state", "idle"}
    BY <1>13 DEF PushClosed
  <2>4. Flight(c)' = Out
    BY <2>3 DEF Flight, Granted
  <2>5. CASE pc'[c] = "trip_state"
    <3>1. Abstract!Trip(c)
      BY <1>2, <2>1, <2>2, <2>4, <2>5 DEF Abstract!Trip, Abstract!Opens, Abstract!Becomes, Flights
    <3> QED
      BY <1>6, <3>1 DEF Abstract!Request
  <2>6. CASE pc'[c] = "idle"
    <3>1. Abstract!Harmless(c)
      BY <1>2, <2>1, <2>2, <2>4, <2>6 DEF Abstract!Harmless, Abstract!Becomes, Flights
    <3> QED
      BY <1>6, <3>1 DEF Abstract!Request
  <2> QED
    BY <2>3, <2>5, <2>6
<1>14. CASE TripStamp(c)
  <2>1. /\ pc[c] = "trip_stamp" /\ pc'[c] = "trip_opened" /\ state = "Open" /\ state' = state
        /\ stamp'[c] = now
    BY <1>14 DEF TripStamp, TripTail
  <2>2. Flight(c) = Out /\ Flight(c)' = Out
    BY <2>1 DEF Flight, Granted
  <2>3. Flights' = Flights
    BY <1>2, <2>2 DEF Flights
  <2> QED
    BY <1>2, <2>1, <2>3 DEF Abstract!AbsNext, Abstract!Stamp, Flights
\* the steps that the atomic breaker does not see
<1>15. CASE ProbeAdd(c)
  <2>1. /\ pc[c] = "probe_add" /\ state = "HalfOpen" /\ state' = state
        /\ opened_at' = opened_at /\ half_open_probes' = half_open_probes + 1
        /\ probe_claimed_at' = probe_claimed_at /\ stamp' = stamp
        /\ pc'[c] = IF FreeSlot THEN "probe_claim" ELSE "probe_sub"
    BY <1>15, WordAssumption DEF ProbeAdd, WrapInc, ProbePath, FreeSlot, locals
  <2>2. Flight(c)' = Flight(c)
    BY <2>1 DEF Flight, Granted, LeaseOver
  <2>3. SlotsBy(c)' = SlotsBy(c)
    BY <2>1 DEF FreeSlot, WrapDec
  <2> QED
    BY <1>5, <2>1, <2>2, <2>3
<1>16. CASE ProbeSub(c)
  <2>1. /\ pc[c] = "probe_sub" /\ pc'[c] = "lease" /\ state' = state
        /\ opened_at' = opened_at /\ half_open_probes' = half_open_probes - 1
        /\ probe_claimed_at' = probe_claimed_at /\ stamp' = stamp
    BY <1>16 DEF ProbeSub, WrapDec, locals
  <2>2. Flight(c)' = Flight(c)
    BY <2>1 DEF Flight, Granted, LeaseOver
  <2>3. SlotsBy(c)' = SlotsBy(c)
    BY <2>1 DEF WrapDec
  <2> QED
    BY <1>5, <2>1, <2>2, <2>3
<1>17. CASE ProbeClaim(c) \/ LeaseLoad(c) \/ LeaseCas(c)
  <2>1. /\ pc[c] \in {"probe_claim", "lease", "lease_cas"} /\ state' = state
        /\ opened_at' = opened_at /\ half_open_probes' = half_open_probes
        /\ pc'[c] \in {"probing", "lease_cas", "idle"}
    BY <1>17 DEF ProbeClaim, LeaseLoad, LeaseCas
  <2>2. Flight(c)' = Flight(c)
    BY <1>17 DEF ProbeClaim, LeaseLoad, LeaseCas, Flight, Granted, LeaseOver, locals
  <2> QED
    BY <1>5, <2>1, <2>2
<1>18. ASSUME pc[c] \in {"check_open", "open_cas", "open_mirror", "push_open"} \union TripTail
                \union CloseTail \union {"trip_state", "close_state"},
              pc'[c] \in {"idle", "open_cas", "probe"} \union TripTail \union CloseTail
       PROVE  Flight(c)' = Flight(c)
  BY <1>18 DEF Flight, Granted, TripTail, CloseTail
<1>19. CASE CheckOpenLoad(c) \/ CheckOpenMirror(c) \/ (CheckOpenCas(c) /\ ~CooledDown(c))
  <2>1. /\ pc[c] \in {"check_open", "open_cas", "open_mirror"} /\ state' = state
        /\ opened_at' = opened_at /\ half_open_probes' = half_open_probes
        /\ pc'[c] \in {"idle", "open_cas", "probe"}
    BY <1>19 DEF CheckOpenLoad, CheckOpenMirror, CheckOpenCas
  <2> QED
    BY <1>5, <1>18, <2>1
<1>20. CASE PushOpen(c) \/ TripMirror(c) \/ CloseMirror(c) \/ CloseWindow(c)
  <2>1. /\ pc[c] \in {"push_open", "trip_mirror", "close_mirror", "close_window"}
        /\ pc'[c] \in {"idle", "close_probes"} /\ state' = state
        /\ opened_at' = opened_at /\ half_open_probes' = half_open_probes
    BY <1>20 DEF PushOpen, TripMirror, CloseMirror, CloseWindow
  <2>2. Flight(c)' = Flight(c)
    BY <1>18, <2>1 DEF TripTail, CloseTail
  <2> QED
    BY <1>5, <2>1, <2>2
<1>21. CASE TripProbes(c) \/ CloseProbes(c)
  <2>1. /\ pc[c] \in {"trip_probes", "close_probes"} /\ state # "HalfOpen" /\ state' = state
        /\ pc'[c] \in {"trip_mirror", "close_mirror"} /\ opened_at' = opened_at
    BY <1>21 DEF TripProbes, CloseProbes, TripTail, CloseTail
  <2>2. Flight(c)' = Flight(c)
    BY <1>18, <2>1 DEF TripTail, CloseTail
  <2> QED
    BY <1>5, <2>1, <2>2
<1>22. CASE TripState(c)
  <2>1. pc[c] = "trip_state" /\ pc'[c] = "trip_stamp" /\ state' = "Open"
    BY <1>22 DEF TripState
  <2>2. Flight(c)' = Flight(c)
    BY <1>18, <2>1 DEF TripTail
  <2> QED
    BY <1>5, <2>1, <2>2
<1>23. CASE TripOpened(c)
  <2>1. /\ pc[c] = "trip_opened" /\ pc'[c] = "trip_probes" /\ state = "Open" /\ state' = state
        /\ opened_at' = stamp[c]
    BY <1>23 DEF TripOpened, TripTail
  <2>2. Flight(c)' = Flight(c)
    BY <1>18, <2>1 DEF TripTail
  <2> QED
    BY <1>5, <2>1, <2>2
<1>24. CASE CloseState(c)
  <2>1. /\ pc[c] = "close_state" /\ pc'[c] = "close_window" /\ state' = "Closed"
        /\ opened_at' = opened_at
    BY <1>24 DEF CloseState
  <2>2. Flight(c)' = Flight(c)
    BY <1>18, <2>1 DEF CloseTail
  <2> QED
    BY <1>5, <2>1, <2>2
<1>25. ~CheckOpenLost(c)
  BY DEF CheckOpenLost
<1> QED
  BY <1>7, <1>8, <1>9, <1>11, <1>12, <1>13, <1>14, <1>15, <1>16, <1>17, <1>19, <1>20, <1>21,
     <1>22, <1>23, <1>24, <1>25
     DEF CallerStep, CallSteps, CheckSteps, RecordSteps

\* So is every step of the system; the clock is the atomic breaker's own.
LEMMA MapStep ==
  ASSUME RefinementInv, [SerialNext]_vars
  PROVE  [Abstract!AbsNext]_(Abstract!absvars)
<1>1. CASE \E c \in Callers : Alone(c) /\ CallerStep(c)
  BY <1>1, MapCallerStep
<1>2. CASE ErrorRate \/ Tick \/ UNCHANGED vars
  <2>1. /\ state' = state /\ opened_at' = opened_at /\ half_open_probes' = half_open_probes
        /\ probe_claimed_at' = probe_claimed_at /\ pc' = pc /\ stamp' = stamp
        /\ now' = now \/ now' = now + 1
    BY <1>2 DEF ErrorRate, Tick, vars, locals
  <2>2. Mode' = Mode /\ Since' = Since
    BY <2>1 DEF Mode, Since, SomeAt
  <2>3. SlotsTaken' = SlotsTaken
    BY <2>1, <2>2 DEF SlotsTaken, SomeAt, Held, FreeSlot
  <2>4. \A c \in Callers : Flight(c)' = Flight(c)
    BY <2>1 DEF Flight, Granted, LeaseOver, FreeSlot
  <2>5. [c \in Callers |-> Flight(c)]' = [c \in Callers |-> Flight(c)]
    BY <2>4
  <2> QED
    BY <2>1, <2>2, <2>3, <2>5 DEF Abstract!AbsNext, Abstract!Elapse, Abstract!absvars
<1> QED
  BY <1>1, <1>2 DEF SerialNext

\* Calls that do not overlap make the lock-free breaker indistinguishable from an
\* atomic one, for every number of callers: the cool-down counts from a clock
\* reading made after the trip, an episode starts with all its slots, a probe
\* beyond the last slot is let in only when every claim still out has lapsed, and
\* an outcome acts on the mode in force when it is reported.
THEOREM AtomicCorrect == SerialSpec => AtomicBreaker
<1>1. SerialSpec => []RefinementInv
  BY RefinementInit, RefinementStep, PTL DEF SerialSpec
<1> QED
  BY <1>1, MapInit, MapStep, PTL DEF SerialSpec, AtomicBreaker, Abstract!AbsSpec
=============================================================================
