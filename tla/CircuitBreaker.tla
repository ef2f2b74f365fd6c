--------------------------- MODULE CircuitBreaker ---------------------------
(***************************************************************************)
(* The circuit breaker of crates/common/xai-circuit-breaker: a handle that *)
(* any number of callers share, without a lock around the state machine.   *)
(* Every access to one of the atomics, and every critical section of the   *)
(* window mutex, is an action of its own; pc says which access a caller    *)
(* makes next.                                                             *)
(*                                                                         *)
(* A caller consults check(), and if it is admitted either reports the     *)
(* outcome of its request through record() or is dropped before it does    *)
(* (a cancelled future).  Time is a clock in ticks since `baseline`.       *)
(***************************************************************************)
EXTENDS Integers, Sequences, FiniteSets

CONSTANTS
  Callers,            \* the tasks that share the breaker
  Enabled,            \* config.enabled
  OpenDuration,       \* config.open_duration: cool-down, and lease of a probe
  WindowDuration,     \* config.window_duration
  MinSamples,         \* config.min_samples
  RateNum, RateDen,   \* config.error_rate_threshold = RateNum / RateDen
  HalfOpenMaxProbes,  \* config.half_open_max_probes, before it is clamped
  MaxWindowEntries,   \* MAX_WINDOW_ENTRIES
  UsizeModulus,       \* 2^w for the counter half_open_probes
  MaxTime             \* bound on the clock

ASSUME ConfigAssumption ==
  /\ Enabled \in BOOLEAN
  /\ OpenDuration \in Nat
  /\ WindowDuration \in Nat
  /\ MinSamples \in Nat
  /\ RateNum \in Nat
  /\ RateDen \in Nat \ {0}
  /\ HalfOpenMaxProbes \in Nat
  /\ MaxWindowEntries \in Nat \ {0}
  /\ UsizeModulus \in Nat \ {0}
  /\ MaxTime \in Nat

\* half_open_max_probes is itself a usize, and a word holds more than one value.
ASSUME UsizeAssumption == UsizeModulus > 1 /\ HalfOpenMaxProbes < UsizeModulus

VARIABLES
  state,              \* the authoritative AtomicU8
  opened_at,          \* opened_at_millis
  half_open_probes,
  probe_claimed_at,   \* probe_claimed_at_millis
  is_open_fast,
  entries,            \* window.entries, oldest first
  failures,           \* window.failures
  now,                \* the monotonic clock
  pc,                 \* next access of each caller
  seen,               \* value a caller loaded from opened_at or probe_claimed_at
  stamp,              \* value a caller read from the clock
  outcome             \* is_failure of the record() in progress

vars == << state, opened_at, half_open_probes, probe_claimed_at, is_open_fast,
           entries, failures, now, pc, seen, stamp, outcome >>

BreakerState == {"Closed", "Open", "HalfOpen"}

\* Between two calls: outside, or with a request in flight that was admitted
\* by a closed breaker ("admitted") or through a half-open slot ("probing").
InFlight == {"admitted", "probing"}
Resting  == {"idle"} \union InFlight

PC == Resting \union
      {"check_open", "open_cas", "open_mirror", "open_lost",
       "probe", "probe_add", "probe_claim", "probe_sub", "lease", "lease_cas",
       "push_closed", "push_open",
       "trip_state", "trip_stamp", "trip_opened", "trip_probes", "trip_mirror",
       "close_state", "close_window", "close_probes", "close_mirror"}

Time == 0 .. MaxTime

MaxProbes == IF HalfOpenMaxProbes = 0 THEN 1 ELSE HalfOpenMaxProbes

\* Arithmetic of the unsigned integers involved.
SaturatingSub(a, b) == IF a >= b THEN a - b ELSE 0
WrapInc(n) == IF n + 1 = UsizeModulus THEN 0 ELSE n + 1
WrapDec(n) == IF n = 0 THEN UsizeModulus - 1 ELSE n - 1

-----------------------------------------------------------------------------
(* The sliding window, always accessed with its mutex held.                 *)

Sample == [at : Time, failure : BOOLEAN]

One(b) == IF b THEN 1 ELSE 0

\* Mutant: the sample dropped at the cap stays counted.
Push_KeepsCount(w, f, at) ==
  [entries  |-> Append(IF Len(w.entries) >= MaxWindowEntries
                         THEN Tail(w.entries) ELSE w.entries,
                       [at |-> at, failure |-> f]),
   failures |-> w.failures + One(f)]

Push(w, f, at) ==
  LET full == Len(w.entries) >= MaxWindowEntries
      kept == IF full THEN Tail(w.entries) ELSE w.entries
      lost == IF full THEN One(Head(w.entries).failure) ELSE 0
  IN  [entries  |-> Append(kept, [at |-> at, failure |-> f]),
       failures |-> w.failures - lost + One(f)]

\* The samples that eviction pops: the longest prefix older than the cutoff.
Expired(s, t) ==
  {i \in 1 .. Len(s) : \A j \in 1 .. i : s[j].at < t - WindowDuration}

Evict(w, t) ==
  LET old == Expired(w.entries, t)
      n   == Cardinality(old)
  IN  [entries  |-> SubSeq(w.entries, n + 1, Len(w.entries)),
       failures |-> w.failures - Cardinality({i \in old : w.entries[i].failure})]

SampleCount(w) == Len(w.entries)

\* error_rate() >= error_rate_threshold, without the division
ErrorRateReached(w) ==
  IF w.entries = << >> THEN RateNum = 0
  ELSE w.failures * RateDen >= RateNum * Len(w.entries)

ShouldTrip(w) == SampleCount(w) >= MinSamples /\ ErrorRateReached(w)

ClearedWindow == [entries |-> << >>, failures |-> 0]

LockedWindow == [entries |-> entries, failures |-> failures]

SetWindow(w) == entries' = w.entries /\ failures' = w.failures

-----------------------------------------------------------------------------
Init ==
  /\ state = "Closed"
  /\ opened_at = 0
  /\ half_open_probes = 0
  /\ probe_claimed_at = 0
  /\ is_open_fast = FALSE
  /\ entries = ClearedWindow.entries
  /\ failures = ClearedWindow.failures
  /\ now = 0
  /\ pc = [c \in Callers |-> "idle"]
  /\ seen = [c \in Callers |-> 0]
  /\ stamp = [c \in Callers |-> 0]
  /\ outcome = [c \in Callers |-> FALSE]

At(c, label)   == pc[c] = label
Goto(c, label) == pc' = [pc EXCEPT ![c] = label]

window == << entries, failures >>
locals == << seen, stamp, outcome >>

\* A rejected or finished call leaves nothing of its locals behind.
Return(c) ==
  /\ Goto(c, "idle")
  /\ seen' = [seen EXCEPT ![c] = 0]
  /\ stamp' = [stamp EXCEPT ![c] = 0]
  /\ outcome' = [outcome EXCEPT ![c] = FALSE]

-----------------------------------------------------------------------------
(* check()                                                                  *)

Check(c) ==
  /\ At(c, "idle")
  /\ Goto(c, CASE ~Enabled \/ state = "Closed" -> "admitted"
               [] Enabled /\ state = "Open" -> "check_open"
               [] Enabled /\ state = "HalfOpen" -> "probe")
  /\ UNCHANGED << state, opened_at, half_open_probes, probe_claimed_at,
                  is_open_fast, window, now, locals >>

CheckOpenLoad(c) ==
  /\ At(c, "check_open")
  /\ seen' = [seen EXCEPT ![c] = opened_at]
  /\ Goto(c, "open_cas")
  /\ UNCHANGED << state, opened_at, half_open_probes, probe_claimed_at,
                  is_open_fast, window, now, stamp, outcome >>

\* Mutant: the cool-down ends a tick early.
CooledDown_Early(c) == SaturatingSub(now, seen[c]) + 1 >= OpenDuration

CooledDown(c) == SaturatingSub(now, seen[c]) >= OpenDuration

\* cas_state(Open, HalfOpen).  The clock is read with the CAS: `seen` is
\* already fixed, so a later reading can only make the test easier to pass.
CheckOpenCas(c) ==
  /\ At(c, "open_cas")
  /\ IF CooledDown(c)
       THEN /\ state' = IF state = "Open" THEN "HalfOpen" ELSE state
            /\ Goto(c, IF state = "Open" THEN "open_mirror" ELSE "open_lost")
            /\ seen' = [seen EXCEPT ![c] = 0]
            /\ UNCHANGED << stamp, outcome >>
       ELSE Return(c) /\ UNCHANGED state
  /\ UNCHANGED << opened_at, half_open_probes, probe_claimed_at, is_open_fast,
                  window, now >>

\* Mutant: the mirror is not cleared on the way to HalfOpen.
CheckOpenMirror_Kept(c) ==
  /\ At(c, "open_mirror")
  /\ Goto(c, "probe")
  /\ UNCHANGED << state, opened_at, half_open_probes, probe_claimed_at,
                  is_open_fast, window, now, locals >>

CheckOpenMirror(c) ==
  /\ At(c, "open_mirror")
  /\ is_open_fast' = FALSE
  /\ Goto(c, "probe")
  /\ UNCHANGED << state, opened_at, half_open_probes, probe_claimed_at,
                  window, now, locals >>

\* Lost CAS race: re-evaluate.
CheckOpenLost(c) ==
  /\ At(c, "open_lost")
  /\ Goto(c, CASE state = "Closed" -> "admitted"
               [] state = "HalfOpen" -> "probe"
               [] state = "Open" -> "idle")
  /\ UNCHANGED << state, opened_at, half_open_probes, probe_claimed_at,
                  is_open_fast, window, now, locals >>

-----------------------------------------------------------------------------
(* try_half_open_probe()                                                    *)

ProbeClock(c) ==
  /\ At(c, "probe")
  /\ stamp' = [stamp EXCEPT ![c] = now]
  /\ Goto(c, "probe_add")
  /\ UNCHANGED << state, opened_at, half_open_probes, probe_claimed_at,
                  is_open_fast, window, now, seen, outcome >>

ProbeAdd(c) ==
  /\ At(c, "probe_add")
  /\ half_open_probes' = WrapInc(half_open_probes)
  /\ Goto(c, IF half_open_probes < MaxProbes THEN "probe_claim" ELSE "probe_sub")
  /\ UNCHANGED << state, opened_at, probe_claimed_at, is_open_fast, window,
                  now, locals >>

\* stamp stays: it is the time of the claim that the probe now holds.
ProbeClaim(c) ==
  /\ At(c, "probe_claim")
  /\ probe_claimed_at' = stamp[c]
  /\ Goto(c, "probing")
  /\ UNCHANGED << state, opened_at, half_open_probes, is_open_fast, window,
                  now, locals >>

ProbeSub(c) ==
  /\ At(c, "probe_sub")
  /\ half_open_probes' = WrapDec(half_open_probes)
  /\ Goto(c, "lease")
  /\ UNCHANGED << state, opened_at, probe_claimed_at, is_open_fast, window,
                  now, locals >>

\* Mutant: a claim never expires.
LeaseLoad_NoExpiry(c) ==
  /\ At(c, "lease")
  /\ Return(c)
  /\ UNCHANGED << state, opened_at, half_open_probes, probe_claimed_at,
                  is_open_fast, window, now >>

LeaseLoad(c) ==
  /\ At(c, "lease")
  /\ IF SaturatingSub(stamp[c], probe_claimed_at) >= OpenDuration
       THEN /\ seen' = [seen EXCEPT ![c] = probe_claimed_at]
            /\ Goto(c, "lease_cas")
            /\ UNCHANGED << stamp, outcome >>
       ELSE Return(c)
  /\ UNCHANGED << state, opened_at, half_open_probes, probe_claimed_at,
                  is_open_fast, window, now >>

\* Mutant: a plain store, so that two callers take over one expired lease.
LeaseCas_Stores(c) ==
  /\ At(c, "lease_cas")
  /\ probe_claimed_at' = stamp[c]
  /\ seen' = [seen EXCEPT ![c] = 0]
  /\ Goto(c, "probing")
  /\ UNCHANGED << state, opened_at, half_open_probes, is_open_fast, window,
                  now, stamp, outcome >>

\* Mutant: the takeover does not renew the lease.
LeaseCas_NotRenewed(c) ==
  /\ At(c, "lease_cas")
  /\ seen' = [seen EXCEPT ![c] = 0]
  /\ Goto(c, "probing")
  /\ UNCHANGED << state, opened_at, half_open_probes, probe_claimed_at,
                  is_open_fast, window, now, stamp, outcome >>

LeaseCas(c) ==
  /\ At(c, "lease_cas")
  /\ IF probe_claimed_at = seen[c]
       THEN /\ probe_claimed_at' = stamp[c]
            /\ seen' = [seen EXCEPT ![c] = 0]
            /\ Goto(c, "probing")
            /\ UNCHANGED << stamp, outcome >>
       ELSE Return(c) /\ UNCHANGED probe_claimed_at
  /\ UNCHANGED << state, opened_at, half_open_probes, is_open_fast, window,
                  now >>

-----------------------------------------------------------------------------
(* record()                                                                 *)

\* `now` and the state are read once; the rest of the call acts on them.
Record(c, is_failure) ==
  /\ pc[c] \in InFlight
  /\ Enabled
  /\ outcome' = [outcome EXCEPT ![c] = is_failure]
  /\ stamp' = [stamp EXCEPT ![c] = now]
  /\ Goto(c, CASE state = "Closed" -> "push_closed"
               [] state = "Open" -> "push_open"
               [] state = "HalfOpen" /\ is_failure -> "trip_state"
               [] state = "HalfOpen" /\ ~is_failure -> "close_state")
  /\ UNCHANGED << state, opened_at, half_open_probes, probe_claimed_at,
                  is_open_fast, window, now, seen >>

\* The request's future is dropped before it records, it ended in a status
\* that callers do not record, or record() returns early (not enabled).
Abandon(c) ==
  /\ pc[c] \in InFlight
  /\ Return(c)
  /\ UNCHANGED << state, opened_at, half_open_probes, probe_claimed_at,
                  is_open_fast, window, now >>

Recorded(c) == Evict(Push(LockedWindow, outcome[c], stamp[c]), stamp[c])

PushClosed(c) ==
  /\ At(c, "push_closed")
  /\ SetWindow(Recorded(c))
  /\ IF ShouldTrip(Recorded(c))
       THEN Goto(c, "trip_state") /\ UNCHANGED locals
       ELSE Return(c)
  /\ UNCHANGED << state, opened_at, half_open_probes, probe_claimed_at,
                  is_open_fast, now >>

PushOpen(c) ==
  /\ At(c, "push_open")
  /\ SetWindow(Recorded(c))
  /\ Return(c)
  /\ UNCHANGED << state, opened_at, half_open_probes, probe_claimed_at,
                  is_open_fast, now >>

-----------------------------------------------------------------------------
(* trip()                                                                   *)

TripState(c) ==
  /\ At(c, "trip_state")
  /\ state' = "Open"
  /\ Goto(c, "trip_stamp")
  /\ UNCHANGED << opened_at, half_open_probes, probe_claimed_at, is_open_fast,
                  window, now, locals >>

\* Mutant: the cool-down starts at the reading of the clock that record() made.
TripStamp_Early(c) ==
  /\ At(c, "trip_stamp")
  /\ Goto(c, "trip_opened")
  /\ UNCHANGED << state, opened_at, half_open_probes, probe_claimed_at,
                  is_open_fast, window, now, locals >>

TripStamp(c) ==
  /\ At(c, "trip_stamp")
  /\ stamp' = [stamp EXCEPT ![c] = now]
  /\ Goto(c, "trip_opened")
  /\ UNCHANGED << state, opened_at, half_open_probes, probe_claimed_at,
                  is_open_fast, window, now, seen, outcome >>

TripOpened(c) ==
  /\ At(c, "trip_opened")
  /\ opened_at' = stamp[c]
  /\ Goto(c, "trip_probes")
  /\ UNCHANGED << state, half_open_probes, probe_claimed_at, is_open_fast,
                  window, now, locals >>

\* Mutant: the slots of the last half-open episode are not freed.
TripProbes_Kept(c) ==
  /\ At(c, "trip_probes")
  /\ Goto(c, "trip_mirror")
  /\ UNCHANGED << state, opened_at, half_open_probes, probe_claimed_at,
                  is_open_fast, window, now, locals >>

TripProbes(c) ==
  /\ At(c, "trip_probes")
  /\ half_open_probes' = 0
  /\ Goto(c, "trip_mirror")
  /\ UNCHANGED << state, opened_at, probe_claimed_at, is_open_fast, window,
                  now, locals >>

TripMirror(c) ==
  /\ At(c, "trip_mirror")
  /\ is_open_fast' = TRUE
  /\ Return(c)
  /\ UNCHANGED << state, opened_at, half_open_probes, probe_claimed_at,
                  window, now >>

-----------------------------------------------------------------------------
(* close()                                                                  *)

CloseState(c) ==
  /\ At(c, "close_state")
  /\ state' = "Closed"
  /\ Goto(c, "close_window")
  /\ UNCHANGED << opened_at, half_open_probes, probe_claimed_at, is_open_fast,
                  window, now, locals >>

CloseWindow(c) ==
  /\ At(c, "close_window")
  /\ SetWindow(ClearedWindow)
  /\ Goto(c, "close_probes")
  /\ UNCHANGED << state, opened_at, half_open_probes, probe_claimed_at,
                  is_open_fast, now, locals >>

CloseProbes(c) ==
  /\ At(c, "close_probes")
  /\ half_open_probes' = 0
  /\ Goto(c, "close_mirror")
  /\ UNCHANGED << state, opened_at, probe_claimed_at, is_open_fast, window,
                  now, locals >>

CloseMirror(c) ==
  /\ At(c, "close_mirror")
  /\ is_open_fast' = FALSE
  /\ Return(c)
  /\ UNCHANGED << state, opened_at, half_open_probes, probe_claimed_at,
                  window, now >>

-----------------------------------------------------------------------------
\* error_rate(), from any thread: it evicts before it reads.
ErrorRate ==
  /\ SetWindow(Evict(LockedWindow, now))
  /\ UNCHANGED << state, opened_at, half_open_probes, probe_claimed_at,
                  is_open_fast, now, pc, locals >>

Tick ==
  /\ now < MaxTime
  /\ now' = now + 1
  /\ UNCHANGED << state, opened_at, half_open_probes, probe_claimed_at,
                  is_open_fast, window, pc, locals >>

CheckSteps(c) ==
  \/ CheckOpenLoad(c) \/ CheckOpenCas(c) \/ CheckOpenMirror(c) \/ CheckOpenLost(c)
  \/ ProbeClock(c) \/ ProbeAdd(c) \/ ProbeClaim(c) \/ ProbeSub(c)
  \/ LeaseLoad(c) \/ LeaseCas(c)

RecordSteps(c) ==
  \/ PushClosed(c) \/ PushOpen(c)
  \/ TripState(c) \/ TripStamp(c) \/ TripOpened(c) \/ TripProbes(c) \/ TripMirror(c)
  \/ CloseState(c) \/ CloseWindow(c) \/ CloseProbes(c) \/ CloseMirror(c)

\* What a caller does on its own once it is inside a call.
CallSteps(c) == CheckSteps(c) \/ RecordSteps(c)

CallerStep(c) ==
  \/ Check(c)
  \/ \E is_failure \in BOOLEAN : Record(c, is_failure)
  \/ Abandon(c)
  \/ CallSteps(c)

Next == (\E c \in Callers : CallerStep(c)) \/ ErrorRate \/ Tick

Spec == Init /\ [][Next]_vars

\* The clock advances, a call that was entered is executed to its end, and
\* requests keep arriving.  A probe need never record.
Fairness ==
  /\ WF_vars(Tick)
  /\ \A c \in Callers : WF_vars(CallSteps(c))
  /\ \A c \in Callers : WF_vars(Check(c))
  /\ \A c \in Callers : WF_vars(Abandon(c) \/ \E f \in BOOLEAN : Record(c, f))

LiveSpec == Spec /\ Fairness

\* Calls that do not overlap: check() and record() contain no await, so this is
\* what callers on one current-thread runtime produce.
Alone(c) == \A d \in Callers \ {c} : pc[d] \in Resting

SerialNext == (\E c \in Callers : Alone(c) /\ CallerStep(c)) \/ ErrorRate \/ Tick

SerialSpec == Init /\ [][SerialNext]_vars

-----------------------------------------------------------------------------
(* Properties of every interleaving                                        *)

\* Types and ranges: the probe counter stays in its machine word, and no stamp
\* lies in the future.
TypeOK ==
  /\ state \in BreakerState
  /\ opened_at \in Time
  /\ half_open_probes \in 0 .. UsizeModulus - 1
  /\ probe_claimed_at \in Time
  /\ is_open_fast \in BOOLEAN
  /\ entries \in Seq(Sample)
  /\ failures \in Int
  /\ now \in Time
  /\ pc \in [Callers -> PC]
  /\ seen \in [Callers -> Time]
  /\ stamp \in [Callers -> Time]
  /\ outcome \in [Callers -> BOOLEAN]
  /\ opened_at <= now /\ probe_claimed_at <= now
  /\ \A c \in Callers : stamp[c] <= now

\* The incremental counter of SlidingWindow equals the number of failed samples
\* held, whatever mixture of push at the cap, eviction and clear produced it.
WindowSound ==
  /\ Len(entries) <= MaxWindowEntries
  /\ failures = Cardinality({i \in DOMAIN entries : entries[i].failure})

\* A caller that acts on an old reading of Open never reopens a breaker that
\* another caller closed in between: check_open only moves Open to HalfOpen.
NeverHalfOpensClosed == [][state = "Closed" => state' # "HalfOpen"]_vars

\* "Let exactly one caller (the CAS winner) take it over": of several callers
\* that found one lease expired, one is admitted.  A takeover moves the claim a
\* whole open_duration ahead of the claim it replaces, so the losers stay out.
LeaseTakenOnce ==
  [][\A c \in Callers : pc[c] = "lease_cas" /\ pc'[c] = "probing"
       => SaturatingSub(probe_claimed_at', probe_claimed_at) >= OpenDuration]_vars

\* What a caller found of the lease still holds when it comes to take it over.
LeaseReadings ==
  \A c \in Callers :
    pc[c] = "lease_cas" => SaturatingSub(stamp[c], seen[c]) >= OpenDuration

\* An open breaker is offered to a probe once its cool-down is over, unless it
\* is tripped afresh, however calls of check and record interleave.
OpenRecovers ==
  \A t \in Time :
    (state = "Open" /\ opened_at = t /\ t + OpenDuration <= MaxTime)
      ~> (state # "Open" \/ opened_at # t)

\* A half-open breaker is never stranded: even if every probe is dropped before
\* it records, and whatever races have done to half_open_probes, a caller is
\* admitted to probe again (the lease of probe_claimed_at_millis).
HalfOpenRecovers ==
  (state = "HalfOpen" /\ now + OpenDuration <= MaxTime)
    ~> (state # "HalfOpen" \/ \E c \in Callers : pc[c] = "probing")

\* No race between callers and no dropped probe shuts a breaker for good.
NeverStranded == OpenRecovers /\ HalfOpenRecovers

-----------------------------------------------------------------------------
(* Properties of non-overlapping calls                                     *)

Quiescent == \A c \in Callers : pc[c] \in Resting

\* "Lock-free mirror of `state == Open`": is_open() agrees with the
\* authoritative state whenever no call is in progress.
MirrorAgrees == Quiescent => (is_open_fast <=> state = "Open")

\* "It is already 0": the caller that moves Open to HalfOpen finds no slot
\* taken, so that it need not reset half_open_probes.
SlotsFreeAtHalfOpen ==
  [][state = "Open" /\ state' = "HalfOpen" => half_open_probes = 0]_vars

\* HalfOpen is only ever reached a whole open_duration after the last trip.
CoolDownRespected == state = "HalfOpen" => now - opened_at >= OpenDuration

\* While half-open, at most max_probes requests hold a claim younger than the
\* lease: slots are neither lost to a rejected caller nor handed out twice.
YoungProbes == {c \in Callers : pc[c] = "probing" /\ now - stamp[c] < OpenDuration}
ProbeBudget == state = "HalfOpen" => Cardinality(YoungProbes) <= MaxProbes

-----------------------------------------------------------------------------
(* What non-overlapping calls preserve, step by step: the inductive         *)
(* strengthening behind the properties above.                               *)

TripTail  == {"trip_stamp", "trip_opened", "trip_probes", "trip_mirror"}
CloseTail == {"close_window", "close_probes", "close_mirror"}
ProbePath == {"open_mirror", "probe", "probe_add", "probe_claim", "probe_sub",
              "lease", "lease_cas"}

\* Only one caller is inside a call.
OneCall == \A c, d \in Callers : pc[c] \notin Resting /\ pc[d] \notin Resting => c = d

\* What a caller read of the state, when it entered the call, still holds.
ReadingsHold ==
  \A c \in Callers :
    /\ pc[c] # "open_lost"
    /\ pc[c] \in {"check_open", "open_cas"} => state = "Open"
    /\ pc[c] = "open_cas" => seen[c] = opened_at
    /\ pc[c] \in ProbePath \union {"close_state"} => state = "HalfOpen"
    /\ pc[c] \in TripTail => state = "Open"
    /\ pc[c] \in CloseTail => state = "Closed"

\* The mirror lags only inside a transition.
MirrorLag ==
  (\A c \in Callers : pc[c] \notin {"open_mirror"} \union TripTail \union CloseTail)
    => (is_open_fast <=> state = "Open")

\* Slots are taken while Open only until trip() has zeroed the counter.
SlotsWhileOpen ==
  (state = "Open" /\ half_open_probes # 0)
    => \E c \in Callers : pc[c] \in TripTail \ {"trip_mirror"}

SerialInv ==
  TypeOK /\ OneCall /\ ReadingsHold /\ MirrorLag /\ SlotsWhileOpen /\ CoolDownRespected

\* The claims of a half-open episode: the probes that are younger than the
\* lease, and the slot that a caller has taken and not yet stamped.
Claims == YoungProbes \union {c \in Callers : pc[c] = "probe_claim"}

\* The counter without the slot that a refused caller is about to give back.
Held == IF \E c \in Callers : pc[c] = "probe_sub"
          THEN WrapDec(half_open_probes) ELSE half_open_probes

\* Where a caller holds a reading of the clock that it may store.
Dating == (ProbePath \ {"open_mirror", "probe"}) \union {"trip_opened"}

\* No probe claimed its slot later than the last claim, than the clock reading
\* of a caller that is about to claim or to stamp a trip, or than the last trip.
ClaimsDated ==
  \A d \in Callers : pc[d] = "probing" =>
    /\ stamp[d] <= probe_claimed_at
    /\ \A c \in Callers : pc[c] \in Dating => stamp[d] <= stamp[c]
    /\ (state = "Open" /\ \A c \in Callers : pc[c] \notin {"trip_stamp", "trip_opened"})
         => stamp[d] <= opened_at

\* Every claim is counted, and the count stays within the budget.
ClaimsCounted ==
  state = "HalfOpen" =>
    IsFiniteSet(Claims) /\ Cardinality(Claims) <= Held /\ Held <= MaxProbes

\* The budget is spent when a caller turns to the lease, and the lease that it
\* is about to take over has run out.
RefusedAtCap ==
  \A c \in Callers :
    /\ pc[c] \in {"probe_sub", "lease", "lease_cas"} => Held = MaxProbes
    /\ pc[c] = "lease_cas" => SaturatingSub(stamp[c], seen[c]) >= OpenDuration

ClaimInv == ClaimsDated /\ ClaimsCounted /\ RefusedAtCap

=============================================================================
