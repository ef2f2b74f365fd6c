------------------------ MODULE CircuitBreakerProofs ------------------------
(***************************************************************************)
(* Theorems about CircuitBreaker, for every number of callers and every    *)
(* configuration.  TypeOK, WindowSound, NeverHalfOpensClosed and           *)
(* LeaseTakenOnce hold under every interleaving; the properties of         *)
(* non-overlapping calls follow from the inductive invariant SerialInv,    *)
(* and the budget of probes from SerialInv and ClaimInv together.          *)
(***************************************************************************)
EXTENDS CircuitBreaker, SequenceTheorems, FunctionTheorems, FiniteSetTheorems, TLAPS

\* Pushing keeps a window of samples a window of samples.
LEMMA PushType ==
  ASSUME NEW w \in [entries : Seq(Sample), failures : Int],
         NEW f \in BOOLEAN, NEW at \in Time
  PROVE  /\ Push(w, f, at) \in [entries : Seq(Sample), failures : Int]
         /\ Len(Push(w, f, at).entries) \in Nat
<1> DEFINE x == [at |-> at, failure |-> f]
<1>1. x \in Sample
  BY DEF Sample
<1>2. CASE Len(w.entries) >= MaxWindowEntries
  <2>1. w.entries # << >>
    BY <1>2, ConfigAssumption
  <2>2. /\ Tail(w.entries) \in Seq(Sample)
        /\ Head(w.entries) \in Sample
    BY <2>1, HeadTailProperties
  <2>3. Append(Tail(w.entries), x) \in Seq(Sample)
    BY <1>1, <2>2
  <2>4. One(Head(w.entries).failure) \in Int /\ One(f) \in Int
    BY <2>2 DEF Sample, One
  <2> QED
    BY <1>2, <2>3, <2>4 DEF Push
<1>3. CASE ~(Len(w.entries) >= MaxWindowEntries)
  <2>1. Append(w.entries, x) \in Seq(Sample)
    BY <1>1
  <2> QED
    BY <1>3, <2>1 DEF Push, One
<1> QED
  BY <1>2, <1>3

\* The evicted positions are a finite set of positions.
LEMMA ExpiredFinite ==
  ASSUME NEW s \in Seq(Sample), NEW t \in Time
  PROVE  /\ IsFiniteSet(Expired(s, t))
         /\ Cardinality(Expired(s, t)) \in Nat
         /\ Cardinality(Expired(s, t)) <= Len(s)
         /\ Cardinality({i \in Expired(s, t) : s[i].failure}) \in Nat
<1>0. Len(s) \in Nat
  BY LenProperties
<1>1. IsFiniteSet(1 .. Len(s)) /\ Cardinality(1 .. Len(s)) = Len(s)
  BY <1>0, FS_Interval
<1>2. Expired(s, t) \in SUBSET (1 .. Len(s))
  BY DEF Expired
<1>3. IsFiniteSet(Expired(s, t)) /\ Cardinality(Expired(s, t)) <= Len(s)
  BY <1>1, <1>2, FS_Subset
<1>4. {i \in Expired(s, t) : s[i].failure} \in SUBSET Expired(s, t)
  OBVIOUS
<1>5. IsFiniteSet({i \in Expired(s, t) : s[i].failure})
  BY <1>3, <1>4, FS_Subset
<1> QED
  BY <1>3, <1>5, FS_CardinalityType

\* So does evicting.
LEMMA EvictType ==
  ASSUME NEW w \in [entries : Seq(Sample), failures : Int], NEW t \in Time
  PROVE  Evict(w, t) \in [entries : Seq(Sample), failures : Int]
<1> DEFINE n == Cardinality(Expired(w.entries, t))
           k == Cardinality({i \in Expired(w.entries, t) : w.entries[i].failure})
<1>1. n \in Nat /\ k \in Nat
  BY ExpiredFinite
<1>2. Len(w.entries) \in Nat
  BY LenProperties
<1>3. \A i \in n + 1 .. Len(w.entries) : w.entries[i] \in Sample
  BY <1>1, <1>2
<1>4. SubSeq(w.entries, n + 1, Len(w.entries)) \in Seq(Sample)
  <2> HIDE DEF n
  <2> QED
    BY <1>1, <1>2, <1>3, SubSeqProperties
<1>5. w.failures - k \in Int
  <2> HIDE DEF k
  <2> QED
    BY <1>1
<1> QED
  BY <1>4, <1>5 DEF Evict

-----------------------------------------------------------------------------
\* The window that record() leaves under the mutex is again a window.
LEMMA RecordedType ==
  ASSUME TypeOK, NEW c \in Callers
  PROVE  Recorded(c) \in [entries : Seq(Sample), failures : Int]
<1>1. LockedWindow \in [entries : Seq(Sample), failures : Int]
  BY DEF TypeOK, LockedWindow
<1>2. outcome[c] \in BOOLEAN /\ stamp[c] \in Time
  BY DEF TypeOK
<1> QED
  BY <1>1, <1>2, PushType, EvictType DEF Recorded

\* A call that returns leaves its caller's locals well typed.
LEMMA ReturnType ==
  ASSUME TypeOK, NEW c \in Callers, Return(c)
  PROVE  /\ pc' \in [Callers -> PC]
         /\ seen' \in [Callers -> Time]
         /\ stamp' \in [Callers -> Time]
         /\ outcome' \in [Callers -> BOOLEAN]
         /\ \A d \in Callers : stamp'[d] <= now
<1>1. 0 \in Time /\ now >= 0 /\ "idle" \in PC
  BY ConfigAssumption DEF Time, PC, Resting, TypeOK
<1>2. /\ pc' = [pc EXCEPT ![c] = "idle"]
      /\ seen' = [seen EXCEPT ![c] = 0]
      /\ stamp' = [stamp EXCEPT ![c] = 0]
      /\ outcome' = [outcome EXCEPT ![c] = FALSE]
  BY DEF Return, Goto
<1>3. pc' \in [Callers -> PC] /\ seen' \in [Callers -> Time]
  BY <1>1, <1>2 DEF TypeOK
<1>4. stamp' \in [Callers -> Time] /\ outcome' \in [Callers -> BOOLEAN]
  BY <1>1, <1>2 DEF TypeOK
<1>5. ASSUME NEW d \in Callers PROVE stamp'[d] <= now
  BY <1>1, <1>2 DEF TypeOK
<1> QED
  BY <1>3, <1>4, <1>5

\* Every action of a caller preserves the type invariant.
LEMMA CallerTypeOK ==
  ASSUME TypeOK, NEW c \in Callers, CallerStep(c)
  PROVE  TypeOK'
<1> USE ConfigAssumption DEF TypeOK, At, Goto, Return, window, locals, PC, Resting,
        InFlight, BreakerState, Time
<1>1. CASE Check(c)
  BY <1>1 DEF Check
<1>2. CASE CheckOpenLoad(c)
  BY <1>2 DEF CheckOpenLoad
<1>3. CASE CheckOpenCas(c)
  <2>1. CASE CooledDown(c)
    <3>1. seen' = [seen EXCEPT ![c] = 0] /\ stamp' = stamp /\ outcome' = outcome
      BY <1>3, <2>1 DEF CheckOpenCas
    <3>2. state' \in BreakerState /\ pc' \in [Callers -> PC]
      BY <1>3, <2>1 DEF CheckOpenCas
    <3>3. seen' \in [Callers -> Time]
      BY <3>1
    <3> QED
      BY <1>3, <3>1, <3>2, <3>3 DEF CheckOpenCas
  <2>2. CASE ~CooledDown(c)
    <3>1. Return(c)
      BY <1>3, <2>2 DEF CheckOpenCas
    <3> QED
      BY <1>3, <2>2, <3>1, ReturnType DEF CheckOpenCas
  <2> QED
    BY <2>1, <2>2
<1>4. CASE CheckOpenMirror(c)
  BY <1>4 DEF CheckOpenMirror
<1>5. CASE CheckOpenLost(c)
  BY <1>5 DEF CheckOpenLost
<1>6. CASE ProbeClock(c)
  BY <1>6 DEF ProbeClock
<1>7. CASE ProbeAdd(c)
  BY <1>7 DEF ProbeAdd, WrapInc
<1>8. CASE ProbeClaim(c)
  BY <1>8 DEF ProbeClaim
<1>9. CASE ProbeSub(c)
  BY <1>9 DEF ProbeSub, WrapDec
<1>10. CASE LeaseLoad(c)
  <2> DEFINE expired == SaturatingSub(stamp[c], probe_claimed_at) >= OpenDuration
  <2>1. CASE expired
    BY <1>10, <2>1 DEF LeaseLoad
  <2>2. CASE ~expired
    <3>1. Return(c)
      BY <1>10, <2>2 DEF LeaseLoad
    <3> QED
      BY <1>10, <2>2, <3>1, ReturnType DEF LeaseLoad
  <2> QED
    BY <2>1, <2>2
<1>11. CASE LeaseCas(c)
  <2>1. CASE probe_claimed_at = seen[c]
    <3>1. seen' = [seen EXCEPT ![c] = 0] /\ stamp' = stamp /\ outcome' = outcome
      BY <1>11, <2>1 DEF LeaseCas
    <3>2. probe_claimed_at' \in Time /\ probe_claimed_at' <= now
      BY <1>11, <2>1 DEF LeaseCas
    <3>3. pc' = [pc EXCEPT ![c] = "probing"]
      BY <1>11, <2>1 DEF LeaseCas
    <3>4. seen' \in [Callers -> Time] /\ pc' \in [Callers -> PC]
      BY <3>1, <3>3
    <3>5. /\ state' = state /\ opened_at' = opened_at /\ now' = now
          /\ half_open_probes' = half_open_probes /\ is_open_fast' = is_open_fast
          /\ entries' = entries /\ failures' = failures
      BY <1>11 DEF LeaseCas
    <3> QED
      BY <3>1, <3>2, <3>4, <3>5
  <2>2. CASE probe_claimed_at # seen[c]
    <3>1. Return(c)
      BY <1>11, <2>2 DEF LeaseCas
    <3> QED
      BY <1>11, <2>2, <3>1, ReturnType DEF LeaseCas
  <2> QED
    BY <2>1, <2>2
<1>12. CASE Abandon(c)
  <2>1. Return(c)
    BY <1>12 DEF Abandon
  <2> QED
    BY <1>12, <2>1, ReturnType DEF Abandon
<1>13. CASE TripState(c)
  BY <1>13 DEF TripState
<1>14. CASE TripStamp(c)
  BY <1>14 DEF TripStamp
<1>15. CASE TripOpened(c)
  BY <1>15 DEF TripOpened
<1>16. CASE TripProbes(c)
  BY <1>16 DEF TripProbes
<1>17. CASE TripMirror(c)
  <2>1. Return(c)
    BY <1>17 DEF TripMirror
  <2> QED
    BY <1>17, <2>1, ReturnType DEF TripMirror
<1>18. CASE CloseState(c)
  BY <1>18 DEF CloseState
<1>19. CASE CloseWindow(c)
  BY <1>19 DEF CloseWindow, SetWindow, ClearedWindow
<1>20. CASE CloseProbes(c)
  BY <1>20 DEF CloseProbes
<1>21. CASE CloseMirror(c)
  <2>1. Return(c)
    BY <1>21 DEF CloseMirror
  <2> QED
    BY <1>21, <2>1, ReturnType DEF CloseMirror
<1>22. CASE \E is_failure \in BOOLEAN : Record(c, is_failure)
  <2>1. PICK f \in BOOLEAN : Record(c, f)
    BY <1>22
  <2>2. /\ outcome' = [outcome EXCEPT ![c] = f]
        /\ stamp' = [stamp EXCEPT ![c] = now]
        /\ seen' = seen /\ now' = now
    BY <2>1 DEF Record
  <2>3. outcome' \in [Callers -> BOOLEAN]
    BY <2>2 DEF TypeOK
  <2>4. stamp' \in [Callers -> Time] /\ \A d \in Callers : stamp'[d] <= now'
    BY <2>2 DEF TypeOK
  <2>5. pc' \in [Callers -> PC]
    BY <2>1 DEF Record
  <2> QED
    BY <2>1, <2>2, <2>3, <2>4, <2>5 DEF Record
<1>23. CASE PushClosed(c)
  <2>1. Recorded(c) \in [entries : Seq(Sample), failures : Int]
    BY RecordedType
  <2>2. entries' \in Seq(Sample) /\ failures' \in Int
    BY <1>23, <2>1 DEF PushClosed, SetWindow
  <2>3. CASE ShouldTrip(Recorded(c))
    BY <1>23, <2>2, <2>3 DEF PushClosed
  <2>4. CASE ~ShouldTrip(Recorded(c))
    <3>1. Return(c)
      BY <1>23, <2>4 DEF PushClosed
    <3> QED
      BY <1>23, <2>2, <3>1, ReturnType DEF PushClosed
  <2> QED
    BY <2>3, <2>4
<1>24. CASE PushOpen(c)
  <2>1. Recorded(c) \in [entries : Seq(Sample), failures : Int]
    BY RecordedType
  <2>2. entries' \in Seq(Sample) /\ failures' \in Int
    BY <1>24, <2>1 DEF PushOpen, SetWindow
  <2>3. Return(c)
    BY <1>24 DEF PushOpen
  <2> QED
    BY <1>24, <2>2, <2>3, ReturnType DEF PushOpen
<1> QED
  BY <1>1, <1>2, <1>3, <1>4, <1>5, <1>6, <1>7, <1>8, <1>9, <1>10, <1>11, <1>12, <1>13, <1>14, <1>15, <1>16, <1>17, <1>18, <1>19, <1>20, <1>21, <1>22, <1>23, <1>24
     DEF CallerStep, CallSteps, CheckSteps, RecordSteps

\* So do the clock and a reader of the error rate.
LEMMA NextTypeOK == TypeOK /\ [Next]_vars => TypeOK'
<1> SUFFICES ASSUME TypeOK, [Next]_vars PROVE TypeOK'
  OBVIOUS
<1>1. CASE \E c \in Callers : CallerStep(c)
  BY <1>1, CallerTypeOK
<1>2. CASE ErrorRate
  <2>1. LockedWindow \in [entries : Seq(Sample), failures : Int] /\ now \in Time
    BY DEF TypeOK, LockedWindow
  <2>2. Evict(LockedWindow, now) \in [entries : Seq(Sample), failures : Int]
    BY <2>1, EvictType
  <2>3. entries' \in Seq(Sample) /\ failures' \in Int
    BY <1>2, <2>2 DEF ErrorRate, SetWindow
  <2> QED
    BY <1>2, <2>3 DEF ErrorRate, TypeOK, locals
<1>3. CASE Tick
  BY <1>3, ConfigAssumption DEF Tick, TypeOK, Time, window, locals
<1>4. CASE UNCHANGED vars
  BY <1>4 DEF vars, TypeOK
<1> QED
  BY <1>1, <1>2, <1>3, <1>4 DEF Next

LEMMA InitTypeOK == Init => TypeOK
<1> SUFFICES ASSUME Init PROVE TypeOK
  OBVIOUS
<1> USE DEF Init
<1>1. 0 \in Time /\ "idle" \in PC
  BY ConfigAssumption DEF Time, PC, Resting
<1>2. entries \in Seq(Sample) /\ failures \in Int
  BY EmptySeq DEF ClearedWindow
<1>3. outcome \in [Callers -> BOOLEAN]
  OBVIOUS
<1>4. pc \in [Callers -> PC] /\ seen \in [Callers -> Time] /\ stamp \in [Callers -> Time]
  BY <1>1
<1>5. half_open_probes \in 0 .. UsizeModulus - 1
  BY ConfigAssumption
<1>6. \A c \in Callers : stamp[c] <= now
  OBVIOUS
<1>7. is_open_fast \in BOOLEAN /\ state \in BreakerState
  BY DEF BreakerState
<1> QED
  BY <1>1, <1>2, <1>3, <1>4, <1>5, <1>6, <1>7 DEF TypeOK

\* Under every interleaving the variables keep their types: the probe counter
\* stays a machine word and no stamp the callers store lies in the future.
THEOREM TypeCorrect == Spec => []TypeOK
<1> QED
  BY InitTypeOK, NextTypeOK, PTL DEF Spec

\* check_open is the only way to HalfOpen, and its CAS starts from Open: no
\* interleaving half-opens a breaker that some caller has just closed.
THEOREM NeverHalfOpensClosedCorrect == Spec => NeverHalfOpensClosed
<1>1. ASSUME state \in BreakerState, [Next]_vars PROVE state = "Closed" => state' # "HalfOpen"
  <2>1. CASE \E c \in Callers : CallerStep(c)
    BY <2>1
       DEF CallerStep, CallSteps, CheckSteps, RecordSteps, Check, CheckOpenLoad,
           CheckOpenCas, CheckOpenMirror, CheckOpenLost, ProbeClock, ProbeAdd, ProbeClaim,
           ProbeSub, LeaseLoad, LeaseCas, Abandon, PushClosed, PushOpen, TripState,
           TripStamp, TripOpened, TripProbes, TripMirror, CloseState, CloseWindow,
           CloseProbes, CloseMirror, Record
  <2>2. CASE ErrorRate \/ Tick \/ UNCHANGED vars
    BY <2>2 DEF ErrorRate, Tick, vars
  <2> QED
    BY <1>1, <2>1, <2>2 DEF Next
<1>2. TypeOK => state \in BreakerState
  BY DEF TypeOK
<1> QED
  BY <1>1, <1>2, TypeCorrect, PTL DEF Spec, NeverHalfOpensClosed

-----------------------------------------------------------------------------
(* The counter of the sliding window.                                       *)

\* The positions of the failed samples.
FailedAt(s) == {i \in DOMAIN s : s[i].failure}

LEMMA NoneFailed == FailedAt(<< >>) = {} /\ Cardinality(FailedAt(<< >>)) = 0
<1>1. FailedAt(<< >>) = {}
  BY DEF FailedAt
<1> QED
  BY <1>1, FS_EmptySet

LEMMA FailedFinite ==
  ASSUME NEW s \in Seq(Sample)
  PROVE  /\ IsFiniteSet(FailedAt(s)) /\ Cardinality(FailedAt(s)) \in Nat
         /\ FailedAt(s) \in SUBSET (1 .. Len(s)) /\ Len(s) \in Nat
<1>1. Len(s) \in Nat /\ DOMAIN s = 1 .. Len(s)
  BY LenProperties
<1>2. FailedAt(s) \in SUBSET (1 .. Len(s))
  BY <1>1 DEF FailedAt
<1>3. IsFiniteSet(1 .. Len(s))
  BY <1>1, FS_Interval
<1> QED
  BY <1>1, <1>2, <1>3, FS_Subset, FS_CardinalityType

\* Appending a sample adds it to the count if it failed.
LEMMA AppendCount ==
  ASSUME NEW s \in Seq(Sample), NEW x \in Sample
  PROVE  Cardinality(FailedAt(Append(s, x))) = Cardinality(FailedAt(s)) + One(x.failure)
<1> DEFINE r == Append(s, x)
           k == Len(s) + 1
<1>1. Len(s) \in Nat /\ DOMAIN s = 1 .. Len(s)
  BY LenProperties
<1>2. r \in Seq(Sample) /\ Len(r) = k /\ (\A i \in 1 .. Len(s) : r[i] = s[i]) /\ r[k] = x
  BY AppendProperties
<1>3. DOMAIN r = 1 .. k
  BY <1>2, LenProperties
<1> HIDE DEF r
<1>4. IsFiniteSet(FailedAt(s)) /\ k \notin FailedAt(s) /\ Cardinality(FailedAt(s)) \in Nat
  BY <1>1, FailedFinite
<1>5. CASE x.failure
  <2>1. FailedAt(r) = FailedAt(s) \union {k}
    BY <1>1, <1>2, <1>3, <1>5 DEF FailedAt
  <2> QED
    BY <1>4, <1>5, <2>1, FS_AddElement DEF One, r
<1>6. CASE ~x.failure
  <2>1. FailedAt(r) = FailedAt(s)
    BY <1>1, <1>2, <1>3, <1>6 DEF FailedAt
  <2> QED
    BY <1>4, <1>6, <2>1 DEF One, r
<1> QED
  BY <1>5, <1>6

\* Dropping the first n samples takes the failed ones among them off the count.
LEMMA DropCount ==
  ASSUME NEW s \in Seq(Sample), NEW r \in Seq(Sample), NEW n \in Nat,
         Len(s) = Len(r) + n, \A i \in 1 .. Len(r) : r[i] = s[i + n]
  PROVE  Cardinality(FailedAt(r))
           = Cardinality(FailedAt(s)) - Cardinality({i \in 1 .. n : s[i].failure})
<1> DEFINE old  == {i \in 1 .. n : s[i].failure}
           kept == FailedAt(s) \ old
           f    == [i \in FailedAt(r) |-> i + n]
<1>1. /\ Len(s) \in Nat /\ DOMAIN s = 1 .. Len(s)
      /\ Len(r) \in Nat /\ DOMAIN r = 1 .. Len(r)
  BY LenProperties
<1>2. FailedAt(s) \cap old = old
  BY <1>1 DEF FailedAt
<1>3. IsFiniteSet(kept) /\ Cardinality(kept) = Cardinality(FailedAt(s)) - Cardinality(old)
  <2>1. IsFiniteSet(FailedAt(s))
    BY FailedFinite
  <2> HIDE DEF old
  <2>2. /\ IsFiniteSet(FailedAt(s) \ old)
        /\ Cardinality(FailedAt(s) \ old)
             = Cardinality(FailedAt(s)) - Cardinality(FailedAt(s) \cap old)
    BY <2>1, FS_Difference
  <2> QED
    BY <1>2, <2>2
<1>4. f \in Bijection(FailedAt(r), kept)
  <2>1. \A i \in FailedAt(r) : i \in Nat /\ i + n \in kept
    BY <1>1 DEF FailedAt
  <2>2. f \in [FailedAt(r) -> kept]
    BY <2>1
  <2>3. \A i, j \in FailedAt(r) : f[i] = f[j] => i = j
    BY <2>1
  <2>4. \A k \in kept : \E i \in FailedAt(r) : f[i] = k
    <3> SUFFICES ASSUME NEW k \in kept PROVE \E i \in FailedAt(r) : f[i] = k
      OBVIOUS
    <3>1. k \in n + 1 .. Len(s) /\ s[k].failure
      BY <1>1 DEF FailedAt
    <3>2. k - n \in 1 .. Len(r) /\ r[k - n] = s[k]
      BY <1>1, <3>1
    <3>3. k - n \in FailedAt(r)
      BY <1>1, <3>1, <3>2 DEF FailedAt
    <3>4. f[k - n] = k
      BY <3>1, <3>3
    <3> QED
      BY <3>3, <3>4
  <2> QED
    BY <2>2, <2>3, <2>4, Fun_IsBij
<1>5. ExistsBijection(FailedAt(r), kept)
  BY <1>4, Fun_ExistsBij
<1>6. IsFiniteSet(FailedAt(r))
  BY FailedFinite
<1>7. Cardinality(kept) = Cardinality(FailedAt(r))
  BY <1>5, <1>6, FS_Bijection
<1> QED
  BY <1>3, <1>7

\* Of the naturals in a set that is not empty, one is the smallest.
LEMMA SmallestNat ==
  ASSUME NEW S \in SUBSET Nat, S # {}
  PROVE  \E n \in S : \A m \in S : n <= m
<1>1. PICK n \in S : \A m \in S : ~(<<m, n>> \in OpToRel(<, Nat))
  BY NatLessThanWellFounded, WFMin
<1>2. \A m \in S : ~(m < n)
  BY <1>1 DEF OpToRel
<1>3. \A m \in S : m \in Nat
  OBVIOUS
<1> QED
  BY <1>2, <1>3

\* The expired positions are the first ones: eviction pops a prefix.
LEMMA ExpiredPrefix ==
  ASSUME NEW s \in Seq(Sample), NEW t \in Time
  PROVE  Expired(s, t) = 1 .. Cardinality(Expired(s, t))
<1> DEFINE live == {i \in 1 .. Len(s) : i \notin Expired(s, t)}
<1>1. Len(s) \in Nat
  BY LenProperties
<1>2. CASE live = {}
  <2>1. Expired(s, t) = 1 .. Len(s)
    BY <1>2 DEF Expired
  <2> QED
    BY <1>1, <2>1, FS_Interval
<1>3. CASE live # {}
  <2>1. PICK n \in live : \A m \in live : n <= m
    <3>1. live \in SUBSET Nat
      BY <1>1
    <3> QED
      BY <1>3, <3>1, SmallestNat
  <2>2. \A i \in 1 .. Len(s) : \A j \in 1 .. i :
          i \in Expired(s, t) => j \in Expired(s, t)
    BY <1>1 DEF Expired
  <2>3. Expired(s, t) \subseteq 1 .. Len(s)
    BY DEF Expired
  <2>4. n \in 1 .. Len(s) /\ n \notin Expired(s, t)
    BY <2>1
  <2>5. \A i \in 1 .. n - 1 : i \in Expired(s, t)
    BY <1>1, <2>1, <2>4
  <2>6. \A i \in Expired(s, t) : i < n
    BY <1>1, <2>2, <2>3, <2>4
  <2>7. Expired(s, t) = 1 .. n - 1
    <3>1. n \in Nat /\ \A i \in Expired(s, t) : i \in Nat /\ i >= 1 /\ i < n
      BY <1>1, <2>3, <2>4, <2>6
    <3>2. \A i \in Expired(s, t) : i \in 1 .. n - 1
      BY <3>1
    <3> QED
      BY <2>5, <3>2
  <2>8. Cardinality(1 .. n - 1) = n - 1
    BY <1>1, <2>4, FS_Interval
  <2> QED
    BY <2>7, <2>8
<1> QED
  BY <1>2, <1>3

\* A window within its cap whose counter is right.
SoundWindow(w) ==
  /\ Len(w.entries) <= MaxWindowEntries
  /\ w.failures = Cardinality(FailedAt(w.entries))

LEMMA PushSound ==
  ASSUME NEW w \in [entries : Seq(Sample), failures : Int], SoundWindow(w),
         NEW f \in BOOLEAN, NEW at \in Time
  PROVE  SoundWindow(Push(w, f, at))
<1> DEFINE x == [at |-> at, failure |-> f]
           s == w.entries
<1>1. x \in Sample /\ x.failure = f
  BY DEF Sample
<1>2. Len(s) \in Nat /\ Cardinality(FailedAt(s)) \in Nat /\ One(f) \in Int
  BY FailedFinite DEF One
<1>3. CASE Len(s) >= MaxWindowEntries
  <2>1. s # << >>
    BY <1>3, ConfigAssumption
  <2>2. /\ Tail(s) \in Seq(Sample) /\ Len(Tail(s)) = Len(s) - 1
        /\ \A i \in 1 .. Len(Tail(s)) : Tail(s)[i] = s[i + 1]
    BY <2>1, HeadTailProperties
  <2>3. Cardinality(FailedAt(Tail(s)))
          = Cardinality(FailedAt(s)) - Cardinality({i \in 1 .. 1 : s[i].failure})
    <3>1. Len(s) = Len(Tail(s)) + 1
      BY <1>2, <2>2
    <3> QED
      BY <2>2, <3>1, DropCount
  <2>4. Cardinality({i \in 1 .. 1 : s[i].failure}) = One(Head(s).failure)
    <3>1. Head(s) = s[1]
      BY <2>1
    <3>2. CASE s[1].failure
      <4>1. {i \in 1 .. 1 : s[i].failure} = {1}
        BY <3>2
      <4> QED
        BY <3>1, <3>2, <4>1, FS_Singleton DEF One
    <3>3. CASE ~s[1].failure
      <4>1. {i \in 1 .. 1 : s[i].failure} = {}
        BY <3>3
      <4> QED
        BY <3>1, <3>3, <4>1, FS_EmptySet DEF One
    <3> QED
      BY <3>2, <3>3
  <2>5. Cardinality(FailedAt(Append(Tail(s), x)))
          = Cardinality(FailedAt(Tail(s))) + One(f)
    BY <1>1, <2>2, AppendCount
  <2>6. Len(Append(Tail(s), x)) = Len(s)
    BY <1>1, <1>2, <2>2, AppendProperties
  <2>7. /\ Push(w, f, at).entries = Append(Tail(s), x)
        /\ Push(w, f, at).failures = w.failures - One(Head(s).failure) + One(f)
    BY <1>3 DEF Push
  <2> QED
    BY <2>3, <2>4, <2>5, <2>6, <2>7 DEF SoundWindow
<1>4. CASE ~(Len(s) >= MaxWindowEntries)
  <2>1. Cardinality(FailedAt(Append(s, x))) = Cardinality(FailedAt(s)) + One(f)
    BY <1>1, AppendCount
  <2>2. Len(Append(s, x)) = Len(s) + 1
    BY <1>1, AppendProperties
  <2>3. /\ Push(w, f, at).entries = Append(s, x)
        /\ Push(w, f, at).failures = w.failures - 0 + One(f)
    BY <1>4 DEF Push
  <2> QED
    BY <1>2, <1>4, <2>1, <2>2, <2>3, ConfigAssumption DEF SoundWindow
<1> QED
  BY <1>3, <1>4

LEMMA EvictSound ==
  ASSUME NEW w \in [entries : Seq(Sample), failures : Int], SoundWindow(w),
         NEW t \in Time
  PROVE  SoundWindow(Evict(w, t))
<1> DEFINE s == w.entries
           n == Cardinality(Expired(s, t))
           r == SubSeq(s, n + 1, Len(s))
<1>1. Len(s) \in Nat /\ n \in Nat /\ n <= Len(s)
  BY ExpiredFinite, LenProperties
<1>2. Expired(s, t) = 1 .. n
  BY ExpiredPrefix
<1>3. /\ r \in Seq(Sample) /\ Len(s) = Len(r) + n
      /\ \A i \in 1 .. Len(r) : r[i] = s[i + n]
  <2> HIDE DEF n
  <2>1. \A i \in n + 1 .. Len(s) : s[i] \in Sample
    BY <1>1
  <2>2. /\ r \in Seq(Sample)
        /\ Len(r) = IF n + 1 <= Len(s) THEN Len(s) - (n + 1) + 1 ELSE 0
        /\ \A i \in 1 .. Len(s) - (n + 1) + 1 : r[i] = s[(n + 1) + i - 1]
    BY <1>1, <2>1, SubSeqProperties
  <2> HIDE DEF r
  <2>3. Len(r) = Len(s) - n
    BY <1>1, <2>2
  <2>4. \A i \in 1 .. Len(r) : r[i] = s[i + n]
    BY <1>1, <2>2, <2>3
  <2> QED
    BY <1>1, <2>2, <2>3, <2>4
<1>4. Cardinality(FailedAt(r))
        = Cardinality(FailedAt(s)) - Cardinality({i \in 1 .. n : s[i].failure})
  <2> HIDE DEF r, n
  <2> QED
    BY <1>1, <1>3, DropCount
<1>5. /\ Evict(w, t).entries = r
      /\ Evict(w, t).failures = w.failures - Cardinality({i \in 1 .. n : s[i].failure})
  BY <1>2 DEF Evict
<1>6. Len(r) <= MaxWindowEntries
  <2> HIDE DEF r, n
  <2> QED
    BY <1>1, <1>3, LenProperties, ConfigAssumption DEF SoundWindow
<1> QED
  BY <1>4, <1>5, <1>6 DEF SoundWindow

\* Every critical section of the window mutex leaves a sound window.
LEMMA WindowStep == TypeOK /\ WindowSound /\ [Next]_vars => WindowSound'
<1> SUFFICES ASSUME TypeOK, WindowSound, [Next]_vars PROVE WindowSound'
  OBVIOUS
<1>1. /\ LockedWindow \in [entries : Seq(Sample), failures : Int]
      /\ SoundWindow(LockedWindow)
  BY DEF TypeOK, LockedWindow, WindowSound, SoundWindow, FailedAt
<1>2. \A w : SetWindow(w) /\ SoundWindow(w) => WindowSound'
  BY DEF SetWindow, SoundWindow, WindowSound, FailedAt
<1>3. ASSUME NEW c \in Callers PROVE SoundWindow(Recorded(c))
  <2>1. outcome[c] \in BOOLEAN /\ stamp[c] \in Time
    BY DEF TypeOK
  <2>2. /\ Push(LockedWindow, outcome[c], stamp[c]) \in [entries : Seq(Sample), failures : Int]
        /\ SoundWindow(Push(LockedWindow, outcome[c], stamp[c]))
    BY <1>1, <2>1, PushType, PushSound
  <2> QED
    BY <2>1, <2>2, EvictSound DEF Recorded
<1>4. SoundWindow(ClearedWindow)
  <2>1. << >> \in Seq(Sample) /\ Len(<< >>) = 0
    BY EmptySeq
  <2> QED
    BY <2>1, NoneFailed, ConfigAssumption DEF SoundWindow, ClearedWindow
<1>5. CASE \E c \in Callers : PushClosed(c) \/ PushOpen(c)
  BY <1>2, <1>3, <1>5 DEF PushClosed, PushOpen
<1>6. CASE \E c \in Callers : CloseWindow(c)
  BY <1>2, <1>4, <1>6 DEF CloseWindow
<1>7. CASE ErrorRate
  <2>1. SoundWindow(Evict(LockedWindow, now))
    BY <1>1, EvictSound DEF TypeOK
  <2> QED
    BY <1>2, <1>7, <2>1 DEF ErrorRate
<1>8. ASSUME UNCHANGED window PROVE WindowSound'
  BY <1>8 DEF window, WindowSound
<1>9. CASE Tick \/ UNCHANGED vars
  BY <1>8, <1>9 DEF Tick, vars, window
<1>10. CASE \E c \in Callers : CallerStep(c) /\ ~(PushClosed(c) \/ PushOpen(c) \/ CloseWindow(c))
  <2>1. UNCHANGED window
    BY <1>10
       DEF window, CallerStep, CallSteps, CheckSteps, RecordSteps, Check, CheckOpenLoad,
           CheckOpenCas, CheckOpenMirror, CheckOpenLost, ProbeClock, ProbeAdd, ProbeClaim,
           ProbeSub, LeaseLoad, LeaseCas, Abandon, TripState, TripStamp, TripOpened,
           TripProbes, TripMirror, CloseState, CloseProbes, CloseMirror, Record
  <2> QED
    BY <1>8, <2>1
<1> QED
  BY <1>5, <1>6, <1>7, <1>9, <1>10 DEF Next

\* Under every interleaving, and for every cap and window length, the incremental
\* counter of SlidingWindow equals the number of failed samples it holds, and the
\* window never outgrows MAX_WINDOW_ENTRIES.
THEOREM WindowCorrect == Spec => []WindowSound
<1>1. Init => WindowSound
  <2> SUFFICES ASSUME Init PROVE WindowSound
    OBVIOUS
  <2>1. << >> \in Seq(Sample) /\ Len(<< >>) = 0
    BY EmptySeq
  <2> QED
    BY <2>1, NoneFailed, ConfigAssumption DEF Init, ClearedWindow, WindowSound, FailedAt
<1> QED
  BY <1>1, WindowStep, TypeCorrect, PTL DEF Spec

-----------------------------------------------------------------------------
\* A caller's step moves no other caller.
LEMMA CallerFrame ==
  ASSUME TypeOK, NEW c \in Callers, CallerStep(c)
  PROVE  \A d \in Callers \ {c} : pc'[d] = pc[d]
<1> USE DEF TypeOK, Goto, Return
<1>1. CASE Check(c)
  BY <1>1 DEF Check
<1>2. CASE CheckOpenLoad(c)
  BY <1>2 DEF CheckOpenLoad
<1>3. CASE CheckOpenCas(c)
  BY <1>3 DEF CheckOpenCas
<1>4. CASE CheckOpenMirror(c)
  BY <1>4 DEF CheckOpenMirror
<1>5. CASE CheckOpenLost(c)
  BY <1>5 DEF CheckOpenLost
<1>6. CASE ProbeClock(c)
  BY <1>6 DEF ProbeClock
<1>7. CASE ProbeAdd(c)
  BY <1>7 DEF ProbeAdd
<1>8. CASE ProbeClaim(c)
  BY <1>8 DEF ProbeClaim
<1>9. CASE ProbeSub(c)
  BY <1>9 DEF ProbeSub
<1>10. CASE LeaseLoad(c)
  BY <1>10 DEF LeaseLoad
<1>11. CASE LeaseCas(c)
  BY <1>11 DEF LeaseCas
<1>12. CASE Abandon(c)
  BY <1>12 DEF Abandon
<1>13. CASE PushClosed(c)
  BY <1>13 DEF PushClosed
<1>14. CASE PushOpen(c)
  BY <1>14 DEF PushOpen
<1>15. CASE TripState(c)
  BY <1>15 DEF TripState
<1>16. CASE TripStamp(c)
  BY <1>16 DEF TripStamp
<1>17. CASE TripOpened(c)
  BY <1>17 DEF TripOpened
<1>18. CASE TripProbes(c)
  BY <1>18 DEF TripProbes
<1>19. CASE TripMirror(c)
  BY <1>19 DEF TripMirror
<1>20. CASE CloseState(c)
  BY <1>20 DEF CloseState
<1>21. CASE CloseWindow(c)
  BY <1>21 DEF CloseWindow
<1>22. CASE CloseProbes(c)
  BY <1>22 DEF CloseProbes
<1>23. CASE CloseMirror(c)
  BY <1>23 DEF CloseMirror
<1>24. CASE \E f \in BOOLEAN : Record(c, f)
  BY <1>24 DEF Record
<1> QED
  BY <1>1, <1>2, <1>3, <1>4, <1>5, <1>6, <1>7, <1>8, <1>9, <1>10, <1>11, <1>12, <1>13, <1>14, <1>15, <1>16, <1>17, <1>18, <1>19, <1>20, <1>21, <1>22, <1>23, <1>24
     DEF CallerStep, CallSteps, CheckSteps, RecordSteps

\* What has to be shown of the one caller that moved: the strengthening, with
\* the quantifiers over callers taken away.
Moved(l, seen_c) ==
  /\ l # "open_lost"
  /\ l \in {"check_open", "open_cas"} => state = "Open"
  /\ l = "open_cas" => seen_c = opened_at
  /\ l \in ProbePath \union {"close_state"} => state = "HalfOpen"
  /\ l \in TripTail => state = "Open"
  /\ l \in CloseTail => state = "Closed"
  /\ l \notin {"open_mirror"} \union TripTail \union CloseTail
       => (is_open_fast <=> state = "Open")
  /\ (state = "Open" /\ half_open_probes # 0) => l \in TripTail \ {"trip_mirror"}
  /\ CoolDownRespected

LEMMA SerialCallerStep ==
  ASSUME SerialInv, NEW c \in Callers, Alone(c), CallerStep(c)
  PROVE  SerialInv'
<1> USE DEF Resting, InFlight, TripTail, CloseTail, ProbePath
<1>1. TypeOK /\ TypeOK'
  BY CallerTypeOK DEF SerialInv
<1>2. \A d \in Callers \ {c} : pc[d] \in Resting /\ pc'[d] = pc[d]
  BY <1>1, CallerFrame DEF Alone
<1>3. Moved(pc[c], seen[c])
  <2>1. /\ pc[c] \notin {"open_mirror"} \union TripTail \union CloseTail
             => (is_open_fast <=> state = "Open")
    BY <1>2 DEF SerialInv, MirrorLag
  <2>2. (state = "Open" /\ half_open_probes # 0) => pc[c] \in TripTail \ {"trip_mirror"}
    BY <1>2 DEF SerialInv, SlotsWhileOpen
  <2> QED
    BY <2>1, <2>2 DEF SerialInv, ReadingsHold, Moved
<1>4. SUFFICES Moved(pc[c], seen[c])'
  <2> SUFFICES ASSUME Moved(pc[c], seen[c])' PROVE SerialInv'
    OBVIOUS
  <2>1. OneCall'
    BY <1>2 DEF OneCall
  <2>2. ReadingsHold'
    BY <1>2 DEF ReadingsHold, Moved
  <2>3. MirrorLag'
    BY <1>2 DEF MirrorLag, Moved
  <2>4. SlotsWhileOpen'
    BY <1>2 DEF SlotsWhileOpen, Moved
  <2> QED
    BY <1>1, <2>1, <2>2, <2>3, <2>4 DEF SerialInv, Moved
<1>5. TypeOK /\ TypeOK' /\ Moved(pc[c], seen[c])
  BY <1>1, <1>3
<1> USE ConfigAssumption, <1>5 DEF TypeOK, Moved, CoolDownRespected, At, Goto, window, locals,
        Time, BreakerState
<1>6. CASE Check(c)
  BY <1>6 DEF Check
<1>7. CASE CheckOpenLoad(c)
  BY <1>7 DEF CheckOpenLoad
<1>8. CASE CheckOpenCas(c)
  BY <1>8 DEF CheckOpenCas, Return, CooledDown, SaturatingSub
<1>9. CASE CheckOpenMirror(c)
  BY <1>9 DEF CheckOpenMirror
<1>10. CASE CheckOpenLost(c)
  BY <1>10 DEF CheckOpenLost
<1>11. CASE ProbeClock(c)
  BY <1>11 DEF ProbeClock
<1>12. CASE ProbeAdd(c)
  BY <1>12 DEF ProbeAdd
<1>13. CASE ProbeClaim(c)
  BY <1>13 DEF ProbeClaim
<1>14. CASE ProbeSub(c)
  BY <1>14 DEF ProbeSub
<1>15. CASE LeaseLoad(c)
  BY <1>15 DEF LeaseLoad, Return
<1>16. CASE LeaseCas(c)
  BY <1>16 DEF LeaseCas, Return
<1>17. CASE Abandon(c)
  BY <1>17 DEF Abandon, Return
<1>18. CASE PushClosed(c)
  BY <1>18 DEF PushClosed, Return
<1>19. CASE PushOpen(c)
  BY <1>19 DEF PushOpen, Return
<1>20. CASE TripState(c)
  BY <1>20 DEF TripState
<1>21. CASE TripStamp(c)
  BY <1>21 DEF TripStamp
<1>22. CASE TripOpened(c)
  BY <1>22 DEF TripOpened
<1>23. CASE TripProbes(c)
  BY <1>23 DEF TripProbes
<1>24. CASE TripMirror(c)
  BY <1>24 DEF TripMirror, Return
<1>25. CASE CloseState(c)
  BY <1>25 DEF CloseState
<1>26. CASE CloseWindow(c)
  BY <1>26 DEF CloseWindow
<1>27. CASE CloseProbes(c)
  BY <1>27 DEF CloseProbes
<1>28. CASE CloseMirror(c)
  BY <1>28 DEF CloseMirror, Return
<1>29. CASE \E f \in BOOLEAN : Record(c, f)
  <2>1. PICK f \in BOOLEAN : Record(c, f)
    BY <1>29
  <2>2. pc[c] \in InFlight
    BY <2>1 DEF Record
  <2>3. /\ state' = state /\ opened_at' = opened_at /\ now' = now /\ seen' = seen
        /\ is_open_fast' = is_open_fast /\ half_open_probes' = half_open_probes
    BY <2>1 DEF Record
  <2>4. \/ pc'[c] = "push_closed" \/ pc'[c] = "push_open" \/ pc'[c] = "trip_state"
        \/ pc'[c] = "close_state" /\ state = "HalfOpen"
    BY <2>1 DEF Record
  <2> QED
    BY <2>2, <2>3, <2>4
<1> QED
  BY <1>6, <1>7, <1>8, <1>9, <1>10, <1>11, <1>12, <1>13, <1>14, <1>15, <1>16, <1>17, <1>18, <1>19, <1>20, <1>21, <1>22, <1>23, <1>24, <1>25, <1>26, <1>27, <1>28, <1>29
     DEF CallerStep, CallSteps, CheckSteps, RecordSteps

\* Time passing keeps a cool-down elapsed.
LEMMA LaterStillElapsed ==
  ASSUME NEW a \in Int, NEW b \in Int, NEW t \in Int, NEW d \in Int,
         b >= a, a - t >= d
  PROVE  b - t >= d
  OBVIOUS

\* Calls that do not overlap keep the strengthening.
LEMMA SerialStep == SerialInv /\ [SerialNext]_vars => SerialInv'
<1> SUFFICES ASSUME SerialInv, [SerialNext]_vars PROVE SerialInv'
  OBVIOUS
<1>1. CASE \E c \in Callers : Alone(c) /\ CallerStep(c)
  BY <1>1, SerialCallerStep
<1>2. CASE ErrorRate \/ Tick \/ UNCHANGED vars
  <2>1. TypeOK'
    BY <1>2, NextTypeOK DEF SerialInv, Next
  <2>2. /\ state' = state /\ opened_at' = opened_at /\ pc' = pc /\ seen' = seen
        /\ is_open_fast' = is_open_fast /\ half_open_probes' = half_open_probes
    BY <1>2 DEF ErrorRate, Tick, vars, locals
  <2>3. now' >= now
    BY <1>2 DEF ErrorRate, Tick, vars, SerialInv, TypeOK, Time
  <2>4. OneCall' /\ ReadingsHold' /\ MirrorLag' /\ SlotsWhileOpen'
    <3>1. OneCall'
      BY <2>2 DEF SerialInv, OneCall
    <3>2. ReadingsHold'
      BY <2>2 DEF SerialInv, ReadingsHold
    <3>3. MirrorLag'
      BY <2>2 DEF SerialInv, MirrorLag
    <3>4. SlotsWhileOpen'
      BY <2>2 DEF SerialInv, SlotsWhileOpen
    <3> QED
      BY <3>1, <3>2, <3>3, <3>4
  <2>5. CoolDownRespected'
    <3>1. now \in Int /\ now' \in Int /\ opened_at \in Int
      BY <2>1, ConfigAssumption DEF SerialInv, TypeOK, Time
    <3>2. state = "HalfOpen" => now - opened_at >= OpenDuration
      BY DEF SerialInv, CoolDownRespected
    <3>3. state' = state /\ opened_at' = opened_at
      BY <2>2
    <3> SUFFICES ASSUME state' = "HalfOpen" PROVE now' - opened_at' >= OpenDuration
      BY DEF CoolDownRespected
    <3>4. now - opened_at >= OpenDuration
      BY <3>2, <3>3
    <3>5. OpenDuration \in Int
      BY ConfigAssumption
    <3>6. now' - opened_at >= OpenDuration
      BY <2>3, <3>1, <3>4, <3>5, LaterStillElapsed
    <3> QED
      BY <3>3, <3>6
  <2> QED
    BY <2>1, <2>4, <2>5 DEF SerialInv
<1> QED
  BY <1>1, <1>2 DEF SerialNext

LEMMA SerialInit == Init => SerialInv
<1> SUFFICES ASSUME Init PROVE SerialInv
  OBVIOUS
<1>1. TypeOK
  BY InitTypeOK
<1>2. \A c \in Callers : pc[c] = "idle"
  BY DEF Init
<1>3. OneCall /\ ReadingsHold /\ MirrorLag /\ SlotsWhileOpen /\ CoolDownRespected
  BY <1>2 DEF Init, OneCall, ReadingsHold, MirrorLag, SlotsWhileOpen, CoolDownRespected,
              Resting, TripTail, CloseTail, ProbePath
<1> QED
  BY <1>1, <1>3 DEF SerialInv

LEMMA SerialInvariant == SerialSpec => []SerialInv
  BY SerialInit, SerialStep, PTL DEF SerialSpec

\* With calls that do not overlap, is_open() agrees with the state whenever no
\* call is in progress (the comment on is_open_fast).
THEOREM MirrorCorrect == SerialSpec => []MirrorAgrees
<1>1. SerialInv => MirrorAgrees
  BY DEF SerialInv, MirrorLag, MirrorAgrees, Quiescent, Resting, InFlight, TripTail, CloseTail
<1> QED
  BY <1>1, SerialInvariant, PTL

\* ... HalfOpen is reached only a whole open_duration after the last trip.
THEOREM CoolDownCorrect == SerialSpec => []CoolDownRespected
<1>1. SerialInv => CoolDownRespected
  BY DEF SerialInv
<1> QED
  BY <1>1, SerialInvariant, PTL

\* ... the caller that half-opens the breaker finds every probe slot free, so
\* check_open is right not to reset the counter.
THEOREM SlotsCorrect == SerialSpec => SlotsFreeAtHalfOpen
<1>1. ASSUME SerialInv, [SerialNext]_vars, state = "Open", state' = "HalfOpen"
      PROVE  half_open_probes = 0
  <2>1. PICK c \in Callers : Alone(c) /\ CallerStep(c)
    BY <1>1 DEF SerialNext, ErrorRate, Tick, vars
  <2>2. At(c, "open_cas")
    BY <1>1, <2>1
       DEF CallerStep, CallSteps, CheckSteps, RecordSteps, Check, CheckOpenLoad,
           CheckOpenCas, CheckOpenMirror, CheckOpenLost, ProbeClock, ProbeAdd, ProbeClaim,
           ProbeSub, LeaseLoad, LeaseCas, Abandon, PushClosed, PushOpen, TripState,
           TripStamp, TripOpened, TripProbes, TripMirror, CloseState, CloseWindow,
           CloseProbes, CloseMirror, Record
  <2>3. \A d \in Callers : pc[d] \notin TripTail
    BY <2>1, <2>2 DEF Alone, At, Resting, InFlight, TripTail
  <2> QED
    BY <1>1, <2>3 DEF SerialInv, SlotsWhileOpen
<1> QED
  BY <1>1, SerialInvariant, PTL DEF SerialSpec, SlotsFreeAtHalfOpen

-----------------------------------------------------------------------------
(* The budget of a half-open episode.                                       *)

LEMMA BudgetType == MaxProbes \in Nat \ {0} /\ MaxProbes < UsizeModulus /\ UsizeModulus \in Nat
  BY ConfigAssumption, UsizeAssumption DEF MaxProbes

\* A caller's step leaves the clock readings of the others alone.
LEMMA StampFrame ==
  ASSUME TypeOK, NEW c \in Callers, CallerStep(c)
  PROVE  \A d \in Callers \ {c} : stamp'[d] = stamp[d] /\ seen'[d] = seen[d]
<1> USE DEF TypeOK, Goto, Return, locals
<1>1. CASE Check(c)
  BY <1>1 DEF Check
<1>2. CASE CheckOpenLoad(c)
  BY <1>2 DEF CheckOpenLoad
<1>3. CASE CheckOpenCas(c)
  BY <1>3 DEF CheckOpenCas, Return
<1>4. CASE CheckOpenMirror(c)
  BY <1>4 DEF CheckOpenMirror
<1>5. CASE CheckOpenLost(c)
  BY <1>5 DEF CheckOpenLost
<1>6. CASE ProbeClock(c)
  BY <1>6 DEF ProbeClock
<1>7. CASE ProbeAdd(c)
  BY <1>7 DEF ProbeAdd
<1>8. CASE ProbeClaim(c)
  BY <1>8 DEF ProbeClaim
<1>9. CASE ProbeSub(c)
  BY <1>9 DEF ProbeSub
<1>10. CASE LeaseLoad(c)
  BY <1>10 DEF LeaseLoad, Return
<1>11. CASE LeaseCas(c)
  BY <1>11 DEF LeaseCas, Return
<1>12. CASE Abandon(c)
  BY <1>12 DEF Abandon, Return
<1>13. CASE PushClosed(c)
  BY <1>13 DEF PushClosed, Return
<1>14. CASE PushOpen(c)
  BY <1>14 DEF PushOpen, Return
<1>15. CASE TripState(c)
  BY <1>15 DEF TripState
<1>16. CASE TripStamp(c)
  BY <1>16 DEF TripStamp
<1>17. CASE TripOpened(c)
  BY <1>17 DEF TripOpened
<1>18. CASE TripProbes(c)
  BY <1>18 DEF TripProbes
<1>19. CASE TripMirror(c)
  BY <1>19 DEF TripMirror, Return
<1>20. CASE CloseState(c)
  BY <1>20 DEF CloseState
<1>21. CASE CloseWindow(c)
  BY <1>21 DEF CloseWindow
<1>22. CASE CloseProbes(c)
  BY <1>22 DEF CloseProbes
<1>23. CASE CloseMirror(c)
  BY <1>23 DEF CloseMirror, Return
<1>24. CASE \E f \in BOOLEAN : Record(c, f)
  BY <1>24 DEF Record
<1> QED
  BY <1>1, <1>2, <1>3, <1>4, <1>5, <1>6, <1>7, <1>8, <1>9, <1>10, <1>11, <1>12, <1>13, <1>14, <1>15, <1>16, <1>17, <1>18, <1>19, <1>20, <1>21, <1>22, <1>23, <1>24
     DEF CallerStep, CallSteps, CheckSteps, RecordSteps

\* Only LeaseLoad brings a caller to the compare-exchange of the lease, and only
\* LeaseCas takes it from there.
LEMMA LeaseSteps ==
  ASSUME TypeOK, NEW c \in Callers, CallerStep(c)
  PROVE  /\ pc'[c] = "lease_cas" => LeaseLoad(c)
         /\ pc[c] = "lease_cas" => LeaseCas(c)
<1> USE DEF TypeOK, At, Goto, Return, InFlight
<1>1. CASE CheckSteps(c) /\ ~LeaseLoad(c) /\ ~LeaseCas(c)
  <2>1. pc[c] # "lease_cas" /\ pc'[c] # "lease_cas"
    BY <1>1
       DEF CheckSteps, CheckOpenLoad, CheckOpenCas, CheckOpenMirror, CheckOpenLost,
           ProbeClock, ProbeAdd, ProbeClaim, ProbeSub, BreakerState
  <2> QED
    BY <2>1
<1>2. CASE LeaseLoad(c)
  <2>1. pc[c] = "lease"
    BY <1>2 DEF LeaseLoad
  <2> QED
    BY <1>2, <2>1
<1>3. CASE LeaseCas(c)
  <2>1. pc'[c] # "lease_cas"
    BY <1>3 DEF LeaseCas
  <2> QED
    BY <1>3, <2>1
<1>4. CASE RecordSteps(c)
  BY <1>4
     DEF RecordSteps, PushClosed, PushOpen, TripState, TripStamp, TripOpened, TripProbes,
         TripMirror, CloseState, CloseWindow, CloseProbes, CloseMirror
<1>5. CASE \E f \in BOOLEAN : Record(c, f)
  BY <1>5 DEF Record, BreakerState
<1>6. CASE Check(c) \/ Abandon(c)
  BY <1>6 DEF Check, Abandon, BreakerState
<1> QED
  BY <1>1, <1>2, <1>3, <1>4, <1>5, <1>6 DEF CallerStep, CallSteps

LEMMA LeaseReadingsStep == TypeOK /\ LeaseReadings /\ [Next]_vars => LeaseReadings'
<1> SUFFICES ASSUME TypeOK, LeaseReadings, [Next]_vars PROVE LeaseReadings'
  OBVIOUS
<1>1. CASE \E c \in Callers : CallerStep(c)
  <2>1. PICK c \in Callers : CallerStep(c)
    BY <1>1
  <2>2. \A d \in Callers \ {c} : pc'[d] = pc[d] /\ stamp'[d] = stamp[d] /\ seen'[d] = seen[d]
    BY <2>1, CallerFrame, StampFrame
  <2>3. pc'[c] = "lease_cas" => SaturatingSub(stamp'[c], seen'[c]) >= OpenDuration
    <3> SUFFICES ASSUME pc'[c] = "lease_cas"
                 PROVE  SaturatingSub(stamp'[c], seen'[c]) >= OpenDuration
      OBVIOUS
    <3>1. LeaseLoad(c)
      BY <2>1, LeaseSteps
    <3>2. /\ SaturatingSub(stamp[c], probe_claimed_at) >= OpenDuration
          /\ stamp'[c] = stamp[c] /\ seen'[c] = probe_claimed_at
      BY <3>1 DEF LeaseLoad, Return, Goto, TypeOK
    <3> QED
      BY <3>2
  <2> QED
    BY <2>2, <2>3 DEF LeaseReadings
<1>2. CASE ErrorRate \/ Tick \/ UNCHANGED vars
  BY <1>2 DEF ErrorRate, Tick, vars, locals, LeaseReadings
<1> QED
  BY <1>1, <1>2 DEF Next

\* Under every interleaving, of the callers that found one lease expired exactly
\* one takes it over: each takeover renews the claim by a whole open_duration.
THEOREM LeaseCorrect == Spec => LeaseTakenOnce
<1>1. Init => LeaseReadings
  BY DEF Init, LeaseReadings
<1>2. ASSUME TypeOK, LeaseReadings, [Next]_vars
      PROVE  \A c \in Callers : pc[c] = "lease_cas" /\ pc'[c] = "probing"
               => SaturatingSub(probe_claimed_at', probe_claimed_at) >= OpenDuration
  <2> SUFFICES ASSUME NEW c \in Callers, pc[c] = "lease_cas", pc'[c] = "probing"
               PROVE  SaturatingSub(probe_claimed_at', probe_claimed_at) >= OpenDuration
    OBVIOUS
  <2>1. CASE \E d \in Callers : CallerStep(d)
    <3>1. PICK d \in Callers : CallerStep(d)
      BY <2>1
    <3>2. d = c
      BY <1>2, <3>1, CallerFrame
    <3>3. LeaseCas(c)
      BY <1>2, <3>1, <3>2, LeaseSteps
    <3>4. probe_claimed_at = seen[c] /\ probe_claimed_at' = stamp[c]
      BY <1>2, <3>3 DEF LeaseCas, Return, Goto, TypeOK
    <3> QED
      BY <1>2, <3>4 DEF LeaseReadings
  <2>2. CASE ErrorRate \/ Tick \/ UNCHANGED vars
    BY <2>2 DEF ErrorRate, Tick, vars
  <2> QED
    BY <1>2, <2>1, <2>2 DEF Next
<1> QED
  BY <1>1, <1>2, LeaseReadingsStep, TypeCorrect, PTL DEF Spec, LeaseTakenOnce

\* ClaimsDated with the moving caller c singled out, and the others at rest.
Dated(c) ==
  \A d \in Callers : pc[d] = "probing" =>
    /\ stamp[d] <= probe_claimed_at
    /\ pc[c] \in Dating => stamp[d] <= stamp[c]
    /\ (state = "Open" /\ pc[c] \notin {"trip_stamp", "trip_opened"}) => stamp[d] <= opened_at

LEMMA DatedStep ==
  ASSUME SerialInv, ClaimsDated, NEW c \in Callers, Alone(c), CallerStep(c)
  PROVE  ClaimsDated'
<1> USE DEF Resting, InFlight, Dating, ProbePath
<1>1. TypeOK /\ TypeOK'
  BY CallerTypeOK DEF SerialInv
<1>2. \A d \in Callers \ {c} : /\ pc[d] \in Resting /\ pc'[d] = pc[d]
                              /\ stamp'[d] = stamp[d]
  BY <1>1, CallerFrame, StampFrame DEF Alone
<1>3. Dated(c)
  BY <1>2 DEF ClaimsDated, Dated
<1>4. SUFFICES Dated(c)'
  BY <1>2 DEF ClaimsDated, Dated
<1>5. pc[c] # "open_lost" /\ (pc[c] \in ProbePath => state = "HalfOpen")
  BY DEF SerialInv, ReadingsHold
<1>6. \A d \in Callers : stamp[d] \in Int /\ stamp[d] <= now
  BY <1>1 DEF TypeOK, Time
<1>7. now \in Int /\ opened_at \in Int /\ probe_claimed_at \in Int
  BY <1>1 DEF TypeOK, Time
<1>8. /\ pc \in [Callers -> PC] /\ stamp \in [Callers -> Time]
      /\ state \in {"Closed", "Open", "HalfOpen"}
  BY <1>1 DEF TypeOK, BreakerState
<1> USE <1>2, <1>3, <1>5, <1>6, <1>7, <1>8 DEF Dated, At, Goto, locals
<1>9. CASE Check(c)
  BY <1>9 DEF Check
<1>10. CASE CheckOpenLoad(c)
  BY <1>10 DEF CheckOpenLoad
<1>11. CASE CheckOpenCas(c)
  BY <1>11 DEF CheckOpenCas, Return
<1>12. CASE CheckOpenMirror(c)
  BY <1>12 DEF CheckOpenMirror
<1>13. CASE CheckOpenLost(c)
  BY <1>13 DEF CheckOpenLost
<1>14. CASE ProbeClock(c)
  BY <1>14 DEF ProbeClock
<1>15. CASE ProbeAdd(c)
  BY <1>15 DEF ProbeAdd
<1>16. CASE ProbeClaim(c)
  BY <1>16 DEF ProbeClaim
<1>17. CASE ProbeSub(c)
  BY <1>17 DEF ProbeSub
<1>18. CASE LeaseLoad(c)
  BY <1>18 DEF LeaseLoad, Return
<1>19. CASE LeaseCas(c)
  BY <1>19 DEF LeaseCas, Return
<1>20. CASE Abandon(c)
  BY <1>20 DEF Abandon, Return
<1>21. CASE PushClosed(c)
  BY <1>21 DEF PushClosed, Return
<1>22. CASE PushOpen(c)
  BY <1>22 DEF PushOpen, Return
<1>23. CASE TripState(c)
  BY <1>23 DEF TripState
<1>24. CASE TripStamp(c)
  BY <1>24 DEF TripStamp
<1>25. CASE TripOpened(c)
  BY <1>25 DEF TripOpened
<1>26. CASE TripProbes(c)
  BY <1>26 DEF TripProbes
<1>27. CASE TripMirror(c)
  BY <1>27 DEF TripMirror, Return
<1>28. CASE CloseState(c)
  BY <1>28 DEF CloseState
<1>29. CASE CloseWindow(c)
  BY <1>29 DEF CloseWindow
<1>30. CASE CloseProbes(c)
  BY <1>30 DEF CloseProbes
<1>31. CASE CloseMirror(c)
  BY <1>31 DEF CloseMirror, Return
<1>32. CASE \E f \in BOOLEAN : Record(c, f)
  <2>1. PICK f \in BOOLEAN : Record(c, f)
    BY <1>32
  <2>2. /\ pc[c] \in InFlight
        /\ stamp' = [stamp EXCEPT ![c] = now]
        /\ state' = state /\ opened_at' = opened_at /\ probe_claimed_at' = probe_claimed_at
    BY <2>1 DEF Record
  <2>3. pc'[c] \in {"push_closed", "push_open", "trip_state", "close_state"}
    BY <2>1 DEF Record
  <2> QED
    BY <2>2, <2>3
<1> QED
  BY <1>9, <1>10, <1>11, <1>12, <1>13, <1>14, <1>15, <1>16, <1>17, <1>18, <1>19, <1>20, <1>21, <1>22, <1>23, <1>24, <1>25, <1>26, <1>27, <1>28, <1>29, <1>30, <1>31, <1>32
     DEF CallerStep, CallSteps, CheckSteps, RecordSteps

\* Held and RefusedAtCap, for the moving caller alone.
HeldBy(c) == IF pc[c] = "probe_sub" THEN WrapDec(half_open_probes) ELSE half_open_probes

AtCap(c) ==
  /\ pc[c] \in {"probe_sub", "lease", "lease_cas"} => HeldBy(c) = MaxProbes
  /\ pc[c] = "lease_cas" => SaturatingSub(stamp[c], seen[c]) >= OpenDuration

\* A caller that does not come to hold a claim adds none.
LEMMA ClaimsFrame ==
  ASSUME TypeOK, NEW c \in Callers, CallerStep(c)
  PROVE  /\ Claims' \in SUBSET (Claims \union {c})
         /\ pc'[c] \notin {"probing", "probe_claim"} => Claims' \in SUBSET Claims
         /\ pc[c] = "probe_claim" => Claims' \in SUBSET Claims
<1>1. \A d \in Callers \ {c} : pc'[d] = pc[d] /\ stamp'[d] = stamp[d]
  BY CallerFrame, StampFrame
<1>2. now' = now
  BY DEF CallerStep, CallSteps, CheckSteps, RecordSteps, Check, CheckOpenLoad,
         CheckOpenCas, CheckOpenMirror, CheckOpenLost, ProbeClock, ProbeAdd, ProbeClaim,
         ProbeSub, LeaseLoad, LeaseCas, Abandon, PushClosed, PushOpen, TripState,
         TripStamp, TripOpened, TripProbes, TripMirror, CloseState, CloseWindow,
         CloseProbes, CloseMirror, Record
<1>3. ASSUME NEW d \in Claims', d # c PROVE d \in Claims
  BY <1>1, <1>2, <1>3 DEF Claims, YoungProbes
<1> QED
  BY <1>3 DEF Claims, YoungProbes

\* The steps that neither take a slot, nor take over a lease, nor half-open the
\* breaker: no claim is added, and in HalfOpen the count stays.
LEMMA ClaimsKept ==
  ASSUME SerialInv, NEW c \in Callers, CallerStep(c), AtCap(c),
         ~ProbeAdd(c), ~LeaseCas(c), ~CheckOpenCas(c)
  PROVE  /\ Claims' \in SUBSET Claims
         /\ state' = "HalfOpen" => state = "HalfOpen" /\ HeldBy(c)' = HeldBy(c)
         /\ AtCap(c)'
<1>1. TypeOK
  BY DEF SerialInv
<1>2. /\ pc \in [Callers -> PC] /\ seen \in [Callers -> Time]
      /\ state \in {"Closed", "Open", "HalfOpen"}
  BY <1>1 DEF TypeOK, BreakerState
<1>3. /\ pc[c] # "open_lost" /\ (pc[c] \in TripTail => state = "Open")
      /\ pc[c] \in CloseTail => state = "Closed"
  BY DEF SerialInv, ReadingsHold
<1>4. /\ Claims' \in SUBSET (Claims \union {c})
      /\ pc'[c] \notin {"probing", "probe_claim"} => Claims' \in SUBSET Claims
      /\ pc[c] = "probe_claim" => Claims' \in SUBSET Claims
  BY <1>1, ClaimsFrame
<1> DEFINE Kept == /\ pc'[c] \notin {"probing", "probe_claim"} \/ pc[c] = "probe_claim"
                   /\ state' = "HalfOpen" => state = "HalfOpen" /\ HeldBy(c)' = HeldBy(c)
                   /\ AtCap(c)'
<1>5. SUFFICES Kept
  BY <1>4
<1> USE <1>2, <1>3 DEF At, Goto, HeldBy, AtCap, TripTail, CloseTail, InFlight, locals
<1>6. CASE Check(c)
  BY <1>6 DEF Check
<1>7. CASE CheckOpenLoad(c)
  BY <1>7 DEF CheckOpenLoad
<1>8. CASE CheckOpenMirror(c)
  BY <1>8 DEF CheckOpenMirror
<1>9. CASE CheckOpenLost(c)
  BY <1>9 DEF CheckOpenLost
<1>10. CASE ProbeClock(c)
  BY <1>10 DEF ProbeClock
<1>11. CASE ProbeClaim(c)
  BY <1>11 DEF ProbeClaim
<1>12. CASE ProbeSub(c)
  BY <1>12 DEF ProbeSub
<1>13. CASE LeaseLoad(c)
  BY <1>13 DEF LeaseLoad, Return
<1>14. CASE Abandon(c)
  BY <1>14 DEF Abandon, Return
<1>15. CASE PushClosed(c)
  BY <1>15 DEF PushClosed, Return
<1>16. CASE PushOpen(c)
  BY <1>16 DEF PushOpen, Return
<1>17. CASE TripState(c)
  BY <1>17 DEF TripState
<1>18. CASE TripStamp(c)
  BY <1>18 DEF TripStamp
<1>19. CASE TripOpened(c)
  BY <1>19 DEF TripOpened
<1>20. CASE TripProbes(c)
  BY <1>20 DEF TripProbes
<1>21. CASE TripMirror(c)
  BY <1>21 DEF TripMirror, Return
<1>22. CASE CloseState(c)
  BY <1>22 DEF CloseState
<1>23. CASE CloseWindow(c)
  BY <1>23 DEF CloseWindow
<1>24. CASE CloseProbes(c)
  BY <1>24 DEF CloseProbes
<1>25. CASE CloseMirror(c)
  BY <1>25 DEF CloseMirror, Return
<1>26. CASE \E f \in BOOLEAN : Record(c, f)
  <2>1. PICK f \in BOOLEAN : Record(c, f)
    BY <1>26
  <2>2. /\ pc[c] \in InFlight /\ state' = state /\ half_open_probes' = half_open_probes
    BY <2>1 DEF Record
  <2>3. pc'[c] \in {"push_closed", "push_open", "trip_state", "close_state"}
    BY <2>1 DEF Record
  <2> QED
    BY <2>2, <2>3
<1> QED
  BY <1>6, <1>7, <1>8, <1>9, <1>10, <1>11, <1>12, <1>13, <1>14, <1>15, <1>16, <1>17, <1>18, <1>19, <1>20, <1>21, <1>22, <1>23, <1>24, <1>25, <1>26
     DEF CallerStep, CallSteps, CheckSteps, RecordSteps

\* A set of claims that shrinks stays counted.
LEMMA FewerClaims ==
  ASSUME NEW S, NEW T \in SUBSET S, NEW n \in Int, IsFiniteSet(S), Cardinality(S) <= n
  PROVE  IsFiniteSet(T) /\ Cardinality(T) <= n
<1>1. IsFiniteSet(T) /\ Cardinality(T) <= Cardinality(S)
  BY FS_Subset
<1>2. Cardinality(S) \in Int /\ Cardinality(T) \in Int
  BY <1>1, FS_CardinalityType
<1> QED
  BY <1>1, <1>2

LEMMA CountedStep ==
  ASSUME SerialInv, ClaimInv, NEW c \in Callers, Alone(c), CallerStep(c)
  PROVE  ClaimsCounted' /\ RefusedAtCap'
<1>1. TypeOK /\ TypeOK'
  BY CallerTypeOK DEF SerialInv
<1>2. \A d \in Callers \ {c} : pc[d] \in Resting /\ pc'[d] = pc[d]
  BY <1>1, CallerFrame DEF Alone
<1>3. Held = HeldBy(c) /\ Held' = HeldBy(c)'
  BY <1>2 DEF Held, HeldBy, Resting, InFlight
<1>4. AtCap(c) /\ (AtCap(c)' => RefusedAtCap')
  <2>1. AtCap(c)
    BY <1>3 DEF ClaimInv, RefusedAtCap, AtCap
  <2>2. ASSUME AtCap(c)' PROVE RefusedAtCap'
    BY <1>2, <1>3, <2>2 DEF RefusedAtCap, AtCap, Resting, InFlight
  <2> QED
    BY <2>1, <2>2
<1>5. state = "HalfOpen" =>
        IsFiniteSet(Claims) /\ Cardinality(Claims) <= Held /\ Held <= MaxProbes
  BY DEF ClaimInv, ClaimsCounted
<1>6. Held \in Int /\ half_open_probes \in Int /\ MaxProbes \in Int
  BY <1>1, BudgetType DEF TypeOK, Held, WrapDec
<1>7. SUFFICES /\ AtCap(c)'
               /\ state' = "HalfOpen" =>
                    IsFiniteSet(Claims') /\ Cardinality(Claims') <= Held' /\ Held' <= MaxProbes
  BY <1>4 DEF ClaimsCounted
<1>8. CASE ~ProbeAdd(c) /\ ~LeaseCas(c) /\ ~CheckOpenCas(c)
  <2>1. /\ Claims' \in SUBSET Claims
        /\ state' = "HalfOpen" => state = "HalfOpen" /\ Held' = Held
        /\ AtCap(c)'
    BY <1>3, <1>4, <1>8, ClaimsKept
  <2> QED
    BY <1>5, <1>6, <2>1, FewerClaims
<1>9. CASE ProbeAdd(c)
  <2>1. pc[c] = "probe_add" /\ state = "HalfOpen" /\ state' = state
    BY <1>9 DEF ProbeAdd, At, SerialInv, ReadingsHold, ProbePath
  <2>2. /\ Held = half_open_probes /\ half_open_probes <= MaxProbes
        /\ half_open_probes' = WrapInc(half_open_probes)
    BY <1>3, <1>5, <1>9, <2>1 DEF ProbeAdd, HeldBy
  <2>3. pc'[c] = IF half_open_probes < MaxProbes THEN "probe_claim" ELSE "probe_sub"
    BY <1>1, <1>9 DEF ProbeAdd, Goto, TypeOK
  <2>4. CASE half_open_probes < MaxProbes
    <3>1. Held' = half_open_probes + 1 /\ Held' <= MaxProbes
      BY <1>3, <1>6, <2>2, <2>3, <2>4, BudgetType DEF HeldBy, WrapInc
    <3>2. /\ IsFiniteSet(Claims \union {c})
          /\ Cardinality(Claims \union {c}) <= Cardinality(Claims) + 1
          /\ Cardinality(Claims) \in Int /\ Cardinality(Claims \union {c}) \in Int
      <4>1. IsFiniteSet(Claims)
        BY <1>5, <2>1
      <4>2. /\ IsFiniteSet(Claims \union {c})
            /\ Cardinality(Claims \union {c})
                 = IF c \in Claims THEN Cardinality(Claims) ELSE Cardinality(Claims) + 1
        BY <4>1, FS_AddElement
      <4>3. Cardinality(Claims) \in Int /\ Cardinality(Claims \union {c}) \in Int
        BY <4>1, <4>2, FS_CardinalityType
      <4> QED
        BY <4>2, <4>3
    <3>3. Cardinality(Claims \union {c}) <= Held'
      BY <1>5, <1>6, <2>1, <2>2, <3>1, <3>2
    <3>4. Claims' \in SUBSET (Claims \union {c})
      BY <1>1, ClaimsFrame
    <3>5. Held' \in Int
      BY <1>6, <3>1
    <3>6. IsFiniteSet(Claims') /\ Cardinality(Claims') <= Held'
      BY <3>2, <3>3, <3>4, <3>5, FewerClaims
    <3> QED
      BY <2>3, <2>4, <3>1, <3>6 DEF AtCap
  <2>5. CASE ~(half_open_probes < MaxProbes)
    <3>1. half_open_probes = MaxProbes
      BY <1>6, <2>2, <2>5
    <3>2. Held' = MaxProbes
      BY <1>3, <1>6, <2>2, <2>3, <2>5, <3>1, BudgetType DEF HeldBy, WrapInc, WrapDec
    <3>3. Claims' \in SUBSET Claims
      BY <1>1, <2>3, <2>5, ClaimsFrame
    <3> QED
      BY <1>3, <1>5, <1>6, <2>1, <2>2, <2>3, <2>5, <3>1, <3>2, <3>3, FewerClaims DEF AtCap
  <2> QED
    BY <2>4, <2>5
<1>10. CASE LeaseCas(c)
  <2>1. /\ pc[c] = "lease_cas" /\ state = "HalfOpen" /\ state' = state
        /\ half_open_probes' = half_open_probes /\ now' = now
    BY <1>10 DEF LeaseCas, At, SerialInv, ReadingsHold, ProbePath
  <2>2. Held = MaxProbes /\ half_open_probes = MaxProbes
    BY <1>3, <1>4, <2>1 DEF AtCap, HeldBy
  <2>3. pc'[c] \in {"probing", "idle"}
    BY <1>1, <1>10 DEF LeaseCas, Goto, Return, TypeOK
  <2>4. Held' = MaxProbes /\ AtCap(c)'
    BY <1>3, <2>1, <2>2, <2>3 DEF AtCap, HeldBy
  <2>5. CASE probe_claimed_at # seen[c]
    <3>1. Claims' \in SUBSET Claims
      <4>1. pc'[c] = "idle"
        BY <1>1, <1>10, <2>5 DEF LeaseCas, Goto, Return, TypeOK
      <4> QED
        BY <1>1, <4>1, ClaimsFrame
    <3> QED
      BY <1>5, <1>6, <2>1, <2>2, <2>4, <3>1, FewerClaims
  <2>6. CASE probe_claimed_at = seen[c]
    <3>1. ASSUME NEW d \in Claims', d # c PROVE FALSE
      <4>1. /\ pc'[d] = pc[d] /\ stamp'[d] = stamp[d] /\ d \in Callers
            /\ pc[d] = "probing" /\ now - stamp[d] < OpenDuration
        <5>1. d \in Callers /\ pc'[d] = pc[d] /\ pc[d] \in Resting /\ stamp'[d] = stamp[d]
          BY <1>1, <1>2, <3>1, StampFrame DEF Claims, YoungProbes
        <5> QED
          BY <2>1, <3>1, <5>1 DEF Claims, YoungProbes, Resting, InFlight
      <4>2. stamp[d] <= probe_claimed_at
        BY <4>1 DEF ClaimInv, ClaimsDated
      <4>3. SaturatingSub(stamp[c], probe_claimed_at) >= OpenDuration
        BY <1>4, <2>1, <2>6 DEF AtCap
      <4>4. /\ stamp[c] \in Int /\ stamp[d] \in Int /\ now \in Int /\ probe_claimed_at \in Int
            /\ OpenDuration \in Int /\ stamp[c] <= now /\ stamp[d] <= now
        BY <1>1, <4>1, ConfigAssumption DEF TypeOK, Time
      <4> QED
        BY <4>1, <4>2, <4>3, <4>4 DEF SaturatingSub
    <3>2. Claims' \in SUBSET {c}
      BY <3>1
    <3>3. IsFiniteSet({c}) /\ Cardinality({c}) <= 1
      <4>1. IsFiniteSet({c}) /\ Cardinality({c}) = 1
        BY FS_Singleton
      <4> QED
        BY <4>1
    <3>4. IsFiniteSet(Claims') /\ Cardinality(Claims') <= 1
      BY <3>2, <3>3, FewerClaims
    <3>5. Cardinality(Claims') \in Int
      BY <3>4, FS_CardinalityType
    <3> QED
      BY <2>4, <3>4, <3>5, BudgetType
  <2> QED
    BY <2>5, <2>6
<1>11. CASE CheckOpenCas(c)
  <2>1. /\ pc[c] = "open_cas" /\ state = "Open" /\ seen[c] = opened_at
        /\ half_open_probes' = half_open_probes /\ now' = now
    BY <1>11 DEF CheckOpenCas, At, SerialInv, ReadingsHold
  <2>2. pc'[c] \in {"open_mirror", "open_lost", "idle"}
    BY <1>1, <1>11 DEF CheckOpenCas, Goto, Return, TypeOK
  <2>3. AtCap(c)'
    BY <2>2 DEF AtCap
  <2>4. ASSUME state' = "HalfOpen"
        PROVE  IsFiniteSet(Claims') /\ Cardinality(Claims') <= Held' /\ Held' <= MaxProbes
    <3>1. CooledDown(c)
      BY <1>11, <2>1, <2>4 DEF CheckOpenCas
    <3>2. half_open_probes = 0
      BY <1>2, <2>1 DEF SerialInv, SlotsWhileOpen, Resting, InFlight, TripTail
    <3>3. Held' = 0
      BY <1>3, <2>1, <2>2, <3>2 DEF HeldBy
    <3>4. ASSUME NEW d \in Claims' PROVE FALSE
      <4>1. d # c /\ d \in Callers
        BY <2>2, <3>4 DEF Claims, YoungProbes
      <4>2. pc'[d] = pc[d] /\ pc[d] \in Resting /\ stamp'[d] = stamp[d]
        BY <1>1, <1>2, <4>1, StampFrame
      <4>3. pc[d] = "probing" /\ now - stamp[d] < OpenDuration
        BY <2>1, <3>4, <4>2 DEF Claims, YoungProbes, Resting, InFlight
      <4>4. stamp[d] <= opened_at
        <5>1. \A e \in Callers : pc[e] \notin {"trip_stamp", "trip_opened"}
          BY <1>2, <2>1 DEF Resting, InFlight
        <5> QED
          BY <2>1, <4>1, <4>3, <5>1 DEF ClaimInv, ClaimsDated
      <4>5. /\ stamp[d] \in Int /\ now \in Int /\ opened_at \in Int
            /\ OpenDuration \in Int /\ opened_at <= now
        BY <1>1, <4>1, ConfigAssumption DEF TypeOK, Time
      <4>6. now - opened_at >= OpenDuration
        BY <2>1, <3>1, <4>5 DEF CooledDown, SaturatingSub
      <4> QED
        BY <4>3, <4>4, <4>5, <4>6
    <3>5. Claims' = {}
      BY <3>4
    <3>6. IsFiniteSet(Claims') /\ Cardinality(Claims') = 0
      BY <3>5, FS_EmptySet
    <3> QED
      BY <3>3, <3>6, BudgetType
  <2> QED
    BY <2>3, <2>4
<1> QED
  BY <1>8, <1>9, <1>10, <1>11

\* A claim only ages as time passes.
LEMMA ClaimInvStep == SerialInv /\ ClaimInv /\ [SerialNext]_vars => ClaimInv'
<1> SUFFICES ASSUME SerialInv, ClaimInv, [SerialNext]_vars PROVE ClaimInv'
  OBVIOUS
<1>1. CASE \E c \in Callers : Alone(c) /\ CallerStep(c)
  BY <1>1, DatedStep, CountedStep DEF ClaimInv
<1>2. CASE ErrorRate \/ Tick \/ UNCHANGED vars
  <2>1. TypeOK /\ TypeOK'
    BY <1>2, NextTypeOK DEF SerialInv, Next
  <2>2. /\ state' = state /\ opened_at' = opened_at /\ pc' = pc /\ seen' = seen
        /\ stamp' = stamp /\ probe_claimed_at' = probe_claimed_at
        /\ half_open_probes' = half_open_probes
    BY <1>2 DEF ErrorRate, Tick, vars, locals
  <2>3. now' >= now
    BY <1>2, <2>1 DEF ErrorRate, Tick, vars, TypeOK, Time
  <2>4. ClaimsDated'
    BY <2>2 DEF ClaimInv, ClaimsDated
  <2>5. Held' = Held /\ Held \in Int
    BY <2>1, <2>2, BudgetType DEF Held, TypeOK, WrapDec
  <2>6. ASSUME NEW d \in Claims' PROVE d \in Claims
    <3>1. d \in Callers /\ now \in Int /\ now' \in Int /\ stamp[d] \in Int /\ OpenDuration \in Int
      BY <2>1, <2>6, ConfigAssumption DEF TypeOK, Time, Claims, YoungProbes
    <3>2. CASE pc[d] = "probe_claim"
      BY <3>1, <3>2 DEF Claims
    <3>3. CASE pc[d] # "probe_claim"
      <4>1. pc[d] = "probing" /\ now' - stamp[d] < OpenDuration
        BY <2>2, <2>6, <3>3 DEF Claims, YoungProbes
      <4>2. now - stamp[d] < OpenDuration
        BY <2>3, <3>1, <4>1
      <4> QED
        BY <3>1, <4>1, <4>2 DEF Claims, YoungProbes
    <3> QED
      BY <3>2, <3>3
  <2>7. Claims' \in SUBSET Claims
    BY <2>6
  <2>8. state' = "HalfOpen" =>
          IsFiniteSet(Claims') /\ Cardinality(Claims') <= Held' /\ Held' <= MaxProbes
    BY <2>2, <2>5, <2>7, FewerClaims DEF ClaimInv, ClaimsCounted
  <2>9. ClaimsCounted' /\ RefusedAtCap'
    BY <2>2, <2>5, <2>8 DEF ClaimInv, ClaimsCounted, RefusedAtCap
  <2> QED
    BY <2>4, <2>9 DEF ClaimInv
<1> QED
  BY <1>1, <1>2 DEF SerialNext

LEMMA ClaimInvInit == Init => ClaimInv
  BY DEF Init, ClaimInv, ClaimsDated, ClaimsCounted, RefusedAtCap

\* With calls that do not overlap, at most half_open_max_probes requests hold a
\* claim younger than the lease while the breaker is half-open, although a lease
\* is taken over without counting and probes of earlier episodes may linger.
THEOREM ProbeBudgetCorrect == SerialSpec => []ProbeBudget
<1>1. SerialInv /\ ClaimInv => ProbeBudget
  <2> SUFFICES ASSUME SerialInv, ClaimInv, state = "HalfOpen"
               PROVE  Cardinality(YoungProbes) <= MaxProbes
    BY DEF ProbeBudget
  <2>1. IsFiniteSet(Claims) /\ Cardinality(Claims) <= Held /\ Held <= MaxProbes
    BY DEF ClaimInv, ClaimsCounted
  <2>2. Held \in Int /\ MaxProbes \in Int
    BY BudgetType DEF SerialInv, TypeOK, Held, WrapDec
  <2>3. YoungProbes \in SUBSET Claims
    BY DEF Claims
  <2>4. IsFiniteSet(YoungProbes) /\ Cardinality(YoungProbes) <= Held
    BY <2>1, <2>2, <2>3, FewerClaims
  <2>5. Cardinality(YoungProbes) \in Int
    BY <2>4, FS_CardinalityType
  <2> QED
    BY <2>1, <2>2, <2>4, <2>5
<1> QED
  BY <1>1, ClaimInvInit, ClaimInvStep, SerialInvariant, PTL DEF SerialSpec
=============================================================================
