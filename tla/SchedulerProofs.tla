--------------------------- MODULE SchedulerProofs ---------------------------
(***************************************************************************)
(* Proofs about the scheduler actor, for every set of tasks, every bound   *)
(* on revisions and every length of the channels: a reservation is never   *)
(* stale when it is committed, a removal that was acknowledged is final,   *)
(* what is sent is in the order of its versions, and the session log       *)
(* catches up with the tasks.                                              *)
(***************************************************************************)
EXTENDS Scheduler, SequenceTheorems, TLAPS

(***************************************************************************)
(* Queues of messages that may be awaited                                  *)
(***************************************************************************)

\* r is q without its first message.
Shortened(q, r) ==
  /\ OneAwaited(r) /\ Len(q) \in Nat /\ DOMAIN r = 1..(Len(q) - 1)
  /\ \A i \in 1..(Len(q) - 1) : r[i] = q[i + 1] /\ i + 1 \in DOMAIN q
  /\ Head(q) = q[1] /\ 1 \in DOMAIN q
  /\ NoneAwaited(q) => NoneAwaited(r)
  /\ Head(q).awaited => NoneAwaited(r)

\* c is q with the messages of r behind it.
Joined(q, r, c) ==
  /\ OneAwaited(c)
  /\ \A k \in DOMAIN c :
       (\E i \in DOMAIN q : c[k] = q[i]) \/ (\E i \in DOMAIN r : c[k] = r[i])
  /\ NoneAwaited(q) /\ NoneAwaited(r) => NoneAwaited(c)

\* c is q with one more message.
Lengthened(q, x, c) ==
  /\ OneAwaited(c) /\ Len(q) \in Nat
  /\ DOMAIN q = 1..Len(q) /\ DOMAIN c = 1..(Len(q) + 1)
  /\ \A i \in DOMAIN q : c[i] = q[i]
  /\ c[Len(q) + 1] = x
  /\ \A k \in DOMAIN c : k \in DOMAIN q \/ k = Len(q) + 1
  /\ NoneAwaited(q) /\ ~x.awaited => NoneAwaited(c)

\* c is q with nothing awaited.
Silenced(q, c) ==
  /\ OneAwaited(c) /\ NoneAwaited(c)
  /\ DOMAIN c = DOMAIN q
  /\ \A i \in DOMAIN q : c[i] = [q[i] EXCEPT !.awaited = FALSE]

\* What is left of a queue that is cut short, and that nobody listens to.
CutShort(q, c) ==
  /\ OneAwaited(c) /\ NoneAwaited(c)
  /\ \A i \in DOMAIN c :
       /\ i \in DOMAIN q /\ IsEvent(c[i])
       /\ c[i].kind = q[i].kind /\ c[i].task = q[i].task /\ c[i].version = q[i].version

LEMMA FunctionIsSeq ==
  ASSUME NEW S, NEW n \in Nat, NEW f \in [1..n -> S]
  PROVE  f \in Seq(S)
BY SeqDef

\* A queue is a sequence of what is in it.
LEMMA QueueOf ==
  ASSUME NEW S, NEW q \in Seq(S)
  PROVE  q \in Seq({q[i] : i \in DOMAIN q})
<1> DEFINE T == {q[i] : i \in DOMAIN q}
<1>1. PICK n \in Nat : q \in [1..n -> S]
  BY SeqDef
<1>2. q \in [1..n -> T]
  BY <1>1
<1>3. QED
  BY <1>2, FunctionIsSeq

LEMMA QueueIn ==
  ASSUME NEW S, NEW q, q \in Seq({q[i] : i \in DOMAIN q}), \A i \in DOMAIN q : q[i] \in S
  PROVE  q \in Seq(S)
<1> DEFINE T == {q[i] : i \in DOMAIN q}
<1>1. PICK n \in Nat : q \in [1..n -> T]
  BY SeqDef
<1>2. q \in [1..n -> S]
  BY <1>1
<1>3. QED
  BY <1>2, FunctionIsSeq

LEMMA EmptyQueue == OneAwaited(<< >>) /\ NoneAwaited(<< >>)
BY DEF OneAwaited, NoneAwaited

LEMMA QueueFacts ==
  ASSUME NEW q, OneAwaited(q)
  PROVE  Len(q) \in Nat /\ DOMAIN q = 1..Len(q)
BY DEF OneAwaited

LEMMA FirstPlace ==
  ASSUME NEW q, OneAwaited(q)
  PROVE  \A j \in DOMAIN q : 1 <= j
BY QueueFacts

\* Taking the first message off.
LEMMA TailQueue ==
  ASSUME NEW q, OneAwaited(q), q # << >>
  PROVE  Shortened(q, Tail(q))
<1> DEFINE S == {q[i] : i \in DOMAIN q}
           r == Tail(q)
<1>1. q \in Seq(S) /\ Len(q) \in Nat /\ Len(q) # 0 /\ DOMAIN q = 1..Len(q)
  BY DEF OneAwaited
<1>2. /\ r \in Seq(S) /\ Len(r) = Len(q) - 1 /\ Head(q) = q[1]
      /\ \A i \in 1..(Len(q) - 1) : r[i] = q[i + 1]
  <2> HIDE DEF S
  <2>1. QED
    BY <1>1
<1>3. DOMAIN r = 1..(Len(q) - 1)
  <2> HIDE DEF S, r
  <2>1. QED
    BY <1>1, <1>2
<1>4. \A i \in 1..(Len(q) - 1) : i + 1 \in DOMAIN q /\ i + 1 # 1
  BY <1>1
<1>5. 1 \in DOMAIN q
  BY <1>1
<1>6. \A i, j \in 1..(Len(q) - 1) : i + 1 = j + 1 => i = j
  BY <1>1
<1> HIDE DEF S, r
<1>7. r \in Seq({r[i] : i \in DOMAIN r})
  BY <1>2, QueueOf
<1>8. OneAwaited(r)
  <2>1. SUFFICES ASSUME NEW i \in DOMAIN r, NEW j \in DOMAIN r, r[i].awaited, r[j].awaited
                 PROVE  i = j
    BY <1>7 DEF OneAwaited
  <2>2. q[i + 1].awaited /\ q[j + 1].awaited /\ i + 1 \in DOMAIN q /\ j + 1 \in DOMAIN q
    BY <1>2, <1>3, <1>4, <2>1
  <2>3. i + 1 = j + 1
    BY <2>2 DEF OneAwaited
  <2>4. QED
    BY <1>3, <1>6, <2>3
<1>9. NoneAwaited(q) => NoneAwaited(r)
  BY <1>2, <1>3, <1>4 DEF NoneAwaited
<1>10. Head(q).awaited => NoneAwaited(r)
  BY <1>2, <1>3, <1>4, <1>5 DEF NoneAwaited, OneAwaited
<1>11. Shortened(q, r)
  BY <1>1, <1>2, <1>3, <1>4, <1>5, <1>8, <1>9, <1>10 DEF Shortened
<1>12. QED
  BY <1>11 DEF r

\* Adding messages at the end, when nothing in the queue is awaited.
LEMMA JoinQueues ==
  ASSUME NEW q, OneAwaited(q), NEW r, OneAwaited(r), NoneAwaited(q) \/ NoneAwaited(r)
  PROVE  Joined(q, r, q \o r)
<1> DEFINE S == {q[i] : i \in DOMAIN q} \cup {r[i] : i \in DOMAIN r}
           c == q \o r
<1>1. q \in Seq(S) /\ r \in Seq(S)
  BY QueueIn DEF OneAwaited
<1>2. /\ Len(q) \in Nat /\ Len(r) \in Nat /\ DOMAIN q = 1..Len(q) /\ DOMAIN r = 1..Len(r)
  BY QueueFacts
<1>3. /\ c \in Seq(S) /\ Len(c) = Len(q) + Len(r)
      /\ \A i \in 1..(Len(q) + Len(r)) : c[i] = IF i <= Len(q) THEN q[i] ELSE r[i - Len(q)]
  <2> HIDE DEF S
  <2>1. QED
    BY <1>1, ConcatProperties
<1>4. DOMAIN c = 1..(Len(q) + Len(r))
  <2> HIDE DEF S, c
  <2>1. QED
    BY <1>2, <1>3
<1> HIDE DEF S, c
<1>5. c \in Seq({c[i] : i \in DOMAIN c})
  BY <1>3, QueueOf
<1>6. \A k \in DOMAIN c :
        \/ k \in 1..Len(q) /\ c[k] = q[k]
        \/ k - Len(q) \in 1..Len(r) /\ c[k] = r[k - Len(q)]
  BY <1>2, <1>3, <1>4
<1>9. NoneAwaited(q) /\ NoneAwaited(r) => NoneAwaited(c)
  BY <1>2, <1>6 DEF NoneAwaited
<1>10. OneAwaited(c)
  <2>1. SUFFICES ASSUME NEW i \in DOMAIN c, NEW j \in DOMAIN c, c[i].awaited, c[j].awaited
                 PROVE  i = j
    BY <1>5 DEF OneAwaited
  <2>2. CASE i \in 1..Len(q) /\ j \in 1..Len(q) /\ c[i] = q[i] /\ c[j] = q[j]
    BY <1>2, <2>1, <2>2 DEF OneAwaited
  <2>3. CASE /\ i - Len(q) \in 1..Len(r) /\ j - Len(q) \in 1..Len(r)
             /\ c[i] = r[i - Len(q)] /\ c[j] = r[j - Len(q)]
    <3>1. i - Len(q) = j - Len(q)
      BY <1>2, <2>1, <2>3 DEF OneAwaited
    <3>2. QED
      BY <1>2, <1>4, <3>1
  <2>4. CASE \/ /\ i \in 1..Len(q) /\ c[i] = q[i]
                /\ j - Len(q) \in 1..Len(r) /\ c[j] = r[j - Len(q)]
             \/ /\ j \in 1..Len(q) /\ c[j] = q[j]
                /\ i - Len(q) \in 1..Len(r) /\ c[i] = r[i - Len(q)]
    BY <1>2, <2>1, <2>4 DEF NoneAwaited
  <2>5. QED
    BY <1>6, <2>2, <2>3, <2>4
<1>11. Joined(q, r, c)
  BY <1>2, <1>6, <1>9, <1>10 DEF Joined
<1>12. QED
  BY <1>11 DEF c

\* A queue with one message.
LEMMA SingleQueue ==
  ASSUME NEW x
  PROVE  /\ OneAwaited(<< x >>) /\ Len(<< x >>) = 1 /\ << x >>[1] = x
         /\ (~x.awaited => NoneAwaited(<< x >>))
         /\ \A i \in DOMAIN << x >> : << x >>[i] = x
BY DEF OneAwaited, NoneAwaited

\* Adding one message.
LEMMA AppendQueue ==
  ASSUME NEW q, OneAwaited(q), NEW x, NoneAwaited(q) \/ ~x.awaited
  PROVE  Lengthened(q, x, Append(q, x))
<1> DEFINE S == {q[i] : i \in DOMAIN q} \cup {x}
           c == Append(q, x)
<1>1. q \in Seq(S) /\ x \in S
  BY QueueIn DEF OneAwaited
<1>2. Len(q) \in Nat /\ DOMAIN q = 1..Len(q)
  BY QueueFacts
<1>3. /\ c \in Seq(S) /\ Len(c) = Len(q) + 1
      /\ \A i \in 1..Len(q) : c[i] = q[i]
      /\ c[Len(q) + 1] = x
  <2> HIDE DEF S
  <2>1. QED
    BY <1>1, AppendProperties
<1>4. DOMAIN c = 1..(Len(q) + 1)
  <2> HIDE DEF S, c
  <2>1. QED
    BY <1>2, <1>3
<1>5. c \in Seq({c[i] : i \in DOMAIN c})
  BY <1>3, QueueOf
<1> HIDE DEF S, c
<1>6. \A k \in DOMAIN c : k \in 1..Len(q) \/ k = Len(q) + 1
  BY <1>2, <1>4
<1>7. OneAwaited(c)
  BY <1>2, <1>3, <1>5, <1>6 DEF OneAwaited, NoneAwaited
<1>8. NoneAwaited(q) /\ ~x.awaited => NoneAwaited(c)
  BY <1>2, <1>3, <1>6 DEF NoneAwaited
<1>9. Lengthened(q, x, c)
  BY <1>2, <1>3, <1>4, <1>6, <1>7, <1>8 DEF Lengthened
<1>10. QED
  BY <1>9 DEF c

\* What is not listened for is not awaited.
LEMMA UnheardQueue ==
  ASSUME NEW q, OneAwaited(q), \A i \in DOMAIN q : "awaited" \in DOMAIN q[i]
  PROVE  Silenced(q, Unheard(q))
<1> DEFINE c == Unheard(q)
<1>1. Len(q) \in Nat /\ DOMAIN q = 1..Len(q)
  BY QueueFacts
<1>2. DOMAIN c = 1..Len(q) /\ \A i \in DOMAIN c : c[i] = [q[i] EXCEPT !.awaited = FALSE]
  BY <1>1 DEF Unheard
<1>3. c \in [1..Len(q) -> {c[i] : i \in DOMAIN c}]
  BY <1>1 DEF Unheard
<1> HIDE DEF c
<1>4. c \in Seq({c[i] : i \in DOMAIN c})
  BY <1>1, <1>3, FunctionIsSeq
<1>5. NoneAwaited(c)
  <2>1. SUFFICES ASSUME NEW i \in DOMAIN c
                 PROVE  ~c[i].awaited
    BY DEF NoneAwaited
  <2>2. "awaited" \in DOMAIN q[i] /\ c[i] = [q[i] EXCEPT !.awaited = FALSE]
    BY <1>1, <1>2
  <2>3. QED
    BY <2>2
<1>6. OneAwaited(c)
  BY <1>4, <1>5 DEF OneAwaited, NoneAwaited
<1>7. Silenced(q, c)
  BY <1>1, <1>2, <1>5, <1>6 DEF Silenced
<1>8. QED
  BY <1>7 DEF c

-----------------------------------------------------------------------------
(***************************************************************************)
(* Reservations                                                            *)
(***************************************************************************)

\* A reservation is made from the clock of its moment.
LEMMA ReservedFacts ==
  ASSUME clock \in Stamp, generations \in Nat, NEW n \in Nat
  PROVE  /\ PrepareTransition(n) \in Reserved
         /\ ExpectedSource(PrepareTransition(n)) = clock
<1> DEFINE r == PrepareTransition(n)
<1>1. clock.gen \in Nat /\ clock.rev \in Nat /\ clock = [gen |-> clock.gen, rev |-> clock.rev]
  BY DEF Stamp
<1>2. Overflows(n) \in BOOLEAN
  BY DEF Overflows
<1>3. r.source = clock /\ r.rollover = Overflows(n)
  BY DEF PrepareTransition
<1>4. r.gen = IF Overflows(n) THEN generations + 1 ELSE clock.gen
  BY DEF PrepareTransition
<1>5. r.next = IF Overflows(n) THEN 1 ELSE clock.rev + 1
  BY DEF PrepareTransition
<1>6. r \in Reserved
  BY <1>1, <1>2 DEF PrepareTransition, Reserved
<1>7. CASE Overflows(n)
  <2>1. r.rollover
    BY <1>3, <1>7
  <2>2. QED
    BY <1>3, <1>6, <2>1 DEF ExpectedSource
<1>8. CASE ~Overflows(n)
  <2>1. ~r.rollover
    BY <1>3, <1>8
  <2>2. r.next - 1 = clock.rev /\ r.gen = clock.gen
    BY <1>1, <1>4, <1>5, <1>8
  <2>3. QED
    BY <1>1, <1>6, <2>1, <2>2 DEF ExpectedSource
<1>9. QED
  BY <1>7, <1>8

LEMMA VersionFacts ==
  ASSUME NEW r \in Reserved, NEW k \in Nat
  PROVE  VersionAt(r, k) \in Stamp
BY DEF Reserved, VersionAt, Stamp

LEMMA DrawFacts ==
  ASSUME generations \in Nat, NEW n, Draw(n)
  PROVE  generations' \in Nat
BY DEF Draw

-----------------------------------------------------------------------------
(***************************************************************************)
(* The invariant of the reservations, one lemma for each kind of step      *)
(***************************************************************************)

\* What is sent joins the queue of the bridge, if there is one.
LEMMA SendFacts ==
  ASSUME AnswersHeard, NoneAwaited(events), NEW notices, OneAwaited(notices),
         \A i \in DOMAIN notices : IsEvent(notices[i]), Send(notices)
  PROVE  /\ OneAwaited(events') /\ \A i \in DOMAIN events' : IsEvent(events'[i])
         /\ NoneAwaited(notices) => NoneAwaited(events')
         /\ \A k \in DOMAIN events' :
              \/ \E i \in DOMAIN events : events'[k] = events[i]
              \/ open /\ \E i \in DOMAIN notices : events'[k] = notices[i]
<1>1. OneAwaited(events) /\ \A i \in DOMAIN events : IsEvent(events[i])
  BY DEF AnswersHeard
<1>2. CASE ~open
  BY <1>1, <1>2 DEF Send
<1>3. CASE open
  <2>1. events' = events \o notices
    BY <1>3 DEF Send
  <2>2. Joined(events, notices, events')
    BY <1>1, <2>1, JoinQueues
  <2>3. OneAwaited(events') /\ (NoneAwaited(notices) => NoneAwaited(events'))
    BY <2>2 DEF Joined
  <2>4. \A k \in DOMAIN events' :
              \/ \E i \in DOMAIN events : events'[k] = events[i]
              \/ \E i \in DOMAIN notices : events'[k] = notices[i]
    BY <2>2 DEF Joined
  <2>5. \A k \in DOMAIN events' : IsEvent(events'[k])
    BY <1>1, <2>4
  <2>6. QED
    BY <1>3, <2>3, <2>4, <2>5
<1>4. QED
  BY <1>2, <1>3

LEMMA NoticeFacts ==
  ASSUME NEW kind, NEW t, NEW v
  PROVE  /\ IsEvent(Notice(kind, t, v)) /\ ~Notice(kind, t, v).awaited
         /\ Notice(kind, t, v).kind = kind /\ Notice(kind, t, v).task = t
BY DEF Notice, IsEvent

\* One notice.
LEMMA SendOne ==
  ASSUME AnswersHeard, NoneAwaited(events), NEW kind, NEW t, NEW v,
         Send(<< Notice(kind, t, v) >>)
  PROVE  /\ OneAwaited(events') /\ \A i \in DOMAIN events' : IsEvent(events'[i])
         /\ NoneAwaited(events')
         /\ \A k \in DOMAIN events' :
              \/ \E i \in DOMAIN events : events'[k] = events[i]
              \/ events'[k] = Notice(kind, t, v)
<1> DEFINE x == Notice(kind, t, v)
<1>1. IsEvent(x) /\ ~x.awaited
  BY NoticeFacts
<1> HIDE DEF x
<1>2. OneAwaited(<< x >>) /\ Len(<< x >>) = 1 /\ << x >>[1] = x /\ NoneAwaited(<< x >>)
  BY <1>1, SingleQueue
<1>3. \A i \in DOMAIN << x >> : << x >>[i] = x
  BY <1>2
<1>4. Send(<< x >>)
  BY DEF x
<1>5. \A i \in DOMAIN << x >> : IsEvent(<< x >>[i])
  BY <1>1, <1>3
<1>6. /\ OneAwaited(events') /\ \A i \in DOMAIN events' : IsEvent(events'[i])
      /\ NoneAwaited(events')
      /\ \A k \in DOMAIN events' :
           \/ \E i \in DOMAIN events : events'[k] = events[i]
           \/ \E i \in DOMAIN << x >> : events'[k] = << x >>[i]
  BY <1>2, <1>4, <1>5, SendFacts
<1>7. QED
  BY <1>3, <1>6 DEF x

\* The queues after a step.
LEMMA AnswersNext ==
  ASSUME \A k \in DOMAIN saves' : IsSave(saves'[k]),
         \A k \in DOMAIN events' : IsEvent(events'[k]),
         OneAwaited(saves'), OneAwaited(events'),
         pc'.at \notin {"persist", "expiry persist"} => NoneAwaited(saves'),
         pc'.at \notin {"publish", "expiry publish"} => NoneAwaited(events')
  PROVE  AnswersHeard'
BY DEF AnswersHeard, OneAwaited, NoneAwaited, IsSave, IsEvent

\* What an assignment to a field of a message, or of the place of the actor, does.
LEMMA SaveFields ==
  ASSUME NEW x, IsSave(x), NEW v
  PROVE  /\ "awaited" \in DOMAIN x /\ IsSave([x EXCEPT !.awaited = v])
         /\ [x EXCEPT !.awaited = v].snapshot = x.snapshot
<1>1. [x EXCEPT !.awaited = v] = [op |-> x.op, snapshot |-> x.snapshot, awaited |-> v]
  BY DEF IsSave
<1>2. QED
  BY <1>1 DEF IsSave

LEMMA EventFields ==
  ASSUME NEW x, IsEvent(x), NEW v
  PROVE  /\ "awaited" \in DOMAIN x /\ IsEvent([x EXCEPT !.awaited = v])
         /\ [x EXCEPT !.awaited = v].kind = x.kind /\ [x EXCEPT !.awaited = v].task = x.task
<1>1. [x EXCEPT !.awaited = v] =
        [kind |-> x.kind, task |-> x.task, version |-> x.version, awaited |-> v]
  BY DEF IsEvent
<1>2. QED
  BY <1>1 DEF IsEvent

LEMMA PlaceFields ==
  ASSUME ActorTyped, NEW where
  PROVE  [pc EXCEPT !.at = where] =
           [at |-> where, task |-> pc.task, index |-> pc.index, reservation |-> pc.reservation]
<1>1. pc = [at |-> pc.at, task |-> pc.task, index |-> pc.index, reservation |-> pc.reservation]
  BY DEF ActorTyped
<1>2. QED
  BY <1>1

\* The actor is idle and nothing is pending: the clock may move.
LEMMA CutQueue ==
  ASSUME NEW q, OneAwaited(q), \A i \in DOMAIN q : IsEvent(q[i]), NEW n \in 0..Len(q)
  PROVE  CutShort(q, Unheard(SubSeq(q, 1, n)))
<1> DEFINE S == {q[i] : i \in DOMAIN q}
           s == SubSeq(q, 1, n)
           c == Unheard(s)
<1>1. Len(q) \in Nat /\ DOMAIN q = 1..Len(q) /\ q \in Seq(S) /\ n \in Nat
  BY QueueFacts DEF OneAwaited
<1>2. DOMAIN s = 1..n /\ \A i \in 1..n : i \in DOMAIN q /\ s[i] = q[i]
  BY <1>1
<1> HIDE DEF s
<1>3. /\ DOMAIN c = 1..n
      /\ \A i \in 1..n : c[i] = [q[i] EXCEPT !.awaited = FALSE]
      /\ c \in [1..n -> {c[i] : i \in DOMAIN c}]
  BY <1>2 DEF Unheard
<1> HIDE DEF c
<1>4. \A i \in 1..n : c[i] = [kind |-> q[i].kind, task |-> q[i].task, version |-> q[i].version,
                              awaited |-> FALSE]
  BY <1>2, <1>3 DEF IsEvent
<1>5. ASSUME NEW i \in 1..n
      PROVE  /\ ~c[i].awaited /\ IsEvent(c[i])
             /\ c[i].kind = q[i].kind /\ c[i].task = q[i].task /\ c[i].version = q[i].version
  <2> DEFINE a == q[i].kind
             b == q[i].task
             v == q[i].version
  <2>1. c[i] = [kind |-> a, task |-> b, version |-> v, awaited |-> FALSE]
    BY <1>4
  <2> HIDE DEF a, b, v
  <2>2. ~c[i].awaited /\ IsEvent(c[i]) /\ c[i].kind = a /\ c[i].task = b /\ c[i].version = v
    BY <2>1 DEF IsEvent
  <2>3. QED
    BY <2>2 DEF a, b, v
<1>6. c \in Seq({c[i] : i \in DOMAIN c})
  BY <1>1, <1>3, FunctionIsSeq
<1>7. CutShort(q, c)
  BY <1>2, <1>3, <1>5, <1>6 DEF CutShort, OneAwaited, NoneAwaited
<1>8. QED
  BY <1>7 DEF c, s

\* The bridge ends.
LEMMA CloseCuts ==
  ASSUME AnswersHeard, CloseTarget
  PROVE  CutShort(events, events')
<1>1. PICK n \in HandedOn : events' = Unheard(SubSeq(events, 1, n))
  BY DEF CloseTarget
<1>2. n \in 0..Len(events)
  BY DEF HandedOn
<1>3. QED
  BY <1>1, <1>2, CutQueue DEF AnswersHeard

LEMMA StampStep ==
  ASSUME ReservationInv, At("idle"), pending = None,
         clock' \in Stamp, generations' \in Nat, UNCHANGED << pending, pc, saves >>,
         OneAwaited(events'), NoneAwaited(events'), \A i \in DOMAIN events' : IsEvent(events'[i])
  PROVE  ReservationInv'
<1>1. ActorTyped'
  BY DEF ReservationInv, ActorTyped
<1>2. OneRemoval'
  BY DEF ReservationInv, OneRemoval
<1>3. AnswersHeard'
  <2>1. /\ OneAwaited(saves') /\ \A k \in DOMAIN saves' : IsSave(saves'[k])
        /\ NoneAwaited(saves')
    BY DEF ReservationInv, AnswersHeard, At
  <2>2. QED
    BY <2>1, AnswersNext
<1>4. NoStaleReservation'
  BY DEF ReservationInv, OneRemoval, At, NoStaleReservation
<1>5. QED
  BY <1>1, <1>2, <1>3, <1>4 DEF ReservationInv

\* Create, Update and the fires that remove nothing durably.
LEMMA StampActions ==
  ASSUME ReservationInv, tasks \in Seq(Tasks), NEW t, NEW interval, NEW i,
         \/ Create(t) \/ Update(t, interval) \/ BlockExpiry(i) \/ ExpireSessionOnly(i)
         \/ FireRecurring(i) \/ SkipRecurring(i) \/ FireOneShot(i)
  PROVE  ReservationInv'
<1>1. At("idle") /\ pending = None /\ UNCHANGED << pending, pc, saves >>
  BY DEF Create, Update, BlockExpiry, ExpireSessionOnly, FireRecurring, SkipRecurring,
         FireOneShot, Fires, TimerRuns, Accepts, Selects, writer, actor
<1>2. clock \in Stamp /\ generations \in Nat
  BY DEF ReservationInv, ActorTyped
<1>3. AnswersHeard /\ NoneAwaited(events) /\ OneAwaited(events)
      /\ \A k \in DOMAIN events : IsEvent(events[k])
  BY <1>1 DEF ReservationInv, AnswersHeard, At
<1>4. \A n \in Nat : \A k \in Nat : VersionAt(PrepareTransition(n), k) \in Stamp
  BY <1>2, ReservedFacts, VersionFacts
<1>5. CASE Create(t)
  BY <1>1, <1>2, <1>3, <1>4, <1>5, SendOne, DrawFacts, StampStep DEF Create
<1>6. CASE Update(t, interval)
  BY <1>1, <1>2, <1>3, <1>4, <1>6, SendOne, DrawFacts, StampStep DEF Update
<1>7. CASE BlockExpiry(i)
  BY <1>1, <1>2, <1>3, <1>7, StampStep DEF BlockExpiry, bridge
<1>8. CASE ExpireSessionOnly(i)
  BY <1>1, <1>2, <1>3, <1>4, <1>8, SendOne, DrawFacts, StampStep DEF ExpireSessionOnly
<1>9. CASE FireRecurring(i)
  BY <1>1, <1>2, <1>3, <1>4, <1>9, SendOne, DrawFacts, StampStep DEF FireRecurring
<1>10. CASE SkipRecurring(i)
  BY <1>1, <1>2, <1>3, <1>10, SendOne, StampStep DEF SkipRecurring, actor
<1>11. CASE FireOneShot(i)
  <2> DEFINE r == PrepareTransition(2)
             x == Notice("fired", tasks[i], VersionAt(r, 0))
             y == Notice("removed", tasks[i], VersionAt(r, 1))
  <2>1. Send(<< x, y >>) /\ clock' = VersionAt(r, 1) /\ Draw(2)
    BY <1>11 DEF FireOneShot
  <2>2. IsEvent(x) /\ IsEvent(y) /\ ~x.awaited /\ ~y.awaited
    BY NoticeFacts
  <2> HIDE DEF x, y, r
  <2>3. OneAwaited(<< x, y >>) /\ NoneAwaited(<< x, y >>)
    BY <2>2 DEF OneAwaited, NoneAwaited
  <2>4. \A k \in DOMAIN << x, y >> : IsEvent(<< x, y >>[k])
    BY <2>2
  <2>5. OneAwaited(events') /\ NoneAwaited(events') /\ \A k \in DOMAIN events' : IsEvent(events'[k])
    BY <1>3, <2>1, <2>3, <2>4, SendFacts
  <2>6. clock' \in Stamp
    BY <1>4, <2>1 DEF r
  <2>7. QED
    BY <1>1, <1>2, <2>1, <2>5, <2>6, DrawFacts, StampStep
<1>12. QED
  BY <1>5, <1>6, <1>7, <1>8, <1>9, <1>10, <1>11

\* The places of the actor.
LEMMA IdleFacts ==
  ASSUME NEW where \in Where
  PROVE  /\ [Idle EXCEPT !.at = where] =
              [at |-> where, task |-> None, index |-> 0, reservation |-> None]
         /\ Idle = [at |-> "idle", task |-> None, index |-> 0, reservation |-> None]
BY DEF Idle

LEMMA FlushFacts ==
  ASSUME NEW s
  PROVE  /\ IsSave(SaveAndFlushCmd(s)) /\ SaveAndFlushCmd(s).snapshot = s
         /\ SaveAndFlushCmd(s).op = "flush" /\ SaveAndFlushCmd(s).awaited
         /\ IsSave(SaveCmd(s)) /\ SaveCmd(s).snapshot = s
         /\ SaveCmd(s).op = "save" /\ ~SaveCmd(s).awaited
BY DEF IsSave, SaveAndFlushCmd, SaveCmd

\* An idle actor begins to await the writer.
LEMMA AwaitStep ==
  ASSUME ReservationInv, At("idle"), NEW x, IsSave(x), saves' = Append(saves, x),
         pc'.at \in {"persist", "expiry persist"}, events' = events, clock' = clock,
         ActorTyped', OneRemoval',
         pending' # None => clock = ExpectedSource(pending'.reservation),
         pc'.reservation # None => clock = ExpectedSource(pc'.reservation)
  PROVE  ReservationInv'
<1>1. OneAwaited(saves) /\ NoneAwaited(saves) /\ \A k \in DOMAIN saves : IsSave(saves[k])
  BY DEF ReservationInv, AnswersHeard, At
<1>2. OneAwaited(events) /\ NoneAwaited(events) /\ \A k \in DOMAIN events : IsEvent(events[k])
  BY DEF ReservationInv, AnswersHeard, At
<1>4. OneAwaited(saves') /\ \A k \in DOMAIN saves' : IsSave(saves'[k])
  <2>1. Lengthened(saves, x, saves')
    BY <1>1, AppendQueue
  <2>2. QED
    BY <1>1, <2>1 DEF Lengthened
<1>5. AnswersHeard'
  BY <1>2, <1>4, AnswersNext
<1>6. NoStaleReservation'
  BY DEF NoStaleReservation
<1>7. QED
  BY <1>5, <1>6 DEF ReservationInv

LEMMA AwaitActions ==
  ASSUME ReservationInv, NEW t \in Tasks, NEW i, tasks \in Seq(Tasks),
         Delete(t) \/ RetryDelete \/ ExpireDurable(i)
  PROVE  ReservationInv'
<1>1. At("idle")
  BY DEF Delete, RetryDelete, ExpireDurable, Fires, TimerRuns, Selects
<1>2. /\ clock \in Stamp /\ generations \in Nat /\ pending \in Removal \union {None}
      /\ NoStaleReservation
  BY DEF ReservationInv, ActorTyped
<1>3. PrepareTransition(1) \in Reserved /\ ExpectedSource(PrepareTransition(1)) = clock
  BY <1>2, ReservedFacts
<1>4. {"persist", "expiry persist"} \subseteq Where
  BY DEF Where
<1>5. CASE Delete(t)
  <2>1. /\ events' = events /\ clock' = clock /\ Draw(1)
        /\ saves' = Append(saves, SaveAndFlushCmd(tasks'))
        /\ pending' = [task |-> t, reservation |-> PrepareTransition(1)]
        /\ pc' = [at |-> "persist", task |-> None, index |-> 0, reservation |-> None]
    BY <1>4, <1>5, IdleFacts DEF Delete, AwaitPersistence, bridge
  <2>2. pending' \in Removal /\ pending'.reservation = PrepareTransition(1)
    BY <1>3, <2>1 DEF Removal
  <2>3. ActorTyped'
    BY <1>2, <1>4, <2>1, <2>2, DrawFacts DEF ActorTyped
  <2>4. OneRemoval'
    BY <2>1, <2>2 DEF OneRemoval, Deleting, Expiring
  <2>5. QED
    BY <1>1, <1>3, <2>1, <2>2, <2>3, <2>4, FlushFacts, AwaitStep
<1>6. CASE RetryDelete
  <2>1. /\ events' = events /\ clock' = clock /\ generations' = generations
        /\ saves' = Append(saves, SaveAndFlushCmd(tasks))
        /\ pending' = pending /\ pending # None
        /\ pc' = [at |-> "persist", task |-> None, index |-> 0, reservation |-> None]
    BY <1>4, <1>6, IdleFacts DEF RetryDelete, AwaitPersistence, bridge, actor
  <2>2. ActorTyped'
    BY <1>2, <1>4, <2>1 DEF ActorTyped
  <2>3. OneRemoval'
    BY <1>2, <2>1 DEF OneRemoval, Deleting, Expiring
  <2>4. clock = ExpectedSource(pending.reservation)
    BY <1>1, <1>2, <2>1 DEF NoStaleReservation, At, Running
  <2>5. QED
    BY <1>1, <2>1, <2>2, <2>3, <2>4, FlushFacts, AwaitStep
<1>7. CASE ExpireDurable(i)
  <2>1. /\ events' = events /\ clock' = clock /\ Draw(1)
        /\ saves' = Append(saves, SaveAndFlushCmd(tasks'))
        /\ pending' = pending /\ pending = None /\ i \in DOMAIN tasks
        /\ pc' = [at |-> "expiry persist", task |-> tasks[i], index |-> i,
                  reservation |-> PrepareTransition(1)]
    BY <1>7 DEF ExpireDurable, bridge, Fires, TimerRuns
  <2>2. i \in Nat /\ tasks[i] \in Tasks
    <3>1. i \in DOMAIN tasks
      BY <2>1
    <3>2. QED
      BY <3>1
  <2>3. ActorTyped'
    BY <1>2, <1>3, <1>4, <2>1, <2>2, DrawFacts DEF ActorTyped
  <2>4. OneRemoval'
    BY <1>3, <2>1, <2>2 DEF OneRemoval, Deleting, Expiring
  <2>5. QED
    BY <1>1, <1>3, <2>1, <2>3, <2>4, FlushFacts, AwaitStep
<1>8. QED
  BY <1>5, <1>6, <1>7

\* The removal goes on, is given up or ends.
LEMMA ContinueActions ==
  ASSUME ReservationInv, Continues
  PROVE  ReservationInv'
<1>1. /\ clock \in Stamp /\ generations \in Nat /\ pending \in Removal \union {None}
      /\ pc \in [at : Where, task : Tasks \union {None}, index : Nat,
                 reservation : Reserved \union {None}]
  BY DEF ReservationInv, ActorTyped
<1>2. OneRemoval /\ AnswersHeard /\ NoStaleReservation
  BY DEF ReservationInv
<1>3. /\ OneAwaited(saves) /\ OneAwaited(events)
      /\ \A k \in DOMAIN saves : IsSave(saves[k])
      /\ \A k \in DOMAIN events : IsEvent(events[k])
  BY <1>2 DEF AnswersHeard
<1>4. /\ Idle = [at |-> "idle", task |-> None, index |-> 0, reservation |-> None]
      /\ [Idle EXCEPT !.at = "publish"] =
           [at |-> "publish", task |-> None, index |-> 0, reservation |-> None]
  BY IdleFacts DEF Where
<1>5. \A r \in Reserved : VersionAt(r, 0) \in Stamp
  BY VersionFacts
<1>6. ASSUME NEW t, NEW v, NoneAwaited(events), Publish(t, v)
      PROVE  OneAwaited(events') /\ (\A k \in DOMAIN events' : IsEvent(events'[k]))
             /\ (~open => events' = events)
  <2> DEFINE x == Tombstone(t, v)
  <2>1. IsEvent(x)
    BY DEF IsEvent, Tombstone
  <2> HIDE DEF x
  <2>2. OneAwaited(<< x >>) /\ \A i \in DOMAIN << x >> : IsEvent(<< x >>[i])
    <3>1. OneAwaited(<< x >>) /\ Len(<< x >>) = 1 /\ << x >>[1] = x
      BY SingleQueue
    <3>2. QED
      BY <2>1, <3>1
  <2>3. Send(<< x >>)
    BY <1>6 DEF Publish, x
  <2>4. QED
    BY <1>2, <1>6, <2>2, <2>3, SendFacts DEF Send
<1>7. CASE DeletePersisted
  <2>1. /\ At("persisted") /\ UNCHANGED << clock, generations, pending, saves >>
        /\ Publish(pending.task, VersionAt(pending.reservation, 0))
        /\ pc' = IF open THEN [Idle EXCEPT !.at = "publish"] ELSE Idle
    BY <1>7 DEF DeletePersisted, actor, writer
  <2>2. NoneAwaited(events) /\ NoneAwaited(saves) /\ pending \in Removal
    BY <1>2, <2>1 DEF AnswersHeard, At, OneRemoval, Deleting
  <2>3. ActorTyped'
    BY <1>1, <1>4, <2>1 DEF ActorTyped, Where
  <2>4. OneRemoval'
    BY <1>4, <2>1, <2>2 DEF OneRemoval, Deleting, Expiring
  <2>5. OneAwaited(events') /\ (\A k \in DOMAIN events' : IsEvent(events'[k]))
        /\ (~open => events' = events)
    BY <1>6, <2>1, <2>2
  <2>6. AnswersHeard'
    BY <1>3, <1>4, <2>1, <2>2, <2>5, AnswersNext
  <2>7. NoStaleReservation'
    BY <1>2, <1>4, <2>1 DEF NoStaleReservation, Running, At
  <2>8. QED
    BY <2>3, <2>4, <2>6, <2>7 DEF ReservationInv
<1>8. CASE DeletePublished
  <2>1. /\ At("published") /\ UNCHANGED << generations, saves, events >>
        /\ clock' = VersionAt(pending.reservation, 0) /\ pending' = None /\ pc' = Idle
    BY <1>8 DEF DeletePublished, writer, bridge
  <2>2. NoneAwaited(events) /\ NoneAwaited(saves) /\ pending \in Removal
    BY <1>2, <2>1 DEF AnswersHeard, At, OneRemoval, Deleting
  <2>3. clock' \in Stamp
    BY <1>5, <2>1, <2>2 DEF Removal
  <2>4. ActorTyped'
    BY <1>1, <1>4, <2>1, <2>3 DEF ActorTyped, Where
  <2>5. OneRemoval' /\ NoStaleReservation'
    BY <1>4, <2>1 DEF OneRemoval, Deleting, Expiring, NoStaleReservation
  <2>6. AnswersHeard'
    BY <1>3, <1>4, <2>1, <2>2, AnswersNext
  <2>7. QED
    BY <2>4, <2>5, <2>6 DEF ReservationInv
<1>9. CASE ExpiryPersisted
  <2>1. /\ At("expiry persisted") /\ UNCHANGED << clock, generations, pending, saves >>
        /\ Publish(pc.task, VersionAt(pc.reservation, 0))
        /\ pc' = IF open THEN [pc EXCEPT !.at = "expiry publish"] ELSE Idle
    BY <1>9 DEF ExpiryPersisted, actor, writer
  <2>2. /\ NoneAwaited(events) /\ NoneAwaited(saves) /\ pending = None
        /\ pc.task \in Tasks /\ pc.reservation \in Reserved
    BY <1>2, <2>1 DEF AnswersHeard, At, OneRemoval, Expiring
  <2>3. [pc EXCEPT !.at = "expiry publish"] =
          [at |-> "expiry publish", task |-> pc.task, index |-> pc.index,
           reservation |-> pc.reservation]
    BY PlaceFields DEF ReservationInv
  <2>4. ActorTyped'
    BY <1>1, <1>4, <2>1, <2>3 DEF ActorTyped, Where
  <2>5. OneRemoval'
    BY <1>4, <2>1, <2>2, <2>3 DEF OneRemoval, Deleting, Expiring
  <2>6. OneAwaited(events') /\ (\A k \in DOMAIN events' : IsEvent(events'[k]))
        /\ (~open => events' = events)
    BY <1>6, <2>1, <2>2
  <2>7. AnswersHeard'
    BY <1>3, <1>4, <2>1, <2>2, <2>3, <2>6, AnswersNext
  <2>8. NoStaleReservation'
    BY <1>2, <1>4, <2>1, <2>2, <2>3 DEF NoStaleReservation, Running, At
  <2>9. QED
    BY <2>4, <2>5, <2>7, <2>8 DEF ReservationInv
<1>10. CASE ExpiryPublished
  <2>1. /\ At("expiry published") /\ UNCHANGED << generations, pending, saves, events >>
        /\ clock' = VersionAt(pc.reservation, 0) /\ pc' = Idle
    BY <1>10 DEF ExpiryPublished, writer, bridge
  <2>2. NoneAwaited(events) /\ NoneAwaited(saves) /\ pending = None /\ pc.reservation \in Reserved
    BY <1>2, <2>1 DEF AnswersHeard, At, OneRemoval, Expiring
  <2>3. clock' \in Stamp
    BY <1>5, <2>1, <2>2
  <2>4. ActorTyped'
    BY <1>1, <1>4, <2>1, <2>3 DEF ActorTyped, Where
  <2>5. OneRemoval' /\ NoStaleReservation'
    BY <1>4, <2>1, <2>2 DEF OneRemoval, Deleting, Expiring, NoStaleReservation
  <2>6. AnswersHeard'
    BY <1>3, <1>4, <2>1, <2>2, AnswersNext
  <2>7. QED
    BY <2>4, <2>5, <2>6 DEF ReservationInv
<1>11. CASE ExpiryNotCommitted
  <2>1. /\ At("expiry failed") /\ UNCHANGED << clock, generations, pending, saves, events >>
        /\ pc' = Idle
    BY <1>11 DEF ExpiryNotCommitted, writer, bridge
  <2>2. NoneAwaited(events) /\ NoneAwaited(saves) /\ pending = None
    BY <1>2, <2>1 DEF AnswersHeard, At, OneRemoval, Expiring
  <2>3. ActorTyped'
    BY <1>1, <1>4, <2>1 DEF ActorTyped, Where
  <2>4. OneRemoval' /\ NoStaleReservation'
    BY <1>4, <2>1, <2>2 DEF OneRemoval, Deleting, Expiring, NoStaleReservation
  <2>5. AnswersHeard'
    BY <1>3, <1>4, <2>1, <2>2, AnswersNext
  <2>6. QED
    BY <2>3, <2>4, <2>5 DEF ReservationInv
<1>12. CASE GiveUp
  <2>1. /\ pc.at \in {"persist", "publish", "expiry persist", "expiry publish", "failed"}
        /\ UNCHANGED << clock, generations, pending >> /\ pc' = Idle
        /\ saves' = Unheard(saves) /\ events' = Unheard(events)
    BY <1>12 DEF GiveUp, actor
  <2>2. ActorTyped'
    BY <1>1, <1>4, <2>1 DEF ActorTyped, Where
  <2>3. OneRemoval' /\ NoStaleReservation'
    BY <1>2, <1>4, <2>1 DEF OneRemoval, Deleting, Expiring, NoStaleReservation, Running
  <2>4. /\ \A k \in DOMAIN saves : "awaited" \in DOMAIN saves[k]
        /\ \A k \in DOMAIN saves : IsSave([saves[k] EXCEPT !.awaited = FALSE])
    BY <1>3, SaveFields
  <2>5. /\ \A k \in DOMAIN events : "awaited" \in DOMAIN events[k]
        /\ \A k \in DOMAIN events : IsEvent([events[k] EXCEPT !.awaited = FALSE])
    BY <1>3, EventFields
  <2>6. /\ OneAwaited(saves') /\ NoneAwaited(saves')
        /\ \A k \in DOMAIN saves' : IsSave(saves'[k])
    <3>1. Silenced(saves, saves')
      BY <1>3, <2>1, <2>4, UnheardQueue
    <3>2. QED
      BY <2>4, <3>1 DEF Silenced
  <2>7. /\ OneAwaited(events') /\ NoneAwaited(events')
        /\ \A k \in DOMAIN events' : IsEvent(events'[k])
    <3>1. Silenced(events, events')
      BY <1>3, <2>1, <2>5, UnheardQueue
    <3>2. QED
      BY <2>5, <3>1 DEF Silenced
  <2>8. AnswersHeard'
    BY <2>6, <2>7, AnswersNext
  <2>9. QED
    BY <2>2, <2>3, <2>8 DEF ReservationInv
<1>13. QED
  BY <1>7, <1>8, <1>9, <1>10, <1>11, <1>12 DEF Continues

\* The writer takes the first command; the answer goes to the actor that waits for it.
LEMMA AnsweredFacts ==
  ASSUME ReservationInv, saves # << >>, NEW ok \in BOOLEAN, pc' = Answered(Head(saves), ok)
  PROVE  \/ ~Head(saves).awaited /\ pc' = pc
         \/ /\ Head(saves).awaited /\ pc.at = "persist"
            /\ pc' = [pc EXCEPT !.at = IF ok THEN "persisted" ELSE "failed"]
         \/ /\ Head(saves).awaited /\ pc.at = "expiry persist"
            /\ pc' = [pc EXCEPT !.at = IF ok THEN "expiry persisted" ELSE "expiry failed"]
<1>1. CASE ~Head(saves).awaited
  BY <1>1 DEF Answered
<1>2. CASE Head(saves).awaited
  <2>1. OneAwaited(saves) /\ (pc.at \notin {"persist", "expiry persist"} => NoneAwaited(saves))
    BY DEF ReservationInv, AnswersHeard
  <2>2. Shortened(saves, Tail(saves))
    BY <2>1, TailQueue
  <2>3. pc.at \in {"persist", "expiry persist"}
    BY <1>2, <2>1, <2>2 DEF Shortened, NoneAwaited
  <2>4. CASE ok
    BY <1>2, <2>3, <2>4 DEF Answered, At
  <2>5. CASE ~ok
    BY <1>2, <2>3, <2>5 DEF Answered, At
  <2>6. QED
    BY <2>4, <2>5
<1>3. QED
  BY <1>1, <1>2

\* The same of the bridge.
LEMMA ReceiptedFacts ==
  ASSUME ReservationInv, events # << >>, NEW ok \in BOOLEAN, pc' = Receipted(Head(events), ok)
  PROVE  \/ ~Head(events).awaited /\ pc' = pc
         \/ Head(events).awaited /\ ~ok /\ pc' = [pc EXCEPT !.at = "failed"]
         \/ /\ Head(events).awaited /\ ok /\ pc.at = "publish"
            /\ pc' = [pc EXCEPT !.at = "published"]
         \/ /\ Head(events).awaited /\ ok /\ pc.at = "expiry publish"
            /\ pc' = [pc EXCEPT !.at = "expiry published"]
<1>1. CASE ~Head(events).awaited
  BY <1>1 DEF Receipted
<1>2. CASE Head(events).awaited
  <2>1. OneAwaited(events) /\ (pc.at \notin {"publish", "expiry publish"} => NoneAwaited(events))
    BY DEF ReservationInv, AnswersHeard
  <2>2. Shortened(events, Tail(events))
    BY <2>1, TailQueue
  <2>3. pc.at \in {"publish", "expiry publish"}
    BY <1>2, <2>1, <2>2 DEF Shortened, NoneAwaited
  <2>4. CASE ok
    BY <1>2, <2>3, <2>4 DEF Receipted, At
  <2>5. CASE ~ok
    BY <1>2, <2>5 DEF Receipted, At
  <2>6. QED
    BY <2>4, <2>5
<1>3. QED
  BY <1>1, <1>2

LEMMA WriteReserves ==
  ASSUME ReservationInv, Writes
  PROVE  ReservationInv'
<1>1. ActorTyped /\ OneRemoval /\ NoStaleReservation
  BY DEF ReservationInv
<1>2. /\ OneAwaited(saves) /\ (pc.at \notin {"persist", "expiry persist"} => NoneAwaited(saves))
      /\ OneAwaited(events) /\ (pc.at \notin {"publish", "expiry publish"} => NoneAwaited(events))
      /\ \A k \in DOMAIN saves : IsSave(saves[k])
      /\ \A k \in DOMAIN events : IsEvent(events[k])
  BY DEF ReservationInv, AnswersHeard
<1>3. UNCHANGED << clock, generations, pending, events >>
  BY DEF Writes, ToolSave, WriterSave, WriterTick, WriterFlush, actor, bridge
<1>4. ASSUME pc' = pc, OneAwaited(saves'), \A k \in DOMAIN saves' : IsSave(saves'[k]),
             NoneAwaited(saves) => NoneAwaited(saves')
      PROVE  ReservationInv'
  <2>1. AnswersHeard'
    BY <1>2, <1>3, <1>4, AnswersNext
  <2>2. ActorTyped' /\ OneRemoval' /\ NoStaleReservation'
    BY <1>1, <1>3, <1>4 DEF ActorTyped, OneRemoval, NoStaleReservation, Running
  <2>3. QED
    BY <2>1, <2>2 DEF ReservationInv
<1>5. CASE ToolSave
  <2>1. pc' = pc /\ saves' = Append(saves, SaveCmd(tasks))
    BY <1>5 DEF ToolSave
  <2>2. IsSave(SaveCmd(tasks)) /\ ~SaveCmd(tasks).awaited
    BY FlushFacts
  <2>3. Lengthened(saves, SaveCmd(tasks), saves')
    BY <1>2, <2>1, <2>2, AppendQueue
  <2>4. QED
    BY <1>2, <1>4, <2>1, <2>2, <2>3 DEF Lengthened
<1>6. CASE WriterSave
  <2>1. pc' = pc /\ saves' = Tail(saves) /\ saves # << >>
    BY <1>6 DEF WriterSave
  <2>2. /\ OneAwaited(saves') /\ (NoneAwaited(saves) => NoneAwaited(saves'))
        /\ \A k \in DOMAIN saves' : \E i \in DOMAIN saves : saves'[k] = saves[i]
    <3>1. Shortened(saves, saves')
      BY <1>2, <2>1, TailQueue
    <3>2. QED
      BY <3>1 DEF Shortened
  <2>3. QED
    BY <1>2, <1>4, <2>1, <2>2
<1>7. CASE \E ok \in BOOLEAN : WriterTick(ok)
  <2>1. pc' = pc /\ saves' = saves
    BY <1>7 DEF WriterTick
  <2>2. QED
    BY <1>2, <1>4, <2>1
<1>8. ASSUME NEW ok \in BOOLEAN, NEW replaced \in BOOLEAN, WriterFlush(ok, replaced)
      PROVE  ReservationInv'
  <2>1. pc' = Answered(Head(saves), ok) /\ saves' = Tail(saves) /\ saves # << >>
    BY <1>8 DEF WriterFlush
  <2>2. /\ OneAwaited(saves') /\ (NoneAwaited(saves) => NoneAwaited(saves'))
        /\ (Head(saves).awaited => NoneAwaited(saves'))
        /\ \A k \in DOMAIN saves' : \E i \in DOMAIN saves : saves'[k] = saves[i]
    <3>1. Shortened(saves, saves')
      BY <1>2, <2>1, TailQueue
    <3>2. QED
      BY <3>1 DEF Shortened
  <2>3. \A k \in DOMAIN saves' : IsSave(saves'[k])
    BY <1>2, <2>2
  <2>4. CASE ~Head(saves).awaited /\ pc' = pc
    BY <1>4, <2>2, <2>3, <2>4
  <2>5. ASSUME NEW where \in {"persisted", "failed", "expiry persisted", "expiry failed"},
               Head(saves).awaited, pc' = [pc EXCEPT !.at = where],
               \/ pc.at = "persist" /\ where \in {"persisted", "failed"}
               \/ pc.at = "expiry persist" /\ where \in {"expiry persisted", "expiry failed"}
        PROVE  ReservationInv'
    <3>1. pc' = [at |-> where, task |-> pc.task, index |-> pc.index, reservation |-> pc.reservation]
      BY <1>1, <2>5, PlaceFields
    <3>2. where \in Where
      BY DEF Where
    <3>3. ActorTyped'
      BY <1>1, <1>3, <3>1, <3>2 DEF ActorTyped
    <3>4. OneRemoval'
      BY <1>1, <1>3, <2>5, <3>1 DEF OneRemoval, Deleting, Expiring
    <3>5. NoStaleReservation'
      BY <1>1, <1>3, <2>5, <3>1 DEF NoStaleReservation, Running
    <3>6. AnswersHeard'
      BY <1>2, <1>3, <2>2, <2>3, <2>5, <3>1, AnswersNext
    <3>7. QED
      BY <3>3, <3>4, <3>5, <3>6 DEF ReservationInv
  <2>6. QED
    BY <2>1, <2>4, <2>5, AnsweredFacts
<1>9. QED
  BY <1>5, <1>6, <1>7, <1>8 DEF Writes

LEMMA ForwardReserves ==
  ASSUME ReservationInv, Forwards
  PROVE  ReservationInv'
<1>1. ActorTyped /\ OneRemoval /\ NoStaleReservation
  BY DEF ReservationInv
<1>2. /\ OneAwaited(saves) /\ (pc.at \notin {"persist", "expiry persist"} => NoneAwaited(saves))
      /\ OneAwaited(events) /\ (pc.at \notin {"publish", "expiry publish"} => NoneAwaited(events))
      /\ \A k \in DOMAIN saves : IsSave(saves[k])
      /\ \A k \in DOMAIN events : IsEvent(events[k])
  BY DEF ReservationInv, AnswersHeard
<1>3. /\ UNCHANGED << clock, generations, pending, saves >>
      /\ events # << >> /\ events' = Tail(events)
  BY DEF Forwards, Forward, AppendDurably, actor, writer
<1>4. /\ OneAwaited(events') /\ (NoneAwaited(events) => NoneAwaited(events'))
      /\ (Head(events).awaited => NoneAwaited(events'))
      /\ \A k \in DOMAIN events' : \E i \in DOMAIN events : events'[k] = events[i]
  <2>1. Shortened(events, events')
    BY <1>2, <1>3, TailQueue
  <2>2. QED
    BY <2>1 DEF Shortened
<1>5. \A k \in DOMAIN events' : IsEvent(events'[k])
  BY <1>2, <1>4
<1>6. ASSUME pc' = pc
      PROVE  ReservationInv'
  <2>1. AnswersHeard'
    BY <1>2, <1>3, <1>4, <1>5, <1>6, AnswersNext
  <2>2. ActorTyped' /\ OneRemoval' /\ NoStaleReservation'
    BY <1>1, <1>3, <1>6 DEF ActorTyped, OneRemoval, NoStaleReservation, Running
  <2>3. QED
    BY <2>1, <2>2 DEF ReservationInv
<1>7. CASE Forward
  BY <1>6, <1>7 DEF Forward
<1>8. ASSUME NEW ok \in BOOLEAN, NEW landed \in BOOLEAN, AppendDurably(ok, landed)
      PROVE  ReservationInv'
  <2>1. pc' = Receipted(Head(events), ok)
    BY <1>8 DEF AppendDurably
  <2>2. Head(events).awaited => pc.at \in {"publish", "expiry publish"}
    <3>1. Shortened(events, Tail(events))
      BY <1>2, <1>3, TailQueue
    <3>2. QED
      BY <1>2, <3>1 DEF Shortened, NoneAwaited
  <2>3. ASSUME NEW where \in {"published", "failed", "expiry published"},
               Head(events).awaited, pc' = [pc EXCEPT !.at = where],
               \/ pc.at = "publish" /\ where \in {"published", "failed"}
               \/ pc.at = "expiry publish" /\ where \in {"expiry published", "failed"}
        PROVE  ReservationInv'
    <3>1. pc' = [at |-> where, task |-> pc.task, index |-> pc.index, reservation |-> pc.reservation]
      BY <1>1, <2>3, PlaceFields
    <3>2. where \in Where
      BY DEF Where
    <3>3. ActorTyped'
      BY <1>1, <1>3, <3>1, <3>2 DEF ActorTyped
    <3>4. OneRemoval'
      BY <1>1, <1>3, <2>3, <3>1 DEF OneRemoval, Deleting, Expiring
    <3>5. NoStaleReservation'
      BY <1>1, <1>3, <2>3, <3>1 DEF NoStaleReservation, Running
    <3>6. AnswersHeard'
      BY <1>2, <1>3, <1>4, <1>5, <2>3, <3>1, AnswersNext
    <3>7. QED
      BY <3>3, <3>4, <3>5, <3>6 DEF ReservationInv
  <2>4. QED
    BY <1>3, <1>6, <2>1, <2>2, <2>3, ReceiptedFacts
<1>9. QED
  BY <1>7, <1>8 DEF Forwards

\* A shutdown, a bridge that ends, a crash, and the start after it.
LEMMA OutsideReserves ==
  ASSUME ReservationInv, tasks \in Seq(Tasks), disk \in Seq(Tasks),
         AbandonDelete \/ Shutdown \/ Faults \/ Passes
  PROVE  ReservationInv'
<1>1. ActorTyped /\ OneRemoval /\ NoStaleReservation /\ AnswersHeard
  BY DEF ReservationInv
<1>2. /\ OneAwaited(saves) /\ (pc.at \notin {"persist", "expiry persist"} => NoneAwaited(saves))
      /\ OneAwaited(events) /\ (pc.at \notin {"publish", "expiry publish"} => NoneAwaited(events))
      /\ \A k \in DOMAIN saves : IsSave(saves[k])
      /\ \A k \in DOMAIN events : IsEvent(events[k])
  BY DEF ReservationInv, AnswersHeard
<1>3. clock \in Stamp /\ generations \in Nat /\ pending \in Removal \union {None}
  BY <1>1 DEF ActorTyped
<1>4. {"idle", "stopped", "crashed", "failed"} \subseteq Where
  BY DEF Where
<1>5. Idle = [at |-> "idle", task |-> None, index |-> 0, reservation |-> None]
  BY DEF Idle
<1>6. CASE AbandonDelete
  <2>1. /\ At("idle") /\ pending' = None
        /\ UNCHANGED << clock, generations, pc, saves, events >>
    BY <1>6 DEF AbandonDelete, Selects, writer, bridge
  <2>2. ActorTyped' /\ OneRemoval' /\ NoStaleReservation'
    BY <1>1, <2>1 DEF ActorTyped, OneRemoval, NoStaleReservation, At, Deleting, Expiring
  <2>3. AnswersHeard'
    BY <1>2, <2>1, AnswersNext
  <2>4. QED
    BY <2>2, <2>3 DEF ReservationInv
<1>7. CASE Shutdown
  <2>1. /\ pc' = [at |-> "stopped", task |-> None, index |-> 0, reservation |-> None]
        /\ UNCHANGED << pending, saves >> /\ At("idle")
    BY <1>4, <1>7, IdleFacts DEF Shutdown, writer
  <2>2. NoneAwaited(saves) /\ NoneAwaited(events)
    BY <1>2, <2>1 DEF At
  <2>3. /\ clock' \in Stamp /\ generations' \in Nat
        /\ OneAwaited(events') /\ NoneAwaited(events') /\ \A k \in DOMAIN events' : IsEvent(events'[k])
    <3>1. CASE tasks = << >>
      BY <1>2, <1>3, <1>7, <2>2, <3>1 DEF Shutdown
    <3>2. CASE tasks # << >>
      <4> DEFINE n == Len(tasks)
                 r == PrepareTransition(n)
                 notices == [k \in DOMAIN tasks |-> Notice("removed", tasks[k], VersionAt(r, k - 1))]
      <4>1. n \in Nat /\ n - 1 \in Nat /\ DOMAIN tasks = 1..n
        BY <3>2
      <4>2. clock' = VersionAt(r, n - 1) /\ Draw(n) /\ Send(notices)
        BY <1>7, <3>2 DEF Shutdown
      <4>3. r \in Reserved
        BY <1>3, <4>1, ReservedFacts
      <4> HIDE DEF r
      <4>4. clock' \in Stamp /\ generations' \in Nat
        BY <1>3, <4>1, <4>2, <4>3, VersionFacts, DrawFacts
      <4>5. /\ DOMAIN notices = 1..n
            /\ \A k \in DOMAIN notices : IsEvent(notices[k]) /\ ~notices[k].awaited
        BY <4>1, NoticeFacts
      <4>6. notices \in [1..n -> {notices[k] : k \in DOMAIN notices}]
        BY <4>1
      <4> HIDE DEF notices, n
      <4>7. OneAwaited(notices) /\ NoneAwaited(notices)
        <5>1. notices \in Seq({notices[k] : k \in DOMAIN notices})
          BY <4>1, <4>6, FunctionIsSeq
        <5>2. QED
          BY <4>5, <5>1 DEF OneAwaited, NoneAwaited
      <4>8. QED
        BY <1>1, <2>2, <4>2, <4>4, <4>5, <4>7, SendFacts
    <3>3. QED
      BY <3>1, <3>2
  <2>4. ActorTyped'
    BY <1>3, <1>4, <2>1, <2>3 DEF ActorTyped
  <2>5. OneRemoval' /\ NoStaleReservation'
    BY <2>1 DEF OneRemoval, NoStaleReservation, Running, Deleting, Expiring
  <2>6. AnswersHeard'
    BY <1>2, <2>1, <2>2, <2>3, AnswersNext
  <2>7. QED
    BY <2>4, <2>5, <2>6 DEF ReservationInv
<1>8. CASE CloseTarget
  <2>1. /\ UNCHANGED << clock, generations, pending, saves >>
        /\ pc' = IF pc.at \in {"publish", "expiry publish"} THEN [pc EXCEPT !.at = "failed"] ELSE pc
    BY <1>8 DEF CloseTarget, actor, writer
  <2>2. [pc EXCEPT !.at = "failed"] =
          [at |-> "failed", task |-> pc.task, index |-> pc.index, reservation |-> pc.reservation]
    BY <1>1, PlaceFields
  <2>3. OneAwaited(events') /\ NoneAwaited(events') /\ \A k \in DOMAIN events' : IsEvent(events'[k])
    <3>1. CutShort(events, events')
      BY <1>2, <1>8, CloseCuts DEF AnswersHeard
    <3>2. QED
      BY <3>1 DEF CutShort
  <2>4. ActorTyped'
    BY <1>1, <1>4, <2>1, <2>2 DEF ActorTyped
  <2>5. OneRemoval' /\ NoStaleReservation'
    BY <1>1, <2>1, <2>2 DEF OneRemoval, NoStaleReservation, Running, Deleting, Expiring
  <2>6. AnswersHeard'
    BY <1>2, <2>1, <2>2, <2>3, AnswersNext
  <2>7. QED
    BY <2>4, <2>5, <2>6 DEF ReservationInv
<1>9. CASE Cancel \/ Passes
  <2>1. UNCHANGED << clock, generations, pending, pc, saves, events >>
    BY <1>9 DEF Cancel, Passes, Tick, Expire, actor, writer, bridge
  <2>2. ActorTyped' /\ OneRemoval' /\ NoStaleReservation'
    BY <1>1, <2>1 DEF ActorTyped, OneRemoval, NoStaleReservation, Running
  <2>3. AnswersHeard'
    BY <1>2, <2>1, AnswersNext
  <2>4. QED
    BY <2>2, <2>3 DEF ReservationInv
<1>10. CASE Crash
  <2>1. /\ UNCHANGED << clock, generations, pending >> /\ saves' = << >> /\ events' = << >>
        /\ pc' = [at |-> "crashed", task |-> None, index |-> 0, reservation |-> None]
    BY <1>4, <1>10, IdleFacts DEF Crash, actor
  <2>2. ActorTyped'
    BY <1>3, <1>4, <2>1 DEF ActorTyped
  <2>3. OneRemoval' /\ NoStaleReservation'
    BY <2>1 DEF OneRemoval, NoStaleReservation, Running, Deleting, Expiring
  <2>4. AnswersHeard'
    BY <2>1, EmptyQueue, AnswersNext
  <2>5. QED
    BY <2>2, <2>3, <2>4 DEF ReservationInv
<1>11. CASE Restart
  <2>1. /\ At("crashed") /\ generations' = generations + 1 /\ clock' = [gen |-> generations + 1, rev |-> 0]
        /\ pending' = None /\ pc' = Idle /\ saves' = saves
    BY <1>11 DEF Restart, writer
  <2>2. PICK places \in Announced(disk, due') :
          events' = [k \in DOMAIN places |-> Notice("created", disk[places[k]], clock')]
    BY <1>11 DEF Restart
  <2>3. PICK n \in Nat : DOMAIN places = 1..n
    BY DEF Announced
  <2>4. OneAwaited(events') /\ NoneAwaited(events') /\ \A k \in DOMAIN events' : IsEvent(events'[k])
    <3>1. \A k \in DOMAIN events' : IsEvent(events'[k]) /\ ~events'[k].awaited
      BY <2>2, NoticeFacts
    <3>2. events' \in [1..n -> {events'[k] : k \in DOMAIN events'}]
      BY <2>2, <2>3
    <3>3. events' \in Seq({events'[k] : k \in DOMAIN events'})
      BY <3>2, FunctionIsSeq
    <3>4. QED
      BY <3>1, <3>3 DEF OneAwaited, NoneAwaited
  <2>5. NoneAwaited(saves)
    BY <1>2, <2>1 DEF At
  <2>6. ActorTyped'
    BY <1>3, <1>4, <1>5, <2>1 DEF ActorTyped, Stamp
  <2>7. OneRemoval' /\ NoStaleReservation'
    BY <1>5, <2>1 DEF OneRemoval, NoStaleReservation, Running, Deleting, Expiring
  <2>8. AnswersHeard'
    BY <1>2, <2>1, <2>4, <2>5, AnswersNext
  <2>9. QED
    BY <2>6, <2>7, <2>8 DEF ReservationInv
<1>12. QED
  BY <1>6, <1>7, <1>8, <1>9, <1>10, <1>11 DEF Faults

LEMMA ReservationStep ==
  ASSUME ReservationInv, tasks \in Seq(Tasks), disk \in Seq(Tasks), [Next]_vars
  PROVE  ReservationInv'
<1>1. CASE Commands
  <2>1. CASE \E t \in Tasks : Create(t) \/ (\E interval \in BOOLEAN : Update(t, interval))
    BY <2>1, StampActions
  <2>2. CASE (\E t \in Tasks : Delete(t))
    BY <2>2, AwaitActions
  <2>3. CASE RetryDelete
    <3>1. PICK t \in Tasks : TRUE
      BY <2>3 DEF RetryDelete, ReservationInv, ActorTyped, Removal
    <3>2. QED
      BY <2>3, <3>1, AwaitActions
  <2>4. CASE AbandonDelete
    BY <2>4, OutsideReserves
  <2>5. QED
    BY <1>1, <2>1, <2>2, <2>3, <2>4 DEF Commands
<1>2. CASE Timer
  <2>1. PICK i : \/ BlockExpiry(i) \/ ExpireDurable(i) \/ ExpireSessionOnly(i)
                 \/ FireRecurring(i) \/ SkipRecurring(i) \/ FireOneShot(i)
    BY <1>2 DEF Timer
  <2>2. CASE ExpireDurable(i)
    <3>1. tasks[i] \in Tasks
      <4>1. i \in DOMAIN tasks
        BY <2>2 DEF ExpireDurable, Fires
      <4>2. QED
        BY <4>1
    <3>2. QED
      BY <2>2, <3>1, AwaitActions
  <2>3. CASE ~ExpireDurable(i)
    BY <2>1, <2>3, StampActions
  <2>4. QED
    BY <2>2, <2>3
<1>3. CASE Continues \/ Writes \/ Forwards
  BY <1>3, ContinueActions, WriteReserves, ForwardReserves
<1>4. CASE Shutdown \/ Faults \/ Passes
  BY <1>4, OutsideReserves
<1>5. CASE UNCHANGED vars
  <2>1. UNCHANGED << clock, generations, pending, pc, saves, events >>
    BY <1>5 DEF vars, actor, writer, bridge
  <2>2. ActorTyped' /\ OneRemoval' /\ NoStaleReservation'
    BY <2>1 DEF ReservationInv, ActorTyped, OneRemoval, NoStaleReservation, Running
  <2>3. AnswersHeard'
    BY <2>1, AnswersNext DEF ReservationInv, AnswersHeard
  <2>4. QED
    BY <2>2, <2>3 DEF ReservationInv
<1>6. QED
  BY <1>1, <1>2, <1>3, <1>4, <1>5 DEF Next

-----------------------------------------------------------------------------
(***************************************************************************)
(* Copies of the tasks                                                     *)
(***************************************************************************)

\* A list of tasks, each of them once, and none of the tasks given.
CleanOf(s, gone, young) ==
  /\ s \in Seq(Tasks)
  /\ \A i, j \in DOMAIN s : s[i] = s[j] => i = j
  /\ \A i \in DOMAIN s : s[i] \notin gone \union young

LEMMA CleanSeq ==
  ASSUME NEW s, NEW g, NEW y, CleanOf(s, g, y)
  PROVE  s \in Seq(Tasks) /\ Len(s) \in Nat /\ DOMAIN s = 1..Len(s)
BY DEF CleanOf

LEMMA CleanFewer ==
  ASSUME NEW s, NEW g, NEW y, CleanOf(s, g, y), NEW h, h \subseteq g, NEW z, z \subseteq y
  PROVE  CleanOf(s, h, z)
BY DEF CleanOf

LEMMA CleanMore ==
  ASSUME NEW s, NEW g, NEW y, CleanOf(s, g, y), NEW t, t \notin Range(s)
  PROVE  CleanOf(s, g \union {t}, y)
BY DEF CleanOf, Range

\* One list behind another.
Behind(u, w, r) ==
  /\ r \in Seq(Tasks) /\ DOMAIN r = 1..(Len(u) + Len(w)) /\ Len(r) = Len(u) + Len(w)
  /\ \A i \in 1..(Len(u) + Len(w)) : r[i] = IF i <= Len(u) THEN u[i] ELSE w[i - Len(u)]

LEMMA BehindFacts ==
  ASSUME NEW u \in Seq(Tasks), NEW w \in Seq(Tasks)
  PROVE  Behind(u, w, u \o w)
<1> DEFINE r == u \o w
<1>1. /\ r \in Seq(Tasks) /\ Len(r) = Len(u) + Len(w)
      /\ \A i \in 1..(Len(u) + Len(w)) : r[i] = IF i <= Len(u) THEN u[i] ELSE w[i - Len(u)]
  BY ConcatProperties
<1> HIDE DEF r
<1>2. DOMAIN r = 1..(Len(u) + Len(w))
  BY <1>1
<1>3. Behind(u, w, r)
  BY <1>1, <1>2 DEF Behind
<1>4. QED
  BY <1>3 DEF r

\* Without the task at a place.
LEMMA CleanRemove ==
  ASSUME NEW s, NEW g, NEW y, CleanOf(s, g, y), NEW p \in DOMAIN s
  PROVE  /\ CleanOf(RemoveAt(s, p), g \union {s[p]}, y) /\ Len(RemoveAt(s, p)) = Len(s) - 1
         /\ Range(RemoveAt(s, p)) \subseteq Range(s)
         /\ Range(s) \subseteq Range(RemoveAt(s, p)) \union {s[p]}
<1> DEFINE r == RemoveAt(s, p)
           u == SubSeq(s, 1, p - 1)
           w == SubSeq(s, p + 1, Len(s))
<1>1. s \in Seq(Tasks) /\ Len(s) \in Nat /\ DOMAIN s = 1..Len(s) /\ p \in 1..Len(s)
  BY CleanSeq
<1>2. u \in Seq(Tasks) /\ Len(u) = p - 1 /\ \A i \in 1..(p - 1) : u[i] = s[i]
  BY <1>1
<1>3. w \in Seq(Tasks) /\ Len(w) = Len(s) - p /\ \A i \in 1..(Len(s) - p) : w[i] = s[p + i]
  BY <1>1
<1>4. r = u \o w
  BY DEF RemoveAt
<1> HIDE DEF r, u, w
<1>a. Behind(u, w, r)
  BY <1>2, <1>3, <1>4, BehindFacts
<1>b. Len(u) + Len(w) = Len(s) - 1
  BY <1>1, <1>2, <1>3
<1>5. r \in Seq(Tasks) /\ Len(r) = Len(s) - 1 /\ DOMAIN r = 1..(Len(s) - 1)
  BY <1>a, <1>b DEF Behind
<1>6. \A i \in 1..(Len(s) - 1) : r[i] = IF i <= p - 1 THEN u[i] ELSE w[i - (p - 1)]
  BY <1>2, <1>a, <1>b DEF Behind
<1>7. \A i \in 1..(Len(s) - 1) : r[i] = s[IF i < p THEN i ELSE i + 1]
  <2>1. SUFFICES ASSUME NEW i \in 1..(Len(s) - 1)
                 PROVE  r[i] = s[IF i < p THEN i ELSE i + 1]
    OBVIOUS
  <2>2. CASE i < p
    <3>1. i <= p - 1 /\ i \in 1..(p - 1)
      BY <1>1, <2>2
    <3>2. QED
      BY <1>2, <1>6, <2>2, <3>1
  <2>3. CASE ~(i < p)
    <3>1. ~(i <= p - 1) /\ i - (p - 1) \in 1..(Len(s) - p) /\ p + (i - (p - 1)) = i + 1
      BY <1>1, <2>3
    <3>2. r[i] = w[i - (p - 1)]
      BY <1>6, <3>1
    <3>3. QED
      BY <1>3, <2>3, <3>1, <3>2
  <2>4. QED
    BY <2>2, <2>3
<1>8. \A i \in DOMAIN r : \E j \in DOMAIN s : r[i] = s[j] /\ j # p
  <2>1. \A i \in 1..(Len(s) - 1) : (IF i < p THEN i ELSE i + 1) \in DOMAIN s \ {p}
    BY <1>1
  <2>2. QED
    BY <1>5, <1>7, <2>1
<1>9. \A i, j \in DOMAIN r : r[i] = r[j] => i = j
  <2>1. SUFFICES ASSUME NEW i \in DOMAIN r, NEW j \in DOMAIN r, r[i] = r[j]
                 PROVE  i = j
    OBVIOUS
  <2> DEFINE a == IF i < p THEN i ELSE i + 1
             b == IF j < p THEN j ELSE j + 1
  <2>2. a \in DOMAIN s /\ b \in DOMAIN s /\ s[a] = s[b]
    BY <1>1, <1>5, <1>7, <2>1
  <2>3. a = b
    BY <2>2 DEF CleanOf
  <2>4. QED
    BY <1>1, <1>5, <2>3
<1>10. \A i \in DOMAIN r : r[i] # s[p] /\ r[i] \notin g \union y
  BY <1>8 DEF CleanOf
<1>11. s[p] \notin y
  BY DEF CleanOf
<1>12. CleanOf(r, g \union {s[p]}, y)
  BY <1>5, <1>9, <1>10 DEF CleanOf
<1>13. Range(r) \subseteq Range(s)
  BY <1>8 DEF Range
<1>14. \A j \in DOMAIN s : j # p => \E i \in DOMAIN r : r[i] = s[j]
  <2>1. SUFFICES ASSUME NEW j \in DOMAIN s, j # p
                 PROVE  \E i \in DOMAIN r : r[i] = s[j]
    OBVIOUS
  <2> DEFINE i == IF j < p THEN j ELSE j - 1
  <2>2. i \in 1..(Len(s) - 1) /\ (IF i < p THEN i ELSE i + 1) = j
    BY <1>1, <2>1
  <2>3. QED
    BY <1>5, <1>7, <2>2
<1>15. Range(s) \subseteq Range(r) \union {s[p]}
  BY <1>14 DEF Range
<1>16. QED
  BY <1>5, <1>12, <1>13, <1>15 DEF r

\* With a task that was not there, at the end or at a place.
LEMMA CleanAppend ==
  ASSUME NEW s, NEW g, NEW y, CleanOf(s, g, y), NEW t \in Tasks, t \notin g, t \notin Range(s)
  PROVE  /\ CleanOf(Append(s, t), g, y \ {t}) /\ Range(Append(s, t)) = Range(s) \union {t}
<1> DEFINE r == Append(s, t)
<1>1. s \in Seq(Tasks) /\ Len(s) \in Nat /\ DOMAIN s = 1..Len(s)
  BY CleanSeq
<1>2. /\ r \in Seq(Tasks) /\ DOMAIN r = 1..(Len(s) + 1) /\ r[Len(s) + 1] = t
      /\ \A i \in 1..Len(s) : r[i] = s[i]
  BY <1>1
<1> HIDE DEF r
<1>3. \A i \in DOMAIN r : i \in DOMAIN s \/ i = Len(s) + 1
  BY <1>1, <1>2
<1>4. \A i \in DOMAIN s : s[i] # t
  BY DEF Range
<1>5. \A i, j \in DOMAIN r : r[i] = r[j] => i = j
  BY <1>1, <1>2, <1>3, <1>4 DEF CleanOf
<1>6. \A i \in DOMAIN r : r[i] \notin g \union (y \ {t})
  BY <1>1, <1>2, <1>3 DEF CleanOf
<1>7. CleanOf(r, g, y \ {t})
  BY <1>2, <1>5, <1>6 DEF CleanOf
<1>8. Range(r) = Range(s) \union {t}
  <2>1. Range(r) \subseteq Range(s) \union {t}
    BY <1>1, <1>2, <1>3 DEF Range
  <2>2. \A i \in DOMAIN s : i \in DOMAIN r /\ r[i] = s[i]
    BY <1>1, <1>2
  <2>3. Len(s) + 1 \in DOMAIN r
    BY <1>1, <1>2
  <2>4. QED
    BY <1>2, <2>1, <2>2, <2>3 DEF Range
<1>9. QED
  BY <1>7, <1>8 DEF r

LEMMA CleanInsert ==
  ASSUME NEW s, NEW g, NEW y, CleanOf(s, g, y), NEW t \in Tasks, t \notin g \union y,
         t \notin Range(s), NEW p \in 1..(Len(s) + 1)
  PROVE  CleanOf(InsertAt(s, p, t), g, y) /\ Range(InsertAt(s, p, t)) = Range(s) \union {t}
<1> DEFINE r == InsertAt(s, p, t)
           u == SubSeq(s, 1, p - 1)
           m == << t >>
           w == SubSeq(s, p, Len(s))
<1>1. s \in Seq(Tasks) /\ Len(s) \in Nat /\ DOMAIN s = 1..Len(s)
  BY CleanSeq
<1>2. u \in Seq(Tasks) /\ Len(u) = p - 1 /\ \A i \in 1..(p - 1) : u[i] = s[i]
  BY <1>1
<1>3. /\ w \in Seq(Tasks) /\ Len(w) = Len(s) + 1 - p
      /\ \A i \in 1..(Len(s) + 1 - p) : w[i] = s[p - 1 + i]
  BY <1>1
<1>4. m \in Seq(Tasks) /\ Len(m) = 1 /\ m[1] = t
  OBVIOUS
<1>5. r = (u \o m) \o w
  BY DEF InsertAt
<1> DEFINE v == u \o m
<1> HIDE DEF r, u, w, m
<1>a. Behind(u, m, v)
  BY <1>2, <1>4, BehindFacts
<1> HIDE DEF v
<1>6. v \in Seq(Tasks) /\ Len(v) = p /\ v[p] = t /\ \A i \in 1..(p - 1) : v[i] = s[i]
  <2>1. Len(u) + Len(m) = p /\ Len(u) = p - 1 /\ p \in 1..p /\ ~(p <= p - 1) /\ p - (p - 1) = 1
    BY <1>1, <1>2, <1>4
  <2>2. v[p] = t
    BY <1>4, <1>a, <2>1 DEF Behind
  <2>3. \A i \in 1..(p - 1) : i \in 1..p /\ i <= p - 1
    BY <1>1
  <2>4. \A i \in 1..(p - 1) : v[i] = s[i]
    BY <1>2, <1>a, <2>1, <2>3 DEF Behind
  <2>5. QED
    BY <1>a, <2>1, <2>2, <2>4 DEF Behind
<1>7. Behind(v, w, r)
  <2>1. r = v \o w
    BY <1>5 DEF v
  <2>2. QED
    BY <1>3, <1>6, <2>1, BehindFacts
<1>b. Len(v) + Len(w) = Len(s) + 1
  BY <1>1, <1>3, <1>6
<1>8. r \in Seq(Tasks) /\ Len(r) = Len(s) + 1 /\ DOMAIN r = 1..(Len(s) + 1)
  BY <1>7, <1>b DEF Behind
<1>9. \A i \in 1..(Len(s) + 1) : r[i] = IF i <= p THEN v[i] ELSE w[i - p]
  BY <1>6, <1>7, <1>b DEF Behind
<1>10. \A i \in 1..(Len(s) + 1) :
         r[i] = IF i = p THEN t ELSE s[IF i < p THEN i ELSE i - 1]
  <2>1. SUFFICES ASSUME NEW i \in 1..(Len(s) + 1)
                 PROVE  r[i] = IF i = p THEN t ELSE s[IF i < p THEN i ELSE i - 1]
    OBVIOUS
  <2>2. CASE i < p
    <3>1. i <= p /\ i \in 1..(p - 1) /\ i # p
      BY <1>1, <2>2
    <3>2. QED
      BY <1>6, <1>9, <2>2, <3>1
  <2>3. CASE i = p
    <3>1. i <= p
      BY <1>1, <2>3
    <3>2. QED
      BY <1>6, <1>9, <2>3, <3>1
  <2>4. CASE ~(i < p) /\ i # p
    <3>1. ~(i <= p) /\ i - p \in 1..(Len(s) + 1 - p) /\ p - 1 + (i - p) = i - 1
      BY <1>1, <2>4
    <3>2. r[i] = w[i - p]
      BY <1>9, <3>1
    <3>3. QED
      BY <1>3, <2>4, <3>1, <3>2
  <2>5. QED
    BY <2>2, <2>3, <2>4
<1>11. \A i \in DOMAIN s : s[i] # t
  BY DEF Range
<1>12. \A i \in DOMAIN r : i # p => (IF i < p THEN i ELSE i - 1) \in DOMAIN s
  BY <1>1, <1>8
<1>13. \A i, j \in DOMAIN r : r[i] = r[j] => i = j
  <2>1. SUFFICES ASSUME NEW i \in DOMAIN r, NEW j \in DOMAIN r, r[i] = r[j]
                 PROVE  i = j
    OBVIOUS
  <2>2. CASE i = p \/ j = p
    BY <1>8, <1>10, <1>11, <1>12, <2>1, <2>2
  <2>3. CASE i # p /\ j # p
    <3> DEFINE a == IF i < p THEN i ELSE i - 1
               b == IF j < p THEN j ELSE j - 1
    <3>1. a \in DOMAIN s /\ b \in DOMAIN s /\ s[a] = s[b]
      BY <1>8, <1>10, <1>12, <2>1, <2>3
    <3>2. a = b
      BY <3>1 DEF CleanOf
    <3>3. QED
      BY <1>1, <1>8, <2>3, <3>2
  <2>4. QED
    BY <2>2, <2>3
<1>14. \A i \in DOMAIN r : r[i] \notin g \union y
  BY <1>8, <1>10, <1>12 DEF CleanOf
<1>15. CleanOf(r, g, y)
  BY <1>8, <1>13, <1>14 DEF CleanOf
<1>16. Range(r) = Range(s) \union {t}
  <2>1. Range(r) \subseteq Range(s) \union {t}
    BY <1>8, <1>10, <1>12 DEF Range
  <2>2. p \in DOMAIN r /\ r[p] = t
    BY <1>1, <1>8, <1>10
  <2>3. ASSUME NEW j \in DOMAIN s
        PROVE  \E i \in DOMAIN r : r[i] = s[j]
    <3> DEFINE i == IF j < p THEN j ELSE j + 1
    <3>1. i \in DOMAIN r /\ i # p /\ (IF i < p THEN i ELSE i - 1) = j
      BY <1>1, <1>8
    <3>2. QED
      BY <1>8, <1>10, <3>1
  <2>4. QED
    BY <2>1, <2>2, <2>3 DEF Range
<1>17. QED
  BY <1>15, <1>16 DEF r

-----------------------------------------------------------------------------
(***************************************************************************)
(* What is gone                                                            *)
(***************************************************************************)
LEMMA CopiesFacts ==
  ASSUME CopiesClean
  PROVE  /\ CleanOf(tasks, Gone, unborn) /\ CleanOf(disk, Gone, unborn)
         /\ (debounced # None => CleanOf(debounced, Gone, unborn))
         /\ \A i \in DOMAIN saves : CleanOf(saves[i].snapshot, Gone, unborn)
         /\ unborn \intersect Gone = {}
BY DEF CopiesClean, Clean, CleanOf

LEMMA CopiesNext ==
  ASSUME CleanOf(tasks', Gone', unborn'), CleanOf(disk', Gone', unborn'),
         debounced' # None => CleanOf(debounced', Gone', unborn'),
         \A i \in DOMAIN saves' : CleanOf(saves'[i].snapshot, Gone', unborn'),
         unborn' \intersect Gone' = {}
  PROVE  CopiesClean'
BY DEF CopiesClean, Clean, CleanOf

LEMMA GoneHas ==
  /\ tombstones \subseteq Gone
  /\ \A k \in DOMAIN events : events[k].kind = "tombstone" => events[k].task \in Gone
  /\ pc.at \in Settled => Departing \in Gone
BY DEF Gone

LEMMA GoneNext ==
  ASSUME NEW G, tombstones' \subseteq G,
         \A k \in DOMAIN events' : events'[k].kind = "tombstone" => events'[k].task \in G,
         pc'.at \in Settled => Departing' \in G
  PROVE  Gone' \subseteq G
BY DEF Gone

\* As long as nothing more is gone, a copy stays clean.
LEMMA CopiesKept ==
  ASSUME CopiesClean, Gone' \subseteq Gone, unborn' \subseteq unborn,
         CleanOf(tasks', Gone, unborn'), CleanOf(disk', Gone, unborn),
         debounced' # None => CleanOf(debounced', Gone, unborn),
         \A k \in DOMAIN saves' : CleanOf(saves'[k].snapshot, Gone, unborn')
  PROVE  CopiesClean'
<1>1. CleanOf(tasks', Gone', unborn') /\ CleanOf(disk', Gone', unborn')
  BY CleanFewer
<1>2. debounced' # None => CleanOf(debounced', Gone', unborn')
  BY CleanFewer
<1>3. \A k \in DOMAIN saves' : CleanOf(saves'[k].snapshot, Gone', unborn')
  BY CleanFewer
<1>4. unborn' \intersect Gone' = {}
  BY DEF CopiesClean
<1>5. QED
  BY <1>1, <1>2, <1>3, <1>4, CopiesNext

\* Where the answer is not waited for, nothing is asked of the snapshots.
LEMMA AbsentNone ==
  ASSUME NEW t, NEW q, NoneAwaited(q)
  PROVE  AbsentFrom(t, q)
BY DEF AbsentFrom, NoneAwaited

LEMMA AbsentShorter ==
  ASSUME NEW t, NEW q, AbsentFrom(t, q), NEW r, Shortened(q, r)
  PROVE  AbsentFrom(t, r)
<1>1. SUFFICES ASSUME NEW i \in DOMAIN r, NEW j \in DOMAIN r, r[i].awaited, i <= j
               PROVE  t \notin Range(r[j].snapshot)
  BY DEF AbsentFrom
<1>2. Len(q) \in Nat /\ i \in 1..(Len(q) - 1) /\ j \in 1..(Len(q) - 1)
  BY DEF Shortened
<1>3. r[i] = q[i + 1] /\ r[j] = q[j + 1] /\ i + 1 \in DOMAIN q /\ j + 1 \in DOMAIN q
  BY <1>2 DEF Shortened
<1>4. i + 1 <= j + 1
  BY <1>1, <1>2
<1>5. QED
  BY <1>1, <1>3, <1>4 DEF AbsentFrom

LEMMA AbsentLonger ==
  ASSUME NEW t, NEW q, AbsentFrom(t, q), NEW x, t \notin Range(x.snapshot),
         NEW c, Lengthened(q, x, c)
  PROVE  AbsentFrom(t, c)
<1>1. SUFFICES ASSUME NEW i \in DOMAIN c, NEW j \in DOMAIN c, c[i].awaited, i <= j
               PROVE  t \notin Range(c[j].snapshot)
  BY DEF AbsentFrom
<1>2. CASE j = Len(q) + 1
  BY <1>2 DEF Lengthened
<1>3. CASE j # Len(q) + 1
  <2>1. j \in DOMAIN q /\ Len(q) \in Nat /\ DOMAIN q = 1..Len(q)
    BY <1>3 DEF Lengthened
  <2>2. i # Len(q) + 1
    BY <1>1, <2>1
  <2>3. i \in DOMAIN q
    BY <2>2 DEF Lengthened
  <2>4. c[i] = q[i] /\ c[j] = q[j]
    BY <2>1, <2>3 DEF Lengthened
  <2>5. QED
    BY <1>1, <2>1, <2>3, <2>4 DEF AbsentFrom
<1>4. QED
  BY <1>2, <1>3

\* What is left to show of a step after which the actor awaits nothing.
LEMMA SettledNext ==
  ASSUME RemovalInv, ReservationInv', pc'.at \in {"idle", "failed", "stopped", "crashed"},
         tombstones' \subseteq Gone, deleted' \subseteq tombstones',
         \A k \in DOMAIN events' : events'[k].kind = "tombstone" => events'[k].task \in Gone,
         unborn' \subseteq unborn,
         CleanOf(tasks', Gone, unborn'), CleanOf(disk', Gone, unborn),
         debounced' # None => CleanOf(debounced', Gone, unborn),
         \A k \in DOMAIN saves' : CleanOf(saves'[k].snapshot, Gone, unborn'),
         pending' # None => pending'.task \notin Range(tasks') \union unborn'
  PROVE  CopiesClean' /\ DepartingAbsent' /\ TombstoneOfDeparting'
<1>1. pc'.at \notin Settled /\ pc'.at \notin Expiring /\ pc'.at # "published"
      /\ pc'.at \notin {"expiry persist", "expiry failed"}
  BY DEF Settled, Expiring
<1>2. Gone' \subseteq Gone
  BY <1>1, GoneNext
<1>3. CopiesClean'
  BY <1>2, CopiesKept DEF RemovalInv
<1>4. DepartingAbsent'
  <2>1. NoneAwaited(saves')
    BY DEF ReservationInv, AnswersHeard, NoneAwaited
  <2>2. AbsentFrom(Departing', saves')
    BY <2>1, AbsentNone
  <2>3. QED
    BY <1>1, <2>2 DEF DepartingAbsent, Held, AbsentFrom
<1>5. TombstoneOfDeparting'
  BY <1>1 DEF TombstoneOfDeparting, NoneAwaited, At, ReservationInv, AnswersHeard
<1>6. QED
  BY <1>3, <1>4, <1>5

\* The same where the actor goes on waiting for what it waits for.
LEMMA WaitingNext ==
  ASSUME RemovalInv, UNCHANGED << pc, pending, tasks, unborn, deleted >>,
         tombstones \subseteq tombstones', tombstones' \subseteq Gone,
         \A k \in DOMAIN events' :
           \/ \E i \in DOMAIN events : events'[k] = events[i]
           \/ ~events'[k].awaited /\ (events'[k].kind = "tombstone" => events'[k].task \in Gone),
         CleanOf(disk', Gone, unborn), debounced' # None => CleanOf(debounced', Gone, unborn),
         \A k \in DOMAIN saves' : CleanOf(saves'[k].snapshot, Gone, unborn),
         AbsentFrom(Departing, saves')
  PROVE  CopiesClean' /\ DepartingAbsent' /\ TombstoneOfDeparting'
<1>1. Departing' = Departing
  BY DEF Departing
<1>2. \A k \in DOMAIN events' : events'[k].kind = "tombstone" => events'[k].task \in Gone
  BY GoneHas
<1>3. pc'.at \in Settled => Departing' \in Gone
  BY <1>1, GoneHas
<1>4. Gone' \subseteq Gone
  BY <1>2, <1>3, GoneNext
<1>5. CleanOf(tasks', Gone, unborn')
  BY CopiesFacts DEF RemovalInv
<1>6. CopiesClean'
  BY <1>4, <1>5, CopiesKept DEF RemovalInv
<1>7. DepartingAbsent'
  <2>1. DepartingAbsent
    BY DEF RemovalInv
  <2>2. AbsentFrom(Departing', saves')
    BY <1>1
  <2>3. QED
    BY <1>4, <2>1, <2>2 DEF DepartingAbsent, Held, AbsentFrom
<1>8. TombstoneOfDeparting'
  BY <1>1 DEF RemovalInv, TombstoneOfDeparting, At
<1>9. QED
  BY <1>6, <1>7, <1>8

\* A notice is no tombstone.
LEMMA NoticeKeeps ==
  ASSUME RemovalInv, At("idle"), NEW kind, kind # "tombstone", NEW t, NEW v,
         Send(<< Notice(kind, t, v) >>)
  PROVE  \A k \in DOMAIN events' : events'[k].kind = "tombstone" => events'[k].task \in Gone
<1>1. AnswersHeard /\ NoneAwaited(events)
  BY DEF RemovalInv, ReservationInv, AnswersHeard, At
<1>2. \A k \in DOMAIN events' :
        \/ \E i \in DOMAIN events : events'[k] = events[i]
        \/ events'[k] = Notice(kind, t, v)
  BY <1>1, SendOne
<1>3. Notice(kind, t, v).kind = kind
  BY NoticeFacts
<1>4. QED
  BY <1>2, <1>3, GoneHas

-----------------------------------------------------------------------------
(***************************************************************************)
(* The invariant of the removals, one lemma for each kind of step          *)
(***************************************************************************)

\* What every proof below starts from.
LEMMA RemovalFacts ==
  ASSUME RemovalInv
  PROVE  /\ CleanOf(tasks, Gone, unborn) /\ CleanOf(disk, Gone, unborn)
         /\ (debounced # None => CleanOf(debounced, Gone, unborn))
         /\ \A i \in DOMAIN saves : CleanOf(saves[i].snapshot, Gone, unborn)
         /\ unborn \intersect Gone = {}
         /\ tombstones \subseteq Gone /\ deleted \subseteq tombstones
         /\ \A k \in DOMAIN events : events[k].kind = "tombstone" => events[k].task \in Gone
         /\ (pending # None => pending.task \notin Range(tasks) \union unborn)
BY CopiesFacts, GoneHas DEF RemovalInv, DepartingAbsent, TombstoneOfDeparting, Held

\* Create, Update and the fires that remove nothing durably.
LEMMA StampRemoves ==
  ASSUME RemovalInv, ReservationInv', NEW t \in Tasks, NEW interval, NEW p,
         \/ Create(t) \/ Update(t, interval) \/ BlockExpiry(p) \/ ExpireSessionOnly(p)
         \/ FireRecurring(p) \/ SkipRecurring(p) \/ FireOneShot(p)
  PROVE  CopiesClean' /\ DepartingAbsent' /\ TombstoneOfDeparting'
<1>1. /\ At("idle") /\ pending = None
      /\ UNCHANGED << pending, pc, saves, debounced, disk, tombstones, deleted >>
  BY DEF Create, Update, BlockExpiry, ExpireSessionOnly, FireRecurring, SkipRecurring,
         FireOneShot, Fires, TimerRuns, Accepts, Selects, writer, actor, bridge, ghosts
<1>2. pc'.at = "idle"
  BY <1>1 DEF At
<1>3. \A k \in DOMAIN events' : events'[k].kind = "tombstone" => events'[k].task \in Gone
  <2>1. CASE Create(t)
    BY <1>1, <2>1, NoticeKeeps DEF Create
  <2>2. CASE Update(t, interval)
    BY <1>1, <2>2, NoticeKeeps DEF Update
  <2>3. CASE BlockExpiry(p)
    BY <2>3, RemovalFacts DEF BlockExpiry, bridge
  <2>4. CASE ExpireSessionOnly(p)
    BY <1>1, <2>4, NoticeKeeps DEF ExpireSessionOnly
  <2>5. CASE FireRecurring(p)
    BY <1>1, <2>5, NoticeKeeps DEF FireRecurring
  <2>6. CASE SkipRecurring(p)
    BY <1>1, <2>6, NoticeKeeps DEF SkipRecurring
  <2>7. CASE FireOneShot(p)
    <3> DEFINE r == PrepareTransition(2)
               x == Notice("fired", tasks[p], VersionAt(r, 0))
               y == Notice("removed", tasks[p], VersionAt(r, 1))
    <3>1. Send(<< x, y >>)
      BY <2>7 DEF FireOneShot
    <3>2. /\ IsEvent(x) /\ IsEvent(y) /\ ~x.awaited /\ ~y.awaited
          /\ x.kind = "fired" /\ y.kind = "removed"
      BY NoticeFacts
    <3> HIDE DEF x, y, r
    <3>3. OneAwaited(<< x, y >>)
      BY <3>2 DEF OneAwaited
    <3>4. \A k \in DOMAIN << x, y >> : /\ IsEvent(<< x, y >>[k])
                                       /\ << x, y >>[k].kind # "tombstone"
      BY <3>2
    <3>5. AnswersHeard /\ NoneAwaited(events)
      BY <1>1 DEF RemovalInv, ReservationInv, AnswersHeard, At
    <3>6. \A k \in DOMAIN events' :
              \/ \E i \in DOMAIN events : events'[k] = events[i]
              \/ \E i \in DOMAIN << x, y >> : events'[k] = << x, y >>[i]
      BY <3>1, <3>3, <3>4, <3>5, SendFacts
    <3>7. QED
      BY <3>4, <3>6, GoneHas
  <2>8. QED
    BY <2>1, <2>2, <2>3, <2>4, <2>5, <2>6, <2>7
<1>4. unborn' \subseteq unborn /\ CleanOf(tasks', Gone, unborn')
  <2>1. CASE Create(t)
    <3>1. t \in unborn /\ unborn' = unborn \ {t} /\ tasks' = Append(tasks, t)
      BY <2>1 DEF Create
    <3>2. t \notin Gone /\ t \notin Range(tasks) /\ CleanOf(tasks, Gone, unborn)
      BY <3>1, RemovalFacts DEF CleanOf, Range
    <3>3. CleanOf(tasks', Gone, unborn \ {t})
      BY <3>1, <3>2, CleanAppend
    <3>4. QED
      BY <3>1, <3>3
  <2>2. CASE ExpireSessionOnly(p) \/ FireOneShot(p)
    <3>1. unborn' = unborn /\ tasks' = RemoveAt(tasks, p) /\ p \in DOMAIN tasks
      BY <2>2 DEF ExpireSessionOnly, FireOneShot, Fires, world
    <3>2. CleanOf(tasks, Gone, unborn)
      BY RemovalFacts
    <3>3. CleanOf(tasks', Gone \union {tasks[p]}, unborn)
      BY <3>1, <3>2, CleanRemove
    <3>4. CleanOf(tasks', Gone, unborn)
      BY <3>3, CleanFewer
    <3>5. QED
      BY <3>1, <3>4
  <2>3. CASE Update(t, interval) \/ BlockExpiry(p) \/ FireRecurring(p) \/ SkipRecurring(p)
    <3>1. UNCHANGED << tasks, unborn >>
      BY <2>3 DEF Update, BlockExpiry, FireRecurring, SkipRecurring, world, actor
    <3>2. QED
      BY <3>1, RemovalFacts
  <2>4. QED
    BY <2>1, <2>2, <2>3
<1>5. \A k \in DOMAIN saves' : CleanOf(saves'[k].snapshot, Gone, unborn')
  BY <1>1, <1>4, RemovalFacts, CleanFewer
<1>6. QED
  BY <1>1, <1>2, <1>3, <1>4, <1>5, RemovalFacts, SettledNext

\* An idle actor begins to await the writer: the task is in no copy from here on.
LEMMA AwaitRemoves ==
  ASSUME RemovalInv, ReservationInv', At("idle"), saves' = Append(saves, SaveAndFlushCmd(tasks')),
         UNCHANGED << unborn, debounced, disk, events, tombstones, deleted >>,
         pc'.at \in {"persist", "expiry persist"}, CleanOf(tasks', Gone, unborn),
         pending' # None => pending'.task \notin Range(tasks') \union unborn,
         Departing' \notin Range(tasks'),
         pc'.at = "expiry persist" =>
           /\ pc'.task \notin Range(tasks') \union unborn /\ pc'.task \notin Gone
           /\ pc'.index \in 1..(Len(tasks') + 1)
  PROVE  CopiesClean' /\ DepartingAbsent' /\ TombstoneOfDeparting'
<1> DEFINE x == SaveAndFlushCmd(tasks')
<1>1. OneAwaited(saves) /\ NoneAwaited(saves) /\ NoneAwaited(events)
  BY DEF RemovalInv, ReservationInv, AnswersHeard, At
<1>2. x.snapshot = tasks'
  BY FlushFacts
<1> HIDE DEF x
<1>3. Lengthened(saves, x, saves')
  BY <1>1, AppendQueue DEF x
<1>4. AbsentFrom(Departing', saves')
  <2>1. AbsentFrom(Departing', saves)
    BY <1>1, AbsentNone
  <2>2. QED
    BY <1>2, <1>3, <2>1, AbsentLonger
<1>5. pc'.at \notin Settled
  BY DEF Settled
<1>6. Gone' \subseteq Gone
  BY <1>5, RemovalFacts, GoneNext
<1>7. \A k \in DOMAIN saves' : CleanOf(saves'[k].snapshot, Gone, unborn)
  BY <1>2, <1>3, RemovalFacts DEF Lengthened
<1>8. CopiesClean'
  BY <1>6, <1>7, RemovalFacts, CopiesKept DEF RemovalInv
<1>9. DepartingAbsent'
  BY <1>4, <1>6 DEF DepartingAbsent, Held, Expiring, AbsentFrom
<1>10. TombstoneOfDeparting'
  BY <1>1, RemovalFacts DEF TombstoneOfDeparting, NoneAwaited, At
<1>11. QED
  BY <1>8, <1>9, <1>10

LEMMA RemovalBegins ==
  ASSUME RemovalInv, ReservationInv', NEW t, NEW p,
         Delete(t) \/ RetryDelete \/ ExpireDurable(p)
  PROVE  CopiesClean' /\ DepartingAbsent' /\ TombstoneOfDeparting'
<1>1. /\ At("idle") /\ saves' = Append(saves, SaveAndFlushCmd(tasks'))
      /\ UNCHANGED << unborn, debounced, disk, events, tombstones, deleted >>
  BY DEF Delete, RetryDelete, ExpireDurable, Fires, TimerRuns, Selects, AwaitPersistence,
         world, actor, bridge, ghosts
<1>2. CleanOf(tasks, Gone, unborn)
  BY RemovalFacts
<1>3. [Idle EXCEPT !.at = "persist"].at = "persist"
  BY DEF Idle
<1>4. ASSUME NEW i \in DOMAIN tasks, tasks' = RemoveAt(tasks, i)
      PROVE  /\ CleanOf(tasks', Gone, unborn) /\ tasks[i] \notin Range(tasks') \union unborn
             /\ tasks[i] \notin Gone /\ i \in 1..(Len(tasks') + 1)
  <2>1. CleanOf(tasks', Gone \union {tasks[i]}, unborn) /\ Len(tasks') = Len(tasks) - 1
    BY <1>2, <1>4, CleanRemove
  <2>2. CleanOf(tasks', Gone, unborn)
    BY <2>1, CleanFewer
  <2>3. tasks[i] \notin Range(tasks') \union unborn /\ tasks[i] \notin Gone
    BY <1>2, <2>1 DEF CleanOf, Range
  <2>4. i \in 1..(Len(tasks') + 1)
    BY <1>2, <2>1, CleanSeq
  <2>5. QED
    BY <2>2, <2>3, <2>4
<1>5. CASE Delete(t)
  <2>1. PICK i \in DOMAIN tasks : tasks[i] = t /\ tasks' = RemoveAt(tasks, i)
    BY <1>5 DEF Delete
  <2>2. pending'.task = t /\ pc'.at = "persist"
    BY <1>3, <1>5 DEF Delete, AwaitPersistence
  <2>3. Departing' = t
    BY <2>2 DEF Departing, Deleting
  <2>4. QED
    BY <1>1, <1>4, <2>1, <2>2, <2>3, AwaitRemoves
<1>6. CASE RetryDelete
  <2>1. pending' = pending /\ pending # None /\ pc'.at = "persist" /\ tasks' = tasks
    BY <1>3, <1>6 DEF RetryDelete, AwaitPersistence, actor
  <2>2. pending.task \notin Range(tasks) \union unborn
    BY <2>1, RemovalFacts
  <2>3. Departing' = pending.task
    BY <2>1 DEF Departing, Deleting
  <2>4. QED
    BY <1>1, <1>2, <2>1, <2>2, <2>3, AwaitRemoves
<1>7. CASE ExpireDurable(p)
  <2>1. /\ p \in DOMAIN tasks /\ tasks' = RemoveAt(tasks, p) /\ pending' = pending /\ pending = None
        /\ pc'.at = "expiry persist" /\ pc'.task = tasks[p] /\ pc'.index = p
    BY <1>7 DEF ExpireDurable, Fires, TimerRuns
  <2>2. Departing' = tasks[p]
    BY <2>1 DEF Departing, Deleting
  <2>3. QED
    BY <1>1, <1>4, <2>1, <2>2, AwaitRemoves
<1>8. QED
  BY <1>5, <1>6, <1>7

\* The tombstone goes out for a task whose absence is saved.
LEMMA PublishRemoves ==
  ASSUME RemovalInv, ReservationInv', pc.at \in {"persisted", "expiry persisted"}, NEW v,
         Publish(Departing, v), open, Departing' = Departing,
         UNCHANGED << pending, tasks, unborn, saves, debounced, disk, tombstones, deleted >>,
         pc'.at \in {"publish", "expiry publish"},
         pc'.at = "expiry publish" => pc.at = "expiry persisted" /\ pc'.task = pc.task
  PROVE  CopiesClean' /\ DepartingAbsent' /\ TombstoneOfDeparting'
<1> DEFINE x == Tombstone(Departing, v)
<1>1. AnswersHeard /\ NoneAwaited(events) /\ NoneAwaited(saves)
  BY DEF RemovalInv, ReservationInv, AnswersHeard
<1>2. IsEvent(x) /\ x.kind = "tombstone" /\ x.task = Departing
  BY DEF IsEvent, Tombstone
<1> HIDE DEF x
<1>3. OneAwaited(<< x >>) /\ \A i \in DOMAIN << x >> : << x >>[i] = x
  BY SingleQueue
<1>4. Send(<< x >>)
  BY DEF Publish, x
<1>5. \A k \in DOMAIN events' : (\E i \in DOMAIN events : events'[k] = events[i]) \/ events'[k] = x
  <2>1. \A i \in DOMAIN << x >> : IsEvent(<< x >>[i])
    BY <1>2, <1>3
  <2>2. \A k \in DOMAIN events' :
              \/ \E i \in DOMAIN events : events'[k] = events[i]
              \/ open /\ \E i \in DOMAIN << x >> : events'[k] = << x >>[i]
    BY <1>1, <1>3, <1>4, <2>1, SendFacts
  <2>3. QED
    BY <1>3, <2>2
<1>6. Departing \in Gone
  BY GoneHas DEF Settled
<1>7. \A k \in DOMAIN events' : events'[k].kind = "tombstone" => events'[k].task \in Gone
  BY <1>2, <1>5, <1>6, GoneHas
<1>8. Gone' \subseteq Gone
  BY <1>6, <1>7, RemovalFacts, GoneNext
<1>9. CopiesClean'
  BY <1>8, RemovalFacts, CopiesKept DEF RemovalInv
<1>10. DepartingAbsent'
  <2>1. AbsentFrom(Departing', saves')
    BY <1>1, AbsentNone
  <2>2. pc'.at \in Expiring => pc'.task \notin Range(tasks') \union unborn'
    BY DEF RemovalInv, DepartingAbsent, Expiring, Held
  <2>3. pending' # None => pending'.task \notin Range(tasks') \union unborn'
    BY RemovalFacts
  <2>4. QED
    BY <2>1, <2>2, <2>3 DEF DepartingAbsent, Held, AbsentFrom
<1>11. TombstoneOfDeparting'
  <2>1. \A i \in DOMAIN events' :
          events'[i].awaited => events'[i].kind = "tombstone" /\ events'[i].task = Departing'
    BY <1>1, <1>2, <1>5 DEF NoneAwaited
  <2>2. QED
    BY <2>1, RemovalFacts DEF TombstoneOfDeparting, At
<1>12. QED
  BY <1>9, <1>10, <1>11

\* The removal goes on, is given up or ends.
LEMMA ContinueRemoves ==
  ASSUME RemovalInv, ReservationInv', Continues
  PROVE  CopiesClean' /\ DepartingAbsent' /\ TombstoneOfDeparting'
<1>1. ActorTyped /\ OneRemoval /\ AnswersHeard
  BY DEF RemovalInv, ReservationInv
<1>2. Idle.at = "idle" /\ [Idle EXCEPT !.at = "publish"].at = "publish"
  BY DEF Idle
<1>3. /\ UNCHANGED << unborn, tombstones, disk, debounced >>
  BY DEF Continues, DeletePersisted, DeletePublished, ExpiryPersisted, ExpiryPublished,
         ExpiryNotCommitted, GiveUp, world, bridge, writer
<1>4. CASE DeletePersisted
  <2>1. /\ pc.at = "persisted" /\ UNCHANGED << pending, tasks, saves, deleted >>
        /\ Publish(pending.task, VersionAt(pending.reservation, 0))
        /\ pc' = IF open THEN [Idle EXCEPT !.at = "publish"] ELSE Idle
    BY <1>4 DEF DeletePersisted, actor, writer, ghosts, At
  <2>2. CASE open
    <3>1. pc'.at = "publish"
      BY <1>2, <2>1, <2>2
    <3>2. Departing = pending.task /\ Departing' = pending.task
      BY <2>1, <3>1 DEF Departing, Deleting
    <3>3. QED
      BY <1>3, <2>1, <2>2, <3>1, <3>2, PublishRemoves
  <2>3. CASE ~open
    <3>1. pc'.at = "idle" /\ events' = events
      BY <1>2, <2>1, <2>3 DEF Publish, Send
    <3>2. QED
      BY <1>3, <2>1, <3>1, RemovalFacts, SettledNext
  <2>4. QED
    BY <2>2, <2>3
<1>5. CASE DeletePublished
  <2>1. /\ pc.at = "published" /\ UNCHANGED << tasks, saves, events >>
        /\ pending' = None /\ pc'.at = "idle" /\ deleted' = deleted \union {pending.task}
    BY <1>2, <1>5 DEF DeletePublished, writer, bridge, At
  <2>2. pending.task \in tombstones
    BY <2>1 DEF RemovalInv, TombstoneOfDeparting, At
  <2>3. QED
    BY <1>3, <2>1, <2>2, RemovalFacts, SettledNext
<1>6. CASE ExpiryPersisted
  <2>1. /\ pc.at = "expiry persisted" /\ UNCHANGED << pending, tasks, saves, deleted >>
        /\ Publish(pc.task, VersionAt(pc.reservation, 0))
        /\ pc' = IF open THEN [pc EXCEPT !.at = "expiry publish"] ELSE Idle
    BY <1>6 DEF ExpiryPersisted, actor, writer, ghosts, At
  <2>2. CASE open
    <3>1. pc'.at = "expiry publish" /\ pc'.task = pc.task
      BY <1>1, <2>1, <2>2, PlaceFields
    <3>2. Departing = pc.task /\ Departing' = pc.task
      BY <2>1, <3>1 DEF Departing, Deleting
    <3>3. QED
      BY <1>3, <2>1, <2>2, <3>1, <3>2, PublishRemoves
  <2>3. CASE ~open
    <3>1. pc'.at = "idle" /\ events' = events
      BY <1>2, <2>1, <2>3 DEF Publish, Send
    <3>2. QED
      BY <1>3, <2>1, <3>1, RemovalFacts, SettledNext
  <2>4. QED
    BY <2>2, <2>3
<1>7. CASE ExpiryPublished
  <2>1. UNCHANGED << tasks, saves, events, pending, deleted >> /\ pc'.at = "idle"
    BY <1>2, <1>7 DEF ExpiryPublished, writer, bridge, ghosts
  <2>2. QED
    BY <1>3, <2>1, RemovalFacts, SettledNext
<1>8. CASE ExpiryNotCommitted
  <2>1. /\ pc.at = "expiry failed" /\ UNCHANGED << pending, saves, events, deleted >>
        /\ tasks' = InsertAt(tasks, pc.index, pc.task) /\ pc'.at = "idle"
    BY <1>2, <1>8 DEF ExpiryNotCommitted, writer, bridge, ghosts, At
  <2>2. pending = None /\ pc.task \in Tasks
    BY <1>1, <2>1 DEF OneRemoval, Expiring
  <2>3. /\ pc.task \notin Range(tasks) /\ pc.task \notin Gone \union unborn
        /\ pc.index \in 1..(Len(tasks) + 1)
    BY <2>1 DEF RemovalInv, DepartingAbsent, Expiring, Held
  <2>4. CleanOf(tasks, Gone, unborn)
    BY RemovalFacts
  <2>5. CleanOf(tasks', Gone, unborn)
    BY <2>1, <2>2, <2>3, <2>4, CleanInsert
  <2>6. QED
    BY <1>3, <2>1, <2>2, <2>5, RemovalFacts, SettledNext
<1>9. CASE GiveUp
  <2>1. /\ pc'.at = "idle" /\ UNCHANGED << tasks, pending, deleted >>
        /\ saves' = Unheard(saves) /\ events' = Unheard(events)
    BY <1>2, <1>9 DEF GiveUp, actor
  <2>2. /\ OneAwaited(saves) /\ OneAwaited(events)
        /\ \A k \in DOMAIN saves : IsSave(saves[k])
        /\ \A k \in DOMAIN events : IsEvent(events[k])
    BY <1>1 DEF AnswersHeard
  <2>3. \A k \in DOMAIN saves : /\ "awaited" \in DOMAIN saves[k]
                                /\ [saves[k] EXCEPT !.awaited = FALSE].snapshot = saves[k].snapshot
    BY <2>2, SaveFields
  <2>4. \A k \in DOMAIN events : /\ "awaited" \in DOMAIN events[k]
                                 /\ [events[k] EXCEPT !.awaited = FALSE].kind = events[k].kind
                                 /\ [events[k] EXCEPT !.awaited = FALSE].task = events[k].task
    BY <2>2, EventFields
  <2>5. \A k \in DOMAIN saves' : CleanOf(saves'[k].snapshot, Gone, unborn)
    <3>1. Silenced(saves, saves')
      BY <2>1, <2>2, <2>3, UnheardQueue
    <3>2. \A k \in DOMAIN saves' : k \in DOMAIN saves /\ saves'[k].snapshot = saves[k].snapshot
      BY <2>3, <3>1 DEF Silenced
    <3>3. QED
      BY <3>2, RemovalFacts
  <2>6. \A k \in DOMAIN events' : events'[k].kind = "tombstone" => events'[k].task \in Gone
    <3>1. Silenced(events, events')
      BY <2>1, <2>2, <2>4, UnheardQueue
    <3>2. \A k \in DOMAIN events' : /\ k \in DOMAIN events
                                    /\ events'[k].kind = events[k].kind
                                    /\ events'[k].task = events[k].task
      BY <2>4, <3>1 DEF Silenced
    <3>3. QED
      BY <3>2, RemovalFacts
  <2>7. QED
    BY <1>3, <2>1, <2>5, <2>6, RemovalFacts, SettledNext
<1>10. QED
  BY <1>4, <1>5, <1>6, <1>7, <1>8, <1>9 DEF Continues

\* The writer: a snapshot of a tool call, the debounced one, and the one the actor waits for.
LEMMA WriteRemoves ==
  ASSUME RemovalInv, ReservationInv', Writes
  PROVE  CopiesClean' /\ DepartingAbsent' /\ TombstoneOfDeparting'
<1>1. ActorTyped /\ OneRemoval /\ OneAwaited(saves)
  BY DEF RemovalInv, ReservationInv, AnswersHeard
<1>2. UNCHANGED << tasks, pending, unborn, events, tombstones, deleted >>
  BY DEF Writes, ToolSave, WriterSave, WriterTick, WriterFlush, actor, world, bridge, ghosts
<1>3. \A k \in DOMAIN events' : \E i \in DOMAIN events : events'[k] = events[i]
  BY <1>2
<1>4. AbsentFrom(Departing, saves)
  BY DEF RemovalInv, DepartingAbsent
<1>5. CASE ToolSave
  <2>1. pc' = pc /\ saves' = Append(saves, SaveCmd(tasks)) /\ UNCHANGED << debounced, disk >>
    BY <1>5 DEF ToolSave
  <2>2. ~SaveCmd(tasks).awaited /\ SaveCmd(tasks).snapshot = tasks
    BY FlushFacts
  <2>3. Lengthened(saves, SaveCmd(tasks), saves')
    BY <1>1, <2>1, <2>2, AppendQueue
  <2>4. \A k \in DOMAIN saves' : CleanOf(saves'[k].snapshot, Gone, unborn)
    BY <2>2, <2>3, RemovalFacts DEF Lengthened
  <2>5. AbsentFrom(Departing, saves')
    <3>1. CASE pc.at \in {"persist", "expiry persist"}
      <4>1. Departing \notin Range(tasks)
        BY <1>1, <3>1, NoRemovalAssumption
           DEF RemovalInv, DepartingAbsent, Departing, Deleting, Expiring, Held, OneRemoval
      <4>2. QED
        BY <1>4, <2>2, <2>3, <4>1, AbsentLonger
    <3>2. CASE pc.at \notin {"persist", "expiry persist"}
      <4>1. NoneAwaited(saves')
        BY <2>2, <2>3, <3>2 DEF RemovalInv, ReservationInv, AnswersHeard, Lengthened
      <4>2. QED
        BY <4>1, AbsentNone
    <3>3. QED
      BY <3>1, <3>2
  <2>6. QED
    BY <1>2, <1>3, <2>1, <2>4, <2>5, RemovalFacts, WaitingNext
<1>6. CASE WriterSave
  <2>1. /\ pc' = pc /\ saves' = Tail(saves) /\ saves # << >>
        /\ debounced' = Head(saves).snapshot /\ disk' = disk
    BY <1>6 DEF WriterSave
  <2>2. Shortened(saves, saves')
    BY <1>1, <2>1, TailQueue
  <2>3. /\ \A k \in DOMAIN saves' : CleanOf(saves'[k].snapshot, Gone, unborn)
        /\ CleanOf(Head(saves).snapshot, Gone, unborn)
    BY <2>2, RemovalFacts DEF Shortened
  <2>4. AbsentFrom(Departing, saves')
    BY <1>4, <2>2, AbsentShorter
  <2>5. QED
    BY <1>2, <1>3, <2>1, <2>3, <2>4, RemovalFacts, WaitingNext
<1>7. CASE \E ok \in BOOLEAN : WriterTick(ok)
  <2>1. /\ pc' = pc /\ saves' = saves /\ debounced # None
        /\ debounced' \in {debounced, None} /\ disk' \in {debounced, disk}
    BY <1>7 DEF WriterTick
  <2>2. QED
    BY <1>2, <1>3, <1>4, <2>1, RemovalFacts, WaitingNext
<1>8. ASSUME NEW ok \in BOOLEAN, NEW replaced \in BOOLEAN, WriterFlush(ok, replaced)
      PROVE  CopiesClean' /\ DepartingAbsent' /\ TombstoneOfDeparting'
  <2>1. /\ pc' = Answered(Head(saves), ok) /\ saves' = Tail(saves) /\ saves # << >>
        /\ debounced' = None /\ disk' \in {Head(saves).snapshot, disk}
        /\ (ok => disk' = Head(saves).snapshot)
    BY <1>8 DEF WriterFlush
  <2>2. Shortened(saves, saves')
    BY <1>1, <2>1, TailQueue
  <2>3. /\ \A k \in DOMAIN saves' : CleanOf(saves'[k].snapshot, Gone, unborn)
        /\ CleanOf(Head(saves).snapshot, Gone, unborn)
    BY <2>2, RemovalFacts DEF Shortened
  <2>4. CleanOf(disk', Gone, unborn)
    BY <2>1, <2>3, RemovalFacts
  <2>5. CASE ~Head(saves).awaited /\ pc' = pc
    <3>1. AbsentFrom(Departing, saves')
      BY <1>4, <2>2, AbsentShorter
    <3>2. QED
      BY <1>2, <1>3, <2>1, <2>3, <2>4, <2>5, <3>1, RemovalFacts, WaitingNext
  <2>6. ASSUME NEW where \in {"persisted", "failed", "expiry persisted", "expiry failed"},
               Head(saves).awaited, pc' = [pc EXCEPT !.at = where],
               \/ pc.at = "persist" /\ where \in {"persisted", "failed"}
               \/ pc.at = "expiry persist" /\ where \in {"expiry persisted", "expiry failed"},
               where \in {"persisted", "expiry persisted"} => ok
        PROVE  CopiesClean' /\ DepartingAbsent' /\ TombstoneOfDeparting'
    <3>1. pc' = [at |-> where, task |-> pc.task, index |-> pc.index, reservation |-> pc.reservation]
      BY <1>1, <2>6, PlaceFields
    <3>2. pc'.at = where /\ pc'.task = pc.task /\ pc'.index = pc.index
      BY <3>1
    <3>3. NoneAwaited(saves') /\ NoneAwaited(events)
      BY <2>2, <2>6 DEF Shortened, RemovalInv, ReservationInv, AnswersHeard
    <3>4. CASE where = "failed"
      BY <1>2, <2>1, <2>3, <2>4, <3>2, <3>4, RemovalFacts, SettledNext
    <3>5. CASE where # "failed"
      <4>1. Departing' = Departing
        BY <1>2, <2>6, <3>2, <3>5 DEF Departing, Deleting
      <4>2. Departing \notin Range(tasks) \union unborn
        BY <1>1, <2>6, NoRemovalAssumption
           DEF RemovalInv, DepartingAbsent, Departing, Deleting, Expiring, Held, OneRemoval
      <4>3. AbsentFrom(Departing', saves')
        BY <3>3, AbsentNone
      <4>4. TombstoneOfDeparting'
        BY <1>2, <2>6, <3>2, <3>3, RemovalFacts DEF TombstoneOfDeparting, NoneAwaited, At
      <4>5. CASE where = "expiry failed"
        <5>1. Gone' \subseteq Gone
          BY <1>2, <3>2, <4>5, RemovalFacts, GoneNext DEF Settled
        <5>2. CopiesClean'
          BY <1>2, <2>1, <2>3, <2>4, <5>1, RemovalFacts, CopiesKept DEF RemovalInv
        <5>3. pc.at = "expiry persist"
          BY <2>6, <4>5
        <5>4. DepartingAbsent'
          BY <1>2, <3>2, <4>3, <4>5, <5>1, <5>3
             DEF RemovalInv, DepartingAbsent, Expiring, Held, AbsentFrom
        <5>5. QED
          BY <4>4, <5>2, <5>4
      <4>6. CASE where \in {"persisted", "expiry persisted"}
        <5> DEFINE G == Gone \union {Departing}
        <5>1. Gone' \subseteq G
          BY <1>2, <4>1, RemovalFacts, GoneNext
        <5>2. CleanOf(tasks, G, unborn)
          BY <4>2, RemovalFacts, CleanMore
        <5>3. \A j \in DOMAIN saves : Departing \notin Range(saves[j].snapshot)
          <6>1. saves[1].awaited /\ 1 \in DOMAIN saves /\ \A j \in DOMAIN saves : 1 <= j
            <7>1. Head(saves) = saves[1] /\ 1 \in DOMAIN saves
              BY <2>2 DEF Shortened
            <7>2. \A j \in DOMAIN saves : 1 <= j
              BY <1>1, FirstPlace
            <7>3. QED
              BY <2>6, <7>1, <7>2
          <6>2. QED
            BY <1>4, <6>1 DEF AbsentFrom
        <5>4. \A j \in DOMAIN saves : CleanOf(saves[j].snapshot, G, unborn)
          BY <5>3, RemovalFacts, CleanMore
        <5>5. /\ \A k \in DOMAIN saves' : CleanOf(saves'[k].snapshot, G, unborn)
              /\ CleanOf(disk', G, unborn)
          <6> HIDE DEF G
          <6>1. disk' = Head(saves).snapshot
            BY <2>1, <2>6, <4>6
          <6>2. CleanOf(Head(saves).snapshot, G, unborn)
            BY <2>2, <5>4 DEF Shortened
          <6>3. \A k \in DOMAIN saves' : CleanOf(saves'[k].snapshot, G, unborn)
            BY <2>2, <5>4 DEF Shortened
          <6>4. QED
            BY <6>1, <6>2, <6>3
        <5>6. unborn \intersect G = {}
          BY <4>2, RemovalFacts
        <5> HIDE DEF G
        <5>7. /\ CleanOf(tasks', Gone', unborn') /\ CleanOf(disk', Gone', unborn')
              /\ \A k \in DOMAIN saves' : CleanOf(saves'[k].snapshot, Gone', unborn')
              /\ unborn' \intersect Gone' = {}
          BY <1>2, <5>1, <5>2, <5>5, <5>6, CleanFewer
        <5>8. CopiesClean'
          BY <2>1, <5>7, CopiesNext
        <5>9. DepartingAbsent'
          BY <1>2, <2>6, <3>2, <4>3, <4>6
             DEF RemovalInv, DepartingAbsent, Expiring, Held, AbsentFrom
        <5>10. QED
          BY <4>4, <5>8, <5>9
      <4>7. QED
        BY <3>5, <4>5, <4>6
    <3>6. QED
      BY <3>4, <3>5
  <2>7. ReservationInv
    BY DEF RemovalInv
  <2>8. QED
    BY <2>1, <2>5, <2>6, <2>7, AnsweredFacts
<1>9. QED
  BY <1>5, <1>6, <1>7, <1>8 DEF Writes

\* The bridge: a notice, and a tombstone.
LEMMA ForwardRemoves ==
  ASSUME RemovalInv, ReservationInv', Forwards
  PROVE  CopiesClean' /\ DepartingAbsent' /\ TombstoneOfDeparting'
<1>1. ActorTyped /\ OneRemoval /\ OneAwaited(events) /\ ReservationInv
  BY DEF RemovalInv, ReservationInv, AnswersHeard
<1>2. /\ UNCHANGED << tasks, pending, unborn, saves, debounced, disk, deleted >>
      /\ events # << >> /\ events' = Tail(events)
  BY DEF Forwards, Forward, AppendDurably, actor, world, writer, ghosts
<1>3. Shortened(events, events')
  BY <1>1, <1>2, TailQueue
<1>4. /\ \A k \in DOMAIN events' : \E i \in DOMAIN events : events'[k] = events[i]
      /\ \E i \in DOMAIN events : Head(events) = events[i]
  BY <1>3 DEF Shortened
<1>5. AbsentFrom(Departing, saves')
  BY <1>2 DEF RemovalInv, DepartingAbsent
<1>6. CASE Forward
  <2>1. pc' = pc /\ tombstones' = tombstones
    BY <1>6 DEF Forward
  <2>2. QED
    BY <1>2, <1>4, <1>5, <2>1, RemovalFacts, WaitingNext
<1>7. ASSUME NEW ok \in BOOLEAN, NEW landed \in BOOLEAN, AppendDurably(ok, landed)
      PROVE  CopiesClean' /\ DepartingAbsent' /\ TombstoneOfDeparting'
  <2>1. /\ pc' = Receipted(Head(events), ok) /\ Head(events).kind = "tombstone"
        /\ tombstones' \in {tombstones, tombstones \union {Head(events).task}}
        /\ (ok => Head(events).task \in tombstones')
    BY <1>7 DEF AppendDurably
  <2>2. Head(events).task \in Gone
    BY <1>4, <2>1, RemovalFacts
  <2>3. tombstones \subseteq tombstones' /\ tombstones' \subseteq Gone
    BY <2>1, <2>2, RemovalFacts
  <2>4. CASE pc' = pc
    BY <1>2, <1>4, <1>5, <2>3, <2>4, RemovalFacts, WaitingNext
  <2>5. ASSUME Head(events).awaited, pc' = [pc EXCEPT !.at = "failed"]
        PROVE  CopiesClean' /\ DepartingAbsent' /\ TombstoneOfDeparting'
    <3>1. pc'.at = "failed"
      BY <1>1, <2>5, PlaceFields
    <3>2. \A k \in DOMAIN events' : events'[k].kind = "tombstone" => events'[k].task \in Gone
      BY <1>4, RemovalFacts
    <3>3. deleted' \subseteq tombstones'
      BY <1>2, <2>3, RemovalFacts
    <3>4. QED
      BY <1>2, <2>3, <3>1, <3>2, <3>3, RemovalFacts, SettledNext
  <2>6. ASSUME NEW where \in {"published", "expiry published"},
               Head(events).awaited, ok, pc' = [pc EXCEPT !.at = where],
               \/ pc.at = "publish" /\ where = "published"
               \/ pc.at = "expiry publish" /\ where = "expiry published"
        PROVE  CopiesClean' /\ DepartingAbsent' /\ TombstoneOfDeparting'
    <3>1. pc' = [at |-> where, task |-> pc.task, index |-> pc.index, reservation |-> pc.reservation]
      BY <1>1, <2>6, PlaceFields
    <3>2. pc'.at = where /\ pc'.task = pc.task
      BY <3>1
    <3>3. Departing' = Departing
      BY <1>2, <2>6, <3>2 DEF Departing, Deleting
    <3>4. Head(events).task = Departing
      BY <1>4, <2>6 DEF RemovalInv, TombstoneOfDeparting
    <3>5. NoneAwaited(events')
      BY <1>3, <2>6 DEF Shortened
    <3>6. Gone' \subseteq Gone
      <4>1. \A k \in DOMAIN events' : events'[k].kind = "tombstone" => events'[k].task \in Gone
        BY <1>4, RemovalFacts
      <4>2. QED
        BY <2>2, <2>3, <3>3, <3>4, <4>1, GoneNext
    <3>7. CopiesClean'
      BY <1>2, <3>6, RemovalFacts, CopiesKept DEF RemovalInv
    <3>8. DepartingAbsent'
      <4>1. AbsentFrom(Departing', saves')
        BY <1>5, <3>3
      <4>2. QED
        BY <1>2, <2>6, <3>2, <4>1
           DEF RemovalInv, DepartingAbsent, Expiring, Held, AbsentFrom
    <3>9. TombstoneOfDeparting'
      <4>1. pc'.at = "published" => pending'.task \in tombstones'
        BY <1>2, <2>1, <2>6, <3>2, <3>4 DEF Departing, Deleting
      <4>2. deleted' \subseteq tombstones'
        BY <1>2, <2>3, RemovalFacts
      <4>3. QED
        BY <3>5, <4>1, <4>2 DEF TombstoneOfDeparting, NoneAwaited, At
    <3>10. QED
      BY <3>7, <3>8, <3>9
  <2>7. QED
    BY <1>1, <1>2, <2>1, <2>4, <2>5, <2>6, ReceiptedFacts
<1>8. QED
  BY <1>6, <1>7 DEF Forwards

\* A shutdown, a bridge that ends, a crash, and the start after it.
LEMMA OutsideRemoves ==
  ASSUME RemovalInv, ReservationInv', AbandonDelete \/ Shutdown \/ Faults \/ Passes
  PROVE  CopiesClean' /\ DepartingAbsent' /\ TombstoneOfDeparting'
<1>1. ActorTyped /\ AnswersHeard /\ CleanOf(tasks, Gone, unborn)
  BY RemovalFacts DEF RemovalInv, ReservationInv
<1>2. UNCHANGED << unborn, disk, tombstones, deleted >>
  BY DEF AbandonDelete, Shutdown, Faults, CloseTarget, Cancel, Crash, Restart, Passes, Tick,
         Expire, world, writer, bridge, ghosts
<1>3. /\ Idle.at = "idle" /\ [Idle EXCEPT !.at = "stopped"].at = "stopped"
      /\ [Idle EXCEPT !.at = "crashed"].at = "crashed"
  BY DEF Idle
<1>4. CASE AbandonDelete
  <2>1. /\ pc'.at = "idle" /\ pending' = None
        /\ UNCHANGED << tasks, saves, debounced, events >>
    BY <1>4 DEF AbandonDelete, Selects, At, writer, bridge
  <2>2. QED
    BY <1>2, <2>1, RemovalFacts, SettledNext
<1>5. CASE Shutdown
  <2>1. /\ pc'.at = "stopped" /\ At("idle")
        /\ UNCHANGED << tasks, pending, saves, debounced >>
    BY <1>3, <1>5 DEF Shutdown, writer
  <2>2. \A k \in DOMAIN events' : events'[k].kind = "tombstone" => events'[k].task \in Gone
    <3>1. CASE tasks = << >>
      BY <1>5, <3>1, RemovalFacts DEF Shutdown
    <3>2. CASE tasks # << >>
      <4> DEFINE n == Len(tasks)
                 r == PrepareTransition(n)
                 notices == [k \in DOMAIN tasks |-> Notice("removed", tasks[k], VersionAt(r, k - 1))]
      <4>1. n \in Nat /\ DOMAIN tasks = 1..n
        BY <1>1, CleanSeq
      <4>2. Send(notices)
        BY <1>5, <3>2 DEF Shutdown
      <4>3. /\ DOMAIN notices = 1..n
            /\ \A k \in DOMAIN notices :
                 IsEvent(notices[k]) /\ ~notices[k].awaited /\ notices[k].kind = "removed"
        BY <4>1, NoticeFacts
      <4>4. notices \in [1..n -> {notices[k] : k \in DOMAIN notices}]
        BY <4>1
      <4> HIDE DEF notices, n
      <4>5. OneAwaited(notices)
        <5>1. notices \in Seq({notices[k] : k \in DOMAIN notices})
          BY <4>1, <4>4, FunctionIsSeq
        <5>2. QED
          BY <4>3, <5>1 DEF OneAwaited
      <4>6. NoneAwaited(events)
        BY <1>1, <2>1 DEF AnswersHeard, At
      <4>7. \A k \in DOMAIN events' :
              \/ \E i \in DOMAIN events : events'[k] = events[i]
              \/ \E i \in DOMAIN notices : events'[k] = notices[i]
        BY <1>1, <4>2, <4>3, <4>5, <4>6, SendFacts
      <4>8. QED
        BY <4>3, <4>7, RemovalFacts
    <3>3. QED
      BY <3>1, <3>2
  <2>3. QED
    BY <1>2, <2>1, <2>2, RemovalFacts, SettledNext
<1>6. CASE CloseTarget
  <2>1. /\ UNCHANGED << tasks, pending, saves, debounced >>
        /\ pc' = IF pc.at \in {"publish", "expiry publish"} THEN [pc EXCEPT !.at = "failed"] ELSE pc
    BY <1>6 DEF CloseTarget, actor, writer
  <2>2. \A k \in DOMAIN events' :
          /\ ~events'[k].awaited
          /\ events'[k].kind = "tombstone" => events'[k].task \in Gone
    <3>1. CutShort(events, events')
      BY <1>1, <1>6, CloseCuts
    <3>2. QED
      BY <3>1, RemovalFacts DEF CutShort, NoneAwaited
  <2>3. CASE pc.at \in {"publish", "expiry publish"}
    <3>1. pc'.at = "failed"
      BY <1>1, <2>1, <2>3, PlaceFields
    <3>2. QED
      BY <1>2, <2>1, <2>2, <3>1, RemovalFacts, SettledNext
  <2>4. CASE pc.at \notin {"publish", "expiry publish"}
    <3>1. pc' = pc /\ AbsentFrom(Departing, saves')
      BY <2>1, <2>4 DEF RemovalInv, DepartingAbsent
    <3>2. QED
      BY <1>2, <2>1, <2>2, <3>1, RemovalFacts, WaitingNext
  <2>5. QED
    BY <2>3, <2>4
<1>7. CASE Cancel \/ Passes
  <2>1. UNCHANGED << tasks, pending, pc, saves, debounced, events >>
    BY <1>7 DEF Cancel, Passes, Tick, Expire, actor, writer, bridge
  <2>2. AbsentFrom(Departing, saves')
    BY <2>1 DEF RemovalInv, DepartingAbsent
  <2>3. QED
    BY <1>2, <2>1, <2>2, RemovalFacts, WaitingNext
<1>8. CASE Crash
  <2>1. /\ UNCHANGED << tasks, pending >> /\ saves' = << >> /\ events' = << >>
        /\ debounced' = None /\ pc'.at = "crashed"
    BY <1>3, <1>8 DEF Crash, actor
  <2>2. DOMAIN saves' = {} /\ DOMAIN events' = {}
    BY <2>1
  <2>3. QED
    BY <1>2, <2>1, <2>2, RemovalFacts, SettledNext
<1>9. CASE Restart
  <2>1. /\ UNCHANGED << saves, debounced >> /\ tasks' = disk /\ pending' = None /\ pc'.at = "idle"
    BY <1>3, <1>9 DEF Restart, writer
  <2>2. PICK places \in Announced(disk, due') :
          events' = [k \in DOMAIN places |-> Notice("created", disk[places[k]], clock')]
    BY <1>9 DEF Restart
  <2>3. \A k \in DOMAIN events' : events'[k].kind = "created"
    BY <2>2, NoticeFacts
  <2>4. QED
    BY <1>2, <2>1, <2>3, RemovalFacts, SettledNext
<1>10. QED
  BY <1>4, <1>5, <1>6, <1>7, <1>8, <1>9 DEF Faults

-----------------------------------------------------------------------------
(***************************************************************************)
(* The theorems                                                            *)
(***************************************************************************)
LEMMA RemovalStep ==
  ASSUME RemovalInv, [Next]_vars
  PROVE  RemovalInv'
<1>1. ReservationInv'
  <2>1. ReservationInv /\ tasks \in Seq(Tasks) /\ disk \in Seq(Tasks)
    BY RemovalFacts, CleanSeq DEF RemovalInv
  <2>2. QED
    BY <2>1, ReservationStep
<1>2. CASE Commands
  <2>1. CASE \E t \in Tasks : Create(t) \/ (\E interval \in BOOLEAN : Update(t, interval))
    BY <1>1, <2>1, StampRemoves DEF RemovalInv
  <2>2. CASE (\E t \in Tasks : Delete(t)) \/ RetryDelete
    BY <1>1, <2>2, RemovalBegins DEF RemovalInv
  <2>3. CASE AbandonDelete
    BY <1>1, <2>3, OutsideRemoves DEF RemovalInv
  <2>4. QED
    BY <1>2, <2>1, <2>2, <2>3 DEF Commands
<1>3. CASE Timer
  <2>1. PICK i : \/ BlockExpiry(i) \/ ExpireDurable(i) \/ ExpireSessionOnly(i)
                 \/ FireRecurring(i) \/ SkipRecurring(i) \/ FireOneShot(i)
    BY <1>3 DEF Timer
  <2>2. CASE ExpireDurable(i)
    BY <1>1, <2>2, RemovalBegins DEF RemovalInv
  <2>3. CASE ~ExpireDurable(i)
    <3>1. PICK t \in Tasks : TRUE
      <4>1. i \in DOMAIN tasks
        BY <2>1, <2>3 DEF BlockExpiry, ExpireSessionOnly, FireRecurring, SkipRecurring,
                          FireOneShot, Fires
      <4>2. tasks \in Seq(Tasks)
        BY RemovalFacts, CleanSeq
      <4>3. QED
        BY <4>1, <4>2
    <3>2. QED
      BY <1>1, <2>1, <2>3, <3>1, StampRemoves DEF RemovalInv
  <2>4. QED
    BY <2>2, <2>3
<1>4. CASE Continues
  BY <1>1, <1>4, ContinueRemoves DEF RemovalInv
<1>5. CASE Writes
  BY <1>1, <1>5, WriteRemoves DEF RemovalInv
<1>6. CASE Forwards
  BY <1>1, <1>6, ForwardRemoves DEF RemovalInv
<1>7. CASE Shutdown \/ Faults \/ Passes
  BY <1>1, <1>7, OutsideRemoves DEF RemovalInv
<1>8. CASE UNCHANGED vars
  <2>1. UNCHANGED << pc, pending, tasks, unborn, deleted, tombstones, events, disk, debounced, saves >>
    BY <1>8 DEF vars, actor, world, writer, bridge, ghosts
  <2>2. AbsentFrom(Departing, saves')
    BY <2>1 DEF RemovalInv, DepartingAbsent
  <2>3. QED
    BY <1>1, <2>1, <2>2, RemovalFacts, WaitingNext DEF RemovalInv
<1>9. QED
  BY <1>2, <1>3, <1>4, <1>5, <1>6, <1>7, <1>8 DEF Next

LEMMA RemovalInit ==
  ASSUME Init
  PROVE  RemovalInv
<1>1. Idle = [at |-> "idle", task |-> None, index |-> 0, reservation |-> None]
  BY DEF Idle
<1>2. ReservationInv
  <2>1. ActorTyped
    BY <1>1 DEF Init, ActorTyped, Where, Stamp
  <2>2. OneRemoval
    BY <1>1 DEF Init, OneRemoval, Deleting, Expiring
  <2>3. AnswersHeard
    <3>1. saves = << >> /\ events = << >>
      BY DEF Init
    <3>2. DOMAIN saves = {} /\ DOMAIN events = {}
      BY <3>1
    <3>3. OneAwaited(saves) /\ NoneAwaited(saves) /\ OneAwaited(events) /\ NoneAwaited(events)
      BY <3>1, EmptyQueue
    <3>4. QED
      BY <3>2, <3>3 DEF AnswersHeard
  <2>4. NoStaleReservation
    BY <1>1 DEF Init, NoStaleReservation
  <2>5. QED
    BY <2>1, <2>2, <2>3, <2>4 DEF ReservationInv
<1>3. Gone = {}
  BY <1>1 DEF Init, Gone, Settled
<1>4. CopiesClean
  BY <1>3 DEF Init, CopiesClean, Clean
<1>5. DepartingAbsent
  BY <1>1 DEF Init, DepartingAbsent, Expiring, AbsentFrom
<1>6. TombstoneOfDeparting
  BY <1>1 DEF Init, TombstoneOfDeparting, At
<1>7. QED
  BY <1>2, <1>4, <1>5, <1>6 DEF RemovalInv

\* commit_next never finds a clock other than the one the reservation was made from,
\* whatever the writer, the bridge, the timeouts and the retries do in between.
THEOREM NoStaleCorrect == Spec => []NoStaleReservation
<1>1. RemovalInv => NoStaleReservation
  BY DEF RemovalInv, ReservationInv
<1>2. QED
  BY <1>1, RemovalInit, RemovalStep, PTL DEF Spec

\* A task whose tombstone is in the session log, or whose deletion was reported, is never
\* held again and never in the file again, across late writes, timeouts and crashes.
THEOREM RemovalCorrect == Spec => []RemovalIsFinal
<1>1. ASSUME RemovalInv
      PROVE  RemovalIsFinal
  <2>1. \A t \in tombstones : t \notin Range(tasks) /\ t \notin Range(disk)
    BY <1>1, RemovalFacts DEF CleanOf, Range
  <2>2. deleted \subseteq tombstones
    BY <1>1, RemovalFacts
  <2>3. QED
    BY <2>1, <2>2 DEF RemovalIsFinal, TombstoneIsFinal, DeleteIsDurable, Held
<1>2. QED
  BY <1>1, RemovalInit, RemovalStep, PTL DEF Spec

-----------------------------------------------------------------------------
(***************************************************************************)
(* The order of the notifications                                          *)
(***************************************************************************)

\* What the bridge sees of a message.
Alike(x, y) == x.kind = y.kind /\ x.task = y.task /\ x.version = y.version

\* c is what is left of q once d messages are taken off.
RestOf(q, c, d) ==
  /\ OneAwaited(c)
  /\ \A i \in DOMAIN c : i + d \in DOMAIN q /\ Alike(c[i], q[i + d])

\* The places of a queue that two queues make.
Followed(q, r, c) ==
  /\ Len(q) \in Nat /\ DOMAIN q = 1..Len(q) /\ Len(r) \in Nat /\ DOMAIN r = 1..Len(r)
  /\ DOMAIN c = 1..(Len(q) + Len(r))
  /\ \A k \in DOMAIN c :
       \/ k \in DOMAIN q /\ c[k] = q[k]
       \/ k - Len(q) \in DOMAIN r /\ k > Len(q) /\ c[k] = r[k - Len(q)]

\* Uncommitted and Spent, of a queue, a clock and a pending removal that are named.
Exempt(e, ex) == e.kind = "tombstone" /\ e.task \in ex

SpentBy(v, c, p) == ~Older(c, v) \/ (p # None /\ v = VersionAt(p.reservation, 0))

InOrder(q, ex) ==
  \A i, j \in DOMAIN q :
    (i < j /\ (q[i].kind = "tombstone" => q[i].task \notin ex))
      => ~Older(q[j].version, q[i].version)

LEMMA RestEmpty ==
  ASSUME NEW q
  PROVE  RestOf(q, << >>, 0)
<1>1. OneAwaited(<< >>) /\ DOMAIN << >> = {}
  BY EmptyQueue
<1>2. QED
  BY <1>1 DEF RestOf

LEMMA RestSame ==
  ASSUME NEW q, OneAwaited(q)
  PROVE  RestOf(q, q, 0)
<1>1. Len(q) \in Nat /\ DOMAIN q = 1..Len(q)
  BY QueueFacts
<1>2. \A i \in DOMAIN q : i + 0 = i
  BY <1>1
<1>3. QED
  BY <1>2 DEF RestOf, Alike

LEMMA RestCut ==
  ASSUME NEW q, NEW c, CutShort(q, c)
  PROVE  RestOf(q, c, 0)
<1>1. Len(c) \in Nat /\ DOMAIN c = 1..Len(c)
  BY QueueFacts DEF CutShort
<1>2. \A i \in DOMAIN c : i + 0 = i
  BY <1>1
<1>3. QED
  BY <1>2 DEF CutShort, RestOf, Alike

LEMMA RestTail ==
  ASSUME NEW q, OneAwaited(q), q # << >>
  PROVE  RestOf(q, Tail(q), 1)
<1>1. Shortened(q, Tail(q))
  BY TailQueue
<1>2. QED
  BY <1>1 DEF Shortened, RestOf, Alike

LEMMA RestUnheard ==
  ASSUME NEW q, OneAwaited(q), \A i \in DOMAIN q : IsEvent(q[i])
  PROVE  RestOf(q, Unheard(q), 0)
<1> DEFINE c == Unheard(q)
<1>1. Len(q) \in Nat /\ DOMAIN q = 1..Len(q)
  BY QueueFacts
<1>2. \A i \in DOMAIN q : "awaited" \in DOMAIN q[i]
  BY EventFields
<1>3. Silenced(q, c)
  BY <1>2, UnheardQueue
<1> HIDE DEF c
<1>4. ASSUME NEW i \in DOMAIN c
      PROVE  i + 0 \in DOMAIN q /\ Alike(c[i], q[i + 0])
  <2>1. i \in DOMAIN q /\ i + 0 = i /\ c[i] = [q[i] EXCEPT !.awaited = FALSE]
    BY <1>1, <1>3 DEF Silenced
  <2>2. c[i] = [kind |-> q[i].kind, task |-> q[i].task, version |-> q[i].version,
                awaited |-> FALSE]
    BY <2>1 DEF IsEvent
  <2>3. QED
    BY <2>1, <2>2 DEF Alike
<1>5. RestOf(q, c, 0)
  BY <1>3, <1>4 DEF RestOf, Silenced
<1>6. QED
  BY <1>5 DEF c

LEMMA FollowedFacts ==
  ASSUME NEW q, OneAwaited(q), NEW r, OneAwaited(r)
  PROVE  Followed(q, r, q \o r)
<1> DEFINE S == {q[i] : i \in DOMAIN q} \cup {r[i] : i \in DOMAIN r}
           c == q \o r
<1>1. q \in Seq(S) /\ r \in Seq(S)
  BY QueueIn DEF OneAwaited
<1>2. /\ Len(q) \in Nat /\ Len(r) \in Nat /\ DOMAIN q = 1..Len(q) /\ DOMAIN r = 1..Len(r)
  BY QueueFacts
<1>3. /\ c \in Seq(S) /\ Len(c) = Len(q) + Len(r)
      /\ \A i \in 1..(Len(q) + Len(r)) : c[i] = IF i <= Len(q) THEN q[i] ELSE r[i - Len(q)]
  <2> HIDE DEF S
  <2>1. QED
    BY <1>1, ConcatProperties
<1>4. DOMAIN c = 1..(Len(q) + Len(r))
  <2> HIDE DEF S, c
  <2>1. QED
    BY <1>2, <1>3
<1> HIDE DEF S, c
<1>5. \A k \in DOMAIN c :
       \/ k \in DOMAIN q /\ c[k] = q[k]
       \/ k - Len(q) \in DOMAIN r /\ k > Len(q) /\ c[k] = r[k - Len(q)]
  BY <1>2, <1>3, <1>4
<1>6. Followed(q, r, c)
  BY <1>2, <1>4, <1>5 DEF Followed
<1>7. QED
  BY <1>6 DEF c

\* What is left of a queue in order is in order, and more tasks may expire.
LEMMA RestInOrder ==
  ASSUME NEW q, NEW c, NEW d \in Nat, NEW ex, NEW more, ex \subseteq more,
         RestOf(q, c, d), InOrder(q, ex)
  PROVE  InOrder(c, more)
<1>1. Len(c) \in Nat /\ DOMAIN c = 1..Len(c)
  BY QueueFacts DEF RestOf
<1>2. SUFFICES ASSUME NEW i \in DOMAIN c, NEW j \in DOMAIN c, i < j,
                      c[i].kind = "tombstone" => c[i].task \notin more
               PROVE  ~Older(c[j].version, c[i].version)
  BY DEF InOrder
<1>3. /\ i + d \in DOMAIN q /\ j + d \in DOMAIN q
      /\ Alike(c[i], q[i + d]) /\ Alike(c[j], q[j + d])
  BY DEF RestOf
<1>4. i + d < j + d
  BY <1>1, <1>2
<1>5. ~Older(q[j + d].version, q[i + d].version)
  BY <1>2, <1>3, <1>4 DEF InOrder, Alike
<1>6. QED
  BY <1>3, <1>5 DEF Alike

\* What joins a queue in order, in order and no older than what is there.
LEMMA JoinInOrder ==
  ASSUME NEW q, NEW r, NEW c, NEW ex, Followed(q, r, c), InOrder(q, ex), InOrder(r, ex),
         \A i \in DOMAIN q, k \in DOMAIN r :
           (q[i].kind = "tombstone" => q[i].task \notin ex)
             => ~Older(r[k].version, q[i].version)
  PROVE  InOrder(c, ex)
<1>1. SUFFICES ASSUME NEW i \in DOMAIN c, NEW j \in DOMAIN c, i < j,
                      c[i].kind = "tombstone" => c[i].task \notin ex
               PROVE  ~Older(c[j].version, c[i].version)
  BY DEF InOrder
<1>2. Len(q) \in Nat /\ i \in Nat /\ j \in Nat /\ DOMAIN q = 1..Len(q)
  BY DEF Followed
<1>3. CASE i \in DOMAIN q /\ c[i] = q[i] /\ j \in DOMAIN q /\ c[j] = q[j]
  BY <1>1, <1>3 DEF InOrder
<1>4. CASE i \in DOMAIN q /\ c[i] = q[i] /\ j - Len(q) \in DOMAIN r /\ c[j] = r[j - Len(q)]
  BY <1>1, <1>4
<1>5. CASE /\ i - Len(q) \in DOMAIN r /\ c[i] = r[i - Len(q)]
           /\ j - Len(q) \in DOMAIN r /\ c[j] = r[j - Len(q)]
  <2>1. i - Len(q) < j - Len(q)
    BY <1>1, <1>2
  <2>2. QED
    BY <1>1, <1>5, <2>1 DEF InOrder
<1>6. CASE i - Len(q) \in DOMAIN r /\ i > Len(q) /\ j \in DOMAIN q
  BY <1>1, <1>2, <1>6
<1>7. QED
  BY <1>3, <1>4, <1>5, <1>6 DEF Followed

\* Versions are totally ordered.
LEMMA OlderFacts ==
  ASSUME NEW u \in Stamp, NEW v \in Stamp, NEW w \in Stamp
  PROVE  /\ ~Older(u, u)
         /\ (Older(u, v) => ~Older(v, u))
         /\ (~Older(v, u) /\ ~Older(w, v) => ~Older(w, u))
         /\ (~Older(v, u) /\ Older(v, w) => Older(u, w))
BY DEF Older, Stamp

\* What a reservation of n versions gets.
LEMMA Reserving ==
  ASSUME clock \in Stamp, generations \in Nat, clock.gen <= generations, NEW n \in Nat \ {0},
         Draw(n)
  PROVE  LET r == PrepareTransition(n)
         IN  /\ r \in Reserved /\ r.gen <= generations' /\ generations <= generations'
             /\ generations' \in Nat
             /\ r.rollover => r.source.gen < r.gen
             /\ r.rollover /\ n = 1 => MaxRevision < r.source.rev + 1
             /\ \A k \in Nat : /\ VersionAt(r, k) \in Stamp /\ VersionAt(r, k).gen = r.gen
                               /\ Older(clock, VersionAt(r, k))
<1> DEFINE r == PrepareTransition(n)
<1>1. clock.gen \in Nat /\ clock.rev \in Nat
  BY DEF Stamp
<1>2. r.source = clock /\ r.rollover = Overflows(n)
  BY DEF PrepareTransition
<1>3. r.gen = IF Overflows(n) THEN generations + 1 ELSE clock.gen
  BY DEF PrepareTransition
<1>4. r.next = IF Overflows(n) THEN 1 ELSE clock.rev + 1
  BY DEF PrepareTransition
<1>5. r \in Reserved
  BY ReservedFacts
<1>6. generations' = IF Overflows(n) THEN generations + 1 ELSE generations
  BY DEF Draw
<1>7. Overflows(n) <=> clock.rev + n > MaxRevision
  BY DEF Overflows
<1>8. MaxRevision \in Nat
  BY SchedulerAssumption
<1> HIDE DEF r
<1>9. ASSUME NEW k \in Nat
      PROVE  /\ VersionAt(r, k) \in Stamp /\ VersionAt(r, k).gen = r.gen
             /\ Older(clock, VersionAt(r, k))
  <2>1. VersionAt(r, k) \in Stamp
    BY <1>5, VersionFacts
  <2>2. VersionAt(r, k).gen = r.gen /\ VersionAt(r, k).rev = r.next + k
    BY DEF VersionAt
  <2>3. QED
    BY <1>1, <1>3, <1>4, <2>1, <2>2 DEF Older
<1>10. r.gen <= generations' /\ generations <= generations' /\ generations' \in Nat
  BY <1>1, <1>3, <1>6
<1>11. r.rollover => r.source.gen < r.gen
  BY <1>1, <1>2, <1>3
<1>12. r.rollover /\ n = 1 => MaxRevision < r.source.rev + 1
  BY <1>1, <1>2, <1>7, <1>8
<1>13. QED
  BY <1>5, <1>9, <1>10, <1>11, <1>12 DEF r

LEMMA ReservingOne ==
  ASSUME clock \in Stamp, generations \in Nat, clock.gen <= generations, Draw(1)
  PROVE  LET r == PrepareTransition(1)
         IN  /\ r.gen <= generations' /\ generations <= generations' /\ generations' \in Nat
             /\ (r.rollover => r.source.gen < r.gen /\ MaxRevision < r.source.rev + 1)
BY Reserving

\* The version that is reserved for the pending removal is ahead of the clock.
LEMMA PendingAhead ==
  ASSUME clock \in Stamp, generations \in Nat, NEW r \in Reserved, Outbids(r),
         clock = ExpectedSource(r)
  PROVE  VersionAt(r, 0) \in Stamp /\ Older(clock, VersionAt(r, 0))
<1>1. /\ r.gen \in Nat /\ r.next \in Nat /\ r.source \in Stamp /\ r.source.gen \in Nat
      /\ clock.gen \in Nat /\ clock.rev \in Nat
  BY DEF Reserved, Stamp
<1>2. VersionAt(r, 0).gen = r.gen /\ VersionAt(r, 0).rev = r.next
  BY <1>1 DEF VersionAt
<1>3. VersionAt(r, 0) \in Stamp
  BY VersionFacts
<1>4. CASE r.rollover
  BY <1>1, <1>2, <1>3, <1>4 DEF ExpectedSource, Outbids, Older
<1>5. CASE ~r.rollover
  <2>1. clock.gen = r.gen /\ clock.rev = r.next - 1
    BY <1>5 DEF ExpectedSource
  <2>2. QED
    BY <1>1, <1>2, <1>3, <2>1 DEF Older
<1>6. QED
  BY <1>3, <1>4, <1>5

\* What every proof below starts from.
LEMMA OrderFacts ==
  ASSUME RemovalInv, OrderInv
  PROVE  /\ clock \in Stamp /\ generations \in Nat /\ clock.gen <= generations
         /\ OneAwaited(events) /\ \A i \in DOMAIN events : IsEvent(events[i])
         /\ \A i \in DOMAIN events : events[i].version \in Stamp
         /\ InOrder(events, expired)
         /\ pending \in Removal \union {None}
         /\ (pending # None =>
               /\ pending.reservation \in Reserved /\ Outbids(pending.reservation)
               /\ VersionAt(pending.reservation, 0) \in Stamp)
         /\ (pending # None /\ Running => Older(clock, VersionAt(pending.reservation, 0)))
         /\ (pc.reservation # None => Outbids(pc.reservation))
<1>1. /\ clock \in Stamp /\ generations \in Nat /\ clock.gen <= generations
      /\ OneAwaited(events) /\ \A i \in DOMAIN events : IsEvent(events[i])
      /\ \A i \in DOMAIN events : events[i].version \in Stamp
      /\ pending \in Removal \union {None}
      /\ (pending # None => Outbids(pending.reservation))
      /\ (pc.reservation # None => Outbids(pc.reservation))
  BY DEF RemovalInv, ReservationInv, ActorTyped, AnswersHeard, OrderInv, VersionsDrawn,
         VersionsSpent
<1>2. InOrder(events, expired)
  BY DEF OrderInv, EventsInOrder, InOrder
<1>3. pending # None => pending.reservation \in Reserved
  BY <1>1 DEF Removal
<1>4. pending # None => VersionAt(pending.reservation, 0) \in Stamp
  BY <1>3, VersionFacts
<1>5. pending # None /\ Running => clock = ExpectedSource(pending.reservation)
  BY DEF RemovalInv, ReservationInv, NoStaleReservation
<1>6. QED
  BY <1>1, <1>2, <1>3, <1>4, <1>5, PendingAhead

\* A step that sends nothing.
LEMMA OrderQuiet ==
  ASSUME RemovalInv, OrderInv, VersionsDrawn', NEW d \in {0, 1}, RestOf(events, events', d),
         expired \subseteq expired', open' => open,
         pc'.at \in Expiring => pc'.task \in expired',
         Running' /\ open' =>
           Running /\ \A v \in Stamp : SpentBy(v, clock, pending) => SpentBy(v, clock', pending')
  PROVE  OrderInv'
<1>1. InOrder(events', expired')
  BY OrderFacts, RestInOrder
<1>2. EventsInOrder'
  BY <1>1 DEF EventsInOrder, InOrder
<1>3. \A i \in DOMAIN events' :
        /\ i + d \in DOMAIN events /\ events'[i].version = events[i + d].version
        /\ events'[i].kind = events[i + d].kind /\ events'[i].task = events[i + d].task
  BY DEF RestOf, Alike
<1>4. \A i \in DOMAIN events' : events'[i].version \in Stamp
  BY <1>3, OrderFacts
<1>5. ASSUME Running', open', NEW i \in DOMAIN events'
      PROVE  Exempt(events'[i], expired') \/ SpentBy(events'[i].version, clock', pending')
  <2>1. Running /\ open /\ \A v \in Stamp : SpentBy(v, clock, pending) => SpentBy(v, clock', pending')
    BY <1>5
  <2>2. Exempt(events[i + d], expired) \/ SpentBy(events[i + d].version, clock, pending)
    BY <1>3, <2>1 DEF OrderInv, VersionsSpent, Exempt, SpentBy, Uncommitted, Spent
  <2>3. CASE Exempt(events[i + d], expired)
    BY <1>3, <2>3 DEF Exempt
  <2>4. CASE SpentBy(events[i + d].version, clock, pending)
    <3> DEFINE v == events[i + d].version
    <3>1. v \in Stamp /\ events'[i].version = v
      BY <1>3, OrderFacts
    <3>2. SpentBy(v, clock', pending')
      BY <2>1, <2>4, <3>1
    <3>3. QED
      BY <3>1, <3>2
  <2>5. QED
    BY <2>2, <2>3, <2>4
<1>6. VersionsSpent'
  BY <1>4, <1>5 DEF VersionsSpent, Uncommitted, Spent, Exempt, SpentBy
<1>7. QED
  BY <1>2, <1>6 DEF OrderInv

\* A step that sends notifications whose versions the clock has not passed.
LEMMA OrderSends ==
  ASSUME RemovalInv, OrderInv, VersionsDrawn', OneAwaited(events'), Running, clock' \in Stamp,
         NEW notices, OneAwaited(notices), Send(notices), InOrder(notices, expired),
         UNCHANGED << open, expired >>, pc'.at \in Expiring => pc'.task \in expired,
         \A k \in DOMAIN notices :
           /\ notices[k].version \in Stamp
           /\ \A v \in Stamp : SpentBy(v, clock, pending) => ~Older(notices[k].version, v)
           /\ Running' => \/ Exempt(notices[k], expired)
                        \/ SpentBy(notices[k].version, clock', pending'),
         Running' => \A v \in Stamp : SpentBy(v, clock, pending) => SpentBy(v, clock', pending')
  PROVE  OrderInv'
<1>1. CASE ~open
  <2>1. events' = events
    BY <1>1 DEF Send
  <2>2. RestOf(events, events', 0)
    BY <2>1, RestSame, OrderFacts
  <2>3. QED
    BY <1>1, <2>2, OrderQuiet
<1>2. CASE open
  <2>1. events' = events \o notices
    BY <1>2 DEF Send
  <2>2. Followed(events, notices, events')
    BY <2>1, OrderFacts, FollowedFacts
  <2>3. \A i \in DOMAIN events :
          Exempt(events[i], expired) \/ SpentBy(events[i].version, clock, pending)
    BY <1>2 DEF OrderInv, VersionsSpent, Exempt, SpentBy, Uncommitted, Spent
  <2>4. \A i \in DOMAIN events, k \in DOMAIN notices :
           (events[i].kind = "tombstone" => events[i].task \notin expired)
             => ~Older(notices[k].version, events[i].version)
    BY <2>3, OrderFacts DEF Exempt
  <2>5. InOrder(events', expired)
    BY <2>2, <2>4, OrderFacts, JoinInOrder
  <2>6. EventsInOrder'
    BY <2>5 DEF EventsInOrder, InOrder
  <2>7. ASSUME NEW k \in DOMAIN events'
        PROVE  /\ events'[k].version \in Stamp
               /\ Running' => \/ Exempt(events'[k], expired')
                                 \/ SpentBy(events'[k].version, clock', pending')
    <3>1. CASE k \in DOMAIN events /\ events'[k] = events[k]
      <4> DEFINE v == events[k].version
      <4>1. v \in Stamp /\ (Exempt(events[k], expired) \/ SpentBy(v, clock, pending))
        BY <2>3, <3>1, OrderFacts
      <4>2. CASE Exempt(events[k], expired)
        BY <3>1, <4>1, <4>2
      <4>3. CASE SpentBy(v, clock, pending)
        <5>1. Running' => SpentBy(v, clock', pending')
          BY <4>1, <4>3
        <5>2. QED
          BY <3>1, <4>1, <5>1
      <4>4. QED
        BY <4>1, <4>2, <4>3
    <3>2. ASSUME NEW i \in DOMAIN notices, events'[k] = notices[i]
          PROVE  /\ events'[k].version \in Stamp
                 /\ Running' => \/ Exempt(events'[k], expired')
                                 \/ SpentBy(events'[k].version, clock', pending')
      BY <3>2
    <3>3. QED
      BY <2>2, <3>1, <3>2 DEF Followed
  <2>8. VersionsSpent'
    BY <1>2, <2>7 DEF VersionsSpent, Uncommitted, Spent, Exempt, SpentBy
  <2>9. QED
    BY <2>6, <2>8 DEF OrderInv
<1>3. QED
  BY <1>1, <1>2

LEMMA SingleInOrder ==
  ASSUME NEW x, NEW ex
  PROVE  InOrder(<< x >>, ex)
<1>1. \A i, j \in DOMAIN << x >> : ~(i < j)
  OBVIOUS
<1>2. QED
  BY <1>1 DEF InOrder

\* The actor is idle, and a removal is not pending: notifications under new versions.
LEMMA StampOrders ==
  ASSUME RemovalInv, RemovalInv', OrderInv, At("idle"), pending = None,
         UNCHANGED << pending, pc, expired, open >>,
         ~Older(clock', clock), clock'.gen <= generations',
         NEW notices, OneAwaited(notices), Send(notices), InOrder(notices, expired),
         \A k \in DOMAIN notices :
           /\ notices[k].version \in Stamp /\ ~Older(notices[k].version, clock)
           /\ ~Older(clock', notices[k].version)
  PROVE  OrderInv'
<1>1. Running /\ pc.reservation = None /\ pc.at \notin Expiring
  BY DEF At, Running, RemovalInv, ReservationInv, OneRemoval, Expiring
<1>2. VersionsDrawn'
  BY <1>1 DEF VersionsDrawn
<1>3. OneAwaited(events') /\ clock' \in Stamp /\ clock \in Stamp
  BY DEF RemovalInv, ReservationInv, ActorTyped, AnswersHeard, OneAwaited
<1>4. \A v \in Stamp : SpentBy(v, clock, pending) => SpentBy(v, clock', pending')
  BY <1>3, OlderFacts DEF SpentBy
<1>5. ASSUME NEW k \in DOMAIN notices
      PROVE  /\ \A v \in Stamp : SpentBy(v, clock, pending) => ~Older(notices[k].version, v)
             /\ SpentBy(notices[k].version, clock', pending')
  BY <1>3, <1>5, OlderFacts DEF SpentBy
<1>6. QED
  BY <1>1, <1>2, <1>3, <1>4, <1>5, OrderSends

LEMMA NoticeOrders ==
  ASSUME RemovalInv, RemovalInv', OrderInv, At("idle"), pending = None,
         UNCHANGED << pending, pc, expired, open >>,
         \/ clock' = VersionAt(PrepareTransition(1), 0) /\ Draw(1)
         \/ clock' = clock /\ generations' = generations,
         NEW kind, NEW t, Send(<< Notice(kind, t, clock') >>)
  PROVE  OrderInv'
<1> DEFINE x == Notice(kind, t, clock')
<1>1. clock \in Stamp /\ generations \in Nat /\ clock.gen <= generations
  BY OrderFacts
<1>2. clock' \in Stamp /\ ~Older(clock', clock) /\ clock'.gen <= generations'
  <2>1. CASE clock' = VersionAt(PrepareTransition(1), 0) /\ Draw(1)
    BY <1>1, <2>1, Reserving, OlderFacts
  <2>2. CASE clock' = clock /\ generations' = generations
    BY <1>1, <2>2, OlderFacts
  <2>3. QED
    BY <2>1, <2>2
<1>3. x.version = clock' /\ ~Older(clock', clock')
  BY <1>2, OlderFacts DEF Notice
<1> HIDE DEF x
<1>4. OneAwaited(<< x >>) /\ \A i \in DOMAIN << x >> : << x >>[i] = x
  BY SingleQueue
<1>5. \A k \in DOMAIN << x >> :
        /\ << x >>[k].version \in Stamp /\ ~Older(<< x >>[k].version, clock)
        /\ ~Older(clock', << x >>[k].version)
  BY <1>2, <1>3, <1>4
<1>6. Send(<< x >>)
  BY DEF x
<1>7. QED
  BY <1>2, <1>4, <1>5, <1>6, SingleInOrder, StampOrders

\* Create, Update and the fires.
LEMMA StampsOrder ==
  ASSUME RemovalInv, RemovalInv', OrderInv, NEW t, NEW interval, NEW p,
         \/ Create(t) \/ Update(t, interval) \/ ExpireSessionOnly(p)
         \/ FireRecurring(p) \/ SkipRecurring(p) \/ FireOneShot(p)
  PROVE  OrderInv'
<1>1. At("idle") /\ pending = None /\ UNCHANGED << pending, pc, expired, open >>
  BY DEF Create, Update, ExpireSessionOnly, FireRecurring, SkipRecurring, FireOneShot, Fires,
         TimerRuns, Accepts, Selects, actor, world
<1>2. CASE Create(t)
  BY <1>1, <1>2, NoticeOrders DEF Create
<1>3. CASE Update(t, interval)
  BY <1>1, <1>3, NoticeOrders DEF Update
<1>4. CASE ExpireSessionOnly(p)
  BY <1>1, <1>4, NoticeOrders DEF ExpireSessionOnly
<1>5. CASE FireRecurring(p)
  BY <1>1, <1>5, NoticeOrders DEF FireRecurring
<1>6. CASE SkipRecurring(p)
  <2>1. clock' = clock /\ generations' = generations
    BY <1>6 DEF SkipRecurring, actor
  <2>2. Send(<< Notice("created", tasks[p], clock') >>)
    BY <1>6, <2>1 DEF SkipRecurring
  <2>3. QED
    BY <1>1, <2>1, <2>2, NoticeOrders
<1>7. CASE FireOneShot(p)
  <2> DEFINE r == PrepareTransition(2)
             u == VersionAt(r, 0)
             v == VersionAt(r, 1)
             x == Notice("fired", tasks[p], u)
             y == Notice("removed", tasks[p], v)
  <2>1. clock \in Stamp /\ generations \in Nat /\ clock.gen <= generations
    BY OrderFacts
  <2>2. Send(<< x, y >>) /\ clock' = v /\ Draw(2)
    BY <1>7 DEF FireOneShot
  <2>3. /\ u \in Stamp /\ v \in Stamp /\ Older(clock, u) /\ Older(clock, v)
        /\ v.gen <= generations'
    BY <2>1, <2>2, Reserving
  <2>4. u.gen = v.gen /\ v.rev = u.rev + 1
    <3>1. r \in Reserved
      BY <2>1, ReservedFacts
    <3>2. r.next \in Nat
      BY <3>1 DEF Reserved
    <3>3. QED
      BY <3>2 DEF VersionAt
  <2>5. x.version = u /\ y.version = v /\ ~x.awaited /\ ~y.awaited
    BY DEF Notice
  <2> HIDE DEF x, y, u, v, r
  <2>6. ~Older(v, u) /\ ~Older(u, clock) /\ ~Older(v, clock) /\ ~Older(v, v)
    <3>1. ~Older(v, u)
      BY <2>3, <2>4 DEF Older, Stamp
    <3>2. QED
      BY <2>1, <2>3, <3>1, OlderFacts
  <2>7. DOMAIN << x, y >> = {1, 2} /\ << x, y >>[1] = x /\ << x, y >>[2] = y
    OBVIOUS
  <2>8. OneAwaited(<< x, y >>)
    BY <2>5 DEF OneAwaited
  <2>9. InOrder(<< x, y >>, expired)
    <3>1. SUFFICES ASSUME NEW i \in {1, 2}, NEW j \in {1, 2}, i < j
                   PROVE  ~Older(<< x, y >>[j].version, << x, y >>[i].version)
      BY <2>7 DEF InOrder
    <3>2. i = 1 /\ j = 2
      BY <3>1
    <3>3. QED
      BY <2>5, <2>6, <2>7, <3>2
  <2>10. ASSUME NEW k \in DOMAIN << x, y >>
         PROVE  /\ << x, y >>[k].version \in Stamp /\ ~Older(<< x, y >>[k].version, clock)
                /\ ~Older(clock', << x, y >>[k].version)
    BY <2>2, <2>3, <2>5, <2>6, <2>7
  <2>11. QED
    BY <1>1, <2>2, <2>3, <2>6, <2>8, <2>9, <2>10, StampOrders
<1>8. QED
  BY <1>2, <1>3, <1>4, <1>5, <1>6, <1>7

\* Where an answer of the writer or a receipt of the bridge takes the actor.
LEMMA Received ==
  ASSUME ReservationInv, Writes \/ Forwards
  PROVE  /\ pc'.task = pc.task /\ pc'.index = pc.index /\ pc'.reservation = pc.reservation
         /\ \/ pc' = pc
            \/ pc.at = "persist" /\ pc'.at \in {"persisted", "failed"}
            \/ pc.at = "expiry persist" /\ pc'.at \in {"expiry persisted", "expiry failed"}
            \/ pc.at = "publish" /\ pc'.at \in {"published", "failed"} /\ Head(events).awaited
            \/ /\ pc.at = "expiry publish" /\ pc'.at \in {"expiry published", "failed"}
               /\ Head(events).awaited
         /\ UNCHANGED << actor, world, ghosts, open >>
<1>1. ActorTyped
  BY DEF ReservationInv
<1>2. UNCHANGED << actor, world, ghosts, open >>
  BY DEF Writes, ToolSave, WriterSave, WriterTick, WriterFlush, Forwards, Forward, AppendDurably,
         bridge
<1>3. CASE ToolSave \/ WriterSave \/ (\E ok \in BOOLEAN : WriterTick(ok)) \/ Forward
  <2>1. pc' = pc
    BY <1>3 DEF ToolSave, WriterSave, WriterTick, Forward
  <2>2. QED
    BY <1>2, <2>1
<1>4. ASSUME NEW ok \in BOOLEAN, NEW replaced \in BOOLEAN, WriterFlush(ok, replaced)
      PROVE  /\ pc'.task = pc.task /\ pc'.index = pc.index /\ pc'.reservation = pc.reservation
             /\ \/ pc' = pc
                \/ pc.at = "persist" /\ pc'.at \in {"persisted", "failed"}
                \/ pc.at = "expiry persist" /\ pc'.at \in {"expiry persisted", "expiry failed"}
  <2>1. saves # << >> /\ pc' = Answered(Head(saves), ok)
    BY <1>4 DEF WriterFlush
  <2>2. \/ pc' = pc
        \/ \E w : /\ pc' = [pc EXCEPT !.at = w]
                  /\ \/ pc.at = "persist" /\ w \in {"persisted", "failed"}
                     \/ pc.at = "expiry persist" /\ w \in {"expiry persisted", "expiry failed"}
    BY <1>4, <2>1, AnsweredFacts
  <2>3. QED
    BY <1>1, <2>2, PlaceFields
<1>5. ASSUME NEW ok \in BOOLEAN, NEW landed \in BOOLEAN, AppendDurably(ok, landed)
      PROVE  /\ pc'.task = pc.task /\ pc'.index = pc.index /\ pc'.reservation = pc.reservation
             /\ \/ pc' = pc
                \/ /\ pc.at = "publish" /\ pc'.at \in {"published", "failed"}
                   /\ Head(events).awaited
                \/ /\ pc.at = "expiry publish" /\ pc'.at \in {"expiry published", "failed"}
                   /\ Head(events).awaited
  <2>1. events # << >> /\ pc' = Receipted(Head(events), ok)
    BY <1>5 DEF AppendDurably
  <2>2. OneAwaited(events) /\ (pc.at \notin {"publish", "expiry publish"} => NoneAwaited(events))
    BY DEF ReservationInv, AnswersHeard
  <2>3. Shortened(events, Tail(events))
    BY <2>1, <2>2, TailQueue
  <2>4. Head(events).awaited => pc.at \in {"publish", "expiry publish"}
    BY <2>2, <2>3 DEF Shortened, NoneAwaited
  <2>5. \/ pc' = pc
        \/ \E w : /\ pc' = [pc EXCEPT !.at = w] /\ Head(events).awaited
                  /\ \/ pc.at = "publish" /\ w \in {"published", "failed"}
                     \/ pc.at = "expiry publish" /\ w \in {"expiry published", "failed"}
    BY <1>5, <2>1, <2>4, ReceiptedFacts
  <2>6. QED
    BY <1>1, <2>5, PlaceFields
<1>6. QED
  BY <1>2, <1>3, <1>4, <1>5 DEF Writes, Forwards

\* A removal begins, or is tried again.
LEMMA AwaitsOrder ==
  ASSUME RemovalInv, RemovalInv', OrderInv, NEW t, NEW p,
         Delete(t) \/ RetryDelete \/ ExpireDurable(p)
  PROVE  OrderInv'
<1>1. At("idle") /\ UNCHANGED << events, open, clock, expired >>
  BY DEF Delete, RetryDelete, ExpireDurable, Fires, TimerRuns, Selects, bridge, actor, world
<1>2. /\ Running /\ clock \in Stamp /\ generations \in Nat /\ clock.gen <= generations
      /\ RestOf(events, events', 0)
  BY <1>1, OrderFacts, RestSame DEF At, Running
<1>3. open' => open
  BY <1>1
<1>4. "persist" \in Where
  BY DEF Where
<1>5. CASE Delete(t)
  <2> DEFINE r == PrepareTransition(1)
  <2>1. /\ pending = None /\ pending' = [task |-> t, reservation |-> r]
        /\ pc'.at = "persist" /\ pc'.reservation = None /\ Draw(1)
    BY <1>4, <1>5, IdleFacts DEF Delete, AwaitPersistence
  <2>2. /\ r.gen <= generations' /\ generations <= generations' /\ generations' \in Nat
        /\ (r.rollover => r.source.gen < r.gen /\ MaxRevision < r.source.rev + 1)
    BY <1>2, <2>1, ReservingOne
  <2> HIDE DEF r
  <2>3. VersionsDrawn'
    <3>1. pending'.reservation = r
      BY <2>1
    <3>2. clock'.gen <= generations'
      BY <1>1, <1>2, <2>2 DEF Stamp
    <3>3. QED
      BY <2>1, <2>2, <3>1, <3>2 DEF VersionsDrawn, Outbids
  <2>4. \A v \in Stamp : SpentBy(v, clock, pending) => SpentBy(v, clock', pending')
    BY <1>1, <2>1 DEF SpentBy
  <2>5. pc'.at \notin Expiring
    BY <2>1 DEF Expiring
  <2>6. QED
    BY <1>1, <1>2, <1>3, <2>3, <2>4, <2>5, OrderQuiet
<1>6. CASE RetryDelete
  <2>1. /\ pending' = pending /\ generations' = generations
        /\ pc'.at = "persist" /\ pc'.reservation = None
    BY <1>4, <1>6, IdleFacts DEF RetryDelete, AwaitPersistence, actor
  <2>2. VersionsDrawn'
    BY <1>1, <2>1 DEF OrderInv, VersionsDrawn, Outbids
  <2>3. pc'.at \notin Expiring
    BY <2>1 DEF Expiring
  <2>4. QED
    BY <1>1, <1>2, <1>3, <2>1, <2>2, <2>3, OrderQuiet
<1>7. CASE ExpireDurable(p)
  <2> DEFINE r == PrepareTransition(1)
  <2>1. /\ pending = None /\ pending' = None /\ Draw(1) /\ tasks[p] \in expired
        /\ pc'.at = "expiry persist" /\ pc'.reservation = r /\ pc'.task = tasks[p]
    BY <1>7 DEF ExpireDurable, Fires, TimerRuns, Expires
  <2>2. /\ r.gen <= generations' /\ generations <= generations' /\ generations' \in Nat
        /\ (r.rollover => r.source.gen < r.gen /\ MaxRevision < r.source.rev + 1)
    BY <1>2, <2>1, ReservingOne
  <2> HIDE DEF r
  <2>3. VersionsDrawn'
    <3>1. clock'.gen <= generations'
      BY <1>1, <1>2, <2>2 DEF Stamp
    <3>2. QED
      BY <2>1, <2>2, <3>1 DEF VersionsDrawn, Outbids
  <2>4. QED
    BY <1>1, <1>2, <1>3, <2>1, <2>3, OrderQuiet
<1>8. QED
  BY <1>5, <1>6, <1>7

\* A tombstone goes out under a version that is ahead of the clock.
LEMMA TombstoneOrders ==
  ASSUME RemovalInv, RemovalInv', OrderInv, Running, NEW t, NEW r \in Reserved, Outbids(r),
         clock = ExpectedSource(r), Publish(t, VersionAt(r, 0)),
         UNCHANGED << open, expired, clock, generations, pending >>,
         pc'.reservation = None \/ pc'.reservation = pc.reservation,
         pc'.at \in Expiring => pc'.task \in expired,
         pending = None \/ pending.reservation = r, pending # None \/ t \in expired
  PROVE  OrderInv'
<1> DEFINE v == VersionAt(r, 0)
           x == Tombstone(t, v)
<1>1. v \in Stamp /\ Older(clock, v) /\ clock \in Stamp
  BY OrderFacts, PendingAhead
<1>2. VersionsDrawn'
  BY DEF OrderInv, VersionsDrawn, Outbids
<1>3. Send(<< x >>)
  BY DEF Publish
<1>4. x.version = v /\ x.kind = "tombstone" /\ x.task = t
  BY DEF Tombstone
<1>5. pending # None => v = VersionAt(pending.reservation, 0)
  OBVIOUS
<1> HIDE DEF x, v
<1>6. OneAwaited(<< x >>) /\ \A i \in DOMAIN << x >> : << x >>[i] = x
  BY SingleQueue
<1>7. OneAwaited(events') /\ clock' \in Stamp
  BY DEF RemovalInv, ReservationInv, ActorTyped, AnswersHeard, OneAwaited
<1>8. \A u \in Stamp : SpentBy(u, clock, pending) => SpentBy(u, clock', pending')
  OBVIOUS
<1>9. \A u \in Stamp : SpentBy(u, clock, pending) => ~Older(v, u)
  BY <1>1, <1>5, OlderFacts DEF SpentBy
<1>10. Exempt(x, expired) \/ SpentBy(v, clock', pending')
  BY <1>4, <1>5 DEF Exempt, SpentBy
<1>11. \A k \in DOMAIN << x >> :
           /\ << x >>[k].version \in Stamp
           /\ \A u \in Stamp : SpentBy(u, clock, pending) => ~Older(<< x >>[k].version, u)
           /\ Exempt(<< x >>[k], expired) \/ SpentBy(<< x >>[k].version, clock', pending')
  BY <1>1, <1>4, <1>6, <1>9, <1>10
<1>12. QED
  BY <1>2, <1>3, <1>6, <1>7, <1>8, <1>11, SingleInOrder, OrderSends

\* The awaits of a removal.
LEMMA ContinuesOrder ==
  ASSUME RemovalInv, RemovalInv', OrderInv, Continues
  PROVE  OrderInv'
<1>1. /\ UNCHANGED << generations, expired, open >>
      /\ OneRemoval /\ ReservationInv /\ OneAwaited(events)
      /\ \A i \in DOMAIN events : IsEvent(events[i])
  BY DEF Continues, DeletePersisted, DeletePublished, ExpiryPersisted, ExpiryPublished,
         ExpiryNotCommitted, GiveUp, actor, world, bridge, RemovalInv, ReservationInv, AnswersHeard
<1>2. /\ Idle.at = "idle" /\ Idle.reservation = None
      /\ [Idle EXCEPT !.at = "publish"].at = "publish"
      /\ [Idle EXCEPT !.at = "publish"].reservation = None
  BY DEF Idle
<1>3. Running
  BY DEF Continues, DeletePersisted, DeletePublished, ExpiryPersisted, ExpiryPublished,
         ExpiryNotCommitted, GiveUp, At, Running
<1>4. /\ RestOf(events, events, 0) /\ (open' => open)
      /\ (pc.at \in Expiring => pc.task \in expired)
      /\ VersionsDrawn /\ clock \in Stamp /\ generations \in Nat
  BY <1>1, RestSame, OrderFacts DEF OrderInv, VersionsSpent
<1>5. CASE DeletePersisted
  <2> DEFINE r == pending.reservation
  <2>1. /\ pc.at = "persisted" /\ Publish(pending.task, VersionAt(r, 0))
        /\ pc'.at \in {"idle", "publish"} /\ pc'.reservation = None
        /\ UNCHANGED << clock, pending >>
    BY <1>2, <1>5 DEF DeletePersisted, At, actor
  <2>2. pending # None /\ pending \in Removal
    BY <1>1, <2>1, NoRemovalAssumption DEF OneRemoval, Deleting
  <2>3. r \in Reserved /\ Outbids(r) /\ clock = ExpectedSource(r)
    BY <1>1, <1>3, <2>2, OrderFacts DEF ReservationInv, NoStaleReservation
  <2>4. pc'.at \notin Expiring
    BY <2>1 DEF Expiring
  <2> HIDE DEF r
  <2>5. pending.reservation = r
    BY DEF r
  <2>6. QED
    BY <1>1, <1>3, <2>1, <2>2, <2>3, <2>4, <2>5, TombstoneOrders
<1>6. CASE ExpiryPersisted
  <2> DEFINE r == pc.reservation
  <2>1. /\ pc.at = "expiry persisted" /\ Publish(pc.task, VersionAt(r, 0))
        /\ pc' = IF open THEN [pc EXCEPT !.at = "expiry publish"] ELSE Idle
        /\ UNCHANGED << clock, pending >>
    BY <1>6 DEF ExpiryPersisted, At, actor
  <2>2. pending = None /\ r \in Reserved /\ pc.task \in expired
    BY <1>1, <1>4, <2>1 DEF OneRemoval, Expiring
  <2>3. r # None
    BY <2>2, NoRemovalAssumption
  <2>4. r \in Reserved /\ Outbids(r) /\ clock = ExpectedSource(r)
    BY <1>1, <1>3, <2>2, <2>3, OrderFacts DEF ReservationInv, NoStaleReservation
  <2>5. /\ pc'.reservation \in {None, pc.reservation}
        /\ pc'.at \in Expiring => pc'.task = pc.task
    <3>1. CASE open
      BY <1>1, <2>1, <3>1, PlaceFields DEF ReservationInv
    <3>2. CASE ~open
      BY <1>2, <2>1, <3>2 DEF Expiring
    <3>3. QED
      BY <3>1, <3>2
  <2> HIDE DEF r
  <2>6. QED
    BY <1>1, <1>3, <2>1, <2>2, <2>4, <2>5, TombstoneOrders
<1>7. CASE DeletePublished
  <2> DEFINE v == VersionAt(pending.reservation, 0)
  <2>1. /\ pc.at = "published" /\ clock' = v /\ pending' = None
        /\ pc'.at = "idle" /\ pc'.reservation = None /\ events' = events
    BY <1>2, <1>7 DEF DeletePublished, At, bridge
  <2>2. pending # None /\ pending \in Removal
    BY <1>1, <2>1, NoRemovalAssumption DEF OneRemoval, Deleting
  <2>3. v \in Stamp /\ Older(clock, v) /\ Outbids(pending.reservation)
    BY <1>3, <2>2, OrderFacts
  <2>4. VersionsDrawn'
    <3>1. clock'.gen = pending.reservation.gen
      BY <2>1 DEF VersionAt
    <3>2. QED
      BY <1>1, <2>1, <2>3, <3>1 DEF VersionsDrawn, Outbids
  <2>5. \A u \in Stamp : SpentBy(u, clock, pending) => SpentBy(u, clock', pending')
    BY <1>4, <2>1, <2>3, OlderFacts DEF SpentBy
  <2>6. pc'.at \notin Expiring
    BY <2>1 DEF Expiring
  <2>7. QED
    BY <1>1, <1>3, <1>4, <2>1, <2>4, <2>5, <2>6, OrderQuiet
<1>8. CASE ExpiryPublished
  <2> DEFINE r == pc.reservation
             v == VersionAt(r, 0)
  <2>1. /\ pc.at = "expiry published" /\ clock' = v /\ pending' = pending
        /\ pc'.at = "idle" /\ pc'.reservation = None /\ events' = events
    BY <1>2, <1>8 DEF ExpiryPublished, At, bridge
  <2>2. pending = None /\ r \in Reserved
    BY <1>1, <2>1 DEF OneRemoval, Expiring
  <2>3. r # None
    BY <2>2, NoRemovalAssumption
  <2>4. Outbids(r) /\ clock = ExpectedSource(r)
    BY <1>1, <1>3, <2>2, <2>3, OrderFacts DEF ReservationInv, NoStaleReservation
  <2>5. v \in Stamp /\ Older(clock, v)
    BY <1>4, <2>2, <2>4, PendingAhead
  <2>6. VersionsDrawn'
    <3>1. clock'.gen = r.gen
      BY <2>1 DEF VersionAt
    <3>2. QED
      BY <1>1, <2>1, <2>2, <2>4, <3>1 DEF VersionsDrawn, Outbids
  <2>7. \A u \in Stamp : SpentBy(u, clock, pending) => SpentBy(u, clock', pending')
    BY <1>4, <2>1, <2>2, <2>5, OlderFacts DEF SpentBy
  <2>8. pc'.at \notin Expiring
    BY <2>1 DEF Expiring
  <2>9. QED
    BY <1>1, <1>3, <1>4, <2>1, <2>6, <2>7, <2>8, OrderQuiet
<1>9. CASE ExpiryNotCommitted \/ GiveUp
  <2>1. /\ UNCHANGED << clock, pending >> /\ events' \in {events, Unheard(events)}
        /\ pc'.at = "idle" /\ pc'.reservation = None
    BY <1>2, <1>9 DEF ExpiryNotCommitted, GiveUp, bridge, actor
  <2>2. RestOf(events, events', 0)
    BY <1>1, <1>4, <2>1, RestUnheard
  <2>3. VersionsDrawn'
    BY <1>1, <1>4, <2>1 DEF VersionsDrawn, Outbids
  <2>4. pc'.at \notin Expiring
    BY <2>1 DEF Expiring
  <2>5. QED
    BY <1>1, <1>3, <2>1, <2>2, <2>3, <2>4, OrderQuiet
<1>10. QED
  BY <1>5, <1>6, <1>7, <1>8, <1>9 DEF Continues

\* What the writer and the bridge do.
LEMMA ReceivedOrder ==
  ASSUME RemovalInv, OrderInv, Writes \/ Forwards
  PROVE  OrderInv'
<1>1. /\ pc'.task = pc.task /\ pc'.reservation = pc.reservation
      /\ UNCHANGED << actor, world, open >>
      /\ pc'.at \in Expiring => pc.at \in Expiring
      /\ Running' => Running
  BY Received DEF RemovalInv, Expiring, Running
<1>2. UNCHANGED << clock, generations, pending, expired, open >>
  BY <1>1 DEF actor, world
<1>3. VersionsDrawn'
  BY <1>1, <1>2 DEF OrderInv, VersionsDrawn, Outbids
<1>4. pc'.at \in Expiring => pc'.task \in expired'
  BY <1>1, <1>2 DEF OrderInv, VersionsSpent
<1>5. CASE Writes
  <2>1. events' = events
    BY <1>5 DEF Writes, ToolSave, WriterSave, WriterTick, WriterFlush, bridge
  <2>2. RestOf(events, events', 0)
    BY <2>1, RestSame, OrderFacts
  <2>3. QED
    BY <1>1, <1>2, <1>3, <1>4, <2>2, OrderQuiet
<1>6. CASE Forwards
  <2>1. events # << >> /\ events' = Tail(events)
    BY <1>6 DEF Forwards, Forward, AppendDurably
  <2>2. RestOf(events, events', 1)
    BY <2>1, RestTail, OrderFacts
  <2>3. QED
    BY <1>1, <1>2, <1>3, <1>4, <2>1, <2>2, OrderQuiet
<1>7. QED
  BY <1>5, <1>6

\* The versions of a shutdown, which does not wait for the pending removal.
LEMMA LastVersions ==
  ASSUME RemovalInv, OrderInv, Running, NEW n \in Nat \ {0}, Draw(n), NEW k \in Nat,
         NEW u \in Stamp, SpentBy(u, clock, pending)
  PROVE  ~Older(VersionAt(PrepareTransition(n), k), u)
<1> DEFINE r == PrepareTransition(n)
           v == VersionAt(r, k)
<1>1. clock \in Stamp /\ generations \in Nat /\ clock.gen <= generations /\ MaxRevision \in Nat
  BY OrderFacts, SchedulerAssumption
<1>2. r \in Reserved /\ v \in Stamp /\ Older(clock, v)
  BY <1>1, Reserving
<1>3. CASE ~Older(clock, u)
  BY <1>1, <1>2, <1>3, OlderFacts
<1>4. CASE pending # None /\ u = VersionAt(pending.reservation, 0)
  <2> DEFINE p == pending.reservation
  <2>1. p \in Reserved /\ Outbids(p) /\ clock = ExpectedSource(p)
    BY <1>4, OrderFacts DEF RemovalInv, ReservationInv, NoStaleReservation
  <2>2. /\ p.gen \in Nat /\ p.next \in Nat /\ p.source.rev \in Nat
        /\ clock.gen \in Nat /\ clock.rev \in Nat /\ p.rollover \in BOOLEAN
    BY <1>1, <2>1 DEF Reserved, Stamp
  <2>3. u.gen = p.gen /\ u.rev = p.next
    BY <1>4, <2>2 DEF VersionAt
  <2>4. r.next \in Nat /\ v.gen = r.gen /\ v.rev = r.next + k
    BY <1>2 DEF VersionAt, Reserved
  <2> HIDE DEF p
  <2>5. CASE Overflows(n)
    <3>1. r.gen = generations + 1
      BY <2>5 DEF PrepareTransition
    <3>2. QED
      BY <1>1, <2>1, <2>2, <2>3, <2>4, <3>1 DEF Outbids, Older
  <2>6. CASE ~Overflows(n)
    <3>1. r.gen = clock.gen /\ r.next = clock.rev + 1
      BY <2>6 DEF PrepareTransition
    <3>2. clock.rev + 1 <= MaxRevision
      BY <1>1, <2>2, <2>6 DEF Overflows
    <3>3. ~p.rollover
      <4>1. p.rollover => clock = p.source /\ MaxRevision < p.source.rev + 1
        BY <2>1 DEF ExpectedSource, Outbids
      <4>2. QED
        BY <1>1, <2>2, <3>2, <4>1
    <3>4. clock.gen = p.gen /\ clock.rev = p.next - 1
      BY <2>1, <3>3 DEF ExpectedSource
    <3>5. QED
      BY <2>2, <2>3, <2>4, <3>1, <3>4 DEF Older
  <2>7. QED
    BY <2>5, <2>6
<1>5. QED
  BY <1>3, <1>4 DEF SpentBy

LEMMA ShutdownOrders ==
  ASSUME RemovalInv, RemovalInv', OrderInv, Shutdown
  PROVE  OrderInv'
<1>1. /\ At("idle") /\ UNCHANGED << tasks, pending, expired, open >>
      /\ pc' = [Idle EXCEPT !.at = "stopped"]
  BY DEF Shutdown, world
<1>2. pc'.at = "stopped" /\ pc'.reservation = None /\ ~Running' /\ pc'.at \notin Expiring
  BY <1>1 DEF Idle, Running, Expiring
<1>3. /\ Running /\ clock \in Stamp /\ generations \in Nat /\ clock.gen <= generations
      /\ (pending # None => Outbids(pending.reservation) /\ pending.reservation \in Reserved)
  BY <1>1, OrderFacts DEF At, Running
<1>4. CASE tasks = << >>
  <2>1. UNCHANGED << clock, generations, events >>
    BY <1>4 DEF Shutdown
  <2>2. RestOf(events, events', 0)
    BY <2>1, RestSame, OrderFacts
  <2>3. VersionsDrawn'
    BY <1>1, <1>2, <2>1 DEF OrderInv, VersionsDrawn, Outbids
  <2>4. QED
    BY <1>1, <1>2, <2>2, <2>3, OrderQuiet
<1>5. CASE tasks # << >>
  <2> DEFINE n == Len(tasks)
             r == PrepareTransition(n)
             notices == [k \in DOMAIN tasks |-> Notice("removed", tasks[k], VersionAt(r, k - 1))]
  <2>1. tasks \in Seq(Tasks)
    BY RemovalFacts, CleanSeq
  <2>2. n \in Nat \ {0} /\ DOMAIN tasks = 1..n
    BY <1>5, <2>1
  <2>3. Send(notices) /\ Draw(n) /\ clock' = VersionAt(r, n - 1)
    BY <1>5 DEF Shutdown
  <2>4. /\ r \in Reserved /\ r.gen <= generations' /\ generations <= generations'
        /\ generations' \in Nat
        /\ \A k \in Nat : VersionAt(r, k) \in Stamp /\ VersionAt(r, k).gen = r.gen
    BY <1>3, <2>2, <2>3, Reserving
  <2>5. /\ DOMAIN notices = 1..n
        /\ \A k \in 1..n : notices[k].version = VersionAt(r, k - 1) /\ ~notices[k].awaited
    BY <2>2 DEF Notice
  <2>6. notices \in [1..n -> {notices[k] : k \in DOMAIN notices}]
    BY <2>2
  <2> HIDE DEF notices, n, r
  <2>7. OneAwaited(notices)
    <3>1. notices \in Seq({notices[k] : k \in DOMAIN notices})
      BY <2>2, <2>6, FunctionIsSeq
    <3>2. QED
      BY <2>5, <3>1 DEF OneAwaited
  <2>8. InOrder(notices, expired)
    <3>1. SUFFICES ASSUME NEW i \in 1..n, NEW j \in 1..n, i < j
                   PROVE  ~Older(notices[j].version, notices[i].version)
      BY <2>5 DEF InOrder
    <3>2. r.gen \in Nat /\ r.next \in Nat
      BY <2>4 DEF Reserved
    <3>3. ~Older(VersionAt(r, j - 1), VersionAt(r, i - 1))
      BY <2>2, <3>1, <3>2 DEF VersionAt, Older
    <3>4. QED
      BY <2>5, <3>3
  <2>9. ASSUME NEW k \in DOMAIN notices
        PROVE  /\ notices[k].version \in Stamp
               /\ \A u \in Stamp : SpentBy(u, clock, pending) => ~Older(notices[k].version, u)
    <3>1. k \in 1..n /\ k - 1 \in Nat
      BY <2>2, <2>5
    <3>2. \A u \in Stamp : SpentBy(u, clock, pending) => ~Older(VersionAt(r, k - 1), u)
      BY <1>3, <2>2, <2>3, <3>1, LastVersions DEF r
    <3>3. QED
      BY <2>4, <2>5, <3>1, <3>2
  <2>10. VersionsDrawn'
    <3>1. clock'.gen <= generations'
      BY <2>2, <2>3, <2>4 DEF VersionAt
    <3>2. pending # None => Outbids(pending.reservation)'
      <4>1. pending # None =>
              /\ pending.reservation.gen \in Nat /\ pending.reservation.gen <= generations
        BY <1>3 DEF Reserved, Outbids
      <4>2. QED
        BY <1>1, <1>3, <2>4, <4>1 DEF Outbids
    <3>3. QED
      BY <1>1, <1>2, <3>1, <3>2 DEF VersionsDrawn
  <2>11. OneAwaited(events') /\ clock' \in Stamp
    BY DEF RemovalInv, ReservationInv, ActorTyped, AnswersHeard, OneAwaited
  <2>12. QED
    BY <1>1, <1>2, <1>3, <2>3, <2>7, <2>8, <2>9, <2>10, <2>11, OrderSends
<1>6. QED
  BY <1>4, <1>5

\* A new actor: everything that it announces has the version it starts with.
LEMMA RestartOrders ==
  ASSUME RemovalInv, RemovalInv', OrderInv, Restart
  PROVE  OrderInv'
<1>1. PICK places \in Announced(disk, due') :
        events' = [k \in DOMAIN places |-> Notice("created", disk[places[k]], clock')]
  BY DEF Restart
<1>2. /\ generations' = generations + 1 /\ clock' = [gen |-> generations + 1, rev |-> 0]
      /\ pending' = None /\ open' = TRUE /\ pc' = Idle
  BY DEF Restart
<1>3. generations \in Nat /\ clock' \in Stamp
  BY OrderFacts DEF RemovalInv, ReservationInv, ActorTyped
<1>4. \A k \in DOMAIN events' : events'[k].version = clock'
  BY <1>1 DEF Notice
<1>5. ~Older(clock', clock')
  BY <1>3, OlderFacts
<1>6. EventsInOrder'
  BY <1>4, <1>5 DEF EventsInOrder
<1>7. pc'.at = "idle" /\ pc'.reservation = None /\ pc'.at \notin Expiring
  BY <1>2 DEF Idle, Expiring
<1>8. VersionsDrawn'
  BY <1>2, <1>3, <1>7 DEF VersionsDrawn
<1>9. VersionsSpent'
  BY <1>2, <1>3, <1>4, <1>5, <1>7 DEF VersionsSpent, Uncommitted, Spent
<1>10. QED
  BY <1>6, <1>8, <1>9 DEF OrderInv

\* The rest of the steps, which send nothing.
LEMMA OutsideOrders ==
  ASSUME RemovalInv, RemovalInv', OrderInv, NEW p,
         \/ BlockExpiry(p) \/ AbandonDelete \/ CloseTarget \/ Cancel \/ Crash \/ Passes
         \/ UNCHANGED vars
  PROVE  OrderInv'
<1>1. UNCHANGED << clock, generations >> /\ expired \subseteq expired'
  BY DEF BlockExpiry, AbandonDelete, CloseTarget, Cancel, Crash, Passes, Tick, Expire, vars, actor,
         world
<1>2. /\ VersionsDrawn /\ OneAwaited(events)
      /\ (pc.at \in Expiring => pc.task \in expired)
  BY OrderFacts DEF OrderInv, VersionsSpent
<1>3. ActorTyped
  BY DEF RemovalInv, ReservationInv
<1>4. CASE BlockExpiry(p) \/ Cancel \/ Passes \/ UNCHANGED vars
  <2>1. UNCHANGED << pending, pc, open, events >>
    BY <1>4 DEF BlockExpiry, Cancel, Passes, Tick, Expire, vars, actor, bridge
  <2>2. VersionsDrawn' /\ RestOf(events, events', 0) /\ (Running' => Running)
    BY <1>1, <1>2, <2>1, RestSame DEF VersionsDrawn, Outbids, Running
  <2>3. QED
    BY <1>1, <1>2, <2>1, <2>2, OrderQuiet
<1>5. CASE AbandonDelete
  <2>1. UNCHANGED << pc, open, events >> /\ ~open /\ pending' = None
    BY <1>5 DEF AbandonDelete, bridge
  <2>2. VersionsDrawn' /\ RestOf(events, events', 0)
    BY <1>1, <1>2, <2>1, RestSame DEF VersionsDrawn, Outbids
  <2>3. QED
    BY <1>1, <1>2, <2>1, <2>2, OrderQuiet
<1>6. CASE CloseTarget \/ Crash
  <2>1. /\ pending' = pending /\ ~open'
        /\ pc' \in {pc, [pc EXCEPT !.at = "failed"], [Idle EXCEPT !.at = "crashed"]}
    BY <1>6 DEF CloseTarget, Crash, actor
  <2>2. /\ pc'.reservation \in {None, pc.reservation}
        /\ pc'.at \in Expiring => pc' = pc
    <3>1. [Idle EXCEPT !.at = "crashed"].at = "crashed"
          /\ [Idle EXCEPT !.at = "crashed"].reservation = None
      BY DEF Idle
    <3>2. [pc EXCEPT !.at = "failed"].at = "failed"
          /\ [pc EXCEPT !.at = "failed"].reservation = pc.reservation
      BY <1>3, PlaceFields
    <3>3. QED
      BY <2>1, <3>1, <3>2 DEF Expiring
  <2>3. VersionsDrawn'
    BY <1>1, <1>2, <2>1, <2>2 DEF VersionsDrawn, Outbids
  <2>4. RestOf(events, events', 0)
    <3>1. CASE Crash
      BY <3>1, RestEmpty DEF Crash
    <3>2. CASE CloseTarget
      BY <3>2, CloseCuts, RestCut DEF RemovalInv, ReservationInv
    <3>3. QED
      BY <1>6, <3>1, <3>2
  <2>5. QED
    BY <1>1, <1>2, <2>1, <2>2, <2>3, <2>4, OrderQuiet
<1>7. QED
  BY <1>4, <1>5, <1>6

LEMMA OrderStep ==
  ASSUME RemovalInv, OrderInv, [Next]_vars
  PROVE  OrderInv'
<1>1. RemovalInv'
  BY RemovalStep
<1>2. CASE Commands
  <2>1. CASE \E t \in Tasks : Create(t) \/ (\E interval \in BOOLEAN : Update(t, interval))
    BY <1>1, <2>1, StampsOrder
  <2>2. CASE (\E t \in Tasks : Delete(t)) \/ RetryDelete
    BY <1>1, <2>2, AwaitsOrder
  <2>3. CASE AbandonDelete
    BY <1>1, <2>3, OutsideOrders
  <2>4. QED
    BY <1>2, <2>1, <2>2, <2>3 DEF Commands
<1>3. CASE Timer
  <2>1. PICK i : \/ BlockExpiry(i) \/ ExpireDurable(i) \/ ExpireSessionOnly(i)
                 \/ FireRecurring(i) \/ SkipRecurring(i) \/ FireOneShot(i)
    BY <1>3 DEF Timer
  <2>2. QED
    BY <1>1, <2>1, AwaitsOrder, OutsideOrders, StampsOrder
<1>4. CASE Continues
  BY <1>1, <1>4, ContinuesOrder
<1>5. CASE Writes \/ Forwards
  BY <1>5, ReceivedOrder
<1>6. CASE Shutdown
  BY <1>1, <1>6, ShutdownOrders
<1>7. CASE Faults \/ Passes
  BY <1>1, <1>7, OutsideOrders, RestartOrders DEF Faults
<1>8. CASE UNCHANGED vars
  BY <1>1, <1>8, OutsideOrders
<1>9. QED
  BY <1>2, <1>3, <1>4, <1>5, <1>6, <1>7, <1>8 DEF Next

LEMMA OrderInit ==
  ASSUME Init
  PROVE  OrderInv
<1>1. Idle.at = "idle" /\ Idle.reservation = None
  BY DEF Idle
<1>2. events = << >> /\ clock = [gen |-> 1, rev |-> 0] /\ generations = 1 /\ pending = None
      /\ pc = Idle /\ open
  BY DEF Init
<1>3. DOMAIN events = {}
  BY <1>2
<1>4. VersionsDrawn
  <2>1. clock.gen = 1
    BY <1>2
  <2>2. QED
    BY <1>1, <1>2, <2>1 DEF VersionsDrawn
<1>5. VersionsSpent
  BY <1>1, <1>2, <1>3 DEF VersionsSpent, Expiring
<1>6. EventsInOrder
  BY <1>3 DEF EventsInOrder
<1>7. QED
  BY <1>4, <1>5, <1>6 DEF OrderInv

\* Nothing that is on its way to the bridge is overtaken by an older version.
THEOREM EventsCorrect == Spec => []EventsInOrder
<1>1. OrderInv => EventsInOrder
  BY DEF OrderInv
<1>2. QED
  BY <1>1, RemovalInit, RemovalStep, OrderInit, OrderStep, PTL DEF Spec

\* Where the clock moves: a reservation that was made from it is committed, or a new actor
\* draws a new generation.
LEMMA ClockStep ==
  ASSUME RemovalInv, OrderInv, [Next]_vars, clock' # clock
  PROVE  Older(clock, clock')
<1>1. /\ clock \in Stamp /\ generations \in Nat /\ clock.gen <= generations
      /\ OneRemoval /\ ReservationInv
  BY OrderFacts DEF RemovalInv, ReservationInv
<1>2. CASE Commands
  <2>1. clock' = VersionAt(PrepareTransition(1), 0) /\ Draw(1)
    BY <1>2 DEF Commands, Create, Update, Delete, RetryDelete, AbandonDelete, actor
  <2>2. QED
    BY <1>1, <2>1, Reserving
<1>3. CASE Timer
  <2>1. \E n \in {1, 2}, k \in Nat : clock' = VersionAt(PrepareTransition(n), k) /\ Draw(n)
    BY <1>3 DEF Timer, BlockExpiry, ExpireDurable, ExpireSessionOnly, FireRecurring, SkipRecurring,
                FireOneShot, actor
  <2>2. QED
    BY <1>1, <2>1, Reserving
<1>4. CASE Continues
  <2>1. CASE DeletePublished
    <3>1. pc.at = "published" /\ clock' = VersionAt(pending.reservation, 0)
      BY <2>1 DEF DeletePublished, At
    <3>2. pending # None /\ Running
      BY <1>1, <3>1, NoRemovalAssumption DEF OneRemoval, Deleting, Running
    <3>3. QED
      BY <3>1, <3>2, OrderFacts
  <2>2. CASE ExpiryPublished
    <3>1. pc.at = "expiry published" /\ clock' = VersionAt(pc.reservation, 0)
      BY <2>2 DEF ExpiryPublished, At
    <3>2. pc.reservation \in Reserved /\ pc.reservation # None /\ Running
      BY <1>1, <3>1, NoRemovalAssumption DEF OneRemoval, Expiring, Running
    <3>3. Outbids(pc.reservation) /\ clock = ExpectedSource(pc.reservation)
      BY <1>1, <3>2, OrderFacts DEF ReservationInv, NoStaleReservation
    <3>4. QED
      BY <1>1, <3>1, <3>2, <3>3, PendingAhead
  <2>3. QED
    BY <1>4, <2>1, <2>2
       DEF Continues, DeletePersisted, ExpiryPersisted, ExpiryNotCommitted, GiveUp, actor
<1>5. CASE Shutdown
  <2> DEFINE n == Len(tasks)
  <2>1. clock' = VersionAt(PrepareTransition(n), n - 1) /\ Draw(n) /\ tasks # << >>
    BY <1>5 DEF Shutdown
  <2>2. tasks \in Seq(Tasks)
    BY RemovalFacts, CleanSeq
  <2>3. n \in Nat \ {0} /\ n - 1 \in Nat
    BY <2>1, <2>2
  <2> HIDE DEF n
  <2>4. QED
    BY <1>1, <2>1, <2>3, Reserving
<1>6. CASE Restart
  <2>1. clock'.gen = generations + 1
    BY <1>6 DEF Restart
  <2>2. QED
    BY <1>1, <2>1 DEF Older, Stamp
<1>7. CASE Writes \/ Forwards
  BY <1>1, <1>7, Received DEF actor
<1>8. CASE CloseTarget \/ Cancel \/ Crash \/ Passes \/ UNCHANGED vars
  BY <1>8 DEF CloseTarget, Cancel, Crash, Passes, Tick, Expire, vars, actor
<1>9. QED
  BY <1>2, <1>3, <1>4, <1>5, <1>6, <1>7, <1>8 DEF Next, Faults

\* The version only grows: commits, shutdowns, rollovers and restarts included.
THEOREM ClockCorrect == Spec => ClockAdvances
<1>1. RemovalInv /\ OrderInv /\ [Next]_vars => [clock' # clock => Older(clock, clock')]_vars
  BY ClockStep
<1>2. QED
  BY <1>1, RemovalInit, RemovalStep, OrderInit, OrderStep, PTL DEF Spec, ClockAdvances

-----------------------------------------------------------------------------
(***************************************************************************)
(* What the session log will show                                          *)
(***************************************************************************)
ToldIn(q, kind) == {q[i].task : i \in {k \in DOMAIN q : q[k].kind = kind}}

HiddenIn(q) == ToldIn(q, "removed") \union ToldIn(q, "tombstone")

NoReturnIn(q) ==
  \A i, j \in DOMAIN q :
    i < j /\ q[i].kind \in {"removed", "tombstone"} /\ q[j].kind = "created"
      => q[i].task # q[j].task

LEMMA ToldHas ==
  ASSUME NEW q, NEW i \in DOMAIN q
  PROVE  q[i].task \in ToldIn(q, q[i].kind)
BY DEF ToldIn

LEMMA RestTold ==
  ASSUME NEW q, NEW c, NEW d \in {0, 1}, RestOf(q, c, d), NEW kind
  PROVE  ToldIn(c, kind) \subseteq ToldIn(q, kind)
BY DEF RestOf, Alike, ToldIn

LEMMA RestNoReturn ==
  ASSUME NEW q, NEW c, NEW d \in {0, 1}, RestOf(q, c, d), NoReturnIn(q)
  PROVE  NoReturnIn(c)
<1>1. Len(c) \in Nat /\ DOMAIN c = 1..Len(c)
  BY QueueFacts DEF RestOf
<1>2. SUFFICES ASSUME NEW i \in DOMAIN c, NEW j \in DOMAIN c, i < j,
                      c[i].kind \in {"removed", "tombstone"}, c[j].kind = "created"
               PROVE  c[i].task # c[j].task
  BY DEF NoReturnIn
<1>3. /\ i + d \in DOMAIN q /\ j + d \in DOMAIN q
      /\ Alike(c[i], q[i + d]) /\ Alike(c[j], q[j + d])
  BY DEF RestOf
<1>4. i + d < j + d
  BY <1>1, <1>2
<1>5. q[i + d].task # q[j + d].task
  BY <1>2, <1>3, <1>4 DEF NoReturnIn, Alike
<1>6. QED
  BY <1>3, <1>5 DEF Alike

\* Nothing is taken off by not listening any more.
LEMMA UnheardTold ==
  ASSUME NEW q, OneAwaited(q), \A i \in DOMAIN q : IsEvent(q[i]), NEW kind
  PROVE  ToldIn(Unheard(q), kind) = ToldIn(q, kind)
<1> DEFINE c == Unheard(q)
<1>1. RestOf(q, c, 0)
  BY RestUnheard
<1>2. DOMAIN c = DOMAIN q
  BY DEF Unheard
<1>3. Len(q) \in Nat /\ DOMAIN q = 1..Len(q)
  BY QueueFacts
<1> HIDE DEF c
<1>4. \A i \in DOMAIN q : i + 0 = i
  BY <1>3
<1>5. \A i \in DOMAIN q : c[i].kind = q[i].kind /\ c[i].task = q[i].task
  BY <1>1, <1>2, <1>4 DEF RestOf, Alike
<1>6. ToldIn(c, kind) = ToldIn(q, kind)
  BY <1>2, <1>5 DEF ToldIn
<1>7. QED
  BY <1>6 DEF c

\* What is taken off is the first message.
LEMMA TailTold ==
  ASSUME NEW q, OneAwaited(q), q # << >>
  PROVE  /\ \A kind : kind # Head(q).kind => ToldIn(Tail(q), kind) = ToldIn(q, kind)
         /\ ToldIn(q, Head(q).kind) = ToldIn(Tail(q), Head(q).kind) \union {Head(q).task}
         /\ NoReturnIn(q) => NoReturnIn(Tail(q))
         /\ NoReturnIn(q) /\ Head(q).kind \in {"removed", "tombstone"}
              => Head(q).task \notin ToldIn(Tail(q), "created")
<1> DEFINE r == Tail(q)
<1>1. Shortened(q, r) /\ RestOf(q, r, 1)
  BY TailQueue, RestTail
<1> HIDE DEF r
<1>2. Len(q) \in Nat /\ DOMAIN q = 1..Len(q)
  BY QueueFacts
<1>3. \A i \in DOMAIN q : i = 1 \/ (i - 1 \in DOMAIN r /\ r[i - 1] = q[i])
  <2>1. \A i \in DOMAIN q : i = 1 \/ (i - 1 \in 1..(Len(q) - 1) /\ (i - 1) + 1 = i)
    BY <1>2
  <2>2. QED
    BY <1>1, <2>1 DEF Shortened
<1>4. \A i \in DOMAIN r : i + 1 \in DOMAIN q /\ r[i] = q[i + 1] /\ 1 < i + 1
  <2>1. \A i \in 1..(Len(q) - 1) : 1 < i + 1
    BY <1>2
  <2>2. QED
    BY <1>1, <2>1 DEF Shortened
<1>5. Head(q) = q[1] /\ 1 \in DOMAIN q
  BY <1>1 DEF Shortened
<1>6. ASSUME NEW kind, kind # Head(q).kind
      PROVE  ToldIn(r, kind) = ToldIn(q, kind)
  BY <1>3, <1>4, <1>5, <1>6 DEF ToldIn
<1>7. ToldIn(q, Head(q).kind) = ToldIn(r, Head(q).kind) \union {Head(q).task}
  BY <1>3, <1>4, <1>5 DEF ToldIn
<1>8. NoReturnIn(q) => NoReturnIn(r)
  BY <1>1, RestNoReturn
<1>9. ASSUME NoReturnIn(q), Head(q).kind \in {"removed", "tombstone"},
             Head(q).task \in ToldIn(r, "created")
      PROVE  FALSE
  <2>1. PICK i \in DOMAIN r : r[i].kind = "created" /\ r[i].task = Head(q).task
    BY <1>9 DEF ToldIn
  <2>2. QED
    BY <1>4, <1>5, <1>9, <2>1 DEF NoReturnIn
<1>10. QED
  BY <1>6, <1>7, <1>8, <1>9 DEF r

\* What joins a queue.
LEMMA JoinTold ==
  ASSUME NEW q, NEW r, NEW c, Followed(q, r, c)
  PROVE  /\ \A kind : ToldIn(c, kind) = ToldIn(q, kind) \union ToldIn(r, kind)
         /\ NoReturnIn(q) /\ NoReturnIn(r) /\ ToldIn(r, "created") \intersect HiddenIn(q) = {}
              => NoReturnIn(c)
<1>1. /\ Len(q) \in Nat /\ DOMAIN q = 1..Len(q) /\ Len(r) \in Nat /\ DOMAIN r = 1..Len(r)
      /\ DOMAIN c = 1..(Len(q) + Len(r))
      /\ \A k \in DOMAIN c :
           \/ k \in DOMAIN q /\ c[k] = q[k]
           \/ k - Len(q) \in DOMAIN r /\ k > Len(q) /\ c[k] = r[k - Len(q)]
  BY DEF Followed
<1>2. \A i \in DOMAIN q : i \in DOMAIN c /\ c[i] = q[i]
  <2>1. \A i \in DOMAIN q : i \in DOMAIN c /\ ~(i > Len(q))
    BY <1>1
  <2>2. QED
    BY <1>1, <2>1
<1>3. \A i \in DOMAIN r : i + Len(q) \in DOMAIN c /\ c[i + Len(q)] = r[i]
  <2>1. \A i \in DOMAIN r :
          i + Len(q) \in DOMAIN c /\ i + Len(q) \notin DOMAIN q /\ (i + Len(q)) - Len(q) = i
    BY <1>1
  <2>2. QED
    BY <1>1, <2>1
<1>4. ASSUME NEW kind
      PROVE  ToldIn(c, kind) = ToldIn(q, kind) \union ToldIn(r, kind)
  <2>1. ToldIn(c, kind) \subseteq ToldIn(q, kind) \union ToldIn(r, kind)
    BY <1>1 DEF ToldIn
  <2>2. ToldIn(q, kind) \subseteq ToldIn(c, kind)
    BY <1>2 DEF ToldIn
  <2>3. ToldIn(r, kind) \subseteq ToldIn(c, kind)
    BY <1>3 DEF ToldIn
  <2>4. QED
    BY <2>1, <2>2, <2>3
<1>5. ASSUME NoReturnIn(q), NoReturnIn(r), ToldIn(r, "created") \intersect HiddenIn(q) = {}
      PROVE  NoReturnIn(c)
  <2>1. SUFFICES ASSUME NEW i \in DOMAIN c, NEW j \in DOMAIN c, i < j,
                        c[i].kind \in {"removed", "tombstone"}, c[j].kind = "created"
                 PROVE  c[i].task # c[j].task
    BY DEF NoReturnIn
  <2>2. CASE i \in DOMAIN q /\ c[i] = q[i] /\ j \in DOMAIN q /\ c[j] = q[j]
    BY <1>5, <2>1, <2>2 DEF NoReturnIn
  <2>3. CASE i \in DOMAIN q /\ c[i] = q[i] /\ j - Len(q) \in DOMAIN r /\ c[j] = r[j - Len(q)]
    <3>1. q[i].task \in HiddenIn(q)
      BY <2>1, <2>3, ToldHas DEF HiddenIn
    <3>2. r[j - Len(q)].task \in ToldIn(r, "created")
      BY <2>1, <2>3, ToldHas
    <3>3. QED
      BY <1>5, <2>3, <3>1, <3>2
  <2>4. CASE /\ i - Len(q) \in DOMAIN r /\ c[i] = r[i - Len(q)]
             /\ j - Len(q) \in DOMAIN r /\ c[j] = r[j - Len(q)]
    <3>1. i - Len(q) < j - Len(q)
      BY <1>1, <2>1
    <3>2. QED
      BY <1>5, <2>1, <2>4, <3>1 DEF NoReturnIn
  <2>5. CASE i - Len(q) \in DOMAIN r /\ i > Len(q) /\ j \in DOMAIN q
    BY <1>1, <2>1, <2>5
  <2>6. QED
    BY <1>1, <2>2, <2>3, <2>4, <2>5
<1>6. QED
  BY <1>4, <1>5

\* LogInv, of the queue, the log, the tasks and the place of the actor that are named.
LogOf(q, sh, held, back, owed, lost, young) ==
  /\ NoReturnIn(q)
  /\ (held \union back) \ OneShot \subseteq sh \union ToldIn(q, "created")
  /\ ToldIn(q, "removed") \intersect UNION {held, back, young} = {}
  /\ sh \union ToldIn(q, "created") \subseteq UNION {held, lost, owed, ToldIn(q, "removed")}

\* The removal that is about to be committed is out of sight.
OutOfSight(q, sh) ==
  /\ At("published") => pending.task \notin sh \union ToldIn(q, "created")
  /\ At("expiry published") => pc.task \notin sh \union ToldIn(q, "created")

PlaceNamed == pc.at \in Deleting \union {"idle"} => pc.task = None

LEMMA LogFacts ==
  ASSUME LogInv, open, pc.at # "stopped"
  PROVE  /\ LogOf(events, shown, Held, Returning, Owed, unsettled, unborn)
         /\ OutOfSight(events, shown) /\ PlaceNamed
BY DEF LogInv, At, NoReturn, NothingHidden, NothingInVain, LogOf, OutOfSight, PlaceNamed, NoReturnIn,
       Told, ToldIn

LEMMA LogNext ==
  ASSUME (open' /\ pc'.at # "stopped") =>
           /\ LogOf(events', shown', Held', Returning', Owed', unsettled', unborn')
           /\ pc'.at = "published" => pending'.task \notin shown' \union ToldIn(events', "created")
           /\ pc'.at = "expiry published" =>
                pc'.task \notin shown' \union ToldIn(events', "created")
           /\ pc'.at \in Deleting \union {"idle"} => pc'.task = None
  PROVE  LogInv'
<1>1. SUFFICES ASSUME open', pc'.at # "stopped"
               PROVE  NoReturn' /\ NothingHidden' /\ NothingInVain'
  BY DEF LogInv, At
<1>2. /\ LogOf(events', shown', Held', Returning', Owed', unsettled', unborn')
      /\ pc'.at = "published" => pending'.task \notin shown' \union ToldIn(events', "created")
      /\ pc'.at = "expiry published" =>
           pc'.task \notin shown' \union ToldIn(events', "created")
      /\ pc'.at \in Deleting \union {"idle"} => pc'.task = None
  BY <1>1
<1>3. NoReturn'
  BY <1>2 DEF LogOf, NoReturn, NoReturnIn
<1>4. Told("created")' = ToldIn(events', "created") /\ Told("removed")' = ToldIn(events', "removed")
  BY DEF Told, ToldIn
<1>5. NothingHidden'
  BY <1>2, <1>4 DEF LogOf, NothingHidden
<1>6. NothingInVain'
  BY <1>2, <1>4 DEF LogOf, NothingInVain, At
<1>7. QED
  BY <1>3, <1>5, <1>6

\* Nothing is said of a task: the actor moves on, and finishes a removal only when it is
\* out of sight or given up.
LEMMA LogQuiet ==
  ASSUME LogInv, shown' = shown, unsettled \subseteq unsettled', open' => open, pc.at # "stopped",
         ToldIn(events', "created") = ToldIn(events, "created"),
         ToldIn(events', "removed") = ToldIn(events, "removed"),
         NoReturnIn(events) => NoReturnIn(events'), unborn' \subseteq unborn,
         Held' \union Returning' \subseteq Held \union Returning,
         \A x \in Held \union Owed :
           x \in UNION {Held', Owed', unsettled'} \/ x \notin shown \union ToldIn(events, "created"),
         pc'.at \notin {"published", "expiry published"} \/ UNCHANGED << pc, pending >>,
         pc'.at \in Deleting \union {"idle"} => pc'.task = None
  PROVE  LogInv'
<1>1. ASSUME open'
      PROVE  /\ LogOf(events, shown, Held, Returning, Owed, unsettled, unborn)
             /\ OutOfSight(events, shown)
  BY <1>1, LogFacts
<1>2. ASSUME open'
      PROVE  LogOf(events', shown', Held', Returning', Owed', unsettled', unborn')
  BY <1>1, <1>2 DEF LogOf
<1>3. ASSUME open', pc'.at \in {"published", "expiry published"}
      PROVE  /\ pc'.at = "published" => pending'.task \notin shown' \union ToldIn(events', "created")
             /\ pc'.at = "expiry published" =>
                  pc'.task \notin shown' \union ToldIn(events', "created")
  BY <1>1, <1>3 DEF OutOfSight, At
<1>4. QED
  BY <1>2, <1>3, LogNext

\* An idle actor with no removal pending sends notifications.
LEMMA LogSends ==
  ASSUME RemovalInv, LogInv, At("idle"), pending = None, UNCHANGED << pc, pending, open >>,
         UNCHANGED << shown, unsettled >>, NEW notices, OneAwaited(notices), Send(notices),
         NoReturnIn(notices), unborn' \subseteq unborn,
         ToldIn(notices, "created") \subseteq Held',
         ToldIn(notices, "created") \intersect HiddenIn(events) = {},
         ToldIn(notices, "removed") \intersect (Held' \union unborn) = {},
         Held \subseteq Held' \union ToldIn(notices, "removed"),
         Held' \subseteq Held \union ToldIn(notices, "created")
  PROVE  LogInv'
<1>1. pc.at = "idle" /\ Returning = {} /\ Returning' = {} /\ Owed' = Owed
  BY DEF At, Returning, Owed
<1>2. ASSUME open
      PROVE  LogOf(events', shown', Held', Returning', Owed', unsettled', unborn')
  <2>1. LogOf(events, shown, Held, Returning, Owed, unsettled, unborn)
    BY <1>1, <1>2, LogFacts
  <2>2. events' = events \o notices /\ OneAwaited(events)
    BY <1>2 DEF Send, RemovalInv, ReservationInv, AnswersHeard
  <2>3. Followed(events, notices, events')
    BY <2>2, FollowedFacts
  <2>4. /\ \A kind : ToldIn(events', kind) = ToldIn(events, kind) \union ToldIn(notices, kind)
        /\ NoReturnIn(events')
    BY <2>1, <2>3, JoinTold DEF LogOf
  <2>5. ToldIn(events', "created") = ToldIn(events, "created") \union ToldIn(notices, "created")
        /\ ToldIn(events', "removed") = ToldIn(events, "removed") \union ToldIn(notices, "removed")
    BY <2>4
  <2>6. Held' \ OneShot \subseteq shown \union ToldIn(events', "created")
    BY <1>1, <2>1, <2>5 DEF LogOf
  <2>7. ToldIn(events', "removed") \intersect (Held' \union unborn') = {}
    <3>1. ToldIn(events, "removed") \subseteq HiddenIn(events)
      BY DEF HiddenIn
    <3>2. ToldIn(events, "removed") \intersect (Held \union unborn) = {}
      BY <2>1 DEF LogOf
    <3>3. QED
      BY <2>5, <3>1, <3>2
  <2>8. shown \union ToldIn(events', "created")
          \subseteq UNION {Held', unsettled, Owed, ToldIn(events', "removed")}
    BY <2>1, <2>5 DEF LogOf
  <2>9. QED
    BY <1>1, <2>4, <2>6, <2>7, <2>8 DEF LogOf
<1>3. pc'.at = "idle" /\ (open' => pc'.task = None)
  BY <1>1, LogFacts DEF PlaceNamed
<1>4. QED
  BY <1>2, <1>3, LogNext

LEMMA SingleTold ==
  ASSUME NEW x
  PROVE  /\ \A kind : ToldIn(<< x >>, kind) = IF kind = x.kind THEN {x.task} ELSE {}
         /\ NoReturnIn(<< x >>)
<1>1. DOMAIN << x >> = {1} /\ << x >>[1] = x
  OBVIOUS
<1>2. ASSUME NEW kind
      PROVE  ToldIn(<< x >>, kind) = IF kind = x.kind THEN {x.task} ELSE {}
  BY <1>1 DEF ToldIn
<1>3. \A i, j \in DOMAIN << x >> : ~(i < j)
  BY <1>1
<1>4. QED
  BY <1>2, <1>3 DEF NoReturnIn

\* Create, Update and the fires.
LEMMA StampsLogged ==
  ASSUME RemovalInv, RemovalInv', LogInv, NEW t, NEW interval, NEW p,
         \/ Create(t) \/ Update(t, interval) \/ ExpireSessionOnly(p)
         \/ FireRecurring(p) \/ SkipRecurring(p) \/ FireOneShot(p)
  PROVE  LogInv'
<1>1. /\ At("idle") /\ pending = None
      /\ UNCHANGED << pending, pc, open, shown, unsettled >>
  BY DEF Create, Update, ExpireSessionOnly, FireRecurring, SkipRecurring, FireOneShot, Fires,
         TimerRuns, Accepts, Selects, actor, ghosts
<1>2. CleanOf(tasks, Gone, unborn) /\ unborn \intersect Gone = {}
  BY RemovalFacts
<1>3. ToldIn(events, "tombstone") \subseteq Gone
  BY RemovalFacts DEF ToldIn
<1>4. Held \intersect (Gone \union unborn) = {}
  BY <1>2 DEF Held, CleanOf, Range
<1>5. open => ToldIn(events, "removed") \intersect (Held \union unborn) = {}
  <2>1. pc.at # "stopped"
    BY <1>1 DEF At
  <2>2. QED
    BY <2>1, LogFacts DEF LogOf
<1>6. open => HiddenIn(events) \intersect (Held \union unborn) = {}
  BY <1>2, <1>3, <1>4, <1>5 DEF HiddenIn
<1>7. CASE ~open
  <2>1. ~open'
    BY <1>1, <1>7
  <2>2. QED
    BY <2>1 DEF LogInv
<1>8. CASE open /\ Create(t)
  <2> DEFINE x == Notice("created", t, clock')
  <2>1. /\ t \in unborn /\ unborn' = unborn \ {t} /\ tasks' = Append(tasks, t) /\ Send(<< x >>)
    BY <1>8 DEF Create
  <2>2. x.kind = "created" /\ x.task = t
    BY NoticeFacts
  <2> HIDE DEF x
  <2>3. t \in Tasks
    <3>1. CleanOf(tasks', Gone', unborn')
      BY RemovalFacts DEF RemovalInv, CopiesClean, Clean, CleanOf
    <3>2. tasks' \in Seq(Tasks)
      BY <3>1, CleanSeq
    <3>3. QED
      BY <1>2, <2>1, <3>2 DEF CleanOf
  <2>4. t \notin Gone /\ t \notin Range(tasks)
    BY <1>2, <1>4, <2>1 DEF Held
  <2>5. Held' = Held \union {t}
    BY <1>2, <2>1, <2>3, <2>4, CleanAppend DEF Held
  <2>6. /\ ToldIn(<< x >>, "created") = {t} /\ ToldIn(<< x >>, "removed") = {}
        /\ NoReturnIn(<< x >>) /\ OneAwaited(<< x >>)
    BY <2>2, SingleTold, SingleQueue
  <2>7. QED
    BY <1>1, <1>6, <1>8, <2>1, <2>5, <2>6, LogSends
<1>9. CASE open /\ Update(t, interval)
  <2> DEFINE x == Notice("created", t, clock')
  <2>1. t \in Held /\ UNCHANGED << unborn, tasks >> /\ Send(<< x >>)
    BY <1>9 DEF Update
  <2>2. x.kind = "created" /\ x.task = t
    BY NoticeFacts
  <2> HIDE DEF x
  <2>3. Held' = Held
    BY <2>1 DEF Held
  <2>4. /\ ToldIn(<< x >>, "created") = {t} /\ ToldIn(<< x >>, "removed") = {}
        /\ NoReturnIn(<< x >>) /\ OneAwaited(<< x >>)
    BY <2>2, SingleTold, SingleQueue
  <2>5. QED
    BY <1>1, <1>6, <1>9, <2>1, <2>3, <2>4, LogSends
<1>10. CASE open /\ (FireRecurring(p) \/ SkipRecurring(p))
  <2>1. PICK x : /\ Send(<< x >>) /\ x.kind \in {"fired", "created"} /\ x.task = tasks[p]
    <3>1. CASE FireRecurring(p)
      BY <3>1, NoticeFacts DEF FireRecurring
    <3>2. CASE SkipRecurring(p)
      BY <3>2, NoticeFacts DEF SkipRecurring
    <3>3. QED
      BY <1>10, <3>1, <3>2
  <2>2. p \in DOMAIN tasks /\ UNCHANGED << tasks, unborn >>
    BY <1>10 DEF FireRecurring, SkipRecurring, Fires, actor
  <2>3. Held' = Held /\ tasks[p] \in Held
    BY <2>2 DEF Held, Range
  <2>4. /\ ToldIn(<< x >>, "created") \subseteq {tasks[p]} /\ ToldIn(<< x >>, "removed") = {}
        /\ NoReturnIn(<< x >>) /\ OneAwaited(<< x >>)
    BY <2>1, SingleTold, SingleQueue
  <2>5. QED
    BY <1>1, <1>6, <1>10, <2>1, <2>2, <2>3, <2>4, LogSends
<1>11. CASE open /\ (ExpireSessionOnly(p) \/ FireOneShot(p))
  <2>1. p \in DOMAIN tasks /\ unborn' = unborn /\ tasks' = RemoveAt(tasks, p)
    BY <1>11 DEF ExpireSessionOnly, FireOneShot, Fires, world
  <2>2. /\ Held' \subseteq Held /\ Held \subseteq Held' \union {tasks[p]}
        /\ tasks[p] \notin Held' /\ tasks[p] \notin unborn
    <3>1. CleanOf(tasks', Gone \union {tasks[p]}, unborn)
      BY <1>2, <2>1, CleanRemove
    <3>2. tasks[p] \notin Range(tasks')
      BY <3>1 DEF CleanOf, Range
    <3>3. tasks[p] \in Held
      BY <2>1 DEF Held, Range
    <3>4. QED
      BY <1>2, <1>4, <2>1, <3>2, <3>3, CleanRemove DEF Held
  <2>3. \E notices : /\ Send(notices) /\ OneAwaited(notices) /\ NoReturnIn(notices)
                     /\ ToldIn(notices, "created") = {}
                     /\ ToldIn(notices, "removed") = {tasks[p]}
    <3>1. CASE ExpireSessionOnly(p)
      <4> DEFINE x == Notice("removed", tasks[p], clock')
      <4>1. Send(<< x >>)
        BY <3>1 DEF ExpireSessionOnly
      <4>2. x.kind = "removed" /\ x.task = tasks[p]
        BY NoticeFacts
      <4> HIDE DEF x
      <4>3. QED
        BY <4>1, <4>2, SingleTold, SingleQueue
    <3>2. CASE FireOneShot(p)
      <4> DEFINE r == PrepareTransition(2)
                 x == Notice("fired", tasks[p], VersionAt(r, 0))
                 y == Notice("removed", tasks[p], VersionAt(r, 1))
      <4>1. Send(<< x, y >>)
        BY <3>2 DEF FireOneShot
      <4>2. /\ x.kind = "fired" /\ y.kind = "removed" /\ y.task = tasks[p]
            /\ ~x.awaited /\ ~y.awaited
        BY NoticeFacts
      <4> HIDE DEF x, y, r
      <4>3. OneAwaited(<< x, y >>)
        BY <4>2 DEF OneAwaited
      <4>4. DOMAIN << x, y >> = {1, 2} /\ << x, y >>[1] = x /\ << x, y >>[2] = y
        OBVIOUS
      <4>5. ToldIn(<< x, y >>, "created") = {} /\ ToldIn(<< x, y >>, "removed") = {tasks[p]}
        BY <4>2, <4>4 DEF ToldIn
      <4>6. NoReturnIn(<< x, y >>)
        BY <4>2, <4>4 DEF NoReturnIn
      <4>7. QED
        BY <4>1, <4>3, <4>5, <4>6
    <3>3. QED
      BY <1>11, <3>1, <3>2
  <2>4. QED
    BY <1>1, <1>6, <1>11, <2>1, <2>2, <2>3, LogSends
<1>12. QED
  BY <1>7, <1>8, <1>9, <1>10, <1>11

\* A removal begins, or is tried again.
LEMMA AwaitsLogged ==
  ASSUME RemovalInv, LogInv, NEW t, NEW p, Delete(t) \/ RetryDelete \/ ExpireDurable(p)
  PROVE  LogInv'
<1>1. /\ pc.at = "idle" /\ open /\ UNCHANGED << shown, unsettled, open, events, unborn >>
  BY DEF Delete, RetryDelete, ExpireDurable, Fires, TimerRuns, Selects, At, bridge, ghosts, world
<1>2. pc.task = None /\ Returning = {}
  BY <1>1, LogFacts DEF PlaceNamed, Returning
<1>3. CleanOf(tasks, Gone, unborn)
  BY RemovalFacts
<1>4. "persist" \in Where
  BY DEF Where
<1>5. CASE Delete(t)
  <2>1. PICK i \in DOMAIN tasks : tasks[i] = t /\ tasks' = RemoveAt(tasks, i)
    BY <1>5 DEF Delete
  <2>2. /\ pending = None /\ pending' = [task |-> t, reservation |-> PrepareTransition(1)]
        /\ pc'.at = "persist" /\ pc'.task = None
    BY <1>4, <1>5, IdleFacts DEF Delete, AwaitPersistence
  <2>3. Held' \subseteq Held /\ Held \subseteq Held' \union {t}
    BY <1>3, <2>1, CleanRemove DEF Held
  <2>4. Returning' = {} /\ Owed = {} /\ t \in Owed'
    <3>1. pending' # None /\ pending'.task = t
      <4>1. pending' \in Removal
        <5>1. clock \in Stamp /\ generations \in Nat /\ tasks \in Seq(Tasks)
          BY <1>3, CleanSeq DEF RemovalInv, ReservationInv, ActorTyped
        <5>2. PrepareTransition(1) \in Reserved /\ t \in Tasks
          BY <2>1, <5>1, ReservedFacts
        <5>3. QED
          BY <2>2, <5>2 DEF Removal
      <4>2. QED
        BY <2>2, <4>1, NoRemovalAssumption
    <3>2. QED
      BY <1>2, <2>2, <3>1 DEF Returning, Owed
  <2>5. QED
    BY <1>1, <1>2, <2>2, <2>3, <2>4, LogQuiet
<1>6. CASE RetryDelete
  <2>1. UNCHANGED << tasks, pending >> /\ pc'.at = "persist" /\ pc'.task = None
    BY <1>4, <1>6, IdleFacts DEF RetryDelete, AwaitPersistence, actor
  <2>2. Held' = Held /\ Returning' = {} /\ Owed' = Owed
    BY <1>2, <2>1 DEF Held, Returning, Owed
  <2>3. QED
    BY <1>1, <1>2, <2>1, <2>2, LogQuiet
<1>7. CASE ExpireDurable(p)
  <2>1. /\ p \in DOMAIN tasks /\ tasks' = RemoveAt(tasks, p) /\ pending = None /\ pending' = None
        /\ pc'.at = "expiry persist" /\ pc'.task = tasks[p]
    BY <1>7 DEF ExpireDurable, Fires, TimerRuns
  <2>2. Held' \subseteq Held /\ Held \subseteq Held' \union {tasks[p]} /\ tasks[p] \in Held
    <3>1. tasks[p] \in Held
      BY <2>1 DEF Held, Range
    <3>2. QED
      BY <1>3, <2>1, <3>1, CleanRemove DEF Held
  <2>3. tasks[p] # None
    <3>1. tasks \in Seq(Tasks) /\ p \in DOMAIN tasks
      BY <1>3, <2>1 DEF CleanOf
    <3>2. tasks[p] \in Tasks
      BY <3>1
    <3>3. QED
      BY <3>2, SchedulerAssumption
  <2>4. Returning' = {tasks[p]} /\ Owed = {} /\ Owed' = {tasks[p]}
    BY <1>2, <2>1, <2>3 DEF Returning, Owed
  <2>5. pc'.at \notin Deleting \union {"idle"} /\ pc'.at \notin {"published", "expiry published"}
    BY <2>1 DEF Deleting
  <2>6. QED
    BY <1>1, <1>2, <2>2, <2>4, <2>5, LogQuiet
<1>8. QED
  BY <1>5, <1>6, <1>7

\* The awaits of a removal.
LEMMA ContinuesLogged ==
  ASSUME RemovalInv, LogInv, Continues
  PROVE  LogInv'
<1>1. /\ UNCHANGED << shown, open, unborn >> /\ pc.at # "stopped"
      /\ OneRemoval /\ ReservationInv /\ OneAwaited(events) /\ ActorTyped
      /\ \A i \in DOMAIN events : IsEvent(events[i])
  BY DEF Continues, DeletePersisted, DeletePublished, ExpiryPersisted, ExpiryPublished,
         ExpiryNotCommitted, GiveUp, At, world, bridge, RemovalInv, ReservationInv, AnswersHeard
<1>2. /\ Idle.at = "idle" /\ Idle.task = None
      /\ [Idle EXCEPT !.at = "publish"].at = "publish"
      /\ [Idle EXCEPT !.at = "publish"].task = None
  BY DEF Idle
<1>3. CASE ~open
  BY <1>1, <1>3 DEF LogInv
<1>4. ASSUME open
      PROVE  /\ LogOf(events, shown, Held, Returning, Owed, unsettled, unborn)
             /\ OutOfSight(events, shown) /\ PlaceNamed
  BY <1>1, <1>4, LogFacts
<1>5. CASE open /\ (DeletePersisted \/ ExpiryPersisted)
  <2>1. /\ UNCHANGED << tasks, pending, unsettled >>
        /\ \/ pc.at = "persisted" /\ pc'.at = "publish" /\ pc'.task = None
           \/ pc.at = "expiry persisted" /\ pc'.at = "expiry publish" /\ pc'.task = pc.task
    <3>1. CASE DeletePersisted
      BY <1>2, <1>5, <3>1 DEF DeletePersisted, At, actor, ghosts
    <3>2. CASE ExpiryPersisted
      BY <1>1, <1>5, <3>2, PlaceFields DEF ExpiryPersisted, At, actor, ghosts
    <3>3. QED
      BY <1>5, <3>1, <3>2
  <2>2. \E t, v : Send(<< Tombstone(t, v) >>)
    BY <1>5 DEF DeletePersisted, ExpiryPersisted, Publish
  <2>3. PICK x : Send(<< x >>) /\ x.kind = "tombstone"
    BY <2>2 DEF Tombstone
  <2>4. events' = events \o << x >> /\ OneAwaited(<< x >>)
    BY <1>5, <2>3, SingleQueue DEF Send
  <2>5. Followed(events, << x >>, events')
    BY <1>1, <2>4, FollowedFacts
  <2>6. /\ ToldIn(<< x >>, "created") = {} /\ ToldIn(<< x >>, "removed") = {}
        /\ NoReturnIn(<< x >>)
    BY <2>3, SingleTold
  <2>7. /\ ToldIn(events', "created") = ToldIn(events, "created")
        /\ ToldIn(events', "removed") = ToldIn(events, "removed")
        /\ NoReturnIn(events) => NoReturnIn(events')
    BY <2>5, <2>6, JoinTold
  <2>8. Held' = Held /\ Returning' = {} /\ Owed' = Owed
    <3>1. pc.at = "persisted" => pc.task = None
      BY <1>4, <1>5 DEF PlaceNamed, Deleting
    <3>2. QED
      BY <2>1, <3>1 DEF Held, Returning, Owed
  <2>9. pc'.at \in Deleting \union {"idle"} => pc'.task = None
    BY <2>1 DEF Deleting
  <2>10. QED
    BY <1>1, <2>1, <2>7, <2>8, <2>9, LogQuiet
<1>6. CASE open /\ (DeletePublished \/ ExpiryPublished)
  <2>1. /\ UNCHANGED << tasks, unsettled, events >> /\ pc' = Idle /\ pending' \in {None, pending}
        /\ \/ pc.at = "published" /\ pending' = None
           \/ pc.at = "expiry published" /\ pending' = pending
    BY <1>6 DEF DeletePublished, ExpiryPublished, At, bridge, ghosts
  <2>2. Held' = Held /\ Returning' = {}
    BY <1>2, <2>1 DEF Held, Returning
  <2>3. \A x \in Owed : x \in Owed' \/ x \notin shown \union ToldIn(events, "created")
    <3>1. CASE pc.at = "published"
      <4>1. pending.task \notin shown \union ToldIn(events, "created") /\ pc.task = None
        BY <1>4, <1>6, <3>1 DEF OutOfSight, PlaceNamed, At, Deleting
      <4>2. QED
        BY <4>1 DEF Owed
    <3>2. CASE pc.at = "expiry published" /\ pending' = pending
      <4>1. pc.task \notin shown \union ToldIn(events, "created")
        BY <1>4, <1>6, <3>2 DEF OutOfSight, At
      <4>2. QED
        BY <3>2, <4>1 DEF Owed
    <3>3. QED
      BY <2>1, <3>1, <3>2
  <2>4. QED
    BY <1>1, <1>2, <2>1, <2>2, <2>3, LogQuiet
<1>7. CASE open /\ ExpiryNotCommitted
  <2>1. /\ UNCHANGED << pending, unsettled, events >> /\ pc' = Idle /\ pc.at = "expiry failed"
        /\ tasks' = InsertAt(tasks, pc.index, pc.task)
    BY <1>7 DEF ExpiryNotCommitted, At, bridge, ghosts
  <2>2. /\ pc.task \notin Range(tasks) \union unborn /\ pc.task \in Tasks
        /\ pc.task \notin Gone /\ pc.index \in 1..(Len(tasks) + 1)
    BY <1>1, <2>1 DEF RemovalInv, DepartingAbsent, OneRemoval, Expiring, Held
  <2>3. Held' = Held \union {pc.task}
    <3>1. CleanOf(tasks, Gone, unborn)
      BY RemovalFacts
    <3>2. Range(InsertAt(tasks, pc.index, pc.task)) = Range(tasks) \union {pc.task}
      BY <2>2, <3>1, CleanInsert
    <3>3. QED
      BY <2>1, <3>2 DEF Held
  <2>4. Returning = {pc.task} /\ Returning' = {} /\ Owed \subseteq Owed' \union {pc.task}
    BY <1>2, <2>1 DEF Returning, Owed
  <2>5. QED
    BY <1>1, <1>2, <2>1, <2>3, <2>4, LogQuiet
<1>8. CASE open /\ GiveUp
  <2>1. /\ UNCHANGED << pending, tasks >> /\ pc' = Idle /\ events' = Unheard(events)
        /\ unsettled' = unsettled \union ({pc.task} \ {None})
    BY <1>8 DEF GiveUp, actor
  <2>2. /\ ToldIn(events', "created") = ToldIn(events, "created")
        /\ ToldIn(events', "removed") = ToldIn(events, "removed")
        /\ NoReturnIn(events) => NoReturnIn(events')
    BY <1>1, <2>1, UnheardTold, RestUnheard, RestNoReturn
  <2>3. /\ Held' = Held /\ Returning' = {}
        /\ \A x \in Owed : x \in Owed' \/ x \in unsettled'
    BY <1>2, <2>1 DEF Held, Returning, Owed
  <2>4. QED
    BY <1>1, <1>2, <2>1, <2>2, <2>3, LogQuiet
<1>9. QED
  BY <1>3, <1>5, <1>6, <1>7, <1>8 DEF Continues

\* The writer answers.
LEMMA WritesLogged ==
  ASSUME RemovalInv, LogInv, Writes
  PROVE  LogInv'
<1>1. /\ pc'.task = pc.task /\ UNCHANGED << tasks, pending, unborn, unsettled, open >>
      /\ \/ pc' = pc
         \/ pc.at = "persist" /\ pc'.at \in {"persisted", "failed"}
         \/ pc.at = "expiry persist" /\ pc'.at \in {"expiry persisted", "expiry failed"}
         \/ pc.at \in {"publish", "expiry publish"} /\ pc' # pc
  BY Received DEF RemovalInv, actor, world, ghosts
<1>2. UNCHANGED << events, shown >>
  BY DEF Writes, ToolSave, WriterSave, WriterTick, WriterFlush, bridge
<1>3. ~(pc.at \in {"publish", "expiry publish"} /\ pc' # pc)
  <2>1. ASSUME NEW ok \in BOOLEAN, NEW replaced \in BOOLEAN, WriterFlush(ok, replaced)
        PROVE  pc' = pc \/ pc.at \in {"persist", "expiry persist"}
    BY <2>1, AnsweredFacts DEF WriterFlush, RemovalInv
  <2>2. QED
    BY <2>1 DEF Writes, ToolSave, WriterSave, WriterTick
<1>4. CASE pc.at = "stopped" \/ ~open
  <2>1. (pc.at = "stopped" => pc'.at = "stopped") /\ (~open => ~open')
    BY <1>1, <1>3
  <2>2. QED
    BY <1>4, <2>1 DEF LogInv, At
<1>5. CASE pc.at # "stopped" /\ open
  <2>1. Held' = Held /\ Owed' = Owed /\ Returning' \subseteq Returning
    BY <1>1, <1>3 DEF Held, Owed, Returning
  <2>2. pc'.at \in Deleting \union {"idle"} => pc'.task = None
    BY <1>1, <1>3, <1>5, LogFacts DEF PlaceNamed, Deleting
  <2>3. pc'.at \notin {"published", "expiry published"} \/ UNCHANGED << pc, pending >>
    BY <1>1, <1>3
  <2>4. QED
    BY <1>1, <1>2, <1>5, <2>1, <2>2, <2>3, LogQuiet
<1>6. QED
  BY <1>4, <1>5

\* The bridge takes a notification.
LEMMA ForwardsLogged ==
  ASSUME RemovalInv, LogInv, Forwards
  PROVE  LogInv'
<1> DEFINE h == Head(events)
<1>1. /\ pc'.task = pc.task /\ UNCHANGED << tasks, pending, unborn, unsettled, open >>
      /\ \/ pc' = pc
         \/ pc.at = "persist" /\ pc'.at \in {"persisted", "failed"}
         \/ pc.at = "expiry persist" /\ pc'.at \in {"expiry persisted", "expiry failed"}
         \/ pc.at = "publish" /\ pc'.at \in {"published", "failed"} /\ h.awaited
         \/ pc.at = "expiry publish" /\ pc'.at \in {"expiry published", "failed"} /\ h.awaited
  BY Received DEF RemovalInv, actor, world, ghosts
<1>2. events # << >> /\ events' = Tail(events) /\ OneAwaited(events)
  BY DEF Forwards, Forward, AppendDurably, RemovalInv, ReservationInv, AnswersHeard
<1>3. /\ \A kind : kind # h.kind => ToldIn(events', kind) = ToldIn(events, kind)
      /\ ToldIn(events, h.kind) = ToldIn(events', h.kind) \union {h.task}
      /\ NoReturnIn(events) => NoReturnIn(events')
      /\ NoReturnIn(events) /\ h.kind \in {"removed", "tombstone"}
           => h.task \notin ToldIn(events', "created")
  BY <1>2, TailTold
<1> HIDE DEF h
<1>4. CASE pc.at = "stopped" \/ ~open
  <2>1. pc'.at = "stopped" \/ ~open'
    BY <1>1, <1>4
  <2>2. QED
    BY <2>1 DEF LogInv, At
<1>5. CASE pc.at # "stopped" /\ open
  <2>1. /\ LogOf(events, shown, Held, Returning, Owed, unsettled, unborn)
        /\ OutOfSight(events, shown) /\ PlaceNamed
    BY <1>5, LogFacts
  <2>2. Held' = Held /\ Owed' = Owed /\ Returning' \subseteq Returning
    BY <1>1 DEF Held, Owed, Returning
  <2>3. pc'.at \in Deleting \union {"idle"} => pc'.task = None
    BY <1>1, <2>1 DEF PlaceNamed, Deleting
  <2>4. ASSUME UNCHANGED pc,
               LogOf(events', shown', Held, Returning, Owed, unsettled, unborn),
               shown' \union ToldIn(events', "created") \subseteq shown \union ToldIn(events, "created")
        PROVE  LogInv'
    <3>1. Returning' = Returning
      BY <2>4 DEF Returning
    <3>2. LogOf(events', shown', Held', Returning', Owed', unsettled', unborn')
      BY <1>1, <2>2, <2>4, <3>1
    <3>3. /\ pc'.at = "published" => pending'.task \notin shown' \union ToldIn(events', "created")
          /\ pc'.at = "expiry published" =>
               pc'.task \notin shown' \union ToldIn(events', "created")
      BY <1>1, <2>1, <2>4 DEF OutOfSight, At
    <3>4. QED
      BY <2>3, <3>2, <3>3, LogNext
  <2>5. CASE Forward
    <3>1. /\ pc' = pc /\ h.kind # "tombstone"
          /\ shown' = CASE h.kind = "created" -> shown \union {h.task}
                        [] h.kind = "removed" -> shown \ {h.task}
                        [] OTHER              -> shown
      BY <2>5 DEF Forward, h
    <3>2. CASE h.kind = "created"
      <4>1. shown' = shown \union {h.task}
        BY <3>1, <3>2
      <4>2. /\ ToldIn(events', "removed") = ToldIn(events, "removed")
            /\ ToldIn(events, "created") = ToldIn(events', "created") \union {h.task}
        BY <1>3, <3>2
      <4>3. shown' \union ToldIn(events', "created") = shown \union ToldIn(events, "created")
        BY <4>1, <4>2
      <4>4. LogOf(events', shown', Held, Returning, Owed, unsettled, unborn)
        BY <1>3, <2>1, <4>2, <4>3 DEF LogOf
      <4>5. QED
        BY <2>4, <3>1, <4>3, <4>4
    <3>3. CASE h.kind = "removed"
      <4>1. shown' = shown \ {h.task}
        BY <3>1, <3>3
      <4>2. /\ ToldIn(events', "created") = ToldIn(events, "created")
            /\ ToldIn(events, "removed") = ToldIn(events', "removed") \union {h.task}
            /\ h.task \notin ToldIn(events', "created")
        BY <1>3, <2>1, <3>3 DEF LogOf
      <4>3. h.task \notin Held \union Returning
        BY <2>1, <4>2 DEF LogOf
      <4>4. LogOf(events', shown', Held, Returning, Owed, unsettled, unborn)
        BY <1>3, <2>1, <4>1, <4>2, <4>3 DEF LogOf
      <4>5. QED
        BY <2>4, <3>1, <4>1, <4>2, <4>4
    <3>4. CASE h.kind \notin {"created", "removed"}
      <4>1. shown' = shown
        BY <3>1, <3>4
      <4>2. /\ ToldIn(events', "created") = ToldIn(events, "created")
            /\ ToldIn(events', "removed") = ToldIn(events, "removed")
        BY <1>3, <3>4
      <4>3. LogOf(events', shown', Held, Returning, Owed, unsettled, unborn)
        BY <1>3, <2>1, <4>1, <4>2 DEF LogOf
      <4>4. QED
        BY <2>4, <3>1, <4>1, <4>2, <4>3
    <3>5. QED
      BY <3>2, <3>3, <3>4
  <2>6. ASSUME NEW ok \in BOOLEAN, NEW landed \in BOOLEAN, AppendDurably(ok, landed)
        PROVE  LogInv'
    <3>1. /\ h.kind = "tombstone" /\ (ok => landed) /\ pc' = Receipted(h, ok)
          /\ shown' = IF landed THEN shown \ {h.task} ELSE shown
      BY <2>6 DEF AppendDurably, h
    <3>2. /\ ToldIn(events', "created") = ToldIn(events, "created")
          /\ ToldIn(events', "removed") = ToldIn(events, "removed")
          /\ h.task \notin ToldIn(events', "created")
      BY <1>3, <2>1, <3>1 DEF LogOf
    <3>3. \E i \in DOMAIN events : h = events[i]
      <4>1. Shortened(events, Tail(events))
        BY <1>2, TailQueue
      <4>2. QED
        BY <4>1 DEF Shortened, h
    <3>4. h.task \in Gone
      BY <3>1, <3>3, RemovalFacts
    <3>5. h.task \notin Held \union Returning
      <4>1. h.task \notin Held
        BY <3>4, RemovalFacts DEF CleanOf, Held, Range
      <4>2. h.task \notin Returning
        BY <3>4 DEF RemovalInv, DepartingAbsent, Returning
      <4>3. QED
        BY <4>1, <4>2
    <3>6. LogOf(events', shown', Held', Returning', Owed', unsettled', unborn')
      <4>1. NoReturnIn(events')
        BY <1>3, <2>1 DEF LogOf
      <4>2. (Held' \union Returning') \ OneShot \subseteq shown' \union ToldIn(events', "created")
        <5>1. (Held \union Returning) \ OneShot \subseteq shown \union ToldIn(events, "created")
          BY <2>1 DEF LogOf
        <5>2. shown \subseteq shown' \union {h.task}
          BY <3>1
        <5>3. QED
          BY <2>2, <3>2, <3>5, <5>1, <5>2
      <4>3. ToldIn(events', "removed") \intersect UNION {Held', Returning', unborn'} = {}
        <5>1. ToldIn(events, "removed") \intersect UNION {Held, Returning, unborn} = {}
          BY <2>1 DEF LogOf
        <5>2. QED
          BY <1>1, <2>2, <3>2, <5>1
      <4>4. shown' \union ToldIn(events', "created")
              \subseteq UNION {Held', unsettled', Owed', ToldIn(events', "removed")}
        <5>1. shown' \subseteq shown
          BY <3>1
        <5>2. QED
          BY <1>1, <2>1, <2>2, <3>2, <5>1 DEF LogOf
      <4>5. QED
        BY <4>1, <4>2, <4>3, <4>4 DEF LogOf
    <3>7. CASE pc' = pc
      <4>1. /\ pc'.at = "published" => pending'.task \notin shown' \union ToldIn(events', "created")
            /\ pc'.at = "expiry published" =>
                 pc'.task \notin shown' \union ToldIn(events', "created")
        BY <1>1, <2>1, <3>1, <3>2, <3>7 DEF OutOfSight, At
      <4>2. QED
        BY <2>3, <3>6, <4>1, LogNext
    <3>8. CASE pc' # pc
      <4>1. h.awaited /\ pc.at \in {"publish", "expiry publish"}
            /\ (pc'.at \in {"published", "expiry published"} => ok)
        <5>1. ReservationInv /\ ActorTyped
          BY DEF RemovalInv, ReservationInv
        <5>2. \/ h.awaited /\ ~ok /\ pc' = [pc EXCEPT !.at = "failed"]
              \/ h.awaited /\ ok /\ pc.at = "publish"
              \/ h.awaited /\ ok /\ pc.at = "expiry publish"
          BY <1>2, <3>1, <3>8, <5>1, ReceiptedFacts DEF h
        <5>3. [pc EXCEPT !.at = "failed"].at = "failed"
          BY <5>1, PlaceFields
        <5>4. pc.at \in {"publish", "expiry publish"}
          <6>1. pc.at \notin {"publish", "expiry publish"} => NoneAwaited(events)
            BY <5>1 DEF ReservationInv, AnswersHeard
          <6>2. QED
            BY <3>3, <5>2, <6>1 DEF NoneAwaited
        <5>5. QED
          BY <5>2, <5>3, <5>4
      <4>2. h.task = Departing
        BY <3>3, <4>1 DEF RemovalInv, TombstoneOfDeparting
      <4>3. ASSUME pc'.at \in {"published", "expiry published"}
            PROVE  h.task \notin shown' \union ToldIn(events', "created")
        BY <3>1, <3>2, <4>1, <4>3
      <4>4. /\ pc'.at = "published" => pending'.task \notin shown' \union ToldIn(events', "created")
            /\ pc'.at = "expiry published" =>
                 pc'.task \notin shown' \union ToldIn(events', "created")
        BY <1>1, <3>8, <4>1, <4>2, <4>3 DEF Departing, Deleting
      <4>5. QED
        BY <2>3, <3>6, <4>4, LogNext
    <3>9. QED
      BY <3>7, <3>8
  <2>7. QED
    BY <2>5, <2>6 DEF Forwards
<1>6. QED
  BY <1>4, <1>5

\* A new actor announces what it has loaded.
LEMMA RestartLogged ==
  ASSUME RemovalInv, Restart
  PROVE  LogInv'
<1>1. PICK places \in Announced(disk, due') :
        events' = [k \in DOMAIN places |-> Notice("created", disk[places[k]], clock')]
  BY DEF Restart
<1>2. /\ tasks' = disk /\ pending' = None /\ pc' = Idle /\ UNCHANGED << unborn, shown >>
      /\ unsettled' = unsettled \union ((Held \union shown) \ Range(disk))
  BY DEF Restart
<1>3. Range(places) = {i \in DOMAIN disk : disk[i] \notin OneShot \intersect due'}
  BY DEF Announced
<1>4. /\ DOMAIN events' = DOMAIN places
      /\ \A k \in DOMAIN events' : events'[k].kind = "created" /\ events'[k].task = disk[places[k]]
  BY <1>1, NoticeFacts
<1>5. \A k \in DOMAIN places : places[k] \in DOMAIN disk
  BY <1>3 DEF Range
<1>6. ToldIn(events', "removed") = {} /\ NoReturnIn(events')
  BY <1>4 DEF ToldIn, NoReturnIn
<1>7. ToldIn(events', "created") \subseteq Range(disk)
  BY <1>4, <1>5 DEF ToldIn, Range
<1>8. Range(disk) \ OneShot \subseteq ToldIn(events', "created")
  <2>1. SUFFICES ASSUME NEW i \in DOMAIN disk, disk[i] \notin OneShot
                 PROVE  disk[i] \in ToldIn(events', "created")
    BY DEF Range
  <2>2. PICK k \in DOMAIN places : places[k] = i
    BY <1>3, <2>1 DEF Range
  <2>3. QED
    BY <1>4, <2>2 DEF ToldIn
<1>9. Held' = Range(disk) /\ Returning' = {} /\ pc'.at = "idle" /\ pc'.task = None
  BY <1>2 DEF Held, Returning, Idle
<1>10. LogOf(events', shown', Held', Returning', Owed', unsettled', unborn')
  BY <1>2, <1>6, <1>7, <1>8, <1>9 DEF LogOf
<1>11. QED
  BY <1>9, <1>10, LogNext

\* The steps after which the log is not followed, and the ones that do not matter to it.
LEMMA OutsideLogged ==
  ASSUME RemovalInv, LogInv, NEW p,
         \/ BlockExpiry(p) \/ AbandonDelete \/ Shutdown \/ CloseTarget \/ Cancel \/ Crash
         \/ Passes \/ UNCHANGED vars
  PROVE  LogInv'
<1>1. CASE AbandonDelete \/ Shutdown \/ CloseTarget \/ Crash
  <2>1. ~open' \/ pc'.at = "stopped"
    <3>1. [Idle EXCEPT !.at = "stopped"].at = "stopped"
      BY DEF Idle
    <3>2. QED
      BY <1>1, <3>1 DEF AbandonDelete, Shutdown, CloseTarget, Crash, bridge
  <2>2. QED
    BY <2>1 DEF LogInv, At
<1>2. CASE BlockExpiry(p) \/ Cancel \/ Passes \/ UNCHANGED vars
  <2>1. UNCHANGED << tasks, pending, pc, open, events, shown, unsettled, unborn >>
    BY <1>2 DEF BlockExpiry, Cancel, Passes, Tick, Expire, vars, actor, world, bridge, ghosts
  <2>2. CASE pc.at = "stopped" \/ ~open
    BY <2>1, <2>2 DEF LogInv, At
  <2>3. CASE pc.at # "stopped" /\ open
    <3>1. Held' = Held /\ Returning' = Returning /\ Owed' = Owed
      BY <2>1 DEF Held, Returning, Owed
    <3>2. pc'.at \in Deleting \union {"idle"} => pc'.task = None
      BY <2>1, <2>3, LogFacts DEF PlaceNamed
    <3>3. QED
      BY <2>1, <2>3, <3>1, <3>2, LogQuiet
  <2>4. QED
    BY <2>2, <2>3
<1>3. QED
  BY <1>1, <1>2

LEMMA LogStep ==
  ASSUME RemovalInv, LogInv, [Next]_vars
  PROVE  LogInv'
<1>1. RemovalInv'
  BY RemovalStep
<1>2. CASE Commands
  <2>1. CASE \E t \in Tasks : Create(t) \/ (\E interval \in BOOLEAN : Update(t, interval))
    BY <1>1, <2>1, StampsLogged
  <2>2. CASE (\E t \in Tasks : Delete(t)) \/ RetryDelete
    BY <2>2, AwaitsLogged
  <2>3. CASE AbandonDelete
    BY <2>3, OutsideLogged
  <2>4. QED
    BY <1>2, <2>1, <2>2, <2>3 DEF Commands
<1>3. CASE Timer
  <2>1. PICK i : \/ BlockExpiry(i) \/ ExpireDurable(i) \/ ExpireSessionOnly(i)
                 \/ FireRecurring(i) \/ SkipRecurring(i) \/ FireOneShot(i)
    BY <1>3 DEF Timer
  <2>2. QED
    BY <1>1, <2>1, AwaitsLogged, OutsideLogged, StampsLogged
<1>4. CASE Continues
  BY <1>4, ContinuesLogged
<1>5. CASE Writes
  BY <1>5, WritesLogged
<1>6. CASE Forwards
  BY <1>6, ForwardsLogged
<1>7. CASE Shutdown \/ Faults \/ Passes
  BY <1>7, OutsideLogged, RestartLogged DEF Faults
<1>8. CASE UNCHANGED vars
  BY <1>8, OutsideLogged
<1>9. QED
  BY <1>2, <1>3, <1>4, <1>5, <1>6, <1>7, <1>8 DEF Next

LEMMA LogInit ==
  ASSUME Init
  PROVE  LogInv
<1>1. /\ Idle.at = "idle" /\ Idle.task = None /\ pc = Idle /\ pending = None /\ shown = {}
      /\ tasks = << >> /\ events = << >> /\ unsettled = {}
  BY DEF Init, Idle
<1>2. DOMAIN tasks = {} /\ DOMAIN events = {}
  BY <1>1
<1>3. Held = {} /\ Returning = {} /\ Told("created") = {} /\ Told("removed") = {}
  BY <1>1, <1>2 DEF Held, Range, Returning, Told
<1>4. NoReturn
  BY <1>2 DEF NoReturn
<1>5. NothingHidden
  BY <1>3 DEF NothingHidden
<1>6. NothingInVain
  BY <1>1, <1>3 DEF NothingInVain, At
<1>7. QED
  BY <1>4, <1>5, <1>6 DEF LogInv

\* When the bridge has caught up, the session log shows what the actor holds, after every
\* sequence of commands, fires, late answers, timeouts, crashes and restarts.
THEOREM LogCorrect == Spec => []LogAgrees
<1>1. ASSUME LogInv
      PROVE  LogAgrees
  <2>1. SUFFICES ASSUME At("idle"), open, events = << >>, pending = None
                 PROVE  Held \ OneShot \subseteq shown /\ shown \subseteq Held \union unsettled
    BY DEF LogAgrees
  <2>2. /\ LogOf(events, shown, Held, Returning, Owed, unsettled, unborn) /\ PlaceNamed
    BY <1>1, <2>1, LogFacts DEF At
  <2>3. DOMAIN events = {}
    BY <2>1
  <2>4. ToldIn(events, "created") = {} /\ ToldIn(events, "removed") = {}
    BY <2>3 DEF ToldIn
  <2>5. Owed = {}
    BY <2>1, <2>2 DEF Owed, PlaceNamed, At
  <2>6. QED
    BY <2>2, <2>4, <2>5 DEF LogOf
<1>2. QED
  BY <1>1, RemovalInit, RemovalStep, LogInit, LogStep, PTL DEF Spec
=============================================================================
