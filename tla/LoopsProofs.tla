---------------------------- MODULE LoopsProofs ----------------------------
(***************************************************************************)
(* Proofs about the background loops of the scheduler, for every set of    *)
(* tasks, prompts and ids and every length of a chain.                     *)
(***************************************************************************)
EXTENDS SchedulerLoops, SequenceTheorems, TLAPS

(***************************************************************************)
(* The coordinator's channel                                               *)
(***************************************************************************)
LEMMA TailFacts ==
  ASSUME NEW S, NEW q \in Seq(S), q # << >>
  PROVE  /\ Head(q) \in S /\ Head(q) = q[1] /\ 1 \in DOMAIN q
         /\ Tail(q) \in Seq(S) /\ Len(Tail(q)) = Len(q) - 1
         /\ \A k \in DOMAIN Tail(q) : k + 1 \in DOMAIN q /\ Tail(q)[k] = q[k + 1]
         /\ Tail(q) # << >> => Last(Tail(q)) = Last(q)
         /\ DOMAIN q = 1..Len(q) /\ DOMAIN Tail(q) = 1..Len(Tail(q))
BY DEF Last

LEMMA AppendFacts ==
  ASSUME NEW S, NEW q \in Seq(S), NEW e \in S
  PROVE  /\ Append(q, e) \in Seq(S) /\ Len(Append(q, e)) = Len(q) + 1 /\ Append(q, e) # << >>
         /\ Last(Append(q, e)) = e
         /\ \A k \in DOMAIN q : k \in DOMAIN Append(q, e) /\ Append(q, e)[k] = q[k]
         /\ \A k \in DOMAIN Append(q, e) :
              IF k = Len(q) + 1 THEN Append(q, e)[k] = e
              ELSE k \in DOMAIN q /\ Append(q, e)[k] = q[k]
         /\ DOMAIN q = 1..Len(q)
BY DEF Last

LEMMA FrontFacts ==
  ASSUME NEW S, NEW q \in Seq(S), q # << >>
  PROVE  /\ Front(q) \in Seq(S) /\ Len(Front(q)) = Len(q) - 1
         /\ \A k \in DOMAIN Front(q) : k \in DOMAIN q /\ k < Len(q) /\ Front(q)[k] = q[k]
<1>1. Len(q) \in Nat /\ Len(q) > 0 /\ DOMAIN q = 1..Len(q)
  OBVIOUS
<1>2. \A i \in 1..(Len(q) - 1) : q[i] \in S
  BY <1>1
<1>z. Len(q) - 1 \in Int /\ 1 \in Int
  BY <1>1
<1>a. PICK n \in Int : n = Len(q) - 1
  BY <1>z, Zenon
<1>b. PICK m \in Int : m = 1
  BY <1>z, Zenon
<1>c. \A i \in m..n : q[i] \in S
  BY <1>2, <1>a, <1>b
<1>d. /\ SubSeq(q, m, n) \in Seq(S)
      /\ Len(SubSeq(q, m, n)) = IF m <= n THEN n-m+1 ELSE 0
      /\ \A i \in 1..n-m+1 : SubSeq(q, m, n)[i] = q[m+i-1]
  BY ONLY <1>c, m \in Int, n \in Int, SubSeqProperties
<1>3. /\ SubSeq(q, 1, Len(q) - 1) \in Seq(S)
      /\ Len(SubSeq(q, 1, Len(q) - 1)) = n
      /\ \A i \in 1..n : SubSeq(q, 1, Len(q) - 1)[i] = q[i]
  BY <1>1, <1>a, <1>b, <1>d
<1>4. Front(q) \in Seq(S) /\ Len(Front(q)) = Len(q) - 1
  BY <1>1, <1>3, <1>a DEF Front
<1>5. \A i \in 1..(Len(q) - 1) : Front(q)[i] = q[i]
  BY <1>1, <1>3, <1>a DEF Front
<1>6. QED
  BY <1>1, <1>4, <1>5

-----------------------------------------------------------------------------
(***************************************************************************)
(* Types                                                                   *)
(***************************************************************************)
LEMMA RecordFacts ==
  /\ Blank \in Record /\ Unknown \in Iteration /\ Idle \in Reading
  /\ Idle.at = "idle" /\ Idle.task = None /\ Idle.saw = Blank
  /\ Unknown.is = "unknown" /\ Unknown.of = None /\ Unknown.job = None
  /\ Unknown.resumed = None /\ Unknown.depth = 0 /\ ~Unknown.nested
  /\ Blank.prompt = None /\ Blank.anchor = None
BY LoopsAssumption DEF Blank, Record, Unknown, Iteration, Idle, Reading

LEMMA PatchedFacts ==
  ASSUME NEW r \in Record, NEW p \in Prompts
  PROVE  /\ Patched(r, p) \in Record
         /\ Patched(r, p).anchor = r.anchor /\ Patched(r, p).prompt = p
         /\ ~Patched(r, p).reset => ~r.reset /\ p = r.prompt
         /\ p = r.prompt => Patched(r, p).iterations = r.iterations
<1> DEFINE n == IF p # r.prompt THEN 0 ELSE r.iterations
           f == r.reset \/ p # r.prompt
<1>1. n \in 0..FreshEvery /\ f \in BOOLEAN /\ (~f => ~r.reset /\ p = r.prompt)
      /\ (p = r.prompt => n = r.iterations)
  BY LoopsAssumption DEF Record
<1>2. Patched(r, p) = [r EXCEPT !.prompt = p, !.reset = f, !.iterations = n]
  BY DEF Patched, Record
<1> HIDE DEF n, f
<1>3. LET c == [r EXCEPT !.prompt = p, !.reset = f, !.iterations = n]
      IN  c \in Record /\ c.anchor = r.anchor /\ c.prompt = p /\ c.reset = f /\ c.iterations = n
  BY <1>1 DEF Record
<1>4. QED
  BY <1>1, <1>2, <1>3

LEMMA AdvancedFacts ==
  ASSUME NEW r \in Record, NEW saw \in Record, NEW usable \in BOOLEAN, NEW id \in Ids
  PROVE  /\ Advanced(r, saw, usable, id) \in Record
         /\ Advanced(r, saw, usable, id).anchor = id
         /\ Advanced(r, saw, usable, id).prompt = r.prompt
         /\ Advanced(r, saw, usable, id).iterations =
              IF Resumes(saw, usable) THEN saw.iterations + 1 ELSE 1
<1> DEFINE n == IF Resumes(saw, usable) THEN saw.iterations + 1 ELSE 1
<1>1. n \in 0..FreshEvery
  BY LoopsAssumption DEF Resumes, Record
<1> HIDE DEF n
<1>2. Advanced(r, saw, usable, id) = [r EXCEPT !.anchor = id, !.reset = FALSE, !.iterations = n]
  BY DEF Advanced, n
<1>3. ASSUME NEW f \in BOOLEAN
      PROVE  LET a == [r EXCEPT !.anchor = id, !.reset = f, !.iterations = n]
             IN  /\ a \in Record /\ a.anchor = id /\ a.prompt = r.prompt /\ a.iterations = n
  BY <1>1 DEF Record
<1>4. QED
  BY <1>2, <1>3 DEF n

LEMMA RestoredFacts ==
  ASSUME NEW r \in Record, NEW saw \in Record, r.prompt = saw.prompt
  PROVE  Restored(r, saw) = saw
BY DEF Restored, Record

LEMMA ClearedFacts ==
  ASSUME NEW r \in Record
  PROVE  LET c == [r EXCEPT !.anchor = None, !.iterations = 0]
         IN  c \in Record /\ c.anchor = None /\ c.prompt = r.prompt
<1>1. ASSUME NEW a \in Ids \union {None}, NEW n \in 0..FreshEvery
      PROVE  LET c == [r EXCEPT !.anchor = a, !.iterations = n]
             IN  c \in Record /\ c.anchor = a /\ c.prompt = r.prompt
  BY DEF Record
<1>2. None \in Ids \union {None} /\ 0 \in 0..FreshEvery
  BY LoopsAssumption
<1>3. QED
  BY <1>1, <1>2

LEMMA EndedFacts ==
  ASSUME NEW c \in Iteration, NEW ok \in BOOLEAN,
         NEW w \in {"live", "done", "failed"}
  PROVE  LET e == [c EXCEPT !.is = w, !.bad = ~ok]
         IN  /\ e \in Iteration /\ e.is = w /\ e.bad = ~ok /\ e.of = c.of /\ e.job = c.job
             /\ e.resumed = c.resumed /\ e.depth = c.depth /\ e.nested = c.nested
<1>1. ASSUME NEW b \in BOOLEAN
      PROVE  LET e == [c EXCEPT !.is = w, !.bad = b]
             IN  /\ e \in Iteration /\ e.is = w /\ e.bad = b /\ e.of = c.of /\ e.job = c.job
                 /\ e.resumed = c.resumed /\ e.depth = c.depth /\ e.nested = c.nested
  BY DEF Iteration
<1>2. (~ok) \in BOOLEAN
  OBVIOUS
<1>3. QED
  BY <1>1, <1>2

LEMMA TypeInit == Init => TypeOK
BY RecordFacts DEF Init, TypeOK

LEMMA TypeStep == LoopsInv /\ [Next]_vars => TypeOK'
<1> SUFFICES ASSUME LoopsInv, [Next]_vars PROVE TypeOK'
  OBVIOUS
<1> USE LoopsAssumption, RecordFacts DEF TypeOK, Free, Skip, Ask
<1>0. TypeOK /\ ReadingKept /\ InboxKept
  BY DEF LoopsInv
<1>1. ASSUME NEW t \in Tasks, NEW p \in Prompts, Create(t, p) PROVE TypeOK'
  BY <1>0, <1>1 DEF Create, Record
<1>2. ASSUME NEW t \in Tasks, NEW p \in Prompts, Update(t, p) PROVE TypeOK'
  BY <1>0, <1>2, PatchedFacts DEF Update
<1>3. ASSUME NEW t \in Tasks, Delete(t) PROVE TypeOK'
  BY <1>0, <1>3 DEF Delete
<1>4. ASSUME NEW t \in Tasks, Fire(t) PROVE TypeOK'
  <2>1. \A w \in {"query", "spawn"} : [at |-> w, task |-> t, saw |-> task[t], usable |-> FALSE] \in Reading
    BY <1>0, <1>4 DEF Fire, Reading
  <2>2. pc' \in Reading
    BY <1>0, <1>4, <2>1 DEF Fire
  <2>3. inbox' \in Seq(Message)
    <3>1. CASE task[t].anchor # None /\ up
      <4>1. [kind |-> "query", id |-> task[t].anchor, task |-> t] \in Message
        BY <1>0, <3>1 DEF Message, Record
      <4>2. QED
        BY <1>0, <1>4, <3>1, <4>1, AppendFacts DEF Fire
    <3>2. QED
      BY <1>0, <1>4, <3>1 DEF Fire
  <2>4. QED
    BY <1>0, <1>4, <2>2, <2>3 DEF Fire
<1>5. ASSUME AnswerQuery PROVE TypeOK'
  <2> DEFINE m == Head(inbox)
  <2>1. m \in Message /\ Tail(inbox) \in Seq(Message) /\ pc.at = "query"
    BY <1>0, <1>5, TailFacts DEF AnswerQuery, InboxKept
  <2>2. pc.task \in Tasks
    BY <1>0, <2>1 DEF ReadingKept
  <2>3. [kind |-> "unit", id |-> m.id, task |-> pc.task] \in Message
    BY <2>1, <2>2 DEF Message
  <2>4. ASSUME NEW b \in BOOLEAN PROVE [pc EXCEPT !.at = "unit", !.usable = b] \in Reading
    BY <1>0 DEF Reading
  <2>5. CASE AfterQuery(m.id)
    <3>2. (child[m.id].is = "done") \in BOOLEAN
      OBVIOUS
    <3>3. pc' \in Reading
      BY <2>4, <2>5, <3>2 DEF AfterQuery
    <3>4. inbox' \in Seq(Message)
      BY <2>1, <2>3, <2>5, AppendFacts DEF AfterQuery
    <3>5. QED
      BY <1>0, <1>5, <3>3, <3>4 DEF AnswerQuery
  <2>6. QED
    BY <1>0, <1>5, <2>1, <2>5 DEF AnswerQuery
<1>6. ASSUME AnswerUnit PROVE TypeOK'
  BY <1>0, <1>6, TailFacts DEF AnswerUnit, Reading
<1>7. ASSUME TimeOut PROVE TypeOK'
  BY <1>0, <1>7, FrontFacts DEF TimeOut, InboxKept
<1>8. ASSUME NEW id \in Ids, Spawn(id) PROVE TypeOK'
  <2>1. pc.task \in Tasks /\ pc.saw \in Record /\ pc.usable \in BOOLEAN /\ task[pc.task] \in Record
    BY <1>0, <1>8 DEF Spawn, ReadingKept, Reading
  <2>2. task' \in [Tasks -> Record]
    BY <1>0, <1>8, <2>1, AdvancedFacts DEF Spawn
  <2>3. inbox' \in Seq(Message)
    <3>1. [kind |-> "spawn", id |-> id, task |-> pc.task] \in Message
      BY <2>1 DEF Message
    <3>2. QED
      BY <1>0, <1>8, <3>1, AppendFacts DEF Spawn
  <2>4. child' \in [Ids -> Iteration]
    <3>1. PICK c : child' = [child EXCEPT ![id] = c] /\ c \in Iteration
      <4>1. ASSUME NEW r \in Prompts \union {None}, NEW d \in Nat, NEW f \in BOOLEAN
            PROVE  [is |-> "sent", of |-> pc.task, job |-> pc.saw.prompt, resumed |-> r,
                    depth |-> d, nested |-> f, bad |-> f] \in Iteration
        BY <2>1 DEF Iteration, Record
      <4>2. pc.saw.anchor # None => /\ child[pc.saw.anchor].job \in Prompts \union {None}
                                    /\ child[pc.saw.anchor].depth + 1 \in Nat
        BY <1>0, <2>1 DEF Record, Iteration
      <4>3. 1 \in Nat /\ FALSE \in BOOLEAN
        OBVIOUS
      <4> DEFINE from == IF Resumes(pc.saw, pc.usable) THEN pc.saw.anchor ELSE None
      <4>4. child' = [child EXCEPT ![id] =
                        [is |-> "sent", of |-> pc.task, job |-> pc.saw.prompt,
                         resumed |-> IF from = None THEN None ELSE child[from].job,
                         depth |-> IF from = None THEN 1 ELSE child[from].depth + 1,
                         nested |-> FALSE, bad |-> FALSE]]
        BY <1>8 DEF Spawn
      <4>5. /\ (IF from = None THEN None ELSE child[from].job) \in Prompts \union {None}
            /\ (IF from = None THEN 1 ELSE child[from].depth + 1) \in Nat
        BY <4>2
      <4> HIDE DEF from
      <4>6. [is |-> "sent", of |-> pc.task, job |-> pc.saw.prompt,
             resumed |-> IF from = None THEN None ELSE child[from].job,
             depth |-> IF from = None THEN 1 ELSE child[from].depth + 1,
             nested |-> FALSE, bad |-> FALSE] \in Iteration
        BY <4>1, <4>3, <4>5
      <4>7. QED
        BY <4>4, <4>6, Zenon
    <3>2. QED
      BY <1>0, <3>1
  <2>5. QED
    BY <1>0, <1>8, <2>2, <2>3, <2>4 DEF Spawn
<1>9. ASSUME NEW id \in Ids, SpawnRefused(id) PROVE TypeOK'
  <2>1. pc.task \in Tasks /\ pc.saw \in Record /\ pc.usable \in BOOLEAN /\ task[pc.task] \in Record
    BY <1>0, <1>9 DEF SpawnRefused, ReadingKept, Reading
  <2>2. task' \in [Tasks -> Record]
    BY <1>0, <1>9, <2>1, AdvancedFacts DEF SpawnRefused
  <2>3. pc' \in Reading
    BY <1>0, <1>9 DEF SpawnRefused, Reading
  <2>4. QED
    BY <1>0, <1>9, <2>2, <2>3 DEF SpawnRefused
<1>10. ASSUME Restore PROVE TypeOK'
  <2>1. pc.task \in Tasks /\ pc.saw \in Record /\ task[pc.task] \in Record
        /\ task[pc.task].prompt = pc.saw.prompt
    BY <1>0, <1>10 DEF Restore, ReadingKept, Reading
  <2>2. QED
    BY <1>0, <1>10, <2>1, RestoredFacts DEF Restore
<1>11. ASSUME NEW id \in Ids, Watch(id) PROVE TypeOK'
  <2>1. ASSUME NEW t \in Tasks PROVE task'[t] \in Record
    BY <1>0, <1>11, ClearedFacts DEF Watch
  <2>2. task' \in [Tasks -> Record]
    BY <1>11, <2>1 DEF Watch
  <2>3. QED
    BY <1>0, <1>11, <2>2 DEF Watch
<1>12. ASSUME NEW ok \in BOOLEAN, Admit(ok) PROVE TypeOK'
  <2>1. Head(inbox) \in Message /\ Tail(inbox) \in Seq(Message)
    BY <1>0, <1>12, TailFacts DEF Admit
  <2>2. Head(inbox).id \in Ids
    BY <2>1 DEF Message
  <2>3. child' \in [Ids -> Iteration]
    BY <1>0, <1>12, <2>2, EndedFacts DEF Admit
  <2>4. QED
    BY <1>0, <1>12, <2>1, <2>2, <2>3 DEF Admit
<1>13. ASSUME NEW id \in Ids, NEW ok \in BOOLEAN, End(id, ok) PROVE TypeOK'
  <2>1. child' \in [Ids -> Iteration]
    BY <1>0, <1>13, EndedFacts DEF End
  <2>2. QED
    BY <1>0, <1>13, <2>1 DEF End
<1>14. ASSUME NEW id \in Ids, Nest(id) PROVE TypeOK'
  BY <1>0, <1>14 DEF Nest, Iteration
<1>15. ASSUME NEW id \in Ids, NestedEnd(id) PROVE TypeOK'
  BY <1>0, <1>15 DEF NestedEnd, Iteration
<1>16. ASSUME NEW id \in Ids, Forget(id) PROVE TypeOK'
  BY <1>0, <1>16 DEF Forget, Iteration
<1>17. ASSUME CoordinatorGone PROVE TypeOK'
  <2>1. up' \in BOOLEAN
    BY <1>17, Zenon DEF CoordinatorGone
  <2>5. inbox' \in Seq(Message)
    BY <1>17 DEF CoordinatorGone
  <2>2. watcher' \in [Ids -> {"none", "waits", "error"}]
    BY <1>0, <1>17 DEF CoordinatorGone
  <2>3. pc' \in Reading /\ child' \in [Ids -> Iteration]
    BY <1>0, <1>17 DEF CoordinatorGone
  <2>4. QED
    BY <1>0, <1>17, <2>1, <2>2, <2>3, <2>5 DEF CoordinatorGone
<1>18. ASSUME NEW t \in Tasks, Tick(t) PROVE TypeOK'
  BY <1>0, <1>18 DEF Tick
<1>19. CASE UNCHANGED vars
  BY <1>0, <1>19 DEF vars
<1>20. QED
  BY <1>1, <1>2, <1>3, <1>4, <1>5, <1>6, <1>7, <1>8, <1>9, <1>10, <1>11, <1>12, <1>13, <1>14,
     <1>15, <1>16, <1>17, <1>18, <1>19
  DEF Next, Commands, Fires, Answers, Advances, Watches, Admits, Ends

-----------------------------------------------------------------------------
(***************************************************************************)
(* What the steps do to a record, a reading and an iteration               *)
(***************************************************************************)
\* The parts of the type that the steps below use, field by field.
Fields ==
  /\ held \subseteq Tasks
  /\ \A t \in Tasks : /\ task[t].anchor \in Ids \union {None} /\ task[t] \in Record
                      /\ task[t].iterations \in Nat /\ task[t].iterations <= FreshEvery
  /\ pc.saw.anchor \in Ids \union {None} /\ pc.saw.iterations \in Nat
  /\ pc.saw.iterations <= FreshEvery /\ pc.saw \in Record /\ pc.task \in Tasks \union {None}
  /\ \A i \in Ids : /\ child[i].of \in Tasks \union {None} /\ child[i].depth \in Nat
                    /\ child[i] \in Iteration
  /\ None \notin Tasks /\ None \notin Prompts /\ None \notin Ids
  /\ FreshEvery \in Nat /\ FreshEvery >= 1

LEMMA FieldsFacts == TypeOK => Fields
BY LoopsAssumption DEF TypeOK, Fields, Record, Reading, Iteration

\* An iteration is marked live or ended; nothing else about it changes.
Marked(id, w, b) ==
  /\ \A i \in Ids : i # id => child'[i] = child[i]
  /\ child'[id].is = w /\ child'[id].bad = b
  /\ child'[id].of = child[id].of /\ child'[id].job = child[id].job
  /\ child'[id].resumed = child[id].resumed /\ child'[id].depth = child[id].depth
  /\ child'[id].nested = child[id].nested

LEMMA MarkedFacts ==
  ASSUME TypeOK, NEW id \in Ids, NEW w \in {"live", "done", "failed"}, NEW b \in BOOLEAN,
         child' = [child EXCEPT ![id].is = w, ![id].bad = b]
  PROVE  Marked(id, w, b)
<1>1. child[id] \in Iteration
  BY DEF TypeOK
<1>2. child'[id] = [child[id] EXCEPT !.is = w, !.bad = b]
  BY DEF TypeOK
<1>3. \A i \in Ids : i # id => child'[i] = child[i]
  BY DEF TypeOK
<1>4. PICK e : e = child'[id]
  OBVIOUS
<1>5. PICK c \in Iteration : c = child[id]
  BY <1>1
<1>6. e = [c EXCEPT !.is = w, !.bad = b]
  BY <1>2, <1>4, <1>5
<1>7. /\ e.is = w /\ e.bad = b /\ e.of = c.of /\ e.job = c.job
      /\ e.resumed = c.resumed /\ e.depth = c.depth /\ e.nested = c.nested
  BY ONLY c \in Iteration, <1>6 DEF Iteration
<1>8. QED
  BY <1>3, <1>4, <1>5, <1>7 DEF Marked

\* The spawn at the head of the channel is taken up or refused.
Admitted(id, w, b) ==
  /\ id \in Ids /\ child[id].is = "sent"
  /\ Marked(id, w, b)
  /\ IF b THEN w = "failed" /\ watcher'[id] = "error"
          ELSE w = "live" /\ watcher'[id] = watcher[id]
  /\ \A i \in Ids : i # id => watcher'[i] = watcher[i]
  /\ inbox # << >> /\ inbox[1].kind = "spawn" /\ inbox[1].id = id /\ inbox' = Tail(inbox)
  /\ UNCHANGED << held, task, pc >>

LEMMA AdmitEffect ==
  ASSUME TypeOK, InboxKept, NEW ok \in BOOLEAN, Admit(ok)
  PROVE  \E id \in Ids, w \in {"live", "failed"}, b \in BOOLEAN : Admitted(id, w, b)
<1>1. Head(inbox) \in Message /\ Head(inbox) = inbox[1] /\ 1 \in DOMAIN inbox
  BY TailFacts DEF Admit, TypeOK
<1>2. Head(inbox).id \in Ids /\ child[Head(inbox).id].is = "sent"
  BY <1>1 DEF InboxKept, Admit, Message
<1>3. PICK w \in {"live", "failed"} : w = IF ok THEN "live" ELSE "failed"
  OBVIOUS
<1>4. child' = [child EXCEPT ![Head(inbox).id].is = w, ![Head(inbox).id].bad = ~ok]
  BY <1>3 DEF Admit
<1>5. Marked(Head(inbox).id, w, ~ok)
  <2>1. w \in {"live", "done", "failed"} /\ (~ok) \in BOOLEAN
    OBVIOUS
  <2>2. QED
    BY <1>2, <1>4, <2>1, MarkedFacts
<1>6. \A i \in Ids : watcher'[i] = IF i = Head(inbox).id /\ ~ok THEN "error" ELSE watcher[i]
  BY <1>2 DEF Admit, TypeOK
<1>7. PICK b \in BOOLEAN : b <=> ~ok
  OBVIOUS
<1>8. Admitted(Head(inbox).id, w, b)
  <2>1. CASE ok
    BY <1>1, <1>2, <1>3, <1>5, <1>6, <1>7, <2>1 DEF Admit, Admitted
  <2>2. CASE ~ok
    BY <1>1, <1>2, <1>3, <1>5, <1>6, <1>7, <2>2 DEF Admit, Admitted
  <2>3. QED
    BY <2>1, <2>2
<1>9. QED
  BY <1>2, <1>8

\* A live iteration ends.
Finished(id, w, b) ==
  /\ child[id].is = "live"
  /\ Marked(id, w, b)
  /\ IF b THEN w = "failed" /\ watcher'[id] = "error" ELSE w = "done" /\ watcher'[id] = "none"
  /\ \A i \in Ids : i # id => watcher'[i] = watcher[i]
  /\ UNCHANGED << held, task, pc, inbox >>

LEMMA EndEffect ==
  ASSUME TypeOK, NEW id \in Ids, NEW ok \in BOOLEAN, End(id, ok)
  PROVE  \E w \in {"done", "failed"}, b \in BOOLEAN : Finished(id, w, b)
<1>1. PICK w \in {"done", "failed"} : w = IF ok THEN "done" ELSE "failed"
  OBVIOUS
<1>2. child' = [child EXCEPT ![id].is = w, ![id].bad = ~ok]
  BY <1>1 DEF End
<1>3. Marked(id, w, ~ok)
  <2>1. w \in {"live", "done", "failed"} /\ (~ok) \in BOOLEAN
    OBVIOUS
  <2>2. QED
    BY <1>2, <2>1, MarkedFacts
<1>4. \A i \in Ids : watcher'[i] = IF i # id THEN watcher[i] ELSE IF ok THEN "none" ELSE "error"
  BY DEF End, TypeOK
<1>5. PICK b \in BOOLEAN : b <=> ~ok
  OBVIOUS
<1>6. Finished(id, w, b)
  <2>1. CASE ok
    BY <1>1, <1>3, <1>4, <1>5, <2>1 DEF End, Finished
  <2>2. CASE ~ok
    BY <1>1, <1>3, <1>4, <1>5, <2>2 DEF End, Finished
  <2>3. QED
    BY <2>1, <2>2
<1>7. QED
  BY <1>6

\* The record is again what the actor read.
IsRestored ==
  /\ pc.at = "restore" /\ pc.task \in held /\ pc.saw \in Record
  /\ pc.saw.prompt = task[pc.task].prompt /\ task'[pc.task] = pc.saw
  /\ \A t \in Tasks : t # pc.task => task'[t] = task[t]
  /\ pc' = Idle
  /\ UNCHANGED << held, inbox, child, watcher >>

LEMMA RestoreEffect ==
  ASSUME TypeOK, ReadingKept, Restore
  PROVE  IsRestored
<1>1. pc.task \in held /\ pc.saw \in Record /\ task[pc.task] \in Record
      /\ task[pc.task].prompt = pc.saw.prompt
  BY DEF Restore, ReadingKept, Reading, TypeOK
<1>2. QED
  BY <1>1, RestoredFacts DEF Restore, TypeOK, IsRestored

\* The anchors at a failed iteration are cleared.
Watched(id) ==
  /\ watcher[id] = "error"
  /\ \A t \in Tasks :
       /\ task'[t].prompt = task[t].prompt
       /\ IF t \in held /\ task[t].anchor = id THEN task'[t].anchor = None
          ELSE task'[t] = task[t]
  /\ watcher'[id] = "none" /\ \A i \in Ids : i # id => watcher'[i] = watcher[i]
  /\ UNCHANGED << held, pc, inbox, child >>

LEMMA WatchEffect == ASSUME TypeOK, NEW id \in Ids, Watch(id) PROVE Watched(id)
<1>1. \A t \in Tasks :
        /\ task'[t].prompt = task[t].prompt
        /\ IF t \in held /\ task[t].anchor = id THEN task'[t].anchor = None
           ELSE task'[t] = task[t]
  BY ClearedFacts DEF Watch, TypeOK, PointsAt
<1>2. QED
  BY <1>1 DEF Watch, Watched, TypeOK

\* What a spawn writes: the record moves to the new iteration, which resumes the old one or not.
Spawned(id) ==
  /\ pc.at = "spawn" /\ pc.task \in held /\ pc.task \in Tasks /\ pc.saw \in Record
  /\ child[id] = Unknown /\ pc.saw.anchor # id /\ \A t \in Tasks : task[t].anchor # id
  /\ \A k \in DOMAIN inbox : inbox[k].id # id
  /\ \A i \in Ids : i # id => child'[i] = child[i]
  /\ child'[id].is = "sent" /\ child'[id].of = pc.task /\ child'[id].job = pc.saw.prompt
  /\ ~child'[id].nested /\ ~child'[id].bad
  /\ \A t \in Tasks : t # pc.task => task'[t] = task[t]
  /\ task'[pc.task].anchor = id /\ task'[pc.task].prompt = task[pc.task].prompt
  /\ \/ /\ Resumes(pc.saw, pc.usable) /\ pc.saw.anchor # None
        /\ child'[id].resumed = child[pc.saw.anchor].job
        /\ child'[id].depth = child[pc.saw.anchor].depth + 1
        /\ task'[pc.task].iterations = pc.saw.iterations + 1
     \/ /\ child'[id].resumed = None /\ child'[id].depth = 1
        /\ task'[pc.task].iterations \in Nat /\ task'[pc.task].iterations >= 1
  /\ watcher'[id] = "waits" /\ \A i \in Ids : i # id => watcher'[i] = watcher[i]
  /\ inbox' = Append(inbox, [kind |-> "spawn", id |-> id, task |-> pc.task])
  /\ pc' = Idle
  /\ UNCHANGED held

LEMMA SpawnEffect == ASSUME TypeOK, ReadingKept, NEW id \in Ids, Spawn(id) PROVE Spawned(id)
<1>1. /\ pc.task \in held /\ pc.task \in Tasks /\ pc.saw \in Record
      /\ pc.usable \in BOOLEAN /\ task[pc.task] \in Record
  BY DEF Spawn, ReadingKept, Reading, TypeOK
<1>2. /\ child[id] = Unknown /\ pc.saw.anchor # id /\ \A t \in Tasks : task[t].anchor # id
      /\ \A k \in DOMAIN inbox : inbox[k].id # id
  BY DEF Spawn, Unused
<1>3. /\ \A t \in Tasks : t # pc.task => task'[t] = task[t]
      /\ task'[pc.task] = Advanced(task[pc.task], pc.saw, pc.usable, id)
  BY <1>1 DEF Spawn, TypeOK
<1>4. /\ task'[pc.task].anchor = id /\ task'[pc.task].prompt = task[pc.task].prompt
      /\ task'[pc.task].iterations =
           IF Resumes(pc.saw, pc.usable) THEN pc.saw.iterations + 1 ELSE 1
  BY <1>1, <1>3, AdvancedFacts
<1> DEFINE from == IF Resumes(pc.saw, pc.usable) THEN pc.saw.anchor ELSE None
           res == IF from = None THEN None ELSE child[from].job
           d == IF from = None THEN 1 ELSE child[from].depth + 1
<1>5. child' = [child EXCEPT ![id] =
                  [is |-> "sent", of |-> pc.task, job |-> pc.saw.prompt, resumed |-> res,
                   depth |-> d, nested |-> FALSE, bad |-> FALSE]]
  BY DEF Spawn
<1> HIDE DEF res, d
<1>6. /\ \A i \in Ids : i # id => child'[i] = child[i]
      /\ child'[id].is = "sent" /\ child'[id].of = pc.task /\ child'[id].job = pc.saw.prompt
      /\ ~child'[id].nested /\ ~child'[id].bad /\ child'[id].resumed = res /\ child'[id].depth = d
  BY <1>5 DEF TypeOK
<1>a. /\ watcher'[id] = "waits" /\ \A i \in Ids : i # id => watcher'[i] = watcher[i]
      /\ inbox' = Append(inbox, [kind |-> "spawn", id |-> id, task |-> pc.task])
      /\ pc' = Idle /\ pc.at = "spawn" /\ held' = held
  BY DEF Spawn, TypeOK
<1>7. CASE Resumes(pc.saw, pc.usable) /\ pc.saw.anchor # None
  BY <1>1, <1>2, <1>3, <1>4, <1>6, <1>7, <1>a DEF res, d, Spawned
<1>8. CASE ~(Resumes(pc.saw, pc.usable) /\ pc.saw.anchor # None)
  <2>1. res = None /\ d = 1
    BY <1>8 DEF res, d
  <2>2. task'[pc.task].iterations \in Nat /\ task'[pc.task].iterations >= 1
    BY <1>1, <1>4 DEF Record
  <2>3. QED
    BY <1>1, <1>2, <1>3, <1>4, <1>6, <1>a, <2>1, <2>2 DEF Spawned
<1>9. QED
  BY <1>7, <1>8

\* The record moves to an iteration that will never be.
Refused(id) ==
  /\ pc.at = "spawn" /\ pc.task \in held /\ pc.task \in Tasks /\ child[id] = Unknown
  /\ \A t \in Tasks : t # pc.task => task'[t] = task[t]
  /\ task'[pc.task].anchor = id /\ task'[pc.task].prompt = task[pc.task].prompt
  /\ task'[pc.task].iterations \in Nat
  /\ pc'.at = "restore" /\ pc'.task = pc.task /\ pc'.saw = pc.saw
  /\ ~up
  /\ UNCHANGED << held, inbox, child, watcher >>

LEMMA RefusedEffect == ASSUME TypeOK, ReadingKept, NEW id \in Ids, SpawnRefused(id) PROVE Refused(id)
<1>1. /\ pc.task \in held /\ pc.task \in Tasks /\ pc.saw \in Record
      /\ pc.usable \in BOOLEAN /\ task[pc.task] \in Record
  BY DEF SpawnRefused, ReadingKept, Reading, TypeOK
<1>2. /\ \A t \in Tasks : t # pc.task => task'[t] = task[t]
      /\ task'[pc.task] = Advanced(task[pc.task], pc.saw, pc.usable, id)
  BY <1>1 DEF SpawnRefused, TypeOK
<1>3. /\ task'[pc.task].anchor = id /\ task'[pc.task].prompt = task[pc.task].prompt
      /\ task'[pc.task].iterations =
           IF Resumes(pc.saw, pc.usable) THEN pc.saw.iterations + 1 ELSE 1
  BY <1>1, <1>2, AdvancedFacts
<1>4. task'[pc.task].iterations \in Nat
  BY <1>1, <1>3 DEF Record
<1>5. QED
  BY <1>1, <1>2, <1>3, <1>4 DEF SpawnRefused, Unused, TypeOK, Reading, Refused

\* An iteration is forgotten, or its descendants have ended.
Dropped(id) ==
  /\ child[id] # Unknown
  /\ \A i \in Ids : i # id => child'[i] = child[i]
  /\ \/ child'[id] = Unknown
     \/ /\ child'[id].of = child[id].of /\ child'[id].job = child[id].job
        /\ child'[id].resumed = child[id].resumed /\ child'[id].depth = child[id].depth
        /\ child'[id].bad = child[id].bad
        /\ \/ child'[id].is = child[id].is /\ ~child'[id].nested
           \/ child'[id].is = "unknown" /\ child'[id].nested /\ child[id].nested
  /\ child[id].is \in {"sent", "live"} =>
       child'[id] # Unknown /\ child'[id].is = child[id].is
  /\ UNCHANGED << held, task, pc, inbox, watcher >>

LEMMA NestedEndEffect == ASSUME TypeOK, NEW id \in Ids, NestedEnd(id) PROVE Dropped(id)
<1>1. CASE child[id].is = "unknown"
  BY <1>1, RecordFacts DEF NestedEnd, Dropped, TypeOK
<1>2. CASE child[id].is # "unknown"
  <2>1. child[id] \in Iteration /\ child'[id] = [child[id] EXCEPT !.nested = FALSE]
    BY <1>2 DEF NestedEnd, TypeOK
  <2>2. /\ child'[id].is = child[id].is /\ child'[id].of = child[id].of
        /\ child'[id].job = child[id].job /\ child'[id].resumed = child[id].resumed
        /\ child'[id].depth = child[id].depth /\ child'[id].bad = child[id].bad
        /\ ~child'[id].nested
    BY <2>1 DEF Iteration
  <2>3. child'[id] # Unknown
    BY <1>2, <2>2, RecordFacts
  <2>4. QED
    BY <2>2, <2>3, RecordFacts DEF NestedEnd, Dropped, TypeOK
<1>3. QED
  BY <1>1, <1>2

LEMMA ForgetEffect == ASSUME TypeOK, NEW id \in Ids, Forget(id) PROVE Dropped(id)
BY RecordFacts DEF Forget, Dropped, TypeOK, Iteration

\* A live iteration has a descendant.
Nested(id) ==
  /\ \A i \in Ids : i # id => child'[i] = child[i]
  /\ child'[id].is = "live" /\ child[id].is = "live" /\ child'[id].of = child[id].of
  /\ child'[id].job = child[id].job /\ child'[id].resumed = child[id].resumed
  /\ child'[id].depth = child[id].depth /\ child'[id].bad = child[id].bad
  /\ UNCHANGED << held, task, pc, inbox, watcher >>

LEMMA NestEffect == ASSUME TypeOK, NEW id \in Ids, Nest(id) PROVE Nested(id)
BY DEF Nest, Nested, TypeOK, Iteration

\* Nothing is left of the coordinator.
Gone ==
  /\ \A i \in Ids : child'[i] = Unknown /\ watcher'[i] \in {"none", watcher[i]}
  /\ DOMAIN inbox' = {} /\ inbox' = << >>
  /\ IF pc.at \in {"query", "unit"} THEN pc' = Idle ELSE pc' = pc
  /\ UNCHANGED << held, task >>

LEMMA GoneEffect == ASSUME CoordinatorGone PROVE Gone
BY DEF CoordinatorGone, Gone

\* A new task has no iterations.
Created(t, p) ==
  /\ pc.at = "idle" /\ t \notin held /\ task[t] = Blank /\ held' = held \union {t}
  /\ task'[t].prompt = p /\ task'[t].anchor = None
  /\ \A u \in Tasks : u # t => task'[u] = task[u]
  /\ UNCHANGED << pc, inbox, child, watcher >>

LEMMA CreateEffect ==
  ASSUME TypeOK, NEW t \in Tasks, NEW p \in Prompts, Create(t, p) PROVE Created(t, p)
<1>1. [Blank EXCEPT !.prompt = p].prompt = p /\ [Blank EXCEPT !.prompt = p].anchor = None
  BY DEF Blank
<1>2. QED
  BY <1>1, RecordFacts DEF Create, Created, Free, TypeOK

\* The anchor is kept; the counter is, unless the prompt is new.
Updated(t, p) ==
  /\ pc.at = "idle" /\ t \in held
  /\ task'[t].prompt = p /\ task'[t].anchor = task[t].anchor
  /\ ~task'[t].reset => /\ ~task[t].reset /\ p = task[t].prompt
                        /\ task'[t].iterations = task[t].iterations
  /\ \A u \in Tasks : u # t => task'[u] = task[u]
  /\ UNCHANGED << held, pc, inbox, child, watcher >>

LEMMA UpdateEffect ==
  ASSUME TypeOK, NEW t \in Tasks, NEW p \in Prompts, Update(t, p) PROVE Updated(t, p)
<1>1. /\ task[t] \in Record /\ task'[t] = Patched(task[t], p)
      /\ \A u \in Tasks : u # t => task'[u] = task[u]
  BY DEF Update, TypeOK
<1>2. /\ task'[t].prompt = p /\ task'[t].anchor = task[t].anchor
      /\ ~task'[t].reset => ~task[t].reset /\ p = task[t].prompt
      /\ p = task[t].prompt => task'[t].iterations = task[t].iterations
  BY <1>1, PatchedFacts
<1>3. QED
  BY <1>1, <1>2, RecordFacts DEF Update, Updated, Free

\* The actor has read the record of a task, and asks when there is something to ask.
Fired(t) ==
  /\ pc.at = "idle" /\ t \in held
  /\ \/ pc' = pc /\ inbox' = inbox
     \/ /\ pc'.task = t /\ pc'.saw = task[t]
        /\ \/ task[t].anchor = None /\ pc'.at = "spawn" /\ inbox' = inbox
           \/ /\ task[t].anchor \in Ids /\ pc'.at = "query"
              /\ inbox' = Append(inbox, [kind |-> "query", id |-> task[t].anchor, task |-> t])
  /\ UNCHANGED << held, task, child, watcher >>

LEMMA FireEffect == ASSUME TypeOK, NEW t \in Tasks, Fire(t) PROVE Fired(t)
<1>1. pc = Idle /\ pc.at = "idle" /\ t \in held /\ UNCHANGED << held, task, child, watcher >>
  BY RecordFacts DEF Fire, Free
<1>2. CASE task[t].anchor = None
  BY <1>1, <1>2 DEF Fire, Fired
<1>3. CASE task[t].anchor # None /\ up
  BY <1>1, <1>3 DEF Fire, Fired, Ask, TypeOK, Record
<1>4. CASE task[t].anchor # None /\ ~up
  BY <1>1, <1>4 DEF Fire, Fired, Skip
<1>5. QED
  BY <1>2, <1>3, <1>4

\* The answer about the previous iteration.
Answered(id) ==
  /\ pc.at = "query" /\ id = pc.saw.anchor /\ pc.task \in Tasks /\ pc.task \in held
  /\ inbox # << >> /\ Head(inbox).kind = "query"
  /\ \/ /\ pc' = Idle /\ inbox' = Tail(inbox)
     \/ /\ ~InFlight(id) /\ pc'.at = "unit" /\ pc'.task = pc.task /\ pc'.saw = pc.saw
        /\ inbox' = Append(Tail(inbox), [kind |-> "unit", id |-> id, task |-> pc.task])
  /\ UNCHANGED << held, task, child, watcher >>

LEMMA QueryEffect ==
  ASSUME TypeOK, InboxKept, ReadingKept, AnswerQuery PROVE \E id \in Ids : Answered(id)
<1>1. /\ inbox # << >> /\ Head(inbox).kind = "query" /\ Head(inbox) \in Message
      /\ Head(inbox) = inbox[1] /\ 1 \in DOMAIN inbox
  BY TailFacts DEF AnswerQuery, TypeOK
<1>2. pc.at = "query" /\ Head(inbox).id = pc.saw.anchor /\ Head(inbox).id \in Ids
  BY <1>1 DEF InboxKept, Message
<1>3. pc.task \in Tasks /\ pc.task \in held
  BY <1>2 DEF ReadingKept, TypeOK
<1>4. Answered(Head(inbox).id)
  <2>1. CASE StillRuns(Head(inbox).id)
    BY <1>1, <1>2, <1>3, <2>1 DEF AnswerQuery, Answered, Skip
  <2>2. CASE AfterQuery(Head(inbox).id) /\ ~StillRuns(Head(inbox).id)
    <3>1. pc'.at = "unit" /\ pc'.task = pc.task /\ pc'.saw = pc.saw
      BY <2>2 DEF AfterQuery, TypeOK, Reading
    <3>2. QED
      BY <1>1, <1>2, <1>3, <2>2, <3>1 DEF AnswerQuery, AfterQuery, Answered, StillRuns
  <2>3. QED
    BY <2>1, <2>2 DEF AnswerQuery
<1>5. QED
  BY <1>2, <1>4

\* The answer about the descendants.
UnitAnswered ==
  /\ pc.at = "unit" /\ pc.task \in Tasks /\ pc.task \in held
  /\ inbox # << >> /\ Head(inbox).kind = "unit" /\ inbox' = Tail(inbox)
  /\ \/ pc' = Idle
     \/ /\ ~UnitActive(pc.task) /\ pc'.at = "spawn" /\ pc'.task = pc.task /\ pc'.saw = pc.saw
  /\ UNCHANGED << held, task, child, watcher >>

LEMMA UnitEffect == ASSUME TypeOK, InboxKept, ReadingKept, AnswerUnit PROVE UnitAnswered
<1>1. /\ inbox # << >> /\ Head(inbox).kind = "unit" /\ Head(inbox) = inbox[1] /\ 1 \in DOMAIN inbox
  BY TailFacts DEF AnswerUnit, TypeOK
<1>2. pc.at = "unit"
  BY <1>1 DEF InboxKept
<1>3. pc.task \in Tasks /\ pc.task \in held
  BY <1>2 DEF ReadingKept, TypeOK
<1>4. QED
  BY <1>1, <1>2, <1>3 DEF AnswerUnit, UnitAnswered, Skip, TypeOK, Reading

-----------------------------------------------------------------------------
(***************************************************************************)
(* Tasks and watchers                                                      *)
(***************************************************************************)
LEMMA TasksStep == LoopsInv /\ TypeOK' /\ [Next]_vars => TasksKnown'
<1> SUFFICES ASSUME LoopsInv, TypeOK', [Next]_vars PROVE TasksKnown'
  OBVIOUS
<1>0. TypeOK /\ TasksKnown /\ ReadingKept /\ InboxKept /\ Fields
  BY FieldsFacts DEF LoopsInv
<1>1. ASSUME NEW t \in Tasks, NEW p \in Prompts, Create(t, p) PROVE TasksKnown'
  <2>1. Created(t, p)
    BY <1>0, <1>1, CreateEffect
  <2>2. QED
    BY <1>0, <2>1, RecordFacts DEF Created, TasksKnown, Fields
<1>2. ASSUME NEW t \in Tasks, NEW p \in Prompts, Update(t, p) PROVE TasksKnown'
  <2>1. Updated(t, p)
    BY <1>0, <1>2, UpdateEffect
  <2>2. QED
    BY <1>0, <2>1, RecordFacts DEF Updated, TasksKnown, Fields
<1>3. ASSUME NEW t \in Tasks, Delete(t) PROVE TasksKnown'
  BY <1>0, <1>3, RecordFacts DEF Delete, Free, TasksKnown, Fields
<1>4. ASSUME NEW t \in Tasks, Fire(t) PROVE TasksKnown'
  <2>1. Fired(t)
    BY <1>0, <1>4, FireEffect
  <2>2. QED
    BY <1>0, <2>1, RecordFacts DEF Fired, TasksKnown, Fields
<1>5. ASSUME AnswerQuery PROVE TasksKnown'
  <2>1. PICK id \in Ids : Answered(id)
    BY <1>0, <1>5, QueryEffect
  <2>2. QED
    BY <1>0, <2>1, RecordFacts DEF Answered, TasksKnown, Fields
<1>6. ASSUME AnswerUnit PROVE TasksKnown'
  <2>1. UnitAnswered
    BY <1>0, <1>6, UnitEffect
  <2>2. QED
    BY <1>0, <2>1, RecordFacts DEF UnitAnswered, TasksKnown, Fields
<1>7. ASSUME TimeOut PROVE TasksKnown'
  BY <1>0, <1>7, RecordFacts DEF TimeOut, Skip, TasksKnown, Fields
<1>8. ASSUME NEW id \in Ids, Spawn(id) PROVE TasksKnown'
  <2>1. Spawned(id)
    BY <1>0, <1>8, SpawnEffect
  <2>2. \A t \in Tasks : task'[t].prompt = task[t].prompt
    BY <2>1 DEF Spawned
  <2>3. ASSUME NEW i \in Ids, child'[i].of # None PROVE task'[child'[i].of].prompt # None
    <3>1. CASE i = id
      BY <1>0, <2>1, <2>2, <3>1 DEF Spawned, TasksKnown
    <3>2. CASE i # id
      BY <1>0, <2>1, <2>2, <2>3, <3>2 DEF Spawned, TasksKnown, Fields
    <3>3. QED
      BY <3>1, <3>2
  <2>4. QED
    BY <1>0, <2>1, <2>2, <2>3 DEF Spawned, TasksKnown, Fields
<1>9. ASSUME NEW id \in Ids, SpawnRefused(id) PROVE TasksKnown'
  <2>1. Refused(id)
    BY <1>0, <1>9, RefusedEffect
  <2>2. QED
    BY <1>0, <2>1, RecordFacts DEF Refused, TasksKnown, Fields
<1>10. ASSUME Restore PROVE TasksKnown'
  <2>1. IsRestored
    BY <1>0, <1>10, RestoreEffect
  <2>2. QED
    BY <1>0, <2>1, RecordFacts DEF IsRestored, TasksKnown, Fields
<1>11. ASSUME NEW id \in Ids, Watch(id) PROVE TasksKnown'
  <2>1. Watched(id)
    BY <1>0, <1>11, WatchEffect
  <2>2. QED
    BY <1>0, <2>1, RecordFacts DEF Watched, TasksKnown, Fields
<1>12. ASSUME NEW ok \in BOOLEAN, Admit(ok) PROVE TasksKnown'
  <2>1. PICK id \in Ids, w \in {"live", "failed"}, b \in BOOLEAN : Admitted(id, w, b)
    BY <1>0, <1>12, AdmitEffect
  <2>2. QED
    BY <1>0, <2>1, RecordFacts DEF Admitted, Marked, TasksKnown, Fields
<1>13. ASSUME NEW id \in Ids, NEW ok \in BOOLEAN, End(id, ok) PROVE TasksKnown'
  <2>1. PICK w \in {"done", "failed"}, b \in BOOLEAN : Finished(id, w, b)
    BY <1>0, <1>13, EndEffect
  <2>2. QED
    BY <1>0, <2>1, RecordFacts DEF Finished, Marked, TasksKnown, Fields
<1>14. ASSUME NEW id \in Ids, Nest(id) PROVE TasksKnown'
  <2>1. Nested(id)
    BY <1>0, <1>14, NestEffect
  <2>2. QED
    BY <1>0, <2>1, RecordFacts DEF Nested, TasksKnown, Fields
<1>15. ASSUME NEW id \in Ids, NestedEnd(id) PROVE TasksKnown'
  <2>1. Dropped(id)
    BY <1>0, <1>15, NestedEndEffect
  <2>2. QED
    BY <1>0, <2>1, RecordFacts DEF Dropped, TasksKnown, Fields
<1>16. ASSUME NEW id \in Ids, Forget(id) PROVE TasksKnown'
  <2>1. Dropped(id)
    BY <1>0, <1>16, ForgetEffect
  <2>2. QED
    BY <1>0, <2>1, RecordFacts DEF Dropped, TasksKnown, Fields
<1>17. ASSUME CoordinatorGone PROVE TasksKnown'
  <2>1. Gone
    BY <1>0, <1>17, GoneEffect
  <2>2. QED
    BY <1>0, <2>1, RecordFacts DEF Gone, TasksKnown, Fields
<1>18. ASSUME NEW t \in Tasks, Tick(t) PROVE TasksKnown'
  BY <1>0, <1>18, RecordFacts DEF Tick, TasksKnown, Fields
<1>19. CASE UNCHANGED vars
  BY <1>0, <1>19, RecordFacts DEF vars, TasksKnown, Fields
<1>20. QED
  BY <1>1, <1>2, <1>3, <1>4, <1>5, <1>6, <1>7, <1>8, <1>9, <1>10, <1>11, <1>12, <1>13, <1>14,
     <1>15, <1>16, <1>17, <1>18, <1>19
  DEF Next, Commands, Fires, Answers, Advances, Watches, Admits, Ends

LEMMA WatchersStep == LoopsInv /\ TypeOK' /\ [Next]_vars => WatchersKept'
<1> SUFFICES ASSUME LoopsInv, TypeOK', [Next]_vars PROVE WatchersKept'
  OBVIOUS
<1>0. TypeOK /\ WatchersKept /\ ReadingKept /\ InboxKept
  BY DEF LoopsInv
<1>1. ASSUME NEW t \in Tasks, NEW p \in Prompts, Create(t, p) PROVE WatchersKept'
  <2>1. Created(t, p)
    BY <1>0, <1>1, CreateEffect
  <2>2. QED
    BY <1>0, <2>1, RecordFacts DEF Created, WatchersKept, InFlight
<1>2. ASSUME NEW t \in Tasks, NEW p \in Prompts, Update(t, p) PROVE WatchersKept'
  <2>1. Updated(t, p)
    BY <1>0, <1>2, UpdateEffect
  <2>2. QED
    BY <1>0, <2>1, RecordFacts DEF Updated, WatchersKept, InFlight
<1>3. ASSUME NEW t \in Tasks, Delete(t) PROVE WatchersKept'
  BY <1>0, <1>3, RecordFacts DEF Delete, Free, WatchersKept, InFlight
<1>4. ASSUME NEW t \in Tasks, Fire(t) PROVE WatchersKept'
  <2>1. Fired(t)
    BY <1>0, <1>4, FireEffect
  <2>2. QED
    BY <1>0, <2>1, RecordFacts DEF Fired, WatchersKept, InFlight
<1>5. ASSUME AnswerQuery PROVE WatchersKept'
  <2>1. PICK id \in Ids : Answered(id)
    BY <1>0, <1>5, QueryEffect
  <2>2. QED
    BY <1>0, <2>1, RecordFacts DEF Answered, WatchersKept, InFlight
<1>6. ASSUME AnswerUnit PROVE WatchersKept'
  <2>1. UnitAnswered
    BY <1>0, <1>6, UnitEffect
  <2>2. QED
    BY <1>0, <2>1, RecordFacts DEF UnitAnswered, WatchersKept, InFlight
<1>7. ASSUME TimeOut PROVE WatchersKept'
  BY <1>0, <1>7, RecordFacts DEF TimeOut, Skip, WatchersKept, InFlight
<1>8. ASSUME NEW id \in Ids, Spawn(id) PROVE WatchersKept'
  <2>1. Spawned(id)
    BY <1>0, <1>8, SpawnEffect
  <2>2. QED
    BY <1>0, <2>1, RecordFacts DEF Spawned, WatchersKept, InFlight
<1>9. ASSUME NEW id \in Ids, SpawnRefused(id) PROVE WatchersKept'
  <2>1. Refused(id)
    BY <1>0, <1>9, RefusedEffect
  <2>2. QED
    BY <1>0, <2>1, RecordFacts DEF Refused, WatchersKept, InFlight
<1>10. ASSUME Restore PROVE WatchersKept'
  <2>1. IsRestored
    BY <1>0, <1>10, RestoreEffect
  <2>2. QED
    BY <1>0, <2>1, RecordFacts DEF IsRestored, WatchersKept, InFlight
<1>11. ASSUME NEW id \in Ids, Watch(id) PROVE WatchersKept'
  <2>1. Watched(id)
    BY <1>0, <1>11, WatchEffect
  <2>2. QED
    BY <1>0, <2>1, RecordFacts DEF Watched, WatchersKept, InFlight
<1>12. ASSUME NEW ok \in BOOLEAN, Admit(ok) PROVE WatchersKept'
  <2>1. PICK id \in Ids, w \in {"live", "failed"}, b \in BOOLEAN : Admitted(id, w, b)
    BY <1>0, <1>12, AdmitEffect
  <2>2. QED
    BY <1>0, <2>1, RecordFacts DEF Admitted, Marked, WatchersKept, InFlight
<1>13. ASSUME NEW id \in Ids, NEW ok \in BOOLEAN, End(id, ok) PROVE WatchersKept'
  <2>1. PICK w \in {"done", "failed"}, b \in BOOLEAN : Finished(id, w, b)
    BY <1>0, <1>13, EndEffect
  <2>2. QED
    BY <1>0, <2>1, RecordFacts DEF Finished, Marked, WatchersKept, InFlight
<1>14. ASSUME NEW id \in Ids, Nest(id) PROVE WatchersKept'
  <2>1. Nested(id)
    BY <1>0, <1>14, NestEffect
  <2>2. QED
    BY <1>0, <2>1, RecordFacts DEF Nested, WatchersKept, InFlight
<1>15. ASSUME NEW id \in Ids, NestedEnd(id) PROVE WatchersKept'
  <2>1. Dropped(id)
    BY <1>0, <1>15, NestedEndEffect
  <2>2. QED
    BY <1>0, <2>1, RecordFacts DEF Dropped, WatchersKept, InFlight
<1>16. ASSUME NEW id \in Ids, Forget(id) PROVE WatchersKept'
  <2>1. Dropped(id)
    BY <1>0, <1>16, ForgetEffect
  <2>2. QED
    BY <1>0, <2>1, RecordFacts DEF Dropped, WatchersKept, InFlight
<1>17. ASSUME CoordinatorGone PROVE WatchersKept'
  <2>1. Gone
    BY <1>0, <1>17, GoneEffect
  <2>2. QED
    BY <1>0, <2>1, RecordFacts DEF Gone, WatchersKept, InFlight
<1>18. ASSUME NEW t \in Tasks, Tick(t) PROVE WatchersKept'
  BY <1>0, <1>18, RecordFacts DEF Tick, WatchersKept, InFlight
<1>19. CASE UNCHANGED vars
  BY <1>0, <1>19, RecordFacts DEF vars, WatchersKept, InFlight
<1>20. QED
  BY <1>1, <1>2, <1>3, <1>4, <1>5, <1>6, <1>7, <1>8, <1>9, <1>10, <1>11, <1>12, <1>13, <1>14,
     <1>15, <1>16, <1>17, <1>18, <1>19
  DEF Next, Commands, Fires, Answers, Advances, Watches, Admits, Ends

-----------------------------------------------------------------------------
(***************************************************************************)
(* The channel                                                             *)
(***************************************************************************)
LEMMA InboxStep == LoopsInv /\ TypeOK' /\ [Next]_vars => InboxKept'
<1> SUFFICES ASSUME LoopsInv, TypeOK', [Next]_vars PROVE InboxKept'
  OBVIOUS
<1>0. TypeOK /\ InboxKept /\ ReadingKept /\ Fields
  BY FieldsFacts DEF LoopsInv
<1>a. inbox \in Seq(Message) /\ Len(inbox) \in Nat /\ DOMAIN inbox = 1..Len(inbox)
  BY <1>0 DEF TypeOK
<1>b. \A k \in DOMAIN inbox : inbox[k].id \in Ids /\ inbox[k].kind \in {"query", "unit", "spawn"}
  <2>1. \A k \in DOMAIN inbox : inbox[k] \in Message
    BY <1>a
  <2>2. QED
    BY <2>1 DEF Message
<1>c. pc.at \notin {"query", "unit"} => \A k \in DOMAIN inbox : inbox[k].kind = "spawn"
  BY <1>0, <1>b DEF InboxKept
<1>1. ASSUME NEW t \in Tasks, NEW p \in Prompts, Create(t, p) PROVE InboxKept'
  <2>1. Created(t, p)
    BY <1>0, <1>1, CreateEffect
  <2>2. QED
    BY <1>0, <2>1, RecordFacts, <1>a, <1>b, <1>c DEF Created, InboxKept, Fields
<1>2. ASSUME NEW t \in Tasks, NEW p \in Prompts, Update(t, p) PROVE InboxKept'
  <2>1. Updated(t, p)
    BY <1>0, <1>2, UpdateEffect
  <2>2. QED
    BY <1>0, <2>1, RecordFacts, <1>a, <1>b, <1>c DEF Updated, InboxKept, Fields
<1>3. ASSUME NEW t \in Tasks, Delete(t) PROVE InboxKept'
  BY <1>0, <1>3, RecordFacts, <1>a, <1>b, <1>c DEF Delete, Free, InboxKept, Fields
<1>4. ASSUME NEW t \in Tasks, Fire(t) PROVE InboxKept'
  <2>1. Fired(t)
    BY <1>0, <1>4, FireEffect
  <2>2. CASE inbox' = inbox
    BY <1>0, <1>c, <2>1, <2>2, RecordFacts DEF Fired, InboxKept
  <2>3. CASE inbox' # inbox
    <3> DEFINE e == [kind |-> "query", id |-> task[t].anchor, task |-> t]
    <3>1. /\ inbox' = Append(inbox, e) /\ task[t].anchor \in Ids
          /\ pc'.at = "query" /\ pc'.saw.anchor = task[t].anchor /\ child' = child
      BY <2>1, <2>3 DEF Fired
    <3>2. e \in Message /\ e.kind = "query" /\ e.id = task[t].anchor
      BY <3>1 DEF Message
    <3> HIDE DEF e
    <3>3. /\ Len(inbox') = Len(inbox) + 1 /\ inbox' # << >> /\ Last(inbox') = e
          /\ \A k \in DOMAIN inbox' : IF k = Len(inbox) + 1 THEN inbox'[k] = e
                                      ELSE k \in DOMAIN inbox /\ inbox'[k] = inbox[k]
      BY <1>a, <3>1, <3>2, AppendFacts
    <3>4. QED
      BY <1>0, <1>c, <2>1, <3>1, <3>2, <3>3 DEF Fired, InboxKept
  <2>4. QED
    BY <2>2, <2>3
<1>5. ASSUME AnswerQuery PROVE InboxKept'
  <2>1. PICK id \in Ids : Answered(id)
    BY <1>0, <1>5, QueryEffect
  <2>2. /\ Head(inbox) = inbox[1] /\ 1 \in DOMAIN inbox
        /\ Tail(inbox) \in Seq(Message) /\ Len(Tail(inbox)) = Len(inbox) - 1
    BY <1>a, <2>1, TailFacts DEF Answered
  <2>3. Len(inbox) = 1
    BY <1>0, <2>1, <2>2 DEF Answered, InboxKept
  <2>4. Tail(inbox) = << >>
    <3>0. Tail(inbox) \in Seq(Message) /\ Len(Tail(inbox)) = 0
      BY <2>2, <2>3
    <3>1. PICK q \in Seq(Message) : q = Tail(inbox) /\ Len(q) = 0
      BY ONLY <3>0, Zenon
    <3>2. q = << >>
      BY <3>1, EmptySeq
    <3>3. QED
      BY <3>1, <3>2
  <2>5. CASE pc' = Idle /\ inbox' = << >>
    BY <2>5, RecordFacts DEF InboxKept
  <2>6. CASE ~(pc' = Idle /\ inbox' = << >>)
    <3> DEFINE e == [kind |-> "unit", id |-> id, task |-> pc.task]
    <3>1. /\ inbox' = Append(<< >>, e) /\ pc'.at = "unit" /\ pc'.saw.anchor = id
      BY <2>1, <2>4, <2>6 DEF Answered
    <3>2. e.kind = "unit" /\ e.id = id
      OBVIOUS
    <3> HIDE DEF e
    <3>3. Len(inbox') = 1 /\ DOMAIN inbox' = {1} /\ inbox'[1] = e /\ inbox' # << >> /\ Last(inbox') = e
      BY <3>1 DEF Last
    <3>4. QED
      BY <3>1, <3>2, <3>3 DEF InboxKept
  <2>7. QED
    BY <2>5, <2>6
<1>6. ASSUME AnswerUnit PROVE InboxKept'
  <2>1. UnitAnswered
    BY <1>0, <1>6, UnitEffect
  <2>2. QED
    BY <1>0, <2>1, RecordFacts, <1>a, <1>b, <1>c, TailFacts DEF UnitAnswered, InboxKept, Fields
<1>7. ASSUME TimeOut PROVE InboxKept'
  <2>1. inbox # << >> /\ pc' = Idle /\ inbox' = Front(inbox) /\ child' = child
    BY <1>0, <1>7 DEF TimeOut, Skip, InboxKept
  <2>2. \A k \in DOMAIN inbox' : k \in DOMAIN inbox /\ k # Len(inbox) /\ inbox'[k] = inbox[k]
    BY <1>a, <2>1, FrontFacts
  <2>3. QED
    BY <1>0, <2>1, <2>2, RecordFacts DEF InboxKept
<1>8. ASSUME NEW id \in Ids, Spawn(id) PROVE InboxKept'
  <2>1. Spawned(id)
    BY <1>0, <1>8, SpawnEffect
  <2>2. QED
    BY <1>0, <2>1, RecordFacts, <1>a, <1>b, <1>c, AppendFacts DEF Spawned, InboxKept, Fields
<1>9. ASSUME NEW id \in Ids, SpawnRefused(id) PROVE InboxKept'
  <2>1. Refused(id)
    BY <1>0, <1>9, RefusedEffect
  <2>2. QED
    BY <1>0, <2>1, RecordFacts, <1>a, <1>b, <1>c DEF Refused, InboxKept, Fields
<1>10. ASSUME Restore PROVE InboxKept'
  <2>1. IsRestored
    BY <1>0, <1>10, RestoreEffect
  <2>2. QED
    BY <1>0, <2>1, RecordFacts, <1>a, <1>b, <1>c DEF IsRestored, InboxKept, Fields
<1>11. ASSUME NEW id \in Ids, Watch(id) PROVE InboxKept'
  <2>1. Watched(id)
    BY <1>0, <1>11, WatchEffect
  <2>2. QED
    BY <1>0, <2>1, RecordFacts, <1>a, <1>b, <1>c DEF Watched, InboxKept, Fields
<1>12. ASSUME NEW ok \in BOOLEAN, Admit(ok) PROVE InboxKept'
  <2>1. PICK id \in Ids, w \in {"live", "failed"}, b \in BOOLEAN : Admitted(id, w, b)
    BY <1>0, <1>12, AdmitEffect
  <2>2. /\ Len(inbox') = Len(inbox) - 1 /\ inbox' = Tail(inbox) /\ inbox[1].kind = "spawn"
        /\ 1 \in DOMAIN inbox /\ DOMAIN inbox' = 1..Len(inbox') /\ inbox[1].id = id
        /\ \A k \in DOMAIN inbox' : k + 1 \in DOMAIN inbox /\ inbox'[k] = inbox[k + 1]
        /\ inbox' # << >> => Last(inbox') = Last(inbox)
    BY <1>a, <2>1, TailFacts DEF Admitted
  <2>3. pc' = pc /\ \A i \in Ids : i # id => child'[i] = child[i]
    BY <2>1 DEF Admitted, Marked
  <2>4. ASSUME NEW k \in DOMAIN inbox'
        PROVE  IF inbox'[k].kind = "spawn" THEN child'[inbox'[k].id].is = "sent"
               ELSE k = Len(inbox') /\ inbox'[k].kind = pc.at /\ inbox'[k].id = pc.saw.anchor
    <3>1. k \in Nat /\ k # 0 /\ k + 1 # 1 /\ k + 1 \in DOMAIN inbox /\ inbox'[k] = inbox[k + 1]
      BY <1>a, <2>2
    <3>2. inbox[k + 1].id \in Ids /\ (inbox[k + 1].kind = "spawn" => inbox[k + 1].id # id)
      BY <1>0, <1>b, <2>2, <3>1 DEF InboxKept
    <3>3. IF inbox[k + 1].kind = "spawn" THEN child[inbox[k + 1].id].is = "sent"
          ELSE k + 1 = Len(inbox) /\ inbox[k + 1].kind = pc.at /\ inbox[k + 1].id = pc.saw.anchor
      BY <1>0, <3>1 DEF InboxKept
    <3>4. QED
      BY <1>a, <2>2, <2>3, <3>1, <3>2, <3>3
  <2>5. ASSUME NEW j \in DOMAIN inbox', NEW k \in DOMAIN inbox', inbox'[j].kind = "spawn",
               inbox'[k].kind = "spawn", inbox'[j].id = inbox'[k].id
        PROVE  j = k
    <3>1. j \in Nat /\ k \in Nat /\ j + 1 = k + 1
      BY <1>0, <1>a, <2>2, <2>5 DEF InboxKept
    <3>2. QED
      BY <3>1
  <2>6. ASSUME pc.at \in {"query", "unit"} PROVE inbox' # << >> /\ Last(inbox').kind = pc.at
    <3>1. Last(inbox).kind = pc.at
      BY <1>0, <2>6 DEF InboxKept
    <3>2. Len(inbox) # 1
      BY <2>2, <2>6, <3>1 DEF Last
    <3>3. inbox' # << >>
      <4>1. Len(<< >>) = 0 /\ Len(inbox') # 0
        BY <1>a, <2>2, <3>2
      <4>2. QED
        BY <4>1
    <3>4. QED
      BY <2>2, <3>1, <3>3
  <2>7. QED
    BY <2>3, <2>4, <2>5, <2>6 DEF InboxKept
<1>13. ASSUME NEW id \in Ids, NEW ok \in BOOLEAN, End(id, ok) PROVE InboxKept'
  <2>1. PICK w \in {"done", "failed"}, b \in BOOLEAN : Finished(id, w, b)
    BY <1>0, <1>13, EndEffect
  <2>2. QED
    BY <1>0, <2>1, RecordFacts, <1>a, <1>b, <1>c DEF Finished, Marked, InboxKept, Fields
<1>14. ASSUME NEW id \in Ids, Nest(id) PROVE InboxKept'
  <2>1. Nested(id)
    BY <1>0, <1>14, NestEffect
  <2>2. QED
    BY <1>0, <2>1, RecordFacts, <1>a, <1>b, <1>c DEF Nested, InboxKept, Fields
<1>15. ASSUME NEW id \in Ids, NestedEnd(id) PROVE InboxKept'
  <2>1. Dropped(id)
    BY <1>0, <1>15, NestedEndEffect
  <2>2. QED
    BY <1>0, <2>1, RecordFacts, <1>a, <1>b, <1>c DEF Dropped, InboxKept, Fields
<1>16. ASSUME NEW id \in Ids, Forget(id) PROVE InboxKept'
  <2>1. Dropped(id)
    BY <1>0, <1>16, ForgetEffect
  <2>2. QED
    BY <1>0, <2>1, RecordFacts, <1>a, <1>b, <1>c DEF Dropped, InboxKept, Fields
<1>17. ASSUME CoordinatorGone PROVE InboxKept'
  <2>1. Gone
    BY <1>0, <1>17, GoneEffect
  <2>2. QED
    BY <1>0, <2>1, RecordFacts, <1>a, <1>b, <1>c DEF Gone, InboxKept, Fields
<1>18. ASSUME NEW t \in Tasks, Tick(t) PROVE InboxKept'
  BY <1>0, <1>18, RecordFacts, <1>a, <1>b, <1>c DEF Tick, InboxKept, Fields
<1>19. CASE UNCHANGED vars
  BY <1>0, <1>19, RecordFacts, <1>a, <1>b, <1>c DEF vars, InboxKept, Fields
<1>20. QED
  BY <1>1, <1>2, <1>3, <1>4, <1>5, <1>6, <1>7, <1>8, <1>9, <1>10, <1>11, <1>12, <1>13, <1>14,
     <1>15, <1>16, <1>17, <1>18, <1>19
  DEF Next, Commands, Fires, Answers, Advances, Watches, Admits, Ends

-----------------------------------------------------------------------------
(***************************************************************************)
(* What the actor read                                                     *)
(***************************************************************************)
LEMMA ReadingStep == LoopsInv /\ TypeOK' /\ [Next]_vars => ReadingKept'
<1> SUFFICES ASSUME LoopsInv, TypeOK', [Next]_vars PROVE ReadingKept'
  OBVIOUS
<1>0. TypeOK /\ ReadingKept /\ InboxKept /\ Fields
  BY FieldsFacts DEF LoopsInv
<1>1. ASSUME NEW t \in Tasks, NEW p \in Prompts, Create(t, p) PROVE ReadingKept'
  <2>1. Created(t, p)
    BY <1>0, <1>1, CreateEffect
  <2>2. QED
    BY <1>0, <2>1, RecordFacts DEF Created, ReadingKept, Fields
<1>2. ASSUME NEW t \in Tasks, NEW p \in Prompts, Update(t, p) PROVE ReadingKept'
  <2>1. Updated(t, p)
    BY <1>0, <1>2, UpdateEffect
  <2>2. QED
    BY <1>0, <2>1, RecordFacts DEF Updated, ReadingKept, Fields
<1>3. ASSUME NEW t \in Tasks, Delete(t) PROVE ReadingKept'
  BY <1>0, <1>3, RecordFacts DEF Delete, Free, ReadingKept, Fields
<1>4. ASSUME NEW t \in Tasks, Fire(t) PROVE ReadingKept'
  <2>1. Fired(t)
    BY <1>0, <1>4, FireEffect
  <2>2. QED
    BY <1>0, <2>1, RecordFacts DEF Fired, ReadingKept, Fields
<1>5. ASSUME AnswerQuery PROVE ReadingKept'
  <2>1. PICK id \in Ids : Answered(id)
    BY <1>0, <1>5, QueryEffect
  <2>2. QED
    BY <1>0, <2>1, RecordFacts DEF Answered, ReadingKept, Fields
<1>6. ASSUME AnswerUnit PROVE ReadingKept'
  <2>1. UnitAnswered
    BY <1>0, <1>6, UnitEffect
  <2>2. QED
    BY <1>0, <2>1, RecordFacts DEF UnitAnswered, ReadingKept, Fields
<1>7. ASSUME TimeOut PROVE ReadingKept'
  BY <1>0, <1>7, RecordFacts DEF TimeOut, Skip, ReadingKept, Fields
<1>8. ASSUME NEW id \in Ids, Spawn(id) PROVE ReadingKept'
  <2>1. Spawned(id)
    BY <1>0, <1>8, SpawnEffect
  <2>2. QED
    BY <1>0, <2>1, RecordFacts DEF Spawned, ReadingKept, Fields
<1>9. ASSUME NEW id \in Ids, SpawnRefused(id) PROVE ReadingKept'
  <2>1. Refused(id)
    BY <1>0, <1>9, RefusedEffect
  <2>2. QED
    BY <1>0, <2>1, RecordFacts DEF Refused, ReadingKept, Fields
<1>10. ASSUME Restore PROVE ReadingKept'
  <2>1. IsRestored
    BY <1>0, <1>10, RestoreEffect
  <2>2. QED
    BY <1>0, <2>1, RecordFacts DEF IsRestored, ReadingKept, Fields
<1>11. ASSUME NEW id \in Ids, Watch(id) PROVE ReadingKept'
  <2>1. Watched(id)
    BY <1>0, <1>11, WatchEffect
  <2>2. QED
    BY <1>0, <2>1, RecordFacts DEF Watched, ReadingKept, Fields
<1>12. ASSUME NEW ok \in BOOLEAN, Admit(ok) PROVE ReadingKept'
  <2>1. PICK id \in Ids, w \in {"live", "failed"}, b \in BOOLEAN : Admitted(id, w, b)
    BY <1>0, <1>12, AdmitEffect
  <2>2. QED
    BY <1>0, <2>1, RecordFacts DEF Admitted, Marked, ReadingKept, Fields
<1>13. ASSUME NEW id \in Ids, NEW ok \in BOOLEAN, End(id, ok) PROVE ReadingKept'
  <2>1. PICK w \in {"done", "failed"}, b \in BOOLEAN : Finished(id, w, b)
    BY <1>0, <1>13, EndEffect
  <2>2. QED
    BY <1>0, <2>1, RecordFacts DEF Finished, Marked, ReadingKept, Fields
<1>14. ASSUME NEW id \in Ids, Nest(id) PROVE ReadingKept'
  <2>1. Nested(id)
    BY <1>0, <1>14, NestEffect
  <2>2. QED
    BY <1>0, <2>1, RecordFacts DEF Nested, ReadingKept, Fields
<1>15. ASSUME NEW id \in Ids, NestedEnd(id) PROVE ReadingKept'
  <2>1. Dropped(id)
    BY <1>0, <1>15, NestedEndEffect
  <2>2. QED
    BY <1>0, <2>1, RecordFacts DEF Dropped, ReadingKept, Fields
<1>16. ASSUME NEW id \in Ids, Forget(id) PROVE ReadingKept'
  <2>1. Dropped(id)
    BY <1>0, <1>16, ForgetEffect
  <2>2. QED
    BY <1>0, <2>1, RecordFacts DEF Dropped, ReadingKept, Fields
<1>17. ASSUME CoordinatorGone PROVE ReadingKept'
  <2>1. Gone
    BY <1>0, <1>17, GoneEffect
  <2>2. QED
    BY <1>0, <2>1, RecordFacts DEF Gone, ReadingKept, Fields
<1>18. ASSUME NEW t \in Tasks, Tick(t) PROVE ReadingKept'
  BY <1>0, <1>18, RecordFacts DEF Tick, ReadingKept, Fields
<1>19. CASE UNCHANGED vars
  BY <1>0, <1>19, RecordFacts DEF vars, ReadingKept, Fields
<1>20. QED
  BY <1>1, <1>2, <1>3, <1>4, <1>5, <1>6, <1>7, <1>8, <1>9, <1>10, <1>11, <1>12, <1>13, <1>14,
     <1>15, <1>16, <1>17, <1>18, <1>19
  DEF Next, Commands, Fires, Answers, Advances, Watches, Admits, Ends

-----------------------------------------------------------------------------
(***************************************************************************)
(* One iteration at a time                                                 *)
(***************************************************************************)
LEMMA GuardedStep == LoopsInv /\ TypeOK' /\ [Next]_vars => LoopGuarded'
<1> SUFFICES ASSUME LoopsInv, TypeOK', [Next]_vars PROVE LoopGuarded'
  OBVIOUS
<1>0. TypeOK /\ LoopGuarded /\ WatchersKept /\ AnswersHold /\ TasksKnown
      /\ ReadingKept /\ InboxKept /\ Fields
  BY FieldsFacts DEF LoopsInv
<1>1. ASSUME NEW t \in Tasks, NEW p \in Prompts, Create(t, p) PROVE LoopGuarded'
  <2>1. Created(t, p)
    BY <1>0, <1>1, CreateEffect
  <2>2. QED
    BY <1>0, <2>1, RecordFacts DEF Created, TasksKnown, LoopGuarded, OneIteration, InFlightIsAnchor, InFlight, Fields
<1>2. ASSUME NEW t \in Tasks, NEW p \in Prompts, Update(t, p) PROVE LoopGuarded'
  <2>1. Updated(t, p)
    BY <1>0, <1>2, UpdateEffect
  <2>2. QED
    BY <1>0, <2>1, RecordFacts DEF Updated, LoopGuarded, OneIteration, InFlightIsAnchor, InFlight, Fields
<1>3. ASSUME NEW t \in Tasks, Delete(t) PROVE LoopGuarded'
  BY <1>0, <1>3, RecordFacts DEF Delete, Free, LoopGuarded, OneIteration, InFlightIsAnchor, InFlight, Fields
<1>4. ASSUME NEW t \in Tasks, Fire(t) PROVE LoopGuarded'
  <2>1. Fired(t)
    BY <1>0, <1>4, FireEffect
  <2>2. QED
    BY <1>0, <2>1, RecordFacts DEF Fired, LoopGuarded, OneIteration, InFlightIsAnchor, InFlight, Fields
<1>5. ASSUME AnswerQuery PROVE LoopGuarded'
  <2>1. PICK id \in Ids : Answered(id)
    BY <1>0, <1>5, QueryEffect
  <2>2. QED
    BY <1>0, <2>1, RecordFacts DEF Answered, LoopGuarded, OneIteration, InFlightIsAnchor, InFlight, Fields
<1>6. ASSUME AnswerUnit PROVE LoopGuarded'
  <2>1. UnitAnswered
    BY <1>0, <1>6, UnitEffect
  <2>2. QED
    BY <1>0, <2>1, RecordFacts DEF UnitAnswered, LoopGuarded, OneIteration, InFlightIsAnchor, InFlight, Fields
<1>7. ASSUME TimeOut PROVE LoopGuarded'
  BY <1>0, <1>7, RecordFacts DEF TimeOut, Skip, LoopGuarded, OneIteration, InFlightIsAnchor, InFlight, Fields
<1>8. ASSUME NEW id \in Ids, Spawn(id) PROVE LoopGuarded'
  <2>1. Spawned(id)
    BY <1>0, <1>8, SpawnEffect
  <2>2. \A i \in Ids : child[i].of = pc.task => ~InFlight(i)
    BY <1>0, <2>1 DEF Spawned, AnswersHold
  <2>3. OneIteration'
    BY <1>0, <2>1, <2>2 DEF Spawned, LoopGuarded, OneIteration, InFlight
  <2>4. InFlightIsAnchor'
    BY <1>0, <2>1, <2>2 DEF Spawned, LoopGuarded, InFlightIsAnchor, InFlight, Fields
  <2>5. QED
    BY <2>3, <2>4 DEF LoopGuarded
<1>9. ASSUME NEW id \in Ids, SpawnRefused(id) PROVE LoopGuarded'
  <2>1. Refused(id)
    BY <1>0, <1>9, RefusedEffect
  <2>2. QED
    BY <1>0, <2>1, RecordFacts DEF Refused, AnswersHold, LoopGuarded, OneIteration, InFlightIsAnchor, InFlight, Fields
<1>10. ASSUME Restore PROVE LoopGuarded'
  <2>1. IsRestored
    BY <1>0, <1>10, RestoreEffect
  <2>2. QED
    BY <1>0, <2>1, RecordFacts DEF IsRestored, AnswersHold, LoopGuarded, OneIteration, InFlightIsAnchor, InFlight, Fields
<1>11. ASSUME NEW id \in Ids, Watch(id) PROVE LoopGuarded'
  <2>1. Watched(id)
    BY <1>0, <1>11, WatchEffect
  <2>2. QED
    BY <1>0, <2>1, RecordFacts DEF Watched, WatchersKept, LoopGuarded, OneIteration, InFlightIsAnchor, InFlight, Fields
<1>12. ASSUME NEW ok \in BOOLEAN, Admit(ok) PROVE LoopGuarded'
  <2>1. PICK id \in Ids, w \in {"live", "failed"}, b \in BOOLEAN : Admitted(id, w, b)
    BY <1>0, <1>12, AdmitEffect
  <2>2. QED
    BY <1>0, <2>1, RecordFacts DEF Admitted, Marked, LoopGuarded, OneIteration, InFlightIsAnchor, InFlight, Fields
<1>13. ASSUME NEW id \in Ids, NEW ok \in BOOLEAN, End(id, ok) PROVE LoopGuarded'
  <2>1. PICK w \in {"done", "failed"}, b \in BOOLEAN : Finished(id, w, b)
    BY <1>0, <1>13, EndEffect
  <2>2. QED
    BY <1>0, <2>1, RecordFacts DEF Finished, Marked, LoopGuarded, OneIteration, InFlightIsAnchor, InFlight, Fields
<1>14. ASSUME NEW id \in Ids, Nest(id) PROVE LoopGuarded'
  <2>1. Nested(id)
    BY <1>0, <1>14, NestEffect
  <2>2. QED
    BY <1>0, <2>1, RecordFacts DEF Nested, LoopGuarded, OneIteration, InFlightIsAnchor, InFlight, Fields
<1>15. ASSUME NEW id \in Ids, NestedEnd(id) PROVE LoopGuarded'
  <2>1. Dropped(id)
    BY <1>0, <1>15, NestedEndEffect
  <2>2. QED
    BY <1>0, <2>1, RecordFacts DEF Dropped, LoopGuarded, OneIteration, InFlightIsAnchor, InFlight, Fields
<1>16. ASSUME NEW id \in Ids, Forget(id) PROVE LoopGuarded'
  <2>1. Dropped(id)
    BY <1>0, <1>16, ForgetEffect
  <2>2. QED
    BY <1>0, <2>1, RecordFacts DEF Dropped, LoopGuarded, OneIteration, InFlightIsAnchor, InFlight, Fields
<1>17. ASSUME CoordinatorGone PROVE LoopGuarded'
  <2>1. Gone
    BY <1>0, <1>17, GoneEffect
  <2>2. QED
    BY <1>0, <2>1, RecordFacts DEF Gone, LoopGuarded, OneIteration, InFlightIsAnchor, InFlight, Fields
<1>18. ASSUME NEW t \in Tasks, Tick(t) PROVE LoopGuarded'
  BY <1>0, <1>18, RecordFacts DEF Tick, LoopGuarded, OneIteration, InFlightIsAnchor, InFlight, Fields
<1>19. CASE UNCHANGED vars
  BY <1>0, <1>19, RecordFacts DEF vars, LoopGuarded, OneIteration, InFlightIsAnchor, InFlight, Fields
<1>20. QED
  BY <1>1, <1>2, <1>3, <1>4, <1>5, <1>6, <1>7, <1>8, <1>9, <1>10, <1>11, <1>12, <1>13, <1>14,
     <1>15, <1>16, <1>17, <1>18, <1>19
  DEF Next, Commands, Fires, Answers, Advances, Watches, Admits, Ends

LEMMA AnswersStep == LoopsInv /\ TypeOK' /\ [Next]_vars => AnswersHold'
<1> SUFFICES ASSUME LoopsInv, TypeOK', [Next]_vars PROVE AnswersHold'
  OBVIOUS
<1>0. TypeOK /\ AnswersHold /\ LoopGuarded /\ OthersFailed /\ WatchersKept /\ ReadingKept /\ InboxKept /\ Fields
  BY FieldsFacts DEF LoopsInv
<1>1. ASSUME NEW t \in Tasks, NEW p \in Prompts, Create(t, p) PROVE AnswersHold'
  <2>1. Created(t, p)
    BY <1>0, <1>1, CreateEffect
  <2>2. QED
    BY <1>0, <2>1, RecordFacts DEF Created, AnswersHold, Members, InFlight, Fields
<1>2. ASSUME NEW t \in Tasks, NEW p \in Prompts, Update(t, p) PROVE AnswersHold'
  <2>1. Updated(t, p)
    BY <1>0, <1>2, UpdateEffect
  <2>2. QED
    BY <1>0, <2>1, RecordFacts DEF Updated, AnswersHold, Members, InFlight, Fields
<1>3. ASSUME NEW t \in Tasks, Delete(t) PROVE AnswersHold'
  BY <1>0, <1>3, RecordFacts DEF Delete, Free, AnswersHold, Members, InFlight, Fields
<1>4. ASSUME NEW t \in Tasks, Fire(t) PROVE AnswersHold'
  <2>1. Fired(t)
    BY <1>0, <1>4, FireEffect
  <2>2. QED
    BY <1>0, <2>1, RecordFacts DEF Fired, LoopGuarded, InFlightIsAnchor, OthersFailed, AnswersHold, Members, InFlight, Fields
<1>5. ASSUME AnswerQuery PROVE AnswersHold'
  <2>1. PICK id \in Ids : Answered(id)
    BY <1>0, <1>5, QueryEffect
  <2>2. QED
    BY <1>0, <2>1, RecordFacts DEF Answered, LoopGuarded, InFlightIsAnchor, ReadingKept, AnswersHold, Members, InFlight, Fields
<1>6. ASSUME AnswerUnit PROVE AnswersHold'
  <2>1. UnitAnswered
    BY <1>0, <1>6, UnitEffect
  <2>2. QED
    BY <1>0, <2>1, RecordFacts DEF UnitAnswered, UnitActive, AnswersHold, Members, InFlight, Fields
<1>7. ASSUME TimeOut PROVE AnswersHold'
  BY <1>0, <1>7, RecordFacts DEF TimeOut, Skip, AnswersHold, Members, InFlight, Fields
<1>8. ASSUME NEW id \in Ids, Spawn(id) PROVE AnswersHold'
  <2>1. Spawned(id)
    BY <1>0, <1>8, SpawnEffect
  <2>2. QED
    BY <1>0, <2>1, RecordFacts DEF Spawned, AnswersHold, Members, InFlight, Fields
<1>9. ASSUME NEW id \in Ids, SpawnRefused(id) PROVE AnswersHold'
  <2>1. Refused(id)
    BY <1>0, <1>9, RefusedEffect
  <2>2. QED
    BY <1>0, <2>1, RecordFacts DEF Refused, AnswersHold, Members, InFlight, Fields
<1>10. ASSUME Restore PROVE AnswersHold'
  <2>1. IsRestored
    BY <1>0, <1>10, RestoreEffect
  <2>2. QED
    BY <1>0, <2>1, RecordFacts DEF IsRestored, AnswersHold, Members, InFlight, Fields
<1>11. ASSUME NEW id \in Ids, Watch(id) PROVE AnswersHold'
  <2>1. Watched(id)
    BY <1>0, <1>11, WatchEffect
  <2>2. QED
    BY <1>0, <2>1, RecordFacts DEF Watched, AnswersHold, Members, InFlight, Fields
<1>12. ASSUME NEW ok \in BOOLEAN, Admit(ok) PROVE AnswersHold'
  <2>1. PICK id \in Ids, w \in {"live", "failed"}, b \in BOOLEAN : Admitted(id, w, b)
    BY <1>0, <1>12, AdmitEffect
  <2>2. QED
    BY <1>0, <2>1, RecordFacts DEF Admitted, Marked, AnswersHold, Members, InFlight, Fields
<1>13. ASSUME NEW id \in Ids, NEW ok \in BOOLEAN, End(id, ok) PROVE AnswersHold'
  <2>1. PICK w \in {"done", "failed"}, b \in BOOLEAN : Finished(id, w, b)
    BY <1>0, <1>13, EndEffect
  <2>2. QED
    BY <1>0, <2>1, RecordFacts DEF Finished, Marked, AnswersHold, Members, InFlight, Fields
<1>14. ASSUME NEW id \in Ids, Nest(id) PROVE AnswersHold'
  <2>1. Nested(id)
    BY <1>0, <1>14, NestEffect
  <2>2. QED
    BY <1>0, <2>1, RecordFacts DEF Nested, AnswersHold, Members, InFlight, Fields
<1>15. ASSUME NEW id \in Ids, NestedEnd(id) PROVE AnswersHold'
  <2>1. Dropped(id)
    BY <1>0, <1>15, NestedEndEffect
  <2>2. QED
    BY <1>0, <2>1, RecordFacts DEF Dropped, AnswersHold, Members, InFlight, Fields
<1>16. ASSUME NEW id \in Ids, Forget(id) PROVE AnswersHold'
  <2>1. Dropped(id)
    BY <1>0, <1>16, ForgetEffect
  <2>2. QED
    BY <1>0, <2>1, RecordFacts DEF Dropped, AnswersHold, Members, InFlight, Fields
<1>17. ASSUME CoordinatorGone PROVE AnswersHold'
  <2>1. Gone
    BY <1>0, <1>17, GoneEffect
  <2>2. QED
    BY <1>0, <2>1, RecordFacts DEF Gone, AnswersHold, Members, InFlight, Fields
<1>18. ASSUME NEW t \in Tasks, Tick(t) PROVE AnswersHold'
  BY <1>0, <1>18, RecordFacts DEF Tick, AnswersHold, Members, InFlight, Fields
<1>19. CASE UNCHANGED vars
  BY <1>0, <1>19, RecordFacts DEF vars, AnswersHold, Members, InFlight, Fields
<1>20. QED
  BY <1>1, <1>2, <1>3, <1>4, <1>5, <1>6, <1>7, <1>8, <1>9, <1>10, <1>11, <1>12, <1>13, <1>14,
     <1>15, <1>16, <1>17, <1>18, <1>19
  DEF Next, Commands, Fires, Answers, Advances, Watches, Admits, Ends

-----------------------------------------------------------------------------
(***************************************************************************)
(* Chains                                                                  *)
(***************************************************************************)
LEMMA ChainsStep == LoopsInv /\ TypeOK' /\ [Next]_vars => ChainsKept'
<1> SUFFICES ASSUME LoopsInv, TypeOK', [Next]_vars PROVE ChainsKept'
  OBVIOUS
<1>0. TypeOK /\ ChainsKept /\ ReadingKept /\ InboxKept /\ Fields
  BY FieldsFacts DEF LoopsInv
<1>1. ASSUME NEW t \in Tasks, NEW p \in Prompts, Create(t, p) PROVE ChainsKept'
  <2>1. Created(t, p)
    BY <1>0, <1>1, CreateEffect
  <2>2. QED
    BY <1>0, <2>1, RecordFacts DEF Created, ChainsKept, Chained, Fields
<1>2. ASSUME NEW t \in Tasks, NEW p \in Prompts, Update(t, p) PROVE ChainsKept'
  <2>1. Updated(t, p)
    BY <1>0, <1>2, UpdateEffect
  <2>2. QED
    BY <1>0, <2>1, RecordFacts DEF Updated, ChainsKept, Chained, Fields
<1>3. ASSUME NEW t \in Tasks, Delete(t) PROVE ChainsKept'
  BY <1>0, <1>3, RecordFacts DEF Delete, Free, ChainsKept, Chained, Fields
<1>4. ASSUME NEW t \in Tasks, Fire(t) PROVE ChainsKept'
  <2>1. Fired(t)
    BY <1>0, <1>4, FireEffect
  <2>2. QED
    BY <1>0, <2>1, RecordFacts DEF Fired, ChainsKept, Chained, Fields
<1>5. ASSUME AnswerQuery PROVE ChainsKept'
  <2>1. PICK id \in Ids : Answered(id)
    BY <1>0, <1>5, QueryEffect
  <2>2. QED
    BY <1>0, <2>1, RecordFacts DEF Answered, ChainsKept, Chained, Fields
<1>6. ASSUME AnswerUnit PROVE ChainsKept'
  <2>1. UnitAnswered
    BY <1>0, <1>6, UnitEffect
  <2>2. QED
    BY <1>0, <2>1, RecordFacts DEF UnitAnswered, ChainsKept, Chained, Fields
<1>7. ASSUME TimeOut PROVE ChainsKept'
  BY <1>0, <1>7, RecordFacts DEF TimeOut, Skip, ChainsKept, Chained, Fields
<1>8. ASSUME NEW id \in Ids, Spawn(id) PROVE ChainsKept'
  <2>1. Spawned(id)
    BY <1>0, <1>8, SpawnEffect
  <2>2. pc.saw.prompt = task[pc.task].prompt
    BY <1>0, <2>1 DEF Spawned, ReadingKept
  <2>3. child'[id].depth <= task'[pc.task].iterations
    BY <1>0, <2>1, <2>2 DEF Spawned, Resumes, ChainsKept, Chained, Fields
  <2>4. ASSUME NEW t \in held, task'[t].anchor # None, ~task'[t].reset
        PROVE  /\ child'[task'[t].anchor].job \in {None, task'[t].prompt}
               /\ child'[task'[t].anchor].depth <= task'[t].iterations
    <3>1. CASE t = pc.task
      BY <2>1, <2>2, <2>3, <3>1 DEF Spawned
    <3>2. CASE t # pc.task
      BY <1>0, <2>1, <2>4, <3>2 DEF Spawned, ChainsKept, Chained, Fields
    <3>3. QED
      BY <3>1, <3>2
  <2>5. QED
    BY <2>1, <2>4, RecordFacts DEF Spawned, ChainsKept, Chained
<1>9. ASSUME NEW id \in Ids, SpawnRefused(id) PROVE ChainsKept'
  <2>1. Refused(id)
    BY <1>0, <1>9, RefusedEffect
  <2>2. QED
    BY <1>0, <2>1, RecordFacts DEF Refused, ChainsKept, Chained, Fields
<1>10. ASSUME Restore PROVE ChainsKept'
  <2>1. IsRestored
    BY <1>0, <1>10, RestoreEffect
  <2>2. QED
    BY <1>0, <2>1, RecordFacts DEF IsRestored, ChainsKept, Chained, Fields
<1>11. ASSUME NEW id \in Ids, Watch(id) PROVE ChainsKept'
  <2>1. Watched(id)
    BY <1>0, <1>11, WatchEffect
  <2>2. QED
    BY <1>0, <2>1, RecordFacts DEF Watched, ChainsKept, Chained, Fields
<1>12. ASSUME NEW ok \in BOOLEAN, Admit(ok) PROVE ChainsKept'
  <2>1. PICK id \in Ids, w \in {"live", "failed"}, b \in BOOLEAN : Admitted(id, w, b)
    BY <1>0, <1>12, AdmitEffect
  <2>2. QED
    BY <1>0, <2>1, RecordFacts DEF Admitted, Marked, ChainsKept, Chained, Fields
<1>13. ASSUME NEW id \in Ids, NEW ok \in BOOLEAN, End(id, ok) PROVE ChainsKept'
  <2>1. PICK w \in {"done", "failed"}, b \in BOOLEAN : Finished(id, w, b)
    BY <1>0, <1>13, EndEffect
  <2>2. QED
    BY <1>0, <2>1, RecordFacts DEF Finished, Marked, ChainsKept, Chained, Fields
<1>14. ASSUME NEW id \in Ids, Nest(id) PROVE ChainsKept'
  <2>1. Nested(id)
    BY <1>0, <1>14, NestEffect
  <2>2. QED
    BY <1>0, <2>1, RecordFacts DEF Nested, ChainsKept, Chained, Fields
<1>15. ASSUME NEW id \in Ids, NestedEnd(id) PROVE ChainsKept'
  <2>1. Dropped(id)
    BY <1>0, <1>15, NestedEndEffect
  <2>2. QED
    BY <1>0, <2>1, RecordFacts DEF Dropped, ChainsKept, Chained, Fields
<1>16. ASSUME NEW id \in Ids, Forget(id) PROVE ChainsKept'
  <2>1. Dropped(id)
    BY <1>0, <1>16, ForgetEffect
  <2>2. QED
    BY <1>0, <2>1, RecordFacts DEF Dropped, ChainsKept, Chained, Fields
<1>17. ASSUME CoordinatorGone PROVE ChainsKept'
  <2>1. Gone
    BY <1>0, <1>17, GoneEffect
  <2>2. QED
    BY <1>0, <2>1, RecordFacts DEF Gone, ChainsKept, Chained, Fields
<1>18. ASSUME NEW t \in Tasks, Tick(t) PROVE ChainsKept'
  BY <1>0, <1>18, RecordFacts DEF Tick, ChainsKept, Chained, Fields
<1>19. CASE UNCHANGED vars
  BY <1>0, <1>19, RecordFacts DEF vars, ChainsKept, Chained, Fields
<1>20. QED
  BY <1>1, <1>2, <1>3, <1>4, <1>5, <1>6, <1>7, <1>8, <1>9, <1>10, <1>11, <1>12, <1>13, <1>14,
     <1>15, <1>16, <1>17, <1>18, <1>19
  DEF Next, Commands, Fires, Answers, Advances, Watches, Admits, Ends

LEMMA JobStep == LoopsInv /\ TypeOK' /\ [Next]_vars => ChainOfOneJob'
<1> SUFFICES ASSUME LoopsInv, TypeOK', [Next]_vars PROVE ChainOfOneJob'
  OBVIOUS
<1>0. TypeOK /\ ChainsKept /\ ChainOfOneJob /\ ReadingKept /\ InboxKept /\ Fields
  BY FieldsFacts DEF LoopsInv
<1>1. ASSUME NEW t \in Tasks, NEW p \in Prompts, Create(t, p) PROVE ChainOfOneJob'
  <2>1. Created(t, p)
    BY <1>0, <1>1, CreateEffect
  <2>2. QED
    BY <1>0, <2>1, RecordFacts DEF Created, ChainOfOneJob, ResumesOwnJob, ChainBounded, Fields
<1>2. ASSUME NEW t \in Tasks, NEW p \in Prompts, Update(t, p) PROVE ChainOfOneJob'
  <2>1. Updated(t, p)
    BY <1>0, <1>2, UpdateEffect
  <2>2. QED
    BY <1>0, <2>1, RecordFacts DEF Updated, ChainOfOneJob, ResumesOwnJob, ChainBounded, Fields
<1>3. ASSUME NEW t \in Tasks, Delete(t) PROVE ChainOfOneJob'
  BY <1>0, <1>3, RecordFacts DEF Delete, Free, ChainOfOneJob, ResumesOwnJob, ChainBounded, Fields
<1>4. ASSUME NEW t \in Tasks, Fire(t) PROVE ChainOfOneJob'
  <2>1. Fired(t)
    BY <1>0, <1>4, FireEffect
  <2>2. QED
    BY <1>0, <2>1, RecordFacts DEF Fired, ChainOfOneJob, ResumesOwnJob, ChainBounded, Fields
<1>5. ASSUME AnswerQuery PROVE ChainOfOneJob'
  <2>1. PICK id \in Ids : Answered(id)
    BY <1>0, <1>5, QueryEffect
  <2>2. QED
    BY <1>0, <2>1, RecordFacts DEF Answered, ChainOfOneJob, ResumesOwnJob, ChainBounded, Fields
<1>6. ASSUME AnswerUnit PROVE ChainOfOneJob'
  <2>1. UnitAnswered
    BY <1>0, <1>6, UnitEffect
  <2>2. QED
    BY <1>0, <2>1, RecordFacts DEF UnitAnswered, ChainOfOneJob, ResumesOwnJob, ChainBounded, Fields
<1>7. ASSUME TimeOut PROVE ChainOfOneJob'
  BY <1>0, <1>7, RecordFacts DEF TimeOut, Skip, ChainOfOneJob, ResumesOwnJob, ChainBounded, Fields
<1>8. ASSUME NEW id \in Ids, Spawn(id) PROVE ChainOfOneJob'
  <2>1. Spawned(id)
    BY <1>0, <1>8, SpawnEffect
  <2>2. child'[id].resumed \in {None, child'[id].job} /\ child'[id].depth <= FreshEvery
    BY <1>0, <2>1 DEF Spawned, Resumes, ChainsKept, Chained, Fields
  <2>3. QED
    BY <1>0, <2>1, <2>2 DEF Spawned, ChainOfOneJob, ResumesOwnJob, ChainBounded
<1>9. ASSUME NEW id \in Ids, SpawnRefused(id) PROVE ChainOfOneJob'
  <2>1. Refused(id)
    BY <1>0, <1>9, RefusedEffect
  <2>2. QED
    BY <1>0, <2>1, RecordFacts DEF Refused, ChainOfOneJob, ResumesOwnJob, ChainBounded, Fields
<1>10. ASSUME Restore PROVE ChainOfOneJob'
  <2>1. IsRestored
    BY <1>0, <1>10, RestoreEffect
  <2>2. QED
    BY <1>0, <2>1, RecordFacts DEF IsRestored, ChainOfOneJob, ResumesOwnJob, ChainBounded, Fields
<1>11. ASSUME NEW id \in Ids, Watch(id) PROVE ChainOfOneJob'
  <2>1. Watched(id)
    BY <1>0, <1>11, WatchEffect
  <2>2. QED
    BY <1>0, <2>1, RecordFacts DEF Watched, ChainOfOneJob, ResumesOwnJob, ChainBounded, Fields
<1>12. ASSUME NEW ok \in BOOLEAN, Admit(ok) PROVE ChainOfOneJob'
  <2>1. PICK id \in Ids, w \in {"live", "failed"}, b \in BOOLEAN : Admitted(id, w, b)
    BY <1>0, <1>12, AdmitEffect
  <2>2. QED
    BY <1>0, <2>1, RecordFacts DEF Admitted, Marked, ChainOfOneJob, ResumesOwnJob, ChainBounded, Fields
<1>13. ASSUME NEW id \in Ids, NEW ok \in BOOLEAN, End(id, ok) PROVE ChainOfOneJob'
  <2>1. PICK w \in {"done", "failed"}, b \in BOOLEAN : Finished(id, w, b)
    BY <1>0, <1>13, EndEffect
  <2>2. QED
    BY <1>0, <2>1, RecordFacts DEF Finished, Marked, ChainOfOneJob, ResumesOwnJob, ChainBounded, Fields
<1>14. ASSUME NEW id \in Ids, Nest(id) PROVE ChainOfOneJob'
  <2>1. Nested(id)
    BY <1>0, <1>14, NestEffect
  <2>2. QED
    BY <1>0, <2>1, RecordFacts DEF Nested, ChainOfOneJob, ResumesOwnJob, ChainBounded, Fields
<1>15. ASSUME NEW id \in Ids, NestedEnd(id) PROVE ChainOfOneJob'
  <2>1. Dropped(id)
    BY <1>0, <1>15, NestedEndEffect
  <2>2. QED
    BY <1>0, <2>1, RecordFacts DEF Dropped, ChainOfOneJob, ResumesOwnJob, ChainBounded, Fields
<1>16. ASSUME NEW id \in Ids, Forget(id) PROVE ChainOfOneJob'
  <2>1. Dropped(id)
    BY <1>0, <1>16, ForgetEffect
  <2>2. QED
    BY <1>0, <2>1, RecordFacts DEF Dropped, ChainOfOneJob, ResumesOwnJob, ChainBounded, Fields
<1>17. ASSUME CoordinatorGone PROVE ChainOfOneJob'
  <2>1. Gone
    BY <1>0, <1>17, GoneEffect
  <2>2. QED
    BY <1>0, <2>1, RecordFacts DEF Gone, ChainOfOneJob, ResumesOwnJob, ChainBounded, Fields
<1>18. ASSUME NEW t \in Tasks, Tick(t) PROVE ChainOfOneJob'
  BY <1>0, <1>18, RecordFacts DEF Tick, ChainOfOneJob, ResumesOwnJob, ChainBounded, Fields
<1>19. CASE UNCHANGED vars
  BY <1>0, <1>19, RecordFacts DEF vars, ChainOfOneJob, ResumesOwnJob, ChainBounded, Fields
<1>20. QED
  BY <1>1, <1>2, <1>3, <1>4, <1>5, <1>6, <1>7, <1>8, <1>9, <1>10, <1>11, <1>12, <1>13, <1>14,
     <1>15, <1>16, <1>17, <1>18, <1>19
  DEF Next, Commands, Fires, Answers, Advances, Watches, Admits, Ends

-----------------------------------------------------------------------------
(***************************************************************************)
(* Descendants                                                             *)
(***************************************************************************)
LEMMA OthersStep == LoopsInv /\ TypeOK' /\ [Next]_vars => OthersFailed'
<1> SUFFICES ASSUME LoopsInv, TypeOK', [Next]_vars PROVE OthersFailed'
  OBVIOUS
<1>0. TypeOK /\ OthersFailed /\ AnswersHold /\ WatchersKept /\ TasksKnown /\ ReadingKept /\ InboxKept /\ Fields
  BY FieldsFacts DEF LoopsInv
<1>1. ASSUME NEW t \in Tasks, NEW p \in Prompts, Create(t, p) PROVE OthersFailed'
  <2>1. Created(t, p)
    BY <1>0, <1>1, CreateEffect
  <2>2. QED
    BY <1>0, <2>1, RecordFacts DEF Created, TasksKnown, OthersFailed, Members, InFlight, Fields
<1>2. ASSUME NEW t \in Tasks, NEW p \in Prompts, Update(t, p) PROVE OthersFailed'
  <2>1. Updated(t, p)
    BY <1>0, <1>2, UpdateEffect
  <2>2. QED
    BY <1>0, <2>1, RecordFacts DEF Updated, OthersFailed, Members, InFlight, Fields
<1>3. ASSUME NEW t \in Tasks, Delete(t) PROVE OthersFailed'
  BY <1>0, <1>3, RecordFacts DEF Delete, Free, OthersFailed, Members, InFlight, Fields
<1>4. ASSUME NEW t \in Tasks, Fire(t) PROVE OthersFailed'
  <2>1. Fired(t)
    BY <1>0, <1>4, FireEffect
  <2>2. QED
    BY <1>0, <2>1, RecordFacts DEF Fired, OthersFailed, Members, InFlight, Fields
<1>5. ASSUME AnswerQuery PROVE OthersFailed'
  <2>1. PICK id \in Ids : Answered(id)
    BY <1>0, <1>5, QueryEffect
  <2>2. QED
    BY <1>0, <2>1, RecordFacts DEF Answered, OthersFailed, Members, InFlight, Fields
<1>6. ASSUME AnswerUnit PROVE OthersFailed'
  <2>1. UnitAnswered
    BY <1>0, <1>6, UnitEffect
  <2>2. QED
    BY <1>0, <2>1, RecordFacts DEF UnitAnswered, OthersFailed, Members, InFlight, Fields
<1>7. ASSUME TimeOut PROVE OthersFailed'
  BY <1>0, <1>7, RecordFacts DEF TimeOut, Skip, OthersFailed, Members, InFlight, Fields
<1>8. ASSUME NEW id \in Ids, Spawn(id) PROVE OthersFailed'
  <2>1. Spawned(id)
    BY <1>0, <1>8, SpawnEffect
  <2>2. QED
    BY <1>0, <2>1, RecordFacts DEF Spawned, AnswersHold, OthersFailed, Members, InFlight, Fields
<1>9. ASSUME NEW id \in Ids, SpawnRefused(id) PROVE OthersFailed'
  <2>1. Refused(id)
    BY <1>0, <1>9, RefusedEffect
  <2>2. QED
    BY <1>0, <2>1, RecordFacts DEF Refused, AnswersHold, OthersFailed, Members, InFlight, Fields
<1>10. ASSUME Restore PROVE OthersFailed'
  <2>1. IsRestored
    BY <1>0, <1>10, RestoreEffect
  <2>2. QED
    BY <1>0, <2>1, RecordFacts DEF IsRestored, AnswersHold, OthersFailed, Members, InFlight, Fields
<1>11. ASSUME NEW id \in Ids, Watch(id) PROVE OthersFailed'
  <2>1. Watched(id)
    BY <1>0, <1>11, WatchEffect
  <2>2. QED
    BY <1>0, <2>1, RecordFacts DEF Watched, WatchersKept, OthersFailed, Members, InFlight, Fields
<1>12. ASSUME NEW ok \in BOOLEAN, Admit(ok) PROVE OthersFailed'
  <2>1. PICK id \in Ids, w \in {"live", "failed"}, b \in BOOLEAN : Admitted(id, w, b)
    BY <1>0, <1>12, AdmitEffect
  <2>2. QED
    BY <1>0, <2>1, RecordFacts DEF Admitted, Marked, WatchersKept, OthersFailed, Members, InFlight, Fields
<1>13. ASSUME NEW id \in Ids, NEW ok \in BOOLEAN, End(id, ok) PROVE OthersFailed'
  <2>1. PICK w \in {"done", "failed"}, b \in BOOLEAN : Finished(id, w, b)
    BY <1>0, <1>13, EndEffect
  <2>2. QED
    BY <1>0, <2>1, RecordFacts DEF Finished, Marked, WatchersKept, OthersFailed, Members, InFlight, Fields
<1>14. ASSUME NEW id \in Ids, Nest(id) PROVE OthersFailed'
  <2>1. Nested(id)
    BY <1>0, <1>14, NestEffect
  <2>2. QED
    BY <1>0, <2>1, RecordFacts DEF Nested, OthersFailed, Members, InFlight, Fields
<1>15. ASSUME NEW id \in Ids, NestedEnd(id) PROVE OthersFailed'
  <2>1. Dropped(id)
    BY <1>0, <1>15, NestedEndEffect
  <2>2. QED
    BY <1>0, <2>1, RecordFacts DEF Dropped, OthersFailed, Members, InFlight, Fields
<1>16. ASSUME NEW id \in Ids, Forget(id) PROVE OthersFailed'
  <2>1. Dropped(id)
    BY <1>0, <1>16, ForgetEffect
  <2>2. QED
    BY <1>0, <2>1, RecordFacts DEF Dropped, OthersFailed, Members, InFlight, Fields
<1>17. ASSUME CoordinatorGone PROVE OthersFailed'
  <2>1. Gone
    BY <1>0, <1>17, GoneEffect
  <2>2. QED
    BY <1>0, <2>1, RecordFacts DEF Gone, OthersFailed, Members, InFlight, Fields
<1>18. ASSUME NEW t \in Tasks, Tick(t) PROVE OthersFailed'
  BY <1>0, <1>18, RecordFacts DEF Tick, OthersFailed, Members, InFlight, Fields
<1>19. CASE UNCHANGED vars
  BY <1>0, <1>19, RecordFacts DEF vars, OthersFailed, Members, InFlight, Fields
<1>20. QED
  BY <1>1, <1>2, <1>3, <1>4, <1>5, <1>6, <1>7, <1>8, <1>9, <1>10, <1>11, <1>12, <1>13, <1>14,
     <1>15, <1>16, <1>17, <1>18, <1>19
  DEF Next, Commands, Fires, Answers, Advances, Watches, Admits, Ends

LEMMA OverlapStep == LoopsInv /\ TypeOK' /\ [Next]_vars => OverlapOnlyAfterFailure'
<1> SUFFICES ASSUME LoopsInv, TypeOK', [Next]_vars PROVE OverlapOnlyAfterFailure'
  OBVIOUS
<1>0. TypeOK /\ OverlapOnlyAfterFailure /\ LoopGuarded /\ AnswersHold /\ WatchersKept /\ ReadingKept /\ InboxKept /\ Fields
  BY FieldsFacts DEF LoopsInv
<1>1. ASSUME NEW t \in Tasks, NEW p \in Prompts, Create(t, p) PROVE OverlapOnlyAfterFailure'
  <2>1. Created(t, p)
    BY <1>0, <1>1, CreateEffect
  <2>2. QED
    BY <1>0, <2>1, RecordFacts DEF Created, OverlapOnlyAfterFailure, Members, InFlight, Fields
<1>2. ASSUME NEW t \in Tasks, NEW p \in Prompts, Update(t, p) PROVE OverlapOnlyAfterFailure'
  <2>1. Updated(t, p)
    BY <1>0, <1>2, UpdateEffect
  <2>2. QED
    BY <1>0, <2>1, RecordFacts DEF Updated, OverlapOnlyAfterFailure, Members, InFlight, Fields
<1>3. ASSUME NEW t \in Tasks, Delete(t) PROVE OverlapOnlyAfterFailure'
  BY <1>0, <1>3, RecordFacts DEF Delete, Free, OverlapOnlyAfterFailure, Members, InFlight, Fields
<1>4. ASSUME NEW t \in Tasks, Fire(t) PROVE OverlapOnlyAfterFailure'
  <2>1. Fired(t)
    BY <1>0, <1>4, FireEffect
  <2>2. QED
    BY <1>0, <2>1, RecordFacts DEF Fired, OverlapOnlyAfterFailure, Members, InFlight, Fields
<1>5. ASSUME AnswerQuery PROVE OverlapOnlyAfterFailure'
  <2>1. PICK id \in Ids : Answered(id)
    BY <1>0, <1>5, QueryEffect
  <2>2. QED
    BY <1>0, <2>1, RecordFacts DEF Answered, OverlapOnlyAfterFailure, Members, InFlight, Fields
<1>6. ASSUME AnswerUnit PROVE OverlapOnlyAfterFailure'
  <2>1. UnitAnswered
    BY <1>0, <1>6, UnitEffect
  <2>2. QED
    BY <1>0, <2>1, RecordFacts DEF UnitAnswered, OverlapOnlyAfterFailure, Members, InFlight, Fields
<1>7. ASSUME TimeOut PROVE OverlapOnlyAfterFailure'
  BY <1>0, <1>7, RecordFacts DEF TimeOut, Skip, OverlapOnlyAfterFailure, Members, InFlight, Fields
<1>8. ASSUME NEW id \in Ids, Spawn(id) PROVE OverlapOnlyAfterFailure'
  <2>1. Spawned(id)
    BY <1>0, <1>8, SpawnEffect
  <2>2. QED
    BY <1>0, <2>1, RecordFacts DEF Spawned, AnswersHold, OverlapOnlyAfterFailure, Members, InFlight, Fields
<1>9. ASSUME NEW id \in Ids, SpawnRefused(id) PROVE OverlapOnlyAfterFailure'
  <2>1. Refused(id)
    BY <1>0, <1>9, RefusedEffect
  <2>2. QED
    BY <1>0, <2>1, RecordFacts DEF Refused, OverlapOnlyAfterFailure, Members, InFlight, Fields
<1>10. ASSUME Restore PROVE OverlapOnlyAfterFailure'
  <2>1. IsRestored
    BY <1>0, <1>10, RestoreEffect
  <2>2. QED
    BY <1>0, <2>1, RecordFacts DEF IsRestored, OverlapOnlyAfterFailure, Members, InFlight, Fields
<1>11. ASSUME NEW id \in Ids, Watch(id) PROVE OverlapOnlyAfterFailure'
  <2>1. Watched(id)
    BY <1>0, <1>11, WatchEffect
  <2>2. QED
    BY <1>0, <2>1, RecordFacts DEF Watched, OverlapOnlyAfterFailure, Members, InFlight, Fields
<1>12. ASSUME NEW ok \in BOOLEAN, Admit(ok) PROVE OverlapOnlyAfterFailure'
  <2>1. PICK id \in Ids, w \in {"live", "failed"}, b \in BOOLEAN : Admitted(id, w, b)
    BY <1>0, <1>12, AdmitEffect
  <2>2. QED
    BY <1>0, <2>1, RecordFacts DEF Admitted, Marked, WatchersKept, OverlapOnlyAfterFailure, Members, InFlight, Fields
<1>13. ASSUME NEW id \in Ids, NEW ok \in BOOLEAN, End(id, ok) PROVE OverlapOnlyAfterFailure'
  <2>1. PICK w \in {"done", "failed"}, b \in BOOLEAN : Finished(id, w, b)
    BY <1>0, <1>13, EndEffect
  <2>2. QED
    BY <1>0, <2>1, RecordFacts DEF Finished, Marked, WatchersKept, OverlapOnlyAfterFailure, Members, InFlight, Fields
<1>14. ASSUME NEW id \in Ids, Nest(id) PROVE OverlapOnlyAfterFailure'
  <2>1. Nested(id)
    BY <1>0, <1>14, NestEffect
  <2>2. QED
    BY <1>0, <2>1, RecordFacts DEF Nested, OverlapOnlyAfterFailure, Members, InFlight, Fields
<1>15. ASSUME NEW id \in Ids, NestedEnd(id) PROVE OverlapOnlyAfterFailure'
  <2>1. Dropped(id)
    BY <1>0, <1>15, NestedEndEffect
  <2>2. QED
    BY <1>0, <2>1, RecordFacts DEF Dropped, OverlapOnlyAfterFailure, Members, InFlight, Fields
<1>16. ASSUME NEW id \in Ids, Forget(id) PROVE OverlapOnlyAfterFailure'
  <2>1. Dropped(id)
    BY <1>0, <1>16, ForgetEffect
  <2>2. QED
    BY <1>0, <2>1, RecordFacts DEF Dropped, OverlapOnlyAfterFailure, Members, InFlight, Fields
<1>17. ASSUME CoordinatorGone PROVE OverlapOnlyAfterFailure'
  <2>1. Gone
    BY <1>0, <1>17, GoneEffect
  <2>2. QED
    BY <1>0, <2>1, RecordFacts DEF Gone, OverlapOnlyAfterFailure, Members, InFlight, Fields
<1>18. ASSUME NEW t \in Tasks, Tick(t) PROVE OverlapOnlyAfterFailure'
  BY <1>0, <1>18, RecordFacts DEF Tick, OverlapOnlyAfterFailure, Members, InFlight, Fields
<1>19. CASE UNCHANGED vars
  BY <1>0, <1>19, RecordFacts DEF vars, OverlapOnlyAfterFailure, Members, InFlight, Fields
<1>20. QED
  BY <1>1, <1>2, <1>3, <1>4, <1>5, <1>6, <1>7, <1>8, <1>9, <1>10, <1>11, <1>12, <1>13, <1>14,
     <1>15, <1>16, <1>17, <1>18, <1>19
  DEF Next, Commands, Fires, Answers, Advances, Watches, Admits, Ends

-----------------------------------------------------------------------------
(***************************************************************************)
(* The theorems                                                            *)
(***************************************************************************)
LEMMA LoopsInit == Init => LoopsInv
<1> SUFFICES ASSUME Init PROVE LoopsInv
  OBVIOUS
<1>1. TypeOK /\ Fields
  BY TypeInit, FieldsFacts
<1>2. /\ held = {} /\ pc = Idle /\ inbox = << >> /\ DOMAIN inbox = {}
      /\ \A i \in Ids : child[i] = Unknown /\ watcher[i] = "none"
  BY DEF Init
<1>3. TasksKnown /\ InboxKept /\ WatchersKept
  BY <1>2, RecordFacts DEF TasksKnown, InboxKept, WatchersKept, InFlight
<1>4. ReadingKept /\ ChainsKept /\ AnswersHold /\ OthersFailed
  BY <1>2, RecordFacts DEF ReadingKept, ChainsKept, AnswersHold, OthersFailed
<1>5. LoopGuarded /\ ChainOfOneJob
  BY <1>1, <1>2, RecordFacts
  DEF LoopGuarded, OneIteration, InFlightIsAnchor, InFlight, ChainOfOneJob, ResumesOwnJob,
      ChainBounded, Fields
<1>6. OverlapOnlyAfterFailure
  BY <1>1, <1>2, RecordFacts DEF OverlapOnlyAfterFailure, Members, InFlight, Fields
<1>7. QED
  BY <1>1, <1>3, <1>4, <1>5, <1>6 DEF LoopsInv

\* The inductive invariant holds in every reachable state.
LEMMA LoopsSound == Spec => []LoopsInv
<1>1. LoopsInv /\ [Next]_vars => LoopsInv'
  <2> SUFFICES ASSUME LoopsInv, [Next]_vars PROVE LoopsInv'
    OBVIOUS
  <2>1. TypeOK'
    BY TypeStep
  <2>2. TasksKnown' /\ WatchersKept' /\ InboxKept' /\ ReadingKept' /\ ChainsKept'
    BY <2>1, TasksStep, WatchersStep, InboxStep, ReadingStep, ChainsStep
  <2>3. AnswersHold' /\ OthersFailed' /\ LoopGuarded' /\ ChainOfOneJob' /\ OverlapOnlyAfterFailure'
    BY <2>1, AnswersStep, OthersStep, GuardedStep, JobStep, OverlapStep
  <2>4. QED
    BY <2>1, <2>2, <2>3 DEF LoopsInv
<1>2. QED
  BY <1>1, LoopsInit, PTL DEF Spec

\* For every set of tasks, prompts and ids: two iterations of a task are never in flight together,
\* and the one that is in flight is the one the record points at (fire_as_loop_subagent asks about
\* the record's anchor only), although the actor decides by what it read before it awaited.
THEOREM LoopGuardedCorrect == Spec => []LoopGuarded
<1>1. LoopsInv => LoopGuarded
  BY DEF LoopsInv
<1>2. QED
  BY <1>1, LoopsSound, PTL

\* For every LOOP_FRESH_CHAIN_EVERY: an iteration resumes only a transcript of its own prompt, and
\* a chain of transcripts never has more than that many iterations.
THEOREM ChainCorrect == Spec => []ChainOfOneJob
<1>1. LoopsInv => ChainOfOneJob
  BY DEF LoopsInv
<1>2. QED
  BY <1>1, LoopsSound, PTL

\* Work of two iterations of a task, descendants included, overlaps only if one of them failed:
\* the question of LoopUnitActive holds the others back.
THEOREM OverlapCorrect == Spec => []OverlapOnlyAfterFailure
<1>1. LoopsInv => OverlapOnlyAfterFailure
  BY DEF LoopsInv
<1>2. QED
  BY <1>1, LoopsSound, PTL
=============================================================================
