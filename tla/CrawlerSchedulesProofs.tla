----------------------- MODULE CrawlerSchedulesProofs -----------------------
(***************************************************************************)
(* Proofs about CrawlerSchedules, for any schedules, tasks and requests.   *)
(***************************************************************************)
EXTENDS CrawlerSchedules, FiniteSetTheorems, SequenceTheorems, TLAPS

----------------------------------------------------------------------------
(***************************************************************************)
(* The sequences of the model: an entry that is removed or inserted.       *)
(***************************************************************************)
LEMMA RemoveAtProperties ==
  ASSUME NEW S, NEW q \in Seq(S), NEW k \in 1 .. Len(q)
  PROVE  /\ RemoveAt(q, k) \in Seq(S)
         /\ Len(RemoveAt(q, k)) = Len(q) - 1
         /\ \A i \in 1 .. Len(q) - 1 : RemoveAt(q, k)[i] = IF i < k THEN q[i] ELSE q[i + 1]
<1> DEFINE a == SubSeq(q, 1, k - 1)
           b == SubSeq(q, k + 1, Len(q))
<1>1. Len(q) \in Nat /\ k \in Nat
  BY LenProperties
<1>2. /\ a \in Seq(S) /\ Len(a) = k - 1
      /\ \A i \in 1 .. k - 1 : a[i] = q[i]
  <2>1. \A i \in 1 .. k - 1 : q[i] \in S
    BY <1>1, ElementOfSeq
  <2> QED
    BY <1>1, <2>1, SubSeqProperties
<1>3. /\ b \in Seq(S) /\ Len(b) = Len(q) - k
      /\ \A i \in 1 .. Len(q) - k : b[i] = q[k + i]
  <2>1. \A i \in k + 1 .. Len(q) : q[i] \in S
    BY <1>1, ElementOfSeq
  <2> QED
    BY <1>1, <2>1, SubSeqProperties
<1>4. RemoveAt(q, k) = a \o b
  BY DEF RemoveAt
<1> HIDE DEF a, b
<1>5. /\ a \o b \in Seq(S) /\ Len(a \o b) = Len(q) - 1
      /\ \A i \in 1 .. Len(q) - 1 : (a \o b)[i] = IF i <= k - 1 THEN a[i] ELSE b[i - (k - 1)]
  <2>1. /\ a \o b \in Seq(S) /\ Len(a \o b) = Len(a) + Len(b)
        /\ \A i \in 1 .. Len(a) + Len(b) : (a \o b)[i] = IF i <= Len(a) THEN a[i] ELSE b[i - Len(a)]
    BY <1>2, <1>3, ConcatProperties, Zenon
  <2>2. Len(a) + Len(b) = Len(q) - 1
    BY <1>1, <1>2, <1>3
  <2> QED
    BY <1>2, <2>1, <2>2, Zenon
<1> QED
  BY <1>1, <1>2, <1>3, <1>4, <1>5

LEMMA InsertAtProperties ==
  ASSUME NEW S, NEW q \in Seq(S), NEW k \in 1 .. Len(q) + 1, NEW e \in S
  PROVE  /\ InsertAt(q, k, e) \in Seq(S)
         /\ Len(InsertAt(q, k, e)) = Len(q) + 1
         /\ \A i \in 1 .. Len(q) + 1 :
              InsertAt(q, k, e)[i] = IF i < k THEN q[i] ELSE IF i = k THEN e ELSE q[i - 1]
<1> DEFINE a == SubSeq(q, 1, k - 1)
           b == SubSeq(q, k, Len(q))
<1>1. Len(q) \in Nat /\ k \in Nat
  BY LenProperties
<1>2. /\ a \in Seq(S) /\ Len(a) = k - 1
      /\ \A i \in 1 .. k - 1 : a[i] = q[i]
  <2>1. \A i \in 1 .. k - 1 : q[i] \in S
    BY <1>1, ElementOfSeq
  <2> QED
    BY <1>1, <2>1, SubSeqProperties
<1>3. /\ b \in Seq(S) /\ Len(b) = Len(q) - k + 1
      /\ \A i \in 1 .. Len(q) - k + 1 : b[i] = q[k + i - 1]
  <2>1. \A i \in k .. Len(q) : q[i] \in S
    BY <1>1, ElementOfSeq
  <2> QED
    BY <1>1, <2>1, SubSeqProperties
<1>4. InsertAt(q, k, e) = (a \o <<e>>) \o b
  BY DEF InsertAt
<1> DEFINE c == a \o <<e>>
<1>5. c \in Seq(S) /\ Len(c) = k /\ \A i \in 1 .. k : c[i] = IF i < k THEN q[i] ELSE e
  <2> HIDE DEF a, b
  <2>1. <<e>> \in Seq(S) /\ Len(<<e>>) = 1 /\ <<e>>[1] = e
    OBVIOUS
  <2>2. \A i \in 1 .. Len(a) + 1 : (a \o <<e>>)[i] = IF i <= Len(a) THEN a[i] ELSE <<e>>[i - Len(a)]
    BY <1>2, <2>1, ConcatProperties
  <2>3. a \o <<e>> \in Seq(S) /\ Len(a \o <<e>>) = k
    BY <1>1, <1>2, <2>1, ConcatProperties
  <2> QED
    BY <1>1, <1>2, <2>1, <2>2, <2>3
<1> HIDE DEF a, b, c
<1>6. /\ c \o b \in Seq(S) /\ Len(c \o b) = Len(q) + 1
      /\ \A i \in 1 .. Len(q) + 1 : (c \o b)[i] = IF i <= k THEN c[i] ELSE b[i - k]
  <2>1. /\ c \o b \in Seq(S) /\ Len(c \o b) = Len(c) + Len(b)
        /\ \A i \in 1 .. Len(c) + Len(b) : (c \o b)[i] = IF i <= Len(c) THEN c[i] ELSE b[i - Len(c)]
    BY <1>3, <1>5, ConcatProperties, Zenon
  <2>2. Len(c) + Len(b) = Len(q) + 1
    BY <1>1, <1>3, <1>5
  <2> QED
    BY <1>5, <2>1, <2>2, Zenon
<1>7. InsertAt(q, k, e) = c \o b
  BY <1>4 DEF c
<1> QED
  BY <1>1, <1>3, <1>5, <1>6, <1>7

LEMMA RemoveAtDistinct ==
  ASSUME NEW S, NEW q \in Seq(S), NEW k \in 1 .. Len(q),
         \A i, j \in DOMAIN q : q[i] = q[j] => i = j
  PROVE  /\ \A i, j \in DOMAIN RemoveAt(q, k) : RemoveAt(q, k)[i] = RemoveAt(q, k)[j] => i = j
         /\ Range(RemoveAt(q, k)) = Range(q) \ {q[k]}
<1> DEFINE r == RemoveAt(q, k)
           m(i) == IF i < k THEN i ELSE i + 1
           n(i) == IF i < k THEN i ELSE i - 1
<1>1. Len(q) \in Nat /\ DOMAIN q = 1 .. Len(q)
  BY LenProperties
<1>2. r \in Seq(S) /\ Len(r) = Len(q) - 1 /\ \A i \in 1 .. Len(q) - 1 : r[i] = q[m(i)]
  BY RemoveAtProperties
<1>3. DOMAIN r = 1 .. Len(q) - 1
  BY <1>1, <1>2, LenProperties
<1>4. \A i \in DOMAIN r : m(i) \in DOMAIN q /\ m(i) # k /\ r[i] = q[m(i)]
  BY <1>1, <1>2, <1>3
<1>5. \A i, j \in DOMAIN r : m(i) = m(j) => i = j
  BY <1>1, <1>3
<1>6. \A j \in DOMAIN q : j # k => n(j) \in DOMAIN r /\ m(n(j)) = j
  BY <1>1, <1>3
<1> HIDE DEF r, m, n
<1>7. \A i, j \in DOMAIN r : r[i] = r[j] => i = j
  BY <1>4, <1>5
<1>8. \A i \in DOMAIN r : r[i] \in Range(q) \ {q[k]}
  BY <1>1, <1>4 DEF Range
<1>9. \A j \in DOMAIN q : q[j] # q[k] => q[j] \in Range(r)
  BY <1>4, <1>6 DEF Range
<1>10. Range(r) = Range(q) \ {q[k]}
  BY <1>8, <1>9 DEF Range
<1> QED
  BY <1>7, <1>10 DEF r

LEMMA InsertAtDistinct ==
  ASSUME NEW S, NEW q \in Seq(S), NEW k \in 1 .. Len(q) + 1, NEW e \in S,
         \A i, j \in DOMAIN q : q[i] = q[j] => i = j,
         e \notin Range(q)
  PROVE  /\ \A i, j \in DOMAIN InsertAt(q, k, e) :
               InsertAt(q, k, e)[i] = InsertAt(q, k, e)[j] => i = j
         /\ Range(InsertAt(q, k, e)) = Range(q) \cup {e}
<1> DEFINE r == InsertAt(q, k, e)
           m(i) == IF i < k THEN i ELSE i - 1
           n(i) == IF i < k THEN i ELSE i + 1
<1>1. Len(q) \in Nat /\ DOMAIN q = 1 .. Len(q)
  BY LenProperties
<1>2. /\ r \in Seq(S) /\ Len(r) = Len(q) + 1
      /\ \A i \in 1 .. Len(q) + 1 : r[i] = IF i = k THEN e ELSE q[m(i)]
  BY InsertAtProperties
<1>3. DOMAIN r = 1 .. Len(q) + 1 /\ k \in 1 .. Len(q) + 1
  BY <1>1, <1>2, LenProperties
<1>4. \A i \in DOMAIN r : i # k => m(i) \in DOMAIN q /\ r[i] = q[m(i)]
  BY <1>1, <1>2, <1>3
<1>5. \A i, j \in DOMAIN r : i # k /\ j # k /\ m(i) = m(j) => i = j
  BY <1>1, <1>3
<1>6. \A j \in DOMAIN q : n(j) \in DOMAIN r /\ n(j) # k /\ m(n(j)) = j
  BY <1>1, <1>3
<1>7. k \in DOMAIN r /\ r[k] = e
  BY <1>2, <1>3
<1> HIDE DEF r, m, n
<1>8. \A i \in DOMAIN r : i # k => r[i] \in Range(q) /\ r[i] # e
  BY <1>4 DEF Range
<1>9. \A i, j \in DOMAIN r : r[i] = r[j] => i = j
  BY <1>4, <1>5, <1>7, <1>8
<1>10. \A j \in DOMAIN q : q[j] \in Range(r)
  BY <1>4, <1>6 DEF Range
<1>11. Range(r) = Range(q) \cup {e}
  BY <1>7, <1>8, <1>10 DEF Range
<1> QED
  BY <1>9, <1>11 DEF r

\* smembers, in some order.
LEMMA SetToSeqType ==
  ASSUME NEW S, IsFiniteSet(S)
  PROVE  SetToSeq(S) \in Seq(S)
<1>1. Cardinality(S) \in Nat /\ ExistsBijection(1 .. Cardinality(S), S)
  BY FS_CardinalityType
<1>2. \E f \in [1 .. Cardinality(S) -> S] : IsInjective(f)
  BY <1>1 DEF ExistsBijection, Bijection, Injection
<1>3. SetToSeq(S) \in [1 .. Cardinality(S) -> S]
  BY <1>2 DEF SetToSeq
<1> QED
  BY <1>1, <1>3, SeqDef

----------------------------------------------------------------------------
(***************************************************************************)
(* The inductive invariant.                                                *)
(***************************************************************************)
\* What is left of a deletion once its entry has been removed from the queue.
Deletion(s) == {<<Cmd("task", s), Cmd("del", s), Cmd("srem", s)>>,
                <<Cmd("del", s), Cmd("srem", s)>>, <<Cmd("srem", s)>>}
\* What a request may have left to send.
Requests(s) == {<<Cmd("meta", s), Cmd("sadd", s)>>, <<Cmd("sadd", s)>>,
                <<Cmd("zrem", s), Cmd("task", s), Cmd("del", s), Cmd("srem", s)>>}
               \cup Deletion(s)

FlaskOK == flask # <<>> => \E s \in Scheds : flask \in Requests(s)

\* The entries of the queue are distinct, and update_queue adds one that is not there.
QueueOK ==
  /\ \A i, j \in DOMAIN squeue : squeue[i] = squeue[j] => i = j
  /\ crawler.pc \in {"tasked", "frequency", "zadd"} => ~IsScheduled(crawler.s)

\* A schedule in the queue has no task, but the one that process_queue has just given it.
TaskOK ==
  /\ crawler.pc \in {"frequency", "zadd"} => ~IsTasked(crawler.s)
  /\ At("set") => crawler.t \in Tasks
  /\ \A s \in Scheds : IsScheduled(s) /\ IsTasked(s) => crawler.s = s /\ At("zrem")

\* An entry whose schedule is deleted, or is being deleted, came after the ZREM.
StaleOK ==
  \A s \in Range(squeue) :
    /\ ~Exists(s) => s \in raced
    /\ flask \in Deletion(s) => s \in raced

Inv == TypeOK /\ IsFiniteSet(schedules) /\ FlaskOK /\ QueueOK /\ TaskOK /\ StaleOK

----------------------------------------------------------------------------
(***************************************************************************)
(* The two operations on the queue.                                        *)
(***************************************************************************)
LEMMA UnqueueStep ==
  ASSUME TypeOK, QueueOK, NEW s, Unqueue(s)
  PROVE  /\ squeue' \in Seq(Scheds) /\ due' \in 0 .. Len(squeue')
         /\ \A i, j \in DOMAIN squeue' : squeue'[i] = squeue'[j] => i = j
         /\ Range(squeue') = Range(squeue) \ {s}
<1>1. /\ squeue \in Seq(Scheds) /\ due \in 0 .. Len(squeue) /\ Len(squeue) \in Nat
      /\ DOMAIN squeue = 1 .. Len(squeue)
  BY LenProperties DEF TypeOK
<1>2. CASE ~IsScheduled(s)
  <2>1. UNCHANGED <<squeue, due>>
    BY <1>2 DEF Unqueue
  <2> QED
    BY <1>1, <1>2, <2>1 DEF QueueOK, IsScheduled
<1>3. CASE IsScheduled(s)
  <2>1. PICK k \in DOMAIN squeue : /\ squeue[k] = s /\ squeue' = RemoveAt(squeue, k)
                                   /\ due' = IF k <= due THEN due - 1 ELSE due
    <3>1. \E i \in DOMAIN squeue : squeue[i] = s
      BY <1>3 DEF IsScheduled, Range
    <3> DEFINE k == CHOOSE i \in DOMAIN squeue : squeue[i] = s
    <3>2. k \in DOMAIN squeue /\ squeue[k] = s
      BY <3>1
    <3>3. squeue' = RemoveAt(squeue, k) /\ due' = IF k <= due THEN due - 1 ELSE due
      BY <1>3 DEF Unqueue
    <3> HIDE DEF k
    <3> QED
      BY <3>2, <3>3
  <2>2. squeue' \in Seq(Scheds) /\ Len(squeue') = Len(squeue) - 1
    BY <1>1, <2>1, RemoveAtProperties
  <2>3. /\ \A i, j \in DOMAIN squeue' : squeue'[i] = squeue'[j] => i = j
        /\ Range(squeue') = Range(squeue) \ {s}
    BY <1>1, <2>1, RemoveAtDistinct DEF QueueOK
  <2>4. due' \in 0 .. Len(squeue')
    BY <1>1, <2>1, <2>2
  <2> QED
    BY <2>2, <2>3, <2>4
<1> QED
  BY <1>2, <1>3

LEMMA SetNextRunStep ==
  ASSUME TypeOK, QueueOK, SetNextRun
  PROVE  /\ squeue' \in Seq(Scheds) /\ due' \in 0 .. Len(squeue')
         /\ \A i, j \in DOMAIN squeue' : squeue'[i] = squeue'[j] => i = j
         /\ Range(squeue') = Range(squeue) \cup {crawler.s}
<1> DEFINE s == crawler.s
<1>1. /\ squeue \in Seq(Scheds) /\ due \in 0 .. Len(squeue) /\ Len(squeue) \in Nat
      /\ DOMAIN squeue = 1 .. Len(squeue)
  BY LenProperties DEF TypeOK
<1>2. s \in Scheds /\ s \notin Range(squeue) /\ due' = due
  BY DEF SetNextRun, At, TypeOK, OnSchedule, QueueOK, IsScheduled
<1>3. PICK k \in 1 .. Len(squeue) + 1 : due < k /\ squeue' = InsertAt(squeue, k, s)
  <2>1. PICK j \in due .. Len(squeue) : squeue' = InsertAt(squeue, j + 1, s)
    BY DEF SetNextRun
  <2> QED
    BY <1>1, <2>1
<1> HIDE DEF s
<1>4. squeue' \in Seq(Scheds) /\ Len(squeue') = Len(squeue) + 1
  <2>1. InsertAt(squeue, k, s) \in Seq(Scheds) /\ Len(InsertAt(squeue, k, s)) = Len(squeue) + 1
    BY <1>1, <1>2, <1>3, InsertAtProperties, Zenon
  <2> QED
    BY <1>3, <2>1
<1>5. /\ \A i, j \in DOMAIN squeue' : squeue'[i] = squeue'[j] => i = j
      /\ Range(squeue') = Range(squeue) \cup {s}
  <2>1. \A i, j \in DOMAIN squeue : squeue[i] = squeue[j] => i = j
    BY DEF QueueOK
  <2>2. /\ \A i, j \in DOMAIN InsertAt(squeue, k, s) :
              InsertAt(squeue, k, s)[i] = InsertAt(squeue, k, s)[j] => i = j
        /\ Range(InsertAt(squeue, k, s)) = Range(squeue) \cup {s}
    BY <1>1, <1>2, <1>3, <2>1, InsertAtDistinct, SMTT(30)
  <2> QED
    BY <1>3, <2>2
<1>6. due' \in 0 .. Len(squeue')
  BY <1>1, <1>2, <1>4
<1> QED
  BY <1>4, <1>5, <1>6 DEF s

----------------------------------------------------------------------------
(***************************************************************************)
(* Every step keeps the types.                                             *)
(***************************************************************************)
LEMMA InitInv == Init => Inv
<1> SUFFICES ASSUME Init PROVE Inv
  OBVIOUS
<1>1. squeue = <<>> /\ flask = <<>> /\ crawler = Loop /\ schedules = {} /\ due = 0
  BY DEF Init
<1>2. TypeOK
  BY <1>1, SchedulesAssumption DEF Init, TypeOK, Loop, NoHash, PC, OnSchedule
<1>3. IsFiniteSet(schedules)
  BY <1>1, FS_EmptySet
<1>4. Range(squeue) = {}
  BY <1>1 DEF Range
<1>5. FlaskOK /\ QueueOK /\ TaskOK /\ StaleOK
  BY <1>1, <1>4 DEF FlaskOK, QueueOK, TaskOK, StaleOK, IsScheduled, Loop, At
<1> QED
  BY <1>2, <1>3, <1>5 DEF Inv

LEMMA DeletionOf ==
  ASSUME NEW s, NEW f \in Deletion(s)
  PROVE  Head(f).s = s
  BY DEF Deletion, Cmd

\* A command of Flask is about a schedule, and what is left is a request's rest.
LEMMA SendsStep ==
  ASSUME TypeOK, FlaskOK, NEW op, Sends(op)
  PROVE  /\ key \in Scheds /\ flask \in Requests(key) /\ op = Head(flask).op
         /\ flask' \in Seq([op : {"meta", "sadd", "zrem", "task", "del", "srem"}, s : Scheds])
         /\ FlaskOK'
         /\ \A s : flask' \in Deletion(s) => s = key /\ (flask \in Deletion(s) \/ op = "zrem")
         /\ op = "zrem" => flask' \in Deletion(key)
         /\ op \in {"task", "del", "srem"} <=> flask \in Deletion(key)
<1>1. PICK s \in Scheds : flask \in Requests(s)
  BY DEF Sends, FlaskOK
<1>2. key = s /\ op = Head(flask).op /\ flask' = Tail(flask)
  BY <1>1 DEF Sends, key, Requests, Deletion, Cmd
<1>3. flask' \in Seq([op : {"meta", "sadd", "zrem", "task", "del", "srem"}, s : Scheds])
  BY <1>2 DEF TypeOK, Sends
<1>4. CASE flask = <<Cmd("meta", s), Cmd("sadd", s)>>
  <2>1. op = "meta" /\ flask' = <<Cmd("sadd", s)>>
    BY <1>2, <1>4 DEF Cmd
  <2> QED
    BY <1>1, <1>2, <1>3, <1>4, <2>1 DEF FlaskOK, Requests, Deletion, Cmd
<1>5. CASE flask = <<Cmd("sadd", s)>>
  <2>1. op = "sadd" /\ flask' = <<>>
    BY <1>2, <1>5 DEF Cmd
  <2> QED
    BY <1>1, <1>2, <1>3, <1>5, <2>1 DEF FlaskOK, Requests, Deletion, Cmd
<1>6. CASE flask = <<Cmd("zrem", s), Cmd("task", s), Cmd("del", s), Cmd("srem", s)>>
  <2>1. op = "zrem" /\ flask' = <<Cmd("task", s), Cmd("del", s), Cmd("srem", s)>>
    BY <1>2, <1>6 DEF Cmd
  <2>2. flask' \in Deletion(s) /\ \A x : flask' \in Deletion(x) => x = s
    <3>1. flask' \in Deletion(s)
      BY <2>1 DEF Deletion
    <3> QED
      BY <3>1, DeletionOf
  <2>3. flask \notin Deletion(key)
    BY <1>6 DEF Deletion, Cmd
  <2> QED
    BY <1>1, <1>2, <1>3, <2>1, <2>2, <2>3 DEF FlaskOK, Requests
<1>7. CASE flask = <<Cmd("task", s), Cmd("del", s), Cmd("srem", s)>>
  <2>1. op = "task" /\ flask' = <<Cmd("del", s), Cmd("srem", s)>>
    BY <1>2, <1>7 DEF Cmd
  <2> QED
    BY <1>1, <1>2, <1>3, <1>7, <2>1 DEF FlaskOK, Requests, Deletion, Cmd
<1>8. CASE flask = <<Cmd("del", s), Cmd("srem", s)>>
  <2>1. op = "del" /\ flask' = <<Cmd("srem", s)>>
    BY <1>2, <1>8 DEF Cmd
  <2> QED
    BY <1>1, <1>2, <1>3, <1>8, <2>1 DEF FlaskOK, Requests, Deletion, Cmd
<1>9. CASE flask = <<Cmd("srem", s)>>
  <2>1. op = "srem" /\ flask' = <<>>
    BY <1>2, <1>9 DEF Cmd
  <2> QED
    BY <1>1, <1>2, <1>3, <1>9, <2>1 DEF FlaskOK, Requests, Deletion, Cmd
<1> QED
  BY <1>1, <1>4, <1>5, <1>6, <1>7, <1>8, <1>9 DEF Requests, Deletion

\* The Crawler when it has read nothing.
LEMMA LoopType ==
  ASSUME NEW pc \in PC
  PROVE  /\ [Loop EXCEPT !.pc = pc]
                \in [pc : PC, todo : Seq(Scheds), s : Scheds \cup {None}, t : Tasks \cup {None}]
         /\ [Loop EXCEPT !.pc = pc].pc = pc
<1>1. <<>> \in Seq(Scheds)
  BY EmptySeq
<1> QED
  BY <1>1 DEF Loop

\* A step of the Crawler keeps its type: where it goes, and with what.
LEMMA TypeStep ==
  ASSUME Inv, [Next]_vars
  PROVE  TypeOK' /\ IsFiniteSet(schedules)'
<1> USE DEF Inv
<1>1. ASSUME NEW s \in Scheds, CreateSchedule(s) \/ DeleteSchedule(s)
      PROVE  TypeOK' /\ IsFiniteSet(schedules)'
  <2>1. flask' \in Seq([op : {"meta", "sadd", "zrem", "task", "del", "srem"}, s : Scheds])
    <3>1. /\ <<Cmd("meta", s), Cmd("sadd", s)>>
                \in Seq([op : {"meta", "sadd", "zrem", "task", "del", "srem"}, s : Scheds])
          /\ <<Cmd("zrem", s), Cmd("task", s), Cmd("del", s), Cmd("srem", s)>>
                \in Seq([op : {"meta", "sadd", "zrem", "task", "del", "srem"}, s : Scheds])
      BY DEF Cmd
    <3> QED
      BY <1>1, <3>1 DEF CreateSchedule, DeleteSchedule
  <2>2. made' \in 0 .. MaxCreates
    BY <1>1, SchedulesAssumption DEF CreateSchedule, DeleteSchedule, TypeOK
  <2> QED
    BY <1>1, <2>1, <2>2 DEF CreateSchedule, DeleteSchedule, TypeOK
<1>2. CASE HsetMeta
  BY <1>2, SendsStep DEF HsetMeta, TypeOK
<1>3. CASE SaddSchedule
  BY <1>3, SendsStep, FS_AddElement DEF SaddSchedule, TypeOK
<1>4. CASE ZremQueue
  BY <1>4, SendsStep, UnqueueStep DEF ZremQueue, TypeOK
<1>5. CASE DeleteTask
  BY <1>5, SendsStep DEF DeleteTask, TypeOK
<1>6. CASE DelHash
  BY <1>6, SendsStep DEF DelHash, TypeOK, NoHash
<1>7. CASE SremSchedule
  BY <1>7, SendsStep, FS_RemoveElement DEF SremSchedule, TypeOK
<1>8. CASE StartUpdate
  <2>1. SetToSeq(schedules) \in Seq(schedules)
    BY SetToSeqType
  <2>2. SetToSeq(schedules) \in Seq(Scheds)
    BY <2>1, SeqMonotonic DEF TypeOK
  <2> QED
    BY <1>8, <2>2 DEF StartUpdate, TypeOK, Loop, PC, OnSchedule
<1>9. CASE UpdateNext
  <2>1. UNCHANGED <<schedules, hash, squeue, due, dedup, flask, made, raced>>
    BY <1>9 DEF UpdateNext
  <2>2. CASE crawler.todo = <<>>
    BY <1>9, <2>1, <2>2 DEF UpdateNext, At, Goto, TypeOK, PC, OnSchedule
  <2>3. CASE crawler.todo # <<>>
    <3>1. Head(crawler.todo) \in Scheds /\ Tail(crawler.todo) \in Seq(Scheds)
      BY <2>3, HeadTailProperties DEF TypeOK
    <3>2. crawler' = [crawler EXCEPT !.pc = IF IsScheduled(Head(crawler.todo)) THEN "update" ELSE "tasked",
                                     !.s = Head(crawler.todo), !.todo = Tail(crawler.todo)]
      BY <1>9, <2>3 DEF UpdateNext, TypeOK
    <3> QED
      BY <2>1, <3>1, <3>2 DEF TypeOK, PC, OnSchedule
  <2> QED
    BY <2>2, <2>3
<1>10. CASE UpdateTasked
  <2>1. crawler' \in [pc : PC, todo : Seq(Scheds), s : Scheds \cup {None}, t : Tasks \cup {None}]
        /\ crawler'.s \in Scheds
    BY <1>10 DEF UpdateTasked, At, Goto, TypeOK, PC, OnSchedule
  <2>2. hash' \in [Scheds -> [meta : BOOLEAN, task : Tasks \cup {None}]]
    BY <1>10 DEF UpdateTasked, TypeOK
  <2> QED
    BY <1>10, <2>1, <2>2 DEF UpdateTasked, TypeOK
<1>11. CASE GetFrequency
  <2>1. crawler' = [crawler EXCEPT !.pc = "zadd"] \/ crawler' = [Loop EXCEPT !.pc = "dead"]
    BY <1>11 DEF GetFrequency, Goto, Die
  <2>2. crawler' \in [pc : PC, todo : Seq(Scheds), s : Scheds \cup {None}, t : Tasks \cup {None}]
        /\ (crawler'.pc \in OnSchedule => crawler'.s \in Scheds)
    <3>1. "dead" \in PC /\ "dead" \notin OnSchedule
      BY DEF PC, OnSchedule
    <3>2. CASE crawler' = [Loop EXCEPT !.pc = "dead"]
      BY <3>1, <3>2, LoopType
    <3>3. CASE crawler' # [Loop EXCEPT !.pc = "dead"]
      BY <1>11, <2>1, <3>3 DEF GetFrequency, At, TypeOK, PC, OnSchedule
    <3> QED
      BY <3>2, <3>3
  <2> QED
    BY <1>11, <2>2 DEF GetFrequency, TypeOK
<1>12. CASE SetNextRun
  <2>1. raced' \subseteq Scheds
    BY <1>12 DEF SetNextRun, At, TypeOK, OnSchedule
  <2> QED
    BY <1>12, <2>1, SetNextRunStep DEF SetNextRun, At, Goto, TypeOK, PC, OnSchedule
<1>13. CASE StartProcess
  <2>1. SubSeq(squeue, 1, due) \in Seq(Scheds)
    <3>1. \A i \in 1 .. due : squeue[i] \in Scheds
      BY LenProperties, ElementOfSeq DEF TypeOK
    <3> QED
      BY <3>1, SubSeqProperties DEF TypeOK
  <2> QED
    BY <1>13, <2>1 DEF StartProcess, TypeOK, Loop, PC, OnSchedule
<1>14. CASE ProcessNext
  <2>1. CASE crawler.todo = <<>> \/ ~Exists(Head(crawler.todo))
    <3>1. crawler' = [Loop EXCEPT !.pc = "rest"]
      BY <1>14, <2>1 DEF ProcessNext
    <3>2. "rest" \in PC /\ "rest" \notin OnSchedule
      BY DEF PC, OnSchedule
    <3> QED
      BY <1>14, <3>1, <3>2, LoopType DEF ProcessNext, TypeOK
  <2>2. CASE ~(crawler.todo = <<>> \/ ~Exists(Head(crawler.todo)))
    <3>1. Head(crawler.todo) \in Scheds /\ Tail(crawler.todo) \in Seq(Scheds)
      BY <2>2, HeadTailProperties DEF TypeOK
    <3>2. crawler' = [crawler EXCEPT !.pc = "meta", !.s = Head(crawler.todo), !.todo = Tail(crawler.todo)]
      BY <1>14, <2>2 DEF ProcessNext, TypeOK
    <3> QED
      BY <1>14, <3>1, <3>2 DEF ProcessNext, TypeOK, PC, OnSchedule
  <2> QED
    BY <2>1, <2>2
<1>15. CASE GetMeta
  <2>1. crawler' = [crawler EXCEPT !.pc = "create"] \/ crawler' = [Loop EXCEPT !.pc = "dead"]
    BY <1>15 DEF GetMeta, Goto, Die
  <2>2. crawler' \in [pc : PC, todo : Seq(Scheds), s : Scheds \cup {None}, t : Tasks \cup {None}]
        /\ (crawler'.pc \in OnSchedule => crawler'.s \in Scheds)
    <3>1. "dead" \in PC /\ "dead" \notin OnSchedule
      BY DEF PC, OnSchedule
    <3>2. CASE crawler' = [Loop EXCEPT !.pc = "dead"]
      BY <3>1, <3>2, LoopType
    <3>3. CASE crawler' # [Loop EXCEPT !.pc = "dead"]
      BY <1>15, <2>1, <3>3 DEF GetMeta, At, TypeOK, PC, OnSchedule
    <3> QED
      BY <3>2, <3>3
  <2> QED
    BY <1>15, <2>2 DEF GetMeta, TypeOK
<1>16. CASE CreateTask
  <2>1. PICK t \in Tasks : /\ dedup' = [dedup EXCEPT ![ReqOf[crawler.s]] = t]
                           /\ crawler' = [crawler EXCEPT !.pc = "set", !.t = t]
    BY <1>16 DEF CreateTask
  <2>2. crawler' \in [pc : PC, todo : Seq(Scheds), s : Scheds \cup {None}, t : Tasks \cup {None}]
        /\ crawler'.s \in Scheds
    BY <1>16, <2>1 DEF CreateTask, At, TypeOK, PC, OnSchedule
  <2>3. dedup' \in [Reqs -> Tasks \cup {None}]
    BY <2>1 DEF TypeOK
  <2> QED
    BY <1>16, <2>2, <2>3 DEF CreateTask, TypeOK
<1>17. CASE SetTask
  BY <1>17 DEF SetTask, At, Goto, TypeOK, PC, OnSchedule
<1>18. CASE Dequeue
  BY <1>18, UnqueueStep DEF Dequeue, At, Goto, TypeOK, PC, OnSchedule
<1>19. CASE EndTask
  BY <1>19 DEF EndTask, TypeOK
<1>20. CASE Rest
  BY <1>20 DEF Rest, At, Goto, TypeOK, PC, OnSchedule
<1>21. ASSUME NEW s \in Scheds, Tick(s)
       PROVE  TypeOK' /\ IsFiniteSet(schedules)'
  <2>1. due' \in 0 .. Len(squeue)
    BY <1>21, LenProperties DEF Tick, TypeOK
  <2> QED
    BY <1>21, <2>1 DEF Tick, TypeOK
<1>22. CASE UNCHANGED vars
  BY <1>22 DEF vars, TypeOK
<1> QED
  BY <1>1, <1>2, <1>3, <1>4, <1>5, <1>6, <1>7, <1>8, <1>9, <1>10, <1>11, <1>12, <1>13, <1>14,
     <1>15, <1>16, <1>17, <1>18, <1>19, <1>20, <1>21, <1>22
  DEF Next, User, FlaskCommand, CrawlerStep

LEMMA FlaskStep ==
  ASSUME Inv, [Next]_vars
  PROVE  FlaskOK'
<1> USE DEF Inv
<1>1. ASSUME NEW s \in Scheds, CreateSchedule(s) \/ DeleteSchedule(s)
      PROVE  FlaskOK'
  BY <1>1 DEF CreateSchedule, DeleteSchedule, FlaskOK, Requests
<1>2. CASE FlaskCommand
  <2>1. \E op : Sends(op)
    BY <1>2 DEF FlaskCommand, HsetMeta, SaddSchedule, ZremQueue, DeleteTask, DelHash, SremSchedule
  <2> QED
    BY <2>1, SendsStep
<1>3. CASE UNCHANGED flask
  BY <1>3 DEF FlaskOK
<1>4. CrawlerStep \/ EndTask \/ (\E s \in Scheds : Tick(s)) \/ UNCHANGED vars => UNCHANGED flask
  BY DEF CrawlerStep, StartUpdate, UpdateNext, UpdateTasked, GetFrequency, SetNextRun, StartProcess,
         ProcessNext, GetMeta, CreateTask, SetTask, Dequeue, EndTask, Rest, Tick, vars
<1> QED
  BY <1>1, <1>2, <1>3, <1>4 DEF Next, User

----------------------------------------------------------------------------
(***************************************************************************)
(* A schedule waits once, and only when its last task has ended.           *)
(***************************************************************************)
LEMMA QueueStep ==
  ASSUME Inv, [Next]_vars
  PROVE  QueueOK'
<1> USE DEF Inv
<1>1. CASE UNCHANGED <<squeue, crawler>>
  BY <1>1 DEF QueueOK, IsScheduled
<1>2. ASSUME UNCHANGED squeue, crawler'.pc \notin {"tasked", "frequency", "zadd"}
      PROVE  QueueOK'
  BY <1>2 DEF QueueOK
<1>3. CASE ZremQueue
  <2>1. UNCHANGED crawler /\ Unqueue(key)
    BY <1>3 DEF ZremQueue
  <2> QED
    BY <2>1, UnqueueStep DEF QueueOK, IsScheduled
<1>4. CASE UpdateNext
  <2>1. UNCHANGED squeue /\ crawler \in [pc : PC, todo : Seq(Scheds), s : Scheds \cup {None}, t : Tasks \cup {None}]
    BY <1>4 DEF UpdateNext, TypeOK
  <2>2. CASE crawler.todo = <<>>
    BY <1>2, <1>4, <2>1, <2>2 DEF UpdateNext, Goto
  <2>3. CASE crawler.todo # <<>>
    <3>1. /\ crawler'.pc = IF IsScheduled(Head(crawler.todo)) THEN "update" ELSE "tasked"
          /\ crawler'.s = Head(crawler.todo)
      BY <1>4, <2>1, <2>3 DEF UpdateNext
    <3> QED
      BY <2>1, <3>1 DEF QueueOK, IsScheduled
  <2> QED
    BY <2>2, <2>3
<1>5. CASE UpdateTasked \/ GetFrequency
  <2>1. UNCHANGED squeue /\ crawler.pc \in {"tasked", "frequency"}
    BY <1>5 DEF UpdateTasked, GetFrequency, At
  <2>2. crawler'.s = crawler.s \/ crawler'.pc = "dead"
    BY <1>5 DEF UpdateTasked, GetFrequency, Goto, Die, Loop, TypeOK
  <2> QED
    BY <2>1, <2>2 DEF QueueOK, IsScheduled
<1>6. CASE SetNextRun
  <2>1. crawler'.pc = "update"
    BY <1>6 DEF SetNextRun, Goto, TypeOK
  <2> QED
    BY <1>6, <2>1, SetNextRunStep DEF QueueOK
<1>7. CASE Dequeue
  <2>1. crawler'.pc = "process" /\ Unqueue(crawler.s)
    BY <1>7 DEF Dequeue, Goto, TypeOK
  <2> QED
    BY <2>1, UnqueueStep DEF QueueOK
<1>8. CASE StartUpdate \/ StartProcess \/ ProcessNext \/ GetMeta \/ CreateTask \/ SetTask \/ Rest
  <2>1. UNCHANGED squeue
    BY <1>8 DEF StartUpdate, StartProcess, ProcessNext, GetMeta, CreateTask, SetTask, Rest
  <2>2. crawler'.pc \in {"update", "process", "rest", "meta", "create", "dead", "set", "zrem", "loop"}
    BY <1>8 DEF StartUpdate, StartProcess, ProcessNext, GetMeta, CreateTask, SetTask, Rest, Goto, Die, Loop, TypeOK
  <2> QED
    BY <1>2, <2>1, <2>2
<1>9. (\E s \in Scheds : CreateSchedule(s) \/ DeleteSchedule(s) \/ Tick(s)) \/ HsetMeta \/ SaddSchedule
        \/ DeleteTask \/ DelHash \/ SremSchedule \/ EndTask \/ UNCHANGED vars
      => UNCHANGED <<squeue, crawler>>
  BY DEF CreateSchedule, DeleteSchedule, Tick, HsetMeta, SaddSchedule, DeleteTask, DelHash,
         SremSchedule, EndTask, vars
<1> QED
  BY <1>1, <1>3, <1>4, <1>5, <1>6, <1>7, <1>8, <1>9 DEF Next, User, FlaskCommand, CrawlerStep

\* A step that gives no schedule a task and no task to a request.
LEMMA NoNewTask ==
  ASSUME \A s \in Scheds : hash'[s].task \in {hash[s].task, None},
         \A r \in Reqs : dedup'[r] \in {dedup[r], None}
  PROVE  \A s \in Scheds : IsTasked(s)' => IsTasked(s)
  BY DEF IsTasked, ExistsTask

LEMMA TaskStep ==
  ASSUME Inv, [Next]_vars
  PROVE  TaskOK'
<1> USE DEF Inv
<1> DEFINE NoMore == \A s \in Scheds : IsTasked(s)' => IsTasked(s)
           NoneQueued == Range(squeue') \subseteq Range(squeue)
<1>1. /\ hash \in [Scheds -> [meta : BOOLEAN, task : Tasks \cup {None}]]
      /\ dedup \in [Reqs -> Tasks \cup {None}]
      /\ crawler \in [pc : PC, todo : Seq(Scheds), s : Scheds \cup {None}, t : Tasks \cup {None}]
      /\ crawler.pc \in OnSchedule => crawler.s \in Scheds
  BY DEF TypeOK
<1>2. ASSUME NoMore, NoneQueued, UNCHANGED crawler
      PROVE  TaskOK'
  <2>1. crawler.pc \in {"frequency", "zadd"} => crawler.s \in Scheds
    BY <1>1 DEF OnSchedule
  <2> QED
    BY <1>2, <2>1 DEF TaskOK, At, IsScheduled
<1>3. ASSUME NoMore, NoneQueued, crawler.pc # "zrem",
             crawler'.pc \notin {"frequency", "zadd", "set"}
      PROVE  TaskOK'
  BY <1>3 DEF TaskOK, At, IsScheduled
<1>4. ASSUME UNCHANGED <<hash, dedup>>
      PROVE  NoMore
  BY <1>4 DEF IsTasked, ExistsTask
<1>5. CASE HsetMeta \/ DelHash
  <2>1. key \in Scheds
    BY <1>5, SendsStep DEF HsetMeta, DelHash
  <2>2. \A s \in Scheds : hash'[s].task \in {hash[s].task, None}
    <3>1. CASE HsetMeta
      BY <1>1, <2>1, <3>1 DEF HsetMeta
    <3>2. CASE DelHash
      BY <1>1, <2>1, <3>2 DEF DelHash, NoHash
    <3> QED
      BY <1>5, <3>1, <3>2
  <2>3. UNCHANGED <<squeue, dedup, crawler>>
    BY <1>5 DEF HsetMeta, DelHash
  <2> QED
    BY <1>2, <2>2, <2>3, NoNewTask
<1>6. CASE DeleteTask \/ EndTask
  <2>1. \A r \in Reqs : dedup'[r] \in {dedup[r], None}
    BY <1>1, <1>6 DEF DeleteTask, EndTask
  <2>2. UNCHANGED <<squeue, hash, crawler>>
    BY <1>6 DEF DeleteTask, EndTask
  <2> QED
    BY <1>2, <2>1, <2>2, NoNewTask
<1>7. CASE ZremQueue
  BY <1>2, <1>4, <1>7, UnqueueStep DEF ZremQueue
<1>8. CASE UpdateTasked
  <2>1. UNCHANGED <<squeue, dedup>> /\ crawler.pc = "tasked" /\ crawler.s \in Scheds
    BY <1>1, <1>8 DEF UpdateTasked, At, OnSchedule
  <2>2. \A s \in Scheds : hash'[s].task \in {hash[s].task, None}
    BY <1>1, <1>8, <2>1 DEF UpdateTasked
  <2>3. NoMore
    BY <2>1, <2>2, NoNewTask
  <2>4. CASE crawler'.pc = "update"
    BY <1>3, <2>1, <2>3, <2>4
  <2>5. CASE crawler'.pc # "update"
    <3>1. crawler'.pc = "frequency" /\ crawler'.s = crawler.s /\ hash'[crawler.s].task = None
      BY <1>1, <1>8, <2>1, <2>5 DEF UpdateTasked, Goto
    <3>2. ~IsTasked(crawler.s)'
      BY <3>1 DEF IsTasked, ExistsTask
    <3> QED
      BY <2>1, <2>3, <3>1, <3>2 DEF TaskOK, At, IsScheduled
  <2> QED
    BY <2>4, <2>5
<1>9. CASE GetFrequency
  <2>1. UNCHANGED <<squeue, hash, dedup>> /\ crawler.pc = "frequency" /\ crawler.s \in Scheds
    BY <1>1, <1>9 DEF GetFrequency, At, OnSchedule
  <2>2. CASE crawler' = [crawler EXCEPT !.pc = "zadd"]
    <3>1. NoMore
      BY <1>4, <2>1
    <3> QED
      BY <1>1, <2>1, <2>2, <3>1 DEF TaskOK, At, IsScheduled
  <2>3. CASE crawler' = [Loop EXCEPT !.pc = "dead"]
    BY <1>3, <1>4, <2>1, <2>3 DEF Loop
  <2> QED
    BY <1>9, <2>2, <2>3 DEF GetFrequency, Goto, Die
<1>10. CASE SetNextRun
  <2>1. UNCHANGED <<hash, dedup>> /\ crawler.pc = "zadd" /\ crawler.s \in Scheds /\ crawler'.pc = "update"
    BY <1>1, <1>10 DEF SetNextRun, At, Goto, OnSchedule
  <2>2. NoMore
    BY <1>4, <2>1
  <2>3. \A s \in Scheds : IsScheduled(s)' => IsScheduled(s) \/ s = crawler.s
    BY <1>10, SetNextRunStep DEF IsScheduled
  <2>4. ~IsTasked(crawler.s)
    BY <2>1 DEF TaskOK
  <2>5. \A s \in Scheds : ~(IsScheduled(s)' /\ IsTasked(s)')
    BY <2>1, <2>2, <2>3, <2>4 DEF TaskOK, At
  <2> QED
    BY <2>1, <2>5 DEF TaskOK, At
<1>11. CASE CreateTask
  <2>1. UNCHANGED <<squeue, hash>> /\ crawler.pc = "create" /\ crawler.s \in Scheds
    BY <1>1, <1>11 DEF CreateTask, At, OnSchedule
  <2> DEFINE r == ReqOf[crawler.s]
  <2>2. PICK t \in Tasks : /\ IF dedup[r] = None THEN FreshTask(t) ELSE t = dedup[r]
                           /\ dedup' = [dedup EXCEPT ![r] = t]
                           /\ crawler' = [crawler EXCEPT !.pc = "set", !.t = t]
    BY <1>11 DEF CreateTask
  <2>3. r \in Reqs
    BY <2>1, SchedulesAssumption
  <2> HIDE DEF r
  <2>4. ASSUME NEW s \in Scheds, IsTasked(s)'
        PROVE  IsTasked(s)
    <3>1. PICK x \in Reqs : hash[s].task # None /\ dedup'[x] = hash[s].task
      BY <2>1, <2>4 DEF IsTasked, ExistsTask
    <3>2. CASE x # r
      BY <1>1, <2>2, <2>3, <3>1, <3>2 DEF IsTasked, ExistsTask
    <3>3. CASE x = r
      <4>1. hash[s].task = t
        BY <1>1, <2>2, <2>3, <3>1, <3>3
      <4>2. dedup[r] = t
        BY <2>2, <4>1 DEF FreshTask
      <4> QED
        BY <2>3, <3>1, <4>1, <4>2 DEF IsTasked, ExistsTask
    <3> QED
      BY <3>2, <3>3
  <2>5. crawler'.pc = "set" /\ crawler'.t = t
    BY <1>1, <2>2
  <2>6. \A s \in Scheds : ~(IsScheduled(s)' /\ IsTasked(s)')
    BY <2>1, <2>4 DEF TaskOK, At, IsScheduled
  <2> QED
    BY <2>5, <2>6 DEF TaskOK, At
<1>12. CASE SetTask
  <2>1. UNCHANGED <<squeue, dedup>> /\ crawler.pc = "set" /\ crawler.s \in Scheds
    BY <1>1, <1>12 DEF SetTask, At, OnSchedule
  <2>2. crawler'.pc = "zrem" /\ crawler'.s = crawler.s
    BY <1>1, <1>12 DEF SetTask, Goto
  <2>3. ASSUME NEW s \in Scheds, s # crawler.s
        PROVE  ~(IsScheduled(s)' /\ IsTasked(s)')
    <3>1. hash'[s] = hash[s]
      BY <1>1, <1>12, <2>3 DEF SetTask
    <3> QED
      BY <2>1, <2>3, <3>1 DEF TaskOK, At, IsScheduled, IsTasked, ExistsTask
  <2> QED
    BY <2>2, <2>3 DEF TaskOK, At
<1>13. CASE Dequeue
  <2>1. UNCHANGED <<hash, dedup>> /\ crawler.pc = "zrem" /\ crawler'.pc = "process"
    BY <1>1, <1>13 DEF Dequeue, At, Goto
  <2>2. NoMore
    BY <1>4, <2>1
  <2>3. Range(squeue') = Range(squeue) \ {crawler.s}
    BY <1>13, UnqueueStep DEF Dequeue
  <2>4. \A s \in Scheds : ~(IsScheduled(s)' /\ IsTasked(s)')
    BY <2>1, <2>2, <2>3 DEF TaskOK, At, IsScheduled
  <2> QED
    BY <2>1, <2>4 DEF TaskOK, At
<1>14. CASE StartUpdate \/ UpdateNext \/ StartProcess \/ ProcessNext \/ GetMeta \/ Rest
  <2>1. UNCHANGED <<squeue, hash, dedup>> /\ crawler.pc # "zrem"
    BY <1>14 DEF StartUpdate, UpdateNext, StartProcess, ProcessNext, GetMeta, Rest, At
  <2>2. crawler'.pc \notin {"frequency", "zadd", "set"}
    BY <1>1, <1>14
    DEF StartUpdate, UpdateNext, StartProcess, ProcessNext, GetMeta, Rest, Goto, Die, Loop
  <2> QED
    BY <1>3, <1>4, <2>1, <2>2
<1>15. (\E s \in Scheds : CreateSchedule(s) \/ DeleteSchedule(s) \/ Tick(s)) \/ SaddSchedule
         \/ SremSchedule \/ UNCHANGED vars
       => UNCHANGED <<squeue, crawler, hash, dedup>>
  BY DEF CreateSchedule, DeleteSchedule, Tick, SaddSchedule, SremSchedule, vars
<1>16. CASE UNCHANGED <<squeue, crawler, hash, dedup>>
  BY <1>2, <1>4, <1>16
<1> QED
  BY <1>5, <1>6, <1>7, <1>8, <1>9, <1>10, <1>11, <1>12, <1>13, <1>14, <1>15, <1>16
  DEF Next, User, FlaskCommand, CrawlerStep

----------------------------------------------------------------------------
(***************************************************************************)
(* An entry without schedule was added while the schedule was deleted.     *)
(***************************************************************************)
LEMMA StaleStep ==
  ASSUME Inv, [Next]_vars
  PROVE  StaleOK'
<1> USE DEF Inv
<1> DEFINE NoneQueued == Range(squeue') \subseteq Range(squeue)
           NoneDeleting == \A s : flask' \in Deletion(s) => flask \in Deletion(s)
<1>1. /\ hash \in [Scheds -> [meta : BOOLEAN, task : Tasks \cup {None}]]
      /\ squeue \in Seq(Scheds)
      /\ crawler \in [pc : PC, todo : Seq(Scheds), s : Scheds \cup {None}, t : Tasks \cup {None}]
      /\ crawler.pc \in OnSchedule => crawler.s \in Scheds
  BY DEF TypeOK
<1>2. Range(squeue) \subseteq Scheds
  BY <1>1, RangeOfSeq
<1>3. ASSUME NoneQueued, NoneDeleting, UNCHANGED raced,
             \A s \in Range(squeue') : ~Exists(s)' => ~Exists(s)
      PROVE  StaleOK'
  BY <1>3 DEF StaleOK
<1>4. ASSUME UNCHANGED hash
      PROVE  \A s : ~Exists(s)' => ~Exists(s)
  BY <1>4 DEF Exists
<1>5. ASSUME NEW s \in Scheds, CreateSchedule(s) \/ DeleteSchedule(s)
      PROVE  StaleOK'
  <2>1. UNCHANGED <<squeue, hash, raced>>
    BY <1>5 DEF CreateSchedule, DeleteSchedule
  <2>2. Head(flask').op \in {"meta", "zrem"}
    BY <1>5 DEF CreateSchedule, DeleteSchedule, Cmd
  <2>3. \A x : flask' \notin Deletion(x)
    BY <2>2 DEF Deletion, Cmd
  <2> QED
    BY <1>3, <1>4, <2>1, <2>3
<1>6. CASE HsetMeta \/ SaddSchedule \/ DeleteTask \/ SremSchedule
  <2>1. UNCHANGED <<squeue, raced>>
    BY <1>6 DEF HsetMeta, SaddSchedule, DeleteTask, SremSchedule
  <2>2. \E op : Sends(op) /\ op # "zrem"
    BY <1>6 DEF HsetMeta, SaddSchedule, DeleteTask, SremSchedule
  <2>3. NoneDeleting
    BY <2>2, SendsStep
  <2>4. CASE UNCHANGED hash
    BY <1>3, <1>4, <2>1, <2>3, <2>4
  <2>5. CASE HsetMeta
    <3>1. key \in Scheds
      BY <2>5, SendsStep DEF HsetMeta
    <3>2. \A s \in Scheds : ~Exists(s)' => ~Exists(s)
      BY <1>1, <2>5, <3>1 DEF HsetMeta, Exists, NoHash
    <3> QED
      BY <1>2, <1>3, <2>1, <2>3, <3>2
  <2> QED
    BY <1>6, <2>4, <2>5 DEF SaddSchedule, DeleteTask, SremSchedule
<1>7. CASE ZremQueue
  <2>1. UNCHANGED <<hash, raced>> /\ Range(squeue') = Range(squeue) \ {key}
    BY <1>7, UnqueueStep DEF ZremQueue
  <2>2. \A s : flask' \in Deletion(s) => s = key
    BY <1>7, SendsStep DEF ZremQueue
  <2>3. ASSUME NEW s \in Range(squeue')
        PROVE  s \in Range(squeue) /\ flask' \notin Deletion(s)
    BY <2>1, <2>2, <2>3
  <2> QED
    BY <1>4, <2>1, <2>3 DEF StaleOK
<1>8. CASE DelHash
  <2>1. UNCHANGED <<squeue, raced>> /\ key \in Scheds
    BY <1>8, SendsStep DEF DelHash
  <2>2. flask \in Deletion(key)
    BY <1>8, SendsStep DEF DelHash
  <2>3. NoneDeleting
    BY <1>8, SendsStep DEF DelHash
  <2>4. \A s \in Scheds : ~Exists(s)' => ~Exists(s) \/ s = key
    BY <1>1, <1>8, <2>1 DEF DelHash, Exists
  <2> QED
    BY <1>2, <2>1, <2>2, <2>3, <2>4 DEF StaleOK
<1>9. CASE UpdateTasked
  <2>1. UNCHANGED <<squeue, flask, raced>> /\ crawler.s \notin Range(squeue) /\ crawler.s \in Scheds
    BY <1>1, <1>9 DEF UpdateTasked, At, QueueOK, IsScheduled, OnSchedule
  <2>2. \A s \in Scheds : s # crawler.s => hash'[s] = hash[s]
    BY <1>1, <1>9, <2>1 DEF UpdateTasked
  <2>3. \A s \in Range(squeue') : ~Exists(s)' => ~Exists(s)
    BY <1>2, <2>1, <2>2 DEF Exists
  <2> QED
    BY <1>3, <2>1, <2>3
<1>10. CASE SetNextRun
  <2>1. UNCHANGED <<hash, flask>> /\ Range(squeue') = Range(squeue) \cup {crawler.s}
    BY <1>10, SetNextRunStep DEF SetNextRun
  <2>2. raced' = IF Deleting(crawler.s) \/ ~Exists(crawler.s) THEN raced \cup {crawler.s} ELSE raced
    BY <1>10 DEF SetNextRun
  <2>3. flask \in Deletion(crawler.s) => Deleting(crawler.s)
    <3>1. ASSUME flask \in Deletion(crawler.s)
          PROVE  1 \in DOMAIN flask /\ flask[1].s = crawler.s /\ flask[1].op \in {"task", "del", "srem"}
      BY <3>1 DEF Deletion, Cmd
    <3> QED
      BY <3>1 DEF Deleting
  <2> QED
    BY <1>4, <2>1, <2>2, <2>3 DEF StaleOK
<1>11. CASE SetTask
  <2>1. UNCHANGED <<squeue, flask, raced>> /\ crawler.s \in Scheds /\ crawler.t \in Tasks
    BY <1>1, <1>11 DEF SetTask, At, OnSchedule, TaskOK
  <2>2. crawler.t # None
    BY <2>1, SchedulesAssumption
  <2>3. \A s \in Scheds : ~Exists(s)' => ~Exists(s)
    BY <1>1, <1>11, <2>1, <2>2 DEF SetTask, Exists, NoHash
  <2> QED
    BY <1>2, <1>3, <2>1, <2>3
<1>12. CASE Dequeue
  <2>1. UNCHANGED <<hash, flask, raced>> /\ NoneQueued
    BY <1>12, UnqueueStep DEF Dequeue
  <2> QED
    BY <1>3, <1>4, <2>1
<1>13. CASE UNCHANGED <<squeue, hash, flask, raced>>
  BY <1>3, <1>4, <1>13
<1>14. StartUpdate \/ UpdateNext \/ GetFrequency \/ StartProcess \/ ProcessNext \/ GetMeta \/ CreateTask
         \/ Rest \/ EndTask \/ (\E s \in Scheds : Tick(s)) \/ UNCHANGED vars
       => UNCHANGED <<squeue, hash, flask, raced>>
  BY DEF StartUpdate, UpdateNext, GetFrequency, StartProcess, ProcessNext, GetMeta, CreateTask,
         Rest, EndTask, Tick, vars
<1> QED
  BY <1>5, <1>6, <1>7, <1>8, <1>9, <1>10, <1>11, <1>12, <1>13, <1>14
  DEF Next, User, FlaskCommand, CrawlerStep

----------------------------------------------------------------------------
(***************************************************************************)
(* The theorems.                                                           *)
(***************************************************************************)
LEMMA Inductive == Spec => []Inv
<1>1. Init => Inv
  BY InitInv
<1>2. Inv /\ [Next]_vars => Inv'
  BY TypeStep, FlaskStep, QueueStep, TaskStep, StaleStep DEF Inv
<1> QED
  BY <1>1, <1>2, PTL DEF Spec

\* The keys of the schedules, and the local variables of the Crawler and of Flask.
THEOREM TypeCorrect == Spec => []TypeOK
<1>1. Inv => TypeOK
  BY DEF Inv
<1> QED
  BY <1>1, Inductive, PTL

\* update_queue and process_queue read the queue and the task of a schedule at different
\* times; still no schedule is queued twice, or queued while its task is there.
THEOREM WaitsCorrect == Spec => []WaitsOrRuns
<1>1. Inv => WaitsOrRuns
  BY DEF Inv, QueueOK, TaskOK, WaitsOrRuns
<1> QED
  BY <1>1, Inductive, PTL

\* The entry that stops process_queue for good comes only from a deletion that update_queue
\* ran into, whatever else Flask and the Crawler do.
THEOREM StaleCorrect == Spec => []StaleOnlyRaced
<1>1. Inv => StaleOnlyRaced
  BY DEF Inv, StaleOK, StaleOnlyRaced, Stale
<1> QED
  BY <1>1, Inductive, PTL
=============================================================================
