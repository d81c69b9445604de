------------------------- MODULE CrawlerLifeProofs -------------------------
(***************************************************************************)
(* The tasks of the Crawler live as TaskLife has it, under the conditions  *)
(* of CrawlerPlacesProofs: every Redis command and every step of the       *)
(* polling loop is one step of TaskLife, or none.                          *)
(***************************************************************************)
EXTENDS CrawlerPlacesProofs, FiniteSetTheorems

\* The steps of TaskLife, in terms of the variables of CrawlerTasks.
Still == UNCHANGED <<Open, queue, Hand, WithLacus>>
LifeStep == Still \/ Life!Next

\* A task is with Lacus as it is not queued and not loose.
LEMMA LacusFacts ==
  ASSUME TypeOK, NEW t \in Tasks
  PROVE  /\ t \in WithLacus <=> queue[t] = None /\ ~Loose(t)
         /\ t \in Open <=> task[t].domain
         /\ Hand = t <=> me.task = t /\ task[t].domain /\ queue[t] = None /\ Loose(t)
<1>1. t # None
  BY CrawlerAssumption
<1> QED
  BY <1>1 DEF WithLacus, Open, Hand, Loose, TypeOK

LEMMA HandFacts ==
  Hand = None \/ Hand \in Tasks
BY DEF Hand, Open

\* A command that moves no task.
LEMMA StillFrame ==
  ASSUME \A u \in Tasks : task'[u].domain = task[u].domain,
         UNCHANGED <<queue, captures>>, me'.task = me.task,
         \A c \in captures : captask'[c] = captask[c]
  PROVE  Still
<1>1. Open' = Open
  BY DEF Open
<1>2. WithLacus' = WithLacus
  BY DEF WithLacus
<1> QED
  BY <1>1, <1>2 DEF Hand, Still

\* A task that gets a score when it has none.
LEMMA WaitFacts ==
  ASSUME TypeOK, NEW t \in Tasks, NEW v \in Nat, queue' = [queue EXCEPT ![t] = v]
  PROVE  Life!Wait(t) /\ queue'[t] = v /\ v # None /\ \A u \in Tasks : u # t => queue'[u] = queue[u]
BY CrawlerAssumption DEF Life!Wait, TypeOK

----------------------------------------------------------------------------
(***************************************************************************)
(* Who creates a task asks for it, and submits it last.                    *)
(***************************************************************************)
LEMMA MakesLife ==
  ASSUME Pends, NEW p \in Procs, Command(p), NEW t \in Tasks, NEW r \in Reqs, Makes(p, t, r)
  PROVE  LifeStep
<1>1. Base /\ TypeOK /\ NoUse(t) /\ Prio[r] \in Nat
  BY CrawlerAssumption DEF Pends, Base, Makes
<1>2. /\ task \in [Tasks -> [domain : BOOLEAN, hash : Reqs \cup {None}, start : BOOLEAN,
                           capture : Captures \cup {None}]]
      /\ captures \subseteq Captures
  BY <1>1 DEF TypeOK
<1>3. me'.task = me.task /\ me.task # t /\ queue[t] = None /\ Loose(t)
  BY <1>1, <1>2, CommandLocals DEF NoUse, Loose
<1>4. CASE Todo(p) = CreateTask(t, r)
  <2>0. CreateTask(t, r)[1] = Cmd("domain", t, TRUE)
    BY CreateLiterals
  <2>1. Next1(p) = Cmd("domain", t, TRUE)
    BY <1>4, <2>0, Zenon DEF Next1
  <2>2. /\ task' = [task EXCEPT ![t] = [@ EXCEPT !.domain = TRUE]]
        /\ UNCHANGED <<queue, captask, captures, cache>> /\ Todo(p)' = Tail(Todo(p))
    BY <1>1, <2>1, DoesDomain
  <2>3. task'[t].domain /\ \A u \in Tasks : u # t => task'[u] = task[u]
    BY <1>2, <2>2
  <2>4. WithLacus' = WithLacus
    BY <2>2 DEF WithLacus
  <2>5. Hand' = Hand
    BY <1>3, <2>2, <2>3, <2>4 DEF Hand, Open
  <2>6. CASE task[t].domain
    <3>1. Open' = Open
      BY <2>3, <2>6 DEF Open
    <3> QED
      BY <2>2, <2>4, <2>5, <3>1 DEF Still, LifeStep
  <2>7. CASE ~task[t].domain
    <3>1. t \notin Open /\ Open' = Open \cup {t}
      BY <2>3, <2>7 DEF Open
    <3>2. Life!Ask(t)
      BY <2>2, <2>4, <2>5, <3>1 DEF Life!Ask
    <3> QED
      BY <3>2 DEF LifeStep, Life!Next
  <2> QED
    BY <2>6, <2>7
<1>5. CASE task[t].domain /\ Todo(p) = AfterDomain(t, r)
  <2>1. Next1(p) = Cmd("dedup", r, t)
    BY <1>5, CreateLiterals, Zenon DEF Next1
  <2>2. UNCHANGED <<task, queue, captask, captures, cache>>
    BY <1>1, <2>1, DoesDedup, Zenon
  <2> QED
    BY <1>3, <2>2, StillFrame DEF LifeStep
<1>6. CASE task[t].domain /\ Todo(p) = AfterDedup(t, r)
  <2>1. Next1(p) = Cmd("hash", t, r)
    BY <1>6, CreateLiterals, Zenon DEF Next1
  <2>2. /\ task' = [task EXCEPT ![t] = [@ EXCEPT !.hash = r]]
        /\ UNCHANGED <<queue, captask, captures, cache>>
    BY <1>1, <2>1, DoesHash
  <2>3. \A u \in Tasks : task'[u].domain = task[u].domain
    BY <1>2, <2>2
  <2> QED
    BY <1>3, <2>2, <2>3, StillFrame DEF LifeStep
<1>7. CASE task[t].domain /\ Todo(p) = AfterHash(t, r)
  <2>0. AfterHash(t, r)[1] = Cmd("queue", t, Prio[r])
    BY CreateLiterals
  <2>1. Next1(p) = Cmd("queue", t, Prio[r])
    BY <1>7, <2>0, Zenon DEF Next1
  <2>2. queue' = [queue EXCEPT ![t] = Prio[r]] /\ UNCHANGED <<task, captask, captures, cache>>
    BY <1>1, <2>1, DoesQueue, Zenon
  <2>3. /\ Life!Wait(t) /\ queue'[t] # None
        /\ \A u \in Tasks : u # t => queue'[u] = queue[u]
    BY <1>1, <2>2, WaitFacts
  <2>4. t \in Open /\ t \notin WithLacus /\ Hand # t /\ Open' = Open
    BY <1>1, <1>3, <1>7, <2>2, LacusFacts DEF Open
  <2>5. WithLacus' = WithLacus
    BY <1>3, <2>2, <2>3 DEF WithLacus, Loose
  <2>6. Hand' = Hand
    BY <1>3, <2>2, <2>3, <2>4, <2>5 DEF Hand, Open
  <2>7. Life!Submit(t)
    BY <1>3, <2>3, <2>4, <2>5, <2>6 DEF Life!Submit
  <2> QED
    BY <2>7 DEF LifeStep, Life!Next
<1> QED
  BY <1>4, <1>5, <1>6, <1>7 DEF Makes

----------------------------------------------------------------------------
(***************************************************************************)
(* A task is given to Lacus when a slot is free: every task that Lacus is  *)
(* at has its capture in the cache.                                        *)
(***************************************************************************)
LEMMA MakesOps ==
  ASSUME NEW p, NEW t, NEW r, Makes(p, t, r)
  PROVE  \A k \in DOMAIN Todo(p) : Todo(p)[k].op \in {"domain", "dedup", "hash", "queue"}
<1>1. /\ \A k \in DOMAIN CreateTask(t, r) : CreateTask(t, r)[k].op \in {"domain", "dedup", "hash", "queue"}
      /\ \A k \in DOMAIN AfterDomain(t, r) : AfterDomain(t, r)[k].op \in {"dedup", "hash", "queue"}
      /\ \A k \in DOMAIN AfterDedup(t, r) : AfterDedup(t, r)[k].op \in {"hash", "queue"}
      /\ \A k \in DOMAIN AfterHash(t, r) : AfterHash(t, r)[k].op \in {"queue"}
  BY DEF CreateTask, AfterDomain, AfterDedup, AfterHash, Cmd
<1> QED
  BY <1>1 DEF Makes

LEMMA GivesCached ==
  ASSUME Places, PolledOrReplaced, NEW t, NEW c, MakesCapture(t, c),
         Todo(Crawler) = AfterCapTask(c), NEW d \in captures
  PROVE  InCache(d)
<1>1. c # d /\ me.pc = "push"
  BY DEF MakesCapture
<1>2. ~Replaced(d)
  BY DEF Places, CapturesOwn, Own, Replaced
<1>3. ASSUME NEW op \in {"cacheAdd", "zrem", "remove"}, NEW p \in Clients, NEW key
      PROVE  ~Pending(p, op, key)
  <2>1. CASE Todo(p) = <<>>
    BY <2>1 DEF Pending, Todo
  <2>2. CASE MakesTask(p)
    BY <2>2, MakesOps DEF MakesTask, Pending, Todo
  <2> QED
    BY <2>1, <2>2 DEF Places, Makers
<1>4. \A k \in DOMAIN AfterCapTask(c) :
          /\ AfterCapTask(c)[k].op \in {"zadd", "cacheAdd"} /\ AfterCapTask(c)[k].key = c
  BY DEF AfterCapTask, Cmd
<1>5. /\ ~Pending(Crawler, "cacheAdd", d) /\ ~Pending(Crawler, "zrem", d)
      /\ \A u : ~Pending(Crawler, "remove", u)
  BY <1>1, <1>4 DEF Pending, Todo
<1>6. Polled(d)
  BY <1>2 DEF PolledOrReplaced
<1> QED
  BY <1>1, <1>3, <1>5, <1>6, ProcsFacts DEF Polled

LEMMA GivesSlot ==
  ASSUME Places, PolledOrReplaced, SlotLimit, NEW t, NEW c \in Captures, MakesCapture(t, c),
         Todo(Crawler) = AfterCapTask(c)
  PROVE  Cardinality(WithLacus) < MaxCaptures
<1>1. cache \in Seq(Captures) /\ MaxCaptures \in Nat
  BY CrawlerAssumption DEF Places, Pends, Base, TypeOK
<1>2. Len(cache) \in Nat /\ DOMAIN cache = 1 .. Len(cache)
  BY <1>1
<1>3. Len(cache) < MaxCaptures
  <2>1. 2 \in DOMAIN AfterCapTask(c) /\ AfterCapTask(c)[2].op = "cacheAdd" /\ AfterCapTask(c)[2].key = c
    BY DEF AfterCapTask, Cmd
  <2>2. Pending(Crawler, "cacheAdd", c)
    BY <2>1 DEF Pending, Todo
  <2>3. Held = 1
    BY <2>2 DEF Held
  <2> QED
    BY <1>1, <1>2, <2>3 DEF SlotLimit
<1> DEFINE Place(u) == CHOOSE k \in DOMAIN cache : captask[cache[k]] = u
           f == [u \in WithLacus |-> Place(u)]
<1>4. ASSUME NEW u \in WithLacus
      PROVE  f[u] \in 1 .. Len(cache) /\ captask[cache[f[u]]] = u
  <2>1. PICK d \in captures : captask[d] = u
    BY <1>4 DEF WithLacus
  <2>2. \E k \in DOMAIN cache : captask[cache[k]] = u
    BY <2>1, GivesCached DEF InCache
  <2>3. Place(u) \in DOMAIN cache /\ captask[cache[Place(u)]] = u
    BY <2>2
  <2> QED
    BY <1>2, <2>3
<1>5. f \in Injection(WithLacus, 1 .. Len(cache))
  <2>1. f \in [WithLacus -> 1 .. Len(cache)]
    BY <1>4
  <2>2. \A u, w \in WithLacus : f[u] = f[w] => u = w
    BY <1>4
  <2> QED
    BY <2>1, <2>2 DEF Injection, IsInjective
<1> HIDE DEF f
<1>6. IsFiniteSet(1 .. Len(cache)) /\ Cardinality(1 .. Len(cache)) = Len(cache)
  <2>1. PICK n \in Nat : n = Len(cache)
    BY <1>2, Zenon
  <2>2. IsFiniteSet(1 .. n) /\ Cardinality(1 .. n) = IF 1 > n THEN 0 ELSE n - 1 + 1
    BY FS_Interval
  <2>3. Cardinality(1 .. n) = n
    BY <2>2
  <2> QED
    BY <2>1, <2>2, <2>3, Zenon
<1>7. Cardinality(WithLacus) <= Len(cache) /\ IsFiniteSet(WithLacus)
  BY <1>5, <1>6, FS_Injection
<1>8. Cardinality(WithLacus) \in Nat
  BY <1>7, FS_CardinalityType
<1> QED
  BY <1>1, <1>2, <1>3, <1>7, <1>8

----------------------------------------------------------------------------
(***************************************************************************)
(* The commands of the Crawler for its task, stage by stage.               *)
(***************************************************************************)
\* The fields of a task but the domain move nothing.
LEMMA FieldStill ==
  ASSUME TypeOK, UNCHANGED <<queue, captask, captures>>, me'.task = me.task, NEW t, NEW v,
         \/ task' = [task EXCEPT ![t] = [@ EXCEPT !.start = v]]
         \/ task' = [task EXCEPT ![t] = [@ EXCEPT !.capture = v]]
  PROVE  Still
<1>1. task \in [Tasks -> [domain : BOOLEAN, hash : Reqs \cup {None}, start : BOOLEAN,
                          capture : Captures \cup {None}]]
  BY DEF TypeOK
<1>2. \A u \in Tasks : task'[u].domain = task[u].domain
  BY <1>1
<1> QED
  BY <1>2, StillFrame

LEMMA HasTaskLife ==
  ASSUME Places, Command(Crawler), NEW t \in Tasks, HasTask(t)
  PROVE  LifeStep
<1>1. Base /\ TypeOK /\ Crawler \in Procs /\ Todo(Crawler) # <<>>
  BY ProcsFacts, Effects DEF Places, Pends, Base, TypeOK
<1>2. me'.task = me.task
  BY <1>1, CommandLocals
<1>3. me.task = t /\ task[t].domain /\ queue[t] = None /\ Loose(t) /\ t # None
  BY CrawlerAssumption DEF HasTask, Holds
<1>4. ASSUME NEW b, Next1(Crawler) = Cmd("start", t, b) PROVE LifeStep
  <2>1. task' = [task EXCEPT ![t] = [@ EXCEPT !.start = b]]
        /\ UNCHANGED <<queue, captask, captures, cache>>
    BY <1>1, <1>4, DoesStart
  <2> QED
    BY <1>1, <1>2, <2>1, FieldStill DEF LifeStep
<1>5. CASE Todo(Crawler) = StartTask(t)
  <2>1. Next1(Crawler) = Cmd("start", t, TRUE)
    BY <1>5, TaskLiterals, Zenon DEF Next1
  <2> QED
    BY <1>4, <2>1, Zenon
<1>6. CASE Todo(Crawler) = TaskReset(t)
  <2>1. Next1(Crawler) = Cmd("start", t, FALSE)
    BY <1>6, TaskLiterals, Zenon DEF Next1
  <2> QED
    BY <1>4, <2>1, Zenon
<1>7. ASSUME NEW v \in Nat \ {0}, Todo(Crawler) = QueueTask(t, v) PROVE LifeStep
  <2>0. QueueTask(t, v)[1] = Cmd("queue", t, v)
    BY DEF QueueTask
  <2>1. Next1(Crawler) = Cmd("queue", t, v)
    BY <1>7, <2>0, Zenon DEF Next1
  <2>2. queue' = [queue EXCEPT ![t] = v] /\ UNCHANGED <<task, captask, captures, cache>>
    BY <1>1, <2>1, DoesQueue
  <2>3. /\ Life!Wait(t) /\ queue'[t] # None
        /\ \A u \in Tasks : u # t => queue'[u] = queue[u]
    BY <1>1, <2>2, WaitFacts
  <2>4. Hand = t /\ Open' = Open
    BY <1>1, <1>3, <2>2, LacusFacts DEF Open
  <2>5. Hand' = None
    BY <1>2, <1>3, <2>3 DEF Hand
  <2>6. WithLacus' = WithLacus
    BY <1>3, <2>2, <2>3 DEF WithLacus, Loose
  <2>7. Life!PutBack(t)
    BY <2>3, <2>4, <2>5, <2>6 DEF Life!PutBack
  <2> QED
    BY <2>7 DEF LifeStep, Life!Next
<1> QED
  BY <1>1, <1>5, <1>6, <1>7 DEF HasTask

LEMMA MakesCaptureLife ==
  ASSUME Places, PolledOrReplaced, SlotLimit, Command(Crawler), NEW t \in Tasks, NEW c \in Captures,
         MakesCapture(t, c)
  PROVE  LifeStep
<1>1. Base /\ TypeOK /\ Crawler \in Procs
  BY ProcsFacts DEF Places, Pends, Base
<1>2. me'.task = me.task
  BY <1>1, CommandLocals
<1>3. /\ me.task = t /\ task[t].domain /\ queue[t] = None /\ Loose(t) /\ c \notin captures
      /\ captask \in [Captures -> Tasks \cup {None}]
  BY <1>1 DEF MakesCapture, Holds, TypeOK
<1>4. CASE Todo(Crawler) = CreateCapture(c, t)
  <2>1. Next1(Crawler) = Cmd("capture", t, c)
    BY <1>4, CaptureLiterals, Zenon DEF Next1
  <2>2. task' = [task EXCEPT ![t] = [@ EXCEPT !.capture = c]]
        /\ UNCHANGED <<queue, captask, captures, cache>>
    BY <1>1, <2>1, DoesCapture
  <2> QED
    BY <1>1, <1>2, <2>2, FieldStill DEF LifeStep
<1>5. CASE Todo(Crawler) = AfterCapture(c, t)
  <2>1. Next1(Crawler) = Cmd("captask", c, t)
    BY <1>5, CaptureLiterals, Zenon DEF Next1
  <2>2. captask' = [captask EXCEPT ![c] = t] /\ UNCHANGED <<task, queue, captures, cache>>
    BY <1>1, <2>1, DoesCapTask
  <2>3. \A d \in captures : captask'[d] = captask[d]
    BY <1>1, <1>3, <2>2 DEF TypeOK
  <2> QED
    BY <1>2, <2>2, <2>3, StillFrame DEF LifeStep
<1>6. CASE Todo(Crawler) = AfterCapTask(c) /\ captask[c] = t
  <2>0. AfterCapTask(c)[1] = Cmd("zadd", c, None)
    BY CaptureLiterals
  <2>1. Next1(Crawler) = Cmd("zadd", c, None)
    BY <1>6, <2>0, Zenon DEF Next1
  <2>2. captures' = captures \cup {c} /\ UNCHANGED <<task, queue, captask, cache>>
    BY <1>1, <2>1, DoesZadd
  <2>3. Hand = t /\ Open' = Open /\ t # None
    BY <1>1, <1>3, <2>2, LacusFacts, CrawlerAssumption DEF Open
  <2>4. WithLacus' = WithLacus \cup {t}
    BY <1>3, <1>6, <2>2 DEF WithLacus
  <2>5. Hand' = None
    BY <1>2, <1>3, <2>4 DEF Hand
  <2>6. Cardinality(WithLacus) < MaxCaptures
    BY <1>6, GivesSlot
  <2>7. Life!Cardinality(WithLacus) = Cardinality(WithLacus)
    BY DEF Life!Cardinality, Cardinality
  <2>8. Life!Give(t)
    BY <2>2, <2>3, <2>4, <2>5, <2>6, <2>7 DEF Life!Give
  <2> QED
    BY <2>8 DEF LifeStep, Life!Next
<1> QED
  BY <1>4, <1>5, <1>6 DEF MakesCapture

LEMMA HasCaptureLife ==
  ASSUME Places, Command(Crawler), NEW t \in Tasks, NEW c \in Captures, HasCapture(t, c)
  PROVE  LifeStep
<1>1. Base /\ TypeOK /\ Crawler \in Procs /\ Todo(Crawler) # <<>>
  BY ProcsFacts, Effects DEF Places, Pends, Base, TypeOK
<1>2. me'.task = me.task
  BY <1>1, CommandLocals
<1>3. me.task = t /\ c \in captures /\ captask[c] = t /\ t # None
  BY CrawlerAssumption DEF HasCapture
<1>4. ASSUME UNCHANGED <<task, queue, captask, captures>> PROVE LifeStep
  BY <1>2, <1>4, StillFrame DEF LifeStep
<1>5. CASE Todo(Crawler) = AfterZadd(c)
  <2>0. AfterZadd(c)[1] = Cmd("cacheAdd", c, None)
    BY BothLiterals
  <2>1. Next1(Crawler) = Cmd("cacheAdd", c, None)
    BY <1>5, <2>0, Zenon DEF Next1
  <2> QED
    BY <1>1, <1>4, <2>1, DoesCacheAdd
<1>6. CASE Todo(Crawler) = ResetBoth(t, c)
  <2>0. ResetBoth(t, c)[1] = Cmd("start", t, FALSE)
    BY BothLiterals
  <2>1. Next1(Crawler) = Cmd("start", t, FALSE)
    BY <1>6, <2>0, Zenon DEF Next1
  <2>2. ASSUME NEW b, Next1(Crawler) = Cmd("start", t, b) PROVE LifeStep
    <3>1. task' = [task EXCEPT ![t] = [@ EXCEPT !.start = b]]
          /\ UNCHANGED <<queue, captask, captures, cache>>
      BY <1>1, <2>2, DoesStart
    <3> QED
      BY <1>1, <1>2, <3>1, FieldStill DEF LifeStep
  <2> QED
    BY <2>1, <2>2, Zenon
<1>7. CASE Todo(Crawler) = QueueBoth(t, c) /\ queue[t] = None
  <2>0. QueueBoth(t, c)[1] = Cmd("queue", t, 49)
    BY BothLiterals
  <2>1. Next1(Crawler) = Cmd("queue", t, 49)
    BY <1>7, <2>0, Zenon DEF Next1
  <2>2. queue' = [queue EXCEPT ![t] = 49] /\ UNCHANGED <<task, captask, captures, cache>>
    BY <1>1, <2>1, DoesQueue
  <2>3. /\ Life!Wait(t) /\ queue'[t] # None
        /\ \A u \in Tasks : u # t => queue'[u] = queue[u]
    BY <1>1, <2>2, WaitFacts
  <2>4. t \in WithLacus /\ Open' = Open
    BY <1>3, <1>7, <2>2 DEF WithLacus, Open
  <2>5. WithLacus' = WithLacus \ {t}
    BY <2>2, <2>3 DEF WithLacus
  <2>6. Hand' = Hand
    BY <1>2, <1>3, <2>3, <2>4 DEF Hand
  <2>7. Life!Retry(t)
    BY <2>3, <2>4, <2>5, <2>6 DEF Life!Retry
  <2> QED
    BY <2>7 DEF LifeStep, Life!Next
<1>8. CASE Todo(Crawler) = DropCapture(c)
  <2>0. DropCapture(c)[1] = Cmd("cacheRem", c, None)
    BY BothLiterals
  <2>1. Next1(Crawler) = Cmd("cacheRem", c, None)
    BY <1>8, <2>0, Zenon DEF Next1
  <2> QED
    BY <1>1, <1>4, <2>1, DoesCacheRem
<1>9. CASE Todo(Crawler) = CaptureRemove(c) /\ queue[t] # None
  <2>0. CaptureRemove(c)[1] = Cmd("zrem", c, None)
    BY BothLiterals
  <2>1. Next1(Crawler) = Cmd("zrem", c, None)
    BY <1>9, <2>0, Zenon DEF Next1
  <2>2. captures' = captures \ {c} /\ UNCHANGED <<task, queue, captask, cache>>
    BY <1>1, <2>1, DoesZrem
  <2>3. Open' = Open /\ WithLacus' = WithLacus
    BY <1>3, <1>9, <2>2 DEF Open, WithLacus
  <2>4. Hand' = Hand
    BY <1>2, <2>2, <2>3 DEF Hand
  <2> QED
    BY <2>2, <2>3, <2>4 DEF LifeStep, Still
<1> QED
  BY <1>1, <1>5, <1>6, <1>7, <1>8, <1>9 DEF HasCapture

LEMMA ForgetsLife ==
  ASSUME Places, Command(Crawler), NEW t \in Tasks, NEW c \in Captures, Forgets(t, c)
  PROVE  LifeStep
<1>1. Base /\ TypeOK /\ Crawler \in Procs
  BY ProcsFacts DEF Places, Pends, Base
<1>2. me'.task = me.task /\ captask \in [Captures -> Tasks \cup {None}] /\ c \notin captures
  BY <1>1, CommandLocals DEF TypeOK, Forgets
<1>3. AfterZrem(c)[1] = Cmd("captask", c, None)
  BY BothLiterals
<1>4. Next1(Crawler) = Cmd("captask", c, None)
  BY <1>3, Zenon DEF Next1, Forgets
<1>5. captask' = [captask EXCEPT ![c] = None] /\ UNCHANGED <<task, queue, captures, cache>>
  BY <1>1, <1>4, DoesCapTask
<1>6. \A d \in captures : captask'[d] = captask[d]
  BY <1>1, <1>2, <1>5 DEF TypeOK
<1> QED
  BY <1>2, <1>5, <1>6, StillFrame DEF LifeStep

LEMMA EndsTaskLife ==
  ASSUME Places, Command(Crawler), NEW t \in Tasks, EndsTask(t)
  PROVE  LifeStep
<1>1. Base /\ TypeOK /\ Crawler \in Procs
  BY ProcsFacts DEF Places, Pends, Base
<1>2. /\ me'.task = me.task /\ me.task = t /\ task[t].domain /\ queue[t] = None /\ t # None
      /\ queue \in [Tasks -> Nat \cup {None}]
      /\ captask \in [Captures -> Tasks \cup {None}] /\ captures \subseteq Captures
  BY <1>1, CommandLocals, CrawlerAssumption DEF EndsTask, Holds, TypeOK
<1>3. ASSUME UNCHANGED <<task, queue, captask, captures>> PROVE LifeStep
  BY <1>2, <1>3, StillFrame DEF LifeStep
<1>4. CASE Todo(Crawler) = DropTask(t)
  <2>0. DropTask(t)[1] = Cmd("queue", t, None)
    BY TaskLiterals
  <2>1. Next1(Crawler) = Cmd("queue", t, None)
    BY <1>4, <2>0, Zenon DEF Next1
  <2>2. queue' = [queue EXCEPT ![t] = None] /\ UNCHANGED <<task, captask, captures, cache>>
    BY <1>1, <2>1, DoesQueue
  <2>3. queue' = queue
    BY <1>2, <2>2
  <2> QED
    BY <1>3, <2>2, <2>3
<1>5. CASE Todo(Crawler) = TaskRemove(t)
  <2>0. TaskRemove(t)[1] = Cmd("remove", t, None)
    BY TaskLiterals
  <2>1. Next1(Crawler) = Cmd("remove", t, None)
    BY <1>5, <2>0, Zenon DEF Next1
  <2> QED
    BY <1>1, <1>3, <2>1, DoesRemove
<1>6. ASSUME NEW c \in Captures, Todo(Crawler) = RemoveBoth(t, c), task[t].capture = c PROVE LifeStep
  <2>0. RemoveBoth(t, c)[1] = Cmd("zrem", c, None)
    BY BothLiterals
  <2>1. Next1(Crawler) = Cmd("zrem", c, None)
    BY <1>6, <2>0, Zenon DEF Next1
  <2>2. captures' = captures \ {c} /\ UNCHANGED <<task, queue, captask, cache>>
    BY <1>1, <2>1, DoesZrem
  <2>3. CASE c \notin captures
    BY <1>3, <2>2, <2>3
  <2>4. CASE c \in captures
    <3>1. captask[c] = t
      BY <1>6, <2>4, CrawlerAssumption DEF Places, Pends, CaptureKnown, CapturesOwn, Own
    <3>2. \A d \in captures : captask[d] = t => d = c
      BY <1>6 DEF Places, CapturesOwn, Own
    <3>3. t \in WithLacus /\ WithLacus' = WithLacus \ {t}
      BY <1>2, <2>2, <2>4, <3>1, <3>2 DEF WithLacus
    <3>4. Open' = Open /\ Hand = None /\ Hand' = t
      BY <1>2, <2>2, <3>3 DEF Hand, Open
    <3>5. Life!Fetch(t)
      BY <2>2, <3>3, <3>4 DEF Life!Fetch
    <3> QED
      BY <3>5 DEF LifeStep, Life!Next
  <2> QED
    BY <2>3, <2>4
<1>7. ASSUME NEW c \in Captures, Todo(Crawler) = RemoveTask(t, c), c \notin captures PROVE LifeStep
  <2>0. RemoveTask(t, c)[1] = Cmd("captask", c, None)
    BY BothLiterals
  <2>1. Next1(Crawler) = Cmd("captask", c, None)
    BY <1>7, <2>0, Zenon DEF Next1
  <2>2. captask' = [captask EXCEPT ![c] = None] /\ UNCHANGED <<task, queue, captures, cache>>
    BY <1>1, <2>1, DoesCapTask
  <2>3. \A d \in captures : captask'[d] = captask[d]
    BY <1>2, <1>7, <2>2
  <2> QED
    BY <1>2, <2>2, <2>3, StillFrame DEF LifeStep
<1>8. CASE Todo(Crawler) = RemoveHashes(t)
  <2>0. RemoveHashes(t)[1] = Cmd("hdelDedup", t, None)
    BY TaskLiterals
  <2>1. Next1(Crawler) = Cmd("hdelDedup", t, None)
    BY <1>8, <2>0, Zenon DEF Next1
  <2> QED
    BY <1>1, <1>3, <2>1, DoesDedup
<1>9. CASE Todo(Crawler) = RemoveHash(t) /\ Loose(t)
  <2>0. RemoveHash(t)[1] = Cmd("del", t, None)
    BY TaskLiterals
  <2>1. Next1(Crawler) = Cmd("del", t, None)
    BY <1>9, <2>0, Zenon DEF Next1
  <2>2. task' = [task EXCEPT ![t] = NoTask] /\ UNCHANGED <<queue, captask, captures, cache>>
    BY <1>1, <2>1, DoesDel
  <2>3. task'[t].domain = FALSE /\ \A u \in Tasks : u # t => task'[u] = task[u]
    BY <1>1, <2>2 DEF NoTask, TypeOK
  <2>4. Hand = t /\ Open' = Open \ {t} /\ WithLacus' = WithLacus
    BY <1>1, <1>2, <1>9, <2>2, <2>3, LacusFacts DEF Open, WithLacus
  <2>5. Hand' = None
    BY <1>2, <2>4 DEF Hand
  <2>6. Life!Close(t)
    BY <2>2, <2>4, <2>5 DEF Life!Close
  <2> QED
    BY <2>6 DEF LifeStep, Life!Next
<1> QED
  BY <1>4, <1>5, <1>6, <1>7, <1>8, <1>9 DEF EndsTask

LEMMA CommandLife ==
  ASSUME Places, PolledOrReplaced, SlotLimit, NEW p \in Procs, Command(p)
  PROVE  LifeStep
<1>1. Pends /\ Todo(p) # <<>>
  BY Effects DEF Places, Pends, Base, TypeOK
<1>2. ASSUME MakesTask(p) PROVE LifeStep
  BY <1>1, <1>2, MakesLife DEF MakesTask
<1>3. CASE p # Crawler
  BY <1>1, <1>2, <1>3, ProcsFacts DEF Places, Makers
<1>4. CASE p = Crawler
  <2>1. ~Idle
    BY <1>1, <1>4 DEF Idle
  <2>2. ASSUME NEW t \in Tasks, HasTask(t) \/ EndsTask(t) PROVE LifeStep
    BY <1>4, <2>2, HasTaskLife, EndsTaskLife
  <2>3. ASSUME NEW t \in Tasks, NEW c \in Captures,
               MakesCapture(t, c) \/ HasCapture(t, c) \/ Forgets(t, c)
        PROVE  LifeStep
    BY <1>4, <2>3, MakesCaptureLife, HasCaptureLife, ForgetsLife
  <2> QED
    BY <1>2, <1>4, <2>1, <2>2, <2>3 DEF Places, Stage
<1> QED
  BY <1>3, <1>4

----------------------------------------------------------------------------
(***************************************************************************)
(* The polling loop: only zpopmax moves a task.                            *)
(***************************************************************************)
\* With nothing pending the Crawler holds no task but the one it has popped.
LEMMA HandEmpty ==
  ASSUME Places, Todo(Crawler) = <<>>, me.pc \notin {"filter", "enqueue"}
  PROVE  Hand = None
<1>1. TypeOK
  BY DEF Places, Pends, Base
<1>2. SUFFICES ASSUME NEW t \in Tasks, Hand = t PROVE FALSE
  BY HandFacts
<1>3. me.task = t /\ task[t].domain /\ queue[t] = None /\ Loose(t)
  BY <1>1, <1>2, LacusFacts
<1>4. ~HasTask(t)
  BY InHands
<1>5. ~EndsTask(t) /\ \A c : ~MakesCapture(t, c)
  BY Quiescent
<1>6. \A p, r : ~Makes(p, t, r)
  BY <1>3 DEF Makes, NoUse
<1> QED
  BY <1>3, <1>4, <1>5, <1>6 DEF Places, AllPlaced, Placed

\* A step that changes no record and keeps the task of the Crawler.
LEMMA MoveStill ==
  ASSUME UNCHANGED <<task, queue, captask, captures>>, me'.task = me.task
  PROVE  LifeStep
BY StillFrame DEF LifeStep

\* A step that changes no record while the Crawler holds no task.
LEMMA MoveEmpty ==
  ASSUME UNCHANGED <<task, queue, captask, captures>>, Hand = None, Hand' = None
  PROVE  LifeStep
BY DEF LifeStep, Still, Open, WithLacus

LEMMA SameTask ==
  ASSUME TypeOK, NEW cmds
  PROVE  /\ BackDo(cmds) => me'.task = me.task
         /\ \A pc : GotoDo(pc, cmds) => me'.task = me.task
         /\ \A p \in Procs : Do(p, cmds) => me'.task = me.task
<1>1. proc \in [Procs -> Locals] /\ Crawler \in Procs /\ proc[Crawler] \in Locals
  BY ProcsFacts DEF TypeOK
<1>2. ASSUME NEW pc, proc' = [proc EXCEPT ![Crawler].pc = pc, ![Crawler].todo = cmds]
      PROVE  me'.task = me.task
  BY <1>1, <1>2 DEF me, Locals
<1>3. ASSUME NEW p \in Procs, proc' = [proc EXCEPT ![p].todo = cmds]
      PROVE  me'.task = me.task
  BY <1>1, <1>3 DEF me, Locals
<1> QED
  BY <1>2, <1>3 DEF BackDo, GotoDo, Do

LEMMA PopLife ==
  ASSUME Places, PopTask
  PROVE  LifeStep
<1>1. /\ UNCHANGED <<task, dedup, captask, captures, cache, created>> /\ me.pc = "pop"
      /\ Todo(Crawler) = <<>>
  BY Zenon DEF PopTask, At, Free, Todo
<1>2. TypeOK /\ proc \in [Procs -> Locals] /\ queue \in [Tasks -> Nat \cup {None}]
  BY DEF Places, Pends, Base, TypeOK
<1>3. Hand = None
  BY <1>1, HandEmpty
<1>4. CASE \A t \in Tasks : queue[t] = None
  <2>1. GotoDo("poll", <<>>) /\ UNCHANGED queue
    BY <1>4, Zenon DEF PopTask
  <2>2. me'.task = me.task
    BY <1>2, <2>1, SameTask, Zenon
  <2> QED
    BY <1>1, <2>1, <2>2, MoveStill
<1>5. CASE ~ \A t \in Tasks : queue[t] = None
  <2>1. PICK t \in Tasks :
           /\ queue[t] # None
           /\ \A u \in Tasks : queue[u] # None => queue[u] <= queue[t]
           /\ queue' = [queue EXCEPT ![t] = None]
           /\ proc' = [proc EXCEPT ![Crawler].pc = "filter", ![Crawler].task = t,
                                   ![Crawler].prio = queue[t]]
    BY <1>5, Zenon DEF PopTask
  <2>2. me'.task = t
    BY <1>2, <2>1, ProcsFacts DEF me, Locals
  <2>3. queue'[t] = None /\ \A u \in Tasks : u # t => queue'[u] = queue[u]
    BY <1>2, <2>1
  <2>4. task[t].domain /\ Loose(t) /\ t # None
    <3>1. \A c \in captures : queue[captask[c]] = None
      BY <1>1, Quiescent
    <3> QED
      BY <2>1, <3>1, CrawlerAssumption DEF Places, QueuedKnown, Loose
  <2>5. Open' = Open /\ t \in Open
    BY <1>1, <2>4 DEF Open
  <2>6. WithLacus' = WithLacus /\ t \notin WithLacus
    BY <1>1, <2>3, <2>4 DEF WithLacus, Loose
  <2>7. Hand' = t
    BY <2>2, <2>3, <2>5, <2>6 DEF Hand
  <2>8. Life!Take(t)
    BY <1>3, <2>1, <2>5, <2>6, <2>7 DEF Life!Take
  <2> QED
    BY <2>8 DEF LifeStep, Life!Next
<1> QED
  BY <1>4, <1>5

LEMMA PollLife ==
  ASSUME Places, PollCapture
  PROVE  LifeStep
<1>1. /\ UNCHANGED <<task, queue, dedup, captask, captures, created>> /\ me.pc = "poll"
      /\ Todo(Crawler) = <<>>
  BY DEF PollCapture, At, Free, Todo
<1>2. TypeOK /\ proc \in [Procs -> Locals] /\ cache \in Seq(Captures)
  BY DEF Places, Pends, Base, TypeOK
<1>3. CASE cache = <<>>
  <2>1. BackDo(<<>>)
    BY <1>3 DEF PollCapture
  <2>2. me'.task = me.task
    BY <1>2, <2>1, SameTask, Zenon
  <2> QED
    BY <1>1, <2>2, MoveStill
<1>4. CASE cache # <<>>
  <2>1. Head(cache) \in captures
    <3>1. 1 \in DOMAIN cache /\ Head(cache) = cache[1]
      BY <1>2, <1>4
    <3> QED
      BY <3>1 DEF Places, CacheOnce
  <2> DEFINE l == [Loop EXCEPT !.pc = "status", !.capture = Head(cache), !.task = captask[Head(cache)]]
  <2>2. proc' = [proc EXCEPT ![Crawler] = l]
    BY <1>4 DEF PollCapture
  <2>3. l.task = captask[Head(cache)]
    BY DEF Loop
  <2> HIDE DEF l
  <2>4. me'.task = captask[Head(cache)]
    BY <1>2, <2>2, <2>3, ProcsFacts DEF me
  <2>5. Hand = None
    BY <1>1, HandEmpty
  <2>6. me'.task \in WithLacus
    <3>1. captask[Head(cache)] \in Tasks /\ queue[captask[Head(cache)]] = None
      BY <1>1, <2>1, Quiescent
    <3> QED
      BY <2>1, <2>4, <3>1 DEF WithLacus
  <2>7. Hand' = None
    <3>1. WithLacus' = WithLacus
      BY <1>1 DEF WithLacus
    <3> QED
      BY <2>6, <3>1 DEF Hand
  <2> QED
    BY <1>1, <2>5, <2>7, MoveEmpty
<1> QED
  BY <1>3, <1>4

LEMMA SlotsLife ==
  ASSUME Places, CheckSlots
  PROVE  LifeStep
<1>1. UNCHANGED redis /\ me.pc = "slots" /\ Todo(Crawler) = <<>> /\ proc \in [Procs -> Locals]
  BY DEF CheckSlots, At, Free, Todo, Places, Pends, Base, TypeOK
<1>2. Hand = None
  BY <1>1, HandEmpty
<1> DEFINE l == [Loop EXCEPT !.pc = IF Len(cache) < MaxCaptures THEN "pop" ELSE "poll"]
<1>3. proc' = [proc EXCEPT ![Crawler] = l] /\ l.task = None
  BY DEF CheckSlots, Loop
<1> HIDE DEF l
<1>4. me'.task = None
  BY <1>1, <1>3, ProcsFacts DEF me
<1>5. Hand' = None
  BY <1>4 DEF Hand
<1> QED
  BY <1>1, <1>2, <1>5, MoveEmpty DEF redis

\* The other steps keep the task of the Crawler.
LEMMA LoopLife ==
  ASSUME Places,
         \/ FilterPass \/ FilterRefuse \/ FilterError \/ EnqueueCapture \/ EnqueueFails
         \/ PushDiscovery \/ CaptureDone \/ CaptureUpdate \/ CaptureUnknown \/ CaptureTimeout
         \/ Compute \/ ComputeFails
  PROVE  LifeStep
<1>1. TypeOK
  BY DEF Places, Pends, Base
<1>2. \A cmds : /\ BackDo(cmds) => me'.task = me.task
                /\ \A pc : GotoDo(pc, cmds) => me'.task = me.task
  BY <1>1, SameTask
<1>3. UNCHANGED redis /\ Todo(Crawler) = <<>>
  BY DEF FilterPass, FilterRefuse, FilterError, EnqueueCapture, EnqueueFails, PushDiscovery,
     CaptureDone, CaptureUpdate, CaptureUnknown, CaptureTimeout, Compute, ComputeFails,
     At, Free, Todo
<1>4. ASSUME me'.task = me.task PROVE LifeStep
  BY <1>3, <1>4, MoveStill DEF redis
<1>5. CASE FilterPass
  <2>1. task[me.task].domain
    BY <1>3, <1>5, InHands DEF FilterPass, At
  <2> QED
    BY <1>2, <1>4, <1>5, <2>1 DEF FilterPass
<1>6. CASE FilterRefuse \/ FilterError \/ EnqueueFails
  BY <1>2, <1>4, <1>6 DEF FilterRefuse, FilterError, EnqueueFails
<1>7. CASE EnqueueCapture \/ PushDiscovery
  BY <1>2, <1>4, <1>7 DEF EnqueueCapture, PushDiscovery
<1>8. CASE CaptureDone \/ CaptureUpdate
  BY <1>2, <1>4, <1>8 DEF CaptureDone, CaptureUpdate
<1>9. CASE CaptureUnknown \/ CaptureTimeout \/ Compute
  <2>1. CaptureTask = me.task /\ me.task \in Tasks /\ task[me.task].domain
    BY <1>3, <1>9, InHands DEF CaptureUnknown, CaptureTimeout, Compute, At, CaptureTask
  <2>2. CaptureTask # None
    BY <2>1, CrawlerAssumption
  <2> QED
    BY <1>2, <1>4, <1>9, <2>1, <2>2 DEF CaptureUnknown, CaptureTimeout, Compute
<1>10. CASE ComputeFails
  BY <1>2, <1>4, <1>10 DEF ComputeFails
<1> QED
  BY <1>5, <1>6, <1>7, <1>8, <1>9, <1>10

LEMMA CreateLife ==
  ASSUME Places, NEW p \in Procs, NEW r \in Reqs, Create(p, r)
  PROVE  LifeStep
<1>1. PICK t \in Tasks : Do(p, CreateTask(t, r))
  BY DEF Create
<1>2. UNCHANGED <<task, queue, captask, captures>>
  BY DEF Create
<1>3. me'.task = me.task
  BY <1>1, SameTask DEF Places, Pends, Base
<1> QED
  BY <1>2, <1>3, MoveStill

----------------------------------------------------------------------------
LEMMA NextLife ==
  ASSUME Places, PolledOrReplaced, SlotLimit, [Next]_vars
  PROVE  LifeStep
<1>1. ASSUME NEW p \in Procs, Command(p) PROVE LifeStep
  BY <1>1, CommandLife
<1>2. ASSUME NEW r \in Reqs, ProcessQueue(r) PROVE LifeStep
  BY <1>2, CreateLife, ProcsFacts DEF ProcessQueue
<1>3. ASSUME NEW r \in Reqs, NEW w \in Clients, ClientCreate(w, r) PROVE LifeStep
  BY <1>3, CreateLife, ProcsFacts DEF ClientCreate
<1>4. CASE CrawlerStep
  BY <1>4, SlotsLife, PopLife, PollLife, LoopLife DEF CrawlerStep
<1>5. CASE UNCHANGED vars
  BY <1>5, MoveStill DEF vars, me
<1> QED
  BY <1>1, <1>2, <1>3, <1>4, <1>5 DEF Next

\* CrawlerTask, CrawlerCapture and the polling loop of the Crawler implement TaskLife, as long
\* as the Crawler is not stopped, nothing is deleted, every request is forced and no discovery
\* is pushed: whatever the interleaving of the commands and the answers of the filter and of
\* Lacus, a task waits, is taken (the most urgent first), is with Lacus once and within the
\* slots, and ends in the Crawler's hand.
THEOREM ImplementsLife ==
  ASSUME Forced, Discovery = FALSE
  PROVE  Spec => LifeSpec
<1>1. Init => /\ Places /\ SlotInv /\ CapturesHaveTask /\ PolledOrReplaced
              /\ Life!Init
  <2> SUFFICES ASSUME Init
               PROVE  /\ Places /\ SlotInv /\ CapturesHaveTask /\ PolledOrReplaced
                      /\ Life!Init
    OBVIOUS
  <2>1. Places /\ CapturesHaveTask /\ PolledOrReplaced
    BY PlacesHolds DEF Init, CapturesHaveTask, PolledOrReplaced
  <2>2. SlotInv
    BY SlotsHolds
  <2>3. me.task = None
    BY ProcsFacts DEF Init, me, Loop
  <2>4. Life!Init
    BY <2>3, CrawlerAssumption DEF Init, Life!Init, Open, WithLacus, Hand, NoTask
  <2> QED
    BY <2>1, <2>2, <2>4
<1>2. Places /\ CapturesHaveTask /\ PolledOrReplaced /\ SlotInv /\ [Next]_vars
        => /\ Places' /\ CapturesHaveTask' /\ PolledOrReplaced' /\ SlotInv'
           /\ [Life!Next]_<<Open, queue, Hand, WithLacus>>
  <2> SUFFICES ASSUME Places, CapturesHaveTask, PolledOrReplaced, SlotInv, [Next]_vars
               PROVE  /\ Places' /\ CapturesHaveTask' /\ PolledOrReplaced' /\ SlotInv'
                      /\ [Life!Next]_<<Open, queue, Hand, WithLacus>>
    OBVIOUS
  <2>1. Places' /\ Pends /\ Base
    BY PlacesHolds DEF Places, Pends
  <2>2. CapturesHaveTask' /\ PolledOrReplaced'
    BY <2>1, AnyStep, CapturesStep, OtherTables, PolledCommand, PolledOther
  <2>3. [Next \/ \E w \in Clients, t \in Tasks : DeleteScheduled(w, t)]_vars
    OBVIOUS
  <2>4. SlotInv'
    BY <2>1, <2>3, SlotsHolds
  <2>5. LifeStep
    BY NextLife DEF SlotInv
  <2> QED
    BY <2>1, <2>2, <2>4, <2>5 DEF LifeStep, Still
<1> QED
  BY <1>1, <1>2, PTL DEF Spec, LifeSpec, Life!Spec, Life!life
=============================================================================
