------------------------ MODULE CrawlerPlacesProofs ------------------------
(***************************************************************************)
(* Where a task is, as long as the Crawler is not stopped, the requests    *)
(* are forced and no discovery is pushed to another AIL: in the hands of   *)
(* whoever creates it, in the queue, in the Crawler's hands, or in one     *)
(* capture; and never in two of these.                                     *)
(***************************************************************************)
EXTENDS CrawlerTasksProofs

Loose(t) == \A c \in captures : captask[c] # t

\* A process is creating the task, which no one else has heard of.
Makes(p, t, r) ==
    /\ NoUse(t) /\ proc[p].pc = "slots"
    /\ \A q \in Procs \ {p} : Quiet(q, t)
    /\ \/ Todo(p) = CreateTask(t, r)
       \/ task[t].domain /\ Todo(p) = AfterDomain(t, r)
       \/ task[t].domain /\ Todo(p) = AfterDedup(t, r)
       \/ task[t].domain /\ Todo(p) = AfterHash(t, r)
MakesTask(p) == \E t \in Tasks, r \in Reqs : Makes(p, t, r)

----------------------------------------------------------------------------
(***************************************************************************)
(* What the Crawler is busy with, command by command: always its task, the *)
(* one it has popped or whose capture it has polled.                       *)
(***************************************************************************)
StartTask(t) == <<Cmd("start", t, TRUE)>>
QueueTask(t, v) == <<Cmd("queue", t, v)>>
ResetBoth(t, c) == <<Cmd("start", t, FALSE), Cmd("queue", t, 49), Cmd("cacheRem", c, None),
                     Cmd("zrem", c, None), Cmd("captask", c, None)>>
QueueBoth(t, c) == <<Cmd("queue", t, 49), Cmd("cacheRem", c, None), Cmd("zrem", c, None),
                     Cmd("captask", c, None)>>
DropCapture(c) == <<Cmd("cacheRem", c, None), Cmd("zrem", c, None), Cmd("captask", c, None)>>
AfterZrem(c) == <<Cmd("captask", c, None)>>
DropTask(t) == <<Cmd("queue", t, None), Cmd("remove", t, None)>>
RemoveBoth(t, c) == <<Cmd("zrem", c, None), Cmd("captask", c, None), Cmd("hdelDedup", t, None),
                      Cmd("del", t, None)>>
RemoveTask(t, c) == <<Cmd("captask", c, None), Cmd("hdelDedup", t, None), Cmd("del", t, None)>>
RemoveHashes(t) == <<Cmd("hdelDedup", t, None), Cmd("del", t, None)>>
RemoveHash(t) == <<Cmd("del", t, None)>>

Idle == Todo(Crawler) = <<>> /\ me.pc \in {"slots", "pop", "push", "poll"}

Holds(t) == me.task = t /\ t \in Tasks /\ task[t].domain /\ queue[t] = None

\* The task was popped and is in no capture.
HasTask(t) ==
    /\ Holds(t) /\ Loose(t)
    /\ \/ me.pc = "filter" /\ me.prio # 0 /\ Todo(Crawler) = <<>>
       \/ me.pc = "enqueue" /\ me.prio # 0 /\ Todo(Crawler) = StartTask(t)
       \/ me.pc = "enqueue" /\ me.prio # 0 /\ Todo(Crawler) = <<>> /\ task[t].start
       \/ me.pc = "slots" /\ Todo(Crawler) = TaskReset(t)
       \/ me.pc = "slots" /\ \E v \in Nat \ {0} : Todo(Crawler) = QueueTask(t, v)

\* It is given a capture.
MakesCapture(t, c) ==
    /\ Holds(t) /\ Loose(t) /\ task[t].start
    /\ me.pc = "push" /\ c \notin captures
    /\ \/ Todo(Crawler) = CreateCapture(c, t) /\ \A u \in Tasks : task[u].capture # c
       \/ Todo(Crawler) = AfterCapture(c, t) /\ task[t].capture = c
       \/ Todo(Crawler) = AfterCapTask(c) /\ task[t].capture = c /\ captask[c] = t

\* The capture is out of the cache: its status is read or the Crawler ended with it, it is
\* put back, or the task is queued again and the capture forgotten.
HasCapture(t, c) ==
    /\ me.task = t /\ c \in captures /\ captask[c] = t /\ ~InCache(c)
    /\ \/ me.pc \in {"status", "compute", "dead"} /\ me.capture = c /\ Todo(Crawler) = <<>>
       \/ me.pc \in {"push", "slots"} /\ Todo(Crawler) = AfterZadd(c)
       \/ me.pc = "slots" /\ Todo(Crawler) = ResetBoth(t, c) /\ queue[t] = None
       \/ me.pc = "slots" /\ Todo(Crawler) = QueueBoth(t, c) /\ queue[t] = None
       \/ me.pc = "slots" /\ Todo(Crawler) = DropCapture(c) /\ queue[t] # None
       \/ me.pc = "slots" /\ Todo(Crawler) = CaptureRemove(c) /\ queue[t] # None

Forgets(t, c) ==
    /\ me.task = t /\ queue[t] # None /\ c \notin captures
    /\ me.pc = "slots" /\ Todo(Crawler) = AfterZrem(c)

\* The task is removed, and its capture with it.
EndsTask(t) ==
    /\ Holds(t) /\ me.pc = "slots"
    /\ \/ Todo(Crawler) = DropTask(t) /\ ~InCache(task[t].capture)
       \/ Todo(Crawler) = TaskRemove(t) /\ ~InCache(task[t].capture)
       \/ \E c \in Captures : Todo(Crawler) = RemoveBoth(t, c) /\ task[t].capture = c /\ ~InCache(c)
       \/ \E c \in Captures : Todo(Crawler) = RemoveTask(t, c) /\ c \notin captures /\ Loose(t)
       \/ Todo(Crawler) = RemoveHashes(t) /\ Loose(t)
       \/ Todo(Crawler) = RemoveHash(t) /\ Loose(t)

Stage ==
    \/ Idle
    \/ \E t \in Tasks : HasTask(t) \/ EndsTask(t)
    \/ \E t \in Tasks, c \in Captures : MakesCapture(t, c) \/ HasCapture(t, c) \/ Forgets(t, c)
    \/ MakesTask(Crawler)

Makers == \A p \in Clients : Todo(p) = <<>> \/ MakesTask(p)

----------------------------------------------------------------------------
(***************************************************************************)
(* A queued task exists; a capture and its task name each other, and the   *)
(* task is queued again, or not started, only when the capture is about to *)
(* be forgotten.  A task that exists is in one of the four places.         *)
(***************************************************************************)
QueuedKnown == \A t \in Tasks : queue[t] # None => task[t].domain /\ queue[t] # 0

Own(c) ==
    /\ captask[c] \in Tasks
    /\ task[captask[c]].capture = c /\ task[captask[c]].domain
    /\ \/ task[captask[c]].start /\ queue[captask[c]] = None
       \/ Pending(Crawler, "zrem", c)
CapturesOwn == \A c \in captures : Own(c)

CacheOnce ==
    /\ \A k \in DOMAIN cache : cache[k] \in captures
    /\ \A j, k \in DOMAIN cache : cache[j] = cache[k] => j = k

Placed(t) ==
    \/ queue[t] # None
    \/ ~Loose(t)
    \/ HasTask(t) \/ EndsTask(t) \/ \E c \in Captures : MakesCapture(t, c)
    \/ \E p \in Procs, r \in Reqs : Makes(p, t, r)
AllPlaced == \A t \in Tasks : task[t].domain => Placed(t)

Places == Pends /\ Stage /\ Makers /\ QueuedKnown /\ CapturesOwn /\ CacheOnce /\ AllPlaced

----------------------------------------------------------------------------
(***************************************************************************)
(* The lists of commands, and what is left of them.                        *)
(***************************************************************************)
LEMMA TaskLiterals ==
  ASSUME NEW t, NEW v
  PROVE  /\ StartTask(t) # <<>> /\ StartTask(t)[1] = Cmd("start", t, TRUE)
         /\ Tail(StartTask(t)) = <<>>
         /\ QueueTask(t, v) # <<>> /\ QueueTask(t, v)[1] = Cmd("queue", t, v)
         /\ Tail(QueueTask(t, v)) = <<>>
         /\ TaskReset(t) # <<>> /\ TaskReset(t)[1] = Cmd("start", t, FALSE)
         /\ Tail(TaskReset(t)) = QueueTask(t, 49)
         /\ DropTask(t) # <<>> /\ DropTask(t)[1] = Cmd("queue", t, None)
         /\ Tail(DropTask(t)) = TaskRemove(t)
         /\ TaskRemove(t) # <<>> /\ TaskRemove(t)[1] = Cmd("remove", t, None)
         /\ Tail(TaskRemove(t)) = <<>>
         /\ RemoveHashes(t) # <<>> /\ RemoveHashes(t)[1] = Cmd("hdelDedup", t, None)
         /\ Tail(RemoveHashes(t)) = RemoveHash(t)
         /\ RemoveHash(t) # <<>> /\ RemoveHash(t)[1] = Cmd("del", t, None)
         /\ Tail(RemoveHash(t)) = <<>>
BY DEF StartTask, QueueTask, TaskReset, DropTask, TaskRemove, RemoveHashes, RemoveHash

LEMMA BothLiterals ==
  ASSUME NEW t, NEW c
  PROVE  /\ ResetBoth(t, c) # <<>> /\ ResetBoth(t, c)[1] = Cmd("start", t, FALSE)
         /\ Tail(ResetBoth(t, c)) = QueueBoth(t, c)
         /\ QueueBoth(t, c) # <<>> /\ QueueBoth(t, c)[1] = Cmd("queue", t, 49)
         /\ Tail(QueueBoth(t, c)) = DropCapture(c)
         /\ DropCapture(c) # <<>> /\ DropCapture(c)[1] = Cmd("cacheRem", c, None)
         /\ Tail(DropCapture(c)) = CaptureRemove(c)
         /\ CaptureRemove(c) # <<>> /\ CaptureRemove(c)[1] = Cmd("zrem", c, None)
         /\ Tail(CaptureRemove(c)) = AfterZrem(c)
         /\ AfterZrem(c) # <<>> /\ AfterZrem(c)[1] = Cmd("captask", c, None)
         /\ Tail(AfterZrem(c)) = <<>>
         /\ RemoveBoth(t, c) # <<>> /\ RemoveBoth(t, c)[1] = Cmd("zrem", c, None)
         /\ Tail(RemoveBoth(t, c)) = RemoveTask(t, c)
         /\ RemoveTask(t, c) # <<>> /\ RemoveTask(t, c)[1] = Cmd("captask", c, None)
         /\ Tail(RemoveTask(t, c)) = RemoveHashes(t)
         /\ AfterZadd(c) # <<>> /\ AfterZadd(c)[1] = Cmd("cacheAdd", c, None)
         /\ Tail(AfterZadd(c)) = <<>>
BY DEF ResetBoth, QueueBoth, DropCapture, CaptureRemove, AfterZrem, RemoveBoth, RemoveTask,
       RemoveHashes, AfterZadd

\* What a command does.
LEMMA Does ==
  ASSUME Base, NEW p \in Procs, Command(p), NEW key, NEW val
  PROVE  /\ Next1(p) = Cmd("domain", key, val) =>
              /\ task' = [task EXCEPT ![key] = [@ EXCEPT !.domain = val]]
              /\ UNCHANGED <<queue, captask, captures, cache>> /\ Todo(p)' = Tail(Todo(p))
         /\ Next1(p) = Cmd("hash", key, val) =>
              /\ task' = [task EXCEPT ![key] = [@ EXCEPT !.hash = val]]
              /\ UNCHANGED <<queue, captask, captures, cache>> /\ Todo(p)' = Tail(Todo(p))
         /\ Next1(p) = Cmd("start", key, val) =>
              /\ task' = [task EXCEPT ![key] = [@ EXCEPT !.start = val]]
              /\ UNCHANGED <<queue, captask, captures, cache>> /\ Todo(p)' = Tail(Todo(p))
         /\ Next1(p) = Cmd("capture", key, val) =>
              /\ task' = [task EXCEPT ![key] = [@ EXCEPT !.capture = val]]
              /\ UNCHANGED <<queue, captask, captures, cache>> /\ Todo(p)' = Tail(Todo(p))
         /\ Next1(p) = Cmd("del", key, val) =>
              /\ task' = [task EXCEPT ![key] = NoTask]
              /\ UNCHANGED <<queue, captask, captures, cache>> /\ Todo(p)' = Tail(Todo(p))
         /\ Next1(p) = Cmd("dedup", key, val) \/ Next1(p) = Cmd("hdelDedup", key, val) =>
              UNCHANGED <<task, queue, captask, captures, cache>> /\ Todo(p)' = Tail(Todo(p))
         /\ Next1(p) = Cmd("queue", key, val) =>
              /\ queue' = [queue EXCEPT ![key] = val]
              /\ UNCHANGED <<task, captask, captures, cache>> /\ Todo(p)' = Tail(Todo(p))
         /\ Next1(p) = Cmd("captask", key, val) =>
              /\ captask' = [captask EXCEPT ![key] = val]
              /\ UNCHANGED <<task, queue, captures, cache>> /\ Todo(p)' = Tail(Todo(p))
         /\ Next1(p) = Cmd("zadd", key, val) =>
              /\ captures' = captures \cup {key}
              /\ UNCHANGED <<task, queue, captask, cache>> /\ Todo(p)' = Tail(Todo(p))
         /\ Next1(p) = Cmd("zrem", key, val) =>
              /\ captures' = captures \ {key}
              /\ UNCHANGED <<task, queue, captask, cache>> /\ Todo(p)' = Tail(Todo(p))
         /\ Next1(p) = Cmd("cacheAdd", key, val) =>
              /\ cache' = Append(Without(cache, key), key)
              /\ UNCHANGED <<task, queue, captask, captures>> /\ Todo(p)' = Tail(Todo(p))
         /\ Next1(p) = Cmd("cacheRem", key, val) =>
              /\ cache' = Without(cache, key)
              /\ UNCHANGED <<task, queue, captask, captures>> /\ Todo(p)' = Tail(Todo(p))
         /\ Next1(p) = Cmd("remove", key, val) =>
              /\ UNCHANGED <<task, queue, captask, captures, cache>>
              /\ Todo(p)' = Removal(key) \o Tail(Todo(p))
<1>1. /\ proc \in [Procs -> Locals]
      /\ \A op : Next1(p) = Cmd(op, key, val) =>
            Next1(p).op = op /\ Next1(p).key = key /\ Next1(p).val = val
  BY CmdFields DEF Base, TypeOK
<1>2. Todo(p) # <<>> /\ (Done(p) => Todo(p)' = Tail(Todo(p)))
  BY <1>1, Effects, DoneFacts
<1>3. /\ Next1(p).op \in {"domain", "hash", "start", "capture"} => HsetTask(p)
      /\ Next1(p).op = "del" => DeleteTask(p)
      /\ Next1(p).op = "dedup" => HsetDedup(p)
      /\ Next1(p).op = "hdelDedup" => HdelDedup(p)
      /\ Next1(p).op = "queue" => ZaddQueue(p)
      /\ Next1(p).op = "captask" => HsetCapTask(p)
      /\ Next1(p).op \in {"zadd", "zrem"} => ZaddCaptures(p)
      /\ Next1(p).op \in {"cacheAdd", "cacheRem"} => ZaddCache(p)
  BY <1>1, Effects DEF Command
<1>4. HsetTask(p) =>
         /\ task' = [task EXCEPT ![Next1(p).key] = [@ EXCEPT ![Next1(p).op] = Next1(p).val]]
         /\ UNCHANGED <<queue, captask, captures, cache>> /\ Todo(p)' = Tail(Todo(p))
  BY <1>1, <1>2, Effects
<1>5. ASSUME Next1(p) = Cmd("domain", key, val)
      PROVE  /\ task' = [task EXCEPT ![key] = [@ EXCEPT !.domain = val]]
             /\ UNCHANGED <<queue, captask, captures, cache>> /\ Todo(p)' = Tail(Todo(p))
  <2>1. HsetTask(p) /\ Next1(p).op = "domain" /\ Next1(p).key = key /\ Next1(p).val = val
    BY <1>1, <1>3, <1>5
  <2> QED
    BY <1>4, <2>1
<1>6. ASSUME Next1(p) = Cmd("hash", key, val)
      PROVE  /\ task' = [task EXCEPT ![key] = [@ EXCEPT !.hash = val]]
             /\ UNCHANGED <<queue, captask, captures, cache>> /\ Todo(p)' = Tail(Todo(p))
  <2>1. HsetTask(p) /\ Next1(p).op = "hash" /\ Next1(p).key = key /\ Next1(p).val = val
    BY <1>1, <1>3, <1>6
  <2> QED
    BY <1>4, <2>1
<1>7. ASSUME Next1(p) = Cmd("start", key, val)
      PROVE  /\ task' = [task EXCEPT ![key] = [@ EXCEPT !.start = val]]
             /\ UNCHANGED <<queue, captask, captures, cache>> /\ Todo(p)' = Tail(Todo(p))
  <2>1. HsetTask(p) /\ Next1(p).op = "start" /\ Next1(p).key = key /\ Next1(p).val = val
    BY <1>1, <1>3, <1>7
  <2> QED
    BY <1>4, <2>1
<1>8. ASSUME Next1(p) = Cmd("capture", key, val)
      PROVE  /\ task' = [task EXCEPT ![key] = [@ EXCEPT !.capture = val]]
             /\ UNCHANGED <<queue, captask, captures, cache>> /\ Todo(p)' = Tail(Todo(p))
  <2>1. HsetTask(p) /\ Next1(p).op = "capture" /\ Next1(p).key = key /\ Next1(p).val = val
    BY <1>1, <1>3, <1>8
  <2> QED
    BY <1>4, <2>1
<1>9. ASSUME Next1(p) = Cmd("del", key, val)
      PROVE  /\ task' = [task EXCEPT ![key] = NoTask]
             /\ UNCHANGED <<queue, captask, captures, cache>> /\ Todo(p)' = Tail(Todo(p))
  <2>1. DeleteTask(p) /\ Next1(p).op = "del" /\ Next1(p).key = key /\ Next1(p).val = val
    BY <1>1, <1>3, <1>9
  <2> QED
    BY <1>1, <1>2, <2>1, Effects
<1>10. ASSUME Next1(p) = Cmd("dedup", key, val) \/ Next1(p) = Cmd("hdelDedup", key, val)
      PROVE  UNCHANGED <<task, queue, captask, captures, cache>> /\ Todo(p)' = Tail(Todo(p))
  <2>1. HsetDedup(p) \/ HdelDedup(p)
    BY <1>1, <1>3, <1>10
  <2> QED
    BY <1>1, <1>2, <2>1, Effects
<1>11. ASSUME Next1(p) = Cmd("queue", key, val)
      PROVE  /\ queue' = [queue EXCEPT ![key] = val]
             /\ UNCHANGED <<task, captask, captures, cache>> /\ Todo(p)' = Tail(Todo(p))
  <2>1. ZaddQueue(p) /\ Next1(p).op = "queue" /\ Next1(p).key = key /\ Next1(p).val = val
    BY <1>1, <1>3, <1>11
  <2> QED
    BY <1>1, <1>2, <2>1, Effects
<1>12. ASSUME Next1(p) = Cmd("captask", key, val)
      PROVE  /\ captask' = [captask EXCEPT ![key] = val]
             /\ UNCHANGED <<task, queue, captures, cache>> /\ Todo(p)' = Tail(Todo(p))
  <2>1. HsetCapTask(p) /\ Next1(p).op = "captask" /\ Next1(p).key = key /\ Next1(p).val = val
    BY <1>1, <1>3, <1>12
  <2> QED
    BY <1>1, <1>2, <2>1, Effects
<1>13. ASSUME Next1(p) = Cmd("zadd", key, val)
      PROVE  /\ captures' = captures \cup {key}
             /\ UNCHANGED <<task, queue, captask, cache>> /\ Todo(p)' = Tail(Todo(p))
  <2>1. ZaddCaptures(p) /\ Next1(p).op = "zadd" /\ Next1(p).key = key /\ Next1(p).val = val
    BY <1>1, <1>3, <1>13
  <2> QED
    BY <1>1, <1>2, <2>1, Effects
<1>14. ASSUME Next1(p) = Cmd("zrem", key, val)
      PROVE  /\ captures' = captures \ {key}
             /\ UNCHANGED <<task, queue, captask, cache>> /\ Todo(p)' = Tail(Todo(p))
  <2>1. ZaddCaptures(p) /\ Next1(p).op = "zrem" /\ Next1(p).key = key /\ Next1(p).val = val
    BY <1>1, <1>3, <1>14
  <2> QED
    BY <1>1, <1>2, <2>1, Effects
<1>15. ASSUME Next1(p) = Cmd("cacheAdd", key, val)
      PROVE  /\ cache' = Append(Without(cache, key), key)
             /\ UNCHANGED <<task, queue, captask, captures>> /\ Todo(p)' = Tail(Todo(p))
  <2>1. ZaddCache(p) /\ Next1(p).op = "cacheAdd" /\ Next1(p).key = key /\ Next1(p).val = val
    BY <1>1, <1>3, <1>15
  <2> QED
    BY <1>1, <1>2, <2>1, Effects
<1>16. ASSUME Next1(p) = Cmd("cacheRem", key, val)
      PROVE  /\ cache' = Without(cache, key)
             /\ UNCHANGED <<task, queue, captask, captures>> /\ Todo(p)' = Tail(Todo(p))
  <2>1. ZaddCache(p) /\ Next1(p).op = "cacheRem" /\ Next1(p).key = key /\ Next1(p).val = val
    BY <1>1, <1>3, <1>16
  <2> QED
    BY <1>1, <1>2, <2>1, Effects
<1>17. ASSUME Next1(p) = Cmd("remove", key, val)
      PROVE  /\ UNCHANGED <<task, queue, captask, captures, cache>>
             /\ Todo(p)' = Removal(key) \o Tail(Todo(p))
  <2>1. Next1(p).op = "remove" /\ Next1(p).key = key
    BY <1>1, <1>17
  <2>2. UNCHANGED <<task, queue, captask, captures, cache>>
    BY <1>1, <2>1, Effects DEF Command
  <2> QED
    BY <2>1, <2>2, CommandLocals
<1> QED
  BY <1>5, <1>6, <1>7, <1>8, <1>9, <1>10, <1>11, <1>12, <1>13, <1>14, <1>15, <1>16, <1>17, Zenon

LEMMA DoesDomain ==
  ASSUME Base, NEW p \in Procs, Command(p), NEW key, NEW val,
         Next1(p) = Cmd("domain", key, val)
  PROVE  /\ task' = [task EXCEPT ![key] = [@ EXCEPT !.domain = val]]
         /\ UNCHANGED <<queue, captask, captures, cache>> /\ Todo(p)' = Tail(Todo(p))
BY Does, Zenon

LEMMA DoesHash ==
  ASSUME Base, NEW p \in Procs, Command(p), NEW key, NEW val,
         Next1(p) = Cmd("hash", key, val)
  PROVE  /\ task' = [task EXCEPT ![key] = [@ EXCEPT !.hash = val]]
         /\ UNCHANGED <<queue, captask, captures, cache>> /\ Todo(p)' = Tail(Todo(p))
BY Does, Zenon

LEMMA DoesStart ==
  ASSUME Base, NEW p \in Procs, Command(p), NEW key, NEW val,
         Next1(p) = Cmd("start", key, val)
  PROVE  /\ task' = [task EXCEPT ![key] = [@ EXCEPT !.start = val]]
         /\ UNCHANGED <<queue, captask, captures, cache>> /\ Todo(p)' = Tail(Todo(p))
BY Does, Zenon

LEMMA DoesCapture ==
  ASSUME Base, NEW p \in Procs, Command(p), NEW key, NEW val,
         Next1(p) = Cmd("capture", key, val)
  PROVE  /\ task' = [task EXCEPT ![key] = [@ EXCEPT !.capture = val]]
         /\ UNCHANGED <<queue, captask, captures, cache>> /\ Todo(p)' = Tail(Todo(p))
BY Does, Zenon

LEMMA DoesDel ==
  ASSUME Base, NEW p \in Procs, Command(p), NEW key, NEW val,
         Next1(p) = Cmd("del", key, val)
  PROVE  /\ task' = [task EXCEPT ![key] = NoTask]
         /\ UNCHANGED <<queue, captask, captures, cache>> /\ Todo(p)' = Tail(Todo(p))
BY Does, Zenon

LEMMA DoesDedup ==
  ASSUME Base, NEW p \in Procs, Command(p), NEW key, NEW val,
         Next1(p) = Cmd("dedup", key, val) \/ Next1(p) = Cmd("hdelDedup", key, val)
  PROVE  UNCHANGED <<task, queue, captask, captures, cache>> /\ Todo(p)' = Tail(Todo(p))
BY Does, Zenon

LEMMA DoesQueue ==
  ASSUME Base, NEW p \in Procs, Command(p), NEW key, NEW val,
         Next1(p) = Cmd("queue", key, val)
  PROVE  /\ queue' = [queue EXCEPT ![key] = val]
         /\ UNCHANGED <<task, captask, captures, cache>> /\ Todo(p)' = Tail(Todo(p))
BY Does, Zenon

LEMMA DoesCapTask ==
  ASSUME Base, NEW p \in Procs, Command(p), NEW key, NEW val,
         Next1(p) = Cmd("captask", key, val)
  PROVE  /\ captask' = [captask EXCEPT ![key] = val]
         /\ UNCHANGED <<task, queue, captures, cache>> /\ Todo(p)' = Tail(Todo(p))
BY Does, Zenon

LEMMA DoesZadd ==
  ASSUME Base, NEW p \in Procs, Command(p), NEW key, NEW val,
         Next1(p) = Cmd("zadd", key, val)
  PROVE  /\ captures' = captures \cup {key}
         /\ UNCHANGED <<task, queue, captask, cache>> /\ Todo(p)' = Tail(Todo(p))
BY Does, Zenon

LEMMA DoesZrem ==
  ASSUME Base, NEW p \in Procs, Command(p), NEW key, NEW val,
         Next1(p) = Cmd("zrem", key, val)
  PROVE  /\ captures' = captures \ {key}
         /\ UNCHANGED <<task, queue, captask, cache>> /\ Todo(p)' = Tail(Todo(p))
BY Does, Zenon

LEMMA DoesCacheAdd ==
  ASSUME Base, NEW p \in Procs, Command(p), NEW key, NEW val,
         Next1(p) = Cmd("cacheAdd", key, val)
  PROVE  /\ cache' = Append(Without(cache, key), key)
         /\ UNCHANGED <<task, queue, captask, captures>> /\ Todo(p)' = Tail(Todo(p))
BY Does, Zenon

LEMMA DoesCacheRem ==
  ASSUME Base, NEW p \in Procs, Command(p), NEW key, NEW val,
         Next1(p) = Cmd("cacheRem", key, val)
  PROVE  /\ cache' = Without(cache, key)
         /\ UNCHANGED <<task, queue, captask, captures>> /\ Todo(p)' = Tail(Todo(p))
BY Does, Zenon

LEMMA DoesRemove ==
  ASSUME Base, NEW p \in Procs, Command(p), NEW key, NEW val,
         Next1(p) = Cmd("remove", key, val)
  PROVE  /\ UNCHANGED <<task, queue, captask, captures, cache>>
         /\ Todo(p)' = Removal(key) \o Tail(Todo(p))
BY Does, Zenon

----------------------------------------------------------------------------
(***************************************************************************)
(* Who creates a task goes on undisturbed.                                 *)
(***************************************************************************)
LEMMA MakesKept ==
  ASSUME Pends, NEW p \in Procs, Command(p), NEW q \in Procs \ {p}, NEW t \in Tasks, NEW r \in Reqs,
         Makes(q, t, r)
  PROVE  Makes(q, t, r)'
<1>1. Base /\ Shapes /\ Quiet(p, t) /\ NoUse(t)
  BY DEF Pends, Makes
<1>2. NoUse(t)' /\ Quiet(p, t)' /\ task'[t] = task[t]
  BY <1>1, TaskUntouched
<1>3. /\ \A o \in Procs \ {p} : proc'[o] = proc[o] /\ Todo(o)' = Todo(o)
      /\ \A o \in Procs : proc'[o].pc = proc[o].pc
  BY <1>1, CommandLocals
<1>4. \A o \in Procs \ {q} : Quiet(o, t)'
  <2> SUFFICES ASSUME NEW o \in Procs \ {q} PROVE Quiet(o, t)'
    OBVIOUS
  <2>1. CASE o = p
    BY <1>2, <2>1
  <2>2. CASE o # p
    <3>1. Quiet(o, t) /\ Todo(o)' = Todo(o)
      BY <1>3, <2>2 DEF Makes
    <3> QED
      BY <3>1 DEF Quiet
  <2> QED
    BY <2>1, <2>2
<1>5. Todo(q)' = Todo(q) /\ proc'[q].pc = "slots"
  BY <1>3 DEF Makes
<1> QED
  BY <1>2, <1>4, <1>5 DEF Makes

\* The process that creates it sets its fields and, last, queues it.
LEMMA MakesGoesOn ==
  ASSUME Pends, NEW p \in Procs, Command(p), NEW t \in Tasks, NEW r \in Reqs, Makes(p, t, r)
  PROVE  /\ UNCHANGED <<captask, captures, cache>>
         /\ \A u \in Tasks : u # t => task'[u] = task[u] /\ queue'[u] = queue[u]
         /\ task'[t].capture = task[t].capture /\ task'[t].start = task[t].start
         /\ \/ Todo(p)' = <<>> /\ task'[t].domain /\ queue'[t] = Prio[r]
            \/ Makes(p, t, r)'
<1>1. Base /\ TypeOK /\ NoUse(t) /\ Prio[r] \in Nat
  BY CrawlerAssumption DEF Pends, Base, Makes
<1>2. task \in [Tasks -> [domain : BOOLEAN, hash : Reqs \cup {None}, start : BOOLEAN,
                           capture : Captures \cup {None}]]
      /\ queue \in [Tasks -> Nat \cup {None}]
  BY <1>1 DEF TypeOK
<1>3. /\ \A o \in Procs \ {p} : Todo(o)' = Todo(o)
      /\ proc'[p].pc = "slots" /\ me'.task = me.task
  BY <1>1, CommandLocals DEF Makes
<1>4. \A q \in Procs \ {p} : Quiet(q, t)'
  <2> SUFFICES ASSUME NEW q \in Procs \ {p} PROVE Quiet(q, t)'
    OBVIOUS
  <2>1. Quiet(q, t) /\ Todo(q)' = Todo(q)
    BY <1>3 DEF Makes
  <2> QED
    BY <2>1 DEF Quiet
<1>5. ASSUME UNCHANGED <<queue, captask>> PROVE NoUse(t)'
  BY <1>1, <1>3, <1>5 DEF NoUse
<1>6. CASE Todo(p) = CreateTask(t, r)
  <2>0. CreateTask(t, r)[1] = Cmd("domain", t, TRUE) /\ Tail(CreateTask(t, r)) = AfterDomain(t, r)
    BY CreateLiterals
  <2>1. Next1(p) = Cmd("domain", t, TRUE) /\ Tail(Todo(p)) = AfterDomain(t, r)
    BY <1>6, <2>0, Zenon DEF Next1
  <2>2. /\ task' = [task EXCEPT ![t] = [@ EXCEPT !.domain = TRUE]]
        /\ UNCHANGED <<queue, captask, captures, cache>> /\ Todo(p)' = AfterDomain(t, r)
    <3>1. /\ task' = [task EXCEPT ![t] = [@ EXCEPT !.domain = TRUE]]
          /\ UNCHANGED <<queue, captask, captures, cache>> /\ Todo(p)' = Tail(Todo(p))
      BY <1>1, <2>1, DoesDomain
    <3> QED
      BY <2>1, <3>1
  <2>3. /\ \A u \in Tasks : u # t => task'[u] = task[u]
        /\ task'[t].capture = task[t].capture /\ task'[t].start = task[t].start /\ task'[t].domain
    BY <1>2, <2>2
  <2> QED
    BY <1>3, <1>4, <1>5, <2>2, <2>3 DEF Makes
<1>7. CASE task[t].domain /\ Todo(p) = AfterDomain(t, r)
  <2>1. Next1(p) = Cmd("dedup", r, t) /\ Tail(Todo(p)) = AfterDedup(t, r)
    BY <1>7, CreateLiterals, Zenon DEF Next1
  <2>2. UNCHANGED <<task, queue, captask, captures, cache>> /\ Todo(p)' = AfterDedup(t, r)
    BY <1>1, <2>1, DoesDedup, Zenon
  <2> QED
    BY <1>3, <1>4, <1>5, <1>7, <2>2 DEF Makes
<1>8. CASE task[t].domain /\ Todo(p) = AfterDedup(t, r)
  <2>1. Next1(p) = Cmd("hash", t, r) /\ Tail(Todo(p)) = AfterHash(t, r)
    BY <1>8, CreateLiterals, Zenon DEF Next1
  <2>2. /\ task' = [task EXCEPT ![t] = [@ EXCEPT !.hash = r]]
        /\ UNCHANGED <<queue, captask, captures, cache>> /\ Todo(p)' = AfterHash(t, r)
    <3>1. /\ task' = [task EXCEPT ![t] = [@ EXCEPT !.hash = r]]
          /\ UNCHANGED <<queue, captask, captures, cache>> /\ Todo(p)' = Tail(Todo(p))
      BY <1>1, <2>1, DoesHash
    <3> QED
      BY <2>1, <3>1
  <2>3. /\ \A u \in Tasks : u # t => task'[u] = task[u]
        /\ task'[t].capture = task[t].capture /\ task'[t].start = task[t].start /\ task'[t].domain
    BY <1>2, <1>8, <2>2
  <2> QED
    BY <1>3, <1>4, <1>5, <2>2, <2>3 DEF Makes
<1>9. CASE task[t].domain /\ Todo(p) = AfterHash(t, r)
  <2>0. AfterHash(t, r)[1] = Cmd("queue", t, Prio[r]) /\ Tail(AfterHash(t, r)) = <<>>
    BY DEF AfterHash
  <2>1. Next1(p) = Cmd("queue", t, Prio[r]) /\ Tail(Todo(p)) = <<>>
    BY <1>9, <2>0, Zenon DEF Next1
  <2>2. /\ queue' = [queue EXCEPT ![t] = Prio[r]]
        /\ UNCHANGED <<task, captask, captures, cache>> /\ Todo(p)' = <<>>
    BY <1>1, <2>1, DoesQueue, Zenon
  <2> QED
    BY <1>2, <1>9, <2>2
<1> QED
  BY <1>6, <1>7, <1>8, <1>9 DEF Makes

----------------------------------------------------------------------------
(***************************************************************************)
(* The commands of the clients: they touch only the task they create.      *)
(***************************************************************************)
Forced == \A r \in Reqs : Prio[r] # 0

LEMMA CrawlerKept ==
  ASSUME Todo(Crawler)' = Todo(Crawler), me'.pc = me.pc, me'.task = me.task, me'.prio = me.prio,
         me'.capture = me.capture, UNCHANGED <<captask, captures, cache>>,
         NEW t, me.task # t,
         \A u \in Tasks : u # t => task'[u] = task[u] /\ queue'[u] = queue[u],
         \A u \in Tasks : task'[u].capture = task[u].capture
  PROVE  /\ Idle => Idle'
         /\ \A u \in Tasks : /\ HasTask(u) => HasTask(u)'
                             /\ EndsTask(u) => EndsTask(u)'
         /\ \A u \in Tasks, c \in Captures : /\ MakesCapture(u, c) => MakesCapture(u, c)'
                                             /\ HasCapture(u, c) => HasCapture(u, c)'
                                             /\ Forgets(u, c) => Forgets(u, c)'
<1>1. Idle => Idle'
  BY DEF Idle
<1>2. ASSUME NEW u \in Tasks, Holds(u) PROVE Holds(u)' /\ task'[u] = task[u]
  BY <1>2 DEF Holds
<1>3. \A u : Loose(u)' <=> Loose(u)
  BY DEF Loose
<1>4. \A c : InCache(c)' <=> InCache(c)
  BY DEF InCache
<1>5. ASSUME NEW u \in Tasks, HasTask(u) PROVE HasTask(u)'
  BY <1>2, <1>3, <1>5 DEF HasTask
<1>6. ASSUME NEW u \in Tasks, EndsTask(u) PROVE EndsTask(u)'
  BY <1>2, <1>3, <1>4, <1>6 DEF EndsTask
<1>7. ASSUME NEW u \in Tasks, NEW c \in Captures, MakesCapture(u, c) PROVE MakesCapture(u, c)'
  BY <1>2, <1>3, <1>7 DEF MakesCapture
<1>8. ASSUME NEW u \in Tasks, NEW c \in Captures, HasCapture(u, c) PROVE HasCapture(u, c)'
  <2>1. queue'[u] = queue[u]
    BY <1>8 DEF HasCapture
  <2> QED
    BY <1>4, <1>8, <2>1 DEF HasCapture
<1>9. ASSUME NEW u \in Tasks, NEW c \in Captures, Forgets(u, c) PROVE Forgets(u, c)'
  BY <1>9 DEF Forgets
<1> QED
  BY <1>1, <1>5, <1>6, <1>7, <1>8, <1>9

LEMMA ClientPlaces ==
  ASSUME Forced, Places, NEW p \in Clients, Command(p)
  PROVE  Places'
<1>1. Pends' /\ Pends /\ Base /\ TypeOK /\ p \in Procs /\ p # Crawler
  BY CommandPends, ProcsFacts DEF Places, Pends, Base
<1>2. Todo(p) # <<>>
  BY <1>1, Effects DEF TypeOK
<1>3. PICK t \in Tasks, r \in Reqs : Makes(p, t, r)
  BY <1>2 DEF Places, Makers, MakesTask
<1>4. /\ UNCHANGED <<captask, captures, cache>>
      /\ \A u \in Tasks : u # t => task'[u] = task[u] /\ queue'[u] = queue[u]
      /\ task'[t].capture = task[t].capture /\ task'[t].start = task[t].start
      /\ \/ Todo(p)' = <<>> /\ task'[t].domain /\ queue'[t] = Prio[r]
         \/ Makes(p, t, r)'
  BY <1>1, <1>3, MakesGoesOn
<1>5. /\ Todo(Crawler)' = Todo(Crawler) /\ me'.pc = me.pc /\ me'.task = me.task
      /\ me'.prio = me.prio /\ me'.capture = me.capture
  BY <1>1, CommandLocals, ProcsFacts
<1>6. /\ NoUse(t) /\ me.task # t /\ queue[t] = None /\ \A c \in Captures : captask[c] # t
      /\ Prio[r] # 0 /\ Prio[r] # None
  BY <1>3, CrawlerAssumption DEF Makes, NoUse, Forced
<1>7. \A u \in Tasks : task'[u].capture = task[u].capture
  BY <1>4
<1>8. /\ Idle => Idle'
      /\ \A u \in Tasks : /\ HasTask(u) => HasTask(u)'
                          /\ EndsTask(u) => EndsTask(u)'
      /\ \A u \in Tasks, c \in Captures : /\ MakesCapture(u, c) => MakesCapture(u, c)'
                                          /\ HasCapture(u, c) => HasCapture(u, c)'
                                          /\ Forgets(u, c) => Forgets(u, c)'
  BY <1>4, <1>5, <1>6, <1>7, CrawlerKept
<1>9. \A q \in Procs \ {p} : \A u \in Tasks, s \in Reqs : Makes(q, u, s) => Makes(q, u, s)'
  BY <1>1, MakesKept
<1>10. Stage'
  <2>1. MakesTask(Crawler) => MakesTask(Crawler)'
    BY <1>1, <1>9, ProcsFacts DEF MakesTask
  <2> QED
    BY <1>8, <2>1 DEF Places, Stage
<1>11. Makers'
  <2> SUFFICES ASSUME NEW q \in Clients PROVE Todo(q)' = <<>> \/ MakesTask(q)'
    BY DEF Makers
  <2>1. CASE q = p
    BY <1>4, <2>1 DEF MakesTask
  <2>2. CASE q # p
    <3>1. Todo(q)' = Todo(q) /\ q \in Procs \ {p}
      BY <1>1, <2>2, CommandLocals, ProcsFacts
    <3> QED
      BY <1>9, <3>1 DEF Places, Makers, MakesTask
  <2> QED
    BY <2>1, <2>2
<1>12. QueuedKnown'
  <2>1. queue'[t] # None => task'[t].domain /\ queue'[t] # 0
    BY <1>4, <1>6 DEF Makes, NoUse
  <2> QED
    BY <1>4, <2>1 DEF Places, QueuedKnown
<1>13. CapturesOwn'
  <2> SUFFICES ASSUME NEW c \in captures PROVE Own(c)'
    BY <1>4 DEF CapturesOwn
  <2>1. Own(c) /\ captask[c] \in Tasks /\ captask[c] # t
    BY <1>1, <1>6 DEF Places, CapturesOwn, Own, TypeOK
  <2>2. Pending(Crawler, "zrem", c) => Pending(Crawler, "zrem", c)'
    BY <1>5 DEF Pending, Todo
  <2> QED
    BY <1>4, <2>1, <2>2 DEF Own
<1>14. CacheOnce'
  BY <1>4 DEF Places, CacheOnce
<1>15. AllPlaced'
  <2> SUFFICES ASSUME NEW u \in Tasks, task'[u].domain PROVE Placed(u)'
    BY DEF AllPlaced
  <2>1. ASSUME NEW s \in Reqs, Makes(p, u, s) PROVE Placed(u)'
    <3>1. queue'[u] = Prio[s] \/ Makes(p, u, s)'
      BY <1>1, <2>1, MakesGoesOn
    <3>2. Prio[s] # None
      BY CrawlerAssumption
    <3> QED
      BY <1>1, <3>1, <3>2 DEF Placed
  <2>2. CASE u # t
    <3>1. Placed(u) /\ queue'[u] = queue[u]
      BY <1>4, <2>2 DEF Places, AllPlaced
    <3>2. Loose(u)' <=> Loose(u)
      BY <1>4 DEF Loose
    <3>3. ASSUME NEW q \in Procs, NEW s \in Reqs, Makes(q, u, s) PROVE Placed(u)'
      BY <1>9, <2>1, <3>3 DEF Placed
    <3> QED
      BY <1>8, <3>1, <3>2, <3>3 DEF Placed
  <2> QED
    BY <1>3, <2>1, <2>2
<1> QED
  BY <1>1, <1>10, <1>11, <1>12, <1>13, <1>14, <1>15 DEF Places

----------------------------------------------------------------------------
(***************************************************************************)
(* The Crawler is busy with its task, or creates another one.              *)
(***************************************************************************)
Busy(t, c) == HasTask(t) \/ EndsTask(t) \/ MakesCapture(t, c) \/ HasCapture(t, c) \/ Forgets(t, c)

LEMMA MakesHead ==
  ASSUME NEW p, NEW t, NEW r, Makes(p, t, r)
  PROVE  /\ Todo(p) # <<>> /\ Next1(p).op \in {"domain", "dedup", "hash", "queue"}
         /\ Next1(p).op = "queue" => Next1(p).key = t
<1>1. /\ CreateTask(t, r) # <<>> /\ CreateTask(t, r)[1].op = "domain"
      /\ AfterDomain(t, r) # <<>> /\ AfterDomain(t, r)[1].op = "dedup"
      /\ AfterDedup(t, r) # <<>> /\ AfterDedup(t, r)[1].op = "hash"
      /\ AfterHash(t, r) # <<>> /\ AfterHash(t, r)[1].op = "queue" /\ AfterHash(t, r)[1].key = t
  BY DEF CreateTask, AfterDomain, AfterDedup, AfterHash, Cmd
<1> QED
  BY <1>1 DEF Makes, Next1

LEMMA BusyHead ==
  ASSUME NEW t, NEW c, Busy(t, c), Todo(Crawler) # <<>>
  PROVE  \/ me.pc = "push"
         \/ Next1(Crawler).op \in {"start", "remove", "cacheAdd", "cacheRem", "zrem", "captask",
                                   "hdelDedup", "del"}
         \/ Next1(Crawler).op = "queue" /\ Next1(Crawler).key = me.task
<1>1. \A d : /\ StartTask(t)[1].op = "start" /\ TaskReset(t)[1].op = "start"
             /\ DropTask(t)[1].op = "queue" /\ DropTask(t)[1].key = t
             /\ TaskRemove(t)[1].op = "remove" /\ RemoveBoth(t, d)[1].op = "zrem"
             /\ RemoveTask(t, d)[1].op = "captask" /\ RemoveHashes(t)[1].op = "hdelDedup"
             /\ RemoveHash(t)[1].op = "del"
  BY DEF StartTask, TaskReset, DropTask, TaskRemove, RemoveBoth, RemoveTask, RemoveHashes,
         RemoveHash, Cmd
<1>2. \A v : QueueTask(t, v)[1].op = "queue" /\ QueueTask(t, v)[1].key = t
  BY DEF QueueTask, Cmd
<1>3. /\ AfterZadd(c)[1].op = "cacheAdd" /\ ResetBoth(t, c)[1].op = "start"
      /\ QueueBoth(t, c)[1].op = "queue" /\ QueueBoth(t, c)[1].key = t
      /\ DropCapture(c)[1].op = "cacheRem" /\ CaptureRemove(c)[1].op = "zrem"
      /\ AfterZrem(c)[1].op = "captask"
  BY DEF AfterZadd, ResetBoth, QueueBoth, DropCapture, CaptureRemove, AfterZrem, Cmd
<1>4. CASE HasTask(t)
  <2>1. me.task = t
    BY <1>4 DEF HasTask, Holds
  <2> QED
    BY <1>1, <1>2, <1>4, <2>1 DEF HasTask, Next1
<1>5. CASE EndsTask(t)
  <2>1. me.task = t
    BY <1>5 DEF EndsTask, Holds
  <2> QED
    BY <1>1, <1>5, <2>1 DEF EndsTask, Next1
<1>6. CASE MakesCapture(t, c)
  BY <1>6 DEF MakesCapture
<1>7. CASE HasCapture(t, c)
  BY <1>3, <1>7 DEF HasCapture, Next1
<1>8. CASE Forgets(t, c)
  BY <1>3, <1>8 DEF Forgets, Next1
<1> QED
  BY <1>4, <1>5, <1>6, <1>7, <1>8 DEF Busy

LEMMA Exclusive ==
  ASSUME NEW t, NEW c, NEW u, NEW r, Busy(t, c) \/ Idle, Makes(Crawler, u, r)
  PROVE  FALSE
<1>1. /\ Todo(Crawler) # <<>> /\ Next1(Crawler).op \in {"domain", "dedup", "hash", "queue"}
      /\ Next1(Crawler).op = "queue" => Next1(Crawler).key = u
      /\ me.pc = "slots" /\ me.task # u
  BY MakesHead DEF Makes, NoUse, me
<1>2. Busy(t, c)
  BY <1>1 DEF Idle
<1> QED
  BY <1>1, <1>2, BusyHead

LEMMA OwnCreation ==
  ASSUME Forced, Places, Command(Crawler), MakesTask(Crawler)
  PROVE  Places'
<1>1. Pends' /\ Pends /\ Base /\ TypeOK /\ Crawler \in Procs
  BY CommandPends, ProcsFacts DEF Places, Pends, Base
<1>2. PICK t \in Tasks, r \in Reqs : Makes(Crawler, t, r)
  BY DEF MakesTask
<1>3. /\ UNCHANGED <<captask, captures, cache>>
      /\ \A u \in Tasks : u # t => task'[u] = task[u] /\ queue'[u] = queue[u]
      /\ task'[t].capture = task[t].capture /\ task'[t].start = task[t].start
      /\ \/ Todo(Crawler)' = <<>> /\ task'[t].domain /\ queue'[t] = Prio[r]
         \/ Makes(Crawler, t, r)'
  BY <1>1, <1>2, MakesGoesOn
<1>4. me'.pc = "slots"
  BY <1>1, <1>2, CommandLocals DEF Makes, me
<1>5. /\ NoUse(t) /\ \A c \in Captures : captask[c] # t
      /\ Prio[r] # 0 /\ Prio[r] # None
  BY <1>2, CrawlerAssumption DEF Makes, NoUse, Forced
<1>6. \A q \in Clients : Todo(q)' = Todo(q) /\ q \in Procs \ {Crawler}
  BY <1>1, CommandLocals, ProcsFacts
<1>7. \A q \in Procs \ {Crawler} : \A u \in Tasks, s \in Reqs : Makes(q, u, s) => Makes(q, u, s)'
  BY <1>1, MakesKept
<1>8. \A u, c : ~HasTask(u) /\ ~EndsTask(u) /\ ~MakesCapture(u, c)
  BY <1>2, Exclusive DEF Busy
<1>10. Stage'
  BY <1>2, <1>3, <1>4 DEF Stage, Idle, MakesTask
<1>11. Makers'
  BY <1>6, <1>7 DEF Places, Makers, MakesTask
<1>12. QueuedKnown'
  <2>1. queue'[t] # None => task'[t].domain /\ queue'[t] # 0
    BY <1>3, <1>5 DEF Makes, NoUse
  <2> QED
    BY <1>3, <2>1 DEF Places, QueuedKnown
<1>13. CapturesOwn'
  <2> SUFFICES ASSUME NEW c \in captures PROVE Own(c)'
    BY <1>3 DEF CapturesOwn
  <2>1. Own(c) /\ captask[c] \in Tasks /\ captask[c] # t
    BY <1>1, <1>5 DEF Places, CapturesOwn, Own, TypeOK
  <2>2. Pending(Crawler, "zrem", c) => Pending(Crawler, "zrem", c)'
    <3>1. Next1(Crawler).op # "zrem"
      BY <1>2, MakesHead
    <3> QED
      BY <1>1, <3>1, PendingAfter
  <2> QED
    BY <1>3, <2>1, <2>2 DEF Own
<1>14. CacheOnce'
  BY <1>3 DEF Places, CacheOnce
<1>15. AllPlaced'
  <2> SUFFICES ASSUME NEW u \in Tasks, task'[u].domain PROVE Placed(u)'
    BY DEF AllPlaced
  <2>1. ASSUME NEW s \in Reqs, Makes(Crawler, u, s) PROVE Placed(u)'
    <3>1. queue'[u] = Prio[s] \/ Makes(Crawler, u, s)'
      BY <1>1, <2>1, MakesGoesOn
    <3>2. Prio[s] # None
      BY CrawlerAssumption
    <3> QED
      BY <1>1, <3>1, <3>2 DEF Placed
  <2>2. CASE u # t
    <3>1. Placed(u) /\ queue'[u] = queue[u]
      BY <1>3, <2>2 DEF Places, AllPlaced
    <3>2. Loose(u)' <=> Loose(u)
      BY <1>3 DEF Loose
    <3>3. ASSUME NEW q \in Procs, NEW s \in Reqs, Makes(q, u, s) PROVE Placed(u)'
      BY <1>7, <2>1, <3>3 DEF Placed
    <3> QED
      BY <1>8, <3>1, <3>2, <3>3 DEF Placed
  <2> QED
    BY <1>2, <2>1, <2>2
<1> QED
  BY <1>1, <1>10, <1>11, <1>12, <1>13, <1>14, <1>15 DEF Places

\* What the Crawler does for its task leaves the other tasks where they are.
LEMMA BusyFrame ==
  ASSUME Places, Command(Crawler), NEW t, NEW c, Busy(t, c),
         \A u \in Tasks : u # me.task => queue'[u] = queue[u] /\ task'[u] = task[u],
         \A d \in captures : captask[d] # me.task => d \in captures' /\ captask'[d] = captask[d]
  PROVE  /\ Pends' /\ Makers'
         /\ \A u \in Tasks : u # me.task /\ task'[u].domain => Placed(u)'
<1>1. Pends' /\ Pends /\ Base /\ Crawler \in Procs
  BY CommandPends, ProcsFacts DEF Places, Pends
<1>2. \A q \in Clients : Todo(q)' = Todo(q) /\ q \in Procs \ {Crawler}
  BY <1>1, CommandLocals, ProcsFacts
<1>3. \A q \in Procs \ {Crawler} : \A u \in Tasks, s \in Reqs : Makes(q, u, s) => Makes(q, u, s)'
  BY <1>1, MakesKept
<1>4. Makers'
  BY <1>2, <1>3 DEF Places, Makers, MakesTask
<1>5. ASSUME NEW u \in Tasks, u # me.task, task'[u].domain PROVE Placed(u)'
  <2>1. Placed(u) /\ queue'[u] = queue[u]
    BY <1>5 DEF Places, AllPlaced
  <2>2. ~HasTask(u) /\ ~EndsTask(u) /\ \A d : ~MakesCapture(u, d)
    BY <1>5 DEF HasTask, EndsTask, MakesCapture, Holds
  <2>3. ~Loose(u) => ~Loose(u)'
    BY <1>5 DEF Loose
  <2>4. ASSUME NEW q \in Procs, NEW s \in Reqs, Makes(q, u, s) PROVE Placed(u)'
    <3>1. q # Crawler
      BY <2>4, Exclusive
    <3> QED
      BY <1>3, <2>4, <3>1 DEF Placed
  <2> QED
    BY <2>1, <2>2, <2>3, <2>4 DEF Placed
<1> QED
  BY <1>1, <1>4, <1>5

LEMMA OwnElsewhere ==
  ASSUME Places, Command(Crawler), NEW c \in captures,
         ~(Next1(Crawler).op = "zrem" /\ Next1(Crawler).key = c),
         captask'[c] = captask[c], task'[captask[c]] = task[captask[c]],
         queue'[captask[c]] = queue[captask[c]]
  PROVE  Own(c)'
<1>1. Base /\ Crawler \in Procs /\ Own(c)
  BY ProcsFacts DEF Places, Pends, CapturesOwn
<1>2. Pending(Crawler, "zrem", c) => Pending(Crawler, "zrem", c)'
  BY <1>1, PendingAfter
<1> QED
  BY <1>1, <1>2 DEF Own

LEMMA HasTaskStep ==
  ASSUME Places, Command(Crawler), NEW t \in Tasks, HasTask(t)
  PROVE  Places'
<1>1. Base /\ TypeOK /\ Crawler \in Procs /\ Todo(Crawler) # <<>>
  BY ProcsFacts, Effects DEF Places, Pends, Base, TypeOK
<1>2. /\ task \in [Tasks -> [domain : BOOLEAN, hash : Reqs \cup {None}, start : BOOLEAN,
                             capture : Captures \cup {None}]]
      /\ queue \in [Tasks -> Nat \cup {None}]
  BY <1>1 DEF TypeOK
<1>3. me'.task = me.task /\ me'.pc = me.pc /\ me'.prio = me.prio
  BY <1>1, CommandLocals
<1>4. Holds(t) /\ Loose(t) /\ me.task = t /\ Busy(t, None)
  BY DEF HasTask, Holds, Busy
<1>0. \A b : Next1(Crawler) = Cmd("start", t, b) =>
         /\ task' = [task EXCEPT ![t] = [@ EXCEPT !.start = b]]
         /\ UNCHANGED <<queue, captask, captures, cache>> /\ Todo(Crawler)' = Tail(Todo(Crawler))
  BY <1>1, DoesStart
<1>5. ASSUME NEW b \in BOOLEAN, Next1(Crawler) = Cmd("start", t, b), HasTask(t)' PROVE Places'
  <2>1. task' = [task EXCEPT ![t] = [@ EXCEPT !.start = b]]
        /\ UNCHANGED <<queue, captask, captures, cache>>
    BY <1>1, <1>5, DoesStart
  <2>2. /\ \A u \in Tasks : u # t => task'[u] = task[u]
        /\ task'[t].domain = task[t].domain
    BY <1>2, <2>1
  <2>3. /\ Pends' /\ Makers'
        /\ \A u \in Tasks : u # t /\ task'[u].domain => Placed(u)'
    BY <1>4, <2>1, <2>2, BusyFrame
  <2>4. Stage' /\ Placed(t)'
    BY <1>5 DEF Stage, Placed
  <2>5. QueuedKnown'
    BY <2>1, <2>2 DEF Places, QueuedKnown
  <2>6. CapturesOwn'
    <3> SUFFICES ASSUME NEW c \in captures PROVE Own(c)'
      BY <2>1 DEF CapturesOwn
    <3>1. captask[c] # t /\ captask[c] \in Tasks /\ Next1(Crawler).op # "zrem"
      BY <1>4, <1>5, CmdFields DEF Loose, Places, CapturesOwn, Own
    <3> QED
      BY <2>1, <2>2, <3>1, OwnElsewhere
  <2>7. CacheOnce'
    BY <2>1 DEF Places, CacheOnce
  <2> QED
    BY <2>3, <2>4, <2>5, <2>6, <2>7 DEF Places, AllPlaced
<1>6. CASE me.pc = "enqueue" /\ me.prio # 0 /\ Todo(Crawler) = StartTask(t)
  <2>1. Next1(Crawler) = Cmd("start", t, TRUE) /\ Tail(Todo(Crawler)) = <<>>
    BY <1>6, TaskLiterals, Zenon DEF Next1
  <2>2. task' = [task EXCEPT ![t] = [@ EXCEPT !.start = TRUE]]
        /\ UNCHANGED <<queue, captask, captures, cache>> /\ Todo(Crawler)' = <<>>
    <3>1. task' = [task EXCEPT ![t] = [@ EXCEPT !.start = TRUE]]
        /\ UNCHANGED <<queue, captask, captures, cache>> /\ Todo(Crawler)' = Tail(Todo(Crawler))
      BY <1>0, <2>1, Zenon
    <3> QED
      BY <2>1, <3>1
  <2>3. task'[t].domain = task[t].domain /\ task'[t].start
    BY <1>2, <2>2
  <2>4. HasTask(t)'
    BY <1>3, <1>4, <1>6, <2>2, <2>3 DEF HasTask, Holds, Loose
  <2> QED
    BY <1>5, <2>1, <2>4
<1>7. CASE me.pc = "slots" /\ Todo(Crawler) = TaskReset(t)
  <2>1. Next1(Crawler) = Cmd("start", t, FALSE) /\ Tail(Todo(Crawler)) = QueueTask(t, 49)
    BY <1>7, TaskLiterals, Zenon DEF Next1
  <2>2. task' = [task EXCEPT ![t] = [@ EXCEPT !.start = FALSE]]
        /\ UNCHANGED <<queue, captask, captures, cache>> /\ Todo(Crawler)' = QueueTask(t, 49)
    <3>1. task' = [task EXCEPT ![t] = [@ EXCEPT !.start = FALSE]]
        /\ UNCHANGED <<queue, captask, captures, cache>> /\ Todo(Crawler)' = Tail(Todo(Crawler))
      BY <1>0, <2>1, Zenon
    <3> QED
      BY <2>1, <3>1
  <2>3. task'[t].domain = task[t].domain
    BY <1>2, <2>2
  <2>4. HasTask(t)'
    <3>1. Holds(t)' /\ Loose(t)'
      BY <1>3, <1>4, <2>2, <2>3 DEF Holds, Loose
    <3> QED
      BY <1>3, <1>7, <2>2, <3>1 DEF HasTask
  <2> QED
    BY <1>5, <2>1, <2>4
<1>8. ASSUME NEW v \in Nat \ {0}, me.pc = "slots", Todo(Crawler) = QueueTask(t, v) PROVE Places'
  <2>0. QueueTask(t, v)[1] = Cmd("queue", t, v) /\ Tail(QueueTask(t, v)) = <<>>
    BY DEF QueueTask
  <2>1. Next1(Crawler) = Cmd("queue", t, v) /\ Tail(Todo(Crawler)) = <<>>
    BY <1>8, <2>0, Zenon DEF Next1
  <2>2. queue' = [queue EXCEPT ![t] = v]
        /\ UNCHANGED <<task, captask, captures, cache>> /\ Todo(Crawler)' = <<>>
    <3>1. queue' = [queue EXCEPT ![t] = v]
        /\ UNCHANGED <<task, captask, captures, cache>> /\ Todo(Crawler)' = Tail(Todo(Crawler))
      BY <1>1, <2>1, DoesQueue
    <3> QED
      BY <2>1, <3>1
  <2>3. queue'[t] = v /\ v # None /\ \A u \in Tasks : u # t => queue'[u] = queue[u]
    BY <1>2, <2>2, CrawlerAssumption
  <2>4. /\ Pends' /\ Makers'
        /\ \A u \in Tasks : u # t /\ task'[u].domain => Placed(u)'
    BY <1>4, <2>2, <2>3, BusyFrame
  <2>5. Stage'
    BY <1>3, <1>8, <2>2 DEF Stage, Idle
  <2>6. Placed(t)'
    BY <2>3 DEF Placed
  <2>7. QueuedKnown'
    BY <1>4, <2>2, <2>3 DEF Places, QueuedKnown, Holds
  <2>8. CapturesOwn'
    <3> SUFFICES ASSUME NEW c \in captures PROVE Own(c)'
      BY <2>2 DEF CapturesOwn
    <3>1. captask[c] # t /\ captask[c] \in Tasks /\ Next1(Crawler).op # "zrem"
      BY <1>4, <2>1, CmdFields DEF Loose, Places, CapturesOwn, Own
    <3> QED
      BY <2>2, <2>3, <3>1, OwnElsewhere
  <2>9. CacheOnce'
    BY <2>2 DEF Places, CacheOnce
  <2> QED
    BY <2>4, <2>5, <2>6, <2>7, <2>8, <2>9 DEF Places, AllPlaced
<1> QED
  BY <1>1, <1>6, <1>7, <1>8 DEF HasTask

LEMMA MakesCaptureStep ==
  ASSUME Places, Command(Crawler), NEW t \in Tasks, NEW c \in Captures, MakesCapture(t, c)
  PROVE  Places'
<1>1. Base /\ TypeOK /\ Crawler \in Procs
  BY ProcsFacts DEF Places, Pends, Base
<1>2. /\ task \in [Tasks -> [domain : BOOLEAN, hash : Reqs \cup {None}, start : BOOLEAN,
                             capture : Captures \cup {None}]]
      /\ captask \in [Captures -> Tasks \cup {None}] /\ captures \subseteq Captures
  BY <1>1 DEF TypeOK
<1>3. me'.task = me.task /\ me'.pc = me.pc
  BY <1>1, CommandLocals
<1>4. /\ me.task = t /\ Busy(t, c) /\ task[t].domain /\ queue[t] = None /\ task[t].start
      /\ \A d \in captures : captask[d] # t
      /\ me.pc = "push" /\ c \notin captures
  BY DEF MakesCapture, Holds, Busy, Loose
<1>5. CASE Todo(Crawler) = CreateCapture(c, t) /\ \A u \in Tasks : task[u].capture # c
  <2>0. CreateCapture(c, t)[1] = Cmd("capture", t, c)
       /\ Tail(CreateCapture(c, t)) = AfterCapture(c, t)
    BY CaptureLiterals
  <2>1. Next1(Crawler) = Cmd("capture", t, c) /\ Tail(Todo(Crawler)) = AfterCapture(c, t)
    BY <1>5, <2>0, Zenon DEF Next1
  <2>2. /\ task' = [task EXCEPT ![t] = [@ EXCEPT !.capture = c]]
        /\ UNCHANGED <<queue, captask, captures, cache>> /\ Todo(Crawler)' = AfterCapture(c, t)
    <3>1. /\ task' = [task EXCEPT ![t] = [@ EXCEPT !.capture = c]]
          /\ UNCHANGED <<queue, captask, captures, cache>> /\ Todo(Crawler)' = Tail(Todo(Crawler))
      BY <1>1, <2>1, DoesCapture
    <3> QED
      BY <2>1, <3>1
  <2>3. /\ \A u \in Tasks : u # t => task'[u] = task[u]
        /\ task'[t].domain = task[t].domain /\ task'[t].start = task[t].start
        /\ task'[t].capture = c
    BY <1>2, <2>2
  <2>4. /\ Pends' /\ Makers'
        /\ \A u \in Tasks : u # t /\ task'[u].domain => Placed(u)'
    BY <1>4, <2>2, <2>3, BusyFrame
  <2>5. MakesCapture(t, c)'
    BY <1>3, <1>4, <2>2, <2>3 DEF MakesCapture, Holds, Loose
  <2>6. QueuedKnown'
    BY <2>2, <2>3 DEF Places, QueuedKnown
  <2>7. CapturesOwn'
    <3> SUFFICES ASSUME NEW d \in captures PROVE Own(d)'
      BY <2>2 DEF CapturesOwn
    <3>1. captask[d] # t /\ captask[d] \in Tasks /\ Next1(Crawler).op # "zrem"
      BY <1>4, <2>1, CmdFields DEF Places, CapturesOwn, Own
    <3> QED
      BY <2>2, <2>3, <3>1, OwnElsewhere
  <2>8. CacheOnce'
    BY <2>2 DEF Places, CacheOnce
  <2> QED
    BY <2>4, <2>5, <2>6, <2>7, <2>8 DEF Places, AllPlaced, Stage, Placed
<1>6. CASE Todo(Crawler) = AfterCapture(c, t) /\ task[t].capture = c
  <2>0. AfterCapture(c, t)[1] = Cmd("captask", c, t) /\ Tail(AfterCapture(c, t)) = AfterCapTask(c)
    BY CaptureLiterals
  <2>1. Next1(Crawler) = Cmd("captask", c, t) /\ Tail(Todo(Crawler)) = AfterCapTask(c)
    BY <1>6, <2>0, Zenon DEF Next1
  <2>2. /\ captask' = [captask EXCEPT ![c] = t]
        /\ UNCHANGED <<task, queue, captures, cache>> /\ Todo(Crawler)' = AfterCapTask(c)
    <3>1. /\ captask' = [captask EXCEPT ![c] = t]
          /\ UNCHANGED <<task, queue, captures, cache>> /\ Todo(Crawler)' = Tail(Todo(Crawler))
      BY <1>1, <2>1, DoesCapTask
    <3> QED
      BY <2>1, <3>1
  <2>3. captask'[c] = t /\ \A d \in captures : captask'[d] = captask[d]
    BY <1>2, <1>4, <2>2
  <2>4. /\ Pends' /\ Makers'
        /\ \A u \in Tasks : u # t /\ task'[u].domain => Placed(u)'
    BY <1>4, <2>2, <2>3, BusyFrame
  <2>5. MakesCapture(t, c)'
    BY <1>3, <1>4, <1>6, <2>2, <2>3 DEF MakesCapture, Holds, Loose
  <2>6. QueuedKnown'
    BY <2>2 DEF Places, QueuedKnown
  <2>7. CapturesOwn'
    <3> SUFFICES ASSUME NEW d \in captures PROVE Own(d)'
      BY <2>2 DEF CapturesOwn
    <3>1. Next1(Crawler).op # "zrem"
      BY <2>1, CmdFields
    <3> QED
      BY <2>2, <2>3, <3>1, OwnElsewhere
  <2>8. CacheOnce'
    BY <2>2 DEF Places, CacheOnce
  <2> QED
    BY <2>4, <2>5, <2>6, <2>7, <2>8 DEF Places, AllPlaced, Stage, Placed
<1>7. CASE Todo(Crawler) = AfterCapTask(c) /\ task[t].capture = c /\ captask[c] = t
  <2>0. AfterCapTask(c)[1] = Cmd("zadd", c, None) /\ Tail(AfterCapTask(c)) = AfterZadd(c)
    BY CaptureLiterals
  <2>1. Next1(Crawler) = Cmd("zadd", c, None) /\ Tail(Todo(Crawler)) = AfterZadd(c)
    BY <1>7, <2>0, Zenon DEF Next1
  <2>2. /\ captures' = captures \cup {c}
        /\ UNCHANGED <<task, queue, captask, cache>> /\ Todo(Crawler)' = AfterZadd(c)
    <3>1. /\ captures' = captures \cup {c}
          /\ UNCHANGED <<task, queue, captask, cache>> /\ Todo(Crawler)' = Tail(Todo(Crawler))
      BY <1>1, <2>1, DoesZadd
    <3> QED
      BY <2>1, <3>1
  <2>3. /\ Pends' /\ Makers'
        /\ \A u \in Tasks : u # t /\ task'[u].domain => Placed(u)'
    BY <1>4, <2>2, BusyFrame
  <2>4. ~InCache(c)'
    BY <1>4, <2>2 DEF Places, CacheOnce, InCache
  <2>5. HasCapture(t, c)'
    BY <1>3, <1>4, <1>7, <2>2, <2>4 DEF HasCapture
  <2>6. QueuedKnown'
    BY <2>2 DEF Places, QueuedKnown
  <2>7. CapturesOwn'
    <3> SUFFICES ASSUME NEW d \in captures' PROVE Own(d)'
      BY DEF CapturesOwn
    <3>1. CASE d = c
      BY <1>4, <1>7, <2>2, <3>1 DEF Own
    <3>2. CASE d # c
      <4>1. d \in captures /\ Next1(Crawler).op # "zrem"
        BY <2>1, <2>2, <3>2, CmdFields
      <4> QED
        BY <2>2, <4>1, OwnElsewhere
    <3> QED
      BY <3>1, <3>2
  <2>8. CacheOnce'
    BY <2>2 DEF Places, CacheOnce
  <2>9. Stage' /\ Placed(t)'
    BY <1>7, <2>2, <2>5 DEF Stage, Placed, Loose
  <2> QED
    BY <2>3, <2>6, <2>7, <2>8, <2>9 DEF Places, AllPlaced
<1> QED
  BY <1>5, <1>6, <1>7 DEF MakesCapture

LEMMA ZremPending ==
  ASSUME NEW t, NEW c,
         \/ Todo(Crawler) = ResetBoth(t, c) \/ Todo(Crawler) = QueueBoth(t, c)
         \/ Todo(Crawler) = DropCapture(c) \/ Todo(Crawler) = CaptureRemove(c)
  PROVE  Pending(Crawler, "zrem", c)
<1>1. /\ 4 \in DOMAIN ResetBoth(t, c) /\ ResetBoth(t, c)[4] = Cmd("zrem", c, None)
      /\ 3 \in DOMAIN QueueBoth(t, c) /\ QueueBoth(t, c)[3] = Cmd("zrem", c, None)
      /\ 2 \in DOMAIN DropCapture(c) /\ DropCapture(c)[2] = Cmd("zrem", c, None)
      /\ 1 \in DOMAIN CaptureRemove(c) /\ CaptureRemove(c)[1] = Cmd("zrem", c, None)
  BY DEF ResetBoth, QueueBoth, DropCapture, CaptureRemove
<1>2. \E k \in DOMAIN Todo(Crawler) : Todo(Crawler)[k] = Cmd("zrem", c, None)
  BY <1>1
<1> QED
  BY <1>2, CmdFields DEF Pending, Todo

LEMMA HasCaptureStep ==
  ASSUME Places, Command(Crawler), NEW t \in Tasks, NEW c \in Captures, HasCapture(t, c)
  PROVE  Places'
<1>1. Base /\ TypeOK /\ Crawler \in Procs /\ Todo(Crawler) # <<>>
  BY ProcsFacts, Effects DEF Places, Pends, Base, TypeOK
<1>2. /\ task \in [Tasks -> [domain : BOOLEAN, hash : Reqs \cup {None}, start : BOOLEAN,
                             capture : Captures \cup {None}]]
      /\ queue \in [Tasks -> Nat \cup {None}]
      /\ cache \in Seq(Captures)
  BY <1>1 DEF TypeOK
<1>3. me'.task = me.task /\ me'.pc = me.pc
  BY <1>1, CommandLocals
<1>4. /\ me.task = t /\ Busy(t, c) /\ c \in captures /\ captask[c] = t
      /\ \A k \in DOMAIN cache : cache[k] # c
      /\ Own(c) /\ task[t].capture = c /\ task[t].domain
  BY DEF HasCapture, Busy, InCache, Places, CapturesOwn, Own
<1>5. \A d \in captures : d # c => captask[d] # t /\ captask[d] \in Tasks
  BY <1>4 DEF Places, CapturesOwn, Own
<1>6. Without(cache, c) = cache
  BY <1>4 DEF Without
<1>7. CASE me.pc \in {"push", "slots"} /\ Todo(Crawler) = AfterZadd(c)
  <2>0. AfterZadd(c)[1] = Cmd("cacheAdd", c, None) /\ Tail(AfterZadd(c)) = <<>>
    BY BothLiterals
  <2>1. Next1(Crawler) = Cmd("cacheAdd", c, None) /\ Tail(Todo(Crawler)) = <<>>
    BY <1>7, <2>0, Zenon DEF Next1
  <2>2. /\ cache' = Append(cache, c)
        /\ UNCHANGED <<task, queue, captask, captures>> /\ Todo(Crawler)' = <<>>
    <3>1. /\ cache' = Append(Without(cache, c), c)
          /\ UNCHANGED <<task, queue, captask, captures>> /\ Todo(Crawler)' = Tail(Todo(Crawler))
      BY <1>1, <2>1, DoesCacheAdd
    <3> QED
      BY <1>6, <2>1, <3>1
  <2>3. /\ Pends' /\ Makers'
        /\ \A u \in Tasks : u # t /\ task'[u].domain => Placed(u)'
    BY <1>4, <2>2, BusyFrame
  <2>4. Stage' /\ Placed(t)'
    BY <1>3, <1>4, <1>7, <2>2 DEF Stage, Idle, Placed, Loose
  <2>5. QueuedKnown'
    BY <2>2 DEF Places, QueuedKnown
  <2>6. CapturesOwn'
    <3> SUFFICES ASSUME NEW d \in captures PROVE Own(d)'
      BY <2>2 DEF CapturesOwn
    <3>1. Next1(Crawler).op # "zrem"
      BY <2>1, CmdFields
    <3> QED
      BY <2>2, <3>1, OwnElsewhere
  <2>7. CacheOnce'
    <3>1. /\ Len(cache) \in Nat /\ DOMAIN cache = 1 .. Len(cache)
          /\ DOMAIN cache' = 1 .. Len(cache) + 1
          /\ \A k \in 1 .. Len(cache) : cache'[k] = cache[k]
          /\ cache'[Len(cache) + 1] = c
      BY <1>2, <2>2
    <3>2. \A k \in DOMAIN cache' : k \in DOMAIN cache \/ k = Len(cache) + 1
      BY <3>1
    <3>3. Len(cache) + 1 \notin DOMAIN cache
      BY <3>1
    <3> QED
      BY <1>4, <2>2, <3>1, <3>2, <3>3 DEF Places, CacheOnce
  <2> QED
    BY <2>3, <2>4, <2>5, <2>6, <2>7 DEF Places, AllPlaced
<1>8. CASE me.pc = "slots" /\ Todo(Crawler) = ResetBoth(t, c) /\ queue[t] = None
  <2>0. ResetBoth(t, c)[1] = Cmd("start", t, FALSE) /\ Tail(ResetBoth(t, c)) = QueueBoth(t, c)
    BY BothLiterals
  <2>1. Next1(Crawler) = Cmd("start", t, FALSE) /\ Tail(Todo(Crawler)) = QueueBoth(t, c)
    BY <1>8, <2>0, Zenon DEF Next1
  <2>2. /\ task' = [task EXCEPT ![t] = [@ EXCEPT !.start = FALSE]]
        /\ UNCHANGED <<queue, captask, captures, cache>> /\ Todo(Crawler)' = QueueBoth(t, c)
    <3>1. \A b : Next1(Crawler) = Cmd("start", t, b) =>
             /\ task' = [task EXCEPT ![t] = [@ EXCEPT !.start = b]]
             /\ UNCHANGED <<queue, captask, captures, cache>>
             /\ Todo(Crawler)' = Tail(Todo(Crawler))
      BY <1>1, DoesStart
    <3> QED
      BY <2>1, <3>1, Zenon
  <2>3. /\ \A u \in Tasks : u # t => task'[u] = task[u]
        /\ task'[t].domain = task[t].domain /\ task'[t].capture = task[t].capture
    BY <1>2, <2>2
  <2>4. /\ Pends' /\ Makers'
        /\ \A u \in Tasks : u # t /\ task'[u].domain => Placed(u)'
    BY <1>4, <2>2, <2>3, BusyFrame
  <2>5. HasCapture(t, c)'
    BY <1>3, <1>4, <1>8, <2>2 DEF HasCapture, InCache
  <2>6. Stage' /\ Placed(t)'
    BY <1>4, <2>2, <2>5 DEF Stage, Placed, Loose
  <2>7. QueuedKnown'
    BY <2>2, <2>3 DEF Places, QueuedKnown
  <2>8. Next1(Crawler).op # "zrem"
    <3>1. \A b : Next1(Crawler) = Cmd("start", t, b) => Next1(Crawler).op # "zrem"
      BY CmdFields
    <3> QED
      BY <2>1, <3>1, Zenon
  <2>9. Own(c)'
    <3>1. Pending(Crawler, "zrem", c)'
      BY <1>1, <1>8, <2>8, ZremPending, PendingAfter
    <3> QED
      BY <1>4, <2>2, <2>3, <3>1 DEF Own
  <2>10. CapturesOwn'
    <3> SUFFICES ASSUME NEW d \in captures, d # c PROVE Own(d)'
      BY <2>2, <2>9 DEF CapturesOwn
    <3> QED
      BY <1>5, <2>2, <2>3, <2>8, OwnElsewhere
  <2>11. CacheOnce'
    BY <2>2 DEF Places, CacheOnce
  <2> QED
    BY <2>4, <2>6, <2>7, <2>10, <2>11 DEF Places, AllPlaced
<1>9. CASE me.pc = "slots" /\ Todo(Crawler) = QueueBoth(t, c)
  <2>0. QueueBoth(t, c)[1] = Cmd("queue", t, 49) /\ Tail(QueueBoth(t, c)) = DropCapture(c)
    BY BothLiterals
  <2>1. Next1(Crawler) = Cmd("queue", t, 49) /\ Tail(Todo(Crawler)) = DropCapture(c)
    BY <1>9, <2>0, Zenon DEF Next1
  <2>2. /\ queue' = [queue EXCEPT ![t] = 49]
        /\ UNCHANGED <<task, captask, captures, cache>> /\ Todo(Crawler)' = DropCapture(c)
    <3>1. /\ queue' = [queue EXCEPT ![t] = 49]
          /\ UNCHANGED <<task, captask, captures, cache>> /\ Todo(Crawler)' = Tail(Todo(Crawler))
      BY <1>1, <2>1, DoesQueue
    <3> QED
      BY <2>1, <3>1
  <2>3. queue'[t] = 49 /\ 49 # None /\ \A u \in Tasks : u # t => queue'[u] = queue[u]
    BY <1>2, <2>2, CrawlerAssumption
  <2>4. /\ Pends' /\ Makers'
        /\ \A u \in Tasks : u # t /\ task'[u].domain => Placed(u)'
    BY <1>4, <2>2, <2>3, BusyFrame
  <2>5. HasCapture(t, c)'
    BY <1>3, <1>4, <1>9, <2>2, <2>3 DEF HasCapture, InCache
  <2>6. Stage' /\ Placed(t)'
    BY <2>3, <2>5 DEF Stage, Placed
  <2>7. QueuedKnown'
    BY <1>4, <2>2, <2>3 DEF Places, QueuedKnown
  <2>8. Next1(Crawler).op # "zrem"
    BY <2>1, CmdFields
  <2>9. Own(c)'
    <3>1. Pending(Crawler, "zrem", c)'
      BY <1>1, <1>9, <2>8, ZremPending, PendingAfter
    <3> QED
      BY <1>4, <2>2, <3>1 DEF Own
  <2>10. CapturesOwn'
    <3> SUFFICES ASSUME NEW d \in captures, d # c PROVE Own(d)'
      BY <2>2, <2>9 DEF CapturesOwn
    <3> QED
      BY <1>5, <2>2, <2>3, <2>8, OwnElsewhere
  <2>11. CacheOnce'
    BY <2>2 DEF Places, CacheOnce
  <2> QED
    BY <2>4, <2>6, <2>7, <2>10, <2>11 DEF Places, AllPlaced
<1>10. CASE me.pc = "slots" /\ Todo(Crawler) = DropCapture(c) /\ queue[t] # None
  <2>0. DropCapture(c)[1] = Cmd("cacheRem", c, None) /\ Tail(DropCapture(c)) = CaptureRemove(c)
    BY BothLiterals
  <2>1. Next1(Crawler) = Cmd("cacheRem", c, None) /\ Tail(Todo(Crawler)) = CaptureRemove(c)
    BY <1>10, <2>0, Zenon DEF Next1
  <2>2. UNCHANGED <<task, queue, captask, captures, cache>> /\ Todo(Crawler)' = CaptureRemove(c)
    <3>1. /\ cache' = Without(cache, c)
          /\ UNCHANGED <<task, queue, captask, captures>> /\ Todo(Crawler)' = Tail(Todo(Crawler))
      BY <1>1, <2>1, DoesCacheRem
    <3> QED
      BY <1>6, <2>1, <3>1
  <2>3. /\ Pends' /\ Makers'
        /\ \A u \in Tasks : u # t /\ task'[u].domain => Placed(u)'
    BY <1>4, <2>2, BusyFrame
  <2>4. HasCapture(t, c)'
    BY <1>3, <1>4, <1>10, <2>2 DEF HasCapture, InCache
  <2>5. Stage' /\ Placed(t)'
    BY <1>10, <2>2, <2>4 DEF Stage, Placed
  <2>6. QueuedKnown' /\ CacheOnce'
    BY <2>2 DEF Places, QueuedKnown, CacheOnce
  <2>7. CapturesOwn'
    <3> SUFFICES ASSUME NEW d \in captures PROVE Own(d)'
      BY <2>2 DEF CapturesOwn
    <3>1. Next1(Crawler).op # "zrem"
      BY <2>1, CmdFields
    <3> QED
      BY <2>2, <3>1, OwnElsewhere
  <2> QED
    BY <2>3, <2>5, <2>6, <2>7 DEF Places, AllPlaced
<1>11. CASE me.pc = "slots" /\ Todo(Crawler) = CaptureRemove(c) /\ queue[t] # None
  <2>0. CaptureRemove(c)[1] = Cmd("zrem", c, None) /\ Tail(CaptureRemove(c)) = AfterZrem(c)
    BY BothLiterals
  <2>1. Next1(Crawler) = Cmd("zrem", c, None) /\ Tail(Todo(Crawler)) = AfterZrem(c)
    BY <1>11, <2>0, Zenon DEF Next1
  <2>2. /\ captures' = captures \ {c}
        /\ UNCHANGED <<task, queue, captask, cache>> /\ Todo(Crawler)' = AfterZrem(c)
    <3>1. /\ captures' = captures \ {c}
          /\ UNCHANGED <<task, queue, captask, cache>> /\ Todo(Crawler)' = Tail(Todo(Crawler))
      BY <1>1, <2>1, DoesZrem
    <3> QED
      BY <2>1, <3>1
  <2>3. /\ Pends' /\ Makers'
        /\ \A u \in Tasks : u # t /\ task'[u].domain => Placed(u)'
    BY <1>4, <2>2, BusyFrame
  <2>4. Stage' /\ Placed(t)'
    BY <1>3, <1>4, <1>11, <2>2 DEF Stage, Placed, Forgets
  <2>5. QueuedKnown'
    BY <2>2 DEF Places, QueuedKnown
  <2>6. CacheOnce'
    BY <1>4, <2>2 DEF Places, CacheOnce
  <2>7. CapturesOwn'
    <3> SUFFICES ASSUME NEW d \in captures' PROVE Own(d)'
      BY DEF CapturesOwn
    <3>1. d \in captures /\ d # c /\ Next1(Crawler).key = c
      BY <2>1, <2>2, CmdFields
    <3> QED
      BY <2>2, <3>1, OwnElsewhere
  <2> QED
    BY <2>3, <2>4, <2>5, <2>6, <2>7 DEF Places, AllPlaced
<1> QED
  BY <1>1, <1>7, <1>8, <1>9, <1>10, <1>11 DEF HasCapture

LEMMA ForgetsStep ==
  ASSUME Places, Command(Crawler), NEW t \in Tasks, NEW c \in Captures, Forgets(t, c)
  PROVE  Places'
<1>1. Base /\ TypeOK /\ Crawler \in Procs
  BY ProcsFacts DEF Places, Pends, Base
<1>2. captask \in [Captures -> Tasks \cup {None}] /\ captures \subseteq Captures
  BY <1>1 DEF TypeOK
<1>3. me'.task = me.task /\ me'.pc = me.pc
  BY <1>1, CommandLocals
<1>4. me.task = t /\ queue[t] # None /\ c \notin captures /\ me.pc = "slots" /\ Busy(t, c)
  BY DEF Forgets, Busy
<1>5. AfterZrem(c)[1] = Cmd("captask", c, None) /\ Tail(AfterZrem(c)) = <<>>
  BY BothLiterals
<1>6. Next1(Crawler) = Cmd("captask", c, None) /\ Tail(Todo(Crawler)) = <<>>
  BY <1>5, Zenon DEF Next1, Forgets
<1>7. /\ captask' = [captask EXCEPT ![c] = None]
      /\ UNCHANGED <<task, queue, captures, cache>> /\ Todo(Crawler)' = <<>>
  <2>1. /\ captask' = [captask EXCEPT ![c] = None]
        /\ UNCHANGED <<task, queue, captures, cache>> /\ Todo(Crawler)' = Tail(Todo(Crawler))
    BY <1>1, <1>6, DoesCapTask
  <2> QED
    BY <1>6, <2>1
<1>8. \A d \in captures : captask'[d] = captask[d]
  BY <1>2, <1>4, <1>7
<1>9. /\ Pends' /\ Makers'
      /\ \A u \in Tasks : u # t /\ task'[u].domain => Placed(u)'
  BY <1>4, <1>7, <1>8, BusyFrame
<1>10. Stage' /\ Placed(t)'
  BY <1>3, <1>4, <1>7 DEF Stage, Idle, Placed
<1>11. QueuedKnown' /\ CacheOnce'
  BY <1>7 DEF Places, QueuedKnown, CacheOnce
<1>12. CapturesOwn'
  <2> SUFFICES ASSUME NEW d \in captures PROVE Own(d)'
    BY <1>7 DEF CapturesOwn
  <2>1. Next1(Crawler).op # "zrem"
    BY <1>6, CmdFields
  <2> QED
    BY <1>7, <1>8, <2>1, OwnElsewhere
<1> QED
  BY <1>9, <1>10, <1>11, <1>12 DEF Places, AllPlaced

\* The commands that remove a task.
LEMMA FourEntries ==
  ASSUME NEW S, NEW w \in Seq(S), DOMAIN w = 1 .. 4
  PROVE  w = <<w[1], w[2], w[3], w[4]>>
<1>1. Len(w) = 4
  BY LenProperties
<1> QED
  BY <1>1

LEMMA TwoEntries ==
  ASSUME NEW S, NEW w \in Seq(S), DOMAIN w = 1 .. 2
  PROVE  w = <<w[1], w[2]>>
<1>1. Len(w) = 2
  BY LenProperties
<1> QED
  BY <1>1

LEMMA RemovalLiterals ==
  ASSUME TypeOK, NEW t \in Tasks
  PROVE  /\ task[t].capture = None => Removal(t) \o <<>> = RemoveHashes(t)
         /\ task[t].capture # None => /\ task[t].capture \in Captures
                                      /\ Removal(t) \o <<>> = RemoveBoth(t, task[t].capture)
<1>1. PICK q \in Seq(Commands) : q = <<>>
  BY ProgramsTyped, Zenon
<1>2. Len(q) = 0
  BY <1>1
<1>3. Removal(t) \o q \in Seq(Commands)
  BY RemovalTyped
<1>4. PICK w \in Seq(Commands) : w = Removal(t) \o q
  BY <1>3, Zenon
<1>5. PICK n \in {2, 4} :
           /\ DOMAIN w = 1 .. n + Len(q)
           /\ w[n - 1] = Cmd("hdelDedup", t, None)
           /\ w[n] = Cmd("del", t, None)
           /\ n = 2 => task[t].capture = None
           /\ n = 4 => /\ task[t].capture \in Captures
                       /\ w[1] = Cmd("zrem", task[t].capture, None)
                       /\ w[2] = Cmd("captask", task[t].capture, None)
  BY <1>4, RemovalFacts, Zenon
<1>6. CASE n = 2
  <2>1. DOMAIN w = 1 .. 2 /\ w[1] = Cmd("hdelDedup", t, None) /\ w[2] = Cmd("del", t, None)
    BY <1>2, <1>5, <1>6
  <2>2. w = RemoveHashes(t)
    BY <2>1, TwoEntries, Zenon DEF RemoveHashes
  <2> QED
    BY <1>1, <1>4, <1>5, <1>6, <2>2, Zenon
<1>7. CASE n = 4
  <2>1. DOMAIN w = 1 .. 4 /\ w[3] = Cmd("hdelDedup", t, None) /\ w[4] = Cmd("del", t, None)
    BY <1>2, <1>5, <1>7
  <2>2. w = RemoveBoth(t, task[t].capture)
    BY <1>5, <1>7, <2>1, FourEntries, Zenon DEF RemoveBoth
  <2>3. task[t].capture \in Captures /\ task[t].capture # None
    BY <1>5, <1>7, CrawlerAssumption
  <2> QED
    BY <1>1, <1>4, <2>2, <2>3, Zenon
<1> QED
  BY <1>6, <1>7

\* A removal takes nothing from the other tasks.
LEMMA EndsFrame ==
  ASSUME Places, Command(Crawler), NEW t \in Tasks, EndsTask(t), EndsTask(t)',
         UNCHANGED <<task, queue, cache>>, captures' \subseteq captures,
         \A d \in captures : captask[d] # t => d \in captures' /\ captask'[d] = captask[d],
         \A d \in captures' : /\ captask'[d] = captask[d]
                              /\ ~(Next1(Crawler).op = "zrem" /\ Next1(Crawler).key = d),
         CacheOnce'
  PROVE  Places'
<1>1. me.task = t /\ Busy(t, None)
  BY DEF EndsTask, Holds, Busy
<1>2. /\ Pends' /\ Makers'
      /\ \A u \in Tasks : u # t /\ task'[u].domain => Placed(u)'
  BY <1>1, BusyFrame
<1>3. Stage' /\ Placed(t)'
  BY DEF Stage, Placed
<1>4. QueuedKnown'
  BY DEF Places, QueuedKnown
<1>5. CapturesOwn'
  BY OwnElsewhere DEF CapturesOwn
<1> QED
  BY <1>2, <1>3, <1>4, <1>5 DEF Places, AllPlaced

LEMMA EndsTaskStep ==
  ASSUME Places, Command(Crawler), NEW t \in Tasks, EndsTask(t)
  PROVE  Places'
<1>1. Base /\ TypeOK /\ Crawler \in Procs
  BY ProcsFacts DEF Places, Pends, Base
<1>2. /\ task \in [Tasks -> [domain : BOOLEAN, hash : Reqs \cup {None}, start : BOOLEAN,
                             capture : Captures \cup {None}]]
      /\ queue \in [Tasks -> Nat \cup {None}]
      /\ captask \in [Captures -> Tasks \cup {None}] /\ captures \subseteq Captures
  BY <1>1 DEF TypeOK
<1>3. me'.task = me.task /\ me'.pc = me.pc
  BY <1>1, CommandLocals
<1>4. /\ Holds(t) /\ me.task = t /\ me.pc = "slots" /\ task[t].domain /\ queue[t] = None
      /\ Busy(t, None)
  BY DEF EndsTask, Holds, Busy
<1>5. ASSUME UNCHANGED <<task, queue>> PROVE Holds(t)' /\ me'.pc = "slots"
  BY <1>3, <1>4, <1>5 DEF Holds
<1>6. \A d \in captures : captask[d] = t => task[t].capture = d
  BY DEF Places, CapturesOwn, Own
<1>7. CacheOnce
  BY DEF Places
<1>8. CASE Todo(Crawler) = DropTask(t) /\ ~InCache(task[t].capture)
  <2>0. DropTask(t)[1] = Cmd("queue", t, None) /\ Tail(DropTask(t)) = TaskRemove(t)
    BY TaskLiterals
  <2>1. Next1(Crawler) = Cmd("queue", t, None) /\ Tail(Todo(Crawler)) = TaskRemove(t)
    BY <1>8, <2>0, Zenon DEF Next1
  <2>2. UNCHANGED <<task, queue, captask, captures, cache>> /\ Todo(Crawler)' = TaskRemove(t)
    <3>1. /\ queue' = [queue EXCEPT ![t] = None]
          /\ UNCHANGED <<task, captask, captures, cache>> /\ Todo(Crawler)' = Tail(Todo(Crawler))
      BY <1>1, <2>1, DoesQueue
    <3>2. queue' = queue
      BY <1>2, <1>4, <3>1
    <3> QED
      BY <2>1, <3>1, <3>2
  <2>3. EndsTask(t)'
    BY <1>5, <1>8, <2>2 DEF EndsTask, InCache
  <2>4. CacheOnce' /\ Next1(Crawler).op # "zrem"
    BY <1>7, <2>1, <2>2, CmdFields DEF CacheOnce
  <2> QED
    BY <2>2, <2>3, <2>4, EndsFrame
<1>9. CASE Todo(Crawler) = TaskRemove(t) /\ ~InCache(task[t].capture)
  <2>0. TaskRemove(t)[1] = Cmd("remove", t, None) /\ Tail(TaskRemove(t)) = <<>>
    BY TaskLiterals
  <2>1. Next1(Crawler) = Cmd("remove", t, None) /\ Tail(Todo(Crawler)) = <<>>
    BY <1>9, <2>0, Zenon DEF Next1
  <2>2. UNCHANGED <<task, queue, captask, captures, cache>> /\ Todo(Crawler)' = Removal(t) \o <<>>
    <3>1. /\ UNCHANGED <<task, queue, captask, captures, cache>>
          /\ Todo(Crawler)' = Removal(t) \o Tail(Todo(Crawler))
      BY <1>1, <2>1, DoesRemove
    <3> QED
      BY <2>1, <3>1, Zenon
  <2>3. EndsTask(t)'
    <3>1. CASE task[t].capture = None
      <4>1. Todo(Crawler)' = RemoveHashes(t)
        BY <1>1, <2>2, <3>1, RemovalLiterals, Zenon
      <4>2. Loose(t)'
        BY <1>2, <1>6, <2>2, <3>1, CrawlerAssumption DEF Loose
      <4> QED
        BY <1>5, <2>2, <4>1, <4>2 DEF EndsTask
    <3>2. CASE task[t].capture # None
      <4> DEFINE c == task[t].capture
      <4>1. c \in Captures /\ Todo(Crawler)' = RemoveBoth(t, c)
        BY <1>1, <2>2, <3>2, RemovalLiterals, Zenon
      <4>2. task'[t].capture = c /\ ~InCache(c)
        BY <1>9, <2>2
      <4>3. cache' = cache
        BY <2>2
      <4>4. PICK d \in Captures : d = c
        BY <4>1
      <4>5. Todo(Crawler)' = RemoveBoth(t, d) /\ task'[t].capture = d /\ ~InCache(d)'
        BY <4>1, <4>2, <4>3, <4>4 DEF InCache
      <4> QED
        BY <1>5, <2>2, <4>5 DEF EndsTask
    <3> QED
      BY <3>1, <3>2
  <2>4. CacheOnce' /\ Next1(Crawler).op # "zrem"
    BY <1>7, <2>1, <2>2, CmdFields DEF CacheOnce
  <2> QED
    BY <2>2, <2>3, <2>4, EndsFrame
<1>10. ASSUME NEW c \in Captures, Todo(Crawler) = RemoveBoth(t, c), task[t].capture = c, ~InCache(c)
       PROVE  Places'
  <2>0. RemoveBoth(t, c)[1] = Cmd("zrem", c, None) /\ Tail(RemoveBoth(t, c)) = RemoveTask(t, c)
    BY BothLiterals
  <2>1. Next1(Crawler) = Cmd("zrem", c, None) /\ Tail(Todo(Crawler)) = RemoveTask(t, c)
    BY <1>10, <2>0, Zenon DEF Next1
  <2>2. /\ captures' = captures \ {c}
        /\ UNCHANGED <<task, queue, captask, cache>> /\ Todo(Crawler)' = RemoveTask(t, c)
    <3>1. /\ captures' = captures \ {c}
          /\ UNCHANGED <<task, queue, captask, cache>> /\ Todo(Crawler)' = Tail(Todo(Crawler))
      BY <1>1, <2>1, DoesZrem
    <3> QED
      BY <2>1, <3>1
  <2>3. c \in captures => captask[c] = t
    BY <1>10, CrawlerAssumption DEF Places, Pends, CaptureKnown, CapturesOwn, Own
  <2>4. EndsTask(t)'
    <3>1. Loose(t)' /\ c \notin captures'
      BY <1>6, <1>10, <2>2 DEF Loose
    <3> QED
      BY <1>5, <2>2, <3>1 DEF EndsTask
  <2>5. CacheOnce'
    BY <1>7, <1>10, <2>2 DEF CacheOnce, InCache
  <2>6. \A d \in captures' : d # c /\ Next1(Crawler).key = c
    BY <2>1, <2>2, CmdFields
  <2> QED
    BY <2>2, <2>3, <2>4, <2>5, <2>6, EndsFrame
<1>11. ASSUME NEW c \in Captures, Todo(Crawler) = RemoveTask(t, c), c \notin captures, Loose(t)
       PROVE  Places'
  <2>0. RemoveTask(t, c)[1] = Cmd("captask", c, None) /\ Tail(RemoveTask(t, c)) = RemoveHashes(t)
    BY BothLiterals
  <2>1. Next1(Crawler) = Cmd("captask", c, None) /\ Tail(Todo(Crawler)) = RemoveHashes(t)
    BY <1>11, <2>0, Zenon DEF Next1
  <2>2. /\ captask' = [captask EXCEPT ![c] = None]
        /\ UNCHANGED <<task, queue, captures, cache>> /\ Todo(Crawler)' = RemoveHashes(t)
    <3>1. /\ captask' = [captask EXCEPT ![c] = None]
          /\ UNCHANGED <<task, queue, captures, cache>> /\ Todo(Crawler)' = Tail(Todo(Crawler))
      BY <1>1, <2>1, DoesCapTask
    <3> QED
      BY <2>1, <3>1
  <2>3. \A d \in captures : captask'[d] = captask[d]
    BY <1>2, <1>11, <2>2
  <2>4. EndsTask(t)'
    BY <1>5, <1>11, <2>2, <2>3 DEF EndsTask, Loose
  <2>5. CacheOnce' /\ Next1(Crawler).op # "zrem"
    BY <1>7, <2>1, <2>2, CmdFields DEF CacheOnce
  <2> QED
    BY <2>2, <2>3, <2>4, <2>5, EndsFrame
<1>12. CASE Todo(Crawler) = RemoveHashes(t) /\ Loose(t)
  <2>0. RemoveHashes(t)[1] = Cmd("hdelDedup", t, None) /\ Tail(RemoveHashes(t)) = RemoveHash(t)
    BY TaskLiterals
  <2>1. Next1(Crawler) = Cmd("hdelDedup", t, None) /\ Tail(Todo(Crawler)) = RemoveHash(t)
    BY <1>12, <2>0, Zenon DEF Next1
  <2>2. UNCHANGED <<task, queue, captask, captures, cache>> /\ Todo(Crawler)' = RemoveHash(t)
    <3>1. /\ UNCHANGED <<task, queue, captask, captures, cache>>
          /\ Todo(Crawler)' = Tail(Todo(Crawler))
      BY <1>1, <2>1, DoesDedup
    <3> QED
      BY <2>1, <3>1
  <2>3. EndsTask(t)'
    BY <1>5, <1>12, <2>2 DEF EndsTask, Loose
  <2>4. CacheOnce' /\ Next1(Crawler).op # "zrem"
    BY <1>7, <2>1, <2>2, CmdFields DEF CacheOnce
  <2> QED
    BY <2>2, <2>3, <2>4, EndsFrame
<1>13. CASE Todo(Crawler) = RemoveHash(t) /\ Loose(t)
  <2>0. RemoveHash(t)[1] = Cmd("del", t, None) /\ Tail(RemoveHash(t)) = <<>>
    BY TaskLiterals
  <2>1. Next1(Crawler) = Cmd("del", t, None) /\ Tail(Todo(Crawler)) = <<>>
    BY <1>13, <2>0, Zenon DEF Next1
  <2>2. /\ task' = [task EXCEPT ![t] = NoTask]
        /\ UNCHANGED <<queue, captask, captures, cache>> /\ Todo(Crawler)' = <<>>
    <3>1. /\ task' = [task EXCEPT ![t] = NoTask]
          /\ UNCHANGED <<queue, captask, captures, cache>> /\ Todo(Crawler)' = Tail(Todo(Crawler))
      BY <1>1, <2>1, DoesDel
    <3> QED
      BY <2>1, <3>1
  <2>3. task'[t].domain = FALSE /\ \A u \in Tasks : u # t => task'[u] = task[u]
    BY <1>2, <2>2 DEF NoTask
  <2>4. /\ Pends' /\ Makers'
        /\ \A u \in Tasks : u # t /\ task'[u].domain => Placed(u)'
    BY <1>4, <2>2, <2>3, BusyFrame
  <2>5. Stage'
    BY <1>3, <1>4, <2>2 DEF Stage, Idle
  <2>6. QueuedKnown'
    BY <1>4, <2>2, <2>3 DEF Places, QueuedKnown
  <2>7. CapturesOwn'
    <3> SUFFICES ASSUME NEW d \in captures PROVE Own(d)'
      BY <2>2 DEF CapturesOwn
    <3>1. captask[d] # t /\ captask[d] \in Tasks /\ Next1(Crawler).op # "zrem"
      BY <1>13, <2>1, CmdFields DEF Loose, Places, CapturesOwn, Own
    <3> QED
      BY <2>2, <2>3, <3>1, OwnElsewhere
  <2>8. CacheOnce'
    BY <1>7, <2>2 DEF CacheOnce
  <2> QED
    BY <2>3, <2>4, <2>5, <2>6, <2>7, <2>8 DEF Places, AllPlaced
<1> QED
  BY <1>8, <1>9, <1>10, <1>11, <1>12, <1>13 DEF EndsTask

LEMMA CommandPlaces ==
  ASSUME Forced, Places, NEW p \in Procs, Command(p)
  PROVE  Places'
<1>1. CASE p # Crawler
  BY <1>1, ClientPlaces, ProcsFacts
<1>2. CASE p = Crawler
  <2>1. Todo(Crawler) # <<>>
    BY <1>2, Effects DEF Places, Pends, Base, TypeOK
  <2>2. ~Idle
    BY <2>1 DEF Idle
  <2>3. ASSUME NEW t \in Tasks, HasTask(t) \/ EndsTask(t) PROVE Places'
    BY <1>2, <2>3, HasTaskStep, EndsTaskStep
  <2>4. ASSUME NEW t \in Tasks, NEW c \in Captures,
               MakesCapture(t, c) \/ HasCapture(t, c) \/ Forgets(t, c)
        PROVE  Places'
    BY <1>2, <2>4, MakesCaptureStep, HasCaptureStep, ForgetsStep
  <2>5. CASE MakesTask(Crawler)
    BY <1>2, <2>5, OwnCreation
  <2> QED
    BY <2>2, <2>3, <2>4, <2>5 DEF Places, Stage
<1> QED
  BY <1>1, <1>2

----------------------------------------------------------------------------
(***************************************************************************)
(* A step that starts a program.  The records stay as they are; before it, *)
(* whoever takes it has nothing pending.                                   *)
(***************************************************************************)
LEMMA MakesNames ==
  ASSUME NEW p, NEW t, NEW r, Makes(p, t, r)
  PROVE  \E k \in DOMAIN Todo(p) : Todo(p)[k].key = t
<1>1. /\ 1 \in DOMAIN CreateTask(t, r) /\ CreateTask(t, r)[1].key = t
      /\ 2 \in DOMAIN AfterDomain(t, r) /\ AfterDomain(t, r)[2].key = t
      /\ 1 \in DOMAIN AfterDedup(t, r) /\ AfterDedup(t, r)[1].key = t
      /\ 1 \in DOMAIN AfterHash(t, r) /\ AfterHash(t, r)[1].key = t
  BY DEF CreateTask, AfterDomain, AfterDedup, AfterHash, Cmd
<1> QED
  BY <1>1 DEF Makes

LEMMA CreateQuiet ==
  ASSUME NEW p, NEW t, NEW r, Todo(p)' = CreateTask(t, r), NEW u, u # t
  PROVE  Quiet(p, u)'
<1>1. PICK w : w = Todo(p)'
  OBVIOUS
<1>2. \A k \in DOMAIN w : w[k].op \in TaskOps => w[k].key = t
  BY <1>1 DEF CreateTask, Cmd, TaskOps
<1> QED
  BY <1>1, <1>2 DEF Quiet

LEMMA CreateMakes ==
  ASSUME Pends, NEW p \in Procs, proc[p].pc = "slots", NEW r \in Reqs, NEW t \in Tasks,
         FreshTask(t), Do(p, CreateTask(t, r)),
         UNCHANGED <<task, queue, captask, captures, cache>>
  PROVE  /\ Makes(p, t, r)'
         /\ \A q \in Procs \ {p} : \A u \in Tasks, s \in Reqs : Makes(q, u, s) => Makes(q, u, s)'
         /\ \A q \in Procs \ {p} : Todo(q)' = Todo(q)
         /\ me.task # t
         /\ me'.pc = me.pc /\ me'.task = me.task /\ me'.prio = me.prio /\ me'.capture = me.capture
<1>1. proc \in [Procs -> Locals] /\ CreateTask(t, r) \in Seq(Commands)
  BY ProgramsTyped DEF Pends, Base, TypeOK
<1>2. /\ Todo(p)' = CreateTask(t, r)
      /\ \A q \in Procs \ {p} : proc'[q] = proc[q] /\ Todo(q)' = Todo(q)
      /\ \A q \in Procs : /\ proc'[q].pc = proc[q].pc /\ proc'[q].task = proc[q].task
                          /\ proc'[q].prio = proc[q].prio /\ proc'[q].capture = proc[q].capture
  BY <1>1, NewTodo DEF Do
<1>3. /\ me'.pc = me.pc /\ me'.task = me.task /\ me'.prio = me.prio /\ me'.capture = me.capture
  BY <1>2, ProcsFacts DEF me
<1>4. me.task # t /\ \A q \in Procs : \A k \in DOMAIN Todo(q) : Todo(q)[k].key # t
  BY ProcsFacts DEF FreshTask, me, Todo
<1>5. \A u : NoUse(u) => NoUse(u)'
  BY <1>3 DEF NoUse
<1>6. NoUse(t)
  BY <1>4 DEF FreshTask, NoUse
<1>7. \A q \in Procs \ {p} : \A u : Quiet(q, u) => Quiet(q, u)'
  BY <1>2 DEF Quiet
<1>8. Makes(p, t, r)'
  <2>1. \A q \in Procs \ {p} : Quiet(q, t)
    BY <1>4 DEF Quiet
  <2> QED
    BY <1>2, <1>5, <1>6, <1>7, <2>1 DEF Makes
<1>9. ASSUME NEW q \in Procs \ {p}, NEW u \in Tasks, NEW s \in Reqs, Makes(q, u, s)
      PROVE  Makes(q, u, s)'
  <2>1. u # t
    BY <1>4, <1>9, MakesNames
  <2>2. Quiet(p, u)'
    BY <1>2, <2>1, CreateQuiet
  <2>3. \A w \in Procs \ {q} : Quiet(w, u)'
    BY <1>7, <1>9, <2>2 DEF Makes
  <2> QED
    BY <1>2, <1>5, <1>9, <2>3 DEF Makes
<1> QED
  BY <1>2, <1>3, <1>4, <1>8, <1>9

\* The Crawler, with nothing pending: every capture has its task, and the Crawler has at
\* most one task, with or without capture.
LEMMA Quiescent ==
  ASSUME Places, Todo(Crawler) = <<>>
  PROVE  /\ \A c \in captures : /\ captask[c] \in Tasks /\ task[captask[c]].capture = c
                                /\ task[captask[c]].domain /\ task[captask[c]].start
                                /\ queue[captask[c]] = None
         /\ \A t : ~EndsTask(t)
         /\ \A t, c : ~MakesCapture(t, c) /\ ~Forgets(t, c)
         /\ \A t, r : ~Makes(Crawler, t, r)
         /\ \A t : HasTask(t) => /\ Holds(t) /\ Loose(t) /\ me.prio # 0
                                 /\ \/ me.pc = "filter"
                                    \/ me.pc = "enqueue" /\ task[t].start
         /\ \A t, c : HasCapture(t, c) => me.pc \in {"status", "compute", "dead"} /\ me.capture = c
<1>0. \A t, c, v : /\ StartTask(t) # <<>> /\ QueueTask(t, v) # <<>> /\ TaskReset(t) # <<>>
                    /\ DropTask(t) # <<>> /\ TaskRemove(t) # <<>> /\ RemoveBoth(t, c) # <<>>
                    /\ RemoveTask(t, c) # <<>> /\ RemoveHashes(t) # <<>> /\ RemoveHash(t) # <<>>
                    /\ AfterZadd(c) # <<>> /\ ResetBoth(t, c) # <<>> /\ QueueBoth(t, c) # <<>>
                    /\ DropCapture(c) # <<>> /\ CaptureRemove(c) # <<>> /\ AfterZrem(c) # <<>>
  BY DEF StartTask, QueueTask, TaskReset, DropTask, TaskRemove, RemoveBoth, RemoveTask,
     RemoveHashes, RemoveHash, AfterZadd, ResetBoth, QueueBoth, DropCapture, CaptureRemove,
     AfterZrem
<1>1. \A op, key : ~Pending(Crawler, op, key)
  BY DEF Pending, Todo
<1>2. \A c \in captures : /\ captask[c] \in Tasks /\ task[captask[c]].capture = c
                          /\ task[captask[c]].domain /\ task[captask[c]].start
                          /\ queue[captask[c]] = None
  BY <1>1 DEF Places, CapturesOwn, Own
<1>3. \A t : ~EndsTask(t)
  BY <1>0 DEF EndsTask
<1>4. \A t, c : CreateCapture(c, t) # <<>> /\ AfterCapture(c, t) # <<>> /\ AfterCapTask(c) # <<>>
  BY DEF CreateCapture, AfterCapture, AfterCapTask
<1>5. \A t, c : ~MakesCapture(t, c) /\ ~Forgets(t, c)
  BY <1>4, BothLiterals, Zenon DEF MakesCapture, Forgets
<1>6. \A t, r : ~Makes(Crawler, t, r)
  BY MakesHead
<1>7. ASSUME NEW t, HasTask(t)
      PROVE  /\ Holds(t) /\ Loose(t) /\ me.prio # 0
             /\ me.pc = "filter" \/ (me.pc = "enqueue" /\ task[t].start)
  BY <1>0, <1>7 DEF HasTask
<1>8. ASSUME NEW t, NEW c, HasCapture(t, c)
      PROVE  me.pc \in {"status", "compute", "dead"} /\ me.capture = c
  BY <1>0, <1>8 DEF HasCapture
<1> QED
  BY <1>2, <1>3, <1>5, <1>6, <1>7, <1>8

LEMMA CreatePlaces ==
  ASSUME Places, NEW p \in Procs, proc[p].pc = "slots", NEW r \in Reqs, Create(p, r)
  PROVE  Places'
<1>1. Pends /\ Base
  BY DEF Places, Pends
<1>2. Pends'
  BY <1>1, CreateBase, CreatePends
<1>3. PICK t \in Tasks : FreshTask(t) /\ Do(p, CreateTask(t, r))
  BY DEF Create
<1>4. UNCHANGED <<task, queue, dedup, captask, captures, cache>> /\ Todo(p) = <<>>
  BY DEF Create, Free, Todo
<1>5. /\ Makes(p, t, r)'
      /\ \A q \in Procs \ {p} : \A u \in Tasks, s \in Reqs : Makes(q, u, s) => Makes(q, u, s)'
      /\ \A q \in Procs \ {p} : Todo(q)' = Todo(q)
      /\ me.task # t
      /\ me'.pc = me.pc /\ me'.task = me.task /\ me'.prio = me.prio /\ me'.capture = me.capture
  BY <1>1, <1>3, <1>4, CreateMakes
<1>6. \A u, s : ~Makes(p, u, s)
  BY <1>4, MakesHead
<1>7. Makers'
  BY <1>5, ProcsFacts DEF Places, Makers, MakesTask
<1>8. QueuedKnown' /\ CacheOnce'
  BY <1>4 DEF Places, QueuedKnown, CacheOnce
<1>9. \A u : Loose(u)' <=> Loose(u)
  BY <1>4 DEF Loose
<1>10. \A u \in Tasks, q \in Procs, s \in Reqs : Makes(q, u, s) => Placed(u)'
  BY <1>5, <1>6 DEF Placed
<1>11. CASE p # Crawler
  <2>1. Todo(Crawler)' = Todo(Crawler) /\ Crawler \in Procs \ {p}
    BY <1>5, <1>11, ProcsFacts
  <2>2. /\ Idle => Idle'
        /\ \A u \in Tasks : /\ HasTask(u) => HasTask(u)'
                            /\ EndsTask(u) => EndsTask(u)'
        /\ \A u \in Tasks, c \in Captures : /\ MakesCapture(u, c) => MakesCapture(u, c)'
                                            /\ HasCapture(u, c) => HasCapture(u, c)'
                                            /\ Forgets(u, c) => Forgets(u, c)'
    BY <1>4, <1>5, <2>1, CrawlerKept
  <2>3. MakesTask(Crawler) => MakesTask(Crawler)'
    BY <1>5, <2>1 DEF MakesTask
  <2>4. Stage'
    BY <2>2, <2>3 DEF Places, Stage
  <2>5. CapturesOwn'
    BY <1>4, <2>1 DEF Places, CapturesOwn, Own, Pending, Todo
  <2>6. AllPlaced'
    <3> SUFFICES ASSUME NEW u \in Tasks, task[u].domain PROVE Placed(u)'
      BY <1>4 DEF AllPlaced
    <3>1. Placed(u)
      BY DEF Places, AllPlaced
    <3> QED
      BY <1>4, <1>9, <1>10, <2>2, <3>1 DEF Placed
  <2> QED
    BY <1>2, <1>7, <1>8, <2>4, <2>5, <2>6 DEF Places
<1>12. CASE p = Crawler
  <2>1. /\ \A c \in captures : /\ captask[c] \in Tasks /\ task[captask[c]].capture = c
                               /\ task[captask[c]].domain /\ task[captask[c]].start
                               /\ queue[captask[c]] = None
        /\ \A u : ~EndsTask(u)
        /\ \A u, c : ~MakesCapture(u, c)
        /\ \A u : HasTask(u) => me.pc \in {"filter", "enqueue"}
    BY <1>4, <1>12, Quiescent
  <2>2. me.pc = "slots"
    BY <1>12 DEF me
  <2>3. Stage'
    BY <1>5, <1>12 DEF Stage, MakesTask
  <2>4. CapturesOwn'
    BY <1>4, <2>1 DEF CapturesOwn, Own
  <2>5. AllPlaced'
    <3> SUFFICES ASSUME NEW u \in Tasks, task[u].domain PROVE Placed(u)'
      BY <1>4 DEF AllPlaced
    <3>1. Placed(u) /\ ~HasTask(u)
      BY <2>1, <2>2 DEF Places, AllPlaced
    <3> QED
      BY <1>4, <1>9, <1>10, <2>1, <3>1 DEF Placed
  <2> QED
    BY <1>2, <1>7, <1>8, <2>3, <2>4, <2>5 DEF Places
<1> QED
  BY <1>11, <1>12

\* A step of the Crawler leaves who creates a task, and whatever it does not pop.
LEMMA MovePlaces ==
  ASSUME Places, CrawlerStep, UNCHANGED <<task, captask, captures>>,
         \A u \in Tasks : queue'[u] \in {queue[u], None},
         \A u \in Tasks : NoUse(u) => me'.task # u /\ Quiet(Crawler, u)',
         \A u \in Tasks : queue'[u] = None /\ Loose(u) /\ task[u].domain
                             /\ (queue[u] # None \/ HasTask(u))
                          => HasTask(u)' \/ EndsTask(u)' \/ \E c \in Captures : MakesCapture(u, c)',
         Stage', CacheOnce'
  PROVE  Places'
<1>1. Pends /\ Pends' /\ TypeOK /\ Base'
  BY CrawlerPends DEF Places, Pends, Base
<1>2. Todo(Crawler) = <<>> /\ \A q \in Clients : Todo(q)' = Todo(q)
  BY <1>1, CrawlerFree
<1>3. /\ \A c \in captures : /\ captask[c] \in Tasks /\ task[captask[c]].capture = c
                             /\ task[captask[c]].domain /\ task[captask[c]].start
                             /\ queue[captask[c]] = None
      /\ \A u : ~EndsTask(u)
      /\ \A u, c : ~MakesCapture(u, c)
      /\ \A u, s : ~Makes(Crawler, u, s)
  BY <1>2, Quiescent
<1>4. \A q \in Clients : proc'[q].pc = "slots"
  BY <1>1 DEF Base, LocalsOK
<1>5. ASSUME NEW q \in Clients, NEW u \in Tasks, NEW s \in Reqs, Makes(q, u, s)
      PROVE  Makes(q, u, s)'
  <2>1. NoUse(u) /\ \A w \in Procs \ {q} : Quiet(w, u)
    BY <1>5 DEF Makes
  <2>2. NoUse(u)'
    BY <2>1 DEF NoUse
  <2>3. \A w \in Procs \ {q} : Quiet(w, u)'
    <3> SUFFICES ASSUME NEW w \in Procs \ {q} PROVE Quiet(w, u)'
      OBVIOUS
    <3>1. CASE w = Crawler
      BY <2>1, <3>1
    <3>2. CASE w # Crawler
      BY <1>2, <2>1, <3>2, ProcsFacts DEF Quiet
    <3> QED
      BY <3>1, <3>2
  <2>4. Todo(q)' = Todo(q) /\ proc'[q].pc = "slots"
    BY <1>2, <1>4
  <2> QED
    BY <1>5, <2>2, <2>3, <2>4 DEF Makes
<1>6. Makers'
  BY <1>2, <1>5 DEF Places, Makers, MakesTask
<1>7. QueuedKnown'
  BY DEF Places, QueuedKnown
<1>8. CapturesOwn'
  BY <1>3 DEF CapturesOwn, Own
<1>9. AllPlaced'
  <2> SUFFICES ASSUME NEW u \in Tasks, task[u].domain PROVE Placed(u)'
    BY DEF AllPlaced
  <2>1. Placed(u)
    BY DEF Places, AllPlaced
  <2>2. ~Loose(u) => ~Loose(u)'
    BY DEF Loose
  <2>3. ASSUME NEW q \in Procs, NEW s \in Reqs, Makes(q, u, s) PROVE Placed(u)'
    BY <1>3, <1>5, <2>3, ProcsFacts DEF Placed
  <2>4. queue[u] # None \/ HasTask(u) => Placed(u)'
    BY <2>2 DEF Placed
  <2> QED
    BY <1>3, <2>1, <2>2, <2>3, <2>4 DEF Placed
<1> QED
  BY <1>1, <1>6, <1>7, <1>8, <1>9 DEF Places

----------------------------------------------------------------------------
(***************************************************************************)
(* The programs the Crawler starts.                                        *)
(***************************************************************************)
LEMMA FiveEntries ==
  ASSUME NEW S, NEW w \in Seq(S), DOMAIN w = 1 .. 5
  PROVE  w = <<w[1], w[2], w[3], w[4], w[5]>>
<1>1. Len(w) = 5
  BY LenProperties
<1> QED
  BY <1>1

LEMMA DeleteLiteral ==
  ASSUME NEW t \in Tasks
  PROVE  TaskDelete(t) = DropTask(t)
<1>1. PICK w \in Seq(Commands) : w = TaskDelete(t)
  BY ProgramsTyped, Zenon
<1>2. DOMAIN w = 1 .. 2 /\ w[1] = Cmd("queue", t, None) /\ w[2] = Cmd("remove", t, None)
  BY <1>1, TaskPrograms
<1>3. w = DropTask(t)
  BY <1>2, TwoEntries, Zenon DEF DropTask
<1> QED
  BY <1>1, <1>3

LEMMA ResetLiteral ==
  ASSUME NEW t \in Tasks, NEW c \in Captures
  PROVE  TaskReset(t) \o CaptureDelete(c) = ResetBoth(t, c) /\ ResetBoth(t, c) \in Seq(Commands)
<1>1. TaskReset(t) \o CaptureDelete(c) \in Seq(Commands)
  BY ProgramsTyped, ConcatProperties
<1>2. PICK w \in Seq(Commands) : w = TaskReset(t) \o CaptureDelete(c)
  BY <1>1, Zenon
<1>3. PICK x \in Seq(Commands) : x = TaskReset(t)
  BY ProgramsTyped, Zenon
<1>4. DOMAIN x = 1 .. 2
  BY <1>3, TaskPrograms
<1>5. Len(x) = 2
  BY <1>4, LenProperties
<1>6. /\ DOMAIN w = 1 .. 5 /\ w[1] = x[1] /\ w[2] = x[2]
      /\ w[3] = Cmd("cacheRem", c, None) /\ w[4] = Cmd("zrem", c, None)
      /\ w[5] = Cmd("captask", c, None)
  BY <1>2, <1>3, <1>5, LongPrograms, Zenon
<1>7. w[1] = Cmd("start", t, FALSE) /\ w[2] = Cmd("queue", t, 49)
  BY <1>3, <1>6, TaskPrograms, Zenon
<1>8. w = ResetBoth(t, c)
  BY <1>6, <1>7, FiveEntries, Zenon DEF ResetBoth
<1> QED
  BY <1>2, <1>8

LEMMA LiteralsTyped ==
  ASSUME NEW t \in Tasks
  PROVE  /\ StartTask(t) \in Seq(Commands) /\ DropTask(t) \in Seq(Commands)
         /\ TaskReset(t) \in Seq(Commands) /\ TaskRemove(t) \in Seq(Commands)
         /\ \A v \in Nat : QueueTask(t, v) \in Seq(Commands)
         /\ \A c \in Captures : /\ AfterZadd(c) \in Seq(Commands)
                                /\ CreateCapture(c, t) \in Seq(Commands)
<1>1. StartTask(t) \in Seq(Commands)
  BY ProgramsTyped DEF StartTask
<1>2. /\ \A v \in Nat : QueueTask(t, v) \in Seq(Commands)
      /\ \A c \in Captures : AfterZadd(c) \in Seq(Commands)
  BY ProgramsTyped DEF AfterZadd, QueueTask
<1>3. DropTask(t) \in Seq(Commands)
  BY ProgramsTyped, DeleteLiteral
<1> QED
  BY <1>1, <1>2, <1>3, ProgramsTyped

\* They name no task but the Crawler's.
LEMMA ProgramQuiet ==
  ASSUME NEW t, NEW c, NEW v, NEW u, u # t,
         \/ Todo(Crawler)' = <<>> \/ Todo(Crawler)' = StartTask(t)
         \/ Todo(Crawler)' = QueueTask(t, v) \/ Todo(Crawler)' = TaskReset(t)
         \/ Todo(Crawler)' = DropTask(t) \/ Todo(Crawler)' = TaskRemove(t)
         \/ Todo(Crawler)' = CreateCapture(c, t) \/ Todo(Crawler)' = AfterZadd(c)
         \/ Todo(Crawler)' = ResetBoth(t, c)
  PROVE  Quiet(Crawler, u)'
<1> DEFINE Only(w) == \A k \in DOMAIN w : w[k].op \in TaskOps => w[k].key = t
<1>1. Only(<<>>) /\ Only(TaskRemove(t)) /\ Only(AfterZadd(c)) /\ Only(DropTask(t))
  BY DEF TaskRemove, AfterZadd, DropTask, Cmd, TaskOps
<1>2. Only(QueueTask(t, v))
  BY DEF QueueTask, Cmd
<1>3. Only(StartTask(t))
  BY DEF StartTask, Cmd
<1>4. Only(TaskReset(t))
  BY DEF TaskReset, Cmd
<1>5. Only(CreateCapture(c, t))
  BY DEF CreateCapture, Cmd, TaskOps
<1>6. Only(ResetBoth(t, c))
  BY DEF ResetBoth, Cmd, TaskOps
<1>7. PICK w : w = Todo(Crawler)'
  OBVIOUS
<1>8. Only(w)
  BY <1>1, <1>2, <1>3, <1>4, <1>5, <1>6, <1>7
<1> QED
  BY <1>7, <1>8 DEF Quiet

LEMMA BackFacts ==
  ASSUME TypeOK, NEW cmds \in Seq(Commands), BackDo(cmds)
  PROVE  /\ Todo(Crawler)' = cmds /\ me'.pc = "slots" /\ me'.task = me.task
         /\ me'.capture = me.capture /\ me'.prio = me.prio
BY NewPc DEF BackDo, TypeOK

LEMMA GotoFacts ==
  ASSUME TypeOK, NEW cmds \in Seq(Commands),
         NEW pc \in {"poll", "enqueue", "push", "compute", "dead"},
         GotoDo(pc, cmds)
  PROVE  /\ Todo(Crawler)' = cmds /\ me'.pc = pc /\ me'.task = me.task
         /\ me'.capture = me.capture /\ me'.prio = me.prio
BY NewPc DEF GotoDo, TypeOK

----------------------------------------------------------------------------
(***************************************************************************)
(* The Crawler, step by step.                                              *)
(***************************************************************************)
LEMMA InHands ==
  ASSUME Places, Todo(Crawler) = <<>>
  PROVE  /\ me.pc \in {"filter", "enqueue"} =>
               /\ me.task \in Tasks /\ HasTask(me.task) /\ Holds(me.task) /\ Loose(me.task)
               /\ task[me.task].domain /\ queue[me.task] = None /\ me.prio # 0
               /\ me.pc = "enqueue" => task[me.task].start
         /\ me.pc \in {"status", "compute", "dead"} =>
               /\ me.capture \in captures /\ captask[me.capture] = me.task /\ me.task \in Tasks
               /\ ~InCache(me.capture) /\ task[me.task].capture = me.capture
               /\ task[me.task].domain /\ task[me.task].start /\ queue[me.task] = None
         /\ \A t : HasTask(t) => me.task = t /\ me.pc \in {"filter", "enqueue"}
<1>1. /\ \A c \in captures : /\ captask[c] \in Tasks /\ task[captask[c]].capture = c
                             /\ task[captask[c]].domain /\ task[captask[c]].start
                             /\ queue[captask[c]] = None
      /\ \A t : ~EndsTask(t)
      /\ \A t, c : ~MakesCapture(t, c) /\ ~Forgets(t, c)
      /\ \A t, r : ~Makes(Crawler, t, r)
      /\ \A t : HasTask(t) => /\ Holds(t) /\ Loose(t) /\ me.prio # 0
                              /\ \/ me.pc = "filter"
                                 \/ me.pc = "enqueue" /\ task[t].start
      /\ \A t, c : HasCapture(t, c) => me.pc \in {"status", "compute", "dead"} /\ me.capture = c
  BY Quiescent
<1>2. \A t : HasTask(t) => me.task = t /\ me.pc \in {"filter", "enqueue"}
  BY <1>1 DEF Holds
<1>3. \/ Idle
      \/ \E t \in Tasks : HasTask(t)
      \/ \E t \in Tasks, c \in Captures : HasCapture(t, c)
  BY <1>1 DEF Places, Stage, MakesTask
<1>4. CASE Idle
  BY <1>2, <1>4 DEF Idle
<1>5. ASSUME NEW t \in Tasks, HasTask(t)
      PROVE  /\ me.task = t /\ me.pc \in {"filter", "enqueue"} /\ Holds(t) /\ Loose(t)
             /\ task[t].domain /\ queue[t] = None /\ me.prio # 0
             /\ me.pc = "enqueue" => task[t].start
  BY <1>1, <1>5 DEF Holds
<1>6. ASSUME NEW t \in Tasks, NEW c \in Captures, HasCapture(t, c)
      PROVE  /\ me.pc \in {"status", "compute", "dead"} /\ me.capture = c /\ me.task = t
             /\ c \in captures /\ captask[c] = t /\ ~InCache(c) /\ task[t].capture = c
             /\ task[t].domain /\ task[t].start /\ queue[t] = None
  BY <1>1, <1>6 DEF HasCapture
<1>7. CASE \E t \in Tasks : HasTask(t)
  <2>1. PICK t \in Tasks : HasTask(t)
    BY <1>7
  <2> QED
    BY <1>2, <1>5, <2>1
<1>8. CASE \E t \in Tasks, c \in Captures : HasCapture(t, c)
  <2>1. PICK t \in Tasks, c \in Captures : HasCapture(t, c)
    BY <1>8
  <2> QED
    BY <1>2, <1>6, <2>1
<1> QED
  BY <1>3, <1>4, <1>7, <1>8

\* Nothing is popped, and the task in hand stays there.
LEMMA StaysPlaces ==
  ASSUME Places, CrawlerStep, UNCHANGED redis,
         \A u \in Tasks : NoUse(u) => me'.task # u /\ Quiet(Crawler, u)',
         NEW t, t = me.task,
         me.pc \in {"filter", "enqueue"} =>
            HasTask(t)' \/ EndsTask(t)' \/ \E c \in Captures : MakesCapture(t, c)',
         Stage'
  PROVE  Places'
<1>1. UNCHANGED <<task, queue, captask, captures, cache>>
  BY DEF redis
<1>2. Todo(Crawler) = <<>>
  BY CrawlerFree DEF Places, Pends, Base
<1>3. \A u : HasTask(u) => me.task = u /\ me.pc \in {"filter", "enqueue"}
  BY <1>2, InHands
<1>4. CacheOnce'
  BY <1>1 DEF Places, CacheOnce
<1>5. ASSUME NEW u \in Tasks, queue'[u] = None, queue[u] # None \/ HasTask(u)
      PROVE  HasTask(u)' \/ EndsTask(u)' \/ \E c \in Captures : MakesCapture(u, c)'
  BY <1>1, <1>3, <1>5
<1> QED
  BY <1>1, <1>4, <1>5, MovePlaces

\* The queue.
LEMMA SlotsPlaces ==
  ASSUME Places, CheckSlots
  PROVE  Places'
<1>0. proc \in [Procs -> Locals] /\ CrawlerStep /\ me.pc = "slots"
  BY DEF Places, Pends, Base, TypeOK, CrawlerStep, CheckSlots, At
<1> DEFINE pc == IF Len(cache) < MaxCaptures THEN "pop" ELSE "poll"
           l == [Loop EXCEPT !.pc = pc]
<1>1. pc \in {"pop", "poll"}
  OBVIOUS
<1>2. proc' = [proc EXCEPT ![Crawler] = l] /\ UNCHANGED redis
  BY DEF CheckSlots
<1> HIDE DEF pc
<1>3. l \in Locals /\ l.todo = <<>> /\ l.pc = pc
  BY <1>1, LoopTyped
<1>4. l.task = None
  BY DEF Loop
<1> HIDE DEF l
<1>5. me' = l /\ Todo(Crawler)' = <<>>
  BY <1>0, <1>2, <1>3, NewLocals
<1>6. me'.pc \in {"pop", "poll"} /\ me'.task = None
  BY <1>1, <1>3, <1>4, <1>5
<1>7. \A u \in Tasks : me'.task # u /\ Quiet(Crawler, u)'
  BY <1>5, <1>6, CrawlerAssumption DEF Quiet
<1>8. Stage'
  BY <1>5, <1>6 DEF Stage, Idle
<1>9. PICK t : t = me.task
  OBVIOUS
<1> QED
  BY <1>0, <1>2, <1>7, <1>8, <1>9, StaysPlaces

LEMMA PopPlaces ==
  ASSUME Places, PopTask
  PROVE  Places'
<1>1. /\ UNCHANGED <<task, dedup, captask, captures, cache, created>> /\ me.pc = "pop"
      /\ Todo(Crawler) = <<>> /\ CrawlerStep
  BY Zenon DEF PopTask, At, Free, Todo, CrawlerStep
<1>2. /\ TypeOK /\ proc \in [Procs -> Locals]
      /\ queue \in [Tasks -> Nat \cup {None}] /\ <<>> \in Seq(Commands)
  BY ProgramsTyped DEF Places, Pends, Base, TypeOK
<1>3. \A c \in captures : queue[captask[c]] = None
  BY <1>1, Quiescent
<1>4. CacheOnce'
  BY <1>1 DEF Places, CacheOnce
<1>5. \A t : ~HasTask(t)
  BY <1>1, InHands
<1>6. CASE \A t \in Tasks : queue[t] = None
  <2>1. GotoDo("poll", <<>>) /\ UNCHANGED queue
    BY <1>6, Zenon DEF PopTask
  <2>2. Todo(Crawler)' = <<>> /\ me'.pc = "poll" /\ me'.task = me.task
    BY <1>2, <2>1, GotoFacts
  <2>3. Stage'
    BY <2>2 DEF Stage, Idle
  <2>4. \A u \in Tasks : NoUse(u) => me'.task # u /\ Quiet(Crawler, u)'
    BY <2>2 DEF NoUse, Quiet
  <2>5. UNCHANGED redis
    BY <1>1, <2>1 DEF redis
  <2>6. PICK t : t = me.task
    OBVIOUS
  <2> QED
    BY <1>1, <2>3, <2>4, <2>5, <2>6, StaysPlaces
<1>7. CASE ~ \A t \in Tasks : queue[t] = None
  <2>1. PICK t \in Tasks :
           /\ queue[t] # None
           /\ queue' = [queue EXCEPT ![t] = None]
           /\ proc' = [proc EXCEPT ![Crawler].pc = "filter", ![Crawler].task = t,
                                   ![Crawler].prio = queue[t]]
    BY <1>7, Zenon DEF PopTask
  <2>2. queue[t] \in Nat
    BY <1>2, <2>1
  <2> DEFINE l == [me EXCEPT !.pc = "filter", !.task = t, !.prio = queue[t]]
  <2>3. me \in Locals /\ me.todo = <<>>
    BY <1>1, <1>2, ProcsFacts DEF me, Todo
  <2>4. l \in Locals /\ l.todo = <<>> /\ l.pc = "filter" /\ l.task = t /\ l.prio = queue[t]
    BY <2>2, <2>3 DEF Locals
  <2>5. proc' = [proc EXCEPT ![Crawler] = l]
    BY <1>2, <2>1, ProcsFacts DEF me
  <2> HIDE DEF l
  <2>6. me' = l /\ Todo(Crawler)' = <<>>
    BY <1>2, <2>4, <2>5, NewLocals
  <2>7. queue'[t] = None /\ \A u \in Tasks : u # t => queue'[u] = queue[u]
    BY <1>2, <2>1
  <2>8. task[t].domain /\ queue[t] # 0 /\ Loose(t)
    BY <1>3, <2>1 DEF Places, QueuedKnown, Loose
  <2>9. HasTask(t)'
    <3>1. me'.pc = "filter" /\ me'.task = t /\ me'.prio # 0
      BY <2>4, <2>6, <2>8
    <3>2. Loose(t)' /\ task'[t].domain
      BY <1>1, <2>8 DEF Loose
    <3> QED
      BY <2>6, <2>7, <3>1, <3>2 DEF HasTask, Holds
  <2>10. Stage'
    BY <2>9 DEF Stage
  <2>11. \A u \in Tasks : NoUse(u) => me'.task # u /\ Quiet(Crawler, u)'
    BY <2>1, <2>4, <2>6 DEF NoUse, Quiet
  <2>12. \A u \in Tasks : queue'[u] = None /\ (queue[u] # None \/ HasTask(u)) => u = t
    BY <1>5, <2>7
  <2>13. \A u \in Tasks : queue'[u] \in {queue[u], None}
    BY <2>7
  <2> QED
    BY <1>1, <1>4, <2>9, <2>10, <2>11, <2>12, <2>13, MovePlaces
<1> QED
  BY <1>6, <1>7

\* The onion filter.
LEMMA FilterPlaces ==
  ASSUME Places, FilterPass \/ FilterRefuse \/ FilterError
  PROVE  Places'
<1>1. CrawlerStep /\ UNCHANGED redis /\ me.pc = "filter" /\ TypeOK
  BY DEF CrawlerStep, FilterPass, FilterRefuse, FilterError, At, Places, Pends, Base
<1>2. Todo(Crawler) = <<>>
  BY <1>1, CrawlerFree
<1>3. PICK t \in Tasks : t = me.task
  BY <1>1, <1>2, InHands
<1>4. /\ Loose(t) /\ Holds(t) /\ task[t].domain /\ queue[t] = None /\ me.prio # 0
  BY <1>1, <1>2, <1>3, InHands
<1>5. UNCHANGED <<task, queue, captask, captures, cache>>
  BY <1>1 DEF redis
<1>6. Loose(t)'
  BY <1>4, <1>5 DEF Loose
<1>7. ASSUME me'.task = me.task, HasTask(t)' \/ EndsTask(t)',
             \/ Todo(Crawler)' = StartTask(t) \/ Todo(Crawler)' = TaskReset(t)
             \/ Todo(Crawler)' = DropTask(t)
      PROVE  Places'
  <2>1. Stage'
    BY <1>7 DEF Stage
  <2>2. \A u \in Tasks : u # t => Quiet(Crawler, u)'
    BY <1>7, ProgramQuiet
  <2>3. \A u \in Tasks : NoUse(u) => me'.task # u /\ Quiet(Crawler, u)'
    BY <1>3, <1>7, <2>2 DEF NoUse
  <2> QED
    BY <1>1, <1>3, <1>7, <2>1, <2>3, StaysPlaces
<1>8. CASE FilterPass
  <2>1. GotoDo("enqueue", StartTask(t))
    BY <1>3, <1>4, <1>8 DEF FilterPass, StartTask
  <2>2. /\ Todo(Crawler)' = StartTask(t) /\ me'.pc = "enqueue" /\ me'.task = me.task
        /\ me'.prio = me.prio
    BY <1>1, <2>1, LiteralsTyped, GotoFacts
  <2>3. HasTask(t)'
    BY <1>3, <1>4, <1>5, <1>6, <2>2 DEF HasTask, Holds
  <2> QED
    BY <1>7, <2>2, <2>3
<1>9. CASE FilterRefuse
  <2>1. BackDo(DropTask(t))
    BY <1>3, <1>9, DeleteLiteral DEF FilterRefuse
  <2>2. Todo(Crawler)' = DropTask(t) /\ me'.pc = "slots" /\ me'.task = me.task
    BY <1>1, <2>1, LiteralsTyped, BackFacts
  <2>3. \A c \in captures : task[t].capture # c
    <3> SUFFICES ASSUME NEW c \in captures, task[t].capture = c PROVE FALSE
      OBVIOUS
    <3>1. captask[c] = t \/ captask[c] = None
      BY <1>1 DEF Places, Pends, CaptureKnown, TypeOK
    <3>2. captask[c] \in Tasks
      BY DEF Places, CapturesOwn, Own
    <3> QED
      BY <1>4, <3>1, <3>2, CrawlerAssumption DEF Loose
  <2>4. \A k \in DOMAIN cache : cache[k] # task[t].capture
    BY <2>3 DEF Places, CacheOnce
  <2>5. EndsTask(t)'
    BY <1>3, <1>4, <1>5, <2>2, <2>4 DEF EndsTask, Holds, InCache
  <2> QED
    BY <1>7, <2>2, <2>5
<1>10. CASE FilterError
  <2>1. BackDo(TaskReset(t))
    BY <1>3, <1>10 DEF FilterError
  <2>2. Todo(Crawler)' = TaskReset(t) /\ me'.pc = "slots" /\ me'.task = me.task
    BY <1>1, <2>1, LiteralsTyped, BackFacts
  <2>3. HasTask(t)'
    BY <1>3, <1>4, <1>5, <1>6, <2>2 DEF HasTask, Holds
  <2> QED
    BY <1>7, <2>2, <2>3
<1> QED
  BY <1>8, <1>9, <1>10

\* The captures of a task that is started.
LEMMA EnqueuePlaces ==
  ASSUME Places, EnqueueCapture \/ EnqueueFails
  PROVE  Places'
<1>1. CrawlerStep /\ UNCHANGED redis /\ me.pc = "enqueue" /\ TypeOK
  BY DEF CrawlerStep, EnqueueCapture, EnqueueFails, At, Places, Pends, Base
<1>2. Todo(Crawler) = <<>>
  BY <1>1, CrawlerFree
<1>3. PICK t \in Tasks : t = me.task
  BY <1>1, <1>2, InHands
<1>4. /\ Loose(t) /\ Holds(t) /\ task[t].domain /\ queue[t] = None /\ me.prio # 0 /\ task[t].start
  BY <1>1, <1>2, <1>3, InHands
<1>5. UNCHANGED <<task, queue, captask, captures, cache>>
  BY <1>1 DEF redis
<1>6. Loose(t)'
  BY <1>4, <1>5 DEF Loose
<1>7. CASE EnqueueCapture
  <2>1. PICK c \in Captures : FreshCapture(c) /\ GotoDo("push", CreateCapture(c, t))
    BY <1>3, <1>4, <1>7, Zenon DEF EnqueueCapture
  <2>2. Todo(Crawler)' = CreateCapture(c, t) /\ me'.pc = "push" /\ me'.task = me.task
    BY <1>1, <2>1, LiteralsTyped, GotoFacts
  <2>3. MakesCapture(t, c)'
    BY <1>3, <1>4, <1>5, <1>6, <2>1, <2>2 DEF MakesCapture, Holds, FreshCapture
  <2>4. Stage'
    BY <2>3 DEF Stage
  <2>5. \A u \in Tasks : u # t => Quiet(Crawler, u)'
    BY <2>2, ProgramQuiet
  <2>6. \A u \in Tasks : NoUse(u) => me'.task # u /\ Quiet(Crawler, u)'
    BY <1>3, <2>2, <2>5 DEF NoUse
  <2> QED
    BY <1>1, <1>3, <2>3, <2>4, <2>6, StaysPlaces
<1>8. CASE EnqueueFails
  <2>0. me.prio \in Nat \ {0}
    BY <1>1, <1>4 DEF Places, Pends, Base, LocalsOK
  <2>1. PICK v \in Nat \ {0} : v = me.prio
    BY <2>0
  <2>2. BackDo(QueueTask(t, v))
    BY <1>3, <1>8, <2>1 DEF EnqueueFails, QueueTask
  <2>3. QueueTask(t, v) \in Seq(Commands)
    BY LiteralsTyped
  <2>4. Todo(Crawler)' = QueueTask(t, v) /\ me'.pc = "slots" /\ me'.task = me.task
    BY <1>1, <2>2, <2>3, BackFacts
  <2>5. HasTask(t)'
    BY <1>3, <1>4, <1>5, <1>6, <2>4 DEF HasTask, Holds
  <2>6. Stage'
    BY <2>5 DEF Stage
  <2>7. \A u \in Tasks : u # t => Quiet(Crawler, u)'
    BY <2>4, ProgramQuiet
  <2>8. \A u \in Tasks : NoUse(u) => me'.task # u /\ Quiet(Crawler, u)'
    BY <1>3, <2>4, <2>7 DEF NoUse
  <2> QED
    BY <1>1, <1>3, <2>5, <2>6, <2>8, StaysPlaces
<1> QED
  BY <1>7, <1>8

LEMMA PushPlaces ==
  ASSUME Discovery = FALSE, Places, PushDiscovery
  PROVE  Places'
<1>1. /\ CrawlerStep /\ UNCHANGED redis /\ me.pc = "push" /\ TypeOK /\ GotoDo("poll", <<>>)
      /\ <<>> \in Seq(Commands)
  BY ProgramsTyped DEF CrawlerStep, PushDiscovery, At, Places, Pends, Base
<1>2. Todo(Crawler)' = <<>> /\ me'.pc = "poll" /\ me'.task = me.task
  BY <1>1, GotoFacts
<1>3. Stage'
  BY <1>2 DEF Stage, Idle
<1>4. \A u \in Tasks : NoUse(u) => me'.task # u /\ Quiet(Crawler, u)'
  BY <1>2 DEF NoUse, Quiet
<1>5. PICK t : t = me.task
  OBVIOUS
<1> QED
  BY <1>1, <1>3, <1>4, <1>5, StaysPlaces

\* zpopmin of the cache.
LEMMA PollPlaces ==
  ASSUME Places, PollCapture
  PROVE  Places'
<1>1. /\ UNCHANGED <<task, queue, dedup, captask, captures, created>> /\ me.pc = "poll"
      /\ Todo(Crawler) = <<>> /\ CrawlerStep
  BY Zenon DEF PollCapture, At, Free, Todo, CrawlerStep
<1>2. /\ TypeOK /\ proc \in [Procs -> Locals] /\ cache \in Seq(Captures) /\ <<>> \in Seq(Commands)
      /\ captask \in [Captures -> Tasks \cup {None}]
  BY ProgramsTyped DEF Places, Pends, Base, TypeOK
<1>3. \A u \in Tasks : ~HasTask(u)
  BY <1>1, InHands
<1>4. CASE cache = <<>>
  <2>1. BackDo(<<>>) /\ UNCHANGED cache
    BY <1>4, Zenon DEF PollCapture
  <2>2. Todo(Crawler)' = <<>> /\ me'.pc = "slots" /\ me'.task = me.task
    BY <1>2, <2>1, BackFacts
  <2>3. Stage'
    BY <2>2 DEF Stage, Idle
  <2>4. \A u \in Tasks : NoUse(u) => me'.task # u /\ Quiet(Crawler, u)'
    BY <2>2 DEF NoUse, Quiet
  <2>5. UNCHANGED redis
    BY <1>1, <2>1 DEF redis
  <2>6. PICK t : t = me.task
    OBVIOUS
  <2> QED
    BY <1>1, <2>3, <2>4, <2>5, <2>6, StaysPlaces
<1>5. CASE cache # <<>>
  <2>1. PICK c \in Captures : c = Head(cache)
    BY <1>2, <1>5
  <2>2. /\ 1 \in DOMAIN cache /\ cache[1] = c
        /\ \A k \in DOMAIN Tail(cache) : k + 1 \in DOMAIN cache /\ Tail(cache)[k] = cache[k + 1]
        /\ \A k \in DOMAIN Tail(cache) : k \in Nat /\ k + 1 # 1
    BY <1>2, <1>5, <2>1
  <2>3. c \in captures
    BY <2>2 DEF Places, CacheOnce
  <2>4. PICK t \in Tasks : t = captask[c]
    BY <2>3 DEF Places, CapturesOwn, Own
  <2> DEFINE l == [Loop EXCEPT !.pc = "status", !.capture = c, !.task = t]
  <2>5. cache' = Tail(cache) /\ proc' = [proc EXCEPT ![Crawler] = l]
    BY <1>5, <2>1, <2>4, Zenon DEF PollCapture
  <2>6. l \in Locals /\ l.todo = <<>> /\ l.pc = "status" /\ l.capture = c /\ l.task = t
    BY LoopTyped DEF Loop, Locals
  <2> HIDE DEF l
  <2>7. /\ me'.pc = "status" /\ me'.capture = c /\ me'.task = t /\ Todo(Crawler)' = <<>>
    BY <1>2, <2>5, <2>6, NewLocals
  <2>8. CacheOnce /\ \A j, k \in DOMAIN cache : cache[j] = cache[k] => j = k
    BY DEF Places, CacheOnce
  <2>9. \A k \in DOMAIN Tail(cache) : Tail(cache)[k] # c /\ Tail(cache)[k] \in captures
    BY <2>2, <2>8 DEF CacheOnce
  <2>10. \A j, k \in DOMAIN Tail(cache) : Tail(cache)[j] = Tail(cache)[k] => j = k
    <3> SUFFICES ASSUME NEW j \in DOMAIN Tail(cache), NEW k \in DOMAIN Tail(cache),
                        Tail(cache)[j] = Tail(cache)[k]
                 PROVE  j = k
      OBVIOUS
    <3>1. j + 1 = k + 1
      BY <2>2, <2>8
    <3> QED
      BY <2>2, <3>1
  <2>11. CacheOnce'
    BY <1>1, <2>5, <2>9, <2>10 DEF CacheOnce
  <2>12. HasCapture(t, c)'
    BY <1>1, <2>3, <2>4, <2>5, <2>7, <2>9 DEF HasCapture, InCache
  <2>13. Stage'
    BY <2>12 DEF Stage
  <2>14. \A u \in Tasks : NoUse(u) => me'.task # u /\ Quiet(Crawler, u)'
    BY <2>4, <2>7 DEF NoUse, Quiet
  <2> QED
    BY <1>1, <1>3, <2>11, <2>13, <2>14, MovePlaces
<1> QED
  BY <1>4, <1>5

\* What Lacus says of the capture.
LEMMA StatusPlaces ==
  ASSUME Places, CaptureDone \/ CaptureUpdate \/ CaptureUnknown \/ CaptureTimeout \/ Compute
             \/ ComputeFails
  PROVE  Places'
<1>1. /\ CrawlerStep /\ UNCHANGED redis /\ me.pc \in {"status", "compute"} /\ TypeOK
      /\ <<>> \in Seq(Commands)
  BY ProgramsTyped DEF CrawlerStep, CaptureDone, CaptureUpdate, CaptureUnknown, CaptureTimeout,
     Compute, ComputeFails, At, Places, Pends, Base
<1>2. Todo(Crawler) = <<>>
  BY <1>1, CrawlerFree
<1>3. PICK t \in Tasks : t = me.task
  BY <1>1, <1>2, InHands
<1>4. PICK c \in Captures : c = me.capture
  BY <1>1, <1>2, InHands DEF TypeOK
<1>5. /\ c \in captures /\ captask[c] = t /\ ~InCache(c) /\ task[t].capture = c
      /\ task[t].domain /\ task[t].start /\ queue[t] = None
  BY <1>1, <1>2, <1>3, <1>4, InHands
<1>6. CaptureTask = t /\ t # None
  BY <1>4, <1>5, CrawlerAssumption DEF CaptureTask
<1>7. UNCHANGED <<task, queue, captask, captures, cache>>
  BY <1>1 DEF redis
<1>8. ASSUME me'.task = me.task, HasCapture(t, c)' \/ EndsTask(t)',
             \/ Todo(Crawler)' = <<>> \/ Todo(Crawler)' = AfterZadd(c)
             \/ Todo(Crawler)' = ResetBoth(t, c) \/ Todo(Crawler)' = TaskRemove(t)
      PROVE  Places'
  <2>1. Stage'
    BY <1>8 DEF Stage
  <2>2. \A u \in Tasks : u # t => Quiet(Crawler, u)'
    BY <1>8, ProgramQuiet
  <2>3. \A u \in Tasks : NoUse(u) => me'.task # u /\ Quiet(Crawler, u)'
    BY <1>3, <1>8, <2>2 DEF NoUse
  <2> QED
    BY <1>1, <1>3, <2>1, <2>3, StaysPlaces
<1>9. ASSUME me'.task = me.task, me'.pc = "slots",
             Todo(Crawler)' = AfterZadd(c) \/ Todo(Crawler)' = ResetBoth(t, c)
      PROVE  HasCapture(t, c)'
  BY <1>3, <1>5, <1>7, <1>9 DEF HasCapture, InCache
<1>10. CASE CaptureDone
  <2>1. GotoDo("compute", <<>>)
    BY <1>10 DEF CaptureDone
  <2>2. /\ Todo(Crawler)' = <<>> /\ me'.pc = "compute" /\ me'.task = me.task
        /\ me'.capture = me.capture
    BY <1>1, <2>1, GotoFacts
  <2>3. HasCapture(t, c)'
    BY <1>3, <1>4, <1>5, <1>7, <2>2 DEF HasCapture, InCache
  <2> QED
    BY <1>8, <2>2, <2>3
<1>11. CASE CaptureUpdate
  <2>1. BackDo(AfterZadd(c))
    BY <1>4, <1>11 DEF CaptureUpdate, AfterZadd
  <2>2. Todo(Crawler)' = AfterZadd(c) /\ me'.pc = "slots" /\ me'.task = me.task
    BY <1>1, <2>1, LiteralsTyped, BackFacts
  <2> QED
    BY <1>8, <1>9, <2>2
<1>12. CASE CaptureUnknown
  BY <1>5, <1>6, <1>12 DEF CaptureUnknown
<1>13. CASE CaptureTimeout
  <2>1. BackDo(ResetBoth(t, c)) /\ ResetBoth(t, c) \in Seq(Commands)
    BY <1>4, <1>6, <1>13, ResetLiteral DEF CaptureTimeout
  <2>2. Todo(Crawler)' = ResetBoth(t, c) /\ me'.pc = "slots" /\ me'.task = me.task
    BY <1>1, <2>1, BackFacts
  <2> QED
    BY <1>8, <1>9, <2>2
<1>14. CASE Compute
  <2>1. BackDo(TaskRemove(t))
    BY <1>5, <1>6, <1>14 DEF Compute
  <2>2. Todo(Crawler)' = TaskRemove(t) /\ me'.pc = "slots" /\ me'.task = me.task
    BY <1>1, <2>1, LiteralsTyped, BackFacts
  <2>3. EndsTask(t)'
    BY <1>3, <1>5, <1>7, <2>2 DEF EndsTask, Holds, InCache
  <2> QED
    BY <1>8, <2>2, <2>3
<1>15. CASE ComputeFails
  <2>1. GotoDo("dead", <<>>)
    BY <1>15 DEF ComputeFails
  <2>2. /\ Todo(Crawler)' = <<>> /\ me'.pc = "dead" /\ me'.task = me.task
        /\ me'.capture = me.capture
    BY <1>1, <2>1, GotoFacts
  <2>3. HasCapture(t, c)'
    BY <1>3, <1>4, <1>5, <1>7, <2>2 DEF HasCapture, InCache
  <2> QED
    BY <1>8, <2>2, <2>3
<1> QED
  BY <1>10, <1>11, <1>12, <1>13, <1>14, <1>15

----------------------------------------------------------------------------
(***************************************************************************)
(* The invariant, and what it says.                                        *)
(***************************************************************************)
LEMMA PlacesHolds ==
  ASSUME Forced, Discovery = FALSE
  PROVE  /\ Init => Places
         /\ Places /\ [Next]_vars => Places'
<1>1. ASSUME Init PROVE Places
  <2>1. Pends
    BY <1>1, PendsHolds
  <2>2. \A p \in Procs : proc[p] = Loop
    BY <1>1 DEF Init
  <2>3. Loop.todo = <<>> /\ Loop.pc = "slots"
    BY DEF Loop
  <2>4. Stage /\ Makers
    BY <2>2, <2>3, ProcsFacts DEF Stage, Idle, Makers, Todo, me
  <2>5. QueuedKnown /\ CapturesOwn /\ CacheOnce
    BY <1>1 DEF Init, QueuedKnown, CapturesOwn, CacheOnce
  <2>6. AllPlaced
    BY <1>1 DEF Init, AllPlaced, NoTask
  <2> QED
    BY <2>1, <2>4, <2>5, <2>6 DEF Places
<1>2. ASSUME Places, [Next]_vars PROVE Places'
  <2>1. ASSUME NEW p \in Procs, Command(p) PROVE Places'
    BY <1>2, <2>1, CommandPlaces
  <2>2. ASSUME NEW r \in Reqs, ProcessQueue(r) PROVE Places'
    BY <1>2, <2>2, CreatePlaces, ProcsFacts DEF ProcessQueue, At, me
  <2>3. ASSUME NEW r \in Reqs, NEW w \in Clients, ClientCreate(w, r) PROVE Places'
    <3>1. w \in Procs /\ proc[w].pc = "slots"
      BY <1>2, ProcsFacts DEF Places, Pends, Base, LocalsOK
    <3> QED
      BY <1>2, <2>3, <3>1, CreatePlaces DEF ClientCreate
  <2>4. CASE CrawlerStep
    BY <1>2, <2>4, SlotsPlaces, PopPlaces, FilterPlaces, EnqueuePlaces, PushPlaces, PollPlaces,
       StatusPlaces DEF CrawlerStep
  <2>5. CASE UNCHANGED vars
    <3>1. Pends'
      BY <1>2, PendsHolds, AnyStep DEF Places
    <3>2. UNCHANGED <<task, queue, captask, captures, cache, proc>>
      BY <2>5 DEF vars
    <3>3. \A p : Todo(p)' = Todo(p)
      BY <3>2 DEF Todo
    <3>4. me' = me
      BY <3>2 DEF me
    <3>5. \A u : /\ Loose(u)' <=> Loose(u)
                 /\ Holds(u)' <=> Holds(u)
                 /\ InCache(u)' <=> InCache(u)
                 /\ NoUse(u)' <=> NoUse(u)
                 /\ \A p : Quiet(p, u)' <=> Quiet(p, u)
      BY <3>2, <3>3, <3>4 DEF Loose, Holds, InCache, NoUse, Quiet
    <3>6. \A p \in Procs : \A u, s : Makes(p, u, s) => Makes(p, u, s)'
      BY <3>2, <3>3, <3>5 DEF Makes
    <3>7. \A u : HasTask(u) => HasTask(u)'
      BY <3>2, <3>3, <3>4, <3>5 DEF HasTask
    <3>8. \A u : EndsTask(u) => EndsTask(u)'
      BY <3>2, <3>3, <3>4, <3>5 DEF EndsTask
    <3>9. \A u, c : /\ MakesCapture(u, c) => MakesCapture(u, c)'
                    /\ HasCapture(u, c) => HasCapture(u, c)'
                    /\ Forgets(u, c) => Forgets(u, c)'
      BY <3>2, <3>3, <3>4, <3>5 DEF MakesCapture, HasCapture, Forgets
    <3>10. Stage' /\ Makers'
      BY <1>2, <3>3, <3>4, <3>6, <3>7, <3>8, <3>9, ProcsFacts
         DEF Places, Stage, Makers, MakesTask, Idle
    <3>11. QueuedKnown' /\ CacheOnce'
      BY <1>2, <3>2 DEF Places, QueuedKnown, CacheOnce
    <3>12. CapturesOwn'
      BY <1>2, <3>2 DEF Places, CapturesOwn, Own, Pending
    <3>13. AllPlaced'
      BY <1>2, <3>2, <3>5, <3>6, <3>7, <3>8, <3>9 DEF Places, AllPlaced, Placed
    <3> QED
      BY <3>1, <3>10, <3>11, <3>12, <3>13 DEF Places
  <2> QED
    BY <1>2, <2>1, <2>2, <2>3, <2>4, <2>5 DEF Next
<1> QED
  BY <1>1, <1>2

\* A command names the task.
LEMMA Names ==
  ASSUME NEW p \in Procs, NEW t, NEW k \in DOMAIN Todo(p),
         \/ Todo(p)[k].key = t \/ Todo(p)[k].val = t
         \/ Todo(p)[k].op = "zadd" /\ captask[Todo(p)[k].key] = t
  PROVE  InHand(t)
BY DEF InHand, Todo

LEMMA PlacedInHand ==
  ASSUME NEW t \in Tasks, Placed(t)
  PROVE  queue[t] # None \/ InHand(t) \/ \E c \in captures : captask[c] = t
<1>0. Crawler \in Procs
  BY ProcsFacts
<1>1. ASSUME HasTask(t) PROVE InHand(t)
  <2>1. \A v : /\ 1 \in DOMAIN TaskReset(t) /\ TaskReset(t)[1].key = t
               /\ 1 \in DOMAIN QueueTask(t, v) /\ QueueTask(t, v)[1].key = t
    BY DEF TaskReset, QueueTask, Cmd
  <2>2. CASE me.pc \in {"filter", "enqueue"}
    BY <1>1, <2>2 DEF HasTask, Holds, InHand
  <2>3. CASE me.pc \notin {"filter", "enqueue"}
    <3>1. 1 \in DOMAIN Todo(Crawler) /\ Todo(Crawler)[1].key = t
      BY <1>1, <2>1, <2>3 DEF HasTask
    <3> QED
      BY <1>0, <3>1, Names
  <2> QED
    BY <2>2, <2>3
<1>2. ASSUME EndsTask(t) PROVE InHand(t)
  <2>1. /\ 1 \in DOMAIN DropTask(t) /\ DropTask(t)[1].key = t
        /\ 1 \in DOMAIN TaskRemove(t) /\ TaskRemove(t)[1].key = t
        /\ 1 \in DOMAIN RemoveHashes(t) /\ RemoveHashes(t)[1].key = t
        /\ 1 \in DOMAIN RemoveHash(t) /\ RemoveHash(t)[1].key = t
    BY DEF DropTask, TaskRemove, RemoveHashes, RemoveHash, Cmd
  <2>2. \A c : /\ 3 \in DOMAIN RemoveBoth(t, c) /\ RemoveBoth(t, c)[3].key = t
               /\ 2 \in DOMAIN RemoveTask(t, c) /\ RemoveTask(t, c)[2].key = t
    BY DEF RemoveBoth, RemoveTask, Cmd
  <2>3. \E k \in DOMAIN Todo(Crawler) : Todo(Crawler)[k].key = t
    BY <1>2, <2>1, <2>2 DEF EndsTask
  <2> QED
    BY <1>0, <2>3, Names
<1>3. ASSUME NEW c \in Captures, MakesCapture(t, c) PROVE InHand(t)
  <2>1. /\ 1 \in DOMAIN CreateCapture(c, t) /\ CreateCapture(c, t)[1].key = t
        /\ 1 \in DOMAIN AfterCapture(c, t) /\ AfterCapture(c, t)[1].val = t
        /\ 1 \in DOMAIN AfterCapTask(c) /\ AfterCapTask(c)[1].op = "zadd"
        /\ AfterCapTask(c)[1].key = c
    BY DEF CreateCapture, AfterCapture, AfterCapTask, Cmd
  <2>2. /\ 1 \in DOMAIN Todo(Crawler)
        /\ \/ Todo(Crawler)[1].key = t \/ Todo(Crawler)[1].val = t
           \/ Todo(Crawler)[1].op = "zadd" /\ captask[Todo(Crawler)[1].key] = t
    BY <1>3, <2>1 DEF MakesCapture
  <2> QED
    BY <1>0, <2>2, Names
<1>4. ASSUME NEW p \in Procs, NEW r \in Reqs, Makes(p, t, r) PROVE InHand(t)
  BY <1>4, MakesNames, Names
<1> QED
  BY <1>1, <1>2, <1>3, <1>4 DEF Placed, Loose

LEMMA PlacesSays ==
  ASSUME Places
  PROVE  /\ NoTaskLost /\ OneCapture /\ CrawlerEnds
         /\ PolledOrReplaced => CapturesPolled
<1>1. NoTaskLost
  BY PlacedInHand DEF Places, AllPlaced, NoTaskLost
<1>2. OneCapture
  BY DEF Places, CapturesOwn, Own, OneCapture
<1>3. CrawlerEnds
  <2> SUFFICES ASSUME me.pc = "dead"
               PROVE  /\ me.capture \in captures /\ me.task \in Tasks
                      /\ captask[me.capture] = me.task /\ task[me.task].domain
    BY DEF CrawlerEnds
  <2>1. PICK t \in Tasks, c \in Captures : HasCapture(t, c)
    BY DEF Places, Stage, Idle, HasTask, EndsTask, MakesCapture, Forgets, MakesTask, Makes, me
  <2>2. me.task = t /\ me.capture = c /\ c \in captures /\ captask[c] = t
    BY <2>1 DEF HasCapture
  <2>3. task[t].domain
    BY <2>2 DEF Places, CapturesOwn, Own
  <2> QED
    BY <2>2, <2>3
<1>4. \A c \in captures : ~Replaced(c)
  BY DEF Places, CapturesOwn, Own, Replaced
<1> QED
  BY <1>1, <1>2, <1>3, <1>4 DEF PolledOrReplaced, CapturesPolled

\* CrawlerTask and CrawlerCapture, as long as the Crawler is not stopped, no schedule or capture
\* is deleted, every request is forced (Lacus never answers with the capture of another
\* request) and no discovery is pushed to another AIL: a task that exists is queued, in hand or
\* in a capture, whatever the interleaving with the processes that create tasks and whatever
\* the filter and Lacus answer.
THEOREM TasksCorrect ==
  ASSUME Forced, Discovery = FALSE
  PROVE  Spec => []NoTaskLost
<1>1. Init => Places
  BY PlacesHolds
<1>2. Places /\ [Next]_vars => Places'
  BY PlacesHolds
<1>3. Places => NoTaskLost
  BY PlacesSays
<1> QED
  BY <1>1, <1>2, <1>3, PTL DEF Spec

\* Under the same conditions a task is in Lacus once: no two captures have the same task, and
\* a task is queued again only when its capture is about to be forgotten.
THEOREM CapturesUnique ==
  ASSUME Forced, Discovery = FALSE
  PROVE  Spec => []OneCapture
<1>1. Init => Places
  BY PlacesHolds
<1>2. Places /\ [Next]_vars => Places'
  BY PlacesHolds
<1>3. Places => OneCapture
  BY PlacesSays
<1> QED
  BY <1>1, <1>2, <1>3, PTL DEF Spec

\* Under the same conditions the Crawler pops no task without hash and polls no capture
\* without task: it ends by an error of Lacus or of the filter in compute only, and with a
\* capture that is in Kvrocks with its task.
THEOREM CrawlerEndsRight ==
  ASSUME Forced, Discovery = FALSE
  PROVE  Spec => []CrawlerEnds
<1>1. Init => Places
  BY PlacesHolds
<1>2. Places /\ [Next]_vars => Places'
  BY PlacesHolds
<1>3. Places => CrawlerEnds
  BY PlacesSays
<1> QED
  BY <1>1, <1>2, <1>3, PTL DEF Spec

\* Under the same conditions every capture of Kvrocks is polled again: none is ever replaced.
THEOREM CapturesStayPolled ==
  ASSUME Forced, Discovery = FALSE
  PROVE  Spec => []CapturesPolled
<1>1. Init => Places /\ CapturesHaveTask /\ PolledOrReplaced
  BY PlacesHolds DEF Init, CapturesHaveTask, PolledOrReplaced
<1>2. [Next]_vars => [CrashNext]_vars
  BY AnyStep
<1>3. Places /\ CapturesHaveTask /\ PolledOrReplaced /\ [Next]_vars
        => Places' /\ CapturesHaveTask' /\ PolledOrReplaced'
  <2> SUFFICES ASSUME Places, CapturesHaveTask, PolledOrReplaced, [Next]_vars
               PROVE  Places' /\ CapturesHaveTask' /\ PolledOrReplaced'
    OBVIOUS
  <2>1. Places' /\ Pends
    BY PlacesHolds DEF Places
  <2> QED
    BY <1>2, <2>1, CapturesStep, OtherTables, PolledCommand, PolledOther
<1>4. Places /\ PolledOrReplaced => CapturesPolled
  BY PlacesSays
<1> QED
  BY <1>1, <1>3, <1>4, PTL DEF Spec

=============================================================================
