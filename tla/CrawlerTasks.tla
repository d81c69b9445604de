---------------------------- MODULE CrawlerTasks ----------------------------
(***************************************************************************)
(* The life of a crawler task: lib/crawlers.py (CrawlerTask and            *)
(* CrawlerCapture) and the polling loop of crawlers/Crawler.py.            *)
(*                                                                         *)
(* A task waits in crawler:queue, is popped by the Crawler, is given to    *)
(* Lacus (an external service) as a capture, and the capture is polled     *)
(* until Lacus is done with it; then the capture and the task are removed. *)
(* Nothing is transactional: each operation is a list of Redis commands,   *)
(* the other processes run between any two, and the Crawler may stop there.*)
(*                                                                         *)
(*   task[t]      hash  crawler:task:<t>    (the fields that matter)       *)
(*   queue[t]     zset  crawler:queue       score, or None                 *)
(*   dedup[r]     hash  crawler:queue:hash  request -> task                *)
(*   captask[c]   hash  crawler:captures:tasks                             *)
(*   captures     zset  crawler:captures    in Kvrocks, survives a restart *)
(*   cache        zset  crawler:captures    in the cache, oldest check     *)
(*                      first: the captures the Crawler polls, one every   *)
(*                      pending_seconds, so that two checks have two times *)
(***************************************************************************)
EXTENDS Naturals, Sequences, FiniteSets, SequencesExt

CONSTANTS
    Tasks,        \* task uuids
    Captures,     \* capture uuids, given by Lacus
    Reqs,         \* requests, as get_task_hash tells them apart
    Clients,      \* processes that create tasks: Flask, the module Onion
    Crawler,      \* the Crawler process
    Prio,         \* the priority of each request
    Scheduled,    \* requests of a schedule, which Flask may delete
    None,         \* no value
    MaxCaptures,  \* get_crawler_max_captures()
    Discovery,    \* whether ail_to_push_discovery is configured
    MaxCreates    \* bound: tasks created in a behaviour

ASSUME CrawlerAssumption ==
    /\ Crawler \notin Clients
    /\ \A r \in Reqs : Prio[r] \in Nat
    /\ Scheduled \subseteq Reqs
    /\ None \notin Tasks \cup Captures \cup Reqs \cup Nat
    /\ MaxCaptures \in Nat
    /\ Discovery \in BOOLEAN
    /\ MaxCreates \in Nat

VARIABLES
    task, queue, dedup, captask, captures, cache,
    proc,      \* program counter, local variables and pending commands
    created    \* tasks created so far

vars == <<task, queue, dedup, captask, captures, cache, proc, created>>

Procs == Clients \cup {Crawler}
me == proc[Crawler]
NoTask == [domain |-> FALSE, hash |-> None, start |-> FALSE, capture |-> None]
Loop == [pc |-> "slots", task |-> None, prio |-> None, capture |-> None, todo |-> <<>>]

Init ==
    /\ task = [t \in Tasks |-> NoTask]
    /\ queue = [t \in Tasks |-> None]
    /\ dedup = [r \in Reqs |-> None]
    /\ captask = [c \in Captures |-> None]
    /\ captures = {}
    /\ cache = <<>>
    /\ proc = [p \in Procs |-> Loop]
    /\ created = 0

----------------------------------------------------------------------------
(***************************************************************************)
(* The operations, as the commands they send.                              *)
(***************************************************************************)
Cmd(op, key, val) == [op |-> op, key |-> key, val |-> val]

\* CrawlerTask.create, once no task of the request was found.  The set crawler:queue:type
\* of the UI, and the field 'queue' that names it, written last, are left out.
CreateTask(t, r) ==
    <<Cmd("domain", t, TRUE), Cmd("dedup", r, t), Cmd("hash", t, r), Cmd("queue", t, Prio[r])>>

\* Mutants: the uuids swapped; the capture inserted before it has a task.
MutantCaptureIsTask(c, t) ==
    <<Cmd("capture", t, t), Cmd("captask", c, t), Cmd("zadd", c, None), Cmd("cacheAdd", c, None)>>
MutantCaptureBeforeTask(c, t) ==
    <<Cmd("capture", t, c), Cmd("zadd", c, None), Cmd("captask", c, t), Cmd("cacheAdd", c, None)>>

\* CrawlerCapture.create: the capture is polled once everything else is written.
CreateCapture(c, t) ==
    <<Cmd("capture", t, c), Cmd("captask", c, t), Cmd("zadd", c, None), Cmd("cacheAdd", c, None)>>

CaptureRemove(c) == <<Cmd("zrem", c, None), Cmd("captask", c, None)>>
CaptureDelete(c) == <<Cmd("cacheRem", c, None)>> \o CaptureRemove(c)

\* CrawlerTask.remove: the capture to remove is read when the command is run.
TaskRemove(t) == <<Cmd("remove", t, None)>>
TaskDelete(t) == <<Cmd("queue", t, None)>> \o TaskRemove(t)
TaskReset(t) == <<Cmd("start", t, FALSE), Cmd("queue", t, 49)>>

----------------------------------------------------------------------------
(***************************************************************************)
(* One action per Redis command.                                           *)
(***************************************************************************)
Runs(p, ops) == proc[p].todo # <<>> /\ Head(proc[p].todo).op \in ops
Key(p) == Head(proc[p].todo).key
Val(p) == Head(proc[p].todo).val
Done(p) == proc' = [proc EXCEPT ![p].todo = Tail(@)]

HsetTask(p) ==
    /\ Runs(p, {"domain", "hash", "start", "capture"})
    /\ task' = [task EXCEPT ![Key(p)] = [@ EXCEPT ![Head(proc[p].todo).op] = Val(p)]]
    /\ Done(p)
    /\ UNCHANGED <<queue, dedup, captask, captures, cache, created>>

\* zadd, or zrem if there is no score.
ZaddQueue(p) ==
    /\ Runs(p, {"queue"})
    /\ queue' = [queue EXCEPT ![Key(p)] = Val(p)]
    /\ Done(p)
    /\ UNCHANGED <<task, dedup, captask, captures, cache, created>>

HsetDedup(p) ==
    /\ Runs(p, {"dedup"})
    /\ dedup' = [dedup EXCEPT ![Key(p)] = Val(p)]
    /\ Done(p)
    /\ UNCHANGED <<task, queue, captask, captures, cache, created>>

HsetCapTask(p) ==
    /\ Runs(p, {"captask"})
    /\ captask' = [captask EXCEPT ![Key(p)] = Val(p)]
    /\ Done(p)
    /\ UNCHANGED <<task, queue, dedup, captures, cache, created>>

ZaddCaptures(p) ==
    /\ Runs(p, {"zadd", "zrem"})
    /\ captures' = IF Head(proc[p].todo).op = "zadd"
                   THEN captures \cup {Key(p)} ELSE captures \ {Key(p)}
    /\ Done(p)
    /\ UNCHANGED <<task, queue, dedup, captask, cache, created>>

\* A sorted set has a member once.
Without(s, c) ==
    IF \E k \in DOMAIN s : s[k] = c THEN RemoveAt(s, CHOOSE k \in DOMAIN s : s[k] = c) ELSE s

ZaddCache(p) ==
    /\ Runs(p, {"cacheAdd", "cacheRem"})
    /\ cache' = IF Head(proc[p].todo).op = "cacheAdd"
                THEN Append(Without(cache, Key(p)), Key(p)) ELSE Without(cache, Key(p))
    /\ Done(p)
    /\ UNCHANGED <<task, queue, dedup, captask, captures, created>>

\* Mutant: the hash of the task is deleted before it is read for the queue hash.
MutantRemoveHashFirst(p) ==
    /\ Runs(p, {"remove"})
    /\ LET c == task[Key(p)].capture IN
       proc' = [proc EXCEPT ![p].todo =
                  (IF c = None THEN <<>> ELSE CaptureRemove(c))
                    \o <<Cmd("del", Key(p), None), Cmd("hdelDedup", Key(p), None)>> \o Tail(@)]
    /\ UNCHANGED <<task, queue, dedup, captask, captures, cache, created>>

\* CrawlerTask.remove reads the capture of the task and goes on.
RemoveCapture(p) ==
    /\ Runs(p, {"remove"})
    /\ LET c == task[Key(p)].capture IN
       proc' = [proc EXCEPT ![p].todo =
                  (IF c = None THEN <<>> ELSE CaptureRemove(c))
                    \o <<Cmd("hdelDedup", Key(p), None), Cmd("del", Key(p), None)>> \o Tail(@)]
    /\ UNCHANGED <<task, queue, dedup, captask, captures, cache, created>>

\* Mutant: the request stays refused.
MutantKeepDedup(p) ==
    /\ Runs(p, {"hdelDedup"})
    /\ Done(p)
    /\ UNCHANGED <<task, queue, dedup, captask, captures, cache, created>>

HdelDedup(p) ==
    /\ Runs(p, {"hdelDedup"})
    /\ dedup' = [r \in Reqs |-> IF r = task[Key(p)].hash THEN None ELSE dedup[r]]
    /\ Done(p)
    /\ UNCHANGED <<task, queue, captask, captures, cache, created>>

DeleteTask(p) ==
    /\ Runs(p, {"del"})
    /\ task' = [task EXCEPT ![Key(p)] = NoTask]
    /\ Done(p)
    /\ UNCHANGED <<queue, dedup, captask, captures, cache, created>>

Command(p) ==
    \/ HsetTask(p) \/ ZaddQueue(p) \/ HsetDedup(p) \/ HsetCapTask(p) \/ ZaddCaptures(p)
    \/ ZaddCache(p) \/ RemoveCapture(p) \/ HdelDedup(p) \/ DeleteTask(p)

----------------------------------------------------------------------------
(***************************************************************************)
(* Clients: create_task, and the deletions Flask offers.                   *)
(***************************************************************************)
Free(p) == proc[p].todo = <<>>
Do(p, cmds) == proc' = [proc EXCEPT ![p].todo = cmds]

\* gen_uuid: no key mentions the task.
FreshTask(t) ==
    /\ task[t] = NoTask /\ queue[t] = None
    /\ \A r \in Reqs : dedup[r] # t
    /\ \A c \in Captures : captask[c] # t
    /\ \A p \in Procs : proc[p].task # t /\ \A k \in DOMAIN proc[p].todo : proc[p].todo[k].key # t

\* create_task.  A request whose hash is known is given the task it has: nothing
\* changes.
Create(p, r) ==
    /\ Free(p)
    /\ created < MaxCreates
    /\ dedup[r] = None
    /\ \E t \in Tasks :
          /\ FreshTask(t)
          /\ Do(p, CreateTask(t, r))
    /\ created' = created + 1
    /\ UNCHANGED <<task, queue, dedup, captask, captures, cache>>

ClientCreate(w, r) == r \notin Scheduled /\ Create(w, r)

\* CrawlerSchedule.delete, for the task of the schedule: process_queue gives it to the
\* schedule once it is created.
DeleteScheduled(w, t) ==
    /\ Free(w)
    /\ task[t].hash \in Scheduled
    /\ Cmd("queue", t, Prio[task[t].hash]) \notin {me.todo[k] : k \in DOMAIN me.todo}
    /\ Do(w, TaskDelete(t))
    /\ UNCHANGED <<task, queue, dedup, captask, captures, cache, created>>

\* delete_captures, one capture of the list it read.
DeleteCapture(w, c) ==
    /\ Free(w)
    /\ c \in captures
    /\ Do(w, CaptureDelete(c))
    /\ UNCHANGED <<task, queue, dedup, captask, captures, cache, created>>

----------------------------------------------------------------------------
(***************************************************************************)
(* The Crawler: get_message, then compute for a capture that is done.      *)
(***************************************************************************)
At(pc) == Free(Crawler) /\ me.pc = pc
GotoDo(pc, cmds) == proc' = [proc EXCEPT ![Crawler].pc = pc, ![Crawler].todo = cmds]
BackDo(cmds) == proc' = [proc EXCEPT ![Crawler].pc = "slots", ![Crawler].todo = cmds]
Die == proc' = [proc EXCEPT ![Crawler] = [Loop EXCEPT !.pc = "dead"]]
redis == <<task, queue, dedup, captask, captures, cache, created>>

\* CrawlerScheduler.process_queue: the task of a schedule whose time has come.
ProcessQueue(r) ==
    /\ At("slots")
    /\ r \in Scheduled
    /\ Create(Crawler, r)

\* Mutant: one capture too many.
MutantSlotsOffByOne ==
    /\ At("slots")
    /\ proc' = [proc EXCEPT ![Crawler] =
                  [Loop EXCEPT !.pc = IF Len(cache) <= MaxCaptures THEN "pop" ELSE "poll"]]
    /\ UNCHANGED redis

\* Check if a new capture can be launched.
CheckSlots ==
    /\ At("slots")
    /\ proc' = [proc EXCEPT ![Crawler] =
                  [Loop EXCEPT !.pc = IF Len(cache) < MaxCaptures THEN "pop" ELSE "poll"]]
    /\ UNCHANGED redis

\* Mutant: zpopmin, the least urgent task.
MutantPopMin ==
    /\ At("pop")
    /\ IF \A t \in Tasks : queue[t] = None
       THEN GotoDo("poll", <<>>) /\ UNCHANGED queue
       ELSE \E t \in Tasks :
              /\ queue[t] # None
              /\ \A u \in Tasks : queue[u] # None => queue[u] >= queue[t]
              /\ queue' = [queue EXCEPT ![t] = None]
              /\ proc' = [proc EXCEPT ![Crawler].pc = "filter", ![Crawler].task = t,
                                      ![Crawler].prio = queue[t]]
    /\ UNCHANGED <<task, dedup, captask, captures, cache, created>>

\* zpopmax(crawler:queue)
PopTask ==
    /\ At("pop")
    /\ IF \A t \in Tasks : queue[t] = None
       THEN GotoDo("poll", <<>>) /\ UNCHANGED queue
       ELSE \E t \in Tasks :
              /\ queue[t] # None
              /\ \A u \in Tasks : queue[u] # None => queue[u] <= queue[t]
              /\ queue' = [queue EXCEPT ![t] = None]
              /\ proc' = [proc EXCEPT ![Crawler].pc = "filter", ![Crawler].task = t,
                                      ![Crawler].prio = queue[t]]
    /\ UNCHANGED <<task, dedup, captask, captures, cache, created>>

\* The onion filter, when it is on, lets the task pass, refuses it, or cannot be
\* reached.  A task whose hash is gone has no domain: AttributeError.
FilterPass ==
    /\ At("filter")
    /\ IF task[me.task].domain THEN GotoDo("enqueue", <<Cmd("start", me.task, TRUE)>>) ELSE Die
    /\ UNCHANGED redis

FilterRefuse ==
    /\ At("filter")
    /\ task[me.task].domain
    /\ BackDo(TaskDelete(me.task))
    /\ UNCHANGED redis

FilterError ==
    /\ At("filter")
    /\ task[me.task].domain
    /\ BackDo(TaskReset(me.task))
    /\ UNCHANGED redis

FreshCapture(c) ==
    /\ c \notin captures /\ captask[c] = None
    /\ \A t \in Tasks : task[t].capture # c
    /\ \A k \in DOMAIN cache : cache[k] # c
    /\ \A p \in Procs : \A k \in DOMAIN proc[p].todo : proc[p].todo[k].key # c

\* lacus.enqueue, then create_capture.  Without force Lacus may answer with the
\* capture of an earlier request; create_capture drops a capture that exists.
EnqueueCapture ==
    /\ At("enqueue")
    /\ \E c \in Captures :
          \/ FreshCapture(c) /\ GotoDo("push", CreateCapture(c, me.task))
          \/ me.prio = 0 /\ captask[c] # None /\ GotoDo("push", <<>>)
    /\ UNCHANGED redis

\* Mutant: the error is logged and the task not put back.
MutantFailsForgets ==
    /\ At("enqueue")
    /\ BackDo(<<>>)
    /\ UNCHANGED redis

\* Lacus cannot be reached: ConnectionError.
EnqueueFails ==
    /\ At("enqueue")
    /\ BackDo(<<Cmd("queue", me.task, me.prio)>>)
    /\ UNCHANGED redis

\* A discovery is pushed to another AIL, inside the same try.
PushDiscovery ==
    /\ At("push")
    /\ \/ GotoDo("poll", <<>>)
       \/ /\ Discovery /\ me.prio < 10
          /\ BackDo(<<Cmd("queue", me.task, me.prio)>>)
    /\ UNCHANGED redis

\* Mutant: the capture is read (zrange) and not popped.
MutantPollPeeks ==
    /\ At("poll")
    /\ IF cache = <<>>
       THEN BackDo(<<>>)
       ELSE proc' = [proc EXCEPT ![Crawler] =
                       [Loop EXCEPT !.pc = "status", !.capture = Head(cache),
                                    !.task = captask[Head(cache)]]]
    /\ UNCHANGED redis

\* zpopmin(crawler:captures), in the cache
PollCapture ==
    /\ At("poll")
    /\ IF cache = <<>>
       THEN BackDo(<<>>) /\ UNCHANGED cache
       ELSE /\ cache' = Tail(cache)
            /\ proc' = [proc EXCEPT ![Crawler] =
                          [Loop EXCEPT !.pc = "status", !.capture = Head(cache),
                                       !.task = captask[Head(cache)]]]
    /\ UNCHANGED <<task, queue, dedup, captask, captures, created>>

\* What Lacus says of the capture: done; not yet (or no answer); unknown, of a task
\* that never started; unknown or queued for too long, or an invalid status.
CaptureDone ==
    /\ At("status")
    /\ GotoDo("compute", <<>>)
    /\ UNCHANGED redis

CaptureUpdate ==
    /\ At("status")
    /\ BackDo(<<Cmd("cacheAdd", me.capture, None)>>)
    /\ UNCHANGED redis

\* get_task returns None if the capture has no task, and get_start_time fails on it.
CaptureTask == captask[me.capture]

CaptureUnknown ==
    /\ At("status")
    /\ IF CaptureTask = None THEN Die
       ELSE /\ ~task[CaptureTask].start
            /\ BackDo(TaskDelete(CaptureTask) \o CaptureDelete(me.capture))
    /\ UNCHANGED redis

\* Mutant: the task is sent back and its capture kept.
MutantTimeoutKeepsCapture ==
    /\ At("status")
    /\ IF CaptureTask = None THEN Die ELSE BackDo(TaskReset(CaptureTask))
    /\ UNCHANGED redis

CaptureTimeout ==
    /\ At("status")
    /\ IF CaptureTask = None THEN Die
       ELSE BackDo(TaskReset(CaptureTask) \o CaptureDelete(me.capture))
    /\ UNCHANGED redis

\* compute saves the capture and removes its task.  Without task, or with a task
\* whose hash is gone, it raises, and the Crawler runs in debug mode.
Compute ==
    /\ At("compute")
    /\ IF CaptureTask # None /\ task[CaptureTask].domain
       THEN BackDo(TaskRemove(CaptureTask))
       ELSE Die
    /\ UNCHANGED redis

\* get_capture of Lacus, or the filter on a redirection, raises in compute: nothing
\* catches it, and the Crawler ends with the capture it popped.
ComputeFails ==
    /\ At("compute")
    /\ CaptureTask # None /\ task[CaptureTask].domain
    /\ GotoDo("dead", <<>>)
    /\ UNCHANGED redis

\* Mutant: the cache is not reloaded.
MutantNoReload ==
    /\ At("dead")
    /\ BackDo(<<>>)
    /\ UNCHANGED redis

\* The Crawler is started again: reload_crawler_captures, all with score 0, before
\* anything else (in one step: it only reads Kvrocks).
Restart ==
    /\ At("dead")
    /\ \E s \in [1..Cardinality(captures) -> captures] :
          /\ \A c \in captures : \E k \in DOMAIN s : s[k] = c
          /\ cache' = s
    /\ BackDo(<<>>)
    /\ UNCHANGED <<task, queue, dedup, captask, captures, created>>

Crash ==
    /\ me.pc # "dead"
    /\ Die
    /\ UNCHANGED redis

CrawlerStep ==
    \/ CheckSlots \/ PopTask \/ FilterPass \/ FilterRefuse \/ FilterError
    \/ EnqueueCapture \/ EnqueueFails \/ PushDiscovery \/ PollCapture
    \/ CaptureDone \/ CaptureUpdate \/ CaptureUnknown \/ CaptureTimeout
    \/ Compute \/ ComputeFails

Next ==
    \/ \E p \in Procs : Command(p)
    \/ \E r \in Reqs : ProcessQueue(r) \/ \E w \in Clients : ClientCreate(w, r)
    \/ CrawlerStep

Spec == Init /\ [][Next]_vars

\* With a Crawler that stops anywhere, and with an admin who deletes the captures.
CrashNext ==
    \/ Next \/ Crash \/ Restart
    \/ \E w \in Clients, c \in Captures : DeleteCapture(w, c)
CrashSpec == Init /\ [][CrashNext]_vars

\* With an admin who deletes schedules.
DeleteSpec == Init /\ [][Next \/ \E w \in Clients, t \in Tasks : DeleteScheduled(w, t)]_vars

(***************************************************************************)
(* Processes run.  The services around the Crawler are not down for good:  *)
(* a task that is filtered, enqueued or polled again and again is one day  *)
(* filtered, enqueued or done.  Nothing starts a Crawler that has ended.   *)
(***************************************************************************)
Fairness ==
    /\ \A p \in Procs : WF_vars(Command(p))
    /\ WF_vars(CrawlerStep)
    /\ \A t \in Tasks :
          /\ SF_vars(me.task = t /\ (FilterPass \/ FilterRefuse))
          /\ SF_vars(me.task = t /\ EnqueueCapture)
          /\ SF_vars(me.task = t /\ CaptureDone)

FairSpec == Spec /\ Fairness

----------------------------------------------------------------------------
(***************************************************************************)
(* Properties.                                                             *)
(***************************************************************************)
Commands ==
    [op : {"domain", "start"}, key : Tasks, val : BOOLEAN]
    \cup [op : {"hash"}, key : Tasks, val : Reqs]
    \cup [op : {"capture"}, key : Tasks, val : Captures]
    \cup [op : {"queue"}, key : Tasks, val : Nat \cup {None}]
    \cup [op : {"dedup"}, key : Reqs, val : Tasks]
    \cup [op : {"captask"}, key : Captures, val : Tasks \cup {None}]
    \cup [op : {"zadd", "zrem", "cacheAdd", "cacheRem"}, key : Captures, val : {None}]
    \cup [op : {"remove", "hdelDedup", "del"}, key : Tasks, val : {None}]

Locals ==
    [pc : {"slots", "pop", "filter", "enqueue", "push", "poll", "status", "compute", "dead"},
     task : Tasks \cup {None}, prio : Nat \cup {None}, capture : Captures \cup {None},
     todo : Seq(Commands)]

TypeOK ==
    /\ task \in [Tasks -> [domain : BOOLEAN, hash : Reqs \cup {None}, start : BOOLEAN,
                           capture : Captures \cup {None}]]
    /\ queue \in [Tasks -> Nat \cup {None}]
    /\ dedup \in [Reqs -> Tasks \cup {None}]
    /\ captask \in [Captures -> Tasks \cup {None}]
    /\ captures \subseteq Captures
    /\ cache \in Seq(Captures)
    /\ proc \in [Procs -> Locals]
    /\ created \in 0..MaxCreates

InCache(c) == \E k \in DOMAIN cache : cache[k] = c
Pending(p, op, key) ==
    \E k \in DOMAIN proc[p].todo : proc[p].todo[k].op = op /\ proc[p].todo[k].key = key

\* A process is about to put the task in the queue or in a capture, or to remove it.
InHand(t) ==
    \/ \E p \in Procs : \E k \in DOMAIN proc[p].todo :
          \/ proc[p].todo[k].key = t \/ proc[p].todo[k].val = t
          \/ proc[p].todo[k].op = "zadd" /\ captask[proc[p].todo[k].key] = t
    \/ me.task = t /\ me.pc \in {"filter", "enqueue"}

\* No task is lost: a task that exists (and whose request is refused to others) is
\* queued, or is the task of a capture that a restart would find, or is in hand.
NoTaskLost ==
    \A t \in Tasks : task[t].domain =>
        queue[t] # None \/ InHand(t) \/ (\E c \in captures : captask[c] = t)

\* Every capture is polled again: the ones of Kvrocks are in the cache or in hand.
Polled(c) ==
    \/ InCache(c)
    \/ me.capture = c /\ me.pc \in {"status", "compute"}
    \/ \E p \in Procs :
          \/ Pending(p, "cacheAdd", c)
          \/ Pending(p, "zrem", c)
          \/ \E t \in Tasks : Pending(p, "remove", t) /\ task[t].capture = c
    \/ me.pc = "dead"
CapturesPolled == \A c \in captures : Polled(c)

\* The task of the capture has a later capture, or is gone: a Crawler that stopped
\* while it reset the task left the capture, and whatever ends the task ends the
\* later one.  Then, and only then, a capture may stay in Kvrocks unpolled.
Replaced(c) == captask[c] # None /\ task[captask[c]].capture # c
PolledOrReplaced == \A c \in captures : Polled(c) \/ Replaced(c)

\* The Crawler ends in compute only, by an error of Lacus or of the filter, never on a
\* capture without task nor on a task without hash; and the capture it had popped is still
\* in Kvrocks, with its task, for the next start to find.
CrawlerEnds ==
    me.pc = "dead" =>
        /\ me.capture \in captures /\ me.task \in Tasks
        /\ captask[me.capture] = me.task /\ task[me.task].domain

\* No more captures than the limit, whatever is popped and put back.
Held == IF me.pc \in {"status", "compute"} \/ \E c \in Captures : Pending(Crawler, "cacheAdd", c)
        THEN 1 ELSE 0
SlotLimit == Len(cache) + Held <= MaxCaptures

\* A task is in Lacus once: no two captures have the same task, and a task is queued
\* again only by a Crawler that is about to forget its capture.
OneCapture ==
    \A c \in captures : captask[c] # None =>
        /\ \A d \in captures : captask[d] = captask[c] => d = c
        /\ queue[captask[c]] # None => Pending(Crawler, "zrem", c)

\* A request is refused only for a task that exists.
DedupHasTask == \A r \in Reqs : dedup[r] # None => task[dedup[r]].domain

\* The task and the capture records are written and removed in an order that a
\* stop of the Crawler respects: what reload_crawler_captures finds has a task.
CapturesHaveTask == \A c \in captures : captask[c] # None

\* CrawlerTask.remove: "zrem cache + DB".  Once no removal is pending, no capture
\* without task is left for the Crawler to poll.
RemovedFromCache ==
    (\A p \in Procs : proc[p].todo = <<>>) => \A c \in Captures : InCache(c) => captask[c] # None

\* The tasks live as TaskLife has it: a task waits from the moment it has a score, is
\* with Lacus while its capture is in Kvrocks and it does not wait, and is in the hand of
\* the Crawler that popped or polled it while it is in neither.
Open == {t \in Tasks : task[t].domain}
WithLacus == {t \in Tasks : queue[t] = None /\ \E c \in captures : captask[c] = t}
Hand == IF me.task \in Open \ WithLacus /\ queue[me.task] = None THEN me.task ELSE None

Life == INSTANCE TaskLife
    WITH Slots <- MaxCaptures, open <- Open, waiting <- queue, hand <- Hand, lacus <- WithLacus

LifeSpec == Life!Spec

\* Whoever asked for the URL may ask again one day: the task of a request ends, or the
\* Crawler did, in compute (then the request is refused until someone starts it again).
TasksEnd == \A r \in Reqs : dedup[r] # None ~> dedup[r] = None \/ me.pc = "dead"
=============================================================================
