--------------------------- MODULE CrawlerSchedules ---------------------------
(***************************************************************************)
(* The schedules of the crawler: lib/crawlers.py (CrawlerScheduler and     *)
(* CrawlerSchedule).                                                       *)
(*                                                                         *)
(* A schedule waits in scheduler:queue for the time of its next run, is    *)
(* given a task when that has come, and waits again once the task has      *)
(* ended.  The Crawler does all of this, at the start of every loop, from  *)
(* what it reads of a schedule command by command, while Flask creates and *)
(* deletes schedules.  The life of a task is CrawlerTasks; here a task is  *)
(* what its request is mapped to, and ends in one step.                    *)
(*                                                                         *)
(*   schedules  set   scheduler:schedules                                  *)
(*   hash[s]    hash  schedule:<s>: the fields written by create() (meta), *)
(*                    and the last task                                    *)
(*   squeue     zset  scheduler:queue, in the order of the scores, of      *)
(*                    which the first due are not later than now           *)
(*   dedup[r]   hash  crawler:queue:hash: the task of a request; a task    *)
(*                    exists as long as it is there                        *)
(***************************************************************************)
EXTENDS Naturals, Sequences, FiniteSets, SequencesExt

CONSTANTS
    Scheds,     \* uuids of schedules
    Tasks,      \* uuids of tasks
    Reqs,       \* requests, as get_task_hash tells them apart
    ReqOf,      \* the request of each schedule
    None,       \* no value
    MaxCreates  \* bound: schedules created

ASSUME SchedulesAssumption ==
    /\ ReqOf \in [Scheds -> Reqs]
    /\ None \notin Scheds \cup Tasks \cup Reqs
    /\ MaxCreates \in Nat

VARIABLES
    schedules, hash, squeue, due, dedup,
    crawler,   \* where the Crawler is, and its local variables
    flask,     \* the commands that Flask has still to send
    made,      \* schedules created so far
    raced      \* history: schedules queued by update_queue after their deletion began

vars == <<schedules, hash, squeue, due, dedup, crawler, flask, made, raced>>

NoHash == [meta |-> FALSE, task |-> None]
Loop == [pc |-> "loop", todo |-> <<>>, s |-> None, t |-> None]

Init ==
    /\ schedules = {} /\ squeue = <<>> /\ due = 0
    /\ hash = [s \in Scheds |-> NoHash]
    /\ dedup = [r \in Reqs |-> None]
    /\ crawler = Loop
    /\ flask = <<>>
    /\ made = 0 /\ raced = {}

ExistsTask(t) == \E r \in Reqs : t # None /\ dedup[r] = t
IsTasked(s) == ExistsTask(hash[s].task)
IsScheduled(s) == s \in Range(squeue)
Exists(s) == hash[s] # NoHash

\* zrem(scheduler:queue).  Mutant: as if it were due later.
MutantUnqueue(s) ==
    IF IsScheduled(s)
    THEN squeue' = SelectSeq(squeue, LAMBDA x : x # s) /\ UNCHANGED due
    ELSE UNCHANGED <<squeue, due>>
Unqueue(s) ==
    IF IsScheduled(s)
    THEN LET k == CHOOSE i \in DOMAIN squeue : squeue[i] = s
         IN  /\ squeue' = RemoveAt(squeue, k)
             /\ due' = IF k <= due THEN due - 1 ELSE due
    ELSE UNCHANGED <<squeue, due>>

----------------------------------------------------------------------------
(***************************************************************************)
(* Flask: the operations, and one action per command.                      *)
(***************************************************************************)
Cmd(op, s) == [op |-> op, s |-> s]

\* gen_uuid: nothing mentions the schedule.
FreshSchedule(s) == ~Exists(s) /\ ~IsScheduled(s) /\ crawler.s # s /\ s \notin Range(crawler.todo)

\* create_schedule: the set of schedules comes last, and nobody looks before.
CreateSchedule(s) ==
    /\ flask = <<>> /\ made < MaxCreates
    /\ FreshSchedule(s) /\ s \notin schedules
    /\ flask' = <<Cmd("meta", s), Cmd("sadd", s)>>
    /\ made' = made + 1
    /\ UNCHANGED <<schedules, hash, squeue, due, dedup, crawler, raced>>

\* api_delete_schedule.  Mutant: the entry of the queue is forgotten.
MutantDeleteSchedule(s) ==
    /\ flask = <<>>
    /\ Exists(s)
    /\ flask' = <<Cmd("task", s), Cmd("del", s), Cmd("srem", s)>>
    /\ UNCHANGED <<schedules, hash, squeue, due, dedup, crawler, made, raced>>
DeleteSchedule(s) ==
    /\ flask = <<>>
    /\ Exists(s)
    /\ flask' = <<Cmd("zrem", s), Cmd("task", s), Cmd("del", s), Cmd("srem", s)>>
    /\ UNCHANGED <<schedules, hash, squeue, due, dedup, crawler, made, raced>>

Sends(op) == flask # <<>> /\ Head(flask).op = op /\ flask' = Tail(flask)
key == Head(flask).s
Deleting(s) == \E k \in DOMAIN flask : flask[k].s = s /\ flask[k].op \in {"task", "del", "srem"}

HsetMeta ==
    /\ Sends("meta")
    /\ hash' = [hash EXCEPT ![key].meta = TRUE]
    /\ UNCHANGED <<schedules, squeue, due, dedup, crawler, made, raced>>

SaddSchedule ==
    /\ Sends("sadd")
    /\ schedules' = schedules \cup {key}
    /\ UNCHANGED <<hash, squeue, due, dedup, crawler, made, raced>>

ZremQueue ==
    /\ Sends("zrem")
    /\ Unqueue(key)
    /\ UNCHANGED <<schedules, hash, dedup, crawler, made, raced>>

\* get_task, and task.delete if there is one.
DeleteTask ==
    /\ Sends("task")
    /\ dedup' = [r \in Reqs |-> IF dedup[r] = hash[key].task THEN None ELSE dedup[r]]
    /\ UNCHANGED <<schedules, hash, squeue, due, crawler, made, raced>>

DelHash ==
    /\ Sends("del")
    /\ hash' = [hash EXCEPT ![key] = NoHash]
    /\ UNCHANGED <<schedules, squeue, due, dedup, crawler, made, raced>>

SremSchedule ==
    /\ Sends("srem")
    /\ schedules' = schedules \ {key}
    /\ UNCHANGED <<hash, squeue, due, dedup, crawler, made, raced>>

FlaskCommand == HsetMeta \/ SaddSchedule \/ ZremQueue \/ DeleteTask \/ DelHash \/ SremSchedule

User == \E s \in Scheds : CreateSchedule(s) \/ DeleteSchedule(s)

----------------------------------------------------------------------------
(***************************************************************************)
(* The Crawler: update_queue, process_queue, and the end of the tasks in   *)
(* the rest of its loop.                                                   *)
(***************************************************************************)
At(pc) == crawler.pc = pc
Goto(pc) == crawler' = [crawler EXCEPT !.pc = pc]
Die == crawler' = [Loop EXCEPT !.pc = "dead"]

StartUpdate ==
    /\ At("loop")
    /\ crawler' = [Loop EXCEPT !.pc = "update", !.todo = SetToSeq(schedules)]
    /\ UNCHANGED <<schedules, hash, squeue, due, dedup, flask, made, raced>>

\* is_scheduled
UpdateNext ==
    /\ At("update")
    /\ IF crawler.todo = <<>> THEN Goto("due")
       ELSE LET s == Head(crawler.todo)
            IN  crawler' = [crawler EXCEPT !.pc = IF IsScheduled(s) THEN "update" ELSE "tasked",
                                           !.s = s, !.todo = Tail(@)]
    /\ UNCHANGED <<schedules, hash, squeue, due, dedup, flask, made, raced>>

\* is_tasked forgets a task that has ended.  Mutant: a task is one that was given once.
MutantUpdateTasked ==
    /\ At("tasked")
    /\ Goto(IF hash[crawler.s].task # None THEN "update" ELSE "frequency")
    /\ UNCHANGED <<schedules, hash, squeue, due, dedup, flask, made, raced>>
UpdateTasked ==
    /\ At("tasked")
    /\ IF IsTasked(crawler.s) THEN Goto("update") /\ UNCHANGED hash
       ELSE Goto("frequency") /\ hash' = [hash EXCEPT ![crawler.s].task = None]
    /\ UNCHANGED <<schedules, squeue, due, dedup, flask, made, raced>>

\* The frequency of a schedule that has just been deleted is None: AttributeError.
GetFrequency ==
    /\ At("frequency")
    /\ IF hash[crawler.s].meta THEN Goto("zadd") ELSE Die
    /\ UNCHANGED <<schedules, hash, squeue, due, dedup, flask, made, raced>>

\* zadd, after everything that is due.
SetNextRun ==
    /\ At("zadd")
    /\ \E k \in due .. Len(squeue) : squeue' = InsertAt(squeue, k + 1, crawler.s)
    /\ raced' = IF Deleting(crawler.s) \/ ~Exists(crawler.s) THEN raced \cup {crawler.s} ELSE raced
    /\ Goto("update")
    /\ UNCHANGED <<schedules, hash, due, dedup, flask, made>>

StartProcess ==
    /\ At("due")
    /\ crawler' = [Loop EXCEPT !.pc = "process", !.todo = SubSeq(squeue, 1, due)]
    /\ UNCHANGED <<schedules, hash, squeue, due, dedup, flask, made, raced>>

\* A schedule that does not exist ends the pass, and stays first in the queue.
ProcessNext ==
    /\ At("process")
    /\ crawler' = IF crawler.todo = <<>> \/ ~Exists(Head(crawler.todo)) THEN [Loop EXCEPT !.pc = "rest"]
                  ELSE [crawler EXCEPT !.pc = "meta", !.s = Head(crawler.todo), !.todo = Tail(@)]
    /\ UNCHANGED <<schedules, hash, squeue, due, dedup, flask, made, raced>>

\* Without url create_task raises.
GetMeta ==
    /\ At("meta")
    /\ IF hash[crawler.s].meta THEN Goto("create") ELSE Die
    /\ UNCHANGED <<schedules, hash, squeue, due, dedup, flask, made, raced>>

FreshTask(t) == ~ExistsTask(t) /\ \A s \in Scheds : hash[s].task # t

\* create_task: the task that the request has, or a new one.
CreateTask ==
    /\ At("create")
    /\ LET r == ReqOf[crawler.s]
       IN  \E t \in Tasks :
            /\ IF dedup[r] = None THEN FreshTask(t) ELSE t = dedup[r]
            /\ dedup' = [dedup EXCEPT ![r] = t]
            /\ crawler' = [crawler EXCEPT !.pc = "set", !.t = t]
    /\ UNCHANGED <<schedules, hash, squeue, due, flask, made, raced>>

\* set_task, which makes a hash for a schedule that is gone by now.
SetTask ==
    /\ At("set")
    /\ hash' = [hash EXCEPT ![crawler.s].task = crawler.t]
    /\ Goto("zrem")
    /\ UNCHANGED <<schedules, squeue, due, dedup, flask, made, raced>>

\* Mutant: the schedule stays in the queue and is run again and again.
MutantDequeue ==
    /\ At("zrem")
    /\ Goto("process")
    /\ UNCHANGED <<schedules, hash, squeue, due, dedup, flask, made, raced>>
Dequeue ==
    /\ At("zrem")
    /\ Unqueue(crawler.s)
    /\ Goto("process")
    /\ UNCHANGED <<schedules, hash, dedup, flask, made, raced>>

\* The rest of the loop: a capture that is done ends its task.
EndTask ==
    /\ At("rest")
    /\ \E r \in Reqs : dedup[r] # None /\ dedup' = [dedup EXCEPT ![r] = None]
    /\ UNCHANGED <<schedules, hash, squeue, due, crawler, flask, made, raced>>

Rest == At("rest") /\ Goto("loop")
        /\ UNCHANGED <<schedules, hash, squeue, due, dedup, flask, made, raced>>

CrawlerStep ==
    StartUpdate \/ UpdateNext \/ UpdateTasked \/ GetFrequency \/ SetNextRun \/ StartProcess
    \/ ProcessNext \/ GetMeta \/ CreateTask \/ SetTask \/ Dequeue \/ Rest

\* Time: the next run of s has come, and that of the schedules before it.
Tick(s) ==
    /\ \E k \in due + 1 .. Len(squeue) : squeue[k] = s /\ due' = k
    /\ UNCHANGED <<schedules, hash, squeue, dedup, crawler, flask, made, raced>>

Next == User \/ FlaskCommand \/ CrawlerStep \/ EndTask \/ \E s \in Scheds : Tick(s)

Spec == Init /\ [][Next]_vars

\* The loop goes on, Flask finishes what it has begun, and time passes.  No task has to end.
FairSpec ==
    Spec /\ WF_vars(CrawlerStep) /\ WF_vars(FlaskCommand) /\ \A s \in Scheds : WF_vars(Tick(s))

----------------------------------------------------------------------------
(***************************************************************************)
(* Properties.                                                             *)
(***************************************************************************)
\* Where the Crawler works on the schedule that it has read last.
OnSchedule == {"tasked", "frequency", "zadd", "meta", "create", "set", "zrem"}
PC == OnSchedule \cup {"loop", "update", "due", "process", "rest", "dead"}

TypeOK ==
    /\ schedules \subseteq Scheds /\ raced \subseteq Scheds
    /\ hash \in [Scheds -> [meta : BOOLEAN, task : Tasks \cup {None}]]
    /\ squeue \in Seq(Scheds) /\ due \in 0 .. Len(squeue)
    /\ dedup \in [Reqs -> Tasks \cup {None}]
    /\ crawler \in [pc : PC, todo : Seq(Scheds), s : Scheds \cup {None}, t : Tasks \cup {None}]
    /\ crawler.pc \in OnSchedule => crawler.s \in Scheds
    /\ flask \in Seq([op : {"meta", "sadd", "zrem", "task", "del", "srem"}, s : Scheds])
    /\ made \in 0 .. MaxCreates

\* A schedule waits for its next run only when its last task has ended, and waits once:
\* update_queue and process_queue, which read the queue and the task at different times, do
\* not run a schedule that is running.
WaitsOrRuns ==
    /\ \A i, j \in DOMAIN squeue : squeue[i] = squeue[j] => i = j
    /\ \A s \in Scheds : IsScheduled(s) /\ IsTasked(s) => crawler.s = s /\ At("zrem")

\* An entry of the queue whose schedule is gone stops process_queue for good: there is one
\* only if update_queue added it while the schedule was being deleted.
Stale == {s \in Range(squeue) : ~Exists(s)}
StaleOnlyRaced == Stale \subseteq raced

\* A schedule runs again and again: there is always a later time at which it has a task,
\* unless it is deleted, or the Crawler has stopped at one that was deleted.
ScheduleRuns ==
    \A s \in Scheds : s \in schedules ~> IsTasked(s) \/ s \notin schedules \/ Stale # {} \/ At("dead")
=============================================================================
