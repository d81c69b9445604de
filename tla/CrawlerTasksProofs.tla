------------------------ MODULE CrawlerTasksProofs ------------------------
(***************************************************************************)
(* Proofs about CrawlerTasks, for any tasks, captures, requests, clients   *)
(* and limits.                                                             *)
(***************************************************************************)
EXTENDS CrawlerTasks, FiniteSetTheorems, SequenceTheorems, TLAPS

Todo(p) == proc[p].todo

----------------------------------------------------------------------------
(***************************************************************************)
(* Sequences: the programs, what is left of them, an entry removed.        *)
(***************************************************************************)
LEMMA RemoveAtProperties ==
  ASSUME NEW S, NEW q \in Seq(S), NEW k \in 1 .. Len(q)
  PROVE  /\ RemoveAt(q, k) \in Seq(S)
         /\ Len(RemoveAt(q, k)) = Len(q) - 1
         /\ \A i \in 1 .. Len(q) - 1 : RemoveAt(q, k)[i] = IF i < k THEN q[i] ELSE q[i + 1]
<1> DEFINE before == SubSeq(q, 1, k - 1)
           after == SubSeq(q, k + 1, Len(q))
<1>1. Len(q) \in Nat /\ k \in Nat
  BY LenProperties
<1>2. /\ before \in Seq(S) /\ Len(before) = k - 1
      /\ \A i \in 1 .. k - 1 : before[i] = q[i]
  <2>1. \A i \in 1 .. k - 1 : q[i] \in S
    BY <1>1, ElementOfSeq
  <2> QED
    BY <1>1, <2>1, SubSeqProperties
<1>3. /\ after \in Seq(S) /\ Len(after) = Len(q) - k
      /\ \A i \in 1 .. Len(q) - k : after[i] = q[k + i]
  <2>1. \A i \in k + 1 .. Len(q) : q[i] \in S
    BY <1>1, ElementOfSeq
  <2> QED
    BY <1>1, <2>1, SubSeqProperties
<1>4. RemoveAt(q, k) = before \o after
  BY DEF RemoveAt
<1> HIDE DEF before, after
<1>5. /\ before \o after \in Seq(S) /\ Len(before \o after) = Len(before) + Len(after)
      /\ \A i \in 1 .. Len(before) + Len(after) :
            (before \o after)[i] = IF i <= Len(before) THEN before[i] ELSE after[i - Len(before)]
  BY <1>2, <1>3, ConcatProperties, Zenon
<1> DEFINE r == before \o after
<1>6. Len(r) = Len(q) - 1
  BY <1>1, <1>2, <1>3, <1>5
<1> HIDE DEF r
<1>7. \A i \in 1 .. Len(q) - 1 : r[i] = IF i < k THEN q[i] ELSE q[i + 1]
  <2> SUFFICES ASSUME NEW i \in 1 .. Len(q) - 1
               PROVE  r[i] = IF i < k THEN q[i] ELSE q[i + 1]
    OBVIOUS
  <2>1. r[i] = IF i <= k - 1 THEN before[i] ELSE after[i - (k - 1)]
    BY <1>1, <1>2, <1>3, <1>5 DEF r
  <2>2. CASE i < k
    BY <1>1, <1>2, <2>1, <2>2
  <2>3. CASE ~(i < k)
    <3>1. i - (k - 1) \in 1 .. Len(q) - k /\ k + (i - (k - 1)) = i + 1 /\ ~(i <= k - 1)
      BY <1>1, <2>3
    <3> QED
      BY <1>3, <2>1, <2>3, <3>1
  <2> QED
    BY <2>2, <2>3
<1> QED
  BY <1>4, <1>5, <1>6, <1>7 DEF r

LEMMA Joined ==
  ASSUME NEW S, NEW x \in Seq(S), NEW y \in Seq(S)
  PROVE  /\ x \o y \in Seq(S) /\ Len(x \o y) = Len(x) + Len(y)
         /\ DOMAIN (x \o y) = 1 .. Len(x) + Len(y)
         /\ \A k \in 1 .. Len(x) : (x \o y)[k] = x[k]
         /\ \A k \in 1 .. Len(y) : (x \o y)[Len(x) + k] = y[k]
<1>1. /\ x \o y \in Seq(S) /\ Len(x \o y) = Len(x) + Len(y)
      /\ \A k \in 1 .. Len(x) + Len(y) : (x \o y)[k] = IF k <= Len(x) THEN x[k] ELSE y[k - Len(x)]
  BY ConcatProperties, Zenon
<1>2. Len(x) \in Nat /\ Len(y) \in Nat
  BY LenProperties
<1> DEFINE w == x \o y
<1> HIDE DEF w
<1>3. /\ w \in Seq(S) /\ Len(w) = Len(x) + Len(y)
      /\ \A k \in 1 .. Len(x) + Len(y) : w[k] = IF k <= Len(x) THEN x[k] ELSE y[k - Len(x)]
  BY <1>1 DEF w
<1>4. DOMAIN w = 1 .. Len(x) + Len(y)
  BY <1>2, <1>3
<1>5. \A k \in 1 .. Len(x) : w[k] = x[k]
  BY <1>2, <1>3
<1>6. \A k \in 1 .. Len(y) : w[Len(x) + k] = y[k]
  BY <1>2, <1>3
<1> QED
  BY <1>3, <1>4, <1>5, <1>6 DEF w

LEMMA JoinedPairs ==
  ASSUME NEW S, NEW a \in S, NEW b \in S, NEW c \in S, NEW d \in S
  PROVE  /\ Len(<<a, b>> \o <<c, d>>) = 4
         /\ (<<a, b>> \o <<c, d>>)[1] = a /\ (<<a, b>> \o <<c, d>>)[2] = b
         /\ (<<a, b>> \o <<c, d>>)[3] = c /\ (<<a, b>> \o <<c, d>>)[4] = d
<1>1. PICK x \in Seq(S) : x = <<a, b>>
  <2>1. <<a, b>> \in Seq(S)
    OBVIOUS
  <2> QED
    BY <2>1, Zenon
<1>2. PICK y \in Seq(S) : y = <<c, d>>
  <2>1. <<c, d>> \in Seq(S)
    OBVIOUS
  <2> QED
    BY <2>1, Zenon
<1>3. /\ Len(x \o y) = Len(x) + Len(y)
      /\ \A k \in 1 .. Len(x) : (x \o y)[k] = x[k]
      /\ \A k \in 1 .. Len(y) : (x \o y)[Len(x) + k] = y[k]
  BY Joined
<1>0. /\ Len(x) = 2 /\ x[1] = a /\ x[2] = b
      /\ Len(y) = 2 /\ y[1] = c /\ y[2] = d
  BY <1>1, <1>2
<1> DEFINE w == x \o y
<1> HIDE DEF w
<1>4. /\ Len(w) = 4 /\ \A k \in 1 .. 2 : w[k] = x[k]
      /\ \A k \in 1 .. 2 : w[2 + k] = y[k]
  BY <1>0, <1>3 DEF w
<1>5. w[1] = x[1] /\ w[2] = x[2] /\ w[3] = y[1] /\ w[4] = y[2]
  <2>1. 2 + 1 = 3 /\ 2 + 2 = 4 /\ 1 \in 1 .. 2 /\ 2 \in 1 .. 2
    OBVIOUS
  <2> QED
    BY <1>4, <2>1
<1> QED
  BY <1>0, <1>1, <1>2, <1>4, <1>5 DEF w

\* What zrem leaves of a sorted set: every other member, and nothing new.
LEMMA WithoutProperties ==
  ASSUME NEW S, NEW q \in Seq(S), NEW c
  PROVE  /\ Without(q, c) \in Seq(S)
         /\ Len(Without(q, c)) <= Len(q)
         /\ \A k \in DOMAIN Without(q, c) : \E j \in DOMAIN q : Without(q, c)[k] = q[j]
         /\ \A j \in DOMAIN q : q[j] # c => \E k \in DOMAIN Without(q, c) : Without(q, c)[k] = q[j]
<1>1. Len(q) \in Nat /\ DOMAIN q = 1 .. Len(q)
  BY LenProperties
<1>2. CASE \E k \in DOMAIN q : q[k] = c
  <2> DEFINE m == CHOOSE k \in DOMAIN q : q[k] = c
             r == RemoveAt(q, m)
  <2>1. m \in 1 .. Len(q) /\ q[m] = c
    BY <1>1, <1>2
  <2>2. Without(q, c) = r
    BY <1>2 DEF Without
  <2> HIDE DEF m
  <2>3. /\ r \in Seq(S) /\ Len(r) = Len(q) - 1
        /\ \A i \in 1 .. Len(q) - 1 : r[i] = IF i < m THEN q[i] ELSE q[i + 1]
    BY <2>1, RemoveAtProperties
  <2> HIDE DEF r
  <2>4. DOMAIN r = 1 .. Len(q) - 1
    BY <2>3, LenProperties, <1>1
  <2>5. \A k \in DOMAIN r : \E j \in DOMAIN q : r[k] = q[j]
    BY <1>1, <2>3, <2>4
  <2>6. \A j \in DOMAIN q : q[j] # c => \E k \in DOMAIN r : r[k] = q[j]
    <3> SUFFICES ASSUME NEW j \in DOMAIN q, q[j] # c
                 PROVE  \E k \in DOMAIN r : r[k] = q[j]
      OBVIOUS
    <3>1. CASE j < m
      BY <1>1, <2>1, <2>3, <2>4, <3>1
    <3>2. CASE j > m
      <4>1. j - 1 \in DOMAIN r /\ r[j - 1] = q[j]
        BY <1>1, <2>1, <2>3, <2>4, <3>2
      <4> QED
        BY <4>1
    <3> QED
      BY <1>1, <2>1, <3>1, <3>2
  <2> QED
    BY <1>1, <2>2, <2>3, <2>5, <2>6
<1>3. CASE ~ \E k \in DOMAIN q : q[k] = c
  BY <1>1, <1>3 DEF Without
<1> QED
  BY <1>2, <1>3

----------------------------------------------------------------------------
(***************************************************************************)
(* Types.  Between two commands every process holds commands of the right  *)
(* types, and the Crawler the task or the capture it is busy with.         *)
(***************************************************************************)
LocalsOK ==
    /\ \A p \in Procs : Todo(p) # <<>> => proc[p].pc \in {"slots", "enqueue", "push"}
    /\ \A p \in Clients : proc[p].pc = "slots"
    /\ me.pc \in {"filter", "enqueue", "push"} => me.task \in Tasks
    /\ me.pc \in {"filter", "enqueue"} => me.prio \in Nat
    /\ me.pc \in {"status", "compute"} => me.capture \in Captures
    /\ IsFiniteSet(captures)

Base == TypeOK /\ LocalsOK

LEMMA ProcsFacts == Crawler \in Procs /\ Clients \subseteq Procs /\ Clients = Procs \ {Crawler}
BY CrawlerAssumption DEF Procs

LEMMA LocalsFacts ==
  ASSUME proc \in [Procs -> Locals], NEW p \in Procs
  PROVE  /\ Todo(p) \in Seq(Commands) /\ Len(Todo(p)) \in Nat /\ DOMAIN Todo(p) = 1 .. Len(Todo(p))
         /\ \A k \in DOMAIN Todo(p) : Todo(p)[k] \in Commands
         /\ Todo(p) # <<>> => 1 \in DOMAIN Todo(p) /\ Head(Todo(p)) = Todo(p)[1]
         /\ proc[p].task \in Tasks \cup {None} /\ proc[p].prio \in Nat \cup {None}
         /\ proc[p].capture \in Captures \cup {None}
         /\ proc[p].pc \in {"slots", "pop", "filter", "enqueue", "push", "poll", "status",
                            "compute", "dead"}
<1>1. proc[p] \in Locals
  OBVIOUS
<1>2. /\ Todo(p) \in Seq(Commands)
      /\ proc[p].task \in Tasks \cup {None} /\ proc[p].prio \in Nat \cup {None}
      /\ proc[p].capture \in Captures \cup {None}
      /\ proc[p].pc \in {"slots", "pop", "filter", "enqueue", "push", "poll", "status",
                         "compute", "dead"}
  BY <1>1 DEF Locals, Todo
<1>3. Len(Todo(p)) \in Nat /\ DOMAIN Todo(p) = 1 .. Len(Todo(p))
  BY <1>2, LenProperties
<1>4. \A k \in DOMAIN Todo(p) : Todo(p)[k] \in Commands
  BY <1>2, <1>3, ElementOfSeq
<1>5. Todo(p) # <<>> => 1 \in DOMAIN Todo(p) /\ Head(Todo(p)) = Todo(p)[1]
  BY <1>2, <1>3
<1> QED
  BY <1>2, <1>3, <1>4, <1>5

\* The types of a command's key and value.
LEMMA CommandTypes ==
  ASSUME NEW x \in Commands
  PROVE  /\ x.op \in {"domain", "start"} => x.key \in Tasks /\ x.val \in BOOLEAN
         /\ x.op = "hash" => x.key \in Tasks /\ x.val \in Reqs
         /\ x.op = "capture" => x.key \in Tasks /\ x.val \in Captures
         /\ x.op = "queue" => x.key \in Tasks /\ x.val \in Nat \cup {None}
         /\ x.op = "dedup" => x.key \in Reqs /\ x.val \in Tasks
         /\ x.op = "captask" => x.key \in Captures /\ x.val \in Tasks \cup {None}
         /\ x.op \in {"zadd", "zrem", "cacheAdd", "cacheRem"} => x.key \in Captures
         /\ x.op \in {"remove", "hdelDedup", "del"} => x.key \in Tasks
BY DEF Commands

LEMMA CommandsTyped ==
  /\ \A t \in Tasks :
        /\ \A b \in BOOLEAN : Cmd("domain", t, b) \in Commands /\ Cmd("start", t, b) \in Commands
        /\ \A r \in Reqs : Cmd("hash", t, r) \in Commands /\ Cmd("dedup", r, t) \in Commands
        /\ \A c \in Captures : Cmd("capture", t, c) \in Commands /\ Cmd("captask", c, t) \in Commands
        /\ \A v \in Nat \cup {None} : Cmd("queue", t, v) \in Commands
        /\ \A op \in {"remove", "hdelDedup", "del"} : Cmd(op, t, None) \in Commands
  /\ \A c \in Captures :
        /\ Cmd("captask", c, None) \in Commands
        /\ \A op \in {"zadd", "zrem", "cacheAdd", "cacheRem"} : Cmd(op, c, None) \in Commands
BY DEF Cmd, Commands

LEMMA CmdFields == \A op, key, val : /\ Cmd(op, key, val).op = op /\ Cmd(op, key, val).key = key
                                     /\ Cmd(op, key, val).val = val
BY DEF Cmd

LEMMA TuplesTyped ==
  ASSUME NEW S
  PROVE  /\ <<>> \in Seq(S)
         /\ \A a \in S : <<a>> \in Seq(S)
         /\ \A a, b \in S : <<a, b>> \in Seq(S)
         /\ \A a, b, c \in S : <<a, b, c>> \in Seq(S)
         /\ \A a, b, c, d \in S : <<a, b, c, d>> \in Seq(S)
OBVIOUS

\* The programs are sequences of commands.
LEMMA ProgramsTyped ==
  /\ <<>> \in Seq(Commands)
  /\ \A t \in Tasks :
        /\ \A r \in Reqs : CreateTask(t, r) \in Seq(Commands)
        /\ \A c \in Captures : CreateCapture(c, t) \in Seq(Commands)
        /\ \A b \in BOOLEAN : <<Cmd("start", t, b)>> \in Seq(Commands)
        /\ \A v \in Nat \cup {None} : <<Cmd("queue", t, v)>> \in Seq(Commands)
        /\ TaskRemove(t) \in Seq(Commands) /\ TaskDelete(t) \in Seq(Commands)
        /\ TaskReset(t) \in Seq(Commands)
  /\ \A c \in Captures :
        /\ <<Cmd("cacheAdd", c, None)>> \in Seq(Commands)
        /\ CaptureRemove(c) \in Seq(Commands) /\ CaptureDelete(c) \in Seq(Commands)
<1>1. \A r \in Reqs : Prio[r] \in Nat
  BY CrawlerAssumption
<1>2. \A t \in Tasks, r \in Reqs : CreateTask(t, r) \in Seq(Commands)
  <2> TAKE t \in Tasks, r \in Reqs
  <2>1. /\ Cmd("domain", t, TRUE) \in Commands /\ Cmd("dedup", r, t) \in Commands
        /\ Cmd("hash", t, r) \in Commands /\ Cmd("queue", t, Prio[r]) \in Commands
    BY <1>1, CommandsTyped
  <2> QED
    BY <2>1, TuplesTyped, Zenon DEF CreateTask
<1>3. \A t \in Tasks : \A c \in Captures : CreateCapture(c, t) \in Seq(Commands)
  BY CommandsTyped DEF CreateCapture
<1>4. \A t \in Tasks : TaskRemove(t) \in Seq(Commands) /\ TaskReset(t) \in Seq(Commands)
  <2> TAKE t \in Tasks
  <2>1. /\ Cmd("remove", t, None) \in Commands /\ Cmd("start", t, FALSE) \in Commands
        /\ Cmd("queue", t, 49) \in Commands
    BY CommandsTyped
  <2> QED
    BY <2>1, TuplesTyped, Zenon DEF TaskRemove, TaskReset
<1>5. \A t \in Tasks : \A v \in Nat \cup {None} : <<Cmd("queue", t, v)>> \in Seq(Commands)
  BY CommandsTyped
<1>6. \A t \in Tasks : TaskDelete(t) \in Seq(Commands)
  BY <1>4, <1>5, ConcatProperties DEF TaskDelete
<1>7. \A c \in Captures : CaptureRemove(c) \in Seq(Commands) /\ <<Cmd("cacheRem", c, None)>> \in Seq(Commands)
  BY CommandsTyped DEF CaptureRemove
<1>8. \A c \in Captures : CaptureDelete(c) \in Seq(Commands)
  BY <1>7, ConcatProperties DEF CaptureDelete
<1> QED
  BY <1>2, <1>3, <1>4, <1>5, <1>6, <1>7, <1>8, CommandsTyped

\* What a step does to the local state of its process.
LEMMA NewTodo ==
  ASSUME proc \in [Procs -> Locals], NEW p \in Procs, NEW cmds \in Seq(Commands),
         proc' = [proc EXCEPT ![p].todo = cmds]
  PROVE  /\ proc' \in [Procs -> Locals]
         /\ Todo(p)' = cmds
         /\ \A q \in Procs \ {p} : proc'[q] = proc[q] /\ Todo(q)' = Todo(q)
         /\ \A q \in Procs : /\ proc'[q].pc = proc[q].pc /\ proc'[q].task = proc[q].task
                             /\ proc'[q].prio = proc[q].prio /\ proc'[q].capture = proc[q].capture
<1> DEFINE new == [proc[p] EXCEPT !.todo = cmds]
<1>1. proc' = [proc EXCEPT ![p] = new]
  OBVIOUS
<1>2. proc[p] \in Locals
  OBVIOUS
<1>3. /\ new \in Locals /\ new.todo = cmds /\ new.pc = proc[p].pc /\ new.task = proc[p].task
      /\ new.prio = proc[p].prio /\ new.capture = proc[p].capture
  BY <1>2 DEF Locals
<1> HIDE DEF new
<1> QED
  BY <1>1, <1>3 DEF Todo

LEMMA NewLocals ==
  ASSUME proc \in [Procs -> Locals], NEW l \in Locals, proc' = [proc EXCEPT ![Crawler] = l]
  PROVE  /\ proc' \in [Procs -> Locals]
         /\ me' = l /\ Todo(Crawler)' = l.todo
         /\ \A q \in Clients : proc'[q] = proc[q] /\ Todo(q)' = Todo(q)
BY ProcsFacts, CrawlerAssumption DEF Todo, me

LEMMA NewPc ==
  ASSUME proc \in [Procs -> Locals], NEW cmds \in Seq(Commands),
         NEW pc \in {"slots", "pop", "filter", "enqueue", "push", "poll", "status", "compute",
                     "dead"},
         proc' = [proc EXCEPT ![Crawler].pc = pc, ![Crawler].todo = cmds]
  PROVE  /\ proc' \in [Procs -> Locals]
         /\ Todo(Crawler)' = cmds /\ me'.pc = pc
         /\ me'.task = me.task /\ me'.prio = me.prio /\ me'.capture = me.capture
         /\ \A q \in Clients : proc'[q] = proc[q] /\ Todo(q)' = Todo(q)
<1> DEFINE new == [proc[Crawler] EXCEPT !.pc = pc, !.todo = cmds]
<1>1. proc' = [proc EXCEPT ![Crawler] = new]
  BY ProcsFacts
<1>2. proc[Crawler] \in Locals
  BY ProcsFacts
<1>3. /\ new \in Locals /\ new.todo = cmds /\ new.pc = pc /\ new.task = me.task
      /\ new.prio = me.prio /\ new.capture = me.capture
  BY <1>2 DEF Locals, me
<1> HIDE DEF new
<1> QED
  BY <1>1, <1>3, NewLocals

LEMMA TailFacts ==
  ASSUME NEW S, NEW q \in Seq(S), q # <<>>
  PROVE  /\ Tail(q) \in Seq(S) /\ Len(Tail(q)) = Len(q) - 1
         /\ \A k \in DOMAIN Tail(q) : k + 1 \in DOMAIN q /\ Tail(q)[k] = q[k + 1]
         /\ \A k \in DOMAIN q : k # 1 => k - 1 \in DOMAIN Tail(q) /\ Tail(q)[k - 1] = q[k]
OBVIOUS

\* A command that is done leaves the ones after it, each one place further on.
LEMMA DoneFacts ==
  ASSUME proc \in [Procs -> Locals], NEW p \in Procs, Todo(p) # <<>>, Done(p)
  PROVE  /\ proc' \in [Procs -> Locals]
         /\ Todo(p)' = Tail(Todo(p))
         /\ \A q \in Procs \ {p} : proc'[q] = proc[q] /\ Todo(q)' = Todo(q)
         /\ \A q \in Procs : /\ proc'[q].pc = proc[q].pc /\ proc'[q].task = proc[q].task
                             /\ proc'[q].prio = proc[q].prio /\ proc'[q].capture = proc[q].capture
         /\ \A k \in DOMAIN Todo(p)' : k + 1 \in DOMAIN Todo(p) /\ Todo(p)'[k] = Todo(p)[k + 1]
         /\ \A k \in DOMAIN Todo(p) : k # 1 => /\ k - 1 \in DOMAIN Todo(p)'
                                               /\ Todo(p)'[k - 1] = Todo(p)[k]
<1>1. Todo(p) \in Seq(Commands)
  BY LocalsFacts
<1>2. Tail(Todo(p)) \in Seq(Commands)
  BY <1>1
<1>3. proc' = [proc EXCEPT ![p].todo = Tail(Todo(p))]
  BY DEF Done, Todo
<1> HIDE DEF Done
<1>4. /\ proc' \in [Procs -> Locals]
      /\ Todo(p)' = Tail(Todo(p))
      /\ \A q \in Procs \ {p} : proc'[q] = proc[q] /\ Todo(q)' = Todo(q)
      /\ \A q \in Procs : /\ proc'[q].pc = proc[q].pc /\ proc'[q].task = proc[q].task
                          /\ proc'[q].prio = proc[q].prio /\ proc'[q].capture = proc[q].capture
  BY <1>2, <1>3, NewTodo
<1>5. /\ \A k \in DOMAIN Todo(p)' : k + 1 \in DOMAIN Todo(p) /\ Todo(p)'[k] = Todo(p)[k + 1]
      /\ \A k \in DOMAIN Todo(p) : k # 1 => /\ k - 1 \in DOMAIN Todo(p)'
                                            /\ Todo(p)'[k - 1] = Todo(p)[k]
  BY <1>1, <1>4, TailFacts
<1> QED
  BY <1>4, <1>5

Next1(p) == Todo(p)[1]
Removal(t) ==
    (IF task[t].capture = None THEN <<>> ELSE CaptureRemove(task[t].capture))
        \o <<Cmd("hdelDedup", t, None), Cmd("del", t, None)>>

\* The commands, by the entry of the list they run.
LEMMA Effects ==
  ASSUME proc \in [Procs -> Locals], NEW p \in Procs
  PROVE  /\ Command(p) => /\ Todo(p) # <<>> /\ 1 \in DOMAIN Todo(p) /\ Next1(p) \in Commands
                          /\ Next1(p) = Head(proc[p].todo)
         /\ HsetTask(p) =>
               /\ Next1(p).op \in {"domain", "hash", "start", "capture"}
               /\ task' = [task EXCEPT ![Next1(p).key] = [@ EXCEPT ![Next1(p).op] = Next1(p).val]]
               /\ Done(p) /\ UNCHANGED <<queue, dedup, captask, captures, cache, created>>
         /\ ZaddQueue(p) =>
               /\ Next1(p).op = "queue"
               /\ queue' = [queue EXCEPT ![Next1(p).key] = Next1(p).val]
               /\ Done(p) /\ UNCHANGED <<task, dedup, captask, captures, cache, created>>
         /\ HsetDedup(p) =>
               /\ Next1(p).op = "dedup"
               /\ dedup' = [dedup EXCEPT ![Next1(p).key] = Next1(p).val]
               /\ Done(p) /\ UNCHANGED <<task, queue, captask, captures, cache, created>>
         /\ HsetCapTask(p) =>
               /\ Next1(p).op = "captask"
               /\ captask' = [captask EXCEPT ![Next1(p).key] = Next1(p).val]
               /\ Done(p) /\ UNCHANGED <<task, queue, dedup, captures, cache, created>>
         /\ ZaddCaptures(p) =>
               /\ Next1(p).op \in {"zadd", "zrem"}
               /\ captures' = IF Next1(p).op = "zadd" THEN captures \cup {Next1(p).key}
                      ELSE captures \ {Next1(p).key}
               /\ Done(p) /\ UNCHANGED <<task, queue, dedup, captask, cache, created>>
         /\ ZaddCache(p) =>
               /\ Next1(p).op \in {"cacheAdd", "cacheRem"}
               /\ cache' = IF Next1(p).op = "cacheAdd" THEN Append(Without(cache, Next1(p).key), Next1(p).key)
                   ELSE Without(cache, Next1(p).key)
               /\ Done(p) /\ UNCHANGED <<task, queue, dedup, captask, captures, created>>
         /\ RemoveCapture(p) =>
               /\ Next1(p).op = "remove"
               /\ proc' = [proc EXCEPT ![p].todo = Removal(Next1(p).key) \o Tail(Todo(p))]
               /\ UNCHANGED <<task, queue, dedup, captask, captures, cache, created>>
         /\ HdelDedup(p) =>
               /\ Next1(p).op = "hdelDedup"
               /\ dedup' = [r \in Reqs |-> IF r = task[Next1(p).key].hash THEN None ELSE dedup[r]]
               /\ Done(p) /\ UNCHANGED <<task, queue, captask, captures, cache, created>>
         /\ DeleteTask(p) =>
               /\ Next1(p).op = "del"
               /\ task' = [task EXCEPT ![Next1(p).key] = NoTask]
               /\ Done(p) /\ UNCHANGED <<queue, dedup, captask, captures, cache, created>>
<1>1. Command(p) => Todo(p) # <<>>
  BY DEF Command, HsetTask, ZaddQueue, HsetDedup, HsetCapTask, ZaddCaptures, ZaddCache,
         RemoveCapture, HdelDedup, DeleteTask, Runs, Todo
<1>2. Todo(p) # <<>> => /\ 1 \in DOMAIN Todo(p) /\ Next1(p) \in Commands
                        /\ Next1(p) = Head(proc[p].todo)
  BY LocalsFacts DEF Next1, Todo
<1>3. Key(p) = Head(proc[p].todo).key /\ Val(p) = Head(proc[p].todo).val
  BY DEF Key, Val
<1>4. ASSUME HsetTask(p)
      PROVE  /\ Next1(p).op \in {"domain", "hash", "start", "capture"}
             /\ task' = [task EXCEPT ![Next1(p).key] = [@ EXCEPT ![Next1(p).op] = Next1(p).val]]
             /\ Done(p) /\ UNCHANGED <<queue, dedup, captask, captures, cache, created>>
  <2>1. Todo(p) # <<>>
    BY <1>1, <1>4 DEF Command
  <2> QED
    BY <1>2, <1>3, <1>4, <2>1 DEF HsetTask, Runs, Todo
<1>5. ASSUME ZaddQueue(p)
      PROVE  /\ Next1(p).op = "queue"
             /\ queue' = [queue EXCEPT ![Next1(p).key] = Next1(p).val]
             /\ Done(p) /\ UNCHANGED <<task, dedup, captask, captures, cache, created>>
  <2>1. Todo(p) # <<>>
    BY <1>1, <1>5 DEF Command
  <2> QED
    BY <1>2, <1>3, <1>5, <2>1 DEF ZaddQueue, Runs, Todo
<1>6. ASSUME HsetDedup(p)
      PROVE  /\ Next1(p).op = "dedup"
             /\ dedup' = [dedup EXCEPT ![Next1(p).key] = Next1(p).val]
             /\ Done(p) /\ UNCHANGED <<task, queue, captask, captures, cache, created>>
  <2>1. Todo(p) # <<>>
    BY <1>1, <1>6 DEF Command
  <2> QED
    BY <1>2, <1>3, <1>6, <2>1 DEF HsetDedup, Runs, Todo
<1>7. ASSUME HsetCapTask(p)
      PROVE  /\ Next1(p).op = "captask"
             /\ captask' = [captask EXCEPT ![Next1(p).key] = Next1(p).val]
             /\ Done(p) /\ UNCHANGED <<task, queue, dedup, captures, cache, created>>
  <2>1. Todo(p) # <<>>
    BY <1>1, <1>7 DEF Command
  <2> QED
    BY <1>2, <1>3, <1>7, <2>1 DEF HsetCapTask, Runs, Todo
<1>8. ASSUME ZaddCaptures(p)
      PROVE  /\ Next1(p).op \in {"zadd", "zrem"}
             /\ captures' = IF Next1(p).op = "zadd" THEN captures \cup {Next1(p).key}
                      ELSE captures \ {Next1(p).key}
             /\ Done(p) /\ UNCHANGED <<task, queue, dedup, captask, cache, created>>
  <2>1. Todo(p) # <<>>
    BY <1>1, <1>8 DEF Command
  <2> QED
    BY <1>2, <1>3, <1>8, <2>1 DEF ZaddCaptures, Runs, Todo
<1>9. ASSUME ZaddCache(p)
      PROVE  /\ Next1(p).op \in {"cacheAdd", "cacheRem"}
             /\ cache' = IF Next1(p).op = "cacheAdd" THEN Append(Without(cache, Next1(p).key), Next1(p).key)
                   ELSE Without(cache, Next1(p).key)
             /\ Done(p) /\ UNCHANGED <<task, queue, dedup, captask, captures, created>>
  <2>1. Todo(p) # <<>>
    BY <1>1, <1>9 DEF Command
  <2> QED
    BY <1>2, <1>3, <1>9, <2>1 DEF ZaddCache, Runs, Todo
<1>10. ASSUME RemoveCapture(p)
      PROVE  /\ Next1(p).op = "remove"
             /\ proc' = [proc EXCEPT ![p].todo = Removal(Next1(p).key) \o Tail(Todo(p))]
             /\ UNCHANGED <<task, queue, dedup, captask, captures, cache, created>>
  <2>1. Todo(p) # <<>>
    BY <1>1, <1>10 DEF Command
  <2> QED
    BY <1>2, <1>3, <1>10, <2>1 DEF RemoveCapture, Runs, Removal, Todo
<1>11. ASSUME HdelDedup(p)
      PROVE  /\ Next1(p).op = "hdelDedup"
             /\ dedup' = [r \in Reqs |-> IF r = task[Next1(p).key].hash THEN None ELSE dedup[r]]
             /\ Done(p) /\ UNCHANGED <<task, queue, captask, captures, cache, created>>
  <2>1. Todo(p) # <<>>
    BY <1>1, <1>11 DEF Command
  <2> QED
    BY <1>2, <1>3, <1>11, <2>1 DEF HdelDedup, Runs, Todo
<1>12. ASSUME DeleteTask(p)
      PROVE  /\ Next1(p).op = "del"
             /\ task' = [task EXCEPT ![Next1(p).key] = NoTask]
             /\ Done(p) /\ UNCHANGED <<queue, dedup, captask, captures, cache, created>>
  <2>1. Todo(p) # <<>>
    BY <1>1, <1>12 DEF Command
  <2> QED
    BY <1>2, <1>3, <1>12, <2>1 DEF DeleteTask, Runs, Todo
<1> QED
  BY <1>1, <1>2, <1>3, <1>4, <1>5, <1>6, <1>7, <1>8, <1>9, <1>10, <1>11, <1>12

LEMMA RemovalTyped ==
  ASSUME TypeOK, NEW t \in Tasks
  PROVE  Removal(t) \in Seq(Commands)
<1>1. task[t].capture \in Captures \cup {None}
  BY DEF TypeOK
<1>2. (IF task[t].capture = None THEN <<>> ELSE CaptureRemove(task[t].capture)) \in Seq(Commands)
  BY <1>1, ProgramsTyped
<1>3. <<Cmd("hdelDedup", t, None), Cmd("del", t, None)>> \in Seq(Commands)
  BY CommandsTyped, TuplesTyped
<1> QED
  BY <1>2, <1>3, ConcatProperties DEF Removal

LEMMA CommandBase ==
  ASSUME Base, NEW p \in Procs, Command(p)
  PROVE  Base'
<1> USE DEF Base
<1>1. proc \in [Procs -> Locals]
  BY DEF TypeOK
<1> DEFINE h == Next1(p)
<1>0. Todo(p) # <<>> /\ h \in Commands
  BY <1>1, Effects
<1>2. ASSUME Todo(p) # <<>>, Done(p), UNCHANGED created, UNCHANGED captures
      PROVE  LocalsOK' /\ proc' \in [Procs -> Locals] /\ created' \in 0 .. MaxCreates
  <2>1. /\ proc' \in [Procs -> Locals]
        /\ \A q \in Procs \ {p} : Todo(q)' = Todo(q)
        /\ \A q \in Procs : /\ proc'[q].pc = proc[q].pc /\ proc'[q].task = proc[q].task
                            /\ proc'[q].prio = proc[q].prio /\ proc'[q].capture = proc[q].capture
    BY <1>1, <1>2, DoneFacts
  <2>2. \A q \in Procs : Todo(q)' # <<>> => proc'[q].pc \in {"slots", "enqueue", "push"}
    BY <1>2, <2>1 DEF LocalsOK
  <2> QED
    BY <1>2, <2>1, <2>2, ProcsFacts DEF LocalsOK, TypeOK, me
<1>3. CASE HsetTask(p)
  <2>1. /\ Todo(p) # <<>> /\ h \in Commands /\ h.op \in {"domain", "hash", "start", "capture"}
        /\ task' = [task EXCEPT ![h.key] = [@ EXCEPT ![h.op] = h.val]]
        /\ Done(p) /\ UNCHANGED <<queue, dedup, captask, captures, cache, created>>
    BY <1>0, <1>1, <1>3, Effects
  <2> HIDE DEF h
  <2> DEFINE new == [task[h.key] EXCEPT ![h.op] = h.val]
             Fields == [domain : BOOLEAN, hash : Reqs \cup {None}, start : BOOLEAN,
                        capture : Captures \cup {None}]
  <2>2. h.key \in Tasks
    BY <2>1, CommandTypes
  <2>3. task[h.key] \in Fields
    BY <2>2 DEF TypeOK
  <2>4. new \in Fields
    <3>1. CASE h.op = "domain"
      BY <2>1, <2>3, <3>1, CommandTypes
    <3>2. CASE h.op = "hash"
      BY <2>1, <2>3, <3>2, CommandTypes
    <3>3. CASE h.op = "start"
      BY <2>1, <2>3, <3>3, CommandTypes
    <3>4. CASE h.op = "capture"
      BY <2>1, <2>3, <3>4, CommandTypes
    <3> QED
      BY <2>1, <3>1, <3>2, <3>3, <3>4
  <2>5. task' = [task EXCEPT ![h.key] = new]
    BY <2>1
  <2> HIDE DEF new
  <2>6. task' \in [Tasks -> Fields]
    BY <2>4, <2>5 DEF TypeOK
  <2> QED
    BY <1>2, <2>1, <2>6 DEF TypeOK
<1>4. CASE ZaddQueue(p)
  <2>1. /\ Todo(p) # <<>> /\ h \in Commands /\ h.op = "queue"
        /\ queue' = [queue EXCEPT ![h.key] = h.val]
        /\ Done(p) /\ UNCHANGED <<task, dedup, captask, captures, cache, created>>
    BY <1>0, <1>1, <1>4, Effects
  <2>2. queue' \in [Tasks -> Nat \cup {None}]
    BY <2>1, CommandTypes DEF TypeOK
  <2> QED
    BY <1>2, <2>1, <2>2 DEF TypeOK
<1>5. CASE HsetDedup(p)
  <2>1. /\ Todo(p) # <<>> /\ h \in Commands /\ h.op = "dedup"
        /\ dedup' = [dedup EXCEPT ![h.key] = h.val]
        /\ Done(p) /\ UNCHANGED <<task, queue, captask, captures, cache, created>>
    BY <1>0, <1>1, <1>5, Effects
  <2>2. dedup' \in [Reqs -> Tasks \cup {None}]
    BY <2>1, CommandTypes DEF TypeOK
  <2> QED
    BY <1>2, <2>1, <2>2 DEF TypeOK
<1>6. CASE HsetCapTask(p)
  <2>1. /\ Todo(p) # <<>> /\ h \in Commands /\ h.op = "captask"
        /\ captask' = [captask EXCEPT ![h.key] = h.val]
        /\ Done(p) /\ UNCHANGED <<task, queue, dedup, captures, cache, created>>
    BY <1>0, <1>1, <1>6, Effects
  <2>2. captask' \in [Captures -> Tasks \cup {None}]
    BY <2>1, CommandTypes DEF TypeOK
  <2> QED
    BY <1>2, <2>1, <2>2 DEF TypeOK
<1>7. CASE ZaddCaptures(p)
  <2>1. /\ Todo(p) # <<>> /\ h \in Commands /\ h.op \in {"zadd", "zrem"}
        /\ captures' = IF h.op = "zadd" THEN captures \cup {h.key} ELSE captures \ {h.key}
        /\ Done(p) /\ UNCHANGED <<task, queue, dedup, captask, cache, created>>
    BY <1>0, <1>1, <1>7, Effects
  <2>2. h.key \in Captures
    BY <2>1, CommandTypes
  <2>3. captures' \subseteq Captures
    BY <2>1, <2>2 DEF TypeOK
  <2>4. IsFiniteSet(captures \cup {h.key}) /\ IsFiniteSet(captures \ {h.key})
    BY FS_AddElement, FS_RemoveElement DEF LocalsOK
  <2>5. IsFiniteSet(captures')
    BY <2>1, <2>4
  <2>6. /\ proc' \in [Procs -> Locals]
        /\ \A q \in Procs \ {p} : Todo(q)' = Todo(q)
        /\ \A q \in Procs : /\ proc'[q].pc = proc[q].pc /\ proc'[q].task = proc[q].task
                            /\ proc'[q].prio = proc[q].prio /\ proc'[q].capture = proc[q].capture
    BY <1>1, <2>1, DoneFacts
  <2>7. \A q \in Procs : Todo(q)' # <<>> => proc'[q].pc \in {"slots", "enqueue", "push"}
    BY <2>1, <2>6 DEF LocalsOK
  <2>8. LocalsOK'
    BY <2>5, <2>6, <2>7, ProcsFacts DEF LocalsOK, me
  <2> QED
    BY <2>1, <2>3, <2>6, <2>8 DEF TypeOK
<1>8. CASE ZaddCache(p)
  <2>1. /\ Todo(p) # <<>> /\ h \in Commands /\ h.op \in {"cacheAdd", "cacheRem"}
        /\ cache' = IF h.op = "cacheAdd" THEN Append(Without(cache, h.key), h.key)
                    ELSE Without(cache, h.key)
        /\ Done(p) /\ UNCHANGED <<task, queue, dedup, captask, captures, created>>
    BY <1>0, <1>1, <1>8, Effects
  <2>2. h.key \in Captures
    BY <2>1, CommandTypes
  <2>3. cache \in Seq(Captures)
    BY DEF TypeOK
  <2>4. Without(cache, h.key) \in Seq(Captures)
    BY <2>3, WithoutProperties
  <2>5. cache' \in Seq(Captures)
    BY <2>1, <2>2, <2>4, AppendProperties
  <2> QED
    BY <1>2, <2>1, <2>5 DEF TypeOK
<1>9. CASE RemoveCapture(p)
  <2> DEFINE cmds == Removal(h.key) \o Tail(Todo(p))
  <2>1. /\ Todo(p) # <<>> /\ h \in Commands /\ h.op = "remove"
        /\ proc' = [proc EXCEPT ![p].todo = cmds]
        /\ UNCHANGED <<task, queue, dedup, captask, captures, cache, created>>
    BY <1>0, <1>1, <1>9, Effects
  <2>2. h.key \in Tasks
    BY <2>1, CommandTypes
  <2>3. Removal(h.key) \in Seq(Commands)
    BY <2>2, RemovalTyped
  <2>4. Tail(Todo(p)) \in Seq(Commands)
    BY <1>1, <2>1, LocalsFacts
  <2>5. cmds \in Seq(Commands)
    BY <2>3, <2>4, ConcatProperties
  <2> HIDE DEF cmds, h
  <2>6. /\ proc' \in [Procs -> Locals]
        /\ \A q \in Procs \ {p} : Todo(q)' = Todo(q)
        /\ \A q \in Procs : /\ proc'[q].pc = proc[q].pc /\ proc'[q].task = proc[q].task
                            /\ proc'[q].prio = proc[q].prio /\ proc'[q].capture = proc[q].capture
    BY <1>1, <2>1, <2>5, NewTodo
  <2>7. \A q \in Procs : Todo(q)' # <<>> => proc'[q].pc \in {"slots", "enqueue", "push"}
    BY <2>1, <2>6 DEF LocalsOK
  <2>8. LocalsOK'
    BY <2>1, <2>6, <2>7, ProcsFacts DEF LocalsOK, me
  <2> QED
    BY <2>1, <2>6, <2>8 DEF TypeOK
<1>10. CASE HdelDedup(p)
  <2>1. /\ Todo(p) # <<>>
        /\ dedup' = [r \in Reqs |-> IF r = task[h.key].hash THEN None ELSE dedup[r]]
        /\ Done(p) /\ UNCHANGED <<task, queue, captask, captures, cache, created>>
    BY <1>0, <1>1, <1>10, Effects
  <2>2. dedup' \in [Reqs -> Tasks \cup {None}]
    BY <2>1 DEF TypeOK
  <2> QED
    BY <1>2, <2>1, <2>2 DEF TypeOK
<1>11. CASE DeleteTask(p)
  <2>1. /\ Todo(p) # <<>>
        /\ task' = [task EXCEPT ![h.key] = NoTask]
        /\ Done(p) /\ UNCHANGED <<queue, dedup, captask, captures, cache, created>>
    BY <1>0, <1>1, <1>11, Effects
  <2>2. NoTask \in [domain : BOOLEAN, hash : Reqs \cup {None}, start : BOOLEAN,
                    capture : Captures \cup {None}]
    BY DEF NoTask
  <2>3. task' \in [Tasks -> [domain : BOOLEAN, hash : Reqs \cup {None}, start : BOOLEAN,
                             capture : Captures \cup {None}]]
    BY <2>1, <2>2 DEF TypeOK
  <2> QED
    BY <1>2, <2>1, <2>3 DEF TypeOK
<1> QED
  BY <1>3, <1>4, <1>5, <1>6, <1>7, <1>8, <1>9, <1>10, <1>11 DEF Command

\* A program that a process starts, and the Crawler's moves.
LEMMA ProgramBase ==
  ASSUME Base, NEW p \in Procs, NEW cmds \in Seq(Commands),
         proc[p].pc = "slots", Do(p, cmds), UNCHANGED captures
  PROVE  LocalsOK' /\ proc' \in [Procs -> Locals]
<1>1. proc \in [Procs -> Locals]
  BY DEF Base, TypeOK
<1>2. /\ proc' \in [Procs -> Locals]
      /\ \A q \in Procs \ {p} : Todo(q)' = Todo(q)
      /\ \A q \in Procs : /\ proc'[q].pc = proc[q].pc /\ proc'[q].task = proc[q].task
                          /\ proc'[q].prio = proc[q].prio /\ proc'[q].capture = proc[q].capture
  BY <1>1, NewTodo DEF Do
<1>3. \A q \in Procs : Todo(q)' # <<>> => proc'[q].pc \in {"slots", "enqueue", "push"}
  BY <1>2 DEF LocalsOK, Base
<1> QED
  BY <1>2, <1>3, ProcsFacts DEF LocalsOK, Base, me

LEMMA MoveBase ==
  ASSUME Base, NEW cmds \in Seq(Commands),
         NEW pc \in {"slots", "pop", "filter", "enqueue", "push", "poll", "status", "compute",
                     "dead"},
         proc' = [proc EXCEPT ![Crawler].pc = pc, ![Crawler].todo = cmds], UNCHANGED captures,
         cmds # <<>> => pc \in {"slots", "enqueue", "push"},
         pc \in {"filter", "enqueue", "push"} => me.task \in Tasks,
         pc \in {"filter", "enqueue"} => me.prio \in Nat,
         pc \in {"status", "compute"} => me.capture \in Captures
  PROVE  LocalsOK' /\ proc' \in [Procs -> Locals]
<1>1. proc \in [Procs -> Locals]
  BY DEF Base, TypeOK
<1>2. /\ proc' \in [Procs -> Locals]
      /\ Todo(Crawler)' = cmds /\ me'.pc = pc
      /\ me'.task = me.task /\ me'.prio = me.prio /\ me'.capture = me.capture
      /\ \A q \in Clients : proc'[q] = proc[q] /\ Todo(q)' = Todo(q)
  BY <1>1, NewPc
<1>3. \A q \in Procs : Todo(q)' # <<>> => proc'[q].pc \in {"slots", "enqueue", "push"}
  <2>1. Todo(Crawler)' # <<>> => proc'[Crawler].pc \in {"slots", "enqueue", "push"}
    BY <1>2 DEF me
  <2>2. \A q \in Clients : Todo(q)' # <<>> => proc'[q].pc \in {"slots", "enqueue", "push"}
    BY <1>2, ProcsFacts DEF LocalsOK, Base
  <2> QED
    BY <2>1, <2>2, ProcsFacts
<1> QED
  BY <1>2, <1>3, ProcsFacts DEF LocalsOK, Base

LEMMA FreshLocalsBase ==
  ASSUME Base, NEW l \in Locals, proc' = [proc EXCEPT ![Crawler] = l], UNCHANGED captures,
         l.todo = <<>>, l.pc \notin {"filter", "enqueue", "push", "compute"},
         l.pc = "status" => l.capture \in Captures
  PROVE  LocalsOK' /\ proc' \in [Procs -> Locals]
<1>1. proc \in [Procs -> Locals]
  BY DEF Base, TypeOK
<1>2. /\ proc' \in [Procs -> Locals]
      /\ me' = l /\ Todo(Crawler)' = l.todo
      /\ \A q \in Clients : proc'[q] = proc[q] /\ Todo(q)' = Todo(q)
  BY <1>1, NewLocals
<1>3. \A q \in Procs : Todo(q)' # <<>> => proc'[q].pc \in {"slots", "enqueue", "push"}
  BY <1>2, ProcsFacts DEF LocalsOK, Base
<1> QED
  BY <1>2, <1>3, ProcsFacts DEF LocalsOK, Base

LEMMA LoopTyped ==
  /\ Loop \in Locals
  /\ \A pc \in {"slots", "pop", "poll", "dead"} :
        /\ [Loop EXCEPT !.pc = pc] \in Locals
        /\ [Loop EXCEPT !.pc = pc].todo = <<>> /\ [Loop EXCEPT !.pc = pc].pc = pc
<1>1. <<>> \in Seq(Commands)
  BY ProgramsTyped
<1> QED
  BY <1>1 DEF Loop, Locals

LEMMA CreateBase ==
  ASSUME Base, NEW p \in Procs, proc[p].pc = "slots", NEW r \in Reqs, Create(p, r)
  PROVE  Base'
<1>1. PICK t \in Tasks : Do(p, CreateTask(t, r))
  BY DEF Create
<1>2. /\ created < MaxCreates /\ created' = created + 1
      /\ UNCHANGED <<task, queue, dedup, captask, captures, cache>>
  BY DEF Create
<1>3. CreateTask(t, r) \in Seq(Commands)
  BY ProgramsTyped
<1>4. LocalsOK' /\ proc' \in [Procs -> Locals]
  BY <1>1, <1>2, <1>3, ProgramBase
<1>5. created' \in 0 .. MaxCreates
  BY <1>2, CrawlerAssumption DEF Base, TypeOK
<1> QED
  BY <1>2, <1>4, <1>5 DEF Base, TypeOK

LEMMA DieBase ==
  ASSUME Base, Die, UNCHANGED redis
  PROVE  Base'
<1>1. [Loop EXCEPT !.pc = "dead"] \in Locals /\ [Loop EXCEPT !.pc = "dead"].todo = <<>>
      /\ [Loop EXCEPT !.pc = "dead"].pc = "dead"
  BY LoopTyped
<1> DEFINE l == [Loop EXCEPT !.pc = "dead"]
<1>2. proc' = [proc EXCEPT ![Crawler] = l]
  BY DEF Die
<1> HIDE DEF l
<1>3. LocalsOK' /\ proc' \in [Procs -> Locals]
  BY <1>1, <1>2, FreshLocalsBase DEF redis, l
<1> QED
  BY <1>3 DEF Base, TypeOK, redis

LEMMA BackBase ==
  ASSUME Base, NEW cmds \in Seq(Commands), BackDo(cmds),
         UNCHANGED <<task, queue, dedup, captask, captures, created>>, cache' \in Seq(Captures)
  PROVE  Base'
<1>1. LocalsOK' /\ proc' \in [Procs -> Locals]
  BY MoveBase DEF BackDo
<1> QED
  BY <1>1 DEF Base, TypeOK

LEMMA GotoBase ==
  ASSUME Base, NEW cmds \in Seq(Commands), NEW pc \in {"enqueue", "push", "poll", "compute", "dead"},
         GotoDo(pc, cmds), UNCHANGED redis,
         cmds # <<>> => pc \in {"enqueue", "push"},
         pc \in {"enqueue", "push"} => me.task \in Tasks,
         pc = "enqueue" => me.prio \in Nat,
         pc = "compute" => me.capture \in Captures
  PROVE  Base'
<1>1. LocalsOK' /\ proc' \in [Procs -> Locals]
  BY MoveBase DEF GotoDo, redis
<1> QED
  BY <1>1 DEF Base, TypeOK, redis

\* The programs the Crawler starts are typed.
LEMMA CrawlerProgramsTyped ==
  ASSUME TypeOK
  PROVE  /\ \A t \in Tasks : /\ TaskDelete(t) \in Seq(Commands) /\ TaskReset(t) \in Seq(Commands)
                             /\ TaskRemove(t) \in Seq(Commands)
         /\ \A t \in Tasks, c \in Captures :
               /\ TaskDelete(t) \o CaptureDelete(c) \in Seq(Commands)
               /\ TaskReset(t) \o CaptureDelete(c) \in Seq(Commands)
BY ProgramsTyped, ConcatProperties

LEMMA CrawlerBase ==
  ASSUME Base, CrawlerStep
  PROVE  Base'
<1>1. proc \in [Procs -> Locals] /\ cache \in Seq(Captures) /\ TypeOK
  BY DEF Base, TypeOK
<1>2. me.pc = "filter" => me.task \in Tasks /\ me.prio \in Nat
  BY DEF Base, LocalsOK
<1>3. me.pc = "enqueue" => me.task \in Tasks /\ me.prio \in Nat
  BY DEF Base, LocalsOK
<1>4. me.pc = "status" => me.capture \in Captures /\ CaptureTask \in Tasks \cup {None}
  BY DEF Base, LocalsOK, TypeOK, CaptureTask
<1>5. me.pc = "compute" => me.capture \in Captures /\ CaptureTask \in Tasks \cup {None}
  BY DEF Base, LocalsOK, TypeOK, CaptureTask
<1>6. UNCHANGED redis => UNCHANGED <<task, queue, dedup, captask, captures, created>>
                         /\ cache' \in Seq(Captures)
  BY <1>1 DEF redis
<1>7. CASE CheckSlots
  <2> DEFINE pc == IF Len(cache) < MaxCaptures THEN "pop" ELSE "poll"
             l == [Loop EXCEPT !.pc = pc]
  <2>1. pc \in {"pop", "poll"}
    OBVIOUS
  <2>2. proc' = [proc EXCEPT ![Crawler] = l] /\ UNCHANGED redis
    BY <1>7 DEF CheckSlots
  <2> HIDE DEF pc
  <2>3. l \in Locals /\ l.todo = <<>> /\ l.pc = pc
    BY <2>1, LoopTyped
  <2> HIDE DEF l
  <2>4. LocalsOK' /\ proc' \in [Procs -> Locals]
    BY <2>1, <2>2, <2>3, FreshLocalsBase DEF redis
  <2> QED
    BY <2>2, <2>4 DEF Base, TypeOK, redis
<1>8. CASE PopTask
  <2>1. CASE \A t \in Tasks : queue[t] = None
    <3>1. GotoDo("poll", <<>>) /\ UNCHANGED redis
      BY <1>8, <2>1 DEF PopTask, redis
    <3> QED
      BY <3>1, GotoBase, ProgramsTyped
  <2>2. CASE ~ \A t \in Tasks : queue[t] = None
    <3>1. PICK t \in Tasks :
             /\ queue[t] # None
             /\ queue' = [queue EXCEPT ![t] = None]
             /\ proc' = [proc EXCEPT ![Crawler].pc = "filter", ![Crawler].task = t,
                                     ![Crawler].prio = queue[t]]
      BY <1>8, <2>2 DEF PopTask
    <3>2. UNCHANGED <<task, dedup, captask, captures, cache, created>> /\ At("pop")
      BY <1>8 DEF PopTask
    <3>3. queue[t] \in Nat
      BY <3>1 DEF Base, TypeOK
    <3> DEFINE l == [me EXCEPT !.pc = "filter", !.task = t, !.prio = queue[t]]
    <3>4. me \in Locals
      BY <1>1, ProcsFacts DEF me
    <3>5. /\ l \in Locals /\ l.todo = me.todo /\ l.task = t /\ l.prio = queue[t] /\ l.pc = "filter"
      BY <3>3, <3>4 DEF Locals
    <3>6. proc' = [proc EXCEPT ![Crawler] = l]
      BY <3>1, <1>1, ProcsFacts DEF me
    <3> HIDE DEF l
    <3>7. /\ proc' \in [Procs -> Locals]
          /\ me' = l /\ Todo(Crawler)' = l.todo
          /\ \A q \in Clients : proc'[q] = proc[q] /\ Todo(q)' = Todo(q)
      BY <1>1, <3>5, <3>6, NewLocals
    <3>8. Todo(Crawler)' = <<>>
      BY <3>2, <3>5, <3>7 DEF At, Free, me
    <3>9. \A q \in Procs : Todo(q)' # <<>> => proc'[q].pc \in {"slots", "enqueue", "push"}
      BY <3>7, <3>8, ProcsFacts DEF LocalsOK, Base
    <3>10. LocalsOK'
      BY <3>2, <3>3, <3>5, <3>7, <3>9, ProcsFacts DEF LocalsOK, Base
    <3>11. queue' \in [Tasks -> Nat \cup {None}]
      BY <3>1 DEF Base, TypeOK
    <3> QED
      BY <3>2, <3>7, <3>10, <3>11 DEF Base, TypeOK
  <2> QED
    BY <2>1, <2>2
<1>9. CASE FilterPass
  <2>1. CASE task[me.task].domain
    <3>1. GotoDo("enqueue", <<Cmd("start", me.task, TRUE)>>) /\ UNCHANGED redis /\ me.pc = "filter"
      BY <1>9, <2>1 DEF FilterPass, At
    <3>2. <<Cmd("start", me.task, TRUE)>> \in Seq(Commands)
      BY <1>2, <3>1, ProgramsTyped
    <3> QED
      BY <1>2, <3>1, <3>2, GotoBase
  <2>2. CASE ~ task[me.task].domain
    BY <1>9, <2>2, DieBase DEF FilterPass
  <2> QED
    BY <2>1, <2>2
<1>10. CASE FilterRefuse
  <2>1. BackDo(TaskDelete(me.task)) /\ me.task \in Tasks /\ UNCHANGED redis
    BY <1>2, <1>10 DEF FilterRefuse, At
  <2> QED
    BY <1>1, <1>6, <2>1, BackBase, CrawlerProgramsTyped
<1>11. CASE FilterError
  <2>1. BackDo(TaskReset(me.task)) /\ me.task \in Tasks /\ UNCHANGED redis
    BY <1>2, <1>11 DEF FilterError, At
  <2> QED
    BY <1>1, <1>6, <2>1, BackBase, CrawlerProgramsTyped
<1>12. CASE EnqueueCapture
  <2>1. me.pc = "enqueue" /\ UNCHANGED redis
    BY <1>12 DEF EnqueueCapture, At
  <2>2. PICK c \in Captures : GotoDo("push", CreateCapture(c, me.task)) \/ GotoDo("push", <<>>)
    BY <1>12 DEF EnqueueCapture
  <2>3. CreateCapture(c, me.task) \in Seq(Commands) /\ <<>> \in Seq(Commands)
    BY <1>3, <2>1, ProgramsTyped
  <2> QED
    BY <1>3, <2>1, <2>2, <2>3, GotoBase
<1>13. CASE EnqueueFails
  <2>1. BackDo(<<Cmd("queue", me.task, me.prio)>>) /\ UNCHANGED redis
        /\ me.task \in Tasks /\ me.prio \in Nat
    BY <1>3, <1>13 DEF EnqueueFails, At
  <2> QED
    BY <1>6, <2>1, BackBase, ProgramsTyped
<1>14. CASE PushDiscovery
  <2>1. UNCHANGED redis /\ me.pc = "push"
    BY <1>14 DEF PushDiscovery, At
  <2>2. CASE GotoDo("poll", <<>>)
    BY <2>1, <2>2, GotoBase, ProgramsTyped
  <2>3. CASE BackDo(<<Cmd("queue", me.task, me.prio)>>)
    <3>1. me.task \in Tasks
      BY <2>1 DEF Base, LocalsOK
    <3>2. me.prio \in Nat \cup {None}
      BY <1>1, LocalsFacts, ProcsFacts DEF me
    <3> QED
      BY <1>6, <2>1, <2>3, <3>1, <3>2, BackBase, ProgramsTyped
  <2> QED
    BY <1>14, <2>2, <2>3 DEF PushDiscovery
<1>15. CASE PollCapture
  <2>1. CASE cache = <<>>
    <3>1. BackDo(<<>>) /\ UNCHANGED redis
      BY <1>15, <2>1 DEF PollCapture, redis
    <3> QED
      BY <1>6, <3>1, BackBase, ProgramsTyped
  <2>2. CASE cache # <<>>
    <3> DEFINE c == Head(cache)
               l == [Loop EXCEPT !.pc = "status", !.capture = c, !.task = captask[c]]
    <3>1. /\ cache' = Tail(cache) /\ proc' = [proc EXCEPT ![Crawler] = l]
          /\ UNCHANGED <<task, queue, dedup, captask, captures, created>>
      BY <1>15, <2>2 DEF PollCapture
    <3>2. c \in Captures /\ Tail(cache) \in Seq(Captures)
      BY <1>1, <2>2
    <3> HIDE DEF c
    <3>3. captask[c] \in Tasks \cup {None}
      BY <3>2 DEF Base, TypeOK
    <3>4. l \in Locals /\ l.todo = <<>> /\ l.pc = "status" /\ l.capture = c
      BY <3>2, <3>3, LoopTyped DEF Locals, Loop
    <3> HIDE DEF l
    <3>5. LocalsOK' /\ proc' \in [Procs -> Locals]
      BY <3>1, <3>2, <3>4, FreshLocalsBase
    <3> QED
      BY <3>1, <3>2, <3>5 DEF Base, TypeOK
  <2> QED
    BY <2>1, <2>2
<1>16. CASE CaptureDone
  <2>1. GotoDo("compute", <<>>) /\ UNCHANGED redis /\ me.pc = "status"
    BY <1>16 DEF CaptureDone, At
  <2> QED
    BY <1>4, <2>1, GotoBase, ProgramsTyped
<1>17. CASE CaptureUpdate
  <2>1. BackDo(<<Cmd("cacheAdd", me.capture, None)>>) /\ UNCHANGED redis /\ me.pc = "status"
    BY <1>17 DEF CaptureUpdate, At
  <2> QED
    BY <1>4, <1>6, <2>1, BackBase, ProgramsTyped
<1>18. CASE CaptureUnknown
  <2>1. me.pc = "status" /\ UNCHANGED redis
    BY <1>18 DEF CaptureUnknown, At
  <2>2. CASE CaptureTask = None
    BY <1>18, <2>1, <2>2, DieBase DEF CaptureUnknown
  <2>3. CASE CaptureTask # None
    <3>1. BackDo(TaskDelete(CaptureTask) \o CaptureDelete(me.capture))
      BY <1>18, <2>3 DEF CaptureUnknown
    <3> QED
      BY <1>1, <1>4, <1>6, <2>1, <2>3, <3>1, BackBase, CrawlerProgramsTyped
  <2> QED
    BY <2>2, <2>3
<1>19. CASE CaptureTimeout
  <2>1. me.pc = "status" /\ UNCHANGED redis
    BY <1>19 DEF CaptureTimeout, At
  <2>2. CASE CaptureTask = None
    BY <1>19, <2>1, <2>2, DieBase DEF CaptureTimeout
  <2>3. CASE CaptureTask # None
    <3>1. BackDo(TaskReset(CaptureTask) \o CaptureDelete(me.capture))
      BY <1>19, <2>3 DEF CaptureTimeout
    <3> QED
      BY <1>1, <1>4, <1>6, <2>1, <2>3, <3>1, BackBase, CrawlerProgramsTyped
  <2> QED
    BY <2>2, <2>3
<1>20. CASE Compute
  <2>1. me.pc = "compute" /\ UNCHANGED redis
    BY <1>20 DEF Compute, At
  <2>2. CASE ~(CaptureTask # None /\ task[CaptureTask].domain)
    <3>1. Die
      BY <1>20, <2>2 DEF Compute
    <3> QED
      BY <2>1, <3>1, DieBase
  <2>3. CASE CaptureTask # None /\ task[CaptureTask].domain
    <3>1. BackDo(TaskRemove(CaptureTask))
      BY <1>20, <2>3 DEF Compute
    <3> QED
      BY <1>1, <1>5, <1>6, <2>1, <2>3, <3>1, BackBase, CrawlerProgramsTyped
  <2> QED
    BY <2>2, <2>3
<1>21. CASE ComputeFails
  <2>1. GotoDo("dead", <<>>) /\ UNCHANGED redis
    BY <1>21 DEF ComputeFails
  <2> QED
    BY <2>1, GotoBase, ProgramsTyped
<1> QED
  BY <1>7, <1>8, <1>9, <1>10, <1>11, <1>12, <1>13, <1>14, <1>15, <1>16, <1>17, <1>18, <1>19, <1>20,
     <1>21
  DEF CrawlerStep

\* Every step of every specification: the Crawler stops anywhere, admins delete captures
\* and schedules.
AnyNext == CrashNext \/ \E w \in Clients, t \in Tasks : DeleteScheduled(w, t)

LEMMA RestartBase ==
  ASSUME Base, Restart
  PROVE  Base'
<1>1. PICK s \in [1 .. Cardinality(captures) -> captures] : cache' = s
  BY DEF Restart
<1>2. Cardinality(captures) \in Nat
  BY FS_CardinalityType DEF Base, LocalsOK
<1>3. s \in Seq(Captures)
  BY <1>2 DEF Base, TypeOK
<1> QED
  BY <1>1, <1>3, BackBase, ProgramsTyped DEF Restart

LEMMA BaseHolds ==
  /\ Init => Base
  /\ Base /\ [AnyNext]_vars => Base'
<1>1. Init => Base
  <2> SUFFICES ASSUME Init PROVE Base
    OBVIOUS
  <2>1. NoTask \in [domain : BOOLEAN, hash : Reqs \cup {None}, start : BOOLEAN,
                    capture : Captures \cup {None}]
    BY DEF NoTask
  <2>2. IsFiniteSet({})
    BY FS_EmptySet
  <2>3. Loop \in Locals /\ Loop.todo = <<>> /\ Loop.pc = "slots"
    BY LoopTyped DEF Loop
  <2>4. proc \in [Procs -> Locals] /\ \A p \in Procs : proc[p] = Loop
    BY <2>3 DEF Init
  <2>5. LocalsOK
    BY <2>2, <2>3, <2>4, ProcsFacts DEF Init, LocalsOK, Todo, me
  <2>6. cache \in Seq(Captures) /\ created \in 0 .. MaxCreates
    BY CrawlerAssumption DEF Init
  <2> QED
    BY <2>1, <2>4, <2>5, <2>6 DEF Base, TypeOK, Init
<1>2. ASSUME Base, [AnyNext]_vars PROVE Base'
  <2>1. CASE \E p \in Procs : Command(p)
    BY <1>2, <2>1, CommandBase
  <2>2. ASSUME NEW r \in Reqs, ProcessQueue(r) PROVE Base'
    BY <1>2, <2>2, CreateBase, ProcsFacts DEF ProcessQueue, At, me
  <2>3. ASSUME NEW r \in Reqs, NEW w \in Clients, ClientCreate(w, r) PROVE Base'
    <3>1. proc[w].pc = "slots"
      BY <1>2 DEF Base, LocalsOK
    <3> QED
      BY <1>2, <2>3, <3>1, CreateBase, ProcsFacts DEF ClientCreate
  <2>4. CASE CrawlerStep
    BY <1>2, <2>4, CrawlerBase
  <2>5. CASE Crash
    BY <1>2, <2>5, DieBase DEF Crash
  <2>6. CASE Restart
    BY <1>2, <2>6, RestartBase
  <2>7. ASSUME NEW w \in Clients, NEW c \in Captures, DeleteCapture(w, c) PROVE Base'
    <3>1. Do(w, CaptureDelete(c)) /\ CaptureDelete(c) \in Seq(Commands)
          /\ UNCHANGED <<task, queue, dedup, captask, captures, cache, created>>
      BY <2>7, ProgramsTyped DEF DeleteCapture
    <3>2. proc[w].pc = "slots" /\ w \in Procs
      BY <1>2, ProcsFacts DEF Base, LocalsOK
    <3>3. LocalsOK' /\ proc' \in [Procs -> Locals]
      BY <1>2, <3>1, <3>2, ProgramBase
    <3> QED
      BY <1>2, <3>1, <3>3 DEF Base, TypeOK
  <2>8. ASSUME NEW w \in Clients, NEW t \in Tasks, DeleteScheduled(w, t) PROVE Base'
    <3>1. Do(w, TaskDelete(t)) /\ TaskDelete(t) \in Seq(Commands)
          /\ UNCHANGED <<task, queue, dedup, captask, captures, cache, created>>
      BY <2>8, ProgramsTyped DEF DeleteScheduled
    <3>2. proc[w].pc = "slots" /\ w \in Procs
      BY <1>2, ProcsFacts DEF Base, LocalsOK
    <3>3. LocalsOK' /\ proc' \in [Procs -> Locals]
      BY <1>2, <3>1, <3>2, ProgramBase
    <3> QED
      BY <1>2, <3>1, <3>3 DEF Base, TypeOK
  <2>9. CASE UNCHANGED vars
    BY <1>2, <2>9 DEF Base, TypeOK, LocalsOK, vars, Todo, me
  <2> QED
    BY <1>2, <2>1, <2>2, <2>3, <2>4, <2>5, <2>6, <2>7, <2>8, <2>9 DEF AnyNext, CrashNext, Next
<1> QED
  BY <1>1, <1>2

LEMMA AnyStep ==
  /\ [Next]_vars => [CrashNext]_vars
  /\ [CrashNext]_vars => [AnyNext]_vars
  /\ [Next \/ \E w \in Clients, t \in Tasks : DeleteScheduled(w, t)]_vars => [AnyNext]_vars
BY DEF CrashNext, AnyNext

\* Whatever the Crawler, the clients and the admins do, at whatever command the Crawler
\* stops: every record and every pending command of lib/crawlers.py names a task, a
\* capture or a request where one is expected.
THEOREM TypeCorrect ==
  /\ Spec => []TypeOK
  /\ CrashSpec => []TypeOK
  /\ DeleteSpec => []TypeOK
<1>1. Base => TypeOK
  BY DEF Base
<1> QED
  BY <1>1, BaseHolds, AnyStep, PTL DEF Spec, CrashSpec, DeleteSpec

----------------------------------------------------------------------------
(***************************************************************************)
(* The commands that are pending.  A process is creating a task, which no  *)
(* one else has heard of; or it is the Crawler creating a capture, which   *)
(* no one else has heard of; or its commands are plain: they remove or put *)
(* back, in an order that never leaves a record without what it refers to. *)
(***************************************************************************)
TaskOps == {"domain", "hash", "start", "capture", "queue", "remove", "hdelDedup", "del"}
CaptureOps == {"captask", "zadd", "zrem", "cacheAdd", "cacheRem"}
PlainOps == {"queue", "start", "cacheAdd", "cacheRem", "zrem", "captask", "remove", "hdelDedup",
             "del"}

Quiet(p, t) == \A k \in DOMAIN Todo(p) : Todo(p)[k].op \in TaskOps => Todo(p)[k].key # t
QuietC(p, c) == \A k \in DOMAIN Todo(p) : Todo(p)[k].op \in CaptureOps => Todo(p)[k].key # c
NoUse(t) == queue[t] = None /\ me.task # t /\ \A c \in Captures : captask[c] # t

AfterDomain(t, r) == <<Cmd("dedup", r, t), Cmd("hash", t, r), Cmd("queue", t, Prio[r])>>
AfterDedup(t, r) == <<Cmd("hash", t, r), Cmd("queue", t, Prio[r])>>
AfterHash(t, r) == <<Cmd("queue", t, Prio[r])>>
AfterCapture(c, t) == <<Cmd("captask", c, t), Cmd("zadd", c, None), Cmd("cacheAdd", c, None)>>
AfterCapTask(c) == <<Cmd("zadd", c, None), Cmd("cacheAdd", c, None)>>
AfterZadd(c) == <<Cmd("cacheAdd", c, None)>>

Creates(p, t, r) ==
    /\ NoUse(t)
    /\ \A q \in Procs \ {p} : Quiet(q, t)
    /\ \/ Todo(p) = CreateTask(t, r) /\ \A s \in Reqs : dedup[s] # t
       \/ Todo(p) = AfterDomain(t, r) /\ task[t].domain /\ \A s \in Reqs : dedup[s] # t
       \/ Todo(p) = AfterDedup(t, r) /\ task[t].domain /\ \A s \in Reqs : dedup[s] = t => s = r

Takes(c) ==
    /\ me.pc = "push"
    /\ c \notin captures
    /\ \A q \in Clients : QuietC(q, c)
    /\ \/ /\ Todo(Crawler) = CreateCapture(c, me.task)
          /\ captask[c] = None /\ \A t \in Tasks : task[t].capture # c
       \/ /\ Todo(Crawler) = AfterCapture(c, me.task)
          /\ captask[c] = None /\ \A t \in Tasks : task[t].capture = c => t = me.task
       \/ Todo(Crawler) = AfterCapTask(c) /\ captask[c] = me.task

Earlier(p, k, op, key) == \E j \in DOMAIN Todo(p) : j < k /\ Todo(p)[j].op = op /\ Todo(p)[j].key = key
Later(p, k, op, key) == \E j \in DOMAIN Todo(p) : j > k /\ Todo(p)[j].op = op /\ Todo(p)[j].key = key

PlainAt(p, k) ==
    /\ Todo(p)[k].op \in PlainOps
    /\ Todo(p)[k].op = "captask" =>
          /\ Todo(p)[k].val = None
          /\ Todo(p)[k].key \in captures => Earlier(p, k, "zrem", Todo(p)[k].key)
    /\ Todo(p)[k].op = "cacheRem" => Later(p, k, "zrem", Todo(p)[k].key)
    /\ Todo(p)[k].op = "del" =>
          (\A r \in Reqs : dedup[r] # Todo(p)[k].key) \/ Earlier(p, k, "hdelDedup", Todo(p)[k].key)
    /\ Todo(p)[k].op = "remove" => p = Crawler
Plain(p) == \A k \in DOMAIN Todo(p) : PlainAt(p, k)

Shape(p) ==
    \/ \E t \in Tasks, r \in Reqs : Creates(p, t, r)
    \/ p = Crawler /\ \E c \in Captures : Takes(c)
    \/ Plain(p)
Shapes == \A p \in Procs : Shape(p)

\* The task of a request records the request, or nothing ever uses it: its creator is
\* about to record it, or has stopped.
DedupKnown ==
    \A r \in Reqs, t \in Tasks : dedup[r] = t =>
        \/ task[t].hash = r
        \/ NoUse(t) /\ \A q \in Procs : Quiet(q, t) \/ Todo(q) = AfterDedup(t, r)

\* The capture a task names is its own, or forgotten.
CaptureKnown ==
    \A t \in Tasks, c \in Captures : task[t].capture = c => captask[c] = t \/ captask[c] = None

Pends == Base /\ Shapes /\ DedupKnown /\ CaptureKnown

LEMMA CreateLiterals ==
  ASSUME NEW t, NEW r
  PROVE  /\ DOMAIN CreateTask(t, r) = 1 .. 4 /\ Tail(CreateTask(t, r)) = AfterDomain(t, r)
         /\ CreateTask(t, r)[1] = Cmd("domain", t, TRUE)
         /\ CreateTask(t, r)[2] = Cmd("dedup", r, t)
         /\ CreateTask(t, r)[3] = Cmd("hash", t, r)
         /\ CreateTask(t, r)[4] = Cmd("queue", t, Prio[r])
         /\ DOMAIN AfterDomain(t, r) = 1 .. 3 /\ Tail(AfterDomain(t, r)) = AfterDedup(t, r)
         /\ AfterDomain(t, r)[1] = Cmd("dedup", r, t)
         /\ AfterDomain(t, r)[2] = Cmd("hash", t, r)
         /\ AfterDomain(t, r)[3] = Cmd("queue", t, Prio[r])
         /\ DOMAIN AfterDedup(t, r) = 1 .. 2 /\ Tail(AfterDedup(t, r)) = AfterHash(t, r)
         /\ AfterDedup(t, r)[1] = Cmd("hash", t, r)
         /\ AfterDedup(t, r)[2] = Cmd("queue", t, Prio[r])
         /\ DOMAIN AfterHash(t, r) = 1 .. 1 /\ AfterHash(t, r)[1] = Cmd("queue", t, Prio[r])
BY DEF CreateTask, AfterDomain, AfterDedup, AfterHash

LEMMA CaptureLiterals ==
  ASSUME NEW c, NEW t
  PROVE  /\ DOMAIN CreateCapture(c, t) = 1 .. 4 /\ Tail(CreateCapture(c, t)) = AfterCapture(c, t)
         /\ CreateCapture(c, t)[1] = Cmd("capture", t, c)
         /\ CreateCapture(c, t)[2] = Cmd("captask", c, t)
         /\ CreateCapture(c, t)[3] = Cmd("zadd", c, None)
         /\ CreateCapture(c, t)[4] = Cmd("cacheAdd", c, None)
         /\ DOMAIN AfterCapture(c, t) = 1 .. 3 /\ Tail(AfterCapture(c, t)) = AfterCapTask(c)
         /\ AfterCapture(c, t)[1] = Cmd("captask", c, t)
         /\ AfterCapture(c, t)[2] = Cmd("zadd", c, None)
         /\ AfterCapture(c, t)[3] = Cmd("cacheAdd", c, None)
         /\ DOMAIN AfterCapTask(c) = 1 .. 2 /\ Tail(AfterCapTask(c)) = AfterZadd(c)
         /\ AfterCapTask(c)[1] = Cmd("zadd", c, None)
         /\ AfterCapTask(c)[2] = Cmd("cacheAdd", c, None)
         /\ DOMAIN AfterZadd(c) = 1 .. 1 /\ AfterZadd(c)[1] = Cmd("cacheAdd", c, None)
BY DEF CreateCapture, AfterCapture, AfterCapTask, AfterZadd

\* A process that creates a task names it.
LEMMA CreatesNames ==
  ASSUME NEW p, NEW t, NEW r,
         \/ Todo(p) = CreateTask(t, r) \/ Todo(p) = AfterDomain(t, r) \/ Todo(p) = AfterDedup(t, r)
  PROVE  ~Quiet(p, t)
<1>1. CASE Todo(p) = CreateTask(t, r)
  <2>1. 3 \in DOMAIN CreateTask(t, r) /\ CreateTask(t, r)[3] = Cmd("hash", t, r)
    BY DEF CreateTask
  <2>2. 3 \in DOMAIN Todo(p) /\ Todo(p)[3] = Cmd("hash", t, r)
    BY <1>1, <2>1
  <2>3. Todo(p)[3].op = "hash" /\ Todo(p)[3].key = t
    BY <2>2, CmdFields
  <2> QED
    BY <2>2, <2>3 DEF Quiet, TaskOps
<1>2. CASE Todo(p) = AfterDomain(t, r)
  <2>1. 2 \in DOMAIN AfterDomain(t, r) /\ AfterDomain(t, r)[2] = Cmd("hash", t, r)
    BY DEF AfterDomain
  <2>2. 2 \in DOMAIN Todo(p) /\ Todo(p)[2] = Cmd("hash", t, r)
    BY <1>2, <2>1
  <2>3. Todo(p)[2].op = "hash" /\ Todo(p)[2].key = t
    BY <2>2, CmdFields
  <2> QED
    BY <2>2, <2>3 DEF Quiet, TaskOps
<1>3. CASE Todo(p) = AfterDedup(t, r)
  <2>1. 1 \in DOMAIN AfterDedup(t, r) /\ AfterDedup(t, r)[1] = Cmd("hash", t, r)
    BY DEF AfterDedup
  <2>2. 1 \in DOMAIN Todo(p) /\ Todo(p)[1] = Cmd("hash", t, r)
    BY <1>3, <2>1
  <2>3. Todo(p)[1].op = "hash" /\ Todo(p)[1].key = t
    BY <2>2, CmdFields
  <2> QED
    BY <2>2, <2>3 DEF Quiet, TaskOps
<1> QED
  BY <1>1, <1>2, <1>3

\* The command that is next tells what its process is doing.
LEMMA Heads ==
  ASSUME Base, Shapes, NEW p \in Procs, Todo(p) # <<>>
  PROVE  \/ \E t \in Tasks, r \in Reqs :
               /\ Creates(p, t, r)
               /\ \/ Next1(p) = Cmd("domain", t, TRUE) /\ Todo(p) = CreateTask(t, r)
                  \/ Next1(p) = Cmd("dedup", r, t) /\ Todo(p) = AfterDomain(t, r) /\ task[t].domain
                  \/ Next1(p) = Cmd("hash", t, r) /\ Todo(p) = AfterDedup(t, r) /\ task[t].domain
         \/ p = Crawler /\ \E c \in Captures :
               /\ Takes(c)
               /\ \/ Next1(p) = Cmd("capture", me.task, c) /\ Todo(p) = CreateCapture(c, me.task)
                  \/ Next1(p) = Cmd("captask", c, me.task) /\ Todo(p) = AfterCapture(c, me.task)
                  \/ Next1(p) = Cmd("zadd", c, None) /\ Todo(p) = AfterCapTask(c)
         \/ Plain(p) /\ PlainAt(p, 1)
<1>1. CASE \E t \in Tasks, r \in Reqs : Creates(p, t, r)
  <2>1. PICK t \in Tasks, r \in Reqs : Creates(p, t, r)
    BY <1>1
  <2>2. /\ CreateTask(t, r)[1] = Cmd("domain", t, TRUE)
        /\ AfterDomain(t, r)[1] = Cmd("dedup", r, t)
        /\ AfterDedup(t, r)[1] = Cmd("hash", t, r)
    BY CreateLiterals
  <2>3. \/ Next1(p) = Cmd("domain", t, TRUE) /\ Todo(p) = CreateTask(t, r)
        \/ Next1(p) = Cmd("dedup", r, t) /\ Todo(p) = AfterDomain(t, r) /\ task[t].domain
        \/ Next1(p) = Cmd("hash", t, r) /\ Todo(p) = AfterDedup(t, r) /\ task[t].domain
    BY <2>1, <2>2 DEF Creates, Next1
  <2> QED
    BY <2>1, <2>3
<1>2. CASE p = Crawler /\ \E c \in Captures : Takes(c)
  <2>1. PICK c \in Captures : Takes(c)
    BY <1>2
  <2>2. /\ CreateCapture(c, me.task)[1] = Cmd("capture", me.task, c)
        /\ AfterCapture(c, me.task)[1] = Cmd("captask", c, me.task)
        /\ AfterCapTask(c)[1] = Cmd("zadd", c, None)
    BY CaptureLiterals
  <2>3. \/ Next1(p) = Cmd("capture", me.task, c) /\ Todo(p) = CreateCapture(c, me.task)
        \/ Next1(p) = Cmd("captask", c, me.task) /\ Todo(p) = AfterCapture(c, me.task)
        \/ Next1(p) = Cmd("zadd", c, None) /\ Todo(p) = AfterCapTask(c)
    BY <1>2, <2>1, <2>2 DEF Takes, Next1
  <2> QED
    BY <1>2, <2>1, <2>3
<1>3. CASE Plain(p)
  <2>1. 1 \in DOMAIN Todo(p)
    BY LocalsFacts DEF Base, TypeOK
  <2> QED
    BY <1>3, <2>1 DEF Plain
<1> QED
  BY <1>1, <1>2, <1>3 DEF Shapes, Shape

\* The commands CrawlerTask.remove goes on with, before the ones that were pending.
LEMMA RemovalFacts ==
  ASSUME TypeOK, NEW u \in Tasks, NEW q \in Seq(Commands)
  PROVE  \E n \in {2, 4} :
           /\ DOMAIN (Removal(u) \o q) = 1 .. n + Len(q)
           /\ \A k \in 1 .. Len(q) : (Removal(u) \o q)[n + k] = q[k]
           /\ (Removal(u) \o q)[n - 1] = Cmd("hdelDedup", u, None)
           /\ (Removal(u) \o q)[n] = Cmd("del", u, None)
           /\ n = 2 => task[u].capture = None
           /\ n = 4 => /\ task[u].capture \in Captures
                       /\ (Removal(u) \o q)[1] = Cmd("zrem", task[u].capture, None)
                       /\ (Removal(u) \o q)[2] = Cmd("captask", task[u].capture, None)
<1> DEFINE c == task[u].capture
           n == IF c = None THEN 2 ELSE 4
           R == Removal(u)
<1>1. c \in Captures \cup {None}
  BY DEF TypeOK
<1>2. R \in Seq(Commands)
  BY RemovalTyped
<1>3. CASE c = None
  <2>1. R = <<Cmd("hdelDedup", u, None), Cmd("del", u, None)>>
    BY <1>3 DEF Removal
  <2>2. Len(R) = 2 /\ R[1] = Cmd("hdelDedup", u, None) /\ R[2] = Cmd("del", u, None)
    BY <2>1
  <2> HIDE DEF R
  <2>3. /\ DOMAIN (R \o q) = 1 .. 2 + Len(q)
        /\ \A k \in 1 .. Len(q) : (R \o q)[2 + k] = q[k]
        /\ (R \o q)[1] = R[1] /\ (R \o q)[2] = R[2]
    <3>1. /\ DOMAIN (R \o q) = 1 .. Len(R) + Len(q)
          /\ \A k \in 1 .. Len(R) : (R \o q)[k] = R[k]
          /\ \A k \in 1 .. Len(q) : (R \o q)[Len(R) + k] = q[k]
      BY <1>2, Joined
    <3> QED
      BY <2>2, <3>1
  <2> QED
    BY <1>3, <2>2, <2>3 DEF R
<1>4. CASE c # None
  <2> DEFINE a == <<Cmd("zrem", c, None), Cmd("captask", c, None)>>
             b == <<Cmd("hdelDedup", u, None), Cmd("del", u, None)>>
  <2>1. R = a \o b
    BY <1>4 DEF Removal, CaptureRemove
  <2>2. /\ Len(a \o b) = 4
        /\ (a \o b)[1] = Cmd("zrem", c, None) /\ (a \o b)[2] = Cmd("captask", c, None)
        /\ (a \o b)[3] = Cmd("hdelDedup", u, None) /\ (a \o b)[4] = Cmd("del", u, None)
    BY <1>1, <1>4, CommandsTyped, JoinedPairs
  <2>3. /\ Len(R) = 4 /\ R[1] = Cmd("zrem", c, None) /\ R[2] = Cmd("captask", c, None)
        /\ R[3] = Cmd("hdelDedup", u, None) /\ R[4] = Cmd("del", u, None)
    BY <2>1, <2>2
  <2> HIDE DEF R, a, b
  <2>4. /\ DOMAIN (R \o q) = 1 .. 4 + Len(q)
        /\ \A k \in 1 .. Len(q) : (R \o q)[4 + k] = q[k]
        /\ (R \o q)[1] = R[1] /\ (R \o q)[2] = R[2] /\ (R \o q)[3] = R[3] /\ (R \o q)[4] = R[4]
    <3>1. /\ DOMAIN (R \o q) = 1 .. Len(R) + Len(q)
          /\ \A k \in 1 .. Len(R) : (R \o q)[k] = R[k]
          /\ \A k \in 1 .. Len(q) : (R \o q)[Len(R) + k] = q[k]
      BY <1>2, Joined
    <3> QED
      BY <2>3, <3>1
  <2> QED
    BY <1>1, <1>4, <2>3, <2>4 DEF R
<1> QED
  BY <1>3, <1>4

\* The local state a command leaves: the list moved on, or what is left of a removal.
LEMMA CommandLocals ==
  ASSUME Base, NEW p \in Procs, Command(p)
  PROVE  /\ \A q \in Procs \ {p} : proc'[q] = proc[q] /\ Todo(q)' = Todo(q)
         /\ \A q \in Procs : proc'[q].pc = proc[q].pc
         /\ me'.task = me.task /\ me'.pc = me.pc /\ me'.capture = me.capture /\ me'.prio = me.prio
         /\ Next1(p).op # "remove" => Done(p)
         /\ Next1(p).op = "remove" =>
               Next1(p).key \in Tasks /\ Todo(p)' = Removal(Next1(p).key) \o Tail(Todo(p))
<1>1. proc \in [Procs -> Locals] /\ TypeOK
  BY DEF Base, TypeOK
<1>2. Todo(p) # <<>> /\ Next1(p) \in Commands
  BY <1>1, Effects
<1>3. CASE Next1(p).op # "remove"
  <2>1. Done(p)
    BY <1>1, <1>3, Effects DEF Command
  <2> QED
    BY <1>1, <1>2, <1>3, <2>1, DoneFacts, ProcsFacts DEF me
<1>4. CASE Next1(p).op = "remove"
  <2>1. proc' = [proc EXCEPT ![p].todo = Removal(Next1(p).key) \o Tail(Todo(p))]
    BY <1>1, <1>4, Effects DEF Command
  <2>2. Next1(p).key \in Tasks
    BY <1>2, <1>4, CommandTypes
  <2>3. Removal(Next1(p).key) \o Tail(Todo(p)) \in Seq(Commands)
    <3>1. Removal(Next1(p).key) \in Seq(Commands)
      BY <1>1, <2>2, RemovalTyped
    <3>2. Tail(Todo(p)) \in Seq(Commands)
      BY <1>1, <1>2, LocalsFacts
    <3> QED
      BY <3>1, <3>2, ConcatProperties
  <2> QED
    BY <1>1, <1>4, <2>1, <2>2, <2>3, NewTodo, ProcsFacts DEF me
<1> QED
  BY <1>3, <1>4

\* The places of the pending commands after a command.
LEMMA Shifted ==
  ASSUME Base, NEW p \in Procs, Command(p)
  PROVE  \E n \in {0, 2, 4} :
           /\ Len(Todo(p)) \in Nat /\ DOMAIN Todo(p) = 1 .. Len(Todo(p))
           /\ DOMAIN Todo(p)' = 1 .. n + Len(Todo(p)) - 1
           /\ \A m \in DOMAIN Todo(p) : m # 1 => Todo(p)'[n + m - 1] = Todo(p)[m]
           /\ n = 0 <=> Next1(p).op # "remove"
           /\ n # 0 => /\ Next1(p).key \in Tasks
                       /\ Todo(p)'[n - 1] = Cmd("hdelDedup", Next1(p).key, None)
                       /\ Todo(p)'[n] = Cmd("del", Next1(p).key, None)
           /\ n = 2 => task[Next1(p).key].capture = None
           /\ n = 4 => /\ task[Next1(p).key].capture \in Captures
                       /\ Todo(p)'[1] = Cmd("zrem", task[Next1(p).key].capture, None)
                       /\ Todo(p)'[2] = Cmd("captask", task[Next1(p).key].capture, None)
<1>1. proc \in [Procs -> Locals] /\ TypeOK
  BY DEF Base, TypeOK
<1>2. /\ Todo(p) # <<>> /\ Todo(p) \in Seq(Commands)
      /\ Len(Todo(p)) \in Nat /\ DOMAIN Todo(p) = 1 .. Len(Todo(p))
  BY <1>1, Effects, LocalsFacts
<1>3. CASE Next1(p).op # "remove"
  <2> DEFINE w == Todo(p)'
             q == Todo(p)
  <2>1. Done(p) /\ Todo(p)' = Tail(Todo(p))
    BY <1>1, <1>2, <1>3, CommandLocals, DoneFacts
  <2>2. Len(w) = Len(q) - 1 /\ w \in Seq(Commands)
        /\ \A m \in DOMAIN q : m # 1 => w[m - 1] = q[m]
    BY <1>2, <2>1, TailFacts
  <2>3. DOMAIN w = 1 .. 0 + Len(q) - 1
    BY <1>2, <2>2
  <2>4. \A m \in DOMAIN q : m # 1 => w[0 + m - 1] = q[m]
    <3>1. \A m \in DOMAIN q : 0 + m - 1 = m - 1
      BY <1>2
    <3> QED
      BY <2>2, <3>1
  <2>5. DOMAIN Todo(p)' = 1 .. 0 + Len(Todo(p)) - 1
    BY <2>3
  <2>6. \A m \in DOMAIN Todo(p) : m # 1 => Todo(p)'[0 + m - 1] = Todo(p)[m]
    BY <2>4
  <2> HIDE DEF w, q
  <2> WITNESS 0 \in {0, 2, 4}
  <2> QED
    BY <1>2, <1>3, <2>5, <2>6
<1>4. CASE Next1(p).op = "remove"
  <2> DEFINE u == Next1(p).key
             q == Tail(Todo(p))
  <2>1. u \in Tasks /\ Todo(p)' = Removal(u) \o q
    BY <1>4, CommandLocals
  <2>2. q \in Seq(Commands) /\ Len(q) = Len(Todo(p)) - 1 /\ Len(q) \in Nat
        /\ \A m \in DOMAIN Todo(p) : m # 1 => m - 1 \in 1 .. Len(q) /\ q[m - 1] = Todo(p)[m]
    <3>1. q \in Seq(Commands) /\ Len(q) = Len(Todo(p)) - 1
          /\ \A m \in DOMAIN Todo(p) : m # 1 => m - 1 \in DOMAIN q /\ q[m - 1] = Todo(p)[m]
      BY <1>2, TailFacts
    <3>2. Len(q) \in Nat /\ DOMAIN q = 1 .. Len(q)
      BY <3>1, LenProperties
    <3> QED
      BY <3>1, <3>2
  <2> HIDE DEF u, q
  <2>3. PICK n \in {2, 4} :
           /\ DOMAIN (Removal(u) \o q) = 1 .. n + Len(q)
           /\ \A j \in 1 .. Len(q) : (Removal(u) \o q)[n + j] = q[j]
           /\ (Removal(u) \o q)[n - 1] = Cmd("hdelDedup", u, None)
           /\ (Removal(u) \o q)[n] = Cmd("del", u, None)
           /\ n = 2 => task[u].capture = None
           /\ n = 4 => /\ task[u].capture \in Captures
                       /\ (Removal(u) \o q)[1] = Cmd("zrem", task[u].capture, None)
                       /\ (Removal(u) \o q)[2] = Cmd("captask", task[u].capture, None)
    BY <1>1, <2>1, <2>2, RemovalFacts
  <2> DEFINE w == Removal(u) \o q
  <2> HIDE DEF w
  <2>4. /\ Todo(p)' = w /\ DOMAIN w = 1 .. n + Len(q)
        /\ \A j \in 1 .. Len(q) : w[n + j] = q[j]
        /\ w[n - 1] = Cmd("hdelDedup", u, None)
        /\ w[n] = Cmd("del", u, None)
        /\ n = 2 => task[u].capture = None
        /\ n = 4 => /\ task[u].capture \in Captures
                    /\ w[1] = Cmd("zrem", task[u].capture, None)
                    /\ w[2] = Cmd("captask", task[u].capture, None)
    BY <2>1, <2>3 DEF w
  <2>5. DOMAIN w = 1 .. n + Len(Todo(p)) - 1
    BY <1>2, <2>2, <2>4
  <2>6. \A m \in DOMAIN Todo(p) : m # 1 => w[n + m - 1] = Todo(p)[m]
    <3> SUFFICES ASSUME NEW m \in DOMAIN Todo(p), m # 1 PROVE w[n + m - 1] = Todo(p)[m]
      OBVIOUS
    <3>1. m - 1 \in 1 .. Len(q) /\ n + (m - 1) = n + m - 1
      BY <1>2, <2>2
    <3> QED
      BY <2>2, <2>4, <3>1
  <2> QED
    BY <1>2, <1>4, <2>1, <2>4, <2>5, <2>6 DEF u
<1> QED
  BY <1>3, <1>4

\* What is pending after a command was pending before, or is part of a removal.
LEMMA NewEntries ==
  ASSUME Base, NEW p \in Procs, Command(p), NEW k \in DOMAIN Todo(p)'
  PROVE  \/ \E j \in DOMAIN Todo(p) : Todo(p)'[k] = Todo(p)[j]
         \/ /\ Next1(p).op = "remove" /\ Next1(p).key \in Tasks
            /\ \/ /\ task[Next1(p).key].capture \in Captures
                  /\ \/ Todo(p)'[k] = Cmd("zrem", task[Next1(p).key].capture, None)
                     \/ Todo(p)'[k] = Cmd("captask", task[Next1(p).key].capture, None)
               \/ Todo(p)'[k] = Cmd("hdelDedup", Next1(p).key, None)
               \/ Todo(p)'[k] = Cmd("del", Next1(p).key, None)
<1>1. PICK n \in {0, 2, 4} :
         /\ Len(Todo(p)) \in Nat /\ DOMAIN Todo(p) = 1 .. Len(Todo(p))
         /\ DOMAIN Todo(p)' = 1 .. n + Len(Todo(p)) - 1
         /\ \A m \in DOMAIN Todo(p) : m # 1 => Todo(p)'[n + m - 1] = Todo(p)[m]
         /\ n = 0 <=> Next1(p).op # "remove"
         /\ n # 0 => /\ Next1(p).key \in Tasks
                     /\ Todo(p)'[n - 1] = Cmd("hdelDedup", Next1(p).key, None)
                     /\ Todo(p)'[n] = Cmd("del", Next1(p).key, None)
         /\ n = 4 => /\ task[Next1(p).key].capture \in Captures
                     /\ Todo(p)'[1] = Cmd("zrem", task[Next1(p).key].capture, None)
                     /\ Todo(p)'[2] = Cmd("captask", task[Next1(p).key].capture, None)
  BY Shifted
<1> DEFINE w == Todo(p)'
<1>2. k \in 1 .. n + Len(Todo(p)) - 1
  BY <1>1
<1>3. CASE k > n
  <2>1. k - n + 1 \in DOMAIN Todo(p) /\ k - n + 1 # 1 /\ n + (k - n + 1) - 1 = k
    BY <1>1, <1>2, <1>3
  <2>2. w[k] = Todo(p)[k - n + 1]
    BY <1>1, <2>1
  <2> QED
    BY <2>1, <2>2
<1>4. CASE k <= n
  <2>1. n # 0 /\ (k = n \/ k = n - 1 \/ (n = 4 /\ (k = 1 \/ k = 2)))
    BY <1>2, <1>4
  <2> QED
    BY <1>1, <2>1
<1> QED
  BY <1>2, <1>3, <1>4

\* A command of a process that does not name a task leaves what is known of it.
LEMMA TaskUntouched ==
  ASSUME Base, Shapes, NEW p \in Procs, Command(p), NEW t \in Tasks, NoUse(t), Quiet(p, t)
  PROVE  /\ NoUse(t)' /\ Quiet(p, t)' /\ task'[t] = task[t]
         /\ \A r \in Reqs : dedup'[r] = t => dedup[r] = t
<1> DEFINE h == Next1(p)
<1>1. proc \in [Procs -> Locals] /\ TypeOK
  BY DEF Base, TypeOK
<1>2. Todo(p) # <<>> /\ h \in Commands /\ 1 \in DOMAIN Todo(p) /\ h = Todo(p)[1]
  BY <1>1, Effects DEF Next1
<1>3. h.op \in TaskOps => h.key # t
  BY <1>2 DEF Quiet
<1>4. (h.op = "dedup" \/ h.op = "captask") => h.val # t
  <2>1. ASSUME NEW u \in Tasks, NEW r \in Reqs, Creates(p, u, r),
               h = Cmd("domain", u, TRUE) \/ h = Cmd("dedup", r, u) \/ h = Cmd("hash", u, r)
        PROVE  (h.op = "dedup" \/ h.op = "captask") => h.val # t
    <3>1. u # t
      BY <2>1, CreatesNames DEF Creates
    <3>2. \/ h.op = "domain" /\ h.val = TRUE
          \/ h.op = "dedup" /\ h.val = u
          \/ h.op = "hash" /\ h.val = r
      BY <2>1 DEF Cmd
    <3> QED
      BY <3>1, <3>2
  <2>2. ASSUME NEW c \in Captures,
               \/ h = Cmd("capture", me.task, c) \/ h = Cmd("captask", c, me.task)
               \/ h = Cmd("zadd", c, None)
        PROVE  (h.op = "dedup" \/ h.op = "captask") => h.val # t
    BY <2>2, CmdFields DEF NoUse
  <2>3. CASE PlainAt(p, 1)
    BY <1>2, <2>3, CrawlerAssumption DEF PlainAt, PlainOps
  <2> QED
    BY <1>2, <2>1, <2>2, <2>3, Heads
<1> HIDE DEF h
<1>5. me'.task = me.task
  BY CommandLocals
<1>6. Quiet(p, t)'
  <2> SUFFICES ASSUME NEW k \in DOMAIN Todo(p)', Todo(p)'[k].op \in TaskOps
               PROVE  Todo(p)'[k].key # t
    BY DEF Quiet
  <2>1. CASE \E j \in DOMAIN Todo(p) : Todo(p)'[k] = Todo(p)[j]
    BY <2>1 DEF Quiet
  <2>2. CASE h.op = "remove" /\ h.key \in Tasks /\ Todo(p)'[k].key = h.key
    BY <1>3, <2>2 DEF TaskOps
  <2>3. \/ \E j \in DOMAIN Todo(p) : Todo(p)'[k] = Todo(p)[j]
        \/ /\ h.op = "remove" /\ h.key \in Tasks
           /\ Todo(p)'[k].op \in {"zrem", "captask"} \/ Todo(p)'[k].key = h.key
    BY NewEntries, CmdFields DEF h
  <2> QED
    BY <2>1, <2>2, <2>3 DEF TaskOps
<1>7. task'[t] = task[t]
  <2>1. CASE HsetTask(p)
    BY <1>1, <1>2, <1>3, <2>1, Effects DEF h, TaskOps, TypeOK
  <2>2. CASE DeleteTask(p)
    BY <1>1, <1>2, <1>3, <2>2, Effects DEF h, TaskOps, TypeOK
  <2> QED
    BY <1>1, <2>1, <2>2, Effects DEF Command
<1>8. queue'[t] = queue[t]
  <2>1. CASE ZaddQueue(p)
    BY <1>1, <1>2, <1>3, <2>1, Effects DEF h, TaskOps, TypeOK
  <2> QED
    BY <1>1, <2>1, Effects DEF Command
<1>9. \A r \in Reqs : dedup'[r] = t => dedup[r] = t
  <2>1. CASE HsetDedup(p)
    BY <1>1, <1>2, <1>4, <2>1, Effects DEF h, TypeOK
  <2>2. CASE HdelDedup(p)
    BY <1>1, <2>2, Effects, CrawlerAssumption
  <2> QED
    BY <1>1, <2>1, <2>2, Effects DEF Command
<1>10. \A c \in Captures : captask'[c] # t
  <2>1. CASE HsetCapTask(p)
    BY <1>1, <1>2, <1>4, <2>1, Effects DEF h, NoUse, TypeOK
  <2> QED
    BY <1>1, <2>1, Effects DEF Command, NoUse
<1> QED
  BY <1>5, <1>6, <1>7, <1>8, <1>9, <1>10 DEF NoUse

\* Only the creator of a capture adds it to crawler:captures, and only the creator of a
\* task adds it to crawler:queue:hash.
LEMMA NewCapture ==
  ASSUME Base, Shapes, NEW p \in Procs, Command(p), NEW c \in captures', c \notin captures
  PROVE  /\ p = Crawler /\ c \in Captures /\ Takes(c) /\ Todo(p) = AfterCapTask(c)
         /\ ZaddCaptures(p) /\ captures' = captures \cup {c}
<1> DEFINE h == Next1(p)
<1>1. proc \in [Procs -> Locals] /\ TypeOK
  BY DEF Base, TypeOK
<1>2. Todo(p) # <<>> /\ h \in Commands /\ 1 \in DOMAIN Todo(p) /\ h = Todo(p)[1]
  BY <1>1, Effects DEF Next1
<1> HIDE DEF h
<1>3. ZaddCaptures(p) /\ h.op = "zadd" /\ h.key = c /\ captures' = captures \cup {c}
  BY <1>1, Effects DEF Command, h
<1>4. ~ \E t \in Tasks, r \in Reqs :
          h = Cmd("domain", t, TRUE) \/ h = Cmd("dedup", r, t) \/ h = Cmd("hash", t, r)
  BY <1>3 DEF Cmd
<1>5. ~PlainAt(p, 1)
  BY <1>2, <1>3 DEF PlainAt, PlainOps
<1>6. PICK d \in Captures : /\ p = Crawler /\ Takes(d)
                            /\ \/ h = Cmd("capture", me.task, d)
                               \/ h = Cmd("captask", d, me.task)
                               \/ h = Cmd("zadd", d, None) /\ Todo(p) = AfterCapTask(d)
  BY <1>2, <1>4, <1>5, Heads DEF h
<1>7. h = Cmd("zadd", d, None) /\ Todo(p) = AfterCapTask(d)
  BY <1>3, <1>6 DEF Cmd
<1>8. d = c
  BY <1>3, <1>7 DEF Cmd
<1> QED
  BY <1>3, <1>6, <1>7, <1>8

LEMMA NewDedup ==
  ASSUME Base, Shapes, NEW p \in Procs, Command(p), NEW r \in Reqs, NEW t \in Tasks,
         dedup'[r] = t, dedup[r] # t
  PROVE  /\ Creates(p, t, r) /\ Todo(p) = AfterDomain(t, r) /\ task[t].domain
         /\ HsetDedup(p) /\ dedup' = [dedup EXCEPT ![r] = t]
<1> DEFINE h == Next1(p)
<1>1. proc \in [Procs -> Locals] /\ TypeOK
  BY DEF Base, TypeOK
<1>2. Todo(p) # <<>> /\ h \in Commands /\ 1 \in DOMAIN Todo(p) /\ h = Todo(p)[1]
  BY <1>1, Effects DEF Next1
<1> HIDE DEF h
<1>3. HsetDedup(p)
  <2>1. ~HdelDedup(p)
    BY <1>1, Effects, CrawlerAssumption
  <2> QED
    BY <1>1, <2>1, Effects DEF Command
<1>4. h.op = "dedup" /\ dedup' = [dedup EXCEPT ![h.key] = h.val]
  BY <1>1, <1>3, Effects DEF h
<1>5. h.key = r /\ h.val = t
  BY <1>4 DEF Base, TypeOK
<1>6. ~PlainAt(p, 1)
  BY <1>2, <1>4 DEF PlainAt, PlainOps
<1>7. ~ \E c \in Captures : \/ h = Cmd("capture", me.task, c) \/ h = Cmd("captask", c, me.task)
                            \/ h = Cmd("zadd", c, None)
  BY <1>4 DEF Cmd
<1>8. PICK u \in Tasks, s \in Reqs :
         /\ Creates(p, u, s)
         /\ \/ h = Cmd("domain", u, TRUE)
            \/ h = Cmd("dedup", s, u) /\ Todo(p) = AfterDomain(u, s) /\ task[u].domain
            \/ h = Cmd("hash", u, s)
  BY <1>2, <1>6, <1>7, Heads DEF h
<1>9. h = Cmd("dedup", s, u) /\ Todo(p) = AfterDomain(u, s) /\ task[u].domain
  BY <1>4, <1>8 DEF Cmd
<1>10. s = r /\ u = t
  BY <1>5, <1>9 DEF Cmd
<1> QED
  BY <1>3, <1>4, <1>5, <1>8, <1>9, <1>10

\* A command of a client that does not name a capture leaves what is known of it.
LEMMA CaptureUntouched ==
  ASSUME Base, Shapes, NEW p \in Clients, Command(p), NEW c \in Captures, QuietC(p, c),
         c \notin captures
  PROVE  /\ QuietC(p, c)' /\ c \notin captures' /\ captask'[c] = captask[c]
         /\ \A t \in Tasks : task'[t].capture = c => task[t].capture = c
<1> DEFINE h == Next1(p)
<1>1. proc \in [Procs -> Locals] /\ TypeOK /\ p \in Procs /\ p # Crawler
  BY ProcsFacts DEF Base, TypeOK
<1>2. Todo(p) # <<>> /\ h \in Commands /\ 1 \in DOMAIN Todo(p) /\ h = Todo(p)[1]
  BY <1>1, Effects DEF Next1
<1>3. h.op \in CaptureOps => h.key # c
  BY <1>2 DEF QuietC
<1>4. h.op # "capture" /\ h.op # "remove"
  <2>1. CASE PlainAt(p, 1)
    BY <1>1, <1>2, <2>1 DEF PlainAt, PlainOps
  <2>2. CASE \E t \in Tasks, r \in Reqs :
                h = Cmd("domain", t, TRUE) \/ h = Cmd("dedup", r, t) \/ h = Cmd("hash", t, r)
    BY <2>2 DEF Cmd
  <2> QED
    BY <1>1, <1>2, <2>1, <2>2, Heads
<1> HIDE DEF h
<1>5. QuietC(p, c)'
  <2> SUFFICES ASSUME NEW k \in DOMAIN Todo(p)', Todo(p)'[k].op \in CaptureOps
               PROVE  Todo(p)'[k].key # c
    BY DEF QuietC
  <2>1. \E j \in DOMAIN Todo(p) : Todo(p)'[k] = Todo(p)[j]
    BY <1>1, <1>4, NewEntries DEF h
  <2> QED
    BY <2>1 DEF QuietC
<1>6. c \notin captures'
  BY <1>1, NewCapture
<1>7. captask'[c] = captask[c]
  <2>1. CASE HsetCapTask(p)
    BY <1>1, <1>2, <1>3, <2>1, Effects DEF h, CaptureOps, TypeOK
  <2> QED
    BY <1>1, <2>1, Effects DEF Command
<1>8. \A t \in Tasks : task'[t].capture = c => task[t].capture = c
  <2>1. CASE HsetTask(p)
    <3>1. h.op \in {"domain", "hash", "start"} /\ h.key \in Tasks
          /\ task' = [task EXCEPT ![h.key] = [@ EXCEPT ![h.op] = h.val]]
      BY <1>1, <1>2, <1>4, <2>1, Effects, CommandTypes DEF h
    <3>2. [task[h.key] EXCEPT ![h.op] = h.val].capture = task[h.key].capture
      <4>1. task[h.key] \in [domain : BOOLEAN, hash : Reqs \cup {None}, start : BOOLEAN,
                             capture : Captures \cup {None}]
        BY <1>1, <3>1 DEF TypeOK
      <4>2. CASE h.op = "domain"
        BY <4>1, <4>2
      <4>3. CASE h.op = "hash"
        BY <4>1, <4>3
      <4>4. CASE h.op = "start"
        BY <4>1, <4>4
      <4> QED
        BY <3>1, <4>2, <4>3, <4>4
    <3> QED
      BY <1>1, <3>1, <3>2 DEF TypeOK
  <2>2. CASE DeleteTask(p)
    <3>1. task' = [task EXCEPT ![h.key] = NoTask]
      BY <1>1, <2>2, Effects DEF h
    <3> QED
      BY <1>1, <3>1, CrawlerAssumption DEF TypeOK, NoTask
  <2> QED
    BY <1>1, <2>1, <2>2, Effects DEF Command
<1> QED
  BY <1>5, <1>6, <1>7, <1>8

\* What other processes have to do stays in order.
LEMMA PlainKept ==
  ASSUME Base, Shapes, NEW p \in Procs, Command(p), NEW q \in Procs \ {p}, Plain(q)
  PROVE  Plain(q)'
<1>1. Todo(q)' = Todo(q)
  BY CommandLocals
<1> SUFFICES ASSUME NEW k \in DOMAIN Todo(q) PROVE PlainAt(q, k)'
  BY <1>1 DEF Plain
<1> DEFINE x == Todo(q)[k]
<1>2. PlainAt(q, k) /\ x \in Commands
  BY LocalsFacts DEF Plain, Base, TypeOK
<1>3. x.op = "captask" /\ x.key \notin captures => x.key \notin captures'
  <2> SUFFICES ASSUME x.op = "captask", x.key \notin captures, x.key \in captures'
               PROVE  FALSE
    OBVIOUS
  <2>1. p = Crawler /\ Takes(x.key)
    BY NewCapture
  <2>2. QuietC(q, x.key)
    BY <2>1, ProcsFacts DEF Takes
  <2> QED
    BY <2>2 DEF QuietC, CaptureOps
<1>4. x.op = "del" /\ (\A r \in Reqs : dedup[r] # x.key) => \A r \in Reqs : dedup'[r] # x.key
  <2> SUFFICES ASSUME x.op = "del", NEW r \in Reqs, dedup[r] # x.key, dedup'[r] = x.key
               PROVE  FALSE
    OBVIOUS
  <2>1. x.key \in Tasks
    BY <1>2, CommandTypes
  <2>2. Creates(p, x.key, r)
    BY <2>1, NewDedup
  <2>3. Quiet(q, x.key)
    BY <2>2 DEF Creates
  <2> QED
    BY <2>3 DEF Quiet, TaskOps
<1> QED
  BY <1>1, <1>2, <1>3, <1>4 DEF PlainAt, Earlier, Later

\* A removal that goes on leaves its commands in order.
LEMMA PlainGoesOn ==
  ASSUME Pends, NEW p \in Procs, Command(p), Plain(p)
  PROVE  Plain(p)'
<1> DEFINE h == Next1(p)
<1>0. PICK w : w = Todo(p)'
  OBVIOUS
<1>1. proc \in [Procs -> Locals] /\ TypeOK /\ Base /\ Shapes
  BY DEF Pends, Base, TypeOK
<1>2. Todo(p) # <<>> /\ h \in Commands /\ 1 \in DOMAIN Todo(p) /\ h = Todo(p)[1]
  BY <1>1, Effects DEF Next1
<1>3. h.op \in PlainOps
  BY <1>2 DEF Plain, PlainAt
<1>4. PICK n \in {0, 2, 4} :
         /\ Len(Todo(p)) \in Nat /\ DOMAIN Todo(p) = 1 .. Len(Todo(p))
         /\ DOMAIN Todo(p)' = 1 .. n + Len(Todo(p)) - 1
         /\ \A m \in DOMAIN Todo(p) : m # 1 => Todo(p)'[n + m - 1] = Todo(p)[m]
         /\ n = 0 <=> Next1(p).op # "remove"
         /\ n # 0 => /\ Next1(p).key \in Tasks
                     /\ Todo(p)'[n - 1] = Cmd("hdelDedup", Next1(p).key, None)
                     /\ Todo(p)'[n] = Cmd("del", Next1(p).key, None)
         /\ n = 2 => task[Next1(p).key].capture = None
         /\ n = 4 => /\ task[Next1(p).key].capture \in Captures
                     /\ Todo(p)'[1] = Cmd("zrem", task[Next1(p).key].capture, None)
                     /\ Todo(p)'[2] = Cmd("captask", task[Next1(p).key].capture, None)
  BY <1>1, Shifted
<1>5. captures' \subseteq captures
  <2> SUFFICES ASSUME NEW c \in captures', c \notin captures PROVE FALSE
    OBVIOUS
  <2>1. ZaddCaptures(p)
    BY <1>1, NewCapture
  <2>2. h.op = "zrem" /\ captures' = captures \ {h.key}
    BY <1>1, <1>3, <2>1, Effects DEF PlainOps
  <2> QED
    BY <2>2
<1>6. h.op = "zrem" => h.key \notin captures'
  BY <1>1, Effects DEF Command
<1>7. \A r \in Reqs : dedup'[r] = dedup[r] \/ dedup'[r] = None
  <2>1. ~HsetDedup(p)
    BY <1>1, <1>3, Effects DEF PlainOps
  <2>2. CASE HdelDedup(p)
    BY <1>1, <2>2, Effects
  <2> QED
    BY <1>1, <2>1, <2>2, Effects DEF Command
<1>8. h.op = "hdelDedup" => \A r \in Reqs : dedup'[r] # h.key
  <2> SUFFICES ASSUME h.op = "hdelDedup", NEW r \in Reqs, dedup'[r] = h.key PROVE FALSE
    OBVIOUS
  <2>1. h.key \in Tasks
    BY <1>2, CommandTypes
  <2>2. dedup[r] = h.key
    BY <1>7, <2>1, CrawlerAssumption
  <2>3. ~Quiet(p, h.key)
    BY <1>2 DEF Quiet, TaskOps
  <2>4. Todo(p) # AfterDedup(h.key, r)
    <3>1. AfterDedup(h.key, r)[1].op = "hash"
      BY DEF AfterDedup, Cmd
    <3> QED
      BY <1>2, <3>1
  <2>5. task[h.key].hash = r
    BY <2>1, <2>2, <2>3, <2>4 DEF Pends, DedupKnown
  <2>6. dedup' = [s \in Reqs |-> IF s = task[h.key].hash THEN None ELSE dedup[s]]
    BY <1>1, Effects DEF Command
  <2> QED
    BY <2>1, <2>5, <2>6, CrawlerAssumption
<1> HIDE DEF h
\* The entries of a removal.
<1>9. ASSUME NEW k \in 1 .. n PROVE PlainAt(p, k)'
  <2>1. h.op = "remove" /\ n # 0 /\ p = Crawler
    BY <1>2, <1>4, <1>9 DEF Plain, PlainAt, h
  <2>2. /\ n - 1 \in DOMAIN w /\ n \in DOMAIN w /\ n - 1 < n
        /\ w[n - 1].op = "hdelDedup" /\ w[n - 1].key = h.key
        /\ w[n].op = "del" /\ w[n].key = h.key
    BY <1>0, <1>4, <1>2, <2>1 DEF Cmd, h
  <2>3. CASE k = n - 1
    BY <1>0, <2>1, <2>2, <2>3 DEF PlainAt, PlainOps
  <2>4. CASE k = n
    <3>1. Earlier(p, k, "hdelDedup", w[k].key)'
      BY <1>0, <2>2, <2>4 DEF Earlier
    <3> QED
      BY <1>0, <2>1, <2>2, <2>4, <3>1 DEF PlainAt, PlainOps
  <2>5. CASE n = 4 /\ (k = 1 \/ k = 2)
    <3>1. /\ 1 \in DOMAIN w /\ w[1].op = "zrem" /\ w[2].op = "captask" /\ w[2].val = None
          /\ w[1].key = w[2].key
      BY <1>0, <1>2, <1>4, <2>5 DEF Cmd
    <3>2. CASE k = 1
      BY <1>0, <3>1, <3>2 DEF PlainAt, PlainOps
    <3>3. CASE k = 2
      <4>1. Earlier(p, k, "zrem", w[k].key)'
        BY <1>0, <3>1, <3>3 DEF Earlier
      <4> QED
        BY <1>0, <3>1, <3>3, <4>1 DEF PlainAt, PlainOps
    <3> QED
      BY <2>5, <3>2, <3>3
  <2>6. k = n - 1 \/ k = n \/ (n = 4 /\ (k = 1 \/ k = 2))
    BY <1>9
  <2> QED
    BY <2>3, <2>4, <2>5, <2>6
\* The ones that were pending.
<1>10. ASSUME NEW m \in DOMAIN Todo(p), m # 1 PROVE PlainAt(p, n + m - 1)'
  <2>0. PICK x : x = Todo(p)[m]
    OBVIOUS
  <2> DEFINE k == n + m - 1
  <2>1. PlainAt(p, m) /\ w[k] = x
    BY <1>0, <1>4, <1>10, <2>0 DEF Plain
  <2>2. \A j \in DOMAIN Todo(p) : j # 1 /\ j < m =>
           n + j - 1 \in DOMAIN w /\ n + j - 1 < k /\ w[n + j - 1] = Todo(p)[j]
    BY <1>0, <1>4, <1>10
  <2>3. \A j \in DOMAIN Todo(p) : j > m =>
           n + j - 1 \in DOMAIN w /\ n + j - 1 > k /\ w[n + j - 1] = Todo(p)[j]
    BY <1>0, <1>4, <1>10
  <2> HIDE DEF k
  <2>4. ASSUME NEW op, NEW key, Earlier(p, m, op, key), ~(h.op = op /\ h.key = key)
        PROVE  Earlier(p, k, op, key)'
    <3>1. PICK j \in DOMAIN Todo(p) : j < m /\ Todo(p)[j].op = op /\ Todo(p)[j].key = key
      BY <2>4 DEF Earlier
    <3>2. j # 1
      BY <1>2, <2>4, <3>1
    <3>3. n + j - 1 \in DOMAIN w /\ n + j - 1 < k /\ w[n + j - 1] = Todo(p)[j]
      BY <2>2, <3>1, <3>2
    <3> QED
      BY <1>0, <3>1, <3>3 DEF Earlier
  <2>5. ASSUME NEW op, NEW key, Later(p, m, op, key)
        PROVE  Later(p, k, op, key)'
    <3>1. PICK j \in DOMAIN Todo(p) : j > m /\ Todo(p)[j].op = op /\ Todo(p)[j].key = key
      BY <2>5 DEF Later
    <3>2. n + j - 1 \in DOMAIN w /\ n + j - 1 > k /\ w[n + j - 1] = Todo(p)[j]
      BY <2>3, <3>1
    <3> QED
      BY <1>0, <3>1, <3>2 DEF Later
  <2>6. x.op = "captask" => /\ x.val = None
                            /\ x.key \in captures' => Earlier(p, k, "zrem", x.key)'
    <3> SUFFICES ASSUME x.op = "captask"
                 PROVE  x.val = None /\ (x.key \in captures' => Earlier(p, k, "zrem", x.key)')
      OBVIOUS
    <3>1. x.val = None /\ (x.key \in captures => Earlier(p, m, "zrem", x.key))
      BY <2>0, <2>1 DEF PlainAt
    <3>2. CASE h.op = "zrem" /\ h.key = x.key
      BY <1>6, <3>1, <3>2
    <3>3. CASE ~(h.op = "zrem" /\ h.key = x.key)
      BY <1>5, <2>4, <3>1, <3>3
    <3> QED
      BY <3>2, <3>3
  <2>7. x.op = "cacheRem" => Later(p, k, "zrem", x.key)'
    BY <2>0, <2>1, <2>5 DEF PlainAt
  <2>8. x.op = "del" =>
          (\A r \in Reqs : dedup'[r] # x.key) \/ Earlier(p, k, "hdelDedup", x.key)'
    <3> SUFFICES ASSUME x.op = "del"
                 PROVE  (\A r \in Reqs : dedup'[r] # x.key) \/ Earlier(p, k, "hdelDedup", x.key)'
      OBVIOUS
    <3>1. (\A r \in Reqs : dedup[r] # x.key) \/ Earlier(p, m, "hdelDedup", x.key)
      BY <2>0, <2>1 DEF PlainAt
    <3>2. x.key \in Tasks
      BY <1>1, <2>0, LocalsFacts, CommandTypes
    <3>3. CASE \A r \in Reqs : dedup[r] # x.key
      BY <1>7, <3>2, <3>3, CrawlerAssumption
    <3>4. CASE h.op = "hdelDedup" /\ h.key = x.key
      BY <1>8, <3>4
    <3>5. CASE Earlier(p, m, "hdelDedup", x.key) /\ ~(h.op = "hdelDedup" /\ h.key = x.key)
      BY <2>4, <3>5
    <3> QED
      BY <3>1, <3>3, <3>4, <3>5
  <2>9. x.op \in PlainOps /\ (x.op = "remove" => p = Crawler)
    BY <2>0, <2>1 DEF PlainAt
  <2>10. PlainAt(p, k)'
    BY <1>0, <2>1, <2>6, <2>7, <2>8, <2>9 DEF PlainAt
  <2> QED
    BY <2>10 DEF k
<1>11. \A k \in DOMAIN w : PlainAt(p, k)'
  <2> TAKE k \in DOMAIN w
  <2>1. CASE k <= n
    BY <1>0, <1>4, <1>9, <2>1
  <2>2. CASE k > n
    <3> DEFINE m == k - n + 1
    <3>1. m \in DOMAIN Todo(p) /\ m # 1 /\ n + m - 1 = k
      BY <1>0, <1>4, <2>2
    <3> HIDE DEF m
    <3> QED
      BY <1>10, <3>1
  <2> QED
    BY <1>0, <1>4, <2>1, <2>2
<1> QED
  BY <1>0, <1>11 DEF Plain

\* What the commands of a creation do.
LEMMA CreateStep ==
  ASSUME Base, NEW p \in Procs, Command(p), NEW t \in Tasks, NEW r \in Reqs
  PROVE  /\ Next1(p) = Cmd("domain", t, TRUE) =>
               /\ task' = [task EXCEPT ![t] = [@ EXCEPT !.domain = TRUE]]
               /\ UNCHANGED <<queue, dedup, captask, captures, cache>>
         /\ Next1(p) = Cmd("dedup", r, t) =>
               /\ dedup' = [dedup EXCEPT ![r] = t]
               /\ UNCHANGED <<task, queue, captask, captures, cache>>
         /\ Next1(p) = Cmd("hash", t, r) =>
               /\ task' = [task EXCEPT ![t] = [@ EXCEPT !.hash = r]]
               /\ UNCHANGED <<queue, dedup, captask, captures, cache>>
<1>1. proc \in [Procs -> Locals]
  BY DEF Base, TypeOK
<1>2. ASSUME Next1(p) = Cmd("domain", t, TRUE)
      PROVE  /\ task' = [task EXCEPT ![t] = [@ EXCEPT !.domain = TRUE]]
             /\ UNCHANGED <<queue, dedup, captask, captures, cache>>
  <2>1. Next1(p).op = "domain" /\ Next1(p).key = t /\ Next1(p).val = TRUE
    BY <1>2 DEF Cmd
  <2>2. HsetTask(p)
    BY <1>1, <2>1, Effects DEF Command
  <2> QED
    BY <1>1, <2>1, <2>2, Effects
<1>3. ASSUME Next1(p) = Cmd("dedup", r, t)
      PROVE  /\ dedup' = [dedup EXCEPT ![r] = t]
             /\ UNCHANGED <<task, queue, captask, captures, cache>>
  <2>1. Next1(p).op = "dedup" /\ Next1(p).key = r /\ Next1(p).val = t
    BY <1>3 DEF Cmd
  <2>2. HsetDedup(p)
    BY <1>1, <2>1, Effects DEF Command
  <2> QED
    BY <1>1, <2>1, <2>2, Effects
<1>4. ASSUME Next1(p) = Cmd("hash", t, r)
      PROVE  /\ task' = [task EXCEPT ![t] = [@ EXCEPT !.hash = r]]
             /\ UNCHANGED <<queue, dedup, captask, captures, cache>>
  <2>1. Next1(p).op = "hash" /\ Next1(p).key = t /\ Next1(p).val = r
    BY <1>4 DEF Cmd
  <2>2. HsetTask(p)
    BY <1>1, <2>1, Effects DEF Command
  <2> QED
    BY <1>1, <2>1, <2>2, Effects
<1> QED
  BY <1>2, <1>3, <1>4

LEMMA CaptureStep ==
  ASSUME Base, NEW p \in Procs, Command(p), NEW t, NEW c \in Captures
  PROVE  /\ Next1(p) = Cmd("capture", t, c) =>
               /\ task' = [task EXCEPT ![t] = [@ EXCEPT !.capture = c]]
               /\ UNCHANGED <<queue, dedup, captask, captures, cache>>
         /\ Next1(p) = Cmd("captask", c, t) =>
               /\ captask' = [captask EXCEPT ![c] = t]
               /\ UNCHANGED <<task, queue, dedup, captures, cache>>
         /\ Next1(p) = Cmd("zadd", c, None) =>
               /\ captures' = captures \cup {c}
               /\ UNCHANGED <<task, queue, dedup, captask, cache>>
<1>1. proc \in [Procs -> Locals]
  BY DEF Base, TypeOK
<1>2. ASSUME Next1(p) = Cmd("capture", t, c)
      PROVE  /\ task' = [task EXCEPT ![t] = [@ EXCEPT !.capture = c]]
             /\ UNCHANGED <<queue, dedup, captask, captures, cache>>
  <2>1. Next1(p).op = "capture" /\ Next1(p).key = t /\ Next1(p).val = c
    BY <1>2 DEF Cmd
  <2>2. HsetTask(p)
    BY <1>1, <2>1, Effects DEF Command
  <2> QED
    BY <1>1, <2>1, <2>2, Effects
<1>3. ASSUME Next1(p) = Cmd("captask", c, t)
      PROVE  /\ captask' = [captask EXCEPT ![c] = t]
             /\ UNCHANGED <<task, queue, dedup, captures, cache>>
  <2>1. Next1(p).op = "captask" /\ Next1(p).key = c /\ Next1(p).val = t
    BY <1>3 DEF Cmd
  <2>2. HsetCapTask(p)
    BY <1>1, <2>1, Effects DEF Command
  <2> QED
    BY <1>1, <2>1, <2>2, Effects
<1>4. ASSUME Next1(p) = Cmd("zadd", c, None)
      PROVE  /\ captures' = captures \cup {c}
             /\ UNCHANGED <<task, queue, dedup, captask, cache>>
  <2>1. Next1(p).op = "zadd" /\ Next1(p).key = c
    BY <1>4 DEF Cmd
  <2>2. ZaddCaptures(p)
    BY <1>1, <2>1, Effects DEF Command
  <2> QED
    BY <1>1, <2>1, <2>2, Effects
<1> QED
  BY <1>2, <1>3, <1>4

LEMMA ShapeGoesOn ==
  ASSUME Pends, NEW p \in Procs, Command(p)
  PROVE  Shape(p)'
<1>1. proc \in [Procs -> Locals] /\ TypeOK /\ Base /\ Shapes
  BY DEF Pends, Base, TypeOK
<1>2. Todo(p) # <<>>
  BY <1>1, Effects
<1>3. ASSUME Next1(p).op # "remove" PROVE Todo(p)' = Tail(Todo(p))
  BY <1>1, <1>2, <1>3, CommandLocals, DoneFacts
<1>4. /\ \A q \in Procs \ {p} : Todo(q)' = Todo(q)
      /\ me'.task = me.task /\ me'.pc = me.pc
  BY <1>1, CommandLocals
<1>5. ASSUME NEW t \in Tasks, NEW r \in Reqs, Creates(p, t, r),
             \/ Next1(p) = Cmd("domain", t, TRUE) /\ Todo(p) = CreateTask(t, r)
             \/ Next1(p) = Cmd("dedup", r, t) /\ Todo(p) = AfterDomain(t, r) /\ task[t].domain
             \/ Next1(p) = Cmd("hash", t, r) /\ Todo(p) = AfterDedup(t, r) /\ task[t].domain
      PROVE  Shape(p)'
  <2>1. Next1(p).op # "remove"
    BY <1>5 DEF Cmd
  <2>2. Todo(p)' = Tail(Todo(p))
    BY <1>3, <2>1
  <2>3. \A q \in Procs \ {p} : Quiet(q, t)'
    BY <1>4, <1>5 DEF Creates, Quiet
  <2>4. CASE Next1(p) = Cmd("domain", t, TRUE) /\ Todo(p) = CreateTask(t, r)
    <3>1. /\ task' = [task EXCEPT ![t] = [@ EXCEPT !.domain = TRUE]]
          /\ UNCHANGED <<queue, dedup, captask, captures, cache>>
      BY <1>1, <2>4, CreateStep
    <3>2. task'[t].domain
      BY <1>1, <3>1 DEF TypeOK
    <3>3. Todo(p)' = AfterDomain(t, r)
      BY <2>2, <2>4, CreateLiterals
    <3>4. \A s \in Reqs : dedup[s] # t
      <4>1. CreateTask(t, r) # AfterDomain(t, r) /\ CreateTask(t, r) # AfterDedup(t, r)
        BY DEF CreateTask, AfterDomain, AfterDedup
      <4> QED
        BY <1>5, <2>4, <4>1 DEF Creates
    <3>5. NoUse(t)'
      BY <1>4, <1>5, <3>1 DEF Creates, NoUse
    <3>6. Creates(p, t, r)'
      BY <2>3, <3>1, <3>2, <3>3, <3>4, <3>5 DEF Creates
    <3> QED
      BY <3>6 DEF Shape
  <2>5. CASE Next1(p) = Cmd("dedup", r, t) /\ Todo(p) = AfterDomain(t, r) /\ task[t].domain
    <3>1. /\ dedup' = [dedup EXCEPT ![r] = t]
          /\ UNCHANGED <<task, queue, captask, captures, cache>>
      BY <1>1, <2>5, CreateStep
    <3>2. Todo(p)' = AfterDedup(t, r)
      BY <2>2, <2>5, CreateLiterals
    <3>3. \A s \in Reqs : dedup[s] # t
      <4>1. AfterDomain(t, r) # CreateTask(t, r) /\ AfterDomain(t, r) # AfterDedup(t, r)
        BY DEF CreateTask, AfterDomain, AfterDedup
      <4> QED
        BY <1>5, <2>5, <4>1 DEF Creates
    <3>4. \A s \in Reqs : dedup'[s] = t => s = r
      BY <1>1, <3>1, <3>3 DEF TypeOK
    <3>5. NoUse(t)'
      BY <1>4, <1>5, <3>1 DEF Creates, NoUse
    <3>6. Creates(p, t, r)'
      BY <2>3, <2>5, <3>1, <3>2, <3>4, <3>5 DEF Creates
    <3> QED
      BY <3>6 DEF Shape
  <2>6. CASE Next1(p) = Cmd("hash", t, r) /\ Todo(p) = AfterDedup(t, r) /\ task[t].domain
    <3>1. Todo(p)' = AfterHash(t, r)
      BY <2>2, <2>6, CreateLiterals
    <3>2. \A k \in DOMAIN AfterHash(t, r) : k = 1 /\ AfterHash(t, r)[k].op = "queue"
      BY DEF AfterHash, Cmd
    <3>3. Plain(p)'
      BY <3>1, <3>2 DEF Plain, PlainAt, PlainOps
    <3> QED
      BY <3>3 DEF Shape
  <2> QED
    BY <1>5, <2>4, <2>5, <2>6
<1>6. ASSUME p = Crawler, NEW c \in Captures, Takes(c),
             \/ Next1(p) = Cmd("capture", me.task, c) /\ Todo(p) = CreateCapture(c, me.task)
             \/ Next1(p) = Cmd("captask", c, me.task) /\ Todo(p) = AfterCapture(c, me.task)
             \/ Next1(p) = Cmd("zadd", c, None) /\ Todo(p) = AfterCapTask(c)
      PROVE  Shape(p)'
  <2>1. Next1(p).op # "remove"
    BY <1>6 DEF Cmd
  <2>2. Todo(p)' = Tail(Todo(p)) /\ me.task \in Tasks
    BY <1>1, <1>3, <1>6, <2>1 DEF Takes, Base, LocalsOK
  <2>3. \A q \in Clients : QuietC(q, c)'
    BY <1>4, <1>6, ProcsFacts DEF Takes, QuietC
  <2>4. CASE Next1(p) = Cmd("capture", me.task, c) /\ Todo(p) = CreateCapture(c, me.task)
    <3>1. /\ task' = [task EXCEPT ![me.task] = [@ EXCEPT !.capture = c]]
          /\ UNCHANGED <<queue, dedup, captask, captures, cache>>
      BY <1>1, <2>4, CaptureStep
    <3>2. captask[c] = None /\ \A t \in Tasks : task[t].capture # c
      <4>1. /\ CreateCapture(c, me.task) # AfterCapture(c, me.task)
            /\ CreateCapture(c, me.task) # AfterCapTask(c)
        BY DEF CreateCapture, AfterCapture, AfterCapTask
      <4> QED
        BY <1>6, <2>4, <4>1 DEF Takes
    <3>3. \A t \in Tasks : task'[t].capture = c => t = me.task
      BY <1>1, <3>1, <3>2 DEF TypeOK
    <3>4. Todo(p)' = AfterCapture(c, me.task)
      BY <2>2, <2>4, CaptureLiterals
    <3>5. Takes(c)'
      BY <1>4, <1>6, <2>3, <3>1, <3>2, <3>3, <3>4 DEF Takes
    <3> QED
      BY <1>6, <3>5 DEF Shape
  <2>5. CASE Next1(p) = Cmd("captask", c, me.task) /\ Todo(p) = AfterCapture(c, me.task)
    <3>1. /\ captask' = [captask EXCEPT ![c] = me.task]
          /\ UNCHANGED <<task, queue, dedup, captures, cache>>
      BY <1>1, <2>5, CaptureStep
    <3>2. captask'[c] = me.task
      BY <1>1, <3>1 DEF TypeOK
    <3>3. Todo(p)' = AfterCapTask(c)
      BY <2>2, <2>5, CaptureLiterals
    <3>4. Takes(c)'
      BY <1>4, <1>6, <2>3, <3>1, <3>2, <3>3 DEF Takes
    <3> QED
      BY <1>6, <3>4 DEF Shape
  <2>6. CASE Next1(p) = Cmd("zadd", c, None) /\ Todo(p) = AfterCapTask(c)
    <3>1. Todo(p)' = AfterZadd(c)
      BY <2>2, <2>6, CaptureLiterals
    <3>2. \A k \in DOMAIN AfterZadd(c) : k = 1 /\ AfterZadd(c)[k].op = "cacheAdd"
      BY DEF AfterZadd, Cmd
    <3>3. Plain(p)'
      BY <3>1, <3>2 DEF Plain, PlainAt, PlainOps
    <3> QED
      BY <3>3 DEF Shape
  <2> QED
    BY <1>6, <2>4, <2>5, <2>6
<1>7. CASE Plain(p)
  BY <1>7, PlainGoesOn DEF Shape
<1> QED
  BY <1>1, <1>2, <1>5, <1>6, <1>7, Heads

\* What a command tells of its process.
LEMMA OpHeads ==
  ASSUME Base, Shapes, NEW p \in Procs, Todo(p) # <<>>
  PROVE  /\ Next1(p).op \in {"domain", "dedup", "hash"} =>
               \E t \in Tasks, r \in Reqs :
                  /\ Creates(p, t, r)
                  /\ \/ Next1(p) = Cmd("domain", t, TRUE) /\ Todo(p) = CreateTask(t, r)
                     \/ Next1(p) = Cmd("dedup", r, t) /\ Todo(p) = AfterDomain(t, r)
                     \/ Next1(p) = Cmd("hash", t, r) /\ Todo(p) = AfterDedup(t, r)
         /\ Next1(p).op \in {"capture", "zadd"} =>
               p = Crawler /\ \E c \in Captures :
                  /\ Takes(c)
                  /\ \/ Next1(p) = Cmd("capture", me.task, c) /\ Todo(p) = CreateCapture(c, me.task)
                     \/ Next1(p) = Cmd("zadd", c, None) /\ Todo(p) = AfterCapTask(c)
         /\ Next1(p).op = "captask" =>
               \/ p = Crawler /\ \E c \in Captures :
                     /\ Takes(c) /\ Next1(p) = Cmd("captask", c, me.task)
                     /\ Todo(p) = AfterCapture(c, me.task)
               \/ Plain(p) /\ PlainAt(p, 1)
         /\ Next1(p).op \in PlainOps \ {"captask"} => Plain(p) /\ PlainAt(p, 1)
<1>1. CASE \E t \in Tasks, r \in Reqs :
               /\ Creates(p, t, r)
               /\ \/ Next1(p) = Cmd("domain", t, TRUE) /\ Todo(p) = CreateTask(t, r)
                  \/ Next1(p) = Cmd("dedup", r, t) /\ Todo(p) = AfterDomain(t, r) /\ task[t].domain
                  \/ Next1(p) = Cmd("hash", t, r) /\ Todo(p) = AfterDedup(t, r) /\ task[t].domain
  <2>1. Next1(p).op \in {"domain", "dedup", "hash"}
    BY <1>1 DEF Cmd
  <2> QED
    BY <1>1, <2>1 DEF PlainOps
<1>2. CASE p = Crawler /\ \E c \in Captures :
               /\ Takes(c)
               /\ \/ Next1(p) = Cmd("capture", me.task, c) /\ Todo(p) = CreateCapture(c, me.task)
                  \/ Next1(p) = Cmd("captask", c, me.task) /\ Todo(p) = AfterCapture(c, me.task)
                  \/ Next1(p) = Cmd("zadd", c, None) /\ Todo(p) = AfterCapTask(c)
  <2>1. PICK c \in Captures :
               /\ Takes(c)
               /\ \/ Next1(p) = Cmd("capture", me.task, c) /\ Todo(p) = CreateCapture(c, me.task)
                  \/ Next1(p) = Cmd("captask", c, me.task) /\ Todo(p) = AfterCapture(c, me.task)
                  \/ Next1(p) = Cmd("zadd", c, None) /\ Todo(p) = AfterCapTask(c)
    BY <1>2
  <2>2. CASE Next1(p) = Cmd("capture", me.task, c) /\ Todo(p) = CreateCapture(c, me.task)
    <3>1. Next1(p).op = "capture"
      BY <2>2 DEF Cmd
    <3> QED
      BY <1>2, <2>1, <2>2, <3>1 DEF PlainOps
  <2>3. CASE Next1(p) = Cmd("captask", c, me.task) /\ Todo(p) = AfterCapture(c, me.task)
    <3>1. Next1(p).op = "captask"
      BY <2>3 DEF Cmd
    <3> QED
      BY <1>2, <2>1, <2>3, <3>1 DEF PlainOps
  <2>4. CASE Next1(p) = Cmd("zadd", c, None) /\ Todo(p) = AfterCapTask(c)
    <3>1. Next1(p).op = "zadd"
      BY <2>4 DEF Cmd
    <3> QED
      BY <1>2, <2>1, <2>4, <3>1 DEF PlainOps
  <2> QED
    BY <2>1, <2>2, <2>3, <2>4
<1>3. CASE Plain(p) /\ PlainAt(p, 1)
  <2>1. Next1(p).op \in PlainOps
    BY <1>3 DEF PlainAt, Next1
  <2> QED
    BY <1>3, <2>1 DEF PlainOps
<1> QED
  BY <1>1, <1>2, <1>3, Heads

\* A command leaves every process with commands of its kind.
LEMMA CommandShapes ==
  ASSUME Pends, NEW p \in Procs, Command(p)
  PROVE  Shapes'
<1>1. proc \in [Procs -> Locals] /\ TypeOK /\ Base /\ Shapes
  BY DEF Pends, Base, TypeOK
<1>2. /\ \A q \in Procs \ {p} : Todo(q)' = Todo(q)
      /\ me'.task = me.task /\ me'.pc = me.pc
  BY <1>1, CommandLocals
<1> SUFFICES ASSUME NEW q \in Procs \ {p} PROVE Shape(q)'
  BY ShapeGoesOn DEF Shapes
<1>3. ASSUME NEW t \in Tasks, NEW r \in Reqs, Creates(q, t, r) PROVE Creates(q, t, r)'
  <2>1. NoUse(t) /\ Quiet(p, t)
    BY <1>3 DEF Creates
  <2>2. /\ NoUse(t)' /\ Quiet(p, t)' /\ task'[t] = task[t]
        /\ \A s \in Reqs : dedup'[s] = t => dedup[s] = t
    BY <1>1, <2>1, TaskUntouched
  <2>3. \A w \in Procs \ {q} : Quiet(w, t)'
    BY <1>2, <1>3, <2>2 DEF Creates, Quiet
  <2> QED
    BY <1>2, <1>3, <2>2, <2>3 DEF Creates
<1>4. ASSUME q = Crawler, NEW c \in Captures, Takes(c) PROVE Takes(c)'
  <2>1. p \in Clients /\ QuietC(p, c) /\ c \notin captures
    BY <1>4, ProcsFacts DEF Takes
  <2>2. /\ QuietC(p, c)' /\ c \notin captures' /\ captask'[c] = captask[c]
        /\ \A t \in Tasks : task'[t].capture = c => task[t].capture = c
    BY <1>1, <2>1, CaptureUntouched
  <2>3. \A w \in Clients : QuietC(w, c)'
    BY <1>2, <1>4, <2>2, ProcsFacts DEF Takes, QuietC
  <2> QED
    BY <1>2, <1>4, <2>2, <2>3 DEF Takes
<1>5. CASE Plain(q)
  BY <1>1, <1>5, PlainKept DEF Shape
<1> QED
  BY <1>1, <1>3, <1>4, <1>5 DEF Shapes, Shape

LEMMA CommandDedupKnown ==
  ASSUME Pends, NEW p \in Procs, Command(p)
  PROVE  DedupKnown'
<1>1. proc \in [Procs -> Locals] /\ TypeOK /\ Base /\ Shapes
  BY DEF Pends, Base, TypeOK
<1>2. /\ \A q \in Procs \ {p} : Todo(q)' = Todo(q)
      /\ me'.task = me.task /\ me'.pc = me.pc
      /\ Todo(p) # <<>> /\ Next1(p) \in Commands /\ 1 \in DOMAIN Todo(p) /\ Next1(p) = Todo(p)[1]
  BY <1>1, CommandLocals, Effects DEF Next1
<1>3. ASSUME Next1(p).op # "remove" PROVE Todo(p)' = Tail(Todo(p))
  BY <1>1, <1>2, <1>3, CommandLocals, DoneFacts
<1>7. ASSUME NEW u \in Tasks, NEW s \in Reqs, Next1(p) = Cmd("hash", u, s)
      PROVE  /\ task' = [task EXCEPT ![u] = [@ EXCEPT !.hash = s]]
             /\ UNCHANGED <<queue, dedup, captask, captures, cache>>
  BY <1>1, <1>7, CreateStep
<1> SUFFICES ASSUME NEW r \in Reqs, NEW t \in Tasks, dedup'[r] = t
             PROVE  \/ task'[t].hash = r
                    \/ NoUse(t)' /\ \A q \in Procs : Quiet(q, t)' \/ Todo(q)' = AfterDedup(t, r)
  BY DEF DedupKnown
<1>4. CASE dedup[r] # t
  <2>1. /\ Creates(p, t, r) /\ Todo(p) = AfterDomain(t, r)
        /\ HsetDedup(p) /\ dedup' = [dedup EXCEPT ![r] = t]
    BY <1>1, <1>4, NewDedup
  <2>2. UNCHANGED <<queue, captask>> /\ Next1(p).op = "dedup"
    <3>1. HsetDedup(p)
      BY <2>1
    <3> QED
      BY <1>1, <3>1, Effects
  <2>3. NoUse(t)'
    BY <1>2, <2>1, <2>2 DEF Creates, NoUse
  <2>4. Todo(p)' = AfterDedup(t, r)
    <3>1. Todo(p)' = Tail(Todo(p))
      BY <1>3, <2>2
    <3>2. Tail(AfterDomain(t, r)) = AfterDedup(t, r)
      BY CreateLiterals
    <3> QED
      BY <2>1, <3>1, <3>2
  <2>5. \A q \in Procs \ {p} : Quiet(q, t)'
    BY <1>2, <2>1 DEF Creates, Quiet
  <2> QED
    BY <2>3, <2>4, <2>5
<1>5. CASE dedup[r] = t /\ task[t].hash = r
  <2>1. CASE HsetTask(p)
    <3>1. /\ Next1(p).op \in {"domain", "hash", "start", "capture"} /\ Next1(p).key \in Tasks
          /\ task' = [task EXCEPT ![Next1(p).key] = [@ EXCEPT ![Next1(p).op] = Next1(p).val]]
      BY <1>1, <1>2, <2>1, Effects, CommandTypes
    <3>2. task[Next1(p).key] \in [domain : BOOLEAN, hash : Reqs \cup {None}, start : BOOLEAN,
                                  capture : Captures \cup {None}]
      BY <1>1, <3>1 DEF TypeOK
    <3>3. CASE Next1(p).op = "hash"
      <4>1. PICK u \in Tasks, s \in Reqs : Creates(p, u, s) /\ Next1(p) = Cmd("hash", u, s)
                                           /\ Todo(p) = AfterDedup(u, s)
        <5>1. PICK u \in Tasks, s \in Reqs :
                 /\ Creates(p, u, s)
                 /\ \/ Next1(p) = Cmd("domain", u, TRUE)
                    \/ Next1(p) = Cmd("dedup", s, u)
                    \/ Next1(p) = Cmd("hash", u, s) /\ Todo(p) = AfterDedup(u, s)
          BY <1>1, <1>2, <3>3, OpHeads
        <5> QED
          BY <3>3, <5>1 DEF Cmd
      <4>2. task' = [task EXCEPT ![u] = [@ EXCEPT !.hash = s]]
        BY <1>7, <4>1
      <4>3. CASE u = t
        <5>1. AfterDedup(u, s) # CreateTask(u, s) /\ AfterDedup(u, s) # AfterDomain(u, s)
          BY DEF CreateTask, AfterDomain, AfterDedup
        <5>2. s = r
          BY <1>5, <4>1, <4>3, <5>1 DEF Creates
        <5> QED
          BY <1>1, <4>2, <4>3, <5>2 DEF TypeOK
      <4>4. CASE u # t
        BY <1>1, <1>5, <4>2, <4>4 DEF TypeOK
      <4> QED
        BY <4>3, <4>4
    <3>4. CASE Next1(p).op \in {"domain", "start", "capture"}
      <4>1. [task[Next1(p).key] EXCEPT ![Next1(p).op] = Next1(p).val].hash = task[Next1(p).key].hash
        <5>1. CASE Next1(p).op = "domain"
          BY <3>2, <5>1
        <5>2. CASE Next1(p).op = "start"
          BY <3>2, <5>2
        <5>3. CASE Next1(p).op = "capture"
          BY <3>2, <5>3
        <5> QED
          BY <3>4, <5>1, <5>2, <5>3
      <4> QED
        BY <1>1, <1>5, <3>1, <4>1 DEF TypeOK
    <3> QED
      BY <3>1, <3>3, <3>4
  <2>2. CASE DeleteTask(p)
    <3>1. Next1(p).op = "del" /\ task' = [task EXCEPT ![Next1(p).key] = NoTask]
      BY <1>1, <2>2, Effects
    <3>2. PlainAt(p, 1)
      BY <1>1, <1>2, <3>1, OpHeads DEF PlainOps
    <3>3. ~Earlier(p, 1, "hdelDedup", Next1(p).key)
      BY <1>1, LocalsFacts DEF Earlier
    <3>4. Next1(p).key # t
      BY <1>2, <1>5, <3>1, <3>2, <3>3 DEF PlainAt
    <3> QED
      BY <1>1, <1>5, <3>1, <3>4 DEF TypeOK
  <2> QED
    BY <1>1, <1>5, <2>1, <2>2, Effects DEF Command
<1>6. CASE dedup[r] = t /\ NoUse(t) /\ \A q \in Procs : Quiet(q, t) \/ Todo(q) = AfterDedup(t, r)
  <2>1. CASE Quiet(p, t)
    <3>1. NoUse(t)' /\ Quiet(p, t)'
      BY <1>1, <1>6, <2>1, TaskUntouched
    <3>2. \A q \in Procs \ {p} : Quiet(q, t)' \/ Todo(q)' = AfterDedup(t, r)
      BY <1>2, <1>6 DEF Quiet
    <3> QED
      BY <3>1, <3>2
  <2>2. CASE Todo(p) = AfterDedup(t, r)
    <3>1. Next1(p) = Cmd("hash", t, r)
      <4>1. AfterDedup(t, r)[1] = Cmd("hash", t, r)
        BY DEF AfterDedup
      <4> QED
        BY <2>2, <4>1 DEF Next1
    <3>2. task' = [task EXCEPT ![t] = [@ EXCEPT !.hash = r]]
      BY <1>7, <3>1
    <3> QED
      BY <1>1, <3>2 DEF TypeOK
  <2> QED
    BY <1>6, <2>1, <2>2
<1> QED
  BY <1>1, <1>4, <1>5, <1>6 DEF Pends, DedupKnown

LEMMA CommandCaptureKnown ==
  ASSUME Pends, NEW p \in Procs, Command(p)
  PROVE  CaptureKnown'
<1>1. proc \in [Procs -> Locals] /\ TypeOK /\ Base /\ Shapes
  BY DEF Pends, Base, TypeOK
<1>2. Todo(p) # <<>> /\ Next1(p) \in Commands /\ 1 \in DOMAIN Todo(p) /\ Next1(p) = Todo(p)[1]
  BY <1>1, Effects DEF Next1
<1> SUFFICES ASSUME NEW t \in Tasks, NEW c \in Captures, task'[t].capture = c
             PROVE  captask'[c] = t \/ captask'[c] = None
  BY DEF CaptureKnown
<1>3. c # None
  BY CrawlerAssumption
<1>4. CASE task[t].capture # c
  <2>1. HsetTask(p)
    <3>1. ASSUME DeleteTask(p) PROVE FALSE
      <4>1. Next1(p).op = "del" /\ task' = [task EXCEPT ![Next1(p).key] = NoTask]
        BY <1>1, <3>1, Effects
      <4> QED
        BY <1>1, <1>3, <1>4, <4>1 DEF TypeOK, NoTask
    <3> QED
      BY <1>1, <1>4, <3>1, Effects DEF Command
  <2>2. /\ Next1(p).op \in {"domain", "hash", "start", "capture"} /\ Next1(p).key \in Tasks
        /\ task' = [task EXCEPT ![Next1(p).key] = [@ EXCEPT ![Next1(p).op] = Next1(p).val]]
        /\ UNCHANGED captask
    BY <1>1, <1>2, <2>1, Effects, CommandTypes
  <2>3. task[Next1(p).key] \in [domain : BOOLEAN, hash : Reqs \cup {None}, start : BOOLEAN,
                                capture : Captures \cup {None}]
    BY <1>1, <2>2 DEF TypeOK
  <2>4. ASSUME Next1(p).op \in {"domain", "hash", "start"} PROVE FALSE
    <3>1. [task[Next1(p).key] EXCEPT ![Next1(p).op] = Next1(p).val].capture = task[Next1(p).key].capture
      <4>1. CASE Next1(p).op = "domain"
        BY <2>3, <4>1
      <4>2. CASE Next1(p).op = "start"
        BY <2>3, <4>2
      <4>3. CASE Next1(p).op = "hash"
        BY <2>3, <4>3
      <4> QED
        BY <2>4, <4>1, <4>2, <4>3
    <3> QED
      BY <1>1, <1>4, <2>2, <3>1 DEF TypeOK
  <2>5. PICK d \in Captures : /\ p = Crawler /\ Takes(d) /\ Next1(p) = Cmd("capture", me.task, d)
                              /\ Todo(p) = CreateCapture(d, me.task)
    <3>1. p = Crawler /\ Next1(p).op = "capture"
      BY <1>1, <1>2, <2>2, <2>4, OpHeads
    <3>2. PICK d \in Captures : /\ Takes(d)
                                /\ \/ Next1(p) = Cmd("capture", me.task, d) /\ Todo(p) = CreateCapture(d, me.task)
                                   \/ Next1(p) = Cmd("zadd", d, None)
      BY <1>1, <1>2, <3>1, OpHeads
    <3> QED
      BY <3>1, <3>2 DEF Cmd
  <2>6. task' = [task EXCEPT ![me.task] = [@ EXCEPT !.capture = d]]
    BY <1>1, <2>5, CaptureStep
  <2>7. d = c
    BY <1>1, <1>4, <2>6 DEF TypeOK
  <2>8. captask[d] = None
    <3>1. /\ CreateCapture(d, me.task) # AfterCapture(d, me.task)
          /\ CreateCapture(d, me.task) # AfterCapTask(d)
      BY DEF CreateCapture, AfterCapture, AfterCapTask
    <3> QED
      BY <2>5, <3>1 DEF Takes
  <2> QED
    BY <2>2, <2>7, <2>8
<1>5. CASE task[t].capture = c
  <2>1. captask[c] = t \/ captask[c] = None
    BY <1>5 DEF Pends, CaptureKnown
  <2>2. CASE HsetCapTask(p)
    <3>1. Next1(p).op = "captask" /\ captask' = [captask EXCEPT ![Next1(p).key] = Next1(p).val]
      BY <1>1, <2>2, Effects
    <3>2. CASE Next1(p).val = None
      BY <1>1, <2>1, <3>1, <3>2 DEF TypeOK
    <3>3. CASE Next1(p).val # None
      <4>1. ~PlainAt(p, 1)
        BY <1>2, <3>1, <3>3 DEF PlainAt
      <4>2. PICK d \in Captures : /\ Takes(d) /\ Next1(p) = Cmd("captask", d, me.task)
                                  /\ Todo(p) = AfterCapture(d, me.task) /\ p = Crawler
        BY <1>1, <1>2, <3>1, <4>1, OpHeads
      <4>3. captask' = [captask EXCEPT ![d] = me.task]
        BY <1>1, <4>2, CaptureStep
      <4>4. CASE d = c
        <5>1. AfterCapture(d, me.task) # CreateCapture(d, me.task) /\ AfterCapture(d, me.task) # AfterCapTask(d)
          BY DEF CreateCapture, AfterCapture, AfterCapTask
        <5>2. t = me.task
          BY <1>5, <4>2, <4>4, <5>1 DEF Takes
        <5> QED
          BY <1>1, <4>3, <4>4, <5>2 DEF TypeOK
      <4>5. CASE d # c
        BY <1>1, <2>1, <4>3, <4>5 DEF TypeOK
      <4> QED
        BY <4>4, <4>5
    <3> QED
      BY <3>2, <3>3
  <2> QED
    BY <1>1, <2>1, <2>2, Effects DEF Command
<1> QED
  BY <1>4, <1>5

LEMMA CommandPends ==
  ASSUME Pends, NEW p \in Procs, Command(p)
  PROVE  Pends'
BY CommandBase, CommandShapes, CommandDedupKnown, CommandCaptureKnown DEF Pends

----------------------------------------------------------------------------
(***************************************************************************)
(* The programs the Crawler and the admins start.                          *)
(***************************************************************************)
LEMMA TaskPrograms ==
  ASSUME NEW t \in Tasks
  PROVE  /\ DOMAIN TaskRemove(t) = 1 .. 1 /\ TaskRemove(t)[1] = Cmd("remove", t, None)
         /\ DOMAIN TaskReset(t) = 1 .. 2 /\ TaskReset(t)[1] = Cmd("start", t, FALSE)
         /\ TaskReset(t)[2] = Cmd("queue", t, 49)
         /\ DOMAIN TaskDelete(t) = 1 .. 2 /\ TaskDelete(t)[1] = Cmd("queue", t, None)
         /\ TaskDelete(t)[2] = Cmd("remove", t, None)
<1>1. /\ DOMAIN TaskRemove(t) = 1 .. 1 /\ TaskRemove(t)[1] = Cmd("remove", t, None)
      /\ DOMAIN TaskReset(t) = 1 .. 2 /\ TaskReset(t)[1] = Cmd("start", t, FALSE)
      /\ TaskReset(t)[2] = Cmd("queue", t, 49)
  BY DEF TaskRemove, TaskReset
<1>2. PICK x \in Seq(Commands) : x = <<Cmd("queue", t, None)>>
  <2>1. <<Cmd("queue", t, None)>> \in Seq(Commands)
    BY ProgramsTyped
  <2> QED
    BY <2>1, Zenon
<1>3. PICK y \in Seq(Commands) : y = TaskRemove(t)
  <2>1. TaskRemove(t) \in Seq(Commands)
    BY ProgramsTyped
  <2> QED
    BY <2>1, Zenon
<1>4. Len(x) = 1 /\ x[1] = Cmd("queue", t, None)
  BY <1>2
<1>5. Len(y) = 1 /\ y[1] = Cmd("remove", t, None)
  BY <1>3 DEF TaskRemove
<1>6. /\ DOMAIN (x \o y) = 1 .. Len(x) + Len(y)
      /\ \A k \in 1 .. Len(x) : (x \o y)[k] = x[k]
      /\ \A k \in 1 .. Len(y) : (x \o y)[Len(x) + k] = y[k]
  BY Joined
<1>7. PICK z : z = x \o y
  OBVIOUS
<1>8. DOMAIN z = 1 .. 2 /\ z[1] = x[1] /\ z[2] = y[1]
  <2>1. 1 + 1 = 2
    OBVIOUS
  <2> QED
    BY <1>4, <1>5, <1>6, <1>7, <2>1
<1>9. z = TaskDelete(t)
  BY <1>2, <1>3, <1>7 DEF TaskDelete
<1> QED
  BY <1>1, <1>4, <1>5, <1>8, <1>9

LEMMA CapturePrograms ==
  ASSUME NEW c \in Captures
  PROVE  /\ DOMAIN CaptureDelete(c) = 1 .. 3 /\ CaptureDelete(c)[1] = Cmd("cacheRem", c, None)
         /\ CaptureDelete(c)[2] = Cmd("zrem", c, None)
         /\ CaptureDelete(c)[3] = Cmd("captask", c, None)
<1>1. PICK u \in Seq(Commands) : u = <<Cmd("cacheRem", c, None)>>
  <2>1. <<Cmd("cacheRem", c, None)>> \in Seq(Commands)
    <3>1. Cmd("cacheRem", c, None) \in Commands
      BY CommandsTyped
    <3> QED
      BY <3>1, TuplesTyped, Zenon
  <2> QED
    BY <2>1, Zenon
<1>2. PICK v \in Seq(Commands) : v = CaptureRemove(c)
  <2>1. CaptureRemove(c) \in Seq(Commands)
    BY ProgramsTyped
  <2> QED
    BY <2>1, Zenon
<1>3. Len(u) = 1 /\ u[1] = Cmd("cacheRem", c, None)
  BY <1>1
<1>4. Len(v) = 2 /\ v[1] = Cmd("zrem", c, None) /\ v[2] = Cmd("captask", c, None)
  BY <1>2 DEF CaptureRemove
<1>5. /\ DOMAIN (u \o v) = 1 .. Len(u) + Len(v)
      /\ \A k \in 1 .. Len(u) : (u \o v)[k] = u[k]
      /\ \A k \in 1 .. Len(v) : (u \o v)[Len(u) + k] = v[k]
  BY Joined
<1>6. PICK w : w = u \o v
  OBVIOUS
<1>7. DOMAIN w = 1 .. 3 /\ w[1] = u[1] /\ w[2] = v[1] /\ w[3] = v[2]
  <2>1. 1 + 1 = 2 /\ 1 + 2 = 3
    OBVIOUS
  <2> QED
    BY <1>3, <1>4, <1>5, <1>6, <2>1
<1>8. w = CaptureDelete(c)
  BY <1>1, <1>2, <1>6 DEF CaptureDelete
<1> QED
  BY <1>3, <1>4, <1>7, <1>8

\* A program of two commands on a task, then the removal of a capture.
LEMMA LongPrograms ==
  ASSUME NEW c \in Captures, NEW x \in Seq(Commands), Len(x) = 2
  PROVE  /\ DOMAIN (x \o CaptureDelete(c)) = 1 .. 5
         /\ (x \o CaptureDelete(c))[1] = x[1] /\ (x \o CaptureDelete(c))[2] = x[2]
         /\ (x \o CaptureDelete(c))[3] = Cmd("cacheRem", c, None)
         /\ (x \o CaptureDelete(c))[4] = Cmd("zrem", c, None)
         /\ (x \o CaptureDelete(c))[5] = Cmd("captask", c, None)
<1>1. PICK y \in Seq(Commands) : y = CaptureDelete(c)
  <2>1. CaptureDelete(c) \in Seq(Commands)
    BY ProgramsTyped
  <2> QED
    BY <2>1, Zenon
<1>2. /\ DOMAIN y = 1 .. 3 /\ y[1] = Cmd("cacheRem", c, None) /\ y[2] = Cmd("zrem", c, None)
      /\ y[3] = Cmd("captask", c, None)
  BY <1>1, CapturePrograms
<1>3. Len(y) = 3
  BY <1>2, LenProperties
<1>4. PICK w : w = x \o y
  OBVIOUS
<1>5. /\ DOMAIN (x \o y) = 1 .. Len(x) + Len(y)
      /\ \A k \in 1 .. Len(x) : (x \o y)[k] = x[k]
      /\ \A k \in 1 .. Len(y) : (x \o y)[Len(x) + k] = y[k]
  <2>1. ASSUME NEW a \in Seq(Commands), NEW b \in Seq(Commands)
        PROVE  /\ DOMAIN (a \o b) = 1 .. Len(a) + Len(b)
               /\ \A k \in 1 .. Len(a) : (a \o b)[k] = a[k]
               /\ \A k \in 1 .. Len(b) : (a \o b)[Len(a) + k] = b[k]
    BY Joined
  <2> QED
    BY <2>1, Zenon
<1>6. DOMAIN w = 1 .. 5 /\ w[1] = x[1] /\ w[2] = x[2] /\ w[3] = y[1] /\ w[4] = y[2] /\ w[5] = y[3]
  <2>1. 2 + 1 = 3 /\ 2 + 2 = 4 /\ 2 + 3 = 5 /\ 1 \in 1 .. 3 /\ 2 \in 1 .. 3 /\ 3 \in 1 .. 3
        /\ 1 \in 1 .. 2 /\ 2 \in 1 .. 2
    OBVIOUS
  <2> QED
    BY <1>3, <1>4, <1>5, <2>1
<1> QED
  BY <1>1, <1>2, <1>4, <1>6

\* A process other than the Crawler's commands moves on: what it starts concerns a task
\* that is used, and takes nothing away.
LEMMA MovePends ==
  ASSUME Pends, Base', UNCHANGED <<task, dedup, captask, captures>>,
         \A t \in Tasks : queue'[t] \in {queue[t], None},
         \A q \in Clients : Todo(q)' = Todo(q),
         Shape(Crawler)',
         \A t \in Tasks : NoUse(t) => me'.task # t /\ Quiet(Crawler, t)'
  PROVE  Pends'
<1>1. ASSUME NEW t \in Tasks, NoUse(t) PROVE NoUse(t)' /\ Quiet(Crawler, t)'
  BY <1>1 DEF NoUse
<1>2. ASSUME NEW q \in Clients PROVE Shape(q)'
  <2>1. ASSUME NEW t \in Tasks, NEW r \in Reqs, Creates(q, t, r) PROVE Creates(q, t, r)'
    <3>1. NoUse(t)' /\ Quiet(Crawler, t)'
      BY <1>1, <2>1 DEF Creates
    <3>2. \A w \in Procs \ {q} : Quiet(w, t)'
      <4> SUFFICES ASSUME NEW w \in Procs \ {q} PROVE Quiet(w, t)'
        OBVIOUS
      <4>1. CASE w = Crawler
        BY <3>1, <4>1
      <4>2. CASE w # Crawler
        BY <2>1, <4>2, ProcsFacts DEF Creates, Quiet
      <4> QED
        BY <4>1, <4>2
    <3> QED
      BY <2>1, <3>1, <3>2 DEF Creates
  <2>2. ASSUME Plain(q) PROVE Plain(q)'
    <3>1. Todo(q)' = Todo(q)
      OBVIOUS
    <3> SUFFICES ASSUME NEW k \in DOMAIN Todo(q) PROVE PlainAt(q, k)'
      BY <3>1 DEF Plain
    <3>2. PlainAt(q, k)
      BY <2>2 DEF Plain
    <3> QED
      BY <3>1, <3>2 DEF PlainAt, Earlier, Later
  <2>3. q # Crawler /\ q \in Procs
    BY ProcsFacts
  <2> QED
    BY <2>1, <2>2, <2>3 DEF Pends, Shapes, Shape
<1>3. Shapes'
  BY <1>2, ProcsFacts DEF Shapes
<1>4. DedupKnown'
  <2> SUFFICES ASSUME NEW r \in Reqs, NEW t \in Tasks, dedup[r] = t, task[t].hash # r
               PROVE  NoUse(t)' /\ \A q \in Procs : Quiet(q, t)' \/ Todo(q)' = AfterDedup(t, r)
    BY DEF DedupKnown
  <2>1. NoUse(t) /\ \A q \in Procs : Quiet(q, t) \/ Todo(q) = AfterDedup(t, r)
    BY DEF Pends, DedupKnown
  <2>2. \A q \in Clients : Quiet(q, t)' \/ Todo(q)' = AfterDedup(t, r)
    BY <2>1, ProcsFacts DEF Quiet
  <2>3. NoUse(t)' /\ Quiet(Crawler, t)'
    BY <1>1, <2>1
  <2> QED
    BY <2>2, <2>3, ProcsFacts
<1>5. CaptureKnown'
  BY DEF Pends, CaptureKnown
<1> QED
  BY <1>3, <1>4, <1>5 DEF Pends

LEMMA ShortPlain ==
  ASSUME NEW t,
         \A k \in DOMAIN Todo(Crawler)' :
            \/ Todo(Crawler)'[k].op \in {"start", "queue", "remove"} /\ Todo(Crawler)'[k].key = t
            \/ Todo(Crawler)'[k].op = "cacheAdd"
  PROVE  Plain(Crawler)' /\ \A u \in Tasks : u # t => Quiet(Crawler, u)'
<1>1. PICK w : w = Todo(Crawler)'
  OBVIOUS
<1>2. Plain(Crawler)'
  BY <1>1 DEF Plain, PlainAt, PlainOps
<1>3. \A u \in Tasks : u # t => Quiet(Crawler, u)'
  BY <1>1 DEF Quiet, TaskOps
<1> QED
  BY <1>2, <1>3

LEMMA LongPlain ==
  ASSUME NEW t \in Tasks, NEW c \in Captures, NEW x \in Seq(Commands), Len(x) = 2,
         \A k \in 1 .. 2 : x[k].op \in {"start", "queue", "remove"} /\ x[k].key = t,
         Todo(Crawler)' = x \o CaptureDelete(c)
  PROVE  Plain(Crawler)' /\ \A u \in Tasks : u # t => Quiet(Crawler, u)'
<1>1. PICK w : w = Todo(Crawler)'
  OBVIOUS
<1>2. /\ DOMAIN w = 1 .. 5 /\ w[1] = x[1] /\ w[2] = x[2]
      /\ w[3] = Cmd("cacheRem", c, None) /\ w[4] = Cmd("zrem", c, None)
      /\ w[5] = Cmd("captask", c, None)
  BY <1>1, LongPrograms
<1>3. /\ w[1].op \in {"start", "queue", "remove"} /\ w[1].key = t
      /\ w[2].op \in {"start", "queue", "remove"} /\ w[2].key = t
      /\ w[3].op = "cacheRem" /\ w[3].key = c
      /\ w[4].op = "zrem" /\ w[4].key = c
      /\ w[5].op = "captask" /\ w[5].key = c /\ w[5].val = None
  <2>1. 1 \in 1 .. 2 /\ 2 \in 1 .. 2
    OBVIOUS
  <2> QED
    BY <1>2, <2>1 DEF Cmd
<1>4. Earlier(Crawler, 5, "zrem", c)'
  <2>1. 4 \in DOMAIN w /\ 4 < 5
    BY <1>2
  <2> QED
    BY <1>1, <1>3, <2>1 DEF Earlier
<1>5. Later(Crawler, 3, "zrem", c)'
  <2>1. 4 \in DOMAIN w /\ 4 > 3
    BY <1>2
  <2> QED
    BY <1>1, <1>3, <2>1 DEF Later
<1>6. Plain(Crawler)'
  <2> SUFFICES ASSUME NEW k \in DOMAIN w PROVE PlainAt(Crawler, k)'
    BY <1>1 DEF Plain
  <2>1. k = 1 \/ k = 2 \/ k = 3 \/ k = 4 \/ k = 5
    BY <1>2
  <2>2. CASE k = 1 \/ k = 2 \/ k = 4
    BY <1>1, <1>3, <2>2 DEF PlainAt, PlainOps
  <2>3. CASE k = 3
    BY <1>1, <1>3, <1>5, <2>3 DEF PlainAt, PlainOps
  <2>4. CASE k = 5
    BY <1>1, <1>3, <1>4, <2>4 DEF PlainAt, PlainOps
  <2> QED
    BY <2>1, <2>2, <2>3, <2>4
<1>7. \A u \in Tasks : u # t => Quiet(Crawler, u)'
  <2> SUFFICES ASSUME NEW u \in Tasks, u # t, NEW k \in DOMAIN w, w[k].op \in TaskOps
               PROVE  w[k].key # u
    BY <1>1 DEF Quiet
  <2>1. k = 1 \/ k = 2 \/ k = 3 \/ k = 4 \/ k = 5
    BY <1>2
  <2> QED
    BY <1>3, <2>1 DEF TaskOps
<1> QED
  BY <1>6, <1>7

LEMMA MoveFacts ==
  ASSUME TypeOK, NEW cmds \in Seq(Commands),
         NEW pc \in {"slots", "pop", "filter", "enqueue", "push", "poll", "status", "compute",
                     "dead"},
         BackDo(cmds) \/ GotoDo(pc, cmds)
  PROVE  /\ Todo(Crawler)' = cmds /\ me'.task = me.task /\ me'.capture = me.capture
         /\ me'.prio = me.prio /\ me'.pc \in {"slots", pc}
         /\ \A q \in Clients : Todo(q)' = Todo(q)
<1>1. proc \in [Procs -> Locals]
  BY DEF TypeOK
<1>2. CASE BackDo(cmds)
  BY <1>1, <1>2, NewPc DEF BackDo
<1>3. CASE GotoDo(pc, cmds)
  BY <1>1, <1>3, NewPc DEF GotoDo
<1> QED
  BY <1>2, <1>3

\* The Crawler starts a short program about a task that is used.
LEMMA ShortPends ==
  ASSUME Pends, Base', UNCHANGED <<task, queue, dedup, captask, captures>>,
         NEW cmds \in Seq(Commands),
         NEW pc \in {"slots", "pop", "filter", "enqueue", "push", "poll", "status", "compute",
                     "dead"},
         BackDo(cmds) \/ GotoDo(pc, cmds),
         NEW t, t \in Tasks => ~NoUse(t),
         \A k \in DOMAIN cmds : \/ cmds[k].op \in {"start", "queue", "remove"} /\ cmds[k].key = t
                                \/ cmds[k].op = "cacheAdd"
  PROVE  Pends'
<1>1. TypeOK
  BY DEF Pends, Base
<1>2. /\ Todo(Crawler)' = cmds /\ me'.task = me.task
      /\ \A q \in Clients : Todo(q)' = Todo(q)
  BY <1>1, MoveFacts
<1>3. Plain(Crawler)' /\ \A u \in Tasks : u # t => Quiet(Crawler, u)'
  BY <1>2, ShortPlain
<1>4. \A u \in Tasks : NoUse(u) => me'.task # u /\ Quiet(Crawler, u)'
  BY <1>2, <1>3 DEF NoUse
<1>5. Shape(Crawler)'
  BY <1>3 DEF Shape
<1> QED
  BY <1>2, <1>4, <1>5, MovePends

LEMMA LongPends ==
  ASSUME Pends, Base', UNCHANGED <<task, queue, dedup, captask, captures>>,
         NEW t \in Tasks, ~NoUse(t), NEW c \in Captures, NEW x \in {TaskDelete(t), TaskReset(t)},
         BackDo(x \o CaptureDelete(c))
  PROVE  Pends'
<1>1. TypeOK
  BY DEF Pends, Base
<1>2. x \in Seq(Commands) /\ Len(x) = 2
      /\ \A k \in 1 .. 2 : x[k].op \in {"start", "queue", "remove"} /\ x[k].key = t
  <2>1. x \in Seq(Commands) /\ DOMAIN x = 1 .. 2
    BY ProgramsTyped, TaskPrograms
  <2>2. x[1].op \in {"start", "queue", "remove"} /\ x[1].key = t
        /\ x[2].op \in {"start", "queue", "remove"} /\ x[2].key = t
    <3>1. CASE x = TaskDelete(t)
      <4>1. x[1] = Cmd("queue", t, None) /\ x[2] = Cmd("remove", t, None)
        BY <3>1, TaskPrograms
      <4> QED
        BY <4>1 DEF Cmd
    <3>2. CASE x = TaskReset(t)
      <4>1. x[1] = Cmd("start", t, FALSE) /\ x[2] = Cmd("queue", t, 49)
        BY <3>2, TaskPrograms
      <4> QED
        BY <4>1 DEF Cmd
    <3> QED
      BY <3>1, <3>2
  <2>3. Len(x) = 2
    BY <2>1, LenProperties
  <2>4. \A k \in 1 .. 2 : k = 1 \/ k = 2
    OBVIOUS
  <2> QED
    BY <2>1, <2>2, <2>3, <2>4
<1>3. x \o CaptureDelete(c) \in Seq(Commands)
  <2>1. CaptureDelete(c) \in Seq(Commands)
    BY ProgramsTyped
  <2> QED
    BY <1>2, <2>1, ConcatProperties
<1>4. /\ Todo(Crawler)' = x \o CaptureDelete(c) /\ me'.task = me.task
      /\ \A q \in Clients : Todo(q)' = Todo(q)
  BY <1>1, <1>3, MoveFacts
<1>5. Plain(Crawler)' /\ \A u \in Tasks : u # t => Quiet(Crawler, u)'
  BY <1>2, <1>4, LongPlain
<1>6. \A u \in Tasks : NoUse(u) => me'.task # u /\ Quiet(Crawler, u)'
  BY <1>4, <1>5 DEF NoUse
<1>7. Shape(Crawler)'
  BY <1>5 DEF Shape
<1> QED
  BY <1>4, <1>6, <1>7, MovePends

\* The Crawler forgets what it was doing.
LEMMA FreshPends ==
  ASSUME Pends, Base', UNCHANGED <<task, queue, dedup, captask, captures>>,
         NEW l \in Locals, proc' = [proc EXCEPT ![Crawler] = l], l.todo = <<>>,
         l.task \in Tasks => ~NoUse(l.task)
  PROVE  Pends'
<1>1. proc \in [Procs -> Locals]
  BY DEF Pends, Base, TypeOK
<1>2. /\ me' = l /\ Todo(Crawler)' = <<>>
      /\ \A q \in Clients : Todo(q)' = Todo(q)
  BY <1>1, NewLocals
<1>3. Plain(Crawler)' /\ \A u \in Tasks : Quiet(Crawler, u)'
  BY <1>2 DEF Plain, Quiet
<1>4. \A u \in Tasks : NoUse(u) => me'.task # u /\ Quiet(Crawler, u)'
  BY <1>2, <1>3
<1>5. Shape(Crawler)'
  BY <1>3 DEF Shape
<1> QED
  BY <1>2, <1>4, <1>5, MovePends

LEMMA DiePends ==
  ASSUME Pends, Base', Die, UNCHANGED redis
  PROVE  Pends'
<1> DEFINE l == [Loop EXCEPT !.pc = "dead"]
<1>1. l \in Locals /\ l.todo = <<>>
  BY LoopTyped
<1>2. l.task \notin Tasks
  BY CrawlerAssumption DEF Loop
<1>3. proc' = [proc EXCEPT ![Crawler] = l] /\ UNCHANGED <<task, queue, dedup, captask, captures>>
  BY DEF Die, redis
<1> HIDE DEF l
<1> QED
  BY <1>1, <1>2, <1>3, FreshPends

LEMMA EmptyPends ==
  ASSUME Pends, Base', UNCHANGED <<task, queue, dedup, captask, captures>>,
         NEW pc \in {"slots", "pop", "filter", "enqueue", "push", "poll", "status", "compute",
                     "dead"},
         BackDo(<<>>) \/ GotoDo(pc, <<>>)
  PROVE  Pends'
<1>1. <<>> \in Seq(Commands)
  BY ProgramsTyped
<1>2. \A k \in DOMAIN <<>> : FALSE
  OBVIOUS
<1>3. None \notin Tasks
  BY CrawlerAssumption
<1> QED
  BY <1>1, <1>2, <1>3, ShortPends

LEMMA CrawlerPends ==
  ASSUME Pends, CrawlerStep
  PROVE  Pends'
<1>0. Base' /\ Base /\ TypeOK /\ proc \in [Procs -> Locals]
  BY CrawlerBase DEF Pends, Base, TypeOK
<1>1. UNCHANGED redis => UNCHANGED <<task, queue, dedup, captask, captures>>
  BY DEF redis
<1>2. me.task \in Tasks => ~NoUse(me.task)
  BY DEF NoUse
<1>3. me.pc \in {"filter", "enqueue", "push"} => me.task \in Tasks
  BY <1>0 DEF Base, LocalsOK
<1>4. me.pc \in {"status", "compute"} /\ CaptureTask # None =>
         me.capture \in Captures /\ CaptureTask \in Tasks /\ ~NoUse(CaptureTask)
  BY <1>0 DEF Base, LocalsOK, TypeOK, CaptureTask, NoUse
<1>5. ASSUME NEW t \in Tasks, NEW v \in Nat \cup {None}
      PROVE  /\ <<Cmd("queue", t, v)>> \in Seq(Commands)
             /\ \A k \in DOMAIN <<Cmd("queue", t, v)>> :
                   <<Cmd("queue", t, v)>>[k].op = "queue" /\ <<Cmd("queue", t, v)>>[k].key = t
  <2>1. <<Cmd("queue", t, v)>> \in Seq(Commands)
    BY ProgramsTyped
  <2> QED
    BY <2>1 DEF Cmd
<1>7. CASE CheckSlots
  <2> DEFINE pc == IF Len(cache) < MaxCaptures THEN "pop" ELSE "poll"
             l == [Loop EXCEPT !.pc = pc]
  <2>1. pc \in {"pop", "poll"}
    OBVIOUS
  <2>2. proc' = [proc EXCEPT ![Crawler] = l] /\ UNCHANGED redis
    BY <1>7 DEF CheckSlots
  <2> HIDE DEF pc
  <2>3. l \in Locals /\ l.todo = <<>>
    BY <2>1, LoopTyped
  <2>4. l.task \notin Tasks
    BY CrawlerAssumption DEF Loop
  <2> HIDE DEF l
  <2> QED
    BY <1>0, <1>1, <2>2, <2>3, <2>4, FreshPends
<1>8. CASE PopTask
  <2>1. CASE \A t \in Tasks : queue[t] = None
    <3>1. GotoDo("poll", <<>>) /\ UNCHANGED redis
      BY <1>8, <2>1 DEF PopTask, redis
    <3> QED
      BY <1>0, <1>1, <3>1, EmptyPends
  <2>2. CASE ~ \A t \in Tasks : queue[t] = None
    <3>1. PICK t \in Tasks :
             /\ queue[t] # None
             /\ queue' = [queue EXCEPT ![t] = None]
             /\ proc' = [proc EXCEPT ![Crawler].pc = "filter", ![Crawler].task = t,
                                     ![Crawler].prio = queue[t]]
      BY <1>8, <2>2 DEF PopTask
    <3>2. UNCHANGED <<task, dedup, captask, captures, cache, created>> /\ At("pop")
      BY <1>8 DEF PopTask
    <3>3. queue[t] \in Nat
      BY <1>0, <3>1 DEF TypeOK
    <3> DEFINE l == [me EXCEPT !.pc = "filter", !.task = t, !.prio = queue[t]]
    <3>4. me \in Locals /\ me.todo = <<>>
      BY <1>0, <3>2, ProcsFacts DEF me, At, Free
    <3>5. l \in Locals /\ l.todo = <<>> /\ l.task = t
      BY <3>3, <3>4 DEF Locals
    <3>6. proc' = [proc EXCEPT ![Crawler] = l]
      BY <3>1, <1>0, ProcsFacts DEF me
    <3> HIDE DEF l
    <3>7. /\ me' = l /\ Todo(Crawler)' = <<>>
          /\ \A q \in Clients : Todo(q)' = Todo(q)
      BY <1>0, <3>5, <3>6, NewLocals
    <3>8. Plain(Crawler)' /\ \A u \in Tasks : Quiet(Crawler, u)'
      BY <3>7 DEF Plain, Quiet
    <3>9. \A u \in Tasks : NoUse(u) => me'.task # u /\ Quiet(Crawler, u)'
      BY <3>1, <3>5, <3>7, <3>8 DEF NoUse
    <3>10. \A u \in Tasks : queue'[u] \in {queue[u], None}
      BY <1>0, <3>1 DEF TypeOK
    <3>11. Shape(Crawler)'
      BY <3>8 DEF Shape
    <3> QED
      BY <1>0, <3>2, <3>7, <3>9, <3>10, <3>11, MovePends
  <2> QED
    BY <2>1, <2>2
<1>9. CASE FilterPass
  <2>1. CASE task[me.task].domain
    <3>1. GotoDo("enqueue", <<Cmd("start", me.task, TRUE)>>) /\ UNCHANGED redis /\ me.pc = "filter"
      BY <1>9, <2>1 DEF FilterPass, At
    <3>2. <<Cmd("start", me.task, TRUE)>> \in Seq(Commands)
      BY <1>3, <3>1, ProgramsTyped
    <3>3. \A k \in DOMAIN <<Cmd("start", me.task, TRUE)>> :
             /\ <<Cmd("start", me.task, TRUE)>>[k].op = "start"
             /\ <<Cmd("start", me.task, TRUE)>>[k].key = me.task
      BY DEF Cmd
    <3> QED
      BY <1>0, <1>1, <1>2, <3>1, <3>2, <3>3, ShortPends
  <2>2. CASE ~ task[me.task].domain
    <3>1. Die /\ UNCHANGED redis
      BY <1>9, <2>2 DEF FilterPass
    <3> QED
      BY <1>0, <3>1, DiePends
  <2> QED
    BY <2>1, <2>2
<1>10. CASE FilterRefuse
  <2>1. BackDo(TaskDelete(me.task)) /\ me.task \in Tasks /\ UNCHANGED redis
    BY <1>3, <1>10 DEF FilterRefuse, At
  <2>2. TaskDelete(me.task) \in Seq(Commands)
    BY <2>1, ProgramsTyped
  <2>3. \A k \in DOMAIN TaskDelete(me.task) :
           TaskDelete(me.task)[k].op \in {"start", "queue", "remove"} /\ TaskDelete(me.task)[k].key = me.task
    <3>1. DOMAIN TaskDelete(me.task) = 1 .. 2 /\ TaskDelete(me.task)[1] = Cmd("queue", me.task, None)
          /\ TaskDelete(me.task)[2] = Cmd("remove", me.task, None)
      BY <2>1, TaskPrograms
    <3>2. \A k \in 1 .. 2 : k = 1 \/ k = 2
      OBVIOUS
    <3> QED
      BY <3>1, <3>2 DEF Cmd
  <2> QED
    BY <1>0, <1>1, <1>2, <2>1, <2>2, <2>3, ShortPends
<1>11. CASE FilterError
  <2>1. BackDo(TaskReset(me.task)) /\ me.task \in Tasks /\ UNCHANGED redis
    BY <1>3, <1>11 DEF FilterError, At
  <2>2. TaskReset(me.task) \in Seq(Commands)
    BY <2>1, ProgramsTyped
  <2>3. \A k \in DOMAIN TaskReset(me.task) :
           TaskReset(me.task)[k].op \in {"start", "queue", "remove"} /\ TaskReset(me.task)[k].key = me.task
    <3>1. DOMAIN TaskReset(me.task) = 1 .. 2 /\ TaskReset(me.task)[1] = Cmd("start", me.task, FALSE)
          /\ TaskReset(me.task)[2] = Cmd("queue", me.task, 49)
      BY <2>1, TaskPrograms
    <3>2. \A k \in 1 .. 2 : k = 1 \/ k = 2
      OBVIOUS
    <3> QED
      BY <3>1, <3>2 DEF Cmd
  <2> QED
    BY <1>0, <1>1, <1>2, <2>1, <2>2, <2>3, ShortPends
<1>12. CASE EnqueueCapture
  <2>1. me.pc = "enqueue" /\ UNCHANGED redis /\ me.task \in Tasks
    BY <1>3, <1>12 DEF EnqueueCapture, At
  <2>2. PICK c \in Captures : \/ FreshCapture(c) /\ GotoDo("push", CreateCapture(c, me.task))
                              \/ GotoDo("push", <<>>)
    BY <1>12 DEF EnqueueCapture
  <2>3. CASE GotoDo("push", <<>>)
    BY <1>0, <1>1, <2>1, <2>3, EmptyPends
  <2>4. CASE FreshCapture(c) /\ GotoDo("push", CreateCapture(c, me.task))
    <3>1. CreateCapture(c, me.task) \in Seq(Commands)
      BY <2>1, ProgramsTyped
    <3>2. /\ Todo(Crawler)' = CreateCapture(c, me.task) /\ me'.task = me.task
          /\ \A q \in Clients : Todo(q)' = Todo(q)
      BY <1>0, <2>4, <3>1, MoveFacts
    <3>3. me'.pc = "push"
      BY <1>0, <2>4, <3>1, NewPc DEF GotoDo
    <3>4. \A q \in Clients : QuietC(q, c)'
      <4>1. \A q \in Clients : QuietC(q, c)
        BY <2>4, ProcsFacts DEF FreshCapture, QuietC, Todo
      <4> QED
        BY <3>2, <4>1 DEF QuietC
    <3>5. c \notin captures' /\ captask'[c] = None /\ \A t \in Tasks : task'[t].capture # c
      BY <1>1, <2>1, <2>4 DEF FreshCapture
    <3>6. Takes(c)'
      BY <3>2, <3>3, <3>4, <3>5 DEF Takes
    <3>7. ASSUME NEW u \in Tasks, NoUse(u) PROVE me'.task # u /\ Quiet(Crawler, u)'
      <4>1. me.task # u
        BY <3>7 DEF NoUse
      <4>2. PICK w : w = Todo(Crawler)'
        OBVIOUS
      <4>3. /\ DOMAIN w = 1 .. 4 /\ w[1] = Cmd("capture", me.task, c)
            /\ w[2] = Cmd("captask", c, me.task) /\ w[3] = Cmd("zadd", c, None)
            /\ w[4] = Cmd("cacheAdd", c, None)
        BY <3>2, <4>2, CaptureLiterals
      <4>4. \A k \in 1 .. 4 : k = 1 \/ k = 2 \/ k = 3 \/ k = 4
        OBVIOUS
      <4>5. \A k \in DOMAIN w : w[k].op \in TaskOps => w[k].key # u
        BY <4>1, <4>3, <4>4 DEF Cmd, TaskOps
      <4> QED
        BY <3>2, <4>1, <4>2, <4>5 DEF Quiet
    <3>8. Shape(Crawler)'
      BY <3>6 DEF Shape
    <3> QED
      BY <1>0, <1>1, <2>1, <3>2, <3>7, <3>8, MovePends
  <2> QED
    BY <2>2, <2>3, <2>4
<1>13. CASE EnqueueFails
  <2>1. BackDo(<<Cmd("queue", me.task, me.prio)>>) /\ UNCHANGED redis /\ me.task \in Tasks
    BY <1>3, <1>13 DEF EnqueueFails, At
  <2>2. me.prio \in Nat \cup {None}
    BY <1>0, LocalsFacts, ProcsFacts DEF me
  <2>3. /\ <<Cmd("queue", me.task, me.prio)>> \in Seq(Commands)
        /\ \A k \in DOMAIN <<Cmd("queue", me.task, me.prio)>> :
              /\ <<Cmd("queue", me.task, me.prio)>>[k].op = "queue"
              /\ <<Cmd("queue", me.task, me.prio)>>[k].key = me.task
    BY <1>5, <2>1, <2>2
  <2> QED
    BY <1>0, <1>1, <1>2, <2>1, <2>3, ShortPends
<1>14. CASE PushDiscovery
  <2>1. UNCHANGED redis /\ me.task \in Tasks
    BY <1>3, <1>14 DEF PushDiscovery, At
  <2>2. me.prio \in Nat \cup {None}
    BY <1>0, LocalsFacts, ProcsFacts DEF me
  <2>3. CASE GotoDo("poll", <<>>)
    BY <1>0, <1>1, <2>1, <2>3, EmptyPends
  <2>4. CASE BackDo(<<Cmd("queue", me.task, me.prio)>>)
    <3>1. /\ <<Cmd("queue", me.task, me.prio)>> \in Seq(Commands)
          /\ \A k \in DOMAIN <<Cmd("queue", me.task, me.prio)>> :
                /\ <<Cmd("queue", me.task, me.prio)>>[k].op = "queue"
                /\ <<Cmd("queue", me.task, me.prio)>>[k].key = me.task
      BY <1>5, <2>1, <2>2
    <3> QED
      BY <1>0, <1>1, <1>2, <2>1, <2>4, <3>1, ShortPends
  <2> QED
    BY <1>14, <2>3, <2>4 DEF PushDiscovery
<1>15. CASE PollCapture
  <2>1. CASE cache = <<>>
    <3>1. BackDo(<<>>) /\ UNCHANGED redis
      BY <1>15, <2>1 DEF PollCapture, redis
    <3> QED
      BY <1>0, <1>1, <3>1, EmptyPends
  <2>2. CASE cache # <<>>
    <3> DEFINE c == Head(cache)
               l == [Loop EXCEPT !.pc = "status", !.capture = c, !.task = captask[c]]
    <3>1. proc' = [proc EXCEPT ![Crawler] = l] /\ UNCHANGED <<task, queue, dedup, captask, captures>>
      BY <1>15, <2>2 DEF PollCapture
    <3>2. c \in Captures
      BY <1>0, <2>2 DEF TypeOK
    <3> HIDE DEF c
    <3>3. captask[c] \in Tasks \cup {None}
      BY <1>0, <3>2 DEF TypeOK
    <3>4. l \in Locals /\ l.todo = <<>> /\ l.task = captask[c]
      BY <3>2, <3>3, LoopTyped DEF Locals, Loop
    <3>5. l.task \in Tasks => ~NoUse(l.task)
      BY <3>2, <3>4 DEF NoUse
    <3> HIDE DEF l
    <3> QED
      BY <1>0, <3>1, <3>4, <3>5, FreshPends
  <2> QED
    BY <2>1, <2>2
<1>16. CASE CaptureDone
  <2>1. GotoDo("compute", <<>>) /\ UNCHANGED redis
    BY <1>16 DEF CaptureDone
  <2> QED
    BY <1>0, <1>1, <2>1, EmptyPends
<1>17. CASE CaptureUpdate
  <2>1. BackDo(<<Cmd("cacheAdd", me.capture, None)>>) /\ UNCHANGED redis /\ me.capture \in Captures
    BY <1>0, <1>17 DEF CaptureUpdate, At, Base, LocalsOK
  <2>2. <<Cmd("cacheAdd", me.capture, None)>> \in Seq(Commands)
    BY <2>1, ProgramsTyped
  <2>3. \A k \in DOMAIN <<Cmd("cacheAdd", me.capture, None)>> :
           <<Cmd("cacheAdd", me.capture, None)>>[k].op = "cacheAdd"
    BY DEF Cmd
  <2>4. None \notin Tasks
    BY CrawlerAssumption
  <2> QED
    BY <1>0, <1>1, <2>1, <2>2, <2>3, <2>4, ShortPends
<1>18. CASE CaptureUnknown
  <2>1. me.pc = "status" /\ UNCHANGED redis
    BY <1>18 DEF CaptureUnknown, At
  <2>2. CASE CaptureTask = None
    <3>1. Die
      BY <1>18, <2>2 DEF CaptureUnknown
    <3> QED
      BY <1>0, <2>1, <3>1, DiePends
  <2>3. CASE CaptureTask # None
    <3>1. BackDo(TaskDelete(CaptureTask) \o CaptureDelete(me.capture))
      BY <1>18, <2>3 DEF CaptureUnknown
    <3> QED
      BY <1>0, <1>1, <1>4, <2>1, <2>3, <3>1, LongPends
  <2> QED
    BY <2>2, <2>3
<1>19. CASE CaptureTimeout
  <2>1. me.pc = "status" /\ UNCHANGED redis
    BY <1>19 DEF CaptureTimeout, At
  <2>2. CASE CaptureTask = None
    <3>1. Die
      BY <1>19, <2>2 DEF CaptureTimeout
    <3> QED
      BY <1>0, <2>1, <3>1, DiePends
  <2>3. CASE CaptureTask # None
    <3>1. BackDo(TaskReset(CaptureTask) \o CaptureDelete(me.capture))
      BY <1>19, <2>3 DEF CaptureTimeout
    <3> QED
      BY <1>0, <1>1, <1>4, <2>1, <2>3, <3>1, LongPends
  <2> QED
    BY <2>2, <2>3
<1>20. CASE Compute
  <2>1. me.pc = "compute" /\ UNCHANGED redis
    BY <1>20 DEF Compute, At
  <2>2. CASE ~(CaptureTask # None /\ task[CaptureTask].domain)
    <3>1. Die
      BY <1>20, <2>2 DEF Compute
    <3> QED
      BY <1>0, <2>1, <3>1, DiePends
  <2>3. CASE CaptureTask # None /\ task[CaptureTask].domain
    <3>1. BackDo(TaskRemove(CaptureTask))
      BY <1>20, <2>3 DEF Compute
    <3>2. CaptureTask \in Tasks /\ ~NoUse(CaptureTask)
      BY <1>4, <2>1, <2>3
    <3>3. TaskRemove(CaptureTask) \in Seq(Commands)
      BY <3>2, ProgramsTyped
    <3>4. \A k \in DOMAIN TaskRemove(CaptureTask) :
             TaskRemove(CaptureTask)[k].op = "remove" /\ TaskRemove(CaptureTask)[k].key = CaptureTask
      BY DEF TaskRemove, Cmd
    <3> QED
      BY <1>0, <1>1, <2>1, <3>1, <3>2, <3>3, <3>4, ShortPends
  <2> QED
    BY <2>2, <2>3
<1>21. CASE ComputeFails
  <2>1. GotoDo("dead", <<>>) /\ UNCHANGED redis
    BY <1>21 DEF ComputeFails
  <2> QED
    BY <1>0, <2>1, EmptyPends DEF redis
<1> QED
  BY <1>7, <1>8, <1>9, <1>10, <1>11, <1>12, <1>13, <1>14, <1>15, <1>16, <1>17, <1>18, <1>19, <1>20,
     <1>21
  DEF CrawlerStep

\* A process without commands starts a program that concerns one task, or none.
LEMMA ProgramPends ==
  ASSUME Pends, Base', NEW p \in Procs, Todo(p) = <<>>, NEW cmds \in Seq(Commands), Do(p, cmds),
         UNCHANGED <<task, queue, dedup, captask, captures>>, Shape(p)',
         NEW t, \A u \in Tasks : u # t => Quiet(p, u)',
         t \in Tasks => (\A s \in Reqs : dedup[s] # t) /\ \A q \in Procs : Quiet(q, t),
         \A c \in Captures : p # Crawler /\ Takes(c) => QuietC(p, c)'
  PROVE  Pends'
<1>1. proc \in [Procs -> Locals]
  BY DEF Pends, Base, TypeOK
<1>2. /\ \A q \in Procs \ {p} : Todo(q)' = Todo(q)
      /\ me'.task = me.task /\ me'.pc = me.pc
  BY <1>1, NewTodo, ProcsFacts DEF Do, me
<1>3. ASSUME NEW u \in Tasks, NoUse(u) PROVE NoUse(u)'
  BY <1>2, <1>3 DEF NoUse
<1>4. ASSUME NEW q \in Procs \ {p} PROVE Shape(q)'
  <2>1. ASSUME NEW u \in Tasks, NEW r \in Reqs, Creates(q, u, r) PROVE Creates(q, u, r)'
    <3>1. NoUse(u)'
      BY <1>3, <2>1 DEF Creates
    <3>2. u # t
      <4>1. ~Quiet(q, u)
        BY <2>1, CreatesNames DEF Creates
      <4> QED
        BY <4>1
    <3>3. \A w \in Procs \ {q} : Quiet(w, u)'
      <4> SUFFICES ASSUME NEW w \in Procs \ {q} PROVE Quiet(w, u)'
        OBVIOUS
      <4>1. CASE w = p
        BY <3>2, <4>1
      <4>2. CASE w # p
        BY <1>2, <2>1, <4>2 DEF Creates, Quiet
      <4> QED
        BY <4>1, <4>2
    <3> QED
      BY <1>2, <2>1, <3>1, <3>3 DEF Creates
  <2>2. ASSUME q = Crawler, NEW c \in Captures, Takes(c) PROVE Takes(c)'
    <3>1. \A w \in Clients : QuietC(w, c)'
      <4> SUFFICES ASSUME NEW w \in Clients PROVE QuietC(w, c)'
        OBVIOUS
      <4>1. CASE w = p
        BY <2>2, <4>1
      <4>2. CASE w # p
        BY <1>2, <2>2, <4>2, ProcsFacts DEF Takes, QuietC
      <4> QED
        BY <4>1, <4>2
    <3> QED
      BY <1>2, <2>2, <3>1 DEF Takes
  <2>3. ASSUME Plain(q) PROVE Plain(q)'
    <3>1. Todo(q)' = Todo(q)
      BY <1>2
    <3> SUFFICES ASSUME NEW k \in DOMAIN Todo(q) PROVE PlainAt(q, k)'
      BY <3>1 DEF Plain
    <3>2. PlainAt(q, k)
      BY <2>3 DEF Plain
    <3> QED
      BY <3>1, <3>2 DEF PlainAt, Earlier, Later
  <2> QED
    BY <2>1, <2>2, <2>3 DEF Pends, Shapes, Shape
<1>5. Shapes'
  BY <1>4 DEF Shapes
<1>6. DedupKnown'
  <2> SUFFICES ASSUME NEW r \in Reqs, NEW u \in Tasks, dedup[r] = u, task[u].hash # r
               PROVE  NoUse(u)' /\ \A q \in Procs : Quiet(q, u)' \/ Todo(q)' = AfterDedup(u, r)
    BY DEF DedupKnown
  <2>1. NoUse(u) /\ \A q \in Procs : Quiet(q, u) \/ Todo(q) = AfterDedup(u, r)
    BY DEF Pends, DedupKnown
  <2>2. \A q \in Procs \ {p} : Quiet(q, u)' \/ Todo(q)' = AfterDedup(u, r)
    BY <1>2, <2>1 DEF Quiet
  <2>3. Quiet(p, u)'
    OBVIOUS
  <2> QED
    BY <1>3, <2>1, <2>2, <2>3
<1>7. CaptureKnown'
  BY DEF Pends, CaptureKnown
<1> QED
  BY <1>5, <1>6, <1>7 DEF Pends

LEMMA CreatePends ==
  ASSUME Pends, Base', NEW p \in Procs, NEW r \in Reqs, Create(p, r)
  PROVE  Pends'
<1>1. PICK t \in Tasks : FreshTask(t) /\ Do(p, CreateTask(t, r))
  BY DEF Create
<1>2. Todo(p) = <<>> /\ UNCHANGED <<task, queue, dedup, captask, captures>>
  BY DEF Create, Free, Todo
<1>3. CreateTask(t, r) \in Seq(Commands)
  BY ProgramsTyped
<1>4. proc \in [Procs -> Locals]
  BY DEF Pends, Base, TypeOK
<1>5. /\ Todo(p)' = CreateTask(t, r) /\ me'.task = me.task
      /\ \A q \in Procs \ {p} : Todo(q)' = Todo(q)
  BY <1>1, <1>3, <1>4, NewTodo, ProcsFacts DEF Do, me
<1>6. \A q \in Procs : Quiet(q, t)
  BY <1>1 DEF FreshTask, Quiet, Todo
<1>7. \A s \in Reqs : dedup[s] # t
  BY <1>1 DEF FreshTask
<1>8. Creates(p, t, r)'
  <2>1. NoUse(t)'
    BY <1>1, <1>2, <1>5, ProcsFacts DEF FreshTask, NoUse, me
  <2>2. \A q \in Procs \ {p} : Quiet(q, t)'
    BY <1>5, <1>6 DEF Quiet
  <2> QED
    BY <1>2, <1>5, <1>7, <2>1, <2>2 DEF Creates
<1>9. PICK w : w = Todo(p)'
  OBVIOUS
<1>10. /\ DOMAIN w = 1 .. 4 /\ w[1] = Cmd("domain", t, TRUE) /\ w[2] = Cmd("dedup", r, t)
       /\ w[3] = Cmd("hash", t, r) /\ w[4] = Cmd("queue", t, Prio[r])
  <2>1. w = CreateTask(t, r)
    BY <1>5, <1>9
  <2> QED
    BY <2>1 DEF CreateTask
<1>11. \A k \in 1 .. 4 : k = 1 \/ k = 2 \/ k = 3 \/ k = 4
  OBVIOUS
<1>12. \A u \in Tasks : u # t => Quiet(p, u)'
  <2>1. \A k \in DOMAIN w : w[k].op \in TaskOps => w[k].key = t
    BY <1>10, <1>11 DEF Cmd, TaskOps
  <2> QED
    BY <1>9, <2>1 DEF Quiet
<1>13. \A c \in Captures : QuietC(p, c)'
  <2>1. \A k \in DOMAIN w : w[k].op \notin CaptureOps
    BY <1>10, <1>11 DEF Cmd, CaptureOps
  <2> QED
    BY <1>9, <2>1 DEF QuietC
<1>14. Shape(p)'
  BY <1>8 DEF Shape
<1> QED
  BY <1>1, <1>2, <1>3, <1>6, <1>7, <1>12, <1>13, <1>14, ProgramPends

LEMMA DeletePends ==
  ASSUME Pends, Base', NEW p \in Clients, NEW c \in Captures, DeleteCapture(p, c)
  PROVE  Pends'
<1>1. /\ Todo(p) = <<>> /\ c \in captures /\ Do(p, CaptureDelete(c))
      /\ UNCHANGED <<task, queue, dedup, captask, captures>>
  BY DEF DeleteCapture, Free, Todo
<1>2. CaptureDelete(c) \in Seq(Commands)
  BY ProgramsTyped
<1>3. proc \in [Procs -> Locals] /\ p \in Procs
  BY ProcsFacts DEF Pends, Base, TypeOK
<1>4. Todo(p)' = CaptureDelete(c)
  BY <1>1, <1>2, <1>3, NewTodo DEF Do
<1>5. PICK w : w = Todo(p)'
  OBVIOUS
<1>6. /\ DOMAIN w = 1 .. 3 /\ w[1] = Cmd("cacheRem", c, None)
      /\ w[2] = Cmd("zrem", c, None) /\ w[3] = Cmd("captask", c, None)
  BY <1>4, <1>5, CapturePrograms
<1>7. \A k \in 1 .. 3 : k = 1 \/ k = 2 \/ k = 3
  OBVIOUS
<1>8. /\ w[1].op = "cacheRem" /\ w[1].key = c
      /\ w[2].op = "zrem" /\ w[2].key = c
      /\ w[3].op = "captask" /\ w[3].key = c /\ w[3].val = None
  BY <1>6 DEF Cmd
<1>9. Earlier(p, 3, "zrem", c)'
  <2>1. 2 \in DOMAIN w /\ 2 < 3
    BY <1>6
  <2> QED
    BY <1>5, <1>8, <2>1 DEF Earlier
<1>10. Later(p, 1, "zrem", c)'
  <2>1. 2 \in DOMAIN w /\ 2 > 1
    BY <1>6
  <2> QED
    BY <1>5, <1>8, <2>1 DEF Later
<1>11. Plain(p)'
  <2> SUFFICES ASSUME NEW k \in DOMAIN w PROVE PlainAt(p, k)'
    BY <1>5 DEF Plain
  <2>1. k = 1 \/ k = 2 \/ k = 3
    BY <1>6, <1>7
  <2>2. CASE k = 2
    BY <1>5, <1>8, <2>2 DEF PlainAt, PlainOps
  <2>3. CASE k = 1
    BY <1>5, <1>8, <1>10, <2>3 DEF PlainAt, PlainOps
  <2>4. CASE k = 3
    BY <1>5, <1>8, <1>9, <2>4 DEF PlainAt, PlainOps
  <2> QED
    BY <2>1, <2>2, <2>3, <2>4
<1>12. \A u \in Tasks : Quiet(p, u)'
  BY <1>5, <1>6, <1>7, <1>8 DEF Quiet, TaskOps
<1>13. \A d \in Captures : Takes(d) => QuietC(p, d)'
  <2> SUFFICES ASSUME NEW d \in Captures, Takes(d) PROVE QuietC(p, d)'
    OBVIOUS
  <2>1. d # c
    BY <1>1 DEF Takes
  <2> QED
    BY <1>5, <1>6, <1>7, <1>8, <2>1 DEF QuietC, CaptureOps
<1>14. Shape(p)'
  BY <1>11 DEF Shape
<1>15. None \notin Tasks
  BY CrawlerAssumption
<1> QED
  BY <1>1, <1>2, <1>3, <1>12, <1>13, <1>14, <1>15, ProgramPends

\* What is pending is in order from the start, at every stop and at every restart.
LEMMA PendsHolds ==
  /\ Init => Pends
  /\ Pends /\ [CrashNext]_vars => Pends'
<1>1. Init => Pends
  <2> SUFFICES ASSUME Init PROVE Pends
    OBVIOUS
  <2>1. Base
    BY BaseHolds
  <2>2. \A p \in Procs : Todo(p) = <<>>
    BY DEF Init, Loop, Todo
  <2>3. Shapes
    BY <2>2 DEF Shapes, Shape, Plain
  <2>4. DedupKnown /\ CaptureKnown
    BY CrawlerAssumption DEF Init, NoTask, DedupKnown, CaptureKnown
  <2> QED
    BY <2>1, <2>3, <2>4 DEF Pends
<1>2. ASSUME Pends, [CrashNext]_vars PROVE Pends'
  <2>0. Base' /\ TypeOK
    BY <1>2, BaseHolds, AnyStep DEF Pends, Base
  <2>1. CASE \E p \in Procs : Command(p)
    BY <1>2, <2>1, CommandPends
  <2>2. ASSUME NEW r \in Reqs, ProcessQueue(r) PROVE Pends'
    BY <1>2, <2>0, <2>2, CreatePends, ProcsFacts DEF ProcessQueue
  <2>3. ASSUME NEW r \in Reqs, NEW w \in Clients, ClientCreate(w, r) PROVE Pends'
    BY <1>2, <2>0, <2>3, CreatePends, ProcsFacts DEF ClientCreate
  <2>4. CASE CrawlerStep
    BY <1>2, <2>4, CrawlerPends
  <2>5. CASE Crash
    BY <1>2, <2>0, <2>5, DiePends DEF Crash
  <2>6. CASE Restart
    <3>1. BackDo(<<>>) /\ UNCHANGED <<task, queue, dedup, captask, captures>>
      BY <2>6 DEF Restart
    <3> QED
      BY <1>2, <2>0, <3>1, EmptyPends
  <2>7. ASSUME NEW w \in Clients, NEW c \in Captures, DeleteCapture(w, c) PROVE Pends'
    BY <1>2, <2>0, <2>7, DeletePends
  <2>8. CASE UNCHANGED vars
    <3>1. /\ UNCHANGED <<task, queue, dedup, captask, captures>>
          /\ \A q \in Procs : Todo(q)' = Todo(q)
          /\ me' = me
      BY <2>8 DEF vars, Todo, me
    <3>2. \A u \in Tasks : NoUse(u) => NoUse(u)'
      BY <3>1 DEF NoUse
    <3>3. \A p \in Procs : \A u \in Tasks : Quiet(p, u) => Quiet(p, u)'
      BY <3>1 DEF Quiet
    <3>4. Shapes'
      BY <1>2, <2>8 DEF vars, Pends, Shapes, Shape, Creates, Takes, Plain, PlainAt, Earlier, Later,
         Quiet, QuietC, NoUse, Todo, me
    <3>5. DedupKnown' /\ CaptureKnown'
      BY <1>2, <2>8 DEF vars, Pends, DedupKnown, CaptureKnown, Quiet, NoUse, Todo, me
    <3> QED
      BY <2>0, <3>4, <3>5 DEF Pends
  <2> QED
    BY <1>2, <2>1, <2>2, <2>3, <2>4, <2>5, <2>6, <2>7, <2>8 DEF CrashNext, Next
<1> QED
  BY <1>1, <1>2

\* Every other step leaves the records alone.
OtherStep ==
    \/ \E r \in Reqs : ProcessQueue(r) \/ \E w \in Clients : ClientCreate(w, r)
    \/ CrawlerStep \/ Crash \/ Restart
    \/ \E w \in Clients, c \in Captures : DeleteCapture(w, c)
    \/ UNCHANGED vars

LEMMA OtherTables ==
  /\ [CrashNext]_vars => OtherStep \/ \E p \in Procs : Command(p)
  /\ OtherStep => UNCHANGED <<task, dedup, captask, captures>>
<1>1. [CrashNext]_vars => OtherStep \/ \E p \in Procs : Command(p)
  BY DEF CrashNext, Next, OtherStep
<1>2. ASSUME OtherStep PROVE UNCHANGED <<task, dedup, captask, captures>>
  <2>1. CASE CrawlerStep
    <3>1. CASE PopTask
      BY <3>1 DEF PopTask
    <3>2. CASE PollCapture
      BY <3>2 DEF PollCapture
    <3>3. CASE ~PopTask /\ ~PollCapture
      <4>1. UNCHANGED redis
        BY <2>1, <3>3 DEF CrawlerStep, CheckSlots, FilterPass, FilterRefuse, FilterError,
           EnqueueCapture, EnqueueFails, PushDiscovery, CaptureDone, CaptureUpdate,
           CaptureUnknown, CaptureTimeout, Compute, ComputeFails
      <4> QED
        BY <4>1 DEF redis
    <3> QED
      BY <3>1, <3>2, <3>3
  <2>2. CASE Crash \/ Restart \/ UNCHANGED vars
    BY <2>2 DEF Crash, Restart, vars, redis
  <2>3. ASSUME NEW p, NEW r \in Reqs, Create(p, r) PROVE UNCHANGED <<task, dedup, captask, captures>>
    BY <2>3 DEF Create
  <2>4. ASSUME NEW w \in Clients, NEW c \in Captures, DeleteCapture(w, c)
        PROVE  UNCHANGED <<task, dedup, captask, captures>>
    BY <2>4 DEF DeleteCapture
  <2> QED
    BY <1>2, <2>1, <2>2, <2>3, <2>4 DEF OtherStep, ProcessQueue, ClientCreate
<1> QED
  BY <1>1, <1>2

LEMMA DedupStep ==
  ASSUME Pends, DedupHasTask, [CrashNext]_vars
  PROVE  DedupHasTask'
<1>1. proc \in [Procs -> Locals] /\ TypeOK /\ Base /\ Shapes /\ Base'
  BY PendsHolds DEF Pends, Base, TypeOK
<1>2. ASSUME NEW p \in Procs, Command(p) PROVE DedupHasTask'
  <2> SUFFICES ASSUME NEW r \in Reqs, NEW t \in Tasks, dedup'[r] = t PROVE task'[t].domain
    BY <1>1 DEF DedupHasTask, Base, TypeOK
  <2>0. Todo(p) # <<>> /\ Next1(p) \in Commands /\ 1 \in DOMAIN Todo(p) /\ Next1(p) = Todo(p)[1]
    BY <1>1, <1>2, Effects DEF Next1
  <2>1. CASE dedup[r] # t
    <3>1. task[t].domain /\ HsetDedup(p)
      BY <1>1, <1>2, <2>1, NewDedup
    <3> QED
      BY <1>1, <3>1, Effects
  <2>2. CASE dedup[r] = t
    <3>1. task[t].domain
      BY <2>2, CrawlerAssumption DEF DedupHasTask
    <3>2. CASE HsetTask(p)
      <4>1. /\ Next1(p).op \in {"domain", "hash", "start", "capture"} /\ Next1(p).key \in Tasks
            /\ task' = [task EXCEPT ![Next1(p).key] = [@ EXCEPT ![Next1(p).op] = Next1(p).val]]
        BY <1>1, <2>0, <3>2, Effects, CommandTypes
      <4>2. task[Next1(p).key] \in [domain : BOOLEAN, hash : Reqs \cup {None}, start : BOOLEAN,
                                    capture : Captures \cup {None}]
        BY <1>1, <4>1 DEF TypeOK
      <4>3. Next1(p).op = "domain" => Next1(p).val = TRUE
        <5> SUFFICES ASSUME Next1(p).op = "domain" PROVE Next1(p).val = TRUE
          OBVIOUS
        <5>1. PICK u \in Tasks, s \in Reqs :
                 \/ Next1(p) = Cmd("domain", u, TRUE)
                 \/ Next1(p) = Cmd("dedup", s, u)
                 \/ Next1(p) = Cmd("hash", u, s)
          BY <1>1, <2>0, OpHeads
        <5> QED
          BY <5>1 DEF Cmd
      <4>4. [task[Next1(p).key] EXCEPT ![Next1(p).op] = Next1(p).val].domain
               = IF Next1(p).op = "domain" THEN TRUE ELSE task[Next1(p).key].domain
        <5>1. CASE Next1(p).op = "domain"
          BY <4>2, <4>3, <5>1
        <5>2. CASE Next1(p).op = "start"
          BY <4>2, <5>2
        <5>3. CASE Next1(p).op = "hash"
          BY <4>2, <5>3
        <5>4. CASE Next1(p).op = "capture"
          BY <4>2, <5>4
        <5> QED
          BY <4>1, <5>1, <5>2, <5>3, <5>4
      <4>5. CASE Next1(p).key = t
        <5>1. task'[t] = [task[Next1(p).key] EXCEPT ![Next1(p).op] = Next1(p).val]
          BY <1>1, <4>1, <4>5 DEF TypeOK
        <5> QED
          BY <3>1, <4>4, <4>5, <5>1
      <4>6. CASE Next1(p).key # t
        BY <1>1, <3>1, <4>1, <4>6 DEF TypeOK
      <4> QED
        BY <4>5, <4>6
    <3>3. CASE DeleteTask(p)
      <4>1. Next1(p).op = "del" /\ task' = [task EXCEPT ![Next1(p).key] = NoTask]
        BY <1>1, <3>3, Effects
      <4>2. PlainAt(p, 1)
        BY <1>1, <2>0, <4>1, OpHeads DEF PlainOps
      <4>3. ~Earlier(p, 1, "hdelDedup", Next1(p).key)
        BY <1>1, LocalsFacts DEF Earlier
      <4>4. Next1(p).key # t
        BY <2>0, <2>2, <4>1, <4>2, <4>3 DEF PlainAt
      <4> QED
        BY <1>1, <3>1, <4>1, <4>4 DEF TypeOK
    <3> QED
      BY <1>1, <1>2, <3>1, <3>2, <3>3, Effects DEF Command
  <2> QED
    BY <2>1, <2>2
<1>3. CASE OtherStep
  BY <1>3, OtherTables DEF DedupHasTask
<1> QED
  BY <1>2, <1>3, OtherTables

LEMMA CapturesStep ==
  ASSUME Pends, CapturesHaveTask, [CrashNext]_vars
  PROVE  CapturesHaveTask'
<1>1. proc \in [Procs -> Locals] /\ TypeOK /\ Base /\ Shapes
  BY DEF Pends, Base, TypeOK
<1>2. ASSUME NEW p \in Procs, Command(p) PROVE CapturesHaveTask'
  <2> SUFFICES ASSUME NEW c \in captures' PROVE captask'[c] # None
    BY DEF CapturesHaveTask
  <2>0. Todo(p) # <<>> /\ Next1(p) \in Commands /\ 1 \in DOMAIN Todo(p) /\ Next1(p) = Todo(p)[1]
    BY <1>1, <1>2, Effects DEF Next1
  <2>1. CASE c \notin captures
    <3>1. p = Crawler /\ Takes(c) /\ Todo(p) = AfterCapTask(c) /\ ZaddCaptures(p)
      BY <1>1, <1>2, <2>1, NewCapture
    <3>2. captask[c] = me.task
      <4>1. AfterCapTask(c) # CreateCapture(c, me.task) /\ AfterCapTask(c) # AfterCapture(c, me.task)
        BY DEF CreateCapture, AfterCapture, AfterCapTask
      <4> QED
        BY <3>1, <4>1 DEF Takes
    <3>3. me.task # None
      BY <1>1, <3>1, CrawlerAssumption DEF Takes, Base, LocalsOK
    <3>4. captask' = captask
      BY <1>1, <3>1, Effects
    <3> QED
      BY <3>2, <3>3, <3>4
  <2>2. CASE c \in captures
    <3>1. captask[c] # None /\ c \in Captures
      BY <1>1, <2>2 DEF CapturesHaveTask, TypeOK
    <3>2. CASE HsetCapTask(p)
      <4>1. Next1(p).op = "captask" /\ captask' = [captask EXCEPT ![Next1(p).key] = Next1(p).val]
        BY <1>1, <3>2, Effects
      <4>2. CASE Next1(p).key = c
        <5>1. ~PlainAt(p, 1)
          <6>1. ~Earlier(p, 1, "zrem", c)
            BY <1>1, LocalsFacts DEF Earlier
          <6> QED
            BY <2>0, <2>2, <4>1, <4>2, <6>1 DEF PlainAt
        <5>2. PICK d \in Captures : Takes(d) /\ Next1(p) = Cmd("captask", d, me.task)
          BY <1>1, <2>0, <4>1, <5>1, OpHeads
        <5>3. d = c
          BY <4>2, <5>2 DEF Cmd
        <5> QED
          BY <2>2, <5>2, <5>3 DEF Takes
      <4>3. CASE Next1(p).key # c
        BY <1>1, <3>1, <4>1, <4>3 DEF TypeOK
      <4> QED
        BY <4>2, <4>3
    <3> QED
      BY <1>1, <1>2, <3>1, <3>2, Effects DEF Command
  <2> QED
    BY <2>1, <2>2
<1>3. CASE OtherStep
  BY <1>3, OtherTables DEF CapturesHaveTask
<1> QED
  BY <1>2, <1>3, OtherTables

\* The queue hash of crawlers.py: a request is refused only for a task that exists, at
\* every step of CrawlerTask.create and remove, and wherever the Crawler stops.
THEOREM DedupCorrect ==
  /\ Spec => []DedupHasTask
  /\ CrashSpec => []DedupHasTask
<1>1. Init => Pends /\ DedupHasTask
  BY PendsHolds DEF Init, DedupHasTask
<1>2. Pends /\ DedupHasTask /\ [CrashNext]_vars => Pends' /\ DedupHasTask'
  BY PendsHolds, DedupStep
<1> QED
  BY <1>1, <1>2, AnyStep, PTL DEF Spec, CrashSpec

\* What reload_crawler_captures finds in Kvrocks, whenever the Crawler stopped, is a capture
\* whose task is known.
THEOREM CapturesCorrect ==
  /\ Spec => []CapturesHaveTask
  /\ CrashSpec => []CapturesHaveTask
<1>1. Init => Pends /\ CapturesHaveTask
  BY PendsHolds DEF Init, CapturesHaveTask
<1>2. Pends /\ CapturesHaveTask /\ [CrashNext]_vars => Pends' /\ CapturesHaveTask'
  BY PendsHolds, CapturesStep
<1> QED
  BY <1>1, <1>2, AnyStep, PTL DEF Spec, CrashSpec

----------------------------------------------------------------------------
(***************************************************************************)
(* The captures that are polled.                                           *)
(***************************************************************************)
\* A step of the Crawler starts when it has nothing left to run.
LEMMA CrawlerFree ==
  ASSUME TypeOK, CrawlerStep
  PROVE  /\ Todo(Crawler) = <<>> /\ me.pc # "dead"
         /\ \A q \in Clients : Todo(q)' = Todo(q)
         /\ cache' = cache \/ (PollCapture /\ cache # <<>> /\ cache' = Tail(cache))
<1>1. Todo(Crawler) = <<>> /\ me.pc # "dead"
  <2>1. \E pc \in {"slots", "pop", "filter", "enqueue", "push", "poll", "status", "compute"} : At(pc)
    BY DEF CrawlerStep, CheckSlots, PopTask, FilterPass, FilterRefuse, FilterError, EnqueueCapture,
       EnqueueFails, PushDiscovery, PollCapture, CaptureDone, CaptureUpdate, CaptureUnknown,
       CaptureTimeout, Compute, ComputeFails
  <2> QED
    BY <2>1 DEF At, Free, Todo
<1>2. ASSUME NEW q \in Clients PROVE proc'[q] = proc[q]
  <2>1. q \in Procs /\ q # Crawler /\ proc \in [Procs -> Locals]
    BY ProcsFacts DEF TypeOK
  <2>2. ASSUME NEW l, proc' = [proc EXCEPT ![Crawler] = l] PROVE proc'[q] = proc[q]
    BY <2>1, <2>2
  <2>3. ASSUME NEW pc, NEW cmds, BackDo(cmds) \/ GotoDo(pc, cmds) PROVE proc'[q] = proc[q]
    BY <2>1, <2>3 DEF BackDo, GotoDo
  <2>4. Die => proc'[q] = proc[q]
    BY <2>2 DEF Die
  <2>5. CASE CheckSlots
    BY <2>2, <2>5 DEF CheckSlots
  <2>6. CASE PopTask
    <3>1. CASE \A t \in Tasks : queue[t] = None
      BY <2>3, <2>6, <3>1, Zenon DEF PopTask
    <3>2. CASE ~ \A t \in Tasks : queue[t] = None
      <4>1. PICK t \in Tasks :
               /\ queue[t] # None
               /\ proc' = [proc EXCEPT ![Crawler].pc = "filter", ![Crawler].task = t,
                                       ![Crawler].prio = queue[t]]
        BY <2>6, <3>2, Zenon DEF PopTask
      <4> QED
        BY <2>1, <4>1
    <3> QED
      BY <3>1, <3>2
  <2>7. CASE FilterPass \/ FilterRefuse \/ FilterError
    BY <2>3, <2>4, <2>7 DEF FilterPass, FilterRefuse, FilterError
  <2>8. CASE EnqueueCapture
    <3>1. PICK cmds : GotoDo("push", cmds)
      BY <2>8, Zenon DEF EnqueueCapture
    <3> QED
      BY <2>3, <3>1
  <2>14. CASE EnqueueFails
    <3>1. PICK cmds : BackDo(cmds)
      BY <2>14, Zenon DEF EnqueueFails
    <3> QED
      BY <2>3, <3>1
  <2>9. CASE PushDiscovery
    <3>1. PICK cmds : BackDo(cmds) \/ GotoDo("poll", cmds)
      BY <2>9, Zenon DEF PushDiscovery
    <3> QED
      BY <2>3, <3>1
  <2>10. CASE PollCapture
    BY <2>2, <2>3, <2>10 DEF PollCapture
  <2>11. CASE CaptureDone \/ CaptureUpdate
    BY <2>3, <2>11 DEF CaptureDone, CaptureUpdate
  <2>12. CASE CaptureUnknown \/ CaptureTimeout
    BY <2>3, <2>4, <2>12 DEF CaptureUnknown, CaptureTimeout
  <2>13. CASE Compute
    BY <2>3, <2>4, <2>13 DEF Compute
  <2>15. CASE ComputeFails
    BY <2>3, <2>15 DEF ComputeFails
  <2> QED
    BY <2>5, <2>6, <2>7, <2>8, <2>9, <2>10, <2>11, <2>12, <2>13, <2>14, <2>15 DEF CrawlerStep
<1>3. cache' = cache \/ (PollCapture /\ cache # <<>> /\ cache' = Tail(cache))
  <2>1. CASE PollCapture
    <3>1. cache = <<>> => UNCHANGED cache
      BY <2>1, Zenon DEF PollCapture
    <3>2. cache # <<>> => cache' = Tail(cache)
      BY <2>1, Zenon DEF PollCapture
    <3> QED
      BY <2>1, <3>1, <3>2
  <2>2. CASE PopTask
    <3>1. UNCHANGED <<task, dedup, captask, captures, cache, created>>
      BY <2>2, Zenon DEF PopTask
    <3> QED
      BY <3>1
  <2>3. CASE ~PollCapture /\ ~PopTask
    <3>1. UNCHANGED redis
      BY <2>3 DEF CrawlerStep, CheckSlots, FilterPass, FilterRefuse, FilterError,
         EnqueueCapture, EnqueueFails, PushDiscovery, CaptureDone, CaptureUpdate,
         CaptureUnknown, CaptureTimeout, Compute, ComputeFails
    <3>2. cache' = cache
      BY <3>1 DEF redis
    <3> QED
      BY <3>2
  <2> QED
    BY <2>1, <2>2, <2>3
<1> QED
  BY <1>1, <1>2, <1>3 DEF Todo

\* What a step that does not touch the records keeps of the places a capture is polled from.
LEMMA PolledKept ==
  ASSUME UNCHANGED <<task, captask>>, NEW c \in Captures, Polled(c) \/ Replaced(c),
         InCache(c) => Polled(c)' \/ Replaced(c)',
         \A p \in Procs : Todo(p) = <<>> \/ Todo(p)' = Todo(p),
         me.capture = c /\ me.pc \in {"status", "compute"} => Polled(c)' \/ Replaced(c)',
         me.pc = "dead" => Polled(c)'
  PROVE  Polled(c)' \/ Replaced(c)'
<1>1. CASE Replaced(c)
  BY <1>1 DEF Replaced
<1>2. ASSUME NEW p \in Procs, NEW op, NEW key, Pending(p, op, key) PROVE Pending(p, op, key)'
  <2>1. Todo(p) # <<>>
    BY <1>2 DEF Pending, Todo
  <2>2. Todo(p)' = Todo(p)
    BY <2>1
  <2> QED
    BY <1>2, <2>2 DEF Pending, Todo
<1>3. CASE Polled(c)
  <2>1. CASE InCache(c)
    BY <2>1
  <2>2. CASE me.capture = c /\ me.pc \in {"status", "compute"}
    BY <2>2
  <2>3. ASSUME NEW p \in Procs, Pending(p, "cacheAdd", c) \/ Pending(p, "zrem", c) PROVE Polled(c)'
    BY <1>2, <2>3 DEF Polled
  <2>4. ASSUME NEW p \in Procs, NEW t \in Tasks, Pending(p, "remove", t), task[t].capture = c
        PROVE  Polled(c)'
    <3>1. Pending(p, "remove", t)'
      BY <1>2, <2>4
    <3> QED
      BY <2>4, <3>1 DEF Polled
  <2>5. CASE me.pc = "dead"
    BY <2>5
  <2> QED
    BY <1>3, <2>1, <2>2, <2>3, <2>4, <2>5 DEF Polled
<1> QED
  BY <1>1, <1>3

\* A command that is not run is still pending.
LEMMA PendingStays ==
  ASSUME Base, NEW p \in Procs, Command(p), NEW q \in Procs, NEW k \in DOMAIN Todo(q),
         q = p => k # 1
  PROVE  \E m \in DOMAIN Todo(q)' : Todo(q)'[m] = Todo(q)[k]
<1>1. CASE q # p
  BY <1>1, CommandLocals
<1>2. CASE q = p
  <2>1. PICK n \in {0, 2, 4} :
           /\ Len(Todo(p)) \in Nat /\ DOMAIN Todo(p) = 1 .. Len(Todo(p))
           /\ DOMAIN Todo(p)' = 1 .. n + Len(Todo(p)) - 1
           /\ \A m \in DOMAIN Todo(p) : m # 1 => Todo(p)'[n + m - 1] = Todo(p)[m]
    BY Shifted
  <2>2. n + k - 1 \in DOMAIN Todo(p)'
    BY <1>2, <2>1
  <2> QED
    BY <1>2, <2>1, <2>2
<1> QED
  BY <1>1, <1>2

LEMMA PendingAfter ==
  ASSUME Base, NEW p \in Procs, Command(p), NEW q \in Procs, NEW op, NEW key, Pending(q, op, key)
  PROVE  Pending(q, op, key)' \/ (q = p /\ Next1(p).op = op /\ Next1(p).key = key)
<1>1. PICK k \in DOMAIN Todo(q) : Todo(q)[k].op = op /\ Todo(q)[k].key = key
  BY DEF Pending, Todo
<1>2. CASE q = p /\ k = 1
  BY <1>1, <1>2 DEF Next1
<1>3. CASE ~(q = p /\ k = 1)
  <2>1. PICK m \in DOMAIN Todo(q)' : Todo(q)'[m] = Todo(q)[k]
    BY <1>3, PendingStays
  <2> QED
    BY <1>1, <2>1 DEF Pending, Todo
<1> QED
  BY <1>2, <1>3

LEMMA CacheAfter ==
  ASSUME Base, NEW p \in Procs, Command(p), NEW c \in Captures
  PROVE  /\ InCache(c) => InCache(c)' \/ (Next1(p).op = "cacheRem" /\ Next1(p).key = c)
         /\ Next1(p).op = "cacheAdd" /\ Next1(p).key = c => InCache(c)'
<1>1. proc \in [Procs -> Locals] /\ cache \in Seq(Captures)
  BY DEF Base, TypeOK
<1>2. CASE ZaddCache(p)
  <2>1. /\ Next1(p).op \in {"cacheAdd", "cacheRem"} /\ Next1(p) \in Commands
        /\ cache' = IF Next1(p).op = "cacheAdd" THEN Append(Without(cache, Next1(p).key), Next1(p).key)
                    ELSE Without(cache, Next1(p).key)
    BY <1>1, <1>2, Effects
  <2>2. Next1(p).key \in Captures
    BY <2>1, CommandTypes
  <2>3. PICK w \in Seq(Captures) : /\ w = Without(cache, Next1(p).key)
                                   /\ \A j \in DOMAIN cache : cache[j] # Next1(p).key =>
                                        \E k \in DOMAIN w : w[k] = cache[j]
    <3>0. PICK x : x = Next1(p).key
      OBVIOUS
    <3>1. /\ Without(cache, x) \in Seq(Captures)
          /\ \A j \in DOMAIN cache : cache[j] # x =>
               \E k \in DOMAIN Without(cache, x) : Without(cache, x)[k] = cache[j]
      BY <1>1, WithoutProperties
    <3> QED
      BY <3>0, <3>1, Zenon
  <2>4. CASE Next1(p).op = "cacheRem"
    <3>1. cache' = w
      BY <2>1, <2>3, <2>4
    <3> QED
      BY <2>3, <2>4, <3>1 DEF InCache
  <2>5. CASE Next1(p).op = "cacheAdd"
    <3>1. cache' = Append(w, Next1(p).key)
      BY <2>1, <2>3, <2>5
    <3>2. /\ DOMAIN cache' = 1 .. Len(w) + 1 /\ Len(w) \in Nat /\ DOMAIN w = 1 .. Len(w)
          /\ cache'[Len(w) + 1] = Next1(p).key
          /\ \A k \in DOMAIN w : k \in DOMAIN cache' /\ cache'[k] = w[k]
      BY <2>2, <3>1, AppendProperties, LenProperties
    <3>3. Len(w) + 1 \in DOMAIN cache'
      BY <3>2
    <3>4. Next1(p).key = c => InCache(c)'
      BY <3>2, <3>3 DEF InCache
    <3>5. Next1(p).key # c /\ InCache(c) => InCache(c)'
      BY <2>3, <3>2 DEF InCache
    <3> QED
      BY <3>4, <3>5
  <2> QED
    BY <2>1, <2>4, <2>5
<1>3. CASE ~ZaddCache(p)
  <2>1. cache' = cache /\ Next1(p).op # "cacheAdd"
    BY <1>1, <1>3, Effects DEF Command
  <2> QED
    BY <2>1 DEF InCache
<1> QED
  BY <1>2, <1>3

LEMMA PolledCommand ==
  ASSUME Pends, CapturesHaveTask, PolledOrReplaced, NEW p \in Procs, Command(p)
  PROVE  PolledOrReplaced'
<1>1. proc \in [Procs -> Locals] /\ TypeOK /\ Base /\ Shapes
  BY DEF Pends, Base, TypeOK
<1>2. /\ Todo(p) # <<>> /\ Next1(p) \in Commands /\ 1 \in DOMAIN Todo(p) /\ Next1(p) = Todo(p)[1]
      /\ me'.pc = me.pc /\ me'.capture = me.capture
  BY <1>1, Effects, CommandLocals DEF Next1
<1> SUFFICES ASSUME NEW c \in captures' PROVE Polled(c)' \/ Replaced(c)'
  BY DEF PolledOrReplaced
<1>3. CASE c \notin captures
  <2>1. p = Crawler /\ Takes(c) /\ Todo(p) = AfterCapTask(c) /\ ZaddCaptures(p)
    BY <1>1, <1>3, NewCapture
  <2>2. 2 \in DOMAIN Todo(p) /\ Todo(p)[2] = Cmd("cacheAdd", c, None)
    <3>1. 2 \in DOMAIN AfterCapTask(c) /\ AfterCapTask(c)[2] = Cmd("cacheAdd", c, None)
      BY DEF AfterCapTask
    <3> QED
      BY <2>1, <3>1
  <2>3. PICK m \in DOMAIN Todo(p)' : Todo(p)'[m] = Todo(p)[2]
    BY <1>1, <2>2, PendingStays
  <2>4. Pending(p, "cacheAdd", c)'
    BY <2>2, <2>3 DEF Pending, Todo, Cmd
  <2> QED
    BY <2>4 DEF Polled
<1>4. CASE c \in captures
  <2>0. c \in Captures /\ captask[c] \in Tasks
    BY <1>1, <1>4 DEF TypeOK, CapturesHaveTask
  <2>1. captask'[c] = captask[c]
    <3>1. CASE HsetCapTask(p)
      <4>1. Next1(p).op = "captask" /\ captask' = [captask EXCEPT ![Next1(p).key] = Next1(p).val]
        BY <1>1, <3>1, Effects
      <4>2. Next1(p).key # c
        <5> SUFFICES ASSUME Next1(p).key = c PROVE FALSE
          OBVIOUS
        <5>1. ~PlainAt(p, 1)
          <6>1. ~Earlier(p, 1, "zrem", c)
            BY <1>1, LocalsFacts DEF Earlier
          <6> QED
            BY <1>2, <1>4, <4>1, <6>1 DEF PlainAt
        <5>2. PICK d \in Captures : Takes(d) /\ Next1(p) = Cmd("captask", d, me.task)
          BY <1>1, <1>2, <4>1, <5>1, OpHeads
        <5>3. d = c
          BY <5>2 DEF Cmd
        <5> QED
          BY <1>4, <5>2, <5>3 DEF Takes
      <4> QED
        BY <1>1, <2>0, <4>1, <4>2 DEF TypeOK
    <3> QED
      BY <1>1, <3>1, Effects DEF Command
  \* The task of the capture is given another, or goes away.
  <2>2. ASSUME NEW t \in Tasks, task'[t].capture = c PROVE task[t].capture = c
    <3> SUFFICES ASSUME task[t].capture # c PROVE FALSE
      OBVIOUS
    <3>1. HsetTask(p)
      <4>1. ASSUME DeleteTask(p) PROVE FALSE
        <5>1. task' = [task EXCEPT ![Next1(p).key] = NoTask]
          BY <1>1, <4>1, Effects
        <5> QED
          BY <1>1, <2>0, <2>2, <5>1, CrawlerAssumption DEF TypeOK, NoTask
      <4> QED
        BY <1>1, <2>2, <4>1, Effects DEF Command
    <3>2. /\ Next1(p).op \in {"domain", "hash", "start", "capture"} /\ Next1(p).key \in Tasks
          /\ task' = [task EXCEPT ![Next1(p).key] = [@ EXCEPT ![Next1(p).op] = Next1(p).val]]
      BY <1>1, <1>2, <3>1, Effects, CommandTypes
    <3>3. task[Next1(p).key] \in [domain : BOOLEAN, hash : Reqs \cup {None}, start : BOOLEAN,
                                  capture : Captures \cup {None}]
      BY <1>1, <3>2 DEF TypeOK
    <3>4. [task[Next1(p).key] EXCEPT ![Next1(p).op] = Next1(p).val].capture
             = IF Next1(p).op = "capture" THEN Next1(p).val ELSE task[Next1(p).key].capture
      <4>1. CASE Next1(p).op = "domain"
        BY <3>3, <4>1
      <4>2. CASE Next1(p).op = "start"
        BY <3>3, <4>2
      <4>3. CASE Next1(p).op = "hash"
        BY <3>3, <4>3
      <4>4. CASE Next1(p).op = "capture"
        BY <3>3, <4>4
      <4> QED
        BY <3>2, <4>1, <4>2, <4>3, <4>4
    <3>5. Next1(p).key = t
      BY <1>1, <2>2, <3>2 DEF TypeOK
    <3>6. task'[t] = [task[Next1(p).key] EXCEPT ![Next1(p).op] = Next1(p).val]
      BY <1>1, <3>2, <3>5 DEF TypeOK
    <3>7. Next1(p).op = "capture" /\ Next1(p).val = c
      BY <2>2, <3>4, <3>5, <3>6
    <3>8. PICK d \in Captures : Takes(d) /\ (\/ Next1(p) = Cmd("capture", me.task, d)
                                             \/ Next1(p) = Cmd("zadd", d, None))
      BY <1>1, <1>2, <3>7, OpHeads
    <3>9. d = c
      BY <3>7, <3>8 DEF Cmd
    <3> QED
      BY <1>4, <3>8, <3>9 DEF Takes
  <2>3. CASE Replaced(c)
    BY <2>0, <2>1, <2>2, <2>3 DEF Replaced
  <2>4. CASE InCache(c)
    <3>1. CASE InCache(c)'
      BY <3>1 DEF Polled
    <3>2. CASE ~InCache(c)'
      <4>1. Next1(p).op = "cacheRem" /\ Next1(p).key = c
        BY <1>1, <2>0, <2>4, <3>2, CacheAfter
      <4>2. PlainAt(p, 1)
        BY <1>1, <1>2, <4>1, OpHeads DEF PlainOps
      <4>3. PICK j \in DOMAIN Todo(p) : j > 1 /\ Todo(p)[j].op = "zrem" /\ Todo(p)[j].key = c
        BY <1>2, <4>1, <4>2 DEF PlainAt, Later
      <4>4. PICK m \in DOMAIN Todo(p)' : Todo(p)'[m] = Todo(p)[j]
        BY <1>1, <4>3, PendingStays
      <4>5. Pending(p, "zrem", c)'
        BY <4>3, <4>4 DEF Pending, Todo
      <4> QED
        BY <4>5 DEF Polled
    <3> QED
      BY <3>1, <3>2
  <2>5. CASE me.capture = c /\ me.pc \in {"status", "compute"}
    BY <1>2, <2>5 DEF Polled
  <2>6. ASSUME NEW q \in Procs, Pending(q, "cacheAdd", c) PROVE Polled(c)'
    <3>1. CASE Pending(q, "cacheAdd", c)'
      BY <3>1 DEF Polled
    <3>2. CASE q = p /\ Next1(p).op = "cacheAdd" /\ Next1(p).key = c
      BY <1>1, <2>0, <3>2, CacheAfter DEF Polled
    <3> QED
      BY <1>1, <2>6, <3>1, <3>2, PendingAfter
  <2>7. ASSUME NEW q \in Procs, Pending(q, "zrem", c) PROVE Polled(c)'
    <3>1. CASE Pending(q, "zrem", c)'
      BY <3>1 DEF Polled
    <3>2. CASE q = p /\ Next1(p).op = "zrem" /\ Next1(p).key = c
      <4>1. ZaddCaptures(p)
        BY <1>1, <3>2, Effects DEF Command
      <4>2. captures' = captures \ {c}
        BY <1>1, <3>2, <4>1, Effects
      <4> QED
        BY <4>2
    <3> QED
      BY <1>1, <2>7, <3>1, <3>2, PendingAfter
  <2>8. ASSUME NEW q \in Procs, NEW t \in Tasks, Pending(q, "remove", t), task[t].capture = c
        PROVE  Polled(c)' \/ Replaced(c)'
    <3>1. CASE Pending(q, "remove", t)' /\ task'[t].capture = c
      BY <3>1 DEF Polled
    <3>2. CASE task'[t].capture # c
      <4>1. captask[c] = t
        BY <2>0, <2>8, CrawlerAssumption DEF Pends, CaptureKnown
      <4> QED
        BY <2>0, <2>1, <3>2, <4>1, CrawlerAssumption DEF Replaced
    <3>3. CASE q = p /\ Next1(p).op = "remove" /\ Next1(p).key = t
      <4>1. PICK n \in {0, 2, 4} :
               /\ Len(Todo(p)) \in Nat /\ DOMAIN Todo(p) = 1 .. Len(Todo(p))
               /\ DOMAIN Todo(p)' = 1 .. n + Len(Todo(p)) - 1
               /\ n = 0 <=> Next1(p).op # "remove"
               /\ n = 2 => task[Next1(p).key].capture = None
               /\ n = 4 => Todo(p)'[1] = Cmd("zrem", task[Next1(p).key].capture, None)
        BY <1>1, Shifted
      <4>2. n = 4
        BY <2>0, <2>8, <3>3, <4>1, CrawlerAssumption
      <4>3. Todo(p)'[1] = Cmd("zrem", c, None) /\ 1 \in DOMAIN Todo(p)'
        BY <1>2, <2>8, <3>3, <4>1, <4>2
      <4>4. Pending(p, "zrem", c)'
        BY <4>3 DEF Pending, Todo, Cmd
      <4> QED
        BY <4>4 DEF Polled
    <3> QED
      BY <1>1, <2>8, <3>1, <3>2, <3>3, PendingAfter
  <2>9. CASE me.pc = "dead"
    BY <1>2, <2>9 DEF Polled
  <2> QED
    BY <1>4, <2>3, <2>4, <2>5, <2>6, <2>7, <2>8, <2>9 DEF PolledOrReplaced, Polled
<1> QED
  BY <1>3, <1>4

\* A program the Crawler starts has its commands pending.
LEMMA Started ==
  ASSUME TypeOK, NEW cmds \in Seq(Commands), BackDo(cmds), NEW k \in DOMAIN cmds
  PROVE  Pending(Crawler, cmds[k].op, cmds[k].key)'
<1>1. Todo(Crawler)' = cmds
  BY MoveFacts
<1> QED
  BY <1>1 DEF Pending, Todo

LEMMA DieFacts ==
  ASSUME TypeOK, Die
  PROVE  me'.pc = "dead" /\ \A q \in Clients : Todo(q)' = Todo(q)
<1> DEFINE l == [Loop EXCEPT !.pc = "dead"]
<1>1. l \in Locals /\ l.pc = "dead"
  BY LoopTyped
<1>2. proc' = [proc EXCEPT ![Crawler] = l] /\ proc \in [Procs -> Locals]
  BY DEF Die, TypeOK
<1> HIDE DEF l
<1> QED
  BY <1>1, <1>2, NewLocals

\* What the Crawler does with the capture it holds.
LEMMA PolledHeld ==
  ASSUME Pends, CrawlerStep, me.pc \in {"status", "compute"}, UNCHANGED <<task, captask>>,
         NEW c \in Captures, c = me.capture
  PROVE  Polled(c)' \/ Replaced(c)'
<1>1. TypeOK /\ proc \in [Procs -> Locals]
  BY DEF Pends, Base, TypeOK
<1>0. c = me.capture
  OBVIOUS
<1>2. Die => Polled(c)'
  BY <1>1, DieFacts DEF Polled
<1>3. CASE CaptureDone
  <2>1. GotoDo("compute", <<>>)
    BY <1>3 DEF CaptureDone
  <2>2. me'.pc = "compute" /\ me'.capture = me.capture
    <3>1. <<>> \in Seq(Commands)
      BY ProgramsTyped
    <3> QED
      BY <1>1, <2>1, <3>1, NewPc DEF GotoDo
  <2> QED
    BY <1>0, <2>2 DEF Polled
<1>4. CASE CaptureUpdate
  <2>1. BackDo(<<Cmd("cacheAdd", c, None)>>)
    BY <1>0, <1>4 DEF CaptureUpdate
  <2>2. <<Cmd("cacheAdd", c, None)>> \in Seq(Commands)
    BY ProgramsTyped
  <2>3. 1 \in DOMAIN <<Cmd("cacheAdd", c, None)>>
        /\ <<Cmd("cacheAdd", c, None)>>[1].op = "cacheAdd"
        /\ <<Cmd("cacheAdd", c, None)>>[1].key = c
    BY DEF Cmd
  <2>4. Pending(Crawler, "cacheAdd", c)'
    BY <1>1, <2>1, <2>2, <2>3, Started
  <2> QED
    BY <1>0, <2>4, ProcsFacts DEF Polled
<1>5. ASSUME NEW t \in Tasks, NEW x \in {TaskDelete(t), TaskReset(t)}, BackDo(x \o CaptureDelete(c))
      PROVE  Polled(c)'
  <2>1. x \in Seq(Commands) /\ Len(x) = 2
    <3>1. x \in Seq(Commands) /\ DOMAIN x = 1 .. 2
      BY <1>5, ProgramsTyped, TaskPrograms
    <3> QED
      BY <3>1, LenProperties
  <2>2. PICK w \in Seq(Commands) : w = x \o CaptureDelete(c)
    <3>1. x \o CaptureDelete(c) \in Seq(Commands)
      BY <1>1, <1>5, CrawlerProgramsTyped
    <3> QED
      BY <3>1, Zenon
  <2>3. 4 \in DOMAIN w /\ w[4] = Cmd("zrem", c, None)
    <3>1. DOMAIN (x \o CaptureDelete(c)) = 1 .. 5
          /\ (x \o CaptureDelete(c))[4] = Cmd("zrem", c, None)
      BY <2>1, LongPrograms
    <3> QED
      BY <2>2, <3>1
  <2>4. Pending(Crawler, w[4].op, w[4].key)'
    BY <1>1, <1>5, <2>2, <2>3, Started
  <2>5. w[4].op = "zrem" /\ w[4].key = c
    BY <2>3, CmdFields
  <2> QED
    BY <2>4, <2>5, ProcsFacts DEF Polled
<1>6. CaptureTask \in Tasks \cup {None} /\ CaptureTask = captask[c]
  BY <1>0, <1>1 DEF TypeOK, CaptureTask
<1>7. CASE CaptureUnknown
  <2>1. Die \/ (CaptureTask # None /\ BackDo(TaskDelete(CaptureTask) \o CaptureDelete(me.capture)))
    BY <1>7 DEF CaptureUnknown
  <2>2. CASE CaptureTask # None /\ BackDo(TaskDelete(CaptureTask) \o CaptureDelete(me.capture))
    <3>1. PICK t \in Tasks : t = CaptureTask
      BY <1>6, <2>2
    <3>2. BackDo(TaskDelete(t) \o CaptureDelete(c))
      BY <2>2, <3>1
    <3> QED
      BY <1>5, <3>2
  <2> QED
    BY <1>2, <2>1, <2>2
<1>8. CASE CaptureTimeout
  <2>1. Die \/ (CaptureTask # None /\ BackDo(TaskReset(CaptureTask) \o CaptureDelete(me.capture)))
    BY <1>8 DEF CaptureTimeout
  <2>2. CASE CaptureTask # None /\ BackDo(TaskReset(CaptureTask) \o CaptureDelete(me.capture))
    <3>1. PICK t \in Tasks : t = CaptureTask
      BY <1>6, <2>2
    <3>2. BackDo(TaskReset(t) \o CaptureDelete(c))
      BY <2>2, <3>1
    <3> QED
      BY <1>5, <3>2
  <2> QED
    BY <1>2, <2>1, <2>2
<1>9. CASE Compute
  <2>1. CASE ~(CaptureTask # None /\ task[CaptureTask].domain)
    BY <1>0, <1>2, <1>9, <2>1 DEF Compute
  <2>2. CASE CaptureTask # None /\ task[CaptureTask].domain
    <3>1. PICK t \in Tasks : t = captask[c] /\ t # None
      BY <1>6, <2>2
    <3>2. BackDo(TaskRemove(t))
      BY <1>6, <1>9, <2>2, <3>1 DEF Compute
    <3>3. TaskRemove(t) \in Seq(Commands)
      BY <3>1, ProgramsTyped
    <3>4. 1 \in DOMAIN TaskRemove(t) /\ TaskRemove(t)[1].op = "remove" /\ TaskRemove(t)[1].key = t
      BY DEF TaskRemove, Cmd
    <3>5. Pending(Crawler, "remove", t)'
      BY <1>1, <3>2, <3>3, <3>4, Started
    <3>6. CASE task[t].capture = c
      <4>1. task'[t].capture = c
        BY <3>6
      <4> QED
        BY <1>0, <3>5, <4>1, ProcsFacts DEF Polled
    <3>7. CASE task[t].capture # c
      BY <1>0, <3>1, <3>7 DEF Replaced
    <3> QED
      BY <3>6, <3>7
  <2> QED
    BY <2>1, <2>2
<1>11. CASE ComputeFails
  <2>1. GotoDo("dead", <<>>) /\ <<>> \in Seq(Commands)
    BY <1>11, ProgramsTyped DEF ComputeFails
  <2>2. me'.pc = "dead"
    BY <1>1, <2>1, NewPc DEF GotoDo
  <2> QED
    BY <2>2 DEF Polled
<1>10. CASE CheckSlots \/ PopTask \/ FilterPass \/ FilterRefuse \/ FilterError \/ EnqueueCapture
            \/ EnqueueFails \/ PushDiscovery \/ PollCapture
  <2>1. me.pc \in {"slots", "pop", "filter", "enqueue", "push", "poll"}
    BY <1>10 DEF CheckSlots, PopTask, FilterPass, FilterRefuse, FilterError, EnqueueCapture,
       EnqueueFails, PushDiscovery, PollCapture, At
  <2> QED
    BY <2>1
<1> QED
  BY <1>0, <1>3, <1>4, <1>7, <1>8, <1>9, <1>10, <1>11 DEF CrawlerStep

LEMMA PolledOther ==
  ASSUME Pends, PolledOrReplaced, OtherStep
  PROVE  PolledOrReplaced'
<1>1. TypeOK /\ proc \in [Procs -> Locals] /\ cache \in Seq(Captures)
  BY DEF Pends, Base, TypeOK
<1>2. UNCHANGED <<task, captask, captures>>
  BY OtherTables
<1> SUFFICES ASSUME NEW c \in captures PROVE Polled(c)' \/ Replaced(c)'
  BY <1>2 DEF PolledOrReplaced
<1>3. c \in Captures /\ (Polled(c) \/ Replaced(c))
  BY <1>1 DEF PolledOrReplaced, TypeOK
<1>4. CASE CrawlerStep
  <2>1. /\ Todo(Crawler) = <<>> /\ me.pc # "dead"
        /\ \A q \in Clients : Todo(q)' = Todo(q)
        /\ cache' = cache \/ (PollCapture /\ cache # <<>> /\ cache' = Tail(cache))
    BY <1>1, <1>4, CrawlerFree
  <2>2. \A q \in Procs : Todo(q) = <<>> \/ Todo(q)' = Todo(q)
    BY <2>1, ProcsFacts
  <2>3. ASSUME InCache(c) PROVE Polled(c)'
    <3>1. CASE cache' = cache
      BY <2>3, <3>1 DEF Polled, InCache
    <3>2. CASE PollCapture /\ cache # <<>> /\ cache' = Tail(cache)
      <4>1. PICK k \in DOMAIN cache : cache[k] = c
        BY <2>3 DEF InCache
      <4>2. CASE k = 1
        <5> DEFINE l == [Loop EXCEPT !.pc = "status", !.capture = c, !.task = captask[c]]
        <5>1. Head(cache) = c
          BY <1>1, <4>1, <4>2
        <5>2. proc' = [proc EXCEPT ![Crawler] = l]
          BY <3>2, <5>1 DEF PollCapture
        <5>3. l \in Locals /\ l.pc = "status" /\ l.capture = c
          <6>1. captask[c] \in Tasks \cup {None}
            BY <1>1, <1>3 DEF TypeOK
          <6> QED
            BY <1>3, <6>1, LoopTyped DEF Locals, Loop
        <5> HIDE DEF l
        <5>4. me'.pc = "status" /\ me'.capture = c
          BY <1>1, <5>2, <5>3, NewLocals
        <5> QED
          BY <5>4 DEF Polled
      <4>3. CASE k # 1
        <5>1. k - 1 \in DOMAIN Tail(cache) /\ Tail(cache)[k - 1] = c
          BY <1>1, <3>2, <4>1, <4>3
        <5> QED
          BY <3>2, <5>1 DEF Polled, InCache
      <4> QED
        BY <4>2, <4>3
    <3> QED
      BY <2>1, <3>1, <3>2
  <2>4. me.capture = c /\ me.pc \in {"status", "compute"} => Polled(c)' \/ Replaced(c)'
    BY <1>2, <1>3, <1>4, PolledHeld
  <2> QED
    BY <1>2, <1>3, <2>1, <2>2, <2>3, <2>4, PolledKept
<1>5. CASE Crash
  BY <1>1, <1>5, DieFacts DEF Crash, Polled
<1>6. CASE Restart
  BY <1>6 DEF Restart, Polled, InCache
<1>7. ASSUME NEW p \in Procs, NEW cmds \in Seq(Commands), Free(p), Do(p, cmds), cache' = cache
      PROVE  Polled(c)' \/ Replaced(c)'
  <2>1. Todo(p) = <<>> /\ \A q \in Procs : q # p => Todo(q)' = Todo(q)
    BY <1>1, <1>7, NewTodo DEF Free, Do, Todo
  <2>2. me'.pc = me.pc /\ me'.capture = me.capture
    <3>1. /\ proc'[Crawler].pc = proc[Crawler].pc
          /\ proc'[Crawler].capture = proc[Crawler].capture
      BY <1>1, <1>7, NewTodo, ProcsFacts DEF Do
    <3> QED
      BY <3>1 DEF me
  <2>3. InCache(c) => Polled(c)'
    BY <1>7 DEF Polled, InCache
  <2>4. \A q \in Procs : Todo(q) = <<>> \/ Todo(q)' = Todo(q)
    BY <2>1
  <2>5. (me.capture = c /\ me.pc \in {"status", "compute"} => Polled(c)')
        /\ (me.pc = "dead" => Polled(c)')
    BY <2>2 DEF Polled
  <2> QED
    BY <1>2, <1>3, <2>3, <2>4, <2>5, PolledKept
<1>8. ASSUME NEW p \in Procs, NEW r \in Reqs, Create(p, r) PROVE Polled(c)' \/ Replaced(c)'
  <2>1. PICK t \in Tasks : Do(p, CreateTask(t, r))
    BY <1>8 DEF Create
  <2>2. CreateTask(t, r) \in Seq(Commands)
    BY ProgramsTyped
  <2> QED
    BY <1>7, <1>8, <2>1, <2>2 DEF Create
<1>9. CASE \E r \in Reqs : ProcessQueue(r) \/ \E w \in Clients : ClientCreate(w, r)
  BY <1>8, <1>9, ProcsFacts DEF ProcessQueue, ClientCreate
<1>10. ASSUME NEW w \in Clients, NEW d \in Captures, DeleteCapture(w, d)
       PROVE  Polled(c)' \/ Replaced(c)'
  <2>1. CaptureDelete(d) \in Seq(Commands)
    BY ProgramsTyped
  <2> QED
    BY <1>7, <1>10, <2>1, ProcsFacts DEF DeleteCapture
<1>11. CASE UNCHANGED vars
  BY <1>3, <1>11 DEF vars, Polled, Replaced, InCache, Pending, me
<1> QED
  BY <1>4, <1>5, <1>6, <1>9, <1>10, <1>11 DEF OtherStep

\* reload_crawler_captures and the polling loop: a capture of Kvrocks is polled again, or its
\* task has a later one, whatever the interleaving, wherever the Crawler stops and whatever
\* the admin deletes.
THEOREM PolledCorrect ==
  /\ Spec => []PolledOrReplaced
  /\ CrashSpec => []PolledOrReplaced
<1>1. Init => Pends /\ CapturesHaveTask /\ PolledOrReplaced
  BY PendsHolds DEF Init, CapturesHaveTask, PolledOrReplaced
<1>2. Pends /\ CapturesHaveTask /\ PolledOrReplaced /\ [CrashNext]_vars
        => Pends' /\ CapturesHaveTask' /\ PolledOrReplaced'
  BY PendsHolds, CapturesStep, OtherTables, PolledCommand, PolledOther
<1> QED
  BY <1>1, <1>2, AnyStep, PTL DEF Spec, CrashSpec

----------------------------------------------------------------------------
(***************************************************************************)
(* The slots.  While nothing stops the Crawler and no capture is deleted,  *)
(* it alone writes the cache, one capture at a time and as the last        *)
(* command of a program; between the check of the slots and the capture it *)
(* launches, the cache does not grow.                                      *)
(***************************************************************************)
Adding == \E c \in Captures : Pending(Crawler, "cacheAdd", c)

AddsLast ==
    \A p \in Procs : \A k \in DOMAIN Todo(p) :
       Todo(p)[k].op = "cacheAdd" => p = Crawler /\ k = Len(Todo(p)) /\ me.pc # "enqueue"

SlotInv ==
    /\ AddsLast
    /\ SlotLimit
    /\ me.pc \in {"pop", "filter", "enqueue"} => Len(cache) < MaxCaptures

\* What is left of a program after a command keeps its last command.
LEMMA AddsKept ==
  ASSUME Base, AddsLast, NEW p \in Procs, Command(p)
  PROVE  /\ AddsLast'
         /\ Adding' => Adding
         /\ Next1(p).op = "cacheAdd" => p = Crawler /\ Adding /\ ~Adding'
<1>1. /\ proc \in [Procs -> Locals] /\ Base' /\ proc' \in [Procs -> Locals]
      /\ 1 \in DOMAIN Todo(p) /\ Next1(p) = Todo(p)[1] /\ Next1(p) \in Commands
  BY CommandBase, Effects DEF Base, TypeOK, Next1
<1>2. PICK n \in {0, 2, 4} :
         /\ Len(Todo(p)) \in Nat /\ DOMAIN Todo(p) = 1 .. Len(Todo(p))
         /\ DOMAIN Todo(p)' = 1 .. n + Len(Todo(p)) - 1
         /\ \A m \in DOMAIN Todo(p) : m # 1 => Todo(p)'[n + m - 1] = Todo(p)[m]
         /\ n = 0 <=> Next1(p).op # "remove"
         /\ n # 0 => /\ Next1(p).key \in Tasks
                     /\ Todo(p)'[n - 1] = Cmd("hdelDedup", Next1(p).key, None)
                     /\ Todo(p)'[n] = Cmd("del", Next1(p).key, None)
         /\ n = 4 => /\ task[Next1(p).key].capture \in Captures
                     /\ Todo(p)'[1] = Cmd("zrem", task[Next1(p).key].capture, None)
                     /\ Todo(p)'[2] = Cmd("captask", task[Next1(p).key].capture, None)
  BY Shifted
<1>3. Len(Todo(p)') = n + Len(Todo(p)) - 1
  <2>1. Todo(p)' \in Seq(Commands)
    <3>1. proc'[p] \in Locals
      BY <1>1
    <3> QED
      BY <3>1 DEF Locals, Todo
  <2>2. n + Len(Todo(p)) - 1 \in Nat
    BY <1>1, <1>2
  <2> QED
    BY <1>2, <2>1, <2>2, LenProperties
<1>4. ASSUME NEW k \in DOMAIN Todo(p)', Todo(p)'[k].op = "cacheAdd"
      PROVE  \E m \in DOMAIN Todo(p) : m # 1 /\ k = n + m - 1 /\ Todo(p)'[k] = Todo(p)[m]
  <2>1. k > n
    <3> SUFFICES ASSUME k <= n PROVE FALSE
      BY <1>2
    <3>1. \/ Todo(p)'[k] = Cmd("hdelDedup", Next1(p).key, None)
          \/ Todo(p)'[k] = Cmd("del", Next1(p).key, None)
          \/ Todo(p)'[k] = Cmd("zrem", task[Next1(p).key].capture, None)
          \/ Todo(p)'[k] = Cmd("captask", task[Next1(p).key].capture, None)
      <4>1. CASE n = 0
        BY <1>2, <4>1
      <4>2. CASE n = 2
        <5>1. k = n - 1 \/ k = n
          BY <1>2, <4>2
        <5> QED
          BY <1>2, <4>2, <5>1
      <4>3. CASE n = 4
        <5>1. k = 1 \/ k = 2 \/ k = n - 1 \/ k = n
          BY <1>2, <4>3
        <5> QED
          BY <1>2, <4>3, <5>1
      <4> QED
        BY <4>1, <4>2, <4>3
    <3> QED
      BY <1>4, <3>1, CmdFields
  <2>2. k - n + 1 \in DOMAIN Todo(p) /\ k - n + 1 # 1 /\ k = n + (k - n + 1) - 1
    BY <1>2, <2>1
  <2>3. Todo(p)'[n + (k - n + 1) - 1] = Todo(p)[k - n + 1]
    BY <1>2, <2>2
  <2> QED
    BY <2>2, <2>3
<1>5. me'.pc = me.pc /\ \A q \in Procs : q # p => Todo(q)' = Todo(q)
  BY CommandLocals
<1>6. AddsLast'
  <2> SUFFICES ASSUME NEW q \in Procs, NEW k \in DOMAIN Todo(q)', Todo(q)'[k].op = "cacheAdd"
               PROVE  q = Crawler /\ k = Len(Todo(q)') /\ me'.pc # "enqueue"
    BY DEF AddsLast
  <2>1. CASE q # p
    BY <1>5, <2>1 DEF AddsLast
  <2>2. CASE q = p
    <3>1. PICK m \in DOMAIN Todo(p) : m # 1 /\ k = n + m - 1 /\ Todo(p)'[k] = Todo(p)[m]
      BY <1>4, <2>2
    <3>2. p = Crawler /\ m = Len(Todo(p)) /\ me.pc # "enqueue"
      BY <2>2, <3>1 DEF AddsLast
    <3> QED
      BY <1>3, <1>5, <2>2, <3>1, <3>2
  <2> QED
    BY <2>1, <2>2
<1>7. ASSUME Adding' PROVE \E m \in DOMAIN Todo(Crawler) :
                              /\ p = Crawler => m # 1
                              /\ Todo(Crawler)[m].op = "cacheAdd" /\ Todo(Crawler)[m].key \in Captures
  <2>1. PICK c \in Captures, k \in DOMAIN Todo(Crawler)' :
           Todo(Crawler)'[k].op = "cacheAdd" /\ Todo(Crawler)'[k].key = c
    BY <1>7 DEF Adding, Pending, Todo
  <2>2. CASE p = Crawler
    BY <1>4, <2>1, <2>2
  <2>3. CASE p # Crawler
    BY <1>5, <2>1, <2>3, ProcsFacts
  <2> QED
    BY <2>2, <2>3
<1>8. Adding' => Adding
  BY <1>7 DEF Adding, Pending, Todo
<1>9. ASSUME Next1(p).op = "cacheAdd" PROVE p = Crawler /\ Adding /\ ~Adding'
  <2>1. p = Crawler /\ 1 = Len(Todo(p))
    BY <1>1, <1>9 DEF AddsLast
  <2>2. Next1(p).key \in Captures
    BY <1>1, <1>9, CommandTypes
  <2>3. Adding
    BY <1>1, <1>9, <2>1, <2>2 DEF Adding, Pending, Todo
  <2>4. ~Adding'
    <3> SUFFICES ASSUME Adding' PROVE FALSE
      OBVIOUS
    <3>1. PICK m \in DOMAIN Todo(Crawler) : p = Crawler => m # 1
      BY <1>7
    <3>2. m # 1 /\ m \in 1 .. 1
      BY <1>2, <2>1, <3>1
    <3> QED
      BY <3>2
  <2> QED
    BY <2>1, <2>3, <2>4
<1> QED
  BY <1>6, <1>8, <1>9

LEMMA HeldFacts ==
  /\ Held \in {0, 1}
  /\ Held = 1 <=> me.pc \in {"status", "compute"} \/ Adding
BY DEF Held, Adding

LEMMA CommandSlots ==
  ASSUME Base, SlotInv, NEW p \in Procs, Command(p)
  PROVE  SlotInv'
<1>1. proc \in [Procs -> Locals] /\ cache \in Seq(Captures) /\ MaxCaptures \in Nat
  BY CrawlerAssumption DEF Base, TypeOK
<1>2. /\ AddsLast' /\ (Adding' => Adding)
      /\ Next1(p).op = "cacheAdd" => p = Crawler /\ Adding /\ ~Adding'
  BY AddsKept DEF SlotInv
<1>3. me'.pc = me.pc
  BY CommandLocals
<1>4. /\ Held \in {0, 1} /\ (Held = 1 <=> me.pc \in {"status", "compute"} \/ Adding)
  BY HeldFacts
<1>5. /\ Held' \in {0, 1} /\ (Held' = 1 <=> me'.pc \in {"status", "compute"} \/ Adding')
  BY DEF Held, Adding
<1>6. Held' <= Held
  BY <1>2, <1>3, <1>4, <1>5
<1>7. Len(cache) \in Nat /\ Len(cache) + Held <= MaxCaptures
      /\ (me.pc \in {"pop", "filter", "enqueue"} => Len(cache) < MaxCaptures)
  BY <1>1 DEF SlotInv, SlotLimit
<1>8. ASSUME NEW n \in Nat, n = Len(cache'), n <= Len(cache) PROVE SlotInv'
  <2>1. n + Held' <= MaxCaptures
    BY <1>1, <1>4, <1>5, <1>6, <1>7, <1>8
  <2> QED
    BY <1>1, <1>2, <1>3, <1>7, <1>8, <2>1 DEF SlotInv, SlotLimit
<1>9. CASE ZaddCache(p)
  <2>1. /\ Next1(p).op \in {"cacheAdd", "cacheRem"} /\ Next1(p) \in Commands
        /\ cache' = IF Next1(p).op = "cacheAdd" THEN Append(Without(cache, Next1(p).key), Next1(p).key)
                    ELSE Without(cache, Next1(p).key)
    BY <1>1, <1>9, Effects
  <2>2. PICK x \in Captures : x = Next1(p).key
    BY <2>1, CommandTypes
  <2>3. PICK w \in Seq(Captures) : w = Without(cache, x) /\ Len(w) <= Len(cache)
    <3>1. Without(cache, x) \in Seq(Captures) /\ Len(Without(cache, x)) <= Len(cache)
      BY <1>1, WithoutProperties
    <3> QED
      BY <3>1, Zenon
  <2>4. CASE Next1(p).op = "cacheRem"
    <3>1. cache' = w
      BY <2>1, <2>2, <2>3, <2>4
    <3> QED
      BY <1>8, <2>3, <3>1, LenProperties
  <2>5. CASE Next1(p).op = "cacheAdd"
    <3>1. cache' = Append(w, x)
      BY <2>1, <2>2, <2>3, <2>5
    <3>2. Len(cache') = Len(w) + 1 /\ Len(w) \in Nat
      BY <2>2, <3>1, AppendProperties, LenProperties
    <3>3. p = Crawler /\ Adding /\ ~Adding' /\ Held = 1
      BY <1>2, <1>4, <2>5
    <3>4. me.pc \in {"slots", "push"}
      <4>1. 1 \in DOMAIN Todo(p) /\ Next1(p) = Todo(p)[1] /\ Todo(p) # <<>>
        BY <1>1, Effects DEF Next1
      <4>2. me.pc # "enqueue"
        BY <2>5, <4>1 DEF SlotInv, AddsLast
      <4> QED
        BY <3>3, <4>1, <4>2, ProcsFacts DEF Base, LocalsOK, me
    <3>5. Held' = 0
      BY <1>3, <1>5, <3>3, <3>4
    <3>6. Len(cache') + Held' <= MaxCaptures
      BY <1>1, <1>7, <2>3, <3>2, <3>3, <3>5
    <3> QED
      BY <1>2, <1>3, <3>4, <3>6 DEF SlotInv, SlotLimit
  <2> QED
    BY <2>1, <2>4, <2>5
<1>10. CASE ~ZaddCache(p)
  <2>1. cache' = cache
    BY <1>1, <1>10, Effects DEF Command
  <2> QED
    BY <1>7, <1>8, <2>1
<1> QED
  BY <1>9, <1>10

\* A process without commands starts a program that does not add to the cache.
LEMMA ProgramSlots ==
  ASSUME Base, SlotInv, NEW p \in Procs, NEW cmds \in Seq(Commands), Free(p), Do(p, cmds),
         cache' = cache, \A k \in DOMAIN cmds : cmds[k].op # "cacheAdd"
  PROVE  SlotInv'
<1>1. proc \in [Procs -> Locals]
  BY DEF Base, TypeOK
<1>2. /\ Todo(p)' = cmds /\ \A q \in Procs : q # p => Todo(q)' = Todo(q)
      /\ proc'[Crawler].pc = proc[Crawler].pc
  BY <1>1, NewTodo, ProcsFacts DEF Do
<1>3. me'.pc = me.pc
  BY <1>2 DEF me
<1>4. AddsLast'
  <2> SUFFICES ASSUME NEW q \in Procs, NEW k \in DOMAIN Todo(q)', Todo(q)'[k].op = "cacheAdd"
               PROVE  q = Crawler /\ k = Len(Todo(q)') /\ me'.pc # "enqueue"
    BY DEF AddsLast
  <2>1. q # p
    BY <1>2
  <2>2. Todo(q)' = Todo(q)
    BY <1>2, <2>1
  <2> QED
    BY <1>3, <2>2 DEF SlotInv, AddsLast
<1>5. Adding' => Adding
  <2> SUFFICES ASSUME NEW c \in Captures, Pending(Crawler, "cacheAdd", c)'
               PROVE  Pending(Crawler, "cacheAdd", c)
    BY DEF Adding
  <2>1. PICK k \in DOMAIN Todo(Crawler)' : Todo(Crawler)'[k].op = "cacheAdd" /\ Todo(Crawler)'[k].key = c
    BY DEF Pending, Todo
  <2>2. Crawler # p
    BY <1>2, <2>1
  <2>3. Todo(Crawler)' = Todo(Crawler)
    BY <1>2, <2>2, ProcsFacts
  <2> QED
    BY <2>1, <2>3 DEF Pending, Todo
<1>6. /\ Held \in {0, 1} /\ (Held = 1 <=> me.pc \in {"status", "compute"} \/ Adding)
  BY HeldFacts
<1>7. /\ Held' \in {0, 1} /\ (Held' = 1 <=> me'.pc \in {"status", "compute"} \/ Adding')
  BY DEF Held, Adding
<1>8. Len(cache) \in Nat /\ MaxCaptures \in Nat
  BY CrawlerAssumption DEF Base, TypeOK
<1>9. Held' <= Held
  BY <1>3, <1>5, <1>6, <1>7
<1>10. SlotLimit'
  BY <1>6, <1>7, <1>8, <1>9 DEF SlotInv, SlotLimit
<1> QED
  BY <1>3, <1>4, <1>10 DEF SlotInv

LEMMA NoAddSlots ==
  ASSUME Base, SlotInv, cache' = cache, \A q \in Clients : Todo(q)' = Todo(q),
         \A k \in DOMAIN Todo(Crawler)' : Todo(Crawler)'[k].op # "cacheAdd",
         me'.pc \notin {"status", "compute"},
         me'.pc \in {"pop", "filter", "enqueue"} => Len(cache) < MaxCaptures
  PROVE  SlotInv'
<1>1. AddsLast'
  <2> SUFFICES ASSUME NEW q \in Procs, NEW k \in DOMAIN Todo(q)', Todo(q)'[k].op = "cacheAdd"
               PROVE  FALSE
    BY DEF AddsLast
  <2>1. q \in Clients /\ q # Crawler
    BY ProcsFacts
  <2>2. Todo(q)' = Todo(q)
    BY <2>1
  <2> QED
    BY <2>1, <2>2 DEF SlotInv, AddsLast
<1>2. ~Adding'
  BY DEF Adding, Pending, Todo
<1>3. Held' = 0
  BY <1>2 DEF Held, Adding
<1>4. Held \in Nat /\ Len(cache) \in Nat /\ MaxCaptures \in Nat
  BY HeldFacts, CrawlerAssumption DEF Base, TypeOK
<1>5. SlotLimit'
  BY <1>3, <1>4 DEF SlotInv, SlotLimit
<1> QED
  BY <1>1, <1>5 DEF SlotInv

LEMMA OneAddSlots ==
  ASSUME Base, SlotInv, \A q \in Clients : Todo(q)' = Todo(q),
         \A k \in DOMAIN Todo(Crawler)' :
            Todo(Crawler)'[k].op = "cacheAdd" => k = Len(Todo(Crawler)'),
         me'.pc \notin {"pop", "filter", "enqueue"},
         Len(cache') \in Nat, Len(cache') + 1 <= MaxCaptures
  PROVE  SlotInv'
<1>1. AddsLast'
  <2> SUFFICES ASSUME NEW q \in Procs, NEW k \in DOMAIN Todo(q)', Todo(q)'[k].op = "cacheAdd"
               PROVE  q = Crawler /\ k = Len(Todo(q)') /\ me'.pc # "enqueue"
    BY DEF AddsLast
  <2>1. CASE q = Crawler
    BY <2>1
  <2>2. CASE q # Crawler
    <3>1. Todo(q)' = Todo(q)
      BY <2>2, ProcsFacts
    <3> QED
      BY <2>2, <3>1 DEF SlotInv, AddsLast
  <2> QED
    BY <2>1, <2>2
<1>2. Held' \in {0, 1}
  BY DEF Held
<1>3. Len(cache') + Held' <= MaxCaptures
  BY <1>2, CrawlerAssumption
<1>4. SlotLimit'
  BY <1>3 DEF SlotLimit
<1> QED
  BY <1>1, <1>4 DEF SlotInv

\* The Crawler starts a program that does not add to the cache.
LEMMA MoveSlots ==
  ASSUME Base, SlotInv, cache' = cache, NEW cmds \in Seq(Commands),
         NEW pc \in {"enqueue", "push", "poll", "dead"},
         BackDo(cmds) \/ GotoDo(pc, cmds),
         \A k \in DOMAIN cmds : cmds[k].op # "cacheAdd",
         pc = "enqueue" => Len(cache) < MaxCaptures
  PROVE  SlotInv'
<1>1. /\ Todo(Crawler)' = cmds /\ me'.pc \in {"slots", pc}
      /\ \A q \in Clients : Todo(q)' = Todo(q)
  BY MoveFacts DEF Base
<1> QED
  BY <1>1, NoAddSlots

LEMMA DieSlots ==
  ASSUME Base, SlotInv, cache' = cache, Die
  PROVE  SlotInv'
<1> DEFINE l == [Loop EXCEPT !.pc = "dead"]
<1>1. l \in Locals /\ l.pc = "dead" /\ l.todo = <<>>
  BY LoopTyped
<1>2. proc' = [proc EXCEPT ![Crawler] = l] /\ proc \in [Procs -> Locals]
  BY DEF Die, Base, TypeOK
<1> HIDE DEF l
<1>3. me'.pc = "dead" /\ Todo(Crawler)' = <<>> /\ \A q \in Clients : Todo(q)' = Todo(q)
  BY <1>1, <1>2, NewLocals
<1> QED
  BY <1>3, NoAddSlots

\* The programs about tasks, and those that give a capture up, do not add to the cache.
LEMMA NoAdds ==
  ASSUME NEW t \in Tasks
  PROVE  /\ \A r \in Reqs : \A k \in DOMAIN CreateTask(t, r) : CreateTask(t, r)[k].op # "cacheAdd"
         /\ \A k \in DOMAIN TaskDelete(t) : TaskDelete(t)[k].op # "cacheAdd"
         /\ \A k \in DOMAIN TaskReset(t) : TaskReset(t)[k].op # "cacheAdd"
         /\ \A k \in DOMAIN TaskRemove(t) : TaskRemove(t)[k].op # "cacheAdd"
         /\ \A c \in Captures, x \in {TaskDelete(t), TaskReset(t)} :
               \A k \in DOMAIN (x \o CaptureDelete(c)) : (x \o CaptureDelete(c))[k].op # "cacheAdd"
<1>1. ASSUME NEW r \in Reqs PROVE \A k \in DOMAIN CreateTask(t, r) : CreateTask(t, r)[k].op # "cacheAdd"
  BY DEF CreateTask, Cmd
<1>2. \A k \in DOMAIN TaskReset(t) : TaskReset(t)[k].op # "cacheAdd"
  BY DEF TaskReset, Cmd
<1>3. \A k \in DOMAIN TaskRemove(t) : TaskRemove(t)[k].op # "cacheAdd"
  BY DEF TaskRemove, Cmd
<1>4. \A k \in DOMAIN TaskDelete(t) : TaskDelete(t)[k].op # "cacheAdd"
  <2>1. DOMAIN TaskDelete(t) = 1 .. 2 /\ TaskDelete(t)[1] = Cmd("queue", t, None)
        /\ TaskDelete(t)[2] = Cmd("remove", t, None)
    BY TaskPrograms
  <2>2. \A k \in 1 .. 2 : k = 1 \/ k = 2
    OBVIOUS
  <2> QED
    BY <2>1, <2>2 DEF Cmd
<1>5. ASSUME NEW c \in Captures, NEW x \in {TaskDelete(t), TaskReset(t)}
      PROVE  \A k \in DOMAIN (x \o CaptureDelete(c)) : (x \o CaptureDelete(c))[k].op # "cacheAdd"
  <2>1. x \in Seq(Commands) /\ Len(x) = 2 /\ DOMAIN x = 1 .. 2
    <3>1. x \in Seq(Commands) /\ DOMAIN x = 1 .. 2
      BY ProgramsTyped, TaskPrograms
    <3> QED
      BY <3>1, LenProperties
  <2>2. x[1].op # "cacheAdd" /\ x[2].op # "cacheAdd"
    BY <1>2, <1>4, <2>1
  <2>3. PICK w : w = x \o CaptureDelete(c)
    OBVIOUS
  <2>4. /\ DOMAIN w = 1 .. 5 /\ w[1] = x[1] /\ w[2] = x[2]
        /\ w[3] = Cmd("cacheRem", c, None) /\ w[4] = Cmd("zrem", c, None)
        /\ w[5] = Cmd("captask", c, None)
    BY <2>1, <2>3, LongPrograms
  <2>5. \A k \in DOMAIN w : k = 1 \/ k = 2 \/ k = 3 \/ k = 4 \/ k = 5
    BY <2>4
  <2>6. \A k \in DOMAIN w : w[k].op # "cacheAdd"
    BY <2>2, <2>4, <2>5 DEF Cmd
  <2> QED
    BY <2>3, <2>6
<1> QED
  BY <1>1, <1>2, <1>3, <1>4, <1>5

LEMMA CrawlerSlots ==
  ASSUME Base, SlotInv, CrawlerStep
  PROVE  SlotInv'
<1>1. TypeOK /\ proc \in [Procs -> Locals] /\ cache \in Seq(Captures) /\ Len(cache) \in Nat
      /\ MaxCaptures \in Nat
  BY CrawlerAssumption DEF Base, TypeOK
<1>2. \A q \in Clients : Todo(q)' = Todo(q)
  BY <1>1, CrawlerFree
<1>3. UNCHANGED redis => cache' = cache
  BY DEF redis
<1>4. /\ me.pc \in {"filter", "enqueue", "push"} => me.task \in Tasks
      /\ me.pc \in {"status", "compute"} => me.capture \in Captures
      /\ me.pc \in {"status", "compute"} /\ CaptureTask # None => CaptureTask \in Tasks
  BY <1>1 DEF Base, LocalsOK, TypeOK, CaptureTask
<1>5. me.pc \in {"status", "compute"} => Len(cache) + 1 <= MaxCaptures
  BY HeldFacts, <1>1 DEF SlotInv, SlotLimit
<1>6. me.pc \in {"pop", "filter", "enqueue"} => Len(cache) + 1 <= MaxCaptures /\ Len(cache) < MaxCaptures
  BY <1>1 DEF SlotInv
<1>7. <<>> \in Seq(Commands) /\ \A k \in DOMAIN <<>> : <<>>[k].op # "cacheAdd"
  BY ProgramsTyped
<1>8. CASE CheckSlots
  <2> DEFINE pc == IF Len(cache) < MaxCaptures THEN "pop" ELSE "poll"
             l == [Loop EXCEPT !.pc = pc]
  <2>1. pc \in {"pop", "poll"} /\ (pc = "pop" => Len(cache) < MaxCaptures)
    OBVIOUS
  <2>2. proc' = [proc EXCEPT ![Crawler] = l] /\ UNCHANGED redis
    BY <1>8 DEF CheckSlots
  <2> HIDE DEF pc
  <2>3. l \in Locals /\ l.todo = <<>> /\ l.pc = pc
    BY <2>1, LoopTyped
  <2> HIDE DEF l
  <2>4. me'.pc = pc /\ Todo(Crawler)' = <<>>
    BY <1>1, <2>2, <2>3, NewLocals
  <2> QED
    BY <1>2, <1>3, <2>1, <2>2, <2>4, NoAddSlots
<1>9. CASE PopTask
  <2>0. UNCHANGED <<task, dedup, captask, captures, cache, created>> /\ me.pc = "pop"
        /\ Todo(Crawler) = <<>>
    BY <1>9, Zenon DEF PopTask, At, Free, Todo
  <2>1. CASE \A t \in Tasks : queue[t] = None
    <3>1. GotoDo("poll", <<>>)
      BY <1>9, <2>1, Zenon DEF PopTask
    <3> QED
      BY <1>7, <2>0, <3>1, MoveSlots
  <2>2. CASE ~ \A t \in Tasks : queue[t] = None
    <3>1. PICK t \in Tasks :
             /\ queue[t] # None
             /\ proc' = [proc EXCEPT ![Crawler].pc = "filter", ![Crawler].task = t,
                                     ![Crawler].prio = queue[t]]
      BY <1>9, <2>2, Zenon DEF PopTask
    <3>3. queue[t] \in Nat
      BY <1>1, <3>1 DEF TypeOK
    <3> DEFINE l == [me EXCEPT !.pc = "filter", !.task = t, !.prio = queue[t]]
    <3>4. me \in Locals /\ me.todo = <<>>
      BY <1>1, <2>0, ProcsFacts DEF me, Todo
    <3>5. l \in Locals /\ l.todo = <<>> /\ l.pc = "filter"
      BY <3>3, <3>4 DEF Locals
    <3>6. proc' = [proc EXCEPT ![Crawler] = l]
      BY <3>1, <1>1, ProcsFacts DEF me
    <3> HIDE DEF l
    <3>7. me'.pc = "filter" /\ Todo(Crawler)' = <<>>
      BY <1>1, <3>5, <3>6, NewLocals
    <3> QED
      BY <1>2, <1>6, <2>0, <3>7, NoAddSlots
  <2> QED
    BY <2>1, <2>2
<1>10. CASE FilterPass
  <2>1. UNCHANGED redis /\ me.pc = "filter"
        /\ (Die \/ GotoDo("enqueue", <<Cmd("start", me.task, TRUE)>>))
    BY <1>10 DEF FilterPass, At
  <2>2. <<Cmd("start", me.task, TRUE)>> \in Seq(Commands)
    BY <1>4, <2>1, ProgramsTyped
  <2>3. \A k \in DOMAIN <<Cmd("start", me.task, TRUE)>> :
           <<Cmd("start", me.task, TRUE)>>[k].op # "cacheAdd"
    BY DEF Cmd
  <2> QED
    BY <1>3, <1>6, <2>1, <2>2, <2>3, DieSlots, MoveSlots
<1>11. CASE FilterRefuse \/ FilterError
  <2>1. me.task \in Tasks /\ UNCHANGED redis
        /\ (BackDo(TaskDelete(me.task)) \/ BackDo(TaskReset(me.task)))
    BY <1>4, <1>11 DEF FilterRefuse, FilterError, At
  <2>2. TaskDelete(me.task) \in Seq(Commands) /\ TaskReset(me.task) \in Seq(Commands)
    BY <2>1, ProgramsTyped
  <2>3. /\ \A k \in DOMAIN TaskDelete(me.task) : TaskDelete(me.task)[k].op # "cacheAdd"
        /\ \A k \in DOMAIN TaskReset(me.task) : TaskReset(me.task)[k].op # "cacheAdd"
    BY <2>1, NoAdds
  <2>4. PICK cmds \in Seq(Commands) : BackDo(cmds) /\ \A k \in DOMAIN cmds : cmds[k].op # "cacheAdd"
    BY <2>1, <2>2, <2>3
  <2> QED
    BY <1>3, <2>1, <2>4, MoveSlots
<1>12. CASE EnqueueCapture
  <2>1. me.pc = "enqueue" /\ UNCHANGED redis /\ me.task \in Tasks
    BY <1>4, <1>12 DEF EnqueueCapture, At
  <2>2. PICK c \in Captures : \/ GotoDo("push", CreateCapture(c, me.task))
                              \/ GotoDo("push", <<>>)
    BY <1>12 DEF EnqueueCapture
  <2>3. CASE GotoDo("push", <<>>)
    BY <1>3, <1>7, <2>1, <2>3, MoveSlots
  <2>4. CASE GotoDo("push", CreateCapture(c, me.task))
    <3>1. CreateCapture(c, me.task) \in Seq(Commands)
      BY <2>1, ProgramsTyped
    <3>2. Todo(Crawler)' = CreateCapture(c, me.task) /\ me'.pc \in {"slots", "push"}
      BY <1>1, <2>4, <3>1, MoveFacts
    <3>3. PICK w \in Seq(Commands) : w = CreateCapture(c, me.task)
      BY <3>1, Zenon
    <3>4. /\ DOMAIN w = 1 .. 4 /\ w[1] = Cmd("capture", me.task, c)
          /\ w[2] = Cmd("captask", c, me.task) /\ w[3] = Cmd("zadd", c, None)
      BY <3>3, CaptureLiterals
    <3>5. Len(w) = 4
      BY <3>3, <3>4, LenProperties
    <3>6. \A k \in DOMAIN w : k = 1 \/ k = 2 \/ k = 3 \/ k = 4
      BY <3>4
    <3>7. \A k \in DOMAIN w : w[k].op = "cacheAdd" => k = Len(w)
      BY <3>4, <3>5, <3>6 DEF Cmd
    <3> QED
      BY <1>1, <1>2, <1>3, <1>6, <2>1, <3>2, <3>3, <3>7, OneAddSlots
  <2> QED
    BY <2>2, <2>3, <2>4
<1>13. CASE EnqueueFails \/ PushDiscovery
  <2>1. UNCHANGED redis /\ me.task \in Tasks
        /\ (GotoDo("poll", <<>>) \/ BackDo(<<Cmd("queue", me.task, me.prio)>>))
    BY <1>4, <1>13 DEF EnqueueFails, PushDiscovery, At
  <2>2. me.prio \in Nat \cup {None}
    BY <1>1, LocalsFacts, ProcsFacts DEF me
  <2>3. <<Cmd("queue", me.task, me.prio)>> \in Seq(Commands)
    BY <2>1, <2>2, ProgramsTyped
  <2>4. \A k \in DOMAIN <<Cmd("queue", me.task, me.prio)>> :
           <<Cmd("queue", me.task, me.prio)>>[k].op # "cacheAdd"
    BY DEF Cmd
  <2> QED
    BY <1>3, <1>7, <2>1, <2>3, <2>4, MoveSlots
<1>14. CASE PollCapture
  <2>1. CASE cache = <<>>
    <3>1. BackDo(<<>>) /\ cache' = cache
      BY <1>14, <2>1 DEF PollCapture
    <3> QED
      BY <1>7, <3>1, MoveSlots
  <2>2. CASE cache # <<>>
    <3> DEFINE c == Head(cache)
               l == [Loop EXCEPT !.pc = "status", !.capture = c, !.task = captask[c]]
    <3>1. proc' = [proc EXCEPT ![Crawler] = l] /\ cache' = Tail(cache)
      BY <1>14, <2>2 DEF PollCapture
    <3>2. c \in Captures
      BY <1>1, <2>2
    <3> HIDE DEF c
    <3>3. captask[c] \in Tasks \cup {None}
      BY <1>1, <3>2 DEF TypeOK
    <3>4. l \in Locals /\ l.todo = <<>> /\ l.pc = "status"
      BY <3>2, <3>3, LoopTyped DEF Locals, Loop
    <3> HIDE DEF l
    <3>5. me'.pc = "status" /\ Todo(Crawler)' = <<>>
      BY <1>1, <3>1, <3>4, NewLocals
    <3>6. Len(cache') = Len(cache) - 1 /\ Len(cache) # 0
      BY <1>1, <2>2, <3>1, TailFacts, EmptySeq
    <3>7. Len(cache) <= MaxCaptures
      BY <1>1, HeldFacts DEF SlotInv, SlotLimit
    <3>8. Len(cache') \in Nat /\ Len(cache') + 1 <= MaxCaptures
      BY <1>1, <3>6, <3>7
    <3> QED
      BY <1>2, <3>5, <3>8, OneAddSlots
  <2> QED
    BY <2>1, <2>2
<1>15. CASE CaptureDone
  <2>1. GotoDo("compute", <<>>) /\ UNCHANGED redis /\ me.pc = "status"
    BY <1>15 DEF CaptureDone, At
  <2>2. Todo(Crawler)' = <<>> /\ me'.pc \in {"slots", "compute"}
    BY <1>1, <1>7, <2>1, MoveFacts
  <2> QED
    BY <1>1, <1>2, <1>3, <1>5, <2>1, <2>2, OneAddSlots
<1>16. CASE CaptureUpdate
  <2>1. BackDo(<<Cmd("cacheAdd", me.capture, None)>>) /\ UNCHANGED redis /\ me.pc = "status"
    BY <1>16 DEF CaptureUpdate, At
  <2>2. PICK w \in Seq(Commands) : w = <<Cmd("cacheAdd", me.capture, None)>>
    <3>1. <<Cmd("cacheAdd", me.capture, None)>> \in Seq(Commands)
      BY <1>4, <2>1, ProgramsTyped
    <3> QED
      BY <3>1, Zenon
  <2>3. Todo(Crawler)' = w /\ me'.pc \in {"slots"}
    <3>1. BackDo(w)
      BY <2>1, <2>2
    <3> QED
      BY <1>1, <3>1, MoveFacts
  <2>4. Len(w) = 1 /\ DOMAIN w = 1 .. 1
    BY <2>2
  <2>5. \A k \in DOMAIN w : k = Len(w)
    BY <2>4
  <2> QED
    BY <1>1, <1>2, <1>3, <1>5, <2>1, <2>3, <2>5, OneAddSlots
<1>17. CASE CaptureUnknown \/ CaptureTimeout
  <2>1. UNCHANGED redis /\ me.pc = "status"
        /\ \/ Die
           \/ /\ CaptureTask # None
              /\ \/ BackDo(TaskDelete(CaptureTask) \o CaptureDelete(me.capture))
                 \/ BackDo(TaskReset(CaptureTask) \o CaptureDelete(me.capture))
    BY <1>17 DEF CaptureUnknown, CaptureTimeout, At
  <2>2. CASE Die
    BY <1>3, <2>1, <2>2, DieSlots
  <2>3. CASE ~Die
    <3>1. PICK t \in Tasks, c \in Captures : t = CaptureTask /\ c = me.capture
      BY <1>4, <2>1, <2>3
    <3>2. PICK x \in {TaskDelete(t), TaskReset(t)} : BackDo(x \o CaptureDelete(c))
      BY <2>1, <2>3, <3>1
    <3>3. x \o CaptureDelete(c) \in Seq(Commands)
      BY <1>1, CrawlerProgramsTyped
    <3>4. \A k \in DOMAIN (x \o CaptureDelete(c)) : (x \o CaptureDelete(c))[k].op # "cacheAdd"
      BY NoAdds
    <3>5. PICK cmds \in Seq(Commands) : BackDo(cmds) /\ \A k \in DOMAIN cmds : cmds[k].op # "cacheAdd"
      BY <3>2, <3>3, <3>4
    <3> QED
      BY <1>3, <2>1, <3>5, MoveSlots
  <2> QED
    BY <2>2, <2>3
<1>18. CASE Compute
  <2>1. UNCHANGED redis /\ me.pc = "compute"
        /\ (Die \/ (CaptureTask # None /\ BackDo(TaskRemove(CaptureTask))))
    BY <1>18 DEF Compute, At
  <2>2. CASE Die
    BY <1>3, <2>1, <2>2, DieSlots
  <2>3. CASE ~Die
    <3>1. PICK t \in Tasks : t = CaptureTask
      BY <1>4, <2>1, <2>3
    <3>2. BackDo(TaskRemove(t)) /\ TaskRemove(t) \in Seq(Commands)
          /\ \A k \in DOMAIN TaskRemove(t) : TaskRemove(t)[k].op # "cacheAdd"
      BY <2>1, <2>3, <3>1, ProgramsTyped, NoAdds
    <3> QED
      BY <1>3, <2>1, <3>2, MoveSlots
  <2> QED
    BY <2>2, <2>3
<1>19. CASE ComputeFails
  <2>1. GotoDo("dead", <<>>) /\ UNCHANGED redis /\ <<>> \in Seq(Commands)
    BY <1>19, ProgramsTyped DEF ComputeFails
  <2>2. \A k \in DOMAIN <<>> : FALSE
    OBVIOUS
  <2> QED
    BY <1>3, <2>1, <2>2, MoveSlots DEF redis
<1> QED
  BY <1>8, <1>9, <1>10, <1>11, <1>12, <1>13, <1>14, <1>15, <1>16, <1>17, <1>18, <1>19 DEF CrawlerStep

LEMMA SlotsHolds ==
  /\ Init => SlotInv
  /\ Base /\ SlotInv /\ [Next \/ \E w \in Clients, t \in Tasks : DeleteScheduled(w, t)]_vars => SlotInv'
<1>1. ASSUME Init PROVE SlotInv
  <2>1. \A p \in Procs : proc[p] = Loop
    BY <1>1 DEF Init
  <2>2. Loop.todo = <<>> /\ Loop.pc = "slots"
    BY DEF Loop
  <2>3. \A p \in Procs : Todo(p) = <<>>
    BY <2>1, <2>2 DEF Todo
  <2>4. AddsLast
    BY <2>3 DEF AddsLast
  <2>5. ~Adding
    BY <2>3, ProcsFacts DEF Adding, Pending, Todo
  <2>6. me.pc = "slots"
    BY <2>1, <2>2, ProcsFacts DEF me
  <2>7. Held = 0
    BY <2>5, <2>6 DEF Held, Adding
  <2>8. SlotLimit
    BY <1>1, <2>7, CrawlerAssumption DEF Init, SlotLimit
  <2> QED
    BY <2>4, <2>6, <2>8 DEF SlotInv
<1>2. ASSUME Base, SlotInv, [Next \/ \E w \in Clients, t \in Tasks : DeleteScheduled(w, t)]_vars
      PROVE  SlotInv'
  <2>1. ASSUME NEW p \in Procs, Command(p) PROVE SlotInv'
    BY <1>2, <2>1, CommandSlots
  <2>2. ASSUME NEW p \in Procs, NEW r \in Reqs, Create(p, r) PROVE SlotInv'
    <3>1. PICK t \in Tasks : Do(p, CreateTask(t, r))
      BY <2>2 DEF Create
    <3>2. CreateTask(t, r) \in Seq(Commands)
          /\ \A k \in DOMAIN CreateTask(t, r) : CreateTask(t, r)[k].op # "cacheAdd"
      BY ProgramsTyped, NoAdds
    <3> QED
      BY <1>2, <2>2, <3>1, <3>2, ProgramSlots DEF Create
  <2>3. CASE \E r \in Reqs : ProcessQueue(r) \/ \E w \in Clients : ClientCreate(w, r)
    BY <2>2, <2>3, ProcsFacts DEF ProcessQueue, ClientCreate
  <2>4. CASE CrawlerStep
    BY <1>2, <2>4, CrawlerSlots
  <2>5. ASSUME NEW w \in Clients, NEW t \in Tasks, DeleteScheduled(w, t) PROVE SlotInv'
    <3>1. TaskDelete(t) \in Seq(Commands)
          /\ \A k \in DOMAIN TaskDelete(t) : TaskDelete(t)[k].op # "cacheAdd"
      BY ProgramsTyped, NoAdds
    <3> QED
      BY <1>2, <2>5, <3>1, ProgramSlots, ProcsFacts DEF DeleteScheduled
  <2>6. CASE UNCHANGED vars
    <3>1. UNCHANGED <<proc, cache>>
      BY <2>6 DEF vars
    <3> QED
      BY <1>2, <3>1 DEF SlotInv, AddsLast, SlotLimit, Held, Pending, Todo, me
  <2> QED
    BY <1>2, <2>1, <2>3, <2>4, <2>5, <2>6 DEF Next
<1> QED
  BY <1>1, <1>2

\* Crawler.get_message: as long as the Crawler is not stopped and no capture is deleted, it
\* has no more captures in Lacus than get_crawler_max_captures, the one it holds included,
\* whatever is popped, put back and timed out.
THEOREM SlotsCorrect ==
  /\ Spec => []SlotLimit
  /\ DeleteSpec => []SlotLimit
<1>1. Init => Base /\ SlotInv
  BY BaseHolds, SlotsHolds
<1>2. [Next]_vars => [Next \/ \E w \in Clients, t \in Tasks : DeleteScheduled(w, t)]_vars
  OBVIOUS
<1>3. Base /\ SlotInv /\ [Next \/ \E w \in Clients, t \in Tasks : DeleteScheduled(w, t)]_vars
        => Base' /\ SlotInv'
  BY BaseHolds, SlotsHolds, AnyStep
<1>4. SlotInv => SlotLimit
  BY DEF SlotInv
<1> QED
  BY <1>1, <1>2, <1>3, <1>4, PTL DEF Spec, DeleteSpec

=============================================================================
