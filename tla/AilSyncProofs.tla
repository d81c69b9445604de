--------------------------- MODULE AilSyncProofs ---------------------------
(***************************************************************************)
(* Proofs about AilSync, for any instances, sync queues, objects, clients  *)
(* and bounds.                                                             *)
(***************************************************************************)
EXTENDS AilSync, FiniteSetTheorems, SequenceTheorems, TLAPS

----------------------------------------------------------------------------
(***************************************************************************)
(* The lists: what LPUSH and LTRIM, LPOP, RPUSH keep.                      *)
(***************************************************************************)
Pushed(o, s) == LET l == <<o>> \o s IN
                SubSeq(l, 1, IF Len(l) <= MaxQueue + 1 THEN Len(l) ELSE MaxQueue + 1)

\* The new object is first, and all the others stay but the one that had the last place.
LEMMA PushedProperties ==
  ASSUME NEW o \in Objs, NEW s \in Seq(Objs), Len(s) <= MaxQueue + 1
  PROVE  /\ Pushed(o, s) \in Seq(Objs) /\ Len(Pushed(o, s)) <= MaxQueue + 1
         /\ In(o, Pushed(o, s))
         /\ \A k \in DOMAIN s : k > MaxQueue \/ In(s[k], Pushed(o, s))
<1> DEFINE l == <<o>> \o s
           n == IF Len(l) <= MaxQueue + 1 THEN Len(l) ELSE MaxQueue + 1
           r == SubSeq(l, 1, n)
<1>1. Len(s) \in Nat /\ DOMAIN s = 1 .. Len(s) /\ MaxQueue \in Nat
  BY LenProperties, SyncAssumption
<1>2. /\ l \in Seq(Objs) /\ Len(l) = Len(s) + 1
      /\ l[1] = o /\ \A k \in 1 .. Len(s) : l[k + 1] = s[k]
  <2>1. <<o>> \in Seq(Objs) /\ Len(<<o>>) = 1 /\ <<o>>[1] = o
    OBVIOUS
  <2>2. /\ l \in Seq(Objs) /\ Len(l) = 1 + Len(s)
        /\ \A i \in 1 .. 1 + Len(s) : l[i] = IF i <= 1 THEN <<o>>[i] ELSE s[i - 1]
    <3>1. /\ <<o>> \o s \in Seq(Objs) /\ Len(<<o>> \o s) = Len(<<o>>) + Len(s)
          /\ \A i \in 1 .. Len(<<o>>) + Len(s) :
               (<<o>> \o s)[i] = IF i <= Len(<<o>>) THEN <<o>>[i] ELSE s[i - Len(<<o>>)]
      BY <2>1, ConcatProperties, Zenon
    <3> QED
      BY <2>1, <3>1, Zenon DEF l
  <2> HIDE DEF l
  <2> QED
    BY <1>1, <2>1, <2>2
<1> HIDE DEF l
<1>3. n \in 1 .. Len(l) /\ n <= MaxQueue + 1 /\ (n = Len(l) \/ n = MaxQueue + 1)
  BY <1>1, <1>2
<1> HIDE DEF n
<1>4. r \in Seq(Objs) /\ Len(r) = n /\ \A i \in 1 .. n : r[i] = l[i]
  <2>1. \A i \in 1 .. n : l[i] \in Objs
    BY <1>1, <1>2, <1>3, ElementOfSeq
  <2> QED
    BY <1>1, <1>2, <1>3, <2>1, SubSeqProperties
<1>5. DOMAIN r = 1 .. n
  BY <1>4, LenProperties
<1> HIDE DEF r
<1>6. In(o, r)
  BY <1>2, <1>3, <1>4, <1>5 DEF In
<1>7. ASSUME NEW k \in DOMAIN s, ~(k > MaxQueue)
      PROVE  In(s[k], r)
  <2>1. k + 1 \in 1 .. n /\ l[k + 1] = s[k]
    BY <1>1, <1>2, <1>3, <1>7
  <2> QED
    BY <1>4, <1>5, <2>1 DEF In
<1>8. Pushed(o, s) = r
  BY DEF Pushed, r, n, l
<1> QED
  BY <1>3, <1>4, <1>6, <1>7, <1>8

LEMMA TailKeeps ==
  ASSUME NEW S, NEW s \in Seq(S), s # <<>>
  PROVE  /\ Head(s) \in S /\ Tail(s) \in Seq(S) /\ Len(Tail(s)) <= Len(s)
         /\ \A o : In(o, s) => o = Head(s) \/ In(o, Tail(s))
<1>1. /\ Len(s) \in Nat \ {0} /\ DOMAIN s = 1 .. Len(s)
      /\ Tail(s) \in Seq(S) /\ Len(Tail(s)) = Len(s) - 1
      /\ DOMAIN Tail(s) = 1 .. Len(s) - 1
      /\ \A i \in 1 .. Len(s) - 1 : Tail(s)[i] = s[i + 1]
  BY LenProperties, EmptySeq, HeadTailProperties
<1>2. Head(s) = s[1] /\ Head(s) \in S
  BY <1>1, HeadTailProperties
<1>3. ASSUME NEW o, In(o, s)
      PROVE  o = Head(s) \/ In(o, Tail(s))
  <2>1. PICK k \in 1 .. Len(s) : s[k] = o
    BY <1>1, <1>3 DEF In
  <2>2. CASE k = 1
    BY <1>2, <2>1, <2>2
  <2>3. CASE k # 1
    <3>1. k - 1 \in DOMAIN Tail(s) /\ Tail(s)[k - 1] = o
      BY <1>1, <2>1, <2>3
    <3> QED
      BY <3>1 DEF In
  <2> QED
    BY <2>2, <2>3
<1> QED
  BY <1>1, <1>2, <1>3

LEMMA AppendKeeps ==
  ASSUME NEW S, NEW s \in Seq(S), NEW e \in S
  PROVE  /\ Append(s, e) \in Seq(S) /\ In(e, Append(s, e))
         /\ \A o : In(o, s) => In(o, Append(s, e))
<1>1. /\ Len(s) \in Nat /\ DOMAIN s = 1 .. Len(s)
      /\ Append(s, e) \in Seq(S) /\ DOMAIN Append(s, e) = 1 .. Len(s) + 1
      /\ \A i \in 1 .. Len(s) : Append(s, e)[i] = s[i]
      /\ Append(s, e)[Len(s) + 1] = e
  BY LenProperties, AppendProperties
<1> QED
  BY <1>1 DEF In

----------------------------------------------------------------------------
(***************************************************************************)
(* Types, and what the local variables are at each place.                  *)
(***************************************************************************)
Commands == [command : {"launch", "kill", "relaunch"},
             id : Ids \cup {None}, ail : Ails \cup {None}]
CommandOK(c) == IF c.command = "launch" THEN c.ail \in Ails ELSE c.id \in Ids

ManagerOK ==
  /\ \A c \in cmds : CommandOK(c)
  /\ mgr.pc = "launch" => mgr.ail \in Ails
  /\ mgr.pc = "cache" => mgr.ail \in Ails /\ mgr.id \in Ids
  /\ mgr.pc \in {"kill", "relaunch"} => mgr.id \in Ids

\* A client has an object only while it sends it, and a wire only while it is connected.
ClientOK(i) ==
  /\ proc[i].pc # "none" => proc[i].ail \in Ails
  /\ proc[i].pc = "send" => proc[i].obj \in Objs /\ proc[i].queue \in Queues
  /\ proc[i].pc # "send" => proc[i].obj = None
  /\ proc[i].pc \notin {"loop", "send"} => wire[i] = <<>>
ClientsOK == \A i \in Ids : ClientOK(i)

ServerOK ==
  /\ sm.pc # "idle" => sm.obj \in Objs
  /\ \A a \in Ails : sock[a].pc = "send" => sock[a].obj \in Objs /\ sock[a].queue \in Queues

DataInv == TypeOK /\ ManagerOK /\ ClientsOK /\ ServerOK

ConfOK == /\ inst \in [Ails -> [exists : BOOLEAN, push : BOOLEAN, pull : BOOLEAN, key : BOOLEAN]]
          /\ filter \in [Queues -> (SUBSET Objs) \cup {None}]
          /\ reg \subseteq Queues \X Ails

LEMMA DictType == ASSUME ConfOK PROVE SyncQueueDict \in Dicts
<1> DEFINE links == {y \in reg : filter[y[1]] # None /\ (inst[y[2]].push \/ inst[y[2]].pull)}
           entry(x) == [filter |-> filter[x[1]], push |-> inst[x[2]].push, pull |-> inst[x[2]].pull]
<1>1. links \in SUBSET (Queues \X Ails)
  BY DEF ConfOK
<1>2. \A x \in links : entry(x) \in [filter : SUBSET Objs, push : BOOLEAN, pull : BOOLEAN]
  BY <1>1 DEF ConfOK
<1>3. SyncQueueDict = [x \in links |-> entry(x)]
  BY DEF SyncQueueDict
<1> HIDE DEF links, entry
<1>4. SyncQueueDict \in [links -> [filter : SUBSET Objs, push : BOOLEAN, pull : BOOLEAN]]
  BY <1>2, <1>3
<1> QED
  BY <1>1, <1>4, Zenon DEF Dicts

LEMMA DictsAre ==
  ASSUME NEW d \in Dicts
  PROVE  DOMAIN d \subseteq Queues \X Ails
  BY DEF Dicts

LEMMA InitData == Init => DataInv
<1> SUFFICES ASSUME Init PROVE DataInv
  OBVIOUS
<1> USE SyncAssumption
<1>1. ConfOK /\ cmds \subseteq Commands /\ \A c \in cmds : CommandOK(c)
  <2>1. CASE Empty
    BY <2>1 DEF ConfOK, Empty, NoInst
  <2>2. CASE Configured
    <3>1. ConfOK
      BY <2>2 DEF ConfOK, Configured
    <3>2. cmds \subseteq Commands /\ \A c \in cmds : CommandOK(c)
      BY <2>2 DEF Configured, Commands, Command, CommandOK
    <3> QED
      BY <3>1, <3>2
  <2> QED
    BY <2>1, <2>2 DEF Init
<1>2. SyncQueueDict \in Dicts
  BY <1>1, DictType
<1>3. queue \in [Modes \X Queues \X Ails -> Seq(Objs)] /\ wire \in [Ids -> Seq(Objs)]
      /\ \A x \in DOMAIN queue : Len(queue[x]) <= MaxQueue + 1
  <2>1. <<>> \in Seq(Objs) /\ Len(<<>>) = 0
    BY EmptySeq
  <2> QED
    BY <2>1 DEF Init
<1>4. /\ sm \in [pc : {"idle", "refresh", "filter", "add"}, obj : Objs \cup {None},
                 todo : SUBSET (Modes \X Queues \X Ails), dict : Dicts]
      /\ mgr \in [pc : {"idle", "launch", "kill", "relaunch", "cache", "dead"},
                  ail : Ails \cup {None}, id : Ids \cup {None}, clients : [Ids -> Ails \cup {None}]]
  BY <1>2 DEF Init
<1>5. TypeOK
  BY <1>1, <1>3, <1>4 DEF ConfOK, Init, TypeOK, Commands, NoProc, NoSock
<1> QED
  BY <1>1, <1>5 DEF Init, DataInv, ManagerOK, ClientsOK, ClientOK, ServerOK, NoProc, NoSock

\* What every step of the administrator keeps.
LEMMA RequestKeeps ==
  ASSUME DataInv, Request, ConfOK', <<later', pend', missed'>> \in BOOLEAN \X BOOLEAN \X BOOLEAN,
         cmds' \subseteq Commands, \A c \in cmds' : CommandOK(c), srvcmds' \subseteq Ails
  PROVE  DataInv'
<1> USE DEF DataInv, Request, data
<1>1. TypeOK'
  BY DEF TypeOK, ConfOK, Commands
<1>2. ManagerOK'
  BY DEF ManagerOK, CommandOK
<1>3. ClientsOK' /\ ServerOK'
  BY DEF ClientsOK, ClientOK, ServerOK
<1> QED
  BY <1>1, <1>2, <1>3

LEMMA SetLastUpdatedType ==
  ASSUME TypeOK, SetLastUpdated \/ UNCHANGED clock
  PROVE  <<later', pend', missed'>> \in BOOLEAN \X BOOLEAN \X BOOLEAN
  BY DEF TypeOK, SetLastUpdated, clock

LEMMA RefreshType ==
  ASSUME DataInv, NEW a \in Ails, RefreshConnection(a) \/ UNCHANGED cmds
  PROVE  cmds' \subseteq Commands /\ \A c \in cmds' : CommandOK(c)
  BY DEF DataInv, TypeOK, ManagerOK, RefreshConnection, ClientIds, Command, Commands, CommandOK

LEMMA AdminInstancesData == DataInv /\ AdminInstances => DataInv'
<1> SUFFICES ASSUME DataInv, NEW a \in Ails,
                    \/ \E push, pull \in BOOLEAN : CreateInstance(a, push, pull)
                    \/ \E push, pull, url, key \in BOOLEAN : EditInstance(a, push, pull, url, key)
                    \/ DeleteInstance(a)
                    \/ \E c \in {"launch", "kill", "relaunch"} : CommandClient(a, c)
                    \/ KillConnected(a)
                    \/ \E q \in Queues : Register(q, a) \/ Unregister(q, a)
             PROVE  DataInv'
  BY DEF AdminInstances
<1>0. TypeOK /\ ConfOK /\ srvcmds \subseteq Ails
  BY DEF DataInv, TypeOK, ConfOK
<1>1. ASSUME NEW push \in BOOLEAN, NEW pull \in BOOLEAN, CreateInstance(a, push, pull)
      PROVE  DataInv'
  <2>1. ConfOK'
    BY <1>0, <1>1 DEF CreateInstance, ConfOK
  <2> QED
    BY <1>0, <1>1, <2>1, RequestKeeps, SetLastUpdatedType, RefreshType DEF CreateInstance
<1>2. ASSUME NEW push \in BOOLEAN, NEW pull \in BOOLEAN, NEW url \in BOOLEAN, NEW key \in BOOLEAN,
             EditInstance(a, push, pull, url, key)
      PROVE  DataInv'
  <2>1. ConfOK'
    <3> DEFINE new == [inst[a] EXCEPT !.push = push, !.pull = pull, !.key = @ /\ ~key]
    <3>1. inst' = [inst EXCEPT ![a] = new]
      BY <1>0, <1>2 DEF EditInstance, ConfOK
    <3>2. new \in [exists : BOOLEAN, push : BOOLEAN, pull : BOOLEAN, key : BOOLEAN]
      BY <1>0 DEF ConfOK
    <3> HIDE DEF new
    <3>3. UNCHANGED <<filter, reg>>
      BY <1>2 DEF EditInstance
    <3> QED
      BY <1>0, <3>1, <3>2, <3>3 DEF ConfOK
  <2> QED
    BY <1>0, <1>2, <2>1, RequestKeeps, SetLastUpdatedType, RefreshType DEF EditInstance, NoCommand
<1>3. CASE DeleteInstance(a)
  <2>1. ConfOK'
    BY <1>0, <1>3 DEF DeleteInstance, ConfOK, NoInst
  <2> QED
    BY <1>0, <1>3, <2>1, RequestKeeps, SetLastUpdatedType, RefreshType DEF DeleteInstance
<1>4. ASSUME NEW c \in {"launch", "kill", "relaunch"}, CommandClient(a, c)
      PROVE  DataInv'
  <2>1. ConfOK'
    BY <1>0, <1>4 DEF CommandClient, ConfOK, conf
  <2>2. cmds' \subseteq Commands /\ \A d \in cmds' : CommandOK(d)
    BY <1>4 DEF DataInv, TypeOK, ManagerOK, CommandClient, ClientIds, Command, Commands, CommandOK
  <2> QED
    BY <1>0, <1>4, <2>1, <2>2, RequestKeeps, SetLastUpdatedType DEF CommandClient
<1>5. CASE KillConnected(a)
  <2>1. ConfOK'
    BY <1>0, <1>5 DEF KillConnected, ConfOK, conf
  <2> QED
    BY <1>0, <1>5, <2>1, RequestKeeps, SetLastUpdatedType, RefreshType DEF KillConnected
<1>6. ASSUME NEW q \in Queues, Register(q, a) \/ Unregister(q, a)
      PROVE  DataInv'
  <2>1. ConfOK'
    BY <1>0, <1>6 DEF Register, Unregister, ConfOK
  <2> QED
    BY <1>0, <1>6, <2>1, RequestKeeps, SetLastUpdatedType, RefreshType DEF Register, Unregister, NoCommand
<1> QED
  BY <1>1, <1>2, <1>3, <1>4, <1>5, <1>6

LEMMA AdminQueuesData == DataInv /\ AdminQueues => DataInv'
<1> SUFFICES ASSUME DataInv, NEW q \in Queues,
                    \/ \E f \in (SUBSET Objs) \ {{}} : CreateQueue(q, f) \/ EditQueue(q, f)
                    \/ DeleteQueue(q)
             PROVE  DataInv'
  BY DEF AdminQueues
<1>0. TypeOK /\ ConfOK /\ srvcmds \subseteq Ails
      /\ cmds \subseteq Commands /\ \A c \in cmds : CommandOK(c)
  BY DEF DataInv, TypeOK, ConfOK, ManagerOK, Commands
<1>1. ASSUME NEW f \in (SUBSET Objs) \ {{}}, CreateQueue(q, f) \/ EditQueue(q, f)
      PROVE  DataInv'
  <2>1. ConfOK' /\ UNCHANGED <<cmds, srvcmds>> /\ Request /\ SetLastUpdated
    BY <1>0, <1>1 DEF CreateQueue, EditQueue, ConfOK, NoCommand
  <2> QED
    BY <1>0, <2>1, RequestKeeps, SetLastUpdatedType
<1>2. CASE DeleteQueue(q)
  <2>1. ConfOK' /\ UNCHANGED srvcmds /\ Request /\ SetLastUpdated
    BY <1>0, <1>2 DEF DeleteQueue, ConfOK
  <2>2. (\E a \in Ails : RefreshConnection(a)) \/ UNCHANGED cmds
    BY <1>2 DEF DeleteQueue, NoCommand
  <2>3. cmds' \subseteq Commands /\ \A c \in cmds' : CommandOK(c)
    BY <1>0, <2>2, RefreshType
  <2> QED
    BY <1>0, <2>1, <2>3, RequestKeeps, SetLastUpdatedType
<1> QED
  BY <1>1, <1>2

LEMMA ManagerData == DataInv /\ Manager => DataInv'
<1> SUFFICES ASSUME DataInv, Manager PROVE DataInv'
  OBVIOUS
<1> USE DEF DataInv, conf, clock, server, data
<1>1. CASE PopCommand
  <2>1. PICK c \in cmds : cmds' = cmds \ {c} /\ SetMgr(c.command, c.ail, c.id)
    BY <1>1 DEF PopCommand
  <2>2. c \in Commands /\ CommandOK(c)
    BY <2>1 DEF TypeOK, ManagerOK, Commands
  <2>3. /\ mgr' = [pc |-> c.command, ail |-> c.ail, id |-> c.id, clients |-> mgr.clients]
        /\ UNCHANGED <<conf, clock, cached, proc, server, data>>
    BY <1>1, <2>1 DEF TypeOK, SetMgr, PopCommand
  <2>4. TypeOK'
    BY <2>1, <2>2, <2>3 DEF TypeOK, Commands
  <2>5. ManagerOK' /\ ClientsOK' /\ ServerOK'
    BY <2>1, <2>2, <2>3 DEF ManagerOK, CommandOK, Commands, ClientsOK, ClientOK, ServerOK
  <2> QED
    BY <2>4, <2>5
<1>2. CASE KillClient
  <2> DEFINE i == mgr.id
             a == mgr.clients[i]
  <2>1. i \in Ids /\ a \in Ails \cup {None} /\ UNCHANGED <<conf, clock, cmds, server, sm, fresh, accepted, queue, importer>>
    BY <1>2 DEF KillClient, TypeOK, ManagerOK
  <2>2. CASE mgr.pc = "relaunch" /\ a = None
    <3>1. /\ mgr' = [pc |-> "dead", ail |-> None, id |-> None, clients |-> mgr.clients]
          /\ UNCHANGED <<cached, proc, wire>>
      BY <1>2, <2>2 DEF KillClient, SetMgr, TypeOK
    <3>2. TypeOK'
      BY <2>1, <3>1 DEF TypeOK
    <3>3. ManagerOK' /\ ClientsOK' /\ ServerOK'
      BY <2>1, <3>1 DEF ManagerOK, CommandOK, ClientsOK, ClientOK, ServerOK
    <3> QED
      BY <3>2, <3>3
  <2>3. CASE ~(mgr.pc = "relaunch" /\ a = None)
    <3>1. /\ cached' = [cached EXCEPT ![i] = None]
          /\ proc' = [proc EXCEPT ![i] = NoProc]
          /\ wire' = [wire EXCEPT ![i] = <<>>]
          /\ mgr' = [pc |-> IF a = None THEN "dead" ELSE IF mgr.pc = "kill" THEN "idle" ELSE "launch",
                     ail |-> a, id |-> None, clients |-> [mgr.clients EXCEPT ![i] = None]]
      BY <1>2, <2>3 DEF KillClient, TypeOK
    <3>2. mgr' \in [pc : {"idle", "launch", "kill", "relaunch", "cache", "dead"},
                    ail : Ails \cup {None}, id : Ids \cup {None}, clients : [Ids -> Ails \cup {None}]]
      BY <2>1, <3>1 DEF TypeOK
    <3>3. TypeOK'
      BY <2>1, <3>1, <3>2, EmptySeq DEF TypeOK, NoProc
    <3>4. ManagerOK' /\ ServerOK'
      BY <2>1, <3>1 DEF ManagerOK, CommandOK, ServerOK
    <3>5. ClientsOK'
      BY <2>1, <3>1 DEF ClientsOK, ClientOK, TypeOK, NoProc
    <3> QED
      BY <3>3, <3>4, <3>5
  <2> QED
    BY <2>2, <2>3
<1>3. CASE LaunchWindow
  <2>1. PICK i \in Ids :
          /\ wire' = [wire EXCEPT ![i] = <<>>]
          /\ proc' = [proc EXCEPT ![i] = [NoProc EXCEPT !.pc = "start", !.ail = mgr.ail]]
          /\ SetMgr("cache", mgr.ail, i)
    BY <1>3 DEF LaunchWindow
  <2>2. /\ mgr' = [pc |-> "cache", ail |-> mgr.ail, id |-> i, clients |-> mgr.clients]
        /\ proc' = [proc EXCEPT ![i] = [pc |-> "start", ail |-> mgr.ail, obj |-> None, queue |-> None]]
        /\ mgr.ail \in Ails
    <3>1. mgr' = [pc |-> "cache", ail |-> mgr.ail, id |-> i, clients |-> mgr.clients]
      BY <2>1 DEF TypeOK, SetMgr
    <3>2. [NoProc EXCEPT !.pc = "start", !.ail = mgr.ail]
            = [pc |-> "start", ail |-> mgr.ail, obj |-> None, queue |-> None]
      <4>1. ASSUME NEW a, NEW r, r = [NoProc EXCEPT !.pc = "start", !.ail = a]
            PROVE  r = [pc |-> "start", ail |-> a, obj |-> None, queue |-> None]
        BY <4>1 DEF NoProc
      <4> QED
        BY <4>1
    <3>3. mgr.ail \in Ails
      BY <1>3 DEF LaunchWindow, ManagerOK
    <3> QED
      BY <2>1, <3>1, <3>2, <3>3
  <2>3. UNCHANGED <<conf, clock, cmds, cached, server, sm, fresh, accepted, queue, importer>>
    BY <1>3 DEF LaunchWindow
  <2>4. TypeOK'
    BY <2>1, <2>2, <2>3, EmptySeq DEF TypeOK
  <2>5. ManagerOK' /\ ServerOK'
    BY <2>2, <2>3 DEF ManagerOK, CommandOK, ServerOK
  <2>6. ClientsOK'
    <3> SUFFICES ASSUME NEW j \in Ids
                 PROVE  /\ proc'[j].pc # "none" => proc'[j].ail \in Ails
                        /\ proc'[j].pc = "send" => proc'[j].obj \in Objs /\ proc'[j].queue \in Queues
                        /\ proc'[j].pc # "send" => proc'[j].obj = None
                        /\ proc'[j].pc \notin {"loop", "send"} => wire'[j] = <<>>
      BY DEF ClientsOK, ClientOK
    <3>1. CASE j = i
      <4>1. /\ proc'[j] = [pc |-> "start", ail |-> mgr.ail, obj |-> None, queue |-> None]
            /\ wire'[j] = <<>>
        BY <2>1, <2>2, <3>1 DEF TypeOK
      <4> QED
        BY <2>2, <4>1
    <3>2. CASE j # i
      <4>1. proc'[j] = proc[j] /\ wire'[j] = wire[j]
        BY <2>1, <2>2, <3>2 DEF TypeOK
      <4> QED
        BY <4>1 DEF ClientsOK, ClientOK
    <3> QED
      BY <3>1, <3>2
  <2> QED
    BY <2>4, <2>5, <2>6
<1>4. CASE CacheClient
  <2>1. /\ mgr.ail \in Ails /\ mgr.id \in Ids
        /\ UNCHANGED <<conf, clock, cmds, proc, server, data>>
    BY <1>4 DEF CacheClient, ManagerOK
  <2>2. /\ cached' = [cached EXCEPT ![mgr.id] = mgr.ail]
        /\ mgr' = [pc |-> "idle", ail |-> None, id |-> None,
                   clients |-> [mgr.clients EXCEPT ![mgr.id] = mgr.ail]]
    BY <1>4 DEF CacheClient, TypeOK
  <2>3. TypeOK'
    BY <2>1, <2>2 DEF TypeOK
  <2>4. ManagerOK' /\ ClientsOK' /\ ServerOK'
    BY <2>1, <2>2 DEF ManagerOK, CommandOK, ClientsOK, ClientOK, ServerOK
  <2> QED
    BY <2>3, <2>4
<1> QED
  BY <1>1, <1>2, <1>3, <1>4 DEF Manager

\* What the steps of Sync_module and of the clock keep.
LEMMA SyncKeeps ==
  ASSUME DataInv, UNCHANGED others, <<later', pend', missed'>> \in BOOLEAN \X BOOLEAN \X BOOLEAN,
         sm' \in [pc : {"idle", "refresh", "filter", "add"}, obj : Objs \cup {None},
                  todo : SUBSET (Modes \X Queues \X Ails), dict : Dicts],
         sm'.pc # "idle" => sm'.obj \in Objs,
         queue' \in [Modes \X Queues \X Ails -> Seq(Objs)],
         \A x \in DOMAIN queue' : Len(queue'[x]) <= MaxQueue + 1,
         fresh' \subseteq Objs, accepted' \subseteq Modes \X Ails \X Objs
  PROVE  DataInv'
<1> USE DEF DataInv, others, conf, control, server
<1>1. TypeOK'
  BY DEF TypeOK
<1>2. ManagerOK' /\ ClientsOK' /\ ServerOK'
  BY DEF ManagerOK, CommandOK, ClientsOK, ClientOK, ServerOK
<1> QED
  BY <1>1, <1>2

LEMMA TickData == DataInv /\ Tick => DataInv'
<1> SUFFICES ASSUME DataInv, Tick PROVE DataInv'
  OBVIOUS
<1>1. UNCHANGED <<others, pend, missed, sm, fresh, accepted, queue>> /\ later' \in BOOLEAN
  BY DEF Tick
<1>2. TypeOK /\ ServerOK
  BY DEF DataInv
<1> HIDE DEF others
<1> QED
  BY <1>1, <1>2, SyncKeeps DEF TypeOK, ServerOK

\* The list that LPUSH and LTRIM write.
LEMMA AddObjectType ==
  ASSUME TypeOK, NEW x \in Modes \X Queues \X Ails, NEW o \in Objs, AddObject(x, o)
  PROVE  /\ queue' = [queue EXCEPT ![x] = Pushed(o, queue[x])]
         /\ queue' \in [Modes \X Queues \X Ails -> Seq(Objs)]
         /\ \A y \in DOMAIN queue' : Len(queue'[y]) <= MaxQueue + 1
<1>1. queue' = [queue EXCEPT ![x] = Pushed(o, queue[x])]
  BY DEF AddObject, Pushed
<1>2. Pushed(o, queue[x]) \in Seq(Objs) /\ Len(Pushed(o, queue[x])) <= MaxQueue + 1
  BY PushedProperties DEF TypeOK
<1> QED
  BY <1>1, <1>2 DEF TypeOK

LEMMA SyncModuleData == DataInv /\ SyncModule => DataInv'
<1> SUFFICES ASSUME DataInv, SyncModule PROVE DataInv'
  OBVIOUS
<1>0. /\ TypeOK /\ ServerOK /\ ConfOK
      /\ sm.pc \in {"idle", "refresh", "filter", "add"} /\ sm.obj \in Objs \cup {None}
      /\ sm.todo \subseteq Modes \X Queues \X Ails /\ sm.dict \in Dicts
      /\ sm = [pc |-> sm.pc, obj |-> sm.obj, todo |-> sm.todo, dict |-> sm.dict]
      /\ sm.pc # "idle" => sm.obj \in Objs
  BY DEF DataInv, TypeOK, ConfOK, ServerOK
<1> DEFINE Smt == [pc : {"idle", "refresh", "filter", "add"}, obj : Objs \cup {None},
                   todo : SUBSET (Modes \X Queues \X Ails), dict : Dicts]
<1>a. ASSUME NEW todo \in SUBSET (Modes \X Queues \X Ails), sm.obj \in Objs, SyncNext(todo)
      PROVE  sm' \in Smt /\ (sm'.pc # "idle" => sm'.obj \in Objs)
  BY <1>0, <1>a DEF SyncNext
<1>1. ASSUME NEW o \in Objs, SyncPop(o)
      PROVE  DataInv'
  <2>1. UNCHANGED <<others, accepted, queue>> /\ fresh' \subseteq Objs
    BY <1>0, <1>1 DEF SyncPop, TypeOK
  <2>2. <<later', pend', missed'>> \in BOOLEAN \X BOOLEAN \X BOOLEAN
    BY <1>0, <1>1 DEF SyncPop, TypeOK
  <2>3. sm' = [pc |-> IF pend THEN "refresh" ELSE "filter", obj |-> o, todo |-> sm.todo, dict |-> sm.dict]
    BY <1>0, <1>1 DEF SyncPop
  <2>4. sm' \in Smt /\ sm'.obj \in Objs
    BY <1>0, <2>3
  <2> QED
    BY <1>0, <2>1, <2>2, <2>4, SyncKeeps DEF TypeOK
<1>2. CASE SyncRefresh
  <2>1. UNCHANGED <<others, later, pend, fresh, accepted, queue>> /\ missed' = FALSE /\ sm.obj \in Objs
    BY <1>0, <1>2 DEF SyncRefresh
  <2>2. sm' = [pc |-> "filter", obj |-> sm.obj, todo |-> sm.todo, dict |-> SyncQueueDict]
    BY <1>0, <1>2 DEF SyncRefresh
  <2>3. sm' \in Smt /\ sm'.obj \in Objs
    BY <1>0, <2>1, <2>2, DictType
  <2> QED
    BY <1>0, <2>1, <2>3, SyncKeeps DEF TypeOK, clock
<1>3. CASE SyncFilter
  <2>1. UNCHANGED <<others, clock, fresh, accepted, queue>> /\ sm.obj \in Objs
    BY <1>0, <1>3 DEF SyncFilter
  <2>2. PICK todo \in SUBSET (Modes \X Queues \X Ails) : SyncNext(todo)
    <3> DEFINE passes == {y \in DOMAIN sm.dict : sm.obj \in sm.dict[y].filter}
               all == {<<m, x[1], x[2]>> : m \in Modes, x \in passes}
               todo == {t \in all : sm.dict[<<t[2], t[3]>>][t[1]]}
    <3>1. SyncNext(todo)
      BY <1>3 DEF SyncFilter
    <3>2. passes \subseteq Queues \X Ails
      BY <1>0, DictsAre
    <3>3. all \subseteq Modes \X Queues \X Ails
      BY <3>2
    <3>4. todo \in SUBSET (Modes \X Queues \X Ails)
      BY <3>3
    <3> HIDE DEF todo
    <3> QED
      BY <3>1, <3>4
  <2>3. sm' \in Smt /\ (sm'.pc # "idle" => sm'.obj \in Objs)
    BY <1>a, <2>1, <2>2
  <2> QED
    BY <1>0, <2>1, <2>3, SyncKeeps DEF TypeOK, clock
<1>4. CASE SyncAdd
  <2>1. UNCHANGED <<others, clock, fresh>> /\ sm.obj \in Objs
    BY <1>0, <1>4 DEF SyncAdd
  <2>2. PICK x \in sm.todo : /\ AddObject(x, sm.obj)
                             /\ accepted' = accepted \cup {<<x[1], x[3], sm.obj>>}
                             /\ SyncNext(sm.todo \ {x})
    BY <1>4 DEF SyncAdd
  <2>3. x \in Modes \X Queues \X Ails /\ sm.todo \ {x} \in SUBSET (Modes \X Queues \X Ails)
    BY <1>0, <2>2
  <2>4. sm' \in Smt /\ (sm'.pc # "idle" => sm'.obj \in Objs)
    BY <1>a, <2>1, <2>2, <2>3
  <2>5. accepted' \subseteq Modes \X Ails \X Objs
    BY <1>0, <2>1, <2>2, <2>3 DEF TypeOK
  <2>6. /\ queue' \in [Modes \X Queues \X Ails -> Seq(Objs)]
        /\ \A y \in DOMAIN queue' : Len(queue'[y]) <= MaxQueue + 1
    BY <1>0, <2>1, <2>2, <2>3, AddObjectType
  <2> QED
    BY <1>0, <2>1, <2>4, <2>5, <2>6, SyncKeeps DEF TypeOK, clock
<1> QED
  BY <1>1, <1>2, <1>3, <1>4 DEF SyncModule

\* What the steps of a client, of the other side's server and of its importer keep.
Procs == [pc : {"none", "start", "loop", "send", "exit"}, ail : Ails \cup {None},
          obj : Objs \cup {None}, queue : Queues \cup {None}]

LEMMA ClientKeeps ==
  ASSUME DataInv, UNCHANGED clientRest, NEW i \in Ids,
         cached' \in [Ids -> Ails \cup {None}], importer' \subseteq Objs,
         queue' \in [Modes \X Queues \X Ails -> Seq(Objs)],
         \A x \in DOMAIN queue' : Len(queue'[x]) <= MaxQueue + 1,
         proc' \in [Ids -> Procs], wire' \in [Ids -> Seq(Objs)], ClientOK(i)',
         \A j \in Ids \ {i} : proc'[j] = proc[j] /\ wire'[j] = wire[j]
  PROVE  DataInv'
<1> USE DEF DataInv, clientRest, conf, clock, server
<1>1. TypeOK'
  BY DEF TypeOK, Procs
<1>2. ManagerOK' /\ ServerOK'
  BY DEF ManagerOK, CommandOK, ServerOK
<1>3. ASSUME NEW j \in Ids \ {i} PROVE ClientOK(j)'
  BY DEF ClientsOK, ClientOK
<1> QED
  BY <1>1, <1>2, <1>3 DEF ClientsOK

LEMMA SetProcType ==
  ASSUME TypeOK, NEW i \in Ids, NEW pc \in {"none", "start", "loop", "send", "exit"}, SetProc(i, pc)
  PROVE  /\ proc' \in [Ids -> Procs]
         /\ proc'[i] = [pc |-> pc, ail |-> proc[i].ail, obj |-> None, queue |-> None]
         /\ \A j \in Ids \ {i} : proc'[j] = proc[j]
<1> DEFINE r == [proc[i] EXCEPT !.pc = pc, !.obj = None, !.queue = None]
<1>1. proc' = [proc EXCEPT ![i] = r] /\ proc[i] \in Procs
  BY DEF SetProc, TypeOK, Procs
<1>2. ASSUME NEW e, e = r PROVE e = [pc |-> pc, ail |-> proc[i].ail, obj |-> None, queue |-> None]
  BY <1>1, <1>2 DEF Procs
<1>3. r = [pc |-> pc, ail |-> proc[i].ail, obj |-> None, queue |-> None]
  BY <1>2
<1> HIDE DEF r
<1> QED
  BY <1>1, <1>3 DEF TypeOK, Procs

LEMMA ClientData == ASSUME DataInv, NEW i \in Ids, Client(i) PROVE DataInv'
<1>0. /\ TypeOK /\ ClientOK(i) /\ proc[i] \in Procs /\ wire[i] \in Seq(Objs)
      /\ proc \in [Ids -> Procs] /\ wire \in [Ids -> Seq(Objs)]
  BY DEF DataInv, TypeOK, ClientsOK, Procs
<1>1. CASE ClientStart(i)
  <2>1. UNCHANGED clientRest /\ UNCHANGED <<cached, queue, wire, importer>>
    BY <1>1 DEF ClientStart
  <2>2. /\ proc' \in [Ids -> Procs] /\ \A j \in Ids \ {i} : proc'[j] = proc[j]
        /\ ClientOK(i)'
    <3>1. ASSUME NEW pc \in {"loop", "exit"}, SetProc(i, pc)
          PROVE  /\ proc' \in [Ids -> Procs] /\ \A j \in Ids \ {i} : proc'[j] = proc[j]
                 /\ ClientOK(i)'
      <4>1. /\ proc' \in [Ids -> Procs] /\ \A j \in Ids \ {i} : proc'[j] = proc[j]
            /\ proc'[i] = [pc |-> pc, ail |-> proc[i].ail, obj |-> None, queue |-> None]
        BY <1>0, <3>1, SetProcType
      <4>2. proc[i].ail \in Ails /\ wire'[i] = <<>>
        BY <1>0, <1>1, <2>1 DEF ClientStart, ClientOK
      <4> QED
        BY <4>1, <4>2 DEF ClientOK
    <3>2. CASE proc' = [proc EXCEPT ![i] = NoProc]
      <4>1. NoProc \in Procs /\ NoProc.pc = "none" /\ NoProc.obj = None
        BY DEF NoProc, Procs
      <4>2. /\ proc' \in [Ids -> Procs] /\ \A j \in Ids \ {i} : proc'[j] = proc[j]
            /\ proc'[i] = NoProc /\ wire'[i] = <<>>
        BY <1>0, <1>1, <2>1, <3>2, <4>1 DEF ClientStart, ClientOK
      <4> QED
        BY <4>1, <4>2 DEF ClientOK
    <3> QED
      BY <1>1, <3>1, <3>2 DEF ClientStart
  <2> QED
    BY <1>0, <2>1, <2>2, ClientKeeps DEF TypeOK
<1>2. CASE ClientPop(i)
  <2>1. PICK q \in Queues :
          LET x == <<"push", q, proc[i].ail>> IN
          /\ queue[x] # <<>>
          /\ queue' = [queue EXCEPT ![x] = Tail(@)]
          /\ proc' = [proc EXCEPT ![i].pc = "send", ![i].obj = Head(queue[x]), ![i].queue = q]
    BY <1>2 DEF ClientPop
  <2> DEFINE x == <<"push", q, proc[i].ail>>
             r == [proc[i] EXCEPT !.pc = "send", !.obj = Head(queue[x]), !.queue = q]
  <2>2. UNCHANGED clientRest /\ UNCHANGED <<cached, wire, importer>> /\ proc[i].pc = "loop"
    BY <1>2 DEF ClientPop
  <2>3. x \in Modes \X Queues \X Ails
    BY <1>0, <2>2 DEF ClientOK, Modes
  <2>4. /\ queue[x] \in Seq(Objs) /\ Head(queue[x]) \in Objs /\ Tail(queue[x]) \in Seq(Objs)
        /\ Len(Tail(queue[x])) <= Len(queue[x])
    BY <1>0, <2>1, <2>3, TailKeeps DEF TypeOK
  <2>5. /\ queue' \in [Modes \X Queues \X Ails -> Seq(Objs)]
        /\ \A y \in DOMAIN queue' : Len(queue'[y]) <= MaxQueue + 1
    <3> HIDE DEF x
    <3>1. queue' = [queue EXCEPT ![x] = Tail(queue[x])]
      BY <2>1 DEF x
    <3>2. Len(Tail(queue[x])) \in Nat /\ Len(queue[x]) \in Nat /\ MaxQueue \in Nat
      BY <2>4, LenProperties, SyncAssumption
    <3>3. Len(Tail(queue[x])) <= MaxQueue + 1
      BY <1>0, <2>3, <2>4, <3>2 DEF TypeOK
    <3> QED
      BY <1>0, <2>3, <2>4, <3>1, <3>3 DEF TypeOK
  <2>6. ASSUME NEW e, e = r
        PROVE  e = [pc |-> "send", ail |-> proc[i].ail, obj |-> Head(queue[x]), queue |-> q]
    BY <1>0, <2>6 DEF Procs
  <2>7. proc' = [proc EXCEPT ![i] = r]
    BY <1>0, <2>1
  <2> HIDE DEF x, r
  <2>8. proc' = [proc EXCEPT ![i] = [pc |-> "send", ail |-> proc[i].ail, obj |-> Head(queue[x]), queue |-> q]]
    BY <2>6, <2>7
  <2>9. proc[i].ail \in Ails
    BY <1>0, <2>2 DEF ClientOK
  <2>10. proc' \in [Ids -> Procs] /\ ClientOK(i)' /\ \A j \in Ids \ {i} : proc'[j] = proc[j]
    BY <1>0, <2>2, <2>4, <2>8, <2>9 DEF Procs, ClientOK
  <2> QED
    BY <1>0, <2>2, <2>5, <2>10, ClientKeeps DEF TypeOK
<1>3. CASE ClientSend(i)
  <2>1. UNCHANGED clientRest /\ UNCHANGED <<cached, queue, importer>> /\ proc[i].pc = "send"
    BY <1>3 DEF ClientSend
  <2>2. /\ wire' = [wire EXCEPT ![i] = Append(wire[i], proc[i].obj)] /\ SetProc(i, "loop")
        /\ proc[i].obj \in Objs /\ proc[i].ail \in Ails
    BY <1>0, <1>3 DEF ClientSend, ClientOK
  <2>3. wire' \in [Ids -> Seq(Objs)] /\ \A j \in Ids \ {i} : wire'[j] = wire[j]
    BY <1>0, <2>2, AppendKeeps
  <2>4. /\ proc' \in [Ids -> Procs] /\ \A j \in Ids \ {i} : proc'[j] = proc[j]
        /\ proc'[i] = [pc |-> "loop", ail |-> proc[i].ail, obj |-> None, queue |-> None]
    BY <1>0, <2>2, SetProcType
  <2>5. ClientOK(i)'
    BY <2>2, <2>4 DEF ClientOK
  <2> QED
    BY <1>0, <2>1, <2>3, <2>4, <2>5, ClientKeeps DEF TypeOK
<1>4. CASE ClientExit(i)
  <2>1. UNCHANGED clientRest /\ UNCHANGED <<queue, wire, importer>> /\ wire[i] = <<>>
    BY <1>0, <1>4 DEF ClientExit, ClientOK
  <2>2. cached' \in [Ids -> Ails \cup {None}]
    BY <1>0, <1>4 DEF ClientExit, TypeOK
  <2>3. proc' \in [Ids -> Procs] /\ ClientOK(i)' /\ \A j \in Ids \ {i} : proc'[j] = proc[j]
    BY <1>0, <1>4, <2>1 DEF ClientExit, ClientOK, Procs, NoProc
  <2> QED
    BY <1>0, <2>1, <2>2, <2>3, ClientKeeps DEF TypeOK
<1> QED
  BY <1>1, <1>2, <1>3, <1>4 DEF Client

LEMMA ReceiveData == ASSUME DataInv, NEW i \in Ids, ServerReceive(i) PROVE DataInv'
<1>1. /\ TypeOK /\ ClientOK(i) /\ wire[i] \in Seq(Objs) /\ wire[i] # <<>> /\ importer \subseteq Objs
      /\ UNCHANGED clientRest /\ UNCHANGED <<cached, proc, queue>>
      /\ wire' = [wire EXCEPT ![i] = Tail(wire[i])] /\ importer' = importer \cup {Head(wire[i])}
  BY DEF DataInv, TypeOK, ClientsOK, ServerReceive
<1>2. Head(wire[i]) \in Objs /\ Tail(wire[i]) \in Seq(Objs)
  BY <1>1, TailKeeps
<1>3. wire' \in [Ids -> Seq(Objs)] /\ \A j \in Ids \ {i} : wire'[j] = wire[j]
  BY <1>1, <1>2 DEF TypeOK
<1>4. ClientOK(i)'
  BY <1>1 DEF ClientOK
<1>5. importer' \subseteq Objs /\ proc \in [Ids -> Procs]
  BY <1>1, <1>2 DEF TypeOK, Procs
<1> QED
  BY <1>1, <1>3, <1>4, <1>5, ClientKeeps DEF TypeOK

LEMMA ImportData == ASSUME DataInv, NEW o \in Objs, Import(o) PROVE DataInv'
<1> USE DEF DataInv, Import, clientRest, conf, clock, server
<1>1. TypeOK'
  BY DEF TypeOK
<1>2. ManagerOK' /\ ClientsOK' /\ ServerOK'
  BY DEF ManagerOK, CommandOK, ClientsOK, ClientOK, ServerOK
<1> QED
  BY <1>1, <1>2

LEMMA ClosedData ==
  ASSUME DataInv, NEW i \in Ids, NEW normal \in BOOLEAN, ClientClosed(i, normal)
  PROVE  DataInv'
<1>1. /\ TypeOK /\ ClientOK(i) /\ proc[i].pc \in {"loop", "send"} /\ proc \in [Ids -> Procs]
      /\ UNCHANGED clientRest /\ UNCHANGED cached /\ SetProc(i, "exit")
      /\ wire' = [wire EXCEPT ![i] = <<>>] /\ proc[i].ail \in Ails
  BY DEF DataInv, TypeOK, ClientsOK, ClientOK, ClientClosed, Procs
<1>2. /\ proc' \in [Ids -> Procs] /\ \A j \in Ids \ {i} : proc'[j] = proc[j]
      /\ proc'[i] = [pc |-> "exit", ail |-> proc[i].ail, obj |-> None, queue |-> None]
  BY <1>1, SetProcType
<1>3. /\ wire' \in [Ids -> Seq(Objs)] /\ wire'[i] = <<>>
      /\ \A j \in Ids \ {i} : wire'[j] = wire[j]
  BY <1>1, EmptySeq DEF TypeOK
<1>4. ClientOK(i)'
  BY <1>1, <1>2, <1>3 DEF ClientOK
<1>5. /\ queue' \in [Modes \X Queues \X Ails -> Seq(Objs)]
      /\ \A x \in DOMAIN queue' : Len(queue'[x]) <= MaxQueue + 1
      /\ importer' \subseteq Objs
  <2>1. CASE proc[i].obj = None \/ normal
    BY <1>1, <2>1 DEF ClientClosed, TypeOK
  <2>2. CASE ~(proc[i].obj = None \/ normal)
    <3> DEFINE x == <<"push", proc[i].queue, proc[i].ail>>
    <3>1. AddObject(x, proc[i].obj) /\ importer' \in {importer, importer \cup {proc[i].obj}}
      BY <1>1, <2>2 DEF ClientClosed, Resend
    <3>2. x \in Modes \X Queues \X Ails /\ proc[i].obj \in Objs
      BY <1>1, <2>2 DEF ClientOK, Modes
    <3> QED
      BY <1>1, <3>1, <3>2, AddObjectType DEF TypeOK
  <2> QED
    BY <2>1, <2>2
<1> QED
  BY <1>1, <1>2, <1>3, <1>4, <1>5, ClientKeeps DEF TypeOK

\* What the steps of our server keep.
Socks == [pc : {"none", "loop", "send"}, todo : SUBSET Queues,
          queue : Queues \cup {None}, obj : Objs \cup {None}]

LEMMA ServerKeeps ==
  ASSUME DataInv, UNCHANGED serverRest, NEW a \in Ails, ctl' \in BOOLEAN, srvcmds' \subseteq Ails,
         queue' \in [Modes \X Queues \X Ails -> Seq(Objs)],
         \A x \in DOMAIN queue' : Len(queue'[x]) <= MaxQueue + 1,
         NEW s \in Socks, sock' = [sock EXCEPT ![a] = s],
         s.pc = "send" => s.obj \in Objs /\ s.queue \in Queues
  PROVE  DataInv'
<1> USE DEF DataInv, serverRest, conf, clock, control
<1>1. sock' \in [Ails -> Socks]
  BY DEF TypeOK, Socks
<1>2. TypeOK'
  BY <1>1 DEF TypeOK, Socks
<1>3. ManagerOK' /\ ClientsOK'
  BY DEF ManagerOK, CommandOK, ClientsOK, ClientOK
<1>4. ServerOK'
  BY <1>1 DEF ServerOK, TypeOK
<1> QED
  BY <1>2, <1>3, <1>4

LEMMA ServerData ==
  ASSUME DataInv, NEW a \in Ails, Server(a) \/ PullClosed(a) \/ Controller(a)
  PROVE  DataInv'
<1>0. /\ TypeOK /\ sock \in [Ails -> Socks] /\ sock[a] \in Socks /\ NoSock \in Socks /\ NoSock.pc = "none"
      /\ ctl \in BOOLEAN /\ srvcmds \subseteq Ails
      /\ queue \in [Modes \X Queues \X Ails -> Seq(Objs)]
      /\ \A x \in DOMAIN queue : Len(queue[x]) <= MaxQueue + 1
  BY DEF DataInv, TypeOK, NoSock, Socks
<1>1. CASE PullConnect(a)
  <2> DEFINE r == [NoSock EXCEPT !.pc = "loop", !.todo = {q \in Queues : <<q, a>> \in reg}]
  <2>1. sock' = [sock EXCEPT ![a] = r] /\ UNCHANGED serverRest /\ UNCHANGED <<ctl, srvcmds, queue>>
    BY <1>1 DEF PullConnect
  <2>2. r \in Socks /\ r.pc = "loop"
    BY DEF NoSock, Socks
  <2> HIDE DEF r
  <2> QED
    BY <1>0, <2>1, <2>2, ServerKeeps
<1>2. CASE PullPop(a)
  <2>0. UNCHANGED serverRest /\ UNCHANGED <<ctl, srvcmds>>
    BY <1>2 DEF PullPop
  <2>1. ASSUME NEW q \in sock[a].todo, UNCHANGED queue, sock' = [sock EXCEPT ![a].todo = @ \ {q}],
               sock[a].pc = "loop"
        PROVE  DataInv'
    <3> DEFINE r == [sock[a] EXCEPT !.todo = @ \ {q}]
    <3>1. sock' = [sock EXCEPT ![a] = r]
      BY <1>0, <2>1
    <3>2. r \in Socks /\ r.pc = "loop"
      BY <1>0, <2>1 DEF Socks
    <3> HIDE DEF r
    <3> QED
      BY <1>0, <2>0, <2>1, <3>1, <3>2, ServerKeeps
  <2>2. ASSUME NEW q \in sock[a].todo, NEW x, x = <<"pull", q, a>>, queue[x] # <<>>,
               sock' = [sock EXCEPT ![a].pc = "send", ![a].queue = q, ![a].obj = Head(queue[x])],
               queue' = [queue EXCEPT ![x] = Tail(@)]
        PROVE  DataInv'
    <3> DEFINE r == [sock[a] EXCEPT !.pc = "send", !.queue = q, !.obj = Head(queue[x])]
    <3>1. x \in Modes \X Queues \X Ails /\ q \in Queues
      BY <1>0, <2>2 DEF Modes, Socks
    <3>2. /\ queue[x] \in Seq(Objs) /\ Head(queue[x]) \in Objs /\ Tail(queue[x]) \in Seq(Objs)
          /\ Len(Tail(queue[x])) <= Len(queue[x])
      BY <1>0, <2>2, <3>1, TailKeeps
    <3>3. Len(Tail(queue[x])) \in Nat /\ Len(queue[x]) \in Nat /\ MaxQueue \in Nat
      BY <3>2, LenProperties, SyncAssumption
    <3>4. Len(Tail(queue[x])) <= MaxQueue + 1
      BY <1>0, <3>1, <3>2, <3>3
    <3>5. sock' = [sock EXCEPT ![a] = r]
      BY <1>0, <2>2
    <3>6. r \in Socks /\ r.obj = Head(queue[x]) /\ r.queue = q
      BY <1>0, <2>2, <3>1, <3>2 DEF Socks
    <3>7. /\ queue' \in [Modes \X Queues \X Ails -> Seq(Objs)]
          /\ \A y \in DOMAIN queue' : Len(queue'[y]) <= MaxQueue + 1
      BY <1>0, <2>2, <3>1, <3>2, <3>4
    <3> HIDE DEF r
    <3> QED
      BY <1>0, <2>0, <3>1, <3>2, <3>5, <3>6, <3>7, ServerKeeps
  <2>3. CASE sock' = [sock EXCEPT ![a] = NoSock] /\ UNCHANGED queue
    BY <1>0, <2>0, <2>3, ServerKeeps
  <2> QED
    BY <1>2, <2>1, <2>2, <2>3 DEF PullPop
<1>3. CASE PullSend(a)
  <2> DEFINE r == [sock[a] EXCEPT !.pc = "loop", !.obj = None]
  <2>1. sock' = [sock EXCEPT ![a] = r] /\ UNCHANGED serverRest /\ UNCHANGED <<ctl, srvcmds, queue>>
    BY <1>0, <1>3 DEF PullSend
  <2>2. r \in Socks /\ r.pc = "loop"
    BY <1>0 DEF Socks
  <2> HIDE DEF r
  <2> QED
    BY <1>0, <2>1, <2>2, ServerKeeps
<1>4. CASE PullClosed(a)
  BY <1>0, <1>4, ServerKeeps DEF PullClosed
<1>5. CASE Controller(a)
  <2>1. ctl' \in BOOLEAN /\ srvcmds' \subseteq Ails /\ sock' = [sock EXCEPT ![a] = NoSock]
    BY <1>0, <1>5 DEF Controller
  <2> QED
    BY <1>0, <1>5, <2>1, ServerKeeps DEF Controller
<1> QED
  BY <1>1, <1>2, <1>3, <1>4, <1>5 DEF Server

LEMMA StutterData == DataInv /\ UNCHANGED vars => DataInv'
<1> SUFFICES ASSUME DataInv, UNCHANGED vars PROVE DataInv'
  OBVIOUS
<1> USE DEF DataInv, vars, conf, clock, control, server, data
<1>1. TypeOK'
  BY DEF TypeOK
<1>2. ManagerOK' /\ ClientsOK' /\ ServerOK'
  BY DEF ManagerOK, CommandOK, ClientsOK, ClientOK, ServerOK
<1> QED
  BY <1>1, <1>2

LEMMA NextData == DataInv /\ [Next]_vars => DataInv'
  BY AdminInstancesData, AdminQueuesData, ManagerData, TickData, SyncModuleData, ClientData,
     ReceiveData, ClosedData, ImportData, ServerData, StutterData
  DEF Next, Admin

\* Every variable keeps its type, whatever the administrator asks for and in whatever order
\* the processes run.
THEOREM TypeCorrect == Spec => []TypeOK
<1>1. Spec => []DataInv
  BY InitData, NextData, PTL DEF Spec
<1>2. DataInv => TypeOK
  BY DEF DataInv
<1> QED
  BY <1>1, <1>2, PTL

----------------------------------------------------------------------------
(***************************************************************************)
(* Where a copy that was put in a push list is.                            *)
(***************************************************************************)
WithClient(a, o) == \E i \in Ids : proc[i].ail = a /\ (proc[i].obj = o \/ In(o, wire[i]))
Beyond(a, o) == o \in importer \/ <<"push", o>> \in arrived \/ <<"push", a, o>> \in lost
Placed(a, o) == Waits("push", a, o) \/ WithClient(a, o) \/ Beyond(a, o)

\* An object that is put in no list has only to be followed.
LEMMA PlacedKeeps ==
  ASSUME PushAccounted, UNCHANGED accepted,
         \A a \in Ails, o \in Objs : Placed(a, o) => Placed(a, o)'
  PROVE  PushAccounted'
<1> USE DEF PushAccounted, Placed, WithClient, Beyond
<1> SUFFICES ASSUME NEW a \in Ails, NEW o \in Objs, <<"push", a, o>> \in accepted
             PROVE  Placed(a, o)'
  OBVIOUS
<1>1. Placed(a, o)
  BY Zenon
<1> HIDE DEF Placed
<1> QED
  BY <1>1

\* The steps that move no copy.
LEMMA QuietPlaced ==
  ASSUME PushAccounted, UNCHANGED <<accepted, queue, proc, wire, importer>>,
         arrived \subseteq arrived', lost \subseteq lost'
  PROVE  PushAccounted'
<1> SUFFICES ASSUME NEW a \in Ails, NEW o \in Objs PROVE Placed(a, o) => Placed(a, o)'
  BY PlacedKeeps
<1> QED
  BY DEF Placed, Waits, WithClient, Beyond

\* A client whose window is killed: what it had is lost.
LEMMA KilledPlaced ==
  ASSUME DataInv, PushAccounted, NEW i \in Ids, NEW p, proc' = [proc EXCEPT ![i] = p],
         wire' = [wire EXCEPT ![i] = <<>>], lost' = lost \cup OnWire(i) \cup InHand(i),
         UNCHANGED <<accepted, queue, importer, arrived>>
  PROVE  PushAccounted'
<1> SUFFICES ASSUME NEW a \in Ails, NEW o \in Objs, Placed(a, o) PROVE Placed(a, o)'
  BY PlacedKeeps
<1>1. CASE Waits("push", a, o) \/ Beyond(a, o)
  BY <1>1 DEF Placed, Waits, Beyond
<1>2. CASE WithClient(a, o)
  <2>1. PICK j \in Ids : proc[j].ail = a /\ (proc[j].obj = o \/ In(o, wire[j]))
    BY <1>2 DEF WithClient
  <2>2. CASE j = i
    <3>1. proc[i].obj = o => <<"push", a, o>> \in InHand(i)
      BY <2>1, <2>2, SyncAssumption DEF InHand
    <3>2. In(o, wire[i]) => <<"push", a, o>> \in OnWire(i)
      BY <2>1, <2>2 DEF In, OnWire
    <3> QED
      BY <2>1, <2>2, <3>1, <3>2 DEF Placed, Beyond
  <2>3. CASE j # i
    <3>1. proc'[j] = proc[j] /\ wire'[j] = wire[j]
      BY <2>3 DEF DataInv, TypeOK
    <3> QED
      BY <2>1, <3>1 DEF Placed, WithClient
  <2> QED
    BY <2>2, <2>3
<1> QED
  BY <1>1, <1>2 DEF Placed

\* LPUSH and LTRIM on a list: an object that waited there still does, or is lost.
LEMMA AddObjectKeeps ==
  ASSUME TypeOK, NEW x \in Modes \X Queues \X Ails, NEW o \in Objs, AddObject(x, o),
         Trimmed(x) \subseteq lost', NEW a \in Ails, NEW e \in Objs
  PROVE  /\ Waits("push", a, e) => Waits("push", a, e)' \/ <<"push", a, e>> \in lost'
         /\ x[1] = "push" /\ x[3] = a /\ o = e => Waits("push", a, e)'
<1>1. /\ queue' = [queue EXCEPT ![x] = Pushed(o, queue[x])]
      /\ In(o, Pushed(o, queue[x]))
      /\ \A k \in DOMAIN queue[x] : k > MaxQueue \/ In(queue[x][k], Pushed(o, queue[x]))
  BY AddObjectType, PushedProperties DEF TypeOK
<1>2. queue \in [Modes \X Queues \X Ails -> Seq(Objs)] /\ queue'[x] = Pushed(o, queue[x])
  BY <1>1 DEF TypeOK
<1>3. ASSUME Waits("push", a, e)
      PROVE  Waits("push", a, e)' \/ <<"push", a, e>> \in lost'
  <2>1. PICK q \in Queues : In(e, queue[<<"push", q, a>>])
    BY <1>3 DEF Waits
  <2>2. CASE x = <<"push", q, a>>
    <3>1. PICK k \in DOMAIN queue[x] : queue[x][k] = e
      BY <2>1, <2>2 DEF In
    <3>2. CASE k > MaxQueue
      <4>1. <<x[1], x[3], queue[x][k]>> \in Trimmed(x)
        BY <3>2 DEF Trimmed
      <4> QED
        BY <2>2, <3>1, <4>1
    <3>3. CASE In(e, Pushed(o, queue[x]))
      BY <1>2, <2>2, <3>3 DEF Waits
    <3> QED
      BY <1>1, <3>1, <3>2, <3>3
  <2>3. CASE x # <<"push", q, a>>
    <3>1. queue'[<<"push", q, a>>] = queue[<<"push", q, a>>]
      BY <1>1, <1>2, <2>3 DEF Modes
    <3> QED
      BY <2>1, <3>1 DEF Waits
  <2> QED
    BY <2>2, <2>3
<1>4. x[1] = "push" /\ x[3] = a /\ o = e => Waits("push", a, e)'
  <2> SUFFICES ASSUME x[1] = "push", x[3] = a, o = e PROVE Waits("push", a, e)'
    OBVIOUS
  <2>1. x[2] \in Queues /\ x = <<"push", x[2], a>>
    OBVIOUS
  <2> QED
    BY <1>1, <1>2, <2>1 DEF Waits
<1> QED
  BY <1>3, <1>4

\* LPOP of a list: the others stay.
LEMMA PopKeeps ==
  ASSUME TypeOK, NEW x \in Modes \X Queues \X Ails, queue[x] # <<>>,
         queue' = [queue EXCEPT ![x] = Tail(@)],
         NEW a \in Ails, NEW o \in Objs, Waits("push", a, o)
  PROVE  Waits("push", a, o)' \/ (x[1] = "push" /\ x[3] = a /\ Head(queue[x]) = o)
<1>1. queue \in [Modes \X Queues \X Ails -> Seq(Objs)] /\ queue[x] \in Seq(Objs)
  BY DEF TypeOK
<1>2. PICK q \in Queues : In(o, queue[<<"push", q, a>>])
  BY DEF Waits
<1>3. CASE x = <<"push", q, a>>
  <2>1. o = Head(queue[x]) \/ In(o, Tail(queue[x]))
    BY <1>1, <1>2, <1>3, TailKeeps
  <2>2. queue'[x] = Tail(queue[x])
    BY <1>1
  <2> QED
    BY <1>3, <2>1, <2>2 DEF Waits
<1>4. CASE x # <<"push", q, a>>
  <2>1. queue'[<<"push", q, a>>] = queue[<<"push", q, a>>]
    BY <1>1, <1>4 DEF Modes
  <2> QED
    BY <1>2, <2>1 DEF Waits
<1> QED
  BY <1>3, <1>4

LEMMA SyncAddPlaced == ASSUME DataInv, PushAccounted, SyncAdd PROVE PushAccounted'
<1>1. PICK x \in sm.todo : /\ AddObject(x, sm.obj)
                           /\ lost' = lost \cup Trimmed(x)
                           /\ accepted' = accepted \cup {<<x[1], x[3], sm.obj>>}
  BY DEF SyncAdd
<1>2. /\ TypeOK /\ x \in Modes \X Queues \X Ails /\ sm.obj \in Objs
      /\ UNCHANGED <<proc, wire, importer, arrived>>
  BY DEF DataInv, TypeOK, ServerOK, SyncAdd, others
<1> SUFFICES ASSUME NEW a \in Ails, NEW o \in Objs, <<"push", a, o>> \in accepted'
             PROVE  Placed(a, o)'
  BY DEF PushAccounted, Placed, WithClient, Beyond
<1>3. CASE <<"push", a, o>> \in accepted
  <2>1. Placed(a, o)
    BY <1>3 DEF PushAccounted, Placed, WithClient, Beyond
  <2>2. Waits("push", a, o) => Waits("push", a, o)' \/ <<"push", a, o>> \in lost'
    BY <1>1, <1>2, AddObjectKeeps
  <2>3. WithClient(a, o) \/ Beyond(a, o) => (WithClient(a, o) \/ Beyond(a, o))'
    BY <1>1, <1>2 DEF WithClient, Beyond
  <2> QED
    BY <2>1, <2>2, <2>3 DEF Placed, Beyond
<1>4. CASE <<"push", a, o>> = <<x[1], x[3], sm.obj>>
  <2>1. Waits("push", a, o)'
    BY <1>1, <1>2, <1>4, AddObjectKeeps
  <2> QED
    BY <2>1 DEF Placed
<1> QED
  BY <1>1, <1>3, <1>4

LEMMA ManagerPlaced == ASSUME DataInv, PushAccounted, Manager PROVE PushAccounted'
<1>1. CASE PopCommand \/ CacheClient
  BY <1>1, QuietPlaced DEF PopCommand, CacheClient, data
<1>2. CASE KillClient
  <2>1. mgr.id \in Ids /\ UNCHANGED <<accepted, queue, importer, arrived>>
    BY <1>2 DEF KillClient, DataInv, ManagerOK
  <2>2. \/ UNCHANGED <<proc, wire, lost>>
        \/ /\ proc' = [proc EXCEPT ![mgr.id] = NoProc] /\ wire' = [wire EXCEPT ![mgr.id] = <<>>]
           /\ lost' = lost \cup OnWire(mgr.id) \cup InHand(mgr.id)
    BY <1>2 DEF KillClient
  <2> QED
    BY <2>1, <2>2, QuietPlaced, KilledPlaced
<1>3. CASE LaunchWindow
  <2>1. PICK i \in Ids :
          /\ lost' = lost \cup OnWire(i) \cup InHand(i)
          /\ wire' = [wire EXCEPT ![i] = <<>>]
          /\ proc' = [proc EXCEPT ![i] = [NoProc EXCEPT !.pc = "start", !.ail = mgr.ail]]
    BY <1>3 DEF LaunchWindow
  <2> QED
    BY <1>3, <2>1, KilledPlaced DEF LaunchWindow
<1> QED
  BY <1>1, <1>2, <1>3 DEF Manager

\* The steps of a client that leave the lists alone.
LEMMA ClientPlacedKeeps ==
  ASSUME PushAccounted, NEW i \in Ids, UNCHANGED <<accepted, queue, arrived>>,
         importer \subseteq importer', lost \subseteq lost',
         \A j \in Ids \ {i} : proc'[j] = proc[j] /\ wire'[j] = wire[j],
         \A a \in Ails, o \in Objs :
            proc[i].ail = a /\ (proc[i].obj = o \/ In(o, wire[i])) => Placed(a, o)'
  PROVE  PushAccounted'
<1> SUFFICES ASSUME NEW a \in Ails, NEW o \in Objs, Placed(a, o) PROVE Placed(a, o)'
  BY PlacedKeeps
<1>1. CASE Waits("push", a, o) \/ Beyond(a, o)
  BY <1>1 DEF Placed, Waits, Beyond
<1>2. CASE WithClient(a, o)
  BY <1>2 DEF WithClient, Placed
<1> QED
  BY <1>1, <1>2 DEF Placed

LEMMA ClientPlaced ==
  ASSUME DataInv, PushAccounted, NEW i \in Ids, Client(i)
  PROVE  PushAccounted'
<1>0. /\ TypeOK /\ ClientOK(i) /\ proc[i] \in Procs /\ wire[i] \in Seq(Objs)
      /\ proc \in [Ids -> Procs] /\ wire \in [Ids -> Seq(Objs)] /\ None \notin Objs
  BY SyncAssumption DEF DataInv, TypeOK, ClientsOK, Procs
<1>a. \A o : ~In(o, <<>>)
  BY EmptySeq DEF In
<1>1. CASE ClientStart(i) \/ ClientExit(i)
  <2>1. /\ UNCHANGED <<accepted, queue, arrived, importer, lost, wire>>
        /\ wire[i] = <<>> /\ proc[i].obj = None
    BY <1>0, <1>1 DEF ClientStart, ClientExit, ClientOK, clientRest
  <2>2. \A j \in Ids \ {i} : proc'[j] = proc[j]
    BY <1>0, <1>1, SetProcType DEF ClientStart, ClientExit
  <2> QED
    BY <1>0, <1>a, <2>1, <2>2, ClientPlacedKeeps
<1>2. CASE ClientPop(i)
  <2>1. PICK q \in Queues :
          LET x == <<"push", q, proc[i].ail>> IN
          /\ queue[x] # <<>>
          /\ queue' = [queue EXCEPT ![x] = Tail(@)]
          /\ proc' = [proc EXCEPT ![i].pc = "send", ![i].obj = Head(queue[x]), ![i].queue = q]
    BY <1>2 DEF ClientPop
  <2> DEFINE x == <<"push", q, proc[i].ail>>
  <2>2. /\ UNCHANGED <<accepted, arrived, importer, lost, wire>> /\ proc[i].pc = "loop" /\ proc[i].obj = None
        /\ proc[i].ail \in Ails /\ x \in Modes \X Queues \X Ails
    BY <1>0, <1>2 DEF ClientPop, ClientOK, clientRest, Modes
  <2>3. proc'[i].obj = Head(queue[x]) /\ proc'[i].ail = proc[i].ail
    BY <1>0, <2>1 DEF Procs
  <2>4. \A j \in Ids \ {i} : proc'[j] = proc[j]
    BY <1>0, <2>1
  <2> SUFFICES ASSUME NEW a \in Ails, NEW o \in Objs, Placed(a, o) PROVE Placed(a, o)'
    BY <2>2, PlacedKeeps
  <2>5. CASE Waits("push", a, o)
    <3>1. Waits("push", a, o)' \/ (x[1] = "push" /\ x[3] = a /\ Head(queue[x]) = o)
      BY <1>0, <2>1, <2>2, <2>5, PopKeeps
    <3>2. CASE x[3] = a /\ Head(queue[x]) = o
      BY <2>3, <3>2 DEF Placed, WithClient
    <3> QED
      BY <3>1, <3>2 DEF Placed
  <2>6. CASE WithClient(a, o)
    <3>1. PICK j \in Ids : proc[j].ail = a /\ (proc[j].obj = o \/ In(o, wire[j]))
      BY <2>6 DEF WithClient
    <3>2. proc'[j].ail = a /\ (proc'[j].obj = o \/ In(o, wire'[j]))
      BY <1>0, <2>2, <2>3, <2>4, <3>1
    <3> QED
      BY <3>2 DEF Placed, WithClient
  <2>7. CASE Beyond(a, o)
    BY <2>2, <2>7 DEF Placed, Beyond
  <2> QED
    BY <2>5, <2>6, <2>7 DEF Placed
<1>3. CASE ClientSend(i)
  <2>1. /\ UNCHANGED <<accepted, queue, arrived, importer, lost>> /\ SetProc(i, "loop")
        /\ wire' = [wire EXCEPT ![i] = Append(wire[i], proc[i].obj)] /\ proc[i].obj \in Objs
    BY <1>0, <1>3 DEF ClientSend, clientRest, ClientOK
  <2>2. /\ \A j \in Ids \ {i} : proc'[j] = proc[j] /\ wire'[j] = wire[j]
        /\ proc'[i].ail = proc[i].ail
        /\ In(proc[i].obj, wire'[i]) /\ \A o : In(o, wire[i]) => In(o, wire'[i])
    <3>1. \A j \in Ids \ {i} : proc'[j] = proc[j] /\ wire'[j] = wire[j]
      BY <1>0, <2>1, SetProcType
    <3>2. proc'[i].ail = proc[i].ail
      <4>1. proc'[i] = [pc |-> "loop", ail |-> proc[i].ail, obj |-> None, queue |-> None]
        BY <1>0, <2>1, SetProcType
      <4> QED
        BY <4>1
    <3>3. wire'[i] = Append(wire[i], proc[i].obj)
      BY <1>0, <2>1
    <3> QED
      BY <1>0, <2>1, <3>1, <3>2, <3>3, AppendKeeps
  <2>3. \A a \in Ails, o \in Objs :
          proc[i].ail = a /\ (proc[i].obj = o \/ In(o, wire[i])) => Placed(a, o)'
    BY <2>2 DEF Placed, WithClient
  <2> QED
    BY <2>1, <2>2, <2>3, ClientPlacedKeeps
<1> QED
  BY <1>1, <1>2, <1>3 DEF Client

LEMMA ReceivePlaced ==
  ASSUME DataInv, PushAccounted, NEW i \in Ids, ServerReceive(i)
  PROVE  PushAccounted'
<1>1. /\ UNCHANGED <<accepted, queue, arrived, lost, proc>>
      /\ wire \in [Ids -> Seq(Objs)] /\ wire[i] # <<>>
      /\ wire' = [wire EXCEPT ![i] = Tail(@)] /\ importer' = importer \cup {Head(wire[i])}
  BY DEF ServerReceive, DataInv, TypeOK, clientRest
<1>2. \A o : In(o, wire[i]) => o = Head(wire[i]) \/ In(o, wire'[i])
  BY <1>1, TailKeeps
<1>3. \A j \in Ids \ {i} : proc'[j] = proc[j] /\ wire'[j] = wire[j]
  BY <1>1
<1>4. \A a \in Ails, o \in Objs :
        proc[i].ail = a /\ (proc[i].obj = o \/ In(o, wire[i])) => Placed(a, o)'
  BY <1>1, <1>2 DEF Placed, WithClient, Beyond
<1> QED
  BY <1>1, <1>3, <1>4, ClientPlacedKeeps

LEMMA ClosedPlaced ==
  ASSUME DataInv, PushAccounted, NEW i \in Ids, NEW normal \in BOOLEAN, ClientClosed(i, normal)
  PROVE  PushAccounted'
<1>0. /\ TypeOK /\ ClientOK(i) /\ proc \in [Ids -> Procs] /\ proc[i] \in Procs
      /\ UNCHANGED <<accepted, arrived>> /\ SetProc(i, "exit") /\ wire' = [wire EXCEPT ![i] = <<>>]
      /\ proc[i].ail \in Ails
  BY DEF DataInv, TypeOK, ClientsOK, ClientOK, Procs, ClientClosed, clientRest
<1>1. \A j \in Ids \ {i} : proc'[j] = proc[j] /\ wire'[j] = wire[j]
  BY <1>0, SetProcType DEF TypeOK
<1>a. \A o : In(o, wire[i]) => <<"push", proc[i].ail, o>> \in OnWire(i)
  BY DEF In, OnWire
<1>2. CASE proc[i].obj = None \/ normal
  <2>1. lost' = lost \cup OnWire(i) \cup InHand(i) /\ UNCHANGED <<queue, importer>>
    BY <1>2 DEF ClientClosed
  <2>2. \A a \in Ails, o \in Objs :
          proc[i].ail = a /\ (proc[i].obj = o \/ In(o, wire[i])) => Placed(a, o)'
    <3> SUFFICES ASSUME NEW o \in Objs, proc[i].obj = o \/ In(o, wire[i])
                 PROVE  <<"push", proc[i].ail, o>> \in lost'
      BY DEF Placed, Beyond
    <3>1. CASE proc[i].obj = o
      BY <2>1, <3>1, SyncAssumption DEF InHand
    <3> QED
      BY <1>a, <2>1, <3>1
  <2> QED
    BY <1>0, <1>1, <2>1, <2>2, ClientPlacedKeeps
<1>3. CASE ~(proc[i].obj = None \/ normal)
  <2> DEFINE x == <<"push", proc[i].queue, proc[i].ail>>
  <2>1. /\ AddObject(x, proc[i].obj) /\ importer' \in {importer, importer \cup {proc[i].obj}}
        /\ lost' = lost \cup OnWire(i) \cup Trimmed(x)
    BY <1>0, <1>3 DEF ClientClosed, Resend
  <2>2. x \in Modes \X Queues \X Ails /\ proc[i].obj \in Objs
    BY <1>0, <1>3 DEF ClientOK, Modes
  <2> SUFFICES ASSUME NEW a \in Ails, NEW o \in Objs, Placed(a, o) PROVE Placed(a, o)'
    BY <1>0, PlacedKeeps
  <2>3. CASE Waits("push", a, o)
    <3>1. Waits("push", a, o)' \/ <<"push", a, o>> \in lost'
      BY <1>0, <2>1, <2>2, <2>3, AddObjectKeeps
    <3> QED
      BY <3>1 DEF Placed, Beyond
  <2>4. CASE WithClient(a, o)
    <3>1. PICK j \in Ids : proc[j].ail = a /\ (proc[j].obj = o \/ In(o, wire[j]))
      BY <2>4 DEF WithClient
    <3>2. CASE j # i
      BY <1>1, <3>1, <3>2 DEF Placed, WithClient
    <3>3. CASE j = i /\ In(o, wire[i])
      BY <1>a, <2>1, <3>1, <3>3 DEF Placed, Beyond
    <3>4. CASE j = i /\ proc[i].obj = o
      <4>1. x[1] = "push" /\ x[3] = a
        BY <3>1, <3>4
      <4>2. Waits("push", a, o)'
        BY <1>0, <2>1, <2>2, <3>4, <4>1, AddObjectKeeps
      <4> QED
        BY <4>2 DEF Placed
    <3> QED
      BY <3>1, <3>2, <3>3, <3>4
  <2>5. CASE Beyond(a, o)
    BY <1>0, <2>1, <2>5 DEF Placed, Beyond
  <2> QED
    BY <2>3, <2>4, <2>5 DEF Placed
<1> QED
  BY <1>2, <1>3

LEMMA ImportPlaced == ASSUME PushAccounted, NEW e \in Objs, Import(e) PROVE PushAccounted'
<1>1. UNCHANGED <<accepted, queue, proc, wire, lost>>
      /\ importer' = importer \ {e} /\ arrived' = arrived \cup {<<"push", e>>}
  BY DEF Import, clientRest
<1> SUFFICES ASSUME NEW a \in Ails, NEW o \in Objs, Placed(a, o) PROVE Placed(a, o)'
  BY <1>1, PlacedKeeps
<1> QED
  BY <1>1 DEF Placed, Waits, WithClient, Beyond

LEMMA ServerPlaced ==
  ASSUME DataInv, PushAccounted, NEW a \in Ails, Server(a) \/ PullClosed(a) \/ Controller(a)
  PROVE  PushAccounted'
<1>1. CASE PullConnect(a) \/ PullSend(a) \/ PullClosed(a) \/ Controller(a)
  BY <1>1, QuietPlaced DEF PullConnect, PullSend, PullClosed, Controller, serverRest
<1>2. CASE PullPop(a)
  <2>1. UNCHANGED <<accepted, proc, wire, importer, arrived, lost>> /\ TypeOK /\ sock[a] \in Socks
    BY <1>2 DEF PullPop, serverRest, DataInv, TypeOK, Socks
  <2>2. CASE UNCHANGED queue
    BY <2>1, <2>2, QuietPlaced
  <2>3. CASE ~UNCHANGED queue
    <3>1. PICK q \in sock[a].todo :
            queue[<<"pull", q, a>>] # <<>> /\ queue' = [queue EXCEPT ![<<"pull", q, a>>] = Tail(@)]
      BY <1>2, <2>3 DEF PullPop
    <3>2. \A p, b : queue'[<<"push", p, b>>] = queue[<<"push", p, b>>]
      BY <2>1, <3>1 DEF TypeOK
    <3> SUFFICES ASSUME NEW b \in Ails, NEW o \in Objs, Placed(b, o) PROVE Placed(b, o)'
      BY <2>1, PlacedKeeps
    <3> QED
      BY <2>1, <3>2 DEF Placed, Waits, WithClient, Beyond
  <2> QED
    BY <2>2, <2>3
<1> QED
  BY <1>1, <1>2 DEF Server

LEMMA AdminRequests == AdminInstances \/ AdminQueues => Request
<1>1. \A a, push, pull : CreateInstance(a, push, pull) => Request
  BY DEF CreateInstance
<1>2. \A a, push, pull, url, key : EditInstance(a, push, pull, url, key) => Request
  BY DEF EditInstance
<1>3. \A a : DeleteInstance(a) \/ KillConnected(a) => Request
  BY DEF DeleteInstance, KillConnected
<1>4. \A a, c : CommandClient(a, c) => Request
  BY DEF CommandClient
<1>5. \A a, q : Register(q, a) \/ Unregister(q, a) => Request
  BY DEF Register, Unregister
<1>6. \A q, f : CreateQueue(q, f) \/ EditQueue(q, f) => Request
  BY DEF CreateQueue, EditQueue
<1>7. \A q : DeleteQueue(q) => Request
  BY DEF DeleteQueue
<1> QED
  BY <1>1, <1>2, <1>3, <1>4, <1>5, <1>6, <1>7 DEF AdminInstances, AdminQueues

LEMMA NextPlaced == DataInv /\ PushAccounted /\ [Next]_vars => PushAccounted'
<1> SUFFICES ASSUME DataInv, PushAccounted, [Next]_vars PROVE PushAccounted'
  OBVIOUS
<1>1. CASE AdminInstances \/ AdminQueues
  <2>1. Request
    BY <1>1, AdminRequests
  <2>2. UNCHANGED data /\ UNCHANGED proc
    BY <2>1 DEF Request
  <2> QED
    BY <2>2, QuietPlaced DEF data
<1>2. CASE Tick \/ (\E o \in Objs : SyncPop(o)) \/ SyncRefresh \/ SyncFilter
  <2>1. UNCHANGED others /\ UNCHANGED <<accepted, queue, lost>>
    <3>1. CASE Tick \/ SyncRefresh \/ SyncFilter
      BY <3>1 DEF Tick, SyncRefresh, SyncFilter
    <3>2. ASSUME NEW o \in Objs, SyncPop(o)
          PROVE  UNCHANGED others /\ UNCHANGED <<accepted, queue, lost>>
      BY <3>2 DEF SyncPop
    <3> QED
      BY <1>2, <3>1, <3>2
  <2>2. UNCHANGED <<proc, wire, importer, arrived>>
    BY <2>1 DEF others
  <2> QED
    BY <2>1, <2>2, QuietPlaced
<1>3. CASE UNCHANGED vars
  BY <1>3, QuietPlaced DEF vars, data
<1> QED
  BY <1>1, <1>2, <1>3, SyncAddPlaced, ManagerPlaced, ClientPlaced, ReceivePlaced, ClosedPlaced, ImportPlaced,
     ServerPlaced
  DEF Next, Admin, SyncModule

\* An object that was put in the push list of an instance waits there, is in the hand of its
\* client, on the wire, with the importer of the other side or beyond, or is one that the
\* code gives up, through any number of edits, kills, relaunches and broken connections.
THEOREM PushCorrect == Spec => []PushAccounted
<1>1. Init => PushAccounted
  BY DEF Init, PushAccounted
<1>2. Spec => [](DataInv /\ PushAccounted)
  BY <1>1, InitData, NextData, NextPlaced, PTL DEF Spec
<1> QED
  BY <1>2, PTL

----------------------------------------------------------------------------
(***************************************************************************)
(* The copy of the configuration.                                          *)
(***************************************************************************)
LEMMA SameDict ==
  ASSUME UNCHANGED reg, UNCHANGED filter,
         \A x \in reg : inst'[x[2]].push = inst[x[2]].push /\ inst'[x[2]].pull = inst[x[2]].pull
  PROVE  UNCHANGED SyncQueueDict
<1> DEFINE links == {y \in reg : filter[y[1]] # None /\ (inst[y[2]].push \/ inst[y[2]].pull)}
           entry(x) == [filter |-> filter[x[1]], push |-> inst[x[2]].push, pull |-> inst[x[2]].pull]
<1>1. links' = links
  OBVIOUS
<1>2. \A x \in links : entry(x)' = entry(x)
  OBVIOUS
<1>3. SyncQueueDict = [x \in links |-> entry(x)] /\ SyncQueueDict' = [x \in links' |-> entry(x)']
  BY DEF SyncQueueDict
<1> HIDE DEF links, entry
<1> QED
  BY <1>1, <1>2, <1>3

LEMMA AdminSeen ==
  ASSUME TypeOK, ConfigSeen, AdminInstances \/ AdminQueues
  PROVE  ConfigSeen'
<1>1. Request
  BY AdminRequests
<1>2. UNCHANGED sm
  BY <1>1 DEF Request, data
<1>3. CASE SetLastUpdated
  BY <1>2, <1>3 DEF SetLastUpdated, ConfigSeen
<1>4. CASE UNCHANGED <<pend, missed, SyncQueueDict>>
  BY <1>2, <1>4 DEF ConfigSeen
<1>5. SetLastUpdated \/ UNCHANGED <<pend, missed, SyncQueueDict>>
  <2>1. ASSUME NEW a \in Ails, NEW push \in BOOLEAN, NEW pull \in BOOLEAN,
               NEW url \in BOOLEAN, NEW key \in BOOLEAN, EditInstance(a, push, pull, url, key)
        PROVE  SetLastUpdated \/ UNCHANGED <<pend, missed, SyncQueueDict>>
    <3> DEFINE new == [inst[a] EXCEPT !.push = push, !.pull = pull, !.key = @ /\ ~key]
    <3>1. CASE push = inst[a].push /\ pull = inst[a].pull
      <4>1. UNCHANGED <<filter, reg, pend, missed>>
        BY <2>1, <3>1 DEF EditInstance, clock
      <4>2. inst' = [inst EXCEPT ![a] = new] /\ new.push = inst[a].push /\ new.pull = inst[a].pull
        <5>1. ConfOK
          BY DEF TypeOK, ConfOK
        <5>2. inst' = [inst EXCEPT ![a] = new]
          BY <2>1, <5>1 DEF EditInstance, ConfOK
        <5>3. new.push = push /\ new.pull = pull
          BY <5>1 DEF ConfOK
        <5> QED
          BY <3>1, <5>2, <5>3
      <4> HIDE DEF new
      <4>3. \A x \in reg : inst'[x[2]].push = inst[x[2]].push /\ inst'[x[2]].pull = inst[x[2]].pull
        BY <4>2 DEF TypeOK
      <4> QED
        BY <4>1, <4>3, SameDict
    <3>2. CASE ~(push = inst[a].push /\ pull = inst[a].pull)
      BY <2>1, <3>2 DEF EditInstance
    <3> QED
      BY <3>1, <3>2
  <2>2. ASSUME NEW a \in Ails, NEW c \in {"launch", "kill", "relaunch"}, CommandClient(a, c) \/ KillConnected(a)
        PROVE  UNCHANGED <<pend, missed, SyncQueueDict>>
    BY <2>2, SameDict DEF CommandClient, KillConnected, conf, clock
  <2>3. \A a \in Ails : KillConnected(a) => UNCHANGED <<pend, missed, SyncQueueDict>>
    BY <2>2
  <2>4. \A a, push, pull : CreateInstance(a, push, pull) => SetLastUpdated
    BY DEF CreateInstance
  <2>5. \A a, q : DeleteInstance(a) \/ Register(q, a) \/ Unregister(q, a) => SetLastUpdated
    BY DEF DeleteInstance, Register, Unregister
  <2>6. \A q, f : CreateQueue(q, f) \/ EditQueue(q, f) \/ DeleteQueue(q) => SetLastUpdated
    BY DEF CreateQueue, EditQueue, DeleteQueue
  <2> QED
    BY <2>1, <2>2, <2>3, <2>4, <2>5, <2>6 DEF AdminInstances, AdminQueues
<1> QED
  BY <1>3, <1>4, <1>5

LEMMA NextSeen ==
  ASSUME TypeOK, ConfigSeen, [Next]_vars
  PROVE  ConfigSeen'
<1>1. CASE AdminInstances \/ AdminQueues
  BY <1>1, AdminSeen
<1>a. UNCHANGED conf => UNCHANGED SyncQueueDict
  BY SameDict DEF conf
<1>2. CASE UNCHANGED conf /\ UNCHANGED <<pend, missed, sm>>
  BY <1>2, <1>a DEF ConfigSeen
<1>3. ASSUME NEW o \in Objs, SyncPop(o)
      PROVE  ConfigSeen'
  <2>1. UNCHANGED SyncQueueDict
    BY <1>3, <1>a DEF SyncPop, others
  <2>a. UNCHANGED missed
    BY <1>3 DEF SyncPop
  <2>2. sm.pc = "idle" /\ sm'.dict = sm.dict /\ sm'.pc = IF pend THEN "refresh" ELSE "filter"
    BY <1>3 DEF SyncPop, TypeOK
  <2> QED
    BY <2>1, <2>a, <2>2 DEF ConfigSeen
<1>4. CASE SyncRefresh
  BY <1>4, <1>a DEF SyncRefresh, others, ConfigSeen, TypeOK
<1>5. CASE SyncFilter \/ SyncAdd
  <2>1. UNCHANGED <<pend, missed, SyncQueueDict>>
    BY <1>5, <1>a DEF SyncFilter, SyncAdd, others, clock
  <2>2. \A todo : SyncNext(todo) => sm'.dict = sm.dict
    BY DEF SyncNext, TypeOK
  <2>3. sm.pc # "refresh"
    BY <1>5 DEF SyncFilter, SyncAdd
  <2>4. \E todo : SyncNext(todo)
    <3>1. CASE SyncFilter
      BY <3>1 DEF SyncFilter
    <3>2. CASE SyncAdd
      BY <3>2 DEF SyncAdd
    <3> QED
      BY <1>5, <3>1, <3>2
  <2> QED
    BY <2>1, <2>2, <2>3, <2>4 DEF ConfigSeen
<1>6. CASE UNCHANGED vars
  BY <1>2, <1>6 DEF vars, data, clock
<1>7. CASE Manager
  BY <1>2, <1>7 DEF Manager, PopCommand, KillClient, LaunchWindow, CacheClient, clock, data
<1>8. CASE Tick
  BY <1>2, <1>8 DEF Tick, others
<1>9. ASSUME NEW i \in Ids, NEW o, NEW normal,
             Client(i) \/ ServerReceive(i) \/ ClientClosed(i, normal) \/ Import(o)
      PROVE  ConfigSeen'
  <2>1. UNCHANGED clientRest
    BY <1>9 DEF Client, ClientStart, ClientPop, ClientSend, ClientExit, ServerReceive, ClientClosed, Import
  <2> QED
    BY <1>2, <2>1 DEF clientRest, clock
<1>10. ASSUME NEW a \in Ails, Server(a) \/ PullClosed(a) \/ Controller(a)
       PROVE  ConfigSeen'
  <2>1. UNCHANGED serverRest
    BY <1>10 DEF Server, PullConnect, PullPop, PullSend, PullClosed, Controller
  <2> QED
    BY <1>2, <2>1 DEF serverRest, clock
<1>11. ASSUME NEW o \in Objs, Import(o)
       PROVE  ConfigSeen'
  BY <1>2, <1>11 DEF Import, clientRest, clock
<1> QED
  BY <1>1, <1>3, <1>4, <1>5, <1>6, <1>7, <1>8, <1>9, <1>10, <1>11 DEF Next, Admin, SyncModule

\* Sync_module's copy is the configuration or will be read again before the next object, or
\* there was a change in the second of a refresh, of which set_last_updated_sync_config keeps
\* the whole second only, since it was read.
THEOREM ConfigCorrect == Spec => []ConfigSeen
<1>1. Init => ConfigSeen
  BY DEF Init, ConfigSeen
<1>2. TypeOK /\ ConfigSeen /\ [Next]_vars => ConfigSeen'
  BY NextSeen
<1> QED
  BY <1>1, <1>2, TypeCorrect, PTL DEF Spec

----------------------------------------------------------------------------
(***************************************************************************)
(* Commands, manager and clients, until a request is about an instance of  *)
(* which a command is pending.  An instance is the target of one command   *)
(* at most, in the set or in the hand of the manager; a client in the      *)
(* cache is in the table of the manager; an instance that has one gets no  *)
(* launch; and one that has a client, or is about to get one, is enabled,  *)
(* or is about to lose it, or was launched by hand.                        *)
(***************************************************************************)
OneCommand ==
  /\ \A c \in cmds : Target(c) \in Ails
  /\ \A c, d \in cmds : Target(c) = Target(d) => c = d
  /\ Busy => MgrTarget \in Ails /\ \A c \in cmds : Target(c) # MgrTarget
  /\ mgr.pc # "dead"

OneCached ==
  /\ \A i, j \in Ids : cached[i] # None /\ cached[i] = cached[j] => i = j
  /\ \A i \in Ids : cached[i] # None => mgr.clients[i] = cached[i]
  /\ mgr.pc = "cache" => mgr.clients[mgr.id] = None
  /\ \A i \in Ids : proc[i].pc # "none" =>
        \/ cached[i] = proc[i].ail
        \/ mgr.pc = "cache" /\ mgr.id = i /\ mgr.ail = proc[i].ail

OneLaunch ==
  /\ \A c \in cmds, j \in Ids : cached[j] = Target(c) => c.command # "launch" /\ j = c.id
  /\ \A j \in Ids : Busy /\ cached[j] = MgrTarget => mgr.pc \in {"kill", "relaunch"} /\ j = mgr.id

Live(a) ==
  \/ \E i \in Ids : cached[i] = a
  \/ \E c \in cmds : c.command # "kill" /\ Target(c) = a
  \/ Busy /\ mgr.pc # "kill" /\ MgrTarget = a
Killed(a) == (\E c \in cmds : c.command = "kill" /\ Target(c) = a) \/ (mgr.pc = "kill" /\ MgrTarget = a)
NoStray == \A a \in Ails \ forced : Live(a) => Required(a) \/ Killed(a)

Control == OneCommand /\ OneCached /\ OneLaunch /\ NoStray
ControlInv == raced = {} => Control

LEMMA InitControl == Init => ControlInv
<1> SUFFICES ASSUME Init PROVE ControlInv
  OBVIOUS
<1>1. /\ mgr.pc = "idle" /\ mgr.clients = [i \in Ids |-> None]
      /\ \A i \in Ids : cached[i] = None /\ proc[i].pc = "none"
      /\ None \notin Ails
  BY SyncAssumption DEF Init, NoProc
<1>2. CASE Empty
  BY <1>1, <1>2
  DEF Empty, ControlInv, Control, OneCommand, OneCached, OneLaunch, NoStray, Live, Busy
<1>3. CASE Configured
  <2>1. \A c \in cmds : c.command = "launch" /\ Target(c) = c.ail /\ c.ail \in Ails /\ Linked(reg, c.ail)
    <3>1. ASSUME NEW a \in {b \in Ails : Linked(reg, b)}, NEW c, c = Command("launch", None, a)
          PROVE  c.command = "launch" /\ Target(c) = c.ail /\ c.ail \in Ails /\ Linked(reg, c.ail)
      BY <3>1 DEF Command, Target
    <3>2. cmds = {Command("launch", None, a) : a \in {b \in Ails : Linked(reg, b)}}
      BY <1>3 DEF Configured
    <3> QED
      BY <3>1, <3>2
  <2>2. \A c, d \in cmds : c.ail = d.ail => c = d
    BY <1>3 DEF Configured, Command
  <2>4. \A a \in Ails : inst[a].push
    BY <1>3 DEF Configured
  <2>5. OneCommand /\ OneCached /\ OneLaunch
    BY <1>1, <2>1, <2>2 DEF OneCommand, OneCached, OneLaunch, Busy
  <2>6. NoStray
    BY <1>1, <2>1, <2>4 DEF NoStray, Required, Live, Busy
  <2> QED
    BY <2>5, <2>6 DEF ControlInv, Control
<1> QED
  BY <1>2, <1>3 DEF Init

LEMMA QuietControl ==
  ASSUME ControlInv, UNCHANGED <<inst, reg, cmds, cached, mgr, proc, raced, forced>>
  PROVE  ControlInv'
  BY DEF ControlInv, Control, OneCommand, OneCached, OneLaunch, NoStray, Live, Killed,
         Required, Busy, MgrTarget, Target

\* A command is added for an instance of which none is pending.
LEMMA CommandAdded ==
  ASSUME DataInv, Control, Request, NEW a \in Ails, ~Pending(a), forced \subseteq forced',
         \A b \in Ails \ {a} : Required(b) => Required(b)',
         NEW c, cmds' = cmds \cup {c}, Target(c) = a,
         c.command # "kill" => Required(a)' \/ a \in forced',
         \A j \in Ids : cached[j] = a => c.command # "launch" /\ j = c.id
  PROVE  Control'
<1>1. /\ UNCHANGED <<cached, mgr, proc>>
      /\ OneCommand /\ OneCached /\ OneLaunch /\ NoStray
  BY DEF Request, Control
<1>2. Busy' = Busy /\ MgrTarget' = MgrTarget /\ \A d : Target(d)' = Target(d)
  BY <1>1 DEF Busy, MgrTarget, Target
<1>3. (\A d \in cmds : Target(d) # a) /\ (Busy => MgrTarget # a)
  BY DEF Pending
<1>4. OneCommand'
  BY <1>1, <1>2, <1>3 DEF OneCommand
<1>5. OneCached'
  BY <1>1 DEF OneCached
<1>6. OneLaunch'
  BY <1>1, <1>2, <1>3 DEF OneLaunch
<1>7. NoStray'
  <2> SUFFICES ASSUME NEW b \in Ails \ forced', Live(b)' PROVE Required(b)' \/ Killed(b)'
    BY DEF NoStray
  <2>1. CASE b = a
    BY <1>2, <2>1 DEF Killed
  <2>2. CASE b # a
    <3>1. Live(b)
      BY <1>1, <1>2, <2>2 DEF Live
    <3>2. Required(b) \/ Killed(b)
      BY <1>1, <3>1 DEF NoStray
    <3>3. Killed(b) => Killed(b)'
      BY <1>1, <1>2 DEF Killed
    <3> QED
      BY <2>2, <3>2, <3>3
  <2> QED
    BY <2>1, <2>2
<1> QED
  BY <1>4, <1>5, <1>6, <1>7 DEF Control

\* No command is added, and no instance of those that have a client, or are about to get
\* one, is less required than it was.
LEMMA CommandNotAdded ==
  ASSUME DataInv, Control, Request, UNCHANGED <<cmds, forced>>,
         \A b \in Ails : Live(b) /\ Required(b) => Required(b)'
  PROVE  Control'
<1>1. /\ UNCHANGED <<cached, mgr, proc>>
      /\ OneCommand /\ OneCached /\ OneLaunch /\ NoStray
  BY DEF Request, Control
<1>2. Busy' = Busy /\ MgrTarget' = MgrTarget /\ \A d : Target(d)' = Target(d)
  BY <1>1 DEF Busy, MgrTarget, Target
<1>3. OneCommand' /\ OneCached' /\ OneLaunch'
  BY <1>1, <1>2 DEF OneCommand, OneCached, OneLaunch
<1>4. \A b : Live(b)' = Live(b) /\ Killed(b)' = Killed(b)
  BY <1>1, <1>2 DEF Live, Killed
<1>5. NoStray'
  BY <1>1, <1>4 DEF NoStray
<1> QED
  BY <1>3, <1>5 DEF Control

\* A request: at most the instance that it is about is launched, launched again or killed.
LEMMA RefreshControl ==
  ASSUME DataInv, ControlInv, Request, UNCHANGED forced, NEW a \in Ails,
         \A b \in Ails \ {a} : Required(b) => Required(b)',
         RefreshConnection(a) \/ (NoCommand /\ (Required(a) => Required(a)'))
  PROVE  ControlInv'
<1> SUFFICES ASSUME raced' = {} PROVE Control'
  BY DEF ControlInv
<1>1. CASE NoCommand /\ (Required(a) => Required(a)')
  BY <1>1, CommandNotAdded DEF NoCommand, ControlInv
<1>2. CASE RefreshConnection(a)
  <2>1. raced = {} /\ ~Pending(a)
    BY <1>2 DEF RefreshConnection, Race
  <2>2. Control /\ OneCached
    BY <2>1 DEF ControlInv, Control
  <2>3. CASE ClientIds(a) # {}
    <3>1. PICK i \in Ids : /\ cached[i] = a
                           /\ cmds' = cmds \cup {Command(IF Required(a)' THEN "relaunch" ELSE "kill", i, None)}
      BY <1>2, <2>3 DEF RefreshConnection, ClientIds, Required
    <3>a. PICK k : k = IF Required(a)' THEN "relaunch" ELSE "kill"
      OBVIOUS
    <3> DEFINE c == Command(k, i, None)
    <3>2. /\ c.id = i /\ c.command = IF Required(a)' THEN "relaunch" ELSE "kill"
          /\ cmds' = cmds \cup {c}
      BY <3>1, <3>a DEF Command
    <3> HIDE DEF c
    <3>3. Target(c) = a
      BY <2>2, <3>1, <3>2, SyncAssumption DEF Target, OneCached
    <3>4. \A j \in Ids : cached[j] = a => j = i
      BY <2>2, <3>1, SyncAssumption DEF OneCached
    <3> QED
      BY <2>1, <2>2, <3>2, <3>3, <3>4, CommandAdded
  <2>4. CASE ClientIds(a) = {} /\ Required(a)'
    <3> DEFINE c == Command("launch", None, a)
    <3>1. c.command = "launch" /\ Target(c) = a /\ cmds' = cmds \cup {c}
      BY <1>2, <2>4 DEF RefreshConnection, Required, Command, Target
    <3> HIDE DEF c
    <3> QED
      BY <2>1, <2>2, <2>4, <3>1, CommandAdded DEF ClientIds
  <2>5. CASE ClientIds(a) = {} /\ ~Required(a)'
    <3>1. UNCHANGED cmds
      BY <1>2, <2>5 DEF RefreshConnection, Required
    <3>2. ~Live(a)
      BY <2>1, <2>5 DEF Live, Pending, ClientIds
    <3> QED
      BY <2>2, <3>1, <3>2, CommandNotAdded
  <2> QED
    BY <2>3, <2>4, <2>5
<1> QED
  BY <1>1, <1>2

LEMMA CommandControl ==
  ASSUME DataInv, ControlInv, NEW a \in Ails, NEW d \in {"launch", "kill", "relaunch"},
         CommandClient(a, d)
  PROVE  ControlInv'
<1> SUFFICES ASSUME raced' = {} PROVE Control'
  BY DEF ControlInv
<1>1. Request /\ raced = {} /\ ~Pending(a) /\ UNCHANGED <<inst, reg>>
  BY DEF CommandClient, Race
<1>2. Control /\ OneCached /\ NoStray /\ None \notin Ails
  BY <1>1, SyncAssumption DEF ControlInv, Control
<1>3. \A b \in Ails : Required(b)' = Required(b)
  BY <1>1 DEF Required
<1>4. CASE d = "launch"
  <2> DEFINE c == Command("launch", None, a)
  <2>1. c.command = "launch" /\ Target(c) = a
    BY DEF Command, Target
  <2>2. /\ cmds' = cmds \cup {c} /\ ClientIds(a) = {} /\ forced \subseteq forced'
        /\ Required(a) \/ a \in forced'
    BY <1>4 DEF CommandClient
  <2> HIDE DEF c
  <2> QED
    BY <1>1, <1>2, <1>3, <2>1, <2>2, CommandAdded DEF ClientIds
<1>5. CASE d # "launch"
  <2>1. PICK i \in Ids : cached[i] = a
    BY <1>5 DEF CommandClient, ClientIds
  <2>2. ClientIds(a) = {i} /\ mgr.clients[i] = a
    BY <1>2, <2>1 DEF OneCached, ClientIds
  <2> DEFINE c == Command(d, i, a)
  <2>3. c.command = d /\ c.id = i
    BY DEF Command
  <2>4. cmds' = cmds \cup {c} /\ UNCHANGED forced
    BY <1>5, <2>2 DEF CommandClient
  <2> HIDE DEF c
  <2>5. Target(c) = a
    BY <1>5, <2>2, <2>3 DEF Target
  <2>6. Required(a) \/ a \in forced
    <3>1. Live(a) /\ ~Killed(a)
      BY <1>1, <2>1 DEF Live, Killed, Pending, Busy
    <3> QED
      BY <1>2, <3>1 DEF NoStray
  <2>7. \A j \in Ids : cached[j] = a => j = i
    BY <2>2 DEF ClientIds
  <2> QED
    BY <1>1, <1>2, <1>3, <1>5, <2>3, <2>4, <2>5, <2>6, <2>7, CommandAdded
<1> QED
  BY <1>4, <1>5

LEMMA AdminControl ==
  ASSUME DataInv, ControlInv, AdminInstances \/ AdminQueues
  PROVE  ControlInv'
<1>0. TypeOK /\ Request
  BY AdminRequests DEF DataInv
<1>a. ASSUME UNCHANGED <<inst, reg, cmds, raced, forced>>
      PROVE  ControlInv'
  BY <1>0, <1>a, QuietControl DEF Request
<1>1. ASSUME NEW a \in Ails, NEW push \in BOOLEAN, NEW pull \in BOOLEAN, CreateInstance(a, push, pull)
      PROVE  ControlInv'
  <2>1. \A b \in Ails \ {a} : Required(b) => Required(b)'
    BY <1>0, <1>1 DEF CreateInstance, Required, Linked, TypeOK
  <2> QED
    BY <1>0, <1>1, <2>1, RefreshControl DEF CreateInstance
<1>2. ASSUME NEW a \in Ails, NEW push \in BOOLEAN, NEW pull \in BOOLEAN,
             NEW url \in BOOLEAN, NEW key \in BOOLEAN, EditInstance(a, push, pull, url, key)
      PROVE  ControlInv'
  <2> DEFINE new == [inst[a] EXCEPT !.push = push, !.pull = pull, !.key = @ /\ ~key]
  <2>1. inst' = [inst EXCEPT ![a] = new] /\ new.push = push /\ UNCHANGED <<reg, forced>>
    <3>1. ConfOK
      BY <1>0 DEF TypeOK, ConfOK
    <3>2. inst' = [inst EXCEPT ![a] = new]
      BY <1>2, <3>1 DEF EditInstance, ConfOK
    <3>3. new.push = push
      BY <3>1 DEF ConfOK
    <3>4. UNCHANGED <<reg, forced>>
      BY <1>2 DEF EditInstance
    <3> QED
      BY <3>2, <3>3, <3>4
  <2> HIDE DEF new
  <2>2. \A b \in Ails \ {a} : Required(b) => Required(b)'
    BY <1>0, <2>1 DEF Required, Linked, TypeOK
  <2>3. RefreshConnection(a) \/ (NoCommand /\ push = inst[a].push)
    BY <1>2 DEF EditInstance
  <2>4. push = inst[a].push /\ Required(a) => Required(a)'
    BY <1>0, <2>1 DEF Required, Linked, TypeOK
  <2> QED
    BY <1>0, <2>1, <2>2, <2>3, <2>4, RefreshControl
<1>3. ASSUME NEW a \in Ails, DeleteInstance(a)
      PROVE  ControlInv'
  <2>1. inst' = [inst EXCEPT ![a] = NoInst] /\ reg' = {x \in reg : x[2] # a}
        /\ RefreshConnection(a) /\ UNCHANGED forced
    BY <1>3 DEF DeleteInstance
  <2>2. \A b \in Ails \ {a} : Required(b) => Required(b)'
    BY <1>0, <2>1 DEF Required, Linked, TypeOK
  <2> QED
    BY <1>0, <2>1, <2>2, RefreshControl
<1>4. ASSUME NEW a \in Ails, KillConnected(a)
      PROVE  ControlInv'
  BY <1>a, <1>4 DEF KillConnected, conf
<1>5. ASSUME NEW a \in Ails, NEW q \in Queues, Register(q, a) \/ Unregister(q, a)
      PROVE  ControlInv'
  <2>1. /\ UNCHANGED <<inst, forced>>
        /\ reg' = reg \cup {<<q, a>>} \/ reg' = reg \ {<<q, a>>}
        /\ RefreshConnection(a) \/ (NoCommand /\ Linked(reg', a))
    BY <1>5 DEF Register, Unregister, Linked
  <2>2. \A b \in Ails \ {a} : Required(b) => Required(b)'
    BY <2>1 DEF Required, Linked
  <2>3. Linked(reg', a) /\ Required(a) => Required(a)'
    BY <2>1 DEF Required
  <2> QED
    BY <1>0, <2>1, <2>2, <2>3, RefreshControl
<1>6. ASSUME NEW q \in Queues, NEW f, CreateQueue(q, f) \/ EditQueue(q, f)
      PROVE  ControlInv'
  <2>1. UNCHANGED <<inst, reg, cmds, raced, forced>>
    BY <1>6 DEF CreateQueue, EditQueue, NoCommand
  <2> QED
    BY <1>a, <2>1
<1>7. ASSUME NEW q \in Queues, DeleteQueue(q)
      PROVE  ControlInv'
  <2> DEFINE cut == {a \in Ails : <<q, a>> \in reg}
  <2>1. UNCHANGED <<inst, forced>> /\ reg' = {x \in reg : x[1] # q} /\ \A a, b \in cut : a = b
    BY <1>7 DEF DeleteQueue
  <2>2. \A b \in Ails \ cut : Required(b) => Required(b)'
    BY <2>1 DEF Required, Linked
  <2>3. CASE cut = {}
    <3>1. NoCommand
      BY <1>7, <2>3 DEF DeleteQueue
    <3>2. UNCHANGED reg
      BY <1>0, <2>1, <2>3 DEF TypeOK
    <3> QED
      BY <1>a, <2>1, <3>1, <3>2 DEF NoCommand
  <2>4. CASE cut # {}
    <3>1. PICK a \in cut : RefreshConnection(a) \/ (NoCommand /\ Linked(reg', a))
      BY <1>7, <2>4 DEF DeleteQueue
    <3>2. \A b \in Ails \ {a} : Required(b) => Required(b)'
      BY <2>1, <2>2, <3>1
    <3>3. Linked(reg', a) /\ Required(a) => Required(a)'
      BY <2>1 DEF Required
    <3> QED
      BY <1>0, <2>1, <3>1, <3>2, <3>3, RefreshControl
  <2> QED
    BY <2>3, <2>4
<1> QED
  BY <1>1, <1>2, <1>3, <1>4, <1>5, <1>6, <1>7, CommandControl DEF AdminInstances, AdminQueues

LEMMA ManagerControl == ASSUME DataInv, Control, Manager PROVE Control' /\ UNCHANGED raced
<1>r. UNCHANGED <<raced, forced>>
  BY DEF Manager, PopCommand, KillClient, LaunchWindow, CacheClient, conf
<1>0. /\ TypeOK /\ ManagerOK /\ ClientsOK
      /\ OneCommand /\ OneCached /\ OneLaunch /\ NoStray /\ None \notin Ails
  BY SyncAssumption DEF DataInv, Control
<1>1. CASE PopCommand
  <2>1. PICK c \in cmds : cmds' = cmds \ {c} /\ SetMgr(c.command, c.ail, c.id)
    BY <1>1 DEF PopCommand
  <2>2. /\ mgr'.pc = c.command /\ mgr'.ail = c.ail /\ mgr'.id = c.id /\ mgr'.clients = mgr.clients
        /\ c.command \in {"launch", "kill", "relaunch"}
        /\ mgr.pc = "idle" /\ UNCHANGED <<cached, proc, inst, reg>>
    BY <1>0, <1>1, <2>1 DEF PopCommand, SetMgr, TypeOK, conf
  <2>3. /\ Busy' /\ ~Busy /\ MgrTarget' = Target(c)
        /\ \A d : Target(d)' = Target(d)
    BY <2>2 DEF Busy, MgrTarget, Target
  <2>4. OneCommand'
    BY <1>0, <2>1, <2>2, <2>3 DEF OneCommand
  <2>5. OneCached'
    BY <1>0, <2>2 DEF OneCached
  <2>6. OneLaunch'
    BY <1>0, <2>1, <2>2, <2>3 DEF OneLaunch
  <2>7. NoStray'
    <3> SUFFICES ASSUME NEW a \in Ails \ forced, Live(a)' PROVE Required(a)' \/ Killed(a)'
      BY <1>r DEF NoStray
    <3>1. Live(a)
      BY <2>1, <2>2, <2>3 DEF Live
    <3>2. Required(a) \/ Killed(a)
      BY <1>0, <3>1 DEF NoStray
    <3>3. Killed(a) => Killed(a)'
      BY <2>1, <2>2, <2>3 DEF Killed
    <3>4. Required(a)' = Required(a)
      BY <2>2 DEF Required
    <3> QED
      BY <3>2, <3>3, <3>4
  <2> QED
    BY <1>r, <2>4, <2>5, <2>6, <2>7 DEF Control
<1>2. CASE KillClient
  <2> DEFINE i == mgr.id
             a == mgr.clients[i]
  <2>1. /\ mgr.pc \in {"kill", "relaunch"} /\ Busy /\ MgrTarget = a /\ i \in Ids /\ a \in Ails
        /\ UNCHANGED <<inst, reg, cmds>>
    BY <1>0, <1>2 DEF KillClient, Busy, MgrTarget, OneCommand, ManagerOK, conf
  <2>2. /\ cached' = [cached EXCEPT ![i] = None]
        /\ proc' = [proc EXCEPT ![i] = NoProc]
        /\ mgr' = [mgr EXCEPT !.pc = IF mgr.pc = "kill" THEN "idle" ELSE "launch",
                              !.ail = a, !.id = None, !.clients[i] = None]
    BY <1>0, <1>2, <2>1 DEF KillClient
  <2> HIDE DEF i, a
  <2>3. /\ mgr'.pc = IF mgr.pc = "kill" THEN "idle" ELSE "launch"
        /\ mgr'.ail = a /\ mgr'.clients = [mgr.clients EXCEPT ![i] = None]
    BY <1>0, <2>2 DEF TypeOK
  <2>4. /\ cached'[i] = None /\ proc'[i].pc = "none"
        /\ \A j \in Ids \ {i} : /\ cached'[j] = cached[j] /\ proc'[j] = proc[j]
                               /\ mgr'.clients[j] = mgr.clients[j]
    BY <1>0, <2>1, <2>2, <2>3 DEF TypeOK, NoProc
  <2>5. \A c \in cmds : Target(c)' = Target(c) /\ Target(c) # a /\ Target(c) \in Ails
    <3> SUFFICES ASSUME NEW c \in cmds PROVE Target(c)' = Target(c)
      BY <1>0, <2>1 DEF OneCommand
    <3>1. c.command # "launch" => c.id \in Ids \ {i}
      BY <1>0, <2>1 DEF OneCommand, Target, ManagerOK, CommandOK, a
    <3> QED
      BY <2>1, <2>4, <3>1 DEF Target
  <2>6. \A j \in Ids : cached[j] = a => j = i
    BY <1>0, <2>1 DEF OneLaunch, i
  <2>7. (Busy' <=> mgr.pc = "relaunch") /\ (mgr.pc = "relaunch" => MgrTarget' = a) /\ mgr'.pc # "kill"
    BY <2>1, <2>3 DEF Busy, MgrTarget
  <2>8. OneCommand'
    BY <1>0, <2>1, <2>3, <2>5, <2>7 DEF OneCommand
  <2>9. OneCached'
    BY <1>0, <2>1, <2>3, <2>4 DEF OneCached
  <2>10. OneLaunch'
    BY <1>0, <2>1, <2>4, <2>5, <2>6, <2>7 DEF OneLaunch
  <2>11. NoStray'
    <3> SUFFICES ASSUME NEW b \in Ails \ forced, Live(b)' PROVE Required(b)' \/ Killed(b)'
      BY <1>r DEF NoStray
    <3>1. Required(b)' = Required(b)
      BY <2>1 DEF Required
    <3>2. CASE mgr.pc = "kill"
      <4>1. Live(b) /\ b # a
        BY <1>0, <2>1, <2>4, <2>5, <2>6, <2>7, <3>2 DEF Live
      <4>2. Killed(b) => Killed(b)'
        BY <2>1, <2>5, <4>1 DEF Killed
      <4> QED
        BY <1>0, <3>1, <4>1, <4>2 DEF NoStray
    <3>3. CASE mgr.pc = "relaunch"
      <4>1. Live(b)
        BY <1>0, <2>1, <2>4, <2>5, <2>7, <3>3 DEF Live
      <4>2. Killed(b) => Killed(b)'
        BY <2>1, <2>5, <3>3 DEF Killed
      <4> QED
        BY <1>0, <3>1, <4>1, <4>2 DEF NoStray
    <3> QED
      BY <2>1, <3>2, <3>3
  <2> QED
    BY <1>r, <2>8, <2>9, <2>10, <2>11 DEF Control
<1>3. CASE LaunchWindow
  <2>1. PICK i \in Ids :
          /\ mgr.clients[i] = None
          /\ proc' = [proc EXCEPT ![i] = [NoProc EXCEPT !.pc = "start", !.ail = mgr.ail]]
          /\ SetMgr("cache", mgr.ail, i)
    BY <1>3 DEF LaunchWindow
  <2>2. /\ mgr'.pc = "cache" /\ mgr'.ail = mgr.ail /\ mgr'.id = i /\ mgr'.clients = mgr.clients
        /\ mgr.pc = "launch" /\ UNCHANGED <<cached, cmds, inst, reg>>
    BY <1>0, <1>3, <2>1 DEF LaunchWindow, SetMgr, TypeOK, conf
  <2>3. proc'[i].ail = mgr.ail /\ \A j \in Ids \ {i} : proc'[j] = proc[j]
    BY <1>0, <2>1 DEF TypeOK, NoProc
  <2>4. /\ Busy' /\ Busy /\ MgrTarget' = MgrTarget
        /\ \A c : Target(c)' = Target(c)
    BY <2>2 DEF Busy, MgrTarget, Target
  <2>5. OneCommand' /\ OneLaunch'
    BY <1>0, <2>2, <2>4 DEF OneCommand, OneLaunch
  <2>6. OneCached'
    BY <1>0, <2>1, <2>2, <2>3 DEF OneCached
  <2>7. NoStray'
    BY <1>0, <1>r, <2>2, <2>4 DEF NoStray, Live, Killed, Required
  <2> QED
    BY <1>r, <2>5, <2>6, <2>7 DEF Control
<1>4. CASE CacheClient
  <2> DEFINE i == mgr.id
             a == mgr.ail
  <2>1. /\ mgr.pc = "cache" /\ Busy /\ MgrTarget = a /\ i \in Ids /\ a \in Ails
        /\ UNCHANGED <<inst, reg, cmds, proc>> /\ mgr.clients[i] = None
    BY <1>0, <1>4 DEF CacheClient, Busy, MgrTarget, ManagerOK, conf, OneCached
  <2>2. /\ cached' = [cached EXCEPT ![i] = a]
        /\ mgr' = [mgr EXCEPT !.pc = "idle", !.ail = None, !.id = None, !.clients[i] = a]
    BY <1>4 DEF CacheClient
  <2> HIDE DEF i, a
  <2>3. mgr'.pc = "idle" /\ mgr'.clients = [mgr.clients EXCEPT ![i] = a] /\ ~Busy'
    BY <1>0, <2>2 DEF TypeOK, Busy
  <2>4. /\ cached'[i] = a /\ mgr'.clients[i] = a
        /\ \A j \in Ids \ {i} : cached'[j] = cached[j] /\ mgr'.clients[j] = mgr.clients[j]
    BY <1>0, <2>1, <2>2, <2>3 DEF TypeOK
  <2>5. \A c \in cmds : Target(c)' = Target(c) /\ Target(c) # a
    <3> SUFFICES ASSUME NEW c \in cmds PROVE Target(c)' = Target(c)
      BY <1>0, <2>1 DEF OneCommand
    <3>1. c.command # "launch" => c.id \in Ids \ {i}
      BY <1>0, <2>1 DEF OneCommand, Target, ManagerOK, CommandOK
    <3> QED
      BY <2>1, <2>4, <3>1 DEF Target
  <2>6. \A j \in Ids : cached[j] # a
    BY <1>0, <2>1 DEF OneLaunch
  <2>7. OneCommand'
    BY <1>0, <2>1, <2>3, <2>5 DEF OneCommand
  <2>8. OneCached'
    <3>1. cached[i] = None
      BY <1>0, <2>1 DEF OneCached
    <3>2. \A j \in Ids : proc[j].pc # "none" => cached'[j] = proc[j].ail
      <4> SUFFICES ASSUME NEW j \in Ids, proc[j].pc # "none" PROVE cached'[j] = proc[j].ail
        OBVIOUS
      <4>1. proc[j].ail \in Ails
        BY <1>0 DEF ClientsOK, ClientOK
      <4>2. cached[j] = proc[j].ail \/ (j = i /\ a = proc[j].ail)
        BY <1>0 DEF OneCached, i, a
      <4> QED
        BY <1>0, <2>4, <3>1, <4>1, <4>2
    <3>3. \A j, k \in Ids : cached'[j] # None /\ cached'[j] = cached'[k] => j = k
      BY <1>0, <2>4, <2>6 DEF OneCached
    <3>4. \A j \in Ids : cached'[j] # None => mgr'.clients[j] = cached'[j]
      BY <1>0, <2>4 DEF OneCached
    <3> QED
      BY <2>1, <2>3, <3>2, <3>3, <3>4 DEF OneCached
  <2>9. OneLaunch'
    BY <1>0, <2>1, <2>3, <2>4, <2>5 DEF OneLaunch
  <2>10. NoStray'
    <3> SUFFICES ASSUME NEW b \in Ails \ forced, Live(b)' PROVE Required(b)' \/ Killed(b)'
      BY <1>r DEF NoStray
    <3>1. Live(b)
      BY <2>1, <2>3, <2>4, <2>5 DEF Live
    <3>2. Killed(b) => Killed(b)'
      BY <2>1, <2>5 DEF Killed
    <3> QED
      BY <1>0, <2>1, <3>1, <3>2 DEF NoStray, Required
  <2> QED
    BY <1>r, <2>7, <2>8, <2>9, <2>10 DEF Control
<1> QED
  BY <1>r, <1>1, <1>2, <1>3, <1>4 DEF Manager

\* A client that goes on keeps its instance; one that ends leaves the cache, or had left it.
LEMMA ClientControl ==
  ASSUME DataInv, ControlInv, NEW i \in Ids, UNCHANGED <<inst, reg, cmds, mgr, raced, forced>>,
         \A j \in Ids \ {i} : proc'[j] = proc[j] /\ cached'[j] = cached[j],
         \/ proc'[i].pc = "none" /\ cached'[i] \in {None, cached[i]}
         \/ proc'[i].ail = proc[i].ail /\ proc[i].pc # "none" /\ cached'[i] = cached[i]
  PROVE  ControlInv'
<1> SUFFICES ASSUME Control PROVE Control'
  BY DEF ControlInv
<1>1. /\ OneCommand /\ OneCached /\ OneLaunch /\ NoStray /\ None \notin Ails
      /\ Busy' = Busy /\ MgrTarget' = MgrTarget /\ \A c : Target(c)' = Target(c)
  BY SyncAssumption DEF Control, Busy, MgrTarget, Target
<1>2. \A j \in Ids : cached'[j] \in {None, cached[j]}
  OBVIOUS
<1>3. OneCommand'
  BY <1>1 DEF OneCommand
<1>4. OneCached'
  BY <1>1, <1>2 DEF OneCached
<1>5. OneLaunch'
  BY <1>1, <1>2 DEF OneLaunch, OneCommand
<1>6. NoStray'
  BY <1>1, <1>2 DEF NoStray, Live, Killed, Required
<1> QED
  BY <1>3, <1>4, <1>5, <1>6 DEF Control

LEMMA NextControl == ASSUME DataInv, ControlInv, [Next]_vars PROVE ControlInv'
<1>0. TypeOK /\ proc \in [Ids -> Procs]
  BY DEF DataInv, TypeOK, Procs
<1>1. ASSUME NEW i \in Ids, Client(i)
      PROVE  ControlInv'
  <2>1. UNCHANGED <<inst, reg, cmds, mgr, raced, forced>>
    BY <1>1 DEF Client, ClientStart, ClientPop, ClientSend, ClientExit, clientRest, conf
  <2>2. CASE ClientStart(i)
    <3>1. CASE proc' = [proc EXCEPT ![i] = NoProc]
      BY <1>0, <2>1, <2>2, <3>1, ClientControl DEF ClientStart, NoProc
    <3>2. ASSUME NEW pc \in {"loop", "exit"}, SetProc(i, pc)
          PROVE  ControlInv'
      <4>1. proc'[i].ail = proc[i].ail /\ \A j \in Ids \ {i} : proc'[j] = proc[j]
        BY <1>0, <3>2 DEF SetProc, Procs
      <4> QED
        BY <2>1, <2>2, <4>1, ClientControl DEF ClientStart
    <3> QED
      BY <2>2, <3>1, <3>2 DEF ClientStart
  <2>3. CASE ClientPop(i) \/ ClientSend(i)
    <3>1. \E pc, o, q : proc' = [proc EXCEPT ![i].pc = pc, ![i].obj = o, ![i].queue = q]
      <4>1. CASE ClientPop(i)
        <5>1. PICK q \in Queues :
                LET x == <<"push", q, proc[i].ail>> IN
                proc' = [proc EXCEPT ![i].pc = "send", ![i].obj = Head(queue[x]), ![i].queue = q]
          BY <4>1 DEF ClientPop
        <5> QED
          BY <5>1, Zenon
      <4>2. CASE ClientSend(i)
        BY <4>2, Zenon DEF ClientSend, SetProc
      <4> QED
        BY <2>3, <4>1, <4>2
    <3>2. proc'[i].ail = proc[i].ail /\ \A j \in Ids \ {i} : proc'[j] = proc[j]
      BY <1>0, <3>1 DEF Procs
    <3>3. UNCHANGED cached /\ proc[i].pc # "none"
      BY <2>3 DEF ClientPop, ClientSend
    <3> QED
      BY <2>1, <3>2, <3>3, ClientControl
  <2>4. CASE ClientExit(i)
    <3>1. proc'[i].pc = "none" /\ cached'[i] = None
      BY <1>0, <2>4 DEF ClientExit, NoProc, TypeOK
    <3>2. \A j \in Ids \ {i} : proc'[j] = proc[j] /\ cached'[j] = cached[j]
      BY <1>0, <2>4 DEF ClientExit, TypeOK
    <3> QED
      BY <2>1, <3>1, <3>2, ClientControl
  <2> QED
    BY <1>1, <2>2, <2>3, <2>4 DEF Client
<1>2. ASSUME NEW i \in Ids, NEW normal, ClientClosed(i, normal)
      PROVE  ControlInv'
  <2>1. UNCHANGED <<inst, reg, cmds, mgr, raced, forced, cached>> /\ SetProc(i, "exit") /\ proc[i].pc # "none"
    BY <1>2 DEF ClientClosed, clientRest, conf
  <2>2. proc'[i].ail = proc[i].ail /\ \A j \in Ids \ {i} : proc'[j] = proc[j]
    BY <1>0, <2>1 DEF SetProc, Procs
  <2> QED
    BY <2>1, <2>2, ClientControl
<1>3. ASSUME NEW i, NEW o, ServerReceive(i) \/ Import(o)
      PROVE  ControlInv'
  BY <1>3, QuietControl DEF ServerReceive, Import, clientRest, conf
<1>4. CASE Tick \/ SyncModule
  <2>1. UNCHANGED others
    <3>1. \A o : SyncPop(o) => UNCHANGED others
      BY DEF SyncPop
    <3>2. Tick \/ SyncRefresh \/ SyncFilter \/ SyncAdd => UNCHANGED others
      BY DEF Tick, SyncRefresh, SyncFilter, SyncAdd
    <3> QED
      BY <1>4, <3>1, <3>2 DEF SyncModule
  <2> QED
    BY <2>1, QuietControl DEF others, conf, control
<1>5. ASSUME NEW a, Server(a) \/ PullClosed(a) \/ Controller(a)
      PROVE  ControlInv'
  <2>1. UNCHANGED serverRest
    BY <1>5 DEF Server, PullConnect, PullPop, PullSend, PullClosed, Controller
  <2> QED
    BY <2>1, QuietControl DEF serverRest, conf, control
<1>6. CASE UNCHANGED vars
  BY <1>6, QuietControl DEF vars, conf, control
<1>7. (\E i \in Ids : ServerReceive(i)) \/ (\E o \in Objs : Import(o)) => ControlInv'
  BY <1>3
<1>8. Manager => ControlInv'
  BY ManagerControl DEF ControlInv, Manager, PopCommand, KillClient, LaunchWindow, CacheClient, conf
<1> QED
  BY <1>1, <1>2, <1>4, <1>5, <1>6, <1>7, <1>8, AdminControl DEF Next, Admin

LEMMA ControlHolds == Spec => [](DataInv /\ ControlInv)
<1>1. DataInv /\ ControlInv /\ [Next]_vars => ControlInv'
  BY NextControl
<1> QED
  BY <1>1, InitData, InitControl, NextData, PTL DEF Spec

\* Until a request is about an instance of which a command is still to be carried out, the
\* manager gets no command for a client that is not in its table, which stops it with
\* KeyError, although it takes the commands in any order.
THEOREM ManagerStays == Spec => []ManagerAlive
<1>1. DataInv /\ ControlInv => ManagerAlive
  BY DEF ControlInv, Control, OneCommand, ManagerAlive
<1> QED
  BY <1>1, ControlHolds, PTL

\* Until then an instance has one push client at most, in the cache and running, although a
\* client is killed by one process, launched by another and leaves the cache by itself, and
\* whatever commands are pending for the others.
THEOREM ClientsCorrect == Spec => []OnePushClient
<1>1. ASSUME DataInv, ControlInv
      PROVE  OnePushClient
  <2>a. SUFFICES ASSUME raced = {}, Control, NEW a \in Ails
                 PROVE  Cardinality(ClientIds(a)) <= 1 /\ Cardinality(Runs(a)) <= 1
    BY <1>1 DEF OnePushClient, OnlyOnePush, ControlInv
  <2>1. a # None /\ OneCached /\ OneLaunch
    BY <2>a, SyncAssumption DEF Control
  <2>2. \A i, j \in ClientIds(a) : i = j
    BY <2>1 DEF ClientIds, OneCached
  <2>3. \A i, j \in Runs(a) : i = j
    <3> SUFFICES ASSUME NEW i \in Runs(a), NEW j \in Runs(a) PROVE i = j
      OBVIOUS
    <3>1. /\ cached[i] = a \/ (mgr.pc = "cache" /\ mgr.id = i /\ mgr.ail = a)
          /\ cached[j] = a \/ (mgr.pc = "cache" /\ mgr.id = j /\ mgr.ail = a)
          /\ i \in Ids /\ j \in Ids
      BY <2>1 DEF Runs, OneCached
    <3>2. mgr.pc = "cache" /\ mgr.ail = a => \A k \in Ids : cached[k] # a
      BY <2>1 DEF OneLaunch, Busy, MgrTarget
    <3> QED
      BY <2>1, <3>1, <3>2 DEF OneCached
  <2>4. ASSUME NEW S, \A i, j \in S : i = j
        PROVE  Cardinality(S) <= 1
    <3>1. CASE S = {}
      BY <3>1, FS_EmptySet
    <3>2. CASE S # {}
      <4>1. PICK i : S = {i}
        BY <2>4, <3>2
      <4>2. Cardinality({i}) = 1
        BY FS_Singleton
      <4> QED
        BY <4>1, <4>2
    <3> QED
      BY <3>1, <3>2
  <2> QED
    BY <2>2, <2>3, <2>4
<1>2. DataInv /\ ControlInv => OnePushClient
  BY <1>1
<1> QED
  BY <1>2, ControlHolds, PTL

\* Until then, once every command has been carried out, clients run only for the instances
\* that are enabled and have a queue, or were launched by hand when they had none.
THEOREM ClientsRequired == Spec => []NoStrayClient
<1>1. ASSUME DataInv, Control, Settled, NEW a \in Ails \ forced, Runs(a) # {}
      PROVE  Required(a)
  <2>1. cmds = {} /\ mgr.pc = "idle"
    BY <1>1 DEF Settled
  <2>2. Live(a) /\ ~Killed(a)
    BY <1>1, <2>1 DEF Control, OneCached, Runs, Live, Killed
  <2> QED
    BY <1>1, <2>2 DEF Control, NoStray
<1>2. DataInv /\ ControlInv => NoStrayClient
  BY <1>1 DEF NoStrayClient, ControlInv
<1> QED
  BY <1>2, ControlHolds, PTL
=============================================================================
