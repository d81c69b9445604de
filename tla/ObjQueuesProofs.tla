-------------------------- MODULE ObjQueuesProofs --------------------------
(***************************************************************************)
(* Proofs about ObjQueues, for any set of objects, modules and processes.  *)
(***************************************************************************)
EXTENDS ObjQueues, TLAPS

----------------------------------------------------------------------------
(***************************************************************************)
(* Type correctness.                                                       *)
(***************************************************************************)
LEMMA InitTypeOK == Init => TypeOK
  BY ConstantsAssumption
  DEF Init, TypeOK, ProcOK, LocalOK, Procs, PC, ProcType, SyncType, Idle, SyncIdle, NoMess, Sending

LEMMA IdleOK == \A p \in Procs : Idle \in ProcType /\ LocalOK(p, Idle)
  BY ConstantsAssumption DEF Idle, ProcType, LocalOK, PC, NoMess, Sending

\* A step of one process keeps every local state well formed if it keeps its own.
LEMMA ProcStep ==
  ASSUME ProcOK, NEW p \in Procs, NEW r \in ProcType, LocalOK(p, r),
         proc' = [proc EXCEPT ![p] = r]
  PROVE  ProcOK'
  BY DEF ProcOK

\* A step to the next command of the same part of the run loop.
LEMMA GotoStep ==
  ASSUME ProcOK, NEW p \in Procs, NEW pc \in PC, Goto(p, pc),
         proc[p].pc # "idle", pc # "idle", proc[p].pc \in Sending <=> pc \in Sending
  PROVE  ProcOK'
<1> DEFINE r == [proc[p] EXCEPT !.pc = pc]
<1>1. r \in ProcType
  BY DEF ProcOK, ProcType
<1>2. LocalOK(p, r)
  BY ConstantsAssumption DEF ProcOK, ProcType, LocalOK
<1>3. proc' = [proc EXCEPT ![p] = r]
  BY DEF Goto
<1> QED
  BY <1>1, <1>2, <1>3, ProcStep

LEMMA StartSendOK ==
  ASSUME ProcOK, NEW p \in Procs, NEW q \in Publish[p], NEW msg \in Message,
         proc[p].pc = IF p \in Importers THEN "idle" ELSE "compute",
         StartSend(p, msg, q)
  PROVE  ProcOK'
<1>1. q \in QueueNames /\ Subscribers[q] \subseteq Modules
  BY ConstantsAssumption
<1>2. PICK m \in Subscribers[q] :
        proc' = [proc EXCEPT ![p].pc = "sendSadd", ![p].out = msg, ![p].to = m,
                             ![p].todo = Subscribers[q] \ {m}, ![p].sent = @ + 1]
  BY DEF StartSend
<1> DEFINE r == [proc[p] EXCEPT !.pc = "sendSadd", !.out = msg, !.to = m,
                                !.todo = Subscribers[q] \ {m}, !.sent = @ + 1]
<1>3. r \in ProcType
  BY <1>1, <1>2 DEF ProcOK, ProcType, PC, Sending
<1>4. LocalOK(p, r)
  BY <1>1, ConstantsAssumption DEF ProcOK, ProcType, LocalOK, Sending
<1>5. proc' = [proc EXCEPT ![p] = r]
  BY <1>2
<1> QED
  BY <1>3, <1>4, <1>5, ProcStep

\* Every step of a module in get_message.
LEMMA GetMessageTypeOK ==
  ASSUME TypeOK, NEW w \in Workers, GetMessage(w)
  PROVE  TypeOK'
<1> w \in Procs /\ ProcOK /\ w \notin Importers
  BY ConstantsAssumption DEF Procs, TypeOK
<1> ModuleOf[w] \in Modules
  BY ConstantsAssumption
<1>1. CASE LpopMessage(w)
  <2> DEFINE m == ModuleOf[w]
             r == [Idle EXCEPT !.pc = "sadd", !.obj = Head(queue[m]).obj, !.hash = Head(queue[m])]
  <2>1. queue[m] \in Seq(Message) /\ queue[m] # <<>>
    BY <1>1 DEF LpopMessage, TypeOK
  <2>2. Head(queue[m]) \in Message /\ Tail(queue[m]) \in Seq(Message)
    BY <2>1
  <2>3. Head(queue[m]).obj \in Objs
    BY <2>2 DEF Message
  <2>4. r \in ProcType
    BY <2>2, <2>3 DEF Idle, ProcType, PC, NoMess, Receiving
  <2>5. LocalOK(w, r)
    BY <2>2, <2>3, ConstantsAssumption DEF LocalOK, Idle, Sending
  <2>6. proc' = [proc EXCEPT ![w] = r]
    BY <1>1 DEF LpopMessage
  <2>7. ProcOK'
    BY <2>4, <2>5, <2>6, ProcStep
  <2> QED
    BY <1>1, <2>2, <2>7 DEF LpopMessage, TypeOK, tracking
<1>2. CASE ReceiveSadd(w)
  <2>1. ProcOK'
    BY <1>2, GotoStep DEF ReceiveSadd, AddProcess, At, PC, Receiving, Sending
  <2> QED
    BY <1>2, <2>1 DEF ReceiveSadd, AddProcess, At, TypeOK, ProcOK, LocalOK
<1>3. CASE ReceiveZaddType(w)
  <2>1. ProcOK'
    BY <1>3, GotoStep DEF ReceiveZaddType, AddType, At, PC, Receiving, Sending
  <2> QED
    BY <1>3, <2>1 DEF ReceiveZaddType, AddType, At, TypeOK, ProcOK, LocalOK
<1>4. CASE ReceiveZaddModule(w)
  <2>1. ProcOK'
    BY <1>4, GotoStep DEF ReceiveZaddModule, At, PC, Receiving, Sending
  <2>2. Entry(ModuleOf[w], proc[w].hash) \in Modules \X Message
    BY <1>4 DEF ReceiveZaddModule, At, Entry, ProcOK, LocalOK
  <2> QED
    BY <1>4, <2>1, <2>2 DEF ReceiveZaddModule, TypeOK
<1>5. CASE ReceiveZremQueue(w)
  <2>1. ProcOK'
    BY <1>5, GotoStep DEF ReceiveZremQueue, At, PC, Receiving, Sending
  <2> QED
    BY <1>5, <2>1 DEF ReceiveZremQueue, TypeOK
<1> QED
  BY <1>1, <1>2, <1>3, <1>4, <1>5 DEF GetMessage

\* Every step of a process in send_message.
LEMMA SendMessageTypeOK ==
  ASSUME TypeOK, NEW p \in Procs, SendMessage(p)
  PROVE  TypeOK'
<1> ProcOK /\ proc[p] \in ProcType /\ LocalOK(p, proc[p])
  BY DEF TypeOK, ProcOK
<1>0. proc[p].pc \in Sending /\ proc[p].out \in Message /\ proc[p].to \in Modules
      /\ proc[p].out.obj \in Objs
  BY DEF SendMessage, SendSadd, SendZaddType, SendZaddQueue, SendRpush, At, Sending, LocalOK, Message
<1>1. CASE SendSadd(p)
  <2>1. ProcOK'
    BY <1>1, GotoStep DEF SendSadd, AddProcess, At, PC, Sending
  <2> QED
    BY <1>0, <1>1, <2>1 DEF SendSadd, AddProcess, TypeOK
<1>2. CASE SendZaddType(p)
  <2>1. ProcOK'
    BY <1>2, GotoStep DEF SendZaddType, AddType, At, PC, Sending
  <2> QED
    BY <1>0, <1>2, <2>1 DEF SendZaddType, AddType, TypeOK
<1>3. CASE SendZaddQueue(p)
  <2>1. ProcOK'
    BY <1>3, GotoStep DEF SendZaddQueue, At, PC, Sending
  <2>2. Entry(proc[p].to, proc[p].out) \in Modules \X Message
    BY <1>0 DEF Entry
  <2> QED
    BY <1>3, <2>1, <2>2 DEF SendZaddQueue, TypeOK
<1>4. CASE SendRpush(p)
  <2>1. ProcOK'
    <3>1. CASE proc[p].todo # {}
      <4>1. PICK m \in proc[p].todo :
              proc' = [proc EXCEPT ![p].pc = "sendSadd", ![p].to = m, ![p].todo = @ \ {m}]
        BY <1>4, <3>1 DEF SendRpush
      <4> DEFINE r == [proc[p] EXCEPT !.pc = "sendSadd", !.to = m, !.todo = @ \ {m}]
      <4>2. r \in ProcType
        BY DEF ProcType, PC, Sending
      <4>3. LocalOK(p, r)
        BY <1>0, ConstantsAssumption DEF ProcType, LocalOK, Sending
      <4>4. proc' = [proc EXCEPT ![p] = r]
        BY <4>1
      <4> QED
        BY <4>2, <4>3, <4>4, ProcStep
    <3>2. CASE proc[p].todo = {} /\ p \in Importers
      BY <1>4, <3>2, IdleOK, ProcStep DEF SendRpush
    <3>3. CASE proc[p].todo = {} /\ p \notin Importers
      <4> DEFINE r == [proc[p] EXCEPT !.pc = "compute", !.out = NoMess, !.to = NoObj]
      <4>1. r \in ProcType
        BY DEF ProcType, PC
      <4>2. LocalOK(p, r)
        BY <1>0, <3>3, ConstantsAssumption DEF ProcType, LocalOK, Sending, Procs
      <4>3. proc' = [proc EXCEPT ![p] = r]
        BY <1>4, <3>3 DEF SendRpush
      <4> QED
        BY <4>1, <4>2, <4>3, ProcStep
    <3> QED
      BY <3>1, <3>2, <3>3
  <2>2. queue' \in [Modules -> Seq(Message)]
    <3>1. queue[proc[p].to] \in Seq(Message)
      BY <1>0 DEF TypeOK
    <3>2. Append(queue[proc[p].to], proc[p].out) \in Seq(Message)
      BY <1>0, <3>1
    <3>3. queue' = [queue EXCEPT ![proc[p].to] = Append(queue[proc[p].to], proc[p].out)]
      BY <1>4 DEF SendRpush
    <3> QED
      BY <1>0, <3>2, <3>3 DEF TypeOK
  <2> QED
    BY <1>4, <2>1, <2>2 DEF SendRpush, TypeOK, tracking
<1> QED
  BY <1>1, <1>2, <1>3, <1>4 DEF SendMessage

\* Every step of a module in end_message.
LEMMA EndProcessedObjTypeOK ==
  ASSUME TypeOK, NEW w \in Workers, EndProcessedObj(w)
  PROVE  TypeOK'
<1> w \in Procs /\ ProcOK /\ w \notin Importers /\ proc[w] \in ProcType /\ LocalOK(w, proc[w])
  BY ConstantsAssumption DEF Procs, TypeOK, ProcOK
<1>0. proc[w].obj \in Objs /\ proc[w].pc # "idle"
  BY DEF EndProcessedObj, EndMessage, ExistsQueues, ExistsModules, EndZremType,
         EndSremProcess, EndSaddProcessed, At, LocalOK
<1>1. CASE EndMessage(w)
  <2>1. ProcOK'
    BY <1>1, GotoStep DEF EndMessage, At, PC, Ending, Sending
  <2> QED
    BY <1>0, <1>1, <2>1 DEF EndMessage, TypeOK
<1>2. ASSUME NEW inUse \in BOOLEAN, NEW next \in Ending, EndOrContinue(w, inUse, next),
             proc[w].pc \in Ending
      PROVE  TypeOK'
  <2>1. CASE inUse
    <3>1. ProcOK'
      BY <1>2, <2>1, IdleOK, ProcStep DEF EndOrContinue
    <3> QED
      BY <1>2, <3>1 DEF EndOrContinue, TypeOK, tracking
  <2>2. CASE ~inUse
    <3>1. ProcOK'
      BY <1>2, <2>2, GotoStep DEF EndOrContinue, Goto, PC, Ending, Sending
    <3> QED
      BY <1>2, <3>1 DEF EndOrContinue, TypeOK, tracking
  <2> QED
    BY <2>1, <2>2
<1>3. CASE ExistsQueues(w)
  BY <1>2, <1>3 DEF ExistsQueues, At, Ending
<1>4. CASE ExistsModules(w)
  BY <1>2, <1>4 DEF ExistsModules, At, Ending
<1>5. CASE EndZremType(w)
  <2>1. ProcOK'
    BY <1>5, GotoStep DEF EndZremType, At, PC, Ending, Sending
  <2> QED
    BY <1>5, <2>1 DEF EndZremType, TypeOK
<1>6. CASE EndSremProcess(w)
  <2>1. ProcOK'
    BY <1>6, GotoStep DEF EndSremProcess, At, PC, Ending, Sending
  <2> QED
    BY <1>6, <2>1 DEF EndSremProcess, TypeOK
<1>7. CASE EndSaddProcessed(w)
  <2>1. ProcOK'
    BY <1>7, IdleOK, ProcStep DEF EndSaddProcessed
  <2> QED
    BY <1>0, <1>7, <2>1 DEF EndSaddProcessed, TypeOK
<1> QED
  BY <1>1, <1>3, <1>4, <1>5, <1>6, <1>7 DEF EndProcessedObj

\* Every step of Sync_module.
LEMMA SyncTypeOK ==
  ASSUME TypeOK, GetProcessedEndObj \/ Sweep
  PROVE  TypeOK'
<1> USE DEF TypeOK, SyncType
<1>0. proc' = proc /\ queue' = queue /\ imports' = imports
  BY DEF GetProcessedEndObj, Sweep, StartSweep, SweepNext, SweepQueues, SweepModules,
         SweepZremType, SweepSremProcess, SweepSaddProcessed
<1>1. ProcOK'
  BY <1>0 DEF ProcOK
<1>2. CASE GetProcessedEndObj
  BY <1>0, <1>1, <1>2 DEF GetProcessedEndObj
<1>3. CASE StartSweep
  BY <1>0, <1>1, <1>3 DEF StartSweep, tracking
<1>4. CASE SweepNext
  <2>1. CASE sync.objs = {}
    BY <1>0, <1>1, <1>4, <2>1 DEF SweepNext, SyncIdle, tracking
  <2>2. CASE sync.objs # {}
    <3>1. PICK o \in sync.objs :
            sync' = [sync EXCEPT !.pc = "queues", !.objs = @ \ {o}, !.obj = o,
                                 !.entries = obj_queues[o]]
      BY <1>4, <2>2 DEF SweepNext
    <3>2. o \in Objs /\ obj_queues[o] \subseteq Modules \X Message
      OBVIOUS
    <3>3. sync' \in SyncType /\ sync'.obj = o
      BY <3>1, <3>2
    <3> QED
      BY <1>0, <1>1, <1>4, <3>2, <3>3 DEF SweepNext, tracking
  <2> QED
    BY <2>1, <2>2
<1>5. CASE SweepQueues
  <2>1. sync.obj \in Objs /\ sync.entries \subseteq Modules \X Message
    BY <1>5 DEF SweepQueues
  <2>2. CASE sync.entries = {}
    <3>1. sync' = [sync EXCEPT !.pc = "modules", !.entries = obj_modules[sync.obj]]
          /\ obj_queues' = obj_queues
      BY <1>5, <2>2 DEF SweepQueues
    <3>2. obj_modules[sync.obj] \subseteq Modules \X Message
      BY <2>1
    <3>3. sync' \in SyncType /\ sync'.obj = sync.obj
      BY <3>1, <3>2
    <3> QED
      BY <1>0, <1>1, <1>5, <2>1, <3>1, <3>3 DEF SweepQueues
  <2>3. CASE sync.entries # {}
    <3>1. PICK e \in sync.entries :
            /\ obj_queues' = [obj_queues EXCEPT ![sync.obj] = @ \ {e}]
            /\ sync' = [sync EXCEPT !.entries = @ \ {e}]
      BY <1>5, <2>3 DEF SweepQueues
    <3>2. obj_queues' \in [Objs -> SUBSET (Modules \X Message)]
      BY <2>1, <3>1
    <3>3. sync' \in SyncType /\ sync'.obj = sync.obj
      BY <2>1, <3>1
    <3> QED
      BY <1>0, <1>1, <1>5, <2>1, <3>2, <3>3 DEF SweepQueues
  <2> QED
    BY <2>2, <2>3
<1>6. CASE SweepModules
  <2>1. sync.obj \in Objs /\ sync.entries \subseteq Modules \X Message
    BY <1>6 DEF SweepModules
  <2>2. PICK e \in sync.entries :
          /\ obj_modules' = [obj_modules EXCEPT ![sync.obj] = @ \ {e}]
          /\ sync' = [sync EXCEPT !.entries = @ \ {e}]
    BY <1>6 DEF SweepModules
  <2>3. obj_modules' \in [Objs -> SUBSET (Modules \X Message)]
    BY <2>1, <2>2
  <2>4. sync' \in SyncType /\ sync'.obj = sync.obj
    BY <2>1, <2>2
  <2> QED
    BY <1>0, <1>1, <1>6, <2>1, <2>3, <2>4 DEF SweepModules
<1>7. CASE SweepZremType
  BY <1>0, <1>1, <1>7 DEF SweepZremType
<1>8. CASE SweepSremProcess
  BY <1>0, <1>1, <1>8 DEF SweepSremProcess
<1>9. CASE SweepSaddProcessed
  BY <1>0, <1>1, <1>9 DEF SweepSaddProcessed
<1> QED
  BY <1>2, <1>3, <1>4, <1>5, <1>6, <1>7, <1>8, <1>9 DEF Sweep

LEMMA NextTypeOK == TypeOK /\ [Next]_vars => TypeOK'
<1> SUFFICES ASSUME TypeOK, [Next]_vars PROVE TypeOK'
  OBVIOUS
<1>1. CASE UNCHANGED vars
  BY <1>1 DEF vars, TypeOK, ProcOK
<1>2. ASSUME NEW w \in Workers, Worker(w) PROVE TypeOK'
  <2>1. CASE ModuleSend(w)
    <3>1. w \in Procs /\ w \notin Importers /\ ProcOK
      BY ConstantsAssumption DEF Procs, TypeOK
    <3>2. PICK q \in Publish[w], msg \in Message : StartSend(w, msg, q)
      BY <2>1 DEF ModuleSend
    <3>3. ProcOK'
      BY <2>1, <3>1, <3>2, StartSendOK DEF ModuleSend, At
    <3> QED
      BY <2>1, <3>3 DEF ModuleSend, TypeOK, tracking
  <2>2. w \in Procs
    BY DEF Procs
  <2> QED
    BY <1>2, <2>1, <2>2, GetMessageTypeOK, SendMessageTypeOK, EndProcessedObjTypeOK DEF Worker
<1>3. ASSUME NEW i \in Importers, Importer(i) PROVE TypeOK'
  <2>1. CASE ImporterSend(i)
    <3>1. i \in Procs /\ ProcOK
      BY DEF Procs, TypeOK
    <3>2. PICK q \in Publish[i], msg \in Message : StartSend(i, msg, q)
      BY <2>1 DEF ImporterSend
    <3>3. ProcOK'
      BY <2>1, <3>1, <3>2, StartSendOK DEF ImporterSend, At
    <3>4. imports' \in 0..MaxImports
      BY <2>1, ConstantsAssumption DEF ImporterSend, TypeOK
    <3> QED
      BY <2>1, <3>3, <3>4 DEF ImporterSend, TypeOK, tracking
  <2>2. i \in Procs
    BY DEF Procs
  <2> QED
    BY <1>3, <2>1, <2>2, SendMessageTypeOK DEF Importer
<1>4. ASSUME NEW o \in Objs, GetOld(o) PROVE TypeOK'
  BY <1>4 DEF GetOld, TypeOK, ProcOK, tracking
<1> QED
  BY <1>1, <1>2, <1>3, <1>4, SyncTypeOK DEF Next

\* The type invariant of ObjQueues, and the agreement of the local variables of
\* each process with its program counter: run() of abstract_module.py.
THEOREM TypeCorrect == Spec => []TypeOK
<1>1. Init => TypeOK
  BY InitTypeOK
<1>2. TypeOK /\ [Next]_vars => TypeOK'
  BY NextTypeOK
<1> QED
  BY <1>1, <1>2, PTL DEF Spec

----------------------------------------------------------------------------
(***************************************************************************)
(* The entries of obj:queues and obj:modules are those of messages that    *)
(* are somewhere.                                                          *)
(***************************************************************************)
\* A process whose step leaves alone what justifies an entry.
LEMMA FrameInTransit ==
  ASSUME ProcOK, NEW p \in Procs, NEW r, proc' = [proc EXCEPT ![p] = r], queue' = queue,
         proc[p].pc # "rpush",
         proc[p].pc \in Receiving => r.pc \in Receiving /\ r.hash = proc[p].hash,
         NEW m \in Modules, NEW msg \in Message, InTransit(m, msg)
  PROVE  InTransit(m, msg)'
<1>1. \A x \in Procs \ {p} : proc'[x] = proc[x]
  BY DEF ProcOK
<1>2. proc'[p] = r
  BY DEF ProcOK
<1>3. CASE InQueue(m, msg)
  BY <1>3 DEF InTransit, InQueue
<1>4. ASSUME NEW x \in Procs, At(x, "rpush"), proc[x].to = m, proc[x].out = msg
      PROVE  InTransit(m, msg)'
  <2>1. x # p
    BY <1>4 DEF At
  <2> QED
    BY <1>1, <1>4, <2>1 DEF InTransit, At
<1>5. ASSUME NEW w \in Workers, proc[w].pc \in Receiving, ModuleOf[w] = m, proc[w].hash = msg
      PROVE  InTransit(m, msg)'
  <2>1. w \in Procs
    BY DEF Procs
  <2> QED
    BY <1>1, <1>2, <1>5, <2>1 DEF InTransit
<1> QED
  BY <1>3, <1>4, <1>5 DEF InTransit

LEMMA FrameInModule ==
  ASSUME ProcOK, NEW p \in Procs, NEW r, proc' = [proc EXCEPT ![p] = r],
         proc[p].pc \in {"zremQueue", "compute"} \cup Sending =>
           r.pc \in {"zremQueue", "compute"} \cup Sending /\ r.hash = proc[p].hash,
         NEW m \in Modules, NEW msg \in Message, InModule(m, msg)
  PROVE  InModule(m, msg)'
<1>1. \A x \in Procs \ {p} : proc'[x] = proc[x]
  BY DEF ProcOK
<1>2. proc'[p] = r
  BY DEF ProcOK
<1>3. PICK w \in Workers : /\ proc[w].pc \in {"zremQueue", "compute"} \cup Sending
                           /\ ModuleOf[w] = m /\ proc[w].hash = msg
  BY DEF InModule
<1>4. w \in Procs
  BY DEF Procs
<1> QED
  BY <1>1, <1>2, <1>3, <1>4 DEF InModule

\* A step of a process that adds no entry, and keeps what justifies the others.
LEMMA FrameEntries ==
  ASSUME ProcOK, EntriesJustified,
         NEW p \in Procs, NEW r, proc' = [proc EXCEPT ![p] = r], queue' = queue,
         proc[p].pc # "rpush",
         proc[p].pc \in Receiving => r.pc \in Receiving /\ r.hash = proc[p].hash,
         proc[p].pc \in {"zremQueue", "compute"} \cup Sending =>
           r.pc \in {"zremQueue", "compute"} \cup Sending /\ r.hash = proc[p].hash,
         \A o \in Objs : obj_queues'[o] \subseteq obj_queues[o],
         \A o \in Objs : obj_modules'[o] \subseteq obj_modules[o]
  PROVE  EntriesJustified'
<1>1. \A m \in Modules, msg \in Message : InTransit(m, msg) => InTransit(m, msg)'
  BY FrameInTransit
<1>2. \A m \in Modules, msg \in Message : InModule(m, msg) => InModule(m, msg)'
  BY FrameInModule
<1> QED
  BY <1>1, <1>2 DEF EntriesJustified, QueueEntriesJustified, ModuleEntriesJustified

\* No step of a process: Sync_module removes entries, and time passes.
LEMMA FrameSync ==
  ASSUME EntriesJustified, proc' = proc, queue' = queue,
         \A o \in Objs : obj_queues'[o] \subseteq obj_queues[o],
         \A o \in Objs : obj_modules'[o] \subseteq obj_modules[o]
  PROVE  EntriesJustified'
<1>1. \A m \in Modules, msg \in Message : InTransit(m, msg) => InTransit(m, msg)'
  BY DEF InTransit, InQueue, At
<1>2. \A m \in Modules, msg \in Message : InModule(m, msg) => InModule(m, msg)'
  BY DEF InModule
<1> QED
  BY <1>1, <1>2 DEF EntriesJustified, QueueEntriesJustified, ModuleEntriesJustified

LEMMA GotoEntries ==
  ASSUME ProcOK, EntriesJustified, NEW p \in Procs, NEW pc, Goto(p, pc), queue' = queue,
         proc[p].pc # "rpush",
         proc[p].pc \in Receiving => pc \in Receiving,
         proc[p].pc \in {"zremQueue", "compute"} \cup Sending =>
           pc \in {"zremQueue", "compute"} \cup Sending,
         \A o \in Objs : obj_queues'[o] \subseteq obj_queues[o],
         \A o \in Objs : obj_modules'[o] \subseteq obj_modules[o]
  PROVE  EntriesJustified'
<1> DEFINE r == [proc[p] EXCEPT !.pc = pc]
<1>1. proc' = [proc EXCEPT ![p] = r]
  BY DEF Goto
<1>2. r.pc = pc /\ r.hash = proc[p].hash
  BY DEF ProcOK, ProcType
<1> HIDE DEF r
<1> QED
  BY <1>1, <1>2, FrameEntries

LEMMA GetMessageEntries ==
  ASSUME TypeOK, EntriesJustified, NEW w \in Workers, GetMessage(w)
  PROVE  EntriesJustified'
<1> w \in Procs /\ ProcOK /\ proc[w] \in ProcType /\ LocalOK(w, proc[w]) /\ ModuleOf[w] \in Modules
  BY ConstantsAssumption DEF Procs, TypeOK, ProcOK
<1>1. CASE LpopMessage(w)
  \* The head of the queue is now justified by w itself, the others moved by one.
  <2> DEFINE n == ModuleOf[w]
             r == [Idle EXCEPT !.pc = "sadd", !.obj = Head(queue[n]).obj, !.hash = Head(queue[n])]
  <2>1. proc' = [proc EXCEPT ![w] = r] /\ r.pc = "sadd" /\ r.hash = Head(queue[n])
        /\ proc[w].pc = "idle"
    BY <1>1 DEF LpopMessage, Idle, At
  <2>2. queue[n] \in Seq(Message) /\ queue[n] # <<>> /\ queue' = [queue EXCEPT ![n] = Tail(queue[n])]
    BY <1>1 DEF LpopMessage, TypeOK
  <2>3. proc'[w] = r /\ \A x \in Procs \ {w} : proc'[x] = proc[x]
    BY <2>1 DEF ProcOK
  <2> HIDE DEF r
  <2>4. ASSUME NEW m \in Modules, NEW msg \in Message, InTransit(m, msg)
        PROVE  InTransit(m, msg)'
    <3>1. CASE InQueue(m, msg)
      <4>1. PICK k \in DOMAIN queue[m] : queue[m][k] = msg
        BY <3>1 DEF InQueue
      <4>2. CASE m # n
        BY <2>2, <4>1, <4>2 DEF InTransit, InQueue, TypeOK
      <4>3. CASE m = n /\ k = 1
        <5>1. Head(queue[n]) = msg
          BY <2>2, <4>1, <4>3
        <5> QED
          BY <2>1, <2>3, <4>3, <5>1 DEF InTransit, Receiving
      <4>4. CASE m = n /\ k # 1
        <5> DEFINE s == queue[n]
        <5>0. s \in Seq(Message) /\ k \in 1..Len(s) /\ k # 1 /\ s[k] = msg
          BY <2>2, <4>1, <4>4
        <5> HIDE DEF s
        <5>1. k - 1 \in DOMAIN Tail(s) /\ Tail(s)[k - 1] = msg
          BY <5>0
        <5>2. queue'[m] = Tail(s)
          BY <2>2, <4>4 DEF TypeOK, s
        <5> QED
          BY <5>1, <5>2 DEF InTransit, InQueue
      <4> QED
        BY <4>2, <4>3, <4>4
    <3>2. ASSUME NEW x \in Procs, At(x, "rpush"), proc[x].to = m, proc[x].out = msg
          PROVE  InTransit(m, msg)'
      BY <2>1, <2>3, <3>2 DEF InTransit, At
    <3>3. ASSUME NEW x \in Workers, proc[x].pc \in Receiving, ModuleOf[x] = m, proc[x].hash = msg
          PROVE  InTransit(m, msg)'
      BY <2>1, <2>3, <3>3 DEF InTransit, Receiving, Procs
    <3> QED
      BY <2>4, <3>1, <3>2, <3>3 DEF InTransit
  <2>5. \A m \in Modules, msg \in Message : InModule(m, msg) => InModule(m, msg)'
    BY <2>1, FrameInModule DEF Sending
  <2>6. obj_queues' = obj_queues /\ obj_modules' = obj_modules
    BY <1>1 DEF LpopMessage, tracking
  <2> QED
    BY <2>4, <2>5, <2>6 DEF EntriesJustified, QueueEntriesJustified, ModuleEntriesJustified
<1>2. CASE ReceiveSadd(w)
  BY <1>2, GotoEntries DEF ReceiveSadd, AddProcess, At, Receiving, Sending
<1>3. CASE ReceiveZaddType(w)
  BY <1>3, GotoEntries DEF ReceiveZaddType, AddType, At, Receiving, Sending
<1>4. CASE ReceiveZaddModule(w)
  \* The new entry is justified by w, which goes on to zremQueue.
  <2> DEFINE r == [proc[w] EXCEPT !.pc = "zremQueue"]
  <2>1. proc' = [proc EXCEPT ![w] = r] /\ r.pc = "zremQueue" /\ r.hash = proc[w].hash
        /\ proc[w].pc = "zaddModule" /\ proc'[w] = r
    BY <1>4 DEF ReceiveZaddModule, Goto, At, ProcOK, ProcType
  <2> HIDE DEF r
  <2>2. \A m \in Modules, msg \in Message : InTransit(m, msg) => InTransit(m, msg)'
    BY <1>4, <2>1, FrameInTransit DEF Receiving, ReceiveZaddModule
  <2>3. \A m \in Modules, msg \in Message : InModule(m, msg) => InModule(m, msg)'
    BY <2>1, FrameInModule DEF Sending
  <2>4. ASSUME NEW o \in Objs, NEW m \in Modules, NEW msg \in Message,
               Entry(m, msg) \in obj_modules'[o]
        PROVE  msg.obj = o /\ InModule(m, msg)'
    <3>1. CASE Entry(m, msg) \in obj_modules[o]
      BY <2>3, <3>1 DEF EntriesJustified, ModuleEntriesJustified
    <3>2. CASE Entry(m, msg) \notin obj_modules[o]
      <4>1. o = proc[w].obj /\ Entry(m, msg) = Entry(ModuleOf[w], proc[w].hash)
        BY <1>4, <2>4, <3>2 DEF ReceiveZaddModule, TypeOK
      <4>2. m = ModuleOf[w] /\ msg = proc[w].hash /\ msg.obj = o
        BY <2>1, <4>1 DEF Entry, LocalOK
      <4> QED
        BY <2>1, <4>2 DEF InModule
    <3> QED
      BY <3>1, <3>2
  <2>5. obj_queues' = obj_queues
    BY <1>4 DEF ReceiveZaddModule
  <2> QED
    BY <2>2, <2>4, <2>5 DEF EntriesJustified, QueueEntriesJustified, ModuleEntriesJustified
<1>5. CASE ReceiveZremQueue(w)
  \* The only entry that w justified, and no longer does, is the one removed.
  <2> DEFINE r == [proc[w] EXCEPT !.pc = "compute"]
  <2>1. proc' = [proc EXCEPT ![w] = r] /\ r.pc = "compute" /\ r.hash = proc[w].hash
        /\ proc[w].pc = "zremQueue" /\ \A x \in Procs \ {w} : proc'[x] = proc[x]
    BY <1>5 DEF ReceiveZremQueue, Goto, At, ProcOK, ProcType
  <2> HIDE DEF r
  <2>2. \A m \in Modules, msg \in Message : InModule(m, msg) => InModule(m, msg)'
    BY <2>1, FrameInModule
  <2>3. ASSUME NEW o \in Objs, NEW m \in Modules, NEW msg \in Message,
               Entry(m, msg) \in obj_queues'[o]
        PROVE  msg.obj = o /\ InTransit(m, msg)'
    <3>1. Entry(m, msg) \in obj_queues[o] /\ msg.obj = o /\ InTransit(m, msg)
      BY <1>5, <2>3 DEF ReceiveZremQueue, TypeOK, EntriesJustified, QueueEntriesJustified
    <3>2. ~(ModuleOf[w] = m /\ proc[w].hash = msg)
      BY <1>5, <2>1, <2>3, <3>1 DEF ReceiveZremQueue, TypeOK, LocalOK
    <3>3. queue' = queue
      BY <1>5 DEF ReceiveZremQueue
    <3> QED
      BY <2>1, <3>1, <3>2, <3>3 DEF InTransit, InQueue, At, Procs
  <2>4. obj_modules' = obj_modules
    BY <1>5 DEF ReceiveZremQueue
  <2> QED
    BY <2>2, <2>3, <2>4 DEF EntriesJustified, QueueEntriesJustified, ModuleEntriesJustified
<1> QED
  BY <1>1, <1>2, <1>3, <1>4, <1>5 DEF GetMessage

LEMMA StartSendEntries ==
  ASSUME ProcOK, EntriesJustified, NEW p \in Procs, NEW q, NEW msg,
         proc[p].pc \in {"idle", "compute"}, StartSend(p, msg, q),
         queue' = queue, obj_queues' = obj_queues, obj_modules' = obj_modules
  PROVE  EntriesJustified'
<1>1. PICK m \in Subscribers[q] :
        proc' = [proc EXCEPT ![p].pc = "sendSadd", ![p].out = msg, ![p].to = m,
                             ![p].todo = Subscribers[q] \ {m}, ![p].sent = @ + 1]
  BY DEF StartSend
<1> DEFINE r == [proc[p] EXCEPT !.pc = "sendSadd", !.out = msg, !.to = m,
                                !.todo = Subscribers[q] \ {m}, !.sent = @ + 1]
<1>2. proc' = [proc EXCEPT ![p] = r] /\ r.pc = "sendSadd" /\ r.hash = proc[p].hash
  BY <1>1 DEF ProcOK, ProcType
<1> HIDE DEF r
<1> QED
  BY <1>2, FrameEntries DEF Receiving, Sending

LEMMA SendMessageEntries ==
  ASSUME TypeOK, EntriesJustified, NEW p \in Procs, SendMessage(p)
  PROVE  EntriesJustified'
<1> ProcOK /\ proc[p] \in ProcType /\ LocalOK(p, proc[p])
  BY DEF TypeOK, ProcOK
<1>1. CASE SendSadd(p)
  BY <1>1, GotoEntries DEF SendSadd, AddProcess, At, Receiving, Sending
<1>2. CASE SendZaddType(p)
  BY <1>2, GotoEntries DEF SendZaddType, AddType, At, Receiving, Sending
<1>3. CASE SendZaddQueue(p)
  \* The new entry is justified by p, which is about to push the message.
  <2> DEFINE r == [proc[p] EXCEPT !.pc = "rpush"]
  <2>1. proc' = [proc EXCEPT ![p] = r] /\ r.pc = "rpush" /\ r.hash = proc[p].hash
        /\ r.to = proc[p].to /\ r.out = proc[p].out /\ proc[p].pc = "sendQueue" /\ proc'[p] = r
    BY <1>3 DEF SendZaddQueue, Goto, At, ProcOK, ProcType
  <2> HIDE DEF r
  <2>2. \A m \in Modules, msg \in Message : InTransit(m, msg) => InTransit(m, msg)'
    BY <1>3, <2>1, FrameInTransit DEF Receiving, SendZaddQueue
  <2>3. \A m \in Modules, msg \in Message : InModule(m, msg) => InModule(m, msg)'
    BY <2>1, FrameInModule DEF Sending
  <2>4. ASSUME NEW o \in Objs, NEW m \in Modules, NEW msg \in Message,
               Entry(m, msg) \in obj_queues'[o]
        PROVE  msg.obj = o /\ InTransit(m, msg)'
    <3>1. CASE Entry(m, msg) \in obj_queues[o]
      BY <2>2, <3>1 DEF EntriesJustified, QueueEntriesJustified
    <3>2. CASE Entry(m, msg) \notin obj_queues[o]
      <4>1. o = proc[p].out.obj /\ Entry(m, msg) = Entry(proc[p].to, proc[p].out)
        BY <1>3, <2>4, <3>2 DEF SendZaddQueue, TypeOK
      <4>2. m = proc[p].to /\ msg = proc[p].out /\ msg.obj = o
        BY <4>1 DEF Entry
      <4> QED
        BY <2>1, <4>2 DEF InTransit, At
    <3> QED
      BY <3>1, <3>2
  <2>5. obj_modules' = obj_modules
    BY <1>3 DEF SendZaddQueue
  <2> QED
    BY <2>3, <2>4, <2>5 DEF EntriesJustified, QueueEntriesJustified, ModuleEntriesJustified
<1>4. CASE SendRpush(p)
  \* The message that p was about to push is now in the queue.
  <2>0. proc[p].pc = "rpush" /\ proc[p].out \in Message /\ proc[p].to \in Modules
    BY <1>4 DEF SendRpush, At, LocalOK, Sending
  <2>1. PICK r : /\ proc' = [proc EXCEPT ![p] = r]
                 /\ p \in Workers => r.hash = proc[p].hash /\ r.pc \in {"compute", "sendSadd"}
    <3>1. CASE proc[p].todo # {}
      <4>1. PICK m \in proc[p].todo :
              proc' = [proc EXCEPT ![p].pc = "sendSadd", ![p].to = m, ![p].todo = @ \ {m}]
        BY <1>4, <3>1 DEF SendRpush
      <4> DEFINE r == [proc[p] EXCEPT !.pc = "sendSadd", !.to = m, !.todo = @ \ {m}]
      <4>2. proc' = [proc EXCEPT ![p] = r] /\ r.hash = proc[p].hash /\ r.pc = "sendSadd"
        BY <4>1 DEF ProcOK, ProcType
      <4> HIDE DEF r
      <4> QED
        BY <4>2
    <3>2. CASE proc[p].todo = {} /\ p \in Importers
      BY <1>4, <3>2, ConstantsAssumption DEF SendRpush
    <3>3. CASE proc[p].todo = {} /\ p \notin Importers
      BY <1>4, <3>3 DEF SendRpush, ProcOK, ProcType
    <3> QED
      BY <3>1, <3>2, <3>3
  <2>2. \A x \in Procs \ {p} : proc'[x] = proc[x]
    BY <2>1 DEF ProcOK
  <2>3. proc'[p] = r
    BY <2>1 DEF ProcOK
  <2>4. queue' = [queue EXCEPT ![proc[p].to] = Append(queue[proc[p].to], proc[p].out)]
    BY <1>4 DEF SendRpush
  <2>5. ASSUME NEW m \in Modules, NEW msg \in Message, InTransit(m, msg)
        PROVE  InTransit(m, msg)'
    <3> DEFINE s == queue[m]
    <3>0. s \in Seq(Message)
      BY DEF TypeOK
    <3>1. CASE InQueue(m, msg)
      <4>1. PICK k \in 1..Len(s) : s[k] = msg
        BY <3>0, <3>1 DEF InQueue
      <4>2. CASE m = proc[p].to
        <5>1. queue'[m] = Append(s, proc[p].out)
          BY <2>4, <4>2 DEF TypeOK
        <5> HIDE DEF s
        <5>2. k \in DOMAIN Append(s, proc[p].out) /\ Append(s, proc[p].out)[k] = msg
          BY <2>0, <3>0, <4>1
        <5> QED
          BY <5>1, <5>2 DEF InTransit, InQueue
      <4>3. CASE m # proc[p].to
        BY <2>4, <3>1, <4>3 DEF InTransit, InQueue, TypeOK
      <4> QED
        BY <4>2, <4>3
    <3>2. ASSUME NEW x \in Procs, At(x, "rpush"), proc[x].to = m, proc[x].out = msg
          PROVE  InTransit(m, msg)'
      <4>1. CASE x = p
        <5>1. queue'[m] = Append(s, msg)
          BY <2>4, <3>2, <4>1 DEF TypeOK
        <5> HIDE DEF s
        <5>2. Len(s) + 1 \in DOMAIN Append(s, msg) /\ Append(s, msg)[Len(s) + 1] = msg
          BY <3>0
        <5> QED
          BY <5>1, <5>2 DEF InTransit, InQueue
      <4>2. CASE x # p
        BY <2>2, <3>2, <4>2 DEF InTransit, At
      <4> QED
        BY <4>1, <4>2
    <3>3. ASSUME NEW x \in Workers, proc[x].pc \in Receiving, ModuleOf[x] = m, proc[x].hash = msg
          PROVE  InTransit(m, msg)'
      BY <2>0, <2>2, <3>3 DEF InTransit, Receiving, Procs
    <3> QED
      BY <2>5, <3>1, <3>2, <3>3 DEF InTransit
  <2>6. \A m \in Modules, msg \in Message : InModule(m, msg) => InModule(m, msg)'
    BY <2>1, <2>2, <2>3 DEF InModule, Sending, Procs
  <2>7. obj_queues' = obj_queues /\ obj_modules' = obj_modules
    BY <1>4 DEF SendRpush, tracking
  <2> QED
    BY <2>5, <2>6, <2>7 DEF EntriesJustified, QueueEntriesJustified, ModuleEntriesJustified
<1> QED
  BY <1>1, <1>2, <1>3, <1>4 DEF SendMessage

LEMMA EndProcessedObjEntries ==
  ASSUME TypeOK, EntriesJustified, NEW w \in Workers, EndProcessedObj(w)
  PROVE  EntriesJustified'
<1> w \in Procs /\ ProcOK /\ proc[w] \in ProcType /\ LocalOK(w, proc[w]) /\ ModuleOf[w] \in Modules
  BY ConstantsAssumption DEF Procs, TypeOK, ProcOK
<1>1. CASE EndMessage(w)
  \* The only entry that w justified, and no longer does, is the one removed.
  <2> DEFINE r == [proc[w] EXCEPT !.pc = "existsQueues"]
  <2>1. proc' = [proc EXCEPT ![w] = r] /\ r.pc = "existsQueues" /\ proc[w].pc = "compute"
        /\ \A x \in Procs \ {w} : proc'[x] = proc[x]
    BY <1>1 DEF EndMessage, Goto, At, ProcOK, ProcType
  <2> HIDE DEF r
  <2>2. \A m \in Modules, msg \in Message : InTransit(m, msg) => InTransit(m, msg)'
    BY <1>1, <2>1, FrameInTransit DEF Receiving, EndMessage
  <2>3. ASSUME NEW o \in Objs, NEW m \in Modules, NEW msg \in Message,
               Entry(m, msg) \in obj_modules'[o]
        PROVE  msg.obj = o /\ InModule(m, msg)'
    <3>1. Entry(m, msg) \in obj_modules[o] /\ msg.obj = o /\ InModule(m, msg)
      BY <1>1, <2>3 DEF EndMessage, TypeOK, EntriesJustified, ModuleEntriesJustified
    <3>2. ~(ModuleOf[w] = m /\ proc[w].hash = msg)
      BY <1>1, <2>1, <2>3, <3>1 DEF EndMessage, TypeOK, LocalOK
    <3> QED
      BY <2>1, <3>1, <3>2 DEF InModule, Procs
  <2>4. obj_queues' = obj_queues
    BY <1>1 DEF EndMessage
  <2> QED
    BY <2>2, <2>3, <2>4 DEF EntriesJustified, QueueEntriesJustified, ModuleEntriesJustified
<1>2. ASSUME NEW inUse \in BOOLEAN, NEW next, EndOrContinue(w, inUse, next),
             proc[w].pc \in Ending
      PROVE  EntriesJustified'
  <2> DEFINE r == IF inUse THEN Idle ELSE [proc[w] EXCEPT !.pc = next]
  <2>1. proc' = [proc EXCEPT ![w] = r] /\ queue' = queue /\ obj_queues' = obj_queues
        /\ obj_modules' = obj_modules
    BY <1>2 DEF EndOrContinue, tracking
  <2> HIDE DEF r
  <2> QED
    BY <1>2, <2>1, FrameEntries DEF Ending, Receiving, Sending
<1>3. CASE ExistsQueues(w)
  BY <1>2, <1>3 DEF ExistsQueues, At, Ending
<1>4. CASE ExistsModules(w)
  BY <1>2, <1>4 DEF ExistsModules, At, Ending
<1>5. CASE EndZremType(w)
  BY <1>5, GotoEntries DEF EndZremType, At, Receiving, Sending
<1>6. CASE EndSremProcess(w)
  BY <1>6, GotoEntries DEF EndSremProcess, At, Receiving, Sending
<1>7. CASE EndSaddProcessed(w)
  BY <1>7, FrameEntries DEF EndSaddProcessed, At, Receiving, Sending
<1> QED
  BY <1>1, <1>3, <1>4, <1>5, <1>6, <1>7 DEF EndProcessedObj

LEMMA SyncEntries ==
  ASSUME TypeOK, EntriesJustified, GetProcessedEndObj \/ Sweep \/ \E o \in Objs : GetOld(o)
  PROVE  EntriesJustified'
<1>1. proc' = proc /\ queue' = queue
  BY DEF GetProcessedEndObj, GetOld, Sweep, StartSweep, SweepNext, SweepQueues, SweepModules,
         SweepZremType, SweepSremProcess, SweepSaddProcessed
<1>2. /\ \A o \in Objs : obj_queues'[o] \subseteq obj_queues[o]
      /\ \A o \in Objs : obj_modules'[o] \subseteq obj_modules[o]
  BY DEF GetProcessedEndObj, GetOld, Sweep, StartSweep, SweepNext, SweepQueues, SweepModules,
         SweepZremType, SweepSremProcess, SweepSaddProcessed, tracking, TypeOK
<1> QED
  BY <1>1, <1>2, FrameSync

LEMMA NextEntries == TypeOK /\ EntriesJustified /\ [Next]_vars => EntriesJustified'
<1> SUFFICES ASSUME TypeOK, EntriesJustified, [Next]_vars PROVE EntriesJustified'
  OBVIOUS
<1>1. CASE UNCHANGED vars
  BY <1>1, FrameSync DEF vars
<1>2. ASSUME NEW w \in Workers, Worker(w) PROVE EntriesJustified'
  <2>1. w \in Procs /\ ProcOK
    BY DEF Procs, TypeOK
  <2>2. CASE ModuleSend(w)
    BY <2>1, <2>2, StartSendEntries DEF ModuleSend, At, tracking
  <2> QED
    BY <1>2, <2>1, <2>2, GetMessageEntries, SendMessageEntries, EndProcessedObjEntries DEF Worker
<1>3. ASSUME NEW i \in Importers, Importer(i) PROVE EntriesJustified'
  <2>1. i \in Procs /\ ProcOK
    BY DEF Procs, TypeOK
  <2>2. CASE ImporterSend(i)
    BY <2>1, <2>2, StartSendEntries DEF ImporterSend, At, tracking
  <2> QED
    BY <1>3, <2>1, <2>2, SendMessageEntries DEF Importer
<1> QED
  BY <1>1, <1>2, <1>3, SyncEntries DEF Next

\* The tracking never keeps a trace of a message that is gone: an object whose
\* messages were all handled has no entry left (ail_queues.py, add_processed_obj
\* and end_processed_obj).
THEOREM EntriesCorrect == Spec => []EntriesJustified
<1>1. Init => EntriesJustified
  BY DEF Init, EntriesJustified, QueueEntriesJustified, ModuleEntriesJustified
<1>2. TypeOK /\ EntriesJustified /\ [Next]_vars => EntriesJustified'
  BY NextEntries
<1> QED
  BY <1>1, <1>2, TypeCorrect, PTL DEF Spec

----------------------------------------------------------------------------
(***************************************************************************)
(* The object is handed to Sync_module: ObjQueues implements ObjHandover.  *)
(***************************************************************************)
\* While a module ends a message, an entry of its object belongs to someone else.
LEMMA OthersAtWork ==
  ASSUME TypeOK, EntriesJustified, NEW w \in Workers, proc[w].pc \in Ending,
         NEW o \in Objs, obj_queues[o] # {} \/ obj_modules[o] # {}
  PROVE  Queued(o) \/ \E p \in Procs \ {w} : Holds(p, o)
<1>1. PICK m \in Modules, msg \in Message :
        Entry(m, msg) \in obj_queues[o] \/ Entry(m, msg) \in obj_modules[o]
  <2>1. PICK e : e \in obj_queues[o] \/ e \in obj_modules[o]
    OBVIOUS
  <2>2. e \in Modules \X Message
    BY <2>1 DEF TypeOK
  <2>3. e[1] \in Modules /\ e[2] \in Message /\ e = <<e[1], e[2]>>
    BY <2>2
  <2> QED
    BY <2>1, <2>3 DEF Entry
<1>2. msg.obj = o /\ (InTransit(m, msg) \/ InModule(m, msg))
  BY <1>1 DEF EntriesJustified, QueueEntriesJustified, ModuleEntriesJustified
<1>3. \A x \in Workers : proc[x].pc # "idle" => proc[x].hash.obj = proc[x].obj
  BY DEF TypeOK, ProcOK, LocalOK, Procs
<1>4. Workers \subseteq Procs
  BY DEF Procs
<1>5. CASE InQueue(m, msg)
  BY <1>2, <1>5 DEF InQueue, Queued
<1>6. ASSUME NEW p \in Procs, At(p, "rpush"), proc[p].to = m, proc[p].out = msg
      PROVE  \E x \in Procs \ {w} : Holds(x, o)
  BY <1>2, <1>6 DEF Holds, At, Ending
<1>7. ASSUME NEW x \in Workers, proc[x].hash = msg,
             proc[x].pc \in Receiving \cup {"compute"} \cup Sending
      PROVE  \E y \in Procs \ {w} : Holds(y, o)
  <2>1. x # w /\ proc[x].pc # "idle"
    BY <1>7 DEF Ending, Receiving, Sending
  <2> QED
    BY <1>2, <1>3, <1>4, <1>7, <2>1 DEF Holds
<1> QED
  BY <1>2, <1>5, <1>6, <1>7 DEF InTransit, InModule, Receiving

\* The steps of ObjHandover, in terms of the variables of ObjQueues.
HandoverStep ==
  \/ busy' = busy /\ processed' = processed
  \/ \E o \in Objs :
       \/ busy' = busy \cup {o} /\ processed' = processed
       \/ busy' = busy /\ processed' = processed \cup {o}
       \/ o \in busy /\ busy' = busy \ {o} /\ processed' = processed \cup {o}
       \/ o \in processed /\ processed' = processed \ {o} /\ busy' = busy

\* A step of a process that leaves the objects it holds alone.
LEMMA SameHolds ==
  ASSUME ProcOK, NEW p \in Procs, NEW r, proc' = [proc EXCEPT ![p] = r], queue' = queue,
         r.obj = proc[p].obj, r.out = proc[p].out
  PROVE  busy' = busy
<1>1. \A x \in Procs : proc'[x].obj = proc[x].obj /\ proc'[x].out = proc[x].out
  BY DEF ProcOK
<1>2. \A o \in Objs : Outstanding(o)' <=> Outstanding(o)
  BY <1>1 DEF Outstanding, Queued, Holds
<1> QED
  BY <1>2 DEF busy

LEMMA GotoHolds ==
  ASSUME ProcOK, NEW p \in Procs, NEW pc, Goto(p, pc), queue' = queue
  PROVE  busy' = busy
<1> DEFINE r == [proc[p] EXCEPT !.pc = pc]
<1>1. proc' = [proc EXCEPT ![p] = r] /\ r.obj = proc[p].obj /\ r.out = proc[p].out
  BY DEF Goto, ProcOK, ProcType
<1> HIDE DEF r
<1> QED
  BY <1>1, SameHolds

LEMMA GetMessageHandover ==
  ASSUME TypeOK, NEW w \in Workers, GetMessage(w)
  PROVE  HandoverStep
<1> w \in Procs /\ ProcOK /\ ModuleOf[w] \in Modules
  BY ConstantsAssumption DEF Procs, TypeOK
<1>1. CASE LpopMessage(w)
  <2> DEFINE n == ModuleOf[w]
             s == queue[n]
             r == [Idle EXCEPT !.pc = "sadd", !.obj = Head(s).obj, !.hash = Head(s)]
  <2>1. proc' = [proc EXCEPT ![w] = r] /\ r.obj = Head(s).obj /\ r.out = NoMess
    BY <1>1 DEF LpopMessage, Idle
  <2>2. s \in Seq(Message) /\ s # <<>> /\ queue' = [queue EXCEPT ![n] = Tail(s)]
    BY <1>1 DEF LpopMessage, TypeOK
  <2>3. proc[w].obj = NoObj /\ proc[w].out = NoMess
    BY <1>1 DEF LpopMessage, At, ProcOK, LocalOK, Sending
  <2>4. proc'[w].obj = Head(s).obj /\ proc'[w].out = NoMess
        /\ \A x \in Procs \ {w} : proc'[x] = proc[x]
    BY <2>1 DEF ProcOK
  <2>5. Head(s).obj \in Objs
    <3>1. Head(s) \in Message
      BY <2>2
    <3> QED
      BY <3>1 DEF Message
  <2>6. ASSUME NEW o \in Objs PROVE Outstanding(o)' <=> Outstanding(o)
    <3>1. NoObj # o /\ NoMess.obj # o
      BY ConstantsAssumption DEF NoMess
    <3>2. ASSUME Outstanding(o) PROVE Outstanding(o)'
      <4>1. ASSUME NEW x \in Procs, Holds(x, o) PROVE Outstanding(o)'
        BY <2>3, <2>4, <3>1, <4>1 DEF Outstanding, Holds
      <4>2. ASSUME NEW m \in Modules, NEW k \in DOMAIN queue[m], queue[m][k].obj = o
            PROVE  Outstanding(o)'
        <5>1. CASE m # n
          BY <2>2, <4>2, <5>1 DEF Outstanding, Queued, TypeOK
        <5>2. CASE m = n /\ k = 1
          BY <2>2, <2>4, <4>2, <5>2 DEF Outstanding, Holds
        <5>3. CASE m = n /\ k # 1
          <6>1. s \in Seq(Message) /\ k \in 1..Len(s) /\ k # 1 /\ s[k].obj = o
            BY <2>2, <4>2, <5>3
          <6>2. queue'[m] = Tail(s)
            BY <2>2, <5>3 DEF TypeOK
          <6> HIDE DEF s
          <6>3. k - 1 \in DOMAIN Tail(s) /\ Tail(s)[k - 1] = s[k]
            BY <6>1
          <6> QED
            BY <6>1, <6>2, <6>3 DEF Outstanding, Queued
        <5> QED
          BY <5>1, <5>2, <5>3
      <4> QED
        BY <3>2, <4>1, <4>2 DEF Outstanding, Queued
    <3>3. ASSUME Outstanding(o)' PROVE Outstanding(o)
      <4>1. ASSUME NEW x \in Procs, Holds(x, o)' PROVE Outstanding(o)
        <5>1. CASE x = w
          <6>1. Head(s).obj = o
            BY <2>4, <3>1, <4>1, <5>1 DEF Holds
          <6>2. 1 \in DOMAIN s /\ s[1].obj = o
            BY <2>2, <6>1
          <6> QED
            BY <6>2 DEF Outstanding, Queued
        <5>2. CASE x # w
          BY <2>4, <4>1, <5>2 DEF Outstanding, Holds
        <5> QED
          BY <5>1, <5>2
      <4>2. ASSUME NEW m \in Modules, NEW k \in DOMAIN queue'[m], queue'[m][k].obj = o
            PROVE  Outstanding(o)
        <5>1. CASE m # n
          BY <2>2, <4>2, <5>1 DEF Outstanding, Queued, TypeOK
        <5>2. CASE m = n
          <6>1. queue'[m] = Tail(s)
            BY <2>2, <5>2 DEF TypeOK
          <6>2. s \in Seq(Message) /\ s # <<>> /\ k \in DOMAIN Tail(s) /\ Tail(s)[k].obj = o
            BY <2>2, <4>2, <6>1
          <6> HIDE DEF s
          <6>3. k + 1 \in DOMAIN s /\ s[k + 1].obj = o
            BY <6>2
          <6> QED
            BY <6>3 DEF Outstanding, Queued, s
        <5> QED
          BY <5>1, <5>2
      <4> QED
        BY <3>3, <4>1, <4>2 DEF Outstanding, Queued
    <3> QED
      BY <3>2, <3>3
  <2>7. processed' = processed
    BY <1>1 DEF LpopMessage, tracking
  <2> QED
    BY <2>6, <2>7 DEF HandoverStep, busy
<1>2. CASE ReceiveSadd(w)
  BY <1>2, GotoHolds DEF ReceiveSadd, AddProcess, HandoverStep
<1>3. CASE ReceiveZaddType(w)
  BY <1>3, GotoHolds DEF ReceiveZaddType, AddType, HandoverStep
<1>4. CASE ReceiveZaddModule(w)
  BY <1>4, GotoHolds DEF ReceiveZaddModule, HandoverStep
<1>5. CASE ReceiveZremQueue(w)
  BY <1>5, GotoHolds DEF ReceiveZremQueue, HandoverStep
<1> QED
  BY <1>1, <1>2, <1>3, <1>4, <1>5 DEF GetMessage

\* A process that starts to send: its message is outstanding from here on.
LEMMA StartSendHandover ==
  ASSUME ProcOK, NEW p \in Procs, NEW q, NEW msg \in Message,
         proc[p].pc \in {"idle", "compute"}, StartSend(p, msg, q),
         queue' = queue, processed' = processed
  PROVE  HandoverStep
<1>1. PICK m \in Subscribers[q] :
        proc' = [proc EXCEPT ![p].pc = "sendSadd", ![p].out = msg, ![p].to = m,
                             ![p].todo = Subscribers[q] \ {m}, ![p].sent = @ + 1]
  BY DEF StartSend
<1>2. proc'[p].obj = proc[p].obj /\ proc'[p].out = msg
      /\ \A x \in Procs \ {p} : proc'[x] = proc[x]
  BY <1>1 DEF ProcOK, ProcType
<1>3. proc[p].out = NoMess
  BY DEF ProcOK, LocalOK, Sending
<1>4. msg.obj \in Objs
  BY DEF Message
<1>5. ASSUME NEW o \in Objs PROVE Outstanding(o)' <=> (Outstanding(o) \/ o = msg.obj)
  <2>1. NoMess.obj # o
    BY ConstantsAssumption DEF NoMess
  <2>2. \A x \in Procs : Holds(x, o)' <=> (Holds(x, o) \/ (x = p /\ o = msg.obj))
    BY <1>2, <1>3, <2>1 DEF Holds
  <2> QED
    BY <2>2 DEF Outstanding, Queued
<1>6. busy' = busy \cup {msg.obj}
  BY <1>4, <1>5 DEF busy
<1> QED
  BY <1>4, <1>6 DEF HandoverStep

\* During a send the message is held by its sender, then in a queue.
LEMMA SendMessageHandover ==
  ASSUME TypeOK, NEW p \in Procs, SendMessage(p)
  PROVE  HandoverStep
<1> ProcOK /\ proc[p] \in ProcType /\ LocalOK(p, proc[p])
  BY DEF TypeOK, ProcOK
<1>1. CASE SendSadd(p)
  BY <1>1, GotoHolds DEF SendSadd, AddProcess, HandoverStep
<1>2. CASE SendZaddType(p)
  BY <1>2, GotoHolds DEF SendZaddType, AddType, HandoverStep
<1>3. CASE SendZaddQueue(p)
  BY <1>3, GotoHolds DEF SendZaddQueue, HandoverStep
<1>4. CASE SendRpush(p)
  <2> DEFINE t == proc[p].to
             s == queue[t]
             msg == proc[p].out
  <2>1. t \in Modules /\ msg \in Message /\ s \in Seq(Message)
    BY <1>4 DEF SendRpush, At, LocalOK, Sending, TypeOK
  <2>2. queue' = [queue EXCEPT ![t] = Append(s, msg)] /\ processed' = processed
    BY <1>4 DEF SendRpush, tracking
  <2>3. proc'[p].obj = proc[p].obj /\ proc'[p].out \in {msg, NoMess}
        /\ \A x \in Procs \ {p} : proc'[x] = proc[x]
    <3>1. CASE proc[p].todo # {}
      <4>1. PICK m \in proc[p].todo :
              proc' = [proc EXCEPT ![p].pc = "sendSadd", ![p].to = m, ![p].todo = @ \ {m}]
        BY <1>4, <3>1 DEF SendRpush
      <4> QED
        BY <4>1 DEF ProcOK, ProcType
    <3>2. CASE proc[p].todo = {} /\ p \in Importers
      BY <1>4, <3>2 DEF SendRpush, ProcOK, LocalOK, Idle
    <3>3. CASE proc[p].todo = {} /\ p \notin Importers
      BY <1>4, <3>3 DEF SendRpush, ProcOK, ProcType
    <3> QED
      BY <3>1, <3>2, <3>3
  <2>4. ASSUME NEW o \in Objs, NEW m \in Modules
        PROVE  (\E k \in DOMAIN queue'[m] : queue'[m][k].obj = o)
                 <=> (\E k \in DOMAIN queue[m] : queue[m][k].obj = o) \/ (m = t /\ msg.obj = o)
    <3>1. CASE m # t
      BY <2>2, <3>1 DEF TypeOK
    <3>2. CASE m = t
      <4>1. queue'[m] = Append(s, msg)
        BY <2>1, <2>2, <3>2 DEF TypeOK
      <4>2. s = queue[m]
        BY <3>2
      <4> HIDE DEF s, msg, t
      <4>3. /\ DOMAIN Append(s, msg) = DOMAIN s \cup {Len(s) + 1}
            /\ Append(s, msg)[Len(s) + 1] = msg
            /\ \A k \in DOMAIN s : Append(s, msg)[k] = s[k]
        BY <2>1
      <4> QED
        BY <3>2, <4>1, <4>2, <4>3
    <3> QED
      BY <3>1, <3>2
  <2>5. ASSUME NEW o \in Objs PROVE Outstanding(o)' <=> Outstanding(o)
    <3>1. NoMess.obj # o
      BY ConstantsAssumption DEF NoMess
    <3>2. Queued(o)' <=> Queued(o) \/ msg.obj = o
      BY <2>1, <2>4 DEF Queued
    <3>3. \A x \in Procs \ {p} : Holds(x, o)' <=> Holds(x, o)
      BY <2>3 DEF Holds
    <3>4. Holds(p, o) <=> proc[p].obj = o \/ msg.obj = o
      BY DEF Holds
    <3>5. /\ Holds(p, o)' => proc[p].obj = o \/ msg.obj = o
          /\ proc[p].obj = o => Holds(p, o)'
      BY <2>3, <3>1 DEF Holds
    <3> QED
      BY <3>2, <3>3, <3>4, <3>5 DEF Outstanding
  <2> QED
    BY <2>2, <2>5 DEF HandoverStep, busy
<1> QED
  BY <1>1, <1>2, <1>3, <1>4 DEF SendMessage

\* A module that leaves end_processed_obj: either others still have the object,
\* or it was the last and inserts it in objs:processed.
LEMMA EndProcessedObjHandover ==
  ASSUME TypeOK, EntriesJustified, NEW w \in Workers, EndProcessedObj(w)
  PROVE  HandoverStep
<1> w \in Procs /\ ProcOK /\ w \notin Importers /\ LocalOK(w, proc[w])
  BY ConstantsAssumption DEF Procs, TypeOK, ProcOK
<1>a. PICK o \in Objs : o = proc[w].obj
  BY DEF EndProcessedObj, EndMessage, ExistsQueues, ExistsModules, EndZremType,
         EndSremProcess, EndSaddProcessed, At, LocalOK
<1>0. proc[w].obj = o /\ proc[w].out = NoMess /\ NoMess.obj = NoObj /\ NoObj \notin Objs
  BY <1>a, ConstantsAssumption
  DEF EndProcessedObj, EndMessage, ExistsQueues, ExistsModules, EndZremType,
      EndSremProcess, EndSaddProcessed, At, LocalOK, Sending, NoMess
<1>1. CASE EndMessage(w)
  BY <1>1, GotoHolds DEF EndMessage, HandoverStep
\* When w drops its object, every other object is as outstanding as before.
<1>2. ASSUME proc' = [proc EXCEPT ![w] = Idle], queue' = queue
      PROVE  /\ \A x \in Objs \ {o} : Outstanding(x)' <=> Outstanding(x)
             /\ Outstanding(o)' <=> Queued(o) \/ \E p \in Procs \ {w} : Holds(p, o)
             /\ o \in busy
  <2>1. proc'[w].obj = NoObj /\ proc'[w].out = NoMess
        /\ \A x \in Procs \ {w} : proc'[x] = proc[x]
    BY <1>2 DEF ProcOK, Idle
  <2>2. \A x \in Objs : ~Holds(w, x)' /\ (Holds(w, x) <=> x = o)
    BY <1>0, <2>1 DEF Holds
  <2>3. \A x \in Objs : \A p \in Procs \ {w} : Holds(p, x)' <=> Holds(p, x)
    BY <2>1 DEF Holds
  <2>4. \A x \in Objs : Queued(x)' <=> Queued(x)
    BY <1>2 DEF Queued
  <2>5. ASSUME NEW x \in Objs, x # o PROVE Outstanding(x)' <=> Outstanding(x)
    <3>1. Outstanding(x)' <=> Queued(x) \/ \E p \in Procs \ {w} : Holds(p, x)
      BY <2>2, <2>3, <2>4 DEF Outstanding
    <3>2. Outstanding(x) <=> Queued(x) \/ \E p \in Procs \ {w} : Holds(p, x)
      BY <2>2, <2>5 DEF Outstanding
    <3> QED
      BY <3>1, <3>2
  <2>6. Outstanding(o)' <=> Queued(o) \/ \E p \in Procs \ {w} : Holds(p, o)
    BY <1>0, <2>2, <2>3, <2>4 DEF Outstanding
  <2>7. Holds(w, o)
    BY <1>0, <2>2
  <2>8. o \in busy
    BY <1>0, <2>7 DEF Outstanding, busy
  <2> QED
    BY <2>5, <2>6, <2>8
<1>3. ASSUME NEW inUse \in BOOLEAN, NEW next, EndOrContinue(w, inUse, next),
             inUse => (obj_queues[o] # {} \/ obj_modules[o] # {}),
             proc[w].pc \in Ending
      PROVE  HandoverStep
  <2>1. CASE inUse
    <3>1. proc' = [proc EXCEPT ![w] = Idle] /\ queue' = queue /\ processed' = processed
      BY <1>3, <2>1 DEF EndOrContinue, tracking
    <3>2. Queued(o) \/ \E p \in Procs \ {w} : Holds(p, o)
      BY <1>0, <1>3, <2>1, OthersAtWork
    <3>3. o \in busy /\ Outstanding(o)'
      BY <1>2, <3>1, <3>2
    <3>4. \A x \in Objs \ {o} : Outstanding(x)' <=> Outstanding(x)
      BY <1>2, <3>1
    <3>5. busy' = busy
      BY <3>3, <3>4 DEF busy
    <3> QED
      BY <3>1, <3>5 DEF HandoverStep
  <2>2. CASE ~inUse
    <3>1. Goto(w, next) /\ queue' = queue /\ processed' = processed
      BY <1>3, <2>2 DEF EndOrContinue, tracking, Goto
    <3> QED
      BY <3>1, GotoHolds DEF HandoverStep
  <2> QED
    BY <2>1, <2>2
<1>4. CASE ExistsQueues(w)
  BY <1>0, <1>3, <1>4 DEF ExistsQueues, At, Ending
<1>5. CASE ExistsModules(w)
  BY <1>0, <1>3, <1>5 DEF ExistsModules, At, Ending
<1>6. CASE EndZremType(w)
  BY <1>6, GotoHolds DEF EndZremType, HandoverStep
<1>7. CASE EndSremProcess(w)
  BY <1>7, GotoHolds DEF EndSremProcess, HandoverStep
<1>8. CASE EndSaddProcessed(w)
  <2>1. proc' = [proc EXCEPT ![w] = Idle] /\ queue' = queue /\ processed' = processed \cup {o}
    BY <1>0, <1>8 DEF EndSaddProcessed
  <2>2. busy' = busy \/ busy' = busy \ {o}
    BY <1>0, <1>2, <2>1 DEF busy
  <2> QED
    BY <1>0, <1>2, <2>1, <2>2 DEF HandoverStep
<1> QED
  BY <1>1, <1>4, <1>5, <1>6, <1>7, <1>8 DEF EndProcessedObj

LEMMA SyncHandover ==
  ASSUME TypeOK, GetProcessedEndObj \/ Sweep \/ \E o \in Objs : GetOld(o)
  PROVE  HandoverStep
<1>1. proc' = proc /\ queue' = queue
  BY DEF GetProcessedEndObj, GetOld, Sweep, StartSweep, SweepNext, SweepQueues, SweepModules,
         SweepZremType, SweepSremProcess, SweepSaddProcessed
<1>2. busy' = busy
  BY <1>1 DEF busy, Outstanding, Queued, Holds
<1>3. CASE GetProcessedEndObj
  BY <1>2, <1>3 DEF GetProcessedEndObj, HandoverStep, TypeOK
<1>4. CASE SweepSaddProcessed
  BY <1>2, <1>4 DEF SweepSaddProcessed, HandoverStep, TypeOK
<1>5. CASE \/ StartSweep \/ SweepNext \/ SweepQueues \/ SweepModules \/ SweepZremType
           \/ SweepSremProcess \/ \E o \in Objs : GetOld(o)
  BY <1>2, <1>5 DEF StartSweep, SweepNext, SweepQueues, SweepModules, SweepZremType,
                    SweepSremProcess, GetOld, HandoverStep, tracking
<1> QED
  BY <1>3, <1>4, <1>5 DEF Sweep

LEMMA NextHandover == TypeOK /\ EntriesJustified /\ [Next]_vars => HandoverStep
<1> SUFFICES ASSUME TypeOK, EntriesJustified, [Next]_vars PROVE HandoverStep
  OBVIOUS
<1>1. CASE UNCHANGED vars
  BY <1>1 DEF vars, HandoverStep, busy, Outstanding, Queued, Holds
<1>2. ASSUME NEW w \in Workers, Worker(w) PROVE HandoverStep
  <2>1. w \in Procs /\ ProcOK
    BY DEF Procs, TypeOK
  <2>2. CASE ModuleSend(w)
    BY <2>1, <2>2, StartSendHandover DEF ModuleSend, At, tracking
  <2> QED
    BY <1>2, <2>1, <2>2, GetMessageHandover, SendMessageHandover, EndProcessedObjHandover DEF Worker
<1>3. ASSUME NEW i \in Importers, Importer(i) PROVE HandoverStep
  <2>1. i \in Procs /\ ProcOK
    BY DEF Procs, TypeOK
  <2>2. CASE ImporterSend(i)
    BY <2>1, <2>2, StartSendHandover DEF ImporterSend, At, tracking
  <2> QED
    BY <1>3, <2>1, <2>2, SendMessageHandover DEF Importer
<1> QED
  BY <1>1, <1>2, <1>3, SyncHandover DEF Next

\* The queues and the tracking implement ObjHandover: an object on which work is
\* outstanding stops being so only when it is handed to Sync_module, whatever
\* the interleaving of the Redis commands of the modules.
THEOREM ImplementsHandover == Spec => HandoverSpec
<1>1. Init => Handover!Init
  BY ConstantsAssumption
  DEF Init, Handover!Init, busy, Outstanding, Queued, Holds, Idle, NoMess
<1>2. TypeOK /\ EntriesJustified /\ [Next]_vars => [Handover!Next]_<<busy, processed>>
  BY NextHandover
  DEF HandoverStep, Handover!Next, Handover!Accept, Handover!HandOver, Handover!Complete,
      Handover!Take
<1> QED
  BY <1>1, <1>2, TypeCorrect, EntriesCorrect, PTL DEF Spec, HandoverSpec, Handover!Spec

\* owed and processed lose an object together, when Sync_module takes it, and
\* owed gets an object when a module ends a message of it.
LEMMA NextOwed ==
  TypeOK /\ [Next]_vars =>
    /\ \A o \in owed' : o \in owed \/ o \in busy'
    /\ \A o \in processed : o \in processed' \/ o \notin owed'
<1> SUFFICES ASSUME TypeOK, [Next]_vars
             PROVE  /\ \A o \in owed' : o \in owed \/ o \in busy'
                    /\ \A o \in processed : o \in processed' \/ o \notin owed'
  OBVIOUS
<1>1. CASE GetProcessedEndObj
  BY <1>1 DEF GetProcessedEndObj
<1>2. ASSUME NEW w \in Workers, EndMessage(w)
      PROVE  owed' \subseteq owed \cup busy' /\ processed' = processed
  <2>1. w \in Procs /\ ProcOK
    BY DEF Procs, TypeOK
  <2>2. proc[w].obj \in Objs
    BY <1>2, <2>1 DEF EndMessage, At, ProcOK, LocalOK
  <2>3. proc'[w].obj = proc[w].obj
    BY <1>2, <2>1 DEF EndMessage, Goto, ProcOK, ProcType
  <2>4. proc[w].obj \in busy'
    BY <2>1, <2>2, <2>3 DEF busy, Outstanding, Holds
  <2> QED
    BY <1>2, <2>4 DEF EndMessage
<1>3. CASE UNCHANGED vars
  BY <1>3 DEF vars
<1>4. ASSUME NEW w \in Workers, Worker(w), ~EndMessage(w)
      PROVE  owed' = owed /\ processed \subseteq processed'
  BY <1>4 DEF Worker, GetMessage, SendMessage, EndProcessedObj, LpopMessage, ReceiveSadd,
              ReceiveZaddType, ReceiveZaddModule, ReceiveZremQueue, ModuleSend, SendSadd,
              SendZaddType, SendZaddQueue, SendRpush, ExistsQueues, ExistsModules, EndZremType,
              EndSremProcess, EndSaddProcessed, AddProcess, AddType, EndOrContinue, tracking
<1>5. ASSUME NEW i \in Importers, Importer(i)
      PROVE  owed' = owed /\ processed \subseteq processed'
  BY <1>5 DEF Importer, ImporterSend, SendMessage, SendSadd, SendZaddType, SendZaddQueue,
              SendRpush, AddProcess, AddType, tracking
<1>6. CASE Sweep \/ \E o \in Objs : GetOld(o)
  BY <1>6 DEF Sweep, StartSweep, SweepNext, SweepQueues, SweepModules, SweepZremType,
              SweepSremProcess, SweepSaddProcessed, GetOld, tracking
<1> QED
  BY <1>1, <1>2, <1>3, <1>4, <1>5, <1>6 DEF Next

\* Work that a module finished on an object is never forgotten: the object is in
\* objs:processed, or a message of it is outstanding and whoever handles the last
\* one will insert it (ail_queues.py, end_processed_obj).
THEOREM NothingForgotten == Spec => []NoWorkForgotten
<1>1. Init => NoWorkForgotten
  BY DEF Init, NoWorkForgotten
<1>2. TypeOK /\ EntriesJustified /\ NoWorkForgotten /\ [Next]_vars => NoWorkForgotten'
  <2> SUFFICES ASSUME TypeOK, TypeOK', EntriesJustified, NoWorkForgotten, [Next]_vars
               PROVE  NoWorkForgotten'
    BY NextTypeOK
  <2>1. HandoverStep
    BY NextHandover
  <2>2. /\ \A o \in owed' : o \in owed \/ o \in busy'
        /\ \A o \in processed : o \in processed' \/ o \notin owed'
    BY NextOwed
  <2>3. ASSUME NEW o \in owed' PROVE o \in processed' \/ o \in busy'
    <3>1. CASE o \in owed /\ o \in processed
      BY <2>2, <3>1
    <3>2. CASE o \in owed /\ o \in busy
      BY <2>1, <2>2, <3>2 DEF HandoverStep
    <3>3. o \in owed => o \in processed \/ o \in busy
      BY DEF NoWorkForgotten, busy, TypeOK
    <3> QED
      BY <2>2, <3>1, <3>2, <3>3
  <2> QED
    BY <2>3 DEF NoWorkForgotten, busy
<1> QED
  BY <1>1, <1>2, TypeCorrect, EntriesCorrect, PTL DEF Spec
=============================================================================
