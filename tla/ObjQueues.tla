----------------------------- MODULE ObjQueues -----------------------------
(***************************************************************************)
(* The message queues between AIL modules and the tracking of the objects  *)
(* that travel through them: lib/ail_queues.py, the run loop of            *)
(* modules/abstract_module.py, and the loop of core/Sync_module.py that    *)
(* takes the objects whose processing is complete.                         *)
(*                                                                         *)
(* Every process (importer, module, Sync_module) talks to Redis one        *)
(* command at a time and no transaction is used, so one action here is one *)
(* Redis command and the processes interleave between any two of them.     *)
(*                                                                         *)
(*   queue[m]        list    queue:<m>:in                                  *)
(*   process         set     objs:process                                  *)
(*   byType          zset    objs:process:<type>  (old: score over 48h)    *)
(*   obj_queues[o]   zset    obj:queues:<gid>     members <module>:<hash>  *)
(*   obj_modules[o]  zset    obj:modules:<gid>    members <module>:<hash>  *)
(*   processed       set     objs:processed                                *)
(*                                                                         *)
(* A message is '<gid>;<payload>'; its xxh3 hash stands for it, so the     *)
(* message itself is used where the code uses m_hash.                      *)
(***************************************************************************)
EXTENDS Naturals, Sequences, FiniteSets

CONSTANTS
    Objs,         \* global ids
    TimedObjs,    \* those whose type is listed by ail_core.get_obj_queued()
    Payloads,     \* payloads of messages
    Modules,      \* modules that subscribe to a queue
    Workers,      \* processes that run a module (one per launched module)
    Importers,    \* processes that only send: importers, feeders, crawler
    ModuleOf,     \* the module each worker runs
    QueueNames,   \* queue names of configs/modules.cfg
    Publish,      \* the queue names each process publishes to
    Subscribers,  \* the modules that subscribe to each queue name
    Renamers,     \* workers of Mixer and Global, which may rename an object
    NoObj,        \* self.obj is None
    MaxImports,   \* bound: messages sent by importers in a behaviour
    MaxSends      \* bound: messages a module sends while it handles one

Procs == Workers \cup Importers
Message == [obj : Objs, mess : Payloads]

ASSUME ConstantsAssumption ==
    /\ TimedObjs \subseteq Objs
    /\ NoObj \notin Objs
    /\ Workers \cap Importers = {}
    /\ ModuleOf \in [Workers -> Modules]
    /\ Publish \in [Procs -> SUBSET QueueNames]
    /\ Subscribers \in [QueueNames -> SUBSET Modules]
    /\ Renamers \subseteq Workers
    /\ MaxImports \in Nat
    /\ MaxSends \in Nat

\* The message variable of a process that handles, or sends, nothing.
NoMess == [obj |-> NoObj, mess |-> NoObj]

VARIABLES
    queue, process, byType, obj_queues, obj_modules, processed,
    proc,      \* program counter and local variables of each process
    sync,      \* program counter and local variables of Sync_module
    old,       \* members of byType whose score is more than 48 hours old
    imports,   \* messages sent by importers so far
    owed       \* objects a module finished with since Sync_module last took them

tracking == <<process, byType, obj_queues, obj_modules, processed>>
vars == <<queue, process, byType, obj_queues, obj_modules, processed,
          proc, sync, old, imports, owed>>

(***************************************************************************)
(* Program counters, named for the command that comes next.                *)
(***************************************************************************)
Receiving == {"sadd", "zaddType", "zaddModule", "zremQueue"}
Sending   == {"sendSadd", "sendType", "sendQueue", "rpush"}
Ending    == {"existsQueues", "existsModules", "zremType", "sremProcess", "saddProcessed"}

Idle == [pc |-> "idle", obj |-> NoObj, hash |-> NoMess, out |-> NoMess,
         to |-> NoObj, todo |-> {}, sent |-> 0]
SyncIdle == [pc |-> "idle", objs |-> {}, obj |-> NoObj, entries |-> {}]

Init ==
    /\ queue = [m \in Modules |-> <<>>]
    /\ process = {} /\ byType = {} /\ processed = {}
    /\ obj_queues = [o \in Objs |-> {}]
    /\ obj_modules = [o \in Objs |-> {}]
    /\ proc = [p \in Procs |-> Idle]
    /\ sync = SyncIdle
    /\ old = {}
    /\ imports = 0
    /\ owed = {}

At(p, pc) == proc[p].pc = pc
Goto(p, pc) == proc' = [proc EXCEPT ![p].pc = pc]
Entry(m, msg) == <<m, msg>>

----------------------------------------------------------------------------
(***************************************************************************)
(* get_message: LPOP, then add_processed_obj(gid, hash, module=name).      *)
(***************************************************************************)
LpopMessage(w) ==
    LET m == ModuleOf[w] IN
    /\ At(w, "idle")
    /\ queue[m] # <<>>
    /\ queue' = [queue EXCEPT ![m] = Tail(@)]
    /\ proc' = [proc EXCEPT ![w] = [Idle EXCEPT !.pc = "sadd",
                                                !.obj = Head(queue[m]).obj,
                                                !.hash = Head(queue[m])]]
    /\ UNCHANGED <<tracking, sync, old, imports, owed>>

\* sadd(objs:process): only the call that inserts goes on to the zset of the type.
AddProcess(p, o, known, new) ==
    /\ process' = process \cup {o}
    /\ Goto(p, IF o \in process THEN known ELSE new)
    /\ UNCHANGED <<queue, byType, obj_queues, obj_modules, processed, sync, old, imports, owed>>

\* zadd(objs:process:<type>, now): a fresh score, so the member is not old.
AddType(p, o, next) ==
    /\ byType' = byType \cup {o}
    /\ old' = old \ {o}
    /\ Goto(p, next)
    /\ UNCHANGED <<queue, process, obj_queues, obj_modules, processed, sync, imports, owed>>

ReceiveSadd(w) ==
    /\ At(w, "sadd")
    /\ AddProcess(w, proc[w].obj, "zaddModule", "zaddType")

ReceiveZaddType(w) ==
    /\ At(w, "zaddType")
    /\ AddType(w, proc[w].obj, "zaddModule")

ReceiveZaddModule(w) ==
    /\ At(w, "zaddModule")
    /\ obj_modules' = [obj_modules EXCEPT
                         ![proc[w].obj] = @ \cup {Entry(ModuleOf[w], proc[w].hash)}]
    /\ Goto(w, "zremQueue")
    /\ UNCHANGED <<queue, process, byType, obj_queues, processed, sync, old, imports, owed>>

\* Mutant: the entry of the queue is looked up by another hash.
MutantZremOtherHash(w) ==
    /\ At(w, "zremQueue")
    /\ Goto(w, "compute")
    /\ UNCHANGED <<queue, tracking, sync, old, imports, owed>>

ReceiveZremQueue(w) ==
    /\ At(w, "zremQueue")
    /\ obj_queues' = [obj_queues EXCEPT
                         ![proc[w].obj] = @ \ {Entry(ModuleOf[w], proc[w].hash)}]
    /\ Goto(w, "compute")
    /\ UNCHANGED <<queue, process, byType, obj_modules, processed, sync, old, imports, owed>>

----------------------------------------------------------------------------
(***************************************************************************)
(* send_message: for each subscriber, add_processed_obj(gid, hash,         *)
(* queue=module) and RPUSH.  A module sends from compute(), for its own    *)
(* object or another one; an importer sends when new data comes in.        *)
(***************************************************************************)
StartSend(p, msg, q) ==
    \E m \in Subscribers[q] :
        proc' = [proc EXCEPT ![p].pc = "sendSadd", ![p].out = msg,
                             ![p].to = m, ![p].todo = Subscribers[q] \ {m},
                             ![p].sent = @ + 1]

ModuleSend(w) ==
    /\ At(w, "compute")
    /\ proc[w].sent < MaxSends
    /\ \E q \in Publish[w], msg \in Message : StartSend(w, msg, q)
    /\ UNCHANGED <<queue, tracking, sync, old, imports, owed>>

ImporterSend(i) ==
    /\ At(i, "idle")
    /\ imports < MaxImports
    /\ imports' = imports + 1
    /\ \E q \in Publish[i], msg \in Message : StartSend(i, msg, q)
    /\ UNCHANGED <<queue, tracking, sync, old, owed>>

SendSadd(p) ==
    /\ At(p, "sendSadd")
    /\ AddProcess(p, proc[p].out.obj, "sendQueue", "sendType")

SendZaddType(p) ==
    /\ At(p, "sendType")
    /\ AddType(p, proc[p].out.obj, "sendQueue")

SendZaddQueue(p) ==
    /\ At(p, "sendQueue")
    /\ obj_queues' = [obj_queues EXCEPT
                         ![proc[p].out.obj] = @ \cup {Entry(proc[p].to, proc[p].out)}]
    /\ Goto(p, "rpush")
    /\ UNCHANGED <<queue, process, byType, obj_modules, processed, sync, old, imports, owed>>

SendRpush(p) ==
    /\ At(p, "rpush")
    /\ queue' = [queue EXCEPT ![proc[p].to] = Append(@, proc[p].out)]
    /\ IF proc[p].todo # {}
       THEN \E m \in proc[p].todo :
              proc' = [proc EXCEPT ![p].pc = "sendSadd", ![p].to = m,
                                   ![p].todo = @ \ {m}]
       ELSE IF p \in Importers
       THEN proc' = [proc EXCEPT ![p] = Idle]
       ELSE proc' = [proc EXCEPT ![p].pc = "compute", ![p].out = NoMess, ![p].to = NoObj]
    /\ UNCHANGED <<tracking, sync, old, imports, owed>>

----------------------------------------------------------------------------
(***************************************************************************)
(* end_message, once compute() returned or raised: end_processed_obj.      *)
(***************************************************************************)
\* Mutant: the message is ended with the id of the object instead of its gid.
MutantEndBareId(w) ==
    /\ At(w, "compute")
    /\ owed' = owed \cup {proc[w].obj}
    /\ Goto(w, "existsQueues")
    /\ UNCHANGED <<queue, tracking, sync, old, imports>>

EndMessage(w) ==
    /\ At(w, "compute")
    /\ obj_modules' = [obj_modules EXCEPT
                         ![proc[w].obj] = @ \ {Entry(ModuleOf[w], proc[w].hash)}]
    /\ owed' = owed \cup {proc[w].obj}
    /\ Goto(w, "existsQueues")
    /\ UNCHANGED <<queue, process, byType, obj_queues, processed, sync, old, imports>>

\* Mutant: run() does not reset self.obj after end_message.
MutantKeepSelfObj(w, inUse, next) ==
    /\ Goto(w, IF inUse THEN "idle" ELSE next)
    /\ UNCHANGED <<queue, tracking, sync, old, imports, owed>>

\* is_processed_obj: the object is still in process if either zset exists.
EndOrContinue(w, inUse, next) ==
    /\ proc' = IF inUse THEN [proc EXCEPT ![w] = Idle] ELSE [proc EXCEPT ![w].pc = next]
    /\ UNCHANGED <<queue, tracking, sync, old, imports, owed>>

ExistsQueues(w) ==
    /\ At(w, "existsQueues")
    /\ EndOrContinue(w, obj_queues[proc[w].obj] # {}, "existsModules")

ExistsModules(w) ==
    /\ At(w, "existsModules")
    /\ EndOrContinue(w, obj_modules[proc[w].obj] # {}, "zremType")

EndZremType(w) ==
    /\ At(w, "zremType")
    /\ byType' = byType \ {proc[w].obj}
    /\ old' = old \ {proc[w].obj}
    /\ Goto(w, "sremProcess")
    /\ UNCHANGED <<queue, process, obj_queues, obj_modules, processed, sync, imports, owed>>

EndSremProcess(w) ==
    /\ At(w, "sremProcess")
    /\ process' = process \ {proc[w].obj}
    /\ Goto(w, "saddProcessed")
    /\ UNCHANGED <<queue, byType, obj_queues, obj_modules, processed, sync, old, imports, owed>>

EndSaddProcessed(w) ==
    /\ At(w, "saddProcessed")
    /\ processed' = processed \cup {proc[w].obj}
    /\ proc' = [proc EXCEPT ![w] = Idle]
    /\ UNCHANGED <<queue, process, byType, obj_queues, obj_modules, sync, old, imports, owed>>

----------------------------------------------------------------------------
(***************************************************************************)
(* Sync_module: every two minutes timeout_processed_objs() sweeps the      *)
(* objects whose score is older than 48 hours; between sweeps it pops the  *)
(* objects whose processing is complete.  Only the types of                *)
(* get_obj_queued() are swept.                                             *)
(***************************************************************************)
GetProcessedEndObj ==
    /\ sync.pc = "idle"
    /\ \E o \in processed :
          /\ processed' = processed \ {o}
          /\ owed' = owed \ {o}
    /\ UNCHANGED <<queue, process, byType, obj_queues, obj_modules, proc, sync, old, imports>>

\* Time passes: a member of the zset gets more than 48 hours old.
GetOld(o) ==
    /\ o \in byType \ old
    /\ old' = old \cup {o}
    /\ UNCHANGED <<queue, tracking, proc, sync, imports, owed>>

\* zrangebyscore, whose result is swept one object at a time.
StartSweep ==
    /\ sync.pc = "idle"
    /\ old \cap TimedObjs # {}
    /\ sync' = [sync EXCEPT !.pc = "next", !.objs = old \cap TimedObjs]
    /\ UNCHANGED <<queue, tracking, proc, old, imports, owed>>

SweepNext ==
    /\ sync.pc = "next"
    /\ IF sync.objs = {}
       THEN sync' = SyncIdle
       ELSE \E o \in sync.objs :
              sync' = [sync EXCEPT !.pc = "queues", !.objs = @ \ {o}, !.obj = o,
                                   !.entries = obj_queues[o]]
    /\ UNCHANGED <<queue, tracking, proc, old, imports, owed>>

\* One zrem per entry that zrange returned; entries added meanwhile stay.
SweepQueues ==
    /\ sync.pc = "queues"
    /\ IF sync.entries = {}
       THEN /\ sync' = [sync EXCEPT !.pc = "modules", !.entries = obj_modules[sync.obj]]
            /\ UNCHANGED obj_queues
       ELSE \E e \in sync.entries :
              /\ obj_queues' = [obj_queues EXCEPT ![sync.obj] = @ \ {e}]
              /\ sync' = [sync EXCEPT !.entries = @ \ {e}]
    /\ UNCHANGED <<queue, process, byType, obj_modules, processed, proc, old, imports, owed>>

SweepModules ==
    /\ sync.pc = "modules"
    /\ sync.entries # {}
    /\ \E e \in sync.entries :
          /\ obj_modules' = [obj_modules EXCEPT ![sync.obj] = @ \ {e}]
          /\ sync' = [sync EXCEPT !.entries = @ \ {e}]
    /\ UNCHANGED <<queue, process, byType, obj_queues, processed, proc, old, imports, owed>>

SweepZremType ==
    /\ sync.pc = "modules"
    /\ sync.entries = {}
    /\ byType' = byType \ {sync.obj}
    /\ old' = old \ {sync.obj}
    /\ sync' = [sync EXCEPT !.pc = "sremProcess"]
    /\ UNCHANGED <<queue, process, obj_queues, obj_modules, processed, proc, imports, owed>>

\* Mutant: the sweep only removes the object from the zset of its type.
MutantSweepKeepsProcess ==
    /\ sync.pc = "sremProcess"
    /\ sync' = [sync EXCEPT !.pc = "saddProcessed"]
    /\ UNCHANGED <<queue, tracking, proc, old, imports, owed>>

SweepSremProcess ==
    /\ sync.pc = "sremProcess"
    /\ process' = process \ {sync.obj}
    /\ sync' = [sync EXCEPT !.pc = "saddProcessed"]
    /\ UNCHANGED <<queue, byType, obj_queues, obj_modules, processed, proc, old, imports, owed>>

SweepSaddProcessed ==
    /\ sync.pc = "saddProcessed"
    /\ processed' = processed \cup {sync.obj}
    /\ sync' = [sync EXCEPT !.pc = "next", !.obj = NoObj]
    /\ UNCHANGED <<queue, process, byType, obj_queues, obj_modules, proc, old, imports, owed>>

----------------------------------------------------------------------------
(***************************************************************************)
(* What interrupts a module.  A process that is killed, or that stops on   *)
(* an exception, loses its local state and starts again.  Stopping between *)
(* the two commands that keep objs:process and the zset of the type in     *)
(* step (CrashSafe excludes these program counters) is not modelled: the   *)
(* object would stay in objs:process, out of reach of the sweep.           *)
(***************************************************************************)
CrashSafe == ({"compute"} \cup Receiving \cup Sending \cup Ending)
               \ {"zaddType", "sendType", "sremProcess", "saddProcessed"}

Crash(w) ==
    /\ proc[w].pc \in CrashSafe
    /\ proc' = [proc EXCEPT ![w] = Idle]
    /\ UNCHANGED <<queue, tracking, sync, old, imports, owed>>

\* The zset obj:modules:<key>.  The key of an object is its global id; no zset
\* has a bare id for key.
ModulesAt(key) == IF key \in Objs THEN obj_modules[key] ELSE {}
BareId(o) == <<"id", o>>

\* rename_message_obj, as Mixer and Global call it: with self.obj.id, not the
\* global id.  self.obj is the new object from there on.
RenameObj(w) ==
    /\ At(w, "compute")
    /\ w \in Renamers
    /\ \E o \in Objs \ {proc[w].obj} :
         LET entries == ModulesAt(BareId(proc[w].obj)) IN
         /\ IF Cardinality(entries) = 1
            THEN /\ obj_modules' = [x \in Objs |->
                        IF x = o THEN obj_modules[x] \cup entries
                        ELSE obj_modules[x] \ entries]
                 /\ process' = (process \ {proc[w].obj}) \cup {o}
                 /\ byType' = (byType \ {proc[w].obj}) \cup {o}
                 /\ old' = old \ {proc[w].obj, o}
            ELSE UNCHANGED <<obj_modules, process, byType, old>>
         /\ proc' = [proc EXCEPT ![w].obj = o]
    /\ UNCHANGED <<queue, obj_queues, processed, sync, imports, owed>>

----------------------------------------------------------------------------
GetMessage(w) ==
    LpopMessage(w) \/ ReceiveSadd(w) \/ ReceiveZaddType(w) \/ ReceiveZaddModule(w)
      \/ ReceiveZremQueue(w)
SendMessage(p) == SendSadd(p) \/ SendZaddType(p) \/ SendZaddQueue(p) \/ SendRpush(p)
EndProcessedObj(w) ==
    EndMessage(w) \/ ExistsQueues(w) \/ ExistsModules(w) \/ EndZremType(w)
      \/ EndSremProcess(w) \/ EndSaddProcessed(w)

Worker(w) == GetMessage(w) \/ ModuleSend(w) \/ SendMessage(w) \/ EndProcessedObj(w)
Importer(i) == ImporterSend(i) \/ SendMessage(i)
Sweep ==
    StartSweep \/ SweepNext \/ SweepQueues \/ SweepModules \/ SweepZremType
      \/ SweepSremProcess \/ SweepSaddProcessed

Next ==
    \/ \E w \in Workers : Worker(w)
    \/ \E i \in Importers : Importer(i)
    \/ GetProcessedEndObj
    \/ Sweep
    \/ \E o \in Objs : GetOld(o)

Spec == Init /\ [][Next]_vars

\* With the modules that crash and the modules that rename their object.
FaultNext == Next \/ \E w \in Workers : Crash(w) \/ RenameObj(w)
FaultSpec == Init /\ [][FaultNext]_vars

(***************************************************************************)
(* A module that runs takes its next step: run() loops and polls its queue,*)
(* and a send once begun is finished.  Sync_module loops the same way, and *)
(* time passes.  Nothing forces an importer to start.                      *)
(***************************************************************************)
Fairness ==
    /\ \A w \in Workers : WF_vars(Worker(w))
    /\ \A i \in Importers : WF_vars(SendMessage(i))
    /\ WF_vars(GetProcessedEndObj)
    /\ WF_vars(Sweep)
    /\ \A o \in Objs : WF_vars(GetOld(o))

FairSpec == Spec /\ Fairness
FairFaultSpec == FaultSpec /\ Fairness

----------------------------------------------------------------------------
(***************************************************************************)
(* Properties.                                                             *)
(***************************************************************************)
PC == {"idle", "compute"} \cup Receiving \cup Sending \cup Ending

ProcType ==
    [pc : PC,
     obj : Objs \cup {NoObj}, hash : Message \cup {NoMess}, out : Message \cup {NoMess},
     to : Modules \cup {NoObj}, todo : SUBSET Modules, sent : Nat]

SyncType ==
    [pc : {"idle", "next", "queues", "modules", "sremProcess", "saddProcessed"},
     objs : SUBSET Objs, obj : Objs \cup {NoObj}, entries : SUBSET (Modules \X Message)]

\* The local variables agree with the program counter: a module at work has its
\* object and the hash of its message, an importer never has, and out is set
\* only during a send.
LocalOK(p, s) ==
    /\ s.pc = "idle" => s.obj = NoObj
    /\ (p \in Workers /\ s.pc # "idle") => s.obj \in Objs /\ s.hash \in Message /\ s.hash.obj = s.obj
    /\ p \in Importers => s.obj = NoObj /\ s.pc \in {"idle"} \cup Sending
    /\ IF s.pc \in Sending THEN s.out \in Message /\ s.to \in Modules ELSE s.out = NoMess

ProcOK ==
    /\ proc \in [Procs -> ProcType]
    /\ \A p \in Procs : LocalOK(p, proc[p])

TypeOK ==
    /\ queue \in [Modules -> Seq(Message)]
    /\ process \subseteq Objs /\ byType \subseteq Objs /\ processed \subseteq Objs
    /\ obj_queues \in [Objs -> SUBSET (Modules \X Message)]
    /\ obj_modules \in [Objs -> SUBSET (Modules \X Message)]
    /\ ProcOK
    /\ sync \in SyncType
    /\ sync.pc \notin {"idle", "next"} => sync.obj \in Objs
    /\ old \subseteq byType
    /\ imports \in 0..MaxImports
    /\ owed \subseteq Objs

InQueue(m, msg) == \E k \in DOMAIN queue[m] : queue[m][k] = msg
Queued(o) == \E m \in Modules : \E k \in DOMAIN queue[m] : queue[m][k].obj = o
Holds(p, o) == proc[p].obj = o \/ proc[p].out.obj = o

\* An object is outstanding while a message of it waits in a queue, or a
\* process handles it or is sending a message of it.
Outstanding(o) == Queued(o) \/ \E p \in Procs : Holds(p, o)

busy == {o \in Objs : Outstanding(o)}

\* The message is in the queue of the module, about to be pushed there, or was
\* just popped by the module.
InTransit(m, msg) ==
    \/ InQueue(m, msg)
    \/ \E p \in Procs : At(p, "rpush") /\ proc[p].to = m /\ proc[p].out = msg
    \/ \E w \in Workers : proc[w].pc \in Receiving /\ ModuleOf[w] = m /\ proc[w].hash = msg

\* The module handles the message.
InModule(m, msg) ==
    \E w \in Workers :
        /\ proc[w].pc \in {"zremQueue", "compute"} \cup Sending
        /\ ModuleOf[w] = m /\ proc[w].hash = msg

\* Every entry of obj:queues:<gid> is the trace of a message in transit to that
\* module: add_processed_obj and LPOP/RPUSH leave no other behind.  A stale entry
\* would keep its object in process until the 48 hour timeout.
QueueEntriesJustified ==
    \A o \in Objs, m \in Modules, msg \in Message :
        Entry(m, msg) \in obj_queues[o] => msg.obj = o /\ InTransit(m, msg)

\* Every entry of obj:modules:<gid> is the trace of a module that is handling
\* that message: end_processed_obj leaves none behind.
ModuleEntriesJustified ==
    \A o \in Objs, m \in Modules, msg \in Message :
        Entry(m, msg) \in obj_modules[o] => msg.obj = o /\ InModule(m, msg)

EntriesJustified == QueueEntriesJustified /\ ModuleEntriesJustified

\* The object of the last module that finished is never forgotten: it is in
\* objs:processed, or a message of it is still outstanding, and whoever handles
\* the last one inserts it.  This is the point of end_processed_obj removing
\* the module's entry before it looks for the entries of the others, and of
\* add_processed_obj adding an entry before it removes one.
NoWorkForgotten == \A o \in owed : o \in processed \/ Outstanding(o)

\* The tracking implements ObjHandover, if busy is what is outstanding.
Handover == INSTANCE ObjHandover
              WITH busy <- busy, ready <- processed
HandoverSpec == Handover!Spec

\* Whatever a module finished is seen by Sync_module.
EventuallySynced == \A o \in Objs : (o \in owed) ~> (o \notin owed)

\* No object stays in objs:process for good, even if modules crash while they
\* handle it: the 48 hour sweep ends what no module will end.
EventuallyUntracked == \A o \in TimedObjs : (o \in process) ~> (o \notin process)

=============================================================================
