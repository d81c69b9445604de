------------------------------- MODULE AilSync -------------------------------
(***************************************************************************)
(* Synchronisation with other AIL instances: core/ail_2_ail.py (instances, *)
(* sync queues, client manager), Sync_module.py, Sync_manager.py,          *)
(* ail_2_ail_client.py, ail_2_ail_server.py and Sync_importer.py.          *)
(*                                                                         *)
(* Sync_module copies the objects that match the filter of a sync queue    *)
(* into one bounded LIFO list per queue, instance and mode.  A push client *)
(* (a process that the manager launches) pops them and sends them over a   *)
(* websocket to the other instance, whose server hands them to             *)
(* Sync_importer; a pull client is served by our own server.  Flask edits  *)
(* the instances and queues, and speaks to the manager and to the server   *)
(* through two sets of commands.                                           *)
(***************************************************************************)
EXTENDS Naturals, Sequences, FiniteSets

CONSTANTS
    Ails,       \* uuids of the other instances
    Queues,     \* uuids of the sync queues
    Objs,       \* objects that Sync_module receives
    Ids,        \* numbers of the push clients
    None,
    PullToo,    \* the instances that are there at the start may pull, too
    MaxQueue,   \* the 200 of LTRIM 0 200
    MaxAdmin,   \* bound: requests of the administrator
    MaxCut      \* bound: connections that close

ASSUME SyncAssumption ==
    /\ Ids \subseteq Nat
    /\ None \notin Ails \cup Queues \cup Objs \cup Ids
    /\ PullToo \in BOOLEAN
    /\ MaxQueue \in Nat /\ MaxAdmin \in Nat /\ MaxCut \in Nat

VARIABLES
    inst,      \* ail:instance:<ail>: it exists, modes enabled, its key is in key:all
    filter,    \* the objects that the tags of a queue let pass, None: no such queue
    reg,       \* ail2ail:sync_queue:ail_instance, ail:instance:sync_queue
    raced,     \* history: instances that a request was about while a command was pending
    forced,    \* history: instances launched by hand that were disabled or had no queue
    later,     \* we are past the second of Sync_module's last refresh
    pend,      \* last_updated_sync_config is later than the last refresh
    missed,    \* history: since the copy was read, a change came in the second of a refresh
    cmds,      \* set ail_2_ail:client_manager:command
    srvcmds,   \* set ail_2_ail:server_controller:command
    cached,    \* ail_2_ail:sync_client:<id>: its instance
    mgr,       \* the manager: what it runs, and its own table of clients
    proc,      \* the push client processes
    wire,      \* what a client sent and the other side has not received
    sm,        \* Sync_module
    fresh,     \* objects that Sync_module has not had
    accepted,  \* history: the copies that were put in a list
    queue,     \* sync:queue:<mode>:<queue>:<ail>
    sock,      \* ail_to_ail_serv, for the pull client of an instance
    ctl,       \* the task server_controller is alive
    importer,  \* set sync:queue:importer, of the other instance
    arrived,   \* history: objects given to Importers, or sent to a pull client
    lost,      \* history: the copies that the code gives up
    admins, cuts

conf == <<inst, filter, reg, raced, forced>>
clock == <<later, pend, missed>>
control == <<cmds, cached, mgr>>
server == <<sock, ctl, srvcmds>>
data == <<sm, fresh, accepted, queue, wire, importer, arrived, lost>>
vars == <<conf, clock, control, proc, server, data, admins, cuts>>

Modes == {"push", "pull"}
NoInst == [exists |-> FALSE, push |-> FALSE, pull |-> FALSE, key |-> FALSE]
NoProc == [pc |-> "none", ail |-> None, obj |-> None, queue |-> None]
NoSock == [pc |-> "none", todo |-> {}, queue |-> None, obj |-> None]

Linked(r, a) == \E q \in Queues : <<q, a>> \in r
Required(a) == inst[a].push /\ Linked(reg, a)

\* get_all_sync_queue_dict
SyncQueueDict ==
    [x \in {y \in reg : filter[y[1]] # None /\ (inst[y[2]].push \/ inst[y[2]].pull)} |->
        [filter |-> filter[x[1]], push |-> inst[x[2]].push, pull |-> inst[x[2]].pull]]

Command(c, id, a) == [command |-> c, id |-> id, ail |-> a]

Empty ==
    /\ inst = [a \in Ails |-> NoInst]
    /\ filter = [q \in Queues |-> None]
    /\ reg = {}
    /\ cmds = {}

\* All of them enabled to push and registered: relaunch_all_sync_clients launches the clients of
\* those that have a queue.
Configured ==
    /\ inst = [a \in Ails |-> [exists |-> TRUE, push |-> TRUE, pull |-> PullToo, key |-> TRUE]]
    /\ filter = [q \in Queues |-> Objs]
    /\ reg = Queues \X Ails
    /\ cmds = {Command("launch", None, a) : a \in {b \in Ails : Linked(reg, b)}}

Init ==
    /\ Empty \/ Configured
    /\ raced = {} /\ forced = {}
    /\ later = FALSE /\ pend = FALSE /\ missed = FALSE
    /\ srvcmds = {}
    /\ cached = [i \in Ids |-> None]
    /\ mgr = [pc |-> "idle", ail |-> None, id |-> None, clients |-> [i \in Ids |-> None]]
    /\ proc = [i \in Ids |-> NoProc]
    /\ wire = [i \in Ids |-> <<>>]
    /\ sm = [pc |-> "idle", obj |-> None, todo |-> {}, dict |-> SyncQueueDict]
    /\ fresh = Objs /\ accepted = {}
    /\ queue = [x \in Modes \X Queues \X Ails |-> <<>>]
    /\ sock = [a \in Ails |-> NoSock]
    /\ ctl = TRUE
    /\ importer = {} /\ arrived = {} /\ lost = {}
    /\ admins = 0 /\ cuts = 0

----------------------------------------------------------------------------
(***************************************************************************)
(* The administrator, in Flask.  A request runs as one step: what it races *)
(* with is what the other processes have not done yet.                     *)
(***************************************************************************)
\* set_last_updated_sync_config: whole seconds, so that a change in the second of the
\* last refresh is not later than it.
SetLastUpdated ==
    /\ pend' = (pend \/ later)
    /\ missed' = (missed \/ ~(pend \/ later))
    /\ UNCHANGED later

\* get_client_id_by_ail_uuid
ClientIds(a) == {i \in Ids : cached[i] = a}

\* The instance that a command is about, and the one that the manager is at work for.
Target(c) == IF c.command = "launch" THEN c.ail ELSE mgr.clients[c.id]
Busy == mgr.pc \in {"launch", "kill", "relaunch", "cache"}
MgrTarget == IF mgr.pc \in {"kill", "relaunch"} THEN mgr.clients[mgr.id] ELSE mgr.ail
Pending(a) == (\E c \in cmds : Target(c) = a) \/ (Busy /\ MgrTarget = a)
Race(a) == raced' = IF Pending(a) THEN raced \cup {a} ELSE raced
NoCommand == UNCHANGED <<cmds, raced>>

\* Mutant: the queues of the instance are not looked at.
MutantRefreshEnabled(a) ==
    /\ Race(a)
    /\ IF ClientIds(a) # {}
       THEN \E i \in ClientIds(a) :
              cmds' = cmds \cup {Command(IF inst'[a].push THEN "relaunch" ELSE "kill", i, None)}
       ELSE cmds' = IF inst'[a].push THEN cmds \cup {Command("launch", None, a)} ELSE cmds

\* refresh_ail_instance_connection, after the change: the first client of the instance
\* is launched again or killed; if there is none, one is launched.
RefreshConnection(a) ==
    LET required == inst'[a].push /\ Linked(reg', a)
    IN  /\ Race(a)
        /\ IF ClientIds(a) # {}
           THEN \E i \in ClientIds(a) :
                  cmds' = cmds \cup {Command(IF required THEN "relaunch" ELSE "kill", i, None)}
           ELSE cmds' = IF required THEN cmds \cup {Command("launch", None, a)} ELSE cmds

\* Nothing that an earlier request asked of the manager is still to be done.
Settled == cmds = {} /\ mgr.pc = "idle"

Request ==
    /\ admins < MaxAdmin
    /\ admins' = admins + 1
    /\ UNCHANGED <<cached, mgr, proc, sock, ctl, data, cuts>>

\* api_create_ail_instance, create_ail_instance
CreateInstance(a, push, pull) ==
    /\ Request
    /\ ~inst[a].exists
    /\ inst' = [inst EXCEPT ![a] = [exists |-> TRUE, push |-> push, pull |-> pull, key |-> TRUE]]
    /\ UNCHANGED <<filter, reg, srvcmds, forced>>
    /\ SetLastUpdated
    /\ RefreshConnection(a)

\* api_edit_ail_instance.  A new key is removed from ail:instance:key:all with the old one.
EditInstance(a, push, pull, url, key) ==
    /\ Request
    /\ inst[a].exists
    /\ inst' = [inst EXCEPT ![a].push = push, ![a].pull = pull, ![a].key = @ /\ ~key]
    /\ UNCHANGED <<filter, reg, srvcmds, forced>>
    /\ IF <<push, pull>> # <<inst[a].push, inst[a].pull>>
       THEN SetLastUpdated ELSE UNCHANGED clock
    /\ IF <<push, pull>> # <<inst[a].push, inst[a].pull>> \/ url \/ key
       THEN RefreshConnection(a) ELSE NoCommand

\* api_delete_ail_instance, delete_ail_instance: its queues, then itself.
DeleteInstance(a) ==
    /\ Request
    /\ inst[a].exists
    /\ inst' = [inst EXCEPT ![a] = NoInst]
    /\ reg' = {x \in reg : x[2] # a}
    /\ UNCHANGED <<filter, srvcmds, forced>>
    /\ SetLastUpdated
    /\ RefreshConnection(a)

\* api_register_ail_to_sync_queue, register_ail_to_sync_queue
Register(q, a) ==
    /\ Request
    /\ inst[a].exists /\ filter[q] # None /\ <<q, a>> \notin reg
    /\ reg' = reg \cup {<<q, a>>}
    /\ UNCHANGED <<inst, filter, srvcmds, forced>>
    /\ SetLastUpdated
    /\ IF Linked(reg, a) THEN NoCommand ELSE RefreshConnection(a)

\* Mutant: Sync_module is not told.
MutantUnregisterSilent(q, a) ==
    /\ Request
    /\ inst[a].exists /\ filter[q] # None /\ <<q, a>> \in reg
    /\ reg' = reg \ {<<q, a>>}
    /\ UNCHANGED <<inst, filter, srvcmds, clock, forced>>
    /\ IF Linked(reg', a) THEN NoCommand ELSE RefreshConnection(a)

\* api_unregister_ail_to_sync_queue, unregister_ail_to_sync_queue
Unregister(q, a) ==
    /\ Request
    /\ inst[a].exists /\ filter[q] # None /\ <<q, a>> \in reg
    /\ reg' = reg \ {<<q, a>>}
    /\ UNCHANGED <<inst, filter, srvcmds, forced>>
    /\ SetLastUpdated
    /\ IF Linked(reg', a) THEN NoCommand ELSE RefreshConnection(a)

\* api_create_sync_queue, api_edit_sync_queue: the tags.
CreateQueue(q, f) ==
    /\ Request
    /\ filter[q] = None
    /\ filter' = [filter EXCEPT ![q] = f]
    /\ UNCHANGED <<inst, reg, srvcmds, forced>> /\ NoCommand
    /\ SetLastUpdated

EditQueue(q, f) ==
    /\ Request
    /\ filter[q] # None
    /\ filter' = [filter EXCEPT ![q] = f]
    /\ UNCHANGED <<inst, reg, srvcmds, forced>> /\ NoCommand
    /\ SetLastUpdated

\* api_delete_sync_queue, delete_sync_queue: unregisters each instance in turn; here of
\* one instance at most (the others are unregistered by requests of their own).
DeleteQueue(q) ==
    /\ Request
    /\ filter[q] # None
    /\ filter' = [filter EXCEPT ![q] = None]
    /\ reg' = {x \in reg : x[1] # q}
    /\ UNCHANGED <<inst, srvcmds, forced>>
    /\ SetLastUpdated
    /\ LET cut == {a \in Ails : <<q, a>> \in reg} IN
       /\ \A a, b \in cut : a = b
       /\ \/ \E a \in cut : IF Linked(reg', a) THEN NoCommand ELSE RefreshConnection(a)
          \/ cut = {} /\ NoCommand

\* api_launch_sync_client, api_kill_sync_client, api_relaunch_sync_client
CommandClient(a, c) ==
    /\ Request
    /\ inst[a].exists
    /\ IF c = "launch"
       THEN /\ ClientIds(a) = {}
            /\ cmds' = cmds \cup {Command("launch", None, a)}
            /\ forced' = IF Required(a) THEN forced ELSE forced \cup {a}
       ELSE /\ ClientIds(a) # {}
            /\ cmds' = cmds \cup {Command(c, i, a) : i \in ClientIds(a)}
            /\ UNCHANGED forced
    /\ Race(a)
    /\ UNCHANGED <<inst, filter, reg, clock, srvcmds>>

\* api_kill_server_connected_clients
KillConnected(a) ==
    /\ Request
    /\ inst[a].exists
    /\ sock[a] # NoSock
    /\ srvcmds' = srvcmds \cup {a}
    /\ UNCHANGED <<conf, clock, cmds>>

AdminInstances ==
    \E a \in Ails :
       \/ \E push, pull \in BOOLEAN : CreateInstance(a, push, pull)
       \/ \E push, pull, url, key \in BOOLEAN : EditInstance(a, push, pull, url, key)
       \/ DeleteInstance(a)
       \/ \E c \in {"launch", "kill", "relaunch"} : CommandClient(a, c)
       \/ KillConnected(a)
       \/ \E q \in Queues : Register(q, a) \/ Unregister(q, a)

AdminQueues ==
    \E q \in Queues :
       \/ \E f \in (SUBSET Objs) \ {{}} : CreateQueue(q, f) \/ EditQueue(q, f)
       \/ DeleteQueue(q)

Admin == AdminInstances \/ AdminQueues

----------------------------------------------------------------------------
(***************************************************************************)
(* The client manager (Sync_manager.py).  KeyError stops it.               *)
(***************************************************************************)
SetMgr(pc, a, i) == mgr' = [mgr EXCEPT !.pc = pc, !.ail = a, !.id = i]

\* get_manager_command: SPOP, in any order.
PopCommand ==
    /\ mgr.pc = "idle"
    /\ \E c \in cmds : cmds' = cmds \ {c} /\ SetMgr(c.command, c.ail, c.id)
    /\ UNCHANGED <<conf, clock, cached, proc, server, data, admins, cuts>>

\* What a process that is killed has in hand, or on the wire, is gone.
OnWire(i) == {<<"push", proc[i].ail, wire[i][k]>> : k \in DOMAIN wire[i]}
InHand(i) == {<<"push", proc[i].ail, proc[i].obj>>} \ {<<"push", proc[i].ail, None>>}

\* Mutant: the client stays in the table of the manager.
MutantKillForgets ==
    /\ mgr.pc \in {"kill", "relaunch"}
    /\ cached' = [cached EXCEPT ![mgr.id] = None]
    /\ proc' = [proc EXCEPT ![mgr.id] = IF mgr.pc = "kill" THEN @ ELSE NoProc]
    /\ wire' = [wire EXCEPT ![mgr.id] = IF mgr.pc = "kill" THEN @ ELSE <<>>]
    /\ lost' = IF mgr.pc = "kill" THEN lost ELSE lost \cup OnWire(mgr.id) \cup InHand(mgr.id)
    /\ mgr' = [mgr EXCEPT !.pc = IF mgr.pc = "kill" THEN "idle" ELSE "launch",
                          !.ail = mgr.clients[mgr.id]]
    /\ UNCHANGED <<conf, clock, cmds, server, sm, fresh, accepted, queue, importer, arrived, admins, cuts>>

\* Mutant: the client stays in the cache.
MutantKillKeepsCache ==
    /\ mgr.pc = "kill"
    /\ proc' = [proc EXCEPT ![mgr.id] = NoProc]
    /\ wire' = [wire EXCEPT ![mgr.id] = <<>>]
    /\ lost' = lost \cup OnWire(mgr.id) \cup InHand(mgr.id)
    /\ mgr' = [mgr EXCEPT !.pc = IF mgr.clients[mgr.id] = None THEN "dead" ELSE "idle",
                          !.id = None, !.clients[mgr.id] = None]
    /\ UNCHANGED <<conf, clock, cached, cmds, server, sm, fresh, accepted, queue, importer, arrived, admins, cuts>>

\* kill_sync_client, for kill and relaunch: ^C in the window of the client, then the cache,
\* then the table.
KillClient ==
    /\ mgr.pc \in {"kill", "relaunch"}
    /\ LET known == mgr.clients[mgr.id] # None IN
       IF mgr.pc = "relaunch" /\ ~known
       THEN SetMgr("dead", None, None) /\ UNCHANGED <<cached, proc, wire, lost>>
       ELSE /\ cached' = [cached EXCEPT ![mgr.id] = None]
            /\ proc' = [proc EXCEPT ![mgr.id] = NoProc]
            /\ wire' = [wire EXCEPT ![mgr.id] = <<>>]
            /\ lost' = lost \cup OnWire(mgr.id) \cup InHand(mgr.id)
            /\ mgr' = [mgr EXCEPT
                         !.pc = IF ~known THEN "dead" ELSE IF mgr.pc = "kill" THEN "idle" ELSE "launch",
                         !.ail = mgr.clients[mgr.id], !.id = None,
                         !.clients[mgr.id] = None]
    /\ UNCHANGED <<conf, clock, cmds, server, sm, fresh, accepted, queue, importer, arrived, admins, cuts>>

\* launch_sync_client: the lowest number that the table does not have; a window of that
\* name is killed first.
LaunchWindow ==
    /\ mgr.pc = "launch"
    /\ \E i \in Ids :
          /\ mgr.clients[i] = None
          /\ \A j \in Ids : mgr.clients[j] = None => i <= j
          /\ lost' = lost \cup OnWire(i) \cup InHand(i)
          /\ wire' = [wire EXCEPT ![i] = <<>>]
          /\ proc' = [proc EXCEPT ![i] = [NoProc EXCEPT !.pc = "start", !.ail = mgr.ail]]
          /\ SetMgr("cache", mgr.ail, i)
    /\ UNCHANGED <<conf, clock, cmds, cached, server, sm, fresh, accepted, queue, importer, arrived, admins, cuts>>

\* create_sync_client_cache, then the table.
CacheClient ==
    /\ mgr.pc = "cache"
    /\ cached' = [cached EXCEPT ![mgr.id] = mgr.ail]
    /\ mgr' = [mgr EXCEPT !.pc = "idle", !.ail = None, !.id = None, !.clients[mgr.id] = mgr.ail]
    /\ UNCHANGED <<conf, clock, cmds, proc, server, data, admins, cuts>>

Manager == PopCommand \/ KillClient \/ LaunchWindow \/ CacheClient

----------------------------------------------------------------------------
(***************************************************************************)
(* Sync_module.                                                            *)
(***************************************************************************)
others == <<conf, control, proc, server, wire, importer, arrived, admins, cuts>>

\* A second goes by.
Tick == ~later /\ later' = TRUE /\ UNCHANGED <<others, pend, missed, sm, fresh, accepted, queue, lost>>

\* get_processed_end_obj, then compute: the copy is refreshed first, if it is too old.
SyncPop(o) ==
    /\ sm.pc = "idle"
    /\ o \in fresh
    /\ fresh' = fresh \ {o}
    /\ sm' = [sm EXCEPT !.obj = o, !.pc = IF pend THEN "refresh" ELSE "filter"]
    /\ later' = (later /\ ~pend)
    /\ pend' = FALSE
    /\ UNCHANGED <<others, missed, accepted, queue, lost>>

SyncNext(todo) ==
    sm' = IF todo = {} THEN [sm EXCEPT !.pc = "idle", !.obj = None, !.todo = {}]
                       ELSE [sm EXCEPT !.pc = "add", !.todo = todo]

SyncRefresh ==
    /\ sm.pc = "refresh"
    /\ sm' = [sm EXCEPT !.pc = "filter", !.dict = SyncQueueDict]
    /\ missed' = FALSE
    /\ UNCHANGED <<others, later, pend, fresh, accepted, queue, lost>>

\* The lists of the queues whose filter lets the object pass.
SyncFilter ==
    /\ sm.pc = "filter"
    /\ LET passes == {y \in DOMAIN sm.dict : sm.obj \in sm.dict[y].filter}
           todo == {<<m, x[1], x[2]>> : m \in Modes, x \in passes}
       IN SyncNext({t \in todo : sm.dict[<<t[2], t[3]>>][t[1]]})
    /\ UNCHANGED <<others, clock, fresh, accepted, queue, lost>>

\* Mutant: the list is not trimmed.
MutantTrimLonger(x, o) == queue' = [queue EXCEPT ![x] = <<o>> \o @]

\* LPUSH, then LTRIM 0 200: the oldest is dropped.
AddObject(x, o) ==
    queue' = [queue EXCEPT ![x] = LET s == <<o>> \o @ IN
                SubSeq(s, 1, IF Len(s) <= MaxQueue + 1 THEN Len(s) ELSE MaxQueue + 1)]
Trimmed(x) == {<<x[1], x[3], queue[x][k]>> : k \in {j \in DOMAIN queue[x] : j > MaxQueue}}

\* add_object_to_sync_queue, for one queue, instance and mode.
SyncAdd ==
    /\ sm.pc = "add"
    /\ \E x \in sm.todo :
          /\ AddObject(x, sm.obj)
          /\ lost' = lost \cup Trimmed(x)
          /\ accepted' = accepted \cup {<<x[1], x[3], sm.obj>>}
          /\ SyncNext(sm.todo \ {x})
    /\ UNCHANGED <<others, clock, fresh>>

SyncModule == (\E o \in Objs : SyncPop(o)) \/ SyncRefresh \/ SyncFilter \/ SyncAdd

----------------------------------------------------------------------------
(***************************************************************************)
(* A push client (ail_2_ail_client.py), and the other end of its wire.     *)
(***************************************************************************)
clientRest == <<conf, clock, cmds, mgr, server, sm, fresh, accepted, admins>>
SetProc(i, pc) == proc' = [proc EXCEPT ![i].pc = pc, ![i].obj = None, ![i].queue = None]

\* ail_to_ail_client: an instance that does not exist any more, a connection that is
\* refused, or one that opens.  The first returns without leaving the cache.
ClientStart(i) ==
    /\ proc[i].pc = "start"
    /\ IF inst[proc[i].ail].exists
       THEN \E pc \in {"loop", "exit"} : SetProc(i, pc)
       ELSE proc' = [proc EXCEPT ![i] = NoProc]
    /\ UNCHANGED <<clientRest, cached, queue, wire, importer, arrived, lost, cuts>>

\* get_sync_queue_object_and_queue_uuid: LPOP of the first queue that is not empty.
ClientPop(i) ==
    /\ proc[i].pc = "loop"
    /\ \E q \in Queues :
          LET x == <<"push", q, proc[i].ail>> IN
          /\ <<q, proc[i].ail>> \in reg
          /\ queue[x] # <<>>
          /\ queue' = [queue EXCEPT ![x] = Tail(@)]
          /\ proc' = [proc EXCEPT ![i].pc = "send", ![i].obj = Head(queue[x]), ![i].queue = q]
    /\ UNCHANGED <<clientRest, cached, wire, importer, arrived, lost, cuts>>

ClientSend(i) ==
    /\ proc[i].pc = "send"
    /\ wire' = [wire EXCEPT ![i] = Append(@, proc[i].obj)]
    /\ SetProc(i, "loop")
    /\ UNCHANGED <<clientRest, cached, queue, importer, arrived, lost, cuts>>

\* Mutant: the object goes back as one to be pulled.
MutantResendPull(a, q, o, push) == AddObject(<<IF push THEN "pull" ELSE "push", q, a>>, o)

\* resend_object_to_sync_queue
Resend(a, q, o, push) == AddObject(<<IF push THEN "push" ELSE "pull", q, a>>, o)

\* The connection closes: abnormally (ConnectionClosedError, the object in hand is sent
\* again), or with the code 1000 of the server's kill (ConnectionClosedOK, which push
\* does not catch).  What was on the wire is gone.  A client that waits notices when it
\* looks; the object in hand may have been sent all the same.
ClientClosed(i, normal) ==
    /\ proc[i].pc \in {"loop", "send"}
    /\ cuts < MaxCut
    /\ cuts' = cuts + 1
    /\ LET p == proc[i]
           x == <<"push", p.queue, p.ail>>
       IN IF p.obj = None \/ normal
          THEN /\ lost' = lost \cup OnWire(i) \cup InHand(i)
               /\ UNCHANGED <<queue, importer>>
          ELSE /\ Resend(p.ail, p.queue, p.obj, TRUE)
               /\ lost' = lost \cup OnWire(i) \cup Trimmed(x)
               /\ importer' \in {importer, importer \cup {p.obj}}
    /\ wire' = [wire EXCEPT ![i] = <<>>]
    /\ SetProc(i, "exit")
    /\ UNCHANGED <<clientRest, cached, arrived>>

\* delete_sync_client_cache
ClientExit(i) ==
    /\ proc[i].pc = "exit"
    /\ proc' = [proc EXCEPT ![i] = NoProc]
    /\ cached' = [cached EXCEPT ![i] = None]
    /\ UNCHANGED <<clientRest, queue, wire, importer, arrived, lost, cuts>>

\* The other server: push receives a stream, add_ail_stream_to_sync_importer.
ServerReceive(i) ==
    /\ wire[i] # <<>>
    /\ wire' = [wire EXCEPT ![i] = Tail(@)]
    /\ importer' = importer \cup {Head(wire[i])}
    /\ UNCHANGED <<clientRest, cached, proc, queue, arrived, lost, cuts>>

\* Mutant: what was popped is not sent on.
MutantImport(o) ==
    /\ o \in importer
    /\ importer' = importer \ {o}
    /\ UNCHANGED <<clientRest, cached, proc, wire, queue, arrived, lost, cuts>>

\* Sync_importer: SPOP, then a message to Importers.
Import(o) ==
    /\ o \in importer
    /\ importer' = importer \ {o}
    /\ arrived' = arrived \cup {<<"push", o>>}
    /\ UNCHANGED <<clientRest, cached, proc, wire, queue, lost, cuts>>

Client(i) == ClientStart(i) \/ ClientPop(i) \/ ClientSend(i) \/ ClientExit(i)

----------------------------------------------------------------------------
(***************************************************************************)
(* Our server, for the pull client of an instance, and its controller.     *)
(***************************************************************************)
serverRest == <<conf, clock, control, proc, wire, sm, fresh, accepted, importer, admins>>

\* process_request, then register: the key is allowed and the mode enabled.
PullConnect(a) ==
    /\ sock[a] = NoSock
    /\ inst[a].exists /\ inst[a].key /\ inst[a].pull
    /\ sock' = [sock EXCEPT ![a] = [NoSock EXCEPT !.pc = "loop", !.todo = {q \in Queues : <<q, a>> \in reg}]]
    /\ UNCHANGED <<serverRest, ctl, srvcmds, queue, arrived, lost, cuts>>

\* pull: one queue after the other, each until it is empty, then close and unregister.
PullPop(a) ==
    /\ sock[a].pc = "loop"
    /\ \/ \E q \in sock[a].todo :
            LET x == <<"pull", q, a>> IN
            IF queue[x] = <<>>
            THEN sock' = [sock EXCEPT ![a].todo = @ \ {q}] /\ UNCHANGED queue
            ELSE /\ sock' = [sock EXCEPT ![a].pc = "send", ![a].queue = q, ![a].obj = Head(queue[x])]
                 /\ queue' = [queue EXCEPT ![x] = Tail(@)]
       \/ sock[a].todo = {} /\ sock' = [sock EXCEPT ![a] = NoSock] /\ UNCHANGED queue
    /\ UNCHANGED <<serverRest, ctl, srvcmds, arrived, lost, cuts>>

PullSend(a) ==
    /\ sock[a].pc = "send"
    /\ arrived' = arrived \cup {<<"pull", sock[a].obj>>}
    /\ sock' = [sock EXCEPT ![a].pc = "loop", ![a].obj = None]
    /\ UNCHANGED <<serverRest, ctl, srvcmds, queue, lost, cuts>>

\* The connection is closed while an object is sent.  pull has put the JSON text in the
\* variable of the object: its resend raises AttributeError, and the object is gone.
PullClosed(a) ==
    /\ sock[a].pc = "send"
    /\ cuts < MaxCut
    /\ cuts' = cuts + 1
    /\ sock' = [sock EXCEPT ![a] = NoSock]
    /\ UNCHANGED <<serverRest, ctl, srvcmds, queue, arrived, lost>>

\* server_controller: SPOP, then close(1000).  KeyError for an instance that has gone
\* ends the task.
Controller(a) ==
    /\ ctl
    /\ a \in srvcmds
    /\ srvcmds' = srvcmds \ {a}
    /\ ctl' = (sock[a] # NoSock)
    /\ lost' = lost \cup ({<<"pull", a, sock[a].obj>>} \ {<<"pull", a, None>>})
    /\ sock' = [sock EXCEPT ![a] = NoSock]
    /\ UNCHANGED <<serverRest, queue, arrived, cuts>>

Server(a) == PullConnect(a) \/ PullPop(a) \/ PullSend(a)

Next ==
    \/ Admin \/ Manager \/ Tick \/ SyncModule
    \/ \E i \in Ids : Client(i) \/ ServerReceive(i) \/ \E normal \in BOOLEAN : ClientClosed(i, normal)
    \/ \E o \in Objs : Import(o)
    \/ \E a \in Ails : Server(a) \/ PullClosed(a) \/ Controller(a)

Spec == Init /\ [][Next]_vars

\* The processes run: they poll in endless loops.  Nobody has to act or to disconnect.
Fairness ==
    /\ WF_vars(Manager) /\ WF_vars(SyncModule) /\ WF_vars(Tick)
    /\ \A i \in Ids : WF_vars(Client(i)) /\ WF_vars(ServerReceive(i))
    /\ \A o \in Objs : WF_vars(Import(o))

FairSpec == Spec /\ Fairness

----------------------------------------------------------------------------
(***************************************************************************)
(* Properties.                                                             *)
(***************************************************************************)
\* What Sync_module may have read of the configuration.
Dicts == UNION {[links -> [filter : SUBSET Objs, push : BOOLEAN, pull : BOOLEAN]] :
                  links \in SUBSET (Queues \X Ails)}

TypeOK ==
    /\ inst \in [Ails -> [exists : BOOLEAN, push : BOOLEAN, pull : BOOLEAN, key : BOOLEAN]]
    /\ filter \in [Queues -> (SUBSET Objs) \cup {None}]
    /\ reg \subseteq Queues \X Ails
    /\ cmds \subseteq [command : {"launch", "kill", "relaunch"},
                       id : Ids \cup {None}, ail : Ails \cup {None}]
    /\ srvcmds \subseteq Ails
    /\ cached \in [Ids -> Ails \cup {None}]
    /\ mgr \in [pc : {"idle", "launch", "kill", "relaunch", "cache", "dead"},
                ail : Ails \cup {None}, id : Ids \cup {None}, clients : [Ids -> Ails \cup {None}]]
    /\ proc \in [Ids -> [pc : {"none", "start", "loop", "send", "exit"}, ail : Ails \cup {None},
                         obj : Objs \cup {None}, queue : Queues \cup {None}]]
    /\ sm \in [pc : {"idle", "refresh", "filter", "add"}, obj : Objs \cup {None},
               todo : SUBSET (Modes \X Queues \X Ails), dict : Dicts]
    /\ queue \in [Modes \X Queues \X Ails -> Seq(Objs)]
    /\ \A x \in DOMAIN queue : Len(queue[x]) <= MaxQueue + 1
    /\ wire \in [Ids -> Seq(Objs)]
    /\ sock \in [Ails -> [pc : {"none", "loop", "send"}, todo : SUBSET Queues,
                          queue : Queues \cup {None}, obj : Objs \cup {None}]]
    /\ fresh \subseteq Objs /\ importer \subseteq Objs
    /\ accepted \subseteq Modes \X Ails \X Objs
    /\ <<later, pend, missed, ctl>> \in BOOLEAN \X BOOLEAN \X BOOLEAN \X BOOLEAN

In(o, s) == \E k \in DOMAIN s : s[k] = o
Waits(m, a, o) == \E q \in Queues : In(o, queue[<<m, q, a>>])

\* An object that was put in the push list of an instance waits there, or is in the hand of
\* its client, on the wire, with the importer or beyond, or is one that the code gives up:
\* the oldest of a full list, the one in hand of a client that is killed or closed with
\* 1000, one that was on the wire.  A connection that breaks while it is sent loses none.
PushAccounted ==
    \A a \in Ails, o \in Objs : <<"push", a, o>> \in accepted =>
        \/ Waits("push", a, o)
        \/ \E i \in Ids : proc[i].ail = a /\ (proc[i].obj = o \/ In(o, wire[i]))
        \/ o \in importer \/ <<"push", o>> \in arrived
        \/ <<"push", a, o>> \in lost

\* The same for the pull list, of which the code says "resend object in queue on Connection
\* Error" (ail_2_ail_server.py:146).
PullAccounted ==
    \A a \in Ails, o \in Objs : <<"pull", a, o>> \in accepted =>
        \/ Waits("pull", a, o)
        \/ sock[a].obj = o
        \/ <<"pull", o>> \in arrived
        \/ <<"pull", a, o>> \in lost

Runs(a) == {i \in Ids : proc[i].pc # "none" /\ proc[i].ail = a}

\* "current: only one push registred" (ail_2_ail.py:208): the cache has one push client of an
\* instance.
OnlyOnePush == \A a \in Ails : Cardinality(ClientIds(a)) <= 1

\* That it does, and that no more than one runs, in any order of requests, launches, kills and
\* ends of clients, until a request is about an instance of which a command is still to be
\* carried out, whatever there is to be done for the others.
OnePushClient == raced = {} => OnlyOnePush /\ \A a \in Ails : Cardinality(Runs(a)) <= 1

\* Until then the manager gets no command for a client that it does not have: KeyError.
ManagerAlive == mgr.pc = "dead" => raced # {}

\* Until then, once every command has been carried out, clients run only for the instances
\* that are enabled and have a queue, or that were launched by hand without.
NoStrayClient ==
    raced = {} /\ Settled => \A a \in Ails \ forced : Runs(a) # {} => Required(a)

\* Sync_module's copy of the configuration is the configuration, or will be read again
\* before the next object, or there was a change in the second of the refresh.
ConfigSeen == sm.dict # SyncQueueDict => pend \/ sm.pc = "refresh" \/ missed

\* Bound, of the run about the manager: what comes after such a request is not looked at.
NoRace == raced = {}

\* An object that was put in the push list of an instance gets to the other side's Importers,
\* or is one that the code gives up, or there comes a time when the instance has no client
\* or no queue: a client that runs neither starves a list nor stops half way.
Delivered ==
    \A a \in Ails, o \in Objs :
        <<"push", a, o>> \in accepted
            ~> \/ <<"push", o>> \in arrived \/ <<"push", a, o>> \in lost
               \/ Runs(a) = {} \/ ~Linked(reg, a)
=============================================================================
