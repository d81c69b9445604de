----------------------------- MODULE RetroHunt -----------------------------
(***************************************************************************)
(* Retro hunts: the class RetroHunt and its API in lib/Tracker.py, the     *)
(* requests of the web interface, and the module trackers/Retro_Hunt.py.   *)
(*                                                                         *)
(* A hunt matches one YARA rule against every object that AIL stores.  The *)
(* threads of Flask create, pause, resume and delete hunts while the       *)
(* module scans: both send the same Redis commands, none of them in a      *)
(* transaction, so a process is a list of commands to send and the others  *)
(* run between any two of them.                                            *)
(*                                                                         *)
(*   state[h]    field state of the hash retro_hunt:<h>; "new" for a hash  *)
(*               without one, None without a hash                          *)
(*   last[h]     its field last; nb[h], its field nb_match                 *)
(*   sets[s]     the sets retro_hunts:<s>                                  *)
(*   listed, all the level's set (retro_hunts or the organisation's) and   *)
(*               retro_hunts:all                                           *)
(*   flag        hunts with the field pause in the cache                   *)
(*   objs[h]     the sets retro_hunt:objs:<h>:<type>                       *)
(*   hunts[o]    the sets obj:retro_hunts:<o>                              *)
(*   rule        hunts whose rule file is on the disk                      *)
(* History: analysed[h], the objects the rule of h was run on.             *)
(***************************************************************************)
EXTENDS Integers, Sequences, FiniteSets, FiniteSetsExt, Functions

CONSTANTS
    Hunts,        \* uuids
    Objs,         \* the objects of AIL, in the order of obj_iterator: see Assumption
    Hits,         \* <<h, o>>: the rule of h matches the object o
    Custom,       \* hunts with a rule of their own, in custom-rules
    Users,        \* threads of Flask
    Module,       \* the process Retro_Hunt
    None,         \* no value
    LastEvery,    \* last is written every LastEvery objects (10 in the code)
    MaxRequests,  \* bound: requests
    MaxStops      \* bound: times AIL is stopped and started

Types == <<"decoded", "item", "message", "ocr">>   \* get_objects_retro_hunted()
Obj == DOMAIN Objs
States == {"pending", "running", "paused", "completed"}

IsItem(o) == Objs[o].type = "item"

\* The items are walked source by source and, in a source, day by day.
Before(i, j) == \/ Objs[i].source < Objs[j].source
                \/ Objs[i].source = Objs[j].source /\ Objs[i].day <= Objs[j].day

ASSUME Assumption ==
    /\ Objs \in Seq([type : Range(Types), source : Nat, day : Nat, content : BOOLEAN])
    /\ \A i, j \in Obj : IsItem(i) /\ IsItem(j) /\ i < j => Before(i, j)
    /\ Hits \subseteq Hunts \X Obj
    /\ Custom \subseteq Hunts
    /\ Module \notin Users
    /\ None \notin Hunts /\ None \notin Obj /\ None \notin States \cup {"new"}
    /\ LastEvery \in Nat \ {0} /\ MaxRequests \in Nat /\ MaxStops \in Nat

VARIABLES
    state, last, nb, sets, listed, all, flag, objs, hunts, rule, analysed,
    mod,               \* the module: where it is and its local variables
    todo,              \* the commands each process has still to send
    requests, stops    \* counted for the bounds

hash == <<state, last, nb>>
index == <<sets, listed, all>>
found == <<objs, hunts, nb>>
counts == <<requests, stops>>
vars == <<state, last, nb, sets, listed, all, flag, objs, hunts, rule, analysed,
          mod, todo, requests, stops>>

Procs == Users \cup {Module}
Idle == [pc |-> "idle", hunt |-> None, left |-> {}, obj |-> None, done |-> 0]

Init ==
    /\ state = [h \in Hunts |-> None]
    /\ last = [h \in Hunts |-> None]
    /\ nb = [h \in Hunts |-> 0]
    /\ sets = [s \in States |-> {}]
    /\ listed = {} /\ all = {} /\ flag = {} /\ rule = {}
    /\ objs = [h \in Hunts |-> {}]
    /\ hunts = [o \in Obj |-> {}]
    /\ analysed = [h \in Hunts |-> {}]
    /\ mod = Idle
    /\ todo = [p \in Procs |-> <<>>]
    /\ requests = 0 /\ stops = 0

----------------------------------------------------------------------------
(***************************************************************************)
(* The operations of RetroHunt, as the commands they send.                 *)
(***************************************************************************)
Cmd(op, h, val) == [op |-> op, hunt |-> h, val |-> val]

\* Mutant: the field is written and the set forgotten.
MutantSetState(h, s) == <<Cmd("state", h, s)>>

\* RetroHunt._set_state also removes h from retro_hunt:task:<old state>, a set that does not
\* exist: h stays in the set of its old state.
SetState(h, s) == <<Cmd("sadd", h, s), Cmd("state", h, s)>>

Pause(h) == SetState(h, "paused") \o <<Cmd("flag", h, TRUE), Cmd("flag", h, FALSE)>>

Resume(h) == <<Cmd("flag", h, FALSE)>> \o SetState(h, "pending")

\* Mutant: the state of a completed hunt is not written.
MutantComplete(h) == <<Cmd("flag", h, FALSE), Cmd("last", h, None)>>

Complete(h) == SetState(h, "completed") \o <<Cmd("flag", h, FALSE), Cmd("last", h, None)>>

Create(h) == <<Cmd("hash", h, "new"), Cmd("listed", h, TRUE), Cmd("all", h, TRUE)>>
             \o SetState(h, "pending")

\* Mutants: the match is not counted; the object does not know the hunt.
MutantAddUncounted(h, o) == <<Cmd("obj", h, o), Cmd("map", h, o)>>
MutantAddUnmapped(h, o) == <<Cmd("obj", h, o), Cmd("nb", h, 1)>>

Add(h, o) == <<Cmd("obj", h, o), Cmd("map", h, o), Cmd("nb", h, 1)>>

RemoveLinks(h, o) == <<Cmd("unobj", h, o), Cmd("unmap", h, o)>>

Remove(h, o) == RemoveLinks(h, o) \o <<Cmd("nb", h, -1)>>

\* The matches that are read, then removed: those of a type, those that are left.
DeleteObjs(h) == [i \in DOMAIN Types |-> Cmd("read", h, Types[i])]

\* RetroHunt.delete removes neither h from the running ones nor the hash, whose name it gets
\* wrong.
Delete(h) ==
    DeleteObjs(h)
    \o (IF h \in Custom THEN <<Cmd("rule", h, None)>> ELSE <<>>)
    \o <<Cmd("listed", h, FALSE), Cmd("srem", h, "pending"), Cmd("read", h, "all"),
         Cmd("all", h, FALSE), Cmd("srem", h, "pending"), Cmd("srem", h, "paused"),
         Cmd("srem", h, "completed"), Cmd("flag", h, FALSE)>>

----------------------------------------------------------------------------
(***************************************************************************)
(* One action per Redis command.                                           *)
(***************************************************************************)
Runs(p, ops) == todo[p] # <<>> /\ Head(todo[p]).op \in ops
On(p) == Head(todo[p]).hunt
Val(p) == Head(todo[p]).val
Op(p) == Head(todo[p]).op
Sent(p) == todo' = [todo EXCEPT ![p] = Tail(@)]

HsetState(p) ==
    /\ Runs(p, {"state", "hash"})
    /\ state' = [state EXCEPT ![On(p)] = Val(p)]
    /\ Sent(p)
    /\ UNCHANGED <<last, nb, index, flag, objs, hunts, rule, analysed, mod, counts>>

HsetLast(p) ==
    /\ Runs(p, {"last"})
    /\ last' = [last EXCEPT ![On(p)] = Val(p)]
    /\ Sent(p)
    /\ UNCHANGED <<state, nb, index, flag, objs, hunts, rule, analysed, mod, counts>>

SaddState(p) ==
    /\ Runs(p, {"sadd", "srem"})
    /\ sets' = [sets EXCEPT ![Val(p)] = IF Op(p) = "sadd" THEN @ \cup {On(p)} ELSE @ \ {On(p)}]
    /\ Sent(p)
    /\ UNCHANGED <<hash, listed, all, flag, objs, hunts, rule, analysed, mod, counts>>

Set(s, h, in) == IF in THEN s \cup {h} ELSE s \ {h}

SaddLists(p) ==
    /\ Runs(p, {"listed", "all"})
    /\ listed' = IF Op(p) = "listed" THEN Set(listed, On(p), Val(p)) ELSE listed
    /\ all' = IF Op(p) = "all" THEN Set(all, On(p), Val(p)) ELSE all
    /\ Sent(p)
    /\ UNCHANGED <<hash, sets, flag, objs, hunts, rule, analysed, mod, counts>>

\* hset and hdel of the field pause; clear_cache deletes it with the hash.
HsetPause(p) ==
    /\ Runs(p, {"flag"})
    /\ flag' = Set(flag, On(p), Val(p))
    /\ Sent(p)
    /\ UNCHANGED <<hash, index, objs, hunts, rule, analysed, mod, counts>>

SaddMatch(p) ==
    /\ Runs(p, {"obj", "unobj"})
    /\ objs' = [objs EXCEPT ![On(p)] = Set(@, Val(p), Op(p) = "obj")]
    /\ Sent(p)
    /\ UNCHANGED <<hash, index, flag, hunts, rule, analysed, mod, counts>>

SaddMap(p) ==
    /\ Runs(p, {"map", "unmap"})
    /\ hunts' = [hunts EXCEPT ![Val(p)] = Set(@, On(p), Op(p) = "map")]
    /\ Sent(p)
    /\ UNCHANGED <<hash, index, flag, objs, rule, analysed, mod, counts>>

HincrMatch(p) ==
    /\ Runs(p, {"nb"})
    /\ nb' = [nb EXCEPT ![On(p)] = @ + Val(p)]
    /\ Sent(p)
    /\ UNCHANGED <<state, last, index, flag, objs, hunts, rule, analysed, mod, counts>>

\* get_objs_by_type and get_objs: the matches as they are when they are read.
ReadMatches(p) ==
    /\ Runs(p, {"read"})
    /\ LET read == {o \in objs[On(p)] : Val(p) \in {Objs[o].type, "all"}}
           op == IF Val(p) = "all" THEN "remove" ELSE "unlink"
       IN  todo' = [todo EXCEPT ![p] = <<Cmd(op, On(p), read)>> \o Tail(@)]
    /\ UNCHANGED <<hash, index, flag, objs, hunts, rule, analysed, mod, counts>>

\* The loop over what was read, in an order that nothing depends on.
RemoveMatches(p) ==
    /\ Runs(p, {"unlink", "remove"})
    /\ IF Val(p) = {}
       THEN Sent(p)
       ELSE LET o == CHOOSE x \in Val(p) : TRUE
                remove == IF Op(p) = "remove" THEN Remove(On(p), o) ELSE RemoveLinks(On(p), o)
            IN  todo' = [todo EXCEPT ![p] =
                           remove \o <<Cmd(Op(p), On(p), Val(p) \ {o})>> \o Tail(@)]
    /\ UNCHANGED <<hash, index, flag, objs, hunts, rule, analysed, mod, counts>>

\* os.remove raises if the file is gone, and ends the request.
RemoveRule(p) ==
    /\ Runs(p, {"rule"})
    /\ rule' = rule \ {On(p)}
    /\ todo' = [todo EXCEPT ![p] = IF On(p) \in rule THEN Tail(@) ELSE <<>>]
    /\ UNCHANGED <<hash, index, flag, objs, hunts, analysed, mod, counts>>

\* RetroHunt.delete, which checks again what the API has checked.
DeleteChecked(p) ==
    /\ Runs(p, {"delete"})
    /\ todo' = [todo EXCEPT ![p] =
          IF On(p) \in sets["running"] /\ state[On(p)] \notin {"completed", "paused"}
          THEN Pause(On(p)) ELSE Delete(On(p))]
    /\ UNCHANGED <<hash, index, flag, objs, hunts, rule, analysed, mod, counts>>

Command(p) ==
    \/ HsetState(p) \/ HsetLast(p) \/ SaddState(p) \/ SaddLists(p) \/ HsetPause(p)
    \/ SaddMatch(p) \/ SaddMap(p) \/ HincrMatch(p) \/ ReadMatches(p) \/ RemoveMatches(p)
    \/ RemoveRule(p) \/ DeleteChecked(p)

----------------------------------------------------------------------------
(***************************************************************************)
(* The requests of the web interface.  A request looks at the state once   *)
(* and then sends its commands.                                            *)
(***************************************************************************)
Request(u, cmds) ==
    /\ todo[u] = <<>>
    /\ requests < MaxRequests
    /\ requests' = requests + 1
    /\ todo' = [todo EXCEPT ![u] = cmds]
    /\ UNCHANGED <<hash, index, flag, objs, hunts, analysed, mod, stops>>

\* create_retro_hunt writes the rule first; the uuid is a new one.
ApiCreate(u, h) ==
    /\ state[h] = None /\ h \notin rule
    /\ Request(u, Create(h))
    /\ rule' = rule \cup {h}

ApiPause(u, h) ==
    /\ state[h] \in {"pending", "running"}
    /\ Request(u, Pause(h))
    /\ UNCHANGED rule

\* is_paused looks at the set, not at the field: a hunt that was paused once passes.
ApiResume(u, h) ==
    /\ state[h] # None
    /\ h \in sets["paused"]
    /\ Request(u, Resume(h))
    /\ UNCHANGED rule

ApiDelete(u, h) ==
    /\ state[h] # None
    /\ ~(h \in sets["running"] /\ state[h] \notin {"completed", "paused"})
    /\ Request(u, <<Cmd("delete", h, None)>>)
    /\ UNCHANGED rule

Flask(u) == \E h \in Hunts : ApiCreate(u, h) \/ ApiPause(u, h) \/ ApiResume(u, h) \/ ApiDelete(u, h)

----------------------------------------------------------------------------
(***************************************************************************)
(* The module.                                                             *)
(***************************************************************************)
Ready(pc) == mod.pc = pc /\ todo[Module] = <<>>
ModuleSends(cmds) == todo' = [todo EXCEPT ![Module] = cmds]

\* get_retro_hunt_task_to_start: the hunt is popped, then marked as running.
Pop ==
    /\ Ready("idle")
    /\ \E h \in sets["pending"] :
        /\ sets' = [sets EXCEPT !["pending"] = @ \ {h}]
        /\ mod' = [Idle EXCEPT !.pc = "start", !.hunt = h]
        /\ ModuleSends(SetState(h, "running"))
    /\ UNCHANGED <<hash, listed, all, flag, objs, hunts, rule, analysed, counts>>

\* The objects that are left after the object l: the items after it, but of the sources that
\* follow only from its day on (get_all_items_objects cuts the days once for every source);
\* all the objects of the other types.
Resumed(l) ==
    IF l # None /\ IsItem(l)
    THEN {i \in Obj : IsItem(i) => i > l /\ Objs[i].day >= Objs[l].day}
    ELSE Obj

\* Mutant: the last object is split although there is none.
MutantStart ==
    /\ Ready("start")
    /\ LET l == last[mod.hunt]
           raises == mod.hunt \notin rule \/ l = None \/ Objs[l].type = "decoded"
       IN  mod' = IF raises THEN [mod EXCEPT !.pc = "dead"]
                  ELSE [mod EXCEPT !.pc = "scan", !.left = Resumed(l)]
    /\ UNCHANGED <<hash, index, flag, objs, hunts, rule, analysed, todo, counts>>

\* compute, up to the loop.  yara.compile raises if the rule file is gone, and
\* get_all_decodeds_objects if the hunt stopped at a decoded object: nothing catches it.
Start ==
    /\ Ready("start")
    /\ LET l == last[mod.hunt]
           raises == mod.hunt \notin rule \/ (l # None /\ Objs[l].type = "decoded")
       IN  mod' = IF raises THEN [mod EXCEPT !.pc = "dead"]
                  ELSE [mod EXCEPT !.pc = "scan", !.left = Resumed(l)]
    /\ UNCHANGED <<hash, index, flag, objs, hunts, rule, analysed, todo, counts>>

\* Mutant: the count is not taken modulo.
MutantAdvance(done) == done + 1

\* nb_done, as far as it tells when last is written.
Advance(done) == (done + 1) % LastEvery

\* An object without content is passed over, without a look at the pause.
Analyse ==
    /\ Ready("scan") /\ mod.left # {}
    /\ LET o == Min(mod.left)
           h == mod.hunt
           done == Advance(mod.done)
       IN  IF Objs[o].content
           THEN /\ mod' = [mod EXCEPT !.left = @ \ {o}, !.obj = o, !.pc = "check",
                                      !.done = done]
                /\ analysed' = [analysed EXCEPT ![h] = @ \cup {o}]
                /\ ModuleSends((IF <<h, o>> \in Hits THEN Add(h, o) ELSE <<>>)
                               \o IF done = 0 THEN <<Cmd("last", h, o)>> ELSE <<>>)
           ELSE /\ mod' = [mod EXCEPT !.left = @ \ {o}]
                /\ UNCHANGED <<analysed, todo>>
    /\ UNCHANGED <<hash, index, flag, objs, hunts, rule, counts>>

\* rule.match raises yara.TimeoutError on an object: nothing catches it, in compute or in run
\* (trackers/Tracker_Yara.py does).
TimesOut ==
    /\ Ready("scan") /\ mod.left # {}
    /\ Objs[Min(mod.left)].content
    /\ mod' = [mod EXCEPT !.pc = "dead"]
    /\ UNCHANGED <<hash, index, flag, objs, hunts, rule, analysed, todo, counts>>

\* Mutant: the object that follows is written as the last one.
MutantCheckPause ==
    /\ Ready("check")
    /\ IF mod.hunt \in flag
       THEN /\ mod' = Idle
            /\ ModuleSends(<<Cmd("last", mod.hunt, IF mod.left = {} THEN mod.obj
                                                   ELSE Min(mod.left))>> \o Pause(mod.hunt))
       ELSE mod' = [mod EXCEPT !.pc = "scan"] /\ UNCHANGED todo
    /\ UNCHANGED <<hash, index, flag, objs, hunts, rule, analysed, counts>>

CheckPause ==
    /\ Ready("check")
    /\ IF mod.hunt \in flag
       THEN /\ mod' = Idle
            /\ ModuleSends(<<Cmd("last", mod.hunt, mod.obj)>> \o Pause(mod.hunt))
       ELSE mod' = [mod EXCEPT !.pc = "scan"] /\ UNCHANGED todo
    /\ UNCHANGED <<hash, index, flag, objs, hunts, rule, analysed, counts>>

Completed ==
    /\ Ready("scan") /\ mod.left = {}
    /\ mod' = Idle
    /\ ModuleSends(Complete(mod.hunt))
    /\ UNCHANGED <<hash, index, flag, objs, hunts, rule, analysed, counts>>

\* AIL is stopped, wherever the module is, and started again.
Stop ==
    /\ stops < MaxStops
    /\ stops' = stops + 1
    /\ mod' = Idle
    /\ ModuleSends(<<>>)
    /\ UNCHANGED <<hash, index, flag, objs, hunts, rule, analysed, requests>>

Works == Command(Module) \/ Pop \/ Start \/ Analyse \/ TimesOut \/ CheckPause \/ Completed

Next == Works \/ Stop \/ \E u \in Users : Command(u) \/ Flask(u)

Spec == Init /\ [][Next]_vars

\* The module waits for no one; a request that was accepted is carried out.
Fairness == WF_vars(Works) /\ \A u \in Users : WF_vars(Command(u))
FairSpec == Spec /\ Fairness

----------------------------------------------------------------------------
(***************************************************************************)
(* Properties.                                                             *)
(***************************************************************************)
Commands(p) == Range(todo[p])

\* What a process may have to send, by the operation.
Cmds ==
    [op : {"state", "sadd", "srem"}, hunt : Hunts, val : States]
    \cup [op : {"hash"}, hunt : Hunts, val : {"new"}]
    \cup [op : {"last"}, hunt : Hunts, val : Obj \cup {None}]
    \cup [op : {"listed", "all", "flag"}, hunt : Hunts, val : BOOLEAN]
    \cup [op : {"obj", "unobj", "map", "unmap"}, hunt : Hunts, val : Obj]
    \cup [op : {"nb"}, hunt : Hunts, val : {1, -1}]
    \cup [op : {"read"}, hunt : Hunts, val : Range(Types) \cup {"all"}]
    \cup [op : {"unlink", "remove"}, hunt : Hunts, val : SUBSET Obj]
    \cup [op : {"rule", "delete"}, hunt : Hunts, val : {None}]

TypeOK ==
    /\ state \in [Hunts -> States \cup {"new", None}]
    /\ last \in [Hunts -> Obj \cup {None}]
    /\ nb \in [Hunts -> Int]
    /\ sets \in [States -> SUBSET Hunts]
    /\ listed \subseteq Hunts /\ all \subseteq Hunts /\ flag \subseteq Hunts /\ rule \subseteq Hunts
    /\ objs \in [Hunts -> SUBSET Obj] /\ analysed \in [Hunts -> SUBSET Obj]
    /\ hunts \in [Obj -> SUBSET Hunts]
    /\ mod \in [pc : {"idle", "start", "scan", "check", "dead"}, hunt : Hunts \cup {None},
                left : SUBSET Obj, obj : Obj \cup {None}, done : 0 .. LastEvery - 1]
    /\ todo \in [Procs -> Seq(Cmds)]
    /\ requests \in Nat /\ stops \in Nat

Full == {o \in Obj : Objs[o].content}

\* "Retro Hunt {task_uuid} completed" (trackers/Retro_Hunt.py:112): a hunt that is completed
\* has analysed every object, whenever it was paused and resumed.
CompletedAll == \A h \in Hunts : state[h] = "completed" => Full \subseteq analysed[h]

\* The items that a resumed hunt may have cut.
Cut(o) == /\ IsItem(o)
          /\ \E i \in Obj : /\ IsItem(i)
                            /\ Objs[i].source < Objs[o].source /\ Objs[i].day > Objs[o].day

\* All that a completed hunt can have missed are items of an older day in a later source: a
\* pause at any object, the delayed write of last and a stop of AIL make it miss nothing else.
CompletedButCut ==
    \A h \in Hunts : state[h] = "completed" => \A o \in Full \ analysed[h] : Cut(o)

\* What was analysed and matched is listed: by the hunt, and by the object, unless AIL was
\* stopped between two commands.
MatchesListed ==
    \A h \in all, o \in Obj :
        /\ <<h, o>> \in Hits
        /\ stops = 0
        /\ \A p \in Procs : \A c \in Commands(p) : c.hunt # h
        => (o \in analysed[h] <=> o \in objs[h]) /\ (o \in objs[h] <=> h \in hunts[o])

\* The matches that are counted are at least those that are listed.
CountCovers ==
    \A h \in all :
        /\ stops = 0
        /\ \A p \in Procs : \A c \in Commands(p) : c.hunt # h
        => nb[h] >= Cardinality(objs[h])

\* The hunts that no request has deleted.
Kept == all \cap rule

\* A hunt is in the set of the state that it shows, which is what lets it be resumed.
StateListed == \A h \in Kept : state[h] \in States \ {"pending"} => h \in sets[state[h]]

\* What ends the module: a deleted rule, a decoded object as the last one of a hunt that is
\* resumed, or a match that takes too long on an object, and then at that object.  No pause,
\* resume, second run or stop makes it end otherwise.
ModuleStops ==
    mod.pc = "dead" => \/ mod.hunt \notin rule
                       \/ last[mod.hunt] # None /\ Objs[last[mod.hunt]].type = "decoded"
                       \/ mod.left # {} /\ Objs[Min(mod.left)].content

\* A hunt in the queue ends: it is completed, paused or deleted, unless the module has ended on
\* an exception or AIL was stopped.
HuntEnds ==
    \A h \in Hunts : h \in sets["pending"]
        ~> state[h] \in {"paused", "completed"} \/ h \notin Kept \/ mod.pc = "dead" \/ stops > 0
=============================================================================
