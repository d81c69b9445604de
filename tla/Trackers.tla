------------------------------ MODULE Trackers ------------------------------
(***************************************************************************)
(* Trackers: the class Tracker and its API in lib/Tracker.py, the requests *)
(* of the web interface, and the modules of trackers/ that look for what   *)
(* is tracked in every object.                                             *)
(*                                                                         *)
(* A tracker has a hash and stands in a dozen sets, written one by one.    *)
(* The modules keep a copy of the terms of their type, and read it again   *)
(* when Flask has left them a note of the time of a change.                *)
(*                                                                         *)
(*   db       the Redis sets, as one set of <<set, ..., member>>:          *)
(*     <<"terms", t, k, w>>      trackers:objs:<type>:<kind>               *)
(*     <<"uuids", t, w, u, k>>   trackers:uuid:<type>:<term>               *)
(*     <<"tracked", t, w>>       all:tracker:<type>                        *)
(*     <<"uuid", t, w, u>>       all:tracker_uuid:<type>:<term>            *)
(*     <<"all", u>>, <<"allOf", t, u>>        trackers:all[:<type>]        *)
(*     <<"level", l, u>>, <<"levelOf", l, t, u>>   <level>:tracker[:<type>]*)
(*     <<"date", u, d, o>>, <<"type", u, o>>  tracker:objs:<u>:<d or kind> *)
(*     <<"of", o, u>>            obj:trackers:<o>                          *)
(*     <<"dates", o, u, d>>      obj:tracker:<o>:<u>                       *)
(*   hash[u]  the fields of tracker:<u>, None for one that is not there    *)
(*   dirty    types whose tracker:refresh:<type> is later than the time    *)
(*            the module wrote down at its last refresh                    *)
(*                                                                         *)
(* History: shared, the terms that two trackers had at a time; overlap,    *)
(* the types whose terms changed after the module had read them and before *)
(* it wrote the time down; raced, the matches that were added while they   *)
(* were removed; stray, the members of db that an edit leaves wrong: the   *)
(* list of a level and the old type after a change of the type, the old    *)
(* and the new term in all:tracker_uuid after a change of the term alone.  *)
(***************************************************************************)
EXTENDS Naturals, Sequences, FiniteSets, SequencesExt

CONSTANTS
    Uuids,        \* trackers
    Asks,         \* what a user asks a tracker to be
    Kinds,        \* get_objects_tracked(): types of objects
    Objs,         \* objects
    KindOf,       \* the kind of each object
    Hits,         \* <<w, o>>: the term w is found in the object o
    LastDay,      \* days are 1 .. LastDay, and the modules run on the last one
    None,         \* no value
    MaxRequests,  \* bound: requests
    MaxTaken      \* bound: objects that a module takes from its queue

Types == {a.type : a \in Asks}
Terms == {a.tracked : a \in Asks}
Levels == 0 .. 2
Days == 1 .. LastDay
Flask == "flask"
Procs == Types \cup {Flask}

ASSUME TrackersAssumption ==
    /\ Asks \subseteq [type : STRING, tracked : Terms, level : Levels, filters : SUBSET Kinds]
    /\ KindOf \in [Objs -> Kinds]
    /\ Hits \subseteq Terms \X Objs
    /\ LastDay \in Nat \ {0} /\ MaxRequests \in Nat /\ MaxTaken \in Nat
    /\ None \notin Uuids \cup Objs \cup Terms
    /\ Flask \notin Types /\ IsFiniteSet(Kinds) /\ IsFiniteSet(Objs)

VARIABLES
    db, hash, dirty,
    mod,                      \* the modules, one for each type: their copy and where they are
    todo,                     \* the commands that Flask, and each module, have still to send
    requests, taken,          \* counted for the bounds
    shared, overlap, raced, stray     \* history

histories == <<shared, overlap, raced, stray>>
vars == <<db, hash, dirty, mod, todo, requests, taken, shared, overlap, raced, stray>>

NoHash == [type |-> None, tracked |-> None, level |-> None, filters |-> None,
           first |-> None, last |-> None]
Idle == [pc |-> "idle", copy |-> {}, obj |-> None, terms |-> {}, found |-> {}]

Init ==
    /\ db = {} /\ dirty = {}
    /\ hash = [u \in Uuids |-> NoHash]
    /\ mod = [t \in Types |-> Idle]
    /\ todo = [p \in Procs |-> <<>>]
    /\ requests = 0 /\ taken = 0
    /\ shared = {} /\ overlap = {} /\ raced = {} /\ stray = {}

Exists(u) == hash[u] # NoHash

----------------------------------------------------------------------------
(***************************************************************************)
(* The operations of Tracker, as the commands they send.                   *)
(***************************************************************************)
Sadd(x) == <<"sadd", x>>
Srem(x) == <<"srem", x>>
Hset(u, f, v) == <<"hset", u, f, v>>

\* A loop that sends the two commands f[x] for every x.
Each(f) == LET xs == SetToSeq(DOMAIN f)
           IN  [i \in 1 .. 2 * Len(xs) |-> f[xs[(i + 1) \div 2]][2 - (i % 2)]]

SetLevel(u, t, l) ==
    <<Sadd(<<"level", l, u>>), Sadd(<<"levelOf", l, t, u>>), Hset(u, "level", l)>>

\* Mutant: the list of the level and the type is forgotten.
MutantResetLevel(u, t, old, new) == <<Srem(<<"level", old, u>>)>> \o SetLevel(u, t, new)

\* t is the type that the hash has at that time.
ResetLevel(u, t, old, new) ==
    <<Srem(<<"level", old, u>>), Srem(<<"levelOf", old, t, u>>)>> \o SetLevel(u, t, new)

\* A filter that names no kind tracks them all.
Tracks(filters) == IF filters \in {None, {}} THEN Kinds ELSE filters

\* Mutant: the term stays in the lists of the modules.
MutantDelFilters(u, t, w, filters) ==
    Each([k \in Tracks(filters) |-> <<Srem(<<"uuids", t, w, u, k>>), Sadd(<<"terms", t, k, w>>)>>]) \o <<Hset(u, "filters", None)>>

DelFilters(u, t, w, filters) ==
    Each([k \in Tracks(filters) |-> <<Srem(<<"terms", t, k, w>>), Srem(<<"uuids", t, w, u, k>>)>>])
    \o <<Hset(u, "filters", None)>>

AddFilters(u, a) ==
    (IF a.filters = {} THEN <<>> ELSE <<Hset(u, "filters", a.filters)>>)
    \o Each([k \in Tracks(a.filters) |-> <<Sadd(<<"terms", a.type, k, a.tracked>>),
                                            Sadd(<<"uuids", a.type, a.tracked, u, k>>)>>])

Create(u, a) ==
    <<Hset(u, "tracked", a.tracked), Hset(u, "type", a.type), Sadd(<<"tracked", a.type, a.tracked>>),
      Sadd(<<"uuid", a.type, a.tracked, u>>), Sadd(<<"all", u>>), Sadd(<<"allOf", a.type, u>>)>>
    \o SetLevel(u, a.type, a.level) \o AddFilters(u, a) \o <<<<"trigger", a.type>>>>

\* A change of the type moves the tracker from set to set; until the field has changed, the
\* level's set is the one of the old type, which nothing removes it from.
ChangeType(u, a, old) ==
    ResetLevel(u, old.type, old.level, a.level)
    \o <<Hset(u, "type", a.type),
         Srem(<<"tracked", old.type, old.tracked>>), Sadd(<<"tracked", a.type, a.tracked>>),
         Srem(<<"uuid", old.type, old.tracked, u>>), Sadd(<<"uuid", a.type, a.tracked, u>>),
         Srem(<<"allOf", old.type, u>>), Sadd(<<"allOf", a.type, u>>)>>

\* A note to the module of the type, and to that of another type before.
Notes(t, old) == <<<<"trigger", t>>>> \o (IF t = old THEN <<>> ELSE <<<<"trigger", old>>>>)

\* Mutants: the new term is taken out instead of the old one; the module of the old type is
\* not told.
MutantEditTerm(u, a, old) ==
    (IF a.type = old.type THEN <<>> ELSE ChangeType(u, a, old))
    \o ResetLevel(u, a.type, old.level, a.level)
    \o (IF a.tracked = old.tracked THEN <<>> ELSE <<Hset(u, "tracked", a.tracked)>>)
    \o DelFilters(u, old.type, a.tracked, old.filters) \o AddFilters(u, a)
    \o Notes(a.type, old.type)
MutantEditTrigger(u, a, old) ==
    (IF a.type = old.type THEN <<>> ELSE ChangeType(u, a, old))
    \o ResetLevel(u, a.type, old.level, a.level)
    \o (IF a.tracked = old.tracked THEN <<>> ELSE <<Hset(u, "tracked", a.tracked)>>)
    \o DelFilters(u, old.type, old.tracked, old.filters) \o AddFilters(u, a)
    \o <<<<"trigger", a.type>>>>

Edit(u, a, old) ==
    (IF a.type = old.type THEN <<>> ELSE ChangeType(u, a, old))
    \o ResetLevel(u, a.type, old.level, a.level)
    \o (IF a.tracked = old.tracked THEN <<>> ELSE <<Hset(u, "tracked", a.tracked)>>)
    \o DelFilters(u, old.type, old.tracked, old.filters) \o AddFilters(u, a)
    \o Notes(a.type, old.type)

Delete(u, old) ==
    <<<<"objs", u>>>>
    \o Each([k \in Kinds |-> <<Srem(<<"terms", old.type, k, old.tracked>>),
                                Srem(<<"uuids", old.type, old.tracked, u, k>>)>>])
    \o <<Srem(<<"level", old.level, u>>), Srem(<<"levelOf", old.level, old.type, u>>),
         Srem(<<"tracked", old.type, old.tracked>>), Srem(<<"uuid", old.type, old.tracked, u>>),
         Srem(<<"all", u>>), Srem(<<"allOf", old.type, u>>), <<"del", u>>, <<"trigger", old.type>>>>

\* Tracker.add after its first command, whose answer tells whether the day has the object.
AddRest(u, o, d, new) ==
    <<Sadd(<<"of", o, u>>), Sadd(<<"dates", o, u, d>>), Sadd(<<"type", u, o>>)>>
    \o (IF new THEN <<<<"seen", u, d>>>> ELSE <<>>)

\* Tracker.remove after it has read the days of the object.  Mutant: the days are forgotten.
MutantRemoveRest(u, o, days) ==
    <<Srem(<<"of", o, u>>), Srem(<<"type", u, o>>), <<"range", u>>>>
RemoveRest(u, o, days) ==
    Each([d \in days |-> <<Srem(<<"date", u, d, o>>), Srem(<<"dates", o, u, d>>)>>])
    \o <<Srem(<<"of", o, u>>), Srem(<<"type", u, o>>), <<"range", u>>>>

RemoveAll(u, os) == [i \in DOMAIN os |-> <<"remove", u, os[i]>>]

\* Mutant: a range that is open at its start.
MutantSeen(u, d) == <<Hset(u, "first", d - 1), Hset(u, "last", d)>>

\* update_daterange(date): what it writes, from the fields it has read; nothing if it raises,
\* for int() of a last day that is not there.
Seen(u, d) ==
    LET f == hash[u].first
        l == hash[u].last
        write(b, x) == IF b THEN <<Hset(u, x, d)>> ELSE <<>>
    IN  IF f = None THEN <<Hset(u, "first", d), Hset(u, "last", d)>>
        ELSE IF l = None THEN <<>>
        ELSE write(d < f, "first") \o write(d > l, "last")

\* update_daterange() after a removal.  A last day that has no object any more makes it write
\* the last day that has one as the first.
NewRange(u) ==
    LET f == hash[u].first
        l == hash[u].last
        has(d) == \E o \in Objs : <<"date", u, d, o>> \in db
        left == {d \in Days : f <= d /\ d <= l /\ has(d)}
    IN  IF f = None \/ l = None THEN <<>>
        ELSE IF left = {} /\ ~(has(f) /\ has(l)) THEN <<Hset(u, "first", None), Hset(u, "last", None)>>
        ELSE (IF has(f) THEN <<>> ELSE <<Hset(u, "first", Min(left))>>)
             \o (IF has(l) THEN <<>> ELSE <<Hset(u, "first", Max(left))>>)

----------------------------------------------------------------------------
(***************************************************************************)
(* One action per Redis command, and one per answer that the commands that *)
(* follow depend on.                                                       *)
(***************************************************************************)
Runs(p, op) == todo[p] # <<>> /\ Head(todo[p])[1] = op
Arg(p, i) == Head(todo[p])[i]
Sent(p) == todo' = [todo EXCEPT ![p] = Tail(@)]
Then(p, cmds) == todo' = [todo EXCEPT ![p] = cmds \o Tail(@)]

\* The modules that have read the terms and not yet written the time down.
Reading == {t \in Types : mod[t].pc = "stamp"}

SaddSrem(p) ==
    /\ Runs(p, "sadd") \/ Runs(p, "srem")
    /\ LET x == Arg(p, 2)
       IN  /\ db' = IF Runs(p, "sadd") THEN db \cup {x} ELSE db \ {x}
           /\ overlap' = IF x[1] = "terms" /\ x[2] \in Reading /\ db' # db
                         THEN overlap \cup {x[2]} ELSE overlap
    /\ Sent(p)
    /\ UNCHANGED <<hash, dirty, mod, requests, taken, shared, raced, stray>>

HsetField(p) ==
    /\ Runs(p, "hset")
    /\ hash' = [hash EXCEPT ![Arg(p, 2)] = [@ EXCEPT ![Arg(p, 3)] = Arg(p, 4)]]
    /\ Sent(p)
    /\ UNCHANGED <<db, dirty, mod, requests, taken, histories>>

DelHash(p) ==
    /\ Runs(p, "del")
    /\ hash' = [hash EXCEPT ![Arg(p, 2)] = NoHash]
    /\ Sent(p)
    /\ UNCHANGED <<db, dirty, mod, requests, taken, histories>>

Trigger(p) ==
    /\ Runs(p, "trigger")
    /\ dirty' = dirty \cup {Arg(p, 2)}
    /\ Sent(p)
    /\ UNCHANGED <<db, hash, mod, requests, taken, histories>>

\* The commands of the other processes about the match of o by u.
Links(u, o) == {<<"of", o, u>>, <<"type", u, o>>} \cup {<<"dates", o, u, d>> : d \in Days}
About(p, u, o) ==
    \E q \in Procs \ {p} : \E c \in Range(todo[q]) :
        \/ c[1] \in {"add", "remove"} /\ c[2] = u /\ c[3] = o
        \/ c[1] \in {"sadd", "srem"} /\ c[2] \in Links(u, o)
Race(p, u, o) == raced' = IF About(p, u, o) THEN raced \cup {<<u, o>>} ELSE raced

\* Tracker.add: the SADD whose answer is used.
AddMatch(p) ==
    /\ Runs(p, "add")
    /\ LET u == Arg(p, 2)
           o == Arg(p, 3)
           d == Arg(p, 4)
       IN  /\ db' = db \cup {<<"date", u, d, o>>}
           /\ Then(p, AddRest(u, o, d, <<"date", u, d, o>> \notin db))
           /\ Race(p, u, o)
    /\ UNCHANGED <<hash, dirty, mod, requests, taken, shared, overlap, stray>>

\* Tracker.remove: the days are read before anything is removed.
RemoveMatch(p) ==
    /\ Runs(p, "remove")
    /\ LET u == Arg(p, 2)
           o == Arg(p, 3)
       IN  /\ Then(p, RemoveRest(u, o, {d \in Days : <<"dates", o, u, d>> \in db}))
           /\ Race(p, u, o)
    /\ UNCHANGED <<db, hash, dirty, mod, requests, taken, shared, overlap, stray>>

\* Tracker.delete starts with the matches that are listed by then.
ReadMatches(p) ==
    /\ Runs(p, "objs")
    /\ LET u == Arg(p, 2)
       IN  Then(p, RemoveAll(u, SetToSeq({o \in Objs : <<"type", u, o>> \in db})))
    /\ UNCHANGED <<db, hash, dirty, mod, requests, taken, histories>>

\* Between the two HSETs of another process, a tracker has a first day and no last one.
Raises(p) == Runs(p, "seen") /\ hash[Arg(p, 2)].first # None /\ hash[Arg(p, 2)].last = None

\* With Flask, an exception ends a request that has nothing left to send.
UpdateRange(p) ==
    /\ \/ Runs(p, "seen") /\ (p = Flask \/ ~Raises(p)) /\ Then(p, Seen(Arg(p, 2), Arg(p, 3)))
       \/ Runs(p, "range") /\ Then(p, NewRange(Arg(p, 2)))
    /\ UNCHANGED <<db, hash, dirty, mod, requests, taken, histories>>

Command(p) == SaddSrem(p) \/ HsetField(p) \/ DelHash(p) \/ Trigger(p)
              \/ AddMatch(p) \/ RemoveMatch(p) \/ ReadMatches(p) \/ UpdateRange(p)

----------------------------------------------------------------------------
(***************************************************************************)
(* The requests: one after the other.                                      *)
(***************************************************************************)
Request(cmds) ==
    /\ todo[Flask] = <<>>
    /\ requests < MaxRequests
    /\ requests' = requests + 1
    /\ todo' = [todo EXCEPT ![Flask] = cmds]
    /\ UNCHANGED <<db, hash, dirty, mod, taken, overlap, raced>>

All == {u \in Uuids : <<"all", u>> \in db}
Shares(u, a) == \E v \in All \ {u} : hash[v].type = a.type /\ hash[v].tracked = a.tracked
NewShared(u, a) ==
    shared' = IF Shares(u, a) THEN shared \cup {<<a.type, a.tracked>>} ELSE shared

\* What Edit leaves wrong.
LeftWrong(u, a, old) ==
    IF a.type # old.type THEN {<<"levelOf", a.level, old.type, u>>}
    ELSE IF a.tracked = old.tracked THEN {}
         ELSE {<<"uuid", a.type, w, u>> : w \in {old.tracked, a.tracked}}

ApiAdd(u, a) == ~Exists(u) /\ Request(Create(u, a)) /\ NewShared(u, a) /\ UNCHANGED stray

ApiEdit(u, a) ==
    /\ u \in All
    /\ Request(Edit(u, a, hash[u]))
    /\ NewShared(u, a)
    /\ stray' = stray \cup LeftWrong(u, a, hash[u])

ApiDelete(u) == u \in All /\ Request(Delete(u, hash[u])) /\ UNCHANGED <<shared, stray>>

ApiAddObject(u, o, d) == u \in All /\ Request(<<<<"add", u, o, d>>>>) /\ UNCHANGED <<shared, stray>>

ApiRemoveObject(u, o) == u \in All /\ Request(<<<<"remove", u, o>>>>) /\ UNCHANGED <<shared, stray>>

User ==
    \E u \in Uuids :
        \/ \E a \in Asks : ApiAdd(u, a) \/ ApiEdit(u, a)
        \/ ApiDelete(u)
        \/ \E o \in Objs : ApiRemoveObject(u, o) \/ \E d \in Days : ApiAddObject(u, o, d)

----------------------------------------------------------------------------
(***************************************************************************)
(* The modules Tracker_Term, Tracker_Regex...: one for each type.          *)
(***************************************************************************)
At(t, pc) == mod[t].pc = pc /\ todo[t] = <<>>
Becomes(t, m) == mod' = [mod EXCEPT ![t] = m]

\* compute starts with the refresh, if there was a change since the last one.
Take(t) ==
    /\ At(t, "idle")
    /\ taken < MaxTaken
    /\ taken' = taken + 1
    /\ \E o \in Objs :
        Becomes(t, IF t \in dirty
                   THEN [mod[t] EXCEPT !.pc = "read", !.obj = o]
                   ELSE [mod[t] EXCEPT !.pc = "look", !.obj = o])
    /\ UNCHANGED <<db, hash, dirty, todo, requests, histories>>

\* The terms of a type, each with a kind it is looked for in.
TermsOf(t) == {x \in Kinds \X Terms : <<"terms", t, x[1], x[2]>> \in db}

\* get_tracked_regexs, here all kinds at once.
ReadTerms(t) ==
    /\ At(t, "read")
    /\ Becomes(t, [mod[t] EXCEPT !.pc = "stamp", !.copy = TermsOf(t)])
    /\ overlap' = overlap \ {t}
    /\ UNCHANGED <<db, hash, dirty, todo, requests, taken, shared, raced, stray>>

\* last_refresh is the time at the end of the reading, not at its start.
Stamp(t) ==
    /\ At(t, "stamp")
    /\ dirty' = dirty \ {t}
    /\ Becomes(t, [mod[t] EXCEPT !.pc = "look"])
    /\ UNCHANGED <<db, hash, todo, requests, taken, histories>>

\* The terms of the copy that the object has.
Look(t) ==
    /\ At(t, "look")
    /\ LET o == mod[t].obj
       IN  Becomes(t, [mod[t] EXCEPT !.pc = "match",
                       !.terms = {w \in Terms : <<KindOf[o], w>> \in mod[t].copy /\ <<w, o>> \in Hits}])
    /\ UNCHANGED <<db, hash, dirty, todo, requests, taken, histories>>

\* new_tracker_found: the trackers of a term, read once; none if the term is gone by now.
Found(t) ==
    /\ At(t, "match") /\ mod[t].found = {}
    /\ IF mod[t].terms = {}
       THEN Becomes(t, [Idle EXCEPT !.copy = mod[t].copy])
       ELSE \E w \in mod[t].terms :
             Becomes(t, [mod[t] EXCEPT !.terms = @ \ {w},
                         !.found = {u \in Uuids : <<"uuids", t, w, u, KindOf[mod[t].obj]>> \in db}])
    /\ UNCHANGED <<db, hash, dirty, todo, requests, taken, histories>>

Match(t) ==
    /\ At(t, "match")
    /\ \E u \in mod[t].found :
        /\ Becomes(t, [mod[t] EXCEPT !.found = @ \ {u}])
        /\ todo' = [todo EXCEPT ![t] = <<<<"add", u, mod[t].obj, LastDay>>>>]
    /\ UNCHANGED <<db, hash, dirty, requests, taken, histories>>

\* run() catches the exception: what was found in the object and not yet added is dropped.
GivesUp(t) ==
    /\ Raises(t) /\ Sent(t)
    /\ Becomes(t, [mod[t] EXCEPT !.terms = {}, !.found = {}])
    /\ UNCHANGED <<db, hash, dirty, requests, taken, histories>>

Module(t) == Command(t) \/ ReadTerms(t) \/ Stamp(t) \/ Look(t) \/ Found(t) \/ Match(t) \/ GivesUp(t)

Next == User \/ Command(Flask) \/ \E t \in Types : Take(t) \/ Module(t)

Spec == Init /\ [][Next]_vars

----------------------------------------------------------------------------
(***************************************************************************)
(* Properties.                                                             *)
(***************************************************************************)
TypeOK ==
    /\ \A u \in Uuids : /\ hash[u].type \in Types \cup {None}
                       /\ hash[u].tracked \in Terms \cup {None}
                       /\ hash[u].level \in Levels \cup {None}
                       /\ hash[u].filters \in (SUBSET Kinds) \cup {None}
                       /\ hash[u].first \in Days \cup {None} /\ hash[u].last \in Days \cup {None}
    /\ dirty \subseteq Types
    /\ \A t \in Types : /\ mod[t].pc \in {"idle", "read", "stamp", "look", "match"}
                       /\ mod[t].copy \subseteq Kinds \X Terms
                       /\ mod[t].obj \in Objs \cup {None}

Rest == todo[Flask] = <<>>
Settled == Rest /\ \A t \in Types : mod[t].pc = "idle" /\ todo[t] = <<>>
Is(u, t, w) == u \in All /\ hash[u].type = t /\ hash[u].tracked = w

\* Between requests, the two maps from a term to its trackers are exact.  By trackers:uuid the
\* modules find a tracker by its type, its term and the kinds of its filters, and by nothing it
\* was before an edit.  all:tracker_uuid, which get_trackers_by_tracked reads, has a tracker
\* under its type and its term, but for the terms that an edit without a change of the type
\* took it from and gave it.
UuidsExact ==
    Rest => \A t \in Types, w \in Terms, u \in Uuids :
        /\ \A k \in Kinds :
              <<"uuids", t, w, u, k>> \in db <=> Is(u, t, w) /\ k \in Tracks(hash[u].filters)
        /\ <<"uuid", t, w, u>> \in stray \/ (<<"uuid", t, w, u>> \in db <=> Is(u, t, w))

\* Between requests, a term that the modules look for has a tracker; and a tracker's term is
\* looked for, unless it was once the term of two: an edit or a deletion of one takes it from
\* the other.
TermsUsed ==
    Rest => \A t \in Types, w \in Terms, k \in Kinds :
        LET wanted == \E u \in Uuids : <<"uuids", t, w, u, k>> \in db
        IN  IF <<"terms", t, k, w>> \in db THEN wanted ELSE wanted => <<t, w>> \in shared

\* Between requests, a tracker is in the list of its level and of no other level; of the lists
\* of a level and a type, it is in that of its level and its type, and in no other but those
\* that an edit of its type has left it in.
LevelsExact ==
    Rest => \A u \in Uuids, l \in Levels :
        /\ <<"level", l, u>> \in db <=> u \in All /\ hash[u].level = l
        /\ u \in All /\ hash[u].level = l => <<"levelOf", l, hash[u].type, u>> \in db
        /\ \A t \in Types : <<"levelOf", l, t, u>> \in db
             => (u \in All /\ hash[u].level = l /\ hash[u].type = t) \/ <<"levelOf", l, t, u>> \in stray

\* A module whose copy is not what the sets say reads them again before its next object,
\* unless they changed while it was between its reading and the note of the time.
CopyFresh ==
    \A t \in Types : mod[t].pc = "idle" /\ Rest
        => \/ mod[t].copy = TermsOf(t)
           \/ t \in dirty \/ t \in overlap

\* The four sets that link a match to its tracker and its days agree, unless it was removed
\* while it was added.
MatchesAgree ==
    Settled => \A u \in Uuids, o \in Objs :
        LET days == {d \in Days : <<"date", u, d, o>> \in db}
        IN  <<u, o>> \notin raced =>
            /\ days = {d \in Days : <<"dates", o, u, d>> \in db}
            /\ <<"of", o, u>> \in db <=> days # {}
            /\ <<"type", u, o>> \in db <=> days # {}
=============================================================================
