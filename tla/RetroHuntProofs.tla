-------------------------- MODULE RetroHuntProofs --------------------------
(***************************************************************************)
(* Proofs about RetroHunt, for any hunts, objects, rules, users and bounds.*)
(***************************************************************************)
EXTENDS RetroHunt, FiniteSetTheorems, SequenceTheorems, WellFoundedInduction, TLAPS

(***************************************************************************)
(* The inductive invariant.  First what a list of commands looks like: it  *)
(* is about one hunt; a deletion that has begun takes the hunt out of the  *)
(* list of all hunts after its matches; a creation begins with the hash.   *)
(***************************************************************************)
Lists(h) == Cmd("all", h, TRUE)
Unlists(h) == Cmd("all", h, FALSE)
Removes(c) == \/ c.op \in {"read", "unlink", "remove", "unobj", "unmap", "rule"}
              \/ (c.op = "nb" /\ c.val = -1)

OneHunt(s) == \A i, j \in DOMAIN s : s[i].hunt = s[j].hunt
RemovesFirst(s) == \A i \in DOMAIN s : Removes(s[i]) =>
                      \E j \in DOMAIN s : j > i /\ s[j] = Unlists(s[i].hunt)
OneRule(s) == \A i, j \in DOMAIN s : s[i].op = "rule" /\ s[j].op = "rule" => i = j
HashFirst(s) == \A i \in DOMAIN s : s[i].op = "hash" =>
                   i = 1 /\ \E j \in DOMAIN s : s[j] = Lists(s[i].hunt)
DeleteAlone(s) == \A i \in DOMAIN s : s[i].op = "delete" => Len(s) = 1
ListOK(s) == OneHunt(s) /\ RemovesFirst(s) /\ OneRule(s) /\ HashFirst(s) /\ DeleteAlone(s)

UserOps == {"state", "hash", "sadd", "srem", "listed", "all", "flag", "unobj", "unmap",
            "read", "unlink", "remove", "rule", "delete"}
ModuleOps == {"state", "sadd", "flag", "last", "obj", "map"}
Own(p, c) == IF p = Module THEN c.op \in ModuleOps \/ (c.op = "nb" /\ c.val = 1)
                           ELSE c.op \in UserOps \/ (c.op = "nb" /\ c.val = -1)

Ordered == \A p \in Procs : ListOK(todo[p]) /\ \A c \in Commands(p) : Own(p, c)

\* A hunt whose commands are sent has a hash, or gets it first; without one it has nothing.
Known ==
    /\ \A p \in Procs : \A c \in Commands(p) :
          /\ state[c.hunt] = None => todo[p][1].op = "hash"
          /\ c.op = "hash" => /\ c.hunt \in rule /\ state[c.hunt] = None
                              /\ \A q \in Procs \ {p} : \A d \in Commands(q) : d.hunt # c.hunt
    /\ \A h \in sets["pending"] \cup all : state[h] # None
    /\ \A h \in Hunts : state[h] = None =>
          /\ last[h] = None /\ nb[h] = 0 /\ objs[h] = {} /\ analysed[h] = {}
          /\ \A o \in Obj : h \notin hunts[o]

\* What the module has at each place of its code.
Placed ==
    /\ mod.pc # "idle" => mod.hunt \in Hunts /\ state[mod.hunt] # None
    /\ mod.pc = "check" => mod.obj \in Obj
    /\ mod.pc = "dead" => todo[Module] = <<>>

Controlled == TypeOK /\ Ordered /\ Known /\ Placed

\* The objects that a hunt has neither analysed nor before it are those that a pause has cut.
Missed(h, left) == \A o \in Full \ (analysed[h] \cup left) : Cut(o)
Progress ==
    /\ \A h \in Hunts : /\ state[h] = "completed" => Missed(h, {})
                        /\ Missed(h, Resumed(last[h]))
    /\ \A p \in Procs : \A c \in Commands(p) :
          /\ c.op = "last" => Missed(c.hunt, Resumed(c.val))
          /\ c.op = "state" /\ c.val = "completed" => Missed(c.hunt, {})
    /\ mod.pc \in {"scan", "check"} => Missed(mod.hunt, mod.left)
    /\ mod.pc = "check" => Missed(mod.hunt, Resumed(mod.obj))

Creating(h) == \E p \in Procs : Lists(h) \in Commands(p)
Deleting(h) == \E p \in Procs : Unlists(h) \in Commands(p)
\* No list has the hunt any more, or will.
Gone(h) == state[h] # None /\ h \notin all /\ ~Creating(h)
Whole(h) == ~Deleting(h) /\ ~Gone(h)

\* No user deletes a hunt between its entry in the page and the end of its creation.
NoEarlyDelete == \A u \in Users, h \in Hunts : ApiDelete(u, h) => ~Creating(h)

Deletions ==
    /\ \A p \in Procs : \A c \in Commands(p) :
          c = Unlists(c.hunt) \/ c.op = "delete" => state[c.hunt] # None /\ ~Creating(c.hunt)
    /\ \A h \in Hunts : h \notin rule /\ state[h] # None =>
          \/ Gone(h)
          \/ \E p \in Procs : Unlists(h) \in Commands(p) /\ \A c \in Commands(p) : c.op # "rule"

\* A state is written, and a set is left, after the command that makes it right.
After(s, i, c) == \E j \in DOMAIN s : j < i /\ s[j] = c
Fresh(s) == \A i \in DOMAIN s : s[i].val # "pending" =>
               /\ s[i].op = "srem" => After(s, i, Unlists(s[i].hunt))
               /\ s[i].op = "state" => After(s, i, Cmd("sadd", s[i].hunt, s[i].val))
Due(p, i) ==
    LET c == todo[p][i]
    IN  /\ c.op = "srem" /\ c.val # "pending" =>
              Gone(c.hunt) \/ After(todo[p], i, Unlists(c.hunt))
        /\ c.op = "state" /\ c.val # "pending" =>
              \/ Gone(c.hunt) \/ c.hunt \in sets[c.val]
              \/ After(todo[p], i, Cmd("sadd", c.hunt, c.val))
Listing ==
    /\ \A h \in Hunts : state[h] \in States \ {"pending"} => Gone(h) \/ h \in sets[state[h]]
    /\ \A p \in Procs : \A i \in DOMAIN todo[p] : Due(p, i)

\* The matches that the module has still to add.
ToList(h) == {o \in Obj : Cmd("obj", h, o) \in Commands(Module)}
ToMap(h) == {o \in Obj : Cmd("map", h, o) \in Commands(Module)}
ToCount(h) == IF Cmd("nb", h, 1) \in Commands(Module) THEN 1 ELSE 0
Agree(h) ==
    /\ \A o \in ToList(h) \cup ToMap(h) : o \in analysed[h] /\ <<h, o>> \in Hits
    /\ Whole(h) =>
          /\ \A o \in Obj : <<h, o>> \in Hits =>
                /\ o \in analysed[h] <=> o \in objs[h] \cup ToList(h)
                /\ o \in analysed[h] <=> h \in hunts[o] \/ o \in ToMap(h)
          /\ nb[h] + ToCount(h) >= Cardinality(objs[h] \cup ToList(h))
Matches == stops = 0 => \A h \in Hunts : Agree(h)

----------------------------------------------------------------------------
(***************************************************************************)
(* The objects, the commands, and sequences.                               *)
(***************************************************************************)
LEMMA ObjFacts ==
  /\ Len(Objs) \in Nat /\ Obj = 1 .. Len(Objs) /\ IsFiniteSet(Obj)
  /\ \A o \in Obj : /\ o \in Nat /\ Objs[o].source \in Nat /\ Objs[o].day \in Nat
                    /\ Objs[o].type \in Range(Types) /\ Objs[o].content \in BOOLEAN
<1> DEFINE Kind == [type : Range(Types), source : Nat, day : Nat, content : BOOLEAN]
<1>1. Objs \in Seq(Kind)
  BY Assumption
<1>2. Len(Objs) \in Nat /\ Obj = 1 .. Len(Objs)
  BY <1>1 DEF Obj
<1>3. IsFiniteSet(Obj)
  <2>1. 1 \in Int /\ Len(Objs) \in Int
    BY <1>2
  <2>2. IsFiniteSet(1 .. Len(Objs))
    BY <2>1, FS_Interval, Zenon
  <2> QED
    BY <1>2, <2>2
<1>4. \A o \in Obj : Objs[o] \in Kind
  <2> HIDE DEF Kind
  <2> QED
    BY <1>1, <1>2
<1> QED
  BY <1>2, <1>3, <1>4

LEMMA Least ==
  ASSUME NEW S, S \subseteq Nat, S # {}
  PROVE  \E m \in S : \A o \in S : m <= o
<1> DEFINE R == OpToRel(<, Nat)
<1>1. \A i, j \in Nat : <<i, j>> \in R <=> i < j
  BY DEF OpToRel
<1>2. IsWellFoundedOn(R, Nat)
  BY NatLessThanWellFounded
<1>3. \E m \in S : \A o \in S : ~(<<o, m>> \in R)
  <2> HIDE DEF R
  <2>1. \A T : T \subseteq Nat /\ T # {} => \E m \in T : \A o \in T : ~(<<o, m>> \in R)
    BY ONLY <1>2, WFMin
  <2> QED
    BY ONLY <2>1, S \subseteq Nat, S # {}
<1> HIDE DEF R
<1> QED
  <2>1. PICK m \in S : \A o \in S : ~(<<o, m>> \in R)
    BY <1>3
  <2>2. \A o \in S : ~(o < m)
    BY <1>1, <2>1, Zenon
  <2>3. \A o \in S : m <= o
    BY <2>2
  <2> QED
    BY <2>3

LEMMA MinFacts ==
  ASSUME NEW S, S \subseteq Obj, S # {}
  PROVE  Min(S) \in S /\ \A o \in S : Min(S) <= o
<1>1. S \subseteq Nat
  BY ObjFacts
<1>2. \E m \in S : \A o \in S : m <= o
  BY <1>1, Least
<1> QED
  BY <1>2, Zenon DEF Min

LEMMA CmdFields ==
  \A op, h, v : Cmd(op, h, v).op = op /\ Cmd(op, h, v).hunt = h /\ Cmd(op, h, v).val = v
BY DEF Cmd

LEMMA CmdsTyped ==
  /\ \A h \in Hunts :
        /\ \A s \in States : \A op \in {"state", "sadd", "srem"} : Cmd(op, h, s) \in Cmds
        /\ Cmd("hash", h, "new") \in Cmds
        /\ \A l \in Obj \cup {None} : Cmd("last", h, l) \in Cmds
        /\ \A b \in BOOLEAN : \A op \in {"listed", "all", "flag"} : Cmd(op, h, b) \in Cmds
        /\ \A o \in Obj : \A op \in {"obj", "unobj", "map", "unmap"} : Cmd(op, h, o) \in Cmds
        /\ Cmd("nb", h, 1) \in Cmds /\ Cmd("nb", h, -1) \in Cmds
        /\ \A t \in Range(Types) \cup {"all"} : Cmd("read", h, t) \in Cmds
        /\ \A s \in SUBSET Obj : Cmd("unlink", h, s) \in Cmds /\ Cmd("remove", h, s) \in Cmds
        /\ Cmd("rule", h, None) \in Cmds /\ Cmd("delete", h, None) \in Cmds
BY DEF Cmd, Cmds

LEMMA CmdTypes ==
  ASSUME NEW c \in Cmds
  PROVE  /\ c.hunt \in Hunts /\ c = Cmd(c.op, c.hunt, c.val)
         /\ c.op \in {"state", "sadd", "srem"} => c.val \in States
         /\ c.op = "hash" => c.val = "new"
         /\ c.op = "last" => c.val \in Obj \cup {None}
         /\ c.op \in {"listed", "all", "flag"} => c.val \in BOOLEAN
         /\ c.op \in {"obj", "unobj", "map", "unmap"} => c.val \in Obj
         /\ c.op = "nb" => c.val \in {1, -1}
         /\ c.op = "read" => c.val \in Range(Types) \cup {"all"}
         /\ c.op \in {"unlink", "remove"} => c.val \subseteq Obj
BY DEF Cmd, Cmds

LEMMA SeqFacts ==
  ASSUME NEW S, NEW q \in Seq(S)
  PROVE  /\ Len(q) \in Nat /\ DOMAIN q = 1 .. Len(q)
         /\ \A i \in DOMAIN q : q[i] \in S
         /\ \A c : c \in Range(q) <=> \E i \in DOMAIN q : q[i] = c
         /\ q # <<>> => 1 \in DOMAIN q /\ Head(q) = q[1]
BY DEF Range

LEMMA TailFacts ==
  ASSUME NEW S, NEW q \in Seq(S), q # <<>>
  PROVE  /\ Tail(q) \in Seq(S) /\ Len(Tail(q)) = Len(q) - 1
         /\ \A i \in DOMAIN Tail(q) : i + 1 \in DOMAIN q /\ Tail(q)[i] = q[i + 1]
         /\ \A i \in DOMAIN q : i # 1 => i - 1 \in DOMAIN Tail(q) /\ Tail(q)[i - 1] = q[i]
OBVIOUS

LEMMA TailRange ==
  ASSUME NEW S, NEW q \in Seq(S), q # <<>>
  PROVE  Range(Tail(q)) \subseteq Range(q) /\ Range(q) = Range(Tail(q)) \cup {q[1]}
<1>1. Range(Tail(q)) \subseteq Range(q)
  BY TailFacts DEF Range
<1>2. Range(q) \subseteq Range(Tail(q)) \cup {q[1]}
  <2> SUFFICES ASSUME NEW i \in DOMAIN q, i # 1  PROVE q[i] \in Range(Tail(q))
    BY DEF Range
  <2>1. i - 1 \in DOMAIN Tail(q) /\ Tail(q)[i - 1] = q[i]
    BY TailFacts
  <2> QED
    BY <2>1 DEF Range
<1>3. q[1] \in Range(q)
  BY SeqFacts
<1> QED
  BY <1>1, <1>2, <1>3

LEMMA Joined ==
  ASSUME NEW S, NEW x \in Seq(S), NEW y \in Seq(S)
  PROVE  /\ x \o y \in Seq(S) /\ Len(x \o y) = Len(x) + Len(y)
         /\ DOMAIN (x \o y) = 1 .. Len(x) + Len(y)
         /\ \A k \in 1 .. Len(x) : (x \o y)[k] = x[k]
         /\ \A k \in 1 .. Len(y) : (x \o y)[Len(x) + k] = y[k]
<1>1. /\ x \o y \in Seq(S) /\ Len(x \o y) = Len(x) + Len(y)
      /\ \A k \in 1 .. Len(x) + Len(y) : (x \o y)[k] = IF k <= Len(x) THEN x[k] ELSE y[k - Len(x)]
  BY ConcatProperties, Zenon
<1>2. Len(x) \in Nat /\ Len(y) \in Nat
  BY LenProperties
<1> DEFINE w == x \o y
<1> HIDE DEF w
<1>3. /\ w \in Seq(S) /\ Len(w) = Len(x) + Len(y)
      /\ \A k \in 1 .. Len(x) + Len(y) : w[k] = IF k <= Len(x) THEN x[k] ELSE y[k - Len(x)]
  BY <1>1 DEF w
<1>4. DOMAIN w = 1 .. Len(x) + Len(y)
  BY <1>2, <1>3
<1>5. \A k \in 1 .. Len(x) : w[k] = x[k]
  BY <1>2, <1>3
<1>6. \A k \in 1 .. Len(y) : w[Len(x) + k] = y[k]
  BY <1>2, <1>3
<1> QED
  BY <1>3, <1>4, <1>5, <1>6 DEF w

LEMMA JoinedRange ==
  ASSUME NEW S, NEW x \in Seq(S), NEW y \in Seq(S)
  PROVE  /\ \A k \in DOMAIN (x \o y) : \/ k \in DOMAIN x /\ (x \o y)[k] = x[k]
                                       \/ /\ k \notin DOMAIN x /\ k - Len(x) \in DOMAIN y
                                          /\ (x \o y)[k] = y[k - Len(x)]
         /\ \A k \in DOMAIN x : k \in DOMAIN (x \o y) /\ (x \o y)[k] = x[k]
         /\ \A k \in DOMAIN y : Len(x) + k \in DOMAIN (x \o y) /\ (x \o y)[Len(x) + k] = y[k]
         /\ x \o y \in Seq(S) /\ Range(x \o y) = Range(x) \cup Range(y)
<1> DEFINE w == x \o y
<1>1. /\ DOMAIN w = 1 .. Len(x) + Len(y)
      /\ \A k \in 1 .. Len(x) : w[k] = x[k]
      /\ \A k \in 1 .. Len(y) : w[Len(x) + k] = y[k]
  BY Joined
<1>2. /\ Len(x) \in Nat /\ Len(y) \in Nat
      /\ DOMAIN x = 1 .. Len(x) /\ DOMAIN y = 1 .. Len(y)
  BY SeqFacts
<1> HIDE DEF w
<1>3. \A k \in DOMAIN w : \/ k \in DOMAIN x /\ w[k] = x[k]
                          \/ k \notin DOMAIN x /\ k - Len(x) \in DOMAIN y /\ w[k] = y[k - Len(x)]
  <2> SUFFICES ASSUME NEW k \in DOMAIN w, k \notin DOMAIN x
               PROVE  k - Len(x) \in DOMAIN y /\ w[k] = y[k - Len(x)]
    BY <1>1, <1>2
  <2>1. k - Len(x) \in 1 .. Len(y) /\ Len(x) + (k - Len(x)) = k
    BY <1>1, <1>2
  <2> QED
    BY <1>1, <1>2, <2>1
<1>4. \A k \in DOMAIN x : k \in DOMAIN w /\ w[k] = x[k]
  BY <1>1, <1>2
<1>5. \A k \in DOMAIN y : Len(x) + k \in DOMAIN w /\ w[Len(x) + k] = y[k]
  BY <1>1, <1>2
<1>6. Range(w) = Range(x) \cup Range(y)
  BY <1>3, <1>4, <1>5 DEF Range
<1>7. w \in Seq(S)
  BY Joined DEF w
<1> QED
  BY <1>3, <1>4, <1>5, <1>6, <1>7 DEF w

LEMMA Tuples ==
  ASSUME NEW S
  PROVE  /\ <<>> \in Seq(S) /\ Range(<<>>) = {} /\ DOMAIN <<>> = {}
         /\ \A a \in S : /\ <<a>> \in Seq(S) /\ Range(<<a>>) = {a} /\ Len(<<a>>) = 1
                         /\ DOMAIN <<a>> = {1} /\ <<a>>[1] = a
         /\ \A a, b \in S : /\ <<a, b>> \in Seq(S) /\ Range(<<a, b>>) = {a, b}
                            /\ Len(<<a, b>>) = 2 /\ DOMAIN <<a, b>> = {1, 2}
                            /\ <<a, b>>[1] = a /\ <<a, b>>[2] = b
         /\ \A a, b, c \in S : /\ <<a, b, c>> \in Seq(S) /\ Range(<<a, b, c>>) = {a, b, c}
                               /\ Len(<<a, b, c>>) = 3 /\ DOMAIN <<a, b, c>> = {1, 2, 3}
                               /\ <<a, b, c>>[1] = a /\ <<a, b, c>>[2] = b /\ <<a, b, c>>[3] = c
BY DEF Range

----------------------------------------------------------------------------
(***************************************************************************)
(* The lists that the module and most requests send: they write states,    *)
(* positions and matches, and remove nothing.                              *)
(***************************************************************************)
PlainOps == {"state", "sadd", "flag", "last", "obj", "map", "nb"}
Plain(h, s) ==
    /\ s \in Seq(Cmds) /\ Fresh(s)
    /\ \A c \in Range(s) : c.hunt = h /\ c.op \in PlainOps /\ (c.op = "nb" => c.val = 1)

LEMMA FreshJoin ==
  ASSUME NEW a \in Seq(Cmds), NEW b \in Seq(Cmds), Fresh(a), Fresh(b)
  PROVE  Fresh(a \o b)
<1> DEFINE w == a \o b
<1>1. \A k \in DOMAIN w : \/ k \in DOMAIN a /\ w[k] = a[k]
                          \/ /\ k \notin DOMAIN a /\ k - Len(a) \in DOMAIN b
                                 /\ w[k] = b[k - Len(a)]
  BY JoinedRange
<1>2. /\ DOMAIN w = 1 .. Len(a) + Len(b) /\ DOMAIN a = 1 .. Len(a) /\ DOMAIN b = 1 .. Len(b)
      /\ Len(a) \in Nat /\ Len(b) \in Nat
      /\ \A k \in 1 .. Len(a) : w[k] = a[k]
      /\ \A k \in 1 .. Len(b) : w[Len(a) + k] = b[k]
  BY Joined, SeqFacts
<1> HIDE DEF w
<1>3. \A i \in DOMAIN a : \A c : After(a, i, c) => After(w, i, c)
  BY <1>2 DEF After
<1>4. \A i \in DOMAIN b : \A c : After(b, i, c) => After(w, Len(a) + i, c)
  <2> SUFFICES ASSUME NEW i \in DOMAIN b, NEW c, NEW j \in DOMAIN b, j < i, b[j] = c
               PROVE  After(w, Len(a) + i, c)
    BY DEF After
  <2>1. Len(a) + j \in DOMAIN w /\ Len(a) + j < Len(a) + i /\ w[Len(a) + j] = c
    BY <1>2
  <2> QED
    BY <2>1 DEF After
<1>5. ASSUME NEW k \in DOMAIN w, w[k].val # "pending"
      PROVE  /\ w[k].op = "srem" => After(w, k, Unlists(w[k].hunt))
             /\ w[k].op = "state" => After(w, k, Cmd("sadd", w[k].hunt, w[k].val))
  <2>1. CASE k \in DOMAIN a /\ w[k] = a[k]
    BY <1>3, <1>5, <2>1 DEF Fresh
  <2>2. CASE k \notin DOMAIN a /\ k - Len(a) \in DOMAIN b /\ w[k] = b[k - Len(a)]
    <3>1. Len(a) + (k - Len(a)) = k
      BY <1>2
    <3> QED
      BY <1>4, <1>5, <2>2, <3>1 DEF Fresh
  <2> QED
    BY <1>1, <2>1, <2>2
<1> QED
  BY <1>5 DEF Fresh, w

LEMMA PlainJoin ==
  ASSUME NEW h
  PROVE  \A a, b : Plain(h, a) /\ Plain(h, b) =>
            Plain(h, a \o b) /\ Range(a \o b) = Range(a) \cup Range(b)
<1> SUFFICES ASSUME NEW a, NEW b, Plain(h, a), Plain(h, b)
             PROVE  Plain(h, a \o b) /\ Range(a \o b) = Range(a) \cup Range(b)
  OBVIOUS
<1>1. a \in Seq(Cmds) /\ b \in Seq(Cmds)
  BY DEF Plain
<1>2. Fresh(a \o b)
  BY <1>1, FreshJoin DEF Plain
<1>3. a \o b \in Seq(Cmds) /\ Range(a \o b) = Range(a) \cup Range(b)
  BY <1>1, Joined, JoinedRange
<1> QED
  BY <1>2, <1>3 DEF Plain

LEMMA PlainSays ==
  ASSUME NEW h \in Hunts, NEW s, Plain(h, s)
  PROVE  /\ s \in Seq(Cmds) /\ ListOK(s) /\ Fresh(s)
         /\ \A c \in Range(s) : /\ c \in Cmds /\ c.hunt = h /\ Own(Module, c)
                                /\ c.op \notin {"all", "hash", "delete", "rule"}
<1>1. s \in Seq(Cmds)
  BY DEF Plain
<1>2. \A i \in DOMAIN s : s[i].hunt = h /\ s[i].op \in PlainOps /\ (s[i].op = "nb" => s[i].val = 1)
  BY <1>1, SeqFacts DEF Plain
<1>3. \A i \in DOMAIN s : ~Removes(s[i]) /\ s[i].op \notin {"hash", "rule", "delete"}
  BY <1>2 DEF Removes, PlainOps
<1>4. ListOK(s)
  BY <1>2, <1>3 DEF ListOK, OneHunt, RemovesFirst, OneRule, HashFirst, DeleteAlone
<1>5. \A c \in Range(s) : /\ c \in Cmds /\ c.hunt = h /\ c.op \in PlainOps
                          /\ c.op = "nb" => c.val = 1
  BY <1>1, SeqFacts DEF Plain
<1>6. \A c \in Range(s) : Own(Module, c) /\ c.op \notin {"all", "hash", "delete", "rule"}
  BY <1>5 DEF Own, ModuleOps, PlainOps
<1> QED
  BY <1>1, <1>4, <1>5, <1>6 DEF Plain

LEMMA PlainTuples ==
  ASSUME NEW h \in Hunts
  PROVE  /\ Plain(h, <<>>) /\ Range(<<>>) = {}
         /\ \A l \in Obj \cup {None} : /\ Plain(h, <<Cmd("last", h, l)>>)
                                       /\ Range(<<Cmd("last", h, l)>>) = {Cmd("last", h, l)}
         /\ \A b \in BOOLEAN : /\ Plain(h, <<Cmd("flag", h, b)>>)
                               /\ Range(<<Cmd("flag", h, b)>>) = {Cmd("flag", h, b)}
         /\ \A o \in Obj : /\ Plain(h, Add(h, o))
                           /\ Range(Add(h, o))
                                = {Cmd("obj", h, o), Cmd("map", h, o), Cmd("nb", h, 1)}
         /\ \A s \in States : /\ Plain(h, SetState(h, s))
                              /\ Range(SetState(h, s)) = {Cmd("sadd", h, s), Cmd("state", h, s)}
<1>1. Plain(h, <<>>) /\ Range(<<>>) = {}
  BY Tuples DEF Plain, Fresh
<1>2. ASSUME NEW l \in Obj \cup {None}
      PROVE  Plain(h, <<Cmd("last", h, l)>>) /\ Range(<<Cmd("last", h, l)>>) = {Cmd("last", h, l)}
  <2>1. Cmd("last", h, l) \in Cmds
    BY CmdsTyped
  <2>2. Cmd("last", h, l).hunt = h /\ Cmd("last", h, l).op = "last"
    BY CmdFields
  <2> HIDE DEF Cmd
  <2> DEFINE s == <<Cmd("last", h, l)>>
  <2>3. /\ s \in Seq(Cmds) /\ Range(s) = {Cmd("last", h, l)}
        /\ DOMAIN s = {1} /\ s[1] = Cmd("last", h, l)
    BY <2>1, Tuples
  <2> HIDE DEF s
  <2>4. Fresh(s)
    BY <2>2, <2>3 DEF Fresh
  <2> QED
    BY <2>2, <2>3, <2>4 DEF Plain, PlainOps, s
<1>3. ASSUME NEW b \in BOOLEAN
      PROVE  Plain(h, <<Cmd("flag", h, b)>>) /\ Range(<<Cmd("flag", h, b)>>) = {Cmd("flag", h, b)}
  <2>1. Cmd("flag", h, b) \in Cmds
    BY CmdsTyped
  <2>2. Cmd("flag", h, b).hunt = h /\ Cmd("flag", h, b).op = "flag"
    BY CmdFields
  <2> DEFINE s == <<Cmd("flag", h, b)>>
  <2>3. /\ s \in Seq(Cmds) /\ Range(s) = {Cmd("flag", h, b)}
        /\ DOMAIN s = {1} /\ s[1] = Cmd("flag", h, b)
    BY <2>1, Tuples
  <2> HIDE DEF s
  <2>4. Fresh(s)
    BY <2>2, <2>3 DEF Fresh
  <2> QED
    BY <2>2, <2>3, <2>4 DEF Plain, PlainOps, s
<1>4. ASSUME NEW o \in Obj
      PROVE  /\ Plain(h, Add(h, o))
             /\ Range(Add(h, o)) = {Cmd("obj", h, o), Cmd("map", h, o), Cmd("nb", h, 1)}
  <2> DEFINE a == Cmd("obj", h, o)
             b == Cmd("map", h, o)
             c == Cmd("nb", h, 1)
             s == <<a, b, c>>
  <2>1. a \in Cmds /\ b \in Cmds /\ c \in Cmds
    BY CmdsTyped
  <2>2. /\ a.hunt = h /\ a.op = "obj" /\ b.hunt = h /\ b.op = "map"
        /\ c.hunt = h /\ c.op = "nb" /\ c.val = 1
    BY CmdFields
  <2>0. Add(h, o) = s
    BY DEF Add
  <2> HIDE DEF a, b, c
  <2>3. /\ s \in Seq(Cmds) /\ Range(s) = {a, b, c} /\ DOMAIN s = {1, 2, 3}
        /\ s[1] = a /\ s[2] = b /\ s[3] = c
    BY <2>1, Tuples
  <2> HIDE DEF s
  <2>4. Fresh(s)
    BY <2>2, <2>3 DEF Fresh
  <2>5. Plain(h, s)
    BY <2>2, <2>3, <2>4 DEF Plain, PlainOps
  <2> QED
    BY <2>0, <2>3, <2>5 DEF a, b, c
<1>5. ASSUME NEW v \in States
      PROVE  /\ Plain(h, SetState(h, v))
             /\ Range(SetState(h, v)) = {Cmd("sadd", h, v), Cmd("state", h, v)}
  <2> DEFINE a == Cmd("sadd", h, v)
             b == Cmd("state", h, v)
             s == <<a, b>>
  <2>1. a \in Cmds /\ b \in Cmds
    BY CmdsTyped
  <2>2. /\ a.hunt = h /\ a.op = "sadd" /\ a.val = v
        /\ b.hunt = h /\ b.op = "state" /\ b.val = v
    BY CmdFields
  <2>0. SetState(h, v) = s
    BY DEF SetState
  <2>6. a = Cmd("sadd", b.hunt, b.val)
    BY <2>2
  <2> HIDE DEF a, b
  <2>3. /\ s \in Seq(Cmds) /\ Range(s) = {a, b} /\ DOMAIN s = {1, 2} /\ s[1] = a /\ s[2] = b
    BY <2>1, Tuples
  <2> HIDE DEF s
  <2>7. After(s, 2, Cmd("sadd", s[2].hunt, s[2].val))
    BY <2>3, <2>6 DEF After
  <2>4. Fresh(s)
    BY <2>2, <2>3, <2>7 DEF Fresh
  <2>5. Plain(h, s)
    BY <2>2, <2>3, <2>4 DEF Plain, PlainOps
  <2> QED
    BY <2>0, <2>3, <2>5 DEF a, b
<1> QED
  BY <1>1, <1>2, <1>3, <1>4, <1>5

LEMMA PairJoined == \A a, b : <<a, b>> = <<a>> \o <<b>>
<1> SUFFICES ASSUME NEW a, NEW b  PROVE <<a, b>> = <<a>> \o <<b>>
  OBVIOUS
<1> DEFINE S == {a, b}
<1>1. <<a>> \in Seq(S) /\ <<b>> \in Seq(S) /\ <<a, b>> \in Seq(S)
  OBVIOUS
<1>2. Len(<<a>>) = 1 /\ Len(<<b>>) = 1 /\ <<a>>[1] = a /\ <<b>>[1] = b
  OBVIOUS
<1>3. PICK x \in Seq(S) : x = <<a>>
  BY <1>1, Zenon
<1>4. PICK y \in Seq(S) : y = <<b>>
  BY <1>1, Zenon
<1>5. /\ x \o y \in Seq(S) /\ Len(x \o y) = Len(x) + Len(y)
      /\ \A k \in 1 .. Len(x) : (x \o y)[k] = x[k]
      /\ \A k \in 1 .. Len(y) : (x \o y)[Len(x) + k] = y[k]
  BY Joined
<1>6. Len(x) = 1 /\ Len(y) = 1 /\ x[1] = a /\ y[1] = b
  BY <1>2, <1>3, <1>4, Zenon
<1> DEFINE w == x \o y
<1> HIDE DEF w, S
<1>7. w \in Seq(S) /\ Len(w) = 2 /\ w[1] = a
  BY <1>5, <1>6 DEF w
<1>8. w[2] = b
  <2>1. 1 + 1 = 2 /\ 1 \in 1 .. 1
    OBVIOUS
  <2> QED
    BY <1>5, <1>6, <2>1 DEF w
<1>9. w = <<a, b>>
  <2>1. <<a, b>> \in Seq(S) /\ Len(<<a, b>>) = 2 /\ <<a, b>>[1] = a /\ <<a, b>>[2] = b
    BY <1>1
  <2> QED
    BY <1>7, <1>8, <2>1
<1> QED
  BY <1>3, <1>4, <1>9 DEF w

LEMMA PlainPrograms ==
  ASSUME NEW h \in Hunts
  PROVE  /\ Plain(h, Pause(h))
         /\ Range(Pause(h)) = {Cmd("sadd", h, "paused"), Cmd("state", h, "paused"),
                               Cmd("flag", h, TRUE), Cmd("flag", h, FALSE)}
         /\ Plain(h, Resume(h))
         /\ Range(Resume(h)) = {Cmd("flag", h, FALSE), Cmd("sadd", h, "pending"),
                                Cmd("state", h, "pending")}
         /\ Plain(h, Complete(h))
         /\ Range(Complete(h)) = {Cmd("sadd", h, "completed"), Cmd("state", h, "completed"),
                                  Cmd("flag", h, FALSE), Cmd("last", h, None)}
<1> DEFINE on == <<Cmd("flag", h, TRUE)>>
           off == <<Cmd("flag", h, FALSE)>>
           gone == <<Cmd("last", h, None)>>
<1>1. /\ Plain(h, on) /\ Range(on) = {Cmd("flag", h, TRUE)}
      /\ Plain(h, off) /\ Range(off) = {Cmd("flag", h, FALSE)}
      /\ Plain(h, gone) /\ Range(gone) = {Cmd("last", h, None)}
  BY PlainTuples
<1>2. /\ <<Cmd("flag", h, TRUE), Cmd("flag", h, FALSE)>> = on \o off
      /\ <<Cmd("flag", h, FALSE), Cmd("last", h, None)>> = off \o gone
  BY PairJoined
<1>3. \A s \in States : /\ Plain(h, SetState(h, s))
                        /\ Range(SetState(h, s)) = {Cmd("sadd", h, s), Cmd("state", h, s)}
  BY PlainTuples
<1> HIDE DEF on, off, gone
<1> HIDE DEF SetState
<1>10. "paused" \in States /\ "completed" \in States /\ "pending" \in States
  BY DEF States
<1>14. \A a, b : Plain(h, a) /\ Plain(h, b) =>
          Plain(h, a \o b) /\ Range(a \o b) = Range(a) \cup Range(b)
  BY PlainJoin
<1>4. Plain(h, on \o off) /\ Range(on \o off) = Range(on) \cup Range(off)
  BY <1>1, <1>14, Zenon
<1>5. Plain(h, off \o gone) /\ Range(off \o gone) = Range(off) \cup Range(gone)
  BY <1>1, <1>14, Zenon
<1>6. /\ Plain(h, SetState(h, "paused") \o (on \o off))
      /\ Range(SetState(h, "paused") \o (on \o off))
            = Range(SetState(h, "paused")) \cup Range(on \o off)
  BY <1>3, <1>4, <1>10, <1>14, Zenon
<1>7. /\ Plain(h, SetState(h, "completed") \o (off \o gone))
      /\ Range(SetState(h, "completed") \o (off \o gone))
            = Range(SetState(h, "completed")) \cup Range(off \o gone)
  BY <1>3, <1>5, <1>10, <1>14, Zenon
<1>8. /\ Plain(h, off \o SetState(h, "pending"))
      /\ Range(off \o SetState(h, "pending")) = Range(off) \cup Range(SetState(h, "pending"))
  BY <1>1, <1>3, <1>10, <1>14, Zenon
<1>9. /\ Pause(h) = SetState(h, "paused") \o (on \o off)
      /\ Complete(h) = SetState(h, "completed") \o (off \o gone)
      /\ Resume(h) = off \o SetState(h, "pending")
  <2>1. Pause(h) = SetState(h, "paused") \o (on \o off)
    BY <1>2, Zenon DEF Pause
  <2>2. Complete(h) = SetState(h, "completed") \o (off \o gone)
    BY <1>2, Zenon DEF Complete
  <2>3. Resume(h) = off \o SetState(h, "pending")
    BY Zenon DEF Resume, off
  <2> QED
    BY <2>1, <2>2, <2>3
<1>11. Range(Pause(h)) = {Cmd("sadd", h, "paused"), Cmd("state", h, "paused"),
                          Cmd("flag", h, TRUE), Cmd("flag", h, FALSE)}
  BY <1>1, <1>3, <1>4, <1>6, <1>9, <1>10
<1>12. Range(Resume(h)) = {Cmd("flag", h, FALSE), Cmd("sadd", h, "pending"),
                           Cmd("state", h, "pending")}
  BY <1>1, <1>3, <1>8, <1>9, <1>10
<1>13. Range(Complete(h)) = {Cmd("sadd", h, "completed"), Cmd("state", h, "completed"),
                             Cmd("flag", h, FALSE), Cmd("last", h, None)}
  BY <1>1, <1>3, <1>5, <1>7, <1>9, <1>10
<1> QED
  BY <1>6, <1>7, <1>8, <1>9, <1>11, <1>12, <1>13

----------------------------------------------------------------------------
(***************************************************************************)
(* The lists of the requests, a deletion and a creation among them.        *)
(***************************************************************************)
UserOwn(c) == c.op \in UserOps \/ (c.op = "nb" /\ c.val = -1)
Sends(h, s) == /\ s \in Seq(Cmds) /\ ListOK(s) /\ Fresh(s)
               /\ \A c \in Range(s) : c.hunt = h /\ UserOwn(c)

LEMMA PlainSends ==
  ASSUME NEW h \in Hunts, NEW s, Plain(h, s),
         \A c \in Range(s) : c.op \in {"state", "sadd", "flag"}
  PROVE  Sends(h, s)
BY PlainSays DEF Sends, UserOwn, UserOps

LEMMA DeleteSends ==
  ASSUME NEW h \in Hunts
  PROVE  /\ Sends(h, <<Cmd("delete", h, None)>>)
         /\ Range(<<Cmd("delete", h, None)>>) = {Cmd("delete", h, None)}
<1> DEFINE c == Cmd("delete", h, None)
           s == <<c>>
<1>1. c \in Cmds /\ c.op = "delete" /\ c.hunt = h
  BY CmdsTyped, CmdFields
<1> HIDE DEF c
<1>2. s \in Seq(Cmds) /\ Range(s) = {c} /\ Len(s) = 1 /\ DOMAIN s = {1} /\ s[1] = c
  BY <1>1, Tuples
<1> HIDE DEF s
<1>3. ~Removes(c)
  BY <1>1 DEF Removes
<1>4. ListOK(s)
  BY <1>1, <1>2, <1>3 DEF ListOK, OneHunt, RemovesFirst, OneRule, HashFirst, DeleteAlone
<1>5. Fresh(s)
  BY <1>1, <1>2 DEF Fresh
<1>6. Sends(h, s)
  BY <1>1, <1>2, <1>4, <1>5 DEF Sends, UserOwn, UserOps
<1> QED
  BY <1>2, <1>6 DEF s, c

LEMMA CreateSends ==
  ASSUME NEW h \in Hunts
  PROVE  /\ Sends(h, Create(h))
         /\ Create(h) # <<>> /\ Create(h)[1] = Cmd("hash", h, "new")
         /\ Lists(h) \in Range(Create(h))
         /\ \A c \in Range(Create(h)) :
               /\ c.op \in {"hash", "listed", "all", "sadd", "state"}
               /\ c.op = "all" => c = Lists(h)
               /\ c.op = "state" => c.val = "pending"
<1> DEFINE x == Cmd("hash", h, "new")
           y == Cmd("listed", h, TRUE)
           z == Lists(h)
           a == <<x, y, z>>
           b == SetState(h, "pending")
           w == a \o b
<1>1. x \in Cmds /\ y \in Cmds /\ z \in Cmds
  BY CmdsTyped DEF Lists
<1>2. /\ x.op = "hash" /\ x.hunt = h /\ y.op = "listed" /\ y.hunt = h
      /\ z.op = "all" /\ z.hunt = h
  <2>1. x.op = "hash" /\ x.hunt = h
    BY CmdFields
  <2>2. y.op = "listed" /\ y.hunt = h
    BY DEF Cmd
  <2>3. z.op = "all" /\ z.hunt = h
    BY DEF Cmd, Lists
  <2> QED
    BY <2>1, <2>2, <2>3
<1>3. Create(h) = w
  BY DEF Create, Lists
<1>4. Plain(h, b) /\ Range(b) = {Cmd("sadd", h, "pending"), Cmd("state", h, "pending")}
  BY PlainTuples DEF States
<1>5. \A c \in Range(b) : c.hunt = h /\ c.op \in {"sadd", "state"} /\ c.val = "pending"
  BY <1>4, CmdFields
<1> HIDE DEF x, y, z, b
<1>6. /\ a \in Seq(Cmds) /\ Range(a) = {x, y, z} /\ Len(a) = 3 /\ DOMAIN a = {1, 2, 3}
      /\ a[1] = x /\ a[2] = y /\ a[3] = z
  BY <1>1, Tuples
<1> HIDE DEF a
<1>7. b \in Seq(Cmds) /\ Fresh(b)
  BY <1>4 DEF Plain
<1>8. Fresh(a)
  BY <1>2, <1>6 DEF Fresh
<1>9. Fresh(w)
  BY <1>6, <1>7, <1>8, FreshJoin
<1>10. /\ \A k \in DOMAIN w : \/ k \in DOMAIN a /\ w[k] = a[k]
                              \/ /\ k \notin DOMAIN a /\ k - Len(a) \in DOMAIN b
                                 /\ w[k] = b[k - Len(a)]
       /\ Range(w) = Range(a) \cup Range(b)
  BY <1>6, <1>7, JoinedRange
<1>11. w \in Seq(Cmds) /\ w[1] = x /\ w[3] = z /\ 1 \in DOMAIN w /\ 3 \in DOMAIN w
  <2>1. w \in Seq(Cmds) /\ \A k \in DOMAIN a : k \in DOMAIN w /\ w[k] = a[k]
    BY <1>6, <1>7, JoinedRange
  <2> HIDE DEF w
  <2> QED
    BY <1>6, <2>1
<1> HIDE DEF w
<1>12. \A k \in DOMAIN w : \/ k = 1 /\ w[k] = x
                           \/ k = 2 /\ w[k] = y
                           \/ k = 3 /\ w[k] = z
                           \/ w[k].hunt = h /\ w[k].op \in {"sadd", "state"}
  <2>0. \A k \in DOMAIN w : k \in DOMAIN a => \/ k = 1 /\ w[k] = x
                                              \/ k = 2 /\ w[k] = y
                                              \/ k = 3 /\ w[k] = z
    <3>1. \A k \in DOMAIN w : k \in DOMAIN a => w[k] = a[k]
      BY <1>10, Zenon
    <3>2. DOMAIN a = {1, 2, 3} /\ a[1] = x /\ a[2] = y /\ a[3] = z
      BY <1>6
    <3> QED
      BY <3>1, <3>2
  <2> SUFFICES ASSUME NEW k \in DOMAIN w, k \notin DOMAIN a
               PROVE  w[k].hunt = h /\ w[k].op \in {"sadd", "state"}
    BY <2>0, Zenon
  <2>1. k - Len(a) \in DOMAIN b /\ w[k] = b[k - Len(a)]
    BY <1>10
  <2>2. w[k] \in Range(b)
    BY <2>1 DEF Range
  <2> QED
    BY <1>5, <2>2
<1>13. \A k \in DOMAIN w : /\ w[k].hunt = h /\ ~Removes(w[k]) /\ w[k].op \notin {"rule", "delete"}
                           /\ w[k].op = "hash" => k = 1
  BY <1>2, <1>12 DEF Removes
<1>14. HashFirst(w)
  <2>1. \A k \in DOMAIN w : w[3] = Lists(w[k].hunt)
    BY <1>11, <1>13 DEF z
  <2> QED
    BY <1>11, <1>13, <2>1 DEF HashFirst
<1>15. ListOK(w)
  BY <1>13, <1>14 DEF ListOK, OneHunt, RemovesFirst, OneRule, DeleteAlone
<1>16. \A c \in Range(w) : /\ c.hunt = h
                           /\ c.op \in {"hash", "listed", "all", "sadd", "state"}
                           /\ c.op = "all" => c = Lists(h)
                           /\ c.op = "state" => c.val = "pending"
  BY <1>2, <1>5, <1>6, <1>10 DEF z
<1>17. Sends(h, w)
  BY <1>9, <1>11, <1>15, <1>16 DEF Sends, UserOwn, UserOps
<1>18. z \in Range(w) /\ w # <<>>
  BY <1>6, <1>10, <1>11
<1> QED
  BY <1>3, <1>11, <1>16, <1>17, <1>18 DEF x, z

LEMMA EightTuple ==
  ASSUME NEW S, NEW a \in S, NEW b \in S, NEW c \in S, NEW d \in S,
         NEW e \in S, NEW f \in S, NEW g \in S, NEW h \in S
  PROVE  LET q == <<a, b, c, d, e, f, g, h>>
         IN  /\ q \in Seq(S) /\ Len(q) = 8 /\ DOMAIN q = 1 .. 8
             /\ q[1] = a /\ q[2] = b /\ q[3] = c /\ q[4] = d
             /\ q[5] = e /\ q[6] = f /\ q[7] = g /\ q[8] = h
OBVIOUS

LEMMA DeleteProgram ==
  ASSUME NEW h \in Hunts
  PROVE  /\ Sends(h, Delete(h))
         /\ Unlists(h) \in Range(Delete(h))
         /\ \A c \in Range(Delete(h)) : /\ c.op \notin {"hash", "last", "state", "delete"}
                                        /\ c # Lists(h)
<1> DEFINE a == DeleteObjs(h)
           b == IF h \in Custom THEN <<Cmd("rule", h, None)>> ELSE <<>>
           c1 == Cmd("listed", h, FALSE)
           c2 == Cmd("srem", h, "pending")
           c3 == Cmd("read", h, "all")
           c4 == Cmd("all", h, FALSE)
           c6 == Cmd("srem", h, "paused")
           c7 == Cmd("srem", h, "completed")
           c8 == Cmd("flag", h, FALSE)
           c == <<c1, c2, c3, c4, c2, c6, c7, c8>>
           x == a \o b
           w == x \o c
           n == Len(x)
<1>1. Delete(h) = w
  BY DEF Delete
<1>2. /\ c1 \in Cmds /\ c2 \in Cmds /\ c3 \in Cmds /\ c4 \in Cmds /\ c6 \in Cmds /\ c7 \in Cmds
      /\ c8 \in Cmds
  BY CmdsTyped DEF States
<1>3. /\ c1.hunt = h /\ c1.op = "listed" /\ c2.hunt = h /\ c2.op = "srem" /\ c2.val = "pending"
      /\ c3.hunt = h /\ c3.op = "read" /\ c4.hunt = h /\ c4.op = "all"
      /\ c6.hunt = h /\ c6.op = "srem" /\ c7.hunt = h /\ c7.op = "srem"
      /\ c8.hunt = h /\ c8.op = "flag"
  BY DEF Cmd
<1>4. c4 = Unlists(h) /\ c4 # Lists(h)
  BY DEF Cmd, Lists, Unlists
<1> HIDE DEF c1, c2, c3, c4, c6, c7, c8
<1>5. /\ c \in Seq(Cmds) /\ DOMAIN c = 1 .. 8
      /\ c[1] = c1 /\ c[2] = c2 /\ c[3] = c3 /\ c[4] = c4
      /\ c[5] = c2 /\ c[6] = c6 /\ c[7] = c7 /\ c[8] = c8
  BY <1>2, EightTuple
<1> HIDE DEF c
<1>6. /\ a \in Seq(Cmds) /\ Len(a) = 4
      /\ \A i \in DOMAIN a : a[i].hunt = h /\ a[i].op = "read"
  <2>1. DOMAIN Types = 1 .. 4 /\ \A i \in 1 .. 4 : Types[i] \in Range(Types)
    BY DEF Types, Range
  <2>2. \A i \in 1 .. 4 : Cmd("read", h, Types[i]) \in Cmds
    BY <2>1, CmdsTyped
  <2>3. a = [i \in 1 .. 4 |-> Cmd("read", h, Types[i])]
    BY <2>1 DEF DeleteObjs
  <2>4. \A i \in 1 .. 4 : Cmd("read", h, Types[i]).hunt = h /\ Cmd("read", h, Types[i]).op = "read"
    BY CmdFields
  <2> QED
    BY <2>2, <2>3, <2>4
<1>7. b \in Seq(Cmds) /\ \A i \in DOMAIN b : i = 1 /\ b[i].hunt = h /\ b[i].op = "rule"
  <2>1. CASE h \in Custom
    <3>1. Cmd("rule", h, None) \in Cmds /\ Cmd("rule", h, None).hunt = h
          /\ Cmd("rule", h, None).op = "rule"
      BY CmdsTyped, CmdFields
    <3> QED
      BY <2>1, <3>1, Tuples
  <2>2. CASE h \notin Custom
    BY <2>2, Tuples
  <2> QED
    BY <2>1, <2>2
<1> HIDE DEF a, b
<1>8. x \in Seq(Cmds)
  BY <1>6, <1>7, JoinedRange
<1>9. \A k \in DOMAIN x : /\ x[k].hunt = h
                          /\ \/ x[k].op = "read"
                             \/ x[k].op = "rule" /\ k = 5
  <2>1. \A k \in DOMAIN x : \/ k \in DOMAIN a /\ x[k] = a[k]
                            \/ k \notin DOMAIN a /\ k - Len(a) \in DOMAIN b /\ x[k] = b[k - Len(a)]
    BY <1>6, <1>7, JoinedRange
  <2>2. \A k \in DOMAIN x : k \in Nat
    BY <1>8, SeqFacts
  <2> HIDE DEF x
  <2> SUFFICES ASSUME NEW k \in DOMAIN x, k \notin DOMAIN a
               PROVE  x[k].hunt = h /\ x[k].op = "rule" /\ k = 5
    BY <1>6, <2>1
  <2>3. k - 4 \in DOMAIN b /\ x[k] = b[k - 4]
    BY <1>6, <2>1
  <2> QED
    BY <1>7, <2>2, <2>3
<1> HIDE DEF x
<1>10. /\ w \in Seq(Cmds) /\ Range(w) = Range(x) \cup Range(c)
       /\ \A k \in DOMAIN w : \/ k \in DOMAIN x /\ w[k] = x[k]
                              \/ k \notin DOMAIN x /\ k - n \in DOMAIN c /\ w[k] = c[k - n]
       /\ \A k \in DOMAIN c : n + k \in DOMAIN w /\ w[n + k] = c[k]
  <2>0. c \in Seq(Cmds)
    BY <1>5
  <2>1. w \in Seq(Cmds) /\ Range(w) = Range(x) \cup Range(c)
    BY <1>8, <2>0, JoinedRange
  <2>2. \A k \in DOMAIN w : \/ k \in DOMAIN x /\ w[k] = x[k]
                            \/ k \notin DOMAIN x /\ k - n \in DOMAIN c /\ w[k] = c[k - n]
    BY <1>8, <2>0, JoinedRange
  <2>3. \A k \in DOMAIN c : n + k \in DOMAIN w /\ w[n + k] = c[k]
    BY <1>8, <2>0, JoinedRange
  <2> QED
    BY <2>1, <2>2, <2>3
<1> HIDE DEF w
<1>11. n \in Nat /\ DOMAIN x = 1 .. n
  BY <1>8, SeqFacts
<1> HIDE DEF n
<1>12. n + 4 \in DOMAIN w /\ w[n + 4] = c4
  BY <1>5, <1>10
\* What is at each place: the matches of each type, the rule, then the entries of the lists.
<1>13. ASSUME NEW k \in DOMAIN w
       PROVE  /\ w[k].hunt = h
              /\ w[k].op \in {"read", "rule", "listed", "srem", "all", "flag"}
              /\ w[k].op = "all" => w[k] = c4
              /\ w[k].op \in {"read", "rule"} => k < n + 4
              /\ w[k].op = "rule" => k = 5
              /\ w[k].op = "srem" /\ w[k].val # "pending" => n + 4 < k
  <2>1. CASE k \in DOMAIN x /\ w[k] = x[k]
    BY <1>9, <1>11, <2>1
  <2>2. CASE k \notin DOMAIN x /\ k - n \in DOMAIN c /\ w[k] = c[k - n]
    <3> DEFINE j == k - n
    <3>1. j \in 1 .. 8 /\ w[k] = c[j] /\ k \in Nat
      BY <1>5, <1>10, <2>2, SeqFacts
    <3>2. k = n + j
      BY <1>11, <3>1
    <3> HIDE DEF j
    <3>3. j \in {1, 2, 3, 4, 5, 6, 7, 8}
      BY <3>1
    <3>4. /\ c[j].hunt = h
          /\ c[j].op \in {"read", "listed", "srem", "all", "flag"}
          /\ c[j].op = "all" => c[j] = c4
          /\ c[j].op = "read" => j = 3
          /\ c[j].op = "srem" /\ c[j].val # "pending" => j > 4
      BY <1>3, <1>5, <3>3
    <3> QED
      BY <1>11, <3>1, <3>2, <3>4
  <2> QED
    BY <1>10, <2>1, <2>2
<1>14. \A k \in DOMAIN w : w[n + 4] = Unlists(w[k].hunt)
  BY <1>4, <1>12, <1>13
<1>15. ListOK(w)
  <2>1. OneHunt(w)
    BY <1>13 DEF OneHunt
  <2>2. \A k \in DOMAIN w : Removes(w[k]) => w[k].op \in {"read", "rule"}
    BY <1>13 DEF Removes
  <2>3. RemovesFirst(w)
    BY <1>11, <1>12, <1>13, <1>14, <2>2 DEF RemovesFirst
  <2>4. OneRule(w)
    BY <1>13 DEF OneRule
  <2>5. HashFirst(w) /\ DeleteAlone(w)
    BY <1>13 DEF HashFirst, DeleteAlone
  <2> QED
    BY <2>1, <2>3, <2>4, <2>5 DEF ListOK
<1>16. Fresh(w)
  <2>1. ASSUME NEW k \in DOMAIN w, w[k].val # "pending"
        PROVE  /\ w[k].op = "srem" => After(w, k, Unlists(w[k].hunt))
               /\ w[k].op # "state"
    BY <1>12, <1>13, <1>14, <2>1 DEF After
  <2> QED
    BY <2>1 DEF Fresh
<1>17. \A d \in Range(w) : /\ d.hunt = h /\ UserOwn(d)
                           /\ d.op \notin {"hash", "last", "state", "delete"} /\ d # Lists(h)
  <2> SUFFICES ASSUME NEW k \in DOMAIN w
               PROVE  /\ w[k].hunt = h /\ UserOwn(w[k])
                      /\ w[k].op \notin {"hash", "last", "state", "delete"} /\ w[k] # Lists(h)
    BY DEF Range
  <2>1. w[k] # Lists(h)
    <3>1. Lists(h).op = "all"
      BY DEF Lists, Cmd
    <3> QED
      BY <1>4, <1>13, <3>1
  <2> QED
    BY <1>13, <2>1 DEF UserOwn, UserOps
<1>18. Unlists(h) \in Range(w)
  BY <1>4, <1>12 DEF Range
<1> QED
  BY <1>1, <1>10, <1>15, <1>16, <1>17, <1>18 DEF Sends

----------------------------------------------------------------------------
(***************************************************************************)
(* What is left of a list when a command has been sent, or replaced by the *)
(* commands that it stands for.                                            *)
(***************************************************************************)
LEMMA TailListOK ==
  ASSUME NEW s \in Seq(Cmds), s # <<>>, ListOK(s)
  PROVE  ListOK(Tail(s)) /\ \A i \in DOMAIN Tail(s) : Tail(s)[i].op # "hash"
<1> DEFINE t == Tail(s)
<1>1. /\ t \in Seq(Cmds) /\ Len(t) = Len(s) - 1
      /\ \A i \in DOMAIN t : i + 1 \in DOMAIN s /\ t[i] = s[i + 1]
      /\ \A i \in DOMAIN s : i # 1 => i - 1 \in DOMAIN t /\ t[i - 1] = s[i]
  BY TailFacts
<1>2. Len(s) \in Nat /\ DOMAIN s = 1 .. Len(s) /\ DOMAIN t = 1 .. Len(t) /\ Len(t) \in Nat
  BY <1>1, SeqFacts
<1> HIDE DEF t
<1>3. OneHunt(t)
  BY <1>1 DEF ListOK, OneHunt
<1>4. RemovesFirst(t)
  <2> SUFFICES ASSUME NEW i \in DOMAIN t, Removes(t[i])
               PROVE  \E j \in DOMAIN t : j > i /\ t[j] = Unlists(t[i].hunt)
    BY DEF RemovesFirst
  <2>0. i + 1 \in DOMAIN s /\ t[i] = s[i + 1]
    BY <1>1
  <2>1. PICK j \in DOMAIN s : j > i + 1 /\ s[j] = Unlists(t[i].hunt)
    <3>1. \A k \in DOMAIN s :
             Removes(s[k]) => \E j \in DOMAIN s : j > k /\ s[j] = Unlists(s[k].hunt)
      BY Zenon DEF ListOK, RemovesFirst
    <3>2. Removes(s[i + 1])
      BY <2>0
    <3> QED
      BY <2>0, <3>1, <3>2
  <2>2. j # 1 /\ j - 1 > i
    BY <1>2, <2>1
  <2> QED
    BY <1>1, <2>1, <2>2
<1>5. OneRule(t)
  <2> SUFFICES ASSUME NEW i \in DOMAIN t, NEW j \in DOMAIN t, t[i].op = "rule", t[j].op = "rule"
               PROVE  i = j
    BY DEF OneRule
  <2>1. i + 1 = j + 1
    BY <1>1 DEF ListOK, OneRule
  <2> QED
    BY <1>2, <2>1
<1>6. \A i \in DOMAIN t : t[i].op # "hash" /\ t[i].op # "delete"
  <2> SUFFICES ASSUME NEW i \in DOMAIN t
               PROVE  t[i].op # "hash" /\ t[i].op # "delete"
    OBVIOUS
  <2>1. i + 1 \in DOMAIN s /\ t[i] = s[i + 1] /\ i + 1 # 1 /\ Len(s) # 1
    BY <1>1, <1>2
  <2> QED
    BY <2>1 DEF ListOK, HashFirst, DeleteAlone
<1>7. HashFirst(t) /\ DeleteAlone(t)
  BY <1>6 DEF HashFirst, DeleteAlone
<1> QED
  BY <1>3, <1>4, <1>5, <1>6, <1>7 DEF ListOK, t

Loop(c) == c.op \in {"unlink", "remove", "unobj", "unmap"} \/ (c.op = "nb" /\ c.val = -1)

LEMMA SpliceListOK ==
  ASSUME NEW s \in Seq(Cmds), s # <<>>, ListOK(s), Removes(s[1]), NEW x \in Seq(Cmds),
         \A c \in Range(x) : c.hunt = s[1].hunt /\ Loop(c)
  PROVE  /\ x \o Tail(s) \in Seq(Cmds)
         /\ ListOK(x \o Tail(s)) /\ \A c \in Range(x \o Tail(s)) : c.op # "hash"
         /\ Range(x \o Tail(s)) = Range(x) \cup Range(Tail(s))
<1> DEFINE t == Tail(s)
           w == x \o t
           n == Len(x)
           h == s[1].hunt
<1>1. /\ t \in Seq(Cmds)
      /\ \A i \in DOMAIN t : i + 1 \in DOMAIN s /\ t[i] = s[i + 1]
      /\ \A i \in DOMAIN s : i # 1 => i - 1 \in DOMAIN t /\ t[i - 1] = s[i]
  BY TailFacts
<1>2. ListOK(t) /\ \A i \in DOMAIN t : t[i].op # "hash"
  BY TailListOK
<1>3. 1 \in DOMAIN s
  BY SeqFacts
<1>4. n \in Nat /\ DOMAIN x = 1 .. n /\ \A i \in DOMAIN x : x[i] \in Range(x)
  <2>1. n \in Nat /\ DOMAIN x = 1 .. n
    BY SeqFacts
  <2>2. \A i \in DOMAIN x : x[i] \in Range(x)
    BY DEF Range
  <2> QED
    BY <2>1, <2>2
<1>5. \A i \in DOMAIN t : i \in Nat /\ t[i] \in Range(t)
  <2>1. DOMAIN t = 1 .. Len(t) /\ Len(t) \in Nat
    <3> HIDE DEF t
    <3> QED
      BY <1>1, SeqFacts
  <2>2. \A i \in DOMAIN t : t[i] \in Range(t)
    BY DEF Range
  <2>3. \A i \in 1 .. Len(t) : i \in Nat
    BY <2>1
  <2> QED
    BY <2>1, <2>2, <2>3
<1>0. \A i \in DOMAIN s : i \in Nat
  BY SeqFacts
<1> HIDE DEF t
<1>6. /\ w \in Seq(Cmds) /\ Range(w) = Range(x) \cup Range(t)
      /\ \A k \in DOMAIN w : \/ k \in DOMAIN x /\ w[k] = x[k]
                             \/ k \notin DOMAIN x /\ k - n \in DOMAIN t /\ w[k] = t[k - n]
      /\ \A k \in DOMAIN t : n + k \in DOMAIN w /\ w[n + k] = t[k]
  <2>0. t \in Seq(Cmds)
    BY <1>1
  <2>1. w \in Seq(Cmds) /\ Range(w) = Range(x) \cup Range(t)
    BY <2>0, JoinedRange
  <2>2. \A k \in DOMAIN w : \/ k \in DOMAIN x /\ w[k] = x[k]
                            \/ k \notin DOMAIN x /\ k - n \in DOMAIN t /\ w[k] = t[k - n]
    BY <2>0, JoinedRange
  <2>3. \A k \in DOMAIN t : n + k \in DOMAIN w /\ w[n + k] = t[k]
    BY <2>0, JoinedRange
  <2> QED
    BY <2>1, <2>2, <2>3
<1>7. \A k \in DOMAIN w : k \in Nat
  BY <1>6, SeqFacts
<1> HIDE DEF w, n
<1>8. \A i \in DOMAIN t : t[i].hunt = h
  BY <1>1, <1>3 DEF ListOK, OneHunt
<1>9. \A k \in DOMAIN x : x[k].hunt = h /\ x[k].op \notin {"rule", "hash", "delete"}
  BY <1>4 DEF Loop
<1>10. \A k \in DOMAIN w : w[k].hunt = h /\ w[k].op # "hash"
  BY <1>2, <1>6, <1>8, <1>9
<1>11. PICK u \in DOMAIN t : t[u] = Unlists(h)
  <2>1. PICK j \in DOMAIN s : j > 1 /\ s[j] = Unlists(h)
    BY <1>3 DEF ListOK, RemovesFirst
  <2>2. j # 1
    BY <1>0, <2>1
  <2> QED
    BY <1>1, <2>1, <2>2
<1>12. RemovesFirst(w)
  <2> SUFFICES ASSUME NEW k \in DOMAIN w, Removes(w[k])
               PROVE  \E j \in DOMAIN w : j > k /\ w[j] = Unlists(h)
    BY <1>10 DEF RemovesFirst
  <2>1. CASE k \in DOMAIN x
    <3>1. n + u \in DOMAIN w /\ w[n + u] = Unlists(h) /\ n + u > k
      <4>1. u >= 1
        BY <1>1, <1>11, SeqFacts
      <4> QED
        BY <1>4, <1>5, <1>6, <1>11, <2>1, <4>1
    <3> QED
      BY <3>1
  <2>2. CASE k \notin DOMAIN x /\ k - n \in DOMAIN t /\ w[k] = t[k - n]
    <3>1. PICK j \in DOMAIN t : j > k - n /\ t[j] = Unlists(h)
      BY <1>2, <1>8, <2>2 DEF ListOK, RemovesFirst
    <3>2. n + j \in DOMAIN w /\ w[n + j] = Unlists(h) /\ n + j > k
      BY <1>4, <1>5, <1>6, <1>7, <3>1
    <3> QED
      BY <3>2
  <2> QED
    BY <1>6, <2>1, <2>2
<1>13. OneRule(w)
  <2> SUFFICES ASSUME NEW i \in DOMAIN w, NEW j \in DOMAIN w, w[i].op = "rule", w[j].op = "rule"
               PROVE  i = j
    BY DEF OneRule
  <2>1. /\ i - n \in DOMAIN t /\ t[i - n].op = "rule"
        /\ j - n \in DOMAIN t /\ t[j - n].op = "rule"
    BY <1>6, <1>9
  <2>2. i - n = j - n
    BY <1>2, <2>1 DEF ListOK, OneRule
  <2> QED
    BY <1>4, <1>7, <2>2
<1>14. HashFirst(w)
  BY <1>10 DEF HashFirst
<1>15. DeleteAlone(w)
  <2> SUFFICES ASSUME NEW k \in DOMAIN w  PROVE w[k].op # "delete"
    BY DEF DeleteAlone
  <2>1. CASE k \in DOMAIN x /\ w[k] = x[k]
    BY <1>9, <2>1
  <2>2. CASE k - n \in DOMAIN t /\ w[k] = t[k - n]
    <3>1. k - n + 1 \in DOMAIN s /\ w[k] = s[k - n + 1]
      BY <1>1, <2>2
    <3>2. s[1].op # "delete" /\ Len(s) # 1
      <4>1. s[1].op # "delete"
        BY DEF Removes
      <4>2. t # <<>>
        BY <2>2
      <4> QED
        BY <1>1, <4>1, <4>2, TailFacts DEF t
    <3> QED
      BY <3>1, <3>2 DEF ListOK, DeleteAlone
  <2> QED
    BY <1>6, <2>1, <2>2
<1>16. OneHunt(w)
  BY <1>10 DEF OneHunt
<1>17. \A c \in Range(w) : c.op # "hash"
  BY <1>10 DEF Range
<1> QED
  BY <1>6, <1>12, <1>13, <1>14, <1>15, <1>16, <1>17 DEF ListOK, w, t

----------------------------------------------------------------------------
(***************************************************************************)
(* What a command does to the lists of commands.                           *)
(***************************************************************************)
LEMMA HeadFacts ==
  ASSUME TypeOK, NEW p \in Procs, todo[p] # <<>>
  PROVE  /\ todo[p] \in Seq(Cmds) /\ 1 \in DOMAIN todo[p] /\ Head(todo[p]) = todo[p][1]
         /\ Head(todo[p]) \in Cmds /\ Head(todo[p]) \in Commands(p)
         /\ On(p) = todo[p][1].hunt /\ On(p) \in Hunts
         /\ Op(p) = todo[p][1].op /\ Val(p) = todo[p][1].val
<1>1. todo[p] \in Seq(Cmds)
  BY DEF TypeOK
<1>2. 1 \in DOMAIN todo[p] /\ Head(todo[p]) = todo[p][1] /\ Head(todo[p]) \in Cmds
  BY <1>1, SeqFacts
<1>3. Head(todo[p]) \in Commands(p)
  BY <1>2 DEF Commands, Range
<1>4. Head(todo[p]).hunt \in Hunts
  BY <1>2, CmdTypes
<1> QED
  BY <1>1, <1>2, <1>3, <1>4 DEF On, Op, Val

LEMMA SetTodo ==
  ASSUME TypeOK, NEW p \in Procs, NEW s \in Seq(Cmds), todo' = [todo EXCEPT ![p] = s]
  PROVE  /\ todo' \in [Procs -> Seq(Cmds)] /\ todo'[p] = s /\ Commands(p)' = Range(s)
         /\ \A q \in Procs \ {p} : todo'[q] = todo[q] /\ Commands(q)' = Commands(q)
<1>1. /\ todo' \in [Procs -> Seq(Cmds)] /\ todo'[p] = s
      /\ \A q \in Procs \ {p} : todo'[q] = todo[q]
  BY DEF TypeOK
<1> QED
  BY <1>1 DEF Commands

\* One hunt is on the whole list.
LEMMA SameHunt ==
  ASSUME TypeOK, Ordered, NEW p \in Procs, todo[p] # <<>>
  PROVE  \A c \in Commands(p) : c.hunt = On(p) /\ c \in Cmds
<1> SUFFICES ASSUME NEW i \in DOMAIN todo[p]
             PROVE  todo[p][i].hunt = On(p) /\ todo[p][i] \in Cmds
  BY DEF Commands, Range
<1>1. todo[p] \in Seq(Cmds) /\ 1 \in DOMAIN todo[p] /\ On(p) = todo[p][1].hunt
  BY HeadFacts
<1>2. todo[p][i].hunt = todo[p][1].hunt
  BY <1>1, Zenon DEF Ordered, ListOK, OneHunt
<1> QED
  BY <1>1, <1>2, SeqFacts

\* What takes the place of a command that stands for others.
Stays(p, c) == \/ c \in Commands(p)
               \/ /\ c.op \notin {"hash", "last", "delete"} /\ c # Lists(c.hunt)
                  /\ c.op = "state" => c.val = "paused"
                  /\ Loop(c) \/ Op(p) = "delete"
\* A state to write, or a set to leave, is a new one after the command that makes it right, or
\* one that the list had, after the same commands but the one that has been sent.
FreshAt(s, i) == /\ s[i].op = "srem" => After(s, i, Unlists(s[i].hunt))
                 /\ s[i].op = "state" => After(s, i, Cmd("sadd", s[i].hunt, s[i].val))
Later(p, s) == \A i \in DOMAIN s : s[i].op \in {"srem", "state"} /\ s[i].val # "pending" =>
    \/ FreshAt(s, i)
    \/ \E k \in DOMAIN todo[p] :
          /\ todo[p][k] = s[i]
          /\ \A d : After(todo[p], k, d) => After(s, i, d) \/ d = Head(todo[p])

Follows(p, s) ==
    /\ s \in Seq(Cmds) /\ ListOK(s)
    /\ \A c \in Range(s) : c.hunt = On(p) /\ c.op # "hash" /\ Own(p, c) /\ Stays(p, c)
    /\ \A c \in Commands(p) : \/ c \in Range(s) \cup {Head(todo[p])}
                              \/ Op(p) = "rule" /\ On(p) \notin rule
    /\ Later(p, s)

LEMMA TailLater ==
  ASSUME TypeOK, NEW p \in Procs, todo[p] # <<>>
  PROVE  \A i \in DOMAIN Tail(todo[p]) : \E k \in DOMAIN todo[p] :
            /\ todo[p][k] = Tail(todo[p])[i]
            /\ \A d : After(todo[p], k, d) => After(Tail(todo[p]), i, d) \/ d = Head(todo[p])
<1> DEFINE q == todo[p]
           t == Tail(q)
<1>1. q \in Seq(Cmds) /\ Head(q) = q[1]
  BY HeadFacts
<1>2. /\ \A i \in DOMAIN t : i + 1 \in DOMAIN q /\ t[i] = q[i + 1]
      /\ \A i \in DOMAIN q : i # 1 => i - 1 \in DOMAIN t /\ t[i - 1] = q[i]
      /\ t \in Seq(Cmds)
  BY <1>1, TailFacts
<1>3. /\ \A i \in DOMAIN q : i \in Nat
      /\ \A i \in DOMAIN t : i \in Nat
  <2>1. \A i \in DOMAIN q : i \in Nat
    BY <1>1, SeqFacts
  <2>2. \A i \in DOMAIN t : i \in Nat
    <3> HIDE DEF t
    <3> QED
      BY <1>2, SeqFacts
  <2> QED
    BY <2>1, <2>2
<1> HIDE DEF q, t
<1> SUFFICES ASSUME NEW i \in DOMAIN t
             PROVE  /\ i + 1 \in DOMAIN q /\ q[i + 1] = t[i]
                    /\ \A d : After(q, i + 1, d) => After(t, i, d) \/ d = Head(q)
  BY DEF q, t
<1>4. ASSUME NEW d, After(q, i + 1, d), d # Head(q)
      PROVE  After(t, i, d)
  <2>1. PICK j \in DOMAIN q : j < i + 1 /\ q[j] = d
    BY <1>4 DEF After
  <2>2. j # 1
    BY <1>1, <1>4, <2>1
  <2>3. j - 1 \in DOMAIN t /\ t[j - 1] = d /\ j - 1 < i
    BY <1>2, <1>3, <2>1, <2>2
  <2> QED
    BY <2>3 DEF After
<1> QED
  BY <1>2, <1>4

LEMMA TailFollows ==
  ASSUME TypeOK, Ordered, NEW p \in Procs, todo[p] # <<>>
  PROVE  Follows(p, Tail(todo[p]))
<1>1. todo[p] \in Seq(Cmds) /\ ListOK(todo[p])
  BY HeadFacts DEF Ordered
<1>2. ListOK(Tail(todo[p])) /\ \A i \in DOMAIN Tail(todo[p]) : Tail(todo[p])[i].op # "hash"
  BY <1>1, TailListOK
<1>3. Tail(todo[p]) \in Seq(Cmds) /\ Range(Tail(todo[p])) \subseteq Commands(p)
  BY <1>1, TailFacts, TailRange DEF Commands
<1>4. \A c \in Range(Tail(todo[p])) : c.op # "hash"
  BY <1>2 DEF Range
<1>5. \A c \in Commands(p) : c.hunt = On(p) /\ Own(p, c)
  BY SameHunt DEF Ordered
<1>6. \A c \in Commands(p) : c \in Range(Tail(todo[p])) \/ c = Head(todo[p])
  BY <1>1, HeadFacts, TailRange DEF Commands
<1>7. Later(p, Tail(todo[p]))
  BY TailLater DEF Later
<1> QED
  BY <1>2, <1>3, <1>4, <1>5, <1>6, <1>7 DEF Follows, Stays

LEMMA SpliceFollows ==
  ASSUME TypeOK, Ordered, NEW p \in Procs, Runs(p, {"read", "unlink", "remove"}),
         NEW x \in Seq(Cmds), \A c \in Range(x) : c.hunt = On(p) /\ Loop(c)
  PROVE  /\ Follows(p, x \o Tail(todo[p]))
         /\ Range(x \o Tail(todo[p])) \subseteq Range(x) \cup Commands(p)
<1>1. todo[p] # <<>> /\ Op(p) \in {"read", "unlink", "remove"}
  BY DEF Runs, Op
<1>2. /\ todo[p] \in Seq(Cmds) /\ ListOK(todo[p]) /\ On(p) = todo[p][1].hunt
      /\ todo[p][1].op = Op(p) /\ Head(todo[p]) \in Commands(p) /\ Head(todo[p]) = todo[p][1]
  BY <1>1, HeadFacts DEF Ordered
<1>3. Removes(todo[p][1])
  BY <1>1, <1>2 DEF Removes
<1> DEFINE w == x \o Tail(todo[p])
<1>4. /\ w \in Seq(Cmds) /\ ListOK(w) /\ \A c \in Range(w) : c.op # "hash"
      /\ Range(w) = Range(x) \cup Range(Tail(todo[p]))
  <2>1. \A c \in Range(x) : c.hunt = todo[p][1].hunt /\ Loop(c)
    BY <1>2
  <2> QED
    BY <1>1, <1>2, <1>3, <2>1, SpliceListOK
<1>5. Follows(p, Tail(todo[p])) /\ Range(Tail(todo[p])) \subseteq Commands(p)
  BY <1>1, <1>2, TailFollows, TailRange DEF Commands
<1>6. p # Module
  BY <1>1, <1>2 DEF Ordered, Own, ModuleOps
<1>7. \A c \in Range(x) : c.hunt = On(p) /\ c.op # "hash" /\ Own(p, c) /\ Stays(p, c)
  <2> SUFFICES ASSUME NEW c \in Range(x)
               PROVE  c.hunt = On(p) /\ c.op # "hash" /\ Own(p, c) /\ Stays(p, c)
    OBVIOUS
  <2>1. c.op \in {"unlink", "remove", "unobj", "unmap"} \/ (c.op = "nb" /\ c.val = -1)
    BY DEF Loop
  <2>2. c # Lists(c.hunt)
    BY <2>1 DEF Lists, Cmd
  <2> QED
    BY <1>6, <2>1, <2>2 DEF Own, UserOps, Stays
<1>8. \A c \in Commands(p) : c \in Range(w) \/ c = Head(todo[p])
  BY <1>1, <1>2, <1>4, TailRange DEF Commands
<1>9. Later(p, w)
  <2> DEFINE t == Tail(todo[p])
             n == Len(x)
  <2>1. /\ \A i \in DOMAIN t : \E k \in DOMAIN todo[p] :
              /\ todo[p][k] = t[i]
              /\ \A d : After(todo[p], k, d) => After(t, i, d) \/ d = Head(todo[p])
        /\ t \in Seq(Cmds)
    BY <1>1, <1>2, TailLater, TailFacts
  <2> HIDE DEF t
  <2>2. t \in Seq(Cmds)
    BY <2>1
  <2>3. \A k \in DOMAIN w : \/ k \in DOMAIN x /\ w[k] = x[k]
                            \/ k \notin DOMAIN x /\ k - n \in DOMAIN t /\ w[k] = t[k - n]
    <3>1. \A k \in DOMAIN (x \o t) : \/ k \in DOMAIN x /\ (x \o t)[k] = x[k]
                                    \/ /\ k \notin DOMAIN x /\ k - n \in DOMAIN t
                                       /\ (x \o t)[k] = t[k - n]
      BY <2>2, JoinedRange
    <3> QED
      BY <3>1 DEF t
  <2>4. \A k \in DOMAIN t : n + k \in DOMAIN w /\ w[n + k] = t[k]
    <3>1. \A k \in DOMAIN t : n + k \in DOMAIN (x \o t) /\ (x \o t)[n + k] = t[k]
      BY <2>2, JoinedRange
    <3> QED
      BY <3>1 DEF t
  <2>5. n \in Nat /\ \A k \in DOMAIN w : k \in Nat
    BY <1>4, SeqFacts
  <2>6. \A k \in DOMAIN t : k \in Nat
    BY <2>2, SeqFacts
  <2> HIDE DEF w, n
  <2> SUFFICES ASSUME NEW i \in DOMAIN w, w[i].op \in {"srem", "state"}
               PROVE  \E k \in DOMAIN todo[p] :
                        /\ todo[p][k] = w[i]
                        /\ \A d : After(todo[p], k, d) => After(w, i, d) \/ d = Head(todo[p])
    BY DEF Later
  <2>7. i \notin DOMAIN x \/ w[i] # x[i]
    <3>1. \A c \in Range(x) : c.op \notin {"srem", "state"}
      BY DEF Loop
    <3>2. \A k \in DOMAIN x : x[k] \in Range(x)
      BY DEF Range
    <3> QED
      BY <3>1, <3>2
  <2>8. i - n \in DOMAIN t /\ w[i] = t[i - n]
    BY <2>3, <2>7
  <2>9. \A d : After(t, i - n, d) => After(w, i, d)
    <3> SUFFICES ASSUME NEW d, NEW j \in DOMAIN t, j < i - n, t[j] = d
                 PROVE  After(w, i, d)
      BY DEF After
    <3>1. n + j \in DOMAIN w /\ w[n + j] = d /\ n + j < i
      BY <2>4, <2>5, <2>6
    <3> QED
      BY <3>1 DEF After
  <2> QED
    BY <2>1, <2>8, <2>9
<1> QED
  BY <1>4, <1>5, <1>7, <1>8, <1>9 DEF Follows, w

LEMMA ReadFollows ==
  ASSUME TypeOK, Ordered, NEW p \in Procs, ReadMatches(p)
  PROVE  \E s : Follows(p, s) /\ todo' = [todo EXCEPT ![p] = s]
<1> DEFINE read == {o \in objs[On(p)] : Val(p) \in {Objs[o].type, "all"}}
           op == IF Val(p) = "all" THEN "remove" ELSE "unlink"
           c == Cmd(op, On(p), read)
<1>1. Runs(p, {"read", "unlink", "remove"}) /\ todo[p] # <<>>
  BY DEF ReadMatches, Runs
<1>2. On(p) \in Hunts
  BY <1>1, HeadFacts
<1>3. objs[On(p)] \subseteq Obj
  BY <1>2 DEF TypeOK
<1>4. c \in Cmds
  <2>1. read \in SUBSET Obj
    BY <1>3
  <2> HIDE DEF read
  <2>2. Cmd("remove", On(p), read) \in Cmds /\ Cmd("unlink", On(p), read) \in Cmds
    BY <1>2, <2>1, CmdsTyped
  <2> QED
    BY <2>2
<1>5. c.hunt = On(p) /\ Loop(c)
  <2> HIDE DEF read
  <2>1. c.hunt = On(p) /\ c.op = op
    BY CmdFields
  <2> QED
    BY <2>1 DEF Loop
<1>6. todo' = [todo EXCEPT ![p] = <<c>> \o Tail(@)]
  BY DEF ReadMatches
<1>8. todo' = [todo EXCEPT ![p] = <<c>> \o Tail(todo[p])]
  BY <1>6
<1> HIDE DEF c
<1>7. <<c>> \in Seq(Cmds) /\ Range(<<c>>) = {c}
  BY <1>4, Tuples
<1>9. Follows(p, <<c>> \o Tail(todo[p]))
  BY <1>1, <1>5, <1>7, SpliceFollows
<1> QED
  BY <1>8, <1>9

LEMMA RemoveFollows ==
  ASSUME TypeOK, Ordered, NEW p \in Procs, RemoveMatches(p)
  PROVE  \E s : Follows(p, s) /\ todo' = [todo EXCEPT ![p] = s]
<1> DEFINE h == On(p)
           o == CHOOSE x \in Val(p) : TRUE
           remove == IF Op(p) = "remove" THEN Remove(h, o) ELSE RemoveLinks(h, o)
           c == Cmd(Op(p), h, Val(p) \ {o})
<1>1. Runs(p, {"read", "unlink", "remove"}) /\ todo[p] # <<>> /\ Op(p) \in {"unlink", "remove"}
  BY DEF RemoveMatches, Runs, Op
<1>2. /\ h \in Hunts /\ Head(todo[p]) \in Cmds
      /\ Head(todo[p]).op = Op(p) /\ Head(todo[p]).val = Val(p)
  BY <1>1, HeadFacts DEF Op, Val
<1>3. Val(p) \subseteq Obj
  BY <1>1, <1>2, CmdTypes
<1>4. CASE Val(p) = {}
  <2>1. Sent(p)
    BY <1>4 DEF RemoveMatches
  <2> QED
    BY <1>1, <2>1, TailFollows DEF Sent
<1>5. CASE Val(p) # {}
  <2>1. todo' = [todo EXCEPT ![p] = remove \o <<c>> \o Tail(@)]
    BY <1>5 DEF RemoveMatches
  <2>2. o \in Obj
    BY <1>3, <1>5
  <2>3. c \in Cmds /\ c.hunt = h /\ Loop(c)
    <3>1. Val(p) \ {o} \in SUBSET Obj
      BY <1>3
    <3> HIDE DEF o
    <3>2. \A v \in SUBSET Obj : Cmd("remove", h, v) \in Cmds /\ Cmd("unlink", h, v) \in Cmds
      BY <1>2, CmdsTyped
    <3>3. c \in Cmds
      BY <1>1, <3>1, <3>2
    <3>4. c.hunt = h /\ c.op = Op(p)
      BY CmdFields
    <3> QED
      BY <1>1, <3>3, <3>4 DEF Loop
  <2> HIDE DEF o, c
  <2>4. /\ remove \in Seq(Cmds)
        /\ \A d \in Range(remove) : d.hunt = h /\ Loop(d)
    <3> DEFINE d1 == Cmd("unobj", h, o)
               d2 == Cmd("unmap", h, o)
               d3 == Cmd("nb", h, -1)
    <3>1. d1 \in Cmds /\ d2 \in Cmds /\ d3 \in Cmds
      BY <1>2, <2>2, CmdsTyped
    <3>2. /\ d1.hunt = h /\ d1.op = "unobj" /\ d2.hunt = h /\ d2.op = "unmap"
          /\ d3.hunt = h /\ d3.op = "nb" /\ d3.val = -1
      BY CmdFields
    <3>3. RemoveLinks(h, o) = <<d1, d2>> /\ Remove(h, o) = RemoveLinks(h, o) \o <<d3>>
      BY DEF RemoveLinks, Remove
    <3> HIDE DEF d1, d2, d3
    <3>4. <<d1, d2>> \in Seq(Cmds) /\ Range(<<d1, d2>>) = {d1, d2}
      BY <3>1, Tuples
    <3>5. <<d3>> \in Seq(Cmds) /\ Range(<<d3>>) = {d3}
      BY <3>1, Tuples
    <3>6. <<d1, d2>> \o <<d3>> \in Seq(Cmds) /\ Range(<<d1, d2>> \o <<d3>>) = {d1, d2, d3}
      <4>1. \A x, y : x \in Seq(Cmds) /\ y \in Seq(Cmds) =>
               x \o y \in Seq(Cmds) /\ Range(x \o y) = Range(x) \cup Range(y)
        BY JoinedRange
      <4>2. /\ <<d1, d2>> \o <<d3>> \in Seq(Cmds)
            /\ Range(<<d1, d2>> \o <<d3>>) = Range(<<d1, d2>>) \cup Range(<<d3>>)
        BY <3>4, <3>5, <4>1, Zenon
      <4> QED
        BY <3>4, <3>5, <4>2
    <3>7. Loop(d1) /\ Loop(d2) /\ Loop(d3)
      BY <3>2 DEF Loop
    <3> QED
      BY <3>2, <3>3, <3>4, <3>6, <3>7
  <2> HIDE DEF remove
  <2>5. <<c>> \in Seq(Cmds) /\ Range(<<c>>) = {c}
    BY <2>3, Tuples
  <2>6. /\ remove \o <<c>> \in Seq(Cmds)
        /\ Range(remove \o <<c>>) = Range(remove) \cup {c}
    BY <2>4, <2>5, JoinedRange
  <2>7. Follows(p, (remove \o <<c>>) \o Tail(todo[p]))
    BY <1>1, <2>3, <2>4, <2>6, SpliceFollows
  <2>8. todo' = [todo EXCEPT ![p] = (remove \o <<c>>) \o Tail(todo[p])]
    BY <2>1
  <2> QED
    BY <2>7, <2>8
<1> QED
  BY <1>4, <1>5

LEMMA CheckedFollows ==
  ASSUME TypeOK, Ordered, NEW p \in Procs, DeleteChecked(p)
  PROVE  \E s : Follows(p, s) /\ todo' = [todo EXCEPT ![p] = s]
<1>1. todo[p] # <<>> /\ Op(p) = "delete"
  BY DEF DeleteChecked, Runs, Op
<1>2. On(p) \in Hunts /\ Head(todo[p]) \in Commands(p) /\ Head(todo[p]).op = "delete"
  BY <1>1, HeadFacts DEF Op
<1>3. p # Module
  BY <1>2 DEF Ordered, Own, ModuleOps
<1>4. PICK s : (s = Pause(On(p)) \/ s = Delete(On(p))) /\ todo' = [todo EXCEPT ![p] = s]
  BY DEF DeleteChecked
<1>7. \A c \in Commands(p) : c = Head(todo[p])
  <2>1. todo[p] \in Seq(Cmds) /\ 1 \in DOMAIN todo[p] /\ todo[p][1].op = "delete"
    BY <1>1, HeadFacts
  <2>2. Len(todo[p]) = 1
    BY <2>1 DEF Ordered, ListOK, DeleteAlone
  <2>3. \A i \in DOMAIN todo[p] : i = 1
    BY <2>1, <2>2, SeqFacts
  <2> QED
    BY <1>1, <2>3, HeadFacts DEF Commands, Range
<1>8. Fresh(s) => Later(p, s)
  BY DEF Fresh, Later, FreshAt
<1>5. CASE s = Pause(On(p))
  <2>1. /\ Plain(On(p), s)
        /\ Range(s) = {Cmd("sadd", On(p), "paused"), Cmd("state", On(p), "paused"),
                       Cmd("flag", On(p), TRUE), Cmd("flag", On(p), FALSE)}
    BY <1>2, <1>5, PlainPrograms
  <2>2. \A c \in Range(s) : /\ c.op \in {"sadd", "state", "flag"}
                            /\ c.op = "state" => c.val = "paused"
    BY <2>1 DEF Cmd
  <2>3. Sends(On(p), s)
    BY <1>2, <2>1, <2>2, PlainSends
  <2>4. \A c \in Range(s) : c # Lists(c.hunt)
    BY <2>2 DEF Lists, Cmd
  <2> QED
    BY <1>1, <1>3, <1>4, <1>7, <1>8, <2>2, <2>3, <2>4 DEF Follows, Stays, Sends, UserOwn, Own
<1>6. CASE s = Delete(On(p))
  <2>1. /\ Sends(On(p), s)
        /\ \A c \in Range(s) : c.op \notin {"hash", "last", "state", "delete"} /\ c # Lists(On(p))
    BY <1>2, <1>6, DeleteProgram
  <2> QED
    BY <1>1, <1>3, <1>4, <1>7, <1>8, <2>1 DEF Follows, Stays, Sends, UserOwn, Own
<1> QED
  BY <1>4, <1>5, <1>6

LEMMA CommandFollows ==
  ASSUME TypeOK, Ordered, NEW p \in Procs, Command(p)
  PROVE  /\ todo[p] # <<>>
         /\ \E s : Follows(p, s) /\ todo' = [todo EXCEPT ![p] = s]
<1>1. CASE ReadMatches(p)
  BY <1>1, ReadFollows DEF ReadMatches, Runs
<1>2. CASE RemoveMatches(p)
  BY <1>2, RemoveFollows DEF RemoveMatches, Runs
<1>3. CASE DeleteChecked(p)
  BY <1>3, CheckedFollows DEF DeleteChecked, Runs
<1>4. CASE RemoveRule(p)
  <2>1. todo[p] # <<>> /\ todo' = [todo EXCEPT ![p] = IF On(p) \in rule THEN Tail(@) ELSE <<>>]
    BY <1>4 DEF RemoveRule, Runs
  <2>2. Follows(p, Tail(todo[p]))
    BY <2>1, TailFollows
  <2>3. On(p) \notin rule => Follows(p, <<>>)
    <3>1. Op(p) = "rule"
      BY <1>4 DEF RemoveRule, Runs, Op
    <3>2. ListOK(<<>>)
      BY Tuples DEF ListOK, OneHunt, RemovesFirst, OneRule, HashFirst, DeleteAlone
    <3> QED
      BY <3>1, <3>2, Tuples DEF Follows, Later
  <2>4. CASE On(p) \in rule
    BY <2>1, <2>2, <2>4
  <2>5. CASE On(p) \notin rule
    BY <2>1, <2>3, <2>5
  <2> QED
    BY <2>4, <2>5
<1>5. CASE todo[p] # <<>> /\ Sent(p)
  BY <1>5, TailFollows DEF Sent
<1>6. Command(p) => \/ ReadMatches(p) \/ RemoveMatches(p) \/ DeleteChecked(p) \/ RemoveRule(p)
                    \/ (todo[p] # <<>> /\ Sent(p))
  BY DEF Command, HsetState, HsetLast, SaddState, SaddLists, HsetPause, SaddMatch, SaddMap,
         HincrMatch, Runs
<1> QED
  BY <1>1, <1>2, <1>3, <1>4, <1>5, <1>6

----------------------------------------------------------------------------
(***************************************************************************)
(* What a command does to the rest: it keeps the types, and touches only   *)
(* the hunt that it is on.                                                 *)
(***************************************************************************)
TypeButTodo ==
    /\ state' \in [Hunts -> States \cup {"new", None}]
    /\ last' \in [Hunts -> Obj \cup {None}]
    /\ nb' \in [Hunts -> Int]
    /\ sets' \in [States -> SUBSET Hunts]
    /\ listed' \subseteq Hunts /\ all' \subseteq Hunts /\ flag' \subseteq Hunts
    /\ rule' \subseteq Hunts
    /\ objs' \in [Hunts -> SUBSET Obj]
    /\ hunts' \in [Obj -> SUBSET Hunts]

\* Nothing of the hunt g changes.
Same(g) ==
    /\ state'[g] = state[g] /\ last'[g] = last[g] /\ nb'[g] = nb[g] /\ objs'[g] = objs[g]
    /\ \A s \in States : g \in sets'[s] <=> g \in sets[s]
    /\ \A o \in Obj : g \in hunts'[o] <=> g \in hunts[o]
    /\ g \in all' <=> g \in all
    /\ g \in rule' <=> g \in rule

Touches(h) == \A g \in Hunts : g # h => Same(g)

LEMMA CommandTouches ==
  ASSUME TypeOK, NEW p \in Procs, Command(p)
  PROVE  TypeButTodo /\ Touches(On(p)) /\ UNCHANGED <<analysed, mod, counts>>
<1> DEFINE h == On(p)
           v == Val(p)
<1>1. todo[p] # <<>>
  BY DEF Command, HsetState, HsetLast, SaddState, SaddLists, HsetPause, SaddMatch, SaddMap,
         HincrMatch, ReadMatches, RemoveMatches, RemoveRule, DeleteChecked, Runs
<1>2. /\ h \in Hunts /\ Head(todo[p]) \in Cmds /\ Head(todo[p]).op = Op(p)
      /\ Head(todo[p]).val = v
  BY <1>1, HeadFacts DEF Op, Val
<1>3. /\ Op(p) \in {"state", "sadd", "srem"} => v \in States
      /\ Op(p) = "hash" => v = "new"
      /\ Op(p) = "last" => v \in Obj \cup {None}
      /\ Op(p) \in {"listed", "all", "flag"} => v \in BOOLEAN
      /\ Op(p) \in {"obj", "unobj", "map", "unmap"} => v \in Obj
      /\ Op(p) = "nb" => v \in Int
  BY <1>2, CmdTypes
<1>4. UNCHANGED <<analysed, mod, counts>>
  BY DEF Command, HsetState, HsetLast, SaddState, SaddLists, HsetPause, SaddMatch, SaddMap,
         HincrMatch, ReadMatches, RemoveMatches, RemoveRule, DeleteChecked, hash, index
<1> SUFFICES TypeButTodo /\ Touches(h)
  BY <1>4
<1> HIDE DEF h, v
<1> USE DEF TypeOK, TypeButTodo, Touches, Same, hash, index
<1>5. CASE HsetState(p)
  <2>1. state' = [state EXCEPT ![h] = v] /\ v \in States \cup {"new", None}
    BY <1>3, <1>5 DEF HsetState, Runs, Op, h, v
  <2> QED
    BY <1>2, <1>5, <2>1 DEF HsetState
<1>6. CASE HsetLast(p)
  <2>1. last' = [last EXCEPT ![h] = v] /\ v \in Obj \cup {None}
    BY <1>3, <1>6 DEF HsetLast, Runs, Op, h, v
  <2> QED
    BY <1>2, <1>6, <2>1 DEF HsetLast
<1>7. CASE SaddState(p)
  <2>1. /\ sets' = [sets EXCEPT ![v] = IF Op(p) = "sadd" THEN @ \cup {h} ELSE @ \ {h}]
        /\ v \in States
    BY <1>3, <1>7 DEF SaddState, Runs, Op, h, v
  <2>2. /\ sets' \in [States -> SUBSET Hunts]
        /\ \A g \in Hunts, s \in States : g # h => (g \in sets'[s] <=> g \in sets[s])
    <3>1. \A s \in States : sets'[s] = sets[s] \/ sets'[s] = sets[s] \cup {h}
                             \/ sets'[s] = sets[s] \ {h}
      BY <2>1
    <3>2. \A s \in States : sets[s] \in SUBSET Hunts
      BY Zenon
    <3>3. \A s \in States : sets'[s] \in SUBSET Hunts
      <4> SUFFICES ASSUME NEW s \in States  PROVE sets'[s] \in SUBSET Hunts
        OBVIOUS
      <4>1. sets[s] \in SUBSET Hunts
        BY <3>2
      <4>2. sets[s] \cup {h} \in SUBSET Hunts /\ sets[s] \ {h} \in SUBSET Hunts
        BY <1>2, <4>1
      <4> QED
        BY <3>1, <4>1, <4>2, Zenon
    <3>4. sets' = [s \in States |-> sets'[s]]
      BY <2>1
    <3> QED
      BY <3>1, <3>3, <3>4
  <2> QED
    BY <1>7, <2>2 DEF SaddState
<1>8. CASE SaddLists(p)
  <2>1. /\ listed' = listed \/ listed' = listed \cup {h} \/ listed' = listed \ {h}
        /\ all' = all \/ all' = all \cup {h} \/ all' = all \ {h}
    BY <1>8 DEF SaddLists, Set, h
  <2> QED
    BY <1>2, <1>8, <2>1 DEF SaddLists
<1>9. CASE HsetPause(p)
  <2>1. flag' = flag \cup {h} \/ flag' = flag \ {h}
    BY <1>9 DEF HsetPause, Set, h
  <2> QED
    BY <1>2, <1>9, <2>1 DEF HsetPause
<1>10. CASE SaddMatch(p)
  <2>1. /\ objs' = [objs EXCEPT ![h] = Set(@, v, Op(p) = "obj")] /\ v \in Obj
    BY <1>3, <1>10 DEF SaddMatch, Runs, Op, h, v
  <2>2. objs[h] \subseteq Obj
    BY <1>2
  <2>3. Set(objs[h], v, Op(p) = "obj") \in SUBSET Obj
    BY <2>1, <2>2 DEF Set
  <2>4. objs' \in [Hunts -> SUBSET Obj] /\ \A g \in Hunts : g # h => objs'[g] = objs[g]
    <3> HIDE DEF Set
    <3> QED
      BY <2>1, <2>3
  <2> QED
    BY <1>10, <2>4 DEF SaddMatch
<1>11. CASE SaddMap(p)
  <2>1. hunts' = [hunts EXCEPT ![v] = Set(@, h, Op(p) = "map")] /\ v \in Obj
    BY <1>3, <1>11 DEF SaddMap, Runs, Op, h, v
  <2>2. hunts[v] \subseteq Hunts
    BY <2>1
  <2>3. /\ Set(hunts[v], h, Op(p) = "map") \in SUBSET Hunts
        /\ \A g \in Hunts : g # h => (g \in Set(hunts[v], h, Op(p) = "map") <=> g \in hunts[v])
    BY <1>2, <2>2 DEF Set
  <2>4. /\ hunts' \in [Obj -> SUBSET Hunts]
        /\ \A g \in Hunts, o \in Obj : g # h => (g \in hunts'[o] <=> g \in hunts[o])
    <3> HIDE DEF Set
    <3> QED
      BY <2>1, <2>3
  <2> QED
    BY <1>11, <2>4 DEF SaddMap
<1>12. CASE HincrMatch(p)
  <2>1. nb' = [nb EXCEPT ![h] = @ + v] /\ v \in Int
    BY <1>3, <1>12 DEF HincrMatch, Runs, Op, h, v
  <2>2. nb' \in [Hunts -> Int] /\ \A g \in Hunts : g # h => nb'[g] = nb[g]
    <3>1. nb[h] + v \in Int
      BY <1>2, <2>1
    <3> QED
      BY <1>2, <2>1, <3>1
  <2> QED
    BY <1>12, <2>2 DEF HincrMatch
<1>13. CASE RemoveRule(p)
  <2>1. rule' = rule \ {h}
    BY <1>13 DEF RemoveRule, h
  <2> QED
    BY <1>13, <2>1 DEF RemoveRule
<1>14. CASE ReadMatches(p) \/ RemoveMatches(p) \/ DeleteChecked(p)
  BY <1>14 DEF ReadMatches, RemoveMatches, DeleteChecked
<1> QED
  BY <1>5, <1>6, <1>7, <1>8, <1>9, <1>10, <1>11, <1>12, <1>13, <1>14 DEF Command

\* The hunt has its hash after the command.
LEMMA CommandHash ==
  ASSUME Controlled, NEW p \in Procs, Command(p)
  PROVE  On(p) \in Hunts /\ state'[On(p)] # None
<1>1. TypeOK /\ Ordered /\ Known
  BY DEF Controlled
<1>2. todo[p] # <<>>
  BY <1>1, CommandFollows
<1>3. /\ On(p) \in Hunts /\ Head(todo[p]) \in Cmds /\ Head(todo[p]).op = Op(p)
      /\ Head(todo[p]).val = Val(p) /\ Head(todo[p]) \in Commands(p)
      /\ Head(todo[p]).hunt = On(p) /\ todo[p][1].op = Op(p)
  BY <1>1, <1>2, HeadFacts DEF Op, Val
<1>4. CASE HsetState(p)
  <2>1. Val(p) \in States \cup {"new"}
    BY <1>3, <1>4, CmdTypes DEF HsetState, Runs, Op
  <2>2. state'[On(p)] = Val(p)
    BY <1>1, <1>3, <1>4 DEF HsetState, TypeOK
  <2> QED
    BY <1>3, <2>1, <2>2, Assumption
<1>5. CASE ~HsetState(p)
  <2>1. state' = state /\ Op(p) # "hash"
    BY <1>5 DEF Command, HsetLast, SaddState, SaddLists, HsetPause, SaddMatch, SaddMap,
         HincrMatch, ReadMatches, RemoveMatches, RemoveRule, DeleteChecked, hash, Runs, Op
  <2>2. state[On(p)] # None
    BY <1>1, <1>3, <2>1 DEF Known
  <2> QED
    BY <1>3, <2>1, <2>2
<1> QED
  BY <1>4, <1>5

----------------------------------------------------------------------------
(***************************************************************************)
(* Every step keeps the types, the lists, the hashes and the module's      *)
(* places.                                                                 *)
(***************************************************************************)
LEMMA InitControlled == Init => Controlled
<1> SUFFICES ASSUME Init  PROVE Controlled
  OBVIOUS
<1>1. \A p \in Procs : todo[p] = <<>> /\ Commands(p) = {}
  BY Tuples DEF Init, Commands
<1>2. TypeOK
  <2>1. todo \in [Procs -> Seq(Cmds)]
    BY Tuples DEF Init
  <2>2. 0 \in 0 .. LastEvery - 1
    BY Assumption
  <2> QED
    BY <2>1, <2>2, Assumption DEF Init, TypeOK, Idle, States
<1>3. Ordered
  <2>1. ListOK(<<>>)
    BY Tuples DEF ListOK, OneHunt, RemovesFirst, OneRule, HashFirst, DeleteAlone
  <2> QED
    BY <1>1, <2>1 DEF Ordered
<1>4. Known
  BY <1>1 DEF Init, Known, States
<1>5. Placed
  BY DEF Init, Placed, Idle
<1> QED
  BY <1>2, <1>3, <1>4, <1>5 DEF Controlled

LEMMA CommandControlled ==
  ASSUME Controlled, NEW p \in Procs, Command(p)
  PROVE  Controlled'
<1>1. TypeOK /\ Ordered /\ Known /\ Placed
  BY DEF Controlled
<1>2. PICK s : Follows(p, s) /\ todo' = [todo EXCEPT ![p] = s]
  BY <1>1, CommandFollows
<1>3. todo[p] # <<>> /\ TypeButTodo /\ Touches(On(p)) /\ UNCHANGED <<analysed, mod, counts>>
  BY <1>1, CommandFollows, CommandTouches
<1>4. On(p) \in Hunts /\ state'[On(p)] # None
  BY CommandHash
<1>5. /\ todo' \in [Procs -> Seq(Cmds)] /\ todo'[p] = s /\ Commands(p)' = Range(s)
      /\ \A q \in Procs \ {p} : todo'[q] = todo[q] /\ Commands(q)' = Commands(q)
  <2>1. s \in Seq(Cmds)
    BY <1>2 DEF Follows
  <2> QED
    BY <1>1, <1>2, <2>1, SetTodo
<1>6. TypeOK'
  BY <1>1, <1>3, <1>5 DEF TypeOK, TypeButTodo, counts
<1>7. Ordered'
  <2> SUFFICES ASSUME NEW q \in Procs
               PROVE  ListOK(todo'[q]) /\ \A c \in Commands(q)' : Own(q, c)
    BY DEF Ordered
  <2>1. CASE q = p
    BY <1>2, <1>5, <2>1 DEF Follows
  <2>2. CASE q # p
    BY <1>1, <1>5, <2>2 DEF Ordered
  <2> QED
    BY <2>1, <2>2
<1>8. \A c \in Commands(p)' : c.hunt = On(p) /\ c.op # "hash"
  BY <1>2, <1>5 DEF Follows
<1>9. \A h \in Hunts : state'[h] = None => h # On(p) /\ state[h] = None /\ Same(h)
  <2> SUFFICES ASSUME NEW h \in Hunts, state'[h] = None
               PROVE  h # On(p) /\ state[h] = None /\ Same(h)
    OBVIOUS
  <2>1. h # On(p)
    BY <1>4
  <2>2. Same(h)
    BY <1>3, <2>1 DEF Touches
  <2> QED
    BY <2>1, <2>2 DEF Same
<1>10. ASSUME NEW q \in Procs, NEW c \in Commands(q)'
       PROVE  /\ state'[c.hunt] = None => todo'[q][1].op = "hash"
              /\ c.op = "hash" => /\ c.hunt \in rule' /\ state'[c.hunt] = None
                                  /\ \A r \in Procs \ {q} : \A d \in Commands(r)' : d.hunt # c.hunt
  <2>1. CASE q = p
    BY <1>4, <1>8, <1>10, <2>1
  <2>2. CASE q # p
    <3>1. c \in Commands(q) /\ todo'[q] = todo[q]
      BY <1>5, <1>10, <2>2
    <3>2. c.hunt \in Hunts
      <4>1. todo[q] \in Seq(Cmds)
        BY <1>1 DEF TypeOK
      <4>2. c \in Cmds
        BY <3>1, <4>1, SeqFacts DEF Commands
      <4> QED
        BY <4>2, CmdTypes
    <3>3. state'[c.hunt] = None => todo'[q][1].op = "hash"
      BY <1>1, <1>9, <3>1, <3>2 DEF Known
    <3>4. ASSUME c.op = "hash"
          PROVE  /\ c.hunt \in rule' /\ state'[c.hunt] = None
                 /\ \A r \in Procs \ {q} : \A d \in Commands(r)' : d.hunt # c.hunt
      <4>1. /\ c.hunt \in rule /\ state[c.hunt] = None
            /\ \A r \in Procs \ {q} : \A d \in Commands(r) : d.hunt # c.hunt
        BY <1>1, <3>1, <3>4 DEF Known
      <4>2. Head(todo[p]) \in Commands(p) /\ Head(todo[p]).hunt = On(p)
        BY <1>1, <1>3, HeadFacts DEF On
      <4>3. On(p) # c.hunt
        BY <2>2, <4>1, <4>2
      <4>4. Same(c.hunt)
        BY <1>3, <3>2, <4>3 DEF Touches
      <4> QED
        BY <1>5, <1>8, <4>1, <4>3, <4>4 DEF Same
    <3> QED
      BY <3>3, <3>4
  <2> QED
    BY <2>1, <2>2
<1>11. \A h \in sets'["pending"] \cup all' : state'[h] # None
  <2> SUFFICES ASSUME NEW h \in sets'["pending"] \cup all', state'[h] = None  PROVE FALSE
    OBVIOUS
  <2>1. "pending" \in States
    BY DEF States
  <2>2. h \in Hunts
    BY <1>6, <2>1 DEF TypeOK
  <2>3. state[h] = None /\ Same(h)
    BY <1>9, <2>2
  <2>4. h \in sets["pending"] \cup all
    BY <2>1, <2>3 DEF Same
  <2> QED
    BY <1>1, <2>3, <2>4 DEF Known
<1>12. \A h \in Hunts : state'[h] = None =>
          /\ last'[h] = None /\ nb'[h] = 0 /\ objs'[h] = {} /\ analysed'[h] = {}
          /\ \A o \in Obj : h \notin hunts'[o]
  BY <1>1, <1>3, <1>9 DEF Known, Same
<1>13. Known'
  BY <1>10, <1>11, <1>12 DEF Known
<1>14. Placed'
  <2>1. mod' = mod
    BY <1>3
  <2>2. mod.pc # "idle" => mod.hunt \in Hunts /\ state'[mod.hunt] # None
    BY <1>1, <1>9 DEF Placed
  <2>3. mod.pc = "dead" => todo'[Module] = <<>>
    BY <1>1, <1>3, <1>5 DEF Placed, Procs
  <2> QED
    BY <1>1, <2>1, <2>2, <2>3 DEF Placed
<1> QED
  BY <1>6, <1>7, <1>13, <1>14 DEF Controlled

\* A request gives its commands to an idle thread; a creation begins with the hash.
Requested(u, h, s) ==
    /\ todo[u] = <<>> /\ Sends(h, s) /\ todo' = [todo EXCEPT ![u] = s]
    /\ requests' = requests + 1
    /\ UNCHANGED <<hash, index, flag, objs, hunts, analysed, mod, stops>>
    /\ \/ rule' = rule /\ state[h] # None /\ \A c \in Range(s) : c.op # "hash"
       \/ /\ rule' = rule \cup {h} /\ h \notin rule /\ state[h] = None
          /\ s[1] = Cmd("hash", h, "new")
    /\ \A c \in Range(s) : /\ c.op = "state" => c.val # "completed"
                           /\ c.op = "delete" => ApiDelete(u, h)
                           /\ c # Unlists(h)
                           /\ c = Lists(h) => state[h] = None

LEMMA FlaskRequests ==
  ASSUME NEW u \in Users, Flask(u)
  PROVE  \E h \in Hunts : \E s : Requested(u, h, s)
<1> PICK h \in Hunts : ApiCreate(u, h) \/ ApiPause(u, h) \/ ApiResume(u, h) \/ ApiDelete(u, h)
  BY DEF Flask
<1>0. \A c : c = Unlists(h) \/ c = Lists(h) => c.op = "all"
  BY DEF Unlists, Lists, Cmd
<1>1. CASE ApiCreate(u, h)
  <2>1. Sends(h, Create(h)) /\ Create(h)[1] = Cmd("hash", h, "new")
    BY CreateSends
  <2>2. \A c \in Range(Create(h)) : /\ c.op = "state" => c.val # "completed"
                                    /\ c.op # "delete" /\ c # Unlists(h)
    <3>1. Lists(h) # Unlists(h)
      BY DEF Lists, Unlists, Cmd
    <3> QED
      BY <1>0, <3>1, CreateSends
  <2> QED
    BY <1>1, <2>1, <2>2 DEF ApiCreate, Request, Requested
<1>2. CASE ApiPause(u, h)
  <2>1. /\ Plain(h, Pause(h))
        /\ Range(Pause(h)) = {Cmd("sadd", h, "paused"), Cmd("state", h, "paused"),
                              Cmd("flag", h, TRUE), Cmd("flag", h, FALSE)}
    BY PlainPrograms
  <2>2. \A c \in Range(Pause(h)) : /\ c.op \in {"state", "sadd", "flag"}
                                   /\ c.op = "state" => c.val # "completed"
    BY <2>1 DEF Cmd
  <2>3. Sends(h, Pause(h))
    BY <2>1, <2>2, PlainSends
  <2>4. state[h] # None
    BY <1>2, Assumption DEF ApiPause, States
  <2>5. \A c \in Range(Pause(h)) : /\ c.op # "hash" /\ c.op # "delete"
                                   /\ c # Unlists(h) /\ c # Lists(h)
    BY <1>0, <2>2
  <2> QED
    BY <1>2, <2>2, <2>3, <2>4, <2>5 DEF ApiPause, Request, Requested
<1>3. CASE ApiResume(u, h)
  <2>1. /\ Plain(h, Resume(h))
        /\ Range(Resume(h)) = {Cmd("flag", h, FALSE), Cmd("sadd", h, "pending"),
                               Cmd("state", h, "pending")}
    BY PlainPrograms
  <2>2. \A c \in Range(Resume(h)) : /\ c.op \in {"state", "sadd", "flag"}
                                    /\ c.op = "state" => c.val # "completed"
    BY <2>1 DEF Cmd
  <2>3. Sends(h, Resume(h))
    BY <2>1, <2>2, PlainSends
  <2>4. \A c \in Range(Resume(h)) : /\ c.op # "hash" /\ c.op # "delete"
                                    /\ c # Unlists(h) /\ c # Lists(h)
    BY <1>0, <2>2
  <2> QED
    BY <1>3, <2>2, <2>3, <2>4 DEF ApiResume, Request, Requested
<1>4. CASE ApiDelete(u, h)
  <2>1. /\ Sends(h, <<Cmd("delete", h, None)>>)
        /\ Range(<<Cmd("delete", h, None)>>) = {Cmd("delete", h, None)}
    BY DeleteSends
  <2>2. \A c \in Range(<<Cmd("delete", h, None)>>) : c.op = "delete"
    BY <2>1, CmdFields
  <2>3. \A c \in Range(<<Cmd("delete", h, None)>>) : /\ c.op # "hash" /\ c.op # "state"
                                                     /\ c # Unlists(h) /\ c # Lists(h)
    BY <1>0, <2>2
  <2> QED
    BY <1>4, <2>1, <2>2, <2>3 DEF ApiDelete, Request, Requested
<1> QED
  BY <1>1, <1>2, <1>3, <1>4

LEMMA RequestControlled ==
  ASSUME Controlled, NEW u \in Users, NEW h \in Hunts, NEW s, Requested(u, h, s)
  PROVE  Controlled'
<1>1. TypeOK /\ Ordered /\ Known /\ Placed
  BY DEF Controlled
<1>2. u \in Procs /\ u # Module
  BY Assumption DEF Procs
<1>3. /\ todo[u] = <<>> /\ Sends(h, s) /\ todo' = [todo EXCEPT ![u] = s]
      /\ requests' = requests + 1
      /\ UNCHANGED <<state, last, nb, sets, listed, all, flag, objs, hunts, analysed, mod, stops>>
      /\ rule \subseteq rule' /\ rule' \subseteq rule \cup {h}
  BY DEF Requested, hash, index
<1>4. /\ s \in Seq(Cmds) /\ ListOK(s)
      /\ \A c \in Range(s) : c.hunt = h /\ Own(u, c)
  BY <1>2, <1>3 DEF Sends, UserOwn, Own
<1>5. /\ todo' \in [Procs -> Seq(Cmds)] /\ todo'[u] = s /\ Commands(u)' = Range(s)
      /\ \A q \in Procs \ {u} : todo'[q] = todo[q] /\ Commands(q)' = Commands(q)
  BY <1>1, <1>2, <1>3, <1>4, SetTodo
<1>6. TypeOK'
  BY <1>1, <1>3, <1>5 DEF TypeOK
<1>7. Ordered'
  <2> SUFFICES ASSUME NEW q \in Procs
               PROVE  ListOK(todo'[q]) /\ \A c \in Commands(q)' : Own(q, c)
    BY DEF Ordered
  <2>1. CASE q = u
    BY <1>4, <1>5, <2>1
  <2>2. CASE q # u
    BY <1>1, <1>5, <2>2 DEF Ordered
  <2> QED
    BY <2>1, <2>2
<1>8. ASSUME NEW q \in Procs, q # u, NEW c \in Commands(q)
      PROVE  /\ state[c.hunt] = None => todo[q][1].op = "hash"
             /\ c.op = "hash" => /\ c.hunt \in rule /\ state[c.hunt] = None
                                 /\ \A r \in Procs \ {q} : \A d \in Commands(r) : d.hunt # c.hunt
             /\ state[h] = None /\ h \notin rule => c.hunt # h
  <2>1. /\ state[c.hunt] = None => todo[q][1].op = "hash"
        /\ c.op = "hash" => /\ c.hunt \in rule /\ state[c.hunt] = None
                            /\ \A r \in Procs \ {q} : \A d \in Commands(r) : d.hunt # c.hunt
    BY <1>1, <1>8 DEF Known
  <2>2. todo[q] # <<>>
    BY <1>8, Tuples DEF Commands
  <2>3. /\ Head(todo[q]) \in Commands(q) /\ Head(todo[q]) = todo[q][1]
        /\ Head(todo[q]).hunt = c.hunt
    BY <1>1, <1>8, <2>2, HeadFacts, SameHunt DEF On
  <2>4. todo[q][1].op = "hash" => c.hunt \in rule
    BY <1>1, <2>3 DEF Known
  <2> QED
    BY <2>1, <2>4
<1>9. ASSUME NEW q \in Procs, NEW c \in Commands(q)'
      PROVE  /\ state'[c.hunt] = None => todo'[q][1].op = "hash"
             /\ c.op = "hash" => /\ c.hunt \in rule' /\ state'[c.hunt] = None
                                 /\ \A r \in Procs \ {q} : \A d \in Commands(r)' : d.hunt # c.hunt
  <2>1. CASE q = u
    <3>1. c.hunt = h /\ c \in Range(s)
      BY <1>4, <1>5, <1>9, <2>1
    <3>2. state'[c.hunt] = None => todo'[q][1].op = "hash"
      BY <1>3, <1>5, <2>1, <3>1, CmdFields DEF Requested
    <3>3. ASSUME c.op = "hash"
          PROVE  /\ c.hunt \in rule' /\ state'[c.hunt] = None
                 /\ \A r \in Procs \ {q} : \A d \in Commands(r)' : d.hunt # c.hunt
      <4>1. rule' = rule \cup {h} /\ h \notin rule /\ state[h] = None
        BY <3>1, <3>3 DEF Requested
      <4>2. \A r \in Procs \ {q} : \A d \in Commands(r)' : d.hunt # h
        BY <1>5, <1>8, <2>1, <4>1
      <4> QED
        BY <1>3, <3>1, <4>1, <4>2
    <3> QED
      BY <3>2, <3>3
  <2>2. CASE q # u
    <3>1. c \in Commands(q) /\ todo'[q] = todo[q]
      BY <1>5, <1>9, <2>2
    <3>2. state'[c.hunt] = None => todo'[q][1].op = "hash"
      BY <1>3, <1>8, <2>2, <3>1
    <3>3. ASSUME c.op = "hash"
          PROVE  /\ c.hunt \in rule' /\ state'[c.hunt] = None
                 /\ \A r \in Procs \ {q} : \A d \in Commands(r)' : d.hunt # c.hunt
      <4>1. /\ c.hunt \in rule /\ state[c.hunt] = None
            /\ \A r \in Procs \ {q} : \A d \in Commands(r) : d.hunt # c.hunt
        BY <1>8, <2>2, <3>1, <3>3
      <4>2. h # c.hunt
        BY <4>1 DEF Requested
      <4> QED
        BY <1>3, <1>4, <1>5, <4>1, <4>2
    <3> QED
      BY <3>2, <3>3
  <2> QED
    BY <2>1, <2>2
<1>10. Known'
  <2>1. \A g \in sets'["pending"] \cup all' : state'[g] # None
    BY <1>1, <1>3 DEF Known
  <2>2. \A g \in Hunts : state'[g] = None =>
          /\ last'[g] = None /\ nb'[g] = 0 /\ objs'[g] = {} /\ analysed'[g] = {}
          /\ \A o \in Obj : g \notin hunts'[o]
    BY <1>1, <1>3 DEF Known
  <2> QED
    BY <1>9, <2>1, <2>2 DEF Known
<1>11. Placed'
  BY <1>1, <1>2, <1>3, <1>5 DEF Placed, Procs
<1> QED
  BY <1>6, <1>7, <1>10, <1>11 DEF Controlled

\* A step of the module gives it plain commands on a hunt that has its hash, or none.
Moved(h, s) ==
    /\ \/ h \in Hunts /\ state[h] # None /\ Plain(h, s)
       \/ s = <<>>
    /\ todo' = [todo EXCEPT ![Module] = s]
    /\ sets' \in [States -> SUBSET Hunts] /\ sets'["pending"] \subseteq sets["pending"]
    /\ \A v \in States \ {"pending"} : sets'[v] = sets[v]
    /\ analysed' \in [Hunts -> SUBSET Obj]
    /\ \A g \in Hunts : state[g] = None => analysed'[g] = analysed[g]
    /\ UNCHANGED <<hash, listed, all, flag, objs, hunts, rule, requests>>
    /\ mod' \in [pc : {"idle", "start", "scan", "check", "dead"}, hunt : Hunts \cup {None},
                 left : SUBSET Obj, obj : Obj \cup {None}, done : 0 .. LastEvery - 1]
    /\ stops' \in Nat
    /\ Placed'

LEMMA MoveControlled ==
  ASSUME Controlled, NEW h, NEW s, Moved(h, s)
  PROVE  Controlled'
<1>1. TypeOK /\ Ordered /\ Known /\ Placed
  BY DEF Controlled
<1>2. Module \in Procs
  BY DEF Procs
<1>3. /\ s \in Seq(Cmds) /\ ListOK(s)
      /\ \A c \in Range(s) : c.hunt = h /\ Own(Module, c) /\ c.op # "hash"
  <2>1. CASE h \in Hunts /\ Plain(h, s)
    BY <2>1, PlainSays
  <2>2. CASE s = <<>>
    BY <2>2, Tuples DEF ListOK, OneHunt, RemovesFirst, OneRule, HashFirst, DeleteAlone
  <2> QED
    BY <2>1, <2>2 DEF Moved
<1>4. /\ todo' \in [Procs -> Seq(Cmds)] /\ todo'[Module] = s /\ Commands(Module)' = Range(s)
      /\ \A q \in Procs \ {Module} : todo'[q] = todo[q] /\ Commands(q)' = Commands(q)
  BY <1>1, <1>2, <1>3, SetTodo DEF Moved
<1>5. UNCHANGED <<state, last, nb, listed, all, flag, objs, hunts, rule, requests>>
  BY DEF Moved, hash
<1>6. TypeOK'
  BY <1>1, <1>4, <1>5 DEF TypeOK, Moved
<1>7. Ordered'
  <2> SUFFICES ASSUME NEW q \in Procs
               PROVE  ListOK(todo'[q]) /\ \A c \in Commands(q)' : Own(q, c)
    BY DEF Ordered
  <2>1. CASE q = Module
    BY <1>3, <1>4, <2>1
  <2>2. CASE q # Module
    BY <1>1, <1>4, <2>2 DEF Ordered
  <2> QED
    BY <2>1, <2>2
<1>8. \A c \in Range(s) : state[h] # None
  BY Tuples DEF Moved
<1>9. ASSUME NEW q \in Procs, NEW c \in Commands(q)'
      PROVE  /\ state'[c.hunt] = None => todo'[q][1].op = "hash"
             /\ c.op = "hash" => /\ c.hunt \in rule' /\ state'[c.hunt] = None
                                 /\ \A r \in Procs \ {q} : \A d \in Commands(r)' : d.hunt # c.hunt
  <2>1. CASE q = Module
    BY <1>3, <1>4, <1>5, <1>8, <1>9, <2>1
  <2>2. CASE q # Module
    <3>1. c \in Commands(q) /\ todo'[q] = todo[q]
      BY <1>4, <1>9, <2>2
    <3>2. /\ state[c.hunt] = None => todo[q][1].op = "hash"
          /\ c.op = "hash" => /\ c.hunt \in rule /\ state[c.hunt] = None
                              /\ \A r \in Procs \ {q} : \A d \in Commands(r) : d.hunt # c.hunt
      BY <1>1, <3>1 DEF Known
    <3>3. \A d \in Commands(Module)' : d.hunt = h /\ state[h] # None
      BY <1>3, <1>4, <1>8
    <3> QED
      BY <1>4, <1>5, <3>1, <3>2, <3>3
  <2> QED
    BY <2>1, <2>2
<1>10. Known'
  <2>1. \A g \in sets'["pending"] \cup all' : state'[g] # None
    BY <1>1, <1>5 DEF Known, Moved
  <2>2. \A g \in Hunts : state'[g] = None =>
          /\ last'[g] = None /\ nb'[g] = 0 /\ objs'[g] = {} /\ analysed'[g] = {}
          /\ \A o \in Obj : g \notin hunts'[o]
    BY <1>1, <1>5 DEF Known, Moved
  <2> QED
    BY <1>9, <2>1, <2>2 DEF Known
<1> QED
  BY <1>6, <1>7, <1>10 DEF Controlled, Moved

LEMMA PopMoves ==
  ASSUME Controlled, Pop
  PROVE  \E h \in sets["pending"] :
            /\ h \in Hunts /\ Moved(h, SetState(h, "running"))
            /\ sets' = [sets EXCEPT !["pending"] = @ \ {h}]
            /\ analysed' = analysed /\ stops' = stops /\ mod'.pc = "start"
<1>1. TypeOK /\ Known /\ Placed
  BY DEF Controlled
<1>2. PICK h \in sets["pending"] :
         /\ sets' = [sets EXCEPT !["pending"] = @ \ {h}]
         /\ mod' = [Idle EXCEPT !.pc = "start", !.hunt = h]
         /\ todo' = [todo EXCEPT ![Module] = SetState(h, "running")]
  BY DEF Pop, ModuleSends
<1>3. "pending" \in States /\ "running" \in States
  BY DEF States
<1>4. h \in Hunts /\ state[h] # None
  BY <1>1, <1>3 DEF TypeOK, Known
<1>5. Plain(h, SetState(h, "running"))
  BY <1>3, <1>4, PlainTuples
<1>6. mod' = [pc |-> "start", hunt |-> h, left |-> {}, obj |-> None, done |-> 0]
  BY <1>2 DEF Idle
<1>7. UNCHANGED <<state, last, nb, listed, all, flag, objs, hunts, rule, analysed, requests, stops>>
  BY DEF Pop, hash, counts
<1>8. /\ sets' \in [States -> SUBSET Hunts] /\ sets'["pending"] \subseteq sets["pending"]
  BY <1>1, <1>2, <1>3 DEF TypeOK
<1>9. /\ mod' \in [pc : {"idle", "start", "scan", "check", "dead"}, hunt : Hunts \cup {None},
                   left : SUBSET Obj, obj : Obj \cup {None}, done : 0 .. LastEvery - 1]
  <2>1. 0 \in 0 .. LastEvery - 1
    BY Assumption
  <2> QED
    BY <1>4, <1>6, <2>1
<1>10. Placed'
  BY <1>4, <1>6, <1>7 DEF Placed
<1>11. Moved(h, SetState(h, "running"))
  BY <1>1, <1>2, <1>4, <1>5, <1>7, <1>8, <1>9, <1>10 DEF Moved, TypeOK, hash
<1> QED
  BY <1>2, <1>4, <1>6, <1>7, <1>11

LEMMA AtWork ==
  ASSUME Controlled, mod.pc \in {"start", "scan", "check"}
  PROVE  /\ mod.hunt \in Hunts /\ state[mod.hunt] # None
         /\ mod.left \subseteq Obj /\ mod.done \in 0 .. LastEvery - 1
         /\ mod.pc = "check" => mod.obj \in Obj
BY DEF Controlled, Placed, TypeOK

\* The place of the module's code that a step of it leads to.
Place(c, h, t, o, d) == [pc |-> c, hunt |-> h, left |-> t, obj |-> o, done |-> d]
Goes(pc, left, obj, done) == mod' = Place(pc, mod.hunt, left, obj, done)

LEMMA GoesMoves ==
  ASSUME Controlled, mod.pc \in {"start", "scan", "check"},
         NEW pc \in {"scan", "check", "dead"}, NEW left, left \subseteq Obj,
         NEW obj \in Obj \cup {None}, NEW done \in 0 .. LastEvery - 1, Goes(pc, left, obj, done),
         pc = "check" => obj \in Obj,
         NEW s, Plain(mod.hunt, s), pc = "dead" => s = <<>>, todo' = [todo EXCEPT ![Module] = s],
         analysed' \in [Hunts -> SUBSET Obj],
         \A g \in Hunts : state[g] = None => analysed'[g] = analysed[g],
         UNCHANGED <<hash, index, flag, objs, hunts, rule, counts>>
  PROVE  Moved(mod.hunt, s)
<1>1. TypeOK /\ Placed
  BY DEF Controlled
<1>2. mod.hunt \in Hunts /\ state[mod.hunt] # None
  BY AtWork
<1>3. UNCHANGED <<state, last, nb, sets, listed, all, flag, objs, hunts, rule, requests, stops>>
  BY DEF hash, index, counts
<1>4. mod' \in [pc : {"idle", "start", "scan", "check", "dead"}, hunt : Hunts \cup {None},
                left : SUBSET Obj, obj : Obj \cup {None}, done : 0 .. LastEvery - 1]
  BY <1>2 DEF Goes, Place
<1>5. todo'[Module] = s
  BY <1>1 DEF TypeOK, Procs
<1>6. Placed'
  BY <1>2, <1>3, <1>5 DEF Placed, Goes, Place
<1>7. sets' \in [States -> SUBSET Hunts] /\ sets'["pending"] \subseteq sets["pending"]
  BY <1>1, <1>3 DEF TypeOK
<1>8. stops' \in Nat
  BY <1>1, <1>3 DEF TypeOK
<1>9. UNCHANGED <<hash, listed, all, flag, objs, hunts, rule, requests>>
  BY <1>3 DEF hash
<1>10. \A v \in States \ {"pending"} : sets'[v] = sets[v]
  BY <1>3
<1> QED
  BY <1>2, <1>4, <1>6, <1>7, <1>8, <1>9, <1>10 DEF Moved

LEMMA ResumedFacts ==
  /\ Resumed(None) = Obj /\ \A l \in Obj \cup {None} : Resumed(l) \subseteq Obj
BY DEF Resumed

LEMMA ModFields ==
  ASSUME TypeOK, NEW c, NEW t
  PROVE  /\ [mod EXCEPT !.pc = c] = Place(c, mod.hunt, mod.left, mod.obj, mod.done)
         /\ [mod EXCEPT !.left = t] = Place(mod.pc, mod.hunt, t, mod.obj, mod.done)
         /\ [mod EXCEPT !.pc = c, !.left = t] = Place(c, mod.hunt, t, mod.obj, mod.done)
<1> DEFINE a1 == [mod EXCEPT !.pc = c]
           a2 == [a1 EXCEPT !.left = t]
           b1 == [mod EXCEPT !.left = t]
<1>1. mod = Place(mod.pc, mod.hunt, mod.left, mod.obj, mod.done)
  BY DEF TypeOK, Place
<1>2. a1 = Place(c, mod.hunt, mod.left, mod.obj, mod.done)
  BY <1>1 DEF Place
<1>3. b1 = Place(mod.pc, mod.hunt, t, mod.obj, mod.done)
  BY <1>1 DEF Place
<1> HIDE DEF a1, b1
<1>4. a2 = Place(c, mod.hunt, t, mod.obj, mod.done)
  BY <1>2 DEF Place
<1> QED
  BY <1>2, <1>3, <1>4, Zenon DEF a1, b1

LEMMA EmptyTodo ==
  ASSUME TypeOK, todo[Module] = <<>>, todo' = todo
  PROVE  todo' = [todo EXCEPT ![Module] = <<>>]
BY DEF TypeOK

LEMMA StartMoves ==
  ASSUME Controlled, Start
  PROVE  /\ Moved(mod.hunt, <<>>) /\ UNCHANGED <<sets, analysed, stops>>
         /\ \/ /\ mod'.pc = "dead" /\ mod'.hunt = mod.hunt
               /\ \/ mod.hunt \notin rule
                  \/ last[mod.hunt] # None /\ Objs[last[mod.hunt]].type = "decoded"
            \/ Goes("scan", Resumed(last[mod.hunt]), mod.obj, mod.done)
<1> DEFINE l == last[mod.hunt]
           raises == mod.hunt \notin rule \/ (l # None /\ Objs[l].type = "decoded")
<1>1. /\ mod.pc = "start" /\ todo[Module] = <<>> /\ todo' = todo
      /\ UNCHANGED <<hash, index, flag, objs, hunts, rule, analysed, counts>>
      /\ mod' = IF raises THEN [mod EXCEPT !.pc = "dead"]
                ELSE [mod EXCEPT !.pc = "scan", !.left = Resumed(l)]
  BY DEF Start, Ready
<1>2. TypeOK
  BY DEF Controlled
<1>3. /\ mod.hunt \in Hunts /\ state[mod.hunt] # None
      /\ mod.left \subseteq Obj /\ mod.done \in 0 .. LastEvery - 1
  BY <1>1, AtWork
<1>4. mod.obj \in Obj \cup {None} /\ l \in Obj \cup {None}
  BY <1>2, <1>3 DEF TypeOK
<1>5. Resumed(l) \subseteq Obj
  BY <1>4, ResumedFacts
<1>6. Plain(mod.hunt, <<>>)
  BY <1>3, PlainTuples
<1>7. todo' = [todo EXCEPT ![Module] = <<>>]
  BY <1>1, <1>2, EmptyTodo
<1>8. analysed' \in [Hunts -> SUBSET Obj] /\ analysed' = analysed
  BY <1>1, <1>2 DEF TypeOK
<1>9. UNCHANGED <<sets, analysed, stops>>
  BY <1>1 DEF index, counts
<1> HIDE DEF raises
<1>10. CASE raises
  <2>1. Goes("dead", mod.left, mod.obj, mod.done)
    BY <1>1, <1>2, <1>10, ModFields DEF Goes
  <2>2. Moved(mod.hunt, <<>>)
    BY <1>1, <1>3, <1>4, <1>6, <1>7, <1>8, <2>1, GoesMoves
  <2>3. mod'.pc = "dead" /\ mod'.hunt = mod.hunt
    BY <2>1 DEF Goes, Place
  <2> QED
    BY <1>9, <1>10, <2>2, <2>3 DEF raises
<1>11. CASE ~raises
  <2>1. Goes("scan", Resumed(l), mod.obj, mod.done)
    BY <1>1, <1>2, <1>11, ModFields DEF Goes
  <2>2. Moved(mod.hunt, <<>>)
    BY <1>1, <1>3, <1>4, <1>5, <1>6, <1>7, <1>8, <2>1, GoesMoves
  <2> QED
    BY <1>9, <2>1, <2>2
<1> QED
  BY <1>10, <1>11

LEMMA TimesOutMoves ==
  ASSUME Controlled, TimesOut
  PROVE  /\ Moved(mod.hunt, <<>>) /\ UNCHANGED <<sets, analysed, stops>>
         /\ mod.left # {} /\ Objs[Min(mod.left)].content
         /\ mod'.pc = "dead" /\ mod'.hunt = mod.hunt /\ mod'.left = mod.left
<1>1. /\ mod.pc = "scan" /\ todo[Module] = <<>> /\ todo' = todo
      /\ mod.left # {} /\ Objs[Min(mod.left)].content
      /\ UNCHANGED <<hash, index, flag, objs, hunts, rule, analysed, counts>>
      /\ mod' = [mod EXCEPT !.pc = "dead"]
  BY DEF TimesOut, Ready
<1>2. TypeOK
  BY DEF Controlled
<1>3. /\ mod.hunt \in Hunts
      /\ mod.left \subseteq Obj /\ mod.done \in 0 .. LastEvery - 1
  BY <1>1, AtWork
<1>4. mod.obj \in Obj \cup {None}
  BY <1>2 DEF TypeOK
<1>5. Plain(mod.hunt, <<>>)
  BY <1>3, PlainTuples
<1>6. todo' = [todo EXCEPT ![Module] = <<>>]
  BY <1>1, <1>2, EmptyTodo
<1>7. analysed' \in [Hunts -> SUBSET Obj] /\ analysed' = analysed
  BY <1>1, <1>2 DEF TypeOK
<1>8. Goes("dead", mod.left, mod.obj, mod.done)
  BY <1>1, <1>2, ModFields DEF Goes
<1>9. Moved(mod.hunt, <<>>)
  BY <1>1, <1>3, <1>4, <1>5, <1>6, <1>7, <1>8, GoesMoves
<1>10. mod'.pc = "dead" /\ mod'.hunt = mod.hunt /\ mod'.left = mod.left
  BY <1>8 DEF Goes, Place
<1> QED
  BY <1>1, <1>9, <1>10 DEF index, counts

\* The commands of the module after the object o: the match, if there is one, and the object
\* as the last one, each LastEvery objects.
Found(h, o) == IF <<h, o>> \in Hits THEN Add(h, o) ELSE <<>>
Saved(h, o, done) == IF done = 0 THEN <<Cmd("last", h, o)>> ELSE <<>>

LEMMA FoundPlain ==
  ASSUME NEW h \in Hunts, NEW o \in Obj, NEW done
  PROVE  /\ Plain(h, Found(h, o) \o Saved(h, o, done))
         /\ Range(Found(h, o) \o Saved(h, o, done))
              = (IF <<h, o>> \in Hits THEN {Cmd("obj", h, o), Cmd("map", h, o), Cmd("nb", h, 1)}
                                      ELSE {})
                \cup (IF done = 0 THEN {Cmd("last", h, o)} ELSE {})
         /\ Range(Found(h, o) \o Saved(h, o, done))
              \subseteq {Cmd("obj", h, o), Cmd("map", h, o), Cmd("nb", h, 1), Cmd("last", h, o)}
<1>1. /\ Plain(h, Found(h, o))
      /\ Range(Found(h, o))
            = IF <<h, o>> \in Hits
              THEN {Cmd("obj", h, o), Cmd("map", h, o), Cmd("nb", h, 1)} ELSE {}
  BY PlainTuples DEF Found
<1>2. /\ Plain(h, Saved(h, o, done))
      /\ Range(Saved(h, o, done)) = IF done = 0 THEN {Cmd("last", h, o)} ELSE {}
  BY PlainTuples DEF Saved
<1>3. \A a, b : Plain(h, a) /\ Plain(h, b) =>
         Plain(h, a \o b) /\ Range(a \o b) = Range(a) \cup Range(b)
  BY PlainJoin
<1>4. /\ Plain(h, Found(h, o) \o Saved(h, o, done))
      /\ Range(Found(h, o) \o Saved(h, o, done)) = Range(Found(h, o)) \cup Range(Saved(h, o, done))
  BY <1>1, <1>2, <1>3, Zenon
<1> HIDE DEF Cmd, Found, Saved
<1> QED
  BY <1>1, <1>2, <1>4

LEMMA AnalyseMoves ==
  ASSUME Controlled, Analyse
  PROVE  LET h == mod.hunt
             o == Min(mod.left)
             done == Advance(mod.done)
         IN  /\ h \in Hunts /\ o \in mod.left /\ mod.left \subseteq Obj
             /\ \A i \in mod.left : o <= i
             /\ UNCHANGED <<sets, stops>> /\ mod.pc = "scan" /\ todo[Module] = <<>>
             /\ \/ /\ Objs[o].content /\ Moved(h, Found(h, o) \o Saved(h, o, done))
                   /\ analysed' = [analysed EXCEPT ![h] = @ \cup {o}]
                   /\ Goes("check", mod.left \ {o}, o, done)
                \/ /\ ~Objs[o].content /\ Moved(h, <<>>) /\ analysed' = analysed
                   /\ Goes("scan", mod.left \ {o}, mod.obj, mod.done)
<1> DEFINE h == mod.hunt
           o == Min(mod.left)
           done == Advance(mod.done)
<1>1. /\ mod.pc = "scan" /\ todo[Module] = <<>> /\ mod.left # {}
      /\ UNCHANGED <<hash, index, flag, objs, hunts, rule, counts>>
  BY DEF Analyse, Ready
<1>2. TypeOK
  BY DEF Controlled
<1>3. h \in Hunts /\ state[h] # None /\ mod.left \subseteq Obj /\ mod.done \in 0 .. LastEvery - 1
  BY <1>1, AtWork
<1>4. o \in mod.left /\ o \in Obj /\ \A i \in mod.left : o <= i
  BY <1>1, <1>3, MinFacts
<1>5. done \in 0 .. LastEvery - 1
  <2>1. mod.done + 1 \in Nat /\ LastEvery \in Nat /\ LastEvery > 0
    BY <1>3, Assumption
  <2>2. \A a, b \in Nat : b > 0 => a % b \in 0 .. b - 1
    OBVIOUS
  <2> QED
    BY <2>1, <2>2 DEF Advance
<1>6. UNCHANGED <<sets, stops>> /\ mod.obj \in Obj \cup {None}
  BY <1>1, <1>2 DEF index, counts, TypeOK
<1>7. CASE Objs[o].content
  <2>1. /\ mod' = [mod EXCEPT !.left = @ \ {o}, !.obj = o, !.pc = "check", !.done = done]
        /\ analysed' = [analysed EXCEPT ![h] = @ \cup {o}]
        /\ todo' = [todo EXCEPT ![Module] = Found(h, o) \o Saved(h, o, done)]
    BY <1>7 DEF Analyse, ModuleSends, Found, Saved
  <2> HIDE DEF done, o
  <2>2. Goes("check", mod.left \ {o}, o, done)
    <3> DEFINE t == mod.left \ {o}
               b1 == [mod EXCEPT !.left = t]
               b2 == [b1 EXCEPT !.obj = o]
               b3 == [b2 EXCEPT !.pc = "check"]
               b4 == [b3 EXCEPT !.done = done]
    <3>1. mod' = b4
      BY <2>1
    <3>2. b1 = Place(mod.pc, mod.hunt, t, mod.obj, mod.done)
      BY <1>2, ModFields
    <3> HIDE DEF b1, t
    <3>3. b2 = Place(mod.pc, mod.hunt, t, o, mod.done)
      BY <3>2 DEF Place
    <3> HIDE DEF b2
    <3>4. b3 = Place("check", mod.hunt, t, o, mod.done)
      BY <3>3 DEF Place
    <3> HIDE DEF b3
    <3>5. b4 = Place("check", mod.hunt, t, o, done)
      BY <3>4 DEF Place
    <3> HIDE DEF b4
    <3> QED
      BY <3>1, <3>5 DEF Goes, t
  <2>3. Plain(h, Found(h, o) \o Saved(h, o, done))
    BY <1>3, <1>4, FoundPlain
  <2>4. /\ analysed' \in [Hunts -> SUBSET Obj]
        /\ \A g \in Hunts : state[g] = None => analysed'[g] = analysed[g]
    BY <1>2, <1>3, <1>4, <2>1 DEF TypeOK
  <2>5. Moved(h, Found(h, o) \o Saved(h, o, done))
    BY <1>1, <1>3, <1>4, <1>5, <2>1, <2>2, <2>3, <2>4, GoesMoves
  <2> QED
    BY <1>1, <1>3, <1>4, <1>6, <1>7, <2>1, <2>2, <2>5 DEF o, done
<1>8. CASE ~Objs[o].content
  <2>1. mod' = [mod EXCEPT !.left = @ \ {o}] /\ analysed' = analysed /\ todo' = todo
    BY <1>8 DEF Analyse
  <2> HIDE DEF done, o
  <2>2. Goes("scan", mod.left \ {o}, mod.obj, mod.done)
    BY <1>1, <1>2, <2>1, ModFields DEF Goes
  <2>3. Plain(h, <<>>) /\ todo' = [todo EXCEPT ![Module] = <<>>]
    BY <1>1, <1>2, <1>3, <2>1, PlainTuples, EmptyTodo
  <2>4. /\ analysed' \in [Hunts -> SUBSET Obj]
        /\ \A g \in Hunts : state[g] = None => analysed'[g] = analysed[g]
    BY <1>2, <2>1 DEF TypeOK
  <2>5. Moved(h, <<>>)
    BY <1>1, <1>3, <1>6, <2>2, <2>3, <2>4, GoesMoves
  <2> QED
    BY <1>1, <1>3, <1>4, <1>6, <1>8, <2>1, <2>2, <2>5 DEF o, done
<1> QED
  BY <1>7, <1>8

LEMMA IdleMoves ==
  ASSUME TypeOK, NEW h \in Hunts, state[h] # None, NEW s, Plain(h, s), mod' = Idle,
         todo' = [todo EXCEPT ![Module] = s],
         UNCHANGED <<hash, index, flag, objs, hunts, rule, analysed, counts>>
  PROVE  Moved(h, s)
<1>1. UNCHANGED <<state, last, nb, sets, listed, all, flag, objs, hunts, rule, analysed,
                  requests, stops>>
  BY DEF hash, index, counts
<1>2. mod' \in [pc : {"idle", "start", "scan", "check", "dead"}, hunt : Hunts \cup {None},
                left : SUBSET Obj, obj : Obj \cup {None}, done : 0 .. LastEvery - 1]
  <2>1. 0 \in 0 .. LastEvery - 1
    BY Assumption
  <2> QED
    BY <2>1 DEF Idle
<1>3. Placed'
  BY DEF Placed, Idle
<1> QED
  BY <1>1, <1>2, <1>3 DEF Moved, TypeOK, hash

\* The commands of the module when it sees the pause.
Saves(h, o) == <<Cmd("last", h, o)>> \o Pause(h)

LEMMA SavesPlain ==
  ASSUME NEW h \in Hunts, NEW o \in Obj
  PROVE  /\ Plain(h, Saves(h, o))
         /\ Range(Saves(h, o))
              = {Cmd("last", h, o), Cmd("sadd", h, "paused"), Cmd("state", h, "paused"),
                 Cmd("flag", h, TRUE), Cmd("flag", h, FALSE)}
<1>1. Plain(h, <<Cmd("last", h, o)>>) /\ Range(<<Cmd("last", h, o)>>) = {Cmd("last", h, o)}
  BY PlainTuples
<1>2. /\ Plain(h, Pause(h))
      /\ Range(Pause(h)) = {Cmd("sadd", h, "paused"), Cmd("state", h, "paused"),
                            Cmd("flag", h, TRUE), Cmd("flag", h, FALSE)}
  BY PlainPrograms
<1>3. \A a, b : Plain(h, a) /\ Plain(h, b) =>
         Plain(h, a \o b) /\ Range(a \o b) = Range(a) \cup Range(b)
  BY PlainJoin
<1>4. /\ Plain(h, Saves(h, o))
      /\ Range(Saves(h, o)) = Range(<<Cmd("last", h, o)>>) \cup Range(Pause(h))
  BY <1>1, <1>2, <1>3, Zenon DEF Saves
<1> HIDE DEF Cmd
<1> QED
  BY <1>1, <1>2, <1>4

LEMMA CheckMoves ==
  ASSUME Controlled, CheckPause
  PROVE  /\ mod.hunt \in Hunts /\ mod.obj \in Obj /\ mod.pc = "check" /\ todo[Module] = <<>>
         /\ UNCHANGED <<sets, analysed, stops>>
         /\ \/ mod' = Idle /\ Moved(mod.hunt, Saves(mod.hunt, mod.obj))
            \/ Goes("scan", mod.left, mod.obj, mod.done) /\ Moved(mod.hunt, <<>>)
<1>1. /\ mod.pc = "check" /\ todo[Module] = <<>>
      /\ UNCHANGED <<hash, index, flag, objs, hunts, rule, analysed, counts>>
  BY DEF CheckPause, Ready
<1>2. TypeOK
  BY DEF Controlled
<1>3. /\ mod.hunt \in Hunts /\ state[mod.hunt] # None /\ mod.obj \in Obj
      /\ mod.left \subseteq Obj /\ mod.done \in 0 .. LastEvery - 1
  BY <1>1, AtWork
<1>4. UNCHANGED <<sets, analysed, stops>> /\ analysed \in [Hunts -> SUBSET Obj]
  BY <1>1, <1>2 DEF index, counts, TypeOK
<1>5. CASE mod.hunt \in flag
  <2>1. mod' = Idle /\ todo' = [todo EXCEPT ![Module] = Saves(mod.hunt, mod.obj)]
    BY <1>5 DEF CheckPause, ModuleSends, Saves
  <2>2. Plain(mod.hunt, Saves(mod.hunt, mod.obj))
    BY <1>3, SavesPlain
  <2>3. Moved(mod.hunt, Saves(mod.hunt, mod.obj))
    BY <1>1, <1>2, <1>3, <2>1, <2>2, IdleMoves
  <2> QED
    BY <1>1, <1>3, <1>4, <2>1, <2>3
<1>6. CASE mod.hunt \notin flag
  <2>1. mod' = [mod EXCEPT !.pc = "scan"] /\ todo' = todo
    BY <1>6 DEF CheckPause
  <2>2. Goes("scan", mod.left, mod.obj, mod.done)
    BY <1>2, <2>1, ModFields DEF Goes
  <2>3. Plain(mod.hunt, <<>>) /\ todo' = [todo EXCEPT ![Module] = <<>>]
    BY <1>1, <1>2, <1>3, <2>1, PlainTuples, EmptyTodo
  <2>4. Moved(mod.hunt, <<>>)
    BY <1>1, <1>3, <1>4, <2>2, <2>3, GoesMoves
  <2> QED
    BY <1>1, <1>3, <1>4, <2>2, <2>4
<1> QED
  BY <1>5, <1>6

LEMMA CompletedMoves ==
  ASSUME Controlled, Completed
  PROVE  /\ mod.hunt \in Hunts /\ mod.pc = "scan" /\ mod.left = {} /\ mod' = Idle
         /\ todo[Module] = <<>>
         /\ UNCHANGED <<sets, analysed, stops>> /\ Moved(mod.hunt, Complete(mod.hunt))
<1>1. /\ mod.pc = "scan" /\ mod.left = {} /\ mod' = Idle /\ todo[Module] = <<>>
      /\ todo' = [todo EXCEPT ![Module] = Complete(mod.hunt)]
      /\ UNCHANGED <<hash, index, flag, objs, hunts, rule, analysed, counts>>
  BY DEF Completed, Ready, ModuleSends
<1>2. mod.hunt \in Hunts /\ state[mod.hunt] # None
  BY <1>1, AtWork
<1>3. Plain(mod.hunt, Complete(mod.hunt))
  BY <1>2, PlainPrograms
<1>4. Moved(mod.hunt, Complete(mod.hunt))
  BY <1>1, <1>2, <1>3, IdleMoves DEF Controlled
<1>5. UNCHANGED <<sets, analysed, stops>>
  BY <1>1 DEF index, counts
<1> QED
  BY <1>1, <1>2, <1>4, <1>5

LEMMA StopMoves ==
  ASSUME Controlled, Stop
  PROVE  Moved(None, <<>>) /\ UNCHANGED <<sets, analysed>> /\ mod' = Idle /\ stops' = stops + 1
<1>1. TypeOK
  BY DEF Controlled
<1>2. /\ mod' = Idle /\ stops' = stops + 1 /\ todo' = [todo EXCEPT ![Module] = <<>>]
      /\ UNCHANGED <<state, last, nb, sets, listed, all, flag, objs, hunts, rule, analysed,
                     requests>>
  BY DEF Stop, ModuleSends, hash, index
<1>3. mod' \in [pc : {"idle", "start", "scan", "check", "dead"}, hunt : Hunts \cup {None},
                left : SUBSET Obj, obj : Obj \cup {None}, done : 0 .. LastEvery - 1]
  <2>1. 0 \in 0 .. LastEvery - 1
    BY Assumption
  <2> QED
    BY <1>2, <2>1 DEF Idle
<1>4. Placed'
  BY <1>2 DEF Placed, Idle
<1> QED
  BY <1>1, <1>2, <1>3, <1>4 DEF Moved, TypeOK, hash

----------------------------------------------------------------------------
(***************************************************************************)
(* The steps: a command, a request, or a move of the module.               *)
(***************************************************************************)
Moves == \E h, s : Moved(h, s)

LEMMA NextSteps ==
  ASSUME Controlled, Next
  PROVE  \/ \E p \in Procs : Command(p)
         \/ \E u \in Users : Flask(u)
         \/ Pop \/ Start \/ Analyse \/ TimesOut \/ CheckPause \/ Completed \/ Stop
BY DEF Next, Works, Procs

LEMMA ModuleMoves ==
  ASSUME Controlled, Pop \/ Start \/ Analyse \/ TimesOut \/ CheckPause \/ Completed \/ Stop
  PROVE  Moves
<1>1. CASE Pop
  BY <1>1, PopMoves DEF Moves
<1>2. CASE Start
  BY <1>2, StartMoves DEF Moves
<1>3. CASE Analyse
  BY <1>3, AnalyseMoves DEF Moves
<1>4. CASE CheckPause
  BY <1>4, CheckMoves DEF Moves
<1>5. CASE Completed
  BY <1>5, CompletedMoves DEF Moves
<1>6. CASE Stop
  BY <1>6, StopMoves DEF Moves
<1>7. CASE TimesOut
  BY <1>7, TimesOutMoves DEF Moves
<1> QED
  BY <1>1, <1>2, <1>3, <1>4, <1>5, <1>6, <1>7

LEMMA StutterControlled ==
  ASSUME Controlled, UNCHANGED vars
  PROVE  Controlled'
<1>1. /\ state' = state /\ last' = last /\ nb' = nb /\ sets' = sets
      /\ listed' = listed /\ all' = all
      /\ flag' = flag /\ objs' = objs /\ hunts' = hunts /\ rule' = rule /\ analysed' = analysed
      /\ mod' = mod /\ todo' = todo /\ requests' = requests /\ stops' = stops
  BY DEF vars
<1>2. \A p : Commands(p)' = Commands(p)
  BY <1>1 DEF Commands
<1>3. TypeOK'
  BY <1>1 DEF Controlled, TypeOK
<1>4. Ordered' /\ Known' /\ Placed'
  BY <1>1, <1>2 DEF Controlled, Ordered, Known, Placed
<1> QED
  BY <1>3, <1>4 DEF Controlled

LEMMA StepControlled ==
  ASSUME Controlled, [Next]_vars
  PROVE  Controlled'
<1>1. CASE UNCHANGED vars
  BY <1>1, StutterControlled
<1>2. CASE \E p \in Procs : Command(p)
  BY <1>2, CommandControlled
<1>3. CASE \E u \in Users : Flask(u)
  BY <1>3, FlaskRequests, RequestControlled
<1>4. CASE Moves
  BY <1>4, MoveControlled DEF Moves
<1> QED
  BY <1>1, <1>2, <1>3, <1>4, NextSteps, ModuleMoves

----------------------------------------------------------------------------
(***************************************************************************)
(* What a hunt can miss.  A hunt that is taken up again after the object o *)
(* skips, of what was left, only items of an older day in a later source.  *)
(***************************************************************************)
LEMMA CutAfter ==
  ASSUME NEW h, NEW left, left \subseteq Obj, Missed(h, left), NEW o \in left,
         \A i \in left : o <= i, analysed[h] \cup {o} \subseteq analysed'[h]
  PROVE  Missed(h, Resumed(o))'
<1> SUFFICES ASSUME NEW x \in Full, x \notin analysed'[h], x \notin Resumed(o)
             PROVE  Cut(x)
  BY DEF Missed
<1>1. x \in Obj /\ o \in Obj /\ x # o
  BY DEF Full
<1>2. CASE x \notin left
  BY <1>2 DEF Missed
<1>3. CASE x \in left
  <2>1. /\ x \in Nat /\ o \in Nat
        /\ Objs[x].source \in Nat /\ Objs[x].day \in Nat
        /\ Objs[o].source \in Nat /\ Objs[o].day \in Nat
    BY <1>1, ObjFacts
  <2>2. o < x
    BY <1>1, <1>3, <2>1
  <2>3. o # None
    BY <1>1, Assumption
  <2>4. IsItem(o) /\ IsItem(x) /\ ~(Objs[x].day >= Objs[o].day)
    BY <1>1, <2>2, <2>3 DEF Resumed
  <2>5. Before(o, x)
    BY <1>1, <2>2, <2>4, Assumption
  <2>6. Objs[o].source < Objs[x].source /\ Objs[o].day > Objs[x].day
    BY <2>1, <2>4, <2>5 DEF Before
  <2> QED
    BY <1>1, <2>4, <2>6 DEF Cut
<1> QED
  BY <1>2, <1>3

\* What the last object and a state say of the hunt.
Says(c) == /\ c.op = "last" => Missed(c.hunt, Resumed(c.val))
           /\ c.op = "state" /\ c.val = "completed" => Missed(c.hunt, {})

LEMMA CommandProgress ==
  ASSUME Controlled, Progress, NEW p \in Procs, Command(p)
  PROVE  Progress'
<1>1. TypeOK /\ Ordered
  BY DEF Controlled
<1>2. PICK s : Follows(p, s) /\ todo' = [todo EXCEPT ![p] = s]
  BY <1>1, CommandFollows
<1>3. todo[p] # <<>> /\ analysed' = analysed /\ mod' = mod
  BY <1>1, CommandFollows, CommandTouches
<1>4. /\ Commands(p)' = Range(s)
      /\ \A q \in Procs \ {p} : Commands(q)' = Commands(q)
  <2>1. s \in Seq(Cmds)
    BY <1>2 DEF Follows
  <2> QED
    BY <1>1, <1>2, <2>1, SetTodo
<1>5. \A h, t : Missed(h, t)' <=> Missed(h, t)
  BY <1>3 DEF Missed
<1>6. \A q \in Procs : \A c \in Commands(q) : Says(c)
  BY DEF Progress, Says
<1>7. \A q \in Procs : \A c \in Commands(q)' : Says(c)
  <2> SUFFICES ASSUME NEW q \in Procs, NEW c \in Commands(q)'
               PROVE  Says(c)
    OBVIOUS
  <2>1. CASE q # p
    BY <1>4, <1>6, <2>1
  <2>2. CASE q = p
    <3>1. Stays(p, c)
      BY <1>2, <1>4, <2>2 DEF Follows
    <3> QED
      BY <1>6, <3>1 DEF Stays, Says
  <2> QED
    BY <2>1, <2>2
<1> DEFINE c == Head(todo[p])
<1>8. /\ c \in Commands(p) /\ c \in Cmds /\ c.hunt \in Hunts
      /\ c.hunt = On(p) /\ c.op = Op(p) /\ c.val = Val(p)
  BY <1>1, <1>3, HeadFacts DEF On, Op, Val
<1>9. Says(c)
  BY <1>6, <1>8
<1> HIDE DEF c
<1>10. ASSUME NEW h \in Hunts, state'[h] = "completed"
       PROVE  Missed(h, {})
  <2>1. CASE state'[h] = state[h]
    BY <1>10, <2>1 DEF Progress
  <2>2. CASE state'[h] # state[h]
    <3>1. HsetState(p)
      BY <2>2 DEF Command, HsetLast, SaddState, SaddLists, HsetPause, SaddMatch, SaddMap,
         HincrMatch, ReadMatches, RemoveMatches, RemoveRule, DeleteChecked, hash
    <3>2. h = c.hunt /\ c.val = "completed" /\ c.op \in {"state", "hash"}
      BY <1>1, <1>8, <1>10, <2>2, <3>1 DEF HsetState, TypeOK, Runs, Op
    <3>3. c.op # "hash"
      BY <1>8, <3>2, CmdTypes
    <3> QED
      BY <1>9, <3>2, <3>3 DEF Says
  <2> QED
    BY <2>1, <2>2
<1>11. ASSUME NEW h \in Hunts
       PROVE  Missed(h, Resumed(last'[h]))
  <2>1. CASE last'[h] = last[h]
    BY <2>1 DEF Progress
  <2>2. CASE last'[h] # last[h]
    <3>1. HsetLast(p)
      BY <2>2 DEF Command, HsetState, SaddState, SaddLists, HsetPause, SaddMatch, SaddMap,
         HincrMatch, ReadMatches, RemoveMatches, RemoveRule, DeleteChecked, hash
    <3>2. h = c.hunt /\ c.val = last'[h] /\ c.op = "last"
      BY <1>1, <1>8, <2>2, <3>1 DEF HsetLast, TypeOK, Runs, Op
    <3> QED
      BY <1>9, <3>2 DEF Says
  <2> QED
    BY <2>1, <2>2
<1> QED
  BY <1>3, <1>5, <1>7, <1>10, <1>11 DEF Progress, Says

LEMMA RequestProgress ==
  ASSUME Controlled, Progress, NEW u \in Users, NEW h \in Hunts, NEW s, Requested(u, h, s)
  PROVE  Progress'
<1>1. u \in Procs /\ TypeOK
  BY DEF Controlled, Procs
<1>2. /\ s \in Seq(Cmds) /\ todo' = [todo EXCEPT ![u] = s]
      /\ \A c \in Range(s) : c.op # "last" /\ (c.op = "state" => c.val # "completed")
  BY DEF Requested, Sends, UserOwn, UserOps
<1>3. /\ Commands(u)' = Range(s)
      /\ \A q \in Procs \ {u} : Commands(q)' = Commands(q)
  BY <1>1, <1>2, SetTodo
<1>4. UNCHANGED <<state, last, analysed, mod>>
  BY DEF Requested, hash
<1>5. \A g, t : Missed(g, t)' <=> Missed(g, t)
  BY <1>4 DEF Missed
<1>6. \A q \in Procs : \A c \in Commands(q)' : Says(c)
  <2> SUFFICES ASSUME NEW q \in Procs, NEW c \in Commands(q)'
               PROVE  Says(c)
    OBVIOUS
  <2>1. CASE q = u
    BY <1>2, <1>3, <2>1 DEF Says
  <2>2. CASE q # u
    BY <1>3, <2>2 DEF Progress, Says
  <2> QED
    BY <2>1, <2>2
<1> QED
  BY <1>4, <1>5, <1>6 DEF Progress, Says

\* Missed, after the step.
StillMissed(h, left) == \A o \in Full \ (analysed'[h] \cup left) : Cut(o)

LEMMA MoveProgress ==
  ASSUME Controlled, Progress, NEW h, NEW s, Moved(h, s),
         \A g \in Hunts : analysed[g] \subseteq analysed'[g],
         \A c \in Range(s) : /\ c.op = "last" => StillMissed(c.hunt, Resumed(c.val))
                             /\ c.op = "state" /\ c.val = "completed" => StillMissed(c.hunt, {}),
         mod'.pc \in {"scan", "check"} => StillMissed(mod'.hunt, mod'.left),
         mod'.pc = "check" => StillMissed(mod'.hunt, Resumed(mod'.obj))
  PROVE  Progress'
<1>1. TypeOK /\ Module \in Procs
  BY DEF Controlled, Procs
<1>2. /\ s \in Seq(Cmds) /\ todo' = [todo EXCEPT ![Module] = s]
  <2>1. CASE s = <<>>
    BY <2>1, Tuples DEF Moved
  <2>2. CASE Plain(h, s)
    BY <2>2 DEF Moved, Plain
  <2> QED
    BY <2>1, <2>2 DEF Moved
<1>3. /\ Commands(Module)' = Range(s)
      /\ \A q \in Procs \ {Module} : Commands(q)' = Commands(q)
  BY <1>1, <1>2, SetTodo
<1>4. UNCHANGED <<state, last>>
  BY DEF Moved, hash
<1>5. \A g \in Hunts : \A t : Missed(g, t) => StillMissed(g, t)
  BY DEF StillMissed, Missed
<1>6. ASSUME NEW q \in Procs, NEW c \in Commands(q)'
      PROVE  /\ c.op = "last" => StillMissed(c.hunt, Resumed(c.val))
             /\ c.op = "state" /\ c.val = "completed" => StillMissed(c.hunt, {})
  <2>1. CASE q = Module
    BY <1>3, <1>6, <2>1
  <2>2. CASE q # Module
    <3>1. c \in Commands(q)
      BY <1>3, <1>6, <2>2
    <3>2. c.hunt \in Hunts
      <4>1. todo[q] \in Seq(Cmds)
        BY <1>1 DEF TypeOK
      <4>2. c \in Cmds
        BY <3>1, <4>1, SeqFacts DEF Commands
      <4> QED
        BY <4>2, CmdTypes
    <3> QED
      BY <1>5, <3>1, <3>2 DEF Progress
  <2> QED
    BY <2>1, <2>2
<1>7. \A g \in Hunts : /\ state'[g] = "completed" => StillMissed(g, {})
                       /\ StillMissed(g, Resumed(last'[g]))
  BY <1>4, <1>5 DEF Progress
<1> QED
  BY <1>6, <1>7 DEF Progress, StillMissed, Missed

LEMMA ModuleProgress ==
  ASSUME Controlled, Progress, Pop \/ Start \/ Analyse \/ TimesOut \/ CheckPause \/ Completed \/ Stop
  PROVE  Progress'
<1>0. TypeOK
  BY DEF Controlled
<1>1. CASE Pop
  <2>1. PICK h \in sets["pending"] : /\ h \in Hunts /\ Moved(h, SetState(h, "running"))
                                     /\ analysed' = analysed /\ mod'.pc = "start"
    BY <1>1, PopMoves
  <2>2. Range(SetState(h, "running")) = {Cmd("sadd", h, "running"), Cmd("state", h, "running")}
    BY <2>1, PlainTuples DEF States
  <2>3. \A c \in Range(SetState(h, "running")) : c.op # "last" /\ c.val # "completed"
    BY <2>2, CmdFields
  <2> QED
    BY <2>1, <2>3, MoveProgress
<1>2. CASE Start
  <2>1. /\ Moved(mod.hunt, <<>>) /\ analysed' = analysed
        /\ mod'.pc = "dead" \/ Goes("scan", Resumed(last[mod.hunt]), mod.obj, mod.done)
    BY <1>2, StartMoves
  <2>2. Missed(mod.hunt, Resumed(last[mod.hunt]))
    BY <1>2, AtWork DEF Start, Ready, Progress
  <2>3. mod'.pc # "dead" =>
           /\ mod'.pc = "scan" /\ mod'.hunt = mod.hunt /\ mod'.left = Resumed(last[mod.hunt])
    BY <2>1 DEF Goes, Place
  <2>4. mod'.pc # "dead" => StillMissed(mod'.hunt, mod'.left)
    BY <2>1, <2>2, <2>3 DEF StillMissed, Missed
  <2>5. mod'.pc # "check"
    BY <2>3
  <2> QED
    BY <2>1, <2>4, <2>5, Tuples, MoveProgress
<1>3. CASE Analyse
  <2> DEFINE h == mod.hunt
             o == Min(mod.left)
             done == Advance(mod.done)
             s == Found(h, o) \o Saved(h, o, done)
  <2>1. /\ h \in Hunts /\ o \in mod.left /\ mod.left \subseteq Obj
             /\ \A i \in mod.left : o <= i
        /\ mod.pc = "scan"
    BY <1>3, AnalyseMoves
  <2>2. \/ /\ Objs[o].content /\ Moved(h, s)
           /\ analysed' = [analysed EXCEPT ![h] = @ \cup {o}]
           /\ Goes("check", mod.left \ {o}, o, done)
        \/ /\ ~Objs[o].content /\ Moved(h, <<>>) /\ analysed' = analysed
           /\ Goes("scan", mod.left \ {o}, mod.obj, mod.done)
    BY <1>3, AnalyseMoves
  <2>3. Missed(h, mod.left)
    BY <2>1 DEF Progress
  <2>4. o \in Obj
    BY <2>1
  <2>5. Range(s) \subseteq {Cmd("obj", h, o), Cmd("map", h, o), Cmd("nb", h, 1), Cmd("last", h, o)}
    <3> HIDE DEF o, done
    <3> QED
      BY <2>1, <2>4, FoundPlain, Zenon
  <2> HIDE DEF o, done, s
  <2>6. CASE Objs[o].content
    <3>1. /\ Moved(h, s) /\ analysed' = [analysed EXCEPT ![h] = @ \cup {o}]
          /\ Goes("check", mod.left \ {o}, o, done)
      BY <2>2, <2>6
    <3>2. /\ \A g \in Hunts : analysed[g] \subseteq analysed'[g]
          /\ analysed'[h] = analysed[h] \cup {o}
      <4>1. analysed \in [Hunts -> SUBSET Obj]
        BY <1>0 DEF TypeOK
      <4>2. analysed' = [analysed EXCEPT ![h] = @ \cup {o}]
        BY <3>1
      <4> HIDE DEF h
      <4> QED
        BY <2>1, <4>1, <4>2
    <3>3. StillMissed(h, Resumed(o))
      BY <2>1, <2>3, <3>2, CutAfter DEF StillMissed, Missed
    <3>4. StillMissed(h, mod.left \ {o})
      <4> DEFINE t == mod.left \ {o}
      <4>1. \A x \in Full \ (analysed'[h] \cup t) : Cut(x)
        BY <2>3, <3>2 DEF StillMissed, Missed
      <4> HIDE DEF t
      <4>2. mod'.hunt = h /\ mod'.left = t
        BY <3>1 DEF Goes, Place, t
      <4>3. \A x \in Full \ (analysed'[h] \cup mod'.left) : Cut(x)
        BY <4>1, <4>2
      <4> QED
        BY <4>1 DEF StillMissed, Missed, t
    <3>5. /\ mod'.pc = "check" /\ mod'.hunt = h /\ mod'.left = mod.left \ {o} /\ mod'.obj = o
      BY <3>1 DEF Goes, Place
    <3>6. \A c \in Range(s) : /\ c.op = "last" => c.hunt = h /\ c.val = o
                              /\ c.op # "state"
      BY <2>5 DEF Cmd
    <3>7. StillMissed(mod'.hunt, mod'.left) /\ StillMissed(mod'.hunt, Resumed(mod'.obj))
      BY <3>3, <3>4, <3>5
    <3> QED
      BY <3>1, <3>2, <3>3, <3>6, <3>7, MoveProgress
  <2>7. CASE ~Objs[o].content
    <3>1. /\ Moved(h, <<>>) /\ analysed' = analysed
          /\ Goes("scan", mod.left \ {o}, mod.obj, mod.done)
      BY <2>2, <2>7
    <3>2. mod'.pc = "scan" /\ mod'.hunt = h /\ mod'.left = mod.left \ {o}
      BY <3>1 DEF Goes, Place
    <3>3. StillMissed(mod'.hunt, mod'.left)
      BY <2>3, <2>7, <3>1, <3>2 DEF StillMissed, Missed, Full
    <3> QED
      BY <3>1, <3>2, <3>3, Tuples, MoveProgress
  <2> QED
    BY <2>6, <2>7
<1>4. CASE CheckPause
  <2>1. /\ mod.hunt \in Hunts /\ mod.obj \in Obj /\ mod.pc = "check" /\ analysed' = analysed
        /\ \/ mod' = Idle /\ Moved(mod.hunt, Saves(mod.hunt, mod.obj))
           \/ Goes("scan", mod.left, mod.obj, mod.done) /\ Moved(mod.hunt, <<>>)
    BY <1>4, CheckMoves
  <2>2. Missed(mod.hunt, mod.left) /\ Missed(mod.hunt, Resumed(mod.obj))
    BY <2>1 DEF Progress
  <2>3. CASE mod' = Idle /\ Moved(mod.hunt, Saves(mod.hunt, mod.obj))
    <3> DEFINE s == Saves(mod.hunt, mod.obj)
    <3>1. Range(s) = {Cmd("last", mod.hunt, mod.obj), Cmd("sadd", mod.hunt, "paused"),
                      Cmd("state", mod.hunt, "paused"), Cmd("flag", mod.hunt, TRUE),
                      Cmd("flag", mod.hunt, FALSE)}
      BY <2>1, SavesPlain
    <3> HIDE DEF s
    <3>2. \A c \in Range(s) : /\ c.op = "last" => c.hunt = mod.hunt /\ c.val = mod.obj
                              /\ c.op = "state" => c.val # "completed"
      BY <3>1 DEF Cmd
    <3>3. Missed(mod.hunt, Resumed(mod.obj)) /\ mod'.pc = "idle"
      BY <2>2, <2>3 DEF Idle
    <3>4. \A c \in Range(s) : c.op = "last" => StillMissed(c.hunt, Resumed(c.val))
      BY <2>1, <3>2, <3>3 DEF StillMissed, Missed
    <3>5. Moved(mod.hunt, s)
      BY <2>3 DEF s
    <3> QED
      BY <2>1, <3>2, <3>3, <3>4, <3>5, MoveProgress
  <2>4. CASE Goes("scan", mod.left, mod.obj, mod.done) /\ Moved(mod.hunt, <<>>)
    <3>1. mod'.pc = "scan" /\ mod'.hunt = mod.hunt /\ mod'.left = mod.left
      BY <2>4 DEF Goes, Place
    <3>2. StillMissed(mod'.hunt, mod'.left)
      BY <2>1, <2>2, <3>1 DEF StillMissed, Missed
    <3> QED
      BY <2>1, <2>4, <3>1, <3>2, Tuples, MoveProgress
  <2> QED
    BY <2>1, <2>3, <2>4
<1>5. CASE Completed
  <2> DEFINE s == Complete(mod.hunt)
  <2>1. /\ mod.hunt \in Hunts /\ mod.pc = "scan" /\ mod.left = {} /\ mod' = Idle
        /\ analysed' = analysed /\ Moved(mod.hunt, s)
    BY <1>5, CompletedMoves
  <2>2. Range(s) = {Cmd("sadd", mod.hunt, "completed"), Cmd("state", mod.hunt, "completed"),
                    Cmd("flag", mod.hunt, FALSE), Cmd("last", mod.hunt, None)}
    BY <2>1, PlainPrograms
  <2> HIDE DEF s
  <2>3. \A c \in Range(s) : /\ c.op = "last" => c.val = None
                            /\ c.op = "state" => c.hunt = mod.hunt
    BY <2>2 DEF Cmd
  <2>4. StillMissed(mod.hunt, {}) /\ mod'.pc = "idle"
    BY <2>1 DEF Progress, StillMissed, Missed, Idle
  <2>5. \A g : StillMissed(g, Resumed(None))
    BY ResumedFacts DEF StillMissed, Missed, Full
  <2>6. \A c \in Range(s) : /\ c.op = "last" => StillMissed(c.hunt, Resumed(c.val))
                            /\ c.op = "state" => StillMissed(c.hunt, {})
    BY <2>3, <2>4, <2>5
  <2> QED
    BY <2>1, <2>4, <2>6, MoveProgress
<1>6. CASE Stop
  <2>1. Moved(None, <<>>) /\ analysed' = analysed /\ mod' = Idle
    BY <1>6, StopMoves
  <2>2. mod'.pc = "idle"
    BY <2>1 DEF Idle
  <2> QED
    BY <2>1, <2>2, Tuples, MoveProgress
<1>7. CASE TimesOut
  BY <1>7, TimesOutMoves, Tuples, MoveProgress
<1> QED
  BY <1>1, <1>2, <1>3, <1>4, <1>5, <1>6, <1>7

LEMMA InitProgress == Init => Progress
<1> SUFFICES ASSUME Init  PROVE Progress
  OBVIOUS
<1>1. \A p \in Procs : Commands(p) = {}
  BY Tuples DEF Init, Commands
<1>2. \A h \in Hunts : state[h] # "completed" /\ Resumed(last[h]) = Obj
  BY Assumption, ResumedFacts DEF Init, States
<1>3. \A h \in Hunts : Missed(h, Obj)
  BY DEF Missed, Full
<1>4. mod.pc = "idle"
  BY DEF Init, Idle
<1> QED
  BY <1>1, <1>2, <1>3, <1>4 DEF Progress

LEMMA StepProgress ==
  ASSUME Controlled, Progress, [Next]_vars
  PROVE  Progress'
<1>1. CASE UNCHANGED vars
  <2>1. /\ UNCHANGED <<state, last, analysed, mod>> /\ \A p : Commands(p)' = Commands(p)
    BY <1>1 DEF vars, Commands
  <2>2. \A h, t : Missed(h, t)' <=> Missed(h, t)
    BY <2>1 DEF Missed
  <2> QED
    BY <2>1, <2>2 DEF Progress
<1>2. CASE \E p \in Procs : Command(p)
  BY <1>2, CommandProgress
<1>3. CASE \E u \in Users : Flask(u)
  BY <1>3, FlaskRequests, RequestProgress
<1>4. CASE Pop \/ Start \/ Analyse \/ TimesOut \/ CheckPause \/ Completed \/ Stop
  BY <1>4, ModuleProgress
<1> QED
  BY <1>1, <1>2, <1>3, <1>4, NextSteps

\* A module that is dead stays where it died: no one else writes the last object of its hunt,
\* and a rule that is gone is not written again.
LEMMA StepStops ==
  ASSUME Controlled, ModuleStops, [Next]_vars
  PROVE  ModuleStops'
<1> SUFFICES ASSUME mod'.pc = "dead"
             PROVE  \/ mod'.hunt \notin rule'
                    \/ last'[mod'.hunt] # None /\ Objs[last'[mod'.hunt]].type = "decoded"
                    \/ mod'.left # {} /\ Objs[Min(mod'.left)].content
  BY DEF ModuleStops
<1>0. TypeOK /\ Ordered /\ Known /\ Placed
  BY DEF Controlled
<1>1. CASE UNCHANGED vars
  BY <1>1 DEF vars, ModuleStops
<1>2. CASE \E p \in Procs : Command(p)
  <2>1. PICK p \in Procs : Command(p)
    BY <1>2
  <2>2. mod' = mod /\ todo[p] # <<>>
    BY <1>0, <2>1, CommandTouches, CommandFollows
  <2>3. p # Module
    BY <1>0, <2>2 DEF Placed
  <2>4. Head(todo[p]) \in Commands(p) /\ Head(todo[p]).op = Op(p)
    BY <1>0, <2>2, HeadFacts DEF Op
  <2>5. Op(p) # "last"
    BY <1>0, <2>3, <2>4 DEF Ordered, Own, UserOps
  <2>6. last' = last /\ rule' \subseteq rule
    BY <2>1, <2>5 DEF Command, HsetState, HsetLast, SaddState, SaddLists, HsetPause, SaddMatch,
         SaddMap, HincrMatch, ReadMatches, RemoveMatches, RemoveRule, DeleteChecked, hash, Runs, Op
  <2> QED
    BY <2>2, <2>6 DEF ModuleStops
<1>3. CASE \E u \in Users : Flask(u)
  <2>1. PICK u \in Users, h \in Hunts : \E s : Requested(u, h, s)
    BY <1>3, FlaskRequests
  <2>2. /\ UNCHANGED <<mod, last, state>>
        /\ rule' = rule \/ (rule' = rule \cup {h} /\ state[h] = None)
    BY <2>1 DEF Requested, hash
  <2>3. state[mod.hunt] # None
    BY <1>0, <2>2 DEF Placed
  <2> QED
    BY <2>2, <2>3 DEF ModuleStops
<1>4. CASE Start
  <2>1. Moved(mod.hunt, <<>>)
    BY <1>4, StartMoves
  <2>2. UNCHANGED <<last, rule>>
    BY <2>1 DEF Moved, hash
  <2>3. \/ /\ mod'.hunt = mod.hunt
           /\ \/ mod.hunt \notin rule
              \/ last[mod.hunt] # None /\ Objs[last[mod.hunt]].type = "decoded"
        \/ Goes("scan", Resumed(last[mod.hunt]), mod.obj, mod.done)
    BY <1>4, StartMoves
  <2>4. ~Goes("scan", Resumed(last[mod.hunt]), mod.obj, mod.done)
    BY DEF Goes, Place
  <2> QED
    BY <2>2, <2>3, <2>4
<1>5. CASE Pop \/ Analyse \/ CheckPause \/ Completed \/ Stop
  <2>1. mod'.pc # "dead"
    <3>1. Pop => mod'.pc = "start"
      BY PopMoves
    <3>2. Analyse => mod'.pc \in {"scan", "check"}
      BY AnalyseMoves DEF Goes, Place
    <3>3. CheckPause => mod'.pc \in {"scan", "idle"}
      BY CheckMoves DEF Goes, Place, Idle
    <3>4. Completed => mod'.pc = "idle"
      BY CompletedMoves DEF Idle
    <3>5. Stop => mod'.pc = "idle"
      BY StopMoves DEF Idle
    <3> QED
      BY <1>5, <3>1, <3>2, <3>3, <3>4, <3>5
  <2> QED
    BY <2>1
<1>6. CASE TimesOut
  BY <1>6, TimesOutMoves
<1> QED
  BY <1>1, <1>2, <1>3, <1>4, <1>5, <1>6, NextSteps

----------------------------------------------------------------------------
(***************************************************************************)
(* The theorems that hold whatever the users do.                           *)
(***************************************************************************)
\* The types, and with them that every list of commands is about one hunt, that has its hash.
THEOREM TypeCorrect == Spec => [](TypeOK /\ Ordered /\ Known /\ Placed)
<1>1. Init => Controlled
  BY InitControlled
<1>2. Controlled /\ [Next]_vars => Controlled'
  BY StepControlled
<1> QED
  BY <1>1, <1>2, PTL DEF Spec, Controlled

\* The module ends at a rule that is gone, at a decoded object as the last one of its hunt, or
\* at an object on which the match took too long, and nowhere else.
THEOREM StopsCorrect == Spec => []ModuleStops
<1>1. Init => Controlled
  BY InitControlled
<1>2. Controlled /\ [Next]_vars => Controlled'
  BY StepControlled
<1>3. Init => ModuleStops
  BY DEF Init, ModuleStops, Idle
<1>4. Controlled /\ ModuleStops /\ [Next]_vars => ModuleStops'
  BY StepStops
<1> QED
  BY <1>1, <1>2, <1>3, <1>4, PTL DEF Spec

\* A hunt that is completed has analysed all the objects but items of an older day in a later
\* source: pauses, stops and the delayed write of the last object lose nothing else.
THEOREM CompletedCorrect == Spec => []CompletedButCut
<1>1. Init => Controlled
  BY InitControlled
<1>2. Controlled /\ [Next]_vars => Controlled'
  BY StepControlled
<1>3. Init => Progress
  BY InitProgress
<1>4. Controlled /\ Progress /\ [Next]_vars => Progress'
  BY StepProgress
<1>5. Progress => CompletedButCut
  BY DEF Progress, Missed, CompletedButCut
<1> QED
  BY <1>1, <1>2, <1>3, <1>4, <1>5, PTL DEF Spec

----------------------------------------------------------------------------
(***************************************************************************)
(* Under NoEarlyDelete: hunts that are gone stay so, and a deletion ends   *)
(* with its hunt gone.                                                     *)
(***************************************************************************)
LEMMA CommandFrame ==
  ASSUME Controlled, NEW p \in Procs, Command(p)
  PROVE  /\ todo[p] # <<>> /\ Head(todo[p]) \in Commands(p) /\ Head(todo[p]) \in Cmds
         /\ Head(todo[p]) = todo[p][1]
         /\ Head(todo[p]).hunt = On(p) /\ Head(todo[p]).op = Op(p) /\ Head(todo[p]).val = Val(p)
         /\ On(p) \in Hunts /\ state'[On(p)] # None /\ \A c \in Commands(p) : c.hunt = On(p)
         /\ Follows(p, todo'[p]) /\ Commands(p)' = Range(todo'[p])
         /\ \A q \in Procs \ {p} : todo'[q] = todo[q] /\ Commands(q)' = Commands(q)
         /\ Touches(On(p)) /\ UNCHANGED <<analysed, mod, stops>>
<1>1. TypeOK /\ Ordered
  BY DEF Controlled
<1>2. PICK s : Follows(p, s) /\ todo' = [todo EXCEPT ![p] = s]
  BY <1>1, CommandFollows
<1>3. /\ todo'[p] = s /\ Commands(p)' = Range(s)
      /\ \A q \in Procs \ {p} : todo'[q] = todo[q] /\ Commands(q)' = Commands(q)
  <2>1. s \in Seq(Cmds)
    BY <1>2 DEF Follows
  <2> QED
    BY <1>1, <1>2, <2>1, SetTodo
<1>4. todo[p] # <<>>
  BY <1>1, CommandFollows
<1>5. /\ Head(todo[p]) \in Commands(p) /\ Head(todo[p]) \in Cmds /\ Head(todo[p]) = todo[p][1]
      /\ Head(todo[p]).hunt = On(p) /\ Head(todo[p]).op = Op(p) /\ Head(todo[p]).val = Val(p)
  BY <1>1, <1>4, HeadFacts DEF On, Op, Val
<1>6. \A c \in Commands(p) : c.hunt = On(p)
  BY <1>1, <1>4, SameHunt
<1>7. On(p) \in Hunts /\ state'[On(p)] # None
  BY CommandHash
<1>8. Touches(On(p)) /\ UNCHANGED <<analysed, mod, stops>>
  BY <1>1, CommandTouches DEF counts
<1> QED
  BY <1>2, <1>3, <1>4, <1>5, <1>6, <1>7, <1>8

LEMMA RequestFrame ==
  ASSUME Controlled, NEW u \in Users, NEW h \in Hunts, NEW s, Requested(u, h, s)
  PROVE  /\ u \in Procs /\ u # Module /\ Commands(u) = {} /\ Commands(u)' = Range(s) /\ todo'[u] = s
         /\ s \in Seq(Cmds) /\ Fresh(s)
         /\ \A c \in Range(s) : /\ c.hunt = h
                                /\ c.op = "delete" => ApiDelete(u, h) /\ state[h] # None
                                /\ c # Unlists(h)
                                /\ c = Lists(h) => state[h] = None
         /\ \A q \in Procs \ {u} : todo'[q] = todo[q] /\ Commands(q)' = Commands(q)
         /\ UNCHANGED <<state, nb, sets, all, objs, hunts, analysed, mod, stops>>
         /\ rule \subseteq rule'
<1>1. u \in Procs /\ u # Module /\ TypeOK
  BY Assumption DEF Controlled, Procs
<1>2. s \in Seq(Cmds) /\ Fresh(s) /\ \A c \in Range(s) : c.hunt = h
  BY DEF Requested, Sends
<1>3. /\ todo'[u] = s /\ Commands(u)' = Range(s)
      /\ \A q \in Procs \ {u} : todo'[q] = todo[q] /\ Commands(q)' = Commands(q)
  BY <1>1, <1>2, SetTodo DEF Requested
<1>4. Commands(u) = {}
  BY Tuples DEF Requested, Commands
<1>5. UNCHANGED <<state, nb, sets, all, objs, hunts, analysed, mod, stops>> /\ rule \subseteq rule'
  BY DEF Requested, hash, index
<1>6. \A c \in Range(s) : /\ c.op = "delete" => ApiDelete(u, h) /\ state[h] # None
                          /\ c # Unlists(h)
                          /\ c = Lists(h) => state[h] = None
  BY DEF Requested, ApiDelete
<1> QED
  BY <1>1, <1>2, <1>3, <1>4, <1>5, <1>6

LEMMA MoveFrame ==
  ASSUME Controlled, NEW h, NEW s, Moved(h, s)
  PROVE  /\ Module \in Procs /\ Commands(Module)' = Range(s) /\ todo'[Module] = s
         /\ s \in Seq(Cmds) /\ Fresh(s)
         /\ \A c \in Range(s) : c.hunt = h /\ c.op \notin {"all", "hash", "delete", "rule"}
         /\ \A q \in Procs \ {Module} : todo'[q] = todo[q] /\ Commands(q)' = Commands(q)
         /\ UNCHANGED <<state, nb, all, objs, hunts, rule>>
<1>1. Module \in Procs /\ TypeOK
  BY DEF Controlled, Procs
<1>2. /\ s \in Seq(Cmds) /\ Fresh(s)
      /\ \A c \in Range(s) : c.hunt = h /\ c.op \notin {"all", "hash", "delete", "rule"}
  <2>1. CASE h \in Hunts /\ Plain(h, s)
    BY <2>1, PlainSays
  <2>2. CASE s = <<>>
    BY <2>2, Tuples DEF Fresh
  <2> QED
    BY <2>1, <2>2 DEF Moved
<1>3. /\ todo'[Module] = s /\ Commands(Module)' = Range(s)
      /\ \A q \in Procs \ {Module} : todo'[q] = todo[q] /\ Commands(q)' = Commands(q)
  BY <1>1, <1>2, SetTodo DEF Moved
<1>4. UNCHANGED <<state, nb, all, objs, hunts, rule>>
  BY DEF Moved, hash
<1> QED
  BY <1>1, <1>2, <1>3, <1>4

LEMMA ListsFields ==
  ASSUME NEW h
  PROVE  /\ Lists(h).op = "all" /\ Lists(h).hunt = h /\ Unlists(h).op = "all" /\ Unlists(h).hunt = h
         /\ Lists(h) # Unlists(h)
BY DEF Lists, Unlists, Cmd

\* No step but a request for a hunt without a hash starts to list it.
LEMMA NoNewLists ==
  ASSUME Controlled, [Next]_vars, NEW h \in Hunts, state[h] # None
  PROVE  state'[h] # None /\ (Creating(h)' => Creating(h))
<1>1. CASE UNCHANGED vars
  BY <1>1 DEF vars, Creating, Commands
<1>2. CASE \E p \in Procs : Command(p)
  <2>1. PICK p \in Procs : Command(p)
    BY <1>2
  <2>2. state'[h] # None
    BY <2>1, CommandFrame DEF Touches, Same
  <2>3. ASSUME NEW q \in Procs, Lists(h) \in Commands(q)'
        PROVE  Creating(h)
    <3>1. CASE q # p
      BY <2>1, <2>3, <3>1, CommandFrame DEF Creating
    <3>2. CASE q = p
      <4>1. Stays(p, Lists(h))
        BY <2>1, <2>3, <3>2, CommandFrame DEF Follows
      <4>2. Lists(h) \in Commands(p)
        BY <4>1, ListsFields DEF Stays
      <4> QED
        BY <4>2 DEF Creating
    <3> QED
      BY <3>1, <3>2
  <2> QED
    BY <2>2, <2>3 DEF Creating
<1>3. CASE \E u \in Users : Flask(u)
  <2>1. PICK u \in Users, g \in Hunts : \E s : Requested(u, g, s)
    BY <1>3, FlaskRequests
  <2>2. PICK s : Requested(u, g, s)
    BY <2>1
  <2>3. /\ state' = state /\ Commands(u)' = Range(s)
        /\ \A c \in Range(s) : c.hunt = g /\ (c = Lists(g) => state[g] = None)
        /\ \A q \in Procs \ {u} : Commands(q)' = Commands(q)
    BY <2>2, RequestFrame
  <2>4. Lists(h) \notin Range(s)
    BY <2>3, ListsFields
  <2> QED
    BY <2>3, <2>4 DEF Creating
<1>4. CASE Moves
  <2>1. PICK g, s : Moved(g, s)
    BY <1>4 DEF Moves
  <2>2. /\ state' = state /\ Commands(Module)' = Range(s)
        /\ \A c \in Range(s) : c.op # "all"
        /\ \A q \in Procs \ {Module} : Commands(q)' = Commands(q)
    BY <2>1, MoveFrame
  <2>3. Lists(h) \notin Range(s)
    BY <2>2, ListsFields
  <2> QED
    BY <2>2, <2>3 DEF Creating
<1> QED
  BY <1>1, <1>2, <1>3, <1>4, NextSteps, ModuleMoves

\* A hunt enters the list of all hunts by the command of its creation.
LEMMA NewInAll ==
  ASSUME Controlled, [Next]_vars, NEW h \in Hunts, h \in all', h \notin all
  PROVE  Creating(h)
<1>1. CASE UNCHANGED vars
  BY <1>1 DEF vars
<1>2. CASE \E p \in Procs : Command(p)
  <2>1. PICK p \in Procs : Command(p)
    BY <1>2
  <2>2. SaddLists(p)
    BY <2>1 DEF Command, HsetState, HsetLast, SaddState, HsetPause, SaddMatch,
         SaddMap, HincrMatch, ReadMatches, RemoveMatches, RemoveRule, DeleteChecked, index
  <2>3. Op(p) = "all" /\ Val(p) # FALSE /\ h = On(p)
    BY <2>2 DEF SaddLists, Set
  <2>4. /\ Head(todo[p]) \in Commands(p) /\ Head(todo[p]) \in Cmds
        /\ Head(todo[p]).hunt = h /\ Head(todo[p]).op = "all" /\ Head(todo[p]).val = Val(p)
    BY <2>1, <2>3, CommandFrame
  <2>5. Val(p) \in BOOLEAN /\ Head(todo[p]) = Cmd("all", h, Val(p))
    BY <2>4, CmdTypes
  <2>6. Val(p) = TRUE
    BY <2>3, <2>5
  <2> QED
    BY <2>4, <2>5, <2>6 DEF Creating, Lists
<1>3. CASE \E u \in Users : Flask(u)
  BY <1>3, FlaskRequests, RequestFrame
<1>4. CASE Moves
  BY <1>4, MoveFrame DEF Moves
<1> QED
  BY <1>1, <1>2, <1>3, <1>4, NextSteps, ModuleMoves

LEMMA GoneStays ==
  ASSUME Controlled, [Next]_vars, NEW h \in Hunts, Gone(h)
  PROVE  Gone(h)'
<1>1. state[h] # None /\ h \notin all /\ ~Creating(h)
  BY DEF Gone
<1>2. state'[h] # None /\ ~Creating(h)'
  BY <1>1, NoNewLists
<1>3. h \notin all'
  BY <1>1, NewInAll
<1> QED
  BY <1>2, <1>3 DEF Gone

\* A deletion that is under way, or that is checked again before it begins.
Deletes(c) == c = Unlists(c.hunt) \/ c.op = "delete"

LEMMA StillDeletes ==
  ASSUME Controlled, NEW p \in Procs, Command(p), NEW c \in Commands(p)', Deletes(c)
  PROVE  c.hunt = On(p) /\ \E d \in Commands(p) : d.hunt = On(p) /\ Deletes(d)
<1>1. Stays(p, c) /\ c.hunt = On(p)
  BY CommandFrame DEF Follows
<1>2. CASE c \in Commands(p)
  BY <1>1, <1>2
<1>3. CASE c \notin Commands(p)
  <2>1. c.op # "delete" /\ (Loop(c) \/ Op(p) = "delete")
    BY <1>1, <1>3 DEF Stays
  <2>2. c.op = "all"
    BY <2>1, ListsFields DEF Deletes
  <2>3. Op(p) = "delete"
    BY <2>1, <2>2 DEF Loop
  <2> QED
    BY <1>1, <2>3, CommandFrame DEF Deletes
<1> QED
  BY <1>2, <1>3

\* The command that ends a deletion.
LEMMA Unlisted ==
  ASSUME Controlled, NEW p \in Procs, Command(p), NEW h \in Hunts, Head(todo[p]) = Unlists(h)
  PROVE  h \notin all'
<1>1. On(p) = h /\ Op(p) = "all" /\ Val(p) = FALSE
  BY CommandFrame DEF Unlists, Cmd
<1>2. SaddLists(p)
  BY <1>1 DEF Command, HsetState, HsetLast, SaddState, HsetPause, SaddMatch,
       SaddMap, HincrMatch, ReadMatches, RemoveMatches, RemoveRule, DeleteChecked, Runs, Op
<1> QED
  BY <1>1, <1>2 DEF SaddLists, Set

LEMMA CommandStep ==
  ASSUME NEW p \in Procs, Command(p)
  PROVE  [Next]_vars
BY DEF Procs, Next, Works

LEMMA CommandDeletions ==
  ASSUME Controlled, Deletions, NEW p \in Procs, Command(p)
  PROVE  Deletions'
<1>1. [Next]_vars
  BY CommandStep
<1>2. ASSUME NEW q \in Procs, NEW c \in Commands(q)', Deletes(c)
      PROVE  state'[c.hunt] # None /\ ~Creating(c.hunt)'
  <2>1. \E d \in Commands(q) : d.hunt = c.hunt /\ Deletes(d)
    BY <1>2, StillDeletes, CommandFrame
  <2>2. PICK d \in Commands(q) : d.hunt = c.hunt /\ Deletes(d)
    BY <2>1
  <2>3. state[c.hunt] # None /\ ~Creating(c.hunt)
    BY <2>2 DEF Deletions, Deletes
  <2>4. c.hunt \in Hunts
    <3>1. todo[q] # <<>>
      BY Tuples DEF Commands
    <3>2. d.hunt = On(q) /\ On(q) \in Hunts
      BY <3>1, SameHunt, HeadFacts DEF Controlled
    <3> QED
      BY <2>2, <3>2
  <2> QED
    BY <1>1, <2>3, <2>4, NoNewLists
<1>3. ASSUME NEW h \in Hunts, h \notin rule', state'[h] # None
      PROVE  \/ Gone(h)'
             \/ \E q \in Procs : /\ Unlists(h) \in Commands(q)'
                                 /\ \A c \in Commands(q)' : c.op # "rule"
  <2>1. CASE h \in rule
    <3>1. h = On(p)
      BY <1>3, <2>1, CommandFrame DEF Touches, Same
    <3>2. RemoveRule(p)
      BY <1>3, <2>1 DEF Command, HsetState, HsetLast, SaddState, SaddLists, HsetPause, SaddMatch,
           SaddMap, HincrMatch, ReadMatches, RemoveMatches, DeleteChecked
    <3>3. todo[p] # <<>> /\ Op(p) = "rule" /\ todo' = [todo EXCEPT ![p] = Tail(todo[p])]
      BY <2>1, <3>1, <3>2 DEF RemoveRule, Runs, Op
    <3>4. /\ todo[p] \in Seq(Cmds) /\ 1 \in DOMAIN todo[p] /\ todo[p][1].op = "rule"
          /\ todo[p][1].hunt = h /\ ListOK(todo[p])
      BY <3>1, <3>3, HeadFacts DEF Controlled, Ordered
    <3>5. /\ \A i \in DOMAIN todo[p] : todo[p][i].op = "rule" => i = 1
          /\ \E j \in DOMAIN todo[p] : j > 1 /\ todo[p][j] = Unlists(h)
      BY <3>4 DEF ListOK, OneRule, RemovesFirst, Removes
    <3>6. Commands(p)' = Range(Tail(todo[p]))
      BY <3>3, CommandFrame DEF Controlled, TypeOK
    <3>7. Unlists(h) \in Range(Tail(todo[p]))
      <4>1. PICK j \in DOMAIN todo[p] : j > 1 /\ todo[p][j] = Unlists(h)
        BY <3>5
      <4>2. j - 1 \in DOMAIN Tail(todo[p]) /\ Tail(todo[p])[j - 1] = todo[p][j]
        BY <3>3, <3>4, <4>1, TailFacts
      <4> QED
        BY <4>1, <4>2 DEF Range
    <3>8. ASSUME NEW i \in DOMAIN Tail(todo[p])  PROVE Tail(todo[p])[i].op # "rule"
      <4>1. i + 1 \in DOMAIN todo[p] /\ Tail(todo[p])[i] = todo[p][i + 1]
        BY <3>3, <3>4, TailFacts
      <4>2. i + 1 # 1
        BY <3>3, <3>4, TailFacts, SeqFacts
      <4> QED
        BY <3>5, <4>1, <4>2
    <3>9. \A c \in Commands(p)' : c.op # "rule"
      BY <3>6, <3>8 DEF Range
    <3> QED
      BY <3>6, <3>7, <3>9
  <2>2. CASE h \notin rule
    <3>1. state[h] # None
      <4> SUFFICES ASSUME state[h] = None  PROVE FALSE
        OBVIOUS
      <4>1. h = On(p)
        BY <1>3, CommandFrame DEF Touches, Same
      <4>2. Head(todo[p]).op = "hash" /\ Head(todo[p]).hunt = h /\ Head(todo[p]) \in Commands(p)
        BY <4>1, CommandFrame DEF Controlled, Known
      <4> QED
        BY <2>2, <4>2 DEF Controlled, Known
    <3>2. CASE Gone(h)
      BY <1>1, <3>2, GoneStays
    <3>3. ASSUME NEW q \in Procs, Unlists(h) \in Commands(q), \A c \in Commands(q) : c.op # "rule"
          PROVE  \/ Gone(h)'
                 \/ /\ Unlists(h) \in Commands(q)'
                    /\ \A c \in Commands(q)' : c.op # "rule"
      <4>1. CASE q # p
        BY <3>3, <4>1, CommandFrame
      <4>2. CASE q = p
        <5>1. h = On(p) /\ Op(p) # "rule"
          BY <3>3, <4>2, CommandFrame, ListsFields
        <5>2. CASE Head(todo[p]) = Unlists(h)
          <6>1. h \notin all'
            BY <5>2, Unlisted
          <6>2. ~Creating(h)
            BY <3>3, ListsFields DEF Deletions
          <6> QED
            BY <1>1, <3>1, <6>1, <6>2, NoNewLists DEF Gone
        <5>3. CASE Head(todo[p]) # Unlists(h)
          <6>1. Unlists(h) \in Commands(p)'
            BY <3>3, <4>2, <5>1, <5>3, CommandFrame DEF Follows
          <6>2. Op(p) # "delete"
            <7>1. todo[p] \in Seq(Cmds) /\ 1 \in DOMAIN todo[p] /\ todo[p][1].op = Op(p)
              BY CommandFrame, HeadFacts DEF Controlled
            <7>2. Op(p) = "delete" => Len(todo[p]) = 1
              BY <7>1 DEF Controlled, Ordered, ListOK, DeleteAlone
            <7>3. Op(p) = "delete" => \A i \in DOMAIN todo[p] : i = 1
              BY <7>1, <7>2, SeqFacts
            <7>4. PICK i \in DOMAIN todo[p] : todo[p][i] = Unlists(h)
              BY <3>3, <4>2 DEF Commands, Range
            <7> QED
              BY <7>1, <7>3, <7>4, ListsFields
          <6>3. ASSUME NEW c \in Commands(p)'  PROVE c.op # "rule"
            <7>1. c \in Commands(p) \/ Loop(c)
              BY <6>2, CommandFrame DEF Follows, Stays
            <7> QED
              BY <3>3, <4>2, <7>1 DEF Loop
          <6> QED
            BY <4>2, <6>1, <6>3
        <5> QED
          BY <5>2, <5>3
      <4> QED
        BY <4>1, <4>2
    <3> QED
      BY <2>2, <3>1, <3>2, <3>3 DEF Deletions
  <2> QED
    BY <2>1, <2>2
<1> QED
  BY <1>2, <1>3 DEF Deletions, Deletes

LEMMA RequestDeletions ==
  ASSUME Controlled, Deletions, [Next]_vars, NoEarlyDelete,
         NEW u \in Users, NEW h \in Hunts, NEW s, Requested(u, h, s)
  PROVE  Deletions'
<1>1. /\ u \in Procs /\ Commands(u) = {} /\ Commands(u)' = Range(s)
      /\ \A c \in Range(s) : /\ c.hunt = h
                             /\ c.op = "delete" => ApiDelete(u, h) /\ state[h] # None
                             /\ c # Unlists(h)
      /\ \A q \in Procs \ {u} : Commands(q)' = Commands(q)
      /\ state' = state /\ rule \subseteq rule'
  BY RequestFrame
<1>2. ASSUME NEW q \in Procs, NEW c \in Commands(q)', Deletes(c)
      PROVE  state'[c.hunt] # None /\ ~Creating(c.hunt)'
  <2>1. c.hunt \in Hunts /\ state[c.hunt] # None /\ ~Creating(c.hunt)
    <3>1. CASE q = u
      <4>1. c.hunt = h /\ ApiDelete(u, h) /\ state[h] # None
        BY <1>1, <1>2, <3>1 DEF Deletes
      <4> QED
        BY <4>1 DEF NoEarlyDelete
    <3>2. CASE q # u
      <4>1. c \in Commands(q) /\ todo[q] # <<>>
        BY <1>1, <1>2, <3>2, Tuples DEF Commands
      <4>2. c.hunt \in Hunts
        BY <4>1, SameHunt, HeadFacts DEF Controlled
      <4> QED
        BY <1>2, <4>1, <4>2 DEF Deletions, Deletes
    <3> QED
      BY <3>1, <3>2
  <2> QED
    BY <2>1, NoNewLists
<1>3. ASSUME NEW g \in Hunts, g \notin rule', state'[g] # None
      PROVE  \/ Gone(g)'
             \/ \E q \in Procs : /\ Unlists(g) \in Commands(q)'
                                 /\ \A c \in Commands(q)' : c.op # "rule"
  <2>1. g \notin rule /\ state[g] # None
    BY <1>1, <1>3
  <2>2. CASE Gone(g)
    BY <2>2, GoneStays
  <2>3. ASSUME NEW q \in Procs, Unlists(g) \in Commands(q), \A c \in Commands(q) : c.op # "rule"
        PROVE  Unlists(g) \in Commands(q)' /\ \A c \in Commands(q)' : c.op # "rule"
    BY <1>1, <2>3
  <2> QED
    BY <2>1, <2>2, <2>3 DEF Deletions
<1> QED
  BY <1>2, <1>3 DEF Deletions, Deletes

LEMMA MoveDeletions ==
  ASSUME Controlled, Deletions, [Next]_vars, NEW h, NEW s, Moved(h, s)
  PROVE  Deletions'
<1>1. /\ Commands(Module)' = Range(s) /\ \A c \in Range(s) : c.op \notin {"all", "delete"}
      /\ \A q \in Procs \ {Module} : Commands(q)' = Commands(q)
      /\ state' = state /\ rule' = rule
  BY MoveFrame
<1>2. \A g : Unlists(g) \notin Commands(Module)
  BY ListsFields DEF Controlled, Ordered, Own, ModuleOps, Procs
<1>3. ASSUME NEW q \in Procs, NEW c \in Commands(q)', Deletes(c)
      PROVE  state'[c.hunt] # None /\ ~Creating(c.hunt)'
  <2>1. q # Module
    BY <1>1, <1>3, ListsFields DEF Deletes
  <2>2. c \in Commands(q) /\ todo[q] # <<>>
    BY <1>1, <1>3, <2>1, Tuples DEF Commands
  <2>3. c.hunt \in Hunts
    BY <2>2, SameHunt, HeadFacts DEF Controlled
  <2>4. state[c.hunt] # None /\ ~Creating(c.hunt)
    BY <1>3, <2>2 DEF Deletions, Deletes
  <2> QED
    BY <2>3, <2>4, NoNewLists
<1>4. ASSUME NEW g \in Hunts, g \notin rule', state'[g] # None
      PROVE  \/ Gone(g)'
             \/ \E q \in Procs : /\ Unlists(g) \in Commands(q)'
                                 /\ \A c \in Commands(q)' : c.op # "rule"
  <2>1. g \notin rule /\ state[g] # None
    BY <1>1, <1>4
  <2>2. CASE Gone(g)
    BY <2>2, GoneStays
  <2>3. ASSUME NEW q \in Procs, Unlists(g) \in Commands(q), \A c \in Commands(q) : c.op # "rule"
        PROVE  Unlists(g) \in Commands(q)' /\ \A c \in Commands(q)' : c.op # "rule"
    BY <1>1, <1>2, <2>3
  <2> QED
    BY <2>1, <2>2, <2>3 DEF Deletions
<1> QED
  BY <1>3, <1>4 DEF Deletions, Deletes

LEMMA InitDeletions == Init => Deletions
<1> SUFFICES ASSUME Init  PROVE Deletions
  OBVIOUS
<1>1. \A p \in Procs : Commands(p) = {}
  BY Tuples DEF Init, Commands
<1>2. \A h \in Hunts : state[h] = None
  BY DEF Init
<1> QED
  BY <1>1, <1>2 DEF Deletions

LEMMA StepDeletions ==
  ASSUME Controlled, Deletions, [Next]_vars, [NoEarlyDelete]_vars
  PROVE  Deletions'
<1>1. CASE UNCHANGED vars
  <2>1. state' = state /\ rule' = rule /\ all' = all /\ \A p : Commands(p)' = Commands(p)
    BY <1>1 DEF vars, Commands
  <2> QED
    BY <2>1 DEF Deletions, Gone, Creating
<1>2. CASE \E p \in Procs : Command(p)
  BY <1>2, CommandDeletions
<1>3. CASE \E u \in Users : Flask(u)
  <2>1. NoEarlyDelete
    <3>1. CASE UNCHANGED vars
      <4>1. requests' = requests /\ requests \in Nat
        BY <3>1 DEF vars, Controlled, TypeOK
      <4> QED
        BY <4>1 DEF NoEarlyDelete, ApiDelete, Request
    <3> QED
      BY <3>1
  <2> QED
    BY <1>3, <2>1, FlaskRequests, RequestDeletions
<1>4. CASE Moves
  BY <1>4, MoveDeletions DEF Moves
<1> QED
  BY <1>1, <1>2, <1>3, <1>4, NextSteps, ModuleMoves

----------------------------------------------------------------------------
(***************************************************************************)
(* A hunt stays in the set of the state that it shows.                     *)
(***************************************************************************)
LEMMA FirstDue ==
  ASSUME Controlled, Listing, NEW p \in Procs, Command(p), Val(p) # "pending"
  PROVE  /\ Op(p) = "srem" => Gone(On(p))
         /\ Op(p) = "state" => Gone(On(p)) \/ On(p) \in sets[Val(p)]
<1>1. /\ todo[p] \in Seq(Cmds) /\ 1 \in DOMAIN todo[p] /\ todo[p][1].hunt = On(p)
      /\ todo[p][1].op = Op(p) /\ todo[p][1].val = Val(p)
  BY CommandFrame, HeadFacts DEF Controlled
<1>2. \A c : ~After(todo[p], 1, c)
  BY <1>1, SeqFacts DEF After
<1> QED
  BY <1>1, <1>2 DEF Listing, Due

LEMMA SetKept ==
  ASSUME Controlled, Listing, NEW p \in Procs, Command(p),
         NEW h \in Hunts, NEW v \in States \ {"pending"}, h \in sets[v]
  PROVE  Gone(h)' \/ h \in sets'[v]
<1>1. [Next]_vars
  BY CommandStep
<1>2. CASE h # On(p)
  BY <1>2, CommandFrame DEF Touches, Same
<1>3. CASE h = On(p) /\ SaddState(p) /\ Op(p) = "srem" /\ Val(p) = v
  BY <1>1, <1>3, FirstDue, GoneStays
<1>4. CASE SaddState(p) /\ ~(Op(p) = "srem" /\ Val(p) = v)
  <2>1. Op(p) \in {"sadd", "srem"} /\ sets \in [States -> SUBSET Hunts]
    BY <1>4 DEF SaddState, Runs, Op, Controlled, TypeOK
  <2> QED
    BY <1>4, <2>1 DEF SaddState
<1>5. CASE ~SaddState(p)
  <2>1. sets' = sets
    BY <1>5 DEF Command, HsetState, HsetLast, SaddLists, HsetPause, SaddMatch, SaddMap,
         HincrMatch, ReadMatches, RemoveMatches, RemoveRule, DeleteChecked, index
  <2> QED
    BY <2>1
<1> QED
  BY <1>2, <1>3, <1>4, <1>5

LEMMA CommandState ==
  ASSUME Controlled, Listing, NEW p \in Procs, Command(p),
         NEW h \in Hunts, state'[h] \in States \ {"pending"}
  PROVE  Gone(h)' \/ h \in sets'[state'[h]]
<1>1. [Next]_vars
  BY CommandStep
<1>2. CASE state'[h] = state[h]
  BY <1>1, <1>2, SetKept, GoneStays DEF Listing
<1>3. CASE state'[h] # state[h]
  <2>1. h = On(p)
    BY <1>3, CommandFrame DEF Touches, Same
  <2>2. HsetState(p)
    BY <1>3 DEF Command, HsetLast, SaddState, SaddLists, HsetPause, SaddMatch, SaddMap,
         HincrMatch, ReadMatches, RemoveMatches, RemoveRule, DeleteChecked, hash
  <2>3. state'[h] = Val(p) /\ sets' = sets /\ Op(p) \in {"state", "hash"}
    BY <2>1, <2>2 DEF HsetState, Controlled, TypeOK, index, Runs, Op
  <2>4. Op(p) = "state"
    <3>1. Op(p) = "hash" => Val(p) = "new"
      BY CommandFrame, CmdTypes
    <3> QED
      BY <2>3, <3>1 DEF States
  <2>5. Gone(h) \/ h \in sets[Val(p)]
    BY <2>1, <2>3, <2>4, FirstDue
  <2> QED
    BY <1>1, <2>3, <2>5, GoneStays
<1> QED
  BY <1>2, <1>3

LEMMA CommandDue ==
  ASSUME Controlled, Deletions, Listing, NEW p \in Procs, Command(p),
         NEW q \in Procs, NEW i \in Nat, i \in DOMAIN todo'[q]
  PROVE  Due(q, i)'
<1>1. [Next]_vars
  BY CommandStep
<1>9. PICK c \in Cmds : c = todo'[q][i]
  <2>1. TypeOK'
    BY <1>1, StepControlled DEF Controlled
  <2>2. todo'[q] \in Seq(Cmds)
    BY <2>1 DEF TypeOK
  <2> QED
    BY <2>2, SeqFacts
<1>2. c.hunt \in Hunts
  BY CmdTypes
<1>3. c.op \in {"srem", "state"} => c.val \in States
  BY CmdTypes
<1>4. \A v \in States \ {"pending"} : c.hunt \in sets[v] => Gone(c.hunt)' \/ c.hunt \in sets'[v]
  BY <1>2, SetKept
<1>5. Gone(c.hunt) => Gone(c.hunt)'
  BY <1>1, <1>2, GoneStays
<1>6. SUFFICES ASSUME c.op \in {"srem", "state"}, c.val # "pending"
               PROVE  \/ Gone(c.hunt)'
                      \/ c.op = "srem" /\ After(todo'[q], i, Unlists(c.hunt))
                      \/ c.op = "state" /\ c.hunt \in sets'[c.val]
                      \/ c.op = "state" /\ After(todo'[q], i, Cmd("sadd", c.hunt, c.val))
  BY <1>9 DEF Due
<1>7. CASE q # p
  <2>1. todo'[q] = todo[q] /\ c = todo[q][i] /\ i \in DOMAIN todo[q]
    BY <1>7, <1>9, CommandFrame
  <2> QED
    BY <1>3, <1>4, <1>5, <1>6, <2>1 DEF Listing, Due
<1>8. CASE q = p
  <2>1. \/ FreshAt(todo'[p], i)
        \/ \E k \in DOMAIN todo[p] :
              /\ todo[p][k] = c
              /\ \A d : After(todo[p], k, d) => After(todo'[p], i, d) \/ d = Head(todo[p])
    BY <1>6, <1>8, <1>9, CommandFrame DEF Follows, Later
  <2>2. CASE FreshAt(todo'[p], i)
    BY <1>6, <1>8, <1>9, <2>2 DEF FreshAt
  <2>3. ASSUME NEW k \in DOMAIN todo[p], todo[p][k] = c,
               \A d : After(todo[p], k, d) => After(todo'[p], i, d) \/ d = Head(todo[p])
        PROVE  \/ Gone(c.hunt)'
               \/ c.op = "srem" /\ After(todo'[q], i, Unlists(c.hunt))
               \/ c.op = "state" /\ c.hunt \in sets'[c.val]
               \/ c.op = "state" /\ After(todo'[q], i, Cmd("sadd", c.hunt, c.val))
    <3>1. \/ Gone(c.hunt)
          \/ c.op = "srem" /\ After(todo[p], k, Unlists(c.hunt))
          \/ c.op = "state" /\ c.hunt \in sets[c.val]
          \/ c.op = "state" /\ After(todo[p], k, Cmd("sadd", c.hunt, c.val))
      BY <1>6, <2>3 DEF Listing, Due
    <3>2. ASSUME Head(todo[p]) = Unlists(c.hunt)  PROVE Gone(c.hunt)'
      <4>1. c.hunt \notin all'
        BY <1>2, <3>2, Unlisted
      <4>2. state[c.hunt] # None /\ ~Creating(c.hunt)
        BY <3>2, CommandFrame, ListsFields DEF Deletions
      <4> QED
        BY <1>1, <1>2, <4>1, <4>2, NoNewLists DEF Gone
    <3>3. ASSUME Head(todo[p]) = Cmd("sadd", c.hunt, c.val), c.op = "state"
          PROVE  c.hunt \in sets'[c.val]
      <4>1. Op(p) = "sadd" /\ On(p) = c.hunt /\ Val(p) = c.val
        BY <3>3, CommandFrame, CmdFields
      <4>2. SaddState(p)
        BY <4>1 DEF Command, HsetState, HsetLast, SaddLists, HsetPause, SaddMatch,
             SaddMap, HincrMatch, ReadMatches, RemoveMatches, RemoveRule, DeleteChecked, Runs, Op
      <4>3. sets \in [States -> SUBSET Hunts] /\ c.val \in States
        BY <1>3, <3>3 DEF Controlled, TypeOK
      <4> QED
        BY <4>1, <4>2, <4>3 DEF SaddState
    <3> QED
      BY <1>3, <1>4, <1>5, <1>6, <1>8, <2>3, <3>1, <3>2, <3>3
  <2> QED
    BY <1>8, <2>1, <2>2, <2>3
<1> QED
  BY <1>7, <1>8

LEMMA CommandListing ==
  ASSUME Controlled, Deletions, Listing, NEW p \in Procs, Command(p)
  PROVE  Listing'
<1>1. TypeOK'
  BY CommandStep, StepControlled DEF Controlled
<1>2. \A q \in Procs : DOMAIN todo'[q] \subseteq Nat
  <2>1. \A q \in Procs : todo'[q] \in Seq(Cmds)
    BY <1>1 DEF TypeOK
  <2> QED
    BY <2>1
<1>3. \A q \in Procs : \A i \in Nat : i \in DOMAIN todo'[q] => Due(q, i)'
  BY CommandDue
<1>4. (\A q \in Procs : \A i \in DOMAIN todo[q] : Due(q, i))'
  BY <1>2, <1>3
<1> QED
  BY <1>4, CommandState DEF Listing

LEMMA RequestListing ==
  ASSUME Controlled, Listing, [Next]_vars, NEW u \in Users, NEW h \in Hunts, NEW s,
         Requested(u, h, s)
  PROVE  Listing'
<1>1. /\ u \in Procs /\ todo'[u] = s /\ s \in Seq(Cmds) /\ Fresh(s)
      /\ \A q \in Procs \ {u} : todo'[q] = todo[q]
      /\ state' = state /\ sets' = sets
  BY RequestFrame
<1>2. \A g \in Hunts : Gone(g) => Gone(g)'
  BY GoneStays
<1>3. \A g \in Hunts : state'[g] \in States \ {"pending"} => Gone(g)' \/ g \in sets'[state'[g]]
  BY <1>1, <1>2 DEF Listing
<1>4. ASSUME NEW q \in Procs, NEW i \in Nat, i \in DOMAIN todo'[q]
      PROVE  Due(q, i)'
  <2>1. CASE q = u
    BY <1>1, <1>4, <2>1 DEF Fresh, Due
  <2>2. CASE q # u
    <3>1. todo'[q] = todo[q] /\ i \in DOMAIN todo[q]
      BY <1>1, <1>4, <2>2
    <3>2. todo[q][i].hunt \in Hunts
      BY <3>1, SeqFacts, CmdTypes DEF Controlled, TypeOK
    <3> QED
      BY <1>1, <1>2, <3>1, <3>2 DEF Listing, Due
  <2> QED
    BY <2>1, <2>2
<1>5. \A q \in Procs : DOMAIN todo'[q] \subseteq Nat
  <2>1. \A q \in Procs : todo'[q] \in Seq(Cmds)
    BY StepControlled DEF Controlled, TypeOK
  <2> QED
    BY <2>1
<1>6. (\A q \in Procs : \A i \in DOMAIN todo[q] : Due(q, i))'
  BY <1>4, <1>5
<1> QED
  BY <1>3, <1>6 DEF Listing

LEMMA MoveListing ==
  ASSUME Controlled, Listing, [Next]_vars, NEW h, NEW s, Moved(h, s)
  PROVE  Listing'
<1>1. /\ Module \in Procs /\ todo'[Module] = s /\ s \in Seq(Cmds) /\ Fresh(s)
      /\ \A q \in Procs \ {Module} : todo'[q] = todo[q]
      /\ state' = state /\ \A v \in States \ {"pending"} : sets'[v] = sets[v]
  BY MoveFrame DEF Moved
<1>2. \A g \in Hunts : Gone(g) => Gone(g)'
  BY GoneStays
<1>3. \A g \in Hunts : state'[g] \in States \ {"pending"} => Gone(g)' \/ g \in sets'[state'[g]]
  BY <1>1, <1>2 DEF Listing
<1>4. ASSUME NEW q \in Procs, NEW i \in Nat, i \in DOMAIN todo'[q]
      PROVE  Due(q, i)'
  <2>1. CASE q = Module
    BY <1>1, <1>4, <2>1 DEF Fresh, Due
  <2>2. CASE q # Module
    <3>1. todo'[q] = todo[q] /\ i \in DOMAIN todo[q]
      BY <1>1, <1>4, <2>2
    <3>2. todo[q][i] \in Cmds
      BY <3>1, SeqFacts DEF Controlled, TypeOK
    <3>3. /\ todo[q][i].hunt \in Hunts
          /\ todo[q][i].op = "state" => todo[q][i].val \in States
      BY <3>2, CmdTypes
    <3> QED
      BY <1>1, <1>2, <3>1, <3>3 DEF Listing, Due
  <2> QED
    BY <2>1, <2>2
<1>5. \A q \in Procs : DOMAIN todo'[q] \subseteq Nat
  <2>1. \A q \in Procs : todo'[q] \in Seq(Cmds)
    BY StepControlled DEF Controlled, TypeOK
  <2> QED
    BY <2>1
<1>6. (\A q \in Procs : \A i \in DOMAIN todo[q] : Due(q, i))'
  BY <1>4, <1>5
<1> QED
  BY <1>3, <1>6 DEF Listing

LEMMA InitListing == Init => Listing
<1> SUFFICES ASSUME Init  PROVE Listing
  OBVIOUS
<1>1. \A p \in Procs : todo[p] = <<>> /\ DOMAIN todo[p] = {}
  BY Tuples DEF Init
<1>2. \A h \in Hunts : state[h] = None
  BY DEF Init
<1> QED
  BY <1>1, <1>2, Assumption DEF Listing

LEMMA StepListing ==
  ASSUME Controlled, Deletions, Listing, [Next]_vars
  PROVE  Listing'
<1>1. CASE UNCHANGED vars
  <2>1. /\ state' = state /\ sets' = sets /\ todo' = todo /\ all' = all
        /\ \A p : Commands(p)' = Commands(p)
    BY <1>1 DEF vars, Commands
  <2>2. \A h : Gone(h)' <=> Gone(h)
    BY <2>1 DEF Gone, Creating
  <2>3. \A h \in Hunts : state'[h] \in States \ {"pending"} => Gone(h)' \/ h \in sets'[state'[h]]
    BY <2>1, <2>2 DEF Listing
  <2>4. ASSUME NEW p \in Procs, NEW i, i \in DOMAIN todo'[p]  PROVE Due(p, i)'
    BY <2>1, <2>2, <2>4 DEF Listing, Due
  <2> QED
    BY <2>3, <2>4 DEF Listing
<1>2. CASE \E p \in Procs : Command(p)
  BY <1>2, CommandListing
<1>3. CASE \E u \in Users : Flask(u)
  BY <1>3, FlaskRequests, RequestListing
<1>4. CASE Moves
  BY <1>4, MoveListing DEF Moves
<1> QED
  BY <1>1, <1>2, <1>3, <1>4, NextSteps, ModuleMoves

\* A hunt that is listed is in the set of the state that it shows, whatever the users do and
\* wherever AIL is stopped, if none of them deletes a hunt that is still being created.
THEOREM ListedCorrect == Spec /\ [][NoEarlyDelete]_vars => []StateListed
<1>1. Init => Controlled /\ Deletions /\ Listing
  BY InitControlled, InitDeletions, InitListing
<1>2. Controlled /\ [Next]_vars => Controlled'
  BY StepControlled
<1>3. Controlled /\ Deletions /\ [Next]_vars /\ [NoEarlyDelete]_vars => Deletions'
  BY StepDeletions
<1>4. Controlled /\ Deletions /\ Listing /\ [Next]_vars => Listing'
  BY StepListing
<1>5. Controlled /\ Listing => StateListed
  BY DEF Controlled, TypeOK, Listing, StateListed, Kept, Gone
<1> QED
  BY <1>1, <1>2, <1>3, <1>4, <1>5, PTL DEF Spec

\* One user cannot: the request that creates the hunt has to end before the next one.
LEMMA OneAtATime ==
  ASSUME Controlled, \A u, v \in Users : u = v
  PROVE  NoEarlyDelete
<1> SUFFICES ASSUME NEW u \in Users, NEW h \in Hunts, ApiDelete(u, h), NEW p \in Procs,
                    Lists(h) \in Commands(p)
             PROVE  FALSE
  BY DEF NoEarlyDelete, Creating
<1>1. Commands(u) = {}
  BY Tuples DEF ApiDelete, Request, Commands
<1>2. p # Module
  BY ListsFields DEF Controlled, Ordered, Own, ModuleOps
<1>3. p = u
  BY <1>2 DEF Procs
<1> QED
  BY <1>1, <1>3

----------------------------------------------------------------------------
(***************************************************************************)
(* The matches, while AIL has not been stopped.                            *)
(***************************************************************************)
\* A deletion that has begun is never undone.
LEMMA CommandWhole ==
  ASSUME Controlled, Deletions, NEW p \in Procs, Command(p), NEW h \in Hunts, Deleting(h)
  PROVE  Deleting(h)' \/ Gone(h)'
<1>1. [Next]_vars
  BY CommandStep
<1>2. PICK q \in Procs : Unlists(h) \in Commands(q)
  BY DEF Deleting
<1>3. CASE q # p
  BY <1>2, <1>3, CommandFrame DEF Deleting
<1>4. CASE Unlists(h) \in Commands(p)'
  BY <1>4 DEF Deleting
<1>5. CASE q = p /\ Unlists(h) \notin Commands(p)'
  <2>1. h = On(p)
    BY <1>2, <1>5, CommandFrame, ListsFields
  <2>2. Head(todo[p]) = Unlists(h) \/ (Op(p) = "rule" /\ h \notin rule)
    BY <1>2, <1>5, <2>1, CommandFrame DEF Follows
  <2>3. state[h] # None /\ ~Creating(h)
    BY <1>2, ListsFields DEF Deletions
  <2>4. CASE Head(todo[p]) = Unlists(h)
    <3>1. h \notin all'
      BY <2>4, Unlisted
    <3> QED
      BY <1>1, <2>3, <3>1, NoNewLists DEF Gone
  <2>5. CASE Op(p) = "rule" /\ h \notin rule
    <3>1. CASE Gone(h)
      BY <1>1, <3>1, GoneStays
    <3>2. ASSUME NEW r \in Procs, Unlists(h) \in Commands(r), \A c \in Commands(r) : c.op # "rule"
          PROVE  Deleting(h)'
      <4>1. r # p
        BY <2>5, <3>2, CommandFrame
      <4> QED
        BY <3>2, <4>1, CommandFrame DEF Deleting
    <3> QED
      BY <2>3, <2>5, <3>1, <3>2 DEF Deletions
  <2> QED
    BY <2>2, <2>4, <2>5
<1> QED
  BY <1>2, <1>3, <1>4, <1>5

LEMMA WholeBack ==
  ASSUME Controlled, Deletions, [Next]_vars, NEW h \in Hunts, Whole(h)'
  PROVE  Whole(h)
<1>1. Gone(h) => Gone(h)'
  BY GoneStays
<1>2. SUFFICES ASSUME Deleting(h)  PROVE Deleting(h)' \/ Gone(h)'
  BY <1>1 DEF Whole
<1>3. CASE UNCHANGED vars
  BY <1>2, <1>3 DEF vars, Deleting, Commands
<1>4. CASE \E p \in Procs : Command(p)
  BY <1>2, <1>4, CommandWhole
<1>5. CASE \E u \in Users : Flask(u)
  <2>1. PICK u \in Users, g \in Hunts : \E s : Requested(u, g, s)
    BY <1>5, FlaskRequests
  <2>2. PICK s : Requested(u, g, s)
    BY <2>1
  <2>3. Commands(u) = {} /\ \A q \in Procs \ {u} : Commands(q)' = Commands(q)
    BY <2>2, RequestFrame
  <2> QED
    BY <1>2, <2>3 DEF Deleting
<1>6. CASE Moves
  <2>1. \A q \in Procs \ {Module} : Commands(q)' = Commands(q)
    BY <1>6, MoveFrame DEF Moves
  <2>2. Unlists(h) \notin Commands(Module)
    BY ListsFields DEF Controlled, Ordered, Own, ModuleOps, Procs
  <2> QED
    BY <1>2, <2>1, <2>2 DEF Deleting
<1> QED
  BY <1>3, <1>4, <1>5, <1>6, NextSteps, ModuleMoves

\* What is removed from a hunt is removed by its deletion.
LEMMA WholeKeeps ==
  ASSUME Controlled, NEW u \in Procs, u # Module, Command(u), NEW h \in Hunts, Whole(h)
  PROVE  UNCHANGED <<objs[h], nb[h]>> /\ \A o \in Obj : h \in hunts'[o] <=> h \in hunts[o]
<1>1. CASE h # On(u)
  BY <1>1, CommandFrame DEF Touches, Same
<1>2. CASE h = On(u)
  <2>1. /\ todo[u] \in Seq(Cmds) /\ 1 \in DOMAIN todo[u] /\ todo[u][1] = Head(todo[u])
        /\ Head(todo[u]).op = Op(u) /\ Head(todo[u]).val = Val(u) /\ Head(todo[u]).hunt = h
    BY <1>2, CommandFrame, HeadFacts DEF Controlled
  <2>2. Own(u, Head(todo[u])) /\ RemovesFirst(todo[u])
    BY CommandFrame DEF Controlled, Ordered, ListOK
  <2>3. ~Removes(Head(todo[u]))
    <3> SUFFICES ASSUME Removes(Head(todo[u]))  PROVE FALSE
      OBVIOUS
    <3>1. \E j \in DOMAIN todo[u] : todo[u][j] = Unlists(h)
      BY <2>1, <2>2 DEF RemovesFirst
    <3>2. Unlists(h) \in Commands(u)
      BY <3>1 DEF Commands, Range
    <3> QED
      BY <3>2 DEF Whole, Deleting
  <2>4. Op(u) \notin {"obj", "unobj", "map", "unmap", "nb"}
    BY <2>1, <2>2, <2>3 DEF Removes, Own, UserOps
  <2>5. UNCHANGED <<objs, hunts, nb>>
    BY <2>4 DEF Command, HsetState, HsetLast, SaddState, SaddLists, HsetPause, SaddMatch, SaddMap,
         HincrMatch, ReadMatches, RemoveMatches, RemoveRule, DeleteChecked, hash, Runs, Op
  <2> QED
    BY <2>5
<1> QED
  BY <1>1, <1>2

LEMMA AgreeStays ==
  ASSUME Controlled, Deletions, [Next]_vars, NEW h \in Hunts, Agree(h),
         ToList(h)' = ToList(h), ToMap(h)' = ToMap(h), ToCount(h)' = ToCount(h),
         analysed'[h] = analysed[h],
         Whole(h) => /\ UNCHANGED <<objs[h], nb[h]>>
                     /\ \A o \in Obj : h \in hunts'[o] <=> h \in hunts[o]
  PROVE  Agree(h)'
<1>1. \A o \in ToList(h)' \cup ToMap(h)' : o \in analysed'[h] /\ <<h, o>> \in Hits
  BY DEF Agree
<1>2. ASSUME Whole(h)'
      PROVE  /\ \A o \in Obj : <<h, o>> \in Hits =>
                   /\ o \in analysed'[h] <=> o \in objs'[h] \cup ToList(h)'
                   /\ o \in analysed'[h] <=> h \in hunts'[o] \/ o \in ToMap(h)'
             /\ nb'[h] + ToCount(h)' >= Cardinality(objs'[h] \cup ToList(h)')
  <2>1. Whole(h)
    BY <1>2, WholeBack
  <2>2. objs'[h] = objs[h] /\ nb'[h] = nb[h] /\ \A o \in Obj : h \in hunts'[o] <=> h \in hunts[o]
    BY <2>1
  <2>3. /\ \A o \in Obj : <<h, o>> \in Hits =>
              /\ o \in analysed[h] <=> o \in objs[h] \cup ToList(h)
              /\ o \in analysed[h] <=> h \in hunts[o] \/ o \in ToMap(h)
        /\ nb[h] + ToCount(h) >= Cardinality(objs[h] \cup ToList(h))
    BY <2>1 DEF Agree
  <2>4. objs'[h] \cup ToList(h)' = objs[h] \cup ToList(h)
    BY <2>2
  <2> HIDE DEF ToList, ToMap, ToCount
  <2> QED
    BY <2>2, <2>3, <2>4
<1> QED
  BY <1>1, <1>2 DEF Agree

LEMMA ModuleSame ==
  ASSUME NEW h, Commands(Module)' = Commands(Module)
  PROVE  ToList(h)' = ToList(h) /\ ToMap(h)' = ToMap(h) /\ ToCount(h)' = ToCount(h)
BY DEF ToList, ToMap, ToCount

LEMMA UserMatches ==
  ASSUME Controlled, Deletions, Matches, NEW u \in Users, Command(u)
  PROVE  Matches'
<1>1. u \in Procs /\ u # Module /\ Module \in Procs
  BY Assumption DEF Procs
<1>2. Commands(Module)' = Commands(Module) /\ analysed' = analysed /\ stops' = stops
  BY <1>1, CommandFrame
<1> SUFFICES ASSUME stops = 0, NEW h \in Hunts  PROVE Agree(h)'
  BY <1>2 DEF Matches
<1>3. Agree(h)
  BY DEF Matches
<1>4. [Next]_vars
  BY <1>1, CommandStep
<1>5. Whole(h) => /\ UNCHANGED <<objs[h], nb[h]>>
                  /\ \A o \in Obj : h \in hunts'[o] <=> h \in hunts[o]
  BY <1>1, WholeKeeps
<1>6. ToList(h)' = ToList(h) /\ ToMap(h)' = ToMap(h) /\ ToCount(h)' = ToCount(h)
  BY <1>2, ModuleSame
<1> QED
  BY <1>2, <1>3, <1>4, <1>5, <1>6, AgreeStays

LEMMA RequestMatches ==
  ASSUME Controlled, Deletions, Matches, [Next]_vars, NEW u \in Users, NEW g \in Hunts, NEW s,
         Requested(u, g, s)
  PROVE  Matches'
<1>1. /\ Commands(Module)' = Commands(Module)
      /\ UNCHANGED <<nb, objs, hunts, analysed, stops>>
  BY RequestFrame, Assumption DEF Procs
<1> SUFFICES ASSUME stops = 0, NEW h \in Hunts  PROVE Agree(h)'
  BY <1>1 DEF Matches
<1>2. Agree(h)
  BY DEF Matches
<1>3. ToList(h)' = ToList(h) /\ ToMap(h)' = ToMap(h) /\ ToCount(h)' = ToCount(h)
  BY <1>1, ModuleSame
<1> QED
  BY <1>1, <1>2, <1>3, AgreeStays

\* A move that sends no match.
Quiet ==
    /\ Commands(Module) = {}
    /\ \A c \in Commands(Module)' : c.op \notin {"obj", "map", "nb"}
    /\ UNCHANGED <<nb, objs, hunts, analysed>>

LEMMA QuietMatches ==
  ASSUME Controlled, Deletions, Matches, [Next]_vars, Quiet, stops' = stops
  PROVE  Matches'
<1> SUFFICES ASSUME stops = 0, NEW h \in Hunts  PROVE Agree(h)'
  BY DEF Matches
<1>1. Agree(h)
  BY DEF Matches
<1>2. ToList(h) = {} /\ ToMap(h) = {} /\ ToCount(h) = 0
  BY DEF Quiet, ToList, ToMap, ToCount
<1>3. ToList(h)' = {} /\ ToMap(h)' = {} /\ ToCount(h)' = 0
  BY CmdFields DEF Quiet, ToList, ToMap, ToCount
<1>4. UNCHANGED <<nb, objs, hunts, analysed>>
  BY DEF Quiet
<1> HIDE DEF ToList, ToMap, ToCount
<1> QED
  BY <1>1, <1>2, <1>3, <1>4, AgreeStays

LEMMA QuietMoves ==
  ASSUME Controlled,
         \/ Pop \/ Start \/ TimesOut \/ CheckPause \/ Completed
         \/ Analyse /\ ~Objs[Min(mod.left)].content
  PROVE  Quiet /\ stops' = stops
<1>1. todo[Module] = <<>>
  BY DEF Pop, Start, TimesOut, CheckPause, Completed, Analyse, Ready
<1>2. Commands(Module) = {}
  BY <1>1, Tuples DEF Commands
<1>3. ASSUME NEW h, NEW s, Moved(h, s), \A c \in Range(s) : c.op \notin {"obj", "map", "nb"},
             analysed' = analysed
      PROVE  Quiet
  BY <1>2, <1>3, MoveFrame DEF Quiet
<1>4. \A c \in Range(<<>>) : c.op \notin {"obj", "map", "nb"}
  BY Tuples
<1>5. CASE Pop
  <2>1. PICK h \in sets["pending"] : /\ h \in Hunts /\ Moved(h, SetState(h, "running"))
                                     /\ analysed' = analysed /\ stops' = stops
    BY <1>5, PopMoves
  <2>2. \A c \in Range(SetState(h, "running")) : c.op \notin {"obj", "map", "nb"}
    <3>1. "running" \in States
      BY DEF States
    <3>2. Cmd("sadd", h, "running") \in Cmds /\ Cmd("state", h, "running") \in Cmds
      BY <2>1, <3>1, CmdsTyped
    <3>3. Range(SetState(h, "running")) = {Cmd("sadd", h, "running"), Cmd("state", h, "running")}
      BY <3>2, Tuples DEF SetState
    <3> QED
      BY <3>3, CmdFields
  <2> QED
    BY <1>3, <2>1, <2>2
<1>6. CASE Start
  BY <1>3, <1>4, <1>6, StartMoves
<1>7. CASE CheckPause
  <2>1. /\ mod.hunt \in Hunts /\ mod.obj \in Obj /\ analysed' = analysed /\ stops' = stops
        /\ Moved(mod.hunt, Saves(mod.hunt, mod.obj)) \/ Moved(mod.hunt, <<>>)
    BY <1>7, CheckMoves
  <2>2. \A c \in Range(Saves(mod.hunt, mod.obj)) : c.op \notin {"obj", "map", "nb"}
    BY <2>1, SavesPlain DEF Cmd
  <2> QED
    BY <1>3, <1>4, <2>1, <2>2
<1>8. CASE Completed
  <2>1. /\ mod.hunt \in Hunts /\ analysed' = analysed /\ stops' = stops
        /\ Moved(mod.hunt, Complete(mod.hunt))
    BY <1>8, CompletedMoves
  <2>2. \A c \in Range(Complete(mod.hunt)) : c.op \notin {"obj", "map", "nb"}
    BY <2>1, PlainPrograms DEF Cmd
  <2> QED
    BY <1>3, <2>1, <2>2
<1>9. CASE Analyse /\ ~Objs[Min(mod.left)].content
  BY <1>3, <1>4, <1>9, AnalyseMoves
<1>10. CASE TimesOut
  BY <1>3, <1>4, <1>10, TimesOutMoves
<1> QED
  BY <1>5, <1>6, <1>7, <1>8, <1>9, <1>10

\* The commands of the module that are about matches, and what they do.
LEMMA ModuleSent ==
  ASSUME Controlled, Command(Module), NEW h, NEW op \in {"obj", "map", "nb"},
         NEW v, op = "nb" => v = 1
  PROVE  /\ Cmd(op, h, v) \in Commands(Module)' => Cmd(op, h, v) \in Commands(Module)
         /\ Cmd(op, h, v) \in Commands(Module)
               => Cmd(op, h, v) \in Commands(Module)' \/ Head(todo[Module]) = Cmd(op, h, v)
         /\ Head(todo[Module]) = Cmd(op, h, v) => Cmd(op, h, v) \in Commands(Module)
<1> DEFINE c == Cmd(op, h, v)
<1>1. c.op = op /\ c.val = v
  BY CmdFields
<1> HIDE DEF c
<1>2. Module \in Procs
  BY DEF Procs
<1>3. Op(Module) \notin {"rule", "delete"}
  <2>1. Own(Module, Head(todo[Module])) /\ Head(todo[Module]).op = Op(Module)
    BY <1>2, CommandFrame DEF Controlled, Ordered
  <2> QED
    BY <2>1 DEF Own, ModuleOps
<1>4. c \in Commands(Module)' => c \in Commands(Module) \/ Loop(c)
  BY <1>2, <1>3, CommandFrame DEF Follows, Stays
<1>5. ~Loop(c)
  BY <1>1 DEF Loop
<1>6. c \in Commands(Module) => c \in Commands(Module)' \/ Head(todo[Module]) = c
  BY <1>2, <1>3, CommandFrame DEF Follows
<1>7. Head(todo[Module]) \in Commands(Module)
  BY <1>2, CommandFrame
<1> QED
  BY <1>4, <1>5, <1>6, <1>7 DEF c

LEMMA ModuleEffects ==
  ASSUME Controlled, Command(Module), NEW h \in Hunts
  PROVE  /\ objs'[h] = objs[h] \cup {o \in Obj : Head(todo[Module]) = Cmd("obj", h, o)}
         /\ \A o \in Obj :
               h \in hunts'[o] <=> h \in hunts[o] \/ Head(todo[Module]) = Cmd("map", h, o)
         /\ nb'[h] = nb[h] + IF Head(todo[Module]) = Cmd("nb", h, 1) THEN 1 ELSE 0
<1> DEFINE c == Head(todo[Module])
           g == On(Module)
<1>1. /\ c \in Cmds /\ c.hunt = g /\ c.op = Op(Module) /\ c.val = Val(Module) /\ g \in Hunts
      /\ Own(Module, c)
  BY CommandFrame DEF Controlled, Ordered, Procs
<1>2. TypeOK
  BY DEF Controlled
<1>3. /\ c.op \in {"obj", "map"} => c.val \in Obj
      /\ c = Cmd(c.op, c.hunt, c.val)
      /\ c.op = "nb" => c.val = 1
      /\ c.op \notin {"unobj", "unmap"}
  BY <1>1, CmdTypes DEF Own, ModuleOps
<1> HIDE DEF c
<1>4. \A op, k, v : c = Cmd(op, k, v) <=> c.op = op /\ c.hunt = k /\ c.val = v
  BY <1>3, CmdFields
<1>5. objs'[h] = objs[h] \cup {o \in Obj : c = Cmd("obj", h, o)}
  <2>1. CASE c.op = "obj"
    <3>1. objs' = [objs EXCEPT ![g] = @ \cup {c.val}]
      BY <1>1, <2>1 DEF Command, HsetState, HsetLast, SaddState, SaddLists, HsetPause, SaddMatch,
         SaddMap, HincrMatch, ReadMatches, RemoveMatches, RemoveRule, DeleteChecked, Runs, Op, Set
    <3>2. {o \in Obj : c = Cmd("obj", h, o)} = IF g = h THEN {c.val} ELSE {}
      BY <1>1, <1>3, <1>4, <2>1
    <3> QED
      BY <1>1, <1>2, <3>1, <3>2 DEF TypeOK
  <2>2. CASE c.op # "obj"
    <3>1. objs' = objs
      BY <1>1, <1>3, <2>2 DEF Command, HsetState, HsetLast, SaddState, SaddLists, HsetPause,
         SaddMatch, SaddMap, HincrMatch, ReadMatches, RemoveMatches, RemoveRule, DeleteChecked,
         Runs, Op
    <3> QED
      BY <1>4, <2>2, <3>1
  <2> QED
    BY <2>1, <2>2
<1>6. \A o \in Obj : h \in hunts'[o] <=> h \in hunts[o] \/ c = Cmd("map", h, o)
  <2>1. CASE c.op = "map"
    <3>1. hunts' = [hunts EXCEPT ![c.val] = @ \cup {g}]
      BY <1>1, <2>1 DEF Command, HsetState, HsetLast, SaddState, SaddLists, HsetPause, SaddMatch,
         SaddMap, HincrMatch, ReadMatches, RemoveMatches, RemoveRule, DeleteChecked, Runs, Op, Set
    <3> QED
      BY <1>1, <1>2, <1>3, <1>4, <2>1, <3>1 DEF TypeOK
  <2>2. CASE c.op # "map"
    <3>1. hunts' = hunts
      BY <1>1, <1>3, <2>2 DEF Command, HsetState, HsetLast, SaddState, SaddLists, HsetPause,
         SaddMatch, SaddMap, HincrMatch, ReadMatches, RemoveMatches, RemoveRule, DeleteChecked,
         Runs, Op
    <3> QED
      BY <1>4, <2>2, <3>1
  <2> QED
    BY <2>1, <2>2
<1>7. nb'[h] = nb[h] + IF c = Cmd("nb", h, 1) THEN 1 ELSE 0
  <2>1. CASE c.op = "nb"
    <3>1. nb' = [nb EXCEPT ![g] = @ + 1]
      BY <1>1, <1>3, <2>1 DEF Command, HsetState, HsetLast, SaddState, SaddLists, HsetPause,
         SaddMatch, SaddMap, HincrMatch, ReadMatches, RemoveMatches, RemoveRule, DeleteChecked,
         Runs, Op
    <3>2. c = Cmd("nb", h, 1) <=> g = h
      BY <1>1, <1>3, <1>4, <2>1
    <3> QED
      BY <1>1, <1>2, <3>1, <3>2 DEF TypeOK
  <2>2. CASE c.op # "nb"
    <3>1. nb' = nb
      BY <1>1, <2>2 DEF Command, HsetState, HsetLast, SaddState, SaddLists, HsetPause, SaddMatch,
         SaddMap, HincrMatch, ReadMatches, RemoveMatches, RemoveRule, DeleteChecked, Runs, Op, hash
    <3>2. c # Cmd("nb", h, 1)
      BY <1>4, <2>2
    <3> QED
      BY <1>2, <3>1, <3>2 DEF TypeOK
  <2> QED
    BY <2>1, <2>2
<1> QED
  BY <1>5, <1>6, <1>7 DEF c

LEMMA ModuleMatches ==
  ASSUME Controlled, Deletions, Matches, Command(Module)
  PROVE  Matches'
<1>1. Module \in Procs
  BY DEF Procs
<1>2. [Next]_vars /\ analysed' = analysed /\ stops' = stops
  BY <1>1, CommandStep, CommandFrame
<1> SUFFICES ASSUME stops = 0, NEW h \in Hunts  PROVE Agree(h)'
  BY <1>2 DEF Matches
<1>3. Agree(h)
  BY DEF Matches
<1>4. /\ ToList(h)' \subseteq ToList(h)
      /\ \A o \in Obj : \/ o \in ToList(h) <=> o \in ToList(h)'
                        \/ o \in ToList(h) /\ Head(todo[Module]) = Cmd("obj", h, o)
      /\ \A o \in Obj : Head(todo[Module]) = Cmd("obj", h, o) => o \in ToList(h)
  BY ModuleSent DEF ToList
<1>5. /\ ToMap(h)' \subseteq ToMap(h)
      /\ \A o \in Obj : \/ o \in ToMap(h) <=> o \in ToMap(h)'
                        \/ o \in ToMap(h) /\ Head(todo[Module]) = Cmd("map", h, o)
      /\ \A o \in Obj : Head(todo[Module]) = Cmd("map", h, o) => o \in ToMap(h)
  BY ModuleSent DEF ToMap
<1>6. /\ ToCount(h) \in {0, 1} /\ ToCount(h)' \in {0, 1}
      /\ ToCount(h) = 1 => ToCount(h)' = 1 \/ Head(todo[Module]) = Cmd("nb", h, 1)
  BY ModuleSent DEF ToCount
<1>7. objs[h] \subseteq Obj /\ ToList(h) \subseteq Obj /\ nb[h] \in Int
  BY DEF ToList, Controlled, TypeOK
<1> HIDE DEF ToList, ToMap, ToCount
<1>8. \A o \in ToList(h)' \cup ToMap(h)' : o \in analysed'[h] /\ <<h, o>> \in Hits
  BY <1>2, <1>3, <1>4, <1>5 DEF Agree
<1>9. objs'[h] \cup ToList(h)' = objs[h] \cup ToList(h)
  <2>1. objs'[h] = objs[h] \cup {o \in Obj : Head(todo[Module]) = Cmd("obj", h, o)}
    BY ModuleEffects
  <2> QED
    BY <1>4, <1>7, <2>1
<1>10. \A o \in Obj : h \in hunts'[o] \/ o \in ToMap(h)' <=> h \in hunts[o] \/ o \in ToMap(h)
  <2>1. \A o \in Obj : h \in hunts'[o] <=> h \in hunts[o] \/ Head(todo[Module]) = Cmd("map", h, o)
    BY ModuleEffects
  <2> QED
    BY <1>5, <2>1
<1>11. nb'[h] + ToCount(h)' >= nb[h] + ToCount(h) /\ nb'[h] \in Int
  <2>1. nb'[h] = nb[h] + IF Head(todo[Module]) = Cmd("nb", h, 1) THEN 1 ELSE 0
    BY ModuleEffects
  <2> QED
    BY <1>6, <1>7, <2>1
<1>12. Cardinality(objs[h] \cup ToList(h)) \in Nat
  BY <1>7, ObjFacts, FS_Subset, FS_CardinalityType
<1>13. ASSUME Whole(h)'
       PROVE  /\ \A o \in Obj : <<h, o>> \in Hits =>
                   /\ o \in analysed'[h] <=> o \in objs'[h] \cup ToList(h)'
                   /\ o \in analysed'[h] <=> h \in hunts'[o] \/ o \in ToMap(h)'
              /\ nb'[h] + ToCount(h)' >= Cardinality(objs'[h] \cup ToList(h)')
  <2>1. Whole(h)
    BY <1>2, <1>13, WholeBack
  <2>2. /\ \A o \in Obj : <<h, o>> \in Hits =>
             /\ o \in analysed[h] <=> o \in objs[h] \cup ToList(h)
             /\ o \in analysed[h] <=> h \in hunts[o] \/ o \in ToMap(h)
        /\ nb[h] + ToCount(h) >= Cardinality(objs[h] \cup ToList(h))
    BY <1>3, <2>1 DEF Agree
  <2>3. nb'[h] + ToCount(h)' >= Cardinality(objs[h] \cup ToList(h))
    BY <1>6, <1>7, <1>11, <1>12, <2>2
  <2> QED
    BY <1>2, <1>9, <1>10, <2>2, <2>3
<1> QED
  BY <1>8, <1>13 DEF Agree

LEMMA OneMore ==
  ASSUME NEW S, NEW x, IsFiniteSet(S)
  PROVE  Cardinality(S \cup {x}) <= Cardinality(S) + 1 /\ Cardinality(S) \in Nat
         /\ Cardinality(S \cup {x}) \in Nat
<1>1. Cardinality(S) \in Nat
  BY FS_CardinalityType
<1>2. Cardinality(S \cup {x}) = IF x \in S THEN Cardinality(S) ELSE Cardinality(S) + 1
  BY FS_AddElement
<1> QED
  BY <1>1, <1>2

LEMMA AnalyseMatches ==
  ASSUME Controlled, Deletions, Matches, Analyse, Objs[Min(mod.left)].content
  PROVE  Matches'
<1> DEFINE g == mod.hunt
           x == Min(mod.left)
           s == Found(g, x) \o Saved(g, x, Advance(mod.done))
<1>1. /\ g \in Hunts /\ x \in Obj /\ Moved(g, s) /\ analysed' = [analysed EXCEPT ![g] = @ \cup {x}]
      /\ stops' = stops /\ todo[Module] = <<>>
  BY AnalyseMoves
<1>2. Range(s) = (IF <<g, x>> \in Hits THEN {Cmd("obj", g, x), Cmd("map", g, x), Cmd("nb", g, 1)}
                                       ELSE {})
                 \cup (IF Advance(mod.done) = 0 THEN {Cmd("last", g, x)} ELSE {})
  BY <1>1, FoundPlain
<1> HIDE DEF s, x
<1>3. Commands(Module)' = Range(s) /\ UNCHANGED <<nb, objs, hunts>>
  BY <1>1, MoveFrame
<1>4. Commands(Module) = {}
  BY <1>1, Tuples DEF Commands
<1>5. [Next]_vars
  BY DEF Next, Works
<1> SUFFICES ASSUME stops = 0, NEW h \in Hunts  PROVE Agree(h)'
  BY <1>1 DEF Matches
<1>6. Agree(h)
  BY DEF Matches
<1>7. ToList(h) = {} /\ ToMap(h) = {} /\ ToCount(h) = 0
  BY <1>4 DEF ToList, ToMap, ToCount
<1>8. \A op, k, v : op # "last" =>
         (Cmd(op, k, v) \in Range(s) <=> /\ <<g, x>> \in Hits
                                         /\ \/ op = "obj" /\ k = g /\ v = x
                                            \/ op = "map" /\ k = g /\ v = x
                                            \/ op = "nb" /\ k = g /\ v = 1)
  BY <1>2, CmdFields DEF Cmd
<1>9. ~(h = g /\ <<g, x>> \in Hits) => ToList(h)' = {} /\ ToMap(h)' = {} /\ ToCount(h)' = 0
  BY <1>3, <1>8 DEF ToList, ToMap, ToCount
<1>10. h = g /\ <<g, x>> \in Hits => ToList(h)' = {x} /\ ToMap(h)' = {x} /\ ToCount(h)' = 1
  BY <1>1, <1>3, <1>8 DEF ToList, ToMap, ToCount
<1>11. analysed'[h] = analysed[h] \cup IF h = g THEN {x} ELSE {}
  BY <1>1 DEF Controlled, TypeOK
<1>12. objs[h] \subseteq Obj /\ nb[h] \in Int
  BY DEF Controlled, TypeOK
<1> HIDE DEF ToList, ToMap, ToCount, g
<1>13. CASE h # g
  BY <1>3, <1>5, <1>6, <1>7, <1>9, <1>11, <1>13, AgreeStays
<1>14. CASE h = g /\ <<g, x>> \notin Hits
  <2>1. \A o \in ToList(h)' \cup ToMap(h)' : o \in analysed'[h] /\ <<h, o>> \in Hits
    BY <1>9, <1>14
  <2>2. ASSUME Whole(h)'
        PROVE  /\ \A o \in Obj : <<h, o>> \in Hits =>
                    /\ o \in analysed'[h] <=> o \in objs'[h] \cup ToList(h)'
                    /\ o \in analysed'[h] <=> h \in hunts'[o] \/ o \in ToMap(h)'
               /\ nb'[h] + ToCount(h)' >= Cardinality(objs'[h] \cup ToList(h)')
    <3>1. Whole(h)
      BY <1>5, <2>2, WholeBack
    <3>2. /\ \A o \in Obj : <<h, o>> \in Hits =>
               /\ o \in analysed[h] <=> o \in objs[h] \cup ToList(h)
               /\ o \in analysed[h] <=> h \in hunts[o] \/ o \in ToMap(h)
          /\ nb[h] + ToCount(h) >= Cardinality(objs[h] \cup ToList(h))
      BY <1>6, <3>1 DEF Agree
    <3>3. \A o \in Obj : <<h, o>> \in Hits => (o \in analysed'[h] <=> o \in analysed[h])
      BY <1>11, <1>14
    <3>4. ToList(h)' = ToList(h) /\ ToMap(h)' = ToMap(h) /\ ToCount(h)' = ToCount(h)
      BY <1>7, <1>9, <1>14
    <3> QED
      BY <1>3, <3>2, <3>3, <3>4
  <2> QED
    BY <2>1, <2>2 DEF Agree
<1>15. CASE h = g /\ <<g, x>> \in Hits
  <2>1. \A o \in ToList(h)' \cup ToMap(h)' : o \in analysed'[h] /\ <<h, o>> \in Hits
    BY <1>10, <1>11, <1>15
  <2>2. ASSUME Whole(h)'
        PROVE  /\ \A o \in Obj : <<h, o>> \in Hits =>
                    /\ o \in analysed'[h] <=> o \in objs'[h] \cup ToList(h)'
                    /\ o \in analysed'[h] <=> h \in hunts'[o] \/ o \in ToMap(h)'
               /\ nb'[h] + ToCount(h)' >= Cardinality(objs'[h] \cup ToList(h)')
    <3>1. Whole(h)
      BY <1>5, <2>2, WholeBack
    <3>2. /\ \A o \in Obj : <<h, o>> \in Hits =>
               /\ o \in analysed[h] <=> o \in objs[h]
               /\ o \in analysed[h] <=> h \in hunts[o]
          /\ nb[h] >= Cardinality(objs[h])
      <4>1. /\ \A o \in Obj : <<h, o>> \in Hits =>
                 /\ o \in analysed[h] <=> o \in objs[h] \cup {}
                 /\ o \in analysed[h] <=> h \in hunts[o] \/ o \in {}
            /\ nb[h] + 0 >= Cardinality(objs[h] \cup {})
        BY <1>6, <1>7, <3>1 DEF Agree
      <4>2. objs[h] \cup {} = objs[h] /\ nb[h] + 0 = nb[h]
        BY <1>12
      <4> QED
        BY <4>1, <4>2
    <3>3. \A o \in Obj : <<h, o>> \in Hits =>
               /\ o \in analysed'[h] <=> o \in objs'[h] \cup ToList(h)'
               /\ o \in analysed'[h] <=> h \in hunts'[o] \/ o \in ToMap(h)'
      BY <1>3, <1>10, <1>11, <1>15, <3>2
    <3>4. nb[h] + 1 >= Cardinality(objs[h] \cup {x})
      <4>1. IsFiniteSet(objs[h])
        BY <1>12, ObjFacts, FS_Subset
      <4>2. /\ Cardinality(objs[h] \cup {x}) <= Cardinality(objs[h]) + 1
            /\ Cardinality(objs[h]) \in Nat /\ Cardinality(objs[h] \cup {x}) \in Nat
        BY <4>1, OneMore
      <4> QED
        BY <1>12, <3>2, <4>2
    <3> QED
      BY <1>3, <1>10, <1>15, <3>3, <3>4
  <2> QED
    BY <2>1, <2>2 DEF Agree
<1> QED
  BY <1>13, <1>14, <1>15

LEMMA InitMatches == Init => Matches
<1> SUFFICES ASSUME Init, NEW h \in Hunts  PROVE Agree(h)
  BY DEF Matches
<1>1. todo[Module] = <<>>
  BY DEF Init, Procs
<1>2. Commands(Module) = {}
  BY <1>1, Tuples DEF Commands
<1>3. ToList(h) = {} /\ ToMap(h) = {} /\ ToCount(h) = 0
  BY <1>2 DEF ToList, ToMap, ToCount
<1>4. objs[h] = {} /\ analysed[h] = {} /\ nb[h] = 0 /\ \A o \in Obj : h \notin hunts[o]
  BY DEF Init
<1>5. Cardinality({}) = 0
  BY FS_EmptySet
<1> HIDE DEF ToList, ToMap, ToCount
<1>6. objs[h] \cup ToList(h) = {}
  BY <1>3, <1>4
<1> QED
  BY <1>3, <1>4, <1>5, <1>6 DEF Agree

LEMMA StepMatches ==
  ASSUME Controlled, Deletions, Matches, [Next]_vars
  PROVE  Matches'
<1>1. CASE UNCHANGED vars
  <2>1. UNCHANGED <<nb, objs, hunts, analysed, stops>> /\ Commands(Module)' = Commands(Module)
    BY <1>1 DEF vars, Commands
  <2> SUFFICES ASSUME stops = 0, NEW h \in Hunts  PROVE Agree(h)'
    BY <2>1 DEF Matches
  <2>2. Agree(h)
    BY DEF Matches
  <2>3. ToList(h)' = ToList(h) /\ ToMap(h)' = ToMap(h) /\ ToCount(h)' = ToCount(h)
    BY <2>1, ModuleSame
  <2> QED
    BY <2>1, <2>2, <2>3, AgreeStays
<1>2. CASE \E p \in Procs : Command(p)
  BY <1>2, UserMatches, ModuleMatches DEF Procs
<1>3. CASE \E u \in Users : Flask(u)
  BY <1>3, FlaskRequests, RequestMatches
<1>4. CASE Pop \/ Start \/ TimesOut \/ CheckPause \/ Completed
  BY <1>4, QuietMoves, QuietMatches
<1>5. CASE Analyse
  BY <1>5, QuietMoves, QuietMatches, AnalyseMatches
<1>6. CASE Stop
  <2>1. stops' # 0
    BY <1>6 DEF Stop, Controlled, TypeOK
  <2> QED
    BY <2>1 DEF Matches
<1> QED
  BY <1>1, <1>2, <1>3, <1>4, <1>5, <1>6, NextSteps

\* Nothing is left to send for a hunt that is listed: no match, and no deletion.
LEMMA MatchesSettled ==
  ASSUME Controlled, Matches, stops = 0, NEW h \in all,
         \A p \in Procs : \A c \in Commands(p) : c.hunt # h
  PROVE  /\ \A o \in Obj : <<h, o>> \in Hits =>
              (o \in analysed[h] <=> o \in objs[h]) /\ (o \in objs[h] <=> h \in hunts[o])
         /\ nb[h] >= Cardinality(objs[h])
<1>1. h \in Hunts /\ objs[h] \subseteq Obj /\ nb[h] \in Int
  BY DEF Controlled, TypeOK
<1>2. Whole(h)
  BY ListsFields DEF Whole, Deleting, Gone
<1>3. ToList(h) = {} /\ ToMap(h) = {} /\ ToCount(h) = 0
  BY CmdFields DEF ToList, ToMap, ToCount, Procs
<1> HIDE DEF ToList, ToMap, ToCount
<1>4. /\ \A o \in Obj : <<h, o>> \in Hits =>
            /\ o \in analysed[h] <=> o \in objs[h] \cup ToList(h)
            /\ o \in analysed[h] <=> h \in hunts[o] \/ o \in ToMap(h)
      /\ nb[h] + ToCount(h) >= Cardinality(objs[h] \cup ToList(h))
  BY <1>1, <1>2 DEF Matches, Agree
<1>5. objs[h] \cup ToList(h) = objs[h] /\ nb[h] + ToCount(h) = nb[h]
  BY <1>1, <1>3
<1> QED
  BY <1>3, <1>4, <1>5

\* While AIL is not stopped, a hunt that is listed and on which no command is left to send has
\* as its matches the objects that were analysed and that its rule matches, and the objects
\* know it; its counter is not below their number.
THEOREM MatchesCorrect == Spec /\ [][NoEarlyDelete]_vars => [](MatchesListed /\ CountCovers)
<1>1. Init => Controlled /\ Deletions /\ Matches
  BY InitControlled, InitDeletions, InitMatches
<1>2. Controlled /\ [Next]_vars => Controlled'
  BY StepControlled
<1>3. Controlled /\ Deletions /\ [Next]_vars /\ [NoEarlyDelete]_vars => Deletions'
  BY StepDeletions
<1>4. Controlled /\ Deletions /\ Matches /\ [Next]_vars => Matches'
  BY StepMatches
<1>5. Controlled /\ Matches => MatchesListed /\ CountCovers
  BY MatchesSettled DEF MatchesListed, CountCovers
<1> QED
  BY <1>1, <1>2, <1>3, <1>4, <1>5, PTL DEF Spec

\* With one user, all of this holds without a hypothesis.
THEOREM OneUser ==
  (\A u, v \in Users : u = v) => (Spec => [](StateListed /\ MatchesListed /\ CountCovers))
<1> SUFFICES ASSUME \A u, v \in Users : u = v
             PROVE  Spec => [](StateListed /\ MatchesListed /\ CountCovers)
  OBVIOUS
<1>1. Init => Controlled
  BY InitControlled
<1>2. Controlled /\ [Next]_vars => Controlled'
  BY StepControlled
<1>3. Controlled => NoEarlyDelete
  BY OneAtATime
<1>4. Spec => [][NoEarlyDelete]_vars
  BY <1>1, <1>2, <1>3, PTL DEF Spec
<1> QED
  BY <1>4, ListedCorrect, MatchesCorrect, PTL

=============================================================================
