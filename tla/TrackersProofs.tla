--------------------------- MODULE TrackersProofs ---------------------------
(***************************************************************************)
(* Proofs about Trackers, for any trackers, terms, kinds, objects, days    *)
(* and bounds.                                                             *)
(*                                                                         *)
(* What the commands of a list will have done is said of a cell, a member  *)
(* of a set or a field of a hash: Gives(q, z, v) when the last of them     *)
(* that touches z leaves v there, Quiet(q, z) when none touches it.        *)
(***************************************************************************)
EXTENDS Trackers, FiniteSetTheorems, SequenceTheorems, WellFoundedInduction, TLAPS

Item(x) == <<"item", x>>
FieldOf(u, f) == <<"field", u, f>>
Fields == {"type", "tracked", "level", "filters", "first", "last"}

Touches(c, z) ==
    \/ c[1] \in {"sadd", "srem"} /\ z = Item(c[2])
    \/ c[1] = "hset" /\ z = FieldOf(c[2], c[3])
    \/ c[1] = "del" /\ \E f \in Fields : z = FieldOf(c[2], f)

Leaves(c) == CASE c[1] = "sadd" -> "in" [] c[1] = "srem" -> "out"
               [] c[1] = "hset" -> c[4] [] OTHER -> None

Writes(c, z, v) == Touches(c, z) /\ v = Leaves(c)

Quiet(q, z) == \A i \in 1 .. Len(q) : ~Touches(q[i], z)
Gives(q, z, v) == \E i \in 1 .. Len(q) : /\ Writes(q[i], z, v)
                                         /\ \A j \in (i + 1) .. Len(q) : ~Touches(q[j], z)

Now(z) == IF z[1] = "item" THEN (IF z[2] \in db THEN "in" ELSE "out")
                           ELSE hash[z[2]][z[3]]
Will(p, z, v) == Gives(todo[p], z, v) \/ (Quiet(todo[p], z) /\ Now(z) = v)

----------------------------------------------------------------------------
(***************************************************************************)
(* Lists of commands: none, one, one after the other, the first and the    *)
(* rest, a loop.                                                           *)
(***************************************************************************)
LEMMA EmptyList ==
  ASSUME NEW z, NEW v
  PROVE  Quiet(<<>>, z) /\ ~Gives(<<>>, z, v)
  BY DEF Quiet, Gives

LEMMA OneCommand ==
  ASSUME NEW c, NEW z, NEW v
  PROVE  /\ Quiet(<<c>>, z) <=> ~Touches(c, z)
         /\ Gives(<<c>>, z, v) <=> Writes(c, z, v)
  BY DEF Quiet, Gives

LEMMA JoinedLists ==
  ASSUME NEW S, NEW p \in Seq(S), NEW q \in Seq(S), NEW z, NEW v
  PROVE  /\ p \o q \in Seq(S)
         /\ Quiet(p \o q, z) <=> Quiet(p, z) /\ Quiet(q, z)
         /\ Gives(p \o q, z, v) <=> Gives(q, z, v) \/ (Gives(p, z, v) /\ Quiet(q, z))
  <1>0. /\ p \o q \in Seq(S) /\ Len(p \o q) = Len(p) + Len(q)
        /\ Len(p) \in Nat /\ Len(q) \in Nat
        /\ \A i \in 1 .. Len(p) : (p \o q)[i] = p[i]
        /\ \A i \in 1 .. Len(q) : (p \o q)[Len(p) + i] = q[i]
    OBVIOUS
  <1>1. \A i \in 1 .. Len(p \o q) : i \in 1 .. Len(p) \/ \E j \in 1 .. Len(q) : i = Len(p) + j
    <2> TAKE i \in 1 .. Len(p \o q)
    <2>1. CASE i <= Len(p)
      BY <2>1, <1>0
    <2>2. CASE ~(i <= Len(p))
      <3> DEFINE j == i - Len(p)
      <3>1. j \in 1 .. Len(q) /\ i = Len(p) + j
        BY <2>2, <1>0
      <3>2. QED
        BY <3>1
    <2>3. QED
      BY <2>1, <2>2
  <1> DEFINE r == p \o q
  <1>2. ASSUME Quiet(p, z), Quiet(q, z)
        PROVE  Quiet(r, z)
    BY <1>0, <1>1, <1>2 DEF Quiet
  <1>3. ASSUME Quiet(r, z)
        PROVE  Quiet(p, z) /\ Quiet(q, z)
    <2>1. \A i \in 1 .. Len(p) : i \in 1 .. Len(r)
      BY <1>0
    <2>2. \A i \in 1 .. Len(q) : Len(p) + i \in 1 .. Len(r)
      BY <1>0
    <2>3. QED
      BY <1>0, <2>1, <2>2, <1>3 DEF Quiet
  <1>4. ASSUME Gives(q, z, v)
        PROVE  Gives(r, z, v)
    <2>1. PICK i \in 1 .. Len(q) : /\ Writes(q[i], z, v)
                                   /\ \A j \in (i + 1) .. Len(q) : ~Touches(q[j], z)
      BY <1>4 DEF Gives
    <2>2. Len(p) + i \in 1 .. Len(r) /\ Writes(r[Len(p) + i], z, v)
      BY <2>1, <1>0
    <2>3. ASSUME NEW j \in (Len(p) + i + 1) .. Len(r)
          PROVE  ~Touches(r[j], z)
      <3> DEFINE k == j - Len(p)
      <3>1. k \in (i + 1) .. Len(q) /\ k \in 1 .. Len(q) /\ j = Len(p) + k
        BY <1>0
      <3>2. r[j] = q[k]
        BY <3>1, <1>0
      <3>3. QED
        BY <3>1, <3>2, <2>1
    <2>4. QED
      BY <2>2, <2>3 DEF Gives
  <1>5. ASSUME Gives(p, z, v), Quiet(q, z)
        PROVE  Gives(r, z, v)
    <2>1. PICK i \in 1 .. Len(p) : /\ Writes(p[i], z, v)
                                   /\ \A j \in (i + 1) .. Len(p) : ~Touches(p[j], z)
      BY <1>5 DEF Gives
    <2>2. i \in 1 .. Len(r) /\ Writes(r[i], z, v)
      BY <2>1, <1>0
    <2>3. ASSUME NEW j \in (i + 1) .. Len(r)
          PROVE  ~Touches(r[j], z)
      <3>1. j \in 1 .. Len(r)
        BY <1>0
      <3>2. CASE j \in 1 .. Len(p)
        <4>1. j \in (i + 1) .. Len(p)
          BY <3>2, <1>0
        <4>2. QED
          BY <4>1, <3>2, <2>1, <1>0
      <3>3. CASE \E k \in 1 .. Len(q) : j = Len(p) + k
        BY <3>3, <1>0, <1>5 DEF Quiet
      <3>4. QED
        BY <3>1, <3>2, <3>3, <1>1
    <2>4. QED
      BY <2>2, <2>3 DEF Gives
  <1>6. ASSUME Gives(r, z, v), ~Gives(q, z, v)
        PROVE  Gives(p, z, v) /\ Quiet(q, z)
    <2>1. PICK i \in 1 .. Len(r) : /\ Writes(r[i], z, v)
                                   /\ \A j \in (i + 1) .. Len(r) : ~Touches(r[j], z)
      BY <1>6 DEF Gives
    <2>2. CASE i \in 1 .. Len(p)
      <3>1. \A k \in 1 .. Len(q) : Len(p) + k \in (i + 1) .. Len(r)
        BY <2>2, <1>0
      <3>2. Quiet(q, z)
        BY <3>1, <2>1, <1>0 DEF Quiet
      <3>3. \A j \in (i + 1) .. Len(p) : j \in 1 .. Len(p) /\ j \in (i + 1) .. Len(r)
        BY <2>2, <1>0
      <3>4. Writes(p[i], z, v) /\ \A j \in (i + 1) .. Len(p) : ~Touches(p[j], z)
        BY <3>3, <2>1, <2>2, <1>0
      <3>5. QED
        BY <3>2, <3>4, <2>2 DEF Gives
    <2>3. CASE \E k \in 1 .. Len(q) : i = Len(p) + k
      <3>1. PICK k \in 1 .. Len(q) : i = Len(p) + k
        BY <2>3
      <3>2. \A j \in (k + 1) .. Len(q) : j \in 1 .. Len(q) /\ Len(p) + j \in (i + 1) .. Len(r)
        BY <3>1, <1>0
      <3>3. Writes(q[k], z, v) /\ \A j \in (k + 1) .. Len(q) : ~Touches(q[j], z)
        BY <3>1, <3>2, <2>1, <1>0
      <3>4. QED
        BY <3>3, <1>6 DEF Gives
    <2>4. QED
      BY <2>2, <2>3, <1>1
  <1>7. QED
    BY <1>0, <1>2, <1>3, <1>4, <1>5, <1>6

\* The first command, then the others.
LEMMA FirstAndRest ==
  ASSUME NEW S, NEW q \in Seq(S), q # <<>>, NEW z, NEW v
  PROVE  /\ Head(q) \in S /\ Tail(q) \in Seq(S) /\ q = <<Head(q)>> \o Tail(q)
         /\ Quiet(q, z) <=> ~Touches(Head(q), z) /\ Quiet(Tail(q), z)
         /\ Gives(q, z, v) <=> \/ Gives(Tail(q), z, v)
                               \/ Writes(Head(q), z, v) /\ Quiet(Tail(q), z)
  <1>1. Head(q) \in S /\ Tail(q) \in Seq(S) /\ <<Head(q)>> \in Seq(S)
    OBVIOUS
  <1>2. q = <<Head(q)>> \o Tail(q)
    OBVIOUS
  <1>3. ASSUME NEW c \in S, NEW r \in Seq(S), q = <<c>> \o r
        PROVE  /\ Quiet(q, z) <=> ~Touches(c, z) /\ Quiet(r, z)
               /\ Gives(q, z, v) <=> Gives(r, z, v) \/ (Writes(c, z, v) /\ Quiet(r, z))
    <2>1. <<c>> \in Seq(S)
      OBVIOUS
    <2>2. /\ Quiet(<<c>> \o r, z) <=> Quiet(<<c>>, z) /\ Quiet(r, z)
          /\ Gives(<<c>> \o r, z, v) <=> Gives(r, z, v) \/ (Gives(<<c>>, z, v) /\ Quiet(r, z))
      BY <2>1, JoinedLists
    <2>3. QED
      BY <1>3, <2>2, OneCommand
  <1>4. QED
    BY <1>1, <1>2, <1>3

\* What a list leaves in a cell is one thing.
LEMMA LeavesOne ==
  ASSUME NEW S, NEW q \in Seq(S), NEW z, NEW v, NEW w, Gives(q, z, v)
  PROVE  ~Quiet(q, z) /\ (Gives(q, z, w) => v = w)
  <1>0. Len(q) \in Nat
    OBVIOUS
  <1>1. PICK i \in 1 .. Len(q) : /\ Writes(q[i], z, v)
                                 /\ \A j \in (i + 1) .. Len(q) : ~Touches(q[j], z)
    BY DEF Gives
  <1>2. ~Quiet(q, z)
    BY <1>1 DEF Quiet, Writes
  <1>3. ASSUME Gives(q, z, w)
        PROVE  v = w
    <2>1. PICK k \in 1 .. Len(q) : /\ Writes(q[k], z, w)
                                   /\ \A j \in (k + 1) .. Len(q) : ~Touches(q[j], z)
      BY <1>3 DEF Gives
    <2>2. ~(k > i) /\ ~(i > k)
      BY <1>0, <1>1, <2>1 DEF Writes
    <2>3. i = k
      BY <1>0, <2>2
    <2>4. QED
      BY <2>3, <1>1, <2>1 DEF Writes
  <1>4. QED
    BY <1>2, <1>3

\* A set in some order.
LEMMA OrderOfSet ==
  ASSUME NEW S, IsFiniteSet(S)
  PROVE  /\ SetToSeq(S) \in Seq(S)
         /\ \A x \in S : \E i \in 1 .. Len(SetToSeq(S)) : SetToSeq(S)[i] = x
         /\ \A i, j \in 1 .. Len(SetToSeq(S)) : SetToSeq(S)[i] = SetToSeq(S)[j] => i = j
  <1> DEFINE n == Cardinality(S)
             xs == SetToSeq(S)
  <1>1. n \in Nat /\ ExistsBijection(1 .. n, S)
    BY FS_CardinalityType
  <1>2. \E f \in [1 .. n -> S] : IsInjective(f)
    BY <1>1 DEF ExistsBijection, Bijection, Injection
  <1>3. xs \in [1 .. n -> S] /\ IsInjective(xs)
    BY <1>2 DEF SetToSeq
  <1>4. xs \in Injection(1 .. n, S)
    BY <1>3 DEF Injection
  <1>5. IsFiniteSet(1 .. n) /\ Cardinality(1 .. n) = n
    BY <1>1, FS_Interval
  <1>6. xs \in Surjection(1 .. n, S)
    BY <1>4, <1>5, FS_Injection
  <1>7. xs \in Seq(S) /\ Len(xs) = n
    BY <1>1, <1>3
  <1>8. \A x \in S : \E i \in 1 .. n : xs[i] = x
    BY <1>6 DEF Surjection
  <1>9. \A i, j \in 1 .. n : xs[i] = xs[j] => i = j
    BY <1>3 DEF IsInjective
  <1>10. QED
    BY <1>7, <1>8, <1>9

\* Where the commands of a loop are.
OfLoop(q, S, C, f) ==
    /\ q \in Seq(C)
    /\ \A i \in 1 .. Len(q) : \E x \in S : q[i] \in {f[x][1], f[x][2]}
    /\ \A x \in S : \E i \in 1 .. Len(q) :
          /\ i + 1 \in 1 .. Len(q)
          /\ q[i] = f[x][1] /\ q[i + 1] = f[x][2]
          /\ \A j \in (1 .. Len(q)) \ {i, i + 1} :
                \E y \in S \ {x} : q[j] \in {f[y][1], f[y][2]}

LEMMA LoopPlaces ==
  ASSUME NEW S, IsFiniteSet(S), NEW C, NEW f \in [S -> C \X C]
  PROVE  OfLoop(Each(f), S, C, f)
  <1> DEFINE xs == SetToSeq(S)
             n == Len(xs)
             k(i) == (i + 1) \div 2
             b(i) == 2 - (i % 2)
  <1>1. /\ xs \in Seq(S) /\ n \in Nat
        /\ \A x \in S : \E i \in 1 .. n : xs[i] = x
        /\ \A i, j \in 1 .. n : xs[i] = xs[j] => i = j
        /\ \A i \in 1 .. n : xs[i] \in S
    BY OrderOfSet
  <1>2. DOMAIN f = S /\ Each(f) = [i \in 1 .. 2 * n |-> f[xs[k(i)]][b(i)]]
    BY DEF Each
  <1>3. \A i \in 1 .. 2 * n : k(i) \in 1 .. n /\ b(i) \in {1, 2}
    BY <1>1
  <1>4. \A m \in 1 .. n : /\ 2 * m - 1 \in 1 .. 2 * n /\ 2 * m \in 1 .. 2 * n
                          /\ k(2 * m - 1) = m /\ b(2 * m - 1) = 1
                          /\ k(2 * m) = m /\ b(2 * m) = 2
    BY <1>1
  <1>5. \A i \in 1 .. 2 * n : i = 2 * k(i) - 1 \/ i = 2 * k(i)
    BY <1>1
  <1> HIDE DEF k, b, xs, n
  <1>6. /\ Each(f) \in Seq(C) /\ Len(Each(f)) = 2 * n
    <2>1. \A i \in 1 .. 2 * n : f[xs[k(i)]][b(i)] \in C
      BY <1>1, <1>3
    <2>2. 2 * n \in Nat
      BY <1>1
    <2>3. QED
      BY <1>2, <2>1, <2>2
  <1>7. \A i \in 1 .. 2 * n : Each(f)[i] = f[xs[k(i)]][b(i)]
    BY <1>2
  <1>8. \A i \in 1 .. 2 * n : Each(f)[i] \in {f[xs[k(i)]][1], f[xs[k(i)]][2]}
    BY <1>3, <1>7
  <1>9. ASSUME NEW x \in S
        PROVE  \E i \in 1 .. 2 * n :
                 /\ i + 1 \in 1 .. 2 * n
                 /\ Each(f)[i] = f[x][1] /\ Each(f)[i + 1] = f[x][2]
                 /\ \A j \in (1 .. 2 * n) \ {i, i + 1} :
                       \E y \in S \ {x} : Each(f)[j] \in {f[y][1], f[y][2]}
    <2>1. PICK m \in 1 .. n : xs[m] = x
      BY <1>1
    <2>2. /\ 2 * m - 1 \in 1 .. 2 * n /\ (2 * m - 1) + 1 = 2 * m
          /\ Each(f)[2 * m - 1] = f[x][1] /\ Each(f)[2 * m] = f[x][2]
      BY <1>1, <1>4, <1>7, <2>1
    <2>3. ASSUME NEW j \in (1 .. 2 * n) \ {2 * m - 1, 2 * m}
          PROVE  \E y \in S \ {x} : Each(f)[j] \in {f[y][1], f[y][2]}
      <3>1. k(j) \in 1 .. n /\ k(j) # m
        BY <1>3, <1>5
      <3>2. xs[k(j)] \in S \ {x}
        BY <1>1, <2>1, <3>1
      <3>3. QED
        BY <1>8, <3>2
    <2>4. 2 * m \in 1 .. 2 * n
      BY <1>4
    <2>5. QED
      BY <2>2, <2>3, <2>4
  <1>10. \A i \in 1 .. 2 * n : \E x \in S : Each(f)[i] \in {f[x][1], f[x][2]}
    BY <1>1, <1>3, <1>8
  <1>11. QED
    BY <1>6, <1>9, <1>10 DEF OfLoop

LEMMA LoopQuiet ==
  ASSUME NEW S, IsFiniteSet(S), NEW C, NEW f \in [S -> C \X C], NEW z
  PROVE  Quiet(Each(f), z) <=> \A x \in S : ~Touches(f[x][1], z) /\ ~Touches(f[x][2], z)
  <1>1. OfLoop(Each(f), S, C, f)
    BY LoopPlaces
  <1>2. SUFFICES ASSUME NEW q, OfLoop(q, S, C, f)
                 PROVE  Quiet(q, z) <=> \A x \in S : ~Touches(f[x][1], z) /\ ~Touches(f[x][2], z)
    BY <1>1
  <1>3. ASSUME Quiet(q, z), NEW x \in S
        PROVE  ~Touches(f[x][1], z) /\ ~Touches(f[x][2], z)
    <2>1. PICK i \in 1 .. Len(q) : i + 1 \in 1 .. Len(q) /\ q[i] = f[x][1] /\ q[i + 1] = f[x][2]
      BY <1>2 DEF OfLoop
    <2>2. QED
      BY <2>1, <1>3 DEF Quiet
  <1>4. ASSUME \A x \in S : ~Touches(f[x][1], z) /\ ~Touches(f[x][2], z)
        PROVE  Quiet(q, z)
    BY <1>2, <1>4 DEF Quiet, OfLoop
  <1>5. QED
    BY <1>3, <1>4

\* A cell that one of the commands writes, and no other touches.
WritesOnce(S, f, x, z, v) ==
    /\ (Writes(f[x][1], z, v) /\ ~Touches(f[x][2], z)) \/ Writes(f[x][2], z, v)
    /\ \A y \in S \ {x} : ~Touches(f[y][1], z) /\ ~Touches(f[y][2], z)

LEMMA LoopGives ==
  ASSUME NEW S, IsFiniteSet(S), NEW C, NEW f \in [S -> C \X C], NEW z, NEW v, NEW x \in S,
         WritesOnce(S, f, x, z, v)
  PROVE  Gives(Each(f), z, v)
  <1>1. OfLoop(Each(f), S, C, f)
    BY LoopPlaces
  <1>2. SUFFICES ASSUME NEW q, OfLoop(q, S, C, f)
                 PROVE  Gives(q, z, v)
    BY <1>1
  <1>3. PICK i \in 1 .. Len(q) :
          /\ i + 1 \in 1 .. Len(q)
          /\ q[i] = f[x][1] /\ q[i + 1] = f[x][2]
          /\ \A j \in (1 .. Len(q)) \ {i, i + 1} : \E y \in S \ {x} : q[j] \in {f[y][1], f[y][2]}
    BY <1>2 DEF OfLoop
  <1>4. \A j \in (1 .. Len(q)) \ {i, i + 1} : ~Touches(q[j], z)
    BY <1>3 DEF WritesOnce
  <1>5. Len(q) \in Nat
    BY <1>2 DEF OfLoop
  <1>6. CASE Writes(f[x][1], z, v) /\ ~Touches(f[x][2], z)
    <2>1. \A j \in (i + 1) .. Len(q) : j = i + 1 \/ j \in (1 .. Len(q)) \ {i, i + 1}
      BY <1>5
    <2>2. \A j \in (i + 1) .. Len(q) : ~Touches(q[j], z)
      BY <1>3, <1>4, <1>6, <2>1
    <2>3. QED
      BY <1>3, <1>6, <2>2 DEF Gives
  <1>7. CASE Writes(f[x][2], z, v)
    <2>1. \A j \in (i + 2) .. Len(q) : j \in (1 .. Len(q)) \ {i, i + 1}
      BY <1>5
    <2>2. \A j \in (i + 1 + 1) .. Len(q) : ~Touches(q[j], z)
      BY <1>4, <2>1
    <2>3. QED
      BY <1>3, <1>7, <2>2 DEF Gives
  <1>8. QED
    BY <1>6, <1>7 DEF WritesOnce

----------------------------------------------------------------------------
(***************************************************************************)
(* The inductive invariant.  First the commands: those about matches,      *)
(* which the modules send too, and the others, which only Flask sends.     *)
(***************************************************************************)
Filters == (SUBSET Kinds) \cup {None}

MatchItems ==
    {<<"date", u, d, o>> : u \in Uuids, d \in Days, o \in Objs}
    \cup {<<"dates", o, u, d>> : o \in Objs, u \in Uuids, d \in Days}
    \cup {<<"type", u, o>> : u \in Uuids, o \in Objs}
    \cup {<<"of", o, u>> : o \in Objs, u \in Uuids}

PlainItems ==
    {<<"terms", t, k, w>> : t \in Types, k \in Kinds, w \in Terms}
    \cup {<<"uuids", t, w, u, k>> : t \in Types, w \in Terms, u \in Uuids, k \in Kinds}
    \cup {<<"tracked", t, w>> : t \in Types, w \in Terms}
    \cup {<<"uuid", t, w, u>> : t \in Types, w \in Terms, u \in Uuids}
    \cup {<<"all", u>> : u \in Uuids}
    \cup {<<"allOf", t, u>> : t \in Types, u \in Uuids}
    \cup {<<"level", l, u>> : l \in Levels, u \in Uuids}
    \cup {<<"levelOf", l, t, u>> : l \in Levels, t \in Types, u \in Uuids}

MatchCmds ==
    {Sadd(x) : x \in MatchItems} \cup {Srem(x) : x \in MatchItems}
    \cup {Hset(u, f, v) : u \in Uuids, f \in {"first", "last"}, v \in Days \cup {None}}
    \cup {<<"add", u, o, d>> : u \in Uuids, o \in Objs, d \in Days}
    \cup {<<"remove", u, o>> : u \in Uuids, o \in Objs}
    \cup {<<"seen", u, d>> : u \in Uuids, d \in Days}
    \cup {<<"range", u>> : u \in Uuids}

PlainCmds ==
    {Sadd(x) : x \in PlainItems} \cup {Srem(x) : x \in PlainItems}
    \cup {Hset(u, "type", t) : u \in Uuids, t \in Types}
    \cup {Hset(u, "tracked", w) : u \in Uuids, w \in Terms}
    \cup {Hset(u, "level", l) : u \in Uuids, l \in Levels}
    \cup {Hset(u, "filters", s) : u \in Uuids, s \in Filters}
    \cup {<<"objs", u>> : u \in Uuids}
    \cup {<<"del", u>> : u \in Uuids}
    \cup {<<"trigger", t>> : t \in Types}

Cmds == MatchCmds \cup PlainCmds

Hashes == [type : Types \cup {None}, tracked : Terms \cup {None}, level : Levels \cup {None},
           filters : Filters, first : Days \cup {None}, last : Days \cup {None}]
Mods == [pc : {"idle", "read", "stamp", "look", "match"}, copy : SUBSET (Kinds \X Terms),
         obj : Objs \cup {None}, terms : SUBSET Terms, found : SUBSET Uuids]

Typed ==
    /\ hash \in [Uuids -> Hashes]
    /\ dirty \subseteq Types
    /\ mod \in [Types -> Mods]
    /\ \A t \in Types : mod[t].pc # "idle" => mod[t].obj \in Objs
    /\ todo \in [Procs -> Seq(Cmds)]
    /\ \A t \in Types : todo[t] \in Seq(MatchCmds)

\* What the trackers are when the request is over.
WillHave(x) == Will(Flask, Item(x), "in")
WillBe(u, f, v) == Will(Flask, FieldOf(u, f), v)
WillList(u) == WillHave(<<"all", u>>)

Listed ==
    \A u \in Uuids : WillList(u) =>
        /\ \E t \in Types : WillBe(u, "type", t)
        /\ \E w \in Terms : WillBe(u, "tracked", w)
        /\ \E l \in Levels : WillBe(u, "level", l)
        /\ \E s \in Filters : WillBe(u, "filters", s)

WillTrack(u, t, w, k) ==
    /\ WillList(u) /\ WillBe(u, "type", t) /\ WillBe(u, "tracked", w)
    /\ \E s \in Filters : WillBe(u, "filters", s) /\ k \in Tracks(s)

WillShare(u, v, t, w) ==
    /\ u # v /\ WillList(u) /\ WillList(v)
    /\ WillBe(u, "type", t) /\ WillBe(v, "type", t)
    /\ WillBe(u, "tracked", w) /\ WillBe(v, "tracked", w)

WillMap(u, t, w) == WillList(u) /\ WillBe(u, "type", t) /\ WillBe(u, "tracked", w)
WillStand(u, l, t) == WillList(u) /\ WillBe(u, "level", l) /\ WillBe(u, "type", t)

Books ==
    /\ Listed
    /\ \A t \in Types, w \in Terms, u \in Uuids, k \in Kinds :
          WillHave(<<"uuids", t, w, u, k>>) <=> WillTrack(u, t, w, k)
    /\ \A t \in Types, w \in Terms, k \in Kinds :
          WillHave(<<"terms", t, k, w>>) => \E u \in Uuids : WillTrack(u, t, w, k)
    /\ \A t \in Types, w \in Terms, u \in Uuids, k \in Kinds :
          WillTrack(u, t, w, k) => WillHave(<<"terms", t, k, w>>) \/ <<t, w>> \in shared
    /\ \A t \in Types, w \in Terms, u, v \in Uuids : WillShare(u, v, t, w) => <<t, w>> \in shared
    /\ \A u \in Uuids, l \in Levels :
          WillHave(<<"level", l, u>>) <=> WillList(u) /\ WillBe(u, "level", l)
    /\ \A u \in Uuids, l \in Levels, t \in Types :
          WillList(u) /\ WillBe(u, "level", l) /\ WillBe(u, "type", t)
             => WillHave(<<"levelOf", l, t, u>>)
    /\ \A u \in Uuids, l \in Levels, t \in Types :
          WillHave(<<"levelOf", l, t, u>>) => WillStand(u, l, t) \/ <<"levelOf", l, t, u>> \in stray
    /\ \A t \in Types, w \in Terms, u \in Uuids :
          \/ <<"uuid", t, w, u>> \in stray
          \/ WillHave(<<"uuid", t, w, u>>) <=> WillMap(u, t, w)

\* The copies: a change of the terms is followed by a note to the module.
OfTerms(c, t) == c[1] \in {"sadd", "srem"} /\ c[2][1] = "terms" /\ c[2][2] = t
Told(q) == \A i \in 1 .. Len(q), t \in Types : OfTerms(q[i], t) =>
              \E j \in (i + 1) .. Len(q) : q[j] = <<"trigger", t>>
WillTell(t) == \E i \in 1 .. Len(todo[Flask]) : todo[Flask][i] = <<"trigger", t>>

Copies ==
    /\ Told(todo[Flask])
    /\ \A t \in Types :
         /\ mod[t].pc = "stamp" => mod[t].copy = TermsOf(t) \/ t \in overlap
         /\ mod[t].pc \in {"idle", "look", "match"} =>
               mod[t].copy = TermsOf(t) \/ t \in overlap \/ t \in dirty \/ WillTell(t)

\* The matches: what is begun about one is sent before anything else is begun, and by one
\* process at a time.
MatchOf(u, o) == Links(u, o) \cup {<<"date", u, d, o>> : d \in Days}
Still(q) == \A x \in MatchItems : Quiet(q, Item(x))
Begins(c) == c[1] \in {"add", "remove", "objs"}

InTurn(q) ==
    \A i \in 1 .. Len(q) : Begins(q[i]) =>
        \A j \in (i + 1) .. Len(q), x \in MatchItems : ~Touches(q[j], Item(x))
DateLinked(q) ==
    \A i \in 1 .. Len(q), u \in Uuids, o \in Objs, d \in Days :
        Touches(q[i], Item(<<"date", u, d, o>>)) =>
            \E j \in (i + 1) .. Len(q) : Touches(q[j], Item(<<"of", o, u>>))

Busy(p, u, o) == \E x \in MatchOf(u, o) : ~Quiet(todo[p], Item(x))
Alone(p, u, o) == \A q \in Procs \ {p} : ~Busy(q, u, o)

WillMatch(p, x) == Will(p, Item(x), "in")
Agreed(p, u, o) ==
    /\ \A d \in Days : WillMatch(p, <<"date", u, d, o>>) <=> WillMatch(p, <<"dates", o, u, d>>)
    /\ WillMatch(p, <<"of", o, u>>) <=> \E d \in Days : WillMatch(p, <<"date", u, d, o>>)
    /\ WillMatch(p, <<"type", u, o>>) <=> \E d \in Days : WillMatch(p, <<"date", u, d, o>>)

InOrder == \A p \in Procs : InTurn(todo[p]) /\ DateLinked(todo[p])
ByOne(u, o) == \A p \in Procs : /\ Busy(p, u, o) => Alone(p, u, o)
                                /\ Alone(p, u, o) => Agreed(p, u, o)

Matched == InOrder /\ \A u \in Uuids, o \in Objs : <<u, o>> \notin raced => ByOne(u, o)

----------------------------------------------------------------------------
(***************************************************************************)
(* What each command touches, and each of the lists that requests are made *)
(* of.                                                                     *)
(***************************************************************************)
LEMMA CommandsTouch ==
  /\ \A x, z : Touches(Sadd(x), z) <=> z = Item(x)
  /\ \A x, z : Touches(Srem(x), z) <=> z = Item(x)
  /\ \A u, f, w, z : Touches(Hset(u, f, w), z) <=> z = FieldOf(u, f)
  /\ \A u, z : Touches(<<"del", u>>, z) <=> \E f \in Fields : z = FieldOf(u, f)
  /\ \A t, z : ~Touches(<<"trigger", t>>, z)
  /\ \A u, z : ~Touches(<<"objs", u>>, z) /\ ~Touches(<<"range", u>>, z)
  /\ \A u, d, z : ~Touches(<<"seen", u, d>>, z)
  /\ \A u, o, z : ~Touches(<<"remove", u, o>>, z)
  /\ \A u, o, d, z : ~Touches(<<"add", u, o, d>>, z)
  BY DEF Touches, Sadd, Srem, Hset

LEMMA CommandsLeave ==
  /\ \A x : Leaves(Sadd(x)) = "in" /\ Leaves(Srem(x)) = "out"
  /\ \A u, f, w : Leaves(Hset(u, f, w)) = w
  /\ \A u : Leaves(<<"del", u>>) = None
  BY DEF Leaves, Sadd, Srem, Hset

LEMMA CellsDiffer ==
  /\ \A x, y : Item(x) = Item(y) <=> x = y
  /\ \A u, f, v, g : FieldOf(u, f) = FieldOf(v, g) <=> u = v /\ f = g
  /\ \A x, u, f : Item(x) # FieldOf(u, f)
  BY DEF Item, FieldOf

LEMMA TablesDiffer ==
  ASSUME NEW x, NEW y, x[1] # y[1]
  PROVE  Item(x) # Item(y)
  BY CellsDiffer

LEMMA SetLevelDoes ==
  ASSUME NEW u \in Uuids, NEW t \in Types, NEW l \in Levels
  PROVE  /\ SetLevel(u, t, l) \in Seq(Cmds)
         /\ \A z : Quiet(SetLevel(u, t, l), z) <=>
              z \notin {Item(<<"level", l, u>>), Item(<<"levelOf", l, t, u>>), FieldOf(u, "level")}
         /\ Gives(SetLevel(u, t, l), Item(<<"level", l, u>>), "in")
         /\ Gives(SetLevel(u, t, l), Item(<<"levelOf", l, t, u>>), "in")
         /\ Gives(SetLevel(u, t, l), FieldOf(u, "level"), l)
  <1> DEFINE c1 == Sadd(<<"level", l, u>>)
             c2 == Sadd(<<"levelOf", l, t, u>>)
             c3 == Hset(u, "level", l)
             q == <<c1, c2, c3>>
  <1>1. c1 \in Cmds /\ c2 \in Cmds /\ c3 \in Cmds
    BY DEF Cmds, PlainCmds, PlainItems
  <1>2. /\ \A z : Touches(c1, z) <=> z = Item(<<"level", l, u>>)
        /\ \A z : Touches(c2, z) <=> z = Item(<<"levelOf", l, t, u>>)
        /\ \A z : Touches(c3, z) <=> z = FieldOf(u, "level")
        /\ Leaves(c1) = "in" /\ Leaves(c2) = "in" /\ Leaves(c3) = l
    BY CommandsTouch, CommandsLeave
  <1>3. /\ Item(<<"level", l, u>>) # Item(<<"levelOf", l, t, u>>)
        /\ Item(<<"level", l, u>>) # FieldOf(u, "level")
        /\ Item(<<"levelOf", l, t, u>>) # FieldOf(u, "level")
    BY CellsDiffer
  <1> HIDE DEF c1, c2, c3
  <1>4. q \in Seq(Cmds) /\ Len(q) = 3 /\ q[1] = c1 /\ q[2] = c2 /\ q[3] = c3
    BY <1>1
  <1>5. /\ \A z : Quiet(q, z) <=> z \notin {Item(<<"level", l, u>>), Item(<<"levelOf", l, t, u>>), FieldOf(u, "level")}
    BY <1>2, <1>4 DEF Quiet
  <1>6. /\ Gives(q, Item(<<"level", l, u>>), "in")
        /\ Gives(q, Item(<<"levelOf", l, t, u>>), "in")
        /\ Gives(q, FieldOf(u, "level"), l)
    BY <1>2, <1>3, <1>4 DEF Gives, Writes
  <1>7. QED
    BY <1>4, <1>5, <1>6 DEF SetLevel, c1, c2, c3

\* The cells that the properties are about, but for the matches.
GuardedItems ==
    {<<"terms", t, k, w>> : t \in Types, k \in Kinds, w \in Terms}
    \cup {<<"uuids", t, w, u, k>> : t \in Types, w \in Terms, u \in Uuids, k \in Kinds}
    \cup {<<"all", u>> : u \in Uuids}
    \cup {<<"level", l, u>> : l \in Levels, u \in Uuids}
    \cup {<<"levelOf", l, t, u>> : l \in Levels, t \in Types, u \in Uuids}
    \cup {<<"uuid", t, w, u>> : t \in Types, w \in Terms, u \in Uuids}
ItemCells == {Item(x) : x \in GuardedItems}
FieldCells == {FieldOf(u, f) : u \in Uuids, f \in {"type", "tracked", "level", "filters"}}
Guarded == ItemCells \cup FieldCells

LEMMA GuardedTables ==
  /\ \A x : Item(x) \in Guarded => x[1] \in {"terms", "uuids", "all", "level", "levelOf", "uuid"}
  /\ \A u, f : FieldOf(u, f) \in Guarded => f \in {"type", "tracked", "level", "filters"}
  <1>1. \A x \in GuardedItems : x[1] \in {"terms", "uuids", "all", "level", "levelOf", "uuid"}
    BY DEF GuardedItems
  <1>2. ASSUME NEW x, Item(x) \in Guarded
        PROVE  x[1] \in {"terms", "uuids", "all", "level", "levelOf", "uuid"}
    <2>1. x \in GuardedItems
      BY <1>2, CellsDiffer DEF Guarded, ItemCells, FieldCells
    <2>2. QED
      BY <1>1, <2>1
  <1>3. ASSUME NEW u, NEW f, FieldOf(u, f) \in Guarded
        PROVE  f \in {"type", "tracked", "level", "filters"}
    BY <1>3, CellsDiffer DEF Guarded, ItemCells, FieldCells
  <1>4. QED
    BY <1>2, <1>3

LEMMA GuardedCells ==
  /\ \A t \in Types, k \in Kinds, w \in Terms : Item(<<"terms", t, k, w>>) \in Guarded
  /\ \A t \in Types, w \in Terms, u \in Uuids, k \in Kinds : Item(<<"uuids", t, w, u, k>>) \in Guarded
  /\ \A u \in Uuids : Item(<<"all", u>>) \in Guarded
  /\ \A l \in Levels, u \in Uuids : Item(<<"level", l, u>>) \in Guarded
  /\ \A l \in Levels, t \in Types, u \in Uuids : Item(<<"levelOf", l, t, u>>) \in Guarded
  /\ \A t \in Types, w \in Terms, u \in Uuids : Item(<<"uuid", t, w, u>>) \in Guarded
  /\ \A u \in Uuids, f \in {"type", "tracked", "level", "filters"} : FieldOf(u, f) \in Guarded
  <1>1. \A x \in GuardedItems : Item(x) \in Guarded
    BY DEF Guarded, ItemCells
  <1>2. \A t \in Types, k \in Kinds, w \in Terms : <<"terms", t, k, w>> \in GuardedItems
    BY DEF GuardedItems
  <1>3. \A t \in Types, w \in Terms, u \in Uuids, k \in Kinds : <<"uuids", t, w, u, k>> \in GuardedItems
    BY DEF GuardedItems
  <1>4. \A u \in Uuids : <<"all", u>> \in GuardedItems
    BY DEF GuardedItems
  <1>5. \A l \in Levels, u \in Uuids : <<"level", l, u>> \in GuardedItems
    BY DEF GuardedItems
  <1>6. \A l \in Levels, t \in Types, u \in Uuids : <<"levelOf", l, t, u>> \in GuardedItems
    BY DEF GuardedItems
  <1>7. \A u \in Uuids, f \in {"type", "tracked", "level", "filters"} : FieldOf(u, f) \in Guarded
    BY DEF Guarded, FieldCells
  <1>8. \A t \in Types, w \in Terms, u \in Uuids : <<"uuid", t, w, u>> \in GuardedItems
    BY DEF GuardedItems
  <1>9. QED
    BY <1>1, <1>2, <1>3, <1>4, <1>5, <1>6, <1>7, <1>8

LEMMA OtherTables ==
  /\ \A t, w : Item(<<"tracked", t, w>>) \notin Guarded
  /\ \A t, u : Item(<<"allOf", t, u>>) \notin Guarded
  BY GuardedTables

LEMMA PlainCommands ==
  /\ \A t \in Types, w \in Terms, u \in Uuids :
        <<"tracked", t, w>> \in PlainItems /\ <<"uuid", t, w, u>> \in PlainItems
        /\ <<"allOf", t, u>> \in PlainItems /\ <<"all", u>> \in PlainItems
  /\ \A t \in Types, l \in Levels, u \in Uuids :
        <<"level", l, u>> \in PlainItems /\ <<"levelOf", l, t, u>> \in PlainItems
  /\ \A t \in Types, w \in Terms, u \in Uuids, k \in Kinds :
        <<"terms", t, k, w>> \in PlainItems /\ <<"uuids", t, w, u, k>> \in PlainItems
  /\ \A x \in PlainItems : Sadd(x) \in Cmds /\ Srem(x) \in Cmds
  /\ \A u \in Uuids : /\ \A t \in Types : Hset(u, "type", t) \in Cmds
                       /\ \A w \in Terms : Hset(u, "tracked", w) \in Cmds
                       /\ \A l \in Levels : Hset(u, "level", l) \in Cmds
                       /\ \A s \in Filters : Hset(u, "filters", s) \in Cmds
                       /\ <<"objs", u>> \in Cmds /\ <<"del", u>> \in Cmds
  /\ \A t \in Types : <<"trigger", t>> \in Cmds
  <1>1. \A t \in Types, w \in Terms, u \in Uuids :
        <<"tracked", t, w>> \in PlainItems /\ <<"uuid", t, w, u>> \in PlainItems
        /\ <<"allOf", t, u>> \in PlainItems /\ <<"all", u>> \in PlainItems
    BY DEF PlainItems
  <1>2. \A t \in Types, l \in Levels, u \in Uuids :
        <<"level", l, u>> \in PlainItems /\ <<"levelOf", l, t, u>> \in PlainItems
    BY DEF PlainItems
  <1>3. \A t \in Types, w \in Terms, u \in Uuids, k \in Kinds :
        <<"terms", t, k, w>> \in PlainItems /\ <<"uuids", t, w, u, k>> \in PlainItems
    BY DEF PlainItems
  <1>4. \A x \in PlainItems : Sadd(x) \in Cmds /\ Srem(x) \in Cmds
    BY DEF Cmds, PlainCmds
  <1>5. \A u \in Uuids : /\ \A t \in Types : Hset(u, "type", t) \in Cmds
                         /\ \A w \in Terms : Hset(u, "tracked", w) \in Cmds
                         /\ \A l \in Levels : Hset(u, "level", l) \in Cmds
                         /\ \A s \in Filters : Hset(u, "filters", s) \in Cmds
                         /\ <<"objs", u>> \in Cmds /\ <<"del", u>> \in Cmds
    BY DEF Cmds, PlainCmds
  <1>6. \A t \in Types : <<"trigger", t>> \in Cmds
    BY DEF Cmds, PlainCmds
  <1>7. QED
    BY <1>1, <1>2, <1>3, <1>4, <1>5, <1>6

LEMMA MatchesQuiet ==
  ASSUME NEW c \in MatchCmds, NEW z \in Guarded
  PROVE  ~Touches(c, z)
  <1>1. CASE \E x \in MatchItems : c \in {Sadd(x), Srem(x)}
    <2>1. PICK x \in MatchItems : c \in {Sadd(x), Srem(x)}
      BY <1>1
    <2>2. x[1] \in {"date", "dates", "type", "of"}
      BY DEF MatchItems
    <2>3. QED
      BY <2>1, <2>2, CommandsTouch, GuardedTables
  <1>2. CASE \E u, v : c \in {Hset(u, "first", v), Hset(u, "last", v)}
    BY <1>2, CommandsTouch, GuardedTables
  <1>3. CASE c[1] \in {"add", "remove", "seen", "range"}
    BY <1>3 DEF Touches
  <1>4. QED
    BY <1>1, <1>2, <1>3 DEF MatchCmds

LEMMA ListQuiet ==
  ASSUME NEW q \in Seq(MatchCmds), NEW z \in Guarded
  PROVE  Quiet(q, z)
  BY MatchesQuiet DEF Quiet

LEMMA FiniteKinds ==
  ASSUME NEW s \in Filters
  PROVE  Tracks(s) \subseteq Kinds /\ IsFiniteSet(Tracks(s))
  <1>1. Tracks(s) \in SUBSET Kinds
    BY DEF Tracks, Filters
  <1>2. QED
    BY <1>1, FS_Subset, TrackersAssumption

\* The loop of DelFilters and that of AddFilters: two commands for every kind.
OfKinds(f, K, u, t, w, v) ==
    \A k \in K : /\ \A z : Touches(f[k][1], z) <=> z = Item(<<"terms", t, k, w>>)
                 /\ \A z : Touches(f[k][2], z) <=> z = Item(<<"uuids", t, w, u, k>>)
                 /\ Leaves(f[k][1]) = v /\ Leaves(f[k][2]) = v

LEMMA KindsLoop ==
  ASSUME NEW u, NEW t, NEW w, NEW K \in SUBSET Kinds, NEW v, NEW f \in [K -> Cmds \X Cmds],
         OfKinds(f, K, u, t, w, v)
  PROVE  /\ Each(f) \in Seq(Cmds)
         /\ \A z : Quiet(Each(f), z) <=>
              \A k \in K : z # Item(<<"terms", t, k, w>>) /\ z # Item(<<"uuids", t, w, u, k>>)
         /\ \A k \in K : /\ Gives(Each(f), Item(<<"terms", t, k, w>>), v)
                         /\ Gives(Each(f), Item(<<"uuids", t, w, u, k>>), v)
  <1>1. IsFiniteSet(K)
    BY FS_Subset, TrackersAssumption
  <1>2. Each(f) \in Seq(Cmds)
    BY <1>1, LoopPlaces DEF OfLoop
  <1>3. ASSUME NEW z
        PROVE  Quiet(Each(f), z) <=>
                 \A k \in K : z # Item(<<"terms", t, k, w>>) /\ z # Item(<<"uuids", t, w, u, k>>)
    <2>1. Quiet(Each(f), z) <=> \A k \in K : ~Touches(f[k][1], z) /\ ~Touches(f[k][2], z)
      BY <1>1, LoopQuiet
    <2>2. QED
      BY <2>1 DEF OfKinds
  <1>4. ASSUME NEW k \in K
        PROVE  /\ Gives(Each(f), Item(<<"terms", t, k, w>>), v)
               /\ Gives(Each(f), Item(<<"uuids", t, w, u, k>>), v)
    <2> DEFINE a == Item(<<"terms", t, k, w>>)
               b == Item(<<"uuids", t, w, u, k>>)
    <2>1. Writes(f[k][1], a, v) /\ Writes(f[k][2], b, v)
      BY DEF Writes, OfKinds
    <2>2. a # b
      BY CellsDiffer
    <2>3. ~Touches(f[k][2], a)
      BY <2>2 DEF OfKinds
    <2>4. ASSUME NEW y \in K \ {k}
          PROVE  /\ ~Touches(f[y][1], a) /\ ~Touches(f[y][2], a)
                 /\ ~Touches(f[y][1], b) /\ ~Touches(f[y][2], b)
      <3>1. /\ Item(<<"terms", t, y, w>>) # a /\ Item(<<"terms", t, y, w>>) # b
            /\ Item(<<"uuids", t, w, u, y>>) # a /\ Item(<<"uuids", t, w, u, y>>) # b
        BY CellsDiffer
      <3>2. QED
        BY <3>1 DEF OfKinds
    <2> HIDE DEF a, b
    <2>5. Gives(Each(f), a, v)
      <3>1. WritesOnce(K, f, k, a, v)
        BY <2>1, <2>3, <2>4 DEF WritesOnce
      <3>2. QED
        BY <1>1, <3>1, LoopGives
    <2>6. Gives(Each(f), b, v)
      <3>1. WritesOnce(K, f, k, b, v)
        BY <2>1, <2>4 DEF WritesOnce
      <3>2. QED
        BY <1>1, <3>1, LoopGives
    <2>7. QED
      BY <2>5, <2>6 DEF a, b
  <1>5. QED
    BY <1>2, <1>3, <1>4

LEMMA DelFiltersDoes ==
  ASSUME NEW u \in Uuids, NEW t \in Types, NEW w \in Terms, NEW s \in Filters
  PROVE  LET q == DelFilters(u, t, w, s)
         IN  /\ q \in Seq(Cmds)
             /\ \A z : Quiet(q, z) <=>
                  /\ \A k \in Tracks(s) : z # Item(<<"terms", t, k, w>>) /\ z # Item(<<"uuids", t, w, u, k>>)
                  /\ z # FieldOf(u, "filters")
             /\ \A k \in Tracks(s) : /\ Gives(q, Item(<<"terms", t, k, w>>), "out")
                                     /\ Gives(q, Item(<<"uuids", t, w, u, k>>), "out")
             /\ Gives(q, FieldOf(u, "filters"), None)
  <1> DEFINE f == [k \in Tracks(s) |-> <<Srem(<<"terms", t, k, w>>), Srem(<<"uuids", t, w, u, k>>)>>]
             h == <<Hset(u, "filters", None)>>
  <1>1. Tracks(s) \in SUBSET Kinds
    BY FiniteKinds
  <1>2. \A k \in Tracks(s) : Srem(<<"terms", t, k, w>>) \in Cmds /\ Srem(<<"uuids", t, w, u, k>>) \in Cmds
    BY <1>1 DEF Cmds, PlainCmds, PlainItems
  <1>3. f \in [Tracks(s) -> Cmds \X Cmds]
    BY <1>2
  <1>4. OfKinds(f, Tracks(s), u, t, w, "out")
    BY CommandsTouch, CommandsLeave DEF OfKinds
  <1>5. h \in Seq(Cmds)
    BY DEF Cmds, PlainCmds, Filters
  <1>6. /\ \A z : Quiet(h, z) <=> z # FieldOf(u, "filters")
        /\ Gives(h, FieldOf(u, "filters"), None)
    BY OneCommand, CommandsTouch, CommandsLeave DEF Writes
  <1>7. DelFilters(u, t, w, s) = Each(f) \o h
    BY DEF DelFilters
  <1> HIDE DEF f, h
  <1>8. /\ Each(f) \in Seq(Cmds)
        /\ \A z : Quiet(Each(f), z) <=>
             \A k \in Tracks(s) : z # Item(<<"terms", t, k, w>>) /\ z # Item(<<"uuids", t, w, u, k>>)
        /\ \A k \in Tracks(s) : /\ Gives(Each(f), Item(<<"terms", t, k, w>>), "out")
                                /\ Gives(Each(f), Item(<<"uuids", t, w, u, k>>), "out")
    BY <1>1, <1>3, <1>4, KindsLoop
  <1>9. /\ Each(f) \o h \in Seq(Cmds)
        /\ \A z : Quiet(Each(f) \o h, z) <=> Quiet(Each(f), z) /\ Quiet(h, z)
        /\ \A z, v : Gives(Each(f) \o h, z, v) <=> Gives(h, z, v) \/ (Gives(Each(f), z, v) /\ Quiet(h, z))
    BY <1>5, <1>8, JoinedLists
  <1>10. \A k \in Tracks(s) : /\ Quiet(h, Item(<<"terms", t, k, w>>))
                              /\ Quiet(h, Item(<<"uuids", t, w, u, k>>))
    BY <1>6, CellsDiffer
  <1>11. QED
    BY <1>6, <1>7, <1>8, <1>9, <1>10

LEMMA AddFiltersDoes ==
  ASSUME NEW u \in Uuids, NEW r \in Asks
  PROVE  LET q == AddFilters(u, r)
         IN  /\ q \in Seq(Cmds)
             /\ \A z : Quiet(q, z) <=>
                  /\ \A k \in Tracks(r.filters) : /\ z # Item(<<"terms", r.type, k, r.tracked>>)
                                                  /\ z # Item(<<"uuids", r.type, r.tracked, u, k>>)
                  /\ r.filters # {} => z # FieldOf(u, "filters")
             /\ \A k \in Tracks(r.filters) : /\ Gives(q, Item(<<"terms", r.type, k, r.tracked>>), "in")
                                             /\ Gives(q, Item(<<"uuids", r.type, r.tracked, u, k>>), "in")
             /\ r.filters # {} => Gives(q, FieldOf(u, "filters"), r.filters)
  <1>0. r.type \in Types /\ r.tracked \in Terms /\ r.filters \in SUBSET Kinds
    BY TrackersAssumption DEF Types, Terms
  <1> SUFFICES ASSUME NEW t \in Types, NEW w \in Terms, NEW s \in SUBSET Kinds,
                      t = r.type, w = r.tracked, s = r.filters
               PROVE  LET q == AddFilters(u, r)
                      IN  /\ q \in Seq(Cmds)
                          /\ \A z : Quiet(q, z) <=>
                               /\ \A k \in Tracks(s) : /\ z # Item(<<"terms", t, k, w>>)
                                                       /\ z # Item(<<"uuids", t, w, u, k>>)
                               /\ s # {} => z # FieldOf(u, "filters")
                          /\ \A k \in Tracks(s) : /\ Gives(q, Item(<<"terms", t, k, w>>), "in")
                                                  /\ Gives(q, Item(<<"uuids", t, w, u, k>>), "in")
                          /\ s # {} => Gives(q, FieldOf(u, "filters"), s)
    BY <1>0
  <1> DEFINE f == [k \in Tracks(s) |-> <<Sadd(<<"terms", t, k, w>>), Sadd(<<"uuids", t, w, u, k>>)>>]
             h == IF s = {} THEN <<>> ELSE <<Hset(u, "filters", s)>>
  <1>1. Tracks(s) \in SUBSET Kinds
    BY FiniteKinds DEF Filters
  <1>2. \A k \in Tracks(s) : Sadd(<<"terms", t, k, w>>) \in Cmds /\ Sadd(<<"uuids", t, w, u, k>>) \in Cmds
    BY <1>1 DEF Cmds, PlainCmds, PlainItems
  <1>3. f \in [Tracks(s) -> Cmds \X Cmds]
    BY <1>2
  <1>4. OfKinds(f, Tracks(s), u, t, w, "in")
    BY CommandsTouch, CommandsLeave DEF OfKinds
  <1>5. h \in Seq(Cmds)
    <2>1. Hset(u, "filters", s) \in Cmds
      BY DEF Cmds, PlainCmds, Filters
    <2>2. QED
      BY <2>1
  <1>6. /\ \A z : Quiet(h, z) <=> (s # {} => z # FieldOf(u, "filters"))
        /\ s # {} => Gives(h, FieldOf(u, "filters"), s)
    BY EmptyList, OneCommand, CommandsTouch, CommandsLeave DEF Writes
  <1>7. AddFilters(u, r) = h \o Each(f)
    BY DEF AddFilters
  <1> HIDE DEF f, h
  <1>8. /\ Each(f) \in Seq(Cmds)
        /\ \A z : Quiet(Each(f), z) <=>
             \A k \in Tracks(s) : z # Item(<<"terms", t, k, w>>) /\ z # Item(<<"uuids", t, w, u, k>>)
        /\ \A k \in Tracks(s) : /\ Gives(Each(f), Item(<<"terms", t, k, w>>), "in")
                                /\ Gives(Each(f), Item(<<"uuids", t, w, u, k>>), "in")
    BY ONLY <1>1, <1>3, <1>4, KindsLoop
  <1>9. /\ h \o Each(f) \in Seq(Cmds)
        /\ \A z : Quiet(h \o Each(f), z) <=> Quiet(h, z) /\ Quiet(Each(f), z)
        /\ \A z, v : Gives(h \o Each(f), z, v) <=> Gives(Each(f), z, v) \/ (Gives(h, z, v) /\ Quiet(Each(f), z))
    BY <1>5, <1>8, JoinedLists
  <1>10. Quiet(Each(f), FieldOf(u, "filters"))
    BY <1>8, CellsDiffer
  <1>11. QED
    BY <1>6, <1>7, <1>8, <1>9, <1>10

LEMMA ResetLevelDoes ==
  ASSUME NEW u \in Uuids, NEW t \in Types, NEW l \in Levels, NEW m \in Levels
  PROVE  LET q == ResetLevel(u, t, l, m)
         IN  /\ q \in Seq(Cmds)
             /\ \A z : Quiet(q, z) <=>
                  z \notin {Item(<<"level", l, u>>), Item(<<"levelOf", l, t, u>>),
                            Item(<<"level", m, u>>), Item(<<"levelOf", m, t, u>>),
                            FieldOf(u, "level")}
             /\ Gives(q, Item(<<"level", m, u>>), "in")
             /\ Gives(q, Item(<<"levelOf", m, t, u>>), "in")
             /\ Gives(q, FieldOf(u, "level"), m)
             /\ l # m => /\ Gives(q, Item(<<"level", l, u>>), "out")
                         /\ Gives(q, Item(<<"levelOf", l, t, u>>), "out")
  <1> DEFINE c1 == Srem(<<"level", l, u>>)
             c2 == Srem(<<"levelOf", l, t, u>>)
             p == <<c1, c2>>
             r == SetLevel(u, t, m)
  <1>1. c1 \in Cmds /\ c2 \in Cmds
    BY DEF Cmds, PlainCmds, PlainItems
  <1>2. /\ \A z : Touches(c1, z) <=> z = Item(<<"level", l, u>>)
        /\ \A z : Touches(c2, z) <=> z = Item(<<"levelOf", l, t, u>>)
        /\ Leaves(c1) = "out" /\ Leaves(c2) = "out"
    BY CommandsTouch, CommandsLeave
  <1>3. /\ Item(<<"level", l, u>>) # Item(<<"levelOf", l, t, u>>)
        /\ Item(<<"level", l, u>>) # Item(<<"levelOf", m, t, u>>)
        /\ Item(<<"level", l, u>>) # FieldOf(u, "level")
        /\ Item(<<"levelOf", l, t, u>>) # Item(<<"level", m, u>>)
        /\ Item(<<"levelOf", l, t, u>>) # FieldOf(u, "level")
        /\ l # m => /\ Item(<<"level", l, u>>) # Item(<<"level", m, u>>)
                    /\ Item(<<"levelOf", l, t, u>>) # Item(<<"levelOf", m, t, u>>)
    BY CellsDiffer
  <1> HIDE DEF c1, c2
  <1>4. p \in Seq(Cmds) /\ Len(p) = 2 /\ p[1] = c1 /\ p[2] = c2
    BY <1>1
  <1>5. \A z : Quiet(p, z) <=> z \notin {Item(<<"level", l, u>>), Item(<<"levelOf", l, t, u>>)}
    BY <1>2, <1>4 DEF Quiet
  <1>6. Gives(p, Item(<<"level", l, u>>), "out") /\ Gives(p, Item(<<"levelOf", l, t, u>>), "out")
    BY <1>2, <1>3, <1>4 DEF Gives, Writes
  <1>7. ResetLevel(u, t, l, m) = p \o r
    BY DEF ResetLevel, c1, c2
  <1>8. /\ r \in Seq(Cmds)
        /\ \A z : Quiet(r, z) <=>
             z \notin {Item(<<"level", m, u>>), Item(<<"levelOf", m, t, u>>), FieldOf(u, "level")}
        /\ Gives(r, Item(<<"level", m, u>>), "in")
        /\ Gives(r, Item(<<"levelOf", m, t, u>>), "in")
        /\ Gives(r, FieldOf(u, "level"), m)
    BY SetLevelDoes
  <1> HIDE DEF p, r
  <1>9. /\ p \o r \in Seq(Cmds)
        /\ \A z : Quiet(p \o r, z) <=> Quiet(p, z) /\ Quiet(r, z)
        /\ \A z, v : Gives(p \o r, z, v) <=> Gives(r, z, v) \/ (Gives(p, z, v) /\ Quiet(r, z))
    BY <1>4, <1>8, JoinedLists
  <1>10. QED
    BY <1>3, <1>5, <1>6, <1>7, <1>8, <1>9

\* A tracker that is listed.
Whole(old) == /\ old.type \in Types /\ old.tracked \in Terms
              /\ old.level \in Levels /\ old.filters \in Filters

LEMMA AskTypes ==
  ASSUME NEW r \in Asks
  PROVE  /\ r.type \in Types /\ r.tracked \in Terms /\ r.level \in Levels
         /\ r.filters \in SUBSET Kinds /\ r.filters \in Filters
  BY TrackersAssumption DEF Types, Terms, Filters

\* The change of the type, if there is one.
TypePart(u, a, old) == IF a.type = old.type THEN <<>> ELSE ChangeType(u, a, old)

LEMMA TypePartDoes ==
  ASSUME NEW u \in Uuids, NEW a \in Asks, NEW old, Whole(old)
  PROVE  LET q == TypePart(u, a, old)
         IN  /\ q \in Seq(Cmds)
             /\ \A z \in Guarded :
                  z \notin {Item(<<"level", old.level, u>>), Item(<<"levelOf", old.level, old.type, u>>),
                            Item(<<"level", a.level, u>>), Item(<<"levelOf", a.level, old.type, u>>),
                            Item(<<"uuid", old.type, old.tracked, u>>), Item(<<"uuid", a.type, a.tracked, u>>),
                            FieldOf(u, "level"), FieldOf(u, "type")}
                    => Quiet(q, z)
             /\ a.type = old.type => q = <<>>
             /\ a.type # old.type => /\ Gives(q, FieldOf(u, "type"), a.type)
                                     /\ Gives(q, Item(<<"uuid", old.type, old.tracked, u>>), "out")
                                     /\ Gives(q, Item(<<"uuid", a.type, a.tracked, u>>), "in")
             /\ a.type # old.type /\ a.level # old.level
                  => Gives(q, Item(<<"levelOf", old.level, old.type, u>>), "out")
  <1>0. /\ a.type \in Types /\ a.tracked \in Terms /\ a.level \in Levels
        /\ old.type \in Types /\ old.tracked \in Terms /\ old.level \in Levels
    BY AskTypes DEF Whole
  <1> SUFFICES ASSUME NEW t \in Types, NEW w \in Terms, NEW l \in Levels,
                      NEW ot \in Types, NEW ow \in Terms, NEW ol \in Levels,
                      t = a.type, w = a.tracked, l = a.level,
                      ot = old.type, ow = old.tracked, ol = old.level
               PROVE  LET q == TypePart(u, a, old)
                      IN  /\ q \in Seq(Cmds)
                          /\ \A z \in Guarded :
                               z \notin {Item(<<"level", ol, u>>), Item(<<"levelOf", ol, ot, u>>),
                                         Item(<<"level", l, u>>), Item(<<"levelOf", l, ot, u>>),
                                         Item(<<"uuid", ot, ow, u>>), Item(<<"uuid", t, w, u>>),
                                         FieldOf(u, "level"), FieldOf(u, "type")}
                                 => Quiet(q, z)
                          /\ t = ot => q = <<>>
                          /\ t # ot => /\ Gives(q, FieldOf(u, "type"), t)
                                       /\ Gives(q, Item(<<"uuid", ot, ow, u>>), "out")
                                       /\ Gives(q, Item(<<"uuid", t, w, u>>), "in")
                          /\ t # ot /\ l # ol => Gives(q, Item(<<"levelOf", ol, ot, u>>), "out")
    BY <1>0
  <1> DEFINE p == ResetLevel(u, ot, ol, l)
             c1 == Hset(u, "type", t)
             c2 == Srem(<<"tracked", ot, ow>>)
             c3 == Sadd(<<"tracked", t, w>>)
             c4 == Srem(<<"uuid", ot, ow, u>>)
             c5 == Sadd(<<"uuid", t, w, u>>)
             c6 == Srem(<<"allOf", ot, u>>)
             c7 == Sadd(<<"allOf", t, u>>)
             r == <<c1, c2, c3, c4, c5, c6, c7>>
  <1>1. c1 \in Cmds /\ c2 \in Cmds /\ c3 \in Cmds /\ c4 \in Cmds /\ c5 \in Cmds /\ c6 \in Cmds /\ c7 \in Cmds
    BY PlainCommands
  <1>2. /\ \A z : Touches(c1, z) <=> z = FieldOf(u, "type")
        /\ Leaves(c1) = t /\ Leaves(c4) = "out" /\ Leaves(c5) = "in"
    BY CommandsTouch, CommandsLeave
  <1>3. /\ \A z : Touches(c2, z) <=> z = Item(<<"tracked", ot, ow>>)
        /\ \A z : Touches(c3, z) <=> z = Item(<<"tracked", t, w>>)
        /\ \A z : Touches(c4, z) <=> z = Item(<<"uuid", ot, ow, u>>)
        /\ \A z : Touches(c5, z) <=> z = Item(<<"uuid", t, w, u>>)
        /\ \A z : Touches(c6, z) <=> z = Item(<<"allOf", ot, u>>)
        /\ \A z : Touches(c7, z) <=> z = Item(<<"allOf", t, u>>)
    BY CommandsTouch
  <1>4. \A z \in Guarded : ~Touches(c2, z) /\ ~Touches(c3, z) /\ ~Touches(c6, z) /\ ~Touches(c7, z)
    BY ONLY <1>3, OtherTables
  <1> DEFINE z4 == Item(<<"uuid", ot, ow, u>>)
             z5 == Item(<<"uuid", t, w, u>>)
  <1>b. /\ z4 \in Guarded /\ z5 \in Guarded
        /\ z4 # FieldOf(u, "type") /\ z5 # FieldOf(u, "type")
        /\ t # ot => z4 # z5
    BY GuardedCells, CellsDiffer
  <1>c. /\ \A z : Touches(c4, z) <=> z = z4
        /\ \A z : Touches(c5, z) <=> z = z5
    BY <1>3
  <1>5. TypePart(u, a, old) = IF t = ot THEN <<>> ELSE p \o r
    BY DEF TypePart, ChangeType
  <1>6. FieldOf(u, "type") \in Guarded
    BY GuardedCells
  <1> HIDE DEF c1, c2, c3, c4, c5, c6, c7
  <1>7. /\ r \in Seq(Cmds) /\ Len(r) = 7
        /\ r[1] = c1 /\ r[2] = c2 /\ r[3] = c3 /\ r[4] = c4 /\ r[5] = c5 /\ r[6] = c6 /\ r[7] = c7
    BY <1>1
  <1> HIDE DEF z4, z5
  <1>8. \A i \in {2, 3, 6, 7} : \A z \in Guarded : ~Touches(r[i], z)
    BY <1>4, <1>7
  <1>9. \A z \in Guarded : z \notin {FieldOf(u, "type"), z4, z5} => Quiet(r, z)
    BY <1>2, <1>7, <1>8, <1>c DEF Quiet
  <1>10. Gives(r, FieldOf(u, "type"), t)
    BY <1>2, <1>6, <1>7, <1>8, <1>b, <1>c DEF Gives, Writes
  <1>d. t # ot => Gives(r, z4, "out")
    BY <1>2, <1>7, <1>8, <1>b, <1>c DEF Gives, Writes
  <1>e. Gives(r, z5, "in")
    BY <1>2, <1>7, <1>8, <1>b, <1>c DEF Gives, Writes
  <1>11. /\ p \in Seq(Cmds)
         /\ \A z : Quiet(p, z) <=>
              z \notin {Item(<<"level", ol, u>>), Item(<<"levelOf", ol, ot, u>>),
                        Item(<<"level", l, u>>), Item(<<"levelOf", l, ot, u>>),
                        FieldOf(u, "level")}
         /\ ol # l => Gives(p, Item(<<"levelOf", ol, ot, u>>), "out")
    BY ONLY ResetLevelDoes, u \in Uuids, ot \in Types, ol \in Levels, l \in Levels
  <1>a. /\ Item(<<"levelOf", ol, ot, u>>) \in Guarded
        /\ Item(<<"levelOf", ol, ot, u>>) \notin {FieldOf(u, "type"), z4, z5}
    BY GuardedCells, CellsDiffer DEF z4, z5
  <1> HIDE DEF p, r
  <1>12. /\ p \o r \in Seq(Cmds)
         /\ \A z : Quiet(p \o r, z) <=> Quiet(p, z) /\ Quiet(r, z)
         /\ \A z, v : Gives(p \o r, z, v) <=> Gives(r, z, v) \/ (Gives(p, z, v) /\ Quiet(r, z))
    BY <1>7, <1>11, JoinedLists
  <1>13. CASE t = ot
    BY <1>5, <1>13, EmptyList
  <1>14. CASE t # ot
    <2>1. TypePart(u, a, old) = p \o r
      BY <1>5, <1>14
    <2>2. Gives(p \o r, FieldOf(u, "type"), t)
      BY <1>10, <1>12
    <2>3. \A z \in Guarded :
            z \notin {Item(<<"level", ol, u>>), Item(<<"levelOf", ol, ot, u>>),
                      Item(<<"level", l, u>>), Item(<<"levelOf", l, ot, u>>), z4, z5,
                      FieldOf(u, "level"), FieldOf(u, "type")}
              => Quiet(p \o r, z)
      BY <1>9, <1>11, <1>12
    <2>4. l # ol => Gives(p \o r, Item(<<"levelOf", ol, ot, u>>), "out")
      BY <1>9, <1>11, <1>12, <1>a
    <2>5. Gives(p \o r, z4, "out") /\ Gives(p \o r, z5, "in")
      BY <1>12, <1>14, <1>d, <1>e
    <2>6. QED
      BY <1>12, <1>14, <2>1, <2>2, <2>3, <2>4, <2>5 DEF z4, z5
  <1>15. QED
    BY <1>13, <1>14

\* Six lists, one after the other.
OfSix(q, S, p1, p2, p3, p4, p5, p6) ==
    /\ q \in Seq(S)
    /\ \A z : Quiet(q, z) <=> /\ Quiet(p1, z) /\ Quiet(p2, z) /\ Quiet(p3, z)
                             /\ Quiet(p4, z) /\ Quiet(p5, z) /\ Quiet(p6, z)
    /\ \A z, v : Gives(q, z, v) <=>
         \/ Gives(p6, z, v)
         \/ Quiet(p6, z) /\ Gives(p5, z, v)
         \/ Quiet(p6, z) /\ Quiet(p5, z) /\ Gives(p4, z, v)
         \/ Quiet(p6, z) /\ Quiet(p5, z) /\ Quiet(p4, z) /\ Gives(p3, z, v)
         \/ /\ Quiet(p6, z) /\ Quiet(p5, z) /\ Quiet(p4, z) /\ Quiet(p3, z)
            /\ Gives(p2, z, v)
         \/ /\ Quiet(p6, z) /\ Quiet(p5, z) /\ Quiet(p4, z) /\ Quiet(p3, z)
            /\ Quiet(p2, z) /\ Gives(p1, z, v)

LEMMA SixLists ==
  ASSUME NEW S, NEW p1 \in Seq(S), NEW p2 \in Seq(S), NEW p3 \in Seq(S),
         NEW p4 \in Seq(S), NEW p5 \in Seq(S), NEW p6 \in Seq(S)
  PROVE  OfSix(p1 \o p2 \o p3 \o p4 \o p5 \o p6, S, p1, p2, p3, p4, p5, p6)
  <1> DEFINE q2 == p1 \o p2
             q3 == q2 \o p3
             q4 == q3 \o p4
             q5 == q4 \o p5
  <1>1. /\ q2 \in Seq(S)
        /\ \A z : Quiet(q2, z) <=> Quiet(p1, z) /\ Quiet(p2, z)
        /\ \A z, v : Gives(q2, z, v) <=> Gives(p2, z, v) \/ (Gives(p1, z, v) /\ Quiet(p2, z))
    BY JoinedLists
  <1> HIDE DEF q2
  <1>2. /\ q3 \in Seq(S)
        /\ \A z : Quiet(q3, z) <=> Quiet(q2, z) /\ Quiet(p3, z)
        /\ \A z, v : Gives(q3, z, v) <=> Gives(p3, z, v) \/ (Gives(q2, z, v) /\ Quiet(p3, z))
    BY <1>1, JoinedLists
  <1> HIDE DEF q3
  <1>3. /\ q4 \in Seq(S)
        /\ \A z : Quiet(q4, z) <=> Quiet(q3, z) /\ Quiet(p4, z)
        /\ \A z, v : Gives(q4, z, v) <=> Gives(p4, z, v) \/ (Gives(q3, z, v) /\ Quiet(p4, z))
    BY <1>2, JoinedLists
  <1> HIDE DEF q4
  <1>4. /\ q5 \in Seq(S)
        /\ \A z : Quiet(q5, z) <=> Quiet(q4, z) /\ Quiet(p5, z)
        /\ \A z, v : Gives(q5, z, v) <=> Gives(p5, z, v) \/ (Gives(q4, z, v) /\ Quiet(p5, z))
    BY <1>3, JoinedLists
  <1> HIDE DEF q5
  <1>5. /\ q5 \o p6 \in Seq(S)
        /\ \A z : Quiet(q5 \o p6, z) <=> Quiet(q5, z) /\ Quiet(p6, z)
        /\ \A z, v : Gives(q5 \o p6, z, v) <=> Gives(p6, z, v) \/ (Gives(q5, z, v) /\ Quiet(p6, z))
    BY <1>4, JoinedLists
  <1>6. OfSix(q5 \o p6, S, p1, p2, p3, p4, p5, p6)
    BY <1>1, <1>2, <1>3, <1>4, <1>5 DEF OfSix
  <1>7. QED
    BY <1>6 DEF q2, q3, q4, q5

TermPart(u, a, old) == IF a.tracked = old.tracked THEN <<>> ELSE <<Hset(u, "tracked", a.tracked)>>

LEMMA TermPartDoes ==
  ASSUME NEW u \in Uuids, NEW a \in Asks, NEW old, Whole(old)
  PROVE  /\ TermPart(u, a, old) \in Seq(Cmds)
         /\ \A z : z # FieldOf(u, "tracked") => Quiet(TermPart(u, a, old), z)
         /\ a.tracked = old.tracked => TermPart(u, a, old) = <<>>
         /\ a.tracked # old.tracked => Gives(TermPart(u, a, old), FieldOf(u, "tracked"), a.tracked)
  <1> DEFINE c == Hset(u, "tracked", a.tracked)
  <1>1. c \in Cmds
    BY PlainCommands, AskTypes
  <1>2. Leaves(c) = a.tracked /\ \A z : Touches(c, z) <=> z = FieldOf(u, "tracked")
    BY CommandsTouch, CommandsLeave
  <1> HIDE DEF c
  <1>3. <<c>> \in Seq(Cmds)
    BY <1>1
  <1>4. \A z : z # FieldOf(u, "tracked") => Quiet(<<c>>, z)
    BY <1>2, OneCommand
  <1>5. Gives(<<c>>, FieldOf(u, "tracked"), a.tracked)
    BY <1>2, OneCommand DEF Writes
  <1>6. <<>> \in Seq(Cmds) /\ \A z : Quiet(<<>>, z)
    BY EmptyList
  <1>7. TermPart(u, a, old) = IF a.tracked = old.tracked THEN <<>> ELSE <<c>>
    BY DEF TermPart, c
  <1>8. CASE a.tracked = old.tracked
    BY <1>6, <1>7, <1>8
  <1>9. CASE a.tracked # old.tracked
    BY <1>3, <1>4, <1>5, <1>7, <1>9
  <1>10. QED
    BY <1>8, <1>9

LEMMA NotesDo ==
  ASSUME NEW t \in Types, NEW old \in Types
  PROVE  /\ Notes(t, old) \in Seq(Cmds) /\ \A z : Quiet(Notes(t, old), z)
         /\ Len(Notes(t, old)) \in 1 .. 2 /\ Notes(t, old)[1] = <<"trigger", t>>
         /\ t = old => Len(Notes(t, old)) = 1
         /\ t # old => Len(Notes(t, old)) = 2 /\ Notes(t, old)[2] = <<"trigger", old>>
  <1> DEFINE c1 == <<"trigger", t>>
             c2 == <<"trigger", old>>
  <1>1. c1 \in Cmds /\ c2 \in Cmds
    BY PlainCommands
  <1>2. \A z : ~Touches(c1, z) /\ ~Touches(c2, z)
    BY CommandsTouch
  <1>3. Notes(t, old) = <<c1>> \o IF t = old THEN <<>> ELSE <<c2>>
    BY DEF Notes
  <1> HIDE DEF c1, c2
  <1>4. /\ <<c1>> \in Seq(Cmds) /\ <<c2>> \in Seq(Cmds) /\ <<>> \in Seq(Cmds)
        /\ \A z : Quiet(<<c1>>, z) /\ Quiet(<<c2>>, z) /\ Quiet(<<>>, z)
    BY <1>1, <1>2 DEF Quiet
  <1>5. ASSUME NEW q \in Seq(Cmds), \A z : Quiet(q, z)
        PROVE  /\ <<c1>> \o q \in Seq(Cmds) /\ \A z : Quiet(<<c1>> \o q, z)
               /\ Len(<<c1>> \o q) = 1 + Len(q) /\ (<<c1>> \o q)[1] = c1
               /\ Len(q) = 1 => (<<c1>> \o q)[2] = q[1]
    <2>1. <<c1>> \o q \in Seq(Cmds) /\ \A z : Quiet(<<c1>> \o q, z)
      BY <1>4, <1>5, JoinedLists
    <2>2. /\ Len(<<c1>> \o q) = 1 + Len(q) /\ (<<c1>> \o q)[1] = c1
          /\ Len(q) = 1 => (<<c1>> \o q)[2] = q[1]
      <3>1. ASSUME NEW p \in Seq(Cmds), Len(p) = 1
            PROVE  /\ Len(p \o q) = 1 + Len(q) /\ (p \o q)[1] = p[1]
                   /\ Len(q) = 1 => (p \o q)[2] = q[1]
        <4>1. /\ Len(p \o q) = Len(p) + Len(q) /\ Len(p) \in Nat /\ Len(q) \in Nat
              /\ \A i \in 1 .. Len(p) : (p \o q)[i] = p[i]
              /\ \A i \in 1 .. Len(q) : (p \o q)[Len(p) + i] = q[i]
          OBVIOUS
        <4>2. 1 \in 1 .. 1 /\ Len(p) + 1 = 2
          BY <3>1
        <4>3. QED
          BY <3>1, <4>1, <4>2
      <3>2. Len(<<c1>>) = 1 /\ <<c1>>[1] = c1
        OBVIOUS
      <3>3. QED
        BY <1>4, <3>1, <3>2
    <2>3. QED
      BY <2>1, <2>2
  <1>6. CASE t = old
    <2>1. Notes(t, old) = <<c1>> \o <<>> /\ Len(<<>>) = 0
      BY <1>3, <1>6
    <2>2. QED
      BY <1>4, <1>5, <1>6, <2>1 DEF c1
  <1>7. CASE t # old
    <2>1. Notes(t, old) = <<c1>> \o <<c2>> /\ Len(<<c2>>) = 1 /\ <<c2>>[1] = c2
      BY <1>3, <1>7
    <2>2. /\ Notes(t, old) \in Seq(Cmds) /\ \A z : Quiet(Notes(t, old), z)
          /\ Len(Notes(t, old)) = 2 /\ Notes(t, old)[1] = c1 /\ Notes(t, old)[2] = c2
      <3>1. <<c2>> \in Seq(Cmds) /\ \A z : Quiet(<<c2>>, z)
        BY <1>4
      <3> DEFINE q == <<c2>>
      <3>2. Notes(t, old) = <<c1>> \o q /\ Len(q) = 1 /\ q[1] = c2
        BY <2>1
      <3>3. q \in Seq(Cmds) /\ \A z : Quiet(q, z)
        BY <3>1
      <3> HIDE DEF q
      <3>4. /\ <<c1>> \o q \in Seq(Cmds) /\ \A z : Quiet(<<c1>> \o q, z)
            /\ Len(<<c1>> \o q) = 1 + Len(q) /\ (<<c1>> \o q)[1] = c1
            /\ Len(q) = 1 => (<<c1>> \o q)[2] = q[1]
        BY ONLY <1>5, <3>3
      <3> DEFINE r == <<c1>> \o q
      <3>5. /\ r \in Seq(Cmds) /\ \A z : Quiet(r, z)
            /\ Len(r) = 1 + Len(q) /\ r[1] = c1 /\ (Len(q) = 1 => r[2] = q[1])
        BY ONLY <3>4
      <3>6. Notes(t, old) = r
        BY <3>2
      <3> HIDE DEF r
      <3>7. Len(r) = 2 /\ r[2] = c2
        BY <3>2, <3>5
      <3>8. QED
        BY ONLY <3>5, <3>6, <3>7
    <2>3. QED
      BY <1>7, <2>2 DEF c1, c2
  <1>8. QED
    BY <1>6, <1>7

\* What an edit does: to the fields, the terms and trackers of terms, and the levels.
Wants(r, t, w, k) == t = r.type /\ w = r.tracked /\ k \in Tracks(r.filters)
Maps(r, t, w) == t = r.type /\ w = r.tracked

EditDone(q, u, a, old) ==
    /\ q \in Seq(Cmds)
    /\ \A v \in Uuids : Quiet(q, Item(<<"all", v>>))
    /\ \A v \in Uuids \ {u} : \A f \in {"type", "tracked", "level", "filters"} : Quiet(q, FieldOf(v, f))
    /\ IF a.type = old.type THEN Quiet(q, FieldOf(u, "type"))
                            ELSE Gives(q, FieldOf(u, "type"), a.type)
    /\ IF a.tracked = old.tracked THEN Quiet(q, FieldOf(u, "tracked"))
                                  ELSE Gives(q, FieldOf(u, "tracked"), a.tracked)
    /\ Gives(q, FieldOf(u, "level"), a.level)
    /\ Gives(q, FieldOf(u, "filters"), IF a.filters = {} THEN None ELSE a.filters)
    /\ \A t \in Types, w \in Terms, k \in Kinds :
         /\ IF Wants(a, t, w, k) THEN Gives(q, Item(<<"terms", t, k, w>>), "in")
            ELSE IF Wants(old, t, w, k) THEN Gives(q, Item(<<"terms", t, k, w>>), "out")
                                        ELSE Quiet(q, Item(<<"terms", t, k, w>>))
         /\ IF Wants(a, t, w, k) THEN Gives(q, Item(<<"uuids", t, w, u, k>>), "in")
            ELSE IF Wants(old, t, w, k) THEN Gives(q, Item(<<"uuids", t, w, u, k>>), "out")
                                        ELSE Quiet(q, Item(<<"uuids", t, w, u, k>>))
         /\ \A v \in Uuids \ {u} : Quiet(q, Item(<<"uuids", t, w, v, k>>))
    /\ \A l \in Levels :
         /\ IF l = a.level THEN Gives(q, Item(<<"level", l, u>>), "in")
            ELSE IF l = old.level THEN Gives(q, Item(<<"level", l, u>>), "out")
                                  ELSE Quiet(q, Item(<<"level", l, u>>))
         /\ \A v \in Uuids \ {u} : Quiet(q, Item(<<"level", l, v>>))
         /\ \A v \in Uuids \ {u}, t \in Types : Quiet(q, Item(<<"levelOf", l, t, v>>))
    /\ Gives(q, Item(<<"levelOf", a.level, a.type, u>>), "in")
    /\ \A l \in Levels, t \in Types :
         \/ l = a.level /\ t \in {a.type, old.type}
         \/ Gives(q, Item(<<"levelOf", l, t, u>>), "out")
         \/ Quiet(q, Item(<<"levelOf", l, t, u>>)) /\ ~(l = old.level /\ t = old.type)
    /\ \A t \in Types, w \in Terms :
         /\ IF a.type = old.type THEN Quiet(q, Item(<<"uuid", t, w, u>>))
            ELSE IF Maps(a, t, w) THEN Gives(q, Item(<<"uuid", t, w, u>>), "in")
            ELSE IF Maps(old, t, w) THEN Gives(q, Item(<<"uuid", t, w, u>>), "out")
                                    ELSE Quiet(q, Item(<<"uuid", t, w, u>>))
         /\ \A v \in Uuids \ {u} : Quiet(q, Item(<<"uuid", t, w, v>>))

LEMMA EditDoes ==
  ASSUME NEW u \in Uuids, NEW a \in Asks, NEW old, Whole(old)
  PROVE  EditDone(Edit(u, a, old), u, a, old)
  <1> DEFINE p1 == TypePart(u, a, old)
             p2 == ResetLevel(u, a.type, old.level, a.level)
             p3 == TermPart(u, a, old)
             p4 == DelFilters(u, old.type, old.tracked, old.filters)
             p5 == AddFilters(u, a)
             p6 == Notes(a.type, old.type)
             q == p1 \o p2 \o p3 \o p4 \o p5 \o p6
  <1>0. /\ a.type \in Types /\ a.tracked \in Terms /\ a.level \in Levels
        /\ a.filters \in SUBSET Kinds /\ a.filters \in Filters
        /\ old.type \in Types /\ old.tracked \in Terms /\ old.level \in Levels /\ old.filters \in Filters
    BY AskTypes DEF Whole
  <1>1. Edit(u, a, old) = q
    BY DEF Edit, TypePart, TermPart
  <1>2. /\ p1 \in Seq(Cmds)
        /\ \A z \in Guarded :
             z \notin {Item(<<"level", old.level, u>>), Item(<<"levelOf", old.level, old.type, u>>),
                       Item(<<"level", a.level, u>>), Item(<<"levelOf", a.level, old.type, u>>),
                       Item(<<"uuid", old.type, old.tracked, u>>), Item(<<"uuid", a.type, a.tracked, u>>),
                       FieldOf(u, "level"), FieldOf(u, "type")}
               => Quiet(p1, z)
        /\ a.type = old.type => p1 = <<>>
        /\ a.type # old.type => /\ Gives(p1, FieldOf(u, "type"), a.type)
                                /\ Gives(p1, Item(<<"uuid", old.type, old.tracked, u>>), "out")
                                /\ Gives(p1, Item(<<"uuid", a.type, a.tracked, u>>), "in")
        /\ a.type # old.type /\ a.level # old.level
             => Gives(p1, Item(<<"levelOf", old.level, old.type, u>>), "out")
    BY TypePartDoes
  <1>3. /\ p2 \in Seq(Cmds)
        /\ \A z : z \notin {Item(<<"level", old.level, u>>), Item(<<"levelOf", old.level, a.type, u>>),
                            Item(<<"level", a.level, u>>), Item(<<"levelOf", a.level, a.type, u>>),
                            FieldOf(u, "level")}
               => Quiet(p2, z)
        /\ Gives(p2, Item(<<"level", a.level, u>>), "in")
        /\ Gives(p2, Item(<<"levelOf", a.level, a.type, u>>), "in")
        /\ Gives(p2, FieldOf(u, "level"), a.level)
        /\ old.level # a.level => /\ Gives(p2, Item(<<"level", old.level, u>>), "out")
                                  /\ Gives(p2, Item(<<"levelOf", old.level, a.type, u>>), "out")
    BY ONLY <1>0, ResetLevelDoes, u \in Uuids
  <1>4. /\ p3 \in Seq(Cmds)
        /\ \A z : z # FieldOf(u, "tracked") => Quiet(p3, z)
        /\ a.tracked = old.tracked => p3 = <<>>
        /\ a.tracked # old.tracked => Gives(p3, FieldOf(u, "tracked"), a.tracked)
    BY TermPartDoes
  <1>5. /\ p4 \in Seq(Cmds)
        /\ \A z : Quiet(p4, z) <=>
             /\ \A k \in Tracks(old.filters) :
                   /\ z # Item(<<"terms", old.type, k, old.tracked>>)
                   /\ z # Item(<<"uuids", old.type, old.tracked, u, k>>)
             /\ z # FieldOf(u, "filters")
        /\ \A k \in Tracks(old.filters) :
              /\ Gives(p4, Item(<<"terms", old.type, k, old.tracked>>), "out")
              /\ Gives(p4, Item(<<"uuids", old.type, old.tracked, u, k>>), "out")
        /\ Gives(p4, FieldOf(u, "filters"), None)
    BY ONLY <1>0, DelFiltersDoes, u \in Uuids
  <1>6. /\ p5 \in Seq(Cmds)
        /\ \A z : Quiet(p5, z) <=>
             /\ \A k \in Tracks(a.filters) : /\ z # Item(<<"terms", a.type, k, a.tracked>>)
                                             /\ z # Item(<<"uuids", a.type, a.tracked, u, k>>)
             /\ a.filters # {} => z # FieldOf(u, "filters")
        /\ \A k \in Tracks(a.filters) : /\ Gives(p5, Item(<<"terms", a.type, k, a.tracked>>), "in")
                                        /\ Gives(p5, Item(<<"uuids", a.type, a.tracked, u, k>>), "in")
        /\ a.filters # {} => Gives(p5, FieldOf(u, "filters"), a.filters)
    BY AddFiltersDoes
  <1>7. p6 \in Seq(Cmds) /\ \A z : Quiet(p6, z)
    BY <1>0, NotesDo
  <1> HIDE DEF p1, p2, p3, p4, p5, p6
  <1>8. /\ q \in Seq(Cmds)
        /\ \A z : Quiet(q, z) <=> /\ Quiet(p1, z) /\ Quiet(p2, z) /\ Quiet(p3, z)
                                 /\ Quiet(p4, z) /\ Quiet(p5, z) /\ Quiet(p6, z)
        /\ \A z, v : Gives(q, z, v) <=>
             \/ Gives(p6, z, v)
             \/ Quiet(p6, z) /\ Gives(p5, z, v)
             \/ Quiet(p6, z) /\ Quiet(p5, z) /\ Gives(p4, z, v)
             \/ Quiet(p6, z) /\ Quiet(p5, z) /\ Quiet(p4, z) /\ Gives(p3, z, v)
             \/ /\ Quiet(p6, z) /\ Quiet(p5, z) /\ Quiet(p4, z) /\ Quiet(p3, z)
                /\ Gives(p2, z, v)
             \/ /\ Quiet(p6, z) /\ Quiet(p5, z) /\ Quiet(p4, z) /\ Quiet(p3, z)
                /\ Quiet(p2, z) /\ Gives(p1, z, v)
    <2>1. /\ p1 \in Seq(Cmds) /\ p2 \in Seq(Cmds) /\ p3 \in Seq(Cmds)
          /\ p4 \in Seq(Cmds) /\ p5 \in Seq(Cmds) /\ p6 \in Seq(Cmds)
      BY <1>2, <1>3, <1>4, <1>5, <1>6, <1>7
    <2>2. OfSix(q, Cmds, p1, p2, p3, p4, p5, p6)
      BY <2>1, SixLists
    <2>3. QED
      BY ONLY <2>2 DEF OfSix
  <1> HIDE DEF q
  <1>a. \A x : x[1] \notin {"level", "levelOf"} => Quiet(p2, Item(x))
    BY <1>3, TablesDiffer, CellsDiffer
  <1>b. \A x : Quiet(p3, Item(x))
    BY <1>4, CellsDiffer
  <1>c. \A x : x[1] \notin {"terms", "uuids"} => Quiet(p4, Item(x)) /\ Quiet(p5, Item(x))
    <2> SUFFICES ASSUME NEW x, x[1] \notin {"terms", "uuids"}
                 PROVE  Quiet(p4, Item(x)) /\ Quiet(p5, Item(x))
      OBVIOUS
    <2>1. \A t, w, k : Item(x) # Item(<<"terms", t, k, w>>) /\ Item(x) # Item(<<"uuids", t, w, u, k>>)
      BY TablesDiffer
    <2>2. Item(x) # FieldOf(u, "filters")
      BY CellsDiffer
    <2>3. Quiet(p4, Item(x))
      BY ONLY <1>5, <2>1, <2>2
    <2>4. Quiet(p5, Item(x))
      BY ONLY <1>6, <2>1, <2>2
    <2>5. QED
      BY <2>3, <2>4
  <1>d. \A x : x[1] \notin {"level", "levelOf", "uuid"} /\ Item(x) \in Guarded => Quiet(p1, Item(x))
    BY <1>2, TablesDiffer, CellsDiffer
  <1>9. \A v \in Uuids : Quiet(q, Item(<<"all", v>>))
    <2> TAKE v \in Uuids
    <2>1. Item(<<"all", v>>) \in Guarded
      BY GuardedCells
    <2>2. QED
      BY <1>7, <1>8, <1>a, <1>b, <1>c, <1>d, <2>1
  <1>10. \A v \in Uuids, f \in {"type", "tracked", "level", "filters"} :
            /\ FieldOf(v, f) \in Guarded
            /\ f \notin {"type", "level"} \/ v # u => Quiet(p1, FieldOf(v, f))
            /\ f # "level" \/ v # u => Quiet(p2, FieldOf(v, f))
            /\ f # "tracked" \/ v # u => Quiet(p3, FieldOf(v, f))
            /\ f # "filters" \/ v # u => Quiet(p4, FieldOf(v, f)) /\ Quiet(p5, FieldOf(v, f))
            /\ Quiet(p6, FieldOf(v, f))
    <2> TAKE v \in Uuids, f \in {"type", "tracked", "level", "filters"}
    <2>1. FieldOf(v, f) \in Guarded
      BY GuardedCells
    <2>2. f \notin {"type", "level"} \/ v # u => Quiet(p1, FieldOf(v, f))
      BY <1>2, <2>1, CellsDiffer
    <2>3. f # "level" \/ v # u => Quiet(p2, FieldOf(v, f))
      BY <1>3, CellsDiffer
    <2>4. f # "tracked" \/ v # u => Quiet(p3, FieldOf(v, f))
      BY <1>4, CellsDiffer
    <2>5. f # "filters" \/ v # u => Quiet(p4, FieldOf(v, f)) /\ Quiet(p5, FieldOf(v, f))
      BY <1>5, <1>6, CellsDiffer
    <2>6. QED
      BY <1>7, <2>1, <2>2, <2>3, <2>4, <2>5
  <1>11. \A v \in Uuids \ {u} : \A f \in {"type", "tracked", "level", "filters"} : Quiet(q, FieldOf(v, f))
    BY <1>8, <1>10
  <1>12. IF a.type = old.type THEN Quiet(q, FieldOf(u, "type"))
                              ELSE Gives(q, FieldOf(u, "type"), a.type)
    BY <1>2, <1>8, <1>10, EmptyList
  <1>13. IF a.tracked = old.tracked THEN Quiet(q, FieldOf(u, "tracked"))
                                    ELSE Gives(q, FieldOf(u, "tracked"), a.tracked)
    BY <1>4, <1>8, <1>10, EmptyList
  <1>14. Gives(q, FieldOf(u, "level"), a.level)
    BY <1>3, <1>8, <1>10
  <1>15. Gives(q, FieldOf(u, "filters"), IF a.filters = {} THEN None ELSE a.filters)
    <2>1. CASE a.filters = {}
      <3>1. Quiet(p5, FieldOf(u, "filters"))
        BY <1>6, <2>1, CellsDiffer
      <3>2. QED
        BY <1>5, <1>8, <1>10, <2>1, <3>1
    <2>2. CASE a.filters # {}
      BY <1>6, <1>8, <1>10, <2>2
    <2>3. QED
      BY <2>1, <2>2
  <1>16. ASSUME NEW t \in Types, NEW w \in Terms, NEW k \in Kinds
         PROVE  /\ IF Wants(a, t, w, k) THEN Gives(q, Item(<<"terms", t, k, w>>), "in")
                   ELSE IF Wants(old, t, w, k) THEN Gives(q, Item(<<"terms", t, k, w>>), "out")
                                               ELSE Quiet(q, Item(<<"terms", t, k, w>>))
                /\ IF Wants(a, t, w, k) THEN Gives(q, Item(<<"uuids", t, w, u, k>>), "in")
                   ELSE IF Wants(old, t, w, k) THEN Gives(q, Item(<<"uuids", t, w, u, k>>), "out")
                                               ELSE Quiet(q, Item(<<"uuids", t, w, u, k>>))
                /\ \A v \in Uuids \ {u} : Quiet(q, Item(<<"uuids", t, w, v, k>>))
    <2> DEFINE z1 == Item(<<"terms", t, k, w>>)
               z2(v) == Item(<<"uuids", t, w, v, k>>)
    <2>1. z1 \in Guarded /\ \A v \in Uuids : z2(v) \in Guarded
      BY GuardedCells
    <2>2. Quiet(p1, z1) /\ \A v \in Uuids : Quiet(p1, z2(v))
      BY <1>d, <2>1
    <2>3. Quiet(p2, z1) /\ \A v \in Uuids : Quiet(p2, z2(v))
      BY <1>a
    <2>4. Quiet(p3, z1) /\ \A v \in Uuids : Quiet(p3, z2(v))
      BY <1>b
    <2>5. /\ IF Wants(old, t, w, k) THEN Gives(p4, z1, "out") /\ Gives(p4, z2(u), "out")
                                    ELSE Quiet(p4, z1) /\ Quiet(p4, z2(u))
          /\ \A v \in Uuids \ {u} : Quiet(p4, z2(v))
      BY <1>5, CellsDiffer DEF Wants
    <2>6. /\ IF Wants(a, t, w, k) THEN Gives(p5, z1, "in") /\ Gives(p5, z2(u), "in")
                                  ELSE Quiet(p5, z1) /\ Quiet(p5, z2(u))
          /\ \A v \in Uuids \ {u} : Quiet(p5, z2(v))
      BY <1>6, CellsDiffer DEF Wants
    <2> HIDE DEF z1, z2
    <2>7. /\ IF Wants(a, t, w, k) THEN Gives(q, z1, "in")
             ELSE IF Wants(old, t, w, k) THEN Gives(q, z1, "out") ELSE Quiet(q, z1)
          /\ IF Wants(a, t, w, k) THEN Gives(q, z2(u), "in")
             ELSE IF Wants(old, t, w, k) THEN Gives(q, z2(u), "out") ELSE Quiet(q, z2(u))
          /\ \A v \in Uuids \ {u} : Quiet(q, z2(v))
      BY <1>7, <1>8, <2>2, <2>3, <2>4, <2>5, <2>6
    <2>8. QED
      BY <2>7 DEF z1, z2
  <1>17. ASSUME NEW l \in Levels
         PROVE  /\ IF l = a.level THEN Gives(q, Item(<<"level", l, u>>), "in")
                   ELSE IF l = old.level THEN Gives(q, Item(<<"level", l, u>>), "out")
                                         ELSE Quiet(q, Item(<<"level", l, u>>))
                /\ \A v \in Uuids \ {u} : Quiet(q, Item(<<"level", l, v>>))
                /\ \A v \in Uuids \ {u}, t \in Types : Quiet(q, Item(<<"levelOf", l, t, v>>))
    <2> DEFINE z1(v) == Item(<<"level", l, v>>)
               z2(v, t) == Item(<<"levelOf", l, t, v>>)
    <2>1. \A v \in Uuids : z1(v) \in Guarded /\ \A t \in Types : z2(v, t) \in Guarded
      BY GuardedCells
    <2>2. /\ \A v \in Uuids \ {u} : Quiet(p1, z1(v)) /\ \A t \in Types : Quiet(p1, z2(v, t))
          /\ l \notin {a.level, old.level} => Quiet(p1, z1(u))
      BY <1>2, <2>1, CellsDiffer
    <2>3. /\ \A v \in Uuids \ {u} : Quiet(p2, z1(v)) /\ \A t \in Types : Quiet(p2, z2(v, t))
          /\ IF l = a.level THEN Gives(p2, z1(u), "in")
             ELSE IF l = old.level THEN Gives(p2, z1(u), "out") ELSE Quiet(p2, z1(u))
      <3>1. \A v \in Uuids \ {u} : Quiet(p2, z1(v))
        BY <1>3, CellsDiffer
      <3>2. \A v \in Uuids \ {u} : \A t \in Types : Quiet(p2, z2(v, t))
        BY <1>3, CellsDiffer
      <3>3. l \notin {a.level, old.level} => Quiet(p2, z1(u))
        BY <1>3, CellsDiffer
      <3>4. QED
        BY <1>3, <3>1, <3>2, <3>3
    <2>4. \A v \in Uuids : /\ Quiet(p3, z1(v)) /\ Quiet(p4, z1(v)) /\ Quiet(p5, z1(v))
                           /\ \A t \in Types : Quiet(p3, z2(v, t)) /\ Quiet(p4, z2(v, t)) /\ Quiet(p5, z2(v, t))
      BY <1>b, <1>c
    <2> HIDE DEF z1, z2
    <2>5. /\ IF l = a.level THEN Gives(q, z1(u), "in")
             ELSE IF l = old.level THEN Gives(q, z1(u), "out") ELSE Quiet(q, z1(u))
          /\ \A v \in Uuids \ {u} : Quiet(q, z1(v))
          /\ \A v \in Uuids \ {u}, t \in Types : Quiet(q, z2(v, t))
      BY <1>7, <1>8, <2>2, <2>3, <2>4
    <2>6. QED
      BY <2>5 DEF z1, z2
  <1>18. Gives(q, Item(<<"levelOf", a.level, a.type, u>>), "in")
    <2> DEFINE z == Item(<<"levelOf", a.level, a.type, u>>)
    <2>1. Quiet(p3, z) /\ Quiet(p4, z) /\ Quiet(p5, z)
      BY <1>b, <1>c
    <2>2. QED
      BY <1>3, <1>7, <1>8, <2>1
  <1>19. ASSUME NEW l \in Levels, NEW t \in Types, ~(l = a.level /\ t \in {a.type, old.type})
         PROVE  \/ Gives(q, Item(<<"levelOf", l, t, u>>), "out")
                \/ Quiet(q, Item(<<"levelOf", l, t, u>>)) /\ ~(l = old.level /\ t = old.type)
    <2> DEFINE z == Item(<<"levelOf", l, t, u>>)
    <2>1. Quiet(p3, z) /\ Quiet(p4, z) /\ Quiet(p5, z) /\ Quiet(p6, z)
      BY <1>7, <1>b, <1>c
    <2>2. ~(l = old.level /\ t = old.type) => Quiet(p1, z)
      <3>1. z \in Guarded
        BY GuardedCells
      <3>2. QED
        BY <1>2, <1>19, <3>1, CellsDiffer
    <2>3. ~(l = old.level /\ t = a.type) => Quiet(p2, z)
      BY <1>3, <1>19, CellsDiffer
    <2>4. CASE l = old.level /\ t = a.type
      <3>1. Gives(p2, z, "out")
        BY <1>3, <1>19, <2>4
      <3>2. QED
        BY <1>8, <2>1, <3>1
    <2>5. CASE l = old.level /\ t = old.type /\ t # a.type
      <3>1. Gives(p1, z, "out")
        BY <1>2, <1>19, <2>5
      <3>2. QED
        BY <1>8, <2>1, <2>3, <2>5, <3>1
    <2>6. CASE ~(l = old.level /\ t \in {a.type, old.type})
      BY <1>8, <2>1, <2>2, <2>3, <2>6
    <2>7. QED
      BY <2>4, <2>5, <2>6
  <1>20. ASSUME NEW t \in Types, NEW w \in Terms
         PROVE  /\ IF a.type = old.type THEN Quiet(q, Item(<<"uuid", t, w, u>>))
                   ELSE IF Maps(a, t, w) THEN Gives(q, Item(<<"uuid", t, w, u>>), "in")
                   ELSE IF Maps(old, t, w) THEN Gives(q, Item(<<"uuid", t, w, u>>), "out")
                                           ELSE Quiet(q, Item(<<"uuid", t, w, u>>))
                /\ \A v \in Uuids \ {u} : Quiet(q, Item(<<"uuid", t, w, v>>))
    <2> DEFINE z(v) == Item(<<"uuid", t, w, v>>)
    <2>1. \A v : Quiet(p2, z(v)) /\ Quiet(p3, z(v)) /\ Quiet(p4, z(v)) /\ Quiet(p5, z(v)) /\ Quiet(p6, z(v))
      BY <1>7, <1>a, <1>b, <1>c
    <2>2. \A v \in Uuids : z(v) \in Guarded
      BY GuardedCells
    <2>3. \A v \in Uuids : v # u \/ ~(Maps(a, t, w) \/ Maps(old, t, w)) =>
            z(v) \notin {Item(<<"level", old.level, u>>), Item(<<"levelOf", old.level, old.type, u>>),
                         Item(<<"level", a.level, u>>), Item(<<"levelOf", a.level, old.type, u>>),
                         Item(<<"uuid", old.type, old.tracked, u>>), Item(<<"uuid", a.type, a.tracked, u>>),
                         FieldOf(u, "level"), FieldOf(u, "type")}
      BY CellsDiffer DEF Maps
    <2>4. \A v \in Uuids : v # u \/ ~(Maps(a, t, w) \/ Maps(old, t, w)) => Quiet(p1, z(v))
      BY <1>2, <2>2, <2>3
    <2>5. a.type = old.type => Quiet(p1, z(u))
      BY <1>2, EmptyList
    <2>6. a.type # old.type => /\ Maps(a, t, w) => Gives(p1, z(u), "in")
                               /\ Maps(old, t, w) => Gives(p1, z(u), "out")
      BY <1>2 DEF Maps
    <2> HIDE DEF z
    <2>7. /\ IF a.type = old.type THEN Quiet(q, z(u))
             ELSE IF Maps(a, t, w) THEN Gives(q, z(u), "in")
             ELSE IF Maps(old, t, w) THEN Gives(q, z(u), "out") ELSE Quiet(q, z(u))
          /\ \A v \in Uuids \ {u} : Quiet(q, z(v))
      BY <1>8, <2>1, <2>4, <2>5, <2>6
    <2>8. QED
      BY <2>7 DEF z
  <1>21. EditDone(q, u, a, old)
    BY <1>8, <1>9, <1>11, <1>12, <1>13, <1>14, <1>15, <1>16, <1>17, <1>18, <1>19, <1>20 DEF EditDone
  <1>22. QED
    BY <1>1, <1>21

LEMMA FourLists ==
  ASSUME NEW S, NEW p1 \in Seq(S), NEW p2 \in Seq(S), NEW p3 \in Seq(S), NEW p4 \in Seq(S)
  PROVE  OfSix(p1 \o p2 \o p3 \o p4, S, p1, p2, p3, p4, <<>>, <<>>)
  <1> DEFINE q2 == p1 \o p2
             q3 == q2 \o p3
  <1>1. /\ q2 \in Seq(S)
        /\ \A z : Quiet(q2, z) <=> Quiet(p1, z) /\ Quiet(p2, z)
        /\ \A z, v : Gives(q2, z, v) <=> Gives(p2, z, v) \/ (Gives(p1, z, v) /\ Quiet(p2, z))
    BY JoinedLists
  <1> HIDE DEF q2
  <1>2. /\ q3 \in Seq(S)
        /\ \A z : Quiet(q3, z) <=> Quiet(q2, z) /\ Quiet(p3, z)
        /\ \A z, v : Gives(q3, z, v) <=> Gives(p3, z, v) \/ (Gives(q2, z, v) /\ Quiet(p3, z))
    BY <1>1, JoinedLists
  <1> HIDE DEF q3
  <1>3. /\ q3 \o p4 \in Seq(S)
        /\ \A z : Quiet(q3 \o p4, z) <=> Quiet(q3, z) /\ Quiet(p4, z)
        /\ \A z, v : Gives(q3 \o p4, z, v) <=> Gives(p4, z, v) \/ (Gives(q3, z, v) /\ Quiet(p4, z))
    BY <1>2, JoinedLists
  <1>4. \A z, v : Quiet(<<>>, z) /\ ~Gives(<<>>, z, v)
    BY EmptyList
  <1>5. OfSix(q3 \o p4, S, p1, p2, p3, p4, <<>>, <<>>)
    BY <1>1, <1>2, <1>3, <1>4 DEF OfSix
  <1>6. QED
    BY <1>5 DEF q2, q3

CreateDone(q, u, a) ==
    /\ q \in Seq(Cmds)
    /\ \A v \in Uuids \ {u} : Quiet(q, Item(<<"all", v>>))
    /\ Gives(q, Item(<<"all", u>>), "in")
    /\ \A v \in Uuids \ {u} : \A f \in {"type", "tracked", "level", "filters"} : Quiet(q, FieldOf(v, f))
    /\ Gives(q, FieldOf(u, "type"), a.type)
    /\ Gives(q, FieldOf(u, "tracked"), a.tracked)
    /\ Gives(q, FieldOf(u, "level"), a.level)
    /\ IF a.filters = {} THEN Quiet(q, FieldOf(u, "filters"))
                         ELSE Gives(q, FieldOf(u, "filters"), a.filters)
    /\ \A t \in Types, w \in Terms, k \in Kinds :
         /\ IF Wants(a, t, w, k) THEN Gives(q, Item(<<"terms", t, k, w>>), "in")
                                 ELSE Quiet(q, Item(<<"terms", t, k, w>>))
         /\ IF Wants(a, t, w, k) THEN Gives(q, Item(<<"uuids", t, w, u, k>>), "in")
                                 ELSE Quiet(q, Item(<<"uuids", t, w, u, k>>))
         /\ \A v \in Uuids \ {u} : Quiet(q, Item(<<"uuids", t, w, v, k>>))
    /\ \A l \in Levels :
         /\ IF l = a.level THEN Gives(q, Item(<<"level", l, u>>), "in")
                           ELSE Quiet(q, Item(<<"level", l, u>>))
         /\ \A v \in Uuids \ {u} : Quiet(q, Item(<<"level", l, v>>))
         /\ \A v \in Uuids \ {u}, t \in Types : Quiet(q, Item(<<"levelOf", l, t, v>>))
    /\ Gives(q, Item(<<"levelOf", a.level, a.type, u>>), "in")
    /\ \A l \in Levels, t \in Types :
         (l = a.level /\ t = a.type) \/ Quiet(q, Item(<<"levelOf", l, t, u>>))
    /\ \A t \in Types, w \in Terms :
         /\ IF Maps(a, t, w) THEN Gives(q, Item(<<"uuid", t, w, u>>), "in")
                             ELSE Quiet(q, Item(<<"uuid", t, w, u>>))
         /\ \A v \in Uuids \ {u} : Quiet(q, Item(<<"uuid", t, w, v>>))

LEMMA CreateDoes ==
  ASSUME NEW u \in Uuids, NEW a \in Asks
  PROVE  CreateDone(Create(u, a), u, a)
  <1> DEFINE c1 == Hset(u, "tracked", a.tracked)
             c2 == Hset(u, "type", a.type)
             c3 == Sadd(<<"tracked", a.type, a.tracked>>)
             c4 == Sadd(<<"uuid", a.type, a.tracked, u>>)
             c5 == Sadd(<<"all", u>>)
             c6 == Sadd(<<"allOf", a.type, u>>)
             c7 == <<"trigger", a.type>>
             p1 == <<c1, c2, c3, c4, c5, c6>>
             p2 == SetLevel(u, a.type, a.level)
             p3 == AddFilters(u, a)
             p4 == <<c7>>
             q == p1 \o p2 \o p3 \o p4
  <1>0. /\ a.type \in Types /\ a.tracked \in Terms /\ a.level \in Levels
        /\ a.filters \in SUBSET Kinds /\ a.filters \in Filters
    BY AskTypes
  <1>1. Create(u, a) = q
    BY DEF Create
  <1>2. /\ c1 \in Cmds /\ c2 \in Cmds /\ c3 \in Cmds /\ c4 \in Cmds /\ c5 \in Cmds /\ c6 \in Cmds /\ c7 \in Cmds
    BY <1>0, PlainCommands
  <1>3. /\ \A z : Touches(c1, z) <=> z = FieldOf(u, "tracked")
        /\ \A z : Touches(c2, z) <=> z = FieldOf(u, "type")
        /\ \A z : Touches(c3, z) <=> z = Item(<<"tracked", a.type, a.tracked>>)
        /\ \A z : Touches(c4, z) <=> z = Item(<<"uuid", a.type, a.tracked, u>>)
        /\ \A z : Touches(c5, z) <=> z = Item(<<"all", u>>)
        /\ \A z : Touches(c6, z) <=> z = Item(<<"allOf", a.type, u>>)
        /\ \A z : ~Touches(c7, z)
        /\ Leaves(c1) = a.tracked /\ Leaves(c2) = a.type /\ Leaves(c4) = "in" /\ Leaves(c5) = "in"
    BY CommandsTouch, CommandsLeave
  <1>4. \A z \in Guarded : ~Touches(c3, z) /\ ~Touches(c6, z)
    BY ONLY <1>3, OtherTables
  <1> DEFINE z4 == Item(<<"uuid", a.type, a.tracked, u>>)
  <1>d. /\ z4 \in Guarded
        /\ z4 \notin {FieldOf(u, "tracked"), FieldOf(u, "type"), Item(<<"all", u>>)}
        /\ \A z : Touches(c4, z) <=> z = z4
    BY <1>0, <1>3, CellsDiffer, GuardedCells
  <1>5. /\ FieldOf(u, "type") \in Guarded /\ FieldOf(u, "tracked") \in Guarded /\ Item(<<"all", u>>) \in Guarded
        /\ FieldOf(u, "type") # FieldOf(u, "tracked")
        /\ FieldOf(u, "type") # Item(<<"all", u>>) /\ FieldOf(u, "tracked") # Item(<<"all", u>>)
    BY CellsDiffer, GuardedCells
  <1> HIDE DEF c1, c2, c3, c4, c5, c6, c7, z4
  <1>6. /\ p1 \in Seq(Cmds) /\ Len(p1) = 6
        /\ p1[1] = c1 /\ p1[2] = c2 /\ p1[3] = c3 /\ p1[4] = c4 /\ p1[5] = c5 /\ p1[6] = c6
    BY <1>2
  <1>7. \A z \in Guarded : z \notin {FieldOf(u, "tracked"), FieldOf(u, "type"), Item(<<"all", u>>), z4}
                             => Quiet(p1, z)
    BY <1>3, <1>4, <1>6, <1>d DEF Quiet
  <1>8. /\ Gives(p1, FieldOf(u, "tracked"), a.tracked)
        /\ Gives(p1, FieldOf(u, "type"), a.type)
        /\ Gives(p1, Item(<<"all", u>>), "in")
        /\ Gives(p1, z4, "in")
    BY <1>3, <1>4, <1>5, <1>6, <1>d DEF Gives, Writes
  <1>9. p4 \in Seq(Cmds) /\ \A z : Quiet(p4, z)
    <2>1. p4 \in Seq(Cmds)
      BY <1>2
    <2>2. QED
      BY <1>3, <2>1, OneCommand
  <1>10. /\ p2 \in Seq(Cmds)
         /\ \A z : Quiet(p2, z) <=>
              z \notin {Item(<<"level", a.level, u>>), Item(<<"levelOf", a.level, a.type, u>>), FieldOf(u, "level")}
         /\ Gives(p2, Item(<<"level", a.level, u>>), "in")
         /\ Gives(p2, Item(<<"levelOf", a.level, a.type, u>>), "in")
         /\ Gives(p2, FieldOf(u, "level"), a.level)
    BY ONLY <1>0, SetLevelDoes, u \in Uuids
  <1>11. /\ p3 \in Seq(Cmds)
         /\ \A z : Quiet(p3, z) <=>
              /\ \A k \in Tracks(a.filters) : /\ z # Item(<<"terms", a.type, k, a.tracked>>)
                                              /\ z # Item(<<"uuids", a.type, a.tracked, u, k>>)
              /\ a.filters # {} => z # FieldOf(u, "filters")
         /\ \A k \in Tracks(a.filters) : /\ Gives(p3, Item(<<"terms", a.type, k, a.tracked>>), "in")
                                         /\ Gives(p3, Item(<<"uuids", a.type, a.tracked, u, k>>), "in")
         /\ a.filters # {} => Gives(p3, FieldOf(u, "filters"), a.filters)
    BY AddFiltersDoes
  <1> HIDE DEF p1, p2, p3, p4
  <1>12. /\ q \in Seq(Cmds)
         /\ \A z : Quiet(q, z) <=> Quiet(p1, z) /\ Quiet(p2, z) /\ Quiet(p3, z)
         /\ \A z, v : Gives(q, z, v) <=> \/ Gives(p3, z, v)
                                         \/ Quiet(p3, z) /\ Gives(p2, z, v)
                                         \/ Quiet(p3, z) /\ Quiet(p2, z) /\ Gives(p1, z, v)
    <2>1. p1 \in Seq(Cmds) /\ p2 \in Seq(Cmds) /\ p3 \in Seq(Cmds) /\ p4 \in Seq(Cmds)
      BY <1>6, <1>9, <1>10, <1>11
    <2>2. OfSix(q, Cmds, p1, p2, p3, p4, <<>>, <<>>)
      BY <2>1, FourLists
    <2>3. /\ \A z, v : Quiet(<<>>, z) /\ ~Gives(<<>>, z, v)
          /\ \A z, v : Quiet(p4, z) /\ ~Gives(p4, z, v)
      BY EmptyList, LeavesOne, <1>9
    <2>4. QED
      BY ONLY <2>2, <2>3 DEF OfSix
  <1> HIDE DEF q
  <1>a. \A x : x[1] \notin {"level", "levelOf"} => Quiet(p2, Item(x))
    BY <1>10, TablesDiffer, CellsDiffer
  <1>b. \A x : x[1] \notin {"all", "uuid"} /\ Item(x) \in Guarded => Quiet(p1, Item(x))
    BY <1>7, TablesDiffer, CellsDiffer DEF z4
  <1>c. \A x : x[1] \notin {"terms", "uuids"} => Quiet(p3, Item(x))
    BY <1>11, TablesDiffer, CellsDiffer
  <1>13. /\ \A v \in Uuids \ {u} : Quiet(q, Item(<<"all", v>>))
         /\ Gives(q, Item(<<"all", u>>), "in")
    <2>1. \A v \in Uuids : Item(<<"all", v>>) \in Guarded
      BY GuardedCells
    <2>2. \A v \in Uuids : Quiet(p2, Item(<<"all", v>>)) /\ Quiet(p3, Item(<<"all", v>>))
      BY <1>a, <1>c
    <2>3. ASSUME NEW v \in Uuids \ {u}
          PROVE  Quiet(p1, Item(<<"all", v>>))
      <3>1. Item(<<"all", v>>) \notin {FieldOf(u, "tracked"), FieldOf(u, "type"), Item(<<"all", u>>), z4}
        BY CellsDiffer DEF z4
      <3>2. QED
        BY <1>7, <2>1, <3>1
    <2>4. QED
      BY <1>8, <1>12, <2>2, <2>3
  <1>14. \A v \in Uuids, f \in {"type", "tracked", "level", "filters"} :
            /\ f \notin {"type", "tracked"} \/ v # u => Quiet(p1, FieldOf(v, f))
            /\ f # "level" \/ v # u => Quiet(p2, FieldOf(v, f))
            /\ f # "filters" \/ v # u => Quiet(p3, FieldOf(v, f))
    <2> TAKE v \in Uuids, f \in {"type", "tracked", "level", "filters"}
    <2>1. FieldOf(v, f) \in Guarded
      BY GuardedCells
    <2>2. f \notin {"type", "tracked"} \/ v # u => Quiet(p1, FieldOf(v, f))
      <3>1. f \notin {"type", "tracked"} \/ v # u
              => FieldOf(v, f) \notin {FieldOf(u, "tracked"), FieldOf(u, "type"), Item(<<"all", u>>), z4}
        BY CellsDiffer DEF z4
      <3>2. QED
        BY <1>7, <2>1, <3>1
    <2>3. f # "level" \/ v # u => Quiet(p2, FieldOf(v, f))
      BY <1>10, CellsDiffer
    <2>4. f # "filters" \/ v # u => Quiet(p3, FieldOf(v, f))
      BY <1>11, CellsDiffer
    <2>5. QED
      BY <2>2, <2>3, <2>4
  <1>15. \A v \in Uuids \ {u} : \A f \in {"type", "tracked", "level", "filters"} : Quiet(q, FieldOf(v, f))
    BY <1>12, <1>14
  <1>16. /\ Gives(q, FieldOf(u, "type"), a.type)
         /\ Gives(q, FieldOf(u, "tracked"), a.tracked)
         /\ Gives(q, FieldOf(u, "level"), a.level)
    BY <1>8, <1>10, <1>12, <1>14
  <1>17. IF a.filters = {} THEN Quiet(q, FieldOf(u, "filters"))
                           ELSE Gives(q, FieldOf(u, "filters"), a.filters)
    <2>1. CASE a.filters = {}
      <3>1. Quiet(p3, FieldOf(u, "filters"))
        BY <1>11, <2>1, CellsDiffer
      <3>2. QED
        BY <1>12, <1>14, <2>1, <3>1
    <2>2. CASE a.filters # {}
      BY <1>11, <1>12, <2>2
    <2>3. QED
      BY <2>1, <2>2
  <1>18. ASSUME NEW t \in Types, NEW w \in Terms, NEW k \in Kinds
         PROVE  /\ IF Wants(a, t, w, k) THEN Gives(q, Item(<<"terms", t, k, w>>), "in")
                                        ELSE Quiet(q, Item(<<"terms", t, k, w>>))
                /\ IF Wants(a, t, w, k) THEN Gives(q, Item(<<"uuids", t, w, u, k>>), "in")
                                        ELSE Quiet(q, Item(<<"uuids", t, w, u, k>>))
                /\ \A v \in Uuids \ {u} : Quiet(q, Item(<<"uuids", t, w, v, k>>))
    <2> DEFINE z1 == Item(<<"terms", t, k, w>>)
               z2(v) == Item(<<"uuids", t, w, v, k>>)
    <2>1. z1 \in Guarded /\ \A v \in Uuids : z2(v) \in Guarded
      BY GuardedCells
    <2>2. Quiet(p1, z1) /\ \A v \in Uuids : Quiet(p1, z2(v))
      BY <1>b, <2>1
    <2>3. Quiet(p2, z1) /\ \A v \in Uuids : Quiet(p2, z2(v))
      BY <1>a
    <2>4. /\ IF Wants(a, t, w, k) THEN Gives(p3, z1, "in") /\ Gives(p3, z2(u), "in")
                                  ELSE Quiet(p3, z1) /\ Quiet(p3, z2(u))
          /\ \A v \in Uuids \ {u} : Quiet(p3, z2(v))
      BY <1>11, CellsDiffer DEF Wants
    <2> HIDE DEF z1, z2
    <2>5. /\ IF Wants(a, t, w, k) THEN Gives(q, z1, "in") ELSE Quiet(q, z1)
          /\ IF Wants(a, t, w, k) THEN Gives(q, z2(u), "in") ELSE Quiet(q, z2(u))
          /\ \A v \in Uuids \ {u} : Quiet(q, z2(v))
      BY <1>12, <2>2, <2>3, <2>4
    <2>6. QED
      BY <2>5 DEF z1, z2
  <1>19. ASSUME NEW l \in Levels
         PROVE  /\ IF l = a.level THEN Gives(q, Item(<<"level", l, u>>), "in")
                                  ELSE Quiet(q, Item(<<"level", l, u>>))
                /\ \A v \in Uuids \ {u} : Quiet(q, Item(<<"level", l, v>>))
                /\ \A v \in Uuids \ {u}, t \in Types : Quiet(q, Item(<<"levelOf", l, t, v>>))
    <2> DEFINE z1(v) == Item(<<"level", l, v>>)
               z2(v, t) == Item(<<"levelOf", l, t, v>>)
    <2>1. \A v \in Uuids : z1(v) \in Guarded /\ \A t \in Types : z2(v, t) \in Guarded
      BY GuardedCells
    <2>2. \A v \in Uuids : Quiet(p1, z1(v)) /\ \A t \in Types : Quiet(p1, z2(v, t))
      BY <1>b, <2>1
    <2>3. /\ \A v \in Uuids \ {u} : Quiet(p2, z1(v)) /\ \A t \in Types : Quiet(p2, z2(v, t))
          /\ IF l = a.level THEN Gives(p2, z1(u), "in") ELSE Quiet(p2, z1(u))
      <3>1. \A v \in Uuids \ {u} : Quiet(p2, z1(v))
        BY <1>10, CellsDiffer
      <3>2. \A v \in Uuids \ {u} : \A t \in Types : Quiet(p2, z2(v, t))
        BY <1>10, CellsDiffer
      <3>3. l # a.level => Quiet(p2, z1(u))
        BY <1>10, CellsDiffer
      <3>4. QED
        BY <1>10, <3>1, <3>2, <3>3
    <2>4. \A v \in Uuids : Quiet(p3, z1(v)) /\ \A t \in Types : Quiet(p3, z2(v, t))
      BY <1>c
    <2> HIDE DEF z1, z2
    <2>5. /\ IF l = a.level THEN Gives(q, z1(u), "in") ELSE Quiet(q, z1(u))
          /\ \A v \in Uuids \ {u} : Quiet(q, z1(v))
          /\ \A v \in Uuids \ {u}, t \in Types : Quiet(q, z2(v, t))
      BY <1>12, <2>2, <2>3, <2>4
    <2>6. QED
      BY <2>5 DEF z1, z2
  <1>20. Gives(q, Item(<<"levelOf", a.level, a.type, u>>), "in")
    BY <1>10, <1>12, <1>c
  <1>21. ASSUME NEW l \in Levels, NEW t \in Types, ~(l = a.level /\ t = a.type)
         PROVE  Quiet(q, Item(<<"levelOf", l, t, u>>))
    <2> DEFINE z == Item(<<"levelOf", l, t, u>>)
    <2>1. z \in Guarded
      BY GuardedCells
    <2>2. Quiet(p1, z) /\ Quiet(p3, z)
      BY <1>b, <1>c, <2>1
    <2>3. Quiet(p2, z)
      BY <1>10, <1>21, CellsDiffer
    <2>4. QED
      BY <1>12, <2>2, <2>3
  <1>22. ASSUME NEW t \in Types, NEW w \in Terms
         PROVE  /\ IF Maps(a, t, w) THEN Gives(q, Item(<<"uuid", t, w, u>>), "in")
                                    ELSE Quiet(q, Item(<<"uuid", t, w, u>>))
                /\ \A v \in Uuids \ {u} : Quiet(q, Item(<<"uuid", t, w, v>>))
    <2> DEFINE z(v) == Item(<<"uuid", t, w, v>>)
    <2>1. \A v \in Uuids : z(v) \in Guarded /\ Quiet(p2, z(v)) /\ Quiet(p3, z(v))
      BY GuardedCells, <1>a, <1>c
    <2>2. \A v \in Uuids : v # u \/ ~Maps(a, t, w) =>
            z(v) \notin {FieldOf(u, "tracked"), FieldOf(u, "type"), Item(<<"all", u>>), z4}
      BY CellsDiffer DEF Maps, z4
    <2>3. \A v \in Uuids : v # u \/ ~Maps(a, t, w) => Quiet(p1, z(v))
      BY <1>7, <2>1, <2>2
    <2>4. Maps(a, t, w) => Gives(p1, z(u), "in")
      BY <1>8 DEF Maps, z4
    <2> HIDE DEF z
    <2>5. /\ IF Maps(a, t, w) THEN Gives(q, z(u), "in") ELSE Quiet(q, z(u))
          /\ \A v \in Uuids \ {u} : Quiet(q, z(v))
      BY <1>12, <2>1, <2>3, <2>4
    <2>6. QED
      BY <2>5 DEF z
  <1>23. CreateDone(q, u, a)
    BY <1>12, <1>13, <1>15, <1>16, <1>17, <1>18, <1>19, <1>20, <1>21, <1>22 DEF CreateDone
  <1>24. QED
    BY <1>1, <1>23

DeleteDone(q, u, old) ==
    /\ q \in Seq(Cmds)
    /\ \A v \in Uuids \ {u} : Quiet(q, Item(<<"all", v>>))
    /\ Gives(q, Item(<<"all", u>>), "out")
    /\ \A v \in Uuids \ {u} : \A f \in {"type", "tracked", "level", "filters"} : Quiet(q, FieldOf(v, f))
    /\ \A t \in Types, w \in Terms, k \in Kinds :
         /\ IF t = old.type /\ w = old.tracked THEN /\ Gives(q, Item(<<"terms", t, k, w>>), "out")
                                                    /\ Gives(q, Item(<<"uuids", t, w, u, k>>), "out")
                                               ELSE /\ Quiet(q, Item(<<"terms", t, k, w>>))
                                                    /\ Quiet(q, Item(<<"uuids", t, w, u, k>>))
         /\ \A v \in Uuids \ {u} : Quiet(q, Item(<<"uuids", t, w, v, k>>))
    /\ \A l \in Levels :
         /\ IF l = old.level THEN Gives(q, Item(<<"level", l, u>>), "out")
                             ELSE Quiet(q, Item(<<"level", l, u>>))
         /\ \A v \in Uuids \ {u} : Quiet(q, Item(<<"level", l, v>>))
         /\ \A v \in Uuids \ {u}, t \in Types : Quiet(q, Item(<<"levelOf", l, t, v>>))
         /\ \A t \in Types : IF l = old.level /\ t = old.type
                             THEN Gives(q, Item(<<"levelOf", l, t, u>>), "out")
                             ELSE Quiet(q, Item(<<"levelOf", l, t, u>>))
    /\ \A t \in Types, w \in Terms :
         /\ IF Maps(old, t, w) THEN Gives(q, Item(<<"uuid", t, w, u>>), "out")
                               ELSE Quiet(q, Item(<<"uuid", t, w, u>>))
         /\ \A v \in Uuids \ {u} : Quiet(q, Item(<<"uuid", t, w, v>>))

LEMMA DeleteDoes ==
  ASSUME NEW u \in Uuids, NEW old, Whole(old)
  PROVE  DeleteDone(Delete(u, old), u, old)
  <1>0. old.type \in Types /\ old.tracked \in Terms /\ old.level \in Levels
    BY DEF Whole
  <1> SUFFICES ASSUME NEW ot \in Types, NEW ow \in Terms, NEW ol \in Levels,
                      ot = old.type, ow = old.tracked, ol = old.level
               PROVE  DeleteDone(Delete(u, old), u, old)
    BY <1>0
  <1> DEFINE c0 == <<"objs", u>>
             c1 == Srem(<<"level", ol, u>>)
             c2 == Srem(<<"levelOf", ol, ot, u>>)
             c3 == Srem(<<"tracked", ot, ow>>)
             c4 == Srem(<<"uuid", ot, ow, u>>)
             c5 == Srem(<<"all", u>>)
             c6 == Srem(<<"allOf", ot, u>>)
             c7 == <<"del", u>>
             c8 == <<"trigger", ot>>
             f == [k \in Kinds |-> <<Srem(<<"terms", ot, k, ow>>), Srem(<<"uuids", ot, ow, u, k>>)>>]
             p1 == <<c0>>
             p2 == Each(f)
             p3 == <<c1, c2, c3, c4, c5, c6, c7, c8>>
             p4 == <<>>
             q == p1 \o p2 \o p3
  <1>1. Delete(u, old) = q
    BY DEF Delete
  <1>2. /\ c0 \in Cmds /\ c1 \in Cmds /\ c2 \in Cmds /\ c3 \in Cmds /\ c4 \in Cmds
        /\ c5 \in Cmds /\ c6 \in Cmds /\ c7 \in Cmds /\ c8 \in Cmds
    <2>1. /\ <<"level", ol, u>> \in PlainItems /\ <<"levelOf", ol, ot, u>> \in PlainItems
          /\ <<"tracked", ot, ow>> \in PlainItems /\ <<"uuid", ot, ow, u>> \in PlainItems
          /\ <<"all", u>> \in PlainItems /\ <<"allOf", ot, u>> \in PlainItems
      BY PlainCommands
    <2>2. c1 \in Cmds /\ c2 \in Cmds /\ c3 \in Cmds /\ c4 \in Cmds /\ c5 \in Cmds /\ c6 \in Cmds
      <3>1. \A x \in PlainItems : Srem(x) \in Cmds
        BY PlainCommands
      <3>2. QED
        BY <2>1, <3>1
    <2>3. c0 \in Cmds /\ c7 \in Cmds
      BY DEF Cmds, PlainCmds
    <2>4. c8 \in Cmds
      BY PlainCommands
    <2>5. QED
      BY <2>2, <2>3, <2>4
  <1>3. /\ \A z : ~Touches(c0, z) /\ ~Touches(c8, z)
        /\ \A z : Touches(c1, z) <=> z = Item(<<"level", ol, u>>)
        /\ \A z : Touches(c2, z) <=> z = Item(<<"levelOf", ol, ot, u>>)
        /\ \A z : Touches(c3, z) <=> z = Item(<<"tracked", ot, ow>>)
        /\ \A z : Touches(c4, z) <=> z = Item(<<"uuid", ot, ow, u>>)
        /\ \A z : Touches(c5, z) <=> z = Item(<<"all", u>>)
        /\ \A z : Touches(c6, z) <=> z = Item(<<"allOf", ot, u>>)
        /\ \A z : Touches(c7, z) <=> \E g \in Fields : z = FieldOf(u, g)
        /\ Leaves(c1) = "out" /\ Leaves(c2) = "out" /\ Leaves(c4) = "out" /\ Leaves(c5) = "out"
    BY CommandsTouch, CommandsLeave
  <1>4. \A z \in Guarded : ~Touches(c3, z) /\ ~Touches(c6, z)
    BY ONLY <1>3, OtherTables
  <1> DEFINE z4 == Item(<<"uuid", ot, ow, u>>)
  <1>c. /\ z4 \in Guarded /\ \A z : Touches(c4, z) <=> z = z4
        /\ z4 \notin {Item(<<"level", ol, u>>), Item(<<"levelOf", ol, ot, u>>), Item(<<"all", u>>)}
        /\ \A v, g : z4 # FieldOf(v, g)
    BY <1>3, CellsDiffer, GuardedCells
  <1>5. /\ Item(<<"level", ol, u>>) # Item(<<"levelOf", ol, ot, u>>)
        /\ Item(<<"level", ol, u>>) # Item(<<"all", u>>)
        /\ Item(<<"all", u>>) # Item(<<"levelOf", ol, ot, u>>)
        /\ \A v, g : Item(<<"level", ol, u>>) # FieldOf(v, g) /\ Item(<<"all", u>>) # FieldOf(v, g)
        /\ \A v, g : Item(<<"levelOf", ol, ot, u>>) # FieldOf(v, g)
        /\ Item(<<"level", ol, u>>) \in Guarded /\ Item(<<"all", u>>) \in Guarded
        /\ Item(<<"levelOf", ol, ot, u>>) \in Guarded
    BY CellsDiffer, GuardedCells
  <1>6. f \in [Kinds -> Cmds \X Cmds]
    BY PlainCommands
  <1>7. OfKinds(f, Kinds, u, ot, ow, "out")
    BY CommandsTouch, CommandsLeave DEF OfKinds
  <1> HIDE DEF c0, c1, c2, c3, c4, c5, c6, c7, c8, f, z4
  <1>8. /\ p3 \in Seq(Cmds) /\ Len(p3) = 8
        /\ p3[1] = c1 /\ p3[2] = c2 /\ p3[3] = c3 /\ p3[4] = c4
        /\ p3[5] = c5 /\ p3[6] = c6 /\ p3[7] = c7 /\ p3[8] = c8
    BY <1>2
  <1>9. \A z \in Guarded :
          (/\ z \notin {Item(<<"level", ol, u>>), Item(<<"levelOf", ol, ot, u>>), Item(<<"all", u>>), z4}
           /\ \A g \in Fields : z # FieldOf(u, g))
            => Quiet(p3, z)
    BY <1>3, <1>4, <1>8, <1>c DEF Quiet
  <1>10. /\ Gives(p3, Item(<<"level", ol, u>>), "out") /\ Gives(p3, Item(<<"all", u>>), "out")
         /\ Gives(p3, Item(<<"levelOf", ol, ot, u>>), "out") /\ Gives(p3, z4, "out")
    BY <1>3, <1>4, <1>5, <1>8, <1>c DEF Gives, Writes
  <1>11. p1 \in Seq(Cmds)
    BY <1>2
  <1>12. \A z : Quiet(p1, z)
    BY <1>3, OneCommand
  <1>13. /\ p2 \in Seq(Cmds)
         /\ \A z : Quiet(p2, z) <=>
              \A k \in Kinds : z # Item(<<"terms", ot, k, ow>>) /\ z # Item(<<"uuids", ot, ow, u, k>>)
         /\ \A k \in Kinds : /\ Gives(p2, Item(<<"terms", ot, k, ow>>), "out")
                             /\ Gives(p2, Item(<<"uuids", ot, ow, u, k>>), "out")
    <2>1. Kinds \in SUBSET Kinds
      OBVIOUS
    <2>2. QED
      BY ONLY <1>6, <1>7, <2>1, KindsLoop
  <1> HIDE DEF p1, p2, p3
  <1>14. /\ q \in Seq(Cmds)
         /\ \A z : Quiet(q, z) <=> Quiet(p2, z) /\ Quiet(p3, z)
         /\ \A z, v : Gives(q, z, v) <=> Gives(p3, z, v) \/ (Quiet(p3, z) /\ Gives(p2, z, v))
    <2> DEFINE r == p1 \o p2
    <2>1. /\ r \in Seq(Cmds)
          /\ \A z : Quiet(r, z) <=> Quiet(p1, z) /\ Quiet(p2, z)
          /\ \A z, v : Gives(r, z, v) <=> Gives(p2, z, v) \/ (Gives(p1, z, v) /\ Quiet(p2, z))
      BY <1>11, <1>13, JoinedLists
    <2> HIDE DEF r
    <2>2. /\ r \o p3 \in Seq(Cmds)
          /\ \A z : Quiet(r \o p3, z) <=> Quiet(r, z) /\ Quiet(p3, z)
          /\ \A z, v : Gives(r \o p3, z, v) <=> Gives(p3, z, v) \/ (Gives(r, z, v) /\ Quiet(p3, z))
      BY <1>8, <2>1, JoinedLists
    <2>3. q = r \o p3
      BY DEF r
    <2>4. \A z, v : ~Gives(p1, z, v)
      BY <1>11, <1>12, LeavesOne
    <2> HIDE DEF q
    <2>5. QED
      BY <1>12, <2>1, <2>2, <2>3, <2>4
  <1> HIDE DEF q
  <1>a. \A x : x[1] \notin {"terms", "uuids"} => Quiet(p2, Item(x))
    BY <1>13, TablesDiffer, CellsDiffer
  <1>b. \A x : x[1] \notin {"all", "level", "levelOf", "uuid"} /\ Item(x) \in Guarded => Quiet(p3, Item(x))
    BY <1>9, TablesDiffer, CellsDiffer DEF z4
  <1>15. /\ \A v \in Uuids \ {u} : Quiet(q, Item(<<"all", v>>))
         /\ Gives(q, Item(<<"all", u>>), "out")
    <2>1. \A v \in Uuids : Quiet(p2, Item(<<"all", v>>))
      BY <1>a
    <2>2. ASSUME NEW v \in Uuids \ {u}
          PROVE  Quiet(p3, Item(<<"all", v>>))
      <3>1. /\ Item(<<"all", v>>) \notin {Item(<<"level", ol, u>>), Item(<<"levelOf", ol, ot, u>>), Item(<<"all", u>>), z4}
            /\ \A g \in Fields : Item(<<"all", v>>) # FieldOf(u, g)
        BY CellsDiffer DEF z4
      <3>2. Item(<<"all", v>>) \in Guarded
        BY GuardedCells
      <3>3. QED
        BY <1>9, <3>1, <3>2
    <2>3. QED
      BY <1>10, <1>14, <2>1, <2>2
  <1>16. ASSUME NEW v \in Uuids \ {u}, NEW g \in {"type", "tracked", "level", "filters"}
         PROVE  Quiet(q, FieldOf(v, g))
    <2>1. FieldOf(v, g) \in Guarded
      BY GuardedCells
    <2>2. /\ FieldOf(v, g) \notin {Item(<<"level", ol, u>>), Item(<<"levelOf", ol, ot, u>>), Item(<<"all", u>>), z4}
          /\ \A h \in Fields : FieldOf(v, g) # FieldOf(u, h)
      BY CellsDiffer DEF z4
    <2>3. Quiet(p3, FieldOf(v, g))
      BY <1>9, <2>1, <2>2
    <2>4. Quiet(p2, FieldOf(v, g))
      BY <1>13, CellsDiffer
    <2>5. QED
      BY <1>14, <2>3, <2>4
  <1>17. ASSUME NEW t \in Types, NEW w \in Terms, NEW k \in Kinds
         PROVE  /\ IF t = ot /\ w = ow THEN /\ Gives(q, Item(<<"terms", t, k, w>>), "out")
                                            /\ Gives(q, Item(<<"uuids", t, w, u, k>>), "out")
                                       ELSE /\ Quiet(q, Item(<<"terms", t, k, w>>))
                                            /\ Quiet(q, Item(<<"uuids", t, w, u, k>>))
                /\ \A v \in Uuids \ {u} : Quiet(q, Item(<<"uuids", t, w, v, k>>))
    <2> DEFINE z1 == Item(<<"terms", t, k, w>>)
               z2(v) == Item(<<"uuids", t, w, v, k>>)
    <2>1. z1 \in Guarded /\ \A v \in Uuids : z2(v) \in Guarded
      BY GuardedCells
    <2>2. Quiet(p3, z1) /\ \A v \in Uuids : Quiet(p3, z2(v))
      BY <1>b, <2>1
    <2>3. /\ IF t = ot /\ w = ow THEN Gives(p2, z1, "out") /\ Gives(p2, z2(u), "out")
                                 ELSE Quiet(p2, z1) /\ Quiet(p2, z2(u))
          /\ \A v \in Uuids \ {u} : Quiet(p2, z2(v))
      <3>1. t = ot /\ w = ow => Gives(p2, z1, "out") /\ Gives(p2, z2(u), "out")
        BY <1>13
      <3>2. \A v \in Uuids, j \in Kinds : /\ z1 # Item(<<"uuids", ot, ow, u, j>>)
                                          /\ z2(v) # Item(<<"terms", ot, j, ow>>)
        BY CellsDiffer DEF z4
      <3>3. \A j \in Kinds : ~(t = ot /\ w = ow) => /\ z1 # Item(<<"terms", ot, j, ow>>)
                                                    /\ z2(u) # Item(<<"uuids", ot, ow, u, j>>)
        BY CellsDiffer DEF z4
      <3>4. \A v \in Uuids \ {u}, j \in Kinds : z2(v) # Item(<<"uuids", ot, ow, u, j>>)
        BY CellsDiffer DEF z4
      <3> HIDE DEF z1, z2
      <3>5. QED
        BY <1>13, <3>1, <3>2, <3>3, <3>4
    <2> HIDE DEF z1, z2
    <2>4. /\ IF t = ot /\ w = ow THEN Gives(q, z1, "out") /\ Gives(q, z2(u), "out")
                                 ELSE Quiet(q, z1) /\ Quiet(q, z2(u))
          /\ \A v \in Uuids \ {u} : Quiet(q, z2(v))
      BY <1>14, <2>2, <2>3
    <2>5. QED
      BY <2>4 DEF z1, z2
  <1>18. ASSUME NEW l \in Levels
         PROVE  /\ IF l = ol THEN Gives(q, Item(<<"level", l, u>>), "out")
                             ELSE Quiet(q, Item(<<"level", l, u>>))
                /\ \A v \in Uuids \ {u} : Quiet(q, Item(<<"level", l, v>>))
                /\ \A v \in Uuids \ {u}, t \in Types : Quiet(q, Item(<<"levelOf", l, t, v>>))
    <2> DEFINE z1(v) == Item(<<"level", l, v>>)
               z2(v, t) == Item(<<"levelOf", l, t, v>>)
    <2>1. \A v \in Uuids : z1(v) \in Guarded /\ \A t \in Types : z2(v, t) \in Guarded
      BY GuardedCells
    <2>2. \A v \in Uuids : Quiet(p2, z1(v)) /\ \A t \in Types : Quiet(p2, z2(v, t))
      BY <1>a
    <2>3. \A v : /\ \A g \in Fields : z1(v) # FieldOf(u, g)
                 /\ \A t, g : z2(v, t) # FieldOf(u, g)
      BY CellsDiffer DEF z4
    <2>4. \A v \in Uuids \ {u} : z1(v) \notin {Item(<<"level", ol, u>>), Item(<<"levelOf", ol, ot, u>>), Item(<<"all", u>>), z4}
      BY CellsDiffer DEF z4
    <2>5. \A v \in Uuids \ {u}, t \in Types :
            z2(v, t) \notin {Item(<<"level", ol, u>>), Item(<<"levelOf", ol, ot, u>>), Item(<<"all", u>>), z4}
      BY CellsDiffer DEF z4
    <2>6. l # ol => z1(u) \notin {Item(<<"level", ol, u>>), Item(<<"levelOf", ol, ot, u>>), Item(<<"all", u>>), z4}
      BY CellsDiffer DEF z4
    <2>7. l = ol => z1(u) = Item(<<"level", ol, u>>)
      OBVIOUS
    <2> HIDE DEF z1, z2
    <2>8. /\ IF l = ol THEN Gives(q, z1(u), "out") ELSE Quiet(q, z1(u))
          /\ \A v \in Uuids \ {u} : Quiet(q, z1(v))
          /\ \A v \in Uuids \ {u}, t \in Types : Quiet(q, z2(v, t))
      BY <1>9, <1>10, <1>14, <2>1, <2>2, <2>3, <2>4, <2>5, <2>6, <2>7
    <2>9. QED
      BY <2>8 DEF z1, z2
  <1>19. ASSUME NEW l \in Levels, NEW t \in Types
         PROVE  IF l = ol /\ t = ot THEN Gives(q, Item(<<"levelOf", l, t, u>>), "out")
                                   ELSE Quiet(q, Item(<<"levelOf", l, t, u>>))
    <2> DEFINE z == Item(<<"levelOf", l, t, u>>)
    <2>1. Quiet(p2, z)
      BY <1>a
    <2>2. CASE l = ol /\ t = ot
      BY <1>10, <1>14, <2>2
    <2>3. CASE ~(l = ol /\ t = ot)
      <3>1. /\ z \notin {Item(<<"level", ol, u>>), Item(<<"levelOf", ol, ot, u>>), Item(<<"all", u>>), z4}
            /\ \A g \in Fields : z # FieldOf(u, g)
        BY <2>3, CellsDiffer DEF z4
      <3>2. z \in Guarded
        BY GuardedCells
      <3>3. Quiet(p3, z)
        BY <1>9, <3>1, <3>2
      <3>4. QED
        BY <1>14, <2>1, <2>3, <3>3
    <2>4. QED
      BY <2>2, <2>3
  <1>20. ASSUME NEW t \in Types, NEW w \in Terms
         PROVE  /\ IF Maps(old, t, w) THEN Gives(q, Item(<<"uuid", t, w, u>>), "out")
                                      ELSE Quiet(q, Item(<<"uuid", t, w, u>>))
                /\ \A v \in Uuids \ {u} : Quiet(q, Item(<<"uuid", t, w, v>>))
    <2> DEFINE z(v) == Item(<<"uuid", t, w, v>>)
    <2>1. \A v \in Uuids : z(v) \in Guarded /\ Quiet(p2, z(v))
      BY GuardedCells, <1>a
    <2>2. \A v \in Uuids : v # u \/ ~Maps(old, t, w) =>
            /\ z(v) \notin {Item(<<"level", ol, u>>), Item(<<"levelOf", ol, ot, u>>), Item(<<"all", u>>), z4}
            /\ \A g \in Fields : z(v) # FieldOf(u, g)
      BY CellsDiffer DEF Maps, z4
    <2>3. \A v \in Uuids : v # u \/ ~Maps(old, t, w) => Quiet(p3, z(v))
      BY <1>9, <2>1, <2>2
    <2>4. Maps(old, t, w) => Gives(p3, z(u), "out")
      BY <1>10 DEF Maps, z4
    <2> HIDE DEF z
    <2>5. /\ IF Maps(old, t, w) THEN Gives(q, z(u), "out") ELSE Quiet(q, z(u))
          /\ \A v \in Uuids \ {u} : Quiet(q, z(v))
      BY <1>14, <2>1, <2>3, <2>4
    <2>6. QED
      BY <2>5 DEF z
  <1>21. DeleteDone(q, u, old)
    BY <1>14, <1>15, <1>16, <1>17, <1>18, <1>19, <1>20 DEF DeleteDone
  <1>22. QED
    BY <1>1, <1>21

----------------------------------------------------------------------------
(***************************************************************************)
(* The books, from one state to the next: kept when what the commands will *)
(* leave in the cells is the same; changed by a request.                   *)
(***************************************************************************)
Same == \A z \in Guarded : \A v : Will(Flask, z, v)' <=> Will(Flask, z, v)

LEMMA BooksKept ==
  ASSUME Books, Same, shared' = shared, stray' = stray
  PROVE  Books'
  <1>1. /\ \A u \in Uuids : WillList(u)' <=> WillList(u)
        /\ \A t \in Types, w \in Terms, u \in Uuids, k \in Kinds :
              WillHave(<<"uuids", t, w, u, k>>)' <=> WillHave(<<"uuids", t, w, u, k>>)
        /\ \A t \in Types, w \in Terms, k \in Kinds :
              WillHave(<<"terms", t, k, w>>)' <=> WillHave(<<"terms", t, k, w>>)
        /\ \A l \in Levels, u \in Uuids :
              WillHave(<<"level", l, u>>)' <=> WillHave(<<"level", l, u>>)
        /\ \A l \in Levels, t \in Types, u \in Uuids :
              WillHave(<<"levelOf", l, t, u>>)' <=> WillHave(<<"levelOf", l, t, u>>)
        /\ \A t \in Types, w \in Terms, u \in Uuids :
              WillHave(<<"uuid", t, w, u>>)' <=> WillHave(<<"uuid", t, w, u>>)
    BY GuardedCells DEF Same, WillHave, WillList
  <1>2. \A u \in Uuids, f \in {"type", "tracked", "level", "filters"} :
           \A v : WillBe(u, f, v)' <=> WillBe(u, f, v)
    BY GuardedCells DEF Same, WillBe
  <1>3. \A t \in Types, w \in Terms, u \in Uuids, k \in Kinds :
           WillTrack(u, t, w, k)' <=> WillTrack(u, t, w, k)
    BY <1>1, <1>2 DEF WillTrack
  <1>4. \A t \in Types, w \in Terms, u, v \in Uuids : WillShare(u, v, t, w)' <=> WillShare(u, v, t, w)
    BY <1>1, <1>2 DEF WillShare
  <1>5. Listed'
    BY <1>1, <1>2 DEF Books, Listed
  <1>6. \A u \in Uuids, l \in Levels, t \in Types : WillStand(u, l, t)' <=> WillStand(u, l, t)
    BY <1>1, <1>2 DEF WillStand
  <1>7. \A u \in Uuids, t \in Types, w \in Terms : WillMap(u, t, w)' <=> WillMap(u, t, w)
    BY <1>1, <1>2 DEF WillMap
  <1>8. QED
    BY <1>1, <1>2, <1>3, <1>4, <1>5, <1>6, <1>7 DEF Books

\* After a request about u: the others are as they were; u is there or not (has), with the
\* fields of a, and was or was not (had), with the fields of old.
Others(u) ==
    \A v \in Uuids \ {u} :
        /\ WillList(v)' <=> WillList(v)
        /\ \A f \in {"type", "tracked", "level", "filters"} : \A x : WillBe(v, f, x)' <=> WillBe(v, f, x)
        /\ \A t \in Types, w \in Terms, k \in Kinds :
              WillHave(<<"uuids", t, w, v, k>>)' <=> WillHave(<<"uuids", t, w, v, k>>)
        /\ \A l \in Levels : WillHave(<<"level", l, v>>)' <=> WillHave(<<"level", l, v>>)
        /\ \A l \in Levels, t \in Types :
              WillHave(<<"levelOf", l, t, v>>)' <=> WillHave(<<"levelOf", l, t, v>>)
        /\ \A t \in Types, w \in Terms :
              WillHave(<<"uuid", t, w, v>>)' <=> WillHave(<<"uuid", t, w, v>>)

Was(u, had, old) ==
    /\ WillList(u) <=> had
    /\ had => /\ WillBe(u, "type", old.type) /\ WillBe(u, "tracked", old.tracked)
              /\ \A t \in Types, w \in Terms, k \in Kinds :
                    WillTrack(u, t, w, k) <=> Wants(old, t, w, k)

IsNow(u, has, a) ==
    /\ WillList(u)' <=> has
    /\ has => /\ \A x : WillBe(u, "type", x)' <=> x = a.type
              /\ \A x : WillBe(u, "tracked", x)' <=> x = a.tracked
              /\ \A x : WillBe(u, "level", x)' <=> x = a.level
              /\ \E s \in Filters : \A x : WillBe(u, "filters", x)' <=> x = s
              /\ \A s \in Filters : WillBe(u, "filters", s)' => Tracks(s) = Tracks(a.filters)
              /\ WillHave(<<"levelOf", a.level, a.type, u>>)'
    /\ \A t \in Types, w \in Terms, k \in Kinds :
          WillHave(<<"uuids", t, w, u, k>>)' <=> has /\ Wants(a, t, w, k)
    /\ \A l \in Levels : WillHave(<<"level", l, u>>)' <=> has /\ l = a.level
    /\ \A l \in Levels, t \in Types : WillHave(<<"levelOf", l, t, u>>)'
          => (has /\ l = a.level /\ t = a.type) \/ <<"levelOf", l, t, u>> \in stray'
    /\ \A t \in Types, w \in Terms :
          \/ <<"uuid", t, w, u>> \in stray'
          \/ WillHave(<<"uuid", t, w, u>>)' <=> has /\ Maps(a, t, w)

TermsMove(has, a, had, old) ==
    \A t \in Types, w \in Terms, k \in Kinds :
        IF has /\ Wants(a, t, w, k) THEN WillHave(<<"terms", t, k, w>>)'
        ELSE /\ WillHave(<<"terms", t, k, w>>)'
                  => WillHave(<<"terms", t, k, w>>) /\ ~(had /\ Wants(old, t, w, k))
             /\ WillHave(<<"terms", t, k, w>>) /\ ~(had /\ t = old.type /\ w = old.tracked)
                  => WillHave(<<"terms", t, k, w>>)'
             /\ had /\ WillHave(<<"terms", t, k, w>>) /\ ~WillHave(<<"terms", t, k, w>>)'
                  => t = old.type /\ w = old.tracked

Noted(u, has, a) ==
    /\ shared \subseteq shared' /\ stray \subseteq stray'
    /\ has => \A v \in Uuids \ {u} :
                WillList(v) /\ WillBe(v, "type", a.type) /\ WillBe(v, "tracked", a.tracked)
                  => <<a.type, a.tracked>> \in shared'

LEMMA BooksChanged ==
  ASSUME Books, NEW u \in Uuids, NEW has \in BOOLEAN, NEW a, has => Whole(a),
         NEW had \in BOOLEAN, NEW old, had => Whole(old),
         Others(u), Was(u, had, old), IsNow(u, has, a), TermsMove(has, a, had, old), Noted(u, has, a)
  PROVE  Books'
  <1>1. \A v \in Uuids \ {u} :
           /\ \A t \in Types, w \in Terms, k \in Kinds : WillTrack(v, t, w, k)' <=> WillTrack(v, t, w, k)
           /\ WillList(v)' <=> WillList(v)
           /\ \A f \in {"type", "tracked", "level", "filters"} : \A x : WillBe(v, f, x)' <=> WillBe(v, f, x)
    BY DEF Others, WillTrack
  <1>2. \A t \in Types, w \in Terms, k \in Kinds : WillTrack(u, t, w, k)' <=> has /\ Wants(a, t, w, k)
    <2> TAKE t \in Types, w \in Terms, k \in Kinds
    <2>1. CASE ~has
      BY <2>1 DEF IsNow, WillTrack
    <2>2. CASE has
      <3>1. PICK s \in Filters : \A x : WillBe(u, "filters", x)' <=> x = s
        BY <2>2 DEF IsNow
      <3>2. Tracks(s) = Tracks(a.filters)
        BY <2>2, <3>1 DEF IsNow
      <3>3. QED
        BY <2>2, <3>1, <3>2 DEF IsNow, WillTrack, Wants
    <2>3. QED
      BY <2>1, <2>2
  <1>3. Listed'
    <2>1. \A v \in Uuids \ {u} : WillList(v)' =>
            /\ \E t \in Types : WillBe(v, "type", t)'
            /\ \E w \in Terms : WillBe(v, "tracked", w)'
            /\ \E l \in Levels : WillBe(v, "level", l)'
            /\ \E s \in Filters : WillBe(v, "filters", s)'
      BY <1>1 DEF Books, Listed
    <2>2. WillList(u)' =>
            /\ \E t \in Types : WillBe(u, "type", t)'
            /\ \E w \in Terms : WillBe(u, "tracked", w)'
            /\ \E l \in Levels : WillBe(u, "level", l)'
            /\ \E s \in Filters : WillBe(u, "filters", s)'
      BY DEF IsNow, Whole
    <2>3. QED
      BY <2>1, <2>2 DEF Listed
  <1>4. \A t \in Types, w \in Terms, v \in Uuids, k \in Kinds :
          WillHave(<<"uuids", t, w, v, k>>)' <=> WillTrack(v, t, w, k)'
    <2> TAKE t \in Types, w \in Terms, v \in Uuids, k \in Kinds
    <2>1. CASE v = u
      BY <2>1, <1>2 DEF IsNow
    <2>2. CASE v # u
      BY <2>2, <1>1 DEF Books, Others
    <2>3. QED
      BY <2>1, <2>2
  <1>5. ASSUME NEW t \in Types, NEW w \in Terms, NEW k \in Kinds, WillHave(<<"terms", t, k, w>>)'
        PROVE  \E v \in Uuids : WillTrack(v, t, w, k)'
    <2>1. CASE has /\ Wants(a, t, w, k)
      BY <2>1, <1>2
    <2>2. CASE ~(has /\ Wants(a, t, w, k))
      <3>1. WillHave(<<"terms", t, k, w>>) /\ ~(had /\ Wants(old, t, w, k))
        BY <1>5, <2>2 DEF TermsMove
      <3>2. PICK v \in Uuids : WillTrack(v, t, w, k)
        BY <3>1 DEF Books
      <3>3. v # u
        BY <3>1, <3>2 DEF Was, WillTrack
      <3>4. QED
        BY <3>2, <3>3, <1>1
    <2>3. QED
      BY <2>1, <2>2
  <1>6. ASSUME NEW t \in Types, NEW w \in Terms, NEW v \in Uuids, NEW k \in Kinds,
               WillTrack(v, t, w, k)', ~WillHave(<<"terms", t, k, w>>)'
        PROVE  <<t, w>> \in shared'
    <2>1. ~(has /\ Wants(a, t, w, k))
      BY <1>6 DEF TermsMove
    <2>2. v # u /\ WillTrack(v, t, w, k)
      BY <1>1, <1>2, <1>6, <2>1
    <2>3. CASE WillHave(<<"terms", t, k, w>>)
      <3>1. had /\ t = old.type /\ w = old.tracked
        BY <1>6, <2>1, <2>3 DEF TermsMove
      <3>2. WillShare(u, v, t, w)
        BY <2>2, <3>1 DEF WillShare, WillTrack, Was
      <3>3. QED
        BY <3>2 DEF Books, Noted
    <2>4. CASE ~WillHave(<<"terms", t, k, w>>)
      BY <2>2, <2>4 DEF Books, Noted
    <2>5. QED
      BY <2>3, <2>4
  <1>7. ASSUME NEW t \in Types, NEW w \in Terms, NEW v1 \in Uuids, NEW v2 \in Uuids, WillShare(v1, v2, t, w)'
        PROVE  <<t, w>> \in shared'
    <2>1. CASE v1 # u /\ v2 # u
      <3>1. WillShare(v1, v2, t, w)
        BY <1>1, <1>7, <2>1 DEF WillShare
      <3>2. QED
        BY <3>1 DEF Books, Noted
    <2>2. ASSUME NEW v \in Uuids \ {u}, WillList(u)', WillBe(u, "type", t)', WillBe(u, "tracked", w)',
                 WillList(v)', WillBe(v, "type", t)', WillBe(v, "tracked", w)'
          PROVE  <<t, w>> \in shared'
      <3>1. has /\ t = a.type /\ w = a.tracked
        BY <2>2 DEF IsNow
      <3>2. WillList(v) /\ WillBe(v, "type", t) /\ WillBe(v, "tracked", w)
        BY <1>1, <2>2
      <3>3. QED
        BY <3>1, <3>2 DEF Noted
    <2>3. CASE v1 = u
      BY <1>7, <2>2, <2>3 DEF WillShare
    <2>4. CASE v2 = u
      BY <1>7, <2>2, <2>4 DEF WillShare
    <2>5. QED
      BY <2>1, <2>3, <2>4
  <1>8. ASSUME NEW v \in Uuids, NEW l \in Levels
        PROVE  WillHave(<<"level", l, v>>)' <=> WillList(v)' /\ WillBe(v, "level", l)'
    <2>1. CASE v = u
      BY <2>1 DEF IsNow
    <2>2. CASE v # u
      BY <2>2, <1>1 DEF Books, Others
    <2>3. QED
      BY <2>1, <2>2
  <1>9. ASSUME NEW v \in Uuids, NEW l \in Levels, NEW t \in Types,
               WillList(v)', WillBe(v, "level", l)', WillBe(v, "type", t)'
        PROVE  WillHave(<<"levelOf", l, t, v>>)'
    <2>1. CASE v = u
      <3>1. has /\ l = a.level /\ t = a.type
        BY <1>9, <2>1 DEF IsNow
      <3>2. QED
        BY <2>1, <3>1 DEF IsNow
    <2>2. CASE v # u
      BY <2>2, <1>1, <1>9 DEF Books, Others
    <2>3. QED
      BY <2>1, <2>2
  <1>10. ASSUME NEW v \in Uuids, NEW l \in Levels, NEW t \in Types, WillHave(<<"levelOf", l, t, v>>)'
         PROVE  WillStand(v, l, t)' \/ <<"levelOf", l, t, v>> \in stray'
    <2>1. CASE v = u
      BY <1>10, <2>1 DEF IsNow, WillStand
    <2>2. CASE v # u
      <3>1. WillHave(<<"levelOf", l, t, v>>)
        BY <1>10, <2>2 DEF Others
      <3>2. WillStand(v, l, t) \/ <<"levelOf", l, t, v>> \in stray
        BY <3>1 DEF Books
      <3>3. WillStand(v, l, t) => WillStand(v, l, t)'
        BY <2>2, <1>1 DEF WillStand
      <3>4. QED
        BY <3>2, <3>3 DEF Noted
    <2>3. QED
      BY <2>1, <2>2
  <1>11. ASSUME NEW t \in Types, NEW w \in Terms, NEW v \in Uuids, <<"uuid", t, w, v>> \notin stray'
         PROVE  WillHave(<<"uuid", t, w, v>>)' <=> WillMap(v, t, w)'
    <2>1. CASE v = u
      <3>1. WillHave(<<"uuid", t, w, u>>)' <=> has /\ Maps(a, t, w)
        BY <1>11, <2>1 DEF IsNow
      <3>2. WillMap(u, t, w)' <=> has /\ Maps(a, t, w)
        BY DEF IsNow, WillMap, Maps
      <3>3. QED
        BY <2>1, <3>1, <3>2
    <2>2. CASE v # u
      <3>1. WillHave(<<"uuid", t, w, v>>)' <=> WillHave(<<"uuid", t, w, v>>)
        BY <2>2 DEF Others
      <3>2. WillHave(<<"uuid", t, w, v>>) <=> WillMap(v, t, w)
        BY <1>11 DEF Books, Noted
      <3>3. WillMap(v, t, w)' <=> WillMap(v, t, w)
        BY <2>2, <1>1 DEF WillMap
      <3>4. QED
        BY <3>1, <3>2, <3>3
    <2>3. QED
      BY <2>1, <2>2
  <1>12. QED
    BY <1>3, <1>4, <1>5, <1>6, <1>7, <1>8, <1>9, <1>10, <1>11 DEF Books

\* With nothing left to send, what will be is what is.
LEMMA AtRest ==
  ASSUME Typed, Books, Rest
  PROVE  /\ \A z, v : Will(Flask, z, v) <=> Now(z) = v
         /\ \A x : WillHave(x) <=> x \in db
         /\ \A u \in Uuids, f \in Fields : \A v : WillBe(u, f, v) <=> hash[u][f] = v
         /\ \A u \in Uuids : WillList(u) <=> u \in All
         /\ \A u \in All : Whole(hash[u])
         /\ \A u \in Uuids, t \in Types, w \in Terms, k \in Kinds :
              WillTrack(u, t, w, k) <=> u \in All /\ Wants(hash[u], t, w, k)
  <1>1. \A z, v : Will(Flask, z, v) <=> Now(z) = v
    BY EmptyList DEF Rest, Will
  <1>2. \A x : Now(Item(x)) = IF x \in db THEN "in" ELSE "out"
    BY DEF Now, Item
  <1>3. \A x : WillHave(x) <=> x \in db
    BY <1>1, <1>2 DEF WillHave
  <1>4. \A u \in Uuids, f \in Fields : \A v : WillBe(u, f, v) <=> hash[u][f] = v
    <2>1. \A u, f : Now(FieldOf(u, f)) = hash[u][f]
      BY DEF Now, FieldOf
    <2>2. QED
      BY <1>1, <2>1 DEF WillBe
  <1>5. \A u \in Uuids : WillList(u) <=> u \in All
    BY <1>3 DEF WillList, All
  <1>6. /\ "type" \in Fields /\ "tracked" \in Fields /\ "level" \in Fields /\ "filters" \in Fields
        /\ \A u \in Uuids : /\ hash[u]["type"] = hash[u].type /\ hash[u]["tracked"] = hash[u].tracked
                            /\ hash[u]["level"] = hash[u].level /\ hash[u]["filters"] = hash[u].filters
    BY DEF Fields
  <1>7. \A u \in Uuids : \A v : /\ WillBe(u, "type", v) <=> hash[u].type = v
                                /\ WillBe(u, "tracked", v) <=> hash[u].tracked = v
                                /\ WillBe(u, "level", v) <=> hash[u].level = v
                                /\ WillBe(u, "filters", v) <=> hash[u].filters = v
    BY <1>4, <1>6
  <1>8. All \subseteq Uuids
    BY DEF All
  <1>9. \A u \in All : Whole(hash[u])
    BY <1>5, <1>7, <1>8 DEF Books, Listed, Whole
  <1>10. \A u \in Uuids, t \in Types, w \in Terms, k \in Kinds :
              WillTrack(u, t, w, k) <=> u \in All /\ Wants(hash[u], t, w, k)
    BY <1>5, <1>7, <1>9 DEF WillTrack, Wants, Whole
  <1>11. QED
    BY <1>1, <1>3, <1>4, <1>5, <1>9, <1>10

\* A request: what its commands leave, or what is there.
LEMMA Starts ==
  ASSUME Typed, Books, NEW q \in Seq(Cmds), Request(q)
  PROVE  /\ Rest
         /\ \A z : Quiet(q, z) => \A v : Will(Flask, z, v)' <=> Will(Flask, z, v)
         /\ \A z, w : Gives(q, z, w) => \A v : Will(Flask, z, v)' <=> v = w
  <1>1. Rest /\ todo'[Flask] = q /\ db' = db /\ hash' = hash
    <2>1. todo' = [todo EXCEPT ![Flask] = q] /\ Flask \in DOMAIN todo
      BY DEF Request, Typed, Procs
    <2>2. QED
      BY <2>1 DEF Request, Rest
  <1>2. \A z : Now(z)' = Now(z)
    BY <1>1 DEF Now
  <1>3. \A z, v : Will(Flask, z, v)' <=> Gives(q, z, v) \/ (Quiet(q, z) /\ Now(z) = v)
    BY <1>1, <1>2 DEF Will
  <1>4. \A z, v : Will(Flask, z, v) <=> Now(z) = v
    BY <1>1, AtRest
  <1>5. \A z, v, w : Gives(q, z, v) => ~Quiet(q, z) /\ (Gives(q, z, w) => v = w)
    BY LeavesOne
  <1>6. QED
    BY <1>1, <1>3, <1>4, <1>5

LEMMA SharesNoted ==
  ASSUME Typed, Books, Rest, NEW u \in Uuids, NEW a \in Asks, NewShared(u, a), stray \subseteq stray'
  PROVE  Noted(u, TRUE, a)
  <1>1. shared \subseteq shared'
    BY DEF NewShared
  <1>2. ASSUME NEW v \in Uuids \ {u}, WillList(v), WillBe(v, "type", a.type), WillBe(v, "tracked", a.tracked)
        PROVE  <<a.type, a.tracked>> \in shared'
    <2>1. v \in All /\ hash[v]["type"] = a.type /\ hash[v]["tracked"] = a.tracked
      BY <1>2, AtRest DEF Fields
    <2>2. Shares(u, a)
      BY <2>1 DEF Shares
    <2>3. QED
      BY <2>2 DEF NewShared
  <1>3. QED
    BY <1>1, <1>2 DEF Noted

LEMMA EditBooks ==
  ASSUME Typed, Books, NEW u \in Uuids, NEW a \in Asks, ApiEdit(u, a)
  PROVE  Books'
  <1> DEFINE old == hash[u]
             q == Edit(u, a, old)
  <1>1. /\ u \in All /\ Request(q) /\ NewShared(u, a)
        /\ stray' = stray \cup LeftWrong(u, a, old)
    BY DEF ApiEdit
  <1>2. Rest
    BY <1>1 DEF Request, Rest
  <1>3. Whole(old) /\ Whole(a)
    BY <1>1, <1>2, AtRest, AskTypes DEF Whole
  <1>4. EditDone(q, u, a, old)
    BY <1>3, EditDoes
  <1> HIDE DEF q
  <1>5. q \in Seq(Cmds)
    BY <1>4 DEF EditDone
  <1>6. /\ \A z : Quiet(q, z) => \A v : Will(Flask, z, v)' <=> Will(Flask, z, v)
        /\ \A z, w : Gives(q, z, w) => \A v : Will(Flask, z, v)' <=> v = w
    BY <1>1, <1>5, Starts
  <1>7. Others(u)
    BY <1>4, <1>6 DEF EditDone, Others, WillList, WillHave, WillBe
  <1>8. Was(u, TRUE, old)
    <2>1. WillList(u) /\ WillBe(u, "type", old.type) /\ WillBe(u, "tracked", old.tracked)
      BY <1>1, <1>2, AtRest DEF Fields
    <2>2. \A t \in Types, w \in Terms, k \in Kinds : WillTrack(u, t, w, k) <=> Wants(old, t, w, k)
      BY <1>1, <1>2, AtRest
    <2>3. QED
      BY <2>1, <2>2 DEF Was
  <1>9. IsNow(u, TRUE, a)
    <2>1. WillList(u)'
      <3>1. WillList(u)' <=> WillList(u)
        BY <1>4, <1>6 DEF EditDone, WillList, WillHave
      <3>2. QED
        BY <3>1, <1>1, <1>2, AtRest
    <2>2. \A x : WillBe(u, "type", x)' <=> x = a.type
      <3>1. CASE a.type = old.type
        <4>1. \A x : WillBe(u, "type", x)' <=> WillBe(u, "type", x)
          BY <3>1, <1>4, <1>6 DEF EditDone, WillBe
        <4>2. QED
          BY <3>1, <4>1, <1>2, AtRest DEF Fields
      <3>2. CASE a.type # old.type
        BY <3>2, <1>4, <1>6 DEF EditDone, WillBe
      <3>3. QED
        BY <3>1, <3>2
    <2>3. \A x : WillBe(u, "tracked", x)' <=> x = a.tracked
      <3>1. CASE a.tracked = old.tracked
        <4>1. \A x : WillBe(u, "tracked", x)' <=> WillBe(u, "tracked", x)
          BY <3>1, <1>4, <1>6 DEF EditDone, WillBe
        <4>2. QED
          BY <3>1, <4>1, <1>2, AtRest DEF Fields
      <3>2. CASE a.tracked # old.tracked
        BY <3>2, <1>4, <1>6 DEF EditDone, WillBe
      <3>3. QED
        BY <3>1, <3>2
    <2>4. \A x : WillBe(u, "level", x)' <=> x = a.level
      BY <1>4, <1>6 DEF EditDone, WillBe
    <2> DEFINE s0 == IF a.filters = {} THEN None ELSE a.filters
    <2>5. \A x : WillBe(u, "filters", x)' <=> x = s0
      BY <1>4, <1>6 DEF EditDone, WillBe
    <2>6. s0 \in Filters /\ Tracks(s0) = Tracks(a.filters)
      <3>1. a.filters \in Filters /\ None \in Filters
        BY AskTypes DEF Filters
      <3>2. Tracks(None) = Kinds /\ Tracks({}) = Kinds
        BY DEF Tracks
      <3>3. QED
        BY <3>1, <3>2
    <2>7. WillHave(<<"levelOf", a.level, a.type, u>>)'
      <3>1. Gives(q, Item(<<"levelOf", a.level, a.type, u>>), "in")
        BY <1>4 DEF EditDone
      <3>2. QED
        BY <3>1, <1>6 DEF WillHave
    <2>8. ASSUME NEW t \in Types, NEW w \in Terms, NEW k \in Kinds
          PROVE  WillHave(<<"uuids", t, w, u, k>>)' <=> Wants(a, t, w, k)
      <3> DEFINE z == Item(<<"uuids", t, w, u, k>>)
      <3>1. IF Wants(a, t, w, k) THEN Gives(q, z, "in")
            ELSE IF Wants(old, t, w, k) THEN Gives(q, z, "out") ELSE Quiet(q, z)
        BY <1>4 DEF EditDone
      <3>2. Will(Flask, z, "in") <=> Wants(old, t, w, k)
        <4>1. WillHave(<<"uuids", t, w, u, k>>) <=> WillTrack(u, t, w, k)
          BY DEF Books
        <4>2. QED
          BY <4>1, <1>8 DEF Was, WillHave
      <3>3. Will(Flask, z, "in")' <=> Wants(a, t, w, k)
        BY <1>6, <3>1, <3>2
      <3>4. QED
        BY <3>3 DEF WillHave
    <2>9. ASSUME NEW l \in Levels
          PROVE  WillHave(<<"level", l, u>>)' <=> l = a.level
      <3> DEFINE z == Item(<<"level", l, u>>)
      <3>1. IF l = a.level THEN Gives(q, z, "in")
            ELSE IF l = old.level THEN Gives(q, z, "out") ELSE Quiet(q, z)
        BY <1>4 DEF EditDone
      <3>2. Will(Flask, z, "in") <=> l = old.level
        <4>1. WillHave(<<"level", l, u>>) <=> WillList(u) /\ WillBe(u, "level", l)
          BY DEF Books
        <4>2. WillBe(u, "level", l) <=> hash[u]["level"] = l
          BY <1>2, AtRest DEF Fields
        <4>3. QED
          BY <4>1, <4>2, <1>8 DEF Was, WillHave
      <3>3. Will(Flask, z, "in")' <=> l = a.level
        BY <1>6, <3>1, <3>2
      <3>4. QED
        BY <3>3 DEF WillHave
    <2>10. ASSUME NEW l \in Levels, NEW t \in Types, WillHave(<<"levelOf", l, t, u>>)'
           PROVE  (l = a.level /\ t = a.type) \/ <<"levelOf", l, t, u>> \in stray'
      <3> DEFINE z == Item(<<"levelOf", l, t, u>>)
      <3>1. \/ l = a.level /\ t \in {a.type, old.type}
            \/ Gives(q, z, "out")
            \/ Quiet(q, z) /\ ~(l = old.level /\ t = old.type)
        BY <1>4 DEF EditDone
      <3>2. CASE l = a.level /\ t \in {a.type, old.type}
        BY <1>1, <3>2 DEF LeftWrong
      <3>3. CASE Gives(q, z, "out")
        BY <1>6, <2>10, <3>3 DEF WillHave
      <3>4. CASE Quiet(q, z) /\ ~(l = old.level /\ t = old.type)
        <4>1. WillHave(<<"levelOf", l, t, u>>)
          BY <1>6, <2>10, <3>4 DEF WillHave
        <4>2. ~WillStand(u, l, t)
          BY <1>2, <3>4, AtRest DEF WillStand, Fields
        <4>3. <<"levelOf", l, t, u>> \in stray
          BY <4>1, <4>2 DEF Books
        <4>4. QED
          BY <4>3, <1>1
      <3>5. QED
        BY <3>1, <3>2, <3>3, <3>4
    <2>11. ASSUME NEW t \in Types, NEW w \in Terms, <<"uuid", t, w, u>> \notin stray'
           PROVE  WillHave(<<"uuid", t, w, u>>)' <=> Maps(a, t, w)
      <3> DEFINE z == Item(<<"uuid", t, w, u>>)
      <3>1. IF a.type = old.type THEN Quiet(q, z)
            ELSE IF Maps(a, t, w) THEN Gives(q, z, "in")
            ELSE IF Maps(old, t, w) THEN Gives(q, z, "out") ELSE Quiet(q, z)
        BY <1>4 DEF EditDone
      <3>2. Will(Flask, z, "in") <=> Maps(old, t, w)
        <4>1. <<"uuid", t, w, u>> \notin stray
          BY <1>1, <2>11
        <4>2. WillHave(<<"uuid", t, w, u>>) <=> WillMap(u, t, w)
          BY <4>1 DEF Books
        <4>3. WillMap(u, t, w) <=> hash[u]["type"] = t /\ hash[u]["tracked"] = w
          BY <1>1, <1>2, AtRest DEF WillMap, Fields
        <4>4. QED
          BY <4>2, <4>3 DEF WillHave, Maps
      <3>3. CASE a.type = old.type
        <4>1. Maps(a, t, w) <=> Maps(old, t, w)
          BY <1>1, <2>11, <3>3 DEF LeftWrong, Maps
        <4>2. Will(Flask, z, "in")' <=> Will(Flask, z, "in")
          BY <1>6, <3>1, <3>3
        <4>3. QED
          BY <3>2, <4>1, <4>2 DEF WillHave
      <3>4. CASE a.type # old.type
        <4>1. Will(Flask, z, "in")' <=> Maps(a, t, w)
          BY <1>6, <3>1, <3>2, <3>4
        <4>2. QED
          BY <4>1 DEF WillHave
      <3>5. QED
        BY <3>3, <3>4
    <2> HIDE DEF s0
    <2>12. QED
      BY <2>1, <2>2, <2>3, <2>4, <2>5, <2>6, <2>7, <2>8, <2>9, <2>10, <2>11 DEF IsNow
  <1>10. TermsMove(TRUE, a, TRUE, old)
    <2>1. ASSUME NEW t \in Types, NEW w \in Terms, NEW k \in Kinds
          PROVE  IF Wants(a, t, w, k) THEN WillHave(<<"terms", t, k, w>>)'
                 ELSE IF Wants(old, t, w, k) THEN ~WillHave(<<"terms", t, k, w>>)'
                 ELSE WillHave(<<"terms", t, k, w>>)' <=> WillHave(<<"terms", t, k, w>>)
      <3> DEFINE z == Item(<<"terms", t, k, w>>)
      <3>1. IF Wants(a, t, w, k) THEN Gives(q, z, "in")
            ELSE IF Wants(old, t, w, k) THEN Gives(q, z, "out") ELSE Quiet(q, z)
        BY <1>4 DEF EditDone
      <3>2. IF Wants(a, t, w, k) THEN Will(Flask, z, "in")'
            ELSE IF Wants(old, t, w, k) THEN ~Will(Flask, z, "in")'
            ELSE Will(Flask, z, "in")' <=> Will(Flask, z, "in")
        BY <1>6, <3>1
      <3>3. QED
        BY <3>2 DEF WillHave
    <2>2. \A t, w, k : Wants(old, t, w, k) => t = old.type /\ w = old.tracked
      BY DEF Wants
    <2>3. QED
      BY <2>1, <2>2 DEF TermsMove
  <1>11. Noted(u, TRUE, a)
    BY <1>1, <1>2, SharesNoted
  <1>12. QED
    BY <1>3, <1>7, <1>8, <1>9, <1>10, <1>11, BooksChanged

LEMMA AddBooks ==
  ASSUME Typed, Books, NEW u \in Uuids, NEW a \in Asks, ApiAdd(u, a)
  PROVE  Books'
  <1> DEFINE q == Create(u, a)
  <1>1. hash[u] = NoHash /\ Request(q) /\ NewShared(u, a) /\ stray' = stray
    BY DEF ApiAdd, Exists
  <1>2. Rest
    BY <1>1 DEF Request, Rest
  <1>3. Whole(a)
    BY AskTypes DEF Whole
  <1>4. CreateDone(q, u, a)
    BY CreateDoes
  <1> HIDE DEF q
  <1>5. q \in Seq(Cmds)
    BY <1>4 DEF CreateDone
  <1>6. /\ \A z : Quiet(q, z) => \A v : Will(Flask, z, v)' <=> Will(Flask, z, v)
        /\ \A z, w : Gives(q, z, w) => \A v : Will(Flask, z, v)' <=> v = w
    BY <1>1, <1>5, Starts
  <1>7. Others(u)
    BY <1>4, <1>6 DEF CreateDone, Others, WillList, WillHave, WillBe
  <1>8. Was(u, FALSE, a)
    <2>1. hash[u].tracked = None
      BY <1>1 DEF NoHash
    <2>2. None \notin Terms
      BY TrackersAssumption
    <2>3. u \notin All
      BY <2>1, <2>2, <1>2, AtRest DEF Whole
    <2>4. ~WillList(u)
      BY <2>3, <1>2, AtRest
    <2>5. QED
      BY <2>4 DEF Was
  <1>9. IsNow(u, TRUE, a)
    <2>1. WillList(u)'
      BY <1>4, <1>6 DEF CreateDone, WillList, WillHave
    <2>2. \A x : WillBe(u, "type", x)' <=> x = a.type
      BY <1>4, <1>6 DEF CreateDone, WillBe
    <2>3. \A x : WillBe(u, "tracked", x)' <=> x = a.tracked
      BY <1>4, <1>6 DEF CreateDone, WillBe
    <2>4. \A x : WillBe(u, "level", x)' <=> x = a.level
      BY <1>4, <1>6 DEF CreateDone, WillBe
    <2> DEFINE s0 == IF a.filters = {} THEN None ELSE a.filters
    <2>5. \A x : WillBe(u, "filters", x)' <=> x = s0
      <3>1. CASE a.filters = {}
        <4>1. \A x : WillBe(u, "filters", x)' <=> WillBe(u, "filters", x)
          BY <3>1, <1>4, <1>6 DEF CreateDone, WillBe
        <4>2. \A x : WillBe(u, "filters", x) <=> hash[u]["filters"] = x
          BY <1>2, AtRest DEF Fields
        <4>3. hash[u]["filters"] = None
          BY <1>1 DEF NoHash
        <4>4. QED
          BY <3>1, <4>1, <4>2, <4>3
      <3>2. CASE a.filters # {}
        BY <3>2, <1>4, <1>6 DEF CreateDone, WillBe
      <3>3. QED
        BY <3>1, <3>2
    <2>6. s0 \in Filters /\ Tracks(s0) = Tracks(a.filters)
      <3>1. a.filters \in Filters /\ None \in Filters
        BY AskTypes DEF Filters
      <3>2. Tracks(None) = Kinds /\ Tracks({}) = Kinds
        BY DEF Tracks
      <3>3. QED
        BY <3>1, <3>2
    <2>7. WillHave(<<"levelOf", a.level, a.type, u>>)'
      <3>1. Gives(q, Item(<<"levelOf", a.level, a.type, u>>), "in")
        BY <1>4 DEF CreateDone
      <3>2. QED
        BY <3>1, <1>6 DEF WillHave
    <2>8. ASSUME NEW t \in Types, NEW w \in Terms, NEW k \in Kinds
          PROVE  WillHave(<<"uuids", t, w, u, k>>)' <=> Wants(a, t, w, k)
      <3> DEFINE z == Item(<<"uuids", t, w, u, k>>)
      <3>1. IF Wants(a, t, w, k) THEN Gives(q, z, "in") ELSE Quiet(q, z)
        BY <1>4 DEF CreateDone
      <3>2. ~Will(Flask, z, "in")
        <4>1. WillHave(<<"uuids", t, w, u, k>>) <=> WillTrack(u, t, w, k)
          BY DEF Books
        <4>2. QED
          BY <4>1, <1>8 DEF Was, WillHave, WillTrack
      <3>3. Will(Flask, z, "in")' <=> Wants(a, t, w, k)
        BY <1>6, <3>1, <3>2
      <3>4. QED
        BY <3>3 DEF WillHave
    <2>9. ASSUME NEW l \in Levels
          PROVE  WillHave(<<"level", l, u>>)' <=> l = a.level
      <3> DEFINE z == Item(<<"level", l, u>>)
      <3>1. IF l = a.level THEN Gives(q, z, "in") ELSE Quiet(q, z)
        BY <1>4 DEF CreateDone
      <3>2. ~Will(Flask, z, "in")
        <4>1. WillHave(<<"level", l, u>>) <=> WillList(u) /\ WillBe(u, "level", l)
          BY DEF Books
        <4>2. QED
          BY <4>1, <1>8 DEF Was, WillHave
      <3>3. Will(Flask, z, "in")' <=> l = a.level
        BY <1>6, <3>1, <3>2
      <3>4. QED
        BY <3>3 DEF WillHave
    <2>10. ASSUME NEW l \in Levels, NEW t \in Types, WillHave(<<"levelOf", l, t, u>>)'
           PROVE  (l = a.level /\ t = a.type) \/ <<"levelOf", l, t, u>> \in stray'
      <3> SUFFICES ASSUME ~(l = a.level /\ t = a.type)
                   PROVE  <<"levelOf", l, t, u>> \in stray'
        OBVIOUS
      <3>1. Quiet(q, Item(<<"levelOf", l, t, u>>))
        BY <1>4 DEF CreateDone
      <3>2. WillHave(<<"levelOf", l, t, u>>)
        BY <1>6, <2>10, <3>1 DEF WillHave
      <3>3. ~WillStand(u, l, t)
        BY <1>8 DEF Was, WillStand
      <3>4. QED
        BY <1>1, <3>2, <3>3 DEF Books
    <2>11. ASSUME NEW t \in Types, NEW w \in Terms, <<"uuid", t, w, u>> \notin stray'
           PROVE  WillHave(<<"uuid", t, w, u>>)' <=> Maps(a, t, w)
      <3> DEFINE z == Item(<<"uuid", t, w, u>>)
      <3>1. IF Maps(a, t, w) THEN Gives(q, z, "in") ELSE Quiet(q, z)
        BY <1>4 DEF CreateDone
      <3>2. ~Will(Flask, z, "in")
        <4>1. WillHave(<<"uuid", t, w, u>>) <=> WillMap(u, t, w)
          BY <1>1, <2>11 DEF Books
        <4>2. QED
          BY <4>1, <1>8 DEF Was, WillHave, WillMap
      <3>3. Will(Flask, z, "in")' <=> Maps(a, t, w)
        BY <1>6, <3>1, <3>2
      <3>4. QED
        BY <3>3 DEF WillHave
    <2> HIDE DEF s0
    <2>12. QED
      BY <2>1, <2>2, <2>3, <2>4, <2>5, <2>6, <2>7, <2>8, <2>9, <2>10, <2>11 DEF IsNow
  <1>10. TermsMove(TRUE, a, FALSE, a)
    <2>1. ASSUME NEW t \in Types, NEW w \in Terms, NEW k \in Kinds
          PROVE  IF Wants(a, t, w, k) THEN WillHave(<<"terms", t, k, w>>)'
                 ELSE WillHave(<<"terms", t, k, w>>)' <=> WillHave(<<"terms", t, k, w>>)
      <3> DEFINE z == Item(<<"terms", t, k, w>>)
      <3>1. IF Wants(a, t, w, k) THEN Gives(q, z, "in") ELSE Quiet(q, z)
        BY <1>4 DEF CreateDone
      <3>2. IF Wants(a, t, w, k) THEN Will(Flask, z, "in")'
                                 ELSE Will(Flask, z, "in")' <=> Will(Flask, z, "in")
        BY <1>6, <3>1
      <3>3. QED
        BY <3>2 DEF WillHave
    <2>2. QED
      BY <2>1 DEF TermsMove
  <1>11. Noted(u, TRUE, a)
    BY <1>1, <1>2, SharesNoted
  <1>12. QED
    BY <1>3, <1>7, <1>8, <1>9, <1>10, <1>11, BooksChanged

LEMMA DeleteBooks ==
  ASSUME Typed, Books, NEW u \in Uuids, ApiDelete(u)
  PROVE  Books'
  <1> DEFINE old == hash[u]
             q == Delete(u, old)
  <1>1. u \in All /\ Request(q) /\ shared' = shared /\ stray' = stray
    BY DEF ApiDelete
  <1>2. Rest
    BY <1>1 DEF Request, Rest
  <1>3. Whole(old)
    BY <1>1, <1>2, AtRest
  <1>4. DeleteDone(q, u, old)
    BY <1>3, DeleteDoes
  <1> HIDE DEF q
  <1>5. q \in Seq(Cmds)
    BY <1>4 DEF DeleteDone
  <1>6. /\ \A z : Quiet(q, z) => \A v : Will(Flask, z, v)' <=> Will(Flask, z, v)
        /\ \A z, w : Gives(q, z, w) => \A v : Will(Flask, z, v)' <=> v = w
    BY <1>1, <1>5, Starts
  <1>7. Others(u)
    BY <1>4, <1>6 DEF DeleteDone, Others, WillList, WillHave, WillBe
  <1>8. Was(u, TRUE, old)
    <2>1. WillList(u) /\ WillBe(u, "type", old.type) /\ WillBe(u, "tracked", old.tracked)
      BY <1>1, <1>2, AtRest DEF Fields
    <2>2. \A t \in Types, w \in Terms, k \in Kinds : WillTrack(u, t, w, k) <=> Wants(old, t, w, k)
      BY <1>1, <1>2, AtRest
    <2>3. QED
      BY <2>1, <2>2 DEF Was
  <1>9. IsNow(u, FALSE, old)
    <2>1. ~WillList(u)'
      BY <1>4, <1>6 DEF DeleteDone, WillList, WillHave
    <2>2. ASSUME NEW t \in Types, NEW w \in Terms, NEW k \in Kinds
          PROVE  ~WillHave(<<"uuids", t, w, u, k>>)'
      <3> DEFINE z == Item(<<"uuids", t, w, u, k>>)
      <3>1. IF t = old.type /\ w = old.tracked THEN Gives(q, z, "out") ELSE Quiet(q, z)
        BY <1>4 DEF DeleteDone
      <3>2. Will(Flask, z, "in") => t = old.type /\ w = old.tracked
        <4>1. WillHave(<<"uuids", t, w, u, k>>) <=> WillTrack(u, t, w, k)
          BY DEF Books
        <4>2. QED
          BY <4>1, <1>8 DEF Was, WillHave, Wants
      <3>3. ~Will(Flask, z, "in")'
        BY <1>6, <3>1, <3>2
      <3>4. QED
        BY <3>3 DEF WillHave
    <2>3. ASSUME NEW l \in Levels
          PROVE  ~WillHave(<<"level", l, u>>)'
      <3> DEFINE z == Item(<<"level", l, u>>)
      <3>1. IF l = old.level THEN Gives(q, z, "out") ELSE Quiet(q, z)
        BY <1>4 DEF DeleteDone
      <3>2. Will(Flask, z, "in") => l = old.level
        <4>1. WillHave(<<"level", l, u>>) <=> WillList(u) /\ WillBe(u, "level", l)
          BY DEF Books
        <4>2. WillBe(u, "level", l) <=> hash[u]["level"] = l
          BY <1>2, AtRest DEF Fields
        <4>3. QED
          BY <4>1, <4>2 DEF WillHave
      <3>3. ~Will(Flask, z, "in")'
        BY <1>6, <3>1, <3>2
      <3>4. QED
        BY <3>3 DEF WillHave
    <2>4. ASSUME NEW l \in Levels, NEW t \in Types, WillHave(<<"levelOf", l, t, u>>)'
          PROVE  <<"levelOf", l, t, u>> \in stray'
      <3> DEFINE z == Item(<<"levelOf", l, t, u>>)
      <3>0. IF l = old.level /\ t = old.type THEN Gives(q, z, "out") ELSE Quiet(q, z)
        BY <1>4 DEF DeleteDone
      <3>a. ~Gives(q, z, "out") \/ ~Will(Flask, z, "in")'
        BY <1>6
      <3>b. Will(Flask, z, "in")'
        BY <2>4 DEF WillHave
      <3>1. ~(l = old.level /\ t = old.type) /\ Quiet(q, z)
        BY <3>0, <3>a, <3>b
      <3>2. WillHave(<<"levelOf", l, t, u>>)
        BY <1>6, <2>4, <3>1 DEF WillHave
      <3>3. ~WillStand(u, l, t)
        BY <1>2, <3>1, AtRest DEF WillStand, Fields
      <3>4. QED
        BY <1>1, <3>2, <3>3 DEF Books
    <2>5. ASSUME NEW t \in Types, NEW w \in Terms, <<"uuid", t, w, u>> \notin stray'
          PROVE  ~WillHave(<<"uuid", t, w, u>>)'
      <3> DEFINE z == Item(<<"uuid", t, w, u>>)
      <3>1. IF Maps(old, t, w) THEN Gives(q, z, "out") ELSE Quiet(q, z)
        BY <1>4 DEF DeleteDone
      <3>2. Will(Flask, z, "in") <=> Maps(old, t, w)
        <4>1. WillHave(<<"uuid", t, w, u>>) <=> WillMap(u, t, w)
          BY <1>1, <2>5 DEF Books
        <4>2. WillMap(u, t, w) <=> hash[u]["type"] = t /\ hash[u]["tracked"] = w
          BY <1>1, <1>2, AtRest DEF WillMap, Fields
        <4>3. QED
          BY <4>1, <4>2 DEF WillHave, Maps
      <3>3. ~Will(Flask, z, "in")'
        BY <1>6, <3>1, <3>2
      <3>4. QED
        BY <3>3 DEF WillHave
    <2>6. QED
      BY <2>1, <2>2, <2>3, <2>4, <2>5 DEF IsNow
  <1>10. TermsMove(FALSE, old, TRUE, old)
    <2>1. ASSUME NEW t \in Types, NEW w \in Terms, NEW k \in Kinds
          PROVE  IF t = old.type /\ w = old.tracked THEN ~WillHave(<<"terms", t, k, w>>)'
                 ELSE WillHave(<<"terms", t, k, w>>)' <=> WillHave(<<"terms", t, k, w>>)
      <3> DEFINE z == Item(<<"terms", t, k, w>>)
      <3>1. IF t = old.type /\ w = old.tracked THEN Gives(q, z, "out") ELSE Quiet(q, z)
        BY <1>4 DEF DeleteDone
      <3>2. IF t = old.type /\ w = old.tracked THEN ~Will(Flask, z, "in")'
                                 ELSE Will(Flask, z, "in")' <=> Will(Flask, z, "in")
        BY <1>6, <3>1
      <3>3. QED
        BY <3>2 DEF WillHave
    <2>2. \A t, w, k : Wants(old, t, w, k) => t = old.type /\ w = old.tracked
      BY DEF Wants
    <2>3. QED
      BY <2>1, <2>2 DEF TermsMove
  <1>11. Noted(u, FALSE, old)
    BY <1>1 DEF Noted
  <1>12. QED
    BY <1>3, <1>7, <1>8, <1>9, <1>10, <1>11, BooksChanged

----------------------------------------------------------------------------
(***************************************************************************)
(* The lists of the matches: their commands are about matches only.        *)
(***************************************************************************)
LEMMA Least ==
  ASSUME NEW S \in SUBSET Nat, S # {}
  PROVE  \E m \in S : \A d \in S : m <= d
  <1> DEFINE R == OpToRel(<, Nat)
  <1>1. \A i, j \in Nat : <<i, j>> \in R <=> i < j
    BY DEF OpToRel
  <1>2. IsWellFoundedOn(R, Nat)
    BY NatLessThanWellFounded
  <1> HIDE DEF R
  <1>3. \A T : T \subseteq Nat /\ T # {} => \E m \in T : \A d \in T : ~(<<d, m>> \in R)
    BY ONLY <1>2, WFMin
  <1>4. PICK m \in S : \A d \in S : ~(<<d, m>> \in R)
    BY <1>3
  <1>5. \A d \in S : ~(d < m)
    BY <1>1, <1>4, Zenon
  <1>6. \A d \in S : m <= d
    BY <1>5
  <1>7. QED
    BY <1>6

LEMMA EndsOfDays ==
  ASSUME NEW S \in SUBSET Days, S # {}
  PROVE  Min(S) \in S /\ Max(S) \in S
  <1>0. LastDay \in Nat /\ \A d \in Days : d \in Nat /\ d <= LastDay
    BY TrackersAssumption DEF Days
  <1>1. Min(S) \in S
    <2>1. \E m \in S : \A d \in S : m <= d
      BY <1>0, Least
    <2>2. QED
      BY <2>1, Zenon DEF Min
  <1>2. Max(S) \in S
    <2> DEFINE T == {LastDay - d : d \in S}
    <2>1. T \in SUBSET Nat /\ T # {}
      BY <1>0
    <2>2. PICK m \in T : \A d \in T : m <= d
      BY <2>1, Least
    <2>3. PICK x \in S : m = LastDay - x
      BY <2>2
    <2>4. \A d \in S : LastDay - x <= LastDay - d
      BY <2>2, <2>3
    <2>5. \A d \in S : x >= d
      BY <1>0, <2>4
    <2>6. QED
      BY <2>5, Zenon DEF Max
  <1>3. QED
    BY <1>1, <1>2

LEMMA MatchCommands ==
  /\ \A x \in MatchItems : Sadd(x) \in MatchCmds /\ Srem(x) \in MatchCmds
  /\ \A u \in Uuids, v \in Days \cup {None} :
        Hset(u, "first", v) \in MatchCmds /\ Hset(u, "last", v) \in MatchCmds
  /\ \A u \in Uuids, o \in Objs : <<"remove", u, o>> \in MatchCmds
  /\ \A u \in Uuids, o \in Objs, d \in Days :
        /\ <<"add", u, o, d>> \in MatchCmds /\ <<"seen", u, d>> \in MatchCmds
        /\ <<"date", u, d, o>> \in MatchItems /\ <<"dates", o, u, d>> \in MatchItems
        /\ <<"type", u, o>> \in MatchItems /\ <<"of", o, u>> \in MatchItems
  /\ \A u \in Uuids : <<"range", u>> \in MatchCmds
  <1>1. \A x \in MatchItems : Sadd(x) \in MatchCmds /\ Srem(x) \in MatchCmds
    BY DEF MatchCmds
  <1>2. \A u \in Uuids, v \in Days \cup {None} :
           Hset(u, "first", v) \in MatchCmds /\ Hset(u, "last", v) \in MatchCmds
    BY DEF MatchCmds
  <1>3. \A u \in Uuids, o \in Objs : <<"remove", u, o>> \in MatchCmds
    BY DEF MatchCmds
  <1>4. ASSUME NEW u \in Uuids, NEW o \in Objs, NEW d \in Days
        PROVE  /\ <<"add", u, o, d>> \in MatchCmds /\ <<"seen", u, d>> \in MatchCmds
               /\ <<"date", u, d, o>> \in MatchItems /\ <<"dates", o, u, d>> \in MatchItems
               /\ <<"type", u, o>> \in MatchItems /\ <<"of", o, u>> \in MatchItems
    <2>1. <<"add", u, o, d>> \in MatchCmds /\ <<"seen", u, d>> \in MatchCmds
      BY DEF MatchCmds
    <2>2. /\ <<"date", u, d, o>> \in MatchItems /\ <<"dates", o, u, d>> \in MatchItems
          /\ <<"type", u, o>> \in MatchItems /\ <<"of", o, u>> \in MatchItems
      BY DEF MatchItems
    <2>3. QED
      BY <2>1, <2>2
  <1>5. \A u \in Uuids : <<"range", u>> \in MatchCmds
    BY DEF MatchCmds
  <1>6. QED
    BY <1>1, <1>2, <1>3, <1>4, <1>5

RangeCmds == {Hset(u, f, v) : u \in Uuids, f \in {"first", "last"}, v \in Days \cup {None}}

LEMMA RangeCommands ==
  /\ \A u \in Uuids, v \in Days \cup {None} :
        Hset(u, "first", v) \in RangeCmds /\ Hset(u, "last", v) \in RangeCmds
  /\ \A q \in Seq(RangeCmds) : q \in Seq(MatchCmds)
  <1>1. RangeCmds \subseteq MatchCmds
    BY DEF MatchCmds, RangeCmds
  <1> HIDE DEF RangeCmds
  <1>2. \A q \in Seq(RangeCmds) : q \in Seq(MatchCmds)
    BY <1>1
  <1>3. QED
    BY <1>2 DEF RangeCmds

LEMMA SeenTyped ==
  ASSUME NEW u \in Uuids, NEW d \in Days
  PROVE  Seen(u, d) \in Seq(RangeCmds) /\ Seen(u, d) \in Seq(MatchCmds)
  <1> DEFINE c1 == Hset(u, "first", d)
             c2 == Hset(u, "last", d)
             w1 == IF d < hash[u].first THEN <<c1>> ELSE <<>>
             w2 == IF d > hash[u].last THEN <<c2>> ELSE <<>>
  <1>1. c1 \in RangeCmds /\ c2 \in RangeCmds
    BY RangeCommands
  <1>2. Seen(u, d) = IF hash[u].first = None THEN <<c1, c2>>
                     ELSE IF hash[u].last = None THEN <<>> ELSE w1 \o w2
    BY DEF Seen
  <1> HIDE DEF c1, c2
  <1>3. /\ w1 \in Seq(RangeCmds) /\ w2 \in Seq(RangeCmds)
        /\ <<c1, c2>> \in Seq(RangeCmds) /\ <<>> \in Seq(RangeCmds)
    BY <1>1
  <1> HIDE DEF w1, w2
  <1>4. w1 \o w2 \in Seq(RangeCmds)
    BY <1>3
  <1>5. QED
    BY <1>2, <1>3, <1>4, RangeCommands

LEMMA NewRangeTyped ==
  ASSUME NEW u \in Uuids
  PROVE  NewRange(u) \in Seq(RangeCmds) /\ NewRange(u) \in Seq(MatchCmds)
  <1> DEFINE f == hash[u].first
             l == hash[u].last
             has(d) == \E o \in Objs : <<"date", u, d, o>> \in db
             left == {d \in Days : f <= d /\ d <= l /\ has(d)}
             c1 == Hset(u, "first", Min(left))
             c2 == Hset(u, "first", Max(left))
             n1 == Hset(u, "first", None)
             n2 == Hset(u, "last", None)
             w1 == IF has(f) THEN <<>> ELSE <<c1>>
             w2 == IF has(l) THEN <<>> ELSE <<c2>>
  <1>1. NewRange(u) = IF f = None \/ l = None THEN <<>>
                      ELSE IF left = {} /\ ~(has(f) /\ has(l)) THEN <<n1, n2>>
                      ELSE w1 \o w2
    BY DEF NewRange
  <1>2. n1 \in RangeCmds /\ n2 \in RangeCmds
    BY RangeCommands
  <1>3. left # {} => c1 \in RangeCmds /\ c2 \in RangeCmds
    <2>1. left # {} => Min(left) \in Days /\ Max(left) \in Days
      <3>1. left \in SUBSET Days
        OBVIOUS
      <3> HIDE DEF left
      <3>2. left # {} => Min(left) \in left /\ Max(left) \in left
        BY <3>1, EndsOfDays
      <3>3. QED
        BY <3>1, <3>2
    <2> HIDE DEF left
    <2>2. QED
      BY <2>1, RangeCommands
  <1> HIDE DEF c1, c2, n1, n2, left, has, f, l
  <1>4. <<>> \in Seq(RangeCmds) /\ <<n1, n2>> \in Seq(RangeCmds)
    BY <1>2
  <1>5. ~(left = {} /\ ~(has(f) /\ has(l))) => w1 \in Seq(RangeCmds) /\ w2 \in Seq(RangeCmds)
    BY <1>3
  <1> HIDE DEF w1, w2
  <1>6. w1 \in Seq(RangeCmds) /\ w2 \in Seq(RangeCmds) => w1 \o w2 \in Seq(RangeCmds)
    OBVIOUS
  <1>7. QED
    BY <1>1, <1>4, <1>5, <1>6, RangeCommands

LEMMA RemoveAllTyped ==
  ASSUME NEW u \in Uuids
  PROVE  RemoveAll(u, SetToSeq({o \in Objs : <<"type", u, o>> \in db})) \in Seq(MatchCmds)
  <1> DEFINE S == {o \in Objs : <<"type", u, o>> \in db}
             os == SetToSeq(S)
  <1>1. IsFiniteSet(S)
    BY FS_Subset, TrackersAssumption
  <1>2. os \in Seq(S)
    BY <1>1, OrderOfSet
  <1>3. S \subseteq Objs
    OBVIOUS
  <1> HIDE DEF os, S
  <1>4. \A i \in DOMAIN os : os[i] \in Objs
    BY <1>2, <1>3
  <1>5. DOMAIN os = 1 .. Len(os) /\ Len(os) \in Nat
    BY <1>2
  <1>6. \A i \in 1 .. Len(os) : <<"remove", u, os[i]>> \in MatchCmds
    BY <1>4, <1>5, MatchCommands
  <1>7. [i \in 1 .. Len(os) |-> <<"remove", u, os[i]>>] \in Seq(MatchCmds)
    BY <1>5, <1>6
  <1>8. RemoveAll(u, os) \in Seq(MatchCmds)
    BY <1>5, <1>7 DEF RemoveAll
  <1>9. QED
    BY <1>8 DEF os, S

\* The rest of an addition, and of a removal.
LEMMA AddRestTyped ==
  ASSUME NEW u \in Uuids, NEW o \in Objs, NEW d \in Days, NEW b \in BOOLEAN
  PROVE  AddRest(u, o, d, b) \in Seq(MatchCmds)
  <1> DEFINE c1 == Sadd(<<"of", o, u>>)
             c2 == Sadd(<<"dates", o, u, d>>)
             c3 == Sadd(<<"type", u, o>>)
             c4 == <<"seen", u, d>>
             w == IF b THEN <<c4>> ELSE <<>>
  <1>1. c1 \in MatchCmds /\ c2 \in MatchCmds /\ c3 \in MatchCmds /\ c4 \in MatchCmds
    <2>1. <<"of", o, u>> \in MatchItems /\ <<"dates", o, u, d>> \in MatchItems /\ <<"type", u, o>> \in MatchItems
      BY MatchCommands
    <2>2. c1 \in MatchCmds /\ c2 \in MatchCmds /\ c3 \in MatchCmds
      BY <2>1, MatchCommands
    <2>3. QED
      BY <2>2, MatchCommands
  <1>2. AddRest(u, o, d, b) = <<c1, c2, c3>> \o w
    BY DEF AddRest
  <1> HIDE DEF c1, c2, c3, c4
  <1>3. w \in Seq(MatchCmds) /\ <<c1, c2, c3>> \in Seq(MatchCmds)
    BY <1>1
  <1> HIDE DEF w
  <1>4. <<c1, c2, c3>> \o w \in Seq(MatchCmds)
    BY <1>3
  <1>5. QED
    BY <1>2, <1>4

LEMMA RemoveRestTyped ==
  ASSUME NEW u \in Uuids, NEW o \in Objs, NEW D \in SUBSET Days
  PROVE  RemoveRest(u, o, D) \in Seq(MatchCmds)
  <1> DEFINE f == [d \in D |-> <<Srem(<<"date", u, d, o>>), Srem(<<"dates", o, u, d>>)>>]
             c1 == Srem(<<"of", o, u>>)
             c2 == Srem(<<"type", u, o>>)
             c3 == <<"range", u>>
  <1>1. IsFiniteSet(D)
    <2>1. IsFiniteSet(Days)
      BY FS_Interval, TrackersAssumption DEF Days
    <2>2. QED
      BY <2>1, FS_Subset
  <1>2. \A d \in D : Srem(<<"date", u, d, o>>) \in MatchCmds /\ Srem(<<"dates", o, u, d>>) \in MatchCmds
    <2> TAKE d \in D
    <2>1. <<"date", u, d, o>> \in MatchItems /\ <<"dates", o, u, d>> \in MatchItems
      BY d \in Days, MatchCommands
    <2>2. QED
      BY <2>1, MatchCommands
  <1>3. f \in [D -> MatchCmds \X MatchCmds]
    BY <1>2
  <1>4. c1 \in MatchCmds /\ c2 \in MatchCmds /\ c3 \in MatchCmds
    <2>1. <<"of", o, u>> \in MatchItems /\ <<"type", u, o>> \in MatchItems
      BY DEF MatchItems
    <2>2. c1 \in MatchCmds /\ c2 \in MatchCmds
      BY <2>1, MatchCommands
    <2>3. QED
      BY <2>2, MatchCommands
  <1>5. RemoveRest(u, o, D) = Each(f) \o <<c1, c2, c3>>
    BY DEF RemoveRest
  <1> HIDE DEF c1, c2, c3, f
  <1>6. <<c1, c2, c3>> \in Seq(MatchCmds)
    BY <1>4
  <1>7. Each(f) \in Seq(MatchCmds)
    BY <1>1, <1>3, LoopPlaces DEF OfLoop
  <1>8. Each(f) \o <<c1, c2, c3>> \in Seq(MatchCmds)
    BY <1>6, <1>7
  <1>9. QED
    BY <1>5, <1>8

----------------------------------------------------------------------------
(***************************************************************************)
(* The steps of the commands: what each finds, and what it leaves.         *)
(***************************************************************************)
IsItem(x) == x \in MatchItems \cup PlainItems

LEMMA Shapes ==
  ASSUME NEW c \in Cmds
  PROVE  /\ c[1] \in {"sadd", "srem"} => IsItem(c[2]) /\ c \in {Sadd(c[2]), Srem(c[2])}
         /\ c[1] = "hset" => /\ c[2] \in Uuids /\ c[3] \in Fields /\ c = Hset(c[2], c[3], c[4])
                             /\ c[3] = "type" => c[4] \in Types
                             /\ c[3] = "tracked" => c[4] \in Terms
                             /\ c[3] = "level" => c[4] \in Levels
                             /\ c[3] = "filters" => c[4] \in Filters
                             /\ c[3] \in {"first", "last"} => c[4] \in Days \cup {None}
         /\ c[1] = "del" => c[2] \in Uuids /\ c = <<"del", c[2]>>
         /\ c[1] = "trigger" => c[2] \in Types /\ c = <<"trigger", c[2]>>
         /\ c[1] = "add" => c[2] \in Uuids /\ c[3] \in Objs /\ c[4] \in Days /\ c = <<"add", c[2], c[3], c[4]>>
         /\ c[1] = "remove" => c[2] \in Uuids /\ c[3] \in Objs /\ c = <<"remove", c[2], c[3]>>
         /\ c[1] = "objs" => c[2] \in Uuids /\ c = <<"objs", c[2]>>
         /\ c[1] = "seen" => c[2] \in Uuids /\ c[3] \in Days /\ c = <<"seen", c[2], c[3]>>
         /\ c[1] = "range" => c[2] \in Uuids /\ c = <<"range", c[2]>>
  <1>1. CASE \E x \in MatchItems \cup PlainItems : c \in {Sadd(x), Srem(x)}
    BY <1>1 DEF Sadd, Srem, IsItem
  <1>2. CASE \E u \in Uuids, v \in Days \cup {None} : c \in {Hset(u, "first", v), Hset(u, "last", v)}
    BY <1>2 DEF Hset, Fields
  <1>3. CASE \E u \in Uuids, v \in Types : c = Hset(u, "type", v)
    BY <1>3 DEF Hset, Fields
  <1>4. CASE \E u \in Uuids, v \in Terms : c = Hset(u, "tracked", v)
    BY <1>4 DEF Hset, Fields
  <1>5. CASE \E u \in Uuids, v \in Levels : c = Hset(u, "level", v)
    BY <1>5 DEF Hset, Fields
  <1>6. CASE \E u \in Uuids, v \in Filters : c = Hset(u, "filters", v)
    BY <1>6 DEF Hset, Fields
  <1>7. CASE \E u \in Uuids : c \in {<<"del", u>>, <<"objs", u>>, <<"range", u>>}
    BY <1>7
  <1>8. CASE \E t \in Types : c = <<"trigger", t>>
    BY <1>8
  <1>9. CASE \E u \in Uuids, o \in Objs, d \in Days : c \in {<<"add", u, o, d>>, <<"remove", u, o>>, <<"seen", u, d>>}
    BY <1>9
  <1>10. CASE \E u \in Uuids, o \in Objs : c = <<"remove", u, o>>
    BY <1>10
  <1>11. CASE \E u \in Uuids, d \in Days : c = <<"seen", u, d>>
    BY <1>11
  <1>12. QED
    <2>1. CASE c \in MatchCmds
      BY <2>1, <1>1, <1>2, <1>7, <1>9, <1>10, <1>11 DEF MatchCmds
    <2>2. CASE c \in PlainCmds
      BY <2>2, <1>1, <1>3, <1>4, <1>5, <1>6, <1>7, <1>8 DEF PlainCmds
    <2>3. QED
      BY <2>1, <2>2 DEF Cmds

IsCell(z) == (\E x : z = Item(x)) \/ (\E u \in Uuids, f \in Fields : z = FieldOf(u, f))

LEMMA GuardedAreCells ==
  \A z \in Guarded : IsCell(z)
  <1>1. \A z \in ItemCells : IsCell(z)
    BY DEF ItemCells, IsCell
  <1>2. \A z \in FieldCells : IsCell(z)
    BY DEF FieldCells, IsCell, Fields
  <1>3. QED
    BY <1>1, <1>2 DEF Guarded

LEMMA NextCommand ==
  ASSUME Typed, NEW p \in Procs, todo[p] # <<>>
  PROVE  /\ todo[p] \in Seq(Cmds) /\ Head(todo[p]) \in Cmds /\ Tail(todo[p]) \in Seq(Cmds)
         /\ p # Flask => /\ todo[p] \in Seq(MatchCmds)
                         /\ Head(todo[p]) \in MatchCmds /\ Tail(todo[p]) \in Seq(MatchCmds)
         /\ \A z : Quiet(todo[p], z) <=> ~Touches(Head(todo[p]), z) /\ Quiet(Tail(todo[p]), z)
         /\ \A z, v : Gives(todo[p], z, v) <=>
              Gives(Tail(todo[p]), z, v) \/ (Writes(Head(todo[p]), z, v) /\ Quiet(Tail(todo[p]), z))
  <1>1. todo[p] \in Seq(Cmds)
    BY DEF Typed
  <1>2. p # Flask => todo[p] \in Seq(MatchCmds)
    BY DEF Typed, Procs
  <1>3. /\ Head(todo[p]) \in Cmds /\ Tail(todo[p]) \in Seq(Cmds)
        /\ \A z : Quiet(todo[p], z) <=> ~Touches(Head(todo[p]), z) /\ Quiet(Tail(todo[p]), z)
        /\ \A z, v : Gives(todo[p], z, v) <=>
             Gives(Tail(todo[p]), z, v) \/ (Writes(Head(todo[p]), z, v) /\ Quiet(Tail(todo[p]), z))
    BY <1>1, FirstAndRest
  <1>4. p # Flask => Head(todo[p]) \in MatchCmds /\ Tail(todo[p]) \in Seq(MatchCmds)
    BY <1>2, FirstAndRest
  <1>5. QED
    BY <1>1, <1>2, <1>3, <1>4

Sends(p) == SaddSrem(p) \/ HsetField(p) \/ DelHash(p) \/ Trigger(p)

\* What the cells are once the command c has been sent.
Effect(c) ==
    \A z : IsCell(z) => Now(z)' = IF Touches(c, z) THEN Leaves(c) ELSE Now(z)

LEMMA SaddSremDoes ==
  ASSUME Typed, NEW p \in Procs, SaddSrem(p)
  PROVE  Effect(Head(todo[p])) /\ hash' = hash /\ dirty' = dirty
  <1> DEFINE c == Head(todo[p])
             x == c[2]
  <1>1. /\ c[1] \in {"sadd", "srem"} /\ hash' = hash /\ dirty' = dirty
        /\ db' = IF c[1] = "sadd" THEN db \cup {x} ELSE db \ {x}
    BY DEF SaddSrem, Runs, Arg
  <1>2. \A y : /\ Touches(c, Item(y)) <=> y = x
               /\ Leaves(c) = IF c[1] = "sadd" THEN "in" ELSE "out"
    BY <1>1, CellsDiffer DEF Touches, Leaves
  <1>3. \A u, f : ~Touches(c, FieldOf(u, f))
    BY <1>1, CellsDiffer DEF Touches
  <1>4. /\ \A y : Now(Item(y)) = IF y \in db THEN "in" ELSE "out"
        /\ \A y : Now(Item(y))' = IF y \in db' THEN "in" ELSE "out"
    BY DEF Now, Item
  <1>5. /\ \A u, f : Now(FieldOf(u, f)) = hash[u][f]
        /\ \A u, f : Now(FieldOf(u, f))' = hash'[u][f]
    BY DEF Now, FieldOf
  <1> HIDE DEF c, x
  <1>6. \A y : Now(Item(y))' = IF Touches(c, Item(y)) THEN Leaves(c) ELSE Now(Item(y))
    BY <1>1, <1>2, <1>4
  <1>7. \A u, f : Now(FieldOf(u, f))' = IF Touches(c, FieldOf(u, f)) THEN Leaves(c) ELSE Now(FieldOf(u, f))
    BY <1>1, <1>3, <1>5
  <1>8. QED
    BY <1>1, <1>6, <1>7 DEF Effect, IsCell, c

LEMMA HsetFieldDoes ==
  ASSUME Typed, NEW p \in Procs, HsetField(p)
  PROVE  Effect(Head(todo[p])) /\ hash' \in [Uuids -> Hashes] /\ dirty' = dirty /\ db' = db
  <1> DEFINE c == Head(todo[p])
  <1>0. todo[p] # <<>> /\ c[1] = "hset"
    BY DEF HsetField, Runs
  <1>1. c \in Cmds
    BY <1>0, NextCommand
  <1>2. PICK u, f, v : u = c[2] /\ f = c[3] /\ v = c[4]
    OBVIOUS
  <1>3. /\ u \in Uuids /\ f \in Fields /\ c = Hset(u, f, v)
        /\ f = "type" => v \in Types
        /\ f = "tracked" => v \in Terms
        /\ f = "level" => v \in Levels
        /\ f = "filters" => v \in Filters
        /\ f \in {"first", "last"} => v \in Days \cup {None}
    BY <1>0, <1>1, <1>2, Shapes
  <1>4. /\ hash' = [hash EXCEPT ![u] = [hash[u] EXCEPT ![f] = v]]
        /\ dirty' = dirty /\ db' = db
    BY <1>2 DEF HsetField, Arg
  <1>5. hash \in [Uuids -> Hashes]
    BY DEF Typed
  <1> DEFINE h == [hash[u] EXCEPT ![f] = v]
  <1>6. hash[u] \in Hashes
    BY <1>3, <1>5
  <1>7. /\ h \in Hashes
        /\ \A g \in Fields : h[g] = IF g = f THEN v ELSE hash[u][g]
    BY <1>3, <1>6 DEF Hashes, Fields
  <1> HIDE DEF h, c
  <1>8. hash' \in [Uuids -> Hashes] /\ \A y \in Uuids : hash'[y] = IF y = u THEN h ELSE hash[y]
    BY <1>3, <1>4, <1>5, <1>7 DEF h
  <1>9. /\ \A y : ~Touches(c, Item(y))
        /\ \A y, g : Touches(c, FieldOf(y, g)) <=> y = u /\ g = f
        /\ Leaves(c) = v
    BY <1>3, CellsDiffer, CommandsTouch, CommandsLeave
  <1>10. /\ \A y : Now(Item(y)) = IF y \in db THEN "in" ELSE "out"
         /\ \A y : Now(Item(y))' = IF y \in db' THEN "in" ELSE "out"
    BY DEF Now, Item
  <1>11. /\ \A y, g : Now(FieldOf(y, g)) = hash[y][g]
         /\ \A y, g : Now(FieldOf(y, g))' = hash'[y][g]
    BY DEF Now, FieldOf
  <1>12. \A y \in Uuids, g \in Fields :
           Now(FieldOf(y, g))' = IF Touches(c, FieldOf(y, g)) THEN Leaves(c) ELSE Now(FieldOf(y, g))
    BY <1>7, <1>8, <1>9, <1>11
  <1>13. \A y : Now(Item(y))' = IF Touches(c, Item(y)) THEN Leaves(c) ELSE Now(Item(y))
    BY <1>4, <1>9, <1>10
  <1>14. Effect(c)
    BY <1>12, <1>13 DEF Effect, IsCell
  <1>15. QED
    BY <1>4, <1>8, <1>14 DEF c

LEMMA DelHashDoes ==
  ASSUME Typed, NEW p \in Procs, DelHash(p)
  PROVE  Effect(Head(todo[p])) /\ hash' \in [Uuids -> Hashes] /\ dirty' = dirty /\ db' = db
  <1> DEFINE c == Head(todo[p])
  <1>0. todo[p] # <<>> /\ c[1] = "del"
    BY DEF DelHash, Runs
  <1>1. c \in Cmds
    BY <1>0, NextCommand
  <1>2. PICK u : u = c[2]
    OBVIOUS
  <1>3. u \in Uuids /\ c = <<"del", u>>
    BY <1>0, <1>1, <1>2, Shapes
  <1>4. /\ hash' = [hash EXCEPT ![u] = NoHash]
        /\ dirty' = dirty /\ db' = db
    BY <1>2 DEF DelHash, Arg
  <1>5. hash \in [Uuids -> Hashes]
    BY DEF Typed
  <1>6. NoHash \in Hashes /\ \A g \in Fields : NoHash[g] = None
    BY DEF NoHash, Hashes, Fields, Filters
  <1> HIDE DEF c
  <1>7. hash' \in [Uuids -> Hashes] /\ \A y \in Uuids : hash'[y] = IF y = u THEN NoHash ELSE hash[y]
    BY <1>3, <1>4, <1>5, <1>6
  <1>8. /\ \A y : ~Touches(c, Item(y))
        /\ \A y \in Uuids, g \in Fields : Touches(c, FieldOf(y, g)) <=> y = u
        /\ Leaves(c) = None
    BY <1>3, CellsDiffer, CommandsTouch, CommandsLeave
  <1>9. /\ \A y : Now(Item(y)) = IF y \in db THEN "in" ELSE "out"
        /\ \A y : Now(Item(y))' = IF y \in db' THEN "in" ELSE "out"
    BY DEF Now, Item
  <1>10. /\ \A y, g : Now(FieldOf(y, g)) = hash[y][g]
         /\ \A y, g : Now(FieldOf(y, g))' = hash'[y][g]
    BY DEF Now, FieldOf
  <1>11. \A y \in Uuids, g \in Fields :
           Now(FieldOf(y, g))' = IF Touches(c, FieldOf(y, g)) THEN Leaves(c) ELSE Now(FieldOf(y, g))
    BY <1>6, <1>7, <1>8, <1>10
  <1>12. \A y : Now(Item(y))' = IF Touches(c, Item(y)) THEN Leaves(c) ELSE Now(Item(y))
    BY <1>4, <1>8, <1>9
  <1>13. Effect(c)
    BY <1>11, <1>12 DEF Effect, IsCell
  <1>14. QED
    BY <1>4, <1>7, <1>13 DEF c

LEMMA TriggerDoes ==
  ASSUME Typed, NEW p \in Procs, Trigger(p)
  PROVE  Effect(Head(todo[p])) /\ hash' = hash /\ dirty' \subseteq Types /\ db' = db
  <1> DEFINE c == Head(todo[p])
  <1>0. todo[p] # <<>> /\ c[1] = "trigger"
    BY DEF Trigger, Runs
  <1>1. c \in Cmds
    BY <1>0, NextCommand
  <1>2. c[2] \in Types
    BY <1>0, <1>1, Shapes
  <1>3. hash' = hash /\ db' = db /\ dirty' = dirty \cup {c[2]}
    BY DEF Trigger, Arg
  <1>4. \A z : ~Touches(c, z)
    BY <1>0 DEF Touches
  <1>5. \A z : Now(z)' = Now(z)
    BY <1>3 DEF Now
  <1>6. QED
    BY <1>2, <1>3, <1>4, <1>5 DEF Effect, Typed

\* The list of p is what it was without its first command; the others are what they were.
LEMMA SendsDoes ==
  ASSUME Typed, NEW p \in Procs, Sends(p)
  PROVE  /\ todo[p] # <<>> /\ todo' = [todo EXCEPT ![p] = Tail(todo[p])]
         /\ Effect(Head(todo[p]))
         /\ hash' \in [Uuids -> Hashes] /\ dirty' \subseteq Types
         /\ UNCHANGED <<mod, requests, taken, shared, raced, stray>>
  <1>1. todo[p] # <<>> /\ todo' = [todo EXCEPT ![p] = Tail(todo[p])]
        /\ UNCHANGED <<mod, requests, taken, shared, raced, stray>>
    <2>1. CASE SaddSrem(p)
      BY <2>1 DEF SaddSrem, Runs, Sent
    <2>2. CASE HsetField(p)
      BY <2>2 DEF HsetField, Runs, Sent, histories
    <2>3. CASE DelHash(p)
      BY <2>3 DEF DelHash, Runs, Sent, histories
    <2>4. CASE Trigger(p)
      BY <2>4 DEF Trigger, Runs, Sent, histories
    <2>5. QED
      BY <2>1, <2>2, <2>3, <2>4 DEF Sends
  <1>2. Effect(Head(todo[p])) /\ hash' \in [Uuids -> Hashes] /\ dirty' \subseteq Types
    BY SaddSremDoes, HsetFieldDoes, DelHashDoes, TriggerDoes DEF Sends, Typed
  <1>3. QED
    BY <1>1, <1>2

\* What will be is the same after a command as before it.
LEMMA SameForSender ==
  ASSUME Typed, NEW p \in Procs, Sends(p), NEW z, IsCell(z), NEW v
  PROVE  Will(p, z, v)' <=> Will(p, z, v)
  <1>1. /\ todo[p] # <<>> /\ todo'[p] = Tail(todo[p])
        /\ Now(z)' = IF Touches(Head(todo[p]), z) THEN Leaves(Head(todo[p])) ELSE Now(z)
    BY SendsDoes DEF Effect, Typed
  <1>2. /\ Quiet(todo[p], z) <=> ~Touches(Head(todo[p]), z) /\ Quiet(Tail(todo[p]), z)
        /\ Gives(todo[p], z, v) <=>
              Gives(Tail(todo[p]), z, v) \/ (Writes(Head(todo[p]), z, v) /\ Quiet(Tail(todo[p]), z))
    BY <1>1, NextCommand
  <1>3. QED
    BY <1>1, <1>2 DEF Will, Writes

\* The commands whose answers make a list.
Expands(p) == AddMatch(p) \/ RemoveMatch(p) \/ ReadMatches(p) \/ UpdateRange(p)

LEMMA ExpandsDoes ==
  ASSUME Typed, NEW p \in Procs, Expands(p)
  PROVE  /\ todo[p] # <<>>
         /\ \E q \in Seq(MatchCmds) : todo' = [todo EXCEPT ![p] = q \o Tail(todo[p])]
         /\ \A z : ~Touches(Head(todo[p]), z)
         /\ \A z \in Guarded : Now(z)' = Now(z)
         /\ UNCHANGED <<hash, dirty, mod, requests, taken, shared, overlap, stray>>
  <1> DEFINE c == Head(todo[p])
  <1>1. CASE AddMatch(p)
    <2>1. todo[p] # <<>> /\ c[1] = "add"
      BY <1>1 DEF AddMatch, Runs
    <2>2. c \in Cmds
      BY <2>1, NextCommand
    <2> DEFINE x == <<"date", c[2], c[4], c[3]>>
               q == AddRest(c[2], c[3], c[4], x \notin db)
    <2>3. /\ db' = db \cup {x} /\ todo' = [todo EXCEPT ![p] = q \o Tail(todo[p])]
          /\ UNCHANGED <<hash, dirty, mod, requests, taken, shared, overlap, stray>>
      BY <1>1 DEF AddMatch, Then, Arg
    <2>4. q \in Seq(MatchCmds)
      BY <2>1, <2>2, Shapes, AddRestTyped
    <2>5. \A z : ~Touches(c, z)
      BY <2>1 DEF Touches
    <2>6. Item(x) \notin Guarded
      BY GuardedTables
    <2> HIDE DEF x, q
    <2>7. \A z \in Guarded : Now(z)' = Now(z)
      <3>1. \A y : Item(y) \in Guarded => Now(Item(y))' = Now(Item(y))
        BY <2>3, <2>6 DEF Now, Item
      <3>2. \A u, f : Now(FieldOf(u, f))' = Now(FieldOf(u, f))
        BY <2>3 DEF Now, FieldOf
      <3>3. \A z \in Guarded : (\E y : z = Item(y)) \/ (\E u, f : z = FieldOf(u, f))
        BY GuardedAreCells DEF IsCell
      <3>4. QED
        BY <3>1, <3>2, <3>3
    <2>8. QED
      BY <2>1, <2>3, <2>4, <2>5, <2>7
  <1>2. ASSUME db' = db, hash' = hash
        PROVE  \A z : Now(z)' = Now(z)
    BY <1>2 DEF Now
  <1>3. CASE RemoveMatch(p)
    <2>1. todo[p] # <<>> /\ c[1] = "remove"
      BY <1>3 DEF RemoveMatch, Runs
    <2>2. c \in Cmds
      BY <2>1, NextCommand
    <2> DEFINE D == {d \in Days : <<"dates", c[3], c[2], d>> \in db}
               q == RemoveRest(c[2], c[3], D)
    <2>3. /\ todo' = [todo EXCEPT ![p] = q \o Tail(todo[p])]
          /\ UNCHANGED <<db, hash, dirty, mod, requests, taken, shared, overlap, stray>>
      BY <1>3 DEF RemoveMatch, Then, Arg
    <2>4. D \in SUBSET Days
      OBVIOUS
    <2> HIDE DEF D
    <2>5. q \in Seq(MatchCmds)
      BY <2>1, <2>2, <2>4, Shapes, RemoveRestTyped
    <2>6. \A z : ~Touches(c, z)
      BY <2>1 DEF Touches
    <2> HIDE DEF q
    <2>7. QED
      BY <1>2, <2>1, <2>3, <2>5, <2>6
  <1>4. CASE ReadMatches(p)
    <2>1. todo[p] # <<>> /\ c[1] = "objs"
      BY <1>4 DEF ReadMatches, Runs
    <2>2. c \in Cmds
      BY <2>1, NextCommand
    <2> DEFINE q == RemoveAll(c[2], SetToSeq({o \in Objs : <<"type", c[2], o>> \in db}))
    <2>3. /\ todo' = [todo EXCEPT ![p] = q \o Tail(todo[p])]
          /\ UNCHANGED <<db, hash, dirty, mod, requests, taken, shared, overlap, stray>>
      BY <1>4 DEF ReadMatches, Then, Arg, histories
    <2>4. q \in Seq(MatchCmds)
      BY <2>1, <2>2, Shapes, RemoveAllTyped
    <2>5. \A z : ~Touches(c, z)
      BY <2>1 DEF Touches
    <2> HIDE DEF q
    <2>6. QED
      BY <1>2, <2>1, <2>3, <2>4, <2>5
  <1>5. CASE UpdateRange(p)
    <2>1. /\ todo[p] # <<>>
          /\ \/ c[1] = "seen" /\ todo' = [todo EXCEPT ![p] = Seen(c[2], c[3]) \o Tail(todo[p])]
             \/ c[1] = "range" /\ todo' = [todo EXCEPT ![p] = NewRange(c[2]) \o Tail(todo[p])]
          /\ UNCHANGED <<db, hash, dirty, mod, requests, taken, shared, overlap, stray>>
      BY <1>5 DEF UpdateRange, Runs, Then, Arg, histories
    <2>2. c \in Cmds
      BY <2>1, NextCommand
    <2>3. \A z : ~Touches(c, z)
      BY <2>1 DEF Touches
    <2>4. CASE c[1] = "seen"
      <3> DEFINE q == Seen(c[2], c[3])
      <3>1. q \in Seq(MatchCmds)
        BY <2>2, <2>4, Shapes, SeenTyped
      <3> HIDE DEF q
      <3>2. todo' = [todo EXCEPT ![p] = q \o Tail(todo[p])]
        BY <2>1, <2>4 DEF q
      <3>3. QED
        BY <1>2, <2>1, <2>3, <3>1, <3>2
    <2>5. CASE c[1] = "range"
      <3> DEFINE q == NewRange(c[2])
      <3>1. q \in Seq(MatchCmds)
        BY <2>2, <2>5, Shapes, NewRangeTyped
      <3> HIDE DEF q
      <3>2. todo' = [todo EXCEPT ![p] = q \o Tail(todo[p])]
        BY <2>1, <2>5 DEF q
      <3>3. QED
        BY <1>2, <2>1, <2>3, <3>1, <3>2
    <2>6. QED
      BY <2>1, <2>4, <2>5
  <1>6. QED
    BY <1>1, <1>3, <1>4, <1>5 DEF Expands

\* A step of the commands of any process leaves what Flask is about to do as it is.
LEMMA SameAfterCommand ==
  ASSUME Typed, NEW p \in Procs, Command(p)
  PROVE  Same /\ shared' = shared /\ stray' = stray
  <1>0. todo \in [Procs -> Seq(Cmds)] /\ Flask \in Procs
    BY DEF Typed, Procs
  <1>1. CASE Sends(p)
    <2>1. \A z \in Guarded : IsCell(z)
      BY GuardedAreCells
    <2>2. CASE p = Flask
      <3>1. \A z \in Guarded : \A v : Will(Flask, z, v)' <=> Will(Flask, z, v)
        BY <1>1, <2>1, <2>2, SameForSender
      <3>2. QED
        BY <1>1, <3>1, SendsDoes DEF Same
    <2>3. CASE p # Flask
      <3>1. todo[p] # <<>> /\ todo'[Flask] = todo[Flask] /\ UNCHANGED <<shared, stray>> /\ Effect(Head(todo[p]))
        BY <1>0, <1>1, <2>3, SendsDoes
      <3>2. Head(todo[p]) \in MatchCmds
        BY <2>3, <3>1, NextCommand
      <3>3. \A z \in Guarded : Now(z)' = Now(z)
        BY <2>1, <3>1, <3>2, MatchesQuiet DEF Effect
      <3>4. QED
        BY <3>1, <3>3 DEF Same, Will
    <2>4. QED
      BY <2>2, <2>3
  <1>2. CASE Expands(p)
    <2>1. /\ todo[p] # <<>> /\ \A z : ~Touches(Head(todo[p]), z)
          /\ \A z \in Guarded : Now(z)' = Now(z)
          /\ shared' = shared /\ stray' = stray
      BY <1>2, ExpandsDoes
    <2>2. PICK q \in Seq(MatchCmds) : todo' = [todo EXCEPT ![p] = q \o Tail(todo[p])]
      BY <1>2, ExpandsDoes
    <2>3. CASE p = Flask
      <3> DEFINE r == Tail(todo[Flask])
      <3>1. /\ r \in Seq(Cmds) /\ todo'[Flask] = q \o r
            /\ \A z : Quiet(todo[Flask], z) <=> Quiet(r, z)
            /\ \A z, v : Gives(todo[Flask], z, v) <=> Gives(r, z, v)
        BY <1>0, <2>1, <2>2, <2>3, NextCommand DEF Writes
      <3> HIDE DEF r
      <3>2. q \in Seq(Cmds)
        BY DEF Cmds
      <3>3. /\ \A z : Quiet(q \o r, z) <=> Quiet(q, z) /\ Quiet(r, z)
            /\ \A z, v : Gives(q \o r, z, v) <=> Gives(r, z, v) \/ (Gives(q, z, v) /\ Quiet(r, z))
        BY <3>1, <3>2, JoinedLists
      <3>4. \A z \in Guarded : \A v : Quiet(q, z) /\ ~Gives(q, z, v)
        BY <3>2, ListQuiet, LeavesOne
      <3>5. \A z \in Guarded : \A v : Will(Flask, z, v)' <=> Will(Flask, z, v)
        BY <2>1, <3>1, <3>3, <3>4 DEF Will
      <3>6. QED
        BY <2>1, <3>5 DEF Same
    <2>4. CASE p # Flask
      <3>1. todo'[Flask] = todo[Flask]
        BY <1>0, <2>2, <2>4
      <3>2. QED
        BY <2>1, <3>1 DEF Same, Will
    <2>5. QED
      BY <2>3, <2>4
  <1>3. QED
    BY <1>1, <1>2 DEF Command, Sends, Expands

----------------------------------------------------------------------------
(***************************************************************************)
(* Types, and the books, in every step.                                    *)
(***************************************************************************)
LEMMA StartTyped ==
  ASSUME Typed, NEW q \in Seq(Cmds), Request(q)
  PROVE  Typed'
  <1>1. /\ todo' = [todo EXCEPT ![Flask] = q]
        /\ UNCHANGED <<db, hash, dirty, mod>>
    BY DEF Request
  <1>2. todo' \in [Procs -> Seq(Cmds)]
    BY <1>1 DEF Typed
  <1>3. \A t \in Types : todo'[t] = todo[t]
    BY <1>1, TrackersAssumption DEF Typed, Procs
  <1>4. QED
    BY <1>1, <1>2, <1>3 DEF Typed

LEMMA CommandTyped ==
  ASSUME Typed, NEW p \in Procs, Command(p)
  PROVE  Typed'
  <1>0. todo \in [Procs -> Seq(Cmds)] /\ \A t \in Types : todo[t] \in Seq(MatchCmds) /\ t # Flask /\ t \in Procs
    BY TrackersAssumption DEF Typed, Procs
  <1>1. \E q \in Seq(MatchCmds) : todo' = [todo EXCEPT ![p] = q \o Tail(todo[p])]
    <2>1. CASE Sends(p)
      <3>1. todo[p] # <<>> /\ todo' = [todo EXCEPT ![p] = Tail(todo[p])]
        BY <2>1, SendsDoes
      <3>2. Tail(todo[p]) \in Seq(Cmds)
        BY <3>1, NextCommand
      <3>3. <<>> \o Tail(todo[p]) = Tail(todo[p])
        BY <3>2
      <3>4. <<>> \in Seq(MatchCmds)
        OBVIOUS
      <3>5. QED
        BY <3>1, <3>3, <3>4
    <2>2. CASE Expands(p)
      BY <2>2, ExpandsDoes
    <2>3. QED
      BY <2>1, <2>2 DEF Command, Sends, Expands
  <1>2. todo[p] # <<>>
    BY SendsDoes, ExpandsDoes DEF Command, Sends, Expands
  <1>3. PICK q \in Seq(MatchCmds) : todo' = [todo EXCEPT ![p] = q \o Tail(todo[p])]
    BY <1>1
  <1> DEFINE r == Tail(todo[p])
  <1>4. r \in Seq(Cmds) /\ (p # Flask => r \in Seq(MatchCmds))
    BY <1>2, NextCommand
  <1> HIDE DEF r
  <1>5. q \in Seq(Cmds)
    BY DEF Cmds
  <1>6. q \o r \in Seq(Cmds)
    BY <1>4, <1>5
  <1>7. p # Flask => q \o r \in Seq(MatchCmds)
    BY <1>4
  <1>8. /\ todo' \in [Procs -> Seq(Cmds)]
        /\ \A t \in Types : todo'[t] \in Seq(MatchCmds)
    BY <1>0, <1>3, <1>6, <1>7 DEF r
  <1>9. /\ hash' \in [Uuids -> Hashes] /\ dirty' \subseteq Types /\ mod' = mod
    <2>1. CASE Sends(p)
      BY <2>1, SendsDoes
    <2>2. CASE Expands(p)
      BY <2>2, ExpandsDoes DEF Typed
    <2>3. QED
      BY <2>1, <2>2 DEF Command, Sends, Expands
  <1>10. QED
    BY <1>8, <1>9 DEF Typed

\* The steps of a module between its commands, and the one of a command that raises.
Works(t) == Take(t) \/ ReadTerms(t) \/ Stamp(t) \/ Look(t) \/ Found(t) \/ Match(t) \/ GivesUp(t)

LEMMA WorksTyped ==
  ASSUME Typed, NEW t \in Types, Works(t)
  PROVE  Typed'
  <1>0. /\ mod \in [Types -> Mods] /\ mod[t] \in Mods /\ dirty \subseteq Types
        /\ todo \in [Procs -> Seq(Cmds)] /\ t \in Procs
    BY DEF Typed, Procs
  <1>1. SUFFICES ASSUME NEW m \in Mods, mod' = [mod EXCEPT ![t] = m], hash' = hash, dirty' \subseteq Types,
                        m.pc # "idle" => m.obj \in Objs,
                        \/ todo' = todo
                        \/ \E q \in Seq(MatchCmds) : todo' = [todo EXCEPT ![t] = q]
                 PROVE  Typed'
    <2>1. CASE Take(t)
      <3>1. PICK o \in Objs : mod' = [mod EXCEPT ![t] = IF t \in dirty
                   THEN [mod[t] EXCEPT !.pc = "read", !.obj = o]
                   ELSE [mod[t] EXCEPT !.pc = "look", !.obj = o]]
        BY <2>1 DEF Take, Becomes
      <3> DEFINE m == IF t \in dirty THEN [mod[t] EXCEPT !.pc = "read", !.obj = o]
                                     ELSE [mod[t] EXCEPT !.pc = "look", !.obj = o]
      <3>2. m \in Mods /\ m.obj \in Objs
        BY <1>0 DEF Mods
      <3> HIDE DEF m
      <3>3. mod' = [mod EXCEPT ![t] = m]
        BY <3>1 DEF m
      <3>4. todo' = todo /\ dirty' = dirty /\ hash' = hash
        BY <2>1 DEF Take
      <3>5. QED
        BY <1>0, <1>1, <3>2, <3>3, <3>4
    <2>2. CASE ReadTerms(t)
      <3> DEFINE m == [mod[t] EXCEPT !.pc = "stamp", !.copy = TermsOf(t)]
      <3>1. mod' = [mod EXCEPT ![t] = m] /\ todo' = todo /\ dirty' = dirty /\ hash' = hash
        BY <2>2 DEF ReadTerms, Becomes
      <3>2. TermsOf(t) \subseteq Kinds \X Terms
        BY DEF TermsOf
      <3>3. m \in Mods /\ m.obj = mod[t].obj
        BY <1>0, <3>2 DEF Mods
      <3>4. mod[t].obj \in Objs
        BY <2>2 DEF ReadTerms, At, Typed
      <3> HIDE DEF m
      <3>5. QED
        BY <1>0, <1>1, <3>1, <3>3, <3>4
    <2>3. CASE Stamp(t)
      <3> DEFINE m == [mod[t] EXCEPT !.pc = "look"]
      <3>1. mod' = [mod EXCEPT ![t] = m] /\ todo' = todo /\ dirty' = dirty \ {t} /\ hash' = hash
        BY <2>3 DEF Stamp, Becomes
      <3>2. m \in Mods /\ m.obj = mod[t].obj
        BY <1>0 DEF Mods
      <3>3. mod[t].obj \in Objs
        BY <2>3 DEF Stamp, At, Typed
      <3> HIDE DEF m
      <3>4. QED
        BY <1>0, <1>1, <3>1, <3>2, <3>3
    <2>4. CASE Look(t)
      <3> DEFINE ws == {w \in Terms : <<KindOf[mod[t].obj], w>> \in mod[t].copy /\ <<w, mod[t].obj>> \in Hits}
                 m == [mod[t] EXCEPT !.pc = "match", !.terms = ws]
      <3>1. mod' = [mod EXCEPT ![t] = m] /\ todo' = todo /\ dirty' = dirty /\ hash' = hash
        BY <2>4 DEF Look, Becomes
      <3>2. ws \in SUBSET Terms
        OBVIOUS
      <3> HIDE DEF ws
      <3>3. m \in Mods /\ m.obj = mod[t].obj
        BY <1>0, <3>2 DEF Mods
      <3>4. mod[t].obj \in Objs
        BY <2>4 DEF Look, At, Typed
      <3> HIDE DEF m
      <3>5. QED
        BY <1>0, <1>1, <3>1, <3>3, <3>4
    <2>5. CASE Found(t)
      <3>1. todo' = todo /\ dirty' = dirty /\ hash' = hash
        BY <2>5 DEF Found
      <3>2. CASE mod[t].terms = {}
        <4> DEFINE m == [Idle EXCEPT !.copy = mod[t].copy]
        <4>1. mod' = [mod EXCEPT ![t] = m]
          BY <2>5, <3>2 DEF Found, Becomes
        <4>2. m \in Mods /\ m.pc = "idle"
          BY <1>0 DEF Mods, Idle
        <4> HIDE DEF m
        <4>3. QED
          BY <1>0, <1>1, <3>1, <4>1, <4>2
      <3>3. CASE mod[t].terms # {}
        <4>1. PICK w \in mod[t].terms :
                mod' = [mod EXCEPT ![t] = [mod[t] EXCEPT !.terms = mod[t].terms \ {w},
                         !.found = {u \in Uuids : <<"uuids", t, w, u, KindOf[mod[t].obj]>> \in db}]]
          BY <2>5, <3>3 DEF Found, Becomes
        <4> DEFINE us == {u \in Uuids : <<"uuids", t, w, u, KindOf[mod[t].obj]>> \in db}
                   m == [mod[t] EXCEPT !.terms = mod[t].terms \ {w}, !.found = us]
        <4>2. us \in SUBSET Uuids
          OBVIOUS
        <4>3. mod' = [mod EXCEPT ![t] = m]
          BY <4>1
        <4> HIDE DEF us
        <4>4. m \in Mods /\ m.obj = mod[t].obj
          BY <1>0, <4>2 DEF Mods
        <4>5. mod[t].obj \in Objs
          BY <2>5 DEF Found, At, Typed
        <4> HIDE DEF m
        <4>6. QED
          BY <1>0, <1>1, <3>1, <4>3, <4>4, <4>5
      <3>4. QED
        BY <3>2, <3>3
    <2>6. CASE Match(t)
      <3>1. PICK u \in mod[t].found :
              /\ mod' = [mod EXCEPT ![t] = [mod[t] EXCEPT !.found = mod[t].found \ {u}]]
              /\ todo' = [todo EXCEPT ![t] = <<<<"add", u, mod[t].obj, LastDay>>>>]
              /\ dirty' = dirty /\ hash' = hash
        BY <2>6 DEF Match, Becomes
      <3> DEFINE m == [mod[t] EXCEPT !.found = mod[t].found \ {u}]
                 c == <<"add", u, mod[t].obj, LastDay>>
      <3>2. m \in Mods /\ m.obj = mod[t].obj /\ u \in Uuids
        BY <1>0 DEF Mods
      <3>3. mod[t].obj \in Objs
        BY <2>6 DEF Match, At, Typed
      <3>4. LastDay \in Days
        BY TrackersAssumption DEF Days
      <3>5. c \in MatchCmds
        BY <3>2, <3>3, <3>4, MatchCommands
      <3>6. mod' = [mod EXCEPT ![t] = m] /\ todo' = [todo EXCEPT ![t] = <<c>>]
        BY <3>1
      <3> HIDE DEF m, c
      <3>7. <<c>> \in Seq(MatchCmds)
        BY <3>5
      <3>8. QED
        BY <1>0, <1>1, <3>1, <3>2, <3>3, <3>6, <3>7
    <2>7. CASE GivesUp(t)
      <3> DEFINE m == [mod[t] EXCEPT !.terms = {}, !.found = {}]
      <3>1. /\ mod' = [mod EXCEPT ![t] = m] /\ dirty' = dirty /\ hash' = hash
            /\ todo[t] # <<>> /\ todo' = [todo EXCEPT ![t] = Tail(todo[t])]
        BY <2>7 DEF GivesUp, Raises, Runs, Sent, Becomes
      <3>2. m \in Mods /\ m.pc = mod[t].pc /\ m.obj = mod[t].obj
        BY <1>0 DEF Mods
      <3>3. m.pc # "idle" => m.obj \in Objs
        BY <3>2 DEF Typed
      <3>4. Tail(todo[t]) \in Seq(MatchCmds)
        BY <1>0, <3>1, TrackersAssumption, NextCommand
      <3> HIDE DEF m
      <3>5. QED
        BY <1>0, <1>1, <3>1, <3>2, <3>3, <3>4
    <2>8. QED
      BY <2>1, <2>2, <2>3, <2>4, <2>5, <2>6, <2>7 DEF Works
  <1>2. mod' \in [Types -> Mods] /\ \A x \in Types : mod'[x].pc # "idle" => mod'[x].obj \in Objs
    BY <1>0, <1>1 DEF Typed
  <1>3. todo' \in [Procs -> Seq(Cmds)] /\ \A x \in Types : todo'[x] \in Seq(MatchCmds)
    <2>1. CASE todo' = todo
      BY <2>1 DEF Typed
    <2>2. CASE \E q \in Seq(MatchCmds) : todo' = [todo EXCEPT ![t] = q]
      <3>1. PICK q \in Seq(MatchCmds) : todo' = [todo EXCEPT ![t] = q]
        BY <2>2
      <3>2. q \in Seq(MatchCmds) /\ q \in Seq(Cmds)
        BY DEF Cmds
      <3>3. \A x \in Types : todo[x] \in Seq(MatchCmds) /\ x \in Procs
        BY DEF Typed, Procs
      <3>4. QED
        BY <1>0, <3>1, <3>2, <3>3
    <2>3. QED
      BY <1>1, <2>1, <2>2
  <1>4. QED
    BY <1>1, <1>2, <1>3 DEF Typed

\* The requests about the matches.
LEMMA MatchRequest ==
  ASSUME NEW u \in Uuids, NEW o \in Objs, ApiRemoveObject(u, o) \/ \E d \in Days : ApiAddObject(u, o, d)
  PROVE  (\E c \in MatchCmds : Request(<<c>>)) /\ shared' = shared /\ stray' = stray
  BY MatchCommands DEF ApiRemoveObject, ApiAddObject

LEMMA MatchRequestSame ==
  ASSUME Typed, Books, NEW c \in MatchCmds, Request(<<c>>)
  PROVE  Same
  <1>1. <<c>> \in Seq(MatchCmds) /\ <<c>> \in Seq(Cmds)
    BY DEF Cmds
  <1> DEFINE q == <<c>>
  <1> HIDE DEF q
  <1>2. q \in Seq(MatchCmds) /\ q \in Seq(Cmds) /\ Request(q)
    BY <1>1 DEF q
  <1>3. \A z \in Guarded : Quiet(q, z)
    BY <1>2, ListQuiet
  <1>4. \A z : Quiet(q, z) => \A v : Will(Flask, z, v)' <=> Will(Flask, z, v)
    BY <1>2, Starts
  <1>5. QED
    BY <1>3, <1>4 DEF Same

LEMMA UserTyped ==
  ASSUME Typed, Books, User
  PROVE  Typed'
  <1>1. PICK u \in Uuids : \/ \E a \in Asks : ApiAdd(u, a) \/ ApiEdit(u, a)
                           \/ ApiDelete(u)
                           \/ \E o \in Objs : ApiRemoveObject(u, o) \/ \E d \in Days : ApiAddObject(u, o, d)
    BY DEF User
  <1>2. Rest
    BY <1>1 DEF ApiAdd, ApiEdit, ApiDelete, ApiAddObject, ApiRemoveObject, Request, Rest
  <1>3. ASSUME NEW a \in Asks, ApiAdd(u, a)
        PROVE  \E q \in Seq(Cmds) : Request(q)
    <2>1. CreateDone(Create(u, a), u, a) /\ Request(Create(u, a))
      BY <1>3, CreateDoes DEF ApiAdd
    <2>2. QED
      BY <2>1 DEF CreateDone
  <1>4. ASSUME NEW a \in Asks, ApiEdit(u, a)
        PROVE  \E q \in Seq(Cmds) : Request(q)
    <2>1. u \in All /\ Request(Edit(u, a, hash[u]))
      BY <1>4 DEF ApiEdit
    <2>2. Whole(hash[u])
      BY <1>2, <2>1, AtRest
    <2>3. EditDone(Edit(u, a, hash[u]), u, a, hash[u])
      BY <2>2, EditDoes
    <2>4. QED
      BY <2>1, <2>3 DEF EditDone
  <1>5. ASSUME ApiDelete(u)
        PROVE  \E q \in Seq(Cmds) : Request(q)
    <2>1. u \in All /\ Request(Delete(u, hash[u]))
      BY <1>5 DEF ApiDelete
    <2>2. Whole(hash[u])
      BY <1>2, <2>1, AtRest
    <2>3. DeleteDone(Delete(u, hash[u]), u, hash[u])
      BY <2>2, DeleteDoes
    <2>4. QED
      BY <2>1, <2>3 DEF DeleteDone
  <1>6. ASSUME NEW c \in MatchCmds, Request(<<c>>)
        PROVE  \E q \in Seq(Cmds) : Request(q)
    <2>1. <<c>> \in Seq(Cmds)
      BY DEF Cmds
    <2>2. QED
      BY <1>6, <2>1
  <1>7. \E q \in Seq(Cmds) : Request(q)
    BY <1>1, <1>3, <1>4, <1>5, <1>6, MatchRequest
  <1>8. QED
    BY <1>7, StartTyped

LEMMA UserBooks ==
  ASSUME Typed, Books, User
  PROVE  Books'
  <1>1. PICK u \in Uuids : \/ \E a \in Asks : ApiAdd(u, a) \/ ApiEdit(u, a)
                           \/ ApiDelete(u)
                           \/ \E o \in Objs : ApiRemoveObject(u, o) \/ \E d \in Days : ApiAddObject(u, o, d)
    BY DEF User
  <1>2. CASE \E a \in Asks : ApiAdd(u, a) \/ ApiEdit(u, a)
    BY <1>2, AddBooks, EditBooks
  <1>3. CASE ApiDelete(u)
    BY <1>3, DeleteBooks
  <1>4. CASE \E o \in Objs : ApiRemoveObject(u, o) \/ \E d \in Days : ApiAddObject(u, o, d)
    <2>1. Same /\ shared' = shared /\ stray' = stray
      BY <1>4, MatchRequest, MatchRequestSame
    <2>2. QED
      BY <2>1, BooksKept
  <1>5. QED
    BY <1>1, <1>2, <1>3, <1>4

LEMMA WorksSame ==
  ASSUME Typed, NEW t \in Types, Works(t)
  PROVE  Same /\ UNCHANGED <<db, hash, shared, raced, stray, requests>> /\ todo'[Flask] = todo[Flask]
  <1>1. t # Flask /\ Flask \in Procs /\ todo \in [Procs -> Seq(Cmds)]
    BY TrackersAssumption DEF Typed, Procs
  <1>2. UNCHANGED <<db, hash, shared, raced, stray, requests>>
    BY DEF Works, Take, ReadTerms, Stamp, Look, Found, Match, GivesUp, histories
  <1>3. todo' = todo \/ \E q : todo' = [todo EXCEPT ![t] = q]
    BY DEF Works, Take, ReadTerms, Stamp, Look, Found, Match, GivesUp, Sent
  <1>4. todo'[Flask] = todo[Flask]
    BY <1>1, <1>3
  <1>5. QED
    BY <1>2, <1>4 DEF Same, Will, Now

\* A step is one of a user, a command, or what a module does between its commands.
LEMMA Steps ==
  ASSUME Next
  PROVE  User \/ (\E p \in Procs : Command(p)) \/ \E t \in Types : Works(t)
  BY DEF Next, Module, Works, Procs

LEMMA StepTyped == Typed /\ Books /\ [Next]_vars => Typed'
  <1> SUFFICES ASSUME Typed, Books, [Next]_vars
               PROVE  Typed'
    OBVIOUS
  <1>1. CASE UNCHANGED vars
    BY <1>1 DEF vars, Typed
  <1>2. CASE Next
    BY <1>2, Steps, UserTyped, CommandTyped, WorksTyped
  <1>3. QED
    BY <1>1, <1>2

LEMMA StepBooks == Typed /\ Books /\ [Next]_vars => Books'
  <1> SUFFICES ASSUME Typed, Books, [Next]_vars
               PROVE  Books'
    OBVIOUS
  <1>1. CASE UNCHANGED vars
    <2>1. Same /\ shared' = shared /\ stray' = stray
      BY <1>1 DEF vars, Same, Will, Now
    <2>2. QED
      BY <2>1, BooksKept
  <1>2. CASE Next
    <2>1. CASE User
      BY <2>1, UserBooks
    <2>2. CASE \E p \in Procs : Command(p)
      BY <2>2, SameAfterCommand, BooksKept
    <2>3. CASE \E t \in Types : Works(t)
      BY <2>3, WorksSame, BooksKept
    <2>4. QED
      BY <1>2, <2>1, <2>2, <2>3, Steps
  <1>3. QED
    BY <1>1, <1>2

LEMMA InitBooks == Init => Typed /\ Books
  <1> SUFFICES ASSUME Init
               PROVE  Typed /\ Books
    OBVIOUS
  <1>1. Typed
    <2>1. NoHash \in Hashes
      BY DEF NoHash, Hashes, Filters
    <2>2. Idle \in Mods
      BY DEF Idle, Mods
    <2>3. <<>> \in Seq(Cmds) /\ <<>> \in Seq(MatchCmds)
      OBVIOUS
    <2>4. \A t \in Types : mod[t].pc = "idle"
      BY DEF Init, Idle
    <2>5. QED
      BY <2>1, <2>2, <2>3, <2>4 DEF Init, Typed, Procs
  <1>2. \A z, v : Will(Flask, z, v) <=> Now(z) = v
    <2>1. todo[Flask] = <<>>
      BY DEF Init, Procs
    <2>2. QED
      BY <2>1, EmptyList DEF Will
  <1>3. \A x : ~WillHave(x)
    <2>1. \A x : Now(Item(x)) = "out"
      BY DEF Init, Now, Item
    <2>2. QED
      BY <1>2, <2>1 DEF WillHave
  <1>4. QED
    BY <1>1, <1>3 DEF Books, Listed, WillList, WillTrack, WillShare, WillMap

----------------------------------------------------------------------------
(***************************************************************************)
(* What follows between requests.                                          *)
(***************************************************************************)
LEMMA TypesFollow ==
  ASSUME Typed
  PROVE  TypeOK
  <1>1. \A u \in Uuids : hash[u] \in Hashes
    BY DEF Typed
  <1>2. \A t \in Types : mod[t] \in Mods
    BY DEF Typed
  <1>3. QED
    BY <1>1, <1>2 DEF Typed, TypeOK, Hashes, Mods, Filters

LEMMA UuidsFollow ==
  ASSUME Typed, Books
  PROVE  UuidsExact
  <1> SUFFICES ASSUME Rest, NEW t \in Types, NEW w \in Terms, NEW u \in Uuids
               PROVE  /\ \A k \in Kinds :
                            <<"uuids", t, w, u, k>> \in db <=> Is(u, t, w) /\ k \in Tracks(hash[u].filters)
                      /\ <<"uuid", t, w, u>> \in stray \/ (<<"uuid", t, w, u>> \in db <=> Is(u, t, w))
    BY DEF UuidsExact
  <1>1. ASSUME NEW k \in Kinds
        PROVE  <<"uuids", t, w, u, k>> \in db <=> Is(u, t, w) /\ k \in Tracks(hash[u].filters)
    <2>1. WillHave(<<"uuids", t, w, u, k>>) <=> WillTrack(u, t, w, k)
      BY DEF Books
    <2>2. WillHave(<<"uuids", t, w, u, k>>) <=> <<"uuids", t, w, u, k>> \in db
      BY AtRest
    <2>3. WillTrack(u, t, w, k) <=> u \in All /\ Wants(hash[u], t, w, k)
      BY AtRest
    <2>4. QED
      BY <2>1, <2>2, <2>3 DEF Is, Wants
  <1>2. ASSUME <<"uuid", t, w, u>> \notin stray
        PROVE  <<"uuid", t, w, u>> \in db <=> Is(u, t, w)
    <2>1. WillHave(<<"uuid", t, w, u>>) <=> WillMap(u, t, w)
      BY <1>2 DEF Books
    <2>2. WillHave(<<"uuid", t, w, u>>) <=> <<"uuid", t, w, u>> \in db
      BY AtRest
    <2>3. WillMap(u, t, w) <=> u \in All /\ hash[u]["type"] = t /\ hash[u]["tracked"] = w
      BY AtRest DEF WillMap, Fields
    <2>4. QED
      BY <2>1, <2>2, <2>3 DEF Is
  <1>3. QED
    BY <1>1, <1>2

LEMMA TermsFollow ==
  ASSUME Typed, Books
  PROVE  TermsUsed
  <1> SUFFICES ASSUME Rest, NEW t \in Types, NEW w \in Terms, NEW k \in Kinds
               PROVE  LET wanted == \E u \in Uuids : <<"uuids", t, w, u, k>> \in db
                      IN  IF <<"terms", t, k, w>> \in db THEN wanted ELSE wanted => <<t, w>> \in shared
    BY DEF TermsUsed
  <1>1. \A u \in Uuids : WillTrack(u, t, w, k) <=> <<"uuids", t, w, u, k>> \in db
    <2> TAKE u \in Uuids
    <2>1. WillHave(<<"uuids", t, w, u, k>>) <=> WillTrack(u, t, w, k)
      BY DEF Books
    <2>2. WillHave(<<"uuids", t, w, u, k>>) <=> <<"uuids", t, w, u, k>> \in db
      BY AtRest
    <2>3. QED
      BY <2>1, <2>2
  <1>2. WillHave(<<"terms", t, k, w>>) <=> <<"terms", t, k, w>> \in db
    BY AtRest
  <1>3. WillHave(<<"terms", t, k, w>>) => \E u \in Uuids : WillTrack(u, t, w, k)
    BY DEF Books
  <1>4. \A u \in Uuids : WillTrack(u, t, w, k) => WillHave(<<"terms", t, k, w>>) \/ <<t, w>> \in shared
    BY DEF Books
  <1>5. QED
    BY <1>1, <1>2, <1>3, <1>4

LEMMA LevelsFollow ==
  ASSUME Typed, Books
  PROVE  LevelsExact
  <1> SUFFICES ASSUME Rest, NEW u \in Uuids, NEW l \in Levels
               PROVE  /\ <<"level", l, u>> \in db <=> u \in All /\ hash[u].level = l
                      /\ u \in All /\ hash[u].level = l => <<"levelOf", l, hash[u].type, u>> \in db
                      /\ \A t \in Types : <<"levelOf", l, t, u>> \in db
                           => (u \in All /\ hash[u].level = l /\ hash[u].type = t) \/ <<"levelOf", l, t, u>> \in stray
    BY DEF LevelsExact
  <1>1. /\ WillHave(<<"level", l, u>>) <=> <<"level", l, u>> \in db
        /\ WillHave(<<"levelOf", l, hash[u].type, u>>) <=> <<"levelOf", l, hash[u].type, u>> \in db
        /\ WillList(u) <=> u \in All
    BY AtRest
  <1>2. WillBe(u, "level", l) <=> hash[u]["level"] = l
    BY AtRest DEF Fields
  <1>3. WillBe(u, "type", hash[u].type)
    BY AtRest DEF Fields
  <1>4. u \in All => hash[u].type \in Types
    BY AtRest DEF Whole
  <1>5. WillHave(<<"level", l, u>>) <=> WillList(u) /\ WillBe(u, "level", l)
    BY DEF Books
  <1>6. u \in All /\ WillBe(u, "level", l) => WillHave(<<"levelOf", l, hash[u].type, u>>)
    BY <1>1, <1>3, <1>4 DEF Books
  <1>7. ASSUME NEW t \in Types, <<"levelOf", l, t, u>> \in db
        PROVE  (u \in All /\ hash[u].level = l /\ hash[u].type = t) \/ <<"levelOf", l, t, u>> \in stray
    <2>1. WillHave(<<"levelOf", l, t, u>>)
      BY <1>7, AtRest
    <2>2. WillStand(u, l, t) \/ <<"levelOf", l, t, u>> \in stray
      BY <2>1 DEF Books
    <2>3. WillBe(u, "type", t) <=> hash[u]["type"] = t
      BY AtRest DEF Fields
    <2>4. QED
      BY <1>1, <1>2, <2>2, <2>3 DEF WillStand
  <1>8. QED
    BY <1>1, <1>2, <1>5, <1>6, <1>7

\* Every field of a hash, note and copy is of its type.
THEOREM TypeCorrect == Spec => []TypeOK
<1>1. Init => Typed /\ Books
  BY InitBooks
<1>2. Typed /\ Books /\ [Next]_vars => Typed' /\ Books'
  BY StepTyped, StepBooks
<1>3. Typed => TypeOK
  BY TypesFollow
<1> QED
  BY <1>1, <1>2, <1>3, PTL DEF Spec

\* Between requests, what the modules are told of a term is its trackers with the kinds of
\* their filters, whatever was added, edited and deleted before; and all:tracker_uuid has for a
\* term its trackers, but for the terms that an edit within a type took or gave.
THEOREM UuidsCorrect == Spec => []UuidsExact
<1>1. Init => Typed /\ Books
  BY InitBooks
<1>2. Typed /\ Books /\ [Next]_vars => Typed' /\ Books'
  BY StepTyped, StepBooks
<1>3. Typed /\ Books => UuidsExact
  BY UuidsFollow
<1> QED
  BY <1>1, <1>2, <1>3, PTL DEF Spec

\* Between requests, a term is looked for only if a tracker wants it, and is if one does, unless
\* two trackers once had it.
THEOREM TermsCorrect == Spec => []TermsUsed
<1>1. Init => Typed /\ Books
  BY InitBooks
<1>2. Typed /\ Books /\ [Next]_vars => Typed' /\ Books'
  BY StepTyped, StepBooks
<1>3. Typed /\ Books => TermsUsed
  BY TermsFollow
<1> QED
  BY <1>1, <1>2, <1>3, PTL DEF Spec

\* Between requests, a tracker is in the list of its level and of no other level, and of the
\* lists of a level and a type in no other than its own but those that an edit of its type
\* has left it in.
THEOREM LevelsCorrect == Spec => []LevelsExact
<1>1. Init => Typed /\ Books
  BY InitBooks
<1>2. Typed /\ Books /\ [Next]_vars => Typed' /\ Books'
  BY StepTyped, StepBooks
<1>3. Typed /\ Books => LevelsExact
  BY LevelsFollow
<1> QED
  BY <1>1, <1>2, <1>3, PTL DEF Spec

----------------------------------------------------------------------------
(***************************************************************************)
(* The notes to the modules.                                               *)
(***************************************************************************)
Tells(q, t) == \E i \in 1 .. Len(q) : q[i] = <<"trigger", t>>

\* The last commands, from the one at m on, are notes for all the types whose terms change.
LEMMA NotesAtTheEnd ==
  ASSUME NEW q \in Seq(Cmds), NEW m \in 1 .. Len(q),
         \A j \in m .. Len(q) : q[j][1] = "trigger",
         \A i \in 1 .. Len(q), t \in Types : OfTerms(q[i], t) => \E j \in m .. Len(q) : q[j] = <<"trigger", t>>
  PROVE  Told(q)
  <1>0. Len(q) \in Nat
    OBVIOUS
  <1>1. ASSUME NEW i \in 1 .. Len(q), NEW t \in Types, OfTerms(q[i], t)
        PROVE  \E j \in (i + 1) .. Len(q) : q[j] = <<"trigger", t>>
    <2>1. q[i][1] # "trigger"
      BY <1>1 DEF OfTerms
    <2>2. i < m
      BY <1>0, <2>1
    <2>3. PICK j \in m .. Len(q) : q[j] = <<"trigger", t>>
      BY <1>1
    <2>4. j \in (i + 1) .. Len(q)
      BY <1>0, <2>2
    <2>5. QED
      BY <2>3, <2>4
  <1>2. QED
    BY <1>1 DEF Told

LEMMA NotesOfTheRest ==
  ASSUME NEW q \in Seq(Cmds), q # <<>>, Told(q)
  PROVE  /\ Told(Tail(q))
         /\ \A t \in Types : OfTerms(Head(q), t) => Tells(Tail(q), t)
         /\ \A t : Tells(q, t) => Head(q) = <<"trigger", t>> \/ Tells(Tail(q), t)
  <1> DEFINE r == Tail(q)
  <1>0. /\ Len(q) \in Nat /\ Len(q) >= 1 /\ Len(r) = Len(q) - 1 /\ Head(q) = q[1]
        /\ \A i \in 1 .. Len(r) : r[i] = q[i + 1] /\ i + 1 \in 1 .. Len(q)
    OBVIOUS
  <1>1. \A j \in 2 .. Len(q) : j - 1 \in 1 .. Len(r) /\ r[j - 1] = q[j]
    <2> TAKE j \in 2 .. Len(q)
    <2>1. j - 1 \in 1 .. Len(r) /\ (j - 1) + 1 = j
      BY <1>0
    <2>2. QED
      BY <2>1, <1>0
  <1> HIDE DEF r
  <1>2. ASSUME NEW i \in 1 .. Len(r), NEW t \in Types, OfTerms(r[i], t)
        PROVE  \E j \in (i + 1) .. Len(r) : r[j] = <<"trigger", t>>
    <2>1. OfTerms(q[i + 1], t) /\ i + 1 \in 1 .. Len(q)
      BY <1>2, <1>0
    <2>2. PICK j \in (i + 1 + 1) .. Len(q) : q[j] = <<"trigger", t>>
      BY <2>1 DEF Told
    <2>3. j - 1 \in (i + 1) .. Len(r) /\ j \in 2 .. Len(q)
      BY <1>0
    <2>4. QED
      BY <2>2, <2>3, <1>1
  <1>3. ASSUME NEW t \in Types, OfTerms(Head(q), t)
        PROVE  Tells(r, t)
    <2>1. OfTerms(q[1], t) /\ 1 \in 1 .. Len(q)
      BY <1>0, <1>3
    <2>2. PICK j \in (1 + 1) .. Len(q) : q[j] = <<"trigger", t>>
      BY <2>1 DEF Told
    <2>3. QED
      BY <2>2, <1>1 DEF Tells
  <1>4. ASSUME NEW t, Tells(q, t), Head(q) # <<"trigger", t>>
        PROVE  Tells(r, t)
    <2>1. PICK i \in 1 .. Len(q) : q[i] = <<"trigger", t>>
      BY <1>4 DEF Tells
    <2>2. i # 1
      BY <2>1, <1>4, <1>0
    <2>3. i \in 2 .. Len(q)
      BY <2>2, <1>0
    <2>4. QED
      BY <2>1, <2>3, <1>1 DEF Tells
  <1>5. Told(r)
    BY <1>2 DEF Told
  <1>6. QED
    BY <1>3, <1>4, <1>5 DEF r

LEMMA NoTermsInMatches ==
  ASSUME NEW c \in MatchCmds, NEW t
  PROVE  ~OfTerms(c, t)
  <1>1. \A x \in MatchItems : x[1] # "terms"
    BY DEF MatchItems
  <1>2. ASSUME NEW x \in MatchItems, c \in {Sadd(x), Srem(x)}
        PROVE  ~OfTerms(c, t)
    BY <1>1, <1>2 DEF OfTerms, Sadd, Srem
  <1>3. ASSUME c[1] \notin {"sadd", "srem"}
        PROVE  ~OfTerms(c, t)
    BY <1>3 DEF OfTerms
  <1>4. (\E x \in MatchItems : c \in {Sadd(x), Srem(x)}) \/ c[1] \notin {"sadd", "srem"}
    BY DEF MatchCmds, Hset
  <1>5. QED
    BY <1>2, <1>3, <1>4

LEMMA NotesAfterMatches ==
  ASSUME NEW p \in Seq(MatchCmds), NEW q \in Seq(Cmds), Told(q)
  PROVE  Told(p \o q) /\ \A t : Tells(q, t) => Tells(p \o q, t)
  <1> DEFINE r == p \o q
  <1>0. /\ Len(r) = Len(p) + Len(q)
        /\ Len(p) \in Nat /\ Len(q) \in Nat
        /\ \A i \in 1 .. Len(p) : r[i] = p[i] /\ p[i] \in MatchCmds
        /\ \A i \in 1 .. Len(q) : r[Len(p) + i] = q[i]
    OBVIOUS
  <1> HIDE DEF r
  <1>1. ASSUME NEW i \in 1 .. Len(p), NEW t \in Types
        PROVE  ~OfTerms(p[i], t)
    <2>1. p[i] \in MatchCmds
      BY <1>0
    <2>2. QED
      BY <2>1, NoTermsInMatches
  <1>2. ASSUME NEW i \in 1 .. Len(r), NEW t \in Types, OfTerms(r[i], t)
        PROVE  \E j \in (i + 1) .. Len(r) : r[j] = <<"trigger", t>>
    <2>1. i \notin 1 .. Len(p)
      BY <1>0, <1>1, <1>2
    <2>2. PICK k \in 1 .. Len(q) : i = Len(p) + k
      <3>1. i - Len(p) \in 1 .. Len(q) /\ i = Len(p) + (i - Len(p))
        BY <2>1, <1>0
      <3>2. QED
        BY <3>1
    <2>3. OfTerms(q[k], t)
      BY <1>0, <1>2, <2>2
    <2>4. PICK j \in (k + 1) .. Len(q) : q[j] = <<"trigger", t>>
      BY <2>3 DEF Told
    <2>5. Len(p) + j \in (i + 1) .. Len(r) /\ j \in 1 .. Len(q)
      BY <1>0, <2>2
    <2>6. QED
      BY <2>4, <2>5, <1>0
  <1>3. ASSUME NEW t, Tells(q, t)
        PROVE  Tells(r, t)
    <2>1. PICK j \in 1 .. Len(q) : q[j] = <<"trigger", t>>
      BY <1>3 DEF Tells
    <2>2. Len(p) + j \in 1 .. Len(r)
      BY <1>0
    <2>3. QED
      BY <2>1, <2>2, <1>0 DEF Tells
  <1>4. Told(r)
    BY <1>2 DEF Told
  <1>5. QED
    BY <1>3, <1>4 DEF r

LEMMA TermsTouched ==
  ASSUME NEW q \in Seq(Cmds), NEW i \in 1 .. Len(q), NEW t \in Types, OfTerms(q[i], t)
  PROVE  \E k \in Kinds, w \in Terms : ~Quiet(q, Item(<<"terms", t, k, w>>))
  <1> DEFINE c == q[i]
             x == c[2]
  <1>1. c \in Cmds
    OBVIOUS
  <1>2. IsItem(x) /\ c \in {Sadd(x), Srem(x)} /\ x[1] = "terms" /\ x[2] = t
    BY <1>1, Shapes DEF OfTerms
  <1>3. \E k \in Kinds, w \in Terms : x = <<"terms", t, k, w>>
    <2>1. x \notin MatchItems
      BY <1>2 DEF MatchItems
    <2>2. \E s \in Types, k \in Kinds, w \in Terms : x = <<"terms", s, k, w>>
      BY <1>2, <2>1 DEF IsItem, PlainItems
    <2>3. QED
      BY <2>2, <1>2
  <1>4. Touches(c, Item(x))
    BY <1>2, CommandsTouch
  <1>5. QED
    BY <1>3, <1>4 DEF Quiet

LEMMA EndOfTwo ==
  ASSUME NEW b \in Seq(Cmds), NEW e \in Seq(Cmds)
  PROVE  /\ Len(b \o e) = Len(b) + Len(e) /\ Len(b) \in Nat /\ b \o e \in Seq(Cmds)
         /\ \A j \in 1 .. Len(e) : (b \o e)[Len(b) + j] = e[j]
  OBVIOUS

LEMMA EditTold ==
  ASSUME NEW u \in Uuids, NEW a \in Asks, NEW old, Whole(old)
  PROVE  Told(Edit(u, a, old))
  <1> DEFINE b == TypePart(u, a, old) \o ResetLevel(u, a.type, old.level, a.level) \o TermPart(u, a, old)
                  \o DelFilters(u, old.type, old.tracked, old.filters) \o AddFilters(u, a)
             e == Notes(a.type, old.type)
             q == Edit(u, a, old)
  <1>0. /\ a.type \in Types /\ a.level \in Levels
        /\ old.type \in Types /\ old.tracked \in Terms /\ old.level \in Levels /\ old.filters \in Filters
    BY AskTypes DEF Whole
  <1>1. q = b \o e
    BY DEF Edit, TypePart, TermPart
  <1>2. b \in Seq(Cmds)
    <2>1. /\ TypePart(u, a, old) \in Seq(Cmds) /\ TermPart(u, a, old) \in Seq(Cmds)
      BY TypePartDoes, TermPartDoes
    <2>2. /\ ResetLevel(u, a.type, old.level, a.level) \in Seq(Cmds)
          /\ DelFilters(u, old.type, old.tracked, old.filters) \in Seq(Cmds)
          /\ AddFilters(u, a) \in Seq(Cmds)
      BY <1>0, ResetLevelDoes, DelFiltersDoes, AddFiltersDoes
    <2>3. QED
      BY <2>1, <2>2
  <1>3. /\ e \in Seq(Cmds) /\ Len(e) \in 1 .. 2 /\ e[1] = <<"trigger", a.type>>
        /\ a.type # old.type => Len(e) = 2 /\ e[2] = <<"trigger", old.type>>
    BY <1>0, NotesDo
  <1>4. EditDone(q, u, a, old)
    BY EditDoes
  <1> HIDE DEF b, e, q
  <1> DEFINE m == Len(b) + 1
  <1>5. /\ q \in Seq(Cmds) /\ Len(q) \in m .. (m + 1) /\ m \in Nat /\ m >= 1
        /\ q[m] = <<"trigger", a.type>>
        /\ Len(q) = m + 1 => q[m + 1] = e[2] /\ Len(e) = 2
        /\ a.type # old.type => Len(q) = m + 1 /\ q[m + 1] = <<"trigger", old.type>>
    <2>1. /\ Len(q) = Len(b) + Len(e) /\ Len(b) \in Nat /\ q \in Seq(Cmds)
          /\ \A j \in 1 .. Len(e) : q[Len(b) + j] = e[j]
      BY <1>1, <1>2, <1>3, EndOfTwo
    <2>2. q[Len(b) + 1] = e[1] /\ (Len(e) = 2 => q[Len(b) + 2] = e[2])
      BY <2>1, <1>3
    <2>3. QED
      BY <2>1, <2>2, <1>3
  <1> HIDE DEF m
  <1>6. \A j \in m .. Len(q) : j = m \/ (j = m + 1 /\ Len(q) = m + 1)
    BY <1>5
  <1>7. m \in 1 .. Len(q) /\ m \in m .. Len(q) /\ (Len(q) = m + 1 => m + 1 \in m .. Len(q))
    BY <1>5
  <1>8. \A j \in m .. Len(q) : q[j][1] = "trigger"
    <2>1. Len(e) = 2 => e[2][1] = "trigger"
      BY <1>0, NotesDo DEF e
    <2>2. QED
      BY <1>5, <1>6, <2>1
  <1>9. ASSUME NEW i \in 1 .. Len(q), NEW t \in Types, OfTerms(q[i], t)
        PROVE  \E j \in m .. Len(q) : q[j] = <<"trigger", t>>
    <2>1. PICK k \in Kinds, w \in Terms : ~Quiet(q, Item(<<"terms", t, k, w>>))
      BY <1>5, <1>9, TermsTouched
    <2>2. Wants(a, t, w, k) \/ Wants(old, t, w, k)
      BY <1>4, <2>1 DEF EditDone
    <2>3. t = a.type \/ (t = old.type /\ a.type # old.type)
      BY <2>2 DEF Wants
    <2>4. QED
      BY <2>3, <1>5, <1>7
  <1>10. QED
    BY <1>5, <1>7, <1>8, <1>9, NotesAtTheEnd DEF q

\* A list whose last command is the note of the one type that it is about.
LEMMA NoteIsLast ==
  ASSUME NEW b \in Seq(Cmds), NEW e \in Seq(Cmds), NEW t \in Types, Len(e) > 0, e[Len(e)] = <<"trigger", t>>,
         \A i \in 1 .. Len(b \o e), s \in Types : OfTerms((b \o e)[i], s) => s = t
  PROVE  Told(b \o e)
  <1> DEFINE q == b \o e
             m == Len(q)
  <1>1. /\ Len(q) = Len(b) + Len(e) /\ Len(b) \in Nat /\ q \in Seq(Cmds) /\ Len(e) \in Nat
        /\ \A j \in 1 .. Len(e) : q[Len(b) + j] = e[j]
    BY EndOfTwo
  <1> HIDE DEF q
  <1>2. m \in 1 .. Len(q) /\ m \in m .. Len(q)
    BY <1>1
  <1>3. q[m] = <<"trigger", t>>
    <2>1. Len(e) \in 1 .. Len(e)
      BY <1>1
    <2>2. q[Len(b) + Len(e)] = e[Len(e)]
      BY <1>1, <2>1
    <2>3. QED
      BY <2>2, <1>1
  <1>4. \A j \in m .. Len(q) : j = m
    BY <1>1
  <1>5. \A i \in 1 .. Len(q), s \in Types : OfTerms(q[i], s) => s = t
    BY DEF q
  <1>6. \A j \in m .. Len(q) : q[j][1] = "trigger"
    BY <1>3, <1>4
  <1>7. \A i \in 1 .. Len(q), s \in Types : OfTerms(q[i], s) => \E j \in m .. Len(q) : q[j] = <<"trigger", s>>
    BY <1>2, <1>3, <1>5
  <1>8. QED
    BY <1>1, <1>2, <1>6, <1>7, NotesAtTheEnd DEF q

LEMMA CreateTold ==
  ASSUME NEW u \in Uuids, NEW a \in Asks
  PROVE  Told(Create(u, a))
  <1> DEFINE b == <<Hset(u, "tracked", a.tracked), Hset(u, "type", a.type), Sadd(<<"tracked", a.type, a.tracked>>),
                    Sadd(<<"uuid", a.type, a.tracked, u>>), Sadd(<<"all", u>>), Sadd(<<"allOf", a.type, u>>)>>
                  \o SetLevel(u, a.type, a.level) \o AddFilters(u, a)
             e == <<<<"trigger", a.type>>>>
             q == Create(u, a)
  <1>0. a.type \in Types /\ a.tracked \in Terms /\ a.level \in Levels
    BY AskTypes
  <1>1. q = b \o e
    BY DEF Create
  <1>2. b \in Seq(Cmds)
    <2>1. /\ Hset(u, "tracked", a.tracked) \in Cmds /\ Hset(u, "type", a.type) \in Cmds
          /\ Sadd(<<"tracked", a.type, a.tracked>>) \in Cmds /\ Sadd(<<"uuid", a.type, a.tracked, u>>) \in Cmds
          /\ Sadd(<<"all", u>>) \in Cmds /\ Sadd(<<"allOf", a.type, u>>) \in Cmds
      BY <1>0, PlainCommands
    <2>2. SetLevel(u, a.type, a.level) \in Seq(Cmds) /\ AddFilters(u, a) \in Seq(Cmds)
      BY <1>0, SetLevelDoes, AddFiltersDoes
    <2>3. QED
      BY <2>1, <2>2
  <1>3. e \in Seq(Cmds) /\ Len(e) = 1 /\ e[Len(e)] = <<"trigger", a.type>>
    BY <1>0, PlainCommands
  <1>4. CreateDone(q, u, a)
    BY CreateDoes
  <1> HIDE DEF b, e, q
  <1>5. ASSUME NEW i \in 1 .. Len(q), NEW t \in Types, OfTerms(q[i], t)
        PROVE  t = a.type
    <2>1. q \in Seq(Cmds)
      BY <1>4 DEF CreateDone
    <2>2. PICK k \in Kinds, w \in Terms : ~Quiet(q, Item(<<"terms", t, k, w>>))
      BY <2>1, <1>5, TermsTouched
    <2>3. Wants(a, t, w, k)
      BY <1>4, <2>2 DEF CreateDone
    <2>4. QED
      BY <2>3 DEF Wants
  <1>6. Len(e) > 0 /\ e[Len(e)] = <<"trigger", a.type>>
    BY <1>3
  <1>7. QED
    BY <1>0, <1>1, <1>2, <1>3, <1>5, <1>6, NoteIsLast DEF q

LEMMA DeleteTold ==
  ASSUME NEW u \in Uuids, NEW old, Whole(old)
  PROVE  Told(Delete(u, old))
  <1>0. old.type \in Types /\ old.tracked \in Terms /\ old.level \in Levels
    BY DEF Whole
  <1> DEFINE f == [k \in Kinds |-> <<Srem(<<"terms", old.type, k, old.tracked>>),
                                     Srem(<<"uuids", old.type, old.tracked, u, k>>)>>]
             b == <<<<"objs", u>>>> \o Each(f)
             e == <<Srem(<<"level", old.level, u>>), Srem(<<"levelOf", old.level, old.type, u>>),
                    Srem(<<"tracked", old.type, old.tracked>>), Srem(<<"uuid", old.type, old.tracked, u>>),
                    Srem(<<"all", u>>), Srem(<<"allOf", old.type, u>>), <<"del", u>>, <<"trigger", old.type>>>>
             q == Delete(u, old)
  <1>1. q = b \o e
    BY DEF Delete
  <1>2. b \in Seq(Cmds)
    <2>1. <<"objs", u>> \in Cmds
      BY DEF Cmds, PlainCmds
    <2>2. Each(f) \in Seq(Cmds)
      <3>1. f \in [Kinds -> Cmds \X Cmds]
        BY <1>0, PlainCommands
      <3>2. IsFiniteSet(Kinds)
        BY TrackersAssumption
      <3> HIDE DEF f
      <3>3. OfLoop(Each(f), Kinds, Cmds, f)
        BY <3>1, <3>2, LoopPlaces
      <3>4. QED
        BY <3>3 DEF OfLoop
    <2> HIDE DEF f
    <2>3. QED
      BY <2>1, <2>2
  <1>3. e \in Seq(Cmds) /\ Len(e) = 8 /\ e[8] = <<"trigger", old.type>>
    <2>1. /\ Srem(<<"level", old.level, u>>) \in Cmds /\ Srem(<<"levelOf", old.level, old.type, u>>) \in Cmds
          /\ Srem(<<"tracked", old.type, old.tracked>>) \in Cmds
          /\ Srem(<<"uuid", old.type, old.tracked, u>>) \in Cmds
          /\ Srem(<<"all", u>>) \in Cmds /\ Srem(<<"allOf", old.type, u>>) \in Cmds
      <3>1. /\ <<"level", old.level, u>> \in PlainItems /\ <<"levelOf", old.level, old.type, u>> \in PlainItems
            /\ <<"tracked", old.type, old.tracked>> \in PlainItems
            /\ <<"uuid", old.type, old.tracked, u>> \in PlainItems
            /\ <<"all", u>> \in PlainItems /\ <<"allOf", old.type, u>> \in PlainItems
        BY <1>0, PlainCommands
      <3>2. \A x \in PlainItems : Srem(x) \in Cmds
        BY PlainCommands
      <3>3. QED
        BY <3>1, <3>2
    <2>2. <<"del", u>> \in Cmds /\ <<"trigger", old.type>> \in Cmds
      BY <1>0, PlainCommands DEF Cmds, PlainCmds
    <2>3. QED
      BY <2>1, <2>2
  <1>4. DeleteDone(q, u, old)
    BY DeleteDoes
  <1> HIDE DEF b, e, q
  <1>5. ASSUME NEW i \in 1 .. Len(q), NEW t \in Types, OfTerms(q[i], t)
        PROVE  t = old.type
    <2>1. q \in Seq(Cmds)
      BY <1>4 DEF DeleteDone
    <2>2. PICK k \in Kinds, w \in Terms : ~Quiet(q, Item(<<"terms", t, k, w>>))
      BY <2>1, <1>5, TermsTouched
    <2>3. QED
      BY <1>4, <2>2 DEF DeleteDone
  <1>6. Len(e) > 0 /\ e[Len(e)] = <<"trigger", old.type>>
    BY <1>3
  <1>7. QED
    BY <1>0, <1>1, <1>2, <1>3, <1>5, <1>6, NoteIsLast DEF q

\* What a step may do to the terms of a type and to the notes about it.
NotedStep ==
    /\ Told(todo'[Flask])
    /\ mod' = mod /\ dirty \subseteq dirty' /\ overlap \subseteq overlap'
    /\ \A t \in Types : WillTell(t) => WillTell(t)' \/ t \in dirty'
    /\ \A t \in Types : TermsOf(t)' # TermsOf(t) => WillTell(t)' /\ (t \in Reading => t \in overlap')

LEMMA NotedCopies ==
  ASSUME Typed, Copies, NotedStep
  PROVE  Copies'
  <1>1. Told(todo[Flask])'
    BY DEF NotedStep
  <1>2. ASSUME NEW t \in Types, mod'[t].pc = "stamp"
        PROVE  mod'[t].copy = TermsOf(t)' \/ t \in overlap'
    BY <1>2 DEF Copies, NotedStep, Reading
  <1>3. ASSUME NEW t \in Types, mod'[t].pc \in {"idle", "look", "match"}
        PROVE  mod'[t].copy = TermsOf(t)' \/ t \in overlap' \/ t \in dirty' \/ WillTell(t)'
    BY <1>3 DEF Copies, NotedStep
  <1>4. QED
    BY <1>1, <1>2, <1>3 DEF Copies

LEMMA TermsUnlessNamed ==
  ASSUME NEW t, NEW x, ~(x[1] = "terms" /\ x[2] = t), db' \in {db \cup {x}, db \ {x}}
  PROVE  TermsOf(t)' = TermsOf(t)
  <1>1. \A k, w : <<"terms", t, k, w>> # x
    OBVIOUS
  <1>2. \A k, w : <<"terms", t, k, w>> \in db' <=> <<"terms", t, k, w>> \in db
    BY <1>1
  <1>3. QED
    BY <1>2 DEF TermsOf

LEMMA TermsOfSame ==
  ASSUME NEW t \in Types, \A z \in Guarded : Now(z)' = Now(z)
  PROVE  TermsOf(t)' = TermsOf(t)
  <1>1. ASSUME NEW k \in Kinds, NEW w \in Terms
        PROVE  <<"terms", t, k, w>> \in db' <=> <<"terms", t, k, w>> \in db
    <2>1. Item(<<"terms", t, k, w>>) \in Guarded
      BY GuardedCells
    <2>2. Now(Item(<<"terms", t, k, w>>))' = Now(Item(<<"terms", t, k, w>>))
      BY <2>1
    <2>3. QED
      BY <2>2 DEF Now, Item
  <1>2. \A x \in Kinds \X Terms : <<"terms", t, x[1], x[2]>> \in db' <=> <<"terms", t, x[1], x[2]>> \in db
    BY <1>1
  <1>3. QED
    BY <1>2 DEF TermsOf

LEMMA SendsNoted ==
  ASSUME Typed, Copies, NEW p \in Procs, Sends(p)
  PROVE  NotedStep
  <1> DEFINE c == Head(todo[p])
  <1>0. /\ todo[p] # <<>> /\ todo' = [todo EXCEPT ![p] = Tail(todo[p])] /\ mod' = mod
        /\ todo \in [Procs -> Seq(Cmds)] /\ Flask \in Procs /\ todo[Flask] \in Seq(Cmds)
    BY SendsDoes DEF Typed, Procs
  <1>1. Told(todo[Flask])
    BY DEF Copies
  <1>2. p = Flask => /\ Told(todo'[Flask])
                     /\ \A t \in Types : OfTerms(c, t) => WillTell(t)'
                     /\ \A t \in Types : WillTell(t) => WillTell(t)' \/ c = <<"trigger", t>>
    <2> SUFFICES ASSUME p = Flask
                 PROVE  /\ Told(todo'[Flask])
                        /\ \A t \in Types : OfTerms(c, t) => WillTell(t)'
                        /\ \A t \in Types : WillTell(t) => WillTell(t)' \/ c = <<"trigger", t>>
      OBVIOUS
    <2>1. todo'[Flask] = Tail(todo[Flask])
      BY <1>0
    <2>2. /\ Told(Tail(todo[Flask]))
          /\ \A t \in Types : OfTerms(Head(todo[Flask]), t) => Tells(Tail(todo[Flask]), t)
          /\ \A t : Tells(todo[Flask], t) =>
               Head(todo[Flask]) = <<"trigger", t>> \/ Tells(Tail(todo[Flask]), t)
      BY <1>0, <1>1, NotesOfTheRest
    <2>3. \A t : WillTell(t) <=> Tells(todo[Flask], t)
      BY DEF WillTell, Tells
    <2>4. \A t : WillTell(t)' <=> Tells(Tail(todo[Flask]), t)
      BY <2>1 DEF WillTell, Tells
    <2>5. QED
      BY <2>1, <2>2, <2>3, <2>4
  <1>3. p # Flask => /\ todo'[Flask] = todo[Flask]
                     /\ \A t \in Types : ~OfTerms(c, t)
    <2>1. p # Flask => c \in MatchCmds
      BY <1>0, NextCommand
    <2>2. QED
      BY <1>0, <2>1, NoTermsInMatches
  <1>4. p # Flask => \A t : WillTell(t)' <=> WillTell(t)
    BY <1>3 DEF WillTell
  <1>5. Told(todo'[Flask])
    BY <1>1, <1>2, <1>3
  <1>6. \A t \in Types : OfTerms(c, t) => WillTell(t)'
    BY <1>2, <1>3
  <1>7. \A t \in Types : WillTell(t) => WillTell(t)' \/ c = <<"trigger", t>>
    BY <1>2, <1>4
  <1>8. \A t \in Types : c = <<"trigger", t>> => t \in dirty'
    <2> TAKE t \in Types
    <2> HAVE c = <<"trigger", t>>
    <2>1. c[1] = "trigger" /\ c[2] = t
      OBVIOUS
    <2>2. Trigger(p)
      BY <2>1 DEF Sends, SaddSrem, HsetField, DelHash, Runs
    <2>3. QED
      BY <2>1, <2>2 DEF Trigger, Arg
  <1>9. dirty \subseteq dirty' /\ overlap \subseteq overlap'
    <2>1. dirty \subseteq dirty'
      BY DEF Sends, SaddSrem, HsetField, DelHash, Trigger
    <2>2. CASE SaddSrem(p)
      BY <2>2 DEF SaddSrem
    <2>3. CASE ~SaddSrem(p)
      BY <2>3 DEF Sends, HsetField, DelHash, Trigger, histories
    <2>4. QED
      BY <2>1, <2>2, <2>3
  <1>10. ASSUME NEW t \in Types, TermsOf(t)' # TermsOf(t)
         PROVE  OfTerms(c, t) /\ (t \in Reading => t \in overlap')
    <2>1. db' # db
      BY <1>10 DEF TermsOf
    <2>2. SaddSrem(p)
      BY <2>1 DEF Sends, HsetField, DelHash, Trigger
    <2>3. /\ c[1] \in {"sadd", "srem"}
          /\ db' = IF c[1] = "sadd" THEN db \cup {c[2]} ELSE db \ {c[2]}
          /\ overlap' = IF c[2][1] = "terms" /\ c[2][2] \in Reading /\ db' # db
                        THEN overlap \cup {c[2][2]} ELSE overlap
      BY <2>2 DEF SaddSrem, Runs, Arg
    <2>4. c[2][1] = "terms" /\ c[2][2] = t
      <3>1. db' \in {db \cup {c[2]}, db \ {c[2]}}
        BY <2>3
      <3> HIDE DEF c
      <3>2. QED
        BY <3>1, <1>10, TermsUnlessNamed
    <2>5. QED
      BY <2>1, <2>3, <2>4 DEF OfTerms
  <1>11. QED
    BY <1>0, <1>5, <1>6, <1>7, <1>8, <1>9, <1>10 DEF NotedStep

LEMMA ExpandsNoted ==
  ASSUME Typed, Copies, NEW p \in Procs, Expands(p)
  PROVE  NotedStep
  <1>0. /\ todo \in [Procs -> Seq(Cmds)] /\ Flask \in Procs /\ todo[Flask] \in Seq(Cmds) /\ Told(todo[Flask])
    BY DEF Typed, Procs, Copies
  <1>1. /\ todo[p] # <<>> /\ \A z \in Guarded : Now(z)' = Now(z)
        /\ UNCHANGED <<dirty, mod, overlap>>
    BY ExpandsDoes
  <1>2. PICK q \in Seq(MatchCmds) : todo' = [todo EXCEPT ![p] = q \o Tail(todo[p])]
    BY ExpandsDoes
  <1>3. \A t \in Types : TermsOf(t)' = TermsOf(t)
    BY <1>1, TermsOfSame
  <1>4. Told(todo'[Flask]) /\ \A t : WillTell(t) => WillTell(t)'
    <2>1. CASE p # Flask
      <3>1. todo'[Flask] = todo[Flask]
        BY <1>0, <1>2, <2>1
      <3>2. QED
        BY <1>0, <3>1 DEF WillTell
    <2>2. CASE p = Flask
      <3> DEFINE r == Tail(todo[Flask])
      <3>1. /\ Told(r)
            /\ \A t : Tells(todo[Flask], t) => Head(todo[Flask]) = <<"trigger", t>> \/ Tells(r, t)
        BY <1>0, <1>1, <2>2, NotesOfTheRest
      <3>2. Head(todo[Flask])[1] # "trigger"
        BY <2>2 DEF Expands, AddMatch, RemoveMatch, ReadMatches, UpdateRange, Runs
      <3>3. r \in Seq(Cmds) /\ todo'[Flask] = q \o r
        BY <1>0, <1>1, <1>2, <2>2, NextCommand
      <3>4. Told(q \o r) /\ \A t : Tells(r, t) => Tells(q \o r, t)
        BY <3>1, <3>3, NotesAfterMatches
      <3>5. \A t : Tells(todo[Flask], t) => Tells(r, t)
        BY <3>1, <3>2
      <3> HIDE DEF r
      <3>6. /\ \A t : WillTell(t) <=> Tells(todo[Flask], t)
            /\ \A t : WillTell(t)' <=> Tells(q \o r, t)
        BY <3>3 DEF WillTell, Tells
      <3>7. QED
        BY <3>3, <3>4, <3>5, <3>6
    <2>3. QED
      BY <2>1, <2>2
  <1>5. QED
    BY <1>1, <1>3, <1>4 DEF NotedStep

LEMMA StartCopies ==
  ASSUME Typed, Copies, NEW q \in Seq(Cmds), Told(q), Request(q)
  PROVE  Copies'
  <1>1. /\ todo[Flask] = <<>> /\ todo' = [todo EXCEPT ![Flask] = q]
        /\ UNCHANGED <<db, dirty, mod, overlap>> /\ Flask \in DOMAIN todo
    BY DEF Request, Typed, Procs
  <1>2. todo'[Flask] = q
    BY <1>1
  <1>3. \A t : ~WillTell(t)
    BY <1>1 DEF WillTell
  <1>4. \A t : TermsOf(t)' = TermsOf(t)
    BY <1>1 DEF TermsOf
  <1>5. NotedStep
    BY <1>1, <1>2, <1>3, <1>4 DEF NotedStep
  <1>6. QED
    BY <1>5, NotedCopies

LEMMA UserCopies ==
  ASSUME Typed, Books, Copies, User
  PROVE  Copies'
  <1>1. PICK u \in Uuids : \/ \E a \in Asks : ApiAdd(u, a) \/ ApiEdit(u, a)
                           \/ ApiDelete(u)
                           \/ \E o \in Objs : ApiRemoveObject(u, o) \/ \E d \in Days : ApiAddObject(u, o, d)
    BY DEF User
  <1>2. Rest
    BY <1>1 DEF ApiAdd, ApiEdit, ApiDelete, ApiAddObject, ApiRemoveObject, Request, Rest
  <1>3. ASSUME NEW a \in Asks, ApiAdd(u, a)
        PROVE  \E q \in Seq(Cmds) : Told(q) /\ Request(q)
    <2>1. CreateDone(Create(u, a), u, a) /\ Request(Create(u, a)) /\ Told(Create(u, a))
      BY <1>3, CreateDoes, CreateTold DEF ApiAdd
    <2>2. QED
      BY <2>1 DEF CreateDone
  <1>4. ASSUME NEW a \in Asks, ApiEdit(u, a)
        PROVE  \E q \in Seq(Cmds) : Told(q) /\ Request(q)
    <2>1. u \in All /\ Request(Edit(u, a, hash[u]))
      BY <1>4 DEF ApiEdit
    <2>2. Whole(hash[u])
      BY <1>2, <2>1, AtRest
    <2>3. EditDone(Edit(u, a, hash[u]), u, a, hash[u]) /\ Told(Edit(u, a, hash[u]))
      BY <2>2, EditDoes, EditTold
    <2>4. QED
      BY <2>1, <2>3 DEF EditDone
  <1>5. ASSUME ApiDelete(u)
        PROVE  \E q \in Seq(Cmds) : Told(q) /\ Request(q)
    <2>1. u \in All /\ Request(Delete(u, hash[u]))
      BY <1>5 DEF ApiDelete
    <2>2. Whole(hash[u])
      BY <1>2, <2>1, AtRest
    <2>3. DeleteDone(Delete(u, hash[u]), u, hash[u]) /\ Told(Delete(u, hash[u]))
      BY <2>2, DeleteDoes, DeleteTold
    <2>4. QED
      BY <2>1, <2>3 DEF DeleteDone
  <1>6. ASSUME NEW c \in MatchCmds, Request(<<c>>)
        PROVE  \E q \in Seq(Cmds) : Told(q) /\ Request(q)
    <2>1. <<c>> \in Seq(Cmds)
      BY DEF Cmds
    <2>2. Told(<<c>>)
      BY NoTermsInMatches DEF Told
    <2>3. QED
      BY <1>6, <2>1, <2>2
  <1>7. \E q \in Seq(Cmds) : Told(q) /\ Request(q)
    BY <1>1, <1>3, <1>4, <1>5, <1>6, MatchRequest
  <1>8. QED
    BY <1>7, StartCopies

LEMMA WorksCopies ==
  ASSUME Typed, Copies, NEW t \in Types, Works(t)
  PROVE  Copies'
  <1>0. /\ mod \in [Types -> Mods] /\ mod[t] \in Mods /\ db' = db /\ todo'[Flask] = todo[Flask]
    BY WorksSame DEF Typed
  <1>1. Told(todo[Flask])' /\ (\A s : TermsOf(s)' = TermsOf(s)) /\ \A s : WillTell(s)' <=> WillTell(s)
    BY <1>0 DEF Copies, TermsOf, WillTell
  <1>2. /\ \A s \in Types \ {t} : mod'[s] = mod[s]
        /\ \A s \in Types \ {t} : s \in dirty' <=> s \in dirty
        /\ \A s \in Types \ {t} : s \in overlap' <=> s \in overlap
    BY <1>0 DEF Works, Take, ReadTerms, Stamp, Look, Found, Match, GivesUp, Becomes, histories
  <1>3. /\ mod'[t].pc = "stamp" => mod'[t].copy = TermsOf(t) \/ t \in overlap'
        /\ mod'[t].pc \in {"idle", "look", "match"} =>
             mod'[t].copy = TermsOf(t) \/ t \in overlap' \/ t \in dirty' \/ WillTell(t)
    <2>0. /\ mod[t].pc = "stamp" => mod[t].copy = TermsOf(t) \/ t \in overlap
          /\ mod[t].pc \in {"idle", "look", "match"} =>
               mod[t].copy = TermsOf(t) \/ t \in overlap \/ t \in dirty \/ WillTell(t)
      BY DEF Copies
    <2>1. CASE Take(t)
      <3>1. /\ mod[t].pc = "idle" /\ mod'[t].pc \in {"read", "look"} /\ mod'[t].copy = mod[t].copy
            /\ dirty' = dirty /\ overlap' = overlap
        BY <1>0, <2>1 DEF Take, At, Becomes, Mods, histories
      <3>2. QED
        BY <2>0, <3>1
    <2>2. CASE ReadTerms(t)
      <3>1. mod'[t].pc = "stamp" /\ mod'[t].copy = TermsOf(t)
        BY <1>0, <2>2 DEF ReadTerms, Becomes, Mods
      <3>2. QED
        BY <3>1
    <2>3. CASE Stamp(t)
      <3>1. mod[t].pc = "stamp" /\ mod'[t].pc = "look" /\ mod'[t].copy = mod[t].copy /\ overlap' = overlap
        BY <1>0, <2>3 DEF Stamp, At, Becomes, Mods, histories
      <3>2. QED
        BY <2>0, <3>1
    <2>4. CASE Look(t) \/ Found(t) \/ Match(t)
      <3>1. mod[t].pc \in {"look", "match"} /\ dirty' = dirty /\ overlap' = overlap
        BY <2>4 DEF Look, Found, Match, At, histories
      <3>2. mod'[t].pc \in {"idle", "match"} /\ mod'[t].copy = mod[t].copy
        <4>1. CASE Look(t)
          BY <1>0, <4>1 DEF Look, Becomes, Mods
        <4>2. CASE Found(t)
          <5>1. CASE mod[t].terms = {}
            <6>1. mod' = [mod EXCEPT ![t] = [Idle EXCEPT !.copy = mod[t].copy]]
              BY <4>2, <5>1 DEF Found, Becomes
            <6>2. [Idle EXCEPT !.copy = mod[t].copy].pc = "idle"
                  /\ [Idle EXCEPT !.copy = mod[t].copy].copy = mod[t].copy
              BY DEF Idle
            <6>3. QED
              BY <1>0, <6>1, <6>2
          <5>2. CASE mod[t].terms # {}
            <6>1. PICK x, y : mod' = [mod EXCEPT ![t] = [mod[t] EXCEPT !.terms = x, !.found = y]]
              BY <4>2, <5>2 DEF Found, Becomes
            <6>2. mod[t].pc = "match"
              BY <4>2 DEF Found, At
            <6>3. QED
              BY <1>0, <6>1, <6>2 DEF Mods
          <5>3. QED
            BY <5>1, <5>2
        <4>3. CASE Match(t)
          BY <1>0, <4>3 DEF Match, At, Becomes, Mods
        <4>4. QED
          BY <2>4, <4>1, <4>2, <4>3
      <3>3. QED
        BY <2>0, <3>1, <3>2
    <2>5. CASE GivesUp(t)
      <3>1. /\ mod' = [mod EXCEPT ![t] = [mod[t] EXCEPT !.terms = {}, !.found = {}]]
            /\ dirty' = dirty /\ overlap' = overlap
        BY <2>5 DEF GivesUp, Becomes, histories
      <3>2. mod'[t].pc = mod[t].pc /\ mod'[t].copy = mod[t].copy
        BY <1>0, <3>1 DEF Mods
      <3>3. QED
        BY <2>0, <3>1, <3>2
    <2>6. QED
      BY <2>1, <2>2, <2>3, <2>4, <2>5 DEF Works
  <1>4. ASSUME NEW s \in Types
        PROVE  /\ mod'[s].pc = "stamp" => mod'[s].copy = TermsOf(s)' \/ s \in overlap'
               /\ mod'[s].pc \in {"idle", "look", "match"} =>
                    mod'[s].copy = TermsOf(s)' \/ s \in overlap' \/ s \in dirty' \/ WillTell(s)'
    <2>1. CASE s = t
      BY <2>1, <1>1, <1>3
    <2>2. CASE s # t
      BY <2>2, <1>1, <1>2 DEF Copies
    <2>3. QED
      BY <2>1, <2>2
  <1>5. QED
    BY <1>1, <1>4 DEF Copies

LEMMA StepCopies == Typed /\ Books /\ Copies /\ [Next]_vars => Copies'
  <1> SUFFICES ASSUME Typed, Books, Copies, [Next]_vars
               PROVE  Copies'
    OBVIOUS
  <1>1. CASE UNCHANGED vars
    BY <1>1 DEF vars, Copies, TermsOf, WillTell
  <1>2. CASE User
    BY <1>2, UserCopies
  <1>3. CASE \E p \in Procs : Command(p)
    BY <1>3, SendsNoted, ExpandsNoted, NotedCopies DEF Command, Sends, Expands
  <1>4. CASE \E t \in Types : Works(t)
    BY <1>4, WorksCopies
  <1>5. QED
    BY <1>1, <1>2, <1>3, <1>4, Steps

LEMMA InitCopies == Init => Copies
  <1> SUFFICES ASSUME Init
               PROVE  Copies
    OBVIOUS
  <1>1. todo[Flask] = <<>> /\ \A t \in Types : mod[t].pc = "idle" /\ mod[t].copy = {}
    BY DEF Init, Procs, Idle
  <1>2. \A t : TermsOf(t) = {}
    BY DEF Init, TermsOf
  <1>3. Told(<<>>)
    BY DEF Told
  <1>4. QED
    BY <1>1, <1>2, <1>3 DEF Copies

\* A module whose copy is stale reads the terms again before its next object, unless they
\* changed between its reading and its note of the time.
THEOREM CopiesCorrect == Spec => []CopyFresh
<1>1. Init => Typed /\ Books /\ Copies
  BY InitBooks, InitCopies
<1>2. Typed /\ Books /\ [Next]_vars => Typed' /\ Books'
  BY StepTyped, StepBooks
<1>3. Typed /\ Books /\ Copies /\ [Next]_vars => Copies'
  BY StepCopies
<1>4. Copies => CopyFresh
  BY DEF Copies, CopyFresh, Rest, WillTell
<1> QED
  BY <1>1, <1>2, <1>3, <1>4, PTL DEF Spec

----------------------------------------------------------------------------
(***************************************************************************)
(* The turns of the matches: lists.                                        *)
(***************************************************************************)
NoBegins(q) == \A i \in 1 .. Len(q) : ~Begins(q[i])

LEMMA ItemsOnly ==
  ASSUME NEW c, c[1] \notin {"sadd", "srem"}
  PROVE  \A x : ~Touches(c, Item(x))
  BY CellsDiffer DEF Touches

\* A list whose commands are not about the members of sets.
LEMMA StillList ==
  ASSUME NEW q, \A i \in 1 .. Len(q) : q[i][1] \notin {"sadd", "srem"}
  PROVE  Still(q) /\ InTurn(q) /\ DateLinked(q)
  <1>1. \A i \in 1 .. Len(q) : \A x : ~Touches(q[i], Item(x))
    BY ItemsOnly
  <1>2. Still(q)
    BY <1>1 DEF Still, Quiet
  <1>3. InTurn(q)
    <2>1. CASE Len(q) \in Nat
      BY <1>1, <2>1 DEF InTurn
    <2>2. QED
      BY <2>1
  <1>4. DateLinked(q)
    BY <1>1 DEF DateLinked
  <1>5. QED
    BY <1>2, <1>3, <1>4

\* A list that touches no cell of a match.
LEMMA StillTurns ==
  ASSUME NEW S, NEW q \in Seq(S), Still(q)
  PROVE  InTurn(q) /\ DateLinked(q)
  <1>0. Len(q) \in Nat
    OBVIOUS
  <1>1. \A i \in 1 .. Len(q), x \in MatchItems : ~Touches(q[i], Item(x))
    BY DEF Still, Quiet
  <1>2. \A i \in 1 .. Len(q) : \A j \in (i + 1) .. Len(q) : j \in 1 .. Len(q)
    BY <1>0
  <1>3. InTurn(q)
    BY <1>1, <1>2 DEF InTurn
  <1>4. \A u \in Uuids, o \in Objs, d \in Days : <<"date", u, d, o>> \in MatchItems
    BY MatchCommands
  <1>5. DateLinked(q)
    BY <1>1, <1>4 DEF DateLinked
  <1>6. QED
    BY <1>3, <1>5

LEMMA TurnsOfTheRest ==
  ASSUME NEW S, NEW q \in Seq(S), q # <<>>, InTurn(q), DateLinked(q)
  PROVE  /\ InTurn(Tail(q)) /\ DateLinked(Tail(q))
         /\ Begins(Head(q)) => Still(Tail(q))
  <1> DEFINE r == Tail(q)
  <1>0. /\ Len(q) \in Nat /\ Len(q) >= 1 /\ Len(r) = Len(q) - 1 /\ Head(q) = q[1]
        /\ \A i \in 1 .. Len(r) : r[i] = q[i + 1] /\ i + 1 \in 1 .. Len(q)
    OBVIOUS
  <1>1. \A j \in 2 .. Len(q) : j - 1 \in 1 .. Len(r) /\ r[j - 1] = q[j]
    <2> TAKE j \in 2 .. Len(q)
    <2>1. j - 1 \in 1 .. Len(r) /\ (j - 1) + 1 = j
      BY <1>0
    <2>2. QED
      BY <2>1, <1>0
  <1> HIDE DEF r
  <1>2. InTurn(r)
    <2>1. ASSUME NEW i \in 1 .. Len(r), Begins(r[i]), NEW j \in (i + 1) .. Len(r), NEW x \in MatchItems
          PROVE  ~Touches(r[j], Item(x))
      <3>1. i + 1 \in 1 .. Len(q) /\ Begins(q[i + 1])
        BY <2>1, <1>0
      <3>2. j + 1 \in (i + 1 + 1) .. Len(q) /\ j \in 1 .. Len(r)
        BY <1>0
      <3>3. ~Touches(q[j + 1], Item(x))
        BY <3>1, <3>2 DEF InTurn
      <3>4. QED
        BY <3>2, <3>3, <1>0
    <2>2. QED
      BY <2>1 DEF InTurn
  <1>3. DateLinked(r)
    <2>1. ASSUME NEW i \in 1 .. Len(r), NEW u \in Uuids, NEW o \in Objs, NEW d \in Days,
                 Touches(r[i], Item(<<"date", u, d, o>>))
          PROVE  \E j \in (i + 1) .. Len(r) : Touches(r[j], Item(<<"of", o, u>>))
      <3>1. i + 1 \in 1 .. Len(q) /\ Touches(q[i + 1], Item(<<"date", u, d, o>>))
        BY <2>1, <1>0
      <3>2. PICK j \in (i + 1 + 1) .. Len(q) : Touches(q[j], Item(<<"of", o, u>>))
        BY <3>1 DEF DateLinked
      <3>3. j - 1 \in (i + 1) .. Len(r) /\ j \in 2 .. Len(q)
        BY <1>0
      <3>4. QED
        BY <3>2, <3>3, <1>1
    <2>2. QED
      BY <2>1 DEF DateLinked
  <1>4. ASSUME Begins(Head(q))
        PROVE  Still(r)
    <2>1. 1 \in 1 .. Len(q) /\ Begins(q[1])
      BY <1>0, <1>4
    <2>2. \A j \in (1 + 1) .. Len(q), x \in MatchItems : ~Touches(q[j], Item(x))
      BY <2>1 DEF InTurn
    <2>3. \A i \in 1 .. Len(r) : i + 1 \in (1 + 1) .. Len(q) /\ r[i] = q[i + 1]
      BY <1>0
    <2>4. QED
      BY <2>2, <2>3 DEF Still, Quiet
  <1>5. QED
    BY <1>2, <1>3, <1>4 DEF r

LEMMA TurnsJoined ==
  ASSUME NEW S, NEW p \in Seq(S), NEW q \in Seq(S),
         InTurn(p), DateLinked(p), InTurn(q), DateLinked(q), NoBegins(p) \/ Still(q)
  PROVE  InTurn(p \o q) /\ DateLinked(p \o q)
  <1> DEFINE r == p \o q
  <1>0. /\ Len(r) = Len(p) + Len(q)
        /\ Len(p) \in Nat /\ Len(q) \in Nat
        /\ \A i \in 1 .. Len(p) : r[i] = p[i]
        /\ \A i \in 1 .. Len(q) : r[Len(p) + i] = q[i]
    OBVIOUS
  <1> HIDE DEF r
  <1>1. \A i \in 1 .. Len(r) : i \in 1 .. Len(p) \/ (i - Len(p) \in 1 .. Len(q) /\ r[i] = q[i - Len(p)])
    <2> TAKE i \in 1 .. Len(r)
    <2>1. CASE i > Len(p)
      <3> DEFINE k == i - Len(p)
      <3>1. k \in 1 .. Len(q) /\ i = Len(p) + k
        BY <2>1, <1>0
      <3>2. r[Len(p) + k] = q[k]
        BY <3>1, <1>0
      <3> HIDE DEF k
      <3>3. r[i] = q[k]
        BY <3>1, <3>2
      <3>4. QED
        BY <3>1, <3>3 DEF k
    <2>2. CASE ~(i > Len(p))
      <3>1. i \in Nat /\ 1 <= i /\ i <= Len(p)
        BY <2>2, <1>0
      <3>2. QED
        BY <3>1, <1>0
    <2>3. QED
      BY <2>1, <2>2
  <1>2. ASSUME NEW i \in 1 .. Len(r), Begins(r[i]), NEW j \in (i + 1) .. Len(r), NEW x \in MatchItems
        PROVE  ~Touches(r[j], Item(x))
    <2>0. j \in 1 .. Len(r)
      BY <1>0
    <2>1. CASE j \in 1 .. Len(p)
      <3>1. i \in 1 .. Len(p) /\ j \in (i + 1) .. Len(p) /\ r[i] = p[i] /\ r[j] = p[j]
        BY <2>1, <1>0
      <3>2. QED
        BY <3>1, <1>2 DEF InTurn
    <2>2. CASE j \notin 1 .. Len(p)
      <3>1. j - Len(p) \in 1 .. Len(q) /\ r[j] = q[j - Len(p)]
        BY <2>0, <2>2, <1>1
      <3>2. CASE Still(q)
        BY <3>1, <3>2 DEF Still, Quiet
      <3>3. CASE ~Still(q)
        <4>1. i \notin 1 .. Len(p)
          BY <1>0, <1>2, <3>3 DEF NoBegins
        <4>2. i - Len(p) \in 1 .. Len(q) /\ Begins(q[i - Len(p)])
          BY <4>1, <1>1, <1>2
        <4>3. j - Len(p) \in ((i - Len(p)) + 1) .. Len(q)
          BY <3>1, <1>0
        <4>4. QED
          BY <3>1, <4>2, <4>3 DEF InTurn
      <3>4. QED
        BY <3>2, <3>3
    <2>3. QED
      BY <2>1, <2>2
  <1>3. ASSUME NEW i \in 1 .. Len(r), NEW u \in Uuids, NEW o \in Objs, NEW d \in Days,
               Touches(r[i], Item(<<"date", u, d, o>>))
        PROVE  \E j \in (i + 1) .. Len(r) : Touches(r[j], Item(<<"of", o, u>>))
    <2>1. CASE i \in 1 .. Len(p)
      <3>1. PICK j \in (i + 1) .. Len(p) : Touches(p[j], Item(<<"of", o, u>>))
        BY <1>0, <1>3, <2>1 DEF DateLinked
      <3>2. j \in (i + 1) .. Len(r) /\ r[j] = p[j]
        BY <1>0, <2>1
      <3>3. QED
        BY <3>1, <3>2
    <2>2. CASE i \notin 1 .. Len(p)
      <3> DEFINE k == i - Len(p)
      <3>1. k \in 1 .. Len(q) /\ r[i] = q[k]
        BY <2>2, <1>1
      <3>2. PICK j \in (k + 1) .. Len(q) : Touches(q[j], Item(<<"of", o, u>>))
        BY <3>1, <1>3 DEF DateLinked
      <3>3. Len(p) + j \in (i + 1) .. Len(r) /\ j \in 1 .. Len(q)
        BY <3>1, <1>0
      <3>4. QED
        BY <3>2, <3>3, <1>0
    <2>3. QED
      BY <2>1, <2>2
  <1>4. InTurn(r)
    BY <1>2 DEF InTurn
  <1>5. DateLinked(r)
    BY <1>3 DEF DateLinked
  <1>6. QED
    BY <1>4, <1>5 DEF r

\* A list with a still one after it leaves in the cells of the matches what it leaves alone.
LEMMA StillAfter ==
  ASSUME NEW S, NEW p \in Seq(S), NEW q \in Seq(S), Still(q), NEW x \in MatchItems, NEW v
  PROVE  /\ Quiet(p \o q, Item(x)) <=> Quiet(p, Item(x))
         /\ Gives(p \o q, Item(x), v) <=> Gives(p, Item(x), v)
  <1>1. Quiet(q, Item(x))
    BY DEF Still
  <1>2. ~Gives(q, Item(x), v)
    BY <1>1, LeavesOne
  <1>3. QED
    BY <1>1, <1>2, JoinedLists

LEMMA StillBefore ==
  ASSUME NEW S, NEW p \in Seq(S), NEW q \in Seq(S), Still(p), NEW x \in MatchItems, NEW v
  PROVE  /\ Quiet(p \o q, Item(x)) <=> Quiet(q, Item(x))
         /\ Gives(p \o q, Item(x), v) <=> Gives(q, Item(x), v)
  <1>1. Quiet(p, Item(x))
    BY DEF Still
  <1>2. ~Gives(p, Item(x), v)
    BY <1>1, LeavesOne
  <1>3. QED
    BY <1>1, <1>2, JoinedLists

LEMMA NoBeginsJoined ==
  ASSUME NEW S, NEW p \in Seq(S), NEW q \in Seq(S), NoBegins(p), NoBegins(q)
  PROVE  NoBegins(p \o q)
  <1>0. /\ Len(p \o q) = Len(p) + Len(q)
        /\ Len(p) \in Nat /\ Len(q) \in Nat
        /\ \A i \in 1 .. Len(p) : (p \o q)[i] = p[i]
        /\ \A i \in 1 .. Len(q) : (p \o q)[Len(p) + i] = q[i]
    OBVIOUS
  <1> DEFINE r == p \o q
  <1> HIDE DEF r
  <1>1. ASSUME NEW i \in 1 .. Len(r)
        PROVE  ~Begins(r[i])
    <2>1. CASE i <= Len(p)
      <3>1. i \in 1 .. Len(p) /\ r[i] = p[i]
        BY <2>1, <1>0 DEF r
      <3>2. QED
        BY <3>1 DEF NoBegins
    <2>2. CASE ~(i <= Len(p))
      <3> DEFINE k == i - Len(p)
      <3>1. k \in 1 .. Len(q) /\ i = Len(p) + k
        BY <2>2, <1>0 DEF r
      <3>2. r[Len(p) + k] = q[k]
        BY <3>1, <1>0 DEF r
      <3> HIDE DEF k
      <3>3. r[i] = q[k]
        BY <3>1, <3>2
      <3>4. QED
        BY <3>1, <3>3 DEF NoBegins
    <2>3. QED
      BY <2>1, <2>2
  <1>2. QED
    BY <1>1 DEF NoBegins, r

\* What an addition puts in, and what a removal takes out.
Puts(q, u, o, d) ==
    /\ \A x \in {<<"of", o, u>>, <<"dates", o, u, d>>, <<"type", u, o>>} : Gives(q, Item(x), "in")
    /\ \A x \in MatchItems \ {<<"of", o, u>>, <<"dates", o, u, d>>, <<"type", u, o>>} : Quiet(q, Item(x))

Clears(q, u, o, D) ==
    /\ Gives(q, Item(<<"of", o, u>>), "out") /\ Gives(q, Item(<<"type", u, o>>), "out")
    /\ \A d \in D : /\ Gives(q, Item(<<"date", u, d, o>>), "out")
                    /\ Gives(q, Item(<<"dates", o, u, d>>), "out")
    /\ \A x \in MatchItems : \/ x = <<"of", o, u>> \/ x = <<"type", u, o>>
                             \/ \E d \in D : x = <<"date", u, d, o>> \/ x = <<"dates", o, u, d>>
                             \/ Quiet(q, Item(x))

Turns(q) == NoBegins(q) /\ InTurn(q) /\ DateLinked(q)

LEMMA AddRestDoes ==
  ASSUME NEW u \in Uuids, NEW o \in Objs, NEW d \in Days, NEW b \in BOOLEAN
  PROVE  LET q == AddRest(u, o, d, b) IN Turns(q) /\ Puts(q, u, o, d)
  <1> DEFINE x1 == <<"of", o, u>>
             x2 == <<"dates", o, u, d>>
             x3 == <<"type", u, o>>
             c1 == Sadd(x1)
             c2 == Sadd(x2)
             c3 == Sadd(x3)
             c4 == <<"seen", u, d>>
             p == <<c1, c2, c3>>
             w == IF b THEN <<c4>> ELSE <<>>
  <1>1. AddRest(u, o, d, b) = p \o w
    BY DEF AddRest
  <1>2. /\ \A z : Touches(c1, z) <=> z = Item(x1)
        /\ \A z : Touches(c2, z) <=> z = Item(x2)
        /\ \A z : Touches(c3, z) <=> z = Item(x3)
        /\ Leaves(c1) = "in" /\ Leaves(c2) = "in" /\ Leaves(c3) = "in"
    BY CommandsTouch, CommandsLeave
  <1>3. ~Begins(c1) /\ ~Begins(c2) /\ ~Begins(c3) /\ ~Begins(c4) /\ c4[1] \notin {"sadd", "srem"}
    BY DEF Begins, Sadd
  <1>4. c1 \in MatchCmds /\ c2 \in MatchCmds /\ c3 \in MatchCmds /\ c4 \in MatchCmds
    <2>1. x1 \in MatchItems /\ x2 \in MatchItems /\ x3 \in MatchItems
      BY MatchCommands
    <2>2. c1 \in MatchCmds /\ c2 \in MatchCmds /\ c3 \in MatchCmds
      BY <2>1, MatchCommands
    <2>3. QED
      BY <2>2, MatchCommands
  <1>5. /\ Item(x1) # Item(x2) /\ Item(x1) # Item(x3) /\ Item(x2) # Item(x3)
    BY CellsDiffer
  <1>6. \A v, r, e : x1 # <<"date", v, e, r>> /\ x2 # <<"date", v, e, r>> /\ x3 # <<"date", v, e, r>>
    OBVIOUS
  <1> HIDE DEF c1, c2, c3, c4, x1, x2, x3
  <1>7. /\ p \in Seq(MatchCmds) /\ w \in Seq(MatchCmds)
        /\ Len(p) = 3 /\ p[1] = c1 /\ p[2] = c2 /\ p[3] = c3
    BY <1>4
  <1>8. \A i \in 1 .. Len(w) : w[i] = c4
    OBVIOUS
  <1> HIDE DEF p, w
  <1>9. \A i \in 1 .. Len(p) : p[i] = c1 \/ p[i] = c2 \/ p[i] = c3
    BY <1>7
  <1>10. NoBegins(p) /\ NoBegins(w)
    BY <1>3, <1>8, <1>9 DEF NoBegins
  <1>11. InTurn(p)
    BY <1>10 DEF InTurn, NoBegins
  <1>12. DateLinked(p)
    <2>1. \A v, r, e : Item(<<"date", v, e, r>>) # Item(x1) /\ Item(<<"date", v, e, r>>) # Item(x2)
                       /\ Item(<<"date", v, e, r>>) # Item(x3)
      BY <1>6, CellsDiffer
    <2>2. QED
      BY <2>1, <1>2, <1>9 DEF DateLinked
  <1>13. Still(w) /\ InTurn(w) /\ DateLinked(w)
    BY <1>3, <1>8, StillList
  <1>14. /\ \A x : Quiet(p, Item(x)) <=> x \notin {x1, x2, x3}
         /\ Gives(p, Item(x1), "in") /\ Gives(p, Item(x2), "in") /\ Gives(p, Item(x3), "in")
    <2>1. \A x : Quiet(p, Item(x)) <=> x \notin {x1, x2, x3}
      BY <1>2, <1>7, CellsDiffer DEF Quiet
    <2>2. Gives(p, Item(x1), "in") /\ Gives(p, Item(x2), "in") /\ Gives(p, Item(x3), "in")
      BY <1>2, <1>5, <1>7 DEF Gives, Writes
    <2>3. QED
      BY <2>1, <2>2
  <1>15. Turns(p \o w)
    BY <1>7, <1>10, <1>11, <1>12, <1>13, NoBeginsJoined, TurnsJoined DEF Turns
  <1>16. x1 \in MatchItems /\ x2 \in MatchItems /\ x3 \in MatchItems
    BY MatchCommands DEF x1, x2, x3
  <1>17. Gives(p \o w, Item(x1), "in") /\ Gives(p \o w, Item(x2), "in") /\ Gives(p \o w, Item(x3), "in")
    BY <1>7, <1>13, <1>14, <1>16, StillAfter
  <1>18. \A x \in MatchItems \ {x1, x2, x3} : Quiet(p \o w, Item(x))
    BY <1>7, <1>13, <1>14, StillAfter
  <1>19. Puts(p \o w, u, o, d)
    BY <1>17, <1>18 DEF Puts, x1, x2, x3
  <1>20. QED
    BY <1>1, <1>15, <1>19

LEMMA RemoveRestDoes ==
  ASSUME NEW u \in Uuids, NEW o \in Objs, NEW D \in SUBSET Days
  PROVE  LET q == RemoveRest(u, o, D) IN Turns(q) /\ Clears(q, u, o, D)
  <1> DEFINE f == [d \in D |-> <<Srem(<<"date", u, d, o>>), Srem(<<"dates", o, u, d>>)>>]
             x1 == <<"of", o, u>>
             x2 == <<"type", u, o>>
             c1 == Srem(x1)
             c2 == Srem(x2)
             c3 == <<"range", u>>
             p == Each(f)
             w == <<c1, c2, c3>>
             q == p \o w
  <1>1. RemoveRest(u, o, D) = q
    BY DEF RemoveRest
  <1>2. IsFiniteSet(D)
    <2>1. IsFiniteSet(Days)
      BY FS_Interval, TrackersAssumption DEF Days
    <2>2. QED
      BY <2>1, FS_Subset
  <1>3. f \in [D -> MatchCmds \X MatchCmds]
    <2>1. \A d \in D : Srem(<<"date", u, d, o>>) \in MatchCmds /\ Srem(<<"dates", o, u, d>>) \in MatchCmds
      <3> TAKE d \in D
      <3>1. <<"date", u, d, o>> \in MatchItems /\ <<"dates", o, u, d>> \in MatchItems
        BY d \in Days, MatchCommands
      <3>2. QED
        BY <3>1, MatchCommands
    <2>2. QED
      BY <2>1
  <1>4. \A d \in D : /\ \A z : Touches(f[d][1], z) <=> z = Item(<<"date", u, d, o>>)
                     /\ \A z : Touches(f[d][2], z) <=> z = Item(<<"dates", o, u, d>>)
                     /\ Leaves(f[d][1]) = "out" /\ Leaves(f[d][2]) = "out"
                     /\ ~Begins(f[d][1]) /\ ~Begins(f[d][2])
    <2> TAKE d \in D
    <2>1. f[d][1] = Srem(<<"date", u, d, o>>) /\ f[d][2] = Srem(<<"dates", o, u, d>>)
      OBVIOUS
    <2> HIDE DEF f
    <2>2. ~Begins(f[d][1]) /\ ~Begins(f[d][2])
      BY <2>1 DEF Begins, Srem
    <2>3. QED
      BY <2>1, <2>2, CommandsTouch, CommandsLeave
  <1>5. /\ \A z : Touches(c1, z) <=> z = Item(x1)
        /\ \A z : Touches(c2, z) <=> z = Item(x2)
        /\ \A z : ~Touches(c3, z)
        /\ Leaves(c1) = "out" /\ Leaves(c2) = "out"
        /\ ~Begins(c1) /\ ~Begins(c2) /\ ~Begins(c3)
    <2>1. ~Begins(c1) /\ ~Begins(c2) /\ ~Begins(c3)
      BY DEF Begins, Srem
    <2>2. QED
      BY <2>1, CommandsTouch, CommandsLeave
  <1>6. x1 \in MatchItems /\ x2 \in MatchItems /\ Item(x1) # Item(x2)
    <2>1. x1 \in MatchItems /\ x2 \in MatchItems
      BY DEF MatchItems
    <2>2. Item(x1) # Item(x2)
      BY CellsDiffer
    <2>3. QED
      BY <2>1, <2>2
  <1>7. c1 \in MatchCmds /\ c2 \in MatchCmds /\ c3 \in MatchCmds
    BY <1>6, MatchCommands
  <1>8. \A d, y : /\ Item(<<"date", u, d, o>>) # Item(<<"dates", o, u, y>>)
                  /\ Item(x1) # Item(<<"date", u, d, o>>) /\ Item(x1) # Item(<<"dates", o, u, d>>)
                  /\ Item(x2) # Item(<<"date", u, d, o>>) /\ Item(x2) # Item(<<"dates", o, u, d>>)
    BY CellsDiffer
  <1> HIDE DEF c1, c2, c3, f
  <1>9. w \in Seq(MatchCmds) /\ Len(w) = 3 /\ w[1] = c1 /\ w[2] = c2 /\ w[3] = c3
    BY <1>7
  <1>10. OfLoop(p, D, MatchCmds, f)
    BY <1>2, <1>3, LoopPlaces
  <1>11. p \in Seq(MatchCmds) /\ \A i \in 1 .. Len(p) : \E d \in D : p[i] \in {f[d][1], f[d][2]}
    BY <1>10 DEF OfLoop
  <1>12. /\ \A z : Quiet(w, z) <=> z # Item(x1) /\ z # Item(x2)
         /\ Gives(w, Item(x1), "out") /\ Gives(w, Item(x2), "out")
    <2>1. \A z : Quiet(w, z) <=> z # Item(x1) /\ z # Item(x2)
      BY <1>5, <1>9 DEF Quiet
    <2>2. Gives(w, Item(x1), "out") /\ Gives(w, Item(x2), "out")
      BY <1>5, <1>6, <1>9 DEF Gives, Writes
    <2>3. QED
      BY <2>1, <2>2
  <1>13. \A z : Quiet(p, z) <=> \A d \in D : z # Item(<<"date", u, d, o>>) /\ z # Item(<<"dates", o, u, d>>)
    <2> TAKE z
    <2>1. Quiet(p, z) <=> \A d \in D : ~Touches(f[d][1], z) /\ ~Touches(f[d][2], z)
      BY <1>2, <1>3, LoopQuiet
    <2>2. QED
      BY <2>1, <1>4
  <1>14. \A d \in D : Gives(p, Item(<<"date", u, d, o>>), "out") /\ Gives(p, Item(<<"dates", o, u, d>>), "out")
    <2> TAKE d \in D
    <2> DEFINE a == Item(<<"date", u, d, o>>)
               b == Item(<<"dates", o, u, d>>)
    <2>1. Writes(f[d][1], a, "out") /\ Writes(f[d][2], b, "out")
      BY <1>4 DEF Writes
    <2>2. a # b
      BY CellsDiffer
    <2>3. ~Touches(f[d][2], a)
      BY <2>2, <1>4
    <2>4. ASSUME NEW y \in D \ {d}
          PROVE  /\ ~Touches(f[y][1], a) /\ ~Touches(f[y][2], a)
                 /\ ~Touches(f[y][1], b) /\ ~Touches(f[y][2], b)
      <3>1. /\ Item(<<"date", u, y, o>>) # a /\ Item(<<"date", u, y, o>>) # b
            /\ Item(<<"dates", o, u, y>>) # a /\ Item(<<"dates", o, u, y>>) # b
        BY CellsDiffer
      <3>2. QED
        BY <3>1, <1>4
    <2> HIDE DEF a, b
    <2>5. WritesOnce(D, f, d, a, "out") /\ WritesOnce(D, f, d, b, "out")
      BY <2>1, <2>3, <2>4 DEF WritesOnce
    <2>6. Gives(Each(f), a, "out") /\ Gives(Each(f), b, "out")
      BY <2>5, <1>2, <1>3, LoopGives
    <2>7. QED
      BY <2>6 DEF a, b
  <1> HIDE DEF p, w, x1, x2
  <1>15. /\ q \in Seq(MatchCmds)
         /\ \A z : Quiet(q, z) <=> Quiet(p, z) /\ Quiet(w, z)
         /\ \A z, v : Gives(q, z, v) <=> Gives(w, z, v) \/ (Gives(p, z, v) /\ Quiet(w, z))
    BY <1>9, <1>11, JoinedLists
  <1>16. Clears(q, u, o, D)
    <2> HIDE DEF q
    <2>1. Gives(q, Item(x1), "out") /\ Gives(q, Item(x2), "out")
      BY <1>12, <1>15
    <2>2. \A d \in D : /\ Gives(q, Item(<<"date", u, d, o>>), "out")
                       /\ Gives(q, Item(<<"dates", o, u, d>>), "out")
      <3> TAKE d \in D
      <3>1. /\ Gives(p, Item(<<"date", u, d, o>>), "out") /\ Gives(p, Item(<<"dates", o, u, d>>), "out")
        BY <1>14
      <3>2. Quiet(w, Item(<<"date", u, d, o>>)) /\ Quiet(w, Item(<<"dates", o, u, d>>))
        BY <1>8, <1>12
      <3>3. QED
        BY <3>1, <3>2, <1>15
    <2>3. ASSUME NEW x \in MatchItems, x # x1, x # x2,
                 \A d \in D : x # <<"date", u, d, o>> /\ x # <<"dates", o, u, d>>
          PROVE  Quiet(q, Item(x))
      <3>1. Item(x) # Item(x1) /\ Item(x) # Item(x2)
        BY <2>3, CellsDiffer
      <3>2. \A d \in D : Item(x) # Item(<<"date", u, d, o>>) /\ Item(x) # Item(<<"dates", o, u, d>>)
        BY <2>3, CellsDiffer
      <3>3. QED
        BY <3>1, <3>2, <1>12, <1>13, <1>15
    <2>4. QED
      BY <2>1, <2>2, <2>3 DEF Clears, x1, x2
  <1>17. NoBegins(q)
    <2>1. NoBegins(p)
      BY <1>4, <1>11 DEF NoBegins
    <2>2. NoBegins(w)
      BY <1>5, <1>9 DEF NoBegins
    <2>3. QED
      BY <2>1, <2>2, <1>9, <1>11, NoBeginsJoined
  <1>18. DateLinked(q)
    <2>0. /\ Len(q) = Len(p) + 3 /\ Len(p) \in Nat
          /\ \A i \in 1 .. Len(p) : q[i] = p[i]
          /\ \A i \in 1 .. 3 : q[Len(p) + i] = w[i]
      <3>1. /\ Len(q) = Len(p) + Len(w) /\ Len(p) \in Nat
            /\ \A i \in 1 .. Len(p) : q[i] = p[i]
            /\ \A i \in 1 .. Len(w) : q[Len(p) + i] = w[i]
        <4>1. p \in Seq(MatchCmds) /\ w \in Seq(MatchCmds)
          BY <1>9, <1>11
        <4>2. QED
          BY <4>1
      <3>2. QED
        BY <3>1, <1>9
    <2>1. q[Len(p) + 1] = c1 /\ q[Len(p) + 2] = c2 /\ q[Len(p) + 3] = c3
      BY <2>0, <1>9
    <2> HIDE DEF q
    <2>2. ASSUME NEW i \in 1 .. Len(q), NEW v \in Uuids, NEW r \in Objs, NEW e \in Days,
                 Touches(q[i], Item(<<"date", v, e, r>>))
          PROVE  \E j \in (i + 1) .. Len(q) : Touches(q[j], Item(<<"of", r, v>>))
      <3>1. i \in 1 .. Len(p)
        <4>1. ~Touches(c1, Item(<<"date", v, e, r>>)) /\ ~Touches(c2, Item(<<"date", v, e, r>>))
              /\ ~Touches(c3, Item(<<"date", v, e, r>>))
          <5>1. Item(<<"date", v, e, r>>) # Item(x1) /\ Item(<<"date", v, e, r>>) # Item(x2)
            BY CellsDiffer DEF x1, x2
          <5>2. QED
            BY <5>1, <1>5
        <4>2. i # Len(p) + 1 /\ i # Len(p) + 2 /\ i # Len(p) + 3
          BY <4>1, <2>1, <2>2
        <4>3. QED
          BY <4>2, <2>0
      <3>2. PICK d \in D : q[i] \in {f[d][1], f[d][2]}
        BY <3>1, <2>0, <1>11
      <3>3. \/ Item(<<"date", v, e, r>>) = Item(<<"date", u, d, o>>)
            \/ Item(<<"date", v, e, r>>) = Item(<<"dates", o, u, d>>)
        BY <3>2, <2>2, <1>4
      <3>4. v = u /\ r = o
        BY <3>3, CellsDiffer
      <3>5. Touches(q[Len(p) + 1], Item(<<"of", r, v>>))
        BY <3>4, <2>1, <1>5 DEF x1
      <3>6. Len(p) + 1 \in (i + 1) .. Len(q)
        BY <3>1, <2>0
      <3>7. QED
        BY <3>5, <3>6
    <2>3. QED
      BY <2>2 DEF DateLinked
  <1>19. InTurn(q)
    BY <1>17 DEF InTurn, NoBegins
  <1>20. QED
    BY <1>1, <1>16, <1>17, <1>18, <1>19 DEF Turns

LEMMA RemoveAllStill ==
  ASSUME NEW u, NEW S, NEW os \in Seq(S)
  PROVE  Still(RemoveAll(u, os)) /\ InTurn(RemoveAll(u, os)) /\ DateLinked(RemoveAll(u, os))
  <1> DEFINE q == RemoveAll(u, os)
  <1>1. DOMAIN os = 1 .. Len(os) /\ Len(os) \in Nat
    OBVIOUS
  <1>2. q = [i \in 1 .. Len(os) |-> <<"remove", u, os[i]>>]
    BY <1>1 DEF RemoveAll
  <1>3. Len(q) = Len(os) /\ \A i \in 1 .. Len(os) : q[i] = <<"remove", u, os[i]>>
    BY <1>1, <1>2
  <1> HIDE DEF q
  <1>4. \A i \in 1 .. Len(q) : q[i][1] \notin {"sadd", "srem"}
    BY <1>3
  <1>5. Still(q) /\ InTurn(q) /\ DateLinked(q)
    BY <1>4, StillList
  <1>6. QED
    BY <1>5 DEF q

LEMMA RangeStill ==
  ASSUME NEW q \in Seq(RangeCmds)
  PROVE  Still(q) /\ Turns(q)
  <1>1. \A c \in RangeCmds : c[1] = "hset"
    BY DEF RangeCmds, Hset
  <1>2. \A i \in 1 .. Len(q) : q[i] \in RangeCmds
    OBVIOUS
  <1>3. \A i \in 1 .. Len(q) : q[i][1] = "hset"
    BY <1>1, <1>2
  <1>4. NoBegins(q)
    BY <1>3 DEF NoBegins, Begins
  <1>5. QED
    BY <1>3, <1>4, StillList DEF Turns

----------------------------------------------------------------------------
(***************************************************************************)
(* What a request about the trackers leaves alone.                         *)
(***************************************************************************)
Apart(c) == \A x \in MatchItems : ~Touches(c, Item(x))

LEMMA ItemsOfMatches ==
  ASSUME NEW x \in MatchItems, NEW y, y[1] \notin {"date", "dates", "type", "of"}
  PROVE  Item(x) # Item(y)
  <1>1. x[1] \in {"date", "dates", "type", "of"}
    BY DEF MatchItems
  <1>2. QED
    BY <1>1, CellsDiffer

LEMMA ApartCommands ==
  /\ \A y : y[1] \notin {"date", "dates", "type", "of"} => Apart(Sadd(y)) /\ Apart(Srem(y))
  /\ \A u, f, v : Apart(Hset(u, f, v))
  /\ \A u : Apart(<<"del", u>>) /\ Apart(<<"objs", u>>)
  /\ \A t : Apart(<<"trigger", t>>)
  /\ \A u, o, d : Apart(<<"add", u, o, d>>)
  /\ \A u, o : Apart(<<"remove", u, o>>)
  <1>1. \A y : y[1] \notin {"date", "dates", "type", "of"} => Apart(Sadd(y)) /\ Apart(Srem(y))
    BY ItemsOfMatches, CommandsTouch DEF Apart
  <1>2. \A u, f, v : Apart(Hset(u, f, v))
    BY CommandsTouch, CellsDiffer DEF Apart
  <1>3. \A u : Apart(<<"del", u>>) /\ Apart(<<"objs", u>>)
    <2>1. ASSUME NEW u, NEW x
          PROVE  ~Touches(<<"del", u>>, Item(x)) /\ ~Touches(<<"objs", u>>, Item(x))
      <3>1. \A f : Item(x) # FieldOf(u, f)
        BY CellsDiffer
      <3>2. ~Touches(<<"del", u>>, Item(x))
        BY <3>1, CommandsTouch
      <3>3. ~Touches(<<"objs", u>>, Item(x))
        BY CommandsTouch
      <3>4. QED
        BY <3>2, <3>3
    <2>2. QED
      BY <2>1 DEF Apart
  <1>4. (\A t : Apart(<<"trigger", t>>)) /\ (\A u, o, d : Apart(<<"add", u, o, d>>))
        /\ \A u, o : Apart(<<"remove", u, o>>)
    BY CommandsTouch DEF Apart
  <1>5. QED
    BY <1>1, <1>2, <1>3, <1>4

LEMMA ApartLists ==
  ASSUME NEW q, \A i \in 1 .. Len(q) : Apart(q[i])
  PROVE  Still(q)
  BY DEF Still, Quiet, Apart

LEMMA StillJoined ==
  ASSUME NEW S, NEW p \in Seq(S), NEW q \in Seq(S), Still(p), Still(q)
  PROVE  p \o q \in Seq(S) /\ Still(p \o q)
  BY JoinedLists DEF Still

LEMMA StillParts ==
  ASSUME NEW u \in Uuids, NEW a \in Asks, NEW t \in Types, NEW w \in Terms, NEW l \in Levels, NEW m \in Levels,
         NEW s \in Filters
  PROVE  /\ Still(SetLevel(u, t, l)) /\ SetLevel(u, t, l) \in Seq(Cmds)
         /\ Still(ResetLevel(u, t, l, m)) /\ ResetLevel(u, t, l, m) \in Seq(Cmds)
         /\ Still(DelFilters(u, t, w, s)) /\ DelFilters(u, t, w, s) \in Seq(Cmds)
         /\ Still(AddFilters(u, a)) /\ AddFilters(u, a) \in Seq(Cmds)
  <1>0. /\ \A x \in MatchItems : \A y, z : Item(x) # Item(<<"level", y, z>>)
        /\ \A x \in MatchItems : \A y, z, v : Item(x) # Item(<<"levelOf", y, z, v>>)
        /\ \A x \in MatchItems : \A y, z, v : Item(x) # Item(<<"terms", y, z, v>>)
        /\ \A x \in MatchItems : \A y, z, v, k : Item(x) # Item(<<"uuids", y, z, v, k>>)
        /\ \A x : \A v, f : Item(x) # FieldOf(v, f)
    <2>1. /\ \A x \in MatchItems : \A y, z : Item(x) # Item(<<"level", y, z>>)
          /\ \A x \in MatchItems : \A y, z, v : Item(x) # Item(<<"levelOf", y, z, v>>)
      BY ItemsOfMatches
    <2>2. \A x \in MatchItems : \A y, z, v : Item(x) # Item(<<"terms", y, z, v>>)
      BY ItemsOfMatches
    <2>3. \A x \in MatchItems : \A y, z, v, k : Item(x) # Item(<<"uuids", y, z, v, k>>)
      BY ItemsOfMatches
    <2>4. QED
      BY <2>1, <2>2, <2>3, CellsDiffer
  <1>1. Still(SetLevel(u, t, l)) /\ SetLevel(u, t, l) \in Seq(Cmds)
    <2> DEFINE q == SetLevel(u, t, l)
    <2>1. /\ q \in Seq(Cmds)
          /\ \A z : z \notin {Item(<<"level", l, u>>), Item(<<"levelOf", l, t, u>>), FieldOf(u, "level")}
                 => Quiet(q, z)
      BY SetLevelDoes
    <2> HIDE DEF q
    <2>2. Still(q)
      BY <1>0, <2>1 DEF Still
    <2>3. QED
      BY <2>1, <2>2 DEF q
  <1>2. Still(ResetLevel(u, t, l, m)) /\ ResetLevel(u, t, l, m) \in Seq(Cmds)
    <2> DEFINE q == ResetLevel(u, t, l, m)
    <2>1. /\ q \in Seq(Cmds)
          /\ \A z : z \notin {Item(<<"level", l, u>>), Item(<<"levelOf", l, t, u>>), Item(<<"level", m, u>>),
                             Item(<<"levelOf", m, t, u>>), FieldOf(u, "level")} => Quiet(q, z)
      BY ResetLevelDoes
    <2> HIDE DEF q
    <2>2. Still(q)
      BY <1>0, <2>1 DEF Still
    <2>3. QED
      BY <2>1, <2>2 DEF q
  <1>3. Still(DelFilters(u, t, w, s)) /\ DelFilters(u, t, w, s) \in Seq(Cmds)
    BY <1>0, DelFiltersDoes DEF Still
  <1>4. Still(AddFilters(u, a)) /\ AddFilters(u, a) \in Seq(Cmds)
    BY <1>0, AddFiltersDoes DEF Still
  <1>5. QED
    BY <1>1, <1>2, <1>3, <1>4

LEMMA TypePartStill ==
  ASSUME NEW u \in Uuids, NEW a \in Asks, NEW old, Whole(old)
  PROVE  Still(TypePart(u, a, old))
  <1>0. /\ a.type \in Types /\ a.tracked \in Terms /\ a.level \in Levels
        /\ old.type \in Types /\ old.tracked \in Terms /\ old.level \in Levels
    BY AskTypes DEF Whole
  <1> DEFINE p == ResetLevel(u, old.type, old.level, a.level)
             c1 == Hset(u, "type", a.type)
             c2 == Srem(<<"tracked", old.type, old.tracked>>)
             c3 == Sadd(<<"tracked", a.type, a.tracked>>)
             c4 == Srem(<<"uuid", old.type, old.tracked, u>>)
             c5 == Sadd(<<"uuid", a.type, a.tracked, u>>)
             c6 == Srem(<<"allOf", old.type, u>>)
             c7 == Sadd(<<"allOf", a.type, u>>)
             w == <<c1, c2, c3, c4, c5, c6, c7>>
  <1>1. TypePart(u, a, old) = IF a.type = old.type THEN <<>> ELSE p \o w
    BY DEF TypePart, ChangeType
  <1>2. Still(p) /\ p \in Seq(Cmds)
    <2>1. None \in Filters
      BY DEF Filters
    <2>2. QED
      BY <1>0, <2>1, StillParts
  <1>3. c1 \in Cmds /\ c2 \in Cmds /\ c3 \in Cmds /\ c4 \in Cmds /\ c5 \in Cmds /\ c6 \in Cmds /\ c7 \in Cmds
    BY <1>0, PlainCommands
  <1>4. Apart(c1) /\ Apart(c2) /\ Apart(c3) /\ Apart(c4) /\ Apart(c5) /\ Apart(c6) /\ Apart(c7)
    BY ApartCommands
  <1> HIDE DEF c1, c2, c3, c4, c5, c6, c7, p
  <1>5. w \in Seq(Cmds) /\ \A i \in 1 .. Len(w) : Apart(w[i])
    BY <1>3, <1>4
  <1>6. Still(w)
    BY <1>5, ApartLists
  <1>7. Still(p \o w)
    BY <1>2, <1>5, <1>6, StillJoined
  <1>8. Still(<<>>)
    BY DEF Still, Quiet
  <1>9. QED
    BY <1>1, <1>7, <1>8

LEMMA EditStill ==
  ASSUME NEW u \in Uuids, NEW a \in Asks, NEW old, Whole(old)
  PROVE  Still(Edit(u, a, old))
  <1>0. /\ a.type \in Types /\ a.level \in Levels
        /\ old.type \in Types /\ old.tracked \in Terms /\ old.level \in Levels /\ old.filters \in Filters
    BY AskTypes DEF Whole
  <1> DEFINE p1 == TypePart(u, a, old)
             p2 == ResetLevel(u, a.type, old.level, a.level)
             p3 == TermPart(u, a, old)
             p4 == DelFilters(u, old.type, old.tracked, old.filters)
             p5 == AddFilters(u, a)
             p6 == Notes(a.type, old.type)
  <1>1. Edit(u, a, old) = p1 \o p2 \o p3 \o p4 \o p5 \o p6
    BY DEF Edit, TypePart, TermPart
  <1>2. Still(p1) /\ p1 \in Seq(Cmds)
    BY TypePartStill, TypePartDoes
  <1>3. Still(p2) /\ p2 \in Seq(Cmds)
    BY <1>0, StillParts
  <1>4. Still(p3) /\ p3 \in Seq(Cmds)
    BY TermPartDoes, CellsDiffer DEF Still
  <1>5. Still(p4) /\ p4 \in Seq(Cmds)
    BY <1>0, StillParts
  <1>6. Still(p5) /\ p5 \in Seq(Cmds)
    BY <1>0, StillParts
  <1>7. Still(p6) /\ p6 \in Seq(Cmds)
    BY <1>0, NotesDo DEF Still
  <1> HIDE DEF p1, p2, p3, p4, p5, p6
  <1>8. Still(p1 \o p2) /\ p1 \o p2 \in Seq(Cmds)
    BY <1>2, <1>3, StillJoined
  <1>9. Still(p1 \o p2 \o p3) /\ p1 \o p2 \o p3 \in Seq(Cmds)
    BY <1>4, <1>8, StillJoined
  <1>10. Still(p1 \o p2 \o p3 \o p4) /\ p1 \o p2 \o p3 \o p4 \in Seq(Cmds)
    BY <1>5, <1>9, StillJoined
  <1>11. Still(p1 \o p2 \o p3 \o p4 \o p5) /\ p1 \o p2 \o p3 \o p4 \o p5 \in Seq(Cmds)
    BY <1>6, <1>10, StillJoined
  <1>12. Still(p1 \o p2 \o p3 \o p4 \o p5 \o p6)
    BY <1>7, <1>11, StillJoined
  <1>13. QED
    BY <1>1, <1>12

LEMMA CreateStill ==
  ASSUME NEW u \in Uuids, NEW a \in Asks
  PROVE  Still(Create(u, a))
  <1>0. a.type \in Types /\ a.tracked \in Terms /\ a.level \in Levels /\ a.filters \in Filters
    BY AskTypes
  <1> DEFINE c1 == Hset(u, "tracked", a.tracked)
             c2 == Hset(u, "type", a.type)
             c3 == Sadd(<<"tracked", a.type, a.tracked>>)
             c4 == Sadd(<<"uuid", a.type, a.tracked, u>>)
             c5 == Sadd(<<"all", u>>)
             c6 == Sadd(<<"allOf", a.type, u>>)
             c7 == <<"trigger", a.type>>
             p1 == <<c1, c2, c3, c4, c5, c6>>
             p2 == SetLevel(u, a.type, a.level)
             p3 == AddFilters(u, a)
             p4 == <<c7>>
  <1>1. Create(u, a) = p1 \o p2 \o p3 \o p4
    BY DEF Create
  <1>2. c1 \in Cmds /\ c2 \in Cmds /\ c3 \in Cmds /\ c4 \in Cmds /\ c5 \in Cmds /\ c6 \in Cmds /\ c7 \in Cmds
    BY <1>0, PlainCommands
  <1>3. Apart(c1) /\ Apart(c2) /\ Apart(c3) /\ Apart(c4) /\ Apart(c5) /\ Apart(c6) /\ Apart(c7)
    BY ApartCommands
  <1> HIDE DEF c1, c2, c3, c4, c5, c6, c7
  <1>4. p1 \in Seq(Cmds) /\ p4 \in Seq(Cmds) /\ (\A i \in 1 .. Len(p1) : Apart(p1[i]))
        /\ \A i \in 1 .. Len(p4) : Apart(p4[i])
    BY <1>2, <1>3
  <1>5. Still(p1) /\ Still(p4)
    BY <1>4, ApartLists
  <1>6. Still(p2) /\ p2 \in Seq(Cmds) /\ Still(p3) /\ p3 \in Seq(Cmds)
    BY <1>0, StillParts
  <1> HIDE DEF p1, p2, p3, p4
  <1>7. Still(p1 \o p2) /\ p1 \o p2 \in Seq(Cmds)
    BY <1>4, <1>5, <1>6, StillJoined
  <1>8. Still(p1 \o p2 \o p3) /\ p1 \o p2 \o p3 \in Seq(Cmds)
    BY <1>6, <1>7, StillJoined
  <1>9. Still(p1 \o p2 \o p3 \o p4)
    BY <1>4, <1>5, <1>8, StillJoined
  <1>10. QED
    BY <1>1, <1>9

LEMMA DeleteStill ==
  ASSUME NEW u \in Uuids, NEW old, Whole(old)
  PROVE  Still(Delete(u, old))
  <1>0. old.type \in Types /\ old.tracked \in Terms /\ old.level \in Levels
    BY DEF Whole
  <1> DEFINE c0 == <<"objs", u>>
             c1 == Srem(<<"level", old.level, u>>)
             c2 == Srem(<<"levelOf", old.level, old.type, u>>)
             c3 == Srem(<<"tracked", old.type, old.tracked>>)
             c4 == Srem(<<"uuid", old.type, old.tracked, u>>)
             c5 == Srem(<<"all", u>>)
             c6 == Srem(<<"allOf", old.type, u>>)
             c7 == <<"del", u>>
             c8 == <<"trigger", old.type>>
             f == [k \in Kinds |-> <<Srem(<<"terms", old.type, k, old.tracked>>),
                                     Srem(<<"uuids", old.type, old.tracked, u, k>>)>>]
             p1 == <<c0>>
             p2 == Each(f)
             p3 == <<c1, c2, c3, c4, c5, c6, c7, c8>>
  <1>1. Delete(u, old) = p1 \o p2 \o p3
    BY DEF Delete
  <1> DEFINE S == {c0, c1, c2, c3, c4, c5, c6, c7, c8} \cup {f[k][1] : k \in Kinds} \cup {f[k][2] : k \in Kinds}
  <1>2. \A c \in S : Apart(c)
    <2>1. Apart(c0) /\ Apart(c1) /\ Apart(c2) /\ Apart(c3) /\ Apart(c4) /\ Apart(c5) /\ Apart(c6)
          /\ Apart(c7) /\ Apart(c8)
      BY ApartCommands
    <2>2. \A k \in Kinds : Apart(f[k][1]) /\ Apart(f[k][2])
      <3> TAKE k \in Kinds
      <3>1. /\ f[k][1] = Srem(<<"terms", old.type, k, old.tracked>>)
            /\ f[k][2] = Srem(<<"uuids", old.type, old.tracked, u, k>>)
        OBVIOUS
      <3> HIDE DEF f
      <3>2. QED
        BY <3>1, ApartCommands
    <2> HIDE DEF c0, c1, c2, c3, c4, c5, c6, c7, c8, f
    <2>3. QED
      BY <2>1, <2>2
  <1>3. f \in [Kinds -> S \X S]
    OBVIOUS
  <1> HIDE DEF c0, c1, c2, c3, c4, c5, c6, c7, c8, f
  <1>4. IsFiniteSet(Kinds)
    BY TrackersAssumption
  <1>5. p1 \in Seq(S) /\ p3 \in Seq(S)
    OBVIOUS
  <1> HIDE DEF S
  <1>6. p2 \in Seq(S)
    BY <1>3, <1>4, LoopPlaces DEF OfLoop
  <1> HIDE DEF p1, p2, p3
  <1>7. p1 \o p2 \o p3 \in Seq(S)
    BY <1>5, <1>6
  <1>8. Still(p1 \o p2 \o p3)
    <2> DEFINE q == p1 \o p2 \o p3
    <2>1. q \in Seq(S)
      BY <1>7
    <2> HIDE DEF q
    <2>2. \A i \in 1 .. Len(q) : q[i] \in S
      BY <2>1
    <2>3. Still(q)
      BY <2>2, <1>2, ApartLists
    <2>4. QED
      BY <2>3 DEF q
  <1>9. QED
    BY <1>1, <1>8

----------------------------------------------------------------------------
(***************************************************************************)
(* The matches in every step.  First, that every process has its commands  *)
(* in turn.                                                                *)
(***************************************************************************)
LEMMA NowOfItem ==
  /\ \A x : Now(Item(x)) = IF x \in db THEN "in" ELSE "out"
  /\ \A x : Now(Item(x))' = IF x \in db' THEN "in" ELSE "out"
  BY DEF Now, Item

LEMMA MatchOfItems ==
  ASSUME NEW u \in Uuids, NEW o \in Objs
  PROVE  /\ MatchOf(u, o) \subseteq MatchItems
         /\ <<"of", o, u>> \in MatchOf(u, o) /\ <<"type", u, o>> \in MatchOf(u, o)
         /\ \A d \in Days : <<"date", u, d, o>> \in MatchOf(u, o) /\ <<"dates", o, u, d>> \in MatchOf(u, o)
  <1>1. /\ <<"of", o, u>> \in MatchItems /\ <<"type", u, o>> \in MatchItems
        /\ \A d \in Days : <<"date", u, d, o>> \in MatchItems /\ <<"dates", o, u, d>> \in MatchItems
    BY DEF MatchItems
  <1>2. QED
    BY <1>1 DEF MatchOf, Links

\* The commands of one process change.
LEMMA OrderKept ==
  ASSUME Typed, InOrder, NEW p \in Procs, NEW q, todo' = [todo EXCEPT ![p] = q], InTurn(q), DateLinked(q)
  PROVE  InOrder'
  <1>1. \A r \in Procs : todo'[r] = IF r = p THEN q ELSE todo[r]
    BY DEF Typed
  <1>2. \A r \in Procs : InTurn(todo'[r]) /\ DateLinked(todo'[r])
    BY <1>1 DEF InOrder
  <1>3. QED
    BY <1>2 DEF InOrder

\* What an expansion of a command puts in its place.
Expansion(p, q) ==
    InTurn(q) /\ DateLinked(q) /\ (NoBegins(q) \/ Begins(Head(todo[p])))

LEMMA ExpandsInTurn ==
  ASSUME Typed, InOrder, NEW p \in Procs, todo[p] # <<>>, NEW q \in Seq(MatchCmds), Expansion(p, q),
         todo' = [todo EXCEPT ![p] = q \o Tail(todo[p])]
  PROVE  InOrder'
  <1> DEFINE r == Tail(todo[p])
  <1>1. todo[p] \in Seq(Cmds) /\ r \in Seq(Cmds)
    BY NextCommand
  <1>2. InTurn(r) /\ DateLinked(r) /\ (Begins(Head(todo[p])) => Still(r))
    BY <1>1, TurnsOfTheRest DEF InOrder
  <1>3. q \in Seq(Cmds)
    BY DEF Cmds
  <1> HIDE DEF r
  <1>4. InTurn(q \o r) /\ DateLinked(q \o r)
    BY <1>1, <1>2, <1>3, TurnsJoined DEF Expansion
  <1>5. QED
    BY <1>4, OrderKept DEF r

----------------------------------------------------------------------------
(***************************************************************************)
(* A match that a step leaves alone.                                       *)
(***************************************************************************)
Kept(u, o) ==
    \A x \in MatchOf(u, o) :
        /\ Now(Item(x))' = Now(Item(x))
        /\ \A p \in Procs : /\ Quiet(todo'[p], Item(x)) <=> Quiet(todo[p], Item(x))
                            /\ Gives(todo'[p], Item(x), "in") <=> Gives(todo[p], Item(x), "in")

LEMMA KeptByOne ==
  ASSUME NEW u \in Uuids, NEW o \in Objs, Kept(u, o), ByOne(u, o)
  PROVE  ByOne(u, o)'
  <1>1. \A p \in Procs : Busy(p, u, o)' <=> Busy(p, u, o)
    <2> TAKE p \in Procs
    <2>1. Busy(p, u, o)' <=> \E x \in MatchOf(u, o) : ~Quiet(todo'[p], Item(x))
      BY DEF Busy, MatchOf, Links
    <2>2. QED
      BY <2>1 DEF Busy, Kept
  <1>2. \A p \in Procs : Alone(p, u, o)' <=> Alone(p, u, o)
    BY <1>1 DEF Alone, Procs, Types
  <1>3. \A p \in Procs, x \in MatchOf(u, o) : WillMatch(p, x)' <=> WillMatch(p, x)
    BY DEF Kept, WillMatch, Will
  <1>4. \A p \in Procs : Agreed(p, u, o)' <=> Agreed(p, u, o)
    <2> TAKE p \in Procs
    <2>1. /\ WillMatch(p, <<"of", o, u>>)' <=> WillMatch(p, <<"of", o, u>>)
          /\ WillMatch(p, <<"type", u, o>>)' <=> WillMatch(p, <<"type", u, o>>)
          /\ \A d \in Days : /\ WillMatch(p, <<"date", u, d, o>>)' <=> WillMatch(p, <<"date", u, d, o>>)
                             /\ WillMatch(p, <<"dates", o, u, d>>)' <=> WillMatch(p, <<"dates", o, u, d>>)
      BY <1>3, MatchOfItems
    <2>2. QED
      BY <2>1 DEF Agreed, Days
  <1>5. QED
    BY <1>1, <1>2, <1>4 DEF ByOne, Procs, Types

\* Commands that touch no cell of a match, in the place of one that does not.
LEMMA ExpansionKeeps ==
  ASSUME Typed, NEW p \in Procs, todo[p] # <<>>, \A z : ~Touches(Head(todo[p]), z),
         NEW q \in Seq(MatchCmds), todo' = [todo EXCEPT ![p] = q \o Tail(todo[p])],
         NEW u \in Uuids, NEW o \in Objs,
         \A x \in MatchOf(u, o) : Now(Item(x))' = Now(Item(x)) /\ Quiet(q, Item(x))
  PROVE  Kept(u, o)
  <1> DEFINE r == Tail(todo[p])
  <1>1. \A s \in Procs : todo'[s] = IF s = p THEN q \o r ELSE todo[s]
    BY DEF Typed
  <1>2. /\ r \in Seq(Cmds)
        /\ \A z : Quiet(todo[p], z) <=> Quiet(r, z)
        /\ \A z, v : Gives(todo[p], z, v) <=> Gives(r, z, v)
    BY NextCommand DEF Writes
  <1>3. q \in Seq(Cmds)
    BY DEF Cmds
  <1> HIDE DEF r
  <1>4. ASSUME NEW x \in MatchOf(u, o)
        PROVE  /\ Quiet(q \o r, Item(x)) <=> Quiet(r, Item(x))
               /\ Gives(q \o r, Item(x), "in") <=> Gives(r, Item(x), "in")
    <2>1. Quiet(q, Item(x)) /\ ~Gives(q, Item(x), "in")
      BY <1>3, LeavesOne
    <2>2. QED
      BY <2>1, <1>2, <1>3, JoinedLists
  <1>5. QED
    BY <1>1, <1>2, <1>4 DEF Kept

\* Commands that touch no cell of a match, where there were none.
LEMMA StartKeeps ==
  ASSUME Typed, NEW p \in Procs, todo[p] = <<>>, NEW q \in Seq(Cmds), todo' = [todo EXCEPT ![p] = q],
         db' = db, Still(q), NEW u \in Uuids, NEW o \in Objs
  PROVE  Kept(u, o)
  <1>1. \A s \in Procs : todo'[s] = IF s = p THEN q ELSE todo[s]
    BY DEF Typed
  <1>2. \A x : Now(Item(x))' = Now(Item(x))
    BY NowOfItem
  <1>3. \A x \in MatchOf(u, o) : Quiet(q, Item(x)) /\ ~Gives(q, Item(x), "in")
    BY MatchOfItems, LeavesOne DEF Still
  <1>4. \A z : Quiet(<<>>, z) /\ ~Gives(<<>>, z, "in")
    BY EmptyList
  <1>5. QED
    BY <1>1, <1>2, <1>3, <1>4 DEF Kept

\* What a process that is not busy with a match will leave is what there is.
LEMMA IdleWill ==
  ASSUME NEW p, NEW u, NEW o, NEW x \in MatchOf(u, o)
  PROVE  /\ todo[p] \in Seq(Cmds) /\ ~Busy(p, u, o) => (WillMatch(p, x) <=> x \in db)
         /\ todo'[p] \in Seq(Cmds) /\ ~Busy(p, u, o)' => (WillMatch(p, x)' <=> x \in db')
  <1>1. ASSUME todo[p] \in Seq(Cmds), ~Busy(p, u, o)
        PROVE  WillMatch(p, x) <=> x \in db
    <2>1. Quiet(todo[p], Item(x))
      BY <1>1 DEF Busy
    <2>2. ~Gives(todo[p], Item(x), "in")
      BY <1>1, <2>1, LeavesOne
    <2>3. QED
      BY <2>1, <2>2, NowOfItem DEF WillMatch, Will
  <1>2. ASSUME todo'[p] \in Seq(Cmds), ~Busy(p, u, o)'
        PROVE  WillMatch(p, x)' <=> x \in db'
    <2>1. Quiet(todo'[p], Item(x))
      BY <1>2 DEF Busy, MatchOf, Links
    <2>2. ~Gives(todo'[p], Item(x), "in")
      BY <1>2, <2>1, LeavesOne
    <2>3. WillMatch(p, x)' <=> Now(Item(x))' = "in"
      BY <2>1, <2>2 DEF WillMatch, Will
    <2>4. QED
      BY <2>3, NowOfItem
  <1>3. QED
    BY <1>1, <1>2

\* Two processes that will leave a match as it is agree on it.
LEMMA IdleAgree ==
  ASSUME NEW p, NEW q, NEW u \in Uuids, NEW o \in Objs, todo'[p] \in Seq(Cmds), todo'[q] \in Seq(Cmds),
         ~Busy(p, u, o)', ~Busy(q, u, o)', Agreed(p, u, o)'
  PROVE  Agreed(q, u, o)'
  <1>1. \A x \in MatchOf(u, o) : WillMatch(p, x)' <=> WillMatch(q, x)'
    BY IdleWill
  <1>2. /\ WillMatch(p, <<"of", o, u>>)' <=> WillMatch(q, <<"of", o, u>>)'
        /\ WillMatch(p, <<"type", u, o>>)' <=> WillMatch(q, <<"type", u, o>>)'
        /\ \A d \in Days : /\ WillMatch(p, <<"date", u, d, o>>)' <=> WillMatch(q, <<"date", u, d, o>>)'
                           /\ WillMatch(p, <<"dates", o, u, d>>)' <=> WillMatch(q, <<"dates", o, u, d>>)'
    BY <1>1, MatchOfItems
  <1>3. QED
    BY <1>2 DEF Agreed, Days

----------------------------------------------------------------------------
(***************************************************************************)
(* The matches in every step: the commands that are sent.                  *)
(***************************************************************************)
LEMMA SendsByOne ==
  ASSUME Typed, Typed', NEW p \in Procs, Sends(p), NEW u \in Uuids, NEW o \in Objs, ByOne(u, o)
  PROVE  ByOne(u, o)'
  <1> DEFINE c == Head(todo[p])
             r == Tail(todo[p])
  <1>0. /\ \A q \in Procs : todo[q] \in Seq(Cmds) /\ todo'[q] \in Seq(Cmds)
        /\ \A x : IsCell(Item(x))
    BY DEF Typed, IsCell
  <1>1. todo[p] # <<>> /\ Effect(c) /\ \A q \in Procs : todo'[q] = IF q = p THEN r ELSE todo[q]
    BY SendsDoes DEF Typed
  <1>2. /\ \A z : Quiet(todo[p], z) <=> ~Touches(c, z) /\ Quiet(r, z)
        /\ \A z, v : Gives(todo[p], z, v) <=> Gives(r, z, v) \/ (Writes(c, z, v) /\ Quiet(r, z))
    BY <1>1, NextCommand
  <1> HIDE DEF c, r
  <1>3. CASE \A x \in MatchOf(u, o) : ~Touches(c, Item(x))
    <2>1. \A x \in MatchOf(u, o) : Now(Item(x))' = Now(Item(x))
      BY <1>0, <1>1, <1>3 DEF Effect
    <2>2. \A x \in MatchOf(u, o) : /\ Quiet(r, Item(x)) <=> Quiet(todo[p], Item(x))
                                   /\ Gives(r, Item(x), "in") <=> Gives(todo[p], Item(x), "in")
      BY <1>2, <1>3 DEF Writes
    <2>3. Kept(u, o)
      BY <1>1, <2>1, <2>2 DEF Kept
    <2>4. QED
      BY <2>3, KeptByOne
  <1>4. CASE \E x \in MatchOf(u, o) : Touches(c, Item(x))
    <2>1. Busy(p, u, o)
      BY <1>2, <1>4 DEF Busy
    <2>2. Alone(p, u, o) /\ Agreed(p, u, o)
      BY <2>1 DEF ByOne
    <2>3. \A q \in Procs \ {p} : ~Busy(q, u, o)'
      <3> TAKE q \in Procs \ {p}
      <3>1. \A x \in MatchOf(u, o) : Quiet(todo'[q], Item(x))
        BY <1>1, <2>2 DEF Alone, Busy
      <3>2. QED
        BY <3>1 DEF Busy, MatchOf, Links
    <2>4. Agreed(p, u, o)'
      <3>1. \A x \in MatchOf(u, o) : WillMatch(p, x)' <=> WillMatch(p, x)
        BY <1>0, SameForSender DEF WillMatch
      <3>2. /\ WillMatch(p, <<"of", o, u>>)' <=> WillMatch(p, <<"of", o, u>>)
            /\ WillMatch(p, <<"type", u, o>>)' <=> WillMatch(p, <<"type", u, o>>)
            /\ \A d \in Days : /\ WillMatch(p, <<"date", u, d, o>>)' <=> WillMatch(p, <<"date", u, d, o>>)
                               /\ WillMatch(p, <<"dates", o, u, d>>)' <=> WillMatch(p, <<"dates", o, u, d>>)
        BY <3>1, MatchOfItems
      <3>3. QED
        BY <2>2, <3>2 DEF Agreed, Days
    <2>5. Alone(p, u, o)'
      BY <2>3 DEF Alone, Procs, Types
    <2>6. ASSUME NEW q \in Procs \ {p}, Alone(q, u, o)'
          PROVE  Agreed(q, u, o)'
      <3>1. ~Busy(p, u, o)'
        BY <2>6 DEF Alone, Procs, Types
      <3>2. QED
        BY <1>0, <2>3, <2>4, <3>1, IdleAgree
    <2>7. QED
      BY <2>3, <2>4, <2>5, <2>6 DEF ByOne, Procs, Types
  <1>5. QED
    BY <1>3, <1>4

LEMMA SendsMatched ==
  ASSUME Typed, Typed', Matched, NEW p \in Procs, Sends(p)
  PROVE  Matched'
  <1>1. todo[p] # <<>> /\ todo' = [todo EXCEPT ![p] = Tail(todo[p])] /\ raced' = raced
    BY SendsDoes
  <1>2. InTurn(Tail(todo[p])) /\ DateLinked(Tail(todo[p]))
    <2>1. todo[p] \in Seq(Cmds) /\ InTurn(todo[p]) /\ DateLinked(todo[p])
      BY DEF Typed, Matched, InOrder
    <2>2. QED
      BY <1>1, <2>1, TurnsOfTheRest
  <1>3. InOrder'
    BY <1>1, <1>2, OrderKept DEF Matched
  <1>4. \A u \in Uuids, o \in Objs : <<u, o>> \notin raced' => ByOne(u, o)'
    BY <1>1, SendsByOne DEF Matched
  <1>5. QED
    BY <1>3, <1>4 DEF Matched

----------------------------------------------------------------------------
(***************************************************************************)
(* The matches in every step: the commands that begin something.           *)
(***************************************************************************)
LEMMA MatchesDiffer ==
  ASSUME NEW u \in Uuids, NEW o \in Objs, NEW v \in Uuids, NEW s \in Objs, <<u, o>> # <<v, s>>
  PROVE  \A x \in MatchOf(u, o) :
           x # <<"of", s, v>> /\ x # <<"type", v, s>> /\ \A d : x # <<"date", v, d, s>> /\ x # <<"dates", s, v, d>>
  BY DEF MatchOf, Links

\* A process that begins with a match, and no other has a command for it.
LEMMA FirstAtMatch ==
  ASSUME Typed, InOrder, NEW p \in Procs, todo[p] # <<>>, Begins(Head(todo[p])),
         NEW u \in Uuids, NEW o \in Objs, ~About(p, u, o)
  PROVE  Alone(p, u, o) /\ ~Busy(p, u, o)
  <1>1. Still(Tail(todo[p])) /\ \A x : ~Touches(Head(todo[p]), Item(x))
    <2>1. todo[p] \in Seq(Cmds) /\ InTurn(todo[p]) /\ DateLinked(todo[p])
      BY DEF Typed, InOrder
    <2>2. Still(Tail(todo[p]))
      BY <2>1, TurnsOfTheRest
    <2>3. Head(todo[p])[1] \notin {"sadd", "srem"}
      BY DEF Begins
    <2>4. QED
      BY <2>2, <2>3, ItemsOnly
  <1>2. ~Busy(p, u, o)
    <2>1. \A x \in MatchOf(u, o) : Quiet(Tail(todo[p]), Item(x))
      BY <1>1, MatchOfItems DEF Still
    <2>2. QED
      BY <1>1, <2>1, NextCommand DEF Busy
  <1>3. ASSUME NEW q \in Procs \ {p}
        PROVE  ~Busy(q, u, o)
    <2>1. todo[q] \in Seq(Cmds) /\ DateLinked(todo[q])
      BY DEF Typed, InOrder
    <2>2. \A i \in 1 .. Len(todo[q]), x \in Links(u, o) : ~Touches(todo[q][i], Item(x))
      <3> SUFFICES ASSUME NEW i \in 1 .. Len(todo[q]), NEW x \in Links(u, o), Touches(todo[q][i], Item(x))
                   PROVE  FALSE
        OBVIOUS
      <3>1. todo[q][i][1] \in {"sadd", "srem"} /\ Item(x) = Item(todo[q][i][2])
        BY CellsDiffer DEF Touches
      <3>2. todo[q][i][2] = x
        BY <3>1, CellsDiffer
      <3>3. todo[q][i] \in Range(todo[q])
        BY <2>1 DEF Range
      <3>4. About(p, u, o)
        BY <3>1, <3>2, <3>3 DEF About
      <3>5. QED
        BY <3>4
    <2>3. \A i \in 1 .. Len(todo[q]), d \in Days : ~Touches(todo[q][i], Item(<<"date", u, d, o>>))
      <3> SUFFICES ASSUME NEW i \in 1 .. Len(todo[q]), NEW d \in Days,
                          Touches(todo[q][i], Item(<<"date", u, d, o>>))
                   PROVE  FALSE
        OBVIOUS
      <3>1. PICK j \in (i + 1) .. Len(todo[q]) : Touches(todo[q][j], Item(<<"of", o, u>>))
        BY <2>1 DEF DateLinked
      <3>2. j \in 1 .. Len(todo[q])
        BY <2>1
      <3>3. <<"of", o, u>> \in Links(u, o)
        BY DEF Links
      <3>4. QED
        BY <2>2, <3>1, <3>2, <3>3
    <2>4. QED
      BY <2>2, <2>3 DEF Busy, MatchOf, Quiet
  <1>4. QED
    BY <1>2, <1>3 DEF Alone

\* Another process then finds it busy.
LEMMA BusyWithMatch ==
  ASSUME NEW p \in Procs, NEW u \in Uuids, NEW o \in Objs, Alone(p, u, o), Busy(p, u, o)', Agreed(p, u, o)',
         \A q \in Procs \ {p} : todo'[q] = todo[q]
  PROVE  ByOne(u, o)'
  <1>1. \A q \in Procs \ {p} : ~Busy(q, u, o)'
    <2> TAKE q \in Procs \ {p}
    <2>1. \A x \in MatchOf(u, o) : Quiet(todo'[q], Item(x))
      BY DEF Alone, Busy
    <2>2. QED
      BY <2>1 DEF Busy, MatchOf, Links
  <1>2. Alone(p, u, o)'
    BY <1>1 DEF Alone, Procs, Types
  <1>3. \A q \in Procs \ {p} : ~Alone(q, u, o)'
    BY DEF Alone, Procs, Types
  <1>4. QED
    BY <1>1, <1>2, <1>3 DEF ByOne, Procs, Types

\* Tracker.add after its first command: what it will have put in.
LEMMA AddAgrees ==
  ASSUME Typed, NEW p \in Procs, NEW u \in Uuids, NEW o \in Objs, NEW d \in Days,
         NEW q \in Seq(Cmds), Puts(q, u, o, d), NEW r \in Seq(Cmds), Still(r),
         todo' = [todo EXCEPT ![p] = q \o r], db' = db \cup {<<"date", u, d, o>>},
         ~Busy(p, u, o), Agreed(p, u, o)
  PROVE  Busy(p, u, o)' /\ Agreed(p, u, o)'
  <1> DEFINE w == q \o r
             of == <<"of", o, u>>
             type == <<"type", u, o>>
             date(e) == <<"date", u, e, o>>
             dates(e) == <<"dates", o, u, e>>
  <1>0. todo'[p] = w /\ w \in Seq(Cmds) /\ todo[p] \in Seq(Cmds)
    BY DEF Typed
  <1>1. /\ of \in MatchItems /\ type \in MatchItems
        /\ \A e \in Days : date(e) \in MatchItems /\ dates(e) \in MatchItems
    BY MatchCommands
  <1>2. Gives(w, Item(of), "in") /\ Gives(w, Item(type), "in") /\ Gives(w, Item(dates(d)), "in")
    BY <1>1, StillAfter DEF Puts
  <1>3. /\ \A e \in Days : Quiet(w, Item(date(e)))
        /\ \A e \in Days \ {d} : Quiet(w, Item(dates(e)))
    <2>1. \A e \in Days : date(e) \in MatchItems \ {of, dates(d), type}
      BY <1>1
    <2>2. \A e \in Days \ {d} : dates(e) \in MatchItems \ {of, dates(d), type}
      BY <1>1
    <2>3. /\ \A e \in Days : Quiet(q, Item(date(e)))
          /\ \A e \in Days \ {d} : Quiet(q, Item(dates(e)))
      BY <2>1, <2>2 DEF Puts
    <2>4. QED
      BY <1>1, <2>3, StillAfter
  <1>4. /\ of \in MatchOf(u, o) /\ type \in MatchOf(u, o)
        /\ \A e \in Days : date(e) \in MatchOf(u, o) /\ dates(e) \in MatchOf(u, o)
    BY MatchOfItems
  <1>5. /\ WillMatch(p, of) <=> of \in db
        /\ WillMatch(p, type) <=> type \in db
        /\ \A e \in Days : (WillMatch(p, date(e)) <=> date(e) \in db) /\ (WillMatch(p, dates(e)) <=> dates(e) \in db)
    BY <1>0, <1>4, IdleWill
  <1>6. \A e \in Days : date(e) \in db <=> dates(e) \in db
    BY <1>5 DEF Agreed
  <1>7. \A e : /\ date(e) \in db' <=> e = d \/ date(e) \in db
               /\ dates(e) \in db' <=> dates(e) \in db
    OBVIOUS
  <1> HIDE DEF w, of, type, date, dates
  <1>8. WillMatch(p, of)' /\ WillMatch(p, type)' /\ WillMatch(p, dates(d))'
    BY <1>0, <1>2 DEF WillMatch, Will, of, type, dates
  <1>9. \A x \in MatchOf(u, o) : Quiet(w, Item(x)) => (WillMatch(p, x)' <=> x \in db')
    <2> TAKE x \in MatchOf(u, o)
    <2> SUFFICES ASSUME Quiet(w, Item(x))
                 PROVE  WillMatch(p, x)' <=> x \in db'
      OBVIOUS
    <2>1. ~Gives(w, Item(x), "in")
      BY <1>0, LeavesOne
    <2>2. WillMatch(p, x)' <=> Now(Item(x))' = "in"
      BY <1>0, <2>1 DEF WillMatch, Will
    <2>3. QED
      BY <2>2, NowOfItem
  <1>10. \A e \in Days : WillMatch(p, date(e))' <=> date(e) \in db'
    BY <1>3, <1>4, <1>9
  <1>11. \A e \in Days \ {d} : WillMatch(p, dates(e))' <=> dates(e) \in db'
    BY <1>3, <1>4, <1>9
  <1>12. \A e \in Days : WillMatch(p, date(e))' <=> WillMatch(p, dates(e))'
    BY <1>6, <1>7, <1>8, <1>10, <1>11
  <1>13. \E e \in Days : WillMatch(p, date(e))'
    BY <1>7, <1>10
  <1>14. Agreed(p, u, o)'
    BY <1>8, <1>12, <1>13 DEF Agreed, Days, of, type, date, dates
  <1>15. Busy(p, u, o)'
    <2>1. ~Quiet(todo'[p], Item(of))
      BY <1>0, <1>2, LeavesOne
    <2>2. QED
      BY <1>4, <2>1 DEF Busy, MatchOf, Links
  <1>16. QED
    BY <1>14, <1>15

\* Tracker.remove after its reading of the days: it will have taken all of them out.
LEMMA RemoveAgrees ==
  ASSUME Typed, NEW p \in Procs, NEW u \in Uuids, NEW o \in Objs,
         NEW q \in Seq(Cmds), Clears(q, u, o, {d \in Days : <<"dates", o, u, d>> \in db}),
         NEW r \in Seq(Cmds), Still(r),
         todo' = [todo EXCEPT ![p] = q \o r], db' = db,
         ~Busy(p, u, o), Agreed(p, u, o)
  PROVE  Busy(p, u, o)' /\ Agreed(p, u, o)'
  <1> DEFINE w == q \o r
             of == <<"of", o, u>>
             type == <<"type", u, o>>
             date(e) == <<"date", u, e, o>>
             dates(e) == <<"dates", o, u, e>>
             D == {d \in Days : dates(d) \in db}
  <1>0. todo'[p] = w /\ w \in Seq(Cmds) /\ todo[p] \in Seq(Cmds)
    BY DEF Typed
  <1>1. /\ of \in MatchItems /\ type \in MatchItems
        /\ \A e \in Days : date(e) \in MatchItems /\ dates(e) \in MatchItems
    <2>1. of \in MatchItems /\ type \in MatchItems
      BY DEF MatchItems
    <2>2. QED
      BY <2>1, MatchCommands
  <1>2. Gives(w, Item(of), "out") /\ Gives(w, Item(type), "out")
    BY <1>1, StillAfter DEF Clears
  <1>3. \A e \in D : Gives(w, Item(date(e)), "out") /\ Gives(w, Item(dates(e)), "out")
    <2>1. \A e \in D : Gives(q, Item(date(e)), "out") /\ Gives(q, Item(dates(e)), "out")
      BY DEF Clears
    <2>2. QED
      BY <1>1, <2>1, StillAfter
  <1>4. \A e \in Days \ D : Quiet(w, Item(date(e))) /\ Quiet(w, Item(dates(e)))
    <2>1. \A e \in Days \ D : Quiet(q, Item(date(e))) /\ Quiet(q, Item(dates(e)))
      BY <1>1 DEF Clears
    <2>2. QED
      BY <1>1, <2>1, StillAfter
  <1>5. /\ of \in MatchOf(u, o) /\ type \in MatchOf(u, o)
        /\ \A e \in Days : date(e) \in MatchOf(u, o) /\ dates(e) \in MatchOf(u, o)
    BY MatchOfItems
  <1>6. \A e \in Days : date(e) \in db <=> dates(e) \in db
    <2>1. \A e \in Days : (WillMatch(p, date(e)) <=> date(e) \in db) /\ (WillMatch(p, dates(e)) <=> dates(e) \in db)
      BY <1>0, <1>5, IdleWill
    <2>2. QED
      BY <2>1 DEF Agreed
  <1>7. \A e \in Days \ D : date(e) \notin db /\ dates(e) \notin db
    BY <1>6
  <1> HIDE DEF w, of, type, date, dates, D
  <1>8. \A x : Gives(w, Item(x), "out") => ~WillMatch(p, x)'
    <2> TAKE x
    <2> SUFFICES ASSUME Gives(w, Item(x), "out")
                 PROVE  ~WillMatch(p, x)'
      OBVIOUS
    <2>1. ~Quiet(w, Item(x)) /\ ~Gives(w, Item(x), "in")
      BY <1>0, LeavesOne
    <2>2. QED
      BY <1>0, <2>1 DEF WillMatch, Will
  <1>9. \A x : Quiet(w, Item(x)) /\ x \notin db => ~WillMatch(p, x)'
    <2> TAKE x
    <2> SUFFICES ASSUME Quiet(w, Item(x)), x \notin db
                 PROVE  ~WillMatch(p, x)'
      OBVIOUS
    <2>1. ~Gives(w, Item(x), "in")
      BY <1>0, LeavesOne
    <2>2. Now(Item(x))' # "in"
      BY NowOfItem
    <2>3. QED
      BY <1>0, <2>1, <2>2 DEF WillMatch, Will
  <1>10. ~WillMatch(p, of)' /\ ~WillMatch(p, type)'
    BY <1>2, <1>8
  <1>11. \A e \in Days : ~WillMatch(p, date(e))' /\ ~WillMatch(p, dates(e))'
    BY <1>3, <1>4, <1>7, <1>8, <1>9
  <1>12. Agreed(p, u, o)'
    BY <1>10, <1>11 DEF Agreed, Days, of, type, date, dates
  <1>13. Busy(p, u, o)'
    <2>1. ~Quiet(todo'[p], Item(of))
      BY <1>0, <1>2, LeavesOne
    <2>2. QED
      BY <1>5, <2>1 DEF Busy, MatchOf, Links
  <1>14. QED
    BY <1>12, <1>13

LEMMA AddMatchMatched ==
  ASSUME Typed, Matched, NEW p \in Procs, AddMatch(p)
  PROVE  Matched'
  <1> DEFINE c == Head(todo[p])
             u == c[2]
             o == c[3]
             d == c[4]
             r == Tail(todo[p])
             q == AddRest(u, o, d, <<"date", u, d, o>> \notin db)
  <1>1. todo[p] # <<>> /\ c[1] = "add" /\ Begins(c)
    BY DEF AddMatch, Runs, Begins
  <1>2. u \in Uuids /\ o \in Objs /\ d \in Days
    <2>1. c \in Cmds
      BY <1>1, NextCommand
    <2>2. QED
      BY <1>1, <2>1, Shapes
  <1>3. q \in Seq(MatchCmds) /\ Turns(q) /\ Puts(q, u, o, d)
    BY <1>2, AddRestTyped, AddRestDoes
  <1>4. /\ db' = db \cup {<<"date", u, d, o>>} /\ todo' = [todo EXCEPT ![p] = q \o r]
        /\ raced' = IF About(p, u, o) THEN raced \cup {<<u, o>>} ELSE raced
    BY DEF AddMatch, Then, Arg, Race
  <1>5. \A z : ~Touches(c, z)
    BY <1>1 DEF Touches
  <1>6. r \in Seq(Cmds) /\ Still(r) /\ q \in Seq(Cmds) /\ todo[p] \in Seq(Cmds)
    <2>1. todo[p] \in Seq(Cmds) /\ InTurn(todo[p]) /\ DateLinked(todo[p])
      BY DEF Typed, Matched, InOrder
    <2>2. Still(r) /\ r \in Seq(Cmds)
      BY <1>1, <2>1, TurnsOfTheRest
    <2>3. q \in Seq(Cmds)
      BY <1>3 DEF Cmds
    <2>4. QED
      BY <2>1, <2>2, <2>3
  <1>7. InOrder'
    <2>1. Expansion(p, q)
      BY <1>3 DEF Expansion, Turns
    <2> HIDE DEF q
    <2>2. QED
      BY <1>1, <1>3, <1>4, <2>1, ExpandsInTurn DEF Matched
  <1> HIDE DEF q, r, u, o, d
  <1>8. ASSUME NEW v \in Uuids, NEW s \in Objs, <<v, s>> \notin raced'
        PROVE  ByOne(v, s)'
    <2>0. ByOne(v, s)
      BY <1>4, <1>8 DEF Matched
    <2>1. CASE v = u /\ s = o
      <3>1. ~About(p, v, s)
        BY <1>4, <1>8, <2>1
      <3>2. Alone(p, v, s) /\ ~Busy(p, v, s)
        BY <1>1, <3>1, FirstAtMatch DEF Matched
      <3>3. Agreed(p, v, s)
        BY <2>0, <3>2 DEF ByOne
      <3>4. Busy(p, v, s)' /\ Agreed(p, v, s)'
        <4>1. PICK e \in Days : e = d
          BY <1>2
        <4>2. Puts(q, v, s, e) /\ db' = db \cup {<<"date", v, e, s>>}
          BY <1>3, <1>4, <2>1, <4>1
        <4>3. QED
          BY <1>4, <1>6, <3>2, <3>3, <4>2, AddAgrees
      <3>5. \A x \in Procs \ {p} : todo'[x] = todo[x]
        BY <1>4 DEF Typed
      <3>6. QED
        BY <3>2, <3>4, <3>5, BusyWithMatch
    <2>2. CASE ~(v = u /\ s = o)
      <3>1. \A x \in MatchOf(v, s) :
              x # <<"of", o, u>> /\ x # <<"type", u, o>> /\ \A e : x # <<"date", u, e, o>> /\ x # <<"dates", o, u, e>>
        BY <1>2, <2>2, MatchesDiffer
      <3>2. \A x \in MatchOf(v, s) : Now(Item(x))' = Now(Item(x)) /\ Quiet(q, Item(x))
        <4> TAKE x \in MatchOf(v, s)
        <4>1. x \in MatchItems \ {<<"of", o, u>>, <<"dates", o, u, d>>, <<"type", u, o>>}
          BY <3>1, MatchOfItems
        <4>2. Quiet(q, Item(x))
          BY <1>3, <4>1 DEF Puts
        <4>3. x \in db' <=> x \in db
          BY <1>4, <3>1
        <4>4. QED
          BY <4>2, <4>3, NowOfItem
      <3>3. Kept(v, s)
        BY <1>1, <1>3, <1>4, <1>5, <3>2, ExpansionKeeps DEF r
      <3>4. QED
        BY <2>0, <3>3, KeptByOne
    <2>3. QED
      BY <2>1, <2>2
  <1>9. QED
    BY <1>7, <1>8 DEF Matched

LEMMA RemoveMatchMatched ==
  ASSUME Typed, Matched, NEW p \in Procs, RemoveMatch(p)
  PROVE  Matched'
  <1> DEFINE c == Head(todo[p])
             u == c[2]
             o == c[3]
             r == Tail(todo[p])
             D == {d \in Days : <<"dates", o, u, d>> \in db}
             q == RemoveRest(u, o, D)
  <1>1. todo[p] # <<>> /\ c[1] = "remove" /\ Begins(c)
    BY DEF RemoveMatch, Runs, Begins
  <1>2. u \in Uuids /\ o \in Objs
    <2>1. c \in Cmds
      BY <1>1, NextCommand
    <2>2. QED
      BY <1>1, <2>1, Shapes
  <1>3. q \in Seq(MatchCmds) /\ Turns(q) /\ Clears(q, u, o, D)
    <2>1. D \in SUBSET Days
      OBVIOUS
    <2> HIDE DEF D
    <2>2. QED
      BY <1>2, <2>1, RemoveRestTyped, RemoveRestDoes
  <1>4. /\ db' = db /\ todo' = [todo EXCEPT ![p] = q \o r]
        /\ raced' = IF About(p, u, o) THEN raced \cup {<<u, o>>} ELSE raced
    BY DEF RemoveMatch, Then, Arg, Race
  <1>5. \A z : ~Touches(c, z)
    BY <1>1 DEF Touches
  <1>6. r \in Seq(Cmds) /\ Still(r) /\ q \in Seq(Cmds) /\ todo[p] \in Seq(Cmds)
    <2>1. todo[p] \in Seq(Cmds) /\ InTurn(todo[p]) /\ DateLinked(todo[p])
      BY DEF Typed, Matched, InOrder
    <2>2. Still(r) /\ r \in Seq(Cmds)
      BY <1>1, <2>1, TurnsOfTheRest
    <2>3. q \in Seq(Cmds)
      BY <1>3 DEF Cmds
    <2>4. QED
      BY <2>1, <2>2, <2>3
  <1>7. InOrder'
    <2>1. Expansion(p, q)
      BY <1>3 DEF Expansion, Turns
    <2> HIDE DEF q
    <2>2. QED
      BY <1>1, <1>3, <1>4, <2>1, ExpandsInTurn DEF Matched
  <1> HIDE DEF q, r, u, o
  <1>8. ASSUME NEW v \in Uuids, NEW s \in Objs, <<v, s>> \notin raced'
        PROVE  ByOne(v, s)'
    <2>0. ByOne(v, s)
      BY <1>4, <1>8 DEF Matched
    <2>1. CASE v = u /\ s = o
      <3>1. ~About(p, v, s)
        BY <1>4, <1>8, <2>1
      <3>2. Alone(p, v, s) /\ ~Busy(p, v, s)
        BY <1>1, <3>1, FirstAtMatch DEF Matched
      <3>3. Agreed(p, v, s)
        BY <2>0, <3>2 DEF ByOne
      <3>4. Busy(p, v, s)' /\ Agreed(p, v, s)'
        <4>1. Clears(q, v, s, {e \in Days : <<"dates", s, v, e>> \in db})
          BY <1>3, <2>1
        <4>2. QED
          BY <1>4, <1>6, <3>2, <3>3, <4>1, RemoveAgrees
      <3>5. \A x \in Procs \ {p} : todo'[x] = todo[x]
        BY <1>4 DEF Typed
      <3>6. QED
        BY <3>2, <3>4, <3>5, BusyWithMatch
    <2>2. CASE ~(v = u /\ s = o)
      <3>1. \A x \in MatchOf(v, s) :
              x # <<"of", o, u>> /\ x # <<"type", u, o>> /\ \A e : x # <<"date", u, e, o>> /\ x # <<"dates", o, u, e>>
        BY <1>2, <2>2, MatchesDiffer
      <3> HIDE DEF D
      <3>2. \A x \in MatchOf(v, s) : Now(Item(x))' = Now(Item(x)) /\ Quiet(q, Item(x))
        <4> TAKE x \in MatchOf(v, s)
        <4>1. x \in MatchItems
          BY MatchOfItems
        <4>2. Quiet(q, Item(x))
          BY <1>3, <3>1, <4>1 DEF Clears
        <4>3. QED
          BY <1>4, <4>2, NowOfItem
      <3>3. Kept(v, s)
        BY <1>1, <1>3, <1>4, <1>5, <3>2, ExpansionKeeps DEF r
      <3>4. QED
        BY <2>0, <3>3, KeptByOne
    <2>3. QED
      BY <2>1, <2>2
  <1>9. QED
    BY <1>7, <1>8 DEF Matched

----------------------------------------------------------------------------
(***************************************************************************)
(* The matches in every step: those that touch none.                       *)
(***************************************************************************)
LEMMA StillExpansion ==
  ASSUME Typed, Matched, NEW p \in Procs, todo[p] # <<>>, \A z : ~Touches(Head(todo[p]), z),
         NEW q \in Seq(MatchCmds), Still(q), NoBegins(q) \/ Begins(Head(todo[p])),
         todo' = [todo EXCEPT ![p] = q \o Tail(todo[p])], db' = db, raced' = raced
  PROVE  Matched'
  <1>1. InTurn(q) /\ DateLinked(q)
    BY StillTurns
  <1>2. InOrder'
    BY <1>1, ExpandsInTurn DEF Expansion, Matched
  <1>3. ASSUME NEW u \in Uuids, NEW o \in Objs, <<u, o>> \notin raced'
        PROVE  ByOne(u, o)'
    <2>1. \A x \in MatchOf(u, o) : Now(Item(x))' = Now(Item(x)) /\ Quiet(q, Item(x))
      BY NowOfItem, MatchOfItems DEF Still
    <2>2. Kept(u, o)
      BY <2>1, ExpansionKeeps
    <2>3. QED
      BY <1>3, <2>2, KeptByOne DEF Matched
  <1>4. QED
    BY <1>2, <1>3 DEF Matched

LEMMA StillStart ==
  ASSUME Typed, Matched, NEW p \in Procs, todo[p] = <<>>, NEW q \in Seq(Cmds), Still(q),
         todo' = [todo EXCEPT ![p] = q], db' = db, raced' = raced
  PROVE  Matched'
  <1>1. InTurn(q) /\ DateLinked(q)
    BY StillTurns
  <1>2. InOrder'
    BY <1>1, OrderKept DEF Matched
  <1>3. ASSUME NEW u \in Uuids, NEW o \in Objs, <<u, o>> \notin raced'
        PROVE  ByOne(u, o)'
    <2>1. Kept(u, o)
      BY StartKeeps
    <2>2. QED
      BY <1>3, <2>1, KeptByOne DEF Matched
  <1>4. QED
    BY <1>2, <1>3 DEF Matched

LEMMA SameMatched ==
  ASSUME Matched, todo' = todo, db' = db, raced' = raced
  PROVE  Matched'
  <1>1. InOrder'
    BY DEF Matched, InOrder, Procs, Types
  <1>2. ASSUME NEW u \in Uuids, NEW o \in Objs, <<u, o>> \notin raced'
        PROVE  ByOne(u, o)'
    <2>1. Kept(u, o)
      BY NowOfItem DEF Kept
    <2>2. QED
      BY <1>2, <2>1, KeptByOne DEF Matched
  <1>3. QED
    BY <1>1, <1>2 DEF Matched

LEMMA ReadMatchesMatched ==
  ASSUME Typed, Matched, NEW p \in Procs, ReadMatches(p)
  PROVE  Matched'
  <1> DEFINE c == Head(todo[p])
             os == SetToSeq({o \in Objs : <<"type", c[2], o>> \in db})
             q == RemoveAll(c[2], os)
  <1>1. todo[p] # <<>> /\ c[1] = "objs" /\ Begins(c)
    BY DEF ReadMatches, Runs, Begins
  <1>2. c[2] \in Uuids
    <2>1. c \in Cmds
      BY <1>1, NextCommand
    <2>2. QED
      BY <1>1, <2>1, Shapes
  <1>3. q \in Seq(MatchCmds) /\ Still(q)
    <2>1. IsFiniteSet({o \in Objs : <<"type", c[2], o>> \in db})
      BY FS_Subset, TrackersAssumption
    <2>2. os \in Seq({o \in Objs : <<"type", c[2], o>> \in db})
      BY <2>1, OrderOfSet
    <2>3. Still(RemoveAll(c[2], os))
      BY <2>2, RemoveAllStill
    <2>4. QED
      BY <1>2, <2>3, RemoveAllTyped
  <1>4. /\ todo' = [todo EXCEPT ![p] = q \o Tail(todo[p])] /\ db' = db /\ raced' = raced
    BY DEF ReadMatches, Then, Arg, histories
  <1>5. \A z : ~Touches(c, z)
    BY <1>1 DEF Touches
  <1> HIDE DEF q
  <1>6. QED
    BY <1>1, <1>3, <1>4, <1>5, StillExpansion

LEMMA UpdateRangeMatched ==
  ASSUME Typed, Matched, NEW p \in Procs, UpdateRange(p)
  PROVE  Matched'
  <1> DEFINE c == Head(todo[p])
  <1>1. /\ todo[p] # <<>> /\ db' = db /\ raced' = raced
        /\ \/ c[1] = "seen" /\ todo' = [todo EXCEPT ![p] = Seen(c[2], c[3]) \o Tail(todo[p])]
           \/ c[1] = "range" /\ todo' = [todo EXCEPT ![p] = NewRange(c[2]) \o Tail(todo[p])]
    BY DEF UpdateRange, Runs, Then, Arg, histories
  <1>2. c \in Cmds
    BY <1>1, NextCommand
  <1>3. \A z : ~Touches(c, z)
    BY <1>1 DEF Touches
  <1>4. PICK q \in Seq(RangeCmds) : todo' = [todo EXCEPT ![p] = q \o Tail(todo[p])]
    <2>1. CASE c[1] = "seen"
      <3>1. Seen(c[2], c[3]) \in Seq(RangeCmds)
        BY <1>2, <2>1, Shapes, SeenTyped
      <3>2. todo' = [todo EXCEPT ![p] = Seen(c[2], c[3]) \o Tail(todo[p])]
        BY <1>1, <2>1
      <3>3. QED
        BY <3>1, <3>2
    <2>2. CASE c[1] = "range"
      <3>1. NewRange(c[2]) \in Seq(RangeCmds)
        BY <1>2, <2>2, Shapes, NewRangeTyped
      <3>2. todo' = [todo EXCEPT ![p] = NewRange(c[2]) \o Tail(todo[p])]
        BY <1>1, <2>2
      <3>3. QED
        BY <3>1, <3>2
    <2>3. QED
      BY <1>1, <2>1, <2>2
  <1>5. q \in Seq(MatchCmds) /\ Still(q) /\ NoBegins(q)
    <2>1. Still(q) /\ Turns(q)
      BY RangeStill
    <2>2. q \in Seq(MatchCmds)
      BY RangeCommands
    <2>3. QED
      BY <2>1, <2>2 DEF Turns
  <1>6. QED
    BY <1>1, <1>3, <1>4, <1>5, StillExpansion

LEMMA UserMatched ==
  ASSUME Typed, Books, Matched, User
  PROVE  Matched'
  <1>1. PICK u \in Uuids : \/ \E a \in Asks : ApiAdd(u, a) \/ ApiEdit(u, a)
                           \/ ApiDelete(u)
                           \/ \E o \in Objs : ApiRemoveObject(u, o) \/ \E d \in Days : ApiAddObject(u, o, d)
    BY DEF User
  <1>2. Rest
    BY <1>1 DEF ApiAdd, ApiEdit, ApiDelete, ApiAddObject, ApiRemoveObject, Request, Rest
  <1>3. ASSUME NEW a \in Asks, ApiAdd(u, a)
        PROVE  \E q \in Seq(Cmds) : Still(q) /\ Request(q)
    <2>1. CreateDone(Create(u, a), u, a) /\ Request(Create(u, a)) /\ Still(Create(u, a))
      BY <1>3, CreateDoes, CreateStill DEF ApiAdd
    <2>2. QED
      BY <2>1 DEF CreateDone
  <1>4. ASSUME NEW a \in Asks, ApiEdit(u, a)
        PROVE  \E q \in Seq(Cmds) : Still(q) /\ Request(q)
    <2>1. u \in All /\ Request(Edit(u, a, hash[u]))
      BY <1>4 DEF ApiEdit
    <2>2. Whole(hash[u])
      BY <1>2, <2>1, AtRest
    <2>3. EditDone(Edit(u, a, hash[u]), u, a, hash[u]) /\ Still(Edit(u, a, hash[u]))
      BY <2>2, EditDoes, EditStill
    <2>4. QED
      BY <2>1, <2>3 DEF EditDone
  <1>5. ASSUME ApiDelete(u)
        PROVE  \E q \in Seq(Cmds) : Still(q) /\ Request(q)
    <2>1. u \in All /\ Request(Delete(u, hash[u]))
      BY <1>5 DEF ApiDelete
    <2>2. Whole(hash[u])
      BY <1>2, <2>1, AtRest
    <2>3. DeleteDone(Delete(u, hash[u]), u, hash[u]) /\ Still(Delete(u, hash[u]))
      BY <2>2, DeleteDoes, DeleteStill
    <2>4. QED
      BY <2>1, <2>3 DEF DeleteDone
  <1>6. ASSUME NEW c \in MatchCmds, Request(<<c>>), Apart(c)
        PROVE  \E q \in Seq(Cmds) : Still(q) /\ Request(q)
    <2>1. <<c>> \in Seq(Cmds)
      BY DEF Cmds
    <2>2. Still(<<c>>)
      BY <1>6, OneCommand, ApartLists
    <2>3. QED
      BY <1>6, <2>1, <2>2
  <1>7. ASSUME NEW o \in Objs, ApiRemoveObject(u, o) \/ \E d \in Days : ApiAddObject(u, o, d)
        PROVE  \E q \in Seq(Cmds) : Still(q) /\ Request(q)
    <2>1. \E c \in MatchCmds : Request(<<c>>) /\ Apart(c)
      <3>1. CASE ApiRemoveObject(u, o)
        <4>1. Apart(<<"remove", u, o>>) /\ <<"remove", u, o>> \in MatchCmds
          BY ApartCommands, MatchCommands
        <4>2. QED
          BY <3>1, <4>1 DEF ApiRemoveObject
      <3>2. CASE \E d \in Days : ApiAddObject(u, o, d)
        <4>1. PICK d \in Days : ApiAddObject(u, o, d)
          BY <3>2
        <4>2. Apart(<<"add", u, o, d>>) /\ <<"add", u, o, d>> \in MatchCmds
          BY ApartCommands, MatchCommands
        <4>3. QED
          BY <4>1, <4>2 DEF ApiAddObject
      <3>3. QED
        BY <1>7, <3>1, <3>2
    <2>2. QED
      BY <1>6, <2>1
  <1>8. PICK q \in Seq(Cmds) : Still(q) /\ Request(q)
    BY <1>1, <1>3, <1>4, <1>5, <1>7
  <1>9. Flask \in Procs /\ todo[Flask] = <<>> /\ todo' = [todo EXCEPT ![Flask] = q] /\ db' = db /\ raced' = raced
    BY <1>8 DEF Request, Procs
  <1>10. QED
    BY <1>8, <1>9, StillStart

LEMMA WorksMatched ==
  ASSUME Typed, Matched, NEW t \in Types, Works(t)
  PROVE  Matched'
  <1>1. db' = db /\ raced' = raced
    BY WorksSame
  <1>2. CASE Match(t)
    <2>1. PICK u \in mod[t].found : todo' = [todo EXCEPT ![t] = <<<<"add", u, mod[t].obj, LastDay>>>>]
      BY <1>2 DEF Match
    <2>2. t \in Procs /\ todo[t] = <<>>
      BY <1>2 DEF Match, At, Procs
    <2>3. u \in Uuids /\ mod[t].obj \in Objs /\ LastDay \in Days
      <3>1. mod[t] \in Mods /\ mod[t].pc = "match"
        BY <1>2 DEF Typed, Match, At
      <3>2. u \in Uuids
        BY <3>1 DEF Mods
      <3>3. mod[t].obj \in Objs
        BY <3>1 DEF Typed
      <3>4. LastDay \in Days
        BY TrackersAssumption DEF Days
      <3>5. QED
        BY <3>2, <3>3, <3>4
    <2> DEFINE c == <<"add", u, mod[t].obj, LastDay>>
    <2>4. c \in MatchCmds /\ Apart(c)
      BY <2>3, MatchCommands, ApartCommands
    <2> HIDE DEF c
    <2>5. <<c>> \in Seq(Cmds) /\ Still(<<c>>)
      BY <2>4, ApartLists DEF Cmds
    <2>6. todo' = [todo EXCEPT ![t] = <<c>>]
      BY <2>1 DEF c
    <2>7. QED
      BY <1>1, <2>2, <2>5, <2>6, StillStart
  <1>3. CASE GivesUp(t)
    <2>1. /\ t \in Procs /\ todo[t] # <<>> /\ Head(todo[t])[1] = "seen"
          /\ todo' = [todo EXCEPT ![t] = Tail(todo[t])]
      BY <1>3 DEF GivesUp, Raises, Runs, Sent, Procs
    <2>2. \A z : ~Touches(Head(todo[t]), z)
      BY <2>1 DEF Touches
    <2>3. <<>> \in Seq(MatchCmds) /\ Still(<<>>) /\ NoBegins(<<>>)
      BY DEF Still, Quiet, NoBegins
    <2>4. Tail(todo[t]) = <<>> \o Tail(todo[t])
      BY <2>1, NextCommand
    <2>5. todo' = [todo EXCEPT ![t] = <<>> \o Tail(todo[t])]
      BY <2>1, <2>4
    <2>6. QED
      BY <1>1, <2>1, <2>2, <2>3, <2>5, StillExpansion
  <1>4. CASE todo' = todo
    BY <1>1, <1>4, SameMatched
  <1>5. QED
    BY <1>2, <1>3, <1>4 DEF Works, Take, ReadTerms, Stamp, Look, Found

LEMMA StepMatched == Typed /\ Books /\ Matched /\ [Next]_vars => Matched'
  <1> SUFFICES ASSUME Typed, Books, Matched, [Next]_vars
               PROVE  Matched'
    OBVIOUS
  <1>0. Typed'
    BY StepTyped
  <1>1. CASE UNCHANGED vars
    BY <1>1, SameMatched DEF vars
  <1>2. CASE User
    BY <1>2, UserMatched
  <1>3. CASE \E p \in Procs : Command(p)
    <2>1. PICK p \in Procs : Command(p)
      BY <1>3
    <2>2. QED
      BY <1>0, <2>1, SendsMatched, AddMatchMatched, RemoveMatchMatched, ReadMatchesMatched, UpdateRangeMatched
         DEF Command, Sends
  <1>4. CASE \E t \in Types : Works(t)
    BY <1>4, WorksMatched
  <1>5. QED
    BY <1>1, <1>2, <1>3, <1>4, Steps

LEMMA InitMatched == Init => Matched
  <1> SUFFICES ASSUME Init
               PROVE  Matched
    OBVIOUS
  <1>1. db = {} /\ \A p \in Procs : todo[p] = <<>>
    BY DEF Init
  <1>2. Still(<<>>) /\ <<>> \in Seq(Cmds)
    BY EmptyList DEF Still
  <1>3. InOrder
    BY <1>1, <1>2, StillTurns DEF InOrder
  <1>4. ASSUME NEW u \in Uuids, NEW o \in Objs
        PROVE  ByOne(u, o)
    <2>1. \A p \in Procs : ~Busy(p, u, o)
      BY <1>1, EmptyList DEF Busy
    <2>2. \A p \in Procs : \A x : ~WillMatch(p, x)
      BY <1>1, EmptyList, NowOfItem DEF WillMatch, Will
    <2>3. \A p \in Procs : Agreed(p, u, o)
      BY <2>2 DEF Agreed
    <2>4. QED
      BY <2>1, <2>3 DEF ByOne
  <1>5. QED
    BY <1>3, <1>4 DEF Matched

LEMMA MatchesFollow ==
  ASSUME Matched
  PROVE  MatchesAgree
  <1> SUFFICES ASSUME Settled, NEW u \in Uuids, NEW o \in Objs, <<u, o>> \notin raced
               PROVE  LET days == {d \in Days : <<"date", u, d, o>> \in db}
                      IN  /\ days = {d \in Days : <<"dates", o, u, d>> \in db}
                          /\ <<"of", o, u>> \in db <=> days # {}
                          /\ <<"type", u, o>> \in db <=> days # {}
    BY DEF MatchesAgree
  <1>1. Flask \in Procs /\ \A p \in Procs : todo[p] = <<>>
    BY DEF Settled, Rest, Procs
  <1>2. \A p \in Procs : ~Busy(p, u, o)
    BY <1>1, EmptyList DEF Busy
  <1>3. Agreed(Flask, u, o)
    BY <1>1, <1>2 DEF Matched, ByOne, Alone
  <1>4. todo[Flask] \in Seq(Cmds)
    <2>1. <<>> \in Seq(Cmds)
      OBVIOUS
    <2>2. QED
      BY <1>1, <2>1
  <1>5. \A x \in MatchOf(u, o) : WillMatch(Flask, x) <=> x \in db
    BY <1>1, <1>2, <1>4, IdleWill
  <1>6. /\ WillMatch(Flask, <<"of", o, u>>) <=> <<"of", o, u>> \in db
        /\ WillMatch(Flask, <<"type", u, o>>) <=> <<"type", u, o>> \in db
        /\ \A d \in Days : /\ WillMatch(Flask, <<"date", u, d, o>>) <=> <<"date", u, d, o>> \in db
                           /\ WillMatch(Flask, <<"dates", o, u, d>>) <=> <<"dates", o, u, d>> \in db
    BY <1>5, MatchOfItems
  <1>7. QED
    BY <1>3, <1>6 DEF Agreed

\* Between the requests and the objects, the four sets that link a match to its tracker and
\* its days agree, unless it was removed while it was added.
THEOREM MatchesCorrect == Spec => []MatchesAgree
<1>1. Init => Typed /\ Books /\ Matched
  BY InitBooks, InitMatched
<1>2. Typed /\ Books /\ [Next]_vars => Typed' /\ Books'
  BY StepTyped, StepBooks
<1>3. Typed /\ Books /\ Matched /\ [Next]_vars => Matched'
  BY StepMatched
<1>4. Matched => MatchesAgree
  BY MatchesFollow
<1> QED
  BY <1>1, <1>2, <1>3, <1>4, PTL DEF Spec
=============================================================================
