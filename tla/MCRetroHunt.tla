---------------------------- MODULE MCRetroHunt ----------------------------
(***************************************************************************)
(* Small instances of RetroHunt: the objects of an AIL of two days.        *)
(***************************************************************************)
EXTENDS RetroHunt

O(t, s, d, c) == [type |-> t, source |-> s, day |-> d, content |-> c]

\* A decoded object, two sources with items of both days, a message.
TwoSources == <<O("decoded", 0, 1, TRUE), O("item", 1, 2, TRUE),
                O("item", 2, 1, TRUE), O("item", 2, 2, FALSE), O("message", 0, 1, TRUE)>>

AllHits == Hunts \X Obj
=============================================================================
