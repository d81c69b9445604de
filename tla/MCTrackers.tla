---------------------------- MODULE MCTrackers ----------------------------
(***************************************************************************)
(* Small instances of Trackers.                                            *)
(***************************************************************************)
EXTENDS Trackers, TLC

A(t, w, l, f) == [type |-> t, tracked |-> w, level |-> l, filters |-> f]

\* A word for everyone; another with a filter and for its user only; a regex of the
\* organisation.
TwoTypes == {A("word", "w1", 1, {}), A("word", "w2", 0, {"item"}), A("regex", "w1", 2, {})}
TwoKinds == {"item", "message"}
Items == [o \in Objs |-> "item"]
AllHits == Terms \X Objs
Symmetry == Permutations(Uuids)
=============================================================================
