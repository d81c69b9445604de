------------------------------ MODULE MCAilSync ------------------------------
(***************************************************************************)
(* AilSync for TLC: two instances are alike.                               *)
(***************************************************************************)
EXTENDS AilSync, TLC

Alike == Permutations(Ails)
=============================================================================
