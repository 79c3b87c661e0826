---------------------------- MODULE MCDurability ----------------------------
(***************************************************************************)
(* Durability on a small instance: a heap of two pages of one row, so that *)
(* each row reaches the disk on its own.                                   *)
(***************************************************************************)
EXTENDS SurvivalInvariant

MCOneKey  == {0}
MCTwoKeys == {0, 1}
MCVals    == {0, 1}
MCStrays  == {7}
=============================================================================
