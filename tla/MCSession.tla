------------------------------ MODULE MCSession ------------------------------
(***************************************************************************)
(* Session on a small instance: two key values, so that statements collide *)
(* on them, and a heap of two pages of two rows.                           *)
(***************************************************************************)
EXTENDS SessionInvariant

MCKeys == {0, 1}
MCVals == {0, 1}

\* A third key value, for an UPDATE that moves two rows onto a free key.
MCThreeKeys == {0, 1, 2}
=============================================================================
