----------------------------- MODULE MCBPlusTree -----------------------------
(***************************************************************************)
(* BPlusTree with nodes so small that the tree grows to three levels.      *)
(***************************************************************************)
EXTENDS BPlusTreeInvariant

\* One row for a key, each at a location of its own.
MCUniqueRows == {[key |-> k, loc |-> 10 * k] : k \in 1..6}

\* Two rows for a key: PointQueriesExact is violated once a split parts them.
MCTwinRows == {[key |-> k, loc |-> 10 * k + i] : k \in 1..2, i \in 1..2}
=============================================================================
