------------------------------- MODULE KeyIndex ------------------------------
(***************************************************************************)
(* What the executor asks of the B+ tree of an index: for every key the    *)
(* row ids stored under it.  Insert puts a new entry at the lower bound of *)
(* its key, in front of its equals, and Delete takes the first entry with  *)
(* the key whatever row it names, so the entries of a key are a stack.     *)
(***************************************************************************)
EXTENDS Sequences

EmptyIndex(keys) == [k \in keys |-> << >>]

PointQuery(index, key) == {index[key][i] : i \in DOMAIN index[key]}

TreeInsert(index, key, rid) == [index EXCEPT ![key] = <<rid>> \o @]

TreeDelete(index, key) ==
  IF index[key] = << >> THEN index ELSE [index EXCEPT ![key] = Tail(@)]
=============================================================================
