----------------------------- MODULE OrderedIndex ----------------------------
(***************************************************************************)
(* What the executor asks of the B+ tree of an index whose keys are        *)
(* strings of bytes: the entries [key, rid] in the order of their keys.    *)
(* As in KeyIndex, a new entry goes in front of its equals and Delete      *)
(* takes the first entry with the key, whatever row it names.              *)
(***************************************************************************)
EXTENDS IndexKey, SequencesExt

Entry(key, rid) == [key |-> key, rid |-> rid]

TreeInsert(tree, key, rid) ==
  LET Before(e) == KeyLess(e.key, key)
      After(e)  == ~KeyLess(e.key, key)
  IN  SelectSeq(tree, Before) \o <<Entry(key, rid)>> \o SelectSeq(tree, After)

TreeDelete(tree, key) ==
  LET Has(e) == e.key = key IN RemoveFirstMatch(tree, Has)

\* The rows of a part of the tree, in the order of the leaves.
Located(entries) == [i \in DOMAIN entries |-> entries[i].rid]

PointQuery(tree, key) ==
  LET Has(e) == e.key = key IN Located(SelectSeq(tree, Has))

RangeQuery(tree, start, end, startOpen, endOpen) ==
  LET Inside(e) ==
        /\ IF startOpen THEN KeyLess(start, e.key) ELSE ~KeyLess(e.key, start)
        /\ IF endOpen   THEN KeyLess(e.key, end)   ELSE ~KeyLess(end, e.key)
  IN  Located(SelectSeq(tree, Inside))
=============================================================================
