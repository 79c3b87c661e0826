------------------------- MODULE BPlusTreeInvariant -------------------------
(***************************************************************************)
(* The inductive invariant of the B+ tree.  It speaks of trees half way    *)
(* through an Insert or a Delete as well, so it takes the nodes as an      *)
(* argument.  Each node has a span, the keys that a search leads through   *)
(* it, and a level; nodes nothing leads to have an empty span.             *)
(***************************************************************************)
EXTENDS BPlusTree

\* A row for a key: the index is unique.
OneRowPerKey == \A r, q \in Rows : r.key = q.key => r = q

Ascending(s) == \A i, j \in 1..Len(s) : i < j => s[i] < s[j]

Within(s, S) == \A i \in 1..Len(s) : s[i] \in S

\* The keys of a set that child j of a node with those separators gets.
Part(S, keys, j) ==
  {k \in S : (j > 1 => keys[j - 1] <= k) /\ (j <= Len(keys) => k < keys[j])}

\* A set cut at a key.
Low(S, m) == {k \in S : k < m}
High(S, m) == {k \in S : m <= k}

Node(n) == [leaf : BOOLEAN, keys : Seq(Keys), locs : Seq(Locs), kids : Seq(1..n),
            next : 0..n, prev : 0..n]

LeafFits(n, S) ==
  /\ Len(n.locs) = Len(n.keys) /\ n.kids = << >>
  /\ Ascending(n.keys) /\ Within(n.keys, S)

\* seen: the spans a node goes by for the level above.
ForkFits(n, S, h, seen, level) ==
  /\ Len(n.kids) = Len(n.keys) + 1 /\ n.locs = << >>
  /\ \A j \in 1..Len(n.kids) : level[n.kids[j]] < h
  /\ S # {} =>
       /\ Ascending(n.keys) /\ Within(n.keys, S)
       /\ \A j \in 1..Len(n.kids) :
            /\ level[n.kids[j]] = h - 1
            /\ seen[n.kids[j]] = Part(S, n.keys, j) /\ Part(S, n.keys, j) # {}

NodeFits(n, S, h, seen, level) ==
  IF n.leaf THEN (S # {} => h = 0) /\ LeafFits(n, S) ELSE ForkFits(n, S, h, seen, level)

Fits(ns, seen, span, level) ==
  \A id \in 1..Len(ns) : NodeFits(ns[id], span[id], level[id], seen, level)

\* The nodes of a level share out the keys.
Apart(span, level) ==
  \A a, b \in DOMAIN span : a # b /\ level[a] = level[b] => span[a] \cap span[b] = {}

\* The root is above all nodes that a search may lead to.
Topped(span, level, top) ==
  \A id \in DOMAIN span : span[id] # {} => level[id] <= level[top]

Convex(S) == \A x, y \in S, k \in Keys : x <= k /\ k <= y => k \in S

Before(S, T) == \A x \in S, y \in T : x < y

\* T goes on where S ends.
Adjacent(S, T) == Before(S, T) /\ Convex(S \cup T)

AtEnd(S) == \A x \in S, k \in Keys : x <= k => k \in S

LiveLeaf(ns, span, id) == id \in 1..Len(ns) /\ ns[id].leaf /\ span[id] # {}

\* The links run through the leaves in the order of their spans, and the
\* last leaf has the greatest keys.
LinkFits(ns, span, a) ==
  IF ~LiveLeaf(ns, span, a) THEN ns[a].next = NoLeaf
  ELSE /\ IF ns[a].next = NoLeaf
          THEN AtEnd(span[a])
          ELSE /\ LiveLeaf(ns, span, ns[a].next) /\ ns[ns[a].next].prev = a
               /\ Adjacent(span[a], span[ns[a].next])
       /\ ns[a].prev # NoLeaf => LiveLeaf(ns, span, ns[a].prev) /\ ns[ns[a].prev].next = a

Linked(ns, span) == \A a \in 1..Len(ns) : LinkFits(ns, span, a)

Shape(ns, seen, span, level) ==
  /\ ns \in Seq(Node(Len(ns)))
  /\ span \in [1..Len(ns) -> SUBSET Keys] /\ level \in [1..Len(ns) -> Nat]
  /\ Fits(ns, seen, span, level) /\ Apart(span, level)
  /\ (\A id \in 1..Len(ns) : Convex(span[id]))
  /\ Linked(ns, span)

\* Every node fits its page and all but the root are half full; of a node on
\* the way up from a deletion one key may be missing.
NodeFilled(n, S, id, top, low) ==
  /\ Count(n) <= IF n.leaf THEN LeafOrder ELSE InternalOrder
  /\ S # {} =>
       /\ id # top => Count(n) >= MinKeys(n) - (IF id = low THEN 1 ELSE 0)
       /\ id = top /\ ~n.leaf /\ id # low => Count(n) >= 1

Filled(ns, span, top, low) ==
  \A id \in 1..Len(ns) : NodeFilled(ns[id], span[id], id, top, low)

EntriesOf(n) == {<<n.keys[i], n.locs[i]>> : i \in 1..Len(n.locs)}

Entries(ns) == UNION {EntriesOf(ns[id]) : id \in 1..Len(ns)}

\* The leaves hold what was stored.
Recorded(ns) ==
  /\ stored \in [Keys -> Seq(Locs)]
  /\ \A key \in Keys : \/ stored[key] = << >>
                       \/ \E row \in Rows : row.key = key /\ stored[key] = <<row.loc>>
  /\ \A key \in Keys, loc \in Locs : <<key, loc>> \in Entries(ns) <=> stored[key] = <<loc>>

GoodTree(span, level) ==
  /\ root \in 1..Len(nodes) /\ span[root] = Keys /\ Topped(span, level, root)
  /\ Shape(nodes, span, span, level) /\ Filled(nodes, span, root, 0) /\ Recorded(nodes)

TreeKept == \E span, level : GoodTree(span, level)

-----------------------------------------------------------------------------
(* The same with the spans and levels of the tree as it is.                *)

SpanOf == [id \in NodeIds |-> {key \in Keys : id \in ToSet(PathTo(key))}]

LevelOf ==
  LET level[id \in NodeIds] ==
        IF nodes[id].leaf THEN 0
        ELSE Max({level[kid] : kid \in ToSet(nodes[id].kids)}) + 1
  IN  level

TInv == GoodTree(SpanOf, LevelOf)
=============================================================================
