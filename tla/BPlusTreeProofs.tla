-------------------------- MODULE BPlusTreeProofs ---------------------------
(***************************************************************************)
(* Proofs about the B+ tree of a unique index, for every set of rows and   *)
(* every size of nodes: Insert and Delete keep the tree, from the leaf to  *)
(* the root; a walk through the leaves lists what is stored in key order,  *)
(* and queries read from it; the levels of the tree, and the spans and     *)
(* levels of the tree as it is; the theorems.                              *)
(***************************************************************************)
EXTENDS BPlusTreeNodeProofs

-----------------------------------------------------------------------------
(* Insert, from the leaf to the root.                                      *)

\* What the levels from d down make of the tree.
Climbs(f, path, t) ==
  f = [d \in 1..Len(path) |-> IF d = Len(path) THEN t ELSE InsertIntoParent(path[d], f[d + 1])]

LEMMA ClimbExists ==
  ASSUME NEW path, Len(path) \in Nat \ {0}, NEW t
  PROVE  \E f : Climbs(f, path, t)
<1> DEFINE L == Len(path)
           From(k) == k..L
           G(f, k) == f = [d \in From(k) |-> IF d = L THEN t ELSE InsertIntoParent(path[d], f[d + 1])]
           T == {k \in Nat : k < L => \E f : G(f, L - k)}
<1>1. L \in Nat /\ L >= 1
  OBVIOUS
<1> HIDE DEF L
<1>2. 0 \in T
  <2> DEFINE f == [d \in From(L - 0) |-> t]
  <2>1. \A d \in From(L - 0) : d = L
    BY <1>1
  <2>2. G(f, L - 0)
    BY <2>1
  <2>3. QED
    BY <2>2
<1>3. ASSUME NEW k \in Nat, k \in T PROVE k + 1 \in T
  <2>1. SUFFICES ASSUME k + 1 < L PROVE \E g : G(g, L - (k + 1))
    OBVIOUS
  <2> DEFINE e == L - (k + 1)
  <2>2. k < L /\ L - k = e + 1 /\ e \in Nat /\ e # L
    BY <1>1, <2>1
  <2>3. PICK f : G(f, e + 1)
    BY <1>3, <2>2
  <2> HIDE DEF e
  <2> DEFINE g == [d \in From(e) |-> IF d = e THEN InsertIntoParent(path[e], f[e + 1]) ELSE f[d]]
  <2>4. \A d \in From(e) : /\ d # e => d \in From(e + 1)
                           /\ d # L => d + 1 \in From(e) /\ d + 1 # e
                           /\ d # L => d + 1 \in From(e + 1)
    BY <1>1, <2>2
  <2>5. \A d \in From(e + 1) : f[d] = IF d = L THEN t ELSE InsertIntoParent(path[d], f[d + 1])
    BY <2>3
  <2> HIDE DEF From
  <2>6. \A d \in From(e) : d # L => g[d + 1] = f[d + 1]
    BY <2>4
  <2>7. \A d \in From(e) : g[d] = IF d = L THEN t ELSE InsertIntoParent(path[d], g[d + 1])
    BY <2>2, <2>4, <2>5, <2>6
  <2>8. g = [d \in From(e) |-> g[d]]
    OBVIOUS
  <2> HIDE DEF g
  <2>9. g = [d \in From(e) |-> IF d = L THEN t ELSE InsertIntoParent(path[d], g[d + 1])]
    BY <2>7, <2>8
  <2>10. QED
    BY <2>9 DEF e
<1> HIDE DEF T
<1>4. \A k \in Nat : k \in T
  BY <1>2, <1>3, SetInduction
<1>5. L - 1 \in T /\ L - 1 < L /\ L - (L - 1) = 1 /\ L - 1 \in Nat
  BY <1>1, <1>4
<1>6. PICK f : G(f, L - (L - 1))
  BY <1>5 DEF T
<1>7. G(f, 1)
  BY <1>5, <1>6
<1>8. QED
  BY <1>7 DEF Climbs, L

LEMMA ClimbGrows ==
  ASSUME NEW span0, NEW level0, GoodTree(span0, level0), NEW key \in Keys, NEW loc \in Locs,
         NEW path, path = PathTo(key), NEW t \in InLeaf(Last(path), key, loc),
         Absent(key, nodes[Last(path)].keys), NEW f, Climbs(f, path, t)
  PROVE  \E seen, span, level : Grown(f[1].nodes, f[1].up, root, key, loc, span0, level0, seen, span, level)
<1> DEFINE L == Len(path)
           OK(d) == \E seen, span, level :
                      Grown(f[d].nodes, f[d].up, path[d], key, loc, span0, level0, seen, span, level)
           T == {k \in Nat : k < L => OK(L - k)}
<1>1. Leads(path, root, key, span0, level0)
  BY PathFound
<1>2. /\ Shape(nodes, span0, span0, level0) /\ root \in NodeIds /\ NodeIds = 1..Len(nodes)
      /\ level0 \in [NodeIds -> Nat]
  BY GoodTreeFacts
<1>3. /\ path \in Seq(NodeIds) /\ L = level0[root] + 1 /\ path[1] = root
      /\ \A d \in 1..L : /\ key \in span0[path[d]] /\ (nodes[path[d]].leaf <=> d = L)
      /\ \A d \in 1..L : d < L => path[d + 1] = ChildFor(nodes[path[d]], key)
  BY <1>1, <1>2 DEF Leads
<1>4. L \in Nat /\ L >= 1
  BY <1>2, <1>3
<1>5. \A d \in 1..L : path[d] \in NodeIds
  BY <1>3, SeqFacts
<1>6. \A d \in 1..L : f[d] = IF d = L THEN t ELSE InsertIntoParent(path[d], f[d + 1])
  BY DEF Climbs
<1>7. Last(path) = path[L]
  BY DEF Last
<1> HIDE DEF L
<1>8. 0 \in T
  <2>1. L \in 1..L /\ L - 0 = L
    BY <1>4
  <2>2. LiveLeaf(nodes, span0, path[L]) /\ key \in span0[path[L]]
    BY <2>1, <1>2, <1>3, <1>5 DEF LiveLeaf
  <2>3. f[L] = t
    BY <2>1, <1>6
  <2>4. OK(L)
    BY <2>2, <2>3, <1>7, LeafGrown
  <2>5. QED
    BY <2>1, <2>4
<1>9. ASSUME NEW k \in Nat, k \in T PROVE k + 1 \in T
  <2>1. SUFFICES ASSUME k + 1 < L PROVE OK(L - (k + 1))
    OBVIOUS
  <2> DEFINE d == L - (k + 1)
             p == path[d]
  <2>2. d \in 1..L /\ d < L /\ d # L /\ d + 1 \in 1..L /\ L - k = d + 1 /\ k < L
    BY <2>1, <1>4
  <2>3. OK(d + 1)
    BY <2>2, <1>9
  <2>4. PICK seen, span, level :
          Grown(f[d + 1].nodes, f[d + 1].up, path[d + 1], key, loc, span0, level0, seen, span, level)
    BY <2>3
  <2>5. f[d] = InsertIntoParent(path[d], f[d + 1])
    BY <2>2, <1>6
  <2> HIDE DEF d
  <2>6. p \in NodeIds /\ ~nodes[p].leaf /\ key \in span0[p] /\ path[d + 1] = ChildFor(nodes[p], key)
    BY <2>2, <1>3, <1>5
  <2> HIDE DEF p
  <2>7. /\ nodes[p].keys \in Seq(Int) /\ key \in Int
        /\ Len(nodes[p].kids) = Len(nodes[p].keys) + 1
    BY <2>6, <1>2, ShapeFacts, KeysAreInts DEF ForkFits
  <2> DEFINE j == ChildPlace(nodes[p], key)
  <2>8. j \in 1..Len(nodes[p].kids) /\ path[d + 1] = nodes[p].kids[j]
    BY <2>6, <2>7, ChildPlaceIs
  <2> HIDE DEF j
  <2>9. span0[p] # {} /\ f[d] = InsertIntoParent(p, f[d + 1])
    BY <2>5, <2>6 DEF p
  <2>10. \E seen2, span2, level2 :
           Grown(f[d].nodes, f[d].up, p, key, loc, span0, level0, seen2, span2, level2)
    BY <2>4, <2>6, <2>8, <2>9, ParentGrown
  <2>11. QED
    BY <2>10 DEF p, d
<1> HIDE DEF T
<1>10. \A k \in Nat : k \in T
  BY <1>8, <1>9, SetInduction
<1>11. L - 1 \in T /\ L - 1 < L /\ L - (L - 1) = 1 /\ L - 1 \in Nat
  BY <1>4, <1>10
<1>12. OK(L - (L - 1))
  BY <1>11 DEF T
<1>13. OK(1)
  BY <1>11, <1>12
<1>14. QED
  BY <1>13, <1>3

\* What the steps say of stored, one key at a time.
LEMMA StoredMore ==
  ASSUME OneRowPerKey, Recorded(nodes), NEW row \in Rows, row.loc \notin PointQuery(stored, row.key)
  PROVE  /\ stored[row.key] = << >>
         /\ TreeInsert(stored, row.key, row.loc) = [stored EXCEPT ![row.key] = <<row.loc>>]
<1>1. row.key \in Keys /\ stored \in [Keys -> Seq(Locs)]
  BY DEF Recorded, Keys
<1>2. stored[row.key] = << >> \/ \E q \in Rows : q.key = row.key /\ stored[row.key] = <<q.loc>>
  BY <1>1 DEF Recorded
<1>3. ASSUME NEW q \in Rows, q.key = row.key, stored[row.key] = <<q.loc>> PROVE FALSE
  <2>1. q = row
    BY <1>3 DEF OneRowPerKey
  <2>2. 1 \in DOMAIN stored[row.key] /\ stored[row.key][1] = row.loc
    BY <1>3, <2>1
  <2>3. QED
    BY <2>2 DEF PointQuery
<1>4. stored[row.key] = << >>
  BY <1>2, <1>3
<1>5. row.loc \in Locs
  BY DEF Locs
<1>6. <<row.loc>> \o << >> = <<row.loc>>
  BY <1>5
<1>7. QED
  BY <1>4, <1>6 DEF TreeInsert

LEMMA AbsentIs ==
  ASSUME NEW span, NEW level, GoodTree(span, level), NEW key \in Keys, stored[key] = << >>,
         NEW id \in NodeIds, nodes[id].leaf
  PROVE  Absent(key, nodes[id].keys)
<1>1. /\ nodes[id].locs \in Seq(Locs) /\ Len(nodes[id].locs) = Len(nodes[id].keys)
      /\ id \in 1..Len(nodes)
  BY GoodTreeFacts, ShapeFacts DEF LeafFits
<1>2. SUFFICES ASSUME NEW i \in 1..Len(nodes[id].keys), nodes[id].keys[i] = key PROVE FALSE
  BY DEF Absent
<1>3. nodes[id].locs[i] \in Locs /\ i \in 1..Len(nodes[id].locs)
  BY <1>1, SeqFacts
<1>4. <<key, nodes[id].locs[i]>> \in EntriesOf(nodes[id])
  BY <1>2, <1>3 DEF EntriesOf
<1>5. <<key, nodes[id].locs[i]>> \in Entries(nodes)
  BY <1>1, <1>4 DEF Entries
<1>6. stored[key] = <<nodes[id].locs[i]>>
  BY <1>3, <1>5, GoodTreeFacts DEF Recorded
<1>7. \A x : <<x>> # << >>
  <2>1. \A x : Len(<<x>>) = 1 /\ Len(<< >>) = 0
    OBVIOUS
  <2>2. QED
    BY <2>1
<1>8. QED
  BY <1>6, <1>7

LEMMA InsertKeepsTree ==
  ASSUME OneRowPerKey, NEW span, NEW level, GoodTree(span, level),
         NEW row \in Rows, Insert(row.key, row.loc)
  PROVE  TreeKept'
<1> DEFINE key == row.key
           loc == row.loc
           path == PathTo(key)
<1>1. key \in Keys /\ loc \in Locs
  BY DEF Keys, Locs
<1>2. stored[key] = << >> /\ TreeInsert(stored, key, loc) = [stored EXCEPT ![key] = <<loc>>]
  BY GoodTreeFacts, StoredMore DEF Insert
<1>3. PICK t \in InLeaf(Last(path), key, loc) :
        \E f : /\ f = CHOOSE g : Climbs(g, path, t)
               /\ nodes' = NewRoot(f[1]).nodes /\ root' = NewRoot(f[1]).root
  BY DEF Insert, Climbs
<1>4. PICK f : /\ f = CHOOSE g : Climbs(g, path, t)
               /\ nodes' = NewRoot(f[1]).nodes /\ root' = NewRoot(f[1]).root
  BY <1>3
<1>5. stored' = [stored EXCEPT ![key] = <<loc>>]
  BY <1>2 DEF Insert
<1>6. Leads(path, root, key, span, level)
  BY <1>1, PathFound
<1>7. /\ path \in Seq(1..Len(nodes)) /\ Len(path) \in Nat /\ Len(path) = level[root] + 1
      /\ \A d \in 1..Len(path) : nodes[path[d]].leaf <=> d = Len(path)
  BY <1>6, SeqFacts DEF Leads
<1>8. Len(path) \in Nat \ {0}
  <2>1. level[root] \in Nat
    BY GoodTreeFacts
  <2>2. QED
    BY <2>1, <1>7
<1> HIDE DEF path
<1>9. Climbs(f, path, t)
  BY <1>4, <1>8, ClimbExists
<1>10. Last(path) \in NodeIds /\ nodes[Last(path)].leaf
  <2>1. Len(path) \in 1..Len(path)
    BY <1>8
  <2>2. QED
    BY <2>1, <1>7, SeqFacts DEF Last, NodeIds
<1>11. Absent(key, nodes[Last(path)].keys)
  BY <1>1, <1>2, <1>10, AbsentIs
<1> HIDE DEF key, loc
<1>12. path = PathTo(key)
  BY DEF path
<1>13. PICK seen1, span1, level1 : Grown(f[1].nodes, f[1].up, root, key, loc, span, level, seen1, span1, level1)
  BY <1>1, <1>3, <1>9, <1>11, <1>12, ClimbGrows
<1>14. /\ \E span2, level2 : GoodFrom(nodes', root', span2, level2)
       /\ Entries(nodes') = Entries(nodes) \cup {<<key, loc>>}
  <2> DEFINE top == f[1]
             tree == NewRoot(top)
  <2>1. nodes' = tree.nodes /\ root' = tree.root
    BY <1>4
  <2>2. Grown(top.nodes, top.up, root, key, loc, span, level, seen1, span1, level1)
    BY <1>13
  <2>3. Rooted(tree.nodes, tree.root, key, loc)
    <3> HIDE DEF top, tree
    <3>1. tree = NewRoot(top) /\ GoodTree(span, level)
      BY DEF tree
    <3>2. QED
      BY <3>1, <2>2, RootGrown
  <2> HIDE DEF tree
  <2>4. QED
    BY <2>1, <2>3 DEF Rooted
<1>15. PICK span2, level2 : GoodFrom(nodes', root', span2, level2)
  BY <1>14
<1>16. Recorded(nodes)'
  <2>1. /\ stored \in [Keys -> Seq(Locs)]
        /\ \A k \in Keys : stored[k] = << >> \/ \E q \in Rows : q.key = k /\ stored[k] = <<q.loc>>
        /\ \A k \in Keys, l \in Locs : <<k, l>> \in Entries(nodes) <=> stored[k] = <<l>>
    BY GoodTreeFacts DEF Recorded
  <2>2. <<loc>> \in Seq(Locs)
    BY <1>1
  <2>3. stored' \in [Keys -> Seq(Locs)]
    BY <2>1, <2>2, <1>5
  <2>4. stored'[key] = <<loc>> /\ \A k \in Keys : k # key => stored'[k] = stored[k]
    BY <2>1, <1>1, <1>5
  <2>5. \A k \in Keys : stored'[k] = << >> \/ \E q \in Rows : q.key = k /\ stored'[k] = <<q.loc>>
    BY <2>1, <2>4 DEF key, loc
  <2>6. ASSUME NEW k \in Keys, NEW l \in Locs
        PROVE  <<k, l>> \in Entries(nodes') <=> stored'[k] = <<l>>
    <3>1. CASE k = key
      <4>1. <<k, l>> \notin Entries(nodes)
        <5>1. Len(<<l>>) = 1 /\ Len(<< >>) = 0
          OBVIOUS
        <5>2. stored[k] # <<l>>
          BY <5>1, <3>1, <1>2 DEF key
        <5>3. QED
          BY <5>2, <2>1
      <4>2. <<k, l>> \in Entries(nodes') <=> l = loc
        BY <4>1, <3>1, <1>14
      <4>3. <<loc>> = <<l>> <=> l = loc
        OBVIOUS
      <4>4. QED
        BY <4>2, <4>3, <3>1, <2>4
    <3>2. CASE k # key
      BY <3>2, <1>14, <2>1, <2>4
    <3>3. QED
      BY <3>1, <3>2
  <2>7. QED
    BY <2>3, <2>5, <2>6 DEF Recorded
<1>17. GoodTree(span2, level2)'
  BY <1>15, <1>16 DEF GoodFrom, GoodTree
<1>18. QED
  BY <1>17 DEF TreeKept

-----------------------------------------------------------------------------
(* Delete, from the leaf to the root.                                      *)

\* The leaf that loses the entry.
LosesEntry(ns2, q, id, key, loc, span, level) ==
  /\ Shape(nodes, span, span, level) /\ LiveLeaf(nodes, span, id) /\ key \in span[id]
  /\ Changed(ns2, nodes, id, q) /\ EntriesOf(q) = EntriesOf(nodes[id]) \ {<<key, loc>>}

LEMMA EntriesLess ==
  ASSUME NEW ns2, NEW q, NEW id, NEW key, NEW loc, NEW span, NEW level,
         LosesEntry(ns2, q, id, key, loc, span, level)
  PROVE  Entries(ns2) = Entries(nodes) \ {<<key, loc>>}
<1>z. /\ Shape(nodes, span, span, level) /\ LiveLeaf(nodes, span, id) /\ key \in span[id]
      /\ Changed(ns2, nodes, id, q) /\ EntriesOf(q) = EntriesOf(nodes[id]) \ {<<key, loc>>}
  BY DEF LosesEntry
<1> USE <1>z
<1> DEFINE n == Len(nodes)
           e == <<key, loc>>
<1>1. id \in 1..n /\ nodes[id].leaf
  BY DEF LiveLeaf
<1>2. Len(ns2) = n /\ ns2[id] = q /\ \A a \in 1..n : a # id => ns2[a] = nodes[a]
  BY DEF Changed
<1>3. ASSUME NEW a \in 1..n, e \in EntriesOf(nodes[a]) PROVE a = id
  <2>1. LiveLeaf(nodes, span, a) /\ key \in span[a]
    BY <1>3, EntriesPlace
  <2>2. QED
    BY <2>1, OneLeaf
<1> HIDE DEF e
<1>4. EntriesOf(q) = EntriesOf(nodes[id]) \ {e}
  BY DEF e
<1>5. \A a \in 1..n : EntriesOf(ns2[a]) = EntriesOf(nodes[a]) \ {e}
  <2>1. SUFFICES ASSUME NEW a \in 1..n PROVE EntriesOf(ns2[a]) = EntriesOf(nodes[a]) \ {e}
    OBVIOUS
  <2>2. CASE a = id
    BY <2>2, <1>2, <1>4
  <2>3. CASE a # id
    BY <2>3, <1>2, <1>3
  <2>4. QED
    BY <2>2, <2>3
<1>6. Entries(ns2) = Entries(nodes) \ {e}
  <2>1. \A x : x \in Entries(ns2) <=> \E a \in 1..n : x \in EntriesOf(ns2[a])
    BY <1>2 DEF Entries
  <2>2. \A x : x \in Entries(nodes) <=> \E a \in 1..n : x \in EntriesOf(nodes[a])
    BY DEF Entries
  <2>5. \A a \in 1..n : \A x : x \in EntriesOf(ns2[a]) <=> x \in EntriesOf(nodes[a]) /\ x # e
    BY <1>5
  <2> HIDE DEF n
  <2>3. \A x : x \in Entries(ns2) <=> x \in Entries(nodes) /\ x # e
    BY <2>1, <2>2, <2>5, Zenon
  <2>4. QED
    BY <2>3
<1>7. QED
  BY <1>6 DEF e

LEMMA LeafShrunk ==
  ASSUME NEW span, NEW level, GoodTree(span, level),
         NEW id, LiveLeaf(nodes, span, id), NEW i \in 1..Len(nodes[id].keys),
         NEW q, q = DeleteFromLeaf(nodes[id], i), NEW ns2, ns2 = [nodes EXCEPT ![id] = q],
         NEW E, E = Entries(nodes) \ {<<nodes[id].keys[i], nodes[id].locs[i]>>}
  PROVE  Shrunk(ns2, id, E, span, level, span) /\ ns2[id].leaf
<1> DEFINE n == Len(nodes)
           key == nodes[id].keys[i]
           loc == nodes[id].locs[i]
<1>1. /\ Shape(nodes, span, span, level) /\ Filled(nodes, span, root, 0) /\ span[root] = Keys
      /\ root \in NodeIds /\ Topped(span, level, root) /\ n \in Nat /\ NodeIds = 1..n
      /\ span \in [1..n -> SUBSET Keys] /\ nodes \in Seq(Node(n))
  BY GoodTreeFacts DEF Shape
<1>2. /\ id \in 1..n /\ nodes[id].leaf /\ span[id] # {} /\ nodes[id] \in Node(n)
      /\ LeafFits(nodes[id], span[id]) /\ span[id] \in SUBSET Keys /\ Len(nodes[id].keys) \in Nat
  BY <1>1, ShapeFacts DEF LiveLeaf
<1>3. /\ q \in Node(n) /\ q.leaf /\ SameLinks(q, nodes[id]) /\ LeafFits(q, span[id])
      /\ Count(q) = Count(nodes[id]) - 1
      /\ EntriesOf(q) = EntriesOf(nodes[id]) \ {<<key, loc>>}
  BY <1>1, <1>2, LeafDelete, SMTT(20)
<1>4. ns2 \in Seq(Node(n)) /\ Changed(ns2, nodes, id, q)
  BY <1>1, <1>2, <1>3, ChangedIs
<1>6. Len(ns2) = n /\ ns2[id] = q /\ \A a \in 1..n : a # id => ns2[a] = nodes[a]
  BY <1>4 DEF Changed
<1>7. Shape(ns2, span, span, level)
  <2>1. NodeFits(q, span[id], level[id], span, level)
    BY <1>1, <1>2, <1>3, ShapeFacts DEF NodeFits
  <2>2. SameKind(q, nodes[id])
    BY <1>2, <1>3 DEF SameKind
  <2>3. SameBut(span, span, (1..n) \ {})
    BY DEF SameBut
  <2>4. OthersOutside(nodes, span, id, {})
    BY DEF KidsOutside, OthersOutside
  <2>5. QED
    BY <2>1, <2>2, <2>3, <2>4, <1>1, <1>2, <1>3, <1>4, ShapeChanged
<1>8. Filled(ns2, span, root, id)
  <2>1. NodeFilled(nodes[id], span[id], id, root, 0) /\ id # 0
    BY <1>1, <1>2 DEF Filled
  <2>2. NodeFilled(q, span[id], id, root, id)
    <3>1. nodes[id].leaf /\ q.leaf /\ nodes[id].leaf = q.leaf
      BY <1>2, <1>3 DEF SameLinks
    <3>2. Count(nodes[id]) \in Nat /\ Count(q) = Count(nodes[id]) - 1 /\ nodes[id].leaf \in BOOLEAN
      BY <1>1, <1>2, <1>3, ShapeFacts DEF Count
    <3>3. MinKeys(nodes[id]) \in Nat /\ MinKeys(q) = MinKeys(nodes[id]) /\ LeafOrder \in Nat
      BY <3>1, <3>2, LeastIs, TreeAssumption DEF MinKeys
    <3>4. Count(nodes[id]) <= LeafOrder /\ (id # root => Count(nodes[id]) >= MinKeys(nodes[id]) - 0)
      BY <2>1, <3>1, <1>2 DEF NodeFilled
    <3>5. Count(q) <= LeafOrder /\ (id # root => Count(q) >= MinKeys(q) - 1)
      BY <3>2, <3>3, <3>4
    <3>6. QED
      BY <3>1, <3>5 DEF NodeFilled
  <2>3. ASSUME NEW a \in 1..n PROVE NodeFilled(ns2[a], span[a], a, root, id)
    <3>1. CASE a = id
      BY <3>1, <2>2, <1>6
    <3>2. CASE a # id
      <4>1. NodeFilled(nodes[a], span[a], a, root, 0) /\ a # 0
        BY <1>1 DEF Filled
      <4>2. QED
        BY <4>1, <3>2, <1>6 DEF NodeFilled
    <3>3. QED
      BY <3>1, <3>2
  <2>4. QED
    BY <2>3, <1>6 DEF Filled
<1>9. Entries(ns2) = E
  <2>1. key \in span[id]
    BY <1>2 DEF LeafFits, Within
  <2> HIDE DEF key, loc
  <2>a. Shape(nodes, span, span, level) /\ LiveLeaf(nodes, span, id) /\ Changed(ns2, nodes, id, q)
    BY <1>1, <1>4
  <2>b. EntriesOf(q) = EntriesOf(nodes[id]) \ {<<key, loc>>}
    BY <1>3
  <2>2. Entries(ns2) = Entries(nodes) \ {<<key, loc>>}
    <3>1. LosesEntry(ns2, q, id, key, loc, span, level)
      BY <2>1, <2>a, <2>b DEF LosesEntry
    <3>2. QED
      BY <3>1, EntriesLess
  <2>3. QED
    BY <2>2 DEF key, loc
<1>10. \A a \in NodeIds : level[a] >= level[id] => span[a] = span[a] /\ (a # id => ns2[a] = nodes[a])
  BY <1>1, <1>6
<1>11. QED
  BY <1>1, <1>2, <1>3, <1>6, <1>7, <1>8, <1>9, <1>10 DEF Shrunk

\* What the levels from d down make of the tree.
Falls(f, path, place) ==
  f = [d \in 1..Len(path) |->
        IF d = Len(path) THEN [nodes EXCEPT ![path[d]] = DeleteFromLeaf(@, place[d])]
        ELSE Rebalanced(f[d + 1], path[d], place[d], path[d + 1])]

LEMMA FallsExists ==
  ASSUME NEW path, Len(path) \in Nat \ {0}, NEW place
  PROVE  \E f : Falls(f, path, place)
<1> DEFINE L == Len(path)
           t == [nodes EXCEPT ![path[L]] = DeleteFromLeaf(@, place[L])]
           From(k) == k..L
           Up(f, d) == Rebalanced(f[d + 1], path[d], place[d], path[d + 1])
           G(f, k) == f = [d \in From(k) |-> IF d = L THEN t ELSE Up(f, d)]
           T == {k \in Nat : k < L => \E f : G(f, L - k)}
<1>1. L \in Nat /\ L >= 1
  OBVIOUS
<1> HIDE DEF L, t
<1>2. 0 \in T
  <2> DEFINE f == [d \in From(L - 0) |-> t]
  <2>1. \A d \in From(L - 0) : d = L
    BY <1>1
  <2>2. G(f, L - 0)
    BY <2>1
  <2>3. QED
    BY <2>2
<1>3. ASSUME NEW k \in Nat, k \in T PROVE k + 1 \in T
  <2>1. SUFFICES ASSUME k + 1 < L PROVE \E g : G(g, L - (k + 1))
    OBVIOUS
  <2> DEFINE e == L - (k + 1)
  <2>2. k < L /\ L - k = e + 1 /\ e \in Nat /\ e # L
    BY <1>1, <2>1
  <2>3. PICK f : G(f, e + 1)
    BY <1>3, <2>2
  <2> HIDE DEF e
  <2> DEFINE g == [d \in From(e) |-> IF d = e THEN Up(f, e) ELSE f[d]]
  <2>4. \A d \in From(e) : /\ d # e => d \in From(e + 1)
                           /\ d # L => d + 1 \in From(e) /\ d + 1 # e
                           /\ d # L => d + 1 \in From(e + 1)
    BY <1>1, <2>2
  <2>5. \A d \in From(e + 1) : f[d] = IF d = L THEN t ELSE Up(f, d)
    BY <2>3
  <2> HIDE DEF From
  <2>6. \A d \in From(e) : d # L => g[d + 1] = f[d + 1]
    BY <2>4
  <2>7. \A d \in From(e) : d # L => Up(g, d) = Up(f, d)
    BY <2>6
  <2>8. g = [d \in From(e) |-> g[d]] /\ \A d \in From(e) : g[d] = IF d = e THEN Up(f, e) ELSE f[d]
    OBVIOUS
  <2> HIDE DEF g, Up
  <2>9. \A d \in From(e) : g[d] = IF d = L THEN t ELSE Up(g, d)
    BY <2>2, <2>4, <2>5, <2>7, <2>8
  <2>10. g = [d \in From(e) |-> IF d = L THEN t ELSE Up(g, d)]
    BY <2>8, <2>9
  <2>11. G(g, e)
    BY <2>10
  <2>12. QED
    BY <2>11 DEF e
<1> HIDE DEF T
<1>4. \A k \in Nat : k \in T
  BY <1>2, <1>3, SetInduction
<1>5. L - 1 \in T /\ L - 1 < L /\ L - (L - 1) = 1 /\ L - 1 \in Nat
  BY <1>1, <1>4
<1>6. PICK f : G(f, L - (L - 1))
  BY <1>5 DEF T
<1>7. G(f, 1)
  BY <1>5, <1>6
<1>8. f = [d \in 1..L |-> IF d = L THEN t ELSE Up(f, d)]
  BY <1>7
<1> HIDE DEF Up
<1>9. f = [d \in 1..L |-> IF d = L THEN [nodes EXCEPT ![path[d]] = DeleteFromLeaf(@, place[d])] ELSE Up(f, d)]
  <2>1. \A d \in 1..L : f[d] = IF d = L THEN [nodes EXCEPT ![path[d]] = DeleteFromLeaf(@, place[d])] ELSE Up(f, d)
    BY <1>8 DEF t
  <2>2. f = [d \in 1..L |-> f[d]]
    BY <1>8
  <2>3. QED
    BY <2>1, <2>2
<1>10. QED
  BY <1>9 DEF Falls, L, Up

\* Where DeleteRec finds the key, or the child it takes the one below for.
Places(path, key) == [d \in 1..Len(path) |-> FindKeyIndex(nodes[path[d]], key)]

\* The key is in the leaf, no level rebalances a child that the key is the
\* separator in front of, and only a leaf borrows from its right.
Allowed(f, path, place, key) ==
  /\ HasKeyAt(nodes[path[Len(path)]], place[Len(path)], key)
  /\ \A d \in 1..(Len(path) - 1) :
       /\ ~HasKeyAt(nodes[path[d]], place[d], key) \/ ~Underflows(f[d + 1][path[d + 1]])
       /\ d = Len(path) - 1 \/ ~BorrowsFromRight(f[d + 1], path[d], place[d], path[d + 1])

\* What a delete takes away.
LeftOver(path, place, key) ==
  Entries(nodes) \ {<<key, nodes[path[Len(path)]].locs[place[Len(path)]]>>}

LEMMA FallsShrinks ==
  ASSUME NEW span0, NEW level, GoodTree(span0, level), NEW key \in Keys,
         NEW path, path = PathTo(key), NEW place, place = Places(path, key),
         NEW f, Falls(f, path, place), Allowed(f, path, place, key)
  PROVE  \E span : Shrunk(f[1], root, LeftOver(path, place, key), span0, level, span)
<1> DEFINE L == Len(path)
           E == LeftOver(path, place, key)
           OK(d) == \E span : Shrunk(f[d], path[d], E, span0, level, span)
           T == {k \in Nat : k < L => OK(L - k)}
<1>1. Leads(path, root, key, span0, level)
  BY PathFound
<1>2. /\ Shape(nodes, span0, span0, level) /\ root \in NodeIds /\ NodeIds = 1..Len(nodes)
      /\ level \in [NodeIds -> Nat]
  BY GoodTreeFacts
<1>3. /\ path \in Seq(NodeIds) /\ L = level[root] + 1 /\ path[1] = root
      /\ \A d \in 1..L : /\ key \in span0[path[d]] /\ (nodes[path[d]].leaf <=> d = L)
                         /\ level[path[d]] = L - d
      /\ \A d \in 1..L : d < L => path[d + 1] = ChildFor(nodes[path[d]], key)
  BY <1>1, <1>2 DEF Leads
<1>4. L \in Nat /\ L >= 1
  BY <1>2, <1>3
<1>5. \A d \in 1..L : path[d] \in NodeIds
  BY <1>3, SeqFacts
<1>6. \A d \in 1..L : f[d] = IF d = L THEN [nodes EXCEPT ![path[d]] = DeleteFromLeaf(@, place[d])]
                             ELSE Rebalanced(f[d + 1], path[d], place[d], path[d + 1])
  BY DEF Falls
<1>7. \A d \in 1..L : place[d] = FindKeyIndex(nodes[path[d]], key)
  BY DEF Places
<1>8. /\ HasKeyAt(nodes[path[L]], place[L], key)
      /\ \A d \in 1..(L - 1) :
           /\ ~HasKeyAt(nodes[path[d]], place[d], key) \/ ~Underflows(f[d + 1][path[d + 1]])
           /\ d = L - 1 \/ ~BorrowsFromRight(f[d + 1], path[d], place[d], path[d + 1])
  BY DEF Allowed
<1>9. E = Entries(nodes) \ {<<key, nodes[path[L]].locs[place[L]]>>}
  BY DEF LeftOver
<1> HIDE DEF L, E
<1>10. L \in 1..L /\ L - 0 = L
  BY <1>4
<1>11. OK(L) /\ f[L][path[L]].leaf
  <2> DEFINE id == path[L]
             i == place[L]
             q == DeleteFromLeaf(nodes[id], i)
             ns2 == [nodes EXCEPT ![id] = q]
  <2>1. id \in 1..Len(nodes) /\ nodes[id].leaf /\ key \in span0[id]
    BY <1>2, <1>3, <1>5, <1>10
  <2>2. LiveLeaf(nodes, span0, id)
    BY <2>1 DEF LiveLeaf
  <2>3. nodes[id].keys \in Seq(Int) /\ key \in Int /\ Len(nodes[id].keys) \in Nat
    BY <2>1, <1>2, ShapeFacts, KeysAreInts
  <2>4. i = FindKeyIndex(nodes[id], key)
    BY <1>7, <1>10
  <2>5. HasKeyAt(nodes[id], i, key)
    BY <1>8
  <2>a. f[L] = ns2
    BY <1>6, <1>10
  <2>b. E = Entries(nodes) \ {<<key, nodes[id].locs[i]>>}
    BY <1>9
  <2> HIDE DEF id, i
  <2>6. i \in 1..(Len(nodes[id].keys) + 1)
    BY <2>3, <2>4, FindKeyIndexIs
  <2>7. i \in 1..Len(nodes[id].keys) /\ nodes[id].keys[i] = key
    BY <2>3, <2>5, <2>6 DEF HasKeyAt, Count
  <2>8. q = DeleteFromLeaf(nodes[id], i) /\ ns2 = [nodes EXCEPT ![id] = q]
    OBVIOUS
  <2>9. E = Entries(nodes) \ {<<nodes[id].keys[i], nodes[id].locs[i]>>}
    BY <2>7, <2>b
  <2> HIDE DEF q, ns2
  <2>10. Shrunk(ns2, id, E, span0, level, span0) /\ ns2[id].leaf
    BY <2>2, <2>7, <2>8, <2>9, LeafShrunk
  <2>11. QED
    BY <2>10, <2>a DEF id
<1>12. 0 \in T
  BY <1>10, <1>11
<1>13. ASSUME NEW k \in Nat, k \in T PROVE k + 1 \in T
  <2>1. SUFFICES ASSUME k + 1 < L PROVE OK(L - (k + 1))
    OBVIOUS
  <2> DEFINE d == L - (k + 1)
             p == path[d]
             c == path[d + 1]
             i == place[d]
             ns == f[d + 1]
  <2>2. d \in 1..L /\ d < L /\ d # L /\ d + 1 \in 1..L /\ L - k = d + 1 /\ k < L /\ d \in 1..(L - 1)
    BY <2>1, <1>4
  <2>3. OK(d + 1)
    BY <2>2, <1>13
  <2>4. PICK span : Shrunk(ns, c, E, span0, level, span)
    BY <2>3
  <2>5. f[d] = Rebalanced(ns, p, i, c)
    BY <2>2, <1>6
  <2>a. d = L - 1 => ns[c].leaf
    <3>1. f[L][path[L]].leaf
      BY <1>11
    <3>2. d = L - 1 => d + 1 = L
      BY <2>2, <1>4
    <3>3. \A e : e = L => f[e][path[e]].leaf
      BY <3>1
    <3>4. d + 1 = L => f[d + 1][path[d + 1]].leaf
      BY <3>3
    <3>5. QED
      BY <3>2, <3>4
  <2>b. /\ ~HasKeyAt(nodes[p], i, key) \/ ~Underflows(ns[c])
        /\ d = L - 1 \/ ~BorrowsFromRight(ns, p, i, c)
    BY <2>2, <1>8
  <2>c. i = FindKeyIndex(nodes[p], key)
    BY <2>2, <1>7
  <2> HIDE DEF d
  <2>6. /\ p \in NodeIds /\ c \in NodeIds /\ ~nodes[p].leaf /\ key \in span0[p] /\ c = ChildFor(nodes[p], key)
        /\ level[p] = L - d /\ level[c] = L - (d + 1)
    BY <2>2, <1>3, <1>5
  <2> HIDE DEF p, c, ns, i
  <2>7. /\ nodes[p].keys \in Seq(Int) /\ key \in Int
        /\ Len(nodes[p].kids) = Len(nodes[p].keys) + 1
    BY <2>6, <1>2, ShapeFacts, KeysAreInts DEF ForkFits
  <2> DEFINE j == ChildPlace(nodes[p], key)
  <2>8. j \in 1..Len(nodes[p].kids) /\ c = nodes[p].kids[j]
    BY <2>6, <2>7, ChildPlaceIs
  <2>9. Underflows(ns[c]) => i = j
    BY <2>b, <2>c DEF ChildPlace
  <2> HIDE DEF j
  <2>10. level[p] >= level[c] /\ p # c
    BY <2>2, <2>6, <1>4
  <2>11. /\ Len(ns) = Len(nodes)
         /\ \A id \in NodeIds : level[id] >= level[c] => span[id] = span0[id] /\ (id # c => ns[id] = nodes[id])
    BY <2>4 DEF Shrunk
  <2>12. ns[p] = nodes[p] /\ span[p] = span0[p]
    BY <2>6, <2>10, <2>11
  <2>13. BorrowsFromRight(ns, p, i, c) => ns[c].leaf
    BY <2>a, <2>b
  <2>14. UnderWay(ns, p, j, c, i, E, span0, level, span)
    BY <2>4, <2>6, <2>8, <2>9, <2>11, <2>12, <2>13, <1>2 DEF UnderWay
  <2>15. \E span2 : Shrunk(Rebalanced(ns, p, i, c), p, E, span0, level, span2)
    BY <2>14, RebalancedKeeps
  <2>16. \E span2 : Shrunk(f[d], p, E, span0, level, span2)
    BY <2>5, <2>15
  <2>17. QED
    BY <2>16 DEF p, d
<1> HIDE DEF T
<1>14. \A k \in Nat : k \in T
  BY <1>12, <1>13, SetInduction
<1>15. L - 1 \in T /\ L - 1 < L /\ L - (L - 1) = 1 /\ L - 1 \in Nat
  BY <1>4, <1>14
<1>16. OK(L - (L - 1))
  BY <1>15 DEF T
<1>17. OK(1)
  BY <1>15, <1>16
<1>18. QED
  BY <1>17, <1>3 DEF E

-----------------------------------------------------------------------------
(* Delete: the root.                                                       *)

\* What Delete takes for the root when the levels below it are done.
TopOf(ns) == IF ~ns[root].leaf /\ Count(ns[root]) = 0 THEN ns[root].kids[1] ELSE root

SpanDropped(span2, span, n, r) ==
  /\ span2 \in [1..n -> SUBSET Keys] /\ span2[r] = {}
  /\ \A a \in 1..n : a # r => span2[a] = span[a]

LEMMA SpanDropIs ==
  ASSUME NEW n \in Nat, NEW span \in [1..n -> SUBSET Keys], NEW r \in 1..n
  PROVE  \E span2 : SpanDropped(span2, span, n, r)
<1> DEFINE span2 == [a \in 1..n |-> IF a = r THEN {} ELSE span[a]]
<1>1. span2 \in [1..n -> SUBSET Keys]
  OBVIOUS
<1>2. span2[r] = {} /\ \A a \in 1..n : a # r => span2[a] = span[a]
  OBVIOUS
<1> HIDE DEF span2
<1>3. SpanDropped(span2, span, n, r)
  BY <1>1, <1>2 DEF SpanDropped
<1>4. QED
  BY <1>3

\* The root has one child left and no key.
LEMMA RootCollapsed ==
  ASSUME NEW key0 \in Keys, NEW ns, NEW E, NEW span0, NEW level, NEW span,
         Shrunk(ns, root, E, span0, level, span), ~ns[root].leaf, Count(ns[root]) = 0
  PROVE  \E span2 : GoodFrom(ns, ns[root].kids[1], span2, level)
<1> DEFINE n == Len(ns)
           top == ns[root].kids[1]
<1>1. /\ Shape(ns, span, span, level) /\ Filled(ns, span, root, root) /\ Topped(span, level, root)
      /\ span[root] = Keys /\ root \in 1..n
  BY DEF Shrunk, NodeIds
<1>2. /\ n \in Nat /\ span \in [1..n -> SUBSET Keys] /\ level \in [1..n -> Nat]
      /\ ns \in Seq(Node(n)) /\ Linked(ns, span) /\ Apart(span, level)
  BY <1>1, ShapeFacts DEF Shape
<1>3. /\ ForkFits(ns[root], Keys, level[root], span, level)
      /\ ns[root].keys \in Seq(Keys) /\ ns[root].kids \in Seq(1..n) /\ level[root] \in Nat
  BY <1>1, ShapeFacts
<1>4. Len(ns[root].keys) = 0 /\ Len(ns[root].kids) = 1
  BY <1>3 DEF ForkFits, Count
<1>5. top \in 1..n
  BY <1>3, <1>4, SeqFacts
<1>6. span[top] = Keys /\ level[top] = level[root] - 1 /\ top # root
  <2>1. 1 \in 1..Len(ns[root].kids)
    BY <1>4
  <2>2. level[top] = level[root] - 1 /\ span[top] = Part(Keys, ns[root].keys, 1)
    BY <2>1, <1>3 DEF ForkFits
  <2>3. Part(Keys, ns[root].keys, 1) = Keys
    BY <1>4 DEF Part
  <2>4. level[top] # level[root]
    BY <2>2, <1>3
  <2>5. QED
    BY <2>2, <2>3, <2>4
<1>7. \A a \in 1..n : span[a] # {} /\ a # root => level[a] <= level[top]
  <2>1. SUFFICES ASSUME NEW a \in 1..n, span[a] # {}, a # root PROVE level[a] <= level[top]
    OBVIOUS
  <2>2. level[a] <= level[root] /\ level[a] \in Nat
    BY <2>1, <1>1, <1>2 DEF Topped
  <2>3. level[a] # level[root]
    <3>1. SUFFICES ASSUME level[a] = level[root] PROVE FALSE
      OBVIOUS
    <3>2. span[a] \cap span[root] = {}
      BY <2>1, <3>1, <1>1, <1>2 DEF Apart
    <3>3. span[a] \subseteq Keys
      BY <1>2
    <3>4. QED
      BY <2>1, <3>2, <3>3, <1>1
  <2>4. \A x, y \in Nat : x <= y /\ x # y => x <= y - 1
    OBVIOUS
  <2>5. level[a] <= level[root] - 1
    BY <2>2, <2>3, <2>4, <1>3
  <2>6. QED
    BY <2>5, <1>6
<1>8. PICK span2 : SpanDropped(span2, span, n, root)
  BY <1>1, <1>2, SpanDropIs
<1>9. /\ span2 \in [1..n -> SUBSET Keys] /\ span2[root] = {}
      /\ \A a \in 1..n : a # root => span2[a] = span[a]
  BY <1>8 DEF SpanDropped
<1>10. Apart(span2, level)
  <2>1. ASSUME NEW a \in 1..n, NEW b \in 1..n, a # b, level[a] = level[b]
        PROVE  span2[a] \cap span2[b] = {}
    <3>1. span[a] \cap span[b] = {}
      BY <2>1, <1>2 DEF Apart
    <3>2. QED
      BY <3>1, <1>9
  <2>2. QED
    BY <2>1, <1>9 DEF Apart
<1>11. Linked(ns, span2)
  <2>1. ASSUME NEW a \in 1..Len(ns)
        PROVE  /\ a \in 1..Len(ns) /\ SameLinks(ns[a], ns[a])
               /\ ns[a].leaf => span2[a] = span[a]
    BY <1>9 DEF SameLinks
  <2>2. LeavesStill(ns, span2, ns, span)
    BY <2>1 DEF LeavesStill
  <2>3. Len(ns) \in Nat /\ Len(ns) >= Len(ns)
    BY <1>2
  <2>4. QED
    BY <2>2, <2>3, <1>2, LinkedStill
<1>12. ForkFits(ns[root], {}, level[root], span2, level)
  BY <1>3 DEF ForkFits
<1>13. Shape(ns, span2, span2, level)
  <2>1. SameBut(level, level, 1..Len(ns)) /\ SameBut(span2, span, (1..Len(ns)) \ {root})
    BY <1>9 DEF SameBut
  <2>2. ASSUME NEW a \in 1..Len(ns)
        PROVE  IF a \in {root} THEN Touched(a, ns, span2, span2, level)
                               ELSE Untouched(a, ns, span, ns, span2, {root})
    <3>1. CASE a = root
      <4>1. NodeFits(ns[a], span2[a], level[a], span2, level) /\ Convex(span2[a])
        BY <3>1, <1>9, <1>12 DEF NodeFits, Convex
      <4>2. QED
        BY <3>1, <4>1 DEF Touched
    <3>2. CASE a # root
      <4>1. KidsOutside(ns[a], span[a], {root})
        <5>1. SUFFICES ASSUME ~ns[a].leaf, span[a] # {}, NEW j \in 1..Len(ns[a].kids), ns[a].kids[j] = root
                       PROVE  FALSE
          BY DEF KidsOutside
        <5>2. level[root] < level[a]
          BY <5>1, <1>1, ShapeFacts DEF ForkFits
        <5>3. level[a] <= level[root] /\ level[a] \in Nat
          BY <5>1, <1>1, <1>2 DEF Topped
        <5>4. QED
          BY <5>2, <5>3, <1>3
      <4>2. QED
        BY <3>2, <4>1, <1>9 DEF Untouched, SameContent
    <3>3. QED
      BY <3>1, <3>2
  <2>3. ns \in Seq(Node(Len(ns))) /\ span2 \in [1..Len(ns) -> SUBSET Keys] /\ level \in [1..Len(ns) -> Nat]
    BY <1>2, <1>9
  <2>4. QED
    BY <2>1, <2>2, <2>3, <1>1, <1>10, <1>11, Reshape
<1>14. Filled(ns, span2, top, 0)
  <2>1. ASSUME NEW a \in 1..n PROVE NodeFilled(ns[a], span2[a], a, top, 0)
    <3>1. NodeFilled(ns[a], span[a], a, root, root) /\ Count(ns[a]) \in Nat /\ ns[a].leaf \in BOOLEAN
      BY <1>1, ShapeFacts DEF Filled, Count
    <3>2. CASE a = root
      BY <3>1, <3>2, <1>9 DEF NodeFilled
    <3>3. CASE a # root
      <4>1. span2[a] = span[a]
        BY <3>3, <1>9
      <4>2. MinKeys(ns[a]) \in Nat /\ MinKeys(ns[a]) >= 1
        BY <3>1, LeastIs
      <4>3. span[a] # {} => Count(ns[a]) >= MinKeys(ns[a])
        BY <3>1, <3>3, <4>2 DEF NodeFilled
      <4>4. span[a] # {} => Count(ns[a]) >= 1
        BY <3>1, <4>2, <4>3
      <4>5. a # 0 /\ (Count(ns[a]) >= MinKeys(ns[a]) => Count(ns[a]) >= MinKeys(ns[a]) - 0)
        BY <3>1, <4>2
      <4>6. QED
        BY <3>1, <4>1, <4>3, <4>4, <4>5 DEF NodeFilled
    <3>4. QED
      BY <3>2, <3>3
  <2>2. QED
    BY <2>1 DEF Filled
<1>15. Topped(span2, level, top)
  BY <1>7, <1>9 DEF Topped
<1>16. GoodFrom(ns, top, span2, level)
  <2>1. span2[top] = Keys
    BY <1>5, <1>6, <1>9
  <2>2. QED
    BY <2>1, <1>5, <1>13, <1>14, <1>15 DEF GoodFrom
<1>17. QED
  BY <1>16

LEMMA RootShrunk ==
  ASSUME NEW key0 \in Keys, NEW ns, NEW E, NEW span0, NEW level, NEW span,
         Shrunk(ns, root, E, span0, level, span), NEW top, top = TopOf(ns)
  PROVE  \E span2 : GoodFrom(ns, top, span2, level)
<1>1. CASE ~ns[root].leaf /\ Count(ns[root]) = 0
  BY <1>1, RootCollapsed DEF TopOf
<1>2. CASE ~(~ns[root].leaf /\ Count(ns[root]) = 0)
  <2>1. /\ Shape(ns, span, span, level) /\ Filled(ns, span, root, root) /\ Topped(span, level, root)
        /\ span[root] = Keys /\ root \in 1..Len(ns)
    BY DEF Shrunk, NodeIds
  <2>2. ASSUME NEW a \in 1..Len(ns) PROVE NodeFilled(ns[a], span[a], a, root, 0)
    <3>1. NodeFilled(ns[a], span[a], a, root, root) /\ Count(ns[a]) \in Nat /\ ns[a].leaf \in BOOLEAN
      BY <2>1, ShapeFacts DEF Filled, Count
    <3>2. CASE a = root
      <4>1. ns[a].leaf \/ Count(ns[a]) >= 1
        BY <3>1, <3>2, <1>2
      <4>2. QED
        BY <3>1, <3>2, <4>1 DEF NodeFilled
    <3>3. CASE a # root
      <4>1. a # 0 /\ a # root
        BY <3>3, <2>1
      <4>2. QED
        BY <3>1, <4>1 DEF NodeFilled
    <3>4. QED
      BY <3>2, <3>3
  <2>3. Filled(ns, span, root, 0)
    BY <2>2 DEF Filled
  <2>4. top = root
    BY <1>2 DEF TopOf
  <2>5. QED
    BY <2>1, <2>3, <2>4 DEF GoodFrom
<1>3. QED
  BY <1>1, <1>2

-----------------------------------------------------------------------------
(* Delete: the whole of it.                                                *)

LEMMA DeleteKeepsTree ==
  ASSUME OneRowPerKey, ~AtSeparator, ~RightLends, NEW span, NEW level, GoodTree(span, level),
         NEW key \in Keys, Delete(key)
  PROVE  TreeKept'
<1> DEFINE path == PathTo(key)
           place == Places(path, key)
           L == Len(path)
           id == path[L]
           i == place[L]
           loc == nodes[id].locs[i]
           E == LeftOver(path, place, key)
<1>1. Leads(path, root, key, span, level)
  BY PathFound
<1>2. /\ path \in Seq(1..Len(nodes)) /\ L \in Nat /\ L = level[root] + 1
      /\ \A d \in 1..L : nodes[path[d]].leaf <=> d = L
  BY <1>1, SeqFacts DEF Leads
<1>3. L \in Nat \ {0}
  <2>1. level[root] \in Nat
    BY GoodTreeFacts
  <2>2. QED
    BY <2>1, <1>2
<1>4. PICK f : /\ f = CHOOSE g : Falls(g, path, place)
               /\ Allowed(f, path, place, key)
               /\ nodes' = f[1] /\ root' = TopOf(f[1])
  BY DEF Delete, Falls, Places, Allowed, TopOf
<1>5. stored' = TreeDelete(stored, key)
  BY DEF Delete
<1>6. Falls(f, path, place)
  BY <1>3, <1>4, FallsExists
<1>7. PICK span1 : Shrunk(f[1], root, E, span, level, span1)
  <2> HIDE DEF path, place, L
  <2>1. path = PathTo(key) /\ place = Places(path, key)
    BY DEF path, place
  <2>2. QED
    BY <2>1, <1>4, <1>6, FallsShrinks
<1>8. \E span2 : GoodFrom(nodes', root', span2, level)
  <2> HIDE DEF path, place, E
  <2>1. QED
    BY <1>4, <1>7, RootShrunk
<1>9. Entries(nodes') = E
  BY <1>4, <1>7 DEF Shrunk
<1>10. HasKeyAt(nodes[id], i, key)
  BY <1>4 DEF Allowed
<1>11. i = FindKeyIndex(nodes[id], key) /\ id \in 1..Len(nodes) /\ nodes[id].leaf
  <2>1. L \in 1..L
    BY <1>3
  <2>2. QED
    BY <2>1, <1>2, SeqFacts DEF Places
<1>12. E = Entries(nodes) \ {<<key, loc>>}
  BY DEF LeftOver
<1> HIDE DEF path, place, L, id, i, E
<1>13. stored[key] = <<loc>> /\ loc \in Locs
  <2>1. /\ nodes[id].keys \in Seq(Int) /\ nodes[id].locs \in Seq(Locs) /\ key \in Int
        /\ Len(nodes[id].locs) = Len(nodes[id].keys)
    BY <1>11, GoodTreeFacts, ShapeFacts, KeysAreInts DEF LeafFits
  <2>2. i \in 1..(Len(nodes[id].keys) + 1)
    BY <2>1, <1>11, FindKeyIndexIs
  <2>3. i \in 1..Len(nodes[id].locs) /\ nodes[id].keys[i] = key
    BY <2>1, <2>2, <1>10, SeqFacts DEF HasKeyAt, Count
  <2>4. loc \in Locs
    BY <2>1, <2>3, SeqFacts
  <2>5. <<key, loc>> \in EntriesOf(nodes[id])
    BY <2>3 DEF EntriesOf
  <2>6. <<key, loc>> \in Entries(nodes)
    BY <2>5, <1>11 DEF Entries
  <2>7. QED
    BY <2>4, <2>6, GoodTreeFacts DEF Recorded
<1> HIDE DEF loc
<1>14. stored' = [stored EXCEPT ![key] = << >>]
  <2>1. Tail(<<loc>>) = << >>
    BY <1>13
  <2>2. QED
    BY <2>1, <1>5, <1>13 DEF TreeDelete
<1>15. Recorded(nodes)'
  <2>1. /\ stored \in [Keys -> Seq(Locs)]
        /\ \A k \in Keys : stored[k] = << >> \/ \E q \in Rows : q.key = k /\ stored[k] = <<q.loc>>
        /\ \A k \in Keys, l \in Locs : <<k, l>> \in Entries(nodes) <=> stored[k] = <<l>>
    BY GoodTreeFacts DEF Recorded
  <2>2. << >> \in Seq(Locs)
    OBVIOUS
  <2>3. stored' \in [Keys -> Seq(Locs)]
    BY <2>1, <2>2, <1>14
  <2>4. stored'[key] = << >> /\ \A k \in Keys : k # key => stored'[k] = stored[k]
    BY <2>1, <1>14
  <2>5. \A k \in Keys : stored'[k] = << >> \/ \E q \in Rows : q.key = k /\ stored'[k] = <<q.loc>>
    BY <2>1, <2>4
  <2>6. ASSUME NEW k \in Keys, NEW l \in Locs
        PROVE  <<k, l>> \in Entries(nodes') <=> stored'[k] = <<l>>
    <3>1. CASE k = key
      <4>1. <<k, l>> \in Entries(nodes) => l = loc
        <5>1. <<loc>> = <<l>> <=> l = loc
          OBVIOUS
        <5>2. QED
          BY <5>1, <3>1, <2>1, <1>13
      <4>2. <<k, l>> \notin Entries(nodes')
        BY <4>1, <3>1, <1>9, <1>12
      <4>3. Len(<<l>>) = 1 /\ Len(<< >>) = 0
        OBVIOUS
      <4>4. << >> # <<l>>
        BY <4>3
      <4>5. QED
        BY <4>2, <4>4, <3>1, <2>4
    <3>2. CASE k # key
      BY <3>2, <1>9, <1>12, <2>1, <2>4
    <3>3. QED
      BY <3>1, <3>2
  <2>7. QED
    BY <2>3, <2>5, <2>6 DEF Recorded
<1>16. PICK span2 : GoodFrom(nodes', root', span2, level)
  BY <1>8
<1>17. GoodTree(span2, level)'
  BY <1>15, <1>16 DEF GoodFrom, GoodTree
<1>18. QED
  BY <1>17 DEF TreeKept

-----------------------------------------------------------------------------
(* Queries: the places a walk through the leaves comes to.                 *)

\* A set has more elements than a part of it that misses one.
LEMMA FewerIn ==
  ASSUME NEW S, IsFiniteSet(S), NEW T, T \subseteq S, NEW x \in S, x \notin T
  PROVE  Cardinality(T) \in Nat /\ Cardinality(S) \in Nat /\ Cardinality(T) < Cardinality(S)
<1>1. T \in SUBSET S
  OBVIOUS
<1>2. IsFiniteSet(T) /\ Cardinality(T) <= Cardinality(S) /\ (Cardinality(S) = Cardinality(T) => S = T)
  BY <1>1, FS_Subset
<1>3. Cardinality(S) \in Nat /\ Cardinality(T) \in Nat
  BY <1>2, FS_CardinalityType
<1>4. QED
  BY <1>2, <1>3

\* What ReadFrom makes of a place from what it makes of the places after it.
WalkStep(f, a, i, stop, skip) ==
  IF a = NoLeaf THEN << >>
  ELSE IF i > Count(nodes[a]) THEN f[<<nodes[a].next, 1>>]
  ELSE IF nodes[a].keys[i] \in stop THEN << >>
  ELSE IF nodes[a].keys[i] \in skip THEN f[<<a, i + 1>>]
  ELSE <<[key |-> nodes[a].keys[i], loc |-> nodes[a].locs[i]]>> \o f[<<a, i + 1>>]

Walked(f, stop, skip) ==
  f = [p \in (0..Len(nodes)) \X Nat |-> WalkStep(f, p[1], p[2], stop, skip)]

\* The places in the leaves that lie after one.
PlacesAfter(a, i, span, most) ==
  {q \in (1..Len(nodes)) \X (0..most) :
     \/ q[1] = a /\ q[2] > i
     \/ LiveLeaf(nodes, span, q[1]) /\ Before(span[a], span[q[1]])}

PlaceRank(p, span, most) ==
  IF p[1] = NoLeaf THEN 0 ELSE Cardinality(PlacesAfter(p[1], p[2], span, most)) + 1

\* The place a walk goes on from lies later.
LEMMA RankFalls ==
  ASSUME NEW span, NEW level, GoodTree(span, level), NEW most \in Nat,
         \A a \in NodeIds : Count(nodes[a]) < most, NEW a \in NodeIds, NEW i \in Nat, NEW next,
         \/ i > Count(nodes[a]) /\ next = <<nodes[a].next, 1>>
         \/ i <= Count(nodes[a]) /\ next = <<a, i + 1>>
  PROVE  /\ PlaceRank(next, span, most) \in Nat /\ PlaceRank(<<a, i>>, span, most) \in Nat
         /\ PlaceRank(next, span, most) < PlaceRank(<<a, i>>, span, most)
<1> DEFINE n == Len(nodes)
           After(b, j) == PlacesAfter(b, j, span, most)
<1>1. /\ Shape(nodes, span, span, level) /\ n \in Nat /\ NodeIds = 1..n /\ Linked(nodes, span)
      /\ span \in [1..n -> SUBSET Keys]
  BY GoodTreeFacts
<1>2. \A b, j : IsFiniteSet(After(b, j)) /\ Cardinality(After(b, j)) \in Nat
  <2>1. TAKE b, j
  <2>2. IsFiniteSet((1..n) \X (0..most))
    <3>1. IsFiniteSet(1..n) /\ IsFiniteSet(0..most)
      BY <1>1, FS_Interval
    <3>2. QED
      BY <3>1, FS_Product
  <2>3. After(b, j) \in SUBSET ((1..n) \X (0..most))
    BY DEF PlacesAfter
  <2>4. QED
    BY <2>2, <2>3, FS_Subset, FS_CardinalityType
<1>3. \A b \in 1..n, j \in Nat : <<b, j>> \notin After(b, j)
  <2>1. SUFFICES ASSUME NEW b \in 1..n, NEW j \in Nat, <<b, j>> \in After(b, j) PROVE FALSE
    OBVIOUS
  <2>2. j > j \/ (LiveLeaf(nodes, span, b) /\ Before(span[b], span[b]))
    BY <2>1 DEF PlacesAfter
  <2>a. LiveLeaf(nodes, span, b) /\ Before(span[b], span[b])
    BY <2>1, <2>2
  <2>b. span[b] # {} /\ span[b] \subseteq Int
    BY <2>a, <1>1, KeysAreInts DEF LiveLeaf
  <2>3. PICK x : x \in span[b] /\ x \in Int /\ Before(span[b], span[b])
    BY <2>a, <2>b
  <2>4. x < x
    BY <2>3 DEF Before
  <2>5. QED
    BY <2>3, <2>4
<1>4. a # NoLeaf /\ a \in 1..n
  BY <1>1 DEF NoLeaf
<1>5. CASE i <= Count(nodes[a]) /\ next = <<a, i + 1>>
  <2>1. i + 1 \in 0..most /\ i + 1 > i /\ i + 1 \in Nat
    <3>1. Count(nodes[a]) < most /\ Count(nodes[a]) \in Nat
      BY <1>1, ShapeFacts DEF Count
    <3>2. QED
      BY <3>1, <1>5
  <2>2. <<a, i + 1>> \in After(a, i)
    BY <2>1, <1>4 DEF PlacesAfter
  <2>3. After(a, i + 1) \subseteq After(a, i)
    <3>1. ASSUME NEW q \in (1..n) \X (0..most), q[1] = a /\ q[2] > i + 1 PROVE q[2] > i
      <4>1. q[2] \in Nat
        OBVIOUS
      <4>2. QED
        BY <3>1, <4>1
    <3>2. QED
      BY <3>1 DEF PlacesAfter
  <2>4. Cardinality(After(a, i + 1)) < Cardinality(After(a, i))
    <3> HIDE DEF After
    <3>1. <<a, i + 1>> \notin After(a, i + 1)
      BY <2>1, <1>3, <1>4
    <3>2. QED
      BY <3>1, <2>2, <2>3, <1>2, FewerIn
  <2>5. /\ PlaceRank(next, span, most) = Cardinality(After(a, i + 1)) + 1
        /\ PlaceRank(<<a, i>>, span, most) = Cardinality(After(a, i)) + 1
    BY <1>4, <1>5 DEF PlaceRank
  <2> HIDE DEF After
  <2>6. QED
    BY <2>4, <2>5, <1>2
<1>6. CASE i > Count(nodes[a]) /\ next = <<nodes[a].next, 1>>
  <2> DEFINE b == nodes[a].next
  <2>1. PlaceRank(<<a, i>>, span, most) = Cardinality(After(a, i)) + 1
    BY <1>4 DEF PlaceRank
  <2>2. CASE b = NoLeaf
    <3>1. PlaceRank(next, span, most) = 0
      BY <2>2, <1>6 DEF PlaceRank
    <3> HIDE DEF After
    <3>2. QED
      BY <3>1, <2>1, <1>2
  <2>3. CASE b # NoLeaf
    <3>1. LiveLeaf(nodes, span, a)
      BY <2>3, <1>1, <1>4, LinksOf
    <3>2. LiveLeaf(nodes, span, b) /\ Adjacent(span[a], span[b])
      BY <2>3, <3>1, <1>1, <1>4, LinksOf
    <3>3. b \in 1..n /\ Before(span[a], span[b]) /\ 1 \in 0..most
      <4>1. Count(nodes[a]) < most /\ Count(nodes[a]) \in Nat
        BY <1>1, ShapeFacts DEF Count
      <4>2. QED
        BY <4>1, <3>2 DEF LiveLeaf, Adjacent
    <3>4. <<b, 1>> \in After(a, i)
      BY <3>2, <3>3 DEF PlacesAfter
    <3>5. After(b, 1) \subseteq After(a, i)
      <4>1. ASSUME NEW q \in (1..n) \X (0..most), LiveLeaf(nodes, span, q[1]), Before(span[b], span[q[1]])
            PROVE  Before(span[a], span[q[1]])
        <5>1. PICK y : y \in span[b] /\ y \in Int
          BY <3>2, <3>3, <1>1, KeysAreInts DEF LiveLeaf
        <5>2. SUFFICES ASSUME NEW x \in span[a], NEW z \in span[q[1]] PROVE x < z
          BY DEF Before
        <5>3. x < y /\ y < z /\ x \in Int /\ z \in Int
          <6>1. q[1] \in 1..n
            OBVIOUS
          <6>2. QED
            BY <6>1, <5>1, <5>2, <4>1, <3>3, <1>1, <1>4, KeysAreInts DEF Before
        <5>4. QED
          BY <5>1, <5>3
      <4>2. QED
        BY <4>1, <3>2, <3>3 DEF PlacesAfter
    <3>6. Cardinality(After(b, 1)) < Cardinality(After(a, i))
      <4> HIDE DEF After
      <4>1. <<b, 1>> \notin After(b, 1)
        BY <3>3, <1>3
      <4>2. QED
        BY <4>1, <3>4, <3>5, <1>2, FewerIn
    <3>7. PlaceRank(next, span, most) = Cardinality(After(b, 1)) + 1
      BY <2>3, <1>6 DEF PlaceRank
    <3> HIDE DEF After, b
    <3>8. QED
      BY <3>6, <3>7, <2>1, <1>2
  <2>4. QED
    BY <2>2, <2>3
<1>7. QED
  BY <1>5, <1>6

LEMMA CountBound ==
  ASSUME NEW span, NEW level, GoodTree(span, level), NEW most, most = LeafOrder + InternalOrder + 1
  PROVE  most \in Nat /\ \A a \in NodeIds : Count(nodes[a]) < most
<1>1. LeafOrder \in Nat /\ InternalOrder \in Nat
  BY TreeAssumption
<1>2. Shape(nodes, span, span, level) /\ NodeIds = 1..Len(nodes) /\ Filled(nodes, span, root, 0)
  BY GoodTreeFacts
<1>3. ASSUME NEW a \in NodeIds PROVE Count(nodes[a]) < most
  <2>1. Count(nodes[a]) \in Nat /\ (Count(nodes[a]) <= LeafOrder \/ Count(nodes[a]) <= InternalOrder)
    BY <1>2, ShapeFacts DEF Filled, NodeFilled, Count
  <2>2. QED
    BY <2>1, <1>1
<1>4. QED
  BY <1>1, <1>3

LEMMA WalkedExists ==
  ASSUME NEW span, NEW level, GoodTree(span, level), NEW stop, NEW skip
  PROVE  \E f : Walked(f, stop, skip)
<1> DEFINE n == Len(nodes)
           D0 == (0..n) \X Nat
           W == {[key |-> nodes[p[1]].keys[p[2]], loc |-> nodes[p[1]].locs[p[2]]] : p \in D0}
           V == Seq(W)
           most == LeafOrder + InternalOrder + 1
           Rank(p) == PlaceRank(p, span, most)
           rank == [p \in D0 |-> Rank(p)]
           S == [D0 -> V]
           step == [F \in S |-> [p \in D0 |-> WalkStep(F, p[1], p[2], stop, skip)]]
<1>1. /\ Shape(nodes, span, span, level) /\ n \in Nat /\ NodeIds = 1..n /\ Filled(nodes, span, root, 0)
  BY GoodTreeFacts
<1>2. most \in Nat /\ \A a \in NodeIds : Count(nodes[a]) < most
  BY CountBound
<1> HIDE DEF most
<1>3. \A a \in NodeIds, i \in Nat :
        /\ i > Count(nodes[a]) => /\ <<nodes[a].next, 1>> \in D0
                                  /\ Rank(<<nodes[a].next, 1>>) < Rank(<<a, i>>)
        /\ i <= Count(nodes[a]) => <<a, i + 1>> \in D0 /\ Rank(<<a, i + 1>>) < Rank(<<a, i>>)
        /\ Rank(<<a, i>>) \in Nat
  <2>1. TAKE a \in NodeIds, i \in Nat
  <2>2. nodes[a].next \in 0..n /\ Count(nodes[a]) \in Nat
    BY <1>1, ShapeFacts DEF Count
  <2>3. <<nodes[a].next, 1>> \in D0 /\ <<a, i + 1>> \in D0
    BY <2>2, <1>1
  <2>4. i > Count(nodes[a]) \/ i <= Count(nodes[a])
    BY <2>2
  <2>5. CASE i > Count(nodes[a])
    <3>1. Rank(<<nodes[a].next, 1>>) < Rank(<<a, i>>) /\ Rank(<<a, i>>) \in Nat
      BY <2>5, <1>2, RankFalls
    <3>2. ~(i <= Count(nodes[a]))
      BY <2>2, <2>5
    <3>3. QED
      BY <3>1, <3>2, <2>3
  <2>6. CASE i <= Count(nodes[a])
    <3>1. Rank(<<a, i + 1>>) < Rank(<<a, i>>) /\ Rank(<<a, i>>) \in Nat
      BY <2>6, <1>2, RankFalls
    <3>2. ~(i > Count(nodes[a]))
      BY <2>2, <2>6
    <3>3. QED
      BY <3>1, <3>2, <2>3
  <2>7. QED
    BY <2>4, <2>5, <2>6
<1>4. \A p \in D0 : /\ p[1] \in 0..n /\ p[2] \in Nat /\ p = <<p[1], p[2]>>
                    /\ p[1] # NoLeaf => p[1] \in NodeIds
  BY <1>1 DEF NoLeaf
<1>5. rank \in [D0 -> Nat]
  <2>1. \A p \in D0 : p[1] = NoLeaf => Rank(p) = 0
    BY DEF PlaceRank
  <2>2. ASSUME NEW p \in D0 PROVE Rank(p) \in Nat
    <3>1. CASE p[1] = NoLeaf
      BY <2>1, <3>1
    <3>2. CASE p[1] # NoLeaf
      <4>1. p[1] \in NodeIds /\ p[2] \in Nat /\ p = <<p[1], p[2]>>
        BY <3>2, <1>4
      <4>2. Rank(<<p[1], p[2]>>) \in Nat
        BY <4>1, <1>3
      <4> HIDE DEF Rank
      <4>3. QED
        BY <4>1, <4>2
    <3>3. QED
      BY <3>1, <3>2
  <2> HIDE DEF Rank, D0
  <2>3. QED
    BY <2>2
<1>6. \A F \in S, p \in D0 : WalkStep(F, p[1], p[2], stop, skip) \in V
  <2>1. SUFFICES ASSUME NEW F \in S, NEW p \in D0 PROVE WalkStep(F, p[1], p[2], stop, skip) \in V
    OBVIOUS
  <2> DEFINE a == p[1]
             i == p[2]
             e == [key |-> nodes[a].keys[i], loc |-> nodes[a].locs[i]]
  <2>2. << >> \in V
    OBVIOUS
  <2>3. e \in W
    OBVIOUS
  <2>4. /\ a # NoLeaf /\ i > Count(nodes[a]) => F[<<nodes[a].next, 1>>] \in V
        /\ a # NoLeaf /\ i <= Count(nodes[a]) => F[<<a, i + 1>>] \in V
    <3> HIDE DEF V, D0, a, i
    <3>1. a # NoLeaf => a \in NodeIds /\ i \in Nat
      BY <1>4 DEF a, i
    <3>2. QED
      BY <3>1, <1>3
  <2>5. a # NoLeaf => (i > Count(nodes[a]) \/ i <= Count(nodes[a]))
    <3> HIDE DEF a, i, D0
    <3>1. a # NoLeaf => a \in NodeIds /\ i \in Nat
      BY <1>4 DEF a, i
    <3>2. a # NoLeaf => Count(nodes[a]) \in Nat
      BY <3>1, <1>1, ShapeFacts DEF Count
    <3>3. QED
      BY <3>1, <3>2
  <2> HIDE DEF W, D0
  <2>6. ASSUME NEW s \in V PROVE <<e>> \o s \in V
    <3> HIDE DEF e
    <3>1. QED
      BY <2>3, <2>6, InFrontIs
  <2> HIDE DEF V, S, a, i
  <2>7. WalkStep(F, a, i, stop, skip) \in V
    BY <2>2, <2>4, <2>5, <2>6 DEF WalkStep
  <2>8. QED
    BY <2>7 DEF a, i
<1>7. ASSUME NEW F \in S, NEW G \in S, NEW p \in D0, \A q \in D0 : rank[q] < rank[p] => F[q] = G[q]
      PROVE  WalkStep(F, p[1], p[2], stop, skip) = WalkStep(G, p[1], p[2], stop, skip)
  <2> DEFINE a == p[1]
             i == p[2]
  <2>1. \A q \in D0 : Rank(q) < Rank(p) => F[q] = G[q]
    BY <1>7
  <2> HIDE DEF Rank, rank, D0, S
  <2>2. a # NoLeaf => a \in NodeIds /\ i \in Nat /\ p = <<a, i>>
    BY <1>4
  <2> HIDE DEF a, i
  <2>3. a # NoLeaf => Count(nodes[a]) \in Nat
    BY <2>2, <1>1, ShapeFacts DEF Count
  <2>4. /\ a # NoLeaf /\ i > Count(nodes[a]) => F[<<nodes[a].next, 1>>] = G[<<nodes[a].next, 1>>]
        /\ a # NoLeaf /\ i <= Count(nodes[a]) => F[<<a, i + 1>>] = G[<<a, i + 1>>]
    BY <2>1, <2>2, <1>3
  <2>5. a # NoLeaf => (i > Count(nodes[a]) \/ i <= Count(nodes[a]))
    BY <2>2, <2>3
  <2>6. WalkStep(F, a, i, stop, skip) = WalkStep(G, a, i, stop, skip)
    BY <2>4, <2>5 DEF WalkStep
  <2>7. QED
    BY <2>6 DEF a, i
<1>8. V # {}
  <2>1. << >> \in V
    OBVIOUS
  <2>2. QED
    BY <2>1
<1> HIDE DEF rank, V, D0
<1>9. \A F \in S : /\ [p \in D0 |-> WalkStep(F, p[1], p[2], stop, skip)] \in S
                   /\ step[F] = [p \in D0 |-> WalkStep(F, p[1], p[2], stop, skip)]
  BY <1>6
<1>10. step \in [S -> S]
  BY <1>9
<1>11. \A F \in S, p \in D0 : step[F][p] = WalkStep(F, p[1], p[2], stop, skip)
  BY <1>9
<1> HIDE DEF step
<1>12. Ranked(D0, V, rank, step)
  BY <1>5, <1>7, <1>8, <1>10, <1>11 DEF Ranked
<1>13. PICK f \in S : f = step[f]
  BY <1>12, RankedRecursion
<1>14. f = [p \in D0 |-> WalkStep(f, p[1], p[2], stop, skip)]
  BY <1>9, <1>13
<1>15. QED
  BY <1>14 DEF Walked, D0
-----------------------------------------------------------------------------
(* Lists of entries in the order of their keys.                            *)

Entry == [key : Keys, loc : Locs]

InOrder(s) == \A i, j \in 1..Len(s) : i < j => s[i].key < s[j].key

\* s lists the entries of E, each once and in the order of their keys.
Lists(s, E) ==
  /\ s \in Seq(Entry) /\ InOrder(s)
  /\ \A e : e \in E <=> \E i \in 1..Len(s) : s[i] = e

LEMMA ListFacts ==
  ASSUME NEW E, NEW s, Lists(s, E)
  PROVE  /\ s \in Seq(Entry) /\ Len(s) \in Nat
         /\ \A i \in 1..Len(s) : s[i] \in Entry /\ s[i].key \in Int /\ s[i] \in E
         /\ \A i, j \in 1..Len(s) : i < j => s[i].key < s[j].key
<1>1. s \in Seq(Entry) /\ \A e : e \in E <=> \E i \in 1..Len(s) : s[i] = e
  BY DEF Lists
<1>2. Len(s) \in Nat /\ \A i \in 1..Len(s) : s[i] \in Entry
  BY <1>1, SeqFacts
<1>3. \A e \in Entry : e.key \in Int
  BY KeysAreInts DEF Entry
<1>4. QED
  BY <1>1, <1>2, <1>3 DEF Lists, InOrder

\* Where one list has an entry, another of the same entries has it too.
LEMMA ListsAgree ==
  ASSUME NEW E, NEW s, Lists(s, E), NEW t, Lists(t, E)
  PROVE  \A i \in 1..Len(s) : i \in 1..Len(t) /\ s[i] = t[i]
<1>1. /\ Len(s) \in Nat /\ Len(t) \in Nat
      /\ \A i \in 1..Len(s) : s[i].key \in Int /\ s[i] \in E
      /\ \A i \in 1..Len(t) : t[i].key \in Int /\ t[i] \in E
      /\ \A i, j \in 1..Len(s) : i < j => s[i].key < s[j].key
      /\ \A i, j \in 1..Len(t) : i < j => t[i].key < t[j].key
  BY ListFacts
<1>2. /\ \A e \in E : \E i \in 1..Len(s) : s[i] = e
      /\ \A e \in E : \E i \in 1..Len(t) : t[i] = e
  BY DEF Lists
<1> DEFINE T == {n \in Nat : \A i \in 1..Len(s) : i <= n => i \in 1..Len(t) /\ s[i] = t[i]}
<1>3. 0 \in T
  BY <1>1
<1>4. ASSUME NEW n \in Nat, n \in T PROVE n + 1 \in T
  <2>1. SUFFICES ASSUME NEW i \in 1..Len(s), i <= n + 1 PROVE i \in 1..Len(t) /\ s[i] = t[i]
    OBVIOUS
  <2>2. \A k \in 1..Len(s) : k < i => k \in 1..Len(t) /\ s[k] = t[k]
    <3>1. \A k \in 1..Len(s) : k < i => k <= n
      BY <2>1, <1>1
    <3>2. QED
      BY <3>1, <1>4
  <2>3. PICK j \in 1..Len(t) : t[j] = s[i]
    BY <1>1, <1>2
  <2> HIDE DEF T
  <2>4. j >= i
    <3>1. SUFFICES ASSUME j < i PROVE FALSE
      BY <1>1
    <3>2. j \in 1..Len(s)
      BY <3>1, <1>1
    <3>3. s[j] = t[j] /\ s[j].key < s[i].key /\ s[i].key \in Int
      BY <3>1, <3>2, <2>2, <1>1
    <3>4. QED
      BY <3>3, <2>3
  <2>5. i \in 1..Len(t)
    BY <2>4, <1>1
  <2>6. PICK k \in 1..Len(s) : s[k] = t[i]
    BY <2>5, <1>1, <1>2
  <2>7. k >= i
    <3>1. SUFFICES ASSUME k < i PROVE FALSE
      BY <1>1
    <3>2. s[k] = t[k] /\ k \in 1..Len(t) /\ t[k].key < t[i].key /\ t[i].key \in Int
      BY <3>1, <2>2, <2>5, <1>1
    <3>3. QED
      BY <3>2, <2>6
  <2>8. j = i
    <3>1. SUFFICES ASSUME i < j PROVE FALSE
      BY <2>4, <1>1
    <3>2. t[i].key < t[j].key /\ t[i].key \in Int /\ t[j].key \in Int
      BY <3>1, <2>5, <1>1
    <3>3. k = i \/ s[i].key < s[k].key
      BY <2>7, <1>1
    <3>4. QED
      BY <3>2, <3>3, <2>3, <2>6
  <2>9. QED
    BY <2>3, <2>5, <2>8
<1> HIDE DEF T
<1>5. \A n \in Nat : n \in T
  BY <1>3, <1>4, SetInduction
<1>6. ASSUME NEW i \in 1..Len(s) PROVE i \in 1..Len(t) /\ s[i] = t[i]
  <2>1. i \in Nat /\ i <= i
    BY <1>1
  <2>2. QED
    BY <2>1, <1>5 DEF T
<1>7. QED
  BY <1>6

\* There is one list of given entries.
LEMMA OneList ==
  ASSUME NEW E, NEW s, Lists(s, E), NEW t, Lists(t, E)
  PROVE  s = t
<1>1. s \in Seq(Entry) /\ t \in Seq(Entry) /\ Len(s) \in Nat /\ Len(t) \in Nat
  BY ListFacts
<1>2. \A i \in 1..Len(s) : i \in 1..Len(t) /\ s[i] = t[i]
  BY ListsAgree
<1>3. \A i \in 1..Len(t) : i \in 1..Len(s)
  BY ListsAgree
<1>4. Len(s) = Len(t)
  <2>1. Len(s) <= Len(t)
    <3>1. Len(s) = 0 \/ Len(s) \in 1..Len(s)
      BY <1>1
    <3>2. QED
      BY <3>1, <1>1, <1>2
  <2>2. Len(t) <= Len(s)
    <3>1. Len(t) = 0 \/ Len(t) \in 1..Len(t)
      BY <1>1
    <3>2. QED
      BY <3>1, <1>1, <1>3
  <2>3. QED
    BY <2>1, <2>2, <1>1
<1>5. QED
  BY <1>1, <1>2, <1>4, SameSeq

LEMMA NoList ==
  ASSUME NEW E, E = {}
  PROVE  Lists(<< >>, E)
<1>1. << >> \in Seq(Entry) /\ Len(<< >>) = 0
  OBVIOUS
<1>2. QED
  BY <1>1 DEF Lists, InOrder

\* An entry with a smaller key than all others comes in front of them.
LEMMA ListInFront ==
  ASSUME NEW E, NEW s, Lists(s, E), NEW e \in Entry, \A x \in E : e.key < x.key,
         NEW E2, E2 = E \cup {e}
  PROVE  Lists(<<e>> \o s, E2)
<1> DEFINE t == <<e>> \o s
<1>1. /\ s \in Seq(Entry) /\ Len(s) \in Nat
      /\ \A i \in 1..Len(s) : s[i] \in E
      /\ \A i, j \in 1..Len(s) : i < j => s[i].key < s[j].key
  BY ListFacts
<1>2. /\ t \in Seq(Entry) /\ Len(t) = Len(s) + 1 /\ t[1] = e
      /\ \A i \in 1..Len(s) : t[i + 1] = s[i]
  BY <1>1, InFrontIs
<1> HIDE DEF t
<1>3. \A i \in 1..Len(t) : i = 1 \/ (i - 1 \in 1..Len(s) /\ t[i] = s[i - 1])
  <2>1. ASSUME NEW i \in 1..Len(t), i # 1 PROVE i - 1 \in 1..Len(s) /\ (i - 1) + 1 = i
    BY <2>1, <1>1, <1>2
  <2>2. QED
    BY <2>1, <1>2
<1>4. InOrder(t)
  <2>1. SUFFICES ASSUME NEW i \in 1..Len(t), NEW j \in 1..Len(t), i < j PROVE t[i].key < t[j].key
    BY DEF InOrder
  <2>2. j - 1 \in 1..Len(s) /\ t[j] = s[j - 1]
    BY <2>1, <1>1, <1>2, <1>3
  <2>3. CASE i = 1
    BY <2>2, <2>3, <1>1, <1>2
  <2>4. CASE i # 1
    <3>1. i - 1 \in 1..Len(s) /\ t[i] = s[i - 1] /\ i - 1 < j - 1
      BY <2>1, <2>4, <1>1, <1>2, <1>3
    <3>2. QED
      BY <3>1, <2>2, <1>1
  <2>5. QED
    BY <2>3, <2>4
<1>5. \A x : x \in E2 <=> \E i \in 1..Len(t) : t[i] = x
  <2>1. \A i \in 1..Len(s) : i + 1 \in 1..Len(t) /\ 1 \in 1..Len(t)
    BY <1>1, <1>2
  <2>2. 1 \in 1..Len(t)
    BY <1>1, <1>2
  <2>3. \A x : x \in E <=> \E i \in 1..Len(s) : s[i] = x
    BY DEF Lists
  <2>4. ASSUME NEW x, x \in E2 PROVE \E i \in 1..Len(t) : t[i] = x
    <3>1. CASE x = e
      BY <3>1, <2>2, <1>2
    <3>2. CASE x \in E
      BY <3>2, <2>1, <2>3, <1>2
    <3>3. QED
      BY <3>1, <3>2, <2>4
  <2>5. ASSUME NEW i \in 1..Len(t) PROVE t[i] \in E2
    BY <2>3, <1>1, <1>2, <1>3
  <2>6. QED
    BY <2>4, <2>5
<1>6. QED
  BY <1>2, <1>4, <1>5 DEF Lists, t

\* One with a greater key comes behind.
LEMMA ListBehind ==
  ASSUME NEW E, NEW s, Lists(s, E), NEW e \in Entry, \A x \in E : x.key < e.key,
         NEW E2, E2 = E \cup {e}
  PROVE  Lists(Append(s, e), E2)
<1> DEFINE t == Append(s, e)
<1>1. /\ s \in Seq(Entry) /\ Len(s) \in Nat
      /\ \A i \in 1..Len(s) : s[i] \in E
      /\ \A i, j \in 1..Len(s) : i < j => s[i].key < s[j].key
  BY ListFacts
<1>2. /\ t \in Seq(Entry) /\ Len(t) = Len(s) + 1 /\ t[Len(s) + 1] = e
      /\ \A i \in 1..Len(s) : t[i] = s[i]
  BY <1>1, AppendIs
<1> HIDE DEF t
<1>3. \A i \in 1..Len(t) : i = Len(s) + 1 \/ i \in 1..Len(s)
  BY <1>1, <1>2
<1>4. InOrder(t)
  <2>1. SUFFICES ASSUME NEW i \in 1..Len(t), NEW j \in 1..Len(t), i < j PROVE t[i].key < t[j].key
    BY DEF InOrder
  <2>2. i \in 1..Len(s)
    BY <2>1, <1>1, <1>2
  <2>3. QED
    BY <2>1, <2>2, <1>1, <1>2, <1>3
<1>5. \A x : x \in E2 <=> \E i \in 1..Len(t) : t[i] = x
  <2>1. Len(s) + 1 \in 1..Len(t) /\ \A i \in 1..Len(s) : i \in 1..Len(t)
    BY <1>1, <1>2
  <2>2. \A x : x \in E <=> \E i \in 1..Len(s) : s[i] = x
    BY DEF Lists
  <2>3. ASSUME NEW x, x \in E2 PROVE \E i \in 1..Len(t) : t[i] = x
    <3>1. CASE x = e
      BY <3>1, <2>1, <1>2
    <3>2. CASE x \in E
      BY <3>2, <2>1, <2>2, <1>2
    <3>3. QED
      BY <3>1, <3>2, <2>3
  <2>4. ASSUME NEW i \in 1..Len(t) PROVE t[i] \in E2
    BY <2>2, <1>1, <1>2, <1>3
  <2>5. QED
    BY <2>3, <2>4
<1>6. QED
  BY <1>2, <1>4, <1>5 DEF Lists, t
-----------------------------------------------------------------------------
(* What a walk through the leaves reads.                                   *)

\* Stored entries at or behind a place in a leaf.
Beyond(S) == {k \in Keys : \A x \in S : x < k}

NotPassed(a, i, key) == \A j \in 1..Count(nodes[a]) : j < i => nodes[a].keys[j] < key

StoredEntry(e) == e \in Entry /\ <<e.key, e.loc>> \in Entries(nodes)

Rest(a, i, span) ==
  {e \in Entry : /\ StoredEntry(e)
                 /\ (e.key \in span[a] /\ NotPassed(a, i, e.key)) \/ e.key \in Beyond(span[a])}

\* An entry with a key of a leaf is in that leaf, at one place.
LEMMA EntryAt ==
  ASSUME NEW span, NEW level, GoodTree(span, level), NEW a, LiveLeaf(nodes, span, a),
         NEW e, StoredEntry(e), e.key \in span[a]
  PROVE  \E j \in 1..Count(nodes[a]) : nodes[a].keys[j] = e.key /\ nodes[a].locs[j] = e.loc
<1>1. Shape(nodes, span, span, level)
  BY GoodTreeFacts
<1>2. PICK b \in 1..Len(nodes) : <<e.key, e.loc>> \in EntriesOf(nodes[b])
  BY DEF StoredEntry, Entries
<1>3. /\ LiveLeaf(nodes, span, b) /\ e.key \in span[b]
      /\ \E j \in 1..Len(nodes[b].keys) : nodes[b].keys[j] = e.key /\ nodes[b].locs[j] = e.loc
  BY <1>1, <1>2, EntriesPlace
<1>4. b = a
  BY <1>1, <1>3, OneLeaf
<1>5. QED
  BY <1>3, <1>4 DEF Count

LEMMA LeafFacts ==
  ASSUME NEW span, NEW level, GoodTree(span, level), NEW a, LiveLeaf(nodes, span, a)
  PROVE  /\ a \in NodeIds /\ a \in 1..Len(nodes) /\ a # NoLeaf /\ Len(nodes) \in Nat
         /\ span[a] # {} /\ span[a] \subseteq Keys /\ span[a] \subseteq Int
         /\ nodes[a].next \in 0..Len(nodes) /\ Count(nodes[a]) \in Nat
         /\ \A j \in 1..Count(nodes[a]) :
              /\ nodes[a].keys[j] \in Keys /\ nodes[a].keys[j] \in Int /\ nodes[a].keys[j] \in span[a]
              /\ nodes[a].locs[j] \in Locs
              /\ <<nodes[a].keys[j], nodes[a].locs[j]>> \in Entries(nodes)
         /\ \A i, j \in 1..Count(nodes[a]) : i < j => nodes[a].keys[i] < nodes[a].keys[j]
<1>1. Shape(nodes, span, span, level) /\ NodeIds = 1..Len(nodes) /\ Len(nodes) \in Nat
  BY GoodTreeFacts
<1>2. a \in 1..Len(nodes) /\ nodes[a].leaf /\ span[a] # {} /\ a # NoLeaf
  BY <1>1 DEF LiveLeaf, NoLeaf
<1>3. /\ nodes[a].keys \in Seq(Keys) /\ nodes[a].locs \in Seq(Locs) /\ Count(nodes[a]) \in Nat
      /\ span[a] \subseteq Keys /\ span[a] \subseteq Int /\ LeafFits(nodes[a], span[a])
      /\ nodes[a].next \in 0..Len(nodes) /\ Len(nodes[a].keys) = Count(nodes[a])
  BY <1>1, <1>2, ShapeFacts DEF Count
<1>4. Len(nodes[a].locs) = Count(nodes[a])
  BY <1>3 DEF LeafFits
<1>5. /\ \A j \in 1..Count(nodes[a]) : nodes[a].keys[j] \in Keys /\ nodes[a].keys[j] \in span[a]
      /\ \A i, j \in 1..Count(nodes[a]) : i < j => nodes[a].keys[i] < nodes[a].keys[j]
  BY <1>3, SeqFacts DEF LeafFits, Within, Ascending
<1>6. \A j \in 1..Count(nodes[a]) : nodes[a].locs[j] \in Locs
  BY <1>3, <1>4, SeqFacts
<1>7. \A j \in 1..Count(nodes[a]) : <<nodes[a].keys[j], nodes[a].locs[j]>> \in Entries(nodes)
  BY <1>2, <1>4 DEF Entries, EntriesOf
<1>8. QED
  BY <1>1, <1>2, <1>3, <1>5, <1>6, <1>7

\* Behind the keys of a leaf the next leaf begins, if there is one.
LEMMA RestAtEnd ==
  ASSUME NEW span, NEW level, GoodTree(span, level), NEW a, LiveLeaf(nodes, span, a),
         NEW i \in Nat, i > Count(nodes[a]), NEW b, b = nodes[a].next
  PROVE  IF b = NoLeaf THEN Rest(a, i, span) = {}
         ELSE LiveLeaf(nodes, span, b) /\ Rest(a, i, span) = Rest(b, 1, span)
<1>1. /\ a \in 1..Len(nodes) /\ span[a] # {} /\ span[a] \subseteq Keys /\ span[a] \subseteq Int
      /\ Count(nodes[a]) \in Nat
      /\ \A j \in 1..Count(nodes[a]) : nodes[a].keys[j] \in Int
  BY LeafFacts
<1>2. \A e \in Rest(a, i, span) : StoredEntry(e) /\ e.key \in Beyond(span[a])
  <2>1. SUFFICES ASSUME NEW e, StoredEntry(e), e.key \in span[a], NotPassed(a, i, e.key) PROVE FALSE
    BY DEF Rest
  <2>2. PICK j \in 1..Count(nodes[a]) : nodes[a].keys[j] = e.key
    BY <2>1, EntryAt
  <2>3. j < i
    BY <1>1
  <2>4. nodes[a].keys[j] < e.key /\ nodes[a].keys[j] \in Int
    BY <2>1, <2>3, <1>1 DEF NotPassed
  <2>5. QED
    BY <2>2, <2>4
<1>3. Linked(nodes, span) /\ NodeIds = 1..Len(nodes)
  BY GoodTreeFacts
<1>4. CASE b = NoLeaf
  <2>1. AtEnd(span[a])
    BY <1>1, <1>3, <1>4, LinksOf
  <2>2. SUFFICES ASSUME NEW e, e \in Rest(a, i, span) PROVE FALSE
    BY <1>4
  <2>3. PICK x : x \in span[a] /\ x \in Int
    BY <1>1
  <2>4. e.key \in Keys /\ x < e.key /\ e.key \in Int /\ \A y \in span[a] : y < e.key
    BY <2>2, <2>3, <1>2, KeysAreInts DEF Beyond
  <2>5. e.key \in span[a]
    BY <2>1, <2>3, <2>4 DEF AtEnd
  <2>6. QED
    BY <2>4, <2>5
<1>5. CASE b # NoLeaf
  <2>1. LiveLeaf(nodes, span, b) /\ Adjacent(span[a], span[b])
    BY <1>1, <1>3, <1>5, LinksOf
  <2>2. span[b] # {} /\ span[b] \subseteq Int /\ span[b] \subseteq Keys
    BY <2>1, LeafFacts
  <2>3. PICK x, y : x \in span[a] /\ y \in span[b] /\ x \in Int /\ y \in Int
    BY <1>1, <2>2
  <2>4. ASSUME NEW k \in Beyond(span[a]) PROVE k \in span[b] \/ k \in Beyond(span[b])
    <3>1. k \in Keys /\ k \in Int /\ (\A z \in span[a] : z < k)
      BY <2>4, KeysAreInts DEF Beyond
    <3>2. SUFFICES ASSUME k \notin Beyond(span[b]) PROVE k \in span[b]
      OBVIOUS
    <3>3. PICK z \in span[b] : ~(z < k)
      BY <3>1, <3>2 DEF Beyond
    <3>4. x <= k /\ k <= z /\ z \in Int
      BY <3>1, <3>3, <2>2, <2>3
    <3>5. k \in span[a] \cup span[b]
      BY <3>1, <3>3, <3>4, <2>1, <2>3 DEF Adjacent, Convex
    <3>6. QED
      BY <3>1, <3>5
  <2>5. ASSUME NEW k, k \in span[b] \/ k \in Beyond(span[b]) PROVE k \in Beyond(span[a])
    <3>1. CASE k \in span[b]
      BY <3>1, <2>1, <2>2 DEF Beyond, Adjacent, Before
    <3>2. CASE k \in Beyond(span[b])
      <4>1. k \in Keys /\ k \in Int /\ y < k
        BY <3>2, <2>3, KeysAreInts DEF Beyond
      <4>2. \A z \in span[a] : z \in Int /\ z < y
        BY <1>1, <2>1, <2>3 DEF Adjacent, Before
      <4>3. QED
        BY <4>1, <4>2, <2>3 DEF Beyond
    <3>3. QED
      BY <3>1, <3>2, <2>5
  <2>6. \A key : NotPassed(b, 1, key)
    BY DEF NotPassed
  <2>7. Rest(a, i, span) = Rest(b, 1, span)
    <3>1. ASSUME NEW e, e \in Rest(a, i, span) PROVE e \in Rest(b, 1, span)
      BY <3>1, <1>2, <2>4, <2>6 DEF Rest
    <3>2. ASSUME NEW e, e \in Rest(b, 1, span) PROVE e \in Rest(a, i, span)
      BY <3>2, <2>5 DEF Rest
    <3>3. QED
      BY <3>1, <3>2
  <2>8. QED
    BY <2>1, <2>7, <1>5
<1>6. QED
  BY <1>4, <1>5

\* At a key: its entry, and behind it only greater keys.
LEMMA RestAt ==
  ASSUME NEW span, NEW level, GoodTree(span, level), NEW a, LiveLeaf(nodes, span, a),
         NEW i \in 1..Count(nodes[a]), NEW e, e = [key |-> nodes[a].keys[i], loc |-> nodes[a].locs[i]]
  PROVE  /\ e \in Entry /\ e.key = nodes[a].keys[i]
         /\ Rest(a, i, span) = Rest(a, i + 1, span) \cup {e}
         /\ \A x \in Rest(a, i + 1, span) : e.key < x.key
<1> DEFINE c == Count(nodes[a])
           keys == nodes[a].keys
           locs == nodes[a].locs
<1>1. /\ a \in 1..Len(nodes) /\ c \in Nat /\ i \in 1..c
      /\ \A j \in 1..c : /\ keys[j] \in Keys /\ keys[j] \in Int /\ keys[j] \in span[a] /\ locs[j] \in Locs
                         /\ <<keys[j], locs[j]>> \in Entries(nodes)
      /\ \A h, j \in 1..c : h < j => keys[h] < keys[j]
  BY LeafFacts
<1>2. e \in Entry /\ e.key = keys[i] /\ e.loc = locs[i] /\ StoredEntry(e)
  BY <1>1 DEF Entry, StoredEntry
<1> HIDE DEF c, keys, locs
<1>3. \A key : NotPassed(a, i, key) <=> \A j \in 1..c : j < i => keys[j] < key
  BY DEF NotPassed, c, keys
<1>4. \A key : NotPassed(a, i + 1, key) <=> NotPassed(a, i, key) /\ keys[i] < key
  <2>1. \A j \in 1..c : j < i + 1 <=> j < i \/ j = i
    BY <1>1
  <2>2. \A key : NotPassed(a, i + 1, key) <=> \A j \in 1..c : j < i + 1 => keys[j] < key
    BY DEF NotPassed, c, keys
  <2>3. QED
    BY <2>1, <2>2, <1>1, <1>3
<1>5. NotPassed(a, i, e.key)
  BY <1>1, <1>2, <1>3
<1>6. ASSUME NEW x, StoredEntry(x), x.key \in span[a], NotPassed(a, i, x.key), x # e
      PROVE  keys[i] < x.key
  <2>1. PICK j \in 1..c : keys[j] = x.key /\ locs[j] = x.loc
    BY <1>6, EntryAt DEF c, keys, locs
  <2>2. ~(j < i)
    <3>1. SUFFICES ASSUME j < i PROVE FALSE
      OBVIOUS
    <3>2. keys[j] < x.key
      BY <3>1, <1>3, <1>6
    <3>3. keys[j] \in Int
      BY <1>1
    <3>4. QED
      BY <3>2, <3>3, <2>1
  <2>3. j # i
    <3>1. x \in Entry
      BY <1>6 DEF StoredEntry
    <3>2. j = i => x = e
      BY <3>1, <2>1, <1>2 DEF Entry
    <3>3. QED
      BY <3>2, <1>6
  <2>4. i < j
    BY <2>2, <2>3, <1>1
  <2>5. QED
    BY <2>1, <2>4, <1>1
<1>7. ASSUME NEW x \in Rest(a, i + 1, span) PROVE x \in Rest(a, i, span) /\ e.key < x.key
  <2>1. \/ x.key \in span[a] /\ NotPassed(a, i, x.key) /\ keys[i] < x.key
        \/ x.key \in Beyond(span[a])
    BY <1>4 DEF Rest
  <2>2. x.key \in Beyond(span[a]) => keys[i] < x.key
    BY <1>1 DEF Beyond
  <2>3. QED
    BY <2>1, <2>2, <1>2 DEF Rest
<1>8. ASSUME NEW x \in Rest(a, i, span), x # e PROVE x \in Rest(a, i + 1, span)
  BY <1>4, <1>6, <1>8 DEF Rest
<1>9. e \in Rest(a, i, span)
  BY <1>1, <1>2, <1>5 DEF Rest
<1>10. QED
  BY <1>2, <1>7, <1>8, <1>9 DEF keys
\* What a walk that stops and skips leaves of the entries.
Wanted(R, stop, skip) == {e \in R : e.key \notin stop /\ e.key \notin skip}

\* A walk that stops at a key would stop at every greater one.
Closed(stop, start) == \A x \in stop, k \in Keys : start <= x /\ x <= k => k \in stop

PlaceFrom(a, i, span, start) ==
  /\ LiveLeaf(nodes, span, a) /\ i \in 1..(Count(nodes[a]) + 1)
  /\ \A e \in Rest(a, i, span) : start <= e.key

Reads(f, a, i, span, stop, skip) == Lists(f[<<a, i>>], Wanted(Rest(a, i, span), stop, skip))

\* One step of a walk.
LEMMA StepReads ==
  ASSUME NEW span, NEW level, GoodTree(span, level), NEW stop, NEW skip, NEW start \in Int,
         Closed(stop, start), NEW f, Walked(f, stop, skip), NEW a, NEW i,
         PlaceFrom(a, i, span, start),
         /\ i > Count(nodes[a]) /\ nodes[a].next # NoLeaf
            /\ PlaceFrom(nodes[a].next, 1, span, start) => Reads(f, nodes[a].next, 1, span, stop, skip),
         /\ i <= Count(nodes[a]) /\ PlaceFrom(a, i + 1, span, start)
            => Reads(f, a, i + 1, span, stop, skip)
  PROVE  Reads(f, a, i, span, stop, skip)
<1> DEFINE b == nodes[a].next
           key == nodes[a].keys[i]
           e == [key |-> key, loc |-> nodes[a].locs[i]]
<1>1. LiveLeaf(nodes, span, a) /\ i \in 1..(Count(nodes[a]) + 1) /\ \A x \in Rest(a, i, span) : start <= x.key
  BY DEF PlaceFrom
<1>2. a \in 1..Len(nodes) /\ a # NoLeaf /\ Len(nodes) \in Nat /\ b \in 0..Len(nodes) /\ Count(nodes[a]) \in Nat
  BY <1>1, LeafFacts
<1>3. <<a, i>> \in (0..Len(nodes)) \X Nat
  BY <1>1, <1>2
<1>4. f[<<a, i>>] = WalkStep(f, a, i, stop, skip)
  BY <1>3 DEF Walked
<1>5. CASE i > Count(nodes[a])
  <2>1. f[<<a, i>>] = f[<<b, 1>>] /\ i \in Nat
    BY <1>1, <1>2, <1>4, <1>5 DEF WalkStep
  <2>2. IF b = NoLeaf THEN Rest(a, i, span) = {}
        ELSE LiveLeaf(nodes, span, b) /\ Rest(a, i, span) = Rest(b, 1, span)
    BY <2>1, <1>1, <1>5, RestAtEnd
  <2>3. CASE b = NoLeaf
    <3>1. <<b, 1>> \in (0..Len(nodes)) \X Nat
      BY <1>2
    <3>2. f[<<b, 1>>] = WalkStep(f, b, 1, stop, skip)
      BY <3>1 DEF Walked
    <3>3. f[<<b, 1>>] = << >>
      BY <3>2, <2>3 DEF WalkStep
    <3>4. Wanted(Rest(a, i, span), stop, skip) = {}
      BY <2>2, <2>3 DEF Wanted
    <3>5. QED
      BY <3>3, <3>4, <2>1, NoList DEF Reads
  <2>4. CASE b # NoLeaf
    <3>1. LiveLeaf(nodes, span, b) /\ Rest(a, i, span) = Rest(b, 1, span)
      BY <2>2, <2>4
    <3>2. 1 \in 1..(Count(nodes[b]) + 1)
      <4>1. Count(nodes[b]) \in Nat
        BY <3>1, LeafFacts
      <4>2. QED
        BY <4>1
    <3>3. PlaceFrom(b, 1, span, start)
      BY <3>1, <3>2, <1>1 DEF PlaceFrom
    <3>4. Reads(f, b, 1, span, stop, skip)
      BY <3>3, <2>4, <1>5
    <3>5. QED
      BY <3>1, <3>4, <2>1 DEF Reads
  <2>5. QED
    BY <2>3, <2>4
<1>6. CASE ~(i > Count(nodes[a]))
  <2>1. i \in 1..Count(nodes[a]) /\ i + 1 \in 1..(Count(nodes[a]) + 1) /\ i <= Count(nodes[a])
    BY <1>1, <1>2, <1>6
  <2>2. /\ e \in Entry /\ e.key = key
        /\ Rest(a, i, span) = Rest(a, i + 1, span) \cup {e}
        /\ \A x \in Rest(a, i + 1, span) : e.key < x.key
    BY <2>1, <1>1, RestAt
  <2>3. key \in Keys /\ key \in Int
    BY <2>1, <1>1, LeafFacts
  <2>4. PlaceFrom(a, i + 1, span, start)
    BY <2>1, <2>2, <1>1 DEF PlaceFrom
  <2>5. Reads(f, a, i + 1, span, stop, skip)
    BY <2>1, <2>4
  <2> DEFINE R == Rest(a, i + 1, span)
  <2>6. f[<<a, i>>] = IF key \in stop THEN << >>
                      ELSE IF key \in skip THEN f[<<a, i + 1>>]
                      ELSE <<e>> \o f[<<a, i + 1>>]
    BY <1>2, <1>4, <1>6 DEF WalkStep
  <2>7. \A x \in R : x \in Entry /\ x.key \in Keys /\ x.key \in Int
    BY KeysAreInts DEF Rest, Entry
  <2>8. Rest(a, i, span) = R \cup {e} /\ (\A x \in R : e.key < x.key) /\ start <= key
    BY <2>2, <1>1
  <2> HIDE DEF key, R, e
  <2>9. CASE key \in stop
    <3>1. \A x \in R \cup {e} : x.key \in stop
      <4>1. \A x \in R : key <= x.key
        BY <2>2, <2>3, <2>7, <2>8
      <4>2. \A x \in R : x.key \in stop
        BY <4>1, <2>7, <2>8, <2>9 DEF Closed
      <4>3. QED
        BY <4>2, <2>2, <2>9
    <3>2. Wanted(R \cup {e}, stop, skip) = {}
      BY <3>1 DEF Wanted
    <3>3. QED
      BY <3>2, <2>6, <2>8, <2>9, NoList DEF Reads
  <2>10. CASE key \notin stop /\ key \in skip
    <3>1. Wanted(R \cup {e}, stop, skip) = Wanted(R, stop, skip)
      BY <2>2, <2>10 DEF Wanted
    <3>2. QED
      BY <3>1, <2>5, <2>6, <2>8, <2>10 DEF Reads, R
  <2>11. CASE key \notin stop /\ key \notin skip
    <3> DEFINE E == Wanted(R, stop, skip)
               s == f[<<a, i + 1>>]
    <3>1. Lists(s, E)
      BY <2>5 DEF Reads, R
    <3>2. \A x \in E : e.key < x.key
      BY <2>8 DEF Wanted
    <3>3. Wanted(R \cup {e}, stop, skip) = E \cup {e}
      BY <2>2, <2>11 DEF Wanted
    <3> HIDE DEF E, s
    <3>4. Lists(<<e>> \o s, Wanted(R \cup {e}, stop, skip))
      BY <3>1, <3>2, <3>3, <2>2, ListInFront
    <3>5. QED
      BY <3>4, <2>6, <2>8, <2>11 DEF Reads, s
  <2>12. QED
    BY <2>9, <2>10, <2>11
<1>7. QED
  BY <1>5, <1>6

\* A walk reads what is behind its place, in the order of the keys.
LEMMA WalkReads ==
  ASSUME NEW span, NEW level, GoodTree(span, level), NEW stop, NEW skip, NEW start \in Int,
         Closed(stop, start), NEW f, Walked(f, stop, skip), NEW a0, NEW i0,
         PlaceFrom(a0, i0, span, start)
  PROVE  Reads(f, a0, i0, span, stop, skip)
<1> DEFINE most == LeafOrder + InternalOrder + 1
           Rank(a, i) == PlaceRank(<<a, i>>, span, most)
           Place(a, i) == PlaceFrom(a, i, span, start)
           Goal(a, i) == Reads(f, a, i, span, stop, skip)
           T == {m \in Nat : \A a, i : Place(a, i) /\ Rank(a, i) < m => Goal(a, i)}
<1>1. most \in Nat /\ \A a \in NodeIds : Count(nodes[a]) < most
  BY CountBound
<1>2. \A a, i : Place(a, i) => a \in NodeIds /\ i \in Nat /\ Count(nodes[a]) \in Nat
  <2>1. TAKE a, i
  <2>2. HAVE Place(a, i)
  <2>3. LiveLeaf(nodes, span, a) /\ i \in 1..(Count(nodes[a]) + 1)
    BY <2>2 DEF PlaceFrom
  <2>4. a \in NodeIds /\ Count(nodes[a]) \in Nat
    BY <2>3, LeafFacts
  <2>5. QED
    BY <2>3, <2>4
<1>3. \A a, i : Place(a, i) => 
        /\ Rank(a, i) \in Nat
        /\ i > Count(nodes[a]) =>
             Rank(nodes[a].next, 1) \in Nat /\ Rank(nodes[a].next, 1) < Rank(a, i)
        /\ i <= Count(nodes[a]) => Rank(a, i + 1) \in Nat /\ Rank(a, i + 1) < Rank(a, i)
  <2>1. TAKE a, i
  <2>2. HAVE Place(a, i)
  <2>3. a \in NodeIds /\ i \in Nat /\ Count(nodes[a]) \in Nat
    BY <2>2, <1>2
  <2> HIDE DEF Place, most
  <2>4. i > Count(nodes[a]) =>
          /\ Rank(a, i) \in Nat
          /\ Rank(nodes[a].next, 1) \in Nat /\ Rank(nodes[a].next, 1) < Rank(a, i)
    BY <2>3, <1>1, RankFalls
  <2>5. i <= Count(nodes[a]) =>
          /\ Rank(a, i) \in Nat /\ Rank(a, i + 1) \in Nat /\ Rank(a, i + 1) < Rank(a, i)
    BY <2>3, <1>1, RankFalls
  <2>6. i > Count(nodes[a]) \/ i <= Count(nodes[a])
    BY <2>3
  <2> HIDE DEF Rank
  <2>7. QED
    BY <2>4, <2>5, <2>6
<1>4. \A a, i : /\ Place(a, i)
                /\ i > Count(nodes[a]) /\ nodes[a].next # NoLeaf
                     /\ Place(nodes[a].next, 1) => Goal(nodes[a].next, 1)
                /\ i <= Count(nodes[a]) /\ Place(a, i + 1) => Goal(a, i + 1)
                => Goal(a, i)
  BY StepReads
<1> HIDE DEF Rank, Place, Goal, most
<1>5. 0 \in T
  BY <1>3
<1>6. ASSUME NEW m \in Nat, m \in T PROVE m + 1 \in T
  <2>1. SUFFICES ASSUME NEW a, NEW i, Place(a, i), Rank(a, i) < m + 1 PROVE Goal(a, i)
    OBVIOUS
  <2>2. \A b, j : Place(b, j) /\ Rank(b, j) \in Nat /\ Rank(b, j) < Rank(a, i) => Goal(b, j)
    <3>1. TAKE b, j
    <3>2. HAVE Place(b, j) /\ Rank(b, j) \in Nat /\ Rank(b, j) < Rank(a, i)
    <3>3. Rank(a, i) \in Nat
      BY <2>1, <1>3
    <3>4. Rank(b, j) < m
      BY <3>2, <3>3, <2>1
    <3>5. QED
      BY <3>2, <3>4, <1>6
  <2> HIDE DEF T
  <2>3. i > Count(nodes[a]) /\ nodes[a].next # NoLeaf /\ Place(nodes[a].next, 1)
          => Goal(nodes[a].next, 1)
    BY <2>1, <2>2, <1>3
  <2>4. i <= Count(nodes[a]) /\ Place(a, i + 1) => Goal(a, i + 1)
    BY <2>1, <2>2, <1>3
  <2>5. QED
    BY <2>1, <2>3, <2>4, <1>4
<1> HIDE DEF T
<1>7. \A m \in Nat : m \in T
  BY <1>5, <1>6, SetInduction
<1>8. Place(a0, i0)
  BY DEF Place
<1>9. Rank(a0, i0) \in Nat /\ Rank(a0, i0) + 1 \in T /\ Rank(a0, i0) < Rank(a0, i0) + 1
  BY <1>3, <1>7, <1>8
<1>10. Goal(a0, i0)
  BY <1>8, <1>9 DEF T
<1>11. QED
  BY <1>10 DEF Goal

\* At the place where a search for a key ends, the entries from that key on
\* are left.
LEMMA RestFromStart ==
  ASSUME NEW span, NEW level, GoodTree(span, level), NEW a, LiveLeaf(nodes, span, a),
         NEW key \in span[a], NEW i, i = FindKeyIndex(nodes[a], key)
  PROVE  /\ i \in 1..(Count(nodes[a]) + 1)
         /\ Rest(a, i, span) = {e \in Entry : StoredEntry(e) /\ key <= e.key}
<1> DEFINE n == nodes[a]
<1>1. /\ a \in 1..Len(nodes) /\ span[a] \subseteq Keys /\ span[a] \subseteq Int /\ Count(n) \in Nat
      /\ \A j \in 1..Count(n) : n.keys[j] \in Int
  BY LeafFacts
<1>2. Shape(nodes, span, span, level) /\ n.leaf
  BY GoodTreeFacts DEF LiveLeaf
<1>3. n.keys \in Seq(Int) /\ Ascending(n.keys) /\ Len(n.keys) = Count(n) /\ key \in Int
  BY <1>1, <1>2, ShapeFacts DEF LeafFits, Count, LiveLeaf
<1>4. /\ i \in 1..(Count(n) + 1)
      /\ \A j \in 1..Count(n) : j < i => n.keys[j] < key
      /\ \A j \in 1..Count(n) : j >= i => n.keys[j] >= key
  BY <1>3, FindKeyIndexIs
<1>5. Convex(span[a])
  BY <1>1, <1>2 DEF Shape
<1>6. ASSUME NEW e \in Rest(a, i, span) PROVE e \in Entry /\ StoredEntry(e) /\ key <= e.key
  <2>1. /\ e \in Entry /\ StoredEntry(e)
        /\ (e.key \in span[a] /\ NotPassed(a, i, e.key)) \/ e.key \in Beyond(span[a])
    BY DEF Rest
  <2>2. e.key \in Int
    BY <2>1, KeysAreInts DEF Entry
  <2>3. CASE e.key \in span[a] /\ NotPassed(a, i, e.key)
    <3>1. PICK j \in 1..Count(n) : n.keys[j] = e.key
      BY <2>1, <2>3, EntryAt
    <3>2. j < i => n.keys[j] < e.key
      BY <2>3 DEF NotPassed
    <3>3. j >= i
      BY <3>1, <3>2, <2>2, <1>1, <1>4
    <3>4. n.keys[j] >= key
      BY <3>3, <1>4
    <3>5. QED
      BY <3>1, <3>4, <2>1, <2>2, <1>3
  <2>4. CASE e.key \in Beyond(span[a])
    <3>1. key < e.key
      BY <2>4 DEF Beyond
    <3>2. QED
      BY <3>1, <2>1, <2>2, <1>3
  <2>5. QED
    BY <2>1, <2>3, <2>4
<1>7. ASSUME NEW e \in Entry, StoredEntry(e), key <= e.key PROVE e \in Rest(a, i, span)
  <2>1. e.key \in Int /\ e.key \in Keys
    BY KeysAreInts DEF Entry
  <2>2. CASE e.key \in span[a]
    <3>1. ASSUME NEW j \in 1..Count(n), j < i PROVE n.keys[j] < e.key
      <4>1. n.keys[j] < key /\ n.keys[j] \in Int
        BY <3>1, <1>1, <1>4
      <4>2. QED
        BY <4>1, <2>1, <1>3, <1>7
    <3>2. NotPassed(a, i, e.key)
      BY <3>1 DEF NotPassed
    <3>3. QED
      BY <3>2, <2>2, <1>7 DEF Rest
  <2>3. CASE e.key \notin span[a]
    <3>1. SUFFICES ASSUME NEW x \in span[a], ~(x < e.key) PROVE FALSE
      BY <2>1, <1>7 DEF Rest, Beyond
    <3>2. e.key <= x /\ key <= e.key
      BY <3>1, <2>1, <1>1, <1>7
    <3>3. QED
      BY <3>2, <2>1, <2>3, <1>5 DEF Convex
  <2>4. QED
    BY <2>2, <2>3
<1> HIDE DEF n
<1>8. QED
  BY <1>4, <1>6, <1>7 DEF n
-----------------------------------------------------------------------------
(* Sequences put one behind the other.                                     *)

\* h is what FlattenSeq makes of the first sequences.
Flattens(h, seqs, S) ==
  /\ h \in [0..Len(seqs) -> Seq(S)] /\ h[0] = << >>
  /\ \A i \in 1..Len(seqs) : h[i] = h[i - 1] \o seqs[i]
  /\ FlattenSeq(seqs) = h[Len(seqs)]

Flattening(g, seqs) ==
  g = [i \in 1..Len(seqs) |-> IF i = 1 THEN seqs[i] ELSE g[i - 1] \o seqs[i]]

LEMMA FlatteningExists ==
  ASSUME NEW S, NEW seqs \in Seq(Seq(S))
  PROVE  \E g \in [1..Len(seqs) -> Seq(S)] : Flattening(g, seqs)
<1> DEFINE V == Seq(S)
           n == Len(seqs)
           step == [p \in Nat \X V |-> IF p[1] + 1 \in 1..n THEN p[2] \o seqs[p[1] + 1] ELSE p[2]]
<1>1. n \in Nat /\ \A i \in 1..n : seqs[i] \in V
  BY SeqFacts
<1>2. << >> \in V
  OBVIOUS
<1>3. \A u, v \in V : u \o v \in V
  OBVIOUS
<1>4. \A v \in V : << >> \o v = v
  OBVIOUS
<1> HIDE DEF V, n
<1>5. step \in [Nat \X V -> V]
  <2>1. ASSUME NEW p \in Nat \X V
        PROVE  (IF p[1] + 1 \in 1..n THEN p[2] \o seqs[p[1] + 1] ELSE p[2]) \in V
    BY <1>1, <1>3
  <2>2. QED
    BY <2>1
<1>6. \A i \in Nat, v \in V : i + 1 \in 1..n => step[<<i, v>>] = v \o seqs[i + 1]
  OBVIOUS
<1> HIDE DEF step
<1>7. PICK h : Computed(h, V, << >>, step)
  BY <1>2, <1>5, RecursionExists
<1>8. /\ h \in [Nat -> V] /\ h[0] = << >>
      /\ \A i \in Nat : h[i + 1] = step[<<i, h[i]>>]
  BY <1>7 DEF Computed
<1>9. \A i \in 1..n : h[i] = h[i - 1] \o seqs[i]
  <2>1. TAKE i \in 1..n
  <2>2. i - 1 \in Nat /\ (i - 1) + 1 = i /\ i \in 1..n
    BY <1>1
  <2>3. h[i] = step[<<i - 1, h[i - 1]>>] /\ h[i - 1] \in V
    BY <2>2, <1>8
  <2>4. QED
    BY <2>2, <2>3, <1>6
<1> DEFINE g == [i \in 1..n |-> h[i]]
<1>10. g \in [1..n -> V] /\ \A i \in 1..n : g[i] = h[i]
  BY <1>1, <1>8
<1>11. \A i \in 1..n : g[i] = IF i = 1 THEN seqs[i] ELSE g[i - 1] \o seqs[i]
  <2>1. TAKE i \in 1..n
  <2>2. CASE i = 1
    <3> HIDE DEF g
    <3>a. g[i] = h[i] /\ h[i] = h[i - 1] \o seqs[i] /\ seqs[i] \in V
      BY <1>1, <1>9, <1>10
    <3>b. i - 1 = 0
      BY <2>2
    <3>1. g[i] = h[i] /\ h[i] = h[0] \o seqs[i] /\ seqs[i] \in V
      BY <3>a, <3>b
    <3>2. QED
      BY <3>1, <2>2, <1>4, <1>8
  <2>3. CASE i # 1
    <3>1. i - 1 \in 1..n
      BY <2>3, <1>1
    <3>2. g[i] = h[i] /\ g[i - 1] = h[i - 1]
      BY <3>1, <1>10
    <3> HIDE DEF g
    <3>3. QED
      BY <3>2, <2>3, <1>9
  <2>4. QED
    BY <2>2, <2>3
<1> HIDE DEF g
<1>12. g = [i \in 1..n |-> IF i = 1 THEN seqs[i] ELSE g[i - 1] \o seqs[i]]
  BY <1>10, <1>11
<1>13. Flattening(g, seqs)
  BY <1>12 DEF Flattening, n
<1>14. QED
  BY <1>10, <1>13 DEF V, n

LEMMA FlattenedBy ==
  ASSUME NEW S, NEW seqs \in Seq(Seq(S))
  PROVE  \E h : Flattens(h, seqs, S)
<1> DEFINE n == Len(seqs)
           g == CHOOSE f : Flattening(f, seqs)
           h == [i \in 0..n |-> IF i = 0 THEN << >> ELSE g[i]]
<1>1. n \in Nat /\ \A i \in 1..n : seqs[i] \in Seq(S)
  BY SeqFacts
<1>2. FlattenSeq(seqs) = IF n = 0 THEN seqs ELSE g[n]
  BY DEF FlattenSeq, Flattening
<1>3. Flattening(g, seqs)
  BY FlatteningExists
<1> HIDE DEF g, n
<1>4. \A i \in 1..n : g[i] = IF i = 1 THEN seqs[i] ELSE g[i - 1] \o seqs[i]
  BY <1>3 DEF Flattening, n
<1>5. << >> \in Seq(S) /\ (\A u, v \in Seq(S) : u \o v \in Seq(S)) /\ (\A v \in Seq(S) : << >> \o v = v)
  OBVIOUS
<1>6. h[0] = << >> /\ (\A i \in 1..n : h[i] = g[i])
  BY <1>1
<1>7. \A i \in 1..n : h[i] = h[i - 1] \o seqs[i]
  <2>1. TAKE i \in 1..n
  <2>2. CASE i = 1
    <3>1. h[1] = seqs[1] /\ h[i - 1] = << >>
      BY <2>2, <1>4, <1>6
    <3> HIDE DEF h
    <3>2. QED
      BY <3>1, <2>2, <1>1, <1>5
  <2>3. CASE i # 1
    <3>1. i - 1 \in 1..n
      BY <2>3, <1>1
    <3>2. h[i] = g[i] /\ h[i - 1] = g[i - 1]
      BY <3>1, <1>6
    <3> HIDE DEF h
    <3>3. QED
      BY <3>2, <2>3, <1>4
  <2>4. QED
    BY <2>2, <2>3
<1>8. h = [i \in 0..n |-> h[i]]
  OBVIOUS
<1>9. \A m \in 0..n : h[m] \in Seq(S)
  <2> DEFINE T == {m \in Nat : m <= n => h[m] \in Seq(S)}
  <2> HIDE DEF h
  <2>1. 0 \in T
    BY <1>5, <1>6
  <2>2. ASSUME NEW m \in Nat, m \in T PROVE m + 1 \in T
    <3>1. SUFFICES ASSUME m + 1 <= n PROVE h[m + 1] \in Seq(S)
      OBVIOUS
    <3>2. m + 1 \in 1..n /\ (m + 1) - 1 = m /\ m <= n
      BY <3>1, <1>1
    <3>3. h[m + 1] = h[m] \o seqs[m + 1] /\ h[m] \in Seq(S)
      BY <3>2, <2>2, <1>7
    <3>4. QED
      BY <3>2, <3>3, <1>1, <1>5
  <2> HIDE DEF T
  <2>3. \A m \in Nat : m \in T
    BY <2>1, <2>2, SetInduction
  <2>4. QED
    BY <2>3, <1>1 DEF T
<1>10. FlattenSeq(seqs) = h[n]
  <2>1. CASE n = 0
    <3>1. seqs = << >>
      BY <2>1 DEF n
    <3>2. QED
      BY <3>1, <2>1, <1>2, <1>6
  <2>2. CASE n # 0
    BY <2>2, <1>1, <1>2, <1>6
  <2>3. QED
    BY <2>1, <2>2
<1> HIDE DEF h
<1>11. h \in [0..n -> Seq(S)]
  BY <1>8, <1>9
<1>12. Flattens(h, seqs, S)
  BY <1>6, <1>7, <1>10, <1>11 DEF Flattens, n
<1>13. QED
  BY <1>12

-----------------------------------------------------------------------------
(* What the queries find.                                                  *)

\* s has the locations of the entries of E, in the order of their keys.
Located(s, E) == \E q : Lists(q, E) /\ s = [j \in 1..Len(q) |-> q[j].loc]

LEMMA NoneLocated == Located(<< >>, {})
<1>1. Lists(<< >>, {})
  BY NoList
<1>2. << >> = [j \in 1..Len(<< >>) |-> << >>[j].loc]
  OBVIOUS
<1>3. QED
  BY <1>1, <1>2 DEF Located

LEMMA LocatedMore ==
  ASSUME NEW E, NEW s, Located(s, E), NEW e \in Entry, \A x \in E : x.key < e.key,
         NEW E2, E2 = E \cup {e}, NEW t, t = <<e.loc>>
  PROVE  Located(s \o t, E2)
<1>1. PICK q : Lists(q, E) /\ s = [j \in 1..Len(q) |-> q[j].loc]
  BY DEF Located
<1>2. Lists(Append(q, e), E2)
  BY <1>1, ListBehind
<1>3. q \in Seq(Entry) /\ Len(q) \in Nat /\ \A i \in 1..Len(q) : q[i] \in Entry
  BY <1>1, ListFacts
<1> DEFINE r == Append(q, e)
           m == Len(q)
<1>4. /\ Len(r) = m + 1 /\ r[m + 1] = e
      /\ \A i \in 1..m : r[i] = q[i]
  BY <1>3, AppendIs
<1>5. e.loc \in Locs /\ \A i \in 1..m : q[i].loc \in Locs
  BY <1>3 DEF Entry
<1> HIDE DEF r, m
<1>6. s \in Seq(Locs) /\ Len(s) = m /\ \A j \in 1..m : s[j] = q[j].loc
  <2>1. s \in [1..m -> Locs] /\ m \in Nat
    BY <1>1, <1>3, <1>5 DEF m
  <2>2. s \in Seq(Locs) /\ Len(s) = m
    BY <2>1, FunctionIs
  <2>3. QED
    BY <2>2, <1>1 DEF m
<1>7. s \o t = Append(s, e.loc)
  BY <1>5, <1>6
<1> DEFINE u == Append(s, e.loc)
<1>8. /\ u \in Seq(Locs) /\ Len(u) = m + 1 /\ u[m + 1] = e.loc
      /\ \A i \in 1..m : u[i] = s[i]
  BY <1>5, <1>6, AppendIs
<1> HIDE DEF u
<1>9. \A j \in 1..(m + 1) : u[j] = r[j].loc
  <2>1. m \in Nat
    BY <1>3 DEF m
  <2>2. \A j \in 1..(m + 1) : j = m + 1 \/ j \in 1..m
    BY <2>1
  <2>3. QED
    BY <2>2, <1>4, <1>6, <1>8
<1>10. u = [j \in 1..Len(r) |-> r[j].loc]
  <2>1. u \in [1..(m + 1) -> Locs]
    BY <1>8, SeqFacts
  <2>2. QED
    BY <2>1, <1>4, <1>9
<1>11. QED
  BY <1>2, <1>7, <1>10 DEF Located, r, u

LEMMA OneLocated ==
  ASSUME NEW E, NEW s, Located(s, E), NEW t, Located(t, E)
  PROVE  s = t
BY OneList DEF Located

\* What a query reads that begins at a key.
LEMMA QueryReads ==
  ASSUME NEW span, NEW level, GoodTree(span, level), NEW key \in Keys, NEW stop, NEW skip,
         Closed(stop, key)
  PROVE  Lists(ReadFrom(key, stop, skip),
               {e \in Entry : /\ StoredEntry(e) /\ key <= e.key
                              /\ e.key \notin stop /\ e.key \notin skip})
<1> DEFINE path == PathTo(key)
           id == Last(path)
           i == FindKeyIndex(nodes[id], key)
           f == CHOOSE g : Walked(g, stop, skip)
           E == {e \in Entry : StoredEntry(e) /\ key <= e.key}
<1>1. ReadFrom(key, stop, skip) = f[<<id, i>>]
  BY DEF ReadFrom, Walked, WalkStep
<1>2. Walked(f, stop, skip)
  BY WalkedExists
<1>3. Leads(path, root, key, span, level)
  BY PathFound
<1>4. LiveLeaf(nodes, span, id) /\ key \in span[id]
  <2>1. level[root] \in Nat
    BY GoodTreeFacts
  <2>2. /\ path \in Seq(1..Len(nodes)) /\ Len(path) = level[root] + 1
        /\ \A d \in 1..Len(path) : key \in span[path[d]] /\ (nodes[path[d]].leaf <=> d = Len(path))
    BY <1>3 DEF Leads
  <2>3. Len(path) \in 1..Len(path) /\ id = path[Len(path)]
    BY <2>1, <2>2 DEF Last
  <2> HIDE DEF path, id
  <2>4. id \in 1..Len(nodes) /\ nodes[id].leaf /\ key \in span[id]
    BY <2>2, <2>3, SeqFacts
  <2>5. QED
    BY <2>4 DEF LiveLeaf
<1> HIDE DEF path, id, f
<1>5. i \in 1..(Count(nodes[id]) + 1) /\ Rest(id, i, span) = E
  BY <1>4, RestFromStart
<1>6. key \in Int
  BY KeysAreInts
<1> HIDE DEF i
<1>7. PlaceFrom(id, i, span, key)
  BY <1>4, <1>5 DEF PlaceFrom
<1>8. Reads(f, id, i, span, stop, skip)
  BY <1>2, <1>6, <1>7, WalkReads
<1>9. Lists(f[<<id, i>>], Wanted(E, stop, skip))
  BY <1>5, <1>8 DEF Reads
<1>10. Wanted(E, stop, skip) = {e \in Entry : /\ StoredEntry(e) /\ key <= e.key
                                              /\ e.key \notin stop /\ e.key \notin skip}
  BY DEF Wanted
<1>11. QED
  BY <1>1, <1>9, <1>10

\* What is stored under a key is in its entry, if it has one.
LEMMA StoredIs ==
  ASSUME NEW span, NEW level, GoodTree(span, level), NEW key \in Keys
  PROVE  \/ stored[key] = << >> /\ \A e : StoredEntry(e) => e.key # key
         \/ \E e \in Entry : /\ StoredEntry(e) /\ e.key = key /\ stored[key] = <<e.loc>>
                             /\ \A x : StoredEntry(x) /\ x.key = key => x = e
<1>1. Recorded(nodes)
  BY GoodTreeFacts
<1>2. \A l, m : <<l>> # << >> /\ (<<l>> = <<m>> => l = m)
  <2>1. \A l : Len(<<l>>) = 1 /\ <<l>>[1] = l /\ Len(<< >>) = 0
    OBVIOUS
  <2>2. QED
    BY <2>1
<1>3. ASSUME NEW e, StoredEntry(e) PROVE stored[e.key] = <<e.loc>> /\ e.loc \in Locs /\ e \in Entry
  BY <1>1, <1>3 DEF Recorded, StoredEntry, Entry
<1>4. CASE stored[key] = << >>
  BY <1>2, <1>3, <1>4
<1>5. CASE stored[key] # << >>
  <2>1. PICK row \in Rows : stored[key] = <<row.loc>>
    BY <1>1, <1>5 DEF Recorded
  <2> DEFINE e == [key |-> key, loc |-> row.loc]
  <2>2. e \in Entry /\ e.key = key /\ e.loc = row.loc /\ row.loc \in Locs
    BY DEF Entry, Locs
  <2>3. StoredEntry(e)
    BY <2>1, <2>2, <1>1 DEF Recorded, StoredEntry
  <2>4. ASSUME NEW x, StoredEntry(x), x.key = key PROVE x = e
    <3>1. x \in Entry /\ x.loc = row.loc
      BY <2>1, <2>4, <1>2, <1>3
    <3>2. QED
      BY <3>1, <2>4 DEF Entry
  <2> HIDE DEF e
  <2>5. QED
    BY <2>1, <2>2, <2>3, <2>4
<1>6. QED
  BY <1>4, <1>5

\* A point query finds what is stored.
LEMMA PointQueryIs ==
  ASSUME NEW span, NEW level, GoodTree(span, level), NEW key \in Keys
  PROVE  TreePointQuery(key) = PointQuery(stored, key)
<1> DEFINE stop == Keys \ {key}
           s == ReadFrom(key, stop, {})
           E == {e \in Entry : /\ StoredEntry(e) /\ key <= e.key
                               /\ e.key \notin stop /\ e.key \notin {}}
<1>1. key \in Int
  BY KeysAreInts
<1>2. Closed(stop, key)
  <2>1. SUFFICES ASSUME NEW x \in stop, NEW k \in Keys, key <= x, x <= k, k = key PROVE FALSE
    BY DEF Closed
  <2>2. x \in Int /\ x # key
    BY KeysAreInts
  <2>3. QED
    BY <2>1, <2>2, <1>1
<1>3. Lists(s, E)
  <2> HIDE DEF stop
  <2>1. QED
    BY <1>2, QueryReads
<1>4. \A e : e \in E <=> StoredEntry(e) /\ e.key = key
  <2>1. \A e \in Entry : e.key \in Keys
    BY DEF Entry
  <2>2. QED
    BY <2>1, <1>1 DEF StoredEntry
<1>5. TreePointQuery(key) = {s[j].loc : j \in DOMAIN s}
  BY DEF TreePointQuery
<1> HIDE DEF s, E, stop
<1>6. DOMAIN s = 1..Len(s)
  BY <1>3, ListFacts, SeqFacts
<1>7. \A e : StoredEntry(e) /\ e.key = key <=> \E j \in 1..Len(s) : s[j] = e
  BY <1>3, <1>4 DEF Lists
<1>8. TreePointQuery(key) = {e.loc : e \in {x \in Entry : StoredEntry(x) /\ x.key = key}}
  <2>1. \A e : StoredEntry(e) => e \in Entry
    BY DEF StoredEntry
  <2>2. QED
    BY <2>1, <1>5, <1>6, <1>7
<1>9. CASE stored[key] = << >> /\ \A e : StoredEntry(e) => e.key # key
  <2>1. DOMAIN << >> = {}
    OBVIOUS
  <2>2. QED
    BY <2>1, <1>8, <1>9 DEF PointQuery
<1>10. ASSUME NEW e \in Entry, StoredEntry(e), e.key = key, stored[key] = <<e.loc>>,
              \A x : StoredEntry(x) /\ x.key = key => x = e
       PROVE  TreePointQuery(key) = PointQuery(stored, key)
  <2>1. DOMAIN <<e.loc>> = {1} /\ <<e.loc>>[1] = e.loc
    OBVIOUS
  <2>2. PointQuery(stored, key) = {e.loc}
    BY <2>1, <1>10 DEF PointQuery
  <2>3. {x \in Entry : StoredEntry(x) /\ x.key = key} = {e}
    BY <1>10
  <2>4. QED
    BY <2>2, <2>3, <1>8
<1>11. QED
  BY <1>9, <1>10, StoredIs

\* Whether a range query that begins at a and ends at b wants a key.
InRange(k, a, b, startOpen, endOpen) ==
  k \in Keys /\ ~(startOpen /\ k = a) /\ ~(endOpen /\ k = b)

\* What is stored from a on under the first m keys.
StoredFrom(a, b, startOpen, endOpen, m) ==
  {e \in Entry : /\ StoredEntry(e) /\ a <= e.key /\ e.key <= a + m - 1
                 /\ InRange(e.key, a, b, startOpen, endOpen)}

\* The locations stored under one key after another.
StoredInRange(a, b, startOpen, endOpen) ==
  [i \in 1..(b - a + 1) |-> LET k == a + i - 1 IN
                            IF InRange(k, a, b, startOpen, endOpen) THEN stored[k] ELSE << >>]

LEMMA StoredLocated ==
  ASSUME NEW span, NEW level, GoodTree(span, level), NEW a \in Keys, NEW b \in Keys, a <= b,
         NEW startOpen \in BOOLEAN, NEW endOpen \in BOOLEAN
  PROVE  Located(FlattenSeq(StoredInRange(a, b, startOpen, endOpen)),
                 StoredFrom(a, b, startOpen, endOpen, b - a + 1))
<1> DEFINE seqs == StoredInRange(a, b, startOpen, endOpen)
           n == b - a + 1
           Wants(k) == InRange(k, a, b, startOpen, endOpen)
           At(k) == IF Wants(k) THEN stored[k] ELSE << >>
           E(m) == StoredFrom(a, b, startOpen, endOpen, m)
<1>1. a \in Int /\ b \in Int /\ n \in Nat
  <2>1. a \in Int /\ b \in Int
    BY KeysAreInts
  <2>2. QED
    BY <2>1
<1>2. \A k : Wants(k) => k \in Keys
  BY DEF InRange
<1>3. \A k : At(k) \in Seq(Locs)
  <2>1. stored \in [Keys -> Seq(Locs)]
    BY GoodTreeFacts DEF Recorded
  <2>2. << >> \in Seq(Locs)
    OBVIOUS
  <2> HIDE DEF Wants
  <2>3. QED
    BY <2>1, <2>2, <1>2
<1>4. seqs = [i \in 1..n |-> At(a + i - 1)]
  BY DEF StoredInRange
<1> HIDE DEF seqs, n, At
<1>5. seqs \in [1..n -> Seq(Locs)]
  BY <1>3, <1>4
<1>6. seqs \in Seq(Seq(Locs)) /\ Len(seqs) = n
  BY <1>1, <1>5, FunctionIs
<1>7. PICK h : Flattens(h, seqs, Locs)
  BY <1>6, FlattenedBy
<1>8. /\ h[0] = << >> /\ (\A i \in 1..n : h[i] = h[i - 1] \o seqs[i])
      /\ h \in [0..n -> Seq(Locs)] /\ FlattenSeq(seqs) = h[n]
  BY <1>6, <1>7 DEF Flattens
<1> DEFINE T == {m \in Nat : m <= n => Located(h[m], E(m))}
<1>9. 0 \in T
  <2>1. E(0) = {}
    <3>1. SUFFICES ASSUME NEW e \in Entry, a <= e.key, e.key <= a + 0 - 1 PROVE FALSE
      BY DEF StoredFrom
    <3>2. e.key \in Int
      BY KeysAreInts DEF Entry
    <3>3. QED
      BY <3>1, <3>2, <1>1
  <2> HIDE DEF E
  <2>2. Located(h[0], E(0))
    BY <2>1, <1>8, NoneLocated
  <2>3. QED
    BY <2>2
<1>10. ASSUME NEW m \in Nat, m \in T PROVE m + 1 \in T
  <2>1. SUFFICES ASSUME m + 1 <= n PROVE Located(h[m + 1], E(m + 1))
    OBVIOUS
  <2> DEFINE k == a + m
  <2>2. m + 1 \in 1..n /\ m <= n /\ (m + 1) - 1 = m /\ k \in Int /\ a + (m + 1) - 1 = k /\ a + m - 1 = k - 1 /\ a <= k
    BY <2>1, <1>1
  <2>3. Located(h[m], E(m))
    BY <2>2, <1>10
  <2>4. h[m + 1] = h[m] \o At(k)
    <3>1. seqs[m + 1] = At(k)
      BY <2>2, <1>4
    <3>2. QED
      BY <3>1, <2>2, <1>8
  <2>5. h[m] \in Seq(Locs)
    BY <2>2, <1>8
  <2>6. \A e : e \in E(m) <=> e \in Entry /\ StoredEntry(e) /\ a <= e.key /\ e.key <= k - 1 /\ Wants(e.key)
    BY <2>2 DEF StoredFrom
  <2>7. \A e : e \in E(m + 1) <=> e \in Entry /\ StoredEntry(e) /\ a <= e.key /\ e.key <= k /\ Wants(e.key)
    BY <2>2 DEF StoredFrom
  <2>8. \A e \in Entry : e.key \in Int
    BY KeysAreInts DEF Entry
  <2> HIDE DEF E, T, Wants, k
  <2>9. \A e : e \in E(m + 1) <=> e \in E(m) \/ (e \in Entry /\ StoredEntry(e) /\ e.key = k /\ Wants(k))
    <3>1. \A e \in Entry : /\ e.key <= k <=> e.key <= k - 1 \/ e.key = k
                           /\ e.key = k => a <= e.key
      BY <2>2, <2>8
    <3>2. QED
      BY <3>1, <2>6, <2>7
  <2>10. CASE At(k) = << >> /\ \A e : StoredEntry(e) /\ Wants(k) => e.key # k
    <3>1. E(m + 1) = E(m)
      BY <2>9, <2>10
    <3>2. \A s \in Seq(Locs) : s \o << >> = s
      OBVIOUS
    <3>3. h[m + 1] = h[m]
      BY <3>2, <2>4, <2>5, <2>10
    <3>4. QED
      BY <3>1, <3>3, <2>3
  <2>11. ASSUME NEW e \in Entry, Wants(k), StoredEntry(e), e.key = k, At(k) = <<e.loc>>,
                \A x : StoredEntry(x) /\ x.key = k => x = e
         PROVE  Located(h[m + 1], E(m + 1))
    <3>1. E(m + 1) = E(m) \cup {e}
      BY <2>9, <2>11
    <3>2. \A x \in E(m) : x.key < e.key
      <4>1. TAKE x \in E(m)
      <4>2. x.key \in Int /\ x.key <= k - 1
        BY <2>6, <2>8
      <4>3. QED
        BY <4>2, <2>2, <2>11
    <3>3. Located(h[m] \o At(k), E(m + 1))
      BY <3>1, <3>2, <2>3, <2>11, LocatedMore
    <3>4. QED
      BY <3>3, <2>4
  <2>12. CASE ~Wants(k)
    <3>1. At(k) = << >>
      BY <2>12 DEF At
    <3>2. QED
      BY <3>1, <2>10, <2>12
  <2>13. CASE Wants(k)
    <3>1. At(k) = stored[k] /\ k \in Keys
      BY <2>13, <1>2 DEF At
    <3>2. QED
      BY <3>1, <2>10, <2>11, <2>13, StoredIs
  <2>14. QED
    BY <2>12, <2>13
<1> HIDE DEF T, E
<1>11. \A m \in Nat : m \in T
  BY <1>9, <1>10, SetInduction
<1>12. Located(h[n], E(n))
  <2>1. n \in T /\ n <= n
    BY <1>1, <1>11
  <2>2. QED
    BY <2>1 DEF T
<1>13. QED
  BY <1>8, <1>12 DEF seqs, n, E

\* A range query finds what is stored in the range, in the order of the keys.
LEMMA RangeQueryIs ==
  ASSUME NEW span, NEW level, GoodTree(span, level), NEW a \in Keys, NEW b \in Keys, a <= b,
         NEW startOpen \in BOOLEAN, NEW endOpen \in BOOLEAN
  PROVE  RangeQuery(a, b, startOpen, endOpen) = FlattenSeq(StoredInRange(a, b, startOpen, endOpen))
<1> DEFINE past == {k \in Keys : k > b \/ (endOpen /\ k = b)}
           skip == IF startOpen THEN {a} ELSE {}
           s == ReadFrom(a, past, skip)
           E == {e \in Entry : /\ StoredEntry(e) /\ a <= e.key
                               /\ e.key \notin past /\ e.key \notin skip}
           t == [j \in DOMAIN s |-> s[j].loc]
<1>1. a \in Int /\ b \in Int
  BY KeysAreInts
<1>2. RangeQuery(a, b, startOpen, endOpen) = t
  BY DEF RangeQuery
<1>3. Closed(past, a)
  <2>1. SUFFICES ASSUME NEW x \in past, NEW k \in Keys, a <= x, x <= k PROVE k \in past
    BY DEF Closed
  <2>2. x \in Int /\ k \in Int /\ (x > b \/ (endOpen /\ x = b))
    BY KeysAreInts
  <2>3. k > b \/ (endOpen /\ k = b)
    BY <2>1, <2>2, <1>1
  <2>4. QED
    BY <2>3
<1>4. E = StoredFrom(a, b, startOpen, endOpen, b - a + 1)
  <2>1. ASSUME NEW e \in Entry, a <= e.key
        PROVE  (e.key \notin past /\ e.key \notin skip)
                 <=> e.key <= a + (b - a + 1) - 1 /\ InRange(e.key, a, b, startOpen, endOpen)
    <3>a. e.key \in Keys
      BY DEF Entry
    <3>b. e.key \in Int
      BY <3>a, KeysAreInts
    <3>c. a + (b - a + 1) - 1 = b
      BY <1>1
    <3>1. e.key \in Keys /\ e.key \in Int /\ a + (b - a + 1) - 1 = b
      BY <3>a, <3>b, <3>c
    <3>2. e.key \notin past <=> e.key <= b /\ ~(endOpen /\ e.key = b)
      BY <3>1, <1>1
    <3>3. e.key \notin skip <=> ~(startOpen /\ e.key = a)
      OBVIOUS
    <3> HIDE DEF past, skip
    <3>4. QED
      BY <3>1, <3>2, <3>3 DEF InRange
  <2> HIDE DEF past, skip
  <2>2. QED
    BY <2>1 DEF StoredFrom
<1>5. Lists(s, E)
  <2> HIDE DEF past, skip
  <2>1. QED
    BY <1>3, QueryReads
<1> HIDE DEF past, skip, s, E
<1>6. DOMAIN s = 1..Len(s)
  BY <1>5, ListFacts, SeqFacts
<1>7. Located(t, E)
  BY <1>5, <1>6 DEF Located
<1>8. Located(FlattenSeq(StoredInRange(a, b, startOpen, endOpen)), E)
  BY <1>4, StoredLocated
<1> HIDE DEF t
<1>9. t = FlattenSeq(StoredInRange(a, b, startOpen, endOpen))
  BY <1>7, <1>8, OneLocated
<1>10. QED
  BY <1>2, <1>9

-----------------------------------------------------------------------------
(* The levels of the tree.                                                 *)

\* The first, and the last, keys of a set.
Starts(T, S) == T \subseteq S /\ \A x \in T, k \in S : k <= x => k \in T
Ends(T, S) == T \subseteq S /\ \A x \in T, k \in S : x <= k => k \in T

\* The nodes of a level among which the keys of a set are shared out.
Row(s, S, span, level, h) ==
  /\ s \in Seq(NodeIds) /\ Len(s) >= 1
  /\ \A i \in 1..Len(s) : span[s[i]] # {} /\ level[s[i]] = h
  /\ \A i \in 1..(Len(s) - 1) : Adjacent(span[s[i]], span[s[i + 1]])
  /\ Starts(span[s[1]], S) /\ Ends(span[s[Len(s)]], S)

\* The last keys of one set, and the first of the next.
LEMMA AdjacentParts ==
  ASSUME NEW S \in SUBSET Keys, NEW T \in SUBSET Keys, Adjacent(S, T),
         NEW A, A # {}, Ends(A, S), NEW B, B # {}, Starts(B, T)
  PROVE  Adjacent(A, B)
<1>1. S \subseteq Int /\ T \subseteq Int /\ A \subseteq S /\ B \subseteq T
  BY KeysAreInts DEF Ends, Starts
<1>2. Before(A, B)
  BY <1>1 DEF Adjacent, Before
<1>3. ASSUME NEW x \in A \cup B, NEW y \in A \cup B, NEW k \in Keys, x <= k, k <= y
      PROVE  k \in A \cup B
  <2>1. k \in Int /\ x \in Int /\ y \in Int
    BY <1>1, KeysAreInts
  <2>2. k \in S \cup T
    BY <1>1, <1>3 DEF Adjacent, Convex
  <2>3. CASE k \in S
    <3>1. x \notin B
      <4>1. x \in B => k < x
        BY <1>1, <2>3 DEF Adjacent, Before
      <4>2. QED
        BY <4>1, <2>1, <1>3
    <3>2. QED
      BY <3>1, <2>3, <1>3 DEF Ends
  <2>4. CASE k \in T
    <3>1. y \notin A
      <4>1. y \in A => y < k
        BY <1>1, <2>4 DEF Adjacent, Before
      <4>2. QED
        BY <4>1, <2>1, <1>3
    <3>2. QED
      BY <3>1, <2>4, <1>3 DEF Starts
  <2>5. QED
    BY <2>2, <2>3, <2>4
<1>4. QED
  BY <1>2, <1>3 DEF Adjacent, Convex

LEMMA JoinedStarts ==
  ASSUME NEW S \in SUBSET Keys, NEW T \in SUBSET Keys, Adjacent(S, T), NEW A
  PROVE  /\ Starts(A, S) => Starts(A, S \cup T)
         /\ Ends(A, T) => Ends(A, S \cup T)
<1>1. S \subseteq Int /\ T \subseteq Int
  BY KeysAreInts
<1>2. \A x \in S, y \in T : x < y /\ ~(y <= x)
  BY <1>1 DEF Adjacent, Before
<1>3. ASSUME Starts(A, S) PROVE Starts(A, S \cup T)
  BY <1>2, <1>3 DEF Starts
<1>4. ASSUME Ends(A, T) PROVE Ends(A, S \cup T)
  BY <1>2, <1>4 DEF Ends
<1>5. QED
  BY <1>3, <1>4

LEMMA BehindIs ==
  ASSUME NEW S, NEW s \in Seq(S), NEW t \in Seq(S)
  PROVE  /\ s \o t \in Seq(S) /\ Len(s \o t) = Len(s) + Len(t)
         /\ Len(s) \in Nat /\ Len(t) \in Nat
         /\ \A i \in 1..Len(s) : (s \o t)[i] = s[i]
         /\ \A i \in 1..Len(t) : (s \o t)[Len(s) + i] = t[i]
OBVIOUS

\* A row goes on with the row of the next keys.
LEMMA RowsJoin ==
  ASSUME NEW span \in [NodeIds -> SUBSET Keys], NEW level, NEW h, NEW S \in SUBSET Keys, NEW T \in SUBSET Keys,
         Adjacent(S, T), NEW s, Row(s, S, span, level, h), NEW t, Row(t, T, span, level, h)
  PROVE  Row(s \o t, S \cup T, span, level, h)
<1> DEFINE r == s \o t
           m == Len(s)
           n == Len(t)
<1>1. /\ s \in Seq(NodeIds) /\ t \in Seq(NodeIds) /\ m >= 1 /\ n >= 1
      /\ \A i \in 1..m : span[s[i]] # {} /\ level[s[i]] = h
      /\ \A i \in 1..n : span[t[i]] # {} /\ level[t[i]] = h
      /\ \A i \in 1..(m - 1) : Adjacent(span[s[i]], span[s[i + 1]])
      /\ \A i \in 1..(n - 1) : Adjacent(span[t[i]], span[t[i + 1]])
      /\ Starts(span[s[1]], S) /\ Ends(span[s[m]], S)
      /\ Starts(span[t[1]], T) /\ Ends(span[t[n]], T)
  BY DEF Row
<1>2. /\ r \in Seq(NodeIds) /\ Len(r) = m + n /\ m \in Nat /\ n \in Nat
      /\ \A i \in 1..m : r[i] = s[i]
      /\ \A i \in 1..n : r[m + i] = t[i]
  BY <1>1, BehindIs
<1> HIDE DEF r, m, n
<1>3. \A i \in 1..(m + n) : i \in 1..m \/ (i - m \in 1..n /\ m + (i - m) = i)
  BY <1>2
<1>4. \A i \in 1..(m + n) : span[r[i]] # {} /\ level[r[i]] = h
  <2>1. TAKE i \in 1..(m + n)
  <2>2. CASE i \in 1..m
    BY <2>2, <1>1, <1>2
  <2>3. CASE i - m \in 1..n /\ m + (i - m) = i
    <3>1. r[i] = t[i - m]
      BY <2>3, <1>2
    <3>2. QED
      BY <3>1, <2>3, <1>1
  <2>4. QED
    BY <2>2, <2>3, <1>3
<1>5. 1 \in 1..m /\ m \in 1..m /\ 1 \in 1..n /\ n \in 1..n
  BY <1>1, <1>2
<1>6. Adjacent(span[s[m]], span[t[1]])
  <2>1. span[s[m]] # {} /\ span[t[1]] # {}
    BY <1>1, <1>5
  <2>2. QED
    BY <2>1, <1>1, AdjacentParts
<1>7. \A i \in 1..(m + n - 1) : Adjacent(span[r[i]], span[r[i + 1]])
  <2>1. TAKE i \in 1..(m + n - 1)
  <2>2. CASE i \in 1..(m - 1)
    <3>1. i \in 1..m /\ i + 1 \in 1..m
      BY <2>2, <1>2
    <3>2. r[i] = s[i] /\ r[i + 1] = s[i + 1]
      BY <3>1, <1>2
    <3>3. QED
      BY <3>2, <2>2, <1>1
  <2>3. CASE i = m
    <3>1. r[m] = s[m] /\ r[m + 1] = t[1]
      BY <1>2, <1>5
    <3>2. QED
      BY <3>1, <2>3, <1>6
  <2>4. CASE i > m
    <3>1. i - m \in 1..(n - 1) /\ i - m \in 1..n /\ (i - m) + 1 \in 1..n /\ m + (i - m) = i /\ m + ((i - m) + 1) = i + 1
      BY <2>4, <1>2
    <3>2. r[i] = t[i - m] /\ r[i + 1] = t[(i - m) + 1]
      BY <3>1, <1>2
    <3>3. QED
      BY <3>1, <3>2, <1>1
  <2>5. i \in 1..(m - 1) \/ i = m \/ i > m
    BY <1>2
  <2>6. QED
    BY <2>2, <2>3, <2>4, <2>5
<1>8. r[1] = s[1] /\ r[m + n] = t[n]
  BY <1>2, <1>5
<1>9. Starts(span[r[1]], S \cup T) /\ Ends(span[r[m + n]], S \cup T)
  BY <1>1, <1>8, JoinedStarts
<1>10. m + n >= 1
  BY <1>1, <1>2
<1> DEFINE l == Len(r)
<1>11. r \in Seq(NodeIds) /\ l = m + n /\ m \in Nat /\ n \in Nat
  BY <1>2
<1>12. /\ r \in Seq(NodeIds) /\ l >= 1
       /\ \A i \in 1..l : span[r[i]] # {} /\ level[r[i]] = h
       /\ \A i \in 1..(l - 1) : Adjacent(span[r[i]], span[r[i + 1]])
       /\ Starts(span[r[1]], S \cup T) /\ Ends(span[r[l]], S \cup T)
  <2> HIDE DEF l
  <2>1. 1..l = 1..(m + n) /\ 1..(l - 1) = 1..(m + n - 1) /\ l >= 1
    BY <1>10, <1>11
  <2>2. Starts(span[r[1]], S \cup T) /\ Ends(span[r[l]], S \cup T)
    BY <1>9, <1>11
  <2>3. QED
    BY <1>4, <1>7, <1>11, <2>1, <2>2, Zenon
<1>13. QED
  BY <1>12 DEF Row, r

\* The children of a node are a row of the level below.
LEMMA KidsRow ==
  ASSUME NEW span, NEW level, GoodTree(span, level), NEW id \in NodeIds, span[id] # {}, ~nodes[id].leaf
  PROVE  /\ level[id] - 1 \in Nat
         /\ Row(nodes[id].kids, span[id], span, level, level[id] - 1)
<1> DEFINE S == span[id]
           keys == nodes[id].keys
           kids == nodes[id].kids
           m == Len(keys)
           h == level[id]
<1>1. Shape(nodes, span, span, level) /\ NodeIds = 1..Len(nodes)
  BY GoodTreeFacts
<1>2. /\ ForkFits(nodes[id], S, h, span, level) /\ kids \in Seq(NodeIds) /\ keys \in Seq(Int)
      /\ m \in Nat /\ S \subseteq Int /\ S \subseteq Keys /\ Convex(S) /\ h \in Nat
      /\ level \in [NodeIds -> Nat]
  BY <1>1, ShapeFacts DEF Shape
<1>3. /\ Len(kids) = m + 1 /\ Ascending(keys)
      /\ \A j \in 1..(m + 1) : /\ level[kids[j]] = h - 1
                               /\ span[kids[j]] = Part(S, keys, j) /\ Part(S, keys, j) # {}
  BY <1>2 DEF ForkFits
<1>4. \A i \in 1..m : keys[i] \in Int
  BY <1>2, SeqFacts
<1>5. h - 1 \in Nat
  <2>1. 1 \in 1..Len(kids) /\ 1 \in 1..(m + 1)
    BY <1>2, <1>3
  <2>2. kids[1] \in NodeIds
    BY <2>1, <1>2, SeqFacts
  <2>3. level[kids[1]] \in Nat /\ level[kids[1]] = h - 1
    BY <2>1, <2>2, <1>2, <1>3
  <2>4. QED
    BY <2>3
<1> HIDE DEF m, S, h, keys, kids
<1>6. \A j \in 1..(m + 1) : \A k : k \in Part(S, keys, j) <=>
        k \in S /\ (j > 1 => keys[j - 1] <= k) /\ (j <= m => k < keys[j])
  BY DEF Part, m
<1>7. ASSUME NEW j \in 1..m PROVE Adjacent(Part(S, keys, j), Part(S, keys, j + 1))
  <2>1. j \in 1..(m + 1) /\ j + 1 \in 1..(m + 1) /\ j <= m /\ j + 1 > 1 /\ (j + 1) - 1 = j
    BY <1>2
  <2>2. \A k : k \in Part(S, keys, j) <=> k \in S /\ (j > 1 => keys[j - 1] <= k) /\ k < keys[j]
    BY <2>1, <1>6
  <2>3. \A k : k \in Part(S, keys, j + 1) <=> k \in S /\ keys[j] <= k /\ (j + 1 <= m => k < keys[j + 1])
    BY <2>1, <1>6
  <2>4. keys[j] \in Int /\ (j > 1 => keys[j - 1] \in Int /\ keys[j - 1] < keys[j])
    <3>1. keys[j] \in Int
      BY <1>4
    <3>2. ASSUME j > 1 PROVE keys[j - 1] \in Int /\ keys[j - 1] < keys[j]
      <4>1. j - 1 \in 1..m /\ j - 1 < j
        BY <3>2, <1>2
      <4>2. QED
        BY <4>1, <1>3, <1>4 DEF Ascending, m
    <3>3. QED
      BY <3>1, <3>2
  <2>5. j + 1 <= m => keys[j + 1] \in Int /\ keys[j] < keys[j + 1]
    <3>1. SUFFICES ASSUME j + 1 <= m PROVE keys[j + 1] \in Int /\ keys[j] < keys[j + 1]
      OBVIOUS
    <3>2. j + 1 \in 1..m /\ j < j + 1
      BY <3>1, <1>2
    <3>3. QED
      BY <3>2, <1>3, <1>4 DEF Ascending, m
  <2>6. \A x \in S : x \in Int
    BY <1>2
  <2>7. Before(Part(S, keys, j), Part(S, keys, j + 1))
    BY <2>2, <2>3, <2>4, <2>6 DEF Before
  <2> DEFINE U == Part(S, keys, j) \cup Part(S, keys, j + 1)
  <2>8. \A k : k \in U <=> k \in S /\ (j > 1 => keys[j - 1] <= k) /\ (j + 1 <= m => k < keys[j + 1])
    BY <2>2, <2>3, <2>4, <2>5, <2>6
  <2> HIDE DEF U
  <2>9. Convex(U)
    <3>1. SUFFICES ASSUME NEW x \in U, NEW y \in U, NEW k \in Keys, x <= k, k <= y PROVE k \in U
      BY DEF Convex
    <3>2. x \in S /\ y \in S /\ x \in Int /\ y \in Int /\ k \in Int
      BY <2>6, <2>8, KeysAreInts
    <3>3. k \in S
      BY <3>1, <3>2, <1>2 DEF Convex
    <3>4. j > 1 => keys[j - 1] <= k
      BY <3>1, <3>2, <2>4, <2>8
    <3>5. j + 1 <= m => k < keys[j + 1]
      BY <3>1, <3>2, <2>5, <2>8
    <3>6. QED
      BY <3>3, <3>4, <3>5, <2>8
  <2>10. QED
    BY <2>7, <2>9 DEF Adjacent, U
<1>8. Starts(Part(S, keys, 1), S)
  <2>1. 1 \in 1..(m + 1)
    BY <1>2
  <2>2. \A k : k \in Part(S, keys, 1) <=> k \in S /\ (1 <= m => k < keys[1])
    BY <2>1, <1>6
  <2>3. 1 <= m => keys[1] \in Int
    BY <1>2, <1>4
  <2>4. \A x \in S : x \in Int
    BY <1>2
  <2>5. QED
    BY <2>2, <2>3, <2>4 DEF Starts
<1>9. Ends(Part(S, keys, m + 1), S)
  <2>1. m + 1 \in 1..(m + 1) /\ ~(m + 1 <= m) /\ (m + 1) - 1 = m /\ (m + 1 > 1 => m \in 1..m)
    BY <1>2
  <2>2. \A k : k \in Part(S, keys, m + 1) <=> k \in S /\ (m + 1 > 1 => keys[m] <= k)
    BY <2>1, <1>6
  <2>3. m + 1 > 1 => keys[m] \in Int
    BY <2>1, <1>4
  <2>4. \A x \in S : x \in Int
    BY <1>2
  <2>5. QED
    BY <2>2, <2>3, <2>4 DEF Ends
<1>10. 1 \in 1..(m + 1) /\ m + 1 \in 1..(m + 1) /\ m + 1 >= 1 /\ (m + 1) - 1 = m
       /\ \A i \in 1..m : i \in 1..(m + 1) /\ i + 1 \in 1..(m + 1)
  BY <1>2
<1>11. \A i \in 1..m : Adjacent(span[kids[i]], span[kids[i + 1]])
  BY <1>3, <1>7, <1>10
<1>12. Starts(span[kids[1]], S) /\ Ends(span[kids[m + 1]], S)
  BY <1>3, <1>8, <1>9, <1>10
<1>13. Row(kids, S, span, level, h - 1)
  BY <1>2, <1>3, <1>10, <1>11, <1>12 DEF Row
<1>14. QED
  BY <1>5, <1>13 DEF S, kids, h
\* What is flattened to give the nodes of the next level.
KidsOfAll(ids) == [i \in 1..Len(ids) |-> nodes[ids[i]].kids]

\* h is what it gives from the first nodes of a level.
BelowBy(h, ids) ==
  /\ h \in [0..Len(ids) -> Seq(NodeIds)] /\ h[0] = << >> /\ Below(ids) = h[Len(ids)]
  /\ \A i \in 1..Len(ids) : h[i] = h[i - 1] \o nodes[ids[i]].kids

LEMMA BelowFlattens ==
  ASSUME NEW span, NEW level, GoodTree(span, level), NEW ids \in Seq(NodeIds)
  PROVE  \E h : BelowBy(h, ids)
<1> DEFINE seqs == KidsOfAll(ids)
           n == Len(ids)
<1>1. n \in Nat /\ DOMAIN ids = 1..n /\ \A i \in 1..n : ids[i] \in NodeIds
  BY SeqFacts
<1>2. \A id \in NodeIds : nodes[id].kids \in Seq(NodeIds)
  BY GoodTreeFacts, ShapeFacts
<1>3. Below(ids) = FlattenSeq(seqs) /\ seqs \in [1..n -> Seq(NodeIds)]
  BY <1>1, <1>2 DEF Below, KidsOfAll
<1>4. \A i \in 1..n : seqs[i] = nodes[ids[i]].kids
  BY DEF KidsOfAll
<1> HIDE DEF seqs
<1>5. seqs \in Seq(Seq(NodeIds)) /\ Len(seqs) = n
  BY <1>1, <1>3, FunctionIs
<1>6. PICK h : Flattens(h, seqs, NodeIds)
  BY <1>5, FlattenedBy
<1>7. /\ h \in [0..n -> Seq(NodeIds)] /\ h[0] = << >> /\ FlattenSeq(seqs) = h[n]
      /\ \A i \in 1..n : h[i] = h[i - 1] \o seqs[i]
  BY <1>5, <1>6 DEF Flattens
<1>8. BelowBy(h, ids)
  BY <1>3, <1>4, <1>7 DEF BelowBy
<1>9. QED
  BY <1>8

\* The first of the next level is the first child of the first.
LEMMA BelowFalls ==
  ASSUME NEW span, NEW level, GoodTree(span, level), NEW ids \in Seq(NodeIds), ids # << >>,
         ~nodes[Head(ids)].leaf
  PROVE  /\ Below(ids) \in Seq(NodeIds) /\ Below(ids) # << >>
         /\ level[Head(Below(ids))] \in Nat /\ level[Head(ids)] \in Nat
         /\ level[Head(Below(ids))] < level[Head(ids)]
<1> DEFINE n == Len(ids)
           kids == nodes[ids[1]].kids
           Low1(s) == Len(s) >= 1 /\ s[1] = kids[1]
<1>1. n \in Nat /\ n >= 1 /\ Head(ids) = ids[1] /\ \A i \in 1..n : ids[i] \in NodeIds
  BY SeqFacts
<1>2. Shape(nodes, span, span, level) /\ NodeIds = 1..Len(nodes) /\ level \in [NodeIds -> Nat]
  BY GoodTreeFacts
<1>3. ids[1] \in NodeIds /\ ~nodes[ids[1]].leaf
  BY <1>1
<1>4. /\ ForkFits(nodes[ids[1]], span[ids[1]], level[ids[1]], span, level)
      /\ kids \in Seq(NodeIds) /\ Len(nodes[ids[1]].keys) \in Nat
      /\ \A i \in 1..n : nodes[ids[i]].kids \in Seq(NodeIds)
  BY <1>1, <1>2, <1>3, ShapeFacts
<1>5. Len(kids) \in Nat /\ Len(kids) >= 1 /\ level[kids[1]] < level[ids[1]] /\ kids[1] \in NodeIds
  <2>1. Len(kids) \in Nat /\ Len(kids) >= 1 /\ 1 \in 1..Len(kids)
    BY <1>4 DEF ForkFits
  <2>2. level[kids[1]] < level[ids[1]]
    BY <2>1, <1>4 DEF ForkFits
  <2>3. kids[1] \in NodeIds
    BY <2>1, <1>4, SeqFacts
  <2>4. QED
    BY <2>1, <2>2, <2>3
<1>a. PICK h : BelowBy(h, ids)
  BY BelowFlattens
<1>6. /\ h \in [0..n -> Seq(NodeIds)] /\ h[0] = << >> /\ Below(ids) = h[n]
      /\ \A i \in 1..n : h[i] = h[i - 1] \o nodes[ids[i]].kids
  BY <1>a DEF BelowBy
<1> HIDE DEF n, kids
<1>7. Low1(h[1])
  <2>1. 1 \in 1..n /\ 1 - 1 = 0
    BY <1>1
  <2>2. h[1] = << >> \o kids
    BY <2>1, <1>6 DEF kids
  <2>3. << >> \o kids = kids
    BY <1>4
  <2>4. QED
    BY <2>2, <2>3, <1>5
<1> DEFINE T == {m \in Nat : m + 1 <= n => Low1(h[m + 1])}
<1>8. 0 \in T
  BY <1>7
<1>9. ASSUME NEW m \in Nat, m \in T PROVE m + 1 \in T
  <2>1. SUFFICES ASSUME (m + 1) + 1 <= n PROVE Low1(h[(m + 1) + 1])
    OBVIOUS
  <2>2. (m + 1) + 1 \in 1..n /\ ((m + 1) + 1) - 1 = m + 1 /\ m + 1 <= n /\ m + 1 \in 0..n
    BY <2>1, <1>1
  <2>3. Low1(h[m + 1]) /\ h[m + 1] \in Seq(NodeIds)
    BY <2>2, <1>6, <1>9
  <2>4. h[(m + 1) + 1] = h[m + 1] \o nodes[ids[(m + 1) + 1]].kids
    BY <2>2, <1>6
  <2>5. nodes[ids[(m + 1) + 1]].kids \in Seq(NodeIds)
    BY <2>2, <1>4
  <2>6. \A s, t \in Seq(NodeIds) : Low1(s) => Low1(s \o t)
    <3>1. TAKE s, t \in Seq(NodeIds)
    <3>2. HAVE Low1(s)
    <3>3. Len(s) \in Nat /\ Len(t) \in Nat /\ Len(s \o t) = Len(s) + Len(t) /\ \A i \in 1..Len(s) : (s \o t)[i] = s[i]
      BY BehindIs
    <3>4. 1 \in 1..Len(s) /\ Len(s \o t) >= 1
      BY <3>2, <3>3
    <3>5. QED
      BY <3>2, <3>3, <3>4
  <2> HIDE DEF Low1
  <2>7. QED
    BY <2>3, <2>4, <2>5, <2>6
<1> HIDE DEF T
<1>10. \A m \in Nat : m \in T
  BY <1>8, <1>9, SetInduction
<1>11. Low1(h[n])
  <2>1. n - 1 \in Nat /\ (n - 1) + 1 = n /\ n <= n
    BY <1>1
  <2>2. n - 1 \in T
    BY <2>1, <1>10
  <2> HIDE DEF Low1
  <2>3. QED
    BY <2>1, <2>2 DEF T
<1>12. Below(ids) \in Seq(NodeIds) /\ Low1(Below(ids))
  <2>1. n \in 0..n
    BY <1>1
  <2> HIDE DEF Low1
  <2>2. QED
    BY <2>1, <1>6, <1>11
<1>13. Below(ids) # << >> /\ Head(Below(ids)) = kids[1]
  BY <1>12
<1>14. QED
  BY <1>1, <1>2, <1>5, <1>12, <1>13

LevelStep(f, ids) == <<ids>> \o IF nodes[Head(ids)].leaf THEN << >> ELSE f[Below(ids)]

Listing(f) == f = [ids \in Seq(NodeIds) \ {<< >>} |-> LevelStep(f, ids)]

LEMMA ListingExists ==
  ASSUME NEW span, NEW level, GoodTree(span, level)
  PROVE  \E f : Listing(f)
<1> DEFINE D == Seq(NodeIds) \ {<< >>}
           V == Seq(Seq(NodeIds))
           Rank(ids) == level[Head(ids)]
           rank == [ids \in D |-> Rank(ids)]
           S == [D -> V]
           step == [F \in S |-> [ids \in D |-> LevelStep(F, ids)]]
           Leafy(ids) == nodes[Head(ids)].leaf
<1>1. /\ level \in [NodeIds -> Nat] /\ \A ids \in D : Head(ids) \in NodeIds
  <2>1. \A ids \in D : Head(ids) \in NodeIds
    OBVIOUS
  <2>2. QED
    BY <2>1, GoodTreeFacts
<1>2. \A ids \in D : ~Leafy(ids) => Below(ids) \in D /\ Rank(Below(ids)) < Rank(ids)
  BY BelowFalls
<1>3. \A ids \in D, v \in V : <<ids>> \o v \in V /\ <<ids>> \o << >> \in V
  OBVIOUS
<1>4. V # {} /\ << >> \in V
  <2>1. << >> \in V
    OBVIOUS
  <2>2. QED
    BY <2>1
<1>5. rank \in [D -> Nat]
  BY <1>1
<1> HIDE DEF V, D, Leafy
<1>6. \A F \in S, ids \in D : LevelStep(F, ids) = <<ids>> \o IF Leafy(ids) THEN << >> ELSE F[Below(ids)]
  BY DEF LevelStep, Leafy
<1>7. \A F \in S, ids \in D : LevelStep(F, ids) \in V
  BY <1>2, <1>3, <1>4, <1>6
<1>8. \A F \in S : /\ [ids \in D |-> LevelStep(F, ids)] \in S
                   /\ step[F] = [ids \in D |-> LevelStep(F, ids)]
  BY <1>7
<1>9. step \in [S -> S]
  BY <1>8
<1>10. \A F \in S, ids \in D : step[F][ids] = LevelStep(F, ids)
  BY <1>8
<1>11. ASSUME NEW F \in S, NEW G \in S, NEW ids \in D, \A e \in D : rank[e] < rank[ids] => F[e] = G[e]
       PROVE  LevelStep(F, ids) = LevelStep(G, ids)
  <2>1. \A e \in D : Rank(e) < Rank(ids) => F[e] = G[e]
    BY <1>11
  <2> HIDE DEF Rank, rank, S
  <2>2. ~Leafy(ids) => F[Below(ids)] = G[Below(ids)]
    BY <2>1, <1>2
  <2>3. QED
    BY <2>2, <1>6
<1> HIDE DEF rank, step
<1>12. Ranked(D, V, rank, step)
  BY <1>4, <1>5, <1>9, <1>10, <1>11 DEF Ranked
<1>13. PICK f \in S : f = step[f]
  BY <1>12, RankedRecursion
<1>14. f = [ids \in D |-> LevelStep(f, ids)]
  BY <1>8, <1>13
<1>15. QED
  BY <1>14 DEF Listing, D
UpTo(S) == {k \in Keys : \E y \in S : k <= y}

LEMMA UpToNext ==
  ASSUME NEW A \in SUBSET Keys, A # {}, NEW B \in SUBSET Keys, B # {}, Adjacent(A, B)
  PROVE  /\ UpTo(A) \in SUBSET Keys /\ Adjacent(UpTo(A), B) /\ UpTo(B) = UpTo(A) \cup B
<1>1. PICK a, b : a \in A /\ b \in B
  OBVIOUS
<1>2. \A k \in Keys : k \in Int
  BY KeysAreInts
<1>3. \A x \in A, y \in B : x < y
  BY DEF Adjacent, Before
<1>4. A \subseteq UpTo(A) /\ UpTo(A) \subseteq Keys
  BY <1>2 DEF UpTo
<1>5. \A x \in UpTo(A), y \in B : x < y
  <2>1. TAKE x \in UpTo(A), y \in B
  <2>2. PICK z \in A : x <= z
    BY DEF UpTo
  <2>3. z < y /\ x \in Int /\ y \in Int /\ z \in Int
    BY <1>2, <1>3, <1>4
  <2>4. QED
    BY <2>2, <2>3
\* All keys up to one of B.
<1>6. ASSUME NEW k \in Keys, NEW y \in UpTo(A) \cup B, k <= y PROVE k \in UpTo(A) \cup B
  <2>1. CASE y \in UpTo(A)
    <3>1. PICK z \in A : y <= z
      BY <2>1 DEF UpTo
    <3>2. k \in Int /\ y \in Int /\ z \in Int
      BY <1>2, <1>4
    <3>3. k <= z
      BY <3>1, <3>2, <1>6
    <3>4. QED
      BY <3>3 DEF UpTo
  <2>2. CASE y \in B
    <3>1. CASE k <= a
      BY <3>1, <1>1 DEF UpTo
    <3>2. CASE ~(k <= a)
      <4>1. a <= k
        BY <3>2, <1>1, <1>2
      <4>2. k \in A \cup B
        BY <4>1, <2>2, <1>1, <1>6 DEF Adjacent, Convex
      <4>3. QED
        BY <4>2, <1>4
    <3>3. QED
      BY <3>1, <3>2
  <2>3. QED
    BY <2>1, <2>2
<1>7. Adjacent(UpTo(A), B)
  BY <1>5, <1>6 DEF Adjacent, Before, Convex
<1>8. UpTo(B) = UpTo(A) \cup B
  <2>1. ASSUME NEW k \in UpTo(B) PROVE k \in UpTo(A) \cup B
    <3>1. PICK y \in B : k <= y
      BY DEF UpTo
    <3>2. k \in Keys
      BY DEF UpTo
    <3>3. QED
      BY <3>1, <3>2, <1>6
  <2>2. ASSUME NEW k \in UpTo(A) PROVE k \in UpTo(B)
    <3>1. k < b /\ k \in Keys /\ k \in Int /\ b \in Int
      BY <1>1, <1>2, <1>4, <1>5
    <3>2. k <= b
      BY <3>1
    <3>3. QED
      BY <3>1, <3>2, <1>1 DEF UpTo
  <2>3. B \subseteq UpTo(B)
    BY <1>2 DEF UpTo
  <2>4. QED
    BY <2>1, <2>2, <2>3
<1>9. QED
  BY <1>4, <1>7, <1>8

\* Under a row of all keys that are no leaves lies another.
LEMMA BelowRow ==
  ASSUME NEW span, NEW level, GoodTree(span, level), NEW ids, NEW h, Row(ids, Keys, span, level, h), h # 0
  PROVE  h - 1 \in Nat /\ Row(Below(ids), Keys, span, level, h - 1)
<1> DEFINE n == Len(ids)
           kids(i) == nodes[ids[i]].kids
           R(s, S) == Row(s, S, span, level, h - 1)
           U(m) == UpTo(span[ids[m]])
<1>1. /\ ids \in Seq(NodeIds) /\ n \in Nat /\ n >= 1 /\ 1 \in 1..n /\ n \in 1..n
      /\ \A i \in 1..n : ids[i] \in NodeIds /\ span[ids[i]] # {} /\ level[ids[i]] = h
      /\ \A i \in 1..(n - 1) : Adjacent(span[ids[i]], span[ids[i + 1]])
      /\ Starts(span[ids[1]], Keys) /\ Ends(span[ids[n]], Keys)
  <2>1. ids \in Seq(NodeIds) /\ n >= 1
    BY DEF Row
  <2>2. n \in Nat /\ \A i \in 1..n : ids[i] \in NodeIds
    BY <2>1, SeqFacts
  <2>3. 1 \in 1..n /\ n \in 1..n
    BY <2>1, <2>2
  <2>4. QED
    BY <2>1, <2>2, <2>3 DEF Row
<1>2. Shape(nodes, span, span, level) /\ NodeIds = 1..Len(nodes) /\ span \in [NodeIds -> SUBSET Keys]
  BY GoodTreeFacts
<1>3. \A i \in 1..n : span[ids[i]] \in SUBSET Keys
  BY <1>1, <1>2
<1>4. \A i \in 1..n : h - 1 \in Nat /\ R(kids(i), span[ids[i]])
  <2>1. TAKE i \in 1..n
  <2>2. ids[i] \in NodeIds /\ span[ids[i]] # {} /\ level[ids[i]] = h
    BY <1>1
  <2>3. nodes[ids[i]].leaf => level[ids[i]] = 0
    BY <2>2, <1>2, ShapeFacts
  <2>4. ~nodes[ids[i]].leaf
    BY <2>2, <2>3
  <2>5. level[ids[i]] - 1 \in Nat /\ Row(nodes[ids[i]].kids, span[ids[i]], span, level, level[ids[i]] - 1)
    BY <2>2, <2>4, KidsRow
  <2>6. QED
    BY <2>2, <2>5
<1>5. PICK b : BelowBy(b, ids)
  BY <1>1, BelowFlattens
<1>6. /\ b[0] = << >> /\ Below(ids) = b[n]
      /\ \A i \in 1..n : b[i] = b[i - 1] \o kids(i)
  BY <1>5 DEF BelowBy
<1>7. \A s, t : \A S, X \in SUBSET Keys :
        R(s, S) /\ R(t, X) /\ Adjacent(S, X) => R(s \o t, S \cup X)
  BY <1>2, RowsJoin
<1>8. \A i \in 1..n : i + 1 \in 1..n =>
        U(i) \in SUBSET Keys /\ Adjacent(U(i), span[ids[i + 1]]) /\ U(i + 1) = U(i) \cup span[ids[i + 1]]
  <2>1. SUFFICES ASSUME NEW i \in 1..n, i + 1 \in 1..n
                 PROVE  U(i) \in SUBSET Keys /\ Adjacent(U(i), span[ids[i + 1]])
                        /\ U(i + 1) = U(i) \cup span[ids[i + 1]]
    OBVIOUS
  <2>2. Adjacent(span[ids[i]], span[ids[i + 1]])
    <3>1. i \in 1..(n - 1)
      BY <2>1, <1>1
    <3>2. QED
      BY <3>1, <1>1
  <2>3. QED
    BY <2>1, <2>2, <1>1, <1>3, UpToNext
<1>9. U(1) = span[ids[1]]
  <2>1. span[ids[1]] \subseteq Keys /\ \A x \in span[ids[1]], k \in Keys : k <= x => k \in span[ids[1]]
    BY <1>1 DEF Starts
  <2>2. \A x \in Keys : x <= x
    <3>1. \A x \in Int : x <= x
      OBVIOUS
    <3>2. QED
      BY <3>1, KeysAreInts
  <2>3. QED
    BY <2>1, <2>2 DEF UpTo
<1>10. U(n) = Keys
  <2>1. /\ span[ids[n]] \subseteq Keys /\ span[ids[n]] # {}
        /\ \A x \in span[ids[n]], k \in Keys : x <= k => k \in span[ids[n]]
    BY <1>1 DEF Ends
  <2>2. PICK x : x \in span[ids[n]]
    BY <2>1
  <2>3. ASSUME NEW k \in Keys PROVE k \in U(n)
    <3>1. k \in Int /\ x \in Int
      BY <2>1, <2>2, KeysAreInts
    <3>2. CASE k <= x
      BY <3>2, <2>2 DEF UpTo
    <3>3. CASE ~(k <= x)
      <4>1. x <= k /\ k <= k
        BY <3>1, <3>3
      <4>2. QED
        BY <4>1, <2>1, <2>2 DEF UpTo
    <3>4. QED
      BY <3>2, <3>3
  <2>4. U(n) \subseteq Keys
    BY DEF UpTo
  <2>5. QED
    BY <2>3, <2>4
<1> DEFINE T == {m \in Nat : m + 1 <= n => R(b[m + 1], U(m + 1))}
<1>11. 0 \in T
  <2>1. b[1] = kids(1)
    <3>1. 1 - 1 = 0
      OBVIOUS
    <3>2. b[1] = << >> \o kids(1)
      BY <3>1, <1>1, <1>6
    <3>3. kids(1) \in Seq(NodeIds)
      BY <1>1, <1>4 DEF Row
    <3>4. QED
      BY <3>2, <3>3
  <2> HIDE DEF U, R, n, kids
  <2>2. R(b[1], U(1))
    BY <2>1, <1>1, <1>4, <1>9
  <2>3. QED
    BY <2>2
<1> HIDE DEF U, R, n, kids
<1>12. ASSUME NEW m \in Nat, m \in T PROVE m + 1 \in T
  <2>1. SUFFICES ASSUME (m + 1) + 1 <= n PROVE R(b[(m + 1) + 1], U((m + 1) + 1))
    OBVIOUS
  <2>2. (m + 1) + 1 \in 1..n /\ ((m + 1) + 1) - 1 = m + 1 /\ m + 1 <= n /\ m + 1 \in 1..n
    BY <2>1, <1>1
  <2>3. R(b[m + 1], U(m + 1))
    BY <2>2, <1>12
  <2>4. b[(m + 1) + 1] = b[m + 1] \o kids((m + 1) + 1)
    BY <2>2, <1>6
  <2> DEFINE i == m + 1
             j == (m + 1) + 1
  <2>5. /\ U(i) \in SUBSET Keys /\ Adjacent(U(i), span[ids[j]]) /\ U(j) = U(i) \cup span[ids[j]]
        /\ R(kids(j), span[ids[j]]) /\ span[ids[j]] \in SUBSET Keys
    BY <2>2, <1>3, <1>4, <1>8
  <2> HIDE DEF i, j, T
  <2>6. R(b[i] \o kids(j), U(i) \cup span[ids[j]])
    BY <2>3, <2>5, <1>7 DEF i
  <2>7. R(b[j], U(j))
    BY <2>4, <2>5, <2>6 DEF i, j
  <2>8. QED
    BY <2>7 DEF j
<1> HIDE DEF T
<1>13. \A m \in Nat : m \in T
  BY <1>11, <1>12, SetInduction
<1>14. R(b[n], U(n))
  <2>1. n - 1 \in Nat /\ (n - 1) + 1 = n /\ n <= n
    BY <1>1
  <2>2. n - 1 \in T
    BY <2>1, <1>13
  <2>3. QED
    BY <2>1, <2>2 DEF T
<1>15. h - 1 \in Nat
  BY <1>1, <1>4
<1>16. QED
  BY <1>6, <1>10, <1>14, <1>15 DEF R
\* One row of all keys for each level down to the leaves.
Tower(s, h, span, level) ==
  /\ s \in Seq(Seq(NodeIds)) /\ Len(s) = h + 1
  /\ \A d \in 1..(h + 1) : Row(s[d], Keys, span, level, h + 1 - d)

\* Leaves, and only they, are on level 0.
LEMMA LowestAreLeaves ==
  ASSUME NEW span, NEW level, GoodTree(span, level), NEW id \in NodeIds, span[id] # {}
  PROVE  nodes[id].leaf <=> level[id] = 0
<1>1. Shape(nodes, span, span, level) /\ NodeIds = 1..Len(nodes)
  BY GoodTreeFacts
<1>2. nodes[id].leaf => level[id] = 0
  BY <1>1, ShapeFacts
<1>3. ~nodes[id].leaf => level[id] - 1 \in Nat
  BY KidsRow
<1>4. QED
  BY <1>2, <1>3

LEMMA RowHead ==
  ASSUME NEW span, NEW level, GoodTree(span, level), NEW ids, NEW h, Row(ids, Keys, span, level, h)
  PROVE  /\ ids \in Seq(NodeIds) \ {<< >>} /\ Head(ids) \in NodeIds
         /\ nodes[Head(ids)].leaf <=> h = 0
<1>1. ids \in Seq(NodeIds) /\ Len(ids) >= 1 /\ \A i \in 1..Len(ids) : span[ids[i]] # {} /\ level[ids[i]] = h
  BY DEF Row
<1>2. ids # << >> /\ Head(ids) = ids[1] /\ ids[1] \in NodeIds /\ 1 \in 1..Len(ids)
  BY <1>1
<1>3. span[ids[1]] # {} /\ level[ids[1]] = h
  BY <1>1, <1>2
<1>4. nodes[ids[1]].leaf <=> h = 0
  BY <1>2, <1>3, LowestAreLeaves
<1>5. QED
  BY <1>1, <1>2, <1>4

LEMMA TowerIs ==
  ASSUME NEW span, NEW level, GoodTree(span, level), NEW f, Listing(f), NEW top \in Nat,
         NEW first, Row(first, Keys, span, level, top)
  PROVE  Tower(f[first], top, span, level)
<1> DEFINE R(ids, h) == Row(ids, Keys, span, level, h)
           W(s, h) == Tower(s, h, span, level)
           T == {h \in Nat : \A ids : R(ids, h) => W(f[ids], h)}
<1>1. \A ids, h : R(ids, h) =>
        /\ ids \in Seq(NodeIds)
        /\ f[ids] = <<ids>> \o IF h = 0 THEN << >> ELSE f[Below(ids)]
  <2>1. TAKE ids, h
  <2>2. HAVE R(ids, h)
  <2>3. ids \in Seq(NodeIds) \ {<< >>} /\ (nodes[Head(ids)].leaf <=> h = 0)
    BY <2>2, RowHead
  <2>4. f[ids] = LevelStep(f, ids)
    BY <2>3 DEF Listing
  <2>5. QED
    BY <2>3, <2>4 DEF LevelStep
<1>2. \A ids, h : R(ids, h) /\ h # 0 => h - 1 \in Nat /\ R(Below(ids), h - 1)
  BY BelowRow
<1>3. \A ids : R(ids, 0) => W(f[ids], 0)
  <2>1. TAKE ids
  <2>2. HAVE R(ids, 0)
  <2>3. f[ids] = <<ids>> \o << >> /\ ids \in Seq(NodeIds)
    BY <2>2, <1>1
  <2>4. f[ids] = <<ids>>
    <3>1. <<ids>> \o << >> = <<ids>>
      OBVIOUS
    <3>2. QED
      BY <3>1, <2>3
  <2> DEFINE s == <<ids>>
  <2>5. s \in Seq(Seq(NodeIds)) /\ Len(s) = 1 /\ s[1] = ids
    BY <2>3
  <2> HIDE DEF s
  <2>6. \A d \in 1..(0 + 1) : Row(s[d], Keys, span, level, 0 + 1 - d)
    <3>1. \A d \in 1..(0 + 1) : d = 1 /\ 0 + 1 - d = 0
      OBVIOUS
    <3>2. QED
      BY <3>1, <2>2, <2>5
  <2>7. W(s, 0)
    BY <2>5, <2>6 DEF Tower
  <2>8. QED
    BY <2>4, <2>7 DEF s
<1>4. ASSUME NEW h \in Nat, \A ids : R(ids, h) => W(f[ids], h), NEW ids, R(ids, h + 1)
      PROVE  W(f[ids], h + 1)
  <2> DEFINE below == Below(ids)
             s == f[below]
  <2>1. h + 1 # 0 /\ (h + 1) - 1 = h
    BY <1>4
  <2>2. R(below, h)
    BY <2>1, <1>2, <1>4
  <2>3. f[ids] = <<ids>> \o s /\ ids \in Seq(NodeIds)
    BY <2>1, <1>1, <1>4
  <2>4. W(s, h)
    BY <2>2, <1>4
  <2> HIDE DEF s, below
  <2>5. s \in Seq(Seq(NodeIds)) /\ Len(s) = h + 1 /\ \A d \in 1..(h + 1) : R(s[d], h + 1 - d)
    BY <2>4 DEF Tower
  <2> DEFINE t == <<ids>> \o s
  <2>6. /\ t \in Seq(Seq(NodeIds)) /\ Len(t) = Len(s) + 1 /\ t[1] = ids
        /\ \A i \in 1..Len(s) : t[i + 1] = s[i]
    BY <2>3, <2>5, InFrontIs
  <2> HIDE DEF t, R
  <2>7. \A d \in 1..((h + 1) + 1) : R(t[d], (h + 1) + 1 - d)
    <3>1. TAKE d \in 1..((h + 1) + 1)
    <3>2. CASE d = 1
      <4>1. (h + 1) + 1 - d = h + 1
        BY <3>2
      <4>2. QED
        BY <4>1, <3>2, <2>6, <1>4
    <3>3. CASE d # 1
      <4>1. d - 1 \in 1..(h + 1) /\ (d - 1) + 1 = d /\ h + 1 - (d - 1) = (h + 1) + 1 - d
        BY <3>3
      <4>2. t[d] = s[d - 1]
        BY <4>1, <2>5, <2>6
      <4>3. R(s[d - 1], h + 1 - (d - 1))
        BY <4>1, <2>5
      <4>4. QED
        BY <4>1, <4>2, <4>3
    <3>4. QED
      BY <3>2, <3>3
  <2>8. Len(t) = (h + 1) + 1
    BY <2>5, <2>6
  <2>9. W(t, h + 1)
    BY <2>6, <2>7, <2>8 DEF Tower, R
  <2>10. QED
    BY <2>3, <2>9 DEF t
<1> HIDE DEF R, W
<1>5. 0 \in T
  BY <1>3
<1>6. \A h \in Nat : h \in T => h + 1 \in T
  BY <1>4
<1> HIDE DEF T
<1>7. \A h \in Nat : h \in T
  BY <1>5, <1>6, SetInduction
<1>8. R(first, top)
  BY DEF R
<1>9. W(f[first], top)
  BY <1>7, <1>8 DEF T
<1>10. QED
  BY <1>9 DEF W

\* The links run through the lowest row.
LEMMA RowLinked ==
  ASSUME NEW span, NEW level, GoodTree(span, level), NEW s, Row(s, Keys, span, level, 0),
         NEW i \in 1..Len(s)
  PROVE  /\ nodes[s[i]].next = IF i + 1 \in 1..Len(s) THEN s[i + 1] ELSE NoLeaf
         /\ nodes[s[i]].prev = IF i - 1 \in 1..Len(s) THEN s[i - 1] ELSE NoLeaf
<1> DEFINE n == Len(s)
<1>1. /\ s \in Seq(NodeIds) /\ n \in Nat
      /\ \A j \in 1..n : s[j] \in NodeIds /\ span[s[j]] # {} /\ level[s[j]] = 0
      /\ \A j \in 1..(n - 1) : Adjacent(span[s[j]], span[s[j + 1]])
      /\ Starts(span[s[1]], Keys) /\ Ends(span[s[n]], Keys)
  BY SeqFacts DEF Row
<1>2. Shape(nodes, span, span, level) /\ Linked(nodes, span) /\ NodeIds = 1..Len(nodes)
  BY GoodTreeFacts
<1>3. \A j \in 1..n : LiveLeaf(nodes, span, s[j])
  <2>1. TAKE j \in 1..n
  <2>2. s[j] \in NodeIds /\ span[s[j]] # {} /\ nodes[s[j]].leaf
    BY <1>1, LowestAreLeaves
  <2>3. QED
    BY <2>2, <1>2 DEF LiveLeaf
<1>4. \A a : LiveLeaf(nodes, span, a) => span[a] # {} /\ span[a] \subseteq Keys /\ span[a] \subseteq Int
  BY LeafFacts
<1>5. \A a, b : LiveLeaf(nodes, span, a) /\ LiveLeaf(nodes, span, b) /\ Adjacent(span[a], span[b])
                  => ~AtEnd(span[a]) /\ ~Starts(span[b], Keys)
  <2>1. SUFFICES ASSUME NEW a, NEW b, LiveLeaf(nodes, span, a), LiveLeaf(nodes, span, b),
                        Adjacent(span[a], span[b]), AtEnd(span[a]) \/ Starts(span[b], Keys)
                 PROVE  FALSE
    OBVIOUS
  <2>2. PICK x, y : x \in span[a] /\ y \in span[b]
    BY <2>1, <1>4
  <2>3. x \in Keys /\ y \in Keys /\ x \in Int /\ y \in Int /\ x < y
    BY <2>1, <2>2, <1>4 DEF Adjacent, Before
  <2>4. x <= y
    BY <2>3
  <2>5. y \in span[a] \/ x \in span[b]
    BY <2>1, <2>2, <2>3, <2>4 DEF AtEnd, Starts
  <2>6. y < y \/ x < x
    BY <2>1, <2>2, <2>5 DEF Adjacent, Before
  <2>7. QED
    BY <2>3, <2>6
\* Behind a leaf there is one next leaf.
<1>6. \A a, b, c : /\ LiveLeaf(nodes, span, a) /\ LiveLeaf(nodes, span, b) /\ LiveLeaf(nodes, span, c)
                   /\ Adjacent(span[a], span[b]) /\ Adjacent(span[a], span[c])
                   => b = c
  <2>1. SUFFICES ASSUME NEW a, NEW b, NEW c, LiveLeaf(nodes, span, a), LiveLeaf(nodes, span, b),
                        LiveLeaf(nodes, span, c), Adjacent(span[a], span[b]), Adjacent(span[a], span[c])
                 PROVE  b = c
    OBVIOUS
  <2>2. PICK x, y, z : x \in span[a] /\ y \in span[b] /\ z \in span[c]
    BY <2>1, <1>4
  <2>3. /\ x \in Int /\ y \in Int /\ z \in Int /\ y \in Keys /\ z \in Keys
        /\ x < y /\ x < z /\ y \notin span[a] /\ z \notin span[a]
    <3>1. x \in Int /\ y \in Int /\ z \in Int /\ y \in Keys /\ z \in Keys
      BY <2>1, <2>2, <1>4
    <3>2. x < y /\ x < z /\ (y \in span[a] => y < y) /\ (z \in span[a] => z < z)
      BY <2>1, <2>2 DEF Adjacent, Before
    <3>3. QED
      BY <3>1, <3>2
  <2>4. y <= z \/ z <= y
    BY <2>3
  <2>5. x <= y /\ x <= z
    BY <2>3
  <2>6. CASE y <= z
    <3>1. y \in span[c]
      BY <2>1, <2>2, <2>3, <2>5, <2>6 DEF Adjacent, Convex
    <3>2. QED
      BY <3>1, <2>1, <2>2, <1>2, OneLeaf
  <2>7. CASE z <= y
    <3>1. z \in span[b]
      BY <2>1, <2>2, <2>3, <2>5, <2>7 DEF Adjacent, Convex
    <3>2. QED
      BY <3>1, <2>1, <2>2, <1>2, OneLeaf
  <2>8. QED
    BY <2>4, <2>6, <2>7
<1>7. \A j \in 1..n : LET a == s[j] IN
        /\ nodes[a].next = NoLeaf => AtEnd(span[a])
        /\ nodes[a].next # NoLeaf => /\ LiveLeaf(nodes, span, nodes[a].next)
                                     /\ nodes[nodes[a].next].prev = a
                                     /\ Adjacent(span[a], span[nodes[a].next])
        /\ nodes[a].prev # NoLeaf => /\ LiveLeaf(nodes, span, nodes[a].prev)
                                     /\ nodes[nodes[a].prev].next = a
  BY <1>1, <1>2, <1>3, LinksOf
<1>8. ASSUME NEW j \in 1..n, j + 1 \in 1..n
      PROVE  nodes[s[j]].next = s[j + 1] /\ nodes[s[j + 1]].prev = s[j]
  <2>1. Adjacent(span[s[j]], span[s[j + 1]])
    <3>1. j \in 1..(n - 1)
      BY <1>1, <1>8
    <3>2. QED
      BY <3>1, <1>1
  <2>2. nodes[s[j]].next # NoLeaf
    <3>1. LiveLeaf(nodes, span, s[j]) /\ LiveLeaf(nodes, span, s[j + 1])
      BY <1>3, <1>8
    <3>2. ~AtEnd(span[s[j]])
      BY <3>1, <2>1, <1>5
    <3>3. QED
      BY <3>2, <1>7, <1>8
  <2>3. nodes[s[j]].next = s[j + 1]
    <3>1. /\ LiveLeaf(nodes, span, nodes[s[j]].next)
          /\ Adjacent(span[s[j]], span[nodes[s[j]].next])
      BY <2>2, <1>7
    <3>2. LiveLeaf(nodes, span, s[j]) /\ LiveLeaf(nodes, span, s[j + 1])
      BY <1>3, <1>8
    <3>3. QED
      BY <2>1, <3>1, <3>2, <1>6
  <2>4. QED
    BY <2>2, <2>3, <1>7
<1>9. ASSUME i + 1 \notin 1..n PROVE nodes[s[i]].next = NoLeaf
  <2>1. i = n
    BY <1>1, <1>9
  <2>2. AtEnd(span[s[i]])
    BY <2>1, <1>1 DEF Ends, AtEnd
  <2>3. QED
    BY <2>2, <1>3, <1>5, <1>7
<1>10. ASSUME i - 1 \notin 1..n PROVE nodes[s[i]].prev = NoLeaf
  <2>1. i = 1
    BY <1>1, <1>10
  <2>2. SUFFICES ASSUME nodes[s[i]].prev # NoLeaf PROVE FALSE
    OBVIOUS
  <2> DEFINE p == nodes[s[i]].prev
  <2>3. LiveLeaf(nodes, span, p) /\ nodes[p].next = s[i]
    BY <2>2, <1>7
  <2>4. p \in 1..Len(nodes) /\ s[i] # NoLeaf
    BY <2>3, <1>1, <1>2 DEF LiveLeaf, NoLeaf
  <2>5. Adjacent(span[p], span[s[i]])
    BY <2>3, <2>4, <1>2, LinksOf
  <2>6. QED
    BY <2>1, <2>3, <2>5, <1>1, <1>3, <1>5
<1>11. nodes[s[i]].next = IF i + 1 \in 1..n THEN s[i + 1] ELSE NoLeaf
  BY <1>8, <1>9
<1>12. nodes[s[i]].prev = IF i - 1 \in 1..n THEN s[i - 1] ELSE NoLeaf
  <2>1. CASE i - 1 \in 1..n
    <3>1. (i - 1) + 1 = i
      BY <1>1
    <3>2. nodes[s[i]].prev = s[i - 1]
      <4> DEFINE j == i - 1
      <4>1. j \in 1..n /\ j + 1 \in 1..n /\ j + 1 = i
        BY <2>1, <3>1
      <4> HIDE DEF j
      <4>2. nodes[s[j + 1]].prev = s[j]
        BY <4>1, <1>8
      <4>3. QED
        BY <4>1, <4>2 DEF j
    <3>3. QED
      BY <3>2, <2>1
  <2>2. CASE i - 1 \notin 1..n
    BY <2>2, <1>10
  <2>3. QED
    BY <2>1, <2>2
<1>13. QED
  BY <1>11, <1>12
\* The tree is balanced.
LEMMA BalancedIs ==
  ASSUME NEW span, NEW level, GoodTree(span, level), Keys # {}
  PROVE  Balanced
<1> DEFINE first == <<root>>
           f == CHOOSE g : Listing(g)
           levels == f[first]
           top == level[root]
           leaves == Last(levels)
<1>1. Levels = levels
  BY DEF Levels, Listing, LevelStep
<1>2. /\ root \in NodeIds /\ span[root] = Keys /\ top \in Nat /\ NodeIds = 1..Len(nodes)
      /\ Filled(nodes, span, root, 0) /\ Shape(nodes, span, span, level)
  BY GoodTreeFacts
<1>3. Row(first, Keys, span, level, top)
  <2>1. first \in Seq(NodeIds) /\ Len(first) = 1 /\ first[1] = root
    BY <1>2
  <2>2. Starts(Keys, Keys) /\ Ends(Keys, Keys)
    BY DEF Starts, Ends
  <2> HIDE DEF first
  <2>3. QED
    BY <2>1, <2>2, <1>2 DEF Row
<1>4. Listing(f)
  BY ListingExists
<1> HIDE DEF f, first
<1>5. Tower(levels, top, span, level)
  BY <1>2, <1>3, <1>4, TowerIs
<1> HIDE DEF levels
<1>6. /\ levels \in Seq(Seq(NodeIds)) /\ Len(levels) = top + 1 /\ DOMAIN levels = 1..(top + 1)
      /\ \A d \in 1..(top + 1) : Row(levels[d], Keys, span, level, top + 1 - d)
  BY <1>5, SeqFacts DEF Tower
<1>7. leaves = levels[top + 1] /\ top + 1 \in 1..(top + 1) /\ top + 1 - (top + 1) = 0
  BY <1>2, <1>6 DEF Last
<1> HIDE DEF leaves, top
<1>8. Row(leaves, Keys, span, level, 0)
  BY <1>6, <1>7
<1>9. \A s \in ToSet(levels) : \E d \in 1..(top + 1) : s = levels[d]
  BY <1>6 DEF ToSet, Range
<1>10. \A s, h : Row(s, Keys, span, level, h) =>
         \A id \in ToSet(s) : /\ id \in NodeIds /\ span[id] # {} /\ level[id] = h
                              /\ nodes[id].leaf <=> h = 0
  <2>1. SUFFICES ASSUME NEW s, NEW h, Row(s, Keys, span, level, h), NEW id \in ToSet(s)
                 PROVE  id \in NodeIds /\ span[id] # {} /\ level[id] = h /\ (nodes[id].leaf <=> h = 0)
    OBVIOUS
  <2>2. s \in Seq(NodeIds) /\ \A i \in 1..Len(s) : span[s[i]] # {} /\ level[s[i]] = h
    BY <2>1 DEF Row
  <2>3. DOMAIN s = 1..Len(s) /\ \A i \in 1..Len(s) : s[i] \in NodeIds
    BY <2>2, SeqFacts
  <2>4. \E i \in 1..Len(s) : id = s[i]
    BY <2>1, <2>3 DEF ToSet, Range
  <2>5. id \in NodeIds /\ span[id] # {} /\ level[id] = h
    BY <2>2, <2>3, <2>4
  <2>6. QED
    BY <2>5, LowestAreLeaves
<1>11. ASSUME NEW s \in ToSet(levels), NEW id \in ToSet(s)
       PROVE  /\ nodes[id].leaf <=> s = leaves
              /\ id = root \/ ~Underflows(nodes[id])
  <2>1. PICK d \in 1..(top + 1) : s = levels[d]
    BY <1>9
  <2>2. Row(s, Keys, span, level, top + 1 - d)
    BY <2>1, <1>6
  <2>3. id \in NodeIds /\ span[id] # {} /\ level[id] = top + 1 - d /\ (nodes[id].leaf <=> top + 1 - d = 0)
    BY <2>2, <1>10
  <2>4. top + 1 - d = 0 => s = leaves
    <3>1. top + 1 - d = 0 => d = top + 1
      BY <1>2 DEF top
    <3>2. QED
      BY <3>1, <2>1, <1>7
  <2>5. s = leaves => nodes[id].leaf
    BY <1>8, <1>10
  <2>6. id = root \/ ~Underflows(nodes[id])
    <3>1. SUFFICES ASSUME id # root PROVE ~Underflows(nodes[id])
      OBVIOUS
    <3>2. id \in 1..Len(nodes) /\ id # 0
      BY <2>3, <1>2
    <3>3. Count(nodes[id]) >= MinKeys(nodes[id]) - (IF id = 0 THEN 1 ELSE 0)
      BY <3>1, <3>2, <2>3, <1>2 DEF Filled, NodeFilled
    <3>4. nodes[id].leaf \in BOOLEAN /\ Count(nodes[id]) \in Nat
      BY <3>2, <1>2, ShapeFacts DEF Count
    <3>5. MinKeys(nodes[id]) \in Nat
      BY <3>4, LeastIs
    <3>6. QED
      BY <3>2, <3>3, <3>4, <3>5 DEF Underflows
  <2>7. QED
    BY <2>3, <2>4, <2>5, <2>6
<1>12. DOMAIN leaves = 1..Len(leaves)
  BY <1>8, SeqFacts DEF Row
<1>13. ASSUME NEW i \in DOMAIN leaves
       PROVE  /\ nodes[leaves[i]].next = IF i + 1 \in DOMAIN leaves THEN leaves[i + 1] ELSE NoLeaf
              /\ nodes[leaves[i]].prev = IF i - 1 \in DOMAIN leaves THEN leaves[i - 1] ELSE NoLeaf
  BY <1>8, <1>12, RowLinked
<1>14. QED
  BY <1>1, <1>11, <1>13 DEF Balanced, leaves

\* As long as there are no rows to store.
LEMMA EmptyBalanced ==
  ASSUME nodes = <<EmptyLeaf>>, root = 1
  PROVE  Balanced
<1> DEFINE D == Seq(NodeIds) \ {<< >>}
           f == CHOOSE g : Listing(g)
           levels == f[<<1>>]
           leaves == Last(levels)
<1>1. NodeIds = {1} /\ nodes[1] = EmptyLeaf
  <2>1. Len(nodes) = 1 /\ nodes[1] = EmptyLeaf
    OBVIOUS
  <2>2. QED
    BY <2>1 DEF NodeIds
<1>2. EmptyLeaf.leaf /\ EmptyLeaf.next = NoLeaf /\ EmptyLeaf.prev = NoLeaf
  BY DEF EmptyLeaf
<1>3. \A ids \in D : nodes[Head(ids)].leaf /\ <<ids>> \o << >> = <<ids>>
  <2>1. \A ids \in D : Head(ids) \in NodeIds /\ <<ids>> \o << >> = <<ids>>
    OBVIOUS
  <2>2. QED
    BY <2>1, <1>1, <1>2
<1>4. \A F : \A ids \in D : LevelStep(F, ids) = <<ids>>
  BY <1>3 DEF LevelStep
<1>5. Listing([ids \in D |-> <<ids>>])
  BY <1>4 DEF Listing
<1>6. Levels = levels
  BY DEF Levels, Listing, LevelStep
<1>7. Listing(f)
  BY <1>5
<1>8. <<1>> \in D
  BY <1>1
<1> HIDE DEF f
<1>9. levels = <<<<1>>>>
  BY <1>4, <1>7, <1>8 DEF Listing
<1>10. leaves = <<1>> /\ ToSet(levels) = {<<1>>} /\ ToSet(<<1>>) = {1} /\ DOMAIN leaves = {1} /\ leaves[1] = 1
  BY <1>9 DEF Last, ToSet, Range
<1> HIDE DEF levels, leaves
<1>11. 1 + 1 \notin DOMAIN leaves /\ 1 - 1 \notin DOMAIN leaves
  BY <1>10
<1>12. QED
  BY <1>1, <1>2, <1>6, <1>10, <1>11 DEF Balanced, leaves

-----------------------------------------------------------------------------
(* The spans and levels of the tree as it is.                              *)

\* The path to a key has the node of each level whose span has the key.
LEMMA SpansAre ==
  ASSUME NEW span, NEW level, GoodTree(span, level)
  PROVE  SpanOf = span
<1> DEFINE P(key) == PathTo(key)
<1>1. /\ span \in [NodeIds -> SUBSET Keys] /\ level \in [NodeIds -> Nat] /\ NodeIds = 1..Len(nodes)
      /\ root \in NodeIds /\ Topped(span, level, root) /\ Shape(nodes, span, span, level)
  BY GoodTreeFacts
<1>2. Apart(span, level) /\ DOMAIN span = NodeIds
  BY <1>1 DEF Shape
<1>3. \A key \in Keys : Leads(P(key), root, key, span, level)
  BY PathFound
<1> HIDE DEF P
<1>4. ASSUME NEW key \in Keys, NEW id \in NodeIds PROVE id \in ToSet(P(key)) <=> key \in span[id]
  <2> DEFINE p == P(key)
  <2>1. /\ p \in Seq(1..Len(nodes)) /\ Len(p) = level[root] + 1
        /\ \A d \in 1..Len(p) : key \in span[p[d]] /\ level[p[d]] = Len(p) - d
    BY <1>3 DEF Leads
  <2> HIDE DEF p
  <2>2. DOMAIN p = 1..Len(p) /\ \A d \in 1..Len(p) : p[d] \in NodeIds
    BY <2>1, <1>1, SeqFacts
  <2>3. ASSUME id \in ToSet(p) PROVE key \in span[id]
    <3>1. PICK d \in 1..Len(p) : id = p[d]
      BY <2>2, <2>3 DEF ToSet
    <3>2. QED
      BY <3>1, <2>1
  <2>4. ASSUME key \in span[id] PROVE id \in ToSet(p)
    <3> DEFINE d == level[root] + 1 - level[id]
    <3>1. level[id] <= level[root] /\ level[id] \in Nat /\ level[root] \in Nat
      BY <2>4, <1>1, <1>2 DEF Topped
    <3>2. PICK e : e = d
      OBVIOUS
    <3>a. e = level[root] + 1 - level[id]
      BY <3>2
    <3> HIDE DEF d
    <3>b. e \in 1..Len(p) /\ Len(p) - e = level[id]
      <4>1. Len(p) = level[root] + 1
        BY <2>1
      <4>2. PICK a, b : a = level[root] /\ b = level[id]
        OBVIOUS
      <4>3. a \in Nat /\ b \in Nat /\ b <= a
        BY <4>2, <3>1
      <4>4. e = a + 1 - b /\ Len(p) = a + 1 /\ b = level[id]
        BY <4>1, <4>2, <3>a
      <4>5. a + 1 - b \in 1..(a + 1) /\ a + 1 - (a + 1 - b) = b
        BY <4>3
      <4>6. e = a + 1 - b
        BY <4>4
      <4>7. e \in Int
        BY <4>3, <4>6
      <4>8. e \in 1..(a + 1) /\ (a + 1) - e = b
        BY <4>3, <4>6, <4>7
      <4>9. QED
        BY <4>4, <4>8
    <3>c. d \in 1..Len(p) /\ Len(p) - d = level[id]
      BY <3>b, <3>2
    <3>3. key \in span[p[d]] /\ level[p[d]] = level[id] /\ p[d] \in NodeIds
      BY <3>c, <2>1, <2>2
    <3>4. p[d] = id
      BY <3>3, <2>4, <1>2 DEF Apart
    <3>5. QED
      BY <3>c, <3>4, <2>2 DEF ToSet
  <2>5. QED
    BY <2>3, <2>4 DEF p
<1>5. SpanOf = [id \in NodeIds |-> {key \in Keys : id \in ToSet(P(key))}]
  BY DEF SpanOf, P
<1>6. \A id \in NodeIds : {key \in Keys : id \in ToSet(P(key))} = span[id]
  BY <1>1, <1>4
<1>7. span = [id \in NodeIds |-> span[id]]
  BY <1>1
<1>8. QED
  BY <1>5, <1>6, <1>7

\* The greatest of the values of the elements of a sequence.
Greatest(F, s, m) ==
  /\ m \in Nat
  /\ \A i \in 1..Len(s) : F[s[i]] <= m
  /\ \E i \in 1..Len(s) : F[s[i]] = m

LEMMA GreatestIs ==
  ASSUME NEW S, NEW s \in Seq(S), Len(s) >= 1, NEW F \in [S -> Nat], NEW V, V = {F[x] : x \in ToSet(s)}
  PROVE  Greatest(F, s, Max(V))
<1> DEFINE n == Len(s)
           Tops(m, x) == (\E i \in 1..m : F[s[i]] = x) /\ \A i \in 1..m : F[s[i]] <= x
           T == {m \in Nat : m + 1 <= n => \E x \in Nat : Tops(m + 1, x)}
<1>1. n \in Nat /\ DOMAIN s = 1..n /\ \A i \in 1..n : s[i] \in S /\ F[s[i]] \in Nat
  BY SeqFacts
<1>2. 0 \in T
  <2>1. 1 \in 1..n /\ \A i \in 1..(0 + 1) : i = 1
    BY <1>1
  <2>2. Tops(0 + 1, F[s[1]])
    <3>1. F[s[1]] \in Nat /\ F[s[1]] <= F[s[1]]
      BY <2>1, <1>1
    <3>2. QED
      BY <2>1, <3>1
  <2>3. QED
    BY <2>1, <2>2, <1>1
<1>3. ASSUME NEW m \in Nat, m \in T PROVE m + 1 \in T
  <2>1. SUFFICES ASSUME (m + 1) + 1 <= n PROVE \E x \in Nat : Tops((m + 1) + 1, x)
    OBVIOUS
  <2> DEFINE k == m + 1
  <2>2. k \in Nat /\ k + 1 \in 1..n /\ k <= n /\ \A i \in 1..(k + 1) : i \in 1..k \/ i = k + 1
    BY <2>1, <1>1
  <2>3. PICK x \in Nat : Tops(k, x)
    BY <2>2, <1>3
  <2> DEFINE y == F[s[k + 1]]
  <2>4. y \in Nat /\ k + 1 \in 1..(k + 1) /\ \A i \in 1..k : i \in 1..(k + 1) /\ i \in 1..n
    BY <2>2, <1>1
  <2> HIDE DEF k
  <2>5. CASE y <= x
    <3>1. Tops(k + 1, x)
      BY <2>2, <2>3, <2>4, <2>5
    <3>2. QED
      BY <3>1 DEF k
  <2>6. CASE x <= y
    <3>1. \A i \in 1..k : F[s[i]] <= y
      BY <2>3, <2>4, <2>6, <1>1
    <3>2. y <= y
      BY <2>4
    <3>3. Tops(k + 1, y)
      BY <2>2, <2>4, <3>1, <3>2
    <3>4. QED
      BY <3>3, <2>4 DEF k
  <2>7. QED
    BY <2>4, <2>5, <2>6
<1> HIDE DEF T
<1>4. \A m \in Nat : m \in T
  BY <1>2, <1>3, SetInduction
<1>5. PICK x \in Nat : Tops(n, x)
  <2>1. n - 1 \in Nat /\ (n - 1) + 1 = n /\ n <= n
    BY <1>1
  <2>2. n - 1 \in T
    BY <2>1, <1>4
  <2> HIDE DEF Tops
  <2>3. QED
    BY <2>1, <2>2 DEF T
<1>6. \A y : y \in V <=> \E i \in 1..n : F[s[i]] = y
  BY <1>1 DEF ToSet
<1> HIDE DEF n
<1>7. x \in V /\ \A y \in V : x >= y
  BY <1>5, <1>6
<1>8. Max(V) \in V /\ \A y \in V : Max(V) >= y
  BY <1>7 DEF Max
<1>9. Max(V) \in Nat /\ \A i \in 1..n : F[s[i]] \in V
  <2>1. PICK i \in 1..n : F[s[i]] = Max(V)
    BY <1>6, <1>8
  <2>2. Max(V) \in Nat
    BY <2>1, <1>1
  <2>3. QED
    BY <2>2, <1>6
<1>10. QED
  BY <1>1, <1>6, <1>8, <1>9 DEF n, Greatest

RaisedTo(f, id) ==
  IF nodes[id].leaf THEN 0 ELSE Max({f[kid] : kid \in ToSet(nodes[id].kids)}) + 1

Raised(f) == f = [id \in NodeIds |-> RaisedTo(f, id)]

LEMMA RaisedExists ==
  ASSUME NEW span, NEW level, GoodTree(span, level)
  PROVE  \E f \in [NodeIds -> Nat] : Raised(f)
<1> DEFINE D == NodeIds
           S == [D -> Nat]
           step == [F \in S |-> [id \in D |-> RaisedTo(F, id)]]
<1>1. /\ Shape(nodes, span, span, level) /\ D = 1..Len(nodes) /\ level \in [D -> Nat]
  BY GoodTreeFacts
<1>2. \A id \in D : ~nodes[id].leaf =>
        /\ nodes[id].kids \in Seq(D) /\ Len(nodes[id].kids) >= 1
        /\ \A kid \in ToSet(nodes[id].kids) : kid \in D /\ level[kid] < level[id]
  <2>1. SUFFICES ASSUME NEW id \in D, ~nodes[id].leaf
                 PROVE  /\ nodes[id].kids \in Seq(D) /\ Len(nodes[id].kids) >= 1
                        /\ \A kid \in ToSet(nodes[id].kids) : kid \in D /\ level[kid] < level[id]
    OBVIOUS
  <2>2. ForkFits(nodes[id], span[id], level[id], span, level) /\ nodes[id].kids \in Seq(D) /\ Len(nodes[id].keys) \in Nat
    BY <2>1, <1>1, ShapeFacts
  <2>3. Len(nodes[id].kids) >= 1 /\ \A j \in 1..Len(nodes[id].kids) : level[nodes[id].kids[j]] < level[id]
    BY <2>2 DEF ForkFits
  <2>4. DOMAIN nodes[id].kids = 1..Len(nodes[id].kids) /\ \A j \in 1..Len(nodes[id].kids) : nodes[id].kids[j] \in D
    BY <2>2, SeqFacts
  <2>5. QED
    BY <2>2, <2>3, <2>4 DEF ToSet
<1> HIDE DEF D
<1>3. \A F \in S, id \in D : RaisedTo(F, id) \in Nat
  <2>1. TAKE F \in S, id \in D
  <2>2. CASE nodes[id].leaf
    BY <2>2 DEF RaisedTo
  <2>3. CASE ~nodes[id].leaf
    <3> DEFINE V == {F[kid] : kid \in ToSet(nodes[id].kids)}
    <3> DEFINE s == nodes[id].kids
    <3>a. s \in Seq(D) /\ Len(s) >= 1 /\ V = {F[x] : x \in ToSet(s)} /\ F \in [D -> Nat]
      BY <2>3, <1>2
    <3> HIDE DEF V, s, S
    <3>1. Max(V) \in Nat
      BY <3>a, GreatestIs DEF Greatest
    <3>2. Max(V) + 1 \in Nat
      BY <3>1
    <3>3. QED
      BY <3>2, <2>3 DEF RaisedTo, V
  <2>4. QED
    BY <2>2, <2>3
<1>4. ASSUME NEW F \in S, NEW G \in S, NEW id \in D, \A e \in D : level[e] < level[id] => F[e] = G[e]
      PROVE  RaisedTo(F, id) = RaisedTo(G, id)
  <2>1. ~nodes[id].leaf => \A kid \in ToSet(nodes[id].kids) : F[kid] = G[kid]
    BY <1>2, <1>4
  <2>2. ~nodes[id].leaf => {F[kid] : kid \in ToSet(nodes[id].kids)} = {G[kid] : kid \in ToSet(nodes[id].kids)}
    BY <2>1
  <2>3. QED
    BY <2>2 DEF RaisedTo
<1>5. \A F \in S : /\ [id \in D |-> RaisedTo(F, id)] \in S
                   /\ step[F] = [id \in D |-> RaisedTo(F, id)]
  BY <1>3
<1>6. step \in [S -> S]
  BY <1>5
<1>7. \A F \in S, id \in D : step[F][id] = RaisedTo(F, id)
  BY <1>5
<1> HIDE DEF step
<1>8. Ranked(D, Nat, level, step)
  <2>1. level \in [D -> Nat] /\ Nat # {}
    BY <1>1
  <2>2. QED
    BY <2>1, <1>4, <1>6, <1>7 DEF Ranked
<1>9. PICK f \in S : f = step[f]
  BY <1>8, RankedRecursion
<1>10. f = [id \in D |-> RaisedTo(f, id)]
  BY <1>5, <1>9
<1>11. QED
  BY <1>10 DEF Raised, D

\* The levels are those of the nodes that a search may come to, and any
\* other node too is above its children.
LEMMA LevelsAre ==
  ASSUME NEW span, NEW level, GoodTree(span, level)
  PROVE  /\ LevelOf \in [NodeIds -> Nat]
         /\ \A id \in NodeIds : /\ span[id] # {} => LevelOf[id] = level[id]
                                /\ ~nodes[id].leaf => \A j \in 1..Len(nodes[id].kids) :
                                                        LevelOf[nodes[id].kids[j]] < LevelOf[id]
<1> DEFINE f == LevelOf
<1>1. LevelOf = CHOOSE g : Raised(g)
  BY DEF LevelOf, Raised, RaisedTo
<1>2. Raised(f)
  BY <1>1, RaisedExists
<1> HIDE DEF f
<1>3. \A id \in NodeIds : f[id] = RaisedTo(f, id)
  BY <1>2 DEF Raised
<1>4. /\ Shape(nodes, span, span, level) /\ NodeIds = 1..Len(nodes) /\ level \in [NodeIds -> Nat]
  BY GoodTreeFacts
<1>5. \A id \in NodeIds : ~nodes[id].leaf =>
        /\ ForkFits(nodes[id], span[id], level[id], span, level)
        /\ nodes[id].kids \in Seq(NodeIds) /\ Len(nodes[id].kids) >= 1
        /\ \A j \in 1..Len(nodes[id].kids) : nodes[id].kids[j] \in NodeIds
  <2>1. SUFFICES ASSUME NEW id \in NodeIds, ~nodes[id].leaf
                 PROVE  /\ ForkFits(nodes[id], span[id], level[id], span, level)
                        /\ nodes[id].kids \in Seq(NodeIds) /\ Len(nodes[id].kids) >= 1
                        /\ \A j \in 1..Len(nodes[id].kids) : nodes[id].kids[j] \in NodeIds
    OBVIOUS
  <2>2. ForkFits(nodes[id], span[id], level[id], span, level) /\ nodes[id].kids \in Seq(NodeIds) /\ Len(nodes[id].keys) \in Nat
    BY <2>1, <1>4, ShapeFacts
  <2>3. Len(nodes[id].kids) >= 1
    BY <2>2 DEF ForkFits
  <2>4. QED
    BY <2>2, <2>3, SeqFacts
<1>6. f \in [NodeIds -> Nat]
  <2>1. PICK g \in [NodeIds -> Nat] : Raised(g)
    BY RaisedExists
  <2> DEFINE T == {h \in Nat : \A id \in NodeIds : level[id] < h => f[id] = g[id]}
  <2>2. 0 \in T
    BY <1>4
  <2>3. ASSUME NEW h \in Nat, h \in T PROVE h + 1 \in T
    <3>1. SUFFICES ASSUME NEW id \in NodeIds, level[id] < h + 1 PROVE f[id] = g[id]
      OBVIOUS
    <3>2. f[id] = RaisedTo(f, id) /\ g[id] = RaisedTo(g, id)
      BY <2>1, <1>3 DEF Raised
    <3>3. ASSUME ~nodes[id].leaf, NEW kid \in ToSet(nodes[id].kids) PROVE f[kid] = g[kid]
      <4>1. DOMAIN nodes[id].kids = 1..Len(nodes[id].kids)
        BY <3>3, <1>5, SeqFacts
      <4>2. PICK j \in 1..Len(nodes[id].kids) : kid = nodes[id].kids[j]
        BY <3>3, <4>1 DEF ToSet
      <4>3. level[kid] < level[id] /\ kid \in NodeIds
        BY <3>3, <4>2, <1>5 DEF ForkFits
      <4>4. level[kid] < h
        BY <3>1, <4>3, <1>4
      <4>5. QED
        BY <4>3, <4>4, <2>3
    <3>4. ~nodes[id].leaf => {f[kid] : kid \in ToSet(nodes[id].kids)} = {g[kid] : kid \in ToSet(nodes[id].kids)}
      BY <3>3
    <3>5. QED
      BY <3>2, <3>4 DEF RaisedTo
  <2> HIDE DEF T
  <2>4. \A h \in Nat : h \in T
    BY <2>2, <2>3, SetInduction
  <2>5. \A id \in NodeIds : f[id] = g[id]
    <3>1. TAKE id \in NodeIds
    <3>2. level[id] + 1 \in Nat /\ level[id] < level[id] + 1
      BY <1>4
    <3>3. QED
      BY <3>2, <2>4 DEF T
  <2>6. f = [id \in NodeIds |-> RaisedTo(f, id)] /\ g = [id \in NodeIds |-> RaisedTo(g, id)]
    BY <2>1, <1>2 DEF Raised
  <2>7. f = [id \in NodeIds |-> f[id]]
    BY <2>6
  <2>8. QED
    BY <2>1, <2>5, <2>7
<1>7. \A id \in NodeIds : ~nodes[id].leaf =>
        /\ \A j \in 1..Len(nodes[id].kids) : f[nodes[id].kids[j]] + 1 <= f[id]
        /\ \E j \in 1..Len(nodes[id].kids) : f[nodes[id].kids[j]] + 1 = f[id]
  <2>1. SUFFICES ASSUME NEW id \in NodeIds, ~nodes[id].leaf
                 PROVE  /\ \A j \in 1..Len(nodes[id].kids) : f[nodes[id].kids[j]] + 1 <= f[id]
                        /\ \E j \in 1..Len(nodes[id].kids) : f[nodes[id].kids[j]] + 1 = f[id]
    OBVIOUS
  <2> DEFINE V == {f[kid] : kid \in ToSet(nodes[id].kids)}
  <2>2. f[id] = Max(V) + 1
    BY <2>1, <1>3 DEF RaisedTo
  <2> DEFINE s == nodes[id].kids
  <2>a. s \in Seq(NodeIds) /\ Len(s) >= 1 /\ V = {f[x] : x \in ToSet(s)}
    BY <2>1, <1>5
  <2> HIDE DEF V, s
  <2>b. /\ Max(V) \in Nat
        /\ \A i \in 1..Len(s) : f[s[i]] <= Max(V)
        /\ \E i \in 1..Len(s) : f[s[i]] = Max(V)
    <3>1. Greatest(f, s, Max(V))
      BY <2>a, <1>6, GreatestIs
    <3>2. QED
      BY <3>1 DEF Greatest
  <2>3. /\ Max(V) \in Nat
        /\ \A i \in 1..Len(nodes[id].kids) : f[nodes[id].kids[i]] <= Max(V)
        /\ \E i \in 1..Len(nodes[id].kids) : f[nodes[id].kids[i]] = Max(V)
    BY <2>b DEF s
  <2>4. \A i \in 1..Len(nodes[id].kids) : f[nodes[id].kids[i]] \in Nat
    BY <2>1, <1>5, <1>6
  <2>5. QED
    BY <2>2, <2>3, <2>4
<1> DEFINE T == {h \in Nat : \A id \in NodeIds : span[id] # {} /\ level[id] = h => f[id] = h}
<1>8. 0 \in T
  <2>1. SUFFICES ASSUME NEW id \in NodeIds, span[id] # {}, level[id] = 0 PROVE f[id] = 0
    OBVIOUS
  <2>2. nodes[id].leaf
    <3>1. SUFFICES ASSUME ~nodes[id].leaf PROVE FALSE
      OBVIOUS
    <3>2. 1 \in 1..Len(nodes[id].kids)
      BY <3>1, <1>5
    <3>3. level[nodes[id].kids[1]] < level[id] /\ nodes[id].kids[1] \in NodeIds
      BY <3>1, <3>2, <1>5 DEF ForkFits
    <3>4. QED
      BY <3>3, <2>1, <1>4
  <2>3. QED
    BY <2>2, <1>3 DEF RaisedTo
<1>9. ASSUME NEW h \in Nat, h \in T PROVE h + 1 \in T
  <2>1. SUFFICES ASSUME NEW id \in NodeIds, span[id] # {}, level[id] = h + 1 PROVE f[id] = h + 1
    OBVIOUS
  <2>2. ~nodes[id].leaf
    <3>1. nodes[id].leaf => (span[id] # {} => level[id] = 0)
      <4>1. id \in 1..Len(nodes) /\ Shape(nodes, span, span, level)
        BY <1>4
      <4>2. QED
        BY <4>1, ShapeFacts
    <3>2. level[id] # 0
      BY <2>1
    <3>3. QED
      BY <3>1, <3>2, <2>1
  <2>3. PICK j \in 1..Len(nodes[id].kids) : f[nodes[id].kids[j]] + 1 = f[id]
    BY <2>2, <1>7
  <2> DEFINE kid == nodes[id].kids[j]
  <2>4. kid \in NodeIds /\ level[kid] = level[id] - 1 /\ span[kid] # {}
    BY <2>1, <2>2, <1>5 DEF ForkFits
  <2>5. level[kid] = h
    BY <2>1, <2>4
  <2>6. f[kid] = h
    BY <2>4, <2>5, <1>9
  <2>7. QED
    BY <2>3, <2>6
<1> HIDE DEF T
<1>10. \A h \in Nat : h \in T
  BY <1>8, <1>9, SetInduction
<1>11. \A id \in NodeIds : span[id] # {} => f[id] = level[id]
  <2>1. TAKE id \in NodeIds
  <2>2. level[id] \in Nat
    BY <1>4
  <2>3. QED
    BY <2>2, <1>10 DEF T
<1>12. \A id \in NodeIds : ~nodes[id].leaf => \A j \in 1..Len(nodes[id].kids) : f[nodes[id].kids[j]] < f[id]
  <2>1. SUFFICES ASSUME NEW id \in NodeIds, ~nodes[id].leaf, NEW j \in 1..Len(nodes[id].kids)
                 PROVE  f[nodes[id].kids[j]] < f[id]
    OBVIOUS
  <2>2. f[id] \in Nat /\ f[nodes[id].kids[j]] \in Nat /\ f[nodes[id].kids[j]] + 1 <= f[id]
    BY <2>1, <1>5, <1>6, <1>7
  <2>3. QED
    BY <2>2
<1>13. QED
  BY <1>6, <1>11, <1>12 DEF f

\* The tree as it is keeps the invariant.
LEMMA KeptAsIs ==
  ASSUME TreeKept
  PROVE  TInv
<1>1. PICK span, level : GoodTree(span, level)
  BY DEF TreeKept
<1>2. SpanOf = span
  BY <1>1, SpansAre
<1> DEFINE f == LevelOf
<1>3. /\ f \in [NodeIds -> Nat]
      /\ \A id \in NodeIds : span[id] # {} => f[id] = level[id]
      /\ \A id \in NodeIds : ~nodes[id].leaf =>
           \A j \in 1..Len(nodes[id].kids) : f[nodes[id].kids[j]] < f[id]
  BY <1>1, LevelsAre
<1> HIDE DEF f
<1>4. /\ NodeIds = 1..Len(nodes) /\ Shape(nodes, span, span, level) /\ root \in NodeIds
      /\ span[root] = Keys /\ Topped(span, level, root) /\ DOMAIN span = NodeIds
      /\ Filled(nodes, span, root, 0) /\ Recorded(nodes)
  BY <1>1, GoodTreeFacts
<1>5. Topped(span, f, root)
  <2>1. SUFFICES ASSUME NEW id \in NodeIds, span[id] # {} PROVE f[id] <= f[root]
    BY <1>4 DEF Topped
  <2>2. span[root] # {}
    <3>1. span[id] \subseteq Keys
      BY <2>1, <1>4, ShapeFacts
    <3>2. QED
      BY <3>1, <2>1, <1>4
  <2>3. QED
    BY <2>1, <2>2, <1>3, <1>4 DEF Topped
<1>6. Apart(span, f)
  <2>1. SUFFICES ASSUME NEW a \in NodeIds, NEW b \in NodeIds, a # b, f[a] = f[b], NEW k, k \in span[a], k \in span[b]
                 PROVE  FALSE
    BY <1>4 DEF Apart
  <2>2. level[a] = level[b]
    BY <2>1, <1>3
  <2>3. Apart(span, level)
    BY <1>4 DEF Shape
  <2>4. QED
    BY <2>1, <2>2, <2>3, <1>4 DEF Apart
<1>7. ASSUME NEW id \in NodeIds PROVE NodeFits(nodes[id], span[id], f[id], span, f)
  <2>1. NodeFits(nodes[id], span[id], level[id], span, level)
    BY <1>4, ShapeFacts
  <2>2. CASE nodes[id].leaf
    BY <2>1, <2>2, <1>3 DEF NodeFits
  <2>3. CASE ~nodes[id].leaf
    <3>1. ForkFits(nodes[id], span[id], level[id], span, level) /\ nodes[id].kids \in Seq(NodeIds)
      BY <2>3, <1>4, ShapeFacts
    <3>2. \A j \in 1..Len(nodes[id].kids) : nodes[id].kids[j] \in NodeIds
      BY <3>1, SeqFacts
    <3>3. \A j \in 1..Len(nodes[id].kids) : f[nodes[id].kids[j]] < f[id]
      BY <2>3, <1>3
    <3>4. span[id] # {} => \A j \in 1..Len(nodes[id].kids) : f[nodes[id].kids[j]] = f[id] - 1
      <4>1. SUFFICES ASSUME span[id] # {}, NEW j \in 1..Len(nodes[id].kids)
                     PROVE  f[nodes[id].kids[j]] = f[id] - 1
        OBVIOUS
      <4>2. level[nodes[id].kids[j]] = level[id] - 1 /\ span[nodes[id].kids[j]] # {}
        BY <3>1, <4>1 DEF ForkFits
      <4>3. QED
        BY <3>2, <4>1, <4>2, <1>3
    <3>5. ForkFits(nodes[id], span[id], f[id], span, f)
      BY <3>1, <3>3, <3>4 DEF ForkFits
    <3>6. QED
      BY <3>5, <2>3 DEF NodeFits
  <2>4. QED
    BY <2>2, <2>3
<1>8. Shape(nodes, span, span, f)
  <2>1. Fits(nodes, span, span, f)
    BY <1>4, <1>7 DEF Fits
  <2>2. QED
    BY <2>1, <1>3, <1>4, <1>6 DEF Shape
<1>9. GoodTree(span, f)
  BY <1>4, <1>5, <1>8 DEF GoodTree
<1>10. QED
  BY <1>2, <1>9 DEF TInv, f

-----------------------------------------------------------------------------
(* The theorems.  A key has one row, and deletes keep to what the code     *)
(* rebalances well: no node is rebalanced after the delete of a key that is *)
(* the separator in front of it, and only leaves borrow from their right.   *)

TreeBounds == OneRowPerKey /\ ~AtSeparator /\ ~RightLends

LEMMA InitKeepsTree ==
  ASSUME TInit
  PROVE  TreeKept
<1> DEFINE span == [id \in 1..1 |-> Keys]
           level == [id \in 1..1 |-> 0]
<1>1. nodes = <<EmptyLeaf>> /\ root = 1 /\ stored = [k \in Keys |-> << >>]
  BY DEF TInit, EmptyIndex
<1>2. Len(nodes) = 1 /\ nodes[1] = EmptyLeaf /\ 1..Len(nodes) = {1} /\ 1..1 = {1}
  BY <1>1
<1>3. /\ EmptyLeaf \in Node(1) /\ EmptyLeaf.leaf /\ EmptyLeaf.kids = << >>
      /\ EmptyLeaf.keys = << >> /\ EmptyLeaf.locs = << >> /\ EmptyLeaf.next = NoLeaf
  BY EmptyLeafIs
<1>4. EmptyLeaf.prev = NoLeaf
  BY DEF EmptyLeaf
<1>5. span[1] = Keys /\ level[1] = 0
  OBVIOUS
<1>6. span \in [1..1 -> SUBSET Keys] /\ level \in [1..1 -> Nat]
  OBVIOUS
<1>7. nodes \in Seq(Node(1))
  <2>1. \A e \in Node(1) : <<e>> \in Seq(Node(1))
    OBVIOUS
  <2>2. QED
    BY <2>1, <1>1, <1>3
<1> HIDE DEF span, level
<1>8. NodeFits(nodes[1], span[1], level[1], span, level)
  BY <1>2, <1>3, <1>5 DEF NodeFits, LeafFits, Ascending, Within
<1>9. Fits(nodes, span, span, level) /\ Topped(span, level, root) /\ Apart(span, level)
  BY <1>1, <1>2, <1>5, <1>6, <1>8 DEF Fits, Topped, Apart
<1>10. Convex(Keys) /\ AtEnd(Keys)
  BY DEF Convex, AtEnd
<1>11. Linked(nodes, span)
  BY <1>2, <1>3, <1>4, <1>5, <1>10 DEF Linked, LinkFits
<1>12. Shape(nodes, span, span, level)
  BY <1>2, <1>5, <1>6, <1>7, <1>9, <1>10, <1>11 DEF Shape
<1>13. Filled(nodes, span, root, 0)
  <2>1. Count(nodes[1]) = 0 /\ LeafOrder >= 0
    BY <1>2, <1>3, TreeAssumption DEF Count
  <2>2. QED
    BY <2>1, <1>1, <1>2, <1>3 DEF Filled, NodeFilled
<1>14. Recorded(nodes)
  <2>1. Entries(nodes) = {}
    BY <1>2, <1>3 DEF Entries, EntriesOf
  <2>2. << >> \in Seq(Locs) /\ \A l : <<l>> # << >>
    <3>1. \A l : Len(<<l>>) = 1 /\ Len(<< >>) = 0
      OBVIOUS
    <3>2. QED
      BY <3>1
  <2>3. stored \in [Keys -> Seq(Locs)] /\ \A k \in Keys : stored[k] = << >>
    BY <2>2, <1>1
  <2>4. QED
    BY <2>1, <2>2, <2>3 DEF Recorded
<1>15. GoodTree(span, level)
  BY <1>1, <1>2, <1>5, <1>9, <1>12, <1>13, <1>14 DEF GoodTree
<1>16. QED
  BY <1>15 DEF TreeKept

LEMMA StepKeepsTree ==
  ASSUME TreeBounds, TreeKept, [TNext]_tvars
  PROVE  TreeKept'
<1>1. PICK span, level : GoodTree(span, level)
  BY DEF TreeKept
<1>2. ASSUME NEW row \in Rows, Insert(row.key, row.loc) PROVE TreeKept'
  BY <1>1, <1>2, InsertKeepsTree DEF TreeBounds
<1>3. ASSUME NEW key \in Keys, Delete(key) PROVE TreeKept'
  BY <1>1, <1>3, DeleteKeepsTree DEF TreeBounds
<1>4. CASE UNCHANGED tvars
  <2>1. nodes' = nodes /\ root' = root /\ stored' = stored
    BY <1>4 DEF tvars
  <2>2. Recorded(nodes)' <=> Recorded(nodes)
    BY <2>1 DEF Recorded
  <2>3. GoodTree(span, level)'
    BY <1>1, <2>1, <2>2 DEF GoodTree
  <2>4. QED
    BY <2>3 DEF TreeKept
<1>5. QED
  BY <1>2, <1>3, <1>4 DEF TNext

\* The tree is a search tree after every insert and delete, through every
\* split, borrow, merge and change of root: each node leads on to the spans
\* its keys cut, all leaves are as deep, the links run through them in key
\* order, all nodes but the root are at least half full and none too full,
\* and the leaves hold exactly the rows that are stored.
THEOREM TreeKeptThroughout ==
  ASSUME TreeBounds
  PROVE  TSpec => []TreeKept
<1>1. TInit => TreeKept
  BY InitKeepsTree
<1>2. TreeKept /\ [TNext]_tvars => TreeKept'
  BY StepKeepsTree
<1>3. QED
  BY <1>1, <1>2, PTL DEF TSpec

LEMMA KeptTypes ==
  ASSUME TreeKept
  PROVE  TTypeOK
<1>1. PICK span, level : GoodTree(span, level)
  BY DEF TreeKept
<1>2. /\ Shape(nodes, span, span, level) /\ Filled(nodes, span, root, 0) /\ root \in NodeIds
      /\ Len(nodes) \in Nat /\ NodeIds = 1..Len(nodes)
  BY <1>1, GoodTreeFacts
<1>3. nodes \in Seq(Node(Len(nodes)))
  BY <1>2 DEF Shape
<1>4. 0..Len(nodes) = {NoLeaf} \cup NodeIds
  BY <1>2 DEF NoLeaf
<1>5. Node(Len(nodes)) = [leaf : BOOLEAN, keys : Seq(Keys), locs : Seq(Locs), kids : Seq(NodeIds),
                          next : {NoLeaf} \cup NodeIds, prev : {NoLeaf} \cup NodeIds]
  BY <1>2, <1>4 DEF Node
<1>6. ASSUME NEW id \in NodeIds
      PROVE  IF nodes[id].leaf
             THEN Count(nodes[id]) = Len(nodes[id].locs) /\ Count(nodes[id]) <= LeafOrder
             ELSE Count(nodes[id]) = Len(nodes[id].kids) - 1 /\ Count(nodes[id]) <= InternalOrder
  <2>1. Count(nodes[id]) <= IF nodes[id].leaf THEN LeafOrder ELSE InternalOrder
    BY <1>2 DEF Filled, NodeFilled
  <2>2. Len(nodes[id].keys) \in Nat /\ nodes[id].leaf \in BOOLEAN
    BY <1>2, ShapeFacts
  <2>3. nodes[id].leaf => Len(nodes[id].locs) = Len(nodes[id].keys)
    BY <1>2, ShapeFacts DEF LeafFits
  <2>4. ~nodes[id].leaf => Len(nodes[id].kids) = Len(nodes[id].keys) + 1
    BY <1>2, ShapeFacts DEF ForkFits
  <2>5. QED
    BY <2>1, <2>2, <2>3, <2>4 DEF Count
<1>7. QED
  BY <1>2, <1>3, <1>5, <1>6 DEF TTypeOK

\* Type correctness: every node always fits its page, with as many locations
\* as keys in a leaf and a child on either side of every key elsewhere.
THEOREM TreeTypeCorrect ==
  ASSUME TreeBounds
  PROVE  TSpec => []TTypeOK
<1>1. TreeKept => TTypeOK
  BY KeptTypes
<1>2. TSpec => []TreeKept
  BY TreeKeptThroughout
<1>3. QED
  BY <1>1, <1>2, PTL

\* A point query on the tree always finds exactly the row that is stored
\* under the key: the tree is the index the executor takes it for.
THEOREM PointQueriesAlwaysExact ==
  ASSUME TreeBounds
  PROVE  TSpec => []PointQueriesExact
<1>1. TreeKept => PointQueriesExact
  <2>1. ASSUME NEW span, NEW level, GoodTree(span, level)
        PROVE  PointQueriesExact
    BY <2>1, PointQueryIs DEF PointQueriesExact
  <2>2. QED
    BY <2>1 DEF TreeKept
<1>2. TSpec => []TreeKept
  BY TreeKeptThroughout
<1>3. QED
  BY <1>1, <1>2, PTL
\* A range query always finds exactly the rows stored under the keys in the
\* range, in the order of the keys, whichever of its ends are open.
THEOREM RangeQueriesAlwaysExact ==
  ASSUME TreeBounds
  PROVE  TSpec => []RangeQueriesExact
<1>1. TreeKept => RangeQueriesExact
  <2>1. ASSUME NEW span, NEW level, GoodTree(span, level)
        PROVE  RangeQueriesExact
    <3>1. \A a, b \in Keys, startOpen, endOpen \in BOOLEAN :
            a <= b => RangeQuery(a, b, startOpen, endOpen)
                        = FlattenSeq(StoredInRange(a, b, startOpen, endOpen))
      BY <2>1, RangeQueryIs
    <3>2. QED
      BY <3>1 DEF RangeQueriesExact, StoredInRange, InRange
  <2>2. QED
    BY <2>1 DEF TreeKept
<1>2. TSpec => []TreeKept
  BY TreeKeptThroughout
<1>3. QED
  BY <1>1, <1>2, PTL

\* With no rows there is nothing to insert or delete.
LEMMA EmptyStays ==
  ASSUME Keys = {}, nodes = <<EmptyLeaf>> /\ root = 1, [TNext]_tvars
  PROVE  nodes' = <<EmptyLeaf>> /\ root' = 1
<1>1. Rows = {}
  <2>1. \A row \in Rows : row.key \in Keys
    BY DEF Keys
  <2>2. QED
    BY <2>1
<1>2. ~TNext
  BY <1>1 DEF TNext
<1>3. QED
  BY <1>2 DEF tvars

\* The tree is always balanced: all leaves are on one level, next and prev
\* run through exactly the leaves of the tree from left to right, and every
\* node but the root is at least half full, whatever was inserted, deleted,
\* split, borrowed and merged before.
THEOREM TreeAlwaysBalanced ==
  ASSUME TreeBounds
  PROVE  TSpec => []Balanced
<1> DEFINE Empty == Keys = {} => nodes = <<EmptyLeaf>> /\ root = 1
<1>1. TInit => Empty
  BY DEF TInit
<1>2. Empty /\ [TNext]_tvars => Empty'
  BY EmptyStays
<1>3. TreeKept /\ Empty => Balanced
  <2>1. SUFFICES ASSUME TreeKept, Empty PROVE Balanced
    OBVIOUS
  <2>2. CASE Keys = {}
    BY <2>1, <2>2, EmptyBalanced
  <2>3. CASE Keys # {}
    BY <2>1, <2>3, BalancedIs DEF TreeKept
  <2>4. QED
    BY <2>2, <2>3
<1>4. TSpec => []TreeKept
  BY TreeKeptThroughout
<1> HIDE DEF Empty
<1>5. QED
  BY <1>1, <1>2, <1>3, <1>4, PTL DEF TSpec

\* The inductive invariant holds of the tree as it is: each node has the
\* keys that a search leads through it, cut by its own keys among its
\* children, and stands one level above them.
THEOREM TreeInvariant ==
  ASSUME TreeBounds
  PROVE  TSpec => []TInv
<1>1. TreeKept => TInv
  BY KeptAsIs
<1>2. TSpec => []TreeKept
  BY TreeKeptThroughout
<1>3. QED
  BY <1>1, <1>2, PTL
=============================================================================
