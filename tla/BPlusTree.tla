------------------------------ MODULE BPlusTree ------------------------------
(***************************************************************************)
(* The B+ tree of an index, class BPlusTree over BPlusTreeNode, node by    *)
(* node, and the claim that it is the KeyIndex the executor takes it for.  *)
(* Nodes are the pages of the index file, in the order AllocatePage        *)
(* appended them.  The right node of a merge stays in the file, but        *)
(* nothing leads to it and it is never used again: its content is dropped. *)
(* Positions count from 1: child i of a node is left of its key i.         *)
(***************************************************************************)
EXTENDS KeyIndex, Integers, SequencesExt

CONSTANTS
  Rows,              \* the rows that may be indexed: key and location; two
                     \* with one key only in an index that is not unique
  LeafOrder,         \* entries that fit a leaf
  InternalOrder,     \* keys that fit an internal node
  MaxNodes,          \* bound: pages the file may grow to
  AtSeparator,       \* TRUE: a node may need rebalancing after the delete of
                     \* a key that is the separator in front of it
  RightLends         \* TRUE: an internal node may borrow from its right
                     \* neighbour

ASSUME TreeAssumption ==
  /\ \A row \in Rows : row.key \in Int
  /\ LeafOrder \in Nat /\ LeafOrder >= 2
  /\ InternalOrder \in Nat /\ InternalOrder >= 2
  /\ MaxNodes \in Nat \ {0}
  /\ AtSeparator \in BOOLEAN /\ RightLends \in BOOLEAN

VARIABLES
  nodes,     \* the nodes; the id of a node is its place
  root,      \* _rootPageId
  stored     \* history: the KeyIndex with the same inserts and deletes

tvars == <<nodes, root, stored>>

Keys == {row.key : row \in Rows}
Locs == {row.loc : row \in Rows}

NoLeaf == 0      \* -1 in a link
NodeIds == 1..Len(nodes)

\* A node: a leaf has a location for every key and links, an internal node
\* has one child more than keys.
EmptyLeaf == [leaf |-> TRUE, keys |-> << >>, locs |-> << >>,
              kids |-> << >>, next |-> NoLeaf, prev |-> NoLeaf]

Internal(keys, kids) ==
  [EmptyLeaf EXCEPT !.leaf = FALSE, !.keys = keys, !.kids = kids]

Count(node) == Len(node.keys)

\* Mutant of IsFull: one entry too many.
OverFull(node) == Count(node) > IF node.leaf THEN LeafOrder ELSE InternalOrder

IsFull(node) == Count(node) >= IF node.leaf THEN LeafOrder ELSE InternalOrder
MinKeys(node) == (IF node.leaf THEN LeafOrder ELSE InternalOrder) \div 2

\* FindKeyIndex: binary search for the first key that is not smaller.
FindKeyIndex(node, key) ==
  LET search[p \in (1..(Count(node) + 1)) \X (0..Count(node))] ==
        LET l   == p[1]
            r   == p[2]
            mid == (l + r) \div 2
        IN  IF l > r THEN l
            ELSE IF node.keys[mid] >= key THEN search[<<l, mid - 1>>]
            ELSE search[<<mid + 1, r>>]
  IN  search[<<1, Count(node)>>]

HasKeyAt(node, i, key) == i <= Count(node) /\ node.keys[i] = key

\* GetChildNodeForInternal: a key equal to a separator is right of it.
ChildFor(node, key) ==
  LET i == FindKeyIndex(node, key)
  IN  node.kids[IF HasKeyAt(node, i, key) THEN i + 1 ELSE i]

\* FindLeaf: the nodes from the root to the leaf a key belongs in.
PathTo(key) ==
  LET down[id \in NodeIds] ==
        IF nodes[id].leaf THEN <<id>>
        ELSE <<id>> \o down[ChildFor(nodes[id], key)]
  IN  down[root]

-----------------------------------------------------------------------------
(* Queries.                                                                *)

\* The entries from the lower bound of a key, along the chain of leaves, up
\* to the first one with a key to stop at, without those with a key to skip.
ReadFrom(key, stop, skip) ==
  LET leaf == Last(PathTo(key))
      walk[p \in (0..Len(nodes)) \X Nat] ==
        IF p[1] = NoLeaf THEN << >>
        ELSE LET n == nodes[p[1]]
                 i == p[2]
             IN  IF i > Count(n) THEN walk[<<n.next, 1>>]
                 ELSE IF n.keys[i] \in stop THEN << >>
                 ELSE IF n.keys[i] \in skip THEN walk[<<p[1], i + 1>>]
                 ELSE <<[key |-> n.keys[i], loc |-> n.locs[i]]>>
                        \o walk[<<p[1], i + 1>>]
  IN  walk[<<leaf, FindKeyIndex(nodes[leaf], key)>>]

\* PointQuery; the name is that of the specification in KeyIndex.
TreePointQuery(key) ==
  LET entries == ReadFrom(key, Keys \ {key}, {})
  IN  {entries[i].loc : i \in DOMAIN entries}

RangeQuery(start, end, startOpen, endOpen) ==
  LET past    == {k \in Keys : k > end \/ (endOpen /\ k = end)}
      entries == ReadFrom(start, past, IF startOpen THEN {start} ELSE {})
  IN  [i \in DOMAIN entries |-> entries[i].loc]

-----------------------------------------------------------------------------
(* Insert.  A split hands a key and the new right node to the level above. *)

NoSplit == [key |-> 0, id |-> 0]

\* InsertIntoLeaf: in front of its equals.
InsertIntoLeaf(node, key, loc) ==
  LET i == FindKeyIndex(node, key)
  IN  [node EXCEPT !.keys = InsertAt(@, i, key), !.locs = InsertAt(@, i, loc)]

\* SplitLeaf sorts the entries with the new one by key alone: std::sort may
\* leave it anywhere among its equals.
SortedWith(node, key, loc) ==
  LET entries == [i \in 1..Count(node) |->
                    [key |-> node.keys[i], loc |-> node.locs[i]]]
      first   == FindKeyIndex(node, key)
      places  == {i \in first..(Count(node) + 1) :
                    \A j \in first..(i - 1) : node.keys[j] = key}
  IN  {InsertAt(entries, i, [key |-> key, loc |-> loc]) : i \in places}

KeysOf(entries) == [i \in DOMAIN entries |-> entries[i].key]
LocsOf(entries) == [i \in DOMAIN entries |-> entries[i].loc]

\* Index of the first entry of the right half: total.size() / 2 from 0.
Mid(keys) == Len(keys) \div 2

WithEntries(node, entries) ==
  [node EXCEPT !.keys = KeysOf(entries), !.locs = LocsOf(entries)]

\* Mutant of LinkedBack: the leaf after a new or merged one is forgotten.
NotLinkedBack(node, prev) == node

LinkedBack(node, prev) == [node EXCEPT !.prev = prev]

\* Mutant of NewLeaf: the link of CreateLeaf is left as it is.
NewLeafAtEnd(entries, next, prev) ==
  [WithEntries(EmptyLeaf, entries) EXCEPT !.prev = prev]

NewLeaf(entries, next, prev) ==
  [WithEntries(EmptyLeaf, entries) EXCEPT !.next = next, !.prev = prev]

SplitLeaf(id, sorted) ==
  LET mid   == Mid(sorted)
      right == Len(nodes) + 1
      after == nodes[id].next
      left  == [WithEntries(nodes[id], SubSeq(sorted, 1, mid))
                  EXCEPT !.next = right]
  IN  [nodes |-> Append([i \in NodeIds |->
                           CASE i = id -> left
                             [] i = after -> LinkedBack(nodes[i], right)
                             [] OTHER -> nodes[i]],
                        NewLeaf(SubSeq(sorted, mid + 1, Len(sorted)),
                                after, id)),
       up |-> [key |-> sorted[mid + 1].key, id |-> right]]

\* InsertIntoInternal, or SplitInternal of a full node: the middle key moves
\* up and stays in neither half.
InsertIntoParent(id, t) ==
  IF t.up = NoSplit THEN t ELSE
  LET node == t.nodes[id]
      i    == FindKeyIndex(node, t.up.key)
      keys == InsertAt(node.keys, i, t.up.key)
      kids == InsertAt(node.kids, i + 1, t.up.id)
      mid  == Mid(keys)
  IN  IF ~IsFull(node)
      THEN [nodes |-> [t.nodes EXCEPT ![id] = Internal(keys, kids)],
            up |-> NoSplit]
      ELSE [nodes |->
              Append([t.nodes EXCEPT ![id] =
                        Internal(SubSeq(keys, 1, mid),
                                 SubSeq(kids, 1, mid + 1))],
                     Internal(SubSeq(keys, mid + 2, Len(keys)),
                              SubSeq(kids, mid + 2, Len(kids)))),
            up |-> [key |-> keys[mid + 1], id |-> Len(t.nodes) + 1]]

\* Insert and InsertRec: what the leaf may become, what the levels above
\* make of it, and the new root if the old one was split.
InLeaf(id, key, loc) ==
  IF IsFull(nodes[id])
  THEN {SplitLeaf(id, sorted) : sorted \in SortedWith(nodes[id], key, loc)}
  ELSE {[nodes |-> [nodes EXCEPT ![id] = InsertIntoLeaf(@, key, loc)],
         up |-> NoSplit]}

NewRoot(t) ==
  IF t.up = NoSplit THEN [nodes |-> t.nodes, root |-> root]
  ELSE [nodes |-> Append(t.nodes,
                         Internal(<<t.up.key>>, <<root, t.up.id>>)),
        root |-> Len(t.nodes) + 1]

Insert(key, loc) ==
  /\ loc \notin PointQuery(stored, key)   \* a row is indexed once
  /\ \E t \in InLeaf(Last(PathTo(key)), key, loc) :
       LET path == PathTo(key)
           done[d \in 1..Len(path)] ==   \* levels d and below
             IF d = Len(path) THEN t ELSE InsertIntoParent(path[d], done[d + 1])
           tree == NewRoot(done[1])
       IN
       /\ Len(tree.nodes) <= MaxNodes
       /\ nodes' = tree.nodes /\ root' = tree.root
  /\ stored' = TreeInsert(stored, key, loc)

-----------------------------------------------------------------------------
(* Delete.  i is the place among the children of a node that DeleteRec     *)
(* takes the child for: the lower bound of the key.                        *)

DeleteFromLeaf(node, i) ==
  [node EXCEPT !.keys = RemoveAt(@, i), !.locs = RemoveAt(@, i)]

\* Mutant of NewSeparator: the parent keeps the old one.
OldSeparator(node, i, key) == node

NewSeparator(node, i, key) == [node EXCEPT !.keys[i] = key]

BorrowFromLeft(ns, parent, i, child, left) ==
  LET l == ns[left]
      c == ns[child]
      p == ns[parent]
      key == IF c.leaf THEN Last(l.keys) ELSE p.keys[i - 1]
  IN  [ns EXCEPT
         ![left] = [l EXCEPT !.keys = Front(@),
                             !.locs = IF c.leaf THEN Front(@) ELSE @,
                             !.kids = IF c.leaf THEN @ ELSE Front(@)],
         ![child] = [c EXCEPT !.keys = <<key>> \o @,
                              !.locs = IF c.leaf THEN <<Last(l.locs)>> \o @
                                                 ELSE @,
                              !.kids = IF c.leaf THEN @
                                       ELSE <<Last(l.kids)>> \o @],
         ![parent] = NewSeparator(p, i - 1, Last(l.keys))]

\* In both cases the new separator is the key that is then first on the
\* right: in an internal node, the key after the one that left.
BorrowFromRight(ns, parent, i, child, right) ==
  LET r == ns[right]
      c == ns[child]
      p == ns[parent]
      key == IF c.leaf THEN Head(r.keys) ELSE p.keys[i]
  IN  [ns EXCEPT
         ![right] = [r EXCEPT !.keys = Tail(@),
                              !.locs = IF c.leaf THEN Tail(@) ELSE @,
                              !.kids = IF c.leaf THEN @ ELSE Tail(@)],
         ![child] = [c EXCEPT !.keys = Append(@, key),
                              !.locs = IF c.leaf THEN Append(@, Head(r.locs))
                                                 ELSE @,
                              !.kids = IF c.leaf THEN @
                                       ELSE Append(@, Head(r.kids))],
         ![parent] = NewSeparator(p, i, r.keys[2])]

MergeChildren(ns, parent, i) ==
  LET p     == ns[parent]
      left  == p.kids[i]
      right == p.kids[i + 1]
      l     == ns[left]
      r     == ns[right]
      sep   == IF l.leaf THEN << >> ELSE <<p.keys[i]>>
  IN  [id \in DOMAIN ns |->
         CASE id = left -> [l EXCEPT !.keys = @ \o sep \o r.keys,
                                     !.locs = @ \o r.locs,
                                     !.kids = @ \o r.kids,
                                     !.next = r.next]
           [] id = parent -> Internal(RemoveAt(p.keys, i),
                                      RemoveAt(p.kids, i + 1))
           [] id = right -> EmptyLeaf
           [] id = r.next -> LinkedBack(ns[id], left)
           [] OTHER -> ns[id]]

\* What DeleteRec does in a node on the way back up from its child.
Underflows(node) == Count(node) < MinKeys(node)

Lends(ns, parent, j, child) ==
  /\ j \in DOMAIN ns[parent].kids
  /\ Count(ns[ns[parent].kids[j]]) > MinKeys(ns[child])

BorrowsFromRight(ns, parent, i, child) ==
  /\ Underflows(ns[child])
  /\ ~Lends(ns, parent, i - 1, child) /\ Lends(ns, parent, i + 1, child)

Rebalanced(ns, parent, i, child) ==
  LET kids == ns[parent].kids IN
  IF ~Underflows(ns[child]) THEN ns
  ELSE IF Lends(ns, parent, i - 1, child)
  THEN BorrowFromLeft(ns, parent, i, child, kids[i - 1])
  ELSE IF BorrowsFromRight(ns, parent, i, child)
  THEN BorrowFromRight(ns, parent, i, child, kids[i + 1])
  ELSE MergeChildren(ns, parent, IF i > 1 THEN i - 1 ELSE i)

\* A Delete that does not find its key returns false and changes nothing.
\* place[d]: the place among the children of level d that DeleteRec takes
\* the child on the path for.
Delete(key) ==
  LET path  == PathTo(key)
      depth == Len(path)
      place == [d \in 1..depth |-> FindKeyIndex(nodes[path[d]], key)]
      HasKey(d) == HasKeyAt(nodes[path[d]], place[d], key)
      after[d \in 1..depth] ==   \* once levels d and below are done
        IF d = depth
        THEN [nodes EXCEPT ![path[d]] = DeleteFromLeaf(@, place[d])]
        ELSE Rebalanced(after[d + 1], path[d], place[d], path[d + 1])
      tree  == after[1]
  IN  /\ HasKey(depth)
      /\ \A d \in 1..(depth - 1) :
           /\ AtSeparator \/ ~HasKey(d)
                \/ ~Underflows(after[d + 1][path[d + 1]])
           /\ RightLends \/ d = depth - 1
                \/ ~BorrowsFromRight(after[d + 1], path[d], place[d],
                                     path[d + 1])
      /\ nodes' = tree
      /\ root' = IF ~tree[root].leaf /\ Count(tree[root]) = 0
                 THEN tree[root].kids[1] ELSE root
      /\ stored' = TreeDelete(stored, key)

-----------------------------------------------------------------------------
TInit == /\ nodes = <<EmptyLeaf>> /\ root = 1
         /\ stored = EmptyIndex(Keys)

TNext == \/ \E row \in Rows : Insert(row.key, row.loc)
         \/ \E key \in Keys : Delete(key)

TSpec == TInit /\ [][TNext]_tvars

-----------------------------------------------------------------------------
(* Properties.                                                             *)

\* Every node fits its page and has a child on either side of every key.
TTypeOK ==
  /\ root \in NodeIds
  /\ nodes \in Seq([leaf : BOOLEAN, keys : Seq(Keys), locs : Seq(Locs),
                    kids : Seq(NodeIds), next : {NoLeaf} \cup NodeIds,
                    prev : {NoLeaf} \cup NodeIds])
  /\ \A id \in NodeIds :
       LET n == nodes[id] IN
       IF n.leaf THEN Count(n) = Len(n.locs) /\ Count(n) <= LeafOrder
                 ELSE Count(n) = Len(n.kids) - 1 /\ Count(n) <= InternalOrder

\* The tree answers as the index the executor believes in: a point query
\* finds exactly the rows stored under the key, through every split, borrow
\* and merge, and a range query finds them in key order.
PointQueriesExact ==
  \A key \in Keys : TreePointQuery(key) = PointQuery(stored, key)

RangeQueriesExact ==
  \A a, b \in Keys, startOpen, endOpen \in BOOLEAN :
    a <= b => RangeQuery(a, b, startOpen, endOpen) =
      FlattenSeq([i \in 1..(b - a + 1) |->
                    LET k == a + i - 1 IN
                    IF k \in Keys /\ ~(startOpen /\ k = a) /\ ~(endOpen /\ k = b)
                    THEN stored[k] ELSE << >>])

\* The nodes under the root, level by level, left to right.
Below(ids) == FlattenSeq([i \in DOMAIN ids |-> nodes[ids[i]].kids])

Levels ==
  LET from[ids \in Seq(NodeIds) \ {<< >>}] ==
        <<ids>> \o IF nodes[Head(ids)].leaf THEN << >> ELSE from[Below(ids)]
  IN  from[<<root>>]

\* Every leaf is on one level, the links run through exactly the leaves of
\* the tree in order, and every node but the root is at least half full.
Balanced ==
  LET levels == Levels
      leaves == Last(levels)
      LeafAt(i) == IF i \in DOMAIN leaves THEN leaves[i] ELSE NoLeaf
  IN  /\ \A level \in ToSet(levels) : \A id \in ToSet(level) :
           /\ nodes[id].leaf <=> level = leaves
           /\ id = root \/ ~Underflows(nodes[id])
      /\ \A i \in DOMAIN leaves :
           /\ nodes[leaves[i]].next = LeafAt(i + 1)
           /\ nodes[leaves[i]].prev = LeafAt(i - 1)
=============================================================================
