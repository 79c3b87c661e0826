------------------------ MODULE BPlusTreeNodeProofs -------------------------
(***************************************************************************)
(* Proofs about one level of an Insert or a Delete: what a split, a key    *)
(* that comes in from below, a borrowed entry and a merge of neighbours    *)
(* make of a node and its level while the level above still goes by what   *)
(* the node was.                                                           *)
(***************************************************************************)
EXTENDS BPlusTreeLemmas

-----------------------------------------------------------------------------
(* A node is cut in two; the level above still goes by what it was.        *)

CutSpan(span, n, p, m) ==
  [a \in 1..(n + 1) |-> IF a = n + 1 THEN High(span[p], m)
                        ELSE IF a = p THEN Low(span[p], m) ELSE span[a]]

CutSeen(span, n, p, m) ==
  [a \in 1..(n + 1) |-> IF a = n + 1 THEN High(span[p], m) ELSE span[a]]

CutLevel(level, n, p) == [a \in 1..(n + 1) |-> IF a = n + 1 THEN level[p] ELSE level[a]]

AreCut(span2, seen2, level2, span, level, n, p, m) ==
  /\ span2 \in [1..(n + 1) -> SUBSET Keys] /\ level2 \in [1..(n + 1) -> Nat]
  /\ span2[p] = Low(span[p], m)
  /\ span2[n + 1] = High(span[p], m) /\ seen2[n + 1] = High(span[p], m)
  /\ level2[n + 1] = level[p]
  /\ SameBut(span2, span, (1..n) \ {p}) /\ SameBut(seen2, span, 1..n) /\ SameBut(level2, level, 1..n)

LEMMA CutIs ==
  ASSUME NEW n \in Nat, NEW span \in [1..n -> SUBSET Keys], NEW level \in [1..n -> Nat],
         NEW p \in 1..n, NEW m \in Int
  PROVE  AreCut(CutSpan(span, n, p, m), CutSeen(span, n, p, m), CutLevel(level, n, p),
                span, level, n, p, m)
<1>1. /\ n + 1 \in 1..(n + 1) /\ p \in 1..(n + 1) /\ p # n + 1
      /\ \A a \in 1..n : a \in 1..(n + 1) /\ a # n + 1
  OBVIOUS
<1>2. Low(span[p], m) \in SUBSET Keys /\ High(span[p], m) \in SUBSET Keys
  BY DEF Low, High
<1>3. \A a \in 1..(n + 1) : a \in 1..n \/ a = n + 1
  OBVIOUS
<1>4. CutLevel(level, n, p) \in [1..(n + 1) -> Nat]
  BY <1>1, <1>3 DEF CutLevel
<1>5. CutSpan(span, n, p, m) \in [1..(n + 1) -> SUBSET Keys]
  BY <1>1, <1>2, <1>3 DEF CutSpan
<1>6. QED
  BY <1>1, <1>4, <1>5 DEF CutSpan, CutSeen, CutLevel, SameBut, AreCut

LEMMA ShapeCut ==
  ASSUME NEW ns, NEW seen, NEW span, NEW level, Shape(ns, seen, span, level),
         NEW p \in 1..Len(ns), NEW m \in Int,
         NEW ns2, ns2 \in Seq(Node(Len(ns) + 1)), Len(ns2) = Len(ns) + 1,
         NEW C, SameBut(span, seen, (1..Len(ns)) \ C),
         \A a \in 1..Len(ns) : a # p => SameContent(ns2[a], ns[a]) /\ KidsOutside(ns[a], span[a], C),
         NEW seen2, seen2 = CutSeen(span, Len(ns), p, m),
         NEW span2, span2 = CutSpan(span, Len(ns), p, m),
         NEW level2, level2 = CutLevel(level, Len(ns), p),
         NodeFits(ns2[p], Low(span[p], m), level[p], seen2, level2),
         NodeFits(ns2[Len(ns) + 1], High(span[p], m), level[p], seen2, level2),
         Linked(ns2, span2)
  PROVE  Shape(ns2, seen2, span2, level2)
<1> DEFINE n == Len(ns)
<1>1. n \in Nat /\ span \in [1..n -> SUBSET Keys] /\ level \in [1..n -> Nat]
  BY ShapeFacts
<1>2. /\ span2 \in [1..(n + 1) -> SUBSET Keys] /\ level2 \in [1..(n + 1) -> Nat]
      /\ span2[p] = Low(span[p], m) /\ span2[n + 1] = High(span[p], m)
      /\ level2[n + 1] = level[p]
      /\ SameBut(span2, span, (1..n) \ {p}) /\ SameBut(seen2, span, 1..n) /\ SameBut(level2, level, 1..n)
  <2>1. AreCut(span2, seen2, level2, span, level, n, p, m)
    BY <1>1, CutIs
  <2>2. QED
    BY <2>1 DEF AreCut
<1>3. Apart(span, level) /\ (\A a \in 1..n : Convex(span[a]))
  BY DEF Shape
<1>4. /\ Low(span[p], m) \cup High(span[p], m) = span[p] /\ Low(span[p], m) \cap High(span[p], m) = {}
      /\ Convex(Low(span[p], m)) /\ Convex(High(span[p], m))
  BY <1>1, <1>3, HalvesAre
<1>5. \A a \in 1..(n + 1) : a \in {p, n + 1} \/ (a \in 1..n /\ a # p)
  BY <1>1
<1>6. level2[p] = level[p]
  BY <1>2 DEF SameBut
<1>7. Apart(span2, level2)
  <2>1. DOMAIN span = 1..n /\ DOMAIN span2 = 1..(n + 1) /\ {p} \in SUBSET DOMAIN span
    BY <1>1, <1>2
  <2>2. \A o \in {p} : level[o] = level[p]
    OBVIOUS
  <2>3. \A id \in DOMAIN span2 : id \notin {p, n + 1} =>
          id \in DOMAIN span /\ id \notin {p} /\ span2[id] = span[id] /\ level2[id] = level[id]
    BY <2>1, <1>2, <1>5 DEF SameBut
  <2>4. /\ span2[p] \cap span2[n + 1] = {}
        /\ span2[p] \cup span2[n + 1] \subseteq UNION {span[o] : o \in {p}}
    BY <1>2, <1>4
  <2>5. SharedOut(span2, level2, p, n + 1, span, level, {p}, level[p])
    BY <2>1, <2>2, <2>3, <2>4, <1>2, <1>6 DEF SharedOut
  <2>6. QED
    BY <2>5, <1>3, ApartStill
<1>8. ASSUME NEW a \in 1..Len(ns2)
      PROVE  IF a \in {p, n + 1} THEN Touched(a, ns2, seen2, span2, level2)
                                 ELSE Untouched(a, ns, span, ns2, span2, C)
  <2>1. CASE a = p
    BY <2>1, <1>2, <1>4, <1>6 DEF Touched
  <2>2. CASE a = n + 1
    BY <2>2, <1>2, <1>4 DEF Touched
  <2>3. CASE a \notin {p, n + 1}
    <3>1. a \in 1..n /\ a # p /\ a \in (1..n) \ {p}
      BY <2>3, <1>5
    <3>2. span2[a] = span[a]
      BY <3>1, <1>2 DEF SameBut
    <3>3. QED
      BY <3>1, <3>2, <2>3 DEF Untouched
  <2>4. QED
    BY <2>1, <2>2, <2>3
<1>9. SameBut(seen2, seen, (1..Len(ns)) \ C)
  BY <1>2 DEF SameBut
<1>10. QED
  BY <1>1, <1>2, <1>7, <1>8, <1>9, Reshape

-----------------------------------------------------------------------------
(* SplitLeaf.                                                              *)

\* The entries of a leaf as SplitLeaf sorts them.
SortedAs(sorted, q) ==
  /\ sorted \in Seq([key : Keys, loc : Locs]) /\ Len(sorted) = Len(q.keys)
  /\ \A i \in 1..Len(sorted) : sorted[i].key = q.keys[i] /\ sorted[i].loc = q.locs[i]

\* A key that is not there yet has one place.
LEMMA SortedIs ==
  ASSUME NEW m \in Nat, NEW n \in Node(m), n.leaf, NEW S \in SUBSET Keys, LeafFits(n, S),
         NEW key \in S, Absent(key, n.keys), NEW loc \in Locs,
         NEW sorted \in SortedWith(n, key, loc)
  PROVE  SortedAs(sorted, InsertIntoLeaf(n, key, loc))
<1> DEFINE R == [key : Keys, loc : Locs]
           entries == [i \in 1..Count(n) |-> [key |-> n.keys[i], loc |-> n.locs[i]]]
           first == FindKeyIndex(n, key)
           e == [key |-> key, loc |-> loc]
           q == InsertIntoLeaf(n, key, loc)
<1>1. /\ n.keys \in Seq(Keys) /\ n.keys \in Seq(Int) /\ n.locs \in Seq(Locs) /\ Len(n.keys) \in Nat
      /\ key \in Keys /\ key \in Int /\ Len(n.locs) = Len(n.keys)
  BY NodeFacts, KeysAreInts DEF LeafFits
<1>2. first \in 1..(Len(n.keys) + 1)
  BY <1>1, FindKeyIndexIs
<1>3. /\ entries \in [1..Len(n.keys) -> R]
      /\ \A i \in 1..Len(n.keys) : entries[i].key = n.keys[i] /\ entries[i].loc = n.locs[i]
  <2>1. \A i \in 1..Len(n.keys) : n.keys[i] \in Keys /\ n.locs[i] \in Locs
    BY <1>1, SeqFacts
  <2>2. QED
    BY <2>1 DEF Count
<1>4. e \in R /\ e.key = key /\ e.loc = loc
  BY <1>1
<1>5. PICK i \in first..(Len(n.keys) + 1) :
        /\ \A j \in first..(i - 1) : n.keys[j] = key
        /\ sorted = InsertAt(entries, i, e)
  BY DEF SortedWith, Count
<1> HIDE DEF entries, e, first, R
<1>6. entries \in Seq(R) /\ Len(entries) = Len(n.keys)
  BY <1>1, <1>3, FunctionIs
<1>7. i = first
  <2>1. ASSUME i # first PROVE FALSE
    <3>1. first \in first..(i - 1) /\ first \in 1..Len(n.keys)
      BY <2>1, <1>1, <1>2
    <3>2. QED
      BY <3>1, <1>5 DEF Absent
  <2>2. QED
    BY <2>1
<1>8. /\ sorted \in Seq(R) /\ Len(sorted) = Len(n.keys) + 1
      /\ Inserted(sorted, entries, first, e)
  BY <1>2, <1>4, <1>5, <1>6, <1>7, InsertAtIs
<1>9. q.keys = InsertAt(n.keys, first, key) /\ q.locs = InsertAt(n.locs, first, loc)
  BY DEF InsertIntoLeaf, first, Node
<1>10. /\ Inserted(q.keys, n.keys, first, key) /\ Len(q.keys) = Len(n.keys) + 1
       /\ Inserted(q.locs, n.locs, first, loc)
  <2>1. Len(InsertAt(n.keys, first, key)) = Len(n.keys) + 1 /\ Inserted(InsertAt(n.keys, first, key), n.keys, first, key)
    BY <1>1, <1>2, InsertAtIs
  <2>2. Inserted(InsertAt(n.locs, first, loc), n.locs, first, loc)
    BY <1>1, <1>2, InsertAtIs
  <2>3. QED
    BY <2>1, <2>2, <1>9
<1> HIDE DEF q
<1>11. ASSUME NEW k \in 1..(Len(n.keys) + 1) PROVE sorted[k].key = q.keys[k] /\ sorted[k].loc = q.locs[k]
  <2>1. /\ sorted[k] = IF k < first THEN entries[k] ELSE IF k = first THEN e ELSE entries[k - 1]
        /\ q.keys[k] = IF k < first THEN n.keys[k] ELSE IF k = first THEN key ELSE n.keys[k - 1]
        /\ q.locs[k] = IF k < first THEN n.locs[k] ELSE IF k = first THEN loc ELSE n.locs[k - 1]
    BY <1>1, <1>6, <1>8, <1>10 DEF Inserted
  <2>2. /\ k < first => k \in 1..Len(n.keys)
        /\ k > first => k - 1 \in 1..Len(n.keys)
    BY <1>1, <1>2
  <2>3. QED
    BY <2>1, <2>2, <1>2, <1>3, <1>4
<1>12. SortedAs(sorted, q)
  BY <1>8, <1>10, <1>11 DEF SortedAs, R
<1>13. QED
  BY <1>12 DEF q

HalfOf(part, q, a, c) ==
  /\ KeysOf(part) \in Seq(Keys) /\ Len(KeysOf(part)) = c
  /\ LocsOf(part) \in Seq(Locs) /\ Len(LocsOf(part)) = c
  /\ \A i \in 1..c : KeysOf(part)[i] = q.keys[a + i - 1] /\ LocsOf(part)[i] = q.locs[a + i - 1]

LEMMA HalfIs ==
  ASSUME NEW sorted, NEW q, SortedAs(sorted, q),
         NEW a \in 1..(Len(sorted) + 1), NEW b \in (a - 1)..Len(sorted)
  PROVE  HalfOf(SubSeq(sorted, a, b), q, a, b - a + 1)
<1> DEFINE R == [key : Keys, loc : Locs]
           part == SubSeq(sorted, a, b)
           c == b - a + 1
<1>1. sorted \in Seq(R) /\ Len(sorted) \in Nat
  BY SeqFacts DEF SortedAs
<1> HIDE DEF R
<1>2. part \in Seq(R) /\ Len(part) = c /\ \A i \in 1..c : part[i] = sorted[a + i - 1]
  BY <1>1, SubSeqIs
<1>3. c \in Nat /\ \A i \in 1..c : a + i - 1 \in 1..Len(sorted)
  BY <1>1
<1> HIDE DEF part, c
<1>4. DOMAIN part = 1..c /\ \A i \in 1..c : part[i] \in R
  BY <1>2, SeqFacts
<1>5. \A i \in 1..c : part[i].key \in Keys /\ part[i].loc \in Locs
  BY <1>4 DEF R
<1>6. /\ KeysOf(part) \in [1..c -> Keys] /\ \A i \in 1..c : KeysOf(part)[i] = part[i].key
      /\ LocsOf(part) \in [1..c -> Locs] /\ \A i \in 1..c : LocsOf(part)[i] = part[i].loc
  BY <1>4, <1>5 DEF KeysOf, LocsOf
<1>7. /\ KeysOf(part) \in Seq(Keys) /\ Len(KeysOf(part)) = c
      /\ LocsOf(part) \in Seq(Locs) /\ Len(LocsOf(part)) = c
  BY <1>3, <1>6, FunctionIs
<1>8. ASSUME NEW i \in 1..c
      PROVE  KeysOf(part)[i] = q.keys[a + i - 1] /\ LocsOf(part)[i] = q.locs[a + i - 1]
  <2>1. a + i - 1 \in 1..Len(sorted)
    BY <1>3
  <2>2. sorted[a + i - 1].key = q.keys[a + i - 1] /\ sorted[a + i - 1].loc = q.locs[a + i - 1]
    BY <2>1 DEF SortedAs
  <2>3. QED
    BY <2>2, <1>2, <1>6
<1>9. HalfOf(part, q, a, c)
  BY <1>7, <1>8 DEF HalfOf
<1>10. QED
  BY <1>9 DEF part, c

LEMMA HalvesJoin ==
  ASSUME NEW K, NEW L, NEW c \in Nat, NEW d \in 0..c, Len(K) = c, Len(L) = c,
         NEW q, q.keys = K, q.locs = L,
         NEW x, HalfOf(x, q, 1, d), NEW y, HalfOf(y, q, d + 1, c - d)
  PROVE  Joined(K, KeysOf(x), KeysOf(y)) /\ Joined(L, LocsOf(x), LocsOf(y))
<1>1. \A i \in 1..d : 1 + i - 1 = i
  OBVIOUS
<1>2. \A i \in 1..(c - d) : d + 1 + i - 1 = d + i
  OBVIOUS
<1>3. /\ Len(KeysOf(x)) = d /\ Len(LocsOf(x)) = d /\ Len(KeysOf(y)) = c - d /\ Len(LocsOf(y)) = c - d
      /\ \A i \in 1..d : KeysOf(x)[i] = K[i] /\ LocsOf(x)[i] = L[i]
      /\ \A i \in 1..(c - d) : KeysOf(y)[i] = K[d + i] /\ LocsOf(y)[i] = L[d + i]
  BY <1>1, <1>2 DEF HalfOf
<1>4. c = d + (c - d)
  OBVIOUS
<1>5. Len(K) = Len(KeysOf(x)) + Len(KeysOf(y)) /\ Len(L) = Len(LocsOf(x)) + Len(LocsOf(y))
  BY <1>3, <1>4
<1>6. Joined(K, KeysOf(x), KeysOf(y))
  BY <1>3, <1>5 DEF Joined
<1>7. Joined(L, LocsOf(x), LocsOf(y))
  BY <1>3, <1>5 DEF Joined
<1>8. QED
  BY <1>6, <1>7

SameButPrev(q, n) == SameContent(q, n) /\ q.next = n.next

LEMMA LinkedBackIs ==
  ASSUME NEW m \in Nat, NEW n \in Node(m), NEW p \in 0..m
  PROVE  LinkedBack(n, p) \in Node(m) /\ LinkedBack(n, p).prev = p /\ SameButPrev(LinkedBack(n, p), n)
BY DEF LinkedBack, Node, SameButPrev, SameContent

LEMMA WithEntriesIs ==
  ASSUME NEW m \in Nat, NEW n \in Node(m), NEW x,
         KeysOf(x) \in Seq(Keys), LocsOf(x) \in Seq(Locs), NEW q, q = WithEntries(n, x)
  PROVE  /\ q \in Node(m) /\ q.keys = KeysOf(x) /\ q.locs = LocsOf(x)
         /\ q.leaf = n.leaf /\ q.kids = n.kids /\ q.next = n.next /\ q.prev = n.prev
BY DEF WithEntries, Node

LEMMA WithNextIs ==
  ASSUME NEW m \in Nat, NEW n \in Node(m), NEW p \in 0..m, NEW q, q = [n EXCEPT !.next = p]
  PROVE  q \in Node(m) /\ SameContent(q, n) /\ q.next = p /\ q.prev = n.prev
BY DEF Node, SameContent

LEMMA EmptyLeafIs ==
  ASSUME NEW m \in Nat
  PROVE  /\ EmptyLeaf \in Node(m) /\ EmptyLeaf.leaf /\ EmptyLeaf.kids = << >>
         /\ EmptyLeaf.keys = << >> /\ EmptyLeaf.locs = << >> /\ EmptyLeaf.next = NoLeaf
BY DEF EmptyLeaf, Node, NoLeaf

LEMMA NewLeafIs ==
  ASSUME NEW m \in Nat, NEW x, KeysOf(x) \in Seq(Keys), LocsOf(x) \in Seq(Locs),
         NEW next \in 0..m, NEW prev \in 0..m, NEW q, q = NewLeaf(x, next, prev)
  PROVE  /\ q \in Node(m) /\ q.keys = KeysOf(x) /\ q.locs = LocsOf(x)
         /\ q.leaf /\ q.kids = << >> /\ q.next = next /\ q.prev = prev
<1> DEFINE e == WithEntries(EmptyLeaf, x)
<1>1. /\ e \in Node(m) /\ e.keys = KeysOf(x) /\ e.locs = LocsOf(x)
      /\ e.leaf = EmptyLeaf.leaf /\ e.kids = EmptyLeaf.kids
  BY EmptyLeafIs, WithEntriesIs
<1>2. e.leaf /\ e.kids = << >>
  BY <1>1, EmptyLeafIs
<1>3. q = [e EXCEPT !.next = next, !.prev = prev]
  BY DEF NewLeaf
<1> HIDE DEF e
<1>4. QED
  BY <1>1, <1>2, <1>3 DEF Node

LEMMA SplitLeafOthers ==
  ASSUME NEW id, NEW sorted, NEW a \in 1..Len(nodes), a # id, a # nodes[id].next, Len(nodes) \in Nat
  PROVE  SplitLeaf(id, sorted).nodes[a] = nodes[a]
<1> DEFINE after == nodes[id].next
           new == Len(nodes) + 1
           left == [WithEntries(nodes[id], SubSeq(sorted, 1, Mid(sorted))) EXCEPT !.next = new]
           right == NewLeaf(SubSeq(sorted, Mid(sorted) + 1, Len(sorted)), after, id)
           f == [i \in NodeIds |-> CASE i = id -> left
                                     [] i = after -> LinkedBack(nodes[i], new)
                                     [] OTHER -> nodes[i]]
<1>1. SplitLeaf(id, sorted).nodes = Append(f, right)
  BY DEF SplitLeaf
<1> HIDE DEF left, right, after
<1>2. f[a] = nodes[a]
  BY DEF NodeIds, after
<1>3. DOMAIN f = 1..Len(nodes)
  BY DEF NodeIds
<1> HIDE DEF f
<1>4. QED
  BY <1>1, <1>2, <1>3

\* The two leaves that come of a full one.
WellSplit(t, q, id, span, m, new) ==
  /\ t.up.id = new /\ t.up # NoSplit /\ Len(t.nodes) = new /\ t.nodes \in Seq(Node(new))
  /\ m \in Int
  /\ LeafSplit(t.nodes, CutSpan(span, Len(nodes), id, m), nodes, span, id, m)
  /\ LeafFits(t.nodes[id], Low(span[id], m)) /\ LeafFits(t.nodes[new], High(span[id], m))
  /\ m \in High(span[id], m) /\ Low(span[id], m) # {}
  /\ \A a \in {id, new} : /\ Count(t.nodes[a]) <= LeafOrder
                          /\ Count(t.nodes[a]) >= LeafOrder \div 2
  /\ EntriesOf(q) = EntriesOf(t.nodes[id]) \cup EntriesOf(t.nodes[new])
  /\ \A a \in 1..Len(nodes) : a # id => SameContent(t.nodes[a], nodes[a])

LEMMA SplitLeafIs ==
  ASSUME NEW seen, NEW span, NEW level, Shape(nodes, seen, span, level),
         NEW id, LiveLeaf(nodes, span, id),
         NEW q, LeafFits(q, span[id]), q.keys \in Seq(Keys), q.locs \in Seq(Locs),
         Len(q.keys) = LeafOrder + 1,
         NEW sorted, SortedAs(sorted, q),
         NEW t, t = SplitLeaf(id, sorted), NEW m, m = t.up.key, NEW new, new = Len(nodes) + 1
  PROVE  WellSplit(t, q, id, span, m, new)
<1> DEFINE n == Len(nodes)
           c == Len(sorted)
           mid == c \div 2
           after == nodes[id].next
           ls == SubSeq(sorted, 1, mid)
           rs == SubSeq(sorted, mid + 1, c)
           left == [WithEntries(nodes[id], ls) EXCEPT !.next = new]
           right == NewLeaf(rs, after, id)
           back(x) == LinkedBack(x, new)
           S == span[id]
<1>1. /\ n \in Nat /\ span \in [1..n -> SUBSET Keys] /\ level \in [1..n -> Nat]
      /\ id \in 1..n /\ nodes[id].leaf /\ S # {} /\ S \in SUBSET Keys /\ S \in SUBSET Int
      /\ nodes[id] \in Node(n) /\ Linked(nodes, span)
  BY ShapeFacts DEF LiveLeaf, Shape
<1>2. c = LeafOrder + 1 /\ LeafOrder \in Nat /\ LeafOrder >= 2 /\ c \in Nat
  BY TreeAssumption DEF SortedAs
<1>3. /\ mid \in 1..(c - 1) /\ c - mid \in 1..(c - 1)
      /\ mid >= LeafOrder \div 2 /\ mid <= LeafOrder
      /\ c - mid >= LeafOrder \div 2 /\ c - mid <= LeafOrder
  BY <1>2
<1>4. new = n + 1 /\ new \in 1..new /\ id \in 1..new /\ id # new
  BY <1>1
<1>5. /\ after = NoLeaf \/ (after \in 1..n /\ nodes[after].leaf /\ after # id)
      /\ after \in 0..new
  <2>1. after # NoLeaf => LiveLeaf(nodes, span, after) /\ Adjacent(S, span[after])
    BY <1>1, LinksOf DEF LiveLeaf
  <2>2. after # id
    BY <2>1, <1>1, NotBeforeItself DEF NoLeaf
  <2>3. QED
    BY <2>1, <2>2, <1>1, <1>4 DEF LiveLeaf, NoLeaf
<1>6. /\ HalfOf(ls, q, 1, mid) /\ HalfOf(rs, q, mid + 1, c - mid)
  <2>1. HalfOf(ls, q, 1, mid - 1 + 1)
    BY <1>2, <1>3, HalfIs
  <2>2. HalfOf(rs, q, mid + 1, c - (mid + 1) + 1)
    BY <1>2, <1>3, HalfIs
  <2>3. mid - 1 + 1 = mid /\ c - (mid + 1) + 1 = c - mid
    BY <1>2, <1>3
  <2>4. QED
    BY <2>1, <2>2, <2>3
<1> DEFINE A == KeysOf(ls)
           B == KeysOf(rs)
           AL == LocsOf(ls)
           BL == LocsOf(rs)
<1>7. /\ A \in Seq(Keys) /\ Len(A) = mid /\ AL \in Seq(Locs) /\ Len(AL) = mid
      /\ B \in Seq(Keys) /\ Len(B) = c - mid /\ BL \in Seq(Locs) /\ Len(BL) = c - mid
      /\ A \in Seq(Int) /\ B \in Seq(Int) /\ q.keys \in Seq(Int)
  BY <1>6, KeysAreInts, SeqMonotonic DEF HalfOf
<1>8. Joined(q.keys, A, B) /\ Joined(q.locs, AL, BL) /\ B[1] = q.keys[mid + 1]
  <2>1. Len(q.keys) = c /\ Len(q.locs) = c
    BY <1>2 DEF LeafFits
  <2>2. Joined(q.keys, A, B) /\ Joined(q.locs, AL, BL)
    BY <2>1, <1>2, <1>3, <1>6, HalvesJoin, SMTT(20)
  <2>3. 1 \in 1..(c - mid)
    BY <1>3
  <2>4. QED
    BY <2>2, <2>3, <1>7 DEF Joined
<1> HIDE DEF ls, rs
<1>9. /\ t.up.key = sorted[mid + 1].key /\ t.up.id = new
      /\ t.nodes = Append([i \in NodeIds |-> CASE i = id -> left
                                               [] i = after -> back(nodes[i])
                                               [] OTHER -> nodes[i]], right)
  BY DEF SplitLeaf, Mid, ls, rs
<1>10. m = B[1]
  <2>1. mid + 1 \in 1..c
    BY <1>2, <1>3
  <2>2. QED
    BY <2>1, <1>8, <1>9 DEF SortedAs
<1>11. /\ left \in Node(new) /\ left.leaf /\ left.keys = A /\ left.locs = AL /\ left.kids = nodes[id].kids
       /\ left.next = new /\ left.prev = nodes[id].prev
  <2> DEFINE e == WithEntries(nodes[id], ls)
  <2>1. nodes[id] \in Node(new) /\ new \in Nat
    BY <1>1, <1>4, NodeInMore
  <2>2. /\ e \in Node(new) /\ e.keys = A /\ e.locs = AL
        /\ e.leaf = nodes[id].leaf /\ e.kids = nodes[id].kids /\ e.prev = nodes[id].prev
    BY <2>1, <1>7, WithEntriesIs
  <2>3. left = [e EXCEPT !.next = new] /\ new \in 0..new
    BY <2>1
  <2> HIDE DEF e, left, A, AL
  <2>4. left \in Node(new) /\ SameContent(left, e) /\ left.next = new /\ left.prev = e.prev
    BY <2>1, <2>2, <2>3, WithNextIs
  <2>5. QED
    BY <2>2, <2>4, <1>1 DEF SameContent
<1>12. /\ right \in Node(new) /\ right.leaf /\ right.keys = B /\ right.locs = BL /\ right.kids = << >>
       /\ right.next = after /\ right.prev = id
  <2>1. new \in Nat /\ id \in 0..new /\ after \in 0..new
    BY <1>1, <1>4, <1>5
  <2>2. KeysOf(rs) \in Seq(Keys) /\ LocsOf(rs) \in Seq(Locs)
    BY <1>7
  <2>3. right = NewLeaf(rs, after, id) /\ B = KeysOf(rs) /\ BL = LocsOf(rs)
    OBVIOUS
  <2> HIDE DEF right, B, BL, after
  <2>4. QED
    BY <2>1, <2>2, <2>3, NewLeafIs
<1>13. ASSUME NEW a \in 1..n
       PROVE  /\ nodes[a] \in Node(new) /\ back(nodes[a]) \in Node(new)
              /\ SameContent(back(nodes[a]), nodes[a])
              /\ back(nodes[a]).leaf = nodes[a].leaf
              /\ back(nodes[a]).next = nodes[a].next /\ back(nodes[a]).prev = new
  <2>1. nodes[a] \in Node(n)
    BY ShapeFacts
  <2>2. nodes[a] \in Node(new) /\ new \in Nat /\ new \in 0..new
    BY <2>1, <1>1, <1>4, NodeInMore
  <2>3. back(nodes[a]) \in Node(new) /\ back(nodes[a]).prev = new /\ SameButPrev(back(nodes[a]), nodes[a])
    <3>1. back(nodes[a]) = LinkedBack(nodes[a], new)
      OBVIOUS
    <3>2. \A x \in Node(new) : /\ LinkedBack(x, new) \in Node(new) /\ LinkedBack(x, new).prev = new
                               /\ SameButPrev(LinkedBack(x, new), x)
      BY <2>2, LinkedBackIs, ZenonT(30)
    <3> HIDE DEF back
    <3>3. QED
      BY <3>1, <3>2, <2>2
  <2>4. QED
    BY <2>2, <2>3 DEF SameButPrev, SameContent
<1> DEFINE f == [i \in NodeIds |-> CASE i = id -> left
                                     [] i = after -> back(nodes[i])
                                     [] OTHER -> nodes[i]]
<1> HIDE DEF left, right, back, A, B, AL, BL
<1>14. /\ f \in [1..n -> Node(new)] /\ f[id] = left
       /\ after # NoLeaf => f[after] = back(nodes[after])
       /\ \A a \in 1..n : a # id /\ a # after => f[a] = nodes[a]
  <2>0. after # id
    BY <1>1, <1>5 DEF NoLeaf
  <2>1. ASSUME NEW a \in 1..n
        PROVE  f[a] = IF a = id THEN left ELSE IF a = after THEN back(nodes[a]) ELSE nodes[a]
    <3> HIDE DEF after
    <3>1. f[a] = CASE a = id -> left [] a = after -> back(nodes[a]) [] OTHER -> nodes[a]
      BY DEF NodeIds
    <3>2. QED
      BY <3>1, <2>0
  <2>2. \A a \in 1..n : f[a] \in Node(new)
    BY <2>1, <1>11, <1>13
  <2>3. f \in [1..n -> Node(new)]
    BY <2>2 DEF NodeIds
  <2>4. QED
    BY <2>1, <2>3, <1>1, <1>5
<1> HIDE DEF f
<1>15. f \in Seq(Node(new)) /\ Len(f) = n
  BY <1>1, <1>14, FunctionIs
<1>16. /\ t.nodes \in Seq(Node(new)) /\ Len(t.nodes) = new /\ t.nodes[new] = right
       /\ \A a \in 1..n : t.nodes[a] = f[a]
  <2>1. t.nodes = Append(f, right)
    BY <1>9 DEF f
  <2>2. QED
    BY <2>1, <1>4, <1>12, <1>15, AppendIs
<1>17. t.nodes[id] = left
  BY <1>1, <1>14, <1>16
<1>18. /\ Ascending(A) /\ Within(A, Low(S, m)) /\ Ascending(B) /\ Within(B, High(S, m)) /\ m \in S
  <2>1. Ascending(q.keys) /\ Within(q.keys, S)
    BY DEF LeafFits
  <2>2. B # << >>
    BY <1>3, <1>7
  <2>3. QED
    BY <2>1, <2>2, <1>1, <1>7, <1>8, <1>10, LeafCut
<1>19. m \in Int /\ m \in High(S, m) /\ Low(S, m) # {}
  <2>1. 1 \in 1..Len(A)
    BY <1>3, <1>7
  <2>2. A[1] \in Low(S, m)
    BY <2>1, <1>18 DEF Within
  <2>3. m \in Int
    BY <1>1, <1>18
  <2>4. QED
    BY <2>2, <2>3, <1>18 DEF High
<1>20. LeafFits(left, Low(S, m)) /\ LeafFits(right, High(S, m))
  <2>1. nodes[id].kids = << >>
    BY <1>1, ShapeFacts DEF LeafFits
  <2>2. QED
    BY <2>1, <1>7, <1>11, <1>12, <1>18 DEF LeafFits
<1>21. EntriesOf(q) = EntriesOf(left) \cup EntriesOf(right)
  <2>1. /\ left.keys \in Seq(Int) /\ left.locs \in Seq(Locs) /\ Len(left.keys) = Len(left.locs)
        /\ right.keys \in Seq(Int) /\ right.locs \in Seq(Locs) /\ Len(right.keys) = Len(right.locs)
        /\ Joined(q.keys, left.keys, right.keys) /\ Joined(q.locs, left.locs, right.locs)
        /\ q.keys \in Seq(Int) /\ q.locs \in Seq(Locs)
    BY <1>7, <1>8, <1>11, <1>12
  <2>2. HoldsBoth(q, left, right)
    BY <2>1, EntriesJoined
  <2>3. QED
    BY <2>2 DEF HoldsBoth
<1>22. ASSUME NEW a \in 1..n, a # id PROVE SameContent(t.nodes[a], nodes[a])
  <2>1. CASE a = after
    <3>1. after # NoLeaf
      BY <2>1 DEF NoLeaf
    <3>2. t.nodes[a] = back(nodes[a])
      BY <3>1, <2>1, <1>14, <1>16
    <3>3. QED
      BY <3>2, <1>13
  <2>2. CASE a # after
    BY <2>2, <1>22, <1>14, <1>16 DEF SameContent
  <2>3. QED
    BY <2>1, <2>2
<1>23. LeafSplit(t.nodes, CutSpan(span, n, id, m), nodes, span, id, m)
  <2> DEFINE span2 == CutSpan(span, n, id, m)
  <2>1. AreCut(span2, CutSeen(span, n, id, m), CutLevel(level, n, id), span, level, n, id, m)
    BY <1>1, <1>19, CutIs
  <2>2. /\ span2[id] = Low(S, m) /\ span2[new] = High(S, m)
        /\ \A a \in 1..n : a # id => span2[a] = span[a]
    BY <2>1, <1>4 DEF AreCut, SameBut
  <2> HIDE DEF span2
  <2>3. span2[id] # {} /\ span2[new] # {}
    BY <2>2, <1>19
  <2>4. \A a \in 1..n : a # id /\ a # after => SameLinks(t.nodes[a], nodes[a])
    BY <1>14, <1>16 DEF SameLinks
  <2>5. after # NoLeaf => /\ t.nodes[after].leaf /\ t.nodes[after].next = nodes[after].next
                          /\ t.nodes[after].prev = new
    BY <1>5, <1>13, <1>14, <1>16
  <2>6. LeafSplit(t.nodes, span2, nodes, span, id, m)
    BY <2>2, <2>3, <2>4, <2>5, <1>4, <1>11, <1>12, <1>16, <1>17 DEF LeafSplit
  <2>7. QED
    BY <2>6 DEF span2
<1>24. \A a \in {id, new} : /\ Count(t.nodes[a]) <= LeafOrder
                            /\ Count(t.nodes[a]) >= LeafOrder \div 2
  <2>1. Count(t.nodes[id]) = mid /\ Count(t.nodes[new]) = c - mid
    BY <1>7, <1>11, <1>12, <1>16, <1>17 DEF Count
  <2>2. QED
    BY <2>1, <1>3
<1>25. t.up # NoSplit
  BY <1>1, <1>9 DEF NoSplit
<1>26. QED
  BY <1>9, <1>16, <1>17, <1>19, <1>20, <1>21, <1>22, <1>23, <1>24, <1>25 DEF WellSplit

-----------------------------------------------------------------------------
(* Insert, level by level.                                                 *)

\* Node c was cut at a key, its right part to a new node.
CutAt(up, c, S, n, span, level) ==
  /\ up.id \in 1..n /\ up.id > Len(nodes) /\ level[up.id] = level[c]
  /\ span[c] = Low(S, up.key) /\ span[up.id] = High(S, up.key)
  /\ span[c] # {} /\ up.key \in S

\* The levels down to that of node c have taken in the new entry.
Grown(ns, up, c, key, loc, span0, level0, seen, span, level) ==
  /\ Len(ns) >= Len(nodes) /\ c \in NodeIds
  /\ SameBut(level, level0, NodeIds)
  /\ \A id \in NodeIds : level0[id] > level0[c] => ns[id] = nodes[id] /\ span[id] = span0[id]
  /\ Filled(ns, span, root, 0) /\ Topped(span, level, root)
  /\ Entries(ns) = Entries(nodes) \cup {<<key, loc>>}
  /\ Shape(ns, seen, span, level)
  /\ seen[c] = span0[c] /\ SameBut(span, seen, (1..Len(ns)) \ {c})
  /\ IF up = NoSplit THEN span[c] = span0[c]
     ELSE CutAt(up, c, span0[c], Len(ns), span, level) /\ HalfFilled(ns[c])

LEMMA FilledStill ==
  ASSUME NEW n, NEW q, SameContent(q, n), NEW S, NEW id, NEW top, NEW low,
         NodeFilled(n, S, id, top, low)
  PROVE  NodeFilled(q, S, id, top, low)
BY DEF NodeFilled, SameContent, Count, MinKeys

\* A node that was not full has one key more.
LEMMA FilledMore ==
  ASSUME NEW n, n.leaf \in BOOLEAN, Len(n.keys) \in Nat, ~IsFull(n),
         NEW q, q.leaf = n.leaf, Count(q) = Count(n) + 1, NEW S, NEW id, NEW top,
         NodeFilled(n, S, id, top, 0)
  PROVE  NodeFilled(q, S, id, top, 0)
<1>1. Count(n) \in Nat /\ MinKeys(q) = MinKeys(n) /\ MinKeys(n) \in Int
  BY TreeAssumption DEF Count, MinKeys
<1>2. Count(q) <= IF q.leaf THEN LeafOrder ELSE InternalOrder
  BY <1>1, TreeAssumption DEF IsFull
<1>3. id # top /\ S # {} => Count(n) >= MinKeys(n) - (IF id = 0 THEN 1 ELSE 0)
  BY DEF NodeFilled
<1>4. id # top /\ S # {} => Count(q) >= MinKeys(q) - (IF id = 0 THEN 1 ELSE 0)
  BY <1>1, <1>3
<1>5. Count(q) >= 1
  BY <1>1
<1>6. QED
  BY <1>2, <1>4, <1>5 DEF NodeFilled

LEMMA SameContentEntries ==
  ASSUME NEW n, NEW q, SameContent(q, n)
  PROVE  EntriesOf(q) = EntriesOf(n)
BY DEF EntriesOf, SameContent

LEMMA LeafGrownInPlace ==
  ASSUME NEW span, NEW level, GoodTree(span, level),
         NEW id, LiveLeaf(nodes, span, id), ~IsFull(nodes[id]),
         NEW key \in span[id], Absent(key, nodes[id].keys), NEW loc \in Locs,
         NEW q, q = InsertIntoLeaf(nodes[id], key, loc),
         NEW ns2, ns2 = [nodes EXCEPT ![id] = q]
  PROVE  Grown(ns2, NoSplit, id, key, loc, span, level, span, span, level)
<1> DEFINE n == Len(nodes)
<1>1. /\ Shape(nodes, span, span, level) /\ Filled(nodes, span, root, 0)
      /\ root \in NodeIds /\ Topped(span, level, root) /\ n \in Nat /\ NodeIds = 1..n
      /\ span \in [1..n -> SUBSET Keys] /\ nodes \in Seq(Node(n))
  BY GoodTreeFacts DEF Shape
<1>2. /\ id \in 1..n /\ nodes[id].leaf /\ span[id] # {} /\ nodes[id] \in Node(n)
      /\ LeafFits(nodes[id], span[id]) /\ span[id] \in SUBSET Keys /\ Len(nodes[id].keys) \in Nat
  BY <1>1, ShapeFacts DEF LiveLeaf
<1>3. /\ q \in Node(n) /\ q.leaf /\ SameLinks(q, nodes[id]) /\ LeafFits(q, span[id])
      /\ Count(q) = Count(nodes[id]) + 1
      /\ HoldsMore(q, nodes[id], key, loc)
  BY <1>1, <1>2, LeafInsert
<1>4. ns2 \in Seq(Node(n)) /\ Changed(ns2, nodes, id, q)
  BY <1>1, <1>2, <1>3, ChangedIs
<1>6. Len(ns2) = n /\ ns2[id] = q /\ \A a \in 1..n : a # id => ns2[a] = nodes[a]
  BY <1>4 DEF Changed
<1>7. Shape(ns2, span, span, level)
  <2>1. NodeFits(q, span[id], level[id], span, level)
    BY <1>1, <1>2, <1>3, ShapeFacts DEF NodeFits
  <2>2. SameKind(q, nodes[id])
    BY <1>2, <1>3 DEF SameKind
  <2>3. SameBut(span, span, (1..n) \ {})
    BY DEF SameBut
  <2>4. OthersOutside(nodes, span, id, {})
    BY DEF KidsOutside, OthersOutside
  <2>5. QED
    BY <2>1, <2>2, <2>3, <2>4, <1>1, <1>2, <1>3, <1>4, ShapeChanged
<1>8. Filled(ns2, span, root, 0)
  <2>1. NodeFilled(nodes[id], span[id], id, root, 0)
    BY <1>1, <1>2 DEF Filled
  <2>2. NodeFilled(q, span[id], id, root, 0)
    <3>1. nodes[id].leaf \in BOOLEAN /\ q.leaf = nodes[id].leaf
      BY <1>1, <1>2, <1>3, ShapeFacts DEF SameLinks
    <3>2. Len(nodes[id].keys) \in Nat /\ Count(q) = Count(nodes[id]) + 1
      BY <1>2, <1>3
    <3>3. QED
      BY <3>1, <3>2, <2>1, FilledMore
  <2>3. ASSUME NEW a \in 1..n PROVE NodeFilled(ns2[a], span[a], a, root, 0)
    BY <2>2, <1>1, <1>6 DEF Filled
  <2>4. QED
    BY <2>3, <1>6 DEF Filled
<1>9. Entries(ns2) = Entries(nodes) \cup {<<key, loc>>}
  <2>1. EntriesOf(q) = EntriesOf(nodes[id]) \cup {<<key, loc>>}
    BY <1>3 DEF HoldsMore
  <2>2. Held(ns2, {id}) = {<<key, loc>>} \cup Held(nodes, {id})
    BY <2>1, <1>6 DEF Held
  <2>3. \A a \in (1..n) \ {id} : EntriesOf(ns2[a]) = EntriesOf(nodes[a])
    BY <1>6
  <2>4. HeldMore(ns2, {id}, nodes, {id}, {<<key, loc>>})
    BY <2>2, <2>3, <1>2, <1>6 DEF HeldMore
  <2>5. QED
    BY <2>4, EntriesAre
<1>10. SameBut(level, level, NodeIds) /\ SameBut(span, span, (1..n) \ {id})
  BY DEF SameBut
<1>11. \A a \in NodeIds : level[a] > level[id] => ns2[a] = nodes[a] /\ span[a] = span[a]
  <2>1. level[id] \in Nat
    BY <1>1, <1>2, ShapeFacts
  <2>2. ~(level[id] > level[id])
    BY <2>1
  <2>3. QED
    BY <2>2, <1>1, <1>6
<1>12. Len(ns2) >= Len(nodes) /\ SameBut(span, span, (1..Len(ns2)) \ {id})
  BY <1>1, <1>6, <1>10
<1>13. QED
  BY <1>1, <1>2, <1>7, <1>8, <1>9, <1>10, <1>11, <1>12 DEF Grown

LEMMA HalfFilledFits ==
  ASSUME NEW n, HalfFilled(n), Count(n) \in Nat, NEW S, NEW id, id # 0, NEW top
  PROVE  NodeFilled(n, S, id, top, 0)
<1>1. MinKeys(n) \in Int
  BY TreeAssumption DEF MinKeys
<1>2. Count(n) >= MinKeys(n) - (IF id = 0 THEN 1 ELSE 0)
  BY <1>1 DEF HalfFilled
<1>3. QED
  BY <1>2 DEF HalfFilled, NodeFilled

\* The other nodes of a file that grew by one are left alone.
OthersStill(ns2, span2, ns, span, p) ==
  /\ Len(ns2) = Len(ns) + 1
  /\ \A a \in 1..Len(ns) : a # p => SameContent(ns2[a], ns[a]) /\ span2[a] = span[a]

LEMMA FilledCut ==
  ASSUME NEW ns, Len(ns) \in Nat, NEW span, NEW top, Filled(ns, span, top, 0), NEW p \in 1..Len(ns),
         NEW ns2, NEW span2, OthersStill(ns2, span2, ns, span, p),
         HalfFilled(ns2[p]), Count(ns2[p]) \in Nat,
         HalfFilled(ns2[Len(ns) + 1]), Count(ns2[Len(ns) + 1]) \in Nat
  PROVE  Filled(ns2, span2, top, 0)
<1>1. ASSUME NEW a \in 1..Len(ns2) PROVE NodeFilled(ns2[a], span2[a], a, top, 0)
  <2>1. a # 0 /\ (a = p \/ a = Len(ns) + 1 \/ (a \in 1..Len(ns) /\ a # p))
    BY DEF OthersStill
  <2>2. CASE a = p
    BY <2>1, <2>2, HalfFilledFits
  <2>3. CASE a = Len(ns) + 1
    BY <2>1, <2>3, HalfFilledFits
  <2>4. CASE a \in 1..Len(ns) /\ a # p
    <3>1. SameContent(ns2[a], ns[a]) /\ span2[a] = span[a]
      BY <2>4 DEF OthersStill
    <3>2. NodeFilled(ns[a], span[a], a, top, 0)
      BY <2>4 DEF Filled
    <3>3. QED
      BY <3>1, <3>2, FilledStill
  <2>5. QED
    BY <2>1, <2>2, <2>3, <2>4
<1>2. QED
  BY <1>1 DEF Filled

LEMMA ToppedCut ==
  ASSUME NEW n \in Nat, NEW span \in [1..n -> SUBSET Keys], NEW level \in [1..n -> Nat],
         NEW top \in 1..n, Topped(span, level, top), NEW p \in 1..n, span[p] # {}, NEW m \in Int,
         NEW span2, span2 = CutSpan(span, n, p, m), NEW level2, level2 = CutLevel(level, n, p)
  PROVE  Topped(span2, level2, top)
<1>1. AreCut(span2, CutSeen(span, n, p, m), level2, span, level, n, p, m)
  BY CutIs
<1>2. /\ span2 \in [1..(n + 1) -> SUBSET Keys] /\ level2[n + 1] = level[p]
      /\ \A a \in 1..n : level2[a] = level[a] /\ (a # p => span2[a] = span[a])
  BY <1>1 DEF AreCut, SameBut
<1>3. \A a \in 1..n : span[a] # {} => level[a] <= level[top]
  BY DEF Topped
<1>4. ASSUME NEW a \in 1..(n + 1), span2[a] # {} PROVE level2[a] <= level2[top]
  <2>1. CASE a = n + 1 \/ a = p
    BY <2>1, <1>2, <1>3
  <2>2. CASE a # n + 1 /\ a # p
    <3>1. a \in 1..n
      BY <2>2
    <3>2. QED
      BY <3>1, <2>2, <1>2, <1>3, <1>4
  <2>3. QED
    BY <2>1, <2>2
<1>5. QED
  BY <1>2, <1>4 DEF Topped

LEMMA LeafGrownBySplit ==
  ASSUME NEW span, NEW level, GoodTree(span, level),
         NEW id, LiveLeaf(nodes, span, id), IsFull(nodes[id]),
         NEW key \in span[id], Absent(key, nodes[id].keys), NEW loc \in Locs,
         NEW sorted \in SortedWith(nodes[id], key, loc), NEW t, t = SplitLeaf(id, sorted)
  PROVE  \E seen2, span2, level2 : Grown(t.nodes, t.up, id, key, loc, span, level, seen2, span2, level2)
<1> DEFINE q == InsertIntoLeaf(nodes[id], key, loc)
           n == Len(nodes)
           new == n + 1
           m == t.up.key
           S == span[id]
           ns2 == t.nodes
           up == t.up
           seen2 == CutSeen(span, n, id, m)
           span2 == CutSpan(span, n, id, m)
           level2 == CutLevel(level, n, id)
<1>1. /\ Shape(nodes, span, span, level) /\ Filled(nodes, span, root, 0)
      /\ root \in 1..n /\ Topped(span, level, root) /\ n \in Nat /\ NodeIds = 1..n
      /\ span \in [1..n -> SUBSET Keys] /\ level \in [1..n -> Nat] /\ nodes \in Seq(Node(n))
      /\ Linked(nodes, span)
  BY GoodTreeFacts DEF Shape
<1>2. /\ id \in 1..n /\ nodes[id].leaf /\ S # {} /\ nodes[id] \in Node(n)
      /\ LeafFits(nodes[id], S) /\ S \in SUBSET Keys /\ Len(nodes[id].keys) \in Nat
      /\ level[id] = 0 /\ Convex(S)
  BY <1>1, ShapeFacts, SMTT(20) DEF LiveLeaf, Shape
<1>3. /\ q \in Node(n) /\ q.leaf /\ LeafFits(q, S)
      /\ Count(q) = Count(nodes[id]) + 1 /\ HoldsMore(q, nodes[id], key, loc)
  BY <1>1, <1>2, LeafInsert
<1>4. SortedAs(sorted, q)
  BY <1>1, <1>2, SortedIs
<1>5. q.keys \in Seq(Keys) /\ q.locs \in Seq(Locs)
  BY <1>1, <1>3, NodeFacts
<1>6. Len(q.keys) = LeafOrder + 1
  <2>1. Count(nodes[id]) <= LeafOrder /\ Count(nodes[id]) >= LeafOrder
    BY <1>1, <1>2 DEF Filled, NodeFilled, IsFull
  <2>2. QED
    BY <2>1, <1>2, <1>3, TreeAssumption DEF Count
<1> HIDE DEF q
<1>7. /\ t.up.id = new /\ t.up # NoSplit /\ Len(t.nodes) = new /\ t.nodes \in Seq(Node(new))
      /\ m \in Int
      /\ LeafSplit(t.nodes, CutSpan(span, Len(nodes), id, m), nodes, span, id, m)
      /\ LeafFits(t.nodes[id], Low(S, m)) /\ LeafFits(t.nodes[new], High(S, m))
      /\ m \in High(S, m) /\ Low(S, m) # {}
      /\ \A a \in {id, new} : /\ Count(t.nodes[a]) <= LeafOrder
                              /\ Count(t.nodes[a]) >= LeafOrder \div 2
      /\ EntriesOf(q) = EntriesOf(t.nodes[id]) \cup EntriesOf(t.nodes[new])
      /\ \A a \in 1..Len(nodes) : a # id => SameContent(t.nodes[a], nodes[a])
  <2>1. WellSplit(t, q, id, span, m, new)
    BY <1>1, <1>3, <1>4, <1>5, <1>6, SplitLeafIs
  <2>2. QED
    BY <2>1 DEF WellSplit
<1> HIDE DEF m, ns2, up
<1>8. AreCut(span2, seen2, level2, span, level, n, id, m)
  BY <1>1, <1>2, <1>7, CutIs
<1>9. /\ span2[id] = Low(S, m) /\ span2[new] = High(S, m)
      /\ \A a \in 1..n : a # id => span2[a] = span[a]
      /\ \A a \in 1..n : seen2[a] = span[a]
      /\ \A a \in 1..n : level2[a] = level[a]
      /\ level2[new] = level[id] /\ seen2[new] = High(S, m)
  BY <1>8 DEF AreCut, SameBut
<1>10. ns2[id].leaf /\ ns2[new].leaf
  BY <1>7 DEF LeafSplit, ns2
<1>11. Linked(ns2, span2)
  <2>1. LeafSplit(ns2, span2, nodes, span, id, m)
    BY <1>7 DEF ns2
  <2> HIDE DEF span2
  <2>2. QED
    BY <2>1, <1>1, <1>2, <1>7, LinkedSplit
<1> HIDE DEF seen2, span2, level2
<1>12. Shape(ns2, seen2, span2, level2)
  <2>1. ns2 \in Seq(Node(Len(nodes) + 1)) /\ Len(ns2) = Len(nodes) + 1
    BY <1>7 DEF ns2
  <2>2. SameBut(span, span, (1..Len(nodes)) \ {})
    BY DEF SameBut
  <2>3. \A a \in 1..Len(nodes) : a # id => SameContent(ns2[a], nodes[a]) /\ KidsOutside(nodes[a], span[a], {})
    BY <1>7 DEF KidsOutside, ns2
  <2>4. NodeFits(ns2[id], Low(span[id], m), level[id], seen2, level2)
    BY <1>2, <1>7, <1>10 DEF NodeFits, ns2
  <2>5. NodeFits(ns2[Len(nodes) + 1], High(span[id], m), level[id], seen2, level2)
    BY <1>2, <1>7, <1>10 DEF NodeFits, ns2
  <2>6. /\ seen2 = CutSeen(span, Len(nodes), id, m) /\ span2 = CutSpan(span, Len(nodes), id, m)
        /\ level2 = CutLevel(level, Len(nodes), id)
    BY DEF seen2, span2, level2
  <2>7. m \in Int /\ id \in 1..Len(nodes)
    BY <1>2, <1>7
  <2>8. QED
    BY <2>1, <2>2, <2>3, <2>4, <2>5, <2>6, <2>7, <1>1, <1>11, ShapeCut
<1>13. Filled(ns2, span2, root, 0)
  <2>1. OthersStill(ns2, span2, nodes, span, id)
    BY <1>7, <1>9 DEF OthersStill, ns2
  <2>2. HalfFilled(ns2[id]) /\ HalfFilled(ns2[new])
    BY <1>7, <1>10 DEF HalfFilled, MinKeys, ns2
  <2>3. ns2[id].keys \in Seq(Keys) /\ ns2[new].keys \in Seq(Keys) /\ id \in 1..new /\ new \in 1..new
    <3>1. id \in 1..Len(ns2) /\ new \in 1..Len(ns2)
      BY <1>1, <1>2, <1>7 DEF ns2
    <3>2. QED
      BY <3>1, <1>1, <1>2, <1>12, ShapeFacts
  <2>4. Count(ns2[id]) \in Nat /\ Count(ns2[new]) \in Nat
    BY <2>3, SeqFacts DEF Count
  <2>5. QED
    BY <2>1, <2>2, <2>4, <1>1, <1>2, FilledCut
<1>14. Topped(span2, level2, root)
  BY <1>1, <1>2, <1>7, ToppedCut DEF span2, level2
<1>15. Entries(ns2) = Entries(nodes) \cup {<<key, loc>>}
  <2>1. EntriesOf(ns2[id]) \cup EntriesOf(ns2[new]) = EntriesOf(nodes[id]) \cup {<<key, loc>>}
    BY <1>3, <1>7 DEF HoldsMore, ns2
  <2>2. Held(ns2, {id, new}) = {<<key, loc>>} \cup Held(nodes, {id})
    BY <2>1 DEF Held
  <2>3. \A a \in (1..n) \ {id} : EntriesOf(ns2[a]) = EntriesOf(nodes[a])
    BY <1>7, SameContentEntries DEF ns2
  <2>4. (1..n) \ {id} = (1..new) \ {id, new} /\ {id} \subseteq 1..n /\ {id, new} \subseteq 1..new
    BY <1>1, <1>2
  <2>5. Len(ns2) = new /\ Len(nodes) = n
    BY <1>7 DEF ns2
  <2>6. HeldMore(ns2, {id, new}, nodes, {id}, {<<key, loc>>})
    BY <2>2, <2>3, <2>4, <2>5 DEF HeldMore
  <2>7. QED
    BY <2>6, EntriesAre
<1>16. CutAt(up, id, span[id], new, span2, level2)
  <2>1. new \in 1..new /\ new > Len(nodes)
    BY <1>1
  <2>2. m \in S
    BY <1>7 DEF High
  <2>3. QED
    BY <2>1, <2>2, <1>2, <1>7, <1>9 DEF CutAt, up, m
<1>17. \A a \in NodeIds : level[a] > level[id] => ns2[a] = nodes[a] /\ span2[a] = span[a]
  <2>1. ASSUME NEW a \in 1..n, level[a] > level[id] PROVE ns2[a] = nodes[a] /\ span2[a] = span[a]
    <3>1. level[a] # 0 /\ a # id
      BY <2>1, <1>2
    <3>2. a # nodes[id].next
      <4>1. nodes[id].next # NoLeaf => LiveLeaf(nodes, span, nodes[id].next)
        BY <1>1, <1>2, LinksOf
      <4>2. ASSUME a = nodes[id].next PROVE FALSE
        <5>1. LiveLeaf(nodes, span, a)
          BY <4>1, <4>2, <2>1 DEF NoLeaf
        <5>2. a \in 1..n /\ nodes[a].leaf /\ span[a] # {}
          BY <5>1 DEF LiveLeaf
        <5>3. level[a] = 0
          BY <5>2, <1>1, ShapeFacts
        <5>4. QED
          BY <5>3, <3>1
      <4>3. QED
        BY <4>2
    <3>3. ns2[a] = nodes[a]
      BY <3>1, <3>2, SplitLeafOthers DEF ns2
    <3>4. QED
      BY <3>1, <3>3, <1>9
  <2>2. QED
    BY <2>1, <1>1
<1>18. /\ Len(ns2) >= Len(nodes) /\ id \in NodeIds
       /\ SameBut(level2, level, NodeIds) /\ up # NoSplit
       /\ seen2[id] = span[id] /\ SameBut(span2, seen2, (1..Len(ns2)) \ {id}) /\ Len(ns2) = new
  <2>1. Len(ns2) = new /\ Len(ns2) >= Len(nodes) /\ id \in NodeIds /\ up # NoSplit
    BY <1>1, <1>2, <1>7 DEF ns2, up
  <2>2. SameBut(level2, level, NodeIds) /\ seen2[id] = span[id]
    BY <1>1, <1>2, <1>9 DEF SameBut
  <2>3. \A a \in (1..new) \ {id} : a = new \/ (a \in 1..n /\ a # id)
    BY <1>1
  <2>4. SameBut(span2, seen2, (1..new) \ {id})
    BY <2>3, <1>9 DEF SameBut
  <2>5. QED
    BY <2>1, <2>2, <2>4
<1>a. HalfFilled(ns2[id])
  BY <1>7, <1>10 DEF HalfFilled, MinKeys, ns2
<1>19. Grown(ns2, up, id, key, loc, span, level, seen2, span2, level2)
  BY <1>a, <1>12, <1>13, <1>14, <1>15, <1>16, <1>17, <1>18 DEF Grown
<1>20. QED
  BY <1>19 DEF ns2, up

LEMMA InternalIs ==
  ASSUME NEW m \in Nat, NEW keys \in Seq(Keys), NEW kids \in Seq(1..m), NEW q, q = Internal(keys, kids)
  PROVE  q \in Node(m) /\ ~q.leaf /\ q.leaf = FALSE /\ q.next = NoLeaf /\ IsFork(q, keys, kids)
<1>1. EmptyLeaf \in Node(m) /\ EmptyLeaf.locs = << >> /\ EmptyLeaf.next = NoLeaf
  BY EmptyLeafIs
<1>2. q = [EmptyLeaf EXCEPT !.leaf = FALSE, !.keys = keys, !.kids = kids]
  BY DEF Internal
<1>3. QED
  BY <1>1, <1>2 DEF Node, IsFork

\* A level may go by other names for what is the same.
LEMMA ShapeSeen ==
  ASSUME NEW ns, NEW seen, NEW span, NEW level, Shape(ns, seen, span, level),
         NEW seen2, SameBut(seen2, seen, 1..Len(ns))
  PROVE  Shape(ns, seen2, span, level)
<1>1. ns \in Seq(Node(Len(ns))) /\ Apart(span, level) /\ Linked(ns, span)
      /\ span \in [1..Len(ns) -> SUBSET Keys] /\ level \in [1..Len(ns) -> Nat]
      /\ \A a \in 1..Len(ns) : Convex(span[a])
  BY DEF Shape
<1>2. ASSUME NEW id \in 1..Len(ns) PROVE NodeFits(ns[id], span[id], level[id], seen2, level)
  <2>1. SameContent(ns[id], ns[id]) /\ KidsOutside(ns[id], span[id], {})
    BY DEF SameContent, KidsOutside
  <2>2. SameBut(seen2, seen, (1..Len(ns)) \ {}) /\ SameBut(level, level, 1..Len(ns))
    BY DEF SameBut
  <2>3. QED
    BY <2>1, <2>2, OtherStill
<1>3. Fits(ns, seen2, span, level)
  BY <1>2 DEF Fits
<1>4. QED
  BY <1>1, <1>3 DEF Shape

\* What the parent has to take in, and what becomes of it.
TakesIn(ns, p, j, up, q, S, h, span, level) ==
  /\ FindKeyIndex(ns[p], up.key) = j
  /\ IsFork(q, InsertAt(ns[p].keys, j, up.key), InsertAt(ns[p].kids, j + 1, up.id))
  /\ q.keys \in Seq(Keys) /\ Keyed(q, 1..Len(ns)) /\ Len(q.keys) = Len(ns[p].keys) + 1
  /\ ForkFits(q, S, h, span, level)

LEMMA ParentTakesIn ==
  ASSUME NEW ns, NEW seen, NEW span, NEW level, Shape(ns, seen, span, level),
         NEW p \in 1..Len(ns), ~ns[p].leaf, span[p] # {}, NEW j \in 1..Len(ns[p].kids),
         NEW c, c = ns[p].kids[j], SameBut(span, seen, (1..Len(ns)) \ {c}),
         NEW up, CutAt(up, c, seen[c], Len(ns), span, level),
         \A i \in 1..Len(ns[p].kids) : ns[p].kids[i] # up.id,
         NEW q, q = Internal(InsertAt(ns[p].keys, j, up.key), InsertAt(ns[p].kids, j + 1, up.id))
  PROVE  TakesIn(ns, p, j, up, q, span[p], level[p], span, level)
<1> DEFINE n == Len(ns)
           node == ns[p]
           S == span[p]
           U == seen[c]
           s == up.key
           new == up.id
<1>1. /\ n \in Nat /\ node.keys \in Seq(Keys) /\ node.keys \in Seq(Int) /\ node.kids \in Seq(1..n)
      /\ S \in SUBSET Keys /\ S \in SUBSET Int /\ level[p] \in Nat
      /\ ForkFits(node, S, level[p], seen, level)
  BY ShapeFacts
<1>2. /\ Len(node.kids) = Len(node.keys) + 1 /\ Len(node.keys) \in Nat
      /\ Ascending(node.keys) /\ U = Part(S, node.keys, j) /\ j \in 1..(Len(node.keys) + 1)
  BY <1>1, SeqFacts DEF ForkFits
<1>3. /\ new \in 1..n /\ level[new] = level[c]
      /\ span[c] = Low(U, s) /\ span[new] = High(U, s)
      /\ span[c] # {} /\ s \in U
  BY DEF CutAt
<1>4. U \subseteq Keys /\ U \subseteq Int
  BY <1>1, <1>2, KeysAreInts DEF Part
<1>5. PICK x \in U : x < s
  BY <1>3 DEF Low
<1> HIDE DEF n, node, S, U, s, new
<1>6. FindKeyIndex(node, s) = j
  BY <1>1, <1>2, <1>3, <1>5, PlaceIs
<1>7. /\ InsertAt(node.keys, j, s) \in Seq(Keys) /\ Len(InsertAt(node.keys, j, s)) = Len(node.keys) + 1
  <2>1. s \in Keys /\ node.keys \in Seq(Keys) /\ j \in 1..(Len(node.keys) + 1)
    BY <1>1, <1>2, <1>3, <1>4
  <2>2. QED
    BY <2>1, InsertAtIs
<1>8. InsertAt(node.kids, j + 1, new) \in Seq(1..n)
  <2>1. j + 1 \in 1..(Len(node.kids) + 1)
    BY <1>2
  <2>2. QED
    BY <2>1, <1>1, <1>3, InsertAtIs
<1>9. IsFork(q, InsertAt(node.keys, j, s), InsertAt(node.kids, j + 1, new))
  <2>1. q = Internal(InsertAt(node.keys, j, s), InsertAt(node.kids, j + 1, new))
    BY DEF node, s, new
  <2>2. QED
    BY <2>1, <1>1, <1>7, <1>8, InternalIs
<1>10. KidSplit(node, j, new, s, seen, span)
  <2>1. node.kids[j] = c
    BY DEF node
  <2>2. s \in seen[c] /\ (\E y \in seen[c] : y < s) /\ span[c] = Low(seen[c], s) /\ span[new] = High(seen[c], s)
    BY <1>3, <1>5 DEF U
  <2>3. ASSUME NEW i \in 1..Len(node.kids) PROVE node.kids[i] # new
    BY DEF node, new
  <2>4. ASSUME NEW i \in 1..Len(node.kids), i # j PROVE span[node.kids[i]] = seen[node.kids[i]]
    <3>1. Keyed(node, 1..n) /\ j \in 1..Len(node.kids)
      BY <1>1, <1>2 DEF Keyed
    <3>2. node.kids[i] # c
      BY <3>1, <2>1, <2>4, <1>1, <1>3, KidsDiffer DEF S
    <3>3. node.kids[i] \in 1..n
      BY <1>1, SeqFacts
    <3>4. QED
      BY <3>2, <3>3 DEF SameBut, n
  <2>5. QED
    BY <2>1, <2>2, <2>3, <2>4 DEF KidSplit
<1>11. ForkFits(q, S, level[p], span, level) /\ Keyed(q, 1..n)
  <2>1. Keyed(node, 1..n) /\ j \in 1..Len(node.kids)
    BY <1>1, <1>2 DEF Keyed
  <2>2. level[new] = level[node.kids[j]]
    BY <1>3 DEF node
  <2>3. S # {} /\ S \in SUBSET Int /\ new \in 1..n
    BY <1>1, <1>3 DEF S
  <2>4. ForkFits(node, S, level[p], seen, level)
    BY <1>1
  <2> DEFINE D == 1..n
             h == level[p]
  <2>5. Keyed(node, D) /\ new \in D /\ ForkFits(node, S, h, seen, level)
    BY <2>1, <2>3, <2>4
  <2> HIDE DEF D, h
  <2>6. ForkFits(q, S, h, span, level) /\ Keyed(q, D)
    BY <2>1, <2>2, <2>3, <2>5, <1>9, <1>10, ForkInsert, SMTT(60)
  <2>7. QED
    BY <2>6 DEF D, h
<1>12. q.keys = InsertAt(node.keys, j, s)
  BY <1>9 DEF IsFork
<1>13. TakesIn(ns, p, j, up, q, S, level[p], span, level)
  BY <1>6, <1>7, <1>9, <1>11, <1>12 DEF TakesIn, n, node, s, new
<1>14. QED
  BY <1>13 DEF S

\* How the parent is found when its child has grown.
ParentReady(ns, p, c, span0, level0, seen, span, level) ==
  /\ Len(ns) \in Nat /\ p \in 1..Len(ns) /\ Len(nodes) \in Nat /\ Len(ns) >= Len(nodes)
  /\ ns[p] = nodes[p] /\ ~ns[p].leaf /\ span[p] = span0[p] /\ span[p] # {} /\ p # c
  /\ level[p] = level0[p] /\ level0[p] > level0[c] /\ level0[c] \in Nat /\ level0[p] \in Nat
  /\ ns \in Seq(Node(Len(ns))) /\ Shape(ns, seen, span, level)
  /\ span \in [1..Len(ns) -> SUBSET Keys] /\ level \in [1..Len(ns) -> Nat]
  /\ OthersOutside(ns, span, p, {c})

LEMMA ParentIsReady ==
  ASSUME NEW span0, NEW level0, GoodTree(span0, level0),
         NEW p \in NodeIds, ~nodes[p].leaf, span0[p] # {},
         NEW j \in 1..Len(nodes[p].kids), NEW c, c = nodes[p].kids[j],
         NEW key, NEW loc, NEW ns, NEW up, NEW seen, NEW span, NEW level,
         Grown(ns, up, c, key, loc, span0, level0, seen, span, level)
  PROVE  ParentReady(ns, p, c, span0, level0, seen, span, level)
<1>1. /\ Shape(nodes, span0, span0, level0) /\ Len(nodes) \in Nat /\ NodeIds = 1..Len(nodes)
      /\ level0 \in [NodeIds -> Nat]
  BY GoodTreeFacts
<1>2. /\ Len(ns) >= Len(nodes) /\ c \in NodeIds /\ SameBut(level, level0, NodeIds)
      /\ \A id \in NodeIds : level0[id] > level0[c] => ns[id] = nodes[id] /\ span[id] = span0[id]
      /\ Shape(ns, seen, span, level)
  BY DEF Grown
<1>3. /\ Len(ns) \in Nat /\ span \in [1..Len(ns) -> SUBSET Keys] /\ level \in [1..Len(ns) -> Nat]
      /\ ns \in Seq(Node(Len(ns)))
  BY <1>2, ShapeFacts DEF Shape
<1>4. ForkFits(nodes[p], span0[p], level0[p], span0, level0)
  BY <1>1, ShapeFacts
<1>5. level0[c] < level0[p]
  BY <1>4 DEF ForkFits
<1>6. /\ level0[c] \in Nat /\ level0[p] \in Nat /\ level0[p] > level0[c] /\ p # c
      /\ level[p] = level0[p] /\ p \in 1..Len(ns)
  BY <1>1, <1>2, <1>3, <1>5 DEF SameBut
<1>7. ns[p] = nodes[p] /\ span[p] = span0[p]
  BY <1>2, <1>6
<1>8. ASSUME NEW a \in 1..Len(ns), a # p PROVE KidsOutside(ns[a], span[a], {c})
  <2>1. ~ns[p].leaf /\ span[p] # {} /\ j \in 1..Len(ns[p].kids) /\ c = ns[p].kids[j]
    BY <1>7
  <2>2. KidsOutside(ns[a], span[a], {ns[p].kids[j]})
    BY <1>2, <1>6, <1>8, <2>1, OutsideOthers
  <2>3. QED
    BY <2>1, <2>2
<1>9. OthersOutside(ns, span, p, {c})
  BY <1>8 DEF OthersOutside
<1>10. QED
  BY <1>1, <1>2, <1>3, <1>6, <1>7, <1>9 DEF ParentReady

\* Nothing to take in.
LEMMA ParentGrownAsIs ==
  ASSUME NEW span0, NEW level0, NEW p \in NodeIds, NEW c, NEW key, NEW loc,
         NEW ns, NEW seen, NEW span, NEW level,
         Grown(ns, NoSplit, c, key, loc, span0, level0, seen, span, level),
         ParentReady(ns, p, c, span0, level0, seen, span, level)
  PROVE  Grown(ns, NoSplit, p, key, loc, span0, level0, span, span, level)
<1>1. /\ span[c] = span0[c] /\ seen[c] = span0[c] /\ SameBut(span, seen, (1..Len(ns)) \ {c})
      /\ Shape(ns, seen, span, level) /\ Len(ns) >= Len(nodes) /\ SameBut(level, level0, NodeIds)
      /\ \A id \in NodeIds : level0[id] > level0[c] => ns[id] = nodes[id] /\ span[id] = span0[id]
      /\ Filled(ns, span, root, 0) /\ Topped(span, level, root)
      /\ Entries(ns) = Entries(nodes) \cup {<<key, loc>>}
  BY DEF Grown
<1>2. SameBut(span, seen, 1..Len(ns)) /\ SameBut(span, span, (1..Len(ns)) \ {p})
  BY <1>1 DEF SameBut
<1>3. Shape(ns, span, span, level)
  BY <1>1, <1>2, ShapeSeen
<1>4. /\ span[p] = span0[p] /\ level0[p] > level0[c] /\ level0[c] \in Nat /\ level0[p] \in Nat
      /\ level \in [1..Len(ns) -> Nat] /\ NodeIds \subseteq 1..Len(ns)
  BY DEF ParentReady, NodeIds
<1>5. \A id \in NodeIds : level0[id] \in Nat
  BY <1>1, <1>4 DEF SameBut
<1>6. \A id \in NodeIds : level0[id] > level0[p] => ns[id] = nodes[id] /\ span[id] = span0[id]
  BY <1>1, <1>4, <1>5
<1>7. QED
  BY <1>1, <1>2, <1>3, <1>4, <1>6 DEF Grown

\* Child j of p was split, and q is p with what the split handed up.
HandedUp(q, ns, up, p, j, c, key, loc, span0, level0, seen, span, level) ==
  /\ up # NoSplit /\ Grown(ns, up, c, key, loc, span0, level0, seen, span, level)
  /\ ParentReady(ns, p, c, span0, level0, seen, span, level)
  /\ TakesIn(ns, p, j, up, q, span[p], level[p], span, level)
  /\ p \in NodeIds /\ root \in NodeIds

LEMMA ParentGrownInPlace ==
  ASSUME NEW span0, NEW level0, NEW p, NEW j, NEW c, NEW key, NEW loc,
         NEW ns, NEW up, NEW seen, NEW span, NEW level, NEW q,
         HandedUp(q, ns, up, p, j, c, key, loc, span0, level0, seen, span, level),
         ~IsFull(ns[p]), q \in Node(Len(ns)), q.leaf = FALSE, q.next = NoLeaf,
         NEW ns2, ns2 \in Seq(Node(Len(ns))), Changed(ns2, ns, p, q)
  PROVE  Grown(ns2, NoSplit, p, key, loc, span0, level0, span, span, level)
<1> DEFINE n == Len(ns)
<1>a. /\ up # NoSplit /\ Grown(ns, up, c, key, loc, span0, level0, seen, span, level)
      /\ ParentReady(ns, p, c, span0, level0, seen, span, level)
      /\ TakesIn(ns, p, j, up, q, span[p], level[p], span, level)
      /\ p \in NodeIds /\ root \in NodeIds
  BY DEF HandedUp
<1>1. /\ seen[c] = span0[c] /\ SameBut(span, seen, (1..Len(ns)) \ {c})
      /\ Len(ns) >= Len(nodes) /\ SameBut(level, level0, NodeIds)
      /\ \A id \in NodeIds : level0[id] > level0[c] => ns[id] = nodes[id] /\ span[id] = span0[id]
      /\ Filled(ns, span, root, 0) /\ Topped(span, level, root)
      /\ Entries(ns) = Entries(nodes) \cup {<<key, loc>>}
  BY <1>a DEF Grown
<1>2. /\ n \in Nat /\ p \in 1..n
      /\ ~ns[p].leaf /\ span[p] = span0[p] /\ span[p] # {}
      /\ level[p] = level0[p] /\ level0[p] > level0[c] /\ level0[c] \in Nat /\ level0[p] \in Nat
      /\ ns \in Seq(Node(n)) /\ Shape(ns, seen, span, level)
      /\ OthersOutside(ns, span, p, {c}) /\ level \in [1..n -> Nat] /\ NodeIds \subseteq 1..n
  <2>1. Len(nodes) \in Nat /\ n \in Nat /\ n >= Len(nodes)
    BY <1>a DEF ParentReady
  <2>2. NodeIds \subseteq 1..n
    BY <2>1 DEF NodeIds
  <2>3. QED
    BY <1>a, <2>2 DEF ParentReady
<1>3. Len(q.keys) = Len(ns[p].keys) + 1 /\ ForkFits(q, span[p], level[p], span, level)
  BY <1>a DEF TakesIn
<1>4. ns2 \in Seq(Node(n)) /\ Changed(ns2, ns, p, q)
  OBVIOUS
<1>5. Len(ns2) = n /\ ns2[p] = q /\ \A a \in 1..n : a # p => ns2[a] = ns[a]
  BY <1>4 DEF Changed
<1>6. Shape(ns2, span, span, level)
  <2>1. SameKind(q, ns[p])
    BY <1>2 DEF SameKind
  <2>2. NodeFits(q, span[p], level[p], span, level)
    BY <1>3 DEF NodeFits
  <2>3. QED
    BY <2>1, <2>2, <1>1, <1>2, <1>4, ShapeChanged
<1>7. ns[p].leaf \in BOOLEAN /\ Len(ns[p].keys) \in Nat
  BY <1>2, ShapeFacts
<1>8. Filled(ns2, span, root, 0)
  <2>1. NodeFilled(ns[p], span[p], p, root, 0)
    BY <1>1, <1>2 DEF Filled
  <2>2. q.leaf = ns[p].leaf /\ Count(q) = Count(ns[p]) + 1
    BY <1>2, <1>3, <1>7 DEF Count
  <2>3. NodeFilled(q, span[p], p, root, 0)
    BY <2>1, <2>2, <1>7, FilledMore
  <2>4. ASSUME NEW a \in 1..n PROVE NodeFilled(ns2[a], span[a], a, root, 0)
    BY <2>3, <1>1, <1>5 DEF Filled
  <2>5. QED
    BY <2>4, <1>5 DEF Filled
<1>9. Entries(ns2) = Entries(nodes) \cup {<<key, loc>>}
  <2>1. EntriesOf(q) = {}
    BY <1>3 DEF ForkFits, EntriesOf
  <2>2. EntriesOf(ns[p]) = {}
    BY <1>2, ShapeFacts DEF ForkFits, EntriesOf
  <2>3. \A a \in 1..n : EntriesOf(ns2[a]) = EntriesOf(ns[a])
    BY <2>1, <2>2, <1>5
  <2>4. Entries(ns2) = Entries(ns)
    BY <2>3, <1>5 DEF Entries
  <2>5. QED
    BY <2>4, <1>1
<1>10. \A id \in NodeIds : level0[id] > level0[p] => ns2[id] = nodes[id] /\ span[id] = span0[id]
  <2>1. \A id \in NodeIds : level0[id] \in Nat
    BY <1>1, <1>2 DEF SameBut
  <2>2. \A id \in NodeIds : level0[id] > level0[p] => level0[id] > level0[c] /\ id # p
    BY <2>1, <1>2
  <2>3. QED
    BY <2>2, <1>1, <1>2, <1>5
<1>11. SameBut(span, span, (1..Len(ns2)) \ {p}) /\ Len(ns2) >= Len(nodes)
  BY <1>1, <1>5 DEF SameBut
<1>12. QED
  BY <1>a, <1>1, <1>2, <1>6, <1>8, <1>9, <1>10, <1>11 DEF Grown

\* A fork with a key too many is cut around its middle key.
ForkParts(q, A, m, B, U, V, D) ==
  /\ A \in Seq(Keys) /\ B \in Seq(Keys) /\ m \in Keys /\ Glued(q.keys, A, m, B)
  /\ U \in Seq(D) /\ V \in Seq(D) /\ Joined(q.kids, U, V) /\ Len(U) = Len(A) + 1

WellFilled(n) == n \in Nat /\ n <= InternalOrder /\ n >= InternalOrder \div 2 /\ n >= 1

LEMMA ForkHalves ==
  ASSUME NEW D, NEW q, q.keys \in Seq(Keys), q.kids \in Seq(D), Len(q.keys) = InternalOrder + 1,
         Len(q.kids) = Len(q.keys) + 1, NEW mid, mid = Mid(q.keys),
         NEW A, A = SubSeq(q.keys, 1, mid), NEW B, B = SubSeq(q.keys, mid + 2, Len(q.keys)),
         NEW U, U = SubSeq(q.kids, 1, mid + 1), NEW V, V = SubSeq(q.kids, mid + 2, Len(q.kids))
  PROVE  /\ ForkParts(q, A, q.keys[mid + 1], B, U, V, D)
         /\ WellFilled(Len(A)) /\ WellFilled(Len(B))
<1> DEFINE keys == q.keys
           kids == q.kids
           c == Len(keys)
<1>1. /\ c = InternalOrder + 1 /\ Len(kids) = c + 1 /\ InternalOrder \in Nat /\ InternalOrder >= 2
      /\ keys \in Seq(Keys) /\ kids \in Seq(D) /\ mid = c \div 2
  BY TreeAssumption DEF Mid
<1>2. /\ A = SubSeq(keys, 1, mid) /\ B = SubSeq(keys, mid + 2, c)
      /\ U = SubSeq(kids, 1, mid + 1) /\ V = SubSeq(kids, mid + 2, Len(kids))
  OBVIOUS
<1> HIDE DEF keys, kids, c
<1>3. /\ mid \in Nat /\ mid >= 1 /\ mid <= InternalOrder /\ mid >= InternalOrder \div 2
      /\ c - mid - 1 \in Nat /\ c - mid - 1 >= 1 /\ c - mid - 1 <= InternalOrder
      /\ c - mid - 1 >= InternalOrder \div 2
  BY <1>1
<1>4. A \in Seq(Keys) /\ Len(A) = mid /\ \A i \in 1..mid : A[i] = keys[i]
  <2>1. 1 \in 1..(Len(keys) + 1) /\ mid \in (1 - 1)..Len(keys)
    BY <1>1, <1>3 DEF c
  <2>2. /\ A \in Seq(Keys) /\ Len(A) = mid - 1 + 1
        /\ \A i \in 1..(mid - 1 + 1) : A[i] = keys[1 + i - 1]
    BY <2>1, <1>1, <1>2, SubSeqIs, SMTT(20)
  <2>3. mid - 1 + 1 = mid /\ \A i \in 1..mid : 1 + i - 1 = i
    BY <1>3
  <2>4. QED
    BY <2>2, <2>3
<1>5. B \in Seq(Keys) /\ Len(B) = c - mid - 1 /\ \A i \in 1..(c - mid - 1) : B[i] = keys[mid + 1 + i]
  <2>1. mid + 2 \in 1..(Len(keys) + 1) /\ c \in ((mid + 2) - 1)..Len(keys)
    BY <1>1, <1>3 DEF c
  <2>2. /\ B \in Seq(Keys) /\ Len(B) = c - (mid + 2) + 1
        /\ \A i \in 1..(c - (mid + 2) + 1) : B[i] = keys[(mid + 2) + i - 1]
    BY <2>1, <1>1, <1>2, SubSeqIs, SMTT(20)
  <2>3. c - (mid + 2) + 1 = c - mid - 1
    BY <1>1, <1>3
  <2>4. \A i \in 1..(c - mid - 1) : (mid + 2) + i - 1 = mid + 1 + i
    BY <1>1, <1>3
  <2>5. ASSUME NEW i \in 1..(c - mid - 1) PROVE B[i] = keys[mid + 1 + i]
    <3>1. B[i] = keys[(mid + 2) + i - 1]
      BY <2>2, <2>3, Zenon
    <3>2. (mid + 2) + i - 1 = mid + 1 + i
      BY <2>4
    <3>3. QED
      BY <3>1, <3>2, Zenon
  <2>6. QED
    BY <2>2, <2>3, <2>5, Zenon
<1>6. U \in Seq(D) /\ Len(U) = mid + 1 /\ \A i \in 1..(mid + 1) : U[i] = kids[i]
  <2>1. 1 \in 1..(Len(kids) + 1) /\ mid + 1 \in (1 - 1)..Len(kids)
    BY <1>1, <1>3
  <2>2. /\ U \in Seq(D) /\ Len(U) = (mid + 1) - 1 + 1
        /\ \A i \in 1..((mid + 1) - 1 + 1) : U[i] = kids[1 + i - 1]
    BY <2>1, <1>1, <1>2, SubSeqIs
  <2>3. (mid + 1) - 1 + 1 = mid + 1 /\ \A i \in 1..(mid + 1) : 1 + i - 1 = i
    BY <1>3
  <2>4. QED
    BY <2>2, <2>3
<1>7. V \in Seq(D) /\ Len(V) = c - mid /\ \A i \in 1..(c - mid) : V[i] = kids[mid + 1 + i]
  <2>1. mid + 2 \in 1..(Len(kids) + 1) /\ Len(kids) \in ((mid + 2) - 1)..Len(kids)
    BY <1>1, <1>3
  <2>2. /\ V \in Seq(D) /\ Len(V) = Len(kids) - (mid + 2) + 1
        /\ \A i \in 1..(Len(kids) - (mid + 2) + 1) : V[i] = kids[(mid + 2) + i - 1]
    BY <2>1, <1>1, <1>2, SubSeqIs
  <2>3. Len(kids) - (mid + 2) + 1 = c - mid
    BY <1>1, <1>3
  <2>4. \A i \in 1..(c - mid) : (mid + 2) + i - 1 = mid + 1 + i
    BY <1>1, <1>3
  <2>5. ASSUME NEW i \in 1..(c - mid) PROVE V[i] = kids[mid + 1 + i]
    <3>1. V[i] = kids[(mid + 2) + i - 1]
      BY <2>2, <2>3, Zenon
    <3>2. (mid + 2) + i - 1 = mid + 1 + i
      BY <2>4
    <3>3. QED
      BY <3>1, <3>2, Zenon
  <2>6. QED
    BY <2>2, <2>3, <2>5, Zenon
<1>8. keys[mid + 1] \in Keys
  <2>1. mid + 1 \in 1..Len(keys)
    BY <1>1, <1>3 DEF c
  <2>2. QED
    BY <2>1, <1>1, SeqFacts
<1>9. Glued(keys, A, keys[mid + 1], B)
  <2>1. Len(keys) = Len(A) + Len(B) + 1
    BY <1>1, <1>3, <1>4, <1>5 DEF c
  <2>2. QED
    BY <2>1, <1>4, <1>5 DEF Glued
<1>10. Joined(kids, U, V)
  <2>1. Len(kids) = Len(U) + Len(V)
    BY <1>1, <1>3, <1>6, <1>7
  <2>2. QED
    BY <2>1, <1>6, <1>7 DEF Joined
<1>11. WellFilled(Len(A)) /\ WellFilled(Len(B))
  BY <1>3, <1>4, <1>5 DEF WellFilled
<1>12. ForkParts(q, A, keys[mid + 1], B, U, V, D)
  BY <1>4, <1>5, <1>6, <1>7, <1>8, <1>9, <1>10 DEF ForkParts, keys, kids
<1>13. QED
  BY <1>11, <1>12 DEF keys

\* A node replaced and a new one at the end of the file.
NodesCut(ns2, ns, p, l, r) ==
  /\ ns2 \in Seq(Node(Len(ns) + 1)) /\ Len(ns2) = Len(ns) + 1
  /\ ns2[p] = l /\ ns2[Len(ns) + 1] = r
  /\ \A a \in 1..Len(ns) : a # p => ns2[a] = ns[a]

LEMMA NodesInMore ==
  ASSUME NEW n \in Nat
  PROVE  /\ Node(n) \subseteq Node(n + 1) /\ Seq(Node(n)) \subseteq Seq(Node(n + 1))
         /\ Seq(1..n) \subseteq Seq(1..(n + 1))
<1>1. n <= n + 1 /\ n + 1 \in Nat /\ 1..n \subseteq 1..(n + 1)
  OBVIOUS
<1>2. Node(n) \subseteq Node(n + 1)
  BY <1>1, NodeInMore
<1>3. QED
  BY <1>1, <1>2, SeqMonotonic

LEMMA NodesCutIs ==
  ASSUME NEW ns, ns \in Seq(Node(Len(ns))), Len(ns) \in Nat, NEW p \in 1..Len(ns),
         NEW l \in Node(Len(ns)), NEW r \in Node(Len(ns)),
         NEW ns2, ns2 = Append([ns EXCEPT ![p] = l], r)
  PROVE  NodesCut(ns2, ns, p, l, r)
<1> DEFINE n == Len(ns)
           ns1 == [ns EXCEPT ![p] = l]
           T == Node(n + 1)
<1>1. ns \in Seq(T) /\ l \in T /\ r \in T
  BY NodesInMore
<1>2. ns1 \in Seq(T) /\ Changed(ns1, ns, p, l)
  BY <1>1, ChangedIs
<1>3. ns2 = Append(ns1, r)
  OBVIOUS
<1> HIDE DEF ns1, T
<1>4. Len(ns1) = n /\ ns1[p] = l /\ \A a \in 1..n : a # p => ns1[a] = ns[a]
  BY <1>2 DEF Changed
<1>5. /\ ns2 \in Seq(T) /\ Len(ns2) = Len(ns1) + 1 /\ ns2[Len(ns1) + 1] = r
      /\ \A a \in 1..Len(ns1) : ns2[a] = ns1[a]
  BY <1>1, <1>2, <1>3, AppendIs
<1>6. QED
  BY <1>4, <1>5 DEF NodesCut, T

\* What a cut makes of a fork, and of what the levels say of it.
LEMMA ForkIsCut ==
  ASSUME NEW n \in Nat, NEW span \in [1..n -> SUBSET Keys], NEW level \in [1..n -> Nat],
         NEW p \in 1..n, span[p] # {},
         NEW q, ForkFits(q, span[p], level[p], span, level), q.keys \in Seq(Keys), q.kids \in Seq(1..n),
         NEW A, NEW m, NEW B, NEW U, NEW V, ForkParts(q, A, m, B, U, V, 1..n),
         NEW l, l = Internal(A, U), NEW r, r = Internal(B, V),
         NEW seen2, NEW span2, NEW level2, AreCut(span2, seen2, level2, span, level, n, p, m)
  PROVE  /\ NodeFits(l, Low(span[p], m), level[p], seen2, level2)
         /\ NodeFits(r, High(span[p], m), level[p], seen2, level2)
         /\ Low(span[p], m) # {} /\ m \in High(span[p], m)
<1> DEFINE D == 1..n
           S == span[p]
           h == level[p]
<1>1. /\ A \in Seq(Keys) /\ B \in Seq(Keys) /\ m \in Keys /\ Glued(q.keys, A, m, B)
      /\ U \in Seq(D) /\ V \in Seq(D) /\ Joined(q.kids, U, V) /\ Len(U) = Len(A) + 1
  BY DEF ForkParts
<1>2. IsFork(l, A, U) /\ IsFork(r, B, V) /\ ~l.leaf /\ ~r.leaf
  BY <1>1, InternalIs
<1>3. S \in SUBSET Keys /\ S # {} /\ q.kids \in Seq(D) /\ ForkFits(q, S, h, span, level)
  OBVIOUS
<1>4. SameBut(seen2, span, D) /\ SameBut(level2, level, D)
  BY DEF AreCut
<1> HIDE DEF D, S, h
<1>5. S \in SUBSET Int /\ m \in Int /\ A \in Seq(Int) /\ B \in Seq(Int) /\ q.keys \in Seq(Int)
  BY <1>1, <1>3, KeysAreInts, SeqMonotonic
<1>6. /\ ForkFits(l, Low(S, m), h, span, level) /\ ForkFits(r, High(S, m), h, span, level)
      /\ Low(S, m) # {} /\ m \in High(S, m)
  <2>1. /\ U \in Seq(D) /\ V \in Seq(D) /\ Joined(q.kids, U, V) /\ Len(U) = Len(A) + 1
        /\ Glued(q.keys, A, m, B)
    BY <1>1
  <2>2. QED
    <3>1. CutsFork(l, r, q, A, m, B, U, V, D, S, h, span, level)
      BY <2>1, <1>2, <1>3, <1>5 DEF CutsFork
    <3>2. QED
      BY <3>1, ForkCut
<1>7. ASSUME NEW x, NEW K, NEW W \in Seq(D), IsFork(x, K, W), ~x.leaf,
             NEW T, ForkFits(x, T, h, span, level)
      PROVE  NodeFits(x, T, h, seen2, level2)
  <2>1. x.kids = W /\ \A j \in 1..Len(W) : W[j] \in D
    BY <1>7, SeqFacts DEF IsFork
  <2>2. KidsStill(x, T, span, level, seen2, level2)
    BY <2>1, <1>4 DEF KidsStill, SameBut
  <2>3. SameContent(x, x) /\ NodeFits(x, T, h, span, level)
    BY <1>7 DEF SameContent, NodeFits
  <2>4. QED
    BY <2>2, <2>3, NodeStill
<1>8. NodeFits(l, Low(S, m), h, seen2, level2) /\ NodeFits(r, High(S, m), h, seen2, level2)
  BY <1>1, <1>2, <1>6, <1>7
<1>9. QED
  BY <1>6, <1>8 DEF S, h

LEMMA ParentGrownByCut ==
  ASSUME NEW span0, NEW level0, NEW p, NEW j, NEW c, NEW key, NEW loc,
         NEW ns, NEW up, NEW seen, NEW span, NEW level, NEW q,
         HandedUp(q, ns, up, p, j, c, key, loc, span0, level0, seen, span, level),
         NEW A, NEW m, NEW B, NEW U, NEW V, ForkParts(q, A, m, B, U, V, 1..Len(ns)),
         WellFilled(Len(A)), WellFilled(Len(B)),
         NEW l, l = Internal(A, U), NEW r, r = Internal(B, V),
         NEW ns2, NodesCut(ns2, ns, p, l, r),
         NEW up2, up2 = [key |-> m, id |-> Len(ns) + 1]
  PROVE  \E seen2, span2, level2 : Grown(ns2, up2, p, key, loc, span0, level0, seen2, span2, level2)
<1> DEFINE n == Len(ns)
           new == n + 1
           S == span[p]
           seen2 == CutSeen(span, n, p, m)
           span2 == CutSpan(span, n, p, m)
           level2 == CutLevel(level, n, p)
<1>d. /\ up # NoSplit /\ Grown(ns, up, c, key, loc, span0, level0, seen, span, level)
      /\ ParentReady(ns, p, c, span0, level0, seen, span, level)
      /\ TakesIn(ns, p, j, up, q, span[p], level[p], span, level)
      /\ p \in NodeIds /\ root \in NodeIds
  BY DEF HandedUp
<1>1. /\ seen[c] = span0[c] /\ SameBut(span, seen, (1..Len(ns)) \ {c})
      /\ Len(ns) >= Len(nodes) /\ SameBut(level, level0, NodeIds)
      /\ \A id \in NodeIds : level0[id] > level0[c] => ns[id] = nodes[id] /\ span[id] = span0[id]
      /\ Filled(ns, span, root, 0) /\ Topped(span, level, root)
      /\ Entries(ns) = Entries(nodes) \cup {<<key, loc>>}
  BY <1>d DEF Grown
<1>2. /\ n \in Nat /\ p \in 1..n /\ Len(nodes) \in Nat
      /\ ~ns[p].leaf /\ S = span0[p] /\ S # {}
      /\ level[p] = level0[p] /\ level0[p] > level0[c] /\ level0[c] \in Nat /\ level0[p] \in Nat
      /\ ns \in Seq(Node(n)) /\ Shape(ns, seen, span, level)
      /\ OthersOutside(ns, span, p, {c}) /\ NodeIds \subseteq 1..n
      /\ span \in [1..n -> SUBSET Keys] /\ level \in [1..n -> Nat]
  <2>1. Len(nodes) \in Nat /\ n \in Nat /\ n >= Len(nodes)
    BY <1>d DEF ParentReady
  <2>2. NodeIds \subseteq 1..n
    BY <2>1 DEF NodeIds
  <2>3. QED
    BY <1>d, <2>2 DEF ParentReady
<1>a. n \in Nat
  BY <1>2
<1>b. ForkFits(ns[p], span[p], level[p], seen, level)
  BY <1>2, ShapeFacts
<1>3. ForkFits(q, S, level[p], span, level) /\ q.keys \in Seq(Keys) /\ q.kids \in Seq(1..n)
  BY <1>d DEF TakesIn, Keyed
<1>4. /\ A \in Seq(Keys) /\ B \in Seq(Keys) /\ m \in Keys /\ m \in Int
      /\ U \in Seq(1..n) /\ V \in Seq(1..n)
  BY KeysAreInts DEF ForkParts
<1>5. /\ l \in Node(n) /\ ~l.leaf /\ l.next = NoLeaf /\ IsFork(l, A, U)
      /\ r \in Node(n) /\ ~r.leaf /\ r.next = NoLeaf /\ IsFork(r, B, V)
  BY <1>2, <1>4, InternalIs
<1>6. NodesCut(ns2, ns, p, l, r)
  OBVIOUS
<1>7. /\ ns2 \in Seq(Node(n + 1)) /\ Len(ns2) = n + 1 /\ ns2[p] = l /\ ns2[n + 1] = r
      /\ \A a \in 1..n : a # p => ns2[a] = ns[a]
  BY <1>6 DEF NodesCut
<1>8. AreCut(span2, seen2, level2, span, level, n, p, m)
  BY <1>2, <1>4, CutIs
<1>9. /\ span2[p] = Low(S, m) /\ span2[new] = High(S, m)
      /\ \A a \in 1..n : a # p => span2[a] = span[a]
      /\ \A a \in 1..n : seen2[a] = span[a]
      /\ \A a \in 1..n : level2[a] = level[a]
      /\ level2[new] = level[p] /\ seen2[new] = High(S, m)
  BY <1>8 DEF AreCut, SameBut
<1> HIDE DEF seen2, span2, level2
<1>10. /\ NodeFits(l, Low(S, m), level[p], seen2, level2)
       /\ NodeFits(r, High(S, m), level[p], seen2, level2)
       /\ Low(S, m) # {} /\ m \in High(S, m)
  BY <1>2, <1>3, <1>8, ForkIsCut
<1>11. Linked(ns2, span2)
  <2>1. Len(ns2) = n + 1 /\ n \in Nat
    BY <1>2, <1>7
  <2>2. \A a \in 1..Len(ns2) : a = n + 1 \/ a \in 1..n
    BY <2>1
  <2>3. ASSUME NEW a \in 1..Len(ns2)
        PROVE  \/ /\ a \in 1..Len(ns) /\ SameLinks(ns2[a], ns[a])
                  /\ ns[a].leaf => span2[a] = span[a]
               \/ /\ ~LiveLeaf(ns, span, a) /\ ~LiveLeaf(ns2, span2, a) /\ ns2[a].next = NoLeaf
    <3>1. CASE a = n + 1
      <4>1. a \notin 1..n
        BY <3>1, <1>2
      <4>2. QED
        BY <4>1, <3>1, <1>5, <1>7 DEF LiveLeaf
    <3>2. CASE a = p
      BY <3>2, <1>2, <1>5, <1>7 DEF LiveLeaf
    <3>3. CASE a # n + 1 /\ a # p
      <4>1. a \in 1..n
        BY <3>3, <2>2
      <4>2. QED
        BY <4>1, <3>3, <1>7, <1>9 DEF SameLinks
    <3>4. QED
      BY <3>1, <3>2, <3>3
  <2>4. Linked(ns, span)
    BY <1>2 DEF Shape
  <2>5. Len(ns) \in Nat /\ Len(ns2) \in Nat /\ Len(ns2) >= Len(ns)
    BY <2>1
  <2>6. LeavesStill(ns2, span2, ns, span)
    BY <2>3 DEF LeavesStill
  <2>7. QED
    BY <2>4, <2>5, <2>6, LinkedStill
<1>12. Shape(ns2, seen2, span2, level2)
  <2>1. ns2 \in Seq(Node(Len(ns) + 1)) /\ Len(ns2) = Len(ns) + 1
    BY <1>7
  <2>2. \A a \in 1..Len(ns) : a # p => SameContent(ns2[a], ns[a]) /\ KidsOutside(ns[a], span[a], {c})
    BY <1>2, <1>7 DEF OthersOutside, SameContent
  <2>3. NodeFits(ns2[p], Low(span[p], m), level[p], seen2, level2)
    BY <1>7, <1>10
  <2>4. NodeFits(ns2[Len(ns) + 1], High(span[p], m), level[p], seen2, level2)
    BY <1>7, <1>10
  <2>5. /\ seen2 = CutSeen(span, Len(ns), p, m) /\ span2 = CutSpan(span, Len(ns), p, m)
        /\ level2 = CutLevel(level, Len(ns), p)
    BY DEF seen2, span2, level2
  <2>6. m \in Int /\ p \in 1..Len(ns)
    BY <1>2, <1>4
  <2>7. QED
    BY <2>1, <2>2, <2>3, <2>4, <2>5, <2>6, <1>1, <1>2, <1>11, ShapeCut
<1>13. Filled(ns2, span2, root, 0)
  <2>1. OthersStill(ns2, span2, ns, span, p)
    BY <1>7, <1>9 DEF OthersStill, SameContent
  <2>2. HalfFilled(ns2[p]) /\ HalfFilled(ns2[Len(ns) + 1])
    BY <1>5, <1>7 DEF HalfFilled, WellFilled, MinKeys, Count, IsFork
  <2>3. Count(ns2[p]) \in Nat /\ Count(ns2[Len(ns) + 1]) \in Nat
    BY <1>5, <1>7 DEF WellFilled, Count, IsFork
  <2>4. QED
    BY <2>1, <2>2, <2>3, <1>1, <1>2, FilledCut
<1>14. Topped(span2, level2, root)
  <2>1. root \in 1..n
    BY <1>d, <1>2
  <2>2. QED
    BY <2>1, <1>1, <1>2, <1>4, ToppedCut DEF span2, level2
<1>15. Entries(ns2) = Entries(nodes) \cup {<<key, loc>>}
  <2>1. EntriesOf(l) = {} /\ EntriesOf(r) = {}
    BY <1>5 DEF IsFork, EntriesOf
  <2>2. EntriesOf(ns[p]) = {}
    BY <1>b DEF ForkFits, EntriesOf
  <2>3. \A a \in 1..n : EntriesOf(ns2[a]) = EntriesOf(ns[a])
    BY <2>1, <2>2, <1>7
  <2>4. 1..(n + 1) = (1..n) \cup {n + 1}
    BY <1>a
  <2>5. Entries(ns2) = Entries(ns)
    BY <2>1, <2>3, <2>4, <1>7 DEF Entries
  <2>6. QED
    BY <2>5, <1>1
<1>16. CutAt(up2, p, span0[p], Len(ns2), span2, level2)
  <2>1. new \in 1..new /\ new > Len(nodes)
    BY <1>1, <1>2
  <2>2. m \in S /\ up2.id = new /\ up2.key = m
    BY <1>10 DEF High
  <2>3. QED
    BY <2>1, <2>2, <1>2, <1>7, <1>9, <1>10 DEF CutAt
<1>17. \A id \in NodeIds : level0[id] > level0[p] => ns2[id] = nodes[id] /\ span2[id] = span0[id]
  <2>1. \A id \in NodeIds : level0[id] \in Nat
    BY <1>1, <1>2 DEF SameBut
  <2>2. \A id \in NodeIds : level0[id] > level0[p] => level0[id] > level0[c] /\ id # p
    BY <2>1, <1>2
  <2>3. QED
    BY <2>2, <1>1, <1>2, <1>7, <1>9
<1>18. up2 # NoSplit /\ Len(ns2) >= Len(nodes) /\ SameBut(level2, level0, NodeIds) /\ seen2[p] = span0[p]
  <2>1. up2.id # 0 /\ Len(ns2) >= Len(nodes)
    BY <1>1, <1>2, <1>7
  <2>2. SameBut(level2, level0, NodeIds)
    BY <1>1, <1>2, <1>9 DEF SameBut
  <2>3. QED
    BY <2>1, <2>2, <1>2, <1>9 DEF NoSplit
<1>19. SameBut(span2, seen2, (1..Len(ns2)) \ {p})
  <2>1. \A a \in (1..new) \ {p} : a = new \/ (a \in 1..n /\ a # p)
    BY <1>a
  <2>2. QED
    BY <2>1, <1>7, <1>9 DEF SameBut
<1>c. HalfFilled(ns2[p])
  BY <1>5, <1>7 DEF HalfFilled, WellFilled, MinKeys, Count, IsFork
<1>20. Grown(ns2, up2, p, key, loc, span0, level0, seen2, span2, level2)
  BY <1>c, <1>d, <1>12, <1>13, <1>14, <1>15, <1>16, <1>17, <1>18, <1>19 DEF Grown
<1>21. QED
  BY <1>20

LEMMA ParentGrown ==
  ASSUME NEW span0, NEW level0, GoodTree(span0, level0),
         NEW p \in NodeIds, ~nodes[p].leaf, span0[p] # {},
         NEW j \in 1..Len(nodes[p].kids), NEW c, c = nodes[p].kids[j],
         NEW key, NEW loc, NEW t, NEW seen, NEW span, NEW level,
         Grown(t.nodes, t.up, c, key, loc, span0, level0, seen, span, level),
         NEW t2, t2 = InsertIntoParent(p, t)
  PROVE  \E seen2, span2, level2 :
           Grown(t2.nodes, t2.up, p, key, loc, span0, level0, seen2, span2, level2)
<1> DEFINE ns == t.nodes
           up == t.up
           n == Len(ns)
           keys == InsertAt(ns[p].keys, j, up.key)
           kids == InsertAt(ns[p].kids, j + 1, up.id)
           q == Internal(keys, kids)
<1>1. ParentReady(ns, p, c, span0, level0, seen, span, level)
  BY ParentIsReady
<1>2. CASE up = NoSplit
  <2>1. t2 = t
    BY <1>2 DEF InsertIntoParent
  <2>2. Grown(ns, NoSplit, p, key, loc, span0, level0, span, span, level)
    BY <1>1, <1>2, ParentGrownAsIs
  <2>3. QED
    BY <2>1, <2>2, <1>2
<1>3. CASE up # NoSplit
  <2>1. /\ seen[c] = span0[c] /\ SameBut(span, seen, (1..n) \ {c}) /\ Shape(ns, seen, span, level)
        /\ CutAt(up, c, seen[c], n, span, level)
    BY <1>3 DEF Grown
  <2>2. /\ n \in Nat /\ p \in 1..n /\ ns[p] = nodes[p] /\ ~ns[p].leaf /\ span[p] # {}
    BY <1>1 DEF ParentReady
  <2>3. up.id \in 1..n /\ up.id > Len(nodes)
    BY <2>1 DEF CutAt
  <2>4. \A i \in 1..Len(ns[p].kids) : ns[p].kids[i] # up.id
    <3>1. nodes[p].kids \in Seq(NodeIds) /\ Len(nodes) \in Nat
      BY GoodTreeFacts, ShapeFacts
    <3>2. \A i \in 1..Len(nodes[p].kids) : nodes[p].kids[i] \in 1..Len(nodes)
      BY <3>1, SeqFacts DEF NodeIds
    <3>3. up.id \notin 1..Len(nodes)
      BY <2>2, <2>3, <3>1
    <3>4. QED
      BY <3>2, <3>3, <2>2
  <2>5. TakesIn(ns, p, j, up, q, span[p], level[p], span, level)
    <3>1. /\ p \in 1..Len(ns) /\ j \in 1..Len(ns[p].kids) /\ c = ns[p].kids[j]
          /\ q = Internal(InsertAt(ns[p].keys, j, up.key), InsertAt(ns[p].kids, j + 1, up.id))
      BY <2>2
    <3> HIDE DEF q, ns, up
    <3>2. QED
      BY <3>1, <2>1, <2>2, <2>4, ParentTakesIn DEF n
  <2>6. /\ FindKeyIndex(ns[p], up.key) = j /\ IsFork(q, keys, kids)
        /\ q.keys \in Seq(Keys) /\ q.kids \in Seq(1..n) /\ Len(q.keys) = Len(ns[p].keys) + 1
        /\ Len(q.kids) = Len(q.keys) + 1
    BY <2>5 DEF TakesIn, Keyed, ForkFits
  <2>7. q.keys = keys /\ q.kids = kids
    BY <2>6 DEF IsFork
  <2>8. q \in Node(n) /\ q.leaf = FALSE /\ q.next = NoLeaf
    BY <2>2, <2>6, <2>7, InternalIs, ZenonT(30)
  <2> DEFINE handed == HandedUp(q, ns, up, p, j, c, key, loc, span0, level0, seen, span, level)
  <2>a. handed
    BY <1>1, <1>3, <2>5, GoodTreeFacts DEF HandedUp
  <2>9. CASE ~IsFull(ns[p])
    <3>1. t2.nodes = [ns EXCEPT ![p] = q] /\ t2.up = NoSplit
      BY <1>3, <2>6, <2>9 DEF InsertIntoParent
    <3> HIDE DEF q, ns, up
    <3>2. ns \in Seq(Node(n))
      BY <2>1 DEF Shape
    <3>3. t2.nodes \in Seq(Node(n)) /\ Changed(t2.nodes, ns, p, q)
      BY <3>1, <3>2, <2>2, <2>8, ChangedIs
    <3>4. Grown(t2.nodes, NoSplit, p, key, loc, span0, level0, span, span, level)
      BY <3>3, <2>a, <2>8, <2>9, ParentGrownInPlace
    <3>5. QED
      BY <3>1, <3>4
  <2>10. CASE IsFull(ns[p])
    <3> DEFINE mid == Mid(keys)
               A == SubSeq(keys, 1, mid)
               B == SubSeq(keys, mid + 2, Len(keys))
               U == SubSeq(kids, 1, mid + 1)
               V == SubSeq(kids, mid + 2, Len(kids))
               l == Internal(A, U)
               r == Internal(B, V)
               m == keys[mid + 1]
    <3>1. t2.nodes = Append([ns EXCEPT ![p] = l], r) /\ t2.up = [key |-> m, id |-> n + 1]
      BY <1>3, <2>6, <2>10 DEF InsertIntoParent
    <3>2. Len(q.keys) = InternalOrder + 1
      <4>1. NodeFilled(ns[p], span[p], p, root, 0)
        BY <2>2 DEF Grown, Filled
      <4>2. Count(ns[p]) <= InternalOrder /\ Count(ns[p]) >= InternalOrder
        BY <4>1, <2>2, <2>10 DEF NodeFilled, IsFull
      <4>3. Len(ns[p].keys) \in Nat
        BY <2>1, <2>2, ShapeFacts
      <4> HIDE DEF q
      <4>4. Len(ns[p].keys) = InternalOrder
        BY <4>2, <4>3, TreeAssumption DEF Count
      <4>5. QED
        BY <4>4, <2>6
    <3> HIDE DEF q, keys, kids
    <3>3. /\ mid = Mid(q.keys) /\ A = SubSeq(q.keys, 1, mid) /\ B = SubSeq(q.keys, mid + 2, Len(q.keys))
          /\ U = SubSeq(q.kids, 1, mid + 1) /\ V = SubSeq(q.kids, mid + 2, Len(q.kids))
          /\ m = q.keys[mid + 1]
      BY <2>7
    <3> HIDE DEF A, B, U, V, m, mid
    <3>4. /\ ForkParts(q, A, m, B, U, V, 1..n)
          /\ WellFilled(Len(A)) /\ WellFilled(Len(B))
      BY <3>2, <3>3, <2>6, ForkHalves
    <3>5. ns \in Seq(Node(n))
      BY <2>1 DEF Shape
    <3>6. l \in Node(n) /\ r \in Node(n)
      BY <3>4, <2>2, InternalIs DEF ForkParts
    <3> HIDE DEF l, r, ns, up
    <3>7. NodesCut(t2.nodes, ns, p, l, r)
      BY <3>1, <3>5, <3>6, <2>2, NodesCutIs
    <3>8. l = Internal(A, U) /\ r = Internal(B, V)
      BY DEF l, r
    <3>9. \E seen2, span2, level2 :
           Grown(t2.nodes, t2.up, p, key, loc, span0, level0, seen2, span2, level2)
      BY <3>1, <3>4, <3>7, <3>8, <2>a, ParentGrownByCut
    <3>10. QED
      BY <3>9
  <2>11. QED
    BY <2>9, <2>10
<1>4. QED
  BY <1>2, <1>3

\* The tree below a root that search starts from.
GoodFrom(ns, top, span, level) ==
  /\ top \in 1..Len(ns) /\ span[top] = Keys /\ Topped(span, level, top)
  /\ Shape(ns, span, span, level) /\ Filled(ns, span, top, 0)

TopSpan(span, n) == [a \in 1..(n + 1) |-> IF a = n + 1 THEN Keys ELSE span[a]]
TopLevel(level, n, top) == [a \in 1..(n + 1) |-> IF a = n + 1 THEN level[top] + 1 ELSE level[a]]

AreTopped(span2, level2, span, level, n, top) ==
  /\ span2 \in [1..(n + 1) -> SUBSET Keys] /\ level2 \in [1..(n + 1) -> Nat]
  /\ span2[n + 1] = Keys /\ level2[n + 1] = level[top] + 1
  /\ SameBut(span2, span, 1..n) /\ SameBut(level2, level, 1..n)

LEMMA TopIs ==
  ASSUME NEW n \in Nat, NEW span \in [1..n -> SUBSET Keys], NEW level \in [1..n -> Nat], NEW top \in 1..n
  PROVE  AreTopped(TopSpan(span, n), TopLevel(level, n, top), span, level, n, top)
<1>1. /\ n + 1 \in 1..(n + 1) /\ \A a \in 1..n : a \in 1..(n + 1) /\ a # n + 1
      /\ \A a \in 1..(n + 1) : a \in 1..n \/ a = n + 1
  OBVIOUS
<1>2. level[top] + 1 \in Nat
  OBVIOUS
<1>3. TopSpan(span, n) \in [1..(n + 1) -> SUBSET Keys]
  BY <1>1 DEF TopSpan
<1>4. TopLevel(level, n, top) \in [1..(n + 1) -> Nat]
  BY <1>1, <1>2 DEF TopLevel
<1>5. QED
  BY <1>1, <1>3, <1>4 DEF TopSpan, TopLevel, AreTopped, SameBut

\* A root over the two halves of the old one.
LEMMA RootFits ==
  ASSUME NEW n \in Nat, NEW top \in 1..n, NEW new \in 1..n, NEW m \in Keys,
         NEW level, NEW span, level[top] \in Nat, level[new] = level[top],
         span[top] = Low(Keys, m), span[new] = High(Keys, m), Low(Keys, m) # {}, High(Keys, m) # {},
         NEW q, IsFork(q, <<m>>, <<top, new>>)
  PROVE  ForkFits(q, Keys, level[top] + 1, span, level)
<1> DEFINE K == <<m>>
           W == <<top, new>>
<1>1. /\ Len(K) = 1 /\ K[1] = m /\ Len(W) = 2 /\ W[1] = top /\ W[2] = new
  OBVIOUS
<1>2. m \in Int /\ Keys \in SUBSET Int
  BY KeysAreInts
<1> HIDE DEF K, W
<1>3. Part(Keys, K, 1) = Low(Keys, m) /\ Part(Keys, K, 2) = High(Keys, m)
  BY <1>1, <1>2 DEF Part, Low, High
<1>4. Ascending(K) /\ Within(K, Keys)
  BY <1>1 DEF Ascending, Within
<1>5. \A j \in 1..2 : j = 1 \/ j = 2
  OBVIOUS
<1>6. \A j \in 1..Len(W) : /\ level[W[j]] < level[top] + 1 /\ level[W[j]] = (level[top] + 1) - 1
                           /\ span[W[j]] = Part(Keys, K, j) /\ Part(Keys, K, j) # {}
  BY <1>1, <1>3, <1>5
<1>7. IsFork(q, K, W)
  BY DEF K, W
<1>8. QED
  BY <1>1, <1>4, <1>6, <1>7 DEF ForkFits, IsFork

Rooted(ns, top, key, loc) ==
  /\ \E span, level : GoodFrom(ns, top, span, level)
  /\ Entries(ns) = Entries(nodes) \cup {<<key, loc>>}

LEMMA RootGrown ==
  ASSUME NEW span0, NEW level0, GoodTree(span0, level0), NEW key, NEW loc,
         NEW t, NEW seen, NEW span, NEW level,
         Grown(t.nodes, t.up, root, key, loc, span0, level0, seen, span, level),
         NEW tree, tree = NewRoot(t)
  PROVE  Rooted(tree.nodes, tree.root, key, loc)
<1> DEFINE ns == t.nodes
           up == t.up
           n == Len(ns)
<1>1. /\ root \in 1..Len(nodes) /\ span0[root] = Keys /\ Len(nodes) \in Nat
  BY GoodTreeFacts
<1>2. /\ n >= Len(nodes) /\ Filled(ns, span, root, 0) /\ Topped(span, level, root)
      /\ Entries(ns) = Entries(nodes) \cup {<<key, loc>>} /\ Shape(ns, seen, span, level)
      /\ seen[root] = Keys /\ SameBut(span, seen, (1..n) \ {root})
      /\ IF up = NoSplit THEN span[root] = Keys
         ELSE CutAt(up, root, Keys, n, span, level) /\ HalfFilled(ns[root])
  BY <1>1 DEF Grown
<1>3. /\ n \in Nat /\ span \in [1..n -> SUBSET Keys] /\ level \in [1..n -> Nat]
      /\ ns \in Seq(Node(n)) /\ Linked(ns, span) /\ Apart(span, level)
  BY <1>2, ShapeFacts DEF Shape
<1>4. root \in 1..n
  BY <1>1, <1>2, <1>3
<1>5. CASE up = NoSplit
  <2>1. tree.nodes = ns /\ tree.root = root
    BY <1>5 DEF NewRoot
  <2>2. SameBut(span, seen, 1..n)
    BY <1>2, <1>5 DEF SameBut
  <2>3. Shape(ns, span, span, level)
    BY <1>2, <2>2, ShapeSeen
  <2>4. GoodFrom(tree.nodes, tree.root, span, level)
    BY <2>1, <2>3, <1>2, <1>4, <1>5 DEF GoodFrom
  <2>5. QED
    BY <2>1, <2>4, <1>2 DEF Rooted
<1>6. CASE up # NoSplit
  <2> DEFINE top == n + 1
             q == Internal(<<up.key>>, <<root, up.id>>)
             ns2 == tree.nodes
             span2 == TopSpan(span, n)
             level2 == TopLevel(level, n, root)
             m == up.key
  <2>1. ns2 = Append(ns, q) /\ tree.root = top
    BY <1>6 DEF NewRoot
  <2>2. /\ up.id \in 1..n /\ level[up.id] = level[root]
        /\ span[root] = Low(Keys, m) /\ span[up.id] = High(Keys, m)
        /\ span[root] # {} /\ m \in Keys /\ HalfFilled(ns[root])
    BY <1>2, <1>6 DEF CutAt
  <2>3. m \in High(Keys, m) /\ m \in Int
    BY <2>2, KeysAreInts DEF High
  <2>4. q \in Node(n) /\ ~q.leaf /\ q.next = NoLeaf /\ IsFork(q, <<m>>, <<root, up.id>>)
    <3>1. <<m>> \in Seq(Keys) /\ <<root, up.id>> \in Seq(1..n)
      BY <2>2, <1>4
    <3>2. QED
      BY <3>1, <1>3, InternalIs
  <2>5. /\ ns2 \in Seq(Node(n + 1)) /\ Len(ns2) = n + 1 /\ ns2[n + 1] = q
        /\ \A a \in 1..n : ns2[a] = ns[a]
    <3>1. ns \in Seq(Node(n + 1)) /\ q \in Node(n + 1)
      BY <1>3, <2>4, NodesInMore
    <3> HIDE DEF q, ns, ns2
    <3>2. QED
      BY <3>1, <2>1, AppendIs
  <2> HIDE DEF q, ns2
  <2>6. AreTopped(span2, level2, span, level, n, root)
    BY <1>3, <1>4, TopIs
  <2>7. /\ span2 \in [1..(n + 1) -> SUBSET Keys] /\ level2 \in [1..(n + 1) -> Nat]
        /\ span2[top] = Keys /\ level2[top] = level[root] + 1
        /\ \A a \in 1..n : span2[a] = span[a] /\ level2[a] = level[a]
    BY <2>6 DEF AreTopped, SameBut
  <2> HIDE DEF span2, level2
  <2>a. \A a \in 1..(n + 1) : a = n + 1 \/ (a \in 1..n /\ a # n + 1)
    BY <1>3
  <2>8. \A a \in 1..n : span[a] # {} => level[a] <= level[root]
    BY <1>3 DEF Topped, Grown
  <2>9. level[root] \in Nat
    BY <1>3, <1>4
  <2>10. ForkFits(q, Keys, level[root] + 1, span2, level2)
    <3>1. level2[root] \in Nat /\ level2[up.id] = level2[root] /\ level2[root] = level[root]
      BY <2>2, <2>7, <2>9, <1>4
    <3>2. span2[root] = Low(Keys, m) /\ span2[up.id] = High(Keys, m)
      BY <2>2, <2>7, <1>4
    <3>3. Low(Keys, m) # {} /\ High(Keys, m) # {}
      BY <2>2, <2>3
    <3>4. ForkFits(q, Keys, level2[root] + 1, span2, level2)
      BY <3>1, <3>2, <3>3, <2>2, <2>4, <1>3, <1>4, RootFits
    <3>5. QED
      BY <3>1, <3>4
  <2>11. Apart(span2, level2)
    <3>1. ASSUME NEW a \in 1..n, span2[a] # {} PROVE level2[a] # level2[top]
      <4>1. level[a] <= level[root] /\ level[a] \in Nat
        BY <3>1, <2>7, <2>8, <1>3
      <4>2. QED
        BY <4>1, <2>7, <2>9
    <3>2. ASSUME NEW a \in 1..(n + 1), NEW b \in 1..(n + 1), a # b, level2[a] = level2[b]
          PROVE  span2[a] \cap span2[b] = {}
      <4>1. CASE a \in 1..n /\ b \in 1..n
        BY <4>1, <3>2, <2>7, <1>3 DEF Apart
      <4>2. CASE a = n + 1
        <5>1. b \in 1..n
          BY <4>2, <3>2, <2>a
        <5>2. QED
          BY <5>1, <4>2, <3>1, <3>2
      <4>3. CASE b = n + 1
        <5>1. a \in 1..n
          BY <4>3, <3>2, <2>a
        <5>2. QED
          BY <5>1, <4>3, <3>1, <3>2
      <4>4. QED
        BY <4>1, <4>2, <4>3, <2>a
    <3>3. QED
      BY <3>2, <2>7 DEF Apart
  <2>12. Linked(ns2, span2)
    <3>1. ASSUME NEW a \in 1..Len(ns2)
          PROVE  \/ /\ a \in 1..Len(ns) /\ SameLinks(ns2[a], ns[a])
                    /\ ns[a].leaf => span2[a] = span[a]
                 \/ /\ ~LiveLeaf(ns, span, a) /\ ~LiveLeaf(ns2, span2, a) /\ ns2[a].next = NoLeaf
      <4>1. CASE a = n + 1
        <5>1. a \notin 1..n
          BY <4>1, <1>3
        <5>2. QED
          BY <5>1, <4>1, <2>4, <2>5 DEF LiveLeaf
      <4>2. CASE a \in 1..n
        BY <4>2, <2>5, <2>7 DEF SameLinks
      <4>3. QED
        BY <4>1, <4>2, <2>a, <2>5
    <3>2. LeavesStill(ns2, span2, ns, span)
      BY <3>1 DEF LeavesStill
    <3>3. Len(ns) \in Nat /\ Len(ns2) \in Nat /\ Len(ns2) >= Len(ns)
      BY <1>3, <2>5
    <3> HIDE DEF ns
    <3>4. QED
      BY <3>2, <3>3, <1>3, LinkedStill
  <2>13. \A a \in 1..n : KidsOutside(ns[a], span[a], {root})
    <3>1. SUFFICES ASSUME NEW a \in 1..n, ~ns[a].leaf, span[a] # {}, NEW j \in 1..Len(ns[a].kids)
                   PROVE  ns[a].kids[j] # root
      BY DEF KidsOutside
    <3>2. ForkFits(ns[a], span[a], level[a], seen, level) /\ level[a] \in Nat
      BY <3>1, <1>2, ShapeFacts
    <3>3. level[ns[a].kids[j]] < level[a]
      BY <3>1, <3>2 DEF ForkFits
    <3>4. level[a] <= level[root]
      BY <3>1, <2>8
    <3>5. QED
      BY <3>2, <3>3, <3>4, <2>9
  <2>14. Convex(Keys)
    BY DEF Convex
  <2>15. Shape(ns2, span2, span2, level2)
    <3>1. SameBut(level2, level, 1..Len(ns)) /\ SameBut(span2, seen, (1..Len(ns)) \ {root})
      BY <2>7, <1>2 DEF SameBut
    <3>2. ASSUME NEW a \in 1..Len(ns2)
          PROVE  IF a \in {n + 1} THEN Touched(a, ns2, span2, span2, level2)
                                  ELSE Untouched(a, ns, span, ns2, span2, {root})
      <4>1. CASE a = n + 1
        <5>1. NodeFits(ns2[a], span2[a], level2[a], span2, level2) /\ Convex(span2[a])
          BY <4>1, <2>4, <2>5, <2>7, <2>10, <2>14 DEF NodeFits
        <5>2. QED
          BY <4>1, <5>1 DEF Touched
      <4>2. CASE a # n + 1
        <5>1. a \in 1..n
          BY <4>2, <2>a, <2>5
        <5>2. QED
          BY <5>1, <4>2, <2>5, <2>7, <2>13 DEF Untouched, SameContent
      <4>3. QED
        BY <4>1, <4>2
    <3> HIDE DEF ns
    <3>3. ns2 \in Seq(Node(Len(ns2))) /\ span2 \in [1..Len(ns2) -> SUBSET Keys] /\ level2 \in [1..Len(ns2) -> Nat]
      BY <2>5, <2>7
    <3>4. QED
      BY <3>1, <3>2, <3>3, <1>2, <2>11, <2>12, Reshape
  <2>16. Filled(ns2, span2, top, 0)
    <3>1. ASSUME NEW a \in 1..Len(ns2) PROVE NodeFilled(ns2[a], span2[a], a, top, 0)
      <4>1. CASE a = n + 1
        <5>1. Count(q) = 1
          BY <2>4 DEF IsFork, Count
        <5>2. QED
          BY <5>1, <4>1, <2>4, <2>5, TreeAssumption DEF NodeFilled
      <4>2. CASE a = root
        <5>1. Count(ns[root]) \in Nat
          BY <1>2, <1>4, ShapeFacts DEF Count
        <5>2. a # 0
          BY <4>2, <1>4
        <5>3. NodeFilled(ns[a], span2[a], a, top, 0)
          BY <5>1, <5>2, <4>2, <2>2, HalfFilledFits
        <5>4. QED
          BY <5>3, <4>2, <2>5, <1>4
      <4>3. CASE a # n + 1 /\ a # root
        <5>1. a \in 1..n
          BY <4>3, <2>a, <2>5
        <5>2. NodeFilled(ns[a], span[a], a, root, 0)
          BY <5>1, <1>2 DEF Filled
        <5>3. NodeFilled(ns[a], span[a], a, top, 0)
          BY <5>2, <4>3 DEF NodeFilled
        <5>4. QED
          BY <5>1, <5>3, <2>5, <2>7
      <4>4. QED
        BY <4>1, <4>2, <4>3
    <3>2. QED
      BY <3>1 DEF Filled
  <2>17. Topped(span2, level2, top)
    <3>1. ASSUME NEW a \in 1..(n + 1), span2[a] # {} PROVE level2[a] <= level2[top]
      <4>1. CASE a = n + 1
        BY <4>1, <2>7, <2>9
      <4>2. CASE a \in 1..n
        <5>1. level[a] <= level[root] /\ level[a] \in Nat /\ level2[a] = level[a]
          BY <4>2, <3>1, <2>7, <2>8, <1>3
        <5>2. QED
          BY <5>1, <2>7, <2>9
      <4>3. QED
        BY <4>1, <4>2, <2>a
    <3>2. QED
      BY <3>1, <2>7 DEF Topped
  <2>18. top \in 1..Len(ns2)
    BY <1>3, <2>5
  <2>19. GoodFrom(ns2, top, span2, level2)
    BY <2>7, <2>15, <2>16, <2>17, <2>18 DEF GoodFrom
  <2>20. Entries(ns2) = Entries(ns)
    <3>1. EntriesOf(q) = {}
      BY <2>4 DEF IsFork, EntriesOf
    <3>2. 1..(n + 1) = (1..n) \cup {n + 1}
      BY <1>3
    <3>3. QED
      BY <3>1, <3>2, <2>5 DEF Entries
  <2>21. QED
    BY <2>1, <2>19, <2>20, <1>2 DEF ns2, Rooted
<1>7. QED
  BY <1>5, <1>6

LEMMA LeafGrown ==
  ASSUME NEW span, NEW level, GoodTree(span, level), NEW id, LiveLeaf(nodes, span, id),
         NEW key \in span[id], Absent(key, nodes[id].keys), NEW loc \in Locs,
         NEW t \in InLeaf(id, key, loc)
  PROVE  \E seen2, span2, level2 : Grown(t.nodes, t.up, id, key, loc, span, level, seen2, span2, level2)
<1>1. CASE IsFull(nodes[id])
  <2>1. PICK sorted \in SortedWith(nodes[id], key, loc) : t = SplitLeaf(id, sorted)
    BY <1>1 DEF InLeaf
  <2>2. QED
    BY <1>1, <2>1, LeafGrownBySplit
<1>2. CASE ~IsFull(nodes[id])
  <2> DEFINE q == InsertIntoLeaf(nodes[id], key, loc)
             ns2 == [nodes EXCEPT ![id] = q]
  <2>1. t.nodes = ns2 /\ t.up = NoSplit
    BY <1>2 DEF InLeaf
  <2> HIDE DEF q, ns2
  <2>2. Grown(ns2, NoSplit, id, key, loc, span, level, span, span, level)
    BY <1>2, LeafGrownInPlace DEF q, ns2
  <2>3. QED
    BY <2>1, <2>2
<1>3. QED
  BY <1>1, <1>2

-----------------------------------------------------------------------------
(* Delete: two nodes next to each other share out what they have.          *)

LEMMA JoinedIs ==
  ASSUME NEW T, NEW s \in Seq(T), NEW t \in Seq(T), NEW K, K = s \o t
  PROVE  K \in Seq(T) /\ Joined(K, s, t)
<1>1. /\ s \o t \in Seq(T) /\ Len(s \o t) = Len(s) + Len(t)
      /\ \A i \in 1..(Len(s) + Len(t)) :
           (s \o t)[i] = IF i <= Len(s) THEN s[i] ELSE t[i - Len(s)]
  BY ConcatProperties
<1>2. Len(s) \in Nat /\ Len(t) \in Nat
  OBVIOUS
<1>3. \A i \in 1..Len(s) : K[i] = s[i]
  BY <1>1, <1>2
<1>4. ASSUME NEW i \in 1..Len(t) PROVE K[Len(s) + i] = t[i]
  <2>1. /\ Len(s) + i \in 1..(Len(s) + Len(t)) /\ ~(Len(s) + i <= Len(s))
        /\ (Len(s) + i) - Len(s) = i
    BY <1>2
  <2>2. QED
    BY <1>1, <2>1
<1>5. QED
  BY <1>1, <1>3, <1>4 DEF Joined

LEMMA GluedIs ==
  ASSUME NEW T, NEW s \in Seq(T), NEW m \in T, NEW t \in Seq(T), NEW K, K = (s \o <<m>>) \o t
  PROVE  K \in Seq(T) /\ Glued(K, s, m, t)
<1> DEFINE u == s \o <<m>>
<1>1. <<m>> \in Seq(T) /\ Len(<<m>>) = 1 /\ <<m>>[1] = m /\ 1 \in 1..1
  OBVIOUS
<1>2. u \in Seq(T) /\ Joined(u, s, <<m>>)
  <2> HIDE DEF u
  <2>1. u = s \o <<m>>
    BY DEF u
  <2>2. QED
    BY <1>1, <2>1, JoinedIs
<1>3. K = u \o t
  OBVIOUS
<1> HIDE DEF u
<1>4. K \in Seq(T) /\ Joined(K, u, t)
  BY <1>2, <1>3, JoinedIs
<1>5. Len(s) \in Nat /\ Len(t) \in Nat /\ Len(u) = Len(s) + 1
  BY <1>1, <1>2 DEF Joined
<1>6. u[Len(s) + 1] = m /\ \A i \in 1..Len(s) : u[i] = s[i]
  BY <1>1, <1>2 DEF Joined
<1>7. /\ Len(K) = Len(u) + Len(t) /\ \A i \in 1..Len(u) : K[i] = u[i]
      /\ \A i \in 1..Len(t) : K[Len(u) + i] = t[i]
  BY <1>4 DEF Joined
<1>8. \A i \in 1..Len(s) : i \in 1..Len(u)
  BY <1>5
<1>9. Len(s) + 1 \in 1..Len(u)
  BY <1>5
<1>10. Len(K) = Len(s) + Len(t) + 1
  BY <1>5, <1>7
<1>11. QED
  BY <1>4, <1>5, <1>6, <1>7, <1>8, <1>9, <1>10 DEF Glued

\* The last element of the left sequence goes over to the right one; the
\* first of the right one to the left one; and the last of the left one takes
\* the place of the key between them, which goes to the right one.
LastMoves(s2, t2, s, t, T) ==
  s \in Seq(T) /\ t \in Seq(T) /\ s # << >> /\ s2 = Front(s) /\ t2 = <<Last(s)>> \o t

FirstMoves(s2, t2, s, t, T) ==
  s \in Seq(T) /\ t \in Seq(T) /\ t # << >> /\ s2 = Append(s, Head(t)) /\ t2 = Tail(t)

KeyMoves(s2, m2, t2, s, m, t, T) ==
  /\ s \in Seq(T) /\ m \in T /\ t \in Seq(T) /\ s # << >>
  /\ s2 = Front(s) /\ m2 = Last(s) /\ t2 = <<m>> \o t

LEMMA JoinedLeft ==
  ASSUME NEW s2, NEW t2, NEW s, NEW t, NEW T, LastMoves(s2, t2, s, t, T), NEW K, Joined(K, s, t)
  PROVE  /\ Joined(K, s2, t2) /\ s2 \in Seq(T) /\ t2 \in Seq(T)
         /\ Len(s2) = Len(s) - 1 /\ Len(t2) = Len(t) + 1 /\ t2[1] = Last(s)
<1>z. s \in Seq(T) /\ t \in Seq(T) /\ s # << >> /\ s2 = Front(s) /\ t2 = <<Last(s)>> \o t
  BY DEF LastMoves
<1> USE <1>z
<1>1. Len(s) \in Nat /\ Len(t) \in Nat /\ Len(s) >= 1
  BY EmptySeq
<1>2. /\ s2 \in Seq(T) /\ Len(s2) = Len(s) - 1
      /\ \A i \in 1..(Len(s) - 1) : s2[i] = s[i]
      /\ Last(s) = s[Len(s)] /\ Last(s) \in T
  BY FrontIs
<1>3. /\ t2 \in Seq(T) /\ Len(t2) = Len(t) + 1 /\ t2[1] = Last(s)
      /\ \A i \in 1..Len(t) : t2[i + 1] = t[i]
  BY <1>2, InFrontIs
<1>4. /\ Len(K) = Len(s) + Len(t) /\ \A i \in 1..Len(s) : K[i] = s[i]
      /\ \A i \in 1..Len(t) : K[Len(s) + i] = t[i]
  BY DEF Joined
<1>5. \A i \in 1..(Len(s) - 1) : K[i] = s2[i]
  BY <1>1, <1>2, <1>4
<1>6. ASSUME NEW i \in 1..(Len(t) + 1) PROVE K[Len(s2) + i] = t2[i]
  <2>1. CASE i = 1
    <3>1. Len(s2) + i = Len(s) /\ Len(s) \in 1..Len(s)
      BY <2>1, <1>1, <1>2
    <3>2. QED
      BY <3>1, <2>1, <1>2, <1>3, <1>4
  <2>2. CASE i # 1
    <3>1. /\ i - 1 \in 1..Len(t) /\ (i - 1) + 1 = i /\ Len(s2) + i = Len(s) + (i - 1)
      BY <2>2, <1>1, <1>2
    <3>2. t2[i] = t[i - 1]
      BY <3>1, <1>3
    <3>3. QED
      BY <3>1, <3>2, <1>4
  <2>3. QED
    BY <2>1, <2>2
<1>7. Len(K) = Len(s2) + Len(t2)
  BY <1>1, <1>2, <1>3, <1>4
<1>8. QED
  BY <1>2, <1>3, <1>5, <1>6, <1>7 DEF Joined

\* The first element of the right goes over to the left.
LEMMA JoinedRight ==
  ASSUME NEW s2, NEW t2, NEW s, NEW t, NEW T, FirstMoves(s2, t2, s, t, T), NEW K, Joined(K, s, t)
  PROVE  /\ Joined(K, s2, t2) /\ s2 \in Seq(T) /\ t2 \in Seq(T)
         /\ Len(s2) = Len(s) + 1 /\ Len(t2) = Len(t) - 1 /\ (Len(t) >= 2 => t2[1] = t[2])
<1>z. s \in Seq(T) /\ t \in Seq(T) /\ t # << >> /\ s2 = Append(s, Head(t)) /\ t2 = Tail(t)
  BY DEF FirstMoves
<1> USE <1>z
<1>1. Len(s) \in Nat /\ Len(t) \in Nat /\ Len(t) >= 1
  BY EmptySeq
<1>2. /\ Head(t) \in T /\ Head(t) = t[1] /\ t2 \in Seq(T) /\ Len(t2) = Len(t) - 1
      /\ \A i \in 1..Len(t2) : t2[i] = t[i + 1]
  BY HeadTailProperties
<1>3. /\ s2 \in Seq(T) /\ Len(s2) = Len(s) + 1 /\ s2[Len(s) + 1] = t[1]
      /\ \A i \in 1..Len(s) : s2[i] = s[i]
  BY <1>2, AppendIs
<1>4. /\ Len(K) = Len(s) + Len(t) /\ \A i \in 1..Len(s) : K[i] = s[i]
      /\ \A i \in 1..Len(t) : K[Len(s) + i] = t[i]
  BY DEF Joined
<1>5. ASSUME NEW i \in 1..(Len(s) + 1) PROVE K[i] = s2[i]
  <2>1. CASE i = Len(s) + 1
    <3>1. 1 \in 1..Len(t)
      BY <1>1
    <3>2. QED
      BY <3>1, <2>1, <1>3, <1>4
  <2>2. CASE i # Len(s) + 1
    <3>1. i \in 1..Len(s)
      BY <2>2, <1>1
    <3>2. QED
      BY <3>1, <1>3, <1>4
  <2>3. QED
    BY <2>1, <2>2
<1>6. ASSUME NEW i \in 1..Len(t2) PROVE K[Len(s2) + i] = t2[i]
  <2>1. i + 1 \in 1..Len(t) /\ Len(s2) + i = Len(s) + (i + 1)
    BY <1>1, <1>2, <1>3
  <2>2. QED
    BY <2>1, <1>2, <1>4
<1>7. Len(K) = Len(s2) + Len(t2)
  BY <1>1, <1>2, <1>3, <1>4
<1>8. Len(t) >= 2 => t2[1] = t[2]
  BY <1>1, <1>2
<1>9. QED
  BY <1>2, <1>3, <1>5, <1>6, <1>7, <1>8 DEF Joined

LEMMA GluedLeft ==
  ASSUME NEW s2, NEW m2, NEW t2, NEW s, NEW m, NEW t, NEW T, KeyMoves(s2, m2, t2, s, m, t, T),
         NEW K, Glued(K, s, m, t)
  PROVE  /\ Glued(K, s2, m2, t2) /\ s2 \in Seq(T) /\ t2 \in Seq(T) /\ m2 \in T
         /\ Len(s2) = Len(s) - 1 /\ Len(t2) = Len(t) + 1
<1>z. /\ s \in Seq(T) /\ m \in T /\ t \in Seq(T) /\ s # << >>
      /\ s2 = Front(s) /\ m2 = Last(s) /\ t2 = <<m>> \o t
  BY DEF KeyMoves
<1> USE <1>z
<1>1. Len(s) \in Nat /\ Len(t) \in Nat /\ Len(s) >= 1
  BY EmptySeq
<1>2. /\ s2 \in Seq(T) /\ Len(s2) = Len(s) - 1
      /\ \A i \in 1..(Len(s) - 1) : s2[i] = s[i]
      /\ Last(s) = s[Len(s)] /\ Last(s) \in T
  BY FrontIs
<1>3. /\ t2 \in Seq(T) /\ Len(t2) = Len(t) + 1 /\ t2[1] = m
      /\ \A i \in 1..Len(t) : t2[i + 1] = t[i]
  BY InFrontIs
<1>4. /\ Len(K) = Len(s) + Len(t) + 1 /\ \A i \in 1..Len(s) : K[i] = s[i]
      /\ K[Len(s) + 1] = m /\ \A i \in 1..Len(t) : K[Len(s) + 1 + i] = t[i]
  BY DEF Glued
<1>5. \A i \in 1..(Len(s) - 1) : K[i] = s2[i]
  BY <1>1, <1>2, <1>4
<1>6. ASSUME NEW i \in 1..(Len(t) + 1) PROVE K[Len(s2) + 1 + i] = t2[i]
  <2>1. CASE i = 1
    <3>1. Len(s2) + 1 + i = Len(s) + 1
      BY <2>1, <1>1, <1>2
    <3>2. QED
      BY <3>1, <2>1, <1>3, <1>4
  <2>2. CASE i # 1
    <3>1. /\ i - 1 \in 1..Len(t) /\ (i - 1) + 1 = i /\ Len(s2) + 1 + i = Len(s) + 1 + (i - 1)
      BY <2>2, <1>1, <1>2
    <3>2. t2[i] = t[i - 1]
      BY <3>1, <1>3
    <3>3. QED
      BY <3>1, <3>2, <1>4
  <2>3. QED
    BY <2>1, <2>2
<1>7. K[Len(s2) + 1] = Last(s)
  <2>1. Len(s2) + 1 = Len(s) /\ Len(s) \in 1..Len(s)
    BY <1>1, <1>2
  <2>2. QED
    BY <2>1, <1>2, <1>4
<1>8. Len(K) = Len(s2) + Len(t2) + 1
  BY <1>1, <1>2, <1>3, <1>4
<1>9. QED
  BY <1>2, <1>3, <1>5, <1>6, <1>7, <1>8 DEF Glued

\* Children a and b of node p, with key s between them.
Siblings(ns, span, level, p, a, b, s) ==
  /\ a \in 1..Len(ns) /\ b \in 1..Len(ns) /\ a # b /\ a # p /\ b # p
  /\ level[p] \in Nat /\ level[p] >= 1 /\ level[a] = level[p] - 1 /\ level[b] = level[p] - 1
  /\ span[a] \subseteq Keys /\ span[b] \subseteq Keys /\ span[a] # {} /\ span[b] # {}
  /\ s \in Keys /\ s \in Int /\ s \in span[b]
  /\ span[a] = Low(span[a] \cup span[b], s) /\ span[b] = High(span[a] \cup span[b], s)
  /\ Convex(span[a] \cup span[b]) /\ Adjacent(span[a], span[b])
  /\ ns[a].leaf = ns[b].leaf /\ (ns[a].leaf => level[p] = 1)
  /\ OthersOutside(ns, span, p, {a, b})

LEMMA SiblingsAre ==
  ASSUME NEW ns, NEW span, NEW level, Shape(ns, span, span, level),
         NEW p \in 1..Len(ns), ~ns[p].leaf, span[p] # {}, NEW i \in 1..Len(ns[p].keys),
         NEW a, a = ns[p].kids[i], NEW b, b = ns[p].kids[i + 1], NEW s, s = ns[p].keys[i]
  PROVE  Siblings(ns, span, level, p, a, b, s)
<1> DEFINE K == ns[p].keys
           S == span[p]
           h == level[p]
<1>1. /\ K \in Seq(Keys) /\ K \in Seq(Int) /\ Len(K) \in Nat /\ ns[p].kids \in Seq(1..Len(ns))
      /\ S \subseteq Keys /\ S \subseteq Int /\ h \in Nat /\ ForkFits(ns[p], S, h, span, level)
      /\ S \in SUBSET Int
  BY ShapeFacts
<1>2. /\ Len(ns[p].kids) = Len(K) + 1 /\ Ascending(K) /\ Within(K, S)
      /\ \A j \in 1..Len(ns[p].kids) : /\ level[ns[p].kids[j]] = h - 1
                                       /\ span[ns[p].kids[j]] = Part(S, K, j) /\ Part(S, K, j) # {}
  BY <1>1 DEF ForkFits
<1>3. i \in 1..Len(ns[p].kids) /\ i + 1 \in 1..Len(ns[p].kids) /\ i # i + 1
  <2>1. Len(ns[p].keys) \in Nat /\ Len(ns[p].kids) = Len(ns[p].keys) + 1
    BY <1>1, <1>2
  <2>2. QED
    BY <2>1
<1>4. a \in 1..Len(ns) /\ b \in 1..Len(ns)
  BY <1>1, <1>3, SeqFacts
<1>5. a # b
  <2>1. ns[p].kids[i] = ns[p].kids[i + 1] => i = i + 1
    BY <1>1, <1>3, KidsDiffer
  <2>2. QED
    BY <2>1, <1>3
<1>6. level[a] = h - 1 /\ level[b] = h - 1 /\ span[a] = Part(S, K, i) /\ span[b] = Part(S, K, i + 1)
  BY <1>2, <1>3
<1>7. level[a] \in Nat /\ level[b] \in Nat
  BY <1>4, ShapeFacts
<1>8. a # p /\ b # p /\ h >= 1
  <2>1. level[p] \in Nat /\ level[a] = level[p] - 1 /\ level[b] = level[p] - 1
    BY <1>1, <1>6
  <2>2. QED
    BY <2>1, <1>7
<1>9. span[a] # {} /\ span[b] # {} /\ span[a] \subseteq Keys /\ span[b] \subseteq Keys
  BY <1>2, <1>3, <1>4, ShapeFacts
<1>10. s \in Keys /\ s \in Int /\ s \in S /\ s = K[i]
  BY <1>1, <1>2, SeqFacts DEF Within
<1>11. \A k \in Int : k \in Part(S, K, i) <=> k \in S /\ (i > 1 => K[i - 1] <= k) /\ k < s
  BY <1>1, <1>10, SMTT(20) DEF Part
<1>12. \A k \in Int : k \in Part(S, K, i + 1)
                        <=> k \in S /\ s <= k /\ (i + 1 <= Len(K) => k < K[i + 1])
  <2>1. (i + 1) - 1 = i /\ i + 1 > 1
    BY <1>1
  <2>2. QED
    BY <2>1, <1>1, <1>10 DEF Part
<1>13. /\ i > 1 => K[i - 1] < s /\ K[i - 1] \in Int
       /\ i + 1 <= Len(K) => s < K[i + 1] /\ K[i + 1] \in Int
  <2>1. i > 1 => i - 1 \in 1..Len(K) /\ i - 1 < i
    BY <1>1
  <2>2. i + 1 <= Len(K) => i + 1 \in 1..Len(K) /\ i < i + 1
    BY <1>1
  <2>3. QED
    BY <2>1, <2>2, <1>1, <1>2, <1>10, SeqFacts DEF Ascending
<1>14. \A k \in span[a] : k \in Int /\ k \in S /\ (i > 1 => K[i - 1] <= k) /\ k < s
  BY <1>1, <1>6, <1>9, <1>11, KeysAreInts
<1>15. \A k \in span[b] : k \in Int /\ k \in S /\ s <= k /\ (i + 1 <= Len(K) => k < K[i + 1])
  BY <1>1, <1>6, <1>9, <1>12, KeysAreInts
<1>16. s \in span[b]
  BY <1>6, <1>10, <1>12, <1>13
<1>17. /\ span[a] = Low(span[a] \cup span[b], s) /\ span[b] = High(span[a] \cup span[b], s)
  BY <1>10, <1>14, <1>15 DEF Low, High
<1>18. Convex(span[a] \cup span[b])
  <2>1. Convex(S)
    BY DEF Shape
  <2>2. SUFFICES ASSUME NEW x \in span[a] \cup span[b], NEW y \in span[a] \cup span[b], NEW k \in Keys,
                        x <= k, k <= y
                 PROVE  k \in span[a] \cup span[b]
    BY DEF Convex
  <2>3. k \in S /\ k \in Int
    BY <2>1, <2>2, <1>14, <1>15, KeysAreInts DEF Convex
  <2>4. i > 1 => K[i - 1] <= k
    <3>1. ASSUME i > 1 PROVE K[i - 1] <= x
      BY <3>1, <2>2, <1>10, <1>13, <1>14, <1>15
    <3>2. x \in Int /\ x <= k
      BY <2>2, <1>14, <1>15
    <3>3. QED
      BY <3>1, <3>2, <2>3, <1>13
  <2>5. i + 1 <= Len(K) => k < K[i + 1]
    <3>1. ASSUME i + 1 <= Len(K) PROVE y < K[i + 1]
      BY <3>1, <2>2, <1>10, <1>13, <1>14, <1>15
    <3>2. y \in Int /\ k <= y
      BY <2>2, <1>14, <1>15
    <3>3. QED
      BY <3>1, <3>2, <2>3, <1>13
  <2>6. CASE k < s
    BY <2>3, <2>4, <2>6, <1>6, <1>11
  <2>7. CASE ~(k < s)
    <3>1. s <= k
      BY <2>3, <2>7, <1>10
    <3>2. QED
      BY <3>1, <2>3, <2>5, <1>6, <1>12
  <2>8. QED
    BY <2>6, <2>7
<1>19. Adjacent(span[a], span[b])
  BY <1>10, <1>14, <1>15, <1>18 DEF Adjacent, Before
<1>20. ns[a].leaf = ns[b].leaf /\ (ns[a].leaf => level[p] = 1)
  <2>1. ASSUME NEW x \in {a, b} PROVE ns[x].leaf <=> level[x] = 0
    <3>1. x \in 1..Len(ns) /\ span[x] # {}
      BY <1>4, <1>9
    <3>2. CASE ns[x].leaf
      BY <3>1, <3>2, ShapeFacts
    <3>3. CASE ~ns[x].leaf
      <4>1. ForkFits(ns[x], span[x], level[x], span, level) /\ ns[x].kids \in Seq(1..Len(ns))
            /\ Len(ns[x].keys) \in Nat /\ level[x] \in Nat
        BY <3>1, <3>3, ShapeFacts
      <4>2. 1 \in 1..Len(ns[x].kids) /\ ns[x].kids[1] \in 1..Len(ns)
        BY <4>1, SeqFacts, SMTT(20) DEF ForkFits
      <4>3. level[ns[x].kids[1]] < level[x] /\ level[ns[x].kids[1]] \in Nat
        BY <4>1, <4>2, ShapeFacts DEF ForkFits
      <4>4. QED
        BY <3>3, <4>1, <4>3, SMTT(20)
    <3>4. QED
      BY <3>2, <3>3
  <2>2. ns[a].leaf \in BOOLEAN /\ ns[b].leaf \in BOOLEAN
    BY <1>4, ShapeFacts
  <2>3. level[p] \in Nat /\ level[a] = level[p] - 1 /\ level[b] = level[p] - 1
    BY <1>1, <1>6
  <2>4. ns[a].leaf <=> level[p] = 1
    BY <2>1, <2>3
  <2>5. ns[b].leaf <=> level[p] = 1
    BY <2>1, <2>3
  <2>6. QED
    BY <2>2, <2>4, <2>5
<1>21. OthersOutside(ns, span, p, {a, b})
  <2>1. SUFFICES ASSUME NEW x \in 1..Len(ns), x # p PROVE KidsOutside(ns[x], span[x], {a, b})
    BY DEF OthersOutside
  <2>2. KidsOutside(ns[x], span[x], {a}) /\ KidsOutside(ns[x], span[x], {b})
    BY <2>1, <1>3, OutsideOthers
  <2>3. QED
    BY <2>2 DEF KidsOutside
<1>22. QED
  BY <1>1, <1>4, <1>5, <1>6, <1>8, <1>9, <1>10, <1>16, <1>17, <1>18, <1>19, <1>20, <1>21 DEF Siblings

-----------------------------------------------------------------------------
(* Delete, level by level.                                                 *)

\* The levels down to that of node low are done, and E is what is left; a
\* key may be missing from low.
Shrunk(ns, low, E, span0, level, span) ==
  /\ Len(ns) = Len(nodes) /\ low \in NodeIds
  /\ root \in NodeIds /\ span[root] = Keys /\ Topped(span, level, root)
  /\ Shape(ns, span, span, level) /\ Filled(ns, span, root, low) /\ Entries(ns) = E
  /\ \A id \in NodeIds : level[id] >= level[low] =>
       span[id] = span0[id] /\ (id # low => ns[id] = nodes[id])

\* Children a and b of p share out anew what they had: a gets the keys X
\* and b the keys Y.
Shared(ns2, span2, ns, span, level, p, a, b, X, Y) ==
  /\ ns2 \in Seq(Node(Len(ns))) /\ Len(ns2) = Len(ns)
  /\ span2 \in [1..Len(ns) -> SUBSET Keys] /\ span2[a] = X /\ span2[b] = Y
  /\ \A x \in 1..Len(ns) : x \notin {a, b} => span2[x] = span[x]
  /\ X \cup Y = span[a] \cup span[b] /\ X \cap Y = {} /\ Convex(X) /\ Convex(Y)
  /\ NodeFits(ns2[a], X, level[a], span, level) /\ NodeFits(ns2[b], Y, level[b], span, level)
  /\ NodeFits(ns2[p], span[p], level[p], span2, level)
  /\ \A x \in 1..Len(ns) : x \notin {a, b, p} => SameContent(ns2[x], ns[x])

NotBelow(C, level, h) == \A x \in C : ~(level[x] < h)

\* A fit speaks of the spans of the level below only.
LEMMA FitsBelow ==
  ASSUME NEW n, NEW S, NEW h, NEW seen, NEW level, NodeFits(n, S, h, seen, level),
         NEW D, NEW C, n.kids \in Seq(D), NEW seen2, SameBut(seen2, seen, D \ C), NotBelow(C, level, h)
  PROVE  NodeFits(n, S, h, seen2, level)
<1>1. CASE n.leaf
  BY <1>1 DEF NodeFits
<1>2. CASE ~n.leaf
  <2>1. ForkFits(n, S, h, seen, level)
    BY <1>2 DEF NodeFits
  <2>2. \A j \in 1..Len(n.kids) : seen2[n.kids[j]] = seen[n.kids[j]]
    <3>1. SUFFICES ASSUME NEW j \in 1..Len(n.kids) PROVE seen2[n.kids[j]] = seen[n.kids[j]]
      OBVIOUS
    <3>2. n.kids[j] \in D /\ level[n.kids[j]] < h
      BY <2>1, SeqFacts DEF ForkFits
    <3>3. QED
      BY <3>2 DEF NotBelow, SameBut
  <2>3. ForkFits(n, S, h, seen2, level)
    BY <2>1, <2>2 DEF ForkFits
  <2>4. QED
    BY <1>2, <2>3 DEF NodeFits
<1>3. QED
  BY <1>1, <1>2

LEMMA SharedShape ==
  ASSUME NEW ns, NEW span, NEW level, Shape(ns, span, span, level),
         NEW p \in 1..Len(ns), NEW a, NEW b, NEW s, Siblings(ns, span, level, p, a, b, s),
         NEW ns2, NEW span2, NEW X, NEW Y, Shared(ns2, span2, ns, span, level, p, a, b, X, Y),
         Linked(ns2, span2)
  PROVE  Shape(ns2, span2, span2, level)
<1>1. /\ a \in 1..Len(ns) /\ b \in 1..Len(ns) /\ a # b /\ a # p /\ b # p
      /\ level[a] = level[b] /\ OthersOutside(ns, span, p, {a, b})
  BY DEF Siblings
<1>2. /\ Len(ns) \in Nat /\ span \in [1..Len(ns) -> SUBSET Keys] /\ level \in [1..Len(ns) -> Nat]
      /\ DOMAIN span = 1..Len(ns)
  BY ShapeFacts
<1>3. ns2 \in Seq(Node(Len(ns2))) /\ Len(ns2) = Len(ns)
  BY DEF Shared
<1>4. /\ span2 \in [1..Len(ns2) -> SUBSET Keys] /\ level \in [1..Len(ns2) -> Nat]
      /\ DOMAIN span2 = 1..Len(ns)
  BY <1>2, <1>3 DEF Shared
<1>5. SameBut(level, level, 1..Len(ns)) /\ SameBut(span2, span, (1..Len(ns)) \ {a, b})
  BY DEF SameBut, Shared
<1>6. Apart(span2, level)
  <2>1. SharedOut(span2, level, a, b, span, level, {a, b}, level[a])
    <3>1. UNION {span[o] : o \in {a, b}} = span[a] \cup span[b]
      OBVIOUS
    <3>2. {a, b} \subseteq DOMAIN span /\ \A o \in {a, b} : level[o] = level[a]
      BY <1>1, <1>2
    <3>3. \A id \in DOMAIN span2 : id \notin {a, b} => id \in DOMAIN span /\ span2[id] = span[id]
      BY <1>2, <1>4 DEF Shared
    <3>4. span2[a] \cap span2[b] = {} /\ span2[a] \cup span2[b] = span[a] \cup span[b]
      BY DEF Shared
    <3>5. QED
      BY <1>1, <3>1, <3>2, <3>3, <3>4 DEF SharedOut
  <2>2. Apart(span, level)
    BY DEF Shape
  <2>3. QED
    BY <2>1, <2>2, ApartStill
<1>7. ASSUME NEW id \in 1..Len(ns2)
      PROVE  IF id \in {a, b, p} THEN Touched(id, ns2, span2, span2, level)
                                 ELSE Untouched(id, ns, span, ns2, span2, {a, b})
  <2>1. id \in 1..Len(ns) /\ Convex(span[id])
    BY <1>3 DEF Shape
  <2>2. CASE id \in {a, b}
    <3>1. NodeFits(ns2[id], span2[id], level[id], span, level) /\ Convex(span2[id])
      BY <2>2 DEF Shared
    <3>2. ns2[id].kids \in Seq(1..Len(ns))
      <4>1. ns2 \in Seq(Node(Len(ns)))
        BY DEF Shared
      <4>2. ns2[id] \in Node(Len(ns))
        BY <4>1, SeqFacts
      <4>3. QED
        BY <4>2, <1>2, NodeFacts
    <3>3. NotBelow({a, b}, level, level[id])
      <4>1. level[a] \in Nat /\ level[b] \in Nat
        BY <1>1, <1>2
      <4>2. QED
        BY <4>1, <1>1, <2>2 DEF NotBelow
    <3>4. SameBut(span2, span, (1..Len(ns)) \ {a, b})
      BY <1>5
    <3>5. NodeFits(ns2[id], span2[id], level[id], span2, level)
      BY <3>1, <3>2, <3>3, <3>4, FitsBelow
    <3>6. QED
      BY <2>2, <3>1, <3>5 DEF Touched
  <2>3. CASE id = p
    <3>1. NodeFits(ns2[p], span[p], level[p], span2, level) /\ span2[p] = span[p]
      BY <1>1 DEF Shared
    <3>2. QED
      BY <2>1, <2>3, <3>1 DEF Touched
  <2>4. CASE id \notin {a, b, p}
    <3>1. SameContent(ns2[id], ns[id]) /\ span2[id] = span[id]
      BY <2>1, <2>4 DEF Shared
    <3>2. KidsOutside(ns[id], span[id], {a, b})
      BY <1>1, <2>1, <2>4 DEF OthersOutside
    <3>3. QED
      BY <2>1, <2>4, <3>1, <3>2 DEF Untouched
  <2>5. QED
    BY <2>2, <2>3, <2>4
<1>8. \A id \in 1..Len(ns2) : IF id \in {a, b, p} THEN Touched(id, ns2, span2, span2, level)
                              ELSE Untouched(id, ns, span, ns2, span2, {a, b})
  BY <1>7
<1>9. QED
  BY <1>3, <1>4, <1>5, <1>6, <1>8, Reshape

SharedFills(ns2, ns, level, p, a, b, X, Y, S) ==
  /\ NodeFilled(ns2[a], X, a, root, p) /\ NodeFilled(ns2[b], Y, b, root, p)
  /\ NodeFilled(ns2[p], S, p, root, p) /\ EntriesOf(ns2[p]) = {}
  /\ EntriesOf(ns2[a]) \cup EntriesOf(ns2[b]) = EntriesOf(ns[a]) \cup EntriesOf(ns[b])
  /\ \A x \in 1..Len(ns) : x \notin {a, b, p} /\ level[x] >= level[p] => ns2[x] = ns[x]

\* Only the leaves have entries.
LEMMA ForkEntries ==
  ASSUME NEW n, n.locs = << >>
  PROVE  EntriesOf(n) = {}
<1>1. 1..Len(n.locs) = {}
  OBVIOUS
<1>2. QED
  BY <1>1 DEF EntriesOf

LEMMA SharedKeeps ==
  ASSUME NEW ns, NEW c, NEW E, NEW span0, NEW level, NEW span, Shrunk(ns, c, E, span0, level, span),
         NEW p \in 1..Len(ns), ~ns[p].leaf, span[p] # {}, NEW a, NEW b, NEW s, c \in {a, b},
         Siblings(ns, span, level, p, a, b, s),
         NEW ns2, NEW span2, NEW X, NEW Y, Shared(ns2, span2, ns, span, level, p, a, b, X, Y),
         SharedFills(ns2, ns, level, p, a, b, X, Y, span[p]), Linked(ns2, span2)
  PROVE  Shrunk(ns2, p, E, span0, level, span2)
<1>1. /\ Shape(ns, span, span, level) /\ Len(ns) = Len(nodes) /\ root \in 1..Len(ns)
      /\ span[root] = Keys /\ Topped(span, level, root) /\ Filled(ns, span, root, c) /\ Entries(ns) = E
  BY DEF Shrunk, NodeIds
<1>2. /\ Len(ns) \in Nat /\ span \in [1..Len(ns) -> SUBSET Keys] /\ level \in [1..Len(ns) -> Nat]
      /\ DOMAIN span = 1..Len(ns)
  BY <1>1, ShapeFacts
<1>3. /\ a \in 1..Len(ns) /\ b \in 1..Len(ns) /\ a # b /\ a # p /\ b # p
      /\ level[a] = level[p] - 1 /\ level[b] = level[p] - 1
      /\ span[a] # {} /\ span[b] # {}
  BY DEF Siblings
<1>4. Shape(ns2, span2, span2, level)
  BY <1>1, SharedShape
<1>5. /\ Len(ns2) = Len(ns) /\ span2[a] = X /\ span2[b] = Y
      /\ \A x \in 1..Len(ns) : x \notin {a, b} => span2[x] = span[x]
      /\ \A x \in 1..Len(ns) : x \notin {a, b, p} => SameContent(ns2[x], ns[x])
      /\ DOMAIN span2 = 1..Len(ns)
  BY DEF Shared
<1>6. /\ NodeFilled(ns2[a], X, a, root, p) /\ NodeFilled(ns2[b], Y, b, root, p)
      /\ NodeFilled(ns2[p], span[p], p, root, p)
      /\ EntriesOf(ns2[p]) = {}
      /\ EntriesOf(ns2[a]) \cup EntriesOf(ns2[b]) = EntriesOf(ns[a]) \cup EntriesOf(ns[b])
      /\ \A x \in 1..Len(ns) : x \notin {a, b, p} /\ level[x] >= level[p] => ns2[x] = ns[x]
  BY DEF SharedFills
<1>7. root \notin {a, b}
  <2>1. level[p] <= level[root]
    BY <1>1, <1>2 DEF Topped
  <2>2. level[p] \in Nat /\ level[root] \in Nat
    BY <1>1, <1>2
  <2>3. QED
    BY <2>1, <2>2, <1>3
<1>8. span2[root] = Keys
  BY <1>1, <1>5, <1>7
<1>9. Topped(span2, level, root)
  <2>1. SUFFICES ASSUME NEW id \in 1..Len(ns), span2[id] # {} PROVE level[id] <= level[root]
    BY <1>5 DEF Topped
  <2>2. span[id] # {}
    BY <2>1, <1>3, <1>5
  <2>3. QED
    BY <2>1, <2>2, <1>1, <1>2 DEF Topped
<1>10. Filled(ns2, span2, root, p)
  <2>1. SUFFICES ASSUME NEW id \in 1..Len(ns), id \notin {a, b, p}
                 PROVE  NodeFilled(ns2[id], span2[id], id, root, p)
    BY <1>3, <1>5, <1>6 DEF Filled
  <2>2. NodeFilled(ns[id], span[id], id, root, c)
    BY <1>1 DEF Filled
  <2>3. id # c /\ id # p
    BY <2>1
  <2>4. NodeFilled(ns[id], span[id], id, root, p)
    BY <2>2, <2>3 DEF NodeFilled
  <2>5. span2[id] = span[id] /\ SameContent(ns2[id], ns[id])
    BY <2>1, <1>5
  <2>6. QED
    BY <2>4, <2>5, FilledStill
<1>11. Entries(ns2) = E
  <2>1. HeldMore(ns2, {a, b, p}, ns, {a, b, p}, {})
    <3>1. {a, b, p} \subseteq 1..Len(ns) /\ {a, b, p} \subseteq 1..Len(ns2)
      BY <1>3, <1>5
    <3>2. \A id \in (1..Len(ns)) \ {a, b, p} : EntriesOf(ns2[id]) = EntriesOf(ns[id])
      BY <1>5, SameContentEntries
    <3>3. EntriesOf(ns[p]) = {}
      <4>1. ns[p].locs = << >>
        BY <1>1, ShapeFacts DEF ForkFits
      <4>2. QED
        BY <4>1, ForkEntries
    <3>4. Held(ns2, {a, b, p}) = EntriesOf(ns2[a]) \cup EntriesOf(ns2[b]) \cup EntriesOf(ns2[p])
      BY DEF Held
    <3>5. Held(ns, {a, b, p}) = EntriesOf(ns[a]) \cup EntriesOf(ns[b]) \cup EntriesOf(ns[p])
      BY DEF Held
    <3>6. Held(ns2, {a, b, p}) = {} \cup Held(ns, {a, b, p})
      BY <3>3, <3>4, <3>5, <1>6
    <3>7. QED
      BY <3>1, <3>2, <3>6, <1>5 DEF HeldMore
  <2> DEFINE D == {a, b, p}
             none == {}
  <2>2. HeldMore(ns2, D, ns, D, none)
    BY <2>1
  <2> HIDE DEF D, none
  <2>3. Entries(ns2) = Entries(ns) \cup none
    BY <2>2, EntriesAre
  <2>4. QED
    BY <2>3, <1>1 DEF none
<1>12. \A id \in NodeIds : level[id] >= level[p] => span2[id] = span0[id] /\ (id # p => ns2[id] = nodes[id])
  <2>1. SUFFICES ASSUME NEW id \in 1..Len(ns), level[id] >= level[p]
                 PROVE  span2[id] = span0[id] /\ (id # p => ns2[id] = nodes[id])
    BY <1>1 DEF NodeIds
  <2>2. level[id] \in Nat /\ level[p] \in Nat
    BY <1>2
  <2>3. id \notin {a, b} /\ level[id] >= level[c]
    BY <2>1, <2>2, <1>3
  <2>4. id \in NodeIds /\ id # c
    BY <2>3, <1>1 DEF NodeIds
  <2>5. span[id] = span0[id] /\ ns[id] = nodes[id]
    BY <2>3, <2>4 DEF Shrunk
  <2>6. QED
    BY <2>1, <2>3, <2>5, <1>5, <1>6
<1>13. QED
  BY <1>1, <1>4, <1>5, <1>8, <1>9, <1>10, <1>11, <1>12 DEF Shrunk, NodeIds

TwoSpans(span, n, a, b, X, Y) ==
  [x \in 1..n |-> IF x = a THEN X ELSE IF x = b THEN Y ELSE span[x]]

SpansShared(span2, span, n, a, b, X, Y) ==
  /\ span2 \in [1..n -> SUBSET Keys] /\ span2[a] = X /\ span2[b] = Y
  /\ \A x \in 1..n : x \notin {a, b} => span2[x] = span[x]

LEMMA TwoSpansAre ==
  ASSUME NEW n \in Nat, NEW span \in [1..n -> SUBSET Keys], NEW a \in 1..n, NEW b \in 1..n, a # b,
         NEW X \in SUBSET Keys, NEW Y \in SUBSET Keys
  PROVE  SpansShared(TwoSpans(span, n, a, b, X, Y), span, n, a, b, X, Y)
  BY DEF TwoSpans, SpansShared

\* Keys moved between nodes l and r, which together have the span U: now m
\* is the key to cut it at.
WellMoved(l2, r2, l, r, U, m, h, span, level, n) ==
  /\ l2 \in Node(n) /\ r2 \in Node(n) /\ SameLinks(l2, l) /\ SameLinks(r2, r)
  /\ m \in U /\ m \in Keys /\ Low(U, m) # {}
  /\ NodeFits(l2, Low(U, m), h, span, level) /\ NodeFits(r2, High(U, m), h, span, level)
  /\ EntriesOf(l2) \cup EntriesOf(r2) = EntriesOf(l) \cup EntriesOf(r)
  /\ HalfFilled(l2) /\ HalfFilled(r2)

NodesMoved(ns2, ns, a, b, p, l2, r2, q) ==
  /\ ns2 \in Seq(Node(Len(ns))) /\ Len(ns2) = Len(ns)
  /\ ns2[a] = l2 /\ ns2[b] = r2 /\ ns2[p] = q
  /\ \A x \in 1..Len(ns) : x \notin {a, b, p} => ns2[x] = ns[x]

LEMMA NewSeparatorIs ==
  ASSUME NEW n \in Nat, NEW p \in Node(n), ~p.leaf, p.locs = << >>, NEW i \in 1..Len(p.keys), NEW m \in Keys,
         NEW q, q = NewSeparator(p, i, m)
  PROVE  /\ q \in Node(n) /\ SameLinks(q, p) /\ ~q.leaf /\ Count(q) = Count(p)
         /\ IsFork(q, [p.keys EXCEPT ![i] = m], p.kids)
<1>1. p.keys \in Seq(Keys) /\ Len(p.keys) \in Nat
  BY NodeFacts
<1>2. [p.keys EXCEPT ![i] = m] \in Seq(Keys) /\ Len([p.keys EXCEPT ![i] = m]) = Len(p.keys)
  BY <1>1
<1>3. q = [p EXCEPT !.keys = [p.keys EXCEPT ![i] = m]]
  BY DEF NewSeparator
<1> DEFINE k == [p.keys EXCEPT ![i] = m]
<1>4. k \in Seq(Keys) /\ Len(k) = Len(p.keys) /\ q = [p EXCEPT !.keys = k]
  BY <1>2, <1>3
<1> HIDE DEF k
<1>5. /\ q \in Node(n) /\ q.keys = k /\ q.leaf = p.leaf /\ q.locs = p.locs /\ q.kids = p.kids
      /\ q.next = p.next /\ q.prev = p.prev
  BY <1>4 DEF Node
<1>6. QED
  BY <1>4, <1>5 DEF k, SameLinks, Count, IsFork

\* The node above fits when the key between the two is m.
LEMMA ParentMoved ==
  ASSUME NEW ns, NEW span, NEW level, Shape(ns, span, span, level),
         NEW p \in 1..Len(ns), ~ns[p].leaf, span[p] # {}, NEW i \in 1..Len(ns[p].keys),
         NEW a, a = ns[p].kids[i], NEW b, b = ns[p].kids[i + 1],
         NEW m \in span[a] \cup span[b], Low(span[a] \cup span[b], m) # {}, m \in Keys,
         NEW span2,
         SpansShared(span2, span, Len(ns), a, b, Low(span[a] \cup span[b], m), High(span[a] \cup span[b], m)),
         NEW q, q = NewSeparator(ns[p], i, m)
  PROVE  NodeFits(q, span[p], level[p], span2, level)
<1> DEFINE n == ns[p]
           U == span[a] \cup span[b]
           S == span[p]
           h == level[p]
           D == 1..Len(ns)
<1>1. /\ n.keys \in Seq(Int) /\ n.kids \in Seq(D) /\ S \in SUBSET Int /\ ForkFits(n, S, h, span, level)
      /\ n \in Node(Len(ns)) /\ Len(ns) \in Nat /\ Len(n.keys) \in Nat
  BY ShapeFacts
<1>2. n.locs = << >> /\ Len(n.kids) = Len(n.keys) + 1
  BY <1>1 DEF ForkFits
<1>3. ~q.leaf /\ IsFork(q, [n.keys EXCEPT ![i] = m], n.kids)
  BY <1>1, <1>2, NewSeparatorIs
<1>4. i \in 1..Len(n.kids) /\ i + 1 \in 1..Len(n.kids)
  <2>1. Len(n.keys) \in Nat
    BY <1>1
  <2>2. QED
    BY <2>1, <1>2
<1>5. \A x \in 1..Len(n.kids) : x # i /\ x # i + 1 => n.kids[x] \in D /\ n.kids[x] # a /\ n.kids[x] # b
  <2>1. SUFFICES ASSUME NEW x \in 1..Len(n.kids), x # i, x # i + 1
                 PROVE  n.kids[x] \in D /\ n.kids[x] # a /\ n.kids[x] # b
    OBVIOUS
  <2>2. n.kids[x] \in D
    BY <1>1, SeqFacts
  <2>3. n.kids[x] = n.kids[i] => x = i
    BY <1>1, <1>4, KidsDiffer
  <2>4. n.kids[x] = n.kids[i + 1] => x = i + 1
    BY <1>1, <1>4, KidsDiffer
  <2>5. QED
    BY <2>1, <2>2, <2>3, <2>4
<1>6. KidsMoved(n, i, m, span, span2)
  <2>1. m \in U /\ \E x \in U : x < m
    BY DEF Low
  <2>2. span2[a] = Low(U, m) /\ span2[b] = High(U, m)
    BY DEF SpansShared
  <2>3. \A x \in 1..Len(n.kids) : x # i /\ x # i + 1 => span2[n.kids[x]] = span[n.kids[x]]
    BY <1>5 DEF SpansShared
  <2>4. QED
    BY <2>1, <2>2, <2>3 DEF KidsMoved
<1>7. Keyed(n, D)
  BY <1>1 DEF Keyed
<1>8. S # {}
  OBVIOUS
<1> HIDE DEF n, U, S, h, D
<1>9. ForkFits(q, S, h, span2, level)
  <2>1. i \in 1..Len(n.keys)
    BY DEF n
  <2>2. QED
    BY <2>1, <1>1, <1>3, <1>6, <1>7, <1>8, ForkReplace
<1>10. QED
  BY <1>3, <1>9 DEF NodeFits, S, h

LEMMA MovedLinked ==
  ASSUME NEW ns, NEW span, NEW level, Shape(ns, span, span, level),
         NEW p \in 1..Len(ns), NEW a, NEW b, NEW s, Siblings(ns, span, level, p, a, b, s),
         NEW m \in Int, NEW l2, NEW r2, NEW q, NEW ns2, NodesMoved(ns2, ns, a, b, p, l2, r2, q),
         SameLinks(l2, ns[a]), SameLinks(r2, ns[b]), SameLinks(q, ns[p]),
         NEW span2,
         SpansShared(span2, span, Len(ns), a, b, Low(span[a] \cup span[b], m), High(span[a] \cup span[b], m)),
         Low(span[a] \cup span[b], m) # {}, High(span[a] \cup span[b], m) # {}
  PROVE  Linked(ns2, span2)
<1>1. /\ a \in 1..Len(ns) /\ b \in 1..Len(ns) /\ ns[a].leaf = ns[b].leaf /\ span[a] # {} /\ span[b] # {}
      /\ Adjacent(span[a], span[b])
  BY DEF Siblings
<1>2. /\ Len(ns) \in Nat /\ span \in [1..Len(ns) -> SUBSET Keys] /\ Linked(ns, span)
  BY ShapeFacts DEF Shape
<1>3. Len(ns2) = Len(ns) /\ \A x \in 1..Len(ns) : SameLinks(ns2[x], ns[x])
  <2>1. SUFFICES ASSUME NEW x \in 1..Len(ns) PROVE SameLinks(ns2[x], ns[x])
    BY DEF NodesMoved
  <2>2. CASE x = a
    BY <2>2 DEF NodesMoved
  <2>3. CASE x = b
    BY <2>3 DEF NodesMoved
  <2>4. CASE x = p
    BY <2>4 DEF NodesMoved
  <2>5. CASE x \notin {a, b, p}
    BY <2>5 DEF NodesMoved, SameLinks
  <2>6. QED
    BY <2>2, <2>3, <2>4, <2>5
<1>4. \A x \in 1..Len(ns) : x \notin {a, b} => span2[x] = span[x]
  BY DEF SpansShared
<1>5. CASE ns[a].leaf
  <2>1. LiveLeaf(ns, span, a) /\ LiveLeaf(ns, span, b)
    BY <1>1, <1>5 DEF LiveLeaf
  <2>2. ns[a].next = b
    BY <2>1, <1>1, NextIs
  <2>3. LeavesMove(ns2, span2, ns, span, a, b, m)
    BY <1>3, <1>4, <2>2 DEF LeavesMove, SpansShared
  <2>4. QED
    BY <2>1, <2>3, <1>2, LinkedMoved
<1>6. CASE ~ns[a].leaf
  <2>1. LeavesStill(ns2, span2, ns, span)
    BY <1>1, <1>3, <1>4, <1>6 DEF LeavesStill
  <2>2. Len(ns2) \in Nat /\ Len(ns2) >= Len(ns)
    BY <1>2, <1>3
  <2>3. QED
    BY <1>2, <2>1, <2>2, LinkedStill
<1>7. QED
  BY <1>5, <1>6

\* A node lends to the one next to it.
LEMMA MovedKeeps ==
  ASSUME NEW ns, NEW c, NEW E, NEW span0, NEW level, NEW span, Shrunk(ns, c, E, span0, level, span),
         NEW p \in 1..Len(ns), ~ns[p].leaf, span[p] # {}, NEW i \in 1..Len(ns[p].keys),
         NEW a, a = ns[p].kids[i], NEW b, b = ns[p].kids[i + 1], c \in {a, b}, NEW s,
         Siblings(ns, span, level, p, a, b, s), NEW l2, NEW r2, NEW m,
         WellMoved(l2, r2, ns[a], ns[b], span[a] \cup span[b], m, level[a], span, level, Len(ns)),
         NEW q, q = NewSeparator(ns[p], i, m), NEW ns2, NodesMoved(ns2, ns, a, b, p, l2, r2, q)
  PROVE  \E span2 : Shrunk(ns2, p, E, span0, level, span2)
<1> DEFINE U == span[a] \cup span[b]
           X == Low(U, m)
           Y == High(U, m)
           span2 == TwoSpans(span, Len(ns), a, b, X, Y)
<1>1. /\ Shape(ns, span, span, level) /\ Len(ns) = Len(nodes) /\ Filled(ns, span, root, c)
  BY DEF Shrunk
<1>2. /\ Len(ns) \in Nat /\ span \in [1..Len(ns) -> SUBSET Keys] /\ ns[p] \in Node(Len(ns))
      /\ ForkFits(ns[p], span[p], level[p], span, level)
  BY <1>1, ShapeFacts
<1>3. /\ a \in 1..Len(ns) /\ b \in 1..Len(ns) /\ a # b /\ a # p /\ b # p
      /\ U \in SUBSET Keys /\ Convex(U) /\ level[a] = level[b]
  BY DEF Siblings
<1>4. /\ l2 \in Node(Len(ns)) /\ r2 \in Node(Len(ns)) /\ SameLinks(l2, ns[a]) /\ SameLinks(r2, ns[b])
      /\ m \in U /\ m \in Keys /\ X # {}
      /\ NodeFits(l2, X, level[a], span, level) /\ NodeFits(r2, Y, level[a], span, level)
      /\ EntriesOf(l2) \cup EntriesOf(r2) = EntriesOf(ns[a]) \cup EntriesOf(ns[b])
      /\ HalfFilled(l2) /\ HalfFilled(r2)
  BY DEF WellMoved
<1>5. m \in Int /\ m \in Y
  <2>1. m \in Int /\ m \in U
    BY <1>4, KeysAreInts
  <2>2. m <= m
    BY <2>1
  <2> HIDE DEF U
  <2>3. m \in Y
    BY <2>1, <2>2 DEF High
  <2>4. QED
    BY <2>1, <2>3
<1>6. /\ X \cup Y = U /\ X \cap Y = {} /\ X \in SUBSET Keys /\ Y \in SUBSET Keys /\ Convex(X) /\ Convex(Y)
  BY <1>3, <1>5, HalvesAre
<1> HIDE DEF X, Y
<1>7. SpansShared(span2, span, Len(ns), a, b, X, Y)
  BY <1>2, <1>3, <1>6, TwoSpansAre
<1> HIDE DEF span2
<1>8. q \in Node(Len(ns)) /\ SameLinks(q, ns[p]) /\ ~q.leaf /\ Count(q) = Count(ns[p]) /\ q.locs = << >>
  <2>1. ns[p].locs = << >>
    BY <1>2 DEF ForkFits
  <2>2. m \in Keys
    BY <1>4
  <2>3. /\ q \in Node(Len(ns)) /\ SameLinks(q, ns[p]) /\ ~q.leaf /\ Count(q) = Count(ns[p])
        /\ IsFork(q, [ns[p].keys EXCEPT ![i] = m], ns[p].kids)
    BY <2>1, <2>2, <1>2, NewSeparatorIs
  <2>4. QED
    BY <2>3 DEF IsFork
<1>9. NodeFits(q, span[p], level[p], span2, level)
  BY <1>1, <1>4, <1>7, ParentMoved DEF X, Y
<1>10. Linked(ns2, span2)
  BY <1>1, <1>4, <1>5, <1>7, <1>8, MovedLinked DEF X, Y
<1>11. ns2[a] = l2 /\ ns2[b] = r2 /\ ns2[p] = q
  BY DEF NodesMoved
<1>12. Shared(ns2, span2, ns, span, level, p, a, b, X, Y)
  <2>1. ns2 \in Seq(Node(Len(ns))) /\ Len(ns2) = Len(ns)
    BY DEF NodesMoved
  <2>2. \A x \in 1..Len(ns) : x \notin {a, b, p} => SameContent(ns2[x], ns[x])
    BY DEF NodesMoved, SameContent
  <2>3. QED
    BY <1>3, <1>4, <1>6, <1>7, <1>9, <1>11, <2>1, <2>2 DEF Shared, SpansShared
<1>13. SharedFills(ns2, ns, level, p, a, b, X, Y, span[p])
  <2>1. NodeFilled(l2, X, a, root, p) /\ NodeFilled(r2, Y, b, root, p)
    <3>1. Count(l2) \in Nat /\ Count(r2) \in Nat
      BY <1>2, <1>4, NodeFacts DEF Count
    <3>2. a # 0 /\ b # 0
      <4>1. Len(ns) \in Nat /\ a \in 1..Len(ns) /\ b \in 1..Len(ns)
        BY <1>2, <1>3, Zenon
      <4>2. QED
        BY <4>1
    <3>3. NodeFilled(l2, X, a, root, 0) /\ NodeFilled(r2, Y, b, root, 0)
      BY <3>1, <3>2, <1>4, HalfFilledFits
    <3>4. QED
      BY <3>2, <3>3, <1>3 DEF NodeFilled
  <2>2. NodeFilled(q, span[p], p, root, p)
    <3>1. NodeFilled(ns[p], span[p], p, root, c) /\ c # p /\ ~ns[p].leaf
      BY <1>1, <1>3 DEF Filled
    <3>2. Count(q) \in Nat /\ Count(q) = Count(ns[p]) /\ ~q.leaf
      BY <1>2, <1>8, NodeFacts DEF Count
    <3>3. InternalOrder \div 2 \in Int
      BY TreeAssumption
    <3>4. QED
      BY <3>1, <3>2, <3>3 DEF NodeFilled, MinKeys
  <2>3. EntriesOf(q) = {}
    BY <1>8, ForkEntries
  <2>4. \A x \in 1..Len(ns) : x \notin {a, b, p} /\ level[x] >= level[p] => ns2[x] = ns[x]
    BY DEF NodesMoved
  <2>5. QED
    BY <2>1, <2>2, <2>3, <2>4, <1>4, <1>11 DEF SharedFills
<1>14. Shrunk(ns2, p, E, span0, level, span2)
  <2> HIDE DEF U
  <2>1. QED
    BY <1>10, <1>12, <1>13, SharedKeeps
<1>15. QED
  BY <1>14

\* Node x has what nodes l and r had, whose span is U together.
WellJoined(x, l, r, U, h, span, level, n) ==
  /\ x \in Node(n) /\ x.leaf = l.leaf /\ x.next = r.next /\ x.prev = l.prev
  /\ NodeFits(x, U, h, span, level) /\ EntriesOf(x) = EntriesOf(l) \cup EntriesOf(r)
  /\ HalfFilled(x)

NodesMerged(ns2, ns, a, b, p, x, q) ==
  /\ ns2 \in Seq(Node(Len(ns))) /\ Len(ns2) = Len(ns)
  /\ ns2[a] = x /\ ns2[b] = EmptyLeaf /\ ns2[p] = q
  /\ \A y \in 1..Len(ns) : y \notin {a, b, p} =>
       ns2[y] = IF y = ns[b].next THEN LinkedBack(ns[y], a) ELSE ns[y]

\* The leaf after the right one of two.
LEMMA AfterIs ==
  ASSUME NEW ns, NEW span, NEW level, Shape(ns, span, span, level),
         NEW p \in 1..Len(ns), NEW a, NEW b, NEW s, Siblings(ns, span, level, p, a, b, s), ~ns[p].leaf
  PROVE  ns[b].next # NoLeaf =>
           /\ ns[b].leaf /\ LiveLeaf(ns, span, ns[b].next) /\ ns[b].next \notin {a, b, p}
           /\ level[ns[b].next] = 0
<1>1. /\ a \in 1..Len(ns) /\ b \in 1..Len(ns) /\ span[a] # {} /\ span[b] # {}
      /\ Adjacent(span[a], span[b]) /\ span[a] \subseteq Keys /\ span[b] \subseteq Keys
  BY DEF Siblings
<1>2. Linked(ns, span)
  BY DEF Shape
<1>3. SUFFICES ASSUME ns[b].next # NoLeaf
               PROVE  /\ ns[b].leaf /\ LiveLeaf(ns, span, ns[b].next) /\ ns[b].next \notin {a, b, p}
                      /\ level[ns[b].next] = 0
  OBVIOUS
<1>4. /\ LiveLeaf(ns, span, b) /\ LiveLeaf(ns, span, ns[b].next)
      /\ Adjacent(span[b], span[ns[b].next])
  BY <1>1, <1>2, <1>3, LinksOf
<1>5. ns[b].next # b
  BY <1>1, <1>4, NotBeforeItself
<1>6. ns[b].next # a
  <2>1. SUFFICES ASSUME ns[b].next = a PROVE FALSE
    OBVIOUS
  <2>2. PICK x \in span[a], y \in span[b] : TRUE
    BY <1>1
  <2>3. x < y /\ y < x /\ x \in Int /\ y \in Int
    BY <1>1, <1>4, <2>1, <2>2, KeysAreInts DEF Adjacent, Before
  <2>4. QED
    BY <2>3
<1>7. ns[b].next # p
  BY <1>4 DEF LiveLeaf
<1>8. level[ns[b].next] = 0
  BY <1>4, ShapeFacts DEF LiveLeaf
<1>9. QED
  BY <1>4, <1>5, <1>6, <1>7, <1>8 DEF LiveLeaf

LEMMA MergedLinked ==
  ASSUME NEW ns, NEW span, NEW level, Shape(ns, span, span, level),
         NEW p \in 1..Len(ns), ~ns[p].leaf, NEW a, NEW b, NEW s, Siblings(ns, span, level, p, a, b, s),
         NEW x, x.leaf = ns[a].leaf, x.next = ns[b].next, x.prev = ns[a].prev,
         NEW q, ~q.leaf, q.next = NoLeaf,
         NEW ns2, NodesMerged(ns2, ns, a, b, p, x, q),
         NEW span2, SpansShared(span2, span, Len(ns), a, b, span[a] \cup span[b], {})
  PROVE  Linked(ns2, span2)
<1> DEFINE n == Len(ns)
           after == ns[b].next
<1>1. /\ a \in 1..n /\ b \in 1..n /\ a # b /\ a # p /\ b # p
      /\ ns[a].leaf = ns[b].leaf /\ span[a] # {} /\ span[b] # {} /\ Adjacent(span[a], span[b])
  BY DEF Siblings
<1>2. /\ n \in Nat /\ span \in [1..n -> SUBSET Keys] /\ Linked(ns, span)
  BY ShapeFacts DEF Shape
<1>3. /\ Len(ns2) = n /\ DOMAIN ns2 = 1..n
      /\ ns2[a] = x /\ ns2[b] = EmptyLeaf /\ ns2[p] = q
      /\ \A y \in 1..n : y \notin {a, b, p} => ns2[y] = IF y = after THEN LinkedBack(ns[y], a) ELSE ns[y]
  BY <1>2 DEF NodesMerged
<1>4. EmptyLeaf.next = NoLeaf
  BY DEF EmptyLeaf
<1>5. /\ span2[a] = span[a] \cup span[b] /\ span2[b] = {}
      /\ \A y \in 1..n : y \notin {a, b} => span2[y] = span[y]
  BY DEF SpansShared
<1>6. after # NoLeaf => /\ ns[b].leaf /\ LiveLeaf(ns, span, after) /\ after \notin {a, b, p}
  BY AfterIs
<1>7. ~LiveLeaf(ns2, span2, b) /\ ~LiveLeaf(ns2, span2, p)
  BY <1>3, <1>5 DEF LiveLeaf
<1>8. CASE ns[a].leaf
  <2> DEFINE ns3 == [y \in 1..n |-> IF y = p THEN ns[p] ELSE ns2[y]]
  <2>1. LiveLeaf(ns, span, a) /\ LiveLeaf(ns, span, b)
    BY <1>1, <1>8 DEF LiveLeaf
  <2>2. ns[a].next = b
    BY <2>1, <1>1, NextIs
  <2>3. Len(ns3) = n /\ \A y \in 1..n : ns3[y] = IF y = p THEN ns[p] ELSE ns2[y]
    BY <1>2
  <2> HIDE DEF ns3
  <2>4. ns3[a] = x /\ ns3[b] = EmptyLeaf
    BY <1>1, <1>3, <2>3
  <2>5. after # NoLeaf => ns3[after].leaf /\ ns3[after].next = ns[after].next /\ ns3[after].prev = a
    <3>1. SUFFICES ASSUME after # NoLeaf
                   PROVE  ns3[after].leaf /\ ns3[after].next = ns[after].next /\ ns3[after].prev = a
      OBVIOUS
    <3>2. after \in 1..n /\ ns[after].leaf /\ after \notin {a, b, p}
      BY <3>1, <1>6 DEF LiveLeaf
    <3>3. ns3[after] = LinkedBack(ns[after], a)
      BY <3>2, <1>3, <2>3
    <3>4. ns[after] \in Node(n) /\ a \in 0..n
      <4>1. ns[after] \in Node(n)
        BY <3>2, ShapeFacts
      <4>2. QED
        BY <4>1, <1>1, <1>2
    <3>5. LinkedBack(ns[after], a).prev = a /\ SameButPrev(LinkedBack(ns[after], a), ns[after])
      BY <3>4, <1>2, LinkedBackIs
    <3>6. QED
      BY <3>2, <3>3, <3>5 DEF SameButPrev, SameContent
  <2>6. ASSUME NEW y \in 1..n, y \notin {a, b}
        PROVE  span2[y] = span[y] /\ (y # after => SameLinks(ns3[y], ns[y]))
    <3>1. y # after => ns3[y] = ns[y]
      BY <2>6, <2>3, <1>3
    <3>2. QED
      BY <3>1, <2>6, <1>5 DEF SameLinks
  <2>7. LeavesMerge(ns3, span2, ns, span, a, b)
    BY <2>2, <2>3, <2>4, <2>5, <2>6, <1>4, <1>5, <1>8 DEF LeavesMerge
  <2>8. Linked(ns3, span2)
    BY <2>1, <2>7, <1>2, LinkedMerged
  <2>9. LeavesStill(ns2, span2, ns3, span2)
    <3>1. ~LiveLeaf(ns3, span2, p)
      BY <2>3 DEF LiveLeaf
    <3>2. \A y \in 1..n : y # p => SameLinks(ns2[y], ns3[y])
      BY <2>3 DEF SameLinks
    <3>3. QED
      BY <3>1, <3>2, <1>3, <1>7, <2>3 DEF LeavesStill
  <2>10. Len(ns3) \in Nat /\ Len(ns2) \in Nat /\ Len(ns2) >= Len(ns3)
    BY <1>2, <1>3, <2>3
  <2>11. QED
    BY <2>8, <2>9, <2>10, LinkedStill
<1>9. CASE ~ns[a].leaf
  <2>1. after = NoLeaf /\ ns[a].next = NoLeaf
    <3>1. ~LiveLeaf(ns, span, a)
      BY <1>9 DEF LiveLeaf
    <3>2. QED
      BY <3>1, <1>1, <1>2, <1>6, <1>9, LinksOf
  <2>2. \A y \in 1..n : y # after
    BY <2>1, <1>2 DEF NoLeaf
  <2>3. \A y \in 1..n : y \notin {a, b, p} => SameLinks(ns2[y], ns[y])
    BY <2>2, <1>3 DEF SameLinks
  <2>4. SameLinks(ns2[a], ns[a])
    BY <2>1, <1>3 DEF SameLinks
  <2>5. ~LiveLeaf(ns, span, b) /\ ~LiveLeaf(ns, span, p)
    BY <1>1, <1>9 DEF LiveLeaf
  <2>6. LeavesStill(ns2, span2, ns, span)
    BY <2>3, <2>4, <2>5, <1>1, <1>3, <1>4, <1>5, <1>7, <1>9 DEF LeavesStill
  <2>7. Len(ns2) \in Nat /\ Len(ns2) >= Len(ns)
    BY <1>2, <1>3
  <2>8. QED
    BY <2>6, <2>7, <1>2, LinkedStill
<1>10. QED
  BY <1>8, <1>9

\* A fork without a key and the child after it.
LessSeparator(node, i) == Internal(RemoveAt(node.keys, i), RemoveAt(node.kids, i + 1))

\* Children a and b of p were merged: q is p without the key between them.
MergesUnder(q, ns, p, i, a, b, none, span2, span, level) ==
  /\ Shape(ns, span, span, level) /\ p \in 1..Len(ns) /\ ~ns[p].leaf /\ span[p] # {}
  /\ i \in 1..Len(ns[p].keys) /\ a = ns[p].kids[i] /\ b = ns[p].kids[i + 1]
  /\ SpansShared(span2, span, Len(ns), a, b, span[a] \cup span[b], none)
  /\ q = LessSeparator(ns[p], i)

LEMMA ParentMerged ==
  ASSUME NEW q, NEW ns, NEW p, NEW i, NEW a, NEW b, NEW none, NEW span2, NEW span, NEW level,
         MergesUnder(q, ns, p, i, a, b, none, span2, span, level)
  PROVE  /\ NodeFits(q, span[p], level[p], span2, level) /\ q \in Node(Len(ns)) /\ ~q.leaf
         /\ q.next = NoLeaf /\ q.locs = << >> /\ Count(q) = Count(ns[p]) - 1
<1>z. /\ Shape(ns, span, span, level) /\ p \in 1..Len(ns) /\ ~ns[p].leaf /\ span[p] # {}
      /\ i \in 1..Len(ns[p].keys) /\ a = ns[p].kids[i] /\ b = ns[p].kids[i + 1]
      /\ SpansShared(span2, span, Len(ns), a, b, span[a] \cup span[b], none)
      /\ q = LessSeparator(ns[p], i)
  BY DEF MergesUnder
<1> DEFINE n == ns[p]
           S == span[p]
           h == level[p]
           D == 1..Len(ns)
           K == RemoveAt(n.keys, i)
           V == RemoveAt(n.kids, i + 1)
<1>1. /\ n.keys \in Seq(Int) /\ n.kids \in Seq(D) /\ S \in SUBSET Int /\ ForkFits(n, S, h, span, level)
      /\ Len(ns) \in Nat
  BY <1>z, ShapeFacts
<1>2. n.keys \in Seq(Keys) /\ Len(n.keys) \in Nat /\ i \in 1..Len(n.keys)
  BY <1>z, ShapeFacts
<1>3. Len(n.kids) = Len(n.keys) + 1
  BY <1>1 DEF ForkFits
<1>4. i \in 1..Len(n.kids) /\ i + 1 \in 1..Len(n.kids)
  <2>1. Len(n.keys) \in Nat /\ i \in 1..Len(n.keys)
    BY <1>2
  <2>2. QED
    BY <2>1, <1>3
<1>5. K \in Seq(Keys) /\ V \in Seq(D)
  <2>1. K \in Seq(Keys)
    BY <1>2, RemoveAtIs
  <2>2. V \in Seq(D)
    BY <1>1, <1>4, RemoveAtIs
  <2>3. QED
    BY <2>1, <2>2
<1> HIDE DEF K, V
<1>6. q \in Node(Len(ns)) /\ ~q.leaf /\ q.next = NoLeaf /\ IsFork(q, K, V)
  BY <1>z, <1>1, <1>5, InternalIs DEF K, V, LessSeparator
<1>7. \A x \in 1..Len(n.kids) : x # i /\ x # i + 1 => n.kids[x] \in D /\ n.kids[x] # a /\ n.kids[x] # b
  <2>1. SUFFICES ASSUME NEW x \in 1..Len(n.kids), x # i, x # i + 1
                 PROVE  n.kids[x] \in D /\ n.kids[x] # a /\ n.kids[x] # b
    OBVIOUS
  <2>2. n.kids[x] \in D
    BY <1>1, SeqFacts
  <2>3. n.kids[x] = n.kids[i] => x = i
    BY <1>z, <1>1, <1>4, KidsDiffer
  <2>4. n.kids[x] = n.kids[i + 1] => x = i + 1
    BY <1>z, <1>1, <1>4, KidsDiffer
  <2>5. QED
    BY <1>z, <2>1, <2>2, <2>3, <2>4
<1>8. KidsMerged(n, i, span, span2)
  <2>1. span2[a] = span[a] \cup span[b]
    BY <1>z DEF SpansShared
  <2>2. \A x \in 1..Len(n.kids) : x # i /\ x # i + 1 => span2[n.kids[x]] = span[n.kids[x]]
    BY <1>z, <1>7 DEF SpansShared
  <2>3. QED
    BY <1>z, <2>1, <2>2 DEF KidsMerged
<1>9. Keyed(n, D)
  BY <1>1 DEF Keyed
<1>10. S # {} /\ i \in 1..Len(n.keys)
  BY <1>z
<1> HIDE DEF n, S, h, D
<1>11. ForkFits(q, S, h, span2, level) /\ Len(q.keys) = Len(n.keys) - 1
  <2>1. IsFork(q, RemoveAt(n.keys, i), RemoveAt(n.kids, i + 1))
    BY <1>6 DEF K, V
  <2>2. LosesKey(q, n, i, D, S, h, span, span2, level)
    BY <2>1, <1>1, <1>8, <1>9, <1>10 DEF LosesKey
  <2>4. /\ ForkFits(q, S, h, span2, level) /\ Keyed(q, D)
        /\ Len(q.keys) = Len(n.keys) - 1
    BY <2>2, ForkRemove
  <2>5. QED
    BY <2>4
<1>12. QED
  BY <1>z, <1>6, <1>11 DEF NodeFits, S, h, n, Count, IsFork

\* Two nodes become one.
LEMMA MergedKeeps ==
  ASSUME NEW ns, NEW c, NEW E, NEW span0, NEW level, NEW span, Shrunk(ns, c, E, span0, level, span),
         NEW p \in 1..Len(ns), ~ns[p].leaf, span[p] # {}, NEW i \in 1..Len(ns[p].keys),
         NEW a, a = ns[p].kids[i], NEW b, b = ns[p].kids[i + 1], c \in {a, b}, NEW s,
         Siblings(ns, span, level, p, a, b, s), NEW x,
         WellJoined(x, ns[a], ns[b], span[a] \cup span[b], level[a], span, level, Len(ns)),
         NEW q, q = LessSeparator(ns[p], i),
         NEW ns2, NodesMerged(ns2, ns, a, b, p, x, q)
  PROVE  \E span2 : Shrunk(ns2, p, E, span0, level, span2)
<1> DEFINE X == span[a] \cup span[b]
           none == {}
           span2 == TwoSpans(span, Len(ns), a, b, X, none)
<1>1. /\ Shape(ns, span, span, level) /\ Len(ns) = Len(nodes) /\ Filled(ns, span, root, c)
  BY DEF Shrunk
<1>2. /\ Len(ns) \in Nat /\ span \in [1..Len(ns) -> SUBSET Keys] /\ Len(ns[p].keys) \in Nat
      /\ level[p] \in Nat
  BY <1>1, ShapeFacts
<1>3. /\ a \in 1..Len(ns) /\ b \in 1..Len(ns) /\ a # b /\ a # p /\ b # p
      /\ X \in SUBSET Keys /\ Convex(X) /\ level[a] = level[b] /\ level[p] >= 1
  BY DEF Siblings
<1>4. /\ x \in Node(Len(ns)) /\ x.leaf = ns[a].leaf /\ x.next = ns[b].next /\ x.prev = ns[a].prev
      /\ NodeFits(x, X, level[a], span, level) /\ EntriesOf(x) = EntriesOf(ns[a]) \cup EntriesOf(ns[b])
      /\ HalfFilled(x)
  BY DEF WellJoined
<1>5. SpansShared(span2, span, Len(ns), a, b, X, none)
  <2> HIDE DEF X
  <2>1. none \in SUBSET Keys
    OBVIOUS
  <2> HIDE DEF none
  <2>2. QED
    BY <2>1, <1>2, <1>3, TwoSpansAre
<1> HIDE DEF span2
<1>6. /\ NodeFits(q, span[p], level[p], span2, level) /\ q \in Node(Len(ns)) /\ ~q.leaf
      /\ q.next = NoLeaf /\ q.locs = << >> /\ Count(q) = Count(ns[p]) - 1
  <2>1. MergesUnder(q, ns, p, i, a, b, none, span2, span, level)
    <3> HIDE DEF none
    <3>1. QED
      BY <1>1, <1>5 DEF MergesUnder
  <2> HIDE DEF X, none
  <2>2. QED
    BY <2>1, ParentMerged
<1>7. Linked(ns2, span2)
  BY <1>1, <1>4, <1>5, <1>6, MergedLinked
<1>8. /\ ns2[a] = x /\ ns2[b] = EmptyLeaf /\ ns2[p] = q /\ ns2 \in Seq(Node(Len(ns))) /\ Len(ns2) = Len(ns)
      /\ \A y \in 1..Len(ns) : y \notin {a, b, p} =>
           ns2[y] = IF y = ns[b].next THEN LinkedBack(ns[y], a) ELSE ns[y]
  BY DEF NodesMerged
<1>9. /\ EmptyLeaf \in Node(Len(ns)) /\ EmptyLeaf.leaf /\ EmptyLeaf.kids = << >>
      /\ EmptyLeaf.keys = << >> /\ EmptyLeaf.locs = << >>
  BY <1>2, EmptyLeafIs
<1>10. \A y \in 1..Len(ns) : y \notin {a, b, p} => SameContent(ns2[y], ns[y])
  <2>1. SUFFICES ASSUME NEW y \in 1..Len(ns), y \notin {a, b, p} PROVE SameContent(ns2[y], ns[y])
    OBVIOUS
  <2>2. ns[y] \in Node(Len(ns)) /\ a \in 0..Len(ns)
    <3>1. ns[y] \in Node(Len(ns))
      BY <1>1, ShapeFacts
    <3>2. Len(ns) \in Nat /\ a \in 1..Len(ns)
      BY <1>2, <1>3, Zenon
    <3>3. a \in 0..Len(ns)
      BY <3>2
    <3>4. QED
      BY <3>1, <3>3
  <2>3. SameContent(LinkedBack(ns[y], a), ns[y])
    BY <2>2, <1>2, LinkedBackIs DEF SameButPrev
  <2>4. QED
    BY <2>1, <2>3, <1>8 DEF SameContent
<1>11. Shared(ns2, span2, ns, span, level, p, a, b, X, none)
  <2>1. NodeFits(EmptyLeaf, none, level[b], span, level)
    BY <1>9 DEF NodeFits, LeafFits, Ascending, Within
  <2>2. X \cup none = X /\ X \cap none = {} /\ Convex(none)
    BY DEF Convex
  <2> HIDE DEF none
  <2>3. QED
    BY <2>1, <2>2, <1>3, <1>4, <1>5, <1>6, <1>8, <1>10 DEF Shared, SpansShared
<1>12. SharedFills(ns2, ns, level, p, a, b, X, none, span[p])
  <2>1. NodeFilled(x, X, a, root, p)
    <3>1. Count(x) \in Nat
      BY <1>2, <1>4, NodeFacts DEF Count
    <3>2. a # 0
      <4>1. Len(ns) \in Nat /\ a \in 1..Len(ns)
        BY <1>2, <1>3, Zenon
      <4>2. QED
        BY <4>1
    <3>3. NodeFilled(x, X, a, root, 0)
      BY <3>1, <3>2, <1>4, HalfFilledFits
    <3>4. QED
      BY <3>2, <3>3, <1>3 DEF NodeFilled
  <2>2. NodeFilled(EmptyLeaf, none, b, root, p)
    BY <1>9, TreeAssumption DEF NodeFilled, Count
  <2>3. NodeFilled(q, span[p], p, root, p)
    <3>1. NodeFilled(ns[p], span[p], p, root, c) /\ c # p /\ ~ns[p].leaf
      BY <1>1, <1>3 DEF Filled
    <3>2. Count(ns[p]) \in Nat /\ Count(q) = Count(ns[p]) - 1 /\ ~q.leaf
      BY <1>2, <1>6 DEF Count
    <3>3. InternalOrder \div 2 \in Int /\ InternalOrder \in Nat
      BY TreeAssumption
    <3>4. QED
      BY <3>1, <3>2, <3>3 DEF NodeFilled, MinKeys
  <2>4. EntriesOf(q) = {} /\ EntriesOf(EmptyLeaf) = {}
    BY <1>6, <1>9, ForkEntries
  <2>5. \A y \in 1..Len(ns) : y \notin {a, b, p} /\ level[y] >= level[p] => ns2[y] = ns[y]
    <3>1. SUFFICES ASSUME NEW y \in 1..Len(ns), y \notin {a, b, p}, level[y] >= level[p] PROVE ns2[y] = ns[y]
      OBVIOUS
    <3>2. y # ns[b].next
      <4>1. y # NoLeaf /\ level[y] # 0
        <5>1. Len(ns) \in Nat /\ y \in 1..Len(ns) /\ level \in [1..Len(ns) -> Nat]
          BY <1>1, <1>2, ShapeFacts, Zenon
        <5>2. level[y] >= level[p] /\ level[p] >= 1 /\ level[p] \in Nat
          BY <3>1, <1>2, <1>3, Zenon
        <5>3. QED
          BY <5>1, <5>2 DEF NoLeaf
      <4>2. ns[b].next # NoLeaf => level[ns[b].next] = 0
        <5>1. Shape(ns, span, span, level)
          BY <1>1, Zenon
        <5>2. QED
          BY <5>1, AfterIs
      <4>3. QED
        BY <4>1, <4>2
    <3>3. QED
      BY <3>1, <3>2, <1>8
  <2>6. QED
    BY <2>1, <2>2, <2>3, <2>4, <2>5, <1>4, <1>8 DEF SharedFills
<1>13. Shrunk(ns2, p, E, span0, level, span2)
  <2> HIDE DEF X, none
  <2>1. QED
    BY <1>7, <1>11, <1>12, SharedKeeps
<1>14. QED
  BY <1>13

-----------------------------------------------------------------------------
(* Delete: what becomes of two neighbours.                                 *)

\* Two leaves share out their entries anew.
LeavesShare(l2, r2, l, r, K, L, U, s, n) ==
  /\ n \in Nat /\ l \in Node(n) /\ r \in Node(n) /\ l2 \in Node(n) /\ r2 \in Node(n)
  /\ l.leaf /\ r.leaf /\ SameLinks(l2, l) /\ SameLinks(r2, r) /\ l2.kids = l.kids /\ r2.kids = r.kids
  /\ U \subseteq Keys /\ s \in Int /\ LeafFits(l, Low(U, s)) /\ LeafFits(r, High(U, s))
  /\ K \in Seq(Keys) /\ Joined(K, l.keys, r.keys) /\ Joined(K, l2.keys, r2.keys)
  /\ L \in Seq(Locs) /\ Joined(L, l.locs, r.locs) /\ Joined(L, l2.locs, r2.locs)
  /\ Len(l2.keys) = Len(l2.locs) /\ Len(r2.keys) = Len(r2.locs)
  /\ Len(l2.keys) >= 1 /\ Len(r2.keys) >= 1 /\ HalfFilled(l2) /\ HalfFilled(r2)

LEMMA LeavesAreMoved ==
  ASSUME NEW l2, NEW r2, NEW l, NEW r, NEW K, NEW L, NEW U, NEW s, NEW n,
         LeavesShare(l2, r2, l, r, K, L, U, s, n), NEW h, h = 0, NEW span, NEW level
  PROVE  WellMoved(l2, r2, l, r, U, r2.keys[1], h, span, level, n)
<1> DEFINE m == r2.keys[1]
<1>1. /\ n \in Nat /\ l \in Node(n) /\ r \in Node(n) /\ l2 \in Node(n) /\ r2 \in Node(n)
      /\ l.leaf /\ r.leaf /\ SameLinks(l2, l) /\ SameLinks(r2, r) /\ l2.kids = l.kids /\ r2.kids = r.kids
      /\ HalfFilled(l2) /\ HalfFilled(r2)
  BY DEF LeavesShare
<1>2. /\ U \subseteq Keys /\ s \in Int /\ LeafFits(l, Low(U, s)) /\ LeafFits(r, High(U, s))
      /\ K \in Seq(Keys) /\ Joined(K, l.keys, r.keys) /\ Joined(K, l2.keys, r2.keys)
  BY DEF LeavesShare
<1>3. /\ L \in Seq(Locs) /\ Joined(L, l.locs, r.locs) /\ Joined(L, l2.locs, r2.locs)
      /\ Len(l2.keys) = Len(l2.locs) /\ Len(r2.keys) = Len(r2.locs)
      /\ Len(l2.keys) >= 1 /\ Len(r2.keys) >= 1
  BY DEF LeavesShare
<1>4. /\ l.keys \in Seq(Int) /\ r.keys \in Seq(Int) /\ l2.keys \in Seq(Int) /\ r2.keys \in Seq(Int)
      /\ l.locs \in Seq(Locs) /\ r.locs \in Seq(Locs) /\ l2.locs \in Seq(Locs) /\ r2.locs \in Seq(Locs)
      /\ Len(l2.keys) \in Nat /\ Len(r2.keys) \in Nat
  BY <1>1, NodeFacts
<1>5. K \in Seq(Int) /\ U \in SUBSET Int
  <2>1. \A i \in 1..Len(K) : K[i] \in Int
    BY <1>2, SeqFacts, KeysAreInts
  <2>2. QED
    BY <2>1, <1>2, KeysAreInts
<1>6. /\ Ascending(l.keys) /\ Within(l.keys, Low(U, s)) /\ Ascending(r.keys) /\ Within(r.keys, High(U, s))
      /\ Len(l.keys) = Len(l.locs) /\ Len(r.keys) = Len(r.locs) /\ l.kids = << >> /\ r.kids = << >>
  BY <1>2 DEF LeafFits
<1>7. Ascending(K) /\ Within(K, U)
  <2>1. Joined(K, l.keys, r.keys)
    BY <1>2
  <2>2. s \in Int
    BY <1>2
  <2>3. QED
    BY <2>1, <2>2, <1>4, <1>5, <1>6, LeafJoin
<1>8. m \in Keys
  <2>1. 1 \in 1..Len(r2.keys) /\ r2.keys \in Seq(Keys)
    BY <1>1, <1>3, <1>4, NodeFacts
  <2>2. QED
    BY <2>1, SeqFacts
<1>9. r2.keys # << >> /\ l2.keys # << >>
  <2>1. Len(<< >>) = 0
    OBVIOUS
  <2>2. QED
    BY <2>1, <1>3, <1>4
<1>10. /\ Ascending(l2.keys) /\ Within(l2.keys, Low(U, m)) /\ Ascending(r2.keys)
       /\ Within(r2.keys, High(U, m)) /\ m \in U
  <2>1. Joined(K, l2.keys, r2.keys) /\ m = r2.keys[1]
    BY <1>2
  <2> HIDE DEF m
  <2>2. QED
    BY <2>1, <1>4, <1>5, <1>7, <1>9, LeafCut
<1>11. Low(U, m) # {}
  <2>1. 1 \in 1..Len(l2.keys)
    BY <1>3, <1>4
  <2>2. QED
    BY <2>1, <1>10 DEF Within
<1>12. EntriesOf(l2) \cup EntriesOf(r2) = EntriesOf(l) \cup EntriesOf(r)
  <2> DEFINE q == [keys |-> K, locs |-> L]
  <2>1. q.keys = K /\ q.locs = L
    OBVIOUS
  <2> HIDE DEF q
  <2>2. q.keys \in Seq(Int) /\ q.locs \in Seq(Locs)
    BY <2>1, <1>3, <1>5
  <2>3. Joined(q.keys, l.keys, r.keys) /\ Joined(q.locs, l.locs, r.locs)
    BY <2>1, <1>2, <1>3
  <2>4. HoldsBoth(q, l, r)
    BY <2>2, <2>3, <1>4, <1>6, EntriesJoined
  <2>5. Joined(q.keys, l2.keys, r2.keys) /\ Joined(q.locs, l2.locs, r2.locs)
    BY <2>1, <1>2, <1>3
  <2>6. Len(l2.keys) = Len(l2.locs) /\ Len(r2.keys) = Len(r2.locs)
    BY <1>3
  <2>7. HoldsBoth(q, l2, r2)
    BY <2>2, <2>5, <2>6, <1>4, EntriesJoined
  <2>8. QED
    BY <2>4, <2>7 DEF HoldsBoth
<1>13. NodeFits(l2, Low(U, m), h, span, level) /\ NodeFits(r2, High(U, m), h, span, level)
  <2>1. LeafFits(l2, Low(U, m)) /\ LeafFits(r2, High(U, m)) /\ l2.leaf /\ r2.leaf
    BY <1>1, <1>3, <1>6, <1>10 DEF LeafFits, SameLinks
  <2>2. QED
    BY <2>1 DEF NodeFits
<1>14. QED
  BY <1>1, <1>8, <1>10, <1>11, <1>12, <1>13 DEF WellMoved

\* Two forks share out their children anew.
ForksShare(l2, r2, l, r, K, V, m, U, s, h, span, level, n) ==
  /\ n \in Nat /\ l \in Node(n) /\ r \in Node(n) /\ l2 \in Node(n) /\ r2 \in Node(n)
  /\ ~l.leaf /\ ~r.leaf /\ SameLinks(l2, l) /\ SameLinks(r2, r) /\ l2.locs = l.locs /\ r2.locs = r.locs
  /\ U \subseteq Keys /\ s \in U /\ m \in Keys /\ Low(U, s) # {} /\ High(U, s) # {}
  /\ ForkFits(l, Low(U, s), h, span, level) /\ ForkFits(r, High(U, s), h, span, level)
  /\ K \in Seq(Keys) /\ Glued(K, l.keys, s, r.keys) /\ Glued(K, l2.keys, m, r2.keys)
  /\ V \in Seq(1..n) /\ Joined(V, l.kids, r.kids) /\ Joined(V, l2.kids, r2.kids)
  /\ Len(l2.kids) = Len(l2.keys) + 1 /\ HalfFilled(l2) /\ HalfFilled(r2)

LEMMA ForksAreMoved ==
  ASSUME NEW l2, NEW r2, NEW l, NEW r, NEW K, NEW V, NEW m, NEW U, NEW s, NEW h, NEW span, NEW level, NEW n,
         ForksShare(l2, r2, l, r, K, V, m, U, s, h, span, level, n)
  PROVE  WellMoved(l2, r2, l, r, U, m, h, span, level, n)
<1>1. /\ n \in Nat /\ l \in Node(n) /\ r \in Node(n) /\ l2 \in Node(n) /\ r2 \in Node(n)
      /\ ~l.leaf /\ ~r.leaf /\ SameLinks(l2, l) /\ SameLinks(r2, r) /\ l2.locs = l.locs /\ r2.locs = r.locs
      /\ HalfFilled(l2) /\ HalfFilled(r2)
  BY DEF ForksShare
<1>2. /\ U \subseteq Keys /\ s \in U /\ m \in Keys /\ Low(U, s) # {} /\ High(U, s) # {}
      /\ ForkFits(l, Low(U, s), h, span, level) /\ ForkFits(r, High(U, s), h, span, level)
  BY DEF ForksShare
<1>3. /\ K \in Seq(Keys) /\ Glued(K, l.keys, s, r.keys) /\ Glued(K, l2.keys, m, r2.keys)
      /\ V \in Seq(1..n) /\ Joined(V, l.kids, r.kids) /\ Joined(V, l2.kids, r2.kids)
      /\ Len(l2.kids) = Len(l2.keys) + 1
  BY DEF ForksShare
<1>4. /\ l.keys \in Seq(Int) /\ r.keys \in Seq(Int) /\ l2.keys \in Seq(Int) /\ r2.keys \in Seq(Int)
      /\ l.kids \in Seq(1..n) /\ r.kids \in Seq(1..n) /\ l2.kids \in Seq(1..n) /\ r2.kids \in Seq(1..n)
  BY <1>1, NodeFacts
<1>5. K \in Seq(Int) /\ U \in SUBSET Int /\ m \in Int
  <2>1. \A i \in 1..Len(K) : K[i] \in Int
    BY <1>3, SeqFacts, KeysAreInts
  <2>2. QED
    BY <2>1, <1>2, <1>3, KeysAreInts
<1> DEFINE q == [keys |-> K, kids |-> V, locs |-> << >>]
<1>6. q.keys = K /\ q.kids = V /\ q.locs = << >> /\ IsFork(q, K, V)
  BY DEF IsFork
<1> HIDE DEF q
<1>7. ForkFits(q, U, h, span, level)
  <2>1. Glued(K, l.keys, s, r.keys) /\ V \in Seq(1..n) /\ Joined(V, l.kids, r.kids)
    BY <1>3
  <2>2. s \in U /\ Low(U, s) # {} /\ High(U, s) # {}
    BY <1>2
  <2>3. ForkFits(l, Low(U, s), h, span, level) /\ ForkFits(r, High(U, s), h, span, level)
    BY <1>2
  <2>4. l.keys \in Seq(Int) /\ r.keys \in Seq(Int) /\ l.kids \in Seq(1..n) /\ r.kids \in Seq(1..n)
    BY <1>4
  <2>5. IsFork(q, K, V) /\ K \in Seq(Int) /\ U \in SUBSET Int
    BY <1>5, <1>6
  <2>6. QED
    <3>1. JoinsForks(q, l, r, K, V, s, 1..n, U, h, span, level)
      BY <2>1, <2>2, <2>3, <2>4, <2>5 DEF JoinsForks
    <3>2. QED
      BY <3>1, ForkJoin
<1>8. l.locs = << >> /\ r.locs = << >>
  BY <1>2 DEF ForkFits
<1>9. IsFork(l2, l2.keys, l2.kids) /\ IsFork(r2, r2.keys, r2.kids)
  BY <1>1, <1>8 DEF IsFork
<1>10. /\ ForkFits(l2, Low(U, m), h, span, level) /\ ForkFits(r2, High(U, m), h, span, level)
       /\ Low(U, m) # {} /\ m \in High(U, m)
  <2>1. Glued(q.keys, l2.keys, m, r2.keys) /\ Joined(q.kids, l2.kids, r2.kids)
    BY <1>3, <1>6
  <2>2. q.keys \in Seq(Int) /\ q.kids \in Seq(1..n) /\ U # {}
    BY <1>2, <1>3, <1>5, <1>6
  <2>3. Len(l2.kids) = Len(l2.keys) + 1
    BY <1>3
  <2>4. l2.keys \in Seq(Int) /\ r2.keys \in Seq(Int) /\ l2.kids \in Seq(1..n) /\ r2.kids \in Seq(1..n)
    BY <1>4
  <2>5. QED
    <3>1. CutsFork(l2, r2, q, l2.keys, m, r2.keys, l2.kids, r2.kids, 1..n, U, h, span, level)
      BY <2>1, <2>2, <2>3, <2>4, <1>5, <1>7, <1>9 DEF CutsFork
    <3>2. QED
      BY <3>1, ForkCut
<1>11. m \in U
  BY <1>10 DEF High
<1>12. EntriesOf(l2) \cup EntriesOf(r2) = EntriesOf(l) \cup EntriesOf(r)
  BY <1>1, <1>8, ForkEntries
<1>13. NodeFits(l2, Low(U, m), h, span, level) /\ NodeFits(r2, High(U, m), h, span, level)
  BY <1>1, <1>10 DEF NodeFits, SameLinks
<1>14. QED
  BY <1>1, <1>2, <1>10, <1>11, <1>12, <1>13 DEF WellMoved

\* Node q is n with other keys, locations and children.
Rebuilt(q, n, K, L, V, m) ==
  /\ m \in Nat /\ n \in Node(m) /\ K \in Seq(Keys) /\ L \in Seq(Locs) /\ V \in Seq(1..m)
  /\ q = [n EXCEPT !.keys = K, !.locs = L, !.kids = V]

HasContent(q, n, K, L, V, m) ==
  q \in Node(m) /\ q.keys = K /\ q.locs = L /\ q.kids = V /\ SameLinks(q, n)

LEMMA ContentIs ==
  ASSUME NEW q, NEW n, NEW K, NEW L, NEW V, NEW m, Rebuilt(q, n, K, L, V, m)
  PROVE  HasContent(q, n, K, L, V, m)
  BY DEF Rebuilt, HasContent, Node, SameLinks

LEMMA ThreeChanged ==
  ASSUME NEW ns, ns \in Seq(Node(Len(ns))), Len(ns) \in Nat,
         NEW a \in 1..Len(ns), NEW b \in 1..Len(ns), NEW p \in 1..Len(ns), a # b, a # p, b # p,
         NEW l2 \in Node(Len(ns)), NEW r2 \in Node(Len(ns)), NEW q \in Node(Len(ns)),
         NEW ns2, \/ ns2 = [ns EXCEPT ![a] = l2, ![b] = r2, ![p] = q]
                  \/ ns2 = [ns EXCEPT ![b] = r2, ![a] = l2, ![p] = q]
  PROVE  NodesMoved(ns2, ns, a, b, p, l2, r2, q)
<1> DEFINE T == Node(Len(ns))
           n == Len(ns)
<1>1. ns \in Seq(T) /\ n \in Nat /\ l2 \in T /\ r2 \in T /\ q \in T /\ ns \in [1..n -> T]
  BY SeqFacts
<1>2. a \in 1..n /\ b \in 1..n /\ p \in 1..n
  OBVIOUS
<1> HIDE DEF T, n
<1>3. /\ ns2 \in [1..n -> T] /\ ns2[a] = l2 /\ ns2[b] = r2 /\ ns2[p] = q
      /\ \A x \in 1..n : x \notin {a, b, p} => ns2[x] = ns[x]
  BY <1>1, <1>2
<1>4. ns2 \in Seq(T) /\ Len(ns2) = n
  BY <1>1, <1>3, FunctionIs
<1>5. QED
  BY <1>3, <1>4 DEF NodesMoved, T, n

\* Child c of p, which is child a or child b, has a key too few.
Short(ns, p, i, a, b, c, E, span0, level, span) ==
  /\ Shrunk(ns, c, E, span0, level, span) /\ p \in 1..Len(ns) /\ ~ns[p].leaf /\ span[p] # {}
  /\ i \in 1..Len(ns[p].keys) /\ a = ns[p].kids[i] /\ b = ns[p].kids[i + 1]
  /\ c \in {a, b} /\ Underflows(ns[c])

ShortPair(ns, p, i, a, b, c, U, s, leaf, span, level) ==
  /\ Shape(ns, span, span, level) /\ Len(ns) \in Nat /\ ns \in Seq(Node(Len(ns)))
  /\ Siblings(ns, span, level, p, a, b, s) /\ U = span[a] \cup span[b] /\ s = ns[p].keys[i]
  /\ leaf \in BOOLEAN /\ ns[a].leaf = leaf /\ ns[b].leaf = leaf /\ c \in {a, b}
  /\ a \in 1..Len(ns) /\ b \in 1..Len(ns) /\ p \in 1..Len(ns)
  /\ ns[a] \in Node(Len(ns)) /\ ns[b] \in Node(Len(ns)) /\ ns[p] \in Node(Len(ns))
  /\ NodeFits(ns[a], Low(U, s), level[a], span, level) /\ NodeFits(ns[b], High(U, s), level[a], span, level)
  /\ Count(ns[a]) \in Nat /\ Count(ns[b]) \in Nat
  /\ Count(ns[a]) <= Most(leaf) /\ Count(ns[b]) <= Most(leaf)
  /\ Count(ns[c]) = Least(leaf) - 1
  /\ \A x \in {a, b} : x # c => Count(ns[x]) >= Least(leaf)
  /\ U \subseteq Keys /\ s \in U /\ s \in Keys /\ s \in Int /\ Low(U, s) # {} /\ High(U, s) # {}
  /\ level[a] \in Nat /\ (leaf => level[a] = 0)

LEMMA ShortIs ==
  ASSUME NEW ns, NEW p, NEW i, NEW a, NEW b, NEW c, NEW E, NEW span0, NEW level, NEW span,
         Short(ns, p, i, a, b, c, E, span0, level, span)
  PROVE  ShortPair(ns, p, i, a, b, c, span[a] \cup span[b], ns[p].keys[i], ns[c].leaf, span, level)
<1> DEFINE s == ns[p].keys[i]
           U == span[a] \cup span[b]
           leaf == ns[c].leaf
<1>1. /\ Shape(ns, span, span, level) /\ Filled(ns, span, root, c) /\ root \in 1..Len(ns)
      /\ Topped(span, level, root)
      /\ p \in 1..Len(ns) /\ ~ns[p].leaf /\ span[p] # {} /\ i \in 1..Len(ns[p].keys)
      /\ a = ns[p].kids[i] /\ b = ns[p].kids[i + 1] /\ c \in {a, b} /\ Underflows(ns[c])
  BY DEF Short, Shrunk, NodeIds
<1>2. Siblings(ns, span, level, p, a, b, s)
  BY <1>1, SiblingsAre
<1>3. Len(ns) \in Nat /\ ns \in Seq(Node(Len(ns))) /\ DOMAIN span = 1..Len(ns)
  BY <1>1, ShapeFacts DEF Shape
<1>4. /\ a \in 1..Len(ns) /\ b \in 1..Len(ns) /\ a # b /\ ns[a].leaf = ns[b].leaf
      /\ level[a] = level[p] - 1 /\ level[b] = level[p] - 1 /\ level[p] \in Nat /\ level[p] >= 1
      /\ span[a] # {} /\ span[b] # {} /\ (ns[a].leaf => level[p] = 1)
      /\ span[a] = Low(U, s) /\ span[b] = High(U, s) /\ s \in Keys /\ s \in Int /\ s \in span[b]
      /\ U \subseteq Keys
  BY <1>2 DEF Siblings
<1>5. leaf \in BOOLEAN /\ ns[a].leaf = leaf /\ ns[b].leaf = leaf
  BY <1>1, <1>4, ShapeFacts
<1>6. /\ ns[a] \in Node(Len(ns)) /\ ns[b] \in Node(Len(ns)) /\ ns[p] \in Node(Len(ns))
      /\ Count(ns[a]) \in Nat /\ Count(ns[b]) \in Nat
  BY <1>1, <1>4, ShapeFacts DEF Count
<1>7. level[a] = level[b] /\ level[a] \in Nat /\ (leaf => level[a] = 0)
  BY <1>4, <1>5
<1>8. NodeFits(ns[a], Low(U, s), level[a], span, level) /\ NodeFits(ns[b], High(U, s), level[a], span, level)
  <2>1. NodeFits(ns[a], span[a], level[a], span, level) /\ NodeFits(ns[b], span[b], level[b], span, level)
    BY <1>1, <1>4, ShapeFacts
  <2>2. span[a] = Low(U, s) /\ span[b] = High(U, s) /\ level[a] = level[b]
    BY <1>4, <1>7
  <2> HIDE DEF U, s
  <2>3. QED
    BY <2>1, <2>2
<1>9. \A x \in {a, b} : x # root
  <2>1. level[p] <= level[root] /\ level[root] \in Nat
    BY <1>1, <1>3, ShapeFacts DEF Topped
  <2>2. QED
    BY <2>1, <1>4, <1>7
<1>10. \A x \in {a, b} : NodeFilled(ns[x], span[x], x, root, c) /\ span[x] # {} /\ ns[x].leaf = leaf
  BY <1>1, <1>4, <1>5 DEF Filled
<1>11. \A x \in {a, b} : MinKeys(ns[x]) = Least(leaf) /\ Count(ns[x]) <= Most(leaf)
  BY <1>5, <1>10, LeastIs DEF NodeFilled, Most
<1>12. Least(leaf) \in Nat
  BY <1>5, LeastIs
<1>13. \A x \in {a, b} : x # c => Count(ns[x]) >= Least(leaf)
  <2>1. \A x \in {a, b} : x # c => Count(ns[x]) >= MinKeys(ns[x]) - 0
    BY <1>9, <1>10 DEF NodeFilled
  <2>2. QED
    BY <2>1, <1>11, <1>12
<1>14. Count(ns[c]) = Least(leaf) - 1
  <2>1. Count(ns[c]) >= MinKeys(ns[c]) - 1 /\ Count(ns[c]) < MinKeys(ns[c])
    BY <1>1, <1>9, <1>10 DEF NodeFilled, Underflows
  <2>2. Count(ns[c]) \in Nat
    BY <1>1, <1>6
  <2>3. QED
    BY <2>1, <2>2, <1>1, <1>11, <1>12, SMTT(20)
<1>15. s \in U /\ Low(U, s) # {} /\ High(U, s) # {}
  <2>1. span[a] # {} /\ span[b] # {} /\ s \in span[a] \cup span[b]
    BY <1>4
  <2>2. span[a] = Low(U, s) /\ span[b] = High(U, s)
    BY <1>4
  <2>3. s \in U
    BY <2>1
  <2> HIDE DEF U, s
  <2>4. QED
    BY <2>1, <2>2, <2>3
<1> HIDE DEF leaf
<1>16. QED
  <2>1. U = span[a] \cup span[b] /\ s = ns[p].keys[i]
    OBVIOUS
  <2> HIDE DEF U, s
  <2>2. ShortPair(ns, p, i, a, b, c, U, s, leaf, span, level)
    BY <2>1, <1>1, <1>2, <1>3, <1>4, <1>5, <1>6, <1>7, <1>8, <1>11, <1>13, <1>14, <1>15 DEF ShortPair
  <2>3. QED
    BY <2>2 DEF U, s, leaf

\* A pair of neighbours, their spans U cut at s.
Neighbours(l, r, U, s, h, leaf, span, level, n) ==
  /\ n \in Nat /\ l \in Node(n) /\ r \in Node(n) /\ leaf \in BOOLEAN /\ l.leaf = leaf /\ r.leaf = leaf
  /\ NodeFits(l, Low(U, s), h, span, level) /\ NodeFits(r, High(U, s), h, span, level)
  /\ U \subseteq Keys /\ s \in U /\ s \in Keys /\ s \in Int /\ Low(U, s) # {} /\ High(U, s) # {}
  /\ Count(l) \in Nat /\ Count(r) \in Nat /\ (leaf => h = 0)

LEMMA NeighbourFacts ==
  ASSUME NEW l, NEW r, NEW U, NEW s, NEW h, NEW leaf, NEW span, NEW level, NEW n,
         Neighbours(l, r, U, s, h, leaf, span, level, n)
  PROVE  /\ l.keys \in Seq(Keys) /\ r.keys \in Seq(Keys) /\ l.locs \in Seq(Locs) /\ r.locs \in Seq(Locs)
         /\ l.kids \in Seq(1..n) /\ r.kids \in Seq(1..n)
         /\ leaf => /\ LeafFits(l, Low(U, s)) /\ LeafFits(r, High(U, s))
                    /\ Len(l.locs) = Len(l.keys) /\ Len(r.locs) = Len(r.keys)
                    /\ l.kids = << >> /\ r.kids = << >>
         /\ ~leaf => /\ ForkFits(l, Low(U, s), h, span, level) /\ ForkFits(r, High(U, s), h, span, level)
                     /\ Len(l.kids) = Len(l.keys) + 1 /\ Len(r.kids) = Len(r.keys) + 1
                     /\ l.locs = << >> /\ r.locs = << >>
<1>1. /\ n \in Nat /\ l \in Node(n) /\ r \in Node(n) /\ leaf \in BOOLEAN /\ l.leaf = leaf /\ r.leaf = leaf
      /\ NodeFits(l, Low(U, s), h, span, level) /\ NodeFits(r, High(U, s), h, span, level)
  BY DEF Neighbours
<1>2. /\ l.keys \in Seq(Keys) /\ r.keys \in Seq(Keys) /\ l.locs \in Seq(Locs) /\ r.locs \in Seq(Locs)
      /\ l.kids \in Seq(1..n) /\ r.kids \in Seq(1..n)
  BY <1>1, NodeFacts
<1>3. leaf => LeafFits(l, Low(U, s)) /\ LeafFits(r, High(U, s))
  BY <1>1 DEF NodeFits
<1>4. ~leaf => ForkFits(l, Low(U, s), h, span, level) /\ ForkFits(r, High(U, s), h, span, level)
  BY <1>1 DEF NodeFits
<1>5. QED
  BY <1>2, <1>3, <1>4 DEF LeafFits, ForkFits

\* Two sequences share out anew what they have together.
SharesOut(K, s2, t2, s, t, T) ==
  /\ K \in Seq(T) /\ Joined(K, s, t) /\ Joined(K, s2, t2) /\ s2 \in Seq(T) /\ t2 \in Seq(T)


LEMMA LastMovesIs ==
  ASSUME NEW s2, NEW t2, NEW s, NEW t, NEW T, LastMoves(s2, t2, s, t, T)
  PROVE  /\ SharesOut(s \o t, s2, t2, s, t, T) /\ t2[1] = Last(s)
         /\ Len(s2) = Len(s) - 1 /\ Len(t2) = Len(t) + 1
<1> DEFINE K == s \o t
<1>1. s \in Seq(T) /\ t \in Seq(T)
  BY DEF LastMoves
<1>2. K = s \o t
  OBVIOUS
<1> HIDE DEF K
<1>3. K \in Seq(T) /\ Joined(K, s, t)
  BY <1>1, <1>2, JoinedIs
<1>4. /\ Joined(K, s2, t2) /\ s2 \in Seq(T) /\ t2 \in Seq(T)
      /\ Len(s2) = Len(s) - 1 /\ Len(t2) = Len(t) + 1 /\ t2[1] = Last(s)
  BY <1>3, JoinedLeft
<1>5. SharesOut(K, s2, t2, s, t, T)
  BY <1>3, <1>4 DEF SharesOut
<1>6. QED
  BY <1>4, <1>5 DEF K

LEMMA FirstMovesIs ==
  ASSUME NEW s2, NEW t2, NEW s, NEW t, NEW T, FirstMoves(s2, t2, s, t, T)
  PROVE  /\ SharesOut(s \o t, s2, t2, s, t, T)
         /\ Len(s2) = Len(s) + 1 /\ Len(t2) = Len(t) - 1 /\ (Len(t) >= 2 => t2[1] = t[2])
<1> DEFINE K == s \o t
<1>1. s \in Seq(T) /\ t \in Seq(T)
  BY DEF FirstMoves
<1>2. K = s \o t
  OBVIOUS
<1> HIDE DEF K
<1>3. K \in Seq(T) /\ Joined(K, s, t)
  BY <1>1, <1>2, JoinedIs
<1>4. /\ Joined(K, s2, t2) /\ s2 \in Seq(T) /\ t2 \in Seq(T)
      /\ Len(s2) = Len(s) + 1 /\ Len(t2) = Len(t) - 1 /\ (Len(t) >= 2 => t2[1] = t[2])
  BY <1>3, JoinedRight
<1>5. SharesOut(K, s2, t2, s, t, T)
  BY <1>3, <1>4 DEF SharesOut
<1>6. QED
  BY <1>4, <1>5 DEF K

\* How many keys are neither too few nor too many.
Enough(c, leaf) == c \in Nat /\ c >= Least(leaf) /\ c <= Most(leaf) /\ c >= 1

\* A node with a keys lends one to a neighbour with b; the two are merged.
Lent(a, b, leaf) ==
  /\ leaf \in BOOLEAN /\ a \in Nat /\ b \in Nat
  /\ a > Least(leaf) /\ a <= Most(leaf) /\ b = Least(leaf) - 1

LEMMA LentCounts ==
  ASSUME NEW a, NEW b, NEW leaf, Lent(a, b, leaf)
  PROVE  Enough(a - 1, leaf) /\ Enough(b + 1, leaf)
<1>1. leaf \in BOOLEAN
  BY DEF Lent
<1>2. PICK x : x = Least(leaf)
  OBVIOUS
<1>3. PICK y : y = Most(leaf)
  OBVIOUS
<1>4. x \in Nat /\ y \in Nat /\ x >= 1 /\ x + x <= y
  BY <1>1, <1>2, <1>3, LeastIs
<1>5. a \in Nat /\ b \in Nat /\ a > x /\ a <= y /\ b = x - 1
  BY <1>2, <1>3 DEF Lent
<1>6. /\ a - 1 \in Nat /\ a - 1 >= x /\ a - 1 <= y /\ a - 1 >= 1
      /\ b + 1 \in Nat /\ b + 1 >= x /\ b + 1 <= y /\ b + 1 >= 1
  BY <1>4, <1>5
<1>7. QED
  BY <1>2, <1>3, <1>6 DEF Enough

LEMMA EnoughFills ==
  ASSUME NEW leaf \in BOOLEAN, NEW n, n.leaf = leaf, Enough(Count(n), leaf)
  PROVE  HalfFilled(n)
  BY LeastIs DEF Enough

\* Two leaves rebuilt from what they had.
LeavesRebuilt(l2, r2, l, r, k, k2, o, o2, n) ==
  /\ HasContent(l2, l, k, o, l.kids, n) /\ HasContent(r2, r, k2, o2, r.kids, n)
  /\ SharesOut(l.keys \o r.keys, k, k2, l.keys, r.keys, Keys)
  /\ SharesOut(l.locs \o r.locs, o, o2, l.locs, r.locs, Locs)
  /\ Len(k) = Len(o) /\ Len(k2) = Len(o2)
  /\ Enough(Len(k), TRUE) /\ Enough(Len(k2), TRUE)

LEMMA LeavesRebuiltIs ==
  ASSUME NEW l, NEW r, NEW U, NEW s, NEW h, NEW span, NEW level, NEW n,
         Neighbours(l, r, U, s, h, TRUE, span, level, n),
         NEW l2, NEW r2, NEW k, NEW k2, NEW o, NEW o2, LeavesRebuilt(l2, r2, l, r, k, k2, o, o2, n)
  PROVE  WellMoved(l2, r2, l, r, U, k2[1], h, span, level, n)
<1>1. /\ n \in Nat /\ l \in Node(n) /\ r \in Node(n) /\ l.leaf = TRUE /\ r.leaf = TRUE
      /\ U \subseteq Keys /\ s \in Int /\ h = 0
  BY DEF Neighbours
<1>2. LeafFits(l, Low(U, s)) /\ LeafFits(r, High(U, s))
  BY NeighbourFacts
<1>3. /\ l2 \in Node(n) /\ l2.keys = k /\ l2.locs = o /\ l2.kids = l.kids /\ SameLinks(l2, l)
      /\ r2 \in Node(n) /\ r2.keys = k2 /\ r2.locs = o2 /\ r2.kids = r.kids /\ SameLinks(r2, r)
  BY DEF LeavesRebuilt, HasContent
<1> DEFINE K == l.keys \o r.keys
           L == l.locs \o r.locs
<1>4. /\ K \in Seq(Keys) /\ Joined(K, l.keys, r.keys) /\ Joined(K, k, k2)
      /\ L \in Seq(Locs) /\ Joined(L, l.locs, r.locs) /\ Joined(L, o, o2)
  BY DEF LeavesRebuilt, SharesOut
<1> HIDE DEF K, L
<1>5. Len(k) = Len(o) /\ Len(k2) = Len(o2) /\ Enough(Len(k), TRUE) /\ Enough(Len(k2), TRUE)
  BY DEF LeavesRebuilt
<1>6. Len(k) >= 1 /\ Len(k2) >= 1
  BY <1>5 DEF Enough
<1>7. l2.leaf = TRUE /\ r2.leaf = TRUE
  BY <1>1, <1>3 DEF SameLinks
<1>8. Enough(Count(l2), TRUE) /\ Enough(Count(r2), TRUE)
  BY <1>3, <1>5 DEF Count
<1>9. HalfFilled(l2) /\ HalfFilled(r2)
  BY <1>7, <1>8, EnoughFills
<1>10. LeavesShare(l2, r2, l, r, K, L, U, s, n)
  BY <1>1, <1>2, <1>3, <1>4, <1>5, <1>6, <1>9 DEF LeavesShare
<1>11. WellMoved(l2, r2, l, r, U, r2.keys[1], h, span, level, n)
  BY <1>1, <1>10, LeavesAreMoved
<1>12. QED
  BY <1>3, <1>11

\* What a lender on the left and the node it lends to become.
LendsLeft(l2, r2, l, r, s) ==
  /\ l2 = [l EXCEPT !.keys = Front(@), !.locs = IF r.leaf THEN Front(@) ELSE @,
                    !.kids = IF r.leaf THEN @ ELSE Front(@)]
  /\ r2 = [r EXCEPT !.keys = <<IF r.leaf THEN Last(l.keys) ELSE s>> \o @,
                    !.locs = IF r.leaf THEN <<Last(l.locs)>> \o @ ELSE @,
                    !.kids = IF r.leaf THEN @ ELSE <<Last(l.kids)>> \o @]

LEMMA LeafLendsLeft ==
  ASSUME NEW l, NEW r, NEW U, NEW s, NEW h, NEW span, NEW level, NEW n,
         Neighbours(l, r, U, s, h, TRUE, span, level, n), Lent(Count(l), Count(r), TRUE),
         NEW l2, NEW r2, LendsLeft(l2, r2, l, r, s)
  PROVE  WellMoved(l2, r2, l, r, U, Last(l.keys), h, span, level, n)
<1>1. n \in Nat /\ l \in Node(n) /\ r \in Node(n) /\ r.leaf
  BY DEF Neighbours
<1>2. /\ l.keys \in Seq(Keys) /\ r.keys \in Seq(Keys) /\ l.locs \in Seq(Locs) /\ r.locs \in Seq(Locs)
      /\ Len(l.locs) = Len(l.keys) /\ Len(r.locs) = Len(r.keys) /\ l.kids \in Seq(1..n) /\ r.kids \in Seq(1..n)
  BY NeighbourFacts
<1> DEFINE k == Front(l.keys)
           k2 == <<Last(l.keys)>> \o r.keys
           o == Front(l.locs)
           o2 == <<Last(l.locs)>> \o r.locs
<1>3. Enough(Len(l.keys) - 1, TRUE) /\ Enough(Len(r.keys) + 1, TRUE)
  BY LentCounts DEF Count
<1>4. Len(l.keys) \in Nat /\ Len(r.keys) \in Nat /\ Len(l.keys) >= 2
  <2>1. Len(l.keys) \in Nat /\ Len(r.keys) \in Nat
    BY <1>2, SeqFacts
  <2>2. Len(l.keys) - 1 >= 1
    BY <1>3 DEF Enough
  <2>3. QED
    BY <2>1, <2>2
<1>5. l.keys # << >> /\ l.locs # << >>
  <2>1. Len(<< >>) = 0
    OBVIOUS
  <2>2. QED
    BY <2>1, <1>2, <1>4
<1>6. LastMoves(k, k2, l.keys, r.keys, Keys)
  BY <1>2, <1>5 DEF LastMoves
<1>7. LastMoves(o, o2, l.locs, r.locs, Locs)
  BY <1>2, <1>5 DEF LastMoves
<1>8. l2 = [l EXCEPT !.keys = k, !.locs = o, !.kids = l.kids]
  BY <1>1 DEF LendsLeft
<1>9. r2 = [r EXCEPT !.keys = k2, !.locs = o2, !.kids = r.kids]
  BY <1>1 DEF LendsLeft
<1> HIDE DEF k, k2, o, o2
<1>10. /\ SharesOut(l.keys \o r.keys, k, k2, l.keys, r.keys, Keys) /\ k2[1] = Last(l.keys)
       /\ Len(k) = Len(l.keys) - 1 /\ Len(k2) = Len(r.keys) + 1
  BY <1>6, LastMovesIs
<1>11. /\ SharesOut(l.locs \o r.locs, o, o2, l.locs, r.locs, Locs)
       /\ Len(o) = Len(l.locs) - 1 /\ Len(o2) = Len(r.locs) + 1
  BY <1>7, LastMovesIs
<1>12. k \in Seq(Keys) /\ k2 \in Seq(Keys) /\ o \in Seq(Locs) /\ o2 \in Seq(Locs)
  BY <1>10, <1>11 DEF SharesOut
<1>13. Rebuilt(l2, l, k, o, l.kids, n) /\ Rebuilt(r2, r, k2, o2, r.kids, n)
  BY <1>1, <1>2, <1>8, <1>9, <1>12 DEF Rebuilt
<1>14. HasContent(l2, l, k, o, l.kids, n) /\ HasContent(r2, r, k2, o2, r.kids, n)
  BY <1>13, ContentIs
<1>15. LeavesRebuilt(l2, r2, l, r, k, k2, o, o2, n)
  BY <1>2, <1>3, <1>10, <1>11, <1>14 DEF LeavesRebuilt
<1>16. WellMoved(l2, r2, l, r, U, k2[1], h, span, level, n)
  BY <1>15, LeavesRebuiltIs
<1>17. QED
  BY <1>10, <1>16

\* Two forks rebuilt from what they had and the key between them.
GluesOut(K, s2, m2, t2, s, m, t, T) ==
  /\ K \in Seq(T) /\ Glued(K, s, m, t) /\ Glued(K, s2, m2, t2)
  /\ s2 \in Seq(T) /\ t2 \in Seq(T) /\ m2 \in T

LEMMA KeyMovesIs ==
  ASSUME NEW s2, NEW m2, NEW t2, NEW s, NEW m, NEW t, NEW T, KeyMoves(s2, m2, t2, s, m, t, T)
  PROVE  /\ GluesOut((s \o <<m>>) \o t, s2, m2, t2, s, m, t, T)
         /\ Len(s2) = Len(s) - 1 /\ Len(t2) = Len(t) + 1
<1> DEFINE K == (s \o <<m>>) \o t
<1>1. s \in Seq(T) /\ m \in T /\ t \in Seq(T)
  BY DEF KeyMoves
<1>2. K = (s \o <<m>>) \o t
  OBVIOUS
<1> HIDE DEF K
<1>3. K \in Seq(T) /\ Glued(K, s, m, t)
  BY <1>1, <1>2, GluedIs
<1>4. /\ Glued(K, s2, m2, t2) /\ s2 \in Seq(T) /\ t2 \in Seq(T) /\ m2 \in T
      /\ Len(s2) = Len(s) - 1 /\ Len(t2) = Len(t) + 1
  BY <1>3, GluedLeft
<1>5. GluesOut(K, s2, m2, t2, s, m, t, T)
  BY <1>3, <1>4 DEF GluesOut
<1>6. QED
  BY <1>4, <1>5 DEF K

ForksRebuilt(l2, r2, l, r, k, m, k2, v, v2, s, n) ==
  /\ HasContent(l2, l, k, l.locs, v, n) /\ HasContent(r2, r, k2, r.locs, v2, n)
  /\ GluesOut((l.keys \o <<s>>) \o r.keys, k, m, k2, l.keys, s, r.keys, Keys)
  /\ SharesOut(l.kids \o r.kids, v, v2, l.kids, r.kids, 1..n)
  /\ Len(v) = Len(k) + 1
  /\ Enough(Len(k), FALSE) /\ Enough(Len(k2), FALSE)

LEMMA ForksRebuiltIs ==
  ASSUME NEW l, NEW r, NEW U, NEW s, NEW h, NEW span, NEW level, NEW n,
         Neighbours(l, r, U, s, h, FALSE, span, level, n),
         NEW l2, NEW r2, NEW k, NEW m, NEW k2, NEW v, NEW v2,
         ForksRebuilt(l2, r2, l, r, k, m, k2, v, v2, s, n)
  PROVE  WellMoved(l2, r2, l, r, U, m, h, span, level, n)
<1>1. /\ n \in Nat /\ l \in Node(n) /\ r \in Node(n) /\ l.leaf = FALSE /\ r.leaf = FALSE
      /\ U \subseteq Keys /\ s \in U /\ Low(U, s) # {} /\ High(U, s) # {}
  BY DEF Neighbours
<1>2. ForkFits(l, Low(U, s), h, span, level) /\ ForkFits(r, High(U, s), h, span, level)
  BY NeighbourFacts
<1>3. /\ l2 \in Node(n) /\ l2.keys = k /\ l2.locs = l.locs /\ l2.kids = v /\ SameLinks(l2, l)
      /\ r2 \in Node(n) /\ r2.keys = k2 /\ r2.locs = r.locs /\ r2.kids = v2 /\ SameLinks(r2, r)
  BY DEF ForksRebuilt, HasContent
<1> DEFINE K == (l.keys \o <<s>>) \o r.keys
           V == l.kids \o r.kids
<1>4. /\ K \in Seq(Keys) /\ Glued(K, l.keys, s, r.keys) /\ Glued(K, k, m, k2) /\ m \in Keys
      /\ V \in Seq(1..n) /\ Joined(V, l.kids, r.kids) /\ Joined(V, v, v2)
  BY DEF ForksRebuilt, SharesOut, GluesOut
<1> HIDE DEF K, V
<1>5. Len(v) = Len(k) + 1 /\ Enough(Len(k), FALSE) /\ Enough(Len(k2), FALSE)
  BY DEF ForksRebuilt
<1>6. l2.leaf = FALSE /\ r2.leaf = FALSE
  BY <1>1, <1>3 DEF SameLinks
<1>7. Enough(Count(l2), FALSE) /\ Enough(Count(r2), FALSE)
  BY <1>3, <1>5 DEF Count
<1>8. HalfFilled(l2) /\ HalfFilled(r2)
  BY <1>6, <1>7, EnoughFills
<1>9. Len(l2.kids) = Len(l2.keys) + 1
  BY <1>3, <1>5
<1>10. ForksShare(l2, r2, l, r, K, V, m, U, s, h, span, level, n)
  BY <1>1, <1>2, <1>3, <1>4, <1>8, <1>9 DEF ForksShare
<1>11. QED
  BY <1>10, ForksAreMoved

LEMMA ForkLendsLeft ==
  ASSUME NEW l, NEW r, NEW U, NEW s, NEW h, NEW span, NEW level, NEW n,
         Neighbours(l, r, U, s, h, FALSE, span, level, n), Lent(Count(l), Count(r), FALSE),
         NEW l2, NEW r2, LendsLeft(l2, r2, l, r, s)
  PROVE  WellMoved(l2, r2, l, r, U, Last(l.keys), h, span, level, n)
<1>1. n \in Nat /\ l \in Node(n) /\ r \in Node(n) /\ r.leaf = FALSE /\ s \in Keys
  BY DEF Neighbours
<1>2. /\ l.keys \in Seq(Keys) /\ r.keys \in Seq(Keys) /\ l.locs \in Seq(Locs) /\ r.locs \in Seq(Locs)
      /\ l.kids \in Seq(1..n) /\ r.kids \in Seq(1..n)
      /\ Len(l.kids) = Len(l.keys) + 1 /\ Len(r.kids) = Len(r.keys) + 1
  BY NeighbourFacts
<1> DEFINE k == Front(l.keys)
           m == Last(l.keys)
           k2 == <<s>> \o r.keys
           v == Front(l.kids)
           v2 == <<Last(l.kids)>> \o r.kids
<1>3. Enough(Len(l.keys) - 1, FALSE) /\ Enough(Len(r.keys) + 1, FALSE)
  BY LentCounts DEF Count
<1>4. Len(l.keys) \in Nat /\ Len(r.keys) \in Nat /\ Len(l.keys) >= 2
  <2>1. Len(l.keys) \in Nat /\ Len(r.keys) \in Nat
    BY <1>2, SeqFacts
  <2>2. Len(l.keys) - 1 >= 1
    BY <1>3 DEF Enough
  <2>3. QED
    BY <2>1, <2>2
<1>5. l.keys # << >> /\ l.kids # << >>
  <2>1. Len(<< >>) = 0
    OBVIOUS
  <2>2. QED
    BY <2>1, <1>2, <1>4
<1>6. KeyMoves(k, m, k2, l.keys, s, r.keys, Keys)
  BY <1>1, <1>2, <1>5 DEF KeyMoves
<1>7. LastMoves(v, v2, l.kids, r.kids, 1..n)
  BY <1>2, <1>5 DEF LastMoves
<1>8. l2 = [l EXCEPT !.keys = k, !.locs = l.locs, !.kids = v]
  BY <1>1 DEF LendsLeft
<1>9. r2 = [r EXCEPT !.keys = k2, !.locs = r.locs, !.kids = v2]
  BY <1>1 DEF LendsLeft
<1>a. m = Last(l.keys)
  OBVIOUS
<1> HIDE DEF k, m, k2, v, v2
<1>10. /\ GluesOut((l.keys \o <<s>>) \o r.keys, k, m, k2, l.keys, s, r.keys, Keys)
       /\ Len(k) = Len(l.keys) - 1 /\ Len(k2) = Len(r.keys) + 1
  BY <1>6, KeyMovesIs
<1>11. /\ SharesOut(l.kids \o r.kids, v, v2, l.kids, r.kids, 1..n)
       /\ Len(v) = Len(l.kids) - 1 /\ Len(v2) = Len(r.kids) + 1
  BY <1>7, LastMovesIs
<1>12. k \in Seq(Keys) /\ k2 \in Seq(Keys) /\ v \in Seq(1..n) /\ v2 \in Seq(1..n)
  BY <1>10, <1>11 DEF SharesOut, GluesOut
<1>13. Rebuilt(l2, l, k, l.locs, v, n) /\ Rebuilt(r2, r, k2, r.locs, v2, n)
  BY <1>1, <1>2, <1>8, <1>9, <1>12 DEF Rebuilt
<1>14. HasContent(l2, l, k, l.locs, v, n) /\ HasContent(r2, r, k2, r.locs, v2, n)
  BY <1>13, ContentIs
<1>15. Len(v) = Len(k) + 1
  BY <1>2, <1>4, <1>10, <1>11
<1>16. ForksRebuilt(l2, r2, l, r, k, m, k2, v, v2, s, n)
  BY <1>3, <1>10, <1>11, <1>14, <1>15 DEF ForksRebuilt
<1>17. WellMoved(l2, r2, l, r, U, m, h, span, level, n)
  BY <1>16, ForksRebuiltIs
<1>18. QED
  BY <1>17, <1>a

\* What a lender on the right and the node it lends to become.
LendsRight(l2, r2, l, r, s) ==
  /\ r2 = [r EXCEPT !.keys = Tail(@), !.locs = IF l.leaf THEN Tail(@) ELSE @,
                    !.kids = IF l.leaf THEN @ ELSE Tail(@)]
  /\ l2 = [l EXCEPT !.keys = Append(@, IF l.leaf THEN Head(r.keys) ELSE s),
                    !.locs = IF l.leaf THEN Append(@, Head(r.locs)) ELSE @,
                    !.kids = IF l.leaf THEN @ ELSE Append(@, Head(r.kids))]

LEMMA LeafLendsRight ==
  ASSUME NEW l, NEW r, NEW U, NEW s, NEW h, NEW span, NEW level, NEW n,
         Neighbours(l, r, U, s, h, TRUE, span, level, n), Lent(Count(r), Count(l), TRUE),
         NEW l2, NEW r2, LendsRight(l2, r2, l, r, s)
  PROVE  WellMoved(l2, r2, l, r, U, r.keys[2], h, span, level, n)
<1>1. n \in Nat /\ l \in Node(n) /\ r \in Node(n) /\ l.leaf
  BY DEF Neighbours
<1>2. /\ l.keys \in Seq(Keys) /\ r.keys \in Seq(Keys) /\ l.locs \in Seq(Locs) /\ r.locs \in Seq(Locs)
      /\ Len(l.locs) = Len(l.keys) /\ Len(r.locs) = Len(r.keys) /\ l.kids \in Seq(1..n) /\ r.kids \in Seq(1..n)
  BY NeighbourFacts
<1> DEFINE k == Append(l.keys, Head(r.keys))
           k2 == Tail(r.keys)
           o == Append(l.locs, Head(r.locs))
           o2 == Tail(r.locs)
<1>3. Enough(Len(r.keys) - 1, TRUE) /\ Enough(Len(l.keys) + 1, TRUE)
  BY LentCounts DEF Count
<1>4. Len(l.keys) \in Nat /\ Len(r.keys) \in Nat /\ Len(r.keys) >= 2
  <2>1. Len(l.keys) \in Nat /\ Len(r.keys) \in Nat
    BY <1>2, SeqFacts
  <2>2. Len(r.keys) - 1 >= 1
    BY <1>3 DEF Enough
  <2>3. QED
    BY <2>1, <2>2
<1>5. r.keys # << >> /\ r.locs # << >>
  <2>1. Len(<< >>) = 0
    OBVIOUS
  <2>2. QED
    BY <2>1, <1>2, <1>4
<1>6. FirstMoves(k, k2, l.keys, r.keys, Keys)
  BY <1>2, <1>5 DEF FirstMoves
<1>7. FirstMoves(o, o2, l.locs, r.locs, Locs)
  BY <1>2, <1>5 DEF FirstMoves
<1>8. l2 = [l EXCEPT !.keys = k, !.locs = o, !.kids = l.kids]
  BY <1>1 DEF LendsRight
<1>9. r2 = [r EXCEPT !.keys = k2, !.locs = o2, !.kids = r.kids]
  BY <1>1 DEF LendsRight
<1> HIDE DEF k, k2, o, o2
<1>10. /\ SharesOut(l.keys \o r.keys, k, k2, l.keys, r.keys, Keys) /\ k2[1] = r.keys[2]
       /\ Len(k) = Len(l.keys) + 1 /\ Len(k2) = Len(r.keys) - 1
  BY <1>6, <1>4, FirstMovesIs
<1>11. /\ SharesOut(l.locs \o r.locs, o, o2, l.locs, r.locs, Locs)
       /\ Len(o) = Len(l.locs) + 1 /\ Len(o2) = Len(r.locs) - 1
  BY <1>7, FirstMovesIs
<1>12. k \in Seq(Keys) /\ k2 \in Seq(Keys) /\ o \in Seq(Locs) /\ o2 \in Seq(Locs)
  BY <1>10, <1>11 DEF SharesOut
<1>13. Rebuilt(l2, l, k, o, l.kids, n) /\ Rebuilt(r2, r, k2, o2, r.kids, n)
  BY <1>1, <1>2, <1>8, <1>9, <1>12 DEF Rebuilt
<1>14. HasContent(l2, l, k, o, l.kids, n) /\ HasContent(r2, r, k2, o2, r.kids, n)
  BY <1>13, ContentIs
<1>15. LeavesRebuilt(l2, r2, l, r, k, k2, o, o2, n)
  BY <1>2, <1>3, <1>10, <1>11, <1>14 DEF LeavesRebuilt
<1>16. WellMoved(l2, r2, l, r, U, k2[1], h, span, level, n)
  BY <1>15, LeavesRebuiltIs
<1>17. QED
  BY <1>10, <1>16

\* Two neighbours that are not full enough for one to lend.
Few(a, b, leaf) ==
  /\ leaf \in BOOLEAN /\ a \in Nat /\ b \in Nat
  /\ \/ a = Least(leaf) - 1 /\ b = Least(leaf)
     \/ b = Least(leaf) - 1 /\ a = Least(leaf)

LEMMA FewCounts ==
  ASSUME NEW a, NEW b, NEW leaf, Few(a, b, leaf)
  PROVE  Enough(a + b, leaf) /\ Enough((a + b) + 1, leaf)
<1>1. leaf \in BOOLEAN
  BY DEF Few
<1>2. PICK x : x = Least(leaf)
  OBVIOUS
<1>3. PICK y : y = Most(leaf)
  OBVIOUS
<1>4. x \in Nat /\ y \in Nat /\ x >= 1 /\ x + x <= y
  BY <1>1, <1>2, <1>3, LeastIs
<1>5. a \in Nat /\ b \in Nat /\ ((a = x - 1 /\ b = x) \/ (b = x - 1 /\ a = x))
  BY <1>2 DEF Few
<1>6. /\ a + b \in Nat /\ a + b >= x /\ a + b <= y /\ a + b >= 1
      /\ (a + b) + 1 \in Nat /\ (a + b) + 1 >= x /\ (a + b) + 1 <= y /\ (a + b) + 1 >= 1
  BY <1>4, <1>5
<1>7. QED
  BY <1>2, <1>3, <1>6 DEF Enough

\* What the left one of two merged nodes becomes.
Merges(x, l, r, s) ==
  LET sep == IF l.leaf THEN << >> ELSE <<s>> IN
  x = [l EXCEPT !.keys = @ \o sep \o r.keys, !.locs = @ \o r.locs, !.kids = @ \o r.kids,
                !.next = r.next]

MergedNode(x, l, r, K, L, V, m) ==
  /\ m \in Nat /\ l \in Node(m) /\ r \in Node(m)
  /\ K \in Seq(Keys) /\ L \in Seq(Locs) /\ V \in Seq(1..m)
  /\ x = [l EXCEPT !.keys = K, !.locs = L, !.kids = V, !.next = r.next]

LEMMA MergedNodeIs ==
  ASSUME NEW x, NEW l, NEW r, NEW K, NEW L, NEW V, NEW m, MergedNode(x, l, r, K, L, V, m)
  PROVE  /\ x \in Node(m) /\ x.keys = K /\ x.locs = L /\ x.kids = V
         /\ x.leaf = l.leaf /\ x.next = r.next /\ x.prev = l.prev
  BY DEF MergedNode, Node

LEMMA LeavesMerged ==
  ASSUME NEW l, NEW r, NEW U, NEW s, NEW h, NEW span, NEW level, NEW n,
         Neighbours(l, r, U, s, h, TRUE, span, level, n), Few(Count(l), Count(r), TRUE),
         NEW x, Merges(x, l, r, s)
  PROVE  WellJoined(x, l, r, U, h, span, level, n)
<1>1. /\ n \in Nat /\ l \in Node(n) /\ r \in Node(n) /\ l.leaf = TRUE /\ r.leaf = TRUE
      /\ U \subseteq Keys /\ s \in Int /\ h = 0
  BY DEF Neighbours
<1>2. /\ l.keys \in Seq(Keys) /\ r.keys \in Seq(Keys) /\ l.locs \in Seq(Locs) /\ r.locs \in Seq(Locs)
      /\ Len(l.locs) = Len(l.keys) /\ Len(r.locs) = Len(r.keys) /\ l.kids \in Seq(1..n) /\ r.kids \in Seq(1..n)
      /\ l.kids = << >> /\ r.kids = << >> /\ LeafFits(l, Low(U, s)) /\ LeafFits(r, High(U, s))
  BY NeighbourFacts
<1> DEFINE K == l.keys \o r.keys
           L == l.locs \o r.locs
           V == l.kids \o r.kids
<1>3. x = [l EXCEPT !.keys = K, !.locs = L, !.kids = V, !.next = r.next]
  <2>1. l.keys \o << >> = l.keys
    BY <1>2
  <2>2. (l.keys \o << >>) \o r.keys = K
    BY <2>1
  <2>3. x = [l EXCEPT !.keys = (l.keys \o << >>) \o r.keys, !.locs = L, !.kids = V, !.next = r.next]
    BY <1>1 DEF Merges
  <2>4. QED
    BY <2>2, <2>3
<1>4. K = l.keys \o r.keys /\ L = l.locs \o r.locs
  OBVIOUS
<1>5. V = << >> /\ V \in Seq(1..n)
  BY <1>2
<1> HIDE DEF K, L, V
<1>6. K \in Seq(Keys) /\ Joined(K, l.keys, r.keys)
  BY <1>2, <1>4, JoinedIs
<1>7. L \in Seq(Locs) /\ Joined(L, l.locs, r.locs)
  BY <1>2, <1>4, JoinedIs
<1>8. MergedNode(x, l, r, K, L, V, n)
  BY <1>1, <1>3, <1>5, <1>6, <1>7 DEF MergedNode
<1>9. /\ x \in Node(n) /\ x.keys = K /\ x.locs = L /\ x.kids = V
      /\ x.leaf = l.leaf /\ x.next = r.next /\ x.prev = l.prev
  BY <1>8, MergedNodeIs
<1>10. l.keys \in Seq(Int) /\ r.keys \in Seq(Int) /\ x.keys \in Seq(Int) /\ U \in SUBSET Int
  BY <1>1, <1>9, NodeFacts, KeysAreInts
<1>11. Ascending(K) /\ Within(K, U)
  <2>1. Ascending(l.keys) /\ Within(l.keys, Low(U, s)) /\ Ascending(r.keys) /\ Within(r.keys, High(U, s))
    BY <1>2 DEF LeafFits
  <2>2. K \in Seq(Int)
    BY <1>9, <1>10
  <2>3. QED
    BY <2>1, <2>2, <1>1, <1>6, <1>10, LeafJoin
<1>12. Len(x.keys) = Count(l) + Count(r) /\ Len(x.locs) = Len(x.keys)
  BY <1>2, <1>6, <1>7, <1>9 DEF Joined, Count
<1>13. NodeFits(x, U, h, span, level)
  BY <1>1, <1>5, <1>9, <1>11, <1>12 DEF NodeFits, LeafFits
<1>14. HoldsBoth(x, l, r)
  <2>1. Joined(x.keys, l.keys, r.keys) /\ Joined(x.locs, l.locs, r.locs) /\ x.locs \in Seq(Locs)
    BY <1>6, <1>7, <1>9
  <2>2. QED
    BY <2>1, <1>2, <1>10, EntriesJoined
<1>15. HalfFilled(x)
  <2>1. Enough(Count(x), TRUE)
    BY <1>12, FewCounts DEF Count
  <2>2. x.leaf = TRUE
    BY <1>1, <1>9
  <2>3. QED
    BY <2>1, <2>2, EnoughFills
<1>16. QED
  BY <1>9, <1>13, <1>14, <1>15 DEF WellJoined, HoldsBoth

LEMMA ForksMerged ==
  ASSUME NEW l, NEW r, NEW U, NEW s, NEW h, NEW span, NEW level, NEW n,
         Neighbours(l, r, U, s, h, FALSE, span, level, n), Few(Count(l), Count(r), FALSE),
         NEW x, Merges(x, l, r, s)
  PROVE  WellJoined(x, l, r, U, h, span, level, n)
<1>1. /\ n \in Nat /\ l \in Node(n) /\ r \in Node(n) /\ l.leaf = FALSE /\ r.leaf = FALSE
      /\ U \subseteq Keys /\ s \in U /\ s \in Keys /\ Low(U, s) # {} /\ High(U, s) # {}
  BY DEF Neighbours
<1>2. /\ l.keys \in Seq(Keys) /\ r.keys \in Seq(Keys) /\ l.locs \in Seq(Locs) /\ r.locs \in Seq(Locs)
      /\ l.kids \in Seq(1..n) /\ r.kids \in Seq(1..n)
      /\ l.locs = << >> /\ r.locs = << >>
      /\ ForkFits(l, Low(U, s), h, span, level) /\ ForkFits(r, High(U, s), h, span, level)
  BY NeighbourFacts
<1> DEFINE K == (l.keys \o <<s>>) \o r.keys
           L == l.locs \o r.locs
           V == l.kids \o r.kids
<1>3. x = [l EXCEPT !.keys = K, !.locs = L, !.kids = V, !.next = r.next]
  BY <1>1 DEF Merges
<1>4. K = (l.keys \o <<s>>) \o r.keys /\ V = l.kids \o r.kids
  OBVIOUS
<1>5. L = << >> /\ L \in Seq(Locs)
  BY <1>2
<1> HIDE DEF K, L, V
<1>6. K \in Seq(Keys) /\ Glued(K, l.keys, s, r.keys)
  BY <1>1, <1>2, <1>4, GluedIs
<1>7. V \in Seq(1..n) /\ Joined(V, l.kids, r.kids)
  BY <1>2, <1>4, JoinedIs
<1>8. MergedNode(x, l, r, K, L, V, n)
  BY <1>1, <1>3, <1>5, <1>6, <1>7 DEF MergedNode
<1>9. /\ x \in Node(n) /\ x.keys = K /\ x.locs = L /\ x.kids = V
      /\ x.leaf = l.leaf /\ x.next = r.next /\ x.prev = l.prev
  BY <1>8, MergedNodeIs
<1>10. l.keys \in Seq(Int) /\ r.keys \in Seq(Int) /\ x.keys \in Seq(Int) /\ U \in SUBSET Int
  BY <1>1, <1>9, NodeFacts, KeysAreInts
<1>11. ForkFits(x, U, h, span, level)
  <2>1. K \in Seq(Int) /\ IsFork(x, K, V)
    BY <1>5, <1>9, <1>10 DEF IsFork
  <2>2. JoinsForks(x, l, r, K, V, s, 1..n, U, h, span, level)
    BY <2>1, <1>1, <1>2, <1>6, <1>7, <1>10 DEF JoinsForks
  <2>3. QED
    BY <2>2, ForkJoin
<1>12. NodeFits(x, U, h, span, level)
  BY <1>1, <1>9, <1>11 DEF NodeFits
<1>13. EntriesOf(x) = {} /\ EntriesOf(l) = {} /\ EntriesOf(r) = {}
  BY <1>2, <1>5, <1>9, ForkEntries
<1>14. HalfFilled(x)
  <2>1. Count(x) = (Count(l) + Count(r)) + 1
    BY <1>6, <1>9 DEF Count, Glued
  <2>2. Enough(Count(x), FALSE)
    BY <2>1, FewCounts
  <2>3. x.leaf = FALSE
    BY <1>1, <1>9
  <2>4. QED
    BY <2>2, <2>3, EnoughFills
<1>15. QED
  BY <1>9, <1>12, <1>13, <1>14 DEF WellJoined

-----------------------------------------------------------------------------
(* Delete: a level rebalanced.                                             *)

\* The nodes of a pair and the key between them.
LEMMA PairIs ==
  ASSUME NEW ns, NEW p, NEW i, NEW a, NEW b, NEW c, NEW U, NEW s, NEW leaf, NEW span, NEW level,
         ShortPair(ns, p, i, a, b, c, U, s, leaf, span, level)
  PROVE  /\ Neighbours(ns[a], ns[b], U, s, level[a], leaf, span, level, Len(ns))
         /\ leaf \in BOOLEAN /\ ns[a].leaf = leaf /\ ns[b].leaf = leaf /\ c \in {a, b} /\ a # b
         /\ MinKeys(ns[c]) = Least(leaf)
         /\ \A x \in {a, b} : x # c => /\ Count(ns[x]) > MinKeys(ns[c]) => Lent(Count(ns[x]), Count(ns[c]), leaf)
                                       /\ ~(Count(ns[x]) > MinKeys(ns[c])) => Few(Count(ns[a]), Count(ns[b]), leaf)
<1>1. /\ Len(ns) \in Nat /\ Siblings(ns, span, level, p, a, b, s)
      /\ leaf \in BOOLEAN /\ ns[a].leaf = leaf /\ ns[b].leaf = leaf /\ c \in {a, b}
      /\ ns[a] \in Node(Len(ns)) /\ ns[b] \in Node(Len(ns))
      /\ NodeFits(ns[a], Low(U, s), level[a], span, level) /\ NodeFits(ns[b], High(U, s), level[a], span, level)
      /\ Count(ns[a]) \in Nat /\ Count(ns[b]) \in Nat
      /\ U \subseteq Keys /\ s \in U /\ s \in Keys /\ s \in Int /\ Low(U, s) # {} /\ High(U, s) # {}
      /\ level[a] \in Nat /\ (leaf => level[a] = 0)
  BY DEF ShortPair
<1>2. /\ Count(ns[a]) <= Most(leaf) /\ Count(ns[b]) <= Most(leaf)
      /\ Count(ns[c]) = Least(leaf) - 1
      /\ \A x \in {a, b} : x # c => Count(ns[x]) >= Least(leaf)
  BY DEF ShortPair
<1>3. a # b
  BY <1>1 DEF Siblings
<1>4. MinKeys(ns[c]) = Least(leaf)
  BY <1>1, LeastIs
<1>5. Neighbours(ns[a], ns[b], U, s, level[a], leaf, span, level, Len(ns))
  BY <1>1 DEF Neighbours
<1>6. ASSUME NEW x \in {a, b}, x # c
      PROVE  /\ Count(ns[x]) > MinKeys(ns[c]) => Lent(Count(ns[x]), Count(ns[c]), leaf)
             /\ ~(Count(ns[x]) > MinKeys(ns[c])) => Few(Count(ns[a]), Count(ns[b]), leaf)
  <2>1. PICK w : w = Least(leaf)
    OBVIOUS
  <2>2. w \in Nat
    BY <2>1, <1>1, LeastIs
  <2>3. Count(ns[x]) \in Nat /\ Count(ns[c]) \in Nat /\ Count(ns[x]) <= Most(leaf)
    BY <1>1, <1>2
  <2>4. Count(ns[c]) = w - 1 /\ Count(ns[x]) >= w /\ MinKeys(ns[c]) = w
    BY <2>1, <1>2, <1>4, <1>6
  <2>5. Count(ns[x]) > MinKeys(ns[c]) => Lent(Count(ns[x]), Count(ns[c]), leaf)
    BY <2>1, <2>3, <2>4, <1>1 DEF Lent
  <2>6. ASSUME ~(Count(ns[x]) > MinKeys(ns[c]))
        PROVE  Few(Count(ns[a]), Count(ns[b]), leaf)
    <3>1. Count(ns[x]) = w
      BY <2>2, <2>3, <2>4, <2>6
    <3>2. (x = a /\ c = b) \/ (x = b /\ c = a)
      BY <1>1, <1>6
    <3>3. QED
      BY <3>1, <3>2, <2>1, <2>4, <1>1 DEF Few
  <2>7. QED
    BY <2>5, <2>6
<1>7. QED
  BY <1>1, <1>3, <1>4, <1>5, <1>6

\* One of a pair lent to the other; m is now between them.
LendsUnder(ns2, l2, r2, m, ns, p, i, a, b, U, span, level) ==
  /\ WellMoved(l2, r2, ns[a], ns[b], U, m, level[a], span, level, Len(ns))
  /\ \/ ns2 = [ns EXCEPT ![a] = l2, ![b] = r2, ![p] = NewSeparator(ns[p], i, m)]
     \/ ns2 = [ns EXCEPT ![b] = r2, ![a] = l2, ![p] = NewSeparator(ns[p], i, m)]

LEMMA LentUnder ==
  ASSUME NEW ns, NEW p, NEW i, NEW a, NEW b, NEW c, NEW E, NEW span0, NEW level, NEW span,
         Short(ns, p, i, a, b, c, E, span0, level, span),
         NEW ns2, NEW l2, NEW r2, NEW m,
         LendsUnder(ns2, l2, r2, m, ns, p, i, a, b, span[a] \cup span[b], span, level)
  PROVE  \E span2 : Shrunk(ns2, p, E, span0, level, span2)
<1> DEFINE q == NewSeparator(ns[p], i, m)
           s == ns[p].keys[i]
           n == Len(ns)
<1>1. /\ Shrunk(ns, c, E, span0, level, span) /\ p \in 1..n /\ ~ns[p].leaf /\ span[p] # {}
      /\ i \in 1..Len(ns[p].keys) /\ a = ns[p].kids[i] /\ b = ns[p].kids[i + 1] /\ c \in {a, b}
  BY DEF Short
<1>2. Shape(ns, span, span, level)
  BY <1>1 DEF Shrunk
<1>3. n \in Nat /\ ns \in Seq(Node(n)) /\ ns[p] \in Node(n)
  BY <1>1, <1>2, ShapeFacts DEF Shape
<1>4. s = ns[p].keys[i] /\ q = NewSeparator(ns[p], i, m)
  OBVIOUS
<1> HIDE DEF q, s
<1>5. Siblings(ns, span, level, p, a, b, s)
  BY <1>1, <1>2, <1>4, SiblingsAre
<1>6. WellMoved(l2, r2, ns[a], ns[b], span[a] \cup span[b], m, level[a], span, level, n)
  BY DEF LendsUnder
<1>7. l2 \in Node(n) /\ r2 \in Node(n) /\ m \in Keys
  BY <1>6 DEF WellMoved
<1>8. ns[p].locs = << >>
  BY <1>1, <1>2, ShapeFacts DEF ForkFits
<1>9. q \in Node(n)
  BY <1>1, <1>3, <1>4, <1>7, <1>8, NewSeparatorIs
<1>10. a \in 1..n /\ b \in 1..n /\ a # b /\ a # p /\ b # p
  BY <1>5 DEF Siblings
<1>11. ns2 = [ns EXCEPT ![a] = l2, ![b] = r2, ![p] = q] \/ ns2 = [ns EXCEPT ![b] = r2, ![a] = l2, ![p] = q]
  BY <1>4 DEF LendsUnder
<1>12. NodesMoved(ns2, ns, a, b, p, l2, r2, q)
  BY <1>1, <1>3, <1>7, <1>9, <1>10, <1>11, ThreeChanged
<1>13. QED
  BY <1>1, <1>4, <1>5, <1>6, <1>12, MovedKeeps

LEMMA BorrowLeftKeeps ==
  ASSUME NEW ns, NEW p, NEW i, NEW a, NEW b, NEW E, NEW span0, NEW level, NEW span,
         Short(ns, p, i, a, b, b, E, span0, level, span), Count(ns[a]) > MinKeys(ns[b]),
         NEW j, i = j - 1, NEW ns2, ns2 = BorrowFromLeft(ns, p, j, b, a)
  PROVE  \E span2 : Shrunk(ns2, p, E, span0, level, span2)
<1> DEFINE s == ns[p].keys[i]
           U == span[a] \cup span[b]
           leaf == ns[b].leaf
           m == Last(ns[a].keys)
           l == ns[a]
           r == ns[b]
           l2 == [l EXCEPT !.keys = Front(@), !.locs = IF r.leaf THEN Front(@) ELSE @,
                           !.kids = IF r.leaf THEN @ ELSE Front(@)]
           r2 == [r EXCEPT !.keys = <<IF r.leaf THEN Last(l.keys) ELSE s>> \o @,
                           !.locs = IF r.leaf THEN <<Last(l.locs)>> \o @ ELSE @,
                           !.kids = IF r.leaf THEN @ ELSE <<Last(l.kids)>> \o @]
<1>1. ShortPair(ns, p, i, a, b, b, U, s, leaf, span, level)
  BY ShortIs
<1>2. ns2 = [ns EXCEPT ![a] = l2, ![b] = r2, ![p] = NewSeparator(ns[p], i, m)]
  BY DEF BorrowFromLeft
<1>3. LendsLeft(l2, r2, l, r, s)
  BY DEF LendsLeft
<1> HIDE DEF s, U, leaf, l2, r2
<1>4. /\ Neighbours(l, r, U, s, level[a], leaf, span, level, Len(ns)) /\ leaf \in BOOLEAN
      /\ Lent(Count(l), Count(r), leaf)
  BY <1>1, PairIs
<1> HIDE DEF l, r
<1>5. WellMoved(l2, r2, l, r, U, Last(l.keys), level[a], span, level, Len(ns))
  <2>1. CASE leaf = TRUE
    BY <2>1, <1>3, <1>4, LeafLendsLeft
  <2>2. CASE leaf = FALSE
    BY <2>2, <1>3, <1>4, ForkLendsLeft
  <2>3. QED
    BY <2>1, <2>2, <1>4
<1>6. LendsUnder(ns2, l2, r2, m, ns, p, i, a, b, U, span, level)
  BY <1>2, <1>5 DEF LendsUnder, l, r
<1> HIDE DEF m
<1>7. QED
  BY <1>6, LentUnder DEF U

LEMMA BorrowRightKeeps ==
  ASSUME NEW ns, NEW p, NEW i, NEW a, NEW b, NEW E, NEW span0, NEW level, NEW span,
         Short(ns, p, i, a, b, a, E, span0, level, span), Count(ns[b]) > MinKeys(ns[a]), ns[a].leaf,
         NEW ns2, ns2 = BorrowFromRight(ns, p, i, a, b)
  PROVE  \E span2 : Shrunk(ns2, p, E, span0, level, span2)
<1> DEFINE s == ns[p].keys[i]
           U == span[a] \cup span[b]
           leaf == ns[a].leaf
           l == ns[a]
           r == ns[b]
           m == r.keys[2]
           r2 == [r EXCEPT !.keys = Tail(@), !.locs = IF l.leaf THEN Tail(@) ELSE @,
                           !.kids = IF l.leaf THEN @ ELSE Tail(@)]
           l2 == [l EXCEPT !.keys = Append(@, IF l.leaf THEN Head(r.keys) ELSE s),
                           !.locs = IF l.leaf THEN Append(@, Head(r.locs)) ELSE @,
                           !.kids = IF l.leaf THEN @ ELSE Append(@, Head(r.kids))]
<1>1. ShortPair(ns, p, i, a, b, a, U, s, leaf, span, level)
  BY ShortIs
<1>2. ns2 = [ns EXCEPT ![b] = r2, ![a] = l2, ![p] = NewSeparator(ns[p], i, m)]
  BY DEF BorrowFromRight
<1>3. LendsRight(l2, r2, l, r, s)
  BY DEF LendsRight
<1>a. leaf
  OBVIOUS
<1> HIDE DEF s, U, leaf, l2, r2
<1>4. /\ Neighbours(l, r, U, s, level[a], leaf, span, level, Len(ns)) /\ leaf \in BOOLEAN
      /\ Lent(Count(r), Count(l), leaf)
  BY <1>1, PairIs
<1> HIDE DEF l, r
<1>5. WellMoved(l2, r2, l, r, U, r.keys[2], level[a], span, level, Len(ns))
  <2>1. leaf = TRUE
    BY <1>4, <1>a
  <2>2. QED
    BY <2>1, <1>3, <1>4, LeafLendsRight
<1>6. LendsUnder(ns2, l2, r2, m, ns, p, i, a, b, U, span, level)
  BY <1>2, <1>5 DEF LendsUnder, l, r
<1> HIDE DEF m
<1>7. QED
  BY <1>6, LentUnder DEF U

\* The nodes of a file in which a took in b.
MergedAt(id, ns, a, b, p, x, q) ==
  CASE id = a -> x
    [] id = p -> q
    [] id = b -> EmptyLeaf
    [] id = ns[b].next -> LinkedBack(ns[id], a)
    [] OTHER -> ns[id]

LEMMA MergedAtIs ==
  ASSUME NEW ns, NEW a, NEW b, NEW p, a # b, a # p, b # p, ns[b].next \notin {a, b, p}, NEW x, NEW q
  PROVE  /\ MergedAt(a, ns, a, b, p, x, q) = x /\ MergedAt(b, ns, a, b, p, x, q) = EmptyLeaf
         /\ MergedAt(p, ns, a, b, p, x, q) = q
<1>1. MergedAt(a, ns, a, b, p, x, q) = x
  BY DEF MergedAt
<1>2. MergedAt(p, ns, a, b, p, x, q) = q
  BY DEF MergedAt
<1>3. MergedAt(b, ns, a, b, p, x, q) = EmptyLeaf
  BY DEF MergedAt
<1>4. QED
  BY <1>1, <1>2, <1>3

LEMMA MergedNodes ==
  ASSUME NEW ns, NEW n, n \in Nat, ns \in Seq(Node(n)), Len(ns) = n,
         NEW a \in 1..n, NEW b \in 1..n, NEW p \in 1..n, a # b, a # p, b # p,
         ns[b].next \notin {a, b, p}, NEW x \in Node(n), NEW q \in Node(n),
         NEW ns2, ns2 = [id \in DOMAIN ns |-> ns2[id]],
         \A id \in DOMAIN ns : ns2[id] = MergedAt(id, ns, a, b, p, x, q)
  PROVE  NodesMerged(ns2, ns, a, b, p, x, q)
<1>1. DOMAIN ns = 1..n /\ \A y \in 1..n : ns[y] \in Node(n)
  BY SeqFacts
<1>2. EmptyLeaf \in Node(n)
  BY DEF EmptyLeaf, Node, NoLeaf
<1>3. \A y \in 1..n : LinkedBack(ns[y], a) \in Node(n)
  BY <1>1, LinkedBackIs
<1>4. /\ DOMAIN ns2 = 1..n /\ ns2[a] = x /\ ns2[b] = EmptyLeaf /\ ns2[p] = q
      /\ \A y \in 1..n : y \notin {a, b, p} =>
           ns2[y] = IF y = ns[b].next THEN LinkedBack(ns[y], a) ELSE ns[y]
  <2>1. \A y \in 1..n : ns2[y] = MergedAt(y, ns, a, b, p, x, q)
    BY <1>1
  <2>2. /\ MergedAt(a, ns, a, b, p, x, q) = x /\ MergedAt(b, ns, a, b, p, x, q) = EmptyLeaf
        /\ MergedAt(p, ns, a, b, p, x, q) = q
    BY MergedAtIs
  <2>3. \A y : y \notin {a, b, p} =>
           MergedAt(y, ns, a, b, p, x, q) = IF y = ns[b].next THEN LinkedBack(ns[y], a) ELSE ns[y]
    BY DEF MergedAt
  <2>4. DOMAIN ns2 = 1..n
    BY <1>1
  <2>5. QED
    BY <2>1, <2>2, <2>3, <2>4
<1>5. \A y \in 1..n : ns2[y] \in Node(n)
  <2> HIDE DEF Node
  <2>1. SUFFICES ASSUME NEW y \in 1..n PROVE ns2[y] \in Node(n)
    OBVIOUS
  <2>2. CASE y \in {a, b, p}
    BY <2>2, <1>2, <1>4
  <2>3. CASE y \notin {a, b, p}
    BY <2>3, <1>1, <1>3, <1>4
  <2>4. QED
    BY <2>2, <2>3
<1>6. ns2 \in [1..n -> Node(n)]
  BY <1>1, <1>5
<1>7. ns2 \in Seq(Node(n)) /\ Len(ns2) = n
  BY <1>6, FunctionIs
<1>8. QED
  BY <1>4, <1>7 DEF NodesMerged

LEMMA MergeKeeps ==
  ASSUME NEW ns, NEW p, NEW i, NEW a, NEW b, NEW c, NEW E, NEW span0, NEW level, NEW span,
         Short(ns, p, i, a, b, c, E, span0, level, span),
         \A x \in {a, b} : x # c => ~(Count(ns[x]) > MinKeys(ns[c])),
         NEW ns2, ns2 = MergeChildren(ns, p, i)
  PROVE  \E span2 : Shrunk(ns2, p, E, span0, level, span2)
<1> DEFINE s == ns[p].keys[i]
           U == span[a] \cup span[b]
           leaf == ns[c].leaf
           l == ns[a]
           r == ns[b]
           q == LessSeparator(ns[p], i)
           n == Len(ns)
           sep == IF l.leaf THEN << >> ELSE <<s>>
           x == [l EXCEPT !.keys = @ \o sep \o r.keys, !.locs = @ \o r.locs,
                          !.kids = @ \o r.kids, !.next = r.next]
<1>1. /\ Shrunk(ns, c, E, span0, level, span) /\ p \in 1..n /\ ~ns[p].leaf /\ span[p] # {}
      /\ i \in 1..Len(ns[p].keys) /\ a = ns[p].kids[i] /\ b = ns[p].kids[i + 1] /\ c \in {a, b}
  BY DEF Short
<1>2. Shape(ns, span, span, level)
  BY <1>1 DEF Shrunk
<1>3. n \in Nat /\ ns \in Seq(Node(n)) /\ span \in [1..n -> SUBSET Keys]
  BY <1>1, <1>2, ShapeFacts DEF Shape
<1>4. /\ ns2 = [id \in DOMAIN ns |-> ns2[id]]
      /\ \A id \in DOMAIN ns : ns2[id] = MergedAt(id, ns, a, b, p, x, q)
  <2> DEFINE left == ns[p].kids[i]
             right == ns[p].kids[i + 1]
             more == IF ns[left].leaf THEN << >> ELSE <<ns[p].keys[i]>>
             both == [ns[left] EXCEPT !.keys = @ \o more \o ns[right].keys,
                                      !.locs = @ \o ns[right].locs,
                                      !.kids = @ \o ns[right].kids, !.next = ns[right].next]
             less == Internal(RemoveAt(ns[p].keys, i), RemoveAt(ns[p].kids, i + 1))
             At(id) == CASE id = left -> both
                         [] id = p -> less
                         [] id = right -> EmptyLeaf
                         [] id = ns[right].next -> LinkedBack(ns[id], left)
                         [] OTHER -> ns[id]
  <2>1. ns2 = [id \in DOMAIN ns |-> At(id)]
    BY DEF MergeChildren
  <2>2. \A id : At(id) = MergedAt(id, ns, left, right, p, both, less)
    BY DEF MergedAt
  <2> HIDE DEF At
  <2>3. /\ ns2 = [id \in DOMAIN ns |-> ns2[id]]
        /\ \A id \in DOMAIN ns : ns2[id] = MergedAt(id, ns, left, right, p, both, less)
    BY <2>1, <2>2
  <2>4. a = left /\ b = right
    BY <1>1
  <2>5. x = both
    BY <2>4
  <2>6. q = less
    BY DEF LessSeparator
  <2> HIDE DEF left, right, both, less, x, q
  <2>7. QED
    BY <2>3, <2>4, <2>5, <2>6
<1>5. Merges(x, l, r, s)
  BY DEF Merges
<1>6. ShortPair(ns, p, i, a, b, c, U, s, leaf, span, level)
  BY ShortIs
<1>7. s = ns[p].keys[i] /\ q = LessSeparator(ns[p], i)
  OBVIOUS
<1> HIDE DEF s, U, leaf, q, x, sep
<1>8. /\ Neighbours(l, r, U, s, level[a], leaf, span, level, n) /\ leaf \in BOOLEAN
      /\ Few(Count(l), Count(r), leaf) /\ a # b
  <2>1. \E y \in {a, b} : y # c
    BY <1>1, <1>6, PairIs
  <2>2. QED
    BY <2>1, <1>6, PairIs
<1>9. Siblings(ns, span, level, p, a, b, s)
  BY <1>1, <1>2, <1>7, SiblingsAre
<1>10. a \in 1..n /\ b \in 1..n /\ a # b /\ a # p /\ b # p /\ U \in SUBSET Keys
  BY <1>9 DEF Siblings, U
<1> HIDE DEF l, r
<1>11. WellJoined(x, l, r, U, level[a], span, level, n)
  <2>1. CASE leaf = TRUE
    BY <2>1, <1>5, <1>8, LeavesMerged
  <2>2. CASE leaf = FALSE
    BY <2>2, <1>5, <1>8, ForksMerged
  <2>3. QED
    BY <2>1, <2>2, <1>8
<1>12. x \in Node(n)
  BY <1>11 DEF WellJoined
<1>13. q \in Node(n)
  <2> DEFINE none == {}
             span2 == TwoSpans(span, n, a, b, U, none)
  <2>1. none \in SUBSET Keys
    OBVIOUS
  <2> HIDE DEF none
  <2>2. SpansShared(span2, span, n, a, b, U, none)
    BY <2>1, <1>3, <1>10, TwoSpansAre
  <2> HIDE DEF span2
  <2>3. MergesUnder(q, ns, p, i, a, b, none, span2, span, level)
    BY <2>2, <1>1, <1>2, <1>7 DEF MergesUnder, U
  <2>4. QED
    BY <2>3, ParentMerged
<1>b. ns[b].next \notin {a, b, p}
  <2>1. ns[b].next # NoLeaf => ns[b].next \notin {a, b, p}
    BY <1>1, <1>2, <1>9, AfterIs
  <2>2. a # NoLeaf /\ b # NoLeaf /\ p # NoLeaf
    BY <1>1, <1>10, <1>3 DEF NoLeaf
  <2>3. QED
    BY <2>1, <2>2
<1>14. NodesMerged(ns2, ns, a, b, p, x, q)
  BY <1>1, <1>3, <1>4, <1>10, <1>b, <1>12, <1>13, MergedNodes
<1>15. WellJoined(x, ns[a], ns[b], span[a] \cup span[b], level[a], span, level, n)
  BY <1>11 DEF l, r, U
<1>16. QED
  BY <1>1, <1>7, <1>9, <1>14, <1>15, MergedKeeps

\* Child j of p is done, and DeleteRec takes it for child i.
UnderWay(ns, p, j, c, i, E, span0, level, span) ==
  /\ Shrunk(ns, c, E, span0, level, span) /\ p \in 1..Len(ns) /\ ~ns[p].leaf /\ span[p] # {}
  /\ j \in 1..Len(ns[p].kids) /\ c = ns[p].kids[j]
  /\ Underflows(ns[c]) => i = j
  /\ BorrowsFromRight(ns, p, i, c) => ns[c].leaf

LEMMA UnderWayIs ==
  ASSUME NEW ns, NEW p, NEW j, NEW c, NEW i, NEW E, NEW span0, NEW level, NEW span,
         UnderWay(ns, p, j, c, i, E, span0, level, span)
  PROVE  /\ Len(ns) \in Nat /\ Len(ns) = Len(nodes) /\ c \in 1..Len(ns) /\ Count(ns[p]) \in Nat /\ Count(ns[p]) >= 1
         /\ Len(ns[p].kids) = Len(ns[p].keys) + 1 /\ DOMAIN ns[p].kids = 1..Len(ns[p].kids)
         /\ level[c] \in Nat /\ level[p] \in Nat /\ level[c] < level[p] /\ c # root
<1>1. /\ Shrunk(ns, c, E, span0, level, span) /\ p \in 1..Len(ns) /\ ~ns[p].leaf /\ span[p] # {}
      /\ j \in 1..Len(ns[p].kids) /\ c = ns[p].kids[j]
  BY DEF UnderWay
<1>2. /\ Shape(ns, span, span, level) /\ Filled(ns, span, root, c) /\ Topped(span, level, root)
      /\ root \in 1..Len(ns) /\ c \in 1..Len(ns) /\ Len(ns) = Len(nodes)
  BY <1>1 DEF Shrunk, NodeIds
<1>3. /\ Len(ns) \in Nat /\ DOMAIN span = 1..Len(ns) /\ level[c] \in Nat /\ level[p] \in Nat /\ level[root] \in Nat
      /\ ns[p].kids \in Seq(1..Len(ns)) /\ ns[p].keys \in Seq(Keys)
      /\ ForkFits(ns[p], span[p], level[p], span, level)
  BY <1>1, <1>2, ShapeFacts
<1>4. Len(ns[p].kids) = Len(ns[p].keys) + 1 /\ level[c] < level[p]
  BY <1>1, <1>3 DEF ForkFits
<1>5. DOMAIN ns[p].kids = 1..Len(ns[p].kids) /\ Count(ns[p]) \in Nat
  BY <1>3, SeqFacts DEF Count
<1>6. level[p] <= level[root]
  BY <1>1, <1>2, <1>3 DEF Topped
<1>7. c # root /\ p # c
  BY <1>3, <1>4, <1>6
<1>8. NodeFilled(ns[p], span[p], p, root, c)
  BY <1>1, <1>2 DEF Filled
<1>9. MinKeys(ns[p]) \in Nat /\ MinKeys(ns[p]) >= 1
  <2>1. ns[p].leaf \in BOOLEAN
    BY <1>1, <1>2, ShapeFacts
  <2>2. MinKeys(ns[p]) = Least(ns[p].leaf) /\ Least(ns[p].leaf) \in Nat /\ Least(ns[p].leaf) >= 1
    BY <2>1, LeastIs
  <2>3. QED
    BY <2>2
<1>10. Count(ns[p]) >= 1
  <2>1. CASE p = root
    BY <2>1, <1>1, <1>7, <1>8 DEF NodeFilled
  <2>2. CASE p # root
    <3>1. Count(ns[p]) >= MinKeys(ns[p]) - 0
      BY <2>2, <1>1, <1>7, <1>8 DEF NodeFilled
    <3>2. QED
      BY <3>1, <1>5, <1>9
  <2>3. QED
    BY <2>1, <2>2
<1>11. QED
  BY <1>2, <1>3, <1>4, <1>5, <1>7, <1>10

\* No key is missing from the child.
LEMMA NothingMissing ==
  ASSUME NEW ns, NEW p, NEW j, NEW c, NEW i, NEW E, NEW span0, NEW level, NEW span,
         UnderWay(ns, p, j, c, i, E, span0, level, span), ~Underflows(ns[c])
  PROVE  Shrunk(ns, p, E, span0, level, span)
<1>1. /\ Shrunk(ns, c, E, span0, level, span) /\ p \in 1..Len(ns)
  BY DEF UnderWay
<1>2. /\ level[c] \in Nat /\ level[p] \in Nat /\ level[c] < level[p] /\ c # root /\ Len(ns) = Len(nodes)
      /\ c \in 1..Len(ns)
  BY UnderWayIs
<1>3. /\ Shape(ns, span, span, level) /\ Filled(ns, span, root, c) /\ Topped(span, level, root)
      /\ root \in NodeIds /\ span[root] = Keys /\ Entries(ns) = E
      /\ \A id \in NodeIds : level[id] >= level[c] =>
            span[id] = span0[id] /\ (id # c => ns[id] = nodes[id])
  BY <1>1 DEF Shrunk
<1>4. \A id \in NodeIds : level[id] \in Nat
  BY <1>2, <1>3, ShapeFacts DEF NodeIds
<1>5. \A id \in NodeIds : level[id] >= level[p] =>
         span[id] = span0[id] /\ (id # p => ns[id] = nodes[id])
  <2>1. SUFFICES ASSUME NEW id \in NodeIds, level[id] >= level[p]
                 PROVE  span[id] = span0[id] /\ (id # p => ns[id] = nodes[id])
    OBVIOUS
  <2>2. level[id] >= level[c] /\ id # c
    BY <2>1, <1>2, <1>4
  <2>3. QED
    BY <2>2, <1>3
<1>6. Filled(ns, span, root, p)
  <2>1. SUFFICES ASSUME NEW id \in 1..Len(ns) PROVE NodeFilled(ns[id], span[id], id, root, p)
    BY DEF Filled
  <2>2. NodeFilled(ns[id], span[id], id, root, c)
    BY <1>3 DEF Filled
  <2>3. Count(ns[id]) \in Nat /\ ns[id].leaf \in BOOLEAN
    BY <1>3, ShapeFacts DEF Count
  <2>4. MinKeys(ns[id]) \in Nat
    BY <2>3, LeastIs
  <2>5. id = c => Count(ns[id]) >= MinKeys(ns[id])
    BY <2>3, <2>4 DEF Underflows
  <2>6. QED
    BY <2>2, <2>3, <2>4, <2>5, <1>2 DEF NodeFilled
<1>7. p \in NodeIds
  BY <1>1, <1>2 DEF NodeIds
<1>8. QED
  BY <1>2, <1>3, <1>5, <1>6, <1>7 DEF Shrunk

LEMMA RebalancedKeeps ==
  ASSUME NEW ns, NEW p, NEW j, NEW c, NEW i, NEW E, NEW span0, NEW level, NEW span,
         UnderWay(ns, p, j, c, i, E, span0, level, span)
  PROVE  \E span2 : Shrunk(Rebalanced(ns, p, i, c), p, E, span0, level, span2)
<1> DEFINE ns2 == Rebalanced(ns, p, i, c)
           kids == ns[p].kids
<1>1. CASE ~Underflows(ns[c])
  <2>1. ns2 = ns
    BY <1>1 DEF Rebalanced
  <2>2. Shrunk(ns, p, E, span0, level, span)
    BY <1>1, NothingMissing
  <2> HIDE DEF ns2
  <2>3. QED
    BY <2>1, <2>2 DEF ns2
<1>2. CASE Underflows(ns[c])
  <2>1. /\ Shrunk(ns, c, E, span0, level, span) /\ p \in 1..Len(ns) /\ ~ns[p].leaf /\ span[p] # {}
        /\ j \in 1..Len(kids) /\ c = kids[j] /\ i = j /\ (BorrowsFromRight(ns, p, i, c) => ns[c].leaf)
    BY <1>2 DEF UnderWay
  <2>2. /\ Count(ns[p]) \in Nat /\ Count(ns[p]) >= 1 /\ Len(ns[p].keys) = Count(ns[p])
        /\ Len(kids) = Count(ns[p]) + 1 /\ DOMAIN kids = 1..Len(kids)
    BY UnderWayIs DEF Count
  <2>3. i \in Nat /\ i >= 1 /\ i <= Count(ns[p]) + 1 /\ (i - 1) + 1 = i
    BY <2>1, <2>2
  <2>4. \A d : /\ Lends(ns, p, d, c) <=> d \in 1..Len(kids) /\ Count(ns[kids[d]]) > MinKeys(ns[c])
    BY <2>2 DEF Lends
  <2>5. /\ i > 1 => i - 1 \in 1..Len(ns[p].keys) /\ i - 1 \in 1..Len(kids)
        /\ i - 1 \in 1..Len(kids) => i > 1
        /\ i + 1 \in 1..Len(kids) => i \in 1..Len(ns[p].keys)
        /\ i = 1 => i \in 1..Len(ns[p].keys) /\ i + 1 \in 1..Len(kids)
    BY <2>2, <2>3
  <2>6. \A a : i - 1 \in 1..Len(ns[p].keys) /\ a = kids[i - 1] =>
                 Short(ns, p, i - 1, a, c, c, E, span0, level, span)
    BY <2>1, <2>3, <1>2 DEF Short
  <2>7. \A b : i \in 1..Len(ns[p].keys) /\ b = kids[i + 1] =>
                 Short(ns, p, i, c, b, c, E, span0, level, span)
    BY <2>1, <2>3, <1>2 DEF Short
  <2>8. CASE Lends(ns, p, i - 1, c)
    <3>1. PICK a : a = kids[i - 1]
      OBVIOUS
    <3>2. ns2 = BorrowFromLeft(ns, p, i, c, a)
      BY <2>8, <1>2, <3>1 DEF Rebalanced
    <3>3. Short(ns, p, i - 1, a, c, c, E, span0, level, span)
      BY <2>4, <2>5, <2>6, <2>8, <3>1
    <3>4. Count(ns[a]) > MinKeys(ns[c])
      BY <2>4, <2>8, <3>1
    <3> HIDE DEF ns2
    <3>5. PICK e : e = i - 1
      OBVIOUS
    <3>6. Short(ns, p, e, a, c, c, E, span0, level, span)
      BY <3>3, <3>5
    <3>7. \E span2 : Shrunk(ns2, p, E, span0, level, span2)
      BY <3>2, <3>4, <3>5, <3>6, BorrowLeftKeeps
    <3>8. QED
      BY <3>7 DEF ns2
  <2>9. CASE ~Lends(ns, p, i - 1, c) /\ BorrowsFromRight(ns, p, i, c)
    <3>1. PICK b : b = kids[i + 1]
      OBVIOUS
    <3>2. ns2 = BorrowFromRight(ns, p, i, c, b)
      BY <2>9, <1>2, <3>1 DEF Rebalanced
    <3>3. Lends(ns, p, i + 1, c)
      BY <2>9 DEF BorrowsFromRight
    <3>4. Short(ns, p, i, c, b, c, E, span0, level, span)
      BY <2>4, <2>5, <2>7, <3>1, <3>3
    <3>5. Count(ns[b]) > MinKeys(ns[c]) /\ ns[c].leaf
      BY <2>1, <2>4, <2>9, <3>1, <3>3
    <3> HIDE DEF ns2
    <3>6. \E span2 : Shrunk(ns2, p, E, span0, level, span2)
      BY <3>2, <3>4, <3>5, BorrowRightKeeps
    <3>7. QED
      BY <3>6 DEF ns2
  <2>10. CASE ~Lends(ns, p, i - 1, c) /\ ~BorrowsFromRight(ns, p, i, c)
    <3>1. PICK e : e = IF i > 1 THEN i - 1 ELSE i
      OBVIOUS
    <3>2. ns2 = MergeChildren(ns, p, e)
      BY <2>10, <1>2, <3>1 DEF Rebalanced
    <3> HIDE DEF ns2
    <3>3. \E a, b : /\ Short(ns, p, e, a, b, c, E, span0, level, span)
                    /\ \A x \in {a, b} : x # c => ~(Count(ns[x]) > MinKeys(ns[c]))
      <4>1. CASE i > 1
        <5>1. PICK a : a = kids[i - 1]
          OBVIOUS
        <5>2. Short(ns, p, e, a, c, c, E, span0, level, span)
          BY <4>1, <2>5, <2>6, <3>1, <5>1
        <5>3. ~(Count(ns[a]) > MinKeys(ns[c]))
          BY <4>1, <2>4, <2>5, <2>10, <5>1
        <5>4. QED
          BY <5>2, <5>3
      <4>2. CASE ~(i > 1)
        <5>1. PICK b : b = kids[i + 1]
          OBVIOUS
        <5>2. i = 1 /\ e = i
          BY <4>2, <2>3, <3>1
        <5>3. Short(ns, p, e, c, b, c, E, span0, level, span)
          BY <2>5, <2>7, <5>1, <5>2
        <5>4. ~Lends(ns, p, i + 1, c)
          BY <2>10, <1>2 DEF BorrowsFromRight
        <5>5. ~(Count(ns[b]) > MinKeys(ns[c]))
          BY <5>4, <2>4, <2>5, <5>1, <5>2
        <5>6. QED
          BY <5>3, <5>5
      <4>3. QED
        BY <4>1, <4>2
    <3>4. PICK a, b : /\ Short(ns, p, e, a, b, c, E, span0, level, span)
                      /\ \A x \in {a, b} : x # c => ~(Count(ns[x]) > MinKeys(ns[c]))
      BY <3>3
    <3>5. \E span2 : Shrunk(ns2, p, E, span0, level, span2)
      BY <3>2, <3>4, MergeKeeps
    <3>6. QED
      BY <3>5 DEF ns2
  <2>11. QED
    BY <2>8, <2>9, <2>10
<1>3. QED
  BY <1>1, <1>2
=============================================================================
