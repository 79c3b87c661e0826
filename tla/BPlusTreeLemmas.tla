-------------------------- MODULE BPlusTreeLemmas ---------------------------
(***************************************************************************)
(* What the proofs about the B+ tree rest on: the binary search, sequences *)
(* that get or lose an element, the parts of the keys of a node, the       *)
(* search for a leaf, the links through the leaves, and nodes that an      *)
(* operation leaves alone.                                                 *)
(***************************************************************************)
EXTENDS BPlusTreeInvariant, SequenceTheorems, FiniteSetTheorems, DataInduction

-----------------------------------------------------------------------------
(* The binary search in a node.                                            *)

Halved(f, keys, key) ==
  f = [p \in (1..(Len(keys) + 1)) \X (0..Len(keys)) |->
        IF p[1] > p[2] THEN p[1]
        ELSE IF keys[(p[1] + p[2]) \div 2] >= key THEN f[<<p[1], ((p[1] + p[2]) \div 2) - 1>>]
        ELSE f[<<((p[1] + p[2]) \div 2) + 1, p[2]>>]]

LEMMA HalvedExists ==
  ASSUME NEW keys \in Seq(Int), NEW key \in Int
  PROVE  \E f : Halved(f, keys, key) /\ f \in [(1..(Len(keys) + 1)) \X (0..Len(keys)) -> 1..(Len(keys) + 1)]
<1> DEFINE n == Len(keys)
           V == 1..(n + 1)
           D == V \X (0..n)
           rank == [d \in D |-> IF d[1] > d[2] THEN 0 ELSE d[2] - d[1] + 1]
           step == [F \in [D -> V] |-> [d \in D |->
                      IF d[1] > d[2] THEN d[1]
                      ELSE IF keys[(d[1] + d[2]) \div 2] >= key
                      THEN F[<<d[1], ((d[1] + d[2]) \div 2) - 1>>]
                      ELSE F[<<((d[1] + d[2]) \div 2) + 1, d[2]>>]]]
<1>1. n \in Nat
  OBVIOUS
<1> HIDE DEF n
<1>2. ASSUME NEW l \in V, NEW r \in 0..n, ~(l > r)
      PROVE  /\ <<l, ((l + r) \div 2) - 1>> \in D /\ <<((l + r) \div 2) + 1, r>> \in D
             /\ rank[<<l, ((l + r) \div 2) - 1>>] < rank[<<l, r>>]
             /\ rank[<<((l + r) \div 2) + 1, r>>] < rank[<<l, r>>]
  <2> DEFINE mid == (l + r) \div 2
  <2>1. mid \in Int /\ l <= mid /\ mid <= r
    BY <1>1, <1>2
  <2> HIDE DEF mid
  <2>2. <<l, mid - 1>> \in D /\ <<mid + 1, r>> \in D /\ <<l, r>> \in D
    BY <1>1, <1>2, <2>1
  <2>3. rank[<<l, mid - 1>>] < rank[<<l, r>>] /\ rank[<<mid + 1, r>>] < rank[<<l, r>>]
    <3>1. rank[<<l, r>>] = r - l + 1
      BY <1>1, <1>2, <2>2
    <3>2. rank[<<l, mid - 1>>] = IF l > mid - 1 THEN 0 ELSE (mid - 1) - l + 1
      BY <2>2
    <3>3. rank[<<mid + 1, r>>] = IF mid + 1 > r THEN 0 ELSE r - (mid + 1) + 1
      BY <2>2
    <3>4. l \in Int /\ r \in Int /\ l <= r
      BY <1>1, <1>2
    <3> HIDE DEF rank
    <3>5. QED
      BY <3>1, <3>2, <3>3, <3>4, <2>1
  <2>4. QED
    BY <2>2, <2>3 DEF mid
<1>3. rank \in [D -> Nat] /\ 1 \in V
  BY <1>1
<1>4. step \in [[D -> V] -> [D -> V]]
  <2>1. ASSUME NEW F \in [D -> V], NEW d \in D PROVE step[F][d] \in V
    <3>1. PICK l \in V, r \in 0..n : d = <<l, r>>
      OBVIOUS
    <3> DEFINE mid == (l + r) \div 2
    <3>2. step[F][d] = IF l > r THEN l
                       ELSE IF keys[mid] >= key THEN F[<<l, mid - 1>>] ELSE F[<<mid + 1, r>>]
      BY <3>1
    <3>3. ~(l > r) => <<l, mid - 1>> \in D /\ <<mid + 1, r>> \in D
      BY <1>2
    <3> HIDE DEF mid, step
    <3>4. QED
      BY <3>2, <3>3
  <2>2. QED
    BY <2>1
<1>5. ASSUME NEW F \in [D -> V], NEW G \in [D -> V], NEW d \in D,
             \A e \in D : rank[e] < rank[d] => F[e] = G[e]
      PROVE  step[F][d] = step[G][d]
  <2>1. PICK l \in V, r \in 0..n : d = <<l, r>>
    OBVIOUS
  <2> DEFINE mid == (l + r) \div 2
  <2>2. \A H \in [D -> V] : step[H][d] =
          IF l > r THEN l ELSE IF keys[mid] >= key THEN H[<<l, mid - 1>>] ELSE H[<<mid + 1, r>>]
    BY <2>1
  <2>3. ~(l > r) => /\ <<l, mid - 1>> \in D /\ <<mid + 1, r>> \in D
                    /\ rank[<<l, mid - 1>>] < rank[d] /\ rank[<<mid + 1, r>>] < rank[d]
    BY <1>2, <2>1
  <2> HIDE DEF mid, step, rank
  <2>4. QED
    BY <2>2, <2>3, <1>5
<1>6. PICK f \in [D -> V] : f = step[f]
  <2>1. Ranked(D, V, rank, step)
    BY <1>3, <1>4, <1>5 DEF Ranked
  <2> HIDE DEF step, rank, V, D
  <2>2. QED
    BY <2>1, RankedRecursion
<1>7. Halved(f, keys, key)
  <2>1. step[f] = [p \in D |->
          IF p[1] > p[2] THEN p[1]
          ELSE IF keys[(p[1] + p[2]) \div 2] >= key THEN f[<<p[1], ((p[1] + p[2]) \div 2) - 1>>]
          ELSE f[<<((p[1] + p[2]) \div 2) + 1, p[2]>>]]
    OBVIOUS
  <2>2. QED
    BY <1>6, <2>1 DEF Halved, n
<1>8. QED
  BY <1>7 DEF n

LEMMA FindKeyIndexIs ==
  ASSUME NEW node, node.keys \in Seq(Int), NEW key \in Int
  PROVE  /\ FindKeyIndex(node, key) \in 1..(Len(node.keys) + 1)
         /\ Ascending(node.keys) =>
              /\ \A j \in 1..Len(node.keys) : j < FindKeyIndex(node, key) => node.keys[j] < key
              /\ \A j \in 1..Len(node.keys) : j >= FindKeyIndex(node, key) => node.keys[j] >= key
<1> DEFINE keys == node.keys
           n == Len(keys)
           f == CHOOSE g : Halved(g, keys, key)
<1>1. FindKeyIndex(node, key) = f[<<1, n>>]
  BY DEF FindKeyIndex, Halved, Count
<1>2. Halved(f, keys, key)
  BY HalvedExists
<1>3. n \in Nat /\ keys \in Seq(Int) /\ \A i \in 1..n : keys[i] \in Int
  OBVIOUS
<1> HIDE DEF f, n, keys
<1>4. \A l \in 1..(n + 1), r \in 0..n : f[<<l, r>>] =
        IF l > r THEN l
        ELSE IF keys[(l + r) \div 2] >= key THEN f[<<l, ((l + r) \div 2) - 1>>]
        ELSE f[<<((l + r) \div 2) + 1, r>>]
  BY <1>2 DEF Halved, n
<1> DEFINE Good(i) == /\ i \in 1..(n + 1)
                      /\ Ascending(keys) =>
                           /\ \A j \in 1..n : j < i => keys[j] < key
                           /\ \A j \in 1..n : j >= i => keys[j] >= key
           Found(l, r) == Ascending(keys) =>
                            /\ \A j \in 1..n : j < l => keys[j] < key
                            /\ \A j \in 1..n : j > r => keys[j] >= key
           T == {m \in Nat : \A l \in 1..(n + 1), r \in 0..n :
                    l <= r + 1 /\ r - l + 1 <= m /\ Found(l, r) => Good(f[<<l, r>>])}
<1>5. 0 \in T
  <2>1. ASSUME NEW l \in 1..(n + 1), NEW r \in 0..n, l <= r + 1, r - l + 1 <= 0, Found(l, r)
        PROVE  Good(f[<<l, r>>])
    <3>1. l = r + 1 /\ l > r
      BY <1>3, <2>1
    <3>2. f[<<l, r>>] = l
      BY <3>1, <1>4
    <3>3. Good(l)
      BY <1>3, <2>1, <3>1
    <3>4. QED
      BY <3>2, <3>3
  <2>2. QED
    BY <2>1
<1>6. ASSUME NEW m \in Nat, m \in T PROVE m + 1 \in T
  <2>1. ASSUME NEW l \in 1..(n + 1), NEW r \in 0..n, l <= r + 1, r - l + 1 <= m + 1, Found(l, r)
        PROVE  Good(f[<<l, r>>])
    <3>1. CASE l > r
      <4>1. r - l + 1 <= m
        BY <1>3, <3>1, <2>1
      <4>2. QED
        BY <4>1, <2>1, <1>6
    <3>2. CASE ~(l > r)
      <4> DEFINE mid == (l + r) \div 2
      <4>1. mid \in 1..n /\ l <= mid /\ mid <= r
        BY <1>3, <3>2
      <4>2. f[<<l, r>>] = IF keys[mid] >= key THEN f[<<l, mid - 1>>] ELSE f[<<mid + 1, r>>]
        BY <3>2, <1>4
      <4> HIDE DEF mid
      <4>3. CASE keys[mid] >= key
        <5>1. mid - 1 \in 0..n /\ l <= (mid - 1) + 1 /\ (mid - 1) - l + 1 <= m
          BY <1>3, <2>1, <4>1
        <5>2. Found(l, mid - 1)
          <6>1. ASSUME Ascending(keys), NEW j \in 1..n, j > mid - 1 PROVE keys[j] >= key
            <7>1. j = mid \/ keys[mid] < keys[j]
              BY <6>1, <4>1, <1>3 DEF Ascending, n
            <7>2. keys[mid] \in Int /\ keys[j] \in Int
              BY <1>3, <4>1
            <7>3. QED
              BY <7>1, <7>2, <4>3
          <6>2. QED
            BY <6>1, <2>1
        <5>3. Good(f[<<l, mid - 1>>])
          BY <1>6, <5>1, <5>2
        <5>4. QED
          BY <4>2, <4>3, <5>3
      <4>4. CASE ~(keys[mid] >= key)
        <5>1. mid + 1 \in 1..(n + 1) /\ mid + 1 <= r + 1 /\ r - (mid + 1) + 1 <= m
          BY <1>3, <2>1, <4>1
        <5>2. Found(mid + 1, r)
          <6>1. ASSUME Ascending(keys), NEW j \in 1..n, j < mid + 1 PROVE keys[j] < key
            <7>1. j = mid \/ keys[j] < keys[mid]
              BY <6>1, <4>1, <1>3 DEF Ascending, n
            <7>2. keys[mid] \in Int /\ keys[j] \in Int
              BY <1>3, <4>1
            <7>3. QED
              BY <7>1, <7>2, <4>4
          <6>2. QED
            BY <6>1, <2>1
        <5>3. Good(f[<<mid + 1, r>>])
          BY <1>6, <5>1, <5>2
        <5>4. QED
          BY <4>2, <4>4, <5>3
      <4>5. QED
        BY <4>3, <4>4
    <3>3. QED
      BY <3>1, <3>2
  <2>2. QED
    BY <2>1
<1>7. \A m \in Nat : m \in T
  <2> HIDE DEF T
  <2>1. QED
    BY <1>5, <1>6, SetInduction
<1>8. Good(f[<<1, n>>])
  <2>1. 1 \in 1..(n + 1) /\ n \in 0..n /\ 1 <= n + 1 /\ n - 1 + 1 <= n
    BY <1>3
  <2>2. Found(1, n)
    BY <1>3
  <2>3. n \in T
    BY <1>3, <1>7
  <2>4. QED
    BY <2>1, <2>2, <2>3
<1>9. QED
  BY <1>1, <1>8 DEF n, keys

-----------------------------------------------------------------------------
(* Sequences with an element more, with one less, and cut.                 *)

LEMMA SeqFacts ==
  ASSUME NEW S, NEW s \in Seq(S)
  PROVE  /\ Len(s) \in Nat /\ DOMAIN s = 1..Len(s) /\ s \in [1..Len(s) -> S]
         /\ \A i \in 1..Len(s) : s[i] \in S
  BY LenProperties, ElementOfSeq

LEMMA SubSeqIs ==
  ASSUME NEW S, NEW s \in Seq(S), NEW m \in 1..(Len(s) + 1), NEW n \in (m - 1)..Len(s)
  PROVE  /\ SubSeq(s, m, n) \in Seq(S) /\ Len(SubSeq(s, m, n)) = n - m + 1
         /\ \A i \in 1..(n - m + 1) : SubSeq(s, m, n)[i] = s[m + i - 1]
<1>1. Len(s) \in Nat /\ \A i \in m..n : i \in 1..Len(s)
  BY SeqFacts
<1>2. m \in Int /\ n \in Int /\ \A i \in m..n : s[i] \in S
  BY <1>1, SeqFacts
<1>3. n - m + 1 = IF m <= n THEN n - m + 1 ELSE 0
  BY <1>1
<1>4. QED
  BY <1>2, <1>3, SubSeqProperties

\* t is s with e in place i.
Inserted(t, s, i, e) ==
  \A j \in 1..(Len(s) + 1) : t[j] = IF j < i THEN s[j] ELSE IF j = i THEN e ELSE s[j - 1]

LEMMA InsertAtIs ==
  ASSUME NEW S, NEW s \in Seq(S), NEW i \in 1..(Len(s) + 1), NEW e \in S
  PROVE  /\ InsertAt(s, i, e) \in Seq(S) /\ Len(InsertAt(s, i, e)) = Len(s) + 1
         /\ Inserted(InsertAt(s, i, e), s, i, e)
<1> DEFINE a == SubSeq(s, 1, i - 1)
           c == SubSeq(s, i, Len(s))
           b == a \o <<e>>
<1>1. Len(s) \in Nat /\ 1 \in 1..(Len(s) + 1) /\ i - 1 \in 0..Len(s) /\ Len(s) \in (i - 1)..Len(s)
  BY SeqFacts
<1>2. /\ a \in Seq(S) /\ Len(a) = i - 1 /\ \A j \in 1..(i - 1) : a[j] = s[j]
      /\ c \in Seq(S) /\ Len(c) = Len(s) - i + 1 /\ \A j \in 1..(Len(s) - i + 1) : c[j] = s[i + j - 1]
  BY <1>1, SubSeqIs
<1>3. <<e>> \in Seq(S) /\ Len(<<e>>) = 1 /\ <<e>>[1] = e
  OBVIOUS
<1> HIDE DEF a, c
<1>4. b \in Seq(S) /\ Len(b) = i /\ \A j \in 1..i : b[j] = IF j < i THEN s[j] ELSE e
  BY <1>1, <1>2, <1>3, ConcatProperties
<1> HIDE DEF b
<1>5. /\ b \o c \in Seq(S) /\ Len(b \o c) = Len(s) + 1
      /\ \A j \in 1..(Len(s) + 1) : (b \o c)[j] = IF j <= i THEN b[j] ELSE c[j - i]
  <2>1. /\ b \o c \in Seq(S) /\ Len(b \o c) = Len(b) + Len(c)
        /\ \A j \in 1..(Len(b) + Len(c)) : (b \o c)[j] = IF j <= Len(b) THEN b[j] ELSE c[j - Len(b)]
    BY <1>2, <1>4, ConcatProperties
  <2>2. Len(b) = i /\ Len(b) + Len(c) = Len(s) + 1
    BY <1>1, <1>2, <1>4
  <2>3. QED
    BY <2>1, <2>2
<1>6. \A j \in 1..(Len(s) + 1) : (b \o c)[j] = IF j < i THEN s[j] ELSE IF j = i THEN e ELSE s[j - 1]
  <2>1. TAKE j \in 1..(Len(s) + 1)
  <2>2. CASE j <= i
    BY <2>2, <1>1, <1>4, <1>5
  <2>3. CASE ~(j <= i)
    <3>1. j - i \in 1..(Len(s) - i + 1) /\ i + (j - i) - 1 = j - 1
      BY <2>3, <1>1
    <3>2. QED
      BY <2>3, <3>1, <1>1, <1>2, <1>5
  <2>4. QED
    BY <2>2, <2>3
<1>7. InsertAt(s, i, e) = b \o c
  BY DEF InsertAt, a, b, c
<1>8. QED
  BY <1>5, <1>6, <1>7 DEF Inserted

\* t is s without its element in place i.
Removed(t, s, i) == \A j \in 1..(Len(s) - 1) : t[j] = IF j < i THEN s[j] ELSE s[j + 1]

LEMMA RemoveAtIs ==
  ASSUME NEW S, NEW s \in Seq(S), NEW i \in 1..Len(s)
  PROVE  /\ RemoveAt(s, i) \in Seq(S) /\ Len(RemoveAt(s, i)) = Len(s) - 1
         /\ Removed(RemoveAt(s, i), s, i)
<1> DEFINE a == SubSeq(s, 1, i - 1)
           c == SubSeq(s, i + 1, Len(s))
<1>1. Len(s) \in Nat /\ 1 \in 1..(Len(s) + 1) /\ i - 1 \in 0..Len(s)
      /\ i + 1 \in 1..(Len(s) + 1) /\ Len(s) \in (i + 1 - 1)..Len(s)
  BY SeqFacts
<1>2. a \in Seq(S) /\ Len(a) = i - 1 /\ \A j \in 1..(i - 1) : a[j] = s[j]
  BY <1>1, SubSeqIs
<1>3. c \in Seq(S) /\ Len(c) = Len(s) - i /\ \A j \in 1..(Len(s) - i) : c[j] = s[i + j]
  BY <1>1, SubSeqIs
<1> HIDE DEF a, c
<1>4. /\ a \o c \in Seq(S) /\ Len(a \o c) = Len(s) - 1
      /\ \A j \in 1..(Len(s) - 1) : (a \o c)[j] = IF j <= i - 1 THEN a[j] ELSE c[j - (i - 1)]
  <2>1. /\ a \o c \in Seq(S) /\ Len(a \o c) = Len(a) + Len(c)
        /\ \A j \in 1..(Len(a) + Len(c)) : (a \o c)[j] = IF j <= Len(a) THEN a[j] ELSE c[j - Len(a)]
    BY <1>2, <1>3, ConcatProperties
  <2>2. Len(a) = i - 1 /\ Len(a) + Len(c) = Len(s) - 1
    BY <1>1, <1>2, <1>3
  <2>3. QED
    BY <2>1, <2>2
<1>5. \A j \in 1..(Len(s) - 1) : (a \o c)[j] = IF j < i THEN s[j] ELSE s[j + 1]
  <2>1. TAKE j \in 1..(Len(s) - 1)
  <2>2. CASE j < i
    BY <2>2, <1>1, <1>2, <1>4
  <2>3. CASE ~(j < i)
    <3>1. j - (i - 1) \in 1..(Len(s) - i) /\ i + (j - (i - 1)) = j + 1
      BY <2>3, <1>1
    <3>2. QED
      BY <2>3, <3>1, <1>1, <1>3, <1>4
  <2>4. QED
    BY <2>2, <2>3
<1>6. RemoveAt(s, i) = a \o c
  BY DEF RemoveAt, a, c
<1>7. QED
  BY <1>4, <1>5, <1>6 DEF Removed

LEMMA FrontIs ==
  ASSUME NEW S, NEW s \in Seq(S), s # << >>
  PROVE  /\ Front(s) \in Seq(S) /\ Len(Front(s)) = Len(s) - 1
         /\ \A i \in 1..(Len(s) - 1) : Front(s)[i] = s[i]
         /\ Last(s) = s[Len(s)] /\ Last(s) \in S
<1>1. Len(s) \in Nat \ {0} /\ 1 \in 1..(Len(s) + 1) /\ Len(s) - 1 \in 0..Len(s) /\ Len(s) \in 1..Len(s)
  BY EmptySeq
<1>2. /\ Front(s) \in Seq(S) /\ Len(Front(s)) = (Len(s) - 1) - 1 + 1
      /\ \A i \in 1..((Len(s) - 1) - 1 + 1) : Front(s)[i] = s[1 + i - 1]
  <2>1. Len(s) - 1 \in (1 - 1)..Len(s)
    BY <1>1
  <2>2. QED
    BY <1>1, <2>1, SubSeqIs DEF Front
<1>3. (Len(s) - 1) - 1 + 1 = Len(s) - 1 /\ \A i \in 1..(Len(s) - 1) : 1 + i - 1 = i
  BY <1>1
<1>4. Last(s) = s[Len(s)] /\ Last(s) \in S
  BY <1>1, SeqFacts DEF Last
<1>5. QED
  BY <1>2, <1>3, <1>4

LEMMA InFrontIs ==
  ASSUME NEW S, NEW s \in Seq(S), NEW e \in S
  PROVE  /\ <<e>> \o s \in Seq(S) /\ Len(<<e>> \o s) = Len(s) + 1 /\ (<<e>> \o s)[1] = e
         /\ \A i \in 1..Len(s) : (<<e>> \o s)[i + 1] = s[i]
<1>1. <<e>> \in Seq(S) /\ Len(<<e>>) = 1 /\ <<e>>[1] = e /\ Len(s) \in Nat
  BY SeqFacts
<1>2. /\ <<e>> \o s \in Seq(S) /\ Len(<<e>> \o s) = 1 + Len(s)
      /\ \A i \in 1..(1 + Len(s)) : (<<e>> \o s)[i] = IF i <= 1 THEN <<e>>[i] ELSE s[i - 1]
  BY <1>1, ConcatProperties
<1>3. QED
  BY <1>1, <1>2

-----------------------------------------------------------------------------
(* The parts of a node's keys.                                             *)

LEMMA PartsApart ==
  ASSUME NEW S \in SUBSET Int, NEW keys \in Seq(Int), Ascending(keys),
         NEW i \in 1..(Len(keys) + 1), NEW j \in 1..(Len(keys) + 1), i # j
  PROVE  Part(S, keys, i) \cap Part(S, keys, j) = {}
<1>1. Len(keys) \in Nat /\ \A l \in 1..Len(keys) : keys[l] \in Int
  BY SeqFacts
<1>2. ASSUME NEW a \in 1..(Len(keys) + 1), NEW b \in 1..(Len(keys) + 1), a < b, NEW x \in Part(S, keys, a)
      PROVE  x \notin Part(S, keys, b)
  <2>1. a \in 1..Len(keys) /\ b - 1 \in 1..Len(keys) /\ b > 1 /\ a <= Len(keys) /\ a <= b - 1
    BY <1>1, <1>2
  <2>2. keys[a] <= keys[b - 1]
    <3>1. a = b - 1 \/ a < b - 1
      BY <2>1, <1>1
    <3>2. keys[a] = keys[b - 1] \/ keys[a] < keys[b - 1]
      BY <3>1, <2>1 DEF Ascending
    <3>3. keys[a] \in Int /\ keys[b - 1] \in Int
      BY <2>1, <1>1
    <3>4. QED
      BY <3>2, <3>3
  <2>3. x < keys[a] /\ x \in Int
    BY <1>2, <2>1 DEF Part
  <2>4. ~(keys[b - 1] <= x)
    <3>1. keys[a] \in Int /\ keys[b - 1] \in Int
      BY <2>1, <1>1
    <3>2. QED
      BY <3>1, <2>2, <2>3
  <2>5. QED
    BY <2>1, <2>4 DEF Part
<1>3. i < j \/ j < i
  BY <1>1
<1>4. QED
  BY <1>2, <1>3

\* The child a search goes to is the one for the key.
ChildPlace(node, key) ==
  LET i == FindKeyIndex(node, key) IN IF HasKeyAt(node, i, key) THEN i + 1 ELSE i

LEMMA ChildPlaceIs ==
  ASSUME NEW node, node.keys \in Seq(Int), NEW key \in Int
  PROVE  /\ ChildFor(node, key) = node.kids[ChildPlace(node, key)]
         /\ ChildPlace(node, key) \in 1..(Len(node.keys) + 1)
         /\ \A S : Ascending(node.keys) /\ key \in S => key \in Part(S, node.keys, ChildPlace(node, key))
<1> DEFINE i == FindKeyIndex(node, key)
           n == Len(node.keys)
           j == ChildPlace(node, key)
<1>1. /\ i \in 1..(n + 1) /\ n \in Nat /\ \A l \in 1..n : node.keys[l] \in Int
      /\ Ascending(node.keys) =>
           /\ \A l \in 1..n : l < i => node.keys[l] < key
           /\ \A l \in 1..n : l >= i => node.keys[l] >= key
  BY FindKeyIndexIs, SeqFacts
<1>2. j = IF i <= n /\ node.keys[i] = key THEN i + 1 ELSE i
  BY DEF ChildPlace, HasKeyAt, Count
<1>3. ChildFor(node, key) = node.kids[j]
  BY DEF ChildFor, ChildPlace
<1> HIDE DEF i, j, n
<1>4. j \in 1..(n + 1)
  BY <1>1, <1>2
<1>5. ASSUME NEW S, Ascending(node.keys), key \in S PROVE key \in Part(S, node.keys, j)
  <2>1. j > 1 => node.keys[j - 1] <= key
    <3>1. CASE i <= n /\ node.keys[i] = key
      BY <3>1, <1>1, <1>2
    <3>2. CASE ~(i <= n /\ node.keys[i] = key)
      <4>1. j = i /\ (j > 1 => j - 1 \in 1..n /\ j - 1 < i)
        BY <3>2, <1>1, <1>2
      <4>2. j > 1 => node.keys[j - 1] < key
        BY <4>1, <1>1, <1>5
      <4>3. QED
        BY <4>1, <4>2, <1>1
    <3>3. QED
      BY <3>1, <3>2
  <2>2. j <= n => key < node.keys[j]
    <3>1. CASE i <= n /\ node.keys[i] = key
      <4>1. j = i + 1 /\ (j <= n => j \in 1..n /\ i \in 1..n /\ i < j)
        BY <3>1, <1>1, <1>2
      <4>2. QED
        BY <3>1, <4>1, <1>5 DEF Ascending, n
    <3>2. CASE ~(i <= n /\ node.keys[i] = key)
      <4>1. j = i /\ (j <= n => j \in 1..n /\ j >= i)
        BY <3>2, <1>1, <1>2
      <4>2. j <= n => node.keys[j] >= key /\ node.keys[j] # key
        BY <4>1, <3>2, <1>1, <1>5
      <4>3. QED
        BY <4>1, <4>2, <1>1
    <3>3. QED
      BY <3>1, <3>2
  <2>3. QED
    BY <2>1, <2>2, <1>5 DEF Part, n
<1>6. QED
  BY <1>3, <1>4, <1>5 DEF j, n

-----------------------------------------------------------------------------
(* Searches.                                                               *)

LEMMA KeysAreInts == Keys \subseteq Int
BY TreeAssumption DEF Keys

LEMMA ShapeFacts ==
  ASSUME NEW ns, NEW seen, NEW span, NEW level, Shape(ns, seen, span, level)
  PROVE  /\ Len(ns) \in Nat /\ DOMAIN ns = 1..Len(ns)
         /\ span \in [1..Len(ns) -> SUBSET Keys] /\ level \in [1..Len(ns) -> Nat]
         /\ \A id \in 1..Len(ns) :
              /\ ns[id] \in Node(Len(ns)) /\ ns[id].leaf \in BOOLEAN
              /\ ns[id].keys \in Seq(Keys) /\ ns[id].keys \in Seq(Int) /\ ns[id].locs \in Seq(Locs)
              /\ ns[id].kids \in Seq(1..Len(ns))
              /\ ns[id].next \in 0..Len(ns) /\ ns[id].prev \in 0..Len(ns)
              /\ Len(ns[id].keys) \in Nat
              /\ level[id] \in Nat /\ span[id] \subseteq Keys /\ span[id] \subseteq Int
              /\ NodeFits(ns[id], span[id], level[id], seen, level)
              /\ ns[id].leaf => LeafFits(ns[id], span[id]) /\ (span[id] # {} => level[id] = 0)
              /\ ~ns[id].leaf => ForkFits(ns[id], span[id], level[id], seen, level)
<1>1. ns \in Seq(Node(Len(ns))) /\ span \in [1..Len(ns) -> SUBSET Keys]
      /\ level \in [1..Len(ns) -> Nat] /\ Fits(ns, seen, span, level)
  BY DEF Shape
<1>2. \A id \in 1..Len(ns) : ns[id] \in Node(Len(ns))
  BY <1>1, SeqFacts
<1>3. \A s \in Seq(Keys) : s \in Seq(Int) /\ Len(s) \in Nat
  BY KeysAreInts, SeqMonotonic, SeqFacts
<1>4. QED
  BY <1>1, <1>2, <1>3, KeysAreInts, SeqFacts DEF Node, Fits, NodeFits

\* What PathTo says of each node on the way.
Leads(p, top, key, span, level) ==
  /\ p \in Seq(1..Len(nodes)) /\ Len(p) = level[top] + 1 /\ p[1] = top
  /\ \A d \in 1..Len(p) : /\ key \in span[p[d]] /\ level[p[d]] = Len(p) - d
                          /\ nodes[p[d]].leaf <=> d = Len(p)
  /\ \A d \in 1..Len(p) : d < Len(p) => p[d + 1] = ChildFor(nodes[p[d]], key)

Downward(f, key) ==
  f = [id \in NodeIds |-> IF nodes[id].leaf THEN <<id>>
                          ELSE <<id>> \o f[ChildFor(nodes[id], key)]]

LEMMA DownwardExists ==
  ASSUME NEW span, NEW seen, NEW level, Shape(nodes, seen, span, level), NEW key \in Int
  PROVE  \E f \in [NodeIds -> Seq(NodeIds)] : Downward(f, key)
<1> DEFINE D == NodeIds
           V == Seq(NodeIds)
           child == [id \in D |-> ChildFor(nodes[id], key)]
           step == [F \in [D -> V] |-> [id \in D |->
                      IF nodes[id].leaf THEN <<id>> ELSE <<id>> \o F[child[id]]]]
<1>1. \A id \in D : ~nodes[id].leaf => child[id] \in D /\ level[child[id]] < level[id]
  <2>1. ASSUME NEW id \in D, ~nodes[id].leaf PROVE child[id] \in D /\ level[child[id]] < level[id]
    <3>1. /\ nodes[id].keys \in Seq(Int) /\ nodes[id].kids \in Seq(NodeIds)
          /\ Len(nodes[id].kids) = Len(nodes[id].keys) + 1
          /\ \A j \in 1..Len(nodes[id].kids) : level[nodes[id].kids[j]] < level[id]
      BY <2>1, ShapeFacts DEF NodeIds, ForkFits
    <3>2. child[id] = nodes[id].kids[ChildPlace(nodes[id], key)]
          /\ ChildPlace(nodes[id], key) \in 1..Len(nodes[id].kids)
      BY <3>1, ChildPlaceIs
    <3>3. QED
      BY <3>1, <3>2, SeqFacts
  <2>2. QED
    BY <2>1
<1>2. level \in [D -> Nat]
  BY ShapeFacts DEF NodeIds
<1>3. \A id \in D, s \in V : <<id>> \in V /\ <<id>> \o s \in V
  BY InFrontIs
<1> HIDE DEF child, D
<1>4. \A F \in [D -> V], id \in D : step[F][id] \in V
  BY <1>1, <1>3 DEF D
<1>5. step \in [[D -> V] -> [D -> V]]
  <2>1. \A F \in [D -> V] : step[F] \in [D -> V]
    BY <1>4
  <2>2. QED
    BY <2>1
<1>6. \A F, G \in [D -> V], id \in D :
        (\A e \in D : level[e] < level[id] => F[e] = G[e]) => step[F][id] = step[G][id]
  BY <1>1
<1>7. V # {}
  BY EmptySeq
<1>8. PICK f \in [D -> V] : f = step[f]
  <2>1. Ranked(D, V, level, step)
    BY <1>2, <1>5, <1>6, <1>7 DEF Ranked
  <2> HIDE DEF step, V
  <2>2. QED
    BY <2>1, RankedRecursion
<1>9. step[f] = [id \in NodeIds |-> IF nodes[id].leaf THEN <<id>>
                                    ELSE <<id>> \o f[ChildFor(nodes[id], key)]]
  BY DEF child, D
<1>10. QED
  BY <1>8, <1>9 DEF Downward, D

LEMMA PathFound ==
  ASSUME NEW span, NEW level, GoodTree(span, level), NEW key \in Keys
  PROVE  Leads(PathTo(key), root, key, span, level)
<1> DEFINE f == CHOOSE g : Downward(g, key)
<1>1. PathTo(key) = f[root]
  BY DEF PathTo, Downward
<1>2. Shape(nodes, span, span, level) /\ key \in Int /\ root \in NodeIds /\ key \in span[root]
  BY KeysAreInts DEF GoodTree, NodeIds
<1>3. Downward(f, key)
  BY <1>2, DownwardExists
<1> HIDE DEF f
<1>4. \A id \in NodeIds : f[id] = IF nodes[id].leaf THEN <<id>>
                                  ELSE <<id>> \o f[ChildFor(nodes[id], key)]
  BY <1>3 DEF Downward
<1> DEFINE T == {m \in Nat : \A id \in NodeIds :
                   level[id] = m /\ key \in span[id] => Leads(f[id], id, key, span, level)}
<1>5. 0 \in T
  <2>1. ASSUME NEW id \in NodeIds, level[id] = 0, key \in span[id]
        PROVE  Leads(f[id], id, key, span, level)
    <3>1. nodes[id].leaf
      <4>0. id \in 1..Len(nodes)
        BY DEF NodeIds
      <4>1. ASSUME ~nodes[id].leaf PROVE FALSE
        <5>1. Len(nodes[id].kids) = Len(nodes[id].keys) + 1 /\ Len(nodes[id].keys) \in Nat
              /\ nodes[id].kids \in Seq(NodeIds)
              /\ \A j \in 1..Len(nodes[id].kids) : level[nodes[id].kids[j]] < level[id]
          BY <4>0, <4>1, <1>2, ShapeFacts DEF ForkFits, NodeIds
        <5>2. 1 \in 1..Len(nodes[id].kids)
          BY <5>1
        <5>3. nodes[id].kids[1] \in NodeIds /\ level[nodes[id].kids[1]] < 0
          BY <5>1, <5>2, <2>1, SeqFacts
        <5>4. level[nodes[id].kids[1]] \in Nat
          BY <5>3, <1>2, ShapeFacts DEF NodeIds
        <5>5. QED
          BY <5>3, <5>4
      <4>2. QED
        BY <4>1
    <3>2. f[id] = <<id>> /\ Len(<<id>>) = 1 /\ <<id>>[1] = id /\ <<id>> \in Seq(1..Len(nodes))
      <4>1. id \in 1..Len(nodes)
        BY DEF NodeIds
      <4>2. <<id>> \in Seq(1..Len(nodes))
        BY <4>1
      <4>3. f[id] = <<id>>
        BY <3>1, <1>4
      <4>4. QED
        BY <4>2, <4>3
    <3>3. QED
      BY <2>1, <3>1, <3>2 DEF Leads
  <2>2. QED
    BY <2>1
<1>6. ASSUME NEW m \in Nat, m \in T PROVE m + 1 \in T
  <2>1. ASSUME NEW id \in NodeIds, level[id] = m + 1, key \in span[id]
        PROVE  Leads(f[id], id, key, span, level)
    <3> DEFINE c == ChildFor(nodes[id], key)
               j == ChildPlace(nodes[id], key)
               p == f[c]
    <3>1. ~nodes[id].leaf
      <4>1. span[id] # {} /\ id \in 1..Len(nodes)
        BY <2>1 DEF NodeIds
      <4>2. nodes[id].leaf => level[id] = 0
        BY <4>1, <1>2, ShapeFacts
      <4>3. m + 1 # 0
        OBVIOUS
      <4>4. QED
        BY <4>2, <4>3, <2>1
    <3>2. /\ nodes[id].keys \in Seq(Int) /\ nodes[id].kids \in Seq(NodeIds)
          /\ Len(nodes[id].kids) = Len(nodes[id].keys) + 1 /\ Ascending(nodes[id].keys)
          /\ \A l \in 1..Len(nodes[id].kids) :
               /\ level[nodes[id].kids[l]] = level[id] - 1
               /\ span[nodes[id].kids[l]] = Part(span[id], nodes[id].keys, l)
      <4>1. /\ nodes[id].keys \in Seq(Int) /\ nodes[id].kids \in Seq(NodeIds)
            /\ ForkFits(nodes[id], span[id], level[id], span, level)
        BY <3>1, <1>2, ShapeFacts DEF NodeIds
      <4>2. span[id] # {}
        BY <2>1
      <4>3. QED
        BY <4>1, <4>2 DEF ForkFits
    <3>3. /\ c = nodes[id].kids[j] /\ j \in 1..Len(nodes[id].kids)
          /\ key \in Part(span[id], nodes[id].keys, j)
      BY <2>1, <3>2, <1>2, ChildPlaceIs
    <3>4. c \in NodeIds /\ level[c] = m /\ key \in span[c]
      BY <2>1, <3>2, <3>3, SeqFacts
    <3>5. Leads(p, c, key, span, level)
      BY <1>6, <3>4
    <3>6. f[id] = <<id>> \o p
      BY <1>4, <3>1
    <3> HIDE DEF c, p, j
    <3>7. p \in Seq(1..Len(nodes)) /\ Len(p) = m + 1 /\ id \in 1..Len(nodes) /\ p[1] = c
      BY <3>4, <3>5 DEF Leads, NodeIds
    <3>8. /\ f[id] \in Seq(1..Len(nodes)) /\ Len(f[id]) = m + 2 /\ f[id][1] = id
          /\ \A d \in 1..(m + 1) : f[id][d + 1] = p[d]
      BY <3>6, <3>7, InFrontIs
    <3>9. \A d \in 1..Len(f[id]) :
            /\ key \in span[f[id][d]] /\ level[f[id][d]] = Len(f[id]) - d
            /\ nodes[f[id][d]].leaf <=> d = Len(f[id])
      <4>1. TAKE d \in 1..Len(f[id])
      <4>2. CASE d = 1
        BY <4>2, <3>1, <3>8, <2>1
      <4>3. CASE d # 1
        <5>1. d - 1 \in 1..(m + 1) /\ f[id][d] = p[d - 1]
          <6>1. d \in 1..(m + 2)
            BY <3>8
          <6>2. d - 1 \in 1..(m + 1) /\ (d - 1) + 1 = d
            BY <4>3, <6>1
          <6>3. QED
            BY <6>2, <3>8
        <5>2. key \in span[p[d - 1]] /\ level[p[d - 1]] = (m + 1) - (d - 1)
              /\ (nodes[p[d - 1]].leaf <=> d - 1 = m + 1)
          BY <5>1, <3>5, <3>7 DEF Leads
        <5>3. QED
          BY <5>1, <5>2, <3>8
      <4>4. QED
        BY <4>2, <4>3
    <3>10. \A d \in 1..Len(f[id]) : d < Len(f[id]) => f[id][d + 1] = ChildFor(nodes[f[id][d]], key)
      <4>1. SUFFICES ASSUME NEW d \in 1..(m + 1) PROVE f[id][d + 1] = ChildFor(nodes[f[id][d]], key)
        BY <3>8
      <4>2. CASE d = 1
        BY <4>2, <3>7, <3>8 DEF c
      <4>3. CASE d # 1
        <5>1. d - 1 \in 1..Len(p) /\ d - 1 < Len(p) /\ (d - 1) + 1 = d /\ d - 1 \in 1..(m + 1)
          BY <4>3, <3>7
        <5>2. p[(d - 1) + 1] = ChildFor(nodes[p[d - 1]], key)
          BY <5>1, <3>5 DEF Leads
        <5>3. f[id][d + 1] = p[d] /\ f[id][(d - 1) + 1] = p[d - 1]
          BY <5>1, <3>8
        <5>4. QED
          BY <5>1, <5>2, <5>3
      <4>4. QED
        BY <4>2, <4>3
    <3>11. Len(f[id]) = level[id] + 1
      BY <3>8, <2>1
    <3>12. QED
      BY <3>8, <3>9, <3>10, <3>11 DEF Leads
  <2>2. QED
    BY <2>1
<1>7. \A m \in Nat : m \in T
  <2> HIDE DEF T
  <2>1. QED
    BY <1>5, <1>6, SetInduction
<1>8. level[root] \in Nat
  BY <1>2, ShapeFacts DEF NodeIds
<1>9. QED
  BY <1>1, <1>2, <1>7, <1>8

LEMMA GoodTreeFacts ==
  ASSUME NEW span, NEW level, GoodTree(span, level)
  PROVE  /\ Shape(nodes, span, span, level) /\ Filled(nodes, span, root, 0)
         /\ root \in NodeIds /\ span[root] = Keys /\ Topped(span, level, root) /\ Recorded(nodes)
         /\ Len(nodes) \in Nat /\ NodeIds = 1..Len(nodes) /\ Linked(nodes, span)
         /\ span \in [NodeIds -> SUBSET Keys] /\ level \in [NodeIds -> Nat]
<1>1. Shape(nodes, span, span, level) /\ NodeIds = 1..Len(nodes)
  BY DEF GoodTree, NodeIds
<1>2. QED
  BY <1>1, ShapeFacts DEF GoodTree, Shape

-----------------------------------------------------------------------------
(* The parts when the keys change.                                         *)

\* The parts for these keys, of which one more cuts part j.
PartCut(S, more, keys, j, s) ==
  /\ \A i \in 1..(j - 1) : Part(S, more, i) = Part(S, keys, i)
  /\ Part(S, more, j) = Low(Part(S, keys, j), s)
  /\ Part(S, more, j + 1) = High(Part(S, keys, j), s)
  /\ \A i \in (j + 2)..(Len(keys) + 2) : Part(S, more, i) = Part(S, keys, i - 1)

\* The parts for these keys without the one between parts j and j + 1.
PartsJoined(S, less, keys, j) ==
  /\ \A i \in 1..(j - 1) : Part(S, less, i) = Part(S, keys, i)
  /\ Part(S, less, j) = Part(S, keys, j) \cup Part(S, keys, j + 1)
  /\ \A i \in (j + 1)..Len(keys) : Part(S, less, i) = Part(S, keys, i + 1)

\* A key is put into part j.
LEMMA PartsCut ==
  ASSUME NEW S \in SUBSET Int, NEW keys \in Seq(Int), Ascending(keys),
         NEW j \in 1..(Len(keys) + 1), NEW s \in Part(S, keys, j),
         NEW x \in Part(S, keys, j), x < s
  PROVE  LET more == InsertAt(keys, j, s) IN
         /\ more \in Seq(Int) /\ Len(more) = Len(keys) + 1 /\ Ascending(more)
         /\ PartCut(S, more, keys, j, s)
<1> DEFINE n == Len(keys)
           more == InsertAt(keys, j, s)
<1>1. n \in Nat /\ \A i \in 1..n : keys[i] \in Int
  BY SeqFacts
<1>2. s \in Int /\ x \in Int
  BY DEF Part
<1>3. /\ more \in Seq(Int) /\ Len(more) = n + 1
      /\ \A i \in 1..(n + 1) : more[i] = IF i < j THEN keys[i] ELSE IF i = j THEN s ELSE keys[i - 1]
  <2>1. more \in Seq(Int) /\ Len(more) = n + 1 /\ Inserted(more, keys, j, s)
    BY <1>2, InsertAtIs
  <2>2. QED
    BY <2>1 DEF Inserted
<1>4. (j > 1 => keys[j - 1] < s) /\ (j <= n => s < keys[j])
  <2>1. j > 1 => j - 1 \in 1..n /\ keys[j - 1] <= x
    BY <1>1 DEF Part
  <2>2. j <= n => s < keys[j]
    BY DEF Part
  <2>3. QED
    BY <2>1, <2>2, <1>1, <1>2
<1>5. \A a, b \in 1..n : a < b => keys[a] < keys[b]
  BY DEF Ascending
<1> HIDE DEF n, more
<1>6. \A i \in 1..n : (i < j => keys[i] < s) /\ (i >= j => s < keys[i])
  <2>1. TAKE i \in 1..n
  <2>2. ASSUME i < j PROVE keys[i] < s
    <3>1. j > 1 /\ j - 1 \in 1..n /\ (i = j - 1 \/ i < j - 1)
      BY <2>2, <1>1 DEF n
    <3>2. QED
      BY <3>1, <1>1, <1>2, <1>4, <1>5
  <2>3. ASSUME i >= j PROVE s < keys[i]
    <3>1. j <= n /\ j \in 1..n /\ (i = j \/ j < i)
      BY <2>3, <1>1 DEF n
    <3>2. QED
      BY <3>1, <1>1, <1>2, <1>4, <1>5
  <2>4. QED
    BY <2>2, <2>3
<1>7. Ascending(more)
  <2>1. ASSUME NEW a \in 1..(n + 1), NEW b \in 1..(n + 1), a < b PROVE more[a] < more[b]
    <3>1. CASE b < j
      <4>1. a \in 1..n /\ b \in 1..n /\ a < j
        BY <3>1, <2>1, <1>1 DEF n
      <4>2. more[a] = keys[a] /\ more[b] = keys[b]
        BY <3>1, <4>1, <1>3
      <4>3. QED
        BY <4>1, <4>2, <2>1, <1>5
    <3>2. CASE b = j
      <4>1. a \in 1..n /\ a < j
        BY <3>2, <2>1, <1>1 DEF n
      <4>2. QED
        BY <3>2, <4>1, <2>1, <1>3, <1>6
    <3>3. CASE b > j /\ a = j
      <4>1. b - 1 \in 1..n /\ b - 1 >= j /\ ~(b < j) /\ b # j /\ ~(a < j)
        BY <3>3, <2>1, <1>1 DEF n
      <4>2. more[b] = keys[b - 1] /\ more[a] = s
        BY <3>3, <4>1, <1>3
      <4>3. QED
        BY <4>1, <4>2, <1>6
    <3>4. CASE b > j /\ a # j
      <4>1. /\ b - 1 \in 1..n /\ ~(b < j) /\ b # j
            /\ IF a < j THEN (a \in 1..n /\ a < b - 1) \/ a = b - 1 ELSE a - 1 \in 1..n /\ a - 1 < b - 1
        BY <3>4, <2>1, <1>1 DEF n
      <4>2. more[b] = keys[b - 1] /\ more[a] = IF a < j THEN keys[a] ELSE keys[a - 1]
        BY <3>4, <4>1, <1>3
      <4>3. a < j => a < b - 1 /\ a \in 1..n
        BY <3>4, <2>1, <1>1 DEF n
      <4>4. QED
        BY <4>1, <4>2, <4>3, <1>5
    <3>5. QED
      BY <3>1, <3>2, <3>3, <3>4, <1>1 DEF n
  <2>2. QED
    BY <2>1, <1>3 DEF Ascending
<1>8. \A i \in 1..(j - 1) : Part(S, more, i) = Part(S, keys, i)
  <2>1. TAKE i \in 1..(j - 1)
  <2>2. /\ i \in 1..n /\ i <= n /\ i <= n + 1 /\ i < j /\ i \in 1..(n + 1)
        /\ i > 1 => i - 1 \in 1..(n + 1) /\ i - 1 < j
    BY <1>1 DEF n
  <2>3. more[i] = keys[i] /\ (i > 1 => more[i - 1] = keys[i - 1])
    BY <2>2, <1>3
  <2>4. QED
    BY <2>2, <2>3, <1>3 DEF Part, n
<1>9. Part(S, more, j) = Low(Part(S, keys, j), s)
  <2>1. /\ j \in 1..(n + 1) /\ j <= n + 1 /\ (j > 1 => j - 1 \in 1..(n + 1) /\ j - 1 < j)
        /\ (j <= n => j \in 1..n)
    BY <1>1 DEF n
  <2>2. more[j] = s /\ (j > 1 => more[j - 1] = keys[j - 1])
    BY <2>1, <1>3
  <2>3. \A k \in Int : k < s => (j <= n => k < keys[j])
    BY <2>1, <1>1, <1>2, <1>4
  <2>4. QED
    BY <2>1, <2>2, <2>3, <1>3 DEF Part, n, Low
<1>10. Part(S, more, j + 1) = High(Part(S, keys, j), s)
  <2>1. /\ j + 1 > 1 /\ (j + 1) - 1 = j /\ j \in 1..(n + 1)
        /\ (j + 1 <= n + 1 <=> j <= n) /\ (j <= n => j + 1 \in 1..(n + 1) /\ ~(j + 1 < j) /\ j + 1 # j)
        /\ (j > 1 => j - 1 \in 1..n)
    BY <1>1 DEF n
  <2>2. more[(j + 1) - 1] = s /\ (j <= n => more[j + 1] = keys[j])
    BY <2>1, <1>3
  <2>3. \A k \in Int : s <= k => (j > 1 => keys[j - 1] <= k)
    BY <2>1, <1>1, <1>2, <1>4
  <2>4. QED
    BY <2>1, <2>2, <2>3, <1>3 DEF Part, n, High
<1>11. \A i \in (j + 2)..(n + 2) : Part(S, more, i) = Part(S, keys, i - 1)
  <2>1. TAKE i \in (j + 2)..(n + 2)
  <2>2. /\ i > 1 /\ i - 1 > 1 /\ i - 1 \in 1..(n + 1) /\ ~(i - 1 < j) /\ i - 1 # j
        /\ (i <= n + 1 <=> i - 1 <= n) /\ (i <= n + 1 => i \in 1..(n + 1) /\ ~(i < j) /\ i # j)
    BY <1>1 DEF n
  <2>3. more[i - 1] = keys[(i - 1) - 1] /\ (i <= n + 1 => more[i] = keys[i - 1])
    BY <2>2, <1>3
  <2>4. QED
    BY <2>2, <2>3, <1>3 DEF Part, n
<1>12. QED
  BY <1>3, <1>7, <1>8, <1>9, <1>10, <1>11 DEF PartCut, n, more

LEMMA SameSeq ==
  ASSUME NEW S, NEW s \in Seq(S), NEW t \in Seq(S), Len(s) = Len(t),
         \A i \in 1..Len(s) : s[i] = t[i]
  PROVE  s = t
<1>1. s \in [1..Len(s) -> S] /\ t \in [1..Len(s) -> S]
  BY SeqFacts
<1>2. QED
  BY <1>1

\* Two parts become one when the key between them goes.
LEMMA PartsJoin ==
  ASSUME NEW S \in SUBSET Int, NEW keys \in Seq(Int), Ascending(keys),
         Within(keys, S), NEW j \in 1..Len(keys), NEW x \in Part(S, keys, j)
  PROVE  LET less == RemoveAt(keys, j) IN
         /\ less \in Seq(Int) /\ Len(less) = Len(keys) - 1 /\ Ascending(less)
         /\ Within(less, S) /\ PartsJoined(S, less, keys, j)
<1> DEFINE n == Len(keys)
           less == RemoveAt(keys, j)
           s == keys[j]
<1>1. n \in Nat /\ j \in 1..n /\ \A i \in 1..n : keys[i] \in Int
  BY SeqFacts
<1>2. \A a, b \in 1..n : a < b => keys[a] < keys[b]
  BY DEF Ascending
<1>3. /\ less \in Seq(Int) /\ Len(less) = n - 1
      /\ \A i \in 1..(n - 1) : less[i] = IF i < j THEN keys[i] ELSE keys[i + 1]
  <2>1. less \in Seq(Int) /\ Len(less) = n - 1 /\ Removed(less, keys, j)
    BY RemoveAtIs
  <2>2. QED
    BY <2>1 DEF Removed
<1>4. s \in S /\ x \in Int /\ x < s /\ (j > 1 => keys[j - 1] <= x)
  BY <1>1 DEF Part, Within
<1> HIDE DEF n, less
<1>5. Ascending(less) /\ Within(less, S)
  <2>1. ASSUME NEW a \in 1..(n - 1), NEW b \in 1..(n - 1), a < b PROVE less[a] < less[b]
    <3>1. a \in 1..n /\ b \in 1..n /\ a + 1 \in 1..n /\ b + 1 \in 1..n /\ a < b + 1 /\ a + 1 < b + 1
      BY <2>1, <1>1
    <3>2. b < j => a < j
      BY <2>1, <1>1
    <3>3. QED
      BY <3>1, <3>2, <2>1, <1>2, <1>3
  <2>2. Ascending(less)
    BY <2>1, <1>3 DEF Ascending
  <2>3. \A i \in 1..(n - 1) : i \in 1..n /\ i + 1 \in 1..n
    BY <1>1
  <2>4. \A i \in 1..n : keys[i] \in S
    BY DEF Within, n
  <2>5. Within(less, S)
    BY <2>3, <2>4, <1>3 DEF Within
  <2>6. QED
    BY <2>2, <2>5
<1>6. j \in 1..(Len(less) + 1) /\ s \in Part(S, less, j) /\ x \in Part(S, less, j)
  <2>1. j \in 1..n /\ (j > 1 => j - 1 \in 1..(n - 1) /\ j - 1 < j /\ j - 1 \in 1..n)
        /\ (j <= n - 1 => j \in 1..(n - 1) /\ ~(j < j) /\ j + 1 \in 1..n /\ j < j + 1)
    BY <1>1
  <2>2. (j > 1 => less[j - 1] = keys[j - 1]) /\ (j <= n - 1 => less[j] = keys[j + 1])
    BY <2>1, <1>3
  <2>3. (j > 1 => keys[j - 1] < s) /\ (j <= n - 1 => s < keys[j + 1] /\ keys[j + 1] \in Int)
    BY <2>1, <1>1, <1>2
  <2>4. j <= n - 1 => x < keys[j + 1]
    BY <2>3, <1>4, <1>1
  <2>5. x \in S
    BY DEF Part
  <2>6. j > 1 => keys[j - 1] <= s
    BY <2>1, <2>3, <1>1
  <2>7. Len(less) + 1 = n /\ Len(less) = n - 1
    BY <1>3, <1>1
  <2>8. QED
    BY <2>1, <2>2, <2>3, <2>4, <2>5, <2>6, <2>7, <1>4 DEF Part
<1>7. InsertAt(less, j, s) = keys
  <2>1. s \in Int
    BY <1>1
  <2>2. /\ InsertAt(less, j, s) \in Seq(Int) /\ Len(InsertAt(less, j, s)) = Len(less) + 1
        /\ Inserted(InsertAt(less, j, s), less, j, s)
    <3>1. less \in Seq(Int) /\ j \in 1..(Len(less) + 1)
      BY <1>3, <1>6
    <3> HIDE DEF s
    <3>2. QED
      BY <2>1, <3>1, InsertAtIs
  <2>3. Len(less) + 1 = n
    BY <1>1, <1>3
  <2>4. ASSUME NEW i \in 1..n PROVE InsertAt(less, j, s)[i] = keys[i]
    <3>1. i < j => i \in 1..(n - 1)
      BY <1>1
    <3>2. i > j => i - 1 \in 1..(n - 1) /\ ~(i - 1 < j) /\ (i - 1) + 1 = i
      BY <1>1
    <3>3. i < j \/ i = j \/ i > j
      BY <1>1
    <3>4. QED
      BY <3>1, <3>2, <3>3, <2>2, <2>3, <1>1, <1>3 DEF Inserted
  <2>5. QED
    BY <2>2, <2>3, <2>4, SameSeq DEF n
<1>8. /\ \A i \in 1..(j - 1) : Part(S, keys, i) = Part(S, less, i)
      /\ Part(S, keys, j) = Low(Part(S, less, j), s)
      /\ Part(S, keys, j + 1) = High(Part(S, less, j), s)
      /\ \A i \in (j + 2)..(Len(less) + 2) : Part(S, keys, i) = Part(S, less, i - 1)
  <2>1. less \in Seq(Int) /\ Ascending(less) /\ j \in 1..(Len(less) + 1) /\ x < s
        /\ s \in Part(S, less, j) /\ x \in Part(S, less, j)
    BY <1>3, <1>4, <1>5, <1>6
  <2> HIDE DEF s
  <2>2. PartCut(S, InsertAt(less, j, s), less, j, s)
    BY <2>1, PartsCut
  <2>3. QED
    BY <2>2, <1>7 DEF PartCut
<1>9. Part(S, less, j) = Part(S, keys, j) \cup Part(S, keys, j + 1)
  <2>1. \A k \in Part(S, less, j) : k \in Int
    BY DEF Part
  <2>2. \A k \in Part(S, less, j) : k < s \/ s <= k
    BY <2>1, <1>1
  <2>3. QED
    BY <2>2, <1>8 DEF Low, High
<1>10. \A i \in (j + 1)..n : Part(S, less, i) = Part(S, keys, i + 1)
  <2>1. TAKE i \in (j + 1)..n
  <2>2. i + 1 \in (j + 2)..(Len(less) + 2) /\ (i + 1) - 1 = i
    BY <1>1, <1>3
  <2>3. QED
    BY <2>2, <1>8
<1>11. QED
  BY <1>3, <1>5, <1>8, <1>9, <1>10 DEF PartsJoined, n, less

\* Where a search in a node puts a key that part j will be cut at.
LEMMA PlaceIs ==
  ASSUME NEW node, node.keys \in Seq(Int), Ascending(node.keys), NEW S \in SUBSET Int,
         NEW j \in 1..(Len(node.keys) + 1), NEW s \in Part(S, node.keys, j),
         NEW x \in Part(S, node.keys, j), x < s
  PROVE  FindKeyIndex(node, s) = j
<1> DEFINE keys == node.keys
           n == Len(keys)
           i == FindKeyIndex(node, s)
<1>1. n \in Nat /\ (\A l \in 1..n : keys[l] \in Int) /\ s \in Int /\ x \in Int
  BY SeqFacts DEF Part
<1>2. /\ i \in 1..(n + 1)
      /\ \A l \in 1..n : l < i => keys[l] < s
      /\ \A l \in 1..n : l >= i => keys[l] >= s
  BY <1>1, FindKeyIndexIs
<1>3. (j > 1 => keys[j - 1] <= x) /\ (j <= n => s < keys[j]) /\ j \in 1..(n + 1)
  BY DEF Part
<1>4. \A a, b \in 1..n : a < b => keys[a] < keys[b]
  BY DEF Ascending
<1> HIDE DEF i, keys, n
<1>5. ~(i < j)
  <2>1. ASSUME i < j PROVE FALSE
    <3>1. i \in 1..n /\ j - 1 \in 1..n /\ j > 1 /\ (i = j - 1 \/ i < j - 1)
      BY <2>1, <1>1, <1>2, <1>3
    <3>2. keys[i] >= s /\ keys[i] <= keys[j - 1]
      BY <3>1, <1>1, <1>2, <1>4
    <3>3. keys[j - 1] <= x /\ keys[i] \in Int /\ keys[j - 1] \in Int
      BY <3>1, <1>1, <1>3
    <3>4. QED
      BY <3>2, <3>3, <1>1
  <2>2. QED
    BY <2>1
<1>6. ~(j < i)
  <2>1. ASSUME j < i PROVE FALSE
    <3>1. j \in 1..n
      BY <2>1, <1>1, <1>2, <1>3
    <3>2. keys[j] < s /\ s < keys[j] /\ keys[j] \in Int
      BY <3>1, <2>1, <1>1, <1>2, <1>3
    <3>3. QED
      BY <3>2, <1>1
  <2>2. QED
    BY <2>1
<1>7. i = j
  BY <1>1, <1>2, <1>3, <1>5, <1>6
<1>8. QED
  BY <1>7 DEF i

-----------------------------------------------------------------------------
(* A node cut in two, and two nodes joined.                                *)

\* K is A, then m, then B.
Glued(K, A, m, B) ==
  /\ Len(K) = Len(A) + Len(B) + 1 /\ K[Len(A) + 1] = m
  /\ \A i \in 1..Len(A) : K[i] = A[i]
  /\ \A i \in 1..Len(B) : K[Len(A) + 1 + i] = B[i]

\* K is A, then B.
Joined(K, A, B) ==
  /\ Len(K) = Len(A) + Len(B)
  /\ \A i \in 1..Len(A) : K[i] = A[i]
  /\ \A i \in 1..Len(B) : K[Len(A) + i] = B[i]

LEMMA GluedParts ==
  ASSUME NEW S \in SUBSET Int, NEW K \in Seq(Int), NEW A \in Seq(Int), NEW B \in Seq(Int),
         NEW m \in Int, Glued(K, A, m, B), Ascending(K), Within(K, S)
  PROVE  /\ Ascending(A) /\ Within(A, Low(S, m)) /\ Ascending(B) /\ Within(B, High(S, m))
         /\ \A j \in 1..(Len(A) + 1) : Part(Low(S, m), A, j) = Part(S, K, j)
         /\ \A j \in 1..(Len(B) + 1) : Part(High(S, m), B, j) = Part(S, K, Len(A) + 1 + j)
<1> DEFINE a == Len(A)
           b == Len(B)
<1>1. /\ a \in Nat /\ b \in Nat /\ Len(K) = a + b + 1 /\ K[a + 1] = m
      /\ \A i \in 1..a : K[i] = A[i] /\ A[i] \in Int
      /\ \A i \in 1..b : K[a + 1 + i] = B[i] /\ B[i] \in Int
  BY SeqFacts DEF Glued
<1>2. \A i, j \in 1..(a + b + 1) : i < j => K[i] < K[j]
  BY <1>1 DEF Ascending
<1>3. \A i \in 1..(a + b + 1) : K[i] \in S
  BY <1>1 DEF Within
<1> HIDE DEF a, b
<1>4. /\ \A i \in 1..a : i \in 1..(a + b + 1) /\ i < a + 1
      /\ \A i \in 1..b : a + 1 + i \in 1..(a + b + 1) /\ a + 1 < a + 1 + i
      /\ a + 1 \in 1..(a + b + 1)
  BY <1>1
<1>5. (\A i \in 1..a : A[i] < m) /\ (\A i \in 1..b : m < B[i])
  BY <1>1, <1>2, <1>4
<1>6. Ascending(A) /\ Within(A, Low(S, m))
  <2>1. \A i, j \in 1..a : i < j => A[i] < A[j]
    BY <1>1, <1>2, <1>4
  <2>2. \A i \in 1..a : A[i] \in S /\ A[i] < m
    BY <1>1, <1>3, <1>4, <1>5
  <2>3. QED
    BY <2>1, <2>2 DEF Ascending, Within, Low, a
<1>7. Ascending(B) /\ Within(B, High(S, m))
  <2>1. \A i, j \in 1..b : i < j => B[i] < B[j]
    <3>1. \A i, j \in 1..b : i < j => a + 1 + i < a + 1 + j
      BY <1>1
    <3>2. QED
      BY <3>1, <1>1, <1>2, <1>4
  <2>2. \A i \in 1..b : B[i] \in S /\ m <= B[i]
    BY <1>1, <1>3, <1>4, <1>5, SMTT(20)
  <2>3. QED
    BY <2>1, <2>2 DEF Ascending, Within, High, b
<1>8. ASSUME NEW j \in 1..(a + 1) PROVE Part(Low(S, m), A, j) = Part(S, K, j)
  <2>1. /\ j > 1 => j - 1 \in 1..a
        /\ j <= a => j \in 1..a
        /\ j <= a + b + 1 /\ (~(j <= a) => j = a + 1)
    BY <1>1, <1>8
  <2>2. (j > 1 => A[j - 1] = K[j - 1]) /\ (j <= a => A[j] = K[j]) /\ (~(j <= a) => K[j] = m)
    BY <2>1, <1>1
  <2>3. \A k \in S : k \in Int
    OBVIOUS
  <2>4. \A k \in S : k < K[j] => k < m
    BY <2>1, <2>2, <2>3, <1>1, <1>5
  <2>5. \A k \in S : k < K[j] <=> k < m /\ (j <= a => k < A[j])
    BY <2>2, <2>4
  <2>6. QED
    BY <2>1, <2>2, <2>5, <1>1 DEF Part, Low, a
<1>9. ASSUME NEW j \in 1..(b + 1) PROVE Part(High(S, m), B, j) = Part(S, K, a + 1 + j)
  <2>1. /\ j > 1 => j - 1 \in 1..b /\ (a + 1 + j) - 1 = a + 1 + (j - 1)
        /\ j <= b => j \in 1..b
        /\ (a + 1 + j > 1) /\ (a + 1 + j <= a + b + 1 <=> j <= b)
        /\ (~(j > 1) => j = 1 /\ (a + 1 + j) - 1 = a + 1)
    BY <1>1, <1>9
  <2>2. /\ j > 1 => B[j - 1] = K[(a + 1 + j) - 1]
        /\ j <= b => B[j] = K[a + 1 + j]
        /\ ~(j > 1) => K[(a + 1 + j) - 1] = m
    BY <2>1, <1>1
  <2>3. \A k \in S : k \in Int
    OBVIOUS
  <2>4. \A k \in S : K[(a + 1 + j) - 1] <= k => m <= k
    <3>1. K[(a + 1 + j) - 1] \in Int /\ m <= K[(a + 1 + j) - 1]
      BY <2>1, <2>2, <1>1, <1>5
    <3>2. \A k, c \in Int : m <= c /\ c <= k => m <= k
      OBVIOUS
    <3>3. QED
      BY <3>1, <3>2, <2>3
  <2>5. \A k \in S : K[(a + 1 + j) - 1] <= k <=> m <= k /\ (j > 1 => B[j - 1] <= k)
    BY <2>2, <2>4
  <2>6. QED
    BY <2>1, <2>2, <2>5, <1>1 DEF Part, High, b
<1>10. QED
  BY <1>6, <1>7, <1>8, <1>9 DEF a, b

LEMMA GluedAscends ==
  ASSUME NEW S \in SUBSET Int, NEW K \in Seq(Int), NEW A \in Seq(Int), NEW B \in Seq(Int),
         NEW m \in S, Glued(K, A, m, B), Ascending(A), Ascending(B),
         Within(A, Low(S, m)), Within(B, High(S, m)), Part(High(S, m), B, 1) # {}
  PROVE  Ascending(K) /\ Within(K, S)
<1> DEFINE a == Len(A)
           b == Len(B)
<1>1. /\ a \in Nat /\ b \in Nat /\ Len(K) = a + b + 1 /\ K[a + 1] = m /\ m \in Int
      /\ \A i \in 1..a : K[i] = A[i] /\ A[i] \in Int /\ A[i] < m /\ A[i] \in S
      /\ \A i \in 1..b : K[a + 1 + i] = B[i] /\ B[i] \in Int /\ B[i] \in S
  BY SeqFacts DEF Glued, Within, Low, High
<1>2. /\ \A i, j \in 1..a : i < j => A[i] < A[j]
      /\ \A i, j \in 1..b : i < j => B[i] < B[j]
  BY DEF Ascending
<1>3. PICK y \in Part(High(S, m), B, 1) : TRUE
  OBVIOUS
<1>4. y \in Int /\ m <= y /\ (1 <= b => y < B[1])
  BY <1>3 DEF Part, High
<1> HIDE DEF a, b
<1>5. \A i \in 1..b : m < B[i]
  <2>1. TAKE i \in 1..b
  <2>2. 1 \in 1..b /\ 1 <= b /\ (i = 1 \/ 1 < i)
    BY <1>1
  <2>3. m < B[1]
    BY <2>2, <1>1, <1>4
  <2>4. B[1] = B[i] \/ B[1] < B[i]
    BY <2>2, <1>2
  <2>5. B[1] \in Int /\ B[i] \in Int
    BY <2>2, <1>1
  <2>6. QED
    BY <2>3, <2>4, <2>5, <1>1, SMTT(20)
<1>6. ASSUME NEW i \in 1..(a + b + 1)
      PROVE  \/ i \in 1..a
             \/ i = a + 1
             \/ i - a - 1 \in 1..b /\ i = a + 1 + (i - a - 1)
  BY <1>1
<1>7. ASSUME NEW i \in 1..(a + b + 1), NEW j \in 1..(a + b + 1), i < j PROVE K[i] < K[j]
  <2>1. CASE i \in 1..a /\ j \in 1..a
    BY <2>1, <1>1, <1>2, <1>7
  <2>2. CASE i \in 1..a /\ j = a + 1
    BY <2>2, <1>1
  <2>3. CASE i \in 1..a /\ ~(j \in 1..a) /\ j # a + 1
    <3>1. K[j] = B[j - a - 1] /\ j - a - 1 \in 1..b
      BY <2>3, <1>1, <1>6
    <3>2. m < B[j - a - 1] /\ B[j - a - 1] \in Int /\ A[i] < m /\ A[i] \in Int /\ K[i] = A[i]
      BY <3>1, <2>3, <1>1, <1>5
    <3>3. m \in Int /\ K[j] \in Int /\ K[i] \in Int /\ K[i] < m /\ m < K[j]
      BY <3>1, <3>2, <1>1
    <3>4. QED
      BY <3>3
  <2>4. CASE i = a + 1
    <3>1. K[j] = B[j - a - 1] /\ j - a - 1 \in 1..b
      BY <2>4, <1>1, <1>6, <1>7
    <3>2. QED
      BY <3>1, <2>4, <1>1, <1>5
  <2>5. CASE ~(i \in 1..a) /\ i # a + 1
    <3>1. i - a - 1 \in 1..b /\ j - a - 1 \in 1..b /\ i - a - 1 < j - a - 1
      BY <2>5, <1>1, <1>7
    <3>2. K[i] = B[i - a - 1] /\ K[j] = B[j - a - 1]
      <4>1. i = a + 1 + (i - a - 1) /\ j = a + 1 + (j - a - 1)
        BY <1>1
      <4>2. QED
        BY <3>1, <4>1, <1>1
    <3>3. QED
      BY <3>1, <3>2, <1>2
  <2>6. j \in 1..a \/ j = a + 1 \/ (~(j \in 1..a) /\ j # a + 1)
    OBVIOUS
  <2>7. QED
    BY <2>1, <2>2, <2>3, <2>4, <2>5, <2>6
<1>8. \A i \in 1..(a + b + 1) : K[i] \in S
  BY <1>1, <1>6
<1>9. QED
  BY <1>1, <1>7, <1>8 DEF Ascending, Within

IsFork(n, keys, kids) == n.keys = keys /\ n.kids = kids /\ n.locs = << >>

\* Forks l and r are what comes of n cut around its key m.
CutsFork(l, r, n, A, m, B, U, V, D, S, h, seen, level) ==
  /\ n.keys \in Seq(Int) /\ n.kids \in Seq(D) /\ S \in SUBSET Int /\ S # {}
  /\ ForkFits(n, S, h, seen, level)
  /\ A \in Seq(Int) /\ B \in Seq(Int) /\ m \in Int /\ Glued(n.keys, A, m, B)
  /\ U \in Seq(D) /\ V \in Seq(D) /\ Joined(n.kids, U, V) /\ Len(U) = Len(A) + 1
  /\ IsFork(l, A, U) /\ IsFork(r, B, V)

LEMMA ForkCut ==
  ASSUME NEW l, NEW r, NEW n, NEW A, NEW m, NEW B, NEW U, NEW V, NEW D, NEW S, NEW h, NEW seen, NEW level,
         CutsFork(l, r, n, A, m, B, U, V, D, S, h, seen, level)
  PROVE  /\ ForkFits(l, Low(S, m), h, seen, level) /\ ForkFits(r, High(S, m), h, seen, level)
         /\ Low(S, m) # {} /\ m \in High(S, m)
<1>z. /\ n.keys \in Seq(Int) /\ n.kids \in Seq(D) /\ S \in SUBSET Int /\ S # {}
      /\ ForkFits(n, S, h, seen, level)
      /\ A \in Seq(Int) /\ B \in Seq(Int) /\ m \in Int /\ Glued(n.keys, A, m, B)
      /\ U \in Seq(D) /\ V \in Seq(D) /\ Joined(n.kids, U, V) /\ Len(U) = Len(A) + 1
      /\ IsFork(l, A, U) /\ IsFork(r, B, V)
  BY DEF CutsFork
<1> USE <1>z
<1> DEFINE a == Len(A)
           b == Len(B)
<1>1. /\ a \in Nat /\ b \in Nat /\ Len(U) = a + 1 /\ Len(V) \in Nat
      /\ Len(n.keys) = a + b + 1 /\ Len(n.kids) = Len(n.keys) + 1
      /\ Len(n.kids) = Len(U) + Len(V)
  BY SeqFacts DEF Glued, Joined, ForkFits
<1>2. /\ \A i \in 1..Len(U) : n.kids[i] = U[i]
      /\ \A i \in 1..Len(V) : n.kids[Len(U) + i] = V[i]
  BY DEF Joined
<1>3. /\ \A j \in 1..Len(n.kids) : level[n.kids[j]] < h /\ level[n.kids[j]] = h - 1
      /\ \A j \in 1..Len(n.kids) : seen[n.kids[j]] = Part(S, n.keys, j) /\ Part(S, n.keys, j) # {}
      /\ Ascending(n.keys) /\ Within(n.keys, S)
  BY DEF ForkFits
<1>4. /\ Ascending(A) /\ Within(A, Low(S, m)) /\ Ascending(B) /\ Within(B, High(S, m))
      /\ \A j \in 1..(a + 1) : Part(Low(S, m), A, j) = Part(S, n.keys, j)
      /\ \A j \in 1..(b + 1) : Part(High(S, m), B, j) = Part(S, n.keys, a + 1 + j)
  BY <1>3, GluedParts
<1> HIDE DEF a, b
<1>5. Len(V) = b + 1
  BY <1>1
<1>6. ForkFits(l, Low(S, m), h, seen, level)
  <2>1. \A j \in 1..(a + 1) : j \in 1..Len(n.kids)
    BY <1>1
  <2>2. \A j \in 1..(a + 1) : /\ level[U[j]] < h /\ level[U[j]] = h - 1
                              /\ seen[U[j]] = Part(Low(S, m), A, j) /\ Part(Low(S, m), A, j) # {}
    BY <2>1, <1>1, <1>2, <1>3, <1>4
  <2>3. QED
    BY <2>2, <1>1, <1>4 DEF ForkFits, IsFork, a
<1>7. ForkFits(r, High(S, m), h, seen, level)
  <2>1. \A j \in 1..(b + 1) : a + 1 + j \in 1..Len(n.kids)
    BY <1>1
  <2>2. \A j \in 1..(b + 1) : /\ level[V[j]] < h /\ level[V[j]] = h - 1
                              /\ seen[V[j]] = Part(High(S, m), B, j) /\ Part(High(S, m), B, j) # {}
    <3>1. TAKE j \in 1..(b + 1)
    <3>2. V[j] = n.kids[a + 1 + j] /\ Part(High(S, m), B, j) = Part(S, n.keys, a + 1 + j)
      BY <1>1, <1>2, <1>4, <1>5
    <3>3. QED
      BY <2>1, <3>2, <1>3
  <2>3. QED
    BY <2>2, <1>4, <1>5 DEF ForkFits, IsFork, b
<1>8. Low(S, m) # {} /\ m \in High(S, m)
  <2>1. 1 \in 1..(a + 1) /\ 1 \in 1..Len(n.kids)
    BY <1>1
  <2>2. Part(Low(S, m), A, 1) # {}
    BY <2>1, <1>3, <1>4
  <2>3. n.keys[a + 1] = m /\ a + 1 \in 1..Len(n.keys)
    BY <1>1, SMTT(20) DEF Glued, a
  <2>4. m \in S
    BY <2>3, <1>3 DEF Within
  <2>5. QED
    BY <2>2, <2>4 DEF Part, High
<1>9. QED
  BY <1>6, <1>7, <1>8

\* Fork n is what comes of l and r joined around a key m.
JoinsForks(n, l, r, K, U, m, D, S, h, seen, level) ==
  /\ l.keys \in Seq(Int) /\ l.kids \in Seq(D) /\ r.keys \in Seq(Int) /\ r.kids \in Seq(D)
  /\ S \in SUBSET Int /\ m \in S
  /\ ForkFits(l, Low(S, m), h, seen, level) /\ Low(S, m) # {}
  /\ ForkFits(r, High(S, m), h, seen, level) /\ High(S, m) # {}
  /\ K \in Seq(Int) /\ Glued(K, l.keys, m, r.keys)
  /\ U \in Seq(D) /\ Joined(U, l.kids, r.kids) /\ IsFork(n, K, U)

LEMMA ForkJoin ==
  ASSUME NEW n, NEW l, NEW r, NEW K, NEW U, NEW m, NEW D, NEW S, NEW h, NEW seen, NEW level,
         JoinsForks(n, l, r, K, U, m, D, S, h, seen, level)
  PROVE  ForkFits(n, S, h, seen, level)
<1>z. /\ l.keys \in Seq(Int) /\ l.kids \in Seq(D) /\ r.keys \in Seq(Int) /\ r.kids \in Seq(D)
      /\ S \in SUBSET Int /\ m \in S
      /\ ForkFits(l, Low(S, m), h, seen, level) /\ Low(S, m) # {}
      /\ ForkFits(r, High(S, m), h, seen, level) /\ High(S, m) # {}
      /\ K \in Seq(Int) /\ Glued(K, l.keys, m, r.keys)
      /\ U \in Seq(D) /\ Joined(U, l.kids, r.kids) /\ IsFork(n, K, U)
  BY DEF JoinsForks
<1> USE <1>z
<1> DEFINE a == Len(l.keys)
           b == Len(r.keys)
<1>1. /\ a \in Nat /\ b \in Nat /\ Len(l.kids) = a + 1 /\ Len(r.kids) = b + 1
      /\ Len(K) = a + b + 1 /\ Len(U) = a + b + 2
  <2>1. a \in Nat /\ b \in Nat
    BY SeqFacts
  <2>2. Len(l.kids) = a + 1 /\ Len(r.kids) = b + 1
    BY DEF ForkFits
  <2>3. Len(K) = a + b + 1 /\ Len(U) = Len(l.kids) + Len(r.kids)
    BY DEF Glued, Joined
  <2> HIDE DEF a, b
  <2>4. QED
    BY <2>1, <2>2, <2>3
<1>2. /\ \A i \in 1..Len(l.kids) : U[i] = l.kids[i]
      /\ \A i \in 1..Len(r.kids) : U[Len(l.kids) + i] = r.kids[i]
  BY DEF Joined
<1>3. /\ Ascending(l.keys) /\ Within(l.keys, Low(S, m))
      /\ Ascending(r.keys) /\ Within(r.keys, High(S, m))
      /\ \A j \in 1..Len(l.kids) :
           /\ level[l.kids[j]] < h /\ level[l.kids[j]] = h - 1
           /\ seen[l.kids[j]] = Part(Low(S, m), l.keys, j) /\ Part(Low(S, m), l.keys, j) # {}
      /\ \A j \in 1..Len(r.kids) :
           /\ level[r.kids[j]] < h /\ level[r.kids[j]] = h - 1
           /\ seen[r.kids[j]] = Part(High(S, m), r.keys, j) /\ Part(High(S, m), r.keys, j) # {}
  BY DEF ForkFits
<1>4. Part(High(S, m), r.keys, 1) # {}
  <2>1. 1 \in 1..Len(r.kids)
    BY <1>1
  <2>2. QED
    BY <2>1, <1>3
<1>5. Ascending(K) /\ Within(K, S)
  BY <1>3, <1>4, GluedAscends
<1>6. /\ \A j \in 1..(a + 1) : Part(Low(S, m), l.keys, j) = Part(S, K, j)
      /\ \A j \in 1..(b + 1) : Part(High(S, m), r.keys, j) = Part(S, K, a + 1 + j)
  <2>1. m \in Int
    OBVIOUS
  <2>2. \A A, B \in Seq(Int) : Glued(K, A, m, B) =>
          /\ \A j \in 1..(Len(A) + 1) : Part(Low(S, m), A, j) = Part(S, K, j)
          /\ \A j \in 1..(Len(B) + 1) : Part(High(S, m), B, j) = Part(S, K, Len(A) + 1 + j)
    BY <2>1, <1>5, GluedParts
  <2>3. QED
    BY <2>2
<1> HIDE DEF a, b
<1>7. ASSUME NEW j \in 1..(a + b + 2)
      PROVE  /\ level[U[j]] < h /\ level[U[j]] = h - 1
             /\ seen[U[j]] = Part(S, K, j) /\ Part(S, K, j) # {}
  <2>1. CASE j \in 1..(a + 1)
    BY <2>1, <1>1, <1>2, <1>3, <1>6
  <2>2. CASE ~(j \in 1..(a + 1))
    <3> DEFINE i == j - (a + 1)
    <3>1. i \in 1..(b + 1) /\ j = a + 1 + i
      BY <2>2, <1>1
    <3> HIDE DEF i
    <3>2. U[j] = r.kids[i] /\ Part(S, K, j) = Part(High(S, m), r.keys, i)
      BY <3>1, <1>1, <1>2, <1>6
    <3>3. QED
      BY <3>1, <3>2, <1>1, <1>3
  <2>3. QED
    BY <2>1, <2>2
<1>8. QED
  <2>1. Len(U) = Len(K) + 1
    BY <1>1
  <2>2. \A j \in 1..Len(U) : /\ level[U[j]] < h /\ level[U[j]] = h - 1
                             /\ seen[U[j]] = Part(S, K, j) /\ Part(S, K, j) # {}
    BY <1>1, <1>7
  <2>3. QED
    BY <2>1, <2>2, <1>5 DEF ForkFits, IsFork

LEMMA KidsDiffer ==
  ASSUME NEW n, n.keys \in Seq(Int), NEW S \in SUBSET Int, S # {}, NEW h, NEW seen, NEW level,
         ForkFits(n, S, h, seen, level),
         NEW i \in 1..Len(n.kids), NEW j \in 1..Len(n.kids), n.kids[i] = n.kids[j]
  PROVE  i = j
<1>1. /\ Len(n.kids) = Len(n.keys) + 1 /\ Ascending(n.keys)
      /\ Part(S, n.keys, i) = Part(S, n.keys, j) /\ Part(S, n.keys, i) # {}
  BY DEF ForkFits
<1>2. i # j => Part(S, n.keys, i) \cap Part(S, n.keys, j) = {}
  BY <1>1, PartsApart
<1>3. QED
  BY <1>1, <1>2

\* What the levels above go by when child j was cut at a key, its right
\* part to a new node; when child j took in the next; when keys moved
\* between the two.
KidSplit(n, j, new, s, seen, seen2) ==
  /\ s \in seen[n.kids[j]] /\ \E x \in seen[n.kids[j]] : x < s
  /\ \A i \in 1..Len(n.kids) : n.kids[i] # new
  /\ seen2[n.kids[j]] = Low(seen[n.kids[j]], s) /\ seen2[new] = High(seen[n.kids[j]], s)
  /\ \A i \in 1..Len(n.kids) : i # j => seen2[n.kids[i]] = seen[n.kids[i]]

KidsMerged(n, j, seen, seen2) ==
  /\ seen2[n.kids[j]] = seen[n.kids[j]] \cup seen[n.kids[j + 1]]
  /\ \A i \in 1..Len(n.kids) : i # j /\ i # j + 1 => seen2[n.kids[i]] = seen[n.kids[i]]

KidsMoved(n, j, s, seen, seen2) ==
  LET both == seen[n.kids[j]] \cup seen[n.kids[j + 1]] IN
  /\ s \in both /\ \E x \in both : x < s
  /\ seen2[n.kids[j]] = Low(both, s) /\ seen2[n.kids[j + 1]] = High(both, s)
  /\ \A i \in 1..Len(n.kids) : i # j /\ i # j + 1 => seen2[n.kids[i]] = seen[n.kids[i]]

Keyed(n, D) == n.keys \in Seq(Int) /\ n.kids \in Seq(D)

\* A child was split: the level above gets the key and the new child.
LEMMA ForkInsert ==
  ASSUME NEW D, NEW n, Keyed(n, D),
         NEW S \in SUBSET Int, S # {}, NEW h, NEW seen, NEW level, ForkFits(n, S, h, seen, level),
         NEW j \in 1..Len(n.kids), NEW new \in D, level[new] = level[n.kids[j]],
         NEW s, NEW seen2, KidSplit(n, j, new, s, seen, seen2),
         NEW q, IsFork(q, InsertAt(n.keys, j, s), InsertAt(n.kids, j + 1, new))
  PROVE  /\ ForkFits(q, S, h, seen2, level) /\ Keyed(q, D)
         /\ Len(q.keys) = Len(n.keys) + 1
<1> DEFINE c == Len(n.keys)
           id == n.kids[j]
<1>a. n.keys \in Seq(Int) /\ n.kids \in Seq(D)
  BY DEF Keyed
<1>b. /\ s \in seen[id] /\ seen2[id] = Low(seen[id], s) /\ seen2[new] = High(seen[id], s)
      /\ \A i \in 1..Len(n.kids) : i # j => seen2[n.kids[i]] = seen[n.kids[i]]
  BY DEF KidSplit
<1>c. PICK x \in seen[id] : x < s
  BY DEF KidSplit
<1>1. /\ c \in Nat /\ Len(n.kids) = c + 1 /\ j \in 1..(c + 1) /\ j + 1 \in 1..(Len(n.kids) + 1)
      /\ Ascending(n.keys) /\ Within(n.keys, S)
      /\ \A i \in 1..(c + 1) : /\ level[n.kids[i]] < h /\ level[n.kids[i]] = h - 1
                               /\ seen[n.kids[i]] = Part(S, n.keys, i) /\ Part(S, n.keys, i) # {}
  BY <1>a, SeqFacts DEF ForkFits
<1>2. s \in Part(S, n.keys, j) /\ x \in Part(S, n.keys, j) /\ s \in S /\ s \in Int /\ x \in Int
  BY <1>1, <1>b DEF Part
<1>3. /\ q.keys \in Seq(Int) /\ Len(q.keys) = c + 1 /\ Ascending(q.keys)
      /\ \A i \in 1..(j - 1) : Part(S, q.keys, i) = Part(S, n.keys, i)
      /\ Part(S, q.keys, j) = Low(Part(S, n.keys, j), s)
      /\ Part(S, q.keys, j + 1) = High(Part(S, n.keys, j), s)
      /\ \A i \in (j + 2)..(c + 2) : Part(S, q.keys, i) = Part(S, n.keys, i - 1)
  <2>1. j \in 1..(Len(n.keys) + 1) /\ q.keys = InsertAt(n.keys, j, s)
    BY <1>1 DEF IsFork
  <2>2. /\ q.keys \in Seq(Int) /\ Len(q.keys) = Len(n.keys) + 1 /\ Ascending(q.keys)
        /\ PartCut(S, q.keys, n.keys, j, s)
    <3> HIDE DEF c, id
    <3>1. QED
      BY <2>1, <1>a, <1>c, <1>1, <1>2, PartsCut
  <2>3. QED
    BY <2>2 DEF PartCut
<1>4. Inserted(q.keys, n.keys, j, s)
  <2>1. q.keys = InsertAt(n.keys, j, s) /\ j \in 1..(Len(n.keys) + 1)
    BY <1>1 DEF IsFork
  <2> HIDE DEF c, id
  <2>2. Inserted(InsertAt(n.keys, j, s), n.keys, j, s)
    BY <2>1, <1>a, <1>2, InsertAtIs
  <2>3. QED
    BY <2>1, <2>2
<1>5. /\ q.kids \in Seq(D) /\ Len(q.kids) = c + 2
      /\ Inserted(q.kids, n.kids, j + 1, new)
  <2>1. /\ q.kids \in Seq(D) /\ Len(q.kids) = Len(n.kids) + 1
        /\ Inserted(q.kids, n.kids, j + 1, new)
    <3>1. q.kids = InsertAt(n.kids, j + 1, new)
      BY DEF IsFork
    <3>2. n.kids \in Seq(D) /\ j + 1 \in 1..(Len(n.kids) + 1)
      BY <1>a, <1>1
    <3> HIDE DEF c, id
    <3>3. \A i \in 1..(Len(n.kids) + 1) :
            /\ InsertAt(n.kids, i, new) \in Seq(D) /\ Len(InsertAt(n.kids, i, new)) = Len(n.kids) + 1
            /\ Inserted(InsertAt(n.kids, i, new), n.kids, i, new)
      BY <1>a, InsertAtIs
    <3>4. QED
      BY <3>1, <3>2, <3>3
  <2>2. QED
    BY <2>1, <1>1
<1> HIDE DEF c, id
<1>6. Within(q.keys, S)
  <2>1. \A i \in 1..c : n.keys[i] \in S
    BY <1>1 DEF Within, c
  <2>2. ASSUME NEW i \in 1..(c + 1) PROVE q.keys[i] \in S
    <3>1. i < j => i \in 1..c
      BY <1>1
    <3>2. i > j => i - 1 \in 1..c
      BY <1>1
    <3>3. q.keys[i] = IF i < j THEN n.keys[i] ELSE IF i = j THEN s ELSE n.keys[i - 1]
      BY <1>1, <1>4 DEF Inserted, c
    <3>4. i < j \/ i = j \/ i > j
      BY <1>1
    <3>5. QED
      BY <3>1, <3>2, <3>3, <3>4, <2>1, <1>2
  <2>3. QED
    BY <2>2, <1>3 DEF Within
<1>7. \A i \in 1..(c + 2) : q.kids[i] = IF i < j + 1 THEN n.kids[i] ELSE IF i = j + 1 THEN new ELSE n.kids[i - 1]
  BY <1>1, <1>5 DEF Inserted
<1>8. \A i \in 1..(c + 1) : i # j => seen2[n.kids[i]] = Part(S, n.keys, i)
  BY <1>b, <1>1
<1>9. ASSUME NEW i \in 1..(c + 2)
      PROVE  /\ level[q.kids[i]] < h /\ level[q.kids[i]] = h - 1
             /\ seen2[q.kids[i]] = Part(S, q.keys, i) /\ Part(S, q.keys, i) # {}
  <2>1. CASE i < j
    <3>1. i \in 1..(j - 1) /\ i \in 1..(c + 1) /\ i < j + 1 /\ i # j
      BY <2>1, <1>1
    <3>2. QED
      BY <3>1, <1>1, <1>3, <1>7, <1>8
  <2>2. CASE i = j
    <3>1. q.kids[i] = id /\ i \in 1..(c + 1)
      BY <2>2, <1>1, <1>7 DEF id
    <3>2. x \in Part(S, q.keys, i)
      BY <2>2, <1>c, <1>2, <1>3 DEF Low
    <3>3. QED
      BY <3>1, <3>2, <2>2, <1>b, <1>1, <1>3 DEF id
  <2>3. CASE i = j + 1
    <3>1. q.kids[i] = new
      BY <2>3, <1>1, <1>7
    <3>2. s \in Part(S, q.keys, i)
      BY <2>3, <1>2, <1>3 DEF High
    <3>3. QED
      BY <3>1, <3>2, <2>3, <1>b, <1>1, <1>3 DEF id
  <2>4. CASE i > j + 1
    <3>1. i \in (j + 2)..(c + 2) /\ i - 1 \in 1..(c + 1) /\ ~(i < j + 1) /\ i # j + 1 /\ i - 1 # j
      BY <2>4, <1>1, SMTT(30)
    <3>2. QED
      BY <3>1, <1>1, <1>3, <1>7, <1>8
  <2>5. i < j \/ i = j \/ i = j + 1 \/ i > j + 1
    BY <1>1
  <2>6. QED
    BY <2>1, <2>2, <2>3, <2>4, <2>5
<1>10. QED
  BY <1>1, <1>3, <1>5, <1>6, <1>9, SMTT(20) DEF ForkFits, IsFork, Keyed, c

\* Two children of n were merged: q is n without the key between them.
LosesKey(q, n, j, D, S, h, seen, seen2, level) ==
  /\ Keyed(n, D) /\ S \in SUBSET Int /\ S # {} /\ ForkFits(n, S, h, seen, level)
  /\ j \in 1..Len(n.keys) /\ KidsMerged(n, j, seen, seen2)
  /\ IsFork(q, RemoveAt(n.keys, j), RemoveAt(n.kids, j + 1))

LEMMA ForkRemove ==
  ASSUME NEW q, NEW n, NEW j, NEW D, NEW S, NEW h, NEW seen, NEW seen2, NEW level,
         LosesKey(q, n, j, D, S, h, seen, seen2, level)
  PROVE  /\ ForkFits(q, S, h, seen2, level) /\ Keyed(q, D)
         /\ Len(q.keys) = Len(n.keys) - 1
<1>z. /\ Keyed(n, D) /\ S \in SUBSET Int /\ S # {} /\ ForkFits(n, S, h, seen, level)
      /\ j \in 1..Len(n.keys) /\ KidsMerged(n, j, seen, seen2)
      /\ IsFork(q, RemoveAt(n.keys, j), RemoveAt(n.kids, j + 1))
  BY DEF LosesKey
<1> DEFINE c == Len(n.keys)
<1>a. n.keys \in Seq(Int) /\ n.kids \in Seq(D)
  BY <1>z DEF Keyed
<1>b. /\ seen2[n.kids[j]] = seen[n.kids[j]] \cup seen[n.kids[j + 1]]
      /\ \A i \in 1..Len(n.kids) : i # j /\ i # j + 1 => seen2[n.kids[i]] = seen[n.kids[i]]
  BY <1>z DEF KidsMerged
<1>1. /\ c \in Nat /\ Len(n.kids) = c + 1 /\ j \in 1..c /\ j + 1 \in 1..Len(n.kids) /\ j \in 1..Len(n.kids)
      /\ Ascending(n.keys) /\ Within(n.keys, S)
      /\ \A i \in 1..(c + 1) : /\ level[n.kids[i]] < h /\ level[n.kids[i]] = h - 1
                               /\ seen[n.kids[i]] = Part(S, n.keys, i) /\ Part(S, n.keys, i) # {}
  <2>1. Len(n.keys) \in Nat
    BY <1>a, SeqFacts
  <2>2. Len(n.kids) = Len(n.keys) + 1
    BY <1>z DEF ForkFits
  <2>3. c \in Nat /\ Len(n.kids) = c + 1 /\ j \in 1..c /\ j + 1 \in 1..(c + 1) /\ j \in 1..(c + 1)
    BY <1>z, <2>1, <2>2
  <2> HIDE DEF c
  <2>4. /\ Ascending(n.keys) /\ Within(n.keys, S)
        /\ \A i \in 1..(c + 1) : /\ level[n.kids[i]] < h /\ level[n.kids[i]] = h - 1
                                 /\ seen[n.kids[i]] = Part(S, n.keys, i) /\ Part(S, n.keys, i) # {}
    BY <1>z, <2>3 DEF ForkFits
  <2>5. QED
    BY <2>3, <2>4
<1>2. PICK x \in Part(S, n.keys, j) : TRUE
  BY <1>1
<1>3. /\ q.keys \in Seq(Int) /\ Len(q.keys) = c - 1 /\ Ascending(q.keys) /\ Within(q.keys, S)
      /\ \A i \in 1..(j - 1) : Part(S, q.keys, i) = Part(S, n.keys, i)
      /\ Part(S, q.keys, j) = Part(S, n.keys, j) \cup Part(S, n.keys, j + 1)
      /\ \A i \in (j + 1)..c : Part(S, q.keys, i) = Part(S, n.keys, i + 1)
  <2>1. q.keys = RemoveAt(n.keys, j) /\ S \in SUBSET Int /\ j \in 1..Len(n.keys)
    BY <1>z DEF IsFork
  <2>2. /\ q.keys \in Seq(Int) /\ Len(q.keys) = Len(n.keys) - 1 /\ Ascending(q.keys)
        /\ Within(q.keys, S) /\ PartsJoined(S, q.keys, n.keys, j)
    <3> HIDE DEF c
    <3>1. QED
      BY <2>1, <1>a, <1>1, <1>2, PartsJoin
  <2>3. QED
    BY <2>2 DEF PartsJoined
<1>4. /\ q.kids \in Seq(D) /\ Len(q.kids) = c
      /\ Removed(q.kids, n.kids, j + 1)
  <2>1. /\ q.kids \in Seq(D) /\ Len(q.kids) = Len(n.kids) - 1
        /\ Removed(q.kids, n.kids, j + 1)
    <3>1. q.kids = RemoveAt(n.kids, j + 1)
      BY <1>z DEF IsFork
    <3>2. j + 1 \in 1..Len(n.kids)
      BY <1>1
    <3> HIDE DEF c
    <3>3. QED
      BY <1>a, <3>1, <3>2, RemoveAtIs
  <2>2. QED
    BY <2>1, <1>1
<1> HIDE DEF c
<1>5. \A i \in 1..c : q.kids[i] = IF i < j + 1 THEN n.kids[i] ELSE n.kids[i + 1]
  BY <1>1, <1>4 DEF Removed
<1>6. ASSUME NEW i \in 1..c
      PROVE  /\ level[q.kids[i]] < h /\ level[q.kids[i]] = h - 1
             /\ seen2[q.kids[i]] = Part(S, q.keys, i) /\ Part(S, q.keys, i) # {}
  <2>1. CASE i < j
    <3>1. i \in 1..(j - 1) /\ i \in 1..(c + 1) /\ i < j + 1 /\ i # j /\ i # j + 1
      BY <2>1, <1>1
    <3>2. q.kids[i] = n.kids[i] /\ Part(S, q.keys, i) = Part(S, n.keys, i)
      BY <3>1, <1>3, <1>5
    <3>3. seen2[n.kids[i]] = seen[n.kids[i]]
      BY <3>1, <1>b, <1>1
    <3>4. QED
      BY <3>1, <3>2, <3>3, <1>1
  <2>2. CASE i = j
    <3>1. q.kids[i] = n.kids[j] /\ j \in 1..(c + 1) /\ j + 1 \in 1..(c + 1)
      BY <2>2, <1>1, <1>5
    <3>2. QED
      BY <3>1, <2>2, <1>b, <1>1, <1>3
  <2>3. CASE i > j
    <3>1. i \in (j + 1)..c /\ i + 1 \in 1..(c + 1) /\ ~(i < j + 1) /\ i + 1 # j /\ i + 1 # j + 1
      BY <2>3, <1>1
    <3>2. q.kids[i] = n.kids[i + 1] /\ Part(S, q.keys, i) = Part(S, n.keys, i + 1)
      BY <3>1, <1>3, <1>5
    <3>3. seen2[n.kids[i + 1]] = seen[n.kids[i + 1]]
      BY <3>1, <1>b, <1>1
    <3>4. QED
      BY <3>1, <3>2, <3>3, <1>1
  <2>4. i < j \/ i = j \/ i > j
    BY <1>1
  <2>5. QED
    BY <2>1, <2>2, <2>3, <2>4
<1>7. QED
  BY <1>z, <1>1, <1>3, <1>4, <1>6 DEF ForkFits, IsFork, Keyed, c

LEMMA ReplacedIs ==
  ASSUME NEW T, NEW s \in Seq(T), NEW j \in 1..Len(s), NEW e \in T
  PROVE  InsertAt(RemoveAt(s, j), j, e) = [s EXCEPT ![j] = e]
<1> DEFINE c == Len(s)
           r == RemoveAt(s, j)
           t == InsertAt(r, j, e)
<1>1. c \in Nat /\ j \in 1..c /\ s \in [1..c -> T] /\ \A i \in 1..c : s[i] \in T
  BY SeqFacts
<1>2. r \in Seq(T) /\ Len(r) = c - 1 /\ Removed(r, s, j)
  BY RemoveAtIs
<1> HIDE DEF r
<1>3. j \in 1..(Len(r) + 1) /\ Len(r) + 1 = c
  BY <1>1, <1>2
<1>4. t \in Seq(T) /\ Len(t) = Len(r) + 1 /\ Inserted(t, r, j, e)
  BY <1>2, <1>3, InsertAtIs
<1> HIDE DEF t, c
<1>5. t \in [1..c -> T]
  BY <1>3, <1>4, SeqFacts
<1>6. ASSUME NEW i \in 1..c PROVE t[i] = IF i = j THEN e ELSE s[i]
  <2>1. t[i] = IF i < j THEN r[i] ELSE IF i = j THEN e ELSE r[i - 1]
    BY <1>3, <1>4 DEF Inserted
  <2>2. CASE i < j
    <3>1. i \in 1..(c - 1) /\ i # j
      BY <2>2, <1>1
    <3>2. r[i] = s[i]
      BY <3>1, <2>2, <1>2 DEF Removed, c
    <3>3. QED
      BY <3>1, <3>2, <2>1, <2>2
  <2>3. CASE i = j
    BY <2>1, <2>3, <1>1
  <2>4. CASE i > j
    <3>1. i - 1 \in 1..(c - 1) /\ i # j /\ ~(i < j) /\ ~(i - 1 < j) /\ (i - 1) + 1 = i
      BY <2>4, <1>1
    <3>2. r[i - 1] = s[(i - 1) + 1]
      BY <3>1, <1>2 DEF Removed, c
    <3>3. QED
      BY <3>1, <3>2, <2>1
  <2>5. i < j \/ i = j \/ i > j
    BY <1>1
  <2>6. QED
    BY <2>2, <2>3, <2>4, <2>5
<1>7. t = [s EXCEPT ![j] = e]
  BY <1>1, <1>5, <1>6
<1>8. QED
  BY <1>7 DEF t, r

\* A key moved between two children: the key between them is another.
LEMMA ForkReplace ==
  ASSUME NEW D, NEW n, Keyed(n, D),
         NEW S \in SUBSET Int, S # {}, NEW h, NEW seen, NEW level, ForkFits(n, S, h, seen, level),
         NEW j \in 1..Len(n.keys), NEW s, NEW seen2, KidsMoved(n, j, s, seen, seen2),
         NEW q, IsFork(q, [n.keys EXCEPT ![j] = s], n.kids)
  PROVE  /\ ForkFits(q, S, h, seen2, level) /\ Keyed(q, D)
         /\ Len(q.keys) = Len(n.keys)
<1> DEFINE U == seen[n.kids[j]] \cup seen[n.kids[j + 1]]
           c == Len(n.keys)
           mid == [keys |-> RemoveAt(n.keys, j), kids |-> RemoveAt(n.kids, j + 1), locs |-> << >>]
           seen3 == [d \in D |-> IF d = n.kids[j] THEN U ELSE seen[d]]
           id == n.kids[j]
           new == n.kids[j + 1]
<1>a. n.keys \in Seq(Int) /\ n.kids \in Seq(D)
  BY DEF Keyed
<1>b. /\ s \in U /\ seen2[n.kids[j]] = Low(U, s) /\ seen2[n.kids[j + 1]] = High(U, s)
      /\ \A i \in 1..Len(n.kids) : i # j /\ i # j + 1 => seen2[n.kids[i]] = seen[n.kids[i]]
  BY DEF KidsMoved
<1>c. PICK x \in U : x < s
  BY DEF KidsMoved
<1>1. c \in Nat /\ Len(n.kids) = c + 1 /\ j \in 1..c
  BY <1>a, SeqFacts DEF ForkFits
<1>2. j \in 1..(c + 1) /\ j + 1 \in 1..(c + 1) /\ j # j + 1
  BY <1>1
<1>3. /\ id \in D /\ new \in D /\ \A i \in 1..(c + 1) : n.kids[i] \in D
  BY <1>a, <1>1, <1>2, SeqFacts
<1>4. \A i, l \in 1..(c + 1) : n.kids[i] = n.kids[l] => i = l
  BY <1>a, <1>1, KidsDiffer
<1>5. /\ level[id] = h - 1 /\ level[new] = h - 1
      /\ seen[id] = Part(S, n.keys, j) /\ seen[new] = Part(S, n.keys, j + 1)
  BY <1>1, <1>2 DEF ForkFits
<1>6. seen3[id] = U /\ \A i \in 1..(c + 1) : i # j /\ i # j + 1 => seen3[n.kids[i]] = seen[n.kids[i]]
  BY <1>2, <1>3, <1>4
<1>7. IsFork(mid, RemoveAt(n.keys, j), RemoveAt(n.kids, j + 1))
  BY DEF IsFork
<1> HIDE DEF mid, seen3
<1>8. /\ ForkFits(mid, S, h, seen3, level) /\ Keyed(mid, D)
      /\ Len(mid.keys) = c - 1
  <2>2. KidsMerged(n, j, seen, seen3)
    BY <1>1, <1>6 DEF KidsMerged
  <2> HIDE DEF id, new, c
  <2>1. LosesKey(mid, n, j, D, S, h, seen, seen3, level)
    BY <2>2, <1>7 DEF LosesKey
  <2>3. /\ ForkFits(mid, S, h, seen3, level) /\ Keyed(mid, D)
        /\ Len(mid.keys) = Len(n.keys) - 1
    BY <2>1, ForkRemove
  <2>4. QED
    BY <2>3 DEF c
<1>9. Len(mid.kids) = c /\ \A i \in 1..c : mid.kids[i] = IF i < j + 1 THEN n.kids[i] ELSE n.kids[i + 1]
  <2>1. Len(mid.kids) = Len(n.kids) - 1 /\ Removed(mid.kids, n.kids, j + 1)
    <3>1. mid.kids = RemoveAt(n.kids, j + 1)
      BY <1>7 DEF IsFork
    <3>2. n.kids \in Seq(D) /\ j + 1 \in 1..Len(n.kids)
      BY <1>a, <1>1, <1>2
    <3> HIDE DEF c, id, new, U
    <3>3. QED
      BY <3>1, <3>2, RemoveAtIs
  <2>2. Len(n.kids) - 1 = c
    BY <1>1
  <2>3. QED
    BY <2>1, <2>2 DEF Removed
<1>10. j \in 1..Len(mid.kids) /\ mid.kids[j] = id
  BY <1>1, <1>9
<1>11. \A i \in 1..c : mid.kids[i] # new
  <2>1. TAKE i \in 1..c
  <2>2. CASE i < j + 1
    <3>1. i \in 1..(c + 1) /\ i # j + 1
      BY <2>2, <1>1
    <3>2. QED
      BY <3>1, <2>2, <1>2, <1>4, <1>9
  <2>3. CASE ~(i < j + 1)
    <3>1. i + 1 \in 1..(c + 1) /\ i + 1 # j + 1
      BY <2>3, <1>1
    <3>2. QED
      BY <3>1, <2>3, <1>2, <1>4, <1>9
  <2>4. QED
    BY <2>2, <2>3
<1>12. \A i \in 1..c : mid.kids[i] # id => seen2[mid.kids[i]] = seen3[mid.kids[i]]
  <2>1. TAKE i \in 1..c
  <2>2. PICK l \in 1..(c + 1) : mid.kids[i] = n.kids[l]
    <3>1. i \in 1..(c + 1) /\ i + 1 \in 1..(c + 1)
      BY <1>1
    <3>2. QED
      BY <3>1, <1>9
  <2>3. l # j + 1
    BY <2>2, <1>11
  <2>4. QED
    BY <2>2, <2>3, <1>b, <1>1, <1>6
<1>13. InsertAt(mid.keys, j, s) = q.keys /\ InsertAt(mid.kids, j + 1, new) = n.kids
  <2>1. s \in Int
    BY <1>b, <1>5 DEF Part
  <2>2. InsertAt(RemoveAt(n.keys, j), j, s) = [n.keys EXCEPT ![j] = s]
    <3>1. \A T : n.keys \in Seq(T) /\ s \in T => InsertAt(RemoveAt(n.keys, j), j, s) = [n.keys EXCEPT ![j] = s]
      BY ReplacedIs
    <3>2. QED
      BY <3>1, <2>1, <1>a
  <2>3. InsertAt(RemoveAt(n.kids, j + 1), j + 1, new) = [n.kids EXCEPT ![j + 1] = new]
    <3>1. n.kids \in Seq(D) /\ j + 1 \in 1..Len(n.kids) /\ new \in D
      BY <1>a, <1>1, <1>2, <1>3
    <3> HIDE DEF c, id, new, U
    <3>2. QED
      BY <3>1, ReplacedIs
  <2>4. [n.kids EXCEPT ![j + 1] = new] = n.kids
    <3>1. n.kids \in [1..Len(n.kids) -> D]
      BY <1>a, SeqFacts
    <3>2. QED
      BY <3>1
  <2>5. QED
    BY <2>2, <2>3, <2>4, <1>7 DEF IsFork
<1>14. IsFork(q, InsertAt(mid.keys, j, s), InsertAt(mid.kids, j + 1, new))
  BY <1>13 DEF IsFork
<1>15. KidSplit(mid, j, new, s, seen3, seen2)
  <2>1. /\ seen3[mid.kids[j]] = U /\ s \in U /\ x \in U /\ x < s
        /\ seen2[mid.kids[j]] = Low(U, s) /\ seen2[new] = High(U, s)
    BY <1>b, <1>c, <1>6, <1>10
  <2>2. \A i \in 1..Len(mid.kids) : i # j => mid.kids[i] # id
    <3>1. \A i \in 1..c : i \in 1..(c + 1) /\ i + 1 \in 1..(c + 1) /\ (~(i < j + 1) => i + 1 # j)
      BY <1>1
    <3>2. QED
      BY <3>1, <1>2, <1>4, <1>9
  <2>3. \A i \in 1..Len(mid.kids) : i # j => seen2[mid.kids[i]] = seen3[mid.kids[i]]
    BY <2>2, <1>9, <1>12
  <2>4. \A i \in 1..Len(mid.kids) : mid.kids[i] # new
    BY <1>9, <1>11
  <2> HIDE DEF U, new, id
  <2>5. QED
    BY <2>1, <2>3, <2>4 DEF KidSplit
<1>16. level[new] = level[mid.kids[j]] /\ new \in D
  BY <1>3, <1>5, <1>10
<1> HIDE DEF id, new, U, c
<1>17. /\ ForkFits(q, S, h, seen2, level) /\ Keyed(q, D) /\ Len(q.keys) = Len(mid.keys) + 1
  <2>1. Keyed(mid, D) /\ ForkFits(mid, S, h, seen3, level) /\ j \in 1..Len(mid.kids)
    BY <1>8, <1>10
  <2>2. QED
    BY <2>1, <1>14, <1>15, <1>16, ForkInsert, SMTT(60)
<1>18. QED
  BY <1>1, <1>8, <1>17 DEF c

\* The keys of a leaf cut in two, and those of two leaves joined.
LEMMA LeafCut ==
  ASSUME NEW S \in SUBSET Int, NEW K \in Seq(Int), Ascending(K), Within(K, S),
         NEW A \in Seq(Int), NEW B \in Seq(Int), Joined(K, A, B), B # << >>, NEW m, m = B[1]
  PROVE  /\ Ascending(A) /\ Within(A, Low(S, m)) /\ Ascending(B) /\ Within(B, High(S, m))
         /\ m \in S
<1> DEFINE a == Len(A)
           b == Len(B)
<1>1. /\ a \in Nat /\ b \in Nat /\ b >= 1 /\ Len(K) = a + b
      /\ \A i \in 1..a : K[i] = A[i] /\ A[i] \in Int
      /\ \A i \in 1..b : K[a + i] = B[i] /\ B[i] \in Int
  BY SeqFacts, EmptySeq DEF Joined
<1>2. \A i, j \in 1..(a + b) : i < j => K[i] < K[j]
  BY <1>1 DEF Ascending
<1>3. \A i \in 1..(a + b) : K[i] \in S
  BY <1>1 DEF Within
<1> HIDE DEF a, b
<1>4. /\ \A i \in 1..a : i \in 1..(a + b) /\ i < a + 1
      /\ \A i \in 1..b : a + i \in 1..(a + b)
      /\ a + 1 \in 1..(a + b) /\ 1 \in 1..b
  BY <1>1
<1>5. m = K[a + 1] /\ m \in S /\ m \in Int
  BY <1>1, <1>3, <1>4
<1>6. \A i \in 1..a : A[i] \in S /\ A[i] < m
  BY <1>1, <1>2, <1>3, <1>4, <1>5
<1>7. \A i \in 1..b : B[i] \in S /\ m <= B[i]
  <2>1. TAKE i \in 1..b
  <2>2. i = 1 \/ a + 1 < a + i
    BY <1>1
  <2>3. m = B[i] \/ m < B[i]
    BY <2>2, <1>1, <1>2, <1>4, <1>5
  <2>4. QED
    BY <2>3, <1>1, <1>3, <1>4, <1>5, SMTT(20)
<1>8. /\ \A i, j \in 1..a : i < j => A[i] < A[j]
      /\ \A i, j \in 1..b : i < j => B[i] < B[j]
  <2>1. \A i, j \in 1..b : i < j => a + i < a + j
    BY <1>1
  <2>2. QED
    BY <2>1, <1>1, <1>2, <1>4
<1>9. QED
  BY <1>5, <1>6, <1>7, <1>8 DEF Ascending, Within, Low, High, a, b

LEMMA LeafJoin ==
  ASSUME NEW S \in SUBSET Int, NEW m \in Int, NEW K \in Seq(Int), NEW A \in Seq(Int), NEW B \in Seq(Int),
         Joined(K, A, B), Ascending(A), Within(A, Low(S, m)), Ascending(B), Within(B, High(S, m))
  PROVE  Ascending(K) /\ Within(K, S)
<1> DEFINE a == Len(A)
           b == Len(B)
<1>1. /\ a \in Nat /\ b \in Nat /\ Len(K) = a + b
      /\ \A i \in 1..a : K[i] = A[i] /\ A[i] \in Int /\ A[i] \in S /\ A[i] < m
      /\ \A i \in 1..b : K[a + i] = B[i] /\ B[i] \in Int /\ B[i] \in S /\ m <= B[i]
  BY SeqFacts DEF Joined, Within, Low, High
<1>2. /\ \A i, j \in 1..a : i < j => A[i] < A[j]
      /\ \A i, j \in 1..b : i < j => B[i] < B[j]
  BY DEF Ascending
<1> HIDE DEF a, b
<1>3. \A i \in 1..(a + b) : i \in 1..a \/ (i - a \in 1..b /\ a + (i - a) = i)
  BY <1>1
<1>4. ASSUME NEW i \in 1..(a + b), NEW j \in 1..(a + b), i < j PROVE K[i] < K[j]
  <2>1. CASE i \in 1..a /\ j \in 1..a
    BY <2>1, <1>1, <1>2, <1>4
  <2>2. CASE i \in 1..a /\ ~(j \in 1..a)
    <3>1. K[j] = B[j - a] /\ j - a \in 1..b
      BY <2>2, <1>1, <1>3
    <3>2. m <= K[j] /\ K[j] \in Int /\ K[i] < m /\ K[i] \in Int
      BY <3>1, <2>2, <1>1
    <3>3. QED
      BY <3>2
  <2>3. CASE ~(i \in 1..a)
    <3>1. i - a \in 1..b /\ j - a \in 1..b /\ i - a < j - a /\ a + (i - a) = i /\ a + (j - a) = j
      BY <2>3, <1>1, <1>4
    <3>2. K[i] = B[i - a] /\ K[j] = B[j - a]
      BY <3>1, <1>1
    <3>3. QED
      BY <3>1, <3>2, <1>2
  <2>4. QED
    BY <2>1, <2>2, <2>3
<1>5. \A i \in 1..(a + b) : K[i] \in S
  BY <1>1, <1>3
<1>6. QED
  BY <1>1, <1>4, <1>5 DEF Ascending, Within

-----------------------------------------------------------------------------
(* Spans next to each other.                                               *)

LEMMA AdjacentLow ==
  ASSUME NEW X \in SUBSET Keys, NEW S \in SUBSET Keys, Adjacent(X, S), NEW m \in Int
  PROVE  Adjacent(X, Low(S, m))
<1>1. Before(X, S) /\ Convex(X \cup S) /\ Keys \subseteq Int
  BY KeysAreInts DEF Adjacent
<1>2. Before(X, Low(S, m))
  BY <1>1 DEF Before, Low
<1>3. ASSUME NEW x \in X \cup Low(S, m), NEW y \in X \cup Low(S, m), NEW k \in Keys, x <= k, k <= y
      PROVE  k \in X \cup Low(S, m)
  <2>1. x \in Int /\ y \in Int /\ k \in Int
    BY <1>1 DEF Low
  <2>2. k \in X \cup S
    BY <1>1, <1>3 DEF Convex, Low
  <2>3. k \in S /\ y \in X => y < k
    BY <1>1 DEF Before
  <2>4. y \in Low(S, m) => y < m
    BY DEF Low
  <2>5. QED
    BY <2>1, <2>2, <2>3, <2>4, <1>3 DEF Low
<1>4. QED
  BY <1>2, <1>3 DEF Adjacent, Convex

LEMMA AdjacentHigh ==
  ASSUME NEW S \in SUBSET Keys, NEW Y \in SUBSET Keys, Adjacent(S, Y), NEW m \in Int
  PROVE  Adjacent(High(S, m), Y)
<1>1. Before(S, Y) /\ Convex(S \cup Y) /\ Keys \subseteq Int
  BY KeysAreInts DEF Adjacent
<1>2. Before(High(S, m), Y)
  BY <1>1 DEF Before, High
<1>3. ASSUME NEW x \in High(S, m) \cup Y, NEW y \in High(S, m) \cup Y, NEW k \in Keys, x <= k, k <= y
      PROVE  k \in High(S, m) \cup Y
  <2>1. x \in Int /\ y \in Int /\ k \in Int
    BY <1>1 DEF High
  <2>2. k \in S \cup Y
    BY <1>1, <1>3 DEF Convex, High
  <2>3. k \in S /\ x \in Y => k < x
    BY <1>1 DEF Before
  <2>4. x \in High(S, m) => m <= x
    BY DEF High
  <2>5. QED
    BY <2>1, <2>2, <2>3, <2>4, <1>3 DEF High
<1>4. QED
  BY <1>2, <1>3 DEF Adjacent, Convex

LEMMA HalvesAre ==
  ASSUME NEW S \in SUBSET Keys, NEW m \in Int
  PROVE  /\ Low(S, m) \cup High(S, m) = S /\ Low(S, m) \cap High(S, m) = {}
         /\ Low(S, m) \in SUBSET Keys /\ High(S, m) \in SUBSET Keys
         /\ Convex(S) => /\ Convex(Low(S, m)) /\ Convex(High(S, m))
                         /\ Adjacent(Low(S, m), High(S, m))
<1>1. \A k \in S : k \in Int
  BY KeysAreInts
<1>2. \A k \in S : (k < m \/ m <= k) /\ ~(k < m /\ m <= k)
  BY <1>1
<1>3. Low(S, m) \cup High(S, m) = S /\ Low(S, m) \cap High(S, m) = {}
  BY <1>2 DEF Low, High
<1>4. ASSUME Convex(S) PROVE Convex(Low(S, m)) /\ Convex(High(S, m)) /\ Adjacent(Low(S, m), High(S, m))
  <2>1. Before(Low(S, m), High(S, m))
    <3>1. \A x, y \in S : x < m /\ m <= y => x < y
      BY <1>1
    <3>2. QED
      BY <3>1 DEF Before, Low, High
  <2>2. \A x, y \in S, k \in Keys : x <= k /\ k <= y => /\ y < m => k < m
                                                        /\ m <= x => m <= k
    BY KeysAreInts
  <2>3. QED
    BY <2>1, <2>2, <1>3, <1>4 DEF Convex, Adjacent, Low, High
<1>5. QED
  BY <1>3, <1>4 DEF Low, High

LEMMA AdjacentJoined ==
  ASSUME NEW A \in SUBSET Keys, NEW B \in SUBSET Keys, NEW C \in SUBSET Keys, B # {},
         Adjacent(A, B), Adjacent(B, C)
  PROVE  Adjacent(A, B \cup C) /\ Adjacent(A \cup B, C)
<1>1. Before(A, B) /\ Before(B, C) /\ Convex(A \cup B) /\ Convex(B \cup C) /\ Keys \subseteq Int
  BY KeysAreInts DEF Adjacent
<1>2. PICK w \in B : w \in Keys
  OBVIOUS
<1>3. \A x \in A, y \in C : x < w /\ w < y /\ x < y
  BY <1>1, <1>2 DEF Before
<1>4. Before(A, B \cup C) /\ Before(A \cup B, C)
  BY <1>1, <1>3 DEF Before
<1>5. ASSUME NEW x \in (A \cup B) \cup C, NEW y \in (A \cup B) \cup C, NEW k \in Keys, x <= k, k <= y
      PROVE  k \in (A \cup B) \cup C
  <2>1. x \in Int /\ y \in Int /\ k \in Int /\ w \in Int
    BY <1>1, <1>2
  <2>2. CASE x \in A \cup B /\ y \in A \cup B
    BY <2>2, <1>1, <1>5 DEF Convex
  <2>3. CASE x \in B \cup C /\ y \in B \cup C
    BY <2>3, <1>1, <1>5 DEF Convex
  <2>4. CASE x \in A /\ y \in C
    <3>1. CASE k <= w
      BY <3>1, <2>4, <1>1, <1>2, <1>5 DEF Convex
    <3>2. CASE w <= k
      BY <3>2, <2>4, <1>1, <1>2, <1>5 DEF Convex
    <3>3. QED
      BY <3>1, <3>2, <2>1
  <2>5. CASE x \in C /\ y \in A
    BY <2>5, <2>1, <1>3, <1>5
  <2>6. QED
    BY <2>2, <2>3, <2>4, <2>5
<1>6. Convex(A \cup (B \cup C)) /\ Convex((A \cup B) \cup C)
  <2>1. A \cup (B \cup C) = (A \cup B) \cup C
    OBVIOUS
  <2>2. QED
    BY <2>1, <1>5 DEF Convex
<1>7. QED
  BY <1>4, <1>6 DEF Adjacent

LEMMA EndJoined ==
  ASSUME NEW A \in SUBSET Keys, NEW B \in SUBSET Keys, B # {}, Adjacent(A, B), AtEnd(B)
  PROVE  AtEnd(A \cup B)
<1>1. Convex(A \cup B) /\ Keys \subseteq Int
  BY KeysAreInts DEF Adjacent
<1>2. PICK w \in B : w \in Keys
  OBVIOUS
<1>3. ASSUME NEW x \in A \cup B, NEW k \in Keys, x <= k PROVE k \in A \cup B
  <2>1. k \in Int /\ w \in Int
    BY <1>1, <1>2
  <2>2. CASE k <= w
    BY <2>2, <1>1, <1>2, <1>3 DEF Convex
  <2>3. CASE w <= k
    BY <2>3, <1>2 DEF AtEnd
  <2>4. QED
    BY <2>1, <2>2, <2>3
<1>4. QED
  BY <1>3 DEF AtEnd

LEMMA EndHigh ==
  ASSUME NEW S \in SUBSET Keys, AtEnd(S), NEW m \in Int
  PROVE  AtEnd(High(S, m))
<1>1. \A x, k \in Keys : m <= x /\ x <= k => m <= k
  BY KeysAreInts
<1>2. QED
  BY <1>1 DEF AtEnd, High

\* Of two leaves whose spans are next to each other the first leads to the
\* second.
LEMMA NextIs ==
  ASSUME NEW ns, NEW seen, NEW span, NEW level, Shape(ns, seen, span, level),
         NEW a, NEW b, LiveLeaf(ns, span, a), LiveLeaf(ns, span, b), Adjacent(span[a], span[b])
  PROVE  ns[a].next = b
<1>1. /\ a \in 1..Len(ns) /\ b \in 1..Len(ns) /\ ns[a].leaf /\ ns[b].leaf
      /\ span[a] # {} /\ span[b] # {}
  BY DEF LiveLeaf
<1>2. /\ span \in [1..Len(ns) -> SUBSET Keys] /\ level \in [1..Len(ns) -> Nat]
      /\ \A id \in 1..Len(ns) : ns[id].leaf /\ span[id] # {} => level[id] = 0
  BY ShapeFacts
<1>3. \A c, d \in 1..Len(ns) : c # d /\ level[c] = level[d] => span[c] \cap span[d] = {}
  BY <1>2 DEF Shape, Apart
<1>4. PICK l \in span[a], z \in span[b] : l \in Keys /\ z \in Keys
  BY <1>1, <1>2
<1>5. Before(span[a], span[b]) /\ Convex(span[a] \cup span[b]) /\ l < z /\ Keys \subseteq Int
  BY <1>4, KeysAreInts DEF Adjacent, Before
<1>6. LinkFits(ns, span, a)
  BY <1>1 DEF Shape, Linked
<1>7. ns[a].next # NoLeaf
  <2>1. ASSUME ns[a].next = NoLeaf PROVE FALSE
    <3>1. AtEnd(span[a])
      BY <2>1, <1>6 DEF LinkFits
    <3>2. l \in Int /\ z \in Int /\ l <= z
      BY <1>4, <1>5
    <3>3. z \in span[a]
      BY <3>1, <3>2, <1>4 DEF AtEnd
    <3>4. z < z
      BY <3>3, <1>4, <1>5 DEF Before
    <3>5. QED
      BY <3>2, <3>4
  <2>2. QED
    BY <2>1
<1> DEFINE x == ns[a].next
<1>8. LiveLeaf(ns, span, x) /\ Adjacent(span[a], span[x])
  BY <1>6, <1>7 DEF LinkFits
<1> HIDE DEF x
<1>9. x \in 1..Len(ns) /\ span[x] # {} /\ ns[x].leaf
  BY <1>8 DEF LiveLeaf
<1>10. PICK y \in span[x] : y \in Keys
  BY <1>9, <1>2
<1>11. Before(span[a], span[x]) /\ Convex(span[a] \cup span[x]) /\ l < y
  BY <1>4, <1>8, <1>10 DEF Adjacent, Before
<1>12. ASSUME x # b PROVE FALSE
  <2>1. level[x] = 0 /\ level[b] = 0
    BY <1>1, <1>2, <1>9
  <2>2. span[x] \cap span[b] = {}
    BY <2>1, <1>12, <1>1, <1>3, <1>9
  <2>3. y \in Int /\ z \in Int /\ l \in Int
    BY <1>4, <1>5, <1>10
  <2>4. CASE y < z
    <3>1. y \in span[a] \cup span[b]
      BY <2>3, <2>4, <1>4, <1>5, <1>10, <1>11 DEF Convex
    <3>2. y \in span[a] => y < y
      BY <1>10, <1>11 DEF Before
    <3>3. QED
      BY <3>1, <3>2, <2>2, <2>3, <1>10
  <2>5. CASE z < y
    <3>1. z \in span[a] \cup span[x]
      BY <2>3, <2>5, <1>4, <1>5, <1>10, <1>11 DEF Convex
    <3>2. z \in span[a] => z < z
      BY <1>4, <1>5 DEF Before
    <3>3. QED
      BY <3>1, <3>2, <2>2, <2>3, <1>4
  <2>6. CASE y = z
    BY <2>6, <2>2, <1>4, <1>10
  <2>7. QED
    BY <2>3, <2>4, <2>5, <2>6
<1>13. QED
  BY <1>12 DEF x

\* A span that is not empty is not next to itself.
LEMMA NotBeforeItself ==
  ASSUME NEW S \in SUBSET Keys, S # {}
  PROVE  ~Adjacent(S, S)
<1>1. PICK x \in S : x \in Int
  BY KeysAreInts
<1>2. ~(x < x)
  BY <1>1
<1>3. QED
  BY <1>1, <1>2 DEF Adjacent, Before

-----------------------------------------------------------------------------
(* The links through the leaves.                                           *)

SameLinks(n, q) == n.leaf = q.leaf /\ n.next = q.next /\ n.prev = q.prev

\* What Linked says of a leaf, a conjunct at a time.
LEMMA LinksOf ==
  ASSUME NEW ns, NEW span, Linked(ns, span), NEW a \in 1..Len(ns)
  PROVE  /\ ~LiveLeaf(ns, span, a) => ns[a].next = NoLeaf
         /\ LiveLeaf(ns, span, a) =>
              /\ ns[a].next = NoLeaf => AtEnd(span[a])
              /\ ns[a].next # NoLeaf => /\ LiveLeaf(ns, span, ns[a].next)
                                        /\ ns[ns[a].next].prev = a
                                        /\ Adjacent(span[a], span[ns[a].next])
              /\ ns[a].prev # NoLeaf => /\ LiveLeaf(ns, span, ns[a].prev)
                                        /\ ns[ns[a].prev].next = a
BY DEF Linked, LinkFits

\* Nodes may change, and nodes that are not leaves come and go, as long as
\* the live leaves stay, each with its links and its span.
LeavesStill(ns2, span2, ns, span) ==
  \A a \in 1..Len(ns2) :
    \/ /\ a \in 1..Len(ns) /\ SameLinks(ns2[a], ns[a])
       /\ ns[a].leaf => span2[a] = span[a]
    \/ /\ ~LiveLeaf(ns, span, a) /\ ~LiveLeaf(ns2, span2, a) /\ ns2[a].next = NoLeaf

LEMMA LinkedStill ==
  ASSUME NEW ns, NEW span, Linked(ns, span), NEW ns2, NEW span2,
         Len(ns) \in Nat, Len(ns2) \in Nat, Len(ns2) >= Len(ns), LeavesStill(ns2, span2, ns, span)
  PROVE  Linked(ns2, span2)
<1> USE DEF LeavesStill
<1>1. ASSUME NEW a \in 1..Len(ns2) PROVE LiveLeaf(ns2, span2, a) <=> LiveLeaf(ns, span, a)
  BY DEF LiveLeaf, SameLinks
<1>2. ASSUME NEW a, LiveLeaf(ns, span, a)
      PROVE  a \in 1..Len(ns2) /\ SameLinks(ns2[a], ns[a]) /\ span2[a] = span[a] /\ LiveLeaf(ns2, span2, a)
  <2>1. a \in 1..Len(ns) /\ ns[a].leaf /\ a \in 1..Len(ns2)
    BY <1>2 DEF LiveLeaf
  <2>2. SameLinks(ns2[a], ns[a]) /\ span2[a] = span[a]
    BY <2>1, <1>2
  <2>3. QED
    BY <2>1, <2>2, <1>1, <1>2
<1>3. ASSUME NEW a \in 1..Len(ns2) PROVE LinkFits(ns2, span2, a)
  <2>1. CASE ~LiveLeaf(ns2, span2, a)
    <3>1. ~LiveLeaf(ns, span, a)
      BY <2>1, <1>1
    <3>2. ns2[a].next = NoLeaf
      BY <3>1, LinksOf DEF SameLinks
    <3>3. QED
      BY <3>2, <2>1 DEF LinkFits
  <2>2. CASE LiveLeaf(ns2, span2, a)
    <3>1. LiveLeaf(ns, span, a) /\ a \in 1..Len(ns)
      BY <2>2, <1>1 DEF LiveLeaf
    <3>2. /\ ns[a].next = NoLeaf => AtEnd(span[a])
          /\ ns[a].next # NoLeaf => /\ LiveLeaf(ns, span, ns[a].next)
                                    /\ ns[ns[a].next].prev = a
                                    /\ Adjacent(span[a], span[ns[a].next])
          /\ ns[a].prev # NoLeaf => /\ LiveLeaf(ns, span, ns[a].prev)
                                    /\ ns[ns[a].prev].next = a
      BY <3>1, LinksOf
    <3>3. ns2[a].next = ns[a].next /\ ns2[a].prev = ns[a].prev /\ span2[a] = span[a]
      BY <3>1, <1>2 DEF SameLinks
    <3>4. ns[a].next # NoLeaf => /\ LiveLeaf(ns2, span2, ns[a].next)
                                 /\ ns2[ns[a].next].prev = a
                                 /\ span2[ns[a].next] = span[ns[a].next]
      BY <3>2, <1>2 DEF SameLinks
    <3>5. ns[a].prev # NoLeaf => LiveLeaf(ns2, span2, ns[a].prev) /\ ns2[ns[a].prev].next = a
      BY <3>2, <1>2 DEF SameLinks
    <3>6. QED
      BY <3>2, <3>3, <3>4, <3>5, <2>2 DEF LinkFits
  <2>3. QED
    BY <2>1, <2>2
<1>4. QED
  BY <1>3 DEF Linked

\* A leaf cut in two, the right half a new leaf at the end of the file.
LeafSplit(ns2, span2, ns, span, id, m) ==
  LET right == Len(ns) + 1
      after == ns[id].next
  IN  /\ Len(ns2) = right
      /\ span2[id] = Low(span[id], m) /\ span2[right] = High(span[id], m)
      /\ span2[id] # {} /\ span2[right] # {}
      /\ ns2[id].leaf /\ ns2[id].next = right /\ ns2[id].prev = ns[id].prev
      /\ ns2[right].leaf /\ ns2[right].next = after /\ ns2[right].prev = id
      /\ after # NoLeaf => ns2[after].leaf /\ ns2[after].next = ns[after].next /\ ns2[after].prev = right
      /\ \A a \in 1..Len(ns) : a # id => /\ span2[a] = span[a]
                                         /\ a # after => SameLinks(ns2[a], ns[a])

LEMMA LinkedSplit ==
  ASSUME NEW ns, NEW span \in [1..Len(ns) -> SUBSET Keys], Linked(ns, span), Len(ns) \in Nat,
         NEW id, LiveLeaf(ns, span, id), Convex(span[id]), NEW m \in Int,
         NEW ns2, NEW span2, LeafSplit(ns2, span2, ns, span, id, m)
  PROVE  Linked(ns2, span2)
<1> DEFINE S == span[id]
           right == Len(ns) + 1
           after == ns[id].next
<1>1. id \in 1..Len(ns) /\ ns[id].leaf /\ S # {} /\ S \in SUBSET Keys
  BY DEF LiveLeaf
<1>2. /\ after = NoLeaf => AtEnd(S)
      /\ after # NoLeaf => LiveLeaf(ns, span, after) /\ ns[after].prev = id /\ Adjacent(S, span[after])
      /\ ns[id].prev # NoLeaf => LiveLeaf(ns, span, ns[id].prev) /\ ns[ns[id].prev].next = id
  BY <1>1, LinksOf
<1>3. after # id
  BY <1>1, <1>2, NotBeforeItself DEF LiveLeaf, NoLeaf
<1>4. /\ Len(ns2) = right
      /\ span2[id] = Low(S, m) /\ span2[right] = High(S, m)
      /\ span2[id] # {} /\ span2[right] # {}
      /\ ns2[id].leaf /\ ns2[id].next = right /\ ns2[id].prev = ns[id].prev
      /\ ns2[right].leaf /\ ns2[right].next = after /\ ns2[right].prev = id
      /\ after # NoLeaf => ns2[after].leaf /\ ns2[after].next = ns[after].next /\ ns2[after].prev = right
      /\ \A a \in 1..Len(ns) : a # id => /\ span2[a] = span[a]
                                         /\ a # after => SameLinks(ns2[a], ns[a])
  BY DEF LeafSplit
<1>5. Adjacent(Low(S, m), High(S, m))
  BY <1>1, HalvesAre
<1> HIDE DEF S, right, after
<1>6. right = Len(ns) + 1 /\ right # NoLeaf /\ right \notin 1..Len(ns) /\ right # id /\ right # after
      /\ id # NoLeaf /\ right \in 1..Len(ns2) /\ id \in 1..Len(ns2) /\ NoLeaf \notin 1..Len(ns)
  BY <1>1, <1>2, <1>4 DEF right, NoLeaf, LiveLeaf
<1>7. ASSUME NEW a, LiveLeaf(ns, span, a)
      PROVE  /\ LiveLeaf(ns2, span2, a) /\ a \in 1..Len(ns)
             /\ a # id => ns2[a].next = ns[a].next /\ span2[a] = span[a]
             /\ a # after => ns2[a].prev = ns[a].prev
  <2>1. a \in 1..Len(ns) /\ ns[a].leaf /\ span[a] # {} /\ a \in 1..Len(ns2)
    BY <1>4, <1>6, <1>7 DEF LiveLeaf
  <2>2. ns2[a].leaf /\ span2[a] # {}
    BY <2>1, <1>4, <1>6 DEF SameLinks
  <2>3. a # NoLeaf
    BY <2>1, <1>6
  <2>4. QED
    BY <2>1, <2>2, <2>3, <1>4, <1>6 DEF SameLinks, LiveLeaf
<1>8. LinkFits(ns2, span2, id)
  <2>1. LiveLeaf(ns2, span2, id) /\ LiveLeaf(ns2, span2, right)
    BY <1>4, <1>6 DEF LiveLeaf
  <2>2. ns[id].prev # id
    BY <1>1, <1>2, <1>3, <1>6 DEF after
  <2>3. ns[id].prev # NoLeaf => LiveLeaf(ns2, span2, ns[id].prev) /\ ns2[ns[id].prev].next = id
    BY <2>2, <1>2, <1>7
  <2>4. QED
    BY <2>1, <2>3, <1>4, <1>5, <1>6 DEF LinkFits
<1>9. LinkFits(ns2, span2, right)
  <2>1. LiveLeaf(ns2, span2, id) /\ LiveLeaf(ns2, span2, right)
    BY <1>4, <1>6 DEF LiveLeaf
  <2>2. after = NoLeaf => AtEnd(High(S, m))
    BY <1>1, <1>2, EndHigh DEF S, after
  <2>3. ASSUME after # NoLeaf
        PROVE  /\ LiveLeaf(ns2, span2, after) /\ ns2[after].prev = right
               /\ Adjacent(High(S, m), span2[after])
    <3>1. LiveLeaf(ns, span, after) /\ Adjacent(S, span[after])
      BY <2>3, <1>2 DEF S, after
    <3>2. LiveLeaf(ns2, span2, after) /\ after \in 1..Len(ns) /\ span2[after] = span[after]
      BY <3>1, <1>3, <1>7 DEF after
    <3>3. span[after] \in SUBSET Keys
      BY <3>2
    <3>4. Adjacent(High(S, m), span[after])
      BY <3>1, <3>3, <1>1, AdjacentHigh DEF S
    <3>5. QED
      BY <3>2, <3>4, <2>3, <1>4
  <2>4. QED
    BY <2>1, <2>2, <2>3, <1>4, <1>6 DEF LinkFits
<1>10. ASSUME NEW a \in 1..Len(ns), a # id PROVE LinkFits(ns2, span2, a)
  <2>1. CASE ~LiveLeaf(ns, span, a)
    <3>1. a # after
      BY <2>1, <1>2, <1>6 DEF after
    <3>2. SameLinks(ns2[a], ns[a]) /\ span2[a] = span[a]
      BY <3>1, <1>4, <1>10
    <3>3. ~LiveLeaf(ns2, span2, a) /\ ns2[a].next = NoLeaf
      BY <3>2, <2>1, LinksOf DEF LiveLeaf, SameLinks
    <3>4. QED
      BY <3>3 DEF LinkFits
  <2>2. CASE LiveLeaf(ns, span, a)
    <3>1. /\ ns[a].next = NoLeaf => AtEnd(span[a])
          /\ ns[a].next # NoLeaf => /\ LiveLeaf(ns, span, ns[a].next)
                                    /\ ns[ns[a].next].prev = a
                                    /\ Adjacent(span[a], span[ns[a].next])
          /\ ns[a].prev # NoLeaf => LiveLeaf(ns, span, ns[a].prev) /\ ns[ns[a].prev].next = a
      BY <2>2, LinksOf
    <3>2. LiveLeaf(ns2, span2, a) /\ ns2[a].next = ns[a].next /\ span2[a] = span[a]
      BY <2>2, <1>7, <1>10
    <3>3. ASSUME ns[a].next # NoLeaf
          PROVE  /\ LiveLeaf(ns2, span2, ns[a].next)
                 /\ ns2[ns[a].next].prev = a
                 /\ Adjacent(span[a], span2[ns[a].next])
      <4>1. ns[a].next # after
        BY <3>1, <3>3, <1>2, <1>10 DEF after
      <4>2. LiveLeaf(ns2, span2, ns[a].next) /\ ns2[ns[a].next].prev = a
        BY <4>1, <3>1, <3>3, <1>7
      <4>3. CASE ns[a].next = id
        <5>1. span[a] \in SUBSET Keys /\ Adjacent(span[a], S)
          BY <4>3, <3>1, <3>3 DEF S
        <5>2. Adjacent(span[a], Low(S, m))
          BY <5>1, <1>1, AdjacentLow DEF S
        <5>3. QED
          BY <5>2, <4>2, <4>3, <1>4
      <4>4. CASE ns[a].next # id
        BY <4>2, <4>4, <3>1, <3>3, <1>7
      <4>5. QED
        BY <4>3, <4>4
    <3>4. CASE a = after
      <4>1. ns2[a].prev = right /\ a # NoLeaf
        BY <3>4, <1>4, <1>6 DEF after
      <4>2. ns[a].prev = id
        BY <4>1, <3>4, <1>2 DEF after
      <4>3. LiveLeaf(ns2, span2, right) /\ ns2[right].next = a
        BY <3>4, <1>4, <1>6 DEF LiveLeaf
      <4>4. QED
        BY <4>1, <4>3, <3>1, <3>2, <3>3 DEF LinkFits
    <3>5. CASE a # after
      <4>1. ns2[a].prev = ns[a].prev
        BY <3>5, <2>2, <1>7
      <4>2. ns[a].prev # NoLeaf => ns[a].prev # id
        BY <3>1, <3>5 DEF after
      <4>3. ns[a].prev # NoLeaf => LiveLeaf(ns2, span2, ns[a].prev) /\ ns2[ns[a].prev].next = a
        BY <4>2, <3>1, <1>7
      <4>4. QED
        BY <4>1, <4>3, <3>1, <3>2, <3>3 DEF LinkFits
    <3>6. QED
      BY <3>4, <3>5
  <2>3. QED
    BY <2>1, <2>2
<1>11. \A a \in 1..Len(ns2) : a \in 1..Len(ns) \/ a = right
  BY <1>4 DEF right
<1>12. QED
  BY <1>8, <1>9, <1>10, <1>11 DEF Linked

\* Two leaves next to each other share out their keys anew.
LeavesMove(ns2, span2, ns, span, a, b, m) ==
  LET U == span[a] \cup span[b] IN
  /\ Len(ns2) = Len(ns) /\ ns[a].next = b
  /\ span2[a] = Low(U, m) /\ span2[b] = High(U, m) /\ span2[a] # {} /\ span2[b] # {}
  /\ \A id \in 1..Len(ns) : SameLinks(ns2[id], ns[id]) /\ (id \notin {a, b} => span2[id] = span[id])

LEMMA LinkedMoved ==
  ASSUME NEW ns, NEW span \in [1..Len(ns) -> SUBSET Keys], Linked(ns, span), Len(ns) \in Nat,
         NEW a, LiveLeaf(ns, span, a), NEW b, LiveLeaf(ns, span, b), NEW m \in Int,
         NEW ns2, NEW span2, LeavesMove(ns2, span2, ns, span, a, b, m)
  PROVE  Linked(ns2, span2)
<1> DEFINE U == span[a] \cup span[b]
<1>1. /\ a \in 1..Len(ns) /\ ns[a].leaf /\ span[a] # {} /\ span[a] \in SUBSET Keys
      /\ b \in 1..Len(ns) /\ ns[b].leaf /\ span[b] # {} /\ span[b] \in SUBSET Keys
      /\ U \in SUBSET Keys
  BY DEF LiveLeaf
<1>2. /\ Len(ns2) = Len(ns) /\ ns[a].next = b
      /\ span2[a] = Low(U, m) /\ span2[b] = High(U, m) /\ span2[a] # {} /\ span2[b] # {}
      /\ \A id \in 1..Len(ns) : SameLinks(ns2[id], ns[id]) /\ (id \notin {a, b} => span2[id] = span[id])
  BY DEF LeavesMove
<1>3. b # NoLeaf /\ a # NoLeaf
  BY <1>1 DEF NoLeaf
<1>4. ns[b].prev = a /\ Adjacent(span[a], span[b])
  BY <1>1, <1>2, <1>3, LinksOf
<1>5. Convex(U) /\ Adjacent(Low(U, m), High(U, m))
  BY <1>1, <1>4, HalvesAre DEF Adjacent
<1>6. \A id \in 1..Len(ns) : LiveLeaf(ns2, span2, id) <=> LiveLeaf(ns, span, id)
  BY <1>1, <1>2 DEF LiveLeaf, SameLinks
<1> HIDE DEF U
<1>7. ASSUME NEW c \in 1..Len(ns) PROVE LinkFits(ns2, span2, c)
  <2>1. ns2[c].next = ns[c].next /\ ns2[c].prev = ns[c].prev
    BY <1>2 DEF SameLinks
  <2>2. CASE ~LiveLeaf(ns, span, c)
    BY <2>1, <2>2, <1>6, LinksOf DEF LinkFits
  <2>3. CASE LiveLeaf(ns, span, c)
    <3>1. /\ ns[c].next = NoLeaf => AtEnd(span[c])
          /\ ns[c].next # NoLeaf => /\ LiveLeaf(ns, span, ns[c].next)
                                    /\ ns[ns[c].next].prev = c
                                    /\ Adjacent(span[c], span[ns[c].next])
          /\ ns[c].prev # NoLeaf => LiveLeaf(ns, span, ns[c].prev) /\ ns[ns[c].prev].next = c
      BY <2>3, LinksOf
    <3>2. ns[c].prev # NoLeaf => LiveLeaf(ns2, span2, ns[c].prev) /\ ns2[ns[c].prev].next = c
      <4>1. ns[c].prev # NoLeaf => ns[c].prev \in 1..Len(ns)
        BY <3>1 DEF LiveLeaf
      <4>2. QED
        BY <4>1, <3>1, <1>2, <1>6 DEF SameLinks
    <3>3. ns[c].next # NoLeaf => LiveLeaf(ns2, span2, ns[c].next) /\ ns2[ns[c].next].prev = c
      <4>1. ns[c].next # NoLeaf => ns[c].next \in 1..Len(ns)
        BY <3>1 DEF LiveLeaf
      <4>2. QED
        BY <4>1, <3>1, <1>2, <1>6 DEF SameLinks
    <3>4. LiveLeaf(ns2, span2, c)
      BY <2>3, <1>6
    <3>5. SUFFICES IF ns[c].next = NoLeaf THEN AtEnd(span2[c])
                   ELSE Adjacent(span2[c], span2[ns[c].next])
      BY <2>1, <3>2, <3>3, <3>4 DEF LinkFits
    <3>6. CASE c = a
      BY <3>6, <1>2, <1>3, <1>5
    <3>7. CASE c = b
      <4>1. CASE ns[c].next = NoLeaf
        <5>1. AtEnd(U)
          BY <4>1, <3>1, <3>7, <1>1, <1>4, EndJoined DEF U
        <5>2. AtEnd(High(U, m))
          BY <5>1, <1>1, EndHigh
        <5>3. QED
          BY <5>2, <4>1, <3>7, <1>2
      <4>2. CASE ns[c].next # NoLeaf
        <5> DEFINE d == ns[c].next
        <5>1. LiveLeaf(ns, span, d) /\ Adjacent(span[b], span[d]) /\ ns[d].prev = b
          BY <4>2, <3>1, <3>7
        <5>2. d \in 1..Len(ns) /\ span[d] \in SUBSET Keys
          BY <5>1 DEF LiveLeaf
        <5>3. d # b
          BY <5>1, <1>1, NotBeforeItself
        <5>4. d # a
          <6>1. ASSUME d = a PROVE FALSE
            <7>1. Adjacent(span[b], span[a])
              BY <6>1, <5>1
            <7>2. PICK x \in span[a], y \in span[b] : x \in Int /\ y \in Int
              BY <1>1, KeysAreInts
            <7>3. x < y /\ y < x
              BY <7>1, <7>2, <1>4 DEF Adjacent, Before
            <7>4. QED
              BY <7>2, <7>3
          <6>2. QED
            BY <6>1
        <5>5. Adjacent(U, span[d])
          BY <5>1, <5>2, <1>1, <1>4, AdjacentJoined DEF U
        <5>6. Adjacent(High(U, m), span[d])
          BY <5>5, <5>2, <1>1, AdjacentHigh
        <5>7. span2[d] = span[d]
          BY <5>2, <5>3, <5>4, <1>2
        <5>8. QED
          BY <5>6, <5>7, <4>2, <3>7, <1>2
      <4>3. QED
        BY <4>1, <4>2
    <3>8. CASE c \notin {a, b}
      <4>1. span2[c] = span[c] /\ span[c] \in SUBSET Keys
        BY <3>8, <1>2
      <4>2. ns[c].next # b
        BY <3>1, <3>8, <1>3, <1>4
      <4>3. CASE ns[c].next = a
        <5>1. Adjacent(span[c], span[a])
          BY <4>3, <3>1, <1>3
        <5>2. Adjacent(span[c], U)
          BY <5>1, <4>1, <1>1, <1>4, AdjacentJoined DEF U
        <5>3. Adjacent(span[c], Low(U, m))
          BY <5>2, <4>1, <1>1, AdjacentLow
        <5>4. QED
          BY <5>3, <4>1, <4>3, <1>2, <1>3
      <4>4. CASE ns[c].next # a
        <5>1. ns[c].next # NoLeaf => ns[c].next \in 1..Len(ns)
          BY <3>1 DEF LiveLeaf
        <5>2. QED
          BY <5>1, <4>1, <4>2, <4>4, <3>1, <1>2
      <4>5. QED
        BY <4>3, <4>4
    <3>9. QED
      BY <3>6, <3>7, <3>8
  <2>4. QED
    BY <2>2, <2>3
<1>8. QED
  BY <1>7, <1>2 DEF Linked

\* A leaf takes over what its next one has.
LeavesMerge(ns2, span2, ns, span, a, b) ==
  LET after == ns[b].next IN
  /\ Len(ns2) = Len(ns) /\ ns[a].next = b
  /\ span2[a] = span[a] \cup span[b] /\ span2[b] = {}
  /\ ns2[a].leaf /\ ns2[a].next = after /\ ns2[a].prev = ns[a].prev
  /\ ns2[b].next = NoLeaf
  /\ after # NoLeaf => ns2[after].leaf /\ ns2[after].next = ns[after].next /\ ns2[after].prev = a
  /\ \A id \in 1..Len(ns) : id \notin {a, b} => /\ span2[id] = span[id]
                                                /\ id # after => SameLinks(ns2[id], ns[id])

LEMMA LinkedMerged ==
  ASSUME NEW ns, NEW span \in [1..Len(ns) -> SUBSET Keys], Linked(ns, span), Len(ns) \in Nat,
         NEW a, LiveLeaf(ns, span, a), NEW b, LiveLeaf(ns, span, b),
         NEW ns2, NEW span2, LeavesMerge(ns2, span2, ns, span, a, b)
  PROVE  Linked(ns2, span2)
<1> DEFINE U == span[a] \cup span[b]
           after == ns[b].next
<1>1. /\ a \in 1..Len(ns) /\ ns[a].leaf /\ span[a] # {} /\ span[a] \in SUBSET Keys
      /\ b \in 1..Len(ns) /\ ns[b].leaf /\ span[b] # {} /\ span[b] \in SUBSET Keys
      /\ U \in SUBSET Keys
  BY DEF LiveLeaf
<1>2. /\ Len(ns2) = Len(ns) /\ ns[a].next = b
      /\ span2[a] = U /\ span2[b] = {}
      /\ ns2[a].leaf /\ ns2[a].next = after /\ ns2[a].prev = ns[a].prev
      /\ ns2[b].next = NoLeaf
      /\ after # NoLeaf => ns2[after].leaf /\ ns2[after].next = ns[after].next /\ ns2[after].prev = a
      /\ \A id \in 1..Len(ns) : id \notin {a, b} => /\ span2[id] = span[id]
                                                    /\ id # after => SameLinks(ns2[id], ns[id])
  BY DEF LeavesMerge
<1>3. b # NoLeaf /\ a # NoLeaf
  BY <1>1 DEF NoLeaf
<1>4. ns[b].prev = a /\ Adjacent(span[a], span[b])
  BY <1>1, <1>2, <1>3, LinksOf
<1>5. /\ after = NoLeaf => AtEnd(span[b])
      /\ after # NoLeaf => /\ LiveLeaf(ns, span, after) /\ ns[after].prev = b
                           /\ Adjacent(span[b], span[after])
  BY <1>1, LinksOf
<1>6. after # b
  BY <1>1, <1>3, <1>5, NotBeforeItself
<1>7. after # a
  <2>1. ASSUME after = a PROVE FALSE
    <3>1. Adjacent(span[b], span[a])
      BY <2>1, <1>5, <1>3
    <3>2. PICK x \in span[a], y \in span[b] : x \in Int /\ y \in Int
      BY <1>1, KeysAreInts
    <3>3. x < y /\ y < x
      BY <3>1, <3>2, <1>4 DEF Adjacent, Before
    <3>4. QED
      BY <3>2, <3>3
  <2>2. QED
    BY <2>1
<1>8. a # b
  BY <1>1, <1>4, NotBeforeItself
<1> HIDE DEF U, after
<1>9. ASSUME NEW c, LiveLeaf(ns, span, c), c # b
      PROVE  /\ LiveLeaf(ns2, span2, c) /\ c \in 1..Len(ns)
             /\ c # a => ns2[c].next = ns[c].next /\ span2[c] = span[c]
             /\ c # after => ns2[c].prev = ns[c].prev
  <2>1. c \in 1..Len(ns) /\ ns[c].leaf /\ span[c] # {} /\ c # NoLeaf
    BY <1>9 DEF LiveLeaf, NoLeaf
  <2>2. U # {}
    BY <1>1 DEF U
  <2>3. QED
    BY <2>1, <2>2, <1>2, <1>9 DEF LiveLeaf, SameLinks
<1>10. LiveLeaf(ns2, span2, a)
  BY <1>8, <1>9
<1>11. ASSUME NEW c \in 1..Len(ns) PROVE LinkFits(ns2, span2, c)
  <2>1. CASE c = b
    BY <2>1, <1>2 DEF LinkFits, LiveLeaf
  <2>2. CASE c # b /\ ~LiveLeaf(ns, span, c)
    <3>1. c # a /\ c # after
      BY <2>2, <1>5, <1>1, <1>3 DEF LiveLeaf, NoLeaf
    <3>2. SameLinks(ns2[c], ns[c]) /\ span2[c] = span[c]
      BY <3>1, <2>2, <1>2
    <3>3. ~LiveLeaf(ns2, span2, c) /\ ns2[c].next = NoLeaf
      BY <3>2, <2>2, LinksOf DEF LiveLeaf, SameLinks
    <3>4. QED
      BY <3>3 DEF LinkFits
  <2>3. CASE c # b /\ LiveLeaf(ns, span, c)
    <3>1. /\ ns[c].next = NoLeaf => AtEnd(span[c])
          /\ ns[c].next # NoLeaf => /\ LiveLeaf(ns, span, ns[c].next)
                                    /\ ns[ns[c].next].prev = c
                                    /\ Adjacent(span[c], span[ns[c].next])
          /\ ns[c].prev # NoLeaf => LiveLeaf(ns, span, ns[c].prev) /\ ns[ns[c].prev].next = c
      BY <2>3, LinksOf
    <3>2. LiveLeaf(ns2, span2, c)
      BY <2>3, <1>9
    <3>3. ns2[c].prev # NoLeaf => LiveLeaf(ns2, span2, ns2[c].prev) /\ ns2[ns2[c].prev].next = c
      <4>1. CASE c = after
        <5>1. ns2[c].prev = a
          BY <4>1, <1>2, <2>3 DEF LiveLeaf, NoLeaf
        <5>2. ns2[a].next = c
          BY <4>1, <1>2
        <5>3. QED
          BY <5>1, <5>2, <1>10
      <4>2. CASE c # after
        <5>1. ns2[c].prev = ns[c].prev
          BY <4>2, <2>3, <1>9
        <5>2. ns[c].prev # NoLeaf => ns[c].prev # b /\ ns[c].prev # a
          BY <3>1, <4>2, <2>3, <1>2 DEF after
        <5>3. QED
          BY <5>1, <5>2, <3>1, <1>9
      <4>3. QED
        BY <4>1, <4>2
    <3>4. IF ns2[c].next = NoLeaf THEN AtEnd(span2[c])
          ELSE /\ LiveLeaf(ns2, span2, ns2[c].next) /\ ns2[ns2[c].next].prev = c
               /\ Adjacent(span2[c], span2[ns2[c].next])
      <4>1. CASE c = a
        <5>1. CASE after = NoLeaf
          <6>1. AtEnd(U)
            BY <5>1, <1>1, <1>4, <1>5, EndJoined DEF U
          <6>2. QED
            BY <6>1, <5>1, <4>1, <1>2
        <5>2. CASE after # NoLeaf
          <6>1. /\ LiveLeaf(ns2, span2, after) /\ span2[after] = span[after]
                /\ after \in 1..Len(ns) /\ span[after] \in SUBSET Keys
            BY <5>2, <1>5, <1>6, <1>7, <1>9
          <6>2. Adjacent(U, span[after])
            BY <6>1, <5>2, <1>1, <1>4, <1>5, AdjacentJoined DEF U
          <6>3. QED
            BY <6>1, <6>2, <5>2, <4>1, <1>2
        <5>3. QED
          BY <5>1, <5>2
      <4>2. CASE c # a
        <5>1. ns2[c].next = ns[c].next /\ span2[c] = span[c] /\ span[c] \in SUBSET Keys
          BY <4>2, <2>3, <1>9
        <5>2. CASE ns[c].next = NoLeaf
          BY <5>1, <5>2, <3>1
        <5>3. CASE ns[c].next # NoLeaf
          <6> DEFINE d == ns[c].next
          <6>1. LiveLeaf(ns, span, d) /\ ns[d].prev = c /\ Adjacent(span[c], span[d])
            BY <5>3, <3>1
          <6>2. d # b /\ d # after
            BY <6>1, <4>2, <2>3, <1>4, <1>5, <5>3
          <6>3. LiveLeaf(ns2, span2, d) /\ ns2[d].prev = c
            BY <6>1, <6>2, <1>9
          <6>4. CASE d = a
            <7>1. Adjacent(span[c], U)
              BY <6>1, <6>4, <5>1, <1>1, <1>4, AdjacentJoined DEF U
            <7>2. QED
              BY <7>1, <6>3, <6>4, <5>1, <5>3, <1>2
          <6>5. CASE d # a
            <7>1. span2[d] = span[d]
              BY <6>1, <6>2, <6>5, <1>9
            <7>2. QED
              BY <7>1, <6>1, <6>3, <5>1, <5>3
          <6>6. QED
            BY <6>4, <6>5
        <5>4. QED
          BY <5>2, <5>3
      <4>3. QED
        BY <4>1, <4>2
    <3>5. QED
      BY <3>2, <3>3, <3>4 DEF LinkFits
  <2>4. QED
    BY <2>1, <2>2, <2>3
<1>12. QED
  BY <1>11, <1>2 DEF Linked

-----------------------------------------------------------------------------
(* Nodes that an operation leaves alone.                                   *)

SameContent(n, q) ==
  n.leaf = q.leaf /\ n.keys = q.keys /\ n.locs = q.locs /\ n.kids = q.kids

\* The spans and levels of the children are what they were.
KidsStill(n, S, seen, level, seen2, level2) ==
  ~n.leaf => \A j \in 1..Len(n.kids) : /\ level2[n.kids[j]] = level[n.kids[j]]
                                       /\ S # {} => seen2[n.kids[j]] = seen[n.kids[j]]

LEMMA NodeStill ==
  ASSUME NEW n, NEW q, SameContent(q, n), NEW S, NEW h, NEW seen, NEW level, NEW seen2, NEW level2,
         NodeFits(n, S, h, seen, level), KidsStill(n, S, seen, level, seen2, level2)
  PROVE  NodeFits(q, S, h, seen2, level2)
<1>1. q.leaf = n.leaf /\ q.keys = n.keys /\ q.locs = n.locs /\ q.kids = n.kids
  BY DEF SameContent
<1>2. CASE n.leaf
  BY <1>1, <1>2 DEF NodeFits, LeafFits
<1>3. CASE ~n.leaf
  <2>1. ForkFits(n, S, h, seen, level)
    BY <1>3 DEF NodeFits
  <2>2. \A j \in 1..Len(n.kids) : /\ level2[n.kids[j]] = level[n.kids[j]]
                                  /\ S # {} => seen2[n.kids[j]] = seen[n.kids[j]]
    BY <1>3 DEF KidsStill
  <2>3. ForkFits(q, S, h, seen2, level2)
    BY <2>1, <2>2, <1>1 DEF ForkFits
  <2>4. QED
    BY <2>3, <1>1, <1>3 DEF NodeFits
<1>4. QED
  BY <1>2, <1>3

\* A child that is led to has one parent.
LEMMA OneParent ==
  ASSUME NEW ns, NEW seen, NEW span, NEW level, Shape(ns, seen, span, level),
         NEW p \in 1..Len(ns), ~ns[p].leaf, span[p] # {}, NEW i \in 1..Len(ns[p].kids),
         NEW q \in 1..Len(ns), ~ns[q].leaf, span[q] # {}, NEW j \in 1..Len(ns[q].kids),
         ns[p].kids[i] = ns[q].kids[j]
  PROVE  p = q
<1> DEFINE c == ns[p].kids[i]
<1>1. ForkFits(ns[p], span[p], level[p], seen, level) /\ ForkFits(ns[q], span[q], level[q], seen, level)
      /\ span \in [1..Len(ns) -> SUBSET Keys] /\ level[p] \in Nat /\ level[q] \in Nat
  BY ShapeFacts
<1>2. level[c] = level[p] - 1 /\ level[c] = level[q] - 1
  BY <1>1 DEF ForkFits
<1>3. seen[c] # {} /\ seen[c] \subseteq span[p] /\ seen[c] \subseteq span[q]
  BY <1>1 DEF ForkFits, Part
<1>4. level[p] = level[q]
  BY <1>1, <1>2, SMTT(20)
<1>5. \A a, b \in 1..Len(ns) : a # b /\ level[a] = level[b] => span[a] \cap span[b] = {}
  BY <1>1 DEF Shape, Apart
<1>6. QED
  BY <1>3, <1>4, <1>5

\* A node whose children are not among those whose spans change.
KidsOutside(n, S, C) == ~n.leaf /\ S # {} => \A j \in 1..Len(n.kids) : n.kids[j] \notin C

SameBut(f, g, D) == \A a \in D : f[a] = g[a]

LEMMA OtherStill ==
  ASSUME NEW ns, NEW seen, NEW span, NEW level, Shape(ns, seen, span, level),
         NEW id \in 1..Len(ns), NEW q, SameContent(q, ns[id]), NEW C, KidsOutside(ns[id], span[id], C),
         NEW seen2, NEW level2, SameBut(seen2, seen, (1..Len(ns)) \ C), SameBut(level2, level, 1..Len(ns))
  PROVE  NodeFits(q, span[id], level[id], seen2, level2)
<1>1. NodeFits(ns[id], span[id], level[id], seen, level) /\ ns[id].kids \in Seq(1..Len(ns))
  BY ShapeFacts
<1>2. \A j \in 1..Len(ns[id].kids) : ns[id].kids[j] \in 1..Len(ns)
  BY <1>1, SeqFacts
<1>3. KidsStill(ns[id], span[id], seen, level, seen2, level2)
  BY <1>2 DEF KidsStill, KidsOutside, SameBut
<1>4. QED
  BY <1>1, <1>3, NodeStill

\* The children of p are not those of any other node.
LEMMA OutsideOthers ==
  ASSUME NEW ns, NEW seen, NEW span, NEW level, Shape(ns, seen, span, level),
         NEW p \in 1..Len(ns), ~ns[p].leaf, span[p] # {}, NEW i \in 1..Len(ns[p].kids),
         NEW id \in 1..Len(ns), id # p
  PROVE  KidsOutside(ns[id], span[id], {ns[p].kids[i]})
BY OneParent DEF KidsOutside

OthersOutside(ns, span, p, C) ==
  \A a \in 1..Len(ns) : a # p => KidsOutside(ns[a], span[a], C)

\* Nobody leads to a node that the level above does not go by.
LEMMA OutsideUnseen ==
  ASSUME NEW ns, NEW seen, NEW span, NEW level, Shape(ns, seen, span, level),
         NEW c, seen[c] = {}, NEW id \in 1..Len(ns)
  PROVE  KidsOutside(ns[id], span[id], {c})
<1>1. ~ns[id].leaf => ForkFits(ns[id], span[id], level[id], seen, level)
  BY ShapeFacts
<1>2. QED
  BY <1>1 DEF ForkFits, KidsOutside

LEMMA OutsideFewer ==
  ASSUME NEW n, NEW S, NEW C, KidsOutside(n, S, C), NEW B, B \subseteq C
  PROVE  KidsOutside(n, S, B)
BY DEF KidsOutside

\* Nodes of one level share out anew what they had.
SharedOut(span2, level2, a, b, span, level, O, h) ==
  /\ O \subseteq DOMAIN span
  /\ \A o \in O : level[o] = h
  /\ \A id \in DOMAIN span2 : id \notin {a, b} =>
       /\ id \in DOMAIN span /\ id \notin O
       /\ span2[id] = span[id] /\ level2[id] = level[id]
  /\ level2[a] = h /\ level2[b] = h /\ span2[a] \cap span2[b] = {}
  /\ span2[a] \cup span2[b] \subseteq UNION {span[o] : o \in O}

LEMMA ApartStill ==
  ASSUME NEW span, NEW level, Apart(span, level), NEW span2, NEW level2,
         NEW O, NEW h, NEW a, NEW b, SharedOut(span2, level2, a, b, span, level, O, h)
  PROVE  Apart(span2, level2)
<1> USE DEF SharedOut
<1>1. ASSUME NEW x \in {a, b}, NEW y \in DOMAIN span2, y \notin {a, b}, level2[x] = level2[y]
      PROVE  span2[x] \cap span2[y] = {}
  <2>1. y \in DOMAIN span /\ y \notin O /\ span2[y] = span[y] /\ level[y] = h
    BY <1>1
  <2>2. \A o \in O : span[o] \cap span[y] = {}
    BY <2>1 DEF Apart
  <2>3. span2[x] \subseteq UNION {span[o] : o \in O}
    BY <1>1
  <2>4. QED
    BY <2>1, <2>2, <2>3
<1>2. ASSUME NEW x \in DOMAIN span2, NEW y \in DOMAIN span2, x # y, level2[x] = level2[y]
      PROVE  span2[x] \cap span2[y] = {}
  <2>1. CASE x \in {a, b} /\ y \in {a, b}
    BY <2>1, <1>2
  <2>2. CASE x \in {a, b} /\ y \notin {a, b}
    BY <2>2, <1>1, <1>2
  <2>3. CASE x \notin {a, b} /\ y \in {a, b}
    <3>1. span2[y] \cap span2[x] = {}
      BY <2>3, <1>1, <1>2
    <3>2. QED
      BY <3>1
  <2>4. CASE x \notin {a, b} /\ y \notin {a, b}
    <3>1. /\ x \in DOMAIN span /\ y \in DOMAIN span /\ level[x] = level[y]
          /\ span2[x] = span[x] /\ span2[y] = span[y]
      BY <2>4, <1>2
    <3>2. QED
      BY <3>1, <1>2 DEF Apart
  <2>5. QED
    BY <2>1, <2>2, <2>3, <2>4
<1>3. QED
  BY <1>2 DEF Apart

\* Nodes of a file that may have grown.
LEMMA NodeInMore ==
  ASSUME NEW m \in Nat, NEW n \in Nat, m <= n, NEW q \in Node(m)
  PROVE  q \in Node(n)
<1>1. 1..m \subseteq 1..n /\ 0..m \subseteq 0..n
  OBVIOUS
<1>2. Seq(1..m) \subseteq Seq(1..n)
  BY <1>1, SeqMonotonic
<1>3. QED
  BY <1>1, <1>2 DEF Node

LEMMA NodesTyped ==
  ASSUME NEW n \in Nat, NEW S, NEW ns, Len(ns) = n, DOMAIN ns = 1..n,
         \A id \in 1..n : ns[id] \in S, NEW f, ns = [id \in 1..n |-> f[id]]
  PROVE  ns \in Seq(S)
<1>1. ns \in [1..n -> S]
  OBVIOUS
<1>2. QED
  BY <1>1, SeqDef

\* The nodes outside D are left alone, and so are the spans of their children.
Untouched(id, ns, span, ns2, span2, C) ==
  /\ id \in 1..Len(ns) /\ SameContent(ns2[id], ns[id])
  /\ span2[id] = span[id] /\ KidsOutside(ns[id], span[id], C)

Touched(id, ns2, seen2, span2, level2) ==
  NodeFits(ns2[id], span2[id], level2[id], seen2, level2) /\ Convex(span2[id])

LEMMA Reshape ==
  ASSUME NEW ns, NEW seen, NEW span, NEW level, Shape(ns, seen, span, level),
         NEW ns2, ns2 \in Seq(Node(Len(ns2))), NEW seen2,
         NEW span2 \in [1..Len(ns2) -> SUBSET Keys], NEW level2 \in [1..Len(ns2) -> Nat],
         NEW C, NEW D,
         SameBut(level2, level, 1..Len(ns)), SameBut(seen2, seen, (1..Len(ns)) \ C),
         \A id \in 1..Len(ns2) : IF id \in D THEN Touched(id, ns2, seen2, span2, level2)
                                             ELSE Untouched(id, ns, span, ns2, span2, C),
         Apart(span2, level2), Linked(ns2, span2)
  PROVE  Shape(ns2, seen2, span2, level2)
<1>1. ASSUME NEW id \in 1..Len(ns2)
      PROVE  NodeFits(ns2[id], span2[id], level2[id], seen2, level2) /\ Convex(span2[id])
  <2>1. CASE id \in D
    BY <2>1 DEF Touched
  <2>2. CASE id \notin D
    <3>1. /\ id \in 1..Len(ns) /\ SameContent(ns2[id], ns[id])
          /\ span2[id] = span[id] /\ KidsOutside(ns[id], span[id], C)
      BY <2>2 DEF Untouched
    <3>2. level2[id] = level[id]
      BY <3>1 DEF SameBut
    <3>3. NodeFits(ns2[id], span[id], level[id], seen2, level2)
      BY <3>1, OtherStill
    <3>4. Convex(span[id])
      BY <3>1 DEF Shape
    <3>5. QED
      BY <3>1, <3>2, <3>3, <3>4
  <2>3. QED
    BY <2>1, <2>2
<1>2. Fits(ns2, seen2, span2, level2)
  BY <1>1 DEF Fits
<1>3. \A id \in 1..Len(ns2) : Convex(span2[id])
  BY <1>1
<1>4. QED
  BY <1>2, <1>3 DEF Shape

\* One node replaced.
Changed(ns2, ns, id, q) ==
  /\ Len(ns2) = Len(ns) /\ ns2[id] = q
  /\ \A a \in 1..Len(ns) : a # id => ns2[a] = ns[a]

LEMMA ChangedIs ==
  ASSUME NEW T, NEW ns \in Seq(T), NEW id \in 1..Len(ns), NEW q \in T
  PROVE  [ns EXCEPT ![id] = q] \in Seq(T) /\ Changed([ns EXCEPT ![id] = q], ns, id, q)
<1>1. ns \in [1..Len(ns) -> T] /\ DOMAIN ns = 1..Len(ns) /\ Len(ns) \in Nat
  BY SeqFacts
<1> DEFINE t == [ns EXCEPT ![id] = q]
<1>2. t \in [1..Len(ns) -> T]
  BY <1>1
<1>3. t[id] = q /\ \A a \in 1..Len(ns) : a # id => t[a] = ns[a]
  BY <1>1
<1> HIDE DEF t
<1>4. t \in Seq(T)
  BY <1>1, <1>2, SeqDef
<1>5. Len(t) = Len(ns)
  BY <1>1, <1>2, <1>4, LenProperties
<1>6. t \in Seq(T) /\ Changed(t, ns, id, q)
  BY <1>3, <1>4, <1>5 DEF Changed
<1>7. QED
  BY <1>6 DEF t

LEMMA AppendIs ==
  ASSUME NEW T, NEW s \in Seq(T), NEW e \in T
  PROVE  /\ Append(s, e) \in Seq(T) /\ Len(Append(s, e)) = Len(s) + 1
         /\ Append(s, e)[Len(s) + 1] = e
         /\ \A a \in 1..Len(s) : Append(s, e)[a] = s[a]
BY AppendProperties, LenProperties

LEMMA FunctionIs ==
  ASSUME NEW n \in Nat, NEW T, NEW s \in [1..n -> T]
  PROVE  s \in Seq(T) /\ Len(s) = n
<1>1. s \in Seq(T)
  BY SeqDef
<1>2. QED
  BY <1>1, LenProperties

\* A node changed within its span: a leaf that gets or loses an entry, a
\* fork whose children share out their keys anew.
SameKind(q, n) == IF n.leaf THEN SameLinks(q, n) ELSE ~q.leaf /\ q.next = NoLeaf

LEMMA ShapeChanged ==
  ASSUME NEW ns, NEW seen, NEW span, NEW level, Shape(ns, seen, span, level),
         NEW id \in 1..Len(ns), NEW q \in Node(Len(ns)), SameKind(q, ns[id]),
         NEW ns2, ns2 \in Seq(Node(Len(ns))), Changed(ns2, ns, id, q),
         NEW C, NEW seen2, SameBut(seen2, seen, (1..Len(ns)) \ C), OthersOutside(ns, span, id, C),
         NodeFits(q, span[id], level[id], seen2, level)
  PROVE  Shape(ns2, seen2, span, level)
<1>1. /\ Len(ns) \in Nat /\ span \in [1..Len(ns) -> SUBSET Keys] /\ level \in [1..Len(ns) -> Nat]
      /\ ns[id].leaf \in BOOLEAN
  BY ShapeFacts
<1>2. /\ Len(ns2) = Len(ns) /\ ns2[id] = q
      /\ \A a \in 1..Len(ns) : a # id => ns2[a] = ns[a]
  BY DEF Changed
<1>3. Apart(span, level) /\ Linked(ns, span) /\ \A a \in 1..Len(ns) : Convex(span[a])
  BY DEF Shape
<1>4. Linked(ns2, span)
  <2>1. LeavesStill(ns2, span, ns, span)
    BY <1>2 DEF SameKind, SameLinks, LiveLeaf, LeavesStill
  <2>2. Len(ns2) \in Nat /\ Len(ns2) >= Len(ns)
    BY <1>1, <1>2
  <2>3. QED
    BY <2>1, <2>2, <1>1, <1>3, LinkedStill
<1>5. ASSUME NEW a \in 1..Len(ns2)
      PROVE  IF a \in {id} THEN Touched(a, ns2, seen2, span, level)
                           ELSE Untouched(a, ns, span, ns2, span, C)
  BY <1>2, <1>3 DEF Touched, Untouched, SameContent, OthersOutside
<1>6. SameBut(level, level, 1..Len(ns))
  BY DEF SameBut
<1>7. QED
  BY <1>1, <1>2, <1>3, <1>4, <1>5, <1>6, Reshape

-----------------------------------------------------------------------------
(* How full a node is.                                                     *)

HalfFilled(n) ==
  /\ Count(n) <= IF n.leaf THEN LeafOrder ELSE InternalOrder
  /\ Count(n) >= MinKeys(n)
  /\ ~n.leaf => Count(n) >= 1

\* The keys a node must have at least.
Least(leaf) == (IF leaf THEN LeafOrder ELSE InternalOrder) \div 2
Most(leaf) == IF leaf THEN LeafOrder ELSE InternalOrder

LEMMA LeastIs ==
  ASSUME NEW leaf \in BOOLEAN
  PROVE  /\ Least(leaf) \in Nat /\ Most(leaf) \in Nat /\ Least(leaf) >= 1 /\ Least(leaf) + Least(leaf) <= Most(leaf)
         /\ \A n : n.leaf = leaf => MinKeys(n) = Least(leaf)
         /\ \A n : n.leaf = leaf /\ Count(n) \in Nat /\ Count(n) <= Most(leaf) /\ Count(n) >= Least(leaf)
                     => HalfFilled(n)
<1>1. LeafOrder \in Nat /\ LeafOrder >= 2 /\ InternalOrder \in Nat /\ InternalOrder >= 2
  BY TreeAssumption
<1>2. Most(leaf) \in Nat /\ Most(leaf) >= 2
  BY <1>1 DEF Most
<1>3. \A m \in Nat : m >= 2 => m \div 2 \in Nat /\ m \div 2 >= 1 /\ m \div 2 + m \div 2 <= m
  OBVIOUS
<1>4. Least(leaf) = Most(leaf) \div 2
  BY DEF Least, Most
<1>5. \A n : n.leaf = leaf => MinKeys(n) = Least(leaf)
  BY DEF Least, MinKeys
<1>6. Least(leaf) \in Nat /\ Least(leaf) >= 1 /\ Least(leaf) + Least(leaf) <= Most(leaf)
  BY <1>2, <1>3, <1>4
<1>7. ASSUME NEW n, n.leaf = leaf, Count(n) \in Nat, Count(n) <= Most(leaf), Count(n) >= Least(leaf)
      PROVE  HalfFilled(n)
  BY <1>5, <1>6, <1>7 DEF HalfFilled, Most
<1>8. QED
  BY <1>2, <1>5, <1>6, <1>7

-----------------------------------------------------------------------------
(* The entries of the leaves.                                              *)

Held(ns, D) == UNION {EntriesOf(ns[id]) : id \in D}

\* The nodes outside D1 and D2 are the same, the others hold E more.
HeldMore(ns2, D2, ns, D1, E) ==
  /\ D1 \subseteq 1..Len(ns) /\ D2 \subseteq 1..Len(ns2)
  /\ (1..Len(ns)) \ D1 = (1..Len(ns2)) \ D2
  /\ \A id \in (1..Len(ns)) \ D1 : EntriesOf(ns2[id]) = EntriesOf(ns[id])
  /\ Held(ns2, D2) = E \cup Held(ns, D1)

LEMMA EntriesAre ==
  ASSUME NEW ns, NEW ns2, NEW D1, NEW D2, NEW E, HeldMore(ns2, D2, ns, D1, E)
  PROVE  Entries(ns2) = Entries(ns) \cup E
<1>1. Entries(ns) = Held(ns, (1..Len(ns)) \ D1) \cup Held(ns, D1)
  BY DEF Entries, Held, HeldMore
<1>2. Entries(ns2) = Held(ns2, (1..Len(ns2)) \ D2) \cup Held(ns2, D2)
  BY DEF Entries, Held, HeldMore
<1>3. Held(ns2, (1..Len(ns2)) \ D2) = Held(ns, (1..Len(ns)) \ D1)
  BY DEF Held, HeldMore
<1>4. Held(ns2, D2) = E \cup Held(ns, D1)
  BY DEF HeldMore
<1>5. QED
  BY <1>1, <1>2, <1>3, <1>4

HoldsBoth(n, l, r) == EntriesOf(n) = EntriesOf(l) \cup EntriesOf(r)

\* n holds what l and r hold.
LEMMA EntriesJoined ==
  ASSUME NEW n, NEW l, NEW r, NEW T, n.keys \in Seq(Int), n.locs \in Seq(T),
         l.keys \in Seq(Int), l.locs \in Seq(T), r.keys \in Seq(Int), r.locs \in Seq(T),
         Len(l.keys) = Len(l.locs), Len(r.keys) = Len(r.locs),
         Joined(n.keys, l.keys, r.keys), Joined(n.locs, l.locs, r.locs)
  PROVE  HoldsBoth(n, l, r)
<1> DEFINE a == Len(l.locs)
           b == Len(r.locs)
           E(i) == <<n.keys[i], n.locs[i]>>
<1>1. /\ a \in Nat /\ b \in Nat /\ Len(n.locs) = a + b
      /\ \A i \in 1..a : n.keys[i] = l.keys[i] /\ n.locs[i] = l.locs[i]
      /\ \A i \in 1..b : n.keys[a + i] = r.keys[i] /\ n.locs[a + i] = r.locs[i]
  BY SeqFacts DEF Joined
<1>2. EntriesOf(l) = {E(i) : i \in 1..a}
  BY <1>1 DEF EntriesOf
<1>3. EntriesOf(r) = {E(a + i) : i \in 1..b}
  BY <1>1 DEF EntriesOf
<1>4. EntriesOf(n) = {E(i) : i \in 1..(a + b)}
  BY <1>1 DEF EntriesOf
<1> HIDE DEF a, b, E
<1>5. \A i \in 1..(a + b) : i \in 1..a \/ (i - a \in 1..b /\ a + (i - a) = i)
  BY <1>1
<1>6. (\A i \in 1..a : i \in 1..(a + b)) /\ \A i \in 1..b : a + i \in 1..(a + b)
  BY <1>1
<1>7. {E(i) : i \in 1..(a + b)} \subseteq {E(i) : i \in 1..a} \cup {E(a + i) : i \in 1..b}
  <2>1. ASSUME NEW i \in 1..(a + b) PROVE E(i) \in {E(k) : k \in 1..a} \cup {E(a + k) : k \in 1..b}
    <3>1. CASE i \in 1..a
      BY <3>1
    <3>2. CASE i \notin 1..a
      <4>1. i - a \in 1..b /\ a + (i - a) = i
        BY <3>2, <1>5
      <4>2. E(a + (i - a)) = E(i)
        BY <4>1
      <4>3. QED
        BY <4>1, <4>2
    <3>3. QED
      BY <3>1, <3>2
  <2>2. QED
    BY <2>1
<1>8. QED
  BY <1>2, <1>3, <1>4, <1>6, <1>7 DEF HoldsBoth

HoldsMore(q, n, key, loc) == EntriesOf(q) = EntriesOf(n) \cup {<<key, loc>>}

\* An entry more.
LEMMA EntriesInserted ==
  ASSUME NEW n, NEW q, NEW T, n.keys \in Seq(Int), n.locs \in Seq(T), Len(n.keys) = Len(n.locs),
         NEW i \in 1..(Len(n.keys) + 1), NEW key, NEW loc, Len(q.locs) = Len(n.locs) + 1,
         Inserted(q.keys, n.keys, i, key), Inserted(q.locs, n.locs, i, loc)
  PROVE  HoldsMore(q, n, key, loc)
<1> DEFINE c == Len(n.locs)
           E(j) == <<n.keys[j], n.locs[j]>>
           G(j) == <<q.keys[j], q.locs[j]>>
<1>1. c \in Nat /\ Len(n.keys) = c
  BY SeqFacts
<1>2. \A j \in 1..(c + 1) :
        /\ j < i => G(j) = E(j)
        /\ j = i => G(j) = <<key, loc>>
        /\ j > i => G(j) = E(j - 1)
  BY <1>1 DEF Inserted
<1>3. EntriesOf(q) = {G(j) : j \in 1..(c + 1)} /\ EntriesOf(n) = {E(j) : j \in 1..c}
  BY DEF EntriesOf
<1> HIDE DEF c, E, G
<1>4. \A j \in 1..(c + 1) : G(j) \in {E(k) : k \in 1..c} \cup {<<key, loc>>}
  <2>1. ASSUME NEW j \in 1..(c + 1) PROVE G(j) \in {E(k) : k \in 1..c} \cup {<<key, loc>>}
    <3>1. CASE j < i
      <4>1. j \in 1..c
        BY <3>1, <1>1
      <4>2. QED
        BY <4>1, <3>1, <1>2
    <3>2. CASE j = i
      BY <3>2, <1>2
    <3>3. CASE j > i
      <4>1. j - 1 \in 1..c
        BY <3>3, <1>1
      <4>2. QED
        BY <4>1, <3>3, <1>2
    <3>4. QED
      BY <3>1, <3>2, <3>3, <1>1
  <2>2. QED
    BY <2>1
<1>5. \A k \in 1..c : E(k) \in {G(j) : j \in 1..(c + 1)}
  <2>1. ASSUME NEW k \in 1..c PROVE E(k) \in {G(j) : j \in 1..(c + 1)}
    <3>1. CASE k < i
      <4>1. k \in 1..(c + 1)
        BY <1>1
      <4>2. QED
        BY <4>1, <3>1, <1>2
    <3>2. CASE ~(k < i)
      <4>1. k + 1 \in 1..(c + 1) /\ k + 1 > i /\ (k + 1) - 1 = k
        BY <3>2, <1>1
      <4>2. G(k + 1) = E((k + 1) - 1)
        BY <4>1, <1>2
      <4>3. QED
        BY <4>1, <4>2
    <3>3. QED
      BY <3>1, <3>2
  <2>2. QED
    BY <2>1
<1>6. i \in 1..(c + 1) /\ G(i) = <<key, loc>>
  BY <1>1, <1>2
<1>7. QED
  BY <1>3, <1>4, <1>5, <1>6 DEF HoldsMore

\* An entry less.
LEMMA EntriesRemoved ==
  ASSUME NEW n, NEW q, NEW T, n.keys \in Seq(Int), n.locs \in Seq(T), Len(n.keys) = Len(n.locs),
         Ascending(n.keys), NEW i \in 1..Len(n.keys), Len(q.locs) = Len(n.locs) - 1,
         Removed(q.keys, n.keys, i), Removed(q.locs, n.locs, i)
  PROVE  EntriesOf(q) = EntriesOf(n) \ {<<n.keys[i], n.locs[i]>>}
<1> DEFINE c == Len(n.locs)
           E(j) == <<n.keys[j], n.locs[j]>>
           G(j) == <<q.keys[j], q.locs[j]>>
<1>1. c \in Nat /\ Len(n.keys) = c /\ \A j \in 1..c : n.keys[j] \in Int
  BY SeqFacts
<1>2. \A j \in 1..(c - 1) : G(j) = IF j < i THEN E(j) ELSE E(j + 1)
  BY <1>1 DEF Removed
<1>3. EntriesOf(q) = {G(j) : j \in 1..(c - 1)} /\ EntriesOf(n) = {E(j) : j \in 1..c}
  BY DEF EntriesOf
<1>4. \A j \in 1..c : j # i => E(j) # E(i)
  <2>1. ASSUME NEW j \in 1..c, j # i PROVE n.keys[j] # n.keys[i]
    <3>1. n.keys[j] < n.keys[i] \/ n.keys[i] < n.keys[j]
      BY <2>1, <1>1 DEF Ascending
    <3>2. QED
      BY <3>1, <1>1
  <2>2. QED
    BY <2>1
<1> HIDE DEF c, E, G
<1>5. \A j \in 1..(c - 1) : G(j) \in {E(k) : k \in 1..c} \ {E(i)}
  <2>1. ASSUME NEW j \in 1..(c - 1) PROVE G(j) \in {E(k) : k \in 1..c} \ {E(i)}
    <3>1. CASE j < i
      <4>1. j \in 1..c /\ j # i
        BY <3>1, <1>1
      <4>2. QED
        BY <4>1, <3>1, <1>2, <1>4
    <3>2. CASE ~(j < i)
      <4>1. j + 1 \in 1..c /\ j + 1 # i
        BY <3>2, <1>1
      <4>2. G(j) = E(j + 1) /\ E(j + 1) # E(i)
        BY <4>1, <3>2, <1>2, <1>4
      <4>3. QED
        BY <4>1, <4>2
    <3>3. QED
      BY <3>1, <3>2
  <2>2. QED
    BY <2>1
<1>6. \A k \in 1..c : k # i => E(k) \in {G(j) : j \in 1..(c - 1)}
  <2>1. ASSUME NEW k \in 1..c, k # i PROVE E(k) \in {G(j) : j \in 1..(c - 1)}
    <3>1. CASE k < i
      <4>1. k \in 1..(c - 1)
        BY <3>1, <1>1
      <4>2. QED
        BY <4>1, <3>1, <1>2
    <3>2. CASE ~(k < i)
      <4>1. k - 1 \in 1..(c - 1) /\ ~(k - 1 < i) /\ (k - 1) + 1 = k
        BY <3>2, <2>1, <1>1
      <4>2. G(k - 1) = E((k - 1) + 1)
        BY <4>1, <1>2
      <4>3. QED
        BY <4>1, <4>2
    <3>3. QED
      BY <3>1, <3>2
  <2>2. QED
    BY <2>1
<1>7. EntriesOf(q) \subseteq EntriesOf(n) \ {E(i)}
  BY <1>3, <1>5
<1>8. EntriesOf(n) \ {E(i)} \subseteq EntriesOf(q)
  BY <1>3, <1>6
<1>9. E(i) = <<n.keys[i], n.locs[i]>>
  BY DEF E
<1>10. QED
  BY <1>7, <1>8, <1>9

\* A key is in the one leaf whose span has it.
LEMMA EntriesPlace ==
  ASSUME NEW ns, NEW seen, NEW span, NEW level, Shape(ns, seen, span, level),
         NEW id \in 1..Len(ns), NEW key, NEW loc, <<key, loc>> \in EntriesOf(ns[id])
  PROVE  /\ LiveLeaf(ns, span, id) /\ key \in span[id]
         /\ \E i \in 1..Len(ns[id].keys) : ns[id].keys[i] = key /\ ns[id].locs[i] = loc
<1>1. PICK i \in 1..Len(ns[id].locs) : <<key, loc>> = <<ns[id].keys[i], ns[id].locs[i]>>
  BY DEF EntriesOf
<1>2. ns[id].leaf
  BY <1>1, ShapeFacts DEF ForkFits
<1>3. Len(ns[id].locs) = Len(ns[id].keys) /\ Within(ns[id].keys, span[id])
  BY <1>2, ShapeFacts DEF LeafFits
<1>4. ns[id].keys[i] \in span[id] /\ i \in 1..Len(ns[id].keys)
  BY <1>1, <1>3 DEF Within
<1>5. QED
  BY <1>1, <1>2, <1>4 DEF LiveLeaf

LEMMA OneLeaf ==
  ASSUME NEW ns, NEW seen, NEW span, NEW level, Shape(ns, seen, span, level),
         NEW a, LiveLeaf(ns, span, a), NEW b, LiveLeaf(ns, span, b),
         NEW key, key \in span[a], key \in span[b]
  PROVE  a = b
<1>1. a \in 1..Len(ns) /\ b \in 1..Len(ns) /\ ns[a].leaf /\ ns[b].leaf
  BY DEF LiveLeaf
<1>2. level[a] = 0 /\ level[b] = 0 /\ DOMAIN span = 1..Len(ns)
  BY <1>1, ShapeFacts
<1>3. QED
  BY <1>1, <1>2 DEF Shape, Apart

-----------------------------------------------------------------------------
(* A leaf gets an entry, and loses one.                                    *)

LEMMA NodeFacts ==
  ASSUME NEW m \in Nat, NEW n \in Node(m)
  PROVE  /\ n.leaf \in BOOLEAN /\ n.keys \in Seq(Keys) /\ n.keys \in Seq(Int)
         /\ n.locs \in Seq(Locs) /\ n.kids \in Seq(1..m) /\ Len(n.keys) \in Nat
         /\ n.next \in 0..m /\ n.prev \in 0..m
<1>1. \A s \in Seq(Keys) : s \in Seq(Int) /\ Len(s) \in Nat
  BY KeysAreInts, SeqMonotonic, SeqFacts
<1>2. QED
  BY <1>1 DEF Node

LEMMA AscendingMore ==
  ASSUME NEW s \in Seq(Int), Ascending(s), NEW i \in 1..(Len(s) + 1), NEW key \in Int,
         \A j \in 1..Len(s) : j < i => s[j] < key,
         \A j \in 1..Len(s) : j >= i => s[j] > key,
         NEW t, Len(t) = Len(s) + 1, Inserted(t, s, i, key)
  PROVE  Ascending(t)
<1>1. Len(s) \in Nat /\ \A j \in 1..Len(s) : s[j] \in Int
  BY SeqFacts
<1>2. ASSUME NEW a \in 1..(Len(s) + 1), NEW b \in 1..(Len(s) + 1), a < b PROVE t[a] < t[b]
  <2>1. t[a] = (IF a < i THEN s[a] ELSE IF a = i THEN key ELSE s[a - 1])
        /\ t[b] = IF b < i THEN s[b] ELSE IF b = i THEN key ELSE s[b - 1]
    BY DEF Inserted
  <2>2. /\ a < i => a \in 1..Len(s)
        /\ a > i => a - 1 \in 1..Len(s) /\ a - 1 >= i
        /\ b < i => b \in 1..Len(s)
        /\ b > i => b - 1 \in 1..Len(s) /\ b - 1 >= i
    BY <1>1
  <2>3. CASE b < i
    <3>1. t[a] = s[a] /\ t[b] = s[b] /\ a \in 1..Len(s) /\ b \in 1..Len(s)
      BY <2>1, <2>2, <2>3, <1>2, <1>1
    <3>2. QED
      BY <3>1, <1>2 DEF Ascending
  <2>4. CASE b = i
    <3>1. t[a] = s[a] /\ t[b] = key /\ a \in 1..Len(s) /\ a < i
      BY <2>1, <2>2, <2>4, <1>2, <1>1
    <3>2. QED
      BY <3>1
  <2>5. CASE b > i /\ a < i
    <3>1. t[a] = s[a] /\ t[b] = s[b - 1] /\ a \in 1..Len(s) /\ b - 1 \in 1..Len(s) /\ b - 1 >= i
      BY <2>1, <2>2, <2>5, <1>1
    <3>2. s[a] < key /\ s[b - 1] > key /\ s[a] \in Int /\ s[b - 1] \in Int
      BY <3>1, <2>5, <1>1
    <3>3. QED
      BY <3>1, <3>2
  <2>6. CASE b > i /\ a = i
    <3>1. t[a] = key /\ t[b] = s[b - 1] /\ b - 1 \in 1..Len(s) /\ b - 1 >= i
      BY <2>1, <2>2, <2>6, <1>1
    <3>2. s[b - 1] > key /\ s[b - 1] \in Int
      BY <3>1, <1>1
    <3>3. QED
      BY <3>1, <3>2
  <2>7. CASE b > i /\ a > i
    <3>1. /\ t[a] = s[a - 1] /\ t[b] = s[b - 1] /\ a - 1 < b - 1
          /\ a - 1 \in 1..Len(s) /\ b - 1 \in 1..Len(s)
      BY <2>1, <2>2, <2>7, <1>1, <1>2
    <3>2. QED
      BY <3>1 DEF Ascending
  <2>8. QED
    BY <2>3, <2>4, <2>5, <2>6, <2>7, <1>1
<1>3. QED
  BY <1>2 DEF Ascending

LEMMA WithinMore ==
  ASSUME NEW s \in Seq(Int), NEW S, Within(s, S), NEW i \in 1..(Len(s) + 1), NEW key \in S,
         NEW t, Len(t) = Len(s) + 1, Inserted(t, s, i, key)
  PROVE  Within(t, S)
<1>1. Len(s) \in Nat
  BY SeqFacts
<1>2. ASSUME NEW a \in 1..(Len(s) + 1) PROVE t[a] \in S
  <2>1. t[a] = IF a < i THEN s[a] ELSE IF a = i THEN key ELSE s[a - 1]
    BY DEF Inserted
  <2>2. /\ a < i => a \in 1..Len(s)
        /\ a > i => a - 1 \in 1..Len(s)
    BY <1>1
  <2>3. QED
    BY <2>1, <2>2, <1>1 DEF Within
<1>3. QED
  BY <1>2 DEF Within

Absent(key, s) == \A i \in 1..Len(s) : s[i] # key

LEMMA LeafInsert ==
  ASSUME NEW m \in Nat, NEW n \in Node(m), n.leaf, NEW S \in SUBSET Keys, LeafFits(n, S),
         NEW key \in S, Absent(key, n.keys), NEW loc \in Locs,
         NEW q, q = InsertIntoLeaf(n, key, loc)
  PROVE  /\ q \in Node(m) /\ q.leaf /\ SameLinks(q, n) /\ LeafFits(q, S)
         /\ Count(q) = Count(n) + 1
         /\ HoldsMore(q, n, key, loc)
<1> DEFINE i == FindKeyIndex(n, key)
<1>1. /\ n.keys \in Seq(Keys) /\ n.keys \in Seq(Int) /\ n.locs \in Seq(Locs) /\ Len(n.keys) \in Nat
      /\ key \in Keys /\ key \in Int
  BY NodeFacts, KeysAreInts
<1>2. Len(n.locs) = Len(n.keys) /\ n.kids = << >> /\ Ascending(n.keys) /\ Within(n.keys, S)
  BY DEF LeafFits
<1>3. /\ i \in 1..(Len(n.keys) + 1)
      /\ \A j \in 1..Len(n.keys) : j < i => n.keys[j] < key
      /\ \A j \in 1..Len(n.keys) : j >= i => n.keys[j] >= key
  BY <1>1, <1>2, FindKeyIndexIs
<1>4. \A j \in 1..Len(n.keys) : n.keys[j] \in Int /\ n.keys[j] # key
  BY <1>1, SeqFacts DEF Absent
<1>5. \A j \in 1..Len(n.keys) : j >= i => n.keys[j] > key
  BY <1>1, <1>3, <1>4
<1>6. /\ InsertAt(n.keys, i, key) \in Seq(Keys) /\ Len(InsertAt(n.keys, i, key)) = Len(n.keys) + 1
      /\ Inserted(InsertAt(n.keys, i, key), n.keys, i, key)
  BY <1>1, <1>3, InsertAtIs
<1>7. /\ InsertAt(n.locs, i, loc) \in Seq(Locs) /\ Len(InsertAt(n.locs, i, loc)) = Len(n.locs) + 1
      /\ Inserted(InsertAt(n.locs, i, loc), n.locs, i, loc)
  BY <1>1, <1>2, <1>3, InsertAtIs
<1>8. q = [n EXCEPT !.keys = InsertAt(n.keys, i, key), !.locs = InsertAt(n.locs, i, loc)]
  BY DEF InsertIntoLeaf
<1> HIDE DEF i
<1>9. /\ q \in Node(m) /\ q.leaf /\ SameLinks(q, n) /\ q.kids = n.kids
      /\ q.keys = InsertAt(n.keys, i, key) /\ q.locs = InsertAt(n.locs, i, loc)
  BY <1>6, <1>7, <1>8 DEF Node, SameLinks
<1>10. Ascending(q.keys)
  BY <1>1, <1>2, <1>3, <1>5, <1>6, <1>9, AscendingMore
<1>11. Within(q.keys, S)
  BY <1>1, <1>2, <1>3, <1>6, <1>9, WithinMore
<1>12. HoldsMore(q, n, key, loc)
  <2>1. /\ Len(n.keys) = Len(n.locs) /\ i \in 1..(Len(n.keys) + 1) /\ Len(q.locs) = Len(n.locs) + 1
        /\ Inserted(q.keys, n.keys, i, key) /\ Inserted(q.locs, n.locs, i, loc)
        /\ n.keys \in Seq(Int) /\ n.locs \in Seq(Locs)
    BY <1>1, <1>2, <1>3, <1>6, <1>7, <1>9
  <2>2. QED
    BY <2>1, EntriesInserted
<1>13. QED
  BY <1>2, <1>6, <1>7, <1>9, <1>10, <1>11, <1>12 DEF LeafFits, Count

LEMMA AscendingLess ==
  ASSUME NEW s \in Seq(Int), Ascending(s), NEW S, Within(s, S), NEW i \in 1..Len(s),
         NEW t, Len(t) = Len(s) - 1, Removed(t, s, i)
  PROVE  Ascending(t) /\ Within(t, S)
<1>1. Len(s) \in Nat
  BY SeqFacts
<1>2. \A a \in 1..(Len(s) - 1) : /\ t[a] = IF a < i THEN s[a] ELSE s[a + 1]
                                 /\ a \in 1..Len(s) /\ a + 1 \in 1..Len(s)
  BY <1>1 DEF Removed
<1>3. ASSUME NEW a \in 1..(Len(s) - 1), NEW b \in 1..(Len(s) - 1), a < b PROVE t[a] < t[b]
  <2>1. \A c, d \in 1..Len(s) : c < d => s[c] < s[d]
    BY DEF Ascending
  <2>2. CASE b < i
    BY <2>1, <2>2, <1>1, <1>2, <1>3
  <2>3. CASE ~(b < i) /\ a < i
    <3>1. a < b + 1
      BY <1>1, <1>3
    <3>2. t[a] = s[a] /\ t[b] = s[b + 1] /\ a \in 1..Len(s) /\ b + 1 \in 1..Len(s)
      BY <2>3, <1>2
    <3>3. QED
      BY <3>1, <3>2, <2>1
  <2>4. CASE ~(a < i)
    <3>1. /\ t[a] = s[a + 1] /\ t[b] = s[b + 1] /\ a + 1 < b + 1
          /\ a + 1 \in 1..Len(s) /\ b + 1 \in 1..Len(s)
      BY <2>4, <1>1, <1>2, <1>3, SMTT(20)
    <3>2. QED
      BY <3>1, <2>1
  <2>5. QED
    BY <2>2, <2>3, <2>4
<1>4. ASSUME NEW a \in 1..(Len(s) - 1) PROVE t[a] \in S
  BY <1>2 DEF Within
<1>5. QED
  BY <1>3, <1>4 DEF Ascending, Within

LEMMA LeafDelete ==
  ASSUME NEW m \in Nat, NEW n \in Node(m), n.leaf, NEW S \in SUBSET Keys, LeafFits(n, S),
         NEW i \in 1..Len(n.keys), NEW q, q = DeleteFromLeaf(n, i)
  PROVE  /\ q \in Node(m) /\ q.leaf /\ SameLinks(q, n) /\ LeafFits(q, S)
         /\ Count(q) = Count(n) - 1
         /\ EntriesOf(q) = EntriesOf(n) \ {<<n.keys[i], n.locs[i]>>}
<1>1. n.keys \in Seq(Keys) /\ n.keys \in Seq(Int) /\ n.locs \in Seq(Locs) /\ Len(n.keys) \in Nat
  BY NodeFacts
<1>2. Len(n.locs) = Len(n.keys) /\ n.kids = << >> /\ Ascending(n.keys) /\ Within(n.keys, S)
  BY DEF LeafFits
<1>3. /\ RemoveAt(n.keys, i) \in Seq(Keys) /\ Len(RemoveAt(n.keys, i)) = Len(n.keys) - 1
      /\ Removed(RemoveAt(n.keys, i), n.keys, i)
  BY <1>1, RemoveAtIs
<1>4. /\ RemoveAt(n.locs, i) \in Seq(Locs) /\ Len(RemoveAt(n.locs, i)) = Len(n.locs) - 1
      /\ Removed(RemoveAt(n.locs, i), n.locs, i)
  BY <1>1, <1>2, RemoveAtIs
<1>5. q = [n EXCEPT !.keys = RemoveAt(n.keys, i), !.locs = RemoveAt(n.locs, i)]
  BY DEF DeleteFromLeaf
<1>6. /\ q \in Node(m) /\ q.leaf /\ SameLinks(q, n) /\ q.kids = n.kids
      /\ q.keys = RemoveAt(n.keys, i) /\ q.locs = RemoveAt(n.locs, i)
  BY <1>3, <1>4, <1>5 DEF Node, SameLinks
<1>7. Ascending(q.keys) /\ Within(q.keys, S)
  BY <1>1, <1>2, <1>3, <1>6, AscendingLess
<1>8. EntriesOf(q) = EntriesOf(n) \ {<<n.keys[i], n.locs[i]>>}
  <2>1. /\ Len(n.keys) = Len(n.locs) /\ i \in 1..Len(n.keys) /\ Len(q.locs) = Len(n.locs) - 1
        /\ Removed(q.keys, n.keys, i) /\ Removed(q.locs, n.locs, i)
        /\ n.keys \in Seq(Int) /\ n.locs \in Seq(Locs) /\ Ascending(n.keys)
    BY <1>1, <1>2, <1>3, <1>4, <1>6
  <2>2. QED
    BY <2>1, EntriesRemoved
<1>9. QED
  BY <1>2, <1>3, <1>4, <1>6, <1>7, <1>8 DEF LeafFits, Count
=============================================================================
