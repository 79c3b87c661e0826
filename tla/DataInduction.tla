---------------------------- MODULE DataInduction ----------------------------
(***************************************************************************)
(* Induction and recursion over the naturals in a form that first-order    *)
(* provers can use: what the theorems of NaturalsInduction say of an       *)
(* operator, said here of a set and of a function.                         *)
(***************************************************************************)
EXTENDS NaturalsInduction, WellFoundedInduction, TLAPS

\* A set of naturals with a member has a least one.
LEMMA LeastNatural ==
  ASSUME NEW T \in SUBSET Nat, T # {}
  PROVE  \E m \in T : \A k \in T : m <= k
<1>1. PICK m \in T : \A k \in T : ~ (<<k, m>> \in OpToRel(<, Nat))
  BY NatLessThanWellFounded, WFMin
<1>2. \A k \in T : ~ (k < m)
  BY <1>1 DEF OpToRel
<1>3. QED
  BY <1>2

\* A set that has 0 and with every number the next has all of them.
LEMMA SetInduction ==
  ASSUME NEW T, 0 \in T, \A n \in Nat : n \in T => n + 1 \in T
  PROVE  \A n \in Nat : n \in T
<1> DEFINE Out == {n \in Nat : n \notin T}
<1>1. SUFFICES ASSUME Out # {} PROVE FALSE
  OBVIOUS
<1>2. PICK m \in Out : \A k \in Out : m <= k
  <2>1. Out \in SUBSET Nat
    OBVIOUS
  <2> HIDE DEF Out
  <2>2. QED
    BY <1>1, <2>1, LeastNatural
<1>3. m \in Nat /\ m # 0 /\ m - 1 \in Nat
  OBVIOUS
<1>4. m - 1 \in T
  BY <1>2, <1>3
<1>5. (m - 1) + 1 \in T
  BY <1>3, <1>4
<1>6. QED
  BY <1>3, <1>5

-----------------------------------------------------------------------------
(* Recursion: a first value and a step give a sequence of values.          *)

\* f is what the recursion computes up to n.
ComputedTo(n, f, S, first, step) ==
  /\ f \in [0..n -> S] /\ f[0] = first
  /\ \A i \in 0..n : i + 1 \in 0..n => f[i + 1] = step[<<i, f[i]>>]

LEMMA ComputedOneMore ==
  ASSUME NEW S, NEW first \in S, NEW step \in [Nat \X S -> S],
         NEW n \in Nat, NEW f, ComputedTo(n, f, S, first, step)
  PROVE  \E g : ComputedTo(n + 1, g, S, first, step)
<1> DEFINE g == [i \in 0..(n + 1) |-> IF i = n + 1 THEN step[<<n, f[n]>>] ELSE f[i]]
<1>1. f \in [0..n -> S] /\ f[0] = first
  BY DEF ComputedTo
<1>2. f[n] \in S
  BY <1>1
<1>3. step[<<n, f[n]>>] \in S
  BY <1>2
<1>4. \A i \in 0..(n + 1) : i # n + 1 => i \in 0..n
  OBVIOUS
<1>5. g \in [0..(n + 1) -> S]
  BY <1>1, <1>3, <1>4
<1>6. g[n + 1] = step[<<n, f[n]>>] /\ \A i \in 0..n : g[i] = f[i]
  <2>1. n + 1 \in 0..(n + 1) /\ \A i \in 0..n : i \in 0..(n + 1) /\ i # n + 1
    OBVIOUS
  <2>2. QED
    BY <2>1, Zenon
<1>7. ASSUME NEW i \in 0..(n + 1), i + 1 \in 0..(n + 1)
      PROVE  g[i + 1] = step[<<i, g[i]>>]
  <2>1. CASE i = n
    BY <2>1, <1>6
  <2>2. CASE i # n
    <3>1. i \in 0..n /\ i + 1 \in 0..n
      BY <2>2, <1>7
    <3>2. f[i + 1] = step[<<i, f[i]>>]
      BY <3>1 DEF ComputedTo
    <3>3. QED
      BY <3>1, <3>2, <1>6
  <2>3. QED
    BY <2>1, <2>2
<1>8. g[0] = first
  <2>1. 0 \in 0..n
    OBVIOUS
  <2>2. QED
    BY <2>1, <1>1, <1>6
<1> HIDE DEF g
<1>9. QED
  BY <1>5, <1>7, <1>8 DEF ComputedTo

\* Two computations agree as far as both go.
LEMMA ComputedAgree ==
  ASSUME NEW S, NEW first \in S, NEW step \in [Nat \X S -> S],
         NEW n \in Nat, NEW k \in Nat, NEW f, NEW g,
         ComputedTo(n, f, S, first, step), ComputedTo(k, g, S, first, step)
  PROVE  \A i \in Nat : i <= n /\ i <= k => f[i] = g[i]
<1> DEFINE T == {i \in Nat : i <= n /\ i <= k => f[i] = g[i]}
<1>1. 0 \in T
  BY DEF ComputedTo
<1>2. ASSUME NEW i \in Nat, i \in T PROVE i + 1 \in T
  <2>1. SUFFICES ASSUME i + 1 <= n, i + 1 <= k PROVE f[i + 1] = g[i + 1]
    OBVIOUS
  <2>2. /\ i \in 0..n /\ i + 1 \in 0..n
        /\ i \in 0..k /\ i + 1 \in 0..k
    BY <2>1
  <2>3. f[i] = g[i]
    BY <1>2, <2>2
  <2>4. QED
    BY <2>2, <2>3 DEF ComputedTo
<1> HIDE DEF T
<1>3. \A i \in Nat : i \in T
  BY <1>1, <1>2, SetInduction
<1>4. QED
  BY <1>3 DEF T

LEMMA ComputedExists ==
  ASSUME NEW S, NEW first \in S, NEW step \in [Nat \X S -> S]
  PROVE  \A n \in Nat : \E f : ComputedTo(n, f, S, first, step)
<1> DEFINE T == {n \in Nat : \E f : ComputedTo(n, f, S, first, step)}
<1>1. 0 \in T
  <2> DEFINE f == [i \in 0..0 |-> first]
  <2>1. f \in [0..0 -> S] /\ f[0] = first
    OBVIOUS
  <2>2. \A i \in 0..0 : ~ (i + 1 \in 0..0)
    OBVIOUS
  <2> HIDE DEF f
  <2>3. ComputedTo(0, f, S, first, step)
    BY <2>1, <2>2 DEF ComputedTo
  <2>4. QED
    BY <2>3
<1>2. ASSUME NEW n \in Nat, n \in T PROVE n + 1 \in T
  BY <1>2, ComputedOneMore
<1> HIDE DEF T
<1>3. \A n \in Nat : n \in T
  BY <1>1, <1>2, SetInduction
<1>4. QED
  BY <1>3 DEF T

\* f is the whole sequence.
Computed(f, S, first, step) ==
  /\ f \in [Nat -> S] /\ f[0] = first
  /\ \A n \in Nat : f[n + 1] = step[<<n, f[n]>>]

\* There is a function on the naturals with that first value and that step.
LEMMA RecursionExists ==
  ASSUME NEW S, NEW first \in S, NEW step \in [Nat \X S -> S]
  PROVE  \E f : Computed(f, S, first, step)
<1> DEFINE part == [n \in Nat |-> CHOOSE f : ComputedTo(n, f, S, first, step)]
           f == [n \in Nat |-> part[n][n]]
<1>1. \A n \in Nat : ComputedTo(n, part[n], S, first, step)
  BY ComputedExists
<1> HIDE DEF part
<1>2. f \in [Nat -> S] /\ f[0] = first
  <2>1. ASSUME NEW n \in Nat PROVE part[n][n] \in S
    <3> DEFINE g == part[n]
    <3>1. ComputedTo(n, g, S, first, step)
      BY <1>1
    <3> HIDE DEF g
    <3>2. n \in 0..n /\ g \in [0..n -> S]
      BY <3>1 DEF ComputedTo
    <3>3. g[n] \in S
      BY <3>2
    <3>4. QED
      BY <3>3 DEF g
  <2>2. part[0][0] = first
    BY <1>1 DEF ComputedTo
  <2>3. QED
    BY <2>1, <2>2
<1>3. ASSUME NEW n \in Nat PROVE f[n + 1] = step[<<n, f[n]>>]
  <2>1. n + 1 \in Nat /\ n \in 0..(n + 1) /\ n + 1 \in 0..(n + 1) /\ n <= n + 1
    OBVIOUS
  <2>2. part[n + 1][n + 1] = step[<<n, part[n + 1][n]>>]
    BY <2>1, <1>1 DEF ComputedTo
  <2>3. part[n][n] = part[n + 1][n]
    <3> DEFINE g == part[n]
               h == part[n + 1]
    <3>1. ComputedTo(n, g, S, first, step) /\ ComputedTo(n + 1, h, S, first, step)
      BY <2>1, <1>1
    <3> HIDE DEF g, h
    <3>2. g[n] = h[n]
      BY <2>1, <3>1, ComputedAgree
    <3>3. QED
      BY <3>2 DEF g, h
  <2>4. QED
    BY <2>1, <2>2, <2>3
<1> HIDE DEF f
<1>4. Computed(f, S, first, step)
  BY <1>2, <1>3 DEF Computed
<1>5. QED
  BY <1>4
-----------------------------------------------------------------------------
(* Recursion that leads to values of a lower rank.                         *)

\* step takes a function to one whose values depend on values of lower rank.
Ranked(D, V, rank, step) ==
  /\ V # {} /\ rank \in [D -> Nat] /\ step \in [[D -> V] -> [D -> V]]
  /\ \A F, G \in [D -> V], d \in D :
       (\A e \in D : rank[e] < rank[d] => F[e] = G[e]) => step[F][d] = step[G][d]

LEMMA RankedRecursion ==
  ASSUME NEW D, NEW V, NEW rank, NEW step, Ranked(D, V, rank, step)
  PROVE  \E f \in [D -> V] : f = step[f]
<1> USE DEF Ranked
<1> PICK v \in V : TRUE
  OBVIOUS
<1> DEFINE S == [D -> V]
           first == [d \in D |-> v]
           next == [p \in Nat \X S |-> step[p[2]]]
<1>1. first \in S /\ next \in [Nat \X S -> S]
  OBVIOUS
<1>2. \A n \in Nat, F \in S : next[<<n, F>>] = step[F]
  OBVIOUS
<1> HIDE DEF first, next
<1>3. PICK h : Computed(h, S, first, next)
  BY <1>1, RecursionExists
<1>4. /\ \A n \in Nat : h[n] \in S
      /\ \A n \in Nat : h[n + 1] = step[h[n]]
  BY <1>2, <1>3 DEF Computed
\* At a stage above the rank of a value it does not change any more.
<1>5. \A n \in Nat : \A d \in D : rank[d] < n => h[n + 1][d] = h[n][d]
  <2> DEFINE T == {n \in Nat : \A d \in D : rank[d] < n => h[n + 1][d] = h[n][d]}
  <2>1. 0 \in T
    OBVIOUS
  <2>2. ASSUME NEW n \in Nat, n \in T PROVE n + 1 \in T
    <3>1. SUFFICES ASSUME NEW d \in D, rank[d] < n + 1
                   PROVE  h[n + 1 + 1][d] = h[n + 1][d]
      OBVIOUS
    <3>2. \A e \in D : rank[e] < rank[d] => h[n + 1][e] = h[n][e]
      BY <2>2, <3>1
    <3>3. h[n + 1] \in S /\ h[n] \in S /\ n + 1 \in Nat
      BY <1>4
    <3>4. step[h[n + 1]][d] = step[h[n]][d]
      BY <3>2, <3>3
    <3>5. QED
      BY <3>3, <3>4, <1>4
  <2> HIDE DEF T
  <2>3. \A n \in Nat : n \in T
    BY <2>1, <2>2, SetInduction
  <2>4. QED
    BY <2>3 DEF T
<1>6. ASSUME NEW d \in D PROVE \A m \in Nat : h[rank[d] + 1 + m][d] = h[rank[d] + 1][d]
  <2> DEFINE r == rank[d] + 1
             T == {m \in Nat : h[r + m][d] = h[r][d]}
  <2>1. r \in Nat /\ rank[d] \in Nat
    OBVIOUS
  <2>2. 0 \in T
    BY <2>1
  <2>3. ASSUME NEW m \in Nat, m \in T PROVE m + 1 \in T
    <3>1. r + m \in Nat /\ rank[d] < r + m /\ r + (m + 1) = (r + m) + 1
      BY <2>1
    <3>2. h[(r + m) + 1][d] = h[r + m][d]
      BY <3>1, <1>5
    <3>3. QED
      BY <2>3, <3>1, <3>2
  <2> HIDE DEF T
  <2>4. \A m \in Nat : m \in T
    BY <2>2, <2>3, SetInduction
  <2>5. QED
    BY <2>4 DEF T
<1> DEFINE f == [d \in D |-> h[rank[d] + 1][d]]
<1>7. f \in S
  BY <1>4
<1>8. \A d \in D : f[d] = step[f][d]
  <2>1. TAKE d \in D
  <2> DEFINE m == rank[d]
  <2>2. m \in Nat
    OBVIOUS
  <2>3. h[m + 1][d] = step[h[m]][d] /\ h[m] \in S
    BY <2>2, <1>4
  <2>4. ASSUME NEW e \in D, rank[e] < m PROVE h[m][e] = f[e]
    <3>1. m - (rank[e] + 1) \in Nat /\ rank[e] + 1 + (m - (rank[e] + 1)) = m
      BY <2>2, <2>4
    <3>2. QED
      BY <3>1, <1>6
  <2>5. f[d] = h[m + 1][d]
    OBVIOUS
  <2> HIDE DEF m, f
  <2>6. step[h[m]][d] = step[f][d]
    BY <2>3, <2>4, <1>7 DEF m
  <2>7. QED
    BY <2>3, <2>5, <2>6
<1> HIDE DEF f
<1>9. step[f] \in S
  BY <1>7
<1>10. f = step[f]
  BY <1>7, <1>8, <1>9
<1>11. QED
  BY <1>7, <1>10

=============================================================================
