--------------------------- MODULE BufferPoolProofs ---------------------------
(***************************************************************************)
(* Proofs about BufferPool, for files, caches and page contents of any     *)
(* size: a page that a caller holds is never evicted, and the pool is a    *)
(* page store.  The argument is that a page at rank r is evicted only      *)
(* after Capacity - r further misses, and that a caller makes fewer.       *)
(***************************************************************************)
EXTENDS BufferPool, TLAPS

-----------------------------------------------------------------------------
(* The list of the cache.                                                  *)

LEMMA RankBounds ==
  ASSUME BTypeOK, NEW p \in PageIds
  PROVE  /\ rank[p] \in 0..Capacity /\ rank[p] \in Int
         /\ size \in Int /\ 0 <= size /\ size <= Capacity
         /\ held[p] \in {NotHeld} \cup 0..HoldMax
         /\ Capacity \in Nat \ {0} /\ HoldMax \in Nat /\ HoldMax < Capacity
BY PoolAssumption DEF BTypeOK

\* Moving a node to the front keeps the list a list.
LEMMA MovedToFrontList ==
  ASSUME BInv, NEW p \in PageIds, Cached(p), rank' = MovedToFront(p),
         UNCHANGED size
  PROVE  /\ rank' \in [PageIds -> 0..Capacity]
         /\ ListOK'
         /\ rank'[p] = 1
         /\ \A q \in PageIds \ {p} : /\ Cached(q)' <=> Cached(q)
                                     /\ rank'[q] <= rank[q] + 1
<1>1. \A q \in PageIds : rank[q] \in 0..Capacity /\ rank[q] <= size
  BY RankBounds DEF BInv, ListOK
<1>2. size \in 0..Capacity /\ Capacity \in Nat \ {0}
  BY PoolAssumption DEF BInv, BTypeOK
<1>3. rank'[p] = 1 /\ rank[p] \in 1..size
  BY <1>1, <1>2 DEF MovedToFront, Cached
<1>4. ASSUME NEW q \in PageIds, q # p
      PROVE  \/ rank[q] # 0 /\ rank[q] < rank[p] /\ rank'[q] = rank[q] + 1
             \/ rank[q] = 0 /\ rank'[q] = 0
             \/ rank[q] >= rank[p] /\ rank'[q] = rank[q]
  BY <1>1, <1>3, <1>4 DEF MovedToFront, Cached
<1>5. \A q, r \in PageIds : Cached(q) /\ rank[q] = rank[r] => q = r
  BY DEF BInv, ListOK
<1>6. ASSUME NEW q \in PageIds
      PROVE  rank'[q] \in 0..size
  BY <1>1, <1>2, <1>3, <1>4
<1>7. rank' \in [PageIds -> 0..Capacity]
  <2>1. \A q \in PageIds : rank'[q] \in 0..Capacity
    BY <1>2, <1>6
  <2>2. QED
    BY <2>1 DEF MovedToFront
<1>8. ASSUME NEW q \in PageIds, NEW r \in PageIds, rank'[q] # 0,
             rank'[q] = rank'[r]
      PROVE  q = r
  <2>1. ASSUME NEW s \in PageIds, s # p
        PROVE  rank'[s] # 1
    <3>1. rank[s] # rank[p] /\ rank[s] \in Nat
      BY <2>1, <1>1, <1>3, <1>5 DEF Cached
    <3>2. QED
      BY <2>1, <3>1, <1>3, <1>4
  <2>2. CASE q = p
    BY <2>1, <2>2, <1>3, <1>8
  <2>3. CASE r = p
    BY <2>1, <2>3, <1>3, <1>8
  <2>4. CASE q # p /\ r # p
    <3>1. rank[q] # rank[p] /\ rank[r] # rank[p]
      BY <2>4, <1>3, <1>5 DEF Cached
    <3>2. rank[q] # 0 /\ rank[q] = rank[r]
      BY <2>4, <3>1, <1>1, <1>3, <1>4, <1>8
    <3>3. QED
      BY <3>2, <1>5 DEF Cached
  <2>5. QED
    BY <2>2, <2>3, <2>4
<1>9. ASSUME NEW i \in 1..size
      PROVE  \E q \in PageIds : rank'[q] = i
  <2>1. CASE i = 1
    BY <2>1, <1>3
  <2>2. CASE i # 1 /\ i <= rank[p]
    <3>1. i - 1 \in 1..size
      BY <2>2, <1>2
    <3>2. PICK q \in PageIds : rank[q] = i - 1
      BY <3>1 DEF BInv, ListOK
    <3>3. QED
      BY <3>2, <2>2, <1>3, <1>4
  <2>3. CASE i > rank[p]
    <3>1. PICK q \in PageIds : rank[q] = i
      BY DEF BInv, ListOK
    <3>2. QED
      BY <3>1, <2>3, <1>3, <1>4
  <2>4. QED
    BY <2>1, <2>2, <2>3, <1>3
<1>10. ListOK'
  BY <1>2, <1>6, <1>8, <1>9 DEF ListOK, Cached
<1>11. \A q \in PageIds \ {p} : /\ Cached(q)' <=> Cached(q)
                                /\ rank'[q] <= rank[q] + 1
  BY <1>1, <1>3, <1>4 DEF Cached
<1>12. QED
  BY <1>3, <1>7, <1>10, <1>11

\* So does a new node in front, with the last one taken out of a full list.
LEMMA InsertedList ==
  ASSUME BInv, NEW p \in PageIds, ~Cached(p), rank' = Inserted(p),
         size' = IF IsFull THEN size ELSE size + 1
  PROVE  /\ rank' \in [PageIds -> 0..Capacity] /\ size' \in 0..Capacity
         /\ ListOK'
         /\ rank'[p] = 1
         /\ \A q \in PageIds \ {p} :
              \/ ~Cached(q) /\ rank'[q] = 0
              \/ Victim(q) /\ rank[q] = Capacity /\ rank'[q] = 0
              \/ Cached(q) /\ ~Victim(q) /\ rank'[q] = rank[q] + 1
<1>1. \A q \in PageIds : rank[q] \in 0..Capacity /\ rank[q] <= size
  BY RankBounds DEF BInv, ListOK
<1>2. size \in 0..Capacity /\ Capacity \in Nat \ {0}
  BY PoolAssumption DEF BInv, BTypeOK
<1>3. size' \in 1..Capacity
  BY <1>2 DEF IsFull
<1>4. rank'[p] = 1 /\ rank[p] = 0
  BY DEF Inserted, Cached
<1>5. ASSUME NEW q \in PageIds, q # p
      PROVE  \/ rank[q] = 0 /\ rank'[q] = 0
             \/ Victim(q) /\ rank[q] = Capacity /\ rank'[q] = 0
             \/ /\ rank[q] # 0 /\ ~Victim(q) /\ rank'[q] = rank[q] + 1
                /\ rank'[q] <= size'
  <2>1. CASE rank[q] = 0
    BY <2>1, <1>5 DEF Inserted, Cached
  <2>2. CASE rank[q] # 0 /\ Victim(q)
    BY <2>2, <1>2, <1>5 DEF Inserted, Cached, Victim, IsFull
  <2>3. CASE rank[q] # 0 /\ ~Victim(q)
    <3>1. rank'[q] = rank[q] + 1
      BY <2>3, <1>5 DEF Inserted, Cached
    <3>2. CASE IsFull
      BY <3>1, <3>2, <2>3, <1>1, <1>2 DEF Victim, Cached
    <3>3. CASE ~IsFull
      BY <3>1, <3>3, <2>3, <1>1, <1>2
    <3>4. QED
      BY <3>2, <3>3
  <2>4. QED
    BY <2>1, <2>2, <2>3
<1>6. \A q, r \in PageIds : Cached(q) /\ rank[q] = rank[r] => q = r
  BY DEF BInv, ListOK
<1>7. ASSUME NEW q \in PageIds
      PROVE  rank'[q] \in 0..Capacity /\ rank'[q] <= size'
  BY <1>1, <1>2, <1>3, <1>4, <1>5
<1>8. rank' \in [PageIds -> 0..Capacity]
  BY <1>7 DEF Inserted
<1>9. ASSUME NEW q \in PageIds, NEW r \in PageIds, rank'[q] # 0,
             rank'[q] = rank'[r]
      PROVE  q = r
  <2>1. CASE q = p \/ r = p
    BY <2>1, <1>1, <1>4, <1>5, <1>9
  <2>2. CASE q # p /\ r # p
    <3>1. rank[q] # 0 /\ rank[q] = rank[r]
      BY <2>2, <1>1, <1>5, <1>9
    <3>2. QED
      BY <3>1, <1>6 DEF Cached
  <2>3. QED
    BY <2>1, <2>2
<1>10. ASSUME NEW i \in 1..size'
       PROVE  \E q \in PageIds : rank'[q] = i
  <2>1. CASE i = 1
    BY <2>1, <1>4
  <2>2. CASE i # 1
    <3>1. i - 1 \in 1..size
      BY <2>2, <1>2
    <3>2. PICK q \in PageIds : rank[q] = i - 1
      BY <3>1 DEF BInv, ListOK
    <3>3. ~Victim(q)
      BY <3>2, <1>2 DEF Victim
    <3>4. QED
      BY <3>1, <3>2, <3>3, <1>4, <1>5
  <2>3. QED
    BY <2>1, <2>2
<1>11. ListOK'
  BY <1>7, <1>9, <1>10 DEF ListOK, Cached
<1>12. QED
  BY <1>3, <1>4, <1>5, <1>8, <1>11 DEF Cached
-----------------------------------------------------------------------------
(* The inductive invariant.                                                *)

LEMMA BInitInv == BInit => BInv
<1>1. SUFFICES ASSUME BInit PROVE BInv
  OBVIOUS
<1>2. BTypeOK
  BY <1>1, PoolAssumption
     DEF BInit, BTypeOK, Frame, NoFrame, NotHeld, PageIds
<1>3. ListOK
  BY <1>1 DEF BInit, ListOK, Cached
<1>4. HeldNearFront /\ CleanIsSaved
  BY <1>1 DEF BInit, HeldNearFront, CleanIsSaved, Cached, NotHeld, PageIds
<1>5. QED
  BY <1>2, <1>3, <1>4 DEF BInv

LEMMA AllocateInv == BInv /\ AllocatePage => BInv'
<1>1. SUFFICES ASSUME BInv, AllocatePage PROVE BInv'
  OBVIOUS
<1>2. total + 1 \in 1..MaxPages /\ total \in Nat
  BY <1>1, PoolAssumption DEF BInv, BTypeOK, AllocatePage
<1>3. BTypeOK'
  BY <1>1, <1>2, PoolAssumption DEF BInv, BTypeOK, AllocatePage, PageIds
<1>4. ListOK' /\ HeldNearFront'
  BY <1>1 DEF BInv, ListOK, HeldNearFront, AllocatePage, Cached
<1>5. CleanIsSaved'
  <2>1. SUFFICES ASSUME NEW p \in PageIds
                 PROVE  /\ Cached(p)' /\ ~frame'[p].dirty
                             => frame'[p].val = disk'[p]
                        /\ p > total' => ~Cached(p)' /\ disk'[p] = Zero
    BY DEF CleanIsSaved
  <2>2. UNCHANGED <<rank, frame>> /\ total' = total + 1
    BY <1>1 DEF AllocatePage
  <2>3. disk'[p] = IF p = total + 1 THEN Zero ELSE disk[p]
    BY <1>1 DEF AllocatePage, BInv, BTypeOK
  <2>4. p \in Int
    BY DEF PageIds
  <2>5. CASE p = total + 1
    <3>1. ~Cached(p)
      BY <1>1, <1>2, <2>5 DEF BInv, CleanIsSaved
    <3>2. QED
      BY <2>2, <2>3, <2>5, <3>1, <1>2 DEF Cached
  <2>6. CASE p # total + 1
    BY <1>1, <1>2, <2>2, <2>3, <2>4, <2>6 DEF BInv, CleanIsSaved, Cached
  <2>7. QED
    BY <2>5, <2>6
<1>6. QED
  BY <1>3, <1>4, <1>5 DEF BInv

LEMMA FetchedHeld ==
  ASSUME BInv, NEW p \in PageIds, Fetched(p)
  PROVE  /\ held' \in [PageIds -> {NotHeld} \cup 0..HoldMax]
         /\ held'[p] = 0
         /\ \A q \in PageIds \ {p} :
              \/ held[q] = NotHeld /\ held'[q] = NotHeld
              \/ /\ held[q] \in 0..(HoldMax - 1)
                 /\ held'[q] = held[q] + 1 /\ held'[q] # NotHeld
<1>1. ASSUME NEW q \in PageIds \ {p}
      PROVE  \/ held[q] = NotHeld /\ held'[q] = NotHeld
             \/ /\ held[q] \in 0..(HoldMax - 1)
                /\ held'[q] = held[q] + 1 /\ held'[q] # NotHeld
  <2>1. held[q] \in {NotHeld} \cup 0..HoldMax /\ HoldMax \in Nat
    BY RankBounds DEF BInv
  <2>2. CASE held[q] = NotHeld
    BY <2>2 DEF Fetched
  <2>3. CASE held[q] # NotHeld
    <3>1. held[q] \in 0..(HoldMax - 1)
      BY <2>1, <2>3 DEF Fetched
    <3>2. held'[q] = held[q] + 1
      BY <2>3 DEF Fetched
    <3>3. QED
      BY <3>1, <3>2 DEF NotHeld
  <2>4. QED
    BY <2>2, <2>3
<1>2. held'[p] = 0
  BY DEF Fetched
<1>3. HoldMax \in Nat
  BY PoolAssumption
<1>4. \A q \in PageIds : held'[q] \in {NotHeld} \cup 0..HoldMax
  BY <1>1, <1>2, <1>3
<1>5. held' \in [PageIds -> {NotHeld} \cup 0..HoldMax]
  BY <1>4 DEF Fetched
<1>6. QED
  BY <1>1, <1>2, <1>5

LEMMA HitInv ==
  ASSUME BInv, NEW p \in PageIds, GetCachedPage(p)
  PROVE  BInv'
<1>1. /\ Cached(p) /\ rank' = MovedToFront(p) /\ Fetched(p)
      /\ UNCHANGED <<total, disk, size, frame>>
  BY DEF GetCachedPage
<1>2. /\ rank' \in [PageIds -> 0..Capacity]
      /\ ListOK'
      /\ rank'[p] = 1
      /\ \A q \in PageIds \ {p} : /\ Cached(q)' <=> Cached(q)
                                  /\ rank'[q] <= rank[q] + 1
  BY <1>1, MovedToFrontList
<1>3. /\ held' \in [PageIds -> {NotHeld} \cup 0..HoldMax]
      /\ held'[p] = 0
      /\ \A q \in PageIds \ {p} :
           \/ held[q] = NotHeld /\ held'[q] = NotHeld
           \/ /\ held[q] \in 0..(HoldMax - 1)
              /\ held'[q] = held[q] + 1 /\ held'[q] # NotHeld
  BY <1>1, FetchedHeld
<1>4. BTypeOK'
  BY <1>1, <1>2, <1>3 DEF BInv, BTypeOK
<1>5. \A q \in PageIds : Cached(q)' <=> Cached(q)
  BY <1>1, <1>2 DEF Cached
<1>6. HeldNearFront'
  <2>1. SUFFICES ASSUME NEW q \in PageIds, held'[q] # NotHeld
                 PROVE  Cached(q)' /\ rank'[q] <= held'[q] + 1
    BY DEF HeldNearFront
  <2>2. CASE q = p
    BY <2>2, <1>2, <1>3 DEF Cached
  <2>3. CASE q # p
    <3>1. held[q] # NotHeld /\ held'[q] = held[q] + 1 /\ held[q] \in Int
      BY <2>1, <2>3, <1>3 DEF NotHeld
    <3>2. Cached(q) /\ rank[q] <= held[q] + 1
      BY <3>1 DEF BInv, HeldNearFront
    <3>3. Cached(q)' /\ rank'[q] <= rank[q] + 1
      BY <2>3, <3>2, <1>2
    <3>4. rank[q] \in Int /\ rank'[q] \in Int
      BY <1>2, RankBounds DEF BInv
    <3>5. rank'[q] <= held'[q] + 1
      BY <3>1, <3>2, <3>3, <3>4
    <3>6. QED
      BY <3>3, <3>5
  <2>4. QED
    BY <2>2, <2>3
<1>7. CleanIsSaved'
  BY <1>1, <1>5 DEF BInv, CleanIsSaved
<1>8. QED
  BY <1>2, <1>4, <1>6, <1>7 DEF BInv

LEMMA MissInv ==
  ASSUME BInv, NEW p \in PageIds, GetPageFromDisk(p)
  PROVE  BInv'
<1>1. /\ ~Cached(p) /\ rank' = Inserted(p) /\ Fetched(p)
      /\ size' = IF IsFull THEN size ELSE size + 1
      /\ p <= total /\ UNCHANGED total
  BY DEF GetPageFromDisk, WrittenBack
<1>2. /\ rank' \in [PageIds -> 0..Capacity] /\ size' \in 0..Capacity
      /\ ListOK'
      /\ rank'[p] = 1
      /\ \A q \in PageIds \ {p} :
           \/ ~Cached(q) /\ rank'[q] = 0
           \/ Victim(q) /\ rank[q] = Capacity /\ rank'[q] = 0
           \/ Cached(q) /\ ~Victim(q) /\ rank'[q] = rank[q] + 1
  BY <1>1, InsertedList
<1>3. /\ held' \in [PageIds -> {NotHeld} \cup 0..HoldMax]
      /\ held'[p] = 0
      /\ \A q \in PageIds \ {p} :
           \/ held[q] = NotHeld /\ held'[q] = NotHeld
           \/ /\ held[q] \in 0..(HoldMax - 1)
              /\ held'[q] = held[q] + 1 /\ held'[q] # NotHeld
  BY <1>1, FetchedHeld
<1>4. /\ \A q \in PageIds :
           /\ frame[q] \in Frame /\ frame[q].val \in Contents
           /\ frame[q].dirty \in BOOLEAN /\ disk[q] \in Contents
      /\ Zero \in Contents
  BY PoolAssumption DEF BInv, BTypeOK, Frame
<1>5. \A q \in PageIds :
        /\ disk'[q] = IF Victim(q) /\ frame[q].dirty
                      THEN frame[q].val ELSE disk[q]
        /\ frame'[q] = IF q = p THEN [val |-> disk[p], dirty |-> FALSE]
                       ELSE IF Victim(q) THEN NoFrame ELSE frame[q]
  BY DEF GetPageFromDisk, WrittenBack
<1>6. disk' \in [PageIds -> Contents]
  <2>1. \A q \in PageIds : disk'[q] \in Contents
    BY <1>4, <1>5
  <2>2. QED
    BY <2>1 DEF GetPageFromDisk, WrittenBack
<1>7. frame' \in [PageIds -> Frame]
  <2>1. \A q \in PageIds : [val |-> disk[q], dirty |-> FALSE] \in Frame
    BY <1>4 DEF Frame
  <2>2. NoFrame \in Frame
    BY <1>4 DEF Frame, NoFrame
  <2>3. \A q \in PageIds : frame'[q] \in Frame
    BY <1>4, <1>5, <2>1, <2>2
  <2>4. QED
    BY <2>3 DEF GetPageFromDisk, WrittenBack
<1>8. BTypeOK'
  BY <1>1, <1>2, <1>3, <1>6, <1>7 DEF BInv, BTypeOK
<1>9. HeldNearFront'
  <2>1. SUFFICES ASSUME NEW q \in PageIds, held'[q] # NotHeld
                 PROVE  Cached(q)' /\ rank'[q] <= held'[q] + 1
    BY DEF HeldNearFront
  <2>2. CASE q = p
    BY <2>2, <1>2, <1>3 DEF Cached
  <2>3. CASE q # p
    <3>1. held'[q] = held[q] + 1 /\ held[q] \in 0..(HoldMax - 1)
      BY <2>1, <2>3, <1>3
    <3>2. held[q] # NotHeld
      BY <3>1 DEF NotHeld
    <3>3. Cached(q) /\ rank[q] <= held[q] + 1
      BY <3>2 DEF BInv, HeldNearFront
    <3>4. rank[q] \in Nat /\ HoldMax \in Nat /\ Capacity \in Nat
            /\ HoldMax < Capacity
      BY RankBounds DEF BInv
    <3>5. rank[q] # Capacity
      BY <3>1, <3>3, <3>4
    <3>6. rank'[q] = rank[q] + 1
      BY <2>3, <3>3, <3>5, <1>2
    <3>7. QED
      BY <3>1, <3>3, <3>4, <3>6 DEF Cached
  <2>4. QED
    BY <2>2, <2>3
<1>10. CleanIsSaved'
  <2>1. SUFFICES ASSUME NEW q \in PageIds
                 PROVE  /\ Cached(q)' /\ ~frame'[q].dirty
                             => frame'[q].val = disk'[q]
                        /\ q > total' => ~Cached(q)' /\ disk'[q] = Zero
    BY DEF CleanIsSaved
  <2>2. /\ Cached(q) /\ ~frame[q].dirty => frame[q].val = disk[q]
        /\ q > total => ~Cached(q) /\ disk[q] = Zero
    BY DEF BInv, CleanIsSaved
  <2>3. Victim(q) => Cached(q)
    BY DEF Victim
  <2>4. CASE q = p
    <3>1. disk'[q] = disk[q]
      BY <2>3, <2>4, <1>1, <1>5
    <3>2. frame'[q].val = disk[q]
      BY <2>4, <1>5
    <3>3. ~(q > total')
      BY <2>4, <1>1, PoolAssumption DEF PageIds, BInv, BTypeOK
    <3>4. QED
      BY <3>1, <3>2, <3>3
  <2>5. CASE q # p /\ ~Cached(q)
    <3>1. ~Cached(q)' /\ disk'[q] = disk[q]
      BY <2>3, <2>5, <1>2, <1>5 DEF Cached
    <3>2. QED
      BY <2>2, <3>1, <1>1
  <2>6. CASE q # p /\ Cached(q) /\ Victim(q)
    <3>1. ~Cached(q)'
      BY <2>6, <1>2 DEF Cached
    <3>2. QED
      BY <2>2, <2>6, <3>1, <1>1
  <2>7. CASE q # p /\ Cached(q) /\ ~Victim(q)
    <3>1. frame'[q] = frame[q] /\ disk'[q] = disk[q]
      BY <2>7, <1>5
    <3>2. QED
      BY <2>2, <2>7, <3>1, <1>1
  <2>8. QED
    BY <2>4, <2>5, <2>6, <2>7
<1>11. QED
  BY <1>2, <1>8, <1>9, <1>10 DEF BInv

LEMMA ReleaseInv ==
  ASSUME BInv, NEW p \in PageIds, Release(p)
  PROVE  BInv'
<1>1. UNCHANGED <<total, disk, rank, size, frame>>
  BY DEF Release
<1>2. \A q \in PageIds : held'[q] = NotHeld \/ held'[q] = held[q]
  BY DEF Release, BInv, BTypeOK
<1>3. held' \in [PageIds -> {NotHeld} \cup 0..HoldMax]
  BY DEF Release, BInv, BTypeOK
<1>4. BTypeOK' /\ ListOK' /\ CleanIsSaved'
  BY <1>1, <1>3 DEF BInv, BTypeOK, ListOK, CleanIsSaved, Cached
<1>5. HeldNearFront'
  BY <1>1, <1>2 DEF BInv, HeldNearFront, Cached
<1>6. QED
  BY <1>4, <1>5 DEF BInv

LEMMA WriteInv ==
  ASSUME BInv, NEW p \in PageIds, NEW v \in Contents, WritePage(p, v)
  PROVE  BInv'
<1>1. UNCHANGED <<total, disk, rank, size, held>> /\ held[p] # NotHeld
  BY DEF WritePage
<1>2. Cached(p)
  BY <1>1 DEF BInv, HeldNearFront
<1>3. frame' = [frame EXCEPT ![p] = [val |-> v, dirty |-> TRUE]]
  BY <1>2 DEF WritePage
<1>4. \A q \in PageIds : frame'[q] = IF q = p
                                     THEN [val |-> v, dirty |-> TRUE]
                                     ELSE frame[q]
  BY <1>3 DEF BInv, BTypeOK
<1>5. frame' \in [PageIds -> Frame]
  <2>1. [val |-> v, dirty |-> TRUE] \in Frame
    BY DEF Frame
  <2>2. QED
    BY <2>1, <1>3 DEF BInv, BTypeOK
<1>6. BTypeOK' /\ ListOK' /\ HeldNearFront'
  BY <1>1, <1>5 DEF BInv, BTypeOK, ListOK, HeldNearFront, Cached
<1>7. CleanIsSaved'
  <2>1. SUFFICES ASSUME NEW q \in PageIds
                 PROVE  /\ Cached(q)' /\ ~frame'[q].dirty
                             => frame'[q].val = disk'[q]
                        /\ q > total' => ~Cached(q)' /\ disk'[q] = Zero
    BY DEF CleanIsSaved
  <2>2. CASE q = p
    <3>1. frame'[q].dirty
      BY <2>2, <1>4
    <3>2. QED
      BY <2>2, <3>1, <1>1, <1>2 DEF BInv, CleanIsSaved
  <2>3. CASE q # p
    BY <2>3, <1>1, <1>4 DEF BInv, CleanIsSaved, Cached
  <2>4. QED
    BY <2>2, <2>3
<1>8. QED
  BY <1>6, <1>7 DEF BInv

\* After a close or a crash nothing is cached, whatever the file holds.
LEMMA ReopenedInv ==
  ASSUME BInv, Reopened, disk' \in [PageIds -> Contents],
         \A p \in PageIds : p > total => disk'[p] = Zero
  PROVE  BInv'
<1>1. /\ UNCHANGED total /\ size' = 0
      /\ \A p \in PageIds : /\ rank'[p] = 0 /\ held'[p] = NotHeld
                            /\ frame'[p] = NoFrame
  BY DEF Reopened
<1>2. BTypeOK'
  BY PoolAssumption
     DEF BInv, Reopened, BTypeOK, Frame, NoFrame, NotHeld
<1>3. ListOK'
  BY <1>1 DEF ListOK, Cached
<1>4. HeldNearFront' /\ CleanIsSaved'
  BY <1>1 DEF HeldNearFront, CleanIsSaved, Cached
<1>5. QED
  BY <1>2, <1>3, <1>4 DEF BInv

LEMMA CloseInv == BInv /\ Close => BInv'
<1>1. SUFFICES ASSUME BInv, Close PROVE BInv'
  OBVIOUS
<1>2. \A p \in PageIds : disk'[p] = IF Cached(p) /\ frame[p].dirty
                                    THEN frame[p].val ELSE disk[p]
  BY <1>1 DEF Close
<1>3. \A p \in PageIds : frame[p].val \in Contents /\ disk[p] \in Contents
  BY <1>1 DEF BInv, BTypeOK, Frame
<1>4. disk' \in [PageIds -> Contents]
  <2>1. \A p \in PageIds : disk'[p] \in Contents
    BY <1>2, <1>3
  <2>2. QED
    BY <1>1, <2>1 DEF Close
<1>5. \A p \in PageIds : p > total => disk'[p] = Zero
  BY <1>1, <1>2 DEF BInv, CleanIsSaved
<1>6. QED
  BY <1>1, <1>4, <1>5, ReopenedInv DEF Close

LEMMA CrashInv == BInv /\ Crash => BInv'
<1>1. SUFFICES ASSUME BInv, Crash PROVE BInv'
  OBVIOUS
<1>2. /\ disk' \in [PageIds -> Contents]
      /\ \A p \in PageIds : p > total => disk'[p] = Zero
  BY <1>1 DEF Crash, BInv, BTypeOK, CleanIsSaved
<1>3. QED
  BY <1>1, <1>2, ReopenedInv DEF Crash

LEMMA BStepInv == BInv /\ [BNext]_bvars => BInv'
<1>1. SUFFICES ASSUME BInv, [BNext]_bvars PROVE BInv'
  OBVIOUS
<1>2. CASE AllocatePage
  BY <1>1, <1>2, AllocateInv
<1>3. CASE \E p \in PageIds : GetCachedPage(p)
  BY <1>1, <1>3, HitInv
<1>4. CASE \E p \in PageIds : GetPageFromDisk(p)
  BY <1>1, <1>4, MissInv
<1>5. CASE \E p \in PageIds : Release(p)
  BY <1>1, <1>5, ReleaseInv
<1>6. CASE \E p \in PageIds, v \in Contents : WritePage(p, v)
  BY <1>1, <1>6, WriteInv
<1>7. CASE Close
  BY <1>1, <1>7, CloseInv
<1>8. CASE Crash
  BY <1>1, <1>8, CrashInv
<1>9. CASE UNCHANGED bvars
  BY <1>1, <1>9
     DEF bvars, BInv, BTypeOK, ListOK, HeldNearFront, CleanIsSaved, Cached
<1>10. QED
  BY <1>1, <1>2, <1>3, <1>4, <1>5, <1>6, <1>7, <1>8, <1>9 DEF BNext

\* The invariant holds in every state a caller can bring the pool to.
THEOREM PoolInvariantHolds == BSpec => []BInv
<1>1. QED
  BY BInitInv, BStepInv, PTL DEF BSpec

\* BufferPool never leaves its types: the cache stays within MaxCapacity.
THEOREM PoolTypeCorrect == BSpec => []BTypeOK
<1>1. BInv => BTypeOK
  BY DEF BInv
<1>2. QED
  BY <1>1, PoolInvariantHolds, PTL

\* The linked list and the map of LruCache agree after every Get and Put.
THEOREM CacheListHolds == BSpec => []ListOK
<1>1. BInv => ListOK
  BY DEF BInv
<1>2. QED
  BY <1>1, PoolInvariantHolds, PTL

\* No page is evicted from under a caller that makes fewer GetPage calls
\* while it holds the page than the cache has places, for every capacity.
THEOREM HeldPagesStay == BSpec => []HeldIsCached
<1>1. BInv => HeldIsCached
  BY DEF BInv, HeldNearFront, HeldIsCached
<1>2. QED
  BY <1>1, PoolInvariantHolds, PTL

-----------------------------------------------------------------------------
(* The pool implements the page store.                                     *)

Shown == [p \in PageIds |-> IF Cached(p) THEN frame[p].val ELSE disk[p]]
Users == {p \in PageIds : held[p] # NotHeld}

LEMMA FetchedMaps ==
  ASSUME BInv, NEW p \in PageIds, Fetched(p)
  PROVE  Users' = Users \cup {p}
<1>1. held'[p] # NotHeld
  BY FetchedHeld DEF NotHeld
<1>2. \A q \in PageIds \ {p} : held'[q] = NotHeld <=> held[q] = NotHeld
  BY FetchedHeld DEF NotHeld
<1>3. QED
  BY <1>1, <1>2 DEF Users

LEMMA MissMaps ==
  ASSUME BInv, NEW p \in PageIds, GetPageFromDisk(p)
  PROVE  Shown' = Shown /\ \/ disk' = disk
                           \/ \E q \in PageIds :
                                disk' = [disk EXCEPT ![q] = Shown[q]]
<1>1. /\ ~Cached(p) /\ rank' = Inserted(p)
      /\ size' = IF IsFull THEN size ELSE size + 1
  BY DEF GetPageFromDisk, WrittenBack
<1>2. /\ rank'[p] = 1
      /\ \A q \in PageIds \ {p} :
           \/ ~Cached(q) /\ rank'[q] = 0
           \/ Victim(q) /\ rank[q] = Capacity /\ rank'[q] = 0
           \/ Cached(q) /\ ~Victim(q) /\ rank'[q] = rank[q] + 1
  BY <1>1, InsertedList
<1>3. \A q \in PageIds :
        /\ disk'[q] = IF Victim(q) /\ frame[q].dirty
                      THEN frame[q].val ELSE disk[q]
        /\ frame'[q] = IF q = p THEN [val |-> disk[p], dirty |-> FALSE]
                       ELSE IF Victim(q) THEN NoFrame ELSE frame[q]
  BY DEF GetPageFromDisk, WrittenBack
<1>4. \A q \in PageIds : Victim(q) => Cached(q)
  BY DEF Victim
<1>5. \A q \in PageIds : Cached(q) /\ ~frame[q].dirty
                           => frame[q].val = disk[q]
  BY DEF BInv, CleanIsSaved
<1>6. ASSUME NEW q \in PageIds
      PROVE  Shown'[q] = Shown[q]
  <2>0. /\ Shown'[q] = IF Cached(q)' THEN frame'[q].val ELSE disk'[q]
        /\ Shown[q] = IF Cached(q) THEN frame[q].val ELSE disk[q]
    BY DEF Shown
  <2>1. CASE q = p
    <3>1. Cached(q)'
      BY <2>1, <1>2 DEF Cached
    <3>2. frame'[q].val = disk[q]
      BY <2>1, <1>3
    <3>3. QED
      BY <2>0, <2>1, <3>1, <3>2, <1>1
  <2>2. CASE q # p /\ ~Cached(q)
    <3>1. ~Cached(q)'
      BY <2>2, <1>2, <1>4 DEF Cached
    <3>2. disk'[q] = disk[q]
      BY <2>2, <1>3, <1>4
    <3>3. QED
      BY <2>0, <2>2, <3>1, <3>2
  <2>3. CASE q # p /\ Cached(q) /\ Victim(q)
    <3>1. ~Cached(q)'
      BY <2>3, <1>2 DEF Cached
    <3>2. disk'[q] = frame[q].val
      BY <2>3, <1>3, <1>5
    <3>3. QED
      BY <2>0, <2>3, <3>1, <3>2
  <2>4. CASE q # p /\ Cached(q) /\ ~Victim(q)
    <3>1. rank'[q] = rank[q] + 1 /\ rank[q] \in Nat
      BY <2>4, <1>2, RankBounds DEF BInv
    <3>2. Cached(q)'
      BY <3>1 DEF Cached
    <3>3. frame'[q] = frame[q]
      BY <2>4, <1>3
    <3>4. QED
      BY <2>0, <2>4, <3>2, <3>3
  <2>5. QED
    BY <2>1, <2>2, <2>3, <2>4
<1>7. Shown' = Shown
  BY <1>6 DEF Shown
<1>8. disk' = disk \/ \E q \in PageIds : disk' = [disk EXCEPT ![q] = Shown[q]]
  <2>1. disk \in [PageIds -> Contents]
    BY DEF BInv, BTypeOK
  <2>2. disk' = [q \in PageIds |-> disk'[q]]
    BY DEF GetPageFromDisk, WrittenBack
  <2>3. CASE \A q \in PageIds : ~Victim(q)
    <3>1. \A q \in PageIds : disk'[q] = disk[q]
      BY <2>3, <1>3
    <3>2. QED
      BY <2>1, <2>2, <3>1
  <2>4. CASE \E q \in PageIds : Victim(q)
    <3>1. PICK q \in PageIds : Victim(q)
      BY <2>4
    <3>2. \A r \in PageIds \ {q} : ~Victim(r)
      BY <3>1 DEF Victim, BInv, ListOK
    <3>3. disk'[q] = Shown[q]
      BY <3>1, <1>3, <1>4, <1>5 DEF Shown
    <3>4. \A r \in PageIds \ {q} : disk'[r] = disk[r]
      BY <3>2, <1>3
    <3>5. disk' = [disk EXCEPT ![q] = Shown[q]]
      BY <2>1, <2>2, <3>3, <3>4
    <3>6. QED
      BY <3>5
  <2>5. QED
    BY <2>3, <2>4
<1>9. QED
  BY <1>7, <1>8

LEMMA BStepMaps == BInv /\ [BNext]_bvars => [Store!SNext]_(Store!svars)
<1>1. SUFFICES ASSUME BInv, [BNext]_bvars
               PROVE  [Store!SNext]_(Store!svars)
  OBVIOUS
<1>2. CASE Users' = Users /\ Shown' = Shown /\ disk' = disk
  BY <1>2 DEF Store!svars, Shown, Users
<1>3. CASE AllocatePage
  <2>1. disk[total + 1] = Zero
    BY <1>1, <1>3, PoolAssumption
       DEF BInv, BTypeOK, CleanIsSaved, AllocatePage, PageIds
  <2>2. disk' = disk
    BY <1>1, <1>3, <2>1 DEF AllocatePage, BInv, BTypeOK
  <2>3. Shown' = Shown
    BY <1>3, <2>2 DEF AllocatePage, Shown, Cached
  <2>4. Users' = Users
    BY <1>3 DEF AllocatePage, Users
  <2>5. QED
    BY <1>2, <2>2, <2>3, <2>4
<1>4. CASE \E p \in PageIds : GetCachedPage(p)
  <2>1. PICK p \in PageIds : GetCachedPage(p)
    BY <1>4
  <2>2. /\ Cached(p) /\ rank' = MovedToFront(p)
        /\ UNCHANGED <<disk, size, frame>>
    BY <2>1 DEF GetCachedPage
  <2>3. /\ rank'[p] = 1
        /\ \A q \in PageIds \ {p} : Cached(q)' <=> Cached(q)
    BY <1>1, <2>2, MovedToFrontList
  <2>4. \A q \in PageIds : Cached(q)' <=> Cached(q)
    BY <2>2, <2>3 DEF Cached
  <2>5. Shown' = Shown
    BY <2>2, <2>4 DEF Shown
  <2>6. Users' = Users \cup {p}
    BY <1>1, <2>1, FetchedMaps DEF GetCachedPage
  <2>7. Store!SGet(p)
    BY <2>2, <2>5, <2>6 DEF Store!SGet, Shown, Users
  <2>8. QED
    BY <2>7 DEF Store!SNext
<1>5. CASE \E p \in PageIds : GetPageFromDisk(p)
  <2>1. PICK p \in PageIds : GetPageFromDisk(p)
    BY <1>5
  <2>2. Shown' = Shown /\ \/ disk' = disk
                          \/ \E q \in PageIds :
                               disk' = [disk EXCEPT ![q] = Shown[q]]
    BY <1>1, <2>1, MissMaps
  <2>3. Users' = Users \cup {p}
    BY <1>1, <2>1, FetchedMaps DEF GetPageFromDisk
  <2>4. Store!SGet(p)
    BY <2>2, <2>3 DEF Store!SGet, Shown, Users
  <2>5. QED
    BY <2>4 DEF Store!SNext
<1>6. CASE \E p \in PageIds : Release(p)
  <2>1. PICK p \in PageIds : Release(p)
    BY <1>6
  <2>2. UNCHANGED <<disk, rank, frame>>
    BY <2>1 DEF Release
  <2>3. Shown' = Shown
    BY <2>2 DEF Shown, Cached
  <2>4. \A q \in PageIds : held'[q] = IF q = p THEN NotHeld ELSE held[q]
    BY <1>1, <2>1 DEF Release, BInv, BTypeOK
  <2>5. Users' = Users \ {p}
    BY <2>4 DEF Users
  <2>6. Store!SRelease(p)
    BY <2>2, <2>3, <2>5 DEF Store!SRelease, Shown, Users
  <2>7. QED
    BY <2>6 DEF Store!SNext
<1>7. CASE \E p \in PageIds, v \in Contents : WritePage(p, v)
  <2>1. PICK p \in PageIds, v \in Contents : WritePage(p, v)
    BY <1>7
  <2>2. UNCHANGED <<disk, rank>> /\ Cached(p)
    BY <1>1, <2>1 DEF WritePage, BInv, HeldNearFront
  <2>3. \A q \in PageIds : frame'[q] = IF q = p
                                       THEN [val |-> v, dirty |-> TRUE]
                                       ELSE frame[q]
    BY <1>1, <2>1, <2>2 DEF WritePage, BInv, BTypeOK
  <2>4. \A q \in PageIds : Cached(q)' <=> Cached(q)
    BY <2>2 DEF Cached
  <2>5. \A q \in PageIds : Shown'[q] = IF q = p THEN v ELSE Shown[q]
    BY <2>2, <2>3, <2>4 DEF Shown
  <2>6. Shown' = [Shown EXCEPT ![p] = v]
    BY <2>5 DEF Shown
  <2>7. p \in Users /\ Users' = Users
    BY <2>1 DEF WritePage, Users
  <2>8. Store!SWrite(p, v)
    BY <2>2, <2>6, <2>7 DEF Store!SWrite, Shown, Users
  <2>9. QED
    BY <2>8 DEF Store!SNext
<1>8. CASE Close
  <2>1. \A p \in PageIds : disk'[p] = IF Cached(p) /\ frame[p].dirty
                                      THEN frame[p].val ELSE disk[p]
    BY <1>8 DEF Close
  <2>2. \A p \in PageIds : disk'[p] = Shown[p]
    BY <1>1, <2>1 DEF Shown, BInv, CleanIsSaved
  <2>3. disk' = Shown
    BY <1>8, <2>2 DEF Close, Shown
  <2>4. \A p \in PageIds : ~Cached(p)'
    BY <1>8 DEF Close, Reopened, Cached
  <2>5. Shown' = disk'
    BY <1>8, <2>4 DEF Shown, Close
  <2>6. Users' = {}
    BY <1>8 DEF Close, Reopened, Users
  <2>7. Store!SClose
    BY <2>3, <2>5, <2>6 DEF Store!SClose, Shown, Users
  <2>8. QED
    BY <2>7 DEF Store!SNext
<1>9. CASE Crash
  <2>1. disk' = disk /\ \A p \in PageIds : ~Cached(p)'
    BY <1>9 DEF Crash, Reopened, Cached
  <2>2. Shown' = disk
    BY <1>1, <2>1 DEF Shown, BInv, BTypeOK
  <2>3. Users' = {}
    BY <1>9 DEF Crash, Reopened, Users
  <2>4. Store!SCrash
    BY <2>1, <2>2, <2>3 DEF Store!SCrash, Shown, Users
  <2>5. QED
    BY <2>4 DEF Store!SNext
<1>10. CASE UNCHANGED bvars
  <2>1. UNCHANGED <<disk, rank, frame, held>>
    BY <1>10 DEF bvars
  <2>2. QED
    BY <1>2, <2>1 DEF Shown, Users, Cached
<1>11. QED
  BY <1>1, <1>3, <1>4, <1>5, <1>6, <1>7, <1>8, <1>9, <1>10 DEF BNext

\* Whatever GetPage evicts and reads back, callers see a plain page store: a
\* page changes only by the write of a caller that holds it, and the file
\* gets a page only as the store has it at that moment.
THEOREM PoolIsPageStore == BSpec => StoreSpec
<1>1. BInit => Store!SInit
  BY DEF BInit, Store!SInit, Cached, NotHeld
<1>2. QED
  BY <1>1, BInitInv, BStepInv, BStepMaps, PTL
     DEF BSpec, StoreSpec, Store!SSpec
=============================================================================
