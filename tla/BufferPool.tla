----------------------------- MODULE BufferPool -----------------------------
(***************************************************************************)
(* The buffer pool of one file: class BufferPool over LruCache and         *)
(* PageManager.  Callers (TableManager, BPlusTree) get a page, hold the    *)
(* pointer while they get others, and write through it.  The cache does    *)
(* not know what is held: an evicted page that a caller still holds is an  *)
(* orphan, and what is written to it never reaches the file.               *)
(*                                                                         *)
(* The doubly linked list is kept as the rank of every page in it, counted *)
(* from the head; rank 0 is a page without a node.                         *)
(***************************************************************************)
EXTENDS Integers

CONSTANTS
  MaxPages,   \* bound: pages of the file
  Contents,   \* contents of a page
  Zero,       \* the content of a page AllocatePage has just appended
  Capacity,   \* MaxCapacity: pages in the cache
  HoldMax     \* GetPage calls a caller makes while it holds a page

\* The deepest a caller goes is the path of a B+ tree and the siblings of its
\* nodes, far below the 1024 pages of the cache.
ASSUME PoolAssumption ==
  /\ MaxPages \in Nat
  /\ Zero \in Contents
  /\ Capacity \in Nat \ {0}
  /\ HoldMax \in Nat /\ HoldMax < Capacity

VARIABLES
  total,      \* PageManager: pages in the file
  disk,       \* the file
  rank,       \* LruCache: the list from head to tail
  size,       \* the size of the map of the cache
  frame,      \* the cached copy of a page and its dirty flag
  held        \* GetPage calls since a caller fetched the page, or NotHeld

bvars == <<total, disk, rank, size, frame, held>>

PageIds == 1..MaxPages
NotHeld == -1
Frame   == [val : Contents, dirty : BOOLEAN]
NoFrame == [val |-> Zero, dirty |-> FALSE]

Cached(p) == rank[p] # 0

-----------------------------------------------------------------------------
(* LruCache.                                                               *)

\* Mutant of MovedToFront: a hit leaves the list as it is.
LeftInPlace(p) == rank

\* Mutant of MovedToFront: AddFront without Remove, so that the nodes behind
\* the page are pushed back as well.
AddedInFront(p) ==
  [q \in PageIds |-> IF q = p THEN 1
                     ELSE IF Cached(q) THEN rank[q] + 1 ELSE rank[q]]

\* Remove and AddFront of a node that is in the list.
MovedToFront(p) ==
  [q \in PageIds |-> IF q = p THEN 1
                     ELSE IF Cached(q) /\ rank[q] < rank[p] THEN rank[q] + 1
                     ELSE rank[q]]

\* Mutant of IsFull: one page too many.
IsOverFull == size > Capacity

\* AddFront of a new node, in the place of the tail's neighbour if full.
IsFull    == size >= Capacity
Victim(q) == IsFull /\ Cached(q) /\ rank[q] = size

Inserted(p) ==
  [q \in PageIds |-> IF q = p THEN 1
                     ELSE IF ~Cached(q) \/ Victim(q) THEN 0
                     ELSE rank[q] + 1]

-----------------------------------------------------------------------------
\* PageManager: the zeroed page is written through at once.
AllocatePage ==
  /\ total < MaxPages
  /\ total' = total + 1
  /\ disk' = [disk EXCEPT ![total + 1] = Zero]
  /\ UNCHANGED <<rank, size, frame, held>>

\* What holders do: p is fetched last, everyone else one call longer ago.
Fetched(p) ==
  /\ \A q \in PageIds \ {p} : held[q] # NotHeld => held[q] < HoldMax
  /\ held' = [q \in PageIds |-> IF q = p THEN 0
                                ELSE IF held[q] = NotHeld THEN NotHeld
                                ELSE held[q] + 1]

GetCachedPage(p) ==
  /\ p <= total /\ Cached(p)
  /\ rank' = MovedToFront(p)
  /\ Fetched(p)
  /\ UNCHANGED <<total, disk, size, frame>>

\* Mutant of WrittenBack: the victim is dropped.
NotWrittenBack == disk

WrittenBack == [q \in PageIds |-> IF Victim(q) /\ frame[q].dirty
                                  THEN frame[q].val ELSE disk[q]]

\* ReadPage, then Put, which writes back a dirty victim first.
GetPageFromDisk(p) ==
  /\ p <= total /\ ~Cached(p)
  /\ rank' = Inserted(p)
  /\ size' = IF IsFull THEN size ELSE size + 1
  /\ disk' = WrittenBack
  /\ frame' = [q \in PageIds |->
                 IF q = p THEN [val |-> disk[p], dirty |-> FALSE]
                 ELSE IF Victim(q) THEN NoFrame ELSE frame[q]]
  /\ Fetched(p)
  /\ UNCHANGED total

\* Mutant of WritePage: the page is not marked dirty.
WriteUnmarked(p, v) ==
  /\ held[p] # NotHeld
  /\ frame' = IF Cached(p) THEN [frame EXCEPT ![p].val = v] ELSE frame
  /\ UNCHANGED <<total, disk, rank, size, held>>

\* A caller changes the bytes of a page it holds and marks it dirty.
WritePage(p, v) ==
  /\ held[p] # NotHeld
  /\ frame' = IF Cached(p)
              THEN [frame EXCEPT ![p] = [val |-> v, dirty |-> TRUE]]
              ELSE frame
  /\ UNCHANGED <<total, disk, rank, size, held>>

Release(p) ==
  /\ held[p] # NotHeld
  /\ held' = [held EXCEPT ![p] = NotHeld]
  /\ UNCHANGED <<total, disk, rank, size, frame>>

\* The pool is gone; the next one opens the same file with an empty cache.
Reopened ==
  /\ rank' = [p \in PageIds |-> 0]
  /\ size' = 0
  /\ frame' = [p \in PageIds |-> NoFrame]
  /\ held' = [p \in PageIds |-> NotHeld]
  /\ UNCHANGED total

\* The destructor: FlushAll.
Close ==
  /\ disk' = [p \in PageIds |-> IF Cached(p) /\ frame[p].dirty
                                THEN frame[p].val ELSE disk[p]]
  /\ Reopened

Crash == Reopened /\ UNCHANGED disk

-----------------------------------------------------------------------------
BInit ==
  /\ total = 0
  /\ disk = [p \in PageIds |-> Zero]
  /\ rank = [p \in PageIds |-> 0] /\ size = 0
  /\ frame = [p \in PageIds |-> NoFrame]
  /\ held = [p \in PageIds |-> NotHeld]

BNext ==
  \/ AllocatePage
  \/ \E p \in PageIds : GetCachedPage(p) \/ GetPageFromDisk(p) \/ Release(p)
  \/ \E p \in PageIds, v \in Contents : WritePage(p, v)
  \/ Close \/ Crash

BSpec == BInit /\ [][BNext]_bvars

-----------------------------------------------------------------------------
(* Properties.                                                             *)

\* Every variable stays in its type; the file never exceeds its bound and
\* the cache never exceeds its capacity.
BTypeOK ==
  /\ total \in 0..MaxPages
  /\ disk \in [PageIds -> Contents]
  /\ rank \in [PageIds -> 0..Capacity] /\ size \in 0..Capacity
  /\ frame \in [PageIds -> Frame]
  /\ held \in [PageIds -> {NotHeld} \cup 0..HoldMax]

\* A page that a caller holds is still the one the cache would hand out, so
\* no two callers ever work on different copies of a page.  Nothing pins a
\* page: it is the order of the list that keeps it in.
HeldIsCached == \A p \in PageIds : held[p] # NotHeld => Cached(p)

\* The list is a list: the ranks run from 1 to the size of the map, each
\* taken by one page, so that there is a victim whenever the cache is full.
ListOK ==
  /\ \A p, q \in PageIds : Cached(p) /\ rank[p] = rank[q] => p = q
  /\ \A p \in PageIds : rank[p] <= size
  /\ \A i \in 1..size : \E p \in PageIds : rank[p] = i

\* The pool is a page store: reads see the last write, whatever was evicted
\* and read back meanwhile, and a page goes to disk only as it is now.
Store == INSTANCE PageStore WITH
           users <- {p \in PageIds : held[p] # NotHeld},
           store <- [p \in PageIds |-> IF Cached(p) THEN frame[p].val
                                       ELSE disk[p]],
           saved <- disk

StoreSpec == Store!SSpec

-----------------------------------------------------------------------------
(* The inductive invariant.                                                *)

\* A held page has been passed in the list only by the pages fetched since.
HeldNearFront ==
  \A p \in PageIds : held[p] # NotHeld => Cached(p) /\ rank[p] <= held[p] + 1

\* A clean frame is what the file has; a page not yet allocated is nowhere.
CleanIsSaved ==
  \A p \in PageIds :
    /\ Cached(p) /\ ~frame[p].dirty => frame[p].val = disk[p]
    /\ p > total => ~Cached(p) /\ disk[p] = Zero

BInv == BTypeOK /\ ListOK /\ HeldNearFront /\ CleanIsSaved
=============================================================================
