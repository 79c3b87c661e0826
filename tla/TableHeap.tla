------------------------------ MODULE TableHeap ------------------------------
(***************************************************************************)
(* The heap file of one table as class TableManager keeps it: data pages   *)
(* of RowsPerPage slots, filled in order and never reused.  A slot counts  *)
(* once the page's SlotCount covers it ("used"); a delete only sets the    *)
(* flag in the last byte of the row ("dead").  A page that AllocatePage    *)
(* appended to the file but nothing wrote yet is all FreeSlot.             *)
(*                                                                         *)
(* A row id is the position of its slot in the file, so that the order of  *)
(* row ids is the (page, slot) order in which scans return rows.           *)
(***************************************************************************)
EXTENDS Integers

CONSTANTS
  Keys,         \* values of the primary key column
  Vals,         \* values of the other column, declared NOT NULL
  NoRow,        \* what a view shows where there is no live row
  RowsPerPage,  \* slots of a data page: (PAGE_SIZE - PAGE_HEADER) / row size
  MaxPages      \* bound: data pages the heap file may grow to

ASSUME HeapAssumption ==
  /\ RowsPerPage \in Nat \ {0}
  /\ MaxPages \in Nat \ {0}
  /\ NoRow \notin [key : Keys, val : Vals]
  /\ 0 \in Keys /\ 0 \in Vals  \* what zeroed bytes deserialize to

Row  == [key : Keys, val : Vals]
Rids == 1..(MaxPages * RowsPerPage)
Slot == [used : BOOLEAN, dead : BOOLEAN, row : Row]

FreeSlot  == [used |-> FALSE, dead |-> FALSE, row |-> [key |-> 0, val |-> 0]]
EmptyHeap == [r \in Rids |-> FreeSlot]

\* Data pages are numbered from 1: page 0 of the file is its header.
LastRidOf(page)  == page * RowsPerPage
PageRids(page)   == (LastRidOf(page - 1) + 1)..LastRidOf(page)

Live(slot) == slot.used /\ ~slot.dead

\* FullScan: what a scan of the heap shows at each row id.
View(slots) == [r \in Rids |-> IF Live(slots[r]) THEN slots[r].row ELSE NoRow]

FullScan(slots) == {r \in Rids : Live(slots[r])}

-----------------------------------------------------------------------------
\* GetPageWithSpace: the last page if it has room for one more row, else a
\* page appended to the file.  The slots of a page are used in order, so the
\* page is full when its last slot is used.
PageWithSpace(slots, pages) ==
  IF pages = 0 \/ slots[LastRidOf(pages)].used THEN pages + 1 ELSE pages

\* The slot at index SlotCount of that page.
NextSlot(slots, pages, rid) ==
  LET page == PageWithSpace(slots, pages) IN
  /\ rid \in PageRids(page)
  /\ \A r \in PageRids(page) : slots[r].used <=> r < rid

InsertRow(slots, rid, row) ==
  [slots EXCEPT ![rid] = [used |-> TRUE, dead |-> FALSE, row |-> row]]

\* UpdateRow copies a whole serialized row, whose delete flag is clear, and
\* never looks at SlotCount.
UpdateRow(slots, rid, row) ==
  [slots EXCEPT ![rid] = [used |-> @.used, dead |-> FALSE, row |-> row]]

\* Mutant of DeleteRow: the row image is cleared with it.
WipeRow(slots, rid) ==
  [slots EXCEPT ![rid] = [used |-> @.used, dead |-> TRUE,
                          row |-> FreeSlot.row]]

DeleteRow(slots, rid) ==
  [slots EXCEPT ![rid] = [used |-> @.used, dead |-> TRUE, row |-> @.row]]

\* UndeleteRow clears the flag; the row image it is given is not written.
UndeleteRow(slots, rid) ==
  [slots EXCEPT ![rid] = [used |-> @.used, dead |-> FALSE, row |-> @.row]]
=============================================================================
