---------------------------- MODULE SessionProofs ----------------------------
(***************************************************************************)
(* Proofs about Session, for every set of keys and values, page size and   *)
(* heap size, and with no bound on the statements of a transaction.        *)
(***************************************************************************)
EXTENDS SessionInvariant, SequenceTheorems, TLAPS, DataInduction

Views   == [Rids -> Row \cup {NoRow}]
Indexes == [Keys -> Seq(Rids)]

-----------------------------------------------------------------------------
(* The index against a view: each key has the entry of the one row that    *)
(* shows it.                                                               *)

\* An index that fits a view is determined by it.
LEMMA FitsUnique ==
  ASSUME NEW view \in Views, NEW i1 \in Indexes, NEW i2 \in Indexes,
         IndexFits([view |-> view, index |-> i1]),
         IndexFits([view |-> view, index |-> i2])
  PROVE  i1 = i2
<1>1. ASSUME NEW k \in Keys
      PROVE  i1[k] = i2[k]
  <2>1. CASE \A r \in Rids : view[r] # NoRow => view[r].key # k
    <3>1. i1[k] = << >> /\ i2[k] = << >>
      BY <2>1 DEF IndexFits
    <3>2. QED
      BY <3>1
  <2>2. CASE \E r \in Rids : view[r] # NoRow /\ view[r].key = k
    <3>1. PICK r \in Rids : view[r] # NoRow /\ view[r].key = k
      BY <2>2
    <3>2. i1[k] = <<r>> /\ i2[k] = <<r>>
      BY <3>1 DEF IndexFits
    <3>3. QED
      BY <3>2
  <2>3. QED
    BY <2>1, <2>2
<1>2. QED
  BY <1>1 DEF Indexes

\* Adding an entry for a row that appears under a key no row shows.
LEMMA InsertFits ==
  ASSUME NEW view \in Views, NEW ix \in Indexes,
         IndexFits([view |-> view, index |-> ix]),
         NEW rid \in Rids, NEW row \in Row,
         view[rid] = NoRow, ix[row.key] = << >>
  PROVE  /\ TreeInsert(ix, row.key, rid) \in Indexes
         /\ IndexFits([view  |-> [view EXCEPT ![rid] = row],
                       index |-> TreeInsert(ix, row.key, rid)])
<1> DEFINE nv == [view EXCEPT ![rid] = row]
           ni == TreeInsert(ix, row.key, rid)
<1>1. row # NoRow /\ row.key \in Keys
  BY HeapAssumption DEF Row
<1>2. /\ ni \in Indexes
      /\ ni[row.key] = <<rid>>
      /\ \A k \in Keys \ {row.key} : ni[k] = ix[k]
  BY <1>1 DEF TreeInsert, Indexes
<1>3. nv[rid] = row /\ \A r \in Rids \ {rid} : nv[r] = view[r]
  BY DEF Views
<1>4. ASSUME NEW k \in Keys
      PROVE  \/ /\ ni[k] = << >>
                /\ \A r \in Rids : nv[r] # NoRow => nv[r].key # k
             \/ \E r \in Rids :
                  /\ ni[k] = <<r>>
                  /\ nv[r] # NoRow /\ nv[r].key = k
                  /\ \A q \in Rids \ {r} : nv[q] # NoRow => nv[q].key # k
  <2>1. CASE k = row.key
    <3>1. \A r \in Rids : view[r] # NoRow => view[r].key # k
      BY <2>1 DEF IndexFits
    <3>2. QED
      BY <3>1, <2>1, <1>1, <1>2, <1>3
  <2>2. CASE k # row.key
    <3>1. CASE ix[k] = << >>
      BY <3>1, <2>2, <1>2, <1>3 DEF IndexFits
    <3>2. CASE ix[k] # << >>
      <4>1. PICK r \in Rids :
              /\ ix[k] = <<r>>
              /\ view[r] # NoRow /\ view[r].key = k
              /\ \A q \in Rids \ {r} : view[q] # NoRow => view[q].key # k
        BY <3>2 DEF IndexFits
      <4>2. r # rid
        BY <4>1
      <4>3. QED
        BY <4>1, <4>2, <2>2, <1>2, <1>3
    <3>3. QED
      BY <3>1, <3>2
  <2>3. QED
    BY <2>1, <2>2
<1>5. QED
  BY <1>2, <1>4 DEF IndexFits

\* Removing the entry of a row that disappears.
LEMMA DeleteFits ==
  ASSUME NEW view \in Views, NEW ix \in Indexes,
         IndexFits([view |-> view, index |-> ix]),
         NEW rid \in Rids, view[rid] \in Row
  PROVE  /\ TreeDelete(ix, view[rid].key) \in Indexes
         /\ TreeDelete(ix, view[rid].key)[view[rid].key] = << >>
         /\ IndexFits([view  |-> [view EXCEPT ![rid] = NoRow],
                       index |-> TreeDelete(ix, view[rid].key)])
<1> DEFINE key == view[rid].key
           nv  == [view EXCEPT ![rid] = NoRow]
           ni  == TreeDelete(ix, key)
<1>1. view[rid] # NoRow /\ key \in Keys
  BY HeapAssumption DEF Row
<1>2. /\ ix[key] = <<rid>>
      /\ \A q \in Rids \ {rid} : view[q] # NoRow => view[q].key # key
  BY <1>1 DEF IndexFits
<1>3. Tail(<<rid>>) = << >>
  OBVIOUS
<1>4. /\ ni \in Indexes
      /\ ni[key] = << >>
      /\ \A k \in Keys \ {key} : ni[k] = ix[k]
  BY <1>1, <1>2, <1>3 DEF TreeDelete, Indexes
<1>5. nv[rid] = NoRow /\ \A r \in Rids \ {rid} : nv[r] = view[r]
  BY DEF Views
<1>6. ASSUME NEW k \in Keys
      PROVE  \/ /\ ni[k] = << >>
                /\ \A r \in Rids : nv[r] # NoRow => nv[r].key # k
             \/ \E r \in Rids :
                  /\ ni[k] = <<r>>
                  /\ nv[r] # NoRow /\ nv[r].key = k
                  /\ \A q \in Rids \ {r} : nv[q] # NoRow => nv[q].key # k
  <2>1. CASE k = key
    BY <2>1, <1>2, <1>4, <1>5
  <2>2. CASE k # key
    <3>1. CASE ix[k] = << >>
      BY <3>1, <2>2, <1>4, <1>5 DEF IndexFits
    <3>2. CASE ix[k] # << >>
      <4>1. PICK r \in Rids :
              /\ ix[k] = <<r>>
              /\ view[r] # NoRow /\ view[r].key = k
              /\ \A q \in Rids \ {r} : view[q] # NoRow => view[q].key # k
        BY <3>2 DEF IndexFits
      <4>2. r # rid
        BY <4>1, <2>2
      <4>3. QED
        BY <4>1, <4>2, <2>2, <1>4, <1>5
    <3>3. QED
      BY <3>1, <3>2
  <2>3. QED
    BY <2>1, <2>2
<1>7. QED
  BY <1>4, <1>6 DEF IndexFits

\* A key that no row shows has no entry.
LEMMA NoEntry ==
  ASSUME NEW view \in Views, NEW ix \in Indexes,
         IndexFits([view |-> view, index |-> ix]),
         NEW key \in Keys,
         \A r \in Rids : view[r] # NoRow => view[r].key # key
  PROVE  ix[key] = << >>
BY DEF IndexFits

\* Writing another row over a live one, with its old entry taken out and its
\* new one put in when the key changes to one that no other row shows.
LEMMA UpdateFits ==
  ASSUME NEW view \in Views, NEW ix \in Indexes,
         IndexFits([view |-> view, index |-> ix]),
         NEW rid \in Rids, NEW old \in Row, NEW new \in Row,
         view[rid] = old,
         new.key # old.key => ix[new.key] = << >>,
         NEW ni,
         ni = IF new.key = old.key THEN ix
              ELSE TreeInsert(TreeDelete(ix, old.key), new.key, rid)
  PROVE  /\ ni \in Indexes
         /\ IndexFits([view |-> [view EXCEPT ![rid] = new], index |-> ni])
<1>1. old # NoRow /\ new # NoRow /\ old.key \in Keys /\ new.key \in Keys
  BY HeapAssumption DEF Row
<1>2. CASE new.key = old.key
  <2> DEFINE nv == [view EXCEPT ![rid] = new]
  <2>1. nv[rid] = new /\ \A r \in Rids \ {rid} : nv[r] = view[r]
    BY DEF Views
  <2>2. \A r \in Rids : /\ nv[r] # NoRow <=> view[r] # NoRow
                        /\ view[r] # NoRow => nv[r].key = view[r].key
    BY <2>1, <1>1, <1>2
  <2> HIDE DEF nv
  <2>3. ASSUME NEW k \in Keys
        PROVE  \/ /\ ix[k] = << >>
                  /\ \A r \in Rids : nv[r] # NoRow => nv[r].key # k
               \/ \E r \in Rids :
                    /\ ix[k] = <<r>>
                    /\ nv[r] # NoRow /\ nv[r].key = k
                    /\ \A q \in Rids \ {r} : nv[q] # NoRow => nv[q].key # k
    <3>1. CASE ix[k] = << >>
      BY <3>1, <2>2 DEF IndexFits
    <3>2. CASE ix[k] # << >>
      <4>1. PICK r \in Rids :
              /\ ix[k] = <<r>>
              /\ view[r] # NoRow /\ view[r].key = k
              /\ \A q \in Rids \ {r} : view[q] # NoRow => view[q].key # k
        BY <3>2 DEF IndexFits
      <4>2. QED
        BY <4>1, <2>2
    <3>3. QED
      BY <3>1, <3>2
  <2>4. QED
    BY <2>3, <1>2 DEF IndexFits, nv
<1>3. CASE new.key # old.key
  <2> DEFINE mv == [view EXCEPT ![rid] = NoRow]
             mi == TreeDelete(ix, old.key)
  <2>1. /\ mi \in Indexes
        /\ IndexFits([view |-> mv, index |-> mi])
    BY DeleteFits
  <2>2. mv \in Views /\ mv[rid] = NoRow
    BY DEF Views
  <2>3. mi[new.key] = << >>
    BY <1>1, <1>3 DEF TreeDelete, Indexes
  <2>4. [mv EXCEPT ![rid] = new] = [view EXCEPT ![rid] = new]
    BY DEF Views
  <2> HIDE DEF mv, mi
  <2>5. /\ TreeInsert(mi, new.key, rid) \in Indexes
        /\ IndexFits([view  |-> [mv EXCEPT ![rid] = new],
                      index |-> TreeInsert(mi, new.key, rid)])
    BY <2>1, <2>2, <2>3, InsertFits
  <2>6. ni = TreeInsert(mi, new.key, rid)
    BY <1>3 DEF mi
  <2>7. QED
    BY <2>4, <2>5, <2>6
<1>4. QED
  BY <1>2, <1>3

\* What the operations on slots do to what a scan shows.
LEMMA ViewOperators ==
  ASSUME NEW h \in [Rids -> Slot], NEW rid \in Rids, NEW row \in Row
  PROVE  /\ View(h) \in Views
         /\ View(InsertRow(h, rid, row)) = [View(h) EXCEPT ![rid] = row]
         /\ h[rid].used =>
              /\ View(UpdateRow(h, rid, row)) = [View(h) EXCEPT ![rid] = row]
              /\ View(UndeleteRow(h, rid))
                   = [View(h) EXCEPT ![rid] = h[rid].row]
         /\ View(DeleteRow(h, rid)) = [View(h) EXCEPT ![rid] = NoRow]
<1>1. View(h) \in Views
  BY DEF View, Views, Live, Slot
<1>2. View(InsertRow(h, rid, row)) = [View(h) EXCEPT ![rid] = row]
  BY DEF View, Live, Slot, InsertRow
<1>3. View(DeleteRow(h, rid)) = [View(h) EXCEPT ![rid] = NoRow]
  BY DEF View, Live, Slot, DeleteRow
<1>4. ASSUME h[rid].used
      PROVE  View(UpdateRow(h, rid, row)) = [View(h) EXCEPT ![rid] = row]
  BY <1>4 DEF View, Live, Slot, UpdateRow
<1>5. ASSUME h[rid].used
      PROVE  View(UndeleteRow(h, rid)) = [View(h) EXCEPT ![rid] = h[rid].row]
  BY <1>5 DEF View, Live, Slot, UndeleteRow
<1>6. QED
  BY <1>1, <1>2, <1>3, <1>4, <1>5

-----------------------------------------------------------------------------
(* Type correctness.                                                       *)

LEMMA FrontLast ==
  ASSUME NEW S, NEW s \in Seq(S), s # << >>
  PROVE  /\ Front(s) \in Seq(S) /\ Last(s) \in S
         /\ Len(s) \in Nat \ {0} /\ Len(Front(s)) = Len(s) - 1
         /\ \A i \in 1..(Len(s) - 1) : Front(s)[i] = s[i]
         /\ Last(s) = s[Len(s)]
<1>1. Len(s) \in Nat \ {0}
  BY EmptySeq
<1>2. \A i \in 1..Len(s) : s[i] \in S
  BY ElementOfSeq
<1>3. ASSUME NEW n \in Nat, n <= Len(s)
      PROVE  /\ SubSeq(s, 1, n) \in Seq(S)
             /\ Len(SubSeq(s, 1, n)) = n
             /\ \A i \in 1..n : SubSeq(s, 1, n)[i] = s[i]
  <2>1. \A i \in 1..n : s[i] \in S
    BY <1>1, <1>2, <1>3
  <2>2. /\ SubSeq(s, 1, n) \in Seq(S)
        /\ Len(SubSeq(s, 1, n)) = IF 1 <= n THEN n - 1 + 1 ELSE 0
        /\ \A i \in 1..(n - 1 + 1) : SubSeq(s, 1, n)[i] = s[1 + i - 1]
    BY <2>1, SubSeqProperties
  <2>3. n - 1 + 1 = n /\ \A i \in 1..n : 1 + i - 1 = i
    OBVIOUS
  <2>4. QED
    BY <2>2, <2>3
<1> DEFINE n == Len(s) - 1
<1>4. n \in Nat /\ n <= Len(s)
  BY <1>1
<1> HIDE DEF n
<1>5. /\ SubSeq(s, 1, n) \in Seq(S)
      /\ Len(SubSeq(s, 1, n)) = n
      /\ \A i \in 1..n : SubSeq(s, 1, n)[i] = s[i]
  BY <1>3, <1>4
<1>6. Front(s) = SubSeq(s, 1, n)
  BY DEF Front, n
<1>7. QED
  BY <1>1, <1>2, <1>4, <1>5, <1>6 DEF Last, n

LEMMA HeapOperators ==
  ASSUME NEW h \in [Rids -> Slot], NEW rid \in Rids, NEW row \in Row
  PROVE  /\ InsertRow(h, rid, row) \in [Rids -> Slot]
         /\ UpdateRow(h, rid, row) \in [Rids -> Slot]
         /\ DeleteRow(h, rid) \in [Rids -> Slot]
         /\ UndeleteRow(h, rid) \in [Rids -> Slot]
BY DEF Slot, InsertRow, UpdateRow, DeleteRow, UndeleteRow

LEMMA IndexOperators ==
  ASSUME NEW ix \in Indexes, NEW key \in Keys, NEW rid \in Rids
  PROVE  /\ TreeInsert(ix, key, rid) \in Indexes
         /\ TreeDelete(ix, key) \in Indexes
BY DEF Indexes, TreeInsert, TreeDelete

LEMMA SnapshotType ==
  ASSUME NEW h \in [Rids -> Slot], NEW ix \in Indexes
  PROVE  Snapshot(h, ix) \in [view : Views, index : Indexes]
BY DEF Snapshot, View, Views, Live, Slot

LEMMA PointQueryType ==
  ASSUME NEW ix \in Indexes, NEW key \in Keys
  PROVE  PointQuery(ix, key) \subseteq Rids
BY DEF PointQuery, Indexes

\* No row id under a key: the executor's test for a free key.
LEMMA PointQueryEmpty ==
  ASSUME NEW ix \in Indexes, NEW key \in Keys, PointQuery(ix, key) = {}
  PROVE  ix[key] = << >>
<1> SUFFICES ASSUME ix[key] # << >> PROVE FALSE
  OBVIOUS
<1>1. ix[key] \in Seq(Rids)
  BY DEF Indexes
<1>2. Len(ix[key]) \in Nat \ {0}
  BY <1>1, EmptySeq
<1>3. 1 \in DOMAIN ix[key]
  BY <1>1, <1>2, LenProperties
<1>4. QED
  BY <1>3 DEF PointQuery

\* A page that takes another row exists within the bound of the heap file.
LEMMA PageWithSpaceBound ==
  ASSUME NEW h, NEW n \in 0..MaxPages, NEW rid \in Rids, NextSlot(h, n, rid)
  PROVE  /\ PageWithSpace(h, n) \in 0..MaxPages
         /\ ~h[rid].used
<1>1. PageWithSpace(h, n) \in {n, n + 1}
  BY DEF PageWithSpace
<1>2. /\ rid \in Int
      /\ LastRidOf(PageWithSpace(h, n) - 1) + 1 <= rid
      /\ rid <= LastRidOf(MaxPages)
  BY DEF NextSlot, PageRids, Rids, LastRidOf
<1>3. ASSUME PageWithSpace(h, n) = MaxPages + 1
      PROVE  FALSE
  <2>1. PageWithSpace(h, n) - 1 = MaxPages
    BY <1>3, HeapAssumption
  <2>2. LastRidOf(MaxPages) \in Int
    BY HeapAssumption DEF LastRidOf
  <2>3. QED
    BY <2>1, <2>2, <1>2
<1>4. PageWithSpace(h, n) \in 0..MaxPages
  BY <1>1, <1>3, HeapAssumption
<1>5. ~h[rid].used
  BY <1>2 DEF NextSlot
<1>6. QED
  BY <1>4, <1>5

LEMMA LogWriteType ==
  ASSUME WalOK, NEW type \in WalTypes, NEW txn \in Nat,
         NEW rid \in Rids \cup {0}, NEW before \in Row \cup {NoRow},
         LogWrite(type, txn, rid, before)
  PROVE  /\ log' \in Seq(WalRecord) /\ nextLsn' \in Nat \ {0}
         /\ Len(log') \in Nat
<1>1. [lsn |-> nextLsn, txn |-> txn, type |-> type, rid |-> rid,
       before |-> before] \in WalRecord
  BY DEF WalOK, WalRecord
<1>2. QED
  BY <1>1 DEF WalOK, LogWrite

LEMMA BeginTxnType ==
  ASSUME TypeOK, NEW byUser \in BOOLEAN, BeginTxn(byUser)
  PROVE  WalOK' /\ TxnOK'
<1>1. log' \in Seq(WalRecord) /\ nextLsn' \in Nat \ {0}
  BY LogWriteType DEF TypeOK, TxnOK, BeginTxn, LogControl, WalTypes
<1>2. hist' \in Seq([view : Views, index : Indexes])
  BY SnapshotType DEF TypeOK, StorageOK, BeginTxn, Indexes
<1>3. QED
  BY <1>1, <1>2 DEF TypeOK, WalOK, TxnOK, BeginTxn, Views, Indexes

LEMMA EndTxnType ==
  ASSUME TypeOK, NEW type \in WalTypes,
         LogControl(type, activeTxn), Flush, EndTxn
  PROVE  WalOK' /\ TxnOK'
<1>1. log' \in Seq(WalRecord) /\ nextLsn' \in Nat \ {0} /\ Len(log') \in Nat
  BY LogWriteType DEF TypeOK, TxnOK, LogControl
<1>2. QED
  <2>1. WalOK'
    BY <1>1 DEF TypeOK, WalOK, Flush
  <2>2. TxnOK'
    BY EmptySeq DEF TypeOK, TxnOK, EndTxn
  <2>3. QED
    BY <2>1, <2>2

LEMMA RecordChangeType ==
  ASSUME TypeOK, StorageOK', NEW type \in ChangeTypes, NEW rid \in Rids,
         NEW before \in Row \cup {NoRow}, RecordChange(type, rid, before)
  PROVE  WalOK' /\ TxnOK'
<1>1. log' \in Seq(WalRecord) /\ nextLsn' \in Nat \ {0}
  BY LogWriteType DEF TypeOK, TxnOK, RecordChange, WalTypes
<1>2. hist' \in Seq([view : Views, index : Indexes])
  <2>1. Snapshot(slots', index') \in [view : Views, index : Indexes]
    BY SnapshotType DEF StorageOK, Indexes
  <2>2. QED
    BY <2>1 DEF TypeOK, TxnOK, RecordChange, Views, Indexes
<1>3. changes' \in Seq(Change)
  BY DEF TypeOK, TxnOK, RecordChange, Change
<1>4. QED
  BY <1>1, <1>2, <1>3
  DEF TypeOK, WalOK, TxnOK, RecordChange, Views, Indexes

LEMMA StatementStartsType ==
  ASSUME TypeOK, StatementStarts
  PROVE  StorageOK' /\ WalOK' /\ TxnOK'
<1>1. StorageOK'
  BY DEF TypeOK, StorageOK, StatementStarts, storageVars
<1>2. WalOK' /\ TxnOK'
  BY BeginTxnType
  DEF TypeOK, WalOK, TxnOK, StatementStarts, GetOrBeginTxn, walVars, txnVars
<1>3. QED
  BY <1>1, <1>2

LEMMA ScannedType ==
  ASSUME TypeOK, NEW where \in Where
  PROVE  Scanned(where) \subseteq Rids
BY PointQueryType
DEF TypeOK, StorageOK, Indexes, Scanned, FullScan, Where

\* Both scans find live rows only, the point scan because the index fits.
LEMMA ScannedLive ==
  ASSUME TypeOK, IndexMatches, NEW where \in Where
  PROVE  \A r \in Scanned(where) : Live(slots[r])
<1>1. CASE where.col = "key"
  <2>1. where.eq \in Keys
    BY <1>1 DEF Where
  <2>2. CASE index[where.eq] = << >>
    BY <2>2, <1>1 DEF Scanned, PointQuery
  <2>3. CASE index[where.eq] # << >>
    <3>1. PICK r \in Rids : index[where.eq] = <<r>> /\ View(slots)[r] # NoRow
      BY <2>1, <2>3 DEF IndexMatches, IndexFits, Snapshot
    <3>2. Live(slots[r])
      BY <3>1 DEF View
    <3>3. QED
      BY <3>1, <3>2, <1>1 DEF Scanned, PointQuery
  <2>4. QED
    BY <2>2, <2>3
<1>2. CASE where.col # "key"
  BY <1>2 DEF Scanned, FullScan
<1>3. QED
  BY <1>1, <1>2

LEMMA NewRowType ==
  ASSUME NEW row \in Row, NEW set \in Assignment,
         NewRow(row, set).val # Null
  PROVE  NewRow(row, set) \in Row
BY DEF NewRow, Row, Assignment

LEMMA StmtType ==
  /\ Idle \in Statement
  /\ \A kind \in {"insert", "update", "delete", "rollback"},
        rows \in Seq(InputRow), rids \in SUBSET Rids, set \in Assignment :
       Running(kind, rows, rids, set) \in Statement
<1>1. NoAssignment \in Assignment
  BY DEF NoAssignment, Assignment
<1>2. Idle \in Statement
  BY <1>1, EmptySeq DEF Idle, Statement
<1>3. (activeTxn = 0) \in BOOLEAN
  OBVIOUS
<1>4. QED
  BY <1>2, <1>3 DEF Running, Statement

\* The type of every variable, for every behaviour of the session.
LEMMA TypeInit == Init => TypeOK
<1> SUFFICES ASSUME Init PROVE TypeOK
  OBVIOUS
<1>1. EmptyHeap \in [Rids -> Slot]
  BY HeapAssumption DEF EmptyHeap, FreeSlot, Slot, Row
<1>2. EmptyIndex(Keys) \in [Keys -> Seq(Rids)]
  BY EmptySeq DEF EmptyIndex
<1>3. StorageOK
  BY <1>1, <1>2, HeapAssumption DEF Init, StorageOK
<1>4. WalOK
  BY EmptySeq DEF Init, WalOK
<1>5. TxnOK
  <2>1. explicit \in BOOLEAN
    BY DEF Init
  <2>2. /\ changes \in Seq(Change)
        /\ hist \in Seq([view : [Rids -> Row \cup {NoRow}],
                         index : [Keys -> Seq(Rids)]])
    BY EmptySeq DEF Init
  <2>3. nextTxnId \in Nat \ {0} /\ activeTxn \in Nat
    BY DEF Init
  <2>4. QED
    BY <2>1, <2>2, <2>3 DEF TxnOK
<1>6. StmtOK
  BY StmtType DEF Init, StmtOK
<1>7. QED
  BY <1>3, <1>4, <1>5, <1>6 DEF TypeOK

LEMMA TypeInsertOneRow ==
  ASSUME TypeOK, InsertOneRow
  PROVE  TypeOK'
<1> DEFINE row == Head(stmt.rows)
<1>1. stmt.rows \in Seq(InputRow) /\ stmt.rows # << >>
  BY DEF TypeOK, StmtOK, Statement, InsertOneRow
<1>2. row \in InputRow /\ Tail(stmt.rows) \in Seq(InputRow)
  BY <1>1, HeadTailProperties
<1>3. row \in Row
  BY <1>2 DEF InsertOneRow, InsertAllowed, InputRow, Row
<1>4. PICK rid \in Rids :
        /\ NextSlot(slots, pages, rid)
        /\ slots' = InsertRow(slots, rid, row)
        /\ index' = TreeInsert(index, row.key, rid)
        /\ RecordChange("Insert", rid, NoRow)
  BY DEF InsertOneRow
<1>5. StorageOK'
  <2>1. slots' \in [Rids -> Slot]
    BY <1>3, <1>4, HeapOperators DEF TypeOK, StorageOK
  <2>2. index' \in [Keys -> Seq(Rids)]
    BY <1>3, <1>4, IndexOperators DEF TypeOK, StorageOK, Indexes, Row
  <2>3. pages' \in 0..MaxPages
    BY <1>4, PageWithSpaceBound DEF TypeOK, StorageOK, InsertOneRow
  <2>4. QED
    BY <2>1, <2>2, <2>3 DEF StorageOK
<1>6. WalOK' /\ TxnOK'
  BY <1>4, <1>5, RecordChangeType DEF ChangeTypes
<1>7. StmtOK'
  BY <1>2 DEF TypeOK, StmtOK, Statement, InsertOneRow
<1>8. QED
  BY <1>5, <1>6, <1>7 DEF TypeOK

LEMMA TypeUpdateOneRow ==
  ASSUME TypeOK, NEW rid \in Rids, UpdateOneRow(rid),
         NewRow(slots[rid].row, stmt.set).val # Null
  PROVE  TypeOK'
<1> DEFINE old == slots[rid].row
           new == NewRow(old, stmt.set)
<1>1. old \in Row /\ stmt.set \in Assignment
  BY DEF TypeOK, StorageOK, StmtOK, Statement, Slot
<1>2. new \in Row
  BY <1>1, NewRowType
<1>3. StorageOK'
  <2>1. slots' \in [Rids -> Slot]
    BY <1>2, HeapOperators DEF TypeOK, StorageOK, UpdateOneRow
  <2>2. old.key \in Keys /\ new.key \in Keys
    BY <1>1, <1>2 DEF Row
  <2>3. index' \in Indexes
    BY <2>2, IndexOperators
    DEF TypeOK, StorageOK, UpdateOneRow, Indexes
  <2>4. QED
    BY <2>1, <2>3 DEF TypeOK, StorageOK, UpdateOneRow, Indexes
<1>4. WalOK' /\ TxnOK'
  BY <1>1, <1>3, RecordChangeType DEF UpdateOneRow, ChangeTypes
<1>5. StmtOK'
  BY DEF TypeOK, StmtOK, Statement, UpdateOneRow
<1>6. QED
  BY <1>3, <1>4, <1>5 DEF TypeOK

LEMMA TypeDeleteOneRow ==
  ASSUME TypeOK, NEW rid \in Rids, DeleteOneRow(rid)
  PROVE  TypeOK'
<1> DEFINE old == slots[rid].row
<1>1. old \in Row /\ old.key \in Keys
  BY DEF TypeOK, StorageOK, Slot, Row
<1>2. StorageOK'
  <2>1. slots' \in [Rids -> Slot]
    BY <1>1, HeapOperators DEF TypeOK, StorageOK, DeleteOneRow
  <2>2. index' \in Indexes
    BY <1>1, IndexOperators DEF TypeOK, StorageOK, DeleteOneRow, Indexes
  <2>3. QED
    BY <2>1, <2>2 DEF TypeOK, StorageOK, DeleteOneRow, Indexes
<1>3. WalOK' /\ TxnOK'
  BY <1>1, <1>2, RecordChangeType DEF DeleteOneRow, ChangeTypes
<1>4. StmtOK'
  BY DEF TypeOK, StmtOK, Statement, DeleteOneRow
<1>5. QED
  BY <1>2, <1>3, <1>4 DEF TypeOK

-----------------------------------------------------------------------------
(* The inductive invariant: the pieces the actions share.                  *)

LEMMA SnapshotFields ==
  ASSUME NEW h, NEW ix
  PROVE  Snapshot(h, ix).view = View(h) /\ Snapshot(h, ix).index = ix
BY DEF Snapshot

\* The begin of a transaction starts the history.
LEMMA BeginTxnKeeps ==
  ASSUME IInv, NEW byUser \in BOOLEAN, BeginTxn(byUser),
         UNCHANGED storageVars
  PROVE  /\ StorageOK' /\ WalOK' /\ TxnOK' /\ activeTxn' # 0
         /\ Len(hist') = Len(changes') + 1
         /\ hist'[Len(hist')] = Snapshot(slots', index')
         /\ IndexMatches' /\ HistoryFits' /\ Chain' /\ SlotsKept'
<1>1. StorageOK' /\ WalOK' /\ TxnOK'
  BY BeginTxnType DEF IInv, TypeOK, StorageOK, storageVars
<1>2. activeTxn' # 0
  BY DEF IInv, TypeOK, TxnOK, BeginTxn
<1>3. slots' = slots /\ index' = index
  BY DEF storageVars
<1>4. /\ changes' = << >> /\ Len(changes') = 0
      /\ hist' = <<Snapshot(slots', index')>> /\ Len(hist') = 1
  BY <1>3 DEF BeginTxn
<1>5. IndexMatches'
  BY <1>3 DEF IInv, IndexMatches
<1>6. HistoryFits'
  BY <1>4, <1>5 DEF HistoryFits, IndexMatches
<1>7. Chain' /\ SlotsKept'
  BY <1>4 DEF Chain, SlotsKept
<1>8. QED
  BY <1>1, <1>2, <1>4, <1>5, <1>6, <1>7

LEMMA StatementStartsKeeps ==
  ASSUME IInv, StatementStarts
  PROVE  /\ StorageOK' /\ WalOK' /\ TxnOK' /\ activeTxn' # 0
         /\ Len(hist') = Len(changes') + 1
         /\ hist'[Len(hist')] = Snapshot(slots', index')
         /\ IndexMatches' /\ HistoryFits' /\ Chain' /\ SlotsKept'
<1>1. UNCHANGED storageVars
  BY DEF StatementStarts
<1>2. CASE activeTxn = 0
  BY <1>1, <1>2, BeginTxnKeeps DEF StatementStarts, GetOrBeginTxn
<1>3. CASE activeTxn # 0
  <2>1. UNCHANGED <<walVars, txnVars>>
    BY <1>3 DEF StatementStarts, GetOrBeginTxn
  <2>2. StorageOK' /\ WalOK' /\ TxnOK'
    BY StatementStartsType DEF IInv
  <2>3. /\ Len(hist') = Len(changes') + 1
        /\ hist'[Len(hist')] = Snapshot(slots', index')
    BY <1>1, <1>3, <2>1 DEF IInv, HistoryShape, storageVars, txnVars
  <2>4. IndexMatches' /\ HistoryFits' /\ Chain' /\ SlotsKept'
    BY <1>1, <2>1
    DEF IInv, IndexMatches, HistoryFits, Chain, SlotsKept, storageVars, txnVars
  <2>5. QED
    BY <1>3, <2>1, <2>2, <2>3, <2>4 DEF txnVars
<1>4. QED
  BY <1>2, <1>3

\* A change extends the chain, when it leads from the present to the next
\* present.
LEMMA RecordChangeKeeps ==
  ASSUME IInv, activeTxn # 0, StorageOK', IndexMatches',
         NEW type \in ChangeTypes, NEW rid \in Rids,
         NEW before \in Row \cup {NoRow}, RecordChange(type, rid, before),
         Leads([type |-> type, rid |-> rid, before |-> before],
               Snapshot(slots, index), Snapshot(slots', index'))
  PROVE  HistoryFits' /\ Chain' /\ activeTxn' # 0
         /\ Len(hist') = Len(changes') + 1
         /\ hist'[Len(hist')] = Snapshot(slots', index')
<1> DEFINE c == [type |-> type, rid |-> rid, before |-> before]
           new == Snapshot(slots', index')
           n == Len(changes)
<1>1. /\ n \in Nat /\ Len(hist) = n + 1
      /\ changes \in Seq(Change) /\ hist \in Seq([view : Views, index : Indexes])
      /\ hist[n + 1] = Snapshot(slots, index)
  BY DEF IInv, HistoryShape, TypeOK, TxnOK, Views, Indexes
<1>2. c \in Change
  BY DEF Change
<1>3. new \in [view : Views, index : Indexes]
  BY SnapshotType DEF StorageOK, Indexes
<1>4. changes' = Append(changes, c) /\ hist' = Append(hist, new)
  BY DEF RecordChange
<1> HIDE DEF c, new, n
<1>5. /\ Len(changes') = n + 1
      /\ \A i \in 1..n : changes'[i] = changes[i]
      /\ changes'[n + 1] = c
  BY <1>1, <1>2, <1>4, AppendProperties DEF n
<1>6. /\ Len(hist') = n + 2
      /\ \A i \in 1..(n + 1) : hist'[i] = hist[i]
      /\ hist'[n + 2] = new
  BY <1>1, <1>3, <1>4, AppendProperties
<1>7. HistoryFits'
  <2>1. ASSUME NEW i \in 1..(n + 2)
        PROVE  IndexFits(hist'[i])
    <3>1. CASE i = n + 2
      BY <3>1, <1>6 DEF IndexMatches, new
    <3>2. CASE i # n + 2
      <4>1. i \in 1..(n + 1)
        BY <3>2, <1>1
      <4>2. QED
        BY <4>1, <1>1, <1>6 DEF IInv, HistoryFits
    <3>3. QED
      BY <3>1, <3>2
  <2>2. QED
    BY <2>1, <1>6 DEF HistoryFits
<1>8. Chain'
  <2>1. ASSUME NEW i \in 1..(n + 1)
        PROVE  Leads(changes'[i], hist'[i], hist'[i + 1])
    <3>1. CASE i = n + 1
      <4>1. changes'[i] = c /\ hist'[i] = Snapshot(slots, index)
              /\ hist'[i + 1] = new
        BY <3>1, <1>1, <1>5, <1>6
      <4>2. QED
        BY <4>1 DEF c, new
    <3>2. CASE i # n + 1
      <4>1. i \in 1..n /\ i \in 1..(n + 1) /\ i + 1 \in 1..(n + 1)
        BY <3>2, <1>1
      <4>2. QED
        BY <4>1, <1>5, <1>6 DEF IInv, Chain, n
    <3>3. QED
      BY <3>1, <3>2
  <2>2. QED
    BY <2>1, <1>5 DEF Chain, Leads
<1>9. QED
  BY <1>1, <1>5, <1>6, <1>7, <1>8 DEF RecordChange, new

\* A row that is not a tombstone of the transaction may be written.
LEMMA SlotsKeptStep ==
  ASSUME IInv, NEW type \in ChangeTypes, NEW rid \in Rids,
         NEW before \in Row \cup {NoRow}, RecordChange(type, rid, before),
         ~slots[rid].used \/ Live(slots[rid]),
         slots'[rid].used, \A r \in Rids \ {rid} : slots'[r] = slots[r],
         type = "Delete" => slots'[rid].dead /\ slots'[rid].row = before
  PROVE  SlotsKept'
<1> DEFINE c == [type |-> type, rid |-> rid, before |-> before]
           n == Len(changes)
<1>1. n \in Nat /\ changes \in Seq(Change) /\ changes' = Append(changes, c)
  BY DEF IInv, TypeOK, TxnOK, RecordChange
<1>2. c \in Change
  BY DEF Change
<1>3. c.type = type /\ c.rid = rid /\ c.before = before
  OBVIOUS
<1> HIDE DEF c, n
<1>4. /\ Len(changes') = n + 1
      /\ \A i \in 1..n : changes'[i] = changes[i]
      /\ changes'[n + 1] = c
  BY <1>1, <1>2, AppendProperties DEF n
<1>5. \A i \in 1..n : changes[i] \in Change
  BY <1>1, ElementOfSeq DEF n
<1>6. ASSUME NEW i \in 1..n
      PROVE  changes[i].type = "Delete" => changes[i].rid # rid
  BY DEF IInv, SlotsKept, Live, n
<1>7. ASSUME NEW i \in 1..(n + 1)
      PROVE  /\ slots'[changes'[i].rid].used
             /\ changes'[i].type = "Delete" =>
                  /\ slots'[changes'[i].rid].dead
                  /\ slots'[changes'[i].rid].row = changes'[i].before
                  /\ \A j \in (i + 1)..(n + 1) :
                       changes'[j].rid # changes'[i].rid
  <2>1. CASE i = n + 1
    <3>1. changes'[i] = c /\ (i + 1)..(n + 1) = {}
      BY <2>1, <1>1, <1>4
    <3>2. QED
      BY <3>1, <1>3
  <2>2. CASE i # n + 1
    <3>1. i \in 1..n /\ changes'[i] = changes[i] /\ changes[i].rid \in Rids
      BY <2>2, <1>1, <1>4, <1>5 DEF Change
    <3>2. slots'[changes[i].rid].used
      BY <3>1 DEF IInv, SlotsKept, n
    <3>3. ASSUME changes[i].type = "Delete"
          PROVE  /\ slots'[changes[i].rid].dead
                 /\ slots'[changes[i].rid].row = changes[i].before
      BY <3>1, <3>3, <1>6 DEF IInv, SlotsKept, n
    <3>4. ASSUME changes[i].type = "Delete", NEW j \in (i + 1)..(n + 1)
          PROVE  changes'[j].rid # changes[i].rid
      <4>1. CASE j = n + 1
        BY <4>1, <3>1, <3>4, <1>3, <1>4, <1>6
      <4>2. CASE j # n + 1
        <5>1. j \in (i + 1)..n /\ j \in 1..n
          BY <4>2, <3>1, <1>1
        <5>2. QED
          BY <5>1, <3>1, <3>4, <1>4 DEF IInv, SlotsKept, n
      <4>3. QED
        BY <4>1, <4>2
    <3>5. QED
      BY <3>1, <3>2, <3>3, <3>4
  <2>3. QED
    BY <2>1, <2>2
<1>8. QED
  BY <1>4, <1>7 DEF SlotsKept

-----------------------------------------------------------------------------
(* The inductive invariant: the row steps.                                 *)

LEMMA InsertOneRowKeeps ==
  ASSUME IInv, InsertOneRow
  PROVE  IInv'
<1> DEFINE row == Head(stmt.rows)
<1>1. stmt.rows \in Seq(InputRow) /\ stmt.rows # << >> /\ stmt.kind = "insert"
  BY DEF IInv, TypeOK, StmtOK, Statement, InsertOneRow
<1>2. row \in InputRow
  BY <1>1, HeadTailProperties
<1>3. row \in Row /\ row.key \in Keys
  BY <1>2 DEF InsertOneRow, InsertAllowed, InputRow, Row
<1>4. PICK rid \in Rids :
        /\ NextSlot(slots, pages, rid)
        /\ slots' = InsertRow(slots, rid, row)
        /\ index' = TreeInsert(index, row.key, rid)
        /\ RecordChange("Insert", rid, NoRow)
  BY DEF InsertOneRow
<1> HIDE DEF row
<1>5. TypeOK /\ TypeOK'
  BY TypeInsertOneRow DEF IInv
<1>6. slots \in [Rids -> Slot] /\ index \in Indexes /\ pages \in 0..MaxPages
  BY <1>5 DEF TypeOK, StorageOK, Indexes
<1>7. ~slots[rid].used /\ View(slots)[rid] = NoRow
  BY <1>4, <1>6, PageWithSpaceBound DEF View, Live
<1>8. /\ View(slots) \in Views
      /\ View(slots') = [View(slots) EXCEPT ![rid] = row]
  BY <1>3, <1>4, <1>6, ViewOperators
<1>9. IndexFits([view |-> View(slots), index |-> index])
  BY DEF IInv, IndexMatches, Snapshot
<1>10. index[row.key] = << >>
  <2>1. PointQuery(index, row.key) = {}
    BY DEF InsertOneRow, InsertAllowed, row
  <2>2. QED
    BY <2>1, <1>3, <1>6, PointQueryEmpty
<1>11. IndexMatches'
  BY <1>3, <1>4, <1>6, <1>7, <1>8, <1>9, <1>10, InsertFits
  DEF IndexMatches, Snapshot
<1>12. activeTxn # 0
  BY <1>1 DEF IInv, HistoryShape
<1>13. Leads([type |-> "Insert", rid |-> rid, before |-> NoRow],
             Snapshot(slots, index), Snapshot(slots', index'))
  <2>1. row # NoRow
    BY <1>3, HeapAssumption DEF Row
  <2>2. View(slots')[rid] = row
          /\ \A r \in Rids \ {rid} : View(slots')[r] = View(slots)[r]
    BY <1>8 DEF Views
  <2>3. QED
    BY <2>1, <2>2, <1>7 DEF Leads, Snapshot
<1>14. /\ HistoryFits' /\ Chain' /\ activeTxn' # 0
       /\ Len(hist') = Len(changes') + 1
       /\ hist'[Len(hist')] = Snapshot(slots', index')
  BY <1>4, <1>5, <1>11, <1>12, <1>13, RecordChangeKeeps
  DEF TypeOK, ChangeTypes
<1>15. SlotsKept'
  <2>1. slots'[rid].used /\ \A r \in Rids \ {rid} : slots'[r] = slots[r]
    BY <1>4, <1>6 DEF InsertRow
  <2>2. QED
    BY <2>1, <1>4, <1>7, SlotsKeptStep DEF ChangeTypes
<1>16. StatementValid'
  <2>1. stmt'.kind = "insert"
    BY <1>1, <1>5 DEF InsertOneRow, TypeOK, StmtOK, Statement
  <2>2. QED
    BY <2>1 DEF StatementValid
<1>17. QED
  BY <1>5, <1>11, <1>14, <1>15, <1>16 DEF IInv, HistoryShape

LEMMA UpdateOneRowKeeps ==
  ASSUME IInv, NEW rid \in Rids, UpdateOneRow(rid)
  PROVE  IInv'
<1> DEFINE old == slots[rid].row
           new == NewRow(old, stmt.set)
<1>1. stmt.kind = "update" /\ rid \in stmt.rids
  BY DEF UpdateOneRow, IsNext
<1>2. Live(slots[rid]) /\ UpdateAllowed(stmt.rids, stmt.set)
  BY <1>1 DEF IInv, StatementValid
<1>3. /\ new.val # Null
      /\ new.key # old.key => PointQuery(index, new.key) = {}
  BY <1>1, <1>2 DEF UpdateAllowed
<1>4. TypeOK /\ TypeOK'
  BY <1>3, TypeUpdateOneRow DEF IInv
<1>5. slots \in [Rids -> Slot] /\ index \in Indexes
  BY <1>4 DEF TypeOK, StorageOK, Indexes
<1>6. stmt.set \in Assignment /\ stmt \in Statement
  BY <1>4 DEF TypeOK, StmtOK, Statement
<1>7. old \in Row /\ new \in Row
  BY <1>3, <1>5, <1>6, NewRowType DEF Slot
<1>8. /\ slots' = UpdateRow(slots, rid, new)
      /\ index' = IF new.key = old.key THEN index
                  ELSE TreeInsert(TreeDelete(index, old.key), new.key, rid)
      /\ RecordChange("Update", rid, old)
      /\ stmt' = [stmt EXCEPT !.rids = @ \ {rid}]
  BY DEF UpdateOneRow
<1> HIDE DEF old, new
<1>9. /\ View(slots) \in Views /\ View(slots)[rid] = old
      /\ View(slots') = [View(slots) EXCEPT ![rid] = new]
  <2>1. View(slots)[rid] = old
    BY <1>2 DEF View, old
  <2>2. slots[rid].used
    BY <1>2 DEF Live
  <2>3. QED
    BY <2>1, <2>2, <1>5, <1>7, <1>8, ViewOperators
<1>10. new.key # old.key => index[new.key] = << >>
  BY <1>3, <1>5, <1>7, PointQueryEmpty DEF Row
<1>11. IndexMatches'
  <2>1. IndexFits([view |-> View(slots), index |-> index])
    BY DEF IInv, IndexMatches, Snapshot
  <2>2. IndexFits([view |-> [View(slots) EXCEPT ![rid] = new],
                   index |-> index'])
    BY <2>1, <1>5, <1>7, <1>8, <1>9, <1>10, UpdateFits
  <2>3. QED
    BY <2>2, <1>9 DEF IndexMatches, Snapshot
<1>12. activeTxn # 0
  BY <1>1 DEF IInv, HistoryShape
<1>13. Leads([type |-> "Update", rid |-> rid, before |-> old],
             Snapshot(slots, index), Snapshot(slots', index'))
  <2>1. new # NoRow /\ old # NoRow
    BY <1>7, HeapAssumption DEF Row
  <2>2. View(slots')[rid] = new
          /\ \A r \in Rids \ {rid} : View(slots')[r] = View(slots)[r]
    BY <1>9 DEF Views
  <2>3. QED
    BY <2>1, <2>2, <1>9 DEF Leads, Snapshot
<1>14. /\ HistoryFits' /\ Chain' /\ activeTxn' # 0
       /\ Len(hist') = Len(changes') + 1
       /\ hist'[Len(hist')] = Snapshot(slots', index')
  BY <1>4, <1>7, <1>8, <1>11, <1>12, <1>13, RecordChangeKeeps
  DEF TypeOK, ChangeTypes
<1>15. slots'[rid].used /\ \A r \in Rids \ {rid} : slots'[r] = slots[r]
  BY <1>2, <1>5, <1>8 DEF UpdateRow, Live
<1>16. SlotsKept'
  BY <1>2, <1>7, <1>8, <1>15, SlotsKeptStep DEF ChangeTypes
<1>17. /\ stmt'.kind = "update" /\ stmt'.set = stmt.set
       /\ stmt'.rids = stmt.rids \ {rid} /\ stmt.rids \subseteq Rids
  BY <1>1, <1>6, <1>8 DEF Statement
<1>18. StatementValid'
  <2>1. \A r \in stmt'.rids : Live(slots'[r])
    BY <1>1, <1>15, <1>17 DEF IInv, StatementValid
  <2>2. stmt'.set.col = "key" => \A r, q \in stmt'.rids : r = q
    BY <1>1, <1>17 DEF IInv, StatementValid
  <2>3. UpdateAllowed(stmt.rids, stmt.set)'
    <3>1. ASSUME NEW r \in stmt'.rids
          PROVE  /\ NewRow(slots'[r].row, stmt'.set).val # Null
                 /\ NewRow(slots'[r].row, stmt'.set).key # slots'[r].row.key
                      => PointQuery(index', NewRow(slots'[r].row, stmt'.set).key)
                           = {}
      <4>1. r \in stmt.rids /\ r \in Rids /\ r # rid /\ slots'[r] = slots[r]
        BY <1>15, <1>17
      <4>2. stmt.set.col # "key"
        BY <4>1, <1>1 DEF IInv, StatementValid
      <4>3. slots[r].row \in Row
        BY <4>1, <1>5 DEF Slot
      <4>4. NewRow(slots[r].row, stmt.set).val # Null
        BY <4>1, <1>2 DEF UpdateAllowed
      <4>5. NewRow(slots[r].row, stmt.set).key = slots[r].row.key
        BY <4>2, <4>3 DEF NewRow, Row
      <4>6. QED
        BY <4>1, <4>4, <4>5, <1>17
    <3>2. QED
      BY <3>1 DEF UpdateAllowed
  <2>4. QED
    BY <2>1, <2>2, <2>3 DEF StatementValid
<1>19. QED
  BY <1>4, <1>11, <1>14, <1>16, <1>18 DEF IInv, HistoryShape

LEMMA DeleteOneRowKeeps ==
  ASSUME IInv, NEW rid \in Rids, DeleteOneRow(rid)
  PROVE  IInv'
<1> DEFINE old == slots[rid].row
<1>1. stmt.kind = "delete" /\ rid \in stmt.rids
  BY DEF DeleteOneRow, IsNext
<1>2. Live(slots[rid])
  BY <1>1 DEF IInv, StatementValid
<1>3. TypeOK /\ TypeOK'
  BY TypeDeleteOneRow DEF IInv
<1>4. slots \in [Rids -> Slot] /\ index \in Indexes
  BY <1>3 DEF TypeOK, StorageOK, Indexes
<1>5. old \in Row
  BY <1>4 DEF Slot
<1>6. /\ slots' = DeleteRow(slots, rid)
      /\ index' = TreeDelete(index, old.key)
      /\ RecordChange("Delete", rid, old)
      /\ stmt' = [stmt EXCEPT !.rids = @ \ {rid}]
  BY DEF DeleteOneRow
<1>7. /\ View(slots) \in Views /\ View(slots)[rid] = old
      /\ View(slots') = [View(slots) EXCEPT ![rid] = NoRow]
  <2>1. View(slots)[rid] = old
    BY <1>2 DEF View
  <2>2. QED
    BY <2>1, <1>4, <1>5, <1>6, ViewOperators
<1>8. /\ slots'[rid].used /\ slots'[rid].dead /\ slots'[rid].row = old
      /\ \A r \in Rids \ {rid} : slots'[r] = slots[r]
  BY <1>2, <1>4, <1>6 DEF DeleteRow, Live
<1> HIDE DEF old
<1>9. IndexMatches'
  <2>1. IndexFits([view |-> View(slots), index |-> index])
    BY DEF IInv, IndexMatches, Snapshot
  <2>2. IndexFits([view  |-> [View(slots) EXCEPT ![rid] = NoRow],
                   index |-> index'])
    BY <2>1, <1>4, <1>5, <1>6, <1>7, DeleteFits
  <2>3. QED
    BY <2>2, <1>7 DEF IndexMatches, Snapshot
<1>10. activeTxn # 0
  BY <1>1 DEF IInv, HistoryShape
<1>11. Leads([type |-> "Delete", rid |-> rid, before |-> old],
             Snapshot(slots, index), Snapshot(slots', index'))
  <2>1. old # NoRow
    BY <1>5, HeapAssumption DEF Row
  <2>2. View(slots')[rid] = NoRow
          /\ \A r \in Rids \ {rid} : View(slots')[r] = View(slots)[r]
    BY <1>7 DEF Views
  <2>3. QED
    BY <2>1, <2>2, <1>7 DEF Leads, Snapshot
<1>12. /\ HistoryFits' /\ Chain' /\ activeTxn' # 0
       /\ Len(hist') = Len(changes') + 1
       /\ hist'[Len(hist')] = Snapshot(slots', index')
  BY <1>3, <1>5, <1>6, <1>9, <1>10, <1>11, RecordChangeKeeps
  DEF TypeOK, ChangeTypes
<1>13. SlotsKept'
  BY <1>2, <1>5, <1>6, <1>8, SlotsKeptStep DEF ChangeTypes
<1>14. StatementValid'
  <2>1. /\ stmt'.kind = "delete" /\ stmt'.rids = stmt.rids \ {rid}
        /\ stmt.rids \subseteq Rids
    BY <1>1, <1>3, <1>6 DEF TypeOK, StmtOK, Statement
  <2>2. QED
    BY <2>1, <1>1, <1>8 DEF IInv, StatementValid
<1>15. QED
  BY <1>3, <1>9, <1>12, <1>13, <1>14 DEF IInv, HistoryShape

-----------------------------------------------------------------------------
(* The inductive invariant: rollback.                                      *)

\* One turn of the undo loop: the present becomes the snapshot before the
\* last change.
LEMMA UndoOneChangeKeeps ==
  ASSUME IInv, UndoOneChange
  PROVE  IInv'
<1> DEFINE n == Len(changes)
           c == Last(changes)
           before == hist[n]
           row == slots[c.rid].row
<1>1. /\ changes \in Seq(Change) /\ changes # << >>
      /\ hist \in Seq([view : Views, index : Indexes])
      /\ slots \in [Rids -> Slot] /\ index \in Indexes
  BY DEF IInv, TypeOK, StorageOK, TxnOK, UndoOneChange, Views, Indexes
<1>2. /\ changes' = Front(changes) /\ hist' = Front(hist)
      /\ slots' = UndoneSlots(c) /\ index' = UndoneIndex(c)
      /\ UNCHANGED <<pages, walVars, nextTxnId, activeTxn, explicit, stmt>>
  BY DEF UndoOneChange
<1>3. /\ n \in Nat \ {0} /\ c \in Change /\ c = changes[n]
      /\ changes' \in Seq(Change) /\ Len(changes') = n - 1
      /\ \A i \in 1..(n - 1) : changes'[i] = changes[i]
  BY <1>1, <1>2, FrontLast
<1>4. /\ activeTxn # 0 /\ Len(hist) = n + 1
      /\ hist[n + 1] = Snapshot(slots, index)
  <2>1. changes # << >>
    BY <1>1
  <2>2. activeTxn # 0
    BY <2>1 DEF IInv, HistoryShape
  <2>3. QED
    BY <2>2 DEF IInv, HistoryShape
<1>5. /\ hist' \in Seq([view : Views, index : Indexes]) /\ Len(hist') = n
      /\ \A i \in 1..n : hist'[i] = hist[i]
  <2> DEFINE Snapshots == [view : Views, index : Indexes]
  <2>1. hist \in Seq(Snapshots) /\ hist # << >>
    BY <1>1, <1>3, <1>4, EmptySeq
  <2>2. Len(hist) - 1 = n
    BY <1>3, <1>4
  <2> HIDE DEF n, Snapshots
  <2>3. /\ Front(hist) \in Seq(Snapshots) /\ Len(Front(hist)) = Len(hist) - 1
        /\ \A i \in 1..(Len(hist) - 1) : Front(hist)[i] = hist[i]
    BY <2>1, FrontLast
  <2>4. QED
    BY <2>2, <2>3, <1>2 DEF Snapshots
<1>6. before \in [view : Views, index : Indexes]
  <2>1. n \in 1..Len(hist)
    BY <1>3, <1>4
  <2>2. QED
    BY <2>1, <1>1, ElementOfSeq
<1>7. Leads(c, before, Snapshot(slots, index))
  BY <1>3, <1>4 DEF IInv, Chain
<1>8. /\ slots[c.rid].used
      /\ c.type = "Delete" => slots[c.rid].dead /\ row = c.before
  BY <1>3 DEF IInv, SlotsKept
<1>9. c.rid \in Rids /\ c.before \in Row \cup {NoRow} /\ c.type \in ChangeTypes
  BY <1>3 DEF Change
<1>10. row \in Row
  BY <1>1, <1>9 DEF Slot
<1>11. IndexFits(before) /\ IndexFits(Snapshot(slots, index))
  BY <1>3, <1>4 DEF IInv, HistoryFits, IndexMatches
<1> HIDE DEF n, c, before, row
<1> DEFINE view == View(slots)
<1>12. view \in Views /\ IndexFits([view |-> view, index |-> index])
  BY <1>1, <1>9, <1>10, <1>11, ViewOperators DEF Snapshot
<1>13. /\ before.view \in Views /\ before.index \in Indexes
       /\ before = [view |-> before.view, index |-> before.index]
       /\ before.view[c.rid] = c.before
       /\ \A r \in Rids \ {c.rid} : view[r] = before.view[r]
       /\ c.type = "Insert" <=> c.before = NoRow
       /\ c.type = "Delete" <=> view[c.rid] = NoRow
  <2>1. Snapshot(slots, index).view = view
    BY DEF Snapshot
  <2> HIDE DEF view
  <2>2. QED
    BY <2>1, <1>6, <1>7 DEF Leads
<1>14. c.type # "Delete" => view[c.rid] = row
  BY <1>8, <1>9, <1>13 DEF View, row
<1>15. \* no other row has the key that comes back
       ASSUME c.type # "Insert"
       PROVE  /\ c.before \in Row
              /\ \A r \in Rids \ {c.rid} :
                   view[r] # NoRow => view[r].key # c.before.key
  <2>1. c.before \in Row /\ c.before # NoRow
    BY <1>9, <1>13, <1>15
  <2>2. c.before.key \in Keys
    BY <2>1 DEF Row
  <2>3. \A r \in Rids \ {c.rid} :
          before.view[r] # NoRow => before.view[r].key # c.before.key
    BY <2>1, <2>2, <1>9, <1>11, <1>13 DEF IndexFits
  <2>4. QED
    BY <2>1, <2>3, <1>13
<1>16. /\ slots' \in [Rids -> Slot] /\ index' \in Indexes
       /\ slots'[c.rid].used
       /\ \A r \in Rids \ {c.rid} : slots'[r] = slots[r]
       /\ View(slots') = [view EXCEPT ![c.rid] = c.before]
       /\ IndexFits([view |-> View(slots'), index |-> index'])
  <2>1. CASE c.type = "Insert"
    <3>1. /\ slots' = DeleteRow(slots, c.rid)
          /\ index' = TreeDelete(index, row.key)
      BY <2>1, <1>2 DEF UndoneSlots, UndoneIndex, row
    <3>2. /\ slots' \in [Rids -> Slot]
          /\ View(slots') = [view EXCEPT ![c.rid] = c.before]
      BY <3>1, <2>1, <1>1, <1>9, <1>10, <1>13, HeapOperators, ViewOperators, ZenonT(30)
    <3>3. /\ slots'[c.rid].used
          /\ \A r \in Rids \ {c.rid} : slots'[r] = slots[r]
      BY <3>1, <1>1, <1>8, <1>9 DEF DeleteRow
    <3>4. view[c.rid] = row
      BY <2>1, <1>14
    <3> HIDE DEF view
    <3>5. /\ index' \in Indexes
          /\ IndexFits([view |-> [view EXCEPT ![c.rid] = NoRow],
                        index |-> index'])
      BY <3>1, <3>4, <1>1, <1>9, <1>10, <1>12, DeleteFits
    <3>6. QED
      BY <3>2, <3>3, <3>5, <2>1, <1>13
  <2>2. CASE c.type = "Update"
    <3>1. /\ slots' = UpdateRow(slots, c.rid, c.before)
          /\ index' = IF c.before.key = row.key THEN index
                      ELSE TreeInsert(TreeDelete(index, row.key),
                                      c.before.key, c.rid)
      BY <2>2, <1>2 DEF UndoneSlots, UndoneIndex, row
    <3>2. c.before \in Row
      BY <2>2, <1>15
    <3>3. /\ slots' \in [Rids -> Slot]
          /\ View(slots') = [view EXCEPT ![c.rid] = c.before]
      <4>1. slots' \in [Rids -> Slot]
        BY <3>1, <3>2, <1>1, <1>9, HeapOperators
      <4>2. \A image \in Row : View(UpdateRow(slots, c.rid, image))
                                 = [view EXCEPT ![c.rid] = image]
        BY <1>1, <1>8, <1>9, ViewOperators
      <4>3. QED
        BY <4>1, <4>2, <3>1, <3>2
    <3>4. /\ slots'[c.rid].used
          /\ \A r \in Rids \ {c.rid} : slots'[r] = slots[r]
      BY <3>1, <1>1, <1>8, <1>9 DEF UpdateRow
    <3>5. view[c.rid] = row
      BY <2>2, <1>14
    <3>6. ASSUME c.before.key # row.key
          PROVE  index[c.before.key] = << >>
      <4>1. \A r \in Rids : view[r] # NoRow => view[r].key # c.before.key
        BY <3>5, <3>6, <2>2, <1>15
      <4>2. c.before.key \in Keys
        BY <3>2 DEF Row
      <4> HIDE DEF view
      <4>3. QED
        BY <4>1, <4>2, <1>1, <1>12, NoEntry
    <3> HIDE DEF view
    <3>7. /\ index' \in Indexes
          /\ IndexFits([view |-> [view EXCEPT ![c.rid] = c.before],
                        index |-> index'])
      BY <3>1, <3>2, <3>5, <3>6, <1>1, <1>9, <1>10, <1>12, UpdateFits
    <3>8. QED
      BY <3>3, <3>4, <3>7
  <2>3. CASE c.type = "Delete"
    <3>1. /\ slots' = UndeleteRow(slots, c.rid)
          /\ index' = TreeInsert(index, c.before.key, c.rid)
      BY <2>3, <1>2 DEF UndoneSlots, UndoneIndex
    <3>2. c.before \in Row /\ c.before.key \in Keys /\ row = c.before
      BY <2>3, <1>8, <1>15 DEF Row
    <3>3. /\ slots' \in [Rids -> Slot]
          /\ View(slots') = [view EXCEPT ![c.rid] = c.before]
      <4>1. slots' \in [Rids -> Slot]
        BY <3>1, <3>2, <1>1, <1>9, HeapOperators
      <4>2. View(UndeleteRow(slots, c.rid))
              = [view EXCEPT ![c.rid] = slots[c.rid].row]
        BY <3>2, <1>1, <1>8, <1>9, ViewOperators
      <4>3. QED
        BY <4>1, <4>2, <3>1, <3>2 DEF row
    <3>4. /\ slots'[c.rid].used
          /\ \A r \in Rids \ {c.rid} : slots'[r] = slots[r]
      BY <3>1, <1>1, <1>8, <1>9 DEF UndeleteRow
    <3>5. view[c.rid] = NoRow
      BY <2>3, <1>13
    <3>6. \A r \in Rids : view[r] # NoRow => view[r].key # c.before.key
      BY <3>5, <2>3, <1>15
    <3> HIDE DEF view
    <3>7. index[c.before.key] = << >>
      BY <3>2, <3>6, <1>1, <1>12, NoEntry
    <3>8. /\ index' \in Indexes
          /\ IndexFits([view |-> [view EXCEPT ![c.rid] = c.before],
                        index |-> index'])
      BY <3>1, <3>2, <3>5, <3>7, <1>1, <1>9, <1>12, InsertFits
    <3>9. QED
      BY <3>3, <3>4, <3>8
  <2>4. QED
    BY <2>1, <2>2, <2>3, <1>9 DEF ChangeTypes
<1>17. Snapshot(slots', index') = before
  <2>1. View(slots') = before.view
    <3>1. /\ view \in [Rids -> Row \cup {NoRow}]
          /\ before.view \in [Rids -> Row \cup {NoRow}]
      BY <1>12, <1>13 DEF Views
    <3> HIDE DEF view
    <3>2. ASSUME NEW r \in Rids
          PROVE  [view EXCEPT ![c.rid] = c.before][r] = before.view[r]
      BY <3>1, <1>9, <1>13
    <3>3. QED
      BY <3>1, <3>2, <1>16, ZenonT(30)
  <2>2. index' = before.index
    BY <2>1, <1>11, <1>13, <1>16, FitsUnique
  <2>3. QED
    BY <2>1, <2>2, <1>13 DEF Snapshot
<1>18. TypeOK'
  <2>1. StorageOK'
    BY <1>2, <1>16 DEF IInv, TypeOK, StorageOK, Indexes
  <2>2. WalOK' /\ StmtOK'
    BY <1>2 DEF IInv, TypeOK, WalOK, StmtOK, walVars
  <2>3. TxnOK'
    BY <1>2, <1>3, <1>5 DEF IInv, TypeOK, TxnOK, Views, Indexes
  <2>4. QED
    BY <2>1, <2>2, <2>3 DEF TypeOK
<1>19. HistoryShape'
  BY <1>2, <1>3, <1>4, <1>5, <1>17 DEF HistoryShape, before
<1>20. IndexMatches' /\ HistoryFits'
  BY <1>3, <1>4, <1>5, <1>16 DEF IndexMatches, Snapshot, HistoryFits, IInv
<1>21. Chain'
  <2>1. ASSUME NEW i \in 1..(n - 1)
        PROVE  Leads(changes'[i], hist'[i], hist'[i + 1])
    <3>1. i \in 1..n /\ i + 1 \in 1..n
      BY <1>3
    <3>2. QED
      BY <3>1, <1>3, <1>5 DEF IInv, Chain, n
  <2>2. QED
    BY <2>1, <1>3 DEF Chain, Leads
<1>22. SlotsKept'
  <2>1. ASSUME NEW i \in 1..(n - 1)
        PROVE  /\ slots'[changes'[i].rid].used
               /\ changes'[i].type = "Delete" =>
                    /\ slots'[changes'[i].rid].dead
                    /\ slots'[changes'[i].rid].row = changes'[i].before
                    /\ \A j \in (i + 1)..(n - 1) :
                         changes'[j].rid # changes'[i].rid
    <3>1. /\ i \in 1..n /\ n \in (i + 1)..n /\ changes'[i] = changes[i]
          /\ changes[i].rid \in Rids
      <4>1. i \in 1..n /\ n \in (i + 1)..n
        BY <1>3
      <4>2. changes[i] \in Change
        BY <4>1, <1>1, ElementOfSeq DEF n
      <4>3. QED
        BY <4>1, <4>2, <1>3 DEF Change
    <3>2. slots'[changes[i].rid].used
      BY <3>1, <1>16 DEF IInv, SlotsKept, n
    <3>3. ASSUME changes[i].type = "Delete"
          PROVE  changes[i].rid # c.rid
      BY <3>1, <3>3, <1>3 DEF IInv, SlotsKept, n
    <3>4. ASSUME changes[i].type = "Delete", NEW j \in (i + 1)..(n - 1)
          PROVE  changes'[j].rid # changes[i].rid
      <4>1. j \in 1..(n - 1) /\ j \in (i + 1)..n
        BY <1>3
      <4>2. QED
        BY <4>1, <3>1, <3>4, <1>3 DEF IInv, SlotsKept, n
    <3>5. QED
      BY <3>1, <3>2, <3>3, <3>4, <1>16 DEF IInv, SlotsKept, n
  <2>2. QED
    BY <2>1, <1>3 DEF SlotsKept
<1>23. StatementValid'
  BY <1>2 DEF StatementValid, UndoOneChange
<1>24. QED
  BY <1>18, <1>19, <1>20, <1>21, <1>22, <1>23 DEF IInv

\* The end of a transaction, by COMMIT, by the end of an auto-commit
\* statement or by ROLLBACK.
LEMMA EndTxnKeeps ==
  ASSUME IInv, NEW type \in WalTypes, LogControl(type, activeTxn), Flush,
         EndTxn, UNCHANGED storageVars,
         stmt' \in Statement, stmt'.kind = "idle"
  PROVE  IInv'
<1>1. WalOK' /\ TxnOK'
  BY EndTxnType DEF IInv
<1>2. StorageOK'
  BY DEF IInv, TypeOK, StorageOK, storageVars
<1>3. StmtOK'
  BY DEF StmtOK
<1>4. activeTxn' = 0 /\ changes' = << >> /\ hist' = << >>
  BY DEF EndTxn
<1>5. Len(changes') = 0 /\ Len(hist') = 0
  BY <1>4
<1>6. IndexMatches'
  BY DEF IInv, IndexMatches, storageVars
<1>7. HistoryFits' /\ Chain' /\ SlotsKept'
  BY <1>5 DEF HistoryFits, Chain, SlotsKept
<1>8. QED
  BY <1>1, <1>2, <1>3, <1>4, <1>6, <1>7
  DEF IInv, TypeOK, HistoryShape, StatementValid

\* A step that changes nothing but the statement in progress.
LEMMA StatementStepKeeps ==
  ASSUME IInv, UNCHANGED <<storageVars, walVars, txnVars>>,
         StmtOK', StatementValid', activeTxn = 0 => stmt'.kind = "idle"
  PROVE  IInv'
<1>1. StorageOK' /\ WalOK' /\ TxnOK'
  BY DEF IInv, TypeOK, StorageOK, WalOK, TxnOK, storageVars, walVars, txnVars
<1>2. HistoryShape'
  BY DEF IInv, HistoryShape, storageVars, txnVars
<1>3. IndexMatches' /\ HistoryFits' /\ Chain' /\ SlotsKept'
  BY DEF IInv, IndexMatches, HistoryFits, Chain, SlotsKept, storageVars, txnVars
<1>4. QED
  BY <1>1, <1>2, <1>3 DEF IInv, TypeOK

LEMMA UnchangedKeeps ==
  ASSUME IInv, UNCHANGED vars
  PROVE  IInv'
<1>1. UNCHANGED <<storageVars, walVars, txnVars>> /\ stmt' = stmt
  BY DEF vars
<1>2. StmtOK' /\ StatementValid'
  BY <1>1
  DEF IInv, TypeOK, StmtOK, StatementValid, UpdateAllowed, storageVars
<1>3. activeTxn = 0 => stmt'.kind = "idle"
  BY <1>1 DEF IInv, HistoryShape
<1>4. QED
  BY <1>1, <1>2, <1>3, StatementStepKeeps

\* The three data statements up to the first row.
LEMMA DataStatementKeeps ==
  ASSUME IInv, DataStatement, OneRowKeyUpdates
  PROVE  IInv'
<1> SUFFICES ASSUME StatementStarts PROVE StmtOK' /\ StatementValid'
  BY StatementStartsKeeps
  DEF DataStatement, InsertStatement, UpdateStatement, DeleteStatement, IInv,
      TypeOK, HistoryShape
<1>1. slots' = slots /\ index' = index
  BY DEF StatementStarts, storageVars
<1>2. NoAssignment \in Assignment /\ << >> \in Seq(InputRow)
  BY EmptySeq DEF NoAssignment, Assignment
<1>3. ASSUME NEW rows \in InsertInputs, InsertStatement(rows)
      PROVE  StmtOK' /\ StatementValid'
  <2>1. rows \in Seq(InputRow)
    BY <1>3 DEF InsertInputs
  <2>2. stmt' = Running("insert", rows, {}, NoAssignment)
    BY <1>3 DEF InsertStatement
  <2>3. stmt' \in Statement
    BY <2>1, <2>2, <1>2, StmtType
  <2>4. stmt'.kind = "insert"
    BY <2>2 DEF Running
  <2>5. QED
    BY <2>3, <2>4 DEF StmtOK, StatementValid
<1>4. ASSUME NEW where \in Where, NEW set \in Assignment,
             UpdateStatement(where, set)
      PROVE  StmtOK' /\ StatementValid'
  <2> DEFINE rids == Scanned(where)
  <2>1. rids \subseteq Rids /\ \A r \in rids : Live(slots[r])
    BY ScannedType, ScannedLive DEF IInv
  <2>2. CASE UpdateAllowed(rids, set)
    <3>1. stmt' = Running("update", << >>, rids, set)
      BY <2>2, <1>4 DEF UpdateStatement
    <3>2. set.col = "key" => \A r, q \in rids : r = q
      BY <1>4 DEF UpdateStatement
    <3> HIDE DEF rids
    <3>3. stmt' \in Statement
      BY <3>1, <2>1, <1>2, StmtType
    <3>4. stmt'.kind = "update" /\ stmt'.rids = rids /\ stmt'.set = set
      BY <3>1 DEF Running
    <3>5. UpdateAllowed(stmt.rids, stmt.set)'
      BY <3>4, <2>2, <1>1 DEF UpdateAllowed
    <3>6. QED
      BY <3>2, <3>3, <3>4, <3>5, <2>1, <1>1 DEF StmtOK, StatementValid
  <2>3. CASE ~UpdateAllowed(rids, set)
    <3>1. stmt' = Idle
      BY <2>3, <1>4 DEF UpdateStatement
    <3>2. QED
      BY <3>1, StmtType DEF StmtOK, StatementValid, Idle
  <2>4. QED
    BY <2>2, <2>3
<1>5. ASSUME NEW where \in Where, DeleteStatement(where)
      PROVE  StmtOK' /\ StatementValid'
  <2>1. Scanned(where) \subseteq Rids
          /\ \A r \in Scanned(where) : Live(slots[r])
    BY ScannedType, ScannedLive DEF IInv
  <2>2. stmt' = Running("delete", << >>, Scanned(where), NoAssignment)
    BY <1>5 DEF DeleteStatement
  <2>3. stmt' \in Statement
    BY <2>1, <2>2, <1>2, StmtType
  <2>4. stmt'.kind = "delete" /\ stmt'.rids = Scanned(where)
    BY <2>2 DEF Running
  <2>5. QED
    BY <2>1, <2>3, <2>4, <1>1 DEF StmtOK, StatementValid
<1>6. QED
  BY <1>3, <1>4, <1>5 DEF DataStatement

-----------------------------------------------------------------------------
(* The inductive invariant, and what follows from it.  It needs that an    *)
(* UPDATE of the key matches one row at most: without that two rows can    *)
(* get the same key (Session_PrimaryKeyUnique.cfg).                        *)

LEMMA InvariantInit == Init => IInv
<1> SUFFICES ASSUME Init PROVE IInv
  OBVIOUS
<1>1. TypeOK
  BY TypeInit
<1>2. HistoryShape /\ HistoryFits /\ Chain /\ SlotsKept /\ StatementValid
  BY DEF Init, Idle, HistoryShape, HistoryFits, Chain, SlotsKept,
         StatementValid
<1>3. IndexMatches
  <2>1. \A r \in Rids : View(slots)[r] = NoRow
    BY DEF Init, EmptyHeap, FreeSlot, View, Live
  <2>2. \A k \in Keys : index[k] = << >>
    BY DEF Init, EmptyIndex
  <2>3. QED
    BY <2>1, <2>2 DEF IndexMatches, IndexFits, Snapshot
<1>4. QED
  BY <1>1, <1>2, <1>3 DEF IInv

LEMMA InvariantStep ==
  ASSUME OneRowKeyUpdates, IInv, [Next]_vars
  PROVE  IInv'
<1>1. CASE DataStatement
  BY <1>1, DataStatementKeeps
<1>2. CASE RowStep
  <2>1. CASE InsertRejected
    BY <2>1, StmtType, StatementStepKeeps
    DEF InsertRejected, Rejected, StmtOK, StatementValid, Idle
  <2>2. CASE InsertOneRow
    BY <2>2, InsertOneRowKeeps
  <2>3. ASSUME NEW rid \in Rids, UpdateOneRow(rid)
        PROVE  IInv'
    BY <2>3, UpdateOneRowKeeps
  <2>4. ASSUME NEW rid \in Rids, DeleteOneRow(rid)
        PROVE  IInv'
    BY <2>4, DeleteOneRowKeeps
  <2>5. CASE FinishStatement
    <3>1. CASE stmt.auto
      <4>1. stmt' = Idle
        BY <2>5 DEF FinishStatement
      <4>2. stmt' \in Statement /\ stmt'.kind = "idle"
        BY <4>1, StmtType DEF Idle
      <4>3. QED
        BY <2>5, <3>1, <4>2, EndTxnKeeps
        DEF FinishStatement, CommitTxn, WalTypes
    <3>2. CASE ~stmt.auto
      BY <2>5, <3>2, StmtType, StatementStepKeeps
      DEF FinishStatement, StmtOK, StatementValid, Idle
    <3>3. QED
      BY <3>1, <3>2
  <2>6. QED
    BY <1>2, <2>1, <2>2, <2>3, <2>4, <2>5 DEF RowStep
<1>3. CASE TxnControl
  <2>1. CASE BeginStatement
    <3>1. stmt' = stmt /\ stmt.kind = "idle"
      BY <2>1 DEF BeginStatement
    <3>2. StmtOK' /\ StatementValid'
      BY <3>1 DEF IInv, TypeOK, StmtOK, StatementValid
    <3>3. QED
      BY <2>1, <3>2, BeginTxnKeeps
      DEF BeginStatement, IInv, TypeOK, HistoryShape
  <2>2. CASE CommitStatement
    <3>1. UNCHANGED <<storageVars, stmt>> /\ CommitTxn
      BY <2>2 DEF CommitStatement
    <3>2. stmt.kind = "idle"
      BY <2>2 DEF CommitStatement
    <3>3. QED
      BY <3>1, <3>2, EndTxnKeeps
      DEF CommitTxn, WalTypes, IInv, TypeOK, StmtOK
  <2>3. CASE ControlRefused
    BY <2>3, UnchangedKeeps DEF ControlRefused
  <2>4. CASE RollbackStatement
    <3>1. /\ activeTxn # 0
          /\ stmt' = Running("rollback", << >>, {}, NoAssignment)
          /\ UNCHANGED <<storageVars, walVars, txnVars>>
      BY <2>4 DEF RollbackStatement
    <3>2. NoAssignment \in Assignment /\ << >> \in Seq(InputRow)
      BY EmptySeq DEF NoAssignment, Assignment
    <3>3. stmt' \in Statement
      BY <3>1, <3>2, StmtType
    <3>4. stmt'.kind = "rollback"
      BY <3>1 DEF Running
    <3>5. QED
      BY <3>1, <3>3, <3>4, StatementStepKeeps DEF StmtOK, StatementValid
  <2>5. CASE UndoOneChange
    BY <2>5, UndoOneChangeKeeps
  <2>6. CASE FinishRollback
    <3>1. stmt' = Idle
      BY <2>6 DEF FinishRollback
    <3>2. stmt' \in Statement /\ stmt'.kind = "idle"
      BY <3>1, StmtType DEF Idle
    <3>3. QED
      BY <2>6, <3>2, EndTxnKeeps DEF FinishRollback, WalTypes
  <2>7. QED
    BY <1>3, <2>1, <2>2, <2>3, <2>4, <2>5, <2>6 DEF TxnControl
<1>4. CASE UNCHANGED vars
  BY <1>4, UnchangedKeeps
<1>5. QED
  BY <1>1, <1>2, <1>3, <1>4 DEF Next

\* What every reachable state of the session satisfies.
THEOREM SessionInvariantHolds ==
  ASSUME OneRowKeyUpdates
  PROVE  Spec => []IInv
<1>1. Init => IInv
  BY InvariantInit
<1>2. IInv /\ [Next]_vars => IInv'
  BY InvariantStep
<1>3. QED
  BY <1>1, <1>2, PTL DEF Spec

\* Every variable stays in its type: an update never writes the NULL that
\* phase 1 refused, and the heap never outgrows its pages.
THEOREM TypeCorrect ==
  ASSUME OneRowKeyUpdates
  PROVE  Spec => []TypeOK
<1>1. IInv => TypeOK
  BY DEF IInv
<1>2. QED
  BY <1>1, SessionInvariantHolds, PTL

\* The primary key index shows exactly the live rows, after every row step of
\* every statement and of every rollback.
THEOREM IndexAlwaysMatches ==
  ASSUME OneRowKeyUpdates
  PROVE  Spec => []IndexMatches
<1>1. IInv => IndexMatches
  BY DEF IInv
<1>2. QED
  BY <1>1, SessionInvariantHolds, PTL

\* A rollback that has undone every change has restored the table and the
\* index of the begin of the transaction.
THEOREM RollbackAlwaysRestores ==
  ASSUME OneRowKeyUpdates
  PROVE  Spec => []RollbackRestores
<1>1. IInv => RollbackRestores
  <2> SUFFICES ASSUME IInv, stmt.kind = "rollback", changes = << >>
               PROVE  Snapshot(slots, index) = hist[1]
    BY DEF RollbackRestores
  <2>1. activeTxn # 0 /\ Len(changes) = 0
    BY DEF IInv, HistoryShape
  <2>2. /\ Len(hist) = Len(changes) + 1
        /\ hist[Len(hist)] = Snapshot(slots, index)
    BY <2>1 DEF IInv, HistoryShape
  <2>3. Len(hist) = 1
    BY <2>1, <2>2
  <2>4. QED
    BY <2>2, <2>3
<1>2. QED
  BY <1>1, SessionInvariantHolds, PTL

\* No two live rows ever have the same primary key (README 460), as long as
\* no UPDATE of the key matches several rows.
THEOREM PrimaryKeyHolds ==
  ASSUME OneRowKeyUpdates
  PROVE  Spec => []PrimaryKeyUnique
<1>1. IInv => PrimaryKeyUnique
  <2> SUFFICES ASSUME IInv, NEW r \in FullScan(slots), NEW q \in FullScan(slots),
                      r # q
               PROVE  slots[r].row.key # slots[q].row.key
    BY DEF PrimaryKeyUnique
  <2>1. r \in Rids /\ q \in Rids /\ Live(slots[r]) /\ Live(slots[q])
    BY DEF FullScan
  <2>2. View(slots)[r] = slots[r].row /\ View(slots)[q] = slots[q].row
    BY <2>1 DEF View
  <2>3. slots[r].row \in Row /\ slots[q].row \in Row
    BY <2>1 DEF IInv, TypeOK, StorageOK, Slot
  <2>4. slots[r].row # NoRow /\ slots[q].row # NoRow /\ slots[r].row.key \in Keys
    BY <2>3, HeapAssumption DEF Row
  <2>5. PICK only \in Rids :
          \A other \in Rids \ {only} :
            View(slots)[other] # NoRow
              => View(slots)[other].key # slots[r].row.key
    BY <2>1, <2>2, <2>4 DEF IInv, IndexMatches, IndexFits, Snapshot
  <2>6. QED
    BY <2>1, <2>2, <2>4, <2>5
<1>2. QED
  BY <1>1, SessionInvariantHolds, PTL

\* The end of every transaction is on disk before its statement returns,
\* whatever the statements were.
THEOREM EndsAreForced == Spec => []EndedTxnsForced
<1> DEFINE I == /\ EndedTxnsForced
                /\ activeTxn = 0 => stmt.kind = "idle"
                /\ nextTxnId \in Nat \ {0} /\ activeTxn \in Nat
<1>1. Init => I
  BY DEF Init, EndedTxnsForced, Idle
<1>2. I /\ [Next]_vars => I'
  <2> SUFFICES ASSUME I, [Next]_vars PROVE I'
    OBVIOUS
  <2>1. ASSUME NEW byUser, BeginTxn(byUser) PROVE I'
    BY <2>1 DEF BeginTxn, EndedTxnsForced
  <2>2. ASSUME NEW type, NEW txn, LogControl(type, txn), Flush, EndTxn,
               stmt'.kind = "idle"
        PROVE  I'
    BY <2>2 DEF Flush, EndTxn, EndedTxnsForced
  <2>3. ASSUME UNCHANGED <<walVars, txnVars>>,
               activeTxn # 0 \/ stmt'.kind = "idle"
        PROVE  I'
    BY <2>3 DEF walVars, txnVars, EndedTxnsForced
  <2>4. ASSUME NEW type, NEW rid, NEW before,
               RecordChange(type, rid, before), activeTxn # 0
        PROVE  I'
    BY <2>4 DEF RecordChange, EndedTxnsForced
  <2>5. CASE DataStatement
    <3>1. StatementStarts
      BY <2>5 DEF DataStatement, InsertStatement, UpdateStatement,
                  DeleteStatement
    <3>2. CASE activeTxn = 0
      BY <3>1, <3>2, <2>1 DEF StatementStarts, GetOrBeginTxn
    <3>3. CASE activeTxn # 0
      BY <3>1, <3>3, <2>3 DEF StatementStarts, GetOrBeginTxn
    <3>4. QED
      BY <3>2, <3>3
  <2>6. CASE RowStep
    <3>1. CASE InsertRejected
      BY <3>1, <2>3 DEF InsertRejected, Rejected, Idle
    <3>2. CASE InsertOneRow
      BY <3>2, <2>4 DEF InsertOneRow
    <3>3. ASSUME NEW rid \in Rids, UpdateOneRow(rid) PROVE I'
      BY <3>3, <2>4 DEF UpdateOneRow
    <3>4. ASSUME NEW rid \in Rids, DeleteOneRow(rid) PROVE I'
      BY <3>4, <2>4 DEF DeleteOneRow
    <3>5. CASE FinishStatement
      BY <3>5, <2>2, <2>3 DEF FinishStatement, CommitTxn, Idle
    <3>6. QED
      BY <2>6, <3>1, <3>2, <3>3, <3>4, <3>5 DEF RowStep
  <2>7. CASE TxnControl
    <3>1. CASE BeginStatement
      BY <3>1, <2>1 DEF BeginStatement
    <3>2. CASE CommitStatement
      BY <3>2, <2>2 DEF CommitStatement, CommitTxn
    <3>3. CASE ControlRefused
      BY <3>3, <2>3 DEF ControlRefused, vars
    <3>4. CASE RollbackStatement
      BY <3>4, <2>3 DEF RollbackStatement
    <3>5. CASE UndoOneChange
      BY <3>5 DEF UndoOneChange, EndedTxnsForced, walVars
    <3>6. CASE FinishRollback
      BY <3>6, <2>2 DEF FinishRollback, Idle
    <3>7. QED
      BY <2>7, <3>1, <3>2, <3>3, <3>4, <3>5, <3>6 DEF TxnControl
  <2>8. CASE UNCHANGED vars
    BY <2>8, <2>3 DEF vars
  <2>9. QED
    BY <2>5, <2>6, <2>7, <2>8 DEF Next
<1>3. I => EndedTxnsForced
  OBVIOUS
<1>4. QED
  BY <1>1, <1>2, <1>3, PTL DEF Spec

\* The session implements the atomic table of AtomicTable: committed state
\* changes only at a commit, to what the transaction made of it, and a
\* rollback ends where its transaction began.
THEOREM SessionImplementsAtomic ==
  ASSUME OneRowKeyUpdates
  PROVE  Spec => AtomicSpec
<1>1. Init => Atomic!AInit
  BY DEF Init, Idle, Atomic!AInit, Committed, Mode, Snapshot
<1>2. IInv /\ [Next]_vars => [Atomic!ANext]_(Atomic!avars)
  <2> SUFFICES ASSUME IInv, [Next]_vars
               PROVE  [Atomic!ANext]_(Atomic!avars)
    OBVIOUS
  <2> DEFINE work == Snapshot(slots, index)
  <2>1. /\ activeTxn # 0 => hist[Len(hist)] = work /\ Len(hist) = Len(changes) + 1
        /\ changes \in Seq(Change) /\ Len(changes) \in Nat
        /\ activeTxn = 0 => stmt.kind = "idle"
        /\ hist \in Seq([view : Views, index : Indexes])
        /\ nextTxnId # 0
    BY DEF IInv, HistoryShape, TypeOK, TxnOK, Views, Indexes
  <2>2. ASSUME activeTxn = 0, NEW byUser, BeginTxn(byUser),
               UNCHANGED storageVars, stmt'.kind # "rollback"
        PROVE  Atomic!ABegin
    BY <2>1, <2>2
    DEF BeginTxn, storageVars, Atomic!ABegin, Committed, Mode, Snapshot
  <2>3. ASSUME activeTxn # 0, stmt.kind # "rollback", EndTxn,
               UNCHANGED storageVars
        PROVE  Atomic!ACommit
    BY <2>3 DEF EndTxn, storageVars, Atomic!ACommit, Committed, Mode, Snapshot
  <2>4. ASSUME UNCHANGED <<storageVars, walVars, txnVars>>,
               stmt'.kind = "rollback" <=> stmt.kind = "rollback"
        PROVE  UNCHANGED Atomic!avars
    BY <2>4
    DEF storageVars, txnVars, Atomic!avars, Committed, Mode, Snapshot
  <2>5. ASSUME activeTxn # 0, stmt.kind # "rollback", stmt'.kind # "rollback",
               NEW type, NEW rid, NEW before, RecordChange(type, rid, before)
        PROVE  Atomic!AWork
    <3>1. hist'[1] = hist[1]
      <4> DEFINE snapshot == Snapshot(slots', index')
      <4>1. hist' = Append(hist, snapshot)
        BY <2>5 DEF RecordChange
      <4>2. Len(hist) \in Nat /\ 1 <= Len(hist)
        BY <2>1, <2>5
      <4> HIDE DEF snapshot
      <4>3. QED
        BY <4>1, <4>2, <2>1
    <3>2. QED
      BY <3>1, <2>5 DEF RecordChange, Atomic!AWork, Committed, Mode
  <2>6. CASE DataStatement
    <3>1. StatementStarts /\ stmt.kind = "idle" /\ stmt'.kind # "rollback"
      BY <2>6 DEF DataStatement, InsertStatement, UpdateStatement,
                  DeleteStatement, StatementStarts, Running, Idle
    <3>2. CASE activeTxn = 0
      BY <3>1, <3>2, <2>2 DEF StatementStarts, GetOrBeginTxn, Atomic!ANext
    <3>3. CASE activeTxn # 0
      BY <3>1, <3>3, <2>4 DEF StatementStarts, GetOrBeginTxn
    <3>4. QED
      BY <3>2, <3>3
  <2>7. CASE RowStep
    <3>1. CASE InsertRejected
      BY <3>1, <2>4 DEF InsertRejected, Rejected, Idle
    <3>2. CASE InsertOneRow
      <4>1. stmt.kind = "insert" /\ stmt'.kind = "insert"
        BY <3>2 DEF InsertOneRow, IInv, TypeOK, StmtOK, Statement
      <4>2. QED
        BY <3>2, <4>1, <2>1, <2>5 DEF InsertOneRow, Atomic!ANext
    <3>3. ASSUME NEW rid \in Rids, UpdateOneRow(rid)
          PROVE  Atomic!ANext
      <4>1. stmt.kind = "update" /\ stmt'.kind = "update"
        BY <3>3 DEF UpdateOneRow, IInv, TypeOK, StmtOK, Statement
      <4>2. QED
        BY <3>3, <4>1, <2>1, <2>5 DEF UpdateOneRow, Atomic!ANext
    <3>4. ASSUME NEW rid \in Rids, DeleteOneRow(rid)
          PROVE  Atomic!ANext
      <4>1. stmt.kind = "delete" /\ stmt'.kind = "delete"
        BY <3>4 DEF DeleteOneRow, IInv, TypeOK, StmtOK, Statement
      <4>2. QED
        BY <3>4, <4>1, <2>1, <2>5 DEF DeleteOneRow, Atomic!ANext
    <3>5. CASE FinishStatement
      <4>1. /\ stmt.kind # "rollback" /\ stmt.kind # "idle"
            /\ stmt'.kind = "idle" /\ UNCHANGED storageVars
        BY <3>5 DEF FinishStatement, Idle
      <4>2. CASE stmt.auto
        BY <3>5, <4>1, <4>2, <2>1, <2>3
        DEF FinishStatement, CommitTxn, Atomic!ANext
      <4>3. CASE ~stmt.auto
        BY <3>5, <4>1, <4>3, <2>4 DEF FinishStatement
      <4>4. QED
        BY <4>2, <4>3
    <3>6. QED
      BY <2>7, <3>1, <3>2, <3>3, <3>4, <3>5 DEF RowStep
  <2>8. CASE TxnControl
    <3>1. CASE BeginStatement
      BY <3>1, <2>2 DEF BeginStatement, Atomic!ANext
    <3>2. CASE CommitStatement
      BY <3>2, <2>3 DEF CommitStatement, CommitTxn, Atomic!ANext
    <3>3. CASE ControlRefused
      BY <3>3, <2>4 DEF ControlRefused, vars
    <3>4. CASE RollbackStatement
      BY <3>4 DEF RollbackStatement, Running, storageVars, txnVars,
                  Atomic!ANext, Atomic!AAbort, Committed, Mode, Snapshot
    <3>5. CASE UndoOneChange
      <4>1. activeTxn # 0 /\ Len(hist) - 1 \in Nat \ {0} /\ hist # << >>
        <5>1. changes # << >>
          BY <3>5 DEF UndoOneChange
        <5>2. Len(changes) \in Nat \ {0}
          BY <5>1, <2>1, EmptySeq
        <5>3. activeTxn # 0
          BY <5>1 DEF IInv, HistoryShape
        <5>4. Len(hist) = Len(changes) + 1
          BY <5>3, <2>1
        <5>5. QED
          BY <5>2, <5>3, <5>4, EmptySeq
      <4> DEFINE Snapshots == [view : Views, index : Indexes]
      <4>2. hist \in Seq(Snapshots)
        BY <2>1
      <4> HIDE DEF Snapshots
      <4>3. /\ Len(hist) \in Nat \ {0}
            /\ \A i \in 1..(Len(hist) - 1) : Front(hist)[i] = hist[i]
        BY <4>1, <4>2, FrontLast
      <4>4. Front(hist)[1] = hist[1]
        <5>1. 1 \in 1..(Len(hist) - 1)
          BY <4>1
        <5>2. QED
          BY <5>1, <4>3
      <4>5. QED
        BY <3>5, <4>1, <4>4
        DEF UndoOneChange, Atomic!ANext, Atomic!AWork, Committed, Mode
    <3>6. CASE FinishRollback
      <4>1. activeTxn # 0 /\ hist[1] = work
        <5>1. activeTxn # 0
          BY <3>6 DEF FinishRollback, IInv, HistoryShape
        <5>2. Len(changes) = 0
          BY <3>6 DEF FinishRollback
        <5>3. Len(hist) = 1
          BY <5>1, <5>2, <2>1
        <5>4. QED
          BY <5>1, <5>3, <2>1
      <4>2. QED
        BY <3>6, <4>1
        DEF FinishRollback, EndTxn, Idle, storageVars, Atomic!ANext,
            Atomic!AAborted, Committed, Mode, Snapshot
    <3>7. QED
      BY <2>8, <3>1, <3>2, <3>3, <3>4, <3>5, <3>6 DEF TxnControl
  <2>9. CASE UNCHANGED vars
    BY <2>9, <2>4 DEF vars
  <2>10. QED
    BY <2>6, <2>7, <2>8, <2>9 DEF Next
<1>3. QED
  BY <1>1, <1>2, SessionInvariantHolds, PTL
  DEF Spec, AtomicSpec, Atomic!ASpec

-----------------------------------------------------------------------------
(* The log tells the change list.                                          *)

\* What ChangesOf computes for every prefix of the records.
UpTo(f, recs, txn) ==
  f = [n \in 0..Len(recs) |->
         IF n = 0 THEN << >>
         ELSE IF Mine(recs[n], txn) THEN Append(f[n - 1], ChangeIn(recs[n]))
         ELSE f[n - 1]]

Told == [type : WalTypes, rid : Rids \cup {0}, before : Row \cup {NoRow}]

LEMMA UpToExists ==
  ASSUME NEW recs \in Seq(WalRecord), NEW txn
  PROVE  \E f \in [0..Len(recs) -> Seq(Told)] : UpTo(f, recs, txn)
<1> DEFINE n == Len(recs)
           step == [p \in Nat \X Seq(Told) |->
                      IF p[1] + 1 <= n /\ Mine(recs[p[1] + 1], txn)
                      THEN Append(p[2], ChangeIn(recs[p[1] + 1])) ELSE p[2]]
<1>1. n \in Nat /\ \A i \in 1..n : recs[i] \in WalRecord
  BY ElementOfSeq
<1>2. \A rec \in WalRecord : ChangeIn(rec) \in Told
  BY DEF WalRecord, ChangeIn, Told
<1>3. << >> \in Seq(Told)
  OBVIOUS
<1> HIDE DEF n
<1>4. step \in [Nat \X Seq(Told) -> Seq(Told)]
  <2>1. ASSUME NEW p \in Nat \X Seq(Told), p[1] + 1 <= n
        PROVE  Append(p[2], ChangeIn(recs[p[1] + 1])) \in Seq(Told)
    <3>1. p[1] + 1 \in 1..n /\ p[2] \in Seq(Told)
      BY <2>1, <1>1
    <3>2. ChangeIn(recs[p[1] + 1]) \in Told
      BY <3>1, <1>1, <1>2
    <3>3. QED
      BY <3>1, <3>2, AppendProperties
  <2>2. QED
    BY <2>1
<1>5. \A i \in Nat, s \in Seq(Told) :
        step[<<i, s>>] = IF i + 1 <= n /\ Mine(recs[i + 1], txn)
                         THEN Append(s, ChangeIn(recs[i + 1])) ELSE s
  OBVIOUS
<1> HIDE DEF step
<1>6. PICK h : Computed(h, Seq(Told), << >>, step)
  BY <1>3, <1>4, RecursionExists
<1>7. /\ h \in [Nat -> Seq(Told)] /\ h[0] = << >>
      /\ \A i \in Nat : h[i + 1] = step[<<i, h[i]>>]
  BY <1>6 DEF Computed
<1> DEFINE f == [i \in 0..n |-> h[i]]
<1>8. f \in [0..n -> Seq(Told)]
  BY <1>1, <1>7
<1>9. ASSUME NEW i \in 0..n
      PROVE  f[i] = IF i = 0 THEN << >>
                    ELSE IF Mine(recs[i], txn) THEN Append(f[i - 1], ChangeIn(recs[i]))
                    ELSE f[i - 1]
  <2>1. CASE i = 0
    BY <2>1, <1>7
  <2>2. CASE i # 0
    <3>1. i - 1 \in Nat /\ (i - 1) + 1 = i /\ i <= n /\ i - 1 \in 0..n
      BY <2>2, <1>1
    <3>2. f[i] = h[i] /\ f[i - 1] = h[i - 1] /\ h[i - 1] \in Seq(Told)
      BY <3>1, <1>7
    <3>3. h[i] = step[<<i - 1, h[i - 1]>>]
      BY <3>1, <1>7
    <3>4. QED
      BY <2>2, <3>1, <3>2, <3>3, <1>5
  <2>3. QED
    BY <2>1, <2>2
<1> HIDE DEF f
<1>10. f = [i \in 0..n |-> f[i]]
  BY <1>8
<1>11. UpTo(f, recs, txn)
  BY <1>9, <1>10 DEF UpTo, n
<1>12. QED
  BY <1>8, <1>11 DEF n

LEMMA ChangesOfIsUpTo ==
  ASSUME NEW recs \in Seq(WalRecord), NEW txn
  PROVE  \E f : UpTo(f, recs, txn) /\ ChangesOf(recs, txn) = f[Len(recs)]
<1> DEFINE f == CHOOSE g : UpTo(g, recs, txn)
<1>1. UpTo(f, recs, txn)
  BY UpToExists
<1>2. ChangesOf(recs, txn) = f[Len(recs)]
  BY DEF ChangesOf, UpTo
<1>3. QED
  BY <1>1, <1>2

\* A longer log begins with the same computation.
LEMMA UpToAgree ==
  ASSUME NEW recs \in Seq(WalRecord), NEW more \in Seq(WalRecord), NEW txn, NEW f, NEW g,
         UpTo(f, recs, txn), UpTo(g, more, txn), Len(recs) <= Len(more),
         \A i \in 1..Len(recs) : more[i] = recs[i]
  PROVE  f[Len(recs)] = g[Len(recs)]
<1> DEFINE T == {i \in Nat : i <= Len(recs) => f[i] = g[i]}
<1>1. Len(recs) \in Nat /\ Len(more) \in Nat
  OBVIOUS
<1>2. 0 \in T
  <2>1. 0 \in 0..Len(recs) /\ 0 \in 0..Len(more)
    BY <1>1
  <2>2. f[0] = << >> /\ g[0] = << >>
    BY <2>1, Zenon DEF UpTo
  <2>3. QED
    BY <2>2
<1>3. ASSUME NEW i \in Nat, i \in T PROVE i + 1 \in T
  <2>1. SUFFICES ASSUME i + 1 <= Len(recs) PROVE f[i + 1] = g[i + 1]
    OBVIOUS
  <2> DEFINE j == i + 1
  <2>2. j \in 0..Len(recs) /\ j \in 0..Len(more) /\ j \in 1..Len(recs) /\ j # 0 /\ j - 1 = i
    BY <1>1, <2>1
  <2> HIDE DEF j
  <2>3. f[j] = IF Mine(recs[j], txn) THEN Append(f[j - 1], ChangeIn(recs[j])) ELSE f[j - 1]
    BY <2>2, Zenon DEF UpTo
  <2>4. g[j] = IF Mine(more[j], txn) THEN Append(g[j - 1], ChangeIn(more[j])) ELSE g[j - 1]
    BY <2>2, Zenon DEF UpTo
  <2>5. more[j] = recs[j]
    BY <2>2
  <2>6. f[i] = g[i]
    BY <1>3, <1>1, <2>1
  <2>7. f[j] = g[j]
    BY <2>2, <2>3, <2>4, <2>5, <2>6
  <2>8. QED
    BY <2>7 DEF j
<1> HIDE DEF T
<1>4. Len(recs) \in T
  BY <1>1, <1>2, <1>3, SetInduction
<1>5. QED
  BY <1>4, <1>1 DEF T

\* One more record in the log, one more change of its transaction.
LEMMA ChangesOfAppend ==
  ASSUME NEW recs \in Seq(WalRecord), NEW rec \in WalRecord, NEW txn
  PROVE  ChangesOf(Append(recs, rec), txn)
           = IF Mine(rec, txn) THEN Append(ChangesOf(recs, txn), ChangeIn(rec))
                               ELSE ChangesOf(recs, txn)
<1> DEFINE more == Append(recs, rec)
           n == Len(recs)
<1>1. /\ more \in Seq(WalRecord) /\ n \in Nat /\ Len(more) = n + 1 /\ more[n + 1] = rec
      /\ \A i \in 1..n : more[i] = recs[i]
  BY AppendProperties
<1>2. PICK f : UpTo(f, recs, txn) /\ ChangesOf(recs, txn) = f[n]
  BY ChangesOfIsUpTo
<1> HIDE DEF more
<1>3. PICK g : UpTo(g, more, txn) /\ ChangesOf(more, txn) = g[n + 1]
  BY <1>1, ChangesOfIsUpTo
<1> HIDE DEF n
<1>4. f[n] = g[n]
  <2>1. n <= n + 1
    BY <1>1
  <2>2. QED
    BY <2>1, <1>1, <1>2, <1>3, UpToAgree DEF n
<1>5. g[n + 1] = IF Mine(rec, txn) THEN Append(g[n], ChangeIn(rec)) ELSE g[n]
  <2>1. n + 1 \in 0..Len(more) /\ n + 1 # 0 /\ (n + 1) - 1 = n
    BY <1>1
  <2>2. g[n + 1] = IF Mine(more[n + 1], txn)
                   THEN Append(g[(n + 1) - 1], ChangeIn(more[n + 1]))
                   ELSE g[(n + 1) - 1]
    BY <2>1, <1>3, Zenon DEF UpTo
  <2>3. QED
    BY <2>1, <2>2, <1>1
<1>6. QED
  BY <1>2, <1>3, <1>4, <1>5 DEF more

\* A transaction that has logged nothing has no changes.
LEMMA ChangesOfNone ==
  ASSUME NEW recs \in Seq(WalRecord), NEW txn, \A i \in 1..Len(recs) : ~ Mine(recs[i], txn)
  PROVE  ChangesOf(recs, txn) = << >>
<1>1. PICK f : UpTo(f, recs, txn) /\ ChangesOf(recs, txn) = f[Len(recs)]
  BY ChangesOfIsUpTo
<1> DEFINE T == {i \in Nat : i <= Len(recs) => f[i] = << >>}
<1>2. Len(recs) \in Nat
  OBVIOUS
<1>3. 0 \in T
  <2>1. 0 \in 0..Len(recs)
    BY <1>2
  <2>2. f[0] = << >>
    BY <2>1, <1>1, Zenon DEF UpTo
  <2>3. QED
    BY <2>2
<1>4. ASSUME NEW i \in Nat, i \in T PROVE i + 1 \in T
  <2>1. SUFFICES ASSUME i + 1 <= Len(recs) PROVE f[i + 1] = << >>
    OBVIOUS
  <2>2. i + 1 \in 0..Len(recs) /\ i + 1 \in 1..Len(recs) /\ i + 1 # 0 /\ (i + 1) - 1 = i
    BY <1>2, <2>1
  <2>3. f[i + 1] = IF Mine(recs[i + 1], txn)
                   THEN Append(f[(i + 1) - 1], ChangeIn(recs[i + 1])) ELSE f[(i + 1) - 1]
    BY <2>2, <1>1, Zenon DEF UpTo
  <2>4. QED
    BY <2>2, <2>3, <1>2, <1>4, <2>1
<1> HIDE DEF T
<1>5. Len(recs) \in T
  BY <1>2, <1>3, <1>4, SetInduction
<1>6. QED
  BY <1>1, <1>2, <1>5 DEF T

\* No record of the log is of a transaction yet to begin.
NumbersUsed ==
  /\ activeTxn < nextTxnId
  /\ \A i \in 1..Len(log) : log[i].txn < nextTxnId

LoggedInv == ChangesLogged /\ NumbersUsed

LEMMA LogWriteUsed ==
  ASSUME TypeOK, NumbersUsed, NEW type \in WalTypes, NEW txn \in Nat,
         NEW rid \in Rids \cup {0}, NEW before \in Row \cup {NoRow},
         LogWrite(type, txn, rid, before), txn < nextTxnId', nextTxnId <= nextTxnId',
         nextTxnId' \in Nat, activeTxn' < nextTxnId'
  PROVE  /\ NumbersUsed'
         /\ \A t : ChangesOf(log', t) =
                 IF t = txn /\ type \in ChangeTypes
                 THEN Append(ChangesOf(log, t),
                             [type |-> type, rid |-> rid, before |-> before])
                 ELSE ChangesOf(log, t)
<1> DEFINE rec == [lsn |-> nextLsn, txn |-> txn, type |-> type, rid |-> rid,
                   before |-> before]
<1>1. rec \in WalRecord /\ log \in Seq(WalRecord) /\ log' = Append(log, rec)
  BY DEF LogWrite, TypeOK, WalOK, WalRecord
<1>2. \A t : Mine(rec, t) <=> t = txn /\ type \in ChangeTypes
  BY DEF Mine
<1>3. ChangeIn(rec) = [type |-> type, rid |-> rid, before |-> before] /\ rec.txn = txn
  BY DEF ChangeIn
<1> HIDE DEF rec
<1>4. NumbersUsed'
  <2>1. /\ Len(log') = Len(log) + 1 /\ log'[Len(log) + 1] = rec /\ Len(log) \in Nat
        /\ \A i \in 1..Len(log) : log'[i] = log[i]
    BY <1>1, AppendProperties
  <2>2. \A i \in 1..Len(log) : log[i].txn < nextTxnId /\ log[i].txn \in Nat
    <3>1. \A i \in 1..Len(log) : log[i] \in WalRecord
      BY <1>1, ElementOfSeq
    <3>2. QED
      BY <3>1 DEF NumbersUsed, WalRecord
  <2>3. ASSUME NEW i \in 1..Len(log') PROVE log'[i].txn < nextTxnId'
    <3>1. CASE i \in 1..Len(log)
      BY <3>1, <2>1, <2>2 DEF TypeOK, TxnOK
    <3>2. CASE i = Len(log) + 1
      BY <3>2, <2>1, <1>3
    <3>3. QED
      BY <3>1, <3>2, <2>1
  <2>4. QED
    BY <2>3 DEF NumbersUsed
<1>5. QED
  BY <1>1, <1>2, <1>3, <1>4, ChangesOfAppend

LEMMA BeginTxnLogged ==
  ASSUME TypeOK, LoggedInv, NEW byUser, BeginTxn(byUser), stmt'.kind # "rollback"
  PROVE  LoggedInv'
<1>1. /\ nextTxnId \in Nat \ {0} /\ nextTxnId' = nextTxnId + 1 /\ activeTxn' = nextTxnId
      /\ changes' = << >> /\ LogWrite("Begin", nextTxnId, 0, NoRow)
  BY DEF TypeOK, TxnOK, BeginTxn, LogControl
<1>2. "Begin" \in WalTypes /\ "Begin" \notin ChangeTypes
  BY DEF WalTypes, ChangeTypes
<1>3. NumbersUsed' /\ \A t : ChangesOf(log', t) = ChangesOf(log, t)
  <2>1. /\ nextTxnId \in Nat /\ 0 \in Rids \cup {0} /\ NoRow \in Row \cup {NoRow}
        /\ nextTxnId < nextTxnId' /\ nextTxnId <= nextTxnId' /\ nextTxnId' \in Nat
        /\ activeTxn' < nextTxnId'
    BY <1>1
  <2>2. QED
    BY <2>1, <1>1, <1>2, LogWriteUsed DEF LoggedInv
<1>4. ChangesOf(log, nextTxnId) = << >>
  <2>1. log \in Seq(WalRecord) /\ \A i \in 1..Len(log) : log[i].txn < nextTxnId
    BY DEF TypeOK, WalOK, LoggedInv, NumbersUsed
  <2>2. \A i \in 1..Len(log) : log[i].txn \in Nat
    <3>1. \A i \in 1..Len(log) : log[i] \in WalRecord
      BY <2>1, ElementOfSeq
    <3>2. QED
      BY <3>1 DEF WalRecord
  <2>3. \A i \in 1..Len(log) : log[i].txn # nextTxnId
    BY <2>1, <2>2, <1>1
  <2>4. QED
    BY <2>1, <2>3, ChangesOfNone DEF Mine
<1>5. QED
  BY <1>1, <1>3, <1>4 DEF LoggedInv, ChangesLogged, Logged

LEMMA EndTxnLogged ==
  ASSUME TypeOK, LoggedInv, NEW type \in WalTypes, LogControl(type, activeTxn), EndTxn
  PROVE  LoggedInv'
<1>1. /\ nextTxnId \in Nat \ {0} /\ nextTxnId' = nextTxnId /\ activeTxn' = 0
      /\ LogWrite(type, activeTxn, 0, NoRow) /\ activeTxn \in Nat
      /\ activeTxn < nextTxnId
  BY DEF TypeOK, TxnOK, EndTxn, LogControl, LoggedInv, NumbersUsed
<1>2. NumbersUsed'
  <2>1. /\ 0 \in Rids \cup {0} /\ NoRow \in Row \cup {NoRow}
        /\ activeTxn < nextTxnId' /\ nextTxnId <= nextTxnId' /\ nextTxnId' \in Nat
        /\ activeTxn' < nextTxnId'
    BY <1>1
  <2>2. QED
    BY <2>1, <1>1, LogWriteUsed DEF LoggedInv
<1>3. QED
  BY <1>1, <1>2 DEF LoggedInv, ChangesLogged

LEMMA RecordChangeLogged ==
  ASSUME TypeOK, LoggedInv, activeTxn # 0, stmt.kind # "rollback",
         stmt'.kind # "rollback", NEW type \in ChangeTypes, NEW rid \in Rids,
         NEW before \in Row \cup {NoRow}, RecordChange(type, rid, before)
  PROVE  LoggedInv'
<1>1. /\ nextTxnId \in Nat \ {0} /\ nextTxnId' = nextTxnId /\ activeTxn' = activeTxn
      /\ LogWrite(type, activeTxn, rid, before) /\ activeTxn \in Nat
      /\ activeTxn < nextTxnId
      /\ changes' = Append(changes, [type |-> type, rid |-> rid, before |-> before])
  BY DEF TypeOK, TxnOK, RecordChange, LoggedInv, NumbersUsed
<1>2. /\ NumbersUsed'
      /\ ChangesOf(log', activeTxn) =
           Append(ChangesOf(log, activeTxn), [type |-> type, rid |-> rid, before |-> before])
  BY <1>1, LogWriteUsed DEF LoggedInv, WalTypes
<1>3. QED
  BY <1>1, <1>2 DEF LoggedInv, ChangesLogged, Logged

\* A step that leaves the log and the transaction alone.
LEMMA NothingLogged ==
  ASSUME LoggedInv, UNCHANGED <<walVars, txnVars>>,
         stmt'.kind = "rollback" <=> stmt.kind = "rollback"
  PROVE  LoggedInv'
BY DEF LoggedInv, ChangesLogged, Logged, NumbersUsed, walVars, txnVars

\* A rollback begins with the whole story, and takes its end away.
LEMMA PrefixOfStory ==
  ASSUME NEW S, NEW s \in Seq(S), NEW t
  PROVE  /\ IsPrefix(s, s)
         /\ s # << >> /\ IsPrefix(s, t) => IsPrefix(Front(s), t)
<1>1. IsPrefix(s, s)
  BY DEF IsPrefix
<1>2. ASSUME s # << >>, IsPrefix(s, t) PROVE IsPrefix(Front(s), t)
  <2> DEFINE n == Len(s)
  <2>1. n \in Nat \ {0} /\ Front(s) = SubSeq(s, 1, n - 1) /\ Len(Front(s)) = n - 1
    BY <1>2, FrontLast DEF Front
  <2>2. n <= Len(t) /\ s = SubSeq(t, 1, n)
    <3>1. SubSeq(s, 1, Len(s)) = s
      OBVIOUS
    <3>2. QED
      BY <3>1, <1>2 DEF IsPrefix
  <2>3. QED
    BY <2>1, <2>2 DEF IsPrefix
<1>3. QED
  BY <1>1, <1>2

LEMMA LoggedStep ==
  ASSUME IInv, LoggedInv, [Next]_vars
  PROVE  LoggedInv'
<1>1. TypeOK /\ (activeTxn = 0 => stmt.kind = "idle")
  BY DEF IInv, HistoryShape
<1>2. CASE DataStatement
  <2>1. StatementStarts /\ stmt'.kind # "rollback" /\ stmt.kind # "rollback"
    BY <1>2 DEF DataStatement, InsertStatement, UpdateStatement, DeleteStatement,
                StatementStarts, Running, Idle
  <2>2. CASE activeTxn = 0
    BY <2>1, <2>2, <1>1, BeginTxnLogged DEF StatementStarts, GetOrBeginTxn
  <2>3. CASE activeTxn # 0
    BY <2>1, <2>3, NothingLogged DEF StatementStarts, GetOrBeginTxn
  <2>4. QED
    BY <2>2, <2>3
<1>3. CASE RowStep
  <2>1. CASE InsertRejected
    BY <2>1, NothingLogged DEF InsertRejected, Rejected, Idle
  <2>2. CASE InsertOneRow
    <3>1. PICK rid \in Rids : RecordChange("Insert", rid, NoRow)
      BY <2>2 DEF InsertOneRow
    <3>2. stmt.kind = "insert" /\ stmt'.kind = "insert"
      BY <2>2, <1>1 DEF InsertOneRow, TypeOK, StmtOK, Statement
    <3>3. QED
      BY <3>1, <3>2, <1>1, RecordChangeLogged DEF ChangeTypes
  <2>3. ASSUME NEW rid \in Rids, UpdateOneRow(rid) PROVE LoggedInv'
    <3>1. stmt.kind = "update" /\ stmt'.kind = "update"
      BY <2>3, <1>1 DEF UpdateOneRow, TypeOK, StmtOK, Statement
    <3>2. RecordChange("Update", rid, slots[rid].row) /\ slots[rid].row \in Row
      BY <2>3, <1>1 DEF UpdateOneRow, TypeOK, StorageOK, Slot
    <3>3. QED
      BY <3>1, <3>2, <1>1, RecordChangeLogged DEF ChangeTypes
  <2>4. ASSUME NEW rid \in Rids, DeleteOneRow(rid) PROVE LoggedInv'
    <3>1. stmt.kind = "delete" /\ stmt'.kind = "delete"
      BY <2>4, <1>1 DEF DeleteOneRow, TypeOK, StmtOK, Statement
    <3>2. RecordChange("Delete", rid, slots[rid].row) /\ slots[rid].row \in Row
      BY <2>4, <1>1 DEF DeleteOneRow, TypeOK, StorageOK, Slot
    <3>3. QED
      BY <3>1, <3>2, <1>1, RecordChangeLogged DEF ChangeTypes
  <2>5. CASE FinishStatement
    <3>1. stmt.kind # "rollback" /\ stmt'.kind # "rollback"
      BY <2>5 DEF FinishStatement, Idle
    <3>2. CASE stmt.auto
      BY <3>2, <2>5, <1>1, EndTxnLogged DEF FinishStatement, CommitTxn, WalTypes
    <3>3. CASE ~stmt.auto
      BY <3>1, <3>3, <2>5, NothingLogged DEF FinishStatement
    <3>4. QED
      BY <3>2, <3>3
  <2>6. QED
    BY <1>3, <2>1, <2>2, <2>3, <2>4, <2>5 DEF RowStep
<1>4. CASE TxnControl
  <2>1. CASE BeginStatement
    <3>1. BeginTxn(TRUE) /\ stmt'.kind # "rollback"
      BY <2>1 DEF BeginStatement
    <3>2. QED
      BY <3>1, <1>1, BeginTxnLogged
  <2>2. CASE CommitStatement
    BY <2>2, <1>1, EndTxnLogged DEF CommitStatement, CommitTxn, WalTypes
  <2>3. CASE ControlRefused
    BY <2>3, NothingLogged DEF ControlRefused, vars
  <2>4. CASE RollbackStatement
    <3>1. /\ stmt.kind # "rollback" /\ activeTxn # 0 /\ stmt'.kind = "rollback"
          /\ UNCHANGED <<walVars, txnVars>>
      BY <2>4 DEF RollbackStatement, Running
    <3>2. changes = Logged(activeTxn) /\ changes \in Seq(Change)
      BY <3>1, <1>1 DEF LoggedInv, ChangesLogged, TypeOK, TxnOK
    <3>3. IsPrefix(changes, Logged(activeTxn))
      BY <3>2, PrefixOfStory
    <3>4. QED
      BY <3>1, <3>3 DEF LoggedInv, ChangesLogged, Logged, NumbersUsed, walVars, txnVars
  <2>5. CASE UndoOneChange
    <3>1. /\ stmt.kind = "rollback" /\ stmt' = stmt /\ changes # << >>
          /\ changes' = Front(changes) /\ activeTxn' = activeTxn /\ log' = log
          /\ nextTxnId' = nextTxnId
      BY <2>5 DEF UndoOneChange, walVars
    <3>2. activeTxn # 0 /\ changes \in Seq(Change)
      BY <3>1, <1>1 DEF TypeOK, TxnOK
    <3>3. IsPrefix(changes', Logged(activeTxn))
      BY <3>1, <3>2, PrefixOfStory DEF LoggedInv, ChangesLogged
    <3>4. QED
      BY <3>1, <3>2, <3>3 DEF LoggedInv, ChangesLogged, Logged, NumbersUsed
  <2>6. CASE FinishRollback
    BY <2>6, <1>1, EndTxnLogged DEF FinishRollback, WalTypes
  <2>7. QED
    BY <1>4, <2>1, <2>2, <2>3, <2>4, <2>5, <2>6 DEF TxnControl
<1>5. CASE UNCHANGED vars
  BY <1>5, NothingLogged DEF vars
<1>6. QED
  BY <1>2, <1>3, <1>4, <1>5 DEF Next

\* What the log says of the open transaction is its change list, after every
\* row step; while it is rolled back, the list is a beginning of that story.
THEOREM ChangesAlwaysLogged ==
  ASSUME OneRowKeyUpdates
  PROVE  Spec => []ChangesLogged
<1>1. Init => LoggedInv
  <2> SUFFICES ASSUME Init PROVE LoggedInv
    OBVIOUS
  <2>1. Len(log) = 0 /\ activeTxn = 0 /\ nextTxnId = 1
    BY DEF Init
  <2>2. QED
    BY <2>1 DEF LoggedInv, ChangesLogged, NumbersUsed
<1>2. IInv /\ LoggedInv /\ [Next]_vars => LoggedInv'
  BY LoggedStep
<1>3. LoggedInv => ChangesLogged
  BY DEF LoggedInv
<1>4. QED
  BY <1>1, <1>2, <1>3, SessionInvariantHolds, PTL DEF Spec
=============================================================================
