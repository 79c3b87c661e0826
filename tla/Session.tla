------------------------------- MODULE Session -------------------------------
(***************************************************************************)
(* One lifetime of the engine process: the data statements, BEGIN, COMMIT  *)
(* and ROLLBACK of the executor on one table with a primary key index,     *)
(* with the TransactionManager and the WalManager they drive.              *)
(*                                                                         *)
(* The process is single-threaded, but a statement is not one step: every  *)
(* row it writes is a step of its own, so that a module that adds crashes  *)
(* and page write-back can interrupt it between two rows.  An error return *)
(* in the middle of a statement leaves what the statement did so far.      *)
(***************************************************************************)
EXTENDS TableHeap, KeyIndex, SequencesExt

CONSTANTS
  Null,                \* the SQL NULL, refused by the NOT NULL column
  MaxRows,             \* bound: rows of one INSERT
  MaxTxns,             \* bound: transactions begun in one process lifetime
  MaxChanges,          \* bound: a transaction with this many changes takes
                       \* no further data statement
  OneRowKeyUpdates     \* TRUE: an UPDATE that assigns the key matches at
                       \* most one row

ASSUME SessionAssumption ==
  /\ Null \notin Vals
  /\ MaxRows \in Nat /\ MaxTxns \in Nat /\ MaxChanges \in Nat
  /\ OneRowKeyUpdates \in BOOLEAN

VARIABLES
  slots, pages,         \* TableManager: the slots and the number of pages
  index,                \* the B+ tree of the primary key
  log,                  \* WalManager: every record written, oldest first
  flushed,              \* how many records the last Flush forced to disk
  nextLsn,              \* _nextLsn
  nextTxnId, activeTxn, \* _nextTxnId, _activeTxnId (0: none)
  changes,              \* TxnEntry.Changes of the active transaction
  stmt,                 \* the statement in progress
  explicit,             \* history: the active transaction came from BEGIN
  hist                  \* history: the table and its index at the begin of
                        \* the active transaction and after each change

storageVars == <<slots, pages, index>>
walVars     == <<log, flushed, nextLsn>>
txnVars     == <<nextTxnId, activeTxn, changes, explicit, hist>>
vars        == <<storageVars, walVars, txnVars, stmt>>

ChangeTypes == {"Insert", "Update", "Delete"}
WalTypes    == ChangeTypes \cup {"Begin", "Commit", "Rollback"}
Change      == [type : ChangeTypes, rid : Rids, before : Row \cup {NoRow}]
WalRecord   == [lsn : Nat, txn : Nat, type : WalTypes, rid : Rids \cup {0},
                before : Row \cup {NoRow}]

\* A row of an INSERT, a column assignment of an UPDATE, the comparison of a
\* WHERE clause: an equality on the key is planned as a point scan of the
\* index, one on the other column as a full scan.
InputRow   == [key : Keys, val : Vals \cup {Null}]
Assignment == [col : {"key"}, to : Keys]
                \cup [col : {"val"}, to : Vals \cup {Null}]
Where      == [col : {"key"}, eq : Keys] \cup [col : {"val"}, eq : Vals]

NoAssignment == [col |-> "val", to |-> Null]

Statement == [kind : {"idle", "insert", "update", "delete", "rollback"},
              auto : BOOLEAN, rows : Seq(InputRow), rids : SUBSET Rids,
              set : Assignment]

Idle == [kind |-> "idle", auto |-> FALSE, rows |-> << >>, rids |-> {},
         set |-> NoAssignment]

Snapshot(s, ix) == [view |-> View(s), index |-> ix]

-----------------------------------------------------------------------------
(* WalManager: a record goes to the buffered file; Flush forces it out.    *)

LogWrite(type, txn, rid, before) ==
  /\ log' = Append(log, [lsn |-> nextLsn, txn |-> txn, type |-> type,
                         rid |-> rid, before |-> before])
  /\ nextLsn' = nextLsn + 1

\* Mutant of Flush: called before the record is written.
FlushTooEarly == flushed' = Len(log)

Flush == flushed' = Len(log')

LogControl(type, txn) == LogWrite(type, txn, 0, NoRow)

-----------------------------------------------------------------------------
(* TransactionManager.                                                     *)

BeginTxn(byUser) ==
  /\ LogControl("Begin", nextTxnId)
  /\ activeTxn' = nextTxnId
  /\ nextTxnId' = nextTxnId + 1
  /\ changes' = << >>
  /\ explicit' = byUser
  /\ hist' = <<Snapshot(slots, index)>>
  /\ UNCHANGED flushed

EndTxn ==
  /\ activeTxn' = 0
  /\ changes' = << >>
  /\ explicit' = FALSE
  /\ hist' = << >>
  /\ UNCHANGED nextTxnId

CommitTxn ==
  /\ LogControl("Commit", activeTxn)
  /\ Flush
  /\ EndTxn

\* Mutant of RecordChange: the log gets the row as the change left it.
RecordAfterImage(type, rid, before) ==
  /\ LogWrite(type, activeTxn, rid, View(slots')[rid])
  /\ changes' = Append(changes, [type |-> type, rid |-> rid,
                                 before |-> before])
  /\ hist' = Append(hist, Snapshot(slots', index'))
  /\ UNCHANGED <<flushed, nextTxnId, activeTxn, explicit>>

\* RecordInsert, RecordUpdate, RecordDelete, for a step that has just given
\* slots and index their new values.
RecordChange(type, rid, before) ==
  /\ LogWrite(type, activeTxn, rid, before)
  /\ changes' = Append(changes, [type |-> type, rid |-> rid,
                                 before |-> before])
  /\ hist' = Append(hist, Snapshot(slots', index'))
  /\ UNCHANGED <<flushed, nextTxnId, activeTxn, explicit>>

GetOrBeginTxn ==
  IF activeTxn = 0 THEN nextTxnId <= MaxTxns /\ BeginTxn(FALSE)
                   ELSE UNCHANGED <<walVars, txnVars>>

Running(kind, rows, rids, set) ==
  [kind |-> kind, auto |-> activeTxn = 0, rows |-> rows, rids |-> rids,
   set |-> set]

StatementStarts ==
  /\ stmt.kind = "idle"
  /\ Len(changes) < MaxChanges
  /\ GetOrBeginTxn
  /\ UNCHANGED storageVars

\* An error return: the transaction stays as it is.
Rejected == stmt' = Idle /\ UNCHANGED <<storageVars, walVars, txnVars>>

-----------------------------------------------------------------------------
(* INSERT.                                                                 *)

InsertStatement(rows) ==
  /\ LastRidOf(pages) + Len(rows) <= LastRidOf(MaxPages)
  /\ StatementStarts
  /\ stmt' = Running("insert", rows, {}, NoAssignment)

InsertAllowed(row) == row.val # Null /\ PointQuery(index, row.key) = {}

InsertRejected ==
  /\ stmt.kind = "insert" /\ stmt.rows # << >>
  /\ ~InsertAllowed(Head(stmt.rows))
  /\ Rejected

InsertOneRow ==
  /\ stmt.kind = "insert" /\ stmt.rows # << >>
  /\ LET row == Head(stmt.rows) IN
     /\ InsertAllowed(row)
     /\ \E rid \in Rids :
          /\ NextSlot(slots, pages, rid)
          /\ slots' = InsertRow(slots, rid, row)
          /\ index' = TreeInsert(index, row.key, rid)
          /\ RecordChange("Insert", rid, NoRow)
     /\ pages' = PageWithSpace(slots, pages)
  /\ stmt' = [stmt EXCEPT !.rows = Tail(@)]

-----------------------------------------------------------------------------
(* UPDATE and DELETE: the rows are collected first, then written one by    *)
(* one in (page, slot) order.                                              *)

Scanned(where) ==
  IF where.col = "key" THEN PointQuery(index, where.eq)
  ELSE {r \in FullScan(slots) : slots[r].row.val = where.eq}

NewRow(row, set) == IF set.col = "key" THEN [row EXCEPT !.key = set.to]
                                       ELSE [row EXCEPT !.val = set.to]

\* Mutant of UpdateAllowed: the NOT NULL check is missing.
UpdateKeyAllowed(rids, set) ==
  \A r \in rids :
    LET old == slots[r].row
        new == NewRow(old, set)
    IN  new.key # old.key => PointQuery(index, new.key) = {}

\* Phase 1 looks up every changed key in the index as it is before the
\* statement writes anything.
UpdateAllowed(rids, set) ==
  \A r \in rids :
    LET old == slots[r].row
        new == NewRow(old, set)
    IN  /\ new.val # Null
        /\ new.key # old.key => PointQuery(index, new.key) = {}

UpdateStatement(where, set) ==
  LET rids == Scanned(where) IN
  /\ OneRowKeyUpdates /\ set.col = "key" => \A r, q \in rids : r = q
  /\ StatementStarts
  /\ stmt' = IF UpdateAllowed(rids, set)
             THEN Running("update", << >>, rids, set)
             ELSE Idle

IsNext(rid) == rid \in stmt.rids /\ \A q \in stmt.rids : rid <= q

UpdateOneRow(rid) ==
  LET old == slots[rid].row
      new == NewRow(old, stmt.set)
  IN  /\ stmt.kind = "update" /\ IsNext(rid)
      /\ slots' = UpdateRow(slots, rid, new)
      /\ index' = IF new.key = old.key THEN index
                  ELSE TreeInsert(TreeDelete(index, old.key), new.key, rid)
      /\ RecordChange("Update", rid, old)
      /\ stmt' = [stmt EXCEPT !.rids = @ \ {rid}]
      /\ UNCHANGED pages

DeleteStatement(where) ==
  /\ StatementStarts
  /\ stmt' = Running("delete", << >>, Scanned(where), NoAssignment)

DeleteOneRow(rid) ==
  LET old == slots[rid].row
  IN  /\ stmt.kind = "delete" /\ IsNext(rid)
      /\ slots' = DeleteRow(slots, rid)
      /\ index' = TreeDelete(index, old.key)
      /\ RecordChange("Delete", rid, old)
      /\ stmt' = [stmt EXCEPT !.rids = @ \ {rid}]
      /\ UNCHANGED pages

\* The end of a data statement that met no error: AutoCommit.
FinishStatement ==
  /\ stmt.kind \in {"insert", "update", "delete"}
  /\ stmt.rows = << >> /\ stmt.rids = {}
  /\ IF stmt.auto THEN CommitTxn ELSE UNCHANGED <<walVars, txnVars>>
  /\ stmt' = Idle
  /\ UNCHANGED storageVars

-----------------------------------------------------------------------------
(* BEGIN, COMMIT, ROLLBACK.                                                *)

BeginStatement ==
  /\ stmt.kind = "idle" /\ activeTxn = 0 /\ nextTxnId <= MaxTxns
  /\ BeginTxn(TRUE)
  /\ UNCHANGED <<storageVars, stmt>>

CommitStatement ==
  /\ stmt.kind = "idle" /\ activeTxn # 0
  /\ CommitTxn
  /\ UNCHANGED <<storageVars, stmt>>

\* BEGIN with a transaction open, COMMIT or ROLLBACK with none: an error.
ControlRefused ==
  /\ stmt.kind = "idle"
  /\ UNCHANGED vars

RollbackStatement ==
  /\ stmt.kind = "idle" /\ activeTxn # 0
  /\ stmt' = Running("rollback", << >>, {}, NoAssignment)
  /\ UNCHANGED <<storageVars, walVars, txnVars>>

\* Mutant of UndoneSlots: an update is undone like a delete.
RevivedSlots(c) ==
  IF c.type = "Insert" THEN DeleteRow(slots, c.rid)
                       ELSE UndeleteRow(slots, c.rid)

UndoneSlots(c) ==
  CASE c.type = "Insert" -> DeleteRow(slots, c.rid)
    [] c.type = "Update" -> UpdateRow(slots, c.rid, c.before)
    [] c.type = "Delete" -> UndeleteRow(slots, c.rid)

\* Mutant of UndoneIndex: the undo of an update leaves the index alone.
UndoneIndexOfRows(c) ==
  LET key == slots[c.rid].row.key IN
  CASE c.type = "Insert" -> TreeDelete(index, key)
    [] c.type = "Update" -> index
    [] c.type = "Delete" -> TreeInsert(index, c.before.key, c.rid)

UndoneIndex(c) ==
  LET key == slots[c.rid].row.key IN
  CASE c.type = "Insert" -> TreeDelete(index, key)
    [] c.type = "Update" ->
         IF key = c.before.key THEN index
         ELSE TreeInsert(TreeDelete(index, key), c.before.key, c.rid)
    [] c.type = "Delete" -> TreeInsert(index, c.before.key, c.rid)

\* Mutant of UndoOneChange: the loop runs forwards.
UndoOldestChange ==
  /\ stmt.kind = "rollback" /\ changes # << >>
  /\ slots' = UndoneSlots(Head(changes))
  /\ index' = UndoneIndex(Head(changes))
  /\ changes' = Tail(changes)
  /\ hist' = Front(hist)
  /\ UNCHANGED <<pages, walVars, nextTxnId, activeTxn, explicit, stmt>>

\* One turn of the loop that walks Changes backwards.  Changes shrinks here
\* with the loop index; no later statement reads what it held.
UndoOneChange ==
  /\ stmt.kind = "rollback" /\ changes # << >>
  /\ slots' = UndoneSlots(Last(changes))
  /\ index' = UndoneIndex(Last(changes))
  /\ changes' = Front(changes)
  /\ hist' = Front(hist)
  /\ UNCHANGED <<pages, walVars, nextTxnId, activeTxn, explicit, stmt>>

FinishRollback ==
  /\ stmt.kind = "rollback" /\ changes = << >>
  /\ LogControl("Rollback", activeTxn)
  /\ Flush
  /\ EndTxn
  /\ stmt' = Idle
  /\ UNCHANGED storageVars

-----------------------------------------------------------------------------
Init ==
  /\ slots = EmptyHeap /\ pages = 0
  /\ index = EmptyIndex(Keys)
  /\ log = << >> /\ flushed = 0 /\ nextLsn = 1
  /\ nextTxnId = 1 /\ activeTxn = 0 /\ changes = << >>
  /\ stmt = Idle
  /\ explicit = FALSE /\ hist = << >>

InsertInputs == UNION {[1..n -> InputRow] : n \in 1..MaxRows}

DataStatement ==
  \/ \E rows \in InsertInputs : InsertStatement(rows)
  \/ \E where \in Where, set \in Assignment : UpdateStatement(where, set)
  \/ \E where \in Where : DeleteStatement(where)

RowStep ==
  \/ InsertRejected \/ InsertOneRow
  \/ \E rid \in Rids : UpdateOneRow(rid)
  \/ \E rid \in Rids : DeleteOneRow(rid)
  \/ FinishStatement

TxnControl ==
  \/ BeginStatement \/ CommitStatement \/ ControlRefused
  \/ RollbackStatement \/ UndoOneChange \/ FinishRollback

Next == DataStatement \/ RowStep \/ TxnControl

Spec == Init /\ [][Next]_vars

-----------------------------------------------------------------------------
(* Properties.                                                             *)

\* Every variable stays within what the code can store in it.
StorageOK ==
  /\ slots \in [Rids -> Slot] /\ pages \in 0..MaxPages
  /\ index \in [Keys -> Seq(Rids)]

WalOK == log \in Seq(WalRecord) /\ flushed \in Nat /\ nextLsn \in Nat \ {0}

TxnOK ==
  /\ nextTxnId \in Nat \ {0} /\ activeTxn \in Nat
  /\ changes \in Seq(Change)
  /\ explicit \in BOOLEAN
  /\ hist \in Seq([view : [Rids -> Row \cup {NoRow}],
                   index : [Keys -> Seq(Rids)]])

StmtOK == stmt \in Statement

TypeOK == StorageOK /\ WalOK /\ TxnOK /\ StmtOK

\* The index of a table shows exactly its live rows, one entry for a row and
\* one row for a key.  Every reader relies on it: a point scan trusts the
\* entries it finds, INSERT takes their absence for the key being free, and
\* the undo of a change removes whatever entry its key has.  It must survive
\* every row step of every statement, failed ones and rollbacks included.
IndexFits(snap) ==
  \A k \in Keys :
    \/ /\ snap.index[k] = << >>
       /\ \A r \in Rids : snap.view[r] # NoRow => snap.view[r].key # k
    \/ \E r \in Rids :
         /\ snap.index[k] = <<r>>
         /\ snap.view[r] # NoRow /\ snap.view[r].key = k
         /\ \A q \in Rids \ {r} : snap.view[q] # NoRow => snap.view[q].key # k

IndexMatches == IndexFits(Snapshot(slots, index))

\* When the loop of ExecuteRollback has undone the last change, the live rows
\* and the index are those of the moment the transaction began, whatever mix
\* of inserts, updates and deletes of the same rows it made and however its
\* statements failed.
RollbackRestores ==
  stmt.kind = "rollback" /\ changes = << >>
    => Snapshot(slots, index) = hist[1]

\* The log tells the same story as the change list in memory: what recovery
\* would undo of the open transaction is what ROLLBACK would undo.  While a
\* rollback runs, its change list is what is left of that story.
Mine(rec, txn) == rec.txn = txn /\ rec.type \in ChangeTypes

ChangeIn(rec) == [type |-> rec.type, rid |-> rec.rid, before |-> rec.before]

ChangesOf(recs, txn) ==
  LET upTo[n \in 0..Len(recs)] ==
        IF n = 0 THEN << >>
        ELSE IF Mine(recs[n], txn) THEN Append(upTo[n - 1], ChangeIn(recs[n]))
        ELSE upTo[n - 1]
  IN  upTo[Len(recs)]

Logged(txn) == ChangesOf(log, txn)

ChangesLogged ==
  activeTxn # 0 => IF stmt.kind = "rollback"
                   THEN IsPrefix(changes, Logged(activeTxn))
                   ELSE changes = Logged(activeTxn)

\* Once no transaction is open nothing of the log is left in a buffer: the
\* end of every transaction is on disk before its statement returns.
EndedTxnsForced == activeTxn = 0 => flushed = Len(log)

\* The session implements the atomic table: its committed state is the
\* snapshot at the begin of the open transaction, if there is one.
Committed == IF activeTxn = 0 THEN Snapshot(slots, index) ELSE hist[1]

Mode == IF activeTxn = 0 THEN "none"
        ELSE IF stmt.kind = "rollback" THEN "aborting" ELSE "open"

Atomic == INSTANCE AtomicTable WITH
            InitialState <- Snapshot(EmptyHeap, EmptyIndex(Keys)),
            db <- Committed, work <- Snapshot(slots, index), mode <- Mode

AtomicSpec == Atomic!ASpec

\* README 553: without BEGIN every statement commits its own transaction, so
\* between statements a transaction is open only after a BEGIN.
AutoCommitted == stmt.kind = "idle" /\ activeTxn # 0 => explicit

\* README 460: no two live rows have the same primary key.
PrimaryKeyUnique ==
  \A r, q \in FullScan(slots) : r # q => slots[r].row.key # slots[q].row.key
=============================================================================
