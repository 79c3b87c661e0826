-------------------------- MODULE SurvivalInvariant --------------------------
(***************************************************************************)
(* The inductive invariant behind what Durability says of a start: that    *)
(* nothing uncommitted survives it, and that after a clean exit exactly    *)
(* the committed rows do.  Both hold as long as the log lost nothing and   *)
(* no transaction number occurs twice in it, which means that only one     *)
(* lifetime of the process has run transactions; the lifetimes after it    *)
(* recover, crash and recover again.                                       *)
(***************************************************************************)
EXTENDS DurabilityInvariant, SessionInvariant

OneLifetime == lossless /\ ~IdsReused(log)

\* Every log begins with the first transaction of the first process.
LogBegins ==
  IF log = << >> THEN nextTxnId = 1 /\ activeTxn = 0
                 ELSE log[1].type = "Begin" /\ log[1].txn = 1

\* The process that runs, or will run, the transactions of the log.
AtWork == status = "open" /\ (log = << >> \/ nextTxnId > 1)

Unwritten == log = << >> => slots = EmptyHeap /\ dslots = EmptyHeap
                            /\ index = EmptyIndex(Keys) /\ dindex = EmptyIndex(Keys)

\* Every record has its number from this process, the open transaction has
\* not committed, and what its change list holds is in the log.
TxnsNumbered ==
  /\ \A i \in 1..Len(log) : log[i].txn > 0 /\ (AtWork => log[i].txn < nextTxnId)
  /\ activeTxn # 0 =>
       /\ activeTxn < nextTxnId
       /\ \A i \in 1..Len(log) : log[i].type = "Commit" => log[i].txn # activeTxn
  /\ \A k \in 1..Len(changes) : \E i \in ToUndo(log) :
       log[i].txn = activeTxn /\ log[i].type = changes[k].type /\ log[i].rid = changes[k].rid

\* A transaction begins from committed rows and works on them.
Wrote(rec, r) == rec.rid = r /\ rec.type # "Delete"

RowsTraced ==
  /\ AtWork /\ activeTxn = 0 => \A r \in Rids : View(slots)[r] \in past[r]
  /\ activeTxn # 0 => \A r \in Rids :
       /\ hist[1].view[r] \in past[r]
       /\ \A k \in 1..Len(hist) :
            /\ \/ hist[k].view[r] \in past[r]
               \/ \E i \in ToUndo(log) : log[i].txn = activeTxn /\ Wrote(log[i], r)
            /\ hist[k].view[r] # NoRow => slots[r].used

\* What the undo of an update writes was committed, or the transaction wrote
\* it itself, and has that change still to be undone.
ImagesTraced ==
  \A i \in ToUndo(log) : log[i].type = "Update" =>
    \/ log[i].before \in past[log[i].rid]
    \/ \E j \in ToUndo(log) : j < i /\ log[j].txn = log[i].txn /\ Wrote(log[j], log[i].rid)

\* An insert is the first change of its slot, of the slot's only transaction
\* as long as it is not committed, and after a rollback leaves it dead.
InsertsFirst ==
  /\ \A i, j \in ToUndo(log) :
       log[i].type = "Insert" /\ log[j].rid = log[i].rid /\ i # j =>
         i < j /\ log[j].txn = log[i].txn
  /\ AtWork => \A i \in ToUndo(log) :
       /\ slots[log[i].rid].used
       /\ log[i].type = "Insert" =>
            IF log[i].txn = activeTxn THEN hist[1].view[log[i].rid] = NoRow
                                      ELSE slots[log[i].rid].dead

\* The row in a slot, live or dead, in memory or on disk, was committed, or
\* recovery has a change of the slot to undo.
Traced(r, slot) ==
  slot.used =>
    \/ slot.row \in past[r]
    \/ /\ activeTxn # 0 /\ stmt.kind # "rollback"
       /\ \E k \in 1..Len(hist) : hist[k].view[r] = slot.row
    \/ \E i \in ToUndo(log) :
         Wrote(log[i], r) /\ (log[i].txn = activeTxn => stmt.kind = "rollback")

SlotsTraced == \A r \in Rids : Traced(r, slots[r]) /\ Traced(r, dslots[r])

\* In a recovery: a transaction is undone from its end, and what is not
\* committed is dead for good or has a change left to undo.
RecoveryTraced ==
  /\ undo \subseteq ToUndo(log)
  /\ \A i \in undo, j \in ToUndo(log) :
       j < i /\ log[j].txn = log[i].txn => j \in undo
  /\ status # "closed" /\ nextTxnId = 1 => \A r \in Rids : slots[r].used =>
       \/ slots[r].row \in past[r]
       \/ slots[r].dead /\ \A i \in undo : log[i].rid # r
       \/ \E i \in undo : Wrote(log[i], r)

Survival ==
  /\ Unwritten /\ (AtWork => IInv) /\ TxnsNumbered /\ RowsTraced
  /\ ImagesTraced /\ InsertsFirst /\ SlotsTraced /\ RecoveryTraced

-----------------------------------------------------------------------------
(* Exactly the committed rows: if nothing was ever rolled back as well, all *)
(* that is to be undone is one transaction.                                *)

NoRollback == \A i \in 1..Len(log) : log[i].type # "Rollback"

Untouched(r) == \A i \in ToUndo(log) : log[i].rid # r

First(i, r) ==
  /\ i \in ToUndo(log) /\ log[i].rid = r
  /\ \A j \in ToUndo(log) : log[j].rid = r => i <= j

Shown(slot) == IF Live(slot) THEN slot.row ELSE NoRow

\* The undone slot shows this row: told from the first change to be undone.
UndoShows(r, slot, row) ==
  /\ Untouched(r) => row = Shown(slot)
  /\ \A i \in ToUndo(log) : First(i, r) =>
       row = IF log[i].type = "Insert" \/ ~slot.used THEN NoRow
             ELSE IF log[i].type = "Update" THEN log[i].before ELSE slot.row

\* One transaction, which does not touch a row it has deleted.
OneTransaction ==
  /\ \A i, j \in ToUndo(log) :
       /\ log[i].txn = log[j].txn
       /\ log[i].type = "Delete" /\ log[j].rid = log[i].rid => j <= i
  /\ AtWork => \A i \in ToUndo(log) : log[i].txn = activeTxn

\* Up to its rollback the log tells what the transaction found.
StoryKept ==
  activeTxn # 0 /\ stmt.kind # "rollback" => \A r \in Rids :
    /\ Untouched(r) => View(slots)[r] = hist[1].view[r]
    /\ \A i \in ToUndo(log) :
         /\ First(i, r) => log[i].before = hist[1].view[r]
         /\ log[i].type = "Delete" /\ log[i].rid = r =>
              slots[r].used /\ slots[r].dead /\ slots[r].row = log[i].before

\* A recovery leads to the rows of the clean exit, from memory and from what a
\* crash leaves of it; one that has been interrupted leads where it would have
\* led.
RecoveryExact ==
  /\ nextTxnId = 1 /\ exit.how = "clean" =>
       \A r \in Rids : /\ UndoShows(r, slots[r], exit.rows[r])
                       /\ UndoShows(r, dslots[r], exit.rows[r])
  /\ nextTxnId = 1 /\ status # "closed" => \A r \in Rids :
       (\A i \in undo : log[i].rid # r) => UndoShows(r, slots[r], Shown(slots[r]))

Exactness == OneTransaction /\ StoryKept /\ RecoveryExact

SInv ==
  /\ DInv
  /\ \A r \in Rids : NoRow \in past[r]
  /\ lossless => DOMAIN cuts = {}
  /\ LogBegins /\ (status # "open" => nextTxnId = 1)
  /\ OneLifetime => Survival /\ (NoRollback => Exactness)
=============================================================================
