----------------------------- MODULE Durability -----------------------------
(***************************************************************************)
(* Session with the disk under it and several process lifetimes: pages of  *)
(* the heap and of the index reach their files one by one, whenever the    *)
(* buffer pool needs room; a clean exit writes the rest; a crash of the    *)
(* process keeps what the files have, and of the log what the last Flush   *)
(* forced and any part of the rest, which may end within a record.  The    *)
(* next process appends right behind such a record, and later starts take  *)
(* it for whatever the bytes are then.  A start opens the files and undoes *)
(* the transactions without Commit among the records it reads.             *)
(***************************************************************************)
EXTENDS Session

CONSTANTS
  MaxStarts,     \* bound: engine starts; the last process recovers and runs
                 \* no statement
  MaxLog,        \* bound: records in the log
  Strays         \* numbers that the bytes of two records together may show

ASSUME DurabilityAssumption ==
  MaxStarts \in Nat \ {0} /\ MaxLog \in Nat /\ Strays \subseteq Nat

VARIABLES
  status,          \* "open", "recovering" or "closed"
  dslots, dindex,  \* what the table file and the index file hold
  cuts,            \* for each place of the log where a crash cut the record:
                   \* the part of it the cut falls into
  uncommitted,     \* the records Recover undoes, by their places in the log
  undo,            \* those places that are yet to come
  starts,          \* engine starts so far
  lossless,        \* history: no crash has lost or cut a log record
  exit,            \* history: how the last lifetime that began a transaction
                   \* ended, and with which committed rows
  past             \* history: the values each row id has had in
                   \* transactions that committed

diskVars    == <<dslots, dindex, cuts>>
recoverVars == <<uncommitted, undo>>
historyVars == <<lossless, exit, past>>
dvars       == <<vars, status, diskVars, recoverVars, starts, historyVars>>

-----------------------------------------------------------------------------
(* What ReadAll makes of the file.  A record lies in it as magic number,   *)
(* other fields, table name, row image.  Write seeks to the end of the     *)
(* file and the constructor does not shorten it, so that the bytes of the  *)
(* next record are read as the missing ones of a cut record.               *)

\* A cut within the magic number, the fields behind it, or what follows.
CutParts == {"magic", "fields", "image"}

Whole(i) == i \notin DOMAIN cuts

\* The record a cut one may be taken for.  Without its magic number it is none.
\* A cut in the fields makes the number of the transaction, the type and even
\* the record's own number uncertain; the table name is then no name of a
\* table (rid 0).  A cut behind the fields may still spoil the name, and leaves
\* an image of which any bytes are some row.
Mixed(rec, part) ==
  CASE part = "magic"  -> {}
    [] part = "fields" -> [lsn : Strays \cup {rec.lsn}, txn : Strays \cup {rec.txn},
                           type : WalTypes, rid : {0}, before : {NoRow}]
    [] part = "image"  -> [lsn : {rec.lsn}, txn : {rec.txn}, type : {rec.type},
                           rid : {rec.rid, 0},
                           before : IF rec.before = NoRow THEN {NoRow} ELSE Row]

\* The places ReadAll may return records of: all whole ones that follow the
\* begin of the file or a whole one that is returned.  A cut record is returned
\* or ends the reading; it ends it if nothing is appended behind it.  It takes
\* bytes of the record behind it with it; reading goes on only if those bytes
\* happen to end where a later record begins.
Readable(P) ==
  /\ \A i, j \in DOMAIN log :
       i <= j /\ (i = 1 \/ i \in P) /\ (\A k \in i..j : Whole(k)) => j \in P
  /\ \A i \in P : Whole(i) \/ i < Len(log)
  /\ \A i \in P \ {1} :
       IF i - 1 \in P THEN Whole(i - 1)
       ELSE \E c \in P : c < i /\ ~Whole(c) /\ \A k \in (c + 1)..(i - 1) : k \notin P

Completed(P) ==
  LET cut == P \ {i \in P : Whole(i)} IN
  {m \in [cut -> UNION {Mixed(log[i], cuts[i]) : i \in cut}] :
     \A i \in cut : m[i] \in Mixed(log[i], cuts[i])}

\* The results ReadAll may have: records by their places in the file.
ReadAll ==
  UNION {{[i \in P |-> IF Whole(i) THEN log[i] ELSE m[i]] : m \in Completed(P)} :
           P \in {Q \in SUBSET DOMAIN log : Readable(Q)}}

-----------------------------------------------------------------------------
(* What Recover makes of it.                                               *)

WithCommit(recs) ==
  {rec.txn : rec \in {q \in Range(recs) : q.type = "Commit"}}

\* Mutant of Unfinished: committed transactions are undone as well.
WithChanges(recs) ==
  {rec.txn : rec \in {q \in Range(recs) : q.type \in ChangeTypes}}

\* The transactions Recover undoes: those with changes and without Commit.
\* A Rollback record counts for nothing.
Unfinished(recs) ==
  {rec.txn : rec \in {q \in Range(recs) : q.type \in ChangeTypes}}
    \ WithCommit(recs)

\* The places of the changes to undo.
ToUndo(recs) ==
  {i \in DOMAIN recs : recs[i].type \in ChangeTypes /\ recs[i].txn \in Unfinished(recs)}

\* Mutant of Backwards: the oldest record first.
Forwards(i) == \A j \in undo : uncommitted[j].txn = uncommitted[i].txn => i <= j

\* Of one transaction the newest record is undone first, and a transaction
\* that has been begun with is undone to its end; which one is next depends on
\* an unordered_map.
Backwards(i) == \A j \in undo : uncommitted[j].txn = uncommitted[i].txn => j <= i

Halfway(txn) == \E i \in DOMAIN uncommitted \ undo : uncommitted[i].txn = txn

InOrder(i) ==
  /\ Backwards(i)
  /\ \A j \in undo :
       Halfway(uncommitted[j].txn) => uncommitted[j].txn = uncommitted[i].txn

-----------------------------------------------------------------------------
(* The process runs.                                                       *)

\* A step commits when it ends a transaction that is not being rolled back.
Commits == activeTxn # 0 /\ activeTxn' = 0 /\ stmt.kind # "rollback"

SessionStep ==
  /\ status = "open" /\ starts < MaxStarts
  /\ Next /\ Len(log') <= MaxLog
  /\ past' = IF Commits
             THEN [r \in Rids |-> past[r] \cup {hist[i].view[r] :
                                              i \in DOMAIN hist}]
             ELSE past
  /\ UNCHANGED <<status, diskVars, recoverVars, starts, lossless, exit>>

\* The buffer pool evicts a dirty page: WritePage.
EvictPage(page) ==
  /\ status # "closed" /\ page <= pages
  /\ dslots' = [r \in Rids |-> IF r \in PageRids(page) THEN slots[r]
                                                       ELSE dslots[r]]
  /\ UNCHANGED <<vars, status, dindex, cuts, recoverVars, starts, historyVars>>

\* The entries of the table fit one node of the tree, its root page.
EvictIndex ==
  /\ status # "closed"
  /\ dindex' = index
  /\ UNCHANGED <<vars, status, dslots, cuts, recoverVars, starts, historyVars>>

-----------------------------------------------------------------------------
(* The process ends.  What the next one will find is in the files and in   *)
(* the first "kept" records of the log, the last of them perhaps cut.      *)

ProcessEnds(heap, tree, kept, how) ==
  /\ status' = "closed"
  /\ slots' = heap /\ dslots' = heap
  /\ index' = tree /\ dindex' = tree
  /\ log' = SubSeq(log, 1, kept) /\ flushed' = kept
  /\ nextLsn' = 1 /\ nextTxnId' = 1 /\ activeTxn' = 0
  /\ changes' = << >> /\ hist' = << >> /\ explicit' = FALSE
  /\ stmt' = Idle
  /\ undo' = {} /\ uncommitted' = << >>
  /\ exit' = IF nextTxnId = 1 THEN exit
             ELSE [how |-> how, rows |-> Committed.view]
  /\ UNCHANGED <<pages, starts, past>>

\* The destructors: every table writes its dirty pages, then every index,
\* then the WAL is flushed.  An open transaction is just dropped.
Shutdown ==
  /\ status = "open" /\ stmt.kind = "idle"
  /\ ProcessEnds(slots, index, Len(log), "clean")
  /\ UNCHANGED <<cuts, lossless>>

\* Any number of the unforced records may have left the buffer of the FILE.
Crash ==
  /\ status # "closed"
  /\ \E kept \in flushed..Len(log) :
       /\ ProcessEnds(dslots, dindex, kept, "crash")
       /\ lossless' = (lossless /\ kept = Len(log))
  /\ UNCHANGED cuts

\* And the last of them in part.
CutAt(i, part) == [j \in DOMAIN cuts \cup {i} |-> IF j = i THEN part ELSE cuts[j]]

CrashInRecord ==
  /\ status # "closed"
  /\ \E i \in (flushed + 1)..Len(log), part \in CutParts :
       /\ ProcessEnds(dslots, dindex, i, "crash")
       /\ cuts' = CutAt(i, part)
  /\ lossless' = FALSE

-----------------------------------------------------------------------------
(* The process starts: OpenTable, the WalManager constructor, Recover.     *)

\* Mutant of LsnAfter: the number of the last record is used again.
LastLsn(recs) == IF DOMAIN recs = {} THEN 1 ELSE recs[Max(DOMAIN recs)].lsn

LsnAfter(recs) == IF DOMAIN recs = {} THEN 1 ELSE recs[Max(DOMAIN recs)].lsn + 1

Start ==
  /\ status = "closed" /\ starts < MaxStarts
  /\ status' = "recovering"
  /\ starts' = starts + 1
  /\ \E recs \in ReadAll :
       /\ nextLsn' = LsnAfter(recs)
       /\ uncommitted' = [i \in ToUndo(recs) |-> recs[i]]
       /\ undo' = ToUndo(recs)
  /\ UNCHANGED <<storageVars, log, flushed, txnVars, stmt, diskVars,
                 historyVars>>

\* A table of an unknown name is passed over.  Of the others the heap only is
\* changed: "we are not removing from the index for simplicity".
RecoveredSlots(rec) == IF rec.rid = 0 THEN slots ELSE UndoneSlots(rec)

RecoverOneRecord ==
  /\ status = "recovering"
  /\ \E i \in undo :
       /\ InOrder(i)
       /\ slots' = RecoveredSlots(uncommitted[i])
       /\ undo' = undo \ {i}
  /\ UNCHANGED <<pages, index, walVars, txnVars, stmt, status, diskVars,
                 uncommitted, starts, historyVars>>

EngineReady ==
  /\ status = "recovering" /\ undo = {}
  /\ status' = "open"
  /\ uncommitted' = << >>
  /\ UNCHANGED <<vars, diskVars, undo, starts, historyVars>>

-----------------------------------------------------------------------------
\* The table was created by an earlier process, which closed its files.
DInit ==
  /\ Init
  /\ status = "open" /\ uncommitted = << >> /\ undo = {} /\ starts = 1
  /\ dslots = EmptyHeap /\ dindex = EmptyIndex(Keys) /\ cuts = << >>
  /\ lossless = TRUE
  /\ exit = [how |-> "none", rows |-> View(EmptyHeap)]
  /\ past = [r \in Rids |-> {NoRow}]

DNext ==
  \/ SessionStep
  \/ \E page \in 1..MaxPages : EvictPage(page)
  \/ EvictIndex
  \/ Shutdown \/ Crash \/ CrashInRecord
  \/ Start \/ RecoverOneRecord \/ EngineReady

DSpec == DInit /\ [][DNext]_dvars

-----------------------------------------------------------------------------
(* Properties.                                                             *)

\* Every variable stays within what the files and the process can hold.
DTypeOK ==
  /\ TypeOK
  /\ status \in {"open", "recovering", "closed"}
  /\ dslots \in [Rids -> Slot] /\ dindex \in [Keys -> Seq(Rids)]
  /\ DOMAIN cuts \subseteq DOMAIN log /\ cuts \in [DOMAIN cuts -> CutParts]
  /\ DOMAIN uncommitted \subseteq DOMAIN log
  /\ uncommitted \in [DOMAIN uncommitted -> WalRecord]
  /\ undo \subseteq DOMAIN uncommitted /\ starts \in 1..MaxStarts
  /\ lossless \in BOOLEAN
  /\ exit \in [how : {"none", "clean", "crash"},
               rows : [Rids -> Row \cup {NoRow}]]
  /\ past \in [Rids -> SUBSET (Row \cup {NoRow})]

\* Up to the first record that a crash has cut, sequence numbers run from 1
\* without a gap or a repetition, over processes whose unforced records were
\* lost and others that went on behind them.  Behind a cut they repeat.
LsnsDense ==
  \A i \in DOMAIN log : (\A c \in DOMAIN cuts : i < c) => log[i].lsn = i

\* The engine has started again and no transaction has begun since.
Restarted == status = "open" /\ starts > 1 /\ nextTxnId = 1

\* Transaction numbers begin at 1 in every process.
IdsReused(recs) ==
  \E i, j \in DOMAIN recs :
    i # j /\ recs[i].type = "Begin" /\ recs[j].type = "Begin"
          /\ recs[i].txn = recs[j].txn

\* After any crash, between any two row writes of a statement, of a ROLLBACK
\* or of an earlier recovery, and with any of the pages written, every slot
\* shows a value that a committed transaction gave it: as long as the log
\* lost nothing and no transaction number occurs twice in it.
NothingUncommittedSurvives ==
  Restarted /\ lossless /\ ~IdsReused(log)
    => \A r \in Rids : View(slots)[r] \in past[r]

\* A clean exit with a transaction open leaves exactly the committed rows to
\* the next process that completes its recovery, however many crashed in
\* theirs, on the same terms and if no transaction was ever rolled back.
CleanRestartIsExact ==
  Restarted /\ exit.how = "clean" /\ lossless /\ ~IdsReused(log)
    /\ (\A i \in DOMAIN log : log[i].type # "Rollback")
    => \A r \in Rids : View(slots)[r] = exit.rows[r]

\* README 548: every transaction without a Commit record is undone; 549: it
\* evaporates.  What it wrote must not be there after the next start.
UncommittedEvaporates ==
  Restarted /\ lossless => \A r \in Rids : View(slots)[r] \in past[r]

\* README 549: the database is consistent after a start: a clean exit and the
\* start after it keep every committed row.
CommittedSurvivesExit ==
  Restarted /\ exit.how = "clean" => View(slots) = exit.rows

\* README 513: a change of the open transaction is logged on disk before its
\* page is written.
LoggedBeforePage ==
  \A i \in DOMAIN log :
    log[i].type = "Insert" /\ i > flushed => ~dslots[log[i].rid].used
=============================================================================
