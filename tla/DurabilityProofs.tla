-------------------------- MODULE DurabilityProofs -------------------------
(***************************************************************************)
(* Proofs about Durability: types and log numbers over any number of       *)
(* starts, crashes and cut logs, and what a start leaves, however often    *)
(* the process crashes, for every table, page size and bound.              *)
(***************************************************************************)
EXTENDS SurvivalInvariant, SessionProofs

\* A prefix of a sequence.
LEMMA Prefix ==
  ASSUME NEW S, NEW s \in Seq(S), NEW n \in Nat, n <= Len(s)
  PROVE  /\ SubSeq(s, 1, n) \in Seq(S) /\ Len(SubSeq(s, 1, n)) = n
         /\ \A i \in 1..n : SubSeq(s, 1, n)[i] = s[i]
<1>1. \A i \in 1..n : s[i] \in S
  BY ElementOfSeq
<1>2. /\ SubSeq(s, 1, n) \in Seq(S)
      /\ Len(SubSeq(s, 1, n)) = IF 1 <= n THEN n - 1 + 1 ELSE 0
      /\ \A i \in 1..(n - 1 + 1) : SubSeq(s, 1, n)[i] = s[1 + i - 1]
  BY <1>1, SubSeqProperties
<1>3. n - 1 + 1 = n /\ \A i \in 1..n : 1 + i - 1 = i
  OBVIOUS
<1>4. QED
  BY <1>2, <1>3

\* The elements of a sequence.
LEMMA InSequence ==
  ASSUME NEW S, NEW s \in Seq(S)
  PROVE  Len(s) \in Nat /\ DOMAIN s = 1..Len(s) /\ \A i \in DOMAIN s : s[i] \in S
<1>1. Len(s) \in Nat /\ DOMAIN s = 1..Len(s)
  OBVIOUS
<1>2. QED
  BY <1>1, ElementOfSeq

-----------------------------------------------------------------------------
(* What a start reads.                                                     *)

\* What a record with its header intact would write back is a row, also when
\* the crash has cut it.
LEMMA MixedType ==
  ASSUME NEW rec \in WalRecord, HasImage(rec), rec.type \in ChangeTypes => rec.rid # 0,
         NEW part \in CutParts, NEW m \in Mixed(rec, part)
  PROVE  m \in WalRecord /\ (m.rid # 0 => HasImage(m))
<1>1. /\ rec.lsn \in Nat /\ rec.txn \in Nat /\ rec.type \in WalTypes
      /\ rec.rid \in Rids \cup {0} /\ rec.before \in Row \cup {NoRow}
  BY DEF WalRecord
<1>2. CASE part = "magic"
  BY <1>2 DEF Mixed
<1>3. CASE part = "fields"
  <2>1. m \in [lsn : Strays \cup {rec.lsn}, txn : Strays \cup {rec.txn},
               type : WalTypes, rid : {0}, before : {NoRow}]
    BY <1>3 DEF Mixed
  <2>2. /\ m = [lsn |-> m.lsn, txn |-> m.txn, type |-> m.type, rid |-> m.rid,
                before |-> m.before]
        /\ m.lsn \in Nat /\ m.txn \in Nat /\ m.type \in WalTypes /\ m.rid = 0
        /\ m.before = NoRow
    BY <2>1, <1>1, DurabilityAssumption
  <2>3. QED
    BY <2>2 DEF WalRecord
<1>4. CASE part = "image"
  <2>1. m \in [lsn : {rec.lsn}, txn : {rec.txn}, type : {rec.type}, rid : {rec.rid, 0},
               before : IF rec.before = NoRow THEN {NoRow} ELSE Row]
    BY <1>4 DEF Mixed
  <2>2. /\ m = [lsn |-> m.lsn, txn |-> m.txn, type |-> m.type, rid |-> m.rid,
                before |-> m.before]
        /\ m.lsn = rec.lsn /\ m.txn = rec.txn /\ m.type = rec.type
        /\ m.rid \in {rec.rid, 0}
        /\ m.before \in IF rec.before = NoRow THEN {NoRow} ELSE Row
    BY <2>1
  <2>3. m.before \in Row \cup {NoRow} /\ (rec.before # NoRow => m.before # NoRow)
    BY <2>2, HeapAssumption DEF Row
  <2>4. m \in WalRecord
    BY <2>2, <2>3, <1>1 DEF WalRecord
  <2>5. QED
    BY <2>2, <2>3, <2>4 DEF HasImage
<1>5. QED
  BY <1>2, <1>3, <1>4 DEF CutParts

\* The records that are read, from what is in the log.
FromLog(recs) ==
  /\ recs = [i \in DOMAIN recs |-> recs[i]] /\ DOMAIN recs \subseteq DOMAIN log
  /\ \A i \in DOMAIN recs : /\ recs[i] \in WalRecord
                            /\ Whole(i) => recs[i] = log[i]
                            /\ recs[i].rid # 0 => HasImage(recs[i])

LEMMA ReadAllFromLog ==
  ASSUME WalOK, DOMAIN cuts \subseteq DOMAIN log, cuts \in [DOMAIN cuts -> CutParts],
         ImagesKept, NEW recs \in ReadAll
  PROVE  FromLog(recs) /\ (DOMAIN cuts = {} => recs = log)
<1>1. PICK P \in SUBSET DOMAIN log :
        /\ Readable(P)
        /\ recs \in {[i \in P |-> IF Whole(i) THEN log[i] ELSE m[i]] : m \in Completed(P)}
  BY DEF ReadAll
<1>2. PICK m \in Completed(P) : recs = [i \in P |-> IF Whole(i) THEN log[i] ELSE m[i]]
  BY <1>1
<1>3. /\ log \in Seq(WalRecord) /\ Len(log) \in Nat /\ DOMAIN log = 1..Len(log)
      /\ \A i \in DOMAIN log : log[i] \in WalRecord
  BY InSequence DEF WalOK
<1>4. \A i \in DOMAIN log :
        HasImage(log[i]) /\ (log[i].type \in ChangeTypes => log[i].rid # 0)
  BY <1>3 DEF ImagesKept
<1>5. ASSUME NEW i \in P
      PROVE  /\ recs[i] \in WalRecord
             /\ Whole(i) => recs[i] = log[i]
             /\ recs[i].rid # 0 => HasImage(recs[i])
  <2>1. CASE Whole(i)
    BY <2>1, <1>1, <1>2, <1>3, <1>4
  <2>2. CASE ~Whole(i)
    <3>1. recs[i] = m[i] /\ i \in DOMAIN log /\ cuts[i] \in CutParts
      BY <2>2, <1>1, <1>2 DEF Whole
    <3>2. m[i] \in Mixed(log[i], cuts[i])
      BY <2>2 DEF Completed
    <3>3. QED
      BY <2>2, <3>1, <3>2, <1>3, <1>4, MixedType
  <2>3. QED
    BY <2>1, <2>2
<1>6. FromLog(recs)
  <2>1. DOMAIN recs = P /\ recs = [i \in DOMAIN recs |-> recs[i]]
    BY <1>2
  <2>2. QED
    BY <2>1, <1>1, <1>5 DEF FromLog
<1>7. ASSUME DOMAIN cuts = {}
      PROVE  recs = log
  <2>1. \A i \in DOMAIN log : Whole(i)
    BY <1>7 DEF Whole
  <2>2. ASSUME NEW j \in DOMAIN log
        PROVE  j \in P
    <3>1. 1 \in DOMAIN log /\ 1 <= j
      BY <2>2, <1>3
    <3>2. \A k \in 1..j : Whole(k)
      BY <2>1, <1>3
    <3>3. QED
      BY <1>1, <3>1, <3>2 DEF Readable
  <2>3. P = DOMAIN log
    BY <1>1, <2>2
  <2>4. recs = [i \in DOMAIN log |-> log[i]]
    BY <1>2, <2>1, <2>3
  <2>5. QED
    BY <2>4, <1>3
<1>8. QED
  BY <1>6, <1>7

\* A set of places has a last one.
LEMMA LastPlace ==
  ASSUME NEW n \in Nat, NEW P \in SUBSET (1..n), P # {}
  PROVE  Max(P) \in P /\ \A i \in P : i <= Max(P)
<1> DEFINE Behind == {n - i : i \in P}
<1>1. Behind \in SUBSET Nat /\ Behind # {}
  <2>1. \A i \in P : i \in Nat /\ n - i \in Nat
    OBVIOUS
  <2>2. QED
    BY <2>1
<1>2. PICK b \in Behind : \A c \in Behind : b <= c
  BY <1>1, LeastNatural
<1>3. PICK m \in P : b = n - m
  BY <1>2
<1>4. \A i \in P : n - m <= n - i
  BY <1>2, <1>3
<1>5. \A i \in P : m >= i
  BY <1>4
<1>6. QED
  BY <1>5 DEF Max

\* The next number is the successor of the last one read.
LEMMA NextNumber ==
  ASSUME WalOK, NEW recs, FromLog(recs)
  PROVE  /\ LsnAfter(recs) \in Nat \ {0}
         /\ recs = log /\ (\A i \in 1..Len(log) : log[i].lsn = i) => LsnAfter(recs) = Len(log) + 1
<1> DEFINE n == Len(log)
<1>1. n \in Nat /\ DOMAIN log = 1..n /\ DOMAIN recs \in SUBSET (1..n)
  BY InSequence DEF WalOK, FromLog
<1> HIDE DEF n
<1>2. CASE DOMAIN recs = {}
  <2>1. LsnAfter(recs) = 1
    BY <1>2 DEF LsnAfter
  <2>2. recs = log => n = 0
    BY <1>1, <1>2
  <2>3. QED
    BY <2>1, <2>2 DEF n
<1>3. CASE DOMAIN recs # {}
  <2> DEFINE m == Max(DOMAIN recs)
  <2>1. m \in DOMAIN recs /\ \A i \in DOMAIN recs : i <= m
    BY <1>1, <1>3, LastPlace
  <2>2. LsnAfter(recs) = recs[m].lsn + 1
    BY <1>3 DEF LsnAfter
  <2> HIDE DEF m
  <2>3. recs[m].lsn \in Nat
    BY <2>1 DEF FromLog, WalRecord
  <2>4. ASSUME recs = log, \A i \in 1..Len(log) : log[i].lsn = i
        PROVE  LsnAfter(recs) = Len(log) + 1
    <3>1. n \in 1..n /\ m \in 1..n /\ n <= m
      BY <2>1, <2>4, <1>1, <1>3
    <3>2. m = n
      BY <3>1, <1>1
    <3>3. recs[m].lsn = n
      BY <3>1, <3>2, <2>4 DEF n
    <3>4. QED
      BY <3>3, <2>2 DEF n
  <2>5. QED
    BY <2>2, <2>3, <2>4
<1>4. QED
  BY <1>2, <1>3

-----------------------------------------------------------------------------
(* What the actions of Session share.                                      *)

\* The parts of the invariant that a step of the session can disturb.
Kept ==
  /\ TypeOK /\ TransactionShape /\ NoNullAssigned /\ ImagesKept /\ LogShape
  /\ uncommitted = << >>

\* What such a step leaves alone.
Outside ==
  /\ status = "open" /\ undo = {} /\ uncommitted = << >>
  /\ UNCHANGED <<status, cuts, uncommitted, undo>>

LEMMA LogWriteKeeps ==
  ASSUME DInv, Outside, NEW type \in WalTypes, NEW txn \in Nat,
         NEW rid \in Rids \cup {0}, NEW before \in Row \cup {NoRow},
         type \in ChangeTypes => rid # 0, HasImage([type |-> type, before |-> before]),
         LogWrite(type, txn, rid, before), flushed' = flushed \/ flushed' = Len(log')
  PROVE  /\ LogShape' /\ uncommitted' = << >>
         /\ \A i \in 1..Len(log') :
              HasImage(log'[i]) /\ (log'[i].type \in ChangeTypes => log'[i].rid # 0)
<1> DEFINE rec == [lsn |-> nextLsn, txn |-> txn, type |-> type, rid |-> rid,
                   before |-> before]
           n == Len(log)
<1>1. log \in Seq(WalRecord) /\ rec \in WalRecord /\ flushed \in Nat /\ n \in Nat
  BY DEF DInv, DTypeOK, TypeOK, WalOK, WalRecord
<1>2. log' = Append(log, rec) /\ nextLsn' = nextLsn + 1
  BY DEF LogWrite
<1>3. /\ Len(log') = n + 1 /\ log'[n + 1] = rec
      /\ \A i \in 1..n : log'[i] = log[i]
      /\ DOMAIN log = 1..n /\ DOMAIN log' = 1..(n + 1)
  BY <1>1, <1>2, AppendProperties
<1>4. /\ flushed <= n /\ nextLsn \in Nat /\ DOMAIN cuts \subseteq 1..flushed
      /\ DOMAIN cuts = {} => nextLsn = n + 1
      /\ status' = status /\ cuts' = cuts /\ status = "open"
  BY DEF DInv, DTypeOK, TypeOK, WalOK, LogShape, Outside
<1>12. \A i \in 1..n : (\A c \in DOMAIN cuts : i < c) => log[i].lsn = i
  BY DEF DInv, LogShape
<1>5. rec.lsn = nextLsn /\ rec.type = type /\ rec.rid = rid /\ rec.before = before
  OBVIOUS
<1>6. \A i \in 1..n :
        HasImage(log[i]) /\ (log[i].type \in ChangeTypes => log[i].rid # 0)
  BY DEF DInv, ImagesKept
<1>7. HasImage(rec) /\ (rec.type \in ChangeTypes => rec.rid # 0)
  BY <1>5 DEF HasImage
<1> HIDE DEF rec, n
<1>8. LogShape'
  <2>1. flushed' <= Len(log') /\ flushed <= flushed' /\ flushed' \in Nat
    BY <1>1, <1>3, <1>4
  <2>2. DOMAIN cuts' \subseteq 1..flushed'
    BY <2>1, <1>1, <1>4
  <2>3. DOMAIN cuts' = {} /\ status' # "closed" => nextLsn' = Len(log') + 1
    BY <1>1, <1>2, <1>3, <1>4
  <2>4. ASSUME NEW i \in 1..Len(log'), \A c \in DOMAIN cuts' : i < c
        PROVE  log'[i].lsn = i
    <3>1. CASE i \in 1..n
      BY <3>1, <2>4, <1>3, <1>4, <1>12
    <3>2. CASE i = n + 1
      <4>1. DOMAIN cuts = {}
        <5>1. \A c \in DOMAIN cuts : n + 1 < c
          BY <3>2, <2>4, <1>4
        <5>2. \A c \in DOMAIN cuts : c \in 1..flushed
          BY <1>4
        <5>3. \A c \in 1..flushed : ~(n + 1 < c)
          BY <1>1, <1>4
        <5>4. QED
          BY <5>1, <5>2, <5>3
      <4>2. QED
        BY <4>1, <3>2, <1>3, <1>4, <1>5
    <3>3. QED
      BY <3>1, <3>2, <1>1, <1>3
  <2>5. QED
    BY <2>1, <2>2, <2>3, <2>4 DEF LogShape
<1>9. ASSUME NEW i \in 1..Len(log')
      PROVE  HasImage(log'[i]) /\ (log'[i].type \in ChangeTypes => log'[i].rid # 0)
  <2>1. CASE i \in 1..n
    BY <2>1, <1>3, <1>6
  <2>2. CASE i = n + 1
    BY <2>2, <1>3, <1>7
  <2>3. QED
    BY <2>1, <2>2, <1>1, <1>3
<1>10. uncommitted' = << >>
  BY DEF Outside
<1>11. QED
  BY <1>8, <1>9, <1>10

\* A transaction begins.
LEMMA BeginTxnKept ==
  ASSUME DInv, Outside, NEW byUser \in BOOLEAN, BeginTxn(byUser), UNCHANGED storageVars
  PROVE  /\ StorageOK' /\ WalOK' /\ TxnOK' /\ activeTxn' # 0
         /\ Len(hist') = Len(changes') + 1
         /\ ImagesKept' /\ LogShape' /\ uncommitted' = << >>
<1>1. StorageOK' /\ WalOK' /\ TxnOK'
  BY BeginTxnType DEF DInv, DTypeOK, TypeOK, StorageOK, storageVars
<1>2. /\ activeTxn' # 0 /\ changes' = << >> /\ Len(changes') = 0
      /\ hist' = <<Snapshot(slots, index)>> /\ Len(hist') = 1
  BY DEF BeginTxn, DInv, DTypeOK, TypeOK, TxnOK
<1>3. /\ LogShape' /\ uncommitted' = << >>
      /\ \A i \in 1..Len(log') :
           HasImage(log'[i]) /\ (log'[i].type \in ChangeTypes => log'[i].rid # 0)
  <2>1. LogWrite("Begin", nextTxnId, 0, NoRow) /\ flushed' = flushed
    BY DEF BeginTxn, LogControl
  <2>2. "Begin" \in WalTypes /\ "Begin" \notin ChangeTypes
    BY DEF WalTypes, ChangeTypes
  <2>3. nextTxnId \in Nat /\ HasImage([type |-> "Begin", before |-> NoRow])
    BY DEF DInv, DTypeOK, TypeOK, TxnOK, HasImage
  <2>4. QED
    BY <2>1, <2>2, <2>3, LogWriteKeeps
<1>4. ImagesKept'
  BY <1>2, <1>3 DEF ImagesKept
<1>5. QED
  BY <1>1, <1>2, <1>3, <1>4

\* A data statement starts, in a transaction of its own or in the open one.
LEMMA StatementStartsKept ==
  ASSUME DInv, Outside, StatementStarts
  PROVE  /\ StorageOK' /\ WalOK' /\ TxnOK' /\ activeTxn' # 0
         /\ Len(hist') = Len(changes') + 1
         /\ ImagesKept' /\ LogShape' /\ uncommitted' = << >>
<1>1. UNCHANGED storageVars
  BY DEF StatementStarts
<1>2. CASE activeTxn = 0
  BY <1>1, <1>2, BeginTxnKept DEF StatementStarts, GetOrBeginTxn
<1>3. CASE activeTxn # 0
  <2>1. UNCHANGED <<walVars, txnVars>>
    BY <1>3 DEF StatementStarts, GetOrBeginTxn
  <2>2. StorageOK' /\ WalOK' /\ TxnOK'
    BY StatementStartsType DEF DInv, DTypeOK
  <2>3. activeTxn' # 0 /\ Len(hist') = Len(changes') + 1
    BY <1>3, <2>1 DEF DInv, TransactionShape, txnVars
  <2>4. ImagesKept' /\ LogShape' /\ uncommitted' = << >>
    BY <2>1 DEF DInv, DTypeOK, ImagesKept, LogShape, Outside, walVars, txnVars
  <2>5. QED
    BY <2>2, <2>3, <2>4
<1>4. QED
  BY <1>2, <1>3

\* A row step records its change.
LEMMA RecordChangeKept ==
  ASSUME DInv, Outside, stmt.kind # "idle", StorageOK', NEW type \in ChangeTypes,
         NEW rid \in Rids, NEW before \in Row \cup {NoRow},
         type # "Insert" => before # NoRow, RecordChange(type, rid, before)
  PROVE  /\ WalOK' /\ TxnOK' /\ activeTxn' # 0
         /\ Len(hist') = Len(changes') + 1
         /\ ImagesKept' /\ LogShape' /\ uncommitted' = << >>
<1> DEFINE c == [type |-> type, rid |-> rid, before |-> before]
           n == Len(changes)
<1>1. WalOK' /\ TxnOK'
  BY RecordChangeType DEF DInv, DTypeOK
<1>2. /\ activeTxn' # 0 /\ Len(hist) = n + 1
      /\ hist \in Seq([view : Views, index : Indexes])
  BY DEF DInv, TransactionShape, DTypeOK, TypeOK, TxnOK, RecordChange, Views, Indexes
<1>3. /\ changes \in Seq(Change) /\ c \in Change /\ n \in Nat
      /\ changes' = Append(changes, c) /\ hist' = Append(hist, Snapshot(slots', index'))
  BY DEF DInv, DTypeOK, TypeOK, TxnOK, RecordChange, Change
<1>4. /\ Len(changes') = n + 1 /\ changes'[n + 1] = c
      /\ \A i \in 1..n : changes'[i] = changes[i]
  BY <1>3, AppendProperties
<1>5. Len(hist') = n + 2
  <2>1. Snapshot(slots', index') \in [view : Views, index : Indexes]
    BY SnapshotType DEF StorageOK, Indexes
  <2>2. QED
    BY <2>1, <1>2, <1>3, AppendProperties
<1>6. /\ LogShape' /\ uncommitted' = << >>
      /\ \A i \in 1..Len(log') :
           HasImage(log'[i]) /\ (log'[i].type \in ChangeTypes => log'[i].rid # 0)
  <2>1. LogWrite(type, activeTxn, rid, before) /\ flushed' = flushed
    BY DEF RecordChange
  <2>2. type \in WalTypes /\ activeTxn \in Nat /\ rid \in Rids \cup {0} /\ rid # 0
    BY DEF WalTypes, DInv, DTypeOK, TypeOK, TxnOK, Rids
  <2>3. HasImage([type |-> type, before |-> before])
    BY DEF HasImage
  <2>4. QED
    BY <2>1, <2>2, <2>3, LogWriteKeeps
<1>7. \A i \in 1..Len(changes') : HasImage(changes'[i])
  <2>1. HasImage(c) /\ \A i \in 1..n : HasImage(changes[i])
    BY DEF HasImage, DInv, ImagesKept
  <2> HIDE DEF c, n
  <2>2. 1..Len(changes') = 1..n \cup {n + 1}
    BY <1>3, <1>4
  <2>3. QED
    BY <2>1, <2>2, <1>4
<1>8. ImagesKept'
  BY <1>6, <1>7 DEF ImagesKept
<1>9. QED
  BY <1>1, <1>2, <1>3, <1>4, <1>5, <1>6, <1>8

\* A transaction ends, and its last record is forced.
LEMMA EndTxnKept ==
  ASSUME DInv, Outside, NEW type \in {"Commit", "Rollback"},
         LogControl(type, activeTxn), Flush, EndTxn, UNCHANGED storageVars,
         stmt' \in Statement, stmt'.kind = "idle"
  PROVE  Kept'
<1>1. type \in WalTypes /\ type \notin ChangeTypes
  BY DEF WalTypes, ChangeTypes
<1>2. StorageOK' /\ WalOK' /\ TxnOK' /\ StmtOK'
  BY <1>1, EndTxnType DEF DInv, DTypeOK, TypeOK, StorageOK, storageVars, StmtOK
<1>3. activeTxn' = 0 /\ changes' = << >> /\ hist' = << >>
  BY DEF EndTxn
<1>4. /\ LogShape' /\ uncommitted' = << >>
      /\ \A i \in 1..Len(log') :
           HasImage(log'[i]) /\ (log'[i].type \in ChangeTypes => log'[i].rid # 0)
  <2>1. LogWrite(type, activeTxn, 0, NoRow) /\ flushed' = Len(log')
    BY DEF LogControl, Flush
  <2>2. activeTxn \in Nat /\ HasImage([type |-> type, before |-> NoRow])
    BY DEF DInv, DTypeOK, TypeOK, TxnOK, HasImage
  <2>3. QED
    BY <2>1, <2>2, <1>1, LogWriteKeeps
<1>5. ImagesKept'
  <2>1. Len(changes') = 0
    BY <1>3
  <2>2. QED
    BY <2>1, <1>4 DEF ImagesKept
<1>6. TransactionShape' /\ NoNullAssigned'
  BY <1>3 DEF DInv, TransactionShape, NoNullAssigned, Outside
<1>7. QED
  BY <1>2, <1>4, <1>5, <1>6 DEF Kept, TypeOK

\* A step that changes nothing but the statement in progress.
LEMMA StatementStepKept ==
  ASSUME DInv, Outside, UNCHANGED <<storageVars, walVars, txnVars>>,
         stmt' \in Statement, stmt'.kind # "update", activeTxn # 0 \/ stmt'.kind = "idle"
  PROVE  Kept'
<1>1. TypeOK'
  BY DEF DInv, DTypeOK, TypeOK, StorageOK, WalOK, TxnOK, StmtOK, storageVars, walVars, txnVars
<1>2. TransactionShape' /\ NoNullAssigned'
  BY DEF DInv, TransactionShape, NoNullAssigned, Outside, txnVars
<1>3. ImagesKept' /\ LogShape' /\ uncommitted' = << >>
  BY DEF DInv, DTypeOK, ImagesKept, LogShape, Outside, walVars, txnVars
<1>4. QED
  BY <1>1, <1>2, <1>3 DEF Kept

-----------------------------------------------------------------------------
(* The actions of Session.                                                 *)

LEMMA DataStatementKept ==
  ASSUME DInv, Outside, DataStatement
  PROVE  Kept'
<1> SUFFICES ASSUME StatementStarts PROVE StmtOK' /\ NoNullAssigned'
  BY StatementStartsKept
  DEF DataStatement, InsertStatement, UpdateStatement, DeleteStatement, Kept,
      TypeOK, TransactionShape, DInv, Outside
<1>1. slots' = slots /\ slots \in [Rids -> Slot] /\ TypeOK
  BY DEF StatementStarts, storageVars, DInv, DTypeOK, TypeOK, StorageOK
<1>2. NoAssignment \in Assignment /\ << >> \in Seq(InputRow)
  BY EmptySeq DEF NoAssignment, Assignment
<1>3. ASSUME NEW rows \in InsertInputs, InsertStatement(rows)
      PROVE  StmtOK' /\ NoNullAssigned'
  <2>1. rows \in Seq(InputRow)
    BY <1>3 DEF InsertInputs
  <2>2. stmt' = Running("insert", rows, {}, NoAssignment)
    BY <1>3 DEF InsertStatement
  <2>3. stmt' \in Statement
    BY <2>1, <2>2, <1>2, StmtType
  <2>4. stmt'.kind = "insert"
    BY <2>2 DEF Running
  <2>5. QED
    BY <2>3, <2>4 DEF StmtOK, NoNullAssigned
<1>4. ASSUME NEW where \in Where, NEW set \in Assignment, UpdateStatement(where, set)
      PROVE  StmtOK' /\ NoNullAssigned'
  <2> DEFINE rids == Scanned(where)
  <2>1. rids \subseteq Rids
    BY <1>1, ScannedType
  <2>2. CASE UpdateAllowed(rids, set)
    <3>1. stmt' = Running("update", << >>, rids, set)
      BY <2>2, <1>4 DEF UpdateStatement
    <3> HIDE DEF rids
    <3>2. stmt' \in Statement /\ stmt'.rids = rids /\ stmt'.set = set
      BY <3>1, <2>1, <1>2, StmtType DEF Running
    <3>3. ASSUME NEW r \in rids, set.col # "key"
          PROVE  set.to # Null
      <4>1. NewRow(slots[r].row, set).val # Null
        BY <2>2, <3>3 DEF UpdateAllowed
      <4>2. slots[r].row \in Row
        BY <1>1, <2>1 DEF Slot
      <4>3. NewRow(slots[r].row, set).val = set.to
        BY <4>2, <3>3 DEF NewRow, Row
      <4>4. QED
        BY <4>1, <4>3
    <3>4. QED
      BY <3>2, <3>3 DEF StmtOK, NoNullAssigned
  <2>3. CASE ~UpdateAllowed(rids, set)
    <3>1. stmt' = Idle
      BY <2>3, <1>4 DEF UpdateStatement
    <3>2. QED
      BY <3>1, StmtType DEF StmtOK, NoNullAssigned, Idle
  <2>4. QED
    BY <2>2, <2>3
<1>5. ASSUME NEW where \in Where, DeleteStatement(where)
      PROVE  StmtOK' /\ NoNullAssigned'
  <2>1. Scanned(where) \subseteq Rids
    BY <1>1, ScannedType
  <2>2. stmt' = Running("delete", << >>, Scanned(where), NoAssignment)
    BY <1>5 DEF DeleteStatement
  <2>3. stmt' \in Statement
    BY <2>1, <2>2, <1>2, StmtType
  <2>4. stmt'.kind = "delete"
    BY <2>2 DEF Running
  <2>5. QED
    BY <2>3, <2>4 DEF StmtOK, NoNullAssigned
<1>6. QED
  BY <1>3, <1>4, <1>5 DEF DataStatement

LEMMA InsertOneRowKept ==
  ASSUME DInv, Outside, InsertOneRow
  PROVE  Kept'
<1>1. TypeOK'
  BY TypeInsertOneRow DEF DInv, DTypeOK
<1>2. PICK rid \in Rids : RecordChange("Insert", rid, NoRow)
  BY DEF InsertOneRow
<1>3. stmt.kind = "insert" /\ stmt'.kind = "insert"
  BY DEF InsertOneRow, DInv, DTypeOK, TypeOK, StmtOK, Statement
<1>4. /\ activeTxn' # 0 /\ Len(hist') = Len(changes') + 1
      /\ ImagesKept' /\ LogShape' /\ uncommitted' = << >>
  BY <1>1, <1>2, <1>3, RecordChangeKept DEF ChangeTypes, TypeOK
<1>5. QED
  BY <1>1, <1>3, <1>4 DEF Kept, TransactionShape, NoNullAssigned, DInv, Outside

LEMMA UpdateOneRowKept ==
  ASSUME DInv, Outside, NEW rid \in Rids, UpdateOneRow(rid)
  PROVE  Kept'
<1> DEFINE old == slots[rid].row
<1>1. /\ stmt.kind = "update" /\ rid \in stmt.rids /\ stmt \in Statement
      /\ stmt' = [stmt EXCEPT !.rids = @ \ {rid}] /\ RecordChange("Update", rid, old)
  BY DEF UpdateOneRow, IsNext, DInv, DTypeOK, TypeOK, StmtOK
<1>2. old \in Row /\ old # NoRow /\ old.val # Null
  BY HeapAssumption, SessionAssumption DEF DInv, DTypeOK, TypeOK, StorageOK, Slot, Row
<1>3. NewRow(old, stmt.set).val # Null
  BY <1>1, <1>2 DEF DInv, NoNullAssigned, NewRow, Row
<1>4. TypeOK'
  BY <1>3, TypeUpdateOneRow DEF DInv, DTypeOK
<1>5. /\ activeTxn' # 0 /\ Len(hist') = Len(changes') + 1
      /\ ImagesKept' /\ LogShape' /\ uncommitted' = << >>
  BY <1>1, <1>2, <1>4, RecordChangeKept DEF ChangeTypes, TypeOK
<1>6. stmt'.kind = "update" /\ stmt'.set = stmt.set /\ stmt'.rids \subseteq stmt.rids
  BY <1>1 DEF Statement
<1>7. NoNullAssigned'
  BY <1>1, <1>6 DEF DInv, NoNullAssigned
<1>8. QED
  BY <1>4, <1>5, <1>7 DEF Kept, TransactionShape, DInv, Outside

LEMMA DeleteOneRowKept ==
  ASSUME DInv, Outside, NEW rid \in Rids, DeleteOneRow(rid)
  PROVE  Kept'
<1> DEFINE old == slots[rid].row
<1>1. TypeOK'
  BY TypeDeleteOneRow DEF DInv, DTypeOK
<1>2. old \in Row /\ old # NoRow
  BY HeapAssumption DEF DInv, DTypeOK, TypeOK, StorageOK, Slot, Row
<1>3. /\ stmt.kind = "delete" /\ stmt'.kind = "delete"
      /\ RecordChange("Delete", rid, old)
  BY DEF DeleteOneRow, DInv, DTypeOK, TypeOK, StmtOK, Statement
<1>4. /\ activeTxn' # 0 /\ Len(hist') = Len(changes') + 1
      /\ ImagesKept' /\ LogShape' /\ uncommitted' = << >>
  BY <1>1, <1>2, <1>3, RecordChangeKept DEF ChangeTypes, TypeOK
<1>5. QED
  BY <1>1, <1>3, <1>4 DEF Kept, TransactionShape, NoNullAssigned, DInv, Outside

\* What undoes a change that has its image leaves rows in the slots.
LEMMA UndoneSlotsType ==
  ASSUME slots \in [Rids -> Slot], NEW c, c.rid \in Rids, c.type \in ChangeTypes,
         c.before \in Row \cup {NoRow}, HasImage(c)
  PROVE  UndoneSlots(c) \in [Rids -> Slot]
<1>1. \A row \in Row :
        /\ DeleteRow(slots, c.rid) \in [Rids -> Slot]
        /\ UndeleteRow(slots, c.rid) \in [Rids -> Slot]
        /\ UpdateRow(slots, c.rid, row) \in [Rids -> Slot]
  BY HeapOperators
<1>2. slots[c.rid].row \in Row
  BY DEF Slot
<1>3. c.type = "Update" => c.before \in Row
  BY DEF HasImage
<1>4. QED
  BY <1>1, <1>2, <1>3 DEF UndoneSlots, ChangeTypes

LEMMA UndoOneChangeKept ==
  ASSUME DInv, Outside, UndoOneChange
  PROVE  Kept'
<1> DEFINE c == Last(changes)
           n == Len(changes)
           Snapshots == [view : Views, index : Indexes]
<1>1. /\ changes \in Seq(Change) /\ changes # << >>
      /\ hist \in Seq(Snapshots)
      /\ slots \in [Rids -> Slot] /\ index \in Indexes
  BY DEF DInv, DTypeOK, TypeOK, StorageOK, TxnOK, UndoOneChange, Views, Indexes
<1>2. /\ n \in Nat \ {0} /\ c \in Change /\ c = changes[n]
      /\ Front(changes) \in Seq(Change) /\ Len(Front(changes)) = n - 1
      /\ \A i \in 1..(n - 1) : Front(changes)[i] = changes[i]
  BY <1>1, FrontLast
<1>3. activeTxn # 0 /\ Len(hist) = n + 1
  <2>1. activeTxn # 0
    BY <1>1 DEF DInv, TransactionShape
  <2>2. QED
    BY <2>1 DEF DInv, TransactionShape
<1>4. /\ changes' = Front(changes) /\ hist' = Front(hist)
      /\ slots' = UndoneSlots(c) /\ index' = UndoneIndex(c)
      /\ UNCHANGED <<pages, walVars, nextTxnId, activeTxn, explicit, stmt>>
  BY DEF UndoOneChange
<1>5. c.rid \in Rids /\ c.before \in Row \cup {NoRow} /\ c.type \in ChangeTypes /\ HasImage(c)
  BY <1>2 DEF Change, DInv, ImagesKept
<1> HIDE DEF c, n, Snapshots
<1>6. hist' \in Seq(Snapshots) /\ Len(hist') = n
  <2>1. hist # << >>
    BY <1>1, <1>2, <1>3, EmptySeq
  <2>2. Front(hist) \in Seq(Snapshots) /\ Len(Front(hist)) = Len(hist) - 1
    BY <2>1, <1>1, FrontLast
  <2>3. QED
    BY <2>2, <1>2, <1>3, <1>4
<1>7. slots' \in [Rids -> Slot]
  BY <1>1, <1>4, <1>5, UndoneSlotsType
<1>8. index' \in Indexes
  <2> DEFINE key == slots[c.rid].row.key
  <2>1. key \in Keys /\ (c.type # "Insert" => c.before.key \in Keys)
    BY <1>1, <1>5 DEF Slot, Row, HasImage, ChangeTypes
  <2>2. TreeDelete(index, key) \in Indexes
    BY <2>1, <1>1, <1>5, IndexOperators
  <2>3. c.type # "Insert" =>
          /\ TreeInsert(index, c.before.key, c.rid) \in Indexes
          /\ TreeInsert(TreeDelete(index, key), c.before.key, c.rid) \in Indexes
    BY <2>1, <2>2, <1>1, <1>5, IndexOperators
  <2>4. QED
    BY <2>2, <2>3, <1>1, <1>4, <1>5 DEF UndoneIndex, ChangeTypes
<1>9. TypeOK'
  BY <1>2, <1>4, <1>6, <1>7, <1>8
  DEF DInv, DTypeOK, TypeOK, StorageOK, WalOK, TxnOK, StmtOK, walVars, Views, Indexes, Snapshots
<1>10. TransactionShape' /\ NoNullAssigned'
  BY <1>2, <1>3, <1>4, <1>6 DEF DInv, TransactionShape, NoNullAssigned, Outside
<1>11. \A i \in 1..Len(changes') : HasImage(changes'[i])
  BY <1>2, <1>4 DEF DInv, ImagesKept, n
<1>12. ImagesKept' /\ LogShape' /\ uncommitted' = << >>
  BY <1>4, <1>11 DEF DInv, DTypeOK, ImagesKept, LogShape, Outside, walVars
<1>13. QED
  BY <1>9, <1>10, <1>12 DEF Kept

LEMMA SessionKept ==
  ASSUME DInv, Outside, Next
  PROVE  Kept'
<1>1. CASE DataStatement
  BY <1>1, DataStatementKept
<1>2. CASE RowStep
  <2>1. CASE InsertRejected
    <3>1. stmt' = Idle /\ UNCHANGED <<storageVars, walVars, txnVars>>
      BY <2>1 DEF InsertRejected, Rejected
    <3>2. QED
      BY <3>1, StmtType, StatementStepKept DEF Idle
  <2>2. CASE InsertOneRow
    BY <2>2, InsertOneRowKept
  <2>3. ASSUME NEW rid \in Rids, UpdateOneRow(rid)
        PROVE  Kept'
    BY <2>3, UpdateOneRowKept
  <2>4. ASSUME NEW rid \in Rids, DeleteOneRow(rid)
        PROVE  Kept'
    BY <2>4, DeleteOneRowKept
  <2>5. CASE FinishStatement
    <3>1. stmt' \in Statement /\ stmt'.kind = "idle" /\ UNCHANGED storageVars
      BY <2>5, StmtType DEF FinishStatement, Idle
    <3>2. CASE stmt.auto
      BY <2>5, <3>1, <3>2, EndTxnKept DEF FinishStatement, CommitTxn
    <3>3. CASE ~stmt.auto
      BY <2>5, <3>1, <3>3, StatementStepKept DEF FinishStatement
    <3>4. QED
      BY <3>2, <3>3
  <2>6. QED
    BY <1>2, <2>1, <2>2, <2>3, <2>4, <2>5 DEF RowStep
<1>3. CASE TxnControl
  <2>1. stmt \in Statement
    BY DEF DInv, DTypeOK, TypeOK, StmtOK
  <2>2. CASE BeginStatement
    <3>1. stmt' = stmt /\ stmt.kind = "idle" /\ BeginTxn(TRUE) /\ UNCHANGED storageVars
      BY <2>2 DEF BeginStatement
    <3>2. /\ StorageOK' /\ WalOK' /\ TxnOK' /\ activeTxn' # 0
          /\ Len(hist') = Len(changes') + 1
          /\ ImagesKept' /\ LogShape' /\ uncommitted' = << >>
      BY <3>1, BeginTxnKept
    <3>3. QED
      BY <2>1, <3>1, <3>2
      DEF Kept, TypeOK, StmtOK, TransactionShape, NoNullAssigned, DInv, Outside
  <2>3. CASE CommitStatement
    <3>1. UNCHANGED <<storageVars, stmt>> /\ CommitTxn /\ stmt.kind = "idle"
      BY <2>3 DEF CommitStatement
    <3>2. QED
      BY <2>1, <3>1, EndTxnKept DEF CommitTxn
  <2>4. CASE ControlRefused
    <3>1. /\ stmt.kind = "idle" /\ stmt' = stmt
          /\ UNCHANGED <<storageVars, walVars, txnVars>>
      BY <2>4 DEF ControlRefused, vars
    <3>2. QED
      BY <2>1, <3>1, StatementStepKept
  <2>5. CASE RollbackStatement
    <3>1. /\ activeTxn # 0
          /\ stmt' = Running("rollback", << >>, {}, NoAssignment)
          /\ UNCHANGED <<storageVars, walVars, txnVars>>
      BY <2>5 DEF RollbackStatement
    <3>2. NoAssignment \in Assignment /\ << >> \in Seq(InputRow)
      BY EmptySeq DEF NoAssignment, Assignment
    <3>3. stmt' \in Statement
      BY <3>1, <3>2, StmtType
    <3>4. stmt'.kind = "rollback"
      BY <3>1 DEF Running
    <3>5. QED
      BY <3>1, <3>3, <3>4, StatementStepKept
  <2>6. CASE UndoOneChange
    BY <2>6, UndoOneChangeKept
  <2>7. CASE FinishRollback
    <3>1. stmt' \in Statement /\ stmt'.kind = "idle"
      BY <2>7, StmtType DEF FinishRollback, Idle
    <3>2. QED
      BY <2>7, <3>1, EndTxnKept DEF FinishRollback
  <2>8. QED
    BY <1>3, <2>2, <2>3, <2>4, <2>5, <2>6, <2>7 DEF TxnControl
<1>4. QED
  BY <1>1, <1>2, <1>3 DEF Next

-----------------------------------------------------------------------------
(* The actions of Durability.                                              *)

\* The history holds views of the table.
LEMMA HistoryViews ==
  ASSUME TxnOK
  PROVE  \A i \in 1..Len(hist) : hist[i].view \in [Rids -> Row \cup {NoRow}]
<1> DEFINE Snapshots == [view : [Rids -> Row \cup {NoRow}], index : [Keys -> Seq(Rids)]]
<1>1. hist \in Seq(Snapshots)
  BY DEF TxnOK
<1> HIDE DEF Snapshots
<1>2. \A i \in 1..Len(hist) : hist[i] \in Snapshots
  BY <1>1, ElementOfSeq
<1>3. QED
  BY <1>2 DEF Snapshots

LEMMA SessionStepKeeps ==
  ASSUME DInv, SessionStep
  PROVE  DInv'
<1>1. Outside /\ Next /\ UNCHANGED <<dslots, dindex, starts, lossless, exit>>
  BY DEF SessionStep, Outside, diskVars, recoverVars, DInv, TransactionShape
<1>2. Kept'
  BY <1>1, SessionKept
<1>3. past' \in [Rids -> SUBSET (Row \cup {NoRow})]
  <2>1. past \in [Rids -> SUBSET (Row \cup {NoRow})]
    BY DEF DInv, DTypeOK
  <2>2. \A i \in DOMAIN hist : hist[i].view \in [Rids -> Row \cup {NoRow}]
    <3>1. TxnOK
      BY DEF DInv, DTypeOK, TypeOK
    <3>2. DOMAIN hist = 1..Len(hist)
      BY <3>1 DEF TxnOK
    <3>3. QED
      BY <3>1, <3>2, HistoryViews
  <2>3. QED
    BY <2>1, <2>2 DEF SessionStep
<1>4. DOMAIN cuts' \subseteq DOMAIN log'
  <2>1. flushed' <= Len(log') /\ flushed' \in Nat /\ DOMAIN cuts' \subseteq 1..flushed'
    BY <1>2 DEF Kept, LogShape, TypeOK, WalOK
  <2>2. Len(log') \in Nat /\ DOMAIN log' = 1..Len(log')
    BY <1>2 DEF Kept, TypeOK, WalOK
  <2>3. QED
    BY <2>1, <2>2
<1>5. DTypeOK'
  <2>1. DOMAIN uncommitted' = {} /\ uncommitted' \in [DOMAIN uncommitted' -> WalRecord]
    BY <1>2 DEF Kept
  <2>2. status' = status /\ cuts' = cuts /\ undo' = undo
    BY <1>1 DEF Outside
  <2>3. QED
    BY <1>1, <1>2, <1>3, <1>4, <2>1, <2>2 DEF DInv, DTypeOK, Kept, Outside
<1>6. RecoveryShape'
  <2>1. DOMAIN uncommitted' = {} /\ status' = "open"
    BY <1>1, <1>2 DEF Kept, Outside
  <2>2. QED
    BY <2>1 DEF RecoveryShape
<1>7. QED
  BY <1>2, <1>5, <1>6 DEF DInv, Kept

\* A step that leaves the process and the log alone, and of the heap at most
\* the content of its slots.
LEMMA DiskStepKeeps ==
  ASSUME DInv, DTypeOK', undo' \subseteq undo, status # "closed",
         \/ status' = status /\ uncommitted' = uncommitted
         \/ /\ status = "recovering" /\ undo' = {} /\ status' = "open"
            /\ uncommitted' = << >>,
         UNCHANGED <<walVars, txnVars, stmt, cuts>>
  PROVE  DInv'
<1>1. TransactionShape' /\ NoNullAssigned'
  BY DEF DInv, TransactionShape, NoNullAssigned, txnVars
<1>2. LogShape'
  BY DEF DInv, LogShape, walVars
<1>3. uncommitted' = uncommitted \/ (DOMAIN uncommitted' = {} /\ status' = "open")
  OBVIOUS
<1>4. ImagesKept'
  BY <1>3 DEF DInv, ImagesKept, walVars, txnVars
<1>5. RecoveryShape'
  <2>1. CASE uncommitted' = uncommitted /\ status' = status
    BY <2>1 DEF DInv, RecoveryShape, walVars, Whole, ToUndo, Unfinished, WithCommit
  <2>2. CASE DOMAIN uncommitted' = {} /\ status' = "open"
    BY <2>2 DEF RecoveryShape
  <2>3. QED
    BY <2>1, <2>2
<1>6. QED
  BY <1>1, <1>2, <1>4, <1>5 DEF DInv

LEMMA EvictionKeeps ==
  ASSUME DInv, EvictIndex \/ \E page \in 1..MaxPages : EvictPage(page)
  PROVE  DInv'
<1>1. /\ UNCHANGED <<vars, status, cuts, uncommitted, undo, starts, historyVars>>
      /\ status # "closed"
  BY DEF EvictIndex, EvictPage, recoverVars
<1>2. TypeOK'
  BY <1>1
  DEF DInv, DTypeOK, TypeOK, StorageOK, WalOK, TxnOK, StmtOK, vars, storageVars, walVars, txnVars
<1>3. dslots' \in [Rids -> Slot] /\ dindex' \in [Keys -> Seq(Rids)]
  BY DEF DInv, DTypeOK, TypeOK, StorageOK, EvictIndex, EvictPage
<1>4. DTypeOK'
  BY <1>1, <1>2, <1>3 DEF DInv, DTypeOK, vars, walVars, historyVars
<1>5. QED
  BY <1>1, <1>4, DiskStepKeeps DEF vars

\* What ends a process leaves a prefix of the log that has all that was forced.
LEMMA ProcessEndKeeps ==
  ASSUME DInv, NEW heap \in [Rids -> Slot], NEW tree \in [Keys -> Seq(Rids)],
         NEW kept \in flushed..Len(log), NEW how \in {"clean", "crash"},
         ProcessEnds(heap, tree, kept, how), lossless' \in BOOLEAN,
         cuts' \in [DOMAIN cuts' -> CutParts],
         DOMAIN cuts' = DOMAIN cuts \/ (kept # 0 /\ DOMAIN cuts' = DOMAIN cuts \cup {kept})
  PROVE  DInv'
<1>1. /\ log \in Seq(WalRecord) /\ Len(log) \in Nat /\ flushed \in Nat
      /\ DOMAIN cuts \subseteq 1..flushed
      /\ \A i \in 1..Len(log) : (\A c \in DOMAIN cuts : i < c) => log[i].lsn = i
      /\ \A i \in 1..Len(log) :
           HasImage(log[i]) /\ (log[i].type \in ChangeTypes => log[i].rid # 0)
  BY DEF DInv, DTypeOK, TypeOK, WalOK, LogShape, ImagesKept
<1>2. kept \in Nat /\ kept <= Len(log) /\ flushed <= kept
  BY <1>1
<1>3. /\ log' \in Seq(WalRecord) /\ Len(log') = kept
      /\ \A i \in 1..kept : log'[i] = log[i]
  BY <1>1, <1>2, Prefix DEF ProcessEnds
<1>4. /\ status' = "closed" /\ flushed' = kept /\ nextLsn' = 1 /\ nextTxnId' = 1
      /\ activeTxn' = 0 /\ changes' = << >> /\ hist' = << >> /\ explicit' = FALSE
      /\ stmt' = Idle /\ undo' = {} /\ uncommitted' = << >>
  BY DEF ProcessEnds
<1>11. DOMAIN cuts \subseteq DOMAIN cuts' /\ DOMAIN cuts' \subseteq 1..kept
  <2>1. 1..flushed \subseteq 1..kept /\ (kept # 0 => kept \in 1..kept)
    BY <1>1, <1>2
  <2>2. QED
    BY <2>1, <1>1
<1>12. DOMAIN uncommitted' = {} /\ uncommitted' \in [DOMAIN uncommitted' -> WalRecord]
  BY <1>4
<1>5. TypeOK'
  <2>1. StorageOK'
    BY DEF DInv, DTypeOK, TypeOK, StorageOK, ProcessEnds
  <2>2. WalOK'
    BY <1>2, <1>3, <1>4 DEF WalOK
  <2>3. TxnOK'
    <3>1. explicit' \in BOOLEAN
      BY <1>4
    <3>2. /\ changes' \in Seq(Change)
          /\ hist' \in Seq([view : [Rids -> Row \cup {NoRow}], index : [Keys -> Seq(Rids)]])
      BY <1>4, EmptySeq
    <3>3. nextTxnId' \in Nat \ {0} /\ activeTxn' \in Nat
      BY <1>4
    <3>4. QED
      BY <3>1, <3>2, <3>3 DEF TxnOK
  <2>4. StmtOK'
    BY <1>4, StmtType DEF StmtOK
  <2>5. QED
    BY <2>1, <2>2, <2>3, <2>4 DEF TypeOK
<1>6. DTypeOK'
  <2>1. Committed.view \in [Rids -> Row \cup {NoRow}]
    <3>1. CASE activeTxn = 0
      <4>1. View(slots) \in Views
        BY DEF DInv, DTypeOK, TypeOK, StorageOK, View, Views, Live, Slot
      <4>2. QED
        BY <3>1, <4>1, SnapshotFields DEF Committed, Views
    <3>2. CASE activeTxn # 0
      <4>1. Len(changes) \in Nat /\ Len(hist) = Len(changes) + 1
        BY <3>2 DEF DInv, TransactionShape, DTypeOK, TypeOK, TxnOK
      <4>2. hist[1].view \in [Rids -> Row \cup {NoRow}]
        <5>1. 1 \in 1..Len(hist)
          BY <4>1
        <5>2. QED
          BY <5>1, HistoryViews DEF DInv, DTypeOK, TypeOK
      <4>3. QED
        BY <3>2, <4>2 DEF Committed
    <3>3. QED
      BY <3>1, <3>2
  <2>2. exit' \in [how : {"none", "clean", "crash"}, rows : [Rids -> Row \cup {NoRow}]]
    BY <2>1 DEF ProcessEnds, DInv, DTypeOK
  <2>3. /\ dslots' \in [Rids -> Slot] /\ dindex' \in [Keys -> Seq(Rids)]
        /\ starts' = starts /\ past' = past
    BY DEF ProcessEnds
  <2>4. DOMAIN cuts' \subseteq DOMAIN log'
    BY <1>3, <1>11
  <2>5. undo' \subseteq DOMAIN uncommitted' /\ DOMAIN uncommitted' \subseteq DOMAIN log'
    BY <1>4, <1>12
  <2>6. starts' \in 1..MaxStarts /\ past' \in [Rids -> SUBSET (Row \cup {NoRow})]
    BY <2>3 DEF DInv, DTypeOK
  <2>7. QED
    BY <1>4, <1>5, <1>12, <2>2, <2>3, <2>4, <2>5, <2>6 DEF DTypeOK
<1>7. TransactionShape' /\ NoNullAssigned'
  BY <1>4 DEF TransactionShape, NoNullAssigned, Idle
<1>8. ImagesKept'
  <2>1. Len(changes') = 0
    BY <1>4
  <2>2. \A i \in 1..Len(log') :
          HasImage(log'[i]) /\ (log'[i].type \in ChangeTypes => log'[i].rid # 0)
    BY <1>1, <1>2, <1>3
  <2>3. QED
    BY <2>1, <2>2, <1>4, <1>12 DEF ImagesKept
<1>9. LogShape'
  <2>1. flushed' <= Len(log') /\ DOMAIN cuts' \subseteq 1..flushed'
    BY <1>2, <1>3, <1>4, <1>11
  <2>2. ASSUME NEW i \in 1..kept, \A c \in DOMAIN cuts' : i < c
        PROVE  log'[i].lsn = i
    <3>1. \A c \in DOMAIN cuts : i < c
      BY <2>2, <1>11
    <3>2. i \in 1..Len(log) /\ log'[i] = log[i]
      BY <1>1, <1>2, <1>3
    <3>3. log[i].lsn = i
      BY <3>1, <3>2, <1>1
    <3>4. QED
      BY <3>2, <3>3
  <2>3. QED
    BY <2>1, <2>2, <1>3, <1>4 DEF LogShape
<1>10. RecoveryShape'
  BY <1>4, <1>12 DEF RecoveryShape
<1>13. QED
  BY <1>6, <1>7, <1>8, <1>9, <1>10 DEF DInv

LEMMA ShutdownKeeps ==
  ASSUME DInv, Shutdown
  PROVE  DInv'
<1>1. /\ slots \in [Rids -> Slot] /\ index \in [Keys -> Seq(Rids)]
      /\ Len(log) \in Nat /\ flushed \in Nat /\ flushed <= Len(log)
      /\ lossless \in BOOLEAN
  BY DEF DInv, DTypeOK, TypeOK, StorageOK, WalOK, LogShape
<1>2. /\ ProcessEnds(slots, index, Len(log), "clean")
      /\ cuts' = cuts /\ lossless' = lossless
  BY DEF Shutdown
<1>3. Len(log) \in flushed..Len(log) /\ cuts' \in [DOMAIN cuts' -> CutParts]
  BY <1>1, <1>2 DEF DInv, DTypeOK
<1>4. QED
  BY <1>1, <1>2, <1>3, ProcessEndKeeps

LEMMA CrashKeeps ==
  ASSUME DInv, Crash
  PROVE  DInv'
<1>1. /\ dslots \in [Rids -> Slot] /\ dindex \in [Keys -> Seq(Rids)]
      /\ cuts \in [DOMAIN cuts -> CutParts] /\ lossless \in BOOLEAN
  BY DEF DInv, DTypeOK
<1>2. PICK kept \in flushed..Len(log) :
        /\ ProcessEnds(dslots, dindex, kept, "crash")
        /\ lossless' = (lossless /\ kept = Len(log))
  BY DEF Crash
<1>3. cuts' = cuts
  BY DEF Crash
<1>4. lossless' \in BOOLEAN
  BY <1>1, <1>2
<1>5. QED
  BY <1>1, <1>2, <1>3, <1>4, ProcessEndKeeps

\* One record more is cut.
LEMMA CutAtType ==
  ASSUME cuts \in [DOMAIN cuts -> CutParts], NEW i, NEW part \in CutParts
  PROVE  /\ DOMAIN CutAt(i, part) = DOMAIN cuts \cup {i}
         /\ CutAt(i, part) \in [DOMAIN CutAt(i, part) -> CutParts]
<1>1. DOMAIN CutAt(i, part) = DOMAIN cuts \cup {i}
  BY DEF CutAt
<1>2. CutAt(i, part) \in [DOMAIN cuts \cup {i} -> CutParts]
  BY DEF CutAt
<1>3. QED
  BY <1>1, <1>2

LEMMA CrashInRecordKeeps ==
  ASSUME DInv, CrashInRecord
  PROVE  DInv'
<1>1. /\ dslots \in [Rids -> Slot] /\ dindex \in [Keys -> Seq(Rids)]
      /\ cuts \in [DOMAIN cuts -> CutParts] /\ flushed \in Nat /\ Len(log) \in Nat
  BY DEF DInv, DTypeOK, TypeOK, WalOK
<1>2. PICK i \in (flushed + 1)..Len(log), part \in CutParts :
        ProcessEnds(dslots, dindex, i, "crash") /\ cuts' = CutAt(i, part)
  BY DEF CrashInRecord
<1>3. lossless' \in BOOLEAN
  BY DEF CrashInRecord
<1>4. i \in flushed..Len(log) /\ i # 0
  BY <1>1, <1>2
<1>5. /\ cuts' \in [DOMAIN cuts' -> CutParts]
      /\ DOMAIN cuts' = DOMAIN cuts \cup {i}
  BY <1>1, <1>2, CutAtType
<1>6. QED
  BY <1>1, <1>2, <1>3, <1>4, <1>5, ProcessEndKeeps

\* A start numbers on behind the last record it reads.
LEMMA StartKeeps ==
  ASSUME DInv, Start
  PROVE  DInv'
<1>1. TypeOK /\ LogShape /\ WalOK /\ ImagesKept /\ DTypeOK
  BY DEF DInv, DTypeOK, TypeOK
<1>2. PICK recs \in ReadAll :
        /\ nextLsn' = LsnAfter(recs)
        /\ uncommitted' = [i \in ToUndo(recs) |-> recs[i]] /\ undo' = ToUndo(recs)
  BY DEF Start
<1>3. /\ status = "closed" /\ status' = "recovering"
      /\ starts < MaxStarts /\ starts' = starts + 1
      /\ UNCHANGED <<storageVars, log, flushed, txnVars, stmt, diskVars, historyVars>>
  BY DEF Start
<1>4. FromLog(recs) /\ (DOMAIN cuts = {} => recs = log)
  BY <1>1, ReadAllFromLog DEF DTypeOK
<1>5. /\ nextLsn' \in Nat \ {0}
      /\ DOMAIN cuts = {} => nextLsn' = Len(log) + 1
  <2>1. DOMAIN cuts = {} => \A i \in 1..Len(log) : log[i].lsn = i
    BY <1>1 DEF LogShape
  <2>2. QED
    BY <2>1, <1>1, <1>2, <1>4, NextNumber
<1>6. TypeOK'
  <2>1. StorageOK' /\ TxnOK' /\ StmtOK'
    BY <1>1, <1>3 DEF TypeOK, StorageOK, TxnOK, StmtOK, storageVars, txnVars
  <2>2. WalOK'
    BY <1>1, <1>3, <1>5 DEF WalOK
  <2>3. QED
    BY <2>1, <2>2 DEF TypeOK
<1>7. /\ DOMAIN uncommitted' = ToUndo(recs) /\ ToUndo(recs) \subseteq DOMAIN recs
      /\ \A i \in ToUndo(recs) :
           /\ uncommitted'[i] = recs[i] /\ recs[i] \in WalRecord
           /\ recs[i].type \in ChangeTypes /\ (recs[i].rid # 0 => HasImage(recs[i]))
           /\ Whole(i) => recs[i] = log[i]
  BY <1>2, <1>4 DEF ToUndo, FromLog
<1>8. /\ DOMAIN uncommitted' \subseteq DOMAIN log'
      /\ uncommitted' \in [DOMAIN uncommitted' -> WalRecord]
  BY <1>2, <1>3, <1>4, <1>7 DEF FromLog
<1>9. starts' \in 1..MaxStarts
  BY <1>3, DurabilityAssumption DEF DInv, DTypeOK
<1>10. DTypeOK'
  <2>1. /\ status' \in {"open", "recovering", "closed"} /\ undo' \subseteq DOMAIN uncommitted'
    BY <1>2, <1>3, <1>7
  <2>2. QED
    BY <2>1, <1>1, <1>3, <1>6, <1>8, <1>9 DEF DTypeOK, diskVars, historyVars
<1>11. TransactionShape' /\ NoNullAssigned'
  BY <1>3 DEF DInv, TransactionShape, NoNullAssigned, txnVars
<1>12. ImagesKept'
  BY <1>1, <1>3, <1>7 DEF ImagesKept, txnVars
<1>13. LogShape'
  BY <1>1, <1>3, <1>5 DEF LogShape, diskVars
<1>14. RecoveryShape'
  <2>1. \A i \in DOMAIN uncommitted' : Whole(i)' => uncommitted'[i] = log'[i]
    BY <1>3, <1>7 DEF Whole, diskVars
  <2>2. DOMAIN cuts' = {} => DOMAIN uncommitted' = ToUndo(log')
    BY <1>3, <1>4, <1>7 DEF diskVars
  <2>3. QED
    BY <2>1, <2>2 DEF RecoveryShape, ToUndo, Unfinished, WithCommit
<1>15. QED
  BY <1>10, <1>11, <1>12, <1>13, <1>14 DEF DInv

LEMMA RecoveryKeeps ==
  ASSUME DInv, RecoverOneRecord \/ EngineReady
  PROVE  DInv'
<1>1. CASE RecoverOneRecord
  <2>1. PICK i \in undo :
          slots' = RecoveredSlots(uncommitted[i]) /\ undo' = undo \ {i}
    BY <1>1 DEF RecoverOneRecord
  <2>2. /\ status = "recovering"
        /\ UNCHANGED <<pages, index, walVars, txnVars, stmt, status, diskVars, uncommitted,
                       starts, historyVars>>
    BY <1>1 DEF RecoverOneRecord
  <2>3. i \in DOMAIN uncommitted /\ uncommitted[i] \in WalRecord
    BY DEF DInv, DTypeOK
  <2>6. slots \in [Rids -> Slot]
    BY DEF DInv, DTypeOK, TypeOK, StorageOK
  <2>7. slots' \in [Rids -> Slot]
    <3>1. CASE uncommitted[i].rid = 0
      BY <3>1, <2>1, <2>6 DEF RecoveredSlots
    <3>2. CASE uncommitted[i].rid # 0
      <4>1. uncommitted[i].type \in ChangeTypes /\ HasImage(uncommitted[i])
        BY <3>2, <2>3 DEF DInv, ImagesKept
      <4>2. uncommitted[i].rid \in Rids /\ uncommitted[i].before \in Row \cup {NoRow}
        BY <2>3, <3>2 DEF WalRecord
      <4>3. slots' = UndoneSlots(uncommitted[i])
        BY <3>2, <2>1 DEF RecoveredSlots
      <4>4. QED
        BY <2>6, <4>1, <4>2, <4>3, UndoneSlotsType
    <3>3. QED
      BY <3>1, <3>2
  <2>8. TypeOK'
    BY <2>2, <2>7
    DEF DInv, DTypeOK, TypeOK, StorageOK, WalOK, TxnOK, StmtOK, walVars, txnVars
  <2>9. DTypeOK'
    BY <2>1, <2>2, <2>8 DEF DInv, DTypeOK, walVars, diskVars, historyVars
  <2>10. QED
    BY <2>1, <2>2, <2>9, DiskStepKeeps DEF diskVars
<1>2. CASE EngineReady
  <2>1. /\ status = "recovering" /\ undo = {} /\ status' = "open"
        /\ uncommitted' = << >>
        /\ UNCHANGED <<vars, diskVars, undo, starts, historyVars>>
    BY <1>2 DEF EngineReady
  <2>2. TypeOK'
    BY <2>1
    DEF DInv, DTypeOK, TypeOK, StorageOK, WalOK, TxnOK, StmtOK, vars, storageVars, walVars,
        txnVars
  <2>3. DTypeOK'
    <3>1. /\ DOMAIN uncommitted' = {} /\ uncommitted' \in [DOMAIN uncommitted' -> WalRecord]
          /\ undo' = {}
      BY <2>1
    <3>2. QED
      BY <3>1, <2>1, <2>2 DEF DInv, DTypeOK, vars, walVars, diskVars, historyVars
  <2>4. QED
    BY <2>1, <2>3, DiskStepKeeps DEF vars, diskVars
<1>3. QED
  BY <1>1, <1>2

-----------------------------------------------------------------------------
(* The invariant, and what follows from it.                                *)

LEMMA DurabilityInit == DInit => DInv
<1> SUFFICES ASSUME DInit PROVE DInv
  OBVIOUS
<1>1. TypeOK
  BY TypeInit DEF DInit
<1>2. /\ log = << >> /\ Len(log) = 0 /\ changes = << >> /\ Len(changes) = 0
      /\ flushed = 0 /\ nextLsn = 1 /\ activeTxn = 0 /\ hist = << >> /\ stmt = Idle
      /\ status = "open" /\ undo = {} /\ uncommitted = << >> /\ cuts = << >> /\ starts = 1
  BY DEF DInit, Init
<1>3. EmptyHeap \in [Rids -> Slot] /\ EmptyIndex(Keys) \in [Keys -> Seq(Rids)]
  BY HeapAssumption, EmptySeq DEF EmptyHeap, FreeSlot, Slot, Row, EmptyIndex
<1>4. DTypeOK
  <2>1. View(EmptyHeap) \in [Rids -> Row \cup {NoRow}]
    BY <1>3 DEF View, Live, Slot
  <2>2. /\ exit \in [how : {"none", "clean", "crash"}, rows : [Rids -> Row \cup {NoRow}]]
        /\ past \in [Rids -> SUBSET (Row \cup {NoRow})] /\ lossless \in BOOLEAN
    BY <2>1 DEF DInit
  <2>3. dslots \in [Rids -> Slot] /\ dindex \in [Keys -> Seq(Rids)]
    BY <1>3 DEF DInit
  <2>4. starts \in 1..MaxStarts
    BY <1>2, DurabilityAssumption
  <2>5. /\ DOMAIN cuts = {} /\ cuts \in [DOMAIN cuts -> CutParts]
        /\ DOMAIN uncommitted = {} /\ uncommitted \in [DOMAIN uncommitted -> WalRecord]
    BY <1>2
  <2>6. QED
    BY <1>1, <1>2, <2>2, <2>3, <2>4, <2>5 DEF DTypeOK
<1>5. TransactionShape /\ NoNullAssigned /\ ImagesKept /\ LogShape /\ RecoveryShape
  <2>1. DOMAIN cuts = {} /\ DOMAIN uncommitted = {}
    BY <1>2
  <2>2. QED
    BY <2>1, <1>2
    DEF TransactionShape, NoNullAssigned, ImagesKept, LogShape, RecoveryShape, Idle
<1>6. QED
  BY <1>4, <1>5 DEF DInv

LEMMA UnchangedStepKeeps ==
  ASSUME DInv, UNCHANGED dvars
  PROVE  DInv'
<1>1. /\ UNCHANGED <<storageVars, walVars, txnVars, stmt, diskVars, historyVars>>
      /\ UNCHANGED <<status, uncommitted, undo, starts>>
  BY DEF dvars, vars, recoverVars
<1>2. TypeOK'
  BY <1>1
  DEF DInv, DTypeOK, TypeOK, StorageOK, WalOK, TxnOK, StmtOK, storageVars, walVars, txnVars
<1>3. DTypeOK'
  BY <1>1, <1>2 DEF DInv, DTypeOK, walVars, diskVars, historyVars
<1>4. TransactionShape' /\ NoNullAssigned' /\ ImagesKept' /\ LogShape'
  BY <1>1
  DEF DInv, TransactionShape, NoNullAssigned, ImagesKept, LogShape, walVars, txnVars, diskVars
<1>5. RecoveryShape'
  BY <1>1
  DEF DInv, RecoveryShape, walVars, diskVars, Whole, ToUndo, Unfinished, WithCommit
<1>6. QED
  BY <1>3, <1>4, <1>5 DEF DInv

LEMMA DurabilityStep == DInv /\ [DNext]_dvars => DInv'
<1> SUFFICES ASSUME DInv, [DNext]_dvars PROVE DInv'
  OBVIOUS
<1>1. CASE SessionStep
  BY <1>1, SessionStepKeeps
<1>2. CASE EvictIndex \/ \E page \in 1..MaxPages : EvictPage(page)
  BY <1>2, EvictionKeeps
<1>3. CASE Shutdown
  BY <1>3, ShutdownKeeps
<1>4. CASE Crash
  BY <1>4, CrashKeeps
<1>9. CASE CrashInRecord
  BY <1>9, CrashInRecordKeeps
<1>5. CASE Start
  BY <1>5, StartKeeps
<1>6. CASE RecoverOneRecord \/ EngineReady
  BY <1>6, RecoveryKeeps
<1>7. CASE UNCHANGED dvars
  BY <1>7, UnchangedStepKeeps
<1>8. QED
  BY <1>1, <1>2, <1>3, <1>4, <1>5, <1>6, <1>7, <1>9 DEF DNext

\* What every reachable state satisfies, over any number of crashes and starts
\* and in the middle of any recovery.
THEOREM DurabilityInvariantHolds == DSpec => []DInv
<1>1. QED
  BY DurabilityInit, DurabilityStep, PTL DEF DSpec

\* Files, log and memory stay in their types: no update writes the NULL that
\* its first phase refused, and what ROLLBACK or a recovery writes back is a row.
THEOREM DurabilityTypeCorrect == DSpec => []DTypeOK
<1>1. DInv => DTypeOK
  BY DEF DInv
<1>2. QED
  BY <1>1, DurabilityInvariantHolds, PTL

\* Up to the first record that a crash has cut, the records are numbered 1, 2,
\* 3, ...: however often the process crashed and unforced records were lost, the
\* next process went on with the number that followed.
THEOREM LsnsAlwaysDense == DSpec => []LsnsDense
<1>1. DInv => LsnsDense
  <2> SUFFICES ASSUME DInv PROVE LsnsDense
    OBVIOUS
  <2>1. DOMAIN log = 1..Len(log) /\ LogShape
    BY DEF DInv, DTypeOK, TypeOK, WalOK
  <2>2. QED
    BY <2>1 DEF LogShape, LsnsDense
<1>2. QED
  BY <1>1, DurabilityInvariantHolds, PTL

-----------------------------------------------------------------------------
(* The changes to be undone, as the log grows.                             *)

LEMMA ToUndoMembers ==
  ASSUME NEW recs \in Seq(WalRecord)
  PROVE  ToUndo(recs) =
           {i \in 1..Len(recs) :
              /\ recs[i].type \in ChangeTypes
              /\ \A j \in 1..Len(recs) : recs[j].type = "Commit" => recs[j].txn # recs[i].txn}
<1>1. DOMAIN recs = 1..Len(recs) /\ Range(recs) = {recs[i] : i \in 1..Len(recs)}
  BY DEF Range
<1>2. ASSUME NEW t
      PROVE  t \in WithCommit(recs) <=>
               \E j \in 1..Len(recs) : recs[j].type = "Commit" /\ recs[j].txn = t
  BY <1>1 DEF WithCommit
<1>3. ASSUME NEW i \in 1..Len(recs), recs[i].type \in ChangeTypes
      PROVE  recs[i].txn \in Unfinished(recs) <=> recs[i].txn \notin WithCommit(recs)
  BY <1>1, <1>3 DEF Unfinished
<1>4. QED
  BY <1>1, <1>2, <1>3 DEF ToUndo

\* A record is added: a change of a transaction that is open, a Commit, or
\* another record.
LEMMA ToUndoAppend ==
  ASSUME NEW recs \in Seq(WalRecord), NEW rec \in WalRecord
  PROVE  /\ Append(recs, rec) \in Seq(WalRecord)
         /\ Len(Append(recs, rec)) = Len(recs) + 1 /\ Len(recs) \in Nat
         /\ Append(recs, rec)[Len(recs) + 1] = rec
         /\ \A i \in 1..Len(recs) : Append(recs, rec)[i] = recs[i]
         /\ rec.type \notin ChangeTypes \cup {"Commit"} =>
              ToUndo(Append(recs, rec)) = ToUndo(recs)
         /\ /\ rec.type \in ChangeTypes
            /\ \A i \in 1..Len(recs) : recs[i].type = "Commit" => recs[i].txn # rec.txn
            => ToUndo(Append(recs, rec)) = ToUndo(recs) \cup {Len(recs) + 1}
         /\ rec.type = "Commit" =>
              ToUndo(Append(recs, rec)) = {i \in ToUndo(recs) : recs[i].txn # rec.txn}
<1> DEFINE more == Append(recs, rec)
           n == Len(recs)
<1>1. /\ more \in Seq(WalRecord) /\ n \in Nat /\ Len(more) = n + 1 /\ more[n + 1] = rec
      /\ \A i \in 1..n : more[i] = recs[i]
  BY AppendProperties
<1>2. ToUndo(more) = {i \in 1..Len(more) :
              /\ more[i].type \in ChangeTypes
              /\ \A j \in 1..Len(more) : more[j].type = "Commit" => more[j].txn # more[i].txn}
  BY <1>1, ToUndoMembers
<1>3. ToUndo(recs) = {i \in 1..n :
              /\ recs[i].type \in ChangeTypes
              /\ \A j \in 1..n : recs[j].type = "Commit" => recs[j].txn # recs[i].txn}
  BY ToUndoMembers
<1> HIDE DEF more, n
<1>4. 1..(n + 1) = (1..n) \cup {n + 1} /\ n + 1 \notin 1..n
  BY <1>1
<1>5. "Commit" \notin ChangeTypes
  BY DEF ChangeTypes
<1>6. CASE rec.type \notin ChangeTypes \cup {"Commit"}
  <2>1. ToUndo(more) = ToUndo(recs)
    BY <1>1, <1>2, <1>3, <1>4, <1>6
  <2>2. QED
    BY <2>1, <1>1, <1>5, <1>6 DEF more, n
<1>7. CASE rec.type \in ChangeTypes
  <2>1. rec.type # "Commit"
    BY <1>5, <1>7
  <2>2. ASSUME \A i \in 1..n : recs[i].type = "Commit" => recs[i].txn # rec.txn
        PROVE  ToUndo(more) = ToUndo(recs) \cup {n + 1}
    BY <2>1, <2>2, <1>1, <1>2, <1>3, <1>4, <1>7, SMTT(30)
  <2>3. QED
    BY <2>1, <2>2, <1>1, <1>7 DEF more, n
<1>8. CASE rec.type = "Commit"
  <2>1. ToUndo(more) = {i \in ToUndo(recs) : recs[i].txn # rec.txn}
    BY <1>1, <1>2, <1>3, <1>4, <1>5, <1>8
  <2>2. QED
    BY <2>1, <1>1, <1>5, <1>8 DEF more, n
<1>9. QED
  BY <1>6, <1>7, <1>8

-----------------------------------------------------------------------------
(* The steps of a session, by what they do to its transaction.             *)

Quiet ==
  /\ UNCHANGED <<storageVars, walVars, txnVars>>
  /\ stmt.kind = "rollback" => stmt'.kind = "rollback"

Begins ==
  /\ activeTxn = 0 /\ stmt'.kind # "rollback"
  /\ \E byUser \in BOOLEAN : BeginTxn(byUser)
  /\ UNCHANGED storageVars

Changed(type, rid, before) ==
  /\ activeTxn # 0 /\ stmt.kind # "rollback" /\ stmt'.kind # "rollback"
  /\ RecordChange(type, rid, before)
  /\ slots'[rid].used /\ \A r \in Rids \ {rid} : slots'[r] = slots[r]
  /\ type = "Insert" => ~slots[rid].used /\ before = NoRow
  /\ type # "Insert" => Live(slots[rid]) /\ before = slots[rid].row
  /\ type # "Delete" => ~slots'[rid].dead
  /\ type = "Delete" => slots'[rid].dead /\ slots'[rid].row = before

Changes ==
  \E type \in ChangeTypes, rid \in Rids, before \in Row \cup {NoRow} : Changed(type, rid, before)

CommitEnds ==
  /\ activeTxn # 0 /\ stmt.kind # "rollback" /\ stmt'.kind = "idle"
  /\ CommitTxn /\ UNCHANGED storageVars

LEMMA InsertChanges ==
  ASSUME TypeOK, TransactionShape, InsertOneRow
  PROVE  Changes
<1> DEFINE row == Head(stmt.rows)
<1>1. stmt.rows \in Seq(InputRow) /\ stmt.rows # << >> /\ stmt.kind = "insert"
  BY DEF TypeOK, StmtOK, Statement, InsertOneRow
<1>2. row \in InputRow /\ InsertAllowed(row)
  BY <1>1 DEF InsertOneRow
<1>3. row \in Row
  BY <1>2 DEF InputRow, InsertAllowed, Row
<1> HIDE DEF row
<1>4. PICK rid \in Rids :
        /\ NextSlot(slots, pages, rid) /\ slots' = InsertRow(slots, rid, row)
        /\ RecordChange("Insert", rid, NoRow)
  BY DEF InsertOneRow, row
<1>5. ~slots[rid].used
  BY <1>4, PageWithSpaceBound DEF TypeOK, StorageOK
<1>6. slots \in [Rids -> Slot]
  BY DEF TypeOK, StorageOK
<1>7. /\ slots'[rid] = [used |-> TRUE, dead |-> FALSE, row |-> row]
      /\ \A r \in Rids \ {rid} : slots'[r] = slots[r]
  BY <1>4, <1>6 DEF InsertRow
<1>8. activeTxn # 0 /\ stmt'.kind # "rollback"
  <2>1. stmt' = [stmt EXCEPT !.rows = Tail(@)] /\ stmt \in Statement
    BY DEF InsertOneRow, TypeOK, StmtOK
  <2>2. stmt'.kind = stmt.kind
    BY <2>1 DEF Statement
  <2>3. QED
    BY <2>2, <1>1 DEF TransactionShape
<1>9. Changed("Insert", rid, NoRow)
  BY <1>1, <1>4, <1>5, <1>7, <1>8 DEF Changed
<1>10. QED
  BY <1>9 DEF Changes, ChangeTypes

LEMMA UpdateChanges ==
  ASSUME TypeOK, TransactionShape, StatementValid, NEW rid \in Rids, UpdateOneRow(rid)
  PROVE  Changes
<1> DEFINE old == slots[rid].row
           new == NewRow(old, stmt.set)
<1>1. /\ stmt.kind = "update" /\ rid \in stmt.rids /\ slots' = UpdateRow(slots, rid, new)
      /\ RecordChange("Update", rid, old) /\ stmt' = [stmt EXCEPT !.rids = @ \ {rid}]
  BY DEF UpdateOneRow, IsNext
<1>2. Live(slots[rid])
  BY <1>1 DEF StatementValid
<1>3. slots \in [Rids -> Slot] /\ slots[rid].row \in Row
  BY DEF TypeOK, StorageOK, Slot
<1>4. /\ slots'[rid] = [used |-> slots[rid].used, dead |-> FALSE, row |-> new]
      /\ \A r \in Rids \ {rid} : slots'[r] = slots[r]
  BY <1>1, <1>3 DEF UpdateRow
<1>5. activeTxn # 0 /\ stmt'.kind = "update"
  BY <1>1 DEF TransactionShape, TypeOK, StmtOK, Statement
<1>6. Changed("Update", rid, old)
  BY <1>1, <1>2, <1>4, <1>5 DEF Changed, Live
<1>7. QED
  BY <1>3, <1>6 DEF Changes, ChangeTypes

LEMMA DeleteChanges ==
  ASSUME TypeOK, TransactionShape, StatementValid, NEW rid \in Rids, DeleteOneRow(rid)
  PROVE  Changes
<1> DEFINE old == slots[rid].row
<1>1. /\ stmt.kind = "delete" /\ rid \in stmt.rids /\ slots' = DeleteRow(slots, rid)
      /\ RecordChange("Delete", rid, old) /\ stmt' = [stmt EXCEPT !.rids = @ \ {rid}]
  BY DEF DeleteOneRow, IsNext
<1>2. Live(slots[rid])
  BY <1>1 DEF StatementValid
<1>3. slots \in [Rids -> Slot] /\ slots[rid].row \in Row
  BY DEF TypeOK, StorageOK, Slot
<1>4. /\ slots'[rid] = [used |-> slots[rid].used, dead |-> TRUE, row |-> old]
      /\ \A r \in Rids \ {rid} : slots'[r] = slots[r]
  BY <1>1, <1>3 DEF DeleteRow
<1>5. activeTxn # 0 /\ stmt'.kind = "delete"
  BY <1>1 DEF TransactionShape, TypeOK, StmtOK, Statement
<1>6. Changed("Delete", rid, old)
  BY <1>1, <1>2, <1>4, <1>5 DEF Changed, Live
<1>7. QED
  BY <1>3, <1>6 DEF Changes, ChangeTypes

LEMMA DataStatementKind ==
  ASSUME TransactionShape, DataStatement
  PROVE  Quiet \/ Begins
<1>1. StatementStarts /\ stmt'.kind # "rollback" /\ stmt.kind = "idle"
  BY DEF DataStatement, InsertStatement, UpdateStatement, DeleteStatement,
         Running, Idle, StatementStarts
<1>2. CASE activeTxn = 0
  BY <1>1, <1>2 DEF StatementStarts, GetOrBeginTxn, Begins
<1>3. CASE activeTxn # 0
  BY <1>1, <1>3 DEF StatementStarts, GetOrBeginTxn, Quiet
<1>4. QED
  BY <1>2, <1>3

LEMMA StepKinds ==
  ASSUME TypeOK, TransactionShape, StatementValid, Next
  PROVE  Quiet \/ Begins \/ Changes \/ CommitEnds \/ UndoOneChange \/ FinishRollback
<1>1. CASE DataStatement
  BY <1>1, DataStatementKind
<1>2. CASE RowStep
  <2>1. CASE InsertRejected
    BY <2>1 DEF InsertRejected, Rejected, Quiet, Idle
  <2>2. CASE InsertOneRow
    BY <2>2, InsertChanges
  <2>3. CASE \E rid \in Rids : UpdateOneRow(rid)
    BY <2>3, UpdateChanges
  <2>4. CASE \E rid \in Rids : DeleteOneRow(rid)
    BY <2>4, DeleteChanges
  <2>5. CASE FinishStatement
    <3>1. /\ stmt.kind # "rollback" /\ activeTxn # 0 /\ stmt' = Idle /\ UNCHANGED storageVars
          /\ CommitTxn \/ UNCHANGED <<walVars, txnVars>>
      BY <2>5 DEF FinishStatement, TransactionShape
    <3>2. QED
      BY <3>1 DEF CommitEnds, Quiet, Idle
  <2>6. QED
    BY <1>2, <2>1, <2>2, <2>3, <2>4, <2>5 DEF RowStep
<1>3. CASE TxnControl
  <2>1. CASE BeginStatement
    BY <2>1 DEF BeginStatement, Begins
  <2>2. CASE CommitStatement
    BY <2>2 DEF CommitStatement, CommitEnds
  <2>3. CASE ControlRefused
    BY <2>3 DEF ControlRefused, vars, Quiet
  <2>4. CASE RollbackStatement
    BY <2>4 DEF RollbackStatement, Running, Quiet
  <2>5. QED
    BY <1>3, <2>1, <2>2, <2>3, <2>4 DEF TxnControl
<1>4. QED
  BY <1>1, <1>2, <1>3 DEF Next

-----------------------------------------------------------------------------
(* What each of them does to the log and to the changes to be undone.      *)

\* A record with a number of the open transaction is added.
Grows(type, txn, rid, before) ==
  /\ log' \in Seq(WalRecord) /\ Len(log) \in Nat /\ Len(log') = Len(log) + 1
  /\ \A i \in 1..Len(log) : log'[i] = log[i]
  /\ LET rec == log'[Len(log) + 1] IN
       rec.type = type /\ rec.txn = txn /\ rec.rid = rid /\ rec.before = before
  /\ type \in {"Begin", "Rollback"} => ToUndo(log') = ToUndo(log)
  /\ /\ type \in ChangeTypes
     /\ \A i \in 1..Len(log) : log[i].type = "Commit" => log[i].txn # txn
     => ToUndo(log') = ToUndo(log) \cup {Len(log) + 1}
  /\ type = "Commit" => ToUndo(log') = {i \in ToUndo(log) : log[i].txn # txn}

LEMMA LogGrows ==
  ASSUME TypeOK, NEW type \in WalTypes, NEW txn \in Nat, NEW rid \in Rids \cup {0},
         NEW before \in Row \cup {NoRow}, LogWrite(type, txn, rid, before)
  PROVE  Grows(type, txn, rid, before)
<1> DEFINE rec == [lsn |-> nextLsn, txn |-> txn, type |-> type, rid |-> rid, before |-> before]
<1>1. log \in Seq(WalRecord) /\ rec \in WalRecord /\ log' = Append(log, rec)
  BY DEF TypeOK, WalOK, WalRecord, LogWrite
<1>2. rec.type = type /\ rec.txn = txn /\ rec.rid = rid /\ rec.before = before
  OBVIOUS
<1>3. type \in {"Begin", "Rollback"} => type \notin ChangeTypes \cup {"Commit"}
  BY DEF ChangeTypes
<1> HIDE DEF rec
<1>4. /\ log' \in Seq(WalRecord) /\ Len(log') = Len(log) + 1 /\ Len(log) \in Nat
      /\ log'[Len(log) + 1] = rec /\ \A i \in 1..Len(log) : log'[i] = log[i]
  BY <1>1, AppendProperties
<1>5. /\ type \in {"Begin", "Rollback"} => ToUndo(log') = ToUndo(log)
      /\ /\ type \in ChangeTypes
         /\ \A i \in 1..Len(log) : log[i].type = "Commit" => log[i].txn # txn
         => ToUndo(log') = ToUndo(log) \cup {Len(log) + 1}
      /\ type = "Commit" => ToUndo(log') = {i \in ToUndo(log) : log[i].txn # txn}
  BY <1>1, <1>2, <1>3, ToUndoAppend
<1>6. QED
  BY <1>2, <1>4, <1>5 DEF Grows

LEMMA ToUndoInLog ==
  ASSUME TypeOK
  PROVE  /\ ToUndo(log) \subseteq 1..Len(log) /\ Len(log) \in Nat
         /\ \A i \in 1..Len(log) : log[i] \in WalRecord
         /\ \A i \in ToUndo(log) : log[i].type \in ChangeTypes
<1>1. log \in Seq(WalRecord)
  BY DEF TypeOK, WalOK
<1>2. QED
  BY <1>1, ToUndoMembers, ElementOfSeq

-----------------------------------------------------------------------------
(* The steps of the session that has the transactions keep track of every  *)
(* row.                                                                     *)

Tracked == TxnsNumbered /\ RowsTraced /\ ImagesTraced /\ InsertsFirst /\ SlotsTraced

Session ==
  /\ DInv /\ IInv /\ AtWork /\ LogBegins /\ \A r \in Rids : NoRow \in past[r]
  /\ status' = "open" /\ dslots' = dslots
  /\ \A r \in Rids : past[r] \subseteq past'[r]

LEMMA SessionFacts ==
  ASSUME Session
  PROVE  /\ TypeOK /\ TransactionShape /\ slots \in [Rids -> Slot] /\ dslots \in [Rids -> Slot]
         /\ nextTxnId \in Nat \ {0} /\ activeTxn \in Nat /\ status = "open"
         /\ ToUndo(log) \subseteq 1..Len(log) /\ Len(log) \in Nat
         /\ \A i \in 1..Len(log) :
              /\ log[i].txn \in Nat /\ log[i].rid \in Rids \cup {0}
              /\ log[i].type \in ChangeTypes => log[i].rid \in Rids
         /\ \A i \in ToUndo(log) : log[i].type \in ChangeTypes
         /\ activeTxn # 0 => log # << >> /\ Len(log) > 0
<1>1. /\ TypeOK /\ TransactionShape /\ ImagesKept /\ dslots \in [Rids -> Slot] /\ status = "open"
  BY DEF Session, DInv, DTypeOK, AtWork
<1>2. /\ ToUndo(log) \subseteq 1..Len(log) /\ Len(log) \in Nat
      /\ \A i \in 1..Len(log) : log[i] \in WalRecord
      /\ \A i \in ToUndo(log) : log[i].type \in ChangeTypes
  BY <1>1, ToUndoInLog
<1>3. \A i \in 1..Len(log) : log[i].type \in ChangeTypes => log[i].rid # 0
  BY <1>1 DEF ImagesKept
<1>4. activeTxn # 0 => log # << >> /\ Len(log) > 0
  <2>1. activeTxn # 0 => log # << >>
    BY DEF Session, LogBegins
  <2>2. log \in Seq(WalRecord)
    BY <1>1 DEF TypeOK, WalOK
  <2>3. QED
    BY <2>1, <2>2, <1>2, EmptySeq
<1>5. slots \in [Rids -> Slot] /\ nextTxnId \in Nat \ {0} /\ activeTxn \in Nat
  BY <1>1 DEF TypeOK, StorageOK, TxnOK
<1>6. \A i \in 1..Len(log) : log[i].txn \in Nat /\ log[i].rid \in Rids \cup {0}
  BY <1>2 DEF WalRecord
<1>7. QED
  BY <1>1, <1>2, <1>3, <1>4, <1>5, <1>6

LEMMA BeginsTracked ==
  ASSUME Session, Tracked, Begins, past' = past
  PROVE  Tracked' /\ nextTxnId' > 1
<1> DEFINE n == Len(log)
           T == ToUndo(log)
<1>1. PICK byUser \in BOOLEAN : BeginTxn(byUser)
  BY DEF Begins
<1>2. /\ activeTxn' = nextTxnId /\ nextTxnId' = nextTxnId + 1 /\ changes' = << >>
      /\ hist' = <<Snapshot(slots, index)>> /\ LogWrite("Begin", nextTxnId, 0, NoRow)
      /\ activeTxn = 0 /\ stmt'.kind # "rollback" /\ slots' = slots
  BY <1>1 DEF BeginTxn, LogControl, Begins, storageVars
<1>3. /\ nextTxnId \in Nat \ {0} /\ T \subseteq 1..n /\ n \in Nat
      /\ \A i \in 1..n : log[i].txn \in Nat
      /\ AtWork /\ dslots' = dslots
  BY SessionFacts DEF Session
<1>4. Grows("Begin", nextTxnId, 0, NoRow)
  BY <1>2, <1>3, SessionFacts, LogGrows DEF WalTypes
<1>5. /\ Len(log') = n + 1 /\ \A i \in 1..n : log'[i] = log[i]
      /\ log'[n + 1].type = "Begin" /\ log'[n + 1].txn = nextTxnId /\ ToUndo(log') = T
  BY <1>4 DEF Grows
<1>6. \A i \in 1..n : log[i].txn > 0 /\ log[i].txn < nextTxnId
  BY <1>3 DEF Tracked, TxnsNumbered
<1>7. /\ Len(hist') = 1 /\ hist'[1].view = View(slots)
  BY <1>2, SnapshotFields
<1> HIDE DEF n, T
<1>8. \A i \in 1..(n + 1) : i \in 1..n \/ i = n + 1
  BY <1>3
<1>9. nextTxnId' > 1 /\ AtWork'
  BY <1>2, <1>3 DEF AtWork, Session
<1>10. TxnsNumbered'
  <2>1. \A i \in 1..Len(log') : log'[i].txn > 0 /\ log'[i].txn < nextTxnId'
    BY <1>2, <1>3, <1>5, <1>6, <1>8
  <2>2. activeTxn' < nextTxnId'
    BY <1>2, <1>3
  <2>3. \A i \in 1..Len(log') : log'[i].type = "Commit" => log'[i].txn # activeTxn'
    BY <1>2, <1>3, <1>5, <1>6, <1>8
  <2>4. Len(changes') = 0
    BY <1>2
  <2>5. QED
    BY <2>1, <2>2, <2>3, <2>4 DEF TxnsNumbered
<1>11. RowsTraced'
  <2>1. \A r \in Rids : View(slots)[r] \in past[r]
    BY <1>2, <1>3 DEF Tracked, RowsTraced
  <2>2. \A r \in Rids : View(slots)[r] # NoRow => slots[r].used
    BY DEF View, Live
  <2>3. QED
    BY <1>2, <1>3, <1>7, <2>1, <2>2 DEF RowsTraced
<1>12. ImagesTraced'
  BY <1>3, <1>5 DEF Tracked, ImagesTraced, Wrote, T
<1>13. InsertsFirst'
  BY <1>2, <1>3, <1>5, <1>6 DEF Tracked, InsertsFirst, T
<1>14. SlotsTraced'
  BY <1>2, <1>3, <1>5, <1>6 DEF Tracked, SlotsTraced, Traced, Wrote, T
<1>15. QED
  BY <1>9, <1>10, <1>11, <1>12, <1>13, <1>14 DEF Tracked

LEMMA ChangeTracked ==
  ASSUME Session, Tracked, NEW type \in ChangeTypes, NEW rid \in Rids,
         NEW before \in Row \cup {NoRow}, Changed(type, rid, before), past' = past
  PROVE  Tracked' /\ nextTxnId' > 1
<1> DEFINE n == Len(log)
           T == ToUndo(log)
           A == activeTxn
           h == Len(hist)
<1>1. /\ activeTxn # 0 /\ stmt.kind # "rollback" /\ stmt'.kind # "rollback"
      /\ slots'[rid].used /\ \A r \in Rids \ {rid} : slots'[r] = slots[r]
      /\ type = "Insert" => ~slots[rid].used /\ before = NoRow
      /\ type # "Insert" => Live(slots[rid]) /\ before = slots[rid].row
      /\ type # "Delete" => ~slots'[rid].dead
      /\ type = "Delete" => slots'[rid].dead /\ slots'[rid].row = before
      /\ LogWrite(type, A, rid, before)
      /\ changes' = Append(changes, [type |-> type, rid |-> rid, before |-> before])
      /\ hist' = Append(hist, Snapshot(slots', index'))
      /\ activeTxn' = A /\ nextTxnId' = nextTxnId
  BY DEF Changed, RecordChange
<1>2. /\ nextTxnId \in Nat \ {0} /\ T \subseteq 1..n /\ n \in Nat /\ A \in Nat
      /\ \A i \in 1..n : log[i].txn \in Nat /\ (log[i].type \in ChangeTypes => log[i].rid \in Rids)
      /\ \A i \in T : log[i].type \in ChangeTypes
      /\ AtWork /\ dslots' = dslots /\ slots \in [Rids -> Slot]
      /\ \A r \in Rids : NoRow \in past[r]
  BY SessionFacts DEF Session
<1>3. Grows(type, A, rid, before)
  BY <1>1, <1>2, SessionFacts, LogGrows DEF WalTypes
<1>4. \A i \in 1..n : log[i].type = "Commit" => log[i].txn # A
  BY <1>1 DEF Tracked, TxnsNumbered
<1>5. /\ Len(log') = n + 1 /\ \A i \in 1..n : log'[i] = log[i]
      /\ log'[n + 1].type = type /\ log'[n + 1].txn = A /\ log'[n + 1].rid = rid
      /\ log'[n + 1].before = before /\ ToUndo(log') = T \cup {n + 1}
  BY <1>3, <1>4 DEF Grows
<1>6. /\ h \in Nat \ {0} /\ Len(hist') = h + 1 /\ hist'[h + 1].view = View(slots')
      /\ \A k \in 1..h : hist'[k] = hist[k]
      /\ hist[h].view = View(slots)
  <2>1. /\ hist \in Seq([view : Views, index : Indexes]) /\ changes \in Seq(Change)
        /\ h = Len(changes) + 1 /\ hist[h] = Snapshot(slots, index)
    BY <1>1 DEF Session, IInv, TypeOK, TxnOK, HistoryShape, Views, Indexes
  <2>2. Len(changes) \in Nat
    BY <2>1
  <2>3. Snapshot(slots', index').view = View(slots') /\ Snapshot(slots, index).view = View(slots)
    BY SnapshotFields
  <2>4. /\ Len(hist') = h + 1 /\ hist'[h + 1] = Snapshot(slots', index')
        /\ \A k \in 1..h : hist'[k] = hist[k]
    BY <1>1, <2>1, AppendProperties
  <2>5. QED
    BY <2>1, <2>2, <2>3, <2>4
<1>7. /\ Len(changes') = Len(changes) + 1 /\ Len(changes) \in Nat
      /\ \A k \in 1..Len(changes) : changes'[k] = changes[k]
      /\ changes'[Len(changes) + 1].type = type /\ changes'[Len(changes) + 1].rid = rid
  <2>1. changes \in Seq(Change) /\ [type |-> type, rid |-> rid, before |-> before] \in Change
    BY DEF Session, IInv, TypeOK, TxnOK, Change
  <2>2. QED
    BY <1>1, <2>1, AppendProperties
<1>8. /\ \A r \in Rids \ {rid} : View(slots')[r] = View(slots)[r]
      /\ View(slots')[rid] = IF type = "Delete" THEN NoRow ELSE slots'[rid].row
      /\ type # "Insert" => View(slots)[rid] = before
      /\ type = "Delete" => slots'[rid].row = slots[rid].row
  BY <1>1 DEF View, Live
<1>9. \A r \in Rids : slots[r].used => slots'[r].used
  BY <1>1
<1>10. A < nextTxnId /\ nextTxnId' > 1 /\ AtWork'
  <2>1. A < nextTxnId
    BY <1>1 DEF Tracked, TxnsNumbered
  <2>2. QED
    BY <2>1, <1>1, <1>2 DEF AtWork, Session
<1> HIDE DEF n, T, h
<1>11. \A i \in 1..(n + 1) : i \in 1..n \/ i = n + 1
  BY <1>2
<1>12. /\ \A k \in 1..(h + 1) : k \in 1..h \/ k = h + 1
       /\ 1 \in 1..h /\ h \in 1..h
  BY <1>6
<1>13. TxnsNumbered'
  <2>1. \A i \in 1..Len(log') : log'[i].txn > 0 /\ log'[i].txn < nextTxnId'
    <3>1. \A i \in 1..n : log[i].txn > 0 /\ log[i].txn < nextTxnId
      BY <1>2 DEF Tracked, TxnsNumbered, n
    <3>2. QED
      BY <1>1, <1>2, <1>5, <1>10, <1>11, <3>1
  <2>2. \A i \in 1..Len(log') : log'[i].type = "Commit" => log'[i].txn # activeTxn'
    BY <1>1, <1>4, <1>5, <1>11 DEF ChangeTypes, n
  <2>3. ASSUME NEW k \in 1..Len(changes')
        PROVE  \E i \in ToUndo(log') : log'[i].txn = activeTxn' /\ log'[i].type = changes'[k].type
                                         /\ log'[i].rid = changes'[k].rid
    <3>1. CASE k \in 1..Len(changes)
      <4>1. PICK i \in T : log[i].txn = A /\ log[i].type = changes[k].type
                            /\ log[i].rid = changes[k].rid
        BY <3>1 DEF Tracked, TxnsNumbered, T
      <4>2. i \in ToUndo(log') /\ log'[i] = log[i] /\ changes'[k] = changes[k]
        BY <3>1, <1>2, <1>5, <1>7
      <4>3. QED
        BY <4>1, <4>2, <1>1
    <3>2. CASE k = Len(changes) + 1
      BY <3>2, <1>1, <1>5, <1>7
    <3>3. QED
      BY <3>1, <3>2, <1>7
  <2>4. QED
    BY <2>1, <2>2, <2>3, <1>1, <1>10 DEF TxnsNumbered
<1>14. ASSUME NEW r \in Rids
       PROVE  /\ hist[1].view[r] \in past[r]
              /\ \A k \in 1..h :
                   /\ \/ hist[k].view[r] \in past[r]
                      \/ \E i \in T : log[i].txn = A /\ Wrote(log[i], r)
                   /\ hist[k].view[r] # NoRow => slots[r].used
  BY <1>1 DEF Tracked, RowsTraced, T, h
<1>15. \A i \in T : i \in 1..n /\ i < n + 1 /\ log'[i] = log[i]
  <2>1. \A i \in 1..n : i < n + 1
    BY <1>2
  <2>2. QED
    BY <2>1, <1>2, <1>5
<1>16. type # "Delete" => Wrote(log'[n + 1], rid)
  BY <1>5 DEF Wrote
<1>17. RowsTraced'
  <2>1. ASSUME NEW r \in Rids
        PROVE  hist'[1].view[r] \in past'[r]
    BY <1>6, <1>12, <1>14
  <2>2. ASSUME NEW r \in Rids, NEW k \in 1..h
        PROVE  /\ \/ hist'[k].view[r] \in past'[r]
                  \/ \E i \in ToUndo(log') : log'[i].txn = activeTxn' /\ Wrote(log'[i], r)
               /\ hist'[k].view[r] # NoRow => slots'[r].used
    BY <1>1, <1>5, <1>6, <1>9, <1>14, <1>15, SMTT(20)
  <2>3. ASSUME NEW r \in Rids
        PROVE  /\ \/ hist'[h + 1].view[r] \in past'[r]
                  \/ \E i \in ToUndo(log') : log'[i].txn = activeTxn' /\ Wrote(log'[i], r)
               /\ hist'[h + 1].view[r] # NoRow => slots'[r].used
    <3>1. CASE r = rid
      BY <3>1, <1>1, <1>2, <1>5, <1>6, <1>8, <1>16
    <3>2. CASE r # rid
      <4>1. hist'[h + 1].view[r] = hist'[h].view[r]
        BY <3>2, <1>6, <1>8, <1>12
      <4>2. QED
        BY <4>1, <2>2, <1>12
    <3>3. QED
      BY <3>1, <3>2
  <2>4. QED
    BY <2>1, <2>2, <2>3, <1>1, <1>6, <1>12 DEF RowsTraced
<1>18. ImagesTraced'
  <2>1. ASSUME NEW i \in T, log[i].type = "Update"
        PROVE  \/ log'[i].before \in past'[log'[i].rid]
               \/ \E j \in ToUndo(log') :
                    j < i /\ log'[j].txn = log'[i].txn /\ Wrote(log'[j], log'[i].rid)
    <3>1. log[i].rid \in Rids
      BY <1>2, <1>15
    <3>2. QED
      BY <2>1, <3>1, <1>5, <1>15 DEF Tracked, ImagesTraced, T
  <2>2. ASSUME type = "Update"
        PROVE  \/ before \in past[rid]
               \/ \E j \in T : j < n + 1 /\ log[j].txn = A /\ Wrote(log[j], rid)
    <3>1. hist[h].view[rid] = before
      BY <2>2, <1>6, <1>8
    <3>2. QED
      BY <3>1, <1>12, <1>14, <1>15
  <2>3. ASSUME type = "Update"
        PROVE  \/ log'[n + 1].before \in past'[log'[n + 1].rid]
               \/ \E j \in ToUndo(log') : j < n + 1 /\ log'[j].txn = log'[n + 1].txn
                                            /\ Wrote(log'[j], log'[n + 1].rid)
    BY <2>2, <2>3, <1>5, <1>15
  <2>4. QED
    BY <2>1, <2>3, <1>5, <1>15 DEF ImagesTraced
<1>19. InsertsFirst'
  <2>1. \A i \in T : slots[log[i].rid].used /\ log[i].rid \in Rids
    BY <1>2, <1>15 DEF Tracked, InsertsFirst, T
  <2>2. ASSUME NEW i \in T, log[i].rid = rid
        PROVE  type # "Insert" /\ (log[i].type = "Insert" => log[i].txn = A)
    <3>1. type # "Insert" /\ Live(slots[rid])
      BY <2>1, <2>2, <1>1
    <3>2. QED
      BY <3>1, <2>2, <1>2 DEF Tracked, InsertsFirst, Live, T
  <2>3. ASSUME NEW i \in ToUndo(log'), NEW j \in ToUndo(log'), log'[i].type = "Insert",
               log'[j].rid = log'[i].rid, i # j
        PROVE  i < j /\ log'[j].txn = log'[i].txn
    <3>1. CASE i \in T /\ j \in T
      BY <2>3, <3>1, <1>15 DEF Tracked, InsertsFirst, T
    <3>2. CASE i \in T /\ j = n + 1
      BY <2>2, <2>3, <3>2, <1>5, <1>15
    <3>3. CASE i = n + 1 /\ j \in T
      BY <2>2, <2>3, <3>3, <1>5, <1>15
    <3>4. QED
      BY <2>3, <3>1, <3>2, <3>3, <1>5
  <2>4. ASSUME NEW i \in T
        PROVE  /\ slots'[log'[i].rid].used
               /\ log'[i].type = "Insert" =>
                    IF log'[i].txn = activeTxn' THEN hist'[1].view[log'[i].rid] = NoRow
                                                ELSE slots'[log'[i].rid].dead
    <3>1. log'[i] = log[i] /\ log[i].rid \in Rids /\ slots[log[i].rid].used
      BY <2>1, <1>15
    <3>2. log[i].type = "Insert" => IF log[i].txn = A THEN hist[1].view[log[i].rid] = NoRow
                                                      ELSE slots[log[i].rid].dead
      BY <1>2 DEF Tracked, InsertsFirst, T
    <3>3. hist'[1] = hist[1]
      BY <1>6, <1>12
    <3>4. log[i].type = "Insert" /\ log[i].txn # A => slots'[log[i].rid] = slots[log[i].rid]
      BY <2>2, <3>1, <1>1
    <3>5. QED
      BY <3>1, <3>2, <3>3, <3>4, <1>1, <1>9
  <2>5. type = "Insert" => hist'[1].view[rid] = NoRow
    <3>1. hist'[1] = hist[1]
      BY <1>6, <1>12
    <3>2. QED
      BY <3>1, <1>1, <1>12, <1>14
  <2>6. QED
    BY <2>3, <2>4, <2>5, <1>1, <1>5 DEF InsertsFirst
<1>20. SlotsTraced'
  <2>1. ASSUME NEW r \in Rids, NEW slot, Traced(r, slot)
        PROVE  slot.used =>
                 \/ slot.row \in past'[r]
                 \/ /\ activeTxn' # 0 /\ stmt'.kind # "rollback"
                    /\ \E k \in 1..Len(hist') : hist'[k].view[r] = slot.row
                 \/ \E i \in ToUndo(log') :
                      Wrote(log'[i], r) /\ (log'[i].txn = activeTxn' => stmt'.kind = "rollback")
    BY <2>1, <1>1, <1>5, <1>6, <1>15 DEF Traced, T, h
  <2>2. ASSUME NEW r \in Rids
        PROVE  Traced(r, slots[r]) /\ Traced(r, dslots[r])
    BY DEF Tracked, SlotsTraced
  <2>3. type # "Delete" => hist'[h + 1].view[rid] = slots'[rid].row
    BY <1>6, <1>8
  <2>4. ASSUME NEW r \in Rids
        PROVE  Traced(r, slots[r])'
    <3>1. CASE r # rid
      <4>1. slots'[r] = slots[r]
        BY <3>1, <1>1
      <4>2. QED
        BY <4>1, <2>1, <2>2 DEF Traced
    <3>2. CASE r = rid /\ type # "Delete"
      BY <2>3, <3>2, <1>1, <1>6, <1>12 DEF Traced
    <3>3. CASE r = rid /\ type = "Delete"
      BY <2>1, <2>2, <3>3, <1>1, <1>8, SMTT(20) DEF Traced, Live
    <3>4. QED
      BY <3>1, <3>2, <3>3
  <2>5. ASSUME NEW r \in Rids
        PROVE  Traced(r, dslots[r])'
    BY <2>1, <2>2, <1>2 DEF Traced
  <2>6. QED
    BY <2>4, <2>5 DEF SlotsTraced
<1>21. QED
  BY <1>10, <1>13, <1>17, <1>18, <1>19, <1>20 DEF Tracked

LEMMA CommitTracked ==
  ASSUME Session, Tracked, CommitEnds,
         past' = [r \in Rids |-> past[r] \cup {hist[i].view[r] : i \in DOMAIN hist}]
  PROVE  Tracked' /\ nextTxnId' > 1
<1> DEFINE n == Len(log)
           T == ToUndo(log)
           A == activeTxn
           h == Len(hist)
<1>1. /\ A # 0 /\ stmt.kind # "rollback" /\ stmt'.kind = "idle" /\ slots' = slots
      /\ LogWrite("Commit", A, 0, NoRow) /\ activeTxn' = 0 /\ changes' = << >>
      /\ hist' = << >> /\ nextTxnId' = nextTxnId
  BY DEF CommitEnds, CommitTxn, LogControl, EndTxn, storageVars
<1>2. /\ nextTxnId \in Nat \ {0} /\ T \subseteq 1..n /\ n \in Nat /\ A \in Nat
      /\ \A i \in 1..n : log[i].txn \in Nat /\ (log[i].type \in ChangeTypes => log[i].rid \in Rids)
      /\ \A i \in T : log[i].type \in ChangeTypes
      /\ AtWork /\ dslots' = dslots /\ slots \in [Rids -> Slot]
  BY SessionFacts DEF Session
<1>3. Grows("Commit", A, 0, NoRow)
  BY <1>1, <1>2, SessionFacts, LogGrows DEF WalTypes
<1>4. /\ Len(log') = n + 1 /\ \A i \in 1..n : log'[i] = log[i]
      /\ log'[n + 1].type = "Commit" /\ log'[n + 1].txn = A
      /\ ToUndo(log') = {i \in T : log[i].txn # A}
  BY <1>3 DEF Grows
<1>5. h \in Nat \ {0} /\ DOMAIN hist = 1..h /\ hist[h].view = View(slots)
  <2>1. /\ hist \in Seq([view : Views, index : Indexes]) /\ changes \in Seq(Change)
        /\ h = Len(changes) + 1 /\ hist[h] = Snapshot(slots, index)
    BY <1>1 DEF Session, IInv, TypeOK, TxnOK, HistoryShape, Views, Indexes
  <2>2. QED
    BY <2>1, SnapshotFields
<1>6. \A r \in Rids : past[r] \subseteq past'[r] /\ \A k \in 1..h : hist[k].view[r] \in past'[r]
  BY <1>5
<1>7. A < nextTxnId /\ nextTxnId' > 1 /\ AtWork'
  <2>1. A < nextTxnId
    BY <1>1 DEF Tracked, TxnsNumbered
  <2>2. QED
    BY <2>1, <1>1, <1>2 DEF AtWork, Session
<1>8. \A i \in 1..n : log[i].txn > 0 /\ log[i].txn < nextTxnId
  BY <1>2 DEF Tracked, TxnsNumbered
<1> HIDE DEF n, T, h
<1>9. \A i \in 1..(n + 1) : i \in 1..n \/ i = n + 1
  BY <1>2
<1>10. \A i \in T : i \in 1..n /\ log'[i] = log[i] /\ log[i].txn # 0 /\ log[i].rid \in Rids
  <2>1. \A i \in 1..n : log[i].txn # 0
    BY <1>2, <1>8
  <2>2. QED
    BY <2>1, <1>2, <1>4
<1>11. TxnsNumbered'
  <2>1. \A i \in 1..Len(log') : log'[i].txn > 0 /\ log'[i].txn < nextTxnId'
    BY <1>1, <1>2, <1>4, <1>7, <1>8, <1>9
  <2>2. Len(changes') = 0
    BY <1>1
  <2>3. QED
    BY <2>1, <2>2, <1>1 DEF TxnsNumbered
<1>12. RowsTraced'
  <2>1. \A r \in Rids : View(slots)[r] \in past'[r]
    BY <1>5, <1>6
  <2>2. QED
    BY <2>1, <1>1 DEF RowsTraced
<1>13. ImagesTraced'
  <2>1. ASSUME NEW i \in T, log[i].txn # A, log[i].type = "Update"
        PROVE  \/ log[i].before \in past'[log[i].rid]
               \/ \E j \in ToUndo(log') :
                    j < i /\ log[j].txn = log[i].txn /\ Wrote(log[j], log[i].rid)
    BY <2>1, <1>4, <1>6, <1>10 DEF Tracked, ImagesTraced, T
  <2>2. QED
    BY <2>1, <1>4, <1>10 DEF ImagesTraced
<1>14. InsertsFirst'
  <2>1. \A i, j \in T : log[i].type = "Insert" /\ log[j].rid = log[i].rid /\ i # j =>
          i < j /\ log[j].txn = log[i].txn
    BY DEF Tracked, InsertsFirst, T
  <2>2. \A i \in T : /\ slots[log[i].rid].used
                     /\ log[i].type = "Insert" /\ log[i].txn # A => slots[log[i].rid].dead
    BY <1>2 DEF Tracked, InsertsFirst, T
  <2>3. QED
    BY <2>1, <2>2, <1>1, <1>4, <1>10 DEF InsertsFirst
<1>15. SlotsTraced'
  <2>1. ASSUME NEW r \in Rids, NEW slot, Traced(r, slot)
        PROVE  slot.used =>
                 \/ slot.row \in past'[r]
                 \/ \E i \in ToUndo(log') :
                      Wrote(log'[i], r) /\ (log'[i].txn = activeTxn' => stmt'.kind = "rollback")
    BY <2>1, <1>1, <1>4, <1>6, <1>10 DEF Traced, T, h
  <2>2. QED
    BY <2>1, <1>1, <1>2 DEF Tracked, SlotsTraced, Traced
<1>16. QED
  BY <1>7, <1>11, <1>12, <1>13, <1>14, <1>15 DEF Tracked

LEMMA FinishTracked ==
  ASSUME Session, Tracked, FinishRollback, past' = past
  PROVE  Tracked' /\ nextTxnId' > 1
<1> DEFINE n == Len(log)
           T == ToUndo(log)
           A == activeTxn
<1>1. /\ stmt.kind = "rollback" /\ changes = << >> /\ stmt'.kind = "idle" /\ slots' = slots
      /\ LogWrite("Rollback", A, 0, NoRow) /\ activeTxn' = 0 /\ changes' = << >>
      /\ hist' = << >> /\ nextTxnId' = nextTxnId
  BY DEF FinishRollback, LogControl, EndTxn, storageVars, Idle
<1>2. /\ nextTxnId \in Nat \ {0} /\ T \subseteq 1..n /\ n \in Nat /\ A \in Nat
      /\ \A i \in 1..n : log[i].txn \in Nat /\ (log[i].type \in ChangeTypes => log[i].rid \in Rids)
      /\ \A i \in T : log[i].type \in ChangeTypes
      /\ AtWork /\ dslots' = dslots /\ slots \in [Rids -> Slot] /\ A # 0
  BY <1>1, SessionFacts DEF Session, TransactionShape
<1>3. Grows("Rollback", A, 0, NoRow)
  BY <1>1, <1>2, SessionFacts, LogGrows DEF WalTypes
<1>4. /\ Len(log') = n + 1 /\ \A i \in 1..n : log'[i] = log[i]
      /\ log'[n + 1].type = "Rollback" /\ log'[n + 1].txn = A /\ ToUndo(log') = T
  BY <1>3 DEF Grows
<1>5. hist[1].view = View(slots)
  <2>1. Len(hist) = 1 /\ hist[Len(hist)] = Snapshot(slots, index)
    BY <1>1, <1>2 DEF Session, IInv, HistoryShape
  <2>2. QED
    BY <2>1, SnapshotFields
<1>6. A < nextTxnId /\ nextTxnId' > 1 /\ AtWork'
  <2>1. A < nextTxnId
    BY <1>2 DEF Tracked, TxnsNumbered
  <2>2. QED
    BY <2>1, <1>1, <1>2 DEF AtWork, Session
<1>7. \A i \in 1..n : log[i].txn > 0 /\ log[i].txn < nextTxnId
  BY <1>2 DEF Tracked, TxnsNumbered
<1> HIDE DEF n, T
<1>8. \A i \in 1..(n + 1) : i \in 1..n \/ i = n + 1
  BY <1>2
<1>9. \A i \in T : i \in 1..n /\ log'[i] = log[i] /\ log[i].txn # 0 /\ log[i].rid \in Rids
  <2>1. \A i \in 1..n : log[i].txn # 0
    BY <1>2, <1>7
  <2>2. QED
    BY <2>1, <1>2, <1>4
<1>10. TxnsNumbered'
  <2>1. \A i \in 1..Len(log') : log'[i].txn > 0 /\ log'[i].txn < nextTxnId'
    BY <1>1, <1>2, <1>4, <1>6, <1>7, <1>8
  <2>2. Len(changes') = 0
    BY <1>1
  <2>3. QED
    BY <2>1, <2>2, <1>1 DEF TxnsNumbered
<1>11. RowsTraced'
  BY <1>1, <1>2, <1>5 DEF Tracked, RowsTraced
<1>12. ImagesTraced'
  BY <1>4, <1>9 DEF Tracked, ImagesTraced, T
<1>13. InsertsFirst'
  <2>1. \A i, j \in T : log[i].type = "Insert" /\ log[j].rid = log[i].rid /\ i # j =>
          i < j /\ log[j].txn = log[i].txn
    BY DEF Tracked, InsertsFirst, T
  <2>2. ASSUME NEW i \in T
        PROVE  slots[log[i].rid].used /\ (log[i].type = "Insert" => slots[log[i].rid].dead)
    <3>1. /\ slots[log[i].rid].used
          /\ log[i].type = "Insert" =>
               IF log[i].txn = A THEN hist[1].view[log[i].rid] = NoRow
                                 ELSE slots[log[i].rid].dead
      BY <1>2 DEF Tracked, InsertsFirst, T
    <3>2. log[i].rid \in Rids
      BY <1>9
    <3>3. View(slots)[log[i].rid] = NoRow => ~Live(slots[log[i].rid])
      BY <3>2, <1>2, HeapAssumption DEF View, Slot, Row
    <3>4. QED
      BY <3>1, <3>3, <1>5 DEF Live
  <2>3. QED
    BY <2>1, <2>2, <1>1, <1>4, <1>9 DEF InsertsFirst
<1>14. SlotsTraced'
  BY <1>1, <1>2, <1>4, <1>9 DEF Tracked, SlotsTraced, Traced, T
<1>15. QED
  BY <1>6, <1>10, <1>11, <1>12, <1>13, <1>14 DEF Tracked

LEMMA QuietTracked ==
  ASSUME Session, Tracked, Quiet, past' = past
  PROVE  Tracked' /\ nextTxnId' = nextTxnId
<1>1. /\ slots' = slots /\ log' = log /\ changes' = changes /\ activeTxn' = activeTxn
      /\ hist' = hist /\ nextTxnId' = nextTxnId /\ dslots' = dslots
      /\ status = "open" /\ status' = "open"
      /\ stmt.kind = "rollback" => stmt'.kind = "rollback"
  BY DEF Quiet, storageVars, walVars, txnVars, Session, AtWork
<1>2. AtWork' = AtWork
  BY <1>1 DEF AtWork
<1>3. TxnsNumbered'
  BY <1>1, <1>2 DEF Tracked, TxnsNumbered
<1>4. RowsTraced' /\ ImagesTraced' /\ InsertsFirst'
  BY <1>1, <1>2 DEF Tracked, RowsTraced, ImagesTraced, InsertsFirst
<1>5. ASSUME NEW r \in Rids, NEW slot, Traced(r, slot)
      PROVE  slot.used =>
               \/ slot.row \in past'[r]
               \/ /\ activeTxn' # 0 /\ stmt'.kind # "rollback"
                  /\ \E k \in 1..Len(hist') : hist'[k].view[r] = slot.row
               \/ \E i \in ToUndo(log') :
                    Wrote(log'[i], r) /\ (log'[i].txn = activeTxn' => stmt'.kind = "rollback")
  <2>1. activeTxn # 0 => \A k \in 1..Len(hist) :
           \/ hist[k].view[r] \in past[r]
           \/ \E i \in ToUndo(log) : log[i].txn = activeTxn /\ Wrote(log[i], r)
    BY DEF Tracked, RowsTraced
  <2>2. QED
    BY <2>1, <1>1, <1>5 DEF Traced
<1>6. SlotsTraced'
  BY <1>1, <1>5 DEF Tracked, SlotsTraced, Traced
<1>7. QED
  BY <1>1, <1>3, <1>4, <1>6 DEF Tracked

\* What undoing a change does to the heap.
LEMMA UndoneSlotsAre ==
  ASSUME slots \in [Rids -> Slot], NEW c, c.rid \in Rids, c.type \in ChangeTypes
  PROVE  /\ \A r \in Rids \ {c.rid} : UndoneSlots(c)[r] = slots[r]
         /\ UndoneSlots(c)[c.rid].used = slots[c.rid].used
         /\ (UndoneSlots(c)[c.rid].dead <=> c.type = "Insert")
         /\ UndoneSlots(c)[c.rid].row = IF c.type = "Update" THEN c.before ELSE slots[c.rid].row
<1> DEFINE new == UndoneSlots(c)
<1>1. PICK rid \in Rids : rid = c.rid
  OBVIOUS
<1>2. CASE c.type = "Insert"
  <2>1. new = [slots EXCEPT ![rid] = [used |-> @.used, dead |-> TRUE, row |-> @.row]]
    BY <1>1, <1>2 DEF UndoneSlots, DeleteRow
  <2> HIDE DEF new
  <2>2. /\ \A r \in Rids \ {rid} : new[r] = slots[r]
        /\ new[rid] = [used |-> slots[rid].used, dead |-> TRUE, row |-> slots[rid].row]
    BY <2>1
  <2>3. QED
    BY <1>1, <1>2, <2>2 DEF new
<1>3. CASE c.type = "Update"
  <2>1. new = [slots EXCEPT ![rid] = [used |-> @.used, dead |-> FALSE, row |-> c.before]]
    BY <1>1, <1>3 DEF UndoneSlots, UpdateRow
  <2> HIDE DEF new
  <2>2. /\ \A r \in Rids \ {rid} : new[r] = slots[r]
        /\ new[rid] = [used |-> slots[rid].used, dead |-> FALSE, row |-> c.before]
    BY <2>1
  <2>3. QED
    BY <1>1, <1>3, <2>2 DEF new
<1>4. CASE c.type = "Delete"
  <2>1. new = [slots EXCEPT ![rid] = [used |-> @.used, dead |-> FALSE, row |-> @.row]]
    BY <1>1, <1>4 DEF UndoneSlots, UndeleteRow
  <2> HIDE DEF new
  <2>2. /\ \A r \in Rids \ {rid} : new[r] = slots[r]
        /\ new[rid] = [used |-> slots[rid].used, dead |-> FALSE, row |-> slots[rid].row]
    BY <2>1
  <2>3. QED
    BY <1>1, <1>4, <2>2 DEF new
<1>5. QED
  BY <1>2, <1>3, <1>4 DEF ChangeTypes

LEMMA UndoTracked ==
  ASSUME Session, Tracked, UndoOneChange, past' = past
  PROVE  Tracked' /\ nextTxnId' > 1
<1> DEFINE n == Len(log)
           T == ToUndo(log)
           A == activeTxn
           h == Len(hist)
           k == Len(changes)
           c == Last(changes)
<1>1. /\ stmt.kind = "rollback" /\ stmt'.kind = "rollback" /\ changes # << >>
      /\ slots' = UndoneSlots(c) /\ changes' = Front(changes) /\ hist' = Front(hist)
      /\ log' = log /\ activeTxn' = A /\ nextTxnId' = nextTxnId
  BY DEF UndoOneChange, walVars
<1>2. /\ nextTxnId \in Nat \ {0} /\ T \subseteq 1..n /\ n \in Nat /\ A \in Nat
      /\ \A i \in 1..n : log[i].txn \in Nat /\ (log[i].type \in ChangeTypes => log[i].rid \in Rids)
      /\ \A i \in T : log[i].type \in ChangeTypes
      /\ AtWork /\ dslots' = dslots /\ slots \in [Rids -> Slot] /\ A # 0 /\ log # << >>
  BY <1>1, SessionFacts DEF Session, TransactionShape
<1>3. A < nextTxnId /\ nextTxnId' > 1 /\ AtWork'
  <2>1. A < nextTxnId
    BY <1>2 DEF Tracked, TxnsNumbered
  <2>2. QED
    BY <2>1, <1>1, <1>2 DEF AtWork, Session
<1>4. /\ k \in Nat \ {0} /\ Len(changes') = k - 1 /\ \A i \in 1..(k - 1) : changes'[i] = changes[i]
      /\ c = changes[k] /\ c \in Change
  <2>1. changes \in Seq(Change)
    BY DEF Session, IInv, TypeOK, TxnOK
  <2>2. QED
    BY <2>1, <1>1, FrontLast
<1>5. h = k + 1 /\ Len(hist') = k /\ \A i \in 1..k : hist'[i] = hist[i]
  <2> DEFINE S == [view : Views, index : Indexes]
  <2>1. hist \in Seq(S) /\ h = k + 1
    BY <1>2 DEF Session, IInv, TypeOK, TxnOK, HistoryShape, Views, Indexes
  <2> HIDE DEF S
  <2>2. hist # << >>
    BY <2>1, <1>4
  <2>3. Len(Front(hist)) = h - 1 /\ \A i \in 1..(h - 1) : Front(hist)[i] = hist[i]
    BY <2>1, <2>2, FrontLast
  <2>4. h - 1 = k
    BY <2>1, <1>4
  <2>5. QED
    BY <2>1, <2>3, <2>4, <1>1
<1>6. c.type \in ChangeTypes /\ c.rid \in Rids
  BY <1>4 DEF Change
<1> HIDE DEF c
<1>7. /\ \A r \in Rids \ {c.rid} : slots'[r] = slots[r]
      /\ slots'[c.rid].used = slots[c.rid].used
      /\ (slots'[c.rid].dead <=> c.type = "Insert")
      /\ slots'[c.rid].row = IF c.type = "Update" THEN c.before ELSE slots[c.rid].row
  BY <1>1, <1>2, <1>6, UndoneSlotsAre
<1>8. PICK m \in T : log[m].txn = A /\ log[m].type = c.type /\ log[m].rid = c.rid
  <2>1. k \in 1..k
    BY <1>4
  <2>2. QED
    BY <2>1, <1>4 DEF Tracked, TxnsNumbered, T
<1>9. \A r \in Rids : slots'[r].used = slots[r].used
  BY <1>7
<1> HIDE DEF n, T, h, k
<1>10. /\ \A i \in 1..(k - 1) : i \in 1..k
       /\ \A i \in 1..k : i \in 1..h
       /\ 1 \in 1..k
  BY <1>4, <1>5
<1>11. TxnsNumbered'
  <2>1. ASSUME NEW i \in 1..Len(changes')
        PROVE  \E j \in T : log[j].txn = A /\ log[j].type = changes'[i].type
                              /\ log[j].rid = changes'[i].rid
    BY <1>4, <1>10 DEF Tracked, TxnsNumbered, T, k
  <2>2. QED
    BY <2>1, <1>1, <1>2, <1>3 DEF Tracked, TxnsNumbered, T, n
<1>12. RowsTraced'
  BY <1>1, <1>2, <1>5, <1>9, <1>10 DEF Tracked, RowsTraced, T, h
<1>13. ImagesTraced'
  BY <1>1 DEF Tracked, ImagesTraced, T
<1>14. InsertsFirst'
  <2>1. \A i, j \in T : log[i].type = "Insert" /\ log[j].rid = log[i].rid /\ i # j =>
          i < j /\ log[j].txn = log[i].txn
    BY DEF Tracked, InsertsFirst, T
  <2>2. ASSUME NEW i \in T
        PROVE  /\ slots'[log[i].rid].used
               /\ log[i].type = "Insert" =>
                    IF log[i].txn = A THEN hist'[1].view[log[i].rid] = NoRow
                                      ELSE slots'[log[i].rid].dead
    <3>1. /\ slots[log[i].rid].used
          /\ log[i].type = "Insert" =>
               IF log[i].txn = A THEN hist[1].view[log[i].rid] = NoRow
                                 ELSE slots[log[i].rid].dead
      BY <1>2 DEF Tracked, InsertsFirst, T
    <3>2. log[i].rid \in Rids
      BY <1>2
    <3>3. hist'[1] = hist[1]
      BY <1>5, <1>10
    <3>4. log[i].type = "Insert" /\ log[i].txn # A => log[i].rid # c.rid
      BY <2>1, <1>8
    <3>5. QED
      BY <3>1, <3>2, <3>3, <3>4, <1>7, <1>9
  <2>3. QED
    BY <2>1, <2>2, <1>1 DEF InsertsFirst, T
<1>15. SlotsTraced'
  <2>1. ASSUME NEW r \in Rids, NEW slot, Traced(r, slot)
        PROVE  slot.used =>
                 \/ slot.row \in past'[r]
                 \/ \E i \in ToUndo(log') :
                      Wrote(log'[i], r) /\ (log'[i].txn = activeTxn' => stmt'.kind = "rollback")
    BY <2>1, <1>1 DEF Traced
  <2>2. c.type = "Update" => Wrote(log[m], c.rid)
    BY <1>8 DEF Wrote
  <2>3. ASSUME NEW r \in Rids
        PROVE  Traced(r, slots[r])'
    <3>1. CASE r # c.rid
      BY <2>1, <3>1, <1>7 DEF Tracked, SlotsTraced, Traced
    <3>2. CASE r = c.rid /\ c.type = "Update"
      BY <2>2, <3>2, <1>1, <1>8 DEF Traced, T
    <3>3. CASE r = c.rid /\ c.type # "Update"
      BY <2>1, <3>3, <1>7 DEF Tracked, SlotsTraced, Traced
    <3>4. QED
      BY <3>1, <3>2, <3>3
  <2>4. ASSUME NEW r \in Rids
        PROVE  Traced(r, dslots[r])'
    BY <2>1, <1>2 DEF Tracked, SlotsTraced, Traced
  <2>5. QED
    BY <2>3, <2>4 DEF SlotsTraced
<1>16. QED
  BY <1>3, <1>11, <1>12, <1>13, <1>14, <1>15 DEF Tracked

-----------------------------------------------------------------------------
(* The log only grows while a process runs, so what is known of a later    *)
(* log is known of the log of now.                                         *)

Extends(more, recs) == Len(recs) <= Len(more) /\ \A i \in 1..Len(recs) : more[i] = recs[i]

LEMMA AppendExtends ==
  ASSUME NEW recs \in Seq(WalRecord), NEW rec
  PROVE  Extends(Append(recs, rec), recs)
<1>1. Len(recs) \in Nat /\ \A i \in 1..Len(recs) : recs[i] \in WalRecord \cup {rec}
  BY ElementOfSeq
<1>2. recs \in Seq(WalRecord \cup {rec})
  BY <1>1, SeqDef
<1>3. QED
  BY <1>1, <1>2, AppendProperties DEF Extends

LEMMA LogSteps ==
  ASSUME TypeOK, TransactionShape, Next
  PROVE  \/ UNCHANGED <<log, nextTxnId, activeTxn>>
         \/ Begins
         \/ /\ activeTxn # 0 /\ nextTxnId' = nextTxnId
            /\ \E rec : log' = Append(log, rec)
<1>1. CASE DataStatement
  BY <1>1, DataStatementKind DEF Quiet, walVars, txnVars
<1>2. CASE RowStep
  <2>1. CASE InsertRejected
    BY <2>1 DEF InsertRejected, Rejected, walVars, txnVars
  <2>2. CASE InsertOneRow
    BY <2>2 DEF InsertOneRow, RecordChange, LogWrite, TransactionShape
  <2>3. CASE \E rid \in Rids : UpdateOneRow(rid)
    BY <2>3 DEF UpdateOneRow, RecordChange, LogWrite, TransactionShape
  <2>4. CASE \E rid \in Rids : DeleteOneRow(rid)
    BY <2>4 DEF DeleteOneRow, RecordChange, LogWrite, TransactionShape
  <2>5. CASE FinishStatement
    BY <2>5 DEF FinishStatement, CommitTxn, LogControl, LogWrite, EndTxn, TransactionShape,
                walVars, txnVars
  <2>6. QED
    BY <1>2, <2>1, <2>2, <2>3, <2>4, <2>5 DEF RowStep
<1>3. CASE TxnControl
  <2>1. CASE BeginStatement
    BY <2>1 DEF BeginStatement, Begins
  <2>2. CASE CommitStatement
    BY <2>2 DEF CommitStatement, CommitTxn, LogControl, LogWrite, EndTxn
  <2>3. CASE ControlRefused
    BY <2>3 DEF ControlRefused, vars, walVars, txnVars
  <2>4. CASE RollbackStatement
    BY <2>4 DEF RollbackStatement, walVars, txnVars
  <2>5. CASE UndoOneChange
    BY <2>5 DEF UndoOneChange, walVars
  <2>6. CASE FinishRollback
    BY <2>6 DEF FinishRollback, LogControl, LogWrite, EndTxn, TransactionShape
  <2>7. QED
    BY <1>3, <2>1, <2>2, <2>3, <2>4, <2>5, <2>6 DEF TxnControl
<1>4. QED
  BY <1>1, <1>2, <1>3 DEF Next

LEMMA SessionLog ==
  ASSUME DInv, LogBegins, SessionStep
  PROVE  LogBegins' /\ Extends(log', log)
<1>1. TypeOK /\ TransactionShape /\ Next /\ log \in Seq(WalRecord) /\ Len(log) \in Nat
  BY DEF DInv, DTypeOK, TypeOK, WalOK, SessionStep
<1>2. CASE UNCHANGED <<log, nextTxnId, activeTxn>>
  BY <1>1, <1>2 DEF LogBegins, Extends
<1>3. CASE Begins
  <2>1. PICK byUser \in BOOLEAN : BeginTxn(byUser)
    BY <1>3 DEF Begins
  <2>2. nextTxnId \in Nat /\ LogWrite("Begin", nextTxnId, 0, NoRow)
    BY <1>1, <2>1 DEF BeginTxn, LogControl, TypeOK, TxnOK
  <2>3. Grows("Begin", nextTxnId, 0, NoRow)
    BY <1>1, <2>2, LogGrows DEF WalTypes
  <2>4. /\ log' \in Seq(WalRecord) /\ Len(log') = Len(log) + 1
        /\ \A i \in 1..Len(log) : log'[i] = log[i]
        /\ log'[Len(log) + 1].type = "Begin" /\ log'[Len(log) + 1].txn = nextTxnId
    BY <2>3 DEF Grows
  <2>5. Extends(log', log) /\ log' # << >>
    BY <1>1, <2>4 DEF Extends
  <2>6. CASE log = << >>
    <3>1. Len(log) + 1 = 1 /\ nextTxnId = 1
      BY <2>6 DEF LogBegins
    <3>2. QED
      BY <2>4, <2>5, <3>1 DEF LogBegins
  <2>7. CASE log # << >>
    <3>1. 1 \in 1..Len(log)
      BY <1>1, <2>7, EmptySeq
    <3>2. QED
      BY <2>4, <2>5, <2>7, <3>1 DEF LogBegins
  <2>8. QED
    BY <2>6, <2>7
<1>4. CASE activeTxn # 0 /\ \E rec : log' = Append(log, rec)
  <2>1. Extends(log', log)
    BY <1>1, <1>4, AppendExtends
  <2>2. log # << >>
    BY <1>4 DEF LogBegins
  <2>3. 1 \in 1..Len(log)
    BY <1>1, <2>2, EmptySeq
  <2>4. log'[1] = log[1] /\ log' # << >>
    BY <1>1, <2>1, <2>3 DEF Extends
  <2>5. QED
    BY <2>1, <2>2, <2>4 DEF LogBegins
<1>5. QED
  BY <1>1, <1>2, <1>3, <1>4, LogSteps

LEMMA IdsReusedMore ==
  ASSUME NEW recs \in Seq(WalRecord), NEW more \in Seq(WalRecord), Extends(more, recs),
         IdsReused(recs)
  PROVE  IdsReused(more)
<1>1. DOMAIN recs = 1..Len(recs) /\ DOMAIN more = 1..Len(more)
  OBVIOUS
<1>2. PICK i \in 1..Len(recs), j \in 1..Len(recs) :
        /\ i # j /\ recs[i].type = "Begin" /\ recs[j].type = "Begin"
        /\ recs[i].txn = recs[j].txn
  BY <1>1 DEF IdsReused
<1>3. /\ i \in 1..Len(more) /\ j \in 1..Len(more)
      /\ more[i] = recs[i] /\ more[j] = recs[j]
  BY DEF Extends
<1>4. QED
  BY <1>1, <1>2, <1>3 DEF IdsReused

-----------------------------------------------------------------------------
(* What holds of every history, and how far back it reaches.               *)

\* The parts of the invariant that hold however often numbers are reused.
Grounds ==
  /\ DInv /\ (\A r \in Rids : NoRow \in past[r]) /\ (lossless => DOMAIN cuts = {})
  /\ LogBegins /\ (status # "open" => nextTxnId = 1)

LEMMA WholePrefix ==
  ASSUME NEW recs \in Seq(WalRecord)
  PROVE  SubSeq(recs, 1, Len(recs)) = recs
<1>1. Len(recs) \in Nat
  OBVIOUS
<1>2. /\ SubSeq(recs, 1, Len(recs)) \in Seq(WalRecord)
      /\ Len(SubSeq(recs, 1, Len(recs))) = Len(recs)
      /\ \A i \in 1..Len(recs) : SubSeq(recs, 1, Len(recs))[i] = recs[i]
  BY <1>1, Prefix
<1>3. QED
  BY <1>2, SeqEqual

\* A process ends with a prefix of its log, and under the terms of one lifetime
\* with all of it.
LEMMA ProcessEndLog ==
  ASSUME Grounds, NEW heap, NEW tree, NEW kept \in flushed..Len(log), NEW how,
         ProcessEnds(heap, tree, kept, how)
  PROVE  /\ LogBegins' /\ status' = "closed" /\ nextTxnId' = 1
         /\ kept = Len(log) => log' = log
<1>1. /\ log \in Seq(WalRecord) /\ Len(log) \in Nat /\ flushed \in Nat
  BY DEF Grounds, DInv, DTypeOK, TypeOK, WalOK
<1>2. kept \in Nat /\ kept <= Len(log)
  BY <1>1
<1>3. log' = SubSeq(log, 1, kept) /\ nextTxnId' = 1 /\ activeTxn' = 0 /\ status' = "closed"
  BY DEF ProcessEnds
<1>4. /\ log' \in Seq(WalRecord) /\ Len(log') = kept
      /\ \A i \in 1..kept : log'[i] = log[i]
  BY <1>1, <1>2, <1>3, Prefix
<1>5. CASE kept = 0
  <2>1. log' = << >>
    BY <1>4, <1>5, EmptySeq
  <2>2. QED
    BY <2>1, <1>1, <1>3, <1>5, WholePrefix DEF LogBegins
<1>6. CASE kept # 0
  <2>1. 1 \in 1..kept /\ log' # << >> /\ log # << >>
    BY <1>1, <1>2, <1>4, <1>6
  <2>2. log'[1] = log[1]
    BY <2>1, <1>4
  <2>3. LogBegins'
    BY <2>1, <2>2 DEF Grounds, LogBegins
  <2>4. QED
    BY <2>3, <1>1, <1>3, WholePrefix
<1>7. QED
  BY <1>5, <1>6

LEMMA CrashEnds ==
  ASSUME Crash
  PROVE  \E kept \in flushed..Len(log) :
           /\ ProcessEnds(dslots, dindex, kept, "crash")
           /\ lossless' = (lossless /\ kept = Len(log)) /\ cuts' = cuts
BY DEF Crash

LEMMA CrashInRecordEnds ==
  ASSUME Grounds, CrashInRecord
  PROVE  \E kept \in flushed..Len(log) :
           ProcessEnds(dslots, dindex, kept, "crash") /\ lossless' = FALSE
<1>1. flushed \in Nat /\ Len(log) \in Nat
  BY DEF Grounds, DInv, DTypeOK, TypeOK, WalOK
<1>2. PICK i \in (flushed + 1)..Len(log) : ProcessEnds(dslots, dindex, i, "crash")
  BY DEF CrashInRecord
<1>3. i \in flushed..Len(log)
  BY <1>1, <1>2
<1>4. QED
  BY <1>2, <1>3 DEF CrashInRecord

LEMMA ShutdownEnds ==
  ASSUME Grounds, Shutdown
  PROVE  /\ ProcessEnds(slots, index, Len(log), "clean") /\ Len(log) \in flushed..Len(log)
         /\ cuts' = cuts /\ lossless' = lossless
<1>1. /\ Len(log) \in Nat /\ flushed \in Nat /\ flushed <= Len(log)
  BY DEF Grounds, DInv, DTypeOK, TypeOK, WalOK, LogShape
<1>2. QED
  BY <1>1 DEF Shutdown

\* A step that is not of the session and does not end the process leaves log,
\* transaction numbers and history alone.
LEMMA OtherSteps ==
  ASSUME \/ EvictIndex \/ \E page \in 1..MaxPages : EvictPage(page)
         \/ Start \/ RecoverOneRecord \/ EngineReady \/ UNCHANGED dvars
  PROVE  /\ UNCHANGED <<log, nextTxnId, activeTxn, changes, hist, stmt, past, lossless, cuts>>
         /\ status' # "open" => status # "open"
<1>1. CASE EvictIndex
  BY <1>1 DEF EvictIndex, vars, walVars, txnVars, historyVars
<1>2. CASE \E page \in 1..MaxPages : EvictPage(page)
  BY <1>2 DEF EvictPage, vars, walVars, txnVars, historyVars
<1>3. CASE Start
  BY <1>3 DEF Start, txnVars, historyVars, diskVars
<1>4. CASE RecoverOneRecord
  BY <1>4 DEF RecoverOneRecord, walVars, txnVars, historyVars, diskVars
<1>5. CASE EngineReady
  BY <1>5 DEF EngineReady, vars, walVars, txnVars, historyVars, diskVars
<1>6. CASE UNCHANGED dvars
  BY <1>6 DEF dvars, vars, walVars, txnVars, historyVars, diskVars
<1>7. QED
  BY <1>1, <1>2, <1>3, <1>4, <1>5, <1>6

\* What committed stays in the history.
LEMMA PastGrows ==
  ASSUME Grounds, [DNext]_dvars
  PROVE  \A r \in Rids : past[r] \subseteq past'[r]
<1>1. CASE SessionStep
  <2>1. past \in [Rids -> SUBSET (Row \cup {NoRow})]
    BY DEF Grounds, DInv, DTypeOK
  <2>2. QED
    BY <1>1, <2>1 DEF SessionStep
<1>2. CASE Shutdown \/ Crash \/ CrashInRecord
  BY <1>2 DEF Shutdown, Crash, CrashInRecord, ProcessEnds
<1>3. CASE ~(SessionStep \/ Shutdown \/ Crash \/ CrashInRecord)
  BY <1>3, OtherSteps DEF DNext
<1>4. QED
  BY <1>1, <1>2, <1>3

LEMMA GroundsStep ==
  ASSUME Grounds, [DNext]_dvars
  PROVE  Grounds'
<1>1. DInv'
  BY DurabilityStep DEF Grounds
<1>2. \A r \in Rids : NoRow \in past'[r]
  BY PastGrows DEF Grounds
<1>3. /\ lossless' => DOMAIN cuts' = {}
      /\ LogBegins' /\ (status' # "open" => nextTxnId' = 1)
  <2>1. CASE SessionStep
    BY <2>1, SessionLog DEF SessionStep, Grounds, diskVars
  <2>2. CASE Shutdown
    BY <2>2, ShutdownEnds, ProcessEndLog DEF Grounds
  <2>3. CASE Crash
    <3>1. PICK kept \in flushed..Len(log) :
            /\ ProcessEnds(dslots, dindex, kept, "crash")
            /\ lossless' = (lossless /\ kept = Len(log)) /\ cuts' = cuts
      BY <2>3, CrashEnds
    <3>2. lossless' => DOMAIN cuts' = {}
      BY <3>1, Zenon DEF Grounds
    <3>3. QED
      BY <3>1, <3>2, ProcessEndLog
  <2>4. CASE CrashInRecord
    BY <2>4, CrashInRecordEnds, ProcessEndLog
  <2>5. CASE ~(SessionStep \/ Shutdown \/ Crash \/ CrashInRecord)
    BY <2>5, OtherSteps DEF DNext, Grounds, LogBegins
  <2>6. QED
    BY <2>1, <2>2, <2>3, <2>4, <2>5
<1>4. QED
  BY <1>1, <1>2, <1>3 DEF Grounds

\* The terms of one lifetime held before, and outside the session the log
\* has stayed as it was.
LEMMA OneLifetimeBefore ==
  ASSUME Grounds, [DNext]_dvars, OneLifetime'
  PROVE  OneLifetime /\ (SessionStep \/ log' = log)
<1>1. log \in Seq(WalRecord) /\ log' \in Seq(WalRecord) /\ Len(log) \in Nat /\ flushed \in Nat
  BY GroundsStep DEF Grounds, DInv, DTypeOK, TypeOK, WalOK
<1>2. CASE SessionStep
  BY <1>1, <1>2, SessionLog, IdsReusedMore DEF OneLifetime, SessionStep, Grounds
<1>3. CASE Shutdown
  BY <1>3, ShutdownEnds, ProcessEndLog DEF OneLifetime
<1>4. CASE Crash
  <2>1. PICK kept \in flushed..Len(log) :
          /\ ProcessEnds(dslots, dindex, kept, "crash")
          /\ lossless' = (lossless /\ kept = Len(log))
    BY <1>4, CrashEnds
  <2>2. lossless /\ kept = Len(log)
    BY <2>1 DEF OneLifetime, Grounds, DInv, DTypeOK
  <2>3. log' = log
    BY <2>1, <2>2, ProcessEndLog
  <2>4. QED
    BY <2>2, <2>3 DEF OneLifetime
<1>5. ~CrashInRecord
  BY DEF CrashInRecord, OneLifetime
<1>6. CASE ~(SessionStep \/ Shutdown \/ Crash)
  BY <1>5, <1>6, OtherSteps DEF DNext, OneLifetime
<1>7. QED
  BY <1>2, <1>3, <1>4, <1>6

-----------------------------------------------------------------------------
(* The steps of Durability keep track of every row.                        *)

LEMMA SurvivalType ==
  ASSUME Grounds, Survival
  PROVE  /\ TypeOK /\ TransactionShape /\ slots \in [Rids -> Slot] /\ dslots \in [Rids -> Slot]
         /\ log \in Seq(WalRecord) /\ nextTxnId \in Nat \ {0} /\ activeTxn \in Nat
         /\ ToUndo(log) \subseteq 1..Len(log) /\ Len(log) \in Nat
         /\ \A i \in ToUndo(log) :
              log[i].type \in ChangeTypes /\ log[i].rid \in Rids /\ log[i].txn # 0
<1>1. /\ TypeOK /\ TransactionShape /\ ImagesKept /\ dslots \in [Rids -> Slot]
  BY DEF Grounds, DInv, DTypeOK
<1>2. /\ ToUndo(log) \subseteq 1..Len(log) /\ Len(log) \in Nat
      /\ \A i \in 1..Len(log) : log[i] \in WalRecord
      /\ \A i \in ToUndo(log) : log[i].type \in ChangeTypes
  BY <1>1, ToUndoInLog
<1>3. \A i \in 1..Len(log) : log[i].type \in ChangeTypes => log[i].rid # 0
  BY <1>1 DEF ImagesKept
<1>4. \A i \in 1..Len(log) : log[i].txn \in Nat /\ log[i].rid \in Rids \cup {0}
  BY <1>2 DEF WalRecord
<1>5. \A i \in 1..Len(log) : log[i].txn # 0
  <2>1. \A i \in 1..Len(log) : log[i].txn > 0
    BY DEF Survival, TxnsNumbered
  <2>2. QED
    BY <2>1, <1>4
<1>6. QED
  BY <1>1, <1>2, <1>3, <1>4, <1>5 DEF TypeOK, StorageOK, WalOK, TxnOK

LEMMA StutterSurvives ==
  ASSUME Survival, UNCHANGED dvars
  PROVE  Survival'
<1>1. /\ slots' = slots /\ pages' = pages /\ index' = index /\ log' = log /\ flushed' = flushed
      /\ nextLsn' = nextLsn /\ nextTxnId' = nextTxnId /\ activeTxn' = activeTxn
      /\ changes' = changes /\ explicit' = explicit /\ hist' = hist /\ stmt' = stmt
      /\ status' = status /\ dslots' = dslots /\ dindex' = dindex /\ undo' = undo
      /\ starts' = starts /\ past' = past /\ UNCHANGED vars
  BY DEF dvars, vars, storageVars, walVars, txnVars, diskVars, recoverVars, historyVars
<1>2. AtWork' = AtWork /\ Restarted' = Restarted
  BY <1>1 DEF AtWork, Restarted
<1>3. (AtWork => IInv)'
  BY <1>1, <1>2, UnchangedKeeps DEF Survival
<1>4. Unwritten' /\ TxnsNumbered' /\ RowsTraced' /\ ImagesTraced'
  BY <1>1, <1>2 DEF Survival, Unwritten, TxnsNumbered, RowsTraced, ImagesTraced
<1>5. InsertsFirst' /\ SlotsTraced' /\ RecoveryTraced'
  BY <1>1, <1>2 DEF Survival, InsertsFirst, SlotsTraced, Traced, RecoveryTraced
<1>6. QED
  BY <1>3, <1>4, <1>5 DEF Survival

\* A process that finds a log has begun no transaction: its first number would
\* be there twice.
LEMMA NoSecondLifetime ==
  ASSUME Grounds, Survival, SessionStep, ~AtWork, OneLifetime'
  PROVE  UNCHANGED dvars
<1>1. /\ TypeOK /\ TransactionShape /\ log \in Seq(WalRecord) /\ Len(log) \in Nat
      /\ nextTxnId \in Nat \ {0} /\ activeTxn \in Nat /\ status = "open"
  BY SurvivalType DEF SessionStep
<1>2. log # << >> /\ nextTxnId = 1
  BY <1>1 DEF AtWork
<1>3. activeTxn = 0
  BY <1>1, <1>2 DEF Survival, TxnsNumbered
<1>4. stmt.kind = "idle"
  BY <1>1, <1>3 DEF TransactionShape
<1>5. ~Begins
  <2>1. SUFFICES ASSUME Begins PROVE FALSE
    OBVIOUS
  <2>2. PICK byUser \in BOOLEAN : BeginTxn(byUser)
    BY <2>1 DEF Begins
  <2>3. LogWrite("Begin", 1, 0, NoRow)
    BY <2>2, <1>2 DEF BeginTxn, LogControl
  <2>4. Grows("Begin", 1, 0, NoRow)
    BY <1>1, <2>3, LogGrows DEF WalTypes
  <2>5. /\ log' \in Seq(WalRecord) /\ Len(log') = Len(log) + 1
        /\ log'[Len(log) + 1].type = "Begin" /\ log'[Len(log) + 1].txn = 1
        /\ \A i \in 1..Len(log) : log'[i] = log[i]
    BY <2>4 DEF Grows
  <2>6. 1 \in 1..Len(log) /\ log[1].type = "Begin" /\ log[1].txn = 1
    BY <1>1, <1>2, EmptySeq DEF Grounds, LogBegins
  <2>7. /\ 1 \in DOMAIN log' /\ Len(log) + 1 \in DOMAIN log' /\ 1 # Len(log) + 1
        /\ log'[1].type = "Begin" /\ log'[1].txn = 1
    BY <1>1, <2>5, <2>6
  <2>8. IdsReused(log')
    BY <2>5, <2>7 DEF IdsReused
  <2>9. QED
    BY <2>8 DEF OneLifetime
<1>6. UNCHANGED vars
  <2>1. ~DataStatement
    <3>1. DataStatement => StatementStarts /\ stmt'.kind # "rollback"
      BY DEF DataStatement, InsertStatement, UpdateStatement, DeleteStatement, Running, Idle
    <3>2. StatementStarts => BeginTxn(FALSE) /\ UNCHANGED storageVars
      BY <1>3 DEF StatementStarts, GetOrBeginTxn
    <3>3. QED
      BY <3>1, <3>2, <1>3, <1>5 DEF Begins
  <2>2. ~RowStep
    BY <1>4 DEF RowStep, InsertRejected, InsertOneRow, UpdateOneRow, DeleteOneRow,
                FinishStatement
  <2>3. ~BeginStatement
    BY <1>3, <1>4, <1>5 DEF BeginStatement, Begins
  <2>4. ~CommitStatement /\ ~RollbackStatement /\ ~UndoOneChange /\ ~FinishRollback
    BY <1>3, <1>4 DEF CommitStatement, RollbackStatement, UndoOneChange, FinishRollback
  <2>5. ControlRefused
    BY <2>1, <2>2, <2>3, <2>4 DEF SessionStep, Next, TxnControl
  <2>6. QED
    BY <2>5 DEF ControlRefused
<1>7. past' = past
  BY <1>3 DEF SessionStep, Commits
<1>8. QED
  BY <1>6, <1>7 DEF SessionStep, dvars, historyVars

LEMMA WorkTracked ==
  ASSUME Grounds, Survival, SessionStep, AtWork
  PROVE  Tracked' /\ (nextTxnId' > 1 \/ Quiet)
<1>1. Session /\ Tracked
  <2>1. \A r \in Rids : past[r] \subseteq past'[r]
    BY PastGrows DEF DNext
  <2>2. QED
    BY <2>1 DEF Session, Tracked, Survival, Grounds, SessionStep, diskVars
<1>2. /\ TypeOK /\ TransactionShape /\ StatementValid /\ Next
      /\ past' = IF Commits THEN [r \in Rids |-> past[r] \cup {hist[i].view[r] : i \in DOMAIN hist}]
                 ELSE past
  BY SurvivalType DEF Survival, IInv, SessionStep
<1>3. CASE Quiet
  BY <1>1, <1>2, <1>3, QuietTracked DEF Commits, Quiet, txnVars
<1>4. CASE Begins
  BY <1>1, <1>2, <1>4, BeginsTracked DEF Commits, Begins
<1>5. CASE Changes
  <2>1. PICK type \in ChangeTypes, rid \in Rids, before \in Row \cup {NoRow} :
          Changed(type, rid, before)
    BY <1>5 DEF Changes
  <2>2. past' = past
    BY <2>1, <1>2 DEF Commits, Changed, RecordChange
  <2>3. QED
    BY <2>1, <2>2, <1>1, ChangeTracked
<1>6. CASE CommitEnds
  BY <1>1, <1>2, <1>6, CommitTracked DEF Commits, CommitEnds, CommitTxn, EndTxn
<1>7. CASE UndoOneChange
  BY <1>1, <1>2, <1>7, UndoTracked DEF Commits, UndoOneChange
<1>8. CASE FinishRollback
  BY <1>1, <1>2, <1>8, FinishTracked DEF Commits, FinishRollback
<1>9. QED
  BY <1>2, <1>3, <1>4, <1>5, <1>6, <1>7, <1>8, StepKinds

LEMMA SessionStepSurvives ==
  ASSUME OneRowKeyUpdates, Grounds, Survival, SessionStep, OneLifetime'
  PROVE  Survival'
<1>1. CASE ~AtWork
  BY <1>1, NoSecondLifetime, StutterSurvives
<1>2. CASE AtWork
  <2>1. Tracked' /\ (nextTxnId' > 1 \/ Quiet)
    BY <1>2, WorkTracked
  <2>2. IInv'
    BY <1>2, InvariantStep DEF Survival, SessionStep
  <2>3. /\ undo' = undo /\ undo = {} /\ status = "open" /\ status' = "open" /\ starts' = starts
        /\ dslots' = dslots /\ dindex' = dindex
    BY SurvivalType DEF SessionStep, TransactionShape, diskVars, recoverVars
  <2>4. \A r \in Rids : past[r] \subseteq past'[r]
    BY PastGrows DEF DNext
  <2>5. LogBegins'
    BY SessionLog DEF Grounds
  <2>6. CASE nextTxnId' > 1
    <3>1. nextTxnId' # 1
      BY <2>6
    <3>2. Unwritten' /\ RecoveryTraced'
      BY <3>1, <2>3, <2>5 DEF LogBegins, Unwritten, RecoveryTraced, Restarted
    <3>3. QED
      BY <3>2, <2>1, <2>2 DEF Survival, Tracked
  <2>7. CASE Quiet
    <3>1. slots' = slots /\ index' = index /\ log' = log /\ nextTxnId' = nextTxnId
      BY <2>7 DEF Quiet, storageVars, walVars, txnVars
    <3>2. Unwritten'
      BY <3>1, <2>3 DEF Survival, Unwritten
    <3>3. RecoveryTraced'
      BY <3>1, <2>3, <2>4 DEF Survival, RecoveryTraced, Restarted
    <3>4. QED
      BY <3>2, <3>3, <2>1, <2>2 DEF Survival, Tracked
  <2>8. QED
    BY <2>1, <2>6, <2>7
<1>3. QED
  BY <1>1, <1>2

LEMMA EvictionSurvives ==
  ASSUME Grounds, Survival, EvictIndex \/ \E page \in 1..MaxPages : EvictPage(page)
  PROVE  Survival'
<1>1. /\ slots' = slots /\ index' = index /\ log' = log /\ nextTxnId' = nextTxnId
      /\ activeTxn' = activeTxn /\ changes' = changes /\ hist' = hist /\ stmt' = stmt
      /\ UNCHANGED vars /\ status' = status /\ undo' = undo /\ starts' = starts /\ past' = past
  BY DEF EvictIndex, EvictPage, vars, storageVars, walVars, txnVars, recoverVars, historyVars
<1>2. /\ dslots' \in [Rids -> Slot]
      /\ \A r \in Rids : dslots'[r] = slots[r] \/ dslots'[r] = dslots[r]
  <2>1. slots \in [Rids -> Slot] /\ dslots \in [Rids -> Slot]
    BY SurvivalType
  <2>2. QED
    BY <2>1 DEF EvictIndex, EvictPage
<1>3. AtWork' = AtWork /\ Restarted' = Restarted
  BY <1>1 DEF AtWork, Restarted
<1>4. (AtWork => IInv)'
  BY <1>1, <1>3, UnchangedKeeps DEF Survival
<1>5. Unwritten'
  <2>1. slots = EmptyHeap /\ dslots = EmptyHeap => dslots' = EmptyHeap
    BY <1>2 DEF EmptyHeap
  <2>2. dindex' = index \/ dindex' = dindex
    BY DEF EvictIndex, EvictPage
  <2>3. QED
    BY <1>1, <2>1, <2>2 DEF Survival, Unwritten
<1>6. TxnsNumbered' /\ RowsTraced' /\ ImagesTraced' /\ InsertsFirst' /\ RecoveryTraced'
  BY <1>1, <1>3 DEF Survival, TxnsNumbered, RowsTraced, ImagesTraced, InsertsFirst,
                    RecoveryTraced
<1>7. SlotsTraced'
  BY <1>1, <1>2 DEF Survival, SlotsTraced, Traced
<1>8. QED
  BY <1>4, <1>5, <1>6, <1>7 DEF Survival

\* A process that ends, with the memory or the files as they are.
LEMMA EndSurvives ==
  ASSUME Grounds, Survival, log' = log, NEW kept, NEW how,
         \/ ProcessEnds(slots, index, kept, how)
         \/ ProcessEnds(dslots, dindex, kept, how)
  PROVE  Survival'
<1>1. /\ status' = "closed" /\ nextTxnId' = 1 /\ activeTxn' = 0 /\ changes' = << >>
      /\ undo' = {} /\ past' = past
      /\ slots' = dslots' /\ (slots' = slots \/ slots' = dslots)
      /\ index' = dindex' /\ (index' = index \/ index' = dindex)
  BY DEF ProcessEnds
<1>2. /\ ToUndo(log) \subseteq 1..Len(log)
      /\ \A i \in ToUndo(log) : log[i].txn # 0
  BY SurvivalType
<1>3. ~AtWork' /\ ~Restarted' /\ status' # "recovering"
  BY <1>1 DEF AtWork, Restarted
<1>4. Unwritten'
  BY <1>1 DEF Survival, Unwritten
<1>5. TxnsNumbered'
  <2>1. Len(changes') = 0
    BY <1>1
  <2>2. QED
    BY <2>1, <1>1, <1>3 DEF Survival, TxnsNumbered
<1>6. RowsTraced' /\ ImagesTraced' /\ InsertsFirst' /\ RecoveryTraced'
  BY <1>1, <1>3 DEF Survival, RowsTraced, ImagesTraced, InsertsFirst, RecoveryTraced
<1>7. SlotsTraced'
  <2>1. ASSUME NEW r \in Rids, NEW slot, Traced(r, slot), slot.used
        PROVE  slot.row \in past[r] \/ \E i \in ToUndo(log) : Wrote(log[i], r)
    <3>1. activeTxn # 0 => \A k \in 1..Len(hist) :
            \/ hist[k].view[r] \in past[r]
            \/ \E i \in ToUndo(log) : log[i].txn = activeTxn /\ Wrote(log[i], r)
      BY DEF Survival, RowsTraced
    <3>2. QED
      BY <2>1, <3>1 DEF Traced
  <2>2. ASSUME NEW r \in Rids
        PROVE  slots'[r].used =>
                 slots'[r].row \in past[r] \/ \E i \in ToUndo(log) : Wrote(log[i], r)
    BY <2>1, <1>1 DEF Survival, SlotsTraced
  <2>3. QED
    BY <2>2, <1>1, <1>2 DEF SlotsTraced, Traced
<1>8. QED
  BY <1>3, <1>4, <1>5, <1>6, <1>7 DEF Survival

\* A log without a cut record is read as it was written.
LEMMA WholeLogRead ==
  ASSUME Grounds, lossless, Start
  PROVE  undo' = ToUndo(log)
<1>1. WalOK /\ DTypeOK /\ ImagesKept /\ DOMAIN cuts = {}
  BY DEF Grounds, DInv, DTypeOK, TypeOK
<1>2. PICK recs \in ReadAll : undo' = ToUndo(recs)
  BY DEF Start
<1>3. recs = log
  BY <1>1, ReadAllFromLog DEF DTypeOK
<1>4. QED
  BY <1>2, <1>3

\* And undone as it was written.
LEMMA UndoneAsLogged ==
  ASSUME Grounds, lossless, RecoverOneRecord
  PROVE  /\ \E i \in undo : /\ \A j \in undo : log[j].txn = log[i].txn => j <= i
                           /\ slots' = UndoneSlots(log[i]) /\ undo' = undo \ {i}
         /\ status = "recovering" /\ status' = status
         /\ UNCHANGED <<index, log, nextTxnId, activeTxn, changes, hist, stmt, dslots, dindex,
                        past, exit>>
<1>1. PICK i \in undo : /\ Backwards(i) /\ slots' = RecoveredSlots(uncommitted[i])
                       /\ undo' = undo \ {i}
  BY DEF RecoverOneRecord, InOrder
<1>2. \A j \in undo : uncommitted[j] = log[j] /\ j \in DOMAIN uncommitted /\ j \in 1..Len(log)
  BY DEF Grounds, DInv, RecoveryShape, Whole, DTypeOK, TypeOK, WalOK
<1>3. log[i].rid # 0
  BY <1>2 DEF Grounds, DInv, ImagesKept
<1>4. slots' = UndoneSlots(log[i])
  BY <1>1, <1>2, <1>3 DEF RecoveredSlots
<1>5. \A j \in undo : log[j].txn = log[i].txn => j <= i
  BY <1>1, <1>2 DEF Backwards
<1>6. QED
  BY <1>1, <1>4, <1>5 DEF RecoverOneRecord, walVars, txnVars, diskVars, historyVars

LEMMA StartSurvives ==
  ASSUME Grounds, Survival, lossless, Start
  PROVE  Survival'
<1>1. /\ status = "closed" /\ status' = "recovering"
      /\ slots' = slots /\ index' = index /\ log' = log /\ nextTxnId' = nextTxnId
      /\ activeTxn' = activeTxn /\ changes' = changes /\ hist' = hist /\ stmt' = stmt
      /\ dslots' = dslots /\ dindex' = dindex /\ past' = past
  BY DEF Start, storageVars, txnVars, diskVars, historyVars
<1>2. undo' = ToUndo(log)
  BY WholeLogRead
<1>3. activeTxn = 0
  BY <1>1, SurvivalType DEF TransactionShape
<1>4. ~AtWork /\ ~AtWork' /\ ~Restarted'
  BY <1>1 DEF AtWork, Restarted
<1>5. Unwritten' /\ TxnsNumbered' /\ RowsTraced' /\ ImagesTraced' /\ InsertsFirst'
  BY <1>1, <1>4 DEF Survival, Unwritten, TxnsNumbered, RowsTraced, ImagesTraced, InsertsFirst
<1>6. SlotsTraced'
  BY <1>1 DEF Survival, SlotsTraced, Traced
<1>7. RecoveryTraced'
  BY <1>1, <1>2, <1>3, <1>4 DEF Survival, SlotsTraced, Traced, RecoveryTraced
<1>8. QED
  BY <1>4, <1>5, <1>6, <1>7 DEF Survival

LEMMA RecoverySurvives ==
  ASSUME Grounds, Survival, lossless, RecoverOneRecord
  PROVE  Survival'
<1> DEFINE T == ToUndo(log)
<1>1. PICK i \in undo :
        /\ \A j \in undo : log[j].txn = log[i].txn => j <= i
        /\ slots' = UndoneSlots(log[i]) /\ undo' = undo \ {i}
        /\ status = "recovering" /\ status' = status
        /\ index' = index /\ log' = log /\ nextTxnId' = nextTxnId
        /\ activeTxn' = activeTxn /\ changes' = changes /\ hist' = hist /\ stmt' = stmt
        /\ dslots' = dslots /\ dindex' = dindex /\ past' = past
  BY UndoneAsLogged
<1>2. undo \subseteq T
  BY DEF Survival, RecoveryTraced
<1>3. /\ slots \in [Rids -> Slot] /\ T \subseteq 1..Len(log) /\ Len(log) \in Nat
      /\ \A j \in T : log[j].type \in ChangeTypes /\ log[j].rid \in Rids /\ log[j].txn # 0
      /\ activeTxn = 0
  BY <1>1, SurvivalType DEF TransactionShape
<1> DEFINE c == log[i]
<1>4. c.type \in ChangeTypes /\ c.rid \in Rids /\ i \in T
  BY <1>2, <1>3
<1> HIDE DEF c, T
<1>5. /\ \A r \in Rids \ {c.rid} : slots'[r] = slots[r]
      /\ slots'[c.rid].used = slots[c.rid].used
      /\ (slots'[c.rid].dead <=> c.type = "Insert")
      /\ slots'[c.rid].row = IF c.type = "Update" THEN c.before ELSE slots[c.rid].row
  <2>1. slots' = UndoneSlots(c)
    BY <1>1 DEF c
  <2>2. QED
    BY <2>1, <1>3, <1>4, UndoneSlotsAre
<1>6. ~AtWork /\ ~AtWork' /\ status # "closed" /\ nextTxnId = 1
  BY <1>1 DEF AtWork, Grounds
<1>7. Unwritten'
  <2>1. i \in 1..Len(log)
    BY <1>3, <1>4
  <2>2. log # << >>
    BY <2>1
  <2>3. QED
    BY <2>2, <1>1 DEF Unwritten
<1>8. TxnsNumbered' /\ RowsTraced' /\ ImagesTraced' /\ InsertsFirst'
  BY <1>1, <1>3, <1>6 DEF Survival, TxnsNumbered, RowsTraced, ImagesTraced, InsertsFirst
\* What the undo of an update writes.
<1>9. c.type = "Update" =>
        \/ c.before \in past[c.rid]
        \/ \E j \in undo : j # i /\ Wrote(log[j], c.rid)
  <2>1. ASSUME c.type = "Update", c.before \notin past[c.rid]
        PROVE  \E j \in undo : j # i /\ Wrote(log[j], c.rid)
    <3>1. PICK j \in T : j < i /\ log[j].txn = log[i].txn /\ Wrote(log[j], c.rid)
      BY <2>1, <1>4 DEF Survival, ImagesTraced, c, T
    <3>2. j \in undo
      BY <3>1 DEF Survival, RecoveryTraced, T
    <3>3. j # i
      BY <3>1, <1>3, <1>4
    <3>4. QED
      BY <3>1, <3>2, <3>3
  <2>2. QED
    BY <2>1
<1>10. SlotsTraced'
  <2>1. ASSUME NEW r \in Rids
        PROVE  Traced(r, slots[r])'
    <3>1. slots[r].used => slots[r].row \in past[r] \/ \E j \in T : Wrote(log[j], r)
      BY <1>3 DEF Survival, SlotsTraced, Traced, T
    <3>2. slots'[r].used => slots'[r].row \in past[r] \/ \E j \in T : Wrote(log[j], r)
      <4>1. CASE r # c.rid
        BY <3>1, <4>1, <1>5
      <4>2. CASE r = c.rid /\ c.type = "Update"
        BY <4>2, <1>2, <1>5, <1>9
      <4>3. CASE r = c.rid /\ c.type # "Update"
        BY <3>1, <4>3, <1>5
      <4>4. QED
        BY <4>1, <4>2, <4>3
    <3>3. QED
      BY <3>2, <1>1, <1>3 DEF Traced, T
  <2>2. \A r \in Rids : Traced(r, dslots[r])'
    BY <1>1 DEF Survival, SlotsTraced, Traced
  <2>3. QED
    BY <2>1, <2>2 DEF SlotsTraced
<1>11. RecoveryTraced'
  <2>1. ASSUME NEW k \in undo', NEW j \in T, j < k, log[j].txn = log[k].txn
        PROVE  j \in undo'
    <3>1. k \in undo /\ j \in undo
      BY <2>1, <1>1 DEF Survival, RecoveryTraced, T
    <3>2. j = i => k <= i
      BY <3>1, <2>1, <1>1
    <3>3. j \in Nat /\ k \in Nat
      BY <3>1, <1>2, <1>3
    <3>4. j # i
      BY <3>2, <3>3, <2>1
    <3>5. QED
      BY <3>1, <3>4, <1>1
  <2>2. ASSUME NEW r \in Rids, slots'[r].used
        PROVE  \/ slots'[r].row \in past[r]
               \/ slots'[r].dead /\ \A j \in undo' : log[j].rid # r
               \/ \E j \in undo' : Wrote(log[j], r)
    <3>1. slots[r].used
      BY <2>2, <1>5
    <3>2. \/ slots[r].row \in past[r]
          \/ slots[r].dead /\ \A j \in undo : log[j].rid # r
          \/ \E j \in undo : Wrote(log[j], r)
      BY <3>1, <1>6 DEF Survival, RecoveryTraced
    <3>3. CASE r # c.rid
      <4>1. slots'[r] = slots[r]
        BY <3>3, <1>5
      <4>2. \A j \in undo : log[j].rid = r => j # i
        BY <3>3 DEF c
      <4>3. QED
        BY <3>2, <4>1, <4>2, <1>1 DEF Wrote
    <3>4. CASE r = c.rid /\ c.type = "Insert"
      <4>1. ASSUME NEW j \in undo, j # i, log[j].rid = r
            PROVE  FALSE
        <5>1. i < j /\ log[j].txn = log[i].txn
          BY <3>4, <4>1, <1>2, <1>4 DEF Survival, InsertsFirst, c, T
        <5>2. j <= i
          BY <5>1, <1>1
        <5>3. i \in Nat /\ j \in Nat
          BY <1>2, <1>3, <1>4
        <5>4. QED
          BY <5>1, <5>2, <5>3
      <4>2. slots'[r].dead
        BY <3>4, <1>5
      <4>3. QED
        BY <4>1, <4>2, <1>1
    <3>5. CASE r = c.rid /\ c.type = "Update"
      <4>1. slots'[r].row = c.before
        BY <3>5, <1>5
      <4>2. QED
        BY <3>5, <4>1, <1>1, <1>9
    <3>6. CASE r = c.rid /\ c.type = "Delete"
      <4>1. slots'[r].row = slots[r].row
        BY <3>6, <1>5
      <4>2. \A j \in undo : Wrote(log[j], r) => j # i
        BY <3>6 DEF Wrote, c
      <4>3. QED
        BY <3>2, <3>6, <4>1, <4>2, <1>1 DEF c
    <3>7. QED
      BY <3>3, <3>4, <3>5, <3>6, <1>4 DEF ChangeTypes
  <2>3. QED
    BY <2>1, <2>2, <1>1, <1>2 DEF RecoveryTraced, T
<1>12. QED
  BY <1>6, <1>7, <1>8, <1>10, <1>11 DEF Survival

\* A session with an empty table that has done nothing yet.
LEMMA EmptySessionFits ==
  ASSUME TypeOK, TransactionShape, slots = EmptyHeap, index = EmptyIndex(Keys), activeTxn = 0
  PROVE  IInv
<1>1. changes = << >> /\ hist = << >> /\ stmt.kind = "idle"
  BY DEF TransactionShape
<1>2. HistoryShape /\ HistoryFits /\ Chain /\ SlotsKept /\ StatementValid
  BY <1>1 DEF HistoryShape, HistoryFits, Chain, SlotsKept, StatementValid
<1>3. IndexMatches
  <2>1. \A r \in Rids : View(slots)[r] = NoRow
    BY DEF EmptyHeap, FreeSlot, View, Live
  <2>2. \A k \in Keys : index[k] = << >>
    BY DEF EmptyIndex
  <2>3. QED
    BY <2>1, <2>2 DEF IndexMatches, IndexFits, Snapshot
<1>4. QED
  BY <1>2, <1>3 DEF IInv

\* The engine opens: with nothing in the log it may begin its first
\* transaction, and with a log there the recovery is complete.
LEMMA ReadySurvives ==
  ASSUME Grounds, Survival, EngineReady
  PROVE  Survival'
<1>1. /\ status = "recovering" /\ status' = "open" /\ undo = {} /\ undo' = {}
      /\ slots' = slots /\ index' = index /\ log' = log /\ nextTxnId' = nextTxnId
      /\ activeTxn' = activeTxn /\ changes' = changes /\ hist' = hist /\ stmt' = stmt
      /\ dslots' = dslots /\ dindex' = dindex /\ past' = past /\ UNCHANGED vars
  BY DEF EngineReady, vars, storageVars, walVars, txnVars, diskVars, historyVars
<1>2. /\ TypeOK /\ TransactionShape /\ activeTxn = 0 /\ nextTxnId = 1
      /\ ToUndo(log) \subseteq 1..Len(log)
  BY <1>1, SurvivalType DEF TransactionShape, Grounds
<1>3. ~AtWork /\ (AtWork' => log = << >>)
  BY <1>1, <1>2 DEF AtWork
<1>4. log = << >> => Len(log) = 0 /\ ToUndo(log) = {} /\ slots = EmptyHeap
                     /\ index = EmptyIndex(Keys)
  BY <1>2 DEF Survival, Unwritten
<1>5. (AtWork => IInv)'
  <2>1. ASSUME AtWork' PROVE IInv'
    <3>1. IInv
      BY <2>1, <1>2, <1>3, <1>4, EmptySessionFits
    <3>2. QED
      BY <3>1, <1>1, UnchangedKeeps
  <2>2. QED
    BY <2>1
<1>6. Unwritten' /\ ImagesTraced' /\ SlotsTraced'
  BY <1>1 DEF Survival, Unwritten, ImagesTraced, SlotsTraced, Traced
<1>7. TxnsNumbered' /\ InsertsFirst'
  BY <1>1, <1>3, <1>4 DEF Survival, TxnsNumbered, InsertsFirst
<1>8. RowsTraced'
  <2>1. slots = EmptyHeap => \A r \in Rids : View(slots)[r] = NoRow
    BY DEF EmptyHeap, FreeSlot, View, Live
  <2>2. QED
    BY <2>1, <1>1, <1>2, <1>3, <1>4 DEF RowsTraced, Grounds
<1>9. RecoveryTraced'
  BY <1>1 DEF Survival, RecoveryTraced
<1>10. QED
  BY <1>5, <1>6, <1>7, <1>8, <1>9 DEF Survival

LEMMA SurvivalStep ==
  ASSUME OneRowKeyUpdates, Grounds, Survival, [DNext]_dvars, OneLifetime'
  PROVE  Survival'
<1>1. OneLifetime /\ (SessionStep \/ log' = log)
  BY OneLifetimeBefore
<1>2. CASE SessionStep
  BY <1>2, SessionStepSurvives
<1>3. CASE EvictIndex \/ \E page \in 1..MaxPages : EvictPage(page)
  BY <1>3, EvictionSurvives
<1>4. CASE Shutdown
  <2>1. ProcessEnds(slots, index, Len(log), "clean") /\ log' = log
    BY <1>4, ShutdownEnds, ProcessEndLog
  <2>2. QED
    BY <2>1, EndSurvives
<1>5. CASE Crash
  <2>1. log' = log
    BY <1>5, <1>1 DEF SessionStep, Crash, ProcessEnds
  <2>2. QED
    BY <2>1, <1>5, CrashEnds, EndSurvives
<1>6. CASE Start
  BY <1>1, <1>6, StartSurvives DEF OneLifetime
<1>7. CASE RecoverOneRecord
  BY <1>1, <1>7, RecoverySurvives DEF OneLifetime
<1>8. CASE EngineReady
  BY <1>8, ReadySurvives
<1>9. CASE UNCHANGED dvars
  BY <1>9, StutterSurvives
<1>11. ~CrashInRecord
  BY DEF CrashInRecord, OneLifetime
<1>10. QED
  BY <1>2, <1>3, <1>4, <1>5, <1>6, <1>7, <1>8, <1>9, <1>11 DEF DNext

LEMMA SurvivalInit == DInit => Grounds /\ Survival
<1> SUFFICES ASSUME DInit PROVE Grounds /\ Survival
  OBVIOUS
<1>1. /\ log = << >> /\ Len(log) = 0 /\ changes = << >> /\ Len(changes) = 0 /\ nextTxnId = 1
      /\ activeTxn = 0 /\ status = "open" /\ undo = {} /\ DOMAIN cuts = {} /\ starts = 1
      /\ slots = EmptyHeap /\ dslots = EmptyHeap /\ index = EmptyIndex(Keys)
      /\ dindex = EmptyIndex(Keys) /\ past = [r \in Rids |-> {NoRow}]
  BY DEF DInit, Init
<1>2. Grounds
  BY <1>1, DurabilityInit DEF Grounds, LogBegins
<1>3. ToUndo(log) = {}
  BY <1>1, <1>2, ToUndoInLog DEF Grounds, DInv, DTypeOK
<1>4. IInv
  BY InvariantInit DEF DInit
<1>5. \A r \in Rids : View(slots)[r] = NoRow /\ ~slots[r].used
  BY <1>1 DEF EmptyHeap, FreeSlot, View, Live
<1>6. Unwritten /\ TxnsNumbered /\ ImagesTraced /\ InsertsFirst
  BY <1>1, <1>3 DEF Unwritten, TxnsNumbered, ImagesTraced, InsertsFirst
<1>7. RowsTraced /\ SlotsTraced /\ RecoveryTraced
  BY <1>1, <1>3, <1>5 DEF RowsTraced, SlotsTraced, Traced, RecoveryTraced
<1>8. QED
  BY <1>2, <1>4, <1>6, <1>7 DEF Survival

-----------------------------------------------------------------------------
(* A clean exit is exact.                                                  *)

LEMMA ChangeExact ==
  ASSUME Session, Tracked, OneTransaction, StoryKept, NEW type \in ChangeTypes, NEW rid \in Rids,
         NEW before \in Row \cup {NoRow}, Changed(type, rid, before)
  PROVE  OneTransaction' /\ StoryKept'
<1> DEFINE n == Len(log)
           T == ToUndo(log)
           A == activeTxn
<1>1. /\ A # 0 /\ stmt.kind # "rollback" /\ stmt'.kind # "rollback"
      /\ slots'[rid].used /\ \A r \in Rids \ {rid} : slots'[r] = slots[r]
      /\ type = "Insert" => ~slots[rid].used /\ before = NoRow
      /\ type # "Insert" => Live(slots[rid]) /\ before = slots[rid].row
      /\ type = "Delete" => slots'[rid].dead /\ slots'[rid].row = before
      /\ LogWrite(type, A, rid, before)
      /\ hist' = Append(hist, Snapshot(slots', index')) /\ activeTxn' = A
  BY DEF Changed, RecordChange
<1>2. /\ T \subseteq 1..n /\ n \in Nat /\ A \in Nat /\ AtWork
      /\ \A i \in T : log[i].type \in ChangeTypes /\ log[i].rid \in Rids
  BY SessionFacts DEF Session
<1>3. Grows(type, A, rid, before)
  BY <1>1, <1>2, SessionFacts, LogGrows DEF WalTypes
<1>4. \A i \in 1..n : log[i].type = "Commit" => log[i].txn # A
  BY <1>1 DEF Tracked, TxnsNumbered
<1>5. /\ \A i \in 1..n : log'[i] = log[i]
      /\ log'[n + 1].type = type /\ log'[n + 1].txn = A /\ log'[n + 1].rid = rid
      /\ log'[n + 1].before = before /\ ToUndo(log') = T \cup {n + 1}
  BY <1>3, <1>4 DEF Grows
<1>6. hist'[1] = hist[1]
  <2> DEFINE S == [view : Views, index : Indexes]
  <2>1. hist \in Seq(S) /\ Len(hist) = Len(changes) + 1 /\ Len(changes) \in Nat
    BY <1>1 DEF Session, IInv, TypeOK, TxnOK, HistoryShape, Views, Indexes
  <2> HIDE DEF S
  <2>2. 1 \in 1..Len(hist)
    BY <2>1
  <2>3. QED
    BY <2>1, <2>2, <1>1
<1> HIDE DEF n, T
<1>7. \A i \in T : i \in 1..n /\ i < n + 1 /\ n + 1 \notin T /\ log'[i] = log[i]
  <2>1. \A i \in 1..n : i < n + 1 /\ n + 1 \notin 1..n
    BY <1>2
  <2>2. QED
    BY <2>1, <1>2, <1>5
<1>8. \A i \in T : log[i].txn = A
  BY <1>2 DEF OneTransaction, T
<1>9. ASSUME NEW i \in T, log[i].type = "Delete"
      PROVE  log[i].rid # rid
  <2>1. slots[log[i].rid].used /\ slots[log[i].rid].dead
    BY <1>1, <1>2, <1>9 DEF StoryKept, T
  <2>2. QED
    BY <2>1, <1>1 DEF Live
<1>10. OneTransaction'
  <2>1. ASSUME NEW i \in ToUndo(log'), NEW j \in ToUndo(log')
        PROVE  /\ log'[i].txn = log'[j].txn
               /\ log'[i].type = "Delete" /\ log'[j].rid = log'[i].rid => j <= i
    <3>1. CASE i \in T /\ j \in T
      BY <3>1, <1>7, <1>8 DEF OneTransaction, T
    <3>2. CASE i \in T /\ j = n + 1
      BY <3>2, <1>5, <1>7, <1>8, <1>9
    <3>3. CASE i = n + 1 /\ j \in T
      <4>1. j <= n + 1
        BY <3>3, <1>2, <1>7
      <4>2. QED
        BY <3>3, <4>1, <1>5, <1>7, <1>8
    <3>4. CASE i = n + 1 /\ j = n + 1
      BY <3>4, <1>2
    <3>5. QED
      BY <3>1, <3>2, <3>3, <3>4, <1>5
  <2>2. \A i \in ToUndo(log') : log'[i].txn = activeTxn'
    BY <1>1, <1>5, <1>7, <1>8
  <2>3. QED
    BY <2>1, <2>2 DEF OneTransaction
<1>11. ASSUME NEW r \in Rids
       PROVE  /\ (Untouched(r) => View(slots)[r] = hist[1].view[r])'
              /\ \A i \in ToUndo(log') :
                   /\ (First(i, r) => log[i].before = hist[1].view[r])'
                   /\ log'[i].type = "Delete" /\ log'[i].rid = r =>
                        slots'[r].used /\ slots'[r].dead /\ slots'[r].row = log'[i].before
  <2>1. /\ Untouched(r) => View(slots)[r] = hist[1].view[r]
        /\ \A i \in T :
             /\ First(i, r) => log[i].before = hist[1].view[r]
             /\ log[i].type = "Delete" /\ log[i].rid = r =>
                  slots[r].used /\ slots[r].dead /\ slots[r].row = log[i].before
    BY <1>1 DEF StoryKept, T
  <2>2. \A i \in T : First(i, r)' => First(i, r)
    BY <1>5, <1>7 DEF First, T
  <2>3. CASE r # rid
    <3>1. Untouched(r)' => Untouched(r)
      BY <1>5, <1>7 DEF Untouched, T
    <3>2. View(slots')[r] = View(slots)[r] /\ slots'[r] = slots[r]
      BY <2>3, <1>1 DEF View
    <3>3. \A i \in ToUndo(log') : log'[i].rid = r => i \in T
      BY <2>3, <1>5
    <3>4. QED
      BY <2>1, <2>2, <3>1, <3>2, <3>3, <1>6, <1>7 DEF First
  <2>4. CASE r = rid
    <3>1. ~Untouched(r)'
      BY <2>4, <1>5 DEF Untouched
    <3>2. ASSUME NEW i \in ToUndo(log'), First(i, r)'
          PROVE  log'[i].before = hist'[1].view[r]
      <4>1. CASE i \in T
        BY <3>2, <4>1, <2>1, <2>2, <1>6, <1>7
      <4>2. CASE i = n + 1
        <5>1. \A j \in T : log[j].rid # r
          <6>1. \A j \in T : log'[j].rid = r => n + 1 <= j
            BY <3>2, <4>2, <1>5 DEF First
          <6>2. \A j \in T : ~(n + 1 <= j)
            BY <1>2, <1>7
          <6>3. QED
            BY <6>1, <6>2, <1>7
        <5>2. View(slots)[r] = hist[1].view[r]
          BY <5>1, <2>1 DEF Untouched, T
        <5>3. View(slots)[r] = before
          BY <2>4, <1>1 DEF View, Live, ChangeTypes
        <5>4. QED
          BY <5>2, <5>3, <4>2, <1>5, <1>6
      <4>3. QED
        BY <4>1, <4>2, <1>5
    <3>3. ASSUME NEW i \in ToUndo(log'), log'[i].type = "Delete", log'[i].rid = r
          PROVE  slots'[r].used /\ slots'[r].dead /\ slots'[r].row = log'[i].before
      <4>1. i \notin T
        BY <3>3, <2>4, <1>7, <1>9
      <4>2. QED
        BY <3>3, <4>1, <2>4, <1>1, <1>5
    <3>4. QED
      BY <3>1, <3>2, <3>3
  <2>5. QED
    BY <2>3, <2>4
<1>12. StoryKept'
  BY <1>11 DEF StoryKept
<1>13. QED
  BY <1>10, <1>12

LEMMA WorkExact ==
  ASSUME Grounds, Survival, Exactness, SessionStep, AtWork, NoRollback'
  PROVE  Exactness'
<1>1. Session /\ Tracked /\ Tracked' /\ (nextTxnId' > 1 \/ Quiet)
  <2>1. \A r \in Rids : past[r] \subseteq past'[r]
    BY PastGrows DEF DNext
  <2>2. QED
    BY <2>1, WorkTracked DEF Session, Tracked, Survival, Grounds, SessionStep, diskVars
<1>2. /\ TypeOK /\ TransactionShape /\ StatementValid /\ Next /\ ToUndo(log) \subseteq 1..Len(log)
      /\ Len(log) \in Nat /\ nextTxnId \in Nat /\ activeTxn \in Nat
      /\ \A i \in ToUndo(log) : log[i].txn # 0 /\ log[i].type \in ChangeTypes
      /\ undo' = undo /\ exit' = exit /\ dslots' = dslots
      /\ status = "open" /\ status' = "open"
  BY SurvivalType DEF Survival, IInv, SessionStep, recoverVars, diskVars
<1>3. \A i \in ToUndo(log) : log[i].txn = activeTxn
  BY DEF Exactness, OneTransaction
<1>4. CASE Quiet
  <2>1. /\ slots' = slots /\ log' = log /\ hist' = hist /\ activeTxn' = activeTxn
        /\ nextTxnId' = nextTxnId /\ (stmt.kind = "rollback" => stmt'.kind = "rollback")
    BY <1>4 DEF Quiet, storageVars, walVars, txnVars
  <2>2. OneTransaction'
    BY <2>1, <1>2, <1>3 DEF Exactness, OneTransaction
  <2>3. StoryKept'
    BY <2>1 DEF Exactness, StoryKept, Untouched, First
  <2>4. RecoveryExact'
    BY <2>1, <1>2 DEF Exactness, RecoveryExact, UndoShows, Untouched, First
  <2>5. QED
    BY <2>2, <2>3, <2>4 DEF Exactness
<1>5. CASE ~Quiet
  <2>1. nextTxnId' # 1
    BY <1>1, <1>5
  <2>2. RecoveryExact'
    BY <2>1 DEF RecoveryExact
  <2>3. OneTransaction' /\ StoryKept'
    <3>1. CASE Begins
      <4>1. PICK byUser \in BOOLEAN : BeginTxn(byUser)
        BY <3>1 DEF Begins
      <4>2. /\ LogWrite("Begin", nextTxnId, 0, NoRow) /\ activeTxn = 0 /\ slots' = slots
            /\ hist' = <<Snapshot(slots, index)>>
        BY <3>1, <4>1 DEF Begins, BeginTxn, LogControl, storageVars
      <4>3. Grows("Begin", nextTxnId, 0, NoRow)
        BY <4>2, <1>2, LogGrows DEF WalTypes
      <4>4. ToUndo(log') = {}
        BY <4>2, <4>3, <1>2, <1>3 DEF Grows
      <4>5. hist'[1].view = View(slots')
        BY <4>2, SnapshotFields
      <4>6. QED
        BY <4>4, <4>5 DEF OneTransaction, StoryKept
    <3>2. CASE Changes
      BY <3>2, <1>1, ChangeExact DEF Changes, Exactness
    <3>3. CASE CommitEnds
      <4>1. LogWrite("Commit", activeTxn, 0, NoRow) /\ activeTxn' = 0
        BY <3>3 DEF CommitEnds, CommitTxn, LogControl, EndTxn
      <4>2. Grows("Commit", activeTxn, 0, NoRow)
        BY <4>1, <1>2, LogGrows DEF WalTypes
      <4>3. ToUndo(log') = {}
        BY <4>2, <1>3 DEF Grows
      <4>4. QED
        BY <4>1, <4>3 DEF OneTransaction, StoryKept
    <3>4. CASE UndoOneChange
      BY <3>4, <1>2, <1>3 DEF UndoOneChange, walVars, Exactness, OneTransaction, StoryKept
    <3>5. CASE FinishRollback
      <4>1. LogWrite("Rollback", activeTxn, 0, NoRow)
        BY <3>5 DEF FinishRollback, LogControl
      <4>2. Grows("Rollback", activeTxn, 0, NoRow)
        BY <4>1, <1>2, LogGrows DEF WalTypes
      <4>3. FALSE
        BY <4>2, <1>2 DEF Grows, NoRollback
      <4>4. QED
        BY <4>3
    <3>6. QED
      BY <3>1, <3>2, <3>3, <3>4, <3>5, <1>2, <1>5, StepKinds
  <2>4. QED
    BY <2>2, <2>3 DEF Exactness
<1>6. QED
  BY <1>4, <1>5

\* A clean exit in the middle of a transaction, and one after a recovery.
LEMMA ExitExact ==
  ASSUME Grounds, Survival, Exactness, status = "open", stmt.kind = "idle", NEW r \in Rids
  PROVE  UndoShows(r, slots[r], Committed.view[r])
<1> DEFINE T == ToUndo(log)
<1>1. /\ TransactionShape /\ slots \in [Rids -> Slot] /\ nextTxnId \in Nat \ {0}
      /\ activeTxn \in Nat
      /\ \A i \in T : log[i].type \in ChangeTypes /\ log[i].rid \in Rids /\ log[i].txn # 0
  BY SurvivalType
<1>2. View(slots)[r] = Shown(slots[r])
  BY DEF View, Shown
<1>3. CASE activeTxn = 0
  <2>1. Committed.view[r] = Shown(slots[r])
    BY <1>2, <1>3, SnapshotFields DEF Committed
  <2>2. CASE AtWork
    <3>1. T = {}
      BY <1>1, <1>3, <2>2 DEF Exactness, OneTransaction
    <3>2. QED
      BY <2>1, <3>1 DEF UndoShows
  <2>3. CASE ~AtWork
    <3>1. nextTxnId = 1 /\ undo = {}
      BY <2>3, <1>1 DEF AtWork, TransactionShape
    <3>2. QED
      BY <2>1, <3>1 DEF Exactness, RecoveryExact
  <2>4. QED
    BY <2>2, <2>3
<1>4. CASE activeTxn # 0
  <2>1. Committed.view[r] = hist[1].view[r]
    BY <1>4 DEF Committed
  <2>2. AtWork
    <3>1. activeTxn < nextTxnId
      BY <1>4 DEF Survival, TxnsNumbered
    <3>2. QED
      BY <3>1, <1>1, <1>4 DEF AtWork
  <2>3. \A i \in T : log[i].txn = activeTxn
    BY <2>2 DEF Exactness, OneTransaction
  <2>4. /\ Untouched(r) => View(slots)[r] = hist[1].view[r]
        /\ \A i \in T :
             /\ First(i, r) => log[i].before = hist[1].view[r]
             /\ log[i].type = "Delete" /\ log[i].rid = r =>
                  slots[r].used /\ slots[r].dead /\ slots[r].row = log[i].before
    BY <1>4 DEF Exactness, StoryKept
  <2>5. \A i \in T : slots[log[i].rid].used
                     /\ (log[i].type = "Insert" => hist[1].view[log[i].rid] = NoRow)
    BY <2>2, <2>3 DEF Survival, InsertsFirst
  <2>6. ASSUME NEW i \in T, First(i, r)
        PROVE  hist[1].view[r] = IF log[i].type = "Insert" \/ ~slots[r].used THEN NoRow
                                 ELSE IF log[i].type = "Update" THEN log[i].before
                                 ELSE slots[r].row
    <3>1. log[i].rid = r
      BY <2>6 DEF First
    <3>2. QED
      BY <2>4, <2>5, <2>6, <3>1, <1>1 DEF ChangeTypes
  <2>7. QED
    BY <2>1, <2>4, <2>6, <1>2 DEF UndoShows
<1>5. QED
  BY <1>3, <1>4

LEMMA EndExact ==
  ASSUME Grounds, Survival, Exactness, log' = log, NEW heap \in {slots, dslots}, NEW tree,
         NEW kept, NEW how, ProcessEnds(heap, tree, kept, how),
         how = "clean" => heap = slots /\ status = "open" /\ stmt.kind = "idle"
  PROVE  Exactness'
<1>1. /\ status' = "closed" /\ activeTxn' = 0 /\ slots' = heap /\ dslots' = heap
      /\ exit' = IF nextTxnId = 1 THEN exit ELSE [how |-> how, rows |-> Committed.view]
  BY DEF ProcessEnds
<1>2. ~AtWork'
  BY <1>1 DEF AtWork
<1>3. OneTransaction' /\ StoryKept'
  BY <1>1, <1>2 DEF Exactness, OneTransaction, StoryKept
<1>4. ASSUME exit'.how = "clean", NEW r \in Rids
      PROVE  UndoShows(r, heap[r], exit'.rows[r])
  <2>1. CASE nextTxnId = 1
    BY <1>1, <1>4, <2>1 DEF Exactness, RecoveryExact
  <2>2. CASE nextTxnId # 1
    <3>1. how = "clean" /\ exit'.rows = Committed.view
      BY <1>1, <1>4, <2>2
    <3>2. UndoShows(r, slots[r], Committed.view[r])
      BY <3>1, ExitExact
    <3>3. QED
      BY <3>1, <3>2
  <2>3. QED
    BY <2>1, <2>2
<1>5. RecoveryExact'
  BY <1>1, <1>4 DEF RecoveryExact, UndoShows, Untouched, First
<1>6. QED
  BY <1>3, <1>5 DEF Exactness

LEMMA StartExact ==
  ASSUME Grounds, Survival, Exactness, lossless, Start
  PROVE  Exactness'
<1>1. /\ status = "closed" /\ status' = "recovering"
      /\ slots' = slots /\ dslots' = dslots /\ log' = log /\ nextTxnId' = nextTxnId
      /\ activeTxn' = activeTxn /\ hist' = hist /\ stmt' = stmt /\ exit' = exit
  BY DEF Start, storageVars, txnVars, diskVars, historyVars
<1>2. undo' = ToUndo(log) /\ ~AtWork'
  BY <1>1, WholeLogRead DEF AtWork
<1>3. OneTransaction' /\ StoryKept'
  BY <1>1, <1>2 DEF Exactness, OneTransaction, StoryKept, Untouched, First
<1>4. ASSUME NEW r \in Rids, \A i \in undo' : log[i].rid # r
      PROVE  UndoShows(r, slots[r], Shown(slots[r]))
  BY <1>2, <1>4 DEF UndoShows, First
<1>5. RecoveryExact'
  BY <1>1, <1>2, <1>4 DEF Exactness, RecoveryExact, UndoShows, Untouched, First
<1>6. QED
  BY <1>3, <1>5 DEF Exactness

LEMMA StutterExact ==
  ASSUME Exactness, UNCHANGED dvars
  PROVE  Exactness'
<1>1. /\ status' = status /\ slots' = slots /\ dslots' = dslots /\ log' = log
      /\ nextTxnId' = nextTxnId /\ activeTxn' = activeTxn /\ hist' = hist /\ stmt' = stmt
      /\ undo' = undo /\ exit' = exit
  BY DEF dvars, vars, storageVars, walVars, txnVars, diskVars, recoverVars, historyVars
<1>2. OneTransaction' /\ StoryKept'
  BY <1>1 DEF Exactness, OneTransaction, StoryKept, Untouched, First, AtWork
<1>3. RecoveryExact'
  BY <1>1 DEF Exactness, RecoveryExact, UndoShows, Untouched, First
<1>4. QED
  BY <1>2, <1>3 DEF Exactness

LEMMA EvictionExact ==
  ASSUME Grounds, Survival, Exactness, EvictIndex \/ \E page \in 1..MaxPages : EvictPage(page)
  PROVE  Exactness'
<1>1. /\ status' = status /\ slots' = slots /\ log' = log /\ nextTxnId' = nextTxnId
      /\ activeTxn' = activeTxn /\ hist' = hist /\ stmt' = stmt /\ undo' = undo /\ exit' = exit
  BY DEF EvictPage, EvictIndex, vars, storageVars, walVars, txnVars, recoverVars, historyVars
<1>2. \A r \in Rids : dslots'[r] = slots[r] \/ dslots'[r] = dslots[r]
  <2>1. slots \in [Rids -> Slot] /\ dslots \in [Rids -> Slot]
    BY SurvivalType
  <2>2. QED
    BY <2>1 DEF EvictIndex, EvictPage
<1>3. OneTransaction' /\ StoryKept'
  BY <1>1 DEF Exactness, OneTransaction, StoryKept, Untouched, First, AtWork
<1>4. ASSUME nextTxnId = 1, exit.how = "clean", NEW r \in Rids
      PROVE  UndoShows(r, dslots'[r], exit.rows[r])
  BY <1>2, <1>4 DEF Exactness, RecoveryExact
<1>5. RecoveryExact'
  BY <1>1, <1>4 DEF Exactness, RecoveryExact, UndoShows, Untouched, First
<1>6. QED
  BY <1>3, <1>5 DEF Exactness

LEMMA RecoveryStepExact ==
  ASSUME Grounds, Survival, Exactness, lossless, RecoverOneRecord
  PROVE  Exactness'
<1> DEFINE T == ToUndo(log)
<1>1. PICK i \in undo :
        /\ slots' = UndoneSlots(log[i]) /\ undo' = undo \ {i}
        /\ status = "recovering" /\ status' = status
        /\ log' = log /\ nextTxnId' = nextTxnId
        /\ activeTxn' = activeTxn /\ hist' = hist /\ stmt' = stmt /\ exit' = exit
        /\ dslots' = dslots
  BY UndoneAsLogged
<1>2. /\ slots \in [Rids -> Slot] /\ T \subseteq 1..Len(log) /\ Len(log) \in Nat
      /\ \A j \in T : log[j].type \in ChangeTypes /\ log[j].rid \in Rids
      /\ activeTxn = 0
  BY <1>1, SurvivalType DEF TransactionShape
<1> DEFINE c == log[i]
<1>3. undo \subseteq T /\ i \in T /\ c.type \in ChangeTypes /\ c.rid \in Rids
  BY <1>2 DEF Survival, RecoveryTraced
<1>4. ~AtWork' /\ status # "closed"
  BY <1>1 DEF AtWork, Grounds
<1> HIDE DEF c, T
<1>5. /\ \A r \in Rids \ {c.rid} : slots'[r] = slots[r]
      /\ slots'[c.rid].used = slots[c.rid].used
      /\ (slots'[c.rid].dead <=> c.type = "Insert")
      /\ slots'[c.rid].row = IF c.type = "Update" THEN c.before ELSE slots[c.rid].row
  <2>1. slots' = UndoneSlots(c)
    BY <1>1 DEF c
  <2>2. QED
    BY <2>1, <1>2, <1>3, UndoneSlotsAre
<1>6. OneTransaction' /\ StoryKept'
  BY <1>1, <1>2, <1>4 DEF Exactness, OneTransaction, StoryKept
<1>7. \A r, m, row : First(m, r)' <=> First(m, r)
  BY <1>1 DEF First
<1>8. \A r : Untouched(r)' <=> Untouched(r)
  BY <1>1 DEF Untouched
\* What the recovery leads to is as before it: the undo of an insert or an
\* update is told from the record, and a deleted row is what it was.
<1>9. ASSUME NEW r \in Rids, NEW row, UndoShows(r, slots[r], row)
      PROVE  UndoShows(r, slots'[r], row)
  <2>1. CASE r # c.rid
    BY <2>1, <1>5, <1>9
  <2>2. CASE r = c.rid
    <3>1. ~Untouched(r)
      BY <2>2, <1>3 DEF Untouched, T, c
    <3>2. ASSUME NEW m \in T, First(m, r), log[m].type = "Delete"
          PROVE  slots'[r].row = slots[r].row
      <4>1. m <= i /\ i <= m
        BY <2>2, <3>2, <1>3 DEF Exactness, OneTransaction, First, T, c
      <4>2. m = i
        BY <4>1, <1>2, <1>3
      <4>3. QED
        BY <4>2, <3>2, <2>2, <1>5 DEF c
    <3>3. \A m \in T : First(m, r) =>
            row = IF log[m].type = "Insert" \/ ~slots[r].used THEN NoRow
                  ELSE IF log[m].type = "Update" THEN log[m].before ELSE slots[r].row
      BY <1>9 DEF UndoShows, T
    <3>4. \A m \in T : First(m, r) =>
            row = IF log[m].type = "Insert" \/ ~slots'[r].used THEN NoRow
                  ELSE IF log[m].type = "Update" THEN log[m].before ELSE slots'[r].row
      <4>1. \A m \in T : log[m].type \in {"Insert", "Update", "Delete"}
        BY <1>2 DEF ChangeTypes
      <4>2. QED
        BY <4>1, <3>2, <3>3, <2>2, <1>5
    <3>5. QED
      BY <3>1, <3>4 DEF UndoShows, T
  <2>3. QED
    BY <2>1, <2>2
\* A slot whose last change has been undone shows what it leads to.
<1>10. ASSUME NEW r \in Rids, nextTxnId = 1, \A j \in undo' : log[j].rid # r
       PROVE  UndoShows(r, slots'[r], Shown(slots'[r]))
  <2>1. CASE r # c.rid
    <3>1. \A j \in undo : log[j].rid # r
      BY <2>1, <1>1, <1>10 DEF c
    <3>2. UndoShows(r, slots[r], Shown(slots[r]))
      BY <3>1, <1>4, <1>10 DEF Exactness, RecoveryExact
    <3>3. QED
      BY <2>1, <3>2, <1>5
  <2>2. CASE r = c.rid
    <3>1. ~Untouched(r)
      BY <2>2, <1>3 DEF Untouched, T, c
    <3>2. ASSUME NEW m \in T, First(m, r)
          PROVE  m = i
      <4>1. m <= i /\ log[m].rid = r
        BY <2>2, <3>2, <1>3 DEF First, T, c
      <4>2. m < i => m \in undo
        BY <1>3 DEF Survival, RecoveryTraced, Exactness, OneTransaction, T
      <4>3. m \in undo => m = i
        BY <4>1, <1>1, <1>10
      <4>4. m \in Nat /\ i \in Nat
        BY <1>2, <1>3
      <4>5. QED
        BY <4>1, <4>2, <4>3, <4>4
    <3>3. Shown(slots'[r]) =
            IF c.type = "Insert" \/ ~slots'[r].used THEN NoRow
            ELSE IF c.type = "Update" THEN c.before ELSE slots'[r].row
      BY <2>2, <1>3, <1>5 DEF Shown, Live
    <3>4. QED
      BY <3>1, <3>2, <3>3 DEF UndoShows, T, c
  <2>3. QED
    BY <2>1, <2>2
<1>11. ASSUME NEW r
       PROVE  /\ UndoShows(r, slots'[r], exit.rows[r]) => UndoShows(r, slots[r], exit.rows[r])'
              /\ UndoShows(r, slots'[r], Shown(slots'[r])) =>
                   UndoShows(r, slots[r], Shown(slots[r]))'
  BY <1>1, <1>7, <1>8 DEF UndoShows, Shown, Live
<1>12. RecoveryExact'
  <2>1. nextTxnId = 1 /\ exit.how = "clean" => \A r \in Rids : UndoShows(r, slots'[r], exit.rows[r])
    BY <1>9 DEF Exactness, RecoveryExact
  <2>2. nextTxnId = 1 /\ exit.how = "clean" =>
          \A r \in Rids : UndoShows(r, dslots[r], exit.rows[r])'
    BY <1>1, <1>7, <1>8 DEF Exactness, RecoveryExact, UndoShows
  <2>3. QED
    BY <2>1, <2>2, <1>1, <1>10, <1>11 DEF RecoveryExact
<1>13. QED
  BY <1>6, <1>12 DEF Exactness

LEMMA ReadyExact ==
  ASSUME Grounds, Survival, Exactness, EngineReady
  PROVE  Exactness'
<1>1. /\ status = "recovering" /\ status' = "open" /\ undo' = undo
      /\ slots' = slots /\ dslots' = dslots /\ log' = log /\ nextTxnId' = nextTxnId
      /\ activeTxn' = activeTxn /\ hist' = hist /\ stmt' = stmt /\ exit' = exit
  BY DEF EngineReady, vars, storageVars, walVars, txnVars, diskVars, historyVars
<1>2. nextTxnId = 1 /\ ToUndo(log) \subseteq 1..Len(log)
  BY <1>1, SurvivalType DEF Grounds
<1>3. AtWork' => ToUndo(log) = {}
  BY <1>1, <1>2 DEF AtWork
<1>4. OneTransaction'
  BY <1>1, <1>3 DEF Exactness, OneTransaction
<1>5. StoryKept'
  BY <1>1 DEF Exactness, StoryKept, Untouched, First
<1>6. RecoveryExact'
  BY <1>1 DEF Exactness, RecoveryExact, UndoShows, Untouched, First
<1>7. QED
  BY <1>4, <1>5, <1>6 DEF Exactness

\* While nothing is lost the log never gets shorter.
LEMMA NoRollbackBefore ==
  ASSUME Grounds, [DNext]_dvars, OneLifetime', NoRollback'
  PROVE  NoRollback
<1>1. SessionStep \/ log' = log
  BY OneLifetimeBefore
<1>2. CASE SessionStep
  <2>1. Extends(log', log) /\ Len(log) \in Nat /\ Len(log') \in Nat
    BY <1>2, SessionLog, GroundsStep DEF Grounds, DInv, DTypeOK, TypeOK, WalOK
  <2>2. \A i \in 1..Len(log) : i \in 1..Len(log') /\ log'[i] = log[i]
    BY <2>1 DEF Extends
  <2>3. QED
    BY <2>2 DEF NoRollback
<1>3. CASE log' = log
  BY <1>3 DEF NoRollback
<1>4. QED
  BY <1>1, <1>2, <1>3

LEMMA ExactStep ==
  ASSUME OneRowKeyUpdates, Grounds, Survival, Exactness, [DNext]_dvars, OneLifetime', NoRollback'
  PROVE  Exactness'
<1>1. OneLifetime /\ (SessionStep \/ log' = log)
  BY OneLifetimeBefore
<1>2. CASE SessionStep /\ AtWork
  BY <1>2, WorkExact
<1>3. CASE SessionStep /\ ~AtWork
  <2>1. UNCHANGED dvars
    BY <1>3, NoSecondLifetime
  <2>2. QED
    BY <2>1, StutterExact
<1>4. CASE EvictIndex \/ \E page \in 1..MaxPages : EvictPage(page)
  BY <1>4, EvictionExact
<1>5. CASE Shutdown
  <2>1. ProcessEnds(slots, index, Len(log), "clean") /\ log' = log
    BY <1>5, ShutdownEnds, ProcessEndLog
  <2>2. status = "open" /\ stmt.kind = "idle"
    BY <1>5 DEF Shutdown
  <2>3. QED
    BY <2>1, <2>2, EndExact
<1>6. CASE Crash
  <2>1. log' = log
    BY <1>6, <1>1 DEF SessionStep, Crash, ProcessEnds
  <2>2. PICK kept : ProcessEnds(dslots, dindex, kept, "crash")
    BY <1>6 DEF Crash
  <2>3. QED
    BY <2>1, <2>2, EndExact
<1>7. CASE Start
  BY <1>1, <1>7, StartExact DEF OneLifetime
<1>8. CASE RecoverOneRecord
  BY <1>1, <1>8, RecoveryStepExact DEF OneLifetime
<1>9. CASE EngineReady
  BY <1>9, ReadyExact
<1>10. CASE UNCHANGED dvars
  BY <1>10, StutterExact
<1>11. ~CrashInRecord
  BY DEF CrashInRecord, OneLifetime
<1>12. QED
  BY <1>2, <1>3, <1>4, <1>5, <1>6, <1>7, <1>8, <1>9, <1>10, <1>11 DEF DNext

-----------------------------------------------------------------------------
(* The theorems.                                                           *)

LEMMA SurvivalInvariantInit ==
  DInit => SInv
<1> SUFFICES ASSUME DInit PROVE SInv
  OBVIOUS
<1>1. Grounds /\ Survival
  BY SurvivalInit
<1>2. log = << >> /\ Len(log) = 0 /\ activeTxn = 0 /\ exit.how = "none" /\ slots = EmptyHeap
  BY DEF DInit, Init
<1>3. ToUndo(log) = {}
  BY <1>1, <1>2, SurvivalType
<1>4. Exactness
  BY <1>2, <1>3 DEF Exactness, OneTransaction, StoryKept, RecoveryExact, UndoShows
<1>5. QED
  BY <1>1, <1>4 DEF SInv, Grounds

LEMMA SurvivalInvariantStep ==
  OneRowKeyUpdates /\ SInv /\ [DNext]_dvars => SInv'
<1> SUFFICES ASSUME OneRowKeyUpdates, SInv, [DNext]_dvars PROVE SInv'
  OBVIOUS
<1>1. Grounds
  BY DEF SInv, Grounds
<1>2. Grounds'
  BY <1>1, GroundsStep
<1>3. ASSUME OneLifetime' PROVE Survival'
  BY <1>1, <1>3, OneLifetimeBefore, SurvivalStep DEF SInv
<1>4. ASSUME OneLifetime', NoRollback' PROVE Exactness'
  <2>1. Survival /\ Exactness
    BY <1>1, <1>4, OneLifetimeBefore, NoRollbackBefore DEF SInv
  <2>2. QED
    BY <1>1, <1>4, <2>1, ExactStep
<1>5. QED
  BY <1>2, <1>3, <1>4 DEF SInv, Grounds

\* For every table, page size and bound: the log, the heap in memory and on
\* disk and a recovery in progress stay related as SInv says, whatever
\* statements run, whenever pages are written, and wherever the process exits
\* or crashes, in a recovery too; where an UPDATE that assigns the primary
\* key matches at most one row.
THEOREM SurvivalInvariantHolds ==
  ASSUME OneRowKeyUpdates
  PROVE  DSpec => []SInv
<1>1. DInit => SInv
  BY SurvivalInvariantInit
<1>2. SInv /\ [DNext]_dvars => SInv'
  BY SurvivalInvariantStep
<1>3. QED
  BY <1>1, <1>2, PTL DEF DSpec

\* Recover, AkatsukiEngine.cpp: once it is complete every slot shows a value
\* that a committed transaction gave it, however many crashes interrupted it,
\* in one lifetime of transactions whose log is whole.
THEOREM UncommittedNeverSurvives ==
  ASSUME OneRowKeyUpdates
  PROVE  DSpec => []NothingUncommittedSurvives
<1>1. ASSUME SInv PROVE NothingUncommittedSurvives
  <2>1. SUFFICES ASSUME Restarted, lossless, ~IdsReused(log), NEW r \in Rids
                 PROVE  View(slots)[r] \in past[r]
    BY DEF NothingUncommittedSurvives
  <2>2. Survival /\ NoRow \in past[r]
    BY <1>1, <2>1 DEF SInv, OneLifetime
  <2>3. undo = {} /\ status = "open" /\ nextTxnId = 1
    BY <1>1, <2>1 DEF SInv, DInv, TransactionShape, Restarted
  <2>4. slots[r].used => slots[r].row \in past[r] \/ slots[r].dead
    BY <2>2, <2>3 DEF Survival, RecoveryTraced
  <2>5. View(slots)[r] = IF Live(slots[r]) THEN slots[r].row ELSE NoRow
    BY DEF View
  <2>6. QED
    BY <2>2, <2>4, <2>5 DEF Live
<1>2. QED
  BY <1>1, SurvivalInvariantHolds, PTL

\* AkatsukiEngine's destructor and Recover: a clean exit with a transaction
\* open, any recoveries that crash and one that is complete leave exactly the
\* committed rows, if nothing was ever rolled back, in one lifetime of
\* transactions whose log is whole.
THEOREM CleanRestartAlwaysExact ==
  ASSUME OneRowKeyUpdates
  PROVE  DSpec => []CleanRestartIsExact
<1>1. ASSUME SInv PROVE CleanRestartIsExact
  <2>1. SUFFICES ASSUME Restarted, exit.how = "clean", lossless, ~IdsReused(log),
                        \A i \in DOMAIN log : log[i].type # "Rollback", NEW r \in Rids
                 PROVE  View(slots)[r] = exit.rows[r]
    BY DEF CleanRestartIsExact
  <2>2. Grounds /\ log \in Seq(WalRecord)
    BY <1>1 DEF SInv, Grounds, DInv, DTypeOK, TypeOK, WalOK
  <2>3. Survival /\ Exactness
    <3>1. NoRollback
      BY <2>1, <2>2 DEF NoRollback
    <3>2. QED
      BY <1>1, <2>1, <3>1 DEF SInv, OneLifetime
  <2>4. undo = {} /\ status = "open" /\ nextTxnId = 1
    BY <1>1, <2>1 DEF SInv, DInv, TransactionShape, Restarted
  <2>5. UndoShows(r, slots[r], exit.rows[r]) /\ UndoShows(r, slots[r], Shown(slots[r]))
    BY <2>1, <2>3, <2>4 DEF Exactness, RecoveryExact
  <2>6. Untouched(r) \/ \E i \in ToUndo(log) : First(i, r)
    <3>1. SUFFICES ASSUME ~Untouched(r)
                   PROVE  \E i \in ToUndo(log) : First(i, r)
      OBVIOUS
    <3> DEFINE Its == {i \in ToUndo(log) : log[i].rid = r}
    <3>2. Its \in SUBSET Nat /\ Its # {}
      BY <2>2, <2>3, <3>1, SurvivalType DEF Untouched
    <3> HIDE DEF Its
    <3>3. PICK i \in Its : \A j \in Its : i <= j
      BY <3>2, LeastNatural
    <3>4. QED
      BY <3>3 DEF Its, First
  <2>7. Shown(slots[r]) = exit.rows[r]
    BY <2>5, <2>6 DEF UndoShows
  <2>8. QED
    BY <2>7 DEF View, Shown
<1>2. QED
  BY <1>1, SurvivalInvariantHolds, PTL
=============================================================================
