# AkatsukiDB in TLA+

AkatsukiDB is an embedded relational database in C++: a REPL hands a text to
`AkatsukiEngine::Execute`, which tokenizes, parses and executes it against heap
files, B+ tree indexes and a write-ahead log. This directory models the parts
that keep state, model-checks them with TLC and proves the most important
results with TLAPS. Line numbers below are those of the repository's files.

## 1. The system

One process, one thread, one statement at a time, at most one transaction. What
makes it hard is not concurrency but *order within a statement*, *errors half
way*, *pages that reach the disk whenever the cache wants*, *what the next
process finds*, and *indexes that see a row only by the bytes of its key*.

| Component | State | Operations | Talks to |
|---|---|---|---|
| `PageManager` | file, `_totalPages` | read, write, allocate page | file system |
| `LruCache` | map and list of pages | `Get`, `Put` with `OnEvict` | callback into `BufferPool` |
| `BufferPool` | one cache, one file | `GetPage`, `AllocatePage`, `FlushAll` | both above |
| `TableManager` | pages of row slots | insert, update, delete, undelete, scan | its own `BufferPool` |
| `BPlusTree` | nodes in pages, root id | insert, delete, point and range query | its own `BufferPool` |
| `WalManager` | log file and its `FILE` buffer, `_nextLsn` | `Log*`, `Flush`, `ReadAll` | file system |
| `TransactionManager` | `_nextTxnId`, `_activeTxnId`, change lists | `Begin`, `Record*`, `Commit`, `End` | `WalManager` |
| `Executor` | none of its own | one method per statement | all of the above, `ScanPlanner` |
| `TableRegistry` | schemas, auto-increment counters | create, save, drop | JSON files |
| `_referencedBy` | for each table the foreign keys that refer to it | CREATE TABLE adds, a start rebuilds | read by DELETE |
| `AkatsukiEngine` | owns everything | constructor, `Recover`, `Execute`, `Dispose` | all of the above |
| `ScanPlanner`, `QueryValidatorAndBinder` | none | pick a scan; check and complete names | schemas, indexes |
| `IndexKey`, `RowSerializer` | none | values to bytes and back | |
| `Tokenizer`, `Parser` | none | text to statements | |

What makes each correct:

* **Buffer pool**: a read sees the last write whatever was evicted meanwhile; a
  page somebody still holds a pointer to must not be evicted (nothing pins it).
* **B+ tree**: a query returns exactly what is stored, through every split,
  borrow and merge; balanced; leaf chain in order.
* **Heap, index, log and change list** of a statement tell the same story after
  every row, also when the statement fails there.
* **Transactions**: rollback restores the table and its index; what is committed
  is forced to the log; auto-commit really commits.
* **Recovery**: what was not committed is gone, what was is not undone.
* **Constraints**: foreign keys hold through INSERT, UPDATE, RESTRICT, CASCADE,
  rollback and restart; unique indexes stay unique; generated keys are fresh.
* **SELECT**: the answer is that of the tables, whichever plan, index, hash table
  or text key it went through, stage by stage.
* **Keys**: order and identity of encoded keys are those of the values.
* **Parser**: a statement means what was written: ranks of operators, grouping, no clause lost.

The file PROJECT.json lists every component and every hazard with its line.

## 2. Modules

| Module | Models | Extends / uses |
|---|---|---|
| `TableHeap` | `TableManager` as operators on an array of slots | |
| `KeyIndex` | what the executor expects of a `BPlusTree`, as operators | |
| `Session` | INSERT, UPDATE, DELETE, BEGIN, COMMIT, ROLLBACK with `TransactionManager` and `WalManager`, one process | `TableHeap`, `KeyIndex` |
| `AtomicTable` | abstract: a committed and a working state, commit or abort | |
| `SessionInvariant` | the inductive invariant `IInv` of `Session` | `Session` |
| `SessionProofs` | the proofs about `Session` | `SessionInvariant`, `DataInduction` |
| `Durability` | files, page write-back, crash, clean exit, start, `Recover` | `Session` |
| `DurabilityInvariant` | the inductive invariant `DInv` of `Durability` | `Durability` |
| `SurvivalInvariant` | the inductive invariant `SInv`: what slots, log and undo set say of each other | `DurabilityInvariant`, `SessionInvariant` |
| `DurabilityProofs` | the proofs about `Durability` and what a restart leaves | `SurvivalInvariant`, `SessionProofs` |
| `DataInduction` | induction over numbers stated on sets; recursive functions exist | |
| `PageStore` | abstract: pages with a current and a saved content, and who holds them | |
| `BufferPool` | `BufferPool`, `LruCache`, `PageManager` of one file, and its callers | refines `PageStore` |
| `BufferPoolProofs` | the proofs about `BufferPool` | `BufferPool` |
| `BPlusTree` | nodes, searches, splits, borrowing, merging | checked against `KeyIndex` |
| `BPlusTreeInvariant` | the inductive invariant `GoodTree` and `TInv` of `BPlusTree` | `BPlusTree` |
| `BPlusTreeLemmas` | searches, sequences, and what a changed node leaves of the invariant | `BPlusTreeInvariant`, `DataInduction` |
| `BPlusTreeNodeProofs` | the proofs about one level: split, borrow, merge | `BPlusTreeLemmas` |
| `BPlusTreeProofs` | the proofs about Insert, Delete, queries and balance | `BPlusTreeNodeProofs` |
| `Values` | `DbObject`, its conversions, comparison, arithmetic, LIKE; what a column gives back | |
| `Expressions` | expression trees, name checks and binding, `GetValue`, `EvaluateBool` | `Values` |
| `IndexKey` | values to key bytes, comparison of keys | `Values` |
| `IndexKeyProofs` | the proofs about `IndexKey` | `IndexKey` |
| `OrderedIndex` | what the executor expects of a `BPlusTree` of encoded keys | `IndexKey` |
| `ScanPlanner` | `Decide`, `GetScannedRows` | `Expressions`, `OrderedIndex` |
| `Relations` | every statement that writes, as an operator on a database | `ScanPlanner` |
| `Select` | every stage of a SELECT, as an operator on rows | `Relations` |
| `Parser` | the statements, and how a sequence of tokens becomes one | `Select` |
| `StatementText` | how a statement is written: what the parser is held against | `Parser` |
| `Database` | one process that runs texts: transactions, restarts, SELECT stage by stage | `Parser` |
| `DatabaseProperties` | what it promises, and reference definitions of query results | `Database`, `StatementText` |
| `MC*` | values of constants for TLC | |

### Session

One table with a primary key (`key`) and one more column (`val`), NOT NULL.
A row id is the position of a slot in the file, so row-id order is the
(page, slot) order of scans. `index` maps a key to the sequence of row ids
stored under it; `TreeDelete` removes the first entry whatever row it belongs
to, as `DeleteFromLeaf` does.

A statement is several steps: one that plans it and begins a transaction if
there is none (`InsertStatement`, `UpdateStatement`, `DeleteStatement`), one for
every row (`InsertOneRow`, `UpdateOneRow`, `DeleteOneRow`), and the end
(`FinishStatement`, the `AutoCommit`). A refusal (`InsertRejected`, or `Idle` out of
`UpdateStatement`) leaves everything as it is at that moment, the transaction
included, because the code returns there. ROLLBACK is `RollbackStatement`,
then `UndoOneChange` from the last change to the first, then `FinishRollback`.
In-between states matter to `Durability`, which can crash there. Within a row
step the order of heap, log and index writes is not visible: the only call
between them that touches the disk is the write-back of a page, and a crash
there leaves one record more in the log's buffer than the step before, whose
undo has no effect.

`stmt` is the statement in progress; `explicit` and `hist` are history
variables (who began the transaction; the table and index at its begin and
after each change).

### AtomicTable

`db` is the committed state, `work` the current one. Only a commit changes `db`;
an abort ends with `work = db`. `Session` implements it with `db` = the snapshot
at the begin of the open transaction.

### Durability

Adds the table file (`dslots`), the index file (`dindex`) and the places of the log
where a crash cut the record (`cuts`). `EvictPage` and `EvictIndex` may happen at any
time: in the code when the cache (1024 pages a file, `BufferPool.hpp:15`) needs
room, and which page it takes depends on all earlier accesses. `Crash` keeps
the files, the log up to the last `Flush` and any number of the records behind it
(the `FILE` buffer overflows when it likes); `CrashInRecord` keeps the last of them in
part. `Start` is the constructor up to the point where `Recover` knows what
to undo: `uncommitted`, the records, and `undo`, their places in the log. `RecoverOneRecord` takes the newest
record of a transaction that is half undone, or of any other (`unordered_map`), and
undoes it in the heap only ("we are not removing from the index for
simplicity", `AkatsukiEngine.cpp:139`); a crash may interrupt it. Page write-back
goes to the operating system and `fsync` is called for the log only, so a crash
here is one of the process, not of the machine. The first process finds files
that an earlier one created and closed.

A cut record stays in the file: nothing shortens it, and `Write` seeks to its end
(`WalManager.cpp:82`), so what the next process logs, a Begin first, is read as the missing
part. `ReadAll` is therefore a set of results, one of which each `Start` takes, over what the cut
leaves open (`Mixed`, `Readable`). With a header of 60 bytes, of which a Begin has the magic number
at 0, `Lsn` at 4, `TxnId` at 8, `Type` at 12, -1 twice at 16, `RowDataSize` 0 at 24
and the name at 28:

| Bytes kept of the record | What the next header makes of it | In `cuts` |
|---|---|---|
| 1 to 3 | a wrong magic number: reading ends, whatever follows | `magic` |
| 4 to 11 | the two -1 fall on `RowDataSize`: 4 GB are asked for and not there, so reading ends; a second partial record in between moves the fields, and `Lsn` and `TxnId` may be anything | `fields` |
| 12 to 23 | number and transaction are right (12: up to the type), the name is none of a table: `Recover` passes the record over, but if it is a Commit it counts | `fields` |
| 24 to 27 | a size of parts of two: as from 4 | `fields` |
| 28 to 59 | the table name may be spoilt | `image` |
| 60 and more | the image ends with the bytes of the next records | `image` |

A completed record takes bytes of those behind it with it. Reading then meets the middle of a
record and ends, unless the bytes taken end where one begins. The model leaves that
open instead of counting bytes, and takes any row for a completed image and any of `Strays` for
a number that bytes may show. Not modelled: a row image that itself holds the bytes of a header, and
that `resize` to 4 GB may throw.

`exit` remembers how the last lifetime that began a transaction ended, so that later
ones, which only recover, crash or exit, do not change what is to be expected.

### PageStore

What callers may rely on: `store` is what they read, `saved` the file, `users` the
pages they hold. A page changes only by the write of a caller that holds it;
fetching a page may save at most one other; a close saves all, a crash falls back
to what is saved. A pool that drops a dirty page on eviction, or hands out a page
it has not read back, takes a step this module does not have.

### BufferPool

`rank` is the position of a page in the LRU list from the head (0: no node),
`size` the size of the map, `frame` the cached copy with its dirty flag. `held[p]`
counts the `GetPage` calls since a caller fetched `p` and still uses the pointer.
The constant `HoldMax` is the most calls any caller makes while holding one;
`HoldMax < Capacity` is the assumption under which nothing goes wrong. In the
code it is the depth of a tree and the siblings on the way (or one page for
`TableManager` and `GetScannedRows`), far below 1024.

### BPlusTree

`nodes` is the sequence of allocated nodes; `stored` is a history variable, the
index as `KeyIndex` has it. `Insert` and `Delete` are the whole recursive calls:
the leaf on the path changes and every level above it in turn. `SplitLeaf` sorts
by key alone with `std::sort`, so a new entry may come to lie anywhere among its
equals (`SortedWith`). A node merged away is never reachable again and never reused; the model
drops its content. A `Delete` of a missing key returns false and changes nothing, and is no step.

Two constants exclude two places where the code goes wrong, so that everything
else can be checked:

* `AtSeparator = FALSE`: no node is rebalanced after the deletion of a key equal to
  the separator in front of it. `DeleteRec` takes the lower bound of the key for
  the index of the child (`BPlusTree.cpp:281`), one less than the child it went
  into (`:62`). The run `tree_delete` allows it and loses a key.
* `RightLends = FALSE`: no internal node borrows from its right sibling. The code
  writes the right sibling's *new* first key into the parent (`:386`) where the
  key that left it belongs. Setting `RightLends = TRUE` alone in `BPlusTree.cfg` also
  makes TLC report `PointQueriesExact`.

`Session` uses `KeyIndex` in place of the tree. That is justified (and
proved, section 4) for unique keys on trees where these two cases do not occur; where they do, the executor works
with an index that has lost entries, which no other module describes.

### Values, Expressions, IndexKey, ScanPlanner

A value is a record of one shape (`type`, `num`, `den`, `text`), since TLC has to
compare values of different types. A double is a reduced fraction, so there is
no rounding, no infinity and no -0.0; a string is the sequence of its characters out of
a small alphabet in the order of their codes, which is what `CompareAny`,
LIKE, `std::stod` and the key encoding look at. An exception is the value `Throw` (or the
verdict `"throw"`), handed up until the statement fails. The recursions of the
code over expressions are the recursive operators `GetValue`, `EvaluateBool`,
`Bind`, `IsValid`, `FlatAnd`.

`IndexKey` writes bytes as `WriteValue` does. `IntBytes` is 1 and `KeySize` 3 in
the run (4 and 128 in the code): a column of text and one of ints then meet the end of
a key. `OrderedIndex` has `KeyIndex`'s rules (a new entry in front of its
equals, `Delete` takes the first) over these keys.

### Relations and Select

`db` is `schemas` (the registry), `heaps` (a sequence of slots for a table, in
scan order), `trees` (one for each index of a definition, in the order of
`_indexes[name]`) and `referencedBy`. A statement is an operator from a database
to `[db, changes, outcome]`: the loops of the code are folds over the rows, so
that an error half way leaves what it leaves in the code, and `changes` is what
it recorded for ROLLBACK. `CanDelete` and `DoDelete` are the recursions of `ExecuteDelete`.

`Select` has one operator for each stage: `ValidateSelect`, `BoundQuery`, `HashJoin`,
`Grouped`, `ProjectRows`, `ApplyWindowColumn`, `ApplyOrderBy`, `Page`,
`ApplyDistinct`, `GetOutputColumns`. A row is a function from names to values, with
the names a joined row really has (`PrefixRow`). What goes through `std::sort`
yields the set of orders of equal rows.

### Parser and StatementText

A text is a sequence of tokens, since the tokenizer's work ends there. Each parse
method is an operator from a position to what it read and the position behind it;
position 0 stands for the exception, and no token is there, so nothing matches any more and the
statement fails. `Made` and `Closing` hand that on. `ParseClauses` is the run of `if
(Match(...))` at the end of a statement: each clause is looked for once, in one order. `Is` compares
texts and not token types, as `Match` does. What throws, and SHOW, is `NotAStatement`.

`StatementText` goes the other way and shares nothing with the parser but the tokens:
`Written(stmt)` is what SQL's ranks of operators ask a user to write for a statement. `Texts`
of a run are such texts and one more that the code refuses; `Meant` are the statements.

### Database

What runs is `Parse` of one of `Texts`; a text that is no statement is `Refused`. A statement that writes is one step: what is between its rows is `Session`'s
subject. A SELECT is one step for each stage, from `StartSelect` to
`Return`; nothing else runs meanwhile, as there is one thread. `txn` is the open
transaction with its change list; `last`, `sel.before`, `txn.base`, `txn.cascaded`
and `txn.undone` are history. `Restart` closes and opens everything with no
transaction open and none rolled back in this process (what recovery does
otherwise is `Durability`'s).

The code has defects that break the properties below in ordinary use. The
constant `KnownDefects` names those that may happen; a statement that runs into another
one is not taken, so that everything else is checked. Added to
`KnownDefects` in `Database.cfg`, each of them makes TLC report a violation:

| Name | What happens | Where | Reported |
|---|---|---|---|
| `inverted unique` | INSERT refuses values a unique index does not have and takes those it has | `ExecuteInsert.cpp:112` | `UniqueKeys`, run `unique_keys` |
| `colliding keys` | one UPDATE gives two rows one unique key, checked before the first is written | `ExecuteUpdate.cpp:90` | `UniqueKeys` |
| `unique in transaction` | CREATE UNIQUE INDEX, then ROLLBACK brings back rows it has not seen | `ExecuteTransactions.cpp:32` | `UniqueKeys` |
| `equal keys` | a tree deletes the first of several equal keys, whatever row it names | `BPlusTree.cpp:307` | `IndexesMatch` |
| `key overflow` | a secondary key is too long after the row is in the heap | `ExecuteInsert.cpp:128` | `IndexesMatch` |
| `untyped literal` | the key is built from the value given, the heap keeps it converted | `ExecuteInsert.cpp:128` | `IndexesMatch` |
| `cascade stays` | ROLLBACK restores a parent without the rows the cascade deleted, or a row that refers to one | `ExecuteDelete.cpp:164` | `ReferencesHold` |
| `referenced key` | UPDATE of a key that other tables refer to | `ExecuteUpdate.cpp:86` | `ReferencesHold` |
| `lost table` | DROP or TRUNCATE of a table with foreign keys or references | `ExecuteDrop.cpp:36` | `ReverseMapExact`, `ReferencesHold` |
| `drop in transaction` | ROLLBACK reaches a change of a table that is gone or emptied | `ExecuteTransactions.cpp:34` | `RollbackRestores` |
| `passed counter` | UPDATE moves an AUTO key past its counter | `ExecuteUpdate.cpp:86` | `AutoValueFresh` |

(`key overflow` and `untyped literal` also need a database with a non-unique index on
the column, and an INSERT of a longer text or of `'12'` for an int.)

## 3. Runs

| Run | Shows | States |
|---|---|---|
| `session` | all statements in one process; safety and refinement of `AtomicTable` | 59 thousand |
| `durability` | three starts, crashes anywhere, records cut anywhere and completed by later ones | 2.05 million |
| `buffer_pool` | eviction, held pages, close and crash; refinement of `PageStore` | 131 thousand |
| `bplus_tree` | the tree answers like the index; balanced | 34 thousand |
| `database` | statements on several tables, transactions, restarts; what texts mean; queries against their definition; every SELECT returns | 74 thousand |
| `auto_committed` | **violated**: an error return leaves the automatic transaction open | |
| `primary_key_unique` | **violated**: UPDATE gives two rows one key | |
| `uncommitted_evaporates` | **violated**: a reused transaction number hides a missing Commit | |
| `logged_before_page` | **violated**: a page is written before its log record | |
| `committed_survives_exit` | **violated**: a rolled-back transaction is undone again at the next start, over committed rows | |
| `unique_keys` | **violated**: INSERT takes a value a unique index already has | |
| `tree_delete` | **violated**: rebalancing after a delete at a separator loses a key | |

The properties of the passing runs:

* `IndexMatches`: the index has one entry for every live row, none else, after
  every row step. `RollbackRestores`: the undo loop ends in the state at BEGIN.
  `ChangesLogged`: what recovery would undo of the open transaction is what
  ROLLBACK would undo. `EndedTxnsForced`: with no transaction open, all of the
  log is on disk. `AtomicSpec`: the refinement. `IInv`: the inductive invariant.
* `DInv` and `SInv`: the inductive invariants of `Durability`. `LsnsDense`: up to the first record
  that a crash cut, records are numbered 1, 2, 3, ..., over processes whose unforced
  records were lost and others that went on behind them. From the cut on that is not so
  (section 5).
  `NothingUncommittedSurvives`: after a start every slot shows a value some
  committed transaction gave it, provided the log lost no record (a crash can
  drop a record whose page is written: `logged_before_page`) and no transaction
  number occurs twice (`uncommitted_evaporates`). `CleanRestartIsExact`: after a
  clean exit and a complete recovery, however many crashed before it, the table is the
  committed one, on the same terms and if nothing was rolled back
  (`committed_survives_exit`).
* `HeldIsCached`, `ListOK`, `StoreSpec`, `BInv` of the pool;
  `PointQueriesExact`, `RangeQueriesExact` (each end open or closed), `Balanced` and
  the inductive invariant `TInv` of the tree.
* Of `Database`, on the tables: `IndexesMatch` (each index has one entry, under the
  right key, for each live row), `ReferencesHold`, `UniqueKeys` (of the primary key; of
  other unique indexes what UPDATE and CREATE UNIQUE INDEX do, since INSERT inverts its
  check: `unique_keys`), `ReverseMapExact`
  (the map CREATE TABLE extends and a start rebuilds), `AutoValueFresh`, `DbTypeOK`
  (what comes back of any value written has the type of its column). On steps:
  `DeletedIsClosure` (a DELETE kills the rows found and what a cascade takes along,
  nothing else, or nothing at all), `RollbackRestores`, `FailureIsUndoable`.
* On texts: `ParsesBack` holds the parser against `StatementText` on every nesting of
  two operators over one operand (about 1400 expressions): what was meant comes
  back, with no more parentheses than SQL asks for. The assumption `MeantAssumption`, which
  TLC evaluates before the run, says the same of every statement of the run.
* On queries: `RowsExact` compares plan, index, pushed-down conditions, hash joins
  and the second WHERE with nested loops over all rows that compare values;
  `GroupsExact`, `WindowsExact`, `TopRows`, `DistinctExact` define their stage
  without its algorithm; `HeadersResolve` asks that each header names a column of every
  row. `SelectReturns`: a SELECT that has begun ends.

Where a property holds only on terms, its definition states them. `RowsExact` needs
`PlanIsSafe`: literals of the column's type, no `<` on a column with NULLs, no numeric text,
no condition that the planner takes for one of the main table by mistake; and no RIGHT join.
`WindowsExact` is about windows whose columns are in the result, without NULLs.
`HeadersResolve` leaves out LEFT joins and `SELECT *` with GROUP BY. Section 5 says
what the code does outside of these.

Bounds, and why they are enough:

* `Session.cfg`: two keys, two values, two pages of two slots, inserts of up to
  two rows, two transactions, statements start while a transaction has fewer
  than two changes. Two keys make statements collide, two slots fill a page, two
  changes of one row are the shortest case where undo order matters, the second
  transaction meets what the first left.
* `Durability.cfg`: one key, pages of one row (so that each row reaches the disk
  on its own), three starts (crash during recovery and recover again; the third
  process only recovers), five log records. Deadlock is not checked: after the
  last start the system is over. Three starts let a process append behind a record that the
  first one cut and the third read what became of it; one stray number (7) is
  enough to be none that was written.
* `BufferPool.cfg`: three frames, four pages, held over at most two calls: every
  eviction order with a held page in every position.
* `BPlusTree.cfg`: leaf order 2, internal order 3 (in the code about 30 of each),
  six keys, eight nodes: three levels; leaf and internal nodes split, merge
  and borrow from the left, leaves also from the right.
* `Database.cfg`: four databases on disk (a chain of three tables that cascades to its end,
  with indexes on the foreign keys; one that ends at a RESTRICT, with deleted rows
  and a unique index; the chain without rows; nothing), up to four out of 33 writing
  statements, BEGIN, COMMIT, ROLLBACK, a text the parser refuses, and restarts: the shortest
  sequences that matter are BEGIN, two changes of one row, ROLLBACK, and an error, its
  rollback, and what comes next. 30 queries run on the four databases
  before any statement (`LastQuery = 0`; a SELECT reads, and with the rows the
  databases have, every plan, join, group and partition has something to tell apart).
  Deadlock is not checked: after the last statement the process is idle for good.
* Violation runs have bounds just large enough for the shortest counterexample.

Fairness: `Database` assumes `WF_vars(SelectStep)`. A SELECT that has begun is a
function call in the only thread of the process, with no wait in it, so its next
stage comes. Nothing is assumed of the statements themselves: they come only if the
user types them. The other modules assume no fairness and state no liveness: their calls
are single steps.

## 4. Proofs

`SessionProofs` proves, for all keys, values, page geometries and bounds:
`IInv`, `TypeOK`, `IndexMatches`, `RollbackRestores`, `PrimaryKeyUnique`, the
refinement `AtomicSpec`, and `EndedTxnsForced`. All but the last assume
`OneRowKeyUpdates`: an UPDATE that assigns the key matches at most one row. The
run `primary_key_unique` shows the assumption is needed. `IndexMatches` is not
inductive: after an undo step it has to hold for a state from the past. `IInv`
therefore says it of every snapshot in `hist` (`HistoryFits`), that the last
snapshot is the present (`HistoryShape`), that change `i` leads from snapshot `i`
to snapshot `i + 1` by one row (`Chain`), and that a deleted row's image is still in
its slot (`SlotsKept`). It also says of a running statement that the rows it has
yet to write are live and the new keys of an UPDATE free (`StatementValid`).

`BufferPoolProofs` proves `BInv`, `BTypeOK`, `ListOK`, `HeldIsCached` and the
refinement `StoreSpec` for every capacity and every number of pages. The argument
for `HeldIsCached`: a page moves back in the list only when another one is
fetched, so its rank is at most the number of fetches since its own, plus one
(`HeldNearFront`); the victim has rank `Capacity`, which `HoldMax < Capacity` puts
behind every held page. That needs the ranks to be exactly 1 to `size` (`ListOK`).

`DurabilityProofs` proves `DInv`, `DTypeOK` and `LsnsDense`, for any number of starts and
with crashes and cuts anywhere; none of them needs `OneRowKeyUpdates`. `SessionInvariant` is of no
use here, since recovery leaves heap and index apart, so `DInv` says less about data and more about
the log. `LsnsDense` is inductive only with where the next number comes from:
`nextLsn = Len(log) + 1` as long as no record is cut (`LogShape`), because what `ReadAll` returns
is then the whole log (`WholeLogRead`); with a cut, what is appended is behind it. And no later crash loses
a cut record, or what is before it: a process ends with all it found counted as forced. That types
survive a recovery needs that each logged change of a row has the row as it was, and each record a
start may return, a completed one too (`MixedType`), has a row where `Recover` writes one
back (`ImagesKept`), and that an UPDATE still to write has no NULL (`NoNullAssigned`).
`RecoveryShape` says what is left of the log's word: whole records are undone as they were written.

`ChangesLogged` compares the change list of the open transaction with what `SelectSeq` picks
from the log, a recursive function. `DataInduction` has what it takes: the library's induction theorems take
an operator, but the well-foundedness of `<` on the naturals can be cited for
a *set*, so induction is stated for sets of numbers (`SetInduction`) and a recursive function is
shown to exist as the union of its finite parts (`RecursionExists`). From
that follows how `SelectSeq` treats an `Append`, and the invariant says that both lists grow together.

`DurabilityProofs` also proves `SInv`, `NothingUncommittedSurvives` and `CleanRestartIsExact`, for all numbers of
starts and crashes, under `OneRowKeyUpdates`. Both properties hold on terms
(`lossless`, no number of a transaction reused), and the terms are what makes the invariant small:
together they leave one lifetime that runs transactions, and after it only lifetimes
that recover (`OneLifetime`). Of every slot, in memory and on disk, `SInv` says where its row
comes from (`SlotsTraced`): it was committed once, or the open transaction has it in
a snapshot, or a change that recovery would undo wrote it. Of every change
to undo it says that what the undo writes is again such a row (`ImagesTraced`) and that an insert
is the first change of its slot (`InsertsFirst`). In a recovery, a transaction is undone from
its end (`RecoveryTraced`), so the change that wrote a row is still there as long as
the row is. For the exact rows (`Exactness`) the first change to undo of each slot decides (`UndoShows`):
undoing everything shows what was there before it, on whichever pages the
crash left, and a recovery that is cut off leads to the same rows.

`IndexKeyProofs` proves about key bytes, for keys of any size: the comparison of keys is a
strict total order (`KeysTotallyOrdered`), `Min()` and `Max()` bound every key
(`BoundsEncloseKeys`), keys that begin with an int come in the order of those
ints whatever follows (`IntKeysOrdered`, for ints of 1 to 4 bytes), the encoding of doubles
keeps their order and is one to one on bit patterns (`DoubleBitsOrdered`); and the
collisions: the keys (`KeyOf`) of NULL, of the empty string and of the smallest int are
`Min()` (`NullKeyIsMin`, `SmallestIntIsNull`). The argument for ints: the flipped sign bit is
an addition modulo 2^w, so patterns are ordered as ints; the digits of a number to the
base 256 determine it from the left, so the first byte that differs decides.
These theorems are what `Session` and `BPlusTree` take for granted of a key.

`BPlusTreeProofs` proves `TTypeOK`, `PointQueriesExact`, `RangeQueriesExact`, `Balanced` and
`TInv`, for every set of rows and all orders of nodes from 2 up. It assumes `TreeBounds`:
one row for a key, `AtSeparator = FALSE` and `RightLends = FALSE`, as the passing run does. Each
of the three is needed: without the second the run `tree_delete` violates `PointQueriesExact`, and
`BPlusTree.cfg` does without the first (`MCTwinRows`) or the third. None of the properties is
inductive. What is (`GoodTree`) gives each node a *span*, the set of keys that a search leads
through it, and a *level*. The root spans all keys; a node's own keys cut its
span into those of its children, one level below (`ForkFits`); spans on a level do not
overlap (`Apart`); the chain goes from each leaf to the one whose span comes next, and back
(`Linked`); the fill of each node fits its place (`Filled`); and the entries of all leaves, those nothing
leads to included, are what is stored (`Recorded`). `TInv` says this of the spans and levels
that can be read off the tree, so that TLC can check it.

* *Insert and Delete* are recursive calls, so the tree is followed through every level of
  one call. Half way up it is not a `GoodTree`: a split has given keys to a
  node that no parent has yet, a merge has left a parent with a child too many. So `Fits` takes the
  spans twice: those the nodes have, and those the level above still *sees*. Each level of
  the call brings the two together one level higher, and a deletion may leave one node a key short
  (`low` in `Filled`) for the next level to mend.
* *Queries*: the walk along the chain is a recursive function on (leaf, position), which exists and
  ends because entries still ahead become fewer (`RankedRecursion`, with their number for the
  rank). It reads entries in strictly ascending order, and those it reads are the ones stored from
  the key on (`WalkReads`); there is only one such list (`OneList`), and the definition of the
  answer over `stored` is one too.
* *Balance*: `Levels` goes down from the root by putting the children of a level in a row. By
  induction over the levels, the row of each has every node of that level with a span, in
  the order of the spans (`TowerIs`); on the lowest level that order is the chain's (`RowLinked`).

Only model-checked: `Database` and the modules under it except `IndexKey` (expressions,
cascades and orderings are RECURSIVE operators, which the prover does not take), so all the properties
of the run `database`. Its `SelectReturns` is a liveness property, and liveness and ENABLED are
beyond the prover anyway.

## 5. Known limits, worth knowing for the code

Of the models:

* Recovery undoes and never redoes: committed rows whose pages were not written
  are lost in a crash. `NothingUncommittedSurvives` allows that, since an older
  committed value is a committed value.
* Recovery leaves the indexes alone, so `IndexMatches` and `IndexesMatch` are claimed
  for processes that start with nothing to undo.
* What a recovery leaves behind a cut record is not claimed: it may miss whole records,
  take a completed Commit for one, or write a mixed image. `NothingUncommittedSurvives` and
  `CleanRestartIsExact` exclude it by `lossless`; `DInv` holds all the same.
* Strings over 100 characters run into the next cell of a row (`RowSerializer`);
  strings of the models are short.
* A window aggregate writes to `rows[partition[i]]` for `i` *in* `partition`
  (`ExecuteSelect.cpp:501-503`); unless the partition is the first rows this reads past or
  beside it, and the model goes to a stage `undefined`.

Of the code, met while modelling and left out of the properties by their terms:

* Through an index `v < x` also returns rows without a value (`ScanPlanner.cpp:146`);
  `id = 1.5` finds 1 (`:54`); `= 0` on a double misses -0.0; INT_MIN, NULL and the empty
  string share a key.
* A log record that a crash cut is completed by what the next process writes
  (`WalManager.cpp:82`, `:161`). Two things follow, both found by checking `Durability`. Numbers
  repeat: two processes that append behind a cut where reading ends both go on from the last record
  before it, though README 518 of the repository calls the LSN "monotonically increasing". And recovery
  can damage a committed row: one process commits an insert, then its Update of
  the row is cut in the image; the next one logs a Begin behind it and crashes; the third undoes that
  Update with an image made of both records.
* `GetChildNodeForInternal` goes right of an equal separator (`BPlusTree.cpp:62`), so of two rows
  with one key that a split has parted PointQuery finds one, though README 329 of the repository says it
  "handles duplicates"; with `MCTwinRows` for `Rows` in `BPlusTree.cfg`,
  `TInv` and `PointQueriesExact` are violated.
* In a SELECT from one table, conditions that name the table by its alias are lost: the
  planner takes them for another table's (`ScanPlanner.cpp:61`), and WHERE runs again only
  after a join (`ExecuteSelect.cpp:62`). Conditions with a function, or with another table's column
  on the right of BETWEEN, IN or LIKE, are taken for the main table's (`:69-77`).
* A row a LEFT JOIN found no partner for answers `y.c` with its own column `c`
  (`ExecuteExpression.cpp:74`). A RIGHT join runs as an inner one; `ON` wants the
  left table's column on the left.
* Strings that begin with a number compare as that number (`ExecuteExpression.cpp:213`); joins, groups and
  DISTINCT compare texts, comparisons do not.
* Windows and HAVING see the projected rows only. DISTINCT comes after LIMIT, and
  LIMIT 0 is no limit. `SELECT *` with GROUP BY has headers no row has. A scalar
  function in the list makes a query an aggregate.
* A foreign key to one column of a composite primary key never finds its
  row; a value that is not an int for an AUTO key throws after the row is written
  (`ExecuteInsert.cpp:136`); a failed INSERT or UPDATE leaves the automatic
  transaction open (`auto_committed`).
* CREATE INDEX with the name of another table's index opens that index' file;
  one that throws leaves its file behind.
* The parser looks for each clause once and ignores what is left (`Parser.cpp:63-83`): `DELETE
  FROM t x WHERE ...` deletes every row, `ORDER BY n ASC LIMIT 2` and `OFFSET 1 LIMIT 2`
  have no limit. It compares tokens by text (`:36`), so a string literal `'from'` ends
  a column list. `NOT NOT x` is refused, `FROM t AS x` makes `as` the alias or
  fails, an FK without CASCADE or RESTRICT swallows the next token (`:506`), DROP INDEX is
  parsed and never executed. The tokenizer reads `a-1` as `a` followed by -1 (`Tokenizer.cpp:98-100`).

## 6. Not modelled

* *Characters to tokens* (`Tokenizer`, but for what becomes of a word) and *SHOW*, which
  only lists names: stateless formatting.
* *Storage layout, JSON of schemas, byte layout of rows*: input, output and
  formatting. `Stored` says what a value is when it is read back.
* *REPL, benchmark, `QueryResult`*: presentation.
* *Index files between two tables of `Database` and in a crash*: a new index is
  empty, and `Restart` is a clean one.

What is left to do: crashes over several tables, where a cascade is neither logged nor
recorded; a tree with several rows to a key, for which a proof would first need a search
that also looks left of a separator.
