------------------------------- MODULE Database ------------------------------
(***************************************************************************)
(* One process that runs statements on a database of several tables: the   *)
(* Executor with the TableRegistry, the reverse map of foreign keys and    *)
(* the change list of the open transaction.  A statement that writes is    *)
(* one step.  A SELECT is one step per stage, in which nothing else runs:  *)
(* the process has one thread, and the stages are those of ExecuteSelect.  *)
(*                                                                         *)
(* Known defects of the code break properties below.  KnownDefects names   *)
(* those that may happen; a statement that would run into another one is   *)
(* not taken.  The README lists which property each of them breaks.        *)
(***************************************************************************)
EXTENDS Parser

CONSTANTS
  Files,          \* the databases found on disk, a sequence
  Texts,          \* what the user may type, a sequence of sequences of tokens
  MaxStatements,  \* bound: statements that are not SELECT
  LastQuery,      \* bound: SELECTs run after at most this many of them
  KnownDefects    \* the known defects that may happen

VARIABLES
  db,      \* the database, see Relations
  txn,     \* the open transaction
  last,    \* history: the last statement, the rows it was about, its outcome
  sel,     \* the SELECT in progress
  steps    \* statements so far

vars == <<db, txn, last, sel, steps>>

\* base, cascaded and undone are history: the database at the begin of the
\* transaction, the rows a cascade deleted without recording it, and whether
\* the process has rolled a transaction back.
NoTxn == [active |-> FALSE, changes |-> << >>, base |-> EmptyDatabase,
          cascaded |-> {}, undone |-> FALSE]

BeginTxn(t, d) == IF t.active THEN t ELSE [t EXCEPT !.active = TRUE, !.base = d]
Ended(t)       == [NoTxn EXCEPT !.undone = t.undone]

NoQuery == SelectFrom("", "", << >>)

Idle == [stage |-> "idle", query |-> NoQuery, rids |-> << >>, done |-> 0,
         before |-> << >>, rows |-> << >>]

Statement(kind, table, rids, outcome) ==
  [kind |-> kind, table |-> table, rids |-> rids, outcome |-> outcome]

LiveRows(d) == UNION {{<<t, rid>> : rid \in Live(d.heaps[t])} : t \in DOMAIN d.heaps}

RowAt(d, r) == d.heaps[r[1]][r[2]].row

-----------------------------------------------------------------------------
(* Known defects.                                                          *)

Avoids(defect, happens) == happens => defect \in KnownDefects

\* The values an INSERT or UPDATE gives the indexed columns of a table.
ConvertsKey(d, table, row) ==
  \E i \in DOMAIN d.schemas[table].indexes :
    \E c \in ToSet(d.schemas[table].indexes[i].columns) \cap DOMAIN row :
      Stored(row[c], ColumnType(d.schemas[table], c)) # row[c]

Secondary(d, table) == {i \in DOMAIN d.schemas[table].indexes :
                          ~d.schemas[table].indexes[i].primary}

InsertIsClean(d, stmt, s) ==
  stmt.table \in DOMAIN d.schemas =>
    /\ Avoids("inverted unique", s.changes # << >> /\ \E i \in Secondary(d, stmt.table) :
                                   d.schemas[stmt.table].indexes[i].unique)
    /\ \A r \in ToSet(stmt.rows) :
         /\ Avoids("untyped literal", ConvertsKey(d, stmt.table, r))
         /\ Avoids("key overflow", \E i \in Secondary(d, stmt.table) :
              Overflows(IndexedValues(r, d.schemas[stmt.table].indexes[i].columns)))

IndexedKey(d, t, i, row) == BuildKey(row, d.schemas[t].indexes[i].columns)

\* A statement from d to e takes an entry out of an index in which another
\* row has the same key afterwards.
SplitsEquals(d, e) ==
  \E t \in DOMAIN d.trees \cap DOMAIN e.trees : \E i \in Secondary(d, t) :
    LET At(x, rid)     == IndexedKey(d, t, i, x.heaps[t][rid].row)
        Has(x, rid, k) == rid \in Live(x.heaps[t]) /\ At(x, rid) = k
    IN  \E r \in Live(d.heaps[t]), q \in Live(e.heaps[t]) :
          r # q /\ ~Has(e, r, At(d, r)) /\ At(e, q) = At(d, r)

\* A row of the transaction had, at some time, the key of another row.
UndoMeetsEquals(d, changes) ==
  \E c \in ToSet(changes) : c.table \in DOMAIN d.schemas /\
    LET t      == c.table
        others == {d.heaps[t][q].row : q \in DOMAIN d.heaps[t] \ {c.rid}}
                    \cup {x.before : x \in {y \in ToSet(changes) :
                                              y.table = t /\ y.rid # c.rid}}
        own    == {c.before, d.heaps[t][c.rid].row}
    IN  \E i \in Secondary(d, t) : ~d.schemas[t].indexes[i].unique
          /\ \E x \in own, y \in others : IndexedKey(d, t, i, x) = IndexedKey(d, t, i, y)

\* Two rows of one UPDATE get the same new key of a unique index.
KeysCollide(d, e, table, rids) ==
  \E i \in DOMAIN d.schemas[table].indexes :
    LET Key(rid) == IndexedKey(e, table, i, e.heaps[table][rid].row)
    IN  /\ d.schemas[table].indexes[i].unique
        /\ \E r, q \in ToSet(rids) : r # q /\ Key(r) = Key(q)

\* An UPDATE changes a key that rows of other tables refer to.
ChangesReferencedKey(d, e, table) ==
  \E rid \in Live(d.heaps[table]), i \in DOMAIN Refs(d, table) :
    LET ref == Refs(d, table)[i]
        old == d.heaps[table][rid].row[ref.fk.refColumn]
    IN  /\ e.heaps[table][rid].row[ref.fk.refColumn] # old
        /\ HasDependents(d, ref.from, ref.fk.column, old)

PassesCounter(e, table) ==
  /\ e.schemas[table].autoIncrement
  /\ \E rid \in Live(e.heaps[table]) :
       e.heaps[table][rid].row[e.schemas[table].primaryKey[1]].num
         >= e.schemas[table].nextAutoValue

UpdateIsClean(d, stmt, rids, s) ==
  Ok(s) =>
    /\ Avoids("untyped literal", \E i \in DOMAIN rids :
         ConvertsKey(d, stmt.table,
           Assigned(d, stmt.table, stmt.set, d.heaps[stmt.table][rids[i]].row)))
    /\ Avoids("colliding keys", KeysCollide(d, s.db, stmt.table, rids))
    /\ Avoids("referenced key", ChangesReferencedKey(d, s.db, stmt.table))
    /\ Avoids("passed counter", PassesCounter(s.db, stmt.table))
    /\ Avoids("equal keys", SplitsEquals(d, s.db))

\* DROP and TRUNCATE of a table that others refer to or that refers to others.
LosesTable(d, stmt) ==
  /\ stmt.table \in DOMAIN d.schemas
  /\ \/ /\ stmt.kind = "drop"
        /\ d.schemas[stmt.table].foreignKeys # << >> \/ Refs(d, stmt.table) # << >>
     \/ \E rid \in Live(d.heaps[stmt.table]), i \in DOMAIN Refs(d, stmt.table) :
          LET ref == Refs(d, stmt.table)[i]
          IN  HasDependents(d, ref.from, ref.fk.column,
                            d.heaps[stmt.table][rid].row[ref.fk.refColumn])

\* A ROLLBACK would restore a row that a cascade deleted, or one that refers
\* to such a row: the cascade itself is not undone.
MeetsCascade(d, t) ==
  \E c \in ToSet(t.changes) :
    \/ <<c.table, c.rid>> \in t.cascaded
    \/ /\ c.table \in DOMAIN d.schemas
       /\ \E fk \in ToSet(d.schemas[c.table].foreignKeys), x \in t.cascaded :
            /\ fk.refTable = x[1]
            /\ c.before[fk.column] = RowAt(d, x)[fk.refColumn]

-----------------------------------------------------------------------------
(* Statements that write.                                                  *)

CanRun == sel.stage = "idle" /\ steps < MaxStatements

\* What a statement with the end state s leaves, if it got a transaction: it
\* commits one it began itself, unless it failed.
Finish(stmt, s) ==
  LET t == BeginTxn(txn, db)
      recorded == {<<s.changes[i].table, s.changes[i].rid>> : i \in DOMAIN s.changes}
  IN  /\ db' = s.db
      /\ txn' = IF Ok(s) /\ ~txn.active THEN txn
                ELSE [t EXCEPT !.changes = @ \o s.changes,
                        !.cascaded = @ \cup ((LiveRows(db) \ LiveRows(s.db)) \ recorded)]
      /\ last' = stmt
      /\ steps' = steps + 1
      /\ UNCHANGED sel

\* A statement that got none: an error before, or no use for one.
FinishOutside(stmt, s) ==
  /\ db' = s.db
  /\ last' = stmt
  /\ steps' = steps + 1
  /\ UNCHANGED <<txn, sel>>

Insert(stmt) ==
  LET s == ExecuteInsert(db, stmt.table, stmt.rows)
      done == Statement("insert", stmt.table, << >>, s.outcome)
  IN  /\ CanRun
      /\ InsertIsClean(db, stmt, s)
      /\ IF stmt.table \in DOMAIN db.schemas THEN Finish(done, s)
                                             ELSE FinishOutside(done, s)

SetIsValid(stmt) ==
  /\ ValidFor(db, stmt.table,
       <<stmt.where>> \o SetToSeq({stmt.set[c] : c \in DOMAIN stmt.set}))
  /\ DOMAIN stmt.set \subseteq Names(db.schemas[stmt.table])

\* UPDATE of the rows found, with the end state s.
UpdateFound(stmt, found, s) ==
  IF found.thrown
  THEN FinishOutside(Statement("update", stmt.table, << >>, "error"), Begun(db))
  ELSE /\ UpdateIsClean(db, stmt, found.rids, s)
       /\ Finish(Statement("update", stmt.table, found.rids, s.outcome), s)

Update(stmt) ==
  /\ CanRun
  /\ IF ~SetIsValid(stmt)
     THEN FinishOutside(Statement("update", stmt.table, << >>, "error"), Begun(db))
     ELSE \E found \in {Scanned(db, stmt.table, stmt.where)} :
            UpdateFound(stmt, found, UpdateRows(db, stmt.table, stmt.set, found.rids))

\* Mutant of DeleteFound: a row is asked when its turn comes, not before the
\* first row goes.
DeleteInTurn(stmt, found) ==
  LET Next1(s, rid) == IF ~Ok(s) THEN s
                       ELSE IF ~CanDelete(s.db, stmt.table, s.db.heaps[stmt.table][rid].row)
                       THEN Fail(s) ELSE DoDelete(s, stmt.table, rid)
      s == FoldLeft(Next1, Begun(db), found.rids)
  IN  Finish(Statement("delete", stmt.table, found.rids, s.outcome), s)

Deleted(stmt, found, s) ==
  /\ Avoids("equal keys", SplitsEquals(db, s.db))
  /\ Finish(Statement("delete", stmt.table, found.rids, s.outcome), s)

\* CanDelete on each of the rows found, then a transaction.
DeleteFound(stmt, found) ==
  IF found.thrown \/ \E i \in DOMAIN found.rids :
       ~CanDelete(db, stmt.table, db.heaps[stmt.table][found.rids[i]].row)
  THEN FinishOutside(Statement("delete", stmt.table, << >>, "error"), Begun(db))
  ELSE Deleted(stmt, found, DeleteRows(db, stmt.table, found.rids))

Delete(stmt) ==
  /\ CanRun
  /\ IF ~ValidFor(db, stmt.table, <<stmt.where>>)
     THEN FinishOutside(Statement("delete", stmt.table, << >>, "error"), Begun(db))
     ELSE \E found \in {Scanned(db, stmt.table, stmt.where)} : DeleteFound(stmt, found)

\* CREATE, DROP and TRUNCATE neither begin a transaction nor record changes.
CreateTable(stmt) ==
  LET s == ExecuteCreateTable(db, stmt)
  IN  /\ CanRun
      /\ FinishOutside(Statement("create", stmt.name, << >>, s.outcome), s)

CreateIndex(stmt) ==
  LET s == ExecuteCreateIndex(db, stmt.table, stmt.name, stmt.columns, stmt.unique)
  IN  /\ CanRun
      /\ Avoids("unique in transaction", Ok(s) /\ stmt.unique
           /\ \E c \in ToSet(txn.changes) : c.table = stmt.table)
      /\ FinishOutside(Statement("index", stmt.table, << >>, s.outcome), s)

DropOrTruncate(stmt) ==
  LET s == IF stmt.kind = "drop" THEN ExecuteDropTable(db, stmt.table)
                                 ELSE ExecuteTruncate(db, stmt.table)
  IN  /\ CanRun
      /\ Avoids("lost table", LosesTable(db, stmt))
      /\ Avoids("drop in transaction", txn.active /\ Ok(s))
      /\ FinishOutside(Statement(stmt.kind, stmt.table, << >>, s.outcome), s)

Begin ==
  /\ CanRun /\ ~txn.active
  /\ txn' = BeginTxn(txn, db)
  /\ last' = Statement("begin", "", << >>, "ok")
  /\ steps' = steps + 1
  /\ UNCHANGED <<db, sel>>

Commit ==
  /\ CanRun /\ txn.active
  /\ txn' = Ended(txn)
  /\ last' = Statement("commit", "", << >>, "ok")
  /\ steps' = steps + 1
  /\ UNCHANGED <<db, sel>>

\* A ROLLBACK that throws leaves the transaction open.
Rollback ==
  LET s == UndoAll(db, txn.changes)
  IN  /\ CanRun /\ txn.active
      /\ Avoids("cascade stays", MeetsCascade(db, txn))
      /\ Avoids("equal keys", UndoMeetsEquals(db, txn.changes))
      /\ db' = s.db
      /\ txn' = IF Ok(s) THEN [NoTxn EXCEPT !.undone = TRUE] ELSE txn
      /\ last' = Statement("rollback", "", << >>, s.outcome)
      /\ steps' = steps + 1
      /\ UNCHANGED sel

\* A text that is no statement, BEGIN in a transaction, COMMIT and ROLLBACK
\* outside of one: an error.
Refused(stmt) ==
  /\ CanRun
  /\ stmt.kind \in {"none"} \cup IF txn.active THEN {"begin"} ELSE {"commit", "rollback"}
  /\ FinishOutside(Statement("refused", "", << >>, "error"), Begun(db))

\* Exit and start, with no transaction left open: the registry is read back,
\* the tables in any order, and the reverse map built from it.  What a start
\* does after a crash or a ROLLBACK is Durability's.
Restart ==
  /\ CanRun /\ ~txn.active /\ ~txn.undone
  /\ \E order \in SetToSeqs(DOMAIN db.schemas) :
       db' = [db EXCEPT !.referencedBy = BuildReferencedByMap(db, order)]
  /\ last' = Statement("restart", "", << >>, "ok")
  /\ steps' = steps + 1
  /\ UNCHANGED <<txn, sel>>

-----------------------------------------------------------------------------
(* SELECT, stage by stage.                                                 *)

\* The rows after a stage, or the end of the SELECT if an expression threw.
Reach(stage, rows) ==
  sel' = IF Threw(rows) THEN [Idle EXCEPT !.stage = "failed"]
         ELSE [sel EXCEPT !.stage = stage, !.before = sel.rows, !.rows = rows]

\* Validation, the plan and the scan of the main table.
Started(q, found) ==
  LET heap == db.heaps[q.table]
      Scan(rid) == IF q.joins = << >> THEN heap[rid].row
                   ELSE PrefixRow(heap[rid].row, q.table, q.alias)
  IN  IF found.thrown THEN [Idle EXCEPT !.stage = "failed"]
      ELSE [Idle EXCEPT !.stage = "scanned", !.query = q, !.rids = found.rids,
              !.rows = [i \in DOMAIN found.rids |-> Scan(found.rids[i])]]

StartSelect(query) ==
  /\ sel.stage = "idle" /\ steps <= LastQuery
  /\ IF ~ValidateSelect(db, query) THEN sel' = [Idle EXCEPT !.stage = "failed"]
     ELSE \E q \in {BoundQuery(db, query)} :
            sel' = Started(q, GetScannedRows(db.heaps[q.table], db.trees[q.table],
                                Decide(q.table, db.schemas[q.table], q.where)))

\* The next JOIN.
Join ==
  LET join == sel.query.joins[sel.done + 1]
  IN  /\ sel.stage = "scanned" /\ sel.done < Len(sel.query.joins)
      /\ IF ~JoinsColumns(join.on) THEN sel' = [Idle EXCEPT !.stage = "failed"]
         ELSE sel' = [sel EXCEPT !.done = @ + 1, !.before = sel.rows,
                                 !.rows = JoinTable(db, sel.rows, join)]

\* WHERE, if there are joins.
Filter ==
  /\ sel.stage = "scanned" /\ sel.done = Len(sel.query.joins)
  /\ Reach("filtered", IF sel.query.joins = << >> \/ sel.query.where = NoExpr
                       THEN sel.rows ELSE WhereRows(sel.rows, sel.query.where))

Group ==
  /\ sel.stage = "filtered"
  /\ Reach("grouped", Grouped(sel.rows, sel.query))

Project ==
  /\ sel.stage = "grouped"
  /\ Reach("projected", ProjectRows(sel.rows, sel.query.columns))

\* HAVING, on the projected rows; done counts the window columns from here.
Having ==
  /\ sel.stage = "projected"
  /\ LET rows == IF sel.query.having = NoExpr THEN sel.rows
                 ELSE WhereRows(sel.rows, sel.query.having)
     IN  sel' = IF Threw(rows) THEN [Idle EXCEPT !.stage = "failed"]
                ELSE [sel EXCEPT !.stage = "kept", !.done = 0, !.rows = rows]

\* Mutant of Window: the columns that are done are not counted.
WindowAgain ==
  LET sc == WindowColumns(sel.query)[sel.done + 1]
  IN  /\ sel.stage = "kept" /\ sel.done < Len(WindowColumns(sel.query))
      /\ \E rows \in ApplyWindowColumn(sel.rows, sc) :
           sel' = [sel EXCEPT !.before = sel.rows, !.rows = rows]

\* Window columns one after the other; an aggregate whose partition is not
\* the first rows reads behind the end of a vector.
Window ==
  LET sc == WindowColumns(sel.query)[sel.done + 1]
  IN  /\ sel.stage = "kept" /\ sel.done < Len(WindowColumns(sel.query))
      /\ IF ~WindowIsDefined(sel.rows, sc) THEN sel' = [Idle EXCEPT !.stage = "undefined"]
         ELSE \E rows \in ApplyWindowColumn(sel.rows, sc) :
                sel' = [sel EXCEPT !.done = @ + 1, !.before = sel.rows, !.rows = rows]

Sort ==
  /\ sel.stage = "kept" /\ sel.done = Len(WindowColumns(sel.query))
  /\ \E rows \in IF sel.query.orderBy = << >> THEN {sel.rows}
                 ELSE ApplyOrderBy(sel.rows, sel.query.orderBy) : Reach("sorted", rows)

\* OFFSET and LIMIT.
Cut ==
  /\ sel.stage = "sorted"
  /\ sel' = [sel EXCEPT !.stage = "cut",
                        !.rows = Page(sel.rows, sel.query.offset, sel.query.limit)]

Distinct ==
  /\ sel.stage = "cut"
  /\ Reach("done", IF sel.query.distinct THEN ApplyDistinct(sel.rows) ELSE sel.rows)

\* The QueryResult goes back to the caller.
Return ==
  /\ sel.stage \in {"done", "failed", "undefined"}
  /\ sel' = Idle

SelectStep ==
  /\ \/ Join \/ Filter \/ Group \/ Project \/ Having \/ Window \/ Sort \/ Cut
     \/ Distinct \/ Return
  /\ UNCHANGED <<db, txn, last, steps>>

-----------------------------------------------------------------------------
Init ==
  /\ db \in ToSet(Files)
  /\ txn = NoTxn
  /\ last = Statement("start", "", << >>, "ok")
  /\ sel = Idle
  /\ steps = 0

\* Execute: each text as the parser reads it.
Statements == [i \in DOMAIN Texts |-> Parse(Texts[i])]

\* Executor::Execute gives each to the handler of its kind.
OfKind(kinds) == {stmt \in ToSet(Statements) : stmt.kind \in kinds}

WriteStep ==
  \/ \E stmt \in OfKind({"insert"}) : Insert(stmt)
  \/ \E stmt \in OfKind({"update"}) : Update(stmt)
  \/ \E stmt \in OfKind({"delete"}) : Delete(stmt)
  \/ \E stmt \in OfKind({"create"}) : CreateTable(stmt)
  \/ \E stmt \in OfKind({"index"}) : CreateIndex(stmt)
  \/ \E stmt \in OfKind({"drop", "truncate"}) : DropOrTruncate(stmt)
  \/ \E stmt \in OfKind({"begin"}) : Begin
  \/ \E stmt \in OfKind({"commit"}) : Commit
  \/ \E stmt \in OfKind({"rollback"}) : Rollback
  \/ \E stmt \in OfKind({"none", "begin", "commit", "rollback"}) : Refused(stmt)

Next ==
  \/ WriteStep
  \/ \E stmt \in OfKind({"select"}) :
       StartSelect(stmt) /\ UNCHANGED <<db, txn, last, steps>>
  \/ Restart
  \/ SelectStep

\* A SELECT that has begun runs on: nothing else has the thread.
Fairness == WF_vars(SelectStep)

Spec == Init /\ [][Next]_vars /\ Fairness
=============================================================================
