------------------------------ MODULE Relations ------------------------------
(***************************************************************************)
(* The statements of the executor on a database of several tables, each as *)
(* an operator from a database to what the statement leaves behind.  A     *)
(* database db has                                                         *)
(*   schemas       table name -> its TableDefinition in the registry       *)
(*   heaps         table name -> the slots of its heap file, in scan order *)
(*   trees         table name -> the tree of each index of its definition  *)
(*   referencedBy  table name -> [from, fk] of those that refer to it      *)
(* Splitting of heaps into pages is TableHeap's, of trees BPlusTree's.     *)
(* A state s of a running statement has a db, the changes recorded so far  *)
(* and the outcome, "ok" until an error returns or an exception is thrown. *)
(***************************************************************************)
EXTENDS ScanPlanner

Ok(s)   == s.outcome = "ok"
Fail(s) == [s EXCEPT !.outcome = "error"]

Begun(db) == [db |-> db, changes |-> << >>, outcome |-> "ok"]

\* TableDefinition and its parts.  A column without a default has NoDefault.
NoDefault == Throw

Column(name, type, nullable, unique, default) ==
  [name |-> name, type |-> type, nullable |-> nullable, unique |-> unique,
   default |-> default]

ForeignKey(column, refTable, refColumn, onDelete) ==
  [column |-> column, refTable |-> refTable, refColumn |-> refColumn,
   onDelete |-> onDelete]

Index(name, columns, unique, primary) ==
  [name |-> name, columns |-> columns, unique |-> unique, primary |-> primary]

Names(def)      == {def.columns[i].name : i \in DOMAIN def.columns}
Live(heap)      == {rid \in DOMAIN heap : heap[rid].live}
Refs(db, table) == IF table \in DOMAIN db.referencedBy
                   THEN db.referencedBy[table] ELSE << >>
HasIndex(db, table) == table \in DOMAIN db.trees /\ db.trees[table] # << >>

\* The row a heap returns for what was written: every column through
\* Serialize and Deserialize.
StoredRow(def, row) ==
  [c \in Names(def) |-> Stored(Cell(row, c), ColumnType(def, c))]

IndexedValues(row, columns) == [i \in DOMAIN columns |-> Cell(row, columns[i])]
BuildKey(row, columns)      == KeyOf(IndexedValues(row, columns))

Change(type, table, rid, before) ==
  [type |-> type, table |-> table, rid |-> rid, before |-> before]

-----------------------------------------------------------------------------
(* INSERT.                                                                 *)

WithDefaults(def, given) ==
  [c \in Names(def) |->
     LET col == def.columns[CHOOSE i \in DOMAIN def.columns : def.columns[i].name = c]
     IN  IF IsNull(Cell(given, c)) /\ col.default # NoDefault THEN col.default
         ELSE Cell(given, c)]

\* A NOT NULL column that has no value.
LacksValue(def, row) ==
  \E i \in DOMAIN def.columns :
    ~def.columns[i].nullable /\ IsNull(row[def.columns[i].name])

\* The first index of the referenced table is its primary key index.
FindsReferenced(db, fk, v) ==
  /\ HasIndex(db, fk.refTable)
  /\ PointQuery(db.trees[fk.refTable][1], KeyOf(<<v>>)) # << >>

\* Mutant of ViolatesForeignKey: any key will do once there is an index.
ViolatesNoIndex(db, def, row) ==
  \E i \in DOMAIN def.foreignKeys :
    LET fk == def.foreignKeys[i]
    IN  ~IsNull(row[fk.column]) /\ ~HasIndex(db, fk.refTable)

ViolatesForeignKey(db, def, row) ==
  \E i \in DOMAIN def.foreignKeys :
    LET v == row[def.foreignKeys[i].column]
    IN  ~IsNull(v) /\ ~FindsReferenced(db, def.foreignKeys[i], v)

\* The test of the code: a key that is not there yet is the violation.
ViolatesUnique(db, table, row) ==
  \E i \in DOMAIN db.schemas[table].indexes :
    LET idx == db.schemas[table].indexes[i]
    IN  /\ idx.unique /\ ~idx.primary
        /\ PointQuery(db.trees[table][i], BuildKey(row, idx.columns)) = << >>

\* The loop that adds a row to every index; a key that is too long throws
\* after the row and the indexes before it have been written.
AddEntries(s, table, row, rid) ==
  LET AddOne(st, i) ==
        LET columns == st.db.schemas[table].indexes[i].columns
        IN  IF ~Ok(st) THEN st
            ELSE IF Overflows(IndexedValues(row, columns)) THEN Fail(st)
            ELSE [st EXCEPT !.db.trees[table][i] =
                    TreeInsert(@, BuildKey(row, columns), rid)]
  IN  FoldLeftDomain(AddOne, s, s.db.schemas[table].indexes)

SetNextAutoValue(s, table, n) == [s EXCEPT !.db.schemas[table].nextAutoValue = n]

\* Mutant of BumpedPast: a key given by the user leaves the counter alone.
NotBumped(s, table, row) == s

\* The counter ends up behind every key, generated or given.
BumpedPast(s, table, row) ==
  LET def == s.db.schemas[table]
      pk  == row[def.primaryKey[1]]
  IN  IF ~def.autoIncrement \/ IsNull(pk) \/ ~Ok(s) THEN s
      ELSE IF pk.type # "int" THEN Fail(s)
      ELSE IF pk.num >= def.nextAutoValue THEN SetNextAutoValue(s, table, pk.num + 1)
      ELSE s

\* The row goes to the heap and the change list, then to the indexes.
WriteRow(s, table, row) ==
  LET rid == Len(s.db.heaps[table]) + 1
      written == [s EXCEPT
        !.db.heaps[table] = Append(@, [row |-> StoredRow(s.db.schemas[table], row),
                                       live |-> TRUE]),
        !.changes = Append(@, Change("Insert", table, rid, row))]
  IN  BumpedPast(AddEntries(written, table, row, rid), table, row)

\* One row of INSERT.  The counter of an AUTO key moves before the checks.
InsertRow(s, table, given) ==
  LET def     == s.db.schemas[table]
      filled  == WithDefaults(def, given)
      counts  == def.autoIncrement /\ IsNull(filled[def.primaryKey[1]])
      row     == IF counts
                 THEN [filled EXCEPT ![def.primaryKey[1]] = IntVal(def.nextAutoValue)]
                 ELSE filled
      counted == IF counts THEN SetNextAutoValue(s, table, def.nextAutoValue + 1) ELSE s
      pk      == IndexedValues(row, def.primaryKey)
      refused == \/ LacksValue(def, row)
                 \/ Overflows(pk)
                 \/ ~HasIndex(s.db, table)
                 \/ PointQuery(s.db.trees[table][1], KeyOf(pk)) # << >>
                 \/ ViolatesForeignKey(s.db, def, row)
                 \/ ViolatesUnique(s.db, table, row)
  IN  IF ~Ok(s) THEN s
      ELSE IF ~(DOMAIN given \subseteq Names(def)) THEN Fail(s)
      ELSE IF refused THEN Fail(counted)
      ELSE WriteRow(counted, table, row)

\* ExecuteInsert: the rows in turn; an error leaves the rows before it.
ExecuteInsert(db, table, rows) ==
  IF table \notin DOMAIN db.schemas THEN Fail(Begun(db))
  ELSE LET InsertNext(s, given) == InsertRow(s, table, given)
       IN  FoldLeft(InsertNext, Begun(db), rows)

-----------------------------------------------------------------------------
(* The rows UPDATE and DELETE are about.                                   *)

AvailableIn(db, table) ==
  AddTable([n \in {} |-> ""], table, "", Names(db.schemas[table]))

\* Whether the expressions of a statement on one table pass the validator.
ValidFor(db, table, exprs) ==
  /\ table \in DOMAIN db.schemas
  /\ \A i \in DOMAIN exprs :
       exprs[i] # NoExpr => IsValid(exprs[i], AvailableIn(db, table))

Scanned(db, table, where) ==
  LET def   == db.schemas[table]
      bound == IF where = NoExpr THEN where ELSE Bind(where, AvailableIn(db, table))
  IN  GetScannedRows(db.heaps[table], db.trees[table], Decide(table, def, bound))

-----------------------------------------------------------------------------
(* UPDATE.                                                                 *)

\* A row with the assignments, a function from columns to expressions over
\* the old row.
Assigned(db, table, set, old) ==
  [c \in DOMAIN old |-> IF c \in DOMAIN set
     THEN GetValue(Bind(set[c], AvailableIn(db, table)), old) ELSE old[c]]

KeyChanges(idx, old, new) ==
  BuildKey(old, idx.columns) # BuildKey(new, idx.columns)

\* Mutant of UpdateRefused: unique keys are not looked up.
UpdateRefusedByNulls(db, table, set, old) ==
  LET new == Assigned(db, table, set, old)
  IN  Throw \in {new[c] : c \in DOMAIN new} \/ LacksValue(db.schemas[table], new)

\* The checks of phase 1 on one row: nothing is written while they run, so
\* they see the indexes as they were before the statement.
UpdateRefused(db, table, set, old) ==
  LET def == db.schemas[table]
      new == Assigned(db, table, set, old)
  IN  \/ Throw \in {new[c] : c \in DOMAIN new}
      \/ LacksValue(def, new)
      \/ \E i \in DOMAIN def.foreignKeys :
           /\ def.foreignKeys[i].column \in DOMAIN set
           /\ ~IsNull(new[def.foreignKeys[i].column])
           /\ ~FindsReferenced(db, def.foreignKeys[i], new[def.foreignKeys[i].column])
      \/ \E i \in DOMAIN def.indexes :
           LET idx == def.indexes[i]
           IN  \/ Overflows(IndexedValues(new, idx.columns))
               \/ /\ idx.unique /\ KeyChanges(idx, old, new)
                  /\ PointQuery(db.trees[table][i], BuildKey(new, idx.columns)) # << >>

\* Mutant of MoveEntries: the old entry stays.
CopyEntries(s, table, old, new, rid) ==
  LET CopyOne(st, i) ==
        LET idx == st.db.schemas[table].indexes[i]
        IN  IF ~KeyChanges(idx, old, new) THEN st
            ELSE [st EXCEPT !.db.trees[table][i] =
                    TreeInsert(@, BuildKey(new, idx.columns), rid)]
  IN  FoldLeftDomain(CopyOne, s, s.db.schemas[table].indexes)

\* The entries of a row whose values change from old to new.
MoveEntries(s, table, old, new, rid) ==
  LET MoveOne(st, i) ==
        LET idx == st.db.schemas[table].indexes[i]
        IN  IF ~KeyChanges(idx, old, new) THEN st
            ELSE [st EXCEPT !.db.trees[table][i] =
                    TreeInsert(TreeDelete(@, BuildKey(old, idx.columns)),
                               BuildKey(new, idx.columns), rid)]
  IN  FoldLeftDomain(MoveOne, s, s.db.schemas[table].indexes)

\* Phase 2 on one row.
RewriteRow(s, table, rid, new) ==
  LET old == s.db.heaps[table][rid].row
      written == [s EXCEPT
        !.db.heaps[table][rid] = [row |-> StoredRow(s.db.schemas[table], new),
                                  live |-> TRUE],
        !.changes = Append(@, Change("Update", table, rid, old))]
  IN  MoveEntries(written, table, old, new, rid)

\* Phases 1 and 2 on the rows scanned.
UpdateRows(db, table, set, rids) ==
  LET old(rid) == db.heaps[table][rid].row
      Rewrite(s, rid) == RewriteRow(s, table, rid, Assigned(db, table, set, old(rid)))
  IN  IF \E i \in DOMAIN rids : UpdateRefused(db, table, set, old(rids[i]))
      THEN Fail(Begun(db))
      ELSE FoldLeft(Rewrite, Begun(db), rids)

-----------------------------------------------------------------------------
(* DELETE.                                                                 *)

\* The rows of a table that refer to a key, in the order of a scan.
Dependents(db, table, column, pkVal) ==
  LET Refers(rid) == AreEqual(db.heaps[table][rid].row[column], pkVal)
  IN  SelectSeq(FullScan(db.heaps[table]), Refers)

\* HasDependents: an index on the referring column answers if there is one.
\* A table that has been dropped has no dependents.
HasDependents(db, table, column, pkVal) ==
  /\ table \in DOMAIN db.schemas
  /\ LET i == FindIndex(db.schemas[table], column)
     IN  IF i # 0 THEN PointQuery(db.trees[table][i], KeyOf(<<pkVal>>)) # << >>
         ELSE Dependents(db, table, column, pkVal) # << >>

IsKeyOf(db, table, column) == column \in ToSet(db.schemas[table].primaryKey)

\* Mutant of CanDelete: the dependents of dependents are not asked.
RECURSIVE CanDeleteDirectly(_, _, _)
CanDeleteDirectly(db, table, row) ==
  \A i \in DOMAIN Refs(db, table) :
    LET ref == Refs(db, table)[i]
    IN  \/ ~IsKeyOf(db, table, ref.fk.refColumn)
        \/ ~HasDependents(db, ref.from, ref.fk.column, row[ref.fk.refColumn])
        \/ ref.fk.onDelete = "CASCADE"

\* Whether a row may go: nothing refers to it, or only rows that a cascade
\* takes along and that may go themselves.
RECURSIVE CanDelete(_, _, _)
CanDelete(db, table, row) ==
  \A i \in DOMAIN Refs(db, table) :
    LET ref   == Refs(db, table)[i]
        pkVal == row[ref.fk.refColumn]
    IN  \/ ~IsKeyOf(db, table, ref.fk.refColumn)
        \/ ~HasDependents(db, ref.from, ref.fk.column, pkVal)
        \/ /\ ref.fk.onDelete = "CASCADE"
           /\ \A rid \in ToSet(Dependents(db, ref.from, ref.fk.column, pkVal)) :
                CanDelete(db, ref.from, db.heaps[ref.from][rid].row)

\* The delete flag, and the entries of the row in every index.
EraseRow(s, table, rid) ==
  LET row == s.db.heaps[table][rid].row
      DropOne(st, i) ==
        [st EXCEPT !.db.trees[table][i] =
           TreeDelete(@, BuildKey(row, st.db.schemas[table].indexes[i].columns))]
  IN  FoldLeftDomain(DropOne, [s EXCEPT !.db.heaps[table][rid].live = FALSE],
                     s.db.schemas[table].indexes)

\* Mutant of DoDelete: a cascade goes one table far.
RECURSIVE DoDeleteOnce(_, _, _)
DoDeleteOnce(s, table, rid) ==
  LET row == s.db.heaps[table][rid].row
      Follow(st, ref) ==
        LET Take(x, dependent) == EraseRow(x, ref.from, dependent)
        IN  IF ref.fk.onDelete # "CASCADE" THEN st
            ELSE FoldLeft(Take, st, Dependents(st.db, ref.from, ref.fk.column,
                                               row[ref.fk.refColumn]))
  IN  EraseRow(FoldLeft(Follow, s, Refs(s.db, table)), table, rid)

\* The rows that refer to this one by a cascading key first, then the row
\* itself.  Nothing is logged or recorded here.  A referring table that was
\* dropped throws.
RECURSIVE DoDelete(_, _, _)
DoDelete(s, table, rid) ==
  LET row == s.db.heaps[table][rid].row
      Follow(st, ref) ==
        LET TakeOne(x, dependent) == DoDelete(x, ref.from, dependent)
        IN  IF ~Ok(st) \/ ref.fk.onDelete # "CASCADE" THEN st
            ELSE IF ref.from \notin DOMAIN st.db.schemas THEN Fail(st)
            ELSE FoldLeft(TakeOne, st, Dependents(st.db, ref.from, ref.fk.column,
                                                  row[ref.fk.refColumn]))
      followed == FoldLeft(Follow, s, Refs(s.db, table))
  IN  IF ~Ok(s) THEN s
      ELSE IF ~Ok(followed) THEN followed
      ELSE EraseRow(followed, table, rid)

\* The rows scanned, after all of them passed CanDelete: each is recorded and
\* then deleted.
DeleteRows(db, table, rids) ==
  LET DeleteOne(s, rid) ==
        IF ~Ok(s) THEN s
        ELSE DoDelete([s EXCEPT !.changes = Append(@,
               Change("Delete", table, rid, s.db.heaps[table][rid].row))], table, rid)
  IN  FoldLeft(DeleteOne, Begun(db), rids)

-----------------------------------------------------------------------------
(* ROLLBACK: one change undone.                                            *)

UndoChange(s, c) ==
  LET current == s.db.heaps[c.table][c.rid].row
      restored == [s EXCEPT !.db.heaps[c.table][c.rid] =
                     [row |-> c.before, live |-> TRUE]]
  IN  IF ~Ok(s) THEN s
      ELSE IF c.table \notin DOMAIN s.db.schemas THEN Fail(s)
      ELSE CASE c.type = "Insert" -> EraseRow(s, c.table, c.rid)
             [] c.type = "Update" -> MoveEntries(restored, c.table, current, c.before, c.rid)
             [] c.type = "Delete" ->
                  AddEntries([s EXCEPT !.db.heaps[c.table][c.rid].live = TRUE],
                             c.table, c.before, c.rid)

\* Mutant of UndoAll: from the first change to the last.
UndoAllForward(db, changes) == FoldLeft(UndoChange, Begun(db), changes)

\* The loop over the changes from the last to the first.
UndoAll(db, changes) ==
  LET UndoOne(c, s) == UndoChange(s, c)
  IN  FoldRight(UndoOne, changes, Begun(db))

-----------------------------------------------------------------------------
(* CREATE, DROP, TRUNCATE and the registry.                                *)

EmptyDatabase == [schemas |-> [t \in {} |-> {}], heaps |-> [t \in {} |-> {}],
                  trees |-> [t \in {} |-> {}], referencedBy |-> [t \in {} |-> {}]]

Types == {"int", "float", "bool", "str"}

\* The indexes of a new table: its primary key, then its unique columns.
NewIndexes(stmt) ==
  LET IsUnique(col) == col.unique /\ col.name \notin ToSet(stmt.primaryKey)
      uniques == SelectSeq(stmt.columns, IsUnique)
  IN  (IF stmt.primaryKey = << >> THEN << >>
       ELSE <<Index("pk_" \o stmt.name, stmt.primaryKey, TRUE, TRUE)>>)
        \o [i \in DOMAIN uniques |->
              Index("uq_" \o stmt.name \o "_" \o uniques[i].name,
                    <<uniques[i].name>>, TRUE, FALSE)]

\* A foreign key must name a column of the primary key of an existing table.
TableRefused(db, stmt) ==
  LET cols == stmt.columns
  IN  \/ stmt.name \in DOMAIN db.schemas
      \/ /\ stmt.autoIncrement
         /\ \/ Len(stmt.primaryKey) # 1
            \/ \A i \in DOMAIN cols : cols[i].name = stmt.primaryKey[1]
                                        => cols[i].type # "int"
      \/ \E i \in DOMAIN stmt.foreignKeys :
           LET fk == stmt.foreignKeys[i]
           IN  \/ fk.refTable \notin DOMAIN db.schemas
               \/ ~IsKeyOf(db, fk.refTable, fk.refColumn)
      \/ \E i, j \in DOMAIN cols : i # j /\ cols[i].name = cols[j].name
      \/ \E i \in DOMAIN cols : cols[i].type \notin Types

\* A function with one more argument, or a new value for one it has.
With(f, x, v) == [y \in DOMAIN f \cup {x} |-> IF y = x THEN v ELSE f[y]]
Without(f, x) == [y \in DOMAIN f \ {x} |-> f[y]]

\* The foreign keys of a definition in the reverse map.
Registered(map, def) ==
  LET AddOne(m, fk) ==
        With(m, fk.refTable, Append(IF fk.refTable \in DOMAIN m THEN m[fk.refTable]
                                    ELSE << >>, [from |-> def.name, fk |-> fk]))
  IN  FoldLeft(AddOne, map, def.foreignKeys)

\* CREATE TABLE: the registry, empty files, the reverse map.
CreatedTable(db, stmt) ==
  LET def == [name |-> stmt.name, columns |-> stmt.columns,
              primaryKey |-> stmt.primaryKey, autoIncrement |-> stmt.autoIncrement,
              nextAutoValue |-> 1, foreignKeys |-> stmt.foreignKeys,
              indexes |-> NewIndexes(stmt)]
  IN  [schemas |-> With(db.schemas, def.name, def),
       heaps |-> With(db.heaps, def.name, << >>),
       trees |-> With(db.trees, def.name, [i \in DOMAIN def.indexes |-> << >>]),
       referencedBy |-> Registered(db.referencedBy, def)]

ExecuteCreateTable(db, stmt) ==
  IF TableRefused(db, stmt) THEN Fail(Begun(db)) ELSE Begun(CreatedTable(db, stmt))

\* CREATE INDEX fills the new tree from a scan; a unique one gives up at the
\* first key it meets twice, a key that is too long throws.
ExecuteCreateIndex(db, table, name, columns, unique) ==
  LET def  == db.schemas[table]
      heap == db.heaps[table]
      Key(rid) == BuildKey(heap[rid].row, columns)
      Fill(tree, rid) == TreeInsert(tree, Key(rid), rid)
      refused ==
        \/ ~(ToSet(columns) \subseteq Names(def))
        \/ \E i \in DOMAIN def.indexes : def.indexes[i].name = name
        \/ \E rid \in Live(heap) : Overflows(IndexedValues(heap[rid].row, columns))
        \/ unique /\ \E r, q \in Live(heap) : r # q /\ Key(r) = Key(q)
  IN  IF table \notin DOMAIN db.schemas THEN Fail(Begun(db))
      ELSE IF refused THEN Fail(Begun(db))
      ELSE Begun([db EXCEPT
             !.schemas[table].indexes = Append(@, Index(name, columns, unique, FALSE)),
             !.trees[table] = Append(@, FoldLeft(Fill, << >>, FullScan(heap)))])

\* DROP TABLE leaves the reverse map as it is.
ExecuteDropTable(db, table) ==
  IF table \notin DOMAIN db.schemas THEN Fail(Begun(db))
  ELSE Begun([db EXCEPT !.schemas = Without(@, table), !.heaps = Without(@, table),
                        !.trees = Without(@, table)])

\* TRUNCATE opens empty files under the same definition.
ExecuteTruncate(db, table) ==
  IF table \notin DOMAIN db.schemas THEN Fail(Begun(db))
  ELSE Begun([db EXCEPT !.heaps[table] = << >>,
                        !.trees[table] = [i \in DOMAIN @ |-> << >>],
                        !.schemas[table].nextAutoValue = 1])

\* Mutant of BuildReferencedByMap: the map is not cleared first.
ExtendReferencedByMap(db, order) ==
  LET AddTableOf(m, t) == Registered(m, db.schemas[t])
  IN  FoldLeft(AddTableOf, db.referencedBy, order)

\* BuildReferencedByMap, over the tables in any order.
BuildReferencedByMap(db, order) ==
  LET AddTableOf(m, t) == Registered(m, db.schemas[t])
  IN  FoldLeft(AddTableOf, [t \in {} |-> {}], order)
=============================================================================
