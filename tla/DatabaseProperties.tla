------------------------- MODULE DatabaseProperties -------------------------
(***************************************************************************)
(* What the statements of module Database promise, on the tables and on    *)
(* the results of queries.  A query is compared with a definition of its   *)
(* own that knows neither indexes nor plans nor texts of values.           *)
(***************************************************************************)
EXTENDS Database, StatementText

CONSTANT Meant   \* the statements that some of the texts are written from

\* The parser reads each of these statements out of its text, no clause lost.
ASSUME MeantAssumption == \A i \in DOMAIN Meant : Statements[i] = Meant[i]

\* The values of some columns of a row, as a tuple.
Tuple(row, cols) == [i \in DOMAIN cols |-> Cell(row, cols[i])]

\* Every slot of a table holds a value of the column's type, or NULL, for
\* each column: what RowSerializer reads back of whatever was written.
DbTypeOK ==
  \A t \in DOMAIN db.schemas :
    LET def == db.schemas[t]
    IN  /\ t \in DOMAIN db.heaps /\ Len(db.trees[t]) = Len(def.indexes)
        /\ def.nextAutoValue \in Nat \ {0}
        /\ \A rid \in DOMAIN db.heaps[t] :
             /\ DOMAIN db.heaps[t][rid].row = Names(def)
             /\ \A c \in Names(def) : db.heaps[t][rid].row[c].type
                                        \in {"null", ColumnType(def, c)}

\* Every index of every table has exactly one entry for each live row, under
\* the row's key, and its entries in order, through every statement, rollback
\* and cascade.
IndexesMatch ==
  \A t \in DOMAIN db.schemas : \A i \in DOMAIN db.schemas[t].indexes :
    LET tree == db.trees[t][i]
        Mine(rid) == Entry(IndexedKey(db, t, i, db.heaps[t][rid].row), rid)
    IN  /\ ToSet(tree) = {Mine(rid) : rid \in Live(db.heaps[t])}
        /\ Len(tree) = Cardinality(Live(db.heaps[t]))
        /\ \A k \in 2..Len(tree) : ~KeyLess(tree[k].key, tree[k - 1].key)

\* A foreign key that is not NULL names a live row of the table it refers to:
\* the checks of INSERT and UPDATE, RESTRICT and CASCADE together, over
\* chains of tables and inside transactions.
ReferencesHold ==
  \A t \in DOMAIN db.schemas : \A k \in DOMAIN db.schemas[t].foreignKeys :
    LET fk == db.schemas[t].foreignKeys[k]
    IN  \A rid \in Live(db.heaps[t]) :
          LET v == db.heaps[t][rid].row[fk.column]
          IN  IsNull(v) \/ \E q \in Live(db.heaps[fk.refTable]) :
                             db.heaps[fk.refTable][q].row[fk.refColumn] = v

\* The reverse map that CREATE TABLE maintains and a start rebuilds has each
\* foreign key of the registry once, under the table it refers to.
ReverseMapExact ==
  \A t \in DOMAIN db.schemas \cup DOMAIN db.referencedBy :
    LET pointing == {x \in UNION {{<<f, k>> : k \in DOMAIN db.schemas[f].foreignKeys} :
                                  f \in DOMAIN db.schemas} :
                       db.schemas[x[1]].foreignKeys[x[2]].refTable = t}
    IN  /\ Len(Refs(db, t)) = Cardinality(pointing)
        /\ ToSet(Refs(db, t)) = {[from |-> x[1], fk |-> db.schemas[x[1]].foreignKeys[x[2]]] :
                                   x \in pointing}

\* The counter of an AUTO key is past every key the table has ever held, so
\* that no generated key is refused, across explicit keys, rollbacks and
\* restarts.
AutoValueFresh ==
  \A t \in DOMAIN db.schemas :
    db.schemas[t].autoIncrement =>
      \A rid \in DOMAIN db.heaps[t] :
        db.heaps[t][rid].row[db.schemas[t].primaryKey[1]].num < db.schemas[t].nextAutoValue

\* No two live rows have the same values in the columns of a unique index,
\* the primary key's or another: README 460 and 462, for INSERT and UPDATE.
\* INSERT inverts its check of the other indexes; where KnownDefects leaves out
\* what that lets through ("inverted unique"), this is about the primary key on
\* INSERT, about UPDATE and about CREATE UNIQUE INDEX.
UniqueKeys ==
  \A t \in DOMAIN db.schemas : \A i \in DOMAIN db.schemas[t].indexes :
    LET idx == db.schemas[t].indexes[i]
        Of(rid) == Tuple(db.heaps[t][rid].row, idx.columns)
    IN  idx.unique => \A r, q \in Live(db.heaps[t]) : Of(r) = Of(q) => r = q

-----------------------------------------------------------------------------
(* Steps.                                                                  *)

Ran(kind) == steps' # steps /\ last'.kind = kind

\* The rows a cascade takes along with a set of rows, those included.
RECURSIVE Closure(_, _)
Closure(d, S) ==
  LET Follows(x, y) ==
        \E k \in DOMAIN d.schemas[y[1]].foreignKeys :
          LET fk == d.schemas[y[1]].foreignKeys[k]
          IN  /\ fk.refTable = x[1] /\ fk.onDelete = "CASCADE"
              /\ RowAt(d, y)[fk.column] = RowAt(d, x)[fk.refColumn]
      more == {y \in LiveRows(d) \ S : \E x \in S : Follows(x, y)}
  IN  IF more = {} THEN S ELSE Closure(d, S \cup more)

\* A DELETE kills the rows its WHERE found and those a cascade takes along,
\* all of them and nothing else; a refused one kills none.
DeletedIsClosure ==
  [][Ran("delete") =>
       LET found == {<<last'.table, rid>> : rid \in ToSet(last'.rids)}
       IN  IF last'.outcome = "ok"
           THEN /\ LiveRows(db') = LiveRows(db) \ Closure(db, found)
                /\ \A x \in LiveRows(db') : RowAt(db', x) = RowAt(db, x)
           ELSE db' = db]_vars

\* ROLLBACK brings back every table as it was at the begin, without the rows
\* a cascade deleted: nothing else stays of an INSERT, UPDATE or DELETE.
RollbackRestores ==
  [][Ran("rollback") =>
       /\ last'.outcome = "ok"
       /\ \A t \in DOMAIN txn.base.heaps :
            {x \in LiveRows(db') : x[1] = t}
              = {x \in LiveRows(txn.base) : x[1] = t} \ txn.cascaded
       /\ \A x \in LiveRows(txn.base) \ txn.cascaded : RowAt(db', x) = RowAt(txn.base, x)]_vars

\* A statement that fails changes nothing, except that the rows an INSERT
\* wrote before the one that failed stay, recorded in a transaction that is
\* open, so that a ROLLBACK can still take them back.
FailureIsUndoable ==
  [][steps' # steps /\ last'.outcome = "error" =>
       IF last'.kind # "insert" THEN db' = db
       ELSE /\ \A x \in LiveRows(db) : x \in LiveRows(db') /\ RowAt(db', x) = RowAt(db, x)
            /\ \A x \in LiveRows(db') \ LiveRows(db) :
                 /\ txn'.active
                 /\ \E i \in DOMAIN txn'.changes :
                      /\ txn'.changes[i].type = "Insert"
                      /\ <<txn'.changes[i].table, txn'.changes[i].rid>> = x]_vars

-----------------------------------------------------------------------------
(* Texts.                                                                  *)

\* Expressions over a set of operands, by the shape of their root.
Built(S) ==
  {BinaryExpr(l, op, r) : l \in S, op \in {"or", "and", "=", "-", "*"}, r \in S}
    \cup {UnaryExpr("not", e) : e \in S}
    \cup {IsNullExpr(e, not) : e \in S, not \in BOOLEAN}
    \cup {BetweenExpr(e, e, f) : e \in S, f \in S}
    \cup {InExpr(e, <<f, e>>) : e \in S, f \in S}
    \cup {LikeExpr(e, f) : e \in S, f \in S}
    \cup {FunctionExpr("count", <<e, Star>>) : e \in S}

Leaf == ColumnRef("n")
Small == Built({Leaf} \cup Built({Leaf}))

\* An expression means what it says: the parser makes of every nesting of two
\* operators over one operand, written with the parentheses SQL's ranks ask for
\* and no others, the tree it was.  The AND of BETWEEN, NOT, and chains of
\* operators of one rank are where it could take another.  A parser has no
\* state: what it answers at the start it answers always.
ParsesBack ==
  last.kind = "start" /\ sel = Idle
    => \A e \in Small : ParseOr(Expr(e, 1), 1) = Got(e, Len(Expr(e, 1)) + 1)

-----------------------------------------------------------------------------
(* Queries.                                                                *)

RECURSIVE ColumnsOf(_)
ColumnsOf(e) ==
  CASE e.kind = "column" -> {e}
    [] e.kind = "literal" -> {}
    [] OTHER -> UNION {ColumnsOf(e.args[i]) : i \in DOMAIN e.args}

\* A literal that an index finds like a scan does: of the column's type, and
\* neither a numeric text nor one of the values whose key is that of NULL.
SafeLiteral(v, type) ==
  /\ v.type = type
  /\ type = "str" => v.text # << >> /\ ~IsNumeric(v)
  /\ type = "int" => v.num # -SignBit

\* Conditions the planner treats as a scan would: those that compare a column
\* with literals compare values that keys and CompareAny order alike, and a
\* condition it takes for the main table's has only columns of that table.
PlanIsSafe(q) ==
  LET def   == db.schemas[q.table]
      conds == IF q.where = NoExpr THEN {} ELSE ToSet(FlatAnd(q.where))
      Mine(e) == \A c \in ColumnsOf(e) : c.table = q.table
  IN  \A e \in conds :
        /\ BelongsToTable(e, q.table) => Mine(e)
        /\ q.joins = << >> => Mine(e)
        /\ ComparesLiteral(e) /\ Mine(e) =>
             /\ \A i \in 2..Len(e.args) :
                  SafeLiteral(e.args[i].value, ColumnType(def, e.args[1].column))
             /\ e.op \in {"<", "<="} =>
                  \A rid \in Live(db.heaps[q.table]) :
                    ~IsNull(db.heaps[q.table][rid].row[e.args[1].column])

\* The answer of FROM, JOIN and WHERE by definition: all rows of the tables,
\* in nested loops that compare values, and WHERE over the result.
NestedLoops(q) ==
  LET main == HeapRows(db, q.table)
      rows == IF q.joins = << >> THEN main
              ELSE [i \in DOMAIN main |-> PrefixRow(main[i], q.table, q.alias)]
      Loop(left, join) ==
        LET Cond(l, r) == LET a == Cell(l, LookupName(join.on.args[1]))
                              b == Cell(r, LookupName(join.on.args[2]))
                          IN  ~IsNull(a) /\ ~IsNull(b) /\ AreEqual(a, b)
            right == RightRows(db, join)
            With1(l) == LET Meets(r) == Cond(l, r)
                            met == SelectSeq(right, Meets)
                        IN  IF met = << >> /\ join.type = "left" THEN <<l>>
                            ELSE [i \in DOMAIN met |-> Merged(l, met[i])]
        IN  FlattenSeq([i \in DOMAIN left |-> With1(left[i])])
      Holds(row) == q.where = NoExpr \/ EvaluateBool(q.where, row) = "true"
  IN  SelectSeq(FoldLeft(Loop, rows, q.joins), Holds)

\* Plan, index, pushed-down conditions, hash join and second WHERE find
\* exactly the rows of the definition, in its order.
RowsExact ==
  sel.stage = "filtered" /\ PlanIsSafe(sel.query)
    /\ (\A i \in DOMAIN sel.query.joins : sel.query.joins[i].type # "right")
    => sel.rows = NestedLoops(sel.query)

\* An aggregate by definition, over the values of a bag of rows: vals is a
\* function from the rows to their values.
IsAggregateOf(v, op, vals) ==
  LET some == {r \in DOMAIN vals : ~IsNull(vals[r])}
      Num(r) == vals[r].num
      sum  == MapThenSumSet(Num, some)
  IN  CASE op = "count" -> v = IntVal(Cardinality(some))
        [] op = "sum"   -> v = FloatVal(sum, 1)
        [] op = "avg"   -> IF some = {} THEN IsNull(v)
                           ELSE v = FloatVal(sum, Cardinality(some))
        [] op \in {"min", "max"} ->
             IF some = {} THEN IsNull(v)
             ELSE /\ v \in {vals[r] : r \in some}
                  /\ \A r \in some : CompareAny(v, vals[r]) \in
                                       (IF op = "min" THEN {-1, 0} ELSE {0, 1})

\* GROUP BY makes one row for each combination of values, wherever its rows
\* are, with the aggregates over exactly these rows.
GroupsExact ==
  sel.stage = "grouped" /\ sel.query.groupBy # << >> =>
    LET by == sel.query.groupBy
        Of(g) == {i \in DOMAIN sel.before : Tuple(sel.before[i], by) = Tuple(sel.rows[g], by)}
    IN  /\ Len(sel.rows) = Cardinality({Tuple(sel.before[i], by) : i \in DOMAIN sel.before})
        /\ \A g, h \in DOMAIN sel.rows :
             Tuple(sel.rows[g], by) = Tuple(sel.rows[h], by) => g = h
        /\ \A g \in DOMAIN sel.rows, k \in DOMAIN sel.query.columns :
             LET sc == sel.query.columns[k]
                 Val(i) == IF sc.expr.args \in {<< >>, <<Star>>} THEN IntVal(1)
                           ELSE GetValue(sc.expr.args[1], sel.before[i])
             IN  IsAggregate(sc) /\ sc.expr.op \in AggregateNames =>
                   IsAggregateOf(sel.rows[g][OutKey(sc)], sc.expr.op,
                                 [i \in Of(g) |-> Val(i)])

\* A window column by definition: ROW_NUMBER numbers each partition along the
\* order, RANK counts the rows before a row, DENSE_RANK the different values
\* before it, an aggregate is over the partition.  Only where the columns of
\* the window are in the result, NULLs are not, and the code is defined.
WindowsExact ==
  sel.stage = "kept" /\ sel.done > 0 =>
    LET sc    == WindowColumns(sel.query)[sel.done]
        cols  == [i \in DOMAIN sc.order |-> sc.order[i].column]
        arg   == IF sc.expr.args # << >> THEN {sc.expr.args[1].column} ELSE {}
        used  == ToSet(cols) \cup ToSet(sc.partitionBy) \cup (arg \ {"*"})
        Val(r)    == sel.rows[r][OutKey(sc)]
        Part(r)   == {j \in DOMAIN sel.before :
                        Tuple(sel.before[j], sc.partitionBy) = Tuple(sel.before[r], sc.partitionBy)}
        Less(j, r) == RowLess(sel.before[j], sel.before[r], sc.order)
        Ahead(r)  == {j \in Part(r) : Less(j, r)}
    IN  (\A r \in DOMAIN sel.before, c \in used :
           c \in DOMAIN sel.before[r] /\ ~IsNull(sel.before[r][c])) =>
        \A r \in DOMAIN sel.before :
          /\ \A c \in DOMAIN sel.before[r] \ {OutKey(sc)} : sel.rows[r][c] = sel.before[r][c]
          /\ CASE sc.expr.op = "row_number" ->
                    /\ {Val(j).num : j \in Part(r)} = 1..Cardinality(Part(r))
                    /\ \A j \in Ahead(r) : Val(j).num < Val(r).num
               [] sc.expr.op = "rank" -> Val(r) = IntVal(Cardinality(Ahead(r)) + 1)
               [] sc.expr.op = "dense_rank" ->
                    Val(r) = IntVal(Cardinality({Tuple(sel.before[j], cols) : j \in Ahead(r)}) + 1)
               [] OTHER -> IsAggregateOf(Val(r), sc.expr.op,
                    [j \in Part(r) |-> IF arg \subseteq {"*"} THEN IntVal(1)
                                       ELSE sel.before[j][sc.expr.args[1].column]])

\* ORDER BY, OFFSET and LIMIT return the rows of the places asked for: sorted,
\* and no row left out belongs before or between them.
TopRows ==
  sel.stage = "cut" =>
    LET q    == sel.query
        skip == Max({0, q.offset})
        rest == Max({0, Len(sel.before) - skip})
    IN  /\ Len(sel.rows) = IF q.limit > 0 THEN Min({q.limit, rest}) ELSE rest
        /\ \A i \in DOMAIN sel.rows :
             /\ sel.rows[i] \in ToSet(sel.before)
             /\ Cardinality({j \in DOMAIN sel.before :
                               RowLess(sel.before[j], sel.rows[i], q.orderBy)}) < skip + i
             /\ Cardinality({j \in DOMAIN sel.before :
                               ~RowLess(sel.rows[i], sel.before[j], q.orderBy)}) >= skip + i

\* DISTINCT leaves each row once: rows with different values are not taken
\* for one another, equal ones are found wherever they are.
DistinctExact ==
  sel.stage = "done" /\ sel.query.distinct =>
    /\ ToSet(sel.rows) = ToSet(sel.before)
    /\ Len(sel.rows) = Cardinality(ToSet(sel.before))

\* Every header of a result names a column that its rows have; a row a LEFT
\* JOIN found no partner for has none of the partner's.
HeadersResolve ==
  sel.stage = "done" /\ ~(HasStar(sel.query) /\ sel.query.groupBy # << >>)
    /\ (\A i \in DOMAIN sel.query.joins : sel.query.joins[i].type # "left")
    => \A r \in DOMAIN sel.rows :
         ToSet(GetOutputColumns(db, sel.query)) \subseteq DOMAIN sel.rows[r]

\* Every SELECT comes back to the caller, with a result or an error: each
\* stage ends whatever the rows are.
SelectReturns == (sel.stage # "idle") ~> (sel.stage = "idle")
=============================================================================
