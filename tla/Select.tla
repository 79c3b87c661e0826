-------------------------------- MODULE Select -------------------------------
(***************************************************************************)
(* The stages of ExecuteSelect, each as an operator on the rows that reach *)
(* it.  A row is a function from names to values; a list of rows in which  *)
(* an expression threw holds a Throw.  std::sort may leave equal rows in   *)
(* any order, so what sorts yields a set of results.                       *)
(***************************************************************************)
EXTENDS Relations

\* SelectColumn, JoinClause and OrderByClause.  "" stands for no alias.
SelectColumn(expr, alias) ==
  [star |-> FALSE, expr |-> expr, alias |-> alias, window |-> FALSE,
   partitionBy |-> << >>, order |-> << >>]

StarColumn == [SelectColumn(NoExpr, "") EXCEPT !.star = TRUE]

WindowColumn(expr, alias, partitionBy, order) ==
  [SelectColumn(expr, alias) EXCEPT !.window = TRUE,
     !.partitionBy = partitionBy, !.order = order]

JoinClause(table, alias, type, on) ==
  [table |-> table, alias |-> alias, type |-> type, on |-> on]

OrderBy(column, desc) == [column |-> column, desc |-> desc]

\* SelectStatement as the parser leaves it; -1: no LIMIT, no OFFSET.
SelectFrom(table, alias, columns) ==
  [kind |-> "select", table |-> table, alias |-> alias, columns |-> columns,
   distinct |-> FALSE, joins |-> << >>, where |-> NoExpr, groupBy |-> << >>,
   having |-> NoExpr, orderBy |-> << >>, offset |-> -1, limit |-> -1]

IsFunction(sc)  == ~sc.star /\ sc.expr.kind = "function"
IsAggregate(sc) == IsFunction(sc) /\ ~sc.window
HasAggregate(q) == \E i \in DOMAIN q.columns : IsAggregate(q.columns[i])
HasStar(q)      == \E i \in DOMAIN q.columns : q.columns[i].star

\* An exception came up in one of the rows.
Threw(rows) == \E i \in DOMAIN rows : \E c \in DOMAIN rows[i] : rows[i][c] = Throw

-----------------------------------------------------------------------------
(* ValidateSelect and the binding it does on the way.                      *)

\* BuildAvailable.
Available(db, q) ==
  LET AddJoin(available, join) ==
        AddTable(available, join.table, join.alias, Names(db.schemas[join.table]))
  IN  FoldLeft(AddJoin,
               AddTable([n \in {} |-> ""], q.table, q.alias, Names(db.schemas[q.table])),
               q.joins)

\* HAVING, PARTITION BY and the order of a window are not looked at.
ValidateSelect(db, q) ==
  LET available == Available(db, q)
      aliases   == {q.columns[i].alias : i \in DOMAIN q.columns} \ {""}
      known     == DOMAIN available \cup aliases
      plain(sc) == sc.star \/ (~sc.window /\ ~IsAggregate(sc))
  IN  /\ q.table \in DOMAIN db.schemas
      /\ \A i \in DOMAIN q.joins : q.joins[i].table \in DOMAIN db.schemas
      /\ \A i \in DOMAIN q.joins : IsValid(q.joins[i].on, available)
      /\ \A i \in DOMAIN q.columns :
           q.columns[i].star \/ IsValid(q.columns[i].expr, available)
      /\ q.where # NoExpr => IsValid(q.where, available)
      /\ \A i \in DOMAIN q.orderBy : q.orderBy[i].column \in known
      /\ ToSet(q.groupBy) \subseteq known
      /\ ~ /\ q.groupBy = << >> /\ HasAggregate(q)
           /\ \E i \in DOMAIN q.columns : plain(q.columns[i])

\* A valid query with the tables of its bare columns filled in.
BoundQuery(db, q) ==
  LET available == Available(db, q)
      Bound(e)  == IF e = NoExpr THEN e ELSE Bind(e, available)
  IN  [q EXCEPT !.where = Bound(@),
         !.joins   = [i \in DOMAIN @ |-> [@[i] EXCEPT !.on = Bound(@)]],
         !.columns = [i \in DOMAIN @ |-> [@[i] EXCEPT !.expr = Bound(@)]]]

-----------------------------------------------------------------------------
(* Joins.                                                                  *)

\* Mutant of PrefixRow: no column keeps its own name.
PrefixOnly(row, table, alias) ==
  LET names == {p \o "." \o c : p \in {table, alias} \ {""}, c \in DOMAIN row}
      Is(n, c) == n \in {table \o "." \o c, alias \o "." \o c}
  IN  [n \in names |-> row[CHOOSE c \in DOMAIN row : Is(n, c)]]

\* PrefixRow: every column under its own name and those of its table.
PrefixRow(row, table, alias) ==
  LET names == {p \o c : p \in {"", table \o "."}
                           \cup (IF alias = "" THEN {} ELSE {alias \o "."}),
                         c \in DOMAIN row}
      Is(n, c) == n \in {c, table \o "." \o c, alias \o "." \o c}
  IN  [n \in names |-> row[CHOOSE c \in DOMAIN row : Is(n, c)]]

HeapRows(db, table) ==
  LET rids == FullScan(db.heaps[table])
  IN  [i \in DOMAIN rids |-> db.heaps[table][rids[i]].row]

\* GetJoinColumns wants column = column, the left one first.
JoinsColumns(on) ==
  /\ on.kind = "binary" /\ on.op = "="
  /\ \A i \in {1, 2} : on.args[i].kind = "column"

\* Columns the left row has are kept.
Merged(l, r) == [n \in DOMAIN l \cup DOMAIN r |-> IF n \in DOMAIN l THEN l[n] ELSE r[n]]

\* Mutant of HashJoin: a row without a key meets the rows without a key.
HashJoinNulls(left, right, leftCol, rightCol, isLeft) ==
  LET Joined(l) ==
        LET Meets(r)   == DbObjectToString(Cell(r, rightCol))
                            = DbObjectToString(Cell(l, leftCol))
            matches    == SelectSeq(right, Meets)
        IN  IF matches = << >> THEN IF isLeft THEN <<l>> ELSE << >>
            ELSE [i \in DOMAIN matches |-> Merged(l, matches[i])]
  IN  FlattenSeq([i \in DOMAIN left |-> Joined(left[i])])

\* The map from the text of a key to the rows on the right that have it;
\* a NULL is in no map and finds nothing.
HashJoin(left, right, leftCol, rightCol, isLeft) ==
  LET Joined(l) ==
        LET Meets(r)   == /\ ~IsNull(Cell(r, rightCol)) /\ ~IsNull(Cell(l, leftCol))
                          /\ DbObjectToString(Cell(r, rightCol))
                               = DbObjectToString(Cell(l, leftCol))
            matches    == SelectSeq(right, Meets)
        IN  IF matches = << >> THEN IF isLeft THEN <<l>> ELSE << >>
            ELSE [i \in DOMAIN matches |-> Merged(l, matches[i])]
  IN  FlattenSeq([i \in DOMAIN left |-> Joined(left[i])])

RightRows(db, join) ==
  LET rows == HeapRows(db, join.table)
  IN  [i \in DOMAIN rows |-> PrefixRow(rows[i], join.table, join.alias)]

\* A RIGHT join is executed as an inner one.
JoinTable(db, rows, join) ==
  HashJoin(rows, RightRows(db, join), LookupName(join.on.args[1]),
           LookupName(join.on.args[2]), join.type = "left")

\* WHERE once more, over the joined rows; the planner had the conditions on
\* the main table before.
Kept(rows, passing) ==
  IF passing.thrown THEN <<[c \in {""} |-> Throw]>>
  ELSE [k \in DOMAIN passing.rids |-> rows[passing.rids[k]]]

WhereRows(rows, where) ==
  Kept(rows, Passing([i \in DOMAIN rows |-> i],
                     [i \in DOMAIN rows |-> EvaluateBool(where, rows[i])]))

-----------------------------------------------------------------------------
(* Groups.                                                                 *)

\* The key of a row in a group or partition: the texts of its values.
TextKey(row, cols) ==
  FlattenSeq([i \in DOMAIN cols |-> DbObjectToString(Cell(row, cols[i])) \o <<"|">>])

\* The indexes of the rows of each group, the groups in the order in which
\* their first rows come.
Partitions(rows, cols) ==
  LET key     == [i \in DOMAIN rows |-> TextKey(rows[i], cols)]
      IsFirst(i) == \A j \in 1..(i - 1) : key[j] # key[i]
      firsts  == SelectSeq([i \in DOMAIN rows |-> i], IsFirst)
      Group(f) == LET Same(i) == key[i] = key[f]
                  IN  SelectSeq([i \in DOMAIN rows |-> i], Same)
  IN  [g \in DOMAIN firsts |-> Group(firsts[g])]

Plus[x \in AnyValue, y \in AnyValue] ==
  FloatVal(x.num * y.den + y.num * x.den, x.den * y.den)

\* The sum of the numeric values of a list, as a double.
Total[vals \in Seq(AnyValue)] ==
  IF vals = << >> THEN FloatVal(0, 1)
  ELSE IF IsNumeric(Last(vals)) THEN Plus[Total[Front(vals)], Double(Last(vals))]
  ELSE Total[Front(vals)]

Average(vals) ==
  LET numbers == SelectSeq(vals, IsNumeric)
      sum     == Total[numbers]
  IN  IF numbers = << >> THEN Null ELSE FloatVal(sum.num, sum.den * Len(numbers))

\* The value that stays the least (sign -1) or greatest (sign 1) of two; the
\* first value replaces a NULL.
Better[best \in AnyValue, v \in AnyValue, sign \in {-1, 1}] ==
  IF IsNull(best) THEN v ELSE IF CompareAny(v, best) = sign THEN v ELSE best

Extreme[vals \in Seq(AnyValue), sign \in {-1, 1}] ==
  IF vals = << >> THEN Null ELSE Better[Extreme[Front(vals), sign], Last(vals), sign]

SomeValues(vals) == LET IsSome(v) == ~IsNull(v) IN SelectSeq(vals, IsSome)

AggregateNames == {"count", "sum", "avg", "min", "max"}

\* The calls ComputeGroup has a value for.
IsComputed(fn) == fn.op = "count" \/ (fn.op \in AggregateNames /\ fn.args # << >>)

\* One aggregate over the values its argument has in n rows.
AggregateOf(fn, n, vals) ==
  CASE fn.op = "count" /\ fn.args \in {<< >>, <<Star>>} -> IntVal(n)
    [] Throw \in ToSet(vals) -> Throw
    [] fn.op = "count" -> IntVal(Len(SomeValues(vals)))
    [] fn.op = "sum"   -> Total[vals]
    [] fn.op = "avg"   -> Average(vals)
    [] fn.op = "min"   -> Extreme[SomeValues(vals), -1]
    [] fn.op = "max"   -> Extreme[SomeValues(vals), 1]

Aggregate(fn, group) ==
  AggregateOf(fn, Len(group), [i \in DOMAIN group |->
    IF fn.args = << >> THEN Null ELSE GetValue(fn.args[1], group[i])])

\* The name a column of the result has.
OutKey(sc) ==
  CASE sc.alias # ""           -> sc.alias
    [] sc.expr.kind = "column" -> IF sc.expr.qualified THEN LookupName(sc.expr)
                                                       ELSE sc.expr.column
    [] IsFunction(sc)          -> sc.expr.op
    [] OTHER                   -> "expr"

\* The row of a group: its keys, from its first row, and the aggregates.
ComputeGroup(group, groupBy, columns) ==
  LET keys == {c \in ToSet(groupBy) : group # << >> /\ c \in DOMAIN group[1]}
      aggregates == {i \in DOMAIN columns :
                       IsFunction(columns[i]) /\ IsComputed(columns[i].expr)}
      outs == {OutKey(columns[i]) : i \in aggregates}
      Of(n) == columns[Max({i \in aggregates : OutKey(columns[i]) = n})].expr
  IN  [n \in keys \cup outs |-> IF n \in outs THEN Aggregate(Of(n), group)
                                              ELSE group[1][n]]

\* Mutant of ApplyGroupBy: a group ends where the key changes.
ApplyGroupByRuns(rows, groupBy, columns) ==
  LET Starts(i) == i = 1 \/ TextKey(rows[i], groupBy) # TextKey(rows[i - 1], groupBy)
      starts    == SelectSeq([i \in DOMAIN rows |-> i], Starts)
      End(g)    == IF g = Len(starts) THEN Len(rows) ELSE starts[g + 1] - 1
  IN  [g \in DOMAIN starts |->
         ComputeGroup(SubSeq(rows, starts[g], End(g)), groupBy, columns)]

ApplyGroupBy(rows, groupBy, columns) ==
  LET groups == Partitions(rows, groupBy)
      Rows(g) == [i \in DOMAIN groups[g] |-> rows[groups[g][i]]]
  IN  [g \in DOMAIN groups |-> ComputeGroup(Rows(g), groupBy, columns)]

\* GROUP BY, or one group of everything if there is an aggregate.
Grouped(rows, q) ==
  CASE q.groupBy # << >> -> ApplyGroupBy(rows, q.groupBy, q.columns)
    [] q.groupBy = << >> /\ HasAggregate(q) -> <<ComputeGroup(rows, << >>, q.columns)>>
    [] OTHER -> rows

-----------------------------------------------------------------------------
(* Projection.                                                             *)

\* GetOutputColumns: the headers of the result.
GetOutputColumns(db, q) ==
  LET Cols(t) == [i \in DOMAIN db.schemas[t].columns |-> db.schemas[t].columns[i].name]
      OfJoin(join) == LET cols == Cols(join.table)
                          q0   == IF join.alias = "" THEN join.table ELSE join.alias
                      IN  [i \in DOMAIN cols |-> q0 \o "." \o cols[i]]
  IN  IF HasStar(q)
      THEN Cols(q.table) \o FlattenSeq([j \in DOMAIN q.joins |-> OfJoin(q.joins[j])])
      ELSE [i \in DOMAIN q.columns |-> OutKey(q.columns[i])]

\* The value of a column in a result row: by its name if the row has it, else
\* computed; a NULL column is looked for once more under its other names.
ProjectedValue(sc, row) ==
  LET key  == OutKey(sc)
      full == sc.expr.table \o "." \o sc.expr.column
      val  == IF key \in DOMAIN row THEN row[key] ELSE GetValue(sc.expr, row)
  IN  IF ~IsNull(val) \/ sc.expr.kind # "column" THEN val
      ELSE IF sc.expr.table # "" /\ ~IsNull(Cell(row, full)) THEN row[full]
      ELSE Cell(row, sc.expr.column)

\* Of columns with the same name the last one counts.
ProjectRows(rows, columns) ==
  LET outs  == {OutKey(columns[i]) : i \in DOMAIN columns}
      Of(n) == columns[Max({i \in DOMAIN columns : OutKey(columns[i]) = n})]
  IN  IF \E i \in DOMAIN columns : columns[i].star THEN rows
      ELSE [r \in DOMAIN rows |-> [n \in outs |-> ProjectedValue(Of(n), rows[r])]]

-----------------------------------------------------------------------------
(* Sorting.                                                                *)

\* The order of two rows by the clauses of ORDER BY: the first that tells
\* them apart.
RowLess(a, b, order) ==
  LET Cmp(i) == LET cmp == CompareAny(Cell(a, order[i].column), Cell(b, order[i].column))
                IN  IF order[i].desc THEN -cmp ELSE cmp
      tells == {i \in DOMAIN order : Cmp(i) # 0}
  IN  tells # {} /\ Cmp(Min(tells)) < 0

\* The results of sorting the row numbers S of rows.
RECURSIVE Orderings(_, _, _)
Orderings(rows, S, order) ==
  LET least == {i \in S : \A j \in S : ~RowLess(rows[j], rows[i], order)}
  IN  IF S = {} THEN {<< >>}
      ELSE UNION {{<<i>> \o rest : rest \in Orderings(rows, S \ {i}, order)} : i \in least}

ApplyOrderBy(rows, order) ==
  {[i \in DOMAIN p |-> rows[p[i]]] : p \in Orderings(rows, DOMAIN rows, order)}

-----------------------------------------------------------------------------
(* Window functions.                                                       *)

\* Whether a row of a sorted partition and the one before it are peers: a
\* column the rows do not have makes them different.
Peers(a, b, order) ==
  \A i \in DOMAIN order :
    LET c == order[i].column
    IN  c \in DOMAIN a /\ c \in DOMAIN b /\ CompareAny(a[c], b[c]) = 0

\* The positions of a sorted partition where the order columns change.
NewRanks(rows, part, order) ==
  {k \in DOMAIN part : k > 1 /\ ~Peers(rows[part[k - 1]], rows[part[k]], order)}

\* An aggregate over a partition reads a bare column of the projected rows.
WindowAggregate(fn, rows, part) ==
  LET arg  == IF fn.args # << >> /\ fn.args[1].kind = "column"
              THEN fn.args[1].column ELSE ""
      Has(r) == arg \in DOMAIN rows[r]
      having == SelectSeq(part, Has)
      vals   == [i \in DOMAIN having |-> rows[having[i]][arg]]
  IN  CASE fn.op = "count" -> IntVal(Len(part))
        [] fn.op = "sum"   -> Total[vals]
        [] fn.op = "avg"   -> Average(vals)
        [] fn.op = "min"   -> Extreme[vals, -1]
        [] fn.op = "max"   -> Extreme[vals, 1]

\* The aggregates are written to the rows part[i] for the row numbers i in
\* part, not for its positions: defined only if part is the first rows.
IsDefined(fn, part) == fn.op \in AggregateNames => ToSet(part) = DOMAIN part

\* Mutant of WindowValue: ranks continue without gaps and dense ones with.
WindowValueSwapped(sc, rows, part, k) ==
  LET new == {n \in NewRanks(rows, part, sc.order) : n <= k}
  IN  CASE sc.expr.op = "row_number" -> IntVal(k)
        [] sc.expr.op = "dense_rank" -> IntVal(Max({1} \cup new))
        [] sc.expr.op = "rank"       -> IntVal(Cardinality(new) + 1)
        [] sc.expr.op \in AggregateNames -> WindowAggregate(sc.expr, rows, part)

\* What the row at position k of a sorted partition gets.
WindowValue(sc, rows, part, k) ==
  LET new == {n \in NewRanks(rows, part, sc.order) : n <= k}
  IN  CASE sc.expr.op = "row_number" -> IntVal(k)
        [] sc.expr.op = "rank"       -> IntVal(Max({1} \cup new))
        [] sc.expr.op = "dense_rank" -> IntVal(Cardinality(new) + 1)
        [] sc.expr.op \in AggregateNames -> WindowAggregate(sc.expr, rows, part)

\* The sorted forms of a partition: as it is without an order.
SortedParts(rows, part, order) ==
  IF order = << >> THEN {part} ELSE Orderings(rows, ToSet(part), order)

WithColumn(row, name, v) ==
  [n \in DOMAIN row \cup {name} |-> IF n = name THEN v ELSE row[n]]

\* One window column of ApplyWindowFunctions, partition after partition.
ApplyWindowColumn(rows, sc) ==
  LET parts == Partitions(rows, sc.partitionBy)
      AddPart(results, part) ==
        {[r \in DOMAIN rows |->
            IF r \in ToSet(part)
            THEN WithColumn(done[r], OutKey(sc),
                            WindowValue(sc, done, sorted, CHOOSE k \in DOMAIN sorted :
                                                            sorted[k] = r))
            ELSE done[r]] :
           <<done, sorted>> \in results \X SortedParts(rows, part, sc.order)}
  IN  FoldLeft(AddPart, {rows}, parts)

WindowIsDefined(rows, sc) ==
  LET parts == Partitions(rows, sc.partitionBy)
  IN  \A i \in DOMAIN parts : IsDefined(sc.expr, parts[i])

WindowColumns(q) ==
  LET IsWindow(sc) == sc.window IN SelectSeq(q.columns, IsWindow)

-----------------------------------------------------------------------------
(* The end of the pipeline.                                                *)

\* Mutant of Page: LIMIT before OFFSET.
PageLimitFirst(rows, offset, limit) ==
  LET limited == IF limit > 0 /\ limit < Len(rows) THEN SubSeq(rows, 1, limit) ELSE rows
  IN  IF offset > 0 THEN SubSeq(limited, offset + 1, Len(limited)) ELSE limited

\* OFFSET, then LIMIT; neither does anything at 0.
Page(rows, offset, limit) ==
  LET rest == IF offset > 0 THEN SubSeq(rows, offset + 1, Len(rows)) ELSE rows
  IN  IF limit > 0 /\ limit < Len(rest) THEN SubSeq(rest, 1, limit) ELSE rest

\* The fingerprint of a row: name=text| for all of its columns.
Fingerprint(row) ==
  LET names == SetToSeq(DOMAIN row)
  IN  FlattenSeq([i \in DOMAIN names |->
        <<names[i], "=">> \o DbObjectToString(row[names[i]]) \o <<"|">>])

\* Mutant of ApplyDistinct: a row is compared with the one before it.
ApplyDistinctRuns(rows) ==
  LET IsNew(i) == i = 1 \/ Fingerprint(rows[i - 1]) # Fingerprint(rows[i])
      new == SelectSeq([i \in DOMAIN rows |-> i], IsNew)
  IN  [i \in DOMAIN new |-> rows[new[i]]]

ApplyDistinct(rows) ==
  LET IsNew(i) == \A j \in 1..(i - 1) : Fingerprint(rows[j]) # Fingerprint(rows[i])
      new == SelectSeq([i \in DOMAIN rows |-> i], IsNew)
  IN  [i \in DOMAIN new |-> rows[new[i]]]
=============================================================================
