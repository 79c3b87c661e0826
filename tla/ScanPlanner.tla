----------------------------- MODULE ScanPlanner -----------------------------
(***************************************************************************)
(* How the rows of one table that a statement is about are found: the      *)
(* conditions of WHERE that are about this table, the first of them that   *)
(* an index can answer, and the rest as a filter.  A definition def has    *)
(* the fields of TableDefinition; trees[i] is the tree of def.indexes[i].  *)
(***************************************************************************)
EXTENDS Expressions, OrderedIndex

\* A statement without WHERE.
NoExpr == Node("none", "", << >>)

FullPlan == [type |-> "full", index |-> 0, start |-> MinKey, end |-> MaxKey,
             startOpen |-> FALSE, endOpen |-> FALSE, filter |-> << >>]

\* The conditions an AND chain is made of, from left to right.
RECURSIVE FlatAnd(_)
FlatAnd(e) ==
  IF e.kind = "binary" /\ e.op = "and"
  THEN FlatAnd(e.args[1]) \o FlatAnd(e.args[2]) ELSE <<e>>

\* Whether a condition is only about the columns of this table.  Of BETWEEN,
\* LIKE and IN only the first operand is looked at, of a function none.
RECURSIVE BelongsToTable(_, _)
BelongsToTable(e, table) ==
  CASE e.kind = "column" -> e.table \in {"", table}
    [] e.kind \in {"binary", "unary"} ->
         \A i \in DOMAIN e.args : BelongsToTable(e.args[i], table)
    [] e.kind \in {"between", "like", "isnull", "in"} ->
         BelongsToTable(e.args[1], table)
    [] OTHER -> TRUE

ColumnType(def, col) ==
  def.columns[CHOOSE i \in DOMAIN def.columns : def.columns[i].name = col].type

\* FindIndex: the first index on exactly this column, 0 if there is none.
FindIndex(def, col) ==
  LET on == {i \in DOMAIN def.indexes : def.indexes[i].columns = <<col>>}
  IN  IF on = {} THEN 0 ELSE Min(on)

\* TryPoint, TryBetween, TryGreater, TryLess: a column against literals, the
\* column on the left.
ComparesLiteral(e) ==
  /\ \/ e.kind = "binary" /\ e.op \in {"=", "<", "<=", ">", ">="}
     \/ e.kind = "between"
  /\ e.args[1].kind = "column"
  /\ \A i \in 2..Len(e.args) : e.args[i].kind = "literal"

IsIndexed(def, e) == ComparesLiteral(e) /\ FindIndex(def, e.args[1].column) # 0

\* TryIndex, for a condition that IsIndexed.  A literal too long for a key
\* throws.
TryIndex(def, e) ==
  LET col    == e.args[1].column
      Lit(i) == <<CoerceToColumnType(e.args[i].value, ColumnType(def, col))>>
      base   == [FullPlan EXCEPT !.index = FindIndex(def, col)]
      lo     == KeyOf(Lit(2))
  IN  CASE \E i \in 2..Len(e.args) : Overflows(Lit(i)) ->
             [base EXCEPT !.type = "throw"]
        [] e.kind = "between" -> [base EXCEPT !.type = "range", !.start = lo,
                                              !.end = KeyOf(Lit(3))]
        [] e.op = "="         -> [base EXCEPT !.type = "point", !.start = lo]
        [] e.op \in {">", ">="} -> [base EXCEPT !.type = "range", !.start = lo,
                                                !.startOpen = e.op = ">"]
        [] e.op \in {"<", "<="} -> [base EXCEPT !.type = "range", !.end = lo,
                                                !.endOpen = e.op = "<"]

Conditions(table, where) ==
  LET Mine(e) == BelongsToTable(e, table)
  IN  IF where = NoExpr THEN << >> ELSE SelectSeq(FlatAnd(where), Mine)

\* Mutant of Decide: the first condition is taken for the chosen one.
DecideFirst(table, def, where) ==
  LET exprs  == Conditions(table, where)
      usable == {i \in DOMAIN exprs : IsIndexed(def, exprs[i])}
  IN  IF usable = {} THEN [FullPlan EXCEPT !.filter = exprs]
      ELSE [TryIndex(def, exprs[Min(usable)]) EXCEPT !.filter = Tail(exprs)]

\* The first condition that an index answers; the others are the filter.
Decide(table, def, where) ==
  LET exprs  == Conditions(table, where)
      usable == {i \in DOMAIN exprs : IsIndexed(def, exprs[i])}
      chosen == Min(usable)
  IN  IF usable = {} THEN [FullPlan EXCEPT !.filter = exprs]
      ELSE [TryIndex(def, exprs[chosen]) EXCEPT !.filter = RemoveAt(exprs, chosen)]

-----------------------------------------------------------------------------
\* The first verdict that is not "true", if there is one.
AllTrue(verdicts) ==
  LET stops == {i \in DOMAIN verdicts : verdicts[i] # "true"}
  IN  IF stops = {} THEN "true" ELSE verdicts[Min(stops)]

\* PassesFilter stops at the first condition that does not hold.
PassesFilter(row, filter) ==
  AllTrue([i \in DOMAIN filter |-> EvaluateBool(filter[i], row)])

\* FullScan of a heap, a sequence of slots: the row ids not marked deleted.
FullScan(heap) ==
  LET IsLive(rid) == heap[rid].live
  IN  SelectSeq([rid \in 1..Len(heap) |-> rid], IsLive)

\* The row ids GetScannedRows looks at: an index answers in the order of its
\* keys, which is then sorted by place; neither the condition the index stands
\* for nor the delete flag is looked at again.
Candidates(heap, trees, plan) ==
  CASE plan.type = "full"  -> FullScan(heap)
    [] plan.type = "point" ->
         SortSeq(PointQuery(trees[plan.index], plan.start), <)
    [] plan.type = "range" ->
         SortSeq(RangeQuery(trees[plan.index], plan.start, plan.end,
                            plan.startOpen, plan.endOpen), <)

Passing(rids, verdicts) ==
  LET Passes(i) == verdicts[i] = "true"
      kept == SelectSeq([i \in DOMAIN rids |-> i], Passes)
  IN  IF \E i \in DOMAIN rids : verdicts[i] = "throw" THEN [thrown |-> TRUE, rids |-> << >>]
      ELSE [thrown |-> FALSE, rids |-> [k \in DOMAIN kept |-> rids[kept[k]]]]

\* GetScannedRows: the row ids found, or that evaluating a condition threw.
GetScannedRows(heap, trees, plan) ==
  LET Filtered(rids) == Passing(rids, [i \in DOMAIN rids |->
                                         PassesFilter(heap[rids[i]].row, plan.filter)])
  IN  IF plan.type = "throw" THEN [thrown |-> TRUE, rids |-> << >>]
      ELSE Filtered(Candidates(heap, trees, plan))
=============================================================================
