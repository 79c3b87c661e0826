----------------------------- MODULE StatementText ---------------------------
(***************************************************************************)
(* How a statement is written: the tokens a user types for it, with no     *)
(* more parentheses than the ranks of SQL's operators ask for.  It is what *)
(* the parser is held against, and knows nothing of how that works.        *)
(***************************************************************************)
EXTENDS Parser

Words(ws) == [i \in DOMAIN ws |-> Word(ws[i])]

LiteralToken(v) ==
  Token(v.type, IF IsNull(v) THEN "null" ELSE FoldLeft(LAMBDA s, c : s \o c, "",
                                                       DbObjectToString(v)), v)

OperatorToken(op) == IF op \in {"and", "or"} THEN Word(op) ELSE Mark(op)

\* Lists of tokens with commas between them.
Commas(lists) ==
  FlattenSeq([i \in DOMAIN lists |-> (IF i = 1 THEN << >> ELSE <<Mark(",")>>) \o lists[i]])

Enclosed(l, list, r) == <<Mark(l)>> \o list \o <<Mark(r)>>

Unless(absent, list) == IF absent THEN << >> ELSE list

\* How strongly an operator binds, from OR to what needs no parentheses.
Rank(e) ==
  CASE e.kind = "binary" /\ e.op = "or"          -> 1
    [] e.kind = "binary" /\ e.op = "and"         -> 2
    [] e.kind = "unary"                          -> 3
    [] e.kind = "binary" /\ e.op \in {"+", "-"}  -> 5
    [] e.kind = "binary" /\ e.op \in {"*", "/"}  -> 6
    [] e.kind \in {"literal", "column", "function"} -> 7
    [] OTHER -> 4

\* An expression where one of at least this rank can stand.
RECURSIVE Expr(_, _)
Expr(e, least) ==
  LET Arg(i) == Expr(e.args[i], 5)
      list   == [i \in DOMAIN Operands(e) |-> Expr(e.args[i], 1)]
      left   == IF Rank(e) = 4 THEN 5 ELSE Rank(e)
      text   ==
        CASE e.kind = "literal"  -> <<LiteralToken(e.value)>>
          [] e = Star            -> <<Mark("*")>>
          [] e.kind = "column" /\ e # Star ->
               Unless(e.table = "", <<Word(e.table), Mark(".")>>) \o <<Word(e.column)>>
          [] e.kind = "binary"   -> Expr(e.args[1], left) \o <<OperatorToken(e.op)>>
                                      \o Expr(e.args[2], IF left = 5 /\ Rank(e) = 4 THEN 5
                                                         ELSE Rank(e) + 1)
          [] e.kind = "unary"    -> <<Word("not")>> \o Expr(e.args[1], 4)
          [] e.kind = "isnull"   -> Arg(1) \o Words(IF e.op = "not" THEN <<"is", "not", "null">>
                                                    ELSE <<"is", "null">>)
          [] e.kind = "between"  -> Arg(1) \o <<Word("between")>> \o Arg(2)
                                      \o <<Word("and")>> \o Arg(3)
          [] e.kind = "in"       -> Arg(1) \o <<Word("in")>>
                                      \o Enclosed("(", Commas(Tail(list)), ")")
          [] e.kind = "like"     -> Arg(1) \o <<Word("like")>> \o Arg(2)
          [] e.kind = "function" -> <<Word(e.op)>> \o Enclosed("(", Commas(list), ")")
  IN  IF Rank(e) < least THEN Enclosed("(", text, ")") ELSE text

Condition(word, e) == Unless(e = NoExpr, <<Word(word)>> \o Expr(e, 1))

Ordered(order) ==
  Unless(order = << >>, Words(<<"order", "by">>) \o Commas(
    [i \in DOMAIN order |-> Words(IF order[i].desc THEN <<order[i].column, "desc">>
                                                   ELSE <<order[i].column>>)]))

Listed(names) == Commas([i \in DOMAIN names |-> <<Word(names[i])>>])

ColumnText(sc) ==
  LET over == Unless(sc.partitionBy = << >>,
                     Words(<<"partition", "by">>) \o Listed(sc.partitionBy))
                \o Ordered(sc.order)
  IN  IF sc.star THEN <<Mark("*")>>
      ELSE Expr(sc.expr, 1)
             \o Unless(~sc.window, <<Word("over")>> \o Enclosed("(", over, ")"))
             \o Unless(sc.alias = "", Words(<<"as", sc.alias>>))

TableText(table, alias) == <<Word(table)>> \o Unless(alias = "", <<Word(alias)>>)

SelectText(q) ==
  <<Word("select")>> \o Unless(~q.distinct, <<Word("distinct")>>)
    \o Commas([i \in DOMAIN q.columns |-> ColumnText(q.columns[i])])
    \o <<Word("from")>> \o TableText(q.table, q.alias)
    \o FlattenSeq([i \in DOMAIN q.joins |->
         Words(<<q.joins[i].type, "join">>) \o TableText(q.joins[i].table, q.joins[i].alias)
           \o Condition("on", q.joins[i].on)])
    \o Condition("where", q.where)
    \o Unless(q.groupBy = << >>, Words(<<"group", "by">>) \o Listed(q.groupBy))
    \o Condition("having", q.having)
    \o Ordered(q.orderBy)
    \o Unless(q.limit = -1, <<Word("limit"), LiteralToken(IntVal(q.limit))>>)
    \o Unless(q.offset = -1, <<Word("offset"), LiteralToken(IntVal(q.offset))>>)

\* { name <sep> value, ... }
MappingText(map, sep, Val(_)) ==
  LET names == SetToSeq(DOMAIN map)
  IN  Enclosed("{", Commas([i \in DOMAIN names |->
        <<Word(names[i]), Mark(sep)>> \o Val(map[names[i]])]), "}")

RowsText(rows) ==
  LET Row(i) == MappingText(rows[i], ":", LAMBDA v : <<LiteralToken(v)>>)
  IN  IF Len(rows) = 1 THEN Row(1)
      ELSE Enclosed("[", Commas([i \in DOMAIN rows |-> Row(i)]), "]")

DefinitionText(stmt) ==
  LET Fks(c)   == SelectSeq(stmt.foreignKeys, LAMBDA fk : fk.column = c)
      Key(c)   == c.name \in ToSet(stmt.primaryKey)
      Col(c)   == Words(<<c.type, c.name>>)
        \o Unless(~Key(c), <<Word("pk")>>)
        \o Unless(~Key(c) \/ ~stmt.autoIncrement, <<Word("auto")>>)
        \o Unless(Key(c) \/ c.nullable, Words(<<"not", "null">>))
        \o Unless(Key(c) \/ ~c.unique, <<Word("unique")>>)
        \o Unless(c.default = NoDefault, <<Word("default"), LiteralToken(c.default)>>)
        \o FlattenSeq([i \in DOMAIN Fks(c.name) |->
             LET fk == Fks(c.name)[i]
             IN  <<Word("fk"), Word(fk.refTable), Mark("."), Word(fk.refColumn),
                   Word(IF fk.onDelete = "CASCADE" THEN "cascade" ELSE "restrict")>>])
  IN  Enclosed("{", Commas([i \in DOMAIN stmt.columns |-> Col(stmt.columns[i])]), "}")

\* The text of a statement.
Written(stmt) ==
  CASE stmt.kind = "select" -> SelectText(stmt)
    [] stmt.kind = "insert" -> Words(<<"insert", "into", stmt.table>>) \o RowsText(stmt.rows)
    [] stmt.kind = "update" ->
         Words(<<"update", stmt.table, "set">>)
           \o MappingText(stmt.set, "=", LAMBDA e : Expr(e, 1)) \o Condition("where", stmt.where)
    [] stmt.kind = "delete" ->
         Words(<<"delete", "from", stmt.table>>) \o Condition("where", stmt.where)
    [] stmt.kind = "create" ->
         Words(<<"create", "table", stmt.name>>) \o DefinitionText(stmt)
    [] stmt.kind = "index" ->
         Words(IF stmt.unique THEN <<"create", "unique", "index">> ELSE <<"create", "index">>)
           \o Words(<<stmt.name, "on", stmt.table>>)
           \o Enclosed("(", Listed(stmt.columns), ")")
    [] stmt.kind = "drop"   -> Words(<<"drop", "table", stmt.table>>)
    [] stmt.kind = "truncate" -> Words(<<"truncate", stmt.table>>)
    [] OTHER -> <<Word(stmt.kind)>>
=============================================================================
