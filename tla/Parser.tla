-------------------------------- MODULE Parser -------------------------------
(***************************************************************************)
(* Class Parser: a sequence of tokens to a statement, by recursive         *)
(* descent.  t is the sequence and p a position in it, 0 once an exception *)
(* has been thrown: no token is there, and nothing matches any more.       *)
(* What reads something returns [val, pos], the position behind it.        *)
(* Names are in lower case, as the parser leaves them.                     *)
(***************************************************************************)
EXTENDS Select

InsertStatement(table, rows)       == [kind |-> "insert", table |-> table, rows |-> rows]
UpdateStatement(table, set, where) == [kind |-> "update", table |-> table, set |-> set,
                                       where |-> where]
DeleteStatement(table, where)      == [kind |-> "delete", table |-> table, where |-> where]
DropStatement(kind, table)         == [kind |-> kind, table |-> table]
Control(kind)                      == [kind |-> kind]

CreateTableStatement(name, columns, primaryKey, auto, fks) ==
  [kind |-> "create", name |-> name, columns |-> columns, primaryKey |-> primaryKey,
   autoIncrement |-> auto, foreignKeys |-> fks]

CreateIndexStatement(name, table, columns, unique) ==
  [kind |-> "index", name |-> name, table |-> table, columns |-> columns,
   unique |-> unique]

\* What a text becomes that throws, and SHOW, which only lists names.
NotAStatement == Control("none")

-----------------------------------------------------------------------------
(* Tokens.  Marks and operators have their text for a type; "*" is always  *)
(* a Star to the tokenizer.                                                *)

Token(type, text, value) == [type |-> type, text |-> text, value |-> value]

Keywords ==
  {"select", "from", "where", "insert", "into", "update", "show", "schema", "tables",
   "indexes", "triggers", "truncate", "delete", "create", "table", "drop", "alter", "pk",
   "fk", "default", "offset", "on", "index", "auto", "not", "and", "or", "cascade",
   "restrict", "join", "left", "right", "inner", "order", "by", "asc", "desc", "group",
   "having", "limit", "in", "between", "like", "distinct", "over", "partition",
   "row_number", "sum", "count", "avg", "min", "max", "begin", "commit", "rollback",
   "int", "float", "str"}

\* ReadIdentifierOrKeyword.
Word(w) ==
  CASE w = "null"              -> Token("null", w, Null)
    [] w \in {"true", "false"} -> Token("bool", w, BoolVal(w = "true"))
    [] w \in Keywords          -> Token("keyword", w, Null)
    [] OTHER                   -> Token("id", w, Null)

Mark(c) == Token(c, c, Null)

EndOfText == Token("eof", "", Null)

IsName(token)    == token.type \in {"id", "keyword"}
IsLiteral(token) == token.type \in ValueTypes

\* Current(), and whether Match would accept it: by its text, whatever its type.
Current(t, p)    == IF p \in DOMAIN t THEN t[p] ELSE EndOfText
Is(t, p, w) == Current(t, p).type # "eof" /\ Current(t, p).text = w

Skip(t, p, w)   == IF Is(t, p, w) THEN p + 1 ELSE p
Expect(t, p, w) == IF Is(t, p, w) THEN p + 1 ELSE 0

Got(val, pos) == [val |-> val, pos |-> pos]
Thrown        == Got(NoExpr, 0)

\* r with Make applied to what was read, and r with a token w behind it.
Made(r, Make(_))  == IF r.pos = 0 THEN Thrown ELSE Got(Make(r.val), r.pos)
Closing(t, r, w)  == Got(r.val, Expect(t, r.pos, w))

\* do { item } while (Match(",")), and the same or nothing before a ")".
CommaList(t, Item(_), p) ==
  LET RECURSIVE More(_)
      More(r) == IF ~Is(t, r.pos, ",") THEN r
                 ELSE More(Made(Item(r.pos + 1), LAMBDA x : Append(r.val, x)))
  IN  More(Made(Item(p), LAMBDA x : <<x>>))

ListInParens(t, Item(_), p) ==
  Closing(t, IF Is(t, p, ")") THEN Got(<< >>, p) ELSE CommaList(t, Item, p), ")")

ExpectName(t, p) == IF IsName(Current(t, p)) THEN Got(Current(t, p).text, p + 1) ELSE Thrown

NameList(t, p) == LET Name(q) == ExpectName(t, q) IN CommaList(t, Name, p)

ParseLiteralValue(t, p) ==
  IF IsLiteral(Current(t, p)) THEN Got(Current(t, p).value, p + 1) ELSE Thrown

-----------------------------------------------------------------------------
(* Expressions, from the operators that bind least to those that bind most. *)

RECURSIVE ParseOr(_, _)

ParseFunction(t, p) ==
  LET Argument(q) == IF Current(t, q).type = "*" THEN Got(Star, q + 1) ELSE ParseOr(t, q)
  IN  Made(ListInParens(t, Argument, p + 2),
           LAMBDA args : FunctionExpr(Current(t, p).text, args))

ParseTerm(t, p) ==
  LET token == Current(t, p)
      next  == Current(t, p + 1).type
  IN  CASE IsName(token) /\ next = "(" -> ParseFunction(t, p)
        [] IsName(token) /\ next = "." ->
             IF Current(t, p + 2).type # "id" THEN Thrown
             ELSE Got(Qualified(token.text, Current(t, p + 2).text), p + 3)
        [] IsName(token) /\ next \notin {"(", "."} -> Got(ColumnRef(token.text), p + 1)
        [] IsLiteral(token)  -> Got(Literal(token.value), p + 1)
        [] token.type = "("  -> Closing(t, ParseOr(t, p + 1), ")")
        [] OTHER -> Thrown

\* Operators of one rank, from left to right.
LeftChain(t, Operand(_), ops, p) ==
  LET RECURSIVE Extend(_)
      Extend(left) ==
        IF ~\E op \in ops : Is(t, left.pos, op) THEN left
        ELSE Extend(Made(Operand(left.pos + 1),
                         LAMBDA x : BinaryExpr(left.val, Current(t, left.pos).text, x)))
  IN  Extend(Operand(p))

ParseMulDiv(t, p) ==
  LET Term(q) == ParseTerm(t, q) IN LeftChain(t, Term, {"*", "/"}, p)

ParseAddSub(t, p) ==
  LET Factor(q) == ParseMulDiv(t, q) IN LeftChain(t, Factor, {"+", "-"}, p)

ParseBetween(t, e, lower) ==
  Made(ParseAddSub(t, Expect(t, lower.pos, "and")), LAMBDA x : BetweenExpr(e, lower.val, x))

\* What can follow the left side of a comparison.
ParseCompared(t, left) ==
  LET e == left.val
      q == left.pos
      notNull  == Skip(t, q + 1, "not")
      Inner(i) == ParseOr(t, i)
  IN  CASE Is(t, q, "is")      -> Got(IsNullExpr(e, notNull # q + 1),
                                      Expect(t, notNull, "null"))
        [] Is(t, q, "between") -> ParseBetween(t, e, ParseAddSub(t, q + 1))
        [] Is(t, q, "in")      -> Made(ListInParens(t, Inner, Expect(t, q + 1, "(")),
                                       LAMBDA x : InExpr(e, x))
        [] Is(t, q, "like")    -> Made(ParseAddSub(t, q + 1), LAMBDA x : LikeExpr(e, x))
        [] \E op \in {"!=", ">=", "<=", "=", ">", "<"} : Is(t, q, op) ->
             Made(ParseAddSub(t, q + 1), LAMBDA x : BinaryExpr(e, Current(t, q).text, x))
        [] OTHER -> left

ParseComparison(t, p) == ParseCompared(t, ParseAddSub(t, p))

\* Mutant of ParseNot: NOT takes all that follows.
ParseNotAll(t, p) ==
  IF Is(t, p, "not") THEN Made(ParseOr(t, p + 1), LAMBDA x : UnaryExpr("not", x))
                     ELSE ParseComparison(t, p)

\* One NOT at most, before a comparison.
ParseNot(t, p) ==
  IF Is(t, p, "not") THEN Made(ParseComparison(t, p + 1), LAMBDA x : UnaryExpr("not", x))
                     ELSE ParseComparison(t, p)

ParseAnd(t, p) ==
  LET Operand(q) == ParseNot(t, q) IN LeftChain(t, Operand, {"and"}, p)

ParseOr(t, p) ==
  LET Operand(q) == ParseAnd(t, q) IN LeftChain(t, Operand, {"or"}, p)

-----------------------------------------------------------------------------
(* Clauses: if (Match(word)) field = ...                                   *)

\* GROUP BY and ORDER BY name a column, with or without a table.
ColumnName(t, p) ==
  LET name == Current(t, p)
  IN  IF name.type # "id" THEN Thrown
      ELSE IF Current(t, p + 1).type # "." THEN Got(name.text, p + 1)
      ELSE IF Current(t, p + 2).type # "id" THEN Thrown
      ELSE Got(name.text \o "." \o Current(t, p + 2).text, p + 3)

ParseGroupBy(t, p) == LET Col(q) == ColumnName(t, q) IN CommaList(t, Col, p)

ParseOrderBy(t, p) ==
  LET Sorted(r) == Got(OrderBy(r.val, Is(t, r.pos, "desc")), Skip(t, r.pos, "desc"))
      Item(q)   == Sorted(ColumnName(t, q))
  IN  CommaList(t, Item, p)

ParseNumber(t, p) ==
  IF Current(t, p).type = "int" THEN Got(Current(t, p).value.num, p + 1) ELSE Thrown

\* What stands behind the word of a clause.
ParseClauseBody(t, p, word) ==
  CASE word \in {"where", "having"}  -> ParseOr(t, p)
    [] word = "group"                -> ParseGroupBy(t, Expect(t, p, "by"))
    [] word = "order"                -> ParseOrderBy(t, Expect(t, p, "by"))
    [] word = "partition"            -> NameList(t, Expect(t, p, "by"))
    [] word \in {"limit", "offset"}  -> ParseNumber(t, p)
    [] word = "as"                   -> ExpectName(t, p)

ParseClause(t, r, word, field) ==
  IF ~Is(t, r.pos, word) THEN r
  ELSE Made(ParseClauseBody(t, r.pos + 1, word), LAMBDA x : [r.val EXCEPT ![field] = x])

\* Clauses in the one order in which they are looked for: a word and a field each.
ParseClauses(t, r, clauses) ==
  FoldLeft(LAMBDA s, c : ParseClause(t, s, c[1], c[2]), r, clauses)

-----------------------------------------------------------------------------
(* SELECT.                                                                 *)

\* OVER ( PARTITION BY ... ORDER BY ... ), behind a function.
ParseOver(t, r) ==
  IF ~(Is(t, r.pos, "over") /\ r.val.expr.kind = "function") THEN r
  ELSE Closing(t, ParseClauses(t, Got([r.val EXCEPT !.window = TRUE],
                                      Expect(t, r.pos + 1, "(")),
                               <<<<"partition", "partitionBy">>, <<"order", "order">>>>), ")")

ParseSelectColumn(t, p) ==
  IF Current(t, p).type = "*" THEN Got(StarColumn, p + 1)
  ELSE ParseClause(t, ParseOver(t, Made(ParseOr(t, p), LAMBDA e : SelectColumn(e, ""))),
                   "as", "alias")

\* A table and the identifier behind it, if there is one, as its alias.
TableName(t, p) ==
  LET table == ExpectName(t, p)
      alias == Current(t, table.pos)
  IN  IF alias.type = "id" THEN Got(<<table.val, alias.text>>, table.pos + 1)
      ELSE Got(<<table.val, "">>, table.pos)

IsJoinStart(t, p) == \E w \in {"join", "inner", "left", "right"} : Is(t, p, w)

ParseJoin(t, p) ==
  LET typed == ~Is(t, p, "join")
      table == TableName(t, Expect(t, IF typed THEN p + 1 ELSE p, "join"))
  IN  Made(ParseOr(t, Expect(t, table.pos, "on")),
           LAMBDA on : JoinClause(table.val[1], table.val[2],
                                  IF typed THEN Current(t, p).text ELSE "inner", on))

RECURSIVE ParseJoins(_, _)
ParseJoins(t, r) ==
  IF ~IsJoinStart(t, r.pos) THEN r
  ELSE ParseJoins(t, Made(ParseJoin(t, r.pos),
                          LAMBDA j : [r.val EXCEPT !.joins = Append(@, j)]))

ParseFrom(t, p, columns, distinct) ==
  Made(TableName(t, p),
       LAMBDA n : [SelectFrom(n[1], n[2], columns) EXCEPT !.distinct = distinct])

ParseSelect(t, p) ==
  LET Col(q)  == ParseSelectColumn(t, q)
      columns == CommaList(t, Col, Skip(t, p, "distinct"))
      head    == ParseFrom(t, Expect(t, columns.pos, "from"), columns.val, Is(t, p, "distinct"))
  IN  ParseClauses(t, ParseJoins(t, head),
        <<<<"where", "where">>, <<"group", "groupBy">>, <<"having", "having">>,
          <<"order", "orderBy">>, <<"limit", "limit">>, <<"offset", "offset">>>>)

-----------------------------------------------------------------------------
(* INSERT, UPDATE, DELETE.                                                 *)

\* Pairs of names and values as a map; the last one of a name counts.
AsMap(pairs) ==
  [c \in {pairs[i][1] : i \in DOMAIN pairs} |->
     pairs[Max({i \in DOMAIN pairs : pairs[i][1] = c})][2]]

\* { name <sep> value, ... }
ParseMap(t, p, sep, Val(_)) ==
  LET Pair(q) == LET name == ExpectName(t, q)
                 IN  Made(Val(Expect(t, name.pos, sep)), LAMBDA x : <<name.val, x>>)
  IN  Made(Closing(t, CommaList(t, Pair, Expect(t, p, "{")), "}"), AsMap)

ParseRow(t, p) ==
  LET Val(q) == ParseLiteralValue(t, q) IN ParseMap(t, p, ":", Val)

\* One row, rows in brackets, or none.
ParseInsertRows(t, p) ==
  LET Row(q) == ParseRow(t, q)
  IN  CASE Current(t, p).type = "{" -> Made(ParseRow(t, p), LAMBDA x : <<x>>)
        [] Current(t, p).type = "[" -> Closing(t, CommaList(t, Row, p + 1), "]")
        [] OTHER -> Got(<< >>, p)

ParseInsert(t, p) ==
  LET table == ExpectName(t, Expect(t, p, "into"))
  IN  Made(ParseInsertRows(t, table.pos), LAMBDA rows : InsertStatement(table.val, rows))

ParseUpdate(t, p) ==
  LET table  == ExpectName(t, p)
      Val(q) == ParseOr(t, q)
      set    == ParseMap(t, Expect(t, table.pos, "set"), "=", Val)
  IN  ParseClause(t, Made(set, LAMBDA m : UpdateStatement(table.val, m, NoExpr)),
                  "where", "where")

ParseDelete(t, p) ==
  ParseClause(t, Made(ExpectName(t, Expect(t, p, "from")),
                      LAMBDA n : DeleteStatement(n, NoExpr)), "where", "where")

-----------------------------------------------------------------------------
(* CREATE, DROP, TRUNCATE.                                                 *)

\* FK table.column, and CASCADE: any other token in its place is skipped.
ParseReference(t, p, name) ==
  LET table  == ExpectName(t, p)
      column == ExpectName(t, Expect(t, table.pos, "."))
      action == IF Is(t, column.pos, "cascade") THEN "CASCADE" ELSE "RESTRICT"
  IN  IF column.pos = 0 THEN Thrown
      ELSE Got(ForeignKey(name, table.val, column.val, action), column.pos + 1)

\* One attribute; c is the column so far and what it adds to the statement.
ParseAttribute(t, c, p) ==
  CASE Is(t, p, "pk")      -> Got([c EXCEPT !.key = Append(@, c.column.name),
                                     !.column.nullable = FALSE, !.column.unique = TRUE],
                                  p + 1)
    [] Is(t, p, "auto")    -> Got([c EXCEPT !.auto = TRUE], p + 1)
    [] Is(t, p, "not")     -> Got([c EXCEPT !.column.nullable = FALSE],
                                  Expect(t, p + 1, "null"))
    [] Is(t, p, "default") -> Made(ParseLiteralValue(t, p + 1),
                                   LAMBDA v : [c EXCEPT !.column.default = v])
    [] Is(t, p, "unique")  -> Got([c EXCEPT !.column.unique = TRUE], p + 1)
    [] Is(t, p, "fk")      -> Made(ParseReference(t, p + 1, c.column.name),
                                   LAMBDA fk : [c EXCEPT !.fks = Append(@, fk)])

RECURSIVE ParseAttributes(_, _)
ParseAttributes(t, r) ==
  IF ~\E w \in {"pk", "auto", "not", "default", "unique", "fk"} : Is(t, r.pos, w) THEN r
  ELSE ParseAttributes(t, ParseAttribute(t, r.val, r.pos))

ParseColumn(t, p) ==
  LET type == ExpectName(t, p)
  IN  ParseAttributes(t, Made(ExpectName(t, type.pos), LAMBDA name :
        [column |-> Column(name, type.val, TRUE, FALSE, NoDefault),
         key |-> << >>, auto |-> FALSE, fks |-> << >>]))

\* The statement, from the table's name and its columns.
Defined(name, cols) ==
  LET Each(F(_)) == [i \in DOMAIN cols |-> F(cols[i])]
  IN  CreateTableStatement(name, Each(LAMBDA c : c.column),
                           FlattenSeq(Each(LAMBDA c : c.key)),
                           \E i \in DOMAIN cols : cols[i].auto,
                           FlattenSeq(Each(LAMBDA c : c.fks)))

ParseCreateTable(t, p) ==
  LET name   == ExpectName(t, p)
      Col(q) == ParseColumn(t, q)
  IN  Made(Closing(t, CommaList(t, Col, Expect(t, name.pos, "{")), "}"),
           LAMBDA cols : Defined(name.val, cols))

ParseCreateIndex(t, p, unique) ==
  LET name  == ExpectName(t, p)
      table == ExpectName(t, Expect(t, name.pos, "on"))
  IN  Made(Closing(t, NameList(t, Expect(t, table.pos, "(")), ")"),
           LAMBDA cols : CreateIndexStatement(name.val, table.val, cols, unique))

ParseCreate(t, p) ==
  LET index == Skip(t, p, "unique")
  IN  IF Is(t, p, "table") THEN ParseCreateTable(t, p + 1)
      ELSE IF Is(t, index, "index") THEN ParseCreateIndex(t, index + 1, index # p)
      ELSE Thrown

\* DROP INDEX is parsed, but no executor takes it.
ParseDrop(t, p) ==
  CASE Is(t, p, "table") -> Made(ExpectName(t, p + 1), LAMBDA n : DropStatement("drop", n))
    [] Is(t, p, "index") -> Made(ExpectName(t, p + 1), LAMBDA n : NotAStatement)
    [] OTHER -> Thrown

ParseTruncate(t, p) ==
  Made(ExpectName(t, Skip(t, p, "table")), LAMBDA n : DropStatement("truncate", n))

\* Parse: the first word decides; tokens behind a statement are ignored.
Parse(t) ==
  LET first == Current(t, 1).text
      r == CASE first = "select"   -> ParseSelect(t, 2)
             [] first = "insert"   -> ParseInsert(t, 2)
             [] first = "update"   -> ParseUpdate(t, 2)
             [] first = "delete"   -> ParseDelete(t, 2)
             [] first = "create"   -> ParseCreate(t, 2)
             [] first = "drop"     -> ParseDrop(t, 2)
             [] first = "truncate" -> ParseTruncate(t, 2)
             [] first \in {"begin", "commit", "rollback"} -> Got(Control(first), 2)
             [] OTHER -> Thrown
  IN  IF r.pos = 0 THEN NotAStatement ELSE r.val
=============================================================================
