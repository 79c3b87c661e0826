------------------------------ MODULE MCDatabase -----------------------------
(***************************************************************************)
(* Database on small tables: a chain g -> c -> p of foreign keys, the last *)
(* of them with an AUTO key, and a table s that stands alone.  Ints of one *)
(* byte and keys of three keep the comparisons small.                      *)
(***************************************************************************)
EXTENDS DatabaseProperties

Int1(n) == Column(n, "int", TRUE, FALSE, NoDefault)
Key1(n) == Column(n, "int", FALSE, TRUE, NoDefault)
Str1(n) == Column(n, "str", TRUE, FALSE, NoDefault)

Table(name, columns, auto, fks) ==
  CreateTableStatement(name, columns, <<"id">>, auto, fks)

TableP == Table("p", <<Key1("id"), [Str1("nm") EXCEPT !.default = StrVal(<<"a">>)]>>,
                TRUE, << >>)
TableC(onDelete) == Table("c", <<Key1("id"), Int1("up"), Int1("n")>>, FALSE,
                          <<ForeignKey("up", "p", "id", onDelete)>>)
TableG(onDelete) == Table("g", <<Key1("id"), Int1("up")>>, FALSE,
                          <<ForeignKey("up", "c", "id", onDelete)>>)
TableS == Table("s", <<Key1("id"), [Int1("n") EXCEPT !.unique = TRUE]>>, FALSE, << >>)

I(n) == IntVal(n)
P(id, nm) == ("id" :> id @@ "nm" :> nm)
C(id, up, n) == ("id" :> id @@ "up" :> up @@ "n" :> n)
G(id, up) == ("id" :> id @@ "up" :> up)
A == StrVal(<<"a">>)
B == StrVal(<<"b">>)

Create(d, stmt)        == ExecuteCreateTable(d, stmt).db
Fill(d, table, rows)   == ExecuteInsert(d, table, rows).db
IndexOn(d, table, name, col, unique) ==
  ExecuteCreateIndex(d, table, name, <<col>>, unique).db

Chain(cAction, gAction) ==
  Create(Create(Create(EmptyDatabase, TableP), TableC(cAction)), TableG(gAction))

Gone(d, table, rid)    == DeleteRows(d, table, <<rid>>).db

ChainFilled(cAction, gAction) ==
  Fill(Fill(Fill(Chain(cAction, gAction), "p", <<P(I(1), A), P(I(2), B)>>),
            "c", <<C(I(1), I(1), I(5)), C(I(-2), I(2), I(7)), C(I(3), Null, I(5))>>),
       "g", <<G(I(1), I(1)), G(I(2), I(-2))>>)

\* A cascade over two tables with an index on each foreign key; one that ends
\* at a RESTRICT, with rows deleted in two tables; tables without rows;
\* nothing at all.
MCFiles ==
  LET both == ChainFilled("CASCADE", "CASCADE")
      some == Gone(Gone(ChainFilled("CASCADE", "RESTRICT"), "g", 2), "c", 2)
  IN  <<IndexOn(IndexOn(both, "c", "c_up", "up", FALSE), "g", "g_up", "up", FALSE),
        IndexOn(Create(some, TableS), "p", "p_nm", "nm", TRUE),
        Chain("RESTRICT", "RESTRICT"),
        EmptyDatabase>>

-----------------------------------------------------------------------------
Col(c) == ColumnRef(c)
Lit(n) == Literal(IntVal(n))
Cmp(c, op, n) == BinaryExpr(Col(c), op, Lit(n))
And(e, f) == BinaryExpr(e, "and", f)
Or(e, f)  == BinaryExpr(e, "or", f)
DivByZero == BinaryExpr(BinaryExpr(Lit(1), "/", Lit(0)), "=", Lit(1))

MCInserts == <<
  InsertStatement("p", <<"nm" :> B>>),
  InsertStatement("p", <<P(I(4), Null), "id" :> I(1)>>),
  InsertStatement("c", <<C(I(4), I(2), StrVal(<<"1", "2">>))>>),
  InsertStatement("c", <<C(I(5), I(9), I(1))>>),
  InsertStatement("g", <<G(I(3), I(3))>>),
  InsertStatement("s", <<"id" :> I(1) @@ "n" :> I(1)>>),
  InsertStatement("c", <<"up" :> I(1)>>)>>

MCUpdates == <<
  UpdateStatement("p", "id" :> Lit(7), Cmp("id", "=", 2)),
  UpdateStatement("p", "nm" :> Literal(Null), NoExpr),
  UpdateStatement("p", "nm" :> Literal(StrVal(<<"a", "b", "a", "b">>)), Cmp("id", "=", 2)),
  UpdateStatement("c", "up" :> Lit(1), Cmp("n", ">", 5)),
  UpdateStatement("c", "up" :> Lit(9), Cmp("id", "=", 1)),
  UpdateStatement("c", "n" :> BinaryExpr(Col("n"), "+", Lit(1)), NoExpr),
  UpdateStatement("c", "id" :> BinaryExpr(Col("id"), "+", Lit(2)), NoExpr),
  UpdateStatement("g", "up" :> Literal(Null), Cmp("up", "=", 1)),
  UpdateStatement("c", "n" :> BinaryExpr(Lit(0), "/", BinaryExpr(Col("id"), "-", Lit(3))),
                  NoExpr),
  UpdateStatement("c", "n" :> Lit(0), DivByZero),
  UpdateStatement("g", "id" :> Lit(1), Cmp("id", ">", 1))>>

MCDeletes == <<
  DeleteStatement("p", Cmp("id", "=", 1)), DeleteStatement("p", NoExpr),
  DeleteStatement("c", Cmp("n", "=", 5)),
  DeleteStatement("c", IsNullExpr(Col("up"), TRUE)), DeleteStatement("g", Cmp("id", ">", 1)),
  DeleteStatement("p", DivByZero)>>

MCNewTables == <<TableP, TableC("CASCADE"), TableS>>

MCNewIndexes == <<CreateIndexStatement("c_n", "c", <<"n">>, TRUE),
                  CreateIndexStatement("g_up", "g", <<"up">>, FALSE)>>

MCDrops == <<DropStatement("drop", "s"), DropStatement("truncate", "g"), DropStatement("truncate", "p"),
             DropStatement("drop", "c")>>

-----------------------------------------------------------------------------
Q(table, columns)  == SelectFrom(table, "", columns)
Sel(e)             == SelectColumn(e, "")
As(e, alias)       == SelectColumn(e, alias)
Filtered(q, e)     == [q EXCEPT !.where = e]
Sorted(q, c, desc) == [q EXCEPT !.orderBy = <<OrderBy(c, desc)>>]
JoinOn(q, table, alias, type, l, r) ==
  [q EXCEPT !.joins = Append(@, JoinClause(table, alias, type, BinaryExpr(l, "=", r)))]
Over(fn, args, by, col, alias) ==
  WindowColumn(FunctionExpr(fn, args), alias, by,
               IF col = "" THEN << >> ELSE <<OrderBy(col, FALSE)>>)
Fn(name, e) == FunctionExpr(name, <<e>>)
Count == FunctionExpr("count", <<Star>>)

All(table) == Q(table, <<StarColumn>>)

PC(type) == JoinOn([All("c") EXCEPT !.alias = "x"], "p", "y", type,
                   Qualified("x", "up"), Qualified("y", "id"))

MCQueries == <<
  \* plans
  Filtered(All("c"), Cmp("id", "=", 1)),
  Filtered(All("c"), And(Cmp("n", "=", 7), Cmp("id", ">", -3))),
  Filtered(All("c"), And(Cmp("id", ">=", -2), And(Cmp("id", "<", 3), Cmp("n", "!=", 7)))),
  Filtered(All("c"), BetweenExpr(Col("id"), Lit(-2), Lit(1))),
  Filtered(All("c"), Or(Cmp("up", "=", 1), UnaryExpr("not", Cmp("id", "<", 3)))),
  Filtered(All("c"), And(InExpr(Col("up"), <<Lit(1), Lit(2)>>), Cmp("up", ">", 1))),
  Filtered(All("p"), And(LikeExpr(Col("nm"), Literal(StrVal(<<"?">>))),
                      BinaryExpr(Fn("upper", Col("nm")), "=", Literal(StrVal(<<"A">>))))),
  Filtered(All("g"), DivByZero),
  Filtered(All("nil"), DivByZero),
  \* joins
  PC("inner"), PC("left"), PC("right"),
  JoinOn([All("c") EXCEPT !.alias = "x"], "c", "z", "inner",
         Qualified("x", "up"), Qualified("z", "up")),
  Filtered(PC("inner"), And(BinaryExpr(Qualified("y", "nm"), "=", Literal(A)),
                             Cmp("n", "=", 5))),
  Filtered(PC("left"), BinaryExpr(Qualified("x", "n"), ">", Lit(5))),
  JoinOn(JoinOn(Q("g", <<Sel(Qualified("g", "id")), Sel(Qualified("p", "nm")), Sel(Col("n"))>>),
                "c", "", "inner", Qualified("g", "up"), Qualified("c", "id")),
         "p", "", "inner", Qualified("c", "up"), Qualified("p", "id")),
  [PC("inner") EXCEPT !.joins[1].on = DivByZero],
  \* groups
  [Q("c", <<Sel(Col("n")), As(Count, "k"), As(Fn("sum", Col("id")), "t"),
            As(Fn("min", Col("id")), "lo"), As(Fn("max", Col("up")), "hi"),
            As(Fn("avg", Col("up")), "av")>>) EXCEPT !.groupBy = <<"n">>,
     !.having = Cmp("k", ">", 1)],
  [Sorted(Q("c", <<Sel(Col("up")), Sel(Fn("count", Col("up")))>>), "up", TRUE)
     EXCEPT !.groupBy = <<"up", "n">>],
  Q("c", <<Sel(Count), Sel(Fn("sum", Col("n")))>>),
  Q("c", <<Sel(Count), Sel(Col("n"))>>),
  \* windows
  Q("c", <<Sel(Col("id")), Sel(Col("n")), Over("row_number", << >>, <<"n">>, "id", "rn"),
           Over("rank", << >>, << >>, "n", "rk"), Over("dense_rank", << >>, << >>, "n", "dr")>>),
  Q("c", <<Sel(Col("n")), Over("sum", <<Col("n")>>, << >>, "", ""),
           Over("max", <<Col("n")>>, << >>, "n", "top")>>),
  Q("c", <<Sel(Col("n")), Over("count", <<Star>>, <<"n">>, "", "")>>),
  \* order, pages, distinct
  [Sorted(Q("c", <<Sel(Col("n")), Sel(Col("id"))>>), "n", TRUE)
     EXCEPT !.offset = 1, !.limit = 2],
  [Sorted(All("c"), "n", FALSE) EXCEPT !.limit = 0],
  [Q("c", <<Sel(Col("n"))>>) EXCEPT !.distinct = TRUE],
  [Sorted(Q("c", <<As(BinaryExpr(Col("n"), "*", Lit(2)), "dbl"),
                   As(BinaryExpr(Col("n"), "/", Lit(2)), "half")>>), "dbl", FALSE)
     EXCEPT !.distinct = TRUE, !.offset = 5],
  Q("p", <<Sel(FunctionExpr("coalesce", <<Col("nm"), Literal(A)>>))>>),
  Q("c", <<Sel(BinaryExpr(Lit(1), "/", Col("n"))), Sel(BinaryExpr(Lit(1), "/", Lit(0)))>>)>>

-----------------------------------------------------------------------------
MCMeant ==
  MCInserts \o MCUpdates \o MCDeletes \o MCNewTables \o MCNewIndexes \o MCDrops
    \o <<Control("begin"), Control("commit"), Control("rollback")>> \o MCQueries

\* CREATE TABLE c { int id PK, int up FK p.id, int n }: no statement, for the
\* comma behind the foreign key is taken for its RESTRICT.
Swallowed ==
  Words(<<"create", "table", "c">>)
    \o Enclosed("{", Words(<<"int", "id", "pk">>) \o <<Mark(",")>>
         \o Words(<<"int", "up", "fk", "p">>) \o <<Mark("."), Word("id"), Mark(",")>>
         \o Words(<<"int", "n">>), "}")

MCTexts == Append([i \in DOMAIN MCMeant |-> Written(MCMeant[i])], Swallowed)
=============================================================================
