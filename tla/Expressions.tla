----------------------------- MODULE Expressions -----------------------------
(***************************************************************************)
(* Expression trees, what the validator makes of them, and what the        *)
(* executor computes from them for a row.  A row is a function from        *)
(* column names to values; an expression that throws yields Throw, or      *)
(* "throw" where a truth value is wanted.                                  *)
(***************************************************************************)
EXTENDS Values, SequencesExt

\* Every node but a leaf is a kind, an operator or name, and its operands.
Literal(v)      == [kind |-> "literal", value |-> v]
ColumnRef(c)    == [kind |-> "column", column |-> c, table |-> "",
                    qualified |-> FALSE]
Qualified(t, c) == [kind |-> "column", column |-> c, table |-> t,
                    qualified |-> TRUE]
Node(kind, op, args) == [kind |-> kind, op |-> op, args |-> args]

BinaryExpr(l, op, r)      == Node("binary", op, <<l, r>>)
UnaryExpr(op, e)          == Node("unary", op, <<e>>)
FunctionExpr(name, args)  == Node("function", name, args)
IsNullExpr(e, not)        == Node("isnull", IF not THEN "not" ELSE "", <<e>>)
BetweenExpr(e, lo, hi)    == Node("between", "", <<e, lo, hi>>)
InExpr(e, values)         == Node("in", "", <<e>> \o values)
LikeExpr(e, pattern)      == Node("like", "", <<e, pattern>>)

Star == ColumnRef("*")

-----------------------------------------------------------------------------
(* QueryValidatorAndBinder::ValidateExpression.                            *)

Ambiguous == "__ambiguous__"

\* AddTable: the names under which the columns of one more table of a query
\* can be used, each with the table it means.
AddTable(available, table, alias, columns) ==
  LET bare == [c \in columns |-> IF c \in DOMAIN available THEN Ambiguous
                                                           ELSE table]
      full == [n \in {q \o "." \o c : q \in {table, alias} \ {""}, c \in columns}
                 |-> table]
      Merged(f, g) == [n \in DOMAIN f \cup DOMAIN g |->
                         IF n \in DOMAIN f THEN f[n] ELSE g[n]]
  IN  Merged(full, Merged(bare, available))

\* The operands the validator looks at: not the pattern of LIKE, nor the star
\* of COUNT(*).
IsValidated(e, i) ==
  CASE e.kind = "like"     -> i = 1
    [] e.kind = "function" -> e.args[i] # Star
    [] OTHER               -> TRUE

LookupName(e) == IF e.table = "" THEN e.column ELSE e.table \o "." \o e.column

RECURSIVE IsValid(_, _)
IsValid(e, available) ==
  CASE e.kind = "literal" -> TRUE
    [] e.kind = "column"  -> /\ LookupName(e) \in DOMAIN available
                             /\ available[LookupName(e)] # Ambiguous
    [] OTHER -> \A i \in DOMAIN e.args :
                  IsValidated(e, i) => IsValid(e.args[i], available)

\* What a valid expression becomes: a bare column gets the table it is in.
RECURSIVE Bind(_, _)
Bind(e, available) ==
  CASE e.kind = "literal" -> e
    [] e.kind = "column"  -> IF e.table # "" THEN e
                             ELSE [e EXCEPT !.table = available[e.column]]
    [] OTHER -> [e EXCEPT !.args = [i \in DOMAIN e.args |->
                   IF IsValidated(e, i) THEN Bind(e.args[i], available)
                                        ELSE e.args[i]]]

-----------------------------------------------------------------------------
(* Executor::GetValue and EvaluateBool.                                    *)

Cell(row, name) == IF name \in DOMAIN row THEN row[name] ELSE Null

\* The first of the names a column can have that the row knows.
ColumnValue(e, row) ==
  LET full  == e.table \o "." \o e.column
      names == (IF e.qualified THEN <<full>> ELSE << >>) \o <<e.column>>
                 \o (IF e.table # "" THEN <<full>> ELSE << >>)
      known == {i \in DOMAIN names : names[i] \in DOMAIN row}
  IN  IF known = {} THEN Null
      ELSE row[names[Min(known)]]

UpperOf == [c \in DOMAIN Code |-> CASE c = "a" -> "A" [] c = "b" -> "B"
                                    [] c = "l" -> "L" [] c = "u" -> "U" [] OTHER -> c]
LowerOf == [c \in DOMAIN Code |-> CASE c = "A" -> "a" [] c = "B" -> "b"
                                    [] c = "L" -> "l" [] c = "U" -> "u" [] OTHER -> c]

MapText(f, v) ==
  IF v.type = "str" THEN StrVal([i \in DOMAIN v.text |-> f[v.text[i]]])
  ELSE IF v = Throw THEN Throw ELSE Null

\* A scalar function of values; aggregates have no value on a single row.
CallFunction(name, args) ==
  CASE name = "coalesce" ->
         LET some == {i \in DOMAIN args : ~IsNull(args[i])}
         IN  IF some = {} THEN Null
             ELSE args[Min(some)]
    [] name = "nullif" /\ Len(args) = 2 ->
         IF Throw \in {args[1], args[2]} THEN Throw
         ELSE IF AreEqual(args[1], args[2]) THEN Null ELSE args[1]
    [] name = "round" /\ args # << >> ->
         LET decimals == IF Len(args) >= 2 /\ args[2].type = "int"
                         THEN args[2].num ELSE 0
         IN  IF Throw \in ToSet(SubSeq(args, 1, 2)) THEN Throw
             ELSE IF IsNumeric(args[1]) THEN RoundTo(Double(args[1]), decimals)
             ELSE Null
    [] name = "length" /\ args # << >> ->
         IF args[1].type = "str" THEN IntVal(Len(args[1].text))
         ELSE IF args[1] = Throw THEN Throw ELSE Null
    [] name = "upper" /\ args # << >> -> MapText(UpperOf, args[1])
    [] name = "lower" /\ args # << >> -> MapText(LowerOf, args[1])
    [] OTHER -> Null

ValueOf(e, row, args) ==
  CASE e.kind = "literal" -> e.value
    [] e.kind = "column"  -> ColumnValue(e, row)
    [] e.kind = "binary" /\ e.op \in {"+", "-", "*", "/"} ->
         IF Throw \in {args[1], args[2]} THEN Throw
         ELSE Calculate(args[1], e.op, args[2])
    [] e.kind = "function" -> CallFunction(e.op, args)
    [] OTHER -> Null

\* The operands of an expression; a leaf has none.
Operands(e) == IF e.kind \in {"literal", "column"} THEN << >> ELSE e.args

RECURSIVE GetValue(_, _)
GetValue(e, row) ==
  ValueOf(e, row, [i \in DOMAIN Operands(e) |-> GetValue(e.args[i], row)])

Truth(b) == IF b THEN "true" ELSE "false"

\* The first member of an IN list that equals the value decides.
FoundIn(v, list) ==
  LET stops == {i \in DOMAIN list : list[i] = Throw \/ AreEqual(v, list[i])}
  IN  IF v = Throw THEN "throw"
      ELSE IF stops = {} THEN "false"
      ELSE IF list[Min(stops)] = Throw THEN "throw" ELSE "true"

\* A condition over the values of its operands.
Tested(e, args) ==
  CASE e.kind = "in" -> FoundIn(args[1], Tail(args))
    [] e.kind \in {"binary", "isnull", "between", "like"} /\ Throw \in ToSet(args) -> "throw"
    [] e.kind = "binary"  -> Truth(Compare(args[1], e.op, args[2]))
    [] e.kind = "isnull"  -> Truth(IsNull(args[1]) <=> e.op # "not")
    [] e.kind = "between" -> Truth(/\ Compare(args[1], ">=", args[2])
                                   /\ Compare(args[1], "<=", args[3]))
    [] e.kind = "like"    -> Truth(LikeMatch(DbObjectToString(args[1]),
                                             DbObjectToString(args[2])))
    [] OTHER -> "false"

\* AND and OR look at their second operand only if the first leaves it open.
Connected(e, verdicts) ==
  CASE e.op = "and" -> IF verdicts[1] = "true" THEN verdicts[2] ELSE verdicts[1]
    [] e.op = "or"  -> IF verdicts[1] = "false" THEN verdicts[2] ELSE verdicts[1]
    [] e.op = "not" -> CASE verdicts[1] = "true"  -> "false"
                         [] verdicts[1] = "false" -> "true"
                         [] OTHER -> "throw"

RECURSIVE EvaluateBool(_, _)
EvaluateBool(e, row) ==
  IF e.kind \in {"binary", "unary"} /\ e.op \in {"and", "or", "not"}
  THEN Connected(e, [i \in DOMAIN e.args |-> EvaluateBool(e.args[i], row)])
  ELSE Tested(e, [i \in DOMAIN Operands(e) |-> GetValue(e.args[i], row)])
=============================================================================
