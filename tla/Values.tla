-------------------------------- MODULE Values -------------------------------
(***************************************************************************)
(* Column values (the variant DbObject) and the functions of the executor  *)
(* that convert, compare and calculate with them.                          *)
(*                                                                         *)
(* A value is a record of one shape whatever its type, so that TLC can     *)
(* compare any two.  A double is a reduced fraction num/den; a string is   *)
(* the sequence of its characters, taken from Alphabet.  The string        *)
(* conversions of C leave out what Alphabet cannot spell: exponents, hex,  *)
(* "inf", "nan", blanks, and bytes above 127 (whose sign differs between   *)
(* CompareAny and IndexKey).                                               *)
(***************************************************************************)
EXTENDS Integers, Sequences, FiniteSets

Value(type, num, den, text) ==
  [type |-> type, num |-> num, den |-> den, text |-> text]

Null    == Value("null", 0, 1, << >>)
IntVal(n)  == Value("int", n, 1, << >>)
StrVal(s)  == Value("str", 0, 1, s)
BoolVal(b) == Value("bool", IF b THEN 1 ELSE 0, 1, << >>)

\* What stands for an exception on its way to Executor::Execute.
Throw == Value("throw", 0, 1, << >>)

Abs(n) == IF n < 0 THEN -n ELSE n

GcdOf[n \in Nat, d \in Nat] == IF d = 0 THEN n ELSE GcdOf[d, n % d]

Fraction[num \in Int, den \in Int \ {0}] ==
  LET sign == IF den < 0 THEN -1 ELSE 1
      g    == GcdOf[Abs(num), Abs(den)]
  IN  Value("float", (sign * num) \div g, (sign * den) \div g, << >>)

\* The double num/den, for den # 0.
FloatVal(num, den) == Fraction[num, den]

IsNull(v) == v.type = "null"

ValueTypes == {"null", "int", "float", "bool", "str"}
AnyValue == [type : ValueTypes \cup {"throw"}, num : Int, den : Nat \ {0},
             text : Seq(STRING)]

-----------------------------------------------------------------------------
(* Text.                                                                   *)

\* The characters in the order of their codes.
Alphabet ==
  <<"%", "-", ".", "0", "1", "2", "3", "4", "5", "6", "7", "8", "9", "=", "?",
    "A", "B", "L", "N", "U", "a", "b", "e", "f", "l", "r", "s", "t", "u", "|">>

Code == [c \in {Alphabet[i] : i \in DOMAIN Alphabet} |->
           CHOOSE i \in DOMAIN Alphabet : Alphabet[i] = c]

DigitChars == SubSeq(Alphabet, Code["0"], Code["9"])

IsDigit(c) == Code[c] \in Code["0"]..Code["9"]

Digits[n \in Nat] ==
  IF n < 10 THEN <<DigitChars[n + 1]>>
            ELSE Append(Digits[n \div 10], DigitChars[(n % 10) + 1])

\* std::to_string of a double prints six digits after the point.
SixDigits(n) == SubSeq(Digits[1000000 + n], 2, 7)

DbObjectToString(v) ==
  LET sign   == IF v.num < 0 THEN <<"-">> ELSE << >>
      micros == (2000000 * (Abs(v.num) % v.den) + v.den) \div (2 * v.den)
      whole  == (Abs(v.num) \div v.den) + (micros \div 1000000)
  IN  CASE v.type = "null"  -> <<"N", "U", "L", "L">>
        [] v.type = "int"   -> sign \o Digits[Abs(v.num)]
        [] v.type = "float" -> sign \o Digits[whole] \o <<".">>
                                 \o SixDigits(micros % 1000000)
        [] v.type = "str"   -> v.text
        [] v.type = "bool"  -> IF v.num = 1 THEN <<"t", "r", "u", "e">>
                                            ELSE <<"f", "a", "l", "s", "e">>

\* std::stod reads the longest prefix that is a number: an optional sign and
\* digits with at most one point among them.
Unsigned(s) == IF s # << >> /\ s[1] = "-" THEN Tail(s) ELSE s

IsNumber(s) ==
  LET u == Unsigned(s)
  IN  /\ \E i \in DOMAIN u : IsDigit(u[i])
      /\ \A i \in DOMAIN u : IsDigit(u[i]) \/ u[i] = "."
      /\ \A i, j \in DOMAIN u : u[i] = "." /\ u[j] = "." => i = j

NumberLengths(s) == {n \in 1..Len(s) : IsNumber(SubSeq(s, 1, n))}

\* The value of a sequence of characters that IsNumber.
NumberOf(s) ==
  LET u     == Unsigned(s)
      point == {i \in DOMAIN u : u[i] = "."}
      val[n \in 0..Len(u)] ==
        IF n = 0 THEN 0
        ELSE IF n \in point THEN val[n - 1]
        ELSE 10 * val[n - 1] + Code[u[n]] - Code["0"]
      decimals == IF point = {} THEN 0 ELSE Len(u) - (CHOOSE i \in point : TRUE)
  IN  FloatVal(IF u = s THEN val[Len(u)] ELSE -val[Len(u)], 10 ^ decimals)

\* TryDouble: whether a value has a number, and which.
IsNumeric(v) ==
  \/ v.type \in {"int", "float", "bool"}
  \/ v.type = "str" /\ NumberLengths(v.text) # {}

LongestNumber(s) == CHOOSE n \in NumberLengths(s) : \A m \in NumberLengths(s) : m <= n

Double(v) ==
  IF v.type # "str" THEN FloatVal(v.num, v.den)
  ELSE NumberOf(SubSeq(v.text, 1, LongestNumber(v.text)))

-----------------------------------------------------------------------------
(* Comparison.                                                             *)

Sign(n) == IF n < 0 THEN -1 ELSE IF n > 0 THEN 1 ELSE 0

\* The loop over the characters both texts have, then the lengths.
CompareText(s, t) ==
  LET common == {i \in DOMAIN s \cap DOMAIN t : s[i] # t[i]}
      first  == CHOOSE i \in common : \A j \in common : i <= j
  IN  IF common = {} THEN Sign(Len(s) - Len(t))
      ELSE Sign(Code[s[first]] - Code[t[first]])

CompareNumbers(x, y) == Sign(x.num * y.den - y.num * x.den)

CompareAny(a, b) ==
  IF IsNumeric(a) /\ IsNumeric(b) THEN CompareNumbers(Double(a), Double(b))
  ELSE CompareText(DbObjectToString(a), DbObjectToString(b))

\* Whether a result of CompareAny is what an operator asks for.
Satisfies(cmp, op) ==
  CASE op = "="  -> cmp = 0
    [] op = "!=" -> cmp # 0
    [] op = ">"  -> cmp = 1
    [] op = "<"  -> cmp = -1
    [] op = ">=" -> cmp >= 0
    [] op = "<=" -> cmp <= 0
    [] OTHER     -> FALSE

\* Two NULLs are equal, and NULL is unequal to everything else.
Compare(a, op, b) ==
  IF IsNull(a) /\ IsNull(b) THEN op = "="
  ELSE IF IsNull(a) \/ IsNull(b) THEN op = "!="
  ELSE Satisfies(CompareAny(a, b), op)

AreEqual(a, b) == Compare(a, "=", b)

\* LikeMatch and RecLike: "%" any text, "?" any one character.  The memo
\* table of the code does not change what it computes.
LikeMatch(s, p) ==
  LET Rec[i \in 1..(Len(s) + 1), j \in 1..(Len(p) + 1)] ==
        IF i > Len(s) THEN \A k \in j..Len(p) : p[k] = "%"
        ELSE IF j > Len(p) THEN FALSE
        ELSE IF p[j] = "%" THEN \E k \in i..(Len(s) + 1) : Rec[k, j + 1]
        ELSE p[j] \in {"?", s[i]} /\ Rec[i + 1, j + 1]
  IN  Rec[1, 1]

-----------------------------------------------------------------------------
(* Arithmetic.                                                             *)

\* num/den as the result of an operation on a and b: an int if they are and
\* it is whole.
Quotient(num, den, ints) ==
  IF den = 0 THEN Throw
  ELSE IF ints /\ num % Abs(den) = 0 THEN IntVal((num * Sign(den)) \div Abs(den))
  ELSE FloatVal(num, den)

Combine(x, op, y, ints) ==
  CASE op = "+" -> Quotient(x.num * y.den + y.num * x.den, x.den * y.den, ints)
    [] op = "-" -> Quotient(x.num * y.den - y.num * x.den, x.den * y.den, ints)
    [] op = "*" -> Quotient(x.num * y.num, x.den * y.den, ints)
    [] op = "/" -> Quotient(x.num * y.den, x.den * y.num, ints)

\* Integer results of two ints are ints, everything else is a double.
Calculate(a, op, b) ==
  IF ~IsNumeric(a) \/ ~IsNumeric(b) THEN Null
  ELSE Combine(Double(a), op, Double(b), a.type = "int" /\ b.type = "int")

\* ROUND, for a number of decimals that is not negative: halves away from 0.
RoundTo(v, decimals) ==
  LET scale == 10 ^ decimals
      up    == (2 * Abs(v.num) * scale + v.den) \div (2 * v.den)
  IN  FloatVal(IF v.num < 0 THEN -up ELSE up, scale)

\* static_cast<int> of a double.
Truncate(v) == IF v.num < 0 THEN -(Abs(v.num) \div v.den) ELSE v.num \div v.den

\* CoerceToColumnType: what the planner makes of a literal.
CoerceToColumnType(v, type) ==
  CASE type = "float" /\ v.type = "int"   -> FloatVal(v.num, 1)
    [] type = "int"   /\ v.type = "float" -> IntVal(Truncate(v))
    [] OTHER -> v

\* Mutant of Stored: the value comes back as it was given.
StoredAsGiven(v, type) == v

\* RowSerializer: what is read back of a value written to a column.  stoi
\* reads the leading integer of a string; a value a bool or str column cannot
\* hold leaves the bytes of the cell zero.
Stored(v, type) ==
  CASE IsNull(v)      -> Null
    [] type = "int"   -> IF IsNumeric(v) THEN IntVal(Truncate(Double(v))) ELSE IntVal(0)
    [] type = "float" -> IF IsNumeric(v) THEN Double(v) ELSE FloatVal(0, 1)
    [] type = "bool"  -> IF v.type = "bool" THEN v ELSE BoolVal(FALSE)
    [] type = "str"   -> IF v.type = "str" THEN v ELSE StrVal(<< >>)
=============================================================================
