-------------------------- MODULE PolarsSemantics --------------------------
(***************************************************************************)
(* What the lowered trees are judged against.  Neither part is code of     *)
(* this repository:                                                       *)
(*  - the backend: which primitive nodes polars executes (from the        *)
(*    restrictions the lowering code's comments and spec.md 4.2-4.3       *)
(*    state) and what they evaluate to;                                   *)
(*  - the reference: what a logical operator means on its original        *)
(*    operands (spec.md 4.3 and 8).                                       *)
(* Values: int-like dtypes (int64, numeric, timedelta, date, datetime) are *)
(* integers in their unit; a date is a day number and a datetime counts   *)
(* DayUnits per day; strings are sequences.  float64 values are not       *)
(* modelled, so true division over non-timedelta operands is not          *)
(* evaluated.                                                             *)
(***************************************************************************)
EXTENDS ExprCatalog

CONSTANTS
  Null,           \* the null value of every dtype
  ZeroDivResult,  \* what a raw integer // or % by zero gives in polars: left opaque
  DayUnits        \* datetime/timedelta units per day

ASSUME DayUnits \in Nat \ {0}

----------------------------------------------------------------------------
(* Backend restrictions.                                                  *)

ArgTypes(n) == {Ty(n.args[i]) : i \in DOMAIN n.args}

\* polars compares two numeric (non-bool) columns through their supertype;
\* any other pair must already have one dtype.
NonBoolNumeric == {INT_DTYPE, FLOAT_DTYPE, NUMERIC_DTYPE, BIGNUMERIC_DTYPE}
Comparable(t1, t2) == t1 = t2 \/ {t1, t2} \subseteq NonBoolNumeric

\* A primitive node polars executes with the intended meaning.
Accepts(n) ==
  /\ n.op \in ArithmeticOps => ArgTypes(n) \cap {BOOL_DTYPE, STRING_DTYPE} = {}
  /\ n.op \in {"add", "sub"} => ~ ({DATE_DTYPE, TIMEDELTA_DTYPE} \subseteq ArgTypes(n))
  /\ n.op \in ComparisonOps => Comparable(Ty(n.args[1]), Ty(n.args[2]))
  /\ n.op = "astype" => ~ (Ty(n.args[1]) = BOOL_DTYPE /\ n.to \in {NUMERIC_DTYPE, BIGNUMERIC_DTYPE})

----------------------------------------------------------------------------
(* Integer arithmetic, floored like Python and polars.                    *)

FloorDivInt(a, b) == IF b > 0 THEN a \div b ELSE (-a) \div (-b)
FloorModInt(a, b) == a - b * FloorDivInt(a, b)

StrLt(a, b) == Len(a) < Len(b) \/ (Len(a) = 1 /\ Len(b) = 1 /\ a[1] = "a" /\ b[1] = "b")

\* A value of dtype t as an integer of dtype u (bools count 0/1, dates
\* widen to datetime units).
Widen(t, u, v) ==
  CASE t = BOOL_DTYPE /\ u # BOOL_DTYPE -> IF v THEN 1 ELSE 0
    [] t = DATE_DTYPE /\ u = DATETIME_DTYPE -> v * DayUnits
    [] OTHER -> v

\* Strict order on the values of one dtype.
Less(t, a, b) ==
  CASE t = STRING_DTYPE -> StrLt(a, b)
    [] t = BOOL_DTYPE   -> ~a /\ b
    [] OTHER            -> a < b

Compare(op, t, a, b) ==
  CASE op \in {"eq", "eq_nulls_match"} -> a = b
    [] op = "ne" -> a # b
    [] op = "lt" -> Less(t, a, b)
    [] op = "gt" -> Less(t, b, a)
    [] op = "le" -> ~Less(t, b, a)
    [] op = "ge" -> ~Less(t, a, b)

\* Arithmetic involving a temporal dtype is done in datetime units.
TemporalDTypes == {DATE_DTYPE, DATETIME_DTYPE, TIMEDELTA_DTYPE}
Unit(ts) == IF ts \cap TemporalDTypes # {} THEN DATETIME_DTYPE ELSE INT_DTYPE

Arith(op, a, b) ==
  CASE op = "add" -> a + b
    [] op = "sub" -> a - b
    [] op = "mul" -> a * b
    [] op = "floordiv" -> IF b = 0 THEN ZeroDivResult ELSE FloorDivInt(a, b)
    [] op = "mod"      -> IF b = 0 THEN ZeroDivResult ELSE FloorModInt(a, b)

Opaque(v) == v \in {Null, ZeroDivResult}

----------------------------------------------------------------------------
(* The backend's evaluation of a lowered tree with literal leaves.        *)

RECURSIVE PrimEval(_)
PrimEval(n) ==
  IF n.op = "lit" THEN LitVal(n) ELSE
  LET a == PrimEval(n.args[1])
      ta == Ty(n.args[1])
  IN CASE n.op = "astype" ->
            CASE Opaque(a) -> a
              [] n.to = BOOL_DTYPE -> IF ta = BOOL_DTYPE THEN a ELSE a # 0
              [] OTHER -> Widen(ta, n.to, a)
       [] n.op = "where" ->
            IF PrimEval(n.args[2]) = TRUE THEN a ELSE PrimEval(n.args[3])
       [] OTHER ->
            LET b == PrimEval(n.args[2])
                tb == Ty(n.args[2])
                unit == Unit({ta, tb, Ty(n)})
            IN CASE n.op = "eq_nulls_match" -> a = b
                 [] a = ZeroDivResult \/ b = ZeroDivResult -> ZeroDivResult
                 [] a = Null \/ b = Null -> Null
                 [] n.op = "strconcat" -> a \o b
                 [] n.op \in ComparisonOps -> Compare(n.op, ta, a, b)
                 [] OTHER -> Arith(n.op, Widen(ta, unit, a), Widen(tb, unit, b))

----------------------------------------------------------------------------
(* The reference meaning of a logical node over literal operands: the     *)
(* exact result computed on the operands' values, in the declared dtype;  *)
(* integer division by zero is null (spec.md section 8).                  *)

RefEval(n) ==
  LET l == n.args[1]
      r == n.args[2]
      a == LitVal(l)
      b == LitVal(r)
      t == Ty(n)
      common == CoerceToCommon(l.to, r.to)
      unit == Unit({l.to, r.to, t})
      x == Widen(l.to, unit, a)
      y == Widen(r.to, unit, b)
  IN CASE a = Null \/ b = Null -> IF n.op = "eq_nulls_match" THEN a = b ELSE Null
       [] n.op \in ComparisonOps ->
            Compare(n.op, common, Widen(l.to, common, a), Widen(r.to, common, b))
       [] n.op = "add" /\ t = STRING_DTYPE -> a \o b
       [] n.op \in {"floordiv", "mod"} /\ y = 0 -> Null
       [] t = BOOL_DTYPE -> Arith(n.op, x, y) # 0
       [] OTHER -> Arith(n.op, x, y)
=============================================================================
