--------------------------- MODULE PolarsLowering ---------------------------
(***************************************************************************)
(* The polars lowering rules of bigframes/core/compile/polars/lowering.py. *)
(* Each rule is a pure operator from an operator node, whose children are  *)
(* already lowered, to its replacement.  A rule's early returns are the    *)
(* branches of an IF; its reassignments of larg/rarg are LET definitions.  *)
(***************************************************************************)
EXTENDS ExprCatalog

AsInt(e) == AsType(INT_DTYPE, e)
\* "if x.output_type == BOOL_DTYPE: x = AsTypeOp(INT_DTYPE).as_expr(x)"
BoolToInt(e) == IF Ty(e) = BOOL_DTYPE THEN AsInt(e) ELSE e
\* Fault variant: the bool pair computed in int64 and not cast back.
BoolPairNoCastBack(op, l, r) == BinOp(op, AsInt(l), AsInt(r))
\* The bool-pair path shared by Add, Sub, Mul and Div: cast both to int64,
\* apply the operator, cast the result back to bool.
BoolPair(op, l, r) == AsType(BOOL_DTYPE, BinOp(op, AsInt(l), AsInt(r)))
BothBool(l, r) == Ty(l) = BOOL_DTYPE /\ Ty(r) = BOOL_DTYPE

\* _lower_cast: bool -> numeric goes through int64 first.
LowerCast(to, arg) ==
  IF Ty(arg) = BOOL_DTYPE /\ IsNumeric(to)
    THEN AsType(to, AsInt(arg))
    ELSE AsType(to, arg)

\* _coerce_comparables (bools_only is never passed by the rules).
CoerceComparables(e1, e2) ==
  LET target == CoerceToCommon(Ty(e1), Ty(e2))
  IN <<IF Ty(e1) # target THEN LowerCast(target, e1) ELSE e1,
       IF Ty(e2) # target THEN LowerCast(target, e2) ELSE e2>>

\* CoerceArgsRule.lower, registered for every comparison operator.
CoerceArgsRule(e) ==
  LET args == CoerceComparables(e.args[1], e.args[2])
  IN BinOp(e.op, args[1], args[2])

\* Fault variant: the date operand handed to polars unpromoted.
PromoteDateNever(d, t) == d
\* Add and Sub: "if larg is DATE and rarg is TIMEDELTA: larg = AsTypeOp(DATETIME)".
PromoteDate(d, t) ==
  IF Ty(d) = DATE_DTYPE /\ Ty(t) = TIMEDELTA_DTYPE THEN AsType(DATETIME_DTYPE, d) ELSE d

\* Add also promotes a date right operand beside a timedelta left one.
LowerAddRule(e) ==
  LET larg == e.args[1]
      rarg == e.args[2]
      l2 == PromoteDate(BoolToInt(larg), BoolToInt(rarg))
      r2 == PromoteDate(BoolToInt(rarg), l2)
  IN IF BothBool(larg, rarg) THEN BoolPair("add", larg, rarg)
     ELSE IF IsStringLike(Ty(larg)) /\ IsStringLike(Ty(rarg))
       THEN BinOp("strconcat", larg, rarg)
     ELSE BinOp("add", l2, r2)

LowerSubRule(e) ==
  LET larg == e.args[1]
      rarg == e.args[2]
  IN IF BothBool(larg, rarg) THEN BoolPair("sub", larg, rarg)
     ELSE BinOp("sub", PromoteDate(BoolToInt(larg), BoolToInt(rarg)), BoolToInt(rarg))

\* The second test reads larg after the first may have reassigned it.
LowerMulRule(e) ==
  LET larg == e.args[1]
      rarg == e.args[2]
      l1 == IF Ty(larg) = BOOL_DTYPE /\ Ty(rarg) # BOOL_DTYPE THEN AsInt(larg) ELSE larg
      r1 == IF Ty(rarg) = BOOL_DTYPE /\ Ty(l1) # BOOL_DTYPE THEN AsInt(rarg) ELSE rarg
  IN IF BothBool(larg, rarg) THEN BoolPair("mul", larg, rarg)
     ELSE BinOp("mul", l1, r1)

\* timedelta / numeric reuses the floordiv path; bools go to int64 and a
\* decimal dividend (only the dividend) goes to float64.
LowerDivRule(e) ==
  LET dividend == e.args[1]
      divisor  == e.args[2]
      d1 == CASE Ty(dividend) = BOOL_DTYPE -> AsInt(dividend)
              [] Ty(dividend) \in {BIGNUMERIC_DTYPE, NUMERIC_DTYPE} -> AsType(FLOAT_DTYPE, dividend)
              [] OTHER -> dividend
  IN IF Ty(dividend) = TIMEDELTA_DTYPE /\ IsNumeric(Ty(divisor))
       THEN AsType(TIMEDELTA_DTYPE, AsInt(BinOp("floordiv", AsInt(dividend), divisor)))
     ELSE IF BothBool(dividend, divisor) THEN BoolPair("div", dividend, divisor)
     ELSE BinOp("div", d1, BoolToInt(divisor))

\* Fault variant: the where() arms swapped.
FloorDivGuardSwapped(d, s) ==
  WhereOp(BinOp("floordiv", d, s), BinOp("eq", s, Const0), BinOp("mul", d, Const0))
\* where(dividend * 0, divisor == 0, dividend // divisor).
FloorDivGuard(d, s) ==
  WhereOp(BinOp("mul", d, Const0), BinOp("eq", s, Const0), BinOp("floordiv", d, s))

\* The zero-divisor guard is added unless the node's declared output type
\* is float64.
LowerFloorDivRule(e) ==
  LET dividend == e.args[1]
      divisor  == e.args[2]
      d1 == BoolToInt(dividend)
      s1 == BoolToInt(divisor)
  IN IF Ty(dividend) = TIMEDELTA_DTYPE /\ Ty(divisor) = TIMEDELTA_DTYPE
       THEN BinOp("floordiv", AsInt(dividend), AsInt(divisor))
     ELSE IF Ty(dividend) = TIMEDELTA_DTYPE /\ IsNumeric(Ty(divisor))
       THEN AsType(TIMEDELTA_DTYPE, AsInt(BinOp("floordiv", AsInt(dividend), divisor)))
     ELSE IF Ty(e) # FLOAT_DTYPE THEN FloorDivGuard(d1, s1)
     ELSE BinOp("floordiv", d1, s1)

\* Fault variant: the guard tests divisor == 0 where it means != 0.
ModGuardEq(res, divisor) == WhereOp(res, BinOp("eq", divisor, Const0), BinOp("mul", divisor, Const0))

\* The guard is where(larg % rarg, rarg != 0, rarg * 0); for non-timedelta
\* operands it is added only when the declared output type is int64.
ModGuard(res, divisor) == WhereOp(res, BinOp("ne", divisor, Const0), BinOp("mul", divisor, Const0))
\* Fault variant: timedelta % timedelta on the timedelta operands, not
\* their int64 views.
TimedeltaModNoIntView(l, r) == AsType(TIMEDELTA_DTYPE, ModGuard(BinOp("mod", l, r), AsInt(r)))
\* timedelta % timedelta: the guarded mod of the int64 views, cast back.
TimedeltaMod(l, r) == AsType(TIMEDELTA_DTYPE, ModGuard(BinOp("mod", AsInt(l), AsInt(r)), AsInt(r)))

LowerModRule(e) ==
  LET larg == e.args[1]
      rarg == e.args[2]
      l1 == BoolToInt(larg)
      r1 == BoolToInt(rarg)
      wo_bools == BinOp("mod", l1, r1)
  IN IF Ty(larg) = TIMEDELTA_DTYPE /\ Ty(rarg) = TIMEDELTA_DTYPE
       THEN TimedeltaMod(larg, rarg)
     ELSE IF Ty(e) = INT_DTYPE THEN ModGuard(wo_bools, r1)
     ELSE wo_bools

\* POLARS_LOWERING_RULES: the operator tags that have a rule, and the rule
\* that lowers a node carrying one of them.
LOWER_COMPARISONS == ComparisonOps
RuleOps == LOWER_COMPARISONS \cup ArithmeticOps
ApplyRule(e) ==
  CASE e.op \in LOWER_COMPARISONS -> CoerceArgsRule(e)
    [] e.op = "add"      -> LowerAddRule(e)
    [] e.op = "sub"      -> LowerSubRule(e)
    [] e.op = "mul"      -> LowerMulRule(e)
    [] e.op = "div"      -> LowerDivRule(e)
    [] e.op = "floordiv" -> LowerFloorDivRule(e)
    [] e.op = "mod"      -> LowerModRule(e)

\* One step of op_lowering.lower_ops: a node whose children are already
\* lowered is replaced by its rule's output, or kept if no rule matches.
LowerStep(e) == IF e.op \in RuleOps THEN ApplyRule(e) ELSE e

\* lower_ops over one expression: bottom-up, children first, and the
\* rule's output is never walked again.
RECURSIVE LowerExpr(_)
LowerExpr(e) ==
  LowerStep([e EXCEPT !.args = [i \in DOMAIN e.args |-> LowerExpr(e.args[i])]])
=============================================================================
