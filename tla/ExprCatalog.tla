---------------------------- MODULE ExprCatalog ----------------------------
(***************************************************************************)
(* The expression model and the dtype/operator catalog the polars lowering *)
(* rules read: typed expression trees, the coercion lattice, and the type  *)
(* rule that gives every operator node its output dtype.                  *)
(*                                                                         *)
(* This code lives in bigframes.dtypes, bigframes.core.expression and      *)
(* bigframes.operations, which are not among the sources; it is modelled  *)
(* from spec.md sections 3, 4.1, 4.2 and 4.3.                             *)
(***************************************************************************)
EXTENDS Integers, Sequences

\* The finite dtype domain (spec.md section 3).
BOOL_DTYPE       == "bool"
INT_DTYPE        == "int64"
FLOAT_DTYPE      == "float64"
NUMERIC_DTYPE    == "numeric"
BIGNUMERIC_DTYPE == "bignumeric"
STRING_DTYPE     == "string"
DATE_DTYPE       == "date"
DATETIME_DTYPE   == "datetime"
TIMEDELTA_DTYPE  == "timedelta"

DTypes == {BOOL_DTYPE, INT_DTYPE, FLOAT_DTYPE, NUMERIC_DTYPE, BIGNUMERIC_DTYPE, STRING_DTYPE, DATE_DTYPE, DATETIME_DTYPE, TIMEDELTA_DTYPE}

\* Result of the type rule for operand types the operator does not accept.
NoType == "invalid"

\* Operator tags. Leaves are "col" (column reference) and "lit" (literal).
ComparisonOps == {"eq", "eq_nulls_match", "ne", "lt", "gt", "le", "ge"}
ArithmeticOps == {"add", "sub", "mul", "div", "floordiv", "mod"}
LeafOps       == {"col", "lit"}
OpTags == ComparisonOps \cup ArithmeticOps \cup LeafOps \cup {"astype", "strconcat", "where"}

\* A node is a record: op tag, target dtype ("to": the dtype of a leaf, the
\* target of a cast, NoType otherwise), children, and a literal's value,
\* kept as a function from its dtype so that literals of different dtypes
\* stay comparable.
NoVal == <<>>
Node(op, to, args, val) == [op |-> op, to |-> to, args |-> args, val |-> val]
Col(t)             == Node("col", t, <<>>, NoVal)
Lit(t, v)          == Node("lit", t, <<>>, [d \in {t} |-> v])
LitVal(e)          == e.val[e.to]
AsType(t, e)       == Node("astype", t, <<e>>, NoVal)
BinOp(op, l, r)    == Node(op, NoType, <<l, r>>, NoVal)
WhereOp(a, c, b)   == Node("where", NoType, <<a, c, b>>, NoVal)
\* expression.const(0): a Python int literal, typed int64.
Const0 == Lit(INT_DTYPE, 0)

\* dtypes.is_numeric (include_bool defaults to True) and is_string_like.
IsNumeric(t)    == t \in {BOOL_DTYPE, INT_DTYPE, FLOAT_DTYPE, NUMERIC_DTYPE, BIGNUMERIC_DTYPE}
IsStringLike(t) == t = STRING_DTYPE

\* The coercion lattice: numeric types are totally ordered, date widens to
\* datetime; anything else coerces only to itself.
NumericRank == [t \in {BOOL_DTYPE, INT_DTYPE, NUMERIC_DTYPE, BIGNUMERIC_DTYPE, FLOAT_DTYPE} |->
                  CASE t = BOOL_DTYPE -> 0 [] t = INT_DTYPE -> 1 [] t = NUMERIC_DTYPE -> 2
                    [] t = BIGNUMERIC_DTYPE -> 3 [] t = FLOAT_DTYPE -> 4]
CoerceToCommon(t1, t2) ==
  CASE t1 = NoType \/ t2 = NoType         -> NoType
    [] t1 = t2                            -> t1
    [] IsNumeric(t1) /\ IsNumeric(t2)     -> IF NumericRank[t1] >= NumericRank[t2] THEN t1 ELSE t2
    [] {t1, t2} = {DATE_DTYPE, DATETIME_DTYPE}        -> DATETIME_DTYPE
    [] OTHER                              -> NoType

\* Arithmetic on bools is typed like arithmetic on int64.
PromoteBool(t) == IF t = BOOL_DTYPE THEN INT_DTYPE ELSE t

\* The operators' output-type rule over their operands' dtypes.
OutputType(op, ts) ==
  LET l == ts[1]
      r == ts[2]
      numeric == IsNumeric(l) /\ IsNumeric(r)
  IN CASE op \in ComparisonOps ->
            IF CoerceToCommon(l, r) # NoType THEN BOOL_DTYPE ELSE NoType
       [] op = "strconcat" ->
            IF IsStringLike(l) /\ IsStringLike(r) THEN STRING_DTYPE ELSE NoType
       [] op = "where" ->
            IF r = BOOL_DTYPE THEN CoerceToCommon(l, ts[3]) ELSE NoType
       [] op = "add" ->
            CASE l = BOOL_DTYPE /\ r = BOOL_DTYPE                     -> BOOL_DTYPE
              [] IsStringLike(l) /\ IsStringLike(r)       -> STRING_DTYPE
              [] {l, r} \in {{DATE_DTYPE, TIMEDELTA_DTYPE}, {DATETIME_DTYPE, TIMEDELTA_DTYPE}} -> DATETIME_DTYPE
              [] l = TIMEDELTA_DTYPE /\ r = TIMEDELTA_DTYPE           -> TIMEDELTA_DTYPE
              [] numeric                                  -> CoerceToCommon(l, r)
              [] OTHER                                    -> NoType
       [] op = "sub" ->
            CASE l = BOOL_DTYPE /\ r = BOOL_DTYPE                     -> BOOL_DTYPE
              [] l \in {DATE_DTYPE, DATETIME_DTYPE} /\ r = TIMEDELTA_DTYPE  -> DATETIME_DTYPE
              [] l = r /\ l \in {DATE_DTYPE, DATETIME_DTYPE, TIMEDELTA_DTYPE} -> TIMEDELTA_DTYPE
              [] numeric                                  -> CoerceToCommon(l, r)
              [] OTHER                                    -> NoType
       [] op = "mul" ->
            CASE l = BOOL_DTYPE /\ r = BOOL_DTYPE                     -> BOOL_DTYPE
              [] l = TIMEDELTA_DTYPE /\ r \in {BOOL_DTYPE, INT_DTYPE}       -> TIMEDELTA_DTYPE
              [] r = TIMEDELTA_DTYPE /\ l \in {BOOL_DTYPE, INT_DTYPE}       -> TIMEDELTA_DTYPE
              [] numeric                                  -> CoerceToCommon(l, r)
              [] OTHER                                    -> NoType
       [] op = "div" ->
            CASE l = TIMEDELTA_DTYPE /\ r = TIMEDELTA_DTYPE           -> FLOAT_DTYPE
              [] l = TIMEDELTA_DTYPE /\ IsNumeric(r)            -> TIMEDELTA_DTYPE
              [] l = BOOL_DTYPE /\ r = BOOL_DTYPE                     -> BOOL_DTYPE
              [] numeric                                  -> FLOAT_DTYPE
              [] OTHER                                    -> NoType
       [] op \in {"floordiv", "mod"} ->
            CASE l = TIMEDELTA_DTYPE /\ r = TIMEDELTA_DTYPE           -> IF op = "mod" THEN TIMEDELTA_DTYPE ELSE INT_DTYPE
              [] l = TIMEDELTA_DTYPE /\ IsNumeric(r) /\ op = "floordiv" -> TIMEDELTA_DTYPE
              [] numeric -> CoerceToCommon(PromoteBool(l), PromoteBool(r))
              [] OTHER   -> NoType
       [] OTHER -> NoType

\* Expression.output_type: leaves and casts carry their dtype, every other
\* node derives it from its children's dtypes.
RECURSIVE Ty(_)
Ty(e) ==
  IF e.op \in LeafOps \cup {"astype"}
    THEN e.to
    ELSE OutputType(e.op, [i \in DOMAIN e.args |-> Ty(e.args[i])])

\* Every node of e, as a set.
RECURSIVE Nodes(_)
Nodes(e) == {e} \cup UNION {Nodes(e.args[i]) : i \in DOMAIN e.args}

\* A well-typed tree: no node's type rule rejects its operands.
WellTyped(e) == \A n \in Nodes(e) : Ty(n) # NoType

\* Trees built by the planner: a binary logical operator over two subtrees.
Apply(ops, Ls, Rs) ==
  {t \in {BinOp(o, l, r) : o \in ops, l \in Ls, r \in Rs} : Ty(t) # NoType}
=============================================================================
