---------------------------- MODULE MCOpLowering ----------------------------
(***************************************************************************)
(* Input trees of the lowering pass for TLC.                               *)
(*  - Column trees, for the dtype-level properties: every well-typed tree *)
(*    of depth one over columns of every dtype, and of depth two with a   *)
(*    logical operator at the root and at one child.                      *)
(*  - Literal trees, for the value-level properties: every well-typed     *)
(*    logical node over two literals of the dtypes whose values are      *)
(*    modelled, including nulls, zeros, negative numbers and the empty   *)
(*    string.                                                             *)
(***************************************************************************)
EXTENDS OpLowering

Leaves == {Col(t) : t \in DTypes}
Depth1 == Apply(RuleOps, Leaves, Leaves)
Depth2 == Apply(RuleOps, Depth1, Leaves) \cup Apply(RuleOps, Leaves, Depth1)

ValuesOf(t) ==
  {Null} \cup
  CASE t = BOOL_DTYPE      -> BOOLEAN
    [] t = INT_DTYPE       -> {-1, 0, 2}
    [] t = NUMERIC_DTYPE   -> {0, 2}
    [] t = TIMEDELTA_DTYPE -> {-3, 0, 2}
    [] t = DATE_DTYPE      -> {0, 1}
    [] t = DATETIME_DTYPE  -> {1, 4}
    [] t = STRING_DTYPE    -> {<<>>, <<"a">>}

ValueDTypes == {BOOL_DTYPE, INT_DTYPE, NUMERIC_DTYPE, TIMEDELTA_DTYPE,
                DATE_DTYPE, DATETIME_DTYPE, STRING_DTYPE}
Literals == UNION {{Lit(t, v) : v \in ValuesOf(t)} : t \in ValueDTypes}
MCLiteralExprs == Apply(RuleOps, Literals, Literals)

\* timedelta / bool and timedelta // bool are checked by their own run.
BoolDivisorOfTimedelta(e) ==
  \E n \in Nodes(e) : /\ n.op \in {"div", "floordiv"}
                      /\ Ty(n.args[1]) = TIMEDELTA_DTYPE
                      /\ Ty(n.args[2]) = BOOL_DTYPE
MCInputExprs ==
  {e \in Depth1 \cup Depth2 \cup MCLiteralExprs : ~BoolDivisorOfTimedelta(e)}
MCAllDepth1 == Depth1

=============================================================================
