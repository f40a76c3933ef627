----------------------------- MODULE OpLowering -----------------------------
(***************************************************************************)
(* op_lowering.lower_ops driving POLARS_LOWERING_RULES over one            *)
(* expression: a bottom-up walk that visits a node only once all its       *)
(* children are lowered, rebuilds it on the lowered children, and replaces *)
(* it by its rule's output.  Independent subtrees may be visited in any    *)
(* order (spec.md section 5).  lower_ops is not among the sources: it is  *)
(* modelled from spec.md section 4.4.                                     *)
(***************************************************************************)
EXTENDS PolarsLowering, PolarsSemantics

CONSTANT InputExprs

NotYet == Node("pending", NoType, <<>>, NoVal)

\* Positions in a tree: sequences of child indices from the root.
RECURSIVE Paths(_)
Paths(e) == {<<>>} \cup UNION {{<<i>> \o p : p \in Paths(e.args[i])} : i \in DOMAIN e.args}

RECURSIVE SubExpr(_, _)
SubExpr(e, p) == IF p = <<>> THEN e ELSE SubExpr(e.args[Head(p)], Tail(p))

VARIABLES
  expr,     \* the tree handed to the pass; never mutated
  lowered   \* position -> its lowered replacement, or NotYet
vars == <<expr, lowered>>

Init == /\ expr \in InputExprs
        /\ lowered = [p \in Paths(expr) |-> NotYet]

Ready(p) ==
  /\ lowered[p] = NotYet
  /\ \A i \in DOMAIN SubExpr(expr, p).args : lowered[p \o <<i>>] # NotYet

\* transform_children: the node rebuilt on its lowered children.
Rebuilt(p) ==
  LET e == SubExpr(expr, p)
  IN [e EXCEPT !.args = [i \in DOMAIN e.args |-> lowered[p \o <<i>>]]]

\* Visit one node: rebuild it, then apply the matching rule if any
\* (lower_expr_step).
Visit(p) ==
  /\ Ready(p)
  /\ lowered' = [lowered EXCEPT ![p] = LowerStep(Rebuilt(p))]
  /\ UNCHANGED expr

Finished == lowered[<<>>] # NotYet

VisitSome == \E p \in DOMAIN lowered : Visit(p)

\* The pass stops once the root is lowered.
Next == VisitSome

\* lower_ops is a synchronous recursion that never blocks: while a node is
\* left to visit, the walk goes on.
Spec == Init /\ [][Next]_vars /\ WF_vars(VisitSome)

Result == lowered[<<>>]
DoneAt == {p \in DOMAIN lowered : lowered[p] # NotYet}

----------------------------------------------------------------------------
(* Properties.                                                            *)

\* Type invariant: one slot per position of the input tree, and every node
\* of every lowered subtree has a dtype of the catalog.
TypeOK ==
  /\ DOMAIN lowered = Paths(expr)
  /\ \A p \in DoneAt : \A n \in Nodes(lowered[p]) : Ty(n) \in DTypes

\* Dtype preservation: every lowered subtree has the dtype the planner
\* declared for the subtree it replaces, so each parent rule reads its
\* children's declared dtypes (LowerFloorDivRule and LowerModRule branch on
\* expr.output_type recomputed from the lowered children).
DtypePreserved == \A p \in DoneAt : Ty(lowered[p]) = Ty(SubExpr(expr, p))

\* Backend vocabulary: every node of every lowered subtree is one polars
\* executes as meant (no bool or string arithmetic, no date+timedelta, no
\* comparison across dtypes, no direct bool->decimal cast).
BackendAccepted == \A p \in DoneAt : \A n \in Nodes(lowered[p]) : Accepts(n)

\* spec.md section 4.3 (Div): "numeric/bignumeric operands are cast to
\* float64 before the primitive divide"; the code's comment (lowering.py
\* line 183): "convert numerics to float always".
DivOperandsNotDecimal ==
  \A p \in DoneAt : \A n \in Nodes(lowered[p]) :
    n.op = "div" => ArgTypes(n) \cap {NUMERIC_DTYPE, BIGNUMERIC_DTYPE} = {}

\* spec.md section 6: "applying lower to an already-lowered tree is a
\* no-op, since no node's operator matches any rule a second time".
LoweringIdempotent == Finished => LowerExpr(Result) = Result

\* A logical node over two literals whose meaning is modelled (true
\* division produces float64 values, which are not).
Evaluable(e) ==
  /\ e.op \in RuleOps \ {"div"}
  /\ \A i \in DOMAIN e.args : e.args[i].op = "lit"

DivisorIsZero(e) ==
  /\ e.op \in {"floordiv", "mod"}
  /\ LitVal(e.args[2]) # Null
  /\ Widen(e.args[2].to, INT_DTYPE, LitVal(e.args[2])) = 0

\* Value preservation: evaluated by polars, each lowered node gives what
\* the logical operator means on the original operands (bool arithmetic
\* through int64, string + string as concatenation, date +/- timedelta in
\* datetime, bool/date comparison operands coerced, nulls propagated).
ValuePreserved ==
  \A p \in DoneAt :
    LET e == SubExpr(expr, p)
    IN Evaluable(e) /\ ~DivisorIsZero(e) => PrimEval(lowered[p]) = RefEval(e)

\* Zero-divisor guard (LowerFloorDivRule, LowerModRule): an int64-typed
\* floor division or modulo over non-timedelta operands never hands polars'
\* raw integer division by zero to the caller, and a non-null dividend
\* gives a non-null result.
ZeroDivisorGuarded ==
  \A p \in DoneAt :
    LET e == SubExpr(expr, p)
        v == PrimEval(lowered[p])
    IN /\ Evaluable(e) /\ DivisorIsZero(e) /\ Ty(e) = INT_DTYPE
       /\ TIMEDELTA_DTYPE \notin ArgTypes(e)
       => /\ v # ZeroDivResult
          /\ LitVal(e.args[1]) # Null => v # Null

\* Null propagation (spec.md section 1): an arithmetic node with a null
\* operand evaluates to null, whatever the other operand is, zero included.
NullPropagates ==
  \A p \in DoneAt :
    LET e == SubExpr(expr, p)
    IN /\ Evaluable(e) /\ e.op \in ArithmeticOps
       /\ \E i \in DOMAIN e.args : LitVal(e.args[i]) = Null
       => PrimEval(lowered[p]) = Null

\* spec.md section 8: "for an integer-typed FloorDiv or Mod node,
\* evaluating the lowered expression with a zero divisor yields null"
\* (a null dividend is NullPropagates' case).
IntZeroDivisorYieldsNull ==
  \A p \in DoneAt :
    LET e == SubExpr(expr, p)
    IN Evaluable(e) /\ DivisorIsZero(e) /\ Ty(e) = INT_DTYPE
       /\ LitVal(e.args[1]) # Null
       => PrimEval(lowered[p]) = Null
=============================================================================
