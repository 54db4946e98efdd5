---------------------------- MODULE ExprListener ----------------------------
(***************************************************************************)
(* The callbacks for views and their expressions (listener_impl.go:1910 to *)
(* 3035).  An expression is built on expr_stack: some callbacks push a     *)
(* node when the rule is entered, later ones pop operands and put them     *)
(* into the node they expect below, by the kind of expression it is.       *)
(*   value      anything that is complete and never asked for its kind     *)
(*   call, relexpr, binexpr, navigate, set, list, transform                *)
(*   ifelse     an Expr_IfElse with a condition; ifvar is one without      *)
(***************************************************************************)
EXTENDS TreeShapeListener

PushExpr(s, kind) == [s EXCEPT !.exprs = Append(@, kind)]

\* popExpr, n times; a stack that is too short is an index out of range.
popExprs(s, n, callback) ==
  IF Len(s.exprs) < n THEN Panic(s, callback)
  ELSE [s EXCEPT !.exprs = SubSeq(@, 1, Len(@) - n)]

TopIs(s, kinds) == s.exprs # <<>> /\ Top(s.exprs) \in kinds

\* TopExpr has to be an expression of one of these kinds.
TopExpr(s, kinds, callback) == IF TopIs(s, kinds) THEN s ELSE Panic(s, callback)

\* n operands become one expression.
Combine(s, n, kind, callback) == PushExpr(popExprs(s, n, callback), kind)

\* The operand goes into the expression below it.
PutInto(s, kinds, callback) == TopExpr(popExprs(s, 1, callback), kinds, callback)

-----------------------------------------------------------------------------
\* Relational operators; their target is on the stack already.

ExitFunc_arg(s) == PutInto(s, {"relexpr", "call"}, "ExitFunc_arg")

ExitRank_expr(s) == PutInto(s, {"relexpr"}, "ExitRank_expr")

EnterExpr_rank_func(s) ==
  AddField(Combine(s, 1, "relexpr", "EnterExpr_rank_func"), "EnterExpr_rank_func")

ExitExpr_rank_func(s) ==
  TopExpr(SomeField(s, "ExitExpr_rank_func"), {"relexpr"}, "ExitExpr_rank_func")

EnterExpr_agg_func(s) == Combine(s, 1, "relexpr", "EnterExpr_agg_func")

ExitExpr_agg_func(s) == TopExpr(s, {"relexpr"}, "ExitExpr_agg_func")

ExitE_scope_var(s) == TopExpr(s, AnyExpr, "ExitE_scope_var")

ExitFirst_func_target(s, w) ==
  IF Has(w, "E_NULL")
    THEN TopExpr(s, {"relexpr"}, "ExitFirst_func_target")
    ELSE PutInto(s, {"relexpr"}, "ExitFirst_func_target")

EnterExpr_first_func(s) == Combine(s, 1, "relexpr", "EnterExpr_first_func")

ExitExpr_first_func(s) == TopExpr(s, {"relexpr"}, "ExitExpr_first_func")

ExitE_single_arg_func(s) == PushExpr(s, "binexpr")

\* The operand, the operator that was pushed for it, and the target.
ExitExpr_single_arg_func(s) ==
  LET operator == popExprs(s, 1, "ExitExpr_single_arg_func")
  IN  Combine(TopExpr(operator, {"binexpr"}, "ExitExpr_single_arg_func"), 2, "binexpr",
              "ExitExpr_single_arg_func")

ExitExpr_any_func(s) == Combine(s, 2, "call", "ExitExpr_any_func")

ExitExpr_single_or_null(s) == Combine(s, 1, "value", "ExitExpr_single_or_null")

ExitExpr_snapshot(s) == Combine(s, 1, "relexpr", "ExitExpr_snapshot")

ExitExpr_count(s) == Combine(s, 1, "call", "ExitExpr_count")

ExitExpr_table_of_op(s) == Combine(s, 1, "value", "ExitExpr_table_of_op")

EnterExpr_navigate(s) == Combine(s, 1, "navigate", "EnterExpr_navigate")

ExitExpr_navigate_attr(s) == TopExpr(s, {"navigate"}, "ExitExpr_navigate_attr")

EnterMatching_rhs(s, w) == IF HasAny(w, {"E_Name", "atomT_paren"}) THEN s ELSE PushExpr(s, "value")

ExitMatching_rhs(s, w) == IF Has(w, "E_Name") THEN PushExpr(s, "value") ELSE s

EnterSquiggly_args(s) == TopExpr(s, {"binexpr"}, "EnterSquiggly_args")

EnterExpr_matching(s) == Combine(s, 1, "binexpr", "EnterExpr_matching")

ExitExpr_matching(s) == PutInto(s, {"binexpr"}, "ExitExpr_matching")

-----------------------------------------------------------------------------
\* Atoms

ExitLiteral(s) == PushExpr(s, "value")

EnterExpr_func(s) == PushExpr(s, "call")

EnterExpr_set(s) == PushExpr(s, "set")

EnterExpr_atom_list(s) == PushExpr(s, "list")

ExitList_item(s) == PutInto(s, AnyExpr, "ExitList_item")

ExitExpr_list(s) == TopExpr(s, AnyExpr, "ExitExpr_list")

ExitEmpty_tuple(s) == PushExpr(s, "value")

MutEnterAtomT_implied_dot(s) == s

EnterAtomT_implied_dot(s) == PushExpr(s, "value")

ExitAtomT_name(s) == PushExpr(s, "value")

-----------------------------------------------------------------------------
\* Operators

ExitPower(s, w) == IF Has(w, "powerT") THEN Combine(s, 2, "binexpr", "ExitPower") ELSE s

ExitUnaryTerm(s, w) == IF Has(w, "OP") THEN Combine(s, 1, "value", "ExitUnaryTerm") ELSE s

ExitTermT(s) == Combine(s, 2, "binexpr", "ExitTermT")

ExitBinexprT(s) == Combine(s, 2, "binexpr", "ExitBinexprT")

MutreverseOp(s, w, callback) == IF Len(w) > 1 THEN Combine(s, 2, "binexpr", callback) ELSE s

\* ExitExpr_rel, and reverseOp for the operators above it: all operands at once.
reverseOp(s, w, callback) == IF Len(w) > 1 THEN Combine(s, Len(w), "binexpr", callback) ELSE s

-----------------------------------------------------------------------------
\* Conditionals

ExitIf_one_liner(s) == Combine(s, 3, "ifelse", "ExitIf_one_liner")

EnterIf_multiple_lines(s, w) == PushExpr(s, IF Has(w, "ifvar") THEN "ifvar" ELSE "ifelse")

ExitIfvar(s) ==
  Combine(PutInto(s, {"ifvar", "ifelse"}, "ExitIfvar"), 1, "ifelse", "ExitIfvar")

ExitControl_item(s) == PutInto(s, {"ifelse"}, "ExitControl_item")

ExitElse_block_stmt(s) == PutInto(s, {"ifelse"}, "ExitElse_block_stmt")

ExitFinal_else(s) == PutInto(s, {"ifelse"}, "ExitFinal_else")

-----------------------------------------------------------------------------
\* Statements of a transform

ExitExpr_simple_assign(s) == PutInto(s, {"transform"}, "ExitExpr_simple_assign")

ExitExpr_let_statement(s) == PutInto(s, {"transform"}, "ExitExpr_let_statement")

ExitExpr_table_of_statement(s) == PutInto(s, {"transform"}, "ExitExpr_table_of_statement")

ExitExpr_dot_assign(s) == TopExpr(s, {"transform"}, "ExitExpr_dot_assign")

ExitExpr_inject_stmt(s) ==
  PutInto(TopExpr(s, {"call"}, "ExitExpr_inject_stmt"), {"transform"}, "ExitExpr_inject_stmt")

\* One operand, or none for a text; what is below it is added up, except a transform.
ExitTemplate_expression(s, w) ==
  LET callback == "ExitTemplate_expression"
      a == IF Has(w, "TMPL_TEXT") THEN s ELSE popExprs(s, 1, callback)
      b == TopExpr(a, AnyExpr, callback)
  IN  PushExpr(IF TopIs(b, {"transform"}) THEN b ELSE popExprs(b, 1, callback), "binexpr")

EnterTemplate_statement(s, w) == IF Has(w, "template_expression") THEN s ELSE PushExpr(s, "value")

ExitTemplate_statement(s) == PutInto(s, {"transform"}, "ExitTemplate_statement")

EnterTransform(s) == PushExpr(s, "transform")

ExitTransform_arg(s) == PutInto(s, {"transform"}, "ExitTransform_arg")

EnterTransform_scope_var(s) == TopExpr(s, {"transform"}, "EnterTransform_scope_var")

EnterTransform_return_type(s, w) ==
  IF Has(w, "set_of") THEN s ELSE AddField(s, "EnterTransform_return_type")

ExitTransform_return_type(s, w) ==
  IF Has(w, "set_of") THEN s
  ELSE TopExpr(SomeField(s, "ExitTransform_return_type"), AnyExpr, "ExitTransform_return_type")

ExitTransform(s) == TopExpr(s, {"transform"}, "ExitTransform")

-----------------------------------------------------------------------------
\* Views

EnterView(s) == [FreshTypemap(s) EXCEPT !.returns = FALSE]

EnterView_param(s) == AddField(s, "EnterView_param")

ExitView_param(s) == SomeField(s, "ExitView_param")

EnterView_return_type(s) == [AddField(s, "EnterView_return_type") EXCEPT !.returns = TRUE]

ExitView_type_spec(s) == SomeField(s, "ExitView_type_spec")

\* An abstract view has no expression, and without a type to return it needs one.
ExitView(s, w) ==
  LET a == IF Has(w, "abstract_view") THEN s ELSE popExprs(s, 1, "ExitView")
  IN  IF Has(w, "abstract_view") /\ ~s.returns
        THEN Panic(s, "ExitView")
        ELSE [FreshTypemap(a) EXCEPT !.returns = FALSE]
=============================================================================
