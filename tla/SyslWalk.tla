------------------------------ MODULE SyslWalk ------------------------------
(***************************************************************************)
(* The walk of Parser.Parse over the parse tree of a file (parse.go:158,   *)
(* antlr's ParseTreeWalker): every rule is entered, its children are       *)
(* walked in order, and it is exited.  The parser makes the tree first; as *)
(* the tree can be any that the grammar allows, the words of a node are    *)
(* chosen here when the walk reaches it.                                   *)
(*                                                                         *)
(* The open rules are a stack.  A frame has the rule, the word of it if a  *)
(* callback looks at it again on the way out, the children that are not    *)
(* walked yet (the rest of the word, with its tokens, which nobody listens *)
(* to), and how many expressions there were when it was entered (of an     *)
(* expr).                                                                  *)
(*                                                                         *)
(* Bounds: Reps (SyslGrammar); a rule in Open may have any of its words,   *)
(* any other the word of a lowest tree (Plain); in the whole tree at most  *)
(* Detours nodes have another word than that.                              *)
(***************************************************************************)
EXTENDS SyslGrammar, ExprListener

CONSTANTS Open, Detours

ASSUME OpenAssumption == Open \subseteq Rules /\ Detours \in Nat

VARIABLES open, listener,
          detours  \* how many more nodes may have another word than the plain one

vars == <<open, listener, detours>>

Init ==
  /\ open = <<[rule |-> "file", word |-> <<>>, rest |-> <<"sysl_file">>, base |-> 0]>>
  /\ listener = NewTreeShapeListener
  /\ detours = Detours

\* The rules whose word a callback asks for on the way out.
LooksBack ==
  {"set_type", "sequence_type", "field_type", "field", "union", "http_path_var_with_type", "param",
   "statements", "simple_endpoint", "event", "subscribe", "collector", "collector_stmts",
   "first_func_target", "matching_rhs", "power", "unaryTerm", "expr_rel", "expr_bitand",
   "expr_bitxor", "expr_bitor", "expr_and", "expr_or", "expr_but_not", "expr_coalesce",
   "template_expression", "transform_return_type", "view", "alias", "app_decl"}

\* The Enter callback of a rule; a rule that is not listed has none that matters here.
Enter(s, r, w) ==
  CASE r = "reference" -> EnterReference(s)
    [] r = "doc_string" -> EnterDoc_string(s)
    [] r = "user_defined_type" -> EnterUser_defined_type(s)
    [] r = "types" -> EnterTypes(s, w)
    [] r = "annotation_value" -> EnterAnnotation_value(s)
    [] r = "annotation" -> EnterAnnotation(s)
    [] r = "field_type" -> EnterField_type(s, w)
    [] r = "inplace_tuple" -> EnterInplace_tuple(s)
    [] r = "field" -> EnterField(s)
    [] r = "table_stmts" -> EnterTable_stmts(s, w)
    [] r = "table_def" -> EnterTable_def(s, w)
    [] r = "table" -> EnterTable(s, w)
    [] r = "union" -> EnterUnion(s, w)
    [] r = "model_name" -> EnterModel_name(s)
    [] r = "http_path_var_with_type" -> EnterHttp_path_var_with_type(s, w)
    [] r = "http_path" -> EnterHttp_path(s)
    [] r = "ret_stmt" -> EnterRet_stmt(s)
    [] r = "call_arg" -> EnterCall_arg(s)
    [] r = "call_stmt" -> EnterCall_stmt(s)
    [] r = "if_stmt" -> EnterIf_stmt(s)
    [] r = "else_stmt" -> EnterElse_stmt(s)
    [] r = "for_stmt" -> EnterFor_stmt(s, w)
    [] r = "group_stmt" -> EnterGroup_stmt(s)
    [] r = "one_of_cases" -> EnterOne_of_cases(s)
    [] r = "one_of_stmt" -> EnterOne_of_stmt(s)
    [] r = "text_stmt" -> EnterText_stmt(s, w)
    [] r = "param" -> EnterParam(s, w)
    [] r = "params" -> EnterParams(s)
    [] r = "method_def" -> EnterMethod_def(s)
    [] r = "simple_endpoint" -> EnterSimple_endpoint(s, w)
    [] r = "rest_endpoint" -> EnterRest_endpoint(s)
    [] r = "collector_call_stmt" -> EnterCollector_call_stmt(s)
    [] r = "collector_http_stmt" -> EnterCollector_http_stmt(s)
    [] r = "collector_pubsub_call" -> EnterCollector_pubsub_call(s)
    [] r = "collector_action_stmt" -> EnterCollector_action_stmt(s)
    [] r = "collector" -> EnterCollector(s, w)
    [] r = "event" -> EnterEvent(s, w)
    [] r = "expr_func" -> EnterExpr_func(s)
    [] r = "expr_rank_func" -> EnterExpr_rank_func(s)
    [] r = "expr_agg_func" -> EnterExpr_agg_func(s)
    [] r = "expr_first_func" -> EnterExpr_first_func(s)
    [] r = "expr_navigate" -> EnterExpr_navigate(s)
    [] r = "matching_rhs" -> EnterMatching_rhs(s, w)
    [] r = "squiggly_args" -> EnterSquiggly_args(s)
    [] r = "expr_matching" -> EnterExpr_matching(s)
    [] r = "expr_set" -> EnterExpr_set(s)
    [] r = "atomT_implied_dot" -> EnterAtomT_implied_dot(s)
    [] r = "expr_atom_list" -> EnterExpr_atom_list(s)
    [] r = "if_multiple_lines" -> EnterIf_multiple_lines(s, w)
    [] r = "template_statement" -> EnterTemplate_statement(s, w)
    [] r = "transform_return_type" -> EnterTransform_return_type(s, w)
    [] r = "view_return_type" -> EnterView_return_type(s)
    [] r = "transform_scope_var" -> EnterTransform_scope_var(s)
    [] r = "transform" -> EnterTransform(s)
    [] r = "view_param" -> EnterView_param(s)
    [] r = "view" -> EnterView(s)
    [] r = "alias" -> EnterAlias(s, w)
    [] r = "app_decl" -> EnterApp_decl(s, w)
    [] OTHER -> s

\* The Exit callback.
Exit(s, r, w) ==
  CASE r = "reference" -> ExitReference(s)
    [] r = "field_type" -> ExitField_type(s, w)
    [] r = "inplace_tuple" -> ExitInplace_tuple(s)
    [] r = "field" -> ExitField(s, w)
    [] r = "table" -> ExitTable(s)
    [] r = "union" -> ExitUnion(s, w)
    [] r = "http_path_var_with_type" -> ExitHttp_path_var_with_type(s, w)
    [] r = "http_path" -> ExitHttp_path(s)
    [] r = "target" -> ExitTarget(s)
    [] r = "param" -> ExitParam(s, w)
    [] r = "params" -> ExitParams(s)
    [] r = "statements" -> ExitStatements(s, w)
    [] r \in {"if_stmt", "else_stmt", "for_stmt", "group_stmt", "one_of_cases", "one_of_stmt"} -> ExitBlock(s)
    [] r = "method_def" -> ExitMethod_def(s)
    [] r = "rest_endpoint" -> ExitRest_endpoint(s)
    [] r = "subscriber" -> ExitSubscriber(s)
    [] r = "collector" -> ExitCollector(s, w)
    [] r = "view_type_spec" -> ExitView_type_spec(s)
    [] r = "literal" -> ExitLiteral(s)
    [] r = "expr_table_of_op" -> ExitExpr_table_of_op(s)
    [] r = "func_arg" -> ExitFunc_arg(s)
    [] r = "rank_expr" -> ExitRank_expr(s)
    [] r = "expr_rank_func" -> ExitExpr_rank_func(s)
    [] r = "expr_agg_func" -> ExitExpr_agg_func(s)
    [] r = "e_scope_var" -> ExitE_scope_var(s)
    [] r = "first_func_target" -> ExitFirst_func_target(s, w)
    [] r = "expr_first_func" -> ExitExpr_first_func(s)
    [] r = "e_single_arg_func" -> ExitE_single_arg_func(s)
    [] r = "expr_single_arg_func" -> ExitExpr_single_arg_func(s)
    [] r = "expr_any_func" -> ExitExpr_any_func(s)
    [] r = "expr_single_or_null" -> ExitExpr_single_or_null(s)
    [] r = "expr_snapshot" -> ExitExpr_snapshot(s)
    [] r = "expr_count" -> ExitExpr_count(s)
    [] r = "expr_navigate_attr" -> ExitExpr_navigate_attr(s)
    [] r = "matching_rhs" -> ExitMatching_rhs(s, w)
    [] r = "expr_matching" -> ExitExpr_matching(s)
    [] r = "list_item" -> ExitList_item(s)
    [] r = "expr_list" -> ExitExpr_list(s)
    [] r = "empty_tuple" -> ExitEmpty_tuple(s)
    [] r = "atomT_name" -> ExitAtomT_name(s)
    [] r = "power" -> ExitPower(s, w)
    [] r = "unaryTerm" -> ExitUnaryTerm(s, w)
    [] r = "termT" -> ExitTermT(s)
    [] r = "binexprT" -> ExitBinexprT(s)
    [] r = "if_one_liner" -> ExitIf_one_liner(s)
    [] r = "else_block_stmt" -> ExitElse_block_stmt(s)
    [] r = "control_item" -> ExitControl_item(s)
    [] r = "final_else" -> ExitFinal_else(s)
    [] r = "ifvar" -> ExitIfvar(s)
    [] r = "expr_simple_assign" -> ExitExpr_simple_assign(s)
    [] r = "expr_let_statement" -> ExitExpr_let_statement(s)
    [] r = "expr_table_of_statement" -> ExitExpr_table_of_statement(s)
    [] r = "expr_dot_assign" -> ExitExpr_dot_assign(s)
    [] r = "template_expression" -> ExitTemplate_expression(s, w)
    [] r = "template_statement" -> ExitTemplate_statement(s)
    [] r = "expr_inject_stmt" -> ExitExpr_inject_stmt(s)
    [] r = "transform_return_type" -> ExitTransform_return_type(s, w)
    [] r = "transform_arg" -> ExitTransform_arg(s)
    [] r = "transform" -> ExitTransform(s)
    [] r = "view_param" -> ExitView_param(s)
    [] r = "view" -> ExitView(s, w)
    [] r = "alias" -> ExitAlias(s, w)
    [] r = "app_decl" -> ExitApp_decl(s, w)
    [] r = "set_type" -> exitSetOrSequence_type(s, w)
    [] r = "sequence_type" -> exitSetOrSequence_type(s, w)
    [] r = "simple_endpoint" -> ExitEndpoint(s, w)
    [] r = "event" -> ExitEndpoint(s, w)
    [] r = "subscribe" -> ExitEndpoint(s, w)
    [] r = "collector_stmts" -> ExitStatements(s, w)
    [] r \in {"expr_rel", "expr_bitand", "expr_bitxor", "expr_bitor", "expr_and", "expr_or", "expr_but_not",
              "expr_coalesce"} -> reverseOp(s, w, r)
    [] OTHER -> s

\* What is above decides which of two callbacks it is and who else is concerned.
Entered(s, r, w) ==
  CASE r = "name_with_attribs" -> EnterName_with_attribs(s)
    [] r = "subscribe" -> EnterSubscribe(s, w)
    [] OTHER -> {Enter(s, r, w)}

Words(r) == IF r \in Open /\ detours > 0 THEN Grammar[r] ELSE {Plain[r]}

\* A frame keeps its word only if a callback asks for it.
Frame(r, w) ==
  [rule |-> r, word |-> IF r \in LooksBack THEN w ELSE <<>>, rest |-> w,
   base |-> IF r = "expr" THEN Len(listener.exprs) ELSE 0]

\* The next child that is a node of its own is the n-th of rest; nobody listens to tokens.
NextIs(rest, n) == rest[n] \in Rules /\ \A m \in 1..(n - 1) : rest[m] \notin Rules

EnterRule ==
  /\ Live(listener)
  /\ open # <<>>
  /\ LET rest == Top(open).rest
     IN  \E n \in 1..Len(rest) :
           /\ NextIs(rest, n)
           /\ \E w \in Words(rest[n]) :
                /\ listener' \in Entered(listener, rest[n], w)
                /\ open' = Append([open EXCEPT ![Len(open)].rest = SubSeq(@, n + 1, Len(@))],
                                  Frame(rest[n], w))
                /\ detours' = IF w = Plain[rest[n]] THEN detours ELSE detours - 1

ExitRule ==
  /\ Live(listener)
  /\ open # <<>> /\ \A n \in 1..Len(Top(open).rest) : ~NextIs(Top(open).rest, n)
  /\ listener' = Exit(listener, Top(open).rule, Top(open).word)
  /\ open' = IF Live(listener') THEN Pop(open) ELSE open
  /\ UNCHANGED detours

Next == EnterRule \/ ExitRule

Spec == Init /\ [][Next]_vars

-----------------------------------------------------------------------------
\* Properties

Frames == [rule: Rules \cup {"file"}, word: Seq(Symbols), rest: Seq(Symbols), base: Nat]

\* The listener and the stack of open rules have their types.
TypeOK ==
  /\ open \in Seq(Frames)
  /\ detours \in 0..Detours
  /\ listener \in Listener

\* The open rules that are among these, and how many they are.
Among(rules) == {i \in 1..Len(open) : open[i].rule \in rules}
Opened(rules) == Cardinality(Among(rules))

\* The rules whose Enter callback pushes a scope, some only if they have such a child.
Scoping ==
  {"table", "union", "method_def", "if_stmt", "else_stmt", "for_stmt", "group_stmt",
   "one_of_cases", "one_of_stmt"}
ScopedFor ==
  [app_decl |-> "annotation", alias |-> "annotation", field_type |-> "annotations",
   simple_endpoint |-> "statements", event |-> "statements", subscribe |-> "statements",
   collector |-> "collector_stmts"]

HasScope(f) ==
  f.rule \in Scoping \/ (f.rule \in DOMAIN ScopedFor /\ Has(f.word, ScopedFor[f.rule]))

\* The first n of the open rules that have a scope.
Scoped(n) == {i \in 1..n : HasScope(open[i])}

\* The rules whose scope the element of a set or a sequence may be put in place of: those of the
\* field or the alias itself, and what is around a field, a parameter or an alias.
Displaced ==
  {"field_type", "alias", "table", "app_decl", "method_def", "simple_endpoint", "event"}

(***************************************************************************)
(* stmt_scope has one entry for each open rule that pushes one, in their   *)
(* order, so that after the walk of an application nothing is left.  The   *)
(* entry is that rule's; only in seven rules it may be the new type that a *)
(* set or a sequence with attributes has pushed after it popped whatever   *)
(* was on top (exitSetOrSequence_type): the type of the field or the alias *)
(* itself, or, if that has no annotations and so no scope of its own, one  *)
(* in the place of the rule around it, to which later annotations of that  *)
(* rule go although the field is closed (AnnotationsGoToTheirType).  That  *)
(* is a type, which takes no statements, and never happens inside of a     *)
(* block of statements, a union, a collector or a subscription: a          *)
(* statement is never put into another block than the one it stands in.    *)
(***************************************************************************)
ScopesMirrorRules ==
  Live(listener) =>
    /\ Len(listener.scope) = Cardinality(Scoped(Len(open)))
    /\ \A i \in Scoped(Len(open)) :
         LET by == listener.scope[Cardinality(Scoped(i))].by
         IN  by = open[i].rule \/ (by = "set_type" /\ open[i].rule \in Displaced)

(***************************************************************************)
(* An annotation between the fields of a type is one of that type          *)
(* (TestAttrScope).  It does not hold: see ScopesMirrorRules.              *)
(***************************************************************************)
AnnotationsGoToTheirType ==
  LET n == Len(open)
  IN  (Live(listener) /\ n > 1 /\ open[n].rule = "annotation" /\ open[n - 1].rule = "table_stmts")
        => Top(listener.scope).by = "table"

(***************************************************************************)
(* currentTypePath is the path of the types that are open, a rest endpoint *)
(* has its attributes and, once its path is read, its prefix of the URL,   *)
(* and endpointName is a REST method's just inside of it (the doc strings  *)
(* of a text statement ask for that).  A path variable belongs to a rest   *)
(* endpoint that is still open: it is never given to a method of another   *)
(* path.                                                                   *)
(***************************************************************************)
PathsMirrorRules ==
  Live(listener) =>
    LET rests == Opened({"rest_endpoint"})
    IN  /\ Len(listener.types) = Opened({"table", "union", "alias", "inplace_tuple"})
        /\ listener.rest_attrs = rests /\ Len(listener.rest_urlparams_len) = rests
        /\ listener.urlPrefixes \in {rests - 1, rests}
        /\ Opened({"http_path", "method_def"}) > 0
             => listener.urlPrefixes = rests - Opened({"http_path"})
        /\ \A i \in 1..Len(listener.rest_urlparams) : listener.rest_urlparams[i] <= rests
        /\ (listener.endpoint = "rest") <=> (Opened({"method_def"}) > 0)

(***************************************************************************)
(* A field is put into the fields of the innermost type that is open,      *)
(* whatever types were opened and closed before it (listener_impl.go:570). *)
(***************************************************************************)
FieldsGoToTheirType ==
  LET f == Top(open)
  IN  (Live(listener) /\ open # <<>> /\ f.rule = "field" /\ f.rest = f.word
         /\ listener.types # <<>>)
        => listener.field.top = Top(listener.types).map

(***************************************************************************)
(* An expression leaves exactly one value on expr_stack, where it found it *)
(* when it was entered, whatever operators, functions and transforms it is *)
(* made of; outside of views the stack is empty.                           *)
(***************************************************************************)
ExprsLeaveOneValue ==
  Live(listener) =>
    /\ (open # <<>> /\ Top(open).rule = "expr" /\ Top(open).rest = <<>>)
         => Len(listener.exprs) = Top(open).base + 1
    /\ Opened({"view"}) = 0 => listener.exprs = <<>>

(***************************************************************************)
(* The callbacks that panic although the parser took the file, each with   *)
(* rules of which one is open then (the README says how).  All others      *)
(* always find on the stacks what they look for: so "something is wrong"   *)
(* (listener_impl.go:1719) is never said.                                  *)
(***************************************************************************)
KnownPanics ==
  [peekAttrs |-> {"statements"}, EnterAnnotation |-> {"statements"},
   ExitStatements |-> {"statements"}, EnterText_stmt |-> {"method_def"},
   EnterField |-> {"table_stmts", "param_list"}, ExitField |-> {"field"},
   applyAnnotations |-> {"table", "union"}, EnterUnion |-> {"union"},
   EnterUser_defined_type |-> {"union"}, popScope |-> {"set_type", "sequence_type"},
   addToCurrentScope |-> {"simple_endpoint", "method_def", "event"},
   lastStatement |-> {"simple_endpoint", "method_def", "event"},
   makeConstraint |-> {"field_type", "set_type", "sequence_type"},
   EnterInplace_tuple |-> {"param_list"}, EnterParam |-> {"param_list"},
   ExitParams |-> {"params"}, EnterHttp_path_var_with_type |-> {"http_path"},
   EnterModel_name |-> {"facade"}, EnterSubscribe |-> {"subscribe"}, ExitView |-> {"view"},
   ExitTemplate_expression |-> {"template_statement"},
   ExitTemplate_statement |-> {"template_statement"},
   ExitExpr_simple_assign |-> {"expr_simple_assign"},
   ExitExpr_let_statement |-> {"expr_let_statement"},
   ExitExpr_table_of_statement |-> {"expr_table_of_statement"}]

PanicsOnlyKnown ==
  ~Live(listener) =>
    /\ listener.panic \in DOMAIN KnownPanics
    /\ Opened(KnownPanics[listener.panic]) > 0
=============================================================================
