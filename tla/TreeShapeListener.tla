------------------------- MODULE TreeShapeListener -------------------------
(***************************************************************************)
(* The callbacks of the listener that builds a module while a parse tree   *)
(* is walked (pkg/parse/listener_impl.go), as functions from its state to  *)
(* its state.  Each takes the state s and, if it asks the node for its     *)
(* children, the word w of the node (SyslGrammar).                         *)
(*                                                                         *)
(* The listener keeps stacks: what one callback pushes another one, in     *)
(* another place of the grammar, expects on top.  The state holds the      *)
(* shape of the stacks and not the data that is built:                     *)
(*   scope       stmt_scope; an entry has the kind of the object, whether  *)
(*               its map of attributes exists, what its last statement is, *)
(*               and the rule whose callback pushed it                     *)
(*   types       currentTypePath and the types it names: the kind, the map *)
(*               of fields, whether annotations are to be copied to them   *)
(*   typemap     the map that fields go to, as a number; 0 is the nil map  *)
(*   field       fieldname: the maps of all names in it, the map of the    *)
(*               last one (0 if there is none), and of the type under that *)
(*               name whether it has attributes and which native type it is*)
(*   nativeSet   a parameter of the list is a set of a native type         *)
(*   exprs       expr_stack, as kinds of expression                        *)
(*   urlPrefixes, rest_attrs   how many there are                          *)
(*   rest_urlparams, rest_urlparams_len   for each variable of the path    *)
(*               the nesting of the endpoint it comes from; the lengths    *)
(*   endpoint    what Endpoints[endpointName] is                           *)
(*   pendingDocString, returns (the view has "view-return")                *)
(*   apps, app   of each application which of its maps exist, and how far  *)
(*               its facade is; the current one                            *)
(*   panic       the callback that panicked, "" while none has             *)
(* The callbacks of views and expressions are in ExprListener.             *)
(* Names of types, fields and endpoints are taken to be distinct, and the  *)
(* panics for a table or a union that is declared twice are left out; an   *)
(* application may be declared again.                                      *)
(*                                                                         *)
(* An operator named Mut... is a wrong variant of the operator after it    *)
(* that nothing uses: put in its place, it shows that a property of        *)
(* SyslWalk tells the two apart.                                           *)
(***************************************************************************)
EXTENDS Naturals, Sequences, FiniteSets

Has(w, a) == \E i \in 1..Len(w) : w[i] = a

HasAny(w, A) == \E a \in A : Has(w, a)

Top(stack) == stack[Len(stack)]

Pop(stack) == SubSeq(stack, 1, Len(stack) - 1)

Live(s) == s.panic = ""

\* What the callback of that name does to the process when it fails.
Panic(s, callback) == IF Live(s) THEN [s EXCEPT !.panic = callback] ELSE s

Blocks == {"Endpoint", "Cond", "Group", "Choice", "Loop", "Foreach"}
Annotated == {"Application", "Type", "Endpoint"}

NoFields == [all |-> {}, top |-> 0, attrs |-> FALSE, prim |-> ""]

NewApp == [types |-> FALSE, endpoints |-> FALSE, wrapped |-> "no"]

NewTreeShapeListener ==
  [scope |-> <<>>, types |-> <<>>, typemap |-> 0, field |-> NoFields, nativeSet |-> FALSE,
   exprs |-> <<>>, urlPrefixes |-> 0, rest_attrs |-> 0, rest_urlparams |-> <<>>,
   rest_urlparams_len |-> <<>>, endpoint |-> "", pendingDocString |-> FALSE, returns |-> FALSE,
   apps |-> <<>>, app |-> 0, panic |-> ""]

currentApp(s) == s.apps[s.app]

Statements == {"call", "action", "text", "other"}

\* What an expression can be (ExprListener).
AnyExpr == {"value", "call", "relexpr", "binexpr", "navigate", "set", "list", "transform",
            "ifelse", "ifvar"}

-----------------------------------------------------------------------------
\* The states of the listener

\* The rules whose callbacks push a scope.
Scopers ==
  {"table", "union", "field_type", "alias", "app_decl", "method_def", "simple_endpoint", "event",
   "subscribe", "collector", "if_stmt", "else_stmt", "for_stmt", "group_stmt", "one_of_cases",
   "one_of_stmt", "set_type"}

ScopeEntry ==
  [kind: Blocks \cup Annotated \cup {"Alt"}, attrs: BOOLEAN, last: Statements \cup {""}, by: Scopers]
TypeEntry == [kind: {"tuple", "relation", "oneof", "empty"}, map: Nat, noted: BOOLEAN]
FieldEntry ==
  [all: {A \in SUBSET Nat : IsFiniteSet(A)}, top: Nat, attrs: BOOLEAN,
   prim: {"", "sized", "unsized", "nativeSet"}]
AppEntry == [types: BOOLEAN, endpoints: BOOLEAN, wrapped: {"no", "made", "named"}]

\* The callbacks, and what they call, that can fail; reverseOp fails by the name of its rule.
Callbacks ==
  {"EnterAlias", "EnterAnnotation", "EnterCall_arg", "EnterDoc_string", "EnterExpr_agg_func",
   "EnterExpr_first_func", "EnterExpr_matching", "EnterExpr_navigate", "EnterExpr_rank_func",
   "EnterField", "EnterField_type", "EnterHttp_path_var_with_type", "EnterInplace_tuple",
   "EnterModel_name", "EnterOne_of_cases", "EnterParam", "EnterReference", "EnterSquiggly_args",
   "EnterSubscribe", "EnterTable", "EnterText_stmt", "EnterTransform_return_type",
   "EnterTransform_scope_var", "EnterTypes", "EnterUnion", "EnterUser_defined_type",
   "EnterView_param", "EnterView_return_type", "ExitBinexprT", "ExitControl_item",
   "ExitE_scope_var", "ExitElse_block_stmt", "ExitExpr_agg_func", "ExitExpr_any_func",
   "ExitExpr_count", "ExitExpr_dot_assign", "ExitExpr_first_func", "ExitExpr_inject_stmt",
   "ExitExpr_let_statement", "ExitExpr_list", "ExitExpr_matching", "ExitExpr_navigate_attr",
   "ExitExpr_rank_func", "ExitExpr_simple_assign", "ExitExpr_single_arg_func",
   "ExitExpr_single_or_null", "ExitExpr_snapshot", "ExitExpr_table_of_op",
   "ExitExpr_table_of_statement", "ExitField", "ExitFinal_else", "ExitFirst_func_target",
   "ExitFunc_arg", "ExitHttp_path_var_with_type", "ExitIf_one_liner", "ExitIfvar",
   "ExitList_item", "ExitParam", "ExitParams", "ExitPower", "ExitRank_expr", "ExitReference",
   "ExitRest_endpoint", "ExitStatements", "ExitSubscriber", "ExitTarget",
   "ExitTemplate_expression", "ExitTemplate_statement", "ExitTermT", "ExitTransform",
   "ExitTransform_arg", "ExitTransform_return_type", "ExitUnaryTerm", "ExitView",
   "ExitView_param", "ExitView_type_spec", "addToCurrentScope", "applyAnnotations",
   "exitSetOrSequence_type", "lastStatement", "makeConstraint", "peekAttrs", "popScope",
   "expr_rel", "expr_bitand", "expr_bitxor", "expr_bitor", "expr_and", "expr_or",
   "expr_but_not", "expr_coalesce"}

Listener ==
  {s \in [scope: Seq(ScopeEntry), types: Seq(TypeEntry), typemap: Nat, field: FieldEntry,
          nativeSet: BOOLEAN, exprs: Seq(AnyExpr), urlPrefixes: Nat, rest_attrs: Nat,
          rest_urlparams: Seq(Nat), rest_urlparams_len: Seq(Nat),
          endpoint: {"", "path", "rest", "plain"}, pendingDocString: BOOLEAN, returns: BOOLEAN,
          apps: Seq(AppEntry), app: Nat, panic: {""} \cup Callbacks] :
     s.app <= Len(s.apps)}

-----------------------------------------------------------------------------
\* The stack of scopes

TopKind(s) == IF s.scope = <<>> THEN "" ELSE Top(s.scope).kind

pushScope(s, kind, attrs, rule) ==
  [s EXCEPT !.scope = Append(@, [kind |-> kind, attrs |-> attrs, last |-> "", by |-> rule])]

popScope(s) == IF s.scope = <<>> THEN Panic(s, "popScope") ELSE [s EXCEPT !.scope = Pop(@)]

addToCurrentScope(s, stmt) ==
  IF TopKind(s) \in Blocks
    THEN [s EXCEPT !.scope[Len(s.scope)].last = stmt]
    ELSE Panic(s, "addToCurrentScope")

\* The last statement has to be one of stmts (the nil statement is "").
lastStatement(s, stmts, callback) ==
  IF TopKind(s) \notin Blocks THEN Panic(s, "lastStatement")
  ELSE IF Top(s.scope).last \in stmts THEN s ELSE Panic(s, callback)

peekAttrs(s) == IF TopKind(s) \in Annotated THEN s ELSE Panic(s, "peekAttrs")

-----------------------------------------------------------------------------
\* The types and their fields

\* A map nobody has: neither a field name nor a type refers to it.
NewMap(s) ==
  LET used == s.field.all \cup {s.types[i].map : i \in 1..Len(s.types)}
  IN  CHOOSE n \in 1..(Cardinality(used) + 1) : n \notin used

FreshTypemap(s) == [s EXCEPT !.field = NoFields, !.typemap = NewMap([s EXCEPT !.field = NoFields])]

\* fieldname gets one more name, and the map an empty type for it.
AddField(s, callback) ==
  IF s.typemap = 0
    THEN Panic(s, callback)
    ELSE [s EXCEPT !.field = [NoFields EXCEPT !.top = s.typemap,
                                              !.all = s.field.all \cup {s.typemap}]]

\* There is a type under the last field name.
CurrentType(s, callback) ==
  IF s.field.top # 0 /\ s.field.top = s.typemap THEN s ELSE Panic(s, callback)

SomeField(s, callback) == IF s.field.top = 0 THEN Panic(s, callback) ELSE s

PushType(s, kind) ==
  LET m == NewMap(s)
  IN  [s EXCEPT !.types = Append(@, [kind |-> kind, map |-> m, noted |-> FALSE]), !.typemap = m]

\* Each field in fieldname is looked up in the type and gets its annotations.
applyAnnotations(s, noted) ==
  LET t == Top(s.types)
      fields == IF t.kind \in {"tuple", "relation"} THEN {t.map} ELSE {}
  IN  IF noted /\ ~(s.field.all \subseteq fields) THEN Panic(s, "applyAnnotations") ELSE s

PopType(s) == [s EXCEPT !.types = Pop(@), !.field = NoFields, !.typemap = 0]

EnterReference(s) == CurrentType(s, "EnterReference")

ExitReference(s) == CurrentType(s, "ExitReference")

EnterTypes(s, w) ==
  IF HasAny(w, {"Sized", "Unsized"})
    THEN [CurrentType(s, "EnterTypes") EXCEPT
            !.field.prim = IF Has(w, "Sized") THEN "sized" ELSE "unsized"]
    ELSE SomeField(s, "EnterTypes")

\* makeTypeConstraint and makeArrayConstraint know only the sized types.
MakeConstraint(s, asked) ==
  IF asked /\ s.field.prim = "unsized" THEN Panic(s, "makeConstraint") ELSE s

\* The type of the field becomes the element of a new one, which takes its
\* attributes and, when there are any, its place in the scope.
exitSetOrSequence_type(s, w) ==
  LET a == CurrentType(s, "exitSetOrSequence_type")
      b == IF s.field.attrs THEN pushScope(popScope(a), "Type", TRUE, "set_type") ELSE a
  IN  [MakeConstraint(b, Has(w, "size_spec")) EXCEPT
        !.field.prim = IF Has(w, "set_of") /\ @ # "" THEN "nativeSet" ELSE ""]

EnterUser_defined_type(s) ==
  IF s.field.top = 0 THEN s ELSE CurrentType(s, "EnterUser_defined_type")

EnterField_type(s, w) ==
  LET a == [CurrentType(s, "EnterField_type") EXCEPT
              !.field.attrs = HasAny(w, {"attribs_or_modifiers", "annotations"})]
  IN  IF Has(w, "annotations") THEN pushScope(a, "Type", TRUE, "field_type") ELSE a

ExitField_type(s, w) ==
  LET a == MakeConstraint(s, HasAny(w, {"size_spec", "array_size"}))
  IN  IF Has(w, "annotations") THEN popScope(a) ELSE a

EnterInplace_tuple(s) ==
  IF currentApp(s).types THEN PushType(s, "tuple") ELSE Panic(s, "EnterInplace_tuple")

MutExitInplace_tuple(s) == [s EXCEPT !.types = Pop(@)]

\* The fields of the type around it come next; only a tuple has them here.
ExitInplace_tuple(s) ==
  LET outer == Pop(s.types)
  IN  [s EXCEPT !.types = outer,
                !.typemap = IF outer # <<>> /\ Top(outer).kind = "tuple" THEN Top(outer).map ELSE 0]

EnterField(s) == AddField(s, "EnterField")

\* An array replaces the type under the name by a list of it.
ExitField(s, w) ==
  IF ~Has(w, "array_size") THEN s
  ELSE IF s.typemap = 0 THEN Panic(s, "ExitField") ELSE [s EXCEPT !.field.prim = ""]

\* The type loses its fields when there are none in its declaration.
EmptyType(s) == [s EXCEPT !.types[Len(s.types)].kind = "empty"]

TypeAttrs(s) == [s EXCEPT !.scope[Len(s.scope)].attrs = TRUE]

EnterTable_stmts(s, w) ==
  LET a == IF Has(w, "annotation") THEN [TypeAttrs(s) EXCEPT !.types[Len(s.types)].noted = TRUE] ELSE s
  IN  IF Has(w, "field") THEN a ELSE EmptyType(a)

EnterTable_def(s, w) ==
  LET a == IF Has(w, "attribs_or_modifiers") THEN TypeAttrs(s) ELSE s
  IN  IF Has(w, "WHATEVER") THEN EmptyType(a) ELSE a

EnterTable(s, w) ==
  IF ~currentApp(s).types THEN Panic(s, "EnterTable")
  ELSE pushScope(PushType(s, IF Has(w, "TABLE") THEN "relation" ELSE "tuple"), "Type", FALSE, "table")

ExitTable(s) ==
  LET a == popScope(applyAnnotations(s, Top(s.types).noted)) IN IF Live(a) THEN PopType(a) ELSE a

EnterUnion(s, w) ==
  IF ~currentApp(s).types THEN Panic(s, "EnterUnion")
  ELSE pushScope(PushType(s, "oneof"), "Type",
                 HasAny(w, {"attribs_or_modifiers", "annotation"}), "union")

ExitUnion(s, w) ==
  LET a == popScope(applyAnnotations(s, Has(w, "annotation"))) IN IF Live(a) THEN PopType(a) ELSE a

\* The path of the type is also the name of its only field.
EnterAlias(s, w) ==
  LET a == AddField(PushType([s EXCEPT !.field = NoFields], "empty"), "EnterAlias")
      b == [a EXCEPT !.field.attrs = HasAny(w, {"attribs_or_modifiers", "annotation"})]
  IN  IF ~currentApp(s).types THEN Panic(s, "EnterAlias")
      ELSE IF Has(w, "annotation") THEN pushScope(b, "Type", TRUE, "alias") ELSE b

ExitAlias(s, w) ==
  LET a == FreshTypemap([s EXCEPT !.types = Pop(@)])
  IN  IF Has(w, "annotation") THEN popScope(a) ELSE a

EnterAnnotation(s) ==
  IF Live(peekAttrs(s)) /\ ~Top(s.scope).attrs THEN Panic(s, "EnterAnnotation") ELSE peekAttrs(s)

EnterAnnotation_value(s) == peekAttrs(s)

-----------------------------------------------------------------------------
\* Applications

MutEnterName_with_attribs(s) == {[s EXCEPT !.app = i] : i \in 1..(Len(s.apps) + 1)}

\* The name is that of an application that is known or of a new one.
EnterName_with_attribs(s) ==
  {[s EXCEPT !.app = i] : i \in 1..Len(s.apps)}
    \cup {[s EXCEPT !.apps = Append(@, NewApp), !.app = Len(s.apps) + 1]}

EnterApp_decl(s, w) ==
  LET app == currentApp(s)
      a == [s EXCEPT
             !.apps[s.app] =
               [types |-> app.types \/ HasAny(w, {"table", "alias", "enum"}),
                endpoints |-> \/ app.endpoints
                             \/ HasAny(w, {"simple_endpoint", "rest_endpoint", "event", "subscribe",
                                           "collector"}),
                wrapped |-> IF app.wrapped = "no" /\ Has(w, "facade") THEN "made" ELSE app.wrapped],
             !.rest_attrs = 0, !.typemap = NewMap(s)]
  IN  IF Has(w, "annotation") THEN pushScope(a, "Application", TRUE, "app_decl") ELSE a

ExitApp_decl(s, w) == IF Has(w, "annotation") THEN popScope(s) ELSE s

EnterModel_name(s) ==
  IF currentApp(s).wrapped = "named" THEN Panic(s, "EnterModel_name")
  ELSE [s EXCEPT !.apps[s.app].wrapped = "named"]

-----------------------------------------------------------------------------
\* Endpoints

\* A variable of the path with a reference for its type is put among the fields.
EnterHttp_path_var_with_type(s, w) ==
  [IF Has(w, "reference") THEN AddField(s, "EnterHttp_path_var_with_type") ELSE s EXCEPT
    !.rest_urlparams = Append(@, Len(s.rest_urlparams_len))]

ExitHttp_path_var_with_type(s, w) ==
  IF Has(w, "reference") THEN CurrentType(s, "ExitHttp_path_var_with_type") ELSE s

EnterHttp_path(s) == [s EXCEPT !.endpoint = "path"]

ExitHttp_path(s) == [s EXCEPT !.urlPrefixes = @ + 1]

EnterRest_endpoint(s) ==
  [s EXCEPT !.rest_urlparams_len = Append(@, Len(s.rest_urlparams)), !.rest_attrs = @ + 1]

MutExitRest_endpoint(s) ==
  IF s.urlPrefixes = 0 \/ s.rest_attrs # s.urlPrefixes THEN Panic(s, "ExitRest_endpoint")
  ELSE [s EXCEPT !.urlPrefixes = @ - 1, !.rest_attrs = @ - 1, !.rest_urlparams_len = Pop(@)]

ExitRest_endpoint(s) ==
  IF s.urlPrefixes = 0 \/ s.rest_attrs # s.urlPrefixes THEN Panic(s, "ExitRest_endpoint")
  ELSE [s EXCEPT !.urlPrefixes = @ - 1, !.rest_attrs = @ - 1,
                 !.rest_urlparams = SubSeq(@, 1, Top(s.rest_urlparams_len)),
                 !.rest_urlparams_len = Pop(@)]

EnterMethod_def(s) == pushScope([s EXCEPT !.endpoint = "rest"], "Endpoint", TRUE, "method_def")

ExitMethod_def(s) == [popScope(s) EXCEPT !.endpoint = ""]

EnterSimple_endpoint(s, w) ==
  IF Has(w, "WHATEVER") THEN s
  ELSE LET a == [s EXCEPT !.endpoint = "plain"]
       IN  IF Has(w, "statements") THEN pushScope(a, "Endpoint", TRUE, "simple_endpoint") ELSE a

\* ExitSimple_endpoint, ExitEvent and ExitSubscribe
ExitEndpoint(s, w) ==
  [IF Has(w, "statements") THEN popScope(s) ELSE s EXCEPT !.endpoint = ""]

EnterCollector(s, w) ==
  IF Has(w, "collector_stmts") THEN pushScope(s, "Endpoint", TRUE, "collector") ELSE s

ExitCollector(s, w) == IF Has(w, "collector_stmts") THEN popScope(s) ELSE s

MutEnterEvent(s, w) == pushScope([s EXCEPT !.endpoint = "plain"], "Endpoint", TRUE, "event")

\* Only its attributes give the endpoint of an event a map of them.
EnterEvent(s, w) ==
  LET a == [s EXCEPT !.endpoint = "plain"]
  IN  IF Has(w, "statements")
        THEN pushScope(a, "Endpoint", Has(w, "attribs_or_modifiers"), "event") ELSE a

\* The event is added to the application it comes from, which is made if nobody knows it.
EnterSubscribe(s, w) ==
  LET a == [s EXCEPT !.endpoint = "plain"]
      b == IF Has(w, "statements")
             THEN pushScope(a, "Endpoint", Has(w, "attribs_or_modifiers"), "subscribe") ELSE a
  IN  {IF s.apps[i].endpoints THEN b ELSE Panic(b, "EnterSubscribe") : i \in 1..Len(s.apps)}
        \cup {[b EXCEPT !.apps = Append(@, [NewApp EXCEPT !.endpoints = TRUE])]}

EnterParams(s) == [FreshTypemap(s) EXCEPT !.nativeSet = FALSE]

EnterParam(s, w) == IF Has(w, "reference") THEN AddField(s, "EnterParam") ELSE s

ExitParam(s, w) ==
  [IF Has(w, "reference") THEN CurrentType(s, "ExitParam") ELSE SomeField(s, "ExitParam") EXCEPT
    !.nativeSet = @ \/ s.field.prim = "nativeSet"]

\* Every name must have a type, and the element of a set has to be a reference.
ExitParams(s) ==
  IF ~(s.field.all \subseteq {s.typemap}) \/ s.nativeSet THEN Panic(s, "ExitParams")
  ELSE [s EXCEPT !.field = NoFields, !.typemap = 0]

-----------------------------------------------------------------------------
\* Statements

EnterRet_stmt(s) == addToCurrentScope(s, "other")

EnterCall_stmt(s) == addToCurrentScope(s, "call")

ExitTarget(s) == lastStatement(s, {"call"}, "ExitTarget")

ExitSubscriber(s) == lastStatement(s, {"call"}, "ExitSubscriber")

EnterCall_arg(s) == lastStatement(s, {"call"}, "EnterCall_arg")

EnterCollector_call_stmt(s) == addToCurrentScope(s, "call")

EnterCollector_pubsub_call(s) == addToCurrentScope(s, "call")

EnterCollector_http_stmt(s) == addToCurrentScope(s, "action")

EnterCollector_action_stmt(s) == addToCurrentScope(s, "action")

\* A statement that has statements of its own becomes the scope of them.
EnterBlock(s, kind, rule) ==
  LET a == addToCurrentScope(s, "other") IN IF Live(a) THEN pushScope(a, kind, FALSE, rule) ELSE a

EnterIf_stmt(s) == EnterBlock(s, "Cond", "if_stmt")

EnterElse_stmt(s) == EnterBlock(s, "Group", "else_stmt")

EnterFor_stmt(s, w) ==
  EnterBlock(s, IF HasAny(w, {"UNTIL", "WHILE"}) THEN "Loop"
                ELSE IF Has(w, "FOR_EACH") THEN "Foreach" ELSE "Group", "for_stmt")

EnterGroup_stmt(s) == EnterBlock(s, "Group", "group_stmt")

EnterOne_of_stmt(s) == EnterBlock(s, "Alt", "one_of_stmt")

\* ExitIf_stmt, ExitElse_stmt, ExitFor_stmt, ExitGroup_stmt, ExitOne_of_cases, ExitOne_of_stmt
ExitBlock(s) == popScope(s)

EnterOne_of_cases(s) ==
  IF TopKind(s) = "Alt" THEN pushScope(s, "Choice", FALSE, "one_of_cases")
  ELSE Panic(s, "EnterOne_of_cases")

\* What a doc string is for at the start of a REST endpoint; the scope must be the endpoint.
DocStringOf(s, statement, callback) ==
  IF s.endpoint = "rest" /\ TopKind(s) # "Endpoint" THEN Panic(s, callback)
  ELSE IF s.endpoint = "rest" /\ Top(s.scope).last = "" THEN s
  ELSE statement

EnterText_stmt(s, w) ==
  LET pending == [s EXCEPT !.pendingDocString = TRUE]
      added == IF TopKind(s) \in Blocks /\ Top(s.scope).last = "text" THEN pending
               ELSE addToCurrentScope(pending, "text")
  IN  IF Has(w, "doc_string")
        THEN DocStringOf(pending, added, "EnterText_stmt")
        ELSE [addToCurrentScope(s, "action") EXCEPT !.pendingDocString = FALSE]

\* A line of a doc string that is a statement, or of an annotation.
EnterDoc_string(s) ==
  LET taken == [s EXCEPT !.pendingDocString = FALSE]
  IN  IF s.pendingDocString
        THEN DocStringOf(taken, lastStatement(taken, {"text", "action"}, "EnterDoc_string"),
                         "EnterDoc_string")
        ELSE peekAttrs(s)

\* ExitStatements and ExitCollector_stmts: the attributes go to the last statement.
ExitStatements(s, w) ==
  IF Has(w, "attribs_or_modifiers") THEN lastStatement(s, Statements, "ExitStatements") ELSE s
=============================================================================
