--------------------------- MODULE ListenerTerms ---------------------------
(***************************************************************************)
(* The terms in which ListenerProofs and SyslWalkProofs speak of the       *)
(* callbacks and of the grammar: what a callback may change of a state, and*)
(* which symbols may stand in the words of a rule (Alphabet), in which     *)
(* order, how often, and with how many values on expr_stack.               *)
(***************************************************************************)
EXTENDS SyslWalk

\* The scopes belong to the same rules; there is one more, of rule r; there is one less.
SameScope(s, t) ==
  /\ Len(t.scope) = Len(s.scope)
  /\ \A i \in 1..Len(s.scope) : t.scope[i].by = s.scope[i].by

PushedScope(s, t, r) ==
  /\ Len(t.scope) = Len(s.scope) + 1
  /\ \A i \in 1..Len(s.scope) : t.scope[i].by = s.scope[i].by
  /\ t.scope[Len(s.scope) + 1].by = r

PoppedScope(s, t) ==
  /\ Len(s.scope) = Len(t.scope) + 1
  /\ \A i \in 1..Len(t.scope) : t.scope[i].by = s.scope[i].by

\* The same for the open types and their maps; a new type has the map that fields go to.
SameTypes(s, t) ==
  /\ Len(t.types) = Len(s.types)
  /\ \A i \in 1..Len(s.types) : t.types[i].map = s.types[i].map

PushedType(s, t) ==
  /\ Len(t.types) = Len(s.types) + 1
  /\ \A i \in 1..Len(s.types) : t.types[i].map = s.types[i].map
  /\ t.typemap = t.types[Len(s.types) + 1].map

PoppedType(s, t) ==
  /\ Len(t.types) = IF s.types = <<>> THEN 0 ELSE Len(s.types) - 1
  /\ \A i \in 1..Len(t.types) : t.types[i].map = s.types[i].map

SamePaths(s, t) ==
  /\ t.urlPrefixes = s.urlPrefixes
  /\ t.rest_attrs = s.rest_attrs
  /\ t.rest_urlparams = s.rest_urlparams
  /\ t.rest_urlparams_len = s.rest_urlparams_len

\* All is as before.
Stays(s, t) ==
  /\ t \in Listener
  /\ Live(t) => /\ Live(s)
                /\ SameScope(s, t)
                /\ SameTypes(s, t) /\ t.typemap = s.typemap
                /\ SamePaths(s, t) /\ t.endpoint = s.endpoint

\* All but the scopes is as before.
Pushes(s, t, r) ==
  /\ t \in Listener
  /\ Live(t) => /\ Live(s)
                /\ PushedScope(s, t, r)
                /\ SameTypes(s, t) /\ t.typemap = s.typemap
                /\ SamePaths(s, t) /\ t.endpoint = s.endpoint

Drops(s, t) ==
  /\ t \in Listener
  /\ Live(t) => /\ Live(s)
                /\ PoppedScope(s, t)
                /\ SameTypes(s, t) /\ t.typemap = s.typemap
                /\ SamePaths(s, t) /\ t.endpoint = s.endpoint

-----------------------------------------------------------------------------
\* The stack of types

\* A type is pushed; only the map that fields go to is another.
PushesType(s, t) ==
  /\ t \in Listener
  /\ Live(t) => /\ Live(s)
                /\ SameScope(s, t)
                /\ PushedType(s, t)
                /\ SamePaths(s, t) /\ t.endpoint = s.endpoint

Remaps(s, t) ==
  /\ t \in Listener
  /\ Live(t) => /\ Live(s)
                /\ SameScope(s, t)
                /\ SameTypes(s, t)
                /\ SamePaths(s, t) /\ t.endpoint = s.endpoint

-----------------------------------------------------------------------------
\* The callbacks that open or close a scope or a type

\* The map is that of the innermost type, or none.
OuterMap(t) == t.types # <<>> => t.typemap \in {0, Top(t.types).map}

\* A type and the scope of it at once.
PushesBoth(s, t, r) ==
  /\ t \in Listener
  /\ Live(t) => /\ Live(s)
                /\ PushedScope(s, t, r)
                /\ PushedType(s, t)
                /\ SamePaths(s, t) /\ t.endpoint = s.endpoint

PopsType(s, t) ==
  /\ t \in Listener
  /\ Live(t) => /\ Live(s)
                /\ SameScope(s, t)
                /\ PoppedType(s, t) /\ OuterMap(t)
                /\ SamePaths(s, t) /\ t.endpoint = s.endpoint

PopsBoth(s, t) ==
  /\ t \in Listener
  /\ Live(t) => /\ Live(s)
                /\ PoppedScope(s, t)
                /\ PoppedType(s, t) /\ OuterMap(t)
                /\ SamePaths(s, t) /\ t.endpoint = s.endpoint

\* endpointName is another, and the scopes are as before, one more or one less.
Names(s, t, e) ==
  /\ t \in Listener
  /\ Live(t) => /\ Live(s)
                /\ SameScope(s, t)
                /\ SameTypes(s, t) /\ t.typemap = s.typemap
                /\ SamePaths(s, t) /\ t.endpoint = e

NamesAndPushes(s, t, e, r) ==
  /\ t \in Listener
  /\ Live(t) => /\ Live(s)
                /\ PushedScope(s, t, r)
                /\ SameTypes(s, t) /\ t.typemap = s.typemap
                /\ SamePaths(s, t) /\ t.endpoint = e

NamesAndDrops(s, t, e) ==
  /\ t \in Listener
  /\ Live(t) => /\ Live(s)
                /\ PoppedScope(s, t)
                /\ SameTypes(s, t) /\ t.typemap = s.typemap
                /\ SamePaths(s, t) /\ t.endpoint = e

\* The scopes belong to the same rules, or to the element type of a set or a sequence.
KeptScope(s, t) ==
  /\ Len(t.scope) = Len(s.scope)
  /\ \A i \in 1..Len(s.scope) : t.scope[i].by \in {s.scope[i].by, "set_type"}

-----------------------------------------------------------------------------
\* The stack of expressions

\* Nothing is pushed to it or popped from it.
Quiet(s, t) == "exprs" \in DOMAIN t /\ t.exprs = s.exprs

\* The transforms on the stack are its first k expressions.
Stacked(e, k) == k \in 0..Len(e) /\ \A i \in 1..Len(e) : e[i] = "transform" <=> i <= k

\* The transforms are still the first ones, and there are not more of them.
Settles(s, t) == \A k : Stacked(s.exprs, k) => \E m \in 0..k : Stacked(t.exprs, m)

\* There are n expressions more, none of them a transform.
Shifts(s, t, n) == Live(t) => /\ Live(s)
                              /\ Len(t.exprs) = Len(s.exprs) + n
                              /\ Settles(s, t)

\* The statements of a transform: when they are done, a transform is on top.
OnTransform(s, t, n) == Shifts(s, t, n) /\ (Live(t) => TopIs(t, {"transform"}))

-----------------------------------------------------------------------------
\* The rules by what may stand below them

\* The rules that may have a shallow child, the shallow ones, and those at the top.
Spine ==
  {"file", "sysl_file", "application", "app_decl", "rest_endpoint", "method_def",
   "simple_endpoint", "event"}

Shallow ==
  {"sysl_file", "application", "app_decl", "rest_endpoint", "http_path", "method_def",
   "simple_endpoint", "event", "subscribe", "alias", "view", "params"}

Deep == Symbols \ Shallow

Roots == {"file", "sysl_file", "application", "app_decl"}

TypeRules == {"table", "union", "alias", "inplace_tuple"}

-----------------------------------------------------------------------------
\* The words of the grammar

\* The symbols that stand in the words of a rule.
Alphabet ==
  [modifier |-> {}, size_spec |-> {}, name_str |-> {}, reference |-> {"app_name", "name_str"},
   doc_string |-> {}, quoted_string |-> {}, array_of_strings |-> {"quoted_string"},
   array_of_arrays |-> {"array_of_strings"},
   nvp |-> {"quoted_string", "array_of_strings", "array_of_arrays"},
   entry |-> {"nvp", "modifier"}, attribs_or_modifiers |-> {"entry"},
   user_defined_type |-> {"name_str"},
   types |-> {"user_defined_type", "reference", "Sized", "Unsized"}, set_of |-> {},
   set_type |-> {"set_of", "types", "size_spec"}, sequence_of |-> {},
   sequence_type |-> {"sequence_of", "types", "size_spec"},
   collection_type |-> {"set_type", "sequence_type"}, multi_line_docstring |-> {"doc_string"},
   annotation_value |-> {"QSTRING", "array_of_strings", "multi_line_docstring"},
   annotation |-> {"annotation_value"}, annotations |-> {"annotation"}, array_size |-> {},
   field_type |-> {"collection_type", "types", "array_size", "size_spec",
      "attribs_or_modifiers", "annotations"},
   inplace_tuple |-> {"field"},
   field |-> {"name_str", "array_size", "field_type", "inplace_tuple"},
   inplace_table |-> {"table"},
   table_stmts |-> {"field", "annotation", "inplace_table", "WHATEVER"},
   table_def |-> {"attribs_or_modifiers", "WHATEVER", "table_stmts"},
   table |-> {"TYPE", "TABLE", "name_str", "table_def"},
   union |-> {"name_str", "attribs_or_modifiers", "WHATEVER", "user_defined_type", "annotation"},
   package_name |-> {"name_str"}, sub_package |-> {"package_name"},
   app_name |-> {"package_name", "sub_package"},
   name_with_attribs |-> {"app_name", "attribs_or_modifiers"}, model_name |-> {},
   inplace_table_def |-> {"attribs_or_modifiers"}, table_refs |-> {"inplace_table_def"},
   facade |-> {"model_name", "table_refs"}, var_in_curly |-> {},
   query_var |-> {"NativeDataTypes", "name_str", "var_in_curly"}, query_param |-> {"query_var"},
   http_path_part |-> {"name_str"},
   http_path_var_with_type |-> {"http_path_part", "NativeDataTypes", "name_str", "reference"},
   http_path_static |-> {"http_path_part"},
   http_path_suffix |-> {"http_path_static", "http_path_var_with_type"},
   http_path |-> {"FORWARD_SLASH", "http_path_suffix"}, endpoint_name |-> {"name_str"},
   ret_stmt |-> {}, target |-> {"app_name"}, target_endpoint |-> {"name_str"},
   call_arg |-> {"name_str"}, call_args |-> {"call_arg"},
   call_stmt |-> {"target", "target_endpoint", "call_args"}, if_stmt |-> {"statements"},
   else_stmt |-> {"statements"}, if_else |-> {"if_stmt", "else_stmt"},
   for_stmt |-> {"ALT", "UNTIL", "FOR_EACH", "FOR", "LOOP", "WHILE", "statements"},
   http_method_comment |-> {}, group_stmt |-> {"name_str", "statements"},
   one_of_case_label |-> {}, one_of_cases |-> {"one_of_case_label", "statements"},
   one_of_stmt |-> {"one_of_cases"},
   text_stmt |-> {"doc_string", "QSTRING", "WHATEVER", "app_name", "name_str"},
   mixin |-> {"app_name"}, param |-> {"reference", "field"}, param_list |-> {"param"},
   params |-> {"param_list"},
   statements |-> {"if_else", "for_stmt", "ret_stmt", "call_stmt", "one_of_stmt",
      "http_method_comment", "group_stmt", "text_stmt", "annotation", "attribs_or_modifiers"},
   method_def |-> {"params", "query_param", "attribs_or_modifiers", "statements"},
   shortcut |-> {"WHATEVER"},
   simple_endpoint |-> {"WHATEVER", "endpoint_name", "params", "attribs_or_modifiers",
      "shortcut", "statements"},
   rest_endpoint |-> {"http_path", "attribs_or_modifiers", "method_def", "rest_endpoint"},
   collector_query_var |-> {"name_str", "NativeDataTypes"},
   collector_query_param |-> {"collector_query_var"},
   collector_call_stmt |-> {"target", "target_endpoint"},
   collector_http_stmt_part |-> {"name_str"},
   collector_http_stmt_suffix |-> {"collector_http_stmt_part", "collector_query_param"},
   collector_http_stmt |-> {"collector_http_stmt_suffix"}, publisher |-> {"app_name"},
   subscriber |-> {"app_name"}, collector_pubsub_call |-> {"subscriber", "publisher", "name_str"},
   collector_action_stmt |-> {"name_str"},
   collector_stmts |-> {"collector_action_stmt", "collector_call_stmt",
      "collector_http_stmt", "collector_pubsub_call", "attribs_or_modifiers"},
   collector |-> {"WHATEVER", "collector_stmts"},
   event |-> {"name_str", "params", "attribs_or_modifiers", "WHATEVER", "statements"},
   subscribe |-> {"app_name", "name_str", "attribs_or_modifiers", "WHATEVER", "statements"},
   view_type_spec |-> {"collection_type", "types"}, literal |-> {}, expr_table_of_op |-> {},
   func_arg |-> {"expr"}, func_args |-> {"func_arg"}, expr_func |-> {"func_args"},
   rank_expr |-> {"expr"}, rank_expr_list |-> {"rank_expr"},
   expr_rank_func |-> {"view_type_spec", "rank_expr_list"},
   expr_agg_func |-> {"e_scope_var", "func_args"}, e_scope_var |-> {},
   first_func_target |-> {"E_NULL", "expr"},
   expr_first_func |-> {"first_func_target", "e_scope_var", "rank_expr_list"},
   e_single_arg_func |-> {},
   expr_single_arg_func |-> {"e_single_arg_func", "e_scope_var", "expr"},
   expr_any_func |-> {"expr"}, expr_single_or_null |-> {}, expr_snapshot |-> {},
   expr_count |-> {}, expr_navigate_attr |-> {}, expr_navigate |-> {"expr_navigate_attr"},
   matching_rhs |-> {"expr_table_of_op", "expr_navigate", "atomT_paren", "E_Name"},
   squiggly_args |-> {}, expr_matching |-> {"squiggly_args", "matching_rhs"},
   relop |-> {"expr_table_of_op", "expr_rank_func", "expr_agg_func", "expr_single_arg_func",
      "expr_any_func", "expr_count", "expr_single_or_null", "expr_snapshot", "expr_first_func",
      "expr_navigate", "expr_matching"},
   list_item |-> {"expr"}, expr_list |-> {"list_item"}, expr_set |-> {"expr_list"},
   empty_tuple |-> {},
   atom_dot_relop |-> {"expr_rank_func", "expr_agg_func", "expr_single_arg_func",
      "expr_any_func", "expr_count", "expr_single_or_null", "expr_snapshot", "expr_first_func",
      "expr_navigate", "expr_matching"},
   atomT_implied_dot |-> {"atom_dot_relop", "expr_navigate", "expr_matching",
      "expr_table_of_op"},
   atomT_name |-> {}, atomT_paren |-> {"expr"}, expr_atom_list |-> {"expr_list"},
   atomT |-> {"expr_func", "expr_set", "expr_atom_list", "empty_tuple", "atomT_paren",
      "literal", "atomT_implied_dot", "atomT_name"},
   atom |-> {"atomT", "relop"}, powerT |-> {"unaryTerm"}, power |-> {"atom", "powerT"},
   unaryTerm |-> {"power", "OP"}, termT |-> {"unaryTerm"}, term |-> {"unaryTerm", "termT"},
   binexprT |-> {"term"}, binexpr |-> {"term", "binexprT"}, e_compare_ops |-> {},
   expr_rel |-> {"binexpr"}, expr_bitand |-> {"expr_rel"}, expr_bitxor |-> {"expr_bitand"},
   expr_bitor |-> {"expr_bitxor"}, expr_and |-> {"expr_bitor"}, expr_or |-> {"expr_and"},
   expr_but_not |-> {"expr_or"}, expr_coalesce |-> {"expr_but_not"}, if_one_liner |-> {"expr"},
   else_block_stmt |-> {"expr"}, control_item |-> {"expr"}, if_controls |-> {"control_item"},
   cond_block |-> {"if_controls", "else_block_stmt"}, final_else |-> {"expr"}, ifvar |-> {"expr"},
   if_multiple_lines |-> {"ifvar", "cond_block", "final_else"},
   expr_if_else |-> {"if_one_liner", "if_multiple_lines"},
   expr |-> {"expr_if_else", "expr_coalesce"}, expr_assign |-> {"expr", "transform"},
   expr_simple_assign |-> {"expr_assign"}, expr_let_statement |-> {"expr_assign"},
   expr_table_of_statement |-> {"expr_assign"}, expr_dot_assign |-> {},
   expr_statement_no_nl |-> {"expr_dot_assign"}, template_expression |-> {"TMPL_TEXT", "expr"},
   template_statement |-> {"template_expression"},
   expr_statement |-> {"expr_let_statement", "expr_table_of_statement", "expr_simple_assign"},
   expr_inject_stmt |-> {"expr_func"},
   expr_stmt |-> {"expr_statement_no_nl", "expr_statement", "expr_inject_stmt"},
   transform_return_type |-> {"set_of", "sequence_of", "view_type_spec"},
   view_return_type |-> {"view_type_spec"}, transform_scope_var |-> {},
   transform_arg |-> {"expr"},
   transform |-> {"transform_arg", "transform_return_type", "transform_scope_var",
      "expr_stmt", "template_statement"},
   expr_block |-> {"transform"}, view_param |-> {"name_str", "view_type_spec"},
   view_params |-> {"view_param"}, abstract_view |-> {},
   view |-> {"name_str", "view_params", "view_return_type", "attribs_or_modifiers",
      "expr_block", "abstract_view"},
   alias |-> {"name_str", "attribs_or_modifiers", "annotation", "types", "collection_type"},
   enumeration |-> {}, enum_stmts |-> {"enumeration", "WHATEVER"},
   enum |-> {"attribs_or_modifiers", "WHATEVER", "enum_stmts"},
   app_decl |-> {"alias", "annotation", "collector", "enum", "event", "facade", "mixin",
      "rest_endpoint", "simple_endpoint", "subscribe", "union", "view", "table"},
   application |-> {"name_with_attribs", "app_decl"}, import_mode |-> {},
   import_stmt |-> {"import_mode"}, imports_decl |-> {"import_stmt"},
   sysl_file |-> {"imports_decl", "application"}]

\* The rules of expressions: those that leave a value on expr_stack and those that only work on it.
Gainers ==
  {"literal", "expr_func", "expr_set", "expr_atom_list", "empty_tuple", "atomT_implied_dot",
   "atomT_name", "atomT_paren", "atomT", "atom", "powerT", "power", "unaryTerm", "term",
   "binexpr", "expr_rel", "expr_bitand", "expr_bitxor", "expr_bitor", "expr_and", "expr_or",
   "expr_but_not", "expr_coalesce", "if_one_liner", "if_multiple_lines", "expr_if_else", "expr",
   "e_single_arg_func", "matching_rhs"}

Neutral ==
  {"expr_table_of_op", "func_arg", "func_args", "rank_expr", "rank_expr_list", "expr_rank_func",
   "expr_agg_func", "e_scope_var", "first_func_target", "expr_first_func",
   "expr_single_arg_func", "expr_any_func", "expr_single_or_null", "expr_snapshot",
   "expr_count", "expr_navigate_attr", "expr_navigate", "squiggly_args", "expr_matching",
   "relop", "list_item", "expr_list", "atom_dot_relop", "termT", "binexprT", "else_block_stmt",
   "control_item", "if_controls", "cond_block", "final_else", "ifvar"}

Inner == Gainers \cup Neutral

\* The rules around them, from the block of a view to the parts of a statement.
Assigns == {"expr_let_statement", "expr_table_of_statement", "expr_simple_assign"}

Outer ==
  Assigns \cup
  {"expr_block", "transform", "transform_arg", "expr_stmt", "expr_statement", "expr_assign",
   "expr_statement_no_nl", "expr_dot_assign", "expr_inject_stmt", "template_statement",
   "template_expression"}

Body == Inner \cup Outer

\* The symbols that may stand below any rule, and those that may stand below an expression.
Mild == Deep \ Body

Idle == Neutral \cup Mild

Within == Inner \cup Mild

IdleRules ==
  {"literal", "expr_func", "expr_set", "expr_atom_list", "empty_tuple", "atomT_implied_dot",
   "atomT_name", "if_multiple_lines", "e_single_arg_func", "expr_table_of_op", "func_args",
   "rank_expr_list", "expr_rank_func", "expr_agg_func", "e_scope_var", "expr_first_func",
   "expr_single_or_null", "expr_snapshot", "expr_count", "expr_navigate_attr", "expr_navigate",
   "squiggly_args", "relop", "expr_list", "atom_dot_relop", "if_controls", "cond_block"}

-----------------------------------------------------------------------------
\* What may stand below what

\* A rule r may have a child a.
MayHave(r, a) ==
  IF r = "file" THEN a = "sysl_file" ELSE \E w \in Grammar[r] : \E k \in 1..Len(w) : w[k] = a

-----------------------------------------------------------------------------
\* What a callback does to the listener, by the rule it is for

LoudEnter ==
  {"field_type", "inplace_tuple", "table", "union", "alias", "params", "view", "app_decl",
   "name_with_attribs", "subscribe", "simple_endpoint", "event", "method_def", "collector",
   "http_path_var_with_type", "http_path", "rest_endpoint", "if_stmt", "else_stmt", "for_stmt",
   "group_stmt", "one_of_cases", "one_of_stmt"}

LoudExit ==
  {"field_type", "inplace_tuple", "table", "union", "alias", "params", "view", "app_decl",
   "subscribe", "simple_endpoint", "event", "method_def", "collector", "set_type", "sequence_type",
   "http_path", "rest_endpoint", "if_stmt", "else_stmt", "for_stmt", "group_stmt",
   "one_of_cases", "one_of_stmt"}

\* The callback of a rule with this word pushes a scope.
Scopes(r, w) == r \in Scoping \/ (r \in DOMAIN ScopedFor /\ Has(w, ScopedFor[r]))

Naming == {"http_path", "simple_endpoint", "event", "subscribe"}

Entering(s, t, r, w) ==
  /\ Live(s)
  /\ IF Scopes(r, w) THEN PushedScope(s, t, r) ELSE SameScope(s, t)
  /\ IF r \in TypeRules THEN PushedType(s, t) ELSE SameTypes(s, t)
  /\ r \notin TypeRules \cup {"params", "view", "app_decl"} => t.typemap = s.typemap
  /\ t.urlPrefixes = s.urlPrefixes
  /\ t.rest_attrs = IF r = "app_decl" THEN 0
                    ELSE IF r = "rest_endpoint" THEN s.rest_attrs + 1 ELSE s.rest_attrs
  /\ t.rest_urlparams = IF r = "http_path_var_with_type"
                          THEN Append(s.rest_urlparams, Len(s.rest_urlparams_len))
                          ELSE s.rest_urlparams
  /\ t.rest_urlparams_len = IF r = "rest_endpoint"
                              THEN Append(s.rest_urlparams_len, Len(s.rest_urlparams))
                              ELSE s.rest_urlparams_len
  /\ IF r = "method_def" THEN t.endpoint = "rest"
     ELSE t.endpoint = s.endpoint \/ (r \in Naming /\ t.endpoint \in {"path", "plain"})

Exiting(s, t, r, w) ==
  /\ Live(s)
  /\ IF Scopes(r, w) THEN PoppedScope(s, t) ELSE KeptScope(s, t)
  /\ IF r \in TypeRules THEN PoppedType(s, t) ELSE SameTypes(s, t)
  /\ r \in TypeRules \ {"alias"} => OuterMap(t)
  /\ r \notin TypeRules \cup {"view"} => OuterMap(t) \/ t.typemap = s.typemap
  /\ t.urlPrefixes = IF r = "http_path" THEN s.urlPrefixes + 1
                     ELSE IF r = "rest_endpoint" THEN s.urlPrefixes - 1 ELSE s.urlPrefixes
  /\ t.rest_attrs = IF r = "rest_endpoint" THEN s.rest_attrs - 1 ELSE s.rest_attrs
  /\ t.rest_urlparams = IF r = "rest_endpoint"
                          THEN SubSeq(s.rest_urlparams, 1, Top(s.rest_urlparams_len))
                          ELSE s.rest_urlparams
  /\ t.rest_urlparams_len = IF r = "rest_endpoint" THEN Pop(s.rest_urlparams_len)
                            ELSE s.rest_urlparams_len
  /\ t.endpoint = IF r \in {"method_def", "simple_endpoint", "event",
      "subscribe"} THEN "" ELSE s.endpoint

-----------------------------------------------------------------------------
\* The words of the rules that hold the others, and the word of a lowest tree

\* The first lens[j] variables come from the endpoints around the j-th one.
Nests(of, lens) ==
  /\ \A i \in 1..Len(of) : of[i] <= Len(lens)
  /\ \A j \in 1..Len(lens) : lens[j] <= Len(of) /\ \A i \in 1..lens[j] : of[i] < j
  /\ \A j, k \in 1..Len(lens) : j <= k => lens[j] <= lens[k]

-----------------------------------------------------------------------------
\* Which rules may stand in which

\* A child of a rule of A, or of one outside of Z, is outside of Z.
Keeps(A, Z) ==
  \A r \in Rules \cup {"file"}, a \in Rules : (r \in A \/ r \notin Z) /\ MayHave(r, a) => a \notin Z

-----------------------------------------------------------------------------
\* The values that the children of a word leave

\* How many values the children of a word leave on expr_stack, and how many a rule itself does.
Gaining(w) == {k \in 1..Len(w) : w[k] \in Gainers}

Gained(w) == Cardinality(Gaining(w))

Leaves(r) == IF r \in Gainers THEN 1 ELSE 0

\* The rules that take operands from expr_stack, by how many they take.
Chains ==
  {"expr_rel", "expr_bitand", "expr_bitxor", "expr_bitor", "expr_and", "expr_or", "expr_but_not",
   "expr_coalesce"}

Ones ==
  {"func_arg", "rank_expr", "list_item", "atomT_paren", "powerT", "termT", "binexprT", "term",
   "binexpr", "atom", "atomT", "else_block_stmt", "control_item", "final_else", "ifvar",
   "expr_if_else", "expr", "expr_any_func", "expr_matching", "unaryTerm", "transform_arg",
   "expr_inject_stmt"}

\* The rules that stand around an expression, or are one, and what stands in them.
Rims == {"expr", "transform_arg", "expr_inject_stmt", "expr_dot_assign"}

Held == Within \cup Rims

\* What the callbacks of r take from expr_stack, and what they push on the way in.
Took(r, w) ==
  CASE r \in Chains -> IF Len(w) > 1 THEN Len(w) ELSE 1
    [] r = "power" -> IF Has(w, "powerT") THEN 2 ELSE 1
    [] r = "first_func_target" -> IF Has(w, "E_NULL") THEN 0 ELSE 1
    [] r = "matching_rhs" -> IF Has(w, "atomT_paren") /\ ~Has(w, "E_Name") THEN 1 ELSE 0
    [] r \in Ones -> 1
    [] r = "expr_single_arg_func" -> 2
    [] r = "if_one_liner" -> 3
    [] OTHER -> 0

\* Each word of V leaves n values.
Gains(V, n) == V \subseteq Seq(Symbols) /\ \A w \in V : Gained(w) = n

-----------------------------------------------------------------------------
\* What a callback does to expr_stack, by the rule it is for

\* What the Enter callback pushes.
Put(r, w) ==
  IF \/ r \in {"expr_func", "expr_set", "expr_atom_list", "atomT_implied_dot", "if_multiple_lines"}
     \/ r = "matching_rhs" /\ ~HasAny(w, {"E_Name", "atomT_paren"})
  THEN 1 ELSE 0

Pushers ==
  {"expr_func", "expr_rank_func", "expr_agg_func", "expr_first_func", "expr_navigate",
   "matching_rhs", "squiggly_args", "expr_matching", "expr_set", "atomT_implied_dot",
   "expr_atom_list", "if_multiple_lines"}

\* What the Exit callback of a rule inside of an expression adds.
Adds(r, w) == Leaves(r) - (Put(r, w) + Took(r, w))

\* What a rule has put on the stack so far and has not taken yet.
Pending(f) == Put(f.rule, f.word) + Took(f.rule, f.word) - Gained(f.rest)

-----------------------------------------------------------------------------
\* The words of a view and of the rules around a transform

\* All of v but the last, a, is from S.
EndsWith(v, a, S) ==
  /\ v \in Seq(S \cup {a}) /\ Len(v) > 0 /\ v[Len(v)] = a
  /\ \A k \in 1..(Len(v) - 1) : v[k] \in S

Heads == {"name_str", "view_params", "view_return_type", "attribs_or_modifiers"}

\* The rules that have exactly one child, a transform or what a transform may stand in.
Single == Assigns \cup {"expr_assign", "expr_block"}

-----------------------------------------------------------------------------
\* Which rules stand in which

\* The rules that start with nothing but transforms on the stack.
Clear == {"transform", "expr_stmt", "expr_statement", "expr_statement_no_nl"} \cup Single

\* The rules whose Exit callback finds a transform on top.
Settled ==
  Assigns \cup {"expr_inject_stmt", "template_statement", "transform_arg", "expr_dot_assign",
                "transform"}

-----------------------------------------------------------------------------
\* Which callbacks leave the stack alone, and which at least its transforms

\* With a transform on top there is nothing else.
AllTransforms(e) == Stacked(e, Len(e))

\* A view that has an expression and has entered it.
Spent(f) == f.rule = "view" /\ ~Has(f.word, "abstract_view") /\ f.rest = <<>>

\* A rule of one child that has entered it.
Done(f) == f.rule \in Single /\ f.rest = <<>>

\* Between two statements of a transform it is on the stack, and nothing but transforms is.
ClearAt(f) == f.rule \in Clear /\ (f.rule \in Single \ {"expr_block"} => f.rest # <<>>)

\* The children of these rules are among these; the file has only one.
Closed(A, K) == \A r \in A \cap Rules : Alphabet[r] \cap Rules \subseteq K

-----------------------------------------------------------------------------
\* Which parts of the state a callback may touch

\* Nothing but these parts of the state is different.
Touches(s, t, X) == DOMAIN t = DOMAIN s /\ \A x \in DOMAIN s \ X : t[x] = s[x]

-----------------------------------------------------------------------------
\* Which parts of the state a callback may touch, by the rule it is for

\* The parts of the state that the Enter callback of a rule may touch.
EnterTouches(r) ==
  CASE r \in {"expr_func", "expr_agg_func", "expr_first_func", "expr_navigate", "matching_rhs",
              "squiggly_args", "expr_matching", "expr_set", "atomT_implied_dot",
              "expr_atom_list", "if_multiple_lines", "template_statement",
              "transform_scope_var", "transform"} -> {"exprs", "panic"}
    [] r = "expr_rank_func" -> {"exprs", "field", "panic"}
    [] r \in {"reference", "user_defined_type"} -> {"panic"}
    [] r \in {"field", "view_param", "param", "transform_return_type", "types"} -> {"field", "panic"}
    [] r \in {"ret_stmt", "call_stmt", "call_arg", "collector_call_stmt", "collector_http_stmt",
              "collector_pubsub_call", "collector_action_stmt", "one_of_cases", "annotation",
              "annotation_value", "collector", "if_stmt", "else_stmt", "for_stmt", "group_stmt",
              "one_of_stmt"} -> {"scope", "panic"}
    [] r \in {"text_stmt", "doc_string"} -> {"pendingDocString", "scope", "panic"}
    [] r = "field_type" -> {"scope", "field", "panic"}
    [] r = "inplace_tuple" -> {"types", "typemap", "panic"}
    [] r \in {"table_stmts", "table_def"} -> {"scope", "types"}
    [] r \in {"table", "union"} -> {"scope", "types", "typemap", "panic"}
    [] r = "alias" -> {"scope", "types", "typemap", "field", "panic"}
    [] r = "name_with_attribs" -> {"apps", "app"}
    [] r = "app_decl" -> {"apps", "rest_attrs", "typemap", "scope"}
    [] r = "model_name" -> {"apps", "panic"}
    [] r = "http_path_var_with_type" -> {"field", "rest_urlparams", "panic"}
    [] r = "http_path" -> {"endpoint"}
    [] r = "rest_endpoint" -> {"rest_urlparams_len", "rest_attrs"}
    [] r \in {"method_def", "simple_endpoint", "event"} -> {"scope", "endpoint"}
    [] r = "subscribe" -> {"scope", "endpoint", "apps", "panic"}
    [] r = "params" -> {"field", "typemap", "nativeSet"}
    [] r = "view" -> {"field", "typemap", "returns"}
    [] r = "view_return_type" -> {"field", "returns", "panic"}
    [] OTHER -> {}

\* The parts that the Exit callback may touch.
ExitTouches(r) ==
  CASE r \in Inner \cup {"expr_simple_assign", "expr_let_statement", "expr_table_of_statement",
                         "expr_dot_assign", "template_expression", "template_statement",
                         "expr_inject_stmt", "transform_return_type", "transform_arg",
                         "transform"} -> {"exprs", "panic"}
    [] r \in {"reference", "http_path_var_with_type", "view_type_spec", "view_param"} -> {"panic"}
    [] r \in {"field_type", "target", "statements", "if_stmt", "else_stmt", "for_stmt", "group_stmt",
              "one_of_cases", "one_of_stmt", "subscriber", "collector", "app_decl",
              "collector_stmts"} -> {"scope", "panic"}
    [] r = "inplace_tuple" -> {"types", "typemap"}
    [] r = "field" -> {"field", "panic"}
    [] r \in {"set_type", "sequence_type"} -> {"scope", "field", "panic"}
    [] r \in {"table", "union", "alias"} -> {"scope", "types", "typemap", "field", "panic"}
    [] r = "http_path" -> {"urlPrefixes"}
    [] r = "param" -> {"nativeSet", "panic"}
    [] r = "params" -> {"field", "typemap", "panic"}
    [] r \in {"method_def", "simple_endpoint", "event", "subscribe"} -> {"scope", "endpoint", "panic"}
    [] r = "rest_endpoint" ->
         {"urlPrefixes", "rest_attrs", "rest_urlparams", "rest_urlparams_len", "panic"}
    [] r = "view" -> {"exprs", "field", "typemap", "returns", "panic"}
    [] OTHER -> {}

-----------------------------------------------------------------------------
\* The field that a callback leaves

\* There is a type under the last field name.
OnField(s) == s.field.top # 0 /\ s.field.top = s.typemap

\* The last field name and the map that fields go to stay.
SameField(s, t) == t.field.top = s.field.top /\ t.typemap = s.typemap

\* The rules whose Enter callback adds a field, if the word has a type.
Adders(r, w) ==
  \/ r \in {"field", "expr_rank_func", "view_param", "view_return_type"}
  \/ r \in {"param", "http_path_var_with_type"} /\ Has(w, "reference")
  \/ r = "transform_return_type" /\ ~Has(w, "set_of")

Typed ==
  {"types", "set_type", "sequence_type", "collection_type", "field_type", "view_type_spec", "alias",
   "expr_rank_func", "view_param", "view_return_type", "reference"}

\* Such a rule works on the type under the last field name.
Fielded(f) ==
  \/ f.rule \in Typed
  \/ f.rule \in {"param", "http_path_var_with_type"} /\ Has(f.word, "reference")
  \/ f.rule = "transform_return_type" /\ ~Has(f.word, "set_of")
  \/ f.rule = "field" /\ Has(f.word, "field_type")

\* Such a rule asks whether there is a field.
Named(f) ==
  \/ f.rule = "field"
  \/ f.rule = "param" /\ \A k \in 1..Len(f.rest) : f.rest[k] \notin {"field", "reference"}

\* The rules that may be around one that has a field.
FieldRules == Typed \cup {"param", "http_path_var_with_type", "transform_return_type", "field", "view"}

Declarers ==
  {"params", "view", "app_decl", "table", "union", "alias", "application", "sysl_file",
   "inplace_table", "table_stmts", "table_def", "method_def", "simple_endpoint", "event",
   "rest_endpoint"}

TupleRules ==
  Declarers \cup {"inplace_tuple", "field", "param", "param_list"}

\* No tuple in place is inside of one of these.
PlainRules ==
  Typed \cup {"name_str", "array_size", "transform_return_type", "http_path_var_with_type", "view"}

Viewed ==
  Body \cup {"transform_return_type", "transform_scope_var", "view_param", "view_params",
             "view_return_type"}

-----------------------------------------------------------------------------
\* The applications and their types

\* There is a current application, and it has a map of types.
HasTypes(s) == s.app # 0 /\ s.apps[s.app].types

AppRules == {"app_decl", "table", "alias"}

Tops == {"sysl_file", "application", "name_with_attribs"}

-----------------------------------------------------------------------------
\* What the callbacks do to the entries of the scope

\* The kinds of object that the callback of a rule puts into the scope.
KindsBy(r) ==
  CASE r \in {"method_def", "simple_endpoint", "event", "subscribe", "collector"} -> {"Endpoint"}
    [] r = "if_stmt" -> {"Cond"}
    [] r \in {"else_stmt", "group_stmt"} -> {"Group"}
    [] r = "for_stmt" -> {"Loop", "Foreach", "Group"}
    [] r = "one_of_cases" -> {"Choice"}
    [] r = "one_of_stmt" -> {"Alt"}
    [] r = "app_decl" -> {"Application"}
    [] OTHER -> {"Type"}

SortedEntry(e) ==
  /\ e.kind \in KindsBy(e.by)
  /\ e.by \in {"app_decl", "alias", "field_type", "set_type"} => e.attrs

\* The entries are what they were, but for their last statements and new attributes.
Older(sc, tc) ==
  \A i \in 1..Len(sc) :
    tc[i].kind = sc[i].kind /\ tc[i].by = sc[i].by /\ (sc[i].attrs => tc[i].attrs)

\* Nothing is done to the scope, as far as these lemmas tell.
Gives(s, t, kinds, attrs) ==
  \E e \in ScopeEntry :
    t.scope = Append(s.scope, e) /\ e.kind \in kinds /\ e.attrs = attrs

NewEntry(e, r, w) ==
  /\ e.kind \in KindsBy(r)
  /\ r \in {"app_decl", "alias", "field_type"} => e.attrs
  /\ r = "union" /\ Has(w, "annotation") => e.attrs

\* What a text statement leaves for its doc string.
Documented(s) ==
  IF s.endpoint = "rest" /\ Top(s.scope).last = "" THEN TopKind(s) = "Endpoint"
  ELSE /\ TopKind(s) \in Blocks /\ Top(s.scope).last = "text"
       /\ s.endpoint = "rest" => TopKind(s) = "Endpoint"

Opens(s, t, r, w) ==
  IF Scopes(r, w)
    THEN \E attrs \in BOOLEAN :
           /\ Gives(s, t, KindsBy(r), attrs)
           /\ r \in {"app_decl", "alias", "field_type"} => attrs
           /\ r = "union" /\ Has(w, "annotation") => attrs
    ELSE t.scope = s.scope

Blocked == {"if_stmt", "else_stmt", "for_stmt", "group_stmt", "one_of_cases", "one_of_stmt"}

\* The scope stays, or loses its innermost entry.
Shrinks(s, t) == "scope" \in DOMAIN t /\ t.scope \in {s.scope, Pop(s.scope)}

Closers ==
  {"field_type", "table", "union", "alias", "app_decl", "method_def", "simple_endpoint", "event",
   "subscribe", "collector"} \cup Blocked

Sets == {"set_type", "sequence_type"}

\* The rules whose entry of the scope nothing takes the place of.
Firm == Blocked \cup {"subscribe", "collector", "union"}

\* What is inside of them.
Firms ==
  Blocked \cup
  {"statements", "if_else", "ret_stmt", "call_stmt", "one_of_case_label",
   "http_method_comment", "text_stmt", "annotation", "attribs_or_modifiers", "annotation_value",
   "array_of_strings", "multi_line_docstring", "quoted_string", "doc_string", "entry", "nvp",
   "modifier", "array_of_arrays", "target", "target_endpoint", "call_args", "call_arg", "name_str",
   "app_name", "package_name", "sub_package", "user_defined_type", "collector_stmts",
   "collector_action_stmt", "collector_call_stmt", "collector_http_stmt", "collector_pubsub_call",
   "publisher", "subscriber", "collector_http_stmt_suffix", "collector_http_stmt_part",
   "collector_query_param", "collector_query_var"}

Attributed(f) ==
  \/ f.rule = "union" /\ Has(f.word, "annotation")
  \/ f.rule = "table_stmts" /\ Has(f.rest, "annotation")

-----------------------------------------------------------------------------
\* The callbacks of calls and of the statements of collectors

\* The innermost scope has statements, and the last of them is one of these.
Says(s, stmts) == TopKind(s) \in Blocks /\ Top(s.scope).last \in stmts

\* The rules whose callback adds a call, those of a collector's statement, and what is in them.
Calls == {"call_stmt", "collector_call_stmt", "collector_pubsub_call"}

Collected ==
  {"collector_action_stmt", "collector_call_stmt", "collector_http_stmt", "collector_pubsub_call"}

Naming0 == {"target", "target_endpoint", "call_args", "call_arg", "app_name", "name_str", "package_name",
  "sub_package", "subscriber", "publisher"}

Attributes == {"attribs_or_modifiers", "entry", "nvp", "modifier", "array_of_strings", "array_of_arrays",
  "quoted_string", "collector_http_stmt_suffix", "collector_http_stmt_part", "collector_query_param",
  "collector_query_var"}

-----------------------------------------------------------------------------
\* The callbacks that fail, and the names they fail by

\* It runs still, or has failed by one of these names.
Dies(a, P) == "panic" \in DOMAIN a /\ a.panic \in {""} \cup P

Hosts == Blocked \cup {"method_def", "simple_endpoint", "event", "subscribe"}

InStatements ==
  {"ret_stmt", "call_stmt", "for_stmt", "one_of_stmt", "group_stmt", "text_stmt", "if_else"}

\* The rules whose Enter callbacks look at the stack of expressions.
LooksAtExprs ==
  {"expr_rank_func", "expr_agg_func", "expr_first_func", "expr_navigate", "squiggly_args",
   "expr_matching", "transform_scope_var"}

\* The other rules whose Enter callbacks look for something that has to be there.
LooksAround ==
  {"reference", "types", "field_type", "user_defined_type", "field", "http_path_var_with_type",
   "param", "view_param", "view_return_type", "transform_return_type", "inplace_tuple", "table",
   "alias", "union", "model_name", "subscribe", "one_of_cases", "call_arg", "annotation_value",
   "doc_string", "annotation"}
    \cup ((InStatements \cup {"if_stmt", "else_stmt"}) \ {"if_else"}) \cup Collected

\* The rules of views whose Exit callbacks look at the stack of expressions.
TakesExprs == Body \cup {"transform_return_type"}

-----------------------------------------------------------------------------
\* What a callback leaves of the expressions below

\* It runs, and its first m expressions are those of s.
Upto(s, t, m) == Live(t) /\ \A k \in 1..m : t.exprs[k] = s.exprs[k]

\* The expression at k is there, and is one of these.
Finds(s, k, kinds) == k \in 1..Len(s.exprs) /\ s.exprs[k] \in kinds

\* The rules whose callbacks take one value from what stood on the stack before.
Needing ==
  {"relop", "atom_dot_relop", "expr_table_of_op", "expr_rank_func", "expr_agg_func",
   "expr_single_arg_func", "expr_any_func", "expr_count", "expr_single_or_null", "expr_snapshot",
   "expr_first_func", "expr_navigate", "expr_matching", "termT", "binexprT", "ifvar"}

Need(r) == IF r \in Needing THEN 1 ELSE 0

\* The rules that must have one below them.
Footed == Needing \cup {"e_scope_var", "expr_list", "list_item"}

Floor(r) == IF r \in Footed THEN 1 ELSE 0

\* The rules that look for an expression of a certain kind where they were entered: ...
Heirs ==
  {"func_args", "func_arg", "rank_expr_list", "rank_expr", "first_func_target", "expr_navigate_attr",
   "if_controls", "cond_block", "control_item", "else_block_stmt", "final_else", "ifvar"}

Makers ==
  {"expr_rank_func", "expr_agg_func", "expr_first_func", "expr_navigate", "expr_matching",
   "transform_arg", "expr_inject_stmt", "expr_dot_assign"}

\* or one above that.
Pushed == {"expr_func", "if_multiple_lines", "expr_single_arg_func"}

Off(r) == IF r \in Pushed THEN 1 ELSE 0

Kinds(r, rest) ==
  CASE r \in {"func_args", "func_arg"} -> {"relexpr", "call"}
    [] r \in {"rank_expr_list", "rank_expr", "expr_rank_func", "expr_agg_func", "expr_first_func",
              "first_func_target"} -> {"relexpr"}
    [] r \in {"expr_navigate", "expr_navigate_attr"} -> {"navigate"}
    [] r \in {"expr_matching", "expr_single_arg_func"} -> {"binexpr"}
    [] r \in {"if_controls", "cond_block", "control_item", "else_block_stmt", "final_else"} -> {"ifelse"}
    [] r = "ifvar" -> {"ifvar", "ifelse"}
    [] r = "expr_func" -> {"call"}
    [] r = "if_multiple_lines" -> IF Has(rest, "ifvar") THEN {"ifvar"} ELSE {"ifelse"}
    [] OTHER -> {"transform"}
=============================================================================
