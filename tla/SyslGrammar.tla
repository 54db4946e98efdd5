---------------------------- MODULE SyslGrammar ----------------------------
(***************************************************************************)
(* The parse trees of Sysl (pkg/grammar/sysl_parser.go, generated from     *)
(* SyslParser.g4).  Each rule of the grammar is the set of the words its   *)
(* function accepts: a word lists the children the node gets, rules and    *)
(* tokens, in order.  A token is listed only where a callback of the       *)
(* listener asks for it; punctuation, names and keywords that nobody looks *)
(* at are left out, and so is the recovery from syntax errors, because a   *)
(* tree with an error is never walked (parse.go:50).                       *)
(*                                                                         *)
(* Bound: a repetition yields at most Reps children.                       *)
(***************************************************************************)
EXTENDS Naturals, Sequences

CONSTANT Reps  \* the most children a repetition (+ or *) of a rule yields

ASSUME RepsAssumption == Reps \in Nat \ {0}

-----------------------------------------------------------------------------
\* Words: One of the symbols A, an optional symbol, repetitions, concatenation.

One(A) == {<<a>> : a \in A}

Opt(a) == {<<>>, <<a>>}

V ** W == {v \o w : v \in V, w \in W}

Some(A) == UNION {[1..n -> A] : n \in 1..Reps}

Many(A) == {<<>>} \cup Some(A)

\* One operand and then one more for each operator between them.
Chain(a) == UNION {[1..n -> {a}] : n \in 1..(Reps + 1)}

-----------------------------------------------------------------------------
\* Names, attributes and types

modifier == {<<>>}
size_spec == {<<>>}
name_str == {<<>>}
reference == {<<"app_name">>} ** Some({"name_str"})
doc_string == {<<>>}
quoted_string == {<<>>}
array_of_strings == Some({"quoted_string"})
array_of_arrays == Some({"array_of_strings"})
nvp == One({"quoted_string", "array_of_strings", "array_of_arrays"})
entry == One({"nvp", "modifier"})
attribs_or_modifiers == Some({"entry"})

user_defined_type == {<<"name_str">>}
\* Sized and Unsized are the native types that take a length and those that do not.
types == One({"user_defined_type", "reference", "Sized", "Unsized"})
set_of == {<<>>}
set_type == {<<"set_of", "types">>} ** Opt("size_spec")
sequence_of == {<<>>}
sequence_type == {<<"sequence_of", "types">>} ** Opt("size_spec")
collection_type == One({"set_type", "sequence_type"})
multi_line_docstring == Some({"doc_string"})
annotation_value == One({"QSTRING", "array_of_strings", "multi_line_docstring"})
annotation == {<<"annotation_value">>}
annotations == Some({"annotation"})
array_size == {<<>>}

field_type ==
  ({<<"collection_type">>} \cup ({<<"types">>} ** ({<<>>} \cup One({"array_size", "size_spec"}))))
    ** Opt("attribs_or_modifiers") ** Opt("annotations")
inplace_tuple == Some({"field"})
field ==
  {<<"name_str">>} ** ({<<>>} \cup (Opt("array_size") ** One({"field_type", "inplace_tuple"})))

inplace_table == {<<"table">>}
table_stmts == Some({"field", "annotation", "inplace_table", "WHATEVER"})
table_def == Opt("attribs_or_modifiers") ** One({"WHATEVER", "table_stmts"})
table == One({"TYPE", "TABLE"}) ** {<<"name_str", "table_def">>}
union ==
  {<<"name_str">>} ** Opt("attribs_or_modifiers")
    ** ({<<"WHATEVER">>} \cup Some({"user_defined_type", "annotation", "WHATEVER"}))

-----------------------------------------------------------------------------
\* Applications and endpoints

package_name == {<<"name_str">>}
sub_package == {<<"package_name">>}
app_name == {<<"package_name">>} ** Many({"sub_package"})
name_with_attribs == {<<"app_name">>} ** Opt("attribs_or_modifiers")

model_name == {<<>>}
inplace_table_def == Many({"attribs_or_modifiers"})
table_refs == Opt("inplace_table_def")
facade == {<<"model_name">>} ** Some({"table_refs"})

var_in_curly == {<<>>}
query_var == One({"NativeDataTypes", "name_str", "var_in_curly"})
query_param == Some({"query_var"})
http_path_part == Opt("name_str")
http_path_var_with_type ==
  {<<"http_path_part">>} ** One({"NativeDataTypes", "name_str", "reference"})
http_path_static == {<<"http_path_part">>}
http_path_suffix == One({"http_path_static", "http_path_var_with_type"})
http_path == {<<"FORWARD_SLASH">>} \cup Some({"http_path_suffix"})
endpoint_name == Some({"name_str"})

ret_stmt == {<<>>}
target == {<<"app_name">>}
target_endpoint == {<<"name_str">>}
call_arg == {<<>>} \cup Some({"name_str"})
call_args == Some({"call_arg"})
call_stmt == Opt("target") ** {<<"target_endpoint">>} ** Opt("call_args")

if_stmt == Many({"statements"})
else_stmt == Many({"statements"})
if_else == {<<"if_stmt">>} ** Many({"else_stmt"})
for_stmt == One({"ALT", "UNTIL", "FOR_EACH", "FOR", "LOOP", "WHILE"}) ** Many({"statements"})
http_method_comment == {<<>>}
group_stmt == {<<"name_str">>} ** Some({"statements"})
one_of_case_label == {<<>>}
one_of_cases == Opt("one_of_case_label") ** Some({"statements"})
one_of_stmt == Some({"one_of_cases"})
text_stmt == One({"doc_string", "QSTRING", "WHATEVER"}) \cup ({<<"app_name">>} ** Opt("name_str"))

mixin == {<<"app_name">>}
param == One({"reference", "field"})
param_list == Some({"param"})
params == {<<"param_list">>}
statements ==
  One({"if_else", "for_stmt", "ret_stmt", "call_stmt", "one_of_stmt", "http_method_comment",
       "group_stmt", "text_stmt", "annotation"}) ** Opt("attribs_or_modifiers")

method_def ==
  Opt("params") ** Opt("query_param") ** Opt("attribs_or_modifiers") ** Some({"statements"})
shortcut == {<<"WHATEVER">>}
simple_endpoint ==
  {<<"WHATEVER">>} \cup
  ({<<"endpoint_name">>} ** Opt("params") ** Opt("attribs_or_modifiers")
     ** ({<<"shortcut">>} \cup Some({"statements"})))
rest_endpoint ==
  {<<"http_path">>} ** Opt("attribs_or_modifiers") ** Some({"method_def", "rest_endpoint"})

collector_query_var == {<<"name_str">>} ** One({"NativeDataTypes", "name_str"})
collector_query_param == Some({"collector_query_var"})
collector_call_stmt == {<<"target", "target_endpoint">>}
collector_http_stmt_part == {<<"name_str">>}
collector_http_stmt_suffix == Some({"collector_http_stmt_part"}) ** Opt("collector_query_param")
collector_http_stmt == {<<"collector_http_stmt_suffix">>}
publisher == {<<"app_name">>}
subscriber == {<<"app_name">>}
collector_pubsub_call == {<<"subscriber", "publisher", "name_str">>}
collector_action_stmt == {<<"name_str">>}
collector_stmts ==
  One({"collector_action_stmt", "collector_call_stmt", "collector_http_stmt",
       "collector_pubsub_call"}) ** {<<"attribs_or_modifiers">>}
collector == {<<"WHATEVER">>} \cup Some({"collector_stmts"})

event ==
  {<<"name_str">>} ** Opt("params") ** Opt("attribs_or_modifiers")
    ** ({<<"WHATEVER">>} \cup Some({"statements"}))
subscribe ==
  {<<"app_name", "name_str">>} ** Opt("attribs_or_modifiers")
    ** ({<<"WHATEVER">>} \cup Some({"statements"}))

-----------------------------------------------------------------------------
\* Views and their expressions

view_type_spec == One({"collection_type", "types"})
literal == {<<>>}
expr_table_of_op == {<<>>}
func_arg == {<<"expr">>}
func_args == Some({"func_arg"})
expr_func == Opt("func_args")
rank_expr == {<<"expr">>}
rank_expr_list == Some({"rank_expr"})
expr_rank_func == Opt("view_type_spec") ** {<<"rank_expr_list">>}
expr_agg_func == Opt("e_scope_var") ** {<<"func_args">>}
e_scope_var == {<<>>}
first_func_target == {<<"E_NULL">>, <<"expr">>}
expr_first_func == {<<"first_func_target">>} ** Opt("e_scope_var") ** {<<"rank_expr_list">>}
e_single_arg_func == {<<>>}
expr_single_arg_func == {<<"e_single_arg_func">>} ** Opt("e_scope_var") ** {<<"expr">>}
expr_any_func == {<<"expr">>}
expr_single_or_null == {<<>>}
expr_snapshot == {<<>>}
expr_count == {<<>>}
expr_navigate_attr == {<<>>}
expr_navigate == {<<"expr_navigate_attr">>}
matching_rhs == One({"expr_table_of_op", "expr_navigate", "atomT_paren", "E_Name"})
squiggly_args == {<<>>}
expr_matching == Opt("squiggly_args") ** {<<"matching_rhs">>}
relop ==
  One({"expr_table_of_op", "expr_rank_func", "expr_agg_func", "expr_single_arg_func",
       "expr_any_func", "expr_count", "expr_single_or_null", "expr_snapshot",
       "expr_first_func", "expr_navigate", "expr_matching"})
list_item == {<<"expr">>}
expr_list == Some({"list_item"})
expr_set == {<<"expr_list">>}
empty_tuple == {<<>>}
atom_dot_relop ==
  One({"expr_rank_func", "expr_agg_func", "expr_single_arg_func", "expr_any_func", "expr_count",
       "expr_single_or_null", "expr_snapshot", "expr_first_func", "expr_navigate",
       "expr_matching"})
atomT_implied_dot == One({"atom_dot_relop", "expr_navigate", "expr_matching", "expr_table_of_op"})
atomT_name == {<<>>}
atomT_paren == {<<"expr">>}
expr_atom_list == {<<"expr_list">>}
atomT ==
  One({"expr_func", "expr_set", "expr_atom_list", "empty_tuple", "atomT_paren", "literal",
       "atomT_implied_dot", "atomT_name"})
atom == {<<"atomT">>} ** Many({"relop"})
powerT == {<<"unaryTerm">>}
power == {<<"atom">>} ** Opt("powerT")
unaryTerm == {<<"power">>, <<"OP", "power">>}
termT == {<<"unaryTerm">>}
term == {<<"unaryTerm">>} ** Many({"termT"})
binexprT == {<<"term">>}
binexpr == {<<"term">>} ** Many({"binexprT"})
e_compare_ops == {<<>>}
expr_rel == Chain("binexpr")
expr_bitand == Chain("expr_rel")
expr_bitxor == Chain("expr_bitand")
expr_bitor == Chain("expr_bitxor")
expr_and == Chain("expr_bitor")
expr_or == Chain("expr_and")
expr_but_not == Chain("expr_or")
expr_coalesce == Chain("expr_but_not")

if_one_liner == {<<"expr", "expr", "expr">>}
else_block_stmt == {<<"expr">>}
control_item == {<<"expr">>}
if_controls == Some({"control_item"})
cond_block == {<<"if_controls", "else_block_stmt">>}
final_else == {<<"expr">>}
ifvar == {<<"expr">>}
if_multiple_lines == Opt("ifvar") ** Some({"cond_block"}) ** Opt("final_else")
expr_if_else == One({"if_one_liner", "if_multiple_lines"})
expr == One({"expr_if_else", "expr_coalesce"})

expr_assign == One({"expr", "transform"})
expr_simple_assign == {<<"expr_assign">>}
expr_let_statement == {<<"expr_assign">>}
expr_table_of_statement == {<<"expr_assign">>}
expr_dot_assign == {<<>>}
expr_statement_no_nl == {<<"expr_dot_assign">>}
template_expression == {<<"TMPL_TEXT">>} \cup Many({"expr"})
template_statement == Many({"template_expression"})
expr_statement == One({"expr_let_statement", "expr_table_of_statement", "expr_simple_assign"})
expr_inject_stmt == {<<"expr_func">>}
expr_stmt == One({"expr_statement_no_nl", "expr_statement", "expr_inject_stmt"})
transform_return_type == One({"set_of", "sequence_of", "view_type_spec"})
view_return_type == {<<"view_type_spec">>}
transform_scope_var == {<<>>}
transform_arg == {<<"expr">>}
transform ==
  Opt("transform_arg") ** Opt("transform_return_type") ** Opt("transform_scope_var")
    ** Some({"expr_stmt", "template_statement"})
expr_block == {<<"transform">>}
view_param == {<<"name_str", "view_type_spec">>}
view_params == Some({"view_param"})
abstract_view == {<<>>}
view ==
  {<<"name_str", "view_params">>} ** Opt("view_return_type")
    ** ((Opt("attribs_or_modifiers") ** {<<"expr_block">>}) \cup {<<"abstract_view">>})

-----------------------------------------------------------------------------
\* Files

alias ==
  {<<"name_str">>} ** Opt("attribs_or_modifiers") ** Many({"annotation"})
    ** One({"types", "collection_type"})
enumeration == {<<>>}
enum_stmts == Some({"enumeration", "WHATEVER"})
enum == Opt("attribs_or_modifiers") ** One({"WHATEVER", "enum_stmts"})
app_decl ==
  Some({"alias", "annotation", "collector", "enum", "event", "facade", "mixin",
        "rest_endpoint", "simple_endpoint", "subscribe", "union", "view", "table"})
application == {<<"name_with_attribs", "app_decl">>}
import_mode == {<<>>}
import_stmt == Opt("import_mode")
imports_decl == Some({"import_stmt"})
sysl_file == Opt("imports_decl") ** Some({"application"})

-----------------------------------------------------------------------------
\* Every rule by its name, as the parser numbers them.
Grammar ==
  [modifier |-> modifier, size_spec |-> size_spec, name_str |-> name_str,
   reference |-> reference, doc_string |-> doc_string, quoted_string |-> quoted_string,
   array_of_strings |-> array_of_strings, array_of_arrays |-> array_of_arrays, nvp |-> nvp,
   entry |-> entry, attribs_or_modifiers |-> attribs_or_modifiers,
   user_defined_type |-> user_defined_type, types |-> types, set_of |-> set_of,
   set_type |-> set_type, sequence_of |-> sequence_of, sequence_type |-> sequence_type,
   collection_type |-> collection_type, multi_line_docstring |-> multi_line_docstring,
   annotation_value |-> annotation_value, annotation |-> annotation,
   annotations |-> annotations, field_type |-> field_type, array_size |-> array_size,
   inplace_tuple |-> inplace_tuple, field |-> field, inplace_table |-> inplace_table,
   table_stmts |-> table_stmts, table_def |-> table_def, table |-> table, union |-> union,
   package_name |-> package_name, sub_package |-> sub_package, app_name |-> app_name,
   name_with_attribs |-> name_with_attribs, model_name |-> model_name,
   inplace_table_def |-> inplace_table_def, table_refs |-> table_refs, facade |-> facade,
   var_in_curly |-> var_in_curly, query_var |-> query_var, query_param |-> query_param,
   http_path_part |-> http_path_part, http_path_var_with_type |-> http_path_var_with_type,
   http_path_static |-> http_path_static, http_path_suffix |-> http_path_suffix,
   http_path |-> http_path, endpoint_name |-> endpoint_name, ret_stmt |-> ret_stmt,
   target |-> target, target_endpoint |-> target_endpoint, call_arg |-> call_arg,
   call_args |-> call_args, call_stmt |-> call_stmt, if_stmt |-> if_stmt,
   else_stmt |-> else_stmt, if_else |-> if_else, for_stmt |-> for_stmt,
   http_method_comment |-> http_method_comment, group_stmt |-> group_stmt,
   one_of_case_label |-> one_of_case_label, one_of_cases |-> one_of_cases,
   one_of_stmt |-> one_of_stmt, text_stmt |-> text_stmt, mixin |-> mixin, param |-> param,
   param_list |-> param_list, params |-> params, statements |-> statements,
   method_def |-> method_def, shortcut |-> shortcut, simple_endpoint |-> simple_endpoint,
   rest_endpoint |-> rest_endpoint, collector_query_var |-> collector_query_var,
   collector_query_param |-> collector_query_param,
   collector_call_stmt |-> collector_call_stmt,
   collector_http_stmt_part |-> collector_http_stmt_part,
   collector_http_stmt_suffix |-> collector_http_stmt_suffix,
   collector_http_stmt |-> collector_http_stmt, publisher |-> publisher,
   subscriber |-> subscriber, collector_pubsub_call |-> collector_pubsub_call,
   collector_action_stmt |-> collector_action_stmt, collector_stmts |-> collector_stmts,
   collector |-> collector, event |-> event, subscribe |-> subscribe,
   view_type_spec |-> view_type_spec, literal |-> literal,
   expr_table_of_op |-> expr_table_of_op, func_arg |-> func_arg, func_args |-> func_args,
   expr_func |-> expr_func, rank_expr |-> rank_expr, rank_expr_list |-> rank_expr_list,
   expr_rank_func |-> expr_rank_func, expr_agg_func |-> expr_agg_func,
   e_scope_var |-> e_scope_var, first_func_target |-> first_func_target,
   expr_first_func |-> expr_first_func, e_single_arg_func |-> e_single_arg_func,
   expr_single_arg_func |-> expr_single_arg_func, expr_any_func |-> expr_any_func,
   expr_single_or_null |-> expr_single_or_null, expr_snapshot |-> expr_snapshot,
   expr_count |-> expr_count, expr_navigate_attr |-> expr_navigate_attr,
   expr_navigate |-> expr_navigate, matching_rhs |-> matching_rhs,
   squiggly_args |-> squiggly_args, expr_matching |-> expr_matching, relop |-> relop,
   list_item |-> list_item, expr_list |-> expr_list, expr_set |-> expr_set,
   empty_tuple |-> empty_tuple, atom_dot_relop |-> atom_dot_relop,
   atomT_implied_dot |-> atomT_implied_dot, atomT_name |-> atomT_name,
   atomT_paren |-> atomT_paren, expr_atom_list |-> expr_atom_list, atomT |-> atomT,
   atom |-> atom, powerT |-> powerT, power |-> power, unaryTerm |-> unaryTerm,
   termT |-> termT, term |-> term, binexprT |-> binexprT, binexpr |-> binexpr,
   e_compare_ops |-> e_compare_ops, expr_rel |-> expr_rel, expr_bitand |-> expr_bitand,
   expr_bitxor |-> expr_bitxor, expr_bitor |-> expr_bitor, expr_and |-> expr_and,
   expr_or |-> expr_or, expr_but_not |-> expr_but_not, expr_coalesce |-> expr_coalesce,
   if_one_liner |-> if_one_liner, else_block_stmt |-> else_block_stmt,
   control_item |-> control_item, if_controls |-> if_controls, cond_block |-> cond_block,
   final_else |-> final_else, ifvar |-> ifvar, if_multiple_lines |-> if_multiple_lines,
   expr_if_else |-> expr_if_else, expr |-> expr, expr_assign |-> expr_assign,
   expr_simple_assign |-> expr_simple_assign, expr_let_statement |-> expr_let_statement,
   expr_table_of_statement |-> expr_table_of_statement, expr_dot_assign |-> expr_dot_assign,
   expr_statement_no_nl |-> expr_statement_no_nl, template_expression |-> template_expression,
   template_statement |-> template_statement, expr_statement |-> expr_statement,
   expr_inject_stmt |-> expr_inject_stmt, expr_stmt |-> expr_stmt,
   transform_return_type |-> transform_return_type, view_return_type |-> view_return_type,
   transform_scope_var |-> transform_scope_var, transform_arg |-> transform_arg,
   transform |-> transform, expr_block |-> expr_block, view_param |-> view_param,
   view_params |-> view_params, abstract_view |-> abstract_view, view |-> view,
   alias |-> alias, enumeration |-> enumeration, enum_stmts |-> enum_stmts, enum |-> enum,
   app_decl |-> app_decl, application |-> application, import_mode |-> import_mode,
   import_stmt |-> import_stmt, imports_decl |-> imports_decl, sysl_file |-> sysl_file]

Rules == DOMAIN Grammar

\* The tokens that a callback asks for, or that tell the words of a rule apart.
Tokens ==
  {"Sized", "Unsized", "QSTRING", "WHATEVER", "TYPE", "TABLE", "NativeDataTypes", "FORWARD_SLASH",
   "ALT", "UNTIL", "FOR_EACH", "FOR", "LOOP", "WHILE", "E_NULL", "E_Name", "OP", "TMPL_TEXT"}

Symbols == Rules \cup Tokens

(***************************************************************************)
(* Said[r] are the words of r that say something: those without "...",     *)
(* where there are others.  Ending[n] is the set of the rules with a tree  *)
(* of such words of height n or less; Plain[r] is the word of r in a       *)
(* lowest one.                                                             *)
(***************************************************************************)
Said ==
  [r \in Rules |->
    LET words == {w \in Grammar[r] : \A i \in 1..Len(w) : w[i] # "WHATEVER"}
    IN  IF words = {} THEN Grammar[r] ELSE words]

EndsIn(word, ended) == \A i \in 1..Len(word) : word[i] \in Rules => word[i] \in ended

Ending[n \in Nat] ==
  IF n = 0
    THEN {}
    ELSE LET ended == Ending[n - 1]
         IN  UNION {IF \E w \in Said[r] : EndsIn(w, ended) THEN {r} ELSE {} : r \in Rules}

MaxHeight == 20

Level == [n \in 0..MaxHeight |-> Ending[n]]

Height == [r \in Rules |-> CHOOSE n \in 1..MaxHeight : r \in Level[n] \ Level[n - 1]]

Plain == [r \in Rules |-> CHOOSE w \in Said[r] : EndsIn(w, Level[Height[r] - 1])]

\* Every rule has a tree that ends, so Plain is defined for it.
ASSUME EveryRuleEnds == \A r \in Rules : \E w \in Said[r] : EndsIn(w, Level[Height[r] - 1])
=============================================================================
