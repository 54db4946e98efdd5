----------------------------- MODULE MCSyslWalk -----------------------------
(***************************************************************************)
(* Parse trees for SyslWalk: any rule may have any of its words.           *)
(***************************************************************************)
EXTENDS SyslWalk

AllRules == Rules

\* Types with fields, of which some have sets for their types.
TypeRules == {"app_decl", "table", "table_def", "table_stmts", "field", "field_type", "collection_type"}
=============================================================================
