---------------------------- MODULE MCImportLoop ----------------------------
(* Projects of three files, two of them in the root directory and one in   *)
(* lib, that import each other under the spellings one file can have, with *)
(* cycles and diamonds; a fourth file lies outside of the root.            *)
EXTENDS ImportLoop

a == <<"a">>
b == <<"b">>
c == <<"lib", "c">>
outside == <<"..", "o">>

MCFile == {a, b, c, outside}
MCRoot == a

UpTo(n, S) == UNION {[1..k -> S] : k \in 0..n}

FromA == {a, b, c, <<Slash, "b">>, <<Up, "o">>}
FromB == {a, c, <<Slash, "lib", "c">>}
FromC == {<<Up, "a">>, <<Up, "b">>, <<"c">>, <<Slash, "b">>, <<Up, Up, "o">>}

MCProjects ==
  {[f \in MCFile |-> CASE f = a -> ia [] f = b -> ib [] f = c -> ic [] OTHER -> <<>>] :
     ia \in UpTo(2, FromA), ib \in UpTo(1, FromB), ic \in UpTo(2, FromC)}
============================================================================
