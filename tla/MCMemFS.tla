------------------------------- MODULE MCMemFS -------------------------------
(* Finite instances of MemFS. *)
EXTENDS MemFS

Letters == {"/", "a", "b"}

\* /a, /ab, /a/b, /a/b/a
SomePaths == {<<"/", "a">>, <<"/", "a", "b">>, <<"/", "a", "/", "b">>,
              <<"/", "a", "/", "b", "/", "a">>}
SomeData == {<<1>>, <<2, 2>>}
=============================================================================
