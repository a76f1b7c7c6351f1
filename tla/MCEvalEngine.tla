---------------------------- MODULE MCEvalEngine ----------------------------
(* Two threads, three function texts and an expression over a cache of two.    *)
(* f1 has two functions of the same signature; f2 does not compile.  The       *)
(* expression is called with its two arguments named in either order, and      *)
(* compiles under one of the signatures in one of them only.                   *)
EXTENDS EvalEngine

MCDeclared == [s \in FuncSource |-> IF s = "f1" THEN <<"int", "bool", "int">> ELSE <<"bool">>]
MCBroken == {<<"f2", "bool", NoArgs>>, <<"e1", "bool", "yx">>}
=============================================================================
