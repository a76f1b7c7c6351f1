------------------------------ MODULE MCTable -------------------------------
(* Two row schemas: users with two values of their column, and tags that all  *)
(* hold the same, so that rows agree in one column and differ in the other.   *)
EXTENDS Table

MCObj == <<{"u1", "u2"}, {"tag"}>>
MCColSchema == [c \in Col |-> IF c = "id" THEN 1 ELSE 2]
MCField == [c \in Col |-> [o \in MCObj[MCColSchema[c]] |-> IF o = "u2" THEN 2 ELSE 1]]
MCBatch == << {<<"u1">>, <<"u2", "u1">>}, {<<"tag">>, <<"tag", "tag">>} >>
MCSymmetry == Permutations(Tab)
=============================================================================
