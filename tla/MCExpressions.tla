---------------------------- MODULE MCExpressions ----------------------------
(***************************************************************************)
(* One function with an argument of each kind, and the statements and      *)
(* returned expressions that it is made of.                                *)
(***************************************************************************)
EXTENDS Expressions

MCFuncArgs ==
    <<Arg("c", Ctx, ""), Arg("a", T(I32), ""), Arg("b", T(F64), ""), Arg("v", V(F64), ""),
      Arg("w", V(F64), ""), Arg("s", T(STRING_VIEW), ""), Arg("j", P(JSON), ""),
      Arg("o", P(OBJECT_BEGIN), ""), Arg("g", T(F32), "")>>

MCFuncRet == {T(F64), V(F64)}

MCFactory ==
    LET host == {InitDesc(Desc(FName("twice"), T(I32), <<T(I32)>>)),
                 InitDesc(Desc(FName("make"), T(F64), <<Ctx, T(I32)>>))}
    IN  FactoryTable(host)

MCMembers ==
    {[of |-> T(OBJECT_BEGIN), name |-> FName("id"), field |-> <<T(I32)>>, func |-> << >>],
     [of |-> T(OBJECT_BEGIN), name |-> FName("len"), field |-> << >>,
      func |-> <<InitDesc(Desc(FName("len"), T(I32), <<P(OBJECT_BEGIN)>>))>>]}

MCSchemas == << >>

B(l, op, r) == Bin(l, <<<<op, r>>>>)
Two == Num("int32", << >>)
Half == Num("real", << >>)
Long == Num("int64", << >>)

\* Assignments that are operands.
Inner ==
    {B(Var("a"), "assign", Two), B(Var("b"), "assign", Half), B(Var("a"), "sub_assign", Two),
     B(Var("x"), "assign", Var("a"))}

MCStatements ==
    { Expr(e) : e \in
        {B(Auto("x"), "assign", B(Var("a"), "sub", Two)), B(Auto("x"), "assign", Var("a")),
         B(Auto("x"), "assign", Two), Auto("x"),
         B(Auto("x"), "assign", Var("v")), B(Auto("x"), "assign", B(Var("v"), "gt", Var("w"))),
         B(Var("x"), "assign", Var("b")), B(Var("x"), "sub_assign", Var("a")),
         B(Var("x"), "add_assign", Var("x")), B(Var("v"), "sub_assign", Var("x")),
         B(Var("a"), "assign", B(Var("x"), "sub", Var("a"))),
         B(Member("o", <<Field("id")>>), "assign", Var("a")),
         B(Auto("y"), "assign", Member("o", <<Field("id")>>)),
         B(Auto("y"), "assign", Call("twice", <<Var("x")>>)),
         B(Auto("x"), "assign", B(Var("a"), "assign", Two)),
         B(Var("v"), "sub_assign", B(Var("a"), "assign", Two))} }

Operands ==
    {Var("a"), Var("b"), Var("g"), Var("v"), Var("x"), Half}

MCReturns ==
    { B(l, op, r) : l, r \in Operands, op \in {"sub", "pow"} }
    \cup { Bin(l, <<<<"sub", r>>, <<"add", Var("w")>>>>) : l, r \in Operands }
    \cup { Sel(c, l, r) : c \in {B(Var("a"), "lt", Var("x")), B(Var("v"), "lt", Var("a")), Var("x")},
                           l, r \in Operands }
    \cup { B(l, "sub", r) : l \in Operands \cup {Call("twice", <<Var("a")>>), Long}, r \in Inner }
    \cup { B(l, "sub", r) : l \in Inner, r \in Operands \cup {Call("twice", <<Var("a")>>), Long} }
    \cup { Sel(B(Var("b"), "lt", Half), l, Half) : l \in Inner }
    \cup { Un("negative", e) : e \in Operands \cup Inner }
    \cup { B(e, "sub", Long) : e \in {Var("a"), Var("x"), Two} }
    \cup { Call("sqrt", <<e>>) : e \in Operands } \cup { Call("max", <<e, Var("b")>>) : e \in Operands }
    \cup {Call("make", <<Var("x")>>), Call("make", <<Var("c"), Var("b")>>), Call("twice", <<Half>>), Call("twice", <<Long>>),
          Call("max", <<Var("b"), B(Var("b"), "assign", Half)>>),
          Call("twice", <<B(Var("a"), "assign", Two)>>),
          Call("sum", <<Var("v")>>), Call("dot", <<Var("v"), Var("x")>>),
          Call("filter", <<Var("v"), Var("x")>>), Var("x"), Var("y"),
          Sel(B(Var("s"), "eq", Str), Var("b"), Half),
          Sel(B(Member("j", <<Index(Str)>>), "eq", Str), Var("b"), Half),
          Sel(B(Member("j", <<Index(Str), Index(Two)>>), "gt", Half), Var("b"), Half),
          B(Member("o", <<Field("id")>>), "sub", Member("o", <<Method("len", << >>)>>)),
          B(Member("j", <<Index(Str)>>), "sub", Var("b"))}
=============================================================================
