----------------------------- MODULE MCCompiler -----------------------------
(***************************************************************************)
(* Sources that compile, that do not validate and that do not build, of    *)
(* one function and of several, and expressions that call other functions. *)
(***************************************************************************)
EXTENDS Compiler

B(l, op, r) == Bin(l, <<<<op, r>>>>)
X == Arg("x", T(F64), "")
One(name, ret, e) == Func(name, ret, <<X>>, <<Return(e)>>)

Sqrt == One("f", T(F64), Call("sqrt", <<Var("x")>>))
Plus == One("g", T(F64), B(Var("x"), "add", Var("x")))
CallsF == One("g", T(F64), B(Call("f", <<Var("x")>>), "add", Call("tan", <<Var("x")>>)))
Unknown == One("f", T(F64), Var("y"))
NoBuild == Func("f", T(F64), <<X>>, <<Expr(B(Auto("y"), "assign", Num("int32", << >>))),
                                      Expr(B(Var("y"), "assign", Var("x"))), Return(Var("x"))>>)

MCSources == {<<Sqrt>>, <<CallsF>>, <<Unknown>>, <<NoBuild>>, <<Sqrt, CallsF>>, <<Plus, NoBuild>>,
              <<Plus, Plus>>}

Ex(e, args, types) == [e |-> e, args |-> args, types |-> types, ret |-> T(F64)]
N(x) == [name |-> x, schema |-> ""]
MCExpressions ==
    {Ex(Call("tan", <<Var("x")>>), <<N("x")>>, <<T(F64)>>),
     Ex(B(Var("x"), "add", Var("y")), <<N("x"), N("y")>>, <<T(F64), T(F64)>>),
     Ex(Var("x"), <<N("x"), N("x")>>, <<T(F64), T(F64)>>),
     Ex(Var("x"), <<N("x")>>, << >>),
     Ex(Call("f", <<Var("x")>>), <<N("x")>>, <<T(F64)>>),
     Ex(B(Var("x"), "add", Var("x")), <<N("x")>>, <<T(F64)>>)}

MCSchemas == << >>

MCFactory ==
    LET host == {InitDesc(Desc(FName("twice"), T(I32), <<T(I32)>>))}
    IN  FactoryTable(host)
=============================================================================
