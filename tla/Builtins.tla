------------------------------ MODULE Builtins ------------------------------
(***************************************************************************)
(* Function descriptors (meta/function.cc), the operators of the language  *)
(* (meta/optype.h, meta/operand.h) and the table of built-in functions     *)
(* that init_builtin fills (functions/).  What a function computes is      *)
(* external; the compiler sees its name and its signature.                 *)
(***************************************************************************)
EXTENDS DType, SequencesExt

T(t0) == Fundamental(t0)
V(t0) == ToSimdVector(Fundamental(t0))
P(t0) == ToPtr(Fundamental(t0))

\* What Then makes of v: names the result of a step that the next ones use.
Given(v, Then(_)) == Then(v)

-----------------------------------------------------------------------------
\* A function name: a word, and the element types it is put together with.
FName(f) == [f |-> f, on |-> << >>, simd |-> FALSE, of |-> << >>]

GetFunctionName(op, d) ==
    [f |-> op, on |-> <<Elem(d)>>, simd |-> IsSimdVector(d), of |-> << >>]

GetFunctionName2(op, d0, d1) ==
    [f |-> op, on |-> <<Elem(d0), Elem(d1)>>,
     simd |-> IsSimdVector(d0) \/ IsSimdVector(d1), of |-> << >>]

GetMemberFuncName(d, member) == [member EXCEPT !.of = <<d>>]

Desc(name, ret, args) ==
    [name |-> name, ret |-> ret, args |-> args, ctxArg |-> -1, vec |-> FALSE]

\* FunctionDesc::Init: the position (from 0) of the first Context argument.
InitDesc(d) ==
    LET at == { i \in DOMAIN d.args : IsContextPtr(d.args[i]) }
    IN  [d EXCEPT !.ctxArg = IF at = {} THEN -1 ELSE Min(at) - 1]

GetOperandCount(d) ==
    Len(d.args) - (IF d.ctxArg >= 0 THEN 1 ELSE 0) - (IF d.vec THEN 1 ELSE 0)

LastArg(d) == d.args[Len(d.args)]

\* The System V convention has six integer registers: an argument of two
\* words that no longer fits is passed in memory.
TwoWords(t) == IsAbslSpan(t) \/ IsStringView(t) \/ Is(t, STD_STRING_VIEW) \/ IsSimdVector(t)

RegistersOf(t) ==
    IF IsPtr(t) \/ IsInteger(t) \/ IsBit(t) THEN 1 ELSE IF TwoWords(t) THEN 2 ELSE 0

PassArgByValue(d, argno) ==
    /\ argno <= Len(d.args)
    /\ TwoWords(d.args[argno])
    /\ FoldLeft(LAMBDA used, t : used + RegistersOf(t), 0, SubSeq(d.args, 1, argno)) > 6

ValidateArgs(d, ts) ==
    LET n == IF d.vec THEN Len(d.args) - 1 ELSE Len(d.args)
    IN  /\ Len(ts) = n
        /\ \A i \in 1 .. n :
              IF ~d.vec THEN CanCastTo(ts[i], d.args[i])
              ELSE IF IsSimdVector(ts[i]) THEN SameDType(Elem(ts[i]), PtrTo(d.args[i]))
              ELSE CanCastTo(ts[i], PtrTo(d.args[i]))

CompareSignature(d, ret, args) ==
    /\ SameDType(d.ret, ret)
    /\ Len(d.args) = Len(args)
    /\ \A i \in DOMAIN args : SameDType(d.args[i], args[i])

\* FunctionFactory::Register: the first function of a name stays.
Register(regs, d) ==
    IF \E r \in regs : r.name = d.name THEN regs ELSE regs \cup {InitDesc(d)}

RegisterVectorFunction(regs, d) ==
    IF Len(d.args) < 2 \/ \E i \in DOMAIN d.args : ~IsPtr(d.args[i]) THEN regs
    ELSE Register(regs, [d EXCEPT !.vec = TRUE])

-----------------------------------------------------------------------------
(***************************************************************************)
(* Operators.  The words are those of kOpTokenStrs.                        *)
(***************************************************************************)
FloatOps1 ==
    {"sqrt", "cbrt", "floor", "ceil", "round", "rint", "trunc", "erf", "erfc", "sin", "cos",
     "tan", "asin", "acos", "atan", "atanh", "sinh", "cosh", "tanh", "asinh", "acosh", "exp",
     "exp2", "expm1", "log", "log2", "log10", "log1p"}
ApproxOps == {"approx_recip", "approx_recip_sqrt"}
UnaryOps == FloatOps1 \cup ApproxOps \cup {"positive", "negative", "not", "abs"}

ArithmeticOps == {"add", "sub", "multiply", "divide", "mod"}
OpAssigns == {"add_assign", "sub_assign", "multiply_assign", "divide_assign", "mod_assign"}
CompareOps == {"eq", "ne", "lt", "le", "gt", "ge"}
LogicOps == {"and", "or"}
BinaryOps ==
    ArithmeticOps \cup OpAssigns \cup CompareOps \cup LogicOps
      \cup {"assign", "xor", "atan2", "max", "min", "pow", "hypot", "abs_diff"}

TernaryOps == {"conditional", "clamp", "fma", "fms", "fnma", "fnms"}

KeyValueOps == {"sort_kv", "select_kv", "topk_kv"}
MiscOps ==
    KeyValueOps \cup {"dot", "cos_distance", "l2_distance", "iota", "sort", "select", "topk",
                      "argsort", "argselect", "sum", "avg", "clone", "filter", "gather"}

\* The operator that an op-assignment applies before it assigns.
Applied ==
    [op \in OpAssigns |->
        CASE op = "add_assign" -> "add" [] op = "sub_assign" -> "sub"
          [] op = "multiply_assign" -> "multiply" [] op = "divide_assign" -> "divide"
          [] op = "mod_assign" -> "mod"]

get_operand_count(op) ==
    IF op \in UnaryOps THEN 1 ELSE IF op \in BinaryOps THEN 2
    ELSE IF op \in TernaryOps THEN 3 ELSE -1

\* get_buitin_func_op: the operator that a called name stands for.
NoOp == "invalid"
get_buitin_func_op(name) ==
    IF name \in UnaryOps \cup BinaryOps \cup TernaryOps \cup MiscOps THEN name ELSE NoOp

-----------------------------------------------------------------------------
(***************************************************************************)
(* The built-in functions.                                                 *)
(***************************************************************************)
Reals == {F32, F64, F80}
Ints == {I64, I32, I16, I8, U64, U32, U16, U8}
VectorReals == {F32, F64}
WideInts == {I64, I32, U64, U32}
Ctx == P(CONTEXT)

Scalar(op, n, types) ==
    { InitDesc(Desc(GetFunctionName(op, T(t)), T(t), [i \in 1 .. n |-> T(t)])) : t \in types }

init_builtin_math_funcs ==
    UNION ( { Scalar(op, 1, Reals) : op \in FloatOps1 }
       \cup { Scalar("abs", 1, Reals \cup {I64, I32}), Scalar("abs_diff", 2, Reals \cup {I64, I32}) }
       \cup { Scalar(op, 2, Reals) : op \in {"pow", "hypot", "atan2"} }
       \cup { Scalar(op, 2, Reals \cup Ints) : op \in {"max", "min"} }
       \cup { Scalar("clamp", 3, Reals \cup Ints) }
       \cup { Scalar(op, 3, Reals) : op \in {"fma", "fms", "fnma", "fnms"} } )
    \cup { Desc(FName("random"), T(U64), <<T(U64)>>), Desc(FName("random_f"), T(F64), <<T(U64)>>) }

kBuiltinStringViewCmp == FName("rapidudf_compare_string_view")
kBuiltinCastStdStrToStringView == FName("rapidudf_cast_stdstr_to_string_view")
kBuiltinCastFbsStrToStringView == FName("rapidudf_cast_fbsstr_to_string_view")
kBuiltinCastStdStrViewToStringView == FName("rapidudf_cast_stdstrview_to_string_view")

init_builtin_strings_funcs ==
    {Desc(kBuiltinStringViewCmp, T(BIT), <<T(U32), T(STRING_VIEW), T(STRING_VIEW)>>),
     Desc(kBuiltinCastStdStrToStringView, T(STRING_VIEW), <<P(STD_STRING)>>),
     Desc(kBuiltinCastFbsStrToStringView, T(STRING_VIEW), <<P(FLATBUFFERS_STRING)>>),
     Desc(kBuiltinCastStdStrViewToStringView, T(STRING_VIEW), <<T(STD_STRING_VIEW)>>)}
    \cup { Desc(GetFunctionName(op, V(STRING_VIEW)), T(VOID),
                <<P(STRING_VIEW), P(STRING_VIEW), P(U8)>>) : op \in CompareOps }

kBuiltinJsonMemberGet == FName("rapidudf_json_member_get")
kBuiltinJsonArrayGet == FName("rapidudf_json_array_get")
kBuiltinJsonExtract == "rapidudf_json_extract"

init_builtin_json_funcs ==
    {Desc(kBuiltinJsonMemberGet, P(JSON), <<P(JSON), T(STRING_VIEW)>>),
     Desc(kBuiltinJsonArrayGet, P(JSON), <<P(JSON), T(U64)>>)}
    \cup { Desc(GetFunctionName(kBuiltinJsonExtract, T(t)), T(t), <<P(JSON)>>) :
             t \in Ints \cup {BIT, F32, F64, STRING_VIEW} }

kBuiltinNewSimdVector == "rapidudf_new_simd_vector"
kBuiltinThrowVectorExprEx == FName("rapidudf_throw_vector_expr_error")

\* A kernel works on one unit of elements, given by pointers.
Kernel(op, n, types) ==
    { Desc(GetFunctionName(op, V(t)), T(VOID), [i \in 1 .. n + 1 |-> P(t)]) : t \in types }

NewVectors ==
    { InitDesc(Desc(GetFunctionName(kBuiltinNewSimdVector, T(t)), V(t), <<Ctx, T(U32)>>)) :
        t \in Reals \cup Ints \cup {BIT, STRING_VIEW} }

\* A function on whole vectors; the ones that make a vector need the Context.
WholeVector(op, t, ret, args) == InitDesc(Desc(GetFunctionName(op, V(t)), ret, args))

VectorFuncs ==
    LET Held == Ints \cup VectorReals \cup {STRING_VIEW, BIT}
        Sortable == WideInts \cup VectorReals \cup {I16, U16}
        Summed == WideInts \cup VectorReals
        Flag(t) == <<Ctx, V(t), T(BIT)>>
        Count(t) == <<Ctx, V(t), T(U64), T(BIT)>>
    IN  { WholeVector("dot", t, T(t), <<V(t), V(t)>>) : t \in VectorReals }
        \cup { WholeVector(op, t, T(t), <<V(t)>>) : op \in {"sum", "avg"}, t \in Summed }
        \cup { WholeVector("filter", t, V(t), <<Ctx, V(t), V(BIT)>>) : t \in Held }
        \cup { WholeVector("gather", t, V(t), <<Ctx, V(t), V(I32)>>) : t \in Held }
        \cup { WholeVector("sort", t, T(VOID), Flag(t)) : t \in Sortable }
        \cup { WholeVector(op, t, T(VOID), Count(t)) : op \in {"select", "topk"}, t \in Sortable }
        \cup { WholeVector("argsort", t, V(U64), Flag(t)) : t \in Sortable }
        \cup { WholeVector("argselect", t, V(U64), Count(t)) : t \in Sortable }
        \cup { InitDesc(Desc(GetFunctionName("iota", T(t)), V(t), <<Ctx, T(t), T(U32)>>)) :
                 t \in Summed }
        \cup { InitDesc(Desc(GetFunctionName2(op, V(k), V(v)), T(VOID),
                             <<Ctx, V(k), V(v)>> \o (IF op = "sort_kv" THEN << >> ELSE <<T(U64)>>)
                               \o <<T(BIT)>>)) : op \in KeyValueOps, k, v \in Summed }

Kernels ==
    UNION ( { Kernel(op, 1, VectorReals) : op \in (FloatOps1 \ {"cbrt"}) \cup ApproxOps }
       \cup { Kernel(op, 2, VectorReals) : op \in {"hypot", "atan2", "pow"} }
       \cup { Kernel("abs_diff", 2, VectorReals \cup {I64, I32, I16, I8}) }
       \cup { Kernel(op, 3, VectorReals \cup WideInts) : op \in TernaryOps \ {"conditional"} } )

init_builtin_simd_vector_funcs ==
    {Desc(kBuiltinThrowVectorExprEx, T(VOID), <<T(I32), T(STRING_VIEW), T(STRING_VIEW)>>)}
    \cup NewVectors \cup VectorFuncs \cup Kernels

init_builtin_time_funcs == { Desc(FName(f), T(U64), << >>) : f \in {"now_us", "now_ms", "now_s"} }

init_builtin ==
    init_builtin_math_funcs \cup init_builtin_strings_funcs \cup init_builtin_json_funcs
      \cup init_builtin_simd_vector_funcs \cup init_builtin_time_funcs

\* The table as a function of the name, and with functions of the program.
BuiltinTable == [n \in { d.name : d \in init_builtin } |-> CHOOSE d \in init_builtin : d.name = n]

FactoryTable(userFuncs) ==
    BuiltinTable @@ [n \in { d.name : d \in userFuncs } |-> CHOOSE d \in userFuncs : d.name = n]
=============================================================================
