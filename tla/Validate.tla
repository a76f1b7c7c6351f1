------------------------------ MODULE Validate ------------------------------
(***************************************************************************)
(* Validation of a parsed function (ast/): every expression gets a type,   *)
(* the operands and operators are put into postfix order (RPN), and the    *)
(* ParseContext records the local variables and the external functions     *)
(* that the generated code will call.  An expression is the tree that the  *)
(* grammar builds; a level of the grammar without an operator only repeats *)
(* what its operand did, and is left out.                                  *)
(***************************************************************************)
EXTENDS Builtins

CONSTANTS
    Factory,       \* FunctionFactory: name -> descriptor
    Members,       \* members of registered types: [of, name, field, func]
    Schemas        \* schema name -> [table, fields]

\* The built-in functions are registered before a program can compile.
ASSUME FactoryAssumption ==
    \A n \in DOMAIN BuiltinTable : n \in DOMAIN Factory /\ Factory[n] = BuiltinTable[n]

ConstantNames == {"pi", "e"}

-----------------------------------------------------------------------------
(***************************************************************************)
(* Expressions.  A literal has a class (the three cases of a number's      *)
(* value) and perhaps a type suffix.                                       *)
(***************************************************************************)
Num(v, suffix) == [k |-> "num", v |-> v, dt |-> suffix]
Bool == [k |-> "bool"]
Str == [k |-> "str"]
Var(x) == [k |-> "var", name |-> x]
Auto(x) == [k |-> "auto", name |-> x]
Un(op, e) == [k |-> "un", op |-> op, e |-> e]
Bin(l, r) == [k |-> "bin", l |-> l, r |-> r]     \* r: sequence of <<op, operand>>
Sel(c, a, b) == [k |-> "sel", c |-> c, a |-> a, b |-> b]
Call(f, args) == [k |-> "call", f |-> f, args |-> args]
Arr(es) == [k |-> "arr", es |-> es]
Member(x, accesses) == [k |-> "member", name |-> x, accesses |-> accesses]
Field(f) == [k |-> "field", field |-> f, call |-> FALSE, args |-> << >>]
Method(f, args) == [k |-> "field", field |-> f, call |-> TRUE, args |-> args]
Index(key) == [k |-> "idx", key |-> key]         \* a literal or Var(x)

\* Statements, functions and the expression compiled as a function's body.
Expr(e) == [k |-> "expr", e |-> e]
Return(e) == [k |-> "return", e |-> e]
Arg(x, d, schema) == [name |-> x, dt |-> d, schema |-> schema]
Func(name, ret, args, body) == [name |-> name, ret |-> ret, args |-> args, body |-> body]

ToFuncDesc(fn) == Desc(FName(fn.name), fn.ret, [i \in DOMAIN fn.args |-> fn.args[i].dt])

-----------------------------------------------------------------------------
(***************************************************************************)
(* ParseContext.  One record per function of the source, found through the *)
(* cursor; the vector of records grows when an index is first used.        *)
(***************************************************************************)
NoDesc == Desc(FName(""), T(INVALID), << >>)
Tag(d, name, schema) == [dt |-> d, name |-> name, schema |-> schema]
NewTag(d) == Tag(d, "", "")

EmptyFunctionCtx == [vars |-> << >>, calls |-> {}, members |-> {}, desc |-> NoDesc]
EmptyCtx == [f |-> << >>, cursor |-> 0]

FunctionCtx(ctx, idx) == IF idx < Len(ctx.f) THEN ctx.f[idx + 1] ELSE EmptyFunctionCtx

SetFunctionCtx(ctx, idx, fc) ==
    [ctx EXCEPT !.f = [i \in 1 .. (IF idx < Len(@) THEN Len(@) ELSE idx + 1) |->
                         IF i = idx + 1 THEN fc ELSE IF i <= Len(@) THEN @[i]
                         ELSE EmptyFunctionCtx]]

Cur(ctx) == FunctionCtx(ctx, ctx.cursor)
SetCur(ctx, fc) == SetFunctionCtx(ctx, ctx.cursor, fc)

\* Clear keeps the cursor.
Clear(ctx) == [ctx EXCEPT !.f = << >>]

SetFuncDesc(ctx, d, idx) ==
    SetFunctionCtx(ctx, idx, [FunctionCtx(ctx, idx) EXCEPT !.desc = InitDesc(d)])

\* SetSource keeps the variables of the functions when an expression is parsed.
SetSource(ctx, clearVars) ==
    IF clearVars THEN [ctx EXCEPT !.f = << >>]
    ELSE [ctx EXCEPT !.f = [i \in DOMAIN @ |-> [@[i] EXCEPT !.calls = {}]]]

GetFuncReturnDType(ctx) == FunctionCtx(ctx, 0).desc.ret
GetFuncContextArgIdx(ctx) == Cur(ctx).desc.ctxArg

IsVarExist(ctx, x) == x \in DOMAIN Cur(ctx).vars

VarTag(ctx, x) ==
    IF IsVarExist(ctx, x) THEN <<Cur(ctx).vars[x]>>
    ELSE IF x \in ConstantNames THEN <<NewTag(T(F64))>> ELSE << >>

\* Only a variable without a type takes the type of what it is assigned.
AddLocalVar(ctx, x, d, schema) ==
    LET fc == Cur(ctx)
    IN  IF x \in DOMAIN fc.vars /\ ~IsVoid(fc.vars[x].dt) THEN ctx
        ELSE SetCur(ctx, [fc EXCEPT !.vars =
                            [y \in DOMAIN @ \cup {x} |->
                               IF y = x THEN Tag(d, x, schema) ELSE @[y]]])

GetFunction(n) == IF n \in DOMAIN Factory THEN <<Factory[n]>> ELSE << >>

\* A function that was found, if any; one that needs a Context is refused to a
\* caller without one, and an external one is noted as called.
Found(ctx, n, local, found) ==
    IF found = << >> THEN [ok |-> FALSE, ctx |-> ctx, desc |-> NoDesc]
    ELSE IF found[1].ctxArg >= 0 /\ GetFuncContextArgIdx(ctx) < 0
    THEN [ok |-> FALSE, ctx |-> ctx, desc |-> found[1]]
    ELSE [ok |-> TRUE, desc |-> found[1],
          ctx |-> IF local THEN ctx ELSE SetCur(ctx, [Cur(ctx) EXCEPT !.calls = @ \cup {n}])]

\* A variant that accepts a function without noting that the code calls it.
CheckFuncExistUnnoted(ctx, n) ==
    LET found == GetFunction(n)
    IN  [ok |-> found # << >>, ctx |-> ctx, desc |-> IF found = << >> THEN NoDesc ELSE found[1]]

\* Local functions up to the cursor come first.  The two sets of names the code keeps (explicit and
\* implicit calls) are only ever merged.
CheckFuncExist(ctx, n) ==
    Given({ i \in 0 .. ctx.cursor : FunctionCtx(ctx, i).desc.name = n }, LAMBDA local :
      Found(ctx, n, local # {},
            IF local # {} THEN <<FunctionCtx(ctx, Min(local)).desc>> ELSE GetFunction(n)))

\* ParseContext::CanCastTo notes the function that converts a string.
CastFunc(from, to) ==
    IF ~IsStringView(to) THEN << >>
    ELSE IF IsPtrTo(from, STD_STRING) THEN <<kBuiltinCastStdStrToStringView>>
    ELSE IF IsPtrTo(from, FLATBUFFERS_STRING) THEN <<kBuiltinCastFbsStrToStringView>>
    ELSE IF Is(from, STD_STRING_VIEW) THEN <<kBuiltinCastStdStrViewToStringView>>
    ELSE << >>

NoteCast(ctx, from, to) ==
    Given(CastFunc(from, to), LAMBDA f :
      IF f # << >> /\ CanCastTo(from, to) THEN CheckFuncExist(ctx, f[1]).ctx ELSE ctx)

AddMemberFuncCall(ctx, d, name, desc) ==
    SetCur(ctx, [Cur(ctx) EXCEPT !.members = @ \cup {[name |-> GetMemberFuncName(d, name),
                                                      desc |-> desc]}])

\* RPN::SetDType: a vector result needs a function that makes a vector.
SetDType(ctx, d) ==
    IF ~IsSimdVector(d) THEN ctx
    ELSE FoldLeft(LAMBDA c, n : CheckFuncExist(c, n).ctx, ctx,
                  <<GetFunctionName(kBuiltinNewSimdVector, Elem(d)), kBuiltinThrowVectorExprEx>>)

-----------------------------------------------------------------------------
\* The outcome of validating an expression: its tag and its postfix nodes.
Valid(ctx, tag, nodes) == [ok |-> TRUE, ctx |-> ctx, tag |-> tag, nodes |-> nodes]
Invalid(ctx) == [ok |-> FALSE, ctx |-> ctx, tag |-> NewTag(T(INVALID)), nodes |-> << >>]

OpNode(op) == [k |-> "op", op |-> op]
FuncNode(desc) == [k |-> "func", desc |-> desc]
ValNode(e) == [k |-> "val", e |-> e]

LiteralDType(e) ==
    IF e.dt # << >> THEN e.dt[1]
    ELSE CASE e.v = "int32" -> T(I32) [] e.v = "int64" -> T(I64) [] OTHER -> T(F64)

IsValidSimdVectorBinaryOperands(l, r) ==
    IF IsSimdVector(l) /\ IsSimdVector(r) THEN SameDType(l, r)
    ELSE \/ \A d \in {l, r} : IsNumber(Elem(d))
         \/ \A d \in {l, r} : CanCastTo(Elem(d), T(STRING_VIEW))

\* The first half of a binary step: can the types meet, and in which type.
Met(ok, ctx, l, r) == [ok |-> ok, ctx |-> ctx, l |-> l, r |-> r]

MeetByCast(noted, fwd, l, r) ==
    IF IsNumber(l) /\ IsNumber(r) THEN Met(TRUE, noted, IF Less(l, r) THEN r ELSE l, r)
    ELSE IF fwd THEN Met(TRUE, noted, r, r)
    ELSE Met(TRUE, noted, l, l)

Meet(ctx, op, l, r) ==
    IF \/ SameDType(l.dt, r.dt)
       \/ IsVoid(l.dt) /\ l.name # "" /\ op = "assign"
    THEN Met(TRUE, ctx, l.dt, r.dt)
    ELSE IF IsSimdVector(l.dt) \/ IsSimdVector(r.dt)
    THEN Met(IsValidSimdVectorBinaryOperands(l.dt, r.dt), ctx, l.dt, r.dt)
    ELSE IF \/ IsJsonPtr(l.dt) /\ IsPrimitive(r.dt)
            \/ IsJsonPtr(r.dt) /\ IsPrimitive(l.dt)
    THEN Met(TRUE, ctx, l.dt, r.dt)
    ELSE IF CanCastTo(l.dt, r.dt) THEN MeetByCast(NoteCast(ctx, l.dt, r.dt), TRUE, l.dt, r.dt)
    ELSE IF CanCastTo(r.dt, l.dt) THEN MeetByCast(NoteCast(ctx, r.dt, l.dt), FALSE, l.dt, r.dt)
    ELSE Met(FALSE, ctx, l.dt, r.dt)

\* The functions a comparison calls; a sequence, empty when it calls none.
CompareCalls(op, l, r) ==
    IF IsNumber(l) /\ IsNumber(r) THEN << >>
    ELSE IF IsStringView(l) /\ IsStringView(r) THEN <<kBuiltinStringViewCmp>>
    ELSE IF IsJsonPtr(l) /\ IsPrimitive(r)
    THEN (IF IsStringView(r) THEN <<kBuiltinStringViewCmp>> ELSE << >>)
           \o <<GetFunctionName(kBuiltinJsonExtract, r)>>
    ELSE IF IsPrimitive(l) /\ IsJsonPtr(r)
    THEN (IF IsStringView(l) THEN <<kBuiltinStringViewCmp>> ELSE << >>)
           \o <<GetFunctionName(kBuiltinJsonExtract, l)>>
    ELSE IF IsJsonPtr(l) /\ IsJsonPtr(r) THEN << >>
    ELSE IF IsStringView(Elem(l)) \/ IsStringView(Elem(r))
    THEN <<GetFunctionName(op, V(STRING_VIEW))>>
    ELSE << >>

Comparable(l, r) ==
    \/ IsNumber(l) /\ IsNumber(r)
    \/ IsStringView(l) /\ IsStringView(r)
    \/ IsJsonPtr(l) /\ (IsPrimitive(r) \/ IsJsonPtr(r))
    \/ IsPrimitive(l) /\ IsJsonPtr(r)
    \/ /\ IsSimdVector(l) \/ IsSimdVector(r)
       /\ \A d \in {Elem(l), Elem(r)} : IsNumber(d) \/ IsStringView(d)

\* Notes all of the names; ok when the last one exists.
NoteAll(ctx, names) ==
    FoldLeft(LAMBDA acc, n : CheckFuncExist(acc.ctx, n),
             [ok |-> TRUE, ctx |-> ctx, desc |-> NoDesc], names)

BitLike(l, r) == IF IsSimdVector(l) \/ IsSimdVector(r) THEN V(BIT) ELSE T(BIT)

\* One operator of a BinaryExpr: acc is what stands left of it, r its operand,
\* m how their types meet.
Operation(acc, op, r, m) ==
    LET nodes == acc.nodes \o r.nodes \o <<OpNode(op)>>
        left == [acc.tag EXCEPT !.dt = m.l]
        arith == [left EXCEPT !.dt = IF IsSimdVector(m.r) THEN m.r ELSE m.l]
    IN  IF ~r.ok \/ ~m.ok THEN Invalid(r.ctx)
        ELSE CASE op \in ArithmeticOps \cup OpAssigns \cup {"pow"} ->
                    IF ~IsNumber(Elem(m.l)) \/ ~IsNumber(Elem(m.r)) THEN Invalid(m.ctx)
                    ELSE Valid(IF op = "pow" /\ IsSimdVector(arith.dt)
                               THEN CheckFuncExist(m.ctx, GetFunctionName(op, arith.dt)).ctx
                               ELSE m.ctx, arith, nodes)
               [] op = "assign" ->
                    Valid(IF left.name = "" THEN m.ctx
                          ELSE AddLocalVar(m.ctx, left.name, m.r, r.tag.schema),
                          [r.tag EXCEPT !.dt = m.r], nodes)
               [] op \in CompareOps ->
                    IF ~Comparable(m.l, m.r) THEN Invalid(m.ctx)
                    ELSE Given(NoteAll(m.ctx, CompareCalls(op, m.l, m.r)), LAMBDA noted :
                           IF ~noted.ok THEN Invalid(noted.ctx)
                           ELSE Valid(noted.ctx, NewTag(BitLike(m.l, m.r)), nodes))
               [] op \in LogicOps ->
                    IF IsSimdVectorBit(m.l) \/ IsSimdVectorBit(m.r)
                    THEN Valid(m.ctx, NewTag(V(BIT)), nodes)
                    ELSE IF IsBit(m.l) /\ IsBit(m.r)
                    THEN Valid(m.ctx, NewTag(T(BIT)), nodes)
                    ELSE Invalid(m.ctx)
               [] OTHER -> Invalid(m.ctx)

BinaryStep(acc, op, r) == Operation(acc, op, r, Meet(r.ctx, op, acc.tag, r.tag))

UnaryAllowed(op, d) ==
    /\ op = "not" => IsBit(d) \/ (IsSimdVector(d) /\ IsBit(Elem(d)))
    /\ op = "negative" => \/ IsNumber(d) /\ IsSigned(d)
                          \/ IsSimdVector(d) /\ IsSigned(Elem(d))

\* The type of a conditional; none when the branches do not fit.
SelectDType(c, a, b) ==
    IF IsBit(c)
    THEN IF CanCastTo(a, b) THEN <<b>> ELSE IF CanCastTo(b, a) THEN <<a>> ELSE << >>
    ELSE IF ~IsSimdVectorBit(c) THEN << >>
    ELSE IF IsSimdVector(a) /\ IsSimdVector(b) THEN (IF SameDType(a, b) THEN <<a>> ELSE << >>)
    ELSE IF IsSimdVector(a) THEN (IF CanCastTo(b, Elem(a)) THEN <<a>> ELSE << >>)
    ELSE IF IsSimdVector(b) THEN (IF CanCastTo(a, Elem(b)) THEN <<b>> ELSE << >>)
    ELSE IF IsNumber(a) /\ IsNumber(b)
    THEN <<ToSimdVector(IF Less(a, b) THEN b ELSE a)>> ELSE << >>

\* The conversion that the test of the branches notes.
SelectNote(ctx, c, a, b) ==
    IF IsBit(c)
    THEN IF CanCastTo(a, b) THEN NoteCast(ctx, a, b) ELSE NoteCast(ctx, b, a)
    ELSE IF ~IsSimdVectorBit(c) THEN ctx
    ELSE IF IsSimdVector(a) /\ ~IsSimdVector(b) THEN NoteCast(ctx, b, Elem(a))
    ELSE IF IsSimdVector(b) /\ ~IsSimdVector(a) THEN NoteCast(ctx, a, Elem(b))
    ELSE ctx

-----------------------------------------------------------------------------
(***************************************************************************)
(* Calls.                                                                  *)
(***************************************************************************)
\* The last vector argument, or else the largest type.
ComputeDType(ds) ==
    LET simd == { i \in DOMAIN ds : IsSimdVector(ds[i]) }
    IN  IF simd # {} THEN ds[Max(simd)]
        ELSE FoldLeft(LAMBDA m, d : IF Less(m, d) THEN d ELSE m, T(INVALID), ds)

has_vector_buitin_func(op, d) == GetFunction(GetFunctionName(op, ToSimdVector(d))) # << >>

\* The name an operator called like a function stands for.
BuiltinName(op, ds) ==
    LET simd == \E i \in DOMAIN ds : IsSimdVector(ds[i])
        numbers == { i \in DOMAIN ds : IsNumber(ds[i]) }
        operands == get_operand_count(op) > 0
    IN  IF op = "iota"
        THEN GetFunctionName(op, IF numbers = {} THEN T(INVALID) ELSE ds[Min(numbers)])
        ELSE IF op \in KeyValueOps THEN GetFunctionName2(op, ds[1], ds[2])
        ELSE IF simd THEN GetFunctionName(op, ds[1])
        ELSE GetFunctionName(op, IF operands THEN ComputeDType(ds) ELSE T(INVALID))

\* The context of the calling function is passed along when it is left out.
WithContext(ctx, desc, ds) ==
    IF desc.ctxArg >= 0 /\ GetFuncContextArgIdx(ctx) >= 0 /\ Len(ds) = Len(desc.args) - 1
    THEN InsertAt(ds, desc.ctxArg + 1, Ctx) ELSE ds

\* A call whose arguments are validated: args has their tags, their nodes on
\* the caller's list and an RPN of its own for each.
\* named is the function, or what the operator stands for.
FinishCall(op, args, ds, named) ==
    IF get_operand_count(op) > 0
    THEN Given(ComputeDType(ds), LAMBDA d :
           IF IsSimdVector(d) /\ ~has_vector_buitin_func(op, d)
           THEN Valid(args.ctx, NewTag(d), args.nodes \o <<OpNode(op)>>)
           ELSE IF ~named.ok THEN Invalid(args.ctx)
           ELSE Valid(named.ctx, NewTag(d), args.nodes \o <<OpNode(op)>>))
    ELSE IF ~named.ok THEN Invalid(args.ctx)
    ELSE IF ~ValidateArgs(named.desc, WithContext(named.ctx, named.desc, ds))
    THEN Invalid(named.ctx)
    ELSE IF op = NoOp /\ named.desc.vec
    THEN Valid(named.ctx, NewTag(ToSimdVector(PtrTo(LastArg(named.desc)))),
               args.nodes \o <<FuncNode(named.desc)>>)
    ELSE Valid(named.ctx, NewTag(named.desc.ret),
               <<ValNode([k |-> "call", f |-> named.desc.name, args |-> args.rpns])>>)

NamedCall(op, pre, args) ==
    Given([i \in DOMAIN args.tags |-> args.tags[i].dt], LAMBDA ds :
      FinishCall(op, args, ds, IF op = NoOp THEN [pre EXCEPT !.ctx = args.ctx]
                               ELSE CheckFuncExist(args.ctx, BuiltinName(op, ds))))

-----------------------------------------------------------------------------
(***************************************************************************)
(* Member access.                                                          *)
(***************************************************************************)
GetStructMember(d, name) ==
    LET found == { m \in Members : SameDType(m.of, d) /\ m.name = name }
    IN  IF found = {} THEN << >> ELSE <<CHOOSE m \in found : TRUE>>

\* One access: the tag it yields and what the code generator needs of it.
Accessed(ctx, tag, access, funcs) ==
    [ok |-> TRUE, ctx |-> ctx, tag |-> tag, access |-> access, funcs |-> funcs]
NoAccess(ctx) ==
    [ok |-> FALSE, ctx |-> ctx, tag |-> NewTag(T(INVALID)), access |-> << >>, funcs |-> << >>]

ByValue(d) ==
    IsPrimitive(d) \/ IsPtr(d) \/ IsSimdVector(d) \/ Is(d, STD_STRING_VIEW) \/ IsAbslSpan(d)

\* A field of an object whose schema is known.
SchemaField(ctx, src, a) ==
    LET s == Schemas[src.schema]
        fd == s.fields[a.field]
        getter == GetFunctionName("get_column", Elem(fd))
        m == GetStructMember(PtrTo(src.dt), getter)
        noted == IF s.table /\ m # << >> /\ m[1].func # << >>
                 THEN AddMemberFuncCall(ctx, PtrTo(src.dt), getter, m[1].func[1]) ELSE ctx
    IN  IF a.field \notin DOMAIN s.fields THEN NoAccess(ctx)
        ELSE Accessed(noted, NewTag(fd),
                      [k |-> IF s.table THEN "column" ELSE "load", dt |-> fd, f |-> getter], << >>)

\* A field or a method of a registered type.  Arguments of methods are not
\* matched with the signature.
FieldAccess(ctx, src, a, args) ==
    LET schema == src.schema # "" /\ IsPtrTo(src.dt, DYN_OBJECT)
        table == schema /\ Schemas[src.schema].table
        name == IF a.call /\ table /\ a.field \in {"topk", "order_by"} /\ Len(args.tags) > 1
                THEN GetFunctionName(a.field, Elem(args.tags[1].dt)) ELSE FName(a.field)
        m == GetStructMember(PtrTo(src.dt), name)
        c == IF a.call THEN args.ctx ELSE ctx
    IN  IF schema /\ ~a.call THEN SchemaField(ctx, src, a)
        ELSE IF m = << >> THEN NoAccess(c)
        ELSE IF ~a.call
        THEN IF m[1].field = << >> THEN NoAccess(c)
             ELSE LET fd == m[1].field[1]
                  IN  Accessed(c, NewTag(IF ByValue(fd) THEN fd ELSE ToPtr(fd)),
                               [k |-> "load", dt |-> fd, f |-> name], << >>)
        ELSE IF m[1].func = << >> THEN NoAccess(c)
        ELSE Accessed(AddMemberFuncCall(c, PtrTo(src.dt), name, m[1].func[1]),
                      [NewTag(m[1].func[1].ret) EXCEPT !.schema = src.schema],
                      [k |-> "method", f |-> name, args |-> args.rpns], << >>)

\* x[key]: members and elements of JSON, elements of vectors and maps.
IndexAccess(ctx, src, a) ==
    LET keyTag == IF a.key.k = "var" THEN VarTag(ctx, a.key.name) ELSE << >>
        byMember == IF a.key.k = "var" THEN ~IsInteger(keyTag[1].dt) ELSE a.key.k = "str"
        getter == IF byMember THEN kBuiltinJsonMemberGet ELSE kBuiltinJsonArrayGet
        noted == CheckFuncExist(ctx, getter)
        to == PtrTo(src.dt)
        m == GetStructMember(to, FName("get"))
        Scalarised(d) == IF IsPtr(d) /\ (IsInteger(PtrTo(d)) \/ IsFloat(PtrTo(d)))
                         THEN PtrTo(d) ELSE d
        node == [k |-> "idx", key |-> a.key]
    IN  IF ~IsPtr(src.dt) THEN NoAccess(ctx)
        ELSE IF IsJsonPtr(src.dt)
        THEN IF \/ a.key.k = "var" /\ keyTag = << >>
                \/ /\ a.key.k = "var"
                   /\ ~IsInteger(keyTag[1].dt) /\ ~IsStringView(keyTag[1].dt)
                   /\ ~Is(keyTag[1].dt, STD_STRING_VIEW)
                \/ ~noted.ok
             THEN NoAccess(ctx)
             ELSE Accessed(noted.ctx, NewTag(P(JSON)), node, <<getter>>)
        ELSE IF to.c \notin {VECTOR, MAP, UNORDERED_MAP} \/ m = << >> THEN NoAccess(ctx)
        ELSE IF m[1].func = << >> THEN NoAccess(ctx)
        ELSE Accessed(AddMemberFuncCall(ctx, to, FName("get"), m[1].func[1]),
                      NewTag(Scalarised(m[1].func[1].ret)), node,
                      <<GetMemberFuncName(to, FName("get"))>>)

-----------------------------------------------------------------------------
(***************************************************************************)
(* Expressions.  The operand, the operator of a UnaryExpr, the chain of a  *)
(* BinaryExpr and the branches of a SelectExpr put their nodes on one list *)
(* in the order of evaluation.                                             *)
(***************************************************************************)
Typed(ctx, d, name, schema, e) == Valid(SetDType(ctx, d), Tag(d, name, schema), <<ValNode(e)>>)

RECURSIVE Validated(_, _)

\* The arguments of a call, left to right: their nodes on one list, and an
\* RPN for each.
ArgsOf(ctx, es) ==
    LET Added(acc, r) ==
          [ok |-> r.ok, ctx |-> r.ctx, tags |-> Append(acc.tags, r.tag),
           nodes |-> acc.nodes \o r.nodes,
           rpns |-> Append(acc.rpns, [nodes |-> r.nodes, dt |-> r.tag.dt])]
    IN  FoldLeft(LAMBDA acc, e : IF acc.ok THEN Added(acc, Validated(acc.ctx, e)) ELSE acc,
                 [ok |-> TRUE, ctx |-> ctx, tags |-> << >>, nodes |-> << >>, rpns |-> << >>], es)

\* One access of a chain; acc is what stands left of it.
Reached(acc, ok, r) ==
    [ok |-> ok /\ r.ok, ctx |-> r.ctx, tag |-> r.tag,
     accesses |-> Append(acc.accesses, r.access), funcs |-> acc.funcs \o r.funcs]

MemberStep(acc, a) ==
    IF ~acc.ok THEN acc
    ELSE IF a.k = "idx" THEN Reached(acc, TRUE, IndexAccess(acc.ctx, acc.tag, a))
    ELSE Given(ArgsOf(acc.ctx, a.args), LAMBDA args :
           Reached(acc, args.ok, FieldAccess(acc.ctx, acc.tag, a, args)))

MemberOf(ctx, e) ==
    IF VarTag(ctx, e.name) = << >> THEN Invalid(ctx)
    ELSE Given(FoldLeft(MemberStep,
                        [ok |-> TRUE, ctx |-> ctx, tag |-> VarTag(ctx, e.name)[1],
                         accesses |-> << >>, funcs |-> << >>], e.accesses), LAMBDA end :
           IF ~end.ok THEN Invalid(end.ctx)
           ELSE Typed(end.ctx, end.tag.dt, "", end.tag.schema,
                      [k |-> "member", name |-> e.name, accesses |-> end.accesses,
                       funcs |-> end.funcs]))

\* The RPN of the whole expression gets its type.
Finished(r) == [r EXCEPT !.ctx = SetDType(r.ctx, r.tag.dt)]

CallOf(ctx, e, op) ==
    Given(IF op = NoOp THEN CheckFuncExist(ctx, FName(e.f))
          ELSE [ok |-> TRUE, ctx |-> ctx, desc |-> NoDesc], LAMBDA pre :
      IF ~pre.ok THEN Invalid(ctx)
      ELSE Given(ArgsOf(pre.ctx, e.args), LAMBDA args :
             IF ~args.ok THEN Invalid(args.ctx) ELSE Finished(NamedCall(op, pre, args))))

ArrayOf(e, es, d) ==
    IF e.es = << >> \/ ~es.ok THEN Invalid(es.ctx)
    ELSE Typed(es.ctx, d, "", "", [k |-> "arr", dt |-> d, rpns |-> es.rpns])

UnaryOf(op, r) ==
    IF ~r.ok \/ ~UnaryAllowed(op, r.tag.dt) THEN Invalid(r.ctx)
    ELSE Finished([r EXCEPT !.nodes = Append(@, OpNode(op))])

SelectOf(c, a, b, d) ==
    IF ~c.ok \/ ~a.ok \/ ~b.ok \/ d = << >> THEN Invalid(b.ctx)
    ELSE Finished(Valid(SelectNote(SetDType(b.ctx, a.tag.dt), c.tag.dt, a.tag.dt, b.tag.dt),
                        NewTag(d[1]), c.nodes \o a.nodes \o b.nodes \o <<OpNode("conditional")>>))

Validated(ctx, e) ==
    CASE e.k = "num" -> Typed(ctx, LiteralDType(e), "", "", e)
      [] e.k = "bool" -> Typed(ctx, T(BIT), "", "", e)
      [] e.k = "str" -> Typed(ctx, T(STRING_VIEW), "", "", e)
      [] e.k = "auto" ->
           IF IsVarExist(ctx, e.name) THEN Invalid(ctx)
           ELSE Typed(AddLocalVar(ctx, e.name, T(VOID), ""), T(VOID), e.name, "", e)
      [] e.k = "var" ->
           LET t == VarTag(ctx, e.name)
           IN  IF t = << >> THEN Invalid(ctx)
               ELSE Typed(ctx, t[1].dt, t[1].name, t[1].schema, e)
      [] e.k = "arr" ->
           Given(ArgsOf(ctx, e.es), LAMBDA es : ArrayOf(e, es, ToAbslSpan(es.tags[1].dt)))
      [] e.k = "member" -> MemberOf(ctx, e)
      [] e.k = "call" -> CallOf(ctx, e, get_buitin_func_op(e.f))
      [] e.k = "un" -> UnaryOf(e.op, Validated(ctx, e.e))
      [] e.k = "bin" ->
           Finished(FoldLeft(LAMBDA acc, right : IF ~acc.ok THEN acc
                               ELSE BinaryStep(acc, right[1], Validated(acc.ctx, right[2])),
                             Validated(ctx, e.l), e.r))
      [] e.k = "sel" ->
           Given(Validated(ctx, e.c), LAMBDA c : Given(Validated(c.ctx, e.a), LAMBDA a :
             Given(Validated(a.ctx, e.b), LAMBDA b :
               SelectOf(c, a, b, SelectDType(c.tag.dt, a.tag.dt, b.tag.dt)))))

-----------------------------------------------------------------------------
(***************************************************************************)
(* Statements and functions.  A returned value must convert to the return  *)
(* type of the function at index 0, whichever function is being validated. *)
(***************************************************************************)
StatementOf(k, r, ret) ==
    LET ok == r.ok /\ (k = "return" => CanCastTo(r.tag.dt, ret))
    IN  [ok |-> ok,
         ctx |-> IF ok /\ k = "return" THEN NoteCast(r.ctx, r.tag.dt, ret) ELSE r.ctx,
         st |-> [k |-> k, rpn |-> [nodes |-> r.nodes, dt |-> r.tag.dt]]]

ValidateStatement(ctx, s) ==
    Given(Validated(ctx, s.e), LAMBDA r : StatementOf(s.k, r, GetFuncReturnDType(r.ctx)))

ValidateFunction(ctx, fn) ==
    LET Declare(acc, a) ==
          [acc EXCEPT !.ok = @ /\ ~IsVarExist(acc.ctx, a.name),
                      !.ctx = AddLocalVar(@, a.name, a.dt, a.schema)]
        Added(acc, r) == [ok |-> r.ok, ctx |-> r.ctx, body |-> Append(acc.body, r.st)]
    IN  FoldLeft(LAMBDA acc, s : IF acc.ok THEN Added(acc, ValidateStatement(acc.ctx, s)) ELSE acc,
                 FoldLeft(Declare, [ok |-> TRUE, ctx |-> ctx, body |-> << >>], fn.args), fn.body)

\* A checked function: what CompileFunctions receives.
Checked(fn, body) == [fn |-> fn, body |-> body]

\* parse_function_ast: the cursor stays where it was.
parse_function_ast(ctx, fn) ==
    Given(ValidateFunction(SetFuncDesc(SetSource(ctx, TRUE), ToFuncDesc(fn), 0), fn), LAMBDA r :
      [ok |-> r.ok, ctx |-> r.ctx, funcs |-> <<Checked(fn, r.body)>>])

\* parse_functions_ast: the cursor follows the functions.
parse_functions_ast(ctx, fns) ==
    LET At(c, i) == SetFuncDesc([c EXCEPT !.cursor = i - 1], ToFuncDesc(fns[i]), i - 1)
        Dup(i) == \E j \in 1 .. i - 1 : fns[j].name = fns[i].name
        Added(acc, i, r) ==
          [ok |-> r.ok /\ ~Dup(i), ctx |-> r.ctx, funcs |-> Append(acc.funcs, Checked(fns[i], r.body))]
    IN  FoldLeft(LAMBDA acc, i : IF ~acc.ok THEN acc
                   ELSE Added(acc, i, ValidateFunction(At(acc.ctx, i), fns[i])),
                 [ok |-> TRUE, ctx |-> SetSource(ctx, TRUE), funcs |-> << >>],
                 [i \in DOMAIN fns |-> i])

\* parse_expression_ast: the variables are those the caller has added, and
\* nothing compares the expression with the return type.
parse_expression_ast(ctx, e, fn) ==
    LET Body(r) == <<[k |-> "return", rpn |-> [nodes |-> r.nodes, dt |-> r.tag.dt]]>>
    IN  Given(Validated(SetFuncDesc(SetSource(ctx, FALSE), ToFuncDesc(fn), 0), e), LAMBDA r :
          [ok |-> r.ok, ctx |-> r.ctx, funcs |-> <<Checked(fn, Body(r))>>])
=============================================================================
