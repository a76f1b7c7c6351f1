------------------------------- MODULE CodeGen -------------------------------
(***************************************************************************)
(* Generation of code for a checked function (compiler/): the postfix      *)
(* nodes of a statement are run over a stack of operands that stand for    *)
(* LLVM values.  LLVM is external: what an instruction computes is the     *)
(* term it builds, so that the generated code is executed symbolically;    *)
(* a conversion is part of the term, with the instruction that does it.    *)
(***************************************************************************)
EXTENDS Validate

-----------------------------------------------------------------------------
(***************************************************************************)
(* Terms and values.  A value is a register, or a place in memory that is  *)
(* loaded when it is used; a place is <<"slot", n>> on the stack, or       *)
(* <<"field", object, name>>.                                              *)
(***************************************************************************)
Lit(c) == <<"lit", c>>
In(x) == <<"in", x>>
App(word, ts) == <<"app", word, ts>>
Cast(instr, from, to, t) == <<"cast", instr, from, to, t>>
Undef == <<"undef">>

RegisterOf(d, t, const) == [dt |-> d, at |-> << >>, t |-> t, const |-> const]
Reg(d, t) == RegisterOf(d, t, FALSE)
Const(d, t) == RegisterOf(d, t, TRUE)
Place(d, at) == [dt |-> d, at |-> at, t |-> Undef, const |-> FALSE]

\* An operand is a variable, shared by everyone who names it, or a value.
Named(x) == [n |-> x, val |-> Reg(T(VOID), Undef)]
Temp(v) == [n |-> "", val |-> v]

\* The code generator: the variables, memory and functions of the function
\* being built.  bad: it holds an instruction that verifyFunction rejects;
\* null: a value that does not exist was used; missing: functions that were
\* called without being declared; widened: a signed integer was made wider;
\* stored, lanes: the element types that the last loop over vectors stores and
\* loads.
NewCodeGen(decl) ==
    [vars |-> << >>, mem |-> << >>, next |-> 1, decl |-> decl, locals |-> << >>,
     ok |-> TRUE, bad |-> FALSE, null |-> FALSE, missing |-> {}, widened |-> FALSE,
     ret |-> Undef, desc |-> NoDesc, stored |-> << >>, lanes |-> {}]

With(f, k, v) == [x \in DOMAIN f \cup {k} |-> IF x = k THEN v ELSE f[x]]

Res(cg, o) == [cg |-> cg, o |-> o]
NoValue == Temp(Reg(T(INVALID), Undef))
Fail(cg) == Res([cg EXCEPT !.ok = FALSE], NoValue)

ValueOf(cg, o) == IF o.n = "" THEN o.val ELSE cg.vars[o.n]
DTypeIn(cg, o) == ValueOf(cg, o).dt

\* LoadValue.  A variable that was never assigned has no value at all.
IsNull(v) == IsVoid(v.dt) /\ v.at = << >>
LoadValue(cg, v) ==
    IF v.at = << >> THEN v.t ELSE IF v.at \in DOMAIN cg.mem THEN cg.mem[v.at] ELSE <<"old", v.at>>

Loads(cg, os) == [i \in DOMAIN os |-> LoadValue(cg, ValueOf(cg, os[i]))]
Touch(cg, os) ==
    [cg EXCEPT !.null = @ \/ \E i \in DOMAIN os : IsNull(ValueOf(cg, os[i]))]

Store(cg, at, t) == [cg EXCEPT !.mem = With(@, at, t)]

NewSlot(cg, d, t) ==
    Res([Store(cg, <<"slot", cg.next>>, t) EXCEPT !.next = @ + 1],
        Temp(Place(d, <<"slot", cg.next>>)))

\* Value::CopyFrom.  A variable without a type that is given a place takes
\* that place; it only gets a place of its own for a register.
CopyFrom(cg, o, from) ==
    LET v == ValueOf(cg, o)
        w == ValueOf(cg, from)
        slot == NewSlot(cg, w.dt, LoadValue(cg, w))
        Rename(c, val) == [c EXCEPT !.vars[o.n] = val]
    IN  IF IsVoid(v.dt) /\ o.n # ""
        THEN IF w.at # << >> THEN Rename(cg, w)
             ELSE IF IsNull(w) THEN [cg EXCEPT !.null = TRUE, !.ok = FALSE]
             ELSE Rename(slot.cg, slot.o.val)
        ELSE IF ~SameDType(v.dt, w.dt) \/ v.at = << >> THEN [cg EXCEPT !.ok = FALSE]
        ELSE Store(cg, v.at, LoadValue(cg, w))

-----------------------------------------------------------------------------
(***************************************************************************)
(* Calls and conversions.  A conversion may call a function, the arguments *)
(* of which are converted in turn.                                         *)
(***************************************************************************)
FindCallee(cg, n) ==
    IF n \in DOMAIN cg.decl THEN <<cg.decl[n]>>
    ELSE IF n \in DOMAIN cg.locals THEN <<cg.locals[n]>> ELSE << >>

\* A reference to a number is loaded; a vector is put on the stack.
Returned(cg, d, t) ==
    IF IsPtr(d) /\ (IsInteger(PtrTo(d)) \/ IsFloat(PtrTo(d)))
    THEN Res(cg, Temp(Place(PtrTo(d), <<"ref", t>>)))
    ELSE IF IsSimdVector(d) THEN NewSlot(cg, d, t)
    ELSE Res(cg, Temp(Reg(d, t)))

\* The function that converts, when one is called.
Converter(from, to) ==
    IF IsJsonPtr(from) /\ IsPrimitive(to) THEN <<GetFunctionName(kBuiltinJsonExtract, to)>>
    ELSE IF IsStringView(to) /\ IsPtrTo(from, STD_STRING) THEN <<kBuiltinCastStdStrToStringView>>
    ELSE IF IsStringView(to) /\ IsPtrTo(from, FLATBUFFERS_STRING)
    THEN <<kBuiltinCastFbsStrToStringView>> ELSE << >>

\* The instruction between two numbers.  A wider integer is filled with zeros,
\* whatever its sign; FPExt and FPTrunc are the wrong way round.
CastInstruction(from, to) ==
    CASE IsFloat(to) /\ IsInteger(from) -> IF IsSigned(from) THEN "sitofp" ELSE "uitofp"
      [] IsFloat(to) /\ ~IsInteger(from) -> IF Bits(from) > Bits(to) THEN "fpext" ELSE "fptrunc"
      [] ~IsFloat(to) /\ IsFloat(from) -> IF IsSigned(to) THEN "fptosi" ELSE "fptoui"
      [] OTHER -> IF Bits(to) > Bits(from) THEN "zext" ELSE "trunc"

\* CodeGen::CastTo.  Between two floats LLVM only accepts the instruction of a
\* constant, which it folds to the value of the other type.
CastTo(cg, o, to) ==
    LET v == ValueOf(cg, o)
        conv == Converter(v.dt, to)
        callee == FindCallee(cg, conv[1])
        wrong == IsFloat(v.dt) /\ IsFloat(to) /\ ~v.const
        instr == CastInstruction(v.dt, to)
        By(word) == Cast(word, v.dt, to, LoadValue(cg, v))
    IN  IF SameDType(v.dt, to) THEN Res(cg, o)
        ELSE IF ~CanCastTo(v.dt, to) THEN Fail(cg)
        ELSE IF conv # << >>
        THEN IF callee = << >> THEN Fail([cg EXCEPT !.missing = @ \cup {conv[1]}])
             ELSE Res(cg, Temp(Reg(to, By("call"))))
        ELSE IF ~IsNumber(to) THEN Fail(cg)
        ELSE Res([Touch(cg, <<o>>) EXCEPT !.bad = @ \/ wrong,
                                          !.widened = @ \/ (instr = "zext" /\ IsSigned(v.dt))],
                 Temp(RegisterOf(to, By(instr), v.const)))

\* Converts the operands in turn, each to the type of its place.
Pushed(acc, r) == [cg |-> r.cg, os |-> Append(acc.os, r.o)]

CastAll(cg, os, ds) ==
    FoldLeft(LAMBDA acc, i :
               IF acc.cg.ok THEN Pushed(acc, CastTo(acc.cg, os[i], ds[i])) ELSE acc,
             [cg |-> cg, os |-> << >>], [i \in DOMAIN os |-> i])

\* The arguments of a call, with the Context of the function if it is left out.
GivenArgs(cg, d, os) ==
    LET context == { x \in DOMAIN cg.vars : IsContextPtr(cg.vars[x].dt) }
    IN  IF d.ctxArg >= 0 /\ Len(os) = Len(d.args) - 1 /\ context # {}
        THEN InsertAt(os, d.ctxArg + 1, Named(CHOOSE x \in context : TRUE)) ELSE os

\* CodeGen::CallFunction.  The call stands for the application of word to the
\* converted arguments, those from number first on, without the Context that
\* was put in.
CallDesc(cg, d, os, given, word, first) ==
    LET Written(ts) == IF Len(given) = Len(os) THEN ts ELSE RemoveAt(ts, d.ctxArg + 1)
        Meant(ts) == App(word, SubSeq(ts, first, Len(ts)))
    IN  IF Len(given) # Len(d.args) THEN Fail(cg)
        ELSE Given(CastAll(cg, given, d.args), LAMBDA args :
               IF args.cg.ok
               THEN Returned(Touch(args.cg, args.os), d.ret, Meant(Written(Loads(args.cg, args.os))))
               ELSE Fail(args.cg))

CallMeaning(cg, n, os, word, first) ==
    Given(FindCallee(cg, n), LAMBDA callee :
      IF callee = << >> THEN Fail([cg EXCEPT !.missing = @ \cup {n}])
      ELSE CallDesc(cg, callee[1], os, GivenArgs(cg, callee[1], os), word, first))

CallFunction(cg, n, os) == CallMeaning(cg, n, os, n.f, 1)

-----------------------------------------------------------------------------
(***************************************************************************)
(* Operators on scalars.                                                   *)
(***************************************************************************)
\* A variant that takes the first type.
NormalizeDTypeFirst(ds) == IF IsNumber(ds[1]) THEN <<ds[1]>> ELSE << >>

\* NormalizeDType: the largest number, or string_view.
NormalizeDType(ds) ==
    LET stringy == \E i \in DOMAIN ds : IsStringPtr(ds[i]) \/ IsStringView(ds[i])
                                          \/ Is(ds[i], STD_STRING_VIEW)
        widest == FoldLeft(LAMBDA m, d : IF IsNumber(d) /\ Less(m, d) THEN d ELSE m,
                           T(INVALID), ds)
        to == IF stringy THEN T(STRING_VIEW) ELSE widest
    IN  IF \A i \in DOMAIN ds : CanCastTo(ds[i], to) THEN <<to>> ELSE << >>

Intrinsics == {"sin", "cos", "floor", "sqrt", "ceil", "round", "exp", "exp2", "log", "log2",
               "log10", "rint", "trunc"}

\* Whether LLVM has the operator for elements of type d.
HasUnaryOp(op, d) == op \in {"negative", "not", "abs"} \/ (op \in Intrinsics /\ IsFloat(d))

HasBinaryOp(op, d) ==
    \/ op \in ArithmeticOps
    \/ op \in LogicOps \cup {"xor"} /\ IsBit(d)
    \/ op \in CompareOps \cup {"pow", "max", "min"} /\ (IsInteger(d) \/ IsFloat(d))

HasTernaryOp(op, d) == op = "conditional" \/ (op = "fma" /\ IsFloat(d))

Folded == ArithmeticOps \cup CompareOps \cup LogicOps \cup {"negative", "not", "conditional"}

\* The instruction, or the external function that takes its place.
Instruction(cg, op, has, d, ret, os) ==
    LET const == op \in Folded /\ \A i \in DOMAIN os : ValueOf(cg, os[i]).const
    IN  IF has THEN Res(Touch(cg, os), Temp(RegisterOf(ret, App(op, Loads(cg, os)), const)))
        ELSE CallFunction(Touch(cg, os), GetFunctionName(op, d), os)

UnaryOp(cg, op, o) ==
    LET d == DTypeIn(cg, o) IN Instruction(cg, op, HasUnaryOp(op, d), d, d, <<o>>)

\* A variant that takes the two operands from the stack in the wrong order.
ComputeSwapped(cg, op, l, r) ==
    LET d == DTypeIn(cg, l)
    IN  Instruction(cg, op, HasBinaryOp(op, d), d,
                    IF op \in CompareOps THEN T(BIT) ELSE d, <<r, l>>)

\* The operator on two operands of one type.
Compute(cg, op, l, r) ==
    LET d == DTypeIn(cg, l)
    IN  IF IsStringView(d) /\ op \in CompareOps
        THEN CallMeaning(cg, kBuiltinStringViewCmp, <<Temp(Const(T(U32), Lit(op))), l, r>>, op, 2)
        ELSE Instruction(cg, op, HasBinaryOp(op, d), d,
                         IF op \in CompareOps THEN T(BIT) ELSE d, <<l, r>>)

\* CodeGen::BinaryOp.  An op-assignment of two types assigns to the converted
\* left operand, which has no place.
OneType(cg, l, r, to) ==
    IF SameDType(DTypeIn(cg, l), DTypeIn(cg, r)) THEN [cg |-> cg, os |-> <<l, r>>]
    ELSE IF to = << >> THEN [cg |-> Fail(cg).cg, os |-> << >>]
    ELSE CastAll(cg, <<l, r>>, <<to[1], to[1]>>)

AssignTo(o, value) == IF value.cg.ok THEN Res(CopyFrom(value.cg, o, value.o), o) ELSE value

BinaryOp(cg, op, l, r) ==
    IF op = "assign" THEN AssignTo(l, Res(cg, r))
    ELSE Given(OneType(cg, l, r, NormalizeDType(<<DTypeIn(cg, l), DTypeIn(cg, r)>>)), LAMBDA cast :
           IF ~cast.cg.ok THEN Fail(cast.cg)
           ELSE IF op \in OpAssigns
           THEN AssignTo(cast.os[1], Compute(cast.cg, Applied[op], cast.os[1], cast.os[2]))
           ELSE Compute(cast.cg, op, cast.os[1], cast.os[2]))

\* CodeGen::TernaryOp.  A conditional does not convert its condition.  The
\* order in which the operands are converted leaves no trace.
TernaryType(op, ds) ==
    IF op = "conditional" /\ SameDType(ds[1], ds[2]) THEN <<ds[1]>> ELSE NormalizeDType(ds)

TernaryIn(cg, op, a, os, to) ==
    LET cond == op = "conditional"
    IN  IF (cond /\ ~IsBit(DTypeIn(cg, a))) \/ to = << >> THEN Fail(cg)
        ELSE Given(CastAll(cg, os, [i \in DOMAIN os |-> to[1]]), LAMBDA cast :
               IF ~cast.cg.ok THEN Fail(cast.cg)
               ELSE Instruction(cast.cg, op, HasTernaryOp(op, to[1]), to[1], to[1],
                                (IF cond THEN <<a>> ELSE << >>) \o cast.os))

TernaryOp(cg, op, a, b, c) ==
    Given(IF op = "conditional" THEN <<b, c>> ELSE <<a, b, c>>, LAMBDA os :
      TernaryIn(cg, op, a, os, TernaryType(op, [i \in DOMAIN os |-> DTypeIn(cg, os[i])])))

-----------------------------------------------------------------------------
(***************************************************************************)
(* Nodes of an expression, as BuildIR(RPN) prepares them: operands first,  *)
(* in order, whatever the operators between them are.                      *)
(***************************************************************************)
LeafNode(o) == [k |-> "leaf", o |-> o]

\* The scalar stack machine: operators take their operands from the top.
ScalarStep(acc, node) ==
    LET s == acc.stack
        n == CASE node.k = "op" -> get_operand_count(node.op)
               [] node.k = "func" -> GetOperandCount(node.desc)
               [] OTHER -> 0
        Value(os) == IF node.k = "func" THEN CallFunction(acc.cg, node.desc.name, os)
                     ELSE CASE n = 1 -> UnaryOp(acc.cg, node.op, os[1])
                            [] n = 2 -> BinaryOp(acc.cg, node.op, os[1], os[2])
                            [] n = 3 -> TernaryOp(acc.cg, node.op, os[1], os[2], os[3])
        Replaced(r) == [cg |-> r.cg, stack |-> Append(SubSeq(s, 1, Len(s) - n), r.o)]
    IN  IF ~acc.cg.ok THEN acc
        ELSE IF node.k = "leaf" THEN [acc EXCEPT !.stack = Append(s, node.o)]
        ELSE IF (node.k = "op" /\ n <= 0) \/ Len(s) < n
        THEN [acc EXCEPT !.cg.ok = FALSE]
        ELSE Replaced(Value(SubSeq(s, Len(s) - n + 1, Len(s))))

ScalarIR(cg, nodes) ==
    Given(FoldLeft(ScalarStep, [cg |-> cg, stack |-> << >>], nodes), LAMBDA end :
      IF ~end.cg.ok \/ Len(end.stack) # 1 THEN Fail(end.cg) ELSE Res(end.cg, end.stack[1]))

-----------------------------------------------------------------------------
(***************************************************************************)
(* Expressions with a vector (BuildVectorIR).  The first pass finds the    *)
(* type each operator computes in, and converts the operands below it that *)
(* have another; acc.stack has [dt, idxs], idxs being those operands.      *)
(***************************************************************************)
\* normalize_operand_dtype
ComputeType(ds) ==
    LET vectors == { i \in DOMAIN ds : IsSimdVector(ds[i]) }
    IN  IF vectors # {} THEN Elem(ds[Min(vectors)]) ELSE ds[1]

NormalizeTo(acc, op, looked, d) ==
    LET n == get_operand_count(op)
        s == acc.stack
        simd == \E i \in DOMAIN looked : IsSimdVector(looked[i].dt)
        all == FoldLeft(LAMBDA is, x : is \o x.idxs, << >>, looked)
        other == FoldLeft(LAMBDA is, x : IF SameDType(Elem(x.dt), d) THEN is ELSE is \o x.idxs,
                          << >>, looked)
        Replaced(a, i, r) == [a EXCEPT !.cg = r.cg, !.nodes[i].o = r.o]
        ret == IF op \in CompareOps THEN T(BIT) ELSE IF simd THEN ToSimdVector(d) ELSE Elem(d)
    IN  [FoldLeft(LAMBDA a, i : IF a.cg.ok THEN Replaced(a, i, CastTo(a.cg, a.nodes[i].o, d)) ELSE a,
                  acc, other)
           EXCEPT !.stack = Append(SubSeq(s, 1, Len(s) - n), [dt |-> ret, idxs |-> all]),
                  !.types = Append(@, Elem(d))]

NormalizeOperands(acc, op) ==
    LET n == IF op = "conditional" THEN 2 ELSE get_operand_count(op)
    IN  Given(SubSeq(acc.stack, Len(acc.stack) - n + 1, Len(acc.stack)), LAMBDA looked :
          NormalizeTo(acc, op, looked, ComputeType([i \in DOMAIN looked |-> looked[i].dt])))

\* A second vector is compared with the size of the first.
VectorOperand(acc, i) ==
    LET v == ValueOf(acc.cg, acc.nodes[i].o)
        simd == IsSimdVector(v.dt)
        SizeCheck(cg) == CallFunction(cg, kBuiltinThrowVectorExprEx,
                         <<Temp(Const(T(U32), Lit("line"))), Temp(Reg(T(STRING_VIEW), Lit("src"))),
                           Temp(Reg(T(STRING_VIEW), Lit("msg")))>>).cg
    IN  [acc EXCEPT !.cg = IF ~simd THEN @ ELSE IF v.at = << >> THEN Fail(@).cg
                           ELSE IF acc.sized THEN SizeCheck(@) ELSE @,
                    !.sized = @ \/ simd, !.types = Append(@, v.dt),
                    !.stack = Append(@, [dt |-> v.dt, idxs |-> <<i>>])]

\* The result of a vector function does not take its operands from the stack.
TypeStep(acc, i) ==
    LET node == acc.nodes[i]
        ret == PtrTo(LastArg(node.desc))
    IN  IF ~acc.cg.ok THEN acc
        ELSE CASE node.k = "op" -> NormalizeOperands(acc, node.op)
               [] node.k = "func" -> [acc EXCEPT !.stack = Append(@, [dt |-> ret, idxs |-> << >>]),
                                                 !.types = Append(@, ret)]
               [] OTHER -> VectorOperand(acc, i)

TypePass(cg, nodes) ==
    FoldLeft(TypeStep, [cg |-> cg, nodes |-> nodes, stack |-> << >>, types |-> << >>,
                        sized |-> FALSE], [i \in DOMAIN nodes |-> i])

\* The second pass builds the body of the loop (BuildVectorEvalIR): a lane is
\* a term and the element type that its instruction has.
Lane(d, t) == [dt |-> d, t |-> t]

\* A kernel if it is declared, or else an instruction; operands of different
\* types are not a valid instruction.
LaneOp(cg, op, d, ls) ==
    LET n == Len(ls)
        has == CASE n = 1 -> HasUnaryOp(op, d) [] n = 2 -> HasBinaryOp(op, d)
                 [] OTHER -> HasTernaryOp(op, d)
        kernel == has_vector_buitin_func(op, d)
                    /\ GetFunctionName(op, ToSimdVector(d)) \in DOMAIN cg.decl
        mixed == \E i \in 2 .. n : ~SameDType(ls[i].dt, ls[n].dt)
                                     \/ (op # "conditional" /\ ~SameDType(ls[1].dt, ls[n].dt))
        el == IF op \in CompareOps THEN T(BIT) ELSE IF kernel THEN d ELSE ls[n].dt
    IN  IF ~kernel /\ ~has THEN [cg |-> [cg EXCEPT !.ok = FALSE], lane |-> ls[1]]
        ELSE [cg |-> [cg EXCEPT !.bad = @ \/ (~kernel /\ mixed)],
              lane |-> Lane(el, App(op, [i \in DOMAIN ls |-> ls[i].t]))]

LaneStep(acc, i) ==
    LET node == acc.nodes[i]
        s == acc.stack
        n == CASE node.k = "op" -> get_operand_count(node.op)
               [] node.k = "func" -> GetOperandCount(node.desc) [] OTHER -> 0
        ls == SubSeq(s, Len(s) - n + 1, Len(s))
        r == IF node.k = "op" THEN LaneOp(acc.cg, node.op, acc.types[i], ls)
             ELSE [cg |-> acc.cg, lane |-> Lane(PtrTo(LastArg(node.desc)),
                                                App(node.desc.name.f, [j \in DOMAIN ls |-> ls[j].t]))]
        v == ValueOf(acc.cg, node.o)
    IN  IF ~acc.cg.ok THEN acc
        ELSE IF node.k = "leaf"
        THEN [acc EXCEPT !.cg = Touch(@, <<node.o>>),
                         !.stack = Append(s, Lane(Elem(v.dt), LoadValue(acc.cg, v)))]
        ELSE [acc EXCEPT !.cg = r.cg, !.stack = Append(SubSeq(s, 1, Len(s) - n), r.lane)]

\* The vector that the loop fills.  stored: element type of what is stored.
LoopBody(typed, dt) ==
    LET made == CallFunction(typed.cg, GetFunctionName(kBuiltinNewSimdVector, Elem(dt)),
                             <<Temp(Reg(T(I32), Lit("size")))>>)
    IN  FoldLeft(LaneStep, [cg |-> made.cg, nodes |-> typed.nodes, stack |-> << >>,
                            types |-> typed.types], [i \in DOMAIN typed.nodes |-> i])

Filled(body, dt, lanes) ==
    IF ~body.cg.ok THEN Fail(body.cg)
    ELSE NewSlot([body.cg EXCEPT !.stored = <<body.stack[1].dt, Elem(dt)>>, !.lanes = @ \cup lanes],
                 ToSimdVector(dt), body.stack[1].t)

VectorBody(cg, dt, nodes) ==
    LET vectors == { i \in DOMAIN nodes : nodes[i].k = "leaf"
                                             /\ IsSimdVector(ValueOf(cg, nodes[i].o).dt) }
    IN  Given(TypePass(cg, nodes), LAMBDA typed :
          IF ~typed.cg.ok THEN Fail(typed.cg)
          ELSE IF ~typed.sized THEN Fail([typed.cg EXCEPT !.null = TRUE])
          ELSE Filled(LoopBody(typed, dt), dt, { Elem(ValueOf(cg, nodes[i].o).dt) : i \in vectors }))

VectorIR(cg, dt, nodes) ==
    LET last == nodes[Len(nodes)]
        op == IF last.k = "op" THEN last.op ELSE NoOp
        rest == IF op = "assign" THEN SubSeq(nodes, 2, Len(nodes) - 1)
                ELSE IF op \in OpAssigns
                THEN [nodes EXCEPT ![Len(nodes)] = OpNode(Applied[op])] ELSE nodes
    IN  Given(IF Len(rest) > 1 THEN VectorBody(cg, dt, rest) ELSE Res(cg, rest[1].o), LAMBDA value :
          IF op \in OpAssigns \cup {"assign"} THEN AssignTo(nodes[1].o, value) ELSE value)

-----------------------------------------------------------------------------
(***************************************************************************)
(* Operands.                                                               *)
(***************************************************************************)
\* get_type: the types LLVM code can hold.
HasType(d) ==
    \/ IsPtr(d) \/ IsAbslSpan(d) \/ IsSimdVector(d)
    \/ d.t0 \in (VOID .. STRING_VIEW) \ {POINTER}

GetLocalVar(cg, x) ==
    IF x \in DOMAIN cg.vars THEN Res(cg, Named(x))
    ELSE IF x \in ConstantNames THEN Res(cg, Temp(Const(T(F64), <<"const", x>>)))
    ELSE Fail(cg)

NewVoid(cg, x) ==
    Res(IF x \in DOMAIN cg.vars THEN cg ELSE [cg EXCEPT !.vars = With(@, x, Reg(T(VOID), Undef))],
        Named(x))

\* A field that is a number, a string view, a vector, a span or a pointer is
\* a place; anything else, a bool too, is handed on by its address.
GetStructField(cg, o, d, f) ==
    LET obj == LoadValue(cg, ValueOf(cg, o))
        placed == IsNumber(d) \/ IsStringView(d) \/ Is(d, STD_STRING_VIEW) \/ IsSimdVector(d)
                    \/ IsAbslSpan(d) \/ IsPtr(d)
    IN  Res(cg, Temp(IF placed THEN Place(d, <<"field", obj, f>>)
                     ELSE Reg(ToPtr(d), App(f, <<obj>>))))

RECURSIVE BuildRpn(_, _)

BuildAll(cg, rpns) ==
    FoldLeft(LAMBDA acc, rpn : IF acc.cg.ok THEN Pushed(acc, BuildRpn(acc.cg, rpn)) ELSE acc,
             [cg |-> cg, os |-> << >>], rpns)

NewArray(els, d) ==
    IF ~els.cg.ok THEN Fail(els.cg)
    ELSE Given(CastAll(els.cg, els.os, [i \in DOMAIN els.os |-> Elem(d)]), LAMBDA cast :
           IF ~cast.cg.ok THEN Fail(cast.cg)
           ELSE Res(Touch(cast.cg, cast.os), Temp(Reg(d, App("array", Loads(cast.cg, cast.os))))))

CallMember(cg, o, f, os) ==
    CallFunction(cg, GetMemberFuncName(PtrTo(DTypeIn(cg, o)), f), <<o>> \o os)

\* The key of x[key].
BuildKey(cg, key) ==
    CASE key.k = "var" -> GetLocalVar(cg, key.name)
      [] key.k = "str" -> NewSlot(cg, T(STRING_VIEW), Lit("str"))
      [] OTHER -> Res(cg, Temp(Const(T(U32), Lit(key.v))))

HasMethods(d) == IsSimdVector(d) \/ IsPtr(d) \/ IsStringView(d) \/ Is(d, STD_STRING_VIEW)

\* x.f, x.f(args), x[key].  The names of the getters of x[key] are counted
\* by the position of the access, those of fields included.
Access(cg, o, a, getters, i) ==
    CASE a.k = "load" ->
           IF IsPtr(DTypeIn(cg, o)) THEN GetStructField(cg, o, a.dt, a.f.f) ELSE Fail(cg)
      [] a.k = "column" -> CallMember(cg, o, a.f, <<Temp(Const(T(U32), Lit("offset")))>>)
      [] a.k = "method" ->
           IF ~HasMethods(DTypeIn(cg, o)) THEN Fail(cg)
           ELSE Given(BuildAll(cg, a.args), LAMBDA args :
                  IF args.cg.ok THEN CallMember(args.cg, o, a.f, args.os) ELSE Fail(args.cg))
      [] a.k = "idx" ->
           Given(BuildKey(cg, a.key), LAMBDA key :
             IF ~key.cg.ok \/ Len(getters) < i THEN Fail(key.cg)
             ELSE CallFunction(key.cg, getters[i], <<o, key.o>>))

BuildMember(cg, e) ==
    LET Moved(acc, r) == [cg |-> r.cg, o |-> r.o, i |-> acc.i + 1]
        Step(acc, a) == IF acc.cg.ok THEN Moved(acc, Access(acc.cg, acc.o, a, e.funcs, acc.i)) ELSE acc
    IN  Given(FoldLeft(Step, Moved([i |-> 0], GetLocalVar(cg, e.name)), e.accesses), LAMBDA end :
          IF end.cg.ok THEN Res(end.cg, end.o) ELSE Fail(end.cg))

BuildOperand(cg, e) ==
    CASE e.k = "num" -> Res(cg, Temp(Const(LiteralDType(e), Lit(e.v))))
      [] e.k = "bool" -> Res(cg, Temp(Const(T(BIT), Lit("bool"))))
      [] e.k = "str" -> NewSlot(cg, T(STRING_VIEW), Lit("str"))
      [] e.k = "auto" -> NewVoid(cg, e.name)
      [] e.k = "var" -> GetLocalVar(cg, e.name)
      [] e.k = "arr" -> NewArray(BuildAll(cg, e.rpns), e.dt)
      [] e.k = "member" -> BuildMember(cg, e)
      [] e.k = "call" ->
           Given(BuildAll(cg, e.args), LAMBDA args :
             IF args.cg.ok THEN CallFunction(args.cg, e.f, args.os) ELSE Fail(args.cg))

\* BuildIR(RPN): one vector among the operands makes it a vector expression.
HasVector(cg, nodes) ==
    \E i \in DOMAIN nodes :
       \/ nodes[i].k = "leaf" /\ IsSimdVector(DTypeIn(cg, nodes[i].o))
       \/ nodes[i].k = "func" /\ nodes[i].desc.vec

BuildRpn(cg, rpn) ==
    LET AsLeaf(acc, r) == [cg |-> r.cg, nodes |-> Append(acc.nodes, LeafNode(r.o))]
        Step(acc, node) ==
          IF ~acc.cg.ok THEN acc
          ELSE IF node.k = "val" THEN AsLeaf(acc, BuildOperand(acc.cg, node.e))
          ELSE [acc EXCEPT !.nodes = Append(@, node)]
    IN  IF rpn.dt.t0 = INVALID THEN Fail(cg)
        ELSE Given(FoldLeft(Step, [cg |-> cg, nodes |-> << >>], rpn.nodes), LAMBDA ready :
               IF ~ready.cg.ok THEN Fail(ready.cg)
               ELSE IF HasVector(ready.cg, ready.nodes) THEN VectorIR(ready.cg, rpn.dt, ready.nodes)
               ELSE ScalarIR(ready.cg, ready.nodes))

-----------------------------------------------------------------------------
(***************************************************************************)
(* Statements and functions.                                               *)
(***************************************************************************)
ReturnValue(cast, o) ==
    IF ~cast.cg.ok THEN Fail(cast.cg)
    ELSE Res([Touch(cast.cg, <<cast.o>>) EXCEPT !.ret = LoadValue(cast.cg, ValueOf(cast.cg, cast.o))],
             o)

BuildStatement(cg, st) ==
    Given(BuildRpn(cg, st.rpn), LAMBDA r :
      IF ~r.cg.ok \/ st.k # "return" THEN r
      ELSE ReturnValue(CastTo(r.cg, r.o, cg.desc.ret), r.o))

\* DeclareExternFunctions: what the parser has noted for the first n functions.
DeclareExternFunctions(ctx, n) ==
    LET fcs == { FunctionCtx(ctx, i) : i \in 0 .. n - 1 }
        calls == UNION { fc.calls : fc \in fcs }
        members == UNION { fc.members : fc \in fcs }
        DescOf(f) == IF f \in calls THEN GetFunction(f)[1]
                    ELSE (CHOOSE m \in members : m.name = f).desc
    IN  [f \in calls \cup { m.name : m \in members } |-> DescOf(f)]

\* DefineFunction: every argument but the Context gets a place.
DefineFunction(cg, fn) ==
    LET d == ToFuncDesc(fn)
        fresh == [cg EXCEPT !.vars = << >>, !.desc = d, !.ret = Undef,
                            !.locals = With(@, d.name, d)]
        Step(acc, a) ==
          LET s == NewSlot(acc, a.dt, In(a.name))
          IN  IF IsContextPtr(a.dt) THEN [acc EXCEPT !.vars = With(@, a.name, Reg(a.dt, In(a.name)))]
              ELSE [s.cg EXCEPT !.vars = With(@, a.name, s.o.val)]
    IN  IF ~HasType(d.ret) \/ \E i \in DOMAIN d.args : ~HasType(d.args[i])
        THEN [cg EXCEPT !.ok = FALSE]
        ELSE FoldLeft(Step, fresh, fn.args)

\* FinishFunction: verifyFunction refuses what is not valid.
FinishFunction(cg) == [cg EXCEPT !.ok = @ /\ ~cg.bad]

BuildFunction(cg, checked) ==
    FinishFunction(FoldLeft(LAMBDA c, st : IF c.ok THEN BuildStatement(c, st).cg ELSE c,
                            DefineFunction(cg, checked.fn), checked.body))
=============================================================================
