---------------------------- MODULE Expressions ----------------------------
(***************************************************************************)
(* The compilation of one function without control flow, from its parsed   *)
(* statements to the generated code, and the run of the loop it contains   *)
(* if it works on vectors.  The statements come one at a time: the parser  *)
(* validates them in order, the code generator builds the whole function.  *)
(***************************************************************************)
EXTENDS CodeGen, VectorLoop

CONSTANTS
    FuncArgs,        \* the arguments of the function
    FuncRet,         \* the return types it may have
    Statements,      \* statements its body is made of
    Returns,         \* expressions it may return
    MaxStatements,   \* bound: statements before the return
    MaxRunStatements \* bound: statements before the return of a function that is run

VARIABLES
    phase,           \* "parse", "invalid", "build", "failed", "crashed", "ready"
    fn,              \* the function, with the statements seen so far
    ctx,             \* the ParseContext
    body,            \* the validated statements
    cg,              \* the code generator
    typed            \* for each statement: validated type, type of the value built

exprVars == <<phase, fn, ctx, body, cg, typed>>

ExprInit ==
    /\ phase = "parse"
    /\ \E ret \in FuncRet : fn = Func("f", ret, FuncArgs, << >>)
    /\ ctx = ValidateFunction(SetFuncDesc(SetSource(EmptyCtx, TRUE), ToFuncDesc(fn), 0), fn).ctx
    /\ body = << >> /\ cg = NewCodeGen(<< >>) /\ typed = << >>
    /\ LoopInit

\* Function::Validate goes on with the next statement.
ValidateNext(s) ==
    /\ phase = "parse"
    /\ fn' = [fn EXCEPT !.body = Append(@, s)]
    /\ \E r \in {ValidateStatement(ctx, s)} :
          /\ ctx' = r.ctx
          /\ phase' = IF ~r.ok THEN "invalid" ELSE IF s.k = "return" THEN "build" ELSE "parse"
          /\ body' = Append(body, r.st)
    /\ UNCHANGED <<cg, typed, loopVars>>

\* BuildIR(Function) on the functions declared so far, statement by statement.
Build ==
    LET start == DefineFunction(NewCodeGen(DeclareExternFunctions(ctx, 1)), fn)
        Built(acc, st, r) ==
          [cg |-> r.cg,
           typed |-> IF r.cg.ok
                     THEN Append(acc.typed, [valid |-> st.rpn.dt, built |-> DTypeIn(r.cg, r.o)])
                     ELSE acc.typed]
        Step(acc, st) == IF acc.cg.ok THEN Built(acc, st, BuildStatement(acc.cg, st)) ELSE acc
    IN  /\ phase = "build"
        /\ \E end \in {FoldLeft(Step, [cg |-> start, typed |-> << >>], body)} :
              /\ cg' = FinishFunction(end.cg)
              /\ typed' = end.typed
              /\ phase' = IF end.cg.null THEN "crashed" ELSE IF cg'.ok THEN "ready" ELSE "failed"
        /\ UNCHANGED <<fn, ctx, body, loopVars>>

\* The function is called with vectors of some size.
Run(n) ==
    /\ phase = "ready" /\ cg.lanes # {} /\ Len(fn.body) <= MaxRunStatements + 1
    /\ StartLoop(n, [in |-> \E d \in cg.lanes : IsBit(d), out |-> IsBit(cg.stored[2])])
    /\ UNCHANGED exprVars

ExprNext ==
    \/ \E s \in Statements : Len(fn.body) < MaxStatements /\ ValidateNext(s)
    \/ \E e \in Returns : ValidateNext(Return(e))
    \/ Build
    \/ \E n \in 0 .. MaxSize : Run(n)
    \/ phase = "ready" /\ LoopStep /\ UNCHANGED exprVars

ExprSpec == ExprInit /\ [][ExprNext]_<<exprVars, loopVars>>

-----------------------------------------------------------------------------
(***************************************************************************)
(* What the statements mean: an assignment copies a value, an expression   *)
(* is evaluated from its operands, from left to right.  All of them are:   *)
(* the language has no operand, of ? : or of && and ||, that is skipped.   *)
(***************************************************************************)
RECURSIVE Means(_, _)

MeansAll(env, es) ==
    FoldLeft(LAMBDA acc, e : LET r == Means(acc.env, e)
                             IN  [env |-> r.env, ts |-> Append(acc.ts, r.t)],
             [env |-> env, ts |-> << >>], es)

IndexWord(key) == IF key.k = "str" THEN kBuiltinJsonMemberGet.f ELSE kBuiltinJsonArrayGet.f

\* A member: the object it is reached through, and the place if it is a field.
MemberMeans(env, e) ==
    LET Step(acc, a) ==
          LET at == <<"field", acc.t, a.field>>
              args == MeansAll(acc.env, a.args)
          IN  IF a.k = "idx"
              THEN [acc EXCEPT !.t = App(IndexWord(a.key), <<acc.t, Means(acc.env, a.key).t>>)]
              ELSE IF a.call
              THEN [acc EXCEPT !.env = args.env, !.t = App(a.field, <<acc.t>> \o args.ts)]
              ELSE [acc EXCEPT !.at = at, !.t = IF at \in DOMAIN acc.env.mem
                                                THEN acc.env.mem[at] ELSE <<"old", at>>]
    IN  FoldLeft(Step, [env |-> env, t |-> env.vars[e.name], at |-> << >>], e.accesses)

Assigned(env, e, t) ==
    IF e.k = "member" THEN [env EXCEPT !.mem = With(@, MemberMeans(env, e).at, t)]
    ELSE [env EXCEPT !.vars = With(@, e.name, t)]

Means(env, e) ==
    LET Meaning(v, t) == [env |-> v, t |-> t]
    IN  CASE e.k = "num" -> Meaning(env, Lit(e.v))
          [] e.k = "bool" -> Meaning(env, Lit("bool"))
          [] e.k = "str" -> Meaning(env, Lit("str"))
          [] e.k = "auto" -> Meaning([env EXCEPT !.vars = With(@, e.name, Undef)], Undef)
          [] e.k = "var" -> Meaning(env, IF e.name \in DOMAIN env.vars THEN env.vars[e.name]
                                         ELSE <<"const", e.name>>)
          [] e.k = "member" -> LET m == MemberMeans(env, e) IN Meaning(m.env, m.t)
          [] e.k = "arr" -> LET m == MeansAll(env, e.es) IN Meaning(m.env, App("array", m.ts))
          [] e.k = "call" -> LET m == MeansAll(env, e.args) IN Meaning(m.env, App(e.f, m.ts))
          [] e.k = "un" -> LET m == Means(env, e.e) IN Meaning(m.env, App(e.op, <<m.t>>))
          [] e.k = "sel" -> LET m == MeansAll(env, <<e.c, e.a, e.b>>)
                            IN  Meaning(m.env, App("conditional", m.ts))
          [] e.k = "bin" ->
               FoldLeft(LAMBDA acc, right :
                          LET op == right[1]
                              r == Means(acc.env, right[2])
                              t == IF op \in OpAssigns THEN App(Applied[op], <<acc.t, r.t>>) ELSE r.t
                          IN  IF op \in OpAssigns \cup {"assign"}
                              THEN Meaning(Assigned(r.env, e.l, t), t)
                              ELSE Meaning(r.env, App(op, <<acc.t, r.t>>)),
                        Means(env, e.l), e.r)

ArgNames == { FuncArgs[i].name : i \in DOMAIN FuncArgs }
MeaningOf ==
    LET Step(env, s) ==
          LET m == Means(env, s.e)
          IN  IF s.k = "return" THEN [m.env EXCEPT !.ret = m.t] ELSE m.env
    IN  FoldLeft(Step, [vars |-> [x \in ArgNames |-> In(x)], mem |-> << >>, ret |-> Undef], fn.body)

-----------------------------------------------------------------------------
\* Whether the instruction gives the value as the other type, as a conversion
\* of C++ does.  Floats are only converted in constants, which are folded.
KeepsValue(instr, from, to) ==
    CASE instr \in {"sitofp", "uitofp"} -> (instr = "sitofp") = IsSigned(from)
      [] instr \in {"fptosi", "fptoui"} -> (instr = "fptosi") = IsSigned(to)
      [] instr = "zext" -> ~IsSigned(from)
      [] instr = "trunc" -> IsInteger(from) /\ IsInteger(to) /\ Bits(to) <= Bits(from)
      [] OTHER -> TRUE

\* The term without the conversions that keep the value.
RECURSIVE Unconverted(_)
Unconverted(t) ==
    CASE t[1] = "app" -> App(t[2], [i \in DOMAIN t[3] |-> Unconverted(t[3][i])])
      [] t[1] = "old" -> <<"old", Unconverted(t[2])>>
      [] t[1] = "field" -> <<"field", Unconverted(t[2]), t[3]>>
      [] t[1] = "cast" -> IF KeepsValue(t[2], t[3], t[4]) THEN Unconverted(t[5])
                          ELSE Cast(t[2], t[3], t[4], Unconverted(t[5]))
      [] OTHER -> t

IsAssign(e) == e.k = "bin" /\ e.r[1][1] \in OpAssigns \cup {"assign"}

\* The expressions whose values e is computed from; an assignment does not
\* take the value of its target.
ArgsOfAccess(a) == IF a.k # "idx" /\ a.call THEN a.args ELSE << >>
Children(e) ==
    CASE e.k = "bin" -> (IF e.r[1][1] # "assign" THEN <<e.l>> ELSE << >>)
                          \o [i \in DOMAIN e.r |-> e.r[i][2]]
      [] e.k = "un" -> <<e.e>>
      [] e.k = "sel" -> <<e.c, e.a, e.b>>
      [] e.k = "call" -> e.args
      [] e.k = "arr" -> e.es
      [] e.k = "member" -> FoldLeft(LAMBDA es, a : es \o ArgsOfAccess(a), << >>, e.accesses)
      [] OTHER -> << >>

RECURSIVE Within(_)
Within(e) == {e} \cup UNION { Within(Children(e)[i]) : i \in DOMAIN Children(e) }

TargetsIn(e) == { x.l.name : x \in { y \in Within(e) : IsAssign(y) } }
NamesIn(e) ==
    TargetsIn(e) \cup { x.name : x \in { y \in Within(e) : y.k \in {"auto", "var", "member"} } }

\* A variable is assigned inside one operand and named in another.
AssignsAcross(e) ==
    \E x \in Within(e) : \E i, j \in DOMAIN Children(x) :
       i # j /\ TargetsIn(Children(x)[i]) \cap NamesIn(Children(x)[j]) # {}

\* An assignment of a variable, a member or another assignment, as it stands,
\* to a variable that may have no value yet: the new variable is the same
\* place as the old one.
SharesPlace(e) ==
    \E x \in Within(e) :
       /\ IsAssign(x) /\ x.r[1][1] = "assign"
       /\ x.l.k \in {"auto", "var"} /\ x.l.name \notin ArgNames
       /\ x.r[1][2].k \in {"var", "member"} \/ IsAssign(x.r[1][2])

\* The variables, the fields and the result of the generated code are what the
\* statements say.
ComputesMeaning ==
    LET env == MeaningOf
    IN  /\ Unconverted(cg.ret) = env.ret
        /\ \A x \in DOMAIN cg.vars : Unconverted(LoadValue(cg, cg.vars[x])) = env.vars[x]
        /\ \A at \in DOMAIN env.mem : Unconverted(cg.mem[at]) = env.mem[at]

\* The generated code computes what the statements say: the order of operands
\* on the stack, values loaded only when an operator uses them, a target that
\* is also an operand, assignments inside expressions, the conversions and the
\* copy into the return value leave no trace.  Three things the code does
\* otherwise are exceptions: a variable that is the same place as another one
\* (value.cc:54), a variable assigned in one operand and named in another one
\* (value.cc:34, operands are loaded after all of them have been built), and
\* a signed integer made wider (codegen_cast.cc:65).
ValuesAsWritten ==
    phase = "ready" /\ ~cg.widened
        /\ (\A i \in DOMAIN fn.body : ~SharesPlace(fn.body[i].e) /\ ~AssignsAcross(fn.body[i].e))
      => ComputesMeaning

\* The same without one of the exceptions: a variable initialised from another
\* one is a variable of its own; operands are evaluated from left to right; a
\* wider integer has the value of the narrow one.  None of the three holds.
CopyIsIndependent ==
    phase = "ready" /\ ~cg.widened /\ (\A i \in DOMAIN fn.body : ~AssignsAcross(fn.body[i].e))
      => ComputesMeaning

EvaluatesInOrder ==
    phase = "ready" /\ ~cg.widened /\ (\A i \in DOMAIN fn.body : ~SharesPlace(fn.body[i].e))
      => ComputesMeaning

WideningKeepsSign ==
    phase = "ready" /\ (\A i \in DOMAIN fn.body : ~SharesPlace(fn.body[i].e) /\ ~AssignsAcross(fn.body[i].e))
      => ComputesMeaning

\* A conditional between two types: validation takes the type of the second
\* branch, a scalar is built in the larger one, a vector in that of the first.
MixesTypes(s) ==
    /\ s.e.k = "sel"
    /\ ~SameDType(Elem(Validated(ctx, s.e.a).tag.dt), Elem(Validated(ctx, s.e.b).tag.dt))

\* The value built has the type the expression was validated with, and the
\* loop stores elements of the type of its output: the types are computed
\* twice, by the parser and by the code generator, along different rules.
TypedAsValidated ==
    phase = "ready" /\ (\A i \in DOMAIN fn.body : ~MixesTypes(fn.body[i])) =>
      /\ \A i \in DOMAIN typed : SameDType(typed[i].valid, typed[i].built)
      /\ cg.stored # << >> => SameDType(cg.stored[1], cg.stored[2])

TypeNow(e) == IF e.k = "auto" THEN VarTag(ctx, e.name)[1].dt ELSE Validated(ctx, e).tag.dt

AssignsOtherType(s) ==
    \E x \in Within(s.e) : IsAssign(x) /\ ~SameDType(TypeNow(x.l), TypeNow(x.r[1][2]))

\* A variable that is declared and not assigned where it is declared.
DeclaresUnset(s) == \E x \in Within(s.e) : x.k = "auto"

\* An assignment that is an operand of an expression with a vector.
AssignsInVector(s) ==
    /\ \E x \in Within(s.e) : x # s.e /\ IsAssign(x)
    /\ \E x \in Within(s.e) : IsSimdVector(TypeNow(x))

Converters == {kBuiltinJsonExtract, kBuiltinCastStdStrToStringView.f, kBuiltinCastFbsStrToStringView.f}

\* A function that validates is built, and what it calls has been noted by the
\* parser and declared.  The code generator refuses it only for one of these:
\* an assignment between two types or inside an expression with a vector, a
\* conversion between two float types or one whose function the parser did not
\* note; a variable without a value makes it fail or use a null pointer, and
\* nothing else does.
ValidatedBuilds ==
    phase \in {"failed", "crashed"} =>
      \/ \E i \in DOMAIN fn.body : DeclaresUnset(fn.body[i])
      \/ /\ phase = "failed"
         /\ \/ \E i \in DOMAIN fn.body : AssignsOtherType(fn.body[i]) \/ AssignsInVector(fn.body[i])
            \/ cg.bad
            \/ cg.missing # {} /\ \A n \in cg.missing : n.f \in Converters
=============================================================================
