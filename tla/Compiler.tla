------------------------------ MODULE Compiler ------------------------------
(***************************************************************************)
(* JitCompiler, the driver (compiler.h, compiler.cc), and the JitFunctions *)
(* it hands out (function.h).  A compilation starts a new code generator,  *)
(* parses into the one ParseContext that the compiler keeps, declares what *)
(* the parser noted, builds each function and finishes the module; it runs *)
(* under jit_mutex_ from its start to its end, and so is one step.  The    *)
(* functions of a code generator live as long as a JitFunction, or the     *)
(* compiler, refers to it.                                                 *)
(***************************************************************************)
EXTENDS CodeGen, JitFunctions

CONSTANTS
    Sources,       \* sources with functions: sequences of functions
    Expressions    \* expressions: [e, args, types, ret]

VARIABLES
    ast_ctx,       \* ast_ctx_
    last           \* the last compilation: [ok, alone, stale], for the properties

vars == <<ast_ctx, codegen, parsed, gens, jitfn, last>>

kExpressionFuncName == "rapidudf_expresion"

\* What one compilation makes of the ParseContext: ok, the context after it,
\* parsed_ast_funcs_, and the functions of the finished module by name.
Made(ok, ctx, names, code) == [ok |-> ok, ctx |-> ctx, parsed |-> names, code |-> code]
NoCode == {}

\* A variant that keeps what the last parse has left.
NewCodegenUncleared(ctx) == ctx

\* NewCodegen: the context is cleared, but for its cursor.
NewCodegen(ctx) == Clear(ctx)

\* CompileFunctions: parsed_ast_funcs_ is set whatever comes of it; the first
\* function that does not build ends the compilation, and only a finished
\* module has functions that can be looked up.
CompileFunctions(ctx, funcs) ==
    LET start == NewCodeGen(DeclareExternFunctions(ctx, Len(funcs)))
        names == { funcs[i].fn.name : i \in DOMAIN funcs }
    IN  Given(FoldLeft(LAMBDA cg, c : IF cg.ok THEN BuildFunction(cg, c) ELSE cg, start, funcs),
              LAMBDA built :
                Made(built.ok, ctx, names, IF built.ok THEN names ELSE NoCode))

Parsed(r) == IF r.ok THEN CompileFunctions(r.ctx, r.funcs) ELSE Made(FALSE, r.ctx, {}, NoCode)

CompileSource(ctx, fns) == Parsed(parse_functions_ast(NewCodegen(ctx), fns))

CompileFunction(ctx, fn) == Parsed(parse_function_ast(NewCodegen(ctx), fn))

\* The context with room for one function, and the arguments added to it: an
\* object needs a schema that exists, and a name is used once.
DeclareArgs(ctx, x) ==
    LET Step(acc, i) ==
          LET a == x.args[i]
              d == x.types[i]
              known == a.schema # "" /\ a.schema \in DOMAIN Schemas
              ok == (IsPtrTo(d, DYN_OBJECT) => known) /\ ~IsVarExist(acc.ctx, a.name)
          IN  IF ~acc.ok THEN acc
              ELSE [ok |-> ok, ctx |-> IF ok THEN AddLocalVar(acc.ctx, a.name, d, a.schema) ELSE acc.ctx]
    IN  FoldLeft(Step, [ok |-> TRUE, ctx |-> SetFunctionCtx(ctx, 0, FunctionCtx(ctx, 0))],
                 [i \in DOMAIN x.args |-> i])

CompileExpression(ctx, x) ==
    LET cleared == NewCodegen(ctx)
        fn == Func(kExpressionFuncName, x.ret,
                   [i \in DOMAIN x.args |-> Arg(x.args[i].name, x.types[i], x.args[i].schema)], << >>)
    IN  IF Len(x.args) # Len(x.types) THEN Made(FALSE, cleared, {}, NoCode)
        ELSE Parsed(Given(DeclareArgs(cleared, x), LAMBDA declared :
                      IF declared.ok THEN parse_expression_ast(declared.ctx, x.e, fn) ELSE declared))

-----------------------------------------------------------------------------
CompilerInit ==
    /\ JitInit
    /\ ast_ctx = EmptyCtx
    /\ last = [ok |-> TRUE, alone |-> TRUE, stale |-> FALSE]

\* made has what comes of the compilation in this context, and what would
\* in an empty one.
Compiled(made) ==
    /\ ast_ctx' = made[ast_ctx].ctx
    /\ last' = [ok |-> made[ast_ctx].ok, alone |-> made[EmptyCtx].ok, stale |-> ast_ctx.cursor # 0]

DoCompileSource(fns) ==
    \E made \in {[ctx \in {ast_ctx, EmptyCtx} |-> CompileSource(ctx, fns)]} :
       /\ CompileOnly(made[ast_ctx])
       /\ Compiled(made)

DoCompileFunction(fns, h) ==
    /\ Len(fns) = 1
    /\ \E made \in {[ctx \in {ast_ctx, EmptyCtx} |-> CompileFunction(ctx, fns[1])]} :
          /\ CompileInto(made[ast_ctx], h, fns[1].name)
          /\ Compiled(made)

DoCompileExpression(x, h) ==
    \E made \in {[ctx \in {ast_ctx, EmptyCtx} |-> CompileExpression(ctx, x)]} :
       /\ CompileInto(made[ast_ctx], h, kExpressionFuncName)
       /\ Compiled(made)

\* What the program does with its functions leaves the parser alone.
HolderStep(h) ==
    /\ \/ \E n \in Names : LoadFunction(n, h)
       \/ \E k \in Holders : MoveFrom(h, k)
       \/ Drop(h)
    /\ UNCHANGED <<ast_ctx, last>>

CompilerNext ==
    \/ \E fns \in Sources :
          \/ DoCompileSource(fns)
          \/ \E h \in Holders : DoCompileFunction(fns, h)
    \/ \E h \in Holders :
          \/ \E x \in Expressions : DoCompileExpression(x, h)
          \/ HolderStep(h)

CompilerSpec == CompilerInit /\ [][CompilerNext]_vars

-----------------------------------------------------------------------------
\* Whether a source compiles does not depend on what the compiler compiled
\* before, though the ParseContext is kept: not on the arguments, variables
\* and calls of an earlier source, and not on an earlier failure.  The
\* exception is the cursor, which a source of several functions leaves on its
\* last one.
CompilesAsAlone == ~last.stale => last.ok = last.alone
=============================================================================
