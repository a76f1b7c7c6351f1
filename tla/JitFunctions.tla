---------------------------- MODULE JitFunctions ----------------------------
(***************************************************************************)
(* Who owns compiled code (compiler.h, function.h).  Every compilation     *)
(* makes a code generator, which the compiler keeps until the next one and *)
(* which each JitFunction made from it shares.  What a compilation yields  *)
(* is a record m: ok, the names that were parsed, and the names that can   *)
(* be looked up in the finished module.  Compiler says which m a source    *)
(* has; here it is any.  A step runs under jit_mutex_.                     *)
(***************************************************************************)
EXTENDS Integers, Sequences, FiniteSets

CONSTANTS
    Names,         \* names of functions
    Holders,       \* JitFunction objects of the program
    MaxCompiles    \* bound: compilations

ASSUME JitAssumption == IsFiniteSet(Holders) /\ MaxCompiles \in Nat

VARIABLES
    codegen,       \* codegen_: the current one, 0 for none
    parsed,        \* parsed_ast_funcs_, by name
    gens,          \* code generators made so far: [code, refs, freed]
    jitfn          \* holder -> [gen, code, name]: resource_, f_ and name_

jitVars == <<codegen, parsed, gens, jitfn>>

-----------------------------------------------------------------------------
(***************************************************************************)
(* std::shared_ptr<CodeGen>: the last reference that goes frees the code.  *)
(***************************************************************************)
Ref(gs, i) ==
    [gs EXCEPT ![i] = [code |-> @.code, refs |-> @.refs + 1, freed |-> @.freed]]

Unref(gs, i) ==
    IF i = 0 THEN gs
    ELSE [gs EXCEPT ![i] = [code |-> @.code, refs |-> @.refs - 1,
                            freed |-> @.freed \/ @.refs = 1]]

NoName == ""
NoFunction == [gen |-> 0, code |-> 0, name |-> NoName]

JitInit ==
    /\ codegen = 0 /\ parsed = {} /\ gens = << >>
    /\ jitfn = [h \in Holders |-> NoFunction]

\* NewCodegen: the new code generator takes the place of the old one before
\* anything can go wrong.
NewGen(m) ==
    Append(Unref(gens, codegen), [code |-> m.code, refs |-> 1, freed |-> FALSE])

Renewed(m) ==
    /\ Len(gens) < MaxCompiles
    /\ codegen' = Len(gens) + 1
    /\ parsed' = m.parsed

\* JitFunction::operator=(&&): the old resource of the target is released.
Take(gs, h, g, name) ==
    /\ gens' = Unref(Ref(gs, g), jitfn[h].gen)
    /\ jitfn' = [jitfn EXCEPT ![h] = [gen |-> g, code |-> g, name |-> name]]

\* CompileSource hands out no function.
CompileOnly(m) == Renewed(m) /\ gens' = NewGen(m) /\ UNCHANGED jitfn

\* CompileFunction and CompileExpression do, when they find it in the module.
CompileInto(m, h, name) ==
    /\ Renewed(m)
    /\ IF m.ok /\ name \in m.code THEN Take(NewGen(m), h, Len(gens) + 1, name)
       ELSE gens' = NewGen(m) /\ UNCHANGED jitfn

\* A variant that is content with a name that was parsed.
LoadFunctionParsed(name, h) ==
    /\ codegen # 0 /\ name \in parsed
    /\ Take(gens, h, codegen, name)
    /\ UNCHANGED <<codegen, parsed>>

\* LoadFunction: the name must have been parsed (VerifyFunctionSignature does
\* not use its comparison of the types) and be found in the module.
LoadFunction(name, h) ==
    /\ codegen # 0 /\ name \in parsed
    /\ name \in gens[codegen].code
    /\ Take(gens, h, codegen, name)
    /\ UNCHANGED <<codegen, parsed>>

\* A variant in which the target does not take over the resource.
MoveFromPointerOnly(h, k) ==
    /\ h # k
    /\ gens' = Unref(Unref(gens, jitfn[h].gen), jitfn[k].gen)
    /\ jitfn' = [jitfn EXCEPT ![h] = jitfn[k], ![k] = [@ EXCEPT !.gen = 0, !.name = NoName]]
    /\ UNCHANGED <<codegen, parsed>>

\* JitFunction::MoveFrom: f_ stays in the function that is moved from.
MoveFrom(h, k) ==
    /\ h # k
    /\ gens' = Unref(gens, jitfn[h].gen)
    /\ jitfn' = [jitfn EXCEPT ![h] = jitfn[k], ![k] = [@ EXCEPT !.gen = 0, !.name = NoName]]
    /\ UNCHANGED <<codegen, parsed>>

\* A JitFunction is destroyed, and another takes its variable.
Drop(h) ==
    /\ jitfn[h].code # 0
    /\ gens' = Unref(gens, jitfn[h].gen)
    /\ jitfn' = [jitfn EXCEPT ![h] = NoFunction]
    /\ UNCHANGED <<codegen, parsed>>

Results == [ok : BOOLEAN, parsed : SUBSET Names, code : SUBSET Names]

JitNext ==
    \/ \E m \in Results :
          \/ CompileOnly(m)
          \/ \E h \in Holders, name \in Names : CompileInto(m, h, name)
    \/ \E h \in Holders :
          \/ \E name \in Names : LoadFunction(name, h)
          \/ \E k \in Holders : MoveFrom(h, k)
          \/ Drop(h)

JitSpec == JitInit /\ [][JitNext]_jitVars

-----------------------------------------------------------------------------
\* The code of a function stays while a JitFunction that owns it is there,
\* whatever is compiled, loaded, moved or dropped after it, and is freed when
\* the last owner goes: the count of owners is exact.
CodeStays ==
    \A i \in DOMAIN gens :
       LET owners == { h \in Holders : jitfn[h].gen = i }
       IN  /\ gens[i].refs = Cardinality(owners) + (IF codegen = i THEN 1 ELSE 0)
           /\ gens[i].freed <=> gens[i].refs = 0

\* A JitFunction that owns a module calls a function of that module, which
\* was finished: a name that a failed compilation has left in
\* parsed_ast_funcs_ cannot be loaded, and a move takes the function along
\* with its module.
LoadedIsCompiled ==
    \A h \in Holders :
       jitfn[h].gen # 0 => /\ jitfn[h].code = jitfn[h].gen
                           /\ jitfn[h].name \in gens[jitfn[h].gen].code
=============================================================================
