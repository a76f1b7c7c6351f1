----------------------------- MODULE ControlFlow -----------------------------
(***************************************************************************)
(* Control flow of a function: the statements are walked in the order of   *)
(* the source (compiler_statements.cc) and the code generator (codegen.cc) *)
(* makes the basic blocks.  An expression statement assigns or reads the   *)
(* variable x, or works on vectors; a condition has either outcome.  The   *)
(* source is any well-formed sequence of statements; it is kept, and when  *)
(* the blocks are finished and verified they are run next to it.           *)
(*                                                                         *)
(* A place in the source is before or after a token.  The code names each  *)
(* block for the part of a statement it is made for; here the name is the  *)
(* place where the source is when the block is entered.                    *)
(***************************************************************************)
EXTENDS Integers, Sequences, SequencesExt

CONSTANTS
    MaxTokens,   \* bound: length of the source
    MaxElif      \* bound: elif branches of one if

ASSUME FlowAssumption == MaxTokens \in Nat /\ MaxElif \in Nat

VARIABLES
    phase,       \* "build", "rejected", "crashed", "run"
    src,         \* the source: a sequence of tokens
    frames,      \* the ifs and whiles being built, innermost last
    func,        \* the function: [blocks, cur, x]
    cpos,        \* next instruction of the generated code: [b, i]
    rpos,        \* the place in the source
    assigned     \* whether the code, as far as it was run, has assigned x

flowVars == <<phase, src, frames, func, cpos, rpos, assigned>>

-----------------------------------------------------------------------------
(***************************************************************************)
(* A token is a statement or a part of an if or a while: c is the position *)
(* where that statement begins, n the number of an elif, or the loop that  *)
(* a break or continue is about.                                           *)
(***************************************************************************)
Token(k, c, n) == [k |-> k, c |-> c, n |-> n]
Part(k, c) == Token(k, c, 0)

At(tok) == [w |-> "at", tok |-> tok]
After(tok) == [w |-> "after", tok |-> tok]
Begin == Part("begin", 0)
Done == At(Part("done", 0))

-----------------------------------------------------------------------------
(***************************************************************************)
(* LLVM: blocks of instructions.  A block that ends in a terminator is     *)
(* terminated; nothing prevents more instructions after it.                *)
(***************************************************************************)
Br(b) == [k |-> "br", t |-> Begin, yes |-> b, no |-> b]
CondBr(t, yes, no) == [k |-> "cond", t |-> t, yes |-> yes, no |-> no]
Inner(yes, no) == [k |-> "inner", t |-> Begin, yes |-> yes, no |-> no]   \* of a vector loop
Instr(t) == [k |-> t.k, t |-> t, yes |-> 0, no |-> 0]
Ret == [k |-> "ret", t |-> Begin, yes |-> 0, no |-> 0]

IsTerminator(i) == i.k \in {"br", "cond", "inner", "ret"}

Block(inserted, name) == [in |-> inserted, ins |-> << >>, name |-> name]
Entry == 1
Exit == 2

NewBlock(g, inserted, name) == [g EXCEPT !.blocks = Append(@, Block(inserted, name))]
NewBlocks(g, names) == [g EXCEPT !.blocks = @ \o [j \in 1 .. Len(names) |-> Block(TRUE, names[j])]]
Newest(g) == Len(g.blocks)
InsertInto(g, b) == [g EXCEPT !.blocks[b].in = TRUE]
SetInsertPoint(g, b) == [g EXCEPT !.cur = b]
Emit(g, i) == [g EXCEPT !.blocks[g.cur].ins = Append(@, i)]
Terminated(g, b) ==
    LET ins == g.blocks[b].ins IN ins # << >> /\ IsTerminator(ins[Len(ins)])
EmitBrIfOpen(g, b) == IF Terminated(g, g.cur) THEN g ELSE Emit(g, Br(b))

\* x is where the variable lives: the block of its alloca, the memory of an
\* argument, which the entry makes and fills, or 0 before it has a place.
Argument == -1

NewFunction ==
    [blocks |-> <<Block(TRUE, After(Begin)), Block(FALSE, Done)>>, cur |-> Entry, x |-> 0]

Targets(i) == IF i.k \in {"br", "cond", "inner"} THEN {i.yes, i.no} ELSE {}
Succ(g, b) == UNION { Targets(g.blocks[b].ins[i]) : i \in DOMAIN g.blocks[b].ins }
HasPredecessor(g, b) == \E p \in DOMAIN g.blocks : b \in Succ(g, p)

\* verifyFunction: one terminator per block, at its end, branches to blocks of
\* the function, and every use of x dominated by its alloca; that of an
\* argument is in the entry, which dominates everything.
Step(g, seen, without) == (seen \cup UNION { Succ(g, b) : b \in seen }) \ without

ReachAround(g, x) ==     \* the blocks that are reached without passing x
    LET reach[n \in Nat] == IF n = 0 THEN {Entry} \ {x} ELSE Step(g, reach[n - 1], {x})
    IN  reach[CHOOSE n \in 0 .. Len(g.blocks) : reach[n + 1] = reach[n]]

Uses(g, b) == \E i \in DOMAIN g.blocks[b].ins : g.blocks[b].ins[i].k \in {"set", "get"}

Verified(g) ==
    LET inside == { b \in DOMAIN g.blocks : g.blocks[b].in }
    IN  /\ \A b \in inside :
              LET ins == g.blocks[b].ins
              IN  /\ Terminated(g, b) /\ \A i \in 1 .. Len(ins) - 1 : ~IsTerminator(ins[i])
                  /\ Succ(g, b) \subseteq inside
        /\ g.x # Argument => \A b \in ReachAround(g, g.x) : ~Uses(g, b)

-----------------------------------------------------------------------------
(***************************************************************************)
(* CodeGen: conditions and loops.                                          *)
(***************************************************************************)
\* A condition: the blocks of an if with n elifs.
IfNames(t, n, hasElse) ==
    <<After(Part("if", t))>> \o [i \in 1 .. n |-> At(Token("elif", t, i))]
    \o [i \in 1 .. n |-> After(Token("elif", t, i))]
    \o (IF hasElse THEN <<After(Part("else", t))>> ELSE << >>) \o <<After(Part("endif", t))>>

NewCondition(g, t, n, hasElse, names) ==
    LET base == Newest(g)
    IN  [g |-> NewBlocks(g, names),
         c |-> [k |-> "if", t |-> t, body |-> base + 1,
                conds |-> [i \in 1 .. n |-> base + 1 + i],
                bodies |-> [i \in 1 .. n |-> base + 1 + n + i],
                els |-> IF hasElse THEN base + 2 * n + 2 ELSE 0,
                end |-> base + Len(names), i |-> 0, inElse |-> FALSE]]

\* Where a condition goes on when branch i of it is not taken.
NextBlock(c, i) ==
    IF i < Len(c.conds) THEN c.conds[i + 1] ELSE IF c.els # 0 THEN c.els ELSE c.end

BeginIf(g, c) ==
    SetInsertPoint(Emit(g, CondBr(Part("if", c.t), c.body, NextBlock(c, 0))), c.body)

\* A variant that looks at the first block of the branch.
EndIfFirst(g, c) == IF Terminated(g, c.body) THEN g ELSE Emit(g, Br(c.end))

EndIf(g, c) == EmitBrIfOpen(g, c.end)

BeginElif(g, c, i) ==
    LET h == SetInsertPoint(g, c.conds[i])
    IN  SetInsertPoint(Emit(h, CondBr(Token("elif", c.t, i), c.bodies[i], NextBlock(c, i))),
                       c.bodies[i])

\* EndElif and EndElse look at the first block of the branch, EndIf at the
\* block that is being filled.
EndBranch(g, c, first) == IF Terminated(g, first) THEN g ELSE Emit(g, Br(c.end))

\* The end of the branch that is being built.
EndOpenBranch(g, c) ==
    IF c.inElse THEN EndBranch(g, c, c.els)
    ELSE IF c.i > 0 THEN EndBranch(g, c, c.bodies[c.i]) ELSE EndIf(g, c)

\* The block after the if goes away when nothing leads to it; the insert
\* point then stays in the last branch.
FinishCondition(g, c) ==
    IF HasPredecessor(g, c.end) THEN SetInsertPoint(g, c.end)
    ELSE [g EXCEPT !.blocks[c.end].in = FALSE]

NewLoop(g, t, cond, body, end) ==
    LET made == NewBlock(NewBlock(NewBlock(g, TRUE, cond), FALSE, end), FALSE, body)
        c == [k |-> "while", t |-> t, cond |-> Newest(made) - 2, end |-> Newest(made) - 1,
              body |-> Newest(made)]
    IN  [g |-> SetInsertPoint(EmitBrIfOpen(made, c.cond), c.cond), c |-> c]

AddLoopCond(g, c, i) == SetInsertPoint(InsertInto(Emit(g, i), c.body), c.body)

\* A variant that forgets the jump back.
FinishLoopOnce(g, c) == SetInsertPoint(InsertInto(EmitBrIfOpen(g, c.end), c.end), c.end)

FinishLoop(g, c) == SetInsertPoint(InsertInto(EmitBrIfOpen(g, c.cond), c.end), c.end)

\* The loop and the remainder of an expression on vectors.
VectorBlocks(g, p) ==
    LET l == NewLoop(g, 0, p, p, p)
        looped == FinishLoop(AddLoopCond(l.g, l.c, Inner(l.c.body, l.c.end)), l.c)
        r == NewCondition(looped, 0, 0, FALSE, <<p, p>>)
        rest == SetInsertPoint(Emit(r.g, Inner(r.c.body, r.c.end)), r.c.body)
    IN  FinishCondition(EndIf(rest, r.c), r.c)

-----------------------------------------------------------------------------
(***************************************************************************)
(* JitCompiler: one action per statement, or per part of a compound one.   *)
(***************************************************************************)
Top == frames[Len(frames)]
Loops == { i \in DOMAIN frames : frames[i].k = "while" }
InLoop == Loops # {}
InnerLoop == frames[CHOOSE i \in Loops : \A j \in Loops : j <= i]
Here == Len(src) + 1

\* Tokens the open ifs and whiles still need.
Owed ==
    FoldLeft(LAMBDA n, c : n + 1 + (IF c.k = "if" THEN Len(c.conds) - c.i
                                      + (IF c.els # 0 /\ ~c.inElse THEN 1 ELSE 0) ELSE 0),
             0, frames)
Room(n) == Len(src) + n + Owed <= MaxTokens

Statement(k) == Part(k, Here)
Source(tok) == src' = Append(src, tok)
Idle == UNCHANGED <<cpos, rpos, assigned>>

\* Value::CopyFrom: the first assignment makes the alloca.  That of a member
\* takes its address instead, which is also computed in this block.
Assign ==
    /\ phase = "build" /\ Room(1) /\ Source(Statement("set"))
    /\ func' = [Emit(func, Instr(Statement("set"))) EXCEPT !.x = IF @ = 0 THEN func.cur ELSE @]
    /\ UNCHANGED <<phase, frames>> /\ Idle

\* Value::CopyFrom, the first assignment when it is from an argument: x takes
\* the place of the argument and nothing is generated.  The instruction here
\* only marks where the statement is.
TakePlace ==
    /\ phase = "build" /\ Room(1) /\ func.x = 0 /\ Source(Statement("copy"))
    /\ func' = [Emit(func, Instr(Statement("copy"))) EXCEPT !.x = Argument]
    /\ UNCHANGED <<phase, frames>> /\ Idle

\* A variable that has no value yet is a null pointer.
Read ==
    /\ phase = "build" /\ Room(1) /\ Source(Statement("get"))
    /\ phase' = IF func.x = 0 THEN "crashed" ELSE phase
    /\ func' = Emit(func, Instr(Statement("get")))
    /\ UNCHANGED frames /\ Idle

VectorExpression ==
    /\ phase = "build" /\ Room(1) /\ Source(Statement("vec"))
    /\ func' = VectorBlocks(Emit(func, Instr(Statement("vec"))), After(Statement("vec")))
    /\ UNCHANGED <<phase, frames>> /\ Idle

ReturnValue ==
    /\ phase = "build" /\ Room(1) /\ Source(Statement("return"))
    /\ func' = Emit(Emit(func, Instr(Statement("return"))), Br(Exit))
    /\ UNCHANGED <<phase, frames>> /\ Idle

\* break and continue are validated: there is a loop around them.
BreakLoop ==
    /\ phase = "build" /\ Room(1) /\ InLoop /\ Source(Token("break", Here, InnerLoop.t))
    /\ func' = Emit(func, Br(InnerLoop.end))
    /\ UNCHANGED <<phase, frames>> /\ Idle

ContinueLoop ==
    /\ phase = "build" /\ Room(1) /\ InLoop /\ Source(Token("continue", Here, InnerLoop.t))
    /\ func' = Emit(func, Br(InnerLoop.cond))
    /\ UNCHANGED <<phase, frames>> /\ Idle

While ==
    LET tok == Statement("while")
        l == NewLoop(func, Here, At(tok), After(tok), After(Part("endwhile", Here)))
    IN  /\ phase = "build" /\ Room(2) /\ Source(tok)
        /\ func' = AddLoopCond(l.g, l.c, CondBr(tok, l.c.body, l.c.end))
        /\ frames' = Append(frames, l.c)
        /\ UNCHANGED phase /\ Idle

EndWhile ==
    /\ phase = "build" /\ frames # << >> /\ Top.k = "while" /\ Source(Part("endwhile", Top.t))
    /\ func' = FinishLoop(func, Top)
    /\ frames' = Front(frames)
    /\ UNCHANGED phase /\ Idle

If(n, hasElse) ==
    LET r == NewCondition(func, Here, n, hasElse, IfNames(Here, n, hasElse))
    IN  /\ phase = "build" /\ Room(2 + n + (IF hasElse THEN 1 ELSE 0)) /\ Source(Statement("if"))
        /\ func' = BeginIf(r.g, r.c)
        /\ frames' = Append(frames, r.c)
        /\ UNCHANGED phase /\ Idle

Elif ==
    /\ phase = "build" /\ frames # << >> /\ Top.k = "if" /\ Top.i < Len(Top.conds)
    /\ Source(Token("elif", Top.t, Top.i + 1))
    /\ func' = BeginElif(EndOpenBranch(func, Top), Top, Top.i + 1)
    /\ frames' = [frames EXCEPT ![Len(frames)].i = @ + 1]
    /\ UNCHANGED phase /\ Idle

Else ==
    /\ phase = "build" /\ frames # << >> /\ Top.k = "if"
    /\ Top.i = Len(Top.conds) /\ Top.els # 0 /\ ~Top.inElse
    /\ Source(Part("else", Top.t))
    /\ func' = SetInsertPoint(EndOpenBranch(func, Top), Top.els)
    /\ frames' = [frames EXCEPT ![Len(frames)].inElse = TRUE]
    /\ UNCHANGED phase /\ Idle

EndIfElse ==
    /\ phase = "build" /\ frames # << >> /\ Top.k = "if"
    /\ Top.i = Len(Top.conds) /\ (Top.els # 0 => Top.inElse)
    /\ Source(Part("endif", Top.t))
    /\ func' = FinishCondition(EndOpenBranch(func, Top), Top)
    /\ frames' = Front(frames)
    /\ UNCHANGED phase /\ Idle

\* A variant that does not look at the result of verifyFunction.
FinishUnverified ==
    LET g == SetInsertPoint(InsertInto(EmitBrIfOpen(func, Exit), Exit), Exit)
    IN  /\ phase = "build" /\ frames = << >>
        /\ func' = Emit(g, Ret) /\ phase' = "run"
        /\ UNCHANGED <<src, frames>> /\ Idle

\* FinishFunction
Finish ==
    LET g == Emit(SetInsertPoint(InsertInto(EmitBrIfOpen(func, Exit), Exit), Exit), Ret)
    IN  /\ phase = "build" /\ frames = << >>
        /\ func' = g /\ phase' = IF Verified(g) THEN "run" ELSE "rejected"
        /\ UNCHANGED <<src, frames>> /\ Idle

-----------------------------------------------------------------------------
(***************************************************************************)
(* The source: where it goes on.  Arriving at an elif or an else means     *)
(* that a branch has ended.                                                *)
(***************************************************************************)
Passing == {"endif", "endwhile", "break", "continue"}

\* The source has nothing to do at p but to go on.
Silent(p) ==
    \/ p = After(Begin)
    \/ \E q \in DOMAIN src : p = After(src[q])
    \/ \E q \in DOMAIN src : p = At(src[q]) /\ src[q].k \in Passing

Arrive(tok) == IF tok.k \in {"elif", "else"} THEN After(Part("endif", tok.c)) ELSE At(tok)

\* Where the tokens at which nothing is done lead.
Leads(tok) ==
    CASE tok.k = "endif" -> After(tok)
      [] tok.k = "endwhile" -> At(Part("while", tok.c))
      [] tok.k = "continue" -> At(Part("while", tok.n))
      [] OTHER -> After(Part("endwhile", tok.n))

Position(tok) == IF tok = Begin THEN 0 ELSE CHOOSE q \in DOMAIN src : src[q] = tok

Onward(p) ==
    IF p.w = "at" THEN Leads(p.tok)
    ELSE IF Position(p.tok) = Len(src) THEN Done ELSE Arrive(src[Position(p.tok) + 1])

\* After a condition is false: the next elif if there is one, else the else.
Otherwise(tok) ==
    LET elif == Token("elif", tok.c, tok.n + 1)
        els == Part("else", tok.c)
    IN  IF tok.k = "while" THEN After(Part("endwhile", tok.c))
        ELSE IF elif \in Range(src) THEN At(elif)
        ELSE IF els \in Range(src) THEN After(els) ELSE After(Part("endif", tok.c))

Pos(b, i) == [b |-> b, i |-> i]
Instruction == func.blocks[cpos.b].ins[cpos.i]
Running == phase = "run" /\ cpos.b # 0

Start ==
    /\ phase = "run" /\ cpos.b = 0
    /\ cpos' = Pos(Entry, 1) /\ rpos' = After(Begin)
    /\ UNCHANGED <<phase, src, frames, func, assigned>>

Pass ==
    /\ Running /\ Silent(rpos)
    /\ rpos' = Onward(rpos)
    /\ UNCHANGED <<phase, src, frames, func, cpos, assigned>>

\* Branches without a condition; a vector loop may go on or end.
Jump(yes) ==
    /\ Running /\ ~Silent(rpos) /\ Instruction.k \in {"br", "inner"}
    /\ cpos' = Pos(IF yes THEN Instruction.yes ELSE Instruction.no, 1)
    /\ UNCHANGED <<phase, src, frames, func, rpos, assigned>>

Execute ==
    /\ Running /\ ~Silent(rpos) /\ Instruction.k \in {"set", "copy", "get", "vec", "return"}
    /\ cpos' = Pos(cpos.b, cpos.i + 1)
    /\ rpos' = IF rpos.tok.k = "return" THEN Done ELSE After(rpos.tok)
    /\ assigned' = (assigned \/ Instruction.k \in {"set", "copy"})
    /\ UNCHANGED <<phase, src, frames, func>>

Decide(yes) ==
    /\ Running /\ ~Silent(rpos) /\ Instruction.k = "cond"
    /\ cpos' = Pos(IF yes THEN Instruction.yes ELSE Instruction.no, 1)
    /\ rpos' = IF yes THEN After(rpos.tok) ELSE Otherwise(rpos.tok)
    /\ UNCHANGED <<phase, src, frames, func, assigned>>

-----------------------------------------------------------------------------
FlowInit ==
    /\ phase = "build" /\ src = << >> /\ frames = << >> /\ func = NewFunction
    /\ cpos = Pos(0, 0) /\ rpos = After(Begin) /\ assigned = FALSE

FlowNext ==
    \/ Assign \/ TakePlace \/ Read \/ VectorExpression \/ ReturnValue \/ BreakLoop
    \/ ContinueLoop \/ While \/ EndWhile \/ Elif \/ Else \/ EndIfElse \/ Finish
    \/ \E n \in 0 .. MaxElif, e \in BOOLEAN : If(n, e)
    \/ Start \/ Pass \/ Execute \/ \E yes \in BOOLEAN : Jump(yes) \/ Decide(yes)

FlowSpec == FlowInit /\ [][FlowNext]_flowVars

-----------------------------------------------------------------------------
\* The generated blocks do what the source says, one statement and one
\* condition after the other, along every path: the next one in the blocks
\* is the next one in the source.
ExecutesAsWritten ==
    Running /\ ~Silent(rpos) =>
      CASE Instruction.k \in {"br", "inner"} -> TRUE
        [] Instruction.k = "ret" -> rpos = Done
        [] OTHER -> rpos = At(Instruction.t)

\* Code that was accepted never reads x from memory that nothing was stored
\* in: either the path has assigned x, or x is the place of an argument, which
\* the function stores before everything else.
NeverReadsUnset ==
    Running /\ Instruction.k = "get" => assigned \/ func.x = Argument

\* The same without the exception: x is only read on a path that has assigned
\* it.  This does not hold: when the assignment in a branch takes the place of
\* an argument (value.cc:54), the other path reads that argument.
ReadsOnlyWhatItAssigned ==
    Running /\ Instruction.k = "get" => assigned

\* Whether the statement that ends with token q can complete.
Completes ==
    LET ends[q \in 1 .. Len(src)] ==
          CASE src[q].k \in {"return", "break", "continue"} -> FALSE
            [] src[q].k = "endif" ->
                 LET parts == { p \in src[q].c + 1 .. q :
                                  src[p].c = src[q].c /\ src[p].k \in {"elif", "else", "endif"} }
                 IN  (\A p \in parts : src[p].k # "else") \/ \E p \in parts : ends[p - 1]
            [] OTHER -> TRUE
    IN  ends

\* A statement follows one that cannot complete.
DeadCode ==
    \E q \in 1 .. Len(src) - 1 :
       /\ src[q + 1].k \notin {"elif", "else", "endif", "endwhile"}
       /\ ~Completes[q]

\* The body of an elif or of an else has blocks of its own and reaches its end.
NestedInBranch ==
    \E p, q \in DOMAIN src :
       /\ src[p].k \in {"elif", "else"} /\ p < q
       /\ src[q].c = src[p].c /\ \A r \in p + 1 .. q - 1 : src[r].c # src[p].c
       /\ Completes[q - 1] /\ \E r \in p + 1 .. q - 1 : src[r].k \in {"if", "while", "vec"}

\* x is first assigned, and gets memory of its own, inside an if or a while.
FirstSetNested ==
    \E q \in DOMAIN src :
       /\ src[q].k = "set" /\ \A r \in 1 .. q - 1 : src[r].k \notin {"set", "copy"}
       /\ \E p \in 1 .. q - 1 :
             /\ src[p].k \in {"if", "while"}
             /\ \E r \in q .. Len(src) : src[r].c = p

\* A function that is not compiled has a statement nothing can reach, a
\* variable that is created inside a branch, or, in an elif or an else, an if,
\* a while or a vector expression: everything else passes verifyFunction.
RejectsOnlyUnsupported ==
    phase = "rejected" => DeadCode \/ NestedInBranch \/ FirstSetNested
=============================================================================
