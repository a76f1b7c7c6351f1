----------------------------- MODULE EvalEngine -----------------------------
(***************************************************************************)
(* rapidudf/exec/eval_engine.h: eval_function and eval_expression compile a *)
(* source text once and keep the compiled functions in one process-wide     *)
(* lru_cache, keyed by the text alone and guarded by one mutex.  Threads    *)
(* call them concurrently.  A cache hit runs the function while it holds    *)
(* the mutex; a miss compiles without it and takes it again to store.       *)
(*                                                                          *)
(* The compiler itself is the module-external step Compile: it succeeds or  *)
(* fails as Broken says.  A compiled function is a record of the text, its  *)
(* position in the text, its signature and the names and schemas            *)
(* (arg_descs) that an expression was compiled with.  latest_visit_time is  *)
(* left out: nothing reads it.                                              *)
(***************************************************************************)
EXTENDS Integers, Sequences, FiniteSets

CONSTANTS Thread,
          FuncSource,   \* texts that define functions (eval_function)
          ExprSource,   \* expression texts (eval_expression)
          Sig,          \* return type and argument types of a call
          ArgDescs,     \* names and schemas of the arguments of an expression
          NoArgs,       \* a text of eval_function names its arguments itself
          Declared,     \* Declared[s]: the signatures of the functions of text s
          Broken,       \* the <<text, signature, arg_descs>> that do not compile
          CacheSize,    \* kDefaultLRUCacheSize
          MaxEvals,     \* bound: evaluations per thread
          Missing, Nobody, NoFunc

Source == FuncSource \cup ExprSource

ASSUME EvalAssumption ==
    /\ FuncSource \cap ExprSource = {}
    /\ Declared \in [FuncSource -> Seq(Sig)]
    /\ Broken \subseteq Source \X Sig \X (ArgDescs \cup {NoArgs})
    /\ CacheSize \in Nat \ {0} /\ MaxEvals \in Nat

Request == [src : Source, sig : Sig, args : ArgDescs \cup {NoArgs}]

EvalFunction == [src : Source, idx : Nat \ {0}, sig : Sig, args : ArgDescs \cup {NoArgs}]

(* The values that stand for "nothing" are none of the things they are the    *)
(* absence of: no cache entry, no owner of the mutex, a null found_func.      *)
ASSUME NothingAssumption ==
    /\ Missing \notin Seq(EvalFunction)
    /\ Nobody \notin Thread
    /\ NoFunc \notin EvalFunction

VARIABLES m_map, m_list, m_capacity,  \* the lru_cache
          mutex,     \* EvalCache::mutex: the owner, or Nobody
          pc,        \* where each thread is in its evaluation
          req,       \* the call: text, requested signature and arg_descs
          item,      \* the EvalCacheValue a thread has compiled and not yet stored
          func,      \* found_func: the function the thread is about to call
          answer,    \* what the last evaluation of the thread returned
          evals,     \* number of evaluations begun by the thread
          offered,   \* history: the expressions stored, or found stored, since their text was cached
          answers    \* history: the functions that evaluations have run

(* CacheSize is positive and nobody calls reset_capacity: no eviction from an *)
(* empty list.                                                                *)
Lru == INSTANCE LruCache WITH Key <- Source, Value <- Seq(EvalFunction), Capacity <- CacheSize,
                              corrupt <- FALSE

cacheVars == <<m_map, m_list, m_capacity>>
localVars == <<pc, req, item, func, answer, evals>>
evalVars == <<cacheVars, mutex, localVars, offered, answers>>

(* absl::StatusOr: a value, here the function that computed it, or a status. *)
(* hit: whether the function came from the cache.                            *)
Evaluated(f, hit) == [status |-> "ok", fn |-> f, hit |-> hit]
Status(s) == [status |-> s, fn |-> NoFunc, hit |-> FALSE]

EvalInit ==
    /\ Lru!LruInit
    /\ mutex = Nobody
    /\ pc = [t \in Thread |-> "idle"]
    /\ req = [t \in Thread |-> [src |-> Missing, sig |-> Missing, args |-> NoArgs]]
    /\ item = [t \in Thread |-> <<>>]
    /\ func = [t \in Thread |-> NoFunc]
    /\ answer = [t \in Thread |-> Status("none")]
    /\ evals = [t \in Thread |-> 0]
    /\ offered = {}
    /\ answers = {}

(* CompareSignature over a cached or compiled list of functions: the types,   *)
(* not the names of the arguments.                                            *)
Matching(funcs, sig) == {i \in 1..Len(funcs) : funcs[i].sig = sig}

FirstMatch(funcs, sig) ==
    funcs[CHOOSE i \in Matching(funcs, sig) : \A j \in Matching(funcs, sig) : i <= j]

LastMatch(funcs, sig) ==
    funcs[CHOOSE i \in Matching(funcs, sig) : \A j \in Matching(funcs, sig) : j <= i]

(* The thread returns: a value computed by a function, or a status. *)
Return(t, a) ==
    /\ pc' = [pc EXCEPT ![t] = "idle"]
    /\ answer' = [answer EXCEPT ![t] = a]
    /\ item' = [item EXCEPT ![t] = <<>>]
    /\ func' = [func EXCEPT ![t] = NoFunc]
    /\ answers' = IF a.status = "ok" THEN answers \cup {a.fn} ELSE answers
    /\ UNCHANGED <<req, evals>>

Begin(t, r) ==
    /\ pc[t] = "idle" /\ evals[t] < MaxEvals
    /\ r.src \in FuncSource <=> r.args = NoArgs
    /\ pc' = [pc EXCEPT ![t] = "lookup"]
    /\ req' = [req EXCEPT ![t] = r]
    /\ answer' = [answer EXCEPT ![t] = Status("none")]
    /\ evals' = [evals EXCEPT ![t] = @ + 1]
    /\ UNCHANGED <<cacheVars, mutex, item, func, offered, answers>>

-----------------------------------------------------------------------------
(* The first critical section: get under the mutex. *)
Cached(t) == req[t].src \in Lru!Present

HasMatch(t) == Cached(t) /\ Matching(m_map[req[t].src], req[t].sig) # {}

(* Mutant: the mutex is released before the function is called. *)
LookupHitUnlocked(t) ==
    /\ pc[t] = "lookup" /\ mutex = Nobody /\ HasMatch(t)
    /\ Lru!Get(req[t].src)
    /\ func' = [func EXCEPT ![t] = FirstMatch(m_map[req[t].src], req[t].sig)]
    /\ pc' = [pc EXCEPT ![t] = "hit"]
    /\ UNCHANGED <<mutex, req, item, answer, evals, offered, answers>>

(* A hit: the thread keeps the mutex while it runs the function. *)
LookupHit(t) ==
    /\ pc[t] = "lookup" /\ mutex = Nobody /\ HasMatch(t)
    /\ Lru!Get(req[t].src)
    /\ mutex' = t
    /\ func' = [func EXCEPT ![t] = FirstMatch(m_map[req[t].src], req[t].sig)]
    /\ pc' = [pc EXCEPT ![t] = "hit"]
    /\ UNCHANGED <<req, item, answer, evals, offered, answers>>

(* Mutant: the early return forgets to unlock. *)
LookupNoMatchLocked(t) ==
    /\ pc[t] = "lookup" /\ mutex = Nobody
    /\ req[t].src \in FuncSource /\ Cached(t) /\ ~HasMatch(t)
    /\ Lru!Get(req[t].src)
    /\ Return(t, Status("NotFound"))
    /\ mutex' = t
    /\ UNCHANGED offered

(* eval_function: the text is cached and none of its functions fits. *)
LookupNoMatch(t) ==
    /\ pc[t] = "lookup" /\ mutex = Nobody
    /\ req[t].src \in FuncSource /\ Cached(t) /\ ~HasMatch(t)
    /\ Lru!Get(req[t].src)
    /\ Return(t, Status("NotFound"))
    /\ UNCHANGED <<mutex, offered>>

(* A miss; for eval_expression also a cached text without a fitting function. *)
LookupMiss(t) ==
    /\ pc[t] = "lookup" /\ mutex = Nobody
    /\ \/ ~Cached(t)
       \/ req[t].src \in ExprSource /\ ~HasMatch(t)
    /\ Lru!Get(req[t].src)
    /\ pc' = [pc EXCEPT ![t] = "compile"]
    /\ UNCHANGED <<mutex, req, item, func, answer, evals, offered, answers>>

CallHit(t) ==
    /\ pc[t] = "hit"
    /\ Return(t, Evaluated(func[t], TRUE))
    /\ mutex' = IF mutex = t THEN Nobody ELSE mutex
    /\ UNCHANGED <<cacheVars, offered>>

-----------------------------------------------------------------------------
(* Outside the mutex: compile the text. *)
CompileFails(r) ==
    IF r.src \in FuncSource THEN \E s \in Sig : <<r.src, s, NoArgs>> \in Broken
                            ELSE <<r.src, r.sig, r.args>> \in Broken

(* The functions that a text of eval_function declares. *)
FunctionsOf(s) ==
    [i \in DOMAIN Declared[s] |->
       [src |-> s, idx |-> i, sig |-> Declared[s][i], args |-> NoArgs]]

(* Mutant: only the function asked for is remembered. *)
CompiledOnlyMatching(r) ==
    IF r.src \in FuncSource THEN SelectSeq(FunctionsOf(r.src), LAMBDA f : f.sig = r.sig)
    ELSE <<[src |-> r.src, idx |-> 1, sig |-> r.sig, args |-> r.args]>>

(* eval_function remembers every function of the text, eval_expression one.   *)
Compiled(r) ==
    IF r.src \in FuncSource THEN FunctionsOf(r.src)
    ELSE <<[src |-> r.src, idx |-> 1, sig |-> r.sig, args |-> r.args]>>

CompileError(t) ==
    /\ pc[t] = "compile" /\ CompileFails(req[t])
    /\ Return(t, Status("CompileError"))
    /\ UNCHANGED <<cacheVars, mutex, offered>>

(* The loop over the compiled functions has no break: the last fit wins. *)
Compile(t) ==
    /\ pc[t] = "compile" /\ ~CompileFails(req[t])
    /\ item' = [item EXCEPT ![t] = Compiled(req[t])]
    /\ func' = [func EXCEPT ![t] = IF Matching(item'[t], req[t].sig) = {} THEN NoFunc
                                   ELSE LastMatch(item'[t], req[t].sig)]
    /\ pc' = [pc EXCEPT ![t] = "store"]
    /\ UNCHANGED <<cacheVars, mutex, req, answer, evals, offered, answers>>

-----------------------------------------------------------------------------
(* The second critical section. *)

(* eval_function: insert keeps an entry that another thread stored meanwhile. *)
StoreFunctions(t) ==
    /\ pc[t] = "store" /\ mutex = Nobody /\ req[t].src \in FuncSource
    /\ Lru!Insert(req[t].src, item[t])
    /\ pc' = [pc EXCEPT ![t] = "call"]
    /\ offered' = {p \in offered : p[1] \in Lru!Present'}
    /\ UNCHANGED <<mutex, req, item, func, answer, evals, answers>>

(* eval_expression: the new function is appended to the copy of the entry    *)
(* that get returned, so an entry that is already cached stays as it is.     *)
StoreExpression(t) ==
    /\ pc[t] = "store" /\ mutex = Nobody /\ req[t].src \in ExprSource
    /\ IF Cached(t) THEN Lru!Get(req[t].src) ELSE Lru!Insert(req[t].src, item[t])
    /\ pc' = [pc EXCEPT ![t] = "call"]
    /\ offered' = {p \in offered \cup {<<req[t].src, req[t].sig>>} : p[1] \in Lru!Present'}
    /\ UNCHANGED <<mutex, req, item, func, answer, evals, answers>>

(* No mutex is held.  In eval_function found_func points into cache_func, a  *)
(* local of the finished loop: the function object has been destroyed, and   *)
(* the call uses what its memory holds now.                                  *)
CallCompiled(t) ==
    /\ pc[t] = "call"
    /\ IF func[t] = NoFunc THEN Return(t, Status("NotFound"))
       ELSE \/ Return(t, Evaluated(func[t], FALSE))
            \/ req[t].src \in FuncSource /\ Return(t, Status("Garbage"))
    /\ UNCHANGED <<cacheVars, mutex, offered>>

ThreadStep(t) ==
    \/ LookupHit(t) \/ LookupNoMatch(t) \/ LookupMiss(t) \/ CallHit(t)
    \/ CompileError(t) \/ Compile(t)
    \/ StoreFunctions(t) \/ StoreExpression(t) \/ CallCompiled(t)

EvalNext ==
    \E t \in Thread :
        \/ \E r \in Request : Begin(t, r)
        \/ ThreadStep(t)

(* A thread that has begun an evaluation keeps running.  Each thread makes   *)
(* finitely many evaluations, so no fairness of the mutex is needed.         *)
EvalSpec == EvalInit /\ [][EvalNext]_evalVars /\ \A t \in Thread : WF_evalVars(ThreadStep(t))

-----------------------------------------------------------------------------
(* The answer a fits the request r: it comes from a function of its text with *)
(* the requested signature; one that was compiled for this call has the       *)
(* argument names and schemas of this call, one that was cached may have      *)
(* those of another.  The answer is "not found" only for a text that declares *)
(* no such function, and a compile error only for a request that is broken.   *)
Answers(a, r) ==
    /\ a.status = "ok" =>
         /\ a.fn.src = r.src /\ a.fn.sig = r.sig
         /\ r.src \in ExprSource /\ ~a.hit => a.fn.args = r.args
    /\ a.status = "NotFound" => r.src \in FuncSource
                                /\ \A i \in DOMAIN Declared[r.src] : Declared[r.src][i] # r.sig
    /\ a.status = "CompileError" => CompileFails(r)

(* Whatever other threads cached, evicted or compiled meanwhile, an           *)
(* evaluation answers its own request, the argument names of a cached         *)
(* expression apart: the cache is keyed by the text, and CompareSignature     *)
(* looks at the types alone.                                                  *)
AnswersOwnRequest == \A t \in Thread : pc[t] = "idle" => Answers(answer[t], req[t])

(* The function a hit is running belongs to an entry that stays in the cache  *)
(* until it returns: eval_engine calls it with the cache mutex held.          *)
HitStaysCached ==
    \A t \in Thread : pc[t] = "hit" =>
        Cached(t) /\ \E i \in DOMAIN m_map[req[t].src] : m_map[req[t].src][i] = func[t]

(* Every evaluation returns. *)
EvalReturns == \A t \in Thread : pc[t] # "idle" ~> pc[t] = "idle"

-----------------------------------------------------------------------------
(* What the tests and the README of the repository say and the code does not  *)
(* do.  None of the four holds.                                               *)

(* README: the cache exists "to avoid parse/compile overhead each time they   *)
(* are used": an expression evaluated before under the same signature, whose  *)
(* text has been in the cache since, is not compiled again.  Fails, since     *)
(* eval_expression stores a second signature in a copy of the entry.          *)
NoRecompile ==
    [][\A t \in Thread :
         pc[t] = "lookup" /\ pc'[t] = "compile" => <<req[t].src, req[t].sig>> \notin offered]_evalVars

(* The README calls eval_expression with the names that its text uses: they   *)
(* are the names the answer was computed with.  Fails for a text that is      *)
(* cached under other names, or other schemas, of the same types: with the    *)
(* names swapped the arguments are.                                           *)
RunsWithOwnNames ==
    \A t \in Thread : answer[t].status = "ok" /\ req[t].src \in ExprSource =>
        answer[t].fn.args = req[t].args

(* eval_engine_test evaluates one text twice and expects the same answer: the *)
(* function that answers a call does not depend on what is cached.  Fails for *)
(* a text with two functions of one signature.                                *)
SameFunctionEveryTime ==
    \A f, g \in answers : f.src = g.src /\ f.sig = g.sig => f.idx = g.idx

(* eval_engine_test: the first evaluation of a text returns what its function *)
(* computes.                                                                  *)
FirstCallRunsTheFunction == \A t \in Thread : answer[t].status # "Garbage"
=============================================================================
