------------------------- MODULE EvalEngine_proofs -------------------------
(***************************************************************************)
(* Proofs about the evaluation engine, for any number of threads, texts,    *)
(* signatures and any cache size: an evaluation answers its own request     *)
(* whatever the other threads cache or evict meanwhile, the entry a hit is  *)
(* running from stays cached until it returns, and what the threads do to   *)
(* the shared cache is a sequence of lru_cache calls, so that the theorems  *)
(* of LruCache_proofs hold of it.                                           *)
(***************************************************************************)
EXTENDS EvalEngine, WellFoundedInduction, TLAPS

LruProofs == INSTANCE LruCache_proofs
                 WITH Key <- Source, Value <- Seq(EvalFunction), Capacity <- CacheSize,
                      corrupt <- FALSE

-----------------------------------------------------------------------------
(* The inductive invariant.  A cached text holds functions of that text, all  *)
(* of them when it is a text of eval_function; a thread between its two       *)
(* critical sections holds what its own text compiles to; a thread that runs  *)
(* a cached function holds the mutex.                                         *)

(* The shared lru_cache: entries of texts, each with functions of its text.   *)
CacheHoldsOwnText ==
    /\ m_map \in [Source -> Seq(EvalFunction) \cup {Missing}]
    /\ \A s \in Source : m_map[s] # Missing =>
          \A i \in 1..Len(m_map[s]) : m_map[s][i].src = s
    /\ \A s \in FuncSource : m_map[s] # Missing =>
          m_map[s] = FunctionsOf(s)

(* The request of a thread inside an evaluation, and what it holds for it.    *)
OwnWork(t) ==
    LET r == req[t] IN
    /\ pc[t] # "idle" => r \in Request
    /\ pc[t] = "hit" => /\ mutex = t
                        /\ m_map[r.src] # Missing
                        /\ \E i \in 1..Len(m_map[r.src]) : m_map[r.src][i] = func[t]
                        /\ func[t].src = r.src /\ func[t].sig = r.sig
    /\ pc[t] = "store" => item[t] = Compiled(r)
    /\ pc[t] \in {"store", "call"} =>
          IF Matching(Compiled(r), r.sig) = {} THEN func[t] = NoFunc
          ELSE /\ func[t] # NoFunc /\ func[t].src = r.src /\ func[t].sig = r.sig
               /\ r.src \in ExprSource => func[t].args = r.args

(* The locals of a thread. *)
Answer == [status : {"none", "ok", "NotFound", "CompileError", "Garbage"},
           fn : EvalFunction \cup {NoFunc}, hit : BOOLEAN]

LocalTypes ==
    /\ pc \in [Thread -> {"idle", "lookup", "hit", "compile", "store", "call"}]
    /\ req \in [Thread -> [src : Source \cup {Missing}, sig : Sig \cup {Missing},
                        args : ArgDescs \cup {NoArgs}]]
    /\ item \in [Thread -> Seq(EvalFunction)]
    /\ func \in [Thread -> EvalFunction \cup {NoFunc}]
    /\ answer \in [Thread -> Answer]

EvalInv ==
    /\ LocalTypes
    /\ CacheHoldsOwnText
    /\ \A t \in Thread : OwnWork(t)
    /\ AnswersOwnRequest

-----------------------------------------------------------------------------
(* The loops over a list of functions find one that fits. *)

(* A nonempty set of places of a list has a first and a last member. *)
LEMMA FirstAndLast ==
    ASSUME NEW n \in Nat, NEW S \in SUBSET (1..n), S # {}
    PROVE  /\ \E i \in S : \A j \in S : i <= j
           /\ \E i \in S : \A j \in S : j <= i
<1>1. ASSUME NEW T \in SUBSET Nat, T # {} PROVE \E i \in T : \A j \in T : i <= j
    <2>1. PICK i \in T : \A j \in T : ~ (<<j, i>> \in OpToRel(<, Nat))
        BY <1>1, NatLessThanWellFounded, WFMin
    <2>2. \A j \in T : ~ (j < i)
        BY <2>1 DEF OpToRel
    <2> QED
        BY <2>2
<1>2. \E i \in S : \A j \in S : i <= j
    BY <1>1
<1>3. \E i \in S : \A j \in S : j <= i
    <2> DEFINE T == {n - i : i \in S}
    <2>1. T \in SUBSET Nat /\ T # {}
        <3>1. \A i \in S : n - i \in Nat
            OBVIOUS
        <3>2. PICK i \in S : TRUE
            OBVIOUS
        <3> QED
            BY <3>1, <3>2
    <2>2. PICK k \in T : \A j \in T : k <= j
        BY <2>1, <1>1
    <2>3. PICK i \in S : k = n - i
        BY <2>2
    <2>4. ASSUME NEW j \in S PROVE j <= i
        <3>1. n - j \in T
            OBVIOUS
        <3>2. n - i <= n - j
            BY <3>1, <2>2, <2>3
        <3> QED
            BY <3>2
    <2> QED
        BY <2>4
<1> QED
    BY <1>2, <1>3

(* CompareSignature: the function found is in the list and has the signature. *)
LEMMA MatchFacts ==
    ASSUME NEW fs \in Seq(EvalFunction), NEW sig, Matching(fs, sig) # {}
    PROVE  /\ \E i \in 1..Len(fs) : FirstMatch(fs, sig) = fs[i] /\ fs[i].sig = sig
           /\ \E i \in 1..Len(fs) : LastMatch(fs, sig) = fs[i] /\ fs[i].sig = sig
<1> DEFINE M == Matching(fs, sig)
<1>1. /\ M \in SUBSET (1..Len(fs)) /\ M # {} /\ Len(fs) \in Nat
      /\ \A i \in M : fs[i].sig = sig
    BY DEF Matching
<1>2. /\ \E i \in M : \A j \in M : i <= j
      /\ \E i \in M : \A j \in M : j <= i
    <2> HIDE DEF M
    <2> QED
        BY <1>1, FirstAndLast
<1> DEFINE f == CHOOSE i \in M : \A j \in M : i <= j
           l == CHOOSE i \in M : \A j \in M : j <= i
<1>3. f \in M /\ l \in M
    BY <1>2
<1>4. FirstMatch(fs, sig) = fs[f] /\ LastMatch(fs, sig) = fs[l]
    BY DEF FirstMatch, LastMatch
<1> QED
    BY <1>1, <1>3, <1>4

(* What the compiler makes of a request: functions of its text, all of them   *)
(* for eval_function, the one asked for in eval_expression.                   *)
LEMMA CompiledFacts ==
    ASSUME NEW r \in Request
    PROVE  /\ Compiled(r) \in Seq(EvalFunction)
           /\ \A i \in 1..Len(Compiled(r)) :
                 /\ Compiled(r)[i].src = r.src
                 /\ r.src \in ExprSource => Compiled(r)[i].args = r.args
           /\ r.src \in FuncSource =>
                 /\ Compiled(r) = FunctionsOf(r.src)
                 /\ Matching(Compiled(r), r.sig) = {} =>
                      \A i \in DOMAIN Declared[r.src] : Declared[r.src][i] # r.sig
           /\ r.src \in ExprSource => Matching(Compiled(r), r.sig) # {}
<1>1. CASE r.src \in FuncSource
    <2> DEFINE d == Declared[r.src]
    <2>1. d \in Seq(Sig) /\ DOMAIN d = 1..Len(d) /\ Len(d) \in Nat
        BY <1>1, EvalAssumption
    <2>2. Compiled(r) = [i \in 1..Len(d) |->
                           [src |-> r.src, idx |-> i, sig |-> d[i], args |-> NoArgs]]
        BY <1>1, <2>1 DEF Compiled, FunctionsOf
    <2>3. \A i \in 1..Len(d) :
             [src |-> r.src, idx |-> i, sig |-> d[i], args |-> NoArgs] \in EvalFunction
        BY <2>1, <1>1 DEF EvalFunction, Source
    <2>4. Compiled(r) \in Seq(EvalFunction) /\ Len(Compiled(r)) = Len(d)
        BY <2>1, <2>2, <2>3
    <2>5. Compiled(r) = FunctionsOf(r.src)
        BY <1>1 DEF Compiled
    <2>6. r.src \notin ExprSource
        BY <1>1, EvalAssumption
    <2>7. Matching(Compiled(r), r.sig) = {} => \A i \in DOMAIN d : d[i] # r.sig
        <3>1. ASSUME NEW i \in 1..Len(d), d[i] = r.sig PROVE i \in Matching(Compiled(r), r.sig)
            BY <3>1, <2>2, <2>4 DEF Matching
        <3> QED
            BY <2>1, <3>1
    <2> QED
        BY <2>1, <2>2, <2>4, <2>5, <2>6, <2>7
<1>2. CASE r.src \in ExprSource
    <2> DEFINE f == [src |-> r.src, idx |-> 1, sig |-> r.sig, args |-> r.args]
    <2>1. r.src \notin FuncSource
        BY <1>2, EvalAssumption
    <2>2. Compiled(r) = <<f>>
        BY <2>1 DEF Compiled
    <2>3. f \in EvalFunction /\ f.src = r.src /\ f.sig = r.sig /\ f.args = r.args
        BY DEF EvalFunction, Request
    <2> HIDE DEF f
    <2>4. Compiled(r) \in Seq(EvalFunction) /\ Len(Compiled(r)) = 1 /\ Compiled(r)[1] = f
        BY <2>2, <2>3
    <2>5. 1 \in Matching(Compiled(r), r.sig)
        BY <2>3, <2>4 DEF Matching
    <2> QED
        BY <2>1, <2>3, <2>4, <2>5
<1> QED
    BY <1>1, <1>2 DEF Source, Request

-----------------------------------------------------------------------------
(* The shared cache. *)

(* get reads: no entry changes. *)
LEMMA GetKeepsEntries ==
    ASSUME NEW k, Lru!Get(k)
    PROVE  m_map' = m_map
BY DEF Lru!Get, Lru!GetMiss, Lru!GetHit, Lru!members

(* insert of what a text compiles to: an entry stored meanwhile is kept, and  *)
(* an eviction takes a whole entry away.                                      *)
LEMMA InsertKeepsOwnText ==
    ASSUME CacheHoldsOwnText, NEW r \in Request,
           Lru!Insert(r.src, Compiled(r))
    PROVE  CacheHoldsOwnText'
<1> DEFINE c == Compiled(r)
           k == r.src
<1>1. /\ c \in Seq(EvalFunction) /\ c # Missing /\ k \in Source
      /\ \A i \in 1..Len(c) : c[i].src = k
      /\ k \in FuncSource => c = FunctionsOf(k)
    BY CompiledFacts, NothingAssumption DEF Request
<1>2. PICK gone : \/ m_map' = m_map
                  \/ m_map' = [m_map EXCEPT ![k] = c]
                  \/ m_map' = [m_map EXCEPT ![gone] = Missing, ![k] = c]
    BY Zenon DEF Lru!Insert, Lru!InsertPresent, Lru!InsertWithRoom, Lru!InsertEvicting, Lru!members
<1> HIDE DEF c, k
<1>3. /\ m_map' \in [Source -> Seq(EvalFunction) \cup {Missing}]
      /\ \A s \in Source : m_map'[s] = m_map[s] \/ m_map'[s] = Missing \/ (s = k /\ m_map'[s] = c)
    BY <1>1, <1>2 DEF CacheHoldsOwnText
<1>4. ASSUME NEW s \in Source, m_map'[s] # Missing, NEW i \in 1..Len(m_map'[s])
      PROVE  m_map'[s][i].src = s
    BY <1>1, <1>3, <1>4 DEF CacheHoldsOwnText
<1>5. ASSUME NEW s \in FuncSource, m_map'[s] # Missing
      PROVE  m_map'[s] = FunctionsOf(s)
    BY <1>1, <1>3, <1>5 DEF CacheHoldsOwnText, Source
<1> QED
    BY <1>3, <1>4, <1>5 DEF CacheHoldsOwnText

-----------------------------------------------------------------------------
(* The other threads. *)

(* No thread but t moves. *)
OnlyMoves(t) ==
    \A u \in Thread \ {t} : /\ pc'[u] = pc[u] /\ req'[u] = req[u]
                            /\ item'[u] = item[u] /\ func'[u] = func[u]
                            /\ answer'[u] = answer[u]

(* A step of t leaves what the other threads know in force: nobody else runs  *)
(* a cached function, or the cache and the mutex stay as they are.            *)
LEMMA OthersKeep ==
    ASSUME EvalInv, NEW t \in Thread, OnlyMoves(t),
           (m_map' = m_map /\ mutex' = mutex) \/ mutex \in {Nobody, t},
           NEW u \in Thread \ {t}
    PROVE  OwnWork(u)' /\ (pc'[u] = "idle" => Answers(answer'[u], req'[u]))
<1>1. OwnWork(u) /\ (pc[u] = "idle" => Answers(answer[u], req[u]))
    BY DEF EvalInv, AnswersOwnRequest
<1>2. /\ pc'[u] = pc[u] /\ req'[u] = req[u] /\ item'[u] = item[u]
      /\ func'[u] = func[u] /\ answer'[u] = answer[u]
    BY DEF OnlyMoves
<1>3. pc[u] = "hit" => m_map' = m_map /\ mutex' = mutex
    BY <1>1, NothingAssumption DEF OwnWork
<1>4. OwnWork(u)'
    BY <1>1, <1>2, <1>3 DEF OwnWork
<1> QED
    BY <1>1, <1>2, <1>4

(* A step of t keeps the invariant if it keeps the cache's part, if t knows   *)
(* afterwards what it should, and if an answer fits the request.              *)
LEMMA ThreadKeeps ==
    ASSUME EvalInv, NEW t \in Thread, LocalTypes', OnlyMoves(t), CacheHoldsOwnText',
           (m_map' = m_map /\ mutex' = mutex) \/ mutex \in {Nobody, t},
           OwnWork(t)', pc'[t] = "idle" => Answers(answer'[t], req'[t])
    PROVE  EvalInv'
<1>1. \A u \in Thread : OwnWork(u)' /\ (pc'[u] = "idle" => Answers(answer'[u], req'[u]))
    BY OthersKeep
<1> QED
    BY <1>1 DEF EvalInv, AnswersOwnRequest

(* Return hands the answer to the caller of t. *)
LEMMA ThreadReturns ==
    ASSUME EvalInv, NEW t \in Thread, NEW a \in Answer, Return(t, a), CacheHoldsOwnText',
           (m_map' = m_map /\ mutex' = mutex) \/ mutex \in {Nobody, t},
           Answers(a, req[t])
    PROVE  EvalInv'
<1>1. LocalTypes
    BY DEF EvalInv
<1>2. LocalTypes' /\ OnlyMoves(t)
    <2>1. <<>> \in Seq(EvalFunction)
        OBVIOUS
    <2> QED
        BY <1>1, <2>1 DEF LocalTypes, OnlyMoves, Return
<1>3. pc'[t] = "idle" /\ answer'[t] = a /\ req'[t] = req[t]
    BY <1>1 DEF LocalTypes, Return
<1>4. OwnWork(t)'
    BY <1>3 DEF OwnWork
<1> QED
    BY <1>2, <1>3, <1>4, ThreadKeeps

-----------------------------------------------------------------------------
(* One lemma per step of an evaluation. *)

(* A call begins with its lookup. *)
LEMMA BeginKeeps ==
    ASSUME EvalInv, NEW t \in Thread, NEW r \in Request, Begin(t, r)
    PROVE  EvalInv'
<1>1. LocalTypes /\ CacheHoldsOwnText
    BY DEF EvalInv
<1>2. LocalTypes' /\ OnlyMoves(t)
    <2>1. Status("none") \in Answer
        BY DEF Status, Answer
    <2> QED
        BY <1>1, <2>1 DEF LocalTypes, OnlyMoves, Begin, Request
<1>3. m_map' = m_map /\ mutex' = mutex /\ CacheHoldsOwnText'
    BY <1>1 DEF CacheHoldsOwnText, Begin, cacheVars
<1>4. pc'[t] = "lookup" /\ req'[t] = r
    BY <1>1 DEF LocalTypes, Begin
<1>5. OwnWork(t)'
    BY <1>4 DEF OwnWork
<1> QED
    BY <1>2, <1>3, <1>4, <1>5, ThreadKeeps

(* A hit takes the mutex and the first function that fits. *)
LEMMA LookupHitKeeps ==
    ASSUME EvalInv, NEW t \in Thread, LookupHit(t)
    PROVE  EvalInv'
<1> DEFINE r == req[t]
           fs == m_map[r.src]
<1>1. LocalTypes /\ CacheHoldsOwnText /\ OwnWork(t)
    BY DEF EvalInv
<1>3. m_map' = m_map /\ CacheHoldsOwnText'
    BY <1>1, GetKeepsEntries DEF CacheHoldsOwnText, LookupHit
<1>4. /\ pc'[t] = "hit" /\ req'[t] = r /\ mutex' = t /\ mutex = Nobody
      /\ func'[t] = FirstMatch(fs, r.sig)
    BY <1>1 DEF LocalTypes, LookupHit
<1>5. r \in Request
    BY <1>1 DEF OwnWork, LookupHit
<1>6. fs # Missing /\ fs \in Seq(EvalFunction) /\ Matching(fs, r.sig) # {}
    BY <1>1, <1>5 DEF LookupHit, HasMatch, Cached, Lru!Present, CacheHoldsOwnText
<1>7. PICK i \in 1..Len(fs) : FirstMatch(fs, r.sig) = fs[i] /\ fs[i].sig = r.sig
    BY <1>6, MatchFacts
<1>8. fs[i].src = r.src
    BY <1>1, <1>5, <1>6 DEF CacheHoldsOwnText, Request
<1>9. OwnWork(t)'
    BY <1>3, <1>4, <1>5, <1>6, <1>7, <1>8 DEF OwnWork
<1>10. LocalTypes' /\ OnlyMoves(t)
    <2>1. FirstMatch(fs, r.sig) \in EvalFunction
        BY <1>6, <1>7
    <2> QED
        BY <1>1, <2>1 DEF LocalTypes, OnlyMoves, LookupHit
<1> QED
    BY <1>3, <1>4, <1>9, <1>10, ThreadKeeps

(* eval_function reports a signature that no function of the cached text has. *)
LEMMA LookupNoMatchKeeps ==
    ASSUME EvalInv, NEW t \in Thread, LookupNoMatch(t)
    PROVE  EvalInv'
<1> DEFINE r == req[t]
<1>1. CacheHoldsOwnText /\ OwnWork(t)
    BY DEF EvalInv
<1>2. m_map' = m_map /\ CacheHoldsOwnText' /\ mutex' = mutex
    BY <1>1, GetKeepsEntries DEF CacheHoldsOwnText, LookupNoMatch
<1>3. r \in Request /\ r.src \in FuncSource
    BY <1>1 DEF OwnWork, LookupNoMatch
<1>4. m_map[r.src] # Missing /\ Matching(m_map[r.src], r.sig) = {}
    BY <1>3 DEF LookupNoMatch, HasMatch, Cached, Lru!Present
<1>5. m_map[r.src] = FunctionsOf(r.src)
    BY <1>1, <1>3, <1>4 DEF CacheHoldsOwnText
<1>6. FunctionsOf(r.src) = Compiled(r)
    BY <1>3, CompiledFacts
<1>7. \A i \in DOMAIN Declared[r.src] : Declared[r.src][i] # r.sig
    BY <1>3, <1>4, <1>5, <1>6, CompiledFacts
<1>8. Answers(Status("NotFound"), r)
    BY <1>3, <1>7 DEF Answers, Status
<1>9. Status("NotFound") \in Answer
    BY DEF Status, Answer
<1> QED
    BY <1>2, <1>8, <1>9, ThreadReturns DEF LookupNoMatch

(* A miss goes on to compile. *)
LEMMA LookupMissKeeps ==
    ASSUME EvalInv, NEW t \in Thread, LookupMiss(t)
    PROVE  EvalInv'
<1>1. LocalTypes /\ CacheHoldsOwnText /\ OwnWork(t)
    BY DEF EvalInv
<1>2. LocalTypes' /\ OnlyMoves(t)
    BY <1>1 DEF LocalTypes, OnlyMoves, LookupMiss
<1>3. m_map' = m_map /\ CacheHoldsOwnText' /\ mutex' = mutex
    BY <1>1, GetKeepsEntries DEF CacheHoldsOwnText, LookupMiss
<1>4. pc[t] = "lookup" /\ pc'[t] = "compile" /\ req'[t] = req[t]
    BY <1>1 DEF LocalTypes, LookupMiss
<1>5. OwnWork(t)'
    BY <1>1, <1>4 DEF OwnWork
<1> QED
    BY <1>2, <1>3, <1>4, <1>5, ThreadKeeps

(* A hit answers with the cached function and gives the mutex back. *)
LEMMA CallHitKeeps ==
    ASSUME EvalInv, NEW t \in Thread, CallHit(t)
    PROVE  EvalInv'
<1>1. CacheHoldsOwnText /\ OwnWork(t)
    BY DEF EvalInv
<1>2. CacheHoldsOwnText'
    BY <1>1 DEF CacheHoldsOwnText, CallHit, cacheVars
<1>3. mutex = t /\ func[t].src = req[t].src /\ func[t].sig = req[t].sig
    BY <1>1 DEF OwnWork, CallHit
<1>4. Answers(Evaluated(func[t], TRUE), req[t])
    BY <1>3 DEF Answers, Evaluated
<1>5. Evaluated(func[t], TRUE) \in Answer
    BY DEF Evaluated, Answer, EvalInv, LocalTypes
<1> QED
    BY <1>2, <1>3, <1>4, <1>5, ThreadReturns DEF CallHit

(* A text that does not compile is reported as such. *)
LEMMA CompileErrorKeeps ==
    ASSUME EvalInv, NEW t \in Thread, CompileError(t)
    PROVE  EvalInv'
<1>1. CacheHoldsOwnText
    BY DEF EvalInv
<1>2. CacheHoldsOwnText' /\ m_map' = m_map /\ mutex' = mutex
    BY <1>1 DEF CacheHoldsOwnText, CompileError, cacheVars
<1>3. Answers(Status("CompileError"), req[t])
    BY DEF Answers, Status, CompileError
<1>4. Status("CompileError") \in Answer
    BY DEF Status, Answer
<1> QED
    BY <1>2, <1>3, <1>4, ThreadReturns DEF CompileError

(* The compiler's functions are those of the request's own text. *)
LEMMA CompileKeeps ==
    ASSUME EvalInv, NEW t \in Thread, Compile(t)
    PROVE  EvalInv'
<1> DEFINE r == req[t]
           c == Compiled(r)
<1>1. LocalTypes /\ CacheHoldsOwnText /\ OwnWork(t)
    BY DEF EvalInv
<1>3. m_map' = m_map /\ CacheHoldsOwnText' /\ mutex' = mutex
    BY <1>1 DEF CacheHoldsOwnText, Compile, cacheVars
<1>4. pc'[t] = "store" /\ req'[t] = r /\ item'[t] = c
    BY <1>1 DEF LocalTypes, Compile
<1>5. func'[t] = IF Matching(c, r.sig) = {} THEN NoFunc ELSE LastMatch(c, r.sig)
    BY <1>1, <1>4 DEF LocalTypes, Compile
<1>6. r \in Request
    BY <1>1 DEF OwnWork, Compile
<1>7. c \in Seq(EvalFunction) /\ \A i \in 1..Len(c) :
                                  /\ c[i] \in EvalFunction /\ c[i].src = r.src
                                  /\ r.src \in ExprSource => c[i].args = r.args
    BY <1>6, CompiledFacts
<1>8. ASSUME Matching(c, r.sig) # {}
      PROVE  /\ func'[t] # NoFunc /\ func'[t].src = r.src /\ func'[t].sig = r.sig
             /\ r.src \in ExprSource => func'[t].args = r.args
    BY <1>5, <1>7, <1>8, MatchFacts, NothingAssumption
<1>9. OwnWork(t)'
    BY <1>4, <1>5, <1>6, <1>8 DEF OwnWork
<1>10. LocalTypes' /\ OnlyMoves(t)
    <2>1. func'[t] \in EvalFunction \cup {NoFunc}
        BY <1>5, <1>7, MatchFacts
    <2> QED
        BY <1>1, <1>7, <2>1 DEF LocalTypes, OnlyMoves, Compile
<1> QED
    BY <1>3, <1>4, <1>9, <1>10, ThreadKeeps

(* eval_function stores all functions of its text. *)
LEMMA StoreFunctionsKeeps ==
    ASSUME EvalInv, NEW t \in Thread, StoreFunctions(t)
    PROVE  EvalInv'
<1>1. LocalTypes /\ CacheHoldsOwnText /\ OwnWork(t)
    BY DEF EvalInv
<1>2. LocalTypes' /\ OnlyMoves(t)
    BY <1>1 DEF LocalTypes, OnlyMoves, StoreFunctions
<1>3. /\ pc'[t] = "call" /\ req'[t] = req[t] /\ func'[t] = func[t]
      /\ pc[t] = "store" /\ mutex = Nobody
    BY <1>1 DEF LocalTypes, StoreFunctions
<1>4. CacheHoldsOwnText'
    BY <1>1, <1>3, InsertKeepsOwnText DEF OwnWork, StoreFunctions
<1>5. OwnWork(t)'
    BY <1>1, <1>3 DEF OwnWork
<1> QED
    BY <1>2, <1>3, <1>4, <1>5, ThreadKeeps

(* eval_expression stores its function unless the text is cached already. *)
LEMMA StoreExpressionKeeps ==
    ASSUME EvalInv, NEW t \in Thread, StoreExpression(t)
    PROVE  EvalInv'
<1>1. LocalTypes /\ CacheHoldsOwnText /\ OwnWork(t)
    BY DEF EvalInv
<1>2. LocalTypes' /\ OnlyMoves(t)
    BY <1>1 DEF LocalTypes, OnlyMoves, StoreExpression
<1>3. /\ pc'[t] = "call" /\ req'[t] = req[t] /\ func'[t] = func[t]
      /\ pc[t] = "store" /\ mutex = Nobody
    BY <1>1 DEF LocalTypes, StoreExpression
<1>4. CacheHoldsOwnText'
    <2>1. CASE Cached(t)
        BY <1>1, <2>1, GetKeepsEntries DEF CacheHoldsOwnText, StoreExpression
    <2>2. CASE ~Cached(t)
        BY <1>1, <1>3, <2>2, InsertKeepsOwnText DEF OwnWork, StoreExpression
    <2> QED
        BY <2>1, <2>2
<1>5. OwnWork(t)'
    BY <1>1, <1>3 DEF OwnWork
<1> QED
    BY <1>2, <1>3, <1>4, <1>5, ThreadKeeps

(* The answer of a miss: the function just compiled, or none that fits. *)
LEMMA CallCompiledKeeps ==
    ASSUME EvalInv, NEW t \in Thread, CallCompiled(t)
    PROVE  EvalInv'
<1> DEFINE r == req[t]
<1>1. LocalTypes /\ CacheHoldsOwnText /\ OwnWork(t)
    BY DEF EvalInv
<1>2. CacheHoldsOwnText' /\ m_map' = m_map /\ mutex' = mutex
    BY <1>1 DEF CacheHoldsOwnText, CallCompiled, cacheVars
<1>3. r \in Request
    BY <1>1 DEF OwnWork, CallCompiled
<1>4. IF Matching(Compiled(r), r.sig) = {} THEN func[t] = NoFunc
      ELSE /\ func[t] # NoFunc /\ func[t].src = r.src /\ func[t].sig = r.sig
           /\ r.src \in ExprSource => func[t].args = r.args
    BY <1>1 DEF OwnWork, CallCompiled
<1>5. CASE func[t] = NoFunc
    <2>1. Return(t, Status("NotFound")) /\ Status("NotFound") \in Answer
        BY <1>5 DEF CallCompiled, Status, Answer
    <2>2. Matching(Compiled(r), r.sig) = {}
        BY <1>4, <1>5
    <2>3. r.src \in FuncSource
        BY <1>3, <2>2, CompiledFacts DEF Source, Request
    <2>4. \A i \in DOMAIN Declared[r.src] : Declared[r.src][i] # r.sig
        BY <1>3, <2>2, <2>3, CompiledFacts
    <2>5. Answers(Status("NotFound"), r)
        BY <2>3, <2>4 DEF Answers, Status
    <2> QED
        BY <1>2, <2>1, <2>5, ThreadReturns
<1>6. CASE func[t] # NoFunc
    <2>1. \E a \in {Evaluated(func[t], FALSE), Status("Garbage")} : Return(t, a)
        BY <1>6 DEF CallCompiled
    <2>2. Evaluated(func[t], FALSE) \in Answer /\ Status("Garbage") \in Answer
        BY <1>1 DEF Evaluated, Status, Answer, LocalTypes
    <2>3. Answers(Evaluated(func[t], FALSE), r)
        BY <1>4, <1>6 DEF Answers, Evaluated
    <2>4. Answers(Status("Garbage"), r)
        BY DEF Answers, Status
    <2> QED
        BY <1>2, <2>1, <2>2, <2>3, <2>4, ThreadReturns
<1> QED
    BY <1>5, <1>6

-----------------------------------------------------------------------------
(* The theorems. *)

(* Nothing is cached and nobody evaluates at first. *)
LEMMA EvalInitInv == EvalInit => EvalInv
<1> SUFFICES ASSUME EvalInit PROVE EvalInv
    OBVIOUS
<1>1. \A s \in Source : m_map[s] = Missing
    BY DEF EvalInit, Lru!LruInit
<1>2. CacheHoldsOwnText
    BY <1>1 DEF CacheHoldsOwnText, EvalInit, Lru!LruInit, Source
<1>3. Status("none") \in Answer /\ <<>> \in Seq(EvalFunction)
    BY DEF Status, Answer
<1>4. LocalTypes
    BY <1>3 DEF LocalTypes, EvalInit
<1>5. \A t \in Thread : OwnWork(t)
    BY DEF OwnWork, EvalInit
<1>6. AnswersOwnRequest
    BY DEF AnswersOwnRequest, Answers, Status, EvalInit
<1> QED
    BY <1>2, <1>4, <1>5, <1>6 DEF EvalInv

(* Every step of every thread keeps the invariant. *)
LEMMA EvalStepInv == EvalInv /\ [EvalNext]_evalVars => EvalInv'
<1> SUFFICES ASSUME EvalInv, [EvalNext]_evalVars PROVE EvalInv'
    OBVIOUS
<1>1. CASE UNCHANGED evalVars
    <2>1. UNCHANGED <<m_map, mutex, pc, req, item, func, answer>>
        BY <1>1 DEF evalVars, cacheVars, localVars
    <2>2. \A t \in Thread : OwnWork(t)'
        BY <2>1 DEF EvalInv, OwnWork
    <2> QED
        BY <2>1, <2>2 DEF EvalInv, LocalTypes, CacheHoldsOwnText, AnswersOwnRequest
<1>2. ASSUME NEW t \in Thread, NEW r \in Request, Begin(t, r)
      PROVE  EvalInv'
    BY <1>2, BeginKeeps
<1>3. ASSUME NEW t \in Thread, ThreadStep(t) PROVE EvalInv'
    BY <1>3, LookupHitKeeps, LookupNoMatchKeeps, LookupMissKeeps, CallHitKeeps,
       CompileErrorKeeps, CompileKeeps, StoreFunctionsKeeps, StoreExpressionKeeps,
       CallCompiledKeeps DEF ThreadStep
<1> QED
    BY <1>1, <1>2, <1>3 DEF EvalNext

(* Every evaluation answers its own request, for any number of threads, any   *)
(* texts and any cache size: no interleaving of lookups, compilations, stores *)
(* and evictions makes eval_function or eval_expression run a function of     *)
(* another text or signature, or report an error that is not its own; what it *)
(* compiled itself has its own argument names.                                *)
THEOREM EvalAnswersOwnRequest == EvalSpec => []AnswersOwnRequest
BY EvalInitInv, EvalStepInv, PTL DEF EvalSpec, EvalInv

(* The entry whose function a hit is running is not evicted before it         *)
(* returns, because the call is made with EvalCache::mutex held.              *)
THEOREM EvalHitStaysCached == EvalSpec => []HitStaysCached
<1>1. EvalInv => HitStaysCached
    <2> SUFFICES ASSUME EvalInv, NEW t \in Thread, pc[t] = "hit"
                 PROVE  Cached(t) /\ \E i \in DOMAIN m_map[req[t].src] :
                                        m_map[req[t].src][i] = func[t]
        BY DEF HitStaysCached
    <2>1. /\ req[t].src \in Source /\ m_map[req[t].src] # Missing
          /\ \E i \in 1..Len(m_map[req[t].src]) : m_map[req[t].src][i] = func[t]
        BY DEF EvalInv, OwnWork, Request
    <2>2. m_map[req[t].src] \in Seq(EvalFunction)
        BY <2>1 DEF EvalInv, CacheHoldsOwnText
    <2> QED
        BY <2>1, <2>2 DEF Cached, Lru!Present
<1> QED
    BY <1>1, EvalInitInv, EvalStepInv, PTL DEF EvalSpec

-----------------------------------------------------------------------------
(* What the threads do to the shared cache is a sequence of lru_cache calls.  *)

(* The component's definitions, reached through the two instances. *)
LEMMA SameCalls ==
    ASSUME NEW k, NEW v
    PROVE  /\ Lru!LruInit <=> LruProofs!LruInit
           /\ Lru!Get(k) <=> LruProofs!Get(k)
           /\ Lru!Insert(k, v) <=> LruProofs!Insert(k, v)
BY DEF Lru!LruInit, LruProofs!LruInit, Lru!Get, LruProofs!Get, Lru!GetMiss, LruProofs!GetMiss,
       Lru!GetHit, LruProofs!GetHit, Lru!Insert, LruProofs!Insert, Lru!InsertPresent,
       LruProofs!InsertPresent, Lru!Full, LruProofs!Full, Lru!InsertWithRoom, LruProofs!InsertWithRoom,
       Lru!InsertEvicting, LruProofs!InsertEvicting, Lru!Present, LruProofs!Present,
       Lru!size, LruProofs!size, Lru!Iterator, LruProofs!Iterator, Lru!members, LruProofs!members,
       Lru!Cardinality, LruProofs!Cardinality, Lru!Cons, LruProofs!Cons,
       Lru!RemoveAt, LruProofs!RemoveAt, Lru!Front, LruProofs!Front, Lru!Last, LruProofs!Last

(* Each step of a thread makes one call of the cache, or none. *)
LEMMA EvalStepCallsLru ==
    EvalInv /\ [EvalNext]_evalVars => [LruProofs!LruNext]_(LruProofs!lruVars)
<1> SUFFICES ASSUME EvalInv, [EvalNext]_evalVars
             PROVE  [LruProofs!LruNext]_(LruProofs!lruVars)
    OBVIOUS
<1>1. ASSUME UNCHANGED cacheVars PROVE [LruProofs!LruNext]_(LruProofs!lruVars)
    BY <1>1 DEF cacheVars, LruProofs!lruVars, LruProofs!members
<1>2. ASSUME NEW k \in Source, Lru!Get(k) PROVE LruProofs!LruNext
    BY <1>2, SameCalls DEF LruProofs!LruNext, LruProofs!Call
<1>3. ASSUME NEW k \in Source, NEW v \in Seq(EvalFunction), Lru!Insert(k, v)
      PROVE  LruProofs!LruNext
    BY <1>3, SameCalls DEF LruProofs!LruNext, LruProofs!Call
<1>4. CASE UNCHANGED evalVars
    BY <1>1, <1>4 DEF evalVars
<1>5. ASSUME NEW t \in Thread, NEW r \in Request, Begin(t, r)
      PROVE  [LruProofs!LruNext]_(LruProofs!lruVars)
    BY <1>1, <1>5 DEF Begin
<1>6. ASSUME NEW t \in Thread, ThreadStep(t) PROVE [LruProofs!LruNext]_(LruProofs!lruVars)
    <2>1. item[t] \in Seq(EvalFunction) /\ (pc[t] # "idle" => req[t].src \in Source)
        BY DEF EvalInv, LocalTypes, OwnWork, Request
    <2>2. CASE LookupHit(t) \/ LookupNoMatch(t) \/ LookupMiss(t)
        BY <2>1, <2>2, <1>2 DEF LookupHit, LookupNoMatch, LookupMiss
    <2>3. CASE StoreFunctions(t) \/ StoreExpression(t)
        BY <2>1, <2>3, <1>2, <1>3 DEF StoreFunctions, StoreExpression
    <2>4. CASE CallHit(t) \/ CompileError(t) \/ Compile(t) \/ CallCompiled(t)
        BY <2>4, <1>1 DEF CallHit, CompileError, Compile, CallCompiled
    <2> QED
        BY <1>6, <2>2, <2>3, <2>4 DEF ThreadStep
<1> QED
    BY <1>4, <1>5, <1>6 DEF EvalNext

(* The cache the threads share is an lru_cache that only its own operations   *)
(* change, so what is proved of the class holds of it: its list and its map   *)
(* agree whenever a thread can look, and what it evicts is the least recently *)
(* used text.                                                                 *)
THEOREM EvalCacheIsLru ==
    EvalSpec => /\ LruProofs!LruSpec
                /\ []LruProofs!ListMatchesMap
                /\ LruProofs!EvictsLeastRecentlyUsed
<1>0. CacheSize \in Nat /\ Missing \notin Seq(EvalFunction)
    BY EvalAssumption, NothingAssumption
<1>1. EvalInit => LruProofs!LruInit
    BY SameCalls DEF EvalInit
<1>2. EvalSpec => LruProofs!LruSpec
    BY <1>1, EvalInitInv, EvalStepInv, EvalStepCallsLru, PTL DEF EvalSpec, LruProofs!LruSpec
<1>3. LruProofs!LruSpec => []LruProofs!ListMatchesMap
    BY LruProofs!LruListMatchesMap, <1>0, PTL
       DEF LruProofs!LruListMatchesMap
<1>4. LruProofs!LruSpec => LruProofs!EvictsLeastRecentlyUsed
    BY LruProofs!LruEvictsLeastRecentlyUsed, <1>0, PTL
       DEF LruProofs!LruEvictsLeastRecentlyUsed
<1> QED
    BY <1>2, <1>3, <1>4, PTL
=============================================================================
