# A TLA+ model of RapidUDF

RapidUDF compiles user-defined functions and expressions to machine code and
runs them over scalars, SIMD vectors and dynamic tables. This directory models
its library (`src/rapidudf`) in TLA+: the run-time state (caches, memory,
tables, schemas) and the way from a parsed function to generated code. TLC
checks the models on small instances, and TLAPS proves the properties of nine
of them for every value of the constants. `PROJECT.json` lists the runs, the
source lines behind each definition, the hazards, the findings and the theorems.

## The system

| Component | State | Operations | Used by |
|---|---|---|---|
| LRU cache (`common/lru_cache.h`) | hash map to (value, list iterator), list of keys, capacity | insert, get, erase, clear, reset_capacity, evict | evaluation engine |
| Evaluation engine (`exec/`) | one process-wide cache of compiled functions and its mutex | eval_function, eval_expression, from any thread | host program |
| Arena (`memory/folly_arena.*`) | block list, current block, bump pointer, large blocks, counters | allocate, clear, destructor | thread-cached arena |
| Cleanup list (`common/AtomicIntrusiveLinkedList.h`) | atomic head, hooks in the nodes | insertHead, sweep, reverseSweep | Context |
| Context, thread-cached arena (`context/`, `memory/arena.*`) | cleanups, cached objects by type, an arena per thread | New, Own, GetPtr, ArenaAllocate, Reset, destructor | compiled functions, tables |
| Table (`table/table.*`, `table/row.*`) | a row list per row schema, a lazy cache of columns | AddRows, InsertRow, Get, unload, filter, order_by, topk, head, tail, concat, group_by, distinct | compiled functions |
| Table and object schemas (`table/table_schema.*`, `types/dyn_object*`) | global registry by name and its mutex; fields with offsets, columns, row schemas | GetOrCreate, GetMutable, AddField, AddColumns, NewObject, NewTable, Set | compiler, tables |
| Reflection (`reflect/`) | members by type, type names, symbols; filled at static initialisation | AddStructField, AddStructMethod, GetStructMember | schemas, parser |
| Types (`meta/dtype.*`, `meta/function.*`) | none: a packed descriptor, with a pool for nested element types | PtrTo, Elem, ToSimdVector, Compare, get_dtype | everything |
| Built-ins (`functions/`) | table of functions by name, filled once | Register, GetFunction; pure kernels | parser, code generation |
| Parser and validation (`ast/`) | ParseContext: per function its variables, its calls, a cursor | parse_*_ast, Validate | compiler driver |
| Code generation (`compiler/codegen*`, `compiler_*.cc`, `value.*`) | LLVM module and insert point, functions, variables | one emitter per node and statement | compiler driver |
| Compiler driver (`compiler/compiler.*`, `function.h`) | the ParseContext, the current code generator, parsed functions; JitFunctions share the generator | CompileSource, CompileFunction, CompileExpression, LoadFunction; move and destruction of a JitFunction | evaluation engine, host program |

Interaction: a call of `eval_*` looks its text up in the LRU cache under the
mutex, and compiles and stores it outside on a miss. A compiled function gets a
Context; what it allocates comes from the arena of its thread, and what needs a
destructor goes on the Context's cleanup list, from any thread. Tables are
owned by a Context and take column memory from its arena. `Context::Reset`
clears all the arenas and sweeps the list. A compilation clears the ParseContext,
validates the trees of the parser into it (types, and a note of every function
that will be called), declares what was noted to a new code generator, emits
each function and finishes the module. Member accesses resolve through the
reflection index, fields of objects and tables through their schema.

What is hard here: the mutex of the engine is released between lookup and
store; the cleanup list is lock-free and its nodes are deleted and allocated
again while other threads hold old heads; the arena reuses blocks after
`clear()`; Reset runs beside threads that are still handing objects over; and
the columns of a table are a cache of its rows that many operations must
invalidate, over several row lists that must stay in step. In the compiler, the
parser and the code generator compute types and calls twice, by rules that must
agree; values are places that are loaded late; blocks are left and entered by
nested statements; and one ParseContext outlives many compilations, failed ones
too. `hazards` in `PROJECT.json` names the lines.

What makes each part correct:

- LRU cache: list and map agree; it never grows past its capacity; the victim is
  the least recently used key.
- Engine: an evaluation answers its own request whatever other threads do; the
  function a hit runs stays cached while it runs; every evaluation returns.
- Arena: live allocations are disjoint and inside owned memory; the accounting is
  exact; kept blocks are used before new ones are obtained.
- Cleanup list: each node inserted is called exactly once, in the promised order.
- Context: each object is deleted exactly once; Reset and the destructor reclaim
  all that was there, of every thread.
- Table: row lists in step; loaded columns show the current rows; sort, group and
  distinct follow the fields of the rows.
- Schemas: one schema per name, found only when initialised; fields do not
  overlap; a column reads the field it is named after.
- Reflection: a member found for a type is a member of that type.
- Validation and code generation: what validates is built; the code has the types
  that were validated, computes what the statements say, takes the path the
  source says, and reads no memory before something is stored in it; vector code treats each
  element once and stays in its buffer.
- Compiler: compilations do not influence each other; a function can be called as
  long as somebody owns it.

## Modules

- **RecencyCache**: what an LRU cache promises: contents, a use order, a limit.
- **LruCache**: `lru_cache`, one action per member function, variables named
  as its members. The iterator in the map is where the key is in the list
  (`Iterator`). The cache is made with a positive capacity, and reset_capacity takes
  any smaller one, 0 included: then insert evicts from an empty list
  (`lru_cache.h:116`), which is undefined and ends the model (`corrupt`).
  `EvictsLeastRecentlyUsed` is `RecencyCache` under the mapping
  "x is older than y iff x is behind y in the list".
- **EvalEngine**: instantiates LruCache. A thread goes through lookup, hit or
  compile, store and call; each critical section is one step, except that a
  hit keeps the mutex until its function returns. A request is a text, a signature
  and, for an expression, the names and schemas of the arguments (`ArgDescs`); a
  compiled function keeps those it was compiled with, the cache compares texts and
  types only. The compiler is external to this module and
  succeeds or fails by `Broken`. A text is used with one of the two entry points.
  `offered` and `answers` are history variables.
- **FollyArena**: the four paths of `allocate` (fits the current block, reuses
  the next block, large block, new block) and its failures, `clear` and the
  destructor. Sizes and counters are `size_t` of width `SizeMax`. `live` is a
  history variable. `new char[]` is external: any block not in use.
- **CleanupList**: what the cleanup list promises: an insert and the taking of a sweep
  happen at once, items are called in order, a sweep returns when it should.
- **AtomicList**: one action per load, store, exchange or compare-and-swap;
  `weak` failures included. A node is freed by the callback and can be inserted
  again at once. `stack`, `batch`, `turned` and `owner` are history variables
  for what the pointers mean. Operations interleave in one order: the
  acquire/release orderings of the code are taken as sufficient for it.
  `ImplementsCleanupList` is `CleanupList` under the mapping "inserted is what a
  compare-and-swap has put at the head, to be called is what an exchange took".
- **Context**: composes the above by what they promise: `insertHead` and the
  taking of a sweep are one step each (as in CleanupList: `UsesCleanupList`), an arena is a
  number of live allocations (FollyArena has the detail). The classes take no
  lock for `ptrs_` or for `clear()` against `allocate()`; the guards
  `ResetAlone` and `GetPtrAlone` state the discipline their callers need.
  Objects may be owned while a Reset sweeps.
- **Table**: `rows_` per table and row schema; `column` is Null (no memory), empty
  (unloaded: memory and size 0) or values. Clones have an empty cache. AddRows
  and InsertRow go list by list and may be refused half way. Nothing in the code
  knows of it, and the caller may call them again; `torn`, a history variable,
  counts the rows that refused calls left in the first list. What walks all row
  lists by `Count()` would read past the end of the shorter ones (undefined), or cut
  each list by itself, and is not modelled for such a table. `KeySources` says where callers of order_by take
  the key from: a vector they computed, a column of the table itself, or a
  column name.
- **DType** (no state): the type descriptor as a record of its bit fields; `Compare`, `PtrTo`,
  `Elem`, `ByteSize` and the others as operators, `get_dtype` over small trees
  of C++ types. The word `Control` that the code compares and uses as a key is
  kept, because two types may share it.
- **Reflect**: the member index keyed by that word, registration of fields and
  methods, type names and symbols. The types registered in the run include two map
  types that share a word.
- **HashMap** (no state): `emplace` of the hash maps of the library.
- **DynObjectSchema**: the registry and the layout. Threads create (lock, init,
  publish), look up, extend and use schemas. Layouts are offsets and sizes in
  bytes; the memory of an object is a function from its words, so that overlap
  and stores past its end show. A field type is any, and known by its `ByteSize()`
  and the words its values take (`Slots`).
- **Schema**: extends Reflect and DynObjectSchema. Registration first, then the
  threads of DynObjectSchema with the types that AddField and Set accept. Tables
  get columns from protobuf, flatbuffers or struct descriptions, field by field.
- **Builtins** (no state): the functions and operators with their names and signatures,
  as the `init_builtin_*` functions register them. The constant `Factory` of
  Validate is that table with the functions of the program that uses the library;
  `FactoryAssumption` says that the built-in ones are in it.
- **Validate** (no state of its own): ParseContext as a record, `Validate` of each kind
  of expression as an operator from a context and a tree to a context, a type
  and the postfix form (RPN) that the code generator walks. A returned value is
  an expression; `return` without one is in ControlFlow. `Given(v, f)` names an
  intermediate value, the C++ local variable that is used several times.
- **CodeGen** (likewise): the code generator as a record of declared functions,
  variables and memory. A Value is a register, a constant or a place; what is
  computed is a term over the arguments (`App`), so the order of operands and
  the moment of a load are visible and arithmetic is not. A conversion is part of
  the term, with the instruction and the two types (`Cast`, `CastInstruction`).
- **VectorLoop**: the loop that vector expressions become, with its cursor and the
  remainder; an output element is known by the input element it came from.
- **Expressions**: composes Validate, CodeGen and VectorLoop for one function: statements
  are validated one by one, the function is built, its loop is run. `Means` is
  the reference: what the statements mean by an environment semantics, operands
  from left to right, with no stack, places, RPN or conversions: a conversion that
  does what C++ does between the two types (`KeepsValue`) is passed over, any other
  one makes the term differ. An operator evaluates all its operands, those of `?:`, `&&` and `||`
  too, as the code does.
- **ControlFlow**: the blocks made for if, elif, else, while, return, break, continue
  and vector expressions, one action per statement part. The source is any
  well-formed sequence of tokens, and a place in it is before or after one; a block,
  which the code names for the part of the statement it is made for, is named for
  its place. The variable x has the block of its alloca (`Assign`), or none: a first
  assignment from an argument makes it the place of that argument (`TakePlace`).
  After LLVM's verification (`Verified`, external) the blocks run next to
  the source: `Execute` and `Decide` do a statement or a condition of both, `Jump`
  moves only the code, `Pass` only the source, where it has nothing to do
  (`Silent`; `Onward`, `Otherwise`: where it goes on).
- **JitFunctions**: who owns compiled code. A compilation makes a code generator and
  yields a record of what was parsed and what can be looked up; functions are
  loaded, moved and dropped in between. `std::shared_ptr` is a count. Any outcome of
  a compilation is allowed here.
- **Compiler**: the driver over Validate and CodeGen, extends JitFunctions: a
  compilation is one step (it holds `jit_mutex_`), namely a step of JitFunctions
  with the outcome that validation and code generation give in the ParseContext
  of the moment, and what it does to that context.
- **MC\***: constants for TLC. **\*_proofs**: theorems.

In the modules, a definition marked "mutant" or "variant" is a plausible bug of
the definition after it, and is used by no specification: replacing the one by
the other makes the property named in `PROJECT.json` fail.

## Runs

| Run | Instance | What it shows |
|---|---|---|
| `lru` | 4 keys, 2 values, capacities from 0 to 3 | list and map agree, growth is bounded, only a capacity of 0 evicts from an empty list, and the refinement of RecencyCache. Four keys over a capacity of 3 give evictions after any reordering, and lowering the capacity leaves the cache over-full |
| `eval` | 2 threads with 2 evaluations each, 3 function texts, an expression with 2 sets of argument names, 2 signatures, cache of 2 | answers are the right ones and every evaluation returns, with evictions, double compilations and failures in between. Two threads suffice for each race between a lookup and a store, since threads only meet at the cache |
| `eval_first_call` (violation) | same | the first eval_function calls through a dangling pointer |
| `arena` | 4 blocks, requests from 0 to near `SizeMax` = 31, a size limit | disjointness, backing, accounting, reuse. 4 blocks allow two normal and two large blocks around a clear; the requests straddle the block size, the limit and the wrap-around |
| `list` | 3 threads, 4 nodes | nothing lost or called twice, order kept: the refinement of CleanupList. Two inserts can race a sweep, with a spare node for reuse (ABA) |
| `context` | 2 threads, 2 types, 3 objects, 2 arenas | single deletion, complete Reset, clean destruction |
| `table` | 2 tables, 2 row schemas, up to 3 rows, 2 columns | row lists stay in step, apart by what refused calls left in them and no more, loaded columns match, orders, groups and distinct keys are right. Three rows are a group with two duplicates; the constant column makes rows agree in one column and differ in the other |
| `table_sort` (violation) | up to 2 rows, all key sources | order_by on a column of the table itself corrupts that column in the source |
| `schema` | 2 threads, 1 name, up to 2 registrations, 3 extensions, 1 object | layouts, publication, columns, members. One name suffices, as names only meet in a map; two registrations are enough for two types to meet in one index entry, three extensions for a failed AddColumns followed by another, or a field added to a schema in use |
| `expr` | a function with 9 arguments of different types, up to 2 statements of 16 and a return of some 300, then vectors of 0 to 7 elements in units of 3 | values, types, calls and elements. The statements declare, alias, assign across types, use their target as an operand, assign inside an assignment and write members; the returns mix scalars of several widths, vectors, strings, JSON, members, calls and assignments as operands. Sizes cover zero, below a unit, one and two units and a remainder |
| `flow` | sources of up to 7 tokens, 1 elif | every path through every nesting of two constructs, with statements before, inside and after them: seven tokens hold an if inside a while, or a while inside an elif, with a body. One variable suffices: verification and the place of a variable do not depend on others |
| `compiler` | 3 compilations of 7 sources and 6 expressions, 2 JitFunctions | ownership, loading after failures, independence of compilations. Failures are of validation, of building and of argument lists; three compilations allow a good one, a bad one and a good one again |

Deadlock is checked in `list` and `table`, where there is always a call to make.
In `lru` an undefined eviction ends the process, in `eval` threads stop after
`MaxEvals` evaluations, the arena and the Context of `arena` and `context` are
destroyed, and a violation run stops at its violation.
`schema`, `expr`, `flow` and `compiler` stop at their bounds or with a finished
function. Bounds: `MaxEvals`, `MaxAllocs`, `MaxRows`, `MaxRegs`, `MaxFields`,
`MaxObjects`, `MaxStatements`, `MaxRunStatements`, `MaxSize`, `MaxTokens`,
`MaxElif`, `MaxCompiles`, the sizes of the sets above, and the sequence of
capacities; each is a constant of its module.

Some properties name cases in which the code does not do what one expects; they
are stated as exceptions, as narrow as TLC allows, so that the rest is shown:
the argument names of a cached expression (EvalEngine), the rows of refused calls
(Table), a capacity of 0 (LruCache), `PairsSharingEntry` (Reflect), `SharesPlace`,
`AssignsAcross`, `cg.widened` and `MixesTypes` (Expressions), the causes of failure
in `ValidatedBuilds`, `NestedInBranch`, `FirstSetNested` and a variable in the place
of an argument (ControlFlow), `last.stale` (Compiler), bit inputs (VectorLoop),
objects older than a field (Schema). The next section says what happens in them.

**Fairness.** Only EvalEngine states any: weak fairness of each thread's steps
inside an evaluation, which is that the operating system keeps scheduling a
thread that can run. Since each thread makes finitely many evaluations, a waiting
thread is not overtaken for ever and no fairness of the mutex is assumed.
`EvalReturns` assumes that compiled functions terminate.

## Findings

The two violation runs are disagreements between the code and what its tests or
documentation say; `PROJECT.json` quotes them. eval_function calls, on a miss,
through a pointer into a destroyed local; order_by and topk sort the caller's
key vector in place, which may be the cached column of the source table.

Further deviations. Thirteen are stated as formulas that do not hold; adding one to
the cfg named shows a counterexample:

| Formula | Add to | What happens |
|---|---|---|
| NoRecompile (PROPERTY) | MCEvalEngine.cfg | eval_expression appends a second signature to a copy of the cache entry (`eval_engine.h:164`) and compiles it on every call, although `README.md:319` says that the cache avoids that |
| SameFunctionEveryTime | MCEvalEngine.cfg | a text with two functions of one signature runs the last when compiled, the first when cached (`eval_engine.h:99`) |
| RunsWithOwnNames | MCEvalEngine.cfg | a hit compares types only (`eval_engine.h:129`): a call with the arguments named `y, x` runs the function compiled for `x, y`, which takes them the other way round |
| GetPtrReturnsLive (PROPERTY) | MCContext.cfg | Reset leaves deleted objects in `ptrs_` (`context.cc:40`) |
| GetIsWhole | MCTable.cfg | Get does not reload a column that was unloaded (`table.h:496`), GetColumnByOffset does |
| RefusedLeavesAligned | MCTable.cfg | an AddRows or InsertRow that is refused at a later row list leaves its rows in the earlier ones (`table.cc:438`, `460`) |
| MemberCallsOwnMethod | MCSchema.cfg | of two map types that differ in a pointer or container as their value, both get the methods of the first registered (`reflect.cc:39`) |
| ColumnsBacked | MCSchema.cfg | a failed AddColumns leaves columns that point to the RowSchema it destroys (`table_schema.cc:274`) |
| CopyIsIndependent | MCExpressions.cfg | `auto x = y` makes x the same place as y: a later `x -= 1` changes y (`value.cc:54`) |
| EvaluatesInOrder | MCExpressions.cfg | in `a - (a -= 2)` both operands are loaded after the assignment (`value.cc:34`) |
| WideningKeepsSign | MCExpressions.cfg | a signed integer is made wider with zeros (`codegen_cast.cc:65`): a negative i32 becomes a positive i64 |
| ReadsOnlyWhatItAssigned | MCControlFlow.cfg | `if (c) { x = arg }`, then x: x is the place of arg on both paths (`value.cc:54`), and reads arg where nothing was assigned |
| BitsInPlace | MCExpressions.cfg | a mask kept in a variable is read from the wrong place after its first unit (`codegen_vector.cc:68`: elements of type i1 take a byte each) |

Met while modelling, and modelled as the code does it:

- An if, a while or a vector expression inside an elif or else that completes is
  refused: EndElif and EndElse look at the first block of the branch, EndIf at the
  current one (`codegen.cc:541`).
- After a source of several functions the cursor of the ParseContext stays on the
  last one (`ast/context.cc:29`), and later compilations fail. All functions are
  validated against the return type of the first.
- A vector conditional between types computes in the type of its first branch and
  stores it as that of the second (`compiler_eval.cc:315`).
- f32 to f64 is refused by the verifier (`codegen_cast.cc`); an assignment between
  types, or one inside an expression with a vector, validates and does not build; a
  variable that is declared and never assigned is a null pointer in the compiler.
- VerifyFunctionSignature does not use its comparison (`compiler.cc:146`).
- A long double is stored as two words (`CxxWords`) into a field that the
  layout gives fewer.

And not visible in the models: JitFunction's move leaves `is_from_cache_`
uninitialised (`function.h:75`); GetFunctionPtr is public and takes no lock
(`compiler.cc:134`); the literal suffix i32 is read as u32 (`ast/symbols.cc:37`);
`byte_size` of a vector has 32 bits (`context.h:89`); get_indices fills a static
vector without a lock (`table.cc:50`).

## Proofs

The assumptions are the named ASSUMEs of the modules and no more; TLC evaluates
each on the instances. All set constants are arbitrary: any number of threads,
keys, nodes, blocks, objects, tables, columns. The assumptions say that sizes and
capacities are positive, that values standing for "nothing" (`Missing`, `Null`,
`NoMem`) are none of the things they are the absence of, and that memory, the
columns of a table and the JitFunctions of a program are finite where something
is counted or summed. Each proof has an inductive invariant, one lemma per
action that preserves it, and theorems that follow from it.

- **LruCache_proofs**. `LruInv` joins the types with "the list has no repetition and
  holds the keys of the map". GrowsWithinCapacity needs it because the code tests
  the size of the map while the list grows: `SizeIsLength` equates the two. The
  refinement shows for each action that the use order read off the list changes
  as RecencyCache says, from lemmas on what cons, removal and front do to the
  order; the initial states and each step map to ones of RecencyCache.
  EvictsNothingOnlyAtZero needs `SizeIsLength` too: a list that is empty while the
  map is full means a capacity of 0. The type invariant is proved and not run.
- **EvalEngine_proofs**. AnswersOwnRequest says nothing of a thread between its two
  critical sections, nor of the cache it will read. `EvalInv` adds that a cached text
  holds functions of that text, and all of them when it is one of eval_function
  (`CacheHoldsOwnText`), and what each thread holds for its request at its
  program counter (`OwnWork`): after a compilation it has what its own text
  compiles to, with the argument names of its own request, and a thread that runs a cached function has the mutex, which
  gives HitStaysCached. `EvalCacheIsLru` shows that the steps of all threads do
  nothing to the cache but call it, and takes over the theorems of
  LruCache_proofs for it, by INSTANCE.
- **FollyArena_proofs**. LiveDisjoint is not inductive: after a reuse of a block
  nothing says that the block is empty. `ArenaInv` adds `BlocksSeparate` (no
  memory is two blocks, or a block and a large block) and `LivePlaced`
  (allocations lie in blocks up to the current one and below `ptr_` there, and
  alone in large blocks). LiveBacked follows from it. `NewBlockOnlyWhenAllUsed`
  also needs `PassedBlocksUsed`, invariant beside it. TotalIsOwned is about a sum
  over a set, folded in the order CHOOSE picks: `SumExists` constructs the
  function of partial sums, `SumAdds` and `SumOfZeros` follow its recursion, and
  the total is then exact because memory for a large block was not one before.
- **AtomicList_proofs**. `ListInv` says that the hooks from `head_` spell `stack`, that
  each node is free, in the list or with one thread, and for each thread what
  its local pointers mean at its program counter (`Local`): in a reversal, that
  two chains, one turned and one not, make up its batch. ABA is harmless because
  insertion needs no more of the old head than that it is the head now. Steps of
  one thread leave `Local` of the others alone (`OthersKeep`), since they
  write only hooks of nodes they own. The refinement of CleanupList follows from
  `ListInv`: the compare-and-swap that succeeds is its insert, the exchange its take
  (a null head means that its list is empty), the callback its call, and every other
  step changes nothing that can be seen; a node that can be allocated is nowhere in
  the list, so inserting it is allowed.
- **Context_proofs**. OwnedExactlyOnce counts the pending deletions of an object: in
  the list, in the batch of a sweep, or with the thread about to hand it over.
  `ContextInv` adds that these places share no object and together hold the living
  ones (`DeletesApart`), that an arena is registered or with the one
  thread about to register it (`ArenasRegistered`), that what a Reset has
  still to reclaim is in the list or its batch (`DueIsPending`), and that a
  destructor runs alone (`ClosesAlone`). ResetReclaims and ClosedLeavesNothing are read off the end of a
  sweep. `ContextUsesCleanupList` closes the gap to AtomicList: each step of a
  Context is one of CleanupList or does not concern it, and `DeletesApart` gives that
  no object is inserted whose cleanup is pending.
- **GeneratedCode_proofs**. Of VectorLoop, EachElementOnce is not inductive: at the
  boundary between the loop and the remainder nothing bounds the cursor. `LoopInv` adds the types, that the
  cursor is a multiple of the unit, and that in the remainder fewer elements than a
  unit are left while a finished loop has stored up to the cursor or to the end. The
  bound on stores into bits needs that the buffer, rounded up to units, holds the unit
  at the cursor: a lemma about division. Sizes and the unit (64 in the code) are
  arbitrary.
  Of JitFunctions, CodeStays is inductive only with the types and with
  `Attached`: a function that owns something owns a code generator that was made.
  The count changes with a finite set of owners that gains or loses one member;
  the hard case is the assignment of a function over another, where two counts
  move and may be the same one. Since each step of CompilerSpec is one of JitSpec
  with one outcome, the theorems hold of Compiler too; that inclusion is by
  the form of its definitions and not itself a theorem, Compiler being out of
  the prover's reach (see below).
  Of ControlFlow, neither ExecutesAsWritten nor NeverReadsUnset says anything of a
  function that is being built. `FlowInvariant` does (`Built`): every instruction
  that control can get to in a block fits the place where the source is then, the
  place the block is named for or the one after the instruction before (`Fits`,
  `BlockOK`); a block for a part of the source that is still to come is empty; the
  frames know blocks named for the places of their ifs and whiles, and the parts
  they still owe (`WhileOK`, `IfOK`). "Where the source is" is up to the moves in
  which it does nothing: two places are the `Same` if no set of places that respects
  these moves tells them apart, which needs no recursion over the source and stays
  true as it grows. One lemma per statement shows that it keeps all that
  (`AssignBuilds` to `IfBuilds`), on lemmas for the operations of the code
  generator. EndElif and EndElse may put a jump after the end of a block, or leave
  one open; the invariant allows both, and verification sorts them out. For a
  function that is accepted, `Separated` says that two places where there is something to
  do and which are the same are equal: so the next statement of the blocks is the
  next one of the source (`InStep`, `NextInSource`). That no memory is read in which
  nothing was stored (`ReadsOnlyStored`) is plain for a variable in the place of an
  argument, which the function stores before everything else. For one with an alloca
  it follows from dominance as verification checks it: while x is not
  assigned, the code is in the block of the alloca before the assignment or in a
  block that is reached around it (`UnsetAround`). The set of these is the value of a
  recursive function where it stops changing; that it stops, and is closed, is
  proved by counting (`ReachStops`, `ReachClosed`). It needs that the entry is a block
  of the function, which FinishCondition could remove were it the end of an if
  (`EndNotEntry`). The bounds on the source are arbitrary.
- **DynObjectSchema_proofs**. OnePublishedSchema says nothing of a thread inside an
  init function. `DynInv` adds that the mutex is held by exactly the thread there and
  that the name it creates is not yet in the table (`RegistryOK`), so that no second
  schema of the name can be on its way. FieldsKeepTheirValues needs the layout of the
  schema behind the object: fields lie inside the size and do not overlap
  (`LayoutOK`), an object has the size of some earlier moment, and what was set is in
  the words of the field *now* (`ObjectOK`). The last holds because a schema only
  grows (`Grown`): no step moves a field, which is also a theorem,
  `DynFieldsNeverMove`, since compiled code has the offsets in it. The assumption
  on `Slots` is that a value fits what the layout gives its type: true of the
  types of the library but long double (see Findings). The steps of Schema that
  add one field or set one are steps of DynObjectSchema, those of AddColumns
  several Place steps taken together with a record of the columns that the registry
  and the layout do not read; as for Compiler, this is by the form of the
  definitions.
- **Table_proofs**. `TableInv` says of every table that its row lists differ by no more
  than refused calls left (`WithinRefused`), and of one without refused calls
  that a loaded column has the length of the row lists (`Sized`) and, if callers
  sort keys of their own, shows the rows (`Match`). The types and
  RowsAligned hold for all callers; ColumnsMatchRows, GroupsAreClasses
  and DistinctKeys are proved under the hypothesis
  `KeySources \subseteq {"copy"}`, without which they are false (`table_sort`). The
  proofs rest on lemmas about the operators: `InOrder` lists a set of rows once
  and in order, the first rows of the groups are a row for each key, gathering
  rows and columns by the same places keeps them matched.

Induction over numbers and finite sets, where a proof needs it, is by a minimal
counterexample (`WFMin`), or by a lemma on sets that contain the successors of
their members (`EveryNumber`, `AllNumbers`, `EverySubset`).

Only model-checked:

- `EvalReturns`: liveness.
- `ColumnReadsItsField` of Schema and `MemberCallsRightMethod` of Reflect: they are
  about types, and `get_dtype` and `Compare` of DType are recursive over nested types.
- `CompilesAsAlone` of Compiler and the properties of Expressions: validation, code
  generation and their reference definitions are recursive operators over syntax
  trees, out of the reach of the prover.
- `RejectsOnlyUnsupported` of ControlFlow: it says which functions are accepted, a
  statement about the recursive reference `Completes` for every source.

## Not modelled

- The grammar: from text to trees, precedence and error positions. Lexy rules
  without state; the models start from trees.
- A variable in the place of another local variable or of a member, in ControlFlow: it
  has the alloca block of that local, or an address computed in the block of the
  assignment, and verification treats both as it treats an alloca there. Expressions
  has both.
- What LLVM does: optimisation, code, and the meaning of its instructions beyond the
  terms of CodeGen and the rules of `Verified`.
- The SIMD kernels and the bodies of built-in functions: pure numeric code.
- Decoding of protobuf, flatbuffers and struct fields into columns: a column is
  the sequence of its rows' fields (`Field`).
- Map, FlatMap and Foreach of tables: they call user code per row.
- spliceAll, the move operations and insertHead's return value of the list: no
  caller in the library.
- Several Contexts over one thread-cached arena, or one after another at the same
  address (`arena.cc:50` clears the slot of the destroying thread only); Reset without the callers'
  discipline (a data race).
- Macros and accessors of reflection for STL, protobuf and flatbuffers types;
  logging, examples, tests.

## Plan

1. **Composition**: EvalEngine's compile step shown to be an abstraction of Compiler;
   Table over the schemas of Schema, where a schema grows after tables were made.
2. **Vectors**: capacity, readonly and temporary flags, resize; the vectors callers
   hold across column reloads.
