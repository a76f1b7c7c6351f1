------------------------------ MODULE Context -------------------------------
(***************************************************************************)
(* rapidudf/context/context.h and .cc with the ThreadCachedArena of          *)
(* rapidudf/memory/arena.h and .cc: the per-request owner of memory.  It     *)
(* keeps the cleanups of the objects given to it, a map from type to one     *)
(* cached object, and an arena per thread that uses it.  Reset, which the    *)
(* destructor also calls, clears the arenas and runs the cleanups.           *)
(*                                                                          *)
(* The cleanup list is used through what AtomicList shows of it: insertHead  *)
(* and the exchange of a sweep are one step each, and a sweep calls a batch  *)
(* oldest first.  An arena is the number of allocations since its last       *)
(* clear; FollyArena has the details.  Nothing guards ptrs_, and clear()     *)
(* does not lock against allocate(): callers reset, destroy and use GetPtr   *)
(* while no other thread allocates or uses GetPtr.                           *)
(***************************************************************************)
EXTENDS Integers, Sequences

CONSTANTS Thread, Type,
          Obj,       \* memory for owned objects; reused after a delete
          ArenaId,   \* memory for arenas
          None,
          MaxAllocs  \* bound: allocations in an arena between two clears

ASSUME ContextAssumption ==
    None \notin Type \cup Obj \cup ArenaId /\ MaxAllocs \in Nat \ {0}

VARIABLES cleanups_,    \* the list, newest first; a cleanup is named by its object
          object,       \* the type of the object living in each memory, or None
          ptrs_,        \* the cached object of each type
          arena_,       \* the thread_specific_ptr
          all_arenas_,  \* the registered arenas
          used,         \* allocations in each arena since its last clear
          pc, mine,     \* where each thread is, and the object it is creating
          caching,      \* whether it creates the object for GetPtr
          batch,        \* cleanups that a sweep has taken and not yet called
          got,          \* what GetPtr returned last: a pointer and its type
          due,          \* history: what the Reset found in use and has not reclaimed
          closing, closed

ownVars == <<cleanups_, object, ptrs_, mine, caching, got>>
arenaVars == <<arena_, all_arenas_, used>>
resetVars == <<batch, due, closing, closed>>
contextVars == <<ownVars, arenaVars, resetVars, pc>>

ContextInit ==
    /\ cleanups_ = <<>>
    /\ object = [o \in Obj |-> None]
    /\ ptrs_ = [y \in Type |-> None]
    /\ arena_ = [t \in Thread |-> None] /\ all_arenas_ = {}
    /\ used = [a \in ArenaId |-> 0]
    /\ pc = [t \in Thread |-> "idle"]
    /\ mine = [t \in Thread |-> None] /\ caching = [t \in Thread |-> FALSE]
    /\ batch = [t \in Thread |-> <<>>]
    /\ got = [t \in Thread |-> [ptr |-> None, type |-> None]]
    /\ due = {}
    /\ closing = FALSE /\ closed = FALSE

Goto(t, label) == pc' = [pc EXCEPT ![t] = label]

Idle(t) == pc[t] = "idle" /\ ~closing

-----------------------------------------------------------------------------
(* New: construct the object, then Own it. *)
Construct(t, o, y, cache) ==
    /\ object[o] = None
    /\ object' = [object EXCEPT ![o] = y]
    /\ mine' = [mine EXCEPT ![t] = o]
    /\ caching' = [caching EXCEPT ![t] = cache]
    /\ Goto(t, "own")
    /\ UNCHANGED <<cleanups_, ptrs_, got, arenaVars, resetVars>>

New(t, o, y) == Idle(t) /\ Construct(t, o, y, FALSE)

(* Mutant: the pointer is moved into Own before a copy of it is kept. *)
OwnAndForget(t) ==
    /\ pc[t] = "own"
    /\ cleanups_' = <<mine[t]>> \o cleanups_
    /\ mine' = [mine EXCEPT ![t] = None]
    /\ Goto(t, IF caching[t] THEN "cache" ELSE "idle")
    /\ UNCHANGED <<object, ptrs_, caching, got, arenaVars, resetVars>>

(* Own: the cleanup enters the list, from any thread, also during a sweep. *)
Own(t) ==
    /\ pc[t] = "own"
    /\ cleanups_' = <<mine[t]>> \o cleanups_
    /\ IF caching[t] THEN Goto(t, "cache") /\ UNCHANGED mine
                     ELSE Goto(t, "idle") /\ mine' = [mine EXCEPT ![t] = None]
    /\ UNCHANGED <<object, ptrs_, caching, got, arenaVars, resetVars>>

GetPtrAlone(t) == \A u \in Thread \ {t} : ~caching[u] /\ pc[u] # "sweep"

(* GetPtr finds an object in ptrs_, and the caller's check accepts it. *)
GetPtrHit(t, y) ==
    /\ Idle(t) /\ GetPtrAlone(t) /\ ptrs_[y] # None
    /\ got' = [got EXCEPT ![t] = [ptr |-> ptrs_[y], type |-> y]]
    /\ UNCHANGED <<cleanups_, object, ptrs_, mine, caching, arenaVars, resetVars, pc>>

(* There is none, or the check rejects it: a new one is made ... *)
GetPtrMiss(t, o, y) == Idle(t) /\ GetPtrAlone(t) /\ Construct(t, o, y, TRUE)

(* ... and entered in ptrs_ once it is owned. *)
GetPtrCache(t) ==
    LET y == object[mine[t]] IN
    /\ pc[t] = "cache"
    /\ ptrs_' = [ptrs_ EXCEPT ![y] = mine[t]]
    /\ got' = [got EXCEPT ![t] = [ptr |-> mine[t], type |-> y]]
    /\ mine' = [mine EXCEPT ![t] = None]
    /\ caching' = [caching EXCEPT ![t] = FALSE]
    /\ Goto(t, "idle")
    /\ UNCHANGED <<cleanups_, object, arenaVars, resetVars>>

-----------------------------------------------------------------------------
(* ArenaAllocate; the thread's first one makes its arena ... *)
GetArenaNew(t, a) ==
    /\ Idle(t) /\ arena_[t] = None
    /\ \A u \in Thread : arena_[u] # a
    /\ arena_' = [arena_ EXCEPT ![t] = a]
    /\ Goto(t, "register")
    /\ UNCHANGED <<ownVars, all_arenas_, used, resetVars>>

(* ... and registers it with threads_mutex_ held. *)
GetArenaRegister(t) ==
    /\ pc[t] = "register"
    /\ all_arenas_' = all_arenas_ \cup {arena_[t]}
    /\ Goto(t, "allocate")
    /\ UNCHANGED <<ownVars, arena_, used, resetVars>>

GetArena(t) ==
    /\ Idle(t) /\ arena_[t] # None /\ used[arena_[t]] < MaxAllocs
    /\ Goto(t, "allocate")
    /\ UNCHANGED <<ownVars, arenaVars, resetVars>>

Allocate(t) ==
    /\ pc[t] = "allocate"
    /\ used' = [used EXCEPT ![arena_[t]] = @ + 1]
    /\ Goto(t, "idle")
    /\ UNCHANGED <<ownVars, arena_, all_arenas_, resetVars>>

-----------------------------------------------------------------------------
(* What Reset has still to reclaim once it is done with the arenas: the       *)
(* objects owned, and the arenas that hold memory all the same.               *)
StillInUse == {cleanups_[i] : i \in 1..Len(cleanups_)} \cup {a \in ArenaId : used'[a] > 0}

(* The callers' discipline: no other thread allocates, resets or uses GetPtr. *)
ResetAlone(t) == \A u \in Thread \ {t} : pc[u] \notin {"allocate", "sweep"} /\ ~caching[u]

(* Mutant: only the arena of the calling thread is cleared. *)
ResetOwnArena(t) ==
    /\ ResetAlone(t)
    /\ used' = [a \in ArenaId |-> IF a = arena_[t] THEN 0 ELSE used[a]]
    /\ due' = StillInUse
    /\ Goto(t, "sweep")
    /\ UNCHANGED <<ownVars, arena_, all_arenas_, batch>>

(* Reset first clears every registered arena, with threads_mutex_ held. *)
ResetArenas(t) ==
    /\ ResetAlone(t)
    /\ used' = [a \in ArenaId |-> IF a \in all_arenas_ THEN 0 ELSE used[a]]
    /\ due' = StillInUse
    /\ Goto(t, "sweep")
    /\ UNCHANGED <<ownVars, arena_, all_arenas_, batch>>

Reset(t) == Idle(t) /\ ResetArenas(t) /\ UNCHANGED <<closing, closed>>

(* Mutant: the destructor does not call Reset. *)
DestroyWithoutReset(t) ==
    /\ Idle(t) /\ \A u \in Thread : pc[u] = "idle"
    /\ closing' = TRUE /\ closed' = TRUE
    /\ UNCHANGED <<ownVars, arenaVars, batch, due, pc>>

(* ~Context, when no thread is left inside: Reset, then the members. *)
Destroy(t) ==
    /\ Idle(t) /\ \A u \in Thread : pc[u] = "idle"
    /\ ResetArenas(t)
    /\ closing' = TRUE /\ UNCHANGED closed

(* Mutant: the list is walked and stays. *)
SweepTakeLeaving(t) ==
    /\ pc[t] = "sweep" /\ batch[t] = <<>> /\ cleanups_ # <<>>
    /\ batch' = [batch EXCEPT ![t] =
         [i \in 1..Len(cleanups_) |-> cleanups_[Len(cleanups_) + 1 - i]]]
    /\ UNCHANGED <<ownVars, arenaVars, due, closing, closed, pc>>

(* sweepOnce: take the whole list, oldest first. *)
SweepTake(t) ==
    /\ pc[t] = "sweep" /\ batch[t] = <<>> /\ cleanups_ # <<>>
    /\ batch' = [batch EXCEPT ![t] =
         [i \in 1..Len(cleanups_) |-> cleanups_[Len(cleanups_) + 1 - i]]]
    /\ cleanups_' = <<>>
    /\ UNCHANGED <<object, ptrs_, mine, caching, got, arenaVars, due, closing, closed, pc>>

(* Run one cleanup: the object is deleted.  ptrs_ is not told. *)
SweepCall(t) ==
    /\ pc[t] = "sweep" /\ batch[t] # <<>>
    /\ object' = [object EXCEPT ![Head(batch[t])] = None]
    /\ batch' = [batch EXCEPT ![t] = Tail(@)]
    /\ due' = due \ {Head(batch[t])}
    /\ UNCHANGED <<cleanups_, ptrs_, mine, caching, got, arenaVars, closing, closed, pc>>

(* The list is empty: Reset returns, and a destructor goes on to the members. *)
SweepDone(t) ==
    /\ pc[t] = "sweep" /\ batch[t] = <<>> /\ cleanups_ = <<>>
    /\ Goto(t, "idle")
    /\ closed' = closing
    /\ UNCHANGED <<ownVars, arenaVars, batch, due, closing>>

ContextNext ==
    \E t \in Thread :
        \/ \E o \in Obj, y \in Type : New(t, o, y) \/ GetPtrMiss(t, o, y)
        \/ \E y \in Type : GetPtrHit(t, y)
        \/ \E a \in ArenaId : GetArenaNew(t, a)
        \/ Own(t) \/ GetPtrCache(t) \/ GetArenaRegister(t) \/ GetArena(t) \/ Allocate(t)
        \/ Reset(t) \/ Destroy(t) \/ SweepTake(t) \/ SweepCall(t) \/ SweepDone(t)

ContextSpec == ContextInit /\ [][ContextNext]_contextVars

-----------------------------------------------------------------------------
(* Pointers are pointers, one that is still needed is not lost, and at most   *)
(* one thread sweeps.                                                         *)
ContextTypeOK ==
    /\ cleanups_ \in Seq(Obj)
    /\ object \in [Obj -> Type \cup {None}]
    /\ ptrs_ \in [Type -> Obj \cup {None}]
    /\ arena_ \in [Thread -> ArenaId \cup {None}] /\ all_arenas_ \subseteq ArenaId
    /\ used \in [ArenaId -> 0..MaxAllocs]
    /\ pc \in [Thread -> {"idle", "own", "cache", "register", "allocate", "sweep"}]
    /\ mine \in [Thread -> Obj \cup {None}]
    /\ \A t \in Thread : pc[t] \in {"own", "cache"} => mine[t] \in Obj
    /\ batch \in [Thread -> Seq(Obj)]
    /\ \A t, u \in Thread : pc[t] = "sweep" /\ pc[u] = "sweep" => t = u

(* The places that hold the delete of the object in memory o: the list, the   *)
(* batch of a sweep, and a thread that is about to insert it.                 *)
Pending(o) ==
    {<<"list", i, i>> : i \in {j \in 1..Len(cleanups_) : cleanups_[j] = o}}
    \cup (UNION {{<<"sweep", t, i>> : i \in {j \in 1..Len(batch[t]) : batch[t][j] = o}} : t \in Thread})
    \cup {<<"own", t, t>> : t \in {u \in Thread : pc[u] = "own" /\ mine[u] = o}}

(* The cleanup list as the Context uses it. *)
Doing == [t \in Thread |-> CASE pc[t] = "own" -> "insert"
                              [] pc[t] = "sweep" -> "sweep"
                              [] OTHER -> "nothing"]

Adding == [t \in Thread |-> IF pc[t] = "own" THEN mine[t] ELSE None]

Cleanups == INSTANCE CleanupList WITH
    Item <- Obj, NoItem <- None, list <- cleanups_, todo <- batch, doing <- Doing, adding <- Adding

(* A Context asks nothing else of the list than what AtomicList implements,   *)
(* and never inserts the cleanup of an object that already has one pending.   *)
UsesCleanupList == Cleanups!CleanupSpec

(* Every object a Context was given has exactly one pending delete, in the    *)
(* list, in a sweep or about to be inserted; memory without an object has     *)
(* none.  So none leaks and none is deleted twice.                            *)
OwnedExactlyOnce ==
    \A o \in Obj : IF object[o] = None THEN Pending(o) = {}
                   ELSE \E p \in Pending(o) : Pending(o) = {p}

(* When Reset returns, everything owned when it began has been deleted and    *)
(* every arena that held memory then has been cleared, whichever threads      *)
(* they belong to and whatever else was owned meanwhile.                      *)
ResetReclaims ==
    [][\A t \in Thread : pc[t] = "sweep" /\ pc'[t] = "idle" => due = {}]_contextVars

(* The destructor finds the list empty, as ~AtomicIntrusiveLinkedList         *)
(* asserts, and leaves neither objects nor unregistered arenas behind.        *)
ClosedLeavesNothing ==
    closed => /\ cleanups_ = <<>>
              /\ \A o \in Obj : object[o] = None
              /\ \A t \in Thread : arena_[t] # None => arena_[t] \in all_arenas_

(* benchmark.cc uses one Context again and again after Reset: what GetPtr     *)
(* returns is an object of the type asked for.  This does not hold: Reset     *)
(* deletes the objects and leaves their pointers in ptrs_.                    *)
GetPtrReturnsLive ==
    [][\A t \in Thread : got'[t] # got[t] => object'[got'[t].ptr] = got'[t].type]_contextVars
=============================================================================
