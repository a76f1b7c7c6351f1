--------------------------- MODULE Context_proofs ---------------------------
(***************************************************************************)
(* Proofs about the Context, for any number of threads, types, objects and  *)
(* arenas: every object it owns has exactly one pending delete under every  *)
(* interleaving of New, Own, GetPtr, ArenaAllocate and Reset, a Reset       *)
(* reclaims what it found, and a destroyed Context leaves nothing behind.   *)
(***************************************************************************)
EXTENDS Context, SequenceTheorems, TLAPS

-----------------------------------------------------------------------------
(* The inductive invariant. *)

Elems(s) == {s[i] : i \in 1..Len(s)}

Distinct(s) == \A i, j \in 1..Len(s) : s[i] = s[j] => i = j

(* The objects that a thread has constructed and not yet handed to the list. *)
InOwn == {mine[t] : t \in {u \in Thread : pc[u] = "own"}}

(* The pending deletes are in three places that share no object, no place     *)
(* holds one twice, and together they are the living objects.                 *)
DeletesApart ==
    /\ Distinct(cleanups_)
    /\ \A t \in Thread : Distinct(batch[t])
    /\ \A t, u \in Thread : pc[t] = "own" /\ pc[u] = "own" /\ mine[t] = mine[u] => t = u
    /\ Elems(cleanups_) \cap InOwn = {}
    /\ \A t \in Thread : Elems(batch[t]) \cap (Elems(cleanups_) \cup InOwn) = {}
    /\ \A o \in Obj : object[o] # None <=>
          \/ o \in Elems(cleanups_) \/ o \in InOwn
          \/ \E t \in Thread : o \in Elems(batch[t])

(* A thread has an arena of its own; memory is only taken from one that is    *)
(* registered, and no registered one is forgotten.                            *)
ArenasRegistered ==
    /\ \A t, u \in Thread : arena_[t] # None /\ arena_[t] = arena_[u] => t = u
    /\ \A t \in Thread : pc[t] \in {"register", "allocate"} => arena_[t] # None
    /\ \A t \in Thread : arena_[t] # None /\ pc[t] # "register" => arena_[t] \in all_arenas_
    /\ \A t \in Thread : pc[t] = "register" => used[arena_[t]] = 0
    /\ \A t \in Thread : pc[t] = "allocate" => used[arena_[t]] < MaxAllocs
    /\ \A a \in ArenaId : used[a] > 0 => a \in all_arenas_
    /\ \A a \in all_arenas_ : \E t \in Thread : arena_[t] = a

(* What a Reset has still to reclaim is in the list or in its own batch; a    *)
(* thread that does not sweep has no batch.                                   *)
DueIsPending ==
    \A t \in Thread :
        IF pc[t] = "sweep" THEN due \subseteq Elems(cleanups_) \cup Elems(batch[t])
        ELSE batch[t] = <<>>

(* A destructor runs alone, and is done when its sweep is. *)
ClosesAlone ==
    /\ closing \in BOOLEAN /\ closed \in BOOLEAN
    /\ closing => \A t \in Thread : pc[t] \in {"idle", "sweep"}
    /\ closed => closing /\ cleanups_ = <<>> /\ \A t \in Thread : pc[t] = "idle"

ContextInv ==
    /\ ContextTypeOK
    /\ DeletesApart
    /\ ArenasRegistered
    /\ DueIsPending
    /\ ClosesAlone

-----------------------------------------------------------------------------
(* The cleanup list and the batch of a sweep as sets. *)

(* insertHead adds one element. *)
LEMMA PrependFacts ==
    ASSUME NEW S, NEW s \in Seq(S), NEW e \in S
    PROVE  /\ <<e>> \o s \in Seq(S)
           /\ Elems(<<e>> \o s) = {e} \cup Elems(s)
           /\ Distinct(s) /\ e \notin Elems(s) => Distinct(<<e>> \o s)
<1> DEFINE n == Len(s)
           p == <<e>> \o s
<1>1. n \in Nat /\ <<e>> \in Seq(S) /\ Len(<<e>>) = 1 /\ <<e>>[1] = e
    OBVIOUS
<1>2. /\ p \in Seq(S) /\ Len(p) = 1 + n
      /\ \A i \in 1..(1 + n) : p[i] = IF i <= 1 THEN <<e>>[i] ELSE s[i - 1]
    BY <1>1, ConcatProperties
<1> HIDE DEF p
<1>3. \A i \in 1..(1 + n) : IF i = 1 THEN p[i] = e ELSE i - 1 \in 1..n /\ p[i] = s[i - 1]
    BY <1>1, <1>2
<1>4. 1 \in 1..(1 + n) /\ \A i \in 1..n : i + 1 \in 1..(1 + n) /\ p[i + 1] = s[i]
    BY <1>1, <1>2
<1> HIDE DEF n
<1>5. Elems(p) = {e} \cup Elems(s)
    <2>1. Elems(p) = {p[i] : i \in 1..(1 + n)} /\ Elems(s) = {s[i] : i \in 1..n}
        BY <1>2 DEF Elems, n
    <2>2. ASSUME NEW i \in 1..(1 + n) PROVE p[i] \in {e} \cup Elems(s)
        BY <1>3, <2>1
    <2>3. e \in Elems(p) /\ \A i \in 1..n : s[i] \in Elems(p)
        BY <1>3, <1>4, <2>1
    <2> QED
        BY <2>1, <2>2, <2>3
<1>6. ASSUME Distinct(s), e \notin Elems(s) PROVE Distinct(p)
    <2> SUFFICES ASSUME NEW i \in 1..(1 + n), NEW j \in 1..(1 + n), p[i] = p[j]
                 PROVE  i = j
        BY <1>2 DEF Distinct
    <2>1. \A k \in 1..n : s[k] # e
        BY <1>6 DEF Elems, n
    <2>2. \A k, l \in 1..n : s[k] = s[l] => k = l
        BY <1>6 DEF Distinct, n
    <2> QED
        <3>1. CASE i = 1 /\ j = 1
            BY <3>1
        <3>2. CASE i # 1 /\ j # 1
            <4>1. i - 1 = j - 1
                BY <3>2, <1>3, <2>2
            <4> QED
                BY <4>1
        <3>3. CASE i = 1 /\ j # 1
            BY <3>3, <1>3, <2>1
        <3>4. CASE i # 1 /\ j = 1
            BY <3>4, <1>3, <2>1
        <3> QED
            BY <3>1, <3>2, <3>3, <3>4
<1> QED
    BY <1>2, <1>5, <1>6 DEF p

(* sweepOnce turns the list round and keeps its elements. *)
LEMMA ReverseFacts ==
    ASSUME NEW S, NEW s \in Seq(S)
    PROVE  LET r == [i \in 1..Len(s) |-> s[Len(s) + 1 - i]]
           IN  r \in Seq(S) /\ Elems(r) = Elems(s) /\ (Distinct(s) => Distinct(r))
<1> DEFINE n == Len(s)
           r == [i \in 1..n |-> s[n + 1 - i]]
<1>1. n \in Nat /\ \A i \in 1..n : s[i] \in S /\ n + 1 - i \in 1..n /\ n + 1 - (n + 1 - i) = i
    OBVIOUS
<1>2. r \in Seq(S) /\ Len(r) = n
    BY <1>1
<1>3. \A i \in 1..n : r[i] = s[n + 1 - i] /\ r[n + 1 - i] = s[i]
    BY <1>1
<1>4. Elems(r) = Elems(s)
    BY <1>1, <1>2, <1>3 DEF Elems
<1>5. ASSUME Distinct(s) PROVE Distinct(r)
    <2> SUFFICES ASSUME NEW i \in 1..n, NEW j \in 1..n, r[i] = r[j] PROVE i = j
        BY <1>2 DEF Distinct
    <2>1. n + 1 - i = n + 1 - j
        BY <1>1, <1>3, <1>5 DEF Distinct
    <2> QED
        BY <1>1, <2>1
<1> QED
    BY <1>2, <1>4, <1>5

(* A sweep calls the first cleanup of its batch. *)
LEMMA PopFacts ==
    ASSUME NEW S, NEW s \in Seq(S), s # <<>>
    PROVE  /\ Head(s) \in S /\ Tail(s) \in Seq(S)
           /\ Elems(s) = {Head(s)} \cup Elems(Tail(s))
           /\ Distinct(s) => Distinct(Tail(s)) /\ Head(s) \notin Elems(Tail(s))
<1> DEFINE n == Len(s)
           r == Tail(s)
<1>1. n \in Nat /\ n > 0 /\ Head(s) = s[1] /\ s[1] \in S /\ 1 \in 1..n
    BY HeadTailProperties
<1>2. r \in Seq(S) /\ Len(r) = n - 1 /\ \A i \in 1..(n - 1) : r[i] = s[i + 1]
    BY HeadTailProperties
<1> HIDE DEF n, r
<1>3. \A i \in 1..n : i = 1 \/ (i - 1 \in 1..(n - 1) /\ r[i - 1] = s[i])
    BY <1>1, <1>2
<1>4. \A i \in 1..(n - 1) : i + 1 \in 1..n /\ i + 1 # 1
    BY <1>1
<1>5. Elems(s) = {s[1]} \cup Elems(r)
    BY <1>1, <1>2, <1>3, <1>4 DEF Elems, n
<1>6. ASSUME Distinct(s) PROVE Distinct(r) /\ s[1] \notin Elems(r)
    <2>1. \A i, j \in 1..n : s[i] = s[j] => i = j
        BY <1>6 DEF Distinct, n
    <2>2. \A i, j \in 1..(n - 1) : r[i] = r[j] => i = j
        BY <2>1, <1>1, <1>2, <1>4
    <2>3. \A i \in 1..(n - 1) : r[i] # s[1]
        BY <2>1, <1>1, <1>2, <1>4
    <2> QED
        BY <2>2, <2>3, <1>2 DEF Distinct, Elems
<1> QED
    BY <1>1, <1>2, <1>5, <1>6 DEF r

(* An empty list holds nothing. *)
LEMMA EmptyFacts == Elems(<<>>) = {} /\ Distinct(<<>>)
<1>1. Len(<<>>) = 0
    OBVIOUS
<1> QED
    BY <1>1 DEF Elems, Distinct

-----------------------------------------------------------------------------
(* What a step that leaves a part alone does to its clause. *)

(* Thread t moves to another place in its code. *)
LEMMA GotoFacts ==
    ASSUME ContextTypeOK, NEW t \in Thread, NEW l, Goto(t, l)
    PROVE  pc'[t] = l /\ \A u \in Thread \ {t} : pc'[u] = pc[u]
BY DEF ContextTypeOK, Goto

(* A step that neither constructs nor inserts leaves the pending deletes.     *)
LEMMA DeletesKept ==
    ASSUME ContextInv, NEW t \in Thread, NEW l, Goto(t, l), l # "own", pc[t] # "own",
           UNCHANGED <<cleanups_, object, batch>>,
           \A u \in Thread \ {t} : mine'[u] = mine[u]
    PROVE  DeletesApart'
<1>1. ContextTypeOK /\ DeletesApart
    BY DEF ContextInv
<1>2. pc'[t] = l /\ \A u \in Thread \ {t} : pc'[u] = pc[u]
    BY <1>1, GotoFacts
<1>3. \A u \in Thread : /\ pc'[u] = "own" <=> pc[u] = "own"
                        /\ pc[u] = "own" => mine'[u] = mine[u]
    BY <1>2
<1>4. InOwn' = InOwn
    BY <1>3 DEF InOwn
<1> QED
    BY <1>1, <1>3, <1>4 DEF DeletesApart

(* A step away from the arenas leaves their registration. *)
LEMMA ArenasKept ==
    ASSUME ContextInv, NEW t \in Thread, NEW l, Goto(t, l),
           l \notin {"register", "allocate"}, pc[t] # "register", UNCHANGED arenaVars
    PROVE  ArenasRegistered'
<1>1. ContextTypeOK /\ ArenasRegistered
    BY DEF ContextInv
<1>2. pc'[t] = l /\ \A u \in Thread \ {t} : pc'[u] = pc[u]
    BY <1>1, GotoFacts
<1>3. UNCHANGED <<arena_, all_arenas_, used>>
    BY DEF arenaVars
<1> QED
    BY <1>1, <1>2, <1>3 DEF ArenasRegistered

(* A step that takes nothing from the list leaves a running Reset its work. *)
LEMMA DueKept ==
    ASSUME ContextInv, NEW t \in Thread, NEW l, Goto(t, l), pc[t] # "sweep", l # "sweep",
           UNCHANGED <<due, batch>>, Elems(cleanups_) \subseteq Elems(cleanups_')
    PROVE  DueIsPending'
<1>1. ContextTypeOK /\ DueIsPending
    BY DEF ContextInv
<1>2. pc'[t] = l /\ \A u \in Thread \ {t} : pc'[u] = pc[u]
    BY <1>1, GotoFacts
<1>3. ASSUME NEW u \in Thread
      PROVE  IF pc'[u] = "sweep" THEN due' \subseteq Elems(cleanups_') \cup Elems(batch'[u])
             ELSE batch'[u] = <<>>
    BY <1>1, <1>2 DEF DueIsPending
<1> QED
    BY <1>3 DEF DueIsPending

(* Nothing but a destructor is bound by it. *)
LEMMA OpenKept ==
    ASSUME ContextInv, ~closing, UNCHANGED <<closing, closed>>
    PROVE  ClosesAlone'
<1>1. ~closed /\ closing \in BOOLEAN /\ closed \in BOOLEAN
    BY DEF ContextInv, ClosesAlone
<1> QED
    BY <1>1, Zenon DEF ClosesAlone

(* While the destructor runs, no thread is inside another call. *)
LEMMA InsideIsOpen ==
    ASSUME ContextInv, NEW t \in Thread, pc[t] \notin {"idle", "sweep"}
    PROVE  ~closing
BY DEF ContextInv, ClosesAlone

-----------------------------------------------------------------------------
(* One lemma per operation. *)

(* New and a GetPtr that finds nothing: the object lives from here on. *)
LEMMA ConstructKeeps ==
    ASSUME ContextInv, NEW t \in Thread, NEW o \in Obj, NEW y \in Type, NEW c,
           Idle(t), Construct(t, o, y, c)
    PROVE  ContextInv'
<1>1. /\ ContextTypeOK /\ DeletesApart /\ object[o] = None /\ y # None
      /\ pc[t] = "idle" /\ ~closing
    BY ContextAssumption DEF ContextInv, Construct, Idle
<1>2. /\ object' = [object EXCEPT ![o] = y] /\ mine' = [mine EXCEPT ![t] = o]
      /\ pc' = [pc EXCEPT ![t] = "own"] /\ Goto(t, "own")
      /\ UNCHANGED <<cleanups_, ptrs_, arena_, all_arenas_, used, batch, due, closing, closed>>
    BY DEF Construct, arenaVars, resetVars, Goto
<1>3. ContextTypeOK'
    BY <1>1, <1>2 DEF ContextTypeOK
<1>4. DeletesApart'
    <2>1. /\ pc'[t] = "own" /\ mine'[t] = o
          /\ \A u \in Thread \ {t} : pc'[u] = pc[u] /\ mine'[u] = mine[u]
        BY <1>1, <1>2 DEF ContextTypeOK
    <2>2. InOwn' = InOwn \cup {o}
        BY <2>1, <1>1 DEF InOwn
    <2>3. o \notin InOwn /\ o \notin Elems(cleanups_) /\ \A u \in Thread : o \notin Elems(batch[u])
        BY <1>1 DEF DeletesApart
    <2>4. \A u, w \in Thread : pc'[u] = "own" /\ pc'[w] = "own" /\ mine'[u] = mine'[w] => u = w
        <3>1. \A u \in Thread \ {t} : pc[u] = "own" => mine[u] # o
            BY <2>3 DEF InOwn
        <3> QED
            BY <2>1, <3>1, <1>1 DEF DeletesApart
    <2>5. object'[o] # None /\ \A q \in Obj \ {o} : object'[q] = object[q]
        BY <1>1, <1>2 DEF ContextTypeOK
    <2>6. \A q \in Obj : object'[q] # None <=>
             \/ q \in Elems(cleanups_) \/ q \in InOwn'
             \/ \E u \in Thread : q \in Elems(batch[u])
        BY <2>2, <2>5, <1>1 DEF DeletesApart
    <2>7. Elems(cleanups_) \cap InOwn' = {}
        BY <2>2, <2>3, <1>1 DEF DeletesApart
    <2>8. \A u \in Thread : Elems(batch[u]) \cap (Elems(cleanups_) \cup InOwn') = {}
        BY <2>2, <2>3, <1>1 DEF DeletesApart
    <2> QED
        BY <2>4, <2>6, <2>7, <2>8, <1>1, <1>2 DEF DeletesApart
<1>5. ArenasRegistered'
    BY <1>1, <1>2, ArenasKept DEF arenaVars
<1>6. DueIsPending'
    BY <1>1, <1>2, DueKept
<1>7. ClosesAlone'
    BY <1>1, <1>2, OpenKept
<1> QED
    BY <1>3, <1>4, <1>5, <1>6, <1>7 DEF ContextInv

(* Own: the object goes from the thread's hands into the list. *)
LEMMA OwnKeeps ==
    ASSUME ContextInv, NEW t \in Thread, Own(t)
    PROVE  ContextInv'
<1> DEFINE o == mine[t]
           l == IF caching[t] THEN "cache" ELSE "idle"
<1>1. /\ ContextTypeOK /\ DeletesApart /\ pc[t] = "own" /\ o \in Obj
      /\ cleanups_ \in Seq(Obj)
    BY DEF ContextInv, ContextTypeOK, Own
<1>2. /\ cleanups_' = <<o>> \o cleanups_ /\ pc' = [pc EXCEPT ![t] = l] /\ Goto(t, l)
      /\ mine' = IF caching[t] THEN mine ELSE [mine EXCEPT ![t] = None]
      /\ UNCHANGED <<object, ptrs_, arena_, all_arenas_, used, batch, due, closing, closed>>
    BY DEF Own, arenaVars, resetVars, Goto
<1>3. /\ cleanups_' \in Seq(Obj) /\ Elems(cleanups_') = {o} \cup Elems(cleanups_)
      /\ Distinct(cleanups_) /\ o \notin Elems(cleanups_) => Distinct(cleanups_')
    BY <1>1, <1>2, PrependFacts
<1>4. l \in {"cache", "idle"}
    OBVIOUS
<1> HIDE DEF l
<1>5. /\ pc'[t] = l /\ \A u \in Thread \ {t} : pc'[u] = pc[u] /\ mine'[u] = mine[u]
    BY <1>1, <1>2 DEF ContextTypeOK
<1>6. ContextTypeOK'
    <2>1. l = "cache" => mine'[t] \in Obj
        BY <1>1, <1>2 DEF l
    <2>2. mine' \in [Thread -> Obj \cup {None}]
        BY <1>1, <1>2 DEF ContextTypeOK
    <2>3. \A u \in Thread : pc'[u] \in {"own", "cache"} => mine'[u] \in Obj
        BY <2>1, <1>1, <1>4, <1>5 DEF ContextTypeOK
    <2>4. \A u, w \in Thread : pc'[u] = "sweep" /\ pc'[w] = "sweep" => u = w
        BY <1>1, <1>4, <1>5 DEF ContextTypeOK
    <2>5. pc' \in [Thread -> {"idle", "own", "cache", "register", "allocate", "sweep"}]
        BY <1>1, <1>2, <1>4 DEF ContextTypeOK
    <2> QED
        BY <2>2, <2>3, <2>4, <2>5, <1>1, <1>2, <1>3 DEF ContextTypeOK
<1>7. DeletesApart'
    <2>1. o \in InOwn /\ o \notin Elems(cleanups_) /\ \A u \in Thread : o \notin Elems(batch[u])
        BY <1>1 DEF DeletesApart, InOwn
    <2>2. InOwn' = InOwn \ {o}
        <3>1. \A u \in Thread \ {t} : pc[u] = "own" => mine[u] # o
            BY <1>1 DEF DeletesApart
        <3>2. \A u \in Thread : pc'[u] = "own" <=> (u # t /\ pc[u] = "own")
            BY <1>4, <1>5
        <3> QED
            BY <3>1, <3>2, <1>5 DEF InOwn
    <2>3. Distinct(cleanups_')
        BY <2>1, <1>1, <1>3 DEF DeletesApart
    <2>4. \A u, w \in Thread : pc'[u] = "own" /\ pc'[w] = "own" /\ mine'[u] = mine'[w] => u = w
        BY <1>1, <1>4, <1>5 DEF DeletesApart
    <2>5. Elems(cleanups_') \cap InOwn' = {}
        BY <2>2, <1>1, <1>3 DEF DeletesApart
    <2>6. \A u \in Thread : Elems(batch[u]) \cap (Elems(cleanups_') \cup InOwn') = {}
        BY <2>1, <2>2, <1>1, <1>3 DEF DeletesApart
    <2>7. \A q \in Obj : object[q] # None <=>
             \/ q \in Elems(cleanups_') \/ q \in InOwn'
             \/ \E u \in Thread : q \in Elems(batch[u])
        BY <2>1, <2>2, <1>1, <1>3 DEF DeletesApart
    <2> QED
        BY <2>3, <2>4, <2>5, <2>6, <2>7, <1>1, <1>2 DEF DeletesApart
<1>8. ArenasRegistered'
    BY <1>1, <1>2, <1>4, ArenasKept DEF arenaVars
<1>9. DueIsPending'
    BY <1>1, <1>2, <1>3, <1>4, DueKept
<1>10. ClosesAlone'
    BY <1>1, <1>2, InsideIsOpen, OpenKept
<1> QED
    BY <1>6, <1>7, <1>8, <1>9, <1>10 DEF ContextInv

(* GetPtr from the map changes no owner. *)
LEMMA GetPtrHitKeeps ==
    ASSUME ContextInv, NEW t \in Thread, NEW y \in Type, GetPtrHit(t, y)
    PROVE  ContextInv'
<1>1. /\ UNCHANGED <<cleanups_, object, ptrs_, arena_, all_arenas_, used, pc, mine>>
      /\ UNCHANGED <<batch, due, closing, closed>>
    BY DEF GetPtrHit, arenaVars, resetVars
<1>2. InOwn' = InOwn
    BY <1>1 DEF InOwn
<1> QED
    BY <1>1, <1>2 DEF ContextInv, ContextTypeOK, DeletesApart, ArenasRegistered,
                      DueIsPending, ClosesAlone

(* GetPtr enters the new object in the map. *)
LEMMA GetPtrCacheKeeps ==
    ASSUME ContextInv, NEW t \in Thread, GetPtrCache(t)
    PROVE  ContextInv'
<1>1. ContextTypeOK /\ pc[t] = "cache" /\ mine[t] \in Obj
    BY DEF ContextInv, ContextTypeOK, GetPtrCache
<1>2. /\ ptrs_' = [ptrs_ EXCEPT ![object[mine[t]]] = mine[t]]
      /\ mine' = [mine EXCEPT ![t] = None] /\ pc' = [pc EXCEPT ![t] = "idle"] /\ Goto(t, "idle")
      /\ UNCHANGED <<cleanups_, object, arena_, all_arenas_, used, batch, due, closing, closed>>
    BY DEF GetPtrCache, arenaVars, resetVars, Goto
<1>3. ContextTypeOK'
    BY <1>1, <1>2 DEF ContextTypeOK
<1>4. DeletesApart'
    <2>1. \A u \in Thread \ {t} : mine'[u] = mine[u]
        BY <1>1, <1>2 DEF ContextTypeOK
    <2> QED
        BY <2>1, <1>1, <1>2, DeletesKept
<1>5. ArenasRegistered'
    BY <1>1, <1>2, ArenasKept DEF arenaVars
<1>6. DueIsPending'
    BY <1>1, <1>2, DueKept
<1>7. ClosesAlone'
    BY <1>1, <1>2, InsideIsOpen, OpenKept
<1> QED
    BY <1>3, <1>4, <1>5, <1>6, <1>7 DEF ContextInv

(* GetArena makes an arena that no other thread has and nobody has used. *)
LEMMA GetArenaNewKeeps ==
    ASSUME ContextInv, NEW t \in Thread, NEW a \in ArenaId, GetArenaNew(t, a)
    PROVE  ContextInv'
<1>1. /\ ContextTypeOK /\ ArenasRegistered /\ pc[t] = "idle" /\ ~closing
      /\ arena_[t] = None /\ a # None /\ \A u \in Thread : arena_[u] # a
    BY ContextAssumption DEF ContextInv, GetArenaNew, Idle
<1>2. /\ arena_' = [arena_ EXCEPT ![t] = a]
      /\ pc' = [pc EXCEPT ![t] = "register"] /\ Goto(t, "register")
      /\ UNCHANGED <<cleanups_, object, ptrs_, mine, all_arenas_, used>>
      /\ UNCHANGED <<batch, due, closing, closed>>
    BY DEF GetArenaNew, ownVars, resetVars, Goto
<1>3. ContextTypeOK'
    BY <1>1, <1>2 DEF ContextTypeOK
<1>4. DeletesApart'
    BY <1>1, <1>2, DeletesKept
<1>5. ArenasRegistered'
    <2>1. /\ arena_'[t] = a /\ pc'[t] = "register"
          /\ \A u \in Thread \ {t} : arena_'[u] = arena_[u] /\ pc'[u] = pc[u]
        BY <1>1, <1>2 DEF ContextTypeOK
    <2>2. a \notin all_arenas_ /\ used[a] = 0
        BY <1>1 DEF ArenasRegistered, ContextTypeOK
    <2>3. \A b \in all_arenas_ : \E u \in Thread : arena_'[u] = b
        <3>1. ASSUME NEW b \in all_arenas_ PROVE \E u \in Thread : arena_'[u] = b
            <4>1. PICK u \in Thread : arena_[u] = b
                BY <1>1 DEF ArenasRegistered
            <4>2. u # t
                BY <4>1, <1>1, ContextAssumption DEF ContextTypeOK
            <4> QED
                BY <4>1, <4>2, <2>1
        <3> QED
            BY <3>1
    <2> QED
        BY <2>1, <2>2, <2>3, <1>1, <1>2 DEF ArenasRegistered
<1>6. DueIsPending'
    BY <1>1, <1>2, DueKept
<1>7. ClosesAlone'
    BY <1>1, <1>2, OpenKept
<1> QED
    BY <1>3, <1>4, <1>5, <1>6, <1>7 DEF ContextInv

(* The new arena is registered before it is used. *)
LEMMA GetArenaRegisterKeeps ==
    ASSUME ContextInv, NEW t \in Thread, GetArenaRegister(t)
    PROVE  ContextInv'
<1>1. /\ ContextTypeOK /\ ArenasRegistered /\ pc[t] = "register"
      /\ arena_[t] \in ArenaId /\ used[arena_[t]] = 0
    BY DEF ContextInv, GetArenaRegister, ArenasRegistered, ContextTypeOK
<1>2. /\ all_arenas_' = all_arenas_ \cup {arena_[t]}
      /\ pc' = [pc EXCEPT ![t] = "allocate"] /\ Goto(t, "allocate")
      /\ UNCHANGED <<cleanups_, object, ptrs_, mine, arena_, used>>
      /\ UNCHANGED <<batch, due, closing, closed>>
    BY DEF GetArenaRegister, ownVars, resetVars, Goto
<1>3. ContextTypeOK'
    BY <1>1, <1>2 DEF ContextTypeOK
<1>4. DeletesApart'
    BY <1>1, <1>2, DeletesKept
<1>5. ArenasRegistered'
    <2>1. pc'[t] = "allocate" /\ \A u \in Thread \ {t} : pc'[u] = pc[u]
        BY <1>1, <1>2 DEF ContextTypeOK
    <2> QED
        BY <2>1, <1>1, <1>2, ContextAssumption DEF ArenasRegistered
<1>6. DueIsPending'
    BY <1>1, <1>2, DueKept
<1>7. ClosesAlone'
    BY <1>1, <1>2, InsideIsOpen, OpenKept
<1> QED
    BY <1>3, <1>4, <1>5, <1>6, <1>7 DEF ContextInv

(* GetArena of a thread that has one. *)
LEMMA GetArenaKeeps ==
    ASSUME ContextInv, NEW t \in Thread, GetArena(t)
    PROVE  ContextInv'
<1>1. /\ ContextTypeOK /\ ArenasRegistered /\ pc[t] = "idle" /\ ~closing
      /\ arena_[t] # None /\ used[arena_[t]] < MaxAllocs
    BY DEF ContextInv, GetArena, Idle
<1>2. /\ pc' = [pc EXCEPT ![t] = "allocate"] /\ Goto(t, "allocate")
      /\ UNCHANGED <<cleanups_, object, ptrs_, mine, arena_, all_arenas_, used>>
      /\ UNCHANGED <<batch, due, closing, closed>>
    BY DEF GetArena, ownVars, arenaVars, resetVars, Goto
<1>3. ContextTypeOK'
    BY <1>1, <1>2 DEF ContextTypeOK
<1>4. DeletesApart'
    BY <1>1, <1>2, DeletesKept
<1>5. ArenasRegistered'
    <2>1. pc'[t] = "allocate" /\ \A u \in Thread \ {t} : pc'[u] = pc[u]
        BY <1>1, <1>2 DEF ContextTypeOK
    <2> QED
        BY <2>1, <1>1, <1>2 DEF ArenasRegistered
<1>6. DueIsPending'
    BY <1>1, <1>2, DueKept
<1>7. ClosesAlone'
    BY <1>1, <1>2, OpenKept
<1> QED
    BY <1>3, <1>4, <1>5, <1>6, <1>7 DEF ContextInv

(* The thread takes memory from its own, registered arena. *)
LEMMA AllocateKeeps ==
    ASSUME ContextInv, NEW t \in Thread, Allocate(t)
    PROVE  ContextInv'
<1> DEFINE a == arena_[t]
<1>1. /\ ContextTypeOK /\ ArenasRegistered /\ pc[t] = "allocate"
      /\ a # None /\ a \in ArenaId /\ used[a] \in 0..MaxAllocs /\ used[a] < MaxAllocs
      /\ a \in all_arenas_
    BY DEF ContextInv, Allocate, ArenasRegistered, ContextTypeOK
<1>2. /\ used' = [used EXCEPT ![a] = used[a] + 1]
      /\ pc' = [pc EXCEPT ![t] = "idle"] /\ Goto(t, "idle")
      /\ UNCHANGED <<cleanups_, object, ptrs_, mine, arena_, all_arenas_>>
      /\ UNCHANGED <<batch, due, closing, closed>>
    BY DEF Allocate, ownVars, resetVars, Goto
<1> HIDE DEF a
<1>3. ContextTypeOK'
    <2>1. used[a] + 1 \in 0..MaxAllocs
        BY <1>1, ContextAssumption
    <2> QED
        BY <2>1, <1>1, <1>2 DEF ContextTypeOK
<1>4. DeletesApart'
    BY <1>1, <1>2, DeletesKept
<1>5. ArenasRegistered'
    <2>1. pc'[t] = "idle" /\ \A u \in Thread \ {t} : pc'[u] = pc[u]
        BY <1>1, <1>2 DEF ContextTypeOK
    <2>2. \A b \in ArenaId \ {a} : used'[b] = used[b]
        BY <1>1, <1>2 DEF ContextTypeOK
    <2>3. \A u \in Thread \ {t} : arena_[u] # a
        BY <1>1 DEF ArenasRegistered, a
    <2>4. ASSUME NEW u \in Thread \ {t}, pc[u] \in {"register", "allocate"}
          PROVE  used'[arena_[u]] = used[arena_[u]]
        BY <2>2, <2>3, <2>4, <1>1 DEF ArenasRegistered, ContextTypeOK
    <2>5. /\ \A u \in Thread : pc'[u] = "register" => used'[arena_[u]] = 0
          /\ \A u \in Thread : pc'[u] = "allocate" => used'[arena_[u]] < MaxAllocs
        BY <2>1, <2>4, <1>1 DEF ArenasRegistered
    <2>6. \A b \in ArenaId : used'[b] > 0 => b \in all_arenas_
        BY <2>2, <1>1 DEF ArenasRegistered
    <2> QED
        BY <2>1, <2>5, <2>6, <1>1, <1>2 DEF ArenasRegistered
<1>6. DueIsPending'
    BY <1>1, <1>2, DueKept
<1>7. ClosesAlone'
    BY <1>1, <1>2, InsideIsOpen, OpenKept
<1> QED
    BY <1>3, <1>4, <1>5, <1>6, <1>7 DEF ContextInv

(* Reset, also from the destructor: the arenas are cleared and the sweep      *)
(* begins.  Every arena with memory is registered, so none is left over.      *)
LEMMA ResetArenasKeeps ==
    ASSUME ContextInv, NEW t \in Thread, Idle(t), ResetArenas(t)
    PROVE  ContextTypeOK' /\ DeletesApart' /\ ArenasRegistered' /\ DueIsPending'
<1>1. /\ ContextTypeOK /\ ArenasRegistered /\ DueIsPending /\ pc[t] = "idle" /\ ResetAlone(t)
    BY DEF ContextInv, Idle, ResetArenas
<1>2. /\ used' = [a \in ArenaId |-> IF a \in all_arenas_ THEN 0 ELSE used[a]]
      /\ due' = StillInUse
      /\ pc' = [pc EXCEPT ![t] = "sweep"] /\ Goto(t, "sweep")
      /\ UNCHANGED <<cleanups_, object, ptrs_, mine, arena_, all_arenas_, batch>>
    BY DEF ResetArenas, ownVars, Goto
<1>3. /\ pc'[t] = "sweep" /\ \A u \in Thread \ {t} : pc'[u] = pc[u]
    BY <1>1, <1>2 DEF ContextTypeOK
<1>4. \A a \in ArenaId : used'[a] = 0
    <2> SUFFICES ASSUME NEW a \in ArenaId PROVE used'[a] = 0
        OBVIOUS
    <2>1. used[a] \in Nat /\ (used[a] > 0 => a \in all_arenas_)
        BY <1>1 DEF ArenasRegistered, ContextTypeOK
    <2> QED
        BY <2>1, <1>2
<1>5. ContextTypeOK'
    <2>1. \A u \in Thread \ {t} : pc[u] # "sweep"
        BY <1>1 DEF ResetAlone
    <2>2. \A u, w \in Thread : pc'[u] = "sweep" /\ pc'[w] = "sweep" => u = w
        BY <2>1, <1>3
    <2>3. used' \in [ArenaId -> 0..MaxAllocs]
        BY <1>2, <1>4, ContextAssumption
    <2> QED
        BY <2>2, <2>3, <1>1, <1>2, <1>3 DEF ContextTypeOK
<1>6. DeletesApart'
    BY <1>1, <1>2, DeletesKept
<1>7. ArenasRegistered'
    <2>1. \A u \in Thread : pc[u] \in {"register", "allocate"} => arena_[u] \in ArenaId
        BY <1>1 DEF ArenasRegistered, ContextTypeOK
    <2>2. \A u \in Thread : pc'[u] \in {"register", "allocate"} => used'[arena_[u]] = 0
        BY <2>1, <1>3, <1>4
    <2>3. \A a \in ArenaId : used'[a] > 0 => a \in all_arenas_
        BY <1>4
    <2>4. \A u \in Thread : arena_[u] # None /\ pc'[u] # "register" => arena_[u] \in all_arenas_
        BY <1>1, <1>3 DEF ArenasRegistered
    <2>5. \A u \in Thread : pc'[u] \in {"register", "allocate"} => arena_[u] # None
        BY <1>1, <1>3 DEF ArenasRegistered
    <2>6. \A u \in Thread : pc'[u] = "allocate" => used'[arena_[u]] < MaxAllocs
        BY <2>2, ContextAssumption
    <2> QED
        BY <2>2, <2>3, <2>4, <2>5, <2>6, <1>1, <1>2 DEF ArenasRegistered
<1>8. DueIsPending'
    <2>1. due' \subseteq Elems(cleanups_)
        BY <1>2, <1>4 DEF StillInUse, Elems
    <2>2. \A u \in Thread \ {t} : pc[u] # "sweep"
        BY <1>1 DEF ResetAlone
    <2> QED
        BY <2>1, <2>2, <1>1, <1>2, <1>3 DEF DueIsPending
<1> QED
    BY <1>5, <1>6, <1>7, <1>8

(* Reset by a user of the Context. *)
LEMMA ResetKeeps ==
    ASSUME ContextInv, NEW t \in Thread, Reset(t)
    PROVE  ContextInv'
<1>1. Idle(t) /\ ResetArenas(t) /\ UNCHANGED <<closing, closed>> /\ ~closing
    BY DEF Reset, Idle
<1> QED
    BY <1>1, ResetArenasKeeps, OpenKept DEF ContextInv

(* The destructor, when every thread has left. *)
LEMMA DestroyKeeps ==
    ASSUME ContextInv, NEW t \in Thread, Destroy(t)
    PROVE  ContextInv'
<1>1. /\ Idle(t) /\ ResetArenas(t) /\ closing' = TRUE /\ closed' = closed
      /\ \A u \in Thread : pc[u] = "idle"
    BY DEF Destroy
<1>2. ~closed /\ closed \in BOOLEAN
    BY <1>1 DEF Idle, ContextInv, ClosesAlone
<1>3. \A u \in Thread : pc'[u] \in {"idle", "sweep"}
    BY <1>1, GotoFacts DEF ResetArenas, ContextInv
<1>4. ClosesAlone'
    <2>1. closing' \in BOOLEAN /\ closed' \in BOOLEAN /\ ~closed'
        BY <1>1, <1>2, Zenon
    <2> QED
        BY <1>3, <2>1, Zenon DEF ClosesAlone
<1> QED
    BY <1>1, <1>4, ResetArenasKeeps DEF ContextInv

(* The sweep takes the list over into its empty batch. *)
LEMMA SweepTakeKeeps ==
    ASSUME ContextInv, NEW t \in Thread, SweepTake(t)
    PROVE  ContextInv'
<1> DEFINE r == [i \in 1..Len(cleanups_) |-> cleanups_[Len(cleanups_) + 1 - i]]
<1>1. /\ ContextTypeOK /\ DeletesApart /\ ArenasRegistered /\ DueIsPending /\ ClosesAlone
      /\ pc[t] = "sweep" /\ batch[t] = <<>> /\ cleanups_ # <<>> /\ cleanups_ \in Seq(Obj)
    BY DEF ContextInv, SweepTake, ContextTypeOK
<1>2. /\ batch' = [batch EXCEPT ![t] = r] /\ cleanups_' = <<>>
      /\ UNCHANGED <<object, ptrs_, mine, arena_, all_arenas_, used, due, closing, closed, pc>>
    BY DEF SweepTake, arenaVars
<1>3. r \in Seq(Obj) /\ Elems(r) = Elems(cleanups_) /\ Distinct(r)
    BY <1>1, ReverseFacts DEF DeletesApart
<1> HIDE DEF r
<1>4. /\ batch'[t] = r /\ \A u \in Thread \ {t} : batch'[u] = batch[u] /\ batch[u] = <<>>
    BY <1>1, <1>2 DEF ContextTypeOK, DueIsPending
<1>5. Elems(cleanups_') = {} /\ Distinct(cleanups_') /\ cleanups_' \in Seq(Obj)
    BY <1>2, EmptyFacts
<1>6. ContextTypeOK'
    BY <1>1, <1>2, <1>3, <1>5 DEF ContextTypeOK
<1>7. DeletesApart'
    <2>1. InOwn' = InOwn
        BY <1>2 DEF InOwn
    <2>2. \A u \in Thread : Distinct(batch'[u])
        BY <1>3, <1>4, EmptyFacts
    <2>3. \A u \in Thread : Elems(batch'[u]) \cap (Elems(cleanups_') \cup InOwn') = {}
        BY <2>1, <1>1, <1>3, <1>4, <1>5, EmptyFacts DEF DeletesApart
    <2>4. \A u \in Thread : Elems(batch[u]) = {}
        BY <1>1, <1>4, EmptyFacts
    <2>5. \A q \in Obj : (\E u \in Thread : q \in Elems(batch'[u])) <=> q \in Elems(cleanups_)
        BY <2>4, <1>3, <1>4
    <2>6. \A q \in Obj : object'[q] # None <=>
             \/ q \in Elems(cleanups_') \/ q \in InOwn'
             \/ \E u \in Thread : q \in Elems(batch'[u])
        BY <2>1, <2>4, <2>5, <1>1, <1>2, <1>5 DEF DeletesApart
    <2> QED
        BY <2>1, <2>2, <2>3, <2>6, <1>1, <1>2, <1>5 DEF DeletesApart
<1>8. ArenasRegistered'
    BY <1>1, <1>2 DEF ArenasRegistered
<1>9. DueIsPending'
    <2>1. due \subseteq Elems(r)
        BY <1>1, <1>3, EmptyFacts DEF DueIsPending
    <2>2. \A u \in Thread \ {t} : pc[u] # "sweep"
        BY <1>1 DEF ContextTypeOK
    <2> QED
        BY <2>1, <2>2, <1>1, <1>2, <1>4 DEF DueIsPending
<1>10. ClosesAlone'
    <2>1. ~closed
        BY <1>1 DEF ClosesAlone
    <2> QED
        BY <2>1, <1>1, <1>2 DEF ClosesAlone
<1> QED
    BY <1>6, <1>7, <1>8, <1>9, <1>10 DEF ContextInv

(* One cleanup: the object and its pending delete go together. *)
LEMMA SweepCallKeeps ==
    ASSUME ContextInv, NEW t \in Thread, SweepCall(t)
    PROVE  ContextInv'
<1> DEFINE o == Head(batch[t])
           r == Tail(batch[t])
<1>1. /\ ContextTypeOK /\ DeletesApart /\ ArenasRegistered /\ DueIsPending /\ ClosesAlone
      /\ pc[t] = "sweep" /\ batch[t] # <<>> /\ batch[t] \in Seq(Obj)
    BY DEF ContextInv, SweepCall, ContextTypeOK
<1>2. /\ object' = [object EXCEPT ![o] = None] /\ batch' = [batch EXCEPT ![t] = r]
      /\ due' = due \ {o}
      /\ UNCHANGED <<cleanups_, ptrs_, mine, arena_, all_arenas_, used, closing, closed, pc>>
    BY DEF SweepCall, arenaVars
<1>3. /\ o \in Obj /\ r \in Seq(Obj) /\ Elems(batch[t]) = {o} \cup Elems(r)
      /\ Distinct(r) /\ o \notin Elems(r)
    BY <1>1, PopFacts DEF DeletesApart
<1> HIDE DEF o, r
<1>4. /\ batch'[t] = r /\ \A u \in Thread \ {t} : batch'[u] = batch[u] /\ batch[u] = <<>>
    BY <1>1, <1>2 DEF ContextTypeOK, DueIsPending
<1>5. ContextTypeOK'
    BY <1>1, <1>2, <1>3 DEF ContextTypeOK
<1>6. DeletesApart'
    <2>1. InOwn' = InOwn
        BY <1>2 DEF InOwn
    <2>2. o \notin Elems(cleanups_) /\ o \notin InOwn
        BY <1>1, <1>3 DEF DeletesApart
    <2>3. \A u \in Thread : Distinct(batch'[u])
        BY <1>3, <1>4, EmptyFacts
    <2>4. \A u \in Thread : Elems(batch'[u]) \cap (Elems(cleanups_) \cup InOwn) = {}
        BY <1>1, <1>3, <1>4, EmptyFacts DEF DeletesApart
    <2>5. \A q : (\E u \in Thread : q \in Elems(batch'[u])) <=> q \in Elems(r)
        BY <1>4, EmptyFacts
    <2>6. \A q : (\E u \in Thread : q \in Elems(batch[u])) <=> q \in Elems(batch[t])
        BY <1>4, EmptyFacts
    <2>7. object'[o] = None /\ \A q \in Obj \ {o} : object'[q] = object[q]
        BY <1>1, <1>2, <1>3 DEF ContextTypeOK
    <2>8. \A q \in Obj : object[q] # None <=>
             q \in Elems(cleanups_) \/ q \in InOwn \/ q \in Elems(batch[t])
        BY <1>1, <2>6 DEF DeletesApart
    <2>9. \A q \in Obj : object'[q] # None <=>
             q \in Elems(cleanups_) \/ q \in InOwn \/ q \in Elems(r)
        BY <2>2, <2>7, <2>8, <1>3
    <2> QED
        BY <2>1, <2>3, <2>4, <2>5, <2>9, <1>1, <1>2 DEF DeletesApart
<1>7. ArenasRegistered'
    BY <1>1, <1>2 DEF ArenasRegistered
<1>8. DueIsPending'
    <2>1. due' \subseteq Elems(cleanups_) \cup Elems(r)
        BY <1>1, <1>2, <1>3 DEF DueIsPending
    <2>2. \A u \in Thread \ {t} : pc[u] # "sweep"
        BY <1>1 DEF ContextTypeOK
    <2> QED
        BY <2>1, <2>2, <1>1, <1>2, <1>4 DEF DueIsPending
<1>9. ClosesAlone'
    BY <1>1, <1>2 DEF ClosesAlone
<1> QED
    BY <1>5, <1>6, <1>7, <1>8, <1>9 DEF ContextInv

(* The sweep ends when it finds the list empty. *)
LEMMA SweepDoneKeeps ==
    ASSUME ContextInv, NEW t \in Thread, SweepDone(t)
    PROVE  ContextInv' /\ due = {}
<1>1. /\ ContextTypeOK /\ DeletesApart /\ ArenasRegistered /\ DueIsPending /\ ClosesAlone
      /\ pc[t] = "sweep" /\ batch[t] = <<>> /\ cleanups_ = <<>>
    BY DEF ContextInv, SweepDone
<1>2. /\ pc' = [pc EXCEPT ![t] = "idle"] /\ Goto(t, "idle") /\ closed' = closing
      /\ UNCHANGED <<cleanups_, object, ptrs_, mine, arena_, all_arenas_, used, batch, due, closing>>
    BY DEF SweepDone, ownVars, arenaVars, Goto
<1>3. pc'[t] = "idle" /\ \A u \in Thread \ {t} : pc'[u] = pc[u] /\ pc[u] # "sweep"
    BY <1>1, <1>2 DEF ContextTypeOK
<1>4. ContextTypeOK'
    BY <1>1, <1>2 DEF ContextTypeOK
<1>5. DeletesApart'
    BY <1>1, <1>2, DeletesKept
<1>6. ArenasRegistered'
    BY <1>1, <1>2, ArenasKept DEF arenaVars
<1>7. due = {}
    BY <1>1, EmptyFacts DEF DueIsPending
<1>8. DueIsPending'
    BY <1>1, <1>2, <1>3 DEF DueIsPending
<1>9. ClosesAlone'
    <2>1. closing => \A u \in Thread : pc'[u] = "idle"
        BY <1>1, <1>3 DEF ClosesAlone
    <2>2. closing' = closing /\ closed' = closing /\ closing \in BOOLEAN /\ cleanups_' = <<>>
        BY <1>1, <1>2 DEF ClosesAlone
    <2> QED
        BY <2>1, <2>2 DEF ClosesAlone
<1> QED
    BY <1>4, <1>5, <1>6, <1>7, <1>8, <1>9 DEF ContextInv

-----------------------------------------------------------------------------
(* The theorems. *)

(* A new Context owns nothing. *)
LEMMA ContextInitInv == ContextInit => ContextInv
<1> SUFFICES ASSUME ContextInit PROVE ContextInv
    OBVIOUS
<1>1. InOwn = {}
    BY DEF ContextInit, InOwn
<1>2. cleanups_ = <<>> /\ \A t \in Thread : batch[t] = <<>>
    BY DEF ContextInit
<1>3. ContextTypeOK
    <2>1. <<>> \in Seq(Obj)
        OBVIOUS
    <2> QED
        BY <2>1, ContextAssumption DEF ContextTypeOK, ContextInit
<1>4. DeletesApart
    BY <1>1, <1>2, EmptyFacts DEF DeletesApart, ContextInit
<1>5. ArenasRegistered
    BY DEF ArenasRegistered, ContextInit
<1>6. DueIsPending
    BY <1>2 DEF DueIsPending, ContextInit
<1>7. ClosesAlone
    BY DEF ClosesAlone, ContextInit
<1> QED
    BY <1>3, <1>4, <1>5, <1>6, <1>7 DEF ContextInv

(* Every step of every thread keeps the invariant. *)
LEMMA ContextStepInv == ContextInv /\ [ContextNext]_contextVars => ContextInv'
<1> SUFFICES ASSUME ContextInv, [ContextNext]_contextVars PROVE ContextInv'
    OBVIOUS
<1>1. CASE UNCHANGED contextVars
    <2>1. /\ UNCHANGED <<cleanups_, object, ptrs_, arena_, all_arenas_, used, pc, mine>>
          /\ UNCHANGED <<batch, due, closing, closed>>
        BY <1>1 DEF contextVars, ownVars, arenaVars, resetVars
    <2>2. InOwn' = InOwn
        BY <2>1 DEF InOwn
    <2> QED
        BY <2>1, <2>2 DEF ContextInv, ContextTypeOK, DeletesApart, ArenasRegistered,
                          DueIsPending, ClosesAlone
<1>2. ASSUME NEW t \in Thread, NEW o \in Obj, NEW y \in Type,
             New(t, o, y) \/ GetPtrMiss(t, o, y)
      PROVE  ContextInv'
    BY <1>2, ConstructKeeps DEF New, GetPtrMiss
<1>3. ASSUME NEW t \in Thread, NEW y \in Type, GetPtrHit(t, y) PROVE ContextInv'
    BY <1>3, GetPtrHitKeeps
<1>4. ASSUME NEW t \in Thread, NEW a \in ArenaId, GetArenaNew(t, a) PROVE ContextInv'
    BY <1>4, GetArenaNewKeeps
<1>5. ASSUME NEW t \in Thread,
             \/ Own(t) \/ GetPtrCache(t) \/ GetArenaRegister(t) \/ GetArena(t) \/ Allocate(t)
             \/ Reset(t) \/ Destroy(t) \/ SweepTake(t) \/ SweepCall(t) \/ SweepDone(t)
      PROVE  ContextInv'
    BY <1>5, OwnKeeps, GetPtrCacheKeeps, GetArenaRegisterKeeps, GetArenaKeeps, AllocateKeeps,
       ResetKeeps, DestroyKeeps, SweepTakeKeeps, SweepCallKeeps, SweepDoneKeeps
<1> QED
    BY <1>1, <1>2, <1>3, <1>4, <1>5 DEF ContextNext

(* The members of the Context and the locals of its threads are well typed,   *)
(* and at most one thread is inside a sweep.                                  *)
THEOREM ContextTypeCorrect == ContextSpec => []ContextTypeOK
BY ContextInitInv, ContextStepInv, PTL DEF ContextSpec, ContextInv

(* Every object given to a Context has exactly one pending delete, whatever   *)
(* threads call New, GetPtr, Own and Reset in whatever order: none is leaked  *)
(* and none is deleted twice.                                                 *)
THEOREM ContextOwnsExactlyOnce == ContextSpec => []OwnedExactlyOnce
<1>1. ContextInv => OwnedExactlyOnce
    <2> SUFFICES ASSUME ContextInv, NEW o \in Obj
                 PROVE  IF object[o] = None THEN Pending(o) = {}
                        ELSE \E p \in Pending(o) : Pending(o) = {p}
        BY DEF OwnedExactlyOnce
    <2> DEFINE L == {j \in 1..Len(cleanups_) : cleanups_[j] = o}
               B(t) == {j \in 1..Len(batch[t]) : batch[t][j] = o}
               H == {u \in Thread : pc[u] = "own" /\ mine[u] = o}
               inList == {<<"list", i, i>> : i \in L}
               inSweep == UNION {{<<"sweep", t, i>> : i \in B(t)} : t \in Thread}
               inHand == {<<"own", t, t>> : t \in H}
    <2>1. Pending(o) = inList \cup inSweep \cup inHand
        BY DEF Pending
    <2>2. /\ DeletesApart /\ DueIsPending
          /\ \A t, u \in Thread : pc[t] = "sweep" /\ pc[u] = "sweep" => t = u
        BY DEF ContextInv, ContextTypeOK
    <2>3. /\ L # {} <=> o \in Elems(cleanups_)
          /\ H # {} <=> o \in InOwn
          /\ \A t \in Thread : B(t) # {} <=> o \in Elems(batch[t])
        BY DEF Elems, InOwn
    <2>4. \A t, u \in Thread : B(t) # {} /\ B(u) # {} => t = u
        <3>1. \A t \in Thread : B(t) # {} => pc[t] = "sweep"
            BY <2>2, <2>3, EmptyFacts DEF DueIsPending
        <3> QED
            BY <3>1, <2>2
    <2>5. /\ \A i, j \in L : i = j
          /\ \A t \in Thread : \A i, j \in B(t) : i = j
          /\ \A t, u \in H : t = u
        BY <2>2 DEF DeletesApart, Distinct
    <2>6. /\ object[o] # None <=> L # {} \/ H # {} \/ \E t \in Thread : B(t) # {}
          /\ ~(L # {} /\ H # {})
          /\ \A t \in Thread : ~(B(t) # {} /\ (L # {} \/ H # {}))
        <3>1. object[o] # None <=>
                 \/ o \in Elems(cleanups_) \/ o \in InOwn
                 \/ \E t \in Thread : o \in Elems(batch[t])
            BY <2>2 DEF DeletesApart
        <3>2. /\ ~(o \in Elems(cleanups_) /\ o \in InOwn)
              /\ \A t \in Thread : ~(o \in Elems(batch[t]) /\ (o \in Elems(cleanups_) \/ o \in InOwn))
            BY <2>2 DEF DeletesApart
        <3> HIDE DEF L, B, H
        <3> QED
            BY <3>1, <3>2, <2>3
    <2> HIDE DEF L, B, H
    <2>7. CASE object[o] = None
        BY <2>1, <2>6, <2>7
    <2>8. CASE L # {}
        <3>1. PICK i \in L : TRUE
            BY <2>8
        <3>2. L = {i} /\ H = {} /\ \A t \in Thread : B(t) = {}
            BY <3>1, <2>5, <2>6
        <3>3. inList = {<<"list", i, i>>} /\ inSweep = {} /\ inHand = {}
            BY <3>2
        <3> HIDE DEF inList, inSweep, inHand
        <3> QED
            BY <3>3, <2>1, <2>6, <2>8
    <2>9. CASE H # {}
        <3>1. PICK t \in H : TRUE
            BY <2>9
        <3>2. H = {t} /\ L = {} /\ \A u \in Thread : B(u) = {}
            BY <3>1, <2>5, <2>6
        <3>3. inList = {} /\ inSweep = {} /\ inHand = {<<"own", t, t>>}
            BY <3>2
        <3> HIDE DEF inList, inSweep, inHand
        <3> QED
            BY <3>3, <2>1, <2>6, <2>9
    <2>10. CASE \E t \in Thread : B(t) # {}
        <3>1. PICK t \in Thread : B(t) # {}
            BY <2>10
        <3>2. PICK i \in B(t) : TRUE
            BY <3>1
        <3>3. B(t) = {i} /\ L = {} /\ H = {} /\ \A u \in Thread \ {t} : B(u) = {}
            BY <3>1, <3>2, <2>4, <2>5, <2>6
        <3>4. inList = {} /\ inSweep = {<<"sweep", t, i>>} /\ inHand = {}
            BY <3>3
        <3> HIDE DEF inList, inSweep, inHand
        <3> QED
            BY <3>4, <2>1, <2>6, <3>1
    <2> QED
        BY <2>6, <2>7, <2>8, <2>9, <2>10
<1> QED
    BY <1>1, ContextInitInv, ContextStepInv, PTL DEF ContextSpec

(* A Reset returns only when everything owned when it began is deleted and    *)
(* every arena that held memory is cleared.                                   *)
THEOREM ContextResetReclaims == ContextSpec => ResetReclaims
<1> DEFINE Reclaims == \A t \in Thread : pc[t] = "sweep" /\ pc'[t] = "idle" => due = {}
<1>1. ContextInv /\ [ContextNext]_contextVars => [Reclaims]_contextVars
    <2> SUFFICES ASSUME ContextInv, ContextNext,
                        NEW t \in Thread, pc[t] = "sweep", pc'[t] = "idle"
                 PROVE  due = {}
        OBVIOUS
    <2>1. ContextTypeOK /\ pc \in [Thread -> {"idle", "own", "cache", "register", "allocate", "sweep"}]
        BY DEF ContextInv, ContextTypeOK
    <2>2. ASSUME NEW u \in Thread, pc[u] # "sweep", NEW l, Goto(u, l) PROVE FALSE
        BY <2>1, <2>2, GotoFacts
    <2>3. ASSUME NEW u \in Thread, NEW o \in Obj, NEW y \in Type,
                 New(u, o, y) \/ GetPtrMiss(u, o, y)
          PROVE  FALSE
        BY <2>3, <2>2 DEF New, GetPtrMiss, Idle, Construct
    <2>4. ASSUME NEW u \in Thread, NEW y \in Type, GetPtrHit(u, y) PROVE FALSE
        BY <2>4 DEF GetPtrHit
    <2>5. ASSUME NEW u \in Thread, NEW a \in ArenaId, GetArenaNew(u, a) PROVE FALSE
        BY <2>5, <2>2 DEF GetArenaNew, Idle
    <2>6. ASSUME NEW u \in Thread,
                 Own(u) \/ GetPtrCache(u) \/ GetArenaRegister(u) \/ GetArena(u) \/ Allocate(u)
          PROVE  FALSE
        BY <2>6, <2>2 DEF Own, GetPtrCache, GetArenaRegister, GetArena, Allocate, Idle
    <2>7. ASSUME NEW u \in Thread, Reset(u) \/ Destroy(u) PROVE FALSE
        BY <2>7, <2>2 DEF Reset, Destroy, ResetArenas, Idle
    <2>8. ASSUME NEW u \in Thread, SweepTake(u) \/ SweepCall(u) PROVE FALSE
        BY <2>8 DEF SweepTake, SweepCall
    <2>9. ASSUME NEW u \in Thread, SweepDone(u) PROVE due = {}
        BY <2>9, SweepDoneKeeps
    <2> QED
        BY <2>3, <2>4, <2>5, <2>6, <2>7, <2>8, <2>9 DEF ContextNext
<1> QED
    BY <1>1, ContextInitInv, ContextStepInv, PTL DEF ContextSpec, ResetReclaims

(* The destructor of a Context finds its list empty at the end, and leaves no *)
(* object and no unregistered arena behind.                                   *)
THEOREM ContextClosedLeavesNothing == ContextSpec => []ClosedLeavesNothing
<1>1. ContextInv => ClosedLeavesNothing
    <2> SUFFICES ASSUME ContextInv, closed
                 PROVE  /\ cleanups_ = <<>>
                        /\ \A o \in Obj : object[o] = None
                        /\ \A t \in Thread : arena_[t] # None => arena_[t] \in all_arenas_
        BY DEF ClosedLeavesNothing
    <2>1. cleanups_ = <<>> /\ \A t \in Thread : pc[t] = "idle"
        BY DEF ContextInv, ClosesAlone
    <2>2. InOwn = {} /\ Elems(cleanups_) = {} /\ \A t \in Thread : Elems(batch[t]) = {}
        BY <2>1, EmptyFacts DEF ContextInv, DueIsPending, InOwn
    <2>3. \A o \in Obj : object[o] = None
        BY <2>2 DEF ContextInv, DeletesApart
    <2>4. \A t \in Thread : arena_[t] # None => arena_[t] \in all_arenas_
        BY <2>1 DEF ContextInv, ArenasRegistered
    <2> QED
        BY <2>1, <2>3, <2>4
<1> QED
    BY <1>1, ContextInitInv, ContextStepInv, PTL DEF ContextSpec

-----------------------------------------------------------------------------
(* Refinement: of the cleanup list a Context uses what CleanupList promises,   *)
(* which AtomicList implements.                                               *)

LEMMA ListUseAt ==
    ASSUME NEW t \in Thread
    PROVE  /\ Adding[t] = IF pc[t] = "own" THEN mine[t] ELSE None
           /\ pc[t] = "own" => Doing[t] = "insert"
           /\ pc[t] = "sweep" => Doing[t] = "sweep"
           /\ pc[t] \notin {"own", "sweep"} => Doing[t] = "nothing"
BY DEF Adding, Doing

(* The same of the next state. *)
LEMMA ListUseThen ==
    ASSUME NEW t \in Thread
    PROVE  /\ Adding'[t] = IF pc'[t] = "own" THEN mine'[t] ELSE None
           /\ pc'[t] = "own" => Doing'[t] = "insert"
           /\ pc'[t] = "sweep" => Doing'[t] = "sweep"
           /\ pc'[t] \notin {"own", "sweep"} => Doing'[t] = "nothing"
BY DEF Adding, Doing

LEMMA ListUseFunctions ==
    /\ Doing = [u \in Thread |-> Doing[u]] /\ Doing' = [u \in Thread |-> Doing'[u]]
    /\ Adding = [u \in Thread |-> Adding[u]] /\ Adding' = [u \in Thread |-> Adding'[u]]
<1>1. Doing = [u \in Thread |-> Doing[u]] /\ Doing' = [u \in Thread |-> Doing'[u]]
    BY Zenon DEF Doing
<1>2. Adding = [u \in Thread |-> Adding[u]] /\ Adding' = [u \in Thread |-> Adding'[u]]
    BY Zenon DEF Adding
<1> QED
    BY <1>1, <1>2

(* A step of t leaves the place and the object of the other threads alone. *)
OnlyOf(t) == \A u \in Thread \ {t} : pc'[u] = pc[u] /\ mine'[u] = mine[u]

LEMMA ListUseAfter ==
    ASSUME NEW t \in Thread, OnlyOf(t)
    PROVE  /\ Doing' = [Doing EXCEPT ![t] = Doing'[t]] /\ Adding' = [Adding EXCEPT ![t] = Adding'[t]]
           /\ Doing'[t] = Doing[t] => Doing' = Doing
           /\ Adding'[t] = Adding[t] => Adding' = Adding
<1>1. ASSUME NEW u \in Thread \ {t} PROVE Doing'[u] = Doing[u] /\ Adding'[u] = Adding[u]
    <2>1. u \in Thread /\ pc'[u] = pc[u] /\ mine'[u] = mine[u]
        BY DEF OnlyOf
    <2> QED
        BY <2>1 DEF Doing, Adding
<1> QED
    BY <1>1, ListUseFunctions

LEMMA ListUseInit == ContextInit => Cleanups!CleanupInit
<1> SUFFICES ASSUME ContextInit PROVE Cleanups!CleanupInit
    OBVIOUS
<1>1. \A t \in Thread : pc[t] = "idle"
    BY DEF ContextInit
<1>2. \A t \in Thread : Doing[t] = "nothing" /\ Adding[t] = None
    BY <1>1, ListUseAt
<1>3. Doing = [t \in Thread |-> "nothing"] /\ Adding = [t \in Thread |-> None]
    BY <1>2, ListUseFunctions
<1> QED
    BY <1>3 DEF ContextInit, Cleanups!CleanupInit

(* Memory without an object has no cleanup that is pending. *)
LEMMA EmptyIsUnused ==
    ASSUME ContextInv, NEW o \in Obj, object[o] = None
    PROVE  Cleanups!Unused(o)
<1>1. o \notin Elems(cleanups_) /\ o \notin InOwn /\ \A t \in Thread : o \notin Elems(batch[t])
    BY DEF ContextInv, DeletesApart
<1>2. ASSUME NEW t \in Thread PROVE Adding[t] # o
    <2>1. o # None /\ (pc[t] = "own" => mine[t] # o)
        BY <1>1, ContextAssumption DEF InOwn
    <2> QED
        BY <2>1, ListUseAt
<1> QED
    BY <1>1, <1>2 DEF Cleanups!Unused, Cleanups!In, Elems

(* New and GetPtr begin to insert the cleanup of a new object. *)
LEMMA ConstructUses ==
    ASSUME ContextInv, NEW t \in Thread, NEW o \in Obj, NEW y, NEW cache, pc[t] = "idle",
           Construct(t, o, y, cache)
    PROVE  Cleanups!BeginInsert(t, o)
<1> USE DEF Construct, Goto
<1>1. OnlyOf(t) /\ pc'[t] = "own" /\ mine'[t] = o
    BY DEF OnlyOf, ContextInv, ContextTypeOK
<1>2. Doing[t] = "nothing" /\ Doing'[t] = "insert" /\ Adding'[t] = o
    BY <1>1, ListUseAt, ListUseThen
<1>3. Doing' = [Doing EXCEPT ![t] = "insert"] /\ Adding' = [Adding EXCEPT ![t] = o]
    BY <1>1, <1>2, ListUseAfter
<1>4. Cleanups!Unused(o)
    BY EmptyIsUnused
<1>5. UNCHANGED <<cleanups_, batch>>
    BY DEF resetVars
<1> QED
    BY <1>2, <1>3, <1>4, <1>5 DEF Cleanups!BeginInsert

LEMMA OwnUses ==
    ASSUME ContextInv, NEW t \in Thread, Own(t)
    PROVE  Cleanups!InsertHead(t)
<1> USE DEF Own, Goto
<1>1. OnlyOf(t) /\ pc[t] = "own" /\ pc'[t] \in {"cache", "idle"}
    BY DEF OnlyOf, ContextInv, ContextTypeOK
<1>2. /\ Doing[t] = "insert" /\ Doing'[t] = "nothing"
      /\ Adding[t] = mine[t] /\ Adding'[t] = None
    BY <1>1, ListUseAt, ListUseThen
<1>3. Doing' = [Doing EXCEPT ![t] = "nothing"] /\ Adding' = [Adding EXCEPT ![t] = None]
    BY <1>1, <1>2, ListUseAfter
<1>4. cleanups_' = <<mine[t]>> \o cleanups_ /\ batch' = batch
    BY DEF resetVars
<1> QED
    BY <1>2, <1>3, <1>4 DEF Cleanups!InsertHead

(* Reset and the destructor begin a sweep. *)
LEMMA ResetUses ==
    ASSUME ContextInv, NEW t \in Thread, pc[t] = "idle", ResetArenas(t)
    PROVE  Cleanups!BeginSweep(t, Cleanups!Oldest)
<1> USE DEF ResetArenas, Goto
<1>1. OnlyOf(t) /\ pc'[t] = "sweep" /\ UNCHANGED <<cleanups_, batch, mine>>
    BY DEF OnlyOf, ContextInv, ContextTypeOK, ownVars
<1>2. Doing[t] = "nothing" /\ Doing'[t] = "sweep" /\ Adding'[t] = None /\ Adding[t] = None
    BY <1>1, ListUseAt, ListUseThen
<1>3. Doing' = [Doing EXCEPT ![t] = "sweep"] /\ Adding' = Adding
    BY <1>1, <1>2, ListUseAfter
<1> QED
    BY <1>1, <1>2, <1>3 DEF Cleanups!BeginSweep, Cleanups!Oldest

LEMMA SweepTakeUses ==
    ASSUME ContextInv, NEW t \in Thread, SweepTake(t)
    PROVE  Cleanups!Take(t)
<1>1. /\ pc[t] = "sweep" /\ batch[t] = <<>> /\ cleanups_ # <<>> /\ cleanups_' = <<>>
      /\ UNCHANGED <<pc, mine>>
      /\ batch' = [batch EXCEPT ![t] =
           [i \in 1..Len(cleanups_) |-> cleanups_[Len(cleanups_) + 1 - i]]]
    BY DEF SweepTake
<1>2. Doing[t] = "sweep" /\ Doing' = Doing /\ Adding' = Adding
    BY <1>1, ListUseAt DEF Doing, Adding
<1>3. Doing' = [Doing EXCEPT ![t] = "sweep"]
    BY <1>2, ListUseFunctions
<1>4. batch' = [batch EXCEPT ![t] = Cleanups!OldestFirst(cleanups_)]
    BY <1>1 DEF Cleanups!OldestFirst
<1> QED
    BY <1>1, <1>2, <1>3, <1>4 DEF Cleanups!Take, Cleanups!Oldest

LEMMA SweepCallUses ==
    ASSUME NEW t \in Thread, SweepCall(t)
    PROVE  Cleanups!Call(t)
BY DEF SweepCall, Cleanups!Call, Doing, Adding

LEMMA SweepDoneUses ==
    ASSUME ContextInv, NEW t \in Thread, SweepDone(t)
    PROVE  Cleanups!EndSweep(t)
<1> USE DEF SweepDone, Goto
<1>1. /\ OnlyOf(t) /\ pc[t] = "sweep" /\ pc'[t] = "idle" /\ UNCHANGED <<cleanups_, batch, mine>>
      /\ batch[t] = <<>> /\ cleanups_ = <<>>
    BY DEF OnlyOf, ContextInv, ContextTypeOK, ownVars
<1>2. Doing[t] = "sweep" /\ Doing'[t] = "nothing" /\ Adding'[t] = None /\ Adding[t] = None
    BY <1>1, ListUseAt, ListUseThen
<1>3. Doing' = [Doing EXCEPT ![t] = "nothing"] /\ Adding' = Adding
    BY <1>1, <1>2, ListUseAfter
<1> QED
    BY <1>1, <1>2, <1>3 DEF Cleanups!EndSweep, Cleanups!Oldest, Cleanups!Newest

(* GetPtr's map and the arenas are no business of the list. *)
LEMMA OthersDoNotUse ==
    ASSUME ContextInv, NEW t \in Thread, NEW y, NEW a,
           \/ GetPtrHit(t, y) \/ GetPtrCache(t) \/ GetArenaNew(t, a) \/ GetArenaRegister(t)
           \/ GetArena(t) \/ Allocate(t)
    PROVE  UNCHANGED Cleanups!cleanupVars
<1>1. /\ OnlyOf(t) /\ UNCHANGED <<cleanups_, batch>>
      /\ pc[t] \notin {"own", "sweep"} /\ pc'[t] \notin {"own", "sweep"}
    BY DEF GetPtrHit, GetPtrCache, GetArenaNew, GetArenaRegister, GetArena, Allocate, Goto, Idle,
           OnlyOf, ContextInv, ContextTypeOK, ownVars, resetVars
<1>2. Doing[t] = "nothing" /\ Doing'[t] = "nothing" /\ Adding[t] = None /\ Adding'[t] = None
    BY <1>1, ListUseAt, ListUseThen
<1>3. Doing' = Doing /\ Adding' = Adding
    BY <1>1, <1>2, ListUseAfter
<1> QED
    BY <1>1, <1>3 DEF Cleanups!cleanupVars

LEMMA StepUses ==
    ContextInv /\ [ContextNext]_contextVars => [Cleanups!CleanupNext]_(Cleanups!cleanupVars)
<1> SUFFICES ASSUME ContextInv, [ContextNext]_contextVars
             PROVE  Cleanups!CleanupNext \/ UNCHANGED Cleanups!cleanupVars
    OBVIOUS
<1>1. CASE UNCHANGED contextVars
    <2>1. UNCHANGED <<cleanups_, batch, pc, mine>>
        BY <1>1 DEF contextVars, ownVars, resetVars
    <2> QED
        BY <2>1 DEF Cleanups!cleanupVars, Doing, Adding
<1>2. ASSUME NEW t \in Thread, NEW o \in Obj, NEW y \in Type,
             New(t, o, y) \/ GetPtrMiss(t, o, y)
      PROVE  Cleanups!CleanupNext
    <2>1. pc[t] = "idle" /\ \E cache : Construct(t, o, y, cache)
        BY <1>2 DEF New, GetPtrMiss, Idle
    <2> QED
        BY <2>1, ConstructUses DEF Cleanups!CleanupNext
<1>3. ASSUME NEW t \in Thread, Own(t) PROVE Cleanups!CleanupNext
    BY <1>3, OwnUses DEF Cleanups!CleanupNext
<1>4. ASSUME NEW t \in Thread, Reset(t) \/ Destroy(t) PROVE Cleanups!CleanupNext
    <2>1. pc[t] = "idle" /\ ResetArenas(t)
        BY <1>4 DEF Reset, Destroy, Idle
    <2> QED
        BY <2>1, ResetUses DEF Cleanups!CleanupNext
<1>5. ASSUME NEW t \in Thread, SweepTake(t) \/ SweepCall(t) \/ SweepDone(t)
      PROVE  Cleanups!CleanupNext
    BY <1>5, SweepTakeUses, SweepCallUses, SweepDoneUses DEF Cleanups!CleanupNext
<1>6. ASSUME NEW t \in Thread, NEW y \in Type, GetPtrHit(t, y)
      PROVE  UNCHANGED Cleanups!cleanupVars
    BY <1>6, OthersDoNotUse
<1>7. ASSUME NEW t \in Thread, NEW a \in ArenaId, GetArenaNew(t, a)
      PROVE  UNCHANGED Cleanups!cleanupVars
    BY <1>7, OthersDoNotUse
<1>8. ASSUME NEW t \in Thread,
             GetPtrCache(t) \/ GetArenaRegister(t) \/ GetArena(t) \/ Allocate(t)
      PROVE  UNCHANGED Cleanups!cleanupVars
    BY <1>8, OthersDoNotUse
<1> QED
    BY <1>1, <1>2, <1>3, <1>4, <1>5, <1>6, <1>7, <1>8 DEF ContextNext

(* A Context asks nothing else of the list than CleanupList promises, and     *)
(* never inserts the cleanup of memory that already has one pending.          *)
THEOREM ContextUsesCleanupList == ContextSpec => UsesCleanupList
BY ContextInitInv, ContextStepInv, ListUseInit, StepUses, PTL
   DEF ContextSpec, UsesCleanupList, Cleanups!CleanupSpec
=============================================================================
