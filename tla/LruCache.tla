------------------------------ MODULE LruCache ------------------------------
(***************************************************************************)
(* The class template lru_cache<Key, Value> of rapidudf/common/lru_cache.h: *)
(* a hash map from key to (value, list iterator) and a list of the keys,    *)
(* the most recently used one first.  One action per member function.  The  *)
(* class has no lock: its callers serialise the calls (EvalEngine).         *)
(***************************************************************************)
EXTENDS Integers, FiniteSets, SequencesExt

CONSTANTS Key,        \* the keys
          Value,      \* the values
          Missing,    \* what a lookup of an absent key finds
          Capacity    \* the constructor's argument; reset_capacity may change it

ASSUME CapacityAssumption == Capacity \in Nat
ASSUME MissingAssumption == Missing \notin Value

VARIABLES m_map,      \* m_map[k]: the value stored for k, or Missing
          m_list,     \* the keys, most recently used first
          m_capacity,
          corrupt     \* whether evict() has run on an empty list, which is undefined

members == <<m_map, m_list, m_capacity>>
lruVars == <<members, corrupt>>

Present == {k \in Key : m_map[k] # Missing}

size == Cardinality(Present)

(* Mutant: the cache counts as full one item early. *)
FullOneEarly == size + 1 >= m_capacity

Full == size >= m_capacity

(* The list iterator that the map keeps beside k's value. *)
Iterator(k) == CHOOSE i \in 1..Len(m_list) : m_list[i] = k

LruInit ==
    /\ m_map = [k \in Key |-> Missing]
    /\ m_list = <<>>
    /\ m_capacity = Capacity
    /\ corrupt = FALSE

(* insert: nothing happens to a key that is already there, neither to its   *)
(* value nor to its place in the list; a full cache evicts one item first.  *)
InsertPresent(k) == k \in Present /\ UNCHANGED members

InsertWithRoomUnchecked(k, v) ==      \* mutant: no test for a full cache
    /\ k \notin Present
    /\ m_list' = Cons(k, m_list)
    /\ m_map' = [m_map EXCEPT ![k] = v]
    /\ UNCHANGED m_capacity

InsertWithRoom(k, v) ==
    /\ k \notin Present
    /\ ~Full
    /\ m_list' = Cons(k, m_list)
    /\ m_map' = [m_map EXCEPT ![k] = v]
    /\ UNCHANGED m_capacity

InsertEvictingNewest(k, v) ==         \* mutant: evict from the wrong end
    /\ k \notin Present
    /\ Full /\ m_list # <<>>
    /\ m_list' = Cons(k, Tail(m_list))
    /\ m_map' = [m_map EXCEPT ![Head(m_list)] = Missing, ![k] = v]
    /\ UNCHANGED m_capacity

InsertEvicting(k, v) ==
    /\ k \notin Present
    /\ Full /\ m_list # <<>>
    /\ m_list' = Cons(k, Front(m_list))
    /\ m_map' = [m_map EXCEPT ![Last(m_list)] = Missing, ![k] = v]
    /\ UNCHANGED m_capacity

Insert(k, v) == InsertPresent(k) \/ InsertWithRoom(k, v) \/ InsertEvicting(k, v)

(* insert into a cache that is full while its list is empty: evict() reads    *)
(* and frees the end of the list.  This is undefined; the process is lost.    *)
InsertEvictingNothing(k) ==
    /\ k \notin Present
    /\ Full /\ m_list = <<>>
    /\ corrupt' = TRUE
    /\ UNCHANGED members

(* get: a hit moves the key to the front of the list.  The caller receives  *)
(* a copy of the value.                                                     *)
GetMiss(k) == k \notin Present /\ UNCHANGED members

GetHitWithoutErase(k) ==              \* mutant: the old list node stays behind
    /\ k \in Present
    /\ m_list' = IF Head(m_list) = k THEN m_list ELSE Cons(k, m_list)
    /\ UNCHANGED <<m_map, m_capacity>>

GetHit(k) ==
    /\ k \in Present
    /\ m_list' = Cons(k, RemoveAt(m_list, Iterator(k)))
    /\ UNCHANGED <<m_map, m_capacity>>

Get(k) == GetMiss(k) \/ GetHit(k)

Erase(k) ==
    \/ k \notin Present /\ UNCHANGED members
    \/ /\ k \in Present
       /\ m_list' = RemoveAt(m_list, Iterator(k))
       /\ m_map' = [m_map EXCEPT ![k] = Missing]
       /\ UNCHANGED m_capacity

Clear ==
    /\ m_map' = [k \in Key |-> Missing]
    /\ m_list' = <<>>
    /\ UNCHANGED m_capacity

(* reset_capacity only stores the number, 0 included: a smaller capacity     *)
(* evicts nothing.                                                           *)
ResetCapacity(n) == m_capacity' = n /\ UNCHANGED <<m_map, m_list>>

Call ==
    \/ \E k \in Key :
         \/ \E v \in Value : Insert(k, v)
         \/ Get(k)
         \/ Erase(k)
    \/ Clear
    \/ \E n \in 0..Capacity : ResetCapacity(n)

LruNext ==
    \/ ~corrupt /\ Call /\ UNCHANGED corrupt
    \/ ~corrupt /\ \E k \in Key : InsertEvictingNothing(k)

LruSpec == LruInit /\ [][LruNext]_lruVars

-----------------------------------------------------------------------------
(* The members of lru_cache: keys in the list, values in the map. *)
LruTypeOK ==
    /\ m_map \in [Key -> Value \cup {Missing}]
    /\ m_list \in Seq(Key)
    /\ m_capacity \in Nat

(* The map and the list hold the same keys, and the list holds each of them *)
(* once: otherwise the iterator kept in the map dangles, or an eviction      *)
(* erases a list node and leaves the map entry (insert, get, erase, evict).  *)
ListMatchesMap ==
    /\ Present = {m_list[i] : i \in 1..Len(m_list)}
    /\ \A i, j \in 1..Len(m_list) : m_list[i] = m_list[j] => i = j

(* evict() takes the last key of the list without a test whether there is    *)
(* one: after any sequence of calls it meets an empty list only in a cache   *)
(* that was given the capacity 0, since the size that insert compares is the *)
(* map's and the list has as many keys.                                      *)
EvictsNothingOnlyAtZero == corrupt => m_capacity = 0

(* insert never grows the cache past the capacity in force, also when        *)
(* reset_capacity has left the cache larger than its new capacity.           *)
GrowsWithinCapacity == [][Len(m_list') > Len(m_list) => Len(m_list') <= m_capacity']_lruVars

(* The list order is the use order. *)
UsedBefore == {<<m_list[q[2]], m_list[q[1]]>> :
                 q \in {p \in (1..Len(m_list)) \X (1..Len(m_list)) : p[1] < p[2]}}

Abs == INSTANCE RecencyCache WITH store <- m_map, older <- UsedBefore, limit <- m_capacity

(* lru_cache keeps the promise of its header comment: every call is a step   *)
(* of the abstract cache, and the item it evicts is the least recently used. *)
EvictsLeastRecentlyUsed == Abs!AbsSpec
=============================================================================
