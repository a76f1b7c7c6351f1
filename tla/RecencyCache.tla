---------------------------- MODULE RecencyCache ----------------------------
(***************************************************************************)
(* What a bounded cache with least-recently-used replacement promises, with *)
(* no list, no iterators and no clock.  "store" is the content; "older" is  *)
(* the use order: <<a, b>> in "older" says that a was last used before b.   *)
(* The comment of rapidudf/common/lru_cache.h states the promise: "a cache  *)
(* which evicts the least recently used item when it is full".              *)
(***************************************************************************)
EXTENDS Integers, FiniteSets

CONSTANTS Key,      \* the cache keys
          Value,    \* the cached values
          Missing   \* marks a key that is not in the cache

VARIABLES store,    \* store[k]: the cached value of k, or Missing
          older,    \* the use order between cached keys
          limit     \* the capacity

absVars == <<store, older, limit>>

Cached == {k \in Key : store[k] # Missing}

(* k becomes the most recently used key of the set S that stays cached. *)
UseOrder(S, k) == {p \in older : p[1] \in S \ {k} /\ p[2] \in S \ {k}}
                    \cup {<<x, k>> : x \in S \ {k}}

(* The least recently used cached key. *)
IsLeastRecent(v) == v \in Cached /\ \A x \in Cached \ {v} : <<v, x>> \in older

Use(k) ==
    /\ k \in Cached
    /\ older' = UseOrder(Cached, k)
    /\ UNCHANGED <<store, limit>>

AddWithRoom(k, v) ==
    /\ k \notin Cached
    /\ Cardinality(Cached) < limit
    /\ store' = [store EXCEPT ![k] = v]
    /\ older' = UseOrder(Cached \cup {k}, k)
    /\ UNCHANGED limit

AddByReplacing(k, v) ==
    /\ k \notin Cached
    /\ Cardinality(Cached) >= limit
    /\ \E old \in Key :
         /\ IsLeastRecent(old)
         /\ store' = [store EXCEPT ![old] = Missing, ![k] = v]
         /\ older' = UseOrder((Cached \ {old}) \cup {k}, k)
    /\ UNCHANGED limit

Drop(k) ==
    /\ store' = [store EXCEPT ![k] = Missing]
    /\ older' = {p \in older : p[1] # k /\ p[2] # k}
    /\ UNCHANGED limit

DropAll ==
    /\ store' = [k \in Key |-> Missing]
    /\ older' = {}
    /\ UNCHANGED limit

SetLimit == limit' \in Nat /\ UNCHANGED <<store, older>>

AbsInit ==
    /\ store = [k \in Key |-> Missing]
    /\ older = {}
    /\ limit \in Nat

AbsNext ==
    \/ \E k \in Key :
         \/ Use(k)
         \/ Drop(k)
         \/ \E v \in Value : AddWithRoom(k, v) \/ AddByReplacing(k, v)
    \/ DropAll
    \/ SetLimit

AbsSpec == AbsInit /\ [][AbsNext]_absVars
=============================================================================
