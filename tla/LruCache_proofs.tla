--------------------------- MODULE LruCache_proofs ---------------------------
(***************************************************************************)
(* Proofs about lru_cache, for every set of keys and values and every       *)
(* capacity: typing, the agreement of map and list, the capacity bound, and *)
(* that the class implements least-recently-used replacement.               *)
(***************************************************************************)
EXTENDS LruCache, SequenceTheorems, FunctionTheorems, FiniteSetTheorems, TLAPS

-----------------------------------------------------------------------------
(* The three list operations, element by element. *)

(* std::list::push_front: the new element is first and the others follow. *)
LEMMA ConsFacts ==
    ASSUME NEW S, NEW s \in Seq(S), NEW e \in S
    PROVE  /\ Cons(e, s) \in Seq(S)
           /\ Len(Cons(e, s)) = Len(s) + 1
           /\ Cons(e, s)[1] = e
           /\ \A i \in 1..Len(s) : Cons(e, s)[i + 1] = s[i]
<1>1. <<e>> \in Seq(S) /\ Len(<<e>>) = 1 /\ <<e>>[1] = e
    OBVIOUS
<1>2. /\ <<e>> \o s \in Seq(S)
      /\ Len(<<e>> \o s) = 1 + Len(s)
      /\ \A i \in 1..(1 + Len(s)) :
            (<<e>> \o s)[i] = IF i <= 1 THEN <<e>>[i] ELSE s[i - 1]
    BY <1>1, ConcatProperties
<1>3. Len(s) \in Nat
    OBVIOUS
<1> QED
    BY <1>1, <1>2, <1>3 DEF Cons

(* std::list::erase: the elements behind the erased one move up by one. *)
LEMMA RemoveAtFacts ==
    ASSUME NEW S, NEW s \in Seq(S), NEW n \in 1..Len(s)
    PROVE  /\ RemoveAt(s, n) \in Seq(S)
           /\ Len(RemoveAt(s, n)) = Len(s) - 1
           /\ \A i \in 1..(Len(s) - 1) :
                 RemoveAt(s, n)[i] = IF i < n THEN s[i] ELSE s[i + 1]
<1> DEFINE a == SubSeq(s, 1, n - 1)
           b == SubSeq(s, n + 1, Len(s))
<1>1. Len(s) \in Nat /\ n \in Nat
    OBVIOUS
<1>2. a \in Seq(S) /\ Len(a) = n - 1 /\ \A i \in 1..(n - 1) : a[i] = s[i]
    BY <1>1, SubSeqProperties
<1>3. /\ b \in Seq(S)
      /\ Len(b) = Len(s) - n
      /\ \A i \in 1..(Len(s) - n) : b[i] = s[n + i]
    BY <1>1, SubSeqProperties
<1>4. /\ a \o b \in Seq(S)
      /\ Len(a \o b) = Len(a) + Len(b)
      /\ \A i \in 1..(Len(a) + Len(b)) :
            (a \o b)[i] = IF i <= Len(a) THEN a[i] ELSE b[i - Len(a)]
    BY <1>2, <1>3, ConcatProperties
<1>5. RemoveAt(s, n) = a \o b
    BY DEF RemoveAt
<1> HIDE DEF a, b
<1>6. RemoveAt(s, n) \in Seq(S) /\ Len(RemoveAt(s, n)) = Len(s) - 1
    <2>1. Len(a) + Len(b) = Len(s) - 1
        BY <1>1, <1>2, <1>3
    <2> QED
        BY <2>1, <1>4, <1>5, Zenon
<1>7. ASSUME NEW i \in 1..(Len(s) - 1)
      PROVE  RemoveAt(s, n)[i] = IF i < n THEN s[i] ELSE s[i + 1]
    <2>1. CASE i < n
        BY <2>1, <1>1, <1>2, <1>3, <1>4, <1>5
    <2>2. CASE ~(i < n)
        <3>1. i - Len(a) \in 1..(Len(s) - n) /\ n + (i - Len(a)) = i + 1
            BY <2>2, <1>1, <1>2
        <3>2. (a \o b)[i] = b[i - Len(a)]
            BY <2>2, <1>1, <1>2, <1>3, <1>4
        <3> QED
            BY <2>2, <3>1, <3>2, <1>3, <1>5
    <2> QED
        BY <2>1, <2>2
<1> QED
    BY <1>6, <1>7

(* Dropping the last list node: the rest keeps its place. *)
LEMMA PrefixFacts ==
    ASSUME NEW S, NEW s \in Seq(S), NEW m \in 0..Len(s)
    PROVE  /\ SubSeq(s, 1, m) \in Seq(S)
           /\ Len(SubSeq(s, 1, m)) = m
           /\ \A i \in 1..m : SubSeq(s, 1, m)[i] = s[i]
BY SubSeqProperties

(* The list without its last element. *)
LEMMA FrontFacts ==
    ASSUME NEW S, NEW s \in Seq(S), Len(s) > 0
    PROVE  /\ Front(s) \in Seq(S)
           /\ Len(Front(s)) = Len(s) - 1
           /\ \A i \in 1..(Len(s) - 1) : Front(s)[i] = s[i]
           /\ Last(s) = s[Len(s)] /\ Last(s) \in S
<1>1. Len(s) - 1 \in 0..Len(s) /\ Len(s) \in 1..Len(s)
    OBVIOUS
<1>2. s[Len(s)] \in S
    BY <1>1, ElementOfSeq
<1> QED
    BY <1>1, <1>2, PrefixFacts, Zenon DEF Front, Last

(* The map's size is the list's length once they hold the same keys. *)
LEMMA SizeIsLength ==
    ASSUME LruTypeOK, ListMatchesMap
    PROVE  size = Len(m_list) /\ Len(m_list) \in Nat
<1> DEFINE n == Len(m_list)
<1>1. n \in Nat /\ m_list \in [1..n -> Key]
    BY DEF LruTypeOK
<1>2. m_list \in Bijection(1..n, Present)
    <2>1. m_list \in [1..n -> Present]
        BY <1>1 DEF ListMatchesMap
    <2>2. m_list \in Injection(1..n, Present)
        BY <2>1, Fun_IsInj DEF ListMatchesMap
    <2>3. m_list \in Surjection(1..n, Present)
        BY <2>1, Fun_IsSurj DEF ListMatchesMap
    <2> QED
        BY <2>2, <2>3 DEF Bijection
<1>3. ExistsBijection(1..n, Present)
    BY <1>2 DEF ExistsBijection
<1> QED
    BY <1>1, <1>3, FS_CountingElements DEF size

-----------------------------------------------------------------------------
(* What each member function does to the list, node by node. *)

LruInv == LruTypeOK /\ ListMatchesMap

(* The iterator kept for a cached key points to its node (get, erase). *)
LEMMA IteratorFacts ==
    ASSUME LruInv, NEW k \in Present
    PROVE  Iterator(k) \in 1..Len(m_list) /\ m_list[Iterator(k)] = k
BY DEF LruInv, ListMatchesMap, Iterator

(* A hit keeps the keys and their number: one node moves to the front. *)
LEMMA GetHitFacts ==
    ASSUME LruInv, NEW k \in Key, GetHit(k)
    PROVE  /\ m_list' \in Seq(Key) /\ Len(m_list') = Len(m_list) /\ m_list'[1] = k
           /\ \A i \in 1..(Len(m_list) - 1) :
                 m_list'[i + 1] = IF i < Iterator(k) THEN m_list[i] ELSE m_list[i + 1]
<1> DEFINE r == RemoveAt(m_list, Iterator(k))
<1>1. m_list \in Seq(Key) /\ Len(m_list) \in Nat
    BY DEF LruInv, LruTypeOK
<1>2. Iterator(k) \in 1..Len(m_list)
    BY IteratorFacts DEF GetHit
<1>3. /\ r \in Seq(Key) /\ Len(r) = Len(m_list) - 1
      /\ \A i \in 1..(Len(m_list) - 1) :
            r[i] = IF i < Iterator(k) THEN m_list[i] ELSE m_list[i + 1]
    BY <1>1, <1>2, RemoveAtFacts
<1>4. m_list' = Cons(k, r)
    BY DEF GetHit
<1> HIDE DEF r
<1>5. /\ Cons(k, r) \in Seq(Key) /\ Len(Cons(k, r)) = Len(r) + 1 /\ Cons(k, r)[1] = k
      /\ \A i \in 1..Len(r) : Cons(k, r)[i + 1] = r[i]
    BY <1>3, ConsFacts
<1> QED
    BY <1>1, <1>3, <1>4, <1>5

(* insert into a cache that is not full adds one node at the front. *)
LEMMA InsertWithRoomFacts ==
    ASSUME LruInv, NEW k \in Key, NEW v \in Value, InsertWithRoom(k, v)
    PROVE  /\ m_list' \in Seq(Key) /\ Len(m_list') = Len(m_list) + 1 /\ m_list'[1] = k
           /\ \A i \in 1..Len(m_list) : m_list'[i + 1] = m_list[i]
           /\ Len(m_list) < m_capacity
<1>1. m_list \in Seq(Key) /\ size = Len(m_list)
    BY SizeIsLength DEF LruInv, LruTypeOK
<1>1a. Len(m_list) \in Nat /\ m_capacity \in Nat
    BY DEF LruInv, LruTypeOK
<1>2. m_list' = Cons(k, m_list) /\ size < m_capacity
    BY <1>1, <1>1a DEF InsertWithRoom, Full
<1>3. /\ Cons(k, m_list) \in Seq(Key) /\ Len(Cons(k, m_list)) = Len(m_list) + 1
      /\ Cons(k, m_list)[1] = k
      /\ \A i \in 1..Len(m_list) : Cons(k, m_list)[i + 1] = m_list[i]
    BY <1>1, ConsFacts
<1> QED
    BY <1>1, <1>2, <1>3, Zenon

(* insert into a full cache replaces the last node by one at the front. *)
LEMMA InsertEvictingFacts ==
    ASSUME LruInv, NEW k \in Key, NEW v \in Value, InsertEvicting(k, v)
    PROVE  /\ m_list' \in Seq(Key) /\ Len(m_list') = Len(m_list) /\ m_list'[1] = k
           /\ \A i \in 1..(Len(m_list) - 1) : m_list'[i + 1] = m_list[i]
           /\ Len(m_list) > 0 /\ Last(m_list) = m_list[Len(m_list)]
<1> DEFINE r == Front(m_list)
<1>1. m_list \in Seq(Key) /\ Len(m_list) \in Nat /\ Len(m_list) > 0
    BY SizeIsLength DEF LruInv, LruTypeOK, InsertEvicting
<1>2. /\ r \in Seq(Key) /\ Len(r) = Len(m_list) - 1
      /\ \A i \in 1..(Len(m_list) - 1) : r[i] = m_list[i]
      /\ Last(m_list) = m_list[Len(m_list)]
    BY <1>1, FrontFacts
<1>3. m_list' = Cons(k, r)
    BY DEF InsertEvicting
<1> HIDE DEF r
<1>4. /\ Cons(k, r) \in Seq(Key) /\ Len(Cons(k, r)) = Len(r) + 1 /\ Cons(k, r)[1] = k
      /\ \A i \in 1..Len(r) : Cons(k, r)[i + 1] = r[i]
    BY <1>2, ConsFacts
<1> QED
    BY <1>1, <1>2, <1>3, <1>4

(* erase removes the one node of its key. *)
LEMMA EraseFacts ==
    ASSUME LruInv, NEW k \in Present, m_list' = RemoveAt(m_list, Iterator(k))
    PROVE  /\ m_list' \in Seq(Key) /\ Len(m_list') = Len(m_list) - 1
           /\ \A i \in 1..(Len(m_list) - 1) :
                 m_list'[i] = IF i < Iterator(k) THEN m_list[i] ELSE m_list[i + 1]
BY IteratorFacts, RemoveAtFacts DEF LruInv, LruTypeOK

-----------------------------------------------------------------------------
(* Every member function keeps the map and the list in step. *)
LEMMA GetHitKeepsInv ==
    ASSUME LruInv, NEW k \in Key, GetHit(k)
    PROVE  LruInv'
<1> DEFINE n == Len(m_list)
           it == Iterator(k)
<1>1. n \in Nat /\ m_list \in Seq(Key)
    BY DEF LruInv, LruTypeOK
<1>2. it \in 1..n /\ m_list[it] = k
    BY IteratorFacts DEF GetHit
<1>3. /\ m_list' \in Seq(Key) /\ Len(m_list') = n /\ m_list'[1] = k
      /\ \A i \in 1..(n - 1) : m_list'[i + 1] = IF i < it THEN m_list[i] ELSE m_list[i + 1]
    BY GetHitFacts
<1>4. Present' = Present
    BY DEF GetHit, Present
<1>5. /\ Present = {m_list[i] : i \in 1..n}
      /\ \A i, j \in 1..n : m_list[i] = m_list[j] => i = j
    BY DEF LruInv, ListMatchesMap
<1> HIDE DEF n, it
<1>6. \A i \in 1..n : m_list'[i] = IF i = 1 THEN k
                                 ELSE IF i - 1 < it THEN m_list[i - 1] ELSE m_list[i]
    BY <1>1, <1>3
<1>7. \A i, j \in 1..n : m_list'[i] = m_list'[j] => i = j
    BY <1>1, <1>2, <1>5, <1>6
<1>8. {m_list[i] : i \in 1..n} = {m_list'[i] : i \in 1..n}
    <2>1. ASSUME NEW i \in 1..n
          PROVE  \E j \in 1..n : m_list'[j] = m_list[i]
        <3>1. CASE i < it
            <4>1. i \in 1..(n - 1) /\ i + 1 \in 1..n
                BY <3>1, <1>1, <1>2
            <4> QED
                BY <4>1, <3>1, <1>3
        <3>2. CASE i = it
            BY <3>2, <1>1, <1>2, <1>6, 1 \in 1..n
        <3>3. CASE i > it
            BY <3>3, <1>1, <1>2, <1>6
        <3> QED
            BY <1>1, <1>2, <3>1, <3>2, <3>3
    <2>2. ASSUME NEW i \in 1..n
          PROVE  \E j \in 1..n : m_list[j] = m_list'[i]
        <3>1. CASE i = 1
            BY <3>1, <1>1, <1>2, <1>6
        <3>2. CASE i # 1 /\ i - 1 < it
            BY <3>2, <1>1, <1>2, <1>6, i - 1 \in 1..n
        <3>3. CASE i # 1 /\ ~(i - 1 < it)
            BY <3>3, <1>1, <1>2, <1>6
        <3> QED
            BY <3>1, <3>2, <3>3
    <2> QED
        BY <2>1, <2>2
<1> QED
    BY <1>3, <1>4, <1>5, <1>7, <1>8
       DEF LruInv, LruTypeOK, ListMatchesMap, GetHit, n

(* One lemma per operation: it keeps the list and the map in step. *)
LEMMA InsertWithRoomKeepsInv ==
    ASSUME LruInv, NEW k \in Key, NEW v \in Value, InsertWithRoom(k, v)
    PROVE  LruInv'
<1> DEFINE n == Len(m_list)
<1>1. n \in Nat /\ m_list \in Seq(Key)
    BY DEF LruInv, LruTypeOK
<1>2. /\ m_list' \in Seq(Key) /\ Len(m_list') = n + 1 /\ m_list'[1] = k
      /\ \A i \in 1..n : m_list'[i + 1] = m_list[i]
    BY InsertWithRoomFacts
<1>3. Present' = Present \cup {k} /\ k \notin Present
    BY MissingAssumption DEF InsertWithRoom, Present, LruInv, LruTypeOK
<1>4. /\ Present = {m_list[i] : i \in 1..n}
      /\ \A i, j \in 1..n : m_list[i] = m_list[j] => i = j
    BY DEF LruInv, ListMatchesMap
<1> HIDE DEF n
<1>5. \A i \in 1..(n + 1) : m_list'[i] = IF i = 1 THEN k ELSE m_list[i - 1]
    BY <1>1, <1>2
<1>6. \A i, j \in 1..(n + 1) : m_list'[i] = m_list'[j] => i = j
    BY <1>1, <1>3, <1>4, <1>5
<1>7. Present' = {m_list'[i] : i \in 1..(n + 1)}
    <2>1. \A i \in 1..n : i + 1 \in 1..(n + 1)
        BY <1>1
    <2>2. \A i \in 1..(n + 1) : i = 1 \/ i - 1 \in 1..n
        BY <1>1
    <2>3. 1 \in 1..(n + 1)
        BY <1>1
    <2> QED
        BY <2>1, <2>2, <2>3, <1>2, <1>3, <1>4, <1>5
<1> QED
    BY <1>2, <1>6, <1>7 DEF LruInv, LruTypeOK, ListMatchesMap, InsertWithRoom, n

(* evict erases the same key from the list and from the map. *)
LEMMA InsertEvictingKeepsInv ==
    ASSUME LruInv, NEW k \in Key, NEW v \in Value, InsertEvicting(k, v)
    PROVE  LruInv' /\ Present' = (Present \ {Last(m_list)}) \cup {k}
<1> DEFINE n == Len(m_list)
<1>1. n \in Nat /\ n > 0 /\ m_list \in Seq(Key)
    BY InsertEvictingFacts DEF LruInv, LruTypeOK
<1>2. /\ m_list' \in Seq(Key) /\ Len(m_list') = n /\ m_list'[1] = k
      /\ \A i \in 1..(n - 1) : m_list'[i + 1] = m_list[i]
      /\ Last(m_list) = m_list[n]
    BY InsertEvictingFacts
<1>3. /\ Present = {m_list[i] : i \in 1..n}
      /\ \A i, j \in 1..n : m_list[i] = m_list[j] => i = j
    BY DEF LruInv, ListMatchesMap
<1>4. /\ k \notin Present /\ m_list[n] \in Key /\ m_list[n] # k
      /\ Present' = (Present \ {m_list[n]}) \cup {k}
    <2>1. m_list[n] \in Present /\ m_list[n] \in Key
        BY <1>1, <1>3 DEF Present
    <2> QED
        BY <2>1, <1>2, MissingAssumption DEF InsertEvicting, Present, LruInv, LruTypeOK
<1> HIDE DEF n
<1>5. \A i \in 1..n : m_list'[i] = IF i = 1 THEN k ELSE m_list[i - 1]
    BY <1>1, <1>2
<1>6. \A i, j \in 1..n : m_list'[i] = m_list'[j] => i = j
    BY <1>1, <1>3, <1>4, <1>5
<1>7. Present' = {m_list'[i] : i \in 1..n}
    <2>1. \A i \in 1..n : i = n \/ (i \in 1..(n - 1) /\ i + 1 \in 1..n)
        BY <1>1
    <2>2. \A i \in 1..n : i = 1 \/ (i - 1 \in 1..n /\ i - 1 # n)
        BY <1>1
    <2>3. 1 \in 1..n /\ n \in 1..n
        BY <1>1
    <2>4. ASSUME NEW x \in Present' PROVE \E i \in 1..n : x = m_list'[i]
        BY <2>1, <2>3, <1>2, <1>3, <1>4
    <2>5. ASSUME NEW i \in 1..n PROVE m_list'[i] \in Present'
        BY <2>2, <2>3, <1>3, <1>4, <1>5
    <2> QED
        BY <2>4, <2>5
<1> QED
    BY <1>2, <1>4, <1>6, <1>7 DEF LruInv, LruTypeOK, ListMatchesMap, InsertEvicting, n

(* erase does so for the key it is given. *)
LEMMA EraseKeepsInv ==
    ASSUME LruInv, NEW k \in Present,
           m_list' = RemoveAt(m_list, Iterator(k)),
           m_map' = [m_map EXCEPT ![k] = Missing],
           UNCHANGED m_capacity
    PROVE  LruInv' /\ Present' = Present \ {k}
<1> DEFINE n == Len(m_list)
           it == Iterator(k)
<1>1. n \in Nat /\ m_list \in Seq(Key) /\ k \in Key
    BY DEF LruInv, LruTypeOK, Present
<1>2. it \in 1..n /\ m_list[it] = k
    BY IteratorFacts
<1>3. /\ m_list' \in Seq(Key) /\ Len(m_list') = n - 1
      /\ \A i \in 1..(n - 1) : m_list'[i] = IF i < it THEN m_list[i] ELSE m_list[i + 1]
    BY EraseFacts
<1>4. /\ Present = {m_list[i] : i \in 1..n}
      /\ \A i, j \in 1..n : m_list[i] = m_list[j] => i = j
    BY DEF LruInv, ListMatchesMap
<1>5. Present' = Present \ {k}
    BY <1>1 DEF Present, LruInv, LruTypeOK
<1> HIDE DEF n, it
<1>6. \A i, j \in 1..(n - 1) : m_list'[i] = m_list'[j] => i = j
    BY <1>1, <1>2, <1>3, <1>4
<1>7. ASSUME NEW x \in Present' PROVE \E i \in 1..(n - 1) : x = m_list'[i]
    <2>1. PICK i \in 1..n : x = m_list[i]
        BY <1>4, <1>5
    <2>2. i # it
        BY <2>1, <1>2, <1>5
    <2>3. CASE i < it
        BY <2>1, <2>3, <1>1, <1>2, <1>3
    <2>4. CASE i > it
        <3>1. i - 1 \in 1..(n - 1) /\ ~(i - 1 < it) /\ (i - 1) + 1 = i
            BY <2>4, <1>1, <1>2
        <3> QED
            BY <3>1, <2>1, <1>3
    <2> QED
        BY <1>1, <1>2, <2>2, <2>3, <2>4
<1>8. ASSUME NEW i \in 1..(n - 1) PROVE m_list'[i] \in Present'
    <2>1. CASE i < it
        <3>1. i \in 1..n /\ it \in 1..n /\ i # it
            BY <2>1, <1>1, <1>2
        <3> QED
            BY <3>1, <2>1, <1>2, <1>3, <1>4, <1>5
    <2>2. CASE ~(i < it)
        <3>1. i + 1 \in 1..n /\ i + 1 # it
            BY <2>2, <1>1, <1>2
        <3> QED
            BY <3>1, <2>2, <1>2, <1>3, <1>4, <1>5
    <2> QED
        BY <2>1, <2>2
<1>9. Present' = {m_list'[i] : i \in 1..(n - 1)}
    BY <1>7, <1>8
<1>10. m_map' \in [Key -> Value \cup {Missing}]
    BY <1>1 DEF LruInv, LruTypeOK
<1> QED
    BY <1>3, <1>5, <1>6, <1>9, <1>10 DEF LruInv, LruTypeOK, ListMatchesMap, n

(* clear empties both. *)
LEMMA ClearKeepsInv ==
    ASSUME LruInv, Clear
    PROVE  LruInv' /\ Present' = {} /\ m_list' = <<>>
<1>1. m_list' = <<>> /\ m_list' \in Seq(Key) /\ Len(m_list') = 0
    BY DEF Clear
<1>2. Present' = {}
    BY DEF Clear, Present
<1> QED
    BY <1>1, <1>2 DEF LruInv, LruTypeOK, ListMatchesMap, Clear

(* A miss, or an insert of a cached key, changes nothing. *)
LEMMA StutterKeepsInv ==
    ASSUME LruInv, UNCHANGED members
    PROVE  LruInv'
BY DEF LruInv, LruTypeOK, ListMatchesMap, Present, members

(* The invariant holds of a new cache ... *)
LEMMA LruInitInv == LruInit => LruInv
<1> SUFFICES ASSUME LruInit PROVE LruInv
    OBVIOUS
<1>1. m_list = <<>> /\ m_list \in Seq(Key) /\ Len(m_list) = 0
    BY DEF LruInit
<1>2. Present = {}
    BY DEF LruInit, Present
<1>3. LruTypeOK
    BY <1>1, CapacityAssumption DEF LruTypeOK, LruInit
<1> QED
    BY <1>1, <1>2, <1>3 DEF LruInv, ListMatchesMap

(* ... and every operation keeps it. *)
LEMMA LruStepInv == LruInv /\ [LruNext]_lruVars => LruInv'
<1> SUFFICES ASSUME LruInv, [LruNext]_lruVars PROVE LruInv'
    OBVIOUS
<1>1. ASSUME NEW k \in Key, NEW v \in Value, Insert(k, v) PROVE LruInv'
    BY <1>1, StutterKeepsInv, InsertWithRoomKeepsInv, InsertEvictingKeepsInv
       DEF Insert, InsertPresent
<1>2. ASSUME NEW k \in Key, Get(k) PROVE LruInv'
    BY <1>2, StutterKeepsInv, GetHitKeepsInv DEF Get, GetMiss
<1>3. ASSUME NEW k \in Key, Erase(k) PROVE LruInv'
    BY <1>3, StutterKeepsInv, EraseKeepsInv DEF Erase
<1>4. CASE Clear
    BY <1>4, ClearKeepsInv
<1>5. ASSUME NEW c \in 0..Capacity, ResetCapacity(c) PROVE LruInv'
    BY <1>5, CapacityAssumption
       DEF ResetCapacity, LruInv, LruTypeOK, ListMatchesMap, Present
<1>6. CASE UNCHANGED lruVars
    BY <1>6, StutterKeepsInv DEF lruVars
<1>7. ASSUME NEW k \in Key, InsertEvictingNothing(k) PROVE LruInv'
    BY <1>7, StutterKeepsInv DEF InsertEvictingNothing
<1> QED
    BY <1>1, <1>2, <1>3, <1>4, <1>5, <1>6, <1>7 DEF LruNext, Call

(* lru_cache keeps its types: every list node is a key, every map entry a    *)
(* value, whatever capacity reset_capacity is given.                         *)
THEOREM LruTypeCorrect == LruSpec => []LruTypeOK
BY LruInitInv, LruStepInv, PTL DEF LruSpec, LruInv

(* The map and the list of lru_cache agree after any sequence of calls, so   *)
(* the iterator get and erase follow always points to the key's own node.    *)
THEOREM LruListMatchesMap == LruSpec => []ListMatchesMap
BY LruInitInv, LruStepInv, PTL DEF LruSpec, LruInv

(* evict() runs on an empty list only with capacity 0: the map that insert   *)
(* measures has as many keys as the list evict() takes the last one of.      *)
THEOREM LruEvictsNothingOnlyAtZero == LruSpec => []EvictsNothingOnlyAtZero
<1>1. LruInit => EvictsNothingOnlyAtZero
    BY DEF LruInit, EvictsNothingOnlyAtZero
<1>2. LruInv /\ EvictsNothingOnlyAtZero /\ [LruNext]_lruVars => EvictsNothingOnlyAtZero'
    <2> SUFFICES ASSUME LruInv, EvictsNothingOnlyAtZero, [LruNext]_lruVars
                 PROVE  EvictsNothingOnlyAtZero'
        OBVIOUS
    <2>1. ASSUME NEW k \in Key, InsertEvictingNothing(k) PROVE EvictsNothingOnlyAtZero'
        <3>1. size = 0 /\ m_capacity \in Nat
            BY <2>1, SizeIsLength, Len(<<>>) = 0 DEF InsertEvictingNothing, LruInv, LruTypeOK
        <3> QED
            BY <2>1, <3>1 DEF InsertEvictingNothing, members, Full, EvictsNothingOnlyAtZero
    <2>2. CASE UNCHANGED lruVars
        BY <2>2 DEF lruVars, members, EvictsNothingOnlyAtZero
    <2>3. CASE ~corrupt /\ Call /\ UNCHANGED corrupt
        BY <2>3 DEF EvictsNothingOnlyAtZero
    <2> QED
        BY <2>1, <2>2, <2>3 DEF LruNext
<1> QED
    BY <1>1, <1>2, LruInitInv, LruStepInv, PTL DEF LruSpec

(* No insert grows lru_cache past the capacity in force, whatever            *)
(* reset_capacity did before.                                                *)
THEOREM LruGrowsWithinCapacity == LruSpec => GrowsWithinCapacity
<1> DEFINE Grow == Len(m_list') > Len(m_list) => Len(m_list') <= m_capacity'
<1>1. LruInv /\ [LruNext]_lruVars => [Grow]_lruVars
    <2> SUFFICES ASSUME LruInv, LruNext PROVE Grow
        OBVIOUS
    <2>0. Len(m_list) \in Nat /\ m_capacity \in Nat
        BY DEF LruInv, LruTypeOK
    <2>1. ASSUME UNCHANGED m_list PROVE Grow
        BY <2>0, <2>1
    <2>2. ASSUME NEW k \in Key, NEW v \in Value, Insert(k, v) PROVE Grow
        <3>1. CASE InsertPresent(k)
            BY <3>1, <2>1 DEF InsertPresent, members
        <3>2. CASE InsertWithRoom(k, v)
            <4>1. Len(m_list') = Len(m_list) + 1 /\ Len(m_list) < m_capacity
                BY <3>2, InsertWithRoomFacts
            <4>2. m_capacity' = m_capacity
                BY <3>2 DEF InsertWithRoom
            <4> QED
                BY <4>1, <4>2, <2>0
        <3>3. CASE InsertEvicting(k, v)
            BY <3>3, <2>0, InsertEvictingFacts
        <3> QED
            BY <2>2, <3>1, <3>2, <3>3 DEF Insert
    <2>3. ASSUME NEW k \in Key, Get(k) PROVE Grow
        <3>1. CASE GetMiss(k)
            BY <3>1, <2>1 DEF GetMiss, members
        <3>2. CASE GetHit(k)
            BY <3>2, <2>0, GetHitFacts
        <3> QED
            BY <2>3, <3>1, <3>2 DEF Get
    <2>4. ASSUME NEW k \in Key, Erase(k) PROVE Grow
        <3>1. CASE k \notin Present
            BY <3>1, <2>4, <2>1 DEF Erase, members
        <3>2. CASE k \in Present
            BY <3>2, <2>4, <2>0, EraseFacts DEF Erase
        <3> QED
            BY <3>1, <3>2
    <2>5. ASSUME Clear PROVE Grow
        BY <2>5, <2>0, Len(<<>>) = 0 DEF Clear
    <2>6. ASSUME NEW c \in 0..Capacity, ResetCapacity(c) PROVE Grow
        BY <2>6, <2>1 DEF ResetCapacity
    <2>7. ASSUME NEW k \in Key, InsertEvictingNothing(k) PROVE Grow
        BY <2>7, <2>1 DEF InsertEvictingNothing, members
    <2> QED
        BY <2>2, <2>3, <2>4, <2>5, <2>6, <2>7 DEF LruNext, Call
<1> QED
    BY <1>1, LruInitInv, LruStepInv, PTL DEF LruSpec, GrowsWithinCapacity

-----------------------------------------------------------------------------
(* Refinement: the list order is the use order of RecencyCache. *)

(* a was used before b exactly when a is behind b in the list. *)
OrderFollowsList ==
    /\ UsedBefore \subseteq Key \X Key
    /\ \A a, b : <<a, b>> \in UsedBefore <=>
          \E i, j \in 1..Len(m_list) : i < j /\ a = m_list[j] /\ b = m_list[i]

(* The use order relates the keys as their places in the list do. *)
LEMMA UsedBeforeFacts == LruInv => OrderFollowsList
<1> SUFFICES ASSUME LruInv PROVE OrderFollowsList
    OBVIOUS
<1>1. \A i \in 1..Len(m_list) : m_list[i] \in Key
    BY DEF LruInv, LruTypeOK
<1>2. UsedBefore \subseteq Key \X Key
    BY <1>1 DEF UsedBefore
<1>3. ASSUME NEW a, NEW b, <<a, b>> \in UsedBefore
      PROVE  \E i, j \in 1..Len(m_list) : i < j /\ a = m_list[j] /\ b = m_list[i]
    BY <1>3 DEF UsedBefore
<1>4. ASSUME NEW i \in 1..Len(m_list), NEW j \in 1..Len(m_list), i < j
      PROVE  <<m_list[j], m_list[i]>> \in UsedBefore
    <2>1. <<i, j>> \in {p \in (1..Len(m_list)) \X (1..Len(m_list)) : p[1] < p[2]}
        BY <1>4
    <2> QED
        BY <2>1 DEF UsedBefore
<1> QED
    BY <1>2, <1>3, <1>4 DEF OrderFollowsList

(* The same after a step. *)
LEMMA UsedBeforeFactsNext == LruInv' => OrderFollowsList'
BY UsedBeforeFacts, PTL

(* A call that puts k first and keeps the order of the other keys of S is a  *)
(* use of k in the abstract cache.                                           *)
LEMMA OrderAfterUse ==
    ASSUME LruInv, LruInv', NEW k \in Key, NEW S, Present' = S,
           Len(m_list') > 0, m_list'[1] = k,
           \A a, b \in S \ {k} : <<a, b>> \in UsedBefore' <=> <<a, b>> \in UsedBefore
    PROVE  UsedBefore' = Abs!UseOrder(S, k)
<1> DEFINE n == Len(m_list')
<1>1. n \in Nat /\ 1 \in 1..n
    BY DEF LruInv, LruTypeOK
<1>2. S = {m_list'[i] : i \in 1..n} /\ \A i, j \in 1..n : m_list'[i] = m_list'[j] => i = j
    BY DEF LruInv, ListMatchesMap
<1>3. /\ UsedBefore' \subseteq Key \X Key
      /\ \A a, b : <<a, b>> \in UsedBefore' <=>
            \E i, j \in 1..n : i < j /\ a = m_list'[j] /\ b = m_list'[i]
    BY UsedBeforeFactsNext DEF OrderFollowsList
<1> HIDE DEF n
<1>4. ASSUME NEW a, NEW b, <<a, b>> \in UsedBefore'
      PROVE  a \in S \ {k} /\ b \in S
    <2>1. PICK i, j \in 1..n : i < j /\ a = m_list'[j] /\ b = m_list'[i]
        BY <1>3, <1>4
    <2>2. j # 1
        BY <2>1, <1>1
    <2> QED
        BY <2>1, <2>2, <1>1, <1>2
<1>5. ASSUME NEW a \in S \ {k} PROVE <<a, k>> \in UsedBefore'
    <2>1. PICK j \in 1..n : a = m_list'[j]
        BY <1>2
    <2>2. 1 < j
        BY <2>1, <1>1
    <2> QED
        BY <2>1, <2>2, <1>1, <1>3
<1>6. UsedBefore \subseteq Key \X Key
    BY UsedBeforeFacts DEF OrderFollowsList
<1>7. ASSUME NEW q \in UsedBefore' PROVE q \in Abs!UseOrder(S, k)
    <2>1. PICK a \in Key, b \in Key : q = <<a, b>>
        BY <1>3
    <2>2. a \in S \ {k} /\ b \in S
        BY <2>1, <1>4
    <2>3. CASE b = k
        BY <2>1, <2>2, <2>3 DEF Abs!UseOrder
    <2>4. CASE b # k
        BY <2>1, <2>2, <2>4 DEF Abs!UseOrder
    <2> QED
        BY <2>3, <2>4
<1>8. ASSUME NEW q \in Abs!UseOrder(S, k) PROVE q \in UsedBefore'
    <2>1. CASE \E x \in S \ {k} : q = <<x, k>>
        BY <2>1, <1>5
    <2>2. CASE q \in UsedBefore /\ q[1] \in S \ {k} /\ q[2] \in S \ {k}
        <3>1. PICK a \in Key, b \in Key : q = <<a, b>>
            BY <2>2, <1>6
        <3> QED
            BY <2>2, <3>1
    <2> QED
        BY <1>8, <2>1, <2>2 DEF Abs!UseOrder
<1> QED
    BY <1>7, <1>8

(* get of a cached key is a use of the key. *)
LEMMA GetHitRefines ==
    ASSUME LruInv, NEW k \in Key, GetHit(k)
    PROVE  Abs!Use(k)
<1> DEFINE n == Len(m_list)
           it == Iterator(k)
<1>1. LruInv' /\ k \in Present /\ Present' = Present
    BY GetHitKeepsInv DEF GetHit, Present
<1>2. /\ n \in Nat /\ it \in 1..n /\ m_list[it] = k
      /\ \A i, j \in 1..n : m_list[i] = m_list[j] => i = j
    BY <1>1, IteratorFacts DEF LruInv, LruTypeOK, ListMatchesMap
<1>3. /\ Len(m_list') = n /\ m_list'[1] = k
      /\ \A i \in 1..(n - 1) : m_list'[i + 1] = IF i < it THEN m_list[i] ELSE m_list[i + 1]
    BY GetHitFacts
<1>4. /\ \A a, b : <<a, b>> \in UsedBefore <=>
            \E i, j \in 1..n : i < j /\ a = m_list[j] /\ b = m_list[i]
      /\ \A a, b : <<a, b>> \in UsedBefore' <=>
            \E i, j \in 1..n : i < j /\ a = m_list'[j] /\ b = m_list'[i]
    <2>1. OrderFollowsList /\ OrderFollowsList' /\ Len(m_list') = n
        BY <1>1, <1>3, UsedBeforeFacts, UsedBeforeFactsNext
    <2>2. \A a, b : <<a, b>> \in UsedBefore' <=>
            \E i, j \in 1..Len(m_list') : i < j /\ a = m_list'[j] /\ b = m_list'[i]
        BY <2>1 DEF OrderFollowsList
    <2>3. 1..Len(m_list') = 1..n
        BY <2>1
    <2> QED
        BY <2>1, <2>2, <2>3 DEF OrderFollowsList
<1> HIDE DEF n, it
<1>5. ASSUME NEW a \in Present \ {k}, NEW b \in Present \ {k}, <<a, b>> \in UsedBefore'
      PROVE  <<a, b>> \in UsedBefore
    <2>1. PICK i, j \in 1..n : i < j /\ a = m_list'[j] /\ b = m_list'[i]
        BY <1>4, <1>5
    <2>2. i > 1 /\ j > 1
        BY <2>1, <1>3, <1>2
    <2> DEFINE g(x) == IF x - 1 < it THEN x - 1 ELSE x
    <2>3. g(i) \in 1..n /\ g(j) \in 1..n /\ g(i) < g(j)
        BY <2>1, <2>2, <1>2
    <2>4. a = m_list[g(j)] /\ b = m_list[g(i)]
        <3>1. /\ i - 1 \in 1..(n - 1) /\ (i - 1) + 1 = i
              /\ j - 1 \in 1..(n - 1) /\ (j - 1) + 1 = j
            BY <2>1, <2>2, <1>2
        <3> QED
            BY <3>1, <2>1, <1>3
    <2> QED
        BY <2>3, <2>4, <1>4
<1>6. ASSUME NEW a \in Present \ {k}, NEW b \in Present \ {k}, <<a, b>> \in UsedBefore
      PROVE  <<a, b>> \in UsedBefore'
    <2>1. PICK i, j \in 1..n : i < j /\ a = m_list[j] /\ b = m_list[i]
        BY <1>4, <1>6
    <2>2. i # it /\ j # it
        BY <2>1, <1>2
    <2> DEFINE h(x) == IF x < it THEN x + 1 ELSE x
    <2>3. h(i) \in 1..n /\ h(j) \in 1..n /\ h(i) < h(j)
        BY <2>1, <2>2, <1>2
    <2>4. ASSUME NEW x \in 1..n, x # it PROVE m_list'[h(x)] = m_list[x]
        <3>1. CASE x < it
            <4>1. x \in 1..(n - 1)
                BY <3>1, <1>2
            <4> QED
                BY <4>1, <3>1, <1>3
        <3>2. CASE x > it
            <4>1. x - 1 \in 1..(n - 1) /\ ~(x - 1 < it) /\ (x - 1) + 1 = x /\ ~(x < it)
                BY <3>2, <1>2
            <4> QED
                BY <4>1, <1>3
        <3> QED
            BY <3>1, <3>2, <2>4, <1>2
    <2>5. a = m_list'[h(j)] /\ b = m_list'[h(i)]
        BY <2>1, <2>2, <2>4
    <2> QED
        BY <2>3, <2>5, <1>4
<1>7. UsedBefore' = Abs!UseOrder(Present, k)
    <2>1. Len(m_list') > 0
        BY <1>2, <1>3
    <2> QED
        BY <1>1, <1>3, <1>5, <1>6, <2>1, OrderAfterUse
<1> QED
    BY <1>1, <1>7 DEF Abs!Use, Abs!Cached, Present, GetHit

(* The abstract cache is full when lru_cache::size() says so. *)
LEMMA SameCount == Abs!Cardinality(Abs!Cached) = size
BY DEF Abs!Cardinality, Cardinality, Abs!Cached, Present, size

(* insert with room left adds the key as the most recently used one. *)
LEMMA InsertWithRoomRefines ==
    ASSUME LruInv, NEW k \in Key, NEW v \in Value, InsertWithRoom(k, v)
    PROVE  Abs!AddWithRoom(k, v)
<1> DEFINE n == Len(m_list)
<1>1. LruInv' /\ k \notin Present /\ Present' = Present \cup {k}
    BY InsertWithRoomKeepsInv, MissingAssumption
       DEF InsertWithRoom, Present, LruInv, LruTypeOK
<1>2. n \in Nat
    BY DEF LruInv, LruTypeOK
<1>3. /\ Len(m_list') = n + 1 /\ m_list'[1] = k
      /\ \A i \in 1..n : m_list'[i + 1] = m_list[i]
    BY InsertWithRoomFacts
<1>4. /\ \A a, b : <<a, b>> \in UsedBefore <=>
            \E i, j \in 1..n : i < j /\ a = m_list[j] /\ b = m_list[i]
      /\ \A a, b : <<a, b>> \in UsedBefore' <=>
            \E i, j \in 1..(n + 1) : i < j /\ a = m_list'[j] /\ b = m_list'[i]
    <2>1. OrderFollowsList /\ OrderFollowsList' /\ Len(m_list') = n + 1
        BY <1>1, <1>3, UsedBeforeFacts, UsedBeforeFactsNext
    <2>2. \A a, b : <<a, b>> \in UsedBefore' <=>
            \E i, j \in 1..Len(m_list') : i < j /\ a = m_list'[j] /\ b = m_list'[i]
        BY <2>1 DEF OrderFollowsList
    <2>3. 1..Len(m_list') = 1..(n + 1)
        BY <2>1
    <2> QED
        BY <2>1, <2>2, <2>3 DEF OrderFollowsList
<1> HIDE DEF n
<1>5. ASSUME NEW a \in Present, NEW b \in Present, <<a, b>> \in UsedBefore'
      PROVE  <<a, b>> \in UsedBefore
    <2>1. PICK i, j \in 1..(n + 1) : i < j /\ a = m_list'[j] /\ b = m_list'[i]
        BY <1>4, <1>5
    <2>2. i > 1 /\ j > 1
        BY <2>1, <1>1, <1>3, <1>2
    <2>3. /\ i - 1 \in 1..n /\ (i - 1) + 1 = i
          /\ j - 1 \in 1..n /\ (j - 1) + 1 = j /\ i - 1 < j - 1
        BY <2>1, <2>2, <1>2
    <2> QED
        BY <2>1, <2>3, <1>3, <1>4
<1>6. ASSUME NEW a \in Present, NEW b \in Present, <<a, b>> \in UsedBefore
      PROVE  <<a, b>> \in UsedBefore'
    <2>1. PICK i, j \in 1..n : i < j /\ a = m_list[j] /\ b = m_list[i]
        BY <1>4, <1>6
    <2>2. i + 1 \in 1..(n + 1) /\ j + 1 \in 1..(n + 1) /\ i + 1 < j + 1
        BY <2>1, <1>2
    <2> QED
        BY <2>1, <2>2, <1>3, <1>4
<1>7. UsedBefore' = Abs!UseOrder(Present \cup {k}, k)
    <2>1. Len(m_list') > 0
        BY <1>2, <1>3
    <2>2. (Present \cup {k}) \ {k} = Present
        BY <1>1
    <2> QED
        BY <1>1, <1>3, <1>5, <1>6, <2>1, <2>2, OrderAfterUse
<1>8. /\ size < m_capacity
      /\ m_map' = [m_map EXCEPT ![k] = v] /\ UNCHANGED m_capacity
    <2>1. Len(m_list) < m_capacity
        BY InsertWithRoomFacts
    <2>2. size = Len(m_list)
        BY SizeIsLength DEF LruInv
    <2>3. m_map' = [m_map EXCEPT ![k] = v] /\ UNCHANGED m_capacity
        BY DEF InsertWithRoom
    <2> QED
        BY <2>1, <2>2, <2>3, Zenon
<1> QED
    BY <1>1, <1>7, <1>8, SameCount DEF Abs!AddWithRoom, Abs!Cached, Present

(* insert into a full cache replaces the least recently used key. *)
LEMMA InsertEvictingRefines ==
    ASSUME LruInv, NEW k \in Key, NEW v \in Value, InsertEvicting(k, v)
    PROVE  Abs!AddByReplacing(k, v)
<1> DEFINE n == Len(m_list)
           old == Last(m_list)
<1>1. LruInv' /\ k \notin Present /\ Present' = (Present \ {old}) \cup {k}
    BY InsertEvictingKeepsInv DEF InsertEvicting
<1>2. n \in Nat /\ n > 0
    BY InsertEvictingFacts DEF LruInv, LruTypeOK
<1>3. /\ Len(m_list') = n /\ m_list'[1] = k /\ old = m_list[n]
      /\ \A i \in 1..(n - 1) : m_list'[i + 1] = m_list[i]
    BY InsertEvictingFacts
<1>4. /\ \A a, b : <<a, b>> \in UsedBefore <=>
            \E i, j \in 1..n : i < j /\ a = m_list[j] /\ b = m_list[i]
      /\ \A a, b : <<a, b>> \in UsedBefore' <=>
            \E i, j \in 1..n : i < j /\ a = m_list'[j] /\ b = m_list'[i]
    <2>1. OrderFollowsList /\ OrderFollowsList' /\ Len(m_list') = n
        BY <1>1, <1>3, UsedBeforeFacts, UsedBeforeFactsNext
    <2>2. \A a, b : <<a, b>> \in UsedBefore' <=>
            \E i, j \in 1..Len(m_list') : i < j /\ a = m_list'[j] /\ b = m_list'[i]
        BY <2>1 DEF OrderFollowsList
    <2>3. 1..Len(m_list') = 1..n
        BY <2>1
    <2> QED
        BY <2>1, <2>2, <2>3 DEF OrderFollowsList
<1>5. Present = {m_list[i] : i \in 1..n} /\ Present \subseteq Key
    BY DEF LruInv, ListMatchesMap, Present
<1>5a. \A i, j \in 1..n : m_list[i] = m_list[j] => i = j
    BY DEF LruInv, ListMatchesMap
<1>6. m_map' = [m_map EXCEPT ![old] = Missing, ![k] = v] /\ size >= m_capacity
    BY DEF InsertEvicting, Full
<1> HIDE DEF n, old
<1>7. ASSUME NEW a \in Present \ {old}, NEW b \in Present \ {old}, <<a, b>> \in UsedBefore'
      PROVE  <<a, b>> \in UsedBefore
    <2>1. PICK i, j \in 1..n : i < j /\ a = m_list'[j] /\ b = m_list'[i]
        BY <1>4, <1>7
    <2>2. i > 1 /\ j > 1
        BY <2>1, <1>1, <1>3, <1>2
    <2>3. /\ i - 1 \in 1..(n - 1) /\ (i - 1) + 1 = i /\ i - 1 \in 1..n
          /\ j - 1 \in 1..(n - 1) /\ (j - 1) + 1 = j /\ j - 1 \in 1..n /\ i - 1 < j - 1
        BY <2>1, <2>2, <1>2
    <2> QED
        BY <2>1, <2>3, <1>3, <1>4
<1>8. ASSUME NEW a \in Present \ {old}, NEW b \in Present \ {old}, <<a, b>> \in UsedBefore
      PROVE  <<a, b>> \in UsedBefore'
    <2>1. PICK i, j \in 1..n : i < j /\ a = m_list[j] /\ b = m_list[i]
        BY <1>4, <1>8
    <2>2. i # n /\ j # n
        BY <2>1, <1>3
    <2>3. /\ i \in 1..(n - 1) /\ j \in 1..(n - 1)
          /\ i + 1 \in 1..n /\ j + 1 \in 1..n /\ i + 1 < j + 1
        BY <2>1, <2>2, <1>2
    <2> QED
        BY <2>1, <2>3, <1>3, <1>4
<1>9. UsedBefore' = Abs!UseOrder((Present \ {old}) \cup {k}, k)
    <2>1. Len(m_list') > 0
        BY <1>2, <1>3
    <2>2. ((Present \ {old}) \cup {k}) \ {k} = Present \ {old}
        BY <1>1
    <2> QED
        BY <1>1, <1>3, <1>7, <1>8, <2>1, <2>2, OrderAfterUse
<1>10. old \in Present /\ \A x \in Present \ {old} : <<old, x>> \in UsedBefore
    <2>1. n \in 1..n
        BY <1>2
    <2>2. ASSUME NEW x \in Present \ {old} PROVE <<old, x>> \in UsedBefore
        <3>1. PICK i \in 1..n : x = m_list[i]
            BY <1>5
        <3>2. i < n
            BY <3>1, <1>2, <1>3
        <3> QED
            BY <3>1, <3>2, <2>1, <1>3, <1>4
    <2> QED
        BY <2>1, <2>2, <1>3, <1>5
<1>11. Abs!IsLeastRecent(old)
    BY <1>10 DEF Abs!IsLeastRecent, Abs!Cached, Present
<1>12. /\ k \notin Abs!Cached /\ Abs!Cardinality(Abs!Cached) >= m_capacity
       /\ UsedBefore' = Abs!UseOrder((Abs!Cached \ {old}) \cup {k}, k)
       /\ UNCHANGED m_capacity
    BY <1>1, <1>6, <1>9, SameCount DEF Abs!Cached, Present, InsertEvicting
<1>13. old \in Key
    BY <1>5, <1>10
<1> QED
    BY <1>6, <1>11, <1>12, <1>13 DEF Abs!AddByReplacing

(* erase of a cached key drops the key and keeps the order of the others. *)
LEMMA EraseRefines ==
    ASSUME LruInv, NEW k \in Key, k \in Present, Erase(k)
    PROVE  Abs!Drop(k)
<1> DEFINE n == Len(m_list)
           it == Iterator(k)
           m == Len(m_list')
<1>1. /\ m_list' = RemoveAt(m_list, Iterator(k)) /\ UNCHANGED m_capacity
      /\ m_map' = [m_map EXCEPT ![k] = Missing]
    BY DEF Erase
<1>2. LruInv' /\ Present' = Present \ {k}
    BY <1>1, EraseKeepsInv
<1>3. /\ n \in Nat /\ it \in 1..n /\ m_list[it] = k
      /\ \A i, j \in 1..n : m_list[i] = m_list[j] => i = j
    BY IteratorFacts DEF LruInv, LruTypeOK, ListMatchesMap
<1>4. /\ m = n - 1
      /\ \A i \in 1..m : m_list'[i] = IF i < it THEN m_list[i] ELSE m_list[i + 1]
    BY <1>1, EraseFacts
<1>5. /\ OrderFollowsList /\ OrderFollowsList'
      /\ UsedBefore \subseteq Key \X Key /\ UsedBefore' \subseteq Key \X Key
    BY <1>2, UsedBeforeFacts, UsedBeforeFactsNext DEF OrderFollowsList
<1>6. \A a, b : <<a, b>> \in UsedBefore <=>
            \E i, j \in 1..n : i < j /\ a = m_list[j] /\ b = m_list[i]
    BY <1>5 DEF OrderFollowsList
<1>7. \A a, b : <<a, b>> \in UsedBefore' <=>
            \E i, j \in 1..m : i < j /\ a = m_list'[j] /\ b = m_list'[i]
    BY <1>5 DEF OrderFollowsList
<1> HIDE DEF n, it, m
<1>8. ASSUME NEW a, NEW b, <<a, b>> \in UsedBefore'
      PROVE  <<a, b>> \in UsedBefore /\ a # k /\ b # k
    <2>1. PICK i, j \in 1..m : i < j /\ a = m_list'[j] /\ b = m_list'[i]
        BY <1>7, <1>8
    <2> DEFINE g(x) == IF x < it THEN x ELSE x + 1
    <2>2. g(i) \in 1..n /\ g(j) \in 1..n /\ g(i) < g(j) /\ g(i) # it /\ g(j) # it
        BY <2>1, <1>3, <1>4
    <2>3. a = m_list[g(j)] /\ b = m_list[g(i)]
        BY <2>1, <1>4
    <2> HIDE DEF g
    <2> QED
        BY <2>2, <2>3, <1>3, <1>6
<1>9. ASSUME NEW a, NEW b, <<a, b>> \in UsedBefore, a # k, b # k
      PROVE  <<a, b>> \in UsedBefore'
    <2>1. PICK i, j \in 1..n : i < j /\ a = m_list[j] /\ b = m_list[i]
        BY <1>6, <1>9
    <2>2. i # it /\ j # it
        BY <2>1, <1>9, <1>3
    <2> DEFINE h(x) == IF x < it THEN x ELSE x - 1
    <2>3. h(i) \in 1..m /\ h(j) \in 1..m /\ h(i) < h(j)
        BY <2>1, <2>2, <1>3, <1>4
    <2>4. ASSUME NEW x \in 1..n, x # it PROVE m_list'[h(x)] = m_list[x]
        <3>1. CASE x < it
            <4>1. x \in 1..m
                BY <3>1, <1>3, <1>4
            <4> QED
                BY <4>1, <3>1, <1>4
        <3>2. CASE x > it
            <4>1. x - 1 \in 1..m /\ ~(x - 1 < it) /\ (x - 1) + 1 = x /\ ~(x < it)
                BY <3>2, <1>3, <1>4
            <4> QED
                BY <4>1, <1>4
        <3> QED
            BY <3>1, <3>2, <2>4, <1>3
    <2>5. a = m_list'[h(j)] /\ b = m_list'[h(i)]
        BY <2>1, <2>2, <2>4
    <2> HIDE DEF h
    <2> QED
        BY <2>3, <2>5, <1>7
<1>10. UsedBefore' = {p \in UsedBefore : p[1] # k /\ p[2] # k}
    <2>1. ASSUME NEW q \in UsedBefore' PROVE q \in UsedBefore /\ q[1] # k /\ q[2] # k
        <3>1. PICK a \in Key, b \in Key : q = <<a, b>>
            BY <1>5
        <3> QED
            BY <3>1, <1>8
    <2>2. ASSUME NEW q \in UsedBefore, q[1] # k, q[2] # k PROVE q \in UsedBefore'
        <3>1. PICK a \in Key, b \in Key : q = <<a, b>>
            BY <1>5
        <3> QED
            BY <3>1, <2>2, <1>9
    <2> QED
        BY <2>1, <2>2
<1> QED
    BY <1>1, <1>10 DEF Abs!Drop

(* A new cache is an empty abstract one. *)
LEMMA LruInitRefines == LruInit => Abs!AbsInit
<1> SUFFICES ASSUME LruInit PROVE Abs!AbsInit
    OBVIOUS
<1>1. OrderFollowsList /\ Len(m_list) = 0
    BY LruInitInv, UsedBeforeFacts DEF LruInit
<1>2. UsedBefore = {}
    BY <1>1, Len(m_list) = 0 DEF UsedBefore
<1> QED
    BY <1>2, CapacityAssumption DEF LruInit, Abs!AbsInit

(* Every operation of lru_cache is an operation of the abstract cache. *)
LEMMA LruStepRefines == LruInv /\ [LruNext]_lruVars => [Abs!AbsNext]_(Abs!absVars)
<1> SUFFICES ASSUME LruInv, [LruNext]_lruVars PROVE [Abs!AbsNext]_(Abs!absVars)
    OBVIOUS
<1>0. ASSUME UNCHANGED members PROVE UNCHANGED Abs!absVars
    BY <1>0 DEF members, Abs!absVars, UsedBefore
<1>1. ASSUME NEW k \in Key, NEW v \in Value, Insert(k, v)
      PROVE  [Abs!AbsNext]_(Abs!absVars)
    BY <1>1, <1>0, InsertWithRoomRefines, InsertEvictingRefines
       DEF Insert, InsertPresent, Abs!AbsNext
<1>2. ASSUME NEW k \in Key, Get(k) PROVE [Abs!AbsNext]_(Abs!absVars)
    BY <1>2, <1>0, GetHitRefines DEF Get, GetMiss, Abs!AbsNext
<1>3. ASSUME NEW k \in Key, Erase(k) PROVE [Abs!AbsNext]_(Abs!absVars)
    <2>1. CASE k \in Present
        BY <2>1, <1>3, EraseRefines DEF Abs!AbsNext
    <2>2. CASE k \notin Present
        BY <2>2, <1>3, <1>0 DEF Erase
    <2> QED
        BY <2>1, <2>2
<1>4. CASE Clear
    <2>1. Len(m_list') = 0
        BY <1>4, Len(<<>>) = 0 DEF Clear
    <2>2. UsedBefore' = {}
        BY <2>1 DEF UsedBefore
    <2> QED
        BY <1>4, <2>2 DEF Clear, Abs!AbsNext, Abs!DropAll
<1>5. ASSUME NEW c \in 0..Capacity, ResetCapacity(c) PROVE [Abs!AbsNext]_(Abs!absVars)
    BY <1>5, CapacityAssumption DEF ResetCapacity, Abs!AbsNext, Abs!SetLimit, UsedBefore
<1>6. ASSUME NEW k \in Key, InsertEvictingNothing(k) PROVE [Abs!AbsNext]_(Abs!absVars)
    BY <1>6, <1>0 DEF InsertEvictingNothing
<1>7. CASE UNCHANGED lruVars
    BY <1>7, <1>0 DEF lruVars
<1> QED
    BY <1>1, <1>2, <1>3, <1>4, <1>5, <1>6, <1>7 DEF LruNext, Call

(* lru_cache implements the cache its header comment promises: whatever the  *)
(* calls, the item that insert evicts is the least recently used one.        *)
THEOREM LruEvictsLeastRecentlyUsed == LruSpec => EvictsLeastRecentlyUsed
BY LruInitInv, LruStepInv, LruInitRefines, LruStepRefines, PTL
   DEF LruSpec, EvictsLeastRecentlyUsed, Abs!AbsSpec
=============================================================================
