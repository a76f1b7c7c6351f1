-------------------------- MODULE FollyArena_proofs -------------------------
(***************************************************************************)
(* What allocate() hands out, proved for every number of blocks, request,   *)
(* block size, limit, alignment and width of size_t.                        *)
(***************************************************************************)
EXTENDS FollyArena, FiniteSetTheorems, WellFoundedInduction, TLAPS

ArenaInv == ArenaTypeOK /\ BlocksSeparate /\ LivePlaced /\ LiveDisjoint

(* roundUp returns a size of at least the request, for any alignment. *)
LEMMA RoundUpFacts ==
    ASSUME NEW n \in Nat
    PROVE  roundUp(n) \in Nat /\ roundUp(n) >= n
<1> DEFINE a == maxAlign_
           k == n + a - 1
           q == k \div a
<1>1. a \in Nat /\ a > 0 /\ k \in Nat
  BY ArenaAssumption
<1>2. q \in Nat /\ k % a \in 0..(a - 1) /\ k = a * q + (k % a)
  <2> HIDE DEF a, k
  <2> QED BY <1>1 DEF q
<1>3. q * a \in Nat /\ q * a = a * q
  <2> HIDE DEF a, q
  <2> QED BY <1>1, <1>2
<1>4. q * a >= n
  <2>1. k = n + a - 1
    OBVIOUS
  <2> HIDE DEF k
  <2> DEFINE p == a * q   r == k % a
  <2>2. p \in Nat /\ k = p + r /\ r <= a - 1
    <3> HIDE DEF a, q
    <3> QED BY <1>1, <1>2, <1>3
  <2>3. r \in Nat
    BY <1>1, <1>2
  <2> HIDE DEF a, p, r
  <2>4. p >= n
    BY <1>1, <2>1, <2>2, <2>3
  <2> QED BY <2>4, <1>3 DEF p
<1> QED BY <1>3, <1>4 DEF roundUp

(* bytesUsed_ is a size_t after any increment. *)
LEMMA AddUsedFacts ==
    ASSUME ArenaTypeOK, NEW s \in Nat, AddUsed(s)
    PROVE  bytesUsed_' \in 0..SizeMax
<1> DEFINE x == bytesUsed_ + s   w == SizeMax + 1
<1>1. x \in Nat /\ w \in Nat /\ w > 0
  BY ArenaAssumption DEF ArenaTypeOK
<1>2. x % w \in 0..(w - 1)
  <2> HIDE DEF x, w
  <2> QED BY <1>1
<1>3. bytesUsed_' = x % w
  BY DEF AddUsed
<1> HIDE DEF x
<1> QED BY <1>2, <1>3, ArenaAssumption

(* The constructor's state satisfies the invariant. *)
LEMMA ArenaInitInv == ArenaInit => ArenaInv
BY ArenaAssumption DEF ArenaInit, ArenaInv, ArenaTypeOK, BlocksSeparate, LivePlaced, LiveDisjoint

(* The fast path takes bytes above every allocation of the current block. *)
LEMMA FastKeepsInv ==
    ASSUME ArenaInv, NEW n \in Request, AllocateFast(n)
    PROVE  ArenaInv'
<1> DEFINE s == roundUp(n)
<1> PICK r : r = Region(CurrentMem, ptr_, s)
  OBVIOUS
<1>1. s \in Nat
  BY RoundUpFacts, ArenaAssumption
<1>2. /\ end_ - ptr_ >= s /\ ptr_' = ptr_ + s /\ live' = live \cup {r}
      /\ UNCHANGED <<blocks_, currentBlock_, end_, largeBlocks_>>
      /\ AddUsed(s)
  BY DEF AllocateFast, FitsCurrent
<1>3. bytesUsed_' \in 0..SizeMax
  BY <1>1, <1>2, AddUsedFacts DEF ArenaInv
<1>4. r.mem = CurrentMem /\ r.lo = ptr_ /\ r.hi = ptr_ + s
      /\ r = [mem |-> CurrentMem, lo |-> ptr_, hi |-> ptr_ + s]
  BY DEF Region
<1> HIDE DEF s
<1>5. end_ \in Nat /\ ptr_ \in Nat /\ ptr_ + s <= end_ /\ end_ <= minBlockSize_ /\ end_ <= SizeMax
  BY <1>1, <1>2, ArenaAssumption DEF ArenaInv, ArenaTypeOK
<1>6. CurrentMem \in Mem \cup {NoMem}
  BY DEF ArenaInv, ArenaTypeOK, CurrentMem
<1>7. ArenaTypeOK'
  <2>1. r \in [mem : Mem \cup {NoMem}, lo : 0..SizeMax, hi : 0..SizeMax]
    BY <1>1, <1>4, <1>5, <1>6, ArenaAssumption
  <2>2. ptr_' \in 0..end_'
    BY <1>1, <1>2, <1>5
  <2> QED BY <1>2, <1>3, <2>1, <2>2 DEF ArenaInv, ArenaTypeOK
<1>8. BlocksSeparate'
  BY <1>2 DEF ArenaInv, BlocksSeparate
<1>9. CASE blocks_ = <<>>
  <2>1. CurrentMem = NoMem /\ end_ = 0 /\ s = 0 /\ ptr_ = 0 /\ currentBlock_ = 0
    BY <1>1, <1>2, <1>5, <1>9 DEF CurrentMem, ArenaInv, ArenaTypeOK, BlocksSeparate
  <2>2. LivePlaced'
    BY <2>1, <1>2, <1>4, <1>9, ArenaAssumption
      DEF ArenaInv, ArenaTypeOK, LivePlaced, InNull, InLarge, InBlock
  <2>3. LiveDisjoint'
    BY <2>1, <1>2, <1>4, <1>9, ArenaAssumption
      DEF ArenaInv, ArenaTypeOK, LivePlaced, InNull, InLarge, InBlock, LiveDisjoint
  <2> QED BY <1>7, <1>8, <2>2, <2>3 DEF ArenaInv
<1>10. CASE blocks_ # <<>>
  <2>1. /\ currentBlock_ \in 1..Len(blocks_) /\ CurrentMem = blocks_[currentBlock_]
        /\ CurrentMem \in Mem /\ largeBlocks_[CurrentMem] = 0
    BY <1>10 DEF CurrentMem, ArenaInv, ArenaTypeOK, BlocksSeparate
  <2>2. \A a \in live : a.mem = CurrentMem => a.hi <= ptr_
    <3> SUFFICES ASSUME NEW a \in live, a.mem = CurrentMem PROVE a.hi <= ptr_
      OBVIOUS
    <3>1. ~InNull(a) /\ ~InLarge(a)
      BY <2>1, ArenaAssumption DEF InNull, InLarge
    <3>2. PICK i \in 1..currentBlock_ : InBlock(a, i)
      BY <3>1 DEF ArenaInv, LivePlaced
    <3>3. i \in 1..Len(blocks_) /\ blocks_[i] = blocks_[currentBlock_]
      BY <2>1, <3>2 DEF InBlock, ArenaInv, ArenaTypeOK
    <3>4. i = currentBlock_
      BY <2>1, <3>3 DEF ArenaInv, BlocksSeparate
    <3> QED BY <3>2, <3>4 DEF InBlock
  <2>3. \A a \in live : (\E i \in 1..currentBlock_ : InBlock(a, i))
                          => \E i \in 1..currentBlock_ : InBlock(a, i)'
    BY <1>1, <1>2, <1>5 DEF InBlock, ArenaInv, ArenaTypeOK
  <2>4. InBlock(r, currentBlock_)'
    <3>1. r.mem = blocks_'[currentBlock_'] /\ r.hi = ptr_'
      BY <1>2, <1>4, <2>1
    <3>2. r.hi <= minBlockSize_ /\ r.hi <= ptr_'
      BY <1>1, <1>2, <1>4, <1>5, ArenaAssumption
    <3> QED BY <3>1, <3>2 DEF InBlock
  <2>5. r.lo <= r.hi
    BY <1>1, <1>4, <1>5
  <2>6. \A a \in live : (InNull(a) => InNull(a)') /\ (InLarge(a) <=> InLarge(a)')
    BY <1>2 DEF InNull, InLarge
  <2>7. \A a \in live' : a.lo <= a.hi /\ (InNull(a)' \/ InLarge(a)'
                                          \/ \E i \in 1..currentBlock_' : InBlock(a, i)')
    BY <1>2, <2>1, <2>3, <2>4, <2>5, <2>6 DEF ArenaInv, LivePlaced
  <2>8. \A a, b \in live' : InLarge(a)' /\ a.mem = b.mem => a = b
    <3>1. ~InLarge(r)'
      BY <1>2, <1>4, <2>1 DEF InLarge
    <3>2. \A a \in live : InLarge(a) => a.mem # r.mem
      BY <1>4, <2>1 DEF InLarge
    <3> QED BY <1>2, <2>6, <3>1, <3>2 DEF ArenaInv, LivePlaced
  <2>9. LivePlaced'
    BY <2>7, <2>8 DEF LivePlaced
  <2>10. LiveDisjoint'
    BY <1>2, <1>4, <2>2 DEF ArenaInv, LiveDisjoint
  <2> QED BY <1>7, <1>8, <2>9, <2>10 DEF ArenaInv
<1> QED BY <1>9, <1>10

(* No allocation lies in a block after the current one: the one that          *)
(* allocate() moves on to is empty.                                           *)
LEMMA NextBlockEmpty ==
    ASSUME ArenaInv, NEW j \in 1..Len(blocks_), j > currentBlock_
    PROVE  /\ blocks_[j] \in Mem /\ largeBlocks_[blocks_[j]] = 0
           /\ \A a \in live : a.mem # blocks_[j]
<1>1. blocks_[j] \in Mem /\ largeBlocks_[blocks_[j]] = 0
  BY DEF ArenaInv, ArenaTypeOK, BlocksSeparate
<1>2. SUFFICES ASSUME NEW a \in live, a.mem = blocks_[j] PROVE FALSE
  BY <1>1
<1>3. ~InNull(a) /\ ~InLarge(a)
  BY <1>1, <1>2, ArenaAssumption DEF InNull, InLarge
<1>4. PICK i \in 1..currentBlock_ : InBlock(a, i)
  BY <1>3 DEF ArenaInv, LivePlaced
<1>5. i \in 1..Len(blocks_) /\ blocks_[i] = blocks_[j]
  BY <1>2, <1>4 DEF InBlock, ArenaInv, ArenaTypeOK
<1>6. i = j
  BY <1>5 DEF ArenaInv, BlocksSeparate
<1> QED BY <1>4, <1>6 DEF ArenaInv, ArenaTypeOK

(* Moving on to a block kept from before a clear(). *)
LEMMA ReuseKeepsInv ==
    ASSUME ArenaInv, NEW n \in Request, AllocateReuse(n)
    PROVE  ArenaInv'
<1> DEFINE s == roundUp(n)
<1> PICK j : j = currentBlock_ + 1
  OBVIOUS
<1> PICK r : r = Region(blocks_[j], 0, s)
  OBVIOUS
<1>1. s \in Nat
  BY RoundUpFacts, ArenaAssumption
<1>2. /\ s <= minBlockSize_ /\ blocks_ # <<>> /\ currentBlock_ # Len(blocks_)
      /\ currentBlock_' = j /\ ptr_' = s /\ end_' = minBlockSize_ /\ live' = live \cup {r}
      /\ UNCHANGED <<blocks_, largeBlocks_>>
      /\ AddUsed(s)
  BY DEF AllocateReuse, canReuseExistingBlock
<1>3. bytesUsed_' \in 0..SizeMax
  BY <1>1, <1>2, AddUsedFacts DEF ArenaInv
<1>4. j \in 1..Len(blocks_) /\ j > currentBlock_ /\ currentBlock_ \in 1..Len(blocks_)
  BY <1>2 DEF ArenaInv, ArenaTypeOK
<1>5. /\ blocks_[j] \in Mem /\ largeBlocks_[blocks_[j]] = 0
      /\ \A a \in live : a.mem # blocks_[j]
  BY <1>4, NextBlockEmpty
<1> HIDE DEF s
<1>6. r.mem = blocks_[j] /\ r.lo = 0 /\ r.hi = s /\ r = [mem |-> blocks_[j], lo |-> 0, hi |-> s]
  BY <1>1 DEF Region
<1>7. ArenaTypeOK'
  <2>1. r \in [mem : Mem \cup {NoMem}, lo : 0..SizeMax, hi : 0..SizeMax]
    BY <1>1, <1>2, <1>5, <1>6, ArenaAssumption
  <2>2. ptr_' \in 0..end_' /\ end_' \in {0, minBlockSize_}
    BY <1>1, <1>2, ArenaAssumption
  <2>3. currentBlock_' \in 0..Len(blocks_') /\ (currentBlock_' = 0 <=> blocks_' = <<>>)
    BY <1>2, <1>4
  <2> QED BY <1>2, <1>3, <2>1, <2>2, <2>3 DEF ArenaInv, ArenaTypeOK
<1>8. BlocksSeparate'
  BY <1>2 DEF ArenaInv, BlocksSeparate
<1>9. LivePlaced'
  <2>1. InBlock(r, j)'
    BY <1>1, <1>2, <1>4, <1>6 DEF InBlock
  <2>2. \A a \in live : (\E i \in 1..currentBlock_ : InBlock(a, i))
                          => \E i \in 1..j : InBlock(a, i)'
    BY <1>2, <1>4 DEF InBlock, ArenaInv, ArenaTypeOK
  <2>3. \A a \in live : (InNull(a) => InNull(a)') /\ (InLarge(a) <=> InLarge(a)')
    BY <1>2 DEF InNull, InLarge
  <2>4. ~InLarge(r)' /\ r.lo <= r.hi /\ \A a \in live : a.mem # r.mem
    BY <1>1, <1>2, <1>5, <1>6 DEF InLarge
  <2>5. \A a \in live' : a.lo <= a.hi
    BY <1>2, <2>4 DEF ArenaInv, LivePlaced
  <2>6. \A a \in live' : InNull(a)' \/ InLarge(a)' \/ \E i \in 1..currentBlock_' : InBlock(a, i)'
    BY <1>2, <1>4, <2>1, <2>2, <2>3 DEF ArenaInv, LivePlaced
  <2>7. \A a, b \in live' : InLarge(a)' /\ a.mem = b.mem => a = b
    BY <1>2, <2>3, <2>4 DEF ArenaInv, LivePlaced
  <2> QED BY <2>5, <2>6, <2>7 DEF LivePlaced
<1>10. LiveDisjoint'
  BY <1>2, <1>5, <1>6 DEF ArenaInv, LiveDisjoint
<1> QED BY <1>7, <1>8, <1>9, <1>10 DEF ArenaInv

(* Memory that new char[] returns holds no allocation. *)
LEMMA FreshMemEmpty ==
    ASSUME ArenaInv, NEW m \in Mem, ~InUse(m)
    PROVE  /\ largeBlocks_[m] = 0
           /\ \A i \in 1..Len(blocks_) : blocks_[i] # m
           /\ \A a \in live : a.mem # m
<1>1. largeBlocks_[m] = 0 /\ \A i \in 1..Len(blocks_) : blocks_[i] # m
  BY DEF InUse, ArenaInv, ArenaTypeOK
<1>2. SUFFICES ASSUME NEW a \in live, a.mem = m PROVE FALSE
  BY <1>1
<1>3. ~InNull(a) /\ ~InLarge(a)
  BY <1>1, <1>2, ArenaAssumption DEF InNull, InLarge
<1>4. PICK i \in 1..currentBlock_ : InBlock(a, i)
  BY <1>3 DEF ArenaInv, LivePlaced
<1>5. i \in 1..Len(blocks_)
  BY <1>4 DEF ArenaInv, ArenaTypeOK
<1> QED BY <1>1, <1>2, <1>4, <1>5 DEF InBlock

(* A large block of its own. *)
LEMMA LargeKeepsInv ==
    ASSUME ArenaInv, NEW n \in Request, AllocateLarge(n)
    PROVE  ArenaInv'
<1> DEFINE s == roundUp(n)
<1>1. s \in Nat
  BY RoundUpFacts, ArenaAssumption
<1>2. PICK m \in Mem : /\ ~InUse(m)
                       /\ largeBlocks_' = [largeBlocks_ EXCEPT ![m] = BlockOverhead + s]
                       /\ live' = live \cup {Region(m, 0, s)}
  BY DEF AllocateLarge
<1> PICK r : r = Region(m, 0, s)
  OBVIOUS
<1>3. /\ s > minBlockSize_ /\ SizeMax - BlockOverhead >= s
      /\ UNCHANGED <<blocks_, currentBlock_, ptr_, end_>> /\ AddUsed(s)
  <2>1. s > minBlockSize_ /\ ~LimitExceeded(s) /\ UNCHANGED blockVars /\ AddUsed(s)
    BY DEF AllocateLarge
  <2> HIDE DEF s
  <2>2. ~(SizeMax - BlockOverhead < s)
    BY <2>1 DEF LimitExceeded
  <2> QED BY <1>1, <2>1, <2>2, ArenaAssumption DEF blockVars
<1>4. bytesUsed_' \in 0..SizeMax
  BY <1>1, <1>3, AddUsedFacts DEF ArenaInv
<1>5. /\ largeBlocks_[m] = 0
      /\ \A i \in 1..Len(blocks_) : blocks_[i] # m
      /\ \A a \in live : a.mem # m
  BY <1>2, FreshMemEmpty
<1> HIDE DEF s
<1>6. r.mem = m /\ r.lo = 0 /\ r.hi = s /\ r = [mem |-> m, lo |-> 0, hi |-> s] /\ live' = live \cup {r}
  BY <1>1, <1>2 DEF Region
<1>7. /\ largeBlocks_' \in [Mem -> 0..SizeMax] /\ largeBlocks_'[m] = BlockOverhead + s
      /\ \A x \in Mem : x # m => largeBlocks_'[x] = largeBlocks_[x]
  BY <1>1, <1>2, <1>3, ArenaAssumption DEF ArenaInv, ArenaTypeOK
<1>8. ArenaTypeOK'
  <2>1. r \in [mem : Mem \cup {NoMem}, lo : 0..SizeMax, hi : 0..SizeMax]
    BY <1>1, <1>3, <1>6, ArenaAssumption
  <2> QED BY <1>3, <1>4, <1>6, <1>7, <2>1 DEF ArenaInv, ArenaTypeOK
<1>9. BlocksSeparate'
  <2>1. \A i \in 1..Len(blocks_) : blocks_[i] \in Mem
    BY DEF ArenaInv, ArenaTypeOK
  <2> QED BY <1>3, <1>5, <1>7, <2>1 DEF ArenaInv, BlocksSeparate
<1>10. LivePlaced'
  <2>1. \A a \in live : /\ InNull(a) => InNull(a)'
                        /\ InLarge(a) <=> InLarge(a)'
                        /\ (\E i \in 1..currentBlock_ : InBlock(a, i))
                              => \E i \in 1..currentBlock_' : InBlock(a, i)'
    BY <1>3, <1>5, <1>7 DEF InNull, InLarge, InBlock
  <2>2. InLarge(r)' /\ r.lo <= r.hi /\ \A a \in live : a.mem # r.mem
    BY <1>1, <1>5, <1>6, <1>7, ArenaAssumption DEF InLarge
  <2>3. \A a \in live' : a.lo <= a.hi
    BY <1>6, <2>2 DEF ArenaInv, LivePlaced
  <2>4. \A a \in live' : InNull(a)' \/ InLarge(a)' \/ \E i \in 1..currentBlock_' : InBlock(a, i)'
    BY <1>6, <2>1, <2>2 DEF ArenaInv, LivePlaced
  <2>5. \A a, b \in live' : InLarge(a)' /\ a.mem = b.mem => a = b
    BY <1>6, <2>1, <2>2 DEF ArenaInv, LivePlaced
  <2> QED BY <2>3, <2>4, <2>5 DEF LivePlaced
<1>11. LiveDisjoint'
  BY <1>5, <1>6 DEF ArenaInv, LiveDisjoint
<1> QED BY <1>8, <1>9, <1>10, <1>11 DEF ArenaInv

(* A new normal block. *)
LEMMA BlockKeepsInv ==
    ASSUME ArenaInv, NEW n \in Request, AllocateBlock(n)
    PROVE  ArenaInv'
<1> DEFINE s == roundUp(n)
<1>1. s \in Nat
  BY RoundUpFacts, ArenaAssumption
<1>2. PICK m \in Mem : /\ ~InUse(m)
                       /\ blocks_' = Append(blocks_, m)
                       /\ live' = live \cup {Region(m, 0, s)}
  BY DEF AllocateBlock
<1> PICK r : r = Region(m, 0, s)
  OBVIOUS
<1> PICK k : k = Len(blocks_) + 1
  OBVIOUS
<1>3. /\ s <= minBlockSize_ /\ currentBlock_' = Len(blocks_') /\ ptr_' = s
      /\ end_' = minBlockSize_ /\ UNCHANGED largeBlocks_ /\ AddUsed(s)
      /\ ~canReuseExistingBlock(s)
  BY DEF AllocateBlock, SlowPath
<1>4. bytesUsed_' \in 0..SizeMax
  BY <1>1, <1>3, AddUsedFacts DEF ArenaInv
<1>5. /\ largeBlocks_[m] = 0
      /\ \A i \in 1..Len(blocks_) : blocks_[i] # m
      /\ \A a \in live : a.mem # m
  BY <1>2, FreshMemEmpty
<1> HIDE DEF s
<1>6. r.mem = m /\ r.lo = 0 /\ r.hi = s /\ r = [mem |-> m, lo |-> 0, hi |-> s] /\ live' = live \cup {r}
  BY <1>1, <1>2 DEF Region
<1>7. /\ blocks_' \in Seq(Mem) /\ Len(blocks_') = k /\ k \in Nat /\ k >= 1 /\ blocks_'[k] = m
      /\ \A i \in 1..Len(blocks_) : blocks_'[i] = blocks_[i]
      /\ blocks_' # <<>> /\ currentBlock_' = k /\ Len(blocks_) \in Nat
      /\ \A i \in 1..k : i = k \/ i \in 1..Len(blocks_)
      /\ currentBlock_ = Len(blocks_)
  <2>1. blocks_ \in Seq(Mem) /\ Len(blocks_) \in Nat
    BY DEF ArenaInv, ArenaTypeOK
  <2>2. /\ blocks_' \in Seq(Mem) /\ Len(blocks_') = k /\ blocks_'[k] = m
        /\ \A i \in 1..Len(blocks_) : blocks_'[i] = blocks_[i]
    BY <1>2, <2>1
  <2>3. currentBlock_ = Len(blocks_)
    <3>1. CASE blocks_ = <<>>
      BY <3>1 DEF ArenaInv, ArenaTypeOK
    <3>2. CASE blocks_ # <<>>
      BY <1>3, <3>2 DEF canReuseExistingBlock
    <3> QED BY <3>1, <3>2
  <2>4. k \in Nat /\ k >= 1 /\ \A i \in 1..k : i = k \/ i \in 1..Len(blocks_)
    BY <2>1
  <2> QED BY <1>3, <2>1, <2>2, <2>3, <2>4
<1>8. ArenaTypeOK'
  <2>1. r \in [mem : Mem \cup {NoMem}, lo : 0..SizeMax, hi : 0..SizeMax]
    BY <1>1, <1>3, <1>6, ArenaAssumption
  <2>2. ptr_' \in 0..end_' /\ end_' \in {0, minBlockSize_}
    BY <1>1, <1>3, ArenaAssumption
  <2>3. currentBlock_' \in 0..Len(blocks_') /\ (currentBlock_' = 0 <=> blocks_' = <<>>)
    BY <1>7
  <2> QED BY <1>3, <1>4, <1>6, <1>7, <2>1, <2>2, <2>3 DEF ArenaInv, ArenaTypeOK
<1>9. BlocksSeparate'
  <2>1. \A i, j \in 1..k : blocks_'[i] = blocks_'[j] => i = j
    BY <1>5, <1>7 DEF ArenaInv, BlocksSeparate
  <2>2. \A i \in 1..k : largeBlocks_'[blocks_'[i]] = 0
    BY <1>3, <1>5, <1>7 DEF ArenaInv, BlocksSeparate
  <2> QED BY <1>3, <1>7, <2>1, <2>2 DEF BlocksSeparate
<1>10. LivePlaced'
  <2>1. \A a \in live : /\ InNull(a) => InNull(a)'
                        /\ InLarge(a) <=> InLarge(a)'
    BY <1>3 DEF InNull, InLarge
  <2>2. \A a \in live : (\E i \in 1..currentBlock_ : InBlock(a, i))
                          => \E i \in 1..k : InBlock(a, i)'
    <3> SUFFICES ASSUME NEW a \in live, NEW i \in 1..currentBlock_, InBlock(a, i)
                 PROVE  i \in 1..k /\ InBlock(a, i)'
      OBVIOUS
    <3>1. i \in 1..Len(blocks_) /\ i \in 1..k /\ i # k
      BY <1>7
    <3> QED BY <1>7, <3>1 DEF InBlock
  <2>3. InBlock(r, k)' /\ k \in 1..k
    BY <1>1, <1>3, <1>6, <1>7 DEF InBlock
  <2>4. ~InLarge(r)' /\ r.lo <= r.hi /\ \A a \in live : a.mem # r.mem
    BY <1>1, <1>3, <1>5, <1>6 DEF InLarge
  <2>5. \A a \in live' : a.lo <= a.hi
    BY <1>6, <2>4 DEF ArenaInv, LivePlaced
  <2>6. \A a \in live' : InNull(a)' \/ InLarge(a)' \/ \E i \in 1..currentBlock_' : InBlock(a, i)'
    BY <1>6, <1>7, <2>1, <2>2, <2>3 DEF ArenaInv, LivePlaced
  <2>7. \A a, b \in live' : InLarge(a)' /\ a.mem = b.mem => a = b
    BY <1>6, <2>1, <2>4 DEF ArenaInv, LivePlaced
  <2> QED BY <2>5, <2>6, <2>7 DEF LivePlaced
<1>11. LiveDisjoint'
  BY <1>5, <1>6 DEF ArenaInv, LiveDisjoint
<1> QED BY <1>8, <1>9, <1>10, <1>11 DEF ArenaInv

(* A failed allocate() changes bytesUsed_ only. *)
LEMMA ThrowsKeepsInv ==
    ASSUME ArenaInv, NEW n \in Request, AllocateThrows(n)
    PROVE  ArenaInv'
<1>1. bytesUsed_' \in 0..SizeMax
  BY RoundUpFacts, AddUsedFacts, ArenaAssumption DEF AllocateThrows, ArenaInv
<1>2. UNCHANGED <<blocks_, currentBlock_, ptr_, end_, largeBlocks_, live>>
  BY DEF AllocateThrows, blockVars
<1> QED BY <1>1, <1>2 DEF ArenaInv, ArenaTypeOK, BlocksSeparate, LivePlaced, LiveDisjoint,
                          InNull, InLarge, InBlock

(* clear() and the destructor leave nothing allocated. *)
LEMMA ClearKeepsInv ==
    ASSUME ArenaInv, clear \/ Destroy
    PROVE  ArenaInv'
<1>1. live' = {} /\ bytesUsed_' = 0 /\ largeBlocks_' = [m \in Mem |-> 0]
  BY DEF clear, Destroy
<1>2. LivePlaced' /\ LiveDisjoint'
  BY <1>1 DEF LivePlaced, LiveDisjoint
<1>3. CASE Destroy
  BY <1>1, <1>2, <1>3, ArenaAssumption DEF Destroy, ArenaInv, ArenaTypeOK, BlocksSeparate
<1>4. CASE clear /\ blocks_ = <<>>
  BY <1>1, <1>2, <1>4, ArenaAssumption DEF clear, blockVars, ArenaInv, ArenaTypeOK, BlocksSeparate
<1>5. CASE clear /\ blocks_ # <<>>
  <2>1. currentBlock_' = 1 /\ ptr_' = 0 /\ end_' = minBlockSize_ /\ blocks_' = blocks_
    BY <1>5 DEF clear
  <2>2. Len(blocks_) \in Nat /\ Len(blocks_) >= 1 /\ \A i \in 1..Len(blocks_) : blocks_[i] \in Mem
    BY <1>5 DEF ArenaInv, ArenaTypeOK
  <2> QED BY <1>1, <1>2, <1>5, <2>1, <2>2, ArenaAssumption DEF ArenaInv, ArenaTypeOK, BlocksSeparate
<1> QED BY <1>3, <1>4, <1>5

(* Every step of the arena preserves the invariant. *)
LEMMA ArenaStepInv == ArenaInv /\ [ArenaNext]_arenaVars => ArenaInv'
<1> SUFFICES ASSUME ArenaInv, [ArenaNext]_arenaVars PROVE ArenaInv'
  OBVIOUS
<1>1. ASSUME NEW n \in Request, allocate(n) PROVE ArenaInv'
  BY <1>1, FastKeepsInv, ReuseKeepsInv, LargeKeepsInv, BlockKeepsInv, ThrowsKeepsInv DEF allocate
<1>2. CASE clear \/ Destroy
  BY <1>2, ClearKeepsInv
<1>3. CASE UNCHANGED arenaVars
  BY <1>3 DEF arenaVars, blockVars, ArenaInv, ArenaTypeOK, BlocksSeparate, LivePlaced, LiveDisjoint,
              InNull, InLarge, InBlock
<1> QED BY <1>1, <1>2, <1>3 DEF ArenaNext

(* Offsets and counters stay in range, for every width of size_t. *)
THEOREM ArenaTypeCorrect == ArenaSpec => []ArenaTypeOK
<1>1. ArenaInv => ArenaTypeOK
  BY DEF ArenaInv
<1> QED BY <1>1, ArenaInitInv, ArenaStepInv, PTL DEF ArenaSpec

(* Allocations handed out since the last clear() never share a byte. *)
THEOREM ArenaLiveDisjoint == ArenaSpec => []LiveDisjoint
<1>1. ArenaInv => LiveDisjoint
  BY DEF ArenaInv
<1> QED BY <1>1, ArenaInitInv, ArenaStepInv, PTL DEF ArenaSpec

(* Every allocation lies inside a block that the arena owns. *)
THEOREM ArenaLiveBacked == ArenaSpec => []LiveBacked
<1>1. ArenaInv => LiveBacked
  <2> SUFFICES ASSUME ArenaInv, NEW a \in live
               PROVE  \/ a.mem = NoMem /\ a.lo = a.hi
                      \/ \E i \in 1..Len(blocks_) : a.mem = blocks_[i] /\ a.hi <= minBlockSize_
                      \/ InLarge(a)
    BY DEF LiveBacked, InLarge
  <2>1. CASE InNull(a)
    BY <2>1 DEF InNull, ArenaInv, ArenaTypeOK, LivePlaced
  <2>2. CASE \E i \in 1..currentBlock_ : InBlock(a, i)
    BY <2>2 DEF InBlock, ArenaInv, ArenaTypeOK
  <2> QED BY <2>1, <2>2 DEF ArenaInv, LivePlaced
<1> QED BY <1>1, ArenaInitInv, ArenaStepInv, PTL DEF ArenaSpec

(* allocate() leaves no block behind unused. *)
LEMMA PassedBlocksUsedStep ==
    ArenaInv /\ PassedBlocksUsed /\ [ArenaNext]_arenaVars => PassedBlocksUsed'
<1> SUFFICES ASSUME ArenaInv, PassedBlocksUsed, [ArenaNext]_arenaVars PROVE PassedBlocksUsed'
  OBVIOUS
<1> USE DEF PassedBlocksUsed
<1>1. ASSUME NEW n \in Request, AllocateFast(n) PROVE PassedBlocksUsed'
  <2>1. /\ UNCHANGED <<blocks_, currentBlock_>>
        /\ live' = live \cup {Region(CurrentMem, ptr_, roundUp(n))}
    BY <1>1 DEF AllocateFast
  <2>2. \E a \in live' : a.mem = CurrentMem
    <3>1. Region(CurrentMem, ptr_, roundUp(n)) \in live' /\ Region(CurrentMem, ptr_, roundUp(n)).mem = CurrentMem
      BY <2>1 DEF Region
    <3> QED BY <3>1
  <2>3. \A i \in 1..currentBlock_ : i = currentBlock_ => blocks_[i] = CurrentMem
    BY DEF CurrentMem, ArenaInv, ArenaTypeOK
  <2>4. \A i \in 1..currentBlock_ : i # currentBlock_ => \E a \in live' : a.mem = blocks_[i]
    BY <2>1
  <2> QED BY <2>1, <2>2, <2>3, <2>4
<1>2. ASSUME NEW n \in Request, ~FitsCurrent(roundUp(n)), roundUp(n) <= minBlockSize_
      PROVE  \A i \in 1..currentBlock_ : \E a \in live : a.mem = blocks_[i]
  <2>1. roundUp(n) \in Nat
    BY RoundUpFacts, ArenaAssumption
  <2>2. currentBlock_ # 0 => ptr_ > 0
    <3> DEFINE s == roundUp(n)
    <3>1. s \in Nat /\ s <= minBlockSize_ /\ ~(end_ - ptr_ >= s)
      BY <1>2, <2>1 DEF FitsCurrent
    <3> HIDE DEF s
    <3> QED BY <3>1, ArenaAssumption DEF ArenaInv, ArenaTypeOK, BlocksSeparate
  <2> QED BY <2>2 DEF ArenaInv, ArenaTypeOK
<1>3. ASSUME NEW n \in Request, AllocateReuse(n) PROVE PassedBlocksUsed'
  <2>1. \A i \in 1..currentBlock_ : \E a \in live : a.mem = blocks_[i]
    BY <1>2, <1>3 DEF AllocateReuse, canReuseExistingBlock
  <2>2. /\ currentBlock_' = currentBlock_ + 1 /\ blocks_' = blocks_
        /\ live' = live \cup {Region(blocks_[currentBlock_ + 1], 0, roundUp(n))}
    BY <1>3 DEF AllocateReuse
  <2>3. \E a \in live' : a.mem = blocks_[currentBlock_ + 1]
    <3>1. Region(blocks_[currentBlock_ + 1], 0, roundUp(n)) \in live' /\ Region(blocks_[currentBlock_ + 1], 0, roundUp(n)).mem = blocks_[currentBlock_ + 1]
      BY <2>2 DEF Region
    <3> QED BY <3>1
  <2>4. \A i \in 1..currentBlock_' : i = currentBlock_ + 1 \/ i \in 1..currentBlock_
    BY <2>2 DEF ArenaInv, ArenaTypeOK
  <2> QED BY <2>1, <2>2, <2>3, <2>4
<1>4. ASSUME NEW n \in Request, AllocateLarge(n) PROVE PassedBlocksUsed'
  <2>1. UNCHANGED <<blocks_, currentBlock_, ptr_>> /\ live \subseteq live'
    BY <1>4 DEF AllocateLarge, blockVars
  <2> QED BY <2>1
<1>5. ASSUME NEW n \in Request, AllocateBlock(n) PROVE PassedBlocksUsed'
  <2>1. \A i \in 1..currentBlock_ : \E a \in live : a.mem = blocks_[i]
    BY <1>2, <1>5 DEF AllocateBlock, SlowPath
  <2>2. currentBlock_ = Len(blocks_) /\ blocks_ \in Seq(Mem) /\ Len(blocks_) \in Nat
    BY <1>5 DEF AllocateBlock, SlowPath, canReuseExistingBlock, ArenaInv, ArenaTypeOK
  <2>3. PICK m \in Mem : blocks_' = Append(blocks_, m) /\ live' = live \cup {Region(m, 0, roundUp(n))}
    BY <1>5 DEF AllocateBlock
  <2>4. currentBlock_' = Len(blocks_) + 1
    BY <1>5, <2>2, <2>3 DEF AllocateBlock
  <2>5. \E a \in live' : a.mem = m
    <3>1. Region(m, 0, roundUp(n)) \in live' /\ Region(m, 0, roundUp(n)).mem = m
      BY <2>3 DEF Region
    <3> QED BY <3>1
  <2>6. \A i \in 1..currentBlock_' : \/ i \in 1..currentBlock_ /\ blocks_'[i] = blocks_[i]
                                     \/ blocks_'[i] = m
    BY <2>2, <2>3, <2>4
  <2> QED BY <2>1, <2>3, <2>5, <2>6
<1>6. ASSUME NEW n \in Request, AllocateThrows(n) PROVE PassedBlocksUsed'
  BY <1>6 DEF AllocateThrows, blockVars
<1>7. CASE clear
  <2>1. CASE blocks_ = <<>>
    BY <1>7, <2>1 DEF clear, blockVars, ArenaInv, ArenaTypeOK
  <2>2. CASE blocks_ # <<>>
    BY <1>7, <2>2 DEF clear
  <2> QED BY <2>1, <2>2
<1>8. CASE Destroy
  BY <1>8 DEF Destroy
<1>9. CASE UNCHANGED arenaVars
  BY <1>9 DEF arenaVars, blockVars
<1> QED BY <1>1, <1>3, <1>4, <1>5, <1>6, <1>7, <1>8, <1>9 DEF ArenaNext, allocate

(* A new block is obtained only when every block the arena has holds an       *)
(* allocation made since the last clear(): clear() really reuses its blocks.  *)
THEOREM ArenaReusesBlocks == ArenaSpec => NewBlockOnlyWhenAllUsed
<1> DEFINE Grows == Len(blocks_') > Len(blocks_) =>
                      \A i \in 1..Len(blocks_) : \E a \in live : a.mem = blocks_[i]
<1>1. ArenaInit => PassedBlocksUsed
  BY DEF ArenaInit, PassedBlocksUsed
<1>2. ArenaInv /\ PassedBlocksUsed /\ [ArenaNext]_arenaVars => [Grows]_arenaVars
  <2> SUFFICES ASSUME ArenaInv, PassedBlocksUsed, ArenaNext, Len(blocks_') > Len(blocks_)
               PROVE  \A i \in 1..Len(blocks_) : \E a \in live : a.mem = blocks_[i]
    OBVIOUS
  <2>1. PICK n \in Request : AllocateBlock(n)
    <3>1. \/ \E n \in Request : AllocateBlock(n)
          \/ blocks_' = blocks_ \/ blocks_' = <<>>
      BY DEF ArenaNext, allocate, AllocateFast, AllocateReuse, AllocateLarge, AllocateThrows,
             clear, Destroy, blockVars
    <3>2. Len(blocks_) \in Nat
      BY DEF ArenaInv, ArenaTypeOK
    <3> QED BY <3>1, <3>2
  <2> DEFINE s == roundUp(n)
  <2>2. s \in Nat /\ s <= minBlockSize_ /\ ~(end_ - ptr_ >= s)
    BY <2>1, RoundUpFacts, ArenaAssumption DEF AllocateBlock, SlowPath, FitsCurrent
  <2>3. currentBlock_ = Len(blocks_)
    BY <2>1 DEF AllocateBlock, SlowPath, canReuseExistingBlock, ArenaInv, ArenaTypeOK
  <2> HIDE DEF s
  <2>4. currentBlock_ # 0 => ptr_ > 0
    BY <2>2, ArenaAssumption DEF ArenaInv, ArenaTypeOK, BlocksSeparate
  <2> QED BY <2>3, <2>4 DEF PassedBlocksUsed, ArenaInv, ArenaTypeOK
<1>3. NewBlockOnlyWhenAllUsed <=> [][Grows]_arenaVars
  BY DEF NewBlockOnlyWhenAllUsed
<1> QED BY <1>1, <1>2, <1>3, ArenaInitInv, ArenaStepInv, PassedBlocksUsedStep, PTL DEF ArenaSpec


-----------------------------------------------------------------------------
(* Sums over a finite set.  LargeTotal folds over the element that CHOOSE      *)
(* picks first; the facts below hold whatever that order is.                  *)
First(s) == CHOOSE x \in s : TRUE

IsSum(it, f, S) ==
    it = [s \in SUBSET S |-> IF s = {} THEN 0 ELSE f[First(s)] + it[s \ {First(s)}]]

(* The partial sums of the subsets of at most n elements. *)
UpTo(S, n) == {T \in SUBSET S : Cardinality(T) <= n}

IsSumUpTo(it, f, S, n) ==
    it = [s \in UpTo(S, n) |-> IF s = {} THEN 0 ELSE f[First(s)] + it[s \ {First(s)}]]

(* A set of naturals that holds 0 and every successor is Nat. *)
LEMMA EveryNumber ==
    ASSUME NEW B \in SUBSET Nat, 0 \in B, \A n \in B : n + 1 \in B
    PROVE  B = Nat
<1> SUFFICES ASSUME Nat \ B # {} PROVE FALSE
    OBVIOUS
<1>1. PICK i \in Nat \ B : \A j \in Nat \ B : ~ (<<j, i>> \in OpToRel(<, Nat))
    BY NatLessThanWellFounded, WFMin
<1>2. i # 0 /\ i - 1 \in Nat /\ i - 1 < i
    OBVIOUS
<1>3. i - 1 \in B
    BY <1>1, <1>2 DEF OpToRel
<1>4. (i - 1) + 1 \in B
    BY <1>3
<1> QED
    BY <1>2, <1>4

(* What the fold removes from a set. *)
LEMMA FirstFacts ==
    ASSUME NEW S, IsFiniteSet(S), NEW T \in SUBSET S, T # {}
    PROVE  /\ First(T) \in T /\ T \ {First(T)} \in SUBSET S
           /\ Cardinality(T) \in Nat
           /\ Cardinality(T \ {First(T)}) = Cardinality(T) - 1
<1>1. First(T) \in T
    BY DEF First
<1>2. IsFiniteSet(T)
    BY FS_Subset
<1> QED
    BY <1>1, <1>2, FS_CardinalityType, FS_RemoveElement

(* A set of subsets that holds the empty set, and each set whose remainder it *)
(* holds, holds them all.                                                     *)
LEMMA EverySubset ==
    ASSUME NEW S, IsFiniteSet(S), NEW B, {} \in B,
           \A T \in SUBSET S : T # {} /\ T \ {First(T)} \in B => T \in B
    PROVE  \A T \in SUBSET S : T \in B
<1> DEFINE N == {n \in Nat : \A T \in SUBSET S : Cardinality(T) <= n => T \in B}
<1>1. \A T \in SUBSET S : Cardinality(T) \in Nat /\ (Cardinality(T) = 0 <=> T = {})
    BY FS_Subset, FS_CardinalityType, FS_EmptySet
<1>2. 0 \in N
    BY <1>1
<1>3. ASSUME NEW n \in N PROVE n + 1 \in N
    <2> SUFFICES ASSUME NEW T \in SUBSET S, Cardinality(T) <= n + 1 PROVE T \in B
        OBVIOUS
    <2>1. CASE T = {}
        BY <2>1
    <2>2. CASE T # {}
        <3>1. T \ {First(T)} \in SUBSET S /\ Cardinality(T \ {First(T)}) <= n
            BY <2>2, FirstFacts
        <3> QED
            BY <2>2, <3>1
    <2> QED
        BY <2>1, <2>2
<1>4. N = Nat
    <2> HIDE DEF N
    <2>1. N \in SUBSET Nat
        BY DEF N
    <2> QED
        BY <1>2, <1>3, <2>1, EveryNumber
<1> QED
    BY <1>1, <1>4

(* There is a function of the partial sums. *)
LEMMA SumExists ==
    ASSUME NEW S, IsFiniteSet(S), NEW f
    PROVE  \E it : IsSum(it, f, S)
<1> DEFINE B == {n \in Nat : \E it : IsSumUpTo(it, f, S, n)}
<1>1. \A T \in SUBSET S : Cardinality(T) \in Nat /\ (Cardinality(T) = 0 <=> T = {})
    BY FS_Subset, FS_CardinalityType, FS_EmptySet
<1>2. 0 \in B
    <2>1. \A s \in UpTo(S, 0) : s = {}
        BY <1>1 DEF UpTo
    <2>2. IsSumUpTo([s \in UpTo(S, 0) |-> 0], f, S, 0)
        BY <2>1 DEF IsSumUpTo
    <2> QED
        BY <2>2
<1>3. ASSUME NEW n \in B PROVE n + 1 \in B
    <2>1. PICK it : IsSumUpTo(it, f, S, n)
        OBVIOUS
    <2> DEFINE jt == [s \in UpTo(S, n + 1) |->
                        IF s = {} THEN 0 ELSE f[First(s)] + it[s \ {First(s)}]]
    <2>2. \A s \in UpTo(S, n) :
             s \in UpTo(S, n + 1) /\ it[s] = IF s = {} THEN 0 ELSE f[First(s)] + it[s \ {First(s)}]
        <3>1. \A s \in UpTo(S, n) : s \in UpTo(S, n + 1)
            BY <1>1 DEF UpTo
        <3> QED
            BY <2>1, <3>1 DEF IsSumUpTo
    <2>3. \A s \in UpTo(S, n) : jt[s] = it[s]
        BY <2>2
    <2>4. \A s \in UpTo(S, n + 1) : s # {} => s \ {First(s)} \in UpTo(S, n)
        BY <1>1, FirstFacts DEF UpTo
    <2>5. jt = [s \in UpTo(S, n + 1) |-> IF s = {} THEN 0 ELSE f[First(s)] + jt[s \ {First(s)}]]
        <3>1. \A s \in UpTo(S, n + 1) : s # {} => jt[s \ {First(s)}] = it[s \ {First(s)}]
            BY <2>3, <2>4
        <3> QED
            BY <3>1
    <2> HIDE DEF jt
    <2> QED
        BY <2>5 DEF IsSumUpTo
<1>4. B = Nat
    <2> HIDE DEF B
    <2>1. B \in SUBSET Nat
        BY DEF B
    <2> QED
        BY <1>2, <1>3, <2>1, EveryNumber
<1>5. Cardinality(S) \in Nat
    BY <1>1
<1>6. PICK it : IsSumUpTo(it, f, S, Cardinality(S))
    BY <1>4, <1>5
<1>7. UpTo(S, Cardinality(S)) = SUBSET S
    BY FS_Subset DEF UpTo
<1> QED
    BY <1>6, <1>7 DEF IsSumUpTo, IsSum


(* What a function of the partial sums of natural numbers satisfies. *)
SumsOf(it, f, S) == IsFiniteSet(S) /\ f \in [S -> Nat] /\ IsSum(it, f, S)

SumLaws(it, f, S) ==
    /\ it[{}] = 0
    /\ \A T \in SUBSET S : it[T] \in Nat
    /\ \A T \in SUBSET S : T # {} => it[T] = f[First(T)] + it[T \ {First(T)}]

LEMMA SumFacts ==
    ASSUME NEW S, NEW f, NEW it, SumsOf(it, f, S)
    PROVE  SumLaws(it, f, S)
<1>0. IsFiniteSet(S) /\ f \in [S -> Nat] /\ IsSum(it, f, S)
    BY DEF SumsOf
<1>1. it[{}] = 0 /\ \A T \in SUBSET S : T # {} => it[T] = f[First(T)] + it[T \ {First(T)}]
    BY <1>0 DEF IsSum
<1> DEFINE B == {T \in SUBSET S : it[T] \in Nat}
<1>2. {} \in B
    BY <1>1
<1>3. ASSUME NEW T \in SUBSET S, T # {}, T \ {First(T)} \in B PROVE T \in B
    <2>1. First(T) \in T /\ First(T) \in S
        BY <1>0, <1>3, FirstFacts
    <2>2. f[First(T)] \in Nat
        BY <1>0, <2>1
    <2>3. it[T] = f[First(T)] + it[T \ {First(T)}]
        BY <1>1, <1>3
    <2>4. it[T \ {First(T)}] \in Nat
        BY <1>3
    <2>5. it[T] \in Nat
        BY <2>2, <2>3, <2>4
    <2> QED
        BY <2>5
<1> HIDE DEF B
<1>4. \A T \in SUBSET S : T \in B
    BY <1>0, <1>2, <1>3, EverySubset
<1> QED
    BY <1>1, <1>4 DEF B, SumLaws

Gives(g, f, m, v) == f[m] = 0 /\ v \in Nat /\ g = [f EXCEPT ![m] = v]

(* Giving an element of value 0 the value v adds v to every sum it is in. *)
LEMMA SumAdds ==
    ASSUME NEW S, NEW f, NEW it, SumsOf(it, f, S),
           NEW m \in S, NEW v, NEW g, Gives(g, f, m, v), NEW jt, IsSum(jt, g, S)
    PROVE  jt[S] = it[S] + v
<1> DEFINE B == {T \in SUBSET S : jt[T] = it[T] + (IF m \in T THEN v ELSE 0)}
<1>0. IsFiniteSet(S) /\ f \in [S -> Nat] /\ f[m] = 0 /\ v \in Nat /\ g = [f EXCEPT ![m] = v]
    BY DEF SumsOf, Gives
<1>1. g \in [S -> Nat] /\ g[m] = v /\ \A x \in S : x # m => g[x] = f[x]
    BY <1>0
<1>2. SumLaws(it, f, S) /\ SumLaws(jt, g, S)
    <2>1. SumsOf(jt, g, S)
        BY <1>0, <1>1 DEF SumsOf
    <2> QED
        BY <2>1, SumFacts
<1>3. {} \in B
    BY <1>2 DEF SumLaws
<1>4. ASSUME NEW T \in SUBSET S, T # {}, T \ {First(T)} \in B PROVE T \in B
    <2> DEFINE x == First(T)
               U == T \ {x}
    <2>1. x \in T /\ U \in SUBSET S
        BY <1>0, <1>4, FirstFacts
    <2>2. it[U] \in Nat /\ jt[U] \in Nat /\ it[T] = f[x] + it[U] /\ jt[T] = g[x] + jt[U]
        BY <1>2, <1>4, <2>1 DEF SumLaws
    <2>3. jt[U] = it[U] + (IF m \in U THEN v ELSE 0)
        BY <1>4
    <2>4. CASE x = m
        BY <1>0, <1>1, <2>1, <2>2, <2>3, <2>4
    <2>5. CASE x # m
        <3>1. g[x] = f[x] /\ f[x] \in Nat /\ (m \in U <=> m \in T)
            BY <1>0, <1>1, <2>1, <2>5
        <3> HIDE DEF x, U
        <3> QED
            BY <1>0, <2>2, <2>3, <3>1
    <2> QED
        BY <2>4, <2>5
<1> HIDE DEF B
<1>5. \A T \in SUBSET S : T \in B
    BY <1>0, <1>3, <1>4, EverySubset
<1> QED
    BY <1>5 DEF B

(* The sum of zeros. *)
LEMMA SumOfZeros ==
    ASSUME NEW S, IsFiniteSet(S), NEW it, IsSum(it, [m \in S |-> 0], S)
    PROVE  it[S] = 0
<1> DEFINE z == [m \in S |-> 0]
           B == {T \in SUBSET S : it[T] = 0}
<1>1. z \in [S -> Nat] /\ \A m \in S : z[m] = 0
    OBVIOUS
<1> HIDE DEF z
<1>2. SumLaws(it, z, S)
    <2>1. SumsOf(it, z, S)
        BY <1>1 DEF z, SumsOf
    <2> QED
        BY <2>1, SumFacts
<1>3. {} \in B
    BY <1>2 DEF SumLaws
<1>4. ASSUME NEW T \in SUBSET S, T # {}, T \ {First(T)} \in B PROVE T \in B
    <2>1. First(T) \in S /\ z[First(T)] = 0
        BY <1>1, <1>4, FirstFacts
    <2>2. it[T] = z[First(T)] + it[T \ {First(T)}]
        BY <1>2, <1>4 DEF SumLaws
    <2> QED
        BY <1>4, <2>1, <2>2
<1> HIDE DEF B
<1>5. \A T \in SUBSET S : T \in B
    BY <1>3, <1>4, EverySubset
<1> QED
    BY <1>5 DEF B

-----------------------------------------------------------------------------
(* LargeTotal is such a sum. *)
SumOf(f) == (CHOOSE it : IsSum(it, f, Mem))[Mem]

LEMMA LargeTotalIsSum == LargeTotal = SumOf(largeBlocks_)
BY DEF LargeTotal, MapThenSumSet, MapThenFoldSet, SumOf, IsSum, First

LEMMA LargeTotalIsSumNext == LargeTotal' = SumOf(largeBlocks_')
BY DEF LargeTotal, MapThenSumSet, MapThenFoldSet, SumOf, IsSum, First

LEMMA SumOfFacts ==
    /\ \A f \in [Mem -> Nat] : SumOf(f) \in Nat
    /\ SumOf([m \in Mem |-> 0]) = 0
    /\ \A f \in [Mem -> Nat], m \in Mem, v \in Nat :
          f[m] = 0 => SumOf([f EXCEPT ![m] = v]) = SumOf(f) + v
<1> DEFINE It(f) == CHOOSE it : IsSum(it, f, Mem)
<1>0. IsFiniteSet(Mem)
    BY ArenaAssumption
<1>1. ASSUME NEW f PROVE IsSum(It(f), f, Mem) /\ SumOf(f) = It(f)[Mem]
    BY <1>0, SumExists DEF SumOf
<1> HIDE DEF It
<1>2. ASSUME NEW f \in [Mem -> Nat] PROVE SumsOf(It(f), f, Mem)
    BY <1>0, <1>1 DEF SumsOf
<1>3. ASSUME NEW f \in [Mem -> Nat] PROVE SumOf(f) \in Nat
    <2>1. SumLaws(It(f), f, Mem)
        BY <1>2, SumFacts
    <2> QED
        BY <1>1, <2>1 DEF SumLaws
<1>4. SumOf([m \in Mem |-> 0]) = 0
    BY <1>0, <1>1, SumOfZeros
<1>5. ASSUME NEW f \in [Mem -> Nat], NEW m \in Mem, NEW v \in Nat, f[m] = 0
      PROVE  SumOf([f EXCEPT ![m] = v]) = SumOf(f) + v
    <2>1. PICK g : g = [f EXCEPT ![m] = v]
        OBVIOUS
    <2>2. SumsOf(It(f), f, Mem) /\ IsSum(It(g), g, Mem)
        BY <1>1, <1>2
    <2>3. It(g)[Mem] = It(f)[Mem] + v
        <3>1. Gives(g, f, m, v)
            BY <1>5, <2>1 DEF Gives
        <3> QED
            BY <2>2, <3>1, SumAdds
    <2> QED
        BY <1>1, <2>1, <2>3
<1> QED
    BY <1>3, <1>4, <1>5


(* The total is a natural number: what is owned has a size. *)
LEMMA OwnedFacts ==
    ASSUME ArenaInv
    PROVE  /\ Len(blocks_) \in Nat /\ blockGoodAllocSize \in Nat
           /\ Len(blocks_) * blockGoodAllocSize \in Nat /\ LargeTotal \in Nat
           /\ largeBlocks_ \in [Mem -> Nat]
<1>1. blocks_ \in Seq(Mem) /\ largeBlocks_ \in [Mem -> Nat]
    BY ArenaAssumption DEF ArenaInv, ArenaTypeOK
<1>2. blockGoodAllocSize \in Nat /\ Len(blocks_) \in Nat
    BY <1>1, ArenaAssumption DEF blockGoodAllocSize
<1>3. LargeTotal \in Nat
    BY <1>1, LargeTotalIsSum, SumOfFacts
<1>4. Len(blocks_) * blockGoodAllocSize \in Nat
    <2> DEFINE k == Len(blocks_)
               b == blockGoodAllocSize
    <2> HIDE DEF k, b
    <2>1. k \in Nat /\ b \in Nat
        BY <1>2 DEF k, b
    <2>2. k * b \in Nat
        BY <2>1
    <2> QED
        BY <2>2 DEF k, b
<1> QED
    BY <1>1, <1>2, <1>3, <1>4

(* A large block adds its size to the large blocks and to the total. *)
LEMMA LargeKeepsTotal ==
    ASSUME ArenaInv, TotalIsOwned, NEW n \in Request, AllocateLarge(n)
    PROVE  TotalIsOwned'
<1> DEFINE s == roundUp(n)
<1>1. s \in Nat
    BY RoundUpFacts, ArenaAssumption
<1>2. PICK m \in Mem : ~InUse(m) /\ largeBlocks_' = [largeBlocks_ EXCEPT ![m] = BlockOverhead + s]
    BY DEF AllocateLarge
<1>3. /\ ~LimitExceeded(s) /\ s > minBlockSize_ /\ blocks_' = blocks_
      /\ totalAllocatedSize_' = totalAllocatedSize_ + BlockOverhead + s
    BY DEF AllocateLarge, blockVars
<1> HIDE DEF s
<1>4. largeBlocks_[m] = 0
    BY <1>2, OwnedFacts DEF InUse
<1>5. BlockOverhead + s \in Nat
    BY <1>1, ArenaAssumption
<1>6. LargeTotal' = LargeTotal + BlockOverhead + s
    <2>1. SumOf(largeBlocks_') = SumOf(largeBlocks_) + (BlockOverhead + s)
        BY <1>2, <1>4, <1>5, OwnedFacts, SumOfFacts
    <2> QED
        BY <1>1, <2>1, OwnedFacts, LargeTotalIsSum, LargeTotalIsSumNext, ArenaAssumption
<1>7. sizeLimit_ # kNoSizeLimit => totalAllocatedSize_' <= sizeLimit_
    BY <1>1, <1>3, OwnedFacts, ArenaAssumption DEF LimitExceeded, TotalIsOwned
<1>8. totalAllocatedSize_' = Len(blocks_') * blockGoodAllocSize + LargeTotal'
    <2> DEFINE p == Len(blocks_) * blockGoodAllocSize
    <2>1. p \in Nat /\ totalAllocatedSize_ = p + LargeTotal /\ LargeTotal \in Nat
        BY OwnedFacts DEF TotalIsOwned
    <2>2. Len(blocks_') * blockGoodAllocSize = p
        BY <1>3
    <2> HIDE DEF p
    <2> QED
        BY <1>1, <1>3, <1>6, <2>1, <2>2, ArenaAssumption
<1> QED
    BY <1>7, <1>8 DEF TotalIsOwned, blockGoodAllocSize

(* A normal block adds its size once. *)
LEMMA BlockKeepsTotal ==
    ASSUME ArenaInv, TotalIsOwned, NEW n \in Request, AllocateBlock(n)
    PROVE  TotalIsOwned'
<1> DEFINE s == roundUp(n)
           k == Len(blocks_)
           b == blockGoodAllocSize
<1>1. s \in Nat
    BY RoundUpFacts, ArenaAssumption
<1>2. PICK m \in Mem : blocks_' = Append(blocks_, m)
    BY DEF AllocateBlock
<1>3. /\ ~LimitExceeded(s) /\ s <= minBlockSize_ /\ largeBlocks_' = largeBlocks_
      /\ totalAllocatedSize_' = totalAllocatedSize_ + b
    BY DEF AllocateBlock
<1>4. Len(blocks_') = k + 1 /\ k \in Nat /\ b \in Nat
    BY <1>2, OwnedFacts DEF ArenaInv, ArenaTypeOK
<1>5. LargeTotal' = LargeTotal
    BY <1>3, LargeTotalIsSum, LargeTotalIsSumNext
<1> HIDE DEF s, k
<1>6. sizeLimit_ # kNoSizeLimit => totalAllocatedSize_' <= sizeLimit_
    BY <1>1, <1>3, OwnedFacts, ArenaAssumption DEF LimitExceeded, TotalIsOwned, blockGoodAllocSize
<1>7. totalAllocatedSize_ = k * b + LargeTotal /\ k * b \in Nat /\ LargeTotal \in Nat
    BY OwnedFacts DEF TotalIsOwned, k
<1> HIDE DEF b
<1>8. (k + 1) * b = k * b + b
    BY <1>4
<1>9. totalAllocatedSize_' = Len(blocks_') * b + LargeTotal'
    BY <1>3, <1>4, <1>5, <1>7, <1>8
<1> QED
    BY <1>6, <1>9 DEF TotalIsOwned, b, blockGoodAllocSize

(* Every step keeps the total exact: clear() returns what the large blocks    *)
(* took, and the other steps own what they owned.                             *)
LEMMA TotalStep ==
    ASSUME ArenaInv, TotalIsOwned, [ArenaNext]_arenaVars
    PROVE  TotalIsOwned'
<1>1. ASSUME UNCHANGED <<blocks_, largeBlocks_, totalAllocatedSize_>> PROVE TotalIsOwned'
    <2>1. LargeTotal' = LargeTotal
        BY <1>1, LargeTotalIsSum, LargeTotalIsSumNext
    <2> QED
        BY <1>1, <2>1 DEF TotalIsOwned, blockGoodAllocSize
<1>2. ASSUME largeBlocks_' = [m \in Mem |-> 0] PROVE LargeTotal' = 0
    BY <1>2, LargeTotalIsSumNext, SumOfFacts
<1>3. CASE clear
    <2>1. /\ largeBlocks_' = [m \in Mem |-> 0] /\ blocks_' = blocks_
          /\ totalAllocatedSize_' = totalAllocatedSize_ - LargeTotal
        BY <1>3 DEF clear, blockVars
    <2>2. LargeTotal' = 0
        BY <1>2, <2>1
    <2>3. totalAllocatedSize_' = Len(blocks_') * blockGoodAllocSize + LargeTotal'
        BY <2>1, <2>2, OwnedFacts DEF TotalIsOwned
    <2>4. totalAllocatedSize_' <= totalAllocatedSize_ /\ totalAllocatedSize_ \in Int
          /\ totalAllocatedSize_' \in Int
        BY <2>1, OwnedFacts DEF TotalIsOwned
    <2>5. sizeLimit_ # kNoSizeLimit => totalAllocatedSize_' <= sizeLimit_
        BY <2>4, ArenaAssumption DEF TotalIsOwned
    <2> QED
        BY <2>3, <2>5 DEF TotalIsOwned, blockGoodAllocSize
<1>4. CASE Destroy
    <2>1. /\ largeBlocks_' = [m \in Mem |-> 0] /\ blocks_' = <<>> /\ totalAllocatedSize_' = 0
        BY <1>4 DEF Destroy
    <2>2. LargeTotal' = 0 /\ Len(blocks_') = 0
        BY <1>2, <2>1
    <2> QED
        BY <2>1, <2>2, OwnedFacts, ArenaAssumption DEF TotalIsOwned, blockGoodAllocSize
<1>5. ASSUME NEW n \in Request, allocate(n) PROVE TotalIsOwned'
    <2>1. CASE AllocateFast(n) \/ AllocateReuse(n) \/ AllocateThrows(n)
        BY <1>1, <2>1 DEF AllocateFast, AllocateReuse, AllocateThrows, blockVars
    <2> QED
        BY <1>5, <2>1, LargeKeepsTotal, BlockKeepsTotal DEF allocate
<1>6. CASE UNCHANGED arenaVars
    BY <1>1, <1>6 DEF arenaVars, blockVars
<1> QED
    BY <1>3, <1>4, <1>5, <1>6 DEF ArenaNext

(* totalSize() is what the arena owns, and never above the limit, through     *)
(* every sequence of allocations, failed ones, and clear()s.                  *)
THEOREM ArenaTotalIsOwned == ArenaSpec => []TotalIsOwned
<1>1. ArenaInit => TotalIsOwned
    <2> SUFFICES ASSUME ArenaInit PROVE TotalIsOwned
        OBVIOUS
    <2>1. LargeTotal = 0
        BY LargeTotalIsSum, SumOfFacts DEF ArenaInit
    <2>2. Len(blocks_) = 0 /\ totalAllocatedSize_ = 0
        BY DEF ArenaInit
    <2> QED
        BY <2>1, <2>2, ArenaAssumption DEF TotalIsOwned, blockGoodAllocSize
<1>2. ArenaInv /\ TotalIsOwned /\ [ArenaNext]_arenaVars => TotalIsOwned'
    BY TotalStep
<1> QED
    BY <1>1, <1>2, ArenaInitInv, ArenaStepInv, PTL DEF ArenaSpec
=============================================================================
