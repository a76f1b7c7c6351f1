----------------------------- MODULE FollyArena -----------------------------
(***************************************************************************)
(* rapidudf/memory/folly_arena.h and .cc: a bump allocator over a list of   *)
(* equally sized blocks, with a block of its own for every larger request.  *)
(* clear() rewinds to the first block and keeps the blocks for reuse.       *)
(*                                                                          *)
(* An address is a block of memory and an offset from Block::start().  new  *)
(* char[] is external: it returns any block not in use, or throws.  Its      *)
(* result and sizeof(Block) are multiples of maxAlign_, which makes align() *)
(* the identity on start().                                                 *)
(***************************************************************************)
EXTENDS Integers, Sequences, FiniteSets, FiniteSetsExt

CONSTANTS Mem,            \* the blocks that new char[] can return
          NoMem,          \* nullptr
          Request,        \* the sizes asked for
          minBlockSize_, sizeLimit_, maxAlign_,
          BlockOverhead,  \* sizeof(Block) = sizeof(LargeBlock)
          SizeMax         \* std::numeric_limits<size_t>::max()

kNoSizeLimit == 0

ASSUME ArenaAssumption ==
    /\ IsFiniteSet(Mem) /\ NoMem \notin Mem
    /\ SizeMax \in Nat /\ Request \subseteq 0..SizeMax
    /\ minBlockSize_ \in Nat \ {0} /\ sizeLimit_ \in 0..SizeMax
    /\ maxAlign_ \in Nat \ {0} /\ BlockOverhead \in Nat \ {0}
    /\ BlockOverhead + minBlockSize_ <= SizeMax
    /\ BlockOverhead % maxAlign_ = 0

VARIABLES blocks_,        \* the blocks, in the order they were obtained
          currentBlock_,  \* index into blocks_; 0 is the position before the first
          largeBlocks_,   \* allocSize of each large block, 0 for other memory
          ptr_, end_,     \* offsets in the current block; both 0 while nullptr
          totalAllocatedSize_, bytesUsed_,
          live            \* history: what allocate() returned since the last clear()

blockVars == <<blocks_, currentBlock_, ptr_, end_>>
arenaVars == <<blockVars, largeBlocks_, totalAllocatedSize_, bytesUsed_, live>>

ArenaInit ==
    /\ blocks_ = <<>> /\ currentBlock_ = 0
    /\ largeBlocks_ = [m \in Mem |-> 0]
    /\ ptr_ = 0 /\ end_ = 0
    /\ totalAllocatedSize_ = 0 /\ bytesUsed_ = 0
    /\ live = {}

-----------------------------------------------------------------------------
roundUp(size) == ((size + maxAlign_ - 1) \div maxAlign_) * maxAlign_

RoundUpThrows(size) == SizeMax - (maxAlign_ - 1) < size

blockGoodAllocSize == BlockOverhead + minBlockSize_

(* Counters are size_t and wrap. *)
AddUsed(size) == bytesUsed_' = (bytesUsed_ + size) % (SizeMax + 1)

InUse(m) == m \in {blocks_[i] : i \in 1..Len(blocks_)} \/ largeBlocks_[m] > 0

Region(m, lo, size) == [mem |-> m, lo |-> lo, hi |-> lo + size]

CurrentMem == IF blocks_ = <<>> THEN NoMem ELSE blocks_[currentBlock_]

(* Mutant: one byte too many. *)
FitsCurrentOffByOne(size) == end_ - ptr_ + 1 >= size

FitsCurrent(size) == end_ - ptr_ >= size

(* Mutant: no block is ever used again. *)
canReuseNoBlock(size) == FALSE

canReuseExistingBlock(size) ==
    /\ size <= minBlockSize_
    /\ blocks_ # <<>> /\ currentBlock_ # Len(blocks_)

(* The fast path: bump the pointer.  An arena without blocks returns nullptr  *)
(* for a request of no bytes.                                                 *)
AllocateFast(n) ==
    LET size == roundUp(n) IN
    /\ ~RoundUpThrows(n) /\ FitsCurrent(size)
    /\ AddUsed(size)
    /\ ptr_' = ptr_ + size
    /\ live' = live \cup {Region(CurrentMem, ptr_, size)}
    /\ UNCHANGED <<blocks_, currentBlock_, end_, largeBlocks_, totalAllocatedSize_>>

(* After a clear(): move on to the next block obtained before it. *)
AllocateReuse(n) ==
    LET size == roundUp(n) IN
    /\ ~RoundUpThrows(n) /\ ~FitsCurrent(size) /\ canReuseExistingBlock(size)
    /\ AddUsed(size)
    /\ currentBlock_' = currentBlock_ + 1
    /\ ptr_' = size
    /\ end_' = minBlockSize_
    /\ live' = live \cup {Region(blocks_[currentBlock_ + 1], 0, size)}
    /\ UNCHANGED <<blocks_, largeBlocks_, totalAllocatedSize_>>

-----------------------------------------------------------------------------
(* allocateSlow *)
SlowPath(n) ==
    ~RoundUpThrows(n) /\ ~FitsCurrent(roundUp(n)) /\ ~canReuseExistingBlock(roundUp(n))

(* Mutant: the block header is not counted. *)
LimitExceededByBody(size) ==
    LET body == IF size > minBlockSize_ THEN size ELSE minBlockSize_ IN
    \/ SizeMax - BlockOverhead < body
    \/ sizeLimit_ # kNoSizeLimit /\ body > sizeLimit_ - totalAllocatedSize_

LimitExceeded(size) ==
    LET body == IF size > minBlockSize_ THEN size ELSE minBlockSize_ IN
    \/ SizeMax - BlockOverhead < body
    \/ sizeLimit_ # kNoSizeLimit /\ body + BlockOverhead > sizeLimit_ - totalAllocatedSize_

(* A large block serves this request only; ptr_ and end_ stay. *)
AllocateLarge(n) ==
    LET size == roundUp(n) IN
    /\ SlowPath(n) /\ ~LimitExceeded(size) /\ size > minBlockSize_
    /\ \E m \in Mem :
         /\ ~InUse(m)
         /\ largeBlocks_' = [largeBlocks_ EXCEPT ![m] = BlockOverhead + size]
         /\ live' = live \cup {Region(m, 0, size)}
    /\ AddUsed(size)
    /\ totalAllocatedSize_' = totalAllocatedSize_ + BlockOverhead + size
    /\ UNCHANGED blockVars

(* Mutant: the new block becomes current and its first bytes stay unclaimed. *)
AllocateBlockUnclaimed(n) ==
    LET size == roundUp(n) IN
    /\ SlowPath(n) /\ ~LimitExceeded(size) /\ size <= minBlockSize_
    /\ \E m \in Mem :
         /\ ~InUse(m)
         /\ blocks_' = Append(blocks_, m)
         /\ live' = live \cup {Region(m, 0, size)}
    /\ currentBlock_' = Len(blocks_')
    /\ ptr_' = 0
    /\ end_' = minBlockSize_
    /\ AddUsed(size)
    /\ totalAllocatedSize_' = totalAllocatedSize_ + blockGoodAllocSize
    /\ UNCHANGED largeBlocks_

(* A new block, of which the request takes the first bytes. *)
AllocateBlock(n) ==
    LET size == roundUp(n) IN
    /\ SlowPath(n) /\ ~LimitExceeded(size) /\ size <= minBlockSize_
    /\ \E m \in Mem :
         /\ ~InUse(m)
         /\ blocks_' = Append(blocks_, m)
         /\ live' = live \cup {Region(m, 0, size)}
    /\ currentBlock_' = Len(blocks_')
    /\ ptr_' = size
    /\ end_' = minBlockSize_
    /\ AddUsed(size)
    /\ totalAllocatedSize_' = totalAllocatedSize_ + blockGoodAllocSize
    /\ UNCHANGED largeBlocks_

(* std::bad_alloc: from the limit, or from new char[].  bytesUsed_ was        *)
(* incremented before.                                                        *)
AllocateThrows(n) ==
    /\ SlowPath(n)
    /\ AddUsed(roundUp(n))
    /\ UNCHANGED <<blockVars, largeBlocks_, totalAllocatedSize_, live>>

(* std::bad_alloc from roundUp: nothing has changed, the call is a stutter.   *)
allocate(n) ==
    \/ AllocateFast(n) \/ AllocateReuse(n)
    \/ AllocateLarge(n) \/ AllocateBlock(n) \/ AllocateThrows(n)

-----------------------------------------------------------------------------
LargeTotal == MapThenSumSet(LAMBDA m : largeBlocks_[m], Mem)

(* clear: frees the large blocks and rewinds to the first block. *)
clear ==
    /\ bytesUsed_' = 0
    /\ largeBlocks_' = [m \in Mem |-> 0]
    /\ totalAllocatedSize_' = totalAllocatedSize_ - LargeTotal
    /\ live' = {}
    /\ IF blocks_ = <<>> THEN UNCHANGED blockVars
       ELSE /\ currentBlock_' = 1 /\ ptr_' = 0 /\ end_' = minBlockSize_
            /\ UNCHANGED blocks_

(* The destructor frees every block; what follows is a new arena. *)
Destroy ==
    /\ blocks_' = <<>> /\ currentBlock_' = 0
    /\ largeBlocks_' = [m \in Mem |-> 0]
    /\ ptr_' = 0 /\ end_' = 0
    /\ totalAllocatedSize_' = 0 /\ bytesUsed_' = 0
    /\ live' = {}

ArenaNext == (\E n \in Request : allocate(n)) \/ clear \/ Destroy

ArenaSpec == ArenaInit /\ [][ArenaNext]_arenaVars

-----------------------------------------------------------------------------
(* Counters are in the range of size_t, offsets inside a block, and a block   *)
(* is current whenever there is one.                                          *)
ArenaTypeOK ==
    /\ blocks_ \in Seq(Mem) /\ currentBlock_ \in 0..Len(blocks_)
    /\ (currentBlock_ = 0) <=> (blocks_ = <<>>)
    /\ largeBlocks_ \in [Mem -> 0..SizeMax]
    /\ ptr_ \in 0..end_ /\ end_ \in {0, minBlockSize_}
    /\ bytesUsed_ \in 0..SizeMax
    /\ live \subseteq [mem : Mem \cup {NoMem}, lo : 0..SizeMax, hi : 0..SizeMax]

(* What makes the properties below inductive: a block appears once and is not also  *)
(* a large block; allocations lie below ptr_ in the current block, in no      *)
(* block after it, and alone in a large block; and the blocks before the      *)
(* current one hold some.                                                     *)
BlocksSeparate ==
    /\ \A i, j \in 1..Len(blocks_) : blocks_[i] = blocks_[j] => i = j
    /\ \A i \in 1..Len(blocks_) : largeBlocks_[blocks_[i]] = 0
    /\ blocks_ # <<>> => end_ = minBlockSize_
    /\ blocks_ = <<>> => end_ = 0

InNull(a) == a.mem = NoMem /\ a.hi = 0

InBlock(a, i) ==
    /\ a.mem = blocks_[i] /\ a.hi <= minBlockSize_
    /\ i = currentBlock_ => a.hi <= ptr_

InLarge(a) ==
    a.mem \in Mem /\ largeBlocks_[a.mem] > 0 /\ a.hi + BlockOverhead <= largeBlocks_[a.mem]

LivePlaced ==
    /\ \A a \in live : a.lo <= a.hi
    /\ \A a \in live : InNull(a) \/ InLarge(a) \/ \E i \in 1..currentBlock_ : InBlock(a, i)
    /\ \A a, b \in live : InLarge(a) /\ a.mem = b.mem => a = b

PassedBlocksUsed ==
    \A i \in 1..currentBlock_ :
        i # currentBlock_ \/ ptr_ > 0 => \E a \in live : a.mem = blocks_[i]

(* Two allocations handed out since the last clear() never share a byte:      *)
(* allocate() in blocks kept from before a clear(), in new ones and in large  *)
(* ones hands out fresh memory.                                               *)
LiveDisjoint ==
    \A a, b \in live : a # b /\ a.mem = b.mem => a.hi <= b.lo \/ b.hi <= a.lo

(* Every allocation lies inside a block that the arena still owns, wherever   *)
(* allocate() found it; only a request of no bytes may get nullptr.           *)
LiveBacked ==
    \A a \in live :
        \/ a.mem = NoMem /\ a.lo = a.hi
        \/ \E i \in 1..Len(blocks_) : a.mem = blocks_[i] /\ a.hi <= minBlockSize_
        \/ a.mem \in Mem /\ largeBlocks_[a.mem] > 0 /\ a.hi + BlockOverhead <= largeBlocks_[a.mem]

(* totalSize() is what the arena has obtained from new char[] and not freed,  *)
(* across clear() and large blocks, and respects the limit.                   *)
TotalIsOwned ==
    /\ totalAllocatedSize_ = Len(blocks_) * blockGoodAllocSize + LargeTotal
    /\ sizeLimit_ # kNoSizeLimit => totalAllocatedSize_ <= sizeLimit_

(* clear() keeps the blocks for reuse: a new block is obtained only when      *)
(* every block the arena has holds an allocation made since.                  *)
NewBlockOnlyWhenAllUsed ==
    [][Len(blocks_') > Len(blocks_) =>
         \A i \in 1..Len(blocks_) : \E a \in live : a.mem = blocks_[i]]_arenaVars
=============================================================================
