----------------------------- MODULE AtomicList -----------------------------
(***************************************************************************)
(* rapidudf/common/AtomicIntrusiveLinkedList.h: the lock-free list on which *)
(* a Context keeps its cleanups.  Threads insert at the head with a         *)
(* compare-and-swap; a sweep takes the whole list with one exchange and      *)
(* walks it alone.  A node is a CleanupFuncWrapper: it is allocated by the  *)
(* thread that inserts it and deleted by the sweep that calls it, and its   *)
(* memory may be allocated again at once.                                   *)
(*                                                                          *)
(* The list is atomic operations on head_ and plain ones on hooks; steps    *)
(* interleave in one order.  stack, batch, turned and owner are history      *)
(* variables: what the pointers are meant to represent.                     *)
(***************************************************************************)
EXTENDS Integers, Sequences

CONSTANTS Thread, Node, Null

ASSUME ListAssumption == Null \notin Node /\ "free" \notin Thread /\ "list" \notin Thread

VARIABLES head,     \* head_
          next,     \* the hook of each node
          pc,       \* where each thread is
          mode,     \* sweep or reverseSweep
          node,     \* t of insertHead and of unlinkAll
          oldHead,  \* oldHead of insertHead
          cur,      \* head of reverse and unlinkAll
          rhead,    \* rhead of reverse
          stack,    \* history: the nodes in the list, newest first
          batch,    \* history: the nodes a sweep has still to call, in that order
          turned,   \* history: how many of them reverse has turned around
          owner     \* history: "free", "list", or the thread that holds the node

localVars == <<pc, mode, node, oldHead, cur, rhead>>
listVars == <<head, next, localVars, stack, batch, turned, owner>>

ListInit ==
    /\ head = Null
    /\ next = [n \in Node |-> Null]
    /\ pc = [t \in Thread |-> "idle"]
    /\ mode = [t \in Thread |-> "sweep"]
    /\ node = [t \in Thread |-> Null]
    /\ oldHead = [t \in Thread |-> Null]
    /\ cur = [t \in Thread |-> Null]
    /\ rhead = [t \in Thread |-> Null]
    /\ stack = <<>>
    /\ batch = [t \in Thread |-> <<>>]
    /\ turned = [t \in Thread |-> 0]
    /\ owner = [n \in Node |-> "free"]

-----------------------------------------------------------------------------
(* insertHead, called with a new node whose hook is null. *)
Insert(t, n) ==
    /\ pc[t] = "idle" /\ owner[n] = "free"
    /\ node' = [node EXCEPT ![t] = n]
    /\ next' = [next EXCEPT ![n] = Null]
    /\ owner' = [owner EXCEPT ![n] = t]
    /\ pc' = [pc EXCEPT ![t] = "load"]
    /\ UNCHANGED <<head, mode, oldHead, cur, rhead, stack, batch, turned>>

LoadHead(t) ==
    /\ pc[t] = "load"
    /\ oldHead' = [oldHead EXCEPT ![t] = head]
    /\ pc' = [pc EXCEPT ![t] = "link"]
    /\ UNCHANGED <<head, next, mode, node, cur, rhead, stack, batch, turned, owner>>

LinkNode(t) ==
    /\ pc[t] = "link"
    /\ next' = [next EXCEPT ![node[t]] = oldHead[t]]
    /\ pc' = [pc EXCEPT ![t] = "cas"]
    /\ UNCHANGED <<head, mode, node, oldHead, cur, rhead, stack, batch, turned, owner>>

(* Mutant: the head is stored without looking at it again. *)
SwapHeadBlindly(t) ==
    /\ pc[t] = "cas"
    /\ head' = node[t]
    /\ stack' = <<node[t]>> \o stack
    /\ owner' = [owner EXCEPT ![node[t]] = "list"]
    /\ node' = [node EXCEPT ![t] = Null]
    /\ oldHead' = [oldHead EXCEPT ![t] = Null]
    /\ pc' = [pc EXCEPT ![t] = "idle"]
    /\ UNCHANGED <<next, mode, cur, rhead, batch, turned>>

(* compare_exchange_weak succeeds and insertHead returns. *)
SwapHead(t) ==
    /\ pc[t] = "cas" /\ head = oldHead[t]
    /\ head' = node[t]
    /\ stack' = <<node[t]>> \o stack
    /\ owner' = [owner EXCEPT ![node[t]] = "list"]
    /\ node' = [node EXCEPT ![t] = Null]
    /\ oldHead' = [oldHead EXCEPT ![t] = Null]
    /\ pc' = [pc EXCEPT ![t] = "idle"]
    /\ UNCHANGED <<next, mode, cur, rhead, batch, turned>>

(* It fails, possibly though the head is the expected one, and stores the     *)
(* head it found in oldHead.                                                  *)
SwapFails(t) ==
    /\ pc[t] = "cas"
    /\ oldHead' = [oldHead EXCEPT ![t] = head]
    /\ pc' = [pc EXCEPT ![t] = "link"]
    /\ UNCHANGED <<head, next, mode, node, cur, rhead, stack, batch, turned, owner>>

-----------------------------------------------------------------------------
(* sweep and reverseSweep *)
Sweep(t, m) ==
    /\ pc[t] = "idle"
    /\ mode' = [mode EXCEPT ![t] = m]
    /\ pc' = [pc EXCEPT ![t] = "take"]
    /\ UNCHANGED <<head, next, node, oldHead, cur, rhead, stack, batch, turned, owner>>

Elements(s) == {s[i] : i \in 1..Len(s)}

Reversed(s) == [i \in 1..Len(s) |-> s[Len(s) + 1 - i]]

(* head_.exchange(nullptr) of an empty list ends the sweep. *)
TakeNone(t) ==
    /\ pc[t] = "take" /\ head = Null
    /\ pc' = [pc EXCEPT ![t] = "idle"]
    /\ UNCHANGED <<head, next, mode, node, oldHead, cur, rhead, stack, batch, turned, owner>>

(* Mutant: reverseSweep walks the list without taking it. *)
TakeAllLeaving(t) ==
    /\ pc[t] = "take" /\ head # Null
    /\ cur' = [cur EXCEPT ![t] = head]
    /\ batch' = [batch EXCEPT ![t] = IF mode[t] = "sweep" THEN Reversed(stack) ELSE stack]
    /\ owner' = [n \in Node |-> IF n \in Elements(stack) THEN t ELSE owner[n]]
    /\ pc' = [pc EXCEPT ![t] = IF mode[t] = "sweep" THEN "reverse" ELSE "unlink"]
    /\ UNCHANGED <<head, stack, next, mode, node, oldHead, rhead, turned>>

(* The exchange takes every node.  sweep first turns the list around. *)
TakeAll(t) ==
    /\ pc[t] = "take" /\ head # Null
    /\ head' = Null
    /\ cur' = [cur EXCEPT ![t] = head]
    /\ batch' = [batch EXCEPT ![t] = IF mode[t] = "sweep" THEN Reversed(stack) ELSE stack]
    /\ stack' = <<>>
    /\ owner' = [n \in Node |-> IF n \in Elements(stack) THEN t ELSE owner[n]]
    /\ pc' = [pc EXCEPT ![t] = IF mode[t] = "sweep" THEN "reverse" ELSE "unlink"]
    /\ UNCHANGED <<next, mode, node, oldHead, rhead, turned>>

(* Mutant: the hook is overwritten before it is followed. *)
ReverseNodeTooEarly(t) ==
    /\ pc[t] = "reverse" /\ cur[t] # Null
    /\ next' = [next EXCEPT ![cur[t]] = rhead[t]]
    /\ cur' = [cur EXCEPT ![t] = next'[cur[t]]]
    /\ rhead' = [rhead EXCEPT ![t] = cur[t]]
    /\ turned' = [turned EXCEPT ![t] = @ + 1]
    /\ UNCHANGED <<head, pc, mode, node, oldHead, stack, batch, owner>>

ReverseNode(t) ==
    /\ pc[t] = "reverse" /\ cur[t] # Null
    /\ cur' = [cur EXCEPT ![t] = next[cur[t]]]
    /\ next' = [next EXCEPT ![cur[t]] = rhead[t]]
    /\ rhead' = [rhead EXCEPT ![t] = cur[t]]
    /\ turned' = [turned EXCEPT ![t] = @ + 1]
    /\ UNCHANGED <<head, pc, mode, node, oldHead, stack, batch, owner>>

ReverseDone(t) ==
    /\ pc[t] = "reverse" /\ cur[t] = Null
    /\ cur' = [cur EXCEPT ![t] = rhead[t]]
    /\ rhead' = [rhead EXCEPT ![t] = Null]
    /\ turned' = [turned EXCEPT ![t] = 0]
    /\ pc' = [pc EXCEPT ![t] = "unlink"]
    /\ UNCHANGED <<head, next, mode, node, oldHead, stack, batch, owner>>

(* Mutant: the loop ends one node early. *)
UnlinkAllButLast(t) ==
    /\ pc[t] = "unlink" /\ cur[t] # Null
    /\ node' = [node EXCEPT ![t] = cur[t]]
    /\ cur' = [cur EXCEPT ![t] = next[cur[t]]]
    /\ next' = [next EXCEPT ![cur[t]] = Null]
    /\ batch' = [batch EXCEPT ![t] = Tail(@)]
    /\ pc' = [pc EXCEPT ![t] = IF next[cur[t]] = Null THEN "unlink" ELSE "func"]
    /\ UNCHANGED <<head, mode, oldHead, rhead, stack, turned, owner>>

(* unlinkAll reads the hook before it gives the node to the callback. *)
Unlink(t) ==
    /\ pc[t] = "unlink" /\ cur[t] # Null
    /\ node' = [node EXCEPT ![t] = cur[t]]
    /\ cur' = [cur EXCEPT ![t] = next[cur[t]]]
    /\ next' = [next EXCEPT ![cur[t]] = Null]
    /\ batch' = [batch EXCEPT ![t] = Tail(@)]
    /\ pc' = [pc EXCEPT ![t] = "func"]
    /\ UNCHANGED <<head, mode, oldHead, rhead, stack, turned, owner>>

(* The callback of Context::Reset runs the cleanup and deletes the node. *)
CallFunc(t) ==
    /\ pc[t] = "func"
    /\ owner' = [owner EXCEPT ![node[t]] = "free"]
    /\ node' = [node EXCEPT ![t] = Null]
    /\ pc' = [pc EXCEPT ![t] = "unlink"]
    /\ UNCHANGED <<head, next, mode, oldHead, cur, rhead, stack, batch, turned>>

(* sweep tries again until the list is empty; reverseSweep returns. *)
UnlinkDone(t) ==
    /\ pc[t] = "unlink" /\ cur[t] = Null
    /\ pc' = [pc EXCEPT ![t] = IF mode[t] = "sweep" THEN "take" ELSE "idle"]
    /\ UNCHANGED <<head, next, mode, node, oldHead, cur, rhead, stack, batch, turned, owner>>

ListStep(t) ==
    \/ LoadHead(t) \/ LinkNode(t) \/ SwapHead(t) \/ SwapFails(t)
    \/ TakeNone(t) \/ TakeAll(t) \/ ReverseNode(t) \/ ReverseDone(t)
    \/ Unlink(t) \/ CallFunc(t) \/ UnlinkDone(t)

ListNext ==
    \E t \in Thread :
        \/ \E n \in Node : Insert(t, n)
        \/ \E m \in {"sweep", "reverseSweep"} : Sweep(t, m)
        \/ ListStep(t)

ListSpec == ListInit /\ [][ListNext]_listVars

-----------------------------------------------------------------------------
Pointer == Node \cup {Null}

(* A thread has a node exactly while it inserts or calls one. *)
ListTypeOK ==
    /\ head \in Pointer /\ next \in [Node -> Pointer]
    /\ pc \in [Thread -> {"idle", "load", "link", "cas", "take", "reverse", "unlink", "func"}]
    /\ mode \in [Thread -> {"sweep", "reverseSweep"}]
    /\ node \in [Thread -> Pointer]
    /\ \A t \in Thread : node[t] # Null <=> pc[t] \in {"load", "link", "cas", "func"}
    /\ oldHead \in [Thread -> Pointer]
    /\ cur \in [Thread -> Pointer] /\ rhead \in [Thread -> Pointer]
    /\ stack \in Seq(Node) /\ batch \in [Thread -> Seq(Node)]
    /\ turned \in [Thread -> Nat]
    /\ owner \in [Node -> {"free", "list"} \cup Thread]

(* The hooks lead from p through exactly the nodes of s, in that order. *)
Chain(hook, p, s) ==
    /\ p = IF s = <<>> THEN Null ELSE s[1]
    /\ \A i \in 1..Len(s) : hook[s[i]] = IF i = Len(s) THEN Null ELSE s[i + 1]

(* The list as its users see it.  An insert takes effect with its successful   *)
(* compare-and-swap, a sweep with its exchange; the node that a thread has     *)
(* unlinked is still to be called.                                             *)
ToCall == [t \in Thread |-> IF pc[t] = "func" THEN <<node[t]>> \o batch[t] ELSE batch[t]]

Doing ==
    [t \in Thread |->
        CASE pc[t] = "idle" -> "nothing"
          [] pc[t] \in {"load", "link", "cas"} -> "insert"
          [] OTHER -> IF mode[t] = "sweep" \/ pc[t] = "take" THEN mode[t] ELSE "last"]

Adding == [t \in Thread |-> IF pc[t] \in {"load", "link", "cas"} THEN node[t] ELSE Null]

Cleanups == INSTANCE CleanupList WITH
    Item <- Node, NoItem <- Null, list <- stack, todo <- ToCall, doing <- Doing, adding <- Adding

(* Loads, stores and failing or succeeding compare-and-swaps of many threads   *)
(* amount to an insert that happens at once and a sweep that takes everything  *)
(* at once, calls the nodes in the promised order, each one once, and returns  *)
(* when the list is empty.                                                     *)
ImplementsCleanupList == Cleanups!CleanupSpec

(* Whatever inserts and sweeps interleave, and though a deleted node may be   *)
(* allocated and inserted again while an insertHead still holds its address   *)
(* in oldHead, the list from head_ is the nodes inserted and not taken.       *)
HeadIsStack == Chain(next, head, stack)

(* unlinkAll calls the nodes of one sweep oldest first, those of one          *)
(* reverseSweep newest first: the order that the header promises.             *)
CalledInOrder ==
    \A t \in Thread : pc[t] \in {"unlink", "func"} => Chain(next, cur[t], batch[t])

(* Every cleanup inserted is in the list or with the one sweep that will call *)
(* it: none is lost, none is called twice, none is touched after its delete.  *)
NoneLostNoneTwice ==
    /\ \A i, j \in 1..Len(stack) : stack[i] = stack[j] => i = j
    /\ \A n \in Node : owner[n] = "list" <=> n \in Elements(stack)
    /\ \A t \in Thread :
         /\ \A i, j \in 1..Len(batch[t]) : batch[t][i] = batch[t][j] => i = j
         /\ \A n \in Node : owner[n] = t <=> n = node[t] \/ n \in Elements(batch[t])
         /\ node[t] \notin Elements(batch[t])

(* Between two steps of reverse the first k nodes of the batch are still      *)
(* linked backwards from c, the others forwards from r.                       *)
Halfway(hook, s, k, c, r) ==
    /\ k \in 0..Len(s)
    /\ c = IF k = 0 THEN Null ELSE s[k]
    /\ r = IF k = Len(s) THEN Null ELSE s[k + 1]
    /\ \A i \in 1..k : hook[s[i]] = IF i = 1 THEN Null ELSE s[i - 1]
    /\ \A i \in (k + 1)..Len(s) : hook[s[i]] = IF i = Len(s) THEN Null ELSE s[i + 1]
=============================================================================
