---------------------------- MODULE CleanupList -----------------------------
(***************************************************************************)
(* What the cleanup list promises, with no pointers and no head to compare: *)
(* an insert takes effect in one step, a sweep takes all that is there in    *)
(* one step and calls it alone, in order, and returns when it should.  This  *)
(* is the list as Context uses it and as AtomicList implements it            *)
(* (rapidudf/common/AtomicIntrusiveLinkedList.h, context/context.cc).        *)
(***************************************************************************)
EXTENDS Integers, Sequences

CONSTANTS Thread,
          Item,     \* what is inserted and called; used again after a call
          NoItem

VARIABLES list,     \* inserted and not taken, newest first
          todo,     \* taken by the sweep of each thread and not called, next first
          doing,    \* the operation of each thread
          adding    \* the item it inserts

cleanupVars == <<list, todo, doing, adding>>

Newest == "reverseSweep"   \* calls the newest first, and takes once
Oldest == "sweep"          \* calls the oldest first, until the list is empty

CleanupInit ==
    /\ list = <<>>
    /\ todo = [t \in Thread |-> <<>>]
    /\ doing = [t \in Thread |-> "nothing"]
    /\ adding = [t \in Thread |-> NoItem]

In(x, s) == \E i \in 1..Len(s) : s[i] = x

(* An item that is nowhere: inserting one twice would make the list a cycle. *)
Unused(x) == ~In(x, list) /\ \A t \in Thread : adding[t] # x /\ ~In(x, todo[t])

BeginInsert(t, x) ==
    /\ doing[t] = "nothing" /\ Unused(x)
    /\ doing' = [doing EXCEPT ![t] = "insert"]
    /\ adding' = [adding EXCEPT ![t] = x]
    /\ UNCHANGED <<list, todo>>

InsertHead(t) ==
    /\ doing[t] = "insert"
    /\ list' = <<adding[t]>> \o list
    /\ doing' = [doing EXCEPT ![t] = "nothing"]
    /\ adding' = [adding EXCEPT ![t] = NoItem]
    /\ UNCHANGED todo

BeginSweep(t, order) ==
    /\ doing[t] = "nothing"
    /\ doing' = [doing EXCEPT ![t] = order]
    /\ UNCHANGED <<list, todo, adding>>

OldestFirst(s) == [i \in 1..Len(s) |-> s[Len(s) + 1 - i]]

Take(t) ==
    /\ doing[t] \in {Newest, Oldest} /\ todo[t] = <<>> /\ list # <<>>
    /\ todo' = [todo EXCEPT ![t] = IF doing[t] = Oldest THEN OldestFirst(list) ELSE list]
    /\ doing' = [doing EXCEPT ![t] = IF @ = Oldest THEN Oldest ELSE "last"]
    /\ list' = <<>>
    /\ UNCHANGED adding

Call(t) ==
    /\ todo[t] # <<>>
    /\ todo' = [todo EXCEPT ![t] = Tail(@)]
    /\ UNCHANGED <<list, doing, adding>>

EndSweep(t) ==
    /\ \/ doing[t] \in {Newest, Oldest} /\ list = <<>>
       \/ doing[t] = "last"
    /\ todo[t] = <<>>
    /\ doing' = [doing EXCEPT ![t] = "nothing"]
    /\ UNCHANGED <<list, todo, adding>>

CleanupNext ==
    \E t \in Thread :
        \/ \E x \in Item : BeginInsert(t, x)
        \/ \E order \in {Newest, Oldest} : BeginSweep(t, order)
        \/ InsertHead(t) \/ Take(t) \/ Call(t) \/ EndSweep(t)

CleanupSpec == CleanupInit /\ [][CleanupNext]_cleanupVars
=============================================================================
