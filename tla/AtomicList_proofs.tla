-------------------------- MODULE AtomicList_proofs -------------------------
(***************************************************************************)
(* The cleanup list is a stack, for any number of threads and nodes and any *)
(* interleaving of their inserts and sweeps.                                *)
(***************************************************************************)
EXTENDS AtomicList, SequenceTheorems, TLAPS

(* What a thread knows of its own pointers. *)
Local(t) ==
    /\ pc[t] \in {"unlink", "func"} => Chain(next, cur[t], batch[t])
    /\ pc[t] = "cas" => next[node[t]] = oldHead[t]
    /\ pc[t] = "reverse" =>
         Halfway(next, batch[t], Len(batch[t]) - turned[t], cur[t], rhead[t])
    /\ pc[t] \notin {"reverse", "unlink", "func"} => batch[t] = <<>>
    /\ pc[t] # "reverse" => turned[t] = 0 /\ rhead[t] = Null

ListInv == ListTypeOK /\ HeadIsStack /\ NoneLostNoneTwice /\ \A t \in Thread : Local(t)

(* A step of t leaves the variables of the others alone ... *)
OthersUnchanged(t) ==
    \A u \in Thread \ {t} :
        /\ pc'[u] = pc[u] /\ node'[u] = node[u] /\ oldHead'[u] = oldHead[u]
        /\ cur'[u] = cur[u] /\ rhead'[u] = rhead[u] /\ batch'[u] = batch[u]
        /\ turned'[u] = turned[u]

(* ... and writes only the hooks of its own or of unused nodes. *)
TouchesOwn(t) ==
    \A n \in Node : owner[n] \notin {t, "free"} => next'[n] = next[n]

-----------------------------------------------------------------------------
(* A chain depends on the hooks of its own nodes only. *)
LEMMA ChainFrame ==
    ASSUME NEW f, NEW g, NEW p, NEW s \in Seq(Node),
           \A n \in Elements(s) : g[n] = f[n], Chain(f, p, s)
    PROVE  Chain(g, p, s)
BY DEF Chain, Elements

(* The same of a chain that is partly reversed. *)
LEMMA HalfwayFrame ==
    ASSUME NEW f, NEW g, NEW s \in Seq(Node), NEW k, NEW c, NEW r,
           \A n \in Elements(s) : g[n] = f[n], Halfway(f, s, k, c, r)
    PROVE  Halfway(g, s, k, c, r)
<1>1. Len(s) \in Nat /\ k \in 0..Len(s)
  BY DEF Halfway
<1>2. \A i \in 1..k : i \in 1..Len(s) /\ g[s[i]] = f[s[i]]
  BY <1>1 DEF Elements
<1>3. \A i \in (k + 1)..Len(s) : i \in 1..Len(s) /\ g[s[i]] = f[s[i]]
  BY <1>1 DEF Elements
<1> QED BY <1>1, <1>2, <1>3 DEF Halfway

(* Linking a node before a chain. *)
LEMMA ChainCons ==
    ASSUME NEW f, NEW p, NEW s \in Seq(Node), NEW n \in Node, f[n] = p, Chain(f, p, s)
    PROVE  Chain(f, n, <<n>> \o s)
<1> DEFINE q == <<n>> \o s
<1>1. /\ q \in Seq(Node) /\ Len(q) = Len(s) + 1 /\ q[1] = n /\ Len(s) \in Nat
      /\ \A i \in 2..Len(q) : q[i] = s[i - 1]
  OBVIOUS
<1>2. q # <<>>
  BY <1>1
<1> HIDE DEF q
<1>3. ASSUME NEW i \in 1..Len(q) PROVE f[q[i]] = IF i = Len(q) THEN Null ELSE q[i + 1]
  <2>1. CASE i = 1
    <3>1. CASE s = <<>>
      BY <1>1, <2>1, <3>1 DEF Chain
    <3>2. CASE s # <<>>
      <4>1. Len(s) > 0 /\ 2 \in 2..Len(q) /\ q[2] = s[1]
        BY <1>1, <3>2
      <4> QED BY <1>1, <2>1, <3>2, <4>1 DEF Chain
    <3> QED BY <3>1, <3>2
  <2>2. CASE i # 1
    <3> PICK j : j = i - 1
      OBVIOUS
    <3>1. j \in 1..Len(s) /\ i \in 2..Len(q) /\ q[i] = s[j] /\ j + 1 = i
      BY <1>1, <2>2
    <3>2. f[s[j]] = IF j = Len(s) THEN Null ELSE s[j + 1]
      BY <3>1 DEF Chain
    <3>3. CASE j = Len(s)
      BY <1>1, <3>1, <3>2, <3>3
    <3>4. CASE j # Len(s)
      <4>1. i # Len(q) /\ i + 1 \in 2..Len(q) /\ q[i + 1] = s[j + 1]
        BY <1>1, <3>1, <3>4
      <4> QED BY <3>1, <3>2, <3>4, <4>1
    <3> QED BY <3>3, <3>4
  <2> QED BY <2>1, <2>2
<1>4. Chain(f, n, q)
  BY <1>1, <1>2, <1>3 DEF Chain
<1> QED BY <1>4 DEF q

(* Following the first hook of a chain. *)
LEMMA ChainTail ==
    ASSUME NEW f, NEW p, NEW s \in Seq(Node), p # Null, Chain(f, p, s)
    PROVE  /\ s # <<>> /\ p = s[1] /\ p \in Node /\ Tail(s) \in Seq(Node)
           /\ Chain(f, f[p], Tail(s))
<1>1. s # <<>> /\ p = s[1] /\ p \in Node
  BY DEF Chain
<1> DEFINE q == Tail(s)
<1>2. /\ q \in Seq(Node) /\ Len(q) = Len(s) - 1 /\ Len(s) \in Nat \ {0}
      /\ \A i \in 1..Len(q) : q[i] = s[i + 1]
  BY <1>1
<1> HIDE DEF q
<1>3. f[p] = IF q = <<>> THEN Null ELSE q[1]
  <2>1. 1 \in 1..Len(s) /\ f[s[1]] = IF 1 = Len(s) THEN Null ELSE s[2]
    BY <1>2 DEF Chain
  <2>2. CASE Len(s) = 1
    <3>1. q = <<>>
      BY <1>2, <2>2
    <3> QED BY <1>1, <2>1, <2>2, <3>1
  <2>3. CASE Len(s) # 1
    <3>1. q # <<>> /\ 1 \in 1..Len(q) /\ q[1] = s[2]
      BY <1>2, <2>3
    <3> QED BY <1>1, <2>1, <2>3, <3>1
  <2> QED BY <2>2, <2>3
<1>4. ASSUME NEW i \in 1..Len(q) PROVE f[q[i]] = IF i = Len(q) THEN Null ELSE q[i + 1]
  <2> PICK j : j = i + 1
    OBVIOUS
  <2>1. j \in 1..Len(s) /\ q[i] = s[j] /\ (i = Len(q) <=> j = Len(s))
    BY <1>2
  <2>2. f[s[j]] = IF j = Len(s) THEN Null ELSE s[j + 1]
    BY <2>1 DEF Chain
  <2>3. i # Len(q) => q[i + 1] = s[j + 1]
    BY <1>2
  <2> QED BY <2>1, <2>2, <2>3
<1>5. Chain(f, f[p], q)
  BY <1>3, <1>4 DEF Chain
<1> QED BY <1>1, <1>2, <1>5 DEF q

Injective(s) == \A i, j \in 1..Len(s) : s[i] = s[j] => i = j

(* Reversing a sequence keeps its elements, each once. *)
LEMMA ReversedFacts ==
    ASSUME NEW s \in Seq(Node)
    PROVE  /\ Reversed(s) \in Seq(Node) /\ Len(Reversed(s)) = Len(s)
           /\ \A i \in 1..Len(s) : Reversed(s)[i] = s[Len(s) + 1 - i]
           /\ Elements(Reversed(s)) = Elements(s)
           /\ Injective(s) => Injective(Reversed(s))
<1> DEFINE n == Len(s)  q == Reversed(s)
<1>1. n \in Nat /\ \A i \in 1..n : n + 1 - i \in 1..n /\ n + 1 - (n + 1 - i) = i
  OBVIOUS
<1>2. q = [i \in 1..n |-> s[n + 1 - i]]
  BY DEF Reversed
<1>3. \A i \in 1..n : q[i] = s[n + 1 - i] /\ q[i] \in Node
  BY <1>1, <1>2
<1>4. q \in Seq(Node) /\ Len(q) = n
  <2>1. q \in [1..n -> Node]
    BY <1>2, <1>3
  <2> HIDE DEF n, q
  <2> QED BY <1>1, <2>1, SeqDef
<1>5. Elements(q) \subseteq Elements(s)
  BY <1>1, <1>3, <1>4 DEF Elements
<1>6. Elements(s) \subseteq Elements(q)
  <2> SUFFICES ASSUME NEW i \in 1..n PROVE s[i] \in Elements(q)
    BY DEF Elements
  <2>1. n + 1 - i \in 1..n /\ q[n + 1 - i] = s[n + 1 - (n + 1 - i)] /\ n + 1 - (n + 1 - i) = i
    BY <1>1, <1>3
  <2>2. q[n + 1 - i] = s[i]
    BY <2>1
  <2> HIDE DEF n, q
  <2> QED BY <1>4, <2>1, <2>2 DEF Elements
<1>7. Injective(s) => Injective(q)
  <2> SUFFICES ASSUME Injective(s), NEW i \in 1..n, NEW j \in 1..n, q[i] = q[j] PROVE i = j
    BY <1>4 DEF Injective
  <2>1. n + 1 - i = n + 1 - j
    <3>1. s[n + 1 - i] = s[n + 1 - j] /\ n + 1 - i \in 1..n /\ n + 1 - j \in 1..n
      BY <1>1, <1>3
    <3> QED BY <3>1 DEF Injective
  <2> QED BY <1>1, <2>1
<1> QED BY <1>3, <1>4, <1>5, <1>6, <1>7

(* Before its first step reverse has turned nothing around. *)
LEMMA HalfwayStart ==
    ASSUME NEW f, NEW p, NEW s \in Seq(Node), Chain(f, p, s)
    PROVE  Halfway(f, Reversed(s), Len(s), p, Null)
<1> DEFINE n == Len(s)
<1> PICK q : q = Reversed(s)
  OBVIOUS
<1>1. n \in Nat /\ Len(q) = n /\ \A i \in 1..n : q[i] = s[n + 1 - i]
  BY ReversedFacts
<1>2. p = IF n = 0 THEN Null ELSE q[n]
  <2>1. CASE n = 0
    <3>1. s = <<>>
      BY <2>1
    <3> QED BY <2>1, <3>1 DEF Chain
  <2>2. CASE n # 0
    <3>1. s # <<>>
      BY <2>2
    <3> HIDE DEF n
    <3>2. n \in 1..n /\ n + 1 - n = 1
      BY <1>1, <2>2
    <3>3. q[n] = s[n + 1 - n]
      BY <1>1, <3>2
    <3>4. q[n] = s[1]
      BY <3>2, <3>3
    <3> QED BY <2>2, <3>1, <3>4 DEF Chain
  <2> QED BY <2>1, <2>2
<1>3. ASSUME NEW i \in 1..n PROVE f[q[i]] = IF i = 1 THEN Null ELSE q[i - 1]
  <2> PICK j : j = n + 1 - i
    OBVIOUS
  <2>1. j \in 1..n /\ q[i] = s[j] /\ (i = 1 <=> j = n)
    BY <1>1
  <2>2. f[s[j]] = IF j = n THEN Null ELSE s[j + 1]
    BY <2>1 DEF Chain
  <2>3. i # 1 => q[i - 1] = s[j + 1]
    <3> SUFFICES ASSUME i # 1 PROVE q[i - 1] = s[j + 1]
      OBVIOUS
    <3> PICK h : h = i - 1
      OBVIOUS
    <3>1. h \in 1..n /\ n + 1 - h = j + 1
      BY <1>1
    <3>2. q[h] = s[n + 1 - h]
      BY <1>1, <3>1
    <3> QED BY <3>1, <3>2
  <2> QED BY <2>1, <2>2, <2>3
<1>4. \A i \in (n + 1)..n : FALSE
  BY <1>1
<1> HIDE DEF n
<1>5. Halfway(f, q, n, p, Null)
  BY <1>1, <1>2, <1>3, <1>4 DEF Halfway
<1> QED BY <1>5 DEF n

(* One step of reverse. *)
LEMMA HalfwayStep ==
    ASSUME NEW f \in [Node -> Pointer], NEW s \in Seq(Node), NEW k, NEW c, NEW r,
           Injective(s), c # Null, Halfway(f, s, k, c, r)
    PROVE  /\ c \in Elements(s) /\ k \in 1..Len(s)
           /\ Halfway([f EXCEPT ![c] = r], s, k - 1, f[c], c)
<1>1. Len(s) \in Nat /\ k \in 1..Len(s) /\ c = s[k] /\ c \in Node
  BY DEF Halfway
<1> PICK g : g = [f EXCEPT ![c] = r]
  OBVIOUS
<1>2. g[c] = r /\ \A i \in 1..Len(s) : i # k => g[s[i]] = f[s[i]]
  BY <1>1 DEF Injective
<1>3. f[c] = IF k - 1 = 0 THEN Null ELSE s[k - 1]
  BY <1>1 DEF Halfway
<1>4. c = IF k - 1 = Len(s) THEN Null ELSE s[(k - 1) + 1]
  BY <1>1
<1>5. \A i \in 1..(k - 1) : g[s[i]] = IF i = 1 THEN Null ELSE s[i - 1]
  BY <1>1, <1>2 DEF Halfway
<1>6. ASSUME NEW i \in ((k - 1) + 1)..Len(s) PROVE g[s[i]] = IF i = Len(s) THEN Null ELSE s[i + 1]
  <2>1. i \in 1..Len(s) /\ (i = k \/ i \in (k + 1)..Len(s))
    BY <1>1
  <2>2. CASE i = k
    BY <1>1, <1>2, <2>2 DEF Halfway
  <2>3. CASE i # k
    BY <1>1, <1>2, <2>1, <2>3 DEF Halfway
  <2> QED BY <2>2, <2>3
<1>7. k - 1 \in 0..Len(s)
  BY <1>1
<1>8. Halfway(g, s, k - 1, f[c], c)
  BY <1>3, <1>4, <1>5, <1>6, <1>7 DEF Halfway
<1>9. c \in Elements(s)
  BY <1>1 DEF Elements
<1> QED BY <1>1, <1>8, <1>9

(* After its last one the whole batch hangs from rhead. *)
LEMMA HalfwayEnd ==
    ASSUME NEW f, NEW s \in Seq(Node), NEW k, NEW r, Halfway(f, s, k, Null, r)
    PROVE  Chain(f, r, s)
<1>1. Len(s) \in Nat /\ k \in 0..Len(s)
  BY DEF Halfway
<1>2. k = 0
  <2> SUFFICES ASSUME k # 0 PROVE FALSE
    OBVIOUS
  <2>1. s[k] \in Node /\ s[k] = Null
    BY <1>1 DEF Halfway
  <2> QED BY <2>1, ListAssumption
<1>3. Len(s) = 0 <=> s = <<>>
  OBVIOUS
<1> QED BY <1>1, <1>2, <1>3 DEF Halfway, Chain

-----------------------------------------------------------------------------
(* A thread that is not stepping keeps what it knows. *)
LEMMA OthersKeep ==
    ASSUME ListInv, NEW t \in Thread, NEW u \in Thread, u # t, OthersUnchanged(t), TouchesOwn(t)
    PROVE  Local(u)'
<1>1. /\ pc'[u] = pc[u] /\ node'[u] = node[u] /\ oldHead'[u] = oldHead[u]
      /\ cur'[u] = cur[u] /\ rhead'[u] = rhead[u] /\ batch'[u] = batch[u]
      /\ turned'[u] = turned[u]
  BY DEF OthersUnchanged
<1>2. batch[u] \in Seq(Node) /\ Local(u)
  BY DEF ListInv, ListTypeOK
<1>3. \A n \in Node : owner[n] = u => next'[n] = next[n]
  BY ListAssumption DEF TouchesOwn
<1>4. \A n \in Elements(batch[u]) : n \in Node /\ owner[n] = u
  BY <1>2 DEF ListInv, NoneLostNoneTwice, Elements
<1>5. \A n \in Elements(batch[u]) : next'[n] = next[n]
  BY <1>3, <1>4
<1>6. pc[u] \in {"unlink", "func"} => Chain(next', cur[u], batch[u])
  BY <1>2, <1>5, ChainFrame DEF Local
<1>7. pc[u] = "cas" => next'[node[u]] = oldHead[u]
  BY <1>2, <1>3 DEF Local, ListInv, ListTypeOK, NoneLostNoneTwice, Pointer
<1>8. pc[u] = "reverse" => Halfway(next', batch[u], Len(batch[u]) - turned[u], cur[u], rhead[u])
  BY <1>2, <1>5, HalfwayFrame DEF Local
<1> QED BY <1>1, <1>2, <1>6, <1>7, <1>8 DEF Local

(* Neither does the list change under a step on other nodes. *)
LEMMA ListKept ==
    ASSUME ListInv, NEW t \in Thread, TouchesOwn(t), head' = head, stack' = stack
    PROVE  HeadIsStack'
<1>1. stack \in Seq(Node) /\ \A n \in Elements(stack) : n \in Node /\ owner[n] = "list"
  BY DEF ListInv, ListTypeOK, NoneLostNoneTwice, Elements
<1>2. \A n \in Elements(stack) : next'[n] = next[n]
  BY <1>1, ListAssumption DEF TouchesOwn
<1>3. Chain(next', head, stack)
  BY <1>1, <1>2, ChainFrame DEF ListInv, HeadIsStack
<1> QED BY <1>3 DEF HeadIsStack

(* What is left to show of a step of t. *)
LEMMA StepKeepsInv ==
    ASSUME ListInv, NEW t \in Thread, OthersUnchanged(t), TouchesOwn(t),
           ListTypeOK', HeadIsStack', NoneLostNoneTwice', Local(t)'
    PROVE  ListInv'
BY OthersKeep DEF ListInv

(* The empty list. *)
LEMMA ListInitInv == ListInit => ListInv
<1> SUFFICES ASSUME ListInit PROVE ListInv
  OBVIOUS
<1> USE ListAssumption DEF ListInit
<1>1. ListTypeOK
  BY DEF ListTypeOK, Pointer
<1>2. HeadIsStack
  BY DEF HeadIsStack, Chain
<1>3. NoneLostNoneTwice
  BY DEF NoneLostNoneTwice, Elements
<1>4. \A t \in Thread : Local(t)
  BY DEF Local
<1> QED BY <1>1, <1>2, <1>3, <1>4 DEF ListInv

(* insertHead is given a new node. *)
LEMMA InsertKeepsInv ==
    ASSUME ListInv, NEW t \in Thread, NEW n \in Node, Insert(t, n)
    PROVE  ListInv'
<1> USE DEF Insert
<1>1. OthersUnchanged(t) /\ TouchesOwn(t)
  BY DEF OthersUnchanged, TouchesOwn, ListInv, ListTypeOK
<1>2. ListTypeOK'
  BY ListAssumption DEF ListInv, ListTypeOK, Pointer
<1>3. HeadIsStack'
  BY <1>1, ListKept
<1>4. batch[t] = <<>> /\ node[t] = Null
  BY DEF ListInv, Local, ListTypeOK
<1>5. NoneLostNoneTwice'
  <2>1. /\ owner' \in [Node -> {"free", "list"} \cup Thread]
        /\ owner'[n] = t /\ \A m \in Node : m # n => owner'[m] = owner[m]
        /\ node'[t] = n /\ \A u \in Thread : u # t => node'[u] = node[u]
        /\ stack' = stack /\ batch' = batch
    BY <1>2 DEF ListInv, ListTypeOK
  <2>2. n \notin Elements(stack) /\ \A u \in Thread : n # node[u] /\ n \notin Elements(batch[u])
    BY ListAssumption DEF ListInv, NoneLostNoneTwice
  <2>3. \A m \in Node : owner'[m] = "list" <=> m \in Elements(stack)
    BY <2>1, <2>2, ListAssumption DEF ListInv, NoneLostNoneTwice
  <2>4. ASSUME NEW u \in Thread
        PROVE  /\ \A m \in Node : owner'[m] = u <=> m = node'[u] \/ m \in Elements(batch[u])
               /\ node'[u] \notin Elements(batch[u])
    <3>1. CASE u = t
      <4>1. \A m \in Node : owner[m] # t
        BY <1>4, ListAssumption DEF ListInv, NoneLostNoneTwice, Elements
      <4> QED BY <1>4, <2>1, <2>2, <3>1, <4>1 DEF Elements
    <3>2. CASE u # t
      BY <2>1, <2>2, <3>2 DEF ListInv, NoneLostNoneTwice
    <3> QED BY <3>1, <3>2
  <2> QED BY <2>1, <2>3, <2>4 DEF ListInv, NoneLostNoneTwice
<1>6. Local(t)'
  BY <1>4 DEF ListInv, Local, ListTypeOK
<1> QED BY <1>1, <1>2, <1>3, <1>5, <1>6, StepKeepsInv

(* The steps of insertHead up to the compare-and-swap. *)
LEMMA LoadKeepsInv ==
    ASSUME ListInv, NEW t \in Thread, LoadHead(t) \/ SwapFails(t)
    PROVE  ListInv'
<1>0. /\ pc[t] \in {"load", "cas"}
      /\ oldHead' = [oldHead EXCEPT ![t] = head] /\ pc' = [pc EXCEPT ![t] = "link"]
      /\ UNCHANGED <<head, next, mode, node, cur, rhead, stack, batch, turned, owner>>
  BY DEF LoadHead, SwapFails
<1>1. OthersUnchanged(t) /\ TouchesOwn(t)
  BY <1>0 DEF OthersUnchanged, TouchesOwn, ListInv, ListTypeOK
<1>2. ListTypeOK'
  <2>1. \A u \in Thread : node'[u] # Null <=> pc'[u] \in {"load", "link", "cas", "func"}
    BY <1>0 DEF ListInv, ListTypeOK
  <2>2. oldHead' \in [Thread -> Pointer]
    BY <1>0 DEF ListInv, ListTypeOK
  <2> QED BY <1>0, <2>1, <2>2 DEF ListInv, ListTypeOK
<1>3. HeadIsStack'
  BY <1>0, <1>1, ListKept
<1>5. NoneLostNoneTwice'
  BY <1>0 DEF ListInv, NoneLostNoneTwice
<1>6. Local(t)'
  BY <1>0 DEF ListInv, Local, ListTypeOK
<1> QED BY <1>1, <1>2, <1>3, <1>5, <1>6, StepKeepsInv

(* The node is linked to the head that was loaded. *)
LEMMA LinkKeepsInv ==
    ASSUME ListInv, NEW t \in Thread, LinkNode(t)
    PROVE  ListInv'
<1> USE DEF LinkNode
<1>1. node[t] \in Node /\ owner[node[t]] = t
  BY DEF ListInv, ListTypeOK, NoneLostNoneTwice, Pointer
<1>2. OthersUnchanged(t) /\ TouchesOwn(t)
  BY <1>1 DEF OthersUnchanged, TouchesOwn, ListInv, ListTypeOK
<1>3. ListTypeOK'
  BY <1>1 DEF ListInv, ListTypeOK
<1>4. HeadIsStack'
  BY <1>2, ListKept
<1>5. NoneLostNoneTwice'
  BY DEF ListInv, NoneLostNoneTwice
<1>6. Local(t)'
  BY <1>1 DEF ListInv, Local, ListTypeOK
<1> QED BY <1>2, <1>3, <1>4, <1>5, <1>6, StepKeepsInv

(* The compare-and-swap succeeds: the node becomes the head.  Because it is   *)
(* already linked to the head that the swap finds, it does not matter whether *)
(* that head was removed and inserted again in between.                       *)
LEMMA SwapKeepsInv ==
    ASSUME ListInv, NEW t \in Thread, SwapHead(t)
    PROVE  ListInv'
<1> USE DEF SwapHead
<1> PICK n : n = node[t]
  OBVIOUS
<1> PICK s : s = stack
  OBVIOUS
<1> PICK q : q = <<n>> \o s
  OBVIOUS
<1>1. /\ n \in Node /\ owner[n] = t /\ next[n] = head /\ batch[t] = <<>> /\ s \in Seq(Node)
      /\ n \notin Elements(s)
  <2>1. n \in Node /\ s \in Seq(Node)
    BY DEF ListInv, ListTypeOK, Pointer
  <2>2. owner[n] = t /\ n \notin Elements(s)
    BY <2>1, ListAssumption DEF ListInv, NoneLostNoneTwice
  <2>3. next[n] = head /\ batch[t] = <<>>
    BY DEF ListInv, Local
  <2> QED BY <2>1, <2>2, <2>3
<1>2. OthersUnchanged(t) /\ TouchesOwn(t)
  BY DEF OthersUnchanged, TouchesOwn, ListInv, ListTypeOK
<1>3. /\ q \in Seq(Node) /\ Len(q) = Len(s) + 1 /\ q[1] = n /\ Len(s) \in Nat
      /\ \A i \in 2..Len(q) : q[i] = s[i - 1] /\ i - 1 \in 1..Len(s)
      /\ \A i \in 1..Len(s) : q[i + 1] = s[i] /\ i + 1 \in 1..Len(q)
  BY <1>1
<1>4. ListTypeOK'
  <2>1. \A u \in Thread : node'[u] # Null <=> pc'[u] \in {"load", "link", "cas", "func"}
    BY DEF ListInv, ListTypeOK
  <2> QED BY <1>1, <1>3, <2>1 DEF ListInv, ListTypeOK, Pointer
<1>5. HeadIsStack'
  <2>1. Chain(next, head, s)
    BY DEF ListInv, HeadIsStack
  <2>2. Chain(next, n, q)
    BY <1>1, <2>1, ChainCons
  <2> QED BY <2>2 DEF HeadIsStack
<1>6. Elements(q) = Elements(s) \cup {n}
  <2>1. Elements(q) \subseteq Elements(s) \cup {n}
    <3> SUFFICES ASSUME NEW i \in 1..Len(q) PROVE q[i] \in Elements(s) \cup {n}
      BY DEF Elements
    <3>1. i = 1 \/ i \in 2..Len(q)
      BY <1>3
    <3> QED BY <1>3, <3>1 DEF Elements
  <2>2. Elements(s) \subseteq Elements(q)
    <3> SUFFICES ASSUME NEW i \in 1..Len(s) PROVE s[i] \in Elements(q)
      BY DEF Elements
    <3>1. i + 1 \in 1..Len(q) /\ q[i + 1] = s[i]
      BY <1>3
    <3> QED BY <3>1 DEF Elements
  <2>3. n \in Elements(q)
    <3>1. 1 \in 1..Len(q)
      BY <1>3
    <3> QED BY <1>3, <3>1 DEF Elements
  <2> QED BY <2>1, <2>2, <2>3
<1>7. NoneLostNoneTwice'
  <2>1. /\ owner'[n] = "list" /\ \A m \in Node : m # n => owner'[m] = owner[m]
        /\ node'[t] = Null /\ \A u \in Thread : u # t => node'[u] = node[u]
        /\ stack' = q /\ batch' = batch
    BY <1>1 DEF ListInv, ListTypeOK
  <2>2. \A i, j \in 1..Len(q) : q[i] = q[j] => i = j
    <3>1. \A i \in 1..Len(q) : i = 1 \/ i \in 2..Len(q)
      BY <1>3
    <3>2. \A i \in 2..Len(q) : q[i] # n
      BY <1>1, <1>3 DEF Elements
    <3>3. \A i, j \in 2..Len(q) : q[i] = q[j] => i = j
      <4> SUFFICES ASSUME NEW i \in 2..Len(q), NEW j \in 2..Len(q), q[i] = q[j] PROVE i = j
        OBVIOUS
      <4>1. i - 1 \in 1..Len(s) /\ j - 1 \in 1..Len(s) /\ s[i - 1] = s[j - 1]
        BY <1>3
      <4>2. i - 1 = j - 1
        BY <4>1 DEF ListInv, NoneLostNoneTwice
      <4> QED BY <1>3, <4>2
    <3> QED BY <1>3, <3>1, <3>2, <3>3
  <2>3. \A m \in Node : owner'[m] = "list" <=> m \in Elements(q)
    BY <1>1, <1>6, <2>1 DEF ListInv, NoneLostNoneTwice
  <2>4. ASSUME NEW u \in Thread
        PROVE  /\ \A m \in Node : owner'[m] = u <=> m = node'[u] \/ m \in Elements(batch[u])
               /\ node'[u] \notin Elements(batch[u])
    <3>1. CASE u = t
      BY <1>1, <2>1, <3>1, ListAssumption DEF ListInv, NoneLostNoneTwice, Elements
    <3>2. CASE u # t
      <4>1. n # node[u] /\ n \notin Elements(batch[u])
        BY <1>1, <3>2 DEF ListInv, NoneLostNoneTwice
      <4> QED BY <2>1, <3>2, <4>1, ListAssumption DEF ListInv, NoneLostNoneTwice
    <3> QED BY <3>1, <3>2
  <2> QED BY <2>1, <2>2, <2>3, <2>4 DEF ListInv, NoneLostNoneTwice
<1>8. Local(t)'
  BY <1>1 DEF ListInv, Local, ListTypeOK
<1> QED BY <1>2, <1>4, <1>5, <1>7, <1>8, StepKeepsInv

(* Steps that move a thread between operations. *)
LEMMA SweepKeepsInv ==
    ASSUME ListInv, NEW t \in Thread, NEW m \in {"sweep", "reverseSweep"}, Sweep(t, m)
    PROVE  ListInv'
<1> USE DEF Sweep
<1>1. OthersUnchanged(t) /\ TouchesOwn(t)
  BY DEF OthersUnchanged, TouchesOwn, ListInv, ListTypeOK
<1>2. ListTypeOK'
  <2>1. \A u \in Thread : node'[u] # Null <=> pc'[u] \in {"load", "link", "cas", "func"}
    BY DEF ListInv, ListTypeOK
  <2> QED BY <2>1 DEF ListInv, ListTypeOK
<1>3. HeadIsStack'
  BY <1>1, ListKept
<1>4. NoneLostNoneTwice'
  BY DEF ListInv, NoneLostNoneTwice
<1>5. Local(t)'
  BY DEF ListInv, Local, ListTypeOK
<1> QED BY <1>1, <1>2, <1>3, <1>4, <1>5, StepKeepsInv

(* A sweep ends, or sweep() tries again: its batch is empty. *)
LEMMA DoneKeepsInv ==
    ASSUME ListInv, NEW t \in Thread, TakeNone(t) \/ UnlinkDone(t)
    PROVE  ListInv'
<1>0. PICK x \in {"take", "idle"} :
         /\ pc' = [pc EXCEPT ![t] = x]
         /\ pc[t] = "take" \/ (pc[t] = "unlink" /\ cur[t] = Null)
         /\ UNCHANGED <<head, next, mode, node, oldHead, cur, rhead, stack, batch, turned, owner>>
  BY DEF TakeNone, UnlinkDone
<1>1. OthersUnchanged(t) /\ TouchesOwn(t)
  BY <1>0 DEF OthersUnchanged, TouchesOwn, ListInv, ListTypeOK
<1>2. ListTypeOK'
  <2>1. \A u \in Thread : node'[u] # Null <=> pc'[u] \in {"load", "link", "cas", "func"}
    BY <1>0 DEF ListInv, ListTypeOK
  <2> QED BY <1>0, <2>1 DEF ListInv, ListTypeOK
<1>3. HeadIsStack'
  BY <1>0, <1>1, ListKept
<1>4. NoneLostNoneTwice'
  BY <1>0 DEF ListInv, NoneLostNoneTwice
<1>5. batch[t] = <<>>
  <2>1. CASE pc[t] = "take"
    BY <2>1 DEF ListInv, Local
  <2>2. CASE pc[t] = "unlink"
    <3>1. Chain(next, Null, batch[t]) /\ batch[t] \in Seq(Node)
      BY <1>0, <2>2 DEF ListInv, Local, ListTypeOK
    <3>2. batch[t] # <<>> => batch[t][1] \in Node
      BY <3>1
    <3> QED BY <3>1, <3>2, ListAssumption DEF Chain
  <2> QED BY <1>0, <2>1, <2>2
<1>6. Local(t)'
  BY <1>0, <1>5 DEF ListInv, Local, ListTypeOK
<1> QED BY <1>1, <1>2, <1>3, <1>4, <1>6, StepKeepsInv

(* The exchange hands the whole list to one sweep. *)
LEMMA TakeKeepsInv ==
    ASSUME ListInv, NEW t \in Thread, TakeAll(t)
    PROVE  ListInv'
<1> USE DEF TakeAll
<1> PICK s : s = stack
  OBVIOUS
<1> PICK q : q = IF mode[t] = "sweep" THEN Reversed(s) ELSE s
  OBVIOUS
<1>1. /\ s \in Seq(Node) /\ batch[t] = <<>> /\ node[t] = Null /\ turned[t] = 0 /\ rhead[t] = Null
      /\ Injective(s) /\ Chain(next, head, s)
  <2>1. s \in Seq(Node) /\ node[t] = Null
    BY DEF ListInv, ListTypeOK
  <2>2. batch[t] = <<>> /\ turned[t] = 0 /\ rhead[t] = Null
    BY DEF ListInv, Local
  <2>3. Injective(s) /\ Chain(next, head, s)
    BY DEF ListInv, NoneLostNoneTwice, Injective, HeadIsStack
  <2> QED BY <2>1, <2>2, <2>3
<1>2. q \in Seq(Node) /\ Elements(q) = Elements(s) /\ Injective(q) /\ Len(q) = Len(s)
  BY <1>1, ReversedFacts
<1>3. OthersUnchanged(t) /\ TouchesOwn(t)
  BY DEF OthersUnchanged, TouchesOwn, ListInv, ListTypeOK
<1>4. /\ owner' \in [Node -> {"free", "list"} \cup Thread]
      /\ \A m \in Node : owner'[m] = IF m \in Elements(s) THEN t ELSE owner[m]
      /\ stack' = <<>> /\ node' = node
      /\ batch'[t] = q /\ \A u \in Thread : u # t => batch'[u] = batch[u]
  BY DEF ListInv, ListTypeOK
<1>5. ListTypeOK'
  <2>1. \A u \in Thread : node'[u] # Null <=> pc'[u] \in {"load", "link", "cas", "func"}
    BY DEF ListInv, ListTypeOK
  <2>2. batch' \in [Thread -> Seq(Node)]
    BY <1>2 DEF ListInv, ListTypeOK
  <2>3. pc' \in [Thread -> {"idle", "load", "link", "cas", "take", "reverse", "unlink", "func"}]
    BY DEF ListInv, ListTypeOK
  <2>4. cur' \in [Thread -> Pointer] /\ head' \in Pointer /\ stack' \in Seq(Node)
    BY DEF ListInv, ListTypeOK, Pointer
  <2> QED BY <1>4, <2>1, <2>2, <2>3, <2>4 DEF ListInv, ListTypeOK
<1>6. HeadIsStack'
  BY DEF HeadIsStack, Chain
<1>7. NoneLostNoneTwice'
  <2>1. \A m \in Node : owner[m] = "list" <=> m \in Elements(s)
    BY DEF ListInv, NoneLostNoneTwice
  <2>2. \A m \in Node : owner'[m] # "list"
    BY <1>4, <2>1, ListAssumption
  <2>3. ASSUME NEW u \in Thread
        PROVE  /\ Injective(batch'[u])
               /\ \A m \in Node : owner'[m] = u <=> m = node[u] \/ m \in Elements(batch'[u])
               /\ node[u] \notin Elements(batch'[u])
    <3>1. CASE u = t
      <4>1. \A m \in Node : owner[m] # t
        BY <1>1, ListAssumption DEF ListInv, NoneLostNoneTwice, Elements
      <4>2. Null \notin Elements(q)
        BY <1>2, ListAssumption DEF Elements
      <4>3. \A m \in Node : m # Null
        BY ListAssumption
      <4> QED BY <1>1, <1>2, <1>4, <3>1, <4>1, <4>2, <4>3
    <3>2. CASE u # t
      <4>1. Injective(batch[u])
        BY DEF ListInv, NoneLostNoneTwice, Injective
      <4>2. \A m \in Node : owner[m] = u => owner'[m] = u
        BY <1>4, <2>1, ListAssumption
      <4>3. \A m \in Node : owner'[m] = u => owner[m] = u
        BY <1>4, <3>2
      <4> QED BY <1>4, <3>2, <4>1, <4>2, <4>3 DEF ListInv, NoneLostNoneTwice
    <3> QED BY <3>1, <3>2
  <2>4. Elements(<<>>) = {}
    BY DEF Elements
  <2> QED BY <1>4, <2>2, <2>3, <2>4 DEF NoneLostNoneTwice, Injective
<1>8. Local(t)'
  <2>1. /\ pc'[t] = (IF mode[t] = "sweep" THEN "reverse" ELSE "unlink") /\ cur'[t] = head
        /\ batch'[t] = q /\ turned'[t] = 0 /\ rhead'[t] = Null /\ next' = next
    BY <1>1, <1>4 DEF ListInv, ListTypeOK
  <2>2. CASE mode[t] = "sweep"
    <3>1. Halfway(next, q, Len(s), head, Null)
      BY <1>1, <2>2, HalfwayStart
    <3>2. Len(q) - 0 = Len(s)
      BY <1>1, <1>2
    <3>3. Halfway(next', batch'[t], Len(batch'[t]) - turned'[t], cur'[t], rhead'[t])
      BY <2>1, <3>1, <3>2
    <3> QED BY <2>1, <2>2, <3>3 DEF Local
  <2>3. CASE mode[t] # "sweep"
    BY <1>1, <2>1, <2>3 DEF Local
  <2> QED BY <2>2, <2>3
<1> QED BY <1>3, <1>5, <1>6, <1>7, <1>8, StepKeepsInv

(* One node is turned around. *)
LEMMA ReverseKeepsInv ==
    ASSUME ListInv, NEW t \in Thread, ReverseNode(t)
    PROVE  ListInv'
<1> USE DEF ReverseNode
<1> PICK c : c = cur[t]
  OBVIOUS
<1> PICK s : s = batch[t]
  OBVIOUS
<1> PICK k : k = Len(s) - turned[t]
  OBVIOUS
<1>1. /\ s \in Seq(Node) /\ Injective(s) /\ next \in [Node -> Pointer] /\ c # Null
      /\ Halfway(next, s, k, c, rhead[t])
  BY DEF ListInv, ListTypeOK, Local, NoneLostNoneTwice, Injective
<1>2. c \in Elements(s) /\ k \in 1..Len(s) /\ Halfway(next', s, k - 1, next[c], c)
  BY <1>1, HalfwayStep
<1>3. c \in Node /\ owner[c] = t
  BY <1>1, <1>2 DEF ListInv, NoneLostNoneTwice, Elements
<1>4. OthersUnchanged(t) /\ TouchesOwn(t)
  BY <1>3 DEF OthersUnchanged, TouchesOwn, ListInv, ListTypeOK
<1>5. ListTypeOK'
  BY <1>3 DEF ListInv, ListTypeOK, Pointer
<1>6. HeadIsStack'
  BY <1>4, ListKept
<1>7. NoneLostNoneTwice'
  BY DEF ListInv, NoneLostNoneTwice
<1>8. Local(t)'
  <2>1. /\ pc'[t] = "reverse" /\ batch'[t] = s /\ turned'[t] = turned[t] + 1
        /\ cur'[t] = next[c] /\ rhead'[t] = c
    BY DEF ListInv, ListTypeOK
  <2>2. Len(s) - (turned[t] + 1) = k - 1
    BY <1>1 DEF ListInv, ListTypeOK
  <2>3. Halfway(next', batch'[t], Len(batch'[t]) - turned'[t], cur'[t], rhead'[t])
    BY <1>2, <2>1, <2>2
  <2> QED BY <2>1, <2>3 DEF Local
<1> QED BY <1>4, <1>5, <1>6, <1>7, <1>8, StepKeepsInv

(* reverse returns the new head. *)
LEMMA ReverseDoneKeepsInv ==
    ASSUME ListInv, NEW t \in Thread, ReverseDone(t)
    PROVE  ListInv'
<1> USE DEF ReverseDone
<1>1. OthersUnchanged(t) /\ TouchesOwn(t)
  BY DEF OthersUnchanged, TouchesOwn, ListInv, ListTypeOK
<1>2. ListTypeOK'
  <2>1. \A u \in Thread : node'[u] # Null <=> pc'[u] \in {"load", "link", "cas", "func"}
    BY DEF ListInv, ListTypeOK
  <2> QED BY <2>1 DEF ListInv, ListTypeOK, Pointer
<1>3. HeadIsStack'
  BY <1>1, ListKept
<1>4. NoneLostNoneTwice'
  BY DEF ListInv, NoneLostNoneTwice
<1>5. Local(t)'
  <2>1. batch[t] \in Seq(Node)
        /\ Halfway(next, batch[t], Len(batch[t]) - turned[t], Null, rhead[t])
    BY DEF ListInv, ListTypeOK, Local
  <2>2. Chain(next, rhead[t], batch[t])
    BY <2>1, HalfwayEnd
  <2>3. pc'[t] = "unlink" /\ cur'[t] = rhead[t] /\ turned'[t] = 0 /\ rhead'[t] = Null
    BY DEF ListInv, ListTypeOK
  <2> QED BY <2>2, <2>3 DEF Local
<1> QED BY <1>1, <1>2, <1>3, <1>4, <1>5, StepKeepsInv

(* unlinkAll takes the first node of the batch and remembers where it was     *)
(* before the callback deletes it.                                            *)
LEMMA UnlinkKeepsInv ==
    ASSUME ListInv, NEW t \in Thread, Unlink(t)
    PROVE  ListInv'
<1> USE DEF Unlink
<1> PICK c : c = cur[t]
  OBVIOUS
<1> PICK s : s = batch[t]
  OBVIOUS
<1> PICK q : q = Tail(s)
  OBVIOUS
<1>1. /\ s \in Seq(Node) /\ Injective(s) /\ c # Null /\ Chain(next, c, s) /\ node[t] = Null
  BY DEF ListInv, ListTypeOK, Local, NoneLostNoneTwice, Injective
<1>2. s # <<>> /\ c = s[1] /\ c \in Node /\ q \in Seq(Node) /\ Chain(next, next[c], q)
  BY <1>1, ChainTail
<1>3. /\ Len(q) \in Nat /\ Len(s) = Len(q) + 1
      /\ \A i \in 1..Len(q) : q[i] = s[i + 1] /\ i + 1 \in 1..Len(s) /\ i + 1 # 1
      /\ \A i \in 1..Len(s) : i = 1 \/ (i - 1 \in 1..Len(q) /\ q[i - 1] = s[i])
      /\ 1 \in 1..Len(s)
  BY <1>1, <1>2
<1>4. c \notin Elements(q) /\ Elements(s) = Elements(q) \cup {c} /\ Injective(q)
  <2>1. c \notin Elements(q)
    <3> SUFFICES ASSUME NEW i \in 1..Len(q), q[i] = c PROVE FALSE
      BY DEF Elements
    <3> QED BY <1>1, <1>2, <1>3 DEF Injective
  <2>2. Elements(s) \subseteq Elements(q) \cup {c}
    <3> SUFFICES ASSUME NEW i \in 1..Len(s) PROVE s[i] \in Elements(q) \cup {c}
      BY DEF Elements
    <3>1. i = 1 \/ (i - 1 \in 1..Len(q) /\ q[i - 1] = s[i])
      BY <1>3
    <3>2. CASE i = 1
      BY <1>2, <3>2
    <3>3. CASE i - 1 \in 1..Len(q) /\ q[i - 1] = s[i]
      BY <3>3 DEF Elements
    <3> QED BY <3>1, <3>2, <3>3
  <2>3. Elements(q) \cup {c} \subseteq Elements(s)
    BY <1>2, <1>3 DEF Elements
  <2>4. Injective(q)
    <3> SUFFICES ASSUME NEW i \in 1..Len(q), NEW j \in 1..Len(q), q[i] = q[j] PROVE i = j
      BY DEF Injective
    <3>1. i + 1 = j + 1
      BY <1>1, <1>3 DEF Injective
    <3> QED BY <3>1
  <2> QED BY <2>1, <2>2, <2>3, <2>4
<1>5. owner[c] = t
  BY <1>2, <1>4 DEF ListInv, NoneLostNoneTwice
<1>6. OthersUnchanged(t) /\ TouchesOwn(t)
  BY <1>5 DEF OthersUnchanged, TouchesOwn, ListInv, ListTypeOK
<1>7. /\ node'[t] = c /\ batch'[t] = q /\ pc'[t] = "func" /\ cur'[t] = next[c]
      /\ \A u \in Thread : u # t => node'[u] = node[u] /\ batch'[u] = batch[u]
      /\ turned'[t] = turned[t] /\ rhead'[t] = rhead[t]
  BY DEF ListInv, ListTypeOK
<1>8. ListTypeOK'
  <2>1. \A u \in Thread : node'[u] # Null <=> pc'[u] \in {"load", "link", "cas", "func"}
    BY DEF ListInv, ListTypeOK
  <2>2. batch' \in [Thread -> Seq(Node)]
    BY <1>2 DEF ListInv, ListTypeOK
  <2>3. cur' \in [Thread -> Pointer] /\ next' \in [Node -> Pointer] /\ node' \in [Thread -> Pointer]
    BY <1>2 DEF ListInv, ListTypeOK, Pointer
  <2> QED BY <2>1, <2>2, <2>3 DEF ListInv, ListTypeOK
<1>9. HeadIsStack'
  BY <1>6, ListKept
<1>10. NoneLostNoneTwice'
  <2>1. ASSUME NEW u \in Thread
        PROVE  /\ Injective(batch'[u])
               /\ \A m \in Node : owner[m] = u <=> m = node'[u] \/ m \in Elements(batch'[u])
               /\ node'[u] \notin Elements(batch'[u])
    <3>1. CASE u = t
      <4>1. \A m \in Node : owner[m] = t <=> m \in Elements(s)
        BY <1>1, ListAssumption DEF ListInv, NoneLostNoneTwice
      <4> QED BY <1>4, <1>7, <3>1, <4>1
    <3>2. CASE u # t
      <4>1. Injective(batch[u])
        BY DEF ListInv, NoneLostNoneTwice, Injective
      <4>2. node'[u] = node[u] /\ batch'[u] = batch[u]
        BY <1>7, <3>2
      <4>3. /\ \A m \in Node : owner[m] = u <=> m = node[u] \/ m \in Elements(batch[u])
            /\ node[u] \notin Elements(batch[u])
        BY DEF ListInv, NoneLostNoneTwice
      <4> QED BY <4>1, <4>2, <4>3
    <3> QED BY <3>1, <3>2
  <2>2. owner' = owner /\ stack' = stack
    OBVIOUS
  <2>3. /\ \A i, j \in 1..Len(stack) : stack[i] = stack[j] => i = j
        /\ \A m \in Node : owner[m] = "list" <=> m \in Elements(stack)
    BY DEF ListInv, NoneLostNoneTwice
  <2> HIDE DEF Unlink
  <2> QED BY <2>1, <2>2, <2>3 DEF NoneLostNoneTwice, Injective
<1>11. Local(t)'
  <2>1. \A m \in Elements(q) : next'[m] = next[m]
    <3>1. \A m \in Elements(q) : m \in Node /\ m # c
      BY <1>2, <1>4 DEF Elements
    <3> QED BY <3>1 DEF ListInv, ListTypeOK
  <2>2. Chain(next', next[c], q)
    BY <1>2, <2>1, ChainFrame
  <2>3. turned[t] = 0 /\ rhead[t] = Null
    BY DEF ListInv, Local
  <2> QED BY <1>7, <2>2, <2>3 DEF Local
<1> QED BY <1>6, <1>8, <1>9, <1>10, <1>11, StepKeepsInv

(* The callback deletes the node. *)
LEMMA CallKeepsInv ==
    ASSUME ListInv, NEW t \in Thread, CallFunc(t)
    PROVE  ListInv'
<1> USE DEF CallFunc
<1> PICK n : n = node[t]
  OBVIOUS
<1>1. n \in Node /\ owner[n] = t /\ n \notin Elements(batch[t])
  BY DEF ListInv, ListTypeOK, Pointer, NoneLostNoneTwice
<1>2. OthersUnchanged(t) /\ TouchesOwn(t)
  BY DEF OthersUnchanged, TouchesOwn, ListInv, ListTypeOK
<1>3. /\ node'[t] = Null /\ pc'[t] = "unlink" /\ \A u \in Thread : u # t => node'[u] = node[u]
      /\ owner'[n] = "free" /\ \A m \in Node : m # n => owner'[m] = owner[m]
  BY <1>1 DEF ListInv, ListTypeOK
<1>4. ListTypeOK'
  <2>1. \A u \in Thread : node'[u] # Null <=> pc'[u] \in {"load", "link", "cas", "func"}
    BY DEF ListInv, ListTypeOK
  <2> QED BY <1>1, <2>1 DEF ListInv, ListTypeOK, Pointer
<1>5. HeadIsStack'
  BY <1>2, ListKept
<1>6. NoneLostNoneTwice'
  <2>1. \A m \in Node : owner'[m] = "list" <=> m \in Elements(stack)
    BY <1>1, <1>3, ListAssumption DEF ListInv, NoneLostNoneTwice
  <2>2. ASSUME NEW u \in Thread
        PROVE  /\ \A m \in Node : owner'[m] = u <=> m = node'[u] \/ m \in Elements(batch[u])
               /\ node'[u] \notin Elements(batch[u])
    <3>1. CASE u = t
      <4>1. Null \notin Elements(batch[t]) /\ \A m \in Node : m # Null
        BY ListAssumption DEF ListInv, ListTypeOK, Elements
      <4> QED BY <1>1, <1>3, <3>1, <4>1, ListAssumption DEF ListInv, NoneLostNoneTwice
    <3>2. CASE u # t
      <4>1. n # node[u] /\ n \notin Elements(batch[u])
        BY <1>1, <3>2 DEF ListInv, NoneLostNoneTwice
      <4> QED BY <1>3, <3>2, <4>1, ListAssumption DEF ListInv, NoneLostNoneTwice
    <3> QED BY <3>1, <3>2
  <2> QED BY <2>1, <2>2 DEF ListInv, NoneLostNoneTwice
<1>7. Local(t)'
  BY <1>3 DEF ListInv, Local
<1> QED BY <1>2, <1>4, <1>5, <1>6, <1>7, StepKeepsInv

-----------------------------------------------------------------------------
(* Every step of every thread preserves the invariant. *)
LEMMA ListStepInv == ListInv /\ [ListNext]_listVars => ListInv'
<1> SUFFICES ASSUME ListInv, [ListNext]_listVars PROVE ListInv'
  OBVIOUS
<1>1. ASSUME NEW t \in Thread, NEW n \in Node, Insert(t, n) PROVE ListInv'
  BY <1>1, InsertKeepsInv
<1>2. ASSUME NEW t \in Thread, NEW m \in {"sweep", "reverseSweep"}, Sweep(t, m) PROVE ListInv'
  BY <1>2, SweepKeepsInv
<1>3. ASSUME NEW t \in Thread, ListStep(t) PROVE ListInv'
  BY <1>3, LoadKeepsInv, LinkKeepsInv, SwapKeepsInv, DoneKeepsInv, TakeKeepsInv, ReverseKeepsInv,
     ReverseDoneKeepsInv, UnlinkKeepsInv, CallKeepsInv DEF ListStep
<1>4. CASE UNCHANGED listVars
  <2>1. UNCHANGED <<head, next, pc, mode, node, oldHead, cur, rhead, stack, batch, turned, owner>>
    BY <1>4 DEF listVars, localVars
  <2>2. ListTypeOK' /\ HeadIsStack' /\ NoneLostNoneTwice'
    BY <2>1 DEF ListInv, ListTypeOK, HeadIsStack, NoneLostNoneTwice
  <2>3. \A t \in Thread : Local(t)'
    BY <2>1 DEF ListInv, Local
  <2> QED BY <2>2, <2>3 DEF ListInv
<1> QED BY <1>1, <1>2, <1>3, <1>4 DEF ListNext

(* Pointers stay pointers, and a thread has a node exactly while it inserts   *)
(* or calls one.                                                              *)
THEOREM ListTypeCorrect == ListSpec => []ListTypeOK
<1>1. ListInv => ListTypeOK
  BY DEF ListInv
<1> QED BY <1>1, ListInitInv, ListStepInv, PTL DEF ListSpec

(* The list from head_ is the nodes inserted and not yet taken, in order,     *)
(* although node memory is reused while other threads hold old heads.         *)
THEOREM ListHeadIsStack == ListSpec => []HeadIsStack
<1>1. ListInv => HeadIsStack
  BY DEF ListInv
<1> QED BY <1>1, ListInitInv, ListStepInv, PTL DEF ListSpec

(* unlinkAll follows the order that sweep and reverseSweep promise. *)
THEOREM ListCalledInOrder == ListSpec => []CalledInOrder
<1>1. ListInv => CalledInOrder
  BY DEF ListInv, Local, CalledInOrder
<1> QED BY <1>1, ListInitInv, ListStepInv, PTL DEF ListSpec

(* No cleanup is lost, called twice or touched after its delete. *)
THEOREM ListNoneLostNoneTwice == ListSpec => []NoneLostNoneTwice
<1>1. ListInv => NoneLostNoneTwice
  BY DEF ListInv
<1> QED BY <1>1, ListInitInv, ListStepInv, PTL DEF ListSpec


-----------------------------------------------------------------------------
(* Refinement: what users of the list see are steps of CleanupList.           *)

(* A thread that is not in the step is seen as before. *)
LEMMA SeenAt ==
    ASSUME NEW t \in Thread
    PROVE  /\ ToCall[t] = IF pc[t] = "func" THEN <<node[t]>> \o batch[t] ELSE batch[t]
           /\ Adding[t] = IF pc[t] \in {"load", "link", "cas"} THEN node[t] ELSE Null
           /\ pc[t] = "idle" => Doing[t] = "nothing"
           /\ pc[t] \in {"load", "link", "cas"} => Doing[t] = "insert"
           /\ pc[t] = "take" => Doing[t] = mode[t]
           /\ pc[t] \in {"reverse", "unlink", "func"} =>
                 Doing[t] = IF mode[t] = "sweep" THEN "sweep" ELSE "last"
BY DEF ToCall, Adding, Doing

(* What is seen of the threads, as functions. *)
LEMMA SeenAreFunctions ==
    /\ ToCall = [u \in Thread |-> ToCall[u]] /\ ToCall' = [u \in Thread |-> ToCall'[u]]
    /\ Doing = [u \in Thread |-> Doing[u]] /\ Doing' = [u \in Thread |-> Doing'[u]]
    /\ Adding = [u \in Thread |-> Adding[u]] /\ Adding' = [u \in Thread |-> Adding'[u]]
<1>1. ToCall = [u \in Thread |-> ToCall[u]] /\ ToCall' = [u \in Thread |-> ToCall'[u]]
  BY Zenon DEF ToCall
<1>2. Doing = [u \in Thread |-> Doing[u]] /\ Doing' = [u \in Thread |-> Doing'[u]]
  BY Zenon DEF Doing
<1>3. Adding = [u \in Thread |-> Adding[u]] /\ Adding' = [u \in Thread |-> Adding'[u]]
  BY Zenon DEF Adding
<1> QED
  BY <1>1, <1>2, <1>3

(* A step of t that changes nothing of the other threads is seen of t alone. *)
OnlyOf(t) ==
    \A u \in Thread \ {t} : /\ pc'[u] = pc[u] /\ mode'[u] = mode[u] /\ node'[u] = node[u]
                            /\ batch'[u] = batch[u]

LEMMA SeenOfOthers ==
    ASSUME NEW t \in Thread, OnlyOf(t), NEW u \in Thread \ {t}
    PROVE  ToCall'[u] = ToCall[u] /\ Doing'[u] = Doing[u] /\ Adding'[u] = Adding[u]
<1>1. /\ u \in Thread /\ pc'[u] = pc[u] /\ mode'[u] = mode[u] /\ node'[u] = node[u]
      /\ batch'[u] = batch[u]
  BY DEF OnlyOf
<1>2. ToCall'[u] = ToCall[u]
  BY <1>1 DEF ToCall
<1>3. Doing'[u] = Doing[u]
  BY <1>1 DEF Doing
<1>4. Adding'[u] = Adding[u]
  BY <1>1 DEF Adding
<1> QED
  BY <1>2, <1>3, <1>4

LEMMA SeenAfter ==
    ASSUME NEW t \in Thread, OnlyOf(t)
    PROVE  /\ ToCall' = [ToCall EXCEPT ![t] = ToCall'[t]]
           /\ Doing' = [Doing EXCEPT ![t] = Doing'[t]]
           /\ Adding' = [Adding EXCEPT ![t] = Adding'[t]]
<1>1. \A u \in Thread \ {t} : ToCall'[u] = ToCall[u] /\ Doing'[u] = Doing[u] /\ Adding'[u] = Adding[u]
  BY SeenOfOthers
<1> QED
  BY <1>1, SeenAreFunctions

(* Nothing of t is seen to change. *)
LEMMA SeenUnchanged ==
    ASSUME NEW t \in Thread, stack' = stack, OnlyOf(t),
           ToCall'[t] = ToCall[t], Doing'[t] = Doing[t], Adding'[t] = Adding[t]
    PROVE  UNCHANGED Cleanups!cleanupVars
<1>1. \A u \in Thread : ToCall'[u] = ToCall[u] /\ Doing'[u] = Doing[u] /\ Adding'[u] = Adding[u]
  BY SeenOfOthers
<1>2. ToCall' = ToCall /\ Doing' = Doing /\ Adding' = Adding
  BY <1>1, SeenAreFunctions
<1> QED
  BY <1>2 DEF Cleanups!cleanupVars

(* The same of the next state. *)
LEMMA SeenThen ==
    ASSUME NEW t \in Thread
    PROVE  /\ ToCall'[t] = IF pc'[t] = "func" THEN <<node'[t]>> \o batch'[t] ELSE batch'[t]
           /\ Adding'[t] = IF pc'[t] \in {"load", "link", "cas"} THEN node'[t] ELSE Null
           /\ pc'[t] = "idle" => Doing'[t] = "nothing"
           /\ pc'[t] \in {"load", "link", "cas"} => Doing'[t] = "insert"
           /\ pc'[t] = "take" => Doing'[t] = mode'[t]
           /\ pc'[t] \in {"reverse", "unlink", "func"} =>
                 Doing'[t] = IF mode'[t] = "sweep" THEN "sweep" ELSE "last"
BY DEF ToCall, Adding, Doing

(* An empty list, nobody doing anything. *)
LEMMA SeenInit == ListInit => Cleanups!CleanupInit
<1> SUFFICES ASSUME ListInit PROVE Cleanups!CleanupInit
  OBVIOUS
<1>1. \A t \in Thread : pc[t] = "idle" /\ batch[t] = <<>>
  BY DEF ListInit
<1>2. \A t \in Thread : ToCall[t] = <<>> /\ Doing[t] = "nothing" /\ Adding[t] = Null
  BY <1>1, SeenAt
<1>3. /\ ToCall = [t \in Thread |-> <<>>] /\ Doing = [t \in Thread |-> "nothing"]
      /\ Adding = [t \in Thread |-> Null]
  BY <1>2, SeenAreFunctions
<1> QED
  BY <1>3 DEF ListInit, Cleanups!CleanupInit

(* A node that a thread may allocate is nowhere. *)
LEMMA FreeIsUnused ==
    ASSUME ListInv, NEW n \in Node, owner[n] = "free"
    PROVE  Cleanups!Unused(n)
<1>1. n \notin Elements(stack)
  BY DEF ListInv, NoneLostNoneTwice
<1>2. ASSUME NEW t \in Thread PROVE n # node[t] /\ n \notin Elements(batch[t])
  BY ListAssumption DEF ListInv, NoneLostNoneTwice
<1>3. ASSUME NEW t \in Thread PROVE Adding[t] # n
  <2>1. n # Null
    BY ListAssumption
  <2> QED
    BY <1>2, <2>1, SeenAt
<1>4. ASSUME NEW t \in Thread PROVE ~Cleanups!In(n, ToCall[t])
  <2>1. CASE pc[t] = "func"
    <3>1. batch[t] \in Seq(Node) /\ node[t] \in Node
      BY <2>1 DEF ListInv, ListTypeOK, Pointer
    <3> DEFINE q == <<node[t]>> \o batch[t]
    <3>2. /\ Len(q) = Len(batch[t]) + 1 /\ q[1] = node[t] /\ Len(batch[t]) \in Nat
          /\ \A i \in 2..Len(q) : q[i] = batch[t][i - 1]
      BY <3>1
    <3>3. ToCall[t] = q
      BY <2>1, SeenAt
    <3> HIDE DEF q
    <3>4. ASSUME NEW i \in 1..Len(q) PROVE q[i] # n
      <4>1. CASE i = 1
        BY <1>2, <3>2, <4>1
      <4>2. CASE i # 1
        <5>1. i \in 2..Len(q) /\ i - 1 \in 1..Len(batch[t])
          BY <3>2, <4>2
        <5> QED
          BY <1>2, <3>2, <5>1 DEF Elements
      <4> QED
        BY <4>1, <4>2
    <3> QED
      BY <3>3, <3>4 DEF Cleanups!In
  <2>2. CASE pc[t] # "func"
    <3>1. ToCall[t] = batch[t]
      BY <2>2, SeenAt
    <3> QED
      BY <1>2, <3>1 DEF Cleanups!In, Elements
  <2> QED
    BY <2>1, <2>2
<1> QED
  BY <1>1, <1>3, <1>4 DEF Cleanups!Unused, Cleanups!In, Elements

-----------------------------------------------------------------------------
(* insertHead allocates its node: the insert begins. *)
LEMMA InsertSeen ==
    ASSUME ListInv, NEW t \in Thread, NEW n \in Node, Insert(t, n)
    PROVE  Cleanups!BeginInsert(t, n)
<1> USE DEF Insert
<1>1. OnlyOf(t) /\ pc[t] = "idle" /\ pc'[t] = "load" /\ node'[t] = n /\ batch'[t] = batch[t]
  BY DEF OnlyOf, ListInv, ListTypeOK
<1>2. ToCall'[t] = ToCall[t] /\ Doing[t] = "nothing" /\ Doing'[t] = "insert" /\ Adding'[t] = n
  BY <1>1, SeenAt, SeenThen
<1>3. ToCall' = ToCall
  <2>1. \A u \in Thread : ToCall'[u] = ToCall[u]
    BY <1>1, <1>2, SeenOfOthers
  <2> QED
    BY <2>1, SeenAreFunctions
<1>4. Doing' = [Doing EXCEPT ![t] = "insert"] /\ Adding' = [Adding EXCEPT ![t] = n]
  BY <1>1, <1>2, SeenAfter
<1>5. Cleanups!Unused(n)
  BY FreeIsUnused
<1> QED
  BY <1>2, <1>3, <1>4, <1>5 DEF Cleanups!BeginInsert

(* The compare-and-swap that succeeds is the insert. *)
LEMMA SwapSeen ==
    ASSUME ListInv, NEW t \in Thread, SwapHead(t)
    PROVE  Cleanups!InsertHead(t)
<1> USE DEF SwapHead
<1>1. OnlyOf(t) /\ pc[t] = "cas" /\ pc'[t] = "idle" /\ batch'[t] = batch[t]
  BY DEF OnlyOf, ListInv, ListTypeOK
<1>2. /\ ToCall'[t] = ToCall[t] /\ Doing[t] = "insert" /\ Doing'[t] = "nothing"
      /\ Adding[t] = node[t] /\ Adding'[t] = Null
  BY <1>1, SeenAt, SeenThen
<1>3. ToCall' = ToCall
  <2>1. \A u \in Thread : ToCall'[u] = ToCall[u]
    BY <1>1, <1>2, SeenOfOthers
  <2> QED
    BY <2>1, SeenAreFunctions
<1>4. Doing' = [Doing EXCEPT ![t] = "nothing"] /\ Adding' = [Adding EXCEPT ![t] = Null]
  BY <1>1, <1>2, SeenAfter
<1> QED
  BY <1>2, <1>3, <1>4 DEF Cleanups!InsertHead

(* Only the thread's operation is seen to change. *)
LEMMA SeenDoing ==
    ASSUME NEW t \in Thread, OnlyOf(t), ToCall'[t] = ToCall[t], Adding'[t] = Adding[t]
    PROVE  /\ ToCall' = ToCall /\ Adding' = Adding
           /\ Doing' = [Doing EXCEPT ![t] = Doing'[t]]
<1>1. \A u \in Thread : ToCall'[u] = ToCall[u] /\ Adding'[u] = Adding[u]
  BY SeenOfOthers
<1> QED
  BY <1>1, SeenAreFunctions, SeenAfter

LEMMA SweepSeen ==
    ASSUME ListInv, NEW t \in Thread, NEW m \in {"sweep", "reverseSweep"}, Sweep(t, m)
    PROVE  Cleanups!BeginSweep(t, m)
<1> USE DEF Sweep
<1>1. OnlyOf(t) /\ pc[t] = "idle" /\ pc'[t] = "take" /\ mode'[t] = m /\ batch'[t] = batch[t]
  BY DEF OnlyOf, ListInv, ListTypeOK
<1>2. /\ ToCall'[t] = ToCall[t] /\ Doing[t] = "nothing" /\ Doing'[t] = m
      /\ Adding'[t] = Adding[t]
  BY <1>1, SeenAt, SeenThen
<1> QED
  BY <1>1, <1>2, SeenDoing DEF Cleanups!BeginSweep

(* A sweep that finds head_ null returns: the list is empty. *)
LEMMA TakeNoneSeen ==
    ASSUME ListInv, NEW t \in Thread, TakeNone(t)
    PROVE  Cleanups!EndSweep(t)
<1> USE DEF TakeNone
<1>1. /\ OnlyOf(t) /\ pc[t] = "take" /\ pc'[t] = "idle" /\ batch'[t] = batch[t]
      /\ batch[t] = <<>> /\ mode[t] \in {"sweep", "reverseSweep"}
  BY DEF OnlyOf, ListInv, ListTypeOK, Local
<1>2. /\ ToCall'[t] = ToCall[t] /\ ToCall[t] = <<>> /\ Doing[t] = mode[t] /\ Doing'[t] = "nothing"
      /\ Adding'[t] = Adding[t]
  BY <1>1, SeenAt, SeenThen
<1>3. stack = <<>>
  <2>1. stack \in Seq(Node) /\ Null \notin Node /\ Chain(next, Null, stack)
    BY ListAssumption DEF ListInv, ListTypeOK, HeadIsStack
  <2> QED
    BY <2>1 DEF Chain
<1>4. Doing[t] \in {Cleanups!Newest, Cleanups!Oldest}
  BY <1>1, <1>2 DEF Cleanups!Newest, Cleanups!Oldest
<1> QED
  BY <1>1, <1>2, <1>3, <1>4, SeenDoing DEF Cleanups!EndSweep

(* The exchange takes the whole list, in the order it is to be called. *)
LEMMA TakeAllSeen ==
    ASSUME ListInv, NEW t \in Thread, TakeAll(t)
    PROVE  Cleanups!Take(t)
<1> USE DEF TakeAll
<1>1. /\ OnlyOf(t) /\ pc[t] = "take" /\ batch[t] = <<>> /\ mode[t] \in {"sweep", "reverseSweep"}
      /\ mode'[t] = mode[t]
      /\ batch'[t] = IF mode[t] = "sweep" THEN Reversed(stack) ELSE stack
      /\ pc'[t] = IF mode[t] = "sweep" THEN "reverse" ELSE "unlink"
  BY DEF OnlyOf, ListInv, ListTypeOK, Local
<1>2. ToCall[t] = <<>> /\ Doing[t] = mode[t] /\ Adding[t] = Null
  BY <1>1, SeenAt
<1>3. /\ Adding'[t] = Null /\ Doing'[t] = IF mode[t] = "sweep" THEN "sweep" ELSE "last"
      /\ ToCall'[t] = IF mode[t] = "sweep" THEN Reversed(stack) ELSE stack
  <2>1. ToCall'[t] = batch'[t]
    <3>1. pc'[t] # "func"
      BY <1>1
    <3> HIDE DEF TakeAll
    <3> QED
      BY <3>1, SeenThen
  <2>2. pc'[t] \notin {"load", "link", "cas"} /\ pc'[t] \in {"reverse", "unlink", "func"}
    BY <1>1
  <2> HIDE DEF TakeAll
  <2> QED
    BY <1>1, <2>1, <2>2, SeenThen
<1>4. stack # <<>>
  BY DEF ListInv, HeadIsStack, Chain
<1>5. Cleanups!OldestFirst(stack) = Reversed(stack)
  BY DEF Cleanups!OldestFirst, Reversed
<1>6. Adding' = Adding
  <2>1. \A u \in Thread : Adding'[u] = Adding[u]
    BY <1>1, <1>2, <1>3, SeenOfOthers
  <2> QED
    BY <2>1, SeenAreFunctions
<1>7. /\ Doing[t] \in {Cleanups!Newest, Cleanups!Oldest}
      /\ ToCall'[t] = IF Doing[t] = Cleanups!Oldest THEN Cleanups!OldestFirst(stack) ELSE stack
      /\ Doing'[t] = IF Doing[t] = Cleanups!Oldest THEN Cleanups!Oldest ELSE "last"
  BY <1>1, <1>2, <1>3, <1>5 DEF Cleanups!Newest, Cleanups!Oldest
<1>8. /\ ToCall' = [ToCall EXCEPT ![t] = IF Doing[t] = Cleanups!Oldest
                                         THEN Cleanups!OldestFirst(stack) ELSE stack]
      /\ Doing' = [Doing EXCEPT ![t] = IF Doing[t] = Cleanups!Oldest THEN Cleanups!Oldest ELSE "last"]
  BY <1>1, <1>7, SeenAfter
<1>9. stack' = <<>>
  OBVIOUS
<1> HIDE DEF TakeAll
<1> QED
  BY <1>2, <1>4, <1>6, <1>7, <1>8, <1>9, SeenAreFunctions DEF Cleanups!Take

(* Unlinking a node does not call it yet. *)
LEMMA UnlinkSeen ==
    ASSUME ListInv, NEW t \in Thread, Unlink(t)
    PROVE  UNCHANGED Cleanups!cleanupVars
<1> USE DEF Unlink
<1>1. /\ OnlyOf(t) /\ pc[t] = "unlink" /\ pc'[t] = "func" /\ mode'[t] = mode[t]
      /\ node'[t] = cur[t] /\ batch'[t] = Tail(batch[t]) /\ batch[t] \in Seq(Node)
  BY DEF OnlyOf, ListInv, ListTypeOK
<1>2. batch[t] # <<>> /\ cur[t] = batch[t][1]
  BY <1>1, ChainTail DEF ListInv, Local
<1>3. <<cur[t]>> \o Tail(batch[t]) = batch[t]
  BY <1>1, <1>2
<1>4. stack' = stack
  OBVIOUS
<1> HIDE DEF Unlink
<1>5. ToCall'[t] = ToCall[t]
  <2>1. ToCall'[t] = <<node'[t]>> \o batch'[t] /\ ToCall[t] = batch[t]
    BY <1>1, SeenAt, SeenThen
  <2> QED
    BY <1>1, <1>3, <2>1
<1>6. Doing'[t] = Doing[t] /\ Adding'[t] = Adding[t]
  BY <1>1, SeenAt, SeenThen
<1> QED
  BY <1>1, <1>4, <1>5, <1>6, SeenUnchanged

(* The callback is the call. *)
LEMMA CallSeen ==
    ASSUME ListInv, NEW t \in Thread, CallFunc(t)
    PROVE  Cleanups!Call(t)
<1> USE DEF CallFunc
<1>1. /\ OnlyOf(t) /\ pc[t] = "func" /\ pc'[t] = "unlink" /\ mode'[t] = mode[t]
      /\ batch'[t] = batch[t] /\ batch[t] \in Seq(Node) /\ node[t] \in Node
  BY DEF OnlyOf, ListInv, ListTypeOK, Pointer
<1>2. <<node[t]>> \o batch[t] # <<>> /\ Tail(<<node[t]>> \o batch[t]) = batch[t]
  BY <1>1
<1>3. /\ ToCall[t] # <<>> /\ ToCall'[t] = Tail(ToCall[t])
      /\ Doing'[t] = Doing[t] /\ Adding'[t] = Adding[t]
  BY <1>1, <1>2, SeenAt, SeenThen
<1>4. Doing' = Doing /\ Adding' = Adding
  <2>1. \A u \in Thread : Doing'[u] = Doing[u] /\ Adding'[u] = Adding[u]
    BY <1>1, <1>3, SeenOfOthers
  <2> QED
    BY <2>1, SeenAreFunctions
<1>5. ToCall' = [ToCall EXCEPT ![t] = Tail(ToCall[t])]
  BY <1>1, <1>3, SeenAfter
<1>6. stack' = stack
  OBVIOUS
<1> HIDE DEF CallFunc
<1> QED
  BY <1>3, <1>4, <1>5, <1>6, SeenAreFunctions DEF Cleanups!Call

(* At the end of the taken list sweep goes on and reverseSweep returns. *)
LEMMA UnlinkDoneSeen ==
    ASSUME ListInv, NEW t \in Thread, UnlinkDone(t)
    PROVE  Cleanups!EndSweep(t) \/ UNCHANGED Cleanups!cleanupVars
<1> USE DEF UnlinkDone
<1>1. /\ OnlyOf(t) /\ pc[t] = "unlink" /\ mode'[t] = mode[t] /\ batch'[t] = batch[t]
      /\ pc'[t] = IF mode[t] = "sweep" THEN "take" ELSE "idle"
      /\ stack' = stack
  BY DEF OnlyOf, ListInv, ListTypeOK
<1>2. batch[t] = <<>>
  <2>1. batch[t] \in Seq(Node) /\ Null \notin Node /\ Chain(next, Null, batch[t])
    BY ListAssumption DEF ListInv, ListTypeOK, Local
  <2> QED
    BY <2>1 DEF Chain
<1> HIDE DEF UnlinkDone
<1>3. CASE mode[t] = "sweep"
  <2>1. ToCall'[t] = ToCall[t] /\ Doing'[t] = Doing[t] /\ Adding'[t] = Adding[t]
    BY <1>1, <1>2, <1>3, SeenAt, SeenThen
  <2> QED
    BY <1>1, <2>1, SeenUnchanged
<1>4. CASE mode[t] # "sweep"
  <2>1. /\ ToCall'[t] = ToCall[t] /\ ToCall[t] = <<>> /\ Adding'[t] = Adding[t]
        /\ Doing[t] = "last" /\ Doing'[t] = "nothing"
    BY <1>1, <1>2, <1>4, SeenAt, SeenThen
  <2> QED
    BY <1>1, <2>1, SeenDoing DEF Cleanups!EndSweep
<1> QED
  BY <1>3, <1>4

(* Everything else a thread does to pointers is not seen. *)
LEMMA PointersUnseen ==
    ASSUME ListInv, NEW t \in Thread,
           LoadHead(t) \/ LinkNode(t) \/ SwapFails(t) \/ ReverseNode(t) \/ ReverseDone(t)
    PROVE  UNCHANGED Cleanups!cleanupVars
<1>1. /\ OnlyOf(t) /\ stack' = stack /\ mode'[t] = mode[t] /\ node'[t] = node[t]
      /\ batch'[t] = batch[t]
      /\ \/ pc[t] \in {"load", "link", "cas"} /\ pc'[t] \in {"load", "link", "cas"}
         \/ pc[t] = "reverse" /\ pc'[t] \in {"reverse", "unlink"}
  BY DEF LoadHead, LinkNode, SwapFails, ReverseNode, ReverseDone, OnlyOf, ListInv, ListTypeOK
<1>2. ToCall'[t] = ToCall[t] /\ Doing'[t] = Doing[t] /\ Adding'[t] = Adding[t]
  BY <1>1, SeenAt, SeenThen
<1> QED
  BY <1>1, <1>2, SeenUnchanged

(* Every step is a step of CleanupList or none. *)
LEMMA StepSeen == ListInv /\ [ListNext]_listVars => [Cleanups!CleanupNext]_(Cleanups!cleanupVars)
<1> SUFFICES ASSUME ListInv, [ListNext]_listVars
             PROVE  Cleanups!CleanupNext \/ UNCHANGED Cleanups!cleanupVars
  OBVIOUS
<1>1. ASSUME NEW t \in Thread, NEW n \in Node, Insert(t, n) PROVE Cleanups!CleanupNext
  BY <1>1, InsertSeen DEF Cleanups!CleanupNext
<1>2. ASSUME NEW t \in Thread, NEW m \in {"sweep", "reverseSweep"}, Sweep(t, m)
      PROVE  Cleanups!CleanupNext
  BY <1>2, SweepSeen DEF Cleanups!CleanupNext, Cleanups!Newest, Cleanups!Oldest
<1>3. ASSUME NEW t \in Thread, ListStep(t)
      PROVE  Cleanups!CleanupNext \/ UNCHANGED Cleanups!cleanupVars
  <2>1. CASE SwapHead(t)
    BY <2>1, SwapSeen DEF Cleanups!CleanupNext
  <2>2. CASE TakeNone(t)
    BY <2>2, TakeNoneSeen DEF Cleanups!CleanupNext
  <2>3. CASE TakeAll(t)
    BY <2>3, TakeAllSeen DEF Cleanups!CleanupNext
  <2>4. CASE Unlink(t)
    BY <2>4, UnlinkSeen
  <2>5. CASE CallFunc(t)
    BY <2>5, CallSeen DEF Cleanups!CleanupNext
  <2>6. CASE UnlinkDone(t)
    BY <2>6, UnlinkDoneSeen DEF Cleanups!CleanupNext
  <2>7. CASE LoadHead(t) \/ LinkNode(t) \/ SwapFails(t) \/ ReverseNode(t) \/ ReverseDone(t)
    BY <2>7, PointersUnseen
  <2> QED
    BY <1>3, <2>1, <2>2, <2>3, <2>4, <2>5, <2>6, <2>7 DEF ListStep
<1>4. CASE UNCHANGED listVars
  <2>1. UNCHANGED <<pc, mode, node, batch, stack>>
    BY <1>4 DEF listVars, localVars
  <2> QED
    BY <2>1 DEF Cleanups!cleanupVars, ToCall, Doing, Adding
<1> QED
  BY <1>1, <1>2, <1>3, <1>4 DEF ListNext

(* The lock-free list implements the list that a Context relies on. *)
THEOREM ListImplementsCleanupList == ListSpec => ImplementsCleanupList
<1> QED
  BY ListInitInv, ListStepInv, SeenInit, StepSeen, PTL
     DEF ListSpec, ImplementsCleanupList, Cleanups!CleanupSpec
=============================================================================
