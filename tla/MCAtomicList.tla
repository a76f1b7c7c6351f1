---------------------------- MODULE MCAtomicList ----------------------------
(* Threads and nodes are interchangeable. *)
EXTENDS AtomicList, TLC

MCSymmetry == Permutations(Thread) \cup Permutations(Node)
=============================================================================
