----------------------------- MODULE MCContext ------------------------------
(* Model values for Context: threads, types, objects and arenas are names     *)
(* that nothing in the specification orders.                                  *)
EXTENDS Context, TLC

MCSymmetry == Permutations(Thread) \cup Permutations(Type)
              \cup Permutations(Obj) \cup Permutations(ArenaId)
=============================================================================
