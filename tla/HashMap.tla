------------------------------ MODULE HashMap ------------------------------
(* std::unordered_map and absl::flat_hash_map, as the library uses them: a    *)
(* function from the keys that are there.                                     *)

\* emplace: f with k mapped to v when k is new.
Emplace(f, k, v) ==
    IF k \in DOMAIN f THEN f
    ELSE [x \in DOMAIN f \cup {k} |-> IF x = k THEN v ELSE f[x]]
=============================================================================
