----------------------------- MODULE MCDictCache -----------------------------
(* DictCache with two dictionaries and room for one. *)
EXTENDS DictCache, TLC

CONSTANTS d1, d2, p1, p2

Symmetry == Permutations({d1, d2}) \cup Permutations({p1, p2})

=============================================================================
