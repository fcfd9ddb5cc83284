------------------------------ MODULE MCDocStore ------------------------------
(* TLC instances of DocStore and of its refinement of DocStoreAbs. *)
EXTENDS DocStoreRefines, TLC

Symmetry == Permutations(Procs) \cup Permutations(Edits) \cup Permutations(Docs)
=============================================================================
