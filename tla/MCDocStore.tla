----------------------------- MODULE MCDocStore -----------------------------
(* Instances of DocStore for TLC: the jobs are interchangeable. *)
EXTENDS DocStore, TLC

Symmetry == Permutations(Jobs)
=============================================================================
