----------------------------- MODULE MCJobStore -----------------------------
(* Instances of JobStore for TLC: the requests are interchangeable. *)
EXTENDS JobStore, TLC

Symmetry == Permutations(Requests)
=============================================================================
