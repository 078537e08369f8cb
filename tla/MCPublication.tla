----------------------------- MODULE MCPublication -----------------------------
(* An instance of Publication for TLC.                                         *)
EXTENDS Publication, TLC

CONSTANTS r1, r2, l1, l2

Symmetry == Permutations({r1, r2}) \cup Permutations({l1, l2})
=============================================================================
