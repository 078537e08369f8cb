--------------------------- MODULE MCReviewWorkflow ---------------------------
(* An instance of ReviewWorkflow for TLC: one task that needs a checker and is *)
(* an audit sample, two officers with two tabs between them.                   *)
EXTENDS ReviewWorkflow, TLC

CONSTANTS o1, o2, r1, r2

Symmetry == Permutations({o1, o2}) \cup Permutations({r1, r2})
=============================================================================
