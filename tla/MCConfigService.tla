--------------------------- MODULE MCConfigService ---------------------------
(* A bounded instance of ConfigService for TLC. *)
EXTENDS ConfigService, TLC
CONSTANTS w1, w2, c1

Symmetry == Permutations(Writer)
=============================================================================
