--------------------------- MODULE MCPublication ---------------------------
(* Model checking of Publication. *)
EXTENDS Publication, TLC

Symmetry == Permutations(Readers)
=============================================================================
