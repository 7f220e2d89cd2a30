------------------------- MODULE MCSegmentAllocator -------------------------
(* Model checking of SegmentAllocator on small instances. *)
EXTENDS SegmentAllocator, TLC

Symmetry == Permutations(Keys)
=============================================================================
