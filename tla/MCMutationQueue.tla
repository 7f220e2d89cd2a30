--------------------------- MODULE MCMutationQueue ---------------------------
(* Model checking of MutationQueue on small instances: the configuration says it all. *)
EXTENDS MutationQueue
=============================================================================
