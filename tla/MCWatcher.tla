------------------------------ MODULE MCWatcher ------------------------------
(* Model checking of Watcher: one directory with one file, and a file beside it. *)
EXTENDS Watcher

CONSTANTS d, x

Inside == [f \in {x} |-> d]
=============================================================================
