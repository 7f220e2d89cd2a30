----------------------------- MODULE MCLifetime -----------------------------
(* Small instances of Lifetime for TLC. *)
EXTENDS LifetimeInvariant
=============================================================================
