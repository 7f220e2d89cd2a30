---------------------------- MODULE MCMutationRpc ----------------------------
(* Model checking of MutationRpc with the calls of one worker and the main thread *)
(* on a tree of two directories.                                                  *)
EXTENDS MutationRpc, SequencesExt

Paths == {<<"a">>, <<"a", "x">>, <<"b">>, <<"b", "x">>}
PathsUnder == [k \in Paths |-> {j \in Paths : IsStrictPrefix(k, j)}]

Ask(op, key, to, opts) == [op |-> op, key |-> key, to |-> to, opts |-> opts]

a == <<"a">>
ax == <<"a", "x">>
b == <<"b">>
bx == <<"b", "x">>
PathsRebased == [m \in {<<a, b>>} |-> [k \in {ax} |-> bx]]

Nowhere == {Ask("mkdir", b, b, {})}
Wanted ==
  {Ask("write", a, a, {}), Ask("write", bx, bx, {"exclusive"}), Ask("append", ax, ax, {}),
   Ask("rm", a, a, {"recursive"}), Ask("rename", a, b, {})} \cup Nowhere
=============================================================================
