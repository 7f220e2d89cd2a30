---------------------------- MODULE MCVirtualStore ----------------------------
(* Model checking of VirtualStore on a tree of two directories. *)
EXTENDS VirtualStore, SequencesExt

Paths == {<<"a">>, <<"a", "x">>, <<"b">>, <<"b", "x">>}
PathsUnder == [k \in Paths |-> {j \in Paths : IsStrictPrefix(k, j)}]

Ask(op, key, to, opts) == [op |-> op, key |-> key, to |-> to, opts |-> opts]

a == <<"a">>
ax == <<"a", "x">>
b == <<"b">>
bx == <<"b", "x">>

Moves == {<<a, b>>, <<b, a>>, <<ax, a>>}
PathsRebased ==
  [m \in Moves |-> [k \in PathsUnder[m[1]] |->
     m[2] \o SubSeq(k, Len(m[1]) + 1, Len(k))]]

Wanted ==
  {Ask("write", k, k, {}) : k \in {a, ax}} \cup
  {Ask("write", bx, bx, {"exclusive"}),
   Ask("append", ax, ax, {}), Ask("append", b, b, {}),
   Ask("unlink", ax, ax, {}), Ask("unlink", a, a, {"directory"}), Ask("mkdir", a, a, {}),
   Ask("rm", a, a, {"recursive"}), Ask("rm", b, b, {"force"}),
   Ask("rename", a, b, {}), Ask("rename", b, a, {"directory"}), Ask("rename", ax, a, {})}

Bundles == {bx}   \* keys with a preparer
=============================================================================
