----------------------------- MODULE PlaceFiles -----------------------------
(***************************************************************************)
(* The projection of a place with the directories its keys imply           *)
(* (PlaceFiles of lib/place.js).  A path is a sequence of names; the place  *)
(* itself is a path of length Depth.  A directory index Map<dir, Set<name>> *)
(* is the set of the paths it names: a path is in names when its directory *)
(* lists it.                                                               *)
(***************************************************************************)
EXTENDS SequencesExt

CONSTANTS
  Depth,  \* length of the path of a place
  None    \* no entry

\* [entries: path -> entry or None, names: set of paths]
Prefix(p, n) == SubSeq(p, 1, n)
Levels(p) == (Depth + 1)..Len(p)

Holds(entries, p) == p \in DOMAIN entries /\ entries[p] # None
HasDirectory(names, dir) == \E p \in names : Front(p) = dir

\* Every directory above a new key holds its next name.
Linked(names, p) == names \cup {Prefix(p, n) : n \in Levels(p)}

\* From p upwards, a name leaves its directory once nothing bears it.
Unlinking(names, entries, p) ==
  LET after[n \in (Depth + 1)..(Len(p) + 1)] ==
        IF n = Len(p) + 1 THEN names
        ELSE LET left == after[n + 1]
                 q == Prefix(p, n)
             IN  IF Holds(entries, q) \/ HasDirectory(left, q) THEN left ELSE left \ {q}
  IN  after

BrokenUnlinked(names, entries, p) == names \ {Prefix(p, n) : n \in Levels(p)}
Unlinked(names, entries, p) == Unlinking(names, entries, p)[Depth + 1]

Set(map, p, entry) ==
  [entries |-> [map.entries EXCEPT ![p] = entry],
   names |-> IF map.entries[p] = None THEN Linked(map.names, p) ELSE map.names]

Delete(map, p) ==
  LET entries == [map.entries EXCEPT ![p] = None]
  IN  IF map.entries[p] = None THEN map
      ELSE [entries |-> entries, names |-> Unlinked(map.names, entries, p)]

\* Each path with what `changes` has for it, an entry or None, one after the other.
Put(map, p, entry) == IF entry = None THEN Delete(map, p) ELSE Set(map, p, entry)
PutAll(map, changes) == FoldSet(LAMBDA p, m : Put(m, p, changes[p]), map, DOMAIN changes)
DeleteAll(map, paths) == PutAll(map, [p \in paths |-> None])

Children(map, dir) == {p \in map.names : Front(p) = dir}

\* Everything below dir, depth first: through the directories it lists.
Below(map, dir) ==
  {p \in map.names : /\ IsStrictPrefix(dir, p)
                     /\ \A n \in (Len(dir) + 1)..Len(p) : Prefix(p, n) \in map.names}
KeysBelow(map, dir) == {p \in Below(map, dir) : Holds(map.entries, p)}
=============================================================================
