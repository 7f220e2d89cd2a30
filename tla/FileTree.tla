------------------------------ MODULE FileTree ------------------------------
(***************************************************************************)
(* What a shared virtual place promises its callers: a tree of files in    *)
(* which directories are implied, and on which every mutation that         *)
(* succeeds takes effect in one step, under the conditions node:fs states, *)
(* on the files there are at that moment.  There are no publications in    *)
(* flight, no locks and no links here.  A mutation that fails changes      *)
(* nothing; when one may fail is left open.                                *)
(***************************************************************************)
EXTENDS Sequences

CONSTANTS Tasks, Keys, Under, Rebase, Requests, None

VARIABLES
  open,      \* the kernel takes mutations
  tree,      \* key -> content of its file, the mutations whose bytes it holds, or None
  state,     \* task -> "new", "asked", "done", "failed"
  request    \* task -> what it asks for while it does, else None

vars == <<open, tree, state, request>>

Files == {k \in Keys : tree[k] # None}
Nothing == [k \in Keys |-> None]

Init ==
  /\ open = TRUE
  /\ tree = Nothing
  /\ state = [t \in Tasks |-> "new"]
  /\ request = [t \in Tasks |-> None]

-----------------------------------------------------------------------------
IsDirectory(k) == Under[k] \cap Files # {}

\* A file may be put at k: nothing above it is a file, and it is no directory.
Room(k) == (\A j \in Files : k \notin Under[j]) /\ (k \in Files \/ ~IsDirectory(k))

Without(gone) == [k \in Keys |-> IF k \in gone THEN None ELSE tree[k]]

Write(t, r) ==
  /\ r.op = "write" /\ Room(r.key)
  /\ "exclusive" \in r.opts => r.key \notin Files
  /\ tree' = [tree EXCEPT ![r.key] = <<t>>]

Add(t, r) ==
  /\ r.op = "append" /\ Room(r.key)
  /\ tree' = [tree EXCEPT ![r.key] = Append(IF @ = None THEN <<>> ELSE @, t)]

Unlink(r) ==
  /\ r.op = "unlink" /\ r.key \in Files
  /\ tree' = Without({r.key})

\* An implied directory needs no entry.
Mkdir(r) ==
  /\ r.op = "mkdir" /\ r.key \notin Files
  /\ \A j \in Files : r.key \notin Under[j]
  /\ "recursive" \in r.opts \/ ~IsDirectory(r.key)
  /\ tree' = tree

Remove(r) ==
  /\ r.op = "rm"
  /\ \/ r.key \in Files /\ tree' = Without({r.key})
     \/ "recursive" \in r.opts /\ IsDirectory(r.key) /\ tree' = Without(Under[r.key])
     \/ "force" \in r.opts /\ ~IsDirectory(r.key) /\ tree' = tree

Rename(r) ==
  /\ r.op = "rename" /\ r.key \in Files /\ Room(r.to)
  /\ tree' = [Without({r.key}) EXCEPT ![r.to] = tree[r.key]]

\* The whole subtree moves, to where there is nothing yet.
RenameTree(r) ==
  LET moved == Under[r.key] \cap Files
      at == Rebase[<<r.key, r.to>>]
  IN  /\ r.op = "rename" /\ r.key \notin Files /\ moved # {}
      /\ \/ r.to = r.key /\ tree' = tree
         \/ /\ r.to \notin Under[r.key] /\ r.to # r.key
            /\ Room(r.to) /\ r.to \notin Files
            /\ tree' = [k \in Keys |-> IF \E j \in moved : at[j] = k
                                      THEN tree[CHOOSE j \in moved : at[j] = k]
                                      ELSE Without(moved)[k]]

TakesEffect(t, r) ==
  \/ Write(t, r) \/ Add(t, r) \/ Unlink(r) \/ Mkdir(r) \/ Remove(r)
  \/ Rename(r) \/ RenameTree(r)

Ask(t) ==
  /\ state[t] = "new"
  /\ state' = [state EXCEPT ![t] = "asked"]
  /\ \E r \in Requests : request' = [request EXCEPT ![t] = r]
  /\ UNCHANGED <<open, tree>>

Ends(t, s) ==
  /\ state' = [state EXCEPT ![t] = s]
  /\ request' = [request EXCEPT ![t] = None]

Succeed(t) ==
  /\ open /\ state[t] = "asked"
  /\ TakesEffect(t, request[t])
  /\ Ends(t, "done")
  /\ UNCHANGED open

Fail(t) ==
  /\ state[t] = "asked"
  /\ Ends(t, "failed")
  /\ UNCHANGED <<open, tree>>

\* The kernel closes and drops the files; what was asked for can only fail.
Close ==
  /\ open' = FALSE /\ tree' = Nothing
  /\ UNCHANGED <<state, request>>

Next ==
  \/ \E t \in Tasks : Ask(t) \/ Succeed(t) \/ Fail(t)
  \/ Close

Spec == Init /\ [][Next]_vars
=============================================================================
