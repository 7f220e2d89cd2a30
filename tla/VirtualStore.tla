---------------------------- MODULE VirtualStore ----------------------------
(***************************************************************************)
(* The mutations of one shared virtual place on the main thread:           *)
(* lib/sab-store.js, the checks of lib/pipeline.js it calls, and the       *)
(* publications of lib/kernel.js (publishVirtual, unpublishVirtual,        *)
(* renameVirtual, renameVirtualTree).                                      *)
(*                                                                         *)
(* A mutation is accepted: the store decides which locks it takes.  When   *)
(* its turn comes (the mutation queue's promise, KeyedOrder) it is checked *)
(* against the files of that moment and either ends at once or plans what  *)
(* it is going to publish, which takes a while; the plan is committed as   *)
(* it was made.  The three steps of a publication are cut at its awaits:   *)
(* up to the last check that the kernel lives, and from there to the       *)
(* commit.                                                                 *)
(*                                                                         *)
(* A file is one thing here: its companions are published, moved and       *)
(* removed with it.  Its content is the sequence of mutations whose bytes  *)
(* it holds.  Names carry an order only: what is under what.               *)
(***************************************************************************)
EXTENDS FiniteSets, Sequences

CONSTANTS
  Tasks,      \* mutations
  Keys,       \* canonical keys
  Under,      \* key -> the keys strictly below it
  Rebase,     \* <<from, to>> of a rename -> key below from -> the same below to
  Prepared,   \* keys whose extension has a preparer: the raw input is not kept
  Immovable,  \* keys whose published form names the key
  Requests,   \* what may be asked: [op, key, to, opts]
  None        \* no file, no request, no plan

Ops == {"write", "append", "unlink", "mkdir", "rm", "rename"}
Opts == {"exclusive", "directory", "recursive", "force"}
AllKeys == {}   \* the barrier of the place

ASSUME TreeAssumption ==
  /\ Under \in [Keys -> SUBSET Keys]
  /\ \A k \in Keys : k \notin Under[k]
  /\ \A j, k \in Keys : k \in Under[j] => Under[k] \subseteq Under[j]
  /\ \A i, j, k \in Keys :
       k \in Under[i] /\ k \in Under[j] => i = j \/ i \in Under[j] \/ j \in Under[i]

\* The keys that go, those that come, and those of them in creating meanwhile.
Contents == [Keys -> Seq(Tasks) \cup {None}]
Plan == [gone : SUBSET Keys, put : Contents, made : SUBSET Keys]

ASSUME RequestsAssumption ==
  /\ Requests \subseteq [op : Ops, key : Keys, to : Keys, opts : SUBSET Opts]
  /\ None \notin Requests /\ None \notin Seq(Tasks) /\ None \notin Plan
  /\ Prepared \subseteq Immovable

\* Re-keying keeps names apart and what is under what.
ASSUME RebaseAssumption ==
  \A r \in Requests : r.op = "rename" =>
    /\ Rebase[<<r.key, r.to>>] \in [Under[r.key] -> Under[r.to]]
    /\ \A j, k \in Under[r.key] :
         LET at == Rebase[<<r.key, r.to>>]
         IN  /\ at[j] = at[k] => j = k
             /\ at[k] \in Under[at[j]] => k \in Under[j]

VARIABLES
  ready,     \* the kernel is ready (not closed)
  files,     \* key -> content of the published file, or None
  creating,  \* keys whose publication has begun and not ended (#creating)
  state,     \* task -> "new", "queued", "publishing", "staged", "done", "failed"
  request,   \* task -> its request
  locks,     \* task -> the keys it locks, or AllKeys
  ahead,     \* task -> the tasks it still waits for
  plan       \* task -> what it commits: [gone, put, made], or None

vars == <<ready, files, creating, state, request, locks, ahead, plan>>

Published == {k \in Keys : files[k] # None}
Running(t) == state[t] \in {"publishing", "staged"}
Pending(t) == state[t] = "queued" \/ Running(t)

TypeOK ==
  /\ ready \in BOOLEAN
  /\ files \in Contents
  /\ creating \subseteq Keys
  /\ state \in [Tasks -> {"new", "queued", "publishing", "staged", "done", "failed"}]
  /\ request \in [Tasks -> Requests \cup {None}]
  /\ \A t \in Tasks : Pending(t) <=> request[t] # None
  /\ locks \in [Tasks -> SUBSET Keys]
  /\ ahead \in [Tasks -> SUBSET Tasks]
  /\ plan \in [Tasks -> Plan \cup {None}]
  /\ \A t \in Tasks : Running(t) <=> plan[t] # None

NoFiles == [k \in Keys |-> None]

Init ==
  /\ ready = TRUE
  /\ files = NoFiles
  /\ creating = {}
  /\ state = [t \in Tasks |-> "new"]
  /\ request = [t \in Tasks |-> None]
  /\ locks = [t \in Tasks |-> {}]
  /\ ahead = [t \in Tasks |-> {}]
  /\ plan = [t \in Tasks |-> None]

-----------------------------------------------------------------------------
(* Acceptance. *)

\* The locks the store asks for; a rename decides by what it finds when called.
LocksOf(r) ==
  CASE r.op = "rm" -> AllKeys
    [] r.op = "rename" ->
         IF "directory" \notin r.opts /\ r.key \in Published THEN {r.key, r.to} ELSE AllKeys
    [] OTHER -> {r.key}

Conflict(l, m) == l = AllKeys \/ m = AllKeys \/ l \cap m # {}

Accept(t, r) ==
  /\ state[t] = "new"
  /\ state' = [state EXCEPT ![t] = "queued"]
  /\ request' = [request EXCEPT ![t] = r]
  /\ locks' = [locks EXCEPT ![t] = LocksOf(r)]
  /\ ahead' = [ahead EXCEPT ![t] =
       {u \in Tasks : Pending(u) /\ Conflict(locks[u], LocksOf(r))}]
  /\ UNCHANGED <<ready, files, creating, plan>>

BrokenItsTurn(t) == state[t] = "queued"
ItsTurn(t) == state[t] = "queued" /\ ahead[t] = {}

-----------------------------------------------------------------------------
(* The checks. *)

IsDirectory(k) == Under[k] \cap Published # {}
FileAbove(k) == \E j \in Published \cup creating : k \in Under[j]

\* checkHierarchy
BrokenHierarchyAllows(k) ==
  ~FileAbove(k) /\ (k \in Published \/ ~IsDirectory(k))
HierarchyAllows(k) ==
  /\ ~FileAbove(k)
  /\ k \in Published \/ Under[k] \cap (Published \cup creating) = {}

\* checkMkdir
MkdirAllows(r) ==
  /\ r.key \notin Published \cup creating
  /\ ~FileAbove(r.key)
  /\ "recursive" \in r.opts \/ ~IsDirectory(r.key)

\* subtreeMoves: where to, and nothing under it that must stay.
TreeMayMove(r) ==
  \/ r.to = r.key
  \/ /\ r.to \notin Under[r.key]
     /\ r.to \notin Published /\ ~IsDirectory(r.to) /\ HierarchyAllows(r.to)
     /\ Under[r.key] \cap Published \cap Immovable = {}

\* What the publication of a new content of one key commits.
Publication(k, content, gone) == [gone |-> gone, put |-> [NoFiles EXCEPT ![k] = content], made |-> {k}]

Joined(k, t) == Append(IF k \in Published THEN files[k] ELSE <<>>, t)

\* renameVirtualTree: the subtree under its new keys.
TreePlan(r) ==
  LET moved == Under[r.key] \cap Published
      at == Rebase[<<r.key, r.to>>]
  IN  IF r.to = r.key THEN [gone |-> {}, put |-> NoFiles, made |-> {}]
      ELSE [gone |-> moved, made |-> {},
            put |-> [k \in Keys |-> IF \E j \in moved : at[j] = k
                                    THEN files[CHOOSE j \in moved : at[j] = k] ELSE None]]

-----------------------------------------------------------------------------
(* The turn of a mutation. *)

\* A task that is over asks for nothing, and nobody waits for it.
Over(t, s) ==
  /\ state' = [state EXCEPT ![t] = s]
  /\ request' = [request EXCEPT ![t] = None]
  /\ locks' = [locks EXCEPT ![t] = {}]
  /\ ahead' = [u \in Tasks |-> ahead[u] \ {t}]

Ends(t, s) == Over(t, s) /\ UNCHANGED <<ready, creating, plan>>

Refused(t) == Ends(t, "failed") /\ UNCHANGED files

Removes(t, gone) ==
  /\ Ends(t, "done")
  /\ files' = [k \in Keys |-> IF k \in gone THEN None ELSE files[k]]

Publishes(t, entry) ==
  /\ state' = [state EXCEPT ![t] = "publishing"]
  /\ plan' = [plan EXCEPT ![t] = entry]
  /\ creating' = creating \cup entry.made
  /\ UNCHANGED <<ready, files, request, locks, ahead>>

Write(t, r) ==
  IF /\ "exclusive" \in r.opts => r.key \notin Published /\ ~IsDirectory(r.key)
     /\ HierarchyAllows(r.key)
  THEN Publishes(t, Publication(r.key, <<t>>, {}))
  ELSE Refused(t)

AppendTo(t, r) ==
  IF r.key \notin Prepared /\ HierarchyAllows(r.key)
  THEN Publishes(t, Publication(r.key, Joined(r.key, t), {}))
  ELSE Refused(t)

Unlink(t, r) ==
  IF "directory" \notin r.opts /\ r.key \in Published
  THEN Removes(t, {r.key}) ELSE Refused(t)

Mkdir(t, r) == IF MkdirAllows(r) THEN Removes(t, {}) ELSE Refused(t)

Rm(t, r) ==
  IF "directory" \notin r.opts /\ r.key \in Published THEN Removes(t, {r.key})
  ELSE IF ~IsDirectory(r.key) THEN
    IF "force" \in r.opts THEN Removes(t, {}) ELSE Refused(t)
  ELSE IF "recursive" \in r.opts THEN Removes(t, Under[r.key]) ELSE Refused(t)

Rename(t, r) ==
  IF r.key \notin Published /\ locks[t] = AllKeys /\ IsDirectory(r.key)
  THEN IF TreeMayMove(r) THEN Publishes(t, TreePlan(r)) ELSE Refused(t)
  ELSE IF /\ r.key \in Published /\ "directory" \notin r.opts
          /\ r.key \notin Prepared /\ HierarchyAllows(r.to)
       THEN Publishes(t, Publication(r.to, files[r.key], {r.key}))
       ELSE Refused(t)

Start(t) ==
  /\ ItsTurn(t)
  /\ LET r == request[t]
     IN  IF ~ready THEN Refused(t)
         ELSE CASE r.op = "write" -> Write(t, r)
                [] r.op = "append" -> AppendTo(t, r)
                [] r.op = "unlink" -> Unlink(t, r)
                [] r.op = "mkdir" -> Mkdir(t, r)
                [] r.op = "rm" -> Rm(t, r)
                [] r.op = "rename" -> Rename(t, r)

-----------------------------------------------------------------------------
(* Its publication. *)

PublicationEnds(t, s) ==
  /\ Over(t, s)
  /\ plan' = [plan EXCEPT ![t] = None]
  /\ creating' = creating \ plan[t].made
  /\ UNCHANGED ready

\* The epoch's changes: a key that goes and comes again is published.
BrokenCommitted(p) == [k \in Keys |-> IF p.put[k] # None THEN p.put[k] ELSE files[k]]
Committed(p) ==
  [k \in Keys |-> IF p.put[k] # None THEN p.put[k]
                 ELSE IF k \in p.gone THEN None ELSE files[k]]

\* The bytes are in place, and the kernel was alive at the last check.  A subtree
\* is checked and committed without an await in between.
Stage(t) ==
  /\ state[t] = "publishing" /\ ready
  /\ plan[t].made # {}
  /\ state' = [state EXCEPT ![t] = "staged"]
  /\ UNCHANGED <<ready, files, creating, request, locks, ahead, plan>>

\* #flush; on a closed kernel it publishes nothing, and the promise resolves.
Flush(t) ==
  /\ \/ state[t] = "staged"
     \/ state[t] = "publishing" /\ ready /\ plan[t].made = {}
  /\ files' = IF ready THEN Committed(plan[t]) ELSE files
  /\ PublicationEnds(t, "done")

\* The preparer, the compiler or the allocator fails, or the kernel is closed.
Fail(t) ==
  /\ state[t] = "publishing"
  /\ PublicationEnds(t, "failed")
  /\ UNCHANGED files

\* close(): queued mutations lose their locks' records, not their order.
Close ==
  /\ ready
  /\ ready' = FALSE
  /\ files' = NoFiles
  /\ UNCHANGED <<creating, state, request, locks, ahead, plan>>

Turn(t) == Start(t) \/ Stage(t) \/ Flush(t) \/ Fail(t)

Next ==
  \/ \E t \in Tasks : (\E r \in Requests : Accept(t, r)) \/ Turn(t)
  \/ Close

Spec == Init /\ [][Next]_vars

-----------------------------------------------------------------------------
(* Properties. *)

\* A path is a file or a directory, never both, also of the files whose
\* publication is under way: whichever of them commit, in whatever order, no file
\* lies below another.
Hierarchy ==
  \A j, k \in Published \cup creating : k \notin Under[j]

Shown == [t \in Tasks |-> IF Pending(t) THEN "asked" ELSE state[t]]
Tree == INSTANCE FileTree WITH open <- ready, tree <- files, state <- Shown

\* Each mutation that succeeds takes effect in one step, on the files of that
\* step and under the conditions node:fs states for it, although what it does was
\* decided before its publication began and other publications commit meanwhile:
\* no append loses another, no rename moves bytes written over since, no exclusive
\* write replaces a file.  One that fails changes nothing.  lib/sab-store.js promises
\* that every method settles once the new version is published; a mutation past the
\* last check that the kernel lives breaks this when close() comes first.
ActsAtomically == Tree!Spec

\* The same restricted to a kernel that is ready.  Once it is closed nothing takes
\* effect any more, but a mutation may still end as done.
ActsAtomicallyWhileReady ==
  Tree!Init /\ [][Tree!Next \/ (~ready /\ UNCHANGED <<ready, files>>)]_(Tree!vars)
=============================================================================
