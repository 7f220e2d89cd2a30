------------------------------ MODULE Lifetime ------------------------------
(***************************************************************************)
(* The lifetime of shared bytes: lib/kernel.js (flush, apply, track, ack,  *)
(* release, worker exit, settle, compact, link, close), lib/pins.js and    *)
(* the parts of lib/cache.js they drive.                                   *)
(*                                                                         *)
(* The main thread publishes versions that live in segments of one pool,   *)
(* and every thread reads them in place.  A version an update replaces or  *)
(* removes is retired, and its extent is reused only once every linked     *)
(* worker has applied the update and no thread still reads the version.    *)
(*                                                                         *)
(* Data abstraction.  An extent is one slot of a segment (offsets, lengths *)
(* and best fit are the business of another module).  What a file contains *)
(* is an element of Contents; an entry says which content it expects in    *)
(* which extent, so a reader that finds another content there reads        *)
(* foreign bytes.  Entries that own no extent (disk entries, empty files)  *)
(* are Plain.  A key stands for a (place, key) pair.  A retire id, fresh   *)
(* for every retired version in the code, is the pair of the update and    *)
(* the key: one update retires at most one version of a key.               *)
(*                                                                         *)
(* Operators named Broken... are plausible defects of the operator they    *)
(* precede; the specification does not use them.  Each shows that some     *)
(* property would notice.                                                  *)
(***************************************************************************)
EXTENDS Integers, Sequences, FiniteSets, Functions

CONSTANTS
  Keys,        \* (place, key) pairs
  Links,       \* links the main kernel may create, one per worker
  Main,        \* the main thread, also the holder id 'main'
  Segments,    \* the segments the memory limit allows
  Slots,       \* the extents of one segment
  Contents,    \* file contents; each is written once
  Plain,       \* an entry without an extent: on disk, or empty
  None,        \* no entry, no bytes, no retire id
  Threshold,   \* compaction threshold, in slots; 0 disables compaction
  MaxUpdates,  \* bound: updates the application may cause
  MaxPins      \* bound: consumers one thread may have of one version

Threads == Links \cup {Main}
Extent == Segments \X Slots
Entry == [extent : Extent, content : Contents]
Value == Entry \cup {Plain, None}
RetireId == Nat \X Keys

ASSUME ThreadsAssumption == Main \notin Links
ASSUME ValuesAssumption ==
  /\ Plain \notin Entry
  /\ None \notin Entry
  /\ Plain # None
  /\ None \notin Contents
  /\ None \notin RetireId

\* The memory limit bounds the pool.
ASSUME SegmentsAssumption == IsFiniteSet(Segments)

ASSUME ThresholdAssumption ==
  IsFiniteSet(Slots) /\ Threshold \in 0..Cardinality(Slots)

VARIABLES
  phase,     \* "ready" or "closed": the main kernel's state
  pc,        \* "compact" while a settle that freed something must compact
  files,     \* thread -> key -> value: the projection (the index, for Main)
  free,      \* extents the allocator may hand out
  bytes,     \* extent -> content found there
  private,   \* entries allocated by a publication and not yet committed
  closed,    \* segments being emptied by compaction
  written,   \* contents written so far
  updateId,  \* the last update
  retired,   \* retire id -> [entry, holders]
  acks,      \* update -> links whose ACK is awaited
  links,     \* links the main kernel still posts to
  worker,    \* link -> "none", "linked", "attached", "gone"
  pins,      \* thread -> entry -> number of consumers
  bound,     \* thread -> entry -> retire id it was retired under while pinned
  down,      \* link -> updates posted and not yet applied
  up         \* link -> messages posted and not yet handled by the main thread

poolVars == <<free, bytes, private, closed, written>>
linkVars == <<links, worker, up>>
vars == <<phase, pc, files, free, bytes, private, closed, written, updateId,
          retired, acks, links, worker, pins, bound, down, up>>

Update == [update : Nat, changes : UNION {[D -> Value] : D \in SUBSET Keys},
           retires : SUBSET Keys]
UpMessage ==
  [type : {"ack"}, update : Nat, ids : SUBSET RetireId]
    \cup [type : {"release"}, ids : SUBSET RetireId]
    \cup [type : {"close"}]

TypeOK ==
  /\ phase \in {"ready", "closed"}
  /\ pc \in {"idle", "compact"}
  /\ files \in [Threads -> [Keys -> Value]]
  /\ free \subseteq Extent
  /\ bytes \in [Extent -> Contents \cup {None}]
  /\ private \subseteq Entry
  /\ closed \subseteq Segments
  /\ written \subseteq Contents
  /\ updateId \in Nat
  /\ DOMAIN retired \subseteq RetireId
  /\ retired \in [DOMAIN retired -> [entry : Entry, holders : SUBSET Threads]]
  /\ DOMAIN acks \subseteq Nat
  /\ acks \in [DOMAIN acks -> SUBSET Links]
  /\ links \subseteq Links
  /\ worker \in [Links -> {"none", "linked", "attached", "gone"}]
  /\ pins \in [Threads -> [Entry -> Nat]]
  /\ bound \in [Threads -> [Entry -> RetireId \cup {None}]]
  /\ down \in [Links -> Seq(Update)]
  /\ up \in [Links -> Seq(UpMessage)]

NoFile == [k \in Keys |-> None]
Unpinned == [v \in Entry |-> 0]
Unbound == [v \in Entry |-> None]

Init ==
  /\ phase = "ready"
  /\ pc = "idle"
  /\ files = [t \in Threads |-> NoFile]
  /\ free = Extent
  /\ bytes = [x \in Extent |-> None]
  /\ private = {}
  /\ closed = {}
  /\ written = {}
  /\ updateId = 0
  /\ retired = [id \in {} |-> [entry |-> None, holders |-> {}]]
  /\ acks = [u \in {} |-> {}]
  /\ links = {}
  /\ worker = [l \in Links |-> "none"]
  /\ pins = [t \in Threads |-> Unpinned]
  /\ bound = [t \in Threads |-> Unbound]
  /\ down = [l \in Links |-> <<>>]
  /\ up = [l \in Links |-> <<>>]

Published == {files[Main][k] : k \in Keys} \cap Entry

-----------------------------------------------------------------------------
(* The pool, as far as lifetimes depend on it. *)

\* A segment is registered while one of its extents is in use.
Registered(s) == \E i \in Slots : <<s, i>> \notin free
Open(s) == Registered(s) /\ s \notin closed
Used(s) == Cardinality({i \in Slots : <<s, i>> \notin free})

\* A free extent of an open segment, or a new (or reused) segment if none has one.
Allocatable ==
  LET room == {x \in free : Open(x[1])}
  IN  IF room # {} THEN room ELSE {x \in free : ~Registered(x[1])}

\* A publication places its bytes; nobody but it can see them before its commit.
Allocate(c) ==
  /\ phase = "ready"
  /\ pc = "idle"
  /\ c \notin written
  /\ \E x \in Allocatable :
       /\ free' = free \ {x}
       /\ bytes' = [bytes EXCEPT ![x] = c]
       /\ private' = private \cup {[extent |-> x, content |-> c]}
  /\ written' = written \cup {c}
  /\ UNCHANGED <<phase, pc, files, closed, updateId, retired, acks, pins, bound,
                 down>>
  /\ UNCHANGED linkVars

\* Segments of cl that still hold something when the extents fr are free.
StillUsed(cl, fr) == {s \in cl : \E i \in Slots : <<s, i>> \notin fr}

\* A failed attempt, or a staged entry superseded within its epoch.
Abandon(v) ==
  /\ phase = "ready"
  /\ pc = "idle"
  /\ v \in private
  /\ private' = private \ {v}
  /\ free' = free \cup {v.extent}
  /\ closed' = StillUsed(closed, free')
  /\ UNCHANGED <<phase, pc, files, bytes, written, updateId, retired, acks, pins,
                 bound, down>>
  /\ UNCHANGED linkVars

-----------------------------------------------------------------------------
(* Settling retired versions: free what nobody awaits or reads, then compact. *)

BrokenFreeable(record, update, waiting) == record.holders = {}
Freeable(record, update, waiting) ==
  /\ record.holders = {}
  /\ update \notin DOMAIN waiting

\* Settle the records `ids` of `records` when the ACKs still due are `waiting`,
\* the free extents `fr` and the closed segments `cl`.
Settle(records, ids, waiting, fr, cl) ==
  LET done == {id \in ids : Freeable(records[id], id[1], waiting)}
  IN  /\ retired' = Restrict(records, DOMAIN records \ done)
      /\ acks' = waiting
      /\ free' = fr \cup {records[id].entry.extent : id \in done}
      /\ closed' = StillUsed(cl, free')
      /\ pc' = IF done = {} THEN "idle" ELSE "compact"

BrokenWithout(holder, ids) == retired
Without(holder, ids) ==
  [id \in DOMAIN retired |->
     IF id \in ids
     THEN [retired[id] EXCEPT !.holders = @ \ {holder}]
     ELSE retired[id]]

Held(holder) == {id \in DOMAIN retired : holder \in retired[id].holders}

-----------------------------------------------------------------------------
(* Applying an update to the projection of one thread. *)

\* Thread t has a consumer of v that has not released it.
BrokenPinned(t, v) == pins[t][v] >= 0
Pinned(t, v) == pins[t][v] > 0

\* Keys whose version the update retires while thread t still reads it.
BrokenRetained(t, msg) ==
  {k \in msg.retires : /\ files[t][k] \in Entry /\ Pinned(t, files[t][k])
                       /\ msg.changes[k] \in Entry =>
                            msg.changes[k].content # files[t][k].content}
Retained(t, msg) ==
  {k \in msg.retires : files[t][k] \in Entry /\ Pinned(t, files[t][k])}

Overlay(old, changes) ==
  [k \in Keys |-> IF k \in DOMAIN changes THEN changes[k] ELSE old[k]]

Apply(t, msg) ==
  LET kept == Retained(t, msg)
  IN  /\ files' = [files EXCEPT ![t] = Overlay(@, msg.changes)]
      /\ bound' = [bound EXCEPT ![t] =
           [v \in Entry |->
              IF \E k \in kept : files[t][k] = v
              THEN <<msg.update, CHOOSE k \in kept : files[t][k] = v>>
              ELSE @[v]]]

\* Keys whose published version `changes` replace or remove.
BrokenReplaced(changes) ==
  {k \in DOMAIN changes : files[Main][k] \in Entry /\ changes[k] # None}
Replaced(changes) == {k \in DOMAIN changes : files[Main][k] \in Entry}

\* Segments that receive a published entry: open again if compaction closed them.
Reopened(changes) == {changes[k].extent[1] :
                        k \in {j \in DOMAIN changes : changes[j] \in Entry}}

\* Links an update is posted to; the port of a worker that is gone drops it.
BrokenTold == {l \in links : worker[l] = "attached"}
Told == {l \in links : worker[l] # "gone"}

\* Main commits `changes` as one update and tells every thread.  `fr` and `cl`
\* are the free extents and closed segments once `changes` have their extents.
Commit(changes, fr, cl) ==
  LET gone == Replaced(changes)
      msg == [update |-> updateId + 1, changes |-> changes, retires |-> gone]
      fresh == {updateId + 1} \X gone
      records == [id \in DOMAIN retired \cup fresh |->
                    IF id \in fresh
                    THEN [entry |-> files[Main][id[2]],
                          holders |-> {t \in {Main} : id[2] \in Retained(t, msg)}]
                    ELSE retired[id]]
      waiting == IF gone # {} /\ links # {}
                 THEN [u \in DOMAIN acks \cup {updateId + 1} |->
                         IF u = updateId + 1 THEN links ELSE acks[u]]
                 ELSE acks
  IN  /\ updateId' = updateId + 1
      /\ Apply(Main, msg)
      /\ down' = [l \in Links |->
                    IF l \in Told THEN Append(down[l], msg) ELSE down[l]]
      /\ Settle(records, fresh, waiting, fr, cl \ Reopened(changes))

\* One epoch of the application: entries placed by it, disk entries, removals
\* of what is published.
Flush(changes) ==
  /\ phase = "ready"
  /\ pc = "idle"
  /\ updateId < MaxUpdates
  /\ DOMAIN changes # {}
  /\ \A k \in DOMAIN changes : changes[k] = None => files[Main][k] # None
  /\ \A j, k \in DOMAIN changes :
       changes[j] \in Entry /\ changes[j] = changes[k] => j = k
  /\ Commit(changes, free, closed)
  /\ private' = private \ {changes[k] : k \in DOMAIN changes}
  /\ UNCHANGED <<phase, bytes, written, pins>>
  /\ UNCHANGED linkVars

-----------------------------------------------------------------------------
(* Compaction: relocate every published entry of one badly used segment. *)

Targets ==
  LET open == {s \in Segments : Open(s)}
  IN  {s \in open : /\ Used(s) < Threshold
                    /\ \A r \in open : Used(s) <= Used(r)
                    /\ open # {s}}

Items(s) == {k \in Keys : files[Main][k] \in Entry /\ files[Main][k].extent[1] = s}

BrokenRoom(s) == {x \in free : Open(x[1])}
Room(s) == {x \in free : Open(x[1]) /\ x[1] # s}

\* Every way to place the items of segment s without growing the pool.
Moves(s) == IF Items(s) = {} THEN {} ELSE Injection(Items(s), Room(s))

\* The pool once every item of s is copied to its new extent.
Copied(s, to) ==
  [x \in Extent |->
     IF \E k \in Items(s) : to[k] = x
     THEN bytes[files[Main][CHOOSE k \in Items(s) : to[k] = x].extent]
     ELSE bytes[x]]

Relocate(s, to) ==
  /\ bytes' = Copied(s, to)
  /\ Commit([k \in Items(s) |-> [files[Main][k] EXCEPT !.extent = to[k]]],
            free \ {to[k] : k \in Items(s)}, closed \cup {s})

\* The compaction a settle ends with, in the same synchronous call: the main
\* thread does nothing else before, while workers go on.
Compact ==
  /\ phase = "ready"
  /\ pc = "compact"
  /\ \/ \E s \in Targets : \E to \in Moves(s) : Relocate(s, to)
     \/ /\ Targets = {} \/ \E s \in Targets : Moves(s) = {}
        /\ pc' = "idle"
        /\ UNCHANGED <<files, bound, bytes, free, closed, updateId, retired, acks,
                       down>>
  /\ UNCHANGED <<phase, private, written, pins>>
  /\ UNCHANGED linkVars

-----------------------------------------------------------------------------
(* What the main thread does with the messages of a link. *)

\* The ACKs still due once link l has answered (or will never answer) `updates`.
BrokenAnswered(l, updates) ==
  [u \in DOMAIN acks |-> IF u \in updates THEN acks[u] \ {l} ELSE acks[u]]
Answered(l, updates) ==
  [u \in {w \in DOMAIN acks : ~(w \in updates /\ acks[w] = {l})} |->
     IF u \in updates THEN acks[u] \ {l} ELSE acks[u]]

RecordsOf(updates) == {id \in DOMAIN retired : id[1] \in updates}

\* Retained versions are held before the ACK can free anything.
AckRecords(l, ids) ==
  [id \in DOMAIN retired |->
     IF id \in ids
     THEN [retired[id] EXCEPT !.holders = @ \cup {l}]
     ELSE retired[id]]

HandleAck(l) ==
  /\ Head(up[l]).type = "ack"
  /\ LET waiting == Answered(l, {Head(up[l]).update})
     IN  Settle(AckRecords(l, Head(up[l]).ids),
                RecordsOf(DOMAIN acks \ DOMAIN waiting), waiting, free, closed)
  /\ links' = links

HandleRelease(l) ==
  /\ Head(up[l]).type = "release"
  /\ LET ids == Head(up[l]).ids
     IN  Settle(Without(l, ids), ids \cap Held(l), acks, free, closed)
  /\ links' = links

\* The port of link l closed: its worker neither ACKs nor reads any more.
HandleWorkerExit(l) ==
  /\ Head(up[l]).type = "close"
  /\ LET waiting == Answered(l, DOMAIN acks)
     IN  Settle(Without(l, DOMAIN retired),
                RecordsOf(DOMAIN acks \ DOMAIN waiting) \cup Held(l),
                waiting, free, closed)
  /\ links' = links \ {l}

HandleMessage(l) ==
  /\ phase = "ready"
  /\ pc = "idle"
  /\ up[l] # <<>>
  /\ HandleAck(l) \/ HandleRelease(l) \/ HandleWorkerExit(l)
  /\ up' = [up EXCEPT ![l] = Tail(@)]
  /\ UNCHANGED <<phase, files, bytes, private, written, updateId, worker, pins,
                 bound, down>>

-----------------------------------------------------------------------------
(* Links and workers. *)

\* link(): the snapshot and the private port, taken in one synchronous step.
Link(l) ==
  /\ phase = "ready"
  /\ pc = "idle"
  /\ worker[l] = "none"
  /\ worker' = [worker EXCEPT ![l] = "linked"]
  /\ links' = links \cup {l}
  /\ files' = [files EXCEPT ![l] = files[Main]]
  /\ UNCHANGED <<phase, pc, updateId, retired, acks, pins, bound, down, up>>
  /\ UNCHANGED poolVars

\* attach() in the worker; updates posted meanwhile wait in the port.
Attach(l) ==
  /\ worker[l] = "linked"
  /\ worker' = [worker EXCEPT ![l] = "attached"]
  /\ UNCHANGED <<phase, pc, files, updateId, retired, acks, links, pins, bound,
                 down, up>>
  /\ UNCHANGED poolVars

\* A message to a closed main kernel is dropped.
Post(l, msg) ==
  IF phase = "closed" THEN up ELSE [up EXCEPT ![l] = Append(@, msg)]

\* The worker applies one update and ACKs it with the versions it still reads.
Deliver(l) ==
  /\ worker[l] = "attached"
  /\ down[l] # <<>>
  /\ LET msg == Head(down[l])
     IN  /\ Apply(l, msg)
         /\ up' = Post(l, [type |-> "ack", update |-> msg.update,
                           ids |-> {msg.update} \X Retained(l, msg)])
  /\ down' = [down EXCEPT ![l] = Tail(@)]
  /\ UNCHANGED <<phase, pc, updateId, retired, acks, links, worker, pins>>
  /\ UNCHANGED poolVars

\* The worker ends, or closes its kernel, or the link is never attached.
Exit(l) ==
  /\ worker[l] \in {"linked", "attached"}
  /\ worker' = [worker EXCEPT ![l] = "gone"]
  /\ files' = [files EXCEPT ![l] = NoFile]
  /\ pins' = [pins EXCEPT ![l] = Unpinned]
  /\ bound' = [bound EXCEPT ![l] = Unbound]
  /\ down' = [down EXCEPT ![l] = <<>>]
  /\ up' = Post(l, [type |-> "close"])
  /\ UNCHANGED <<phase, pc, updateId, retired, acks, links>>
  /\ UNCHANGED poolVars

-----------------------------------------------------------------------------
(* Direct consumers of shared bytes: streams and view leases. *)

Running(t) == IF t = Main THEN phase = "ready" /\ pc = "idle"
                          ELSE worker[t] = "attached"

Acquire(t, k) ==
  /\ Running(t)
  /\ files[t][k] \in Entry
  /\ pins[t][files[t][k]] < MaxPins
  /\ pins' = [pins EXCEPT ![t][files[t][k]] = @ + 1]
  /\ UNCHANGED <<phase, pc, files, updateId, retired, acks, bound, down>>
  /\ UNCHANGED poolVars
  /\ UNCHANGED linkVars

\* The last consumer of a retired version releases it: at once in the main
\* thread, by a message from a worker.
Drop(t, v) ==
  /\ Running(t)
  /\ Pinned(t, v)
  /\ pins' = [pins EXCEPT ![t][v] = @ - 1]
  /\ IF pins[t][v] > 1 \/ bound[t][v] = None
     THEN UNCHANGED <<pc, bound, retired, acks, free, closed, up>>
     ELSE /\ bound' = [bound EXCEPT ![t][v] = None]
          /\ IF t = Main
             THEN /\ Settle(Without(Main, {bound[t][v]}),
                            {bound[t][v]} \cap Held(Main), acks, free, closed)
                  /\ up' = up
             ELSE /\ up' = Post(t, [type |-> "release", ids |-> {bound[t][v]}])
                  /\ UNCHANGED <<pc, retired, acks, free, closed>>
  /\ UNCHANGED <<phase, files, bytes, private, written, updateId, links, worker,
                 down>>

-----------------------------------------------------------------------------
\* close(): the ports close, the pool and every record are dropped.  Nothing is
\* written to the segments afterwards, so workers go on reading what they have.
Close ==
  /\ phase = "ready"
  /\ pc = "idle"
  /\ phase' = "closed"
  /\ files' = [files EXCEPT ![Main] = NoFile]
  /\ pins' = [pins EXCEPT ![Main] = Unpinned]
  /\ bound' = [bound EXCEPT ![Main] = Unbound]
  /\ links' = {}
  /\ up' = [l \in Links |-> <<>>]
  /\ retired' = Restrict(retired, {})
  /\ acks' = Restrict(acks, {})
  /\ private' = {}
  /\ closed' = {}
  /\ UNCHANGED <<pc, free, bytes, written, updateId, worker, down>>

Next ==
  \/ \E c \in Contents : Allocate(c)
  \/ \E v \in private : Abandon(v)
  \/ \E D \in SUBSET Keys :
       \E changes \in [D -> private \cup {Plain, None}] : Flush(changes)
  \/ Compact
  \/ \E l \in Links : HandleMessage(l)
  \/ \E l \in Links : Link(l) \/ Attach(l) \/ Deliver(l) \/ Exit(l)
  \/ \E t \in Threads, k \in Keys : Acquire(t, k)
  \/ \E t \in Threads, v \in Entry : Drop(t, v)
  \/ Close

Spec == Init /\ [][Next]_vars

-----------------------------------------------------------------------------
(* Properties. *)

\* What thread t can still read: its projection and what its consumers hold.
Readable(t) == ({files[t][k] : k \in Keys} \cap Entry)
                 \cup {v \in Entry : pins[t][v] > 0}

\* A reader never finds foreign bytes: whatever a live thread can reach through
\* its projection, however far behind, or through a stream or a lease, the extent
\* still holds that version's content.  This is what ACK-before-free is for.
NoForeignBytes ==
  \A t \in Threads : \A v \in Readable(t) : bytes[v.extent] = v.content

\* The extents of private, published and retired versions are pairwise disjoint
\* and make up, with the free ones, the whole pool: no extent is handed out
\* twice, freed twice or lost, whatever the order of commits, ACKs and releases.
PoolPartition ==
  phase = "ready" =>
    LET owned == {v.extent : v \in private} \cup {v.extent : v \in Published}
                   \cup {retired[id].entry.extent : id \in DOMAIN retired}
    IN  /\ owned = Extent \ free
        /\ Cardinality(owned) = Cardinality(private)
             + Cardinality({k \in Keys : files[Main][k] \in Entry})
             + Cardinality(DOMAIN retired)

Due(u) == u \in DOMAIN acks

\* Every version that is still retained has somebody to wait for, and whoever is
\* waited for has the means to answer: an ACK that is due will still be sent, a
\* holder still reads the version or has its release (or its exit) under way.
NoLostWait ==
  phase = "ready" =>
    /\ \A id \in DOMAIN retired : Due(id[1]) \/ retired[id].holders # {}
    /\ \A u \in DOMAIN acks : acks[u] # {} /\ \A l \in acks[u] :
         \/ \E i \in 1..Len(down[l]) : down[l][i].update = u
         \/ \E i \in 1..Len(up[l]) :
              \/ up[l][i].type = "ack" /\ up[l][i].update = u
              \/ up[l][i].type = "close"
    /\ \A id \in DOMAIN retired : \A t \in retired[id].holders :
         \/ pins[t][retired[id].entry] > 0 /\ bound[t][retired[id].entry] = id
         \/ /\ t # Main
            /\ \E i \in 1..Len(up[t]) :
                 \/ up[t][i].type = "release" /\ id \in up[t][i].ids
                 \/ up[t][i].type = "close"

\* The settle - compact - flush - settle recursion ends: every relocation
\* empties a segment that an allocation or a publication had opened, and each
\* content is allocated and published at most once.  The updates, those of the
\* application and the relocations together, are never more than MaxUpdates and two
\* per content.
RelocationsAreBounded == updateId <= MaxUpdates + 2 * Cardinality(Contents)

\* What a reader finds in the files of one projection.
Found(entries) == [k \in Keys |-> IF entries[k] \in Entry
                                  THEN bytes[entries[k].extent] ELSE entries[k]]

\* The last of the first i updates that changes key k; 0 if none does.
LastChange(updates, i, k) ==
  CHOOSE j \in 0..i : /\ j = 0 \/ k \in DOMAIN updates[j].changes
                      /\ \A m \in (j + 1)..i : k \notin DOMAIN updates[m].changes

\* A projection once the first i of the updates under way are applied to it.
After(entries, updates, i) ==
  [k \in Keys |-> LET j == LastChange(updates, i, k)
                  IN  IF j = 0 THEN entries[k] ELSE updates[j].changes[k]]

Reading == INSTANCE PublishedFiles WITH
  Values <- Contents \cup {Plain, None},
  Empty <- NoFile,
  Readers <- Links,
  latest <- Found(files[Main]),
  told <- Told,
  view <- [l \in Links |-> Found(files[l])],
  ahead <- [l \in Links |-> [i \in 1..Len(down[l]) |-> Found(After(files[l], down[l], i))]]

\* What a worker finds in its files, byte for byte, is at any time everything the
\* main thread once published together, and it passes through the publications
\* that follow one by one and in order: updates in flight, relocations and reused
\* extents do not show.
WorkersFollow == Reading!Spec

Fairness ==
  /\ WF_vars(Compact)
  /\ \A l \in Links : /\ WF_vars(HandleMessage(l))
                      /\ WF_vars(Attach(l))
                      /\ WF_vars(Deliver(l))
  /\ \A t \in Threads : WF_vars(\E v \in Entry : bound[t][v] # None /\ Drop(t, v))

FairSpec == Spec /\ Fairness

\* If workers keep applying updates and consumers of replaced versions finish, every
\* retired version is freed: a slow reader, a worker's exit or a compaction in
\* between can delay it, never forget it.  (Updates are bounded, so in the end none
\* is left.)
RetiredIsFreed == <>[](DOMAIN retired = {})
=============================================================================
