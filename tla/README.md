# shared-memory-fs in TLA+

`shared-memory-fs` loads files once, on the main thread of a Node.js process,
into pooled `SharedArrayBuffer` segments; every worker thread reads zero-copy
views of the same bytes, and live changes are published to all of them. This
directory holds specifications of that system translated from `lib/`, the TLC
configurations that check them on small instances, and proofs of what matters
most for every size.

    tlc -config Lifetime.cfg MCLifetime             # one run
    tlapm LifetimeProofs.tla                        # one module's proofs

## The system

| Component | State it keeps | Operations |
| --- | --- | --- |
| **Kernel: lifetime of shared bytes** (`kernel.js`, `pins.js`, `bootstrap/attach.js`) | index, projections, retired versions and their holders, ACKs due, links, pins | flush, apply, track, ACK, release, worker exit, settle, compact, link, attach, close |
| **Allocator** (`cache.js`) | segments, free extents, tails, closed and empty segments | allocate, put, remove, free, compact |
| **Mutation queue** (`mutation-queue.js`) | per place a tail per key and a barrier | run, release, clear |
| **Kernel: lifecycle** (`kernel.js`) | state, places, lanes of the initial publication, sources, watcher | initialize, close, watch |
| **Virtual store** (`sab-store.js`, hierarchy checks of `pipeline.js`) | keys whose publication is in flight | write, append, unlink, mkdir, rm, rename |
| **Mutation RPC** (`mutation-rpc.js`, `#serveMutation`) | pending requests of a link | send, serve, answer, close |
| **Watcher** (`watcher.js`, `serial-queue.js`, `scanner.js`, epochs and rechecks of `kernel.js`) | debounced events, native watchers, serial queue, recheck timers, sources | post, flush, epoch, rescan, refresh, unpublish, recheck |
| **Pipeline** (`pipeline.js`, `companion.js`, `compressor.js`) | none of its own; the entries staged for one file | prepare, compile, compress, stage |
| **Map store** (`map-store.js`) | a thread's own files | as the virtual store, synchronously |
| **Place and directory index** (`place.js`) | files, implicit directories | set, delete, children, below |
| **File API and streams** (`place-fs.js`, `stats.js`) | streams and leases that hold pins | read, list, stream, release |
| **Registry and router** (`registry.js`) | registered places | route, decide |
| **Adapters** (`fs-patch.js`, `module-hook.js`), **configuration**, **errors**, **bootstrap** | what was replaced in `node:fs`; frozen values | install, uninstall, translate, validate |

How they interact. The main thread runs one event loop; a synchronous function
is atomic and anything may happen at an `await`. A publication (a watcher epoch,
a virtual mutation, an initial file) allocates privately, across awaits, and
`#flush` commits it in one synchronous step: the index changes, every replaced
version is retired under a fresh id, and one `vfs-update` goes to every link. A
worker applies updates in the order of its port, answers each by an ACK that
names the retired versions its streams and leases still read, and sends a
release when the last of those is done. When nobody is waited for any more
`#settle` frees the bytes, and that may compact a segment, which is a
publication again. Mutations of virtual places, from any thread, pass the
mutation queue first. A link whose port closes counts as a worker's exit.

What is hard here:

- *memory reclamation across threads*: bytes are reused at once, with no locks
  and no timeout, under workers that lag, hold, exit or have not attached yet;
- *compaction* moves versions while older versions of the same keys are read;
- *the allocator* must neither lose a byte nor hand one out twice over any
  sequence of calls, with relocations rolled back half-way;
- *interleaved promises*: locks replaced by later tasks before they are released,
  lanes that go on after one of them failed, `close()` at any await, mutations
  checked against files that other mutations are about to publish;
- *a disk nobody locks*: it changes between an event, its stat, the handling of the
  event and the read, and the watchers that report this are themselves opened late;
- *a link that ends* with calls, answers and updates under way;
- *policies that meet*: what a place hides, caches or prepares must hold for every
  way to a path, after any sequence of moves and copies between places;
- *recursion*: freeing compacts, compaction publishes, publishing retires and frees.

What makes each component correct, in short: bytes a reader can reach are never
those of another version, and every retired version is freed in the end
(lifetime); every byte has exactly one owner (allocator); conflicting mutations run
one at a time in arrival order, and others never wait (queue); all of the initial
files are published or none, and a closed kernel does nothing (lifecycle); a path
is a file or a directory and never both (virtual store, map store, index); a
request settles exactly once, after its own update (RPC); the published files
follow the disk once it is quiet (watcher); source and companions belong together
(pipeline); a pin ends once and not before its last chunk (streams).
`PROJECT.json` lists the hazards line by line, with the properties that cover them.

## Modules

| Module | What it is |
| --- | --- |
| `Lifetime` | the update, ACK, release and free protocol, pins, links, compaction, close |
| `PublishedFiles` | what `Lifetime` promises a worker; no memory, just maps of files in order |
| `LifetimeInvariant` | the inductive invariant `IInv` of `Lifetime`, and what its other properties add |
| `LifetimeProofs` | its proofs: no foreign bytes, no extent or wait lost, relocations end, refinement of `PublishedFiles` |
| `SegmentAllocator` | the allocator byte by byte, with compaction |
| `SegmentAllocatorProofs` | its proofs: every byte has one owner, free extents coalesce, segments are reused |
| `MutationQueue` | the lock tails and barriers |
| `KeyedOrder` | what `MutationQueue` promises: arrival order, and no other wait |
| `MutationQueueProofs` | its proofs: exclusion, locks dropped in time, refinement of `KeyedOrder` |
| `Lifecycle` | initialize, close and the lanes of the initial publication |
| `LifecycleProofs` | its proofs: all or nothing, nothing after a rejection or a close |
| `VirtualStore` | the mutations of a shared virtual place, with locks, checks and publications |
| `FileTree` | what `VirtualStore` promises: an atomic tree of files |
| `MutationRpc` | extends `VirtualStore`: callers in workers, the link, the end of either side |
| `MutationRpcProofs` | the proofs of both: hierarchy, refinement of `FileTree`; reads its writes, settles once, session order |
| `Watcher` | live reload of a disk-origin place against a changing disk |
| `WatcherProofs` | its proofs: quiet when closed, never back to an older version |
| `Publication` | one file with its companions, and its readers on the main thread |
| `PublicationProofs` | its proofs: companions match, bytes freed after the last reader |
| `Configuration` | how a declared place is refused or resolved: pure operators |
| `PlaceFiles` | the index of implicit directories: pure operators |
| `Router` | what every path is to a reader or a writer: functions of settings, disk and projections |
| `Territory` | composes the three: an application at work on several places through patched `node:fs` |
| `TerritoryProofs` | its proofs: what is hidden stays so until the index misleads the router, no raw file stands in for a prepared one, the index lists what is held |
| `MC...` | instances for TLC |

Operators called `Broken...` are plausible defects of the operator that follows
them. No specification uses them; `PROJECT.json` says which property notices which.

### Lifetime

`files[t]` is the projection of thread `t` (for `Main`, the index too: the main
thread applies its own update in the same step). `retired`, `acks`, `links` are
the kernel's maps of the same names, `pins`/`bound` are `#counts`/`#retired` of
`Pins`, `down`/`up` the two directions of each link's `MessagePort` (reliable and in
order). A retired version's id, a counter in the code, is the pair of its update
and key, which one `#flush` makes unique. `Commit` is the whole of `#flush` with the
`#apply`, `#track` and `#settle` it calls. Where a settle frees something the code
compacts before it returns; `pc = "compact"` stands for that, and while it does the
main thread takes no other step, though workers do. Each relocation is a `Commit`
again, hence the recursion.

Data: an extent is a slot of a segment, a content a model value written at most
once, so "foreign bytes" are simply another content than the entry expects.
`Allocate` reserves and fills in one step: the bytes are private until the commit, and
nobody can see a half-filled extent. Disk entries and empty files own no extent and
are one value, `Plain`. `Threshold` is in slots, within the range `config.js:193-195`
allows. After `close()` the main thread writes nothing, so that workers keep
reading intact bytes; their messages are dropped, as by the closed ports. `close` of
a port is delivered after the messages the worker had posted.

### SegmentAllocator

`reg` is the `SegmentRegistry`: the order of its maps, the sorted free extents and
the tail of each segment; `empty` is `emptySegmentIds` in its order. Iteration order
decides between equal fits, so it is part of the state. `PlaceIn` is
`SegmentRegistry.allocate(size, noGrow)`; `Allocate` adds the reused or created
segment. `Compact` is `compact()` with the commit of its plan; the items are tried
in any order, where the code has that of its indexes. When entries are freed, and
when compaction runs, is left open: `Lifetime` says when it may.

### MutationQueue

A task is a call of `run()`; the promise of its end is the task itself, a lock record
is named by the task whose call created it, so the identity tests of `#release` are
equalities. Callers (`sab-store.js`) ask for one key, two keys or, with `null`, the
barrier. Start, settling and release are separate steps in any order that promise
reactions allow, and `Close` drops the records while tasks are queued.

### Lifecycle

One place after another: its origin (scan, assets or nothing), then its files by
lanes; `#publishEntry` is three steps, cut at its awaits. `GoOn` is what
`initialize()` does, without further await, when a place is done. The files of a
place are taken in any order, where the code takes the largest first. `Fail` stands
for any exception of the step, that of `#alive()` on a closed kernel included.

### VirtualStore, MutationRpc and FileTree

A mutation is accepted (its locks are chosen by what the store finds *then*), waits for
its turn, is checked against the files of *that* moment, and either ends or plans what
it will commit. `creating` is `#creating`. `publishing` lasts to the last check that
the kernel lives, `staged` from there to `#flush`: in the microtasks between them the
kernel may close, and the mutation then resolves although nothing is published, which
`FileTree` does not allow (see the findings). So `ActsAtomically`, which says that the
store implements `FileTree`, is refuted, and `ActsAtomicallyWhileReady`, which says that
every step before or with the `close()` does, holds. What the turn of a mutation is comes
from `KeyedOrder`, which `MutationQueue` is proved to implement.
A file's content is the sequence of mutations whose bytes it holds, which is what the
refinement needs to tell a lost append or a move of stale bytes.

`MutationRpc` adds who calls. Updates and answers share the direction `down` of a
link; a promise reaction (`Reply`) is a step of its own, after the commit. A worker may
close at any time; the main kernel's close is seen by the worker as the end of its port,
after or before what is still under way.

### Watcher

The disk changes by itself: files are written and removed, directories removed and
made. A directory is an inode, and a native watcher belongs to one: that is what the
finding below turns on. Each event costs a stat whose answer is fixed when it runs and
handled when it lands. The debounce timer, the recheck timers and the serial queue are
separate; the jobs of an epoch run at once, each cut at its awaits (`at`). `seen` is
the set of keys an epoch has taken (`#publish` lets the first job win). `Hasty = FALSE`
restricts the disk to directories made again after their removal has been handled.

### Publication

One key of a shared disk-origin place under one of three policies. A version is a
number, `Torn` the bytes of a file that changed between two chunks. An entry is named
by the publication that made it, so that retiring, pinning and freeing can be told
apart; there are no workers, and a retired entry with no consumer is free at once (with
workers this is `Lifetime`). A stream of owned chunks ends with its destruction, one of
borrowed chunks and a lease only with `release()`, which may come twice, and after
`close()`.

### Configuration, PlaceFiles, Router and Territory

The settings a run starts from are not chosen but derived: `MCTerritory` declares
configurations, `Configuration` refuses or resolves them as `VfsConfig` does, and
`Router` decides every read, mutation, copy, move, link and module load from the result.
`Territory` then lets an application work: each operation of `node:fs` goes to the map
store or to the disk as routed, and the watcher publishes the disk whenever it gets to
it. Bytes are sets of writers, so that an append mixes and a copy carries on. `Secret`
is the content of one file the settings hide. The index is the set of the names that are
listed; directories on disk exist where files lie below them. A hard link is modelled as
a copy: the two names share an inode, but neither is in an indexed place. The files are
the paths of the instance; its directories are listed apart (`Folders`), and below a
directory the model has no others. A path may be a file's in one state and a directory's
in another. `misled` is a history variable: whether a hidden file has lain on the disk
where its place still lists a directory. No action depends on it.

## Runs

| Run | Instance | What it shows |
| --- | --- | --- |
| `lifetime` | 1 link, 1 key, 2 segments of 2 extents, 3 contents, 2 updates, threshold 2, 1 consumer per version and thread | `NoForeignBytes`, `PoolPartition`, `NoLostWait`, `RelocationsAreBounded`; `WorkersFollow`: `Lifetime` implements `PublishedFiles`; `RetiredIsFreed`, cascading relocations included |
| `mutation_queue` | 3 tasks, 2 keys, 1 place | `MutualExclusion`, `NoLockLeaks`; `ArrivalOrder` and `NoNeedlessWait`: implements `KeyedOrder` with its fairness |
| `segment_allocator` | 2 segments of 4 bytes, 2 keys, 4 live entries | `BytesAccounted`, `FreeExtentsCoalesced`, `EmptySegmentsReusable`, `ClosedHoldsNoPublished`, `ClosedTakesNothing`, `RelocationsKeepVersions` |
| `lifecycle` | 4 places (disk, sea, virtual, disk), 3 names, 2 lanes | `AllOrNothing`, `RejectedHoldsNothing`, `ClosedPublishesNothing`, `InitializeSettles` |
| `lifecycle_final` | the same | refutes `ClosedIsFinal`, see below |
| `virtual_store_close` | 2 mutations of 13 kinds over `a`, `a/x`, `b`, `b/x`, one of them prepared | refutes `ActsAtomically`, see below |
| `mutation_rpc` | 3 calls of 6 kinds over the same keys, 1 worker and the main thread | `Hierarchy`; `ActsAtomicallyWhileReady`; `ReadsItsWrites`, `SessionOrder`, `SettlesOnce`, `EveryCallSettles` |
| `watcher` | 1 directory with 1 file, 6 states of the disk, one version unpublishable | `ClosedIsQuiet`, `NeverGoesBack`, `FollowsDisk` |
| `watcher_replaced` | the same, 5 states, `Hasty` | refutes `EveryDirectoryIsWatched`, see below |
| `territory` | 6 declared configurations of 2 or 3 places, 2 of them refused, 12 files, 2 files made | `HiddenUnlessMisled`, `RawNeverStandsIn`, `ListedIsHeld` |
| `territory_misled` | the same | refutes `HiddenStaysHidden`, see below |
| `publication` | 2 publications of 1 file with 3 companions, 1 change, 2 readers | `CompanionsMatch`, `FreedAfterLastReader` |

Each module with state has a type invariant too. All are proved; those of `Lifetime`,
`MutationQueue`, `SegmentAllocator`, `Lifecycle` and `Watcher` are also in a run.
Deadlock is not checked: all of these systems come to rest, when everything is handled,
closed or at a bound.

**Bounds.** `MaxUpdates` bounds what the application publishes, `Contents` what it
allocates, `MaxPins` the consumers of one version in one thread, `MaxLive` the entries that
own bytes. Two segments are the least for compaction, and with the versions of one key
published twice an extent is reused while another is held, and a relocation runs beside a
publication. `lifetime` has one key because `RetiredIsFreed` is checked with the rest, and
liveness rules out symmetry; that keys do not disturb each other is what the proofs add.
With two extents per segment a relocation moves one entry: relocations of several entries,
and those that fit in part, are the business of `segment_allocator`, where entries have 1 to
4 bytes. One link is enough for a run: the proof of `NoForeignBytes` is for any number.
Three tasks are the least with which a rename, a barrier and a third task take over each
other's locks. The keys of the virtual store are two directories with one file each. In
`mutation_rpc` the six kinds are those that meet in the hierarchy and in the locks: a file
where a directory is, an exclusive file below the target of a rename, an append, a removal
and a rename of what may be a file or a subtree, and a request that fails. `unlink`, `mkdir`
in its valid form, the flags `directory` and `force` and prepared keys are in
`virtual_store_close` only, and in the proofs, which are for any requests. `MaxChanges` is
the number of states of the disk: six let a directory go and come again with two versions of
its file on either side of it. `MaxMade` bounds the files an application makes, not its
removals, moves and publications: two are the least with which one file is moved over, or
beside, another. In two places of `territory` a name is a file's and a
directory's in turn. The proofs below need no bounds.

**Fairness.** `Lifetime`: event loops deliver messages, a linked worker attaches or
exits, the main thread ends the synchronous call it is in, and consumers of a version
finish, as the documentation requires of leases and streams. Nothing forces an
application to publish, a worker to exit or a kernel to close. `MutationQueue`:
promise reactions run; that a mutation ends is *not* assumed, so `NoNeedlessWait`
holds beside mutations that hang. `Lifecycle`: scans, reads, compilers and codecs end,
well or badly. `MutationRpc`: ports deliver, a port that closes on one side closes on the
other, as Node's do, and the main thread goes on while it has a promise reaction to run, a
publication to take further or a request to serve (`MainRuns`), whichever it takes: as the
calls are finitely many, none can be passed over for ever. `Watcher`: stats,
reads and publications end and timers fire; the disk need not change, nor rest: the
property is about what follows when it does.

## What is proved

All proofs are checked by TLAPS, for every value of the constants that satisfies the
named assumptions, which TLC evaluates on every run:

- `Lifetime`: `ThreadsAssumption`, `ValuesAssumption`, `ThresholdAssumption` (the main
  thread is no link, values of different kinds differ), `SegmentsAssumption` (the memory
  limit bounds the pool); `RelocationsAreBoundedAlways` alone also takes `Contents` to be
  finite and `MaxUpdates` a number, without which there is no bound to speak of;
- `SegmentAllocator`: `SizesAssumption` (segments have a size, the limit allows at least
  one, the threshold is at most a segment), `NoneAssumption` (no entry is no entry); the
  keys need not be finitely many;
- `MutationQueue`: `TasksAssumption` (finitely many tasks, named unlike `Free`, `None`);
- `VirtualStore`: `TreeAssumption` (what is below what is a tree), `RequestsAssumption`
  (requests are of the six kinds; what is prepared is published again under a new name,
  and so does not move with a subtree), `RebaseAssumption` (re-keying a subtree keeps
  names apart and what is under what, as a change of prefix does);
- `MutationRpc`: `WorkersAssumption` (finitely many calls, in order; the main thread is
  no worker);
- `Publication`: `NamesAssumption`, `BoundsAssumption` (finitely many readers);
- `Watcher`: `DiskAssumption` (every file lies in a directory or the root);
- `Territory`: `PathsAssumption` (finitely many paths, the directories of a file inside
  the application among `Folders`, extensions decided by the last name, as `path.extname`
  does), `NoneAssumption` and `ValuesAssumption` (nothing is no name, mode, domain or
  entry; the secret bytes are not among what is written);
- `Lifecycle`: `OrderAssumption` (at least one place and one lane, as
  `Math.max(1, ...)` of `kernel.js:105-108` and the size of a non-empty queue give).

**`LifetimeProofs!NoForeignBytesAlways`**: `Spec => []NoForeignBytes`, any number of
workers, keys, segments, consumers and updates, with compaction. `NoForeignBytes` is
not inductive: nothing in it says why an extent is not yet free. `IInv` adds, while
the kernel is ready,

- `Owned`: private, published and retired versions own disjoint extents outside the
  free ones, each with its own content;
- `Protected`: for each key, the version a worker sees, or will see after some of the
  updates under way, either is the published one and no later update touches the key,
  or the next update that touches it retires exactly this version and still awaits
  this worker's ACK, so that the version's record cannot be freed;
- `Pinning`, `Secured`: a version a consumer reads is either still in the projection,
  and so protected, or bound to its record, which this worker holds, or will hold
  when the ACK that names it is handled; no release of it is under way;
- `InOrder`: updates and ACKs on a link are in order and never repeated.

Once closed, nothing is written, and it is enough that whatever a worker has or will
get is intact (`ClosedInv`). The proof treats `Settle`, `Apply` and `Commit` once, as
lemmas on the records, links and main thread they change, then each action.

**`LifetimeProofs`** has four more, each from `IInv` and an invariant of its own:

- `NoLostWaitAlways` (`Spec => []NoLostWait`). What is under way matters here: `WaitInv`
  says of every ACK in a port that each version it names is still read by the worker, or
  is let go by a message *behind* that ACK (`HoldingNext`), so the holder the ACK is about
  to make will not wait for a release that came first; and of every link whose worker is
  gone that its exit is in the port (`ExitReported`).
- `PoolPartitionAlways` (`Spec => []PoolPartition`). `IInv` has that owned extents are
  disjoint and not free, `CoverInv` that every extent is free or owned; counting them is a
  matter of bijections between finite sets.
- `RelocationsAreBoundedAlways`: the number of open segments plus private entries plus
  twice the contents not yet written is a potential. A relocation closes a segment and
  opens none, and pays one; an allocation or a publication opens at most one and has paid
  for it before (`BoundInv`).
- `WorkersFollowAlways` (`Spec => WorkersFollow`: every step is a step of
  `PublishedFiles` or a stutter). What a worker finds is defined by `bytes`, which
  relocations and later publications overwrite; `IInv` says that everything it sees or
  will see is intact, so that the mapping equals one that does not mention bytes
  (`Mapped`). `CaughtUp` says that the last update under way brings a worker to the main
  thread's files, so that a publication appends just those. What a projection is after
  `i` updates is stated by the last change of each key, whose existence is an induction
  on `i` (`Least`), and applying an update first or last is `AfterFirst`, `AfterNext`.

**`SegmentAllocatorProofs`**: every property of the run, for any keys, any number of
segments and any segment size (`BytesAccountedAlways`, `FreeExtentsCoalescedAlways`,
`EmptySegmentsReusableAlways`, `ClosedHoldsNoPublishedAlways`,
`ClosedTakesNothingAlways`, `RelocationsKeepVersionsAlways`). The invariant `AllocInv`
speaks of one segment and one byte at a time (`SegmentOK`): below the tail each byte is in
a free extent or in an entry and never in two of them, and the free extents are sorted and
never touch. That is enough where sums of lengths would not be: whether a segment is empty
is decided in the code by a sum (`used`), and `UsedIsZero` shows that the sum is zero
exactly if no entry is left, because extents that do not touch and fill a prefix are one
extent. Around it, `Accounts` says that entries lie in registered segments, `OwnersDistinct`
that an entry is published under one key, private or retired and only one of them,
`ClosedOK` that nothing published lies in a closed segment, and `PoolOK` that a segment
created is registered or waits for reuse, once.

The proof goes from lists to segments to the registry. `MergedFacts` is about the list:
inserting an extent and joining it with its neighbours leaves a list that is sorted, does
not touch, and holds the bytes it held and the new ones (`release`, `mergeSiblings`).
`TailTaken`, `HoleTaken` and `EntryGone` say what that makes of one segment; `Placed`,
`RegisterFacts`, `ReleasedFacts` and `UnregisterFacts` what `allocate`, `register`,
`release` and `unregister` make of the registry. A compaction plan is a recursive
function of the number of items placed: that it exists (`PlansAt`), and that each prefix
of it leaves every byte accounted for (`PlannedFacts`), and so does each prefix of a
rollback (`ReturnedFacts`), are arguments by a least counterexample (`LeastNumber`), as no
prover here instantiates a theorem of induction.

**`MutationQueueProofs`**: `ConflictsExclude` (`Spec => []MutualExclusion`),
`LocksAreDropped` (`Spec => []NoLockLeaks`) and `QueueKeepsOrder` (`Spec => ArrivalOrder`:
every step of the queue is a step of `KeyedOrder` or a stutter). A task awaits only the
latest tails, not every earlier task it conflicts with. `QueueInv` says why that is
enough: the tails of a record stand for every pending task in it (`Covered`), what a task
awaits stands for every pending task it is behind (`Waiting`), and nothing starts while
something it is behind is pending (`InOrder`). For the locks, `HeldInv`: the record of a
place has a tail, and each of its tails is a task that is not over and will release this
very record.

**`MutationRpcProofs`**, the store: `HierarchyHolds` and `StoreActsAtomically` (`Spec =>
ActsAtomicallyWhileReady`: while the kernel is ready the store implements `FileTree`, and
once it is closed the files stay as they are). A mutation plans what it commits when
its turn comes and commits it after awaits, on files others have changed meanwhile.
`StoreInv` says why the plan still fits: of two mutations whose locks conflict one waits
for the other (`OrderInv`), so what runs together touches different keys; `creating` is
exactly what the running ones are about to publish, so that two new keys are checked
against each other (`Planned`); and a plan is at every moment the one its mutation would
make now (`Kept`).

**`MutationRpcProofs`**, the calls: `RpcKeepsStore` (the composition takes no other steps on
the store, so that the two theorems above hold of it), `ReadsItsWritesAlways`,
`CallsSettleOnce` and `SessionOrderAlways`. Updates and answers share a port, and an
answer is posted after the update of its mutation: `PortInv` counts, for each answer under
way, that the updates applied now and those before it in the port reach the one that
published it; `CallInv` says whose call each message is. `SessionInv` joins two orders:
the calls in a port are in the order they were made and nothing made after them is
accepted yet, and of two accepted calls in conflict the later waits for the earlier.

**`PublicationProofs`**: `CompanionsAlwaysMatch` and `FreedInTime`. A job carries the
version of its stat through every step, and each companion is made or dropped before the
commit (`JobInv`), so the index changes for all of them at once. Pins count the readers
that still hold (`ReaderInv`), and an entry, once replaced, is never the published one
again (`IndexInv`), so nobody new can come to it.

**`WatcherProofs`**: `ClosedStaysQuiet` and `NothingGoesBack`. What an epoch has listed,
read or staged is never older than what is published (`FreshInv`); that survives the
publication of an epoch because nobody else carries anything then (`TodoInv`): jobs run
only inside the one epoch the serial queue is at.

**`LifecycleProofs`**: `PublishesAllOrNothing`, `RejectionHoldsNothing` and
`NothingAfterClose`. What the origins returned is at every moment staged, queued or in a
lane, unless a file has failed (`FilesInv`), and then `initialize()` rejects; before the
one commit nothing is published (`StateInv`).

**`TerritoryProofs`**: `HiddenUnlessMisledAlways`, `RawNeverStandsInAlways` and
`ListedIsHeldAlways`, for any paths and any configurations, those that `VfsConfig` refuses
and those it accepts. None of the three is inductive; `Inv` adds

- `map = Indexing(map.entries)`: the names of the index are a function of the entries, the
  prefixes of what is held, whatever sets and deletes led there. `#link` adds just those
  prefixes (`LinkedIsIndex`). `#unlink` climbs while a directory is left empty and stops
  at the first that is not; `UnlinkedIsIndex` goes down its levels (`Downwards`, by a least
  counterexample) and says that what each level leaves is right from there on. `PutAll`,
  the loops of `rm` and of a subtree's move, is an argument over subsets, so the order of
  the loop does not matter (`PutAllIsIndexing`);
- `GoodEntry`: an entry lies in an indexed place that may hold it, is prepared and in
  memory where its extension has a preparer, and, unless `misled`, is free of the secret;
- `GoodDisk`, `GoodCopy`: unless `misled`, on the disk the secret lies only where it is
  hidden, and a copy half-way does not carry it;
- `Told`: if a hidden file lies where a directory is listed, `misled` says so. A hidden file
  anywhere else is denied (`HiddenIsDenied`), so what is read, linked, copied or moved
  is free (`ReadableIsFree`).

What the configuration contributes is `PlacesAreGood`: in a place that is accepted what is
prepared in any domain is cached, and a fallback comes with an origin on the disk. For
renames of directories, which never ask for the files they move, it is `MovedStaysHidden`:
a directory that holds a hidden file is not denied itself only inside an indexed place, and
may then move only within that place, where the same extensions are hidden.

What is proved of hidden files is what holds: without `~misled`, `HiddenStaysHidden` does
not (see the findings). The restriction is a state of the history, not an assumption on the
paths: everything up to the moment the index misleads the router is covered, with any files
in the place of directories that hide nothing.

Each of these modules proves the `TypeOK` of the modules it is about.

**Model-checked only.** What needs fairness is out of the prover's reach: `RetiredIsFreed`,
`NoNeedlessWait`, `InitializeSettles`, `EveryCallSettles`, `FollowsDisk`. The four
violations below are shown by runs, which are the better witness. No lemma says what a
recursive definition computes for every input by an induction theorem: where that is needed
(plans of the allocator, the levels of `#unlink`) it is an argument by a least
counterexample instead.

## Findings

**A closed kernel becomes ready again.** `initialize()` sets `this.state = 'ready'`
after its awaits (`kernel.js:228`) without looking at the state. If `close()` runs
while an origin is awaited that then has nothing to publish (an empty directory), no
step fails: `#flush` returns early, the state becomes `ready`, and as `#originOf`
tracked the place after `close()` had cleared the sources, `watch()` arms a watcher.
The header of `kernel.js` (line 53) and `README.md` call the state closed final. Run
`lifecycle_final` shows it; with at least one file to publish, `#alive()` makes
`initialize()` reject.

**A directory made again is not watched.** `#watchTree` opens a native watcher only for
a path that has none (`watcher.js:94`). When a directory is removed and made again before
the stat of the removal has run, both stats answer "directory", the watcher of the removed
one stays in the map, and nothing that changes in the new directory raises an event any
more. `doc/architecture.md:173-176` promises one watcher per directory, new ones added as
events show them and those under a deleted path dropped. Run `watcher_replaced` shows it.
In the same circumstances the index may stay behind: a rescan skips keys it knows
(`kernel.js:714-716`), so what was published from the new directory before its watcher
was armed is not looked at again. With directories made again only after their removal
was handled, `FollowsDisk` holds.

**A mutation of a closed kernel resolves unpublished.** `publishVirtual` checks for the last
time that the kernel lives in `#storeShared` (`kernel.js:855`) and reaches `#flush`
some microtasks later. If another reaction calls `close()` in between, `#flush` returns
early (`kernel.js:966`), without an error: the mutation resolves, and nothing was published.
`README.md:193-194` says that it "resolves its Promise only once the new version is already
published", `sab-store.js:17-19` that every method "returns a Promise that settles once the
new version is published". Run `virtual_store_close` shows it, with one write.

**A hidden file is moved to a name that serves it.** `FsRouter.rename` refuses a source that
`read` denies (`registry.js:219-225`), and `read` asks the index first whether the path is a
directory (`registry.js:166`). The index of a disk-origin place lags behind the disk: if
`q/h` was a directory of published files, `q` is removed, and `e` with a hidden file `e/h`
is renamed to `q` before the watcher reports the removal, `q/h` is hidden and listed as a
directory, and a rename of it is let through. `README.md:444-446` says that "a hidden source
stays `EACCES`", `README.md:864` that "no new name makes it readable". Run
`territory_misled` shows it in eight states. Whether `e` can be renamed at all turns on a
published file in it, as a directory that holds nothing published is denied itself. In the
model directories are there exactly while files are below them; on a disk the directory
`q/h` goes with `q`.

Observations that are no findings, each for want of a statement that says otherwise, or
because they concern wording:

- "at most one relocation per free cycle" (`kernel.js:1106`) holds of one call of
  `#compact`, but without links the relocation frees what it retired and compacts again in
  the same call, `RelocationsAreBounded` being what ends it;
- a free extent that adjoins the tail of its segment is not joined with the unused rest
  behind it, so an allocation may need a new segment although the two would hold it;
- "source and bytecode can never diverge" (`pipeline.js:161-163`) and "was produced from
  exactly this `source`" (`place-fs.js:484-485`) hold of sources in memory, which is what
  `CompanionsMatch` says; the source of a disk entry is the file as it is now, and
  `#entryBytes` (`kernel.js:931-932`) reads it without comparing its stat;
- a map store takes writes after `close()`;
- where a disk file has replaced a directory that is still in the index, the place's
  listing says directory and its `stat` says file, until the watcher has caught up.

## Not modelled

Formats, stats, encodings, ranges, error texts and statistics have no state a property is
about. Of the configuration: types, sizes, names, codec options and the command line. Of
paths: trailing separators, symbolic links and Windows forms; `Dir` handles, `watch`,
`glob`, `open` and the install step of the `node:fs` patch; the candidates of a module
specifier. The bytecode of a module is looked up by name when the module compiles, and is
of its source only because `require` loads and compiles in one synchronous run.
What preparers return is theirs; that it replaces the raw bytes everywhere is
`RawNeverStandsIn`. In `Territory` a module counts as a way to read a file under strict
only, where the hook is the boundary. Of the watcher: the native recursive mode (macOS,
Windows), which reports what the walked one does but by rules of the platform; directories
moved with their files; and the time between the initial scan and the first native
watcher, in which a change raises no event (`kernel.js:233`). SharedArrayBuffer memory is
taken as sequentially consistent between threads, which the message that announces each
extent's content justifies. Errors, bootstrap scripts and examples hold no state.

## Plan

What is left, the most valuable first.

1. `Lifetime` implements `SegmentAllocator`, extents being runs of bytes instead of slots,
   so that the two proofs speak of one allocator.
2. `Watcher`: directories moved with their files, the time before the first native
   watcher, and the native recursive mode as an alternative source of events.
3. `Territory`: companions of map places, the candidates of a CommonJS specifier, and
   two threads with a projection each.
4. `Lifecycle` composed with `Watcher` and `VirtualStore`, so that a ready kernel serves
   mutations and epochs together.
