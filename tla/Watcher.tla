------------------------------- MODULE Watcher -------------------------------
(***************************************************************************)
(* Live reload of a disk-origin place: lib/watcher.js where it walks the   *)
(* tree (everywhere but Windows and macOS), lib/serial-queue.js, the       *)
(* rescans of lib/scanner.js, and in lib/kernel.js watch, #serial, the     *)
(* handlers of an epoch and the deferred rechecks.                         *)
(*                                                                         *)
(* The disk is a root with directories and files, each in the root or in   *)
(* one directory.  A file has a version, new with every write, or Absent;  *)
(* a directory an inode, new each time it is made.  A native watcher holds *)
(* on to an inode: an entry that changes there is an event under the path  *)
(* it was opened for.  The root is always watched.                         *)
(*                                                                         *)
(* An event is stat'ed on the thread pool and handled when the answer      *)
(* lands, in any order.  Timers fire at any time.  The jobs of an epoch    *)
(* run concurrently, cut at their awaits.  A file read between two equal   *)
(* stats has their version (readInto); `Bad` versions are those a preparer *)
(* or compiler rejects.  Files arrive and vanish one at a time, as with    *)
(* rm -r: a directory that is moved with its files is not modelled.        *)
(***************************************************************************)
EXTENDS Integers, Sequences, FiniteSets

CONSTANTS
  Dirs, Files,
  In,           \* file -> its directory, or Root
  Root,
  Bad,          \* versions that cannot be published
  Hasty,        \* a directory may be made again before its deletion is handled
  MaxChanges    \* bound: changes of the disk

Paths == Dirs \cup Files
Absent == 0
Unstaged == -1

ASSUME DiskAssumption ==
  /\ Root \notin Dirs /\ Dirs \cap Files = {}
  /\ In \in [Files -> Dirs \cup {Root}]
  /\ MaxChanges \in Nat \ {0} /\ Bad \subseteq 1..MaxChanges
  /\ Hasty \in BOOLEAN

VARIABLES
  clock,     \* number of disk changes
  inode,     \* directory -> its inode, or Absent
  version,   \* file -> its version, or Absent
  ready,     \* the kernel is ready (not closed)
  watchers,  \* directory -> the inode its native watcher holds, or Absent
  stats,     \* bag of stats in flight: <<path, answer>> -> how many
  queue,     \* path -> its debounced event, or "none"
  tasks,     \* the serial queue: epochs and rechecks that wait
  running,   \* the task that runs: "none", "epoch", "recheck"
  job,       \* path -> where the job of its event is: [at, todo]
  seen,      \* files this epoch has begun to publish
  staged,    \* file -> what the epoch commits: a version, Absent, or Unstaged
  source,    \* files the kernel tracks
  rechecks,  \* files with a recheck timer
  index      \* file -> its published version, or Absent

disk == <<clock, inode, version>>
work == <<tasks, running, job, seen, staged, source>>
vars == <<disk, ready, watchers, stats, queue, work, rechecks, index>>

Version == 0..MaxChanges
Answers == {"asked", "file", "directory", "gone"}
Events == {"change", "scan", "delete"}
Queue == [Paths -> Events \cup {"none"}]
NoEvents == [p \in Paths |-> "none"]
Idle == [at |-> "none", todo |-> {}]
Places == {"none", "remove", "rescan", "refresh", "publish", "read", "build"}

TypeOK ==
  /\ clock \in Version
  /\ inode \in [Dirs -> Version] /\ version \in [Files -> Version]
  /\ ready \in BOOLEAN
  /\ watchers \in [Dirs -> Version]
  /\ stats \in [Paths \X Answers -> Nat]
  /\ queue \in Queue
  /\ tasks \in Seq(Queue \cup Files)
  /\ running \in {"none", "epoch", "recheck"}
  /\ job \in [Paths -> [at : Places, todo : SUBSET (Files \X Version)]]
  /\ seen \subseteq Files /\ source \subseteq Files /\ rechecks \subseteq Files
  /\ staged \in [Files -> Version \cup {Unstaged}]
  /\ index \in [Files -> Version]

\* The kernel is ready and publishes what the disk holds.
Init ==
  /\ clock = 1
  /\ inode = [d \in Dirs |-> 1]
  /\ version \in [Files -> {Absent, 1}]
  /\ ready = TRUE
  /\ watchers = inode
  /\ stats = [s \in Paths \X Answers |-> 0]
  /\ queue = NoEvents
  /\ tasks = <<>> /\ running = "none"
  /\ job = [p \in Paths |-> Idle]
  /\ seen = {} /\ staged = [f \in Files |-> Unstaged]
  /\ source = {f \in Files : version[f] # Absent}
  /\ rechecks = {}
  /\ index = version

-----------------------------------------------------------------------------
(* The disk. *)

Below(p) == {f \in Files : f = p \/ In[f] = p}

Kind(p) == IF p \in Dirs THEN IF inode[p] = Absent THEN "gone" ELSE "directory"
           ELSE IF version[p] = Absent THEN "gone" ELSE "file"

\* A change of the entry p: whoever watches the directory it is in posts it.
Posted(p) ==
  IF ready /\ (p \in Dirs \/ In[p] = Root \/ watchers[In[p]] = inode[In[p]])
  THEN [stats EXCEPT ![<<p, "asked">>] = @ + 1] ELSE stats

Changes(p) ==
  /\ clock < MaxChanges
  /\ clock' = clock + 1
  /\ stats' = Posted(p)
  /\ UNCHANGED <<ready, watchers, queue, work, rechecks, index>>

WriteFile(f) ==
  /\ In[f] # Root => inode[In[f]] # Absent
  /\ Changes(f)
  /\ version' = [version EXCEPT ![f] = clock + 1]
  /\ UNCHANGED inode

RemoveFile(f) ==
  /\ version[f] # Absent
  /\ Changes(f)
  /\ version' = [version EXCEPT ![f] = Absent]
  /\ UNCHANGED inode

RemoveDir(d) ==
  /\ inode[d] # Absent /\ \A f \in Below(d) : version[f] = Absent
  /\ Changes(d)
  /\ inode' = [inode EXCEPT ![d] = Absent]
  /\ UNCHANGED version

\* Nothing under way concerns the directory d or a file in it.
Settled(d) ==
  /\ watchers[d] = Absent /\ tasks = <<>> /\ running = "none"
  /\ \A p \in Below(d) \cup {d} :
       queue[p] = "none" /\ p \notin rechecks /\ \A a \in Answers : stats[<<p, a>>] = 0

MakeDir(d) ==
  /\ inode[d] = Absent
  /\ Hasty \/ Settled(d)
  /\ Changes(d)
  /\ inode' = [inode EXCEPT ![d] = clock + 1]
  /\ UNCHANGED version

-----------------------------------------------------------------------------
(* The watcher: stats land, events are debounced into an epoch. *)

Moved(p, a, b) == [stats EXCEPT ![<<p, a>>] = @ - 1, ![<<p, b>>] = @ + 1]

StatRuns(p) ==
  /\ stats[<<p, "asked">>] > 0
  /\ stats' = Moved(p, "asked", Kind(p))
  /\ UNCHANGED <<disk, ready, watchers, queue, work, rechecks, index>>

EventOf(a) == CASE a = "file" -> "change" [] a = "directory" -> "scan" [] a = "gone" -> "delete"

\* #watchTree, when the path is a directory still; #unwatch, when it was gone.
TreeWatched(p, a) ==
  CASE a = "directory" /\ inode[p] # Absent /\ watchers[p] = Absent ->
         [watchers EXCEPT ![p] = inode[p]]
    [] a = "gone" /\ p \in Dirs -> [watchers EXCEPT ![p] = Absent]
    [] OTHER -> watchers

\* #enqueue
BrokenEnqueued(p, a) == [queue EXCEPT ![p] = EventOf(a)]
Enqueued(p, a) == IF ready THEN [queue EXCEPT ![p] = EventOf(a)] ELSE queue

StatLands(p, a) ==
  /\ stats[<<p, a>>] > 0
  /\ stats' = [stats EXCEPT ![<<p, a>>] = @ - 1]
  /\ watchers' = IF ready THEN TreeWatched(p, a) ELSE watchers
  /\ queue' = Enqueued(p, a)
  /\ UNCHANGED <<disk, ready, work, rechecks, index>>

\* The debounce timer.
Debounced ==
  /\ queue # NoEvents
  /\ queue' = NoEvents
  /\ tasks' = Append(tasks, queue)
  /\ UNCHANGED <<disk, ready, watchers, stats, running, job, seen, staged, source,
                 rechecks, index>>

RecheckDue(f) ==
  /\ f \in rechecks
  /\ rechecks' = rechecks \ {f}
  /\ tasks' = Append(tasks, f)
  /\ UNCHANGED <<disk, ready, watchers, stats, queue, running, job, seen, staged, source,
                 index>>

-----------------------------------------------------------------------------
(* The serial queue and the handlers of an epoch. *)

Turn == <<Head(tasks), Tail(tasks)>>

\* Where the job of an event begins.
Begins(event) ==
  CASE event = "delete" -> [at |-> "remove", todo |-> {}]
    [] event = "scan" -> [at |-> "rescan", todo |-> {}]
    [] event = "change" -> [at |-> "refresh", todo |-> {}]

\* A task that finds the kernel closed does nothing.
TakeTask ==
  /\ running = "none" /\ tasks # <<>>
  /\ tasks' = Turn[2]
  /\ LET task == Turn[1]
         events == IF task \in Files THEN [NoEvents EXCEPT ![task] = "change"] ELSE task
     IN  IF ready
         THEN /\ running' = IF task \in Files THEN "recheck" ELSE "epoch"
              /\ job' = [p \in Paths |-> IF events[p] = "none" THEN job[p] ELSE Begins(events[p])]
         ELSE UNCHANGED <<running, job>>
  /\ UNCHANGED <<disk, ready, watchers, stats, queue, seen, staged, source, rechecks, index>>

At(p, place) == job[p].at = place

GoesTo(p, place, todo) ==
  /\ job' = [job EXCEPT ![p] = [at |-> place, todo |-> todo]]
  /\ UNCHANGED <<disk, ready, watchers, stats, queue, tasks, running, index>>
Ends(p) == GoesTo(p, "none", {})

\* #unpublish: a file, or everything under a directory.
BrokenUnpublish(p) ==
  LET gone == Below(p) \cap source
  IN  /\ source' = source \ gone
      /\ staged' = [f \in Files |-> IF f \in gone THEN Absent ELSE staged[f]]
      /\ rechecks' = rechecks \cup {p}
      /\ Ends(p)
      /\ UNCHANGED seen
Unpublish(p) ==
  LET gone == Below(p) \cap source
  IN  /\ source' = source \ gone
      /\ staged' = [f \in Files |-> IF f \in gone THEN Absent ELSE staged[f]]
      /\ rechecks' = rechecks \ (gone \cup {p})
      /\ Ends(p)
      /\ UNCHANGED seen

\* #remove stats the path again.
BrokenRemove(p) == At(p, "remove") /\ Unpublish(p)
Remove(p) ==
  /\ At(p, "remove")
  /\ IF Kind(p) = "gone" THEN Unpublish(p)
     ELSE /\ GoesTo(p, IF p \in Dirs THEN "rescan" ELSE "refresh", {})
          /\ UNCHANGED <<seen, staged, source, rechecks>>

\* #refresh stats the file; #rescan lists the directory.  A gone file is
\* unpublished, a gone directory is empty.
Look(p) ==
  /\ At(p, "refresh") \/ At(p, "rescan")
  /\ IF p \in Files /\ version[p] = Absent THEN Unpublish(p)
     ELSE LET found == {<<f, version[f]>> : f \in {g \in Below(p) : version[g] # Absent}}
          IN  /\ GoesTo(p, IF found = {} THEN "none" ELSE "publish", found)
              /\ UNCHANGED <<seen, staged, source, rechecks>>

\* #publish, and the loop of #rescan, which leaves alone what is tracked: the
\* first job of an epoch to reach a file wins.
Skips(p, f) == f \in seen \/ (p \in Dirs /\ f \in source)

\* The files the job of p has still to look at: the first of them is being read.
File(p) == CHOOSE e \in job[p].todo : TRUE
Rest(p) == job[p].todo \ {File(p)}
GoesOn(p) == IF Rest(p) = {} THEN Ends(p) ELSE GoesTo(p, "publish", Rest(p))

Publish(p) ==
  /\ At(p, "publish")
  /\ IF Skips(p, File(p)[1]) THEN GoesOn(p) /\ UNCHANGED seen
     ELSE GoesTo(p, "read", job[p].todo) /\ seen' = seen \cup {File(p)[1]}
  /\ UNCHANGED <<staged, source, rechecks>>

\* What cannot be published keeps its previous version, and is looked at once more.
Fails(p) ==
  /\ GoesOn(p)
  /\ rechecks' = IF ready /\ running = "epoch" THEN rechecks \cup {File(p)[1]} ELSE rechecks

\* The source is read: it is what the stat saw, or the publication fails.
Read(p) ==
  /\ At(p, "read")
  /\ IF ready /\ version[File(p)[1]] = File(p)[2]
     THEN GoesTo(p, "build", job[p].todo) /\ UNCHANGED rechecks
     ELSE Fails(p)
  /\ UNCHANGED <<seen, staged, source>>

Build(p) ==
  /\ At(p, "build")
  /\ LET f == File(p)[1]
         v == File(p)[2]
     IN  IF ready /\ v \notin Bad
         THEN /\ staged' = [staged EXCEPT ![f] = v]
              /\ source' = source \cup {f}
              /\ GoesOn(p) /\ UNCHANGED rechecks
         ELSE Fails(p) /\ UNCHANGED <<staged, source>>
  /\ UNCHANGED seen

BrokenAllSettled == \E p \in Paths : At(p, "none")
AllSettled == \A p \in Paths : At(p, "none")

\* #flush, once every job is done.
Flush ==
  /\ running # "none" /\ AllSettled
  /\ index' = [f \in Files |->
                 IF ~ready \/ staged[f] = Unstaged THEN index[f] ELSE staged[f]]
  /\ running' = "none"
  /\ seen' = {} /\ staged' = [f \in Files |-> Unstaged]
  /\ UNCHANGED <<disk, ready, watchers, stats, queue, tasks, job, source, rechecks>>

Close ==
  /\ ready
  /\ ready' = FALSE
  /\ watchers' = [d \in Dirs |-> Absent]
  /\ queue' = NoEvents
  /\ rechecks' = {}
  /\ source' = {}
  /\ index' = [f \in Files |-> Absent]
  /\ UNCHANGED <<disk, stats, tasks, running, job, seen, staged>>

-----------------------------------------------------------------------------
Disk ==
  \/ \E f \in Files : WriteFile(f) \/ RemoveFile(f)
  \/ \E d \in Dirs : RemoveDir(d) \/ MakeDir(d)

Lands(p) == \E a \in Answers \ {"asked"} : StatLands(p, a)
Step(p) == Remove(p) \/ Look(p) \/ Publish(p) \/ Read(p) \/ Build(p)
Task == TakeTask \/ Flush

Next ==
  \/ Disk
  \/ \E p \in Paths : StatRuns(p) \/ Lands(p) \/ Step(p)
  \/ \E f \in Files : RecheckDue(f)
  \/ Debounced \/ Task \/ Close

Spec == Init /\ [][Next]_vars

\* Stats, reads and compilers end, timers fire; nothing makes the disk change.
Fairness ==
  /\ \A p \in Paths : WF_vars(StatRuns(p)) /\ WF_vars(Lands(p)) /\ WF_vars(Step(p))
  /\ \A f \in Files : WF_vars(RecheckDue(f))
  /\ WF_vars(Debounced) /\ WF_vars(Task)
FairSpec == Spec /\ Fairness

-----------------------------------------------------------------------------
(* Properties. *)

\* A closed kernel watches nothing and arms no timer, whatever stats, jobs and
\* queued epochs outlive close(), and publishes nothing.
ClosedIsQuiet ==
  ~ready => /\ queue = NoEvents /\ rechecks = {}
            /\ \A d \in Dirs : watchers[d] = Absent
            /\ \A f \in Files : index[f] = Absent

\* An older epoch never publishes over a newer one, nor a recheck over what a later
\* event published.
NeverGoesBack ==
  [][\A f \in Files : index'[f] \in {Absent} \cup index[f]..MaxChanges]_vars

Resting ==
  /\ queue = NoEvents /\ tasks = <<>> /\ running = "none" /\ rechecks = {}

\* Once the disk is quiet the published files are those of the disk, but for the
\* versions that cannot be published, and the watcher comes to rest: no recheck
\* goes on for ever.
FollowsDisk ==
  <>[](ready => /\ Resting
                /\ \A f \in Files : version[f] \notin Bad => index[f] = version[f])

\* Every directory has a native watcher of its own, a new one as an event shows it
\* (doc/architecture.md:173-176).
EveryDirectoryIsWatched ==
  <>[](ready => \A d \in Dirs : watchers[d] = inode[d])
=============================================================================
