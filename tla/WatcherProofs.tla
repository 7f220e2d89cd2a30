---------------------------- MODULE WatcherProofs ----------------------------
(***************************************************************************)
(* For any directories, files and number of disk changes: Watcher is       *)
(* typed, a closed kernel stays quiet (ClosedIsQuiet), and what is         *)
(* published of a file never goes back to an older version                 *)
(* (NeverGoesBack).                                                        *)
(*                                                                         *)
(* An epoch looks at the disk after the one before it has published, and   *)
(* what the disk shows is never older than what is published.  FreshInv    *)
(* says so of everything an epoch carries: each version it has listed,     *)
(* read or staged is at least the published one.  It is inductive because  *)
(* nobody carries anything when an epoch publishes (TodoInv).              *)
(***************************************************************************)
EXTENDS Watcher, TLAPS

-----------------------------------------------------------------------------
(* The inductive invariant. *)

\* Only a job that goes through files has files to do.
TodoInv ==
  /\ \A p \in Paths : job[p].at = "none" => job[p].todo = {}
  /\ \A p \in Paths : job[p].at \in {"publish", "read", "build"} => job[p].todo # {}
  /\ running = "none" => \A p \in Paths : job[p].at = "none"

\* v is a version of f since the published one, up to now.
Fresh(f, v) == index[f] <= v /\ v <= clock /\ (version[f] # Absent => v <= version[f])

FreshInv ==
  /\ \A f \in Files : index[f] <= clock
  /\ \A f \in Files : version[f] # Absent => Fresh(f, version[f])
  /\ \A p \in Paths : \A e \in job[p].todo : Fresh(e[1], e[2])
  /\ \A f \in Files : staged[f] \notin {Absent, Unstaged} => Fresh(f, staged[f])

WatcherInv == TypeOK /\ TodoInv /\ FreshInv /\ ClosedIsQuiet

-----------------------------------------------------------------------------
(* The disk. *)

LEMMA PostedType ==
  ASSUME TypeOK, NEW p \in Paths
  PROVE  Posted(p) \in [Paths \X Answers -> Nat]
BY DEF TypeOK, Posted, Answers

\* What a change of one entry leaves as it is; what was fresh stays so, since a new
\* version is the newest.
LEMMA ChangesInv ==
  ASSUME WatcherInv, NEW p \in Paths, Changes(p),
         inode' \in [Dirs -> Version], version' \in [Files -> Version],
         \A f \in Files : version'[f] \in {version[f], Absent, clock'}
  PROVE  WatcherInv'
<1>1. /\ clock' = clock + 1 /\ clock' \in Version /\ clock \in Nat
      /\ stats' = Posted(p)
      /\ UNCHANGED <<ready, watchers, queue, tasks, running, job, seen, staged, source,
                     rechecks, index>>
  BY DiskAssumption DEF WatcherInv, TypeOK, Changes, Version, work
<1>2. TypeOK'
  BY <1>1, PostedType DEF WatcherInv, TypeOK
<1>3. TodoInv' /\ ClosedIsQuiet'
  BY <1>1 DEF WatcherInv, TodoInv, ClosedIsQuiet
<1>4. \A f \in Files : index[f] \in Nat /\ version[f] \in Nat
  BY DEF WatcherInv, TypeOK, Version
<1>5. ASSUME NEW f \in Files, NEW v \in Nat, Fresh(f, v) PROVE Fresh(f, v)'
  BY <1>1, <1>4, <1>5 DEF Fresh, Absent
<1>6. FreshInv'
  <2>1. \A f \in Files : index'[f] <= clock'
    BY <1>1, <1>4 DEF WatcherInv, FreshInv
  <2>2. \A f \in Files : version'[f] # Absent => Fresh(f, version[f])' 
    BY <1>1, <1>4, <1>5, <2>1 DEF WatcherInv, FreshInv, Fresh
  <2>3. \A q \in Paths : \A e \in job[q].todo : e[1] \in Files /\ e[2] \in Nat
    BY DEF WatcherInv, TypeOK, Version
  <2>4. \A q \in Paths : \A e \in job'[q].todo : Fresh(e[1], e[2])'
    BY <1>1, <1>5, <2>3 DEF WatcherInv, FreshInv
  <2>5. \A f \in Files : staged[f] \notin {Absent, Unstaged} => staged[f] \in Nat
    BY DEF WatcherInv, TypeOK, Version
  <2>6. \A f \in Files : staged'[f] \notin {Absent, Unstaged} => Fresh(f, staged[f])'
    BY <1>1, <1>5, <2>5 DEF WatcherInv, FreshInv
  <2> QED BY <2>1, <2>2, <2>4, <2>6 DEF FreshInv
<1> QED BY <1>2, <1>3, <1>6 DEF WatcherInv

LEMMA DiskInv == ASSUME WatcherInv, Disk PROVE WatcherInv'
<1>1. inode \in [Dirs -> Version] /\ version \in [Files -> Version] /\ Files \cup Dirs \subseteq Paths
  BY DEF WatcherInv, TypeOK, Paths
<1>2. ASSUME NEW p \in Paths, Changes(p) PROVE clock' = clock + 1 /\ clock' \in Version
  BY <1>2, DiskAssumption DEF WatcherInv, TypeOK, Changes, Version
<1>3. ASSUME NEW f \in Files, WriteFile(f) \/ RemoveFile(f) PROVE WatcherInv'
  <2>1. Changes(f) /\ UNCHANGED inode /\ f \in Paths
    BY <1>1, <1>3 DEF WriteFile, RemoveFile
  <2>2. version' = [version EXCEPT ![f] = clock + 1] \/ version' = [version EXCEPT ![f] = Absent]
    BY <1>3 DEF WriteFile, RemoveFile
  <2>3. Absent \in Version
    BY DiskAssumption DEF Absent, Version
  <2>4. version' \in [Files -> Version]
        /\ \A g \in Files : version'[g] \in {version[g], Absent, clock'}
    BY <1>1, <1>2, <2>1, <2>2, <2>3
  <2> QED BY <1>1, <2>1, <2>4, ChangesInv
<1>4. ASSUME NEW d \in Dirs, RemoveDir(d) \/ MakeDir(d) PROVE WatcherInv'
  <2>1. Changes(d) /\ UNCHANGED version /\ d \in Paths
    BY <1>1, <1>4 DEF RemoveDir, MakeDir
  <2>2. inode' = [inode EXCEPT ![d] = clock + 1] \/ inode' = [inode EXCEPT ![d] = Absent]
    BY <1>4 DEF RemoveDir, MakeDir
  <2>3. Absent \in Version
    BY DiskAssumption DEF Absent, Version
  <2>4. inode' \in [Dirs -> Version]
    BY <1>1, <1>2, <2>1, <2>2, <2>3
  <2> QED BY <1>1, <2>1, <2>4, ChangesInv
<1> QED BY <1>3, <1>4 DEF Disk

-----------------------------------------------------------------------------
(* Stats and timers: they feed the serial queue. *)

\* Steps that leave the disk, the jobs and the published files as they are.
LEMMA FeedInv ==
  ASSUME WatcherInv, UNCHANGED <<disk, ready, running, job, seen, staged, source, index>>,
         watchers' \in [Dirs -> Version], stats' \in [Paths \X Answers -> Nat],
         queue' \in Queue, tasks' \in Seq(Queue \cup Files), rechecks' \subseteq Files,
         ClosedIsQuiet'
  PROVE  WatcherInv'
<1>1. TypeOK'
  BY DEF WatcherInv, TypeOK, disk
<1>2. TodoInv' /\ FreshInv'
  BY DEF WatcherInv, TodoInv, FreshInv, Fresh, disk
<1> QED BY <1>1, <1>2 DEF WatcherInv

LEMMA NoEventsType == NoEvents \in Queue
BY DEF NoEvents, Queue, Events

LEMMA StatRunsInv ==
  ASSUME WatcherInv, NEW p \in Paths, StatRuns(p)
  PROVE  WatcherInv'
<1>1. Kind(p) \in Answers \ {"asked"}
  BY DEF Kind, Answers
<1>2. stats' \in [Paths \X Answers -> Nat]
  <2>1. /\ stats \in [Paths \X Answers -> Nat] /\ stats[<<p, "asked">>] > 0
        /\ stats' = Moved(p, "asked", Kind(p))
    BY DEF WatcherInv, TypeOK, StatRuns
  <2>2. /\ <<p, "asked">> \in Paths \X Answers /\ <<p, Kind(p)>> \in Paths \X Answers
        /\ <<p, "asked">> # <<p, Kind(p)>>
    BY <1>1 DEF Answers
  <2>3. stats[<<p, "asked">>] - 1 \in Nat /\ stats[<<p, Kind(p)>>] + 1 \in Nat
    BY <2>1, <2>2
  <2> QED BY <2>1, <2>2, <2>3 DEF Moved
<1>3. UNCHANGED <<disk, ready, watchers, queue, tasks, running, job, seen, staged, source,
                  rechecks, index>>
  BY DEF StatRuns, work
<1>4. ClosedIsQuiet'
  BY <1>3 DEF WatcherInv, ClosedIsQuiet
<1> QED BY <1>2, <1>3, <1>4, FeedInv DEF WatcherInv, TypeOK

LEMMA StatLandsInv ==
  ASSUME WatcherInv, NEW p \in Paths, NEW a \in Answers \ {"asked"}, StatLands(p, a)
  PROVE  WatcherInv'
<1>1. /\ stats[<<p, a>>] > 0
      /\ stats' = [stats EXCEPT ![<<p, a>>] = @ - 1]
      /\ watchers' = (IF ready THEN TreeWatched(p, a) ELSE watchers)
      /\ queue' = Enqueued(p, a)
      /\ UNCHANGED <<disk, ready, tasks, running, job, seen, staged, source, rechecks, index>>
  BY DEF StatLands, work
<1>2. stats' \in [Paths \X Answers -> Nat]
  BY <1>1 DEF WatcherInv, TypeOK, Answers
<1>3. watchers' \in [Dirs -> Version]
  <2>1. watchers \in [Dirs -> Version] /\ inode \in [Dirs -> Version] /\ Absent \in Version
    BY DiskAssumption DEF WatcherInv, TypeOK, Absent, Version
  <2>2. TreeWatched(p, a) \in [Dirs -> Version]
    BY <2>1 DEF TreeWatched
  <2> QED BY <1>1, <2>1, <2>2
<1>4. queue' \in Queue
  <2>1. EventOf(a) \in Events
    BY DEF EventOf, Events, Answers
  <2> QED BY <1>1, <2>1 DEF WatcherInv, TypeOK, Enqueued, Queue
<1>5. ClosedIsQuiet'
  BY <1>1 DEF WatcherInv, ClosedIsQuiet, Enqueued
<1> QED BY <1>1, <1>2, <1>3, <1>4, <1>5, FeedInv DEF WatcherInv, TypeOK

LEMMA TimersInv ==
  ASSUME WatcherInv, Debounced \/ \E f \in Files : RecheckDue(f)
  PROVE  WatcherInv'
<1>1. CASE Debounced
  <2>1. /\ queue' = NoEvents /\ tasks' = Append(tasks, queue)
        /\ UNCHANGED <<disk, ready, watchers, stats, running, job, seen, staged, source,
                       rechecks, index>>
    BY <1>1 DEF Debounced
  <2>2. tasks' \in Seq(Queue \cup Files)
    BY <2>1 DEF WatcherInv, TypeOK
  <2>3. ClosedIsQuiet'
    BY <2>1 DEF WatcherInv, ClosedIsQuiet
  <2> QED BY <2>1, <2>2, <2>3, NoEventsType, FeedInv DEF WatcherInv, TypeOK
<1>2. ASSUME NEW f \in Files, RecheckDue(f) PROVE WatcherInv'
  <2>1. /\ rechecks' = rechecks \ {f} /\ tasks' = Append(tasks, f)
        /\ UNCHANGED <<disk, ready, watchers, stats, queue, running, job, seen, staged, source,
                       index>>
    BY <1>2 DEF RecheckDue
  <2>2. tasks' \in Seq(Queue \cup Files)
    BY <2>1 DEF WatcherInv, TypeOK
  <2>3. ClosedIsQuiet'
    BY <2>1 DEF WatcherInv, ClosedIsQuiet
  <2> QED BY <2>1, <2>2, <2>3, FeedInv DEF WatcherInv, TypeOK
<1> QED BY <1>1, <1>2

-----------------------------------------------------------------------------
(* The serial queue. *)

LEMMA BeginsType ==
  ASSUME NEW event \in Events
  PROVE  /\ Begins(event) \in [at : Places, todo : SUBSET (Files \X Version)]
         /\ Begins(event).at \in {"remove", "rescan", "refresh"} /\ Begins(event).todo = {}
BY DEF Begins, Events, Places

LEMMA TakeTaskInv == ASSUME WatcherInv, TakeTask PROVE WatcherInv'
<1> DEFINE task == Head(tasks)
           events == IF task \in Files THEN [NoEvents EXCEPT ![task] = "change"] ELSE task
<1>1. /\ tasks # <<>> /\ tasks' = Tail(tasks)
      /\ UNCHANGED <<disk, ready, watchers, stats, queue, seen, staged, source, rechecks, index>>
      /\ ready => /\ running' \in {"recheck", "epoch"}
                  /\ job' = [p \in Paths |-> IF events[p] = "none" THEN job[p]
                                             ELSE Begins(events[p])]
      /\ ~ready => UNCHANGED <<running, job>>
  BY DEF TakeTask, Turn
<1>2. tasks' \in Seq(Queue \cup Files) /\ task \in Queue \cup Files
  BY <1>1 DEF WatcherInv, TypeOK
<1>3. events \in [Paths -> Events \cup {"none"}]
  BY <1>2, NoEventsType DEF Queue, Events
<1> HIDE DEF events
<1>4. ASSUME NEW p \in Paths
      PROVE  \/ job'[p] = job[p]
             \/ /\ running' # "none"
                /\ job'[p] \in [at : Places, todo : SUBSET (Files \X Version)]
                /\ job'[p].at \in {"remove", "rescan", "refresh"} /\ job'[p].todo = {}
  BY <1>1, <1>3, BeginsType
<1>5. job' \in [Paths -> [at : Places, todo : SUBSET (Files \X Version)]]
  BY <1>1, <1>4 DEF WatcherInv, TypeOK
<1>6. TypeOK'
  BY <1>1, <1>2, <1>5 DEF WatcherInv, TypeOK, disk
<1>7. TodoInv'
  BY <1>1, <1>4 DEF WatcherInv, TodoInv
<1>8. FreshInv'
  BY <1>1, <1>4 DEF WatcherInv, FreshInv, Fresh, disk
<1>9. ClosedIsQuiet'
  BY <1>1 DEF WatcherInv, ClosedIsQuiet
<1> QED BY <1>6, <1>7, <1>8, <1>9 DEF WatcherInv

-----------------------------------------------------------------------------
(* The jobs of an epoch. *)

\* A job goes on: what it takes with it, and what it stages, is fresh.
LEMMA GoesToInv ==
  ASSUME WatcherInv, NEW p \in Paths, job[p].at # "none",
         NEW place \in Places, NEW todo \in SUBSET (Files \X Version), GoesTo(p, place, todo),
         place = "none" => todo = {}, place \in {"publish", "read", "build"} => todo # {},
         \A e \in todo : Fresh(e[1], e[2]),
         seen' \subseteq Files, source' \subseteq Files, rechecks' \subseteq Files,
         ~ready => rechecks' = {},
         staged' \in [Files -> Version \cup {Unstaged}],
         \A f \in Files : staged'[f] \in {staged[f], Absent} \/ Fresh(f, staged'[f])
  PROVE  WatcherInv'
<1>1. /\ job' = [job EXCEPT ![p] = [at |-> place, todo |-> todo]]
      /\ UNCHANGED <<clock, inode, version, ready, watchers, stats, queue, tasks, running, index>>
  BY DEF GoesTo, disk
<1>2. /\ job'[p] = [at |-> place, todo |-> todo]
      /\ \A q \in Paths : q # p => job'[q] = job[q]
      /\ job' \in [Paths -> [at : Places, todo : SUBSET (Files \X Version)]]
  BY <1>1 DEF WatcherInv, TypeOK
<1>3. TypeOK'
  BY <1>1, <1>2 DEF WatcherInv, TypeOK
<1>4. TodoInv'
  <2>1. running # "none"
    BY DEF WatcherInv, TodoInv
  <2> QED BY <1>1, <1>2, <2>1 DEF WatcherInv, TodoInv
<1>5. FreshInv'
  <2>1. \A f, v : Fresh(f, v)' <=> Fresh(f, v)
    BY <1>1 DEF Fresh
  <2>2. \A q \in Paths : \A e \in job'[q].todo : Fresh(e[1], e[2])
    BY <1>2 DEF WatcherInv, FreshInv
  <2>3. \A f \in Files : staged'[f] \notin {Absent, Unstaged} => Fresh(f, staged'[f])
    BY DEF WatcherInv, FreshInv
  <2>4. /\ \A f \in Files : index'[f] <= clock'
        /\ \A f \in Files : version'[f] # Absent => Fresh(f, version'[f])
    BY <1>1 DEF WatcherInv, FreshInv
  <2> QED BY <1>1, <2>1, <2>2, <2>3, <2>4 DEF FreshInv, Fresh
<1>6. ClosedIsQuiet'
  BY <1>1 DEF WatcherInv, ClosedIsQuiet
<1> QED BY <1>3, <1>4, <1>5, <1>6 DEF WatcherInv

LEMMA UnpublishInv ==
  ASSUME WatcherInv, NEW p \in Paths, job[p].at # "none", Unpublish(p)
  PROVE  WatcherInv'
<1> DEFINE gone == Below(p) \cap source
<1>1. /\ source' = source \ gone
      /\ staged' = [f \in Files |-> IF f \in gone THEN Absent ELSE staged[f]]
      /\ rechecks' = rechecks \ (gone \cup {p})
      /\ GoesTo(p, "none", {}) /\ UNCHANGED seen
  BY DEF Unpublish, Ends
<1> HIDE DEF gone
<1>2. source' \subseteq Files /\ rechecks' \subseteq Files /\ seen' \subseteq Files
      /\ (~ready => rechecks' = {})
  BY <1>1 DEF WatcherInv, TypeOK, ClosedIsQuiet
<1>3. Absent \in Version
  BY DiskAssumption DEF Absent, Version
<1>4. staged' \in [Files -> Version \cup {Unstaged}]
      /\ \A f \in Files : staged'[f] \in {staged[f], Absent}
  BY <1>1, <1>3 DEF WatcherInv, TypeOK
<1>5. "none" \in Places /\ {} \in SUBSET (Files \X Version)
  BY DEF Places
<1> QED BY <1>1, <1>2, <1>4, <1>5, GoesToInv

\* A job goes on and stages nothing.
LEMMA MovesInv ==
  ASSUME WatcherInv, NEW p \in Paths, job[p].at # "none",
         NEW place \in Places, NEW todo \in SUBSET (Files \X Version), GoesTo(p, place, todo),
         place = "none" => todo = {}, place \in {"publish", "read", "build"} => todo # {},
         \A e \in todo : Fresh(e[1], e[2]),
         UNCHANGED <<staged, source>>, seen' \subseteq Files, rechecks' \subseteq Files,
         ~ready => rechecks' = {}
  PROVE  WatcherInv'
<1>1. source' \subseteq Files /\ staged' \in [Files -> Version \cup {Unstaged}]
      /\ \A f \in Files : staged'[f] \in {staged[f], Absent}
  BY DEF WatcherInv, TypeOK
<1> QED BY <1>1, GoesToInv

LEMMA StillTyped ==
  ASSUME WatcherInv
  PROVE  /\ seen \subseteq Files /\ source \subseteq Files /\ rechecks \subseteq Files
         /\ ~ready => rechecks = {}
         /\ \A p \in Paths : job[p].todo \in SUBSET (Files \X Version)
         /\ \A p \in Paths : \A e \in job[p].todo : Fresh(e[1], e[2])
BY DEF WatcherInv, TypeOK, ClosedIsQuiet, FreshInv

LEMMA RemoveInv == ASSUME WatcherInv, NEW p \in Paths, Remove(p) PROVE WatcherInv'
<1>1. job[p].at = "remove"
  BY DEF Remove, At
<1>2. CASE Kind(p) = "gone"
  BY <1>1, <1>2, UnpublishInv DEF Remove
<1>3. CASE Kind(p) # "gone"
  <2>1. PICK place \in {"rescan", "refresh"} : GoesTo(p, place, {})
    BY <1>3 DEF Remove
  <2>2. UNCHANGED <<seen, staged, source, rechecks>>
    BY <1>3 DEF Remove
  <2>3. place \in Places /\ {} \in SUBSET (Files \X Version)
    BY DEF Places
  <2> QED BY <1>1, <2>1, <2>2, <2>3, StillTyped, MovesInv
<1> QED BY <1>2, <1>3

LEMMA LookInv == ASSUME WatcherInv, NEW p \in Paths, Look(p) PROVE WatcherInv'
<1>1. job[p].at # "none"
  BY DEF Look, At
<1>2. CASE p \in Files /\ version[p] = Absent
  BY <1>1, <1>2, UnpublishInv DEF Look
<1>3. CASE ~(p \in Files /\ version[p] = Absent)
  <2> DEFINE found == {<<f, version[f]>> : f \in {g \in Below(p) : version[g] # Absent}}
  <2>1. /\ GoesTo(p, IF found = {} THEN "none" ELSE "publish", found)
        /\ UNCHANGED <<seen, staged, source, rechecks>>
    BY <1>3 DEF Look
  <2>2. found \in SUBSET (Files \X Version)
    BY DEF WatcherInv, TypeOK, Below
  <2>3. \A e \in found : Fresh(e[1], e[2])
    BY DEF WatcherInv, FreshInv, Below
  <2> HIDE DEF found
  <2>4. PICK place \in {"none", "publish"} : /\ GoesTo(p, place, found)
                                             /\ place = IF found = {} THEN "none" ELSE "publish"
    BY <2>1
  <2>5. place \in Places
    BY DEF Places
  <2> QED BY <1>1, <2>1, <2>2, <2>3, <2>4, <2>5, StillTyped, MovesInv
<1> QED BY <1>2, <1>3

\* The file a job is at, and those after it.
LEMMA TodoType ==
  ASSUME WatcherInv, NEW p \in Paths, job[p].at \in {"publish", "read", "build"}
  PROVE  /\ File(p) \in job[p].todo
         /\ File(p)[1] \in Files /\ File(p)[2] \in Version
         /\ Fresh(File(p)[1], File(p)[2])
         /\ Rest(p) \subseteq job[p].todo
<1>1. job[p].todo # {}
  BY DEF WatcherInv, TodoInv
<1>2. File(p) \in job[p].todo
  BY <1>1 DEF File
<1> QED BY <1>2, StillTyped DEF Rest

LEMMA GoesOnMoves ==
  ASSUME WatcherInv, NEW p \in Paths, job[p].at \in {"publish", "read", "build"}, GoesOn(p)
  PROVE  \E place \in {"none", "publish"}, todo \in SUBSET job[p].todo :
           /\ GoesTo(p, place, todo)
           /\ place = IF todo = {} THEN "none" ELSE "publish"
<1>1. Rest(p) \in SUBSET job[p].todo
  BY TodoType
<1>2. GoesTo(p, IF Rest(p) = {} THEN "none" ELSE "publish", Rest(p))
  BY DEF GoesOn, Ends
<1> QED BY <1>1, <1>2

LEMMA GoesOnInv ==
  ASSUME WatcherInv, NEW p \in Paths, job[p].at \in {"publish", "read", "build"}, GoesOn(p),
         UNCHANGED <<staged, source>>, seen' \subseteq Files, rechecks' \subseteq Files,
         ~ready => rechecks' = {}
  PROVE  WatcherInv'
<1>1. PICK place \in {"none", "publish"}, todo \in SUBSET job[p].todo :
        GoesTo(p, place, todo) /\ place = IF todo = {} THEN "none" ELSE "publish"
  BY GoesOnMoves
<1>2. place \in Places /\ todo \in SUBSET (Files \X Version)
      /\ \A e \in todo : Fresh(e[1], e[2])
  BY StillTyped DEF Places
<1> QED BY <1>1, <1>2, MovesInv

LEMMA FailsInv ==
  ASSUME WatcherInv, NEW p \in Paths, job[p].at \in {"publish", "read", "build"}, Fails(p),
         UNCHANGED <<staged, source, seen>>
  PROVE  WatcherInv'
<1>1. rechecks' \subseteq Files /\ (~ready => rechecks' = {})
  BY StillTyped, TodoType DEF Fails
<1> QED BY <1>1, StillTyped, GoesOnInv DEF Fails

LEMMA PublishInv == ASSUME WatcherInv, NEW p \in Paths, Publish(p) PROVE WatcherInv'
<1>1. job[p].at = "publish" /\ UNCHANGED <<staged, source, rechecks>>
  BY DEF Publish, At
<1>2. CASE Skips(p, File(p)[1])
  BY <1>1, <1>2, StillTyped, GoesOnInv DEF Publish
<1>3. CASE ~Skips(p, File(p)[1])
  <2>1. GoesTo(p, "read", job[p].todo) /\ seen' = seen \cup {File(p)[1]}
    BY <1>3 DEF Publish
  <2>2. "read" \in Places /\ job[p].todo # {}
    BY <1>1 DEF Places, WatcherInv, TodoInv
  <2> QED BY <1>1, <2>1, <2>2, StillTyped, TodoType, MovesInv
<1> QED BY <1>2, <1>3

LEMMA ReadInv == ASSUME WatcherInv, NEW p \in Paths, Read(p) PROVE WatcherInv'
<1>1. job[p].at = "read" /\ UNCHANGED <<staged, source, seen>>
  BY DEF Read, At
<1>2. CASE Fails(p)
  BY <1>1, <1>2, FailsInv
<1>3. CASE GoesTo(p, "build", job[p].todo) /\ UNCHANGED rechecks
  <2>1. "build" \in Places /\ job[p].todo # {}
    BY <1>1 DEF Places, WatcherInv, TodoInv
  <2> QED BY <1>1, <1>3, <2>1, StillTyped, MovesInv
<1> QED BY <1>2, <1>3 DEF Read

LEMMA BuildInv == ASSUME WatcherInv, NEW p \in Paths, Build(p) PROVE WatcherInv'
<1>1. job[p].at = "build" /\ UNCHANGED seen
  BY DEF Build, At
<1>2. CASE Fails(p) /\ UNCHANGED <<staged, source>>
  BY <1>1, <1>2, FailsInv
<1>3. CASE ~(Fails(p) /\ UNCHANGED <<staged, source>>)
  <2>1. /\ staged' = [staged EXCEPT ![File(p)[1]] = File(p)[2]]
        /\ source' = source \cup {File(p)[1]}
        /\ GoesOn(p) /\ UNCHANGED rechecks
    BY <1>3 DEF Build
  <2>2. /\ source' \subseteq Files
        /\ staged' \in [Files -> Version \cup {Unstaged}]
        /\ \A f \in Files : staged'[f] \in {staged[f], Absent} \/ Fresh(f, staged'[f])
    BY <1>1, <2>1, TodoType, StillTyped DEF WatcherInv, TypeOK
  <2>3. PICK place \in {"none", "publish"}, todo \in SUBSET job[p].todo :
          GoesTo(p, place, todo) /\ place = IF todo = {} THEN "none" ELSE "publish"
    BY <1>1, <2>1, GoesOnMoves
  <2>4. place \in Places /\ todo \in SUBSET (Files \X Version)
        /\ \A e \in todo : Fresh(e[1], e[2])
    BY StillTyped DEF Places
  <2> QED BY <1>1, <2>1, <2>2, <2>3, <2>4, StillTyped, GoesToInv
<1> QED BY <1>2, <1>3

-----------------------------------------------------------------------------
(* Commits. *)

\* What an epoch publishes is fresh, and it publishes when no job has anything left.
LEMMA FlushInv == ASSUME WatcherInv, Flush PROVE WatcherInv'
<1>1. /\ index' = [f \in Files |->
                     IF ~ready \/ staged[f] = Unstaged THEN index[f] ELSE staged[f]]
      /\ running' = "none" /\ \A p \in Paths : job[p].at = "none"
      /\ seen' = {} /\ staged' = [f \in Files |-> Unstaged]
      /\ UNCHANGED <<clock, inode, version, ready, watchers, stats, queue, tasks, job, source, rechecks>>
  BY DEF Flush, AllSettled, At, disk
<1>2. TypeOK'
  <2>1. index' \in [Files -> Version]
    BY <1>1 DEF WatcherInv, TypeOK
  <2> QED BY <1>1, <2>1 DEF WatcherInv, TypeOK
<1>3. TodoInv' /\ \A p \in Paths : job'[p].todo = {}
  BY <1>1 DEF WatcherInv, TodoInv
<1>4. FreshInv'
  <2>1. clock \in Nat /\ \A f \in Files : index[f] \in Nat /\ version[f] \in Nat
    BY DEF WatcherInv, TypeOK, Version
  <2>2. ASSUME NEW f \in Files
        PROVE  index'[f] <= clock' /\ (version'[f] # Absent => Fresh(f, version[f])')
    <3>1. \/ index'[f] = index[f]
          \/ index'[f] = Absent
          \/ index'[f] = staged[f] /\ Fresh(f, staged[f])
      BY <1>1 DEF WatcherInv, FreshInv
    <3>2. /\ index[f] <= clock
          /\ version[f] # Absent => index[f] <= version[f] /\ version[f] <= clock
      BY DEF WatcherInv, FreshInv, Fresh
    <3>3. index'[f] <= clock /\ (version[f] # Absent => index'[f] <= version[f])
      BY <2>1, <3>1, <3>2 DEF Fresh, Absent
    <3> QED BY <1>1, <2>1, <3>2, <3>3 DEF Fresh
  <2> QED BY <1>1, <1>3, <2>2 DEF FreshInv
<1>5. ClosedIsQuiet'
  BY <1>1 DEF WatcherInv, ClosedIsQuiet
<1> QED BY <1>2, <1>3, <1>4, <1>5 DEF WatcherInv

LEMMA CloseInv == ASSUME WatcherInv, Close PROVE WatcherInv'
<1>1. /\ ready' = FALSE /\ watchers' = [d \in Dirs |-> Absent] /\ queue' = NoEvents
      /\ rechecks' = {} /\ source' = {} /\ index' = [f \in Files |-> Absent]
      /\ UNCHANGED <<clock, inode, version, stats, tasks, running, job, seen, staged>>
  BY DEF Close, disk
<1>2. Absent \in Version
  BY DiskAssumption DEF Absent, Version
<1>3. TypeOK'
  BY <1>1, <1>2, NoEventsType DEF WatcherInv, TypeOK
<1>4. TodoInv' /\ ClosedIsQuiet'
  BY <1>1 DEF WatcherInv, TodoInv, ClosedIsQuiet
<1>5. FreshInv'
  <2>1. clock \in Nat
    BY DEF WatcherInv, TypeOK, Version
  <2>2. \A f \in Files, v \in Nat : Fresh(f, v) => Fresh(f, v)'
    BY <1>1, <2>1 DEF Fresh, Absent
  <2>3. /\ \A f \in Files : version[f] \in Nat
        /\ \A f \in Files : staged[f] \notin {Absent, Unstaged} => staged[f] \in Nat
        /\ \A p \in Paths : \A e \in job[p].todo : e[1] \in Files /\ e[2] \in Nat
    BY DEF WatcherInv, TypeOK, Version
  <2>4. /\ \A f \in Files : version[f] # Absent => Fresh(f, version[f])'
        /\ \A p \in Paths : \A e \in job[p].todo : Fresh(e[1], e[2])'
        /\ \A f \in Files : staged[f] \notin {Absent, Unstaged} => Fresh(f, staged[f])'
    BY <1>1, <2>2, <2>3 DEF WatcherInv, FreshInv
  <2>5. \A f \in Files : index'[f] <= clock'
    BY <1>1, <2>1 DEF Absent
  <2> QED BY <1>1, <2>4, <2>5 DEF FreshInv
<1> QED BY <1>3, <1>4, <1>5 DEF WatcherInv

-----------------------------------------------------------------------------
(* Theorems. *)

LEMMA InitInv == ASSUME Init PROVE WatcherInv
<1>1. Absent \in Version /\ 1 \in Version /\ clock \in Version
  BY DiskAssumption DEF Init, Absent, Version
<1>2. version \in [Files -> Version] /\ inode \in [Dirs -> Version]
      /\ \A f \in Files : version[f] \in {Absent, 1}
  BY <1>1 DEF Init
<1>3. TypeOK
  BY <1>1, <1>2, NoEventsType DEF Init, TypeOK, Idle, Places
<1>4. TodoInv /\ ClosedIsQuiet
  BY DEF Init, TodoInv, ClosedIsQuiet, Idle
<1>5. FreshInv
  BY <1>2 DEF Init, FreshInv, Fresh, Idle, Absent, Unstaged
<1> QED BY <1>3, <1>4, <1>5 DEF WatcherInv

LEMMA NextInv == ASSUME WatcherInv, [Next]_vars PROVE WatcherInv'
<1>1. CASE Next
  <2>1. CASE Disk
    BY <2>1, DiskInv
  <2>2. ASSUME NEW p \in Paths, StatRuns(p) \/ Lands(p) PROVE WatcherInv'
    BY <2>2, StatRunsInv, StatLandsInv DEF Lands
  <2>3. ASSUME NEW p \in Paths, Step(p) PROVE WatcherInv'
    BY <2>3, RemoveInv, LookInv, PublishInv, ReadInv, BuildInv DEF Step
  <2>4. CASE Debounced \/ \E f \in Files : RecheckDue(f)
    BY <2>4, TimersInv
  <2>5. CASE Task
    BY <2>5, TakeTaskInv, FlushInv DEF Task
  <2>6. CASE Close
    BY <2>6, CloseInv
  <2> QED BY <1>1, <2>1, <2>2, <2>3, <2>4, <2>5, <2>6 DEF Next
<1>2. CASE UNCHANGED vars
  <2>1. TypeOK'
    BY <1>2 DEF WatcherInv, TypeOK, vars, disk, work
  <2>2. TodoInv' /\ FreshInv' /\ ClosedIsQuiet'
    BY <1>2 DEF WatcherInv, TodoInv, FreshInv, Fresh, ClosedIsQuiet, vars, disk, work
  <2> QED BY <2>1, <2>2 DEF WatcherInv
<1> QED BY <1>1, <1>2

LEMMA WatcherInductive == Spec => []WatcherInv
BY InitInv, NextInv, PTL DEF Spec

\* Watches, events, tasks and published versions keep their types.
THEOREM WatcherTyped == Spec => []TypeOK
<1>1. WatcherInv => TypeOK
  BY DEF WatcherInv
<1> QED BY <1>1, WatcherInductive, PTL

\* Whatever stats, jobs and epochs outlive close(), nothing is watched, armed or
\* published after it.
THEOREM ClosedStaysQuiet == Spec => []ClosedIsQuiet
<1>1. WatcherInv => ClosedIsQuiet
  BY DEF WatcherInv
<1> QED BY <1>1, WatcherInductive, PTL

\* Only commits change what is published, to a version at least as new.
LEMMA StepNeverGoesBack ==
  ASSUME WatcherInv, [Next]_vars, NEW f \in Files
  PROVE  index'[f] \in {Absent} \cup index[f]..MaxChanges
<1>1. index[f] \in Nat /\ index[f] <= MaxChanges /\ MaxChanges \in Nat
  BY DiskAssumption DEF WatcherInv, TypeOK, Version
<1>2. CASE Flush
  <2>1. index'[f] = IF ~ready \/ staged[f] = Unstaged THEN index[f] ELSE staged[f]
    BY <1>2 DEF Flush
  <2>2. staged[f] \notin {Absent, Unstaged} => index[f] <= staged[f] /\ staged[f] \in Version
    BY DEF WatcherInv, TypeOK, FreshInv, Fresh
  <2> QED BY <1>1, <2>1, <2>2 DEF Version
<1>3. CASE Close
  BY <1>3 DEF Close
<1>4. CASE ~Flush /\ ~Close
  <2>1. ASSUME NEW p \in Paths, Step(p) PROVE index' = index
    BY <2>1 DEF Step, Remove, Look, Publish, Read, Build, Unpublish, Fails, GoesOn, Ends, GoesTo
  <2>2. ASSUME NEW p \in Paths, StatRuns(p) \/ Lands(p) PROVE index' = index
    BY <2>2 DEF StatRuns, Lands, StatLands
  <2>3. Disk => index' = index
    BY DEF Disk, WriteFile, RemoveFile, RemoveDir, MakeDir, Changes
  <2>4. (Debounced \/ TakeTask \/ \E g \in Files : RecheckDue(g)) => index' = index
    BY DEF Debounced, TakeTask, RecheckDue
  <2>5. UNCHANGED vars => index' = index
    BY DEF vars
  <2>6. index' = index
    BY <1>4, <2>1, <2>2, <2>3, <2>4, <2>5 DEF Next, Task
  <2> QED BY <1>1, <2>6
<1> QED BY <1>2, <1>3, <1>4

\* Neither an older epoch nor a late recheck publishes over a newer version.
THEOREM NothingGoesBack == Spec => NeverGoesBack
<1>1. WatcherInv /\ [Next]_vars
        => [\A f \in Files : index'[f] \in {Absent} \cup index[f]..MaxChanges]_vars
  BY StepNeverGoesBack
<1> QED BY <1>1, WatcherInductive, PTL DEF Spec, NeverGoesBack
=============================================================================
