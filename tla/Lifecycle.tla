----------------------------- MODULE Lifecycle -----------------------------
(***************************************************************************)
(* The life of a main kernel: lib/kernel.js initialize(), close() and the  *)
(* publication of every file its places hold at start (#originOf,          *)
(* #publishAll, #publishEntry, #storeShared, #flush, watch).               *)
(*                                                                         *)
(* initialize() is one asynchronous function: it visits the places in      *)
(* order, awaits the origin of each and then the lanes that publish its    *)
(* files, at most one file per lane at a time.  Whatever else the program  *)
(* does, close() included, happens while one of these promises is awaited; *)
(* between two awaits a step is atomic.                                    *)
(*                                                                         *)
(* A file is known by its place and name.  What the preparer, the reader,  *)
(* the compiler and the codecs do with it is a step that succeeds or       *)
(* fails.  Map places, which publish into the thread's own Map, and the    *)
(* publications of a ready kernel are not modelled here.                   *)
(***************************************************************************)
EXTENDS Integers, Sequences, FiniteSets

CONSTANTS
  Disk,      \* places filled by a scan, and watched
  Sea,       \* places filled from embedded assets, which may be unreadable
  Virtual,   \* places that start empty
  Order,     \* the places in the order of the configuration
  Files,     \* names of files a place may hold
  Lanes,     \* concurrent publications
  Watch      \* the configuration requires a watcher

\* Without places initialize() awaits nothing; there is at least one lane.
ASSUME OrderAssumption ==
  /\ Order \in Seq(Disk \cup Sea \cup Virtual) /\ Order # <<>>
  /\ Disk \cap Virtual = {} /\ Sea \cap Virtual = {}
  /\ Lanes # {}
  /\ Watch \in BOOLEAN

File == (Disk \cup Sea) \X Files
Phases == {"input", "store", "build"}

VARIABLES
  state,     \* "new", "initializing", "ready", "closed"
  init,      \* where initialize() awaits: "none", "origin", "files", "over"
  result,    \* of initialize(): "none", "resolved", "rejected"
  place,     \* the rank in Order of the place it is at
  queue,     \* files of that place not begun
  lane,      \* lane -> <<file, phase>> in flight, or <<>>
  failed,    \* a file failed: the lanes of #publishAll begin no other
  staged,    \* files staged for the one epoch of initialize()
  private,   \* files whose bytes are allocated and not staged
  index,     \* files published
  sources,   \* disk places whose sources the kernel tracks
  watcher,   \* a watcher is armed
  found      \* history: every file an origin returned

vars == <<state, init, result, place, queue, lane, failed, staged, private, index,
          sources, watcher, found>>
publication == <<queue, lane, failed, staged, private, found>>

TypeOK ==
  /\ state \in {"new", "initializing", "ready", "closed"}
  /\ init \in {"none", "origin", "files", "over"}
  /\ result \in {"none", "resolved", "rejected"}
  /\ place \in 1..(Len(Order) + 1)
  /\ queue \subseteq File
  /\ lane \in [Lanes -> {<<>>} \cup (File \X Phases)]
  /\ failed \in BOOLEAN
  /\ staged \subseteq File /\ private \subseteq File /\ index \subseteq File
  /\ sources \subseteq Disk
  /\ watcher \in BOOLEAN
  /\ found \subseteq File

Init ==
  /\ state = "new"
  /\ init = "none"
  /\ result = "none"
  /\ place = 1
  /\ queue = {}
  /\ lane = [w \in Lanes |-> <<>>]
  /\ failed = FALSE
  /\ staged = {} /\ private = {} /\ index = {}
  /\ sources = {}
  /\ watcher = FALSE
  /\ found = {}

-----------------------------------------------------------------------------
\* close() in any state: everything the kernel holds is dropped.
Shut ==
  /\ state' = "closed"
  /\ watcher' = FALSE
  /\ sources' = {}
  /\ index' = {}
  /\ private' = {}

Close ==
  /\ Shut
  /\ UNCHANGED <<init, result, place, queue, lane, failed, staged, found>>

\* initialize() gives up: it closes the kernel and rejects.
BrokenGiveUp ==
  /\ UNCHANGED <<state, watcher, sources, index, private>>
  /\ result' = "rejected"
  /\ init' = "over"
GiveUp ==
  /\ Shut
  /\ result' = "rejected"
  /\ init' = "over"

\* initialize(): the configured places are registered, or refused for a preparer
\* that does not exist.
Initialize ==
  /\ state = "new"
  /\ \/ state' = "initializing" /\ init' = "origin"
        /\ UNCHANGED <<result, watcher, sources, index, private>>
     \/ GiveUp
  /\ UNCHANGED <<place, queue, lane, failed, staged, found>>

\* What #flush publishes of the epoch: nothing on a closed kernel.
BrokenFlushed(files) == files
Flushed(files) == IF state = "closed" THEN index ELSE index \cup files

\* The rest of initialize() once the place it is at is done: on to the origin of
\* the next, or the one commit, the new state and the watcher.
BrokenGoOn(tracked, files) ==
  /\ place' = place + 1
  /\ index' = Flushed(files)
  /\ sources' = tracked
  /\ IF place < Len(Order)
     THEN init' = "origin" /\ UNCHANGED <<state, result, watcher>>
     ELSE /\ init' = "over"
          /\ state' = "ready"
          /\ result' = "resolved"
          /\ watcher' = (Watch /\ tracked # {})
GoOn(tracked, files) ==
  /\ place' = place + 1
  /\ IF place < Len(Order)
     THEN /\ init' = "origin"
          /\ sources' = tracked
          /\ UNCHANGED <<state, result, index, watcher>>
     ELSE /\ init' = "over"
          /\ index' = Flushed(files)
          /\ state' = "ready"
          /\ result' = "resolved"
          /\ sources' = tracked
          /\ watcher' = (Watch /\ tracked # {})

\* The lanes take their first files.  The code takes the largest first; here any.
Begin(files) ==
  \E start \in [Lanes -> files \cup {<<>>}] :
    LET taken == {start[w] : w \in Lanes} \ {<<>>}
    IN  /\ \A v, w \in Lanes : start[v] = start[w] /\ start[v] # <<>> => v = w
        /\ (\E w \in Lanes : start[w] = <<>>) => taken = files
        /\ lane' = [w \in Lanes |-> IF start[w] = <<>> THEN <<>> ELSE <<start[w], "input">>]
        /\ queue' = files \ taken

\* The kernel tracks the sources of the places it scans.
BrokenTracked(p) == sources \cup {p}
Tracked(p) == IF p \in Disk THEN sources \cup {p} ELSE sources

\* The origin of the place arrives: a scan, the assets, or nothing.
Origin(names) ==
  LET p == Order[place]
      files == IF p \in Virtual THEN {} ELSE {p} \X names
  IN  /\ init = "origin"
      /\ found' = found \cup files
      /\ IF files = {}
         THEN GoOn(Tracked(p), staged) /\ UNCHANGED <<queue, lane>>
         ELSE /\ Begin(files)
              /\ init' = "files"
              /\ sources' = Tracked(p)
              /\ UNCHANGED <<state, result, place, index, watcher>>
      /\ UNCHANGED <<failed, staged, private>>

OriginFails ==
  /\ init = "origin"
  /\ Order[place] \in Sea
  /\ GiveUp
  /\ UNCHANGED <<place, queue, lane, failed, staged, found>>

-----------------------------------------------------------------------------
(* One lane of #publishAll. *)

\* A publication that outlives close() stops at its next step.
BrokenAlive == TRUE
Alive == state # "closed"

Busy(w, phase) == lane[w] # <<>> /\ lane[w][2] = phase

\* The raw input is read and prepared; its bytes get a place.
Input(w) ==
  /\ Busy(w, "input") /\ Alive
  /\ lane' = [lane EXCEPT ![w][2] = "store"]
  /\ private' = private \cup {lane[w][1]}
  /\ UNCHANGED <<state, init, result, place, queue, failed, staged, index, sources,
                 watcher, found>>

\* The bytes are in place: on to bytecode and compressed representations.
Store(w) ==
  /\ Busy(w, "store") /\ Alive
  /\ lane' = [lane EXCEPT ![w][2] = "build"]
  /\ UNCHANGED <<state, init, result, place, queue, failed, staged, private, index,
                 sources, watcher, found>>

\* What a lane goes on with after a file: another, unless one has failed.
Takes == IF failed THEN {} ELSE queue

Build(w) ==
  /\ Busy(w, "build") /\ Alive
  /\ staged' = staged \cup {lane[w][1]}
  /\ private' = private \ {lane[w][1]}
  /\ IF Takes = {}
     THEN lane' = [lane EXCEPT ![w] = <<>>] /\ queue' = queue
     ELSE \E f \in Takes : /\ lane' = [lane EXCEPT ![w] = <<f, "input">>]
                           /\ queue' = queue \ {f}
  /\ UNCHANGED <<state, init, result, place, failed, index, sources, watcher, found>>

\* A file cannot be read, prepared, stored or compiled, or the kernel is closed:
\* its own bytes go back and the lane ends.
Fail(w) ==
  /\ lane[w] # <<>>
  /\ lane' = [lane EXCEPT ![w] = <<>>]
  /\ private' = private \ {lane[w][1]}
  /\ failed' = TRUE
  /\ UNCHANGED <<state, init, result, place, queue, staged, index, sources, watcher,
                 found>>

\* Every lane is done.
Published ==
  /\ init = "files"
  /\ ~failed
  /\ \A w \in Lanes : lane[w] = <<>>
  /\ GoOn(sources, staged)
  /\ UNCHANGED publication

\* The first failure rejects #publishAll, whatever the other lanes are at.
BrokenReject ==
  /\ init = "files"
  /\ failed
  /\ Alive
  /\ GiveUp
  /\ UNCHANGED <<place, queue, lane, failed, staged, found>>
Reject ==
  /\ init = "files"
  /\ failed
  /\ GiveUp
  /\ UNCHANGED <<place, queue, lane, failed, staged, found>>

Step(w) == Input(w) \/ Store(w) \/ Build(w) \/ Fail(w)

Next ==
  \/ Initialize
  \/ \E names \in SUBSET Files : Origin(names)
  \/ OriginFails
  \/ \E w \in Lanes : Step(w)
  \/ Published
  \/ Reject
  \/ Close

Spec == Init /\ [][Next]_vars

\* Scans, reads, compilers and codecs end, one way or the other.
Fairness ==
  /\ WF_vars(\E names \in SUBSET Files : Origin(names))
  /\ \A w \in Lanes : WF_vars(Step(w))
  /\ WF_vars(Published)
  /\ WF_vars(Reject)
FairSpec == Spec /\ Fairness

-----------------------------------------------------------------------------
(* Properties. *)

\* initialize() publishes everything its origins returned in one commit, or
\* nothing: a failure or a close() half-way leaves no file visible.
AllOrNothing == index # {} => index = found

\* Whoever sees initialize() reject finds a closed kernel that holds no bytes,
\* publishes nothing and watches nothing, and the lanes which still have files in
\* flight never change that.
RejectedHoldsNothing ==
  result = "rejected" =>
    /\ state = "closed"
    /\ private = {} /\ index = {} /\ sources = {}
    /\ ~watcher

\* While the kernel is closed, the publications that outlive close() allocate and
\* stage nothing.
ClosedPublishesNothing ==
  [][state = "closed" /\ state' = "closed" =>
       /\ private' \subseteq private
       /\ staged' = staged
       /\ index' = index]_vars

\* A closed kernel stays closed (kernel.js: "new -> initializing -> ready ->
\* closed (final)").
ClosedIsFinal == [][state = "closed" => state' = "closed"]_vars

\* initialize() settles, although lanes fail, are abandoned by the first failure,
\* or find the kernel closed.
InitializeSettles == init \notin {"none", "over"} ~> result # "none"
=============================================================================
