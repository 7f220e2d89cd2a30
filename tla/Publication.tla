---------------------------- MODULE Publication ----------------------------
(***************************************************************************)
(* The publication of one file of a shared disk-origin place with what is  *)
(* derived from it (lib/kernel.js from #publishEntry to #flush,            *)
(* lib/pipeline.js, lib/compressor.js, lib/companion.js), and its readers  *)
(* on the main thread: streams and leases (lib/place-fs.js) over pins      *)
(* (lib/pins.js).                                                          *)
(*                                                                         *)
(* The file changes on disk at any time; a publication records its stat,   *)
(* reads it, derives its companions and commits everything in one step,    *)
(* with an await between each of these.  Publications of one key come one  *)
(* at a time (the watcher's serial queue).  What was replaced is freed      *)
(* once nobody on this thread reads it; there are no workers here.         *)
(***************************************************************************)
EXTENDS Naturals, FiniteSets

CONSTANTS
  Bytecode,     \* configured flavors, of {"require", "script"}
  Codecs,       \* configured encodings
  Readers,      \* streams and leases
  MaxChanges,   \* changes of the file on disk
  MaxPublished, \* publications
  None

Companions == Bytecode \cup Codecs
Representations == {"source"} \cup Companions

Version == 0..MaxChanges
Torn == MaxChanges + 1     \* bytes of no version: the file changed while it was read

\* One physical version of a representation: of which publication, of which bytes.
Entry ==
  [representation : Representations, number : 1..MaxPublished, kind : {"shared", "disk"},
   stat : Version, bytes : Version \cup {Torn}]
Job ==
  [stat : Version, bytes : Version \cup {Torn, None}, step : {"stat", "reading", "placed", "compiled", "built"},
   made : SUBSET Entry, dropped : SUBSET Companions]
Reader ==
  [entry : Entry, kind : {"owned", "borrowed", "lease"}, held : BOOLEAN,
   destroyed : BOOLEAN, released : BOOLEAN]

ASSUME NamesAssumption ==
  Bytecode \subseteq {"require", "script"} /\ {"source", "require", "script"} \cap Codecs = {}

ASSUME BoundsAssumption ==
  /\ MaxChanges \in Nat /\ MaxPublished \in Nat
  /\ IsFiniteSet(Readers)
  /\ None \notin Entry /\ None \notin Job /\ None \notin Reader

VARIABLES
  policy,     \* "plain"; "prepared" by a preparer; "kept" on disk, retainRaw: false
  open,       \* the kernel is ready (not closed)
  disk,       \* the version on disk
  there,      \* the file exists
  index,      \* representation -> its published entry, or None
  job,        \* the publication under way, or None
  published,  \* publications begun
  past,       \* shared entries that were replaced or removed
  freed,      \* those of them whose bytes may be used again
  counts,     \* entry -> its consumers (Pins)
  bound,      \* entries retired while they had consumers
  readers     \* reader -> [entry, kind, held, destroyed, released], or None

readerVars == <<counts, bound, readers>>
vars == <<policy, open, disk, there, index, job, published, past, freed, counts, bound, readers>>

TypeOK ==
  /\ policy \in {"plain", "prepared", "kept"}
  /\ open \in BOOLEAN /\ there \in BOOLEAN
  /\ disk \in Version
  /\ index \in [Representations -> Entry \cup {None}]
  /\ job \in Job \cup {None}
  /\ published \in 0..MaxPublished
  /\ past \subseteq Entry /\ freed \subseteq past
  /\ \A e \in DOMAIN counts : e \in Entry /\ counts[e] \in 1..Cardinality(Readers)
  /\ bound \subseteq DOMAIN counts
  /\ readers \in [Readers -> Reader \cup {None}]

Init ==
  /\ policy \in {"plain", "prepared", "kept"}
  /\ open = TRUE
  /\ disk = 0 /\ there = TRUE
  /\ index = [r \in Representations |-> None]
  /\ job = None
  /\ published = 0
  /\ past = {} /\ freed = {}
  /\ counts = [e \in {} |-> 0]
  /\ bound = {}
  /\ readers = [r \in Readers |-> None]

-----------------------------------------------------------------------------
(* The file on disk. *)

Change ==
  /\ disk < MaxChanges
  /\ disk' = disk + 1
  /\ there' \in BOOLEAN
  /\ UNCHANGED <<policy, open, index, job, published, past, freed>>
  /\ UNCHANGED readerVars

-----------------------------------------------------------------------------
(* A publication, up to its commit. *)

\* retainRaw: false goes with no bytecode (config).
Flavors == IF policy = "kept" THEN {} ELSE Bytecode

\* The stat of the event or of the scan.
Begin ==
  /\ open /\ job = None /\ there
  /\ published < MaxPublished
  /\ published' = published + 1
  /\ job' = [stat |-> disk, bytes |-> None, step |-> "stat", made |-> {}, dropped |-> {}]
  /\ UNCHANGED <<policy, open, disk, there, index, past, freed>>
  /\ UNCHANGED readerVars

Going(step) == job # None /\ job.step = step
Goes == UNCHANGED <<policy, open, disk, there, index, published, past, freed>>
          /\ UNCHANGED readerVars

Made(r, kind, bytes) ==
  [representation |-> r, number |-> published, kind |-> kind, stat |-> job.stat, bytes |-> bytes]

\* It does not fit, the pool is full, or the place keeps it on disk: an entry that
\* reads the raw file, which a prepared source never gets.
KeepOnDisk ==
  /\ Going("stat") /\ policy # "prepared"
  /\ job' = [job EXCEPT !.step = "placed", !.bytes = job.stat,
                        !.made = {Made("source", "disk", job.stat)}]
  /\ Goes

StartReading ==
  /\ Going("stat") /\ policy # "kept"
  /\ there /\ disk = job.stat
  /\ job' = [job EXCEPT !.step = "reading", !.bytes = disk]
  /\ Goes

\* The stat after the read must be the one before it.
Unchanged == there /\ disk = job.stat

FinishReading ==
  /\ Going("reading") /\ Unchanged
  /\ LET bytes == IF disk = job.bytes THEN disk ELSE Torn
     IN  job' = [job EXCEPT !.step = "placed", !.bytes = bytes,
                            !.made = {Made("source", "shared", bytes)}]
  /\ Goes

\* The bytes companions are built from: those just placed, or the file as it is.
OnDisk == \E e \in job.made : e.kind = "disk"
InputReadable == OnDisk => there
Input == IF OnDisk THEN disk ELSE job.bytes

\* What does not compile or does not fit is dropped; a script flavor must be made.
Compile ==
  /\ Going("placed")
  /\ Flavors # {} => InputReadable
  /\ \E made \in SUBSET Flavors :
       /\ "script" \in Flavors => "script" \in made
       /\ job' = [job EXCEPT !.step = "compiled", !.dropped = Flavors \ made,
                             !.made = @ \cup {Made(r, "shared", Input) : r \in made}]
  /\ Goes

Compress ==
  /\ Going("compiled")
  /\ \E made \in SUBSET Codecs :
       /\ made # {} => InputReadable
       /\ job' = [job EXCEPT !.step = "built", !.dropped = @ \cup (Codecs \ made),
                             !.made = @ \cup {Made(r, "shared", Input) : r \in made}]
  /\ Goes

\* The read finds another file, the preparer or the compiler refuses, nothing fits:
\* what was placed is freed, and what is published stays.
Fail ==
  /\ job # None
  /\ job' = None
  /\ Goes

-----------------------------------------------------------------------------
(* Commits. *)

\* Entries of the index that a commit to `next` retires.
Retired(next) ==
  {index[r] : r \in {q \in Representations : index[q] # next[q] /\ index[q] # None}}
    \cap [representation : Representations, number : 1..MaxPublished, kind : {"shared"},
          stat : Version, bytes : Version \cup {Torn}]

Commit(next) ==
  LET gone == Retired(next)
      kept == gone \cap DOMAIN counts
  IN  /\ index' = next
      /\ past' = past \cup gone
      /\ bound' = bound \cup kept
      /\ freed' = freed \cup (gone \ kept)

\* What the epoch stages: entries to publish, None to unpublish.
BrokenStaged ==
  [r \in Representations |->
     IF \E e \in job.made : e.representation = r
     THEN CHOOSE e \in job.made : e.representation = r ELSE index[r]]
Staged ==
  [r \in Representations |->
     IF \E e \in job.made : e.representation = r
     THEN CHOOSE e \in job.made : e.representation = r
     ELSE IF r \in job.dropped THEN None ELSE index[r]]

Flush ==
  /\ Going("built") /\ open
  /\ Commit(Staged)
  /\ job' = None
  /\ UNCHANGED <<policy, open, disk, there, published, counts, readers>>

\* The file is gone: its source and every companion it may have.
Unpublish ==
  /\ open /\ job = None /\ ~there
  /\ Commit([r \in Representations |-> None])
  /\ UNCHANGED <<policy, open, disk, there, job, published, counts, readers>>

-----------------------------------------------------------------------------
(* Readers. *)

Pinned(e, by) ==
  [d \in DOMAIN counts \cup {e} |->
     IF d # e THEN counts[d] ELSE IF e \in DOMAIN counts THEN counts[e] + by ELSE by]

\* Owned chunks, borrowed chunks or a lease on a representation in memory.
Acquire(r, representation, kind) ==
  LET e == index[representation]
  IN  /\ open
      /\ readers[r] = None /\ e # None /\ e.kind = "shared"
      /\ readers' = [readers EXCEPT ![r] =
           [entry |-> e, kind |-> kind, held |-> TRUE, destroyed |-> kind = "lease",
            released |-> FALSE]]
      /\ counts' = Pinned(e, 1)
      /\ UNCHANGED <<policy, open, disk, there, index, job, published, past, freed, bound>>

\* One consumer of e less: the last one of a retired version frees it.  A pin the
\* kernel's close forgot is not counted.
Drop(e) ==
  IF e \notin DOMAIN counts THEN UNCHANGED <<counts, bound, freed>>
  ELSE IF counts[e] > 1
  THEN counts' = [counts EXCEPT ![e] = @ - 1] /\ UNCHANGED <<bound, freed>>
  ELSE /\ counts' = [d \in DOMAIN counts \ {e} |-> counts[d]]
       /\ bound' = bound \ {e}
       /\ freed' = freed \cup (bound \cap {e})

\* A release is idempotent.
BrokenReleases(r) == Drop(readers[r].entry)
Releases(r) ==
  IF readers[r].held THEN Drop(readers[r].entry) ELSE UNCHANGED <<counts, bound, freed>>

\* The stream ends, fails, is destroyed or its signal aborts it.
Destroy(r) ==
  /\ readers[r] # None /\ ~readers[r].destroyed
  /\ IF readers[r].kind = "owned"
     THEN Releases(r) /\ readers' = [readers EXCEPT ![r].destroyed = TRUE, ![r].held = FALSE]
     ELSE UNCHANGED <<counts, bound, freed>>
            /\ readers' = [readers EXCEPT ![r].destroyed = TRUE]
  /\ UNCHANGED <<policy, open, disk, there, index, job, published, past>>

\* release() of a stream or a lease, also a second time, also on a closed kernel.
Release(r) ==
  /\ readers[r] # None
  /\ Releases(r)
  /\ readers' = [readers EXCEPT ![r].destroyed = TRUE, ![r].released = TRUE, ![r].held = FALSE]
  /\ UNCHANGED <<policy, open, disk, there, index, job, published, past>>

\* Pins.close: every stream stops, every pin is forgotten.
Close ==
  /\ open
  /\ open' = FALSE
  /\ index' = [r \in Representations |-> None]
  /\ counts' = [e \in {} |-> 0] /\ bound' = {}
  /\ readers' = [r \in Readers |->
       IF readers[r] = None THEN None
       ELSE [readers[r] EXCEPT !.destroyed = TRUE, !.held = @ /\ readers[r].kind # "owned"]]
  /\ UNCHANGED <<policy, disk, there, job, published, past, freed>>

Next ==
  \/ Change \/ Begin \/ KeepOnDisk \/ StartReading \/ FinishReading \/ Compile \/ Compress
  \/ Fail \/ Flush \/ Unpublish \/ Close
  \/ \E r \in Readers :
       \/ \E q \in Representations, k \in {"owned", "borrowed", "lease"} : Acquire(r, q, k)
       \/ Destroy(r) \/ Release(r)

Spec == Init /\ [][Next]_vars

-----------------------------------------------------------------------------
(* Properties. *)

\* Source and companions of a file are of one version, whatever of them failed: a
\* source in memory is the bytes its stat describes, its companions are derived from
\* exactly those bytes, a script has its cached data, and nothing is derived from a
\* source that is not there.  (A source kept on disk is the file as it is now.)
CompanionsMatch ==
  LET source == index["source"]
  IN  /\ source = None => \A r \in Companions : index[r] = None
      /\ source # None /\ source.kind = "shared" =>
           /\ source.bytes = source.stat
           /\ "script" \in Flavors => index["script"] # None
           /\ \A r \in Companions : index[r] # None => index[r].bytes = source.bytes

\* A chunk or view of e its reader may still use.
Reads(r, e) ==
  /\ readers[r] # None /\ readers[r].entry = e
  /\ \/ readers[r].kind = "owned" /\ ~readers[r].destroyed
     \/ readers[r].kind # "owned" /\ ~readers[r].released

\* The bytes of a replaced version are kept exactly as long as somebody reads them,
\* however its readers end: not given away under one of them because another was
\* released twice, not kept after the last.
FreedAfterLastReader ==
  open => freed = {e \in past : \A r \in Readers : ~Reads(r, e)}
=============================================================================
