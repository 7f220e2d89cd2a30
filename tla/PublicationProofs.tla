-------------------------- MODULE PublicationProofs --------------------------
(***************************************************************************)
(* For any set of codecs and readers and any number of changes and         *)
(* publications: Publication is typed, what it publishes together is of    *)
(* one version (CompanionsMatch), and replaced bytes are kept exactly as   *)
(* long as somebody reads them (FreedAfterLastReader).                     *)
(*                                                                         *)
(* Companions match because a job carries the version of its stat through  *)
(* every step (JobInv), and because what it drops leaves the index with    *)
(* what it makes.  Bytes are freed in time because pins count the readers  *)
(* that still hold (ReaderInv), and because an entry, once replaced, is    *)
(* never the published one again (IndexInv): nobody new can come to it.    *)
(***************************************************************************)
EXTENDS Publication, FiniteSetTheorems, TLAPS

-----------------------------------------------------------------------------
(* The inductive invariant. *)

\* A source is there, and unless it stays on disk all that was made is its version.
Sourced ==
  /\ \E e \in job.made : e.representation = "source"
  /\ OnDisk => \A e \in job.made : e.representation = "source" => e.kind = "disk"
  /\ ~OnDisk => job.bytes = job.stat /\ \A e \in job.made : e.bytes = job.stat

\* Every companion of C was made or dropped, and no other.
Tried(C) ==
  /\ \A r \in C : r \in job.dropped \/ \E e \in job.made : e.representation = r
  /\ \A e \in job.made : e.representation \in C \cup {"source"}
  /\ job.dropped \subseteq C
  /\ "script" \in Flavors => \E e \in job.made : e.representation = "script"

JobInv ==
  job # None =>
    /\ published \in 1..MaxPublished
    /\ \A e \in job.made : e.number = published /\ e.stat = job.stat
    /\ job.step \in {"stat", "reading"} => job.made = {} /\ job.dropped = {}
    /\ job.step = "reading" => job.bytes = job.stat
    /\ job.step \notin {"stat", "reading"} => Sourced
    /\ job.step = "placed" =>
         job.dropped = {} /\ \A e \in job.made : e.representation = "source"
    /\ job.step = "compiled" => Tried(Flavors)
    /\ job.step = "built" => Tried(Flavors \cup Codecs)

\* Entries are named by their publication; those of the one under way are new.
Old(e) == e.number <= published /\ (job # None => e.number < published)

IndexInv ==
  /\ \A r \in Representations : index[r] # None =>
       index[r].representation = r /\ index[r] \notin past /\ Old(index[r])
  /\ \A e \in past : Old(e)
  /\ \A r \in Companions \ (Flavors \cup Codecs) : index[r] = None

Holders(e) == {r \in Readers : readers[r] # None /\ readers[r].held /\ readers[r].entry = e}

ReaderInv ==
  /\ open =>
       /\ DOMAIN counts = {e \in Entry : Holders(e) # {}}
       /\ \A e \in DOMAIN counts : counts[e] = Cardinality(Holders(e))
       /\ bound = past \cap DOMAIN counts
       /\ freed = past \ DOMAIN counts
       /\ \A r \in Readers : readers[r] # None =>
            (readers[r].held <=> IF readers[r].kind = "owned" THEN ~readers[r].destroyed
                                 ELSE ~readers[r].released)
  /\ ~open => DOMAIN counts = {}

PublicationInv == TypeOK /\ JobInv /\ IndexInv /\ CompanionsMatch /\ ReaderInv

-----------------------------------------------------------------------------
(* The file on disk. *)

LEMMA ChangeInv == ASSUME PublicationInv, Change PROVE PublicationInv'
<1>1. /\ disk' = disk + 1 /\ disk' \in Version /\ there' \in BOOLEAN
      /\ UNCHANGED <<policy, open, index, job, published, past, freed, counts, bound, readers>>
  BY BoundsAssumption DEF PublicationInv, Change, readerVars, TypeOK, Version
<1>2. TypeOK'
  BY <1>1 DEF PublicationInv, TypeOK
<1>3. JobInv' /\ IndexInv' /\ CompanionsMatch'
  BY <1>1 DEF PublicationInv, JobInv, IndexInv, CompanionsMatch, Sourced, OnDisk, Tried, Flavors, Old
<1>4. ReaderInv'
  BY <1>1 DEF PublicationInv, ReaderInv, Holders
<1> QED BY <1>2, <1>3, <1>4 DEF PublicationInv

-----------------------------------------------------------------------------
(* A publication up to its commit. *)

\* The steps of a job touch nothing else.
LEMMA JobSteps ==
  ASSUME PublicationInv, Goes, job # None, job' \in Job \cup {None}, JobInv'
  PROVE  PublicationInv'
<1>1. UNCHANGED <<policy, open, disk, there, index, published, past, freed, counts, bound, readers>>
  BY DEF Goes, readerVars
<1>2. TypeOK'
  BY <1>1 DEF PublicationInv, TypeOK
<1>3. IndexInv' /\ CompanionsMatch'
  BY <1>1 DEF PublicationInv, IndexInv, CompanionsMatch, Flavors, Old
<1>4. ReaderInv'
  BY <1>1 DEF PublicationInv, ReaderInv, Holders
<1> QED BY <1>2, <1>3, <1>4 DEF PublicationInv

LEMMA BeginInv == ASSUME PublicationInv, Begin PROVE PublicationInv'
<1>1. /\ job = None /\ published' = published + 1 /\ published' \in 1..MaxPublished
      /\ job' = [stat |-> disk, bytes |-> None, step |-> "stat", made |-> {}, dropped |-> {}]
      /\ UNCHANGED <<policy, open, disk, there, index, past, freed, counts, bound, readers>>
  BY BoundsAssumption DEF PublicationInv, Begin, readerVars, TypeOK
<1>2. job' \in Job
  BY <1>1 DEF PublicationInv, TypeOK, Job
<1>3. TypeOK'
  BY <1>1, <1>2 DEF PublicationInv, TypeOK
<1>4. JobInv' /\ CompanionsMatch'
  BY <1>1 DEF PublicationInv, JobInv, CompanionsMatch, Flavors
<1>5. IndexInv'
  <2>1. \A e \in Entry : Old(e) => Old(e)'
    BY <1>1 DEF Old, PublicationInv, TypeOK, Entry
  <2>2. \A r \in Representations : index[r] # None => index[r] \in Entry
    BY DEF PublicationInv, TypeOK
  <2>3. past \subseteq Entry
    BY DEF PublicationInv, TypeOK
  <2> QED BY <1>1, <2>1, <2>2, <2>3 DEF PublicationInv, IndexInv, Flavors
<1>6. ReaderInv'
  BY <1>1 DEF PublicationInv, ReaderInv, Holders
<1> QED BY <1>3, <1>4, <1>5, <1>6 DEF PublicationInv

\* What a step makes.
LEMMA MadeType ==
  ASSUME PublicationInv, job # None, NEW r \in Representations, NEW kind \in {"shared", "disk"},
         NEW bytes \in Version \cup {Torn}
  PROVE  /\ Made(r, kind, bytes) \in Entry
         /\ Made(r, kind, bytes).representation = r /\ Made(r, kind, bytes).kind = kind
         /\ Made(r, kind, bytes).number = published /\ Made(r, kind, bytes).stat = job.stat
         /\ Made(r, kind, bytes).bytes = bytes
<1>1. job \in Job /\ published \in 1..MaxPublished
  BY DEF PublicationInv, JobInv, TypeOK
<1> QED BY <1>1 DEF Made, Entry, Job

LEMMA KeepOnDiskInv == ASSUME PublicationInv, KeepOnDisk PROVE PublicationInv'
<1> DEFINE e == Made("source", "disk", job.stat)
<1>1. /\ Goes /\ job # None /\ job.step = "stat" /\ job \in Job
      /\ job' = [job EXCEPT !.step = "placed", !.bytes = job.stat, !.made = {e}]
  BY DEF KeepOnDisk, Going, PublicationInv, TypeOK
<1>2. job.stat \in Version /\ job.dropped = {} /\ published \in 1..MaxPublished
  BY <1>1 DEF Job, PublicationInv, JobInv
<1>3. /\ e \in Entry /\ e.representation = "source" /\ e.kind = "disk"
      /\ e.number = published /\ e.stat = job.stat
  BY <1>1, <1>2, MadeType DEF Representations
<1> HIDE DEF e
<1>4. /\ job' \in Job /\ job'.made = {e} /\ job'.dropped = {} /\ job'.step = "placed"
      /\ job'.stat = job.stat
  BY <1>1, <1>2, <1>3 DEF Job
<1>5. published' = published
  BY <1>1 DEF Goes
<1>6. Sourced'
  BY <1>3, <1>4 DEF Sourced, OnDisk
<1>7. JobInv'
  BY <1>2, <1>3, <1>4, <1>5, <1>6 DEF JobInv
<1> QED BY <1>1, <1>4, <1>7, JobSteps

LEMMA StartReadingInv == ASSUME PublicationInv, StartReading PROVE PublicationInv'
<1>1. /\ Goes /\ job # None /\ job.step = "stat" /\ job \in Job /\ disk \in Version
      /\ job' = [job EXCEPT !.step = "reading", !.bytes = disk] /\ disk = job.stat
      /\ published' = published
  BY DEF StartReading, Going, PublicationInv, TypeOK, Goes
<1>2. /\ job' \in Job /\ job'.made = job.made /\ job'.dropped = job.dropped
      /\ job'.step = "reading" /\ job'.stat = job.stat /\ job'.bytes = job.stat
  BY <1>1 DEF Job
<1>3. JobInv'
  BY <1>1, <1>2 DEF PublicationInv, JobInv
<1> QED BY <1>1, <1>2, <1>3, JobSteps

\* What was read between two equal stats is of their version.
LEMMA FinishReadingInv == ASSUME PublicationInv, FinishReading PROVE PublicationInv'
<1> DEFINE e == Made("source", "shared", disk)
<1>1. /\ Goes /\ job # None /\ job.step = "reading" /\ job \in Job /\ disk \in Version
      /\ published' = published /\ disk = job.stat
  BY DEF FinishReading, Unchanged, Going, PublicationInv, TypeOK, Goes
<1>2. job.bytes = job.stat /\ job.dropped = {} /\ published \in 1..MaxPublished
  BY <1>1 DEF PublicationInv, JobInv
<1>3. job' = [job EXCEPT !.step = "placed", !.bytes = disk, !.made = {e}]
  BY <1>1, <1>2 DEF FinishReading
<1>4. /\ e \in Entry /\ e.representation = "source" /\ e.kind = "shared"
      /\ e.number = published /\ e.stat = job.stat /\ e.bytes = job.stat
  BY <1>1, MadeType DEF Representations
<1> HIDE DEF e
<1>5. /\ job' \in Job /\ job'.made = {e} /\ job'.dropped = {} /\ job'.step = "placed"
      /\ job'.stat = job.stat /\ job'.bytes = job.stat
  BY <1>1, <1>2, <1>3, <1>4 DEF Job
<1>6. Sourced'
  BY <1>4, <1>5 DEF Sourced, OnDisk
<1>7. JobInv'
  BY <1>1, <1>2, <1>4, <1>5, <1>6 DEF JobInv
<1> QED BY <1>1, <1>5, <1>7, JobSteps

\* A step that derives companions from the input and drops the others it tried.
LEMMA DeriveInv ==
  ASSUME PublicationInv, Goes, job # None, job.step \in {"placed", "compiled"},
         NEW C \in SUBSET Companions, NEW made \in SUBSET C, NEW rest \in SUBSET Companions,
         NEW step \in {"compiled", "built"}, made # {} => InputReadable,
         job' = [job EXCEPT !.step = step, !.dropped = rest,
                            !.made = @ \cup {Made(r, "shared", Input) : r \in made}]
  PROVE  /\ job' \in Job
         /\ job'.step = step /\ job'.dropped = rest /\ job'.stat = job.stat
         /\ job'.bytes = job.bytes
         /\ job.made \subseteq job'.made
         /\ \A r \in made : \E e \in job'.made : e.representation = r
         /\ \A e \in job'.made : e \in job.made \/ e.representation \in made
         /\ \A e \in job'.made : e.number = published /\ e.stat = job.stat
         /\ Sourced'
<1> DEFINE new == {Made(r, "shared", Input) : r \in made}
<1>1. job \in Job /\ Sourced /\ published' = published /\ "source" \notin Companions
  BY NamesAssumption DEF PublicationInv, TypeOK, JobInv, Goes, Companions
<1>2. Input \in Version \cup {Torn} /\ (~OnDisk => Input = job.stat)
  BY <1>1 DEF Input, Sourced, PublicationInv, TypeOK, Job
<1>3. \A r \in made :
        /\ Made(r, "shared", Input) \in Entry
        /\ Made(r, "shared", Input).representation = r /\ Made(r, "shared", Input).kind = "shared"
        /\ Made(r, "shared", Input).number = published
        /\ Made(r, "shared", Input).stat = job.stat /\ Made(r, "shared", Input).bytes = Input
  BY <1>2, MadeType DEF Representations
<1>4. \A e \in new : e \in Entry /\ e.representation \in made /\ e.kind = "shared"
                     /\ e.number = published /\ e.stat = job.stat /\ e.bytes = Input
  BY <1>3
<1>5. \A r \in made : \E e \in new : e.representation = r
  BY <1>3
<1> HIDE DEF new
<1>6. /\ job' \in Job /\ job'.step = step /\ job'.dropped = rest /\ job'.stat = job.stat
      /\ job'.bytes = job.bytes /\ job'.made = job.made \cup new
  <2>1. new \subseteq Entry
    BY <1>4
  <2>2. job' = [job EXCEPT !.step = step, !.dropped = rest, !.made = @ \cup new]
    BY DEF new
  <2> QED BY <1>1, <2>1, <2>2 DEF Job
<1>7. OnDisk' <=> OnDisk
  BY <1>4, <1>6 DEF OnDisk
<1>8. \A e \in job'.made : e.number = published /\ e.stat = job.stat
  BY <1>4, <1>6 DEF PublicationInv, JobInv
<1>9. Sourced'
  BY <1>1, <1>2, <1>4, <1>6, <1>7 DEF Sourced
<1> QED BY <1>4, <1>5, <1>6, <1>8, <1>9

LEMMA CompileInv == ASSUME PublicationInv, Compile PROVE PublicationInv'
<1>1. /\ Goes /\ job # None /\ job.step = "placed" /\ published' = published /\ policy' = policy
      /\ Flavors # {} => InputReadable
  BY DEF Compile, Going, Goes
<1>2. Flavors \in SUBSET Companions
  BY DEF Flavors, Companions
<1>3. PICK made \in SUBSET Flavors :
        /\ "script" \in Flavors => "script" \in made
        /\ job' = [job EXCEPT !.step = "compiled", !.dropped = Flavors \ made,
                              !.made = @ \cup {Made(r, "shared", Input) : r \in made}]
  BY DEF Compile
<1>4. made # {} => InputReadable
  BY <1>1, <1>3
<1>5. Flavors \ made \in SUBSET Companions
  BY SMTT(30), <1>2
<1>6. /\ job' \in Job
      /\ job'.step = "compiled" /\ job'.dropped = Flavors \ made /\ job'.stat = job.stat
      /\ \A r \in made : \E e \in job'.made : e.representation = r
      /\ \A e \in job'.made : e \in job.made \/ e.representation \in made
      /\ \A e \in job'.made : e.number = published /\ e.stat = job.stat
      /\ Sourced'
  BY <1>1, <1>2, <1>3, <1>4, <1>5, DeriveInv
<1>7. \A e \in job.made : e.representation = "source"
  BY <1>1 DEF PublicationInv, JobInv
<1>8. Flavors' = Flavors
  BY <1>1 DEF Flavors
<1>9. Tried(Flavors)'
  BY <1>3, <1>6, <1>7, <1>8 DEF Tried
<1>10. JobInv'
  BY <1>1, <1>6, <1>9 DEF PublicationInv, JobInv
<1> QED BY <1>1, <1>6, <1>10, JobSteps

LEMMA CompressInv == ASSUME PublicationInv, Compress PROVE PublicationInv'
<1>1. /\ Goes /\ job # None /\ job.step = "compiled" /\ published' = published /\ policy' = policy
  BY DEF Compress, Going, Goes
<1>2. Codecs \in SUBSET Companions /\ job.dropped \subseteq Companions
  BY SMTT(30), <1>1 DEF Companions, PublicationInv, TypeOK, Job
<1>3. PICK made \in SUBSET Codecs :
        /\ made # {} => InputReadable
        /\ job' = [job EXCEPT !.step = "built", !.dropped = @ \cup (Codecs \ made),
                              !.made = @ \cup {Made(r, "shared", Input) : r \in made}]
  BY DEF Compress
<1>4. job.dropped \cup (Codecs \ made) \in SUBSET Companions
  BY <1>2
<1>5. job' = [job EXCEPT !.step = "built", !.dropped = job.dropped \cup (Codecs \ made),
                         !.made = @ \cup {Made(r, "shared", Input) : r \in made}]
  BY SMTT(30), <1>3
<1>6. /\ job' \in Job
      /\ job'.step = "built" /\ job'.dropped = job.dropped \cup (Codecs \ made)
      /\ job'.stat = job.stat /\ job.made \subseteq job'.made
      /\ \A r \in made : \E e \in job'.made : e.representation = r
      /\ \A e \in job'.made : e \in job.made \/ e.representation \in made
      /\ \A e \in job'.made : e.number = published /\ e.stat = job.stat
      /\ Sourced'
  BY <1>1, <1>2, <1>3, <1>4, <1>5, DeriveInv
<1>7. Tried(Flavors)
  BY <1>1 DEF PublicationInv, JobInv
<1>8. Flavors' = Flavors
  BY <1>1 DEF Flavors
<1>9. Tried(Flavors \cup Codecs)'
  BY <1>6, <1>7, <1>8 DEF Tried
<1>10. JobInv'
  BY <1>1, <1>6, <1>9 DEF PublicationInv, JobInv
<1> QED BY <1>1, <1>6, <1>10, JobSteps

LEMMA FailInv == ASSUME PublicationInv, Fail PROVE PublicationInv'
<1>1. Goes /\ job # None /\ job' = None
  BY DEF Fail
<1>2. JobInv'
  BY <1>1 DEF JobInv
<1> QED BY <1>1, <1>2, JobSteps

-----------------------------------------------------------------------------
(* Commits. *)

\* A commit of entries that are new or stay where they are.
LEMMA CommitInv ==
  ASSUME PublicationInv, NEW next \in [Representations -> Entry \cup {None}], Commit(next),
         job' = None, UNCHANGED <<policy, open, disk, there, published, counts, readers>>,
         \A r \in Representations : next[r] # None =>
           \/ next[r] = index[r]
           \/ job # None /\ next[r].representation = r /\ next[r].number = published,
         \A r \in Companions \ (Flavors \cup Codecs) : next[r] = None,
         CompanionsMatch'
  PROVE  PublicationInv'
<1> DEFINE gone == Retired(next)
<1>1. /\ index' = next /\ past' = past \cup gone
      /\ bound' = bound \cup (gone \cap DOMAIN counts)
      /\ freed' = freed \cup (gone \ (gone \cap DOMAIN counts))
  BY DEF Commit
<1>2. \A e \in gone : \E r \in Representations : e = index[r] /\ index[r] # next[r] /\ index[r] # None
  BY DEF Retired
<1>3. gone \subseteq Entry
  BY <1>2 DEF PublicationInv, TypeOK
<1> HIDE DEF gone
<1>4. TypeOK'
  BY <1>1, <1>3 DEF PublicationInv, TypeOK
<1>5. JobInv'
  BY DEF JobInv
<1>6. IndexInv'
  <2>1. \A e \in Entry : Old(e) => Old(e)'
    BY DEF Old
  <2>2. /\ \A e \in past : e \in Entry /\ Old(e)
        /\ \A e \in gone : Old(e)
    BY <1>2 DEF PublicationInv, IndexInv, TypeOK
  <2>3. \A e \in past' : Old(e)'
    BY <1>1, <1>3, <2>1, <2>2
  <2>4. ASSUME NEW r \in Representations, next[r] # None
        PROVE  next[r].representation = r /\ next[r] \notin past' /\ Old(next[r])'
    <3>1. CASE next[r] = index[r]
      <4>1. index[r].representation = r /\ index[r] \notin past /\ Old(index[r]) /\ index[r] \in Entry
        BY <2>4, <3>1 DEF PublicationInv, IndexInv, TypeOK
      <4>2. index[r] \notin gone
        BY <1>2, <3>1, <4>1 DEF PublicationInv, IndexInv
      <4> QED BY <1>1, <2>1, <3>1, <4>1, <4>2
    <3>2. CASE job # None /\ next[r].representation = r /\ next[r].number = published
      <4>1. \A e \in past' : e.number < published
        BY <1>1, <2>2, <3>2 DEF Old
      <4>2. published \in Nat
        BY BoundsAssumption DEF PublicationInv, TypeOK
      <4>3. next[r] \notin past'
        BY <3>2, <4>1, <4>2
      <4> QED BY <3>2, <4>2, <4>3 DEF Old
    <3> QED BY <2>4, <3>1, <3>2
  <2> QED BY <1>1, <2>3, <2>4 DEF IndexInv, Flavors
<1>7. ReaderInv'
  <2>1. \A e : Holders(e)' = Holders(e)
    BY DEF Holders
  <2> QED BY <1>1, <2>1 DEF PublicationInv, ReaderInv
<1> QED BY <1>4, <1>5, <1>6, <1>7 DEF PublicationInv

LEMMA StagedEntries ==
  ASSUME PublicationInv, Going("built"), NEW r \in Representations
  PROVE  /\ (\E e \in job.made : e.representation = r) =>
              /\ Staged[r] \in job.made /\ Staged[r].representation = r
              /\ Staged[r] \in Entry /\ Staged[r] # None
              /\ Staged[r].number = published /\ Staged[r].stat = job.stat
         /\ ~(\E e \in job.made : e.representation = r) =>
              Staged[r] = IF r \in job.dropped THEN None ELSE index[r]
<1>1. job # None /\ job \in Job
  BY DEF Going, PublicationInv, TypeOK
<1>2. ASSUME \E e \in job.made : e.representation = r
      PROVE  Staged[r] \in job.made /\ Staged[r].representation = r
  BY <1>2 DEF Staged
<1>3. ~(\E e \in job.made : e.representation = r) =>
        Staged[r] = IF r \in job.dropped THEN None ELSE index[r]
  BY DEF Staged
<1>4. job.made \subseteq Entry
  BY <1>1 DEF Job
<1>5. \A e \in job.made : e.number = published /\ e.stat = job.stat
  BY <1>1 DEF PublicationInv, JobInv
<1> QED BY <1>2, <1>3, <1>4, <1>5, BoundsAssumption

LEMMA FlushInv == ASSUME PublicationInv, Flush PROVE PublicationInv'
<1>1. /\ Going("built") /\ job # None /\ job.step = "built" /\ Commit(Staged) /\ job' = None
      /\ UNCHANGED <<policy, open, disk, there, published, counts, readers>>
  BY DEF Flush, Going
<1>2. Sourced /\ Tried(Flavors \cup Codecs)
  BY <1>1 DEF PublicationInv, JobInv
<1>3. index \in [Representations -> Entry \cup {None}]
  BY DEF PublicationInv, TypeOK
<1>4. Staged \in [Representations -> Entry \cup {None}]
  <2>1. Staged = [r \in Representations |-> Staged[r]]
    BY DEF Staged
  <2>2. \A r \in Representations : Staged[r] \in Entry \cup {None}
    BY <1>1, <1>3, StagedEntries
  <2> QED BY <2>1, <2>2
<1>5. \A r \in Representations : Staged[r] # None =>
        \/ Staged[r] = index[r]
        \/ job # None /\ Staged[r].representation = r /\ Staged[r].number = published
  BY <1>1, StagedEntries
<1>6. "source" \notin Companions
  BY NamesAssumption DEF Companions
<1>7. \A r \in Companions \ (Flavors \cup Codecs) : Staged[r] = None
  <2> SUFFICES ASSUME NEW r \in Companions, r \notin Flavors \cup Codecs PROVE Staged[r] = None
    OBVIOUS
  <2>1. r \in Representations /\ index[r] = None
    BY DEF PublicationInv, IndexInv, Representations
  <2>2. ~(\E e \in job.made : e.representation = r)
    BY <1>2, <1>6 DEF Tried
  <2> QED BY <1>1, <2>1, <2>2, StagedEntries
<1>8. index' = Staged /\ Flavors' = Flavors
  BY <1>1 DEF Commit, Flavors
<1>9. CompanionsMatch'
  <2>1. "source" \in Representations /\ Companions \subseteq Representations
    BY DEF Representations
  <2>2. /\ Staged["source"] \in job.made /\ Staged["source"].representation = "source"
        /\ Staged["source"] # None /\ Staged["source"].stat = job.stat
    BY <1>1, <1>2, <2>1, StagedEntries DEF Sourced
  <2>3. ASSUME Staged["source"].kind = "shared"
        PROVE  \A e \in job.made : e.bytes = job.stat
    BY <1>2, <2>2, <2>3 DEF Sourced
  <2>4. "script" \in Flavors => Staged["script"] # None
    <3>1. "script" \in Flavors => "script" \in Representations
      BY DEF Flavors, Representations, Companions
    <3> QED BY <1>1, <1>2, <3>1, StagedEntries DEF Tried
  <2>5. ASSUME NEW r \in Companions, Staged[r] # None
        PROVE  Staged[r] \in job.made
    BY <1>1, <1>2, <1>7, <2>1, <2>5, StagedEntries DEF Tried
  <2> QED BY <1>8, <2>2, <2>3, <2>4, <2>5 DEF CompanionsMatch
<1> QED BY <1>1, <1>4, <1>5, <1>7, <1>9, CommitInv

LEMMA UnpublishInv == ASSUME PublicationInv, Unpublish PROVE PublicationInv'
<1> DEFINE next == [r \in Representations |-> None]
<1>1. /\ Commit(next) /\ job' = None
      /\ UNCHANGED <<policy, open, disk, there, published, counts, readers>>
  BY DEF Unpublish
<1>2. next \in [Representations -> Entry \cup {None}] /\ \A r \in Representations : next[r] = None
  OBVIOUS
<1>3. "source" \in Representations /\ Companions \subseteq Representations
  BY DEF Representations
<1>4. index' = next
  BY <1>1 DEF Commit
<1> HIDE DEF next
<1>5. CompanionsMatch'
  BY <1>2, <1>3, <1>4 DEF CompanionsMatch
<1> QED BY <1>1, <1>2, <1>3, <1>5, CommitInv

-----------------------------------------------------------------------------
(* Readers. *)

\* What leaves the files, the job and the pins' targets as they are.
LEMMA ReaderSteps ==
  ASSUME PublicationInv, UNCHANGED <<policy, open, disk, there, index, job, published, past>>,
         readers' \in [Readers -> Reader \cup {None}],
         freed' \subseteq past, bound' \subseteq DOMAIN counts',
         \A e \in DOMAIN counts' : e \in Entry /\ counts'[e] \in 1..Cardinality(Readers),
         ReaderInv'
  PROVE  PublicationInv'
<1>1. TypeOK'
  BY DEF PublicationInv, TypeOK
<1>2. JobInv' /\ IndexInv' /\ CompanionsMatch'
  BY DEF PublicationInv, JobInv, IndexInv, CompanionsMatch, Sourced, OnDisk, Tried, Flavors, Old
<1> QED BY <1>1, <1>2 DEF PublicationInv

\* A number of holders that is counted is one a pin may have.
LEMMA Counted ==
  ASSUME NEW S \in SUBSET Readers
  PROVE  /\ IsFiniteSet(S) /\ Cardinality(S) \in Nat
         /\ Cardinality(S) <= Cardinality(Readers) /\ Cardinality(Readers) \in Nat
         /\ S # {} => Cardinality(S) \in 1..Cardinality(Readers)
         /\ \A r \in Readers \ S : Cardinality(S \cup {r}) = Cardinality(S) + 1
         /\ \A r \in S : Cardinality(S \ {r}) = Cardinality(S) - 1
         /\ \A r \in S : (S \ {r} = {}) <=> (Cardinality(S) = 1)
<1>1. /\ IsFiniteSet(S) /\ Cardinality(S) \in Nat
      /\ Cardinality(S) <= Cardinality(Readers) /\ Cardinality(Readers) \in Nat
  BY BoundsAssumption, FS_Subset, FS_CardinalityType
<1>2. S # {} => Cardinality(S) # 0
  BY <1>1, FS_EmptySet
<1>3. \A r \in Readers \ S : Cardinality(S \cup {r}) = Cardinality(S) + 1
  BY <1>1, FS_AddElement
<1>4. ASSUME NEW r \in S
      PROVE  /\ IsFiniteSet(S \ {r}) /\ Cardinality(S \ {r}) = Cardinality(S) - 1
             /\ (S \ {r} = {}) <=> (Cardinality(S \ {r}) = 0)
  <2>1. IsFiniteSet(S \ {r}) /\ Cardinality(S \ {r}) = Cardinality(S) - 1
    BY <1>1, FS_RemoveElement
  <2> QED BY <2>1, FS_EmptySet
<1>5. S # {} => Cardinality(S) \in 1..Cardinality(Readers)
  BY <1>1, <1>2
<1>6. \A r \in S : (S \ {r} = {}) <=> (Cardinality(S) = 1)
  <2> SUFFICES ASSUME NEW r \in S PROVE (S \ {r} = {}) <=> (Cardinality(S) = 1)
    OBVIOUS
  <2>1. Cardinality(S \ {r}) = Cardinality(S) - 1 /\ ((S \ {r} = {}) <=> (Cardinality(S \ {r}) = 0))
    BY <1>4
  <2> QED BY <1>1, <2>1
<1>7. \A r \in S : Cardinality(S \ {r}) = Cardinality(S) - 1
  BY <1>4
<1> QED BY <1>1, <1>3, <1>5, <1>6, <1>7

LEMMA HoldersType == \A e : Holders(e) \in SUBSET Readers
  BY DEF Holders

\* A reader comes: its entry is the published one, so it is none that was replaced.
LEMMA AcquireInv ==
  ASSUME PublicationInv, NEW r \in Readers, NEW q \in Representations,
         NEW kind \in {"owned", "borrowed", "lease"}, Acquire(r, q, kind)
  PROVE  PublicationInv'
<1> SUFFICES ASSUME NEW e, e = index[q] PROVE PublicationInv'
  OBVIOUS
<1> DEFINE new == [entry |-> e, kind |-> kind, held |-> TRUE, destroyed |-> kind = "lease",
                   released |-> FALSE]
<1>1. /\ open /\ readers[r] = None /\ e # None
      /\ readers' = [readers EXCEPT ![r] = new]
      /\ counts' = Pinned(e, 1)
      /\ UNCHANGED <<policy, open, disk, there, index, job, published, past, freed, bound>>
  BY DEF Acquire
<1>2. e \in Entry /\ e \notin past
  BY <1>1 DEF PublicationInv, TypeOK, IndexInv
<1>3. new \in Reader /\ new # None
  <2>1. (kind = "lease") \in BOOLEAN
    OBVIOUS
  <2>2. new \in Reader
    BY <1>2, <2>1 DEF Reader
  <2> QED BY <2>2, BoundsAssumption
<1>4. new.entry = e /\ new.held /\ new.kind = kind /\ ~new.released
      /\ (kind = "owned" => ~new.destroyed)
  OBVIOUS
<1> HIDE DEF new
<1>5. /\ readers' \in [Readers -> Reader \cup {None}] /\ readers'[r] = new
      /\ \A s \in Readers \ {r} : readers'[s] = readers[s]
  BY <1>1, <1>3 DEF PublicationInv, TypeOK
<1>6. /\ Holders(e)' = Holders(e) \cup {r} /\ r \notin Holders(e)
      /\ \A d : d # e => Holders(d)' = Holders(d)
  BY <1>1, <1>3, <1>4, <1>5 DEF Holders
<1>7. DOMAIN counts' = DOMAIN counts \cup {e}
  BY <1>1 DEF Pinned
<1>8. /\ DOMAIN counts = {d \in Entry : Holders(d) # {}}
      /\ \A d \in DOMAIN counts : counts[d] = Cardinality(Holders(d))
  BY <1>1 DEF PublicationInv, ReaderInv
<1>9. counts'[e] = Cardinality(Holders(e)')
  <2>1. Cardinality(Holders(e)') = Cardinality(Holders(e)) + 1 /\ Cardinality(Holders(e)) \in Nat
    BY <1>6, HoldersType, Counted
  <2>2. e \notin DOMAIN counts => Cardinality(Holders(e)) = 0
    BY <1>2, <1>8, FS_EmptySet
  <2>3. counts'[e] = IF e \in DOMAIN counts THEN counts[e] + 1 ELSE 1
    BY <1>1 DEF Pinned
  <2> QED BY <1>8, <2>1, <2>2, <2>3
<1>10. \A d \in DOMAIN counts' : d # e => counts'[d] = Cardinality(Holders(d)')
  BY <1>1, <1>6, <1>7, <1>8 DEF Pinned
<1>11. DOMAIN counts' = {d \in Entry : Holders(d)' # {}}
  BY <1>2, <1>6, <1>7, <1>8
<1>12. \A d \in DOMAIN counts' : d \in Entry /\ counts'[d] \in 1..Cardinality(Readers)
  <2> SUFFICES ASSUME NEW d \in DOMAIN counts'
               PROVE  d \in Entry /\ counts'[d] \in 1..Cardinality(Readers)
    OBVIOUS
  <2>1. d \in Entry /\ Holders(d)' # {} /\ counts'[d] = Cardinality(Holders(d)')
    BY <1>9, <1>10, <1>11
  <2>2. Holders(d)' \in SUBSET Readers
    BY DEF Holders
  <2> QED BY <2>1, <2>2, Counted
<1>13. ReaderInv'
  <2>1. bound' = past' \cap DOMAIN counts' /\ freed' = past' \ DOMAIN counts'
    BY <1>1, <1>2, <1>7 DEF PublicationInv, ReaderInv
  <2>2. \A s \in Readers : readers'[s] # None =>
          (readers'[s].held <=> IF readers'[s].kind = "owned" THEN ~readers'[s].destroyed
                                ELSE ~readers'[s].released)
    BY <1>1, <1>4, <1>5 DEF PublicationInv, ReaderInv
  <2>3. \A d \in DOMAIN counts' : counts'[d] = Cardinality(Holders(d)')
    BY <1>9, <1>10
  <2> QED BY <1>1, <1>11, <2>1, <2>2, <2>3 DEF ReaderInv
<1>14. freed' \subseteq past /\ bound' \subseteq DOMAIN counts'
  BY <1>1, <1>7 DEF PublicationInv, TypeOK
<1> QED BY <1>1, <1>5, <1>12, <1>13, <1>14, ReaderSteps

\* A reader that stops holding, or did not hold any more.
LEMMA ReleasesInv ==
  ASSUME PublicationInv, NEW r \in Readers, readers[r] # None, Releases(r),
         UNCHANGED <<policy, open, disk, there, index, job, published, past>>,
         readers' \in [Readers -> Reader \cup {None}],
         \A s \in Readers \ {r} : readers'[s] = readers[s],
         readers'[r] # None, ~readers'[r].held, readers'[r].entry = readers[r].entry,
         IF readers'[r].kind = "owned" THEN readers'[r].destroyed ELSE readers'[r].released
  PROVE  PublicationInv'
<1> DEFINE e == readers[r].entry
<1>1. e \in Entry
  BY DEF PublicationInv, TypeOK, Reader
<1>2. /\ \A d : Holders(d)' = Holders(d) \ {r}
      /\ \A d : r \in Holders(d) <=> readers[r].held /\ d = e
  BY DEF Holders
<1>3. \A s \in Readers : open /\ readers'[s] # None =>
        (readers'[s].held <=> IF readers'[s].kind = "owned" THEN ~readers'[s].destroyed
                              ELSE ~readers'[s].released)
  BY DEF PublicationInv, ReaderInv
<1>4. CASE UNCHANGED <<counts, bound, freed>> /\ (readers[r].held => ~open)
  <2>1. open => \A d : Holders(d)' = Holders(d)
    BY <1>2, <1>4
  <2>2. ReaderInv'
    BY <1>3, <1>4, <2>1 DEF PublicationInv, ReaderInv
  <2>3. /\ freed' \subseteq past /\ bound' \subseteq DOMAIN counts'
        /\ \A d \in DOMAIN counts' : d \in Entry /\ counts'[d] \in 1..Cardinality(Readers)
    BY <1>4 DEF PublicationInv, TypeOK
  <2> QED BY <2>2, <2>3, ReaderSteps
<1>5. CASE open /\ readers[r].held
  <2>1. /\ DOMAIN counts = {d \in Entry : Holders(d) # {}}
        /\ \A d \in DOMAIN counts : counts[d] = Cardinality(Holders(d))
        /\ bound = past \cap DOMAIN counts /\ freed = past \ DOMAIN counts
    BY <1>5 DEF PublicationInv, ReaderInv
  <2>2. r \in Holders(e) /\ e \in DOMAIN counts
    BY <1>1, <1>2, <1>5, <2>1
  <2>3. Drop(e)
    BY <1>5 DEF Releases
  <2>4. /\ Cardinality(Holders(e)) \in Nat /\ Cardinality(Holders(e)) >= 1
        /\ Cardinality(Holders(e) \ {r}) = Cardinality(Holders(e)) - 1
        /\ Holders(e) \ {r} = {} <=> Cardinality(Holders(e)) = 1
    BY <2>2, HoldersType, Counted
  <2>5. \A d : d # e => Holders(d)' = Holders(d)
    BY <1>2
  <2>6. Holders(e)' = Holders(e) \ {r}
    BY <1>2
  <2>7. CASE counts[e] > 1
    <3>1. counts' = [counts EXCEPT ![e] = @ - 1] /\ UNCHANGED <<bound, freed>>
      BY <2>2, <2>3, <2>7 DEF Drop
    <3>2. DOMAIN counts' = DOMAIN counts
      BY <3>1
    <3>3. \A d \in DOMAIN counts' : d # e => counts'[d] = Cardinality(Holders(d)')
      BY <2>1, <2>5, <3>1
    <3>4. counts'[e] = Cardinality(Holders(e)') /\ Holders(e)' # {}
      BY <2>1, <2>2, <2>4, <2>6, <2>7, <3>1
    <3>5. DOMAIN counts' = {d \in Entry : Holders(d)' # {}}
      BY <2>1, <2>2, <2>5, <3>2, <3>4
    <3>6. \A d \in DOMAIN counts' : d \in Entry /\ counts'[d] \in 1..Cardinality(Readers)
      <4>1. \A d : Holders(d)' \in SUBSET Readers
        BY <1>2, HoldersType
      <4> QED BY <3>3, <3>4, <3>5, <4>1, Counted
    <3>7. ReaderInv'
      BY <1>3, <1>5, <2>1, <3>1, <3>2, <3>3, <3>4, <3>5 DEF ReaderInv
    <3> QED BY <3>1, <3>2, <3>6, <3>7, ReaderSteps DEF PublicationInv, TypeOK
  <2>8. CASE ~(counts[e] > 1)
    <3>1. /\ counts' = [d \in DOMAIN counts \ {e} |-> counts[d]]
          /\ bound' = bound \ {e} /\ freed' = freed \cup (bound \cap {e})
      BY <2>2, <2>3, <2>8 DEF Drop
    <3>2. Holders(e)' = {}
      BY <2>1, <2>2, <2>4, <2>6, <2>8
    <3>3. DOMAIN counts' = DOMAIN counts \ {e}
      BY <3>1
    <3>4. \A d \in DOMAIN counts' : counts'[d] = Cardinality(Holders(d)') /\ counts'[d] = counts[d]
      BY <2>1, <2>5, <3>1
    <3>5. DOMAIN counts' = {d \in Entry : Holders(d)' # {}}
      BY <2>1, <2>5, <3>2, <3>3
    <3>6. bound' = past' \cap DOMAIN counts' /\ freed' = past' \ DOMAIN counts'
      BY <2>1, <2>2, <3>1, <3>3
    <3>7. ReaderInv'
      BY <1>3, <1>5, <3>4, <3>5, <3>6 DEF ReaderInv
    <3>8. \A d \in DOMAIN counts' : d \in Entry /\ counts'[d] \in 1..Cardinality(Readers)
      BY <3>3, <3>4 DEF PublicationInv, TypeOK
    <3> QED BY <3>6, <3>7, <3>8, ReaderSteps
  <2> QED BY <2>7, <2>8
<1>6. CASE ~open
  <2>1. DOMAIN counts = {}
    BY <1>6 DEF PublicationInv, ReaderInv
  <2>2. UNCHANGED <<counts, bound, freed>>
    BY <2>1 DEF Releases, Drop
  <2> QED BY <1>4, <1>6, <2>2
<1>7. CASE ~readers[r].held
  BY <1>4, <1>7 DEF Releases
<1> QED BY <1>5, <1>6, <1>7

LEMMA DestroyInv ==
  ASSUME PublicationInv, NEW r \in Readers, Destroy(r)
  PROVE  PublicationInv'
<1>1. /\ readers[r] # None /\ readers[r] \in Reader
      /\ UNCHANGED <<policy, open, disk, there, index, job, published, past>>
  BY DEF Destroy, PublicationInv, TypeOK
<1>2. CASE readers[r].kind = "owned"
  <2> DEFINE new == [readers[r] EXCEPT !.destroyed = TRUE, !.held = FALSE]
  <2>1. Releases(r) /\ readers' = [readers EXCEPT ![r] = new]
    BY <1>1, <1>2 DEF Destroy, PublicationInv, TypeOK
  <2>2. /\ new \in Reader /\ ~new.held /\ new.entry = readers[r].entry /\ new.kind = "owned"
        /\ new.destroyed
    BY <1>1, <1>2 DEF Reader
  <2>3. new # None
    BY <2>2, BoundsAssumption
  <2> HIDE DEF new
  <2>4. /\ readers' \in [Readers -> Reader \cup {None}] /\ readers'[r] = new
        /\ \A s \in Readers \ {r} : readers'[s] = readers[s]
    BY <2>1, <2>2 DEF PublicationInv, TypeOK
  <2> QED BY <1>1, <2>1, <2>2, <2>3, <2>4, ReleasesInv
<1>3. CASE readers[r].kind # "owned"
  <2> DEFINE new == [readers[r] EXCEPT !.destroyed = TRUE]
  <2>1. UNCHANGED <<counts, bound, freed>> /\ readers' = [readers EXCEPT ![r] = new]
    BY <1>1, <1>3 DEF Destroy, PublicationInv, TypeOK
  <2>2. /\ new \in Reader /\ new.held = readers[r].held /\ new.entry = readers[r].entry
        /\ new.kind = readers[r].kind /\ new.released = readers[r].released
    BY <1>1 DEF Reader
  <2>3. new # None
    BY <2>2, BoundsAssumption
  <2> HIDE DEF new
  <2>4. /\ readers' \in [Readers -> Reader \cup {None}] /\ readers'[r] = new
        /\ \A s \in Readers \ {r} : readers'[s] = readers[s]
    BY <2>1, <2>2 DEF PublicationInv, TypeOK
  <2>5. \A e : Holders(e)' = Holders(e)
    BY <1>1, <2>2, <2>3, <2>4 DEF Holders
  <2>6. \A s \in Readers : open /\ readers'[s] # None =>
          (readers'[s].held <=> IF readers'[s].kind = "owned" THEN ~readers'[s].destroyed
                                ELSE ~readers'[s].released)
    BY <1>1, <1>3, <2>2, <2>4 DEF PublicationInv, ReaderInv
  <2>7. ReaderInv'
    BY <1>1, <2>1, <2>5, <2>6 DEF PublicationInv, ReaderInv
  <2>8. /\ freed' \subseteq past /\ bound' \subseteq DOMAIN counts'
        /\ \A d \in DOMAIN counts' : d \in Entry /\ counts'[d] \in 1..Cardinality(Readers)
    BY <2>1 DEF PublicationInv, TypeOK
  <2> QED BY <1>1, <2>4, <2>7, <2>8, ReaderSteps
<1> QED BY <1>2, <1>3

LEMMA ReleaseInv ==
  ASSUME PublicationInv, NEW r \in Readers, Release(r)
  PROVE  PublicationInv'
<1> DEFINE new == [readers[r] EXCEPT !.destroyed = TRUE, !.released = TRUE, !.held = FALSE]
<1>1. /\ readers[r] # None /\ readers[r] \in Reader /\ Releases(r)
      /\ UNCHANGED <<policy, open, disk, there, index, job, published, past>>
      /\ readers' = [readers EXCEPT ![r] = new]
  BY DEF Release, PublicationInv, TypeOK
<1>2. /\ new \in Reader /\ ~new.held /\ new.entry = readers[r].entry
      /\ new.destroyed /\ new.released
  BY <1>1 DEF Reader
<1>3. new # None
  BY <1>2, BoundsAssumption
<1> HIDE DEF new
<1>4. /\ readers' \in [Readers -> Reader \cup {None}] /\ readers'[r] = new
      /\ \A s \in Readers \ {r} : readers'[s] = readers[s]
  BY <1>1, <1>2 DEF PublicationInv, TypeOK
<1> QED BY <1>1, <1>2, <1>3, <1>4, ReleasesInv

LEMMA CloseInv == ASSUME PublicationInv, Close PROVE PublicationInv'
<1>1. /\ open' = FALSE /\ index' = [r \in Representations |-> None]
      /\ DOMAIN counts' = {} /\ bound' = {}
      /\ UNCHANGED <<policy, disk, there, job, published, past, freed>>
  BY DEF Close
<1>2. readers' \in [Readers -> Reader \cup {None}]
  <2>1. ASSUME NEW r \in Readers, readers[r] # None
        PROVE  [readers[r] EXCEPT !.destroyed = TRUE,
                                  !.held = @ /\ readers[r].kind # "owned"] \in Reader
    <3>1. readers[r] \in Reader
      BY <2>1 DEF PublicationInv, TypeOK
    <3>2. (readers[r].held /\ readers[r].kind # "owned") \in BOOLEAN
      OBVIOUS
    <3> QED BY <3>1, <3>2 DEF Reader
  <2> QED BY <2>1 DEF Close
<1>3. TypeOK'
  BY <1>1, <1>2 DEF PublicationInv, TypeOK
<1>4. "source" \in Representations /\ Companions \subseteq Representations
  BY DEF Representations
<1>5. JobInv' /\ IndexInv' /\ CompanionsMatch'
  BY <1>1, <1>4
     DEF PublicationInv, JobInv, IndexInv, CompanionsMatch, Sourced, OnDisk, Tried, Flavors, Old
<1>6. ReaderInv'
  BY <1>1 DEF ReaderInv
<1> QED BY <1>3, <1>5, <1>6 DEF PublicationInv

-----------------------------------------------------------------------------
(* The invariant. *)

LEMMA InitInv == ASSUME Init PROVE PublicationInv
<1>1. "source" \in Representations /\ Companions \subseteq Representations
  BY DEF Representations
<1>2. TypeOK
  BY BoundsAssumption DEF Init, TypeOK, Version
<1>3. JobInv /\ IndexInv /\ CompanionsMatch
  BY <1>1 DEF Init, JobInv, IndexInv, CompanionsMatch
<1>4. \A e : Holders(e) = {}
  BY DEF Init, Holders
<1>5. ReaderInv
  BY <1>4 DEF Init, ReaderInv
<1> QED BY <1>2, <1>3, <1>5 DEF PublicationInv

LEMMA PublicationInductive == Spec => []PublicationInv
<1>1. PublicationInv /\ [Next]_vars => PublicationInv'
  <2> SUFFICES ASSUME PublicationInv, [Next]_vars PROVE PublicationInv'
    OBVIOUS
  <2>1. CASE Change \/ Begin \/ KeepOnDisk \/ StartReading \/ FinishReading \/ Compile \/ Compress
             \/ Fail \/ Flush \/ Unpublish \/ Close
    BY <2>1, ChangeInv, BeginInv, KeepOnDiskInv, StartReadingInv, FinishReadingInv, CompileInv,
       CompressInv, FailInv, FlushInv, UnpublishInv, CloseInv
  <2>2. ASSUME NEW r \in Readers, NEW q \in Representations,
               NEW k \in {"owned", "borrowed", "lease"}, Acquire(r, q, k)
        PROVE  PublicationInv'
    BY <2>2, AcquireInv
  <2>3. ASSUME NEW r \in Readers, Destroy(r) \/ Release(r) PROVE PublicationInv'
    BY <2>3, DestroyInv, ReleaseInv
  <2>4. CASE UNCHANGED vars
    <3>1. TypeOK'
      BY <2>4 DEF vars, PublicationInv, TypeOK
    <3>2. JobInv' /\ IndexInv' /\ CompanionsMatch'
      BY <2>4 DEF vars, PublicationInv, JobInv, IndexInv, CompanionsMatch, Sourced, OnDisk, Tried,
                  Flavors, Old
    <3>3. ReaderInv'
      BY <2>4 DEF vars, PublicationInv, ReaderInv, Holders
    <3> QED BY <3>1, <3>2, <3>3 DEF PublicationInv
  <2> QED BY <2>1, <2>2, <2>3, <2>4 DEF Next
<1>2. Init => PublicationInv
  BY InitInv
<1> QED BY <1>1, <1>2, PTL DEF Spec

\* The file, its publication, its index entry and its readers are of the types TypeOK
\* names.
THEOREM PublicationTyped == Spec => []TypeOK
<1>1. PublicationInv => TypeOK
  BY DEF PublicationInv
<1> QED BY <1>1, PublicationInductive, PTL

\* Source and companions that are published together are of one version, whatever
\* step failed and however the file changed meanwhile.
THEOREM CompanionsAlwaysMatch == Spec => []CompanionsMatch
<1>1. PublicationInv => CompanionsMatch
  BY DEF PublicationInv
<1> QED BY <1>1, PublicationInductive, PTL

\* The bytes of a replaced version are kept exactly as long as a reader on the main
\* thread may still use them.
THEOREM FreedInTime == Spec => []FreedAfterLastReader
<1>1. PublicationInv => FreedAfterLastReader
  <2> SUFFICES ASSUME PublicationInv, open
               PROVE  freed = {e \in past : \A r \in Readers : ~Reads(r, e)}
    BY DEF FreedAfterLastReader
  <2>1. \A e \in past : e \in Entry
    BY DEF PublicationInv, TypeOK
  <2>2. \A e \in past : Holders(e) = {} <=> \A r \in Readers : ~Reads(r, e)
    BY DEF PublicationInv, ReaderInv, Holders, Reads
  <2>3. freed = past \ {e \in Entry : Holders(e) # {}}
    BY DEF PublicationInv, ReaderInv
  <2> QED BY <2>1, <2>2, <2>3
<1> QED BY <1>1, PublicationInductive, PTL
=============================================================================
