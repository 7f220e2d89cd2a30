----------------------------- MODULE Territory -----------------------------
(***************************************************************************)
(* One application on one thread that uses node:fs, patched                *)
(* (lib/adapters/fs-patch.js), on a tree of places: disk-origin places     *)
(* whose files the watcher publishes some time after they changed, virtual *)
(* places of provider map (lib/map-store.js), and what nobody owns.  A     *)
(* copy through the virtual file system reads its input and writes it in   *)
(* later turns; everything else happens in the turn of its call, as the    *)
(* *Sync forms do.                                                         *)
(*                                                                         *)
(* Operations that fail change nothing and have no action.  Directories on *)
(* disk exist where a file lies below them.  A write asks for the bytes of *)
(* one writer: all there is to know of it.                                 *)
(***************************************************************************)
EXTENDS Router

CONSTANTS
  Configs,    \* the configurations to consider: [strict, oversize, places]
  Secret,     \* bytes only a hidden file has
  Written,    \* the bytes of each writer
  MaxMade     \* how many files the application makes: bounds the runs

VARIABLES
  copy,       \* the copy under way: [from, to, existing, bytes], or None
  made,       \* files made: written, copied, linked
  misled      \* history: whether a hidden file has lain where its place lists a directory

vars == <<settings, disk, vfs, copy, made, misled>>

\* Those that are accepted, as they are resolved.
Settings ==
  {[strict |-> c.strict, oversize |-> c.oversize, places |-> Config!Places(c.places, c.strict)] :
     c \in {d \in Configs : Config!AllAccepted(d.places)}}

Bytes == (SUBSET ({Secret} \cup Written)) \ {{}}
Existing == {"overwrite", "skip"}   \* one that fails changes what one that skips does
Entries == [bytes : Bytes, prepared : BOOLEAN, inMemory : BOOLEAN]
Copies == [from : Paths, to : Paths, existing : Existing, bytes : Bytes \cup {None}]

ASSUME ValuesAssumption ==
  /\ Secret \notin Written /\ MaxMade \in Nat
  /\ \A x \in Bytes \cup Entries \cup Copies : x # None

TypeOK ==
  /\ settings \in Settings
  /\ disk \in [Paths -> Bytes \cup {None}]
  /\ vfs.entries \in [Paths -> Entries \cup {None}]
  /\ vfs.names \subseteq Paths \cup Folders
  /\ copy \in Copies \cup {None}
  /\ made \in 0..MaxMade
  /\ misled \in BOOLEAN

NoFiles == [p \in Paths |-> None]

\* No policy of the settings serves p, and no publication will.
HiddenBy(s, p) ==
  LET owner == p[Len(AppRoot) + 1]
      unowned == ~IsPrefix(AppRoot, p) \/ owner \notin DOMAIN s.places
      uncached == ~Among(p, s.places[owner].scanned)
  IN  IF unowned THEN IsPrefix(AppRoot, p) /\ s.strict
      ELSE IF s.places[owner].fs THEN s.places[owner].fallback = "deny" /\ uncached
      ELSE s.strict /\ s.places[owner].provider \in Config!Indexed /\ uncached

\* Where the index lags behind the disk, the router takes the name of a hidden file
\* for the directory's that was there before.
Misled == \E p \in Paths : OnDisk(p) /\ HiddenBy(settings, p) /\ IsDirectory(p)

Init ==
  /\ settings \in Settings
  /\ \E p \in Paths : HiddenBy(settings, p) /\ disk = [NoFiles EXCEPT ![p] = {Secret}]
  /\ vfs = [entries |-> NoFiles, names |-> {}]
  /\ copy = None
  /\ made = 0
  /\ misled = Misled

-----------------------------------------------------------------------------
(* The store of a virtual place: lib/map-store.js. *)

FileAbove(p) == \E q \in Paths : EntryAt(q) # None /\ p \in Under[q]
HierarchyAllows(p) == ~FileAbove(p) /\ (EntryAt(p) # None \/ ~IsDirectory(p))

\* Its preparer has run, or it has none.
Canonical(p, bytes) == [bytes |-> bytes, prepared |-> PreparedAt(p), inMemory |-> TRUE]

StoreWrite(p, bytes, exclusive) ==
  /\ exclusive => EntryAt(p) = None /\ ~IsDirectory(p)
  /\ HierarchyAllows(p)
  /\ vfs' = Files!Set(vfs, p, Canonical(p, bytes))

StoreAppend(p, bytes) ==
  /\ ~PreparedAt(p)
  /\ HierarchyAllows(p)
  /\ vfs' = Files!Set(vfs, p, Canonical(p,
       IF EntryAt(p) = None THEN bytes ELSE EntryAt(p).bytes \cup bytes))

\* rm removes what unlink does, and a tree.
StoreUnlink(p) == EntryAt(p) # None /\ vfs' = Files!Delete(vfs, p)
StoreRm(p) ==
  /\ EntryAt(p) = None /\ Files!KeysBelow(vfs, p) # {}
  /\ vfs' = Files!DeleteAll(vfs, Files!KeysBelow(vfs, p))

StoreMove(p, q) ==
  /\ EntryAt(p) # None /\ ~PreparedAt(p) /\ q \in Paths \ {p}
  /\ HierarchyAllows(q)
  /\ vfs' = Files!Delete(Files!Set(vfs, q, Canonical(q, EntryAt(p).bytes)), p)

Rebased(p, q, r) == q \o SubSeq(r, Len(p) + 1, Len(r))

\* The entries of a subtree under their new keys.
StoreMoveTree(p, q) ==
  LET moved == Files!KeysBelow(vfs, p)
      gone == Files!DeleteAll(vfs, moved)
  IN  /\ EntryAt(p) = None /\ moved # {}
      /\ ~IsPrefix(p, q) /\ EntryAt(q) = None /\ ~IsDirectory(q) /\ HierarchyAllows(q)
      /\ \A r \in moved : ~PreparedAt(r) /\ Rebased(p, q, r) \in Paths
      /\ vfs' = Files!PutAll(gone,
           [s \in {Rebased(p, q, r) : r \in moved} |-> vfs.entries[Rebased(q, p, s)]])

-----------------------------------------------------------------------------
(* node:fs as it was, on the disk. *)

DiskFileAbove(p) == \E q \in Paths : disk[q] # None /\ p \in Under[q]
DiskTakes(p) == ~DiskFolder(p) /\ ~DiskFileAbove(p)

DiskWrite(p, bytes, exclusive) ==
  /\ exclusive => ~OnDisk(p)
  /\ DiskTakes(p)
  /\ disk' = [disk EXCEPT ![p] = bytes]

DiskMove(p, q) ==
  \/ /\ OnDisk(p) /\ q \in Paths /\ p # q /\ DiskTakes(q)
     /\ disk' = [disk EXCEPT ![q] = disk[p], ![p] = None]
  \/ LET below == {r \in Under[p] : disk[r] # None}
     IN  /\ below # {} /\ ~IsPrefix(p, q) /\ ~OnDisk(q) /\ DiskTakes(q)
         /\ \A r \in below : Rebased(p, q, r) \in Paths
         /\ disk' = [s \in Paths |->
              IF \E r \in below : Rebased(p, q, r) = s
              THEN disk[CHOOSE r \in below : Rebased(p, q, r) = s]
              ELSE IF s \in below THEN None ELSE disk[s]]

-----------------------------------------------------------------------------
(* The application. *)

\* Every operation of node:fs on a path goes to its store or to the disk.
ToStore(p) == Mutate(p) = "store" /\ ~IsMount(p) /\ UNCHANGED disk
ToDisk(p) == Mutate(p) = "passthrough" /\ UNCHANGED vfs

\* Bounds the files the application makes.
Makes == made < MaxMade /\ made' = made + 1

\* The history, at the end of every action.
Noted == misled' = (misled \/ Misled')

WriteThrough(p, bytes, exclusive) ==
  \/ ToStore(p) /\ StoreWrite(p, bytes, exclusive)
  \/ ToDisk(p) /\ DiskWrite(p, bytes, exclusive)

\* An exclusive write is a write where there is nothing.
WriteFile(p, flag, bytes) ==
  /\ Makes
  /\ CASE flag = "w" -> WriteThrough(p, bytes, FALSE)
       [] flag = "a" ->
            \/ ToStore(p) /\ StoreAppend(p, bytes)
            \/ ToDisk(p) /\ DiskWrite(p, (IF OnDisk(p) THEN disk[p] ELSE {}) \cup bytes, FALSE)
  /\ UNCHANGED <<settings, copy>>
  /\ Noted

Unlink(p) ==
  /\ \/ ToStore(p) /\ StoreUnlink(p)
     \/ ToDisk(p) /\ OnDisk(p) /\ disk' = [disk EXCEPT ![p] = None]
  /\ UNCHANGED <<settings, copy, made>>
  /\ Noted

\* Recursively; a walk from above the places is refused.
Rm(p) ==
  /\ \/ ToStore(p) /\ StoreRm(p)
     \/ /\ ToDisk(p) /\ ~Encloses(p) /\ DiskFolder(p)
        /\ disk' = [q \in Paths |-> IF IsPrefix(p, q) THEN None ELSE disk[q]]
  /\ UNCHANGED <<settings, copy, made>>
  /\ Noted

Rename(p, q) ==
  /\ \/ /\ ToStore(p) /\ ToStore(q) /\ IndexedOwner(p) = IndexedOwner(q)
        /\ StoreMove(p, q) \/ StoreMoveTree(p, q)
     \/ /\ ToDisk(p) /\ ToDisk(q)
        /\ DiskMove(p, q)
        /\ \/ Move(p, q) = "passthrough"
           \/ Move(p, q) = "crossing" /\ ~DiskFolder(p)
  /\ UNCHANGED <<settings, copy, made>>
  /\ Noted

\* Two names of one file; outside the indexed places only.
Link(p, q) ==
  /\ Makes
  /\ OnDisk(p) /\ HardLink(p, q) = "passthrough"
  /\ ToDisk(q) /\ DiskWrite(q, disk[p], TRUE)
  /\ UNCHANGED <<settings, copy>>
  /\ Noted

\* Whether something is at the destination of a copy.
Taken(p) == IF Mutate(p) = "store" THEN PlaceExists(p) ELSE OnDisk(p)
Exclusive(existing) == existing # "overwrite"

\* From disk to disk the copy is native.  The bytes of a virtual entry are written
\* at once; a raw file is read first.
CopyFile(p, q, existing) ==
  /\ copy = None
  /\ Makes
  /\ Mutate(q) # "deny"
  /\ \/ /\ CopySource(p) = "canonical"
        /\ ~(existing = "skip" /\ Taken(q))
        /\ WriteThrough(q, EntryAt(p).bytes, Exclusive(existing))
        /\ UNCHANGED copy
     \/ /\ CopySource(p) = "passthrough" /\ Mutate(q) = "passthrough"
        /\ OnDisk(p) /\ WriteThrough(q, disk[p], Exclusive(existing))
        /\ UNCHANGED copy
     \/ /\ CopySource(p) = "passthrough" /\ Mutate(q) = "store"
        /\ ~(existing = "skip" /\ Taken(q))
        /\ copy' = [from |-> p, to |-> q, existing |-> existing, bytes |-> None]
        /\ UNCHANGED <<disk, vfs>>
  /\ UNCHANGED settings
  /\ Noted

ReadInput ==
  /\ copy # None /\ copy.bytes = None
  /\ copy' = IF OnDisk(copy.from) THEN [copy EXCEPT !.bytes = disk[copy.from]] ELSE None
  /\ UNCHANGED <<settings, disk, vfs, made>>
  /\ Noted

\* Into the destination as it is now; it may refuse.
WriteInput ==
  /\ copy # None /\ copy.bytes # None
  /\ copy' = None
  /\ \/ WriteThrough(copy.to, copy.bytes, Exclusive(copy.existing))
     \/ UNCHANGED <<disk, vfs>>
  /\ UNCHANGED <<settings, made>>
  /\ Noted

-----------------------------------------------------------------------------
(* The watcher: the file of a disk-origin place as it is now. *)

Fits(bytes) == bytes \cap settings.oversize = {}

\* A prepared source exists in memory or not at all: the previous version stays.
Publish(p) ==
  /\ InIndexed(p) /\ Place(p).provider \in Config!Origined /\ ~Place(p).virtual /\ Cached(p)
  /\ IF OnDisk(p)
     THEN /\ PreparedAt(p) => Fits(disk[p])
          /\ vfs' = Files!Set(vfs, p, [Canonical(p, disk[p]) EXCEPT !.inMemory = Fits(disk[p])])
     ELSE vfs' = Files!Delete(vfs, p)
  /\ UNCHANGED <<settings, disk, copy, made>>
  /\ Noted

\* There is something at p to move.
There(p) == OnDisk(p) \/ EntryAt(p) # None \/ DiskFolder(p) \/ IsDirectory(p)

Next ==
  \/ \E p \in Paths, flag \in {"w", "a"}, w \in Written : WriteFile(p, flag, {w})
  \/ \E p \in Paths : Unlink(p) \/ Publish(p)
  \/ \E p \in Folders : Rm(p)
  \/ \E p \in Paths \cup Folders : There(p) /\ \E q \in Paths \cup Folders : Rename(p, q)
  \/ \E p, q \in Paths : Link(p, q) \/ \E e \in Existing : CopyFile(p, q, e)
  \/ ReadInput \/ WriteInput

Spec == Init /\ [][Next]_vars

-----------------------------------------------------------------------------
(* Properties. *)

\* What a hidden file holds never becomes readable, through node:fs, the file API of
\* a place or a module: no copy, link, rename of it or of a directory above it, no
\* write and no publication gives it a name that serves it.  README.md promises this
\* without conditions: "no new name makes it readable".
HiddenStaysHidden == \A p \in Paths : \A c \in Readable(p) : Secret \notin c.bytes

\* The same restricted to an index that has not misled the router: so far no hidden
\* file has lain on the disk at a path its place still lists as a directory, whatever
\* else the index has missed.
HiddenUnlessMisled == ~misled => HiddenStaysHidden

\* Under strict, a path whose extension has a preparer serves what the preparer made,
\* or nothing: not the raw file, before it is published, while another version is, or
\* when it does not fit.
RawNeverStandsIn ==
  settings.strict =>
    \A p \in Paths : InIndexed(p) /\ PreparedAt(p) => \A c \in Readable(p) : c.prepared

\* A place lists and finds exactly the files it holds for node:fs and the directories
\* their keys imply, with its disk territory, whatever sequence of writes, removals
\* and moves of files and directories its index went through.
Holds(p) ==
  \/ VisibleEntry(p) \/ DiskFile(p)
  \/ (\E q \in Under[p] : EntryAt(q) # None) \/ (FallsBack(p) /\ DiskFolder(p))
ListedIsHeld ==
  \A dir \in Folders : InIndexed(dir) =>
    /\ PlaceReaddir(dir) = {p \in Inside[dir] : Holds(p)}
    /\ PlaceExists(dir) <=> IsMount(dir) \/ Holds(dir)
=============================================================================
