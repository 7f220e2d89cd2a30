------------------------------- MODULE Router -------------------------------
(***************************************************************************)
(* What a path is to the application: the routing of lib/registry.js, the  *)
(* policies of a place (lib/place.js), the reads of its file API           *)
(* (lib/place-fs.js) with the disk territory, the reads of node:fs through *)
(* lib/adapters/fs-patch.js and the modules of lib/adapters/module-hook.js.*)
(* All of it is a function of the settings, the disk and the projections.  *)
(*                                                                         *)
(* Content is the set of writes whose bytes it holds, and whether it is    *)
(* raw or what a preparer made of it.  Names with a trailing separator and  *)
(* symbolic links are left out.                                            *)
(***************************************************************************)
EXTENDS FiniteSets, SequencesExt

CONSTANTS
  AppRoot,   \* the directory that holds the places
  Paths,     \* paths of files
  Folders,   \* paths of directories, AppRoot and the places among them
  Ext,       \* path -> extension
  None       \* no file

\* Paths are sequences of names.  A directory that holds a file inside the application
\* is a path too, and a name decides on its extension.  The application's root and what
\* is above it are directories: nothing removes or replaces them (registry.encloses).
Names == UNION {Range(p) : p \in Paths \cup Folders \cup {AppRoot}}
ASSUME PathsAssumption ==
  /\ IsFiniteSet(Paths)
  /\ Paths \cup Folders \cup {AppRoot} \subseteq Seq(Names)
  /\ \A p \in Paths : ~IsPrefix(p, AppRoot)
  /\ \A p \in Paths : IsPrefix(AppRoot, p) =>
       \A n \in (Len(AppRoot) + 1)..Len(p) : SubSeq(p, 1, n) \in Paths \cup Folders
  /\ \A p, q \in Paths : Last(p) = Last(q) => Ext[p] = Ext[q]

VARIABLES
  settings,  \* [strict, oversize, places: mount -> its resolved configuration]
  disk,      \* path -> bytes of the raw file there, or None
  vfs        \* the projections of all indexed places (PlaceFiles)

Files == INSTANCE PlaceFiles WITH Depth <- Len(AppRoot) + 1
Config == INSTANCE Configuration

ASSUME NoneAssumption ==
  /\ None # "deny" /\ None # "disk" /\ None # "virtual"
  /\ None # Config!RequireExt /\ None # Config!ImportExt
  /\ None \notin Names

\* What a reader gets: raw bytes, or what the preparer made of them.
Raw(bytes) == [bytes |-> bytes, prepared |-> FALSE]

-----------------------------------------------------------------------------
(* Routes. *)

All == Paths \cup Folders
Outer == {p \in All : ~IsPrefix(AppRoot, p)}
Enclosing == {p \in All : IsPrefix(p, AppRoot)}
Under == [p \in All |-> {q \in Paths : IsStrictPrefix(p, q)}]
Inside == [p \in All |-> {q \in All : Len(q) = Len(p) + 1 /\ IsPrefix(p, q)}]

Outside(p) == p \in Outer
Encloses(p) == p \in Enclosing
Owned(p) == Len(p) > Len(AppRoot) /\ ~Outside(p) /\ p[Len(AppRoot) + 1] \in DOMAIN settings.places
Place(p) == settings.places[p[Len(AppRoot) + 1]]
IsMount(p) == Owned(p) /\ Len(p) = Len(AppRoot) + 1
InIndexed(p) == Owned(p) /\ Place(p).provider \in Config!Indexed

\* The indexed place that owns p, or None.
IndexedOwner(p) == IF InIndexed(p) THEN p[Len(AppRoot) + 1] ELSE None

Among(p, exts) == exts = None \/ Ext[p] \in exts
Cached(p) == Among(p, Place(p).scanned)
PreparedAt(p) == Ext[p] \in Place(p).prepared
EntryAt(p) == IF p \in Paths THEN vfs.entries[p] ELSE None
VisibleEntry(p) == EntryAt(p) # None /\ Place(p).fs /\ Among(p, Place(p).visible)
IsDirectory(p) == IsMount(p) \/ Files!HasDirectory(vfs.names, p)

ByMode == IF settings.strict THEN "deny" ELSE "passthrough"

\* A path an indexed place does not serve.
Miss(p) ==
  CASE Place(p).fallback = "deny" -> "deny"
    [] Place(p).fallback = "disk" /\ (~settings.strict \/ ~Cached(p)) -> "disk"
    [] OTHER -> ByMode

Read(p) ==
  CASE Outside(p) -> "passthrough"
    [] p = AppRoot -> IF settings.strict THEN "root" ELSE "passthrough"
    [] ~Outside(p) /\ p # AppRoot /\ (Owned(p) => ~Place(p).fs) -> ByMode
    [] Owned(p) /\ Place(p).fs /\ ~InIndexed(p) -> "passthrough"
    [] InIndexed(p) /\ VisibleEntry(p) ->
         IF EntryAt(p).inMemory THEN "file" ELSE "passthrough"
    [] InIndexed(p) /\ Place(p).fs /\ ~VisibleEntry(p) ->
         IF IsDirectory(p) THEN "dir" ELSE Miss(p)

Mutate(p) ==
  CASE Outside(p) -> "passthrough"
    [] ~Outside(p) /\ (Owned(p) => ~Place(p).fs) -> ByMode
    [] Owned(p) /\ Place(p).fs ->
         CASE Place(p).provider = "node-default" -> "passthrough"
           [] Place(p).provider # "node-default" /\ ~Place(p).writable -> "deny"
           [] OTHER -> IF Place(p).virtual THEN "store" ELSE "passthrough"

\* Where the raw input of a copy of one file lives.
CopySource(p) ==
  LET kind == Read(p)
  IN  CASE kind = "deny" -> "deny"
        [] kind \in {"dir", "root"} -> "unsupported"
        [] kind \in {"passthrough", "disk"} -> "passthrough"
        [] kind = "file" ->
             IF ~Place(p).virtual /\ Place(p).provider # "sea" THEN "passthrough"
             ELSE IF PreparedAt(p) THEN "unsupported" ELSE "canonical"

\* A native rename, both paths having passed Mutate.
BrokenMove(p, q) ==
  CASE Encloses(p) -> "unsupported"
    [] OTHER -> IF IndexedOwner(p) = IndexedOwner(q) THEN "passthrough" ELSE "crossing"
Move(p, q) ==
  CASE Read(p) = "deny" -> "deny"
    [] Read(p) # "deny" /\ Encloses(p) -> "unsupported"
    [] OTHER -> IF IndexedOwner(p) = IndexedOwner(q) THEN "passthrough" ELSE "crossing"

HardLink(p, q) ==
  CASE Read(p) = "deny" \/ Mutate(q) = "deny" -> "deny"
    [] OTHER -> IF InIndexed(p) \/ InIndexed(q) \/ Read(p) # "passthrough"
                THEN "unsupported" ELSE "passthrough"

-----------------------------------------------------------------------------
(* Reads. *)

OnDisk(p) == p \in Paths /\ disk[p] # None
DiskFolder(p) == \E q \in Under[p] : disk[q] # None
FromDisk(p) == IF OnDisk(p) THEN {Raw(disk[p])} ELSE {}
FromEntry(p) ==
  IF EntryAt(p).inMemory THEN {[bytes |-> EntryAt(p).bytes, prepared |-> EntryAt(p).prepared]}
  ELSE FromDisk(p)

\* node:fs, patched.
ReadFile(p) ==
  CASE Read(p) \in {"passthrough", "disk"} -> FromDisk(p)
    [] Read(p) = "file" -> FromEntry(p)
    [] OTHER -> {}

FallsBack(p) == Place(p).fs /\ Place(p).fallback = "disk"
DiskFile(p) == FallsBack(p) /\ ~Cached(p) /\ OnDisk(p)

\* The file API of the place, kernel.fs(name).
PlaceReadFile(p) ==
  IF ~InIndexed(p) THEN {}
  ELSE IF VisibleEntry(p) THEN FromEntry(p)
  ELSE IF DiskFile(p) THEN FromDisk(p) ELSE {}

PlaceExists(p) ==
  \/ VisibleEntry(p) \/ DiskFile(p)
  \/ IsDirectory(p) \/ (FallsBack(p) /\ DiskFolder(p))

\* Its listing of dir: the disk territory merged with the index.
PlaceReaddir(dir) ==
  {p \in Inside[dir] : FallsBack(dir) /\ (DiskFolder(p) \/ (OnDisk(p) /\ ~Cached(p)))}
  \cup {p \in Files!Children(vfs, dir) :
          Files!HasDirectory(vfs.names, p) \/ (EntryAt(p) # None /\ VisibleEntry(p))}

\* require and import: the module hook's loader, or Node's own.
Module(p, domain) ==
  CASE Outside(p) -> "node"
    [] ~Outside(p) /\ ~Owned(p) -> IF settings.strict THEN "deny" ELSE "node"
    [] Owned(p) ->
         LET denied == IF settings.strict THEN "deny" ELSE "node"
         IN  IF Place(p).provider = "node-default" THEN "node"
             ELSE IF Place(p).modules[domain] = {} THEN denied
             ELSE IF Place(p).provider = "disk" THEN "node"
             ELSE IF /\ EntryAt(p) # None /\ Ext[p] \in Place(p).modules[domain]
                     /\ EntryAt(p).inMemory
                  THEN "file" ELSE denied

LoadModule(p, domain) ==
  CASE Module(p, domain) = "node" -> FromDisk(p)
    [] Module(p, domain) = "file" -> FromEntry(p)
    [] OTHER -> {}

\* Whatever the application can get at p, one way or another.  Modules are held back
\* under strict only.
Readable(p) ==
  ReadFile(p) \cup PlaceReadFile(p)
    \cup (IF settings.strict THEN LoadModule(p, "require") \cup LoadModule(p, "import") ELSE {})
=============================================================================
