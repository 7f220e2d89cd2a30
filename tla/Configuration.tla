--------------------------- MODULE Configuration ---------------------------
(***************************************************************************)
(* How a declared place becomes a resolved one, or is refused              *)
(* (lib/config.js).  What is checked here is what other modules rely on:   *)
(* which extensions a place caches, serves and prepares, and which         *)
(* combinations exist at all.  The types of the options, sizes, names,     *)
(* codecs and the command line are left out, and so is which preparer it   *)
(* is that an extension is routed to.                                      *)
(*                                                                         *)
(* A domain is None when it is off.  An extension list is None when it is  *)
(* absent: the default of the domain when declared, any extension when     *)
(* resolved.                                                               *)
(***************************************************************************)
EXTENDS FiniteSets

CONSTANT None

Providers == {"sab", "map", "sea", "disk", "node-default"}
Indexed == {"sab", "map", "sea"}
Shared == {"sab", "sea"}
Origined == {"sab", "map"}

RequireExt == {"js", "cjs", "json"}
ImportExt == {"js", "mjs", "json"}
ScriptExt == {"js", "cjs"}

\* prepare: None, every extension of the domain's own list, or those listed.
Short == [form |-> "short", exts |-> {}]
Listed(exts) == [form |-> "listed", exts |-> exts]

Or(value, default) == IF value = None THEN default ELSE value

-----------------------------------------------------------------------------
(* Domains. *)

\* Script sources join the files the fs domain shows: without ext of its own it
\* shows nothing else.
FsExt(fs) ==
  IF fs.script = None THEN fs.ext
  ELSE Or(fs.ext, {}) \cup Or(fs.script.ext, ScriptExt)

Domains(raw) ==
  (IF raw.fs = None THEN {} ELSE {[name |-> "fs", own |-> raw.fs.ext,
                                   ext |-> FsExt(raw.fs), prepare |-> raw.fs.prepare]})
  \cup (IF raw.require = None THEN {}
        ELSE LET ext == Or(raw.require.ext, RequireExt)
             IN  {[name |-> "require", own |-> ext, ext |-> ext, prepare |-> raw.require.prepare]})
  \cup (IF raw.import = None THEN {}
        ELSE LET ext == Or(raw.import.ext, ImportExt)
             IN  {[name |-> "import", own |-> ext, ext |-> ext, prepare |-> raw.import.prepare]})

ExtOf(raw, name) == (CHOOSE d \in Domains(raw) : d.name = name).ext

\* What the scanner loads: everything, or what any domain shows.
BrokenScanExt(raw) == IF raw.fs # None THEN FsExt(raw.fs) ELSE UNION {d.ext : d \in Domains(raw)}
ScanExt(raw) ==
  IF raw.fs # None /\ FsExt(raw.fs) = None THEN None
  ELSE UNION {d.ext : d \in Domains(raw)}

-----------------------------------------------------------------------------
(* Preparation: by the file, whatever domain declares it. *)

Assigned(d) ==
  CASE d.prepare = None -> {}
    [] d.prepare # None -> IF d.prepare.form = "short" THEN d.own ELSE d.prepare.exts

\* The short form needs a list, an explicit one stays in it.
PrepareAllowed(d) ==
  d.prepare # None =>
    IF d.prepare.form = "short" THEN d.own # None
    ELSE d.prepare.exts # {} /\ (d.ext # None => d.prepare.exts \subseteq d.ext)

\* One declaration of an extension in the whole place.
PreparesOnce(raw) ==
  /\ \A d \in Domains(raw) : PrepareAllowed(d)
  /\ \A d, e \in Domains(raw) : d # e => Assigned(d) \cap Assigned(e) = {}

PreparedExt(raw) == UNION {Assigned(d) : d \in Domains(raw)}

-----------------------------------------------------------------------------
(* Places. *)

Origin(raw) == IF raw.provider \in Origined THEN Or(raw.origin, "disk") ELSE None
OnDisk(raw) == raw.provider \in Origined /\ Origin(raw) = "disk"
Compiles(raw) == raw.require # None /\ raw.require.compile

\* retainRaw: false: the source is served from the raw file.
LeavesRaw(fs) == fs.compress # None /\ ~fs.compress.retainRaw

FsAllowed(raw) ==
  LET fs == raw.fs
      p == raw.provider
  IN  IF p = "node-default"
      THEN /\ FsExt(fs) = None /\ fs.compress = None /\ fs.fallback = None
           /\ ~fs.writable /\ ~fs.zeroCopy
      ELSE /\ fs.writable => p # "sea"
           /\ fs.zeroCopy => p \in Indexed
           /\ fs.compress # None => p \in Shared
           /\ LeavesRaw(fs) =>
                /\ p = "sab" /\ OnDisk(raw)
                /\ ~Compiles(raw) /\ fs.script = None /\ PreparedExt(raw) = {}

\* A declared fallback needs a directory, and files it does not cache.
FallbackAllowed(raw) ==
  raw.fs.fallback # None =>
    /\ OnDisk(raw)
    /\ raw.fs.fallback = "disk" => ScanExt(raw) # None

Accepted(raw) ==
  /\ raw.provider \in Origined \/ raw.origin = None
  /\ Domains(raw) # {}
  /\ PreparesOnce(raw)
  /\ raw.fs # None /\ raw.fs.script # None => raw.provider \in Indexed
  /\ PreparedExt(raw) # {} => raw.provider \in Indexed
  /\ Origin(raw) = "virtual" => raw.fs # None /\ raw.fs.writable
  /\ raw.fs # None => FsAllowed(raw) /\ FallbackAllowed(raw)
  /\ Compiles(raw) => raw.provider \in Indexed

\* normalizeFallback
Fallback(raw, strict) ==
  IF raw.fs = None \/ ~OnDisk(raw) THEN None
  ELSE Or(raw.fs.fallback, IF strict THEN "deny" ELSE "disk")

\* The place as the registry, the stores and the hooks see it.
Resolved(raw, strict) ==
  [provider |-> raw.provider,
   virtual |-> Origin(raw) = "virtual",
   fs |-> raw.fs # None,
   writable |-> raw.fs # None /\ raw.fs.writable,
   fallback |-> Fallback(raw, strict),
   visible |-> IF raw.fs = None THEN {} ELSE FsExt(raw.fs),
   modules |-> [d \in {"require", "import"} |->
                  IF \E e \in Domains(raw) : e.name = d THEN ExtOf(raw, d) ELSE {}],
   scanned |-> ScanExt(raw),
   prepared |-> PreparedExt(raw)]

\* Enabled places only.
Places(raws, strict) ==
  [name \in {n \in DOMAIN raws : raws[n].enabled} |-> Resolved(raws[name], strict)]
AllAccepted(raws) == \A n \in DOMAIN raws : Accepted(raws[n])
=============================================================================
