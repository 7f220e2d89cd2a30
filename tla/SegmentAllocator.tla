-------------------------- MODULE SegmentAllocator --------------------------
(***************************************************************************)
(* The pooled allocator byte by byte: lib/cache.js (Pool, SegmentRegistry  *)
(* and the allocating half of FilesystemCache), with the commit of a       *)
(* compaction plan as lib/kernel.js (#compact, #flush) makes it.           *)
(*                                                                         *)
(* Sizes and offsets are small integers; what the bytes hold and who still *)
(* reads them is the business of module Lifetime, so that a retired entry  *)
(* is freed here at any time, and compaction may run at any time.  Entries *)
(* without bytes (disk entries, empty files) never reach the registry.     *)
(*                                                                         *)
(* Maps and Sets of the code iterate in insertion order, which settles     *)
(* which of two equal fits is taken: `order` is that of the registry's two *)
(* maps, `empty` that of emptySegmentIds.                                  *)
(***************************************************************************)
EXTENDS Integers, Sequences, SequencesExt, FiniteSets

CONSTANTS
  Keys,          \* published (place, key) pairs
  SegmentSize,   \* bytes of a segment
  MaxSegments,   \* segments the memory limit allows
  Threshold,     \* segments with fewer bytes in use are compacted; 0: never
  MaxLive,       \* bound: entries that own bytes at one time
  None           \* no entry, no place

ASSUME SizesAssumption ==
  /\ SegmentSize \in Nat \ {0}
  /\ MaxSegments \in Nat \ {0}
  /\ Threshold \in 0..SegmentSize

Segment == 1..MaxSegments
Entry == [segment : Segment, offset : 0..(SegmentSize - 1), length : 1..SegmentSize]

ASSUME NoneAssumption == None \notin Entry

VARIABLES
  reg,       \* [order, free, tail]: the registered segments, their free extents
             \* inside the used prefix, and where the never-used rest begins
  closed,    \* segments being emptied by compaction
  created,   \* segments created so far
  empty,     \* fully freed segments, kept for reuse
  index,     \* key -> published entry or None
  private,   \* entries allocated and not yet published
  retired    \* entries replaced, removed or relocated and not yet freed

vars == <<reg, closed, created, empty, index, private, retired>>

Registered(r) == Range(r.order)
Published == {index[k] : k \in Keys} \ {None}
Live == private \cup Published \cup retired

Init ==
  /\ reg = [order |-> <<>>, free |-> <<>>, tail |-> <<>>]
  /\ closed = {}
  /\ created = 0
  /\ empty = <<>>
  /\ index = [k \in Keys |-> None]
  /\ private = {}
  /\ retired = {}

-----------------------------------------------------------------------------
(* The registry: operators on a registry r. *)

Rank(r, s) == CHOOSE i \in DOMAIN r.order : r.order[i] = s
First(r, S) == CHOOSE s \in S : \A t \in S : Rank(r, s) <= Rank(r, t)

\* Free extents that hold `size` bytes, outside the closed segments cl.
BrokenHoles(r, cl, size) ==
  {h \in Registered(r) \X (1..SegmentSize) :
     h[2] <= Len(r.free[h[1]]) /\ r.free[h[1]][h[2]].length >= size}
Holes(r, cl, size) ==
  {h \in (Registered(r) \ cl) \X (1..SegmentSize) :
     h[2] <= Len(r.free[h[1]]) /\ r.free[h[1]][h[2]].length >= size}

\* The smallest of them, and the first of those.
BestHole(r, holes) ==
  LET size(h) == r.free[h[1]][h[2]].length
      least == {h \in holes : \A g \in holes : size(h) <= size(g)}
      s == First(r, {h[1] : h \in least})
  IN  CHOOSE h \in least : h[1] = s /\ \A g \in least : g[1] = s => h[2] <= g[2]

\* Extent i of segment s without its first `size` bytes.
BrokenCut(r, s, i, size) ==
  LET e == r.free[s][i]
  IN  [r EXCEPT !.free[s] =
         IF e.length <= size + 1 THEN RemoveAt(@, i)
         ELSE ReplaceAt(@, i, [offset |-> e.offset + size, length |-> e.length - size])]
Cut(r, s, i, size) ==
  LET e == r.free[s][i]
  IN  [r EXCEPT !.free[s] =
         IF e.length = size THEN RemoveAt(@, i)
         ELSE ReplaceAt(@, i, [offset |-> e.offset + size, length |-> e.length - size])]

\* Segments with room behind what was ever used.
TailRoom(r, cl, size) ==
  {s \in Registered(r) \ cl : r.tail[s] + size <= SegmentSize}

\* Best fit, else the tail of a segment: where the bytes go, and the registry
\* afterwards; `at` is None if neither has room.
PlaceIn(r, cl, size) ==
  LET holes == Holes(r, cl, size)
      room == TailRoom(r, cl, size)
  IN  IF holes # {}
      THEN LET h == BestHole(r, holes)
           IN  [at |-> [segment |-> h[1], offset |-> r.free[h[1]][h[2]].offset, length |-> size],
                reg |-> Cut(r, h[1], h[2], size)]
      ELSE IF room # {}
      THEN LET s == First(r, room)
           IN  [at |-> [segment |-> s, offset |-> r.tail[s], length |-> size],
                reg |-> [r EXCEPT !.tail[s] = @ + size]]
      ELSE [at |-> None, reg |-> r]

\* A segment enters the registry with its first `size` bytes in use.
Register(r, s, size) ==
  [order |-> Append(r.order, s),
   free |-> [x \in Registered(r) \cup {s} |-> IF x = s THEN <<>> ELSE r.free[x]],
   tail |-> [x \in Registered(r) \cup {s} |-> IF x = s THEN size ELSE r.tail[x]]]

Unregister(r, s) ==
  LET rest == Registered(r) \ {s}
  IN  [order |-> RemoveAt(r.order, Rank(r, s)),
       free |-> [x \in rest |-> r.free[x]],
       tail |-> [x \in rest |-> r.tail[x]]]

\* The free extents `list` with extent e inserted and merged with its neighbours.
BrokenMerged(list, e) ==
  LET after(x) == x.offset > e.offset
      i == IF SelectInSeq(list, after) = 0 THEN Len(list) + 1 ELSE SelectInSeq(list, after)
      next == i <= Len(list) /\ e.offset + e.length = list[i].offset
  IN  SubSeq(list, 1, i - 1)
        \o <<[offset |-> e.offset, length |-> e.length + IF next THEN list[i].length ELSE 0]>>
        \o SubSeq(list, IF next THEN i + 1 ELSE i, Len(list))
Merged(list, e) ==
  LET after(x) == x.offset > e.offset
      i == IF SelectInSeq(list, after) = 0 THEN Len(list) + 1 ELSE SelectInSeq(list, after)
      next == i <= Len(list) /\ e.offset + e.length = list[i].offset
      prev == i > 1 /\ list[i - 1].offset + list[i - 1].length = e.offset
      joined == [offset |-> IF prev THEN list[i - 1].offset ELSE e.offset,
                 length |-> e.length + (IF next THEN list[i].length ELSE 0)
                                     + (IF prev THEN list[i - 1].length ELSE 0)]
  IN  SubSeq(list, 1, IF prev THEN i - 2 ELSE i - 1)
        \o <<joined>>
        \o SubSeq(list, IF next THEN i + 1 ELSE i, Len(list))

Released(r, e) ==
  [r EXCEPT !.free[e.segment] = Merged(@, [offset |-> e.offset, length |-> e.length])]

\* The lengths of the first extents of a list, summed up.
Lengths(list) ==
  LET sum[i \in 0..Len(list)] == IF i = 0 THEN 0 ELSE sum[i - 1] + list[i].length
  IN  sum

Used(r, s) == r.tail[s] - Lengths(r.free[s])[Len(r.free[s])]

-----------------------------------------------------------------------------
(* Operations. *)

\* A publication places bytes: in a registered segment, else in a segment kept
\* for reuse, else in a new one.
Allocate(size) ==
  /\ Cardinality(Live) < MaxLive
  /\ LET place == PlaceIn(reg, closed, size)
         grown(s) == /\ reg' = Register(reg, s, size)
                     /\ private' = private \cup
                          {[segment |-> s, offset |-> 0, length |-> size]}
     IN  \/ /\ place.at # None
            /\ reg' = place.reg
            /\ private' = private \cup {place.at}
            /\ UNCHANGED <<created, empty>>
         \/ /\ place.at = None /\ empty # <<>>
            /\ grown(Head(empty))
            /\ empty' = Tail(empty)
            /\ UNCHANGED created
         \/ /\ place.at = None /\ empty = <<>> /\ created < MaxSegments
            /\ grown(created + 1)
            /\ created' = created + 1
            /\ UNCHANGED empty
  /\ UNCHANGED <<closed, index, retired>>

\* Publish a private entry; what it replaces is retired.  A closed segment that
\* receives it opens again.
BrokenReopened(e) == closed
Reopened(e) == closed \ {e.segment}

Put(k, e) ==
  /\ e \in private
  /\ private' = private \ {e}
  /\ index' = [index EXCEPT ![k] = e]
  /\ retired' = retired \cup ({index[k]} \ {None})
  /\ closed' = Reopened(e)
  /\ UNCHANGED <<reg, created, empty>>

RemoveKey(k) ==
  /\ index[k] # None
  /\ index' = [index EXCEPT ![k] = None]
  /\ retired' = retired \cup {index[k]}
  /\ UNCHANGED <<reg, closed, created, empty, private>>

\* Closed segments once segment s is unregistered.
BrokenStillClosed(s) == closed
StillClosed(s) == closed \ {s}

\* The bytes of an abandoned or a retired entry return to the pool, and with the
\* last bytes of a segment the segment itself.
BrokenEmpties(r, s) == r.free[s] = <<[offset |-> 0, length |-> SegmentSize]>>
Empties(r, s) == Used(r, s) = 0

Free(e) ==
  /\ e \in private \cup retired
  /\ private' = private \ {e}
  /\ retired' = retired \ {e}
  /\ LET r == Released(reg, e)
         s == e.segment
     IN  IF Empties(r, s)
         THEN /\ reg' = Unregister(r, s)
              /\ closed' = StillClosed(s)
              /\ empty' = Append(empty, s)
         ELSE reg' = r /\ UNCHANGED <<closed, empty>>
  /\ UNCHANGED <<created, index>>

\* The least used open segment below the threshold, if another is open.
Targets ==
  LET open == Registered(reg) \ closed
      least == {s \in open : /\ Used(reg, s) < Threshold
                             /\ \A t \in open : Used(reg, s) <= Used(reg, t)}
  IN  IF least = {} \/ Cardinality(open) < 2 THEN {} ELSE {First(reg, least)}

Items(s) == {k \in Keys : index[k] # None /\ index[k].segment = s}

\* The plan that moves the entries `items` (a sequence of keys) of segment s outside
\* the closed segments, once the i-th is placed; what was placed before one that does
\* not fit.
PlanNext(s, items, before, i) ==
  LET place == PlaceIn(before.reg, closed \cup {s}, index[items[i]].length)
  IN  IF ~before.fits \/ place.at = None THEN [before EXCEPT !.fits = FALSE]
      ELSE [reg |-> place.reg, moves |-> Append(before.moves, place.at), fits |-> TRUE]

Plans(s, items) ==
  LET plan[i \in 0..Len(items)] ==
        IF i = 0 THEN [reg |-> reg, moves |-> <<>>, fits |-> TRUE]
        ELSE PlanNext(s, items, plan[i - 1], i)
  IN  plan

Planned(s, items) == Plans(s, items)[Len(items)]

\* Registry r as the first of `moves` are released again.
Returned(r, moves) ==
  LET back[i \in 0..Len(moves)] == IF i = 0 THEN r ELSE Released(back[i - 1], moves[i])
  IN  back

BrokenRolledBack(plan) == plan.reg
RolledBack(plan) == Returned(plan.reg, plan.moves)[Len(plan.moves)]

\* One relocation, published in the same synchronous step; if not everything fits
\* the plan is rolled back.
BrokenVacated(s) == retired
Vacated(s) == retired \cup {index[k] : k \in Items(s)}

Compact ==
  \E s \in Targets :
    /\ Items(s) # {}
    /\ \E items \in SetToSeqs(Items(s)) :
         LET plan == Planned(s, items)
             to == [k \in Items(s) |-> plan.moves[CHOOSE i \in DOMAIN items : items[i] = k]]
         IN  IF plan.fits
             THEN /\ reg' = plan.reg
                  /\ closed' = closed \cup {s}
                  /\ index' = [k \in Keys |-> IF k \in Items(s) THEN to[k] ELSE index[k]]
                  /\ retired' = Vacated(s)
             ELSE /\ reg' = RolledBack(plan)
                  /\ UNCHANGED <<closed, index, retired>>
    /\ UNCHANGED <<created, empty, private>>

Next ==
  \/ \E size \in 1..SegmentSize : Allocate(size)
  \/ \E k \in Keys, e \in private : Put(k, e)
  \/ \E k \in Keys : RemoveKey(k)
  \/ \E e \in Entry : Free(e)
  \/ Compact

Spec == Init /\ [][Next]_vars

-----------------------------------------------------------------------------
(* Properties. *)

TypeOK ==
  /\ reg.order \in Seq(Segment)
  /\ DOMAIN reg.free = Registered(reg)
  /\ \A s \in Registered(reg) :
       reg.free[s] \in Seq([offset : 0..(SegmentSize - 1), length : 1..SegmentSize])
  /\ reg.tail \in [Registered(reg) -> 1..SegmentSize]
  /\ closed \subseteq Registered(reg)
  /\ created \in 0..MaxSegments
  /\ empty \in Seq(Segment)
  /\ index \in [Keys -> Entry \cup {None}]
  /\ private \subseteq Entry
  /\ retired \subseteq Entry

Bytes(e) == {e.segment} \X (e.offset .. (e.offset + e.length - 1))

\* Every byte below the tail of a registered segment is free or belongs to exactly
\* one live entry, and no live entry lies elsewhere: no byte is handed out twice,
\* merged away while in use, or lost, through splits, merges, reused segments,
\* relocations and plans rolled back half-way.
BytesAccounted ==
  LET inUse == UNION {Bytes(e) : e \in Live}
      freed == UNION {UNION {Bytes([segment |-> s, offset |-> e.offset, length |-> e.length]) :
                               e \in Range(reg.free[s])} : s \in Registered(reg)}
      below == UNION {{s} \X (0..(reg.tail[s] - 1)) : s \in Registered(reg)}
  IN  /\ inUse \cup freed = below
      /\ inUse \cap freed = {}
      /\ \A d, e \in Live : d # e => Bytes(d) \cap Bytes(e) = {}
      /\ private \cap Published = {}
      /\ (private \cup Published) \cap retired = {}
      /\ \A j, k \in Keys : index[j] # None /\ index[j] = index[k] => j = k

\* Free extents are sorted and never touch: what was freed piecemeal is found
\* again as one extent.
FreeExtentsCoalesced ==
  \A s \in Registered(reg) : \A i \in 1..(Len(reg.free[s]) - 1) :
    reg.free[s][i].offset + reg.free[s][i].length < reg.free[s][i + 1].offset

\* A segment is registered exactly while it holds a live entry; the others that
\* were created wait, once each, for reuse.
EmptySegmentsReusable ==
  /\ Registered(reg) = {e.segment : e \in Live}
  /\ Registered(reg) \cup Range(empty) = 1..created
  /\ Len(reg.order) + Len(empty) = created

\* A closed segment holds nothing published: it only waits for retired readers and
\* for publications that had their place before it closed, and so is emptied in the
\* end.
ClosedHoldsNoPublished == \A e \in Published : e.segment \notin closed

\* Nothing is placed in a closed segment while it is closed.
ClosedTakesNothing ==
  [][\A s \in closed \cap closed' :
       {e \in Live' : e.segment = s} \subseteq {e \in Live : e.segment = s}]_vars

\* A relocation moves a published version to other bytes of the same size, without
\* growing the pool, and keeps the old place until it is freed like any retired one.
RelocationsKeepVersions ==
  [][\A k \in Keys :
       index[k] # None /\ index'[k] # None /\ index'[k] \notin private \cup {index[k]} =>
         /\ index'[k].length = index[k].length
         /\ index'[k] \notin Live
         /\ index[k] \in retired'
         /\ created' = created /\ empty' = empty]_vars
=============================================================================
