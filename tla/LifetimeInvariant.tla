------------------------- MODULE LifetimeInvariant --------------------------
(***************************************************************************)
(* The inductive invariant that makes NoForeignBytes of Lifetime true, and *)
(* what its other properties need beyond it.                               *)
(***************************************************************************)
EXTENDS Lifetime

Alive(l) == worker[l] \in {"linked", "attached"}

Intact(v) == bytes[v.extent] = v.content

\* Every extent has at most one owner among the private entries prv, the
\* published files pub and the retired records ret; none of them is in fr, and
\* each holds its owner's content.
Owned(fr, by, prv, pub, ret) ==
  /\ \A v \in prv : v.extent \notin fr /\ by[v.extent] = v.content
  /\ \A k \in Keys : pub[k] \in Entry =>
       pub[k].extent \notin fr /\ by[pub[k].extent] = pub[k].content
  /\ \A id \in DOMAIN ret : /\ ret[id].entry.extent \notin fr
                             /\ by[ret[id].entry.extent] = ret[id].entry.content
  /\ \A v, w \in prv : v.extent = w.extent => v = w
  /\ \A k, j \in Keys : pub[k] \in Entry /\ pub[j] \in Entry
                           /\ pub[k].extent = pub[j].extent => k = j
  /\ \A id, jd \in DOMAIN ret :
       ret[id].entry.extent = ret[jd].entry.extent => id = jd
  /\ \A v \in prv, k \in Keys : pub[k] \in Entry => v.extent # pub[k].extent
  /\ \A v \in prv, id \in DOMAIN ret : v.extent # ret[id].entry.extent
  /\ \A k \in Keys, id \in DOMAIN ret :
       pub[k] \in Entry => pub[k].extent # ret[id].entry.extent

\* The shape of a link's state outlives the kernel.
LinkShape(l) ==
  /\ ~Alive(l) => down[l] = <<>> /\ files[l] = NoFile
  /\ worker[l] # "attached" => pins[l] = Unpinned /\ bound[l] = Unbound
  /\ worker[l] = "none" => up[l] = <<>> /\ l \notin links
  /\ \A i \in 1..Len(down[l]) : down[l][i].retires \subseteq DOMAIN down[l][i].changes

\* Updates under way to a live worker come in order and after everything it
\* has answered; no ACK is repeated, and nothing follows its exit.
InOrder(l) ==
  /\ l \in links
  /\ \A i, j \in 1..Len(down[l]) : i < j => down[l][i].update < down[l][j].update
  /\ \A i \in 1..Len(down[l]) : down[l][i].update <= updateId
  /\ \A i \in 1..Len(up[l]) :
       /\ up[l][i].type # "close"
       /\ \A id \in up[l][i].ids : id[1] <= updateId
       /\ \A id \in up[l][i].ids : \A j \in 1..Len(down[l]) :
            id[1] < down[l][j].update
       /\ up[l][i].type = "ack" =>
            /\ up[l][i].update <= updateId
            /\ \A j \in 1..Len(down[l]) : up[l][i].update < down[l][j].update
  /\ \A i, j \in 1..Len(up[l]) :
       up[l][i].type = "ack" /\ up[l][j].type = "ack"
         /\ up[l][i].update = up[l][j].update => i = j

\* Where worker l gets the value of key k from, its projection (position 0) or
\* the i-th update under way, and what it gets there.
Touches(l, i, k) == k \in DOMAIN down[l][i].changes
Source(l, i, k) == i = 0 \/ Touches(l, i, k)
ValueAt(l, i, k) == IF i = 0 THEN files[l][k] ELSE down[l][i].changes[k]

\* Link l owes an ACK for the update that retires version v as `id`.
AwaitedAs(l, id, v) ==
  /\ id \in DOMAIN retired
  /\ retired[id].entry = v
  /\ id[1] \in DOMAIN acks
  /\ l \in acks[id[1]]

\* A version worker l sees, or is about to see, is the published one, or the next
\* update under way for its key retires it and awaits the worker's ACK.
Protected(l) ==
  \A k \in Keys : \A i \in 0..Len(down[l]) :
    Source(l, i, k) /\ ValueAt(l, i, k) \in Entry =>
      \/ /\ ValueAt(l, i, k) = files[Main][k]
         /\ \A m \in (i + 1)..Len(down[l]) : ~Touches(l, m, k)
      \/ \E j \in (i + 1)..Len(down[l]) :
           /\ \A m \in (i + 1)..(j - 1) : ~Touches(l, m, k)
           /\ k \in down[l][j].retires
           /\ AwaitedAs(l, <<down[l][j].update, k>>, ValueAt(l, i, k))

\* A version bound to a retire id in worker l is held, or will be once the ACK
\* that says so is handled; nothing under way releases it.
Secured(l, id, v) ==
  /\ id \in DOMAIN retired
  /\ retired[id].entry = v
  /\ \/ l \in retired[id].holders
     \/ /\ id[1] \in DOMAIN acks
        /\ l \in acks[id[1]]
        /\ \E i \in 1..Len(up[l]) : /\ up[l][i].type = "ack"
                                    /\ up[l][i].update = id[1]
                                    /\ id \in up[l][i].ids
  /\ \A i \in 1..Len(up[l]) : up[l][i].type = "release" => id \notin up[l][i].ids
  /\ \A j \in 1..Len(down[l]) : id[1] < down[l][j].update

Pinning(t) ==
  \A v \in Entry :
    /\ bound[t][v] # None => pins[t][v] > 0
    /\ pins[t][v] > 0 /\ bound[t][v] = None => \E k \in Keys : files[t][k] = v

LinkInv(l) ==
  /\ InOrder(l)
  /\ Protected(l)
  /\ Pinning(l)
  /\ \A v \in Entry : bound[l][v] # None => Secured(l, bound[l][v], v)

MainInv ==
  /\ Pinning(Main)
  /\ \A v \in Entry : bound[Main][v] # None =>
       /\ bound[Main][v] \in DOMAIN retired
       /\ retired[bound[Main][v]].entry = v
       /\ Main \in retired[bound[Main][v]].holders

ReadyInv ==
  /\ Owned(free, bytes, private, files[Main], retired)
  /\ \A id \in DOMAIN retired : id[1] <= updateId
  /\ \A u \in DOMAIN acks : u <= updateId
  /\ MainInv
  /\ \A l \in Links : Alive(l) => LinkInv(l)

\* Nothing is written once the kernel is closed, so it is enough that whatever a
\* worker has, or is about to get, is intact.
ClosedInv ==
  /\ files[Main] = NoFile /\ pins[Main] = Unpinned
  /\ \A l \in Links :
       /\ \A k \in Keys : \A i \in 0..Len(down[l]) :
            Source(l, i, k) /\ ValueAt(l, i, k) \in Entry => Intact(ValueAt(l, i, k))
       /\ \A v \in Entry : pins[l][v] > 0 => Intact(v)

IInv ==
  /\ TypeOK
  /\ \A l \in Links : LinkShape(l)
  /\ phase = "ready" => ReadyInv
  /\ phase = "closed" => ClosedInv
-----------------------------------------------------------------------------
(* What NoLostWait needs beyond IInv: whoever is waited for will answer. *)

\* Link l has yet to apply update u, or its answer to it is under way.
WillAnswer(l, u) ==
  \/ \E i \in 1..Len(down[l]) : down[l][i].update = u
  \/ \E i \in 1..Len(up[l]) : \/ /\ up[l][i].type = "ack"
                                 /\ up[l][i].update = u
                              \/ up[l][i].type = "close"

Reads(t, id) == pins[t][retired[id].entry] > 0 /\ bound[t][retired[id].entry] = id

\* A message of link l behind its n-th says that it no longer reads `id`.
LetsGo(l, id, n) ==
  \E i \in 1..Len(up[l]) :
    /\ n < i
    /\ \/ /\ up[l][i].type = "release"
          /\ id \in up[l][i].ids
       \/ up[l][i].type = "close"

Awaited == \A id \in DOMAIN retired : Due(id[1]) \/ retired[id].holders # {}

Answerable == \A u \in DOMAIN acks : acks[u] # {} /\ \A l \in acks[u] : WillAnswer(l, u)

\* The port of a worker that is gone reports it.
ExitReported ==
  \A l \in links : worker[l] = "gone" =>
    \E i \in 1..Len(up[l]) : up[l][i].type = "close"

\* A holder reads the version, or has told the main thread that it does not.
Holding ==
  \A id \in DOMAIN retired : \A t \in retired[id].holders :
    \/ Reads(t, id)
    \/ t # Main /\ LetsGo(t, id, 0)

\* So will one that an ACK under way is about to make a holder.
HoldingNext ==
  \A l \in Links : \A i \in 1..Len(up[l]) : up[l][i].type = "ack" =>
    \A id \in up[l][i].ids : id \in DOMAIN retired =>
      \/ Reads(l, id)
      \/ LetsGo(l, id, i)

\* An ACK speaks of updates the main thread has made.
AnswersMade ==
  \A l \in Links : \A i \in 1..Len(up[l]) : up[l][i].type = "ack" =>
    \A id \in up[l][i].ids : id[1] <= updateId

WaitInv ==
  phase = "ready" =>
    /\ AnswersMade
    /\ Awaited
    /\ Answerable
    /\ ExitReported
    /\ Holding
    /\ HoldingNext

-----------------------------------------------------------------------------
(* What PoolPartition needs beyond IInv: no extent is lost. *)

\* Every extent outside fr belongs to a private, published or retired version.
Covered(fr, prv, pub, ret) ==
  \A x \in Extent :
    \/ x \in fr
    \/ \E v \in prv : v.extent = x
    \/ \E k \in Keys : pub[k] \in Entry /\ pub[k].extent = x
    \/ \E id \in DOMAIN ret : ret[id].entry.extent = x

CoverInv == phase = "ready" => Covered(free, private, files[Main], retired)

-----------------------------------------------------------------------------
(* What RelocationsAreBounded needs: a relocation closes an open segment, and  *)
(* only placing or publishing a content opens one.                             *)

OpenSegments == {s \in Segments : Open(s)}
Unwritten == Contents \ written
Potential == Cardinality(OpenSegments) + Cardinality(private) + 2 * Cardinality(Unwritten)

BoundInv ==
  /\ RelocationsAreBounded
  /\ phase = "ready" =>
       /\ Potential <= 2 * Cardinality(Contents)
       /\ updateId + Potential <= MaxUpdates + 2 * Cardinality(Contents)

-----------------------------------------------------------------------------
(* What WorkersFollow needs: the last update under way brings a worker to the *)
(* files of the main thread.                                                  *)

CaughtUp ==
  phase = "ready" => \A l \in Told :
    After(files[l], down[l], Len(down[l])) = files[Main]
=============================================================================
