--------------------------- MODULE LifetimeProofs ---------------------------
(***************************************************************************)
(* The proofs about Lifetime, for any sets of keys, links, segments, slots *)
(* and contents and any number of updates and consumers.                   *)
(*                                                                         *)
(* First, type correctness, and that no reader ever finds foreign bytes:   *)
(* IInv is inductive and implies NoForeignBytes.                           *)
(*                                                                         *)
(* Then what the main thread keeps account of.  No wait is lost: WaitInv   *)
(* is inductive together with IInv and implies NoLostWait.  No extent is   *)
(* lost: so is CoverInv, which with IInv implies PoolPartition.            *)
(* Relocations end: BoundInv, a potential that only placing or publishing  *)
(* a content raises, implies RelocationsAreBounded.                        *)
(*                                                                         *)
(* Last, that Lifetime implements PublishedFiles: CaughtUp says what the   *)
(* updates under way amount to, IInv that everything they show is intact.  *)
(***************************************************************************)
EXTENDS LifetimeInvariant, SequenceTheorems, FiniteSetTheorems, TLAPS

-----------------------------------------------------------------------------
(* Type correctness. *)

LEMMA InitType == Init => TypeOK
  <1> SUFFICES ASSUME Init PROVE TypeOK
    OBVIOUS
  <1>1. NoFile \in [Keys -> Value]
    BY DEF NoFile, Value
  <1>2. Unpinned \in [Entry -> Nat] /\ Unbound \in [Entry -> RetireId \cup {None}]
    BY DEF Unpinned, Unbound
  <1> QED
    BY <1>1, <1>2 DEF Init, TypeOK, Threads, Value

Record == [entry : Entry, holders : SUBSET Threads]
RecordsOK(r) == DOMAIN r \subseteq RetireId /\ r \in [DOMAIN r -> Record]
WaitingOK(w) == DOMAIN w \subseteq Nat /\ w \in [DOMAIN w -> SUBSET Links]
SettledOK ==
  /\ pc \in {"idle", "compact"}
  /\ free \subseteq Extent
  /\ closed \subseteq Segments
  /\ RecordsOK(retired)
  /\ WaitingOK(acks)

LEMMA SettleType ==
  ASSUME NEW recs, RecordsOK(recs), NEW ids \in SUBSET DOMAIN recs,
         NEW waiting, WaitingOK(waiting),
         NEW fr \in SUBSET Extent, NEW cl \in SUBSET Segments,
         Settle(recs, ids, waiting, fr, cl)
  PROVE  SettledOK'
  <1> DEFINE done == {id \in ids : Freeable(recs[id], id[1], waiting)}
  <1>1. done \subseteq DOMAIN recs
    OBVIOUS
  <1>2. \A id \in done : recs[id].entry.extent \in Extent
    BY <1>1 DEF RecordsOK, Record, Entry
  <1>3. RecordsOK(retired')
    BY DEF Settle, RecordsOK, Restrict
  <1>4. free' \subseteq Extent
    BY <1>2 DEF Settle
  <1>5. closed' \subseteq Segments /\ pc' \in {"idle", "compact"} /\ WaitingOK(acks')
    BY DEF Settle, StillUsed
  <1> QED
    BY <1>3, <1>4, <1>5 DEF SettledOK

\* What the helpers of the handlers make of the records and the ACKs.
LEMMA HelperTypes ==
  ASSUME RecordsOK(retired), WaitingOK(acks), NEW t \in Threads,
         NEW l \in Links, NEW ids, NEW updates
  PROVE  /\ RecordsOK(Without(t, ids)) /\ DOMAIN Without(t, ids) = DOMAIN retired
         /\ RecordsOK(AckRecords(l, ids)) /\ DOMAIN AckRecords(l, ids) = DOMAIN retired
         /\ WaitingOK(Answered(l, updates))
         /\ RecordsOf(updates) \subseteq DOMAIN retired
         /\ Held(t) \subseteq DOMAIN retired
  <1>1. \A id \in DOMAIN retired :
          [retired[id] EXCEPT !.holders = @ \ {t}] \in Record
    BY DEF RecordsOK, Record
  <1>2. \A id \in DOMAIN retired :
          [retired[id] EXCEPT !.holders = @ \cup {l}] \in Record
    BY DEF RecordsOK, Record, Threads
  <1>3. RecordsOK(Without(t, ids)) /\ DOMAIN Without(t, ids) = DOMAIN retired
    BY <1>1 DEF RecordsOK, Without
  <1>4. RecordsOK(AckRecords(l, ids)) /\ DOMAIN AckRecords(l, ids) = DOMAIN retired
    BY <1>2 DEF RecordsOK, AckRecords
  <1>5. WaitingOK(Answered(l, updates))
    BY DEF WaitingOK, Answered
  <1> QED
    BY <1>3, <1>4, <1>5 DEF RecordsOf, Held

LEMMA ApplyType ==
  ASSUME TypeOK, NEW t \in Threads, NEW msg \in Update, Apply(t, msg)
  PROVE  /\ files' \in [Threads -> [Keys -> Value]]
         /\ bound' \in [Threads -> [Entry -> RetireId \cup {None}]]
  <1>1. Overlay(files[t], msg.changes) \in [Keys -> Value]
    <2>1. PICK D \in SUBSET Keys : msg.changes \in [D -> Value]
      BY DEF Update
    <2> QED
      BY <2>1 DEF Overlay, TypeOK
  <1>2. files' \in [Threads -> [Keys -> Value]]
    BY <1>1 DEF Apply, TypeOK
  <1> DEFINE kept == Retained(t, msg)
             now == [v \in Entry |->
                       IF \E k \in kept : files[t][k] = v
                       THEN <<msg.update, CHOOSE k \in kept : files[t][k] = v>>
                       ELSE bound[t][v]]
  <1>3. kept \subseteq Keys /\ msg.update \in Nat
    BY DEF Retained, Update
  <1>4. \A v \in Entry : now[v] \in RetireId \cup {None}
    BY <1>3 DEF RetireId, TypeOK
  <1>5. bound' = [bound EXCEPT ![t] = now]
    BY DEF Apply, TypeOK
  <1>6. bound' \in [Threads -> [Entry -> RetireId \cup {None}]]
    <2> HIDE DEF now
    <2>1. now \in [Entry -> RetireId \cup {None}]
      BY <1>4 DEF now
    <2> QED
      BY <1>5, <2>1 DEF TypeOK
  <1> QED
    BY <1>2, <1>6

LEMMA CommitType ==
  ASSUME TypeOK, RecordsOK(retired), WaitingOK(acks),
         NEW D \in SUBSET Keys, NEW changes \in [D -> Value],
         NEW fr \in SUBSET Extent, NEW cl \in SUBSET Segments,
         Commit(changes, fr, cl)
  PROVE  /\ files' \in [Threads -> [Keys -> Value]]
         /\ bound' \in [Threads -> [Entry -> RetireId \cup {None}]]
         /\ updateId' \in Nat
         /\ down' \in [Links -> Seq(Update)]
         /\ SettledOK'
  <1> DEFINE gone == Replaced(changes)
             msg == [update |-> updateId + 1, changes |-> changes, retires |-> gone]
             fresh == {updateId + 1} \X gone
             records == [id \in DOMAIN retired \cup fresh |->
                           IF id \in fresh
                           THEN [entry |-> files[Main][id[2]],
                                 holders |-> {t \in {Main} : id[2] \in Retained(t, msg)}]
                           ELSE retired[id]]
             waiting == IF gone # {} /\ links # {}
                        THEN [u \in DOMAIN acks \cup {updateId + 1} |->
                                IF u = updateId + 1 THEN links ELSE acks[u]]
                        ELSE acks
  <1>1. gone \subseteq Keys /\ \A k \in gone : files[Main][k] \in Entry
    BY DEF Replaced
  <1>2. updateId \in Nat /\ updateId + 1 \in Nat /\ links \subseteq Links
    BY DEF TypeOK
  <1>3. msg \in Update
    BY <1>1, <1>2 DEF Update
  <1>4. fresh \subseteq RetireId /\ \A id \in fresh : id[2] \in gone
    BY <1>1, <1>2 DEF RetireId
  <1>5. RecordsOK(records)
    BY <1>1, <1>4 DEF RecordsOK, Record, Threads
  <1>6. WaitingOK(waiting)
    BY <1>2 DEF WaitingOK
  <1>7. /\ Apply(Main, msg)
        /\ Settle(records, fresh, waiting, fr, cl \ Reopened(changes))
        /\ updateId' = updateId + 1
        /\ down' = [l \in Links |->
                     IF l \in Told THEN Append(down[l], msg) ELSE down[l]]
    BY DEF Commit
  <1>8. SettledOK'
    <2> HIDE DEF records, waiting, fresh
    <2>1. fresh \in SUBSET DOMAIN records
      BY DEF records
    <2>2. cl \ Reopened(changes) \in SUBSET Segments
      OBVIOUS
    <2> QED
      BY <1>5, <1>6, <1>7, <2>1, <2>2, SettleType
  <1>9. \A l \in Links : Append(down[l], msg) \in Seq(Update)
    BY <1>3 DEF TypeOK
  <1>10. down' \in [Links -> Seq(Update)]
    BY <1>7, <1>9 DEF TypeOK
  <1>11. Main \in Threads
    BY DEF Threads
  <1> HIDE DEF msg
  <1> QED
    BY <1>2, <1>3, <1>7, <1>8, <1>10, <1>11, ApplyType

LEMMA PostType ==
  ASSUME TypeOK, NEW l \in Links, NEW msg \in UpMessage
  PROVE  Post(l, msg) \in [Links -> Seq(UpMessage)]
  BY DEF Post, TypeOK

LEMMA TypeParts == TypeOK => RecordsOK(retired) /\ WaitingOK(acks) /\ SettledOK
  BY DEF TypeOK, RecordsOK, Record, WaitingOK, SettledOK

LEMMA CompactType == TypeOK /\ Compact => TypeOK'
  <1> SUFFICES ASSUME TypeOK, Compact PROVE TypeOK'
    OBVIOUS
  <1>1. CASE \E s \in Targets : \E to \in Moves(s) : Relocate(s, to)
    <2>1. PICK s \in Targets : \E to \in Moves(s) : Relocate(s, to)
      BY <1>1
    <2>2. PICK to \in Moves(s) : Relocate(s, to)
      BY <2>1
    <2> DEFINE changes == [k \in Items(s) |-> [files[Main][k] EXCEPT !.extent = to[k]]]
    <2>3. s \in Segments
      BY DEF Targets
    <2>4. /\ Items(s) \in SUBSET Keys
          /\ \A k \in Items(s) : files[Main][k] \in Entry
      BY DEF Items
    <2>5. to \in [Items(s) -> Room(s)] /\ Room(s) \subseteq Extent
      BY DEF Moves, Injection, Room, TypeOK
    <2>6. changes \in [Items(s) -> Value]
      BY <2>4, <2>5 DEF Entry, Value
    <2>7. free \ {to[k] : k \in Items(s)} \in SUBSET Extent
          /\ closed \cup {s} \in SUBSET Segments
      BY <2>3 DEF TypeOK
    <2>8. Commit(changes, free \ {to[k] : k \in Items(s)}, closed \cup {s})
      BY <2>2 DEF Relocate
    <2>9. bytes' \in [Extent -> Contents \cup {None}]
      <3>1. \A k \in Items(s) : files[Main][k].extent \in Extent
        BY <2>4 DEF Entry
      <3>2. bytes' = Copied(s, to)
        BY <2>2 DEF Relocate
      <3> QED
        BY <3>1, <3>2 DEF Copied, TypeOK
    <2> HIDE DEF changes
    <2>10. /\ files' \in [Threads -> [Keys -> Value]]
           /\ bound' \in [Threads -> [Entry -> RetireId \cup {None}]]
           /\ updateId' \in Nat
           /\ down' \in [Links -> Seq(Update)]
           /\ SettledOK'
      BY <2>4, <2>6, <2>7, <2>8, TypeParts, CommitType
    <2>11. UNCHANGED <<phase, private, written, pins, links, worker, up>>
      BY DEF Compact, linkVars
    <2> QED
      BY <2>9, <2>10, <2>11 DEF TypeOK, SettledOK, RecordsOK, Record, WaitingOK
  <1>2. CASE ~ \E s \in Targets : \E to \in Moves(s) : Relocate(s, to)
    BY <1>2 DEF Compact, TypeOK, linkVars
  <1> QED
    BY <1>1, <1>2

LEMMA HandleMessageType ==
  ASSUME TypeOK, NEW l \in Links, HandleMessage(l)
  PROVE  TypeOK'
  <1>1. RecordsOK(retired) /\ WaitingOK(acks) /\ free \in SUBSET Extent
        /\ closed \in SUBSET Segments
    BY TypeParts DEF TypeOK
  <1>2. l \in Threads
    BY DEF Threads
  <1>3. SettledOK' /\ links' \subseteq Links
    <2>1. CASE HandleAck(l)
      <3> DEFINE waiting == Answered(l, {Head(up[l]).update})
                 recs == AckRecords(l, Head(up[l]).ids)
                 ids == RecordsOf(DOMAIN acks \ DOMAIN waiting)
      <3>1. RecordsOK(recs) /\ WaitingOK(waiting) /\ ids \in SUBSET DOMAIN recs
        BY <1>1, <1>2, HelperTypes
      <3>2. Settle(recs, ids, waiting, free, closed) /\ links' = links
        BY <2>1 DEF HandleAck
      <3> HIDE DEF recs, waiting, ids
      <3>3. SettledOK'
        BY <1>1, <3>1, <3>2, SettleType
      <3> QED
        BY <3>2, <3>3 DEF TypeOK
    <2>2. CASE HandleRelease(l)
      <3> DEFINE recs == Without(l, Head(up[l]).ids)
                 ids == Head(up[l]).ids \cap Held(l)
      <3>1. RecordsOK(recs) /\ ids \in SUBSET DOMAIN recs
        BY <1>1, <1>2, HelperTypes
      <3>2. Settle(recs, ids, acks, free, closed) /\ links' = links
        BY <2>2 DEF HandleRelease
      <3> HIDE DEF recs, ids
      <3>3. SettledOK'
        BY <1>1, <3>1, <3>2, SettleType
      <3> QED
        BY <3>2, <3>3 DEF TypeOK
    <2>3. CASE HandleWorkerExit(l)
      <3> DEFINE waiting == Answered(l, DOMAIN acks)
                 recs == Without(l, DOMAIN retired)
                 ids == RecordsOf(DOMAIN acks \ DOMAIN waiting) \cup Held(l)
      <3>1. RecordsOK(recs) /\ WaitingOK(waiting) /\ ids \in SUBSET DOMAIN recs
        BY <1>1, <1>2, HelperTypes
      <3>2. Settle(recs, ids, waiting, free, closed) /\ links' = links \ {l}
        BY <2>3 DEF HandleWorkerExit
      <3> HIDE DEF recs, waiting, ids
      <3>3. SettledOK'
        BY <1>1, <3>1, <3>2, SettleType
      <3> QED
        BY <3>2, <3>3 DEF TypeOK
    <2> QED
      BY <2>1, <2>2, <2>3 DEF HandleMessage
  <1>4. up' \in [Links -> Seq(UpMessage)]
    <2>1. up[l] \in Seq(UpMessage) /\ up[l] # <<>>
      BY DEF TypeOK, HandleMessage
    <2>2. Tail(up[l]) \in Seq(UpMessage)
      BY <2>1
    <2> QED
      BY <2>2 DEF TypeOK, HandleMessage
  <1>5. UNCHANGED <<phase, files, bytes, private, written, updateId, worker, pins,
                    bound, down>>
    BY DEF HandleMessage
  <1> QED
    BY <1>3, <1>4, <1>5 DEF TypeOK, SettledOK, RecordsOK, Record, WaitingOK

LEMMA DropType ==
  ASSUME TypeOK, NEW t \in Threads, NEW v \in Entry, Drop(t, v)
  PROVE  TypeOK'
  <1>1. UNCHANGED <<phase, files, bytes, private, written, updateId, links, worker,
                    down>>
    BY DEF Drop
  <1>2. pins' \in [Threads -> [Entry -> Nat]]
    <2>1. pins[t][v] \in Nat /\ pins[t][v] > 0
      BY DEF TypeOK, Drop, Pinned
    <2>2. pins[t][v] - 1 \in Nat
      BY <2>1
    <2> QED
      BY <2>2 DEF Drop, TypeOK
  <1>3. CASE pins[t][v] > 1 \/ bound[t][v] = None
    <2>1. UNCHANGED <<pc, bound, retired, acks, free, closed, up>>
      BY <1>3 DEF Drop
    <2> QED
      BY <1>1, <1>2, <2>1 DEF TypeOK
  <1>4. CASE ~(pins[t][v] > 1 \/ bound[t][v] = None)
    <2>1. bound' = [bound EXCEPT ![t][v] = None] /\ bound[t][v] \in RetireId
      BY <1>4 DEF Drop, TypeOK
    <2>2. bound' \in [Threads -> [Entry -> RetireId \cup {None}]]
      BY <2>1 DEF TypeOK
    <2>3. SettledOK' /\ up' \in [Links -> Seq(UpMessage)]
      <3>1. CASE t = Main
        <4> DEFINE recs == Without(Main, {bound[t][v]})
                   ids == {bound[t][v]} \cap Held(Main)
        <4>1. RecordsOK(recs) /\ ids \in SUBSET DOMAIN recs /\ WaitingOK(acks)
          <5>1. RecordsOK(retired) /\ WaitingOK(acks) /\ Main \in Threads
            BY TypeParts DEF Threads
          <5>2. RecordsOK(recs) /\ DOMAIN recs = DOMAIN retired
            <6>1. \A id \in DOMAIN retired :
                    [retired[id] EXCEPT !.holders = @ \ {Main}] \in Record
              BY <5>1 DEF RecordsOK, Record
            <6> QED
              BY <5>1, <6>1 DEF RecordsOK, Without
          <5> QED
            BY <5>1, <5>2 DEF Held
        <4>2. Settle(recs, ids, acks, free, closed) /\ up' = up
          BY <1>4, <3>1 DEF Drop
        <4> HIDE DEF recs, ids
        <4>3. free \in SUBSET Extent /\ closed \in SUBSET Segments
          BY DEF TypeOK
        <4>4. SettledOK'
          BY <4>1, <4>2, <4>3, SettleType
        <4> QED
          BY <4>2, <4>4 DEF TypeOK
      <3>2. CASE t # Main
        <4>1. t \in Links
          BY <3>2 DEF Threads
        <4>2. [type |-> "release", ids |-> {bound[t][v]}] \in UpMessage
          BY <2>1 DEF UpMessage
        <4>3. /\ up' = Post(t, [type |-> "release", ids |-> {bound[t][v]}])
              /\ UNCHANGED <<pc, retired, acks, free, closed>>
          BY <1>4, <3>2 DEF Drop
        <4> QED
          BY <4>1, <4>2, <4>3, PostType, TypeParts DEF SettledOK, RecordsOK, WaitingOK
      <3> QED
        BY <3>1, <3>2
    <2> QED
      BY <1>1, <1>2, <2>2, <2>3 DEF TypeOK, SettledOK, RecordsOK, Record, WaitingOK
  <1> QED
    BY <1>3, <1>4

LEMMA FlushType ==
  ASSUME TypeOK, NEW D \in SUBSET Keys,
         NEW changes \in [D -> private \cup {Plain, None}], Flush(changes)
  PROVE  TypeOK'
  <1>1. changes \in [D -> Value]
    BY DEF TypeOK, Value
  <1>2. Commit(changes, free, closed) /\ free \in SUBSET Extent
        /\ closed \in SUBSET Segments
    BY DEF Flush, TypeOK
  <1>3. /\ files' \in [Threads -> [Keys -> Value]]
        /\ bound' \in [Threads -> [Entry -> RetireId \cup {None}]]
        /\ updateId' \in Nat
        /\ down' \in [Links -> Seq(Update)]
        /\ SettledOK'
    BY <1>1, <1>2, TypeParts, CommitType
  <1>4. /\ UNCHANGED <<phase, bytes, written, pins, links, worker, up>>
        /\ private' \subseteq private
    BY DEF Flush, linkVars
  <1> QED
    BY <1>3, <1>4 DEF TypeOK, SettledOK, RecordsOK, Record, WaitingOK

LEMMA DeliverType ==
  ASSUME TypeOK, NEW l \in Links, Deliver(l)
  PROVE  TypeOK'
  <1> DEFINE msg == Head(down[l])
             ack == [type |-> "ack", update |-> msg.update,
                     ids |-> {msg.update} \X Retained(l, msg)]
  <1>1. down[l] \in Seq(Update) /\ down[l] # <<>>
    BY DEF TypeOK, Deliver
  <1>2. msg \in Update /\ Tail(down[l]) \in Seq(Update)
    BY <1>1
  <1>3. ack \in UpMessage
    BY <1>2 DEF UpMessage, RetireId, Retained, Update
  <1>4. Apply(l, msg) /\ up' = Post(l, ack) /\ down' = [down EXCEPT ![l] = Tail(@)]
    BY DEF Deliver
  <1>5. l \in Threads
    BY DEF Threads
  <1>6. UNCHANGED <<phase, pc, updateId, retired, acks, links, worker, pins, free,
                    bytes, private, closed, written>>
    BY DEF Deliver, poolVars
  <1> HIDE DEF msg, ack
  <1>7. /\ files' \in [Threads -> [Keys -> Value]]
        /\ bound' \in [Threads -> [Entry -> RetireId \cup {None}]]
    BY <1>2, <1>4, <1>5, ApplyType
  <1>8. up' \in [Links -> Seq(UpMessage)]
    BY <1>3, <1>4, PostType
  <1>9. down' \in [Links -> Seq(Update)]
    BY <1>2, <1>4 DEF TypeOK
  <1> QED
    BY <1>6, <1>7, <1>8, <1>9 DEF TypeOK

LEMMA NextType == TypeOK /\ [Next]_vars => TypeOK'
  <1> SUFFICES ASSUME TypeOK, [Next]_vars PROVE TypeOK'
    OBVIOUS
  <1> USE DEF poolVars, linkVars
  <1>1. ASSUME NEW c \in Contents, Allocate(c) PROVE TypeOK'
    <2>1. PICK x \in Allocatable :
            /\ free' = free \ {x}
            /\ bytes' = [bytes EXCEPT ![x] = c]
            /\ private' = private \cup {[extent |-> x, content |-> c]}
      BY <1>1 DEF Allocate
    <2>2. x \in Extent
      BY DEF Allocatable, TypeOK
    <2>3. private' \subseteq Entry
      BY <2>1, <2>2 DEF Entry, TypeOK
    <2> QED
      BY <1>1, <2>1, <2>3 DEF Allocate, TypeOK
  <1>2. ASSUME NEW v \in private, Abandon(v) PROVE TypeOK'
    <2>1. v.extent \in Extent
      BY DEF TypeOK, Entry
    <2> QED
      BY <1>2, <2>1 DEF Abandon, TypeOK, StillUsed
  <1>3. ASSUME NEW D \in SUBSET Keys,
               NEW changes \in [D -> private \cup {Plain, None}], Flush(changes)
        PROVE  TypeOK'
    BY <1>3, FlushType
  <1>4. CASE Compact
    BY <1>4, CompactType
  <1>5. ASSUME NEW l \in Links, HandleMessage(l) PROVE TypeOK'
    BY <1>5, HandleMessageType
  <1>6. ASSUME NEW l \in Links, Link(l) PROVE TypeOK'
    BY <1>6 DEF Link, TypeOK, Threads
  <1>7. ASSUME NEW l \in Links, Attach(l) PROVE TypeOK'
    BY <1>7 DEF Attach, TypeOK
  <1>8. ASSUME NEW l \in Links, Deliver(l) PROVE TypeOK'
    BY <1>8, DeliverType
  <1>9. ASSUME NEW l \in Links, Exit(l) PROVE TypeOK'
    <2>1. [type |-> "close"] \in UpMessage
      BY DEF UpMessage
    <2>2. up' \in [Links -> Seq(UpMessage)]
      BY <1>9, <2>1, PostType DEF Exit
    <2>3. /\ NoFile \in [Keys -> Value] /\ Unpinned \in [Entry -> Nat]
          /\ Unbound \in [Entry -> RetireId \cup {None}]
      BY DEF NoFile, Unpinned, Unbound, Value
    <2>4. /\ files' \in [Threads -> [Keys -> Value]]
          /\ pins' \in [Threads -> [Entry -> Nat]]
          /\ bound' \in [Threads -> [Entry -> RetireId \cup {None}]]
      BY <1>9, <2>3 DEF Exit, TypeOK
    <2>5. worker' \in [Links -> {"none", "linked", "attached", "gone"}]
      BY <1>9 DEF Exit, TypeOK
    <2>6. down' \in [Links -> Seq(Update)]
      BY <1>9 DEF Exit, TypeOK
    <2> QED
      BY <1>9, <2>2, <2>4, <2>5, <2>6 DEF Exit, TypeOK
  <1>10. ASSUME NEW t \in Threads, NEW k \in Keys, Acquire(t, k) PROVE TypeOK'
    <2>1. pins[t][files[t][k]] + 1 \in Nat
      BY <1>10 DEF Acquire, TypeOK
    <2> QED
      BY <1>10, <2>1 DEF Acquire, TypeOK
  <1>11. ASSUME NEW t \in Threads, NEW v \in Entry, Drop(t, v) PROVE TypeOK'
    BY <1>11, DropType
  <1>12. CASE Close
    <2>1. /\ NoFile \in [Keys -> Value] /\ Unpinned \in [Entry -> Nat]
          /\ Unbound \in [Entry -> RetireId \cup {None}]
      BY DEF NoFile, Unpinned, Unbound, Value
    <2>2. retired' = [id \in {} |-> retired[id]] /\ acks' = [u \in {} |-> acks[u]]
      BY <1>12 DEF Close, Restrict
    <2>3. /\ files' \in [Threads -> [Keys -> Value]]
          /\ pins' \in [Threads -> [Entry -> Nat]]
          /\ bound' \in [Threads -> [Entry -> RetireId \cup {None}]]
      BY <1>12, <2>1 DEF Close, TypeOK
    <2>4. up' \in [Links -> Seq(UpMessage)]
      BY <1>12 DEF Close
    <2>5. RecordsOK(retired') /\ WaitingOK(acks')
      BY <2>2 DEF RecordsOK, WaitingOK
    <2> QED
      BY <1>12, <2>3, <2>4, <2>5 DEF Close, TypeOK, RecordsOK, Record, WaitingOK
  <1>13. CASE UNCHANGED vars
    BY <1>13 DEF vars, TypeOK
  <1> QED
    BY <1>1, <1>2, <1>3, <1>4, <1>5, <1>6, <1>7, <1>8, <1>9, <1>10, <1>11, <1>12,
       <1>13 DEF Next

\* Every state of the kernel and its workers is well formed.
THEOREM TypeCorrect == Spec => []TypeOK
  BY InitType, NextType, PTL DEF Spec

-----------------------------------------------------------------------------
(* Queues. *)

LEMMA TailFacts ==
  ASSUME NEW S, NEW s \in Seq(S), s # <<>>
  PROVE  /\ Len(s) \in Nat /\ Len(s) >= 1 /\ Head(s) = s[1]
         /\ Tail(s) \in Seq(S) /\ Len(Tail(s)) = Len(s) - 1
         /\ \A i \in 1..Len(Tail(s)) : Tail(s)[i] = s[i + 1]
  OBVIOUS

LEMMA MessageFacts ==
  /\ \A m \in UpMessage : m.type = "ack" => m.update \in Nat /\ m.ids \subseteq RetireId
  /\ \A m \in UpMessage : m.type = "release" => m.ids \subseteq RetireId
  /\ \A m \in Update : m.update \in Nat /\ m.retires \subseteq Keys
  BY DEF UpMessage, Update

LEMMA AppendFacts ==
  ASSUME NEW S, NEW s \in Seq(S), NEW e \in S
  PROVE  /\ Append(s, e) \in Seq(S) /\ Len(s) \in Nat
         /\ Len(Append(s, e)) = Len(s) + 1
         /\ \A i \in 1..Len(s) : Append(s, e)[i] = s[i]
         /\ Append(s, e)[Len(s) + 1] = e
  OBVIOUS

-----------------------------------------------------------------------------
(* Ownership of extents. *)

\* Freeing the extents of settled records keeps every other owner's extent.
LEMMA OwnedSettle ==
  ASSUME NEW fr, NEW by, NEW prv, NEW pub, NEW recs,
         Owned(fr, by, prv, pub, recs), NEW done \in SUBSET DOMAIN recs
  PROVE  Owned(fr \cup {recs[id].entry.extent : id \in done}, by, prv, pub,
               Restrict(recs, DOMAIN recs \ done))
  BY DEF Owned, Restrict

-----------------------------------------------------------------------------
(* What settling records and handling messages leave alone. *)

\* A record that somebody holds, or whose ACKs are due, survives a settle.
LEMMA SettleKeeps ==
  ASSUME NEW recs, NEW ids \in SUBSET DOMAIN recs, NEW waiting, NEW fr, NEW cl,
         Settle(recs, ids, waiting, fr, cl)
  PROVE  /\ acks' = waiting
         /\ DOMAIN retired' \subseteq DOMAIN recs
         /\ \A id \in DOMAIN retired' : retired'[id] = recs[id]
         /\ \A id \in DOMAIN recs :
              \/ id \notin ids
              \/ recs[id].holders # {}
              \/ id[1] \in DOMAIN waiting
              => id \in DOMAIN retired'
  BY DEF Settle, Restrict, Freeable

LEMMA SettleOwned ==
  ASSUME NEW recs, NEW ids \in SUBSET DOMAIN recs, NEW waiting, NEW fr, NEW cl,
         Settle(recs, ids, waiting, fr, cl), NEW by, NEW prv, NEW pub,
         Owned(fr, by, prv, pub, recs)
  PROVE  Owned(free', by, prv, pub, retired')
  <1> DEFINE done == {id \in ids : Freeable(recs[id], id[1], waiting)}
  <1>1. done \in SUBSET DOMAIN recs
    OBVIOUS
  <1>2. /\ free' = fr \cup {recs[id].entry.extent : id \in done}
        /\ retired' = Restrict(recs, DOMAIN recs \ done)
    BY DEF Settle
  <1> HIDE DEF done
  <1> QED
    BY <1>1, <1>2, OwnedSettle

\* The invariant of a link survives any step that leaves its queues, projection
\* and consumers alone and keeps what the link holds or owes.
LEMMA LinkKeeps ==
  ASSUME TypeOK, TypeOK', NEW l \in Links, LinkInv(l),
         l \in links', updateId' = updateId,
         files'[l] = files[l], down'[l] = down[l], up'[l] = up[l],
         pins'[l] = pins[l], bound'[l] = bound[l], files'[Main] = files[Main],
         \A u \in DOMAIN acks : l \in acks[u] => u \in DOMAIN acks' /\ l \in acks'[u],
         \A id \in DOMAIN retired :
           \/ l \in retired[id].holders
           \/ id[1] \in DOMAIN acks /\ l \in acks[id[1]]
           => /\ id \in DOMAIN retired'
              /\ retired'[id].entry = retired[id].entry
              /\ l \in retired[id].holders => l \in retired'[id].holders
  PROVE  LinkInv(l)'
  <1>1. InOrder(l)'
    BY DEF LinkInv, InOrder
  <1>2. Pinning(l)'
    BY DEF LinkInv, Pinning
  <1>4. \A i, k : /\ Touches(l, i, k)' <=> Touches(l, i, k)
                  /\ Source(l, i, k)' <=> Source(l, i, k)
                  /\ ValueAt(l, i, k)' = ValueAt(l, i, k)
    BY DEF Touches, Source, ValueAt
  <1>5. Protected(l)'
    <2> SUFFICES ASSUME NEW k \in Keys, NEW i \in 0..Len(down[l]),
                        Source(l, i, k), ValueAt(l, i, k) \in Entry,
                        NEW j \in (i + 1)..Len(down[l]),
                        AwaitedAs(l, <<down[l][j].update, k>>, ValueAt(l, i, k))
                 PROVE  /\ <<down[l][j].update, k>> \in DOMAIN retired'
                        /\ retired'[<<down[l][j].update, k>>].entry = ValueAt(l, i, k)
                        /\ down[l][j].update \in DOMAIN acks'
                        /\ l \in acks'[down[l][j].update]
      BY <1>4 DEF LinkInv, Protected, AwaitedAs
    <2> QED
      BY DEF AwaitedAs
  <1>6. \A id, v : Secured(l, id, v) => Secured(l, id, v)'
    BY DEF Secured
  <1> QED
    BY <1>1, <1>2, <1>5, <1>6 DEF LinkInv

\* So does the invariant of the main thread's consumers.
LEMMA MainKeeps ==
  ASSUME MainInv, files'[Main] = files[Main],
         pins'[Main] = pins[Main], bound'[Main] = bound[Main],
         \A id \in DOMAIN retired : Main \in retired[id].holders =>
           /\ id \in DOMAIN retired'
           /\ retired'[id].entry = retired[id].entry
           /\ Main \in retired'[id].holders
  PROVE  MainInv'
  BY DEF MainInv, Pinning

\* A settle of records whose entries are those of the retired ones.
LEMMA SettleStep ==
  ASSUME Owned(free, bytes, private, files[Main], retired),
         \A id \in DOMAIN retired : id[1] <= updateId,
         \A u \in DOMAIN acks : u <= updateId,
         UNCHANGED <<files, bytes, private, updateId>>,
         NEW recs, DOMAIN recs = DOMAIN retired,
         \A id \in DOMAIN retired : recs[id].entry = retired[id].entry,
         NEW ids \in SUBSET DOMAIN recs, NEW waiting, DOMAIN waiting \subseteq DOMAIN acks,
         Settle(recs, ids, waiting, free, closed)
  PROVE  /\ Owned(free, bytes, private, files[Main], retired)'
         /\ \A id \in DOMAIN retired' : id[1] <= updateId'
         /\ \A u \in DOMAIN acks' : u <= updateId'
         /\ acks' = waiting
         /\ DOMAIN retired' \subseteq DOMAIN retired
         /\ \A id \in DOMAIN retired' :
              retired'[id] = recs[id] /\ retired'[id].entry = retired[id].entry
         /\ \A id \in DOMAIN retired :
              \/ id \notin ids
              \/ recs[id].holders # {}
              \/ id[1] \in DOMAIN waiting
              => id \in DOMAIN retired'
  <1>1. Owned(free, bytes, private, files[Main], recs)
    BY DEF Owned
  <1>2. Owned(free', bytes, private, files[Main], retired')
    BY <1>1, SettleOwned
  <1>3. Owned(free, bytes, private, files[Main], retired)'
    BY <1>2 DEF Owned
  <1> QED
    BY <1>3, SettleKeeps

\* What handling a message does to the holders and to the ACKs still due.
LEMMA RecordEffects ==
  ASSUME TypeOK, NEW t
  PROVE  \A id \in DOMAIN retired :
           /\ [retired[id] EXCEPT !.holders = @ \ {t}].entry = retired[id].entry
           /\ [retired[id] EXCEPT !.holders = @ \ {t}].holders = retired[id].holders \ {t}
           /\ [retired[id] EXCEPT !.holders = @ \cup {t}].entry = retired[id].entry
           /\ [retired[id] EXCEPT !.holders = @ \cup {t}].holders
                = retired[id].holders \cup {t}
  <1>1. \A id \in DOMAIN retired : retired[id] \in [entry : Entry, holders : SUBSET Threads]
    BY DEF TypeOK
  <1> QED
    BY <1>1

LEMMA WithoutEffects ==
  ASSUME TypeOK, NEW t, NEW ids
  PROVE  /\ DOMAIN Without(t, ids) = DOMAIN retired
         /\ \A id \in DOMAIN retired :
              /\ Without(t, ids)[id].entry = retired[id].entry
              /\ \A h : h \in Without(t, ids)[id].holders <=>
                          h \in retired[id].holders /\ ~(h = t /\ id \in ids)
  BY RecordEffects DEF Without

LEMMA AckEffects ==
  ASSUME TypeOK, NEW l, NEW ids
  PROVE  /\ DOMAIN AckRecords(l, ids) = DOMAIN retired
         /\ \A id \in DOMAIN retired :
              /\ AckRecords(l, ids)[id].entry = retired[id].entry
              /\ \A h : h \in AckRecords(l, ids)[id].holders <=>
                          h \in retired[id].holders \/ (h = l /\ id \in ids)
  BY RecordEffects DEF AckRecords

LEMMA AnsweredEffects ==
  ASSUME NEW l, NEW updates
  PROVE  /\ DOMAIN Answered(l, updates) \subseteq DOMAIN acks
         /\ \A u \in DOMAIN acks : \A h \in acks[u] :
              h # l \/ u \notin updates =>
                /\ u \in DOMAIN Answered(l, updates)
                /\ h \in Answered(l, updates)[u]
  BY DEF Answered

-----------------------------------------------------------------------------
(* The main thread handles a message of link l. *)

\* The invariant of the link whose message is handled: its first message is gone,
\* an ACK answers for its own update only, and a release names nothing that is
\* still bound.
LEMMA LinkTail ==
  ASSUME TypeOK, TypeOK', NEW l \in Links, LinkInv(l), LinkShape(l),
         up[l] # <<>>, up'[l] = Tail(up[l]),
         l \in links', updateId' = updateId,
         files'[l] = files[l], down'[l] = down[l],
         pins'[l] = pins[l], bound'[l] = bound[l], files'[Main] = files[Main],
         \A u \in DOMAIN acks : l \in acks[u] =>
           \/ up[l][1].type = "ack" /\ up[l][1].update = u
           \/ u \in DOMAIN acks' /\ l \in acks'[u],
         \A id \in DOMAIN retired' : retired'[id].entry = retired[id].entry,
         \A id \in DOMAIN retired :
           /\ id[1] \in DOMAIN acks' /\ l \in acks'[id[1]] => id \in DOMAIN retired'
           /\ /\ l \in retired[id].holders
              /\ up[l][1].type = "release" => id \notin up[l][1].ids
              => id \in DOMAIN retired' /\ l \in retired'[id].holders
           /\ up[l][1].type = "ack" /\ id \in up[l][1].ids =>
                id \in DOMAIN retired' /\ l \in retired'[id].holders
  PROVE  LinkInv(l)'
  <1>1. /\ up[l] \in Seq(UpMessage) /\ down[l] \in Seq(Update)
        /\ Len(up[l]) \in Nat /\ Len(up[l]) >= 1 /\ Len(down[l]) \in Nat
        /\ Len(up'[l]) = Len(up[l]) - 1
        /\ \A i \in 1..Len(up'[l]) : up'[l][i] = up[l][i + 1]
    BY TailFacts DEF TypeOK
  <1>2. InOrder(l)'
    BY <1>1 DEF LinkInv, InOrder
  <1>3. Pinning(l)'
    BY DEF LinkInv, Pinning
  <1>4. \A i, k : /\ Touches(l, i, k)' <=> Touches(l, i, k)
                  /\ Source(l, i, k)' <=> Source(l, i, k)
                  /\ ValueAt(l, i, k)' = ValueAt(l, i, k)
    BY DEF Touches, Source, ValueAt
  <1>5. Protected(l)'
    <2> SUFFICES ASSUME NEW k \in Keys, NEW i \in 0..Len(down[l]),
                        Source(l, i, k), ValueAt(l, i, k) \in Entry,
                        NEW j \in (i + 1)..Len(down[l]),
                        AwaitedAs(l, <<down[l][j].update, k>>, ValueAt(l, i, k))
                 PROVE  /\ <<down[l][j].update, k>> \in DOMAIN retired'
                        /\ retired'[<<down[l][j].update, k>>].entry = ValueAt(l, i, k)
                        /\ down[l][j].update \in DOMAIN acks'
                        /\ l \in acks'[down[l][j].update]
      BY <1>4 DEF LinkInv, Protected, AwaitedAs
    <2>1. up[l][1].type = "ack" => up[l][1].update # down[l][j].update
      <3>1. j \in 1..Len(down[l]) /\ 1 \in 1..Len(up[l])
        BY <1>1
      <3>2. up[l][1].type = "ack" => up[l][1].update < down[l][j].update
        BY <3>1 DEF LinkInv, InOrder
      <3>3. down[l][j].update \in Nat
        BY <1>1, <3>1, MessageFacts
      <3>4. up[l][1].type = "ack" => up[l][1].update \in Nat
        BY <1>1, <3>1, MessageFacts
      <3> QED
        BY <3>2, <3>3, <3>4
    <2> QED
      BY <2>1 DEF AwaitedAs
  <1>6. ASSUME NEW v \in Entry, bound[l][v] # None
        PROVE  /\ bound[l][v] \in DOMAIN retired'
               /\ retired'[bound[l][v]].entry = v
               /\ \/ l \in retired'[bound[l][v]].holders
                  \/ /\ bound[l][v][1] \in DOMAIN acks'
                     /\ l \in acks'[bound[l][v][1]]
                     /\ \E i \in 1..Len(up'[l]) :
                          /\ up'[l][i].type = "ack"
                          /\ up'[l][i].update = bound[l][v][1]
                          /\ bound[l][v] \in up'[l][i].ids
    <2> DEFINE id == bound[l][v]
    <2>1. Secured(l, id, v)
      BY <1>6 DEF LinkInv
    <2>2. id \in DOMAIN retired /\ retired[id].entry = v
      BY <2>1 DEF Secured
    <2>3. up[l][1].type = "release" => id \notin up[l][1].ids
      BY <1>1, <2>1 DEF Secured
    <2>4. CASE l \in retired[id].holders
      BY <2>2, <2>3, <2>4
    <2>5. CASE l \notin retired[id].holders
      <3>1. PICK i \in 1..Len(up[l]) :
              up[l][i].type = "ack" /\ up[l][i].update = id[1] /\ id \in up[l][i].ids
        BY <2>1, <2>5 DEF Secured
      <3>2. id[1] \in DOMAIN acks /\ l \in acks[id[1]]
        BY <2>1, <2>5 DEF Secured
      <3>3. CASE i = 1
        BY <2>2, <3>1, <3>3
      <3>4. CASE i # 1
        <4>1. ~(up[l][1].type = "ack" /\ up[l][1].update = id[1])
          BY <1>1, <3>1, <3>4 DEF LinkInv, InOrder
        <4>2. id[1] \in DOMAIN acks' /\ l \in acks'[id[1]]
          BY <3>2, <4>1
        <4>3. id \in DOMAIN retired' /\ retired'[id].entry = v
          BY <2>2, <4>2
        <4>4. i - 1 \in 1..Len(up'[l]) /\ up'[l][i - 1] = up[l][i]
          BY <1>1, <3>4
        <4> QED
          BY <3>1, <4>2, <4>3, <4>4
      <3> QED
        BY <3>3, <3>4
    <2> QED
      BY <2>4, <2>5
  <1>7. \A v \in Entry : bound'[l][v] # None => Secured(l, bound[l][v], v)'
    <2> SUFFICES ASSUME NEW v \in Entry, bound[l][v] # None
                 PROVE  Secured(l, bound[l][v], v)'
      OBVIOUS
    <2>1. Secured(l, bound[l][v], v)
      BY DEF LinkInv
    <2>2. \A i \in 1..Len(up'[l]) : up'[l][i].type = "release" =>
            bound[l][v] \notin up'[l][i].ids
      BY <1>1, <2>1 DEF Secured
    <2>3. \A j \in 1..Len(down'[l]) : bound[l][v][1] < down'[l][j].update
      BY <2>1 DEF Secured
    <2> QED
      BY <1>6, <2>2, <2>3 DEF Secured
  <1> QED
    BY <1>2, <1>3, <1>5, <1>7 DEF LinkInv

LEMMA HandleMessageInv ==
  ASSUME IInv, TypeOK', NEW l \in Links, HandleMessage(l)
  PROVE  IInv'
  <1>1. /\ TypeOK /\ phase = "ready" /\ phase' = "ready" /\ ReadyInv
        /\ up[l] # <<>> /\ up' = [up EXCEPT ![l] = Tail(@)]
        /\ UNCHANGED <<files, bytes, private, updateId, worker, pins, bound, down>>
        /\ links' \subseteq links
    BY DEF HandleMessage, HandleAck, HandleRelease, HandleWorkerExit, IInv
  <1>2. /\ up[l] \in Seq(UpMessage) /\ Len(up[l]) \in Nat /\ 1 \in 1..Len(up[l])
        /\ Head(up[l]) = up[l][1] /\ up'[l] = Tail(up[l])
        /\ \A h \in Links : h # l => up'[h] = up[h]
    BY <1>1, TailFacts DEF TypeOK
  <1>3. l \in Threads /\ \A h \in Links : h # Main
    BY ThreadsAssumption DEF Threads
  <1> DEFINE m == up[l][1]
             Gone == m.type = "close"
             Answers == IF m.type = "ack" THEN {m.update} ELSE {}
             Releases == IF m.type = "release" THEN m.ids ELSE {}
  \* What the three handlers have in common.
  <1>4. /\ Owned(free, bytes, private, files[Main], retired)'
        /\ \A id \in DOMAIN retired' : id[1] <= updateId'
        /\ \A u \in DOMAIN acks' : u <= updateId'
        /\ \A id \in DOMAIN retired' : retired'[id].entry = retired[id].entry
        /\ \A u \in DOMAIN acks : \A h \in acks[u] :
             h # l \/ (~Gone /\ u \notin Answers) =>
               u \in DOMAIN acks' /\ h \in acks'[u]
        /\ \A id \in DOMAIN retired : \A h \in retired[id].holders :
             h # l \/ (~Gone /\ id \notin Releases) =>
               id \in DOMAIN retired' /\ h \in retired'[id].holders
        /\ \A id \in DOMAIN retired :
             /\ id[1] \in DOMAIN acks' => id \in DOMAIN retired'
             /\ m.type = "ack" /\ id \in m.ids =>
                  id \in DOMAIN retired' /\ l \in retired'[id].holders
        /\ \A h \in links : h # l \/ ~Gone => h \in links'
    <2>1. CASE HandleAck(l)
      <3> DEFINE waiting == Answered(l, {m.update})
                 recs == AckRecords(l, m.ids)
                 ids == RecordsOf(DOMAIN acks \ DOMAIN waiting)
      <3>1. m.type = "ack" /\ ~Gone /\ Answers = {m.update} /\ Releases = {}
        BY <1>2, <2>1 DEF HandleAck
      <3>2. Settle(recs, ids, waiting, free, closed) /\ links' = links
        BY <1>2, <2>1 DEF HandleAck
      <3>3. /\ DOMAIN recs = DOMAIN retired /\ ids \in SUBSET DOMAIN recs
            /\ \A id \in DOMAIN retired :
                 /\ recs[id].entry = retired[id].entry
                 /\ \A h : h \in recs[id].holders <=>
                             h \in retired[id].holders \/ (h = l /\ id \in m.ids)
            /\ DOMAIN waiting \subseteq DOMAIN acks
            /\ \A u \in DOMAIN acks : \A h \in acks[u] :
                 h # l \/ u # m.update => u \in DOMAIN waiting /\ h \in waiting[u]
        <4>1. /\ DOMAIN recs = DOMAIN retired
              /\ \A id \in DOMAIN retired :
                   /\ recs[id].entry = retired[id].entry
                   /\ \A h : h \in recs[id].holders <=>
                               h \in retired[id].holders \/ (h = l /\ id \in m.ids)
          BY <1>1, AckEffects
        <4>2. /\ DOMAIN waiting \subseteq DOMAIN acks
              /\ \A u \in DOMAIN acks : \A h \in acks[u] :
                   h # l \/ u # m.update => u \in DOMAIN waiting /\ h \in waiting[u]
          BY AnsweredEffects
        <4>3. ids \in SUBSET DOMAIN retired
          BY DEF RecordsOf
        <4> QED
          BY <4>1, <4>2, <4>3
      <3> HIDE DEF waiting, recs, ids, m
      <3>4. /\ Owned(free, bytes, private, files[Main], retired)'
            /\ \A id \in DOMAIN retired' : id[1] <= updateId'
            /\ \A u \in DOMAIN acks' : u <= updateId'
            /\ acks' = waiting
            /\ DOMAIN retired' \subseteq DOMAIN retired
            /\ \A id \in DOMAIN retired' :
                 retired'[id] = recs[id] /\ retired'[id].entry = retired[id].entry
            /\ \A id \in DOMAIN retired :
                 \/ id \notin ids
                 \/ recs[id].holders # {}
                 \/ id[1] \in DOMAIN waiting
                 => id \in DOMAIN retired'
        BY <1>1, <3>2, <3>3, SettleStep DEF ReadyInv
      <3> QED
        BY <3>1, <3>2, <3>3, <3>4
    <2>2. CASE HandleRelease(l)
      <3> DEFINE recs == Without(l, m.ids)
                 ids == m.ids \cap Held(l)
      <3>1. m.type = "release" /\ ~Gone /\ Answers = {} /\ Releases = m.ids
        BY <1>2, <2>2 DEF HandleRelease
      <3>2. Settle(recs, ids, acks, free, closed) /\ links' = links
        BY <1>2, <2>2 DEF HandleRelease
      <3>3. /\ DOMAIN recs = DOMAIN retired /\ ids \in SUBSET DOMAIN recs
            /\ \A id \in DOMAIN retired :
                 /\ recs[id].entry = retired[id].entry
                 /\ \A h : h \in recs[id].holders <=>
                             h \in retired[id].holders /\ ~(h = l /\ id \in m.ids)
        <4>1. /\ DOMAIN recs = DOMAIN retired
              /\ \A id \in DOMAIN retired :
                   /\ recs[id].entry = retired[id].entry
                   /\ \A h : h \in recs[id].holders <=>
                               h \in retired[id].holders /\ ~(h = l /\ id \in m.ids)
          BY <1>1, WithoutEffects
        <4>2. ids \in SUBSET DOMAIN retired
          BY DEF Held
        <4> QED
          BY <4>1, <4>2
      <3> HIDE DEF recs, ids, m
      <3>4. /\ Owned(free, bytes, private, files[Main], retired)'
            /\ \A id \in DOMAIN retired' : id[1] <= updateId'
            /\ \A u \in DOMAIN acks' : u <= updateId'
            /\ acks' = acks
            /\ DOMAIN retired' \subseteq DOMAIN retired
            /\ \A id \in DOMAIN retired' :
                 retired'[id] = recs[id] /\ retired'[id].entry = retired[id].entry
            /\ \A id \in DOMAIN retired :
                 \/ id \notin ids
                 \/ recs[id].holders # {}
                 \/ id[1] \in DOMAIN acks
                 => id \in DOMAIN retired'
        BY <1>1, <3>2, <3>3, SettleStep DEF ReadyInv
      <3> QED
        BY <3>1, <3>2, <3>3, <3>4
    <2>3. CASE HandleWorkerExit(l)
      <3> DEFINE waiting == Answered(l, DOMAIN acks)
                 recs == Without(l, DOMAIN retired)
                 ids == RecordsOf(DOMAIN acks \ DOMAIN waiting) \cup Held(l)
      <3>1. m.type = "close" /\ Gone
        BY <1>2, <2>3 DEF HandleWorkerExit
      <3>2. Settle(recs, ids, waiting, free, closed) /\ links' = links \ {l}
        BY <1>2, <2>3 DEF HandleWorkerExit
      <3>3. /\ DOMAIN recs = DOMAIN retired /\ ids \in SUBSET DOMAIN recs
            /\ \A id \in DOMAIN retired :
                 /\ recs[id].entry = retired[id].entry
                 /\ \A h : h \in recs[id].holders <=>
                             h \in retired[id].holders /\ ~(h = l /\ id \in DOMAIN retired)
            /\ DOMAIN waiting \subseteq DOMAIN acks
            /\ \A u \in DOMAIN acks : \A h \in acks[u] :
                 h # l \/ u \notin DOMAIN acks => u \in DOMAIN waiting /\ h \in waiting[u]
        <4>1. /\ DOMAIN recs = DOMAIN retired
              /\ \A id \in DOMAIN retired :
                   /\ recs[id].entry = retired[id].entry
                   /\ \A h : h \in recs[id].holders <=>
                               h \in retired[id].holders /\ ~(h = l /\ id \in DOMAIN retired)
          BY <1>1, WithoutEffects
        <4>2. /\ DOMAIN waiting \subseteq DOMAIN acks
              /\ \A u \in DOMAIN acks : \A h \in acks[u] :
                   h # l \/ u \notin DOMAIN acks => u \in DOMAIN waiting /\ h \in waiting[u]
          BY AnsweredEffects
        <4>3. ids \in SUBSET DOMAIN retired
          BY DEF RecordsOf, Held
        <4> QED
          BY <4>1, <4>2, <4>3
      <3> HIDE DEF waiting, recs, ids, m
      <3>4. /\ Owned(free, bytes, private, files[Main], retired)'
            /\ \A id \in DOMAIN retired' : id[1] <= updateId'
            /\ \A u \in DOMAIN acks' : u <= updateId'
            /\ acks' = waiting
            /\ DOMAIN retired' \subseteq DOMAIN retired
            /\ \A id \in DOMAIN retired' :
                 retired'[id] = recs[id] /\ retired'[id].entry = retired[id].entry
            /\ \A id \in DOMAIN retired :
                 \/ id \notin ids
                 \/ recs[id].holders # {}
                 \/ id[1] \in DOMAIN waiting
                 => id \in DOMAIN retired'
        BY <1>1, <3>2, <3>3, SettleStep DEF ReadyInv
      <3> QED
        BY <3>1, <3>2, <3>3, <3>4
    <2> QED
      BY <2>1, <2>2, <2>3 DEF HandleMessage
  <1> HIDE DEF m
  <1>5. MainInv'
    <2>1. \A id \in DOMAIN retired : Main \in retired[id].holders =>
            /\ id \in DOMAIN retired'
            /\ retired'[id].entry = retired[id].entry
            /\ Main \in retired'[id].holders
      BY <1>3, <1>4
    <2> QED
      BY <1>1, <2>1, MainKeeps DEF ReadyInv
  <1>6. ASSUME NEW h \in Links, Alive(h)' PROVE LinkInv(h)'
    <2>1. Alive(h) /\ LinkInv(h) /\ h \in links
      BY <1>1, <1>6 DEF Alive, ReadyInv, LinkInv, InOrder
    <2>2. CASE h # l
      <3>1. \A u \in DOMAIN acks : h \in acks[u] => u \in DOMAIN acks' /\ h \in acks'[u]
        BY <1>4, <2>2
      <3>2. \A id \in DOMAIN retired :
              \/ h \in retired[id].holders
              \/ id[1] \in DOMAIN acks /\ h \in acks[id[1]]
              => /\ id \in DOMAIN retired'
                 /\ retired'[id].entry = retired[id].entry
                 /\ h \in retired[id].holders => h \in retired'[id].holders
        BY <1>4, <2>2, <3>1
      <3>3. h \in links'
        BY <1>4, <2>1, <2>2
      <3> QED
        BY <1>1, <1>2, <2>1, <2>2, <3>1, <3>2, <3>3, LinkKeeps
    <2>3. CASE h = l
      <3>1. ~Gone
        BY <1>2, <2>1, <2>3 DEF LinkInv, InOrder, m
      <3>2. l \in links' /\ LinkShape(l)
        BY <1>4, <2>1, <2>3, <3>1 DEF IInv
      <3>3. \A u \in DOMAIN acks : l \in acks[u] =>
              \/ m.type = "ack" /\ m.update = u
              \/ u \in DOMAIN acks' /\ l \in acks'[u]
        BY <1>4, <3>1
      <3>4. \A id \in DOMAIN retired :
              /\ id[1] \in DOMAIN acks' /\ l \in acks'[id[1]] => id \in DOMAIN retired'
              /\ /\ l \in retired[id].holders
                 /\ m.type = "release" => id \notin m.ids
                 => id \in DOMAIN retired' /\ l \in retired'[id].holders
              /\ m.type = "ack" /\ id \in m.ids =>
                   id \in DOMAIN retired' /\ l \in retired'[id].holders
        BY <1>4, <3>1
      <3>5. \A id \in DOMAIN retired' : retired'[id].entry = retired[id].entry
        BY <1>4
      <3> QED
        BY <1>1, <1>2, <2>1, <2>3, <3>2, <3>3, <3>4, <3>5, LinkTail DEF m
    <2> QED
      BY <2>2, <2>3
  <1>7. \A h \in Links : LinkShape(h)'
    BY <1>1, <1>2 DEF IInv, LinkShape, Alive
  <1>8. ReadyInv'
    BY <1>4, <1>5, <1>6 DEF ReadyInv
  <1> QED
    BY <1>1, <1>7, <1>8 DEF IInv

-----------------------------------------------------------------------------
(* A commit, by a publication or by a relocation. *)

\* Applying an update binds the versions it retires and the thread still reads.
LEMMA ApplyFacts ==
  ASSUME TypeOK, NEW t \in Threads, NEW msg, msg.retires \subseteq Keys, Apply(t, msg)
  PROVE  /\ files' = [files EXCEPT ![t] = Overlay(files[t], msg.changes)]
         /\ \A s \in Threads : s # t => bound'[s] = bound[s]
         /\ \A k \in Keys : k \in Retained(t, msg) <=>
              k \in msg.retires /\ files[t][k] \in Entry /\ Pinned(t, files[t][k])
         /\ \A v \in Entry :
              \/ /\ bound'[t][v] = bound[t][v]
                 /\ ~ \E k \in msg.retires : files[t][k] = v /\ Pinned(t, v)
              \/ \E k \in msg.retires : /\ files[t][k] = v
                                        /\ Pinned(t, v)
                                        /\ bound'[t][v] = <<msg.update, k>>
  <1>1. files' = [files EXCEPT ![t] = Overlay(files[t], msg.changes)]
    BY DEF Apply, TypeOK
  <1>2. /\ \A s \in Threads : s # t => bound'[s] = bound[s]
        /\ \A v \in Entry :
             bound'[t][v] = IF \E k \in Retained(t, msg) : files[t][k] = v
                            THEN <<msg.update, CHOOSE k \in Retained(t, msg) :
                                                 files[t][k] = v>>
                            ELSE bound[t][v]
    BY DEF Apply, TypeOK
  <1>3. /\ Retained(t, msg) \subseteq Keys
        /\ \A k \in Keys : k \in Retained(t, msg) <=>
             k \in msg.retires /\ files[t][k] \in Entry /\ Pinned(t, files[t][k])
    BY DEF Retained
  <1>4. ASSUME NEW v \in Entry
        PROVE  \/ /\ bound'[t][v] = bound[t][v]
                  /\ ~ \E k \in msg.retires : files[t][k] = v /\ Pinned(t, v)
               \/ \E k \in msg.retires : /\ files[t][k] = v
                                         /\ Pinned(t, v)
                                         /\ bound'[t][v] = <<msg.update, k>>
    <2>1. CASE \E k \in Retained(t, msg) : files[t][k] = v
      <3> DEFINE c == CHOOSE k \in Retained(t, msg) : files[t][k] = v
      <3>1. c \in Retained(t, msg) /\ files[t][c] = v
        BY <2>1
      <3>2. bound'[t][v] = <<msg.update, c>>
        BY <1>2, <2>1
      <3> HIDE DEF c
      <3> QED
        BY <1>3, <3>1, <3>2
    <2>2. CASE ~ \E k \in Retained(t, msg) : files[t][k] = v
      <3>1. bound'[t][v] = bound[t][v]
        BY <1>2, <2>2
      <3> QED
        BY <1>3, <2>2, <3>1
    <2> QED
      BY <2>1, <2>2
  <1> QED
    BY <1>1, <1>2, <1>3, <1>4

\* What a commit does to the projection and the consumers of the main thread, to
\* the records and to the ACKs that are due.
Committed(D, changes, prv, by) ==
  LET gone == {k \in D : files[Main][k] \in Entry}
      msg == [update |-> updateId + 1, changes |-> changes, retires |-> gone]
  IN  /\ files' = [files EXCEPT ![Main] = Overlay(files[Main], changes)]
      /\ \A t \in Threads : t # Main => bound'[t] = bound[t]
      /\ \A v \in Entry :
           \/ /\ bound'[Main][v] = bound[Main][v]
              /\ ~ \E k \in gone : files[Main][k] = v /\ Pinned(Main, v)
           \/ \E k \in gone : /\ files[Main][k] = v
                              /\ Pinned(Main, v)
                              /\ bound'[Main][v] = <<updateId + 1, k>>
      /\ updateId' = updateId + 1
      /\ down' = [l \in Links |->
                    IF l \in Told THEN Append(down[l], msg) ELSE down[l]]
      /\ Owned(free', by, prv \ {changes[k] : k \in D}, files'[Main], retired')
      /\ \A id \in DOMAIN retired' : id[1] <= updateId'
      /\ \A u \in DOMAIN acks' : u <= updateId'
      /\ \A id \in DOMAIN retired :
           id \in DOMAIN retired' /\ retired'[id] = retired[id]
      /\ \A u \in DOMAIN acks : u \in DOMAIN acks' /\ acks'[u] = acks[u]
      /\ \A k \in gone : links # {} =>
           /\ updateId + 1 \in DOMAIN acks'
           /\ acks'[updateId + 1] = links
           /\ <<updateId + 1, k>> \in DOMAIN retired'
           /\ retired'[<<updateId + 1, k>>].entry = files[Main][k]
      /\ \A k \in gone : Pinned(Main, files[Main][k]) =>
           /\ <<updateId + 1, k>> \in DOMAIN retired'
           /\ retired'[<<updateId + 1, k>>].entry = files[Main][k]
           /\ Main \in retired'[<<updateId + 1, k>>].holders

LEMMA CommitFacts ==
  ASSUME TypeOK, NEW D \in SUBSET Keys, NEW changes \in [D -> Value],
         NEW fr, NEW cl, NEW prv, NEW by, Commit(changes, fr, cl),
         \A id \in DOMAIN retired : id[1] <= updateId,
         \A u \in DOMAIN acks : u <= updateId,
         prv \in SUBSET Entry, changes \in [D -> prv \cup {Plain, None}],
         \A j, k \in D : changes[j] \in Entry /\ changes[j] = changes[k] => j = k,
         Owned(fr, by, prv, files[Main], retired)
  PROVE  Committed(D, changes, prv, by)
  <1> DEFINE u == updateId + 1
             gone == {k \in D : files[Main][k] \in Entry}
             msg == [update |-> u, changes |-> changes, retires |-> gone]
             fresh == {u} \X gone
             records == [id \in DOMAIN retired \cup fresh |->
                           IF id \in fresh
                           THEN [entry |-> files[Main][id[2]],
                                 holders |-> {t \in {Main} : id[2] \in Retained(t, msg)}]
                           ELSE retired[id]]
             waiting == IF gone # {} /\ links # {}
                        THEN [w \in DOMAIN acks \cup {u} |->
                                IF w = u THEN links ELSE acks[w]]
                        ELSE acks
  <1>1. gone = Replaced(changes) /\ gone \subseteq Keys
    BY DEF Replaced
  <1>2. /\ u \in Nat /\ updateId \in Nat /\ u = updateId + 1
        /\ \A id \in DOMAIN retired : id \in RetireId /\ id[1] \in Nat
        /\ \A w \in DOMAIN acks : w \in Nat
    BY DEF TypeOK, RetireId
  <1>3. /\ Apply(Main, msg)
        /\ Settle(records, fresh, waiting, fr, cl \ Reopened(changes))
        /\ updateId' = u
        /\ down' = [l \in Links |->
                     IF l \in Told THEN Append(down[l], msg) ELSE down[l]]
    BY <1>1 DEF Commit
  <1>4. /\ Retained(Main, msg) \subseteq Keys
        /\ \A k \in Keys : k \in Retained(Main, msg) <=>
                              k \in gone /\ Pinned(Main, files[Main][k])
    BY <1>1 DEF Retained
  <1>5. \A id \in DOMAIN retired : id[1] # u /\ id \notin fresh
    BY <1>2
  <1>6. \A w \in DOMAIN acks : w # u
    BY <1>2
  <1>7. Main \in Threads
    BY DEF Threads
  <1>8. /\ files' = [files EXCEPT ![Main] = Overlay(files[Main], changes)]
        /\ \A t \in Threads : t # Main => bound'[t] = bound[t]
        /\ \A v \in Entry :
             \/ /\ bound'[Main][v] = bound[Main][v]
                /\ ~ \E k \in gone : files[Main][k] = v /\ Pinned(Main, v)
             \/ \E k \in gone : /\ files[Main][k] = v
                                /\ Pinned(Main, v)
                                /\ bound'[Main][v] = <<u, k>>
    <2>1. /\ msg.update = u /\ msg.changes = changes /\ msg.retires = gone
          /\ gone \subseteq Keys
      BY <1>1
    <2> HIDE DEF msg, gone
    <2> QED
      BY <1>3, <1>7, <2>1, ApplyFacts
  <1>9. /\ DOMAIN records = DOMAIN retired \cup {u} \X gone
        /\ \A id \in DOMAIN retired : records[id] = retired[id]
        /\ \A k \in gone : /\ records[<<u, k>>].entry = files[Main][k]
                           /\ Pinned(Main, files[Main][k]) =>
                                Main \in records[<<u, k>>].holders
    <2>1. \A k \in gone : <<u, k>> \in fresh /\ k \in Keys
      BY <1>1
    <2> QED
      BY <1>4, <1>5, <2>1
  <1>10. /\ \A w \in DOMAIN acks : w \in DOMAIN waiting /\ waiting[w] = acks[w]
         /\ \A k \in gone : links # {} => u \in DOMAIN waiting /\ waiting[u] = links
         /\ \A w \in DOMAIN waiting : w <= u
    BY <1>2, <1>6
  <1>11. /\ fresh \in SUBSET DOMAIN records
         /\ Settle(records, fresh, waiting, fr, cl \ Reopened(changes))
    BY <1>3, <1>9
  <1> HIDE DEF u, records, waiting, fresh, msg
  <1>12. Owned(fr, by, prv \ {changes[k] : k \in D}, Overlay(files[Main], changes),
               records)
    <2> DEFINE left == prv \ {changes[k] : k \in D}
    <2>1. gone = {k \in D : files[Main][k] \in Entry}
      OBVIOUS
    <2>2. \A v \in left : v \in prv /\ \A k \in D : v # changes[k]
      OBVIOUS
    <2> HIDE DEF gone, left
    <2> DEFINE pub == Overlay(files[Main], changes)
    <2>3. \A k \in Keys : pub[k] \in Entry =>
            \/ k \in D /\ pub[k] = changes[k] /\ changes[k] \in prv
            \/ k \notin D /\ pub[k] = files[Main][k]
      BY ValuesAssumption DEF Overlay
    <2> HIDE DEF pub
    <2>4. \A id \in DOMAIN records :
            \/ id \in DOMAIN retired /\ records[id] = retired[id]
            \/ \E k \in D : /\ id = <<u, k>>
                            /\ records[id].entry = files[Main][k]
                            /\ files[Main][k] \in Entry
      BY <1>9, <2>1
    <2>5. \A v \in left : v.extent \notin fr /\ by[v.extent] = v.content
      BY <2>2 DEF Owned
    <2>6. \A k \in Keys : pub[k] \in Entry =>
            pub[k].extent \notin fr /\ by[pub[k].extent] = pub[k].content
      BY <2>3 DEF Owned
    <2>7. \A id \in DOMAIN records : /\ records[id].entry.extent \notin fr
                                 /\ by[records[id].entry.extent] = records[id].entry.content
      BY <2>4 DEF Owned
    <2>8. \A v, w \in left : v.extent = w.extent => v = w
      BY <2>2 DEF Owned
    <2>9. \A k, j \in Keys : pub[k] \in Entry /\ pub[j] \in Entry
                             /\ pub[k].extent = pub[j].extent => k = j
      BY <2>3 DEF Owned
    <2>10. \A id, jd \in DOMAIN records :
            records[id].entry.extent = records[jd].entry.extent => id = jd
      BY <2>4 DEF Owned
    <2>11. \A v \in left, k \in Keys : pub[k] \in Entry => v.extent # pub[k].extent
      BY <2>2, <2>3 DEF Owned
    <2>12. \A v \in left, id \in DOMAIN records : v.extent # records[id].entry.extent
      BY <2>2, <2>4 DEF Owned
    <2>13. \A k \in Keys, id \in DOMAIN records :
             pub[k] \in Entry => pub[k].extent # records[id].entry.extent
      BY <2>3, <2>4 DEF Owned
    <2>14. Owned(fr, by, left, pub, records)
      BY <2>5, <2>6, <2>7, <2>8, <2>9, <2>10, <2>11, <2>12, <2>13 DEF Owned
    <2> QED
      BY <2>14 DEF left, pub
  <1>13. /\ acks' = waiting
         /\ DOMAIN retired' \subseteq DOMAIN records
         /\ \A id \in DOMAIN retired' : retired'[id] = records[id]
         /\ \A id \in DOMAIN records :
              \/ id \notin fresh
              \/ records[id].holders # {}
              \/ id[1] \in DOMAIN waiting
              => id \in DOMAIN retired'
    BY <1>11, SettleKeeps
  <1>14. files'[Main] = Overlay(files[Main], changes)
    BY <1>7, <1>8 DEF TypeOK
  <1>15. Owned(free', by, prv \ {changes[k] : k \in D}, files'[Main], retired')
    BY <1>11, <1>12, <1>14, SettleOwned
  <1>16. \A id \in DOMAIN retired :
           id \in DOMAIN retired' /\ retired'[id] = retired[id]
    BY <1>5, <1>9, <1>13
  <1>17. \A id \in DOMAIN retired' : id[1] <= u
    BY <1>2, <1>9, <1>13
  <1>18. \A k \in gone : links # {} =>
           /\ u \in DOMAIN acks' /\ acks'[u] = links
           /\ <<u, k>> \in DOMAIN retired'
           /\ retired'[<<u, k>>].entry = files[Main][k]
    BY <1>9, <1>10, <1>13
  <1>19. \A k \in gone : Pinned(Main, files[Main][k]) =>
           /\ <<u, k>> \in DOMAIN retired'
           /\ retired'[<<u, k>>].entry = files[Main][k]
           /\ Main \in retired'[<<u, k>>].holders
    BY <1>9, <1>13
  <1> QED
    BY <1>2, <1>3, <1>8, <1>10, <1>13, <1>15, <1>16, <1>17, <1>18, <1>19
    DEF u, msg, Committed

\* The link of a live worker when an update is posted to it.
LEMMA LinkCommit ==
  ASSUME TypeOK, TypeOK', NEW l \in Links, l \in Threads, Main \in Threads, l # Main,
         LinkInv(l), links' = links, up'[l] = up[l], pins' = pins,
         \A id \in DOMAIN retired : id[1] <= updateId,
         NEW D \in SUBSET Keys, NEW changes \in [D -> Value],
         NEW prv, NEW by, Committed(D, changes, prv, by), l \in Told
  PROVE  LinkInv(l)'
  <1> DEFINE gone == {k \in D : files[Main][k] \in Entry}
             msg == [update |-> updateId + 1, changes |-> changes, retires |-> gone]
  <1>1. /\ files' = [files EXCEPT ![Main] = Overlay(files[Main], changes)]
        /\ bound'[l] = bound[l] /\ updateId' = updateId + 1
        /\ down'[l] = Append(down[l], msg)
        /\ \A id \in DOMAIN retired :
             id \in DOMAIN retired' /\ retired'[id] = retired[id]
        /\ \A u \in DOMAIN acks : u \in DOMAIN acks' /\ acks'[u] = acks[u]
        /\ \A k \in gone : links # {} =>
             /\ updateId + 1 \in DOMAIN acks' /\ acks'[updateId + 1] = links
             /\ <<updateId + 1, k>> \in DOMAIN retired'
             /\ retired'[<<updateId + 1, k>>].entry = files[Main][k]
    BY DEF Committed
  <1>2. msg \in Update /\ gone = {k \in D : files[Main][k] \in Entry}
    BY DEF Update, TypeOK
  <1> HIDE DEF gone
  <1>3. /\ msg = [update |-> updateId + 1, changes |-> changes, retires |-> gone]
        /\ msg.update = updateId + 1 /\ msg.changes = changes /\ msg.retires = gone
    OBVIOUS
  <1> HIDE DEF msg
  <1>4. Len(down[l]) \in Nat /\ updateId + 1 \in Nat
    BY DEF TypeOK
  <1> PICK n \in Nat : n = Len(down[l])
    BY <1>4
  <1> PICK u \in Nat : u = updateId + 1
    BY <1>4
  <1>5. /\ down[l] \in Seq(Update) /\ n \in Nat /\ Len(down'[l]) = n + 1
        /\ \A i \in 1..n : down'[l][i] = down[l][i]
        /\ down'[l][n + 1] = msg
    BY <1>1, <1>2, AppendFacts DEF TypeOK
  <1>6. /\ msg.update = u /\ msg.changes = changes /\ msg.retires = gone
        /\ u \in Nat /\ updateId \in Nat /\ updateId < u
        /\ DOMAIN changes = D
    BY <1>3 DEF TypeOK
  <1>7. /\ files'[l] = files[l]
        /\ \A k \in Keys : files'[Main][k] = IF k \in D THEN changes[k] ELSE files[Main][k]
    BY <1>1 DEF TypeOK, Overlay
  <1>8. up[l] \in Seq(UpMessage) /\ l \in links
    BY DEF TypeOK, LinkInv, InOrder
  <1>9. InOrder(l)'
    <2>1. \A i, j \in 1..(n + 1) : i < j => down'[l][i].update < down'[l][j].update
      <3> SUFFICES ASSUME NEW i \in 1..(n + 1), NEW j \in 1..(n + 1), i < j
                   PROVE  down'[l][i].update < down'[l][j].update
        OBVIOUS
      <3>1. CASE j \in 1..n
        BY SMTT(30), <1>5, <3>1 DEF LinkInv, InOrder
      <3>2. CASE j = n + 1
        <4>1. i \in 1..n /\ down[l][i].update <= updateId /\ down[l][i].update \in Nat
          BY <1>5, <3>2, MessageFacts DEF LinkInv, InOrder
        <4> QED
          BY SMTT(30), <1>5, <1>6, <3>2, <4>1
      <3> QED
        BY <1>5, <3>1, <3>2
    <2>2. \A i \in 1..(n + 1) : down'[l][i].update <= u
      <3> SUFFICES ASSUME NEW i \in 1..(n + 1) PROVE down'[l][i].update <= u
        OBVIOUS
      <3>1. CASE i \in 1..n
        <4>1. down[l][i].update <= updateId /\ down[l][i].update \in Nat
          BY <3>1, <1>5, MessageFacts DEF LinkInv, InOrder
        <4> QED
          BY <1>5, <1>6, <3>1, <4>1
      <3>2. CASE i = n + 1
        BY <1>5, <1>6, <3>2
      <3> QED
        BY <1>5, <3>1, <3>2
    <2>3. \A i \in 1..Len(up[l]) :
            /\ up[l][i].type # "close"
            /\ \A id \in up[l][i].ids : id[1] <= u
            /\ \A id \in up[l][i].ids : \A j \in 1..(n + 1) : id[1] < down'[l][j].update
            /\ up[l][i].type = "ack" =>
                 /\ up[l][i].update <= u
                 /\ \A j \in 1..(n + 1) : up[l][i].update < down'[l][j].update
      <3> SUFFICES ASSUME NEW i \in 1..Len(up[l])
                   PROVE  /\ up[l][i].type # "close"
                          /\ \A id \in up[l][i].ids : id[1] <= u
                          /\ \A id \in up[l][i].ids : \A j \in 1..(n + 1) :
                               id[1] < down'[l][j].update
                          /\ up[l][i].type = "ack" =>
                               /\ up[l][i].update <= u
                               /\ \A j \in 1..(n + 1) : up[l][i].update < down'[l][j].update
        OBVIOUS
      <3>1. up[l][i] \in UpMessage /\ up[l][i].type # "close"
        BY <1>8 DEF LinkInv, InOrder
      <3>2. up[l][i].type \in {"ack", "release"}
        BY <3>1 DEF UpMessage
      <3>3. \A id \in up[l][i].ids : id[1] \in Nat
        BY <3>1, <3>2, MessageFacts DEF RetireId
      <3>4. up[l][i].type = "ack" => up[l][i].update \in Nat
        BY <3>1, MessageFacts
      <3>5. /\ \A id \in up[l][i].ids : id[1] <= updateId
            /\ up[l][i].type = "ack" => up[l][i].update <= updateId
        BY DEF LinkInv, InOrder
      <3>6. \A j \in 1..(n + 1) :
              /\ j \in 1..n /\ down'[l][j] = down[l][j]
              \/ down'[l][j].update = u
        BY <1>5, <1>6
      <3>7. \A j \in 1..n :
              /\ \A id \in up[l][i].ids : id[1] < down[l][j].update
              /\ up[l][i].type = "ack" => up[l][i].update < down[l][j].update
        BY DEF LinkInv, InOrder
      <3>8. /\ \A id \in up[l][i].ids : id[1] <= u /\ id[1] < u
            /\ up[l][i].type = "ack" => up[l][i].update <= u /\ up[l][i].update < u
        BY <1>6, <3>3, <3>4, <3>5
      <3>9. \A id \in up[l][i].ids : \A j \in 1..(n + 1) : id[1] < down'[l][j].update
        BY <3>6, <3>7, <3>8
      <3>10. up[l][i].type = "ack" =>
               \A j \in 1..(n + 1) : up[l][i].update < down'[l][j].update
        BY <3>6, <3>7, <3>8
      <3> QED
        BY <3>1, <3>8, <3>9, <3>10
    <2>4. \A i, j \in 1..Len(up[l]) :
            up[l][i].type = "ack" /\ up[l][j].type = "ack"
              /\ up[l][i].update = up[l][j].update => i = j
      BY DEF LinkInv, InOrder
    <2> QED
      BY SMTT(30), <1>1, <1>5, <1>8, <2>1, <2>2, <2>3, <2>4 DEF InOrder
  <1>10. Pinning(l)'
    BY <1>1, <1>7 DEF LinkInv, Pinning
  <1>11. Protected(l)'
    <2>1. \A i \in 0..n, k \in Keys : /\ Source(l, i, k)' <=> Source(l, i, k)
                                      /\ ValueAt(l, i, k)' = ValueAt(l, i, k)
      BY <1>5, <1>7 DEF Source, Touches, ValueAt
    <2>2. \A i \in 1..n, k \in Keys : Touches(l, i, k)' <=> Touches(l, i, k)
      BY <1>5 DEF Touches
    <2>3. \A k \in Keys : Touches(l, n + 1, k)' <=> k \in D
      BY <1>5, <1>6 DEF Touches
    <2> DEFINE Result(i, k) ==
          \/ /\ ValueAt(l, i, k)' = files'[Main][k]
             /\ \A m \in (i + 1)..(n + 1) : ~Touches(l, m, k)'
          \/ \E j \in (i + 1)..(n + 1) :
               /\ \A m \in (i + 1)..(j - 1) : ~Touches(l, m, k)'
               /\ k \in down'[l][j].retires
               /\ <<down'[l][j].update, k>> \in DOMAIN retired'
               /\ retired'[<<down'[l][j].update, k>>].entry = ValueAt(l, i, k)'
               /\ down'[l][j].update \in DOMAIN acks'
               /\ l \in acks'[down'[l][j].update]
    <2>4. ASSUME NEW k \in Keys, NEW i \in 0..n, Source(l, i, k),
                 ValueAt(l, i, k) \in Entry
          PROVE  Result(i, k)
      <3>1. CASE /\ ValueAt(l, i, k) = files[Main][k]
                 /\ \A m \in (i + 1)..n : ~Touches(l, m, k)
        <4>1. \A m \in (i + 1)..n : ~Touches(l, m, k)'
          BY <1>5, <2>2, <3>1
        <4>2. CASE k \notin D
          <5>1. ValueAt(l, i, k)' = files'[Main][k]
            BY <1>7, <2>1, <3>1, <4>2
          <5>2. ~Touches(l, n + 1, k)'
            BY <2>3, <4>2
          <5>3. \A m \in (i + 1)..(n + 1) : m \in (i + 1)..n \/ m = n + 1
            BY <1>5
          <5> QED
            BY <4>1, <5>1, <5>2, <5>3
        <4>3. CASE k \in D
          <5>1. k \in gone
            BY <1>2, <2>4, <3>1, <4>3
          <5>2. /\ u \in DOMAIN acks' /\ l \in acks'[u]
                /\ <<u, k>> \in DOMAIN retired'
                /\ retired'[<<u, k>>].entry = ValueAt(l, i, k)'
            BY <1>1, <1>8, <2>1, <3>1, <5>1
          <5>3. n + 1 \in (i + 1)..(n + 1) /\ (n + 1) - 1 = n
            BY <1>5
          <5>4. down'[l][n + 1].update = u /\ k \in down'[l][n + 1].retires
            BY <1>5, <1>6, <5>1
          <5> QED
            BY <4>1, <5>2, <5>3, <5>4
        <4> QED
          BY <4>2, <4>3
      <3>2. ASSUME NEW j \in (i + 1)..n,
                   \A m \in (i + 1)..(j - 1) : ~Touches(l, m, k),
                   k \in down[l][j].retires,
                   AwaitedAs(l, <<down[l][j].update, k>>, ValueAt(l, i, k))
            PROVE  Result(i, k)
        <4>1. j \in (i + 1)..(n + 1) /\ j \in 1..n /\ down'[l][j] = down[l][j]
          BY <1>5
        <4>2. \A m \in (i + 1)..(j - 1) : ~Touches(l, m, k)'
          BY <1>5, <2>2, <3>2
        <4>3. /\ <<down[l][j].update, k>> \in DOMAIN retired'
              /\ retired'[<<down[l][j].update, k>>].entry = ValueAt(l, i, k)'
              /\ down[l][j].update \in DOMAIN acks'
              /\ l \in acks'[down[l][j].update]
          BY <1>1, <2>1, <3>2 DEF AwaitedAs
        <4> QED
          BY <3>2, <4>1, <4>2, <4>3
      <3> QED
        BY <2>4, <3>1, <3>2 DEF LinkInv, Protected
    <2>5. ASSUME NEW k \in Keys, Source(l, n + 1, k)' PROVE Result(n + 1, k)
      <3>1. k \in D /\ ValueAt(l, n + 1, k)' = changes[k]
        BY <1>5, <1>6, <2>5 DEF Source, Touches, ValueAt
      <3>2. \A m \in (n + 1 + 1)..(n + 1) : FALSE
        BY <1>5
      <3> QED
        BY <1>7, <3>1, <3>2
    <2>6. \A i \in 0..(n + 1) : i \in 0..n \/ i = n + 1
      BY <1>5
    <2> HIDE DEF Result
    <2>7. \A k \in Keys : \A i \in 0..(n + 1) :
            Source(l, i, k)' /\ ValueAt(l, i, k)' \in Entry => Result(i, k)
      BY <2>1, <2>4, <2>5, <2>6
    <2> QED
      BY <1>5, <2>7 DEF Result, Protected, AwaitedAs
  <1>12. ASSUME NEW v \in Entry, bound[l][v] # None
        PROVE  Secured(l, bound[l][v], v)'
    <2>1. Secured(l, bound[l][v], v)
      BY <1>12 DEF LinkInv
    <2>2. \A j \in 1..(n + 1) : bound[l][v][1] < down'[l][j].update
      <3>1. bound[l][v][1] \in Nat /\ bound[l][v][1] <= updateId
        BY <2>1 DEF Secured, TypeOK, RetireId
      <3> QED
        BY SMTT(30), <1>1, <1>5, <1>6, <2>1, <3>1 DEF Secured
    <2>3. /\ bound'[l][v] = bound[l][v]
          /\ bound[l][v] \in DOMAIN retired =>
               /\ bound[l][v] \in DOMAIN retired'
               /\ retired'[bound[l][v]] = retired[bound[l][v]]
          /\ bound[l][v][1] \in DOMAIN acks =>
               /\ bound[l][v][1] \in DOMAIN acks'
               /\ acks'[bound[l][v][1]] = acks[bound[l][v][1]]
          /\ Len(down'[l]) = n + 1
      BY <1>1, <1>5
    <2> QED
      BY <2>1, <2>2, <2>3 DEF Secured
  <1> QED
    BY <1>1, <1>9, <1>10, <1>11, <1>12 DEF LinkInv

\* A commit preserves the invariant when the entries it publishes are owned by
\* the publication: `by` are the bytes they are found in, `prv` the private ones.
LEMMA CommitInv ==
  ASSUME IInv, TypeOK', phase = "ready",
         NEW D \in SUBSET Keys, NEW changes \in [D -> Value],
         NEW fr, NEW cl, NEW prv, NEW by, Commit(changes, fr, cl),
         prv \in SUBSET Entry, changes \in [D -> prv \cup {Plain, None}],
         \A j, k \in D : changes[j] \in Entry /\ changes[j] = changes[k] => j = k,
         Owned(fr, by, prv, files[Main], retired),
         by = bytes', prv \ {changes[k] : k \in D} = private',
         UNCHANGED <<phase, pins, links, worker, up>>
  PROVE  IInv'
  <1>1. /\ TypeOK /\ ReadyInv /\ \A l \in Links : LinkShape(l)
        /\ \A id \in DOMAIN retired : id[1] <= updateId
        /\ \A u \in DOMAIN acks : u <= updateId
    BY DEF IInv, ReadyInv
  <1>2. /\ Main \in Threads /\ \A l \in Links : l \in Threads /\ l # Main
        /\ updateId + 1 \in Nat /\ \A v : <<updateId + 1, v>> # None \/ v \notin Keys
    BY <1>1, ThreadsAssumption, ValuesAssumption DEF Threads, TypeOK, RetireId
  <1> DEFINE gone == {k \in D : files[Main][k] \in Entry}
             msg == [update |-> updateId + 1, changes |-> changes, retires |-> gone]
  <1>3. msg \in Update
    BY <1>2 DEF Update
  <1>4. gone \subseteq Keys /\ gone = {k \in D : files[Main][k] \in Entry}
    OBVIOUS
  <1>0. Committed(D, changes, prv, by)
    BY <1>1, CommitFacts
  <1>5. /\ files' = [files EXCEPT ![Main] = Overlay(files[Main], changes)]
        /\ \A t \in Threads : t # Main => bound'[t] = bound[t]
        /\ \A v \in Entry :
             \/ /\ bound'[Main][v] = bound[Main][v]
                /\ ~ \E k \in gone : files[Main][k] = v /\ Pinned(Main, v)
             \/ \E k \in gone : /\ files[Main][k] = v
                                /\ Pinned(Main, v)
                                /\ bound'[Main][v] = <<updateId + 1, k>>
        /\ updateId' = updateId + 1
        /\ down' = [l \in Links |->
                      IF l \in Told THEN Append(down[l], msg) ELSE down[l]]
        /\ Owned(free', by, prv \ {changes[k] : k \in D}, files'[Main], retired')
        /\ \A id \in DOMAIN retired' : id[1] <= updateId'
        /\ \A u \in DOMAIN acks' : u <= updateId'
        /\ \A id \in DOMAIN retired :
             id \in DOMAIN retired' /\ retired'[id] = retired[id]
        /\ \A u \in DOMAIN acks : u \in DOMAIN acks' /\ acks'[u] = acks[u]
        /\ \A k \in gone : links # {} =>
             /\ updateId + 1 \in DOMAIN acks'
             /\ acks'[updateId + 1] = links
             /\ <<updateId + 1, k>> \in DOMAIN retired'
             /\ retired'[<<updateId + 1, k>>].entry = files[Main][k]
        /\ \A k \in gone : Pinned(Main, files[Main][k]) =>
             /\ <<updateId + 1, k>> \in DOMAIN retired'
             /\ retired'[<<updateId + 1, k>>].entry = files[Main][k]
             /\ Main \in retired'[<<updateId + 1, k>>].holders
    BY <1>0 DEF Committed
  <1> HIDE DEF gone, msg
  <1>6. Owned(free, bytes, private, files[Main], retired)'
    BY <1>5 DEF Owned
  <1>7. \A k \in Keys : files'[Main][k] = IF k \in D THEN changes[k] ELSE files[Main][k]
    BY <1>1, <1>2, <1>5 DEF Overlay, TypeOK
  <1>8. MainInv'
    <2> SUFFICES ASSUME NEW v \in Entry
                 PROVE  /\ bound'[Main][v] # None => pins[Main][v] > 0
                        /\ pins[Main][v] > 0 /\ bound'[Main][v] = None =>
                             \E k \in Keys : files'[Main][k] = v
                        /\ bound'[Main][v] # None =>
                             /\ bound'[Main][v] \in DOMAIN retired'
                             /\ retired'[bound'[Main][v]].entry = v
                             /\ Main \in retired'[bound'[Main][v]].holders
      BY DEF MainInv, Pinning
    <2>1. CASE \E k \in gone : /\ files[Main][k] = v
                               /\ Pinned(Main, v)
                               /\ bound'[Main][v] = <<updateId + 1, k>>
      BY <1>2, <1>4, <1>5, <2>1 DEF Pinned
    <2>2. CASE /\ bound'[Main][v] = bound[Main][v]
               /\ ~ \E k \in gone : files[Main][k] = v /\ Pinned(Main, v)
      <3>1. pins[Main][v] > 0 /\ bound[Main][v] = None =>
              \E k \in Keys : files[Main][k] = v /\ k \notin D
        BY <1>1, <1>4, <2>2 DEF ReadyInv, MainInv, Pinning, Pinned
      <3>2. bound[Main][v] # None =>
              /\ pins[Main][v] > 0
              /\ bound[Main][v] \in DOMAIN retired
              /\ retired[bound[Main][v]].entry = v
              /\ Main \in retired[bound[Main][v]].holders
        BY <1>1 DEF ReadyInv, MainInv, Pinning
      <3> QED
        BY <1>5, <1>7, <2>2, <3>1, <3>2
    <2> QED
      BY <1>5, <2>1, <2>2
  <1>9. ASSUME NEW l \in Links, Alive(l)' PROVE LinkInv(l)'
    <2>1. Alive(l) /\ LinkInv(l)
      BY <1>1, <1>9 DEF Alive, ReadyInv
    <2>2. l \in Told
      BY <2>1 DEF Told, LinkInv, InOrder, Alive
    <2> QED
      BY <1>0, <1>1, <1>2, <2>1, <2>2, LinkCommit
  <1>10. ASSUME NEW l \in Links PROVE LinkShape(l)'
    <2>1. /\ files'[l] = files[l] /\ bound'[l] = bound[l] /\ LinkShape(l)
          /\ Alive(l)' <=> Alive(l)
      BY <1>1, <1>2, <1>5 DEF Alive, TypeOK
    <2>2. CASE l \in Told
      <3>1. Alive(l)
        BY <1>1, <2>1, <2>2 DEF Told, LinkShape, Alive, TypeOK
      <3>2. /\ Len(down[l]) \in Nat /\ Len(down'[l]) = Len(down[l]) + 1
            /\ \A i \in 1..Len(down[l]) : down'[l][i] = down[l][i]
            /\ down'[l][Len(down[l]) + 1] = msg
        <4>1. down[l] \in Seq(Update)
          BY <1>1 DEF TypeOK
        <4> QED
          BY <1>3, <1>5, <2>2, <4>1, AppendFacts
      <3>3. msg.retires \subseteq DOMAIN msg.changes
        BY <1>4 DEF msg
      <3> QED
        BY <2>1, <3>1, <3>2, <3>3 DEF LinkShape, Alive
    <2>3. CASE l \notin Told
      BY <1>5, <2>1, <2>3 DEF LinkShape, Alive
    <2> QED
      BY <2>2, <2>3
  <1>11. ReadyInv'
    BY <1>5, <1>6, <1>8, <1>9 DEF ReadyInv
  <1> QED
    BY <1>10, <1>11 DEF IInv

LEMMA FlushInv ==
  ASSUME IInv, TypeOK', NEW D \in SUBSET Keys,
         NEW changes \in [D -> private \cup {Plain, None}], Flush(changes)
  PROVE  IInv'
  <1>1. /\ phase = "ready" /\ TypeOK /\ Commit(changes, free, closed)
        /\ Owned(free, bytes, private, files[Main], retired)
        /\ bytes = bytes' /\ private \ {changes[k] : k \in D} = private'
        /\ UNCHANGED <<phase, pins, links, worker, up>>
    BY DEF Flush, IInv, ReadyInv, linkVars
  <1>2. private \in SUBSET Entry /\ changes \in [D -> Value]
    BY <1>1 DEF TypeOK, Value
  <1>3. \A j, k \in D : changes[j] \in Entry /\ changes[j] = changes[k] => j = k
    BY DEF Flush
  <1> QED
    BY <1>1, <1>2, <1>3, CommitInv

\* A commit of `changes` to the keys D, of entries the publication owns: `prv` are the
\* private entries it starts from, and `fr` the free extents.
OwnCommit(D, changes, fr, cl, prv) ==
  /\ D \in SUBSET Keys
  /\ changes \in [D -> Value] /\ changes \in [D -> prv \cup {Plain, None}]
  /\ Commit(changes, fr, cl)
  /\ prv \in SUBSET Entry
  /\ \A j, k \in D : changes[j] \in Entry /\ changes[j] = changes[k] => j = k
  /\ Owned(fr, bytes', prv, files[Main], retired)
  /\ prv \ {changes[k] : k \in D} = private'

\* The copies a relocation publishes.
Copies(s, to) == [k \in Items(s) |-> [files[Main][k] EXCEPT !.extent = to[k]]]

\* A relocation commits copies that nobody but it has seen.
LEMMA RelocateOwns ==
  ASSUME IInv, phase = "ready", NEW s, NEW to \in Moves(s), Relocate(s, to),
         private' = private
  PROVE  OwnCommit(Items(s), Copies(s, to), free \ {to[k] : k \in Items(s)},
                   closed \cup {s},
                   private \cup {Copies(s, to)[k] : k \in Items(s)})
  <1> DEFINE D == Items(s)
             changes == Copies(s, to)
             fr == free \ {to[k] : k \in D}
             prv == private \cup {changes[k] : k \in D}
             by == Copied(s, to)
  <1>1. TypeOK /\ Owned(free, bytes, private, files[Main], retired)
    BY DEF IInv, ReadyInv
  <1>2. D \in SUBSET Keys /\ \A k \in D : files[Main][k] \in Entry
    BY DEF Items
  <1>3. /\ to \in [D -> Extent] /\ \A k \in D : to[k] \in free
        /\ \A j, k \in D : to[j] = to[k] => j = k
    BY <1>1 DEF Moves, Injection, IsInjective, Room, TypeOK
  <1>4. /\ changes \in [D -> Entry]
        /\ \A k \in D : /\ changes[k].extent = to[k]
                        /\ changes[k].content = files[Main][k].content
    BY <1>2, <1>3 DEF Entry, Copies
  <1>5. \A x \in Extent : x \notin free => by[x] = bytes[x]
    BY <1>3 DEF Copied
  <1>6. \A k \in D : by[to[k]] = bytes[files[Main][k].extent]
    <2> SUFFICES ASSUME NEW k \in D PROVE by[to[k]] = bytes[files[Main][k].extent]
      OBVIOUS
    <2> DEFINE c == CHOOSE j \in Items(s) : to[j] = to[k]
    <2>1. c \in D /\ to[c] = to[k]
      OBVIOUS
    <2>2. c = k
      BY <1>3, <2>1
    <2>3. by[to[k]] = bytes[files[Main][c].extent]
      BY <1>3 DEF Copied
    <2> HIDE DEF c
    <2> QED
      BY <2>2, <2>3
  <1>7. \A k \in D : bytes[files[Main][k].extent] = files[Main][k].content
    BY <1>1, <1>2 DEF Owned
  <1>8. /\ Commit(changes, fr, closed \cup {s}) /\ by = bytes'
    BY DEF Relocate, Copies
  <1>9. \A w \in prv : \/ w \in private
                       \/ \E k \in D : /\ w = changes[k] /\ w.extent = to[k]
                                       /\ by[w.extent] = w.content
    BY <1>4, <1>6, <1>7
  <1>10. \A w \in Entry : w.extent \in Extent
    BY DEF Entry
  <1>11. /\ \A w \in private : w \in Entry /\ w.extent \notin free
                               /\ by[w.extent] = w.content
         /\ \A k \in Keys : files[Main][k] \in Entry =>
              /\ files[Main][k].extent \notin free
              /\ by[files[Main][k].extent] = files[Main][k].content
         /\ \A id \in DOMAIN retired :
              /\ retired[id].entry.extent \notin free
              /\ by[retired[id].entry.extent] = retired[id].entry.content
    <2>1. private \subseteq Entry /\ \A id \in DOMAIN retired : retired[id].entry \in Entry
      BY <1>1 DEF TypeOK
    <2> HIDE DEF by
    <2> QED
      BY <1>1, <1>5, <1>10, <2>1 DEF Owned
  <1>12. /\ prv \in SUBSET Entry /\ changes \in [D -> Value]
         /\ changes \in [D -> prv \cup {Plain, None}]
    <2>1. private \subseteq Entry
      BY <1>1 DEF TypeOK
    <2>2. \A k \in D : changes[k] \in prv
      OBVIOUS
    <2>3. changes \in [D -> Value]
      BY <1>4 DEF Value
    <2> HIDE DEF changes
    <2>4. prv \in SUBSET Entry
      BY <1>4, <2>1
    <2> HIDE DEF prv, D
    <2>5. changes \in [D -> prv \cup {Plain, None}]
      BY <1>4, <2>2
    <2> QED
      BY <2>3, <2>4, <2>5
  <1>13. \A j, k \in D : changes[j] \in Entry /\ changes[j] = changes[k] => j = k
    BY <1>3, <1>4
  <1>14. prv \ {changes[k] : k \in D} = private'
    BY <1>3, <1>4, <1>11
  <1> HIDE DEF D, changes, by, prv
  <1>15. Owned(fr, by, prv, files[Main], retired)
    <2>1. \A v \in prv : v.extent \notin fr /\ by[v.extent] = v.content
      BY <1>9, <1>11
    <2>2. \A v, w \in prv : v.extent = w.extent => v = w
      BY <1>1, <1>3, <1>9, <1>11 DEF Owned
    <2>3. \A v \in prv, k \in Keys :
            files[Main][k] \in Entry => v.extent # files[Main][k].extent
      BY <1>1, <1>3, <1>9, <1>11 DEF Owned
    <2>4. \A v \in prv, id \in DOMAIN retired : v.extent # retired[id].entry.extent
      BY <1>1, <1>3, <1>9, <1>11 DEF Owned
    <2> QED
      BY <1>1, <1>11, <2>1, <2>2, <2>3, <2>4 DEF Owned
  <1>16. OwnCommit(D, changes, fr, closed \cup {s}, prv)
    <2> HIDE DEF fr
    <2> QED
      BY <1>2, <1>8, <1>12, <1>13, <1>14, <1>15 DEF OwnCommit
  <1> QED
    BY <1>16 DEF D, changes, fr, prv

LEMMA FlushOwns ==
  ASSUME IInv, NEW D \in SUBSET Keys,
         NEW changes \in [D -> private \cup {Plain, None}], Flush(changes)
  PROVE  OwnCommit(D, changes, free, closed, private)
  <1>1. /\ phase = "ready" /\ TypeOK /\ Commit(changes, free, closed)
        /\ Owned(free, bytes, private, files[Main], retired)
        /\ bytes = bytes' /\ private \ {changes[k] : k \in D} = private'
    BY DEF Flush, IInv, ReadyInv
  <1>2. private \in SUBSET Entry /\ changes \in [D -> Value]
    BY <1>1 DEF TypeOK, Value
  <1>3. \A j, k \in D : changes[j] \in Entry /\ changes[j] = changes[k] => j = k
    BY DEF Flush
  <1> QED
    BY <1>1, <1>2, <1>3 DEF OwnCommit

LEMMA RelocateInv ==
  ASSUME IInv, TypeOK', phase = "ready", NEW s, NEW to \in Moves(s), Relocate(s, to),
         UNCHANGED <<phase, private, pins, links, worker, up>>
  PROVE  IInv'
  <1>1. PICK D, changes, fr, cl, prv : OwnCommit(D, changes, fr, cl, prv)
    BY RelocateOwns
  <1>2. \A by : by = bytes' => Owned(fr, by, prv, files[Main], retired)
    BY <1>1 DEF OwnCommit
  <1> PICK by : by = bytes'
    OBVIOUS
  <1> QED
    BY <1>1, <1>2, CommitInv DEF OwnCommit

-----------------------------------------------------------------------------
(* Steps that leave the records, the links and the projections alone. *)

LEMMA QuietInv ==
  ASSUME IInv, TypeOK', phase = "ready",
         UNCHANGED <<phase, files, updateId, retired, acks, links, worker, pins,
                     bound, down, up>>,
         Owned(free', bytes', private', files[Main], retired)
  PROVE  IInv'
  <1>1. TypeOK /\ ReadyInv /\ \A l \in Links : LinkShape(l)
    BY DEF IInv
  <1>2. MainInv'
    BY <1>1, MainKeeps DEF ReadyInv
  <1>3. ASSUME NEW l \in Links, Alive(l)' PROVE LinkInv(l)'
    <2>1. Alive(l) /\ LinkInv(l) /\ l \in links
      BY <1>1, <1>3 DEF Alive, ReadyInv, LinkInv, InOrder
    <2> QED
      BY <1>1, <2>1, LinkKeeps
  <1>4. ReadyInv'
    BY <1>1, <1>2, <1>3 DEF ReadyInv, Owned
  <1>5. \A l \in Links : LinkShape(l)'
    BY <1>1 DEF LinkShape, Alive
  <1> QED
    BY <1>4, <1>5 DEF IInv

LEMMA AllocateInv ==
  ASSUME IInv, TypeOK', NEW c \in Contents, Allocate(c)
  PROVE  IInv'
  <1>1. PICK x \in Allocatable :
          /\ free' = free \ {x}
          /\ bytes' = [bytes EXCEPT ![x] = c]
          /\ private' = private \cup {[extent |-> x, content |-> c]}
    BY DEF Allocate
  <1>2. TypeOK /\ Owned(free, bytes, private, files[Main], retired) /\ phase = "ready"
    BY DEF IInv, ReadyInv, Allocate
  <1>3. x \in free /\ free \subseteq Extent
    BY <1>2 DEF Allocatable, TypeOK
  <1>4. /\ bytes'[x] = c
        /\ \A y \in Extent : y # x => bytes'[y] = bytes[y]
    BY <1>1, <1>2, <1>3 DEF TypeOK
  <1>5. /\ \A v \in private : v.extent \in Extent
        /\ \A k \in Keys : files[Main][k] \in Entry => files[Main][k].extent \in Extent
        /\ \A id \in DOMAIN retired : retired[id].entry.extent \in Extent
    BY <1>2 DEF TypeOK, Entry
  <1>6. \A v \in private' : v \in private \/ (v.extent = x /\ v.content = c
                                              /\ v = [extent |-> x, content |-> c])
    BY <1>1
  <1>7. Owned(free', bytes', private', files[Main], retired)
    BY <1>1, <1>2, <1>3, <1>4, <1>5, <1>6 DEF Owned
  <1> QED
    BY <1>2, <1>7, QuietInv DEF Allocate, linkVars

LEMMA AbandonInv ==
  ASSUME IInv, TypeOK', NEW v \in private, Abandon(v)
  PROVE  IInv'
  <1>1. Owned(free, bytes, private, files[Main], retired) /\ phase = "ready"
    BY DEF IInv, ReadyInv, Abandon
  <1>2. Owned(free', bytes', private', files[Main], retired)
    BY <1>1 DEF Owned, Abandon
  <1> QED
    BY <1>1, <1>2, QuietInv DEF Abandon, linkVars

LEMMA CompactInv ==
  ASSUME IInv, TypeOK', Compact
  PROVE  IInv'
  <1>1. /\ phase = "ready" /\ UNCHANGED <<phase, private, pins, links, worker, up>>
        /\ Owned(free, bytes, private, files[Main], retired)
    BY DEF Compact, linkVars, IInv, ReadyInv
  <1>2. CASE \E s \in Targets : \E to \in Moves(s) : Relocate(s, to)
    <2>1. PICK s \in Targets : \E to \in Moves(s) : Relocate(s, to)
      BY <1>2
    <2>2. PICK to \in Moves(s) : Relocate(s, to)
      BY <2>1
    <2> QED
      BY <1>1, <2>2, RelocateInv
  <1>3. CASE ~ \E s \in Targets : \E to \in Moves(s) : Relocate(s, to)
    <2>1. UNCHANGED <<files, bound, bytes, free, closed, updateId, retired, acks, down>>
      BY <1>3 DEF Compact
    <2>2. Owned(free', bytes', private', files[Main], retired)
      BY <1>1, <2>1
    <2> QED
      BY <1>1, <2>1, <2>2, QuietInv
  <1> QED
    BY <1>2, <1>3

-----------------------------------------------------------------------------
(* Steps of one worker. *)

\* A step of link l leaves everything else as it was.
OnlyLink(l) ==
  /\ \A t \in Threads : t # l =>
       files'[t] = files[t] /\ pins'[t] = pins[t] /\ bound'[t] = bound[t]
  /\ \A h \in Links : h # l =>
       worker'[h] = worker[h] /\ down'[h] = down[h] /\ up'[h] = up[h]
  /\ links \subseteq links' /\ links' \subseteq links \cup {l}
  /\ UNCHANGED <<phase, free, bytes, private, updateId, retired, acks>>

LEMMA OnlyLinkInv ==
  ASSUME IInv, TypeOK', NEW l \in Links, OnlyLink(l), LinkShape(l)',
         phase = "ready" /\ Alive(l)' => LinkInv(l)',
         phase = "closed" =>
           /\ \A k \in Keys : \A i \in 0..Len(down'[l]) :
                Source(l, i, k)' /\ ValueAt(l, i, k)' \in Entry
                  => \/ ValueAt(l, i, k)' \in {files[l][j] : j \in Keys}
                     \/ \E n \in 1..Len(down[l]) : /\ Touches(l, n, k)
                                                   /\ ValueAt(l, i, k)' = ValueAt(l, n, k)
           /\ \A v \in Entry : pins'[l][v] > 0 =>
                pins[l][v] > 0 \/ v \in {files[l][j] : j \in Keys}
  PROVE  IInv'
  <1>1. /\ TypeOK /\ \A h \in Links : LinkShape(h)
        /\ Main \in Threads /\ \A h \in Links : h \in Threads /\ h # Main
        /\ phase \in {"ready", "closed"} /\ phase' = phase
    BY ThreadsAssumption DEF IInv, Threads, TypeOK, OnlyLink
  <1>2. /\ files'[Main] = files[Main] /\ pins'[Main] = pins[Main]
        /\ bound'[Main] = bound[Main]
        /\ UNCHANGED <<free, bytes, private, updateId, retired, acks>>
    BY <1>1 DEF OnlyLink
  <1>3. \A h \in Links : h # l =>
          /\ files'[h] = files[h] /\ pins'[h] = pins[h] /\ bound'[h] = bound[h]
          /\ worker'[h] = worker[h] /\ down'[h] = down[h] /\ up'[h] = up[h]
          /\ h \in links' <=> h \in links
    BY <1>1 DEF OnlyLink
  <1>4. \A h \in Links : LinkShape(h)'
    <2> SUFFICES ASSUME NEW h \in Links, h # l PROVE LinkShape(h)'
      OBVIOUS
    <2> QED
      BY <1>1, <1>3 DEF LinkShape, Alive
  <1>5. CASE phase = "ready"
    <2>1. ReadyInv
      BY <1>5 DEF IInv
    <2>2. MainInv'
      BY <1>2, <2>1, MainKeeps DEF ReadyInv
    <2>3. ASSUME NEW h \in Links, Alive(h)' PROVE LinkInv(h)'
      <3>1. CASE h = l
        BY <1>5, <2>3, <3>1
      <3>2. CASE h # l
        <4>1. Alive(h) /\ LinkInv(h) /\ h \in links'
          BY <1>3, <2>1, <2>3, <3>2 DEF Alive, ReadyInv, LinkInv, InOrder
        <4> QED
          BY <1>1, <1>2, <1>3, <3>2, <4>1, LinkKeeps
      <3> QED
        BY <3>1, <3>2
    <2>4. ReadyInv'
      BY <1>2, <2>1, <2>2, <2>3 DEF ReadyInv, Owned
    <2> QED
      BY <1>1, <1>4, <1>5, <2>4 DEF IInv
  <1>6. CASE phase = "closed"
    <2>1. ClosedInv
      BY <1>6 DEF IInv
    <2>2. ASSUME NEW h \in Links, h # l
          PROVE  /\ \A k \in Keys : \A i \in 0..Len(down'[h]) :
                      Source(h, i, k)' /\ ValueAt(h, i, k)' \in Entry =>
                        Intact(ValueAt(h, i, k))'
                 /\ \A v \in Entry : pins'[h][v] > 0 => Intact(v)'
      <3>1. \A i, k : /\ Source(h, i, k)' <=> Source(h, i, k)
                      /\ ValueAt(h, i, k)' = ValueAt(h, i, k)
        BY <1>3, <2>2 DEF Source, Touches, ValueAt
      <3>2. \A k \in Keys : \A i \in 0..Len(down[h]) :
              Source(h, i, k) /\ ValueAt(h, i, k) \in Entry => Intact(ValueAt(h, i, k))
        BY <2>1 DEF ClosedInv
      <3>3. \A v \in Entry : pins[h][v] > 0 => Intact(v)
        BY <2>1 DEF ClosedInv
      <3> QED
        BY <1>2, <1>3, <2>2, <3>1, <3>2, <3>3 DEF Intact
    <2>3. \A j \in Keys : files[l][j] \in Entry => bytes[files[l][j].extent] = files[l][j].content
      <3>1. 0 \in 0..Len(down[l])
        BY <1>1 DEF TypeOK
      <3> QED
        BY <2>1, <3>1 DEF ClosedInv, Source, ValueAt, Intact
    <2>4. \A n \in 1..Len(down[l]) : \A k \in Keys :
            Touches(l, n, k) /\ ValueAt(l, n, k) \in Entry =>
              bytes[ValueAt(l, n, k).extent] = ValueAt(l, n, k).content
      <3>1. \A n \in 1..Len(down[l]) : n \in 0..Len(down[l])
        BY <1>1 DEF TypeOK
      <3> QED
        BY <2>1, <3>1 DEF ClosedInv, Source, Intact
    <2>5. /\ \A k \in Keys : \A i \in 0..Len(down'[l]) :
               Source(l, i, k)' /\ ValueAt(l, i, k)' \in Entry =>
                 Intact(ValueAt(l, i, k))'
          /\ \A v \in Entry : pins'[l][v] > 0 => Intact(v)'
      <3>1. \A v \in Entry : pins[l][v] > 0 => bytes[v.extent] = v.content
        BY <2>1 DEF ClosedInv, Intact
      <3> QED
        BY <1>2, <1>6, <2>3, <2>4, <3>1 DEF Intact
    <2>6. ClosedInv'
      BY <1>2, <2>1, <2>2, <2>5 DEF ClosedInv
    <2> QED
      BY <1>1, <1>4, <1>6, <2>6 DEF IInv
  <1> QED
    BY <1>1, <1>5, <1>6

\* A link whose projection and updates stay as they are keeps seeing what it saw.
LEMMA Unmoved ==
  ASSUME TypeOK, NEW l \in Links, files'[l] = files[l], down'[l] = down[l]
  PROVE  \A k \in Keys : \A i \in 0..Len(down'[l]) : Source(l, i, k)' =>
           \/ ValueAt(l, i, k)' \in {files[l][j] : j \in Keys}
           \/ \E n \in 1..Len(down[l]) : /\ Touches(l, n, k)
                                         /\ ValueAt(l, i, k)' = ValueAt(l, n, k)
  <1> SUFFICES ASSUME NEW k \in Keys, NEW i \in 0..Len(down[l]), Source(l, i, k)
               PROVE  \/ ValueAt(l, i, k)' \in {files[l][j] : j \in Keys}
                      \/ \E n \in 1..Len(down[l]) :
                           Touches(l, n, k) /\ ValueAt(l, i, k)' = ValueAt(l, n, k)
    BY DEF Source, Touches
  <1>1. ValueAt(l, i, k)' = ValueAt(l, i, k)
    BY DEF ValueAt
  <1>2. CASE i = 0
    BY <1>1, <1>2 DEF ValueAt
  <1>3. CASE i # 0
    <2>1. i \in 1..Len(down[l])
      BY <1>3 DEF TypeOK
    <2> QED
      BY <1>1, <1>3, <2>1 DEF Source
  <1> QED
    BY <1>2, <1>3

LEMMA LinkStepInv ==
  ASSUME IInv, TypeOK', NEW l \in Links, Link(l)
  PROVE  IInv'
  <1>1. /\ TypeOK /\ LinkShape(l) /\ phase = "ready" /\ worker[l] = "none"
        /\ l \in Threads /\ Main \in Threads /\ l # Main /\ None \notin Entry
    BY ThreadsAssumption, ValuesAssumption DEF IInv, Link, Threads
  <1>2. /\ files'[l] = files[Main] /\ worker'[l] = "linked" /\ l \in links'
        /\ files'[Main] = files[Main]
        /\ UNCHANGED <<phase, updateId, retired, acks, pins, bound, down, up>>
    BY <1>1 DEF Link, TypeOK
  <1>3. /\ down[l] = <<>> /\ up[l] = <<>> /\ Len(down[l]) = 0 /\ Len(up[l]) = 0
        /\ pins[l] = Unpinned /\ bound[l] = Unbound
    BY <1>1 DEF LinkShape, Alive
  <1>4. OnlyLink(l)
    BY <1>1 DEF OnlyLink, Link, poolVars, TypeOK
  <1>5. LinkShape(l)'
    BY <1>1, <1>2, <1>3 DEF LinkShape, Alive
  <1>6. LinkInv(l)'
    <2>1. InOrder(l)'
      BY <1>2, <1>3 DEF InOrder
    <2>2. Pinning(l)'
      BY <1>2, <1>3 DEF Pinning, Unpinned, Unbound
    <2>3. Protected(l)'
      <3>1. \A k : ValueAt(l, 0, k)' = files'[Main][k]
        BY <1>2 DEF ValueAt
      <3>2. \A i \in 0..Len(down'[l]) : i = 0
        BY <1>2, <1>3
      <3>3. \A m \in (0 + 1)..Len(down'[l]) : FALSE
        BY <1>2, <1>3
      <3> QED
        BY <3>1, <3>2, <3>3 DEF Protected
    <2>4. \A v \in Entry : bound'[l][v] = None
      BY <1>2, <1>3 DEF Unbound
    <2> QED
      BY <2>1, <2>2, <2>3, <2>4 DEF LinkInv
  <1> QED
    BY <1>1, <1>4, <1>5, <1>6, OnlyLinkInv

LEMMA AttachInv ==
  ASSUME IInv, TypeOK', NEW l \in Links, Attach(l)
  PROVE  IInv'
  <1>1. /\ TypeOK /\ LinkShape(l) /\ Alive(l) /\ worker'[l] = "attached"
        /\ UNCHANGED <<phase, files, updateId, retired, acks, links, pins, bound,
                       down, up>>
    BY DEF IInv, Attach, Alive, TypeOK
  <1>2. OnlyLink(l)
    BY <1>1 DEF OnlyLink, Attach, poolVars, TypeOK
  <1>3. LinkShape(l)'
    BY <1>1 DEF LinkShape, Alive
  <1>4. phase = "ready" => LinkInv(l)'
    <2> SUFFICES ASSUME phase = "ready" PROVE LinkInv(l)'
      OBVIOUS
    <2>1. LinkInv(l)
      BY <1>1 DEF IInv, ReadyInv
    <2> QED
      BY <1>1, <2>1, LinkKeeps DEF LinkInv, InOrder
  <1>5. \A k \in Keys : \A i \in 0..Len(down'[l]) : Source(l, i, k)' =>
          \/ ValueAt(l, i, k)' \in {files[l][j] : j \in Keys}
          \/ \E n \in 1..Len(down[l]) : /\ Touches(l, n, k)
                                        /\ ValueAt(l, i, k)' = ValueAt(l, n, k)
    BY <1>1, Unmoved
  <1>6. \A v \in Entry : pins'[l][v] > 0 => pins[l][v] > 0
    BY <1>1
  <1> QED
    BY <1>2, <1>3, <1>4, <1>5, <1>6, OnlyLinkInv

LEMMA ExitInv ==
  ASSUME IInv, TypeOK', NEW l \in Links, Exit(l)
  PROVE  IInv'
  <1>1. /\ TypeOK /\ LinkShape(l) /\ worker'[l] = "gone" /\ l \in Threads
        /\ files'[l] = NoFile /\ pins'[l] = Unpinned /\ bound'[l] = Unbound
        /\ down'[l] = <<>> /\ Len(down'[l]) = 0 /\ None \notin Entry
        /\ phase' = phase
    BY ValuesAssumption DEF IInv, Exit, TypeOK, Threads
  <1>2. OnlyLink(l)
    BY <1>1 DEF OnlyLink, Exit, Post, poolVars, TypeOK
  <1>3. LinkShape(l)'
    BY <1>1 DEF LinkShape, Alive
  <1>4. ~Alive(l)'
    BY <1>1 DEF Alive
  <1>5. \A k \in Keys : \A i \in 0..Len(down'[l]) : ValueAt(l, i, k)' \notin Entry
    BY <1>1 DEF ValueAt, NoFile
  <1>6. \A v \in Entry : ~(pins'[l][v] > 0)
    BY <1>1 DEF Unpinned
  <1> QED
    BY <1>2, <1>3, <1>4, <1>5, <1>6, OnlyLinkInv

-----------------------------------------------------------------------------
(* Consumers of the main thread. *)

LEMMA MainStepInv ==
  ASSUME IInv, TypeOK', phase = "ready", MainInv',
         UNCHANGED <<phase, files, bytes, private, updateId, acks, links, worker, down,
                     up>>,
         \A t \in Threads : t # Main => pins'[t] = pins[t] /\ bound'[t] = bound[t],
         Owned(free, bytes, private, files[Main], retired)',
         \A id \in DOMAIN retired' : id \in DOMAIN retired,
         \A id \in DOMAIN retired :
           /\ id[1] \in DOMAIN acks => id \in DOMAIN retired'
           /\ id \in DOMAIN retired' => retired'[id].entry = retired[id].entry
           /\ \A h \in retired[id].holders : h # Main =>
                id \in DOMAIN retired' /\ h \in retired'[id].holders
  PROVE  IInv'
  <1>1. /\ TypeOK /\ ReadyInv /\ \A l \in Links : LinkShape(l)
        /\ \A l \in Links : l \in Threads /\ l # Main
    BY ThreadsAssumption DEF IInv, Threads
  <1>2. ASSUME NEW l \in Links, Alive(l)' PROVE LinkInv(l)'
    <2>1. Alive(l) /\ LinkInv(l) /\ l \in links'
      BY <1>1, <1>2 DEF Alive, ReadyInv, LinkInv, InOrder
    <2>2. \A id \in DOMAIN retired :
            \/ l \in retired[id].holders
            \/ id[1] \in DOMAIN acks /\ l \in acks[id[1]]
            => /\ id \in DOMAIN retired'
               /\ retired'[id].entry = retired[id].entry
               /\ l \in retired[id].holders => l \in retired'[id].holders
      BY <1>1
    <2> QED
      BY <1>1, <2>1, <2>2, LinkKeeps
  <1>3. \A l \in Links : LinkShape(l)'
    BY <1>1 DEF LinkShape, Alive
  <1>4. ReadyInv'
    BY <1>1, <1>2 DEF ReadyInv
  <1> QED
    BY <1>3, <1>4 DEF IInv

LEMMA AcquireInv ==
  ASSUME IInv, TypeOK', NEW t \in Threads, NEW k \in Keys, Acquire(t, k)
  PROVE  IInv'
  <1> DEFINE e == files[t][k]
  <1>1. /\ TypeOK /\ e \in Entry /\ pins' = [pins EXCEPT ![t][e] = @ + 1]
        /\ UNCHANGED <<phase, pc, files, updateId, retired, acks, bound, down,
                       free, bytes, private, links, worker, up>>
    BY DEF IInv, Acquire, poolVars, linkVars
  <1>2. /\ pins'[t][e] > 0
        /\ \A v \in Entry : v # e => pins'[t][v] = pins[t][v]
        /\ \A s \in Threads : s # t => pins'[s] = pins[s]
    BY <1>1 DEF TypeOK
  <1>3. Pinning(t) => Pinning(t)'
    BY <1>1, <1>2 DEF Pinning
  <1>4. CASE t = Main
    <2>1. phase = "ready" /\ ReadyInv
      BY <1>4 DEF Acquire, Running, IInv
    <2>2. MainInv'
      BY <1>1, <1>3, <1>4, <2>1 DEF ReadyInv, MainInv
    <2> QED
      BY <1>1, <1>2, <1>4, <2>1, <2>2, MainStepInv DEF ReadyInv, Owned
  <1>5. CASE t # Main
    <2>1. /\ t \in Links /\ worker[t] = "attached" /\ LinkShape(t)
          /\ Main \in Threads /\ Len(down[t]) \in Nat
      BY <1>1, <1>5 DEF Acquire, Running, Threads, IInv, TypeOK
    <2>2. OnlyLink(t)
      BY <1>1, <1>2 DEF OnlyLink
    <2>3. LinkShape(t)'
      BY <1>1, <2>1 DEF LinkShape, Alive
    <2>4. phase = "ready" => LinkInv(t)'
      <3> SUFFICES ASSUME phase = "ready" PROVE LinkInv(t)'
        OBVIOUS
      <3>1. LinkInv(t)
        BY <2>1 DEF IInv, ReadyInv, Alive
      <3>2. InOrder(t)'
        BY <1>1, <3>1 DEF LinkInv, InOrder
      <3>3. Protected(t)'
        BY <1>1, <3>1 DEF LinkInv, Protected, Source, Touches, ValueAt, AwaitedAs
      <3>4. \A v \in Entry : bound'[t][v] # None => Secured(t, bound[t][v], v)'
        BY <1>1, <3>1 DEF LinkInv, Secured
      <3> QED
        BY <1>3, <3>1, <3>2, <3>3, <3>4 DEF LinkInv
    <2>5. \A j \in Keys : \A i \in 0..Len(down'[t]) : Source(t, i, j)' =>
            \/ ValueAt(t, i, j)' \in {files[t][h] : h \in Keys}
            \/ \E n \in 1..Len(down[t]) : /\ Touches(t, n, j)
                                          /\ ValueAt(t, i, j)' = ValueAt(t, n, j)
      BY <1>1, <2>1, Unmoved
    <2>6. \A v \in Entry : pins'[t][v] > 0 =>
            pins[t][v] > 0 \/ v \in {files[t][j] : j \in Keys}
      BY <1>2
    <2> QED
      BY <2>1, <2>2, <2>3, <2>4, <2>5, <2>6, OnlyLinkInv
  <1> QED
    BY <1>4, <1>5

LEMMA MainDropInv ==
  ASSUME IInv, TypeOK', NEW v \in Entry, Drop(Main, v)
  PROVE  IInv'
  <1>1. /\ TypeOK /\ ReadyInv /\ phase = "ready" /\ Main \in Threads
        /\ pins[Main][v] \in Nat /\ pins[Main][v] > 0
        /\ pins' = [pins EXCEPT ![Main][v] = @ - 1]
        /\ UNCHANGED <<phase, files, bytes, private, updateId, links, worker, down>>
        /\ None \notin Entry
    BY ValuesAssumption DEF Drop, Running, IInv, Threads, TypeOK, Pinned
  <1>2. /\ pins'[Main][v] = pins[Main][v] - 1
        /\ \A w \in Entry : w # v => pins'[Main][w] = pins[Main][w]
        /\ \A t \in Threads : t # Main => pins'[t] = pins[t]
    BY <1>1 DEF TypeOK
  <1>3. CASE pins[Main][v] > 1 \/ bound[Main][v] = None
    <2>1. UNCHANGED <<bound, retired, acks, free, up>>
      BY <1>3 DEF Drop
    <2>2. MainInv'
      BY <1>1, <1>2, <1>3, <2>1 DEF ReadyInv, MainInv, Pinning
    <2> QED
      BY <1>1, <1>2, <2>1, <2>2, MainStepInv DEF ReadyInv, Owned
  <1>4. CASE ~(pins[Main][v] > 1 \/ bound[Main][v] = None)
    <2> DEFINE id == bound[Main][v]
               recs == Without(Main, {id})
               ids == {id} \cap Held(Main)
    <2>1. /\ bound' = [bound EXCEPT ![Main][v] = None] /\ up' = up
          /\ Settle(recs, ids, acks, free, closed)
      BY <1>4 DEF Drop
    <2>2. /\ bound'[Main][v] = None /\ pins'[Main][v] = 0
          /\ \A w \in Entry : w # v => bound'[Main][w] = bound[Main][w]
          /\ \A t \in Threads : t # Main => bound'[t] = bound[t]
      BY <1>1, <1>2, <1>4, <2>1 DEF TypeOK
    <2>3. id \in DOMAIN retired /\ retired[id].entry = v
      BY <1>1, <1>4 DEF ReadyInv, MainInv
    <2>4. /\ DOMAIN recs = DOMAIN retired
          /\ \A jd \in DOMAIN retired :
               /\ recs[jd].entry = retired[jd].entry
               /\ \A h : h \in recs[jd].holders <=>
                           h \in retired[jd].holders /\ ~(h = Main /\ jd \in {id})
      BY <1>1, WithoutEffects
    <2>5. ids \in SUBSET DOMAIN retired
      BY DEF Held
    <2> HIDE DEF recs, ids
    <2>6. /\ Owned(free, bytes, private, files[Main], retired)'
          /\ acks' = acks
          /\ DOMAIN retired' \subseteq DOMAIN retired
          /\ \A jd \in DOMAIN retired' :
               retired'[jd] = recs[jd] /\ retired'[jd].entry = retired[jd].entry
          /\ \A jd \in DOMAIN retired :
               \/ jd \notin ids
               \/ recs[jd].holders # {}
               \/ jd[1] \in DOMAIN acks
               => jd \in DOMAIN retired'
      BY <1>1, <2>1, <2>4, <2>5, SettleStep DEF ReadyInv
    <2> HIDE DEF id
    <2>7. \A jd \in DOMAIN retired :
            /\ jd[1] \in DOMAIN acks => jd \in DOMAIN retired'
            /\ jd \in DOMAIN retired' => retired'[jd].entry = retired[jd].entry
            /\ \A h \in retired[jd].holders : h # Main \/ jd # id =>
                 jd \in DOMAIN retired' /\ h \in retired'[jd].holders
      BY <2>4, <2>6
    <2>8. MainInv'
      <3> SUFFICES ASSUME NEW w \in Entry
                   PROVE  /\ bound'[Main][w] # None => pins'[Main][w] > 0
                          /\ pins'[Main][w] > 0 /\ bound'[Main][w] = None =>
                               \E k \in Keys : files'[Main][k] = w
                          /\ bound'[Main][w] # None =>
                               /\ bound'[Main][w] \in DOMAIN retired'
                               /\ retired'[bound'[Main][w]].entry = w
                               /\ Main \in retired'[bound'[Main][w]].holders
        BY DEF MainInv, Pinning
      <3>1. CASE w = v
        BY <2>2, <3>1
      <3>2. CASE w # v
        <4>1. /\ bound[Main][w] # None => pins[Main][w] > 0
              /\ pins[Main][w] > 0 /\ bound[Main][w] = None =>
                   \E k \in Keys : files[Main][k] = w
              /\ bound[Main][w] # None =>
                   /\ bound[Main][w] \in DOMAIN retired
                   /\ retired[bound[Main][w]].entry = w
                   /\ Main \in retired[bound[Main][w]].holders
          BY <1>1 DEF ReadyInv, MainInv, Pinning
        <4>2. bound[Main][w] # None => bound[Main][w] # id
          BY <2>3, <3>2, <4>1
        <4> QED
          BY <1>1, <1>2, <2>2, <2>7, <3>2, <4>1, <4>2
      <3> QED
        BY <3>1, <3>2
    <2> QED
      BY <1>1, <1>2, <2>1, <2>2, <2>6, <2>7, <2>8, MainStepInv
  <1> QED
    BY <1>3, <1>4

\* A worker's last consumer of a retired version tells the main thread.
LEMMA WorkerDropInv ==
  ASSUME IInv, TypeOK', NEW l \in Links, NEW v \in Entry, Drop(l, v)
  PROVE  IInv'
  <1>1. /\ TypeOK /\ LinkShape(l) /\ l # Main /\ l \in Threads /\ Main \in Threads
        /\ worker[l] = "attached" /\ None \notin Entry
        /\ pins[l][v] \in Nat /\ pins[l][v] > 0
        /\ pins' = [pins EXCEPT ![l][v] = @ - 1]
        /\ UNCHANGED <<phase, files, bytes, private, updateId, links, worker, down>>
    BY ThreadsAssumption, ValuesAssumption
    DEF Drop, Running, IInv, Threads, TypeOK, Pinned
  <1>2. /\ pins'[l][v] = pins[l][v] - 1
        /\ \A w \in Entry : w # v => pins'[l][w] = pins[l][w]
        /\ \A t \in Threads : t # l => pins'[t] = pins[t]
    BY <1>1 DEF TypeOK
  <1>3. \A j \in Keys : \A i \in 0..Len(down'[l]) : Source(l, i, j)' =>
          \/ ValueAt(l, i, j)' \in {files[l][h] : h \in Keys}
          \/ \E n \in 1..Len(down[l]) : /\ Touches(l, n, j)
                                        /\ ValueAt(l, i, j)' = ValueAt(l, n, j)
    BY <1>1, Unmoved
  <1>4. \A w \in Entry : pins'[l][w] > 0 => pins[l][w] > 0
    BY <1>1, <1>2
  <1>5. LinkShape(l)'
    BY <1>1 DEF LinkShape, Alive
  <1>6. CASE pins[l][v] > 1 \/ bound[l][v] = None
    <2>1. UNCHANGED <<bound, retired, acks, free, up>>
      BY <1>6 DEF Drop
    <2>2. OnlyLink(l)
      BY <1>1, <1>2, <2>1 DEF OnlyLink
    <2>3. phase = "ready" => LinkInv(l)'
      <3> SUFFICES ASSUME phase = "ready" PROVE LinkInv(l)'
        OBVIOUS
      <3>1. LinkInv(l)
        BY <1>1 DEF IInv, ReadyInv, Alive
      <3>2. InOrder(l)'
        BY <1>1, <2>1, <3>1 DEF LinkInv, InOrder
      <3>3. Protected(l)'
        BY <1>1, <2>1, <3>1 DEF LinkInv, Protected, Source, Touches, ValueAt, AwaitedAs
      <3>4. \A w \in Entry : bound'[l][w] # None => Secured(l, bound[l][w], w)'
        BY <1>1, <2>1, <3>1 DEF LinkInv, Secured
      <3>5. Pinning(l)'
        BY <1>1, <1>2, <1>6, <2>1, <3>1 DEF LinkInv, Pinning
      <3> QED
        BY <3>2, <3>3, <3>4, <3>5 DEF LinkInv
    <2> QED
      BY <1>3, <1>4, <1>5, <2>2, <2>3, OnlyLinkInv
  <1>7. CASE ~(pins[l][v] > 1 \/ bound[l][v] = None)
    <2> DEFINE msg == [type |-> "release", ids |-> {bound[l][v]}]
    <2>1. /\ bound' = [bound EXCEPT ![l][v] = None] /\ up' = Post(l, msg)
          /\ UNCHANGED <<pc, retired, acks, free, closed>>
      BY <1>1, <1>7 DEF Drop
    <2>2. /\ bound'[l][v] = None /\ pins'[l][v] = 0
          /\ \A w \in Entry : w # v => bound'[l][w] = bound[l][w]
          /\ \A t \in Threads : t # l => bound'[t] = bound[t]
      BY <1>1, <1>2, <1>7, <2>1 DEF TypeOK
    <2>3. OnlyLink(l)
      BY <1>1, <1>2, <2>1, <2>2 DEF OnlyLink, Post, TypeOK
    <2>4. phase = "ready" => LinkInv(l)'
      <3> SUFFICES ASSUME phase = "ready" PROVE LinkInv(l)'
        OBVIOUS
      <3>1. LinkInv(l)
        BY <1>1 DEF IInv, ReadyInv, Alive
      <3>2. /\ Secured(l, bound[l][v], v) /\ bound[l][v] \in RetireId
            /\ bound[l][v] \in DOMAIN retired
        BY <1>7, <3>1 DEF LinkInv, Secured, IInv, TypeOK
      <3>3. msg \in UpMessage /\ msg.type = "release" /\ msg.ids = {bound[l][v]}
        BY <3>2 DEF UpMessage
      <3> DEFINE n == Len(up[l])
      <3> HIDE DEF msg
      <3>4. /\ n \in Nat /\ Len(up'[l]) = n + 1 /\ up'[l][n + 1] = msg
            /\ \A i \in 1..n : up'[l][i] = up[l][i]
        <4>1. up'[l] = Append(up[l], msg) /\ up[l] \in Seq(UpMessage)
          BY <1>1, <2>1 DEF Post, TypeOK
        <4> QED
          BY <3>3, <4>1, AppendFacts
      <3>5. bound[l][v][1] <= updateId
        BY <3>2 DEF IInv, ReadyInv
      <3>6. \A i \in 1..(n + 1) : i \in 1..n \/ i = n + 1
        BY <3>4
      <3>7. InOrder(l)'
        <4>1. \A j \in 1..Len(down[l]) : bound[l][v][1] < down[l][j].update
          BY <3>2 DEF Secured
        <4>2. \A i \in 1..(n + 1) :
                /\ up'[l][i].type # "close"
                /\ \A id \in up'[l][i].ids : id[1] <= updateId
                /\ \A id \in up'[l][i].ids : \A j \in 1..Len(down[l]) :
                     id[1] < down[l][j].update
                /\ up'[l][i].type = "ack" =>
                     /\ i \in 1..n
                     /\ up'[l][i].update <= updateId
                     /\ \A j \in 1..Len(down[l]) : up'[l][i].update < down[l][j].update
          BY SMTT(30), <3>1, <3>3, <3>4, <3>5, <3>6, <4>1 DEF LinkInv, InOrder
        <4>3. \A i, j \in 1..(n + 1) :
                up'[l][i].type = "ack" /\ up'[l][j].type = "ack"
                  /\ up'[l][i].update = up'[l][j].update => i = j
          BY <3>1, <3>4, <4>2 DEF LinkInv, InOrder
        <4> QED
          BY <1>1, <3>1, <3>4, <4>2, <4>3 DEF LinkInv, InOrder
      <3>8. Protected(l)'
        BY <1>1, <2>1, <3>1 DEF LinkInv, Protected, Source, Touches, ValueAt, AwaitedAs
      <3>9. ASSUME NEW w \in Entry, bound'[l][w] # None
            PROVE  Secured(l, bound[l][w], w)'
        <4>1. w # v /\ bound'[l][w] = bound[l][w]
          BY <2>2, <3>9
        <4>2. Secured(l, bound[l][w], w)
          BY <3>1, <3>9, <4>1 DEF LinkInv
        <4>3. bound[l][w] # bound[l][v]
          BY <3>2, <4>1, <4>2 DEF Secured
        <4>4. \A i \in 1..(n + 1) : up'[l][i].type = "release" =>
                bound[l][w] \notin up'[l][i].ids
          BY <3>3, <3>4, <3>6, <4>2, <4>3 DEF Secured
        <4>5. \A i \in 1..n : i \in 1..(n + 1)
          BY <3>4
        <4> QED
          BY <1>1, <2>1, <3>4, <4>1, <4>2, <4>4, <4>5 DEF Secured
      <3>10. Pinning(l)'
        BY <1>1, <1>2, <2>2, <3>1 DEF LinkInv, Pinning
      <3> QED
        BY <3>7, <3>8, <3>9, <3>10 DEF LinkInv
    <2> QED
      BY <1>3, <1>4, <1>5, <2>3, <2>4, OnlyLinkInv
  <1> QED
    BY <1>6, <1>7

-----------------------------------------------------------------------------
(* A worker applies the next update and ACKs it. *)

\* What the first update under way changes was published before it, and if the
\* update replaces a version the worker sees, it retires it and awaits the ACK.
LEMMA FirstUpdate ==
  ASSUME TypeOK, NEW l \in Links, LinkShape(l), LinkInv(l), down[l] # <<>>,
         NEW k \in Keys, k \in DOMAIN down[l][1].changes, files[l][k] \in Entry
  PROVE  k \in down[l][1].retires
         /\ AwaitedAs(l, <<down[l][1].update, k>>, files[l][k])
  <1>1. Len(down[l]) \in Nat /\ Len(down[l]) >= 1 /\ 0 \in 0..Len(down[l])
    BY TailFacts DEF TypeOK
  <1>2. Source(l, 0, k) /\ ValueAt(l, 0, k) = files[l][k] /\ Touches(l, 1, k)
    BY DEF Source, ValueAt, Touches
  <1>3. 1 \in (0 + 1)..Len(down[l])
    BY <1>1
  <1>4. PICK j \in (0 + 1)..Len(down[l]) :
          /\ \A m \in (0 + 1)..(j - 1) : ~Touches(l, m, k)
          /\ k \in down[l][j].retires
          /\ AwaitedAs(l, <<down[l][j].update, k>>, files[l][k])
    BY <1>1, <1>2, <1>3 DEF LinkInv, Protected
  <1>5. j = 1
    <2>1. j # 1 => 1 \in (0 + 1)..(j - 1)
      BY <1>1
    <2> QED
      BY <1>2, <1>4, <2>1
  <1> QED
    BY <1>4, <1>5

LEMMA DeliverInv ==
  ASSUME IInv, TypeOK', NEW l \in Links, Deliver(l)
  PROVE  IInv'
  <1> DEFINE msg == down[l][1]
             ack == [type |-> "ack", update |-> msg.update,
                     ids |-> {msg.update} \X Retained(l, msg)]
  <1>1. /\ TypeOK /\ LinkShape(l) /\ l # Main /\ l \in Threads /\ Main \in Threads
        /\ worker[l] = "attached" /\ down[l] # <<>> /\ None \notin Entry
        /\ down[l] \in Seq(Update) /\ up[l] \in Seq(UpMessage)
        /\ UNCHANGED <<phase, updateId, retired, acks, links, worker, pins, free,
                       bytes, private>>
    BY ThreadsAssumption, ValuesAssumption DEF Deliver, poolVars, IInv, Threads, TypeOK
  <1> PICK n \in Nat : n = Len(down[l])
    BY <1>1
  <1>2. /\ n >= 1 /\ msg = Head(down[l]) /\ msg \in Update
        /\ down' = [down EXCEPT ![l] = Tail(@)]
        /\ Len(down'[l]) = n - 1
        /\ \A i \in 1..(n - 1) : down'[l][i] = down[l][i + 1]
    BY <1>1, TailFacts DEF Deliver, TypeOK
  <1>3. /\ Apply(l, msg) /\ up' = Post(l, ack)
        /\ msg.update \in Nat /\ msg.retires \subseteq Keys
        /\ msg.retires \subseteq DOMAIN msg.changes
    BY <1>1, <1>2, MessageFacts DEF Deliver, LinkShape
  <1> HIDE DEF msg
  <1>4. /\ files' = [files EXCEPT ![l] = Overlay(files[l], msg.changes)]
        /\ \A s \in Threads : s # l => bound'[s] = bound[s]
        /\ \A k \in Keys : k \in Retained(l, msg) <=>
             k \in msg.retires /\ files[l][k] \in Entry /\ Pinned(l, files[l][k])
        /\ \A v \in Entry :
             \/ /\ bound'[l][v] = bound[l][v]
                /\ ~ \E k \in msg.retires : files[l][k] = v /\ Pinned(l, v)
             \/ \E k \in msg.retires : /\ files[l][k] = v
                                       /\ Pinned(l, v)
                                       /\ bound'[l][v] = <<msg.update, k>>
    BY <1>1, <1>3, ApplyFacts
  <1>5. \A k \in Keys : files'[l][k] = IF k \in DOMAIN msg.changes
                                       THEN msg.changes[k] ELSE files[l][k]
    BY <1>1, <1>4 DEF Overlay, TypeOK
  <1>6. OnlyLink(l)
    BY <1>1, <1>2, <1>3, <1>4 DEF OnlyLink, Post, TypeOK
  <1>7. LinkShape(l)'
    <2>1. \A i \in 1..Len(down'[l]) :
            down'[l][i].retires \subseteq DOMAIN down'[l][i].changes
      <3>1. \A i \in 1..(n - 1) : i + 1 \in 1..n
        BY <1>2
      <3> QED
        BY <1>1, <1>2, <3>1 DEF LinkShape
    <2> QED
      BY <1>1, <2>1 DEF LinkShape, Alive
  \* Position i of the worker's updates after the step is position Old(i, k) before.
  <1> DEFINE Old(i, k) == IF i = 0 THEN (IF k \in DOMAIN msg.changes THEN 1 ELSE 0)
                                   ELSE i + 1
  <1>8. ASSUME NEW k \in Keys, NEW i \in 0..(n - 1), Source(l, i, k)'
        PROVE  /\ Old(i, k) \in 0..n
               /\ Source(l, Old(i, k), k)
               /\ ValueAt(l, i, k)' = ValueAt(l, Old(i, k), k)
    <2>1. CASE i = 0 /\ k \in DOMAIN msg.changes
      BY <1>2, <1>5, <2>1 DEF Source, Touches, ValueAt, msg
    <2>2. CASE i = 0 /\ k \notin DOMAIN msg.changes
      BY <1>2, <1>5, <2>2 DEF Source, ValueAt
    <2>3. CASE i # 0
      <3>1. i \in 1..(n - 1) /\ i + 1 \in 0..n /\ i + 1 # 0
        BY <1>2, <2>3
      <3> QED
        BY <1>2, <1>8, <2>3, <3>1 DEF Source, Touches, ValueAt
    <2> QED
      BY <2>1, <2>2, <2>3
  <1>9. \A k \in Keys : \A i \in 0..Len(down'[l]) :
          Source(l, i, k)' =>
            \/ ValueAt(l, i, k)' \in {files[l][j] : j \in Keys}
            \/ \E m \in 1..Len(down[l]) : /\ Touches(l, m, k)
                                          /\ ValueAt(l, i, k)' = ValueAt(l, m, k)
    <2> SUFFICES ASSUME NEW k \in Keys, NEW i \in 0..(n - 1), Source(l, i, k)'
                 PROVE  \/ ValueAt(l, i, k)' \in {files[l][j] : j \in Keys}
                        \/ \E m \in 1..n : /\ Touches(l, m, k)
                                           /\ ValueAt(l, i, k)' = ValueAt(l, m, k)
      BY <1>2
    <2> PICK o \in 0..n : o = Old(i, k)
      BY <1>8
    <2> HIDE DEF Old
    <2>1. Source(l, o, k) /\ ValueAt(l, i, k)' = ValueAt(l, o, k)
      BY <1>8
    <2>2. CASE o = 0
      BY <2>1, <2>2 DEF ValueAt
    <2>3. CASE o # 0
      BY <2>1, <2>3 DEF Source
    <2> QED
      BY <2>2, <2>3
  <1>10. \A v \in Entry : pins'[l][v] > 0 => pins[l][v] > 0
    BY <1>1
  <1>11. ASSUME phase = "ready" PROVE LinkInv(l)'
    <2>1. LinkInv(l) /\ ReadyInv
      BY <1>1, <1>11 DEF IInv, ReadyInv, Alive
    <2>2. /\ ack \in UpMessage /\ ack.type = "ack" /\ ack.update = msg.update
          /\ \A id \in ack.ids : id[1] = msg.update
          /\ \A k \in Keys : k \in Retained(l, msg) => <<msg.update, k>> \in ack.ids
      <3>1. Retained(l, msg) \subseteq Keys
        BY <1>3 DEF Retained
      <3>2. {msg.update} \X Retained(l, msg) \in SUBSET RetireId
        BY <1>3, <3>1 DEF RetireId
      <3> QED
        BY <1>3, <3>2 DEF UpMessage
    <2> PICK p \in Nat : p = Len(up[l])
      BY <1>1
    <2> HIDE DEF ack
    <2>3. /\ Len(up'[l]) = p + 1 /\ up'[l][p + 1] = ack
          /\ \A i \in 1..p : up'[l][i] = up[l][i]
      <3>1. up'[l] = Append(up[l], ack)
        BY <1>1, <1>3, <1>11 DEF Post, TypeOK
      <3> QED
        BY <1>1, <2>2, <3>1, AppendFacts
    <2>4. \A i \in 1..(p + 1) : i \in 1..p \/ i = p + 1
      OBVIOUS
    <2>5. /\ \A j \in 1..(n - 1) : msg.update < down'[l][j].update
          /\ msg.update <= updateId
      <3>1. 1 \in 1..n /\ \A j \in 1..(n - 1) : j + 1 \in 1..n /\ 1 < j + 1
        BY <1>2
      <3> QED
        BY <1>2, <2>1, <3>1 DEF LinkInv, InOrder, msg
    <2>6. /\ \A i \in 1..p : /\ \A id \in up[l][i].ids : id[1] < msg.update
                             /\ up[l][i].type = "ack" => up[l][i].update < msg.update
      <3>1. 1 \in 1..n
        BY <1>2
      <3> QED
        BY <2>1, <3>1 DEF LinkInv, InOrder, msg
    <2>7. \A i \in 1..p : up[l][i].type = "ack" => up[l][i].update # msg.update
      <3>1. \A i \in 1..p : up[l][i] \in UpMessage
        BY <1>1
      <3> QED
        BY <1>3, <2>6, <3>1, MessageFacts
    <2>8. InOrder(l)'
      <3>1. \A i, j \in 1..(n - 1) : i < j => down'[l][i].update < down'[l][j].update
        <4>1. \A i \in 1..(n - 1) : i + 1 \in 1..n
          BY <1>2
        <4>2. \A i, j \in 1..(n - 1) : i < j => i + 1 < j + 1
          BY <1>2
        <4> QED
          BY <1>2, <2>1, <4>1, <4>2 DEF LinkInv, InOrder
      <3>2. \A i \in 1..(n - 1) : down'[l][i].update <= updateId
        <4>1. \A i \in 1..(n - 1) : i + 1 \in 1..n
          BY <1>2
        <4> QED
          BY <1>2, <2>1, <4>1 DEF LinkInv, InOrder
      <3>3. \A i \in 1..p :
              /\ up[l][i].type # "close"
              /\ \A id \in up[l][i].ids : id[1] <= updateId
              /\ \A id \in up[l][i].ids : \A j \in 1..(n - 1) :
                   id[1] < down'[l][j].update
              /\ up[l][i].type = "ack" =>
                   /\ up[l][i].update <= updateId
                   /\ \A j \in 1..(n - 1) : up[l][i].update < down'[l][j].update
        <4>1. \A i \in 1..(n - 1) : i + 1 \in 1..n
          BY <1>2
        <4> QED
          BY <1>2, <2>1, <4>1 DEF LinkInv, InOrder
      <3>4. \A i \in 1..(p + 1) :
              /\ up'[l][i].type # "close"
              /\ \A id \in up'[l][i].ids : id[1] <= updateId
              /\ \A id \in up'[l][i].ids : \A j \in 1..(n - 1) :
                   id[1] < down'[l][j].update
              /\ up'[l][i].type = "ack" =>
                   /\ up'[l][i].update <= updateId
                   /\ \A j \in 1..(n - 1) : up'[l][i].update < down'[l][j].update
        <4> SUFFICES ASSUME NEW i \in 1..(p + 1)
                     PROVE  /\ up'[l][i].type # "close"
                            /\ \A id \in up'[l][i].ids : id[1] <= updateId
                            /\ \A id \in up'[l][i].ids : \A j \in 1..(n - 1) :
                                 id[1] < down'[l][j].update
                            /\ up'[l][i].type = "ack" =>
                                 /\ up'[l][i].update <= updateId
                                 /\ \A j \in 1..(n - 1) :
                                      up'[l][i].update < down'[l][j].update
          OBVIOUS
        <4>1. CASE i \in 1..p
          BY <2>3, <3>3, <4>1
        <4>2. CASE i = p + 1
          BY <2>2, <2>3, <2>5, <4>2
        <4> QED
          BY <2>4, <4>1, <4>2
      <3>5. \A i, j \in 1..(p + 1) :
              up'[l][i].type = "ack" /\ up'[l][j].type = "ack"
                /\ up'[l][i].update = up'[l][j].update => i = j
        <4>1. \A i, j \in 1..p :
                up[l][i].type = "ack" /\ up[l][j].type = "ack"
                  /\ up[l][i].update = up[l][j].update => i = j
          BY <2>1 DEF LinkInv, InOrder
        <4>2. \A i \in 1..p : up'[l][i].type = "ack" =>
                up'[l][i].update # up'[l][p + 1].update
          BY <2>2, <2>3, <2>7
        <4> QED
          BY ZenonT(30), <2>3, <2>4, <4>1, <4>2
      <3> QED
        BY <1>1, <1>2, <2>1, <2>3, <3>1, <3>2, <3>4, <3>5 DEF LinkInv, InOrder
    <2>9. ASSUME NEW k \in Keys, k \in DOMAIN msg.changes, files[l][k] \in Entry
          PROVE  /\ k \in msg.retires
                 /\ <<msg.update, k>> \in DOMAIN retired
                 /\ retired[<<msg.update, k>>].entry = files[l][k]
                 /\ msg.update \in DOMAIN acks /\ l \in acks[msg.update]
      BY <1>1, <2>1, <2>9, FirstUpdate DEF AwaitedAs, msg
    <2>10. Pinning(l)'
      <3> SUFFICES ASSUME NEW v \in Entry
                   PROVE  /\ bound'[l][v] # None => pins[l][v] > 0
                          /\ pins[l][v] > 0 /\ bound'[l][v] = None =>
                               \E k \in Keys : files'[l][k] = v
        BY <1>1 DEF Pinning
      <3>1. CASE \E k \in msg.retires : /\ files[l][k] = v
                                        /\ Pinned(l, v)
                                        /\ bound'[l][v] = <<msg.update, k>>
        <4>1. \A k \in msg.retires : <<msg.update, k>> # None
          BY <1>3, ValuesAssumption DEF RetireId
        <4> QED
          BY <3>1, <4>1 DEF Pinned
      <3>2. CASE /\ bound'[l][v] = bound[l][v]
                 /\ ~ \E k \in msg.retires : files[l][k] = v /\ Pinned(l, v)
        BY <1>5, <2>1, <2>9, <3>2 DEF LinkInv, Pinning, Pinned
      <3> QED
        BY <1>4, <3>1, <3>2
    <2>11. ASSUME NEW v \in Entry, bound'[l][v] # None
           PROVE  Secured(l, bound[l][v], v)'
      <3>1. CASE \E k \in msg.retires : /\ files[l][k] = v
                                        /\ Pinned(l, v)
                                        /\ bound'[l][v] = <<msg.update, k>>
        <4>1. PICK k \in msg.retires : /\ files[l][k] = v
                                       /\ Pinned(l, v)
                                       /\ bound'[l][v] = <<msg.update, k>>
          BY <3>1
        <4> DEFINE id == <<msg.update, k>>
        <4>2. /\ id \in DOMAIN retired /\ retired[id].entry = v
              /\ id[1] \in DOMAIN acks /\ l \in acks[id[1]] /\ id[1] = msg.update
              /\ k \in Retained(l, msg)
          BY <1>3, <1>4, <2>9, <4>1
        <4>3. /\ id \in up'[l][p + 1].ids /\ up'[l][p + 1].type = "ack"
              /\ up'[l][p + 1].update = id[1] /\ p + 1 \in 1..(p + 1)
          BY <1>3, <2>2, <2>3, <4>2
        <4>4. \A i \in 1..(p + 1) : up'[l][i].type = "release" => id \notin up'[l][i].ids
          <5>1. \A i \in 1..p : id \notin up[l][i].ids
            BY <1>3, <2>6, <4>2
          <5> QED
            BY <2>2, <2>3, <2>4, <5>1
        <4>5. \A j \in 1..(n - 1) : id[1] < down'[l][j].update
          BY <2>5, <4>2
        <4> HIDE DEF id
        <4>6. bound'[l][v] = id
          BY <4>1 DEF id
        <4> QED
          BY <1>1, <1>2, <2>3, <4>2, <4>3, <4>4, <4>5, <4>6 DEF Secured
      <3>2. CASE bound'[l][v] = bound[l][v]
        <4>1. Secured(l, bound[l][v], v)
          BY <2>1, <2>11, <3>2 DEF LinkInv
        <4>2. \A j \in 1..(n - 1) : bound[l][v][1] < down'[l][j].update
          <5>1. \A j \in 1..(n - 1) : j + 1 \in 1..n
            BY <1>2
          <5> QED
            BY <1>2, <4>1, <5>1 DEF Secured
        <4>3. \A i \in 1..(p + 1) : up'[l][i].type = "release" =>
                bound[l][v] \notin up'[l][i].ids
          BY <2>2, <2>3, <2>4, <4>1 DEF Secured
        <4>4. \A i \in 1..p : i \in 1..(p + 1)
          OBVIOUS
        <4> QED
          BY <1>1, <1>2, <2>3, <3>2, <4>1, <4>2, <4>3, <4>4 DEF Secured
      <3> QED
        BY <1>4, <3>1, <3>2
    <2>12. Protected(l)'
      <3> SUFFICES ASSUME NEW k \in Keys, NEW i \in 0..(n - 1),
                          Source(l, i, k)', ValueAt(l, i, k)' \in Entry
                   PROVE  \/ /\ ValueAt(l, i, k)' = files'[Main][k]
                             /\ \A m \in (i + 1)..(n - 1) : ~Touches(l, m, k)'
                          \/ \E j \in (i + 1)..(n - 1) :
                               /\ \A m \in (i + 1)..(j - 1) : ~Touches(l, m, k)'
                               /\ k \in down'[l][j].retires
                               /\ AwaitedAs(l, <<down'[l][j].update, k>>,
                                            ValueAt(l, i, k)')
        BY ZenonT(30), <1>1, <1>2 DEF Protected, AwaitedAs
      <3> DEFINE v == ValueAt(l, i, k)'
      <3> PICK o \in 0..n : o = Old(i, k)
        BY <1>8
      <3>1. /\ Source(l, o, k) /\ ValueAt(l, o, k) = v
            /\ o = i + 1 \/ (i = 0 /\ o = 0 /\ k \notin DOMAIN msg.changes)
        BY <1>8
      <3> HIDE DEF Old, v
      <3>2. \A m \in 1..(n - 1) : /\ m + 1 \in 1..n
                                   /\ Touches(l, m, k)' <=> Touches(l, m + 1, k)
        BY <1>2 DEF Touches
      <3>3. files'[Main] = files[Main] /\ v \in Entry
        BY <1>1, <1>4 DEF v, TypeOK
      <3>4. CASE /\ v = files[Main][k]
                 /\ \A m \in (o + 1)..n : ~Touches(l, m, k)
        <4>1. \A m \in (i + 1)..(n - 1) : ~Touches(l, m, k)'
          <5>1. \A m \in (i + 1)..(n - 1) : m \in 1..(n - 1) /\ m + 1 \in (o + 1)..n
            BY <3>1
          <5> QED
            BY <3>2, <3>4, <5>1
        <4> QED
          BY <3>3, <3>4, <4>1 DEF v
      <3>5. ASSUME NEW j \in (o + 1)..n, \A m \in (o + 1)..(j - 1) : ~Touches(l, m, k),
                   k \in down[l][j].retires,
                   AwaitedAs(l, <<down[l][j].update, k>>, v)
            PROVE  \E h \in (i + 1)..(n - 1) :
                     /\ \A m \in (i + 1)..(h - 1) : ~Touches(l, m, k)'
                     /\ k \in down'[l][h].retires
                     /\ AwaitedAs(l, <<down'[l][h].update, k>>, v)
        <4>1. j \in 1..n /\ k \in DOMAIN down[l][j].changes
          BY <1>1, <3>5 DEF LinkShape
        <4>2. j # 1 \/ o = i + 1
          BY <3>1, <4>1 DEF msg
        <4>3. j - 1 \in (i + 1)..(n - 1) /\ j - 1 \in 1..(n - 1) /\ (j - 1) + 1 = j
          BY <3>1, <4>2
        <4>4. \A m \in (i + 1)..((j - 1) - 1) : ~Touches(l, m, k)'
          <5> SUFFICES ASSUME NEW m \in (i + 1)..((j - 1) - 1) PROVE ~Touches(l, m, k)'
            OBVIOUS
          <5>1. /\ i \in Int /\ n \in Int /\ j \in Int /\ i >= 0 /\ j <= n
                /\ m \in Int /\ i + 1 <= m /\ m <= (j - 1) - 1
            OBVIOUS
          <5>2. m \in 1..(n - 1) /\ m + 1 \in (o + 1)..(j - 1)
            <6>1. CASE o = i + 1
              BY <5>1, <6>1
            <6>2. CASE i = 0 /\ o = 0
              BY <5>1, <6>2
            <6> QED
              BY <3>1, <6>1, <6>2
          <5>3. ~Touches(l, m + 1, k)
            BY <3>5, <5>2
          <5>4. Touches(l, m, k)' <=> Touches(l, m + 1, k)
            BY <3>2, <5>2
          <5> QED
            BY <5>3, <5>4
        <4>5. down'[l][j - 1] = down[l][j]
          BY <1>2, <4>3
        <4> QED
          BY <3>5, <4>3, <4>4, <4>5
      <3>6. \/ /\ v = files[Main][k]
               /\ \A m \in (o + 1)..n : ~Touches(l, m, k)
            \/ \E j \in (o + 1)..n :
                 /\ \A m \in (o + 1)..(j - 1) : ~Touches(l, m, k)
                 /\ k \in down[l][j].retires
                 /\ AwaitedAs(l, <<down[l][j].update, k>>, v)
        BY <2>1, <3>1, <3>3 DEF LinkInv, Protected
      <3> QED
        BY <3>4, <3>5, <3>6 DEF v
    <2> QED
      BY <2>8, <2>10, <2>11, <2>12 DEF LinkInv
  <1> QED
    BY <1>6, <1>7, <1>9, <1>10, <1>11, OnlyLinkInv

-----------------------------------------------------------------------------
(* What the invariant says of every reader. *)

\* A retired version holds its content until its record goes.
LEMMA WorkerIntact ==
  ASSUME IInv, phase = "ready", NEW l \in Links
  PROVE  /\ \A k \in Keys : \A i \in 0..Len(down[l]) :
              Source(l, i, k) /\ ValueAt(l, i, k) \in Entry => Intact(ValueAt(l, i, k))
         /\ \A v \in Entry : pins[l][v] > 0 => Intact(v)
  <1>1. /\ TypeOK /\ ReadyInv /\ LinkShape(l) /\ None \notin Entry
        /\ Owned(free, bytes, private, files[Main], retired)
    BY ValuesAssumption DEF IInv, ReadyInv
  <1>2. CASE ~Alive(l)
    <2>1. /\ down[l] = <<>> /\ Len(down[l]) = 0
          /\ files[l] = NoFile /\ pins[l] = Unpinned
      BY <1>1, <1>2 DEF LinkShape, Alive
    <2>2. \A k \in Keys : \A i \in 0..Len(down[l]) : ValueAt(l, i, k) \notin Entry
      BY <1>1, <2>1 DEF ValueAt, NoFile
    <2> QED
      BY <2>1, <2>2 DEF Unpinned
  <1>3. CASE Alive(l)
    <2>1. LinkInv(l)
      BY <1>1, <1>3 DEF ReadyInv
    <2>2. \A k \in Keys : \A i \in 0..Len(down[l]) :
            Source(l, i, k) /\ ValueAt(l, i, k) \in Entry =>
              \/ ValueAt(l, i, k) = files[Main][k]
              \/ \E id \in DOMAIN retired : retired[id].entry = ValueAt(l, i, k)
      BY <2>1 DEF LinkInv, Protected, AwaitedAs
    <2>3. \A k \in Keys : \A i \in 0..Len(down[l]) :
            Source(l, i, k) /\ ValueAt(l, i, k) \in Entry => Intact(ValueAt(l, i, k))
      BY <1>1, <2>2 DEF Owned, Intact
    <2>4. ASSUME NEW v \in Entry, pins[l][v] > 0 PROVE Intact(v)
      <3>1. CASE bound[l][v] = None
        <4>1. PICK k \in Keys : files[l][k] = v
          BY <2>1, <2>4, <3>1 DEF LinkInv, Pinning
        <4>2. 0 \in 0..Len(down[l])
          BY <1>1 DEF TypeOK
        <4> QED
          BY <2>3, <4>1, <4>2 DEF Source, ValueAt
      <3>2. CASE bound[l][v] # None
        <4>1. bound[l][v] \in DOMAIN retired /\ retired[bound[l][v]].entry = v
          BY <2>1, <3>2 DEF LinkInv, Secured
        <4> QED
          BY <1>1, <4>1 DEF Owned, Intact
      <3> QED
        BY <3>1, <3>2
    <2> QED
      BY <2>3, <2>4
  <1> QED
    BY <1>2, <1>3

LEMMA CloseInv ==
  ASSUME IInv, TypeOK', Close
  PROVE  IInv'
  <1>1. /\ phase = "ready" /\ phase' = "closed" /\ TypeOK
        /\ UNCHANGED <<bytes, worker, down>> /\ links' = {}
        /\ files' = [files EXCEPT ![Main] = NoFile]
        /\ pins' = [pins EXCEPT ![Main] = Unpinned]
        /\ bound' = [bound EXCEPT ![Main] = Unbound]
        /\ up' = [l \in Links |-> <<>>]
        /\ Main \in Threads /\ \A l \in Links : l \in Threads /\ l # Main
    BY ThreadsAssumption DEF Close, IInv, Threads
  <1>2. /\ files'[Main] = NoFile /\ pins'[Main] = Unpinned
        /\ \A l \in Links : /\ files'[l] = files[l] /\ pins'[l] = pins[l]
                            /\ bound'[l] = bound[l]
    BY <1>1 DEF TypeOK
  <1>3. ASSUME NEW l \in Links
        PROVE  /\ \A k \in Keys : \A i \in 0..Len(down'[l]) :
                    Source(l, i, k)' /\ ValueAt(l, i, k)' \in Entry
                      => Intact(ValueAt(l, i, k))'
               /\ \A v \in Entry : pins'[l][v] > 0 => Intact(v)'
    <2>1. \A i, k : /\ Source(l, i, k)' <=> Source(l, i, k)
                    /\ ValueAt(l, i, k)' = ValueAt(l, i, k)
      BY <1>1, <1>2 DEF Source, Touches, ValueAt
    <2> QED
      BY <1>1, <1>2, <2>1, WorkerIntact DEF Intact
  <1>4. ClosedInv'
    BY <1>2, <1>3 DEF ClosedInv
  <1>5. \A l \in Links : LinkShape(l)'
    BY <1>1, <1>2 DEF IInv, LinkShape, Alive
  <1> QED
    BY <1>1, <1>4, <1>5 DEF IInv

-----------------------------------------------------------------------------
(* The theorem. *)

LEMMA InitInv == Init => IInv
  <1> SUFFICES ASSUME Init PROVE IInv
    OBVIOUS
  <1>1. /\ TypeOK /\ None \notin Entry /\ Main \in Threads
        /\ \A l \in Links : l \in Threads
    BY InitType, ValuesAssumption DEF Threads
  <1>2. Owned(free, bytes, private, files[Main], retired)
    BY <1>1 DEF Init, Owned, NoFile
  <1>3. MainInv
    BY <1>1 DEF Init, MainInv, Pinning, Unpinned, Unbound
  <1>4. \A l \in Links : LinkShape(l) /\ ~Alive(l)
    BY <1>1 DEF Init, LinkShape, Alive
  <1> QED
    BY <1>1, <1>2, <1>3, <1>4 DEF Init, IInv, ReadyInv

LEMMA StepInv == IInv /\ TypeOK' /\ [Next]_vars => IInv'
  <1> SUFFICES ASSUME IInv, TypeOK', [Next]_vars PROVE IInv'
    OBVIOUS
  <1>1. ASSUME NEW c \in Contents, Allocate(c) PROVE IInv'
    BY <1>1, AllocateInv
  <1>2. ASSUME NEW v \in private, Abandon(v) PROVE IInv'
    BY <1>2, AbandonInv
  <1>3. ASSUME NEW D \in SUBSET Keys,
               NEW changes \in [D -> private \cup {Plain, None}], Flush(changes)
        PROVE  IInv'
    BY <1>3, FlushInv
  <1>4. CASE Compact
    BY <1>4, CompactInv
  <1>5. ASSUME NEW l \in Links,
               HandleMessage(l) \/ Link(l) \/ Attach(l) \/ Deliver(l) \/ Exit(l)
        PROVE  IInv'
    BY <1>5, HandleMessageInv, LinkStepInv, AttachInv, DeliverInv, ExitInv
  <1>6. ASSUME NEW t \in Threads, NEW k \in Keys, Acquire(t, k) PROVE IInv'
    BY <1>6, AcquireInv
  <1>7. ASSUME NEW t \in Threads, NEW v \in Entry, Drop(t, v) PROVE IInv'
    BY <1>7, MainDropInv, WorkerDropInv DEF Threads
  <1>8. CASE Close
    BY <1>8, CloseInv
  <1>9. CASE UNCHANGED vars
    <2>1. \A l \in Links : LinkShape(l)'
      BY <1>9 DEF vars, IInv, LinkShape, Alive
    <2>2. ReadyInv => ReadyInv'
      <3>1. \A l \in Links : Alive(l)' /\ LinkInv(l) => LinkInv(l)'
        BY <1>9 DEF vars, Alive, LinkInv, InOrder, Protected, Pinning, Secured, AwaitedAs,
                    Source, Touches, ValueAt
      <3>2. \A l \in Links : Alive(l)' <=> Alive(l)
        BY <1>9 DEF vars, Alive
      <3> QED
        BY <1>9, <3>1, <3>2 DEF vars, ReadyInv, Owned, MainInv, Pinning
    <2>3. ClosedInv => ClosedInv'
      BY <1>9 DEF vars, ClosedInv, Intact, Source, Touches, ValueAt
    <2>4. phase' = phase
      BY <1>9 DEF vars
    <2> QED
      BY <2>1, <2>2, <2>3, <2>4 DEF IInv
  <1> QED
    BY <1>1, <1>2, <1>3, <1>4, <1>5, <1>6, <1>7, <1>8, <1>9 DEF Next

LEMMA InvSafe == IInv => NoForeignBytes
  <1> SUFFICES ASSUME IInv, NEW t \in Threads, NEW v \in Readable(t) PROVE Intact(v)
    BY DEF NoForeignBytes, Intact
  <1>1. /\ TypeOK /\ phase \in {"ready", "closed"} /\ v \in Entry
        /\ v \in {files[t][k] : k \in Keys} \/ pins[t][v] > 0
        /\ None \notin Entry
    BY ValuesAssumption DEF IInv, TypeOK, Readable
  <1>2. CASE t = Main
    <2>1. CASE phase = "ready"
      <3>1. Owned(free, bytes, private, files[Main], retired) /\ MainInv
        BY <2>1 DEF IInv, ReadyInv
      <3> QED
        BY <1>1, <1>2, <3>1 DEF Owned, MainInv, Pinning, Intact
    <2>2. CASE phase = "closed"
      BY <1>1, <1>2, <2>2 DEF IInv, ClosedInv, NoFile, Unpinned
    <2> QED
      BY <1>1, <2>1, <2>2
  <1>3. CASE t # Main
    <2>1. t \in Links /\ 0 \in 0..Len(down[t])
      BY <1>1, <1>3 DEF Threads, TypeOK
    <2>2. /\ \A k \in Keys : \A i \in 0..Len(down[t]) :
               Source(t, i, k) /\ ValueAt(t, i, k) \in Entry => Intact(ValueAt(t, i, k))
          /\ \A w \in Entry : pins[t][w] > 0 => Intact(w)
      BY <1>1, <2>1, WorkerIntact DEF IInv, ClosedInv
    <2>3. \A k \in Keys : files[t][k] \in Entry => Intact(files[t][k])
      BY <2>1, <2>2 DEF Source, ValueAt
    <2> QED
      BY <1>1, <2>2, <2>3
  <1> QED
    BY <1>2, <1>3

\* IInv holds in every reachable state.
THEOREM Inductive == Spec => []IInv
  <1>1. Init => IInv
    BY InitInv
  <1>2. IInv /\ TypeOK' /\ [Next]_vars => IInv'
    BY StepInv
  <1> QED
    BY <1>1, <1>2, TypeCorrect, PTL DEF Spec

\* A reader never finds foreign bytes, for any number of workers, keys, extents
\* and updates, whatever is in flight and whoever lags behind: kernel.js frees an
\* extent only when every linked worker has ACKed the update that retired the
\* version in it and every consumer that was reading it then has let it go.
THEOREM NoForeignBytesAlways == Spec => []NoForeignBytes
  BY Inductive, InvSafe, PTL

-----------------------------------------------------------------------------
(* Settling records and answering ACKs. *)

\* What a settle leaves of the records is still awaited or held, if the records
\* it does not look at were.
LEMMA SettleAwaited ==
  ASSUME NEW recs, NEW ids \in SUBSET DOMAIN recs, NEW waiting, NEW fr, NEW cl,
         Settle(recs, ids, waiting, fr, cl),
         \A id \in DOMAIN recs :
           id \in ids \/ id[1] \in DOMAIN waiting \/ recs[id].holders # {}
  PROVE  Awaited'
  <1>1. \A id \in DOMAIN retired' :
          /\ id \in DOMAIN recs /\ retired'[id] = recs[id]
          /\ ~(id \in ids /\ Freeable(recs[id], id[1], waiting))
    BY DEF Settle, Restrict
  <1>2. acks' = waiting
    BY DEF Settle
  <1>3. \A id \in DOMAIN retired' : id[1] \in DOMAIN acks' \/ retired'[id].holders # {}
    BY <1>1, <1>2 DEF Freeable
  <1> QED
    BY <1>3 DEF Awaited, Due

\* An answer of link l takes l, and nobody else, out of what is awaited.
LEMMA AnsweredExact ==
  ASSUME \A u \in DOMAIN acks : acks[u] # {}
  PROVE  \A l, updates : \A u \in DOMAIN Answered(l, updates) :
           /\ u \in DOMAIN acks
           /\ Answered(l, updates)[u] # {}
           /\ \A h \in Answered(l, updates)[u] :
                h \in acks[u] /\ (h = l => u \notin updates)
  BY DEF Answered

\* An update that is no longer awaited after l answered `updates` was one of them,
\* and a record of any other update is none that the answer settles.
LEMMA AnsweredRest ==
  ASSUME NEW l, NEW updates, NEW id \in DOMAIN retired, id[1] \in DOMAIN acks
  PROVE  \/ id[1] \in DOMAIN Answered(l, updates)
         \/ id \in RecordsOf(DOMAIN acks \ DOMAIN Answered(l, updates))
  BY DEF RecordsOf

-----------------------------------------------------------------------------
(* Steps that touch nothing a wait depends on. *)

LEMMA QuietWait ==
  ASSUME WaitInv, UNCHANGED <<phase, updateId, retired, acks, links, worker, pins,
                              bound, down, up>>
  PROVE  WaitInv'
  <1> SUFFICES ASSUME phase = "ready" PROVE WaitInv'
    BY DEF WaitInv
  <1>1. AnswersMade' /\ Awaited' /\ ExitReported'
    BY DEF WaitInv, AnswersMade, Awaited, ExitReported, Due
  <1>2. \A l, u : WillAnswer(l, u)' <=> WillAnswer(l, u)
    BY DEF WillAnswer
  <1>3. Answerable'
    BY <1>2 DEF WaitInv, Answerable
  <1>4. \A t, id : Reads(t, id)' <=> Reads(t, id)
    BY DEF Reads
  <1>5. \A l, id, n : LetsGo(l, id, n)' <=> LetsGo(l, id, n)
    BY DEF LetsGo
  <1>6. Holding' /\ HoldingNext'
    BY <1>4, <1>5 DEF WaitInv, Holding, HoldingNext
  <1> QED
    BY <1>1, <1>3, <1>6 DEF WaitInv

LEMMA LinkStepWait ==
  ASSUME WaitInv, TypeOK, NEW l \in Links, Link(l) \/ Attach(l)
  PROVE  WaitInv'
  <1> SUFFICES ASSUME phase = "ready" PROVE WaitInv'
    BY DEF WaitInv, Link, Attach
  <1>1. /\ UNCHANGED <<updateId, retired, acks, pins, bound, down, up>>
        /\ worker'[l] # "gone" /\ \A h \in Links : h # l => worker'[h] = worker[h]
        /\ links' \subseteq links \cup {l} /\ links \subseteq Links
    BY DEF Link, Attach, TypeOK
  <1>2. AnswersMade' /\ Awaited' /\ ExitReported'
    BY <1>1 DEF WaitInv, AnswersMade, Awaited, ExitReported, Due
  <1>3. \A h, u : WillAnswer(h, u)' <=> WillAnswer(h, u)
    BY <1>1 DEF WillAnswer
  <1>4. Answerable'
    BY <1>1, <1>3 DEF WaitInv, Answerable
  <1>5. \A t, id : Reads(t, id)' <=> Reads(t, id)
    BY <1>1 DEF Reads
  <1>6. \A h, id, n : LetsGo(h, id, n)' <=> LetsGo(h, id, n)
    BY <1>1 DEF LetsGo
  <1>7. Holding' /\ HoldingNext'
    BY <1>1, <1>5, <1>6 DEF WaitInv, Holding, HoldingNext
  <1> QED
    BY <1>2, <1>4, <1>7 DEF WaitInv

LEMMA ReadsWait ==
  ASSUME WaitInv, TypeOK,
         UNCHANGED <<phase, updateId, retired, acks, links, worker, down, up>>,
         \A t \in Threads, id \in DOMAIN retired : Reads(t, id) => Reads(t, id)'
  PROVE  WaitInv'
  <1> SUFFICES ASSUME phase = "ready" PROVE WaitInv'
    BY DEF WaitInv
  <1>1. AnswersMade' /\ Awaited' /\ ExitReported'
    BY DEF WaitInv, AnswersMade, Awaited, ExitReported, Due
  <1>2. \A h, u : WillAnswer(h, u)' <=> WillAnswer(h, u)
    BY DEF WillAnswer
  <1>3. Answerable'
    BY <1>2 DEF WaitInv, Answerable
  <1>4. \A id \in DOMAIN retired : retired[id].holders \subseteq Threads
    BY DEF TypeOK
  <1>5. \A h, id, n : LetsGo(h, id, n)' <=> LetsGo(h, id, n)
    BY DEF LetsGo
  <1>6. \A h \in Links : h \in Threads
    BY DEF Threads
  <1>7. Holding'
    BY <1>4, <1>5 DEF WaitInv, Holding
  <1>8. HoldingNext'
    BY <1>5, <1>6 DEF WaitInv, HoldingNext
  <1> QED
    BY <1>1, <1>3, <1>7, <1>8 DEF WaitInv

LEMMA AcquireWait ==
  ASSUME WaitInv, TypeOK, NEW t \in Threads, NEW k \in Keys, Acquire(t, k)
  PROVE  WaitInv'
  <1>1. /\ UNCHANGED <<phase, updateId, retired, acks, links, worker, bound, down, up>>
        /\ files[t][k] \in Entry
        /\ pins' = [pins EXCEPT ![t][files[t][k]] = @ + 1]
    BY DEF Acquire, poolVars, linkVars
  <1>2. \A s \in Threads : \A v \in Entry : pins[s][v] > 0 => pins'[s][v] > 0
    BY <1>1 DEF TypeOK
  <1>3. \A id \in DOMAIN retired : retired[id].entry \in Entry
    BY DEF TypeOK
  <1>4. \A s \in Threads, id \in DOMAIN retired : Reads(s, id) => Reads(s, id)'
    BY <1>1, <1>2, <1>3 DEF Reads
  <1> QED
    BY <1>1, <1>4, ReadsWait

-----------------------------------------------------------------------------
(* The main thread handles a message of link l. *)

\* What the three handlers make of holders, ACKs and links, read backwards: who
\* is waited for afterwards was waited for before, or is the reader the ACK names.
HandledWaits(l, m) ==
  /\ Awaited'
  /\ \A u \in DOMAIN acks' :
       /\ u \in DOMAIN acks /\ acks'[u] # {}
       /\ \A h \in acks'[u] :
            /\ h \in acks[u]
            /\ h = l => m.type # "close" /\ (m.type = "ack" => m.update # u)
  /\ \A id \in DOMAIN retired' :
       /\ id \in DOMAIN retired /\ retired'[id].entry = retired[id].entry
       /\ \A h \in retired'[id].holders :
            \/ /\ h \in retired[id].holders
               /\ h = l => m.type # "close" /\ (m.type = "release" => id \notin m.ids)
            \/ h = l /\ m.type = "ack" /\ id \in m.ids
  /\ links' \subseteq links
  /\ m.type = "close" => l \notin links'

LEMMA HandleAckWaits ==
  ASSUME TypeOK, WaitInv, phase = "ready", NEW l \in Links, NEW m, m = Head(up[l]),
         HandleAck(l)
  PROVE  HandledWaits(l, m)
  <1> DEFINE waiting == Answered(l, {m.update})
             recs == AckRecords(l, m.ids)
             ids == RecordsOf(DOMAIN acks \ DOMAIN waiting)
  <1>1. m.type = "ack" /\ Settle(recs, ids, waiting, free, closed) /\ links' = links
    BY DEF HandleAck
  <1>2. \A u \in DOMAIN waiting :
          /\ u \in DOMAIN acks /\ waiting[u] # {}
          /\ \A h \in waiting[u] : h \in acks[u] /\ (h = l => u # m.update)
    <2> DEFINE answers == {m.update}
    <2>1. \A u \in DOMAIN Answered(l, answers) :
            /\ u \in DOMAIN acks /\ Answered(l, answers)[u] # {}
            /\ \A h \in Answered(l, answers)[u] :
                 h \in acks[u] /\ (h = l => u \notin answers)
      <3> HIDE DEF answers
      <3> QED
        BY AnsweredExact DEF WaitInv, Answerable
    <2> QED
      BY <2>1
  <1>3. /\ DOMAIN recs = DOMAIN retired
        /\ \A id \in DOMAIN retired :
             /\ recs[id].entry = retired[id].entry
             /\ \A h : h \in recs[id].holders <=>
                         h \in retired[id].holders \/ (h = l /\ id \in m.ids)
    BY AckEffects
  <1>4. \A id \in DOMAIN recs :
          id \in ids \/ id[1] \in DOMAIN waiting \/ recs[id].holders # {}
    <2> SUFFICES ASSUME NEW id \in DOMAIN retired, id \notin ids, id[1] \notin DOMAIN waiting
                 PROVE  recs[id].holders # {}
      BY <1>3
    <2>1. id[1] \notin DOMAIN acks
      BY AnsweredRest
    <2>2. retired[id].holders # {}
      BY <2>1 DEF WaitInv, Awaited, Due
    <2> QED
      BY <1>3, <2>2
  <1>5. ids \in SUBSET DOMAIN recs
    BY <1>3 DEF RecordsOf
  <1> HIDE DEF waiting, recs, ids
  <1>6. Awaited'
    BY <1>1, <1>4, <1>5, SettleAwaited
  <1>7. /\ acks' = waiting
        /\ \A id \in DOMAIN retired' : id \in DOMAIN recs /\ retired'[id] = recs[id]
    BY <1>1, <1>5, SettleKeeps
  <1> QED
    BY <1>1, <1>2, <1>3, <1>6, <1>7 DEF HandledWaits

LEMMA HandleReleaseWaits ==
  ASSUME TypeOK, WaitInv, phase = "ready", NEW l \in Links, NEW m, m = Head(up[l]),
         HandleRelease(l)
  PROVE  HandledWaits(l, m)
  <1> DEFINE recs == Without(l, m.ids)
             ids == m.ids \cap Held(l)
  <1>1. m.type = "release" /\ Settle(recs, ids, acks, free, closed) /\ links' = links
    BY DEF HandleRelease
  <1>2. \A u \in DOMAIN acks : acks[u] # {}
    BY DEF WaitInv, Answerable
  <1>3. /\ DOMAIN recs = DOMAIN retired
        /\ \A id \in DOMAIN retired :
             /\ recs[id].entry = retired[id].entry
             /\ \A h : h \in recs[id].holders <=>
                         h \in retired[id].holders /\ ~(h = l /\ id \in m.ids)
    BY WithoutEffects
  <1>4. \A id \in DOMAIN recs :
          id \in ids \/ id[1] \in DOMAIN acks \/ recs[id].holders # {}
    <2> SUFFICES ASSUME NEW id \in DOMAIN retired, id \notin ids, id[1] \notin DOMAIN acks
                 PROVE  recs[id].holders # {}
      BY <1>3
    <2>1. retired[id].holders # {}
      BY DEF WaitInv, Awaited, Due
    <2>2. l \notin retired[id].holders \/ id \notin m.ids
      BY DEF Held
    <2> QED
      BY <1>3, <2>1, <2>2
  <1>5. ids \in SUBSET DOMAIN recs
    BY <1>3 DEF Held
  <1> HIDE DEF recs, ids
  <1>6. Awaited'
    BY <1>1, <1>4, <1>5, SettleAwaited
  <1>7. /\ acks' = acks
        /\ \A id \in DOMAIN retired' : id \in DOMAIN recs /\ retired'[id] = recs[id]
    BY <1>1, <1>5, SettleKeeps
  <1> QED
    BY <1>1, <1>2, <1>3, <1>6, <1>7 DEF HandledWaits

LEMMA HandleWorkerExitWaits ==
  ASSUME TypeOK, WaitInv, phase = "ready", NEW l \in Links, NEW m, m = Head(up[l]),
         HandleWorkerExit(l)
  PROVE  HandledWaits(l, m)
  <1> DEFINE waiting == Answered(l, DOMAIN acks)
             recs == Without(l, DOMAIN retired)
             ids == RecordsOf(DOMAIN acks \ DOMAIN waiting) \cup Held(l)
  <1>1. /\ m.type = "close" /\ Settle(recs, ids, waiting, free, closed)
        /\ links' = links \ {l}
    BY DEF HandleWorkerExit
  <1>2. \A u \in DOMAIN waiting :
          /\ u \in DOMAIN acks /\ waiting[u] # {}
          /\ \A h \in waiting[u] : h \in acks[u] /\ h # l
    BY AnsweredExact DEF WaitInv, Answerable
  <1>3. /\ DOMAIN recs = DOMAIN retired
        /\ \A id \in DOMAIN retired :
             /\ recs[id].entry = retired[id].entry
             /\ \A h : h \in recs[id].holders <=>
                         h \in retired[id].holders /\ ~(h = l /\ id \in DOMAIN retired)
    BY WithoutEffects
  <1>4. \A id \in DOMAIN recs :
          id \in ids \/ id[1] \in DOMAIN waiting \/ recs[id].holders # {}
    <2> SUFFICES ASSUME NEW id \in DOMAIN retired, id \notin ids, id[1] \notin DOMAIN waiting
                 PROVE  recs[id].holders # {}
      BY <1>3
    <2>1. id[1] \notin DOMAIN acks
      BY AnsweredRest
    <2>2. retired[id].holders # {}
      BY <2>1 DEF WaitInv, Awaited, Due
    <2>3. l \notin retired[id].holders
      BY DEF Held
    <2> QED
      BY <1>3, <2>2, <2>3
  <1>5. ids \in SUBSET DOMAIN recs
    BY <1>3 DEF RecordsOf, Held
  <1> HIDE DEF waiting, recs, ids
  <1>6. Awaited'
    BY <1>1, <1>4, <1>5, SettleAwaited
  <1>7. /\ acks' = waiting
        /\ \A id \in DOMAIN retired' : id \in DOMAIN recs /\ retired'[id] = recs[id]
    BY <1>1, <1>5, SettleKeeps
  <1> QED
    BY <1>1, <1>2, <1>3, <1>6, <1>7 DEF HandledWaits

LEMMA HandleMessageWait ==
  ASSUME TypeOK, WaitInv, NEW l \in Links, HandleMessage(l)
  PROVE  WaitInv'
  <1>1. /\ phase = "ready" /\ phase' = "ready"
        /\ up[l] # <<>> /\ up' = [up EXCEPT ![l] = Tail(@)]
        /\ UNCHANGED <<updateId, worker, pins, bound, down>>
    BY DEF HandleMessage
  <1>0. up[l] \in Seq(UpMessage)
    BY DEF TypeOK
  <1> PICK m \in UpMessage : m = Head(up[l])
    BY <1>1, <1>0
  <1> PICK n \in Nat : n = Len(up[l])
    BY <1>0
  <1>2. /\ n >= 1 /\ m = up[l][1] /\ Len(up'[l]) = n - 1
        /\ \A i \in 1..(n - 1) : up'[l][i] = up[l][i + 1]
        /\ \A h \in Links : h # l => up'[h] = up[h]
    BY <1>1, TailFacts DEF TypeOK
  <1>3. HandledWaits(l, m)
    BY <1>1, HandleAckWaits, HandleReleaseWaits, HandleWorkerExitWaits DEF HandleMessage
  <1>4. Main \notin Links /\ \A u \in DOMAIN acks : acks[u] \subseteq Links
    BY ThreadsAssumption DEF TypeOK
  \* Every message of l but the first is one place further on.
  <1>5. \A i \in 1..n : i # 1 => i - 1 \in 1..(n - 1) /\ up'[l][i - 1] = up[l][i]
    BY <1>2
  <1>6. \A i \in 1..(n - 1) : i + 1 \in 1..n /\ up'[l][i] = up[l][i + 1]
    BY <1>2
  <1>7. AnswersMade'
    <2> SUFFICES ASSUME NEW h \in Links, NEW i \in 1..Len(up'[h]), up'[h][i].type = "ack",
                        NEW id \in up'[h][i].ids
                 PROVE  id[1] <= updateId
      BY <1>1 DEF AnswersMade
    <2>1. CASE h = l
      <3>1. i \in 1..(n - 1)
        BY <1>2, <2>1
      <3>2. i + 1 \in 1..n /\ up'[l][i] = up[l][i + 1]
        BY <1>6, <3>1
      <3> QED
        BY <1>1, <2>1, <3>2 DEF WaitInv, AnswersMade
    <2>2. CASE h # l
      BY <1>1, <1>2, <2>2 DEF WaitInv, AnswersMade
    <2> QED
      BY <2>1, <2>2
  <1>8. ASSUME NEW u \in DOMAIN acks', NEW h \in acks'[u] PROVE WillAnswer(h, u)'
    <2>1. h \in acks[u] /\ WillAnswer(h, u) /\ h \in Links
      BY <1>1, <1>3, <1>4 DEF HandledWaits, WaitInv, Answerable
    <2>2. CASE h # l
      BY <1>1, <1>2, <2>1, <2>2 DEF WillAnswer
    <2>3. CASE h = l
      <3>1. ~(m.type = "ack" /\ m.update = u) /\ m.type # "close"
        BY <1>3, <2>3 DEF HandledWaits
      <3>2. CASE \E i \in 1..Len(down[l]) : down[l][i].update = u
        BY <1>1, <2>3, <3>2 DEF WillAnswer
      <3>3. ASSUME NEW i \in 1..n,
                   \/ up[l][i].type = "ack" /\ up[l][i].update = u
                   \/ up[l][i].type = "close"
            PROVE  WillAnswer(l, u)'
        <4>1. i # 1
          BY <1>2, <3>1, <3>3
        <4>2. i - 1 \in 1..(n - 1) /\ up'[l][i - 1] = up[l][i]
          BY <1>5, <4>1
        <4>3. i - 1 \in 1..Len(up'[l])
          BY <1>2, <4>2
        <4> QED
          BY <3>3, <4>2, <4>3 DEF WillAnswer
      <3> QED
        BY <2>1, <2>3, <3>2, <3>3 DEF WillAnswer
    <2> QED
      BY <2>2, <2>3
  <1>9. ASSUME NEW h \in links', worker[h] = "gone"
        PROVE  \E i \in 1..Len(up'[h]) : up'[h][i].type = "close"
    <2>1. PICK i \in 1..Len(up[h]) : up[h][i].type = "close"
      BY <1>1, <1>3, <1>9 DEF HandledWaits, WaitInv, ExitReported
    <2>2. h \in Links
      BY <1>3 DEF HandledWaits, TypeOK
    <2>3. CASE h = l
      <3>1. i \in 1..n /\ i # 1
        BY <1>2, <1>3, <1>9, <2>1, <2>3 DEF HandledWaits
      <3>2. i - 1 \in 1..(n - 1) /\ up'[l][i - 1] = up[l][i]
        BY <1>5, <3>1
      <3> QED
        BY <1>2, <2>1, <2>3, <3>2
    <2> QED
      BY <1>2, <2>1, <2>2, <2>3
  <1>10. \A t : \A id \in DOMAIN retired' : Reads(t, id) => Reads(t, id)'
    BY <1>1, <1>3 DEF HandledWaits, Reads
  \* What is let go behind the handled message still is.
  <1>11. ASSUME NEW id, NEW k \in Nat, NEW i \in 1..n, k < i, i # 1,
                \/ up[l][i].type = "release" /\ id \in up[l][i].ids
                \/ up[l][i].type = "close"
         PROVE  k >= 1 => LetsGo(l, id, k - 1)'
    <2>1. i - 1 \in 1..(n - 1) /\ up'[l][i - 1] = up[l][i]
      BY <1>5, <1>11
    <2>2. i - 1 \in 1..Len(up'[l]) /\ k - 1 < i - 1
      BY <1>2, <1>11, <2>1
    <2> QED
      BY <1>11, <2>1, <2>2 DEF LetsGo
  <1>12. ASSUME NEW id, NEW i \in 1..n, i # 1,
                \/ up[l][i].type = "release" /\ id \in up[l][i].ids
                \/ up[l][i].type = "close"
         PROVE  LetsGo(l, id, 0)'
    <2>1. i - 1 \in 1..(n - 1) /\ up'[l][i - 1] = up[l][i] /\ 0 < i - 1
      BY <1>5, <1>12
    <2>2. i - 1 \in 1..Len(up'[l])
      BY <1>2, <2>1
    <2> QED
      BY <1>12, <2>1, <2>2 DEF LetsGo
  <1>13. Holding'
    <2> SUFFICES ASSUME NEW id \in DOMAIN retired', NEW t \in retired'[id].holders
                 PROVE  \/ Reads(t, id)'
                        \/ t # Main /\ LetsGo(t, id, 0)'
      BY DEF Holding
    <2>1. id \in DOMAIN retired /\ retired[id].holders \subseteq Threads
      BY <1>3 DEF HandledWaits, TypeOK
    <2>2. CASE /\ t \in retired[id].holders
               /\ t = l => m.type # "close" /\ (m.type = "release" => id \notin m.ids)
      <3>1. \/ Reads(t, id)
            \/ t # Main /\ LetsGo(t, id, 0)
        BY <1>1, <2>1, <2>2 DEF WaitInv, Holding
      <3>2. CASE t # Main /\ LetsGo(t, id, 0) /\ t # l
        <4>1. t \in Links /\ up'[t] = up[t]
          BY <1>2, <2>1, <2>2, <3>2 DEF Threads
        <4> QED
          BY <3>2, <4>1 DEF LetsGo
      <3>3. CASE LetsGo(l, id, 0) /\ t = l
        <4>1. PICK i \in 1..n : \/ up[l][i].type = "release" /\ id \in up[l][i].ids
                                \/ up[l][i].type = "close"
          BY <3>3 DEF LetsGo
        <4>2. i # 1
          BY <1>2, <2>2, <3>3, <4>1
        <4> QED
          BY <1>4, <1>12, <3>3, <4>1, <4>2
      <3> QED
        BY <1>10, <3>1, <3>2, <3>3
    <2>3. CASE t = l /\ m.type = "ack" /\ id \in m.ids
      <3>1. Reads(l, id) \/ LetsGo(l, id, 1)
        BY <1>1, <1>2, <2>1, <2>3 DEF WaitInv, HoldingNext
      <3>2. CASE LetsGo(l, id, 1)
        <4>1. PICK i \in 1..n : /\ 1 < i
                                /\ \/ up[l][i].type = "release" /\ id \in up[l][i].ids
                                   \/ up[l][i].type = "close"
          BY <3>2 DEF LetsGo
        <4> QED
          BY <1>4, <1>12, <2>3, <4>1
      <3> QED
        BY <1>10, <2>3, <3>1, <3>2
    <2> QED
      BY <1>3, <2>2, <2>3 DEF HandledWaits
  <1>14. HoldingNext'
    <2> SUFFICES ASSUME NEW h \in Links, NEW i \in 1..Len(up'[h]), up'[h][i].type = "ack",
                        NEW id \in up'[h][i].ids, id \in DOMAIN retired'
                 PROVE  Reads(h, id)' \/ LetsGo(h, id, i)'
      BY DEF HoldingNext
    <2>1. id \in DOMAIN retired
      BY <1>3 DEF HandledWaits
    <2>2. CASE h # l
      <3>1. Reads(h, id) \/ LetsGo(h, id, i)
        BY <1>1, <1>2, <2>1, <2>2 DEF WaitInv, HoldingNext
      <3>2. LetsGo(h, id, i) => LetsGo(h, id, i)'
        BY <1>2, <2>2 DEF LetsGo
      <3> QED
        BY <1>10, <3>1, <3>2
    <2>3. CASE h = l
      <3>1. i \in 1..(n - 1)
        BY <1>2, <2>3
      <3>2. i + 1 \in 1..n /\ up'[l][i] = up[l][i + 1]
        BY <1>6, <3>1
      <3>3. Reads(l, id) \/ LetsGo(l, id, i + 1)
        BY <1>1, <2>1, <2>3, <3>2 DEF WaitInv, HoldingNext
      <3>4. CASE LetsGo(l, id, i + 1)
        <4>1. PICK j \in 1..n : /\ i + 1 < j
                                /\ \/ up[l][j].type = "release" /\ id \in up[l][j].ids
                                   \/ up[l][j].type = "close"
          BY <3>4 DEF LetsGo
        <4>2. j # 1 /\ j - 1 \in 1..(n - 1) /\ up'[l][j - 1] = up[l][j] /\ i < j - 1
          BY <1>5, <3>1, <4>1
        <4> QED
          BY <1>2, <2>3, <4>1, <4>2 DEF LetsGo
      <3> QED
        BY <1>10, <2>3, <3>3, <3>4
    <2> QED
      BY <2>2, <2>3
  <1>15. Answerable'
    BY <1>3, <1>8 DEF HandledWaits, Answerable
  <1>16. ExitReported'
    BY <1>1, <1>9 DEF ExitReported
  <1> QED
    BY <1>3, <1>7, <1>13, <1>14, <1>15, <1>16 DEF HandledWaits, WaitInv

-----------------------------------------------------------------------------
(* Steps of one worker that post a message. *)

\* Link l posts m.  Whatever stops being read is let go by m, every update that
\* was under way is still or is answered by m, and what an ACK names is read.
LEMMA PostedWait ==
  ASSUME TypeOK, WaitInv, phase = "ready", NEW l \in Links, NEW m \in UpMessage,
         up' = [up EXCEPT ![l] = Append(@, m)],
         UNCHANGED <<phase, updateId, retired, acks, links>>,
         \A h \in Links : h # l => worker'[h] = worker[h] /\ down'[h] = down[h],
         \A t \in Threads : t # l => pins'[t] = pins[t] /\ bound'[t] = bound[t],
         worker'[l] = "gone" => worker[l] = "gone" \/ m.type = "close",
         \A i \in 1..Len(down[l]) :
           \/ m.type = "close"
           \/ m.type = "ack" /\ m.update = down[l][i].update
           \/ \E j \in 1..Len(down'[l]) : down'[l][j].update = down[l][i].update,
         \A id \in DOMAIN retired : Reads(l, id) =>
           \/ Reads(l, id)'
           \/ m.type = "release" /\ id \in m.ids
           \/ m.type = "close",
         m.type = "ack" => \A id \in m.ids :
           /\ id[1] <= updateId
           /\ id \in DOMAIN retired => Reads(l, id)'
  PROVE  WaitInv'
  <1>1. up[l] \in Seq(UpMessage) /\ Main \notin Links /\ l \in Threads
    BY ThreadsAssumption DEF TypeOK, Threads
  <1> PICK n \in Nat : n = Len(up[l])
    BY <1>1
  <1>2. /\ Len(up'[l]) = n + 1 /\ up'[l][n + 1] = m
        /\ \A i \in 1..n : up'[l][i] = up[l][i]
        /\ \A h \in Links : h # l => up'[h] = up[h]
    <2>1. up'[l] = Append(up[l], m) /\ \A h \in Links : h # l => up'[h] = up[h]
      BY DEF TypeOK
    <2> QED
      BY <1>1, <2>1, AppendFacts
  <1>3. /\ n + 1 \in 1..(n + 1)
        /\ \A i \in 1..n : i \in 1..(n + 1) /\ i < n + 1
        /\ \A i \in 1..(n + 1) : i \in 1..n \/ i = n + 1
    OBVIOUS
  <1>4. Awaited'
    BY DEF WaitInv, Awaited, Due
  <1>5. \A h \in Links : \A i \in 1..Len(up'[h]) :
          \/ i \in 1..Len(up[h]) /\ up'[h][i] = up[h][i]
          \/ h = l /\ i = n + 1 /\ up'[h][i] = m
    BY <1>2, <1>3
  <1>6. \A h \in Links : \A i \in 1..Len(up[h]) :
          i \in 1..Len(up'[h]) /\ up'[h][i] = up[h][i]
    BY <1>2, <1>3
  <1>7. AnswersMade'
    BY <1>5 DEF WaitInv, AnswersMade
  <1>8. ExitReported'
    <2> SUFFICES ASSUME NEW h \in links, worker'[h] = "gone"
                 PROVE  \E i \in 1..Len(up'[h]) : up'[h][i].type = "close"
      BY DEF ExitReported
    <2>1. h \in Links
      BY DEF TypeOK
    <2>2. CASE worker[h] = "gone"
      <3>1. PICK i \in 1..Len(up[h]) : up[h][i].type = "close"
        BY <2>2 DEF WaitInv, ExitReported
      <3> QED
        BY <1>6, <2>1, <3>1
    <2>3. CASE worker[h] # "gone"
      BY <1>2, <1>3, <2>1, <2>3
    <2> QED
      BY <2>2, <2>3
  <1>9. Answerable'
    <2> SUFFICES ASSUME NEW u \in DOMAIN acks, NEW h \in acks[u]
                 PROVE  acks[u] # {} /\ WillAnswer(h, u)'
      BY DEF WaitInv, Answerable
    <2>1. h \in Links /\ WillAnswer(h, u)
      BY DEF WaitInv, Answerable, TypeOK
    <2>2. CASE \E i \in 1..Len(up[h]) : \/ up[h][i].type = "ack" /\ up[h][i].update = u
                                        \/ up[h][i].type = "close"
      <3>1. PICK i \in 1..Len(up[h]) : \/ up[h][i].type = "ack" /\ up[h][i].update = u
                                       \/ up[h][i].type = "close"
        BY <2>2
      <3>2. i \in 1..Len(up'[h]) /\ up'[h][i] = up[h][i]
        BY <1>6, <2>1
      <3> QED
        BY <3>1, <3>2 DEF WillAnswer
    <2>3. ASSUME NEW i \in 1..Len(down[h]), down[h][i].update = u
          PROVE  WillAnswer(h, u)'
      <3>1. CASE h # l
        BY <2>1, <2>3, <3>1 DEF WillAnswer
      <3>2. CASE h = l /\ \E j \in 1..Len(down'[l]) : down'[l][j].update = u
        BY <3>2 DEF WillAnswer
      <3>3. CASE h = l /\ \/ m.type = "close"
                          \/ m.type = "ack" /\ m.update = u
        <4>1. n + 1 \in 1..Len(up'[l]) /\ up'[l][n + 1] = m
          BY <1>2, <1>3
        <4>2. \E j \in 1..Len(up'[l]) : \/ /\ up'[l][j].type = "ack"
                                         /\ up'[l][j].update = u
                                      \/ up'[l][j].type = "close"
          BY <3>3, <4>1
        <4> QED
          BY <3>3, <4>2 DEF WillAnswer
      <3> QED
        BY <2>3, <3>1, <3>2, <3>3
    <2> QED
      BY <2>1, <2>2, <2>3 DEF WillAnswer
  \* What was let go still is, and what link l stops reading is let go at the end.
  <1>10. \A h \in Links : \A id, k : LetsGo(h, id, k) => LetsGo(h, id, k)'
    BY <1>6 DEF LetsGo
  <1>11. ASSUME NEW h \in Links, NEW id \in DOMAIN retired, NEW k \in 0..n, h = l,
                Reads(h, id)
         PROVE  Reads(h, id)' \/ LetsGo(h, id, k)'
    <2>1. k < n + 1
      OBVIOUS
    <2> QED
      BY <1>2, <1>3, <1>11, <2>1 DEF LetsGo
  <1>12. \A t \in Threads : \A id : t # l /\ Reads(t, id) => Reads(t, id)'
    BY DEF Reads
  <1>13. Holding'
    <2> SUFFICES ASSUME NEW id \in DOMAIN retired, NEW t \in retired[id].holders
                 PROVE  \/ Reads(t, id)'
                        \/ t # Main /\ LetsGo(t, id, 0)'
      BY DEF Holding
    <2>1. /\ t \in Threads
          /\ \/ Reads(t, id)
             \/ t # Main /\ LetsGo(t, id, 0)
      BY DEF TypeOK, WaitInv, Holding
    <2>2. t # Main => t \in Links
      BY <2>1 DEF Threads
    <2>3. 0 \in 0..n
      OBVIOUS
    <2> QED
      BY <1>1, <1>10, <1>11, <1>12, <2>1, <2>2, <2>3
  <1>14. HoldingNext'
    <2> SUFFICES ASSUME NEW h \in Links, NEW i \in 1..Len(up'[h]), up'[h][i].type = "ack",
                        NEW id \in up'[h][i].ids, id \in DOMAIN retired
                 PROVE  Reads(h, id)' \/ LetsGo(h, id, i)'
      BY DEF HoldingNext
    <2>1. CASE i \in 1..Len(up[h]) /\ up'[h][i] = up[h][i]
      <3>1. Reads(h, id) \/ LetsGo(h, id, i)
        BY <2>1 DEF WaitInv, HoldingNext
      <3>2. h = l => i \in 0..n
        BY <2>1
      <3>3. h \in Threads
        BY DEF Threads
      <3> QED
        BY <1>10, <1>11, <1>12, <3>1, <3>2, <3>3
    <2>2. CASE h = l /\ up'[h][i] = m
      BY <2>2
    <2> QED
      BY <1>5, <2>1, <2>2
  <1> QED
    BY <1>4, <1>7, <1>8, <1>9, <1>13, <1>14 DEF WaitInv

LEMMA ExitWait ==
  ASSUME TypeOK, WaitInv, NEW l \in Links, Exit(l)
  PROVE  WaitInv'
  <1> SUFFICES ASSUME phase = "ready" PROVE WaitInv'
    BY DEF WaitInv, Exit
  <1> DEFINE m == [type |-> "close"]
  <1>1. m \in UpMessage /\ m.type = "close" /\ l \in Threads
    BY DEF UpMessage, Threads
  <1>2. /\ UNCHANGED <<phase, updateId, retired, acks, links>>
        /\ up' = [up EXCEPT ![l] = Append(@, m)]
        /\ \A h \in Links : h # l => worker'[h] = worker[h] /\ down'[h] = down[h]
        /\ \A t \in Threads : t # l => pins'[t] = pins[t] /\ bound'[t] = bound[t]
    BY DEF Exit, Post, poolVars, TypeOK
  <1> HIDE DEF m
  <1> QED
    BY <1>1, <1>2, PostedWait

\* A worker's consumer lets a version go.
LEMMA WorkerDropWait ==
  ASSUME TypeOK, WaitInv, NEW l \in Links, NEW v \in Entry, Drop(l, v)
  PROVE  WaitInv'
  <1> SUFFICES ASSUME phase = "ready" PROVE WaitInv'
    BY DEF WaitInv, Drop
  <1>1. /\ l # Main /\ l \in Threads /\ pins[l][v] \in Nat /\ pins[l][v] > 0
        /\ pins' = [pins EXCEPT ![l][v] = @ - 1]
        /\ UNCHANGED <<phase, updateId, links, worker, down>>
    BY ThreadsAssumption DEF Drop, Threads, TypeOK, Pinned
  <1>2. /\ pins'[l][v] = pins[l][v] - 1
        /\ \A w \in Entry : w # v => pins'[l][w] = pins[l][w]
        /\ \A t \in Threads : t # l => pins'[t] = pins[t]
    BY <1>1 DEF TypeOK
  <1>3. \A id \in DOMAIN retired : retired[id].entry \in Entry /\ id # None
    BY ValuesAssumption DEF TypeOK
  <1>4. CASE pins[l][v] > 1 \/ bound[l][v] = None
    <2>1. UNCHANGED <<bound, retired, acks, up>>
      BY <1>4 DEF Drop
    <2>2. \A t \in Threads, id \in DOMAIN retired : Reads(t, id) => Reads(t, id)'
      BY <1>1, <1>2, <1>3, <1>4, <2>1 DEF Reads
    <2> QED
      BY <1>1, <2>1, <2>2, ReadsWait
  <1>5. CASE ~(pins[l][v] > 1 \/ bound[l][v] = None)
    <2> DEFINE m == [type |-> "release", ids |-> {bound[l][v]}]
    <2>1. /\ bound' = [bound EXCEPT ![l][v] = None]
          /\ up' = [up EXCEPT ![l] = Append(@, m)]
          /\ UNCHANGED <<retired, acks>>
      BY <1>1, <1>5 DEF Drop, Post
    <2>2. m \in UpMessage /\ m.type = "release" /\ m.ids = {bound[l][v]}
      BY <1>1, <1>5 DEF TypeOK, UpMessage
    <2> HIDE DEF m
    <2>3. /\ \A w \in Entry : w # v => bound'[l][w] = bound[l][w]
          /\ \A t \in Threads : t # l => bound'[t] = bound[t]
      BY <1>1, <2>1 DEF TypeOK
    <2>4. \A id \in DOMAIN retired : Reads(l, id) =>
            \/ Reads(l, id)'
            \/ m.type = "release" /\ id \in m.ids
            \/ m.type = "close"
      BY <1>2, <1>3, <2>1, <2>2, <2>3 DEF Reads
    <2> QED
      BY <1>1, <1>2, <2>1, <2>2, <2>3, <2>4, PostedWait
  <1> QED
    BY <1>4, <1>5

-----------------------------------------------------------------------------
(* A consumer of the main thread lets a version go. *)

LEMMA MainDropWait ==
  ASSUME TypeOK, WaitInv, NEW v \in Entry, Drop(Main, v)
  PROVE  WaitInv'
  <1>1. /\ phase = "ready" /\ Main \notin Links /\ Main \in Threads
        /\ pins[Main][v] \in Nat /\ pins[Main][v] > 0
        /\ pins' = [pins EXCEPT ![Main][v] = @ - 1]
        /\ UNCHANGED <<phase, updateId, links, worker, down>>
    BY ThreadsAssumption DEF Drop, Running, Threads, TypeOK, Pinned
  <1>2. /\ pins'[Main][v] = pins[Main][v] - 1
        /\ \A w \in Entry : w # v => pins'[Main][w] = pins[Main][w]
        /\ \A t \in Threads : t # Main => pins'[t] = pins[t]
    BY <1>1 DEF TypeOK
  <1>3. /\ \A id \in DOMAIN retired : retired[id].entry \in Entry /\ id # None
        /\ \A id \in DOMAIN retired : retired[id].holders \subseteq Threads
    BY ValuesAssumption DEF TypeOK
  <1>4. CASE pins[Main][v] > 1 \/ bound[Main][v] = None
    <2>1. UNCHANGED <<bound, retired, acks, up>>
      BY <1>4 DEF Drop
    <2>2. \A t \in Threads, id \in DOMAIN retired : Reads(t, id) => Reads(t, id)'
      BY <1>1, <1>2, <1>3, <1>4, <2>1 DEF Reads
    <2> QED
      BY <1>1, <2>1, <2>2, ReadsWait
  <1>5. CASE ~(pins[Main][v] > 1 \/ bound[Main][v] = None)
    <2> DEFINE b == bound[Main][v]
               recs == Without(Main, {b})
               ids == {b} \cap Held(Main)
    <2>1. /\ bound' = [bound EXCEPT ![Main][v] = None] /\ up' = up
          /\ Settle(recs, ids, acks, free, closed)
      BY <1>5 DEF Drop
    <2>2. /\ \A w \in Entry : w # v => bound'[Main][w] = bound[Main][w]
          /\ \A t \in Threads : t # Main => bound'[t] = bound[t]
      BY <1>1, <2>1 DEF TypeOK
    <2>3. /\ DOMAIN recs = DOMAIN retired
          /\ \A id \in DOMAIN retired :
               /\ recs[id].entry = retired[id].entry
               /\ \A h : h \in recs[id].holders <=>
                           h \in retired[id].holders /\ ~(h = Main /\ id \in {b})
      BY WithoutEffects
    <2>4. \A id \in DOMAIN recs :
            id \in ids \/ id[1] \in DOMAIN acks \/ recs[id].holders # {}
      <3> SUFFICES ASSUME NEW id \in DOMAIN retired, id \notin ids, id[1] \notin DOMAIN acks
                   PROVE  recs[id].holders # {}
        BY <2>3
      <3>1. retired[id].holders # {}
        BY <1>1 DEF WaitInv, Awaited, Due
      <3>2. Main \notin retired[id].holders \/ id # b
        BY DEF Held
      <3> QED
        BY <2>3, <3>1, <3>2
    <2>5. ids \in SUBSET DOMAIN recs
      BY <2>3 DEF Held
    <2>60. \A id \in DOMAIN retired : Reads(Main, id) /\ id # b => retired[id].entry # v
      BY DEF Reads
    <2> HIDE DEF recs, ids, b
    <2>7. Awaited'
      BY <2>1, <2>4, <2>5, SettleAwaited
    <2>8. /\ acks' = acks
          /\ \A id \in DOMAIN retired' :
               /\ id \in DOMAIN retired /\ retired'[id].entry = retired[id].entry
               /\ \A h \in retired'[id].holders :
                    h \in retired[id].holders /\ (h = Main => id # b)
      BY <2>1, <2>3, <2>5, SettleKeeps
    <2>6. \A id \in DOMAIN retired' : Reads(Main, id) /\ id # b => Reads(Main, id)'
      BY <1>2, <1>3, <2>2, <2>8, <2>60 DEF Reads
    <2>9. \A t \in Threads : \A id \in DOMAIN retired' :
            t # Main /\ Reads(t, id) => Reads(t, id)'
      BY <1>2, <2>2, <2>8 DEF Reads
    <2>10. \A h, id, n : LetsGo(h, id, n)' <=> LetsGo(h, id, n)
      BY <2>1 DEF LetsGo
    <2>11. \A h, u : WillAnswer(h, u)' <=> WillAnswer(h, u)
      BY <1>1, <2>1 DEF WillAnswer
    <2>12. AnswersMade' /\ ExitReported'
      BY <1>1, <2>1 DEF WaitInv, AnswersMade, ExitReported
    <2>13. Answerable'
      BY <1>1, <2>8, <2>11 DEF WaitInv, Answerable
    <2>14. Holding'
      <3> SUFFICES ASSUME NEW id \in DOMAIN retired', NEW t \in retired'[id].holders
                   PROVE  \/ Reads(t, id)'
                          \/ t # Main /\ LetsGo(t, id, 0)'
        BY DEF Holding
      <3>1. id \in DOMAIN retired /\ t \in retired[id].holders /\ t \in Threads
        BY <1>3, <2>8
      <3>2. \/ Reads(t, id)
            \/ t # Main /\ LetsGo(t, id, 0)
        BY <1>1, <3>1 DEF WaitInv, Holding
      <3>3. t = Main => id # b
        BY <2>8
      <3> QED
        BY <2>6, <2>9, <2>10, <3>1, <3>2, <3>3
    <2>15. HoldingNext'
      <3> SUFFICES ASSUME NEW h \in Links, NEW i \in 1..Len(up[h]), up[h][i].type = "ack",
                          NEW id \in up[h][i].ids, id \in DOMAIN retired'
                   PROVE  Reads(h, id)' \/ LetsGo(h, id, i)'
        BY <2>1 DEF HoldingNext
      <3>1. h # Main /\ h \in Threads /\ id \in DOMAIN retired
        BY <1>1, <2>8 DEF Threads
      <3>2. Reads(h, id) \/ LetsGo(h, id, i)
        BY <1>1, <3>1 DEF WaitInv, HoldingNext
      <3> QED
        BY <2>9, <2>10, <3>1, <3>2
    <2> QED
      BY <2>7, <2>12, <2>13, <2>14, <2>15 DEF WaitInv
  <1> QED
    BY <1>4, <1>5

-----------------------------------------------------------------------------
(* A worker applies the next update and ACKs it. *)

LEMMA DeliverWait ==
  ASSUME IInv, WaitInv, NEW l \in Links, Deliver(l)
  PROVE  WaitInv'
  <1> SUFFICES ASSUME phase = "ready" PROVE WaitInv'
    BY DEF WaitInv, Deliver
  <1> DEFINE msg == down[l][1]
             ack == [type |-> "ack", update |-> msg.update,
                     ids |-> {msg.update} \X Retained(l, msg)]
  <1>1. /\ TypeOK /\ LinkShape(l) /\ LinkInv(l) /\ l \in Threads
        /\ worker[l] = "attached" /\ down[l] # <<>>
        /\ down[l] \in Seq(Update)
        /\ UNCHANGED <<phase, updateId, retired, acks, links, worker, pins>>
    BY DEF Deliver, IInv, ReadyInv, Alive, Threads, TypeOK
  <1> PICK n \in Nat : n = Len(down[l])
    BY <1>1
  <1>2. /\ n >= 1 /\ msg = Head(down[l]) /\ msg \in Update
        /\ down' = [down EXCEPT ![l] = Tail(@)]
        /\ Len(down'[l]) = n - 1
        /\ \A i \in 1..(n - 1) : down'[l][i] = down[l][i + 1]
    BY <1>1, TailFacts DEF Deliver, TypeOK
  <1>3. /\ Apply(l, msg) /\ up' = [up EXCEPT ![l] = Append(@, ack)]
        /\ msg.update \in Nat /\ msg.retires \subseteq Keys
        /\ msg.retires \subseteq DOMAIN msg.changes
    BY <1>1, <1>2, MessageFacts DEF Deliver, LinkShape, Post
  <1>4. /\ \A s \in Threads : s # l => bound'[s] = bound[s]
        /\ \A k \in Keys : k \in Retained(l, msg) <=>
             k \in msg.retires /\ files[l][k] \in Entry /\ Pinned(l, files[l][k])
        /\ \A v \in Entry :
             \/ /\ bound'[l][v] = bound[l][v]
                /\ ~ \E k \in msg.retires : files[l][k] = v /\ Pinned(l, v)
             \/ \E k \in msg.retires : /\ files[l][k] = v
                                       /\ Pinned(l, v)
                                       /\ bound'[l][v] = <<msg.update, k>>
    <2> HIDE DEF msg
    <2> QED
      BY <1>1, <1>3, ApplyFacts
  <1>5. Retained(l, msg) \subseteq Keys
    BY <1>3 DEF Retained
  <1>6. ack \in UpMessage /\ ack.type = "ack" /\ ack.update = msg.update
    <2>1. msg.update \in Nat
      BY <1>3
    <2> HIDE DEF msg
    <2>2. {msg.update} \X Retained(l, msg) \subseteq RetireId
      BY <1>5, <2>1 DEF RetireId
    <2> QED
      BY <2>1, <2>2 DEF UpMessage
  <1>7. \A i \in 1..n : i = 1 \/ (i - 1 \in 1..(n - 1) /\ down'[l][i - 1] = down[l][i])
    BY <1>2
  <1>8. ASSUME NEW k \in msg.retires, files[l][k] \in Entry
        PROVE  AwaitedAs(l, <<msg.update, k>>, files[l][k])
    <2>1. k \in Keys /\ k \in DOMAIN down[l][1].changes
      BY <1>3
    <2> QED
      BY <1>1, <1>8, <2>1, FirstUpdate
  <1>9. msg.update <= updateId
    BY <1>1, <1>2 DEF LinkInv, InOrder
  \* Two keys whose versions the update retires do not share a version.
  <1>10. ASSUME NEW j \in msg.retires, NEW k \in msg.retires, files[l][j] \in Entry,
                files[l][j] = files[l][k]
         PROVE  j = k
    <2>1. /\ <<msg.update, j>> \in DOMAIN retired /\ <<msg.update, k>> \in DOMAIN retired
          /\ retired[<<msg.update, j>>].entry = retired[<<msg.update, k>>].entry
      BY <1>8, <1>10 DEF AwaitedAs
    <2>2. <<msg.update, j>> = <<msg.update, k>>
      BY <1>1, <2>1 DEF IInv, ReadyInv, Owned
    <2> QED
      BY <2>2
  \* What the ACK names is read.
  <1>11. ASSUME NEW id, NEW k \in Retained(l, msg), id = <<msg.update, k>>
         PROVE  id[1] <= updateId /\ Reads(l, id)'
    <2>1. k \in msg.retires /\ files[l][k] \in Entry /\ Pinned(l, files[l][k])
      BY <1>4, <1>5
    <2>2. retired[<<msg.update, k>>].entry = files[l][k]
      BY <1>8, <2>1 DEF AwaitedAs
    <2>3. PICK j \in msg.retires : /\ files[l][j] = files[l][k]
                                   /\ bound'[l][files[l][k]] = <<msg.update, j>>
      BY <1>4, <2>1
    <2>4. j = k
      BY <1>10, <2>1, <2>3
    <2> QED
      BY <1>1, <1>9, <1>11, <2>1, <2>2, <2>3, <2>4 DEF Reads, Pinned
  <1>12. ack.type = "ack" => \A id \in ack.ids :
           /\ id[1] <= updateId
           /\ id \in DOMAIN retired => Reads(l, id)'
    <2> SUFFICES ASSUME NEW id \in ack.ids PROVE id[1] <= updateId /\ Reads(l, id)'
      OBVIOUS
    <2>1. PICK k \in Retained(l, msg) : id = <<msg.update, k>>
      OBVIOUS
    <2> QED
      BY <1>11, <2>1
  \* What the worker read as retired it reads still: an update retires each version once.
  <1>13. ASSUME NEW id \in DOMAIN retired, Reads(l, id)
         PROVE  Reads(l, id)'
    <2>1. retired[id].entry \in Entry /\ id # None
      BY <1>1, ValuesAssumption DEF TypeOK
    <2>2. bound[l][retired[id].entry] = id /\ pins[l][retired[id].entry] > 0
      BY <1>13 DEF Reads
    <2>3. id[1] < msg.update
      BY <1>1, <1>2, <2>1, <2>2 DEF LinkInv, Secured
    <2>4. ASSUME NEW k \in msg.retires, files[l][k] = retired[id].entry
          PROVE  FALSE
      <3>1. /\ <<msg.update, k>> \in DOMAIN retired
            /\ retired[<<msg.update, k>>].entry = retired[id].entry
        BY <1>8, <2>1, <2>4 DEF AwaitedAs
      <3>2. <<msg.update, k>> = id
        BY <1>1, <3>1 DEF IInv, ReadyInv, Owned
      <3>3. id[1] = msg.update
        BY <3>2
      <3> QED
        BY <1>3, <2>3, <3>3
    <2>5. bound'[l][retired[id].entry] = id
      BY <1>4, <2>1, <2>2, <2>4
    <2> QED
      BY <1>1, <2>2, <2>5 DEF Reads
  <1>14. /\ \A h \in Links : h # l => worker'[h] = worker[h] /\ down'[h] = down[h]
         /\ \A t \in Threads : t # l => pins'[t] = pins[t] /\ bound'[t] = bound[t]
         /\ worker'[l] = "gone" => worker[l] = "gone" \/ ack.type = "close"
    BY <1>1, <1>2, <1>4 DEF TypeOK
  <1>15. \A i \in 1..Len(down[l]) :
           \/ ack.type = "close"
           \/ ack.type = "ack" /\ ack.update = down[l][i].update
           \/ \E j \in 1..Len(down'[l]) : down'[l][j].update = down[l][i].update
    BY <1>2, <1>6, <1>7
  <1>16. \A id \in DOMAIN retired : Reads(l, id) =>
           \/ Reads(l, id)'
           \/ ack.type = "release" /\ id \in ack.ids
           \/ ack.type = "close"
    BY <1>13
  <1> HIDE DEF ack, msg
  <1> QED
    BY <1>1, <1>3, <1>6, <1>12, <1>14, <1>15, <1>16, PostedWait

-----------------------------------------------------------------------------
(* The main thread commits an update. *)

\* Which records and ACKs a commit adds: the versions it retires, held by nobody
\* but the main thread, and one ACK of every link.
LEMMA CommitAdds ==
  ASSUME TypeOK, Awaited, NEW changes, NEW fr, NEW cl, DOMAIN changes \subseteq Keys,
         Commit(changes, fr, cl),
         \A id \in DOMAIN retired : id[1] <= updateId,
         \A w \in DOMAIN acks : w <= updateId
  PROVE  /\ Awaited'
         /\ \A id \in DOMAIN retired' :
              \/ id \in DOMAIN retired /\ retired'[id] = retired[id]
              \/ \E k \in DOMAIN changes :
                   /\ files[Main][k] \in Entry
                   /\ id = <<updateId + 1, k>>
                   /\ retired'[id].entry = files[Main][k]
                   /\ \A h \in retired'[id].holders :
                        h = Main /\ Pinned(Main, files[Main][k])
         /\ \A w \in DOMAIN acks' :
              \/ w \in DOMAIN acks /\ acks'[w] = acks[w]
              \/ w = updateId + 1 /\ acks'[w] = links /\ links # {}
  <1> DEFINE u == updateId + 1
             gone == Replaced(changes)
             msg == [update |-> u, changes |-> changes, retires |-> gone]
             fresh == {u} \X gone
             records == [id \in DOMAIN retired \cup fresh |->
                           IF id \in fresh
                           THEN [entry |-> files[Main][id[2]],
                                 holders |-> {t \in {Main} : id[2] \in Retained(t, msg)}]
                           ELSE retired[id]]
             waiting == IF gone # {} /\ links # {}
                        THEN [w \in DOMAIN acks \cup {u} |->
                                IF w = u THEN links ELSE acks[w]]
                        ELSE acks
  <1>1. /\ u \in Nat /\ updateId \in Nat /\ u = updateId + 1
        /\ \A id \in DOMAIN retired : id \in RetireId /\ id[1] \in Nat
        /\ \A w \in DOMAIN acks : w \in Nat
    BY DEF TypeOK, RetireId
  <1>2. Settle(records, fresh, waiting, fr, cl \ Reopened(changes))
    BY DEF Commit
  <1>3. \A k \in gone : k \in DOMAIN changes /\ files[Main][k] \in Entry
    BY DEF Replaced
  <1>4. \A k \in Retained(Main, msg) : Pinned(Main, files[Main][k])
    BY DEF Retained
  <1>5. \A id \in DOMAIN retired : id[1] # u /\ id \notin fresh
    BY <1>1
  <1>6. \A w \in DOMAIN waiting :
          \/ w \in DOMAIN acks /\ waiting[w] = acks[w]
          \/ w = u /\ waiting[w] = links /\ links # {}
    OBVIOUS
  <1>7. \A w \in DOMAIN acks : w \in DOMAIN waiting
    OBVIOUS
  <1>8. /\ fresh \in SUBSET DOMAIN records
        /\ \A id \in DOMAIN records : id \in fresh \/ id \in DOMAIN retired
        /\ \A id \in DOMAIN retired : records[id] = retired[id]
    BY <1>5
  <1>9. \A k \in gone :
          /\ <<u, k>> \in fresh
          /\ records[<<u, k>>].entry = files[Main][k]
          /\ \A h \in records[<<u, k>>].holders : h = Main /\ Pinned(Main, files[Main][k])
    BY <1>4
  <1>10. \A id \in fresh : \E k \in gone : id = <<u, k>>
    OBVIOUS
  <1> HIDE DEF u, gone, records, waiting, fresh, msg
  <1>11. \A id \in DOMAIN records :
           id \in fresh \/ id[1] \in DOMAIN waiting \/ records[id].holders # {}
    BY <1>7, <1>8 DEF Awaited, Due
  <1>12. Awaited'
    BY <1>2, <1>8, <1>11, SettleAwaited
  <1>13. /\ acks' = waiting
         /\ \A id \in DOMAIN retired' : id \in DOMAIN records /\ retired'[id] = records[id]
    BY <1>2, <1>8, SettleKeeps
  <1>14. ASSUME NEW id \in DOMAIN retired'
         PROVE  \/ id \in DOMAIN retired /\ retired'[id] = retired[id]
                \/ \E k \in DOMAIN changes :
                     /\ files[Main][k] \in Entry
                     /\ id = <<updateId + 1, k>>
                     /\ retired'[id].entry = files[Main][k]
                     /\ \A h \in retired'[id].holders :
                          h = Main /\ Pinned(Main, files[Main][k])
    <2>1. CASE id \in DOMAIN retired
      BY <1>8, <1>13, <2>1
    <2>2. CASE id \in fresh
      <3>1. PICK k \in gone : id = <<u, k>>
        BY <1>10, <2>2
      <3>2. /\ retired'[id].entry = files[Main][k]
            /\ \A h \in retired'[id].holders : h = Main /\ Pinned(Main, files[Main][k])
        BY <1>9, <1>13, <3>1
      <3> QED
        BY <1>1, <1>3, <3>1, <3>2
    <2> QED
      BY <1>8, <1>13, <2>1, <2>2
  <1> QED
    BY <1>1, <1>6, <1>12, <1>13, <1>14

LEMMA CommitWait ==
  ASSUME IInv, WaitInv, phase = "ready", NEW D \in SUBSET Keys,
         NEW changes \in [D -> Value], NEW fr, NEW cl, NEW prv, NEW by,
         Commit(changes, fr, cl), Committed(D, changes, prv, by),
         UNCHANGED <<phase, pins, links, worker, up>>
  PROVE  WaitInv'
  <1> DEFINE msg == [update |-> updateId + 1, changes |-> changes,
                     retires |-> {k \in D : files[Main][k] \in Entry}]
  <1> PICK u \in Nat : u = updateId + 1
    BY DEF IInv, TypeOK
  <1>1. /\ TypeOK /\ DOMAIN changes = D /\ updateId \in Nat /\ updateId' = u
        /\ Owned(free, bytes, private, files[Main], retired)
        /\ \A id \in DOMAIN retired : id[1] <= updateId
        /\ \A w \in DOMAIN acks : w <= updateId
    BY DEF IInv, ReadyInv, TypeOK, Committed
  <1>2. /\ Awaited'
        /\ \A id \in DOMAIN retired' :
             \/ id \in DOMAIN retired /\ retired'[id] = retired[id]
             \/ \E k \in D :
                  /\ files[Main][k] \in Entry
                  /\ id = <<u, k>>
                  /\ retired'[id].entry = files[Main][k]
                  /\ \A h \in retired'[id].holders :
                       h = Main /\ Pinned(Main, files[Main][k])
        /\ \A w \in DOMAIN acks' :
             \/ w \in DOMAIN acks /\ acks'[w] = acks[w]
             \/ w = u /\ acks'[w] = links /\ links # {}
    BY <1>1, CommitAdds DEF WaitInv
  <1>3. /\ \A id \in DOMAIN retired : id \in RetireId /\ id[1] \in Nat
        /\ \A id \in DOMAIN retired : retired[id].entry \in Entry /\ id # None
        /\ \A id \in DOMAIN retired : retired[id].holders \subseteq Threads
        /\ \A w \in DOMAIN acks : acks[w] \subseteq Links
        /\ \A h \in Links : h \in Threads /\ h # Main
    BY <1>1, ThreadsAssumption, ValuesAssumption DEF TypeOK, RetireId, Threads
  <1>4. /\ \A t \in Threads : t # Main => bound'[t] = bound[t]
        /\ \A v \in Entry :
             \/ /\ bound'[Main][v] = bound[Main][v]
                /\ ~ \E k \in D : files[Main][k] = v /\ Pinned(Main, v)
             \/ \E k \in D : /\ files[Main][k] = v
                             /\ Pinned(Main, v)
                             /\ bound'[Main][v] = <<u, k>>
    BY DEF Committed
  <1>5. \A h \in Links :
          down'[h] = IF h \in Told THEN Append(down[h], msg) ELSE down[h]
    BY DEF Committed
  <1>6. msg \in Update /\ msg.update = u
    <2>1. changes \in UNION {[E -> Value] : E \in SUBSET Keys}
      OBVIOUS
    <2>2. {k \in D : files[Main][k] \in Entry} \in SUBSET Keys
      OBVIOUS
    <2> QED
      BY <1>1, <2>1, <2>2 DEF Update
  <1> HIDE DEF msg
  \* What was under way to a link still is, and the update is, to every live one.
  <1>7. ASSUME NEW h \in Links, NEW w, WillAnswer(h, w)
        PROVE  WillAnswer(h, w)'
    <2>1. \A i \in 1..Len(down[h]) : i \in 1..Len(down'[h]) /\ down'[h][i] = down[h][i]
      <3>1. down[h] \in Seq(Update)
        BY <1>1 DEF TypeOK
      <3>2. CASE h \in Told
        <4>1. down'[h] = Append(down[h], msg)
          BY <1>5, <3>2
        <4> QED
          BY <1>6, <3>1, <4>1, AppendFacts
      <3> QED
        BY <1>5, <3>2
    <2> QED
      BY <1>7, <2>1 DEF WillAnswer
  <1>8. ASSUME NEW h \in links
        PROVE  WillAnswer(h, u)'
    <2>1. h \in Links
      BY <1>1 DEF TypeOK
    <2>2. CASE h \in Told
      <3>1. down[h] \in Seq(Update)
        BY <1>1, <2>1 DEF TypeOK
      <3>2. down'[h] = Append(down[h], msg)
        BY <1>5, <2>1, <2>2
      <3>3. Len(down[h]) + 1 \in 1..Len(down'[h]) /\ down'[h][Len(down[h]) + 1] = msg
        BY <1>6, <3>1, <3>2, AppendFacts
      <3> QED
        BY <1>6, <3>3 DEF WillAnswer
    <2>3. CASE h \notin Told
      <3>1. worker[h] = "gone"
        BY <2>3 DEF Told
      <3> QED
        BY <3>1 DEF WaitInv, ExitReported, WillAnswer
    <2> QED
      BY <2>2, <2>3
  <1>9. Answerable'
    <2> SUFFICES ASSUME NEW w \in DOMAIN acks'
                 PROVE  acks'[w] # {} /\ \A h \in acks'[w] : WillAnswer(h, w)'
      BY DEF Answerable
    <2> QED
      BY <1>2, <1>3, <1>7, <1>8 DEF WaitInv, Answerable
  <1>10. AnswersMade'
    <2> SUFFICES ASSUME NEW h \in Links, NEW i \in 1..Len(up[h]), up[h][i].type = "ack",
                        NEW id \in up[h][i].ids
                 PROVE  id[1] <= updateId'
      BY DEF AnswersMade
    <2>1. id[1] <= updateId /\ up[h][i] \in UpMessage
      BY <1>1 DEF WaitInv, AnswersMade, TypeOK
    <2>2. id \in RetireId
      BY <2>1, MessageFacts
    <2>3. id[1] \in Nat
      BY <2>2 DEF RetireId
    <2> QED
      BY <1>1, <2>1, <2>3
  \* A version retired before is no longer published, so nothing is bound anew.
  <1>11. ASSUME NEW id \in DOMAIN retired, id \in DOMAIN retired',
                NEW t \in Threads, Reads(t, id)
         PROVE  Reads(t, id)'
    <2>1. retired'[id] = retired[id]
      <3>1. id[1] \in Nat /\ id[1] # u
        BY <1>1, <1>3
      <3>2. \A k \in D : id # <<u, k>>
        BY <3>1
      <3> QED
        BY <1>2, <1>11, <3>2
    <2>2. retired[id].entry \in Entry
      BY <1>3
    <2>3. \A k \in Keys : files[Main][k] # retired[id].entry
      BY <1>1, <2>2 DEF Owned
    <2>4. bound'[t][retired[id].entry] = bound[t][retired[id].entry]
      BY <1>4, <2>2, <2>3
    <2> QED
      BY <1>11, <2>1, <2>4 DEF Reads
  <1>12. \A h, id, n : LetsGo(h, id, n)' <=> LetsGo(h, id, n)
    BY DEF LetsGo
  <1>13. Holding'
    <2> SUFFICES ASSUME NEW id \in DOMAIN retired', NEW t \in retired'[id].holders
                 PROVE  \/ Reads(t, id)'
                        \/ t # Main /\ LetsGo(t, id, 0)'
      BY DEF Holding
    <2>1. CASE id \in DOMAIN retired /\ retired'[id] = retired[id]
      <3>1. t \in Threads /\ (Reads(t, id) \/ (t # Main /\ LetsGo(t, id, 0)))
        BY <1>3, <2>1 DEF WaitInv, Holding
      <3> QED
        BY <1>11, <1>12, <2>1, <3>1
    <2>2. ASSUME NEW k \in D, files[Main][k] \in Entry, id = <<u, k>>,
                 retired'[id].entry = files[Main][k], t = Main,
                 Pinned(Main, files[Main][k])
          PROVE  Reads(t, id)'
      <3>1. PICK j \in D : /\ files[Main][j] = files[Main][k]
                           /\ bound'[Main][files[Main][k]] = <<u, j>>
        BY <1>4, <2>2
      <3>2. j = k
        BY <1>1, <2>2, <3>1 DEF Owned
      <3> QED
        BY <2>2, <3>1, <3>2 DEF Reads, Pinned
    <2> QED
      BY <1>2, <2>1, <2>2
  <1>14. HoldingNext'
    <2> SUFFICES ASSUME NEW h \in Links, NEW i \in 1..Len(up[h]), up[h][i].type = "ack",
                        NEW id \in up[h][i].ids, id \in DOMAIN retired'
                 PROVE  Reads(h, id)' \/ LetsGo(h, id, i)'
      BY DEF HoldingNext
    <2>1. id[1] <= updateId
      BY DEF WaitInv, AnswersMade
    <2>2. id \in DOMAIN retired
      BY <1>1, <1>2, <2>1
    <2> QED
      BY <1>3, <1>11, <1>12, <2>2 DEF WaitInv, HoldingNext
  <1>15. ExitReported'
    BY DEF WaitInv, ExitReported
  <1> QED
    BY <1>2, <1>9, <1>10, <1>13, <1>14, <1>15 DEF WaitInv

LEMMA OwnCommitWait ==
  ASSUME IInv, WaitInv, phase = "ready", NEW D, NEW changes, NEW fr, NEW cl, NEW prv,
         OwnCommit(D, changes, fr, cl, prv),
         UNCHANGED <<phase, pins, links, worker, up>>
  PROVE  WaitInv'
  <1> PICK by : by = bytes'
    OBVIOUS
  <1>1. /\ D \in SUBSET Keys /\ changes \in [D -> Value] /\ Commit(changes, fr, cl)
        /\ prv \in SUBSET Entry /\ changes \in [D -> prv \cup {Plain, None}]
        /\ \A j, k \in D : changes[j] \in Entry /\ changes[j] = changes[k] => j = k
        /\ Owned(fr, by, prv, files[Main], retired)
    BY DEF OwnCommit
  <1>2. /\ TypeOK
        /\ \A id \in DOMAIN retired : id[1] <= updateId
        /\ \A w \in DOMAIN acks : w <= updateId
    BY DEF IInv, ReadyInv
  <1>3. Committed(D, changes, prv, by)
    BY <1>1, <1>2, CommitFacts
  <1> QED
    BY <1>1, <1>3, CommitWait

LEMMA FlushWait ==
  ASSUME IInv, WaitInv, NEW D \in SUBSET Keys,
         NEW changes \in [D -> private \cup {Plain, None}], Flush(changes)
  PROVE  WaitInv'
  <1>1. phase = "ready" /\ UNCHANGED <<phase, pins, links, worker, up>>
    BY DEF Flush, linkVars
  <1>2. OwnCommit(D, changes, free, closed, private)
    BY FlushOwns
  <1> QED
    BY <1>1, <1>2, OwnCommitWait

LEMMA CompactWait ==
  ASSUME IInv, WaitInv, Compact
  PROVE  WaitInv'
  <1>1. phase = "ready" /\ UNCHANGED <<phase, private, pins, links, worker, up>>
    BY DEF Compact, linkVars
  <1>2. CASE \E s \in Targets : \E to \in Moves(s) : Relocate(s, to)
    <2>1. PICK s \in Targets : \E to \in Moves(s) : Relocate(s, to)
      BY <1>2
    <2>2. PICK to \in Moves(s) : Relocate(s, to)
      BY <2>1
    <2>3. PICK D, changes, fr, cl, prv : OwnCommit(D, changes, fr, cl, prv)
      BY <1>1, <2>2, RelocateOwns
    <2> QED
      BY <1>1, <2>3, OwnCommitWait
  <1>3. CASE ~ \E s \in Targets : \E to \in Moves(s) : Relocate(s, to)
    BY <1>1, <1>3, QuietWait DEF Compact
  <1> QED
    BY <1>2, <1>3

-----------------------------------------------------------------------------
(* The specification. *)

LEMMA InitWait == Init => WaitInv
  <1> SUFFICES ASSUME Init PROVE WaitInv
    OBVIOUS
  <1>1. /\ DOMAIN retired = {} /\ DOMAIN acks = {} /\ links = {}
        /\ \A l \in Links : Len(up[l]) = 0
    BY DEF Init
  <1>2. AnswersMade /\ HoldingNext
    BY <1>1 DEF AnswersMade, HoldingNext
  <1> QED
    BY <1>1, <1>2 DEF WaitInv, Awaited, Answerable, ExitReported, Holding

LEMMA StepWait == IInv /\ WaitInv /\ [Next]_vars => WaitInv'
  <1> SUFFICES ASSUME IInv, WaitInv, [Next]_vars PROVE WaitInv'
    OBVIOUS
  <1> USE DEF IInv
  <1>1. ASSUME NEW c \in Contents, Allocate(c) PROVE WaitInv'
    BY <1>1, QuietWait DEF Allocate, linkVars
  <1>2. ASSUME NEW v \in private, Abandon(v) PROVE WaitInv'
    BY <1>2, QuietWait DEF Abandon, linkVars
  <1>3. ASSUME NEW D \in SUBSET Keys,
               NEW changes \in [D -> private \cup {Plain, None}], Flush(changes)
        PROVE  WaitInv'
    BY <1>3, FlushWait
  <1>4. CASE Compact
    BY <1>4, CompactWait
  <1>5. ASSUME NEW l \in Links,
               HandleMessage(l) \/ Link(l) \/ Attach(l) \/ Deliver(l) \/ Exit(l)
        PROVE  WaitInv'
    BY <1>5, HandleMessageWait, LinkStepWait, DeliverWait, ExitWait
  <1>6. ASSUME NEW t \in Threads, NEW k \in Keys, Acquire(t, k) PROVE WaitInv'
    BY <1>6, AcquireWait
  <1>7. ASSUME NEW t \in Threads, NEW v \in Entry, Drop(t, v) PROVE WaitInv'
    BY <1>7, MainDropWait, WorkerDropWait DEF Threads
  <1>8. CASE Close
    BY <1>8 DEF Close, WaitInv
  <1>9. CASE UNCHANGED vars
    BY <1>9, QuietWait DEF vars
  <1> QED
    BY <1>1, <1>2, <1>3, <1>4, <1>5, <1>6, <1>7, <1>8, <1>9 DEF Next

LEMMA WaitSafe == WaitInv => NoLostWait
  <1> SUFFICES ASSUME WaitInv, phase = "ready" PROVE NoLostWait
    BY DEF NoLostWait
  <1>1. \A id \in DOMAIN retired : Due(id[1]) \/ retired[id].holders # {}
    BY DEF WaitInv, Awaited
  <1>2. \A u \in DOMAIN acks : acks[u] # {} /\ \A l \in acks[u] :
          \/ \E i \in 1..Len(down[l]) : down[l][i].update = u
          \/ \E i \in 1..Len(up[l]) :
               \/ up[l][i].type = "ack" /\ up[l][i].update = u
               \/ up[l][i].type = "close"
    BY DEF WaitInv, Answerable, WillAnswer
  <1>3. \A id \in DOMAIN retired : \A t \in retired[id].holders :
          \/ pins[t][retired[id].entry] > 0 /\ bound[t][retired[id].entry] = id
          \/ /\ t # Main
             /\ \E i \in 1..Len(up[t]) :
                  \/ up[t][i].type = "release" /\ id \in up[t][i].ids
                  \/ up[t][i].type = "close"
    BY DEF WaitInv, Holding, Reads, LetsGo
  <1> QED
    BY <1>1, <1>2, <1>3 DEF NoLostWait

\* Who is waited for will answer, and knows it: every ACK that is due is for an
\* update still under way or answered, and every holder reads the version or has
\* let it go (ack, release and worker exit in kernel.js, pins.js).
THEOREM WaitInductive == Spec => []WaitInv
  <1>1. Spec => []IInv
    BY Inductive
  <1> QED
    BY <1>1, InitWait, StepWait, PTL DEF Spec

\* Every retired version is awaited or held, and whoever is waited for has the
\* means to answer: no ACK, release or exit is lost between the main thread and
\* its links, so settling a version never depends on a message that cannot come.
THEOREM NoLostWaitAlways == Spec => []NoLostWait
  BY WaitInductive, WaitSafe, PTL

-----------------------------------------------------------------------------
(* Finite sets. *)

\* The image of an injective function into a finite set is as large as its domain.
LEMMA ImageSize ==
  ASSUME NEW S, NEW T, IsFiniteSet(T), NEW f \in [S -> T],
         \A x, y \in S : f[x] = f[y] => x = y
  PROVE  /\ IsFiniteSet(S) /\ IsFiniteSet({f[x] : x \in S})
         /\ Cardinality({f[x] : x \in S}) = Cardinality(S)
  <1> DEFINE R == {f[x] : x \in S}
  <1>1. R \in SUBSET T
    OBVIOUS
  <1>2. f \in Injection(S, R) /\ f \in Surjection(S, R)
    BY DEF Injection, IsInjective, Surjection
  <1> HIDE DEF R
  <1>3. IsFiniteSet(R)
    BY <1>1, FS_Subset
  <1>4. IsFiniteSet(S) /\ Cardinality(R) = Cardinality(S)
    BY <1>2, <1>3, FS_Injection
  <1> QED
    BY <1>3, <1>4 DEF R

LEMMA DisjointSizes ==
  ASSUME NEW A, NEW B, NEW C, IsFiniteSet(A), IsFiniteSet(B), IsFiniteSet(C),
         A \cap B = {}, A \cap C = {}, B \cap C = {}
  PROVE  Cardinality(A \cup B \cup C) = Cardinality(A) + Cardinality(B) + Cardinality(C)
  <1>1. IsFiniteSet(A \cup B) /\ Cardinality(A \cup B) = Cardinality(A) + Cardinality(B) - 0
    BY FS_Union, FS_EmptySet
  <1>2. (A \cup B) \cap C = {}
    OBVIOUS
  <1>3. Cardinality((A \cup B) \cup C) = Cardinality(A \cup B) + Cardinality(C) - 0
    BY <1>1, <1>2, FS_Union, FS_EmptySet
  <1> QED
    BY <1>1, <1>3, FS_CardinalityType

-----------------------------------------------------------------------------
(* No extent is lost. *)

LEMMA SettleCovered ==
  ASSUME NEW recs, NEW ids \in SUBSET DOMAIN recs, NEW waiting, NEW fr, NEW cl,
         Settle(recs, ids, waiting, fr, cl), NEW prv, NEW pub, Covered(fr, prv, pub, recs)
  PROVE  Covered(free', prv, pub, retired')
  <1> DEFINE done == {id \in ids : Freeable(recs[id], id[1], waiting)}
  <1>1. /\ free' = fr \cup {recs[id].entry.extent : id \in done}
        /\ retired' = Restrict(recs, DOMAIN recs \ done)
    BY DEF Settle
  <1> HIDE DEF done
  <1>2. \A id \in DOMAIN recs :
          \/ id \in done /\ recs[id].entry.extent \in free'
          \/ id \in DOMAIN retired' /\ retired'[id] = recs[id]
    BY <1>1 DEF Restrict
  <1>3. fr \subseteq free'
    BY <1>1
  <1> QED
    BY <1>2, <1>3 DEF Covered

\* The cover is about the main thread's files, and about no record's holders.
LEMMA CoverKept ==
  ASSUME TypeOK, Covered(free, private, files[Main], retired),
         UNCHANGED <<files, private>>,
         NEW recs, DOMAIN recs = DOMAIN retired,
         \A id \in DOMAIN retired : recs[id].entry = retired[id].entry,
         NEW ids \in SUBSET DOMAIN recs, NEW waiting,
         Settle(recs, ids, waiting, free, closed)
  PROVE  CoverInv'
  <1>1. Covered(free, private, files[Main], recs)
    BY DEF Covered
  <1>2. Covered(free', private, files[Main], retired')
    BY <1>1, SettleCovered
  <1> QED
    BY <1>2 DEF CoverInv, Covered

LEMMA CommitCovered ==
  ASSUME TypeOK, NEW D, NEW changes, NEW fr, NEW cl, NEW prv,
         OwnCommit(D, changes, fr, cl, prv),
         \A id \in DOMAIN retired : id[1] <= updateId,
         Covered(fr, prv, files[Main], retired)
  PROVE  CoverInv'
  <1> DEFINE u == updateId + 1
             gone == Replaced(changes)
             msg == [update |-> u, changes |-> changes, retires |-> gone]
             fresh == {u} \X gone
             records == [id \in DOMAIN retired \cup fresh |->
                           IF id \in fresh
                           THEN [entry |-> files[Main][id[2]],
                                 holders |-> {t \in {Main} : id[2] \in Retained(t, msg)}]
                           ELSE retired[id]]
             waiting == IF gone # {} /\ links # {}
                        THEN [w \in DOMAIN acks \cup {u} |->
                                IF w = u THEN links ELSE acks[w]]
                        ELSE acks
  <1>1. /\ Settle(records, fresh, waiting, fr, cl \ Reopened(changes))
        /\ Apply(Main, msg) /\ Main \in Threads
        /\ DOMAIN changes = D /\ D \subseteq Keys /\ prv \subseteq Entry
        /\ private' = prv \ {changes[k] : k \in D}
    BY DEF OwnCommit, Commit, Threads
  <1>2. \A k \in gone : <<u, k>> \in DOMAIN records /\ records[<<u, k>>].entry = files[Main][k]
    OBVIOUS
  <1>3. \A id \in DOMAIN retired : id \in DOMAIN records /\ records[id] = retired[id]
    BY DEF TypeOK, RetireId
  <1>4. fresh \in SUBSET DOMAIN records
    OBVIOUS
  <1>5. \A k \in D : files[Main][k] \in Entry => k \in gone
    BY <1>1 DEF Replaced
  <1>6. msg.changes = changes /\ msg.retires = gone /\ gone \subseteq Keys
    BY <1>1 DEF Replaced
  <1> HIDE DEF u, gone, msg, fresh, records, waiting
  <1>7. files' = [files EXCEPT ![Main] = Overlay(files[Main], changes)]
    BY <1>1, <1>6, ApplyFacts
  <1>8. \A k \in Keys : files'[Main][k] = IF k \in D THEN changes[k] ELSE files[Main][k]
    BY <1>1, <1>7 DEF TypeOK, Overlay
  <1> PICK pub : pub = files'[Main]
    OBVIOUS
  <1> PICK left : left = private'
    OBVIOUS
  <1>9. ASSUME NEW x \in Extent
        PROVE  \/ x \in fr
               \/ \E v \in left : v.extent = x
               \/ \E k \in Keys : pub[k] \in Entry /\ pub[k].extent = x
               \/ \E id \in DOMAIN records : records[id].entry.extent = x
    <2>1. CASE x \in fr
      BY <2>1
    <2>2. ASSUME NEW v \in prv, v.extent = x, v \notin left
          PROVE  \E k \in Keys : pub[k] \in Entry /\ pub[k].extent = x
      <3>1. PICK k \in D : v = changes[k]
        BY <1>1, <2>2
      <3> QED
        BY <1>1, <1>8, <2>2, <3>1
    <2>3. ASSUME NEW k \in Keys, files[Main][k] \in Entry, files[Main][k].extent = x
          PROVE  \/ pub[k] \in Entry /\ pub[k].extent = x
                 \/ \E id \in DOMAIN records : records[id].entry.extent = x
      BY <1>2, <1>5, <1>8, <2>3
    <2>4. ASSUME NEW id \in DOMAIN retired, retired[id].entry.extent = x
          PROVE  records[id].entry.extent = x
      BY <1>3, <2>4
    <2> QED
      BY <1>3, <2>1, <2>2, <2>3, <2>4 DEF Covered
  <1>10. Covered(fr, left, pub, records)
    BY <1>9 DEF Covered
  <1>11. Covered(free', left, pub, retired')
    BY <1>1, <1>4, <1>10, SettleCovered
  <1> QED
    BY <1>11 DEF CoverInv, Covered

LEMMA FlushCover ==
  ASSUME IInv, CoverInv, NEW D \in SUBSET Keys,
         NEW changes \in [D -> private \cup {Plain, None}], Flush(changes)
  PROVE  CoverInv'
  <1>1. /\ TypeOK /\ Covered(free, private, files[Main], retired)
        /\ \A id \in DOMAIN retired : id[1] <= updateId
    BY DEF Flush, CoverInv, IInv, ReadyInv
  <1>2. OwnCommit(D, changes, free, closed, private)
    BY FlushOwns
  <1> QED
    BY <1>1, <1>2, CommitCovered

LEMMA CompactCover ==
  ASSUME IInv, CoverInv, Compact
  PROVE  CoverInv'
  <1>1. /\ phase = "ready" /\ UNCHANGED <<phase, private>>
        /\ TypeOK /\ Covered(free, private, files[Main], retired)
        /\ \A id \in DOMAIN retired : id[1] <= updateId
    BY DEF Compact, CoverInv, IInv, ReadyInv
  <1>2. CASE \E s \in Targets : \E to \in Moves(s) : Relocate(s, to)
    <2>1. PICK s \in Targets : \E to \in Moves(s) : Relocate(s, to)
      BY <1>2
    <2>2. PICK to \in Moves(s) : Relocate(s, to)
      BY <2>1
    <2> DEFINE D == Items(s)
               changes == Copies(s, to)
               fr == free \ {to[k] : k \in D}
               prv == private \cup {changes[k] : k \in D}
    <2>3. OwnCommit(D, changes, fr, closed \cup {s}, prv)
      BY <1>1, <2>2, RelocateOwns
    <2>4. \A k \in D : changes[k] \in prv /\ changes[k].extent = to[k]
      <3>1. \A k \in D : files[Main][k] \in Entry
        BY DEF Items
      <3> QED
        BY <3>1 DEF Copies, Entry
    <2>5. Covered(fr, prv, files[Main], retired)
      <3>1. \A x \in free : x \in fr \/ \E v \in prv : v.extent = x
        BY <2>4
      <3>2. private \subseteq prv
        OBVIOUS
      <3> HIDE DEF fr, prv
      <3> QED
        BY <1>1, <3>1, <3>2 DEF Covered
    <2> HIDE DEF D, changes, fr, prv
    <2> QED
      BY <1>1, <2>3, <2>5, CommitCovered
  <1>3. CASE ~ \E s \in Targets : \E to \in Moves(s) : Relocate(s, to)
    <2>1. UNCHANGED <<files, free, retired>>
      BY <1>3 DEF Compact
    <2> QED
      BY <1>1, <2>1 DEF CoverInv, Covered
  <1> QED
    BY <1>2, <1>3

LEMMA HandleMessageCover ==
  ASSUME TypeOK, CoverInv, NEW l \in Links, HandleMessage(l)
  PROVE  CoverInv'
  <1>1. /\ phase = "ready" /\ Covered(free, private, files[Main], retired)
        /\ UNCHANGED <<files, private>>
    BY DEF HandleMessage, CoverInv
  <1> PICK ids : ids = Head(up[l]).ids
    OBVIOUS
  <1>2. CASE HandleAck(l)
    <2> DEFINE waiting == Answered(l, {Head(up[l]).update})
               recs == AckRecords(l, ids)
               done == RecordsOf(DOMAIN acks \ DOMAIN waiting)
    <2>1. Settle(recs, done, waiting, free, closed)
      BY <1>2 DEF HandleAck
    <2>2. /\ DOMAIN recs = DOMAIN retired
          /\ \A id \in DOMAIN retired : recs[id].entry = retired[id].entry
      BY AckEffects
    <2>3. done \in SUBSET DOMAIN recs
      BY <2>2 DEF RecordsOf
    <2> HIDE DEF waiting, recs, done
    <2> QED
      BY <1>1, <2>1, <2>2, <2>3, CoverKept
  <1>3. CASE HandleRelease(l)
    <2> DEFINE recs == Without(l, ids)
               done == ids \cap Held(l)
    <2>1. Settle(recs, done, acks, free, closed)
      BY <1>3 DEF HandleRelease
    <2>2. /\ DOMAIN recs = DOMAIN retired
          /\ \A id \in DOMAIN retired : recs[id].entry = retired[id].entry
      BY WithoutEffects
    <2>3. done \in SUBSET DOMAIN recs
      BY <2>2 DEF Held
    <2> HIDE DEF recs, done
    <2> QED
      BY <1>1, <2>1, <2>2, <2>3, CoverKept
  <1>4. CASE HandleWorkerExit(l)
    <2> DEFINE waiting == Answered(l, DOMAIN acks)
               recs == Without(l, DOMAIN retired)
               done == RecordsOf(DOMAIN acks \ DOMAIN waiting) \cup Held(l)
    <2>1. Settle(recs, done, waiting, free, closed)
      BY <1>4 DEF HandleWorkerExit
    <2>2. /\ DOMAIN recs = DOMAIN retired
          /\ \A id \in DOMAIN retired : recs[id].entry = retired[id].entry
      BY WithoutEffects
    <2>3. done \in SUBSET DOMAIN recs
      BY <2>2 DEF RecordsOf, Held
    <2> HIDE DEF waiting, recs, done
    <2> QED
      BY <1>1, <2>1, <2>2, <2>3, CoverKept
  <1> QED
    BY <1>2, <1>3, <1>4 DEF HandleMessage

LEMMA DropCover ==
  ASSUME TypeOK, CoverInv, NEW t \in Threads, NEW v \in Entry, Drop(t, v)
  PROVE  CoverInv'
  <1> SUFFICES ASSUME phase = "ready" PROVE CoverInv'
    BY DEF Drop, CoverInv
  <1>1. Covered(free, private, files[Main], retired) /\ UNCHANGED <<files, private>>
    BY DEF Drop, CoverInv
  <1>2. CASE UNCHANGED <<retired, free>>
    BY <1>1, <1>2 DEF CoverInv, Covered
  <1>3. CASE ~ UNCHANGED <<retired, free>>
    <2> DEFINE recs == Without(Main, {bound[Main][v]})
               done == {bound[Main][v]} \cap Held(Main)
    <2>1. Settle(recs, done, acks, free, closed)
      BY <1>3 DEF Drop
    <2>2. /\ DOMAIN recs = DOMAIN retired
          /\ \A id \in DOMAIN retired : recs[id].entry = retired[id].entry
      BY WithoutEffects
    <2>3. done \in SUBSET DOMAIN recs
      BY <2>2 DEF Held
    <2> HIDE DEF recs, done
    <2> QED
      BY <1>1, <2>1, <2>2, <2>3, CoverKept
  <1> QED
    BY <1>2, <1>3

LEMMA StepCover == IInv /\ CoverInv /\ [Next]_vars => CoverInv'
  <1> SUFFICES ASSUME IInv, CoverInv, [Next]_vars PROVE CoverInv'
    OBVIOUS
  <1>0. TypeOK
    BY DEF IInv
  <1>1. ASSUME NEW c \in Contents, Allocate(c) PROVE CoverInv'
    <2>1. PICK x \in Allocatable :
            /\ free' = free \ {x}
            /\ private' = private \cup {[extent |-> x, content |-> c]}
      BY <1>1 DEF Allocate
    <2>2. \A y \in free : y \in free' \/ \E v \in private' : v.extent = y
      <3> DEFINE w == [extent |-> x, content |-> c]
      <3>1. w \in private' /\ w.extent = x /\ \A y \in free : y \in free' \/ y = x
        BY <2>1
      <3> HIDE DEF w
      <3> QED
        BY <3>1
    <2>3. private \subseteq private' /\ UNCHANGED <<phase, files, retired>>
      BY <1>1, <2>1 DEF Allocate
    <2> QED
      BY <2>2, <2>3 DEF CoverInv, Covered
  <1>2. ASSUME NEW v \in private, Abandon(v) PROVE CoverInv'
    <2>1. /\ UNCHANGED <<phase, files, retired>>
          /\ free \subseteq free' /\ v.extent \in free'
          /\ \A w \in private : w = v \/ w \in private'
      BY <1>2 DEF Abandon
    <2> QED
      BY <2>1 DEF CoverInv, Covered
  <1>3. ASSUME NEW D \in SUBSET Keys,
               NEW changes \in [D -> private \cup {Plain, None}], Flush(changes)
        PROVE  CoverInv'
    BY <1>3, FlushCover
  <1>4. CASE Compact
    BY <1>4, CompactCover
  <1>5. ASSUME NEW l \in Links, HandleMessage(l) PROVE CoverInv'
    BY <1>0, <1>5, HandleMessageCover
  <1>6. ASSUME NEW l \in Links, Link(l) \/ Attach(l) \/ Deliver(l) \/ Exit(l)
        PROVE  CoverInv'
    <2>1. Main \notin Links /\ Main \in Threads /\ l \in Threads
      BY ThreadsAssumption DEF Threads
    <2>2. UNCHANGED <<phase, free, private, retired>> /\ files'[Main] = files[Main]
      BY <1>0, <1>6, <2>1 DEF Link, Attach, Deliver, Exit, Apply, poolVars, TypeOK
    <2> QED
      BY <2>2 DEF CoverInv, Covered
  <1>7. ASSUME NEW t \in Threads, NEW k \in Keys, Acquire(t, k) PROVE CoverInv'
    BY <1>7 DEF Acquire, poolVars, CoverInv, Covered
  <1>8. ASSUME NEW t \in Threads, NEW v \in Entry, Drop(t, v) PROVE CoverInv'
    BY <1>0, <1>8, DropCover
  <1>9. CASE Close
    BY <1>9 DEF Close, CoverInv
  <1>10. CASE UNCHANGED vars
    BY <1>10 DEF vars, CoverInv, Covered
  <1> QED
    BY <1>1, <1>2, <1>3, <1>4, <1>5, <1>6, <1>7, <1>8, <1>9, <1>10 DEF Next

LEMMA CoverPartition ==
  ASSUME IInv, CoverInv
  PROVE  PoolPartition
  <1> SUFFICES ASSUME phase = "ready" PROVE PoolPartition
    BY DEF PoolPartition
  <1> DEFINE K == {k \in Keys : files[Main][k] \in Entry}
             A == {v.extent : v \in private}
             B == {v.extent : v \in Published}
             C == {retired[id].entry.extent : id \in DOMAIN retired}
  <1>1. /\ TypeOK /\ Owned(free, bytes, private, files[Main], retired)
        /\ Covered(free, private, files[Main], retired)
    BY DEF IInv, ReadyInv, CoverInv
  <1>2. IsFiniteSet(Extent)
    BY ThresholdAssumption, SegmentsAssumption, FS_Product DEF Extent
  <1>3. /\ \A v \in private : v.extent \in Extent
        /\ \A k \in K : files[Main][k].extent \in Extent
        /\ \A id \in DOMAIN retired : retired[id].entry.extent \in Extent
    BY <1>1 DEF TypeOK, Entry
  <1>4. IsFiniteSet(A) /\ Cardinality(A) = Cardinality(private)
    <2> DEFINE f == [v \in private |-> v.extent]
    <2>1. f \in [private -> Extent] /\ \A v, w \in private : f[v] = f[w] => v = w
      BY <1>1, <1>3 DEF Owned
    <2>2. A = {f[v] : v \in private}
      OBVIOUS
    <2> HIDE DEF f, A
    <2> QED
      BY <1>2, <2>1, <2>2, ImageSize
  <1>5. IsFiniteSet(B) /\ Cardinality(B) = Cardinality(K)
    <2> DEFINE f == [k \in K |-> files[Main][k].extent]
    <2>1. f \in [K -> Extent] /\ \A j, k \in K : f[j] = f[k] => j = k
      BY <1>1, <1>3 DEF Owned
    <2>2. B = {f[k] : k \in K}
      BY DEF Published
    <2> HIDE DEF f, B, K
    <2> QED
      BY <1>2, <2>1, <2>2, ImageSize
  <1>6. IsFiniteSet(C) /\ Cardinality(C) = Cardinality(DOMAIN retired)
    <2> DEFINE f == [id \in DOMAIN retired |-> retired[id].entry.extent]
    <2>1. /\ f \in [DOMAIN retired -> Extent]
          /\ \A id, jd \in DOMAIN retired : f[id] = f[jd] => id = jd
      BY <1>1, <1>3 DEF Owned
    <2>2. C = {f[id] : id \in DOMAIN retired}
      OBVIOUS
    <2> HIDE DEF f, C
    <2> QED
      BY <1>2, <2>1, <2>2, ImageSize
  <1>7. A \cap B = {} /\ A \cap C = {} /\ B \cap C = {}
    <2>1. \A v \in private, w \in Published : v.extent # w.extent
      BY <1>1 DEF Owned, Published
    <2>2. \A w \in Published, id \in DOMAIN retired : w.extent # retired[id].entry.extent
      BY <1>1 DEF Owned, Published
    <2>3. \A v \in private, id \in DOMAIN retired : v.extent # retired[id].entry.extent
      BY <1>1 DEF Owned
    <2> QED
      BY <2>1, <2>2, <2>3
  <1>8. A \cup B \cup C = Extent \ free
    <2>1. \A x \in A \cup B \cup C : x \in Extent \ free
      BY <1>1, <1>3 DEF Owned, Published
    <2>2. \A x \in Extent \ free : x \in A \cup B \cup C
      BY <1>1 DEF Covered, Published
    <2> QED
      BY <2>1, <2>2
  <1>9. Cardinality(A \cup B \cup C) = Cardinality(A) + Cardinality(B) + Cardinality(C)
    <2> HIDE DEF A, B, C
    <2> QED
      BY <1>4, <1>5, <1>6, <1>7, DisjointSizes
  <1> QED
    BY <1>4, <1>5, <1>6, <1>8, <1>9 DEF PoolPartition

\* The extents of private, published and retired versions are pairwise disjoint and
\* are, with the free ones, the whole pool, whatever the order of commits, ACKs and
\* releases: kernel.js hands no extent out twice, frees none twice and loses none.
THEOREM PoolPartitionAlways == Spec => []PoolPartition
  <1>1. Init => CoverInv
    BY DEF Init, CoverInv, Covered
  <1>2. Spec => []IInv
    BY Inductive
  <1> QED
    BY <1>1, <1>2, StepCover, CoverPartition, PTL DEF Spec

-----------------------------------------------------------------------------
(* Relocations end. *)

\* The image of a finite set is no larger.
LEMMA ImageBound ==
  ASSUME NEW S, NEW f, DOMAIN f = S, IsFiniteSet(S)
  PROVE  /\ IsFiniteSet({f[x] : x \in S})
         /\ Cardinality({f[x] : x \in S}) <= Cardinality(S)
  <1> DEFINE R == {f[x] : x \in S}
             g == [x \in S |-> f[x]]
  <1>1. g \in Surjection(S, R)
    BY DEF Surjection
  <1> HIDE DEF R, g
  <1>2. IsFiniteSet(R) /\ Cardinality(R) <= Cardinality(S)
    BY <1>1, FS_Surjection
  <1> QED
    BY <1>2 DEF R

\* One element more, and some elements fewer.
LEMMA OneMore ==
  ASSUME NEW S, NEW x, IsFiniteSet(S)
  PROVE  /\ IsFiniteSet(S \cup {x})
         /\ Cardinality(S \cup {x}) \in Nat
         /\ Cardinality(S \cup {x}) <= Cardinality(S) + 1
  <1>1. Cardinality(S) \in Nat
    BY FS_CardinalityType
  <1>2. /\ IsFiniteSet(S \cup {x})
        /\ Cardinality(S \cup {x}) = IF x \in S THEN Cardinality(S)
                                                ELSE Cardinality(S) + 1
    BY FS_AddElement
  <1> QED
    BY <1>1, <1>2

LEMMA SomeFewer ==
  ASSUME NEW S, NEW P \in SUBSET S, IsFiniteSet(S)
  PROVE  /\ IsFiniteSet(P) /\ Cardinality(P) \in Nat
         /\ Cardinality(S \ P) = Cardinality(S) - Cardinality(P)
         /\ Cardinality(S \ P) \in Nat
  <1>1. S \cap P = P
    OBVIOUS
  <1>2. IsFiniteSet(P) /\ Cardinality(P) \in Nat
    BY FS_Subset, FS_CardinalityType
  <1>3. IsFiniteSet(S \ P) /\ Cardinality(S \ P) = Cardinality(S) - Cardinality(S \cap P)
    BY FS_Difference
  <1>4. Cardinality(S \ P) \in Nat
    BY <1>3, FS_CardinalityType
  <1> QED
    BY <1>1, <1>2, <1>3, <1>4

\* What a commit does to the pool, it does by its settle.
LEMMA CommitPool ==
  ASSUME NEW changes, NEW fr, NEW cl, Commit(changes, fr, cl)
  PROVE  /\ updateId' = updateId + 1
         /\ fr \subseteq free'
         /\ closed' = StillUsed(cl \ Reopened(changes), free')
  <1>1. /\ updateId' = updateId + 1
        /\ \E recs, ids, waiting : Settle(recs, ids, waiting, fr, cl \ Reopened(changes))
    BY DEF Commit
  <1>2. PICK recs, ids, waiting : Settle(recs, ids, waiting, fr, cl \ Reopened(changes))
    BY <1>1
  <1> QED
    BY <1>1, <1>2 DEF Settle

\* A segment that is open after a settle held something before and was not closed.
LEMMA SettleOpens ==
  ASSUME NEW fr, NEW cl, fr \subseteq free', closed' = StillUsed(cl, free')
  PROVE  \A s \in OpenSegments' :
           s \in Segments /\ s \notin cl /\ \E i \in Slots : <<s, i>> \notin fr
  <1> SUFFICES ASSUME NEW s \in OpenSegments'
               PROVE  s \in Segments /\ s \notin cl /\ \E i \in Slots : <<s, i>> \notin fr
    OBVIOUS
  <1>1. s \in Segments /\ s \notin closed' /\ \E i \in Slots : <<s, i>> \notin free'
    BY DEF OpenSegments, Open, Registered
  <1> QED
    BY <1>1 DEF StillUsed

LEMMA FiniteParts ==
  ASSUME IInv, phase = "ready", IsFiniteSet(Contents)
  PROVE  /\ IsFiniteSet(OpenSegments) /\ IsFiniteSet(private) /\ IsFiniteSet(Unwritten)
         /\ Cardinality(OpenSegments) \in Nat /\ Cardinality(private) \in Nat
         /\ Cardinality(Unwritten) \in Nat
  <1>1. IsFiniteSet(OpenSegments)
    BY SegmentsAssumption, FS_Subset DEF OpenSegments
  <1>2. IsFiniteSet(Unwritten)
    BY FS_Difference DEF Unwritten
  <1>3. IsFiniteSet(private)
    <2>1. IsFiniteSet(Extent)
      BY ThresholdAssumption, SegmentsAssumption, FS_Product DEF Extent
    <2> DEFINE f == [v \in private |-> v.extent]
    <2>2. f \in [private -> Extent] /\ \A v, w \in private : f[v] = f[w] => v = w
      BY DEF IInv, TypeOK, ReadyInv, Owned, Entry
    <2> HIDE DEF f
    <2> QED
      BY <2>1, <2>2, ImageSize
  <1> QED
    BY <1>1, <1>2, <1>3, FS_CardinalityType

\* A step that opens no segment and adds no private version.
LEMMA CalmBound ==
  ASSUME IInv, BoundInv, IsFiniteSet(Contents), MaxUpdates \in Nat, phase = "ready",
         phase' = phase, updateId' = updateId, written' = written,
         private' \subseteq private, OpenSegments' \subseteq OpenSegments
  PROVE  BoundInv'
  <1>1. /\ IsFiniteSet(OpenSegments) /\ IsFiniteSet(private) /\ IsFiniteSet(Unwritten)
        /\ Cardinality(OpenSegments) \in Nat /\ Cardinality(private) \in Nat
        /\ Cardinality(Unwritten) \in Nat /\ updateId \in Nat
        /\ Cardinality(Contents) \in Nat
    BY FiniteParts, FS_CardinalityType DEF IInv, TypeOK
  <1>2. Unwritten' = Unwritten
    BY DEF Unwritten
  <1> PICK opened, prv : opened = OpenSegments' /\ prv = private'
    OBVIOUS
  <1>3. /\ Cardinality(opened) <= Cardinality(OpenSegments) /\ Cardinality(opened) \in Nat
        /\ Cardinality(prv) <= Cardinality(private) /\ Cardinality(prv) \in Nat
    BY <1>1, FS_Subset, FS_CardinalityType
  <1>4. Potential' = Cardinality(opened) + Cardinality(prv) + 2 * Cardinality(Unwritten)
    BY <1>2 DEF Potential
  <1> QED
    BY <1>1, <1>3, <1>4 DEF BoundInv, Potential, RelocationsAreBounded

LEMMA AllocateBound ==
  ASSUME IInv, BoundInv, IsFiniteSet(Contents), MaxUpdates \in Nat,
         NEW c \in Contents, Allocate(c)
  PROVE  BoundInv'
  <1>1. phase = "ready" /\ UNCHANGED <<phase, updateId, closed>> /\ c \notin written
        /\ written' = written \cup {c}
    BY DEF Allocate
  <1>2. PICK x \in Allocatable : /\ free' = free \ {x}
                                 /\ private' = private \cup {[extent |-> x, content |-> c]}
    BY DEF Allocate
  <1>3. /\ IsFiniteSet(OpenSegments) /\ IsFiniteSet(private) /\ IsFiniteSet(Unwritten)
        /\ Cardinality(OpenSegments) \in Nat /\ Cardinality(private) \in Nat
        /\ Cardinality(Unwritten) \in Nat /\ updateId \in Nat
        /\ Cardinality(Contents) \in Nat
    BY <1>1, FiniteParts, FS_CardinalityType DEF IInv, TypeOK
  <1> PICK opened, prv : opened = OpenSegments' /\ prv = private'
    OBVIOUS
  <1>4. Cardinality(prv) <= Cardinality(private) + 1 /\ Cardinality(prv) \in Nat
    BY <1>2, <1>3, OneMore
  <1>5. opened \subseteq OpenSegments \cup {x[1]}
    <2>1. x \in Segments \X Slots
      BY DEF Allocatable, IInv, TypeOK, Extent
    <2>2. \A s, i : <<s, i>> = x => s = x[1]
      OBVIOUS
    <2> QED
      BY <1>1, <1>2, <2>2 DEF OpenSegments, Open, Registered
  <1>6. Cardinality(opened) <= Cardinality(OpenSegments) + 1 /\ Cardinality(opened) \in Nat
    <2>1. /\ IsFiniteSet(OpenSegments \cup {x[1]})
          /\ Cardinality(OpenSegments \cup {x[1]}) <= Cardinality(OpenSegments) + 1
      BY <1>3, OneMore
    <2> QED
      BY <1>3, <1>5, <2>1, FS_Subset, FS_CardinalityType
  <1>7. Cardinality(Unwritten \ {c}) = Cardinality(Unwritten) - 1
    BY <1>1, <1>3, FS_RemoveElement DEF Unwritten
  <1>8. Unwritten' = Unwritten \ {c}
    BY <1>1 DEF Unwritten
  <1>9. Potential' = Cardinality(opened) + Cardinality(prv) + 2 * Cardinality(Unwritten \ {c})
    BY <1>8 DEF Potential
  <1>10. Cardinality(Unwritten \ {c}) \in Nat
    BY <1>3, FS_Difference, FS_CardinalityType
  <1> QED
    BY <1>1, <1>3, <1>4, <1>6, <1>7, <1>9, <1>10
    DEF BoundInv, Potential, RelocationsAreBounded

\* An update that the application causes opens no more segments than it publishes
\* private versions.
LEMMA FlushBound ==
  ASSUME IInv, BoundInv, IsFiniteSet(Contents), MaxUpdates \in Nat,
         NEW D \in SUBSET Keys,
         NEW changes \in [D -> private \cup {Plain, None}], Flush(changes)
  PROVE  BoundInv'
  <1>1. /\ phase = "ready" /\ UNCHANGED <<phase, written>> /\ updateId < MaxUpdates
        /\ updateId' = updateId + 1 /\ DOMAIN changes = D
        /\ private' = private \ {changes[k] : k \in D}
        /\ free \subseteq free'
        /\ closed' = StillUsed(closed \ Reopened(changes), free')
    BY CommitPool DEF Flush
  <1>2. /\ IsFiniteSet(OpenSegments) /\ IsFiniteSet(private) /\ IsFiniteSet(Unwritten)
        /\ Cardinality(OpenSegments) \in Nat /\ Cardinality(private) \in Nat
        /\ Cardinality(Unwritten) \in Nat /\ updateId \in Nat
        /\ Cardinality(Contents) \in Nat
    BY <1>1, FiniteParts, FS_CardinalityType DEF IInv, TypeOK
  <1> DEFINE P == private \cap {changes[k] : k \in D}
             f == [v \in P |-> v.extent[1]]
             R == {f[v] : v \in P}
  <1>3. Reopened(changes) \subseteq R
    <2>1. \A k \in D : changes[k] \in Entry => changes[k] \in P
      BY ValuesAssumption
    <2> HIDE DEF P
    <2>2. \A k \in D : changes[k] \in Entry => changes[k].extent[1] \in R
      BY <2>1
    <2> QED
      BY <1>1, <2>2 DEF Reopened
  <1>4. /\ IsFiniteSet(P) /\ Cardinality(P) \in Nat
        /\ Cardinality(private \ P) = Cardinality(private) - Cardinality(P)
        /\ Cardinality(private \ P) \in Nat
    <2>1. P \in SUBSET private
      OBVIOUS
    <2> HIDE DEF P
    <2> QED
      BY <1>2, <2>1, SomeFewer
  <1>5. IsFiniteSet(R) /\ Cardinality(R) <= Cardinality(P) /\ Cardinality(R) \in Nat
    <2>1. DOMAIN f = P
      OBVIOUS
    <2> HIDE DEF f, P
    <2> QED
      BY <1>4, <2>1, ImageBound, FS_CardinalityType
  <1> PICK opened : opened = OpenSegments'
    OBVIOUS
  <1> HIDE DEF R, f
  <1>6. opened \subseteq OpenSegments \cup R
    <2>1. \A s \in opened : /\ s \in Segments /\ s \notin closed \ Reopened(changes)
                            /\ \E i \in Slots : <<s, i>> \notin free
      BY <1>1, SettleOpens
    <2> QED
      BY <1>3, <2>1 DEF OpenSegments, Open, Registered
  <1>7. /\ Cardinality(opened) <= Cardinality(OpenSegments) + Cardinality(P)
        /\ Cardinality(opened) \in Nat
    <2>1. /\ IsFiniteSet(OpenSegments \cup R)
          /\ Cardinality(OpenSegments \cup R) =
               Cardinality(OpenSegments) + Cardinality(R)
                 - Cardinality(OpenSegments \cap R)
          /\ Cardinality(OpenSegments \cap R) \in Nat
      BY <1>2, <1>5, FS_Union, FS_Intersection, FS_CardinalityType
    <2>2. Cardinality(opened) <= Cardinality(OpenSegments \cup R) /\ Cardinality(opened) \in Nat
      BY <1>6, <2>1, FS_Subset, FS_CardinalityType
    <2> QED
      BY <1>2, <1>4, <1>5, <2>1, <2>2
  <1>8. private' = private \ P /\ Unwritten' = Unwritten
    BY <1>1 DEF Unwritten
  <1>9. Potential' = Cardinality(opened) + Cardinality(private \ P)
                       + 2 * Cardinality(Unwritten)
    BY <1>8 DEF Potential
  <1> HIDE DEF P
  <1> QED
    BY <1>1, <1>2, <1>4, <1>7, <1>9 DEF BoundInv, Potential, RelocationsAreBounded

\* A relocation closes the segment it empties and places the copies in open ones.
LEMMA RelocateBound ==
  ASSUME IInv, BoundInv, IsFiniteSet(Contents), MaxUpdates \in Nat, phase = "ready",
         NEW s \in Targets, NEW to \in Moves(s), Relocate(s, to),
         UNCHANGED <<phase, private, written>>
  PROVE  BoundInv'
  <1> DEFINE D == Items(s)
             changes == Copies(s, to)
             fr == free \ {to[k] : k \in D}
             cl == (closed \cup {s}) \ Reopened(changes)
  <1>1. /\ updateId' = updateId + 1
        /\ fr \subseteq free'
        /\ closed' = StillUsed(cl, free')
    <2>1. Commit(changes, fr, closed \cup {s})
      BY DEF Relocate, Copies
    <2> HIDE DEF changes, fr
    <2> QED
      BY <2>1, CommitPool
  <1>2. /\ IsFiniteSet(OpenSegments) /\ IsFiniteSet(private) /\ IsFiniteSet(Unwritten)
        /\ Cardinality(OpenSegments) \in Nat /\ Cardinality(private) \in Nat
        /\ Cardinality(Unwritten) \in Nat /\ updateId \in Nat
        /\ Cardinality(Contents) \in Nat
    BY FiniteParts, FS_CardinalityType DEF IInv, TypeOK
  <1>3. \A k \in D : to[k] \in free /\ Open(to[k][1]) /\ to[k][1] # s
    BY DEF Moves, Injection, Room
  <1>4. Reopened(changes) \subseteq {to[k][1] : k \in D}
    <2>1. \A k \in D : changes[k].extent = to[k]
      <3>1. \A k \in D : files[Main][k] \in Entry
        BY DEF Items
      <3> QED
        BY <3>1 DEF Copies, Entry
    <2>2. DOMAIN changes = D
      BY DEF Copies
    <2> HIDE DEF changes, D
    <2> QED
      BY <2>1, <2>2 DEF Reopened
  <1>5. s \in OpenSegments
    BY DEF Targets, OpenSegments
  <1> PICK opened : opened = OpenSegments'
    OBVIOUS
  <1>6. opened \subseteq OpenSegments \ {s}
    <2>1. \A r \in opened : /\ r \in Segments /\ r \notin cl
                            /\ \E i \in Slots : <<r, i>> \notin fr
      <3> HIDE DEF cl, fr
      <3> QED
        BY <1>1, SettleOpens
    <2> SUFFICES ASSUME NEW r \in opened PROVE r \in OpenSegments /\ r # s
      OBVIOUS
    <2>2. CASE \E k \in D : r = to[k][1]
      BY <1>3, <2>1, <2>2 DEF OpenSegments
    <2>3. CASE ~ \E k \in D : r = to[k][1]
      <3>1. r \notin closed /\ r # s
        BY <1>4, <2>1, <2>3
      <3>2. PICK i \in Slots : <<r, i>> \notin fr
        BY <2>1
      <3>3. \A k \in D : <<r, i>> # to[k]
        BY <2>3
      <3>4. <<r, i>> \notin free
        BY <3>2, <3>3
      <3> QED
        BY <2>1, <3>1, <3>4 DEF OpenSegments, Open, Registered
    <2> QED
      BY <2>2, <2>3
  <1>7. /\ Cardinality(opened) <= Cardinality(OpenSegments) - 1
        /\ Cardinality(opened) \in Nat
    <2>1. /\ IsFiniteSet(OpenSegments \ {s})
          /\ Cardinality(OpenSegments \ {s}) = Cardinality(OpenSegments) - 1
      BY <1>2, <1>5, FS_RemoveElement
    <2> QED
      BY <1>6, <2>1, FS_Subset, FS_CardinalityType
  <1>8. Potential' = Cardinality(opened) + Cardinality(private) + 2 * Cardinality(Unwritten)
    BY DEF Potential, Unwritten
  <1> QED
    BY <1>1, <1>2, <1>7, <1>8 DEF BoundInv, Potential, RelocationsAreBounded

\* A settle opens no segment.
LEMMA SettleBound ==
  ASSUME IInv, BoundInv, IsFiniteSet(Contents), MaxUpdates \in Nat, phase = "ready",
         UNCHANGED <<phase, updateId, private, written>>,
         NEW recs, NEW ids, NEW waiting, Settle(recs, ids, waiting, free, closed)
  PROVE  BoundInv'
  <1>1. free \subseteq free' /\ closed' = StillUsed(closed, free')
    BY DEF Settle
  <1>2. OpenSegments' \subseteq OpenSegments
    BY <1>1, SettleOpens DEF OpenSegments, Open, Registered
  <1> QED
    BY <1>2, CalmBound

LEMMA StepBound ==
  ASSUME IInv, BoundInv, IsFiniteSet(Contents), MaxUpdates \in Nat, [Next]_vars
  PROVE  BoundInv'
  <1>1. ASSUME NEW c \in Contents, Allocate(c) PROVE BoundInv'
    BY <1>1, AllocateBound
  <1>2. ASSUME NEW v \in private, Abandon(v) PROVE BoundInv'
    <2>1. /\ phase = "ready" /\ UNCHANGED <<phase, updateId, written>>
          /\ private' \subseteq private /\ free \subseteq free'
          /\ closed' = StillUsed(closed, free')
      BY <1>2 DEF Abandon
    <2>2. OpenSegments' \subseteq OpenSegments
      BY <2>1, SettleOpens DEF OpenSegments, Open, Registered
    <2> QED
      BY <2>1, <2>2, CalmBound
  <1>3. ASSUME NEW D \in SUBSET Keys,
               NEW changes \in [D -> private \cup {Plain, None}], Flush(changes)
        PROVE  BoundInv'
    BY <1>3, FlushBound
  <1>4. CASE Compact
    <2>1. phase = "ready" /\ UNCHANGED <<phase, private, written>>
      BY <1>4 DEF Compact
    <2>2. CASE \E s \in Targets : \E to \in Moves(s) : Relocate(s, to)
      <3>1. PICK s \in Targets : \E to \in Moves(s) : Relocate(s, to)
        BY <2>2
      <3>2. PICK to \in Moves(s) : Relocate(s, to)
        BY <3>1
      <3> QED
        BY <2>1, <3>2, RelocateBound
    <2>3. CASE ~ \E s \in Targets : \E to \in Moves(s) : Relocate(s, to)
      <3>1. UNCHANGED <<free, closed, updateId>>
        BY <1>4, <2>3 DEF Compact
      <3>2. OpenSegments' = OpenSegments
        BY <3>1 DEF OpenSegments, Open, Registered
      <3> QED
        BY <2>1, <3>1, <3>2, CalmBound
    <2> QED
      BY <2>2, <2>3
  <1>5. ASSUME NEW l \in Links, HandleMessage(l) PROVE BoundInv'
    <2>1. phase = "ready" /\ UNCHANGED <<phase, updateId, private, written>>
      BY <1>5 DEF HandleMessage
    <2>2. \E recs, ids, waiting : Settle(recs, ids, waiting, free, closed)
      BY <1>5 DEF HandleMessage, HandleAck, HandleRelease, HandleWorkerExit
    <2> QED
      BY <2>1, <2>2, SettleBound
  <1>6. ASSUME NEW t \in Threads, NEW v \in Entry, Drop(t, v) PROVE BoundInv'
    <2>1. UNCHANGED <<phase, updateId, private, written>>
      BY <1>6 DEF Drop
    <2>2. CASE phase # "ready"
      BY <2>1, <2>2 DEF BoundInv, RelocationsAreBounded
    <2>3. CASE phase = "ready" /\ UNCHANGED <<free, closed>>
      <3>1. OpenSegments' = OpenSegments
        BY <2>3 DEF OpenSegments, Open, Registered
      <3> QED
        BY <2>1, <2>3, <3>1, CalmBound
    <2>4. CASE phase = "ready" /\ ~ UNCHANGED <<free, closed>>
      <3>1. Settle(Without(Main, {bound[Main][v]}), {bound[Main][v]} \cap Held(Main), acks,
                   free, closed)
        BY <1>6, <2>4 DEF Drop
      <3> QED
        BY <2>1, <2>4, <3>1, SettleBound
    <2> QED
      BY <2>2, <2>3, <2>4
  <1>7. ASSUME UNCHANGED <<phase, free, closed, updateId, private, written>>
        PROVE  BoundInv'
    <2>1. OpenSegments' = OpenSegments
      BY <1>7 DEF OpenSegments, Open, Registered
    <2> QED
      BY <1>7, <2>1 DEF BoundInv, Potential, RelocationsAreBounded, Unwritten
  <1>8. ASSUME NEW l \in Links, Link(l) \/ Attach(l) \/ Deliver(l) \/ Exit(l)
        PROVE  BoundInv'
    BY <1>7, <1>8 DEF Link, Attach, Deliver, Exit, poolVars
  <1>9. ASSUME NEW t \in Threads, NEW k \in Keys, Acquire(t, k) PROVE BoundInv'
    BY <1>7, <1>9 DEF Acquire, poolVars
  <1>10. CASE Close
    BY <1>10 DEF Close, BoundInv, RelocationsAreBounded
  <1>11. CASE UNCHANGED vars
    BY <1>7, <1>11 DEF vars
  <1> QED
    BY <1>1, <1>2, <1>3, <1>4, <1>5, <1>6, <1>8, <1>9, <1>10, <1>11 DEF Next

LEMMA InitBound ==
  ASSUME Init, IsFiniteSet(Contents), MaxUpdates \in Nat
  PROVE  BoundInv
  <1>1. /\ OpenSegments = {} /\ private = {} /\ Unwritten = Contents /\ updateId = 0
    BY DEF Init, OpenSegments, Open, Registered, Unwritten, Extent
  <1>2. Cardinality(Contents) \in Nat /\ Cardinality({}) = 0
    BY FS_CardinalityType, FS_EmptySet
  <1>3. Potential = 2 * Cardinality(Contents)
    BY <1>1, <1>2 DEF Potential
  <1> QED
    BY <1>1, <1>2, <1>3 DEF BoundInv, RelocationsAreBounded

\* The settle - compact - flush - settle recursion of kernel.js ends: each relocation
\* closes a segment that placing or publishing a content had opened, so an
\* application that writes finitely many contents and causes finitely many updates
\* meets finitely many relocations.
THEOREM RelocationsAreBoundedAlways ==
  ASSUME IsFiniteSet(Contents), MaxUpdates \in Nat
  PROVE  Spec => []RelocationsAreBounded
  <1>1. Init => BoundInv
    BY InitBound
  <1>2. Spec => []IInv
    BY Inductive
  <1>3. IInv /\ BoundInv /\ [Next]_vars => BoundInv'
    BY StepBound
  <1>4. BoundInv => RelocationsAreBounded
    BY DEF BoundInv
  <1> QED
    BY <1>1, <1>2, <1>3, <1>4, PTL DEF Spec

-----------------------------------------------------------------------------
(* What a projection is after some of the updates under way. *)

\* A set of naturals that is not empty has a least element.
LEMMA Least ==
  ASSUME NEW T \in SUBSET Nat, T # {}
  PROVE  \E x \in T : \A y \in T : x <= y
  <1> DEFINE below == {0..x : x \in T}
  <1>1. below \subseteq FiniteSubsetsOf(Nat) /\ below # {}
    <2>1. \A x \in T : IsFiniteSet(0..x) /\ 0..x \in SUBSET Nat
      BY FS_Interval
    <2> QED
      BY <2>1 DEF FiniteSubsetsOf
  <1> HIDE DEF below
  <1>2. PICK s \in below : \A t \in below : <<t, s>> \notin StrictSubsetOrdering(Nat)
    BY <1>1, FS_StrictSubsetOrderingWellFounded, WFMin
  <1> USE DEF below
  <1>3. PICK x \in T : s = 0..x
    BY <1>2
  <1>4. \A y \in T : ~(y < x)
    <2> SUFFICES ASSUME NEW y \in T, y < x PROVE FALSE
      OBVIOUS
    <2>1. /\ 0..y \in SUBSET Nat /\ 0..x \in SUBSET Nat
          /\ 0..y \subseteq 0..x /\ x \in 0..x /\ x \notin 0..y
      OBVIOUS
    <2>2. <<0..y, s>> \in StrictSubsetOrdering(Nat)
      BY <1>3, <2>1 DEF StrictSubsetOrdering
    <2> QED
      BY <1>2, <2>2
  <1> QED
    BY <1>4

IsLast(updates, i, k, j) ==
  /\ j \in 0..i
  /\ j = 0 \/ k \in DOMAIN updates[j].changes
  /\ \A m \in (j + 1)..i : k \notin DOMAIN updates[m].changes

\* There is exactly one last update that changes a key.
LEMMA LastExists ==
  ASSUME NEW updates, NEW i \in Nat, NEW k
  PROVE  /\ IsLast(updates, i, k, LastChange(updates, i, k))
         /\ \A j : IsLast(updates, i, k, j) => j = LastChange(updates, i, k)
  <1> DEFINE T == {d \in 0..i : i - d = 0 \/ k \in DOMAIN updates[i - d].changes}
  <1>1. T \in SUBSET Nat /\ T # {}
    <2>1. i \in T
      OBVIOUS
    <2> QED
      BY <2>1
  <1>2. PICK x \in T : \A y \in T : x <= y
    <2> HIDE DEF T
    <2> QED
      BY <1>1, Least
  <1> DEFINE j == i - x
  <1>3. j \in 0..i /\ (j = 0 \/ k \in DOMAIN updates[j].changes)
    BY <1>2
  <1>4. \A m \in (j + 1)..i : k \notin DOMAIN updates[m].changes
    <2> SUFFICES ASSUME NEW m \in (j + 1)..i, k \in DOMAIN updates[m].changes
                 PROVE  FALSE
      OBVIOUS
    <2>1. i - m \in 0..i /\ i - (i - m) = m /\ i - m < x
      BY <1>2
    <2>2. i - m \in T
      BY <2>1
    <2> QED
      BY <1>2, <2>1, <2>2
  <1> HIDE DEF j
  <1>5. IsLast(updates, i, k, LastChange(updates, i, k))
    BY <1>3, <1>4 DEF IsLast, LastChange
  <1>6. ASSUME NEW a, NEW b, IsLast(updates, i, k, a), IsLast(updates, i, k, b), a < b
        PROVE  FALSE
    <2>1. a \in 0..i /\ b \in 0..i /\ b \in (a + 1)..i /\ b # 0
      BY <1>6 DEF IsLast
    <2> QED
      BY <1>6, <2>1 DEF IsLast
  <1>7. \A a : IsLast(updates, i, k, a) => a = LastChange(updates, i, k)
    <2> SUFFICES ASSUME NEW a, IsLast(updates, i, k, a)
                 PROVE  a = LastChange(updates, i, k)
      OBVIOUS
    <2> PICK b : b = LastChange(updates, i, k)
      OBVIOUS
    <2>1. IsLast(updates, i, k, a) /\ IsLast(updates, i, k, b)
      BY <1>5
    <2>2. a \in Int /\ b \in Int
      BY <2>1 DEF IsLast
    <2>3. ~(a < b) /\ ~(b < a)
      BY <1>6, <2>1
    <2>4. a = b
      BY <2>2, <2>3
    <2> QED
      BY <2>4
  <1> QED
    BY <1>5, <1>7

\* The value of a key is the one its last change gives it.
LEMMA AfterValue ==
  ASSUME NEW entries, NEW updates, NEW i \in Nat, NEW k \in Keys, NEW j,
         IsLast(updates, i, k, j)
  PROVE  After(entries, updates, i)[k] = IF j = 0 THEN entries[k] ELSE updates[j].changes[k]
  <1>1. j = LastChange(updates, i, k)
    BY LastExists
  <1> QED
    BY <1>1 DEF After

LEMMA AfterNone ==
  ASSUME NEW S, NEW entries \in [Keys -> S], NEW updates
  PROVE  After(entries, updates, 0) = entries
  <1>1. \A k \in Keys : After(entries, updates, 0)[k] = entries[k]
    <2> SUFFICES ASSUME NEW k \in Keys PROVE After(entries, updates, 0)[k] = entries[k]
      OBVIOUS
    <2>1. IsLast(updates, 0, k, 0)
      BY DEF IsLast
    <2> QED
      BY <2>1, AfterValue
  <1>2. After(entries, updates, 0) = [k \in Keys |-> After(entries, updates, 0)[k]]
    BY DEF After
  <1> QED
    BY <1>1, <1>2

\* One update more.
LEMMA AfterNext ==
  ASSUME NEW entries, NEW updates, NEW i \in Nat
  PROVE  After(entries, updates, i + 1) =
           Overlay(After(entries, updates, i), updates[i + 1].changes)
  <1> DEFINE whole == After(entries, updates, i + 1)
             part == After(entries, updates, i)
             changes == updates[i + 1].changes
  <1>1. \A k \in Keys : whole[k] = IF k \in DOMAIN changes THEN changes[k] ELSE part[k]
    <2> SUFFICES ASSUME NEW k \in Keys
                 PROVE  whole[k] = IF k \in DOMAIN changes THEN changes[k] ELSE part[k]
      OBVIOUS
    <2>1. CASE k \in DOMAIN changes
      <3>1. IsLast(updates, i + 1, k, i + 1)
        BY <2>1 DEF IsLast
      <3> QED
        BY <2>1, <3>1, AfterValue
    <2>2. CASE k \notin DOMAIN changes
      <3> PICK j : j = LastChange(updates, i, k)
        OBVIOUS
      <3>1. IsLast(updates, i, k, j)
        BY LastExists
      <3>2. IsLast(updates, i + 1, k, j)
        BY <2>2, <3>1 DEF IsLast
      <3> HIDE DEF changes
      <3>3. whole[k] = IF j = 0 THEN entries[k] ELSE updates[j].changes[k]
        BY <3>2, AfterValue
      <3>4. part[k] = IF j = 0 THEN entries[k] ELSE updates[j].changes[k]
        BY <3>1, AfterValue
      <3> QED
        BY <2>2, <3>3, <3>4
    <2> QED
      BY <2>1, <2>2
  <1>2. whole = [k \in Keys |-> whole[k]]
    BY DEF After
  <1> HIDE DEF whole, part, changes
  <1>3. whole = Overlay(part, changes)
    BY <1>1, <1>2 DEF Overlay
  <1> QED
    BY <1>3 DEF whole, part, changes

\* Updates that agree on the first i lead to the same files.
LEMMA AfterSame ==
  ASSUME NEW entries, NEW updates, NEW others, NEW i \in Nat,
         \A m \in 1..i : updates[m] = others[m]
  PROVE  After(entries, updates, i) = After(entries, others, i)
  <1>1. ASSUME NEW k \in Keys
        PROVE  After(entries, updates, i)[k] = After(entries, others, i)[k]
    <2> PICK j : j = LastChange(updates, i, k)
      OBVIOUS
    <2>1. IsLast(updates, i, k, j)
      BY LastExists
    <2>2. /\ j \in 0..i
          /\ j # 0 => updates[j] = others[j]
          /\ \A m \in (j + 1)..i : updates[m] = others[m]
      BY <2>1 DEF IsLast
    <2>3. IsLast(others, i, k, j)
      BY <2>1, <2>2 DEF IsLast
    <2> QED
      BY <2>1, <2>2, <2>3, AfterValue
  <1>2. /\ After(entries, updates, i) = [k \in Keys |-> After(entries, updates, i)[k]]
        /\ After(entries, others, i) = [k \in Keys |-> After(entries, others, i)[k]]
    BY DEF After
  <1> QED
    BY <1>1, <1>2

\* Applying the first update now is applying it first.
LEMMA AfterFirst ==
  ASSUME NEW entries, NEW updates, NEW others, NEW i \in Nat,
         \A m \in 1..i : others[m] = updates[m + 1]
  PROVE  After(Overlay(entries, updates[1].changes), others, i) =
           After(entries, updates, i + 1)
  <1> DEFINE now == Overlay(entries, updates[1].changes)
  <1>1. ASSUME NEW k \in Keys
        PROVE  After(now, others, i)[k] = After(entries, updates, i + 1)[k]
    <2> PICK j : j = LastChange(others, i, k)
      OBVIOUS
    <2>1. IsLast(others, i, k, j)
      BY LastExists
    <2>2. j \in 0..i /\ i \in Nat
      BY <2>1 DEF IsLast
    <2>3. After(now, others, i)[k] = IF j = 0 THEN now[k] ELSE others[j].changes[k]
      <3> HIDE DEF now
      <3> QED
        BY <2>1, AfterValue
    <2>4. \A m \in (j + 2)..(i + 1) : k \notin DOMAIN updates[m].changes
      <3> SUFFICES ASSUME NEW m \in (j + 2)..(i + 1) PROVE k \notin DOMAIN updates[m].changes
        OBVIOUS
      <3>1. m - 1 \in (j + 1)..i /\ m - 1 \in 1..i /\ (m - 1) + 1 = m
        BY <2>2
      <3> QED
        BY <2>1, <3>1 DEF IsLast
    <2>5. CASE j # 0
      <3>1. others[j] = updates[j + 1] /\ k \in DOMAIN others[j].changes
        BY <2>1, <2>2, <2>5 DEF IsLast
      <3>2. IsLast(updates, i + 1, k, j + 1)
        BY <2>2, <2>4, <3>1 DEF IsLast
      <3> QED
        BY <2>2, <2>3, <2>5, <3>1, <3>2, AfterValue
    <2>6. CASE j = 0 /\ k \in DOMAIN updates[1].changes
      <3>1. IsLast(updates, i + 1, k, 1)
        BY <2>2, <2>4, <2>6 DEF IsLast
      <3>2. now[k] = updates[1].changes[k]
        BY <2>6 DEF Overlay
      <3> QED
        BY <2>2, <2>3, <2>6, <3>1, <3>2, AfterValue
    <2>7. CASE j = 0 /\ k \notin DOMAIN updates[1].changes
      <3>1. \A m \in 1..(i + 1) : m = 1 \/ m \in (j + 2)..(i + 1)
        BY <2>2, <2>7
      <3>2. IsLast(updates, i + 1, k, 0)
        BY <2>2, <2>4, <2>7, <3>1 DEF IsLast
      <3>3. now[k] = entries[k]
        BY <2>7 DEF Overlay
      <3> QED
        BY <2>2, <2>3, <2>7, <3>2, <3>3, AfterValue
    <2> QED
      BY <2>5, <2>6, <2>7
  <1>2. /\ After(now, others, i) = [k \in Keys |-> After(now, others, i)[k]]
        /\ After(entries, updates, i + 1) = [k \in Keys |-> After(entries, updates, i + 1)[k]]
    BY DEF After
  <1> HIDE DEF now
  <1>3. After(now, others, i) = After(entries, updates, i + 1)
    BY <1>1, <1>2
  <1> QED
    BY <1>3 DEF now

-----------------------------------------------------------------------------
(* What the readers of an intact projection find. *)

\* The files of a projection, byte for byte, when every version in it is intact.
Shown(entries) ==
  [k \in Keys |-> IF entries[k] \in Entry THEN entries[k].content ELSE entries[k]]

ShownLatest == Shown(files[Main])
ShownView == [l \in Links |-> Shown(files[l])]
ShownAhead ==
  [l \in Links |-> [i \in 1..Len(down[l]) |-> Shown(After(files[l], down[l], i))]]

LEMMA FoundIsShown ==
  ASSUME NEW entries, \A k \in Keys : entries[k] \in Entry => Intact(entries[k])
  PROVE  Found(entries) = Shown(entries)
  BY DEF Found, Shown, Intact

\* Every version that a thread sees, or is about to see, is intact.
LEMMA AllIntact ==
  ASSUME IInv
  PROVE  /\ \A k \in Keys : files[Main][k] \in Entry => Intact(files[Main][k])
         /\ \A l \in Links : \A k \in Keys : \A i \in 0..Len(down[l]) :
              Source(l, i, k) /\ ValueAt(l, i, k) \in Entry => Intact(ValueAt(l, i, k))
  <1>1. CASE phase = "ready"
    <2>1. \A k \in Keys : files[Main][k] \in Entry => Intact(files[Main][k])
      BY <1>1 DEF IInv, ReadyInv, Owned, Intact
    <2> QED
      BY <1>1, <2>1, WorkerIntact
  <1>2. CASE phase = "closed"
    BY <1>2, ValuesAssumption DEF IInv, ClosedInv, NoFile
  <1> QED
    BY <1>1, <1>2 DEF IInv, TypeOK

LEMMA AfterIntact ==
  ASSUME IInv, NEW l \in Links, NEW i \in 0..Len(down[l]), NEW k \in Keys,
         After(files[l], down[l], i)[k] \in Entry
  PROVE  Intact(After(files[l], down[l], i)[k])
  <1>1. i \in Nat /\ Len(down[l]) \in Nat
    BY DEF IInv, TypeOK
  <1> PICK j : j = LastChange(down[l], i, k)
    OBVIOUS
  <1>2. IsLast(down[l], i, k, j)
    BY <1>1, LastExists
  <1>3. After(files[l], down[l], i)[k] = ValueAt(l, j, k)
    BY <1>1, <1>2, AfterValue DEF ValueAt
  <1>4. j \in 0..Len(down[l]) /\ Source(l, j, k)
    BY <1>1, <1>2 DEF IsLast, Source, Touches
  <1> QED
    BY <1>3, <1>4, AllIntact

AsShown ==
  /\ Found(files[Main]) = ShownLatest
  /\ [l \in Links |-> Found(files[l])] = ShownView
  /\ [l \in Links |-> [i \in 1..Len(down[l]) |-> Found(After(files[l], down[l], i))]] =
       ShownAhead

LEMMA Mapped == IInv => AsShown
  <1> SUFFICES ASSUME IInv PROVE AsShown
    OBVIOUS
  <1>1. Found(files[Main]) = ShownLatest
    BY AllIntact, FoundIsShown DEF ShownLatest
  <1>2. ASSUME NEW l \in Links PROVE Found(files[l]) = Shown(files[l])
    <2>1. 0 \in 0..Len(down[l])
      BY DEF IInv, TypeOK
    <2>2. \A k \in Keys : files[l][k] \in Entry => Intact(files[l][k])
      BY <2>1, AllIntact DEF Source, ValueAt
    <2> QED
      BY <2>2, FoundIsShown
  <1>3. ASSUME NEW l \in Links, NEW i \in 1..Len(down[l])
        PROVE  Found(After(files[l], down[l], i)) = Shown(After(files[l], down[l], i))
    <2>1. i \in 0..Len(down[l])
      OBVIOUS
    <2> QED
      BY <2>1, AfterIntact, FoundIsShown
  <1> QED
    BY <1>1, <1>2, <1>3 DEF AsShown, ShownView, ShownAhead

LEMMA MappedNext == IInv' => AsShown'
  BY Mapped, PTL

-----------------------------------------------------------------------------
(* Every step is a step of PublishedFiles. *)

LEMMA AppendMap ==
  ASSUME NEW S, NEW n \in Nat, NEW f \in [1..n -> S], NEW g \in [1..(n + 1) -> S],
         \A i \in 1..n : g[i] = f[i]
  PROVE  g = Append(f, g[n + 1])
  <1>1. f \in Seq(S) /\ g \in Seq(S) /\ Len(f) = n /\ Len(g) = n + 1
    OBVIOUS
  <1> PICK x \in S : x = g[n + 1]
    OBVIOUS
  <1>2. Append(f, x) \in Seq(S) /\ Len(Append(f, x)) = n + 1
    BY <1>1, AppendFacts
  <1>3. ASSUME NEW i \in 1..(n + 1) PROVE Append(f, x)[i] = g[i]
    <2>1. CASE i \in 1..n
      BY <1>1, <2>1, AppendFacts
    <2>2. CASE i = n + 1
      BY <1>1, <2>2, AppendFacts
    <2> QED
      BY <2>1, <2>2
  <1> QED
    BY <1>1, <1>2, <1>3

LEMMA TailMap ==
  ASSUME NEW S, NEW n \in Nat, n >= 1, NEW f \in [1..n -> S], NEW g \in [1..(n - 1) -> S],
         \A i \in 1..(n - 1) : g[i] = f[i + 1]
  PROVE  g = Tail(f) /\ Head(f) = f[1] /\ f # <<>>
  <1>1. /\ f \in Seq(S) /\ Len(f) = n /\ f # <<>>
        /\ g \in Seq(S) /\ Len(g) = n - 1
    OBVIOUS
  <1>2. /\ Tail(f) \in Seq(S) /\ Len(Tail(f)) = n - 1 /\ Head(f) = f[1]
        /\ \A i \in 1..(n - 1) : Tail(f)[i] = f[i + 1]
    BY <1>1, TailFacts
  <1>3. g = Tail(f)
    BY <1>1, <1>2
  <1> QED
    BY <1>1, <1>2, <1>3

\* An update publishes: it reaches the workers it is told to after all others.
LEMMA CommitPublishes ==
  ASSUME IInv, TypeOK', CaughtUp, phase = "ready",
         NEW D, NEW changes, NEW fr, NEW cl, NEW prv,
         OwnCommit(D, changes, fr, cl, prv), UNCHANGED <<phase, links, worker>>
  PROVE  /\ CaughtUp'
         /\ Told' = Told /\ ShownView' = ShownView
         /\ ShownLatest' \in [Keys -> Contents \cup {Plain, None}]
         /\ ShownAhead' = [l \in Links |-> IF l \in Told
                                           THEN Append(ShownAhead[l], ShownLatest')
                                           ELSE ShownAhead[l]]
  <1> PICK by : by = bytes'
    OBVIOUS
  <1>1. /\ D \in SUBSET Keys /\ changes \in [D -> Value] /\ Commit(changes, fr, cl)
        /\ prv \in SUBSET Entry /\ changes \in [D -> prv \cup {Plain, None}]
        /\ \A j, k \in D : changes[j] \in Entry /\ changes[j] = changes[k] => j = k
        /\ Owned(fr, by, prv, files[Main], retired)
    BY DEF OwnCommit
  <1>2. /\ TypeOK /\ Main \in Threads /\ \A l \in Links : l \in Threads /\ l # Main
        /\ \A id \in DOMAIN retired : id[1] <= updateId
        /\ \A w \in DOMAIN acks : w <= updateId
    BY ThreadsAssumption DEF IInv, ReadyInv, Threads
  <1>3. Committed(D, changes, prv, by)
    BY <1>1, <1>2, CommitFacts
  <1> PICK msg : msg = [update |-> updateId + 1, changes |-> changes,
                        retires |-> {k \in D : files[Main][k] \in Entry}]
    OBVIOUS
  <1>4. /\ files' = [files EXCEPT ![Main] = Overlay(files[Main], changes)]
        /\ down' = [l \in Links |->
                      IF l \in Told THEN Append(down[l], msg) ELSE down[l]]
    BY <1>3 DEF Committed
  <1>5. Told' = Told
    BY DEF Told
  <1> PICK main : main = files'[Main]
    OBVIOUS
  <1>6. main = Overlay(files[Main], changes) /\ \A l \in Links : files'[l] = files[l]
    BY <1>2, <1>4 DEF TypeOK
  <1>7. ShownView' = ShownView
    BY <1>6 DEF ShownView
  <1>8. ShownLatest' = Shown(main)
    BY DEF ShownLatest
  <1>9. Shown(main) \in [Keys -> Contents \cup {Plain, None}]
    <2>1. main \in [Keys -> Value]
      BY <1>2 DEF TypeOK
    <2>2. \A v \in Value : \/ v \in Entry /\ v.content \in Contents
                           \/ v \notin Entry /\ v \in {Plain, None}
      BY DEF Value, Entry
    <2> QED
      BY <2>1, <2>2 DEF Shown
  <1>10. Told \subseteq Links
    BY <1>2 DEF Told, TypeOK
  <1>11. ASSUME NEW l \in Told
         PROVE  /\ After(files'[l], down'[l], Len(down'[l])) = main
                /\ ShownAhead'[l] = Append(ShownAhead[l], Shown(main))
    <2>1. l \in Links /\ down[l] \in Seq(Update) /\ down'[l] = Append(down[l], msg)
          /\ down'[l] \in Seq(Update)
      BY <1>2, <1>4, <1>10 DEF TypeOK
    <2> PICK e, old, new : e = files[l] /\ old = down[l] /\ new = down'[l]
      OBVIOUS
    <2> PICK n \in Nat : n = Len(old)
      BY <2>1
    <2>2. /\ Len(new) = n + 1 /\ new[n + 1] = msg
          /\ \A m \in 1..n : new[m] = old[m]
      <3>1. new = Append(old, msg) /\ old \in Seq(Update) /\ new \in Seq(Update)
        BY <2>1
      <3> QED
        BY <3>1
    <2>3. ASSUME NEW i \in 0..n PROVE After(e, new, i) = After(e, old, i)
      <3>1. i \in Nat /\ \A m \in 1..i : new[m] = old[m]
        BY <2>2
      <3> QED
        BY <3>1, AfterSame
    <2>4. After(e, new, n + 1) = main
      <3>1. After(e, new, n + 1) = Overlay(After(e, new, n), new[n + 1].changes)
        BY AfterNext
      <3>2. After(e, new, n) = files[Main]
        BY <2>3 DEF CaughtUp
      <3>3. new[n + 1].changes = changes
        BY <2>2
      <3> QED
        BY <1>6, <3>1, <3>2, <3>3
    <2> DEFINE f == [i \in 1..n |-> Shown(After(e, old, i))]
               g == [i \in 1..(n + 1) |-> Shown(After(e, new, i))]
    <2>5. ShownAhead[l] = f
      BY <2>1 DEF ShownAhead
    <2>6. ShownAhead'[l] = g
      BY <1>6, <2>1, <2>2 DEF ShownAhead
    <2>7. g[n + 1] = Shown(main)
      BY <2>4
    <2>8. \A i \in 1..n : g[i] = f[i]
      BY <2>3
    <2> DEFINE S == {g[i] : i \in 1..(n + 1)}
    <2>9. f \in [1..n -> S] /\ g \in [1..(n + 1) -> S]
      <3>1. \A i \in 1..(n + 1) : g[i] \in S
        OBVIOUS
      <3>2. \A i \in 1..n : i \in 1..(n + 1)
        OBVIOUS
      <3> HIDE DEF S
      <3>3. \A i \in 1..n : f[i] \in S
        <4> SUFFICES ASSUME NEW i \in 1..n PROVE f[i] \in S
          OBVIOUS
        <4>1. g[i] \in S /\ g[i] = f[i]
          <5> HIDE DEF f, g
          <5> QED
            BY <2>8, <3>1, <3>2
        <4> QED
          BY <4>1
      <3> QED
        BY <3>1, <3>3
    <2> HIDE DEF f, g, S
    <2>10. g = Append(f, Shown(main))
      BY <2>7, <2>8, <2>9, AppendMap
    <2> QED
      BY <1>6, <2>1, <2>2, <2>4, <2>5, <2>6, <2>10
  <1>12. ASSUME NEW l \in Links, l \notin Told PROVE ShownAhead'[l] = ShownAhead[l]
    BY <1>4, <1>6, <1>12 DEF ShownAhead
  <1>13. CaughtUp'
    BY <1>5, <1>11 DEF CaughtUp
  <1>14. ShownAhead' = [l \in Links |-> IF l \in Told THEN Append(ShownAhead[l], Shown(main))
                                                     ELSE ShownAhead[l]]
    <2>1. ShownAhead' = [l \in Links |-> ShownAhead'[l]]
      BY DEF ShownAhead
    <2> QED
      BY <1>11, <1>12, <2>1
  <1> QED
    BY <1>5, <1>7, <1>8, <1>9, <1>13, <1>14

\* A worker that applies its next update sees the next publication.
LEMMA DeliverAdvances ==
  ASSUME IInv, TypeOK', CaughtUp, NEW l \in Links, Deliver(l)
  PROVE  /\ CaughtUp'
         /\ Told' = Told /\ ShownLatest' = ShownLatest
         /\ ShownAhead[l] # <<>>
         /\ ShownView' = [ShownView EXCEPT ![l] = Head(ShownAhead[l])]
         /\ ShownAhead' = [ShownAhead EXCEPT ![l] = Tail(@)]
  <1>1. /\ TypeOK /\ LinkShape(l) /\ l \in Threads /\ l # Main /\ Main \in Threads
        /\ down[l] # <<>> /\ down[l] \in Seq(Update) /\ down'[l] \in Seq(Update)
        /\ down' = [down EXCEPT ![l] = Tail(@)] /\ Apply(l, Head(down[l]))
        /\ UNCHANGED <<phase, links, worker>>
    BY ThreadsAssumption DEF Deliver, IInv, Threads, TypeOK
  <1> PICK e, old, new, msg : /\ e = files[l] /\ old = down[l] /\ new = down'[l]
                              /\ msg = Head(down[l])
    OBVIOUS
  <1> PICK n \in Nat : n = Len(old)
    BY <1>1
  <1>2. /\ n >= 1 /\ msg = old[1] /\ msg \in Update /\ msg.retires \subseteq Keys
        /\ Len(new) = n - 1 /\ \A i \in 1..(n - 1) : new[i] = old[i + 1]
    <2>1. new = Tail(old) /\ old \in Seq(Update) /\ old # <<>>
      BY <1>1 DEF TypeOK
    <2>2. msg \in Update
      BY <2>1
    <2> QED
      BY <2>1, <2>2, TailFacts, MessageFacts
  <1>3. files' = [files EXCEPT ![l] = Overlay(e, msg.changes)]
    BY <1>1, <1>2, ApplyFacts
  <1>4. /\ files'[l] = Overlay(e, old[1].changes) /\ files'[Main] = files[Main]
        /\ \A h \in Links : h # l => files'[h] = files[h] /\ down'[h] = down[h]
        /\ \A h \in Links : h \in Threads
    BY <1>1, <1>2, <1>3 DEF TypeOK, Threads
  <1>5. Told' = Told /\ ShownLatest' = ShownLatest
    BY <1>1, <1>4 DEF Told, ShownLatest
  <1>6. ASSUME NEW i \in 0..(n - 1)
        PROVE  After(files'[l], new, i) = After(e, old, i + 1)
    <2>1. i \in Nat /\ \A m \in 1..i : m \in 1..(n - 1)
      OBVIOUS
    <2>2. \A m \in 1..i : new[m] = old[m + 1]
      BY <1>2, <2>1
    <2>3. After(Overlay(e, old[1].changes), new, i) = After(e, old, i + 1)
      BY <2>1, <2>2, AfterFirst, ZenonT(30)
    <2> QED
      BY <1>4, <2>3
  <1> DEFINE f == [i \in 1..n |-> Shown(After(e, old, i))]
             g == [i \in 1..(n - 1) |-> Shown(After(e, old, i + 1))]
  <1>7. ShownAhead[l] = f
    BY DEF ShownAhead
  <1>8. ShownAhead'[l] = g
    <2>1. \A i \in 1..(n - 1) : i \in 0..(n - 1)
      OBVIOUS
    <2>2. ShownAhead'[l] = [i \in 1..(n - 1) |-> Shown(After(files'[l], new, i))]
      BY <1>2 DEF ShownAhead
    <2> QED
      BY <1>6, <2>1, <2>2
  <1>9. g = Tail(f) /\ Head(f) = f[1] /\ f # <<>>
    <2>1. \A i \in 1..(n - 1) : i + 1 \in 1..n
      OBVIOUS
    <2>2. \A i \in 1..(n - 1) : g[i] = f[i + 1]
      BY <2>1
    <2> DEFINE S == {f[i] : i \in 1..n}
    <2>3. f \in [1..n -> S] /\ g \in [1..(n - 1) -> S]
      <3>1. \A i \in 1..n : f[i] \in S
        OBVIOUS
      <3>2. \A i \in 1..(n - 1) : g[i] \in S
        BY <2>1, <2>2
      <3> HIDE DEF S
      <3> QED
        BY <3>1, <3>2
    <2> HIDE DEF f, g, S
    <2> QED
      BY <1>2, <2>2, <2>3, TailMap
  <1>10. f[1] = Shown(files'[l])
    <2>1. After(e, old, 0 + 1) = Overlay(After(e, old, 0), old[0 + 1].changes)
      BY AfterNext
    <2>2. After(e, old, 0) = e
      BY <1>1, AfterNone DEF TypeOK
    <2>3. 1 \in 1..n /\ 0 + 1 = 1
      BY <1>2
    <2> QED
      BY <1>4, <2>1, <2>2, <2>3
  <1> HIDE DEF f, g
  <1>11. ShownView' = [ShownView EXCEPT ![l] = Head(ShownAhead[l])]
    BY <1>4, <1>7, <1>9, <1>10 DEF ShownView
  <1>12. \A h \in Links : h # l => ShownAhead'[h] = ShownAhead[h]
    BY <1>4 DEF ShownAhead
  <1>13. ShownAhead' = [ShownAhead EXCEPT ![l] = Tail(@)]
    <2>1. /\ ShownAhead' = [h \in Links |-> ShownAhead'[h]]
          /\ ShownAhead = [h \in Links |-> ShownAhead[h]]
      BY DEF ShownAhead
    <2> QED
      BY <1>7, <1>8, <1>9, <1>12, <2>1
  <1>14. CaughtUp'
    <2> SUFFICES ASSUME phase = "ready", NEW h \in Told
                 PROVE  After(files'[h], down'[h], Len(down'[h])) = files'[Main]
      BY <1>1, <1>5 DEF CaughtUp
    <2>1. After(files[h], down[h], Len(down[h])) = files[Main]
      BY DEF CaughtUp
    <2>2. CASE h = l
      <3>1. n - 1 \in 0..(n - 1) /\ (n - 1) + 1 = n
        BY <1>2
      <3>2. After(files'[l], new, n - 1) = After(e, old, n)
        BY <1>6, <3>1
      <3> QED
        BY <1>2, <1>4, <2>1, <2>2, <3>2
    <2>3. CASE h # l
      <3>1. h \in Links
        BY <1>1 DEF Told, TypeOK
      <3> QED
        BY <1>4, <2>1, <2>3, <3>1
    <2> QED
      BY <2>2, <2>3
  <1> QED
    BY <1>5, <1>7, <1>9, <1>11, <1>13, <1>14

-----------------------------------------------------------------------------
(* The steps, on what is shown. *)

Seen == INSTANCE PublishedFiles WITH
  Values <- Contents \cup {Plain, None},
  Empty <- NoFile,
  Readers <- Links,
  latest <- ShownLatest,
  told <- Told,
  view <- ShownView,
  ahead <- ShownAhead

\* Steps that move no file and no update, and tell the same workers.
LEMMA Unseen ==
  ASSUME CaughtUp, UNCHANGED <<phase, files, down>>, Told' = Told
  PROVE  CaughtUp' /\ UNCHANGED Seen!vars
  <1>1. CaughtUp'
    BY DEF CaughtUp
  <1>2. ShownLatest' = ShownLatest /\ ShownView' = ShownView /\ ShownAhead' = ShownAhead
    BY DEF ShownLatest, ShownView, ShownAhead
  <1> QED
    BY <1>1, <1>2 DEF Seen!vars

LEMMA CommitSeen ==
  ASSUME IInv, TypeOK', CaughtUp, phase = "ready",
         NEW D, NEW changes, NEW fr, NEW cl, NEW prv,
         OwnCommit(D, changes, fr, cl, prv), UNCHANGED <<phase, links, worker>>
  PROVE  CaughtUp' /\ Seen!Next
  <1> PICK new : new = ShownLatest'
    OBVIOUS
  <1>1. /\ CaughtUp'
        /\ Told' = Told /\ ShownView' = ShownView
        /\ new \in [Keys -> Contents \cup {Plain, None}]
        /\ ShownAhead' = [l \in Links |-> IF l \in Told THEN Append(ShownAhead[l], new)
                                                        ELSE ShownAhead[l]]
    BY CommitPublishes
  <1>2. Seen!Publish(new)
    BY <1>1 DEF Seen!Publish
  <1> QED
    BY <1>1, <1>2 DEF Seen!Next

LEMMA FlushSeen ==
  ASSUME IInv, TypeOK', CaughtUp, NEW D \in SUBSET Keys,
         NEW changes \in [D -> private \cup {Plain, None}], Flush(changes)
  PROVE  CaughtUp' /\ Seen!Next
  <1>1. phase = "ready" /\ UNCHANGED <<phase, links, worker>>
    BY DEF Flush, linkVars
  <1>2. OwnCommit(D, changes, free, closed, private)
    BY FlushOwns
  <1> QED
    BY <1>1, <1>2, CommitSeen

LEMMA CompactSeen ==
  ASSUME IInv, TypeOK', CaughtUp, Compact
  PROVE  CaughtUp' /\ [Seen!Next]_(Seen!vars)
  <1>1. phase = "ready" /\ UNCHANGED <<phase, private, links, worker>>
    BY DEF Compact, linkVars
  <1>2. CASE \E s \in Targets : \E to \in Moves(s) : Relocate(s, to)
    <2>1. PICK s \in Targets : \E to \in Moves(s) : Relocate(s, to)
      BY <1>2
    <2>2. PICK to \in Moves(s) : Relocate(s, to)
      BY <2>1
    <2>3. PICK D, changes, fr, cl, prv : OwnCommit(D, changes, fr, cl, prv)
      BY <1>1, <2>2, RelocateOwns
    <2> QED
      BY <1>1, <2>3, CommitSeen
  <1>3. CASE ~ \E s \in Targets : \E to \in Moves(s) : Relocate(s, to)
    <2>1. UNCHANGED <<phase, files, down>>
      BY <1>1, <1>3 DEF Compact
    <2>2. Told' = Told
      BY <1>1 DEF Told
    <2> QED
      BY <2>1, <2>2, Unseen
  <1> QED
    BY <1>2, <1>3

\* Only a worker that is gone reports its exit, so no live one loses its updates.
LEMMA HandleMessageSeen ==
  ASSUME IInv, CaughtUp, NEW l \in Links, HandleMessage(l)
  PROVE  CaughtUp' /\ [Seen!Next]_(Seen!vars)
  <1>1. /\ TypeOK /\ LinkShape(l) /\ phase = "ready" /\ up[l] # <<>>
        /\ Alive(l) => InOrder(l)
        /\ UNCHANGED <<phase, files, down, worker>>
    BY DEF IInv, ReadyInv, LinkInv, HandleMessage
  <1>2. Told' = Told
    <2>1. CASE HandleAck(l) \/ HandleRelease(l)
      BY <1>1, <2>1 DEF HandleAck, HandleRelease, Told
    <2>2. CASE HandleWorkerExit(l)
      <3>1. links' = links \ {l} /\ Head(up[l]).type = "close"
        BY <2>2 DEF HandleWorkerExit
      <3>2. 1 \in 1..Len(up[l]) /\ Head(up[l]) = up[l][1]
        BY <1>1 DEF TypeOK
      <3>3. worker[l] = "gone"
        BY <1>1, <3>1, <3>2 DEF InOrder, Alive, LinkShape, TypeOK
      <3> QED
        BY <1>1, <3>1, <3>3 DEF Told
    <2> QED
      BY <2>1, <2>2 DEF HandleMessage
  <1> QED
    BY <1>1, <1>2, Unseen

\* A link starts from the files of the moment, with nothing under way.
LEMMA LinkSeen ==
  ASSUME IInv, CaughtUp, NEW l \in Links, Link(l)
  PROVE  CaughtUp' /\ Seen!Next
  <1>1. /\ TypeOK /\ LinkShape(l) /\ l \in Threads /\ l # Main /\ Main \in Threads
        /\ worker[l] = "none" /\ l \notin links /\ down[l] = <<>>
        /\ \A h \in Links : h \in Threads
    BY ThreadsAssumption DEF IInv, Link, LinkShape, Alive, Threads
  <1>2. /\ links' = links \cup {l} /\ worker' = [worker EXCEPT ![l] = "linked"]
        /\ files' = [files EXCEPT ![l] = files[Main]]
        /\ UNCHANGED <<phase, down>>
    BY DEF Link
  <1>3. /\ files'[l] = files[Main] /\ files'[Main] = files[Main]
        /\ \A h \in Links : h # l => files'[h] = files[h]
    BY <1>1, <1>2 DEF TypeOK
  <1>4. l \notin Told /\ Told' = Told \cup {l}
    BY <1>1, <1>2 DEF Told, TypeOK
  <1>5. ShownLatest' = ShownLatest
    BY <1>3 DEF ShownLatest
  <1>6. ShownView' = [ShownView EXCEPT ![l] = ShownLatest]
    BY <1>3 DEF ShownView, ShownLatest
  <1>7. ShownAhead' = [ShownAhead EXCEPT ![l] = <<>>]
    <2>1. ShownAhead'[l] = <<>>
      <3>1. Len(down'[l]) = 0
        BY <1>1, <1>2
      <3> QED
        BY <3>1 DEF ShownAhead
    <2>2. \A h \in Links : h # l => ShownAhead'[h] = ShownAhead[h]
      BY <1>2, <1>3 DEF ShownAhead
    <2>3. /\ ShownAhead' = [h \in Links |-> ShownAhead'[h]]
          /\ ShownAhead = [h \in Links |-> ShownAhead[h]]
      BY DEF ShownAhead
    <2> QED
      BY <2>1, <2>2, <2>3
  <1>8. CaughtUp'
    <2> SUFFICES ASSUME phase = "ready", NEW h \in Told'
                 PROVE  After(files'[h], down'[h], Len(down'[h])) = files'[Main]
      BY <1>2 DEF CaughtUp
    <2>1. CASE h = l
      <3>1. files[Main] \in [Keys -> Value]
        BY <1>1 DEF TypeOK
      <3>2. After(files[Main], down[l], 0) = files[Main]
        BY <3>1, AfterNone
      <3> QED
        BY <1>1, <1>2, <1>3, <2>1, <3>2
    <2>2. CASE h # l
      <3>1. h \in Told /\ h \in Links
        BY <1>1, <1>4, <2>2 DEF Told, TypeOK
      <3> QED
        BY <1>2, <1>3, <2>2, <3>1 DEF CaughtUp
    <2> QED
      BY <2>1, <2>2
  <1>9. Seen!Join(l)
    BY <1>4, <1>5, <1>6, <1>7 DEF Seen!Join
  <1> QED
    BY <1>8, <1>9 DEF Seen!Next

LEMMA ShownNothing == Shown(NoFile) = NoFile
  BY ValuesAssumption DEF Shown, NoFile

LEMMA ExitSeen ==
  ASSUME IInv, CaughtUp, NEW l \in Links, Exit(l)
  PROVE  CaughtUp' /\ Seen!Next
  <1>1. /\ TypeOK /\ l \in Threads /\ l # Main /\ Main \in Threads
        /\ \A h \in Links : h \in Threads
    BY ThreadsAssumption DEF IInv, Threads
  <1>2. /\ links' = links /\ worker' = [worker EXCEPT ![l] = "gone"]
        /\ files' = [files EXCEPT ![l] = NoFile]
        /\ down' = [down EXCEPT ![l] = <<>>]
        /\ phase' = phase
    BY DEF Exit
  <1>3. /\ files'[l] = NoFile /\ files'[Main] = files[Main] /\ down'[l] = <<>>
        /\ \A h \in Links : h # l => files'[h] = files[h] /\ down'[h] = down[h]
    BY <1>1, <1>2 DEF TypeOK
  <1>4. Told' = Told \ {l}
    BY <1>1, <1>2 DEF Told, TypeOK
  <1>5. ShownLatest' = ShownLatest
    BY <1>3 DEF ShownLatest
  <1>6. ShownView' = [ShownView EXCEPT ![l] = NoFile]
    BY <1>3, ShownNothing DEF ShownView
  <1>7. ShownAhead' = [ShownAhead EXCEPT ![l] = <<>>]
    <2>1. ShownAhead'[l] = <<>>
      <3>1. Len(down'[l]) = 0
        BY <1>3
      <3> QED
        BY <3>1 DEF ShownAhead
    <2>2. \A h \in Links : h # l => ShownAhead'[h] = ShownAhead[h]
      BY <1>3 DEF ShownAhead
    <2>3. /\ ShownAhead' = [h \in Links |-> ShownAhead'[h]]
          /\ ShownAhead = [h \in Links |-> ShownAhead[h]]
      BY DEF ShownAhead
    <2> QED
      BY <2>1, <2>2, <2>3
  <1>8. CaughtUp'
    <2> SUFFICES ASSUME phase = "ready", NEW h \in Told'
                 PROVE  After(files'[h], down'[h], Len(down'[h])) = files'[Main]
      BY <1>2 DEF CaughtUp
    <2>1. h \in Told /\ h \in Links /\ h # l
      BY <1>1, <1>4 DEF Told, TypeOK
    <2> QED
      BY <1>3, <2>1 DEF CaughtUp
  <1>9. Seen!Leave(l)
    BY <1>4, <1>5, <1>6, <1>7 DEF Seen!Leave
  <1> QED
    BY <1>8, <1>9 DEF Seen!Next

LEMMA CloseSeen ==
  ASSUME IInv, Close
  PROVE  CaughtUp' /\ Seen!Next
  <1>1. /\ TypeOK /\ Main \in Threads /\ \A h \in Links : h \in Threads /\ h # Main
        /\ phase' = "closed" /\ links' = {} /\ down' = down
        /\ files' = [files EXCEPT ![Main] = NoFile]
    BY ThreadsAssumption DEF IInv, Close, Threads
  <1>2. files'[Main] = NoFile /\ \A h \in Links : files'[h] = files[h]
    BY <1>1 DEF TypeOK
  <1>3. ShownLatest' = NoFile
    BY <1>2, ShownNothing DEF ShownLatest
  <1>4. Told' = {}
    BY <1>1 DEF Told
  <1>5. ShownView' = ShownView /\ ShownAhead' = ShownAhead
    BY <1>1, <1>2 DEF ShownView, ShownAhead
  <1>6. CaughtUp'
    BY <1>1 DEF CaughtUp
  <1>7. Seen!Stop
    BY <1>3, <1>4, <1>5 DEF Seen!Stop
  <1> QED
    BY <1>6, <1>7 DEF Seen!Next

LEMMA DeliverSeen ==
  ASSUME IInv, TypeOK', CaughtUp, NEW l \in Links, Deliver(l)
  PROVE  CaughtUp' /\ Seen!Next
  <1>1. Seen!Advance(l)
    BY DeliverAdvances DEF Seen!Advance
  <1> QED
    BY <1>1, DeliverAdvances DEF Seen!Next

LEMMA InitSeen == Init => CaughtUp /\ Reading!Init
  <1> SUFFICES ASSUME Init PROVE CaughtUp /\ Reading!Init
    OBVIOUS
  <1>1. /\ files = [t \in Threads |-> NoFile] /\ down = [l \in Links |-> <<>>]
        /\ Main \in Threads /\ \A l \in Links : l \in Threads
    BY DEF Init, Threads
  <1>2. Told = {}
    BY DEF Init, Told
  <1>3. Found(NoFile) = NoFile
    BY ValuesAssumption DEF Found, NoFile
  <1>4. CaughtUp
    BY <1>2 DEF CaughtUp
  <1>5. Found(files[Main]) = NoFile
    BY <1>1, <1>3
  <1>6. [l \in Links |-> Found(files[l])] = [l \in Links |-> NoFile]
    BY <1>1, <1>3
  <1>7. [l \in Links |-> [i \in 1..Len(down[l]) |-> Found(After(files[l], down[l], i))]] =
          [l \in Links |-> <<>>]
    <2>1. ASSUME NEW l \in Links
          PROVE  [i \in 1..Len(down[l]) |-> Found(After(files[l], down[l], i))] = <<>>
      <3>1. Len(down[l]) = 0
        BY <1>1
      <3> QED
        BY <3>1
    <2> QED
      BY <2>1
  <1> QED
    BY <1>2, <1>4, <1>5, <1>6, <1>7 DEF Reading!Init

LEMMA StepSeen == IInv /\ TypeOK' /\ CaughtUp /\ [Next]_vars => CaughtUp' /\ [Seen!Next]_(Seen!vars)
  <1> SUFFICES ASSUME IInv, TypeOK', CaughtUp, [Next]_vars
               PROVE  CaughtUp' /\ [Seen!Next]_(Seen!vars)
    OBVIOUS
  <1> DEFINE Goal == CaughtUp' /\ [Seen!Next]_(Seen!vars)
  <1>1. ASSUME NEW c \in Contents, Allocate(c) PROVE Goal
    BY <1>1, Unseen DEF Allocate, linkVars, Told
  <1>2. ASSUME NEW v \in private, Abandon(v) PROVE Goal
    BY <1>2, Unseen DEF Abandon, linkVars, Told
  <1>3. ASSUME NEW D \in SUBSET Keys,
               NEW changes \in [D -> private \cup {Plain, None}], Flush(changes)
        PROVE  Goal
    BY <1>3, FlushSeen
  <1>4. CASE Compact
    BY <1>4, CompactSeen
  <1>5. ASSUME NEW l \in Links,
               HandleMessage(l) \/ Link(l) \/ Attach(l) \/ Deliver(l) \/ Exit(l)
        PROVE  Goal
    <2>1. CASE Attach(l)
      <3>1. UNCHANGED <<phase, files, down, links>> /\ worker' = [worker EXCEPT ![l] = "attached"]
            /\ worker[l] = "linked"
        BY <2>1 DEF Attach
      <3>2. Told' = Told
        BY <3>1 DEF Told, IInv, TypeOK
      <3> QED
        BY <3>1, <3>2, Unseen
    <2> QED
      BY <1>5, <2>1, HandleMessageSeen, LinkSeen, DeliverSeen, ExitSeen
  <1>6. ASSUME NEW t \in Threads, NEW k \in Keys, Acquire(t, k) PROVE Goal
    BY <1>6, Unseen DEF Acquire, linkVars, Told
  <1>7. ASSUME NEW t \in Threads, NEW v \in Entry, Drop(t, v) PROVE Goal
    BY <1>7, Unseen DEF Drop, Told
  <1>8. CASE Close
    BY <1>8, CloseSeen
  <1>9. CASE UNCHANGED vars
    BY <1>9, Unseen DEF vars, Told
  <1> QED
    BY <1>1, <1>2, <1>3, <1>4, <1>5, <1>6, <1>7, <1>8, <1>9 DEF Next

LEMMA SeenIsFound ==
  ASSUME AsShown, AsShown', [Seen!Next]_(Seen!vars)
  PROVE  [Reading!Next]_(Reading!vars)
  BY DEF AsShown, Seen!Next, Seen!vars, Reading!Next, Reading!vars, Seen!Publish, Seen!Join,
         Seen!Advance, Seen!Leave, Seen!Stop, Reading!Publish, Reading!Join, Reading!Advance,
         Reading!Leave, Reading!Stop

\* The last update under way to a worker that is told of updates brings it to the
\* files of the main thread.
THEOREM CaughtUpAlways == Spec => []CaughtUp
  <1>1. Spec => []IInv /\ []TypeOK
    BY Inductive, TypeCorrect
  <1>2. Init => CaughtUp
    BY InitSeen
  <1>3. IInv /\ TypeOK' /\ CaughtUp /\ [Next]_vars => CaughtUp'
    BY StepSeen
  <1> QED
    BY <1>1, <1>2, <1>3, PTL DEF Spec

\* What a worker finds in its files, byte for byte, is everything the main thread
\* once published together, and it passes through the later publications one by
\* one: Lifetime implements PublishedFiles.
THEOREM WorkersFollowAlways == Spec => WorkersFollow
  <1>1. Spec => []IInv /\ []TypeOK /\ []CaughtUp
    BY Inductive, TypeCorrect, CaughtUpAlways
  <1>2. Init => Reading!Init
    BY InitSeen
  <1>3. IInv /\ IInv' /\ TypeOK' /\ CaughtUp /\ [Next]_vars => [Reading!Next]_(Reading!vars)
    <2>1. IInv => AsShown
      BY Mapped
    <2>2. IInv' => AsShown'
      BY MappedNext
    <2> QED
      BY <2>1, <2>2, StepSeen, SeenIsFound
  <1> QED
    BY <1>1, <1>2, <1>3, PTL DEF Spec, WorkersFollow, Reading!Spec
=============================================================================
