------------------------- MODULE MutationQueueProofs -------------------------
(***************************************************************************)
(* For any set of mutations, places and keys: the tasks of MutationQueue   *)
(* are typed, conflicting mutations exclude each other, lock records are   *)
(* dropped with their last task, and the queue implements KeyedOrder's     *)
(* safety part.                                                            *)
(*                                                                         *)
(* A task awaits only the latest tails, so that it is behind an earlier    *)
(* conflicting one follows from two facts that hold while the kernel is    *)
(* ready: the tails of a record stand for every task pending in it         *)
(* (Covered), and what a task awaits stands for every pending task it      *)
(* conflicts with (Waiting), "stands for" meaning: is that task, or came   *)
(* later, in conflict with it, and is thus itself not started (InOrder).   *)
(***************************************************************************)
EXTENDS MutationQueue, FiniteSetTheorems, TLAPS

Conflict(t, u) == Conflicts(request[t], request[u])
Place(t) == request[t][1]

\* Tickets rank the tasks that arrived, without ties.
Tickets ==
  /\ \A t \in Tasks : state[t] = "new" <=> ticket[t] = 0
  /\ \A t \in Tasks : ticket[t] <= Cardinality(Arrived)
  /\ \A t, u \in Arrived : ticket[t] = ticket[u] => t = u

\* A record is a fresh object until the task it is named by creates it, and
\* belongs to that task's place.
Records ==
  /\ \A t \in Tasks : state[t] = "new" => keys[t] = NoTails /\ barrier[t] = Free
  /\ \A p \in Places : places[p] # None =>
       places[p] \in Arrived /\ Place(places[p]) = p
  /\ \A t \in Arrived : locks[t] \in Arrived /\ Place(locks[t]) = Place(t)

\* The tails of the record of a place belong to tasks that hold them.
Tables ==
  \A p \in Places : places[p] # None =>
    /\ \A k \in DOMAIN keys[places[p]] :
         LET c == keys[places[p]][k]
         IN  c \in Arrived /\ Place(c) = p /\ k \in HeldKeys(c)
    /\ barrier[places[p]] # Free =>
         LET c == barrier[places[p]]
         IN  c \in Arrived /\ Place(c) = p /\ Exclusive(c)

\* Every pending task is in the record of its place, as a tail of it or behind one.
CoveredIn(a, r) ==
  \/ /\ barrier[r] # Free
     /\ ticket[barrier[r]] >= ticket[a]
  \/ /\ ~Exclusive(a)
     /\ \A k \in HeldKeys(a) : k \in DOMAIN keys[r] /\ ticket[keys[r][k]] >= ticket[a]
Covered ==
  \A a \in Tasks : Pending(a) =>
    /\ places[Place(a)] # None
    /\ locks[a] = places[Place(a)]
    /\ CoveredIn(a, places[Place(a)])

Behind(a, b) == ticket[a] < ticket[b] /\ Conflict(a, b)

\* What a task awaits stands for each pending task it is behind.
Waiting ==
  \A a, b \in Tasks : Pending(a) /\ Behind(a, b) =>
    \E c \in prior[b] \cap Tasks : c = a \/ Behind(a, c)

\* Nothing starts while something it is behind is pending.
InOrder ==
  \A a, b \in Tasks : Pending(a) /\ Behind(a, b) => state[b] = "queued"

QueueInv ==
  /\ TypeOK
  /\ Tickets
  /\ Records
  /\ ready => Tables /\ Covered /\ Waiting /\ InOrder
  /\ MutualExclusion

-----------------------------------------------------------------------------
LEMMA TableType == ASSUME TypeOK, NEW r \in Tasks
                   PROVE  /\ DOMAIN keys[r] \subseteq Keys
                          /\ \A k \in DOMAIN keys[r] : keys[r][k] \in Tasks
                          /\ keys[r] = [k \in DOMAIN keys[r] |-> keys[r][k]]
<1>1. keys[r] \in UNION {[D -> Tasks] : D \in SUBSET Keys}
  BY DEF TypeOK
<1>2. PICK D \in SUBSET Keys : keys[r] \in [D -> Tasks]
  BY <1>1
<1> QED BY <1>2

\* A table whose tails are tasks is of the right type.
LEMMA IsTable == ASSUME NEW D \in SUBSET Keys, NEW f \in [D -> Tasks]
                 PROVE  f \in UNION {[E -> Tasks] : E \in SUBSET Keys}
  OBVIOUS

LEMMA NoTailsType == NoTails \in UNION {[D -> Tasks] : D \in SUBSET Keys}
  BY DEF NoTails

LEMMA RequestType == ASSUME TypeOK, NEW t \in Tasks
                     PROVE  /\ Place(t) \in Places
                            /\ request[t][2] \subseteq Keys
                            /\ HeldKeys(t) = request[t][2]
<1>1. request[t] \in Places \X Touches
  BY DEF TypeOK, Request
<1>2. Touches \subseteq SUBSET Keys
  BY DEF Touches, AllKeys
<1> QED BY <1>1, <1>2 DEF Place, HeldKeys, Exclusive, AllKeys

LEMMA InitInv == Init => QueueInv
<1> SUFFICES ASSUME Init PROVE QueueInv
  OBVIOUS
<1>2. TypeOK
  BY NoTailsType DEF Init, TypeOK
<1>3. Arrived = {}
  BY DEF Init, Arrived
<1>4. Cardinality(Arrived) = 0
  BY <1>3, FS_EmptySet
<1>5. Tickets
  BY <1>3, <1>4 DEF Init, Tickets
<1>6. Records
  BY <1>3 DEF Init, Records
<1>7. Tables /\ Covered /\ Waiting /\ InOrder /\ MutualExclusion
  BY DEF Init, Tables, Covered, Waiting, InOrder, MutualExclusion, Pending
<1> QED BY <1>2, <1>5, <1>6, <1>7 DEF QueueInv

-----------------------------------------------------------------------------
(* Accepting a task. *)

LEMMA RunType == ASSUME TypeOK, NEW t \in Tasks, Run(t)
                 PROVE  /\ TypeOK'
                        /\ Record(t) \in Tasks
<1>1. Record(t) \in Tasks
  BY RequestType DEF TypeOK, Record, Place
<1>2. Tails(t, Record(t)) \subseteq Tasks \cup {Free}
  BY <1>1, TableType DEF Tails, TypeOK
<1>3. TailsLeft(t, Record(t)) \in UNION {[D -> Tasks] : D \in SUBSET Keys}
  <2>1. CASE Exclusive(t)
    BY <2>1, NoTailsType DEF TailsLeft
  <2>2. CASE ~Exclusive(t)
    <3>1. TailsLeft(t, Record(t)) \in [DOMAIN keys[Record(t)] \cup HeldKeys(t) -> Tasks]
      BY <2>2, <1>1, TableType DEF TailsLeft
    <3>2. DOMAIN keys[Record(t)] \subseteq Keys /\ HeldKeys(t) \subseteq Keys
      BY <1>1, TableType, RequestType
    <3> QED BY <3>1, <3>2, IsTable
  <2> QED BY <2>1, <2>2
<1>4. Cardinality(Arrived) \in Nat
  BY TasksAssumption, FS_Subset, FS_CardinalityType DEF Arrived
<1>5. ticket' \in [Tasks -> Nat]
  BY <1>4 DEF Run, TypeOK
<1>6. keys' \in [Tasks -> UNION {[D -> Tasks] : D \in SUBSET Keys}]
  BY <1>3 DEF Run, TypeOK
<1>7. prior' \in [Tasks -> SUBSET (Tasks \cup {Free})]
  BY <1>2 DEF Run, TypeOK
<1>8. /\ locks' \in [Tasks -> Tasks \cup {None}]
      /\ places' \in [Places -> Tasks \cup {None}]
      /\ barrier' \in [Tasks -> Tasks \cup {Free}]
  BY <1>1 DEF Run, TypeOK
<1>9. /\ state' \in [Tasks -> {"new", "queued", "running", "settled", "released"}]
      /\ ready' \in BOOLEAN
      /\ request' \in [Tasks -> Request]
  BY DEF Run, TypeOK
<1> QED BY <1>1, <1>5, <1>6, <1>7, <1>8, <1>9 DEF TypeOK

\* The tasks that arrived keep their rank; the new one comes after them.
LEMMA RunTickets == ASSUME TypeOK, Tickets, NEW t \in Tasks, Run(t)
                    PROVE  /\ Tickets'
                           /\ Arrived' = Arrived \cup {t}
                           /\ t \notin Arrived
                           /\ ticket'[t] \in Nat
                           /\ \A u \in Tasks \ {t} : /\ ticket'[u] = ticket[u]
                                                     /\ ticket[u] \in Nat
                                                     /\ ticket'[u] < ticket'[t]
                                                     /\ state'[u] = state[u]
<1>1. IsFiniteSet(Arrived)
  BY TasksAssumption, FS_Subset DEF Arrived
<1>2. t \notin Arrived
  BY DEF Run, Arrived
<1>3. Arrived' = Arrived \cup {t}
  BY DEF Run, Arrived, TypeOK
<1>4. Cardinality(Arrived') = Cardinality(Arrived) + 1
  BY <1>1, <1>2, <1>3, FS_AddElement
<1>5. Cardinality(Arrived) \in Nat
  BY <1>1, FS_CardinalityType
<1>6. ticket'[t] = Cardinality(Arrived) + 1
  BY DEF Run, TypeOK
<1>7. \A u \in Tasks \ {t} : ticket'[u] = ticket[u] /\ state'[u] = state[u]
  BY DEF Run, TypeOK
<1>8. \A u \in Tasks : ticket[u] \in Nat /\ ticket[u] <= Cardinality(Arrived)
  BY DEF Tickets, TypeOK
<1>9. Tickets'
  <2>1. \A u \in Tasks : state'[u] = "new" <=> ticket'[u] = 0
    <3>1. state'[t] = "queued"
      BY DEF Run, TypeOK
    <3> QED BY <3>1, <1>5, <1>6, <1>7 DEF Tickets
  <2>2. \A u \in Tasks : ticket'[u] <= Cardinality(Arrived')
    BY <1>4, <1>5, <1>6, <1>7, <1>8
  <2>3. \A u, v \in Arrived' : ticket'[u] = ticket'[v] => u = v
    <3> SUFFICES ASSUME NEW u \in Arrived', NEW v \in Arrived',
                        ticket'[u] = ticket'[v], u # v
                 PROVE  FALSE
      OBVIOUS
    <3>1. u \in Tasks /\ v \in Tasks
      BY <1>3 DEF Arrived
    <3>2. CASE u = t
      BY <3>1, <3>2, <1>5, <1>6, <1>7, <1>8
    <3>3. CASE v = t
      BY <3>1, <3>3, <1>5, <1>6, <1>7, <1>8
    <3>4. CASE u # t /\ v # t
      BY <3>1, <3>4, <1>3, <1>7 DEF Tickets
    <3> QED BY <3>2, <3>3, <3>4
  <2> QED BY <2>1, <2>2, <2>3 DEF Tickets
<1> QED BY <1>2, <1>3, <1>5, <1>6, <1>7, <1>8, <1>9

LEMMA RunRecords ==
  ASSUME TypeOK, Tickets, Records, NEW t \in Tasks, Run(t)
  PROVE  /\ Records'
         /\ Record(t) # None
         /\ places'[Place(t)] = Record(t)
         /\ locks'[t] = Record(t)
         /\ \A u \in Tasks \ {t} : locks'[u] = locks[u] /\ prior'[u] = prior[u]
         /\ prior'[t] = Tails(t, Record(t))
         /\ keys'[Record(t)] = TailsLeft(t, Record(t))
         /\ barrier'[Record(t)] = IF Exclusive(t) THEN t ELSE barrier[Record(t)]
         /\ places[Place(t)] = None =>
              keys[Record(t)] = NoTails /\ barrier[Record(t)] = Free
         /\ \A q \in Places \ {Place(t)} :
              /\ places'[q] = places[q]
              /\ places[q] # None => /\ keys'[places[q]] = keys[places[q]]
                                     /\ barrier'[places[q]] = barrier[places[q]]
<1> DEFINE r == Record(t)
           p == Place(t)
<1>1. r \in Tasks /\ r # None
  BY RunType, TasksAssumption
<1>2. p \in Places
  BY RequestType
<1>3. request' = request /\ \A u \in Tasks : Place(u)' = Place(u)
  BY DEF Run, Place
<1>4. places[p] = None => r = t
  BY DEF Record, Place
<1>5. places[p] # None => r = places[p]
  BY DEF Record, Place
<1>6. state[t] = "new" /\ keys[t] = NoTails /\ barrier[t] = Free
  BY DEF Run, Records
<1>7. Place(r) = p
  BY <1>2, <1>4, <1>5 DEF Records
<1>8. Arrived' = Arrived \cup {t} /\ t \notin Arrived
  BY RunTickets
<1>9. places' = [places EXCEPT ![p] = r]
  BY DEF Run, Place
<1>10. keys' = [keys EXCEPT ![r] = TailsLeft(t, r)]
       /\ barrier' = [barrier EXCEPT ![r] = IF Exclusive(t) THEN t ELSE @]
       /\ locks' = [locks EXCEPT ![t] = r]
       /\ prior' = [prior EXCEPT ![t] = Tails(t, r)]
  BY DEF Run
<1>11. \A q \in Places \ {p} : places[q] # None => places[q] \in Tasks /\ places[q] # r
  BY <1>7 DEF Records, Arrived
<1>12. r \in Arrived \cup {t}
  BY <1>2, <1>4, <1>5 DEF Records
<1>13. Records'
  <2>1. ASSUME NEW u \in Tasks, state'[u] = "new"
        PROVE  keys'[u] = NoTails /\ barrier'[u] = Free
    <3>1. u \notin Arrived'
      BY <2>1 DEF Arrived
    <3>2. u # r /\ u # t
      BY <3>1, <1>8, <1>12
    <3>3. state[u] = "new"
      BY <3>2, <2>1, RunTickets
    <3> HIDE DEF r
    <3> QED BY <3>2, <3>3, <1>10 DEF Records, TypeOK
  <2>2. ASSUME NEW q \in Places, places'[q] # None
        PROVE  places'[q] \in Arrived' /\ Place(places'[q]) = q
    <3>1. CASE q = p
      BY <3>1, <1>2, <1>7, <1>8, <1>9, <1>12 DEF TypeOK
    <3>2. CASE q # p
      BY <3>2, <2>2, <1>8, <1>9 DEF TypeOK, Records
    <3> QED BY <3>1, <3>2
  <2>3. ASSUME NEW u \in Arrived'
        PROVE  locks'[u] \in Arrived' /\ Place(locks'[u]) = Place(u)
    <3>1. CASE u = t
      BY <3>1, <1>7, <1>8, <1>10, <1>12 DEF TypeOK
    <3>2. CASE u # t
      <4>1. u \in Arrived /\ u \in Tasks
        BY <3>2, <2>3, <1>8 DEF Arrived
      <4>2. locks'[u] = locks[u]
        BY <4>1, <3>2, <1>10 DEF TypeOK
      <4> QED BY <4>1, <4>2, <1>8 DEF Records
    <3> QED BY <3>1, <3>2
  <2>4. \A u \in Arrived' : Place(u)' = Place(u)
    BY <1>3 DEF Place
  <2> QED BY <2>1, <2>2, <2>3, <1>3 DEF Records, Place
<1> HIDE DEF r, p
<1>14. places'[p] = r /\ \A q \in Places \ {p} : places'[q] = places[q]
  BY <1>2, <1>9 DEF TypeOK
<1>15. keys'[r] = TailsLeft(t, r) /\ barrier'[r] = IF Exclusive(t) THEN t ELSE barrier[r]
  BY <1>1, <1>10 DEF TypeOK
<1>16. locks'[t] = r /\ prior'[t] = Tails(t, r)
       /\ \A u \in Tasks \ {t} : locks'[u] = locks[u] /\ prior'[u] = prior[u]
  BY <1>10 DEF TypeOK
<1>17. \A q \in Places \ {p} : places[q] # None =>
         keys'[places[q]] = keys[places[q]] /\ barrier'[places[q]] = barrier[places[q]]
  BY <1>10, <1>11 DEF TypeOK
<1>18. places[p] = None => keys[r] = NoTails /\ barrier[r] = Free
  BY <1>4, <1>6
<1> QED BY <1>1, <1>13, <1>14, <1>15, <1>16, <1>17, <1>18 DEF r, p

\* What a task asks for never changes.
LEMMA SameRequests ==
  ASSUME request' = request
  PROVE  /\ \A u \in Tasks : Place(u)' = Place(u) /\ HeldKeys(u)' = HeldKeys(u)
                             /\ Exclusive(u)' = Exclusive(u)
         /\ \A u, v \in Tasks : Conflict(u, v)' = Conflict(u, v)
  BY DEF Place, HeldKeys, Exclusive, Conflict, Conflicts

\* Conflict in terms of places and keys.
LEMMA ConflictMeans ==
  ASSUME NEW a \in Tasks, NEW b \in Tasks
  PROVE  Conflict(a, b) <=>
           /\ Place(a) = Place(b)
           /\ Exclusive(a) \/ Exclusive(b) \/ HeldKeys(a) \cap HeldKeys(b) # {}
  BY DEF Conflict, Conflicts, Place, Exclusive, HeldKeys

LEMMA RunInv == ASSUME QueueInv, NEW t \in Tasks, Run(t)
                PROVE  QueueInv'
<1> DEFINE r == Record(t)
           p == Place(t)
<1>1. TypeOK /\ Tickets /\ Records
  BY DEF QueueInv
<1>2. TypeOK' /\ Tickets' /\ Records'
  BY <1>1, RunType, RunTickets, RunRecords
<1>3. /\ state[t] = "new" /\ state'[t] = "queued"
      /\ ready' = ready /\ request' = request
  BY <1>1 DEF Run, TypeOK
<1>4. MutualExclusion'
  BY <1>1, <1>3, RunTickets DEF QueueInv, MutualExclusion
<1>5. r \in Tasks /\ p \in Places /\ r # None
  BY <1>1, RunType, RequestType, RunRecords
<1>6. ASSUME ready
      PROVE  Tables' /\ Covered' /\ Waiting' /\ InOrder'
  <2>1. Tables /\ Covered /\ Waiting /\ InOrder
    BY <1>6 DEF QueueInv
  <2>2. \A c \in Arrived : c \in Tasks /\ c # t
    BY <1>3 DEF Arrived
  <2>3. \A u \in Tasks : Pending(u)' => u = t \/ (u # t /\ Pending(u))
    BY <1>1, RunTickets DEF Pending
  <2>4. /\ \A u \in Tasks : Place(u)' = Place(u) /\ HeldKeys(u)' = HeldKeys(u)
                            /\ Exclusive(u)' = Exclusive(u)
        /\ \A u, v \in Tasks : Conflict(u, v)' = Conflict(u, v)
    BY <1>3, SameRequests
  \* The record as t finds it.
  <2>5. /\ \A k \in DOMAIN keys[r] : keys[r][k] \in Arrived /\ Place(keys[r][k]) = p
                                     /\ k \in HeldKeys(keys[r][k])
        /\ barrier[r] # Free => barrier[r] \in Arrived /\ Place(barrier[r]) = p
                                /\ Exclusive(barrier[r])
    <3>1. CASE places[p] = None
      BY <3>1, <1>1, RunRecords DEF NoTails
    <3>2. CASE places[p] # None
      <4>1. r = places[p]
        BY <3>2 DEF Record, Place
      <4> HIDE DEF r, p
      <4> QED BY <3>2, <4>1, <1>5, <2>1 DEF Tables
    <3> QED BY <3>1, <3>2
  \* Every task pending at its place is covered by it.
  <2>6. \A a \in Tasks : Pending(a) /\ Place(a) = p => CoveredIn(a, r) /\ locks[a] = r
    <3> SUFFICES ASSUME NEW a \in Tasks, Pending(a), Place(a) = p
                 PROVE  CoveredIn(a, r) /\ locks[a] = r
      OBVIOUS
    <3>1. places[p] # None /\ locks[a] = places[p] /\ CoveredIn(a, places[p])
      BY <2>1 DEF Covered
    <3>2. r = places[p]
      BY <3>1 DEF Record, Place
    <3> HIDE DEF r, p
    <3> QED BY <3>1, <3>2
  <2>7. /\ places'[p] = r /\ locks'[t] = r
        /\ keys'[r] = TailsLeft(t, r)
        /\ barrier'[r] = IF Exclusive(t) THEN t ELSE barrier[r]
        /\ prior'[t] = Tails(t, r)
        /\ \A u \in Tasks \ {t} : locks'[u] = locks[u] /\ prior'[u] = prior[u]
        /\ \A q \in Places \ {p} :
             /\ places'[q] = places[q]
             /\ places[q] # None => /\ keys'[places[q]] = keys[places[q]]
                                    /\ barrier'[places[q]] = barrier[places[q]]
    BY <1>1, RunRecords
  <2>8. Arrived' = Arrived \cup {t}
    BY <1>1, RunTickets
  <2>9. \A u \in Tasks \ {t} : ticket'[u] = ticket[u] /\ ticket[u] \in Nat
                               /\ ticket'[u] < ticket'[t]
    BY <1>1, RunTickets
  <2>10. ticket'[t] \in Nat
    BY <1>1, RunTickets
  <2> HIDE DEF r, p
  <2>11. Tables'
    <3>1. ASSUME NEW q \in Places, places'[q] # None
          PROVE  /\ \A k \in DOMAIN keys'[places'[q]] :
                      LET c == keys'[places'[q]][k]
                      IN  c \in Arrived' /\ Place(c) = q /\ k \in HeldKeys(c)
                 /\ barrier'[places'[q]] # Free =>
                      LET c == barrier'[places'[q]]
                      IN  c \in Arrived' /\ Place(c) = q /\ Exclusive(c)
      <4>1. CASE q # p
        BY <4>1, <3>1, <2>1, <2>7, <2>8 DEF Tables
      <4>2. CASE q = p
        <5>1. CASE Exclusive(t)
          BY <4>2, <5>1, <2>7, <2>8 DEF TailsLeft, NoTails, p
        <5>2. CASE ~Exclusive(t)
          <6>1. \A k \in DOMAIN keys'[r] : keys'[r][k] = IF k \in HeldKeys(t) THEN t ELSE keys[r][k]
            BY <5>2, <2>7 DEF TailsLeft
          <6>2. \A k \in DOMAIN keys'[r] : k \in HeldKeys(t) \/ k \in DOMAIN keys[r]
            BY <5>2, <2>7 DEF TailsLeft
          <6> QED BY <4>2, <5>2, <6>1, <6>2, <2>5, <2>7, <2>8 DEF p
        <5> QED BY <5>1, <5>2
      <4> QED BY <4>1, <4>2
    <3>2. \A c \in Arrived' : Place(c)' = Place(c) /\ HeldKeys(c)' = HeldKeys(c)
                              /\ Exclusive(c)' = Exclusive(c)
      BY <2>2, <2>4, <2>8
    <3> QED BY <3>1, <3>2 DEF Tables
  <2>12. Covered'
    <3> SUFFICES ASSUME NEW a \in Tasks, Pending(a)'
                 PROVE  /\ places'[Place(a)] # None
                        /\ locks'[a] = places'[Place(a)]
                        /\ CoveredIn(a, places[Place(a)])'
      BY <2>4 DEF Covered
    <3>1. CASE a = t
      <4>1. \/ /\ barrier'[r] # Free
               /\ ticket'[barrier'[r]] >= ticket'[t]
            \/ /\ ~Exclusive(t)
               /\ \A k \in HeldKeys(t) :
                    k \in DOMAIN keys'[r] /\ ticket'[keys'[r][k]] >= ticket'[t]
        <5>1. CASE Exclusive(t)
          BY <5>1, <2>7, <2>10, TasksAssumption
        <5>2. CASE ~Exclusive(t)
          BY <5>2, <2>7, <2>10 DEF TailsLeft
        <5> QED BY <5>1, <5>2
      <4>2. Place(t) = p /\ places'[Place(t)'] = r
        BY <2>4, <2>7 DEF p
      <4> QED BY <3>1, <4>1, <4>2, <2>4, <2>7, <1>5 DEF CoveredIn
    <3>2. CASE a # t /\ Place(a) = p
      <4>1. Pending(a)
        BY <3>2, <2>3
      <4>2. CoveredIn(a, r) /\ locks[a] = r
        BY <3>2, <4>1, <2>6
      <4>3. \A c \in Arrived : ticket'[c] = ticket[c]
        BY <2>2, <2>9
      <4>4. ticket'[a] = ticket[a] /\ ticket[a] \in Nat /\ ticket'[t] >= ticket[a]
        BY <3>2, <2>9, <2>10
      <4>5. \/ /\ barrier'[r] # Free
               /\ ticket'[barrier'[r]] >= ticket'[a]
            \/ /\ ~Exclusive(a)
               /\ \A k \in HeldKeys(a) :
                    k \in DOMAIN keys'[r] /\ ticket'[keys'[r][k]] >= ticket'[a]
        <5>1. CASE Exclusive(t)
          BY <5>1, <4>4, <2>7, TasksAssumption
        <5>2. CASE ~Exclusive(t)
          <6>1. CASE barrier[r] # Free /\ ticket[barrier[r]] >= ticket[a]
            BY <6>1, <5>2, <4>3, <4>4, <2>5, <2>7
          <6>2. CASE /\ ~Exclusive(a)
                     /\ \A k \in HeldKeys(a) :
                          k \in DOMAIN keys[r] /\ ticket[keys[r][k]] >= ticket[a]
            <7>1. \A k \in HeldKeys(a) :
                    k \in DOMAIN keys'[r] /\ ticket'[keys'[r][k]] >= ticket'[a]
              BY <6>2, <5>2, <4>3, <4>4, <2>5, <2>7 DEF TailsLeft
            <7> QED BY <6>2, <7>1
          <6> QED BY <6>1, <6>2, <4>2 DEF CoveredIn
        <5> QED BY <5>1, <5>2
      <4>6. places'[Place(a)'] = r
        BY <3>2, <2>4, <2>7
      <4> QED BY <3>2, <4>2, <4>5, <4>6, <2>4, <2>7, <1>5 DEF CoveredIn
    <3>3. CASE a # t /\ Place(a) # p
      <4>1. Pending(a)
        BY <3>3, <2>3
      <4>2. PICK q \in Places : q = Place(a)
        BY <1>1, RequestType
      <4>3. places[q] # None /\ locks[a] = places[q] /\ CoveredIn(a, places[q])
        BY <4>1, <4>2, <2>1 DEF Covered
      <4>4. places'[q] = places[q] /\ keys'[places[q]] = keys[places[q]]
            /\ barrier'[places[q]] = barrier[places[q]]
        BY <3>3, <4>2, <4>3, <2>7
      <4>5. \A c \in Arrived : ticket'[c] = ticket[c]
        BY <2>2, <2>9
      <4>6. ticket'[a] = ticket[a]
        BY <3>3, <2>9
      <4>7. /\ barrier[places[q]] # Free => barrier[places[q]] \in Arrived
            /\ \A k \in DOMAIN keys[places[q]] : keys[places[q]][k] \in Arrived
        BY <4>3, <2>1 DEF Tables
      <4>8. Place(a)' = q
        BY <4>2, <2>4
      <4>9. \/ /\ barrier'[places'[q]] # Free
               /\ ticket'[barrier'[places'[q]]] >= ticket'[a]
            \/ /\ ~Exclusive(a)
               /\ \A k \in HeldKeys(a) : /\ k \in DOMAIN keys'[places'[q]]
                                         /\ ticket'[keys'[places'[q]][k]] >= ticket'[a]
        BY <4>3, <4>4, <4>5, <4>6, <4>7 DEF CoveredIn
      <4>10. locks'[a] = locks[a]
        BY <3>3, <2>7
      <4> QED BY <4>2, <4>3, <4>4, <4>8, <4>9, <4>10, <2>4 DEF CoveredIn
    <3> QED BY <3>1, <3>2, <3>3
  <2>13. Waiting'
    <3> SUFFICES ASSUME NEW a \in Tasks, NEW b \in Tasks, Pending(a)', Behind(a, b)'
                 PROVE  \E c \in prior'[b] \cap Tasks : c = a \/ Behind(a, c)'
      BY DEF Waiting
    <3>1. ticket'[a] < ticket'[b] /\ Conflict(a, b)
      BY <2>4 DEF Behind
    <3>2. a # t
      BY <3>1, <2>9, <2>10
    <3>3. Pending(a) /\ a \in Arrived
      BY <3>2, <2>3 DEF Pending, Arrived
    <3>4. CASE b # t
      <4>1. Behind(a, b)
        BY <3>1, <3>2, <3>4, <2>9 DEF Behind
      <4>2. PICK c \in prior[b] \cap Tasks : c = a \/ Behind(a, c)
        BY <3>3, <4>1, <2>1 DEF Waiting
      <4>3. c = a \/ Behind(a, c)'
        <5>1. CASE c = t
          <6>1. ticket[t] = 0
            BY <1>1, <1>3 DEF Tickets
          <6> QED BY <4>2, <5>1, <6>1, <3>2, <2>9 DEF Behind
        <5>2. CASE c # t
          BY <4>2, <5>2, <3>2, <2>4, <2>9 DEF Behind
        <5> QED BY <5>1, <5>2
      <4> QED BY <4>2, <4>3, <3>4, <2>7
    <3>5. CASE b = t
      <4>1. Place(a) = p
        BY <3>1, <3>5, ConflictMeans DEF p
      <4>2. CoveredIn(a, r)
        BY <4>1, <3>3, <2>6
      <4>3. SUFFICES \E c \in Tails(t, r) \cap Arrived : ticket[c] >= ticket[a] /\ Conflict(a, c)
        <5>1. PICK c \in Tails(t, r) \cap Arrived : ticket[c] >= ticket[a] /\ Conflict(a, c)
          BY <4>3
        <5>2. c \in Tasks /\ c # t
          BY <5>1, <2>2
        <5>3. c = a \/ ticket[c] > ticket[a]
          BY <5>1, <5>2, <3>2, <3>3, <1>1, <2>9 DEF Tickets
        <5>4. c = a \/ Behind(a, c)'
          BY <5>1, <5>2, <5>3, <3>2, <2>4, <2>9 DEF Behind
        <5> QED BY <5>1, <5>2, <5>4, <3>5, <2>7
      <4>4. CASE barrier[r] # Free /\ ticket[barrier[r]] >= ticket[a]
        <5>1. barrier[r] \in Tails(t, r)
          BY DEF Tails
        <5>2. Conflict(a, barrier[r])
          BY <4>1, <4>4, <2>2, <2>5, ConflictMeans
        <5> QED BY <4>4, <5>1, <5>2, <2>5
      <4>5. CASE /\ ~Exclusive(a)
                 /\ \A k \in HeldKeys(a) :
                      k \in DOMAIN keys[r] /\ ticket[keys[r][k]] >= ticket[a]
        <5>1. PICK k \in HeldKeys(a) : Exclusive(t) \/ k \in HeldKeys(t)
          BY <4>5, <3>1, <3>5, ConflictMeans DEF Exclusive, HeldKeys, AllKeys
        <5>2. keys[r][k] \in Tails(t, r)
          BY <4>5, <5>1 DEF Tails
        <5>3. Conflict(a, keys[r][k])
          BY <4>1, <4>5, <5>1, <2>2, <2>5, ConflictMeans
        <5> QED BY <4>5, <5>1, <5>2, <5>3, <2>5
      <4> QED BY <4>2, <4>4, <4>5 DEF CoveredIn
    <3> QED BY <3>4, <3>5
  <2>14. InOrder'
    <3> SUFFICES ASSUME NEW a \in Tasks, NEW b \in Tasks, Pending(a)', Behind(a, b)'
                 PROVE  state'[b] = "queued"
      BY DEF InOrder
    <3>1. ticket'[a] < ticket'[b] /\ Conflict(a, b)
      BY <2>4 DEF Behind
    <3>2. a # t
      BY <3>1, <2>9, <2>10
    <3>3. Pending(a)
      BY <3>2, <2>3
    <3>4. CASE b = t
      BY <3>4, <1>3
    <3>5. CASE b # t
      <4>1. Behind(a, b)
        BY <3>1, <3>2, <3>5, <2>9 DEF Behind
      <4>2. state[b] = "queued"
        BY <3>3, <4>1, <2>1 DEF InOrder
      <4> QED BY <4>2, <3>5, <1>1, RunTickets
    <3> QED BY <3>4, <3>5
  <2> QED BY <2>11, <2>12, <2>13, <2>14
<1> QED BY <1>2, <1>3, <1>4, <1>6 DEF QueueInv

-----------------------------------------------------------------------------
(* The other steps start no wait and shrink what is pending. *)

LEMMA ShrinkInv ==
  ASSUME QueueInv,
         UNCHANGED <<request, ticket, prior, locks>>,
         state' \in [Tasks -> {"new", "queued", "running", "settled", "released"}],
         \A u \in Tasks : state'[u] = "new" <=> state[u] = "new",
         \A u \in Tasks : Pending(u)' => Pending(u)
  PROVE  /\ Arrived' = Arrived
         /\ Tickets'
         /\ ready => Waiting'
         /\ \A a, b \in Tasks : Behind(a, b)' = Behind(a, b)
<1>1. Arrived' = Arrived
  BY DEF Arrived
<1>2. Tickets'
  BY <1>1 DEF QueueInv, Tickets
<1>3. \A a, b \in Tasks : Behind(a, b)' = Behind(a, b)
  BY DEF Behind, Conflict
<1>4. ready => Waiting'
  BY <1>3 DEF QueueInv, Waiting
<1> QED BY <1>1, <1>2, <1>3, <1>4

\* When everything a task awaits has settled, nothing it is behind is pending.
LEMMA ItIsItsTurn ==
  ASSUME QueueInv, ready, NEW t \in Tasks, \A u \in prior[t] \ {Free} : ~Pending(u),
         NEW a \in Tasks, Pending(a)
  PROVE  ~Behind(a, t)
<1> SUFFICES ASSUME Behind(a, t) PROVE FALSE
  OBVIOUS
<1>1. PICK c \in prior[t] \cap Tasks : c = a \/ Behind(a, c)
  BY DEF QueueInv, Waiting
<1>2. ~Pending(c)
  BY <1>1, TasksAssumption
<1>3. Behind(a, c) => state[c] = "queued"
  BY <1>1 DEF QueueInv, InOrder
<1> QED BY <1>1, <1>2, <1>3 DEF Pending

LEMMA StartInv == ASSUME QueueInv, NEW t \in Tasks, Start(t)
                  PROVE  QueueInv'
<1>1. /\ state[t] = "queued"
      /\ UNCHANGED <<ready, request, ticket, prior, places, locks, keys, barrier>>
      /\ state' = [state EXCEPT ![t] = IF ready THEN "running" ELSE "settled"]
  BY DEF Start
<1>2. TypeOK /\ TypeOK'
  BY <1>1 DEF QueueInv, TypeOK
<1>3. \A u \in Tasks \ {t} : state'[u] = state[u]
  BY <1>1, <1>2 DEF TypeOK
<1>4. state'[t] = IF ready THEN "running" ELSE "settled"
  BY <1>1, <1>2 DEF TypeOK
<1>5. \A u \in Tasks : /\ state'[u] = "new" <=> state[u] = "new"
                       /\ Pending(u)' => Pending(u)
  BY <1>1, <1>3, <1>4 DEF Pending
<1>6. state' \in [Tasks -> {"new", "queued", "running", "settled", "released"}]
  BY <1>2 DEF TypeOK
<1>7. /\ Arrived' = Arrived
      /\ Tickets'
      /\ ready => Waiting'
      /\ \A a, b \in Tasks : Behind(a, b)' = Behind(a, b)
  BY <1>1, <1>5, <1>6, ShrinkInv
<1>8. Records'
  BY <1>1, <1>5, <1>7 DEF QueueInv, Records, Place
<1>9. ready => \A a \in Tasks : Pending(a) => ~Behind(a, t)
  BY ItIsItsTurn DEF Start
<1>10. ready => Tables' /\ Covered' /\ InOrder'
  <2> SUFFICES ASSUME ready PROVE Tables' /\ Covered' /\ InOrder'
    OBVIOUS
  <2>1. Tables'
    BY <1>1, <1>7 DEF QueueInv, Tables, Place, HeldKeys, Exclusive
  <2>2. Covered'
    BY <1>1, <1>5 DEF QueueInv, Covered, CoveredIn, Place, HeldKeys, Exclusive
  <2>3. InOrder'
    <3> SUFFICES ASSUME NEW a \in Tasks, NEW b \in Tasks, Pending(a)', Behind(a, b)'
                 PROVE  state'[b] = "queued"
      BY DEF InOrder
    <3>1. Pending(a) /\ Behind(a, b)
      BY <1>5, <1>7
    <3>2. state[b] = "queued" /\ b # t
      BY <3>1, <1>9 DEF QueueInv, InOrder
    <3> QED BY <3>2, <1>3
  <2> QED BY <2>1, <2>2, <2>3
<1>11. MutualExclusion'
  <2> SUFFICES ASSUME NEW u \in Tasks, NEW v \in Tasks, u # v,
                      state'[u] = "running", state'[v] = "running", Conflict(u, v)
               PROVE  FALSE
    BY <1>1 DEF MutualExclusion, Conflict
  <2>1. CASE u # t /\ v # t
    BY <2>1, <1>3 DEF QueueInv, MutualExclusion, Conflict
  <2>2. ASSUME NEW w \in Tasks, w # t, state'[w] = "running", Conflict(w, t), ready
        PROVE  FALSE
    <3>1. state[w] = "running" /\ Pending(w) /\ w \in Arrived /\ t \in Arrived
      BY <2>2, <1>1, <1>3 DEF Pending, Arrived
    <3>2. ticket[w] # ticket[t] /\ ticket[w] \in Nat /\ ticket[t] \in Nat
      BY <3>1, <2>2, <1>2 DEF QueueInv, Tickets, TypeOK
    <3>3. Conflict(t, w)
      BY <2>2 DEF Conflict, Conflicts
    <3>4. Behind(w, t) \/ Behind(t, w)
      BY <3>2, <3>3, <2>2 DEF Behind
    <3>5. ~Behind(w, t)
      BY <3>1, <2>2, <1>9
    <3>6. ~Behind(t, w)
      BY <3>1, <2>2, <1>1 DEF QueueInv, InOrder, Pending
    <3> QED BY <3>4, <3>5, <3>6
  <2>3. Conflict(v, u)
    BY DEF Conflict, Conflicts
  <2> QED BY <2>1, <2>2, <2>3, <1>4
<1> QED BY <1>1, <1>2, <1>7, <1>8, <1>10, <1>11 DEF QueueInv

LEMMA SettleInv == ASSUME QueueInv, NEW t \in Tasks, Settle(t)
                   PROVE  QueueInv'
<1>1. /\ state[t] = "running"
      /\ UNCHANGED <<ready, request, ticket, prior, places, locks, keys, barrier>>
      /\ state' = [state EXCEPT ![t] = "settled"]
  BY DEF Settle
<1>2. TypeOK /\ TypeOK'
  BY <1>1 DEF QueueInv, TypeOK
<1>3. state'[t] = "settled" /\ \A u \in Tasks \ {t} : state'[u] = state[u]
  BY <1>1, <1>2 DEF TypeOK
<1>4. \A u \in Tasks : /\ state'[u] = "new" <=> state[u] = "new"
                       /\ Pending(u)' => Pending(u)
  BY <1>1, <1>3 DEF Pending
<1>5. state' \in [Tasks -> {"new", "queued", "running", "settled", "released"}]
  BY <1>2 DEF TypeOK
<1>6. /\ Arrived' = Arrived
      /\ Tickets'
      /\ ready => Waiting'
      /\ \A a, b \in Tasks : Behind(a, b)' = Behind(a, b)
  BY <1>1, <1>4, <1>5, ShrinkInv
<1>7. Records'
  BY <1>1, <1>4, <1>6 DEF QueueInv, Records, Place
<1>8. ready => Tables'
  BY <1>1, <1>6 DEF QueueInv, Tables, Place, HeldKeys, Exclusive
<1>9. ready => Covered'
  BY <1>1, <1>4 DEF QueueInv, Covered, CoveredIn, Place, HeldKeys, Exclusive
<1>10. ready => InOrder'
  BY <1>1, <1>3, <1>4, <1>6 DEF QueueInv, InOrder
<1>11. MutualExclusion'
  BY <1>1, <1>3 DEF QueueInv, MutualExclusion
<1> QED BY <1>1, <1>2, <1>6, <1>7, <1>8, <1>9, <1>10, <1>11 DEF QueueInv

LEMMA CloseInv == ASSUME QueueInv, Close
                  PROVE  QueueInv'
<1>1. /\ ~ready'
      /\ UNCHANGED <<state, request, ticket, prior, locks, keys, barrier>>
      /\ places' = [p \in Places |-> None]
  BY DEF Close
<1>2. TypeOK'
  BY <1>1 DEF QueueInv, TypeOK, Close
<1>3. Arrived' = Arrived
  BY <1>1 DEF Arrived
<1>4. Tickets'
  BY <1>1, <1>3 DEF QueueInv, Tickets
<1>5. Records'
  BY <1>1, <1>3 DEF QueueInv, Records, Place
<1>6. MutualExclusion'
  BY <1>1 DEF QueueInv, MutualExclusion
<1> QED BY <1>1, <1>2, <1>4, <1>5, <1>6 DEF QueueInv

-----------------------------------------------------------------------------
(* Releasing the locks of a task that is over. *)

LEMMA TailsKeptMeans ==
  ASSUME TypeOK, NEW t \in Tasks, NEW r \in Tasks
  PROVE  /\ TailsKept(t, r) \in UNION {[D -> Tasks] : D \in SUBSET Keys}
         /\ DOMAIN TailsKept(t, r) \subseteq DOMAIN keys[r]
         /\ \A k \in DOMAIN TailsKept(t, r) : TailsKept(t, r)[k] = keys[r][k]
         /\ \A k \in DOMAIN keys[r] : keys[r][k] # t => k \in DOMAIN TailsKept(t, r)
<1>1. TailsKept(t, r) =
        [k \in {j \in DOMAIN keys[r] : j \in HeldKeys(t) => keys[r][j] # t} |-> keys[r][k]]
  BY DEF TailsKept, Restrict
<1>2. /\ DOMAIN keys[r] \subseteq Keys
      /\ \A k \in DOMAIN keys[r] : keys[r][k] \in Tasks
  BY TableType
<1>3. /\ DOMAIN TailsKept(t, r) \subseteq DOMAIN keys[r]
      /\ \A k \in DOMAIN TailsKept(t, r) : TailsKept(t, r)[k] = keys[r][k]
      /\ \A k \in DOMAIN keys[r] : keys[r][k] # t => k \in DOMAIN TailsKept(t, r)
  BY <1>1
<1>4. /\ DOMAIN TailsKept(t, r) \in SUBSET Keys
      /\ TailsKept(t, r) \in [DOMAIN TailsKept(t, r) -> Tasks]
  BY <1>1, <1>2
<1> QED BY <1>3, <1>4, IsTable

LEMMA ReleaseInv == ASSUME QueueInv, NEW t \in Tasks, Release(t)
                    PROVE  QueueInv'
<1> DEFINE r == locks[t]
           p == Place(t)
<1>1. TypeOK /\ Tickets /\ Records
  BY DEF QueueInv
<1>2. /\ state[t] = "settled"
      /\ UNCHANGED <<ready, request, ticket, prior, locks>>
      /\ state' = [state EXCEPT ![t] = "released"]
      /\ keys' = [keys EXCEPT ![r] = TailsKept(t, r)]
      /\ barrier' = [barrier EXCEPT ![r] = BarrierKept(t, r)]
      /\ places' = [places EXCEPT ![p] =
              IF @ = r /\ DOMAIN TailsKept(t, r) = {} /\ BarrierKept(t, r) = Free
              THEN None ELSE @]
  BY DEF Release, Place
<1>3. p \in Places
  BY <1>1, RequestType
<1>4. t \in Arrived /\ r \in Arrived /\ r \in Tasks /\ Place(r) = p
  BY <1>1, <1>2 DEF Records, Arrived
<1>5. /\ TailsKept(t, r) \in UNION {[D -> Tasks] : D \in SUBSET Keys}
      /\ DOMAIN TailsKept(t, r) \subseteq DOMAIN keys[r]
      /\ \A k \in DOMAIN TailsKept(t, r) : TailsKept(t, r)[k] = keys[r][k]
      /\ \A k \in DOMAIN keys[r] : keys[r][k] # t => k \in DOMAIN TailsKept(t, r)
  BY <1>1, <1>4, TailsKeptMeans
<1>6. /\ BarrierKept(t, r) \in {barrier[r], Free}
      /\ barrier[r] # t => BarrierKept(t, r) = barrier[r]
  BY DEF BarrierKept
<1>7. TypeOK'
  BY <1>1, <1>2, <1>4, <1>5, <1>6 DEF TypeOK
<1>8. state'[t] = "released" /\ \A u \in Tasks \ {t} : state'[u] = state[u]
  BY <1>1, <1>2 DEF TypeOK
<1>9. \A u \in Tasks : /\ state'[u] = "new" <=> state[u] = "new"
                       /\ Pending(u)' => Pending(u)
  BY <1>2, <1>8 DEF Pending
<1>10. state' \in [Tasks -> {"new", "queued", "running", "settled", "released"}]
  BY <1>7 DEF TypeOK
<1>11. /\ Arrived' = Arrived
       /\ Tickets'
       /\ ready => Waiting'
       /\ \A a, b \in Tasks : Behind(a, b)' = Behind(a, b)
  BY <1>2, <1>9, <1>10, ShrinkInv
<1> HIDE DEF r, p
<1>12. /\ keys'[r] = TailsKept(t, r)
       /\ barrier'[r] = BarrierKept(t, r)
       /\ \A s \in Tasks \ {r} : keys'[s] = keys[s] /\ barrier'[s] = barrier[s]
  BY <1>1, <1>2, <1>4 DEF TypeOK
<1>13. /\ \A q \in Places : places'[q] # None => places'[q] = places[q]
       /\ \A q \in Places : places[q] # r => places'[q] = places[q]
       /\ DOMAIN TailsKept(t, r) # {} \/ BarrierKept(t, r) # Free => places' = places
  BY <1>1, <1>2, <1>3 DEF TypeOK
<1>14. Records'
  <2>1. \A u \in Tasks : state'[u] = "new" => keys'[u] = NoTails /\ barrier'[u] = Free
    BY <1>1, <1>4, <1>9, <1>12 DEF Records, Arrived
  <2>2. \A q \in Places : places'[q] # None => places'[q] \in Arrived' /\ Place(places'[q]) = q
    BY <1>1, <1>11, <1>13 DEF Records
  <2> QED BY <2>1, <2>2, <1>1, <1>2, <1>11 DEF Records, Place
<1>15. ready => Tables' /\ Covered' /\ InOrder'
  <2> SUFFICES ASSUME ready PROVE Tables' /\ Covered' /\ InOrder'
    OBVIOUS
  <2>1. Tables /\ Covered /\ InOrder
    BY DEF QueueInv
  <2>2. Tables'
    <3>1. ASSUME NEW q \in Places, places'[q] # None
          PROVE  /\ \A k \in DOMAIN keys'[places'[q]] :
                      LET c == keys'[places'[q]][k]
                      IN  c \in Arrived /\ Place(c) = q /\ k \in HeldKeys(c)
                 /\ barrier'[places'[q]] # Free =>
                      LET c == barrier'[places'[q]]
                      IN  c \in Arrived /\ Place(c) = q /\ Exclusive(c)
      <4>1. places'[q] = places[q] /\ places[q] # None /\ places[q] \in Tasks
        BY <3>1, <1>1, <1>13 DEF Records, Arrived
      <4>2. CASE places[q] = r
        BY <4>1, <4>2, <2>1, <1>5, <1>6, <1>12 DEF Tables
      <4>3. CASE places[q] # r
        BY <4>1, <4>3, <2>1, <1>12 DEF Tables
      <4> QED BY <4>2, <4>3
    <3>2. \A c \in Tasks : /\ Place(c)' = Place(c) /\ HeldKeys(c)' = HeldKeys(c)
                           /\ Exclusive(c)' = Exclusive(c)
      BY <1>2 DEF Place, HeldKeys, Exclusive
    <3>3. \A c \in Arrived : c \in Tasks
      BY DEF Arrived
    <3> QED BY <3>1, <3>2, <3>3, <1>11 DEF Tables
  \* No pending task has t as the tail that stands for it.
  <2>3. \A a \in Tasks : Pending(a) => ~Behind(a, t)
    BY <2>1, <1>2 DEF InOrder
  <2>4. Covered'
    <3> SUFFICES ASSUME NEW a \in Tasks, Pending(a)
                 PROVE  /\ places'[Place(a)] # None
                        /\ locks'[a] = places'[Place(a)]
                        /\ \/ /\ barrier'[places'[Place(a)]] # Free
                              /\ ticket[barrier'[places'[Place(a)]]] >= ticket[a]
                           \/ /\ ~Exclusive(a)
                              /\ \A k \in HeldKeys(a) :
                                   /\ k \in DOMAIN keys'[places'[Place(a)]]
                                   /\ ticket[keys'[places'[Place(a)]][k]] >= ticket[a]
      BY ZenonT(30), <1>2, <1>9 DEF Covered, CoveredIn, Place, HeldKeys, Exclusive
    <3>1. PICK q \in Places : q = Place(a)
      BY <1>1, RequestType
    <3>2. places[q] # None /\ locks[a] = places[q] /\ CoveredIn(a, places[q])
      BY <3>1, <2>1 DEF Covered
    <3>3. places[q] \in Tasks
      BY <3>2, <1>1 DEF TypeOK
    <3>4. CASE places[q] # r
      <4>1. places'[q] = places[q] /\ keys'[places[q]] = keys[places[q]]
            /\ barrier'[places[q]] = barrier[places[q]] /\ locks' = locks
        BY <3>3, <3>4, <1>2, <1>12, <1>13
      <4> QED BY <3>1, <3>2, <4>1 DEF CoveredIn
    <3>5. CASE places[q] = r
      <4>1. q = p
        BY <3>2, <3>5, <1>1, <1>4 DEF Records
      <4>2. a # t /\ a \in Arrived
        BY <1>2 DEF Pending, Arrived
      <4>3. ticket[a] # ticket[t] /\ ticket[a] \in Nat /\ ticket[t] \in Nat
        BY <4>2, <1>1, <1>4 DEF Tickets, TypeOK
      <4>4. ~(ticket[t] >= ticket[a] /\ Conflict(a, t))
        BY <4>3, <2>3 DEF Behind
      <4>5. /\ \A k \in DOMAIN keys[r] : k \in HeldKeys(keys[r][k])
            /\ barrier[r] # Free => Exclusive(barrier[r])
        BY <3>2, <3>5, <2>1 DEF Tables
      <4>6. Conflict(a, t) <=> \/ Exclusive(a) \/ Exclusive(t)
                               \/ HeldKeys(a) \cap HeldKeys(t) # {}
        BY <3>1, <4>1, ConflictMeans DEF p
      <4>7. CASE barrier[r] # Free /\ ticket[barrier[r]] >= ticket[a]
        <5>1. barrier[r] # t
          BY <4>4, <4>5, <4>6, <4>7
        <5>2. BarrierKept(t, r) = barrier[r]
          BY <5>1, <1>6
        <5> QED BY <3>1, <3>2, <3>5, <4>7, <5>2, <1>2, <1>12, <1>13
      <4>8. CASE /\ ~Exclusive(a)
                 /\ \A k \in HeldKeys(a) :
                      k \in DOMAIN keys[r] /\ ticket[keys[r][k]] >= ticket[a]
        <5>1. \A k \in HeldKeys(a) : keys[r][k] # t
          BY <4>4, <4>5, <4>6, <4>8
        <5>2. \A k \in HeldKeys(a) :
                k \in DOMAIN TailsKept(t, r) /\ TailsKept(t, r)[k] = keys[r][k]
          BY <4>8, <5>1, <1>5
        <5>3. HeldKeys(a) # {}
          BY <4>8 DEF HeldKeys, Exclusive, AllKeys
        <5>4. places' = places /\ locks' = locks
          BY <5>2, <5>3, <1>2, <1>13
        <5>5. \A k \in HeldKeys(a) :
                k \in DOMAIN keys'[r] /\ ticket[keys'[r][k]] >= ticket[a]
          BY <4>8, <5>2, <1>12
        <5> QED BY <3>1, <3>2, <3>5, <4>8, <5>4, <5>5
      <4> QED BY <3>2, <3>5, <4>7, <4>8 DEF CoveredIn
    <3> QED BY <3>4, <3>5
  <2>5. InOrder'
    BY <2>1, <1>2, <1>8, <1>9, <1>11 DEF InOrder
  <2> QED BY <2>2, <2>4, <2>5
<1>16. MutualExclusion'
  BY <1>2, <1>8 DEF QueueInv, MutualExclusion
<1> QED BY <1>2, <1>7, <1>11, <1>14, <1>15, <1>16 DEF QueueInv

-----------------------------------------------------------------------------
\* The invariant is inductive: whatever is accepted, started, finished and
\* released in whatever order, tails keep standing for what is pending.
THEOREM QueueInductive == Spec => []QueueInv
<1>1. Init => QueueInv
  BY InitInv
<1>2. QueueInv /\ [Next]_vars => QueueInv'
  <2> SUFFICES ASSUME QueueInv, [Next]_vars PROVE QueueInv'
    OBVIOUS
  <2>1. ASSUME NEW t \in Tasks, Run(t) PROVE QueueInv'
    BY <2>1, RunInv
  <2>2. ASSUME NEW t \in Tasks, Start(t) PROVE QueueInv'
    BY <2>2, StartInv
  <2>3. ASSUME NEW t \in Tasks, Settle(t) PROVE QueueInv'
    BY <2>3, SettleInv
  <2>4. ASSUME NEW t \in Tasks, Release(t) PROVE QueueInv'
    BY <2>4, ReleaseInv
  <2>5. CASE Close
    BY <2>5, CloseInv
  <2>6. CASE UNCHANGED vars
    BY <2>6 DEF vars, QueueInv, TypeOK, Tickets, Records, Tables, Covered, CoveredIn,
                Waiting, InOrder, MutualExclusion, Behind, Conflict, Place, Pending,
                Arrived, HeldKeys, Exclusive
  <2> QED BY <2>1, <2>2, <2>3, <2>4, <2>5, <2>6 DEF Next
<1> QED BY <1>1, <1>2, PTL DEF Spec

\* A record holds tails of tasks only, and every task is in one of the states of
\* run(), with the tails it awaits.
THEOREM QueueTyped == Spec => []TypeOK
<1>1. QueueInv => TypeOK
  BY DEF QueueInv
<1> QED BY <1>1, QueueInductive, PTL

\* Two mutations that touch the same key, or one of which takes the barrier of the
\* other's place, never run at the same time.
THEOREM ConflictsExclude == Spec => []MutualExclusion
<1>1. QueueInv => MutualExclusion
  BY DEF QueueInv
<1> QED BY <1>1, QueueInductive, PTL

-----------------------------------------------------------------------------
(* Records are dropped in time. *)

\* c is not over, and its release will be a release of record r of place p.
Holds(c, p, r) ==
  c \in Tasks /\ state[c] \notin {"new", "released"} /\ Place(c) = p /\ locks[c] = r

\* Record r has a tail, and each of its tails is held by a task that is not over.
HeldIn(p, r) ==
  /\ DOMAIN keys[r] # {} \/ barrier[r] # Free
  /\ \A k \in DOMAIN keys[r] : \A c \in Tasks :
       keys[r][k] = c => Holds(c, p, r) /\ k \in HeldKeys(c)
  /\ \A c \in Tasks : barrier[r] = c => Holds(c, p, r)

HeldInv == \A p \in Places, r \in Tasks : places[p] = r => HeldIn(p, r)

LEMMA RunHeld == ASSUME QueueInv, HeldInv, NEW t \in Tasks, Run(t) PROVE HeldInv'
<1>1. TypeOK /\ Records
  BY DEF QueueInv
<1>2. Place(t) \in Places /\ HeldKeys(t) = request[t][2]
  BY <1>1, RequestType
<1>3. Record(t) \in Tasks /\ Place(Record(t)) = Place(t)
  BY <1>1, <1>2 DEF Record, Records, Place, Arrived
<1>4. PICK p \in Places, r \in Tasks : p = Place(t) /\ r = Record(t)
  BY <1>2, <1>3
<1>5. /\ state[t] = "new" /\ UNCHANGED request
      /\ state' = [state EXCEPT ![t] = "queued"]
      /\ locks' = [locks EXCEPT ![t] = r]
      /\ places' = [places EXCEPT ![p] = r]
      /\ keys' = [keys EXCEPT ![r] = TailsLeft(t, r)]
      /\ barrier' = [barrier EXCEPT ![r] = IF Exclusive(t) THEN t ELSE @]
  BY <1>4 DEF Run, Place
<1>6. Place(r) = p /\ (places[p] = None => r = t) /\ (places[p] # None => r = places[p])
  BY <1>3, <1>4 DEF Record, Place
<1>7. /\ state'[t] = "queued" /\ locks'[t] = r
      /\ \A u \in Tasks \ {t} : state'[u] = state[u] /\ locks'[u] = locks[u]
      /\ places'[p] = r /\ \A q \in Places \ {p} : places'[q] = places[q]
      /\ keys'[r] = TailsLeft(t, r) /\ \A s \in Tasks \ {r} : keys'[s] = keys[s]
      /\ barrier'[r] = (IF Exclusive(t) THEN t ELSE barrier[r])
      /\ \A s \in Tasks \ {r} : barrier'[s] = barrier[s]
  BY <1>1, <1>5 DEF TypeOK
<1>8. ASSUME NEW c \in Tasks
      PROVE  Place(c)' = Place(c) /\ HeldKeys(c)' = HeldKeys(c)
  BY <1>5 DEF Place, HeldKeys, Exclusive
<1>9. ASSUME NEW c \in Tasks, NEW q \in Places, NEW s \in Tasks, Holds(c, q, s)
      PROVE  Holds(c, q, s)'
  <2>1. c # t
    BY <1>5, <1>9 DEF Holds
  <2> QED BY <2>1, <1>7, <1>8, <1>9 DEF Holds
<1>10. Holds(t, p, r)'
  BY <1>4, <1>7, <1>8 DEF Holds
<1>11. ASSUME NEW q \in Places, NEW s \in Tasks, places'[q] = s, q # p PROVE HeldIn(q, s)'
  <2>1. places[q] = s
    BY <1>7, <1>11
  <2>2. Place(s) = q
    BY <2>1, <1>1, TasksAssumption DEF Records
  <2>3. keys'[s] = keys[s] /\ barrier'[s] = barrier[s]
    BY <2>2, <1>6, <1>7, <1>11
  <2>4. HeldIn(q, s)
    BY <2>1 DEF HeldInv
  <2> QED BY <2>3, <2>4, <1>8, <1>9 DEF HeldIn
<1>12. HeldIn(p, r)'
  <2>1. /\ \A k \in DOMAIN keys[r] : \A c \in Tasks :
             keys[r][k] = c => Holds(c, p, r) /\ k \in HeldKeys(c)
        /\ \A c \in Tasks : barrier[r] = c => Holds(c, p, r)
    <3>1. CASE places[p] = None
      <4>1. keys[r] = NoTails /\ barrier[r] = Free
        BY <3>1, <1>1, <1>5, <1>6 DEF Records
      <4>2. \A c \in Tasks : c # Free
        BY TasksAssumption
      <4> QED BY <4>1, <4>2 DEF NoTails
    <3>2. CASE places[p] # None
      BY <3>2, <1>6 DEF HeldInv, HeldIn
    <3> QED BY <3>1, <3>2
  <2>2. CASE Exclusive(t)
    <3>1. keys'[r] = NoTails /\ barrier'[r] = t /\ t # Free
      BY <2>2, <1>7, TasksAssumption DEF TailsLeft
    <3>2. DOMAIN keys'[r] = {}
      BY <3>1 DEF NoTails
    <3> QED BY <3>1, <3>2, <1>10 DEF HeldIn
  <2>3. CASE ~Exclusive(t)
    <3>1. HeldKeys(t) # {}
      BY <2>3, <1>2 DEF Exclusive, AllKeys
    <3>2. /\ keys'[r] = [k \in DOMAIN keys[r] \cup HeldKeys(t) |->
                           IF k \in HeldKeys(t) THEN t ELSE keys[r][k]]
          /\ barrier'[r] = barrier[r]
      BY <2>3, <1>7 DEF TailsLeft
    <3>3. DOMAIN keys'[r] # {}
      BY <3>1, <3>2
    <3>4. ASSUME NEW k \in DOMAIN keys'[r], NEW c \in Tasks, keys'[r][k] = c
          PROVE  Holds(c, p, r)' /\ k \in HeldKeys(c)'
      <4>1. CASE k \in HeldKeys(t)
        BY <4>1, <3>2, <3>4, <1>8, <1>10
      <4>2. CASE k \notin HeldKeys(t)
        <5>1. k \in DOMAIN keys[r] /\ keys[r][k] = c
          BY <4>2, <3>2, <3>4
        <5> QED BY <5>1, <2>1, <1>8, <1>9
      <4> QED BY <4>1, <4>2
    <3>5. \A c \in Tasks : barrier'[r] = c => Holds(c, p, r)'
      BY <3>2, <2>1, <1>9
    <3> QED BY <3>3, <3>4, <3>5 DEF HeldIn
  <2> QED BY <2>2, <2>3
<1> QED BY <1>7, <1>11, <1>12 DEF HeldInv

LEMMA ReleaseHeld == ASSUME QueueInv, HeldInv, NEW t \in Tasks, Release(t) PROVE HeldInv'
<1>1. TypeOK /\ Records
  BY DEF QueueInv
<1>2. Place(t) \in Places
  BY <1>1, RequestType
<1>3. locks[t] \in Tasks /\ Place(locks[t]) = Place(t)
  BY <1>1 DEF Release, Records, Arrived
<1>4. PICK p \in Places, r \in Tasks : p = Place(t) /\ r = locks[t] /\ Place(r) = p
  BY <1>2, <1>3
<1>5. /\ UNCHANGED <<request, locks>>
      /\ state' = [state EXCEPT ![t] = "released"]
      /\ keys' = [keys EXCEPT ![r] = TailsKept(t, r)]
      /\ barrier' = [barrier EXCEPT ![r] = BarrierKept(t, r)]
      /\ places' = [places EXCEPT ![p] =
              IF @ = r /\ DOMAIN TailsKept(t, r) = {} /\ BarrierKept(t, r) = Free
              THEN None ELSE @]
  BY <1>4 DEF Release, Place
<1>6. TailsKept(t, r) =
        [k \in {j \in DOMAIN keys[r] : j \in HeldKeys(t) => keys[r][j] # t} |-> keys[r][k]]
  BY DEF TailsKept, Restrict
<1>7. /\ keys'[r] = TailsKept(t, r) /\ barrier'[r] = BarrierKept(t, r)
      /\ \A s \in Tasks \ {r} : keys'[s] = keys[s] /\ barrier'[s] = barrier[s]
      /\ \A u \in Tasks \ {t} : state'[u] = state[u]
  BY <1>1, <1>5 DEF TypeOK
<1>8. /\ \A q \in Places, s \in Tasks : places'[q] = s => places[q] = s
      /\ places'[p] = r => DOMAIN TailsKept(t, r) # {} \/ BarrierKept(t, r) # Free
  BY <1>1, <1>5, TasksAssumption DEF TypeOK
<1>9. ASSUME NEW c \in Tasks
      PROVE  Place(c)' = Place(c) /\ HeldKeys(c)' = HeldKeys(c)
  BY <1>5 DEF Place, HeldKeys, Exclusive
<1>10. ASSUME NEW c \in Tasks, NEW q \in Places, NEW s \in Tasks, Holds(c, q, s), c # t
       PROVE  Holds(c, q, s)'
  BY <1>5, <1>7, <1>9, <1>10 DEF Holds
<1>11. ASSUME NEW q \in Places, NEW s \in Tasks, places'[q] = s, s # r PROVE HeldIn(q, s)'
  <2>1. HeldIn(q, s)
    BY <1>8, <1>11 DEF HeldInv
  <2>2. keys'[s] = keys[s] /\ barrier'[s] = barrier[s]
    BY <1>7, <1>11
  <2>3. \A c \in Tasks : Holds(c, q, s) => c # t
    BY <1>4, <1>11 DEF Holds
  <2> QED BY <2>1, <2>2, <2>3, <1>9, <1>10 DEF HeldIn
<1>12. ASSUME NEW q \in Places, places'[q] = r PROVE HeldIn(q, r)'
  <2>1. HeldIn(q, r) /\ q = p
    BY <1>1, <1>4, <1>8, <1>12, TasksAssumption DEF HeldInv, Records
  <2>2. DOMAIN keys'[r] # {} \/ barrier'[r] # Free
    BY <2>1, <1>7, <1>8, <1>12
  <2>3. ASSUME NEW k \in DOMAIN keys'[r], NEW c \in Tasks, keys'[r][k] = c
        PROVE  Holds(c, q, r)' /\ k \in HeldKeys(c)'
    <3>1. k \in DOMAIN keys[r] /\ keys[r][k] = c /\ (k \in HeldKeys(t) => c # t)
      BY <2>3, <1>6, <1>7
    <3>2. Holds(c, q, r) /\ k \in HeldKeys(c)
      BY <3>1, <2>1 DEF HeldIn
    <3> QED BY <3>1, <3>2, <1>9, <1>10
  <2>4. ASSUME NEW c \in Tasks, barrier'[r] = c PROVE Holds(c, q, r)'
    <3>1. barrier[r] = c /\ c # t
      BY <2>4, <1>7, TasksAssumption DEF BarrierKept
    <3> QED BY <3>1, <2>1, <1>10 DEF HeldIn
  <2> QED BY <2>2, <2>3, <2>4 DEF HeldIn
<1> QED BY <1>11, <1>12 DEF HeldInv

\* A lock record does not outlive the tasks of its place.
THEOREM LocksAreDropped == Spec => []NoLockLeaks
<1>1. Init => HeldInv
  BY TasksAssumption DEF Init, HeldInv
<1>2. QueueInv /\ HeldInv /\ [Next]_vars => HeldInv'
  <2> SUFFICES ASSUME QueueInv, HeldInv, [Next]_vars PROVE HeldInv'
    OBVIOUS
  <2>1. ASSUME NEW t \in Tasks, Run(t) PROVE HeldInv'
    BY <2>1, RunHeld
  <2>2. ASSUME NEW t \in Tasks, Start(t) \/ Settle(t) PROVE HeldInv'
    <3>1. UNCHANGED <<request, places, locks, keys, barrier>>
      BY <2>2 DEF Start, Settle
    <3>2. \A u \in Tasks : state[u] \notin {"new", "released"} =>
                            state'[u] \notin {"new", "released"}
      BY <2>2 DEF Start, Settle, QueueInv, TypeOK
    <3> QED BY <3>1, <3>2 DEF HeldInv, HeldIn, Holds, Place, HeldKeys, Exclusive
  <2>3. ASSUME NEW t \in Tasks, Release(t) PROVE HeldInv'
    BY <2>3, ReleaseHeld
  <2>4. CASE Close
    BY <2>4, TasksAssumption DEF Close, HeldInv
  <2>5. CASE UNCHANGED vars
    BY <2>5 DEF vars, HeldInv, HeldIn, Holds, HeldKeys, Exclusive, Place
  <2> QED BY <2>1, <2>2, <2>3, <2>4, <2>5 DEF Next
<1>3. QueueInv /\ HeldInv => NoLockLeaks
  <2> SUFFICES ASSUME QueueInv, HeldInv, NEW p \in Places, places[p] # None
               PROVE  \E t \in Arrived : request[t][1] = p /\ state[t] # "released"
    BY DEF NoLockLeaks
  <2>1. places[p] \in Tasks
    BY DEF QueueInv, TypeOK
  <2>2. /\ \A k \in DOMAIN keys[places[p]] : keys[places[p]][k] \in Tasks
        /\ barrier[places[p]] \in Tasks \cup {Free}
    BY <2>1, TableType DEF QueueInv, TypeOK
  <2>3. \E c \in Tasks : Holds(c, p, places[p])
    BY <2>1, <2>2 DEF HeldInv, HeldIn
  <2> QED BY <2>3 DEF Holds, Arrived, Place
<1> QED BY <1>1, <1>2, <1>3, QueueInductive, PTL DEF Spec

-----------------------------------------------------------------------------
(* The queue implements KeyedOrder. *)

Shown(s) == IF s = "released" THEN "settled" ELSE s

LEMMA AcceptStep == ASSUME QueueInv, NEW t \in Tasks, Run(t)
                    PROVE  Promise!Accept(t)
<1>1. TypeOK /\ Tickets
  BY DEF QueueInv
<1>2. /\ state[t] = "new" /\ state' = [state EXCEPT ![t] = "queued"]
      /\ ready' = ready /\ request' = request
  BY DEF Run
<1>3. /\ Arrived' = Arrived \cup {t}
      /\ t \notin Arrived
      /\ ticket'[t] \in Nat
      /\ \A u \in Tasks \ {t} : /\ ticket'[u] = ticket[u]
                                /\ ticket[u] \in Nat
                                /\ ticket'[u] < ticket'[t]
                                /\ state'[u] = state[u]
  BY <1>1, RunTickets
<1>4. state'[t] = "queued"
  BY <1>1, <1>2 DEF TypeOK
<1>5. Ahead(t)' = {u \in Tasks : state[u] # "new" /\ Conflicts(request[u], request[t])}
  <2>1. Ahead(t)' = {u \in Arrived' : /\ ticket'[u] < ticket'[t]
                                      /\ Conflicts(request[u], request[t])}
    BY <1>2 DEF Ahead, Conflicts
  <2>2. \A u \in Arrived' : ticket'[u] < ticket'[t] <=> u \in Arrived
    BY <1>3 DEF Arrived
  <2> QED BY <2>1, <2>2, <1>3 DEF Arrived
<1>6. \A u \in Arrived : Ahead(u)' = Ahead(u)
  <2> SUFFICES ASSUME NEW u \in Arrived PROVE Ahead(u)' = Ahead(u)
    OBVIOUS
  <2>1. u \in Tasks \ {t}
    BY <1>3 DEF Arrived
  <2>2. Ahead(u)' = {v \in Arrived' : /\ ticket'[v] < ticket'[u]
                                      /\ Conflicts(request[v], request[u])}
    BY <1>2 DEF Ahead, Conflicts
  <2>3. ~(ticket'[t] < ticket'[u])
    BY <2>1, <1>3
  <2>4. \A v \in Arrived : ticket'[v] < ticket'[u] <=> ticket[v] < ticket[u]
    BY <2>1, <1>3 DEF Arrived
  <2> QED BY <2>2, <2>3, <2>4, <1>3 DEF Ahead
<1>7. [u \in Tasks |-> Shown(state[u])]' = [[u \in Tasks |-> Shown(state[u])] EXCEPT ![t] = "queued"]
  BY <1>3, <1>4 DEF Shown
<1>8. [u \in Tasks |-> IF state[u] = "new" THEN {} ELSE Ahead(u)]' =
        [[u \in Tasks |-> IF state[u] = "new" THEN {} ELSE Ahead(u)] EXCEPT ![t] =
           {u \in Tasks : state[u] # "new" /\ Conflicts(request[u], request[t])}]
  BY <1>3, <1>4, <1>5, <1>6 DEF Arrived
<1>9. \A u \in Tasks : Shown(state[u]) # "new" <=> state[u] # "new"
  BY DEF Shown
<1> QED BY <1>2, <1>7, <1>8, <1>9 DEF Promise!Accept, Shown

\* The steps after acceptance leave what a task has to wait for as it is.
LEMMA AheadStays ==
  ASSUME UNCHANGED <<request, ticket>>,
         \A u \in Tasks : state'[u] = "new" <=> state[u] = "new"
  PROVE  [u \in Tasks |-> IF state[u] = "new" THEN {} ELSE Ahead(u)]' =
           [u \in Tasks |-> IF state[u] = "new" THEN {} ELSE Ahead(u)]
  BY DEF Ahead, Arrived, Conflicts

\* A task that starts has nobody ahead of it that is not over.
LEMMA StartStep == ASSUME QueueInv, NEW t \in Tasks, Start(t)
                   PROVE  Promise!Start(t) \/ Promise!Refuse(t)
<1>1. /\ state[t] = "queued"
      /\ UNCHANGED <<ready, request, ticket>>
      /\ state' = [state EXCEPT ![t] = IF ready THEN "running" ELSE "settled"]
      /\ TypeOK
  BY DEF Start, QueueInv
<1>2. /\ state'[t] = IF ready THEN "running" ELSE "settled"
      /\ \A u \in Tasks \ {t} : state'[u] = state[u]
  BY <1>1 DEF TypeOK
<1>3. [u \in Tasks |-> IF state[u] = "new" THEN {} ELSE Ahead(u)]' =
        [u \in Tasks |-> IF state[u] = "new" THEN {} ELSE Ahead(u)]
  BY <1>1, <1>2, AheadStays
<1>4. [u \in Tasks |-> Shown(state[u])]' =
        [[u \in Tasks |-> Shown(state[u])] EXCEPT ![t] = IF ready THEN "running" ELSE "settled"]
  BY <1>2 DEF Shown
<1>5. ready => \A u \in Ahead(t) : Shown(state[u]) = "settled"
  <2> SUFFICES ASSUME ready, NEW u \in Ahead(t) PROVE Shown(state[u]) = "settled"
    OBVIOUS
  <2>1. u \in Tasks /\ state[u] # "new" /\ Behind(u, t)
    BY DEF Ahead, Arrived, Behind, Conflict
  <2>2. ~Pending(u)
    BY <2>1, ItIsItsTurn DEF Start
  <2> QED BY <2>1, <2>2, <1>1 DEF TypeOK, Pending, Shown
<1>6. CASE ready
  <2>1. Ahead(t) \subseteq Tasks
    BY DEF Ahead, Arrived
  <2>2. Promise!ItsTurn(t)
    BY <2>1, <1>1, <1>5, <1>6 DEF Promise!ItsTurn, Shown
  <2> QED BY <2>2, <1>1, <1>3, <1>4, <1>6 DEF Promise!Start, Shown
<1>7. CASE ~ready
  BY <1>1, <1>3, <1>4, <1>7 DEF Promise!Refuse, Shown
<1> QED BY <1>6, <1>7

LEMMA SettleStep == ASSUME QueueInv, NEW t \in Tasks, Settle(t)
                    PROVE  Promise!Settle(t)
<1>1. /\ state[t] = "running"
      /\ UNCHANGED <<ready, request, ticket>>
      /\ state' = [state EXCEPT ![t] = "settled"]
      /\ TypeOK
  BY DEF Settle, QueueInv
<1>2. state'[t] = "settled" /\ \A u \in Tasks \ {t} : state'[u] = state[u]
  BY <1>1 DEF TypeOK
<1>3. [u \in Tasks |-> IF state[u] = "new" THEN {} ELSE Ahead(u)]' =
        [u \in Tasks |-> IF state[u] = "new" THEN {} ELSE Ahead(u)]
  BY <1>1, <1>2, AheadStays
<1>4. [u \in Tasks |-> Shown(state[u])]' = [[u \in Tasks |-> Shown(state[u])] EXCEPT ![t] = "settled"]
  BY <1>2 DEF Shown
<1> QED BY <1>1, <1>3, <1>4 DEF Promise!Settle, Shown

LEMMA ReleaseStep == ASSUME QueueInv, NEW t \in Tasks, Release(t)
                     PROVE  UNCHANGED Promise!vars
<1>1. /\ state[t] = "settled"
      /\ UNCHANGED <<ready, request, ticket>>
      /\ state' = [state EXCEPT ![t] = "released"]
      /\ TypeOK
  BY DEF Release, QueueInv
<1>2. state'[t] = "released" /\ \A u \in Tasks \ {t} : state'[u] = state[u]
  BY <1>1 DEF TypeOK
<1>3. [u \in Tasks |-> IF state[u] = "new" THEN {} ELSE Ahead(u)]' =
        [u \in Tasks |-> IF state[u] = "new" THEN {} ELSE Ahead(u)]
  BY <1>1, <1>2, AheadStays
<1>4. [u \in Tasks |-> Shown(state[u])]' = [u \in Tasks |-> Shown(state[u])]
  BY <1>1, <1>2 DEF Shown
<1> QED BY <1>1, <1>3, <1>4 DEF Promise!vars, Shown

LEMMA CloseStep == ASSUME QueueInv, Close
                   PROVE  Promise!Close
<1>1. ready /\ ready' = FALSE /\ UNCHANGED <<state, request, ticket>>
  BY DEF Close
<1>2. [u \in Tasks |-> IF state[u] = "new" THEN {} ELSE Ahead(u)]' =
        [u \in Tasks |-> IF state[u] = "new" THEN {} ELSE Ahead(u)]
  BY <1>1, AheadStays
<1> QED BY <1>1, <1>2 DEF Promise!Close

\* However tails and barriers are taken over, mutations start in the order they
\* were accepted wherever they touch the same key or subtree.
THEOREM QueueKeepsOrder == Spec => ArrivalOrder
<1>1. Init => Promise!Init
  <2> SUFFICES ASSUME Init PROVE Promise!Init
    OBVIOUS
  <2>1. ready = TRUE /\ request \in [Tasks -> Places \X Touches]
        /\ \A t \in Tasks : state[t] = "new"
    BY DEF Init, Request
  <2>2. [t \in Tasks |-> Shown(state[t])] = [t \in Tasks |-> "new"]
    BY <2>1 DEF Shown
  <2>3. [t \in Tasks |-> IF state[t] = "new" THEN {} ELSE Ahead(t)] = [t \in Tasks |-> {}]
    BY <2>1
  <2> QED BY <2>1, <2>2, <2>3 DEF Promise!Init, Shown
<1>2. QueueInv /\ [Next]_vars => [Promise!Next]_(Promise!vars)
  <2> SUFFICES ASSUME QueueInv, [Next]_vars PROVE [Promise!Next]_(Promise!vars)
    OBVIOUS
  <2>1. ASSUME NEW t \in Tasks, Run(t) PROVE Promise!Next
    BY <2>1, AcceptStep DEF Promise!Next
  <2>2. ASSUME NEW t \in Tasks, Start(t) PROVE Promise!Next
    BY <2>2, StartStep DEF Promise!Next
  <2>3. ASSUME NEW t \in Tasks, Settle(t) PROVE Promise!Next
    BY <2>3, SettleStep DEF Promise!Next
  <2>4. ASSUME NEW t \in Tasks, Release(t) PROVE UNCHANGED Promise!vars
    BY <2>4, ReleaseStep
  <2>5. CASE Close
    BY <2>5, CloseStep DEF Promise!Next
  <2>6. CASE UNCHANGED vars
    BY <2>6 DEF vars, Promise!vars, Ahead, Arrived, Conflicts
  <2> QED BY <2>1, <2>2, <2>3, <2>4, <2>5, <2>6 DEF Next
<1> QED BY <1>1, <1>2, QueueInductive, PTL DEF Spec, ArrivalOrder, Promise!Spec
=============================================================================
