---------------------------- MODULE MutationQueue ----------------------------
(***************************************************************************)
(* The ordering of virtual mutations: lib/mutation-queue.js, and the way   *)
(* lib/kernel.js feeds it (enqueueMutation, close).                        *)
(*                                                                         *)
(* A task takes every lock it needs in one synchronous call, by replacing  *)
(* the tail of each of its keys, or the barrier of its place, by itself;   *)
(* it runs once the tails it found have settled.  A promise that stands    *)
(* for a task's end is the task.  A lock record is an object with an       *)
(* identity, which #release compares: it is named by the task whose call   *)
(* created it.                                                             *)
(*                                                                         *)
(* A task calls run() once and what it asks for is fixed before: its place *)
(* and the set of its keys, or AllKeys for the exclusive barrier (no list  *)
(* of keys: `keys === null`).  Whether the mutation succeeds makes no      *)
(* difference to the queue, so Settle stands for both outcomes.            *)
(*                                                                         *)
(* The microtasks that follow the end of a task, the release of its locks  *)
(* and the start of its successors, are steps of their own in any order.   *)
(***************************************************************************)
EXTENDS Integers, FiniteSets, Functions

CONSTANTS
  Tasks,     \* mutations
  Places,    \* virtual places
  Keys,      \* canonical keys of a place
  Free,      \* the settled promise of a barrier nobody holds
  None       \* no record

ASSUME TasksAssumption == IsFiniteSet(Tasks) /\ Free \notin Tasks /\ None \notin Tasks

AllKeys == {}

\* The callers ask for one key, for the two keys of a rename, or for the barrier.
Touches == {{j, k} : j, k \in Keys} \cup {AllKeys}
Request == Places \X Touches

VARIABLES
  ready,     \* the kernel is ready (not closed)
  state,     \* task -> "new", "queued", "running", "settled", "released"
  request,   \* task -> its place and keys
  ticket,    \* history: task -> its rank of arrival, 0 before
  prior,     \* task -> the promises it awaits
  places,    \* place -> its lock record, or None
  locks,     \* task -> the lock record it took its locks in
  keys,      \* lock record -> key -> tail
  barrier    \* lock record -> barrier

vars == <<ready, state, request, ticket, prior, places, locks, keys, barrier>>

Exclusive(t) == request[t][2] = AllKeys

\* The keys t holds tails of.
HeldKeys(t) == IF Exclusive(t) THEN {} ELSE request[t][2]

Arrived == {t \in Tasks : state[t] # "new"}
Pending(t) == state[t] \in {"queued", "running"}

TypeOK ==
  /\ ready \in BOOLEAN
  /\ state \in [Tasks -> {"new", "queued", "running", "settled", "released"}]
  /\ request \in [Tasks -> Request]
  /\ ticket \in [Tasks -> Nat]
  /\ prior \in [Tasks -> SUBSET (Tasks \cup {Free})]
  /\ places \in [Places -> Tasks \cup {None}]
  /\ locks \in [Tasks -> Tasks \cup {None}]
  /\ keys \in [Tasks -> UNION {[D -> Tasks] : D \in SUBSET Keys}]
  /\ barrier \in [Tasks -> Tasks \cup {Free}]

NoTails == [k \in {} |-> None]

Init ==
  /\ ready = TRUE
  /\ state = [t \in Tasks |-> "new"]
  /\ request \in [Tasks -> Request]
  /\ ticket = [t \in Tasks |-> 0]
  /\ prior = [t \in Tasks |-> {}]
  /\ places = [p \in Places |-> None]
  /\ locks = [t \in Tasks |-> None]
  /\ keys = [r \in Tasks |-> NoTails]
  /\ barrier = [r \in Tasks |-> Free]

-----------------------------------------------------------------------------
\* The record of t's place; the call creates it when there is none.
Record(t) == IF places[request[t][1]] = None THEN t ELSE places[request[t][1]]

\* The tails t awaits: the barrier, and those of its keys (of every key, if
\* exclusive).
BrokenTails(t, r) ==
  IF Exclusive(t) THEN {barrier[r]}
  ELSE {barrier[r]} \cup {keys[r][k] : k \in HeldKeys(t) \cap DOMAIN keys[r]}
BrokenTailsOfAll(t, r) == {barrier[r]} \cup {keys[r][k] : k \in DOMAIN keys[r]}
Tails(t, r) ==
  {barrier[r]}
    \cup IF Exclusive(t) THEN {keys[r][k] : k \in DOMAIN keys[r]}
         ELSE {keys[r][k] : k \in HeldKeys(t) \cap DOMAIN keys[r]}

\* The tails t leaves in record r.
TailsLeft(t, r) ==
  IF Exclusive(t) THEN NoTails
  ELSE [k \in DOMAIN keys[r] \cup HeldKeys(t) |->
          IF k \in HeldKeys(t) THEN t ELSE keys[r][k]]

Run(t) ==
  /\ state[t] = "new"
  /\ LET r == Record(t)
     IN  /\ prior' = [prior EXCEPT ![t] = Tails(t, r)]
         /\ locks' = [locks EXCEPT ![t] = r]
         /\ places' = [places EXCEPT ![request[t][1]] = r]
         /\ keys' = [keys EXCEPT ![r] = TailsLeft(t, r)]
         /\ barrier' = [barrier EXCEPT ![r] = IF Exclusive(t) THEN t ELSE @]
  /\ state' = [state EXCEPT ![t] = "queued"]
  /\ ticket' = [ticket EXCEPT ![t] = Cardinality(Arrived) + 1]
  /\ UNCHANGED <<ready, request>>

\* Every promise t awaits has settled: its function is called, and refuses to do
\* anything on a closed kernel.
Start(t) ==
  /\ state[t] = "queued"
  /\ \A u \in prior[t] \ {Free} : ~Pending(u)
  /\ state' = [state EXCEPT ![t] = IF ready THEN "running" ELSE "settled"]
  /\ UNCHANGED <<ready, request, ticket, prior, places, locks, keys, barrier>>

Settle(t) ==
  /\ state[t] = "running"
  /\ state' = [state EXCEPT ![t] = "settled"]
  /\ UNCHANGED <<ready, request, ticket, prior, places, locks, keys, barrier>>

\* The tails of record r that stay once t is over: those other tasks hold.
BrokenTailsKept(t, r) == Restrict(keys[r], DOMAIN keys[r] \ HeldKeys(t))
TailsKept(t, r) ==
  Restrict(keys[r], {k \in DOMAIN keys[r] : k \in HeldKeys(t) => keys[r][k] # t})

BrokenBarrierLeft(t, r) == barrier[r]
BrokenBarrierReset(t, r) == IF barrier[r] = t THEN None ELSE barrier[r]
BarrierKept(t, r) == IF barrier[r] = t THEN Free ELSE barrier[r]

Release(t) ==
  /\ state[t] = "settled"
  /\ state' = [state EXCEPT ![t] = "released"]
  /\ LET r == locks[t]
         p == request[t][1]
     IN  /\ keys' = [keys EXCEPT ![r] = TailsKept(t, r)]
         /\ barrier' = [barrier EXCEPT ![r] = BarrierKept(t, r)]
         /\ places' = [places EXCEPT ![p] =
              IF @ = r /\ DOMAIN TailsKept(t, r) = {} /\ BarrierKept(t, r) = Free
              THEN None ELSE @]
  /\ UNCHANGED <<ready, request, ticket, prior, locks>>

\* The kernel closes: the lock records are dropped, the queued tasks still run.
Close ==
  /\ ready
  /\ ready' = FALSE
  /\ places' = [p \in Places |-> None]
  /\ UNCHANGED <<state, request, ticket, prior, locks, keys, barrier>>

Next ==
  \/ \E t \in Tasks : Run(t) \/ Start(t) \/ Settle(t) \/ Release(t)
  \/ Close

Spec == Init /\ [][Next]_vars

\* Promise reactions run.  Nothing says that a mutation ends.
Fairness == \A t \in Tasks : WF_vars(Start(t)) /\ WF_vars(Release(t))
FairSpec == Spec /\ Fairness

-----------------------------------------------------------------------------
(* Properties. *)

Conflicts(q, r) ==
  q[1] = r[1] /\ (q[2] = AllKeys \/ r[2] = AllKeys \/ q[2] \cap r[2] # {})

\* The tasks accepted before t that touch what t touches.
Ahead(t) ==
  {u \in Arrived : ticket[u] < ticket[t] /\ Conflicts(request[u], request[t])}

\* No two mutations that touch the same key run at the same time, and nothing
\* runs beside a subtree operation of its place: two writes of a key, a rename
\* and a write of its target, a recursive rm and a write below it.
MutualExclusion ==
  \A t, u \in Tasks :
    t # u /\ state[t] = "running" /\ state[u] = "running" =>
      ~Conflicts(request[t], request[u])

\* Lock records live only while a task is queued or running: once everything a
\* place was asked for is released, nothing is left of its record.
NoLockLeaks ==
  \A p \in Places :
    (\A t \in Arrived : request[t][1] = p => state[t] = "released") => places[p] = None

Promise == INSTANCE KeyedOrder WITH
  open <- ready,
  state <- [t \in Tasks |-> IF state[t] = "released" THEN "settled" ELSE state[t]],
  ahead <- [t \in Tasks |-> IF state[t] = "new" THEN {} ELSE Ahead(t)]

\* Mutations that touch the same key, or a subtree operation and anything below
\* it, run one after the other in the order the main kernel accepted them, even
\* when barriers and tails were taken over by later tasks in between.
ArrivalOrder == Promise!Spec

\* A mutation waits for nothing but the earlier ones it conflicts with: however
\* slow the others are, a key they do not touch is never held up, and renames in
\* opposite directions or barriers behind renames do not wait for each other.
NoNeedlessWait == Promise!FairSpec
=============================================================================
