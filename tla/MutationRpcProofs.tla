-------------------------- MODULE MutationRpcProofs --------------------------
(***************************************************************************)
(* Proofs about VirtualStore and about MutationRpc, which composes it with *)
(* the ports of the workers, for any set of keys, mutations, workers and   *)
(* calls.                                                                  *)
(*                                                                         *)
(* The store: its places are typed, no file lies below another             *)
(* (Hierarchy), and it implements FileTree as long as the kernel is ready  *)
(* (ActsAtomicallyWhileReady).                                             *)
(* A mutation plans what it commits when its turn comes and commits it     *)
(* later, on files that others have changed meanwhile.  That the plan is   *)
(* still right then follows from three facts: of two mutations whose locks *)
(* conflict one waits for the other (OrderInv), so what runs together      *)
(* touches different keys; creating is what the running ones are about to  *)
(* publish, so that their keys are checked against one another (Planned);  *)
(* and a plan fits the files of every moment up to its commit (Kept).      *)
(*                                                                         *)
(* The composition: it is typed, takes the steps of VirtualStore and no    *)
(* others on its state, so that what is proved of the store holds of the   *)
(* composition; a thread that sees its mutation resolved reads it          *)
(* (ReadsItsWrites); no call settles twice (SettlesOnce); and the calls of *)
(* a thread keep their order (SessionOrder).                               *)
(* ReadsItsWrites is about the one port updates and answers share.  An     *)
(* answer is posted after the update of its mutation, so the updates that  *)
(* are applied when it arrives, those applied now and those before it in   *)
(* the port, include that one (PortInv).  SessionOrder combines the order  *)
(* of the calls in their port with that of the queue (SessionInv).         *)
(***************************************************************************)
EXTENDS MutationRpc, FiniteSetTheorems, TLAPS

-----------------------------------------------------------------------------
(* The inductive invariant of the store. *)

Target(r) == IF r.op = "rename" THEN r.to ELSE r.key

\* What a task that is not over has locked.
LockForm(t) ==
  LET r == request[t]
  IN  /\ r.op = "rm" => locks[t] = AllKeys
      /\ r.op = "rename" => locks[t] \in {AllKeys, {r.key, r.to}}
      /\ r.op \notin {"rm", "rename"} => locks[t] = {r.key}

\* Of two tasks in conflict one waits for the other, and what runs waits for none.
OrderInv ==
  /\ \A t \in Tasks : Pending(t) => LockForm(t)
  /\ \A t, u \in Tasks :
       t # u /\ Pending(t) /\ Pending(u) /\ Conflict(locks[t], locks[u])
         => t \in ahead[u] \/ u \in ahead[t]
  /\ \A t \in Tasks : Running(t) => ahead[t] = {}

\* What a subtree needs where it goes.
Destination(r) ==
  \/ r.to = r.key
  \/ /\ r.to \notin Under[r.key]
     /\ r.to \notin Published /\ ~IsDirectory(r.to)
     /\ \A j \in Published : r.to \notin Under[j]

KeepsFile(t, p) ==
  LET r == request[t]
  IN  \/ /\ r.op = "write" /\ p = Publication(r.key, <<t>>, {})
         /\ "exclusive" \in r.opts => r.key \notin Published
      \/ r.op = "append" /\ p = Publication(r.key, Joined(r.key, t), {})
      \/ /\ r.op = "rename" /\ r.key \in Published
         /\ p = Publication(r.to, files[r.key], {r.key})

KeepsTree(t, p) ==
  LET r == request[t]
  IN  /\ r.op = "rename" /\ locks[t] = AllKeys
      /\ r.key \notin Published /\ IsDirectory(r.key) /\ Destination(r)
      /\ p = TreePlan(r)

\* The plan of t is the one it would make now.
Kept(t) == KeepsFile(t, plan[t]) \/ KeepsTree(t, plan[t])

\* A key that is being published is one its task has locked.
Planned ==
  /\ creating = UNION {plan[t].made : t \in {u \in Tasks : Running(u)}}
  /\ \A t \in Tasks : Running(t) => locks[t] = AllKeys \/ plan[t].made \subseteq locks[t]

PlansInv ==
  /\ Planned
  /\ Hierarchy
  /\ ready => \A t \in Tasks : Running(t) => Kept(t)

StoreInv == TypeOK /\ OrderInv /\ PlansInv

-----------------------------------------------------------------------------
(* The operators the actions are made of. *)

LEMMA RequestParts ==
  ASSUME NEW r \in Requests
  PROVE  /\ r.op \in Ops /\ r.key \in Keys /\ r.to \in Keys /\ r.opts \subseteq Opts
         /\ Under[r.key] \subseteq Keys /\ Under[r.to] \subseteq Keys
         /\ r # None
  BY RequestsAssumption, TreeAssumption

LEMMA PublicationType ==
  ASSUME NEW k \in Keys, NEW c \in Seq(Tasks), NEW g \in SUBSET Keys
  PROVE  /\ Publication(k, c, g) \in Plan
         /\ Publication(k, c, g).made = {k}
  BY DEF Publication, Plan, Contents, NoFiles

LEMMA JoinedType ==
  ASSUME TypeOK, NEW k \in Keys, NEW t \in Tasks
  PROVE  Joined(k, t) \in Seq(Tasks)
<1>1. k \in Published => files[k] \in Seq(Tasks)
  BY DEF TypeOK, Contents, Published
<1> QED BY <1>1 DEF Joined

LEMMA TreePlanType ==
  ASSUME TypeOK, NEW r \in Requests
  PROVE  TreePlan(r) \in Plan /\ TreePlan(r).made = {}
<1> DEFINE moved == Under[r.key] \cap Published
           at == Rebase[<<r.key, r.to>>]
<1>1. moved \in SUBSET Keys
  BY DEF Published
<1>2. \A k \in Keys : files[k] \in Seq(Tasks) \cup {None}
  BY DEF TypeOK, Contents
<1>3. ASSUME NEW k \in Keys, \E j \in moved : at[j] = k
      PROVE  files[CHOOSE j \in moved : at[j] = k] \in Seq(Tasks) \cup {None}
  BY <1>1, <1>2, <1>3
<1>4. [k \in Keys |-> IF \E j \in moved : at[j] = k
                      THEN files[CHOOSE j \in moved : at[j] = k] ELSE None] \in Contents
  BY <1>3 DEF Contents
<1>5. NoFiles \in Contents
  BY DEF NoFiles, Contents
<1> QED BY <1>1, <1>4, <1>5 DEF TreePlan, Plan

\* A step that begins, in the terms the proofs use.
LEMMA PublishesFacts ==
  ASSUME TypeOK, NEW t \in Tasks, NEW p \in Plan, state[t] = "queued", Publishes(t, p)
  PROVE  /\ state'[t] = "publishing" /\ plan'[t] = p
         /\ \A u \in Tasks \ {t} : state'[u] = state[u] /\ plan'[u] = plan[u]
         /\ creating' = creating \cup p.made
         /\ UNCHANGED <<ready, files, request, locks, ahead>>
         /\ Running(t)' /\ Pending(t)' /\ Pending(t)
         /\ \A u \in Tasks \ {t} : (Running(u)' <=> Running(u)) /\ (Pending(u)' <=> Pending(u))
  BY DEF TypeOK, Publishes, Running, Pending

\* A step that ends a task.
LEMMA OverFacts ==
  ASSUME TypeOK, NEW t \in Tasks, NEW s \in {"done", "failed"}, Over(t, s)
  PROVE  /\ state'[t] = s /\ request'[t] = None
         /\ \A u \in Tasks \ {t} : /\ state'[u] = state[u] /\ request'[u] = request[u]
                                   /\ locks'[u] = locks[u]
         /\ \A u \in Tasks : ahead'[u] = ahead[u] \ {t}
         /\ ~Running(t)' /\ ~Pending(t)'
         /\ \A u \in Tasks \ {t} : (Running(u)' <=> Running(u)) /\ (Pending(u)' <=> Pending(u))
  BY DEF TypeOK, Over, Running, Pending

LEMMA OverType ==
  ASSUME TypeOK, NEW t \in Tasks, NEW s \in {"done", "failed"}, Over(t, s)
  PROVE  /\ state' \in [Tasks -> {"new", "queued", "publishing", "staged", "done", "failed"}]
         /\ request' \in [Tasks -> Requests \cup {None}]
         /\ \A u \in Tasks : Pending(u)' <=> request'[u] # None
         /\ locks' \in [Tasks -> SUBSET Keys]
         /\ ahead' \in [Tasks -> SUBSET Tasks]
<1>1. \A u \in Tasks : Pending(u)' <=> request'[u] # None
  BY OverFacts DEF TypeOK
<1> QED BY <1>1 DEF TypeOK, Over

-----------------------------------------------------------------------------
(* What the turn of a mutation comes to. *)

\* What t asks for and its plan or removal are about keys it has locked.
Begins(t, p) ==
  /\ ready /\ Publishes(t, p)
  /\ KeepsFile(t, p) \/ KeepsTree(t, p)
  /\ \/ p.made = {}
     \/ p.made = {Target(request[t])} /\ HierarchyAllows(Target(request[t]))

Drops(t, gone) ==
  /\ ready /\ Removes(t, gone)
  /\ locks[t] = AllKeys \/ gone \subseteq locks[t]

LEMMA TurnOf ==
  ASSUME TypeOK, OrderInv, NEW t \in Tasks, Start(t)
  PROVE  \/ Refused(t)
         \/ \E p \in Plan : Begins(t, p)
         \/ \E gone \in SUBSET Keys : Drops(t, gone)
<1> DEFINE r == request[t]
<1>1. state[t] = "queued" /\ Pending(t) /\ r \in Requests
  BY DEF Start, ItsTurn, Pending, TypeOK
<1>2. LockForm(t)
  BY <1>1 DEF OrderInv
<1>3. CASE ~ready
  BY <1>3 DEF Start
<1>4. CASE ready /\ r.op = "write"
  <2>1. Write(t, r)
    BY <1>4 DEF Start
  <2>2. CASE Publishes(t, Publication(r.key, <<t>>, {})) /\ HierarchyAllows(r.key)
             /\ ("exclusive" \in r.opts => r.key \notin Published)
    <3>1. <<t>> \in Seq(Tasks)
      OBVIOUS
    <3>2. r.key \in Keys /\ {} \in SUBSET Keys
      BY <1>1, RequestParts
    <3>3. Publication(r.key, <<t>>, {}) \in Plan /\ Publication(r.key, <<t>>, {}).made = {r.key}
      BY <3>1, <3>2, PublicationType
    <3>4. Begins(t, Publication(r.key, <<t>>, {}))
      BY <1>4, <2>2, <3>3 DEF Begins, KeepsFile, Target
    <3> QED BY <3>3, <3>4
  <2> QED BY <2>1, <2>2 DEF Write
<1>5. CASE ready /\ r.op = "append"
  <2>1. AppendTo(t, r)
    BY <1>5 DEF Start
  <2>2. CASE Publishes(t, Publication(r.key, Joined(r.key, t), {})) /\ HierarchyAllows(r.key)
    <3> DEFINE p == Publication(r.key, Joined(r.key, t), {})
    <3>1. p \in Plan /\ p.made = {r.key}
      BY <1>1, JoinedType, RequestParts, PublicationType
    <3>2. Begins(t, p)
      BY <1>5, <2>2, <3>1 DEF Begins, KeepsFile, Target
    <3> QED BY <3>1, <3>2
  <2> QED BY <2>1, <2>2 DEF AppendTo
<1>6. CASE ready /\ r.op = "unlink"
  <2>1. Unlink(t, r)
    BY <1>6 DEF Start
  <2>2. CASE Removes(t, {r.key})
    <3>1. {r.key} \in SUBSET Keys /\ locks[t] = {r.key}
      BY <1>1, <1>2, <1>6, RequestParts DEF LockForm
    <3> QED BY <1>6, <2>2, <3>1 DEF Drops
  <2> QED BY <2>1, <2>2 DEF Unlink
<1>7. CASE ready /\ r.op = "mkdir"
  <2>1. Mkdir(t, r)
    BY <1>7 DEF Start
  <2>2. CASE Removes(t, {})
    BY <1>7, <2>2 DEF Drops
  <2> QED BY <2>1, <2>2 DEF Mkdir
<1>8. CASE ready /\ r.op = "rm"
  <2>1. Rm(t, r)
    BY <1>8 DEF Start
  <2>2. locks[t] = AllKeys
    BY <1>2, <1>8 DEF LockForm
  <2>3. {r.key} \in SUBSET Keys /\ Under[r.key] \in SUBSET Keys
    BY <1>1, RequestParts
  <2> QED BY <1>8, <2>1, <2>2, <2>3 DEF Rm, Drops
<1>9. CASE ready /\ r.op = "rename"
  <2>1. Rename(t, r)
    BY <1>9 DEF Start
  <2>2. CASE /\ r.key \notin Published /\ locks[t] = AllKeys /\ IsDirectory(r.key)
             /\ TreeMayMove(r) /\ Publishes(t, TreePlan(r))
    <3>1. TreePlan(r) \in Plan /\ TreePlan(r).made = {}
      BY <1>1, TreePlanType
    <3>2. Destination(r)
      BY <2>2 DEF TreeMayMove, Destination, HierarchyAllows, FileAbove
    <3>3. Begins(t, TreePlan(r))
      BY <1>9, <2>2, <3>1, <3>2 DEF Begins, KeepsTree
    <3> QED BY <3>1, <3>3
  <2>3. CASE /\ r.key \in Published /\ HierarchyAllows(r.to)
             /\ Publishes(t, Publication(r.to, files[r.key], {r.key}))
    <3> DEFINE p == Publication(r.to, files[r.key], {r.key})
    <3>1. files[r.key] \in Seq(Tasks)
      BY <1>1, <2>3 DEF TypeOK, Contents, Published
    <3>2. p \in Plan /\ p.made = {r.to}
      BY <1>1, <3>1, RequestParts, PublicationType
    <3>3. Begins(t, p)
      BY <1>9, <2>3, <3>2 DEF Begins, KeepsFile, Target
    <3> QED BY <3>2, <3>3
  <2> QED BY <2>1, <2>2, <2>3 DEF Rename
<1> QED BY <1>1, <1>3, <1>4, <1>5, <1>6, <1>7, <1>8, <1>9, RequestParts DEF Ops

-----------------------------------------------------------------------------
(* Types. *)

LEMMA CommittedType ==
  ASSUME TypeOK, NEW p \in Plan
  PROVE  Committed(p) \in Contents
  BY DEF Committed, TypeOK, Contents, Plan

LEMMA InitType == Init => TypeOK
  BY RequestsAssumption DEF Init, TypeOK, Contents, NoFiles, Pending, Running

LEMMA AcceptType ==
  ASSUME TypeOK, NEW t \in Tasks, NEW r \in Requests, Accept(t, r)
  PROVE  TypeOK'
<1>1. LocksOf(r) \in SUBSET Keys
  BY RequestParts DEF LocksOf, AllKeys
<1>2. \A u \in Tasks : Pending(u)' <=> request'[u] # None
  <2>1. state'[t] = "queued" /\ request'[t] = r /\ r # None
    BY RequestParts DEF Accept, TypeOK
  <2>2. \A u \in Tasks \ {t} : state'[u] = state[u] /\ request'[u] = request[u]
    BY DEF Accept, TypeOK
  <2> QED BY <2>1, <2>2 DEF TypeOK, Pending, Running
<1>3. \A u \in Tasks : Running(u)' <=> plan'[u] # None
  BY DEF Accept, TypeOK, Running
<1> QED BY <1>1, <1>2, <1>3 DEF Accept, TypeOK

LEMMA BeginsType ==
  ASSUME TypeOK, NEW t \in Tasks, NEW p \in Plan, state[t] = "queued", Publishes(t, p)
  PROVE  TypeOK'
<1>1. /\ creating' \subseteq Keys
      /\ state' \in [Tasks -> {"new", "queued", "publishing", "staged", "done", "failed"}]
      /\ plan' \in [Tasks -> Plan \cup {None}]
  BY DEF TypeOK, Publishes, Plan
<1>2. \A u \in Tasks : Pending(u)' <=> request'[u] # None
  BY PublishesFacts DEF TypeOK
<1>3. \A u \in Tasks : Running(u)' <=> plan'[u] # None
  BY PublishesFacts, RequestsAssumption DEF TypeOK
<1> QED BY <1>1, <1>2, <1>3 DEF TypeOK, Publishes

\* A task refused or done at once.
LEMMA EndsType ==
  ASSUME TypeOK, NEW t \in Tasks, NEW s \in {"done", "failed"}, state[t] = "queued", Ends(t, s),
         files' \in Contents
  PROVE  TypeOK'
<1>1. Over(t, s) /\ UNCHANGED <<ready, creating, plan>>
  BY DEF Ends
<1>2. \A u \in Tasks : Running(u)' <=> plan'[u] # None
  BY <1>1, OverFacts DEF TypeOK, Running
<1> QED BY <1>1, <1>2, OverType DEF TypeOK

LEMMA PublicationEndsType ==
  ASSUME TypeOK, NEW t \in Tasks, NEW s \in {"done", "failed"}, Running(t), PublicationEnds(t, s),
         files' \in Contents
  PROVE  TypeOK'
<1>1. /\ Over(t, s) /\ ready' = ready
      /\ plan' = [plan EXCEPT ![t] = None] /\ creating' = creating \ plan[t].made
  BY DEF PublicationEnds
<1>2. \A u \in Tasks : Running(u)' <=> plan'[u] # None
  BY <1>1, OverFacts DEF TypeOK
<1>3. plan' \in [Tasks -> Plan \cup {None}] /\ creating' \subseteq Keys
  BY <1>1 DEF TypeOK
<1> QED BY <1>1, <1>2, <1>3, OverType DEF TypeOK

LEMMA StageType ==
  ASSUME TypeOK, NEW t \in Tasks, Stage(t)
  PROVE  TypeOK'
<1>1. /\ state[t] = "publishing" /\ state' = [state EXCEPT ![t] = "staged"]
      /\ UNCHANGED <<ready, files, creating, request, locks, ahead, plan>>
  BY DEF Stage
<1>2. \A u \in Tasks : (Running(u)' <=> Running(u)) /\ (Pending(u)' <=> Pending(u))
  BY <1>1 DEF TypeOK, Running, Pending
<1> QED BY <1>1, <1>2 DEF TypeOK

LEMMA CloseType == ASSUME TypeOK, Close PROVE TypeOK'
  BY DEF TypeOK, Close, NoFiles, Contents, Pending, Running

LEMMA RunningPlan ==
  ASSUME TypeOK, NEW t \in Tasks, Running(t)
  PROVE  plan[t] \in Plan
  BY DEF TypeOK

LEMMA SameTreePlan ==
  ASSUME files' = files, NEW r
  PROVE  TreePlan(r)' = TreePlan(r)
  BY DEF TreePlan, Published

LEMMA StillThere ==
  ASSUME UNCHANGED vars
  PROVE  StoreInv => StoreInv'
<1>1. /\ UNCHANGED <<ready, files, creating, state, request, locks, ahead, plan>>
      /\ Published' = Published
  BY DEF vars, Published
<1>2. TypeOK => TypeOK'
  BY <1>1 DEF TypeOK, Pending, Running
<1>3. OrderInv => OrderInv'
  BY <1>1 DEF OrderInv, LockForm, Pending, Running
<1>4. ASSUME NEW t \in Tasks PROVE Kept(t) => Kept(t)'
  <2>1. KeepsFile(t, plan[t]) => KeepsFile(t, plan[t])'
    BY <1>1 DEF KeepsFile, Publication, Joined
  <2>2. KeepsTree(t, plan[t]) => KeepsTree(t, plan[t])'
    BY <1>1, SameTreePlan DEF KeepsTree, IsDirectory, Destination
  <2> QED BY <2>1, <2>2 DEF Kept
<1>5. PlansInv => PlansInv'
  BY <1>1, <1>4 DEF PlansInv, Planned, Hierarchy, Running
<1> QED BY <1>2, <1>3, <1>5 DEF StoreInv

-----------------------------------------------------------------------------
(* The order of what conflicts. *)

LEMMA LocksFit ==
  ASSUME TypeOK, NEW r \in Requests
  PROVE  /\ r.op = "rm" => LocksOf(r) = AllKeys
         /\ r.op = "rename" => LocksOf(r) \in {AllKeys, {r.key, r.to}}
         /\ r.op \notin {"rm", "rename"} => LocksOf(r) = {r.key}
  BY DEF LocksOf

LEMMA AcceptOrder ==
  ASSUME TypeOK, OrderInv, NEW t \in Tasks, NEW r \in Requests, Accept(t, r)
  PROVE  OrderInv'
<1>1. /\ state[t] = "new" /\ state'[t] = "queued" /\ request'[t] = r
      /\ locks'[t] = LocksOf(r)
      /\ ahead'[t] = {u \in Tasks : Pending(u) /\ Conflict(locks[u], LocksOf(r))}
  BY DEF Accept, TypeOK
<1>2. \A u \in Tasks \ {t} : /\ state'[u] = state[u] /\ request'[u] = request[u]
                             /\ locks'[u] = locks[u] /\ ahead'[u] = ahead[u]
                             /\ (Pending(u)' <=> Pending(u)) /\ (Running(u)' <=> Running(u))
  BY DEF Accept, TypeOK, Pending, Running
<1>3. \A u \in Tasks : Pending(u)' => LockForm(u)'
  <2>1. LockForm(t)'
    BY <1>1, LocksFit DEF LockForm
  <2> QED BY <1>2, <2>1 DEF OrderInv, LockForm
<1>4. ASSUME NEW u \in Tasks, NEW v \in Tasks, u # v, Pending(u)', Pending(v)',
             Conflict(locks'[u], locks'[v])
      PROVE  u \in ahead'[v] \/ v \in ahead'[u]
  <2>1. CASE u = t
    BY <1>1, <1>2, <1>4, <2>1 DEF Conflict
  <2>2. CASE v = t
    BY <1>1, <1>2, <1>4, <2>2
  <2>3. CASE u # t /\ v # t
    BY <1>2, <1>4, <2>3 DEF OrderInv
  <2> QED BY <2>1, <2>2, <2>3
<1>5. \A u \in Tasks : Running(u)' => ahead'[u] = {}
  BY <1>1, <1>2 DEF OrderInv, Running
<1> QED BY <1>3, <1>4, <1>5 DEF OrderInv

LEMMA BeginsOrder ==
  ASSUME TypeOK, OrderInv, NEW t \in Tasks, NEW p \in Plan, ItsTurn(t), Publishes(t, p)
  PROVE  OrderInv'
<1>1. state[t] = "queued" /\ ahead[t] = {}
  BY DEF ItsTurn
<1>2. /\ UNCHANGED <<request, locks, ahead>>
      /\ \A u \in Tasks : (Pending(u)' <=> Pending(u))
      /\ \A u \in Tasks \ {t} : (Running(u)' <=> Running(u))
  BY <1>1, PublishesFacts
<1> QED BY <1>1, <1>2 DEF OrderInv, LockForm

LEMMA OverOrder ==
  ASSUME TypeOK, OrderInv, NEW t \in Tasks, NEW s \in {"done", "failed"}, Over(t, s)
  PROVE  OrderInv'
<1>1. \A u \in Tasks : Pending(u)' => LockForm(u)'
  BY OverFacts DEF OrderInv, LockForm
<1>2. ASSUME NEW u \in Tasks, NEW v \in Tasks, u # v, Pending(u)', Pending(v)',
             Conflict(locks'[u], locks'[v])
      PROVE  u \in ahead'[v] \/ v \in ahead'[u]
  <2>1. u # t /\ v # t
    BY <1>2, OverFacts
  <2> QED BY <1>2, <2>1, OverFacts DEF OrderInv
<1>3. \A u \in Tasks : Running(u)' => ahead'[u] = {}
  BY OverFacts DEF OrderInv
<1> QED BY <1>1, <1>2, <1>3 DEF OrderInv

LEMMA StageOrder ==
  ASSUME TypeOK, OrderInv, NEW t \in Tasks, Stage(t)
  PROVE  OrderInv'
<1>1. \A u \in Tasks : (Running(u)' <=> Running(u)) /\ (Pending(u)' <=> Pending(u))
  BY DEF Stage, TypeOK, Running, Pending
<1>2. UNCHANGED <<request, locks, ahead>>
  BY DEF Stage
<1> QED BY <1>1, <1>2 DEF OrderInv, LockForm

LEMMA CloseOrder == ASSUME OrderInv, Close PROVE OrderInv'
  BY DEF OrderInv, Close, LockForm, Pending, Running

\* What runs, or may start, touches other keys than whatever else runs.
LEMMA Alone ==
  ASSUME OrderInv, NEW t \in Tasks, NEW u \in Tasks, t # u,
         Running(t) \/ ItsTurn(t), Running(u)
  PROVE  ~Conflict(locks[t], locks[u])
<1>1. ahead[t] = {} /\ ahead[u] = {} /\ Pending(t) /\ Pending(u)
  BY DEF OrderInv, ItsTurn, Pending
<1> QED BY <1>1 DEF OrderInv

-----------------------------------------------------------------------------
(* A plan stays right until it is committed. *)

\* Nothing but a commit of its own changes what the plan of u depends on.
LEMMA KeptStays ==
  ASSUME TypeOK, OrderInv, NEW u \in Tasks, Running(u), Kept(u),
         plan'[u] = plan[u], request'[u] = request[u], locks'[u] = locks[u],
         \/ files' = files
         \/ locks[u] # AllKeys /\ \A k \in locks[u] : files'[k] = files[k]
  PROVE  Kept(u)'
<1> DEFINE r == request[u]
<1>1. CASE files' = files
  <2>1. KeepsFile(u, plan[u]) => KeepsFile(u, plan[u])'
    BY <1>1 DEF KeepsFile, Publication, Joined, Published
  <2>2. KeepsTree(u, plan[u]) => KeepsTree(u, plan[u])'
    BY <1>1, SameTreePlan DEF KeepsTree, IsDirectory, Destination, Published
  <2> QED BY <2>1, <2>2 DEF Kept
<1>2. CASE locks[u] # AllKeys /\ \A k \in locks[u] : files'[k] = files[k]
  <2>1. r \in Requests /\ LockForm(u) /\ KeepsFile(u, plan[u])
    BY <1>2 DEF TypeOK, OrderInv, Pending, Kept, KeepsTree
  <2>2. r.key \in locks[u]
    BY <1>2, <2>1, RequestParts DEF LockForm, Ops
  <2>3. files'[r.key] = files[r.key] /\ (r.key \in Published <=> r.key \in Published')
    BY <1>2, <2>2 DEF Published
  <2>4. Joined(r.key, u)' = Joined(r.key, u)
    BY <2>3 DEF Joined
  <2>5. KeepsFile(u, plan[u])'
    BY <2>1, <2>3, <2>4 DEF KeepsFile, Publication
  <2> QED BY <2>5 DEF Kept
<1> QED BY <1>1, <1>2

\* A file's commit touches what its task has locked.
LEMMA CommitsInside ==
  ASSUME TypeOK, OrderInv, NEW t \in Tasks, Running(t), Kept(t), locks[t] # AllKeys
  PROVE  \A k \in Keys \ locks[t] : Committed(plan[t])[k] = files[k]
<1>1. request[t] \in Requests /\ LockForm(t) /\ KeepsFile(t, plan[t])
  BY DEF TypeOK, OrderInv, Pending, Kept, KeepsTree
<1>2. request[t].key \in locks[t] /\ Target(request[t]) \in locks[t]
  BY <1>1, RequestParts DEF LockForm, Ops, Target
<1>3. ASSUME NEW c, NEW g \in SUBSET locks[t], plan[t] = Publication(Target(request[t]), c, g)
      PROVE  \A k \in Keys \ locks[t] : Committed(plan[t])[k] = files[k]
  BY <1>2, <1>3 DEF Committed, Publication, NoFiles
<1> QED BY <1>1, <1>2, <1>3 DEF KeepsFile, Target

LEMMA MadeApart ==
  ASSUME TypeOK, OrderInv, Planned, NEW t \in Tasks, NEW u \in Tasks, t # u,
         Running(t), Running(u)
  PROVE  plan[t].made \cap plan[u].made = {}
  BY Alone DEF Planned, Conflict

\* A subtree that moves is alone.
LEMMA TreeAlone ==
  ASSUME TypeOK, OrderInv, Planned, NEW t \in Tasks, Running(t), KeepsTree(t, plan[t])
  PROVE  creating = {}
<1>1. \A u \in Tasks : Running(u) => u = t
  BY Alone DEF KeepsTree, Conflict
<1>2. plan[t].made = {}
  BY TreePlanType DEF KeepsTree, TypeOK, Pending
<1> QED BY <1>1, <1>2 DEF Planned

\* The files once the subtree has moved.
AfterMove(r) ==
  LET moved == Under[r.key] \cap Published
      at == Rebase[<<r.key, r.to>>]
  IN  [k \in Keys |-> IF \E j \in moved : at[j] = k
                     THEN files[CHOOSE j \in moved : at[j] = k]
                     ELSE IF k \in moved THEN None ELSE files[k]]

LEMMA TreeMoved ==
  ASSUME NEW r \in Requests, r.to # r.key
  PROVE  Committed(TreePlan(r)) = AfterMove(r)
<1> DEFINE moved == Under[r.key] \cap Published
           at == Rebase[<<r.key, r.to>>]
           put == [k \in Keys |-> IF \E j \in moved : at[j] = k
                                 THEN files[CHOOSE j \in moved : at[j] = k] ELSE None]
<1>1. TreePlan(r).gone = moved /\ TreePlan(r).put = put
  BY DEF TreePlan
<1>2. ASSUME NEW k \in Keys, \E j \in moved : at[j] = k
      PROVE  files[CHOOSE j \in moved : at[j] = k] # None
  <2>1. (CHOOSE j \in moved : at[j] = k) \in moved
    BY <1>2
  <2> QED BY <2>1 DEF Published
<1>3. \A k \in Keys : put[k] # None <=> \E j \in moved : at[j] = k
  BY <1>2
<1> HIDE DEF put
<1>4. Committed(TreePlan(r)) =
        [k \in Keys |-> IF put[k] # None THEN put[k]
                       ELSE IF k \in moved THEN None ELSE files[k]]
  BY <1>1 DEF Committed
<1>5. \A k \in Keys :
        (IF put[k] # None THEN put[k] ELSE IF k \in moved THEN None ELSE files[k]) =
        (IF \E j \in moved : at[j] = k THEN files[CHOOSE j \in moved : at[j] = k]
         ELSE IF k \in moved THEN None ELSE files[k])
  BY <1>3 DEF put
<1> QED BY <1>4, <1>5 DEF AfterMove

\* Files that move together stay apart, and clear of those that stay.
LEMMA TreeHierarchy ==
  ASSUME TypeOK, Hierarchy, NEW r \in Requests, r.op = "rename", Destination(r),
         files' = Committed(TreePlan(r))
  PROVE  \A j, k \in Published' : k \notin Under[j]
<1> DEFINE moved == Under[r.key] \cap Published
           at == Rebase[<<r.key, r.to>>]
<1>1. CASE r.to = r.key
  <2>1. files' = files
    BY <1>1 DEF TreePlan, Committed, NoFiles, TypeOK, Contents
  <2> QED BY <2>1 DEF Hierarchy, Published
<1>2. CASE r.to # r.key
  <2>1. files' = [k \in Keys |-> IF \E j \in moved : at[j] = k
                                THEN files[CHOOSE j \in moved : at[j] = k]
                                ELSE IF k \in moved THEN None ELSE files[k]]
    BY <1>2, TreeMoved DEF AfterMove
  <2>2. \A k \in Published' : k \in Published \/ \E j \in moved : at[j] = k
    BY <2>1 DEF Published
  <2>3. \A j \in moved : /\ at[j] \in Under[r.to] /\ at[j] \in Keys
                         /\ j \in Published /\ j \in Under[r.key] /\ j \in Keys
    BY RebaseAssumption, RequestParts DEF Published
  <2>4. /\ r.to \in Keys
        /\ \A j \in Published : j \notin Under[r.to] /\ r.to \notin Under[j] /\ r.to # j
    BY <1>2, RequestParts DEF Destination, IsDirectory
  <2> SUFFICES ASSUME NEW j \in Published', NEW k \in Published', k \in Under[j]
               PROVE  FALSE
    OBVIOUS
  <2>5. j \in Keys /\ k \in Keys
    BY DEF Published
  <2>6. CASE j \in Published /\ k \in Published
    BY <2>6 DEF Hierarchy
  <2>7. CASE j \in Published /\ \E i \in moved : at[i] = k
    <3>1. k \in Under[r.to]
      BY <2>3, <2>7
    <3>2. j = r.to \/ j \in Under[r.to] \/ r.to \in Under[j]
      BY <2>4, <2>5, <3>1, TreeAssumption
    <3> QED BY <2>4, <2>7, <3>2
  <2>8. CASE k \in Published /\ \E i \in moved : at[i] = j
    <3>1. k \in Under[r.to]
      BY <2>3, <2>4, <2>5, <2>8, TreeAssumption
    <3> QED BY <2>4, <2>8, <3>1
  <2>9. CASE (\E i \in moved : at[i] = j) /\ (\E i \in moved : at[i] = k)
    <3>1. PICK a \in moved : at[a] = j
      BY <2>9
    <3>2. PICK b \in moved : at[b] = k
      BY <2>9
    <3>3. b \in Under[a]
      BY <2>3, <3>1, <3>2, RebaseAssumption
    <3> QED BY <2>3, <3>3 DEF Hierarchy
  <2> QED BY <2>2, <2>6, <2>7, <2>8, <2>9
<1> QED BY <1>1, <1>2

-----------------------------------------------------------------------------
(* Every step preserves the plans. *)

LEMMA AcceptPlans ==
  ASSUME StoreInv, NEW t \in Tasks, NEW r \in Requests, Accept(t, r)
  PROVE  PlansInv'
<1>1. TypeOK /\ OrderInv /\ PlansInv
  BY DEF StoreInv
<1>2. /\ UNCHANGED <<ready, files, creating, plan>>
      /\ \A u \in Tasks \ {t} : request'[u] = request[u] /\ locks'[u] = locks[u]
      /\ \A u \in Tasks : (Running(u)' <=> Running(u)) /\ (Running(u) => u # t)
  BY <1>1 DEF Accept, TypeOK, Running
<1>3. \A u \in Tasks : ready /\ Running(u) => Kept(u)'
  BY <1>1, <1>2, KeptStays DEF PlansInv
<1>4. Planned' /\ Hierarchy'
  BY <1>1, <1>2 DEF PlansInv, Planned, Hierarchy, Published
<1> QED BY <1>2, <1>3, <1>4 DEF PlansInv

LEMMA BeginsPlans ==
  ASSUME StoreInv, NEW t \in Tasks, NEW p \in Plan, ItsTurn(t), Begins(t, p)
  PROVE  PlansInv'
<1> DEFINE r == request[t]
<1>1. TypeOK /\ OrderInv /\ PlansInv /\ state[t] = "queued" /\ Publishes(t, p)
  BY DEF StoreInv, ItsTurn, Begins
<1>2. /\ plan'[t] = p /\ \A u \in Tasks \ {t} : plan'[u] = plan[u]
      /\ creating' = creating \cup p.made
      /\ UNCHANGED <<ready, files, request, locks, ahead>>
      /\ Running(t)' /\ ~Running(t)
      /\ \A u \in Tasks \ {t} : Running(u)' <=> Running(u)
  BY <1>1, PublishesFacts DEF Running
<1>3. r \in Requests /\ LockForm(t)
  BY <1>1 DEF OrderInv, TypeOK, Pending
<1>4. locks[t] = AllKeys \/ p.made \subseteq locks[t]
  <2>1. Target(r) \in locks[t] \/ locks[t] = AllKeys
    BY <1>3, RequestParts DEF LockForm, Ops, Target
  <2> QED BY <2>1 DEF Begins
<1>5. Planned'
  <2>1. \A u \in Tasks : Running(u)' => locks'[u] = AllKeys \/ plan'[u].made \subseteq locks'[u]
    BY <1>1, <1>2, <1>4 DEF PlansInv, Planned
  <2>2. creating' = UNION {plan'[u].made : u \in {v \in Tasks : Running(v)'}}
    BY <1>1, <1>2 DEF PlansInv, Planned
  <2> QED BY <2>1, <2>2 DEF Planned
<1>6. Hierarchy'
  <2>1. CASE p.made = {}
    BY <1>1, <1>2, <2>1 DEF PlansInv, Hierarchy, Published
  <2>2. CASE p.made = {Target(r)} /\ HierarchyAllows(Target(r))
    <3> DEFINE k == Target(r)
    <3>1. k \in Keys /\ k \notin Under[k] /\ Under[k] \subseteq Keys
      BY <1>3, RequestParts, TreeAssumption DEF Target
    <3>2. /\ \A j \in Published \cup creating : k \notin Under[j]
          /\ k \in Published \/ Under[k] \cap (Published \cup creating) = {}
      BY <2>2 DEF HierarchyAllows, FileAbove
    <3>3. Published' = Published /\ creating' = creating \cup {k}
      BY <1>2, <2>2 DEF Published
    <3> QED BY <1>1, <3>1, <3>2, <3>3 DEF PlansInv, Hierarchy
  <2> QED BY <2>1, <2>2 DEF Begins
<1>7. \A u \in Tasks \ {t} : ready /\ Running(u) => Kept(u)'
  BY <1>1, <1>2, KeptStays DEF PlansInv
<1>8. Kept(t)'
  <2>1. KeepsFile(t, p) => KeepsFile(t, plan[t])'
    BY <1>2 DEF KeepsFile, Publication, Joined, Published
  <2>2. KeepsTree(t, p) => KeepsTree(t, plan[t])'
    BY <1>2, SameTreePlan DEF KeepsTree, IsDirectory, Destination, Published
  <2> QED BY <2>1, <2>2 DEF Begins, Kept
<1> QED BY <1>2, <1>5, <1>6, <1>7, <1>8 DEF PlansInv

LEMMA EndsPlanned ==
  ASSUME TypeOK, Planned, NEW t \in Tasks, NEW s \in {"done", "failed"}, ~Running(t), Ends(t, s)
  PROVE  Planned' /\ creating' = creating
<1>1. /\ \A u \in Tasks : Running(u)' <=> Running(u)
      /\ \A u \in Tasks \ {t} : locks'[u] = locks[u]
      /\ UNCHANGED <<creating, plan>>
  BY OverFacts DEF Ends
<1> QED BY <1>1 DEF Planned

LEMMA RefusedPlans ==
  ASSUME StoreInv, NEW t \in Tasks, ItsTurn(t), Refused(t)
  PROVE  PlansInv'
<1>1. TypeOK /\ OrderInv /\ PlansInv /\ ~Running(t)
  BY DEF StoreInv, ItsTurn, Running
<1>2. Ends(t, "failed") /\ UNCHANGED <<files, ready, plan>>
  BY DEF Refused, Ends
<1>3. \A u \in Tasks \ {t} : /\ request'[u] = request[u] /\ locks'[u] = locks[u]
                             /\ Running(u)' <=> Running(u)
  BY <1>1, <1>2, OverFacts DEF Ends
<1>4. ~Running(t)'
  BY <1>1, <1>2, OverFacts DEF Ends
<1>5. Planned' /\ creating' = creating
  BY <1>1, <1>2, EndsPlanned DEF PlansInv
<1>6. Hierarchy'
  BY <1>1, <1>2, <1>5 DEF PlansInv, Hierarchy, Published
<1>7. \A u \in Tasks \ {t} : ready /\ Running(u) => Kept(u)'
  BY <1>1, <1>2, <1>3, KeptStays DEF PlansInv
<1> QED BY <1>2, <1>3, <1>4, <1>5, <1>6, <1>7 DEF PlansInv

LEMMA DropsPlans ==
  ASSUME StoreInv, NEW t \in Tasks, NEW gone \in SUBSET Keys, ItsTurn(t), Drops(t, gone)
  PROVE  PlansInv'
<1>1. TypeOK /\ OrderInv /\ PlansInv /\ ~Running(t)
  BY DEF StoreInv, ItsTurn, Running
<1>2. /\ Ends(t, "done") /\ UNCHANGED <<ready, plan>>
      /\ files' = [k \in Keys |-> IF k \in gone THEN None ELSE files[k]]
      /\ locks[t] = AllKeys \/ gone \subseteq locks[t]
  BY DEF Drops, Removes, Ends
<1>3. \A u \in Tasks \ {t} : /\ request'[u] = request[u] /\ locks'[u] = locks[u]
                             /\ Running(u)' <=> Running(u)
  BY <1>1, <1>2, OverFacts DEF Ends
<1>4. ~Running(t)'
  BY <1>1, <1>2, OverFacts DEF Ends
<1>5. Planned' /\ creating' = creating
  BY <1>1, <1>2, EndsPlanned DEF PlansInv
<1>6. Hierarchy'
  BY <1>1, <1>2, <1>5 DEF PlansInv, Hierarchy, Published
<1>7. ASSUME NEW u \in Tasks \ {t}, ready, Running(u) PROVE Kept(u)'
  <2>1. ~Conflict(locks[t], locks[u])
    BY <1>1, <1>7, Alone
  <2>2. locks[u] # AllKeys /\ gone \cap locks[u] = {} /\ locks[u] \subseteq Keys
    BY <1>1, <1>2, <2>1 DEF Conflict, TypeOK
  <2>3. \A k \in locks[u] : files'[k] = files[k]
    BY <1>2, <2>2
  <2> QED BY <1>1, <1>2, <1>3, <1>7, <2>2, <2>3, KeptStays DEF PlansInv
<1> QED BY <1>2, <1>3, <1>4, <1>5, <1>6, <1>7 DEF PlansInv

LEMMA PublicationEndsPlanned ==
  ASSUME TypeOK, OrderInv, Planned, NEW t \in Tasks, NEW s \in {"done", "failed"}, Running(t),
         PublicationEnds(t, s)
  PROVE  Planned' /\ creating' \subseteq creating
<1>1. /\ \A u \in Tasks \ {t} : /\ Running(u)' <=> Running(u)
                                /\ locks'[u] = locks[u] /\ plan'[u] = plan[u]
      /\ ~Running(t)' /\ creating' = creating \ plan[t].made
  BY OverFacts DEF PublicationEnds, TypeOK
<1>2. creating' = UNION {plan'[u].made : u \in {v \in Tasks : Running(v)'}}
  <2>1. ASSUME NEW k \in creating, k \notin plan[t].made
        PROVE  \E u \in Tasks : Running(u)' /\ k \in plan'[u].made
    BY <1>1, <2>1 DEF Planned
  <2>2. ASSUME NEW u \in Tasks, Running(u)', NEW k \in plan'[u].made
        PROVE  k \in creating /\ k \notin plan[t].made
    <3>1. u # t /\ Running(u) /\ k \in plan[u].made
      BY <1>1, <2>2
    <3> QED BY <3>1, MadeApart DEF Planned
  <2> QED BY <1>1, <2>1, <2>2
<1> QED BY <1>1, <1>2 DEF Planned

LEMMA FailPlans ==
  ASSUME StoreInv, NEW t \in Tasks, Running(t), files' = files,
         NEW s \in {"done", "failed"}, PublicationEnds(t, s)
  PROVE  PlansInv'
<1>1. TypeOK /\ OrderInv /\ PlansInv /\ files' = files /\ ready' = ready
  BY DEF StoreInv, PublicationEnds
<1>2. /\ \A u \in Tasks \ {t} : /\ request'[u] = request[u] /\ locks'[u] = locks[u]
                                /\ Running(u)' <=> Running(u)
                                /\ plan'[u] = plan[u]
      /\ ~Running(t)'
  BY <1>1, OverFacts DEF PublicationEnds, TypeOK
<1>3. Planned' /\ creating' \subseteq creating
  BY <1>1, PublicationEndsPlanned DEF PlansInv
<1>4. Hierarchy'
  BY <1>1, <1>3 DEF PlansInv, Hierarchy, Published
<1>5. \A u \in Tasks \ {t} : ready /\ Running(u) => Kept(u)'
  BY <1>1, <1>2, KeptStays DEF PlansInv
<1> QED BY <1>1, <1>2, <1>3, <1>4, <1>5 DEF PlansInv

LEMMA CommitPlans ==
  ASSUME StoreInv, NEW t \in Tasks, Running(t), ready, files' = Committed(plan[t]),
         PublicationEnds(t, "done")
  PROVE  PlansInv'
<1>1. TypeOK /\ OrderInv /\ PlansInv /\ ready' = ready /\ Kept(t)
  BY DEF StoreInv, PublicationEnds, PlansInv
<1>2. /\ \A u \in Tasks \ {t} : /\ request'[u] = request[u] /\ locks'[u] = locks[u]
                                /\ Running(u)' <=> Running(u)
                                /\ plan'[u] = plan[u]
      /\ ~Running(t)'
  BY <1>1, OverFacts DEF PublicationEnds, TypeOK
<1>3. Planned' /\ creating' \subseteq creating
  BY <1>1, PublicationEndsPlanned DEF PlansInv
<1>4. request[t] \in Requests
  BY <1>1 DEF TypeOK, Pending
<1>5. Hierarchy'
  <2>1. CASE KeepsTree(t, plan[t])
    <3>1. creating' = {}
      BY <1>1, <1>3, <2>1, TreeAlone DEF PlansInv
    <3>2. \A j, k \in Published' : k \notin Under[j]
      BY <1>1, <1>4, <2>1, TreeHierarchy DEF PlansInv, KeepsTree
    <3> QED BY <3>1, <3>2 DEF Hierarchy
  <2>2. CASE KeepsFile(t, plan[t])
    <3>1. Published' \subseteq Published \cup plan[t].made
      <4>1. ASSUME NEW k \in Keys, NEW c, NEW g, plan[t] = Publication(k, c, g)
            PROVE  Published' \subseteq Published \cup plan[t].made
        BY <4>1 DEF Published, Committed, Publication, NoFiles
      <4>2. request[t].key \in Keys /\ request[t].to \in Keys
        BY <1>4, RequestParts
      <4> QED BY <2>2, <4>1, <4>2 DEF KeepsFile
    <3>2. plan[t].made \subseteq creating
      BY <1>1 DEF PlansInv, Planned
    <3> QED BY <1>1, <1>3, <3>1, <3>2 DEF PlansInv, Hierarchy
  <2> QED BY <1>1, <2>1, <2>2 DEF Kept
<1>6. ASSUME NEW u \in Tasks \ {t}, Running(u) PROVE Kept(u)'
  <2>1. ~Conflict(locks[t], locks[u])
    BY <1>1, <1>6, Alone
  <2>2. locks[t] # AllKeys /\ locks[u] # AllKeys /\ locks[u] \subseteq Keys \ locks[t]
    BY <1>1, <2>1 DEF Conflict, TypeOK
  <2>3. \A k \in locks[u] : files'[k] = files[k]
    BY <1>1, <2>2, CommitsInside
  <2> QED BY <1>1, <1>2, <1>6, <2>2, <2>3, KeptStays DEF PlansInv
<1> QED BY <1>1, <1>2, <1>3, <1>5, <1>6 DEF PlansInv

LEMMA StagePlans ==
  ASSUME StoreInv, NEW t \in Tasks, Stage(t)
  PROVE  PlansInv'
<1>1. TypeOK /\ OrderInv /\ PlansInv
  BY DEF StoreInv
<1>2. /\ UNCHANGED <<ready, files, creating, request, locks, ahead, plan>>
      /\ \A u \in Tasks : Running(u)' <=> Running(u)
  BY <1>1 DEF Stage, Running, TypeOK
<1>3. \A u \in Tasks : ready /\ Running(u) => Kept(u)'
  BY <1>1, <1>2, KeptStays DEF PlansInv
<1> QED BY <1>1, <1>2, <1>3 DEF PlansInv, Planned, Hierarchy, Published

LEMMA ClosePlans ==
  ASSUME StoreInv, Close
  PROVE  PlansInv'
<1>1. PlansInv /\ ready' = FALSE /\ files' = NoFiles
      /\ UNCHANGED <<creating, state, request, locks, ahead, plan>>
  BY DEF StoreInv, Close
<1>2. Published' = {}
  BY <1>1 DEF Published, NoFiles
<1> QED BY <1>1, <1>2 DEF PlansInv, Planned, Hierarchy, Running

-----------------------------------------------------------------------------
(* The invariant. *)

LEMMA InitStore == Init => StoreInv
<1> SUFFICES ASSUME Init PROVE StoreInv
  OBVIOUS
<1>1. TypeOK
  BY InitType
<1>2. \A t \in Tasks : ~Pending(t) /\ ~Running(t)
  BY DEF Init, Pending, Running
<1>3. Published = {} /\ creating = {}
  BY DEF Init, Published, NoFiles
<1> QED BY <1>1, <1>2, <1>3 DEF StoreInv, OrderInv, PlansInv, Planned, Hierarchy

LEMMA TurnStore ==
  ASSUME StoreInv, NEW t \in Tasks, Turn(t)
  PROVE  StoreInv'
<1>1. TypeOK /\ OrderInv
  BY DEF StoreInv
<1>2. CASE Start(t)
  <2>1. ItsTurn(t) /\ state[t] = "queued"
    BY <1>2 DEF Start, ItsTurn
  <2>2. CASE Refused(t)
    <3>1. Ends(t, "failed") /\ files' \in Contents /\ Over(t, "failed")
      BY <1>1, <2>2 DEF Refused, Ends, TypeOK
    <3> QED BY <1>1, <2>1, <2>2, <3>1, EndsType, OverOrder, RefusedPlans DEF StoreInv
  <2>3. CASE \E p \in Plan : Begins(t, p)
    <3>1. PICK p \in Plan : Begins(t, p)
      BY <2>3
    <3>2. Publishes(t, p)
      BY <3>1 DEF Begins
    <3> QED BY <1>1, <2>1, <3>1, <3>2, BeginsType, BeginsOrder, BeginsPlans DEF StoreInv
  <2>4. CASE \E gone \in SUBSET Keys : Drops(t, gone)
    <3>1. PICK gone \in SUBSET Keys : Drops(t, gone)
      BY <2>4
    <3>2. Ends(t, "done") /\ Over(t, "done") /\ files' \in Contents
      BY <1>1, <3>1 DEF Drops, Removes, Ends, TypeOK, Contents
    <3> QED BY <1>1, <2>1, <3>1, <3>2, EndsType, OverOrder, DropsPlans DEF StoreInv
  <2> QED BY <1>1, <1>2, <2>2, <2>3, <2>4, TurnOf
<1>3. CASE Stage(t)
  BY <1>1, <1>3, StageType, StageOrder, StagePlans DEF StoreInv
<1>4. CASE Flush(t)
  <2>1. Running(t) /\ PublicationEnds(t, "done") /\ Over(t, "done")
    BY <1>4 DEF Flush, Running, PublicationEnds
  <2>2. files' \in Contents
    BY <1>1, <1>4, <2>1, RunningPlan, CommittedType DEF Flush, TypeOK
  <2>3. PlansInv'
    BY <1>4, <2>1, FailPlans, CommitPlans DEF Flush
  <2> QED BY <1>1, <2>1, <2>2, <2>3, PublicationEndsType, OverOrder DEF StoreInv
<1>5. CASE Fail(t)
  <2>1. /\ Running(t) /\ PublicationEnds(t, "failed") /\ Over(t, "failed")
        /\ files' = files /\ files' \in Contents
    BY <1>1, <1>5 DEF Fail, Running, PublicationEnds, TypeOK
  <2> QED BY <1>1, <2>1, PublicationEndsType, OverOrder, FailPlans DEF StoreInv
<1> QED BY <1>2, <1>3, <1>4, <1>5 DEF Turn

LEMMA NextStore == ASSUME StoreInv, [Next]_vars PROVE StoreInv'
<1>1. ASSUME NEW t \in Tasks, NEW r \in Requests, Accept(t, r) PROVE StoreInv'
  BY <1>1, AcceptType, AcceptOrder, AcceptPlans DEF StoreInv
<1>2. ASSUME NEW t \in Tasks, Turn(t) PROVE StoreInv'
  BY <1>2, TurnStore
<1>3. CASE Close
  BY <1>3, CloseType, CloseOrder, ClosePlans DEF StoreInv
<1>4. CASE UNCHANGED vars
  BY <1>4, StillThere
<1> QED BY <1>1, <1>2, <1>3, <1>4 DEF Next

LEMMA StoreInductive == Spec => []StoreInv
BY InitStore, NextStore, PTL DEF Spec

\* The types of the store's state are those TypeOK names.
THEOREM StoreTyped == Spec => []TypeOK
<1>1. StoreInv => TypeOK
  BY DEF StoreInv
<1> QED BY <1>1, StoreInductive, PTL

\* No file lies below another, also of those whose publication is under way.
THEOREM HierarchyHolds == Spec => []Hierarchy
<1>1. StoreInv => Hierarchy
  BY DEF StoreInv, PlansInv
<1> QED BY <1>1, StoreInductive, PTL

-----------------------------------------------------------------------------
(* The store implements FileTree. *)

LEMMA SameFiles == Tree!Files = Published
  BY DEF Tree!Files, Published

\* A task that is over is shown as over, the others as before.
LEMMA OverShown ==
  ASSUME TypeOK, NEW t \in Tasks, NEW s \in {"done", "failed"}, Pending(t), Over(t, s)
  PROVE  Shown[t] = "asked" /\ Tree!Ends(t, s)
<1>1. \A u \in Tasks : Shown'[u] = [Shown EXCEPT ![t] = s][u]
  BY OverFacts DEF Shown
<1>2. Shown' = [Shown EXCEPT ![t] = s]
  BY <1>1 DEF Shown
<1>3. request' = [request EXCEPT ![t] = None]
  BY DEF Over
<1> QED BY <1>2, <1>3 DEF Tree!Ends, Shown

LEMMA AcceptStep ==
  ASSUME TypeOK, NEW t \in Tasks, NEW r \in Requests, Accept(t, r)
  PROVE  Tree!Ask(t)
<1>1. /\ state[t] = "new" /\ state'[t] = "queued"
      /\ \A u \in Tasks \ {t} : state'[u] = state[u]
      /\ request' = [request EXCEPT ![t] = r]
      /\ UNCHANGED <<ready, files>>
  BY DEF Accept, TypeOK
<1>2. Shown[t] = "new"
  BY <1>1 DEF Shown, Pending, Running
<1>3. \A u \in Tasks : Shown'[u] = [Shown EXCEPT ![t] = "asked"][u]
  BY <1>1 DEF Shown, Pending, Running
<1>4. Shown' = [Shown EXCEPT ![t] = "asked"]
  BY <1>3 DEF Shown
<1> QED BY <1>1, <1>2, <1>4 DEF Tree!Ask

\* What fails, and what begins its publication, has no effect.
LEMMA RefusedStep ==
  ASSUME TypeOK, NEW t \in Tasks, Pending(t), Over(t, "failed"), UNCHANGED <<ready, files>>
  PROVE  Tree!Fail(t)
  BY OverShown DEF Tree!Fail

LEMMA QuietStep ==
  ASSUME \A u \in Tasks : (Pending(u)' <=> Pending(u)) /\ (~Pending(u) => state'[u] = state[u]),
         UNCHANGED <<ready, files, request>>
  PROVE  UNCHANGED Tree!vars
<1>1. Shown' = Shown
  BY DEF Shown
<1> QED BY <1>1 DEF Tree!vars

\* A removal, or a directory made: its conditions are those of its step.
LEMMA RemovalEffect ==
  ASSUME TypeOK, NEW t \in Tasks, Start(t), NEW gone \in SUBSET Keys, ready, Removes(t, gone)
  PROVE  Tree!TakesEffect(t, request[t])
<1> DEFINE r == request[t]
<1>1. /\ state[t] = "queued" /\ r \in Requests
      /\ state'[t] = "done" /\ UNCHANGED plan
      /\ files' = [k \in Keys |-> IF k \in gone THEN None ELSE files[k]]
  BY DEF Start, ItsTurn, Pending, TypeOK, Removes, Ends, Over
<1>2. \A s : ~Ends(t, "failed")
  BY <1>1 DEF Ends, Over, TypeOK
<1>3. \A p : ~Publishes(t, p)
  BY <1>1 DEF Publishes, TypeOK
<1>4. ASSUME NEW g \in SUBSET Keys, Removes(t, g)
      PROVE  files' = Tree!Without(g)
  BY <1>4 DEF Removes, Tree!Without
<1>5. Tree!Without({}) = files
  BY DEF Tree!Without, TypeOK, Contents
<1>6. r.key \in Keys /\ Under[r.key] \in SUBSET Keys /\ {r.key} \in SUBSET Keys
  BY <1>1, RequestParts
<1>7. CASE r.op = "write"
  BY <1>2, <1>3, <1>7 DEF Start, Write, Refused
<1>8. CASE r.op = "append"
  BY <1>2, <1>3, <1>8 DEF Start, AppendTo, Refused
<1>9. CASE r.op = "unlink"
  <2>1. r.key \in Published /\ Removes(t, {r.key})
    BY <1>2, <1>9 DEF Start, Unlink, Refused
  <2> QED BY <1>4, <1>6, <1>9, <2>1, SameFiles DEF Tree!Unlink, Tree!TakesEffect
<1>10. CASE r.op = "mkdir"
  <2>1. MkdirAllows(r) /\ Removes(t, {})
    BY <1>2, <1>10 DEF Start, Mkdir, Refused
  <2>2. files' = files
    BY <1>4, <1>5, <2>1
  <2> QED BY <1>10, <2>1, <2>2, SameFiles
          DEF Tree!Mkdir, Tree!TakesEffect, MkdirAllows, FileAbove, IsDirectory, Tree!IsDirectory
<1>11. CASE r.op = "rm"
  <2>1. \/ r.key \in Published /\ Removes(t, {r.key})
        \/ "force" \in r.opts /\ ~IsDirectory(r.key) /\ Removes(t, {})
        \/ "recursive" \in r.opts /\ IsDirectory(r.key) /\ Removes(t, Under[r.key])
    BY <1>2, <1>11 DEF Start, Rm, Refused
  <2>2. Tree!Remove(r)
    BY <1>4, <1>5, <1>6, <1>11, <2>1, SameFiles DEF Tree!Remove, IsDirectory, Tree!IsDirectory
  <2> QED BY <2>2 DEF Tree!TakesEffect
<1>12. CASE r.op = "rename"
  BY <1>2, <1>3, <1>12 DEF Start, Rename, Refused
<1> QED BY <1>1, <1>7, <1>8, <1>9, <1>10, <1>11, <1>12, RequestParts DEF Ops

\* Whatever a key's file was checked against, there is room for it when it commits.
LEMMA RoomLeft ==
  ASSUME Hierarchy, NEW k \in creating
  PROVE  Tree!Room(k)
<1>1. \A j \in Published : k \notin Under[j] /\ j \notin Under[k]
  BY DEF Hierarchy
<1> QED BY <1>1, SameFiles DEF Tree!Room, Tree!IsDirectory

\* One key comes, others go.
LEMMA CommitOne ==
  ASSUME NEW k \in Keys, NEW c, c # None, NEW g \in SUBSET Keys
  PROVE  \A j \in Keys : Committed(Publication(k, c, g))[j] =
                           IF j = k THEN c ELSE IF j \in g THEN None ELSE files[j]
<1> DEFINE put == [NoFiles EXCEPT ![k] = c]
<1>1. Publication(k, c, g).put = put /\ Publication(k, c, g).gone = g
  BY DEF Publication
<1>2. \A j \in Keys : put[j] = IF j = k THEN c ELSE None
  BY DEF NoFiles
<1> HIDE DEF put
<1>3. Committed(Publication(k, c, g)) =
        [j \in Keys |-> IF put[j] # None THEN put[j] ELSE IF j \in g THEN None ELSE files[j]]
  BY <1>1 DEF Committed
<1> QED BY <1>2, <1>3

\* A commit is the effect of its mutation on the files of that moment.
LEMMA CommitEffect ==
  ASSUME StoreInv, NEW t \in Tasks, Running(t), ready, files' = Committed(plan[t])
  PROVE  Tree!TakesEffect(t, request[t])
<1> DEFINE r == request[t]
<1>1. TypeOK /\ Planned /\ Hierarchy /\ Kept(t) /\ r \in Requests
  BY DEF StoreInv, PlansInv, TypeOK, Pending
<1>2. plan[t].made \subseteq creating
  BY <1>1 DEF Planned
<1>3. files = [k \in Keys |-> files[k]] /\ files' = [k \in Keys |-> files'[k]]
  BY <1>1 DEF TypeOK, Contents, Committed
<1>4. r.key \in Keys /\ r.to \in Keys
  BY <1>1, RequestParts
<1>5. CASE /\ r.op = "write" /\ plan[t] = Publication(r.key, <<t>>, {})
           /\ "exclusive" \in r.opts => r.key \notin Published
  <2>1. Tree!Room(r.key)
    BY <1>1, <1>2, <1>5, RoomLeft DEF Publication
  <2>2. <<t>> # None
    <3>1. <<t>> \in Seq(Tasks)
      OBVIOUS
    <3> QED BY <3>1, RequestsAssumption
  <2>3. files' = [k \in Keys |-> IF k = r.key THEN <<t>> ELSE files[k]]
    BY <1>3, <1>4, <1>5, <2>2, CommitOne
  <2>4. files' = [files EXCEPT ![r.key] = <<t>>]
    BY <1>3, <2>3
  <2> QED BY <1>5, <2>1, <2>4, SameFiles DEF Tree!Write, Tree!TakesEffect
<1>6. CASE r.op = "append" /\ plan[t] = Publication(r.key, Joined(r.key, t), {})
  <2>1. Tree!Room(r.key)
    BY <1>1, <1>2, <1>6, RoomLeft DEF Publication
  <2>2. Joined(r.key, t) # None
    BY <1>1, <1>4, JoinedType, RequestsAssumption
  <2>3. files' = [k \in Keys |-> IF k = r.key THEN Joined(r.key, t) ELSE files[k]]
    BY <1>3, <1>4, <1>6, <2>2, CommitOne
  <2>4. Joined(r.key, t) = Append(IF files[r.key] = None THEN <<>> ELSE files[r.key], t)
    BY SMTT(30), <1>4 DEF Joined, Published
  <2>5. files' = [files EXCEPT ![r.key] = Append(IF @ = None THEN <<>> ELSE @, t)]
    BY <1>3, <2>3, <2>4
  <2> QED BY <1>6, <2>1, <2>5 DEF Tree!Add, Tree!TakesEffect
<1>7. CASE /\ r.op = "rename" /\ r.key \in Published
           /\ plan[t] = Publication(r.to, files[r.key], {r.key})
  <2>1. Tree!Room(r.to)
    BY <1>1, <1>2, <1>7, RoomLeft DEF Publication
  <2>2. files[r.key] # None
    BY <1>7 DEF Published
  <2>3. files' = [k \in Keys |-> IF k = r.to THEN files[r.key]
                                 ELSE IF k \in {r.key} THEN None ELSE files[k]]
    BY <1>3, <1>4, <1>7, <2>2, CommitOne
  <2>4. files' = [Tree!Without({r.key}) EXCEPT ![r.to] = files[r.key]]
    BY <2>3 DEF Tree!Without
  <2> QED BY <1>7, <2>1, <2>4, SameFiles DEF Tree!Rename, Tree!TakesEffect
<1>8. CASE KeepsTree(t, plan[t])
  <2> DEFINE moved == Under[r.key] \cap Published
             at == Rebase[<<r.key, r.to>>]
  <2>1. /\ r.op = "rename" /\ r.key \notin Published /\ moved # {} /\ Destination(r)
        /\ plan[t] = TreePlan(r)
    BY <1>8 DEF KeepsTree, IsDirectory
  <2>2. CASE r.to = r.key
    <3>1. files' = files
      BY <1>3, <2>1, <2>2 DEF TreePlan, Committed, NoFiles
    <3> QED BY <2>1, <2>2, <3>1, SameFiles DEF Tree!RenameTree, Tree!TakesEffect
  <2>3. CASE r.to # r.key
    <3>1. files' = AfterMove(r)
      BY <1>1, <2>1, <2>3, TreeMoved
    <3>2. files' = [k \in Keys |-> IF \E j \in moved : at[j] = k
                                   THEN files[CHOOSE j \in moved : at[j] = k]
                                   ELSE Tree!Without(moved)[k]]
      BY <3>1 DEF AfterMove, Tree!Without
    <3>3. /\ r.to \notin Under[r.key] /\ r.to \notin Published /\ Tree!Room(r.to)
      BY SMTT(30), <2>1, <2>3, SameFiles DEF Destination, Tree!Room, Tree!IsDirectory, IsDirectory
    <3>4. Tree!RenameTree(r)
      BY <2>1, <2>3, <3>2, <3>3 DEF Tree!RenameTree, Tree!Files, Published
    <3> QED BY <3>4 DEF Tree!TakesEffect
  <2> QED BY <2>2, <2>3
<1> QED BY <1>1, <1>5, <1>6, <1>7, <1>8 DEF Kept, KeepsFile

LEMMA TurnStep ==
  ASSUME StoreInv, NEW t \in Tasks, Turn(t)
  PROVE  Tree!Next \/ UNCHANGED Tree!vars \/ (~ready /\ UNCHANGED <<ready, files>>)
<1>1. TypeOK /\ OrderInv
  BY DEF StoreInv
<1>2. CASE Start(t)
  <2>1. Pending(t) /\ state[t] = "queued"
    BY <1>2 DEF Start, ItsTurn, Pending
  <2>2. CASE Refused(t)
    BY <1>1, <2>1, <2>2, RefusedStep DEF Refused, Ends, Tree!Next
  <2>3. CASE \E p \in Plan : Begins(t, p)
    <3>1. PICK p \in Plan : Publishes(t, p)
      BY <2>3 DEF Begins
    <3>2. \A u \in Tasks : (Pending(u)' <=> Pending(u)) /\ (~Pending(u) => state'[u] = state[u])
      BY <1>1, <2>1, <3>1, PublishesFacts
    <3> QED BY <3>1, <3>2, QuietStep DEF Publishes
  <2>4. CASE \E gone \in SUBSET Keys : Drops(t, gone)
    <3>1. PICK gone \in SUBSET Keys : Drops(t, gone)
      BY <2>4
    <3>2. /\ ready /\ ready' = ready /\ Over(t, "done") /\ Removes(t, gone)
      BY <3>1 DEF Drops, Removes, Ends
    <3>3. Tree!TakesEffect(t, request[t])
      BY <1>1, <1>2, <3>2, RemovalEffect
    <3>4. Tree!Succeed(t)
      BY <1>1, <2>1, <3>2, <3>3, OverShown DEF Tree!Succeed
    <3> QED BY <3>4 DEF Tree!Next
  <2> QED BY <1>1, <1>2, <2>2, <2>3, <2>4, TurnOf
<1>3. CASE Stage(t)
  <2>1. \A u \in Tasks : (Pending(u)' <=> Pending(u)) /\ (~Pending(u) => state'[u] = state[u])
    BY <1>1, <1>3 DEF Stage, TypeOK, Pending, Running
  <2> QED BY <1>3, <2>1, QuietStep DEF Stage
<1>4. CASE Flush(t)
  <2>1. /\ Running(t) /\ Pending(t) /\ PublicationEnds(t, "done") /\ Over(t, "done")
        /\ ready' = ready
    BY <1>4 DEF Flush, Running, Pending, PublicationEnds
  <2>2. CASE ready
    <3>1. Tree!TakesEffect(t, request[t])
      BY <1>4, <2>1, <2>2, CommitEffect DEF Flush
    <3>2. Tree!Succeed(t)
      BY <1>1, <2>1, <2>2, <3>1, OverShown DEF Tree!Succeed
    <3> QED BY <3>2 DEF Tree!Next
  <2>3. CASE ~ready
    BY <1>4, <2>1, <2>3 DEF Flush
  <2> QED BY <2>2, <2>3
<1>5. CASE Fail(t)
  <2>1. Pending(t) /\ Over(t, "failed") /\ UNCHANGED <<ready, files>>
    BY <1>5 DEF Fail, Pending, Running, PublicationEnds
  <2> QED BY <1>1, <2>1, RefusedStep DEF Tree!Next
<1> QED BY <1>2, <1>3, <1>4, <1>5 DEF Turn

\* As long as the kernel is ready, every mutation that succeeds takes effect in one
\* step, on the files of that step and under the conditions of node:fs, and one that
\* fails changes nothing; once it is closed none takes effect.
THEOREM StoreActsAtomically == Spec => ActsAtomicallyWhileReady
<1>1. Init => Tree!Init
  <2> SUFFICES ASSUME Init PROVE Tree!Init
    OBVIOUS
  <2>1. Shown = [t \in Tasks |-> "new"]
    BY DEF Init, Shown, Pending, Running
  <2> QED BY <2>1 DEF Init, NoFiles, Tree!Init, Tree!Nothing
<1> DEFINE TooLate == ~ready /\ UNCHANGED <<ready, files>>
<1>2. StoreInv /\ [Next]_vars => [Tree!Next \/ TooLate]_(Tree!vars)
  <2> SUFFICES ASSUME StoreInv, [Next]_vars PROVE [Tree!Next \/ TooLate]_(Tree!vars)
    OBVIOUS
  <2>1. ASSUME NEW t \in Tasks, NEW r \in Requests, Accept(t, r) PROVE Tree!Next
    BY <2>1, AcceptStep DEF StoreInv, Tree!Next
  <2>2. ASSUME NEW t \in Tasks, Turn(t) PROVE [Tree!Next \/ TooLate]_(Tree!vars)
    BY <2>2, TurnStep
  <2>3. CASE Close
    <3>1. Shown' = Shown
      BY <2>3 DEF Close, Shown, Pending, Running
    <3> QED BY <2>3, <3>1 DEF Close, NoFiles, Tree!Close, Tree!Nothing, Tree!Next
  <2>4. CASE UNCHANGED vars
    <3>1. Shown' = Shown
      BY <2>4 DEF vars, Shown, Pending, Running
    <3> QED BY <2>4, <3>1 DEF vars, Tree!vars
  <2> QED BY <2>1, <2>2, <2>3, <2>4 DEF Next
<1> QED BY <1>1, <1>2, StoreInductive, PTL DEF Spec, ActsAtomicallyWhileReady

-----------------------------------------------------------------------------
(* The ports. *)

\* Messages of the port from the main thread to a worker.
Messages == Seq(Answer \cup {None})

\* Of the first n messages, how many are updates.
Updates(s, n) == Cardinality({i \in 1..n : s[i] = None})

-----------------------------------------------------------------------------
(* The inductive invariant of the composition. *)

\* Whoever receives the answer a when it has applied n updates called, and reads
\* what it did.
Timely(w, a, n) ==
  caller[a.task] = w /\ (a.ok => state[a.task] = "done" /\ commit[a.task] <= n)

PortInv ==
  /\ \A t \in Tasks : commit[t] <= updates
  /\ \A w \in links : updates <= applied[w] + Updates(down[w], Len(down[w]))
  /\ \A w \in Workers : \A i \in 1..Len(down[w]) : down[w][i] # None =>
       Timely(w, down[w][i], applied[w] + Updates(down[w], i - 1))

Settled(t) == promise[t] \in {"resolved", "rejected"}

CallInv ==
  /\ \A t \in Tasks : caller[t] = None => promise[t] = "none"
  /\ \A t \in Tasks : caller[t] = Main /\ Settled(t) => t \in replied
  /\ \A w \in Workers : \A i \in 1..Len(up[w]) : caller[up[w][i].task] = w

Linked == RpcTypeOK /\ PortInv /\ CallInv /\ ReadsItsWrites
RpcInv == StoreInv /\ Linked

-----------------------------------------------------------------------------
(* Counting updates in a port. *)

LEMMA UpdatesType ==
  ASSUME NEW s, NEW n \in Nat
  PROVE  /\ IsFiniteSet({i \in 1..n : s[i] = None})
         /\ Updates(s, n) \in Nat
<1>1. IsFiniteSet(1..n)
  BY FS_Interval
<1>2. IsFiniteSet({i \in 1..n : s[i] = None})
  BY <1>1, FS_Subset
<1> QED BY <1>2, FS_CardinalityType DEF Updates

LEMMA NoUpdatesBefore == \A s : Updates(s, 0) = 0
<1> SUFFICES ASSUME NEW s PROVE Updates(s, 0) = 0
  OBVIOUS
<1>1. {i \in 1..0 : s[i] = None} = {}
  OBVIOUS
<1> QED BY <1>1, FS_EmptySet DEF Updates

\* A message at the end counts for those after it only.
LEMMA UpdatesAppend ==
  ASSUME NEW s \in Messages, NEW m \in Answer \cup {None}
  PROVE  /\ Append(s, m) \in Messages /\ Len(Append(s, m)) = Len(s) + 1
         /\ \A i \in 1..Len(s) : Append(s, m)[i] = s[i]
         /\ Append(s, m)[Len(s) + 1] = m
         /\ \A n \in 0..Len(s) : Updates(Append(s, m), n) = Updates(s, n)
         /\ m = None => Updates(Append(s, m), Len(s) + 1) = Updates(s, Len(s)) + 1
         /\ m # None => Updates(Append(s, m), Len(s) + 1) = Updates(s, Len(s))
<1>1. /\ Append(s, m) \in Messages /\ Len(Append(s, m)) = Len(s) + 1 /\ Len(s) \in Nat
      /\ \A i \in 1..Len(s) : Append(s, m)[i] = s[i]
      /\ Append(s, m)[Len(s) + 1] = m
  BY DEF Messages
<1> DEFINE t == Append(s, m)
<1> HIDE DEF t
<1>2. /\ Len(s) \in Nat /\ \A i \in 1..Len(s) : t[i] = s[i]
      /\ t[Len(s) + 1] = m
  BY <1>1 DEF t
<1>3. ASSUME NEW n \in 0..Len(s) PROVE Updates(t, n) = Updates(s, n)
  <2>1. {i \in 1..n : t[i] = None} = {i \in 1..n : s[i] = None}
    BY <1>2
  <2> QED BY <2>1 DEF Updates
<1>4. CASE m = None
  <2> DEFINE S == {i \in 1..Len(s) : s[i] = None}
  <2>1. {i \in 1..(Len(s) + 1) : t[i] = None} = S \cup {Len(s) + 1}
    BY <1>2, <1>4
  <2>2. Len(s) + 1 \notin S
    BY <1>2
  <2>3. IsFiniteSet(S)
    BY <1>2, UpdatesType
  <2>4. Cardinality(S \cup {Len(s) + 1}) = Cardinality(S) + 1
    BY <2>2, <2>3, FS_AddElement
  <2>5. Updates(t, Len(s) + 1) = Cardinality(S \cup {Len(s) + 1})
    BY <2>1 DEF Updates
  <2>6. Updates(s, Len(s)) = Cardinality(S)
    BY DEF Updates
  <2> HIDE DEF S
  <2>7. Updates(t, Len(s) + 1) = Updates(s, Len(s)) + 1
    BY <2>4, <2>5, <2>6
  <2> QED BY <1>1, <1>3, <1>4, <2>7 DEF t
<1>5. CASE m # None
  <2>1. {i \in 1..(Len(s) + 1) : t[i] = None} = {i \in 1..Len(s) : s[i] = None}
    BY <1>2, <1>5
  <2> QED BY <1>1, <1>3, <1>5, <2>1 DEF Updates, t
<1> QED BY <1>4, <1>5

\* A message that was received counts for none of those after it any more.
LEMMA UpdatesTail ==
  ASSUME NEW s \in Messages, s # <<>>
  PROVE  /\ Head(s) \in Answer \cup {None} /\ s[1] = Head(s)
         /\ Tail(s) \in Messages /\ Len(s) = Len(Tail(s)) + 1 /\ Len(Tail(s)) \in Nat
         /\ \A i \in 1..Len(Tail(s)) : Tail(s)[i] = s[i + 1]
         /\ \A n \in 0..Len(Tail(s)) :
              Updates(s, n + 1) = Updates(Tail(s), n) + (IF Head(s) = None THEN 1 ELSE 0)
<1>1. /\ Head(s) \in Answer \cup {None} /\ s[1] = Head(s)
      /\ Tail(s) \in Messages /\ Len(s) = Len(Tail(s)) + 1 /\ Len(Tail(s)) \in Nat
      /\ \A i \in 1..Len(Tail(s)) : Tail(s)[i] = s[i + 1]
  BY DEF Messages
<1>2. ASSUME NEW n \in 0..Len(Tail(s))
      PROVE  Updates(s, n + 1) = Updates(Tail(s), n) + (IF Head(s) = None THEN 1 ELSE 0)
  <2> DEFINE S == {i \in 1..n : Tail(s)[i] = None}
             T == {i \in 2..(n + 1) : s[i] = None}
             next == [i \in S |-> i + 1]
  <2>1. IsFiniteSet(S) /\ n \in Nat
    <3>1. n \in Nat
      BY <1>1
    <3>2. IsFiniteSet(1..n) /\ S \subseteq 1..n
      BY <3>1, FS_Interval
    <3> QED BY <3>1, <3>2, FS_Subset
  <2>2. next \in Bijection(S, T)
    <3>1. \A i \in S : i \in Nat /\ i + 1 \in T
      BY <1>1
    <3>2. \A k \in T : k - 1 \in S /\ (k - 1) + 1 = k
      BY <1>1
    <3>3. next \in [S -> T]
      BY <3>1
    <3>4. \A i, j \in S : next[i] = next[j] => i = j
      BY <3>1
    <3>5. \A k \in T : \E i \in S : next[i] = k
      <4> SUFFICES ASSUME NEW k \in T PROVE \E i \in S : next[i] = k
        OBVIOUS
      <4>1. k - 1 \in S /\ next[k - 1] = k
        BY <3>2
      <4> QED BY <4>1
    <3> HIDE DEF next, S, T
    <3> QED BY <3>3, <3>4, <3>5 DEF Bijection, Injection, Surjection, IsInjective
  <2>3. IsFiniteSet(T) /\ Cardinality(T) = Cardinality(S)
    BY <2>1, <2>2, FS_Bijection DEF ExistsBijection
  <2>4. {i \in 1..(n + 1) : s[i] = None} = IF Head(s) = None THEN T \cup {1} ELSE T
    <3>1. 1..(n + 1) = {1} \cup 2..(n + 1) /\ 1 \notin 2..(n + 1)
      BY <2>1
    <3> QED BY <1>1, <3>1
  <2>5. 1 \notin T
    OBVIOUS
  <2>6. Cardinality(T \cup {1}) = Cardinality(T) + 1 /\ Cardinality(T) \in Nat
    BY <2>3, <2>5, FS_AddElement, FS_CardinalityType
  <2>7. Updates(s, n + 1) = IF Head(s) = None THEN Cardinality(T \cup {1}) ELSE Cardinality(T)
    BY <2>4 DEF Updates
  <2>8. Updates(Tail(s), n) = Cardinality(S)
    BY DEF Updates
  <2> HIDE DEF S, T
  <2> QED BY <2>3, <2>6, <2>7, <2>8
<1> QED BY <1>1, <1>2

-----------------------------------------------------------------------------
(* The store within. *)

LEMMA HeadType ==
  ASSUME NEW S, NEW s \in Seq(S), s # <<>>
  PROVE  /\ Head(s) \in S /\ s[1] = Head(s) /\ 1 \in 1..Len(s)
         /\ Tail(s) \in Seq(S) /\ Len(Tail(s)) = Len(s) - 1
         /\ \A i \in 1..Len(Tail(s)) : i + 1 \in 1..Len(s) /\ Tail(s)[i] = s[i + 1]
OBVIOUS

\* The threads and their messages do to the store what VirtualStore does.
LEMMA StoreStep == ASSUME RpcTypeOK, [RpcNext]_allVars PROVE [Next]_vars
<1>1. ASSUME NEW t \in Tasks, NEW r \in Requests, CallMain(t, r) PROVE Next
  BY <1>1 DEF CallMain, Next
<1>2. ASSUME NEW t \in Tasks, NEW r \in Requests, NEW w \in Workers, Send(w, t, r)
      PROVE  UNCHANGED vars
  BY <1>2 DEF Send
<1>3. ASSUME NEW t \in Tasks, Reply(t) \/ Work(t) PROVE [Next]_vars
  BY <1>3 DEF Reply, Work, Next
<1>4. ASSUME NEW w \in Workers, Serve(w) PROVE [Next]_vars
  <2> DEFINE call == Head(up[w])
  <2>1. up[w] \in Seq([task : Tasks, req : Requests]) /\ up[w] # <<>>
    BY <1>4 DEF Serve, RpcTypeOK
  <2>2. call \in [task : Tasks, req : Requests]
    BY <2>1, HeadType
  <2>3. call.task \in Tasks /\ call.req \in Requests
    BY <2>2
  <2>4. UNCHANGED vars \/ Accept(call.task, call.req)
    BY <1>4 DEF Serve
  <2> QED BY <2>3, <2>4 DEF Next
<1>5. ASSUME NEW w \in Workers, LinkCloses(w) \/ Deliver(w) \/ CloseClient(w)
      PROVE  UNCHANGED vars
  BY <1>5 DEF LinkCloses, Deliver, CloseClient
<1>6. CloseKernel => Next
  BY DEF CloseKernel, Next
<1>7. UNCHANGED allVars => UNCHANGED vars
  BY DEF allVars
<1> QED BY <1>1, <1>2, <1>3, <1>4, <1>5, <1>6, <1>7 DEF RpcNext

\* A turn is of a task that is not over, and changes the state of no other.
LEMMA TurnState ==
  ASSUME StoreInv, NEW t \in Tasks, Turn(t)
  PROVE  state[t] # "done" /\ \A u \in Tasks \ {t} : state'[u] = state[u]
<1>1. state \in [Tasks -> {"new", "queued", "publishing", "staged", "done", "failed"}]
  BY DEF StoreInv, TypeOK
<1>2. CASE Start(t)
  <2>1. state[t] = "queued"
    BY <1>2 DEF Start, ItsTurn
  <2>2. Refused(t) \/ (\E p \in Plan : Begins(t, p)) \/ (\E gone \in SUBSET Keys : Drops(t, gone))
    BY <1>2, TurnOf DEF StoreInv
  <2> QED BY <1>1, <2>1, <2>2 DEF Refused, Begins, Drops, Publishes, Removes, Ends, Over
<1>3. CASE Stage(t) \/ Flush(t) \/ Fail(t)
  BY <1>1, <1>3 DEF Stage, Flush, Fail, PublicationEnds, Over
<1> QED BY <1>2, <1>3 DEF Turn

LEMMA AcceptState ==
  ASSUME StoreInv, NEW t \in Tasks, NEW r, Accept(t, r)
  PROVE  \A u \in Tasks : state[u] = "done" => state'[u] = "done"
BY DEF Accept, StoreInv, TypeOK

\* What is done stays done.
LEMMA DoneStays ==
  ASSUME StoreInv, [Next]_vars, NEW u \in Tasks, state[u] = "done"
  PROVE  state'[u] = "done"
<1>1. ASSUME NEW t \in Tasks, NEW r \in Requests, Accept(t, r) PROVE state'[u] = "done"
  BY <1>1, AcceptState
<1>2. ASSUME NEW t \in Tasks, Turn(t) PROVE state'[u] = "done"
  BY <1>2, TurnState
<1>3. CASE Close \/ UNCHANGED vars
  BY <1>3 DEF Close, vars
<1> QED BY <1>1, <1>2, <1>3 DEF Next

-----------------------------------------------------------------------------
(* Steps that post and deliver nothing. *)

\* Calls keep their threads, and what is done stays done.
Keeps ==
  /\ \A u \in Tasks : caller[u] # None => caller'[u] = caller[u]
  /\ \A u \in Tasks : state[u] = "done" => state'[u] = "done"

LEMMA MessageType ==
  ASSUME RpcTypeOK, NEW w \in Workers
  PROVE  /\ down[w] \in Messages /\ Len(down[w]) \in Nat
         /\ \A i \in 1..Len(down[w]) : down[w][i] # None => down[w][i] \in Answer
BY DEF RpcTypeOK, Messages

LEMMA Numbers ==
  ASSUME RpcTypeOK
  PROVE  /\ updates \in Nat /\ \A t \in Tasks : commit[t] \in Nat
         /\ \A w \in Workers : applied[w] \in Nat
         /\ \A w \in Workers, n \in Nat : Updates(down[w], n) \in Nat
BY UpdatesType DEF RpcTypeOK

LEMMA CallTasks ==
  ASSUME RpcTypeOK
  PROVE  \A v \in Workers : \A i \in 1..Len(up[v]) : up[v][i].task \in Tasks
<1> DEFINE Ask == [task : Tasks, req : Requests]
<1> SUFFICES ASSUME NEW v \in Workers, NEW i \in 1..Len(up[v]) PROVE up[v][i].task \in Tasks
  OBVIOUS
<1>1. up[v] \in Seq(Ask)
  BY DEF RpcTypeOK
<1>2. \A e \in Ask : e.task \in Tasks
  OBVIOUS
<1> HIDE DEF Ask
<1>3. up[v][i] \in Ask
  BY <1>1
<1> QED BY <1>2, <1>3

LEMMA WorkerNames ==
  ASSUME RpcTypeOK
  PROVE  /\ \A w \in Workers : w # None /\ w # Main
         /\ Main # None /\ links \subseteq Workers
BY WorkersAssumption DEF RpcTypeOK

LEMMA QuietPorts ==
  ASSUME RpcTypeOK, PortInv, Keeps, UNCHANGED <<down, applied, updates, commit>>, links' \subseteq links
  PROVE  PortInv'
<1>1. /\ \A t \in Tasks : commit'[t] <= updates'
      /\ \A w \in links' : updates' <= applied'[w] + Updates(down'[w], Len(down'[w]))
  BY DEF PortInv
<1>2. ASSUME NEW w \in Workers, NEW i \in 1..Len(down[w]), down[w][i] # None
      PROVE  /\ caller'[down[w][i].task] = w
             /\ down[w][i].ok =>
                  /\ state'[down[w][i].task] = "done"
                  /\ commit[down[w][i].task] <= applied[w] + Updates(down[w], i - 1)
  <2>1. Timely(w, down[w][i], applied[w] + Updates(down[w], i - 1)) /\ down[w][i].task \in Tasks
    BY <1>2, MessageType DEF PortInv, Answer
  <2>2. w # None
    BY WorkerNames
  <2> QED BY <2>1, <2>2 DEF Timely, Keeps
<1> QED BY <1>1, <1>2 DEF PortInv, Timely

LEMMA QuietReads ==
  ASSUME RpcTypeOK, CallInv, ReadsItsWrites, Keeps, UNCHANGED <<applied, commit>>,
         \A t \in Tasks : promise'[t] = "resolved" => promise[t] = "resolved"
  PROVE  ReadsItsWrites'
<1>1. \A t \in Tasks : promise[t] = "resolved" => caller[t] # None
  BY DEF CallInv
<1> QED BY <1>1 DEF Keeps, ReadsItsWrites

LEMMA CallsKeeps ==
  ASSUME RpcTypeOK, NEW t \in Tasks, NEW who \in Workers \cup {Main}, Calls(t, who)
  PROVE  /\ caller[t] = None /\ caller'[t] = who
         /\ \A u \in Tasks \ {t} : caller'[u] = caller[u]
         /\ caller' \in [Tasks -> Workers \cup {Main, None}]
BY DEF Calls, RpcTypeOK

LEMMA SendLinked ==
  ASSUME RpcInv, TypeOK', NEW w \in Workers, NEW t \in Tasks, NEW r \in Requests, Send(w, t, r)
  PROVE  Linked'
<1>1. RpcTypeOK /\ PortInv /\ CallInv /\ ReadsItsWrites
  BY DEF RpcInv, Linked
<1>2. /\ caller[t] = None /\ caller'[t] = w
      /\ \A u \in Tasks \ {t} : caller'[u] = caller[u]
      /\ caller' \in [Tasks -> Workers \cup {Main, None}]
  BY <1>1, CallsKeeps DEF Send
<1>3. UNCHANGED <<state, down, links, shut, replied, updates, applied, commit>>
  BY DEF Send, vars
<1>4. Keeps
  BY <1>2, <1>3 DEF Keeps
<1>5. /\ promise' \in [Tasks -> {"none", "pending", "resolved", "rejected"}]
      /\ \A u \in Tasks \ {t} : promise'[u] = promise[u]
      /\ promise'[t] \in {"pending", "rejected"}
  BY <1>1 DEF Send, RpcTypeOK
<1>6. up' \in [Workers -> Seq([task : Tasks, req : Requests])]
      /\ \A v \in Workers : \A i \in 1..Len(up'[v]) :
           (i \in 1..Len(up[v]) /\ up'[v][i] = up[v][i]) \/ (v = w /\ up'[v][i].task = t)
  <2> DEFINE Ask == [task : Tasks, req : Requests]
             call == [task |-> t, req |-> r]
  <2>1. call \in Ask /\ up \in [Workers -> Seq(Ask)]
    BY <1>1 DEF RpcTypeOK
  <2>2. call.task = t
    OBVIOUS
  <2>3. up' = up \/ up' = [up EXCEPT ![w] = Append(@, call)]
    BY DEF Send
  <2> HIDE DEF Ask, call
  <2>4. Append(up[w], call) \in Seq(Ask)
        /\ \A i \in 1..Len(Append(up[w], call)) :
             (i \in 1..Len(up[w]) /\ Append(up[w], call)[i] = up[w][i]) \/ Append(up[w], call)[i] = call
    BY <2>1
  <2>5. up' \in [Workers -> Seq(Ask)]
    BY <2>1, <2>3, <2>4
  <2>6. ASSUME NEW v \in Workers, NEW i \in 1..Len(up'[v])
        PROVE  (i \in 1..Len(up[v]) /\ up'[v][i] = up[v][i]) \/ (v = w /\ up'[v][i].task = t)
    BY <2>1, <2>2, <2>3, <2>4
  <2> QED BY <2>5, <2>6 DEF Ask
<1>7. RpcTypeOK'
  BY <1>1, <1>2, <1>3, <1>5, <1>6 DEF RpcTypeOK
<1>8. CallInv'
  <2>1. \A u \in Tasks : caller'[u] = None => promise'[u] = "none"
    BY <1>1, <1>2, <1>5, WorkerNames DEF CallInv
  <2>2. \A u \in Tasks : caller'[u] = Main /\ promise'[u] \in {"resolved", "rejected"} => u \in replied'
    BY <1>1, <1>2, <1>3, <1>5, WorkerNames DEF CallInv, Settled
  <2>3. \A v \in Workers : \A i \in 1..Len(up[v]) : up[v][i].task \in Tasks
    BY <1>1, CallTasks
  <2>4. \A v \in Workers : \A i \in 1..Len(up'[v]) : caller'[up'[v][i].task] = v
    BY <1>1, <1>2, <1>6, <2>3, WorkerNames DEF CallInv
  <2> QED BY <2>1, <2>2, <2>4 DEF CallInv, Settled
<1>9. PortInv' /\ ReadsItsWrites'
  <2>1. \A u \in Tasks : promise'[u] = "resolved" => promise[u] = "resolved"
    BY <1>5
  <2> QED BY <1>1, <1>3, <1>4, <2>1, QuietPorts, QuietReads
<1> QED BY <1>7, <1>8, <1>9 DEF Linked

LEMMA CallMainLinked ==
  ASSUME RpcInv, TypeOK', \A u \in Tasks : state[u] = "done" => state'[u] = "done",
         NEW t \in Tasks, NEW r \in Requests, CallMain(t, r)
  PROVE  Linked'
<1>1. RpcTypeOK /\ PortInv /\ CallInv /\ ReadsItsWrites
  BY DEF RpcInv, Linked
<1>2. /\ caller[t] = None /\ caller'[t] = Main
      /\ \A u \in Tasks \ {t} : caller'[u] = caller[u]
      /\ caller' \in [Tasks -> Workers \cup {Main, None}]
  BY <1>1, CallsKeeps DEF CallMain
<1>3. UNCHANGED <<up, down, links, shut, replied, updates, applied, commit>>
  BY DEF CallMain
<1>4. Keeps
  BY <1>2 DEF Keeps
<1>5. /\ promise' \in [Tasks -> {"none", "pending", "resolved", "rejected"}]
      /\ \A u \in Tasks \ {t} : promise'[u] = promise[u]
      /\ promise'[t] = "pending"
  BY <1>1 DEF CallMain, RpcTypeOK
<1>6. RpcTypeOK'
  BY <1>1, <1>2, <1>3, <1>5 DEF RpcTypeOK
<1>7. CallInv'
  <2>1. \A v \in Workers : \A i \in 1..Len(up[v]) : up[v][i].task \in Tasks
    BY <1>1, CallTasks
  <2>2. \A v \in Workers : \A i \in 1..Len(up[v]) : caller'[up[v][i].task] = v
    BY <1>1, <1>2, <2>1, WorkerNames DEF CallInv
  <2> QED BY <1>1, <1>2, <1>3, <1>5, <2>2, WorkerNames DEF CallInv, Settled
<1>8. PortInv' /\ ReadsItsWrites'
  <2>1. \A u \in Tasks : promise'[u] = "resolved" => promise[u] = "resolved"
    BY <1>5
  <2> QED BY <1>1, <1>3, <1>4, <2>1, QuietPorts, QuietReads
<1> QED BY <1>6, <1>7, <1>8 DEF Linked

\* A link ends on one side: nothing is posted, pending calls may be rejected.
LEMMA EndsLinked ==
  ASSUME RpcInv, TypeOK', \A u \in Tasks : state[u] = "done" => state'[u] = "done",
         UNCHANGED <<caller, up, down, replied, updates, applied, commit>>,
         links' \subseteq links, shut' \subseteq Workers,
         promise' \in [Tasks -> {"none", "pending", "resolved", "rejected"}],
         \A u \in Tasks :
           \/ promise'[u] = promise[u]
           \/ promise[u] = "pending" /\ promise'[u] = "rejected" /\ caller[u] \in Workers
  PROVE  Linked'
<1>1. RpcTypeOK /\ PortInv /\ CallInv /\ ReadsItsWrites
  BY DEF RpcInv, Linked
<1>2. Keeps
  BY DEF Keeps
<1>3. RpcTypeOK'
  BY <1>1 DEF RpcTypeOK
<1>4. CallInv'
  BY <1>1, WorkerNames DEF CallInv, Settled
<1>5. PortInv' /\ ReadsItsWrites'
  BY <1>1, <1>2, QuietPorts, QuietReads
<1> QED BY <1>3, <1>4, <1>5 DEF Linked

LEMMA ClosingLinked ==
  ASSUME RpcInv, TypeOK', \A u \in Tasks : state[u] = "done" => state'[u] = "done",
         CloseKernel \/ (\E w \in Workers : LinkCloses(w) \/ CloseClient(w)) \/ UNCHANGED allVars
  PROVE  Linked'
<1>1. RpcTypeOK
  BY DEF RpcInv, Linked
<1>2. CASE CloseKernel \/ (\E w \in Workers : LinkCloses(w)) \/ UNCHANGED allVars
  <2>1. /\ UNCHANGED <<caller, up, down, replied, updates, applied, commit>>
        /\ promise' = promise /\ shut' = shut /\ links' \subseteq links
    BY <1>2 DEF CloseKernel, LinkCloses, allVars, rpcVars
  <2>2. /\ promise' \in [Tasks -> {"none", "pending", "resolved", "rejected"}]
        /\ \A u \in Tasks : promise'[u] = promise[u]
    BY <1>1, <2>1 DEF RpcTypeOK
  <2>3. shut' \subseteq Workers
    BY <1>1, <2>1 DEF RpcTypeOK
  <2> QED BY <2>1, <2>2, <2>3, EndsLinked
<1>3. ASSUME NEW w \in Workers, CloseClient(w) PROVE Linked'
  <2>1. UNCHANGED <<caller, up, down, replied, updates, applied, commit, links>>
        /\ shut' = shut \cup {w} /\ promise' = Abandoned(w)
    BY <1>3 DEF CloseClient
  <2>2. promise' \in [Tasks -> {"none", "pending", "resolved", "rejected"}]
        /\ \A u \in Tasks :
             \/ promise'[u] = promise[u]
             \/ promise[u] = "pending" /\ promise'[u] = "rejected" /\ caller[u] \in Workers
    <3>1. promise \in [Tasks -> {"none", "pending", "resolved", "rejected"}]
      BY <1>1 DEF RpcTypeOK
    <3>2. promise' = [u \in Tasks |-> IF caller[u] = w /\ promise[u] = "pending"
                                     THEN "rejected" ELSE promise[u]]
      BY <2>1 DEF Abandoned
    <3>3. \A u \in Tasks :
            \/ promise'[u] = promise[u]
            \/ promise[u] = "pending" /\ promise'[u] = "rejected" /\ caller[u] = w
      BY <3>2
    <3>4. promise' \in [Tasks -> {"none", "pending", "resolved", "rejected"}]
      BY <3>1, <3>2
    <3> QED BY <3>3, <3>4
  <2>3. shut' \subseteq Workers /\ links' \subseteq links
    BY <1>1, <2>1 DEF RpcTypeOK
  <2> QED BY <2>1, <2>2, <2>3, EndsLinked
<1> QED BY <1>2, <1>3

-----------------------------------------------------------------------------
(* Answers. *)

\* An answer is posted behind the update of its mutation.
LEMMA AnsweredLinked ==
  ASSUME RpcInv, TypeOK', UNCHANGED <<vars, caller, links, shut, updates, applied, commit>>,
         NEW t \in Tasks, NEW ok \in BOOLEAN, Answered(t, ok), ok => state[t] = "done",
         up' \in [Workers -> Seq([task : Tasks, req : Requests])],
         \A v \in Workers : \A i \in 1..Len(up'[v]) : caller[up'[v][i].task] = v
  PROVE  Linked'
<1> DEFINE a == [task |-> t, ok |-> ok]
<1>1. RpcTypeOK /\ PortInv /\ CallInv /\ ReadsItsWrites /\ state' = state
  BY DEF RpcInv, Linked, vars
<1>2. a \in Answer /\ a # None /\ a.task = t /\ a.ok = ok
  BY WorkersAssumption DEF Answer
<1> HIDE DEF a
<1>3. replied' = replied \cup {t}
  BY DEF Answered
<1>4. CASE caller[t] = Main
  <2>1. /\ UNCHANGED down
        /\ promise' = [promise EXCEPT ![t] = IF ok THEN "resolved" ELSE "rejected"]
    BY <1>4 DEF Answered
  <2>2. RpcTypeOK'
    BY <1>1, <1>3, <2>1 DEF RpcTypeOK
  <2>3. CallInv'
    <3>1. \A u \in Tasks : caller'[u] = None => promise'[u] = "none"
      BY <1>1, <1>4, <2>1, WorkerNames DEF CallInv, RpcTypeOK
    <3>2. \A u \in Tasks : caller'[u] = Main /\ promise'[u] \in {"resolved", "rejected"} => u \in replied'
      BY <1>1, <1>3, <2>1 DEF CallInv, Settled, RpcTypeOK
    <3> QED BY <3>1, <3>2 DEF CallInv, Settled
  <2>4. PortInv'
    BY <1>1, <2>1, QuietPorts DEF Keeps
  <2>5. ReadsItsWrites'
    <3>1. \A u \in Tasks \ {t} : promise'[u] = promise[u]
      BY <1>1, <2>1 DEF RpcTypeOK
    <3>2. promise'[t] = "resolved" => state[t] = "done"
      BY <1>1, <2>1 DEF RpcTypeOK
    <3> QED BY <1>1, <1>4, <3>1, <3>2, WorkerNames DEF ReadsItsWrites
  <2> QED BY <2>2, <2>3, <2>4, <2>5 DEF Linked
<1>5. CASE caller[t] # Main
  <2>1. UNCHANGED promise /\ down' = IF caller[t] \in links
                                    THEN [down EXCEPT ![caller[t]] = Append(@, a)] ELSE down
    BY <1>5 DEF Answered, a
  <2>2. down' \in [Workers -> Messages]
    BY <1>1, <1>2, <2>1, UpdatesAppend, MessageType, WorkerNames DEF RpcTypeOK, Messages
  <2>3. RpcTypeOK'
    BY <1>1, <1>3, <2>1, <2>2 DEF RpcTypeOK, Messages
  <2>4. CallInv'
    BY <1>1, <1>3, <2>1 DEF CallInv, Settled
  <2>5. ReadsItsWrites'
    BY <1>1, <2>1 DEF ReadsItsWrites
  <2>6. CASE caller[t] \notin links
    <3>1. PortInv'
      BY <1>1, <2>1, <2>6, QuietPorts DEF Keeps
    <3> QED BY <2>3, <2>4, <2>5, <3>1 DEF Linked
  <2>7. ASSUME NEW w \in links, w = caller[t] PROVE PortInv'
    <3>1. /\ w \in Workers /\ down[w] \in Messages
          /\ down'[w] = Append(down[w], a)
          /\ \A v \in Workers \ {w} : down'[v] = down[v]
      BY <1>1, <2>1, <2>7, WorkerNames, MessageType DEF RpcTypeOK
    <3>2. \A u \in Tasks : commit'[u] <= updates'
      BY <1>1 DEF PortInv
    <3>3. ASSUME NEW v \in links
          PROVE  updates <= applied[v] + Updates(down'[v], Len(down'[v]))
      <4>1. updates <= applied[v] + Updates(down[v], Len(down[v]))
        BY <1>1 DEF PortInv
      <4>2. v \in Workers
        BY <1>1, WorkerNames
      <4>3. CASE v = w
        <5>1. /\ Len(down'[w]) = Len(down[w]) + 1
              /\ Updates(down'[w], Len(down[w]) + 1) = Updates(down[w], Len(down[w]))
          BY <1>2, <3>1, UpdatesAppend
        <5> QED BY <4>1, <4>3, <5>1
      <4> QED BY <3>1, <4>1, <4>2, <4>3
    <3>4. ASSUME NEW v \in Workers, NEW i \in 1..Len(down'[v]), down'[v][i] # None
          PROVE  Timely(v, down'[v][i], applied[v] + Updates(down'[v], i - 1))
      <4>1. CASE v # w
        BY <1>1, <3>1, <3>4, <4>1 DEF PortInv
      <4>2. CASE v = w /\ i \in 1..Len(down[w])
        <5>1. down'[w][i] = down[w][i] /\ i - 1 \in 0..Len(down[w])
          BY <1>2, <3>1, <4>2, UpdatesAppend
        <5>2. Updates(down'[w], i - 1) = Updates(down[w], i - 1)
          BY <1>2, <3>1, <5>1, UpdatesAppend
        <5>3. Timely(w, down[w][i], applied[w] + Updates(down[w], i - 1))
          BY <1>1, <3>1, <3>4, <4>2, <5>1 DEF PortInv
        <5> QED BY <4>2, <5>1, <5>2, <5>3
      <4>3. CASE v = w /\ i \notin 1..Len(down[w])
        <5>1. Len(down[w]) \in Nat /\ Len(down'[w]) = Len(down[w]) + 1
          BY <1>1, <1>2, <3>1, UpdatesAppend, MessageType
        <5>2. i = Len(down[w]) + 1
          BY <3>4, <4>3, <5>1
        <5>3. down'[w][i] = a /\ i - 1 = Len(down[w])
          BY <1>2, <3>1, <5>1, <5>2, UpdatesAppend
        <5>4. Updates(down'[w], i - 1) = Updates(down[w], Len(down[w]))
          BY <1>2, <3>1, <5>1, <5>3, UpdatesAppend
        <5>5. commit[t] <= applied[w] + Updates(down[w], Len(down[w]))
          <6>1. commit[t] <= updates /\ updates <= applied[w] + Updates(down[w], Len(down[w]))
            BY <1>1, <2>7 DEF PortInv
          <6>2. /\ commit[t] \in Nat /\ updates \in Nat /\ applied[w] \in Nat
                /\ Updates(down[w], Len(down[w])) \in Nat
            BY <1>1, <3>1, <5>1, Numbers
          <6> QED BY <6>1, <6>2
        <5> QED BY <1>2, <2>7, <4>3, <5>3, <5>4, <5>5 DEF Timely
      <4> QED BY <4>1, <4>2, <4>3
    <3> QED BY <1>1, <3>2, <3>3, <3>4 DEF PortInv, Timely
  <2> QED BY <2>3, <2>4, <2>5, <2>6, <2>7 DEF Linked
<1> QED BY <1>4, <1>5

LEMMA ReplyLinked ==
  ASSUME RpcInv, TypeOK', NEW t \in Tasks, Reply(t)
  PROVE  Linked'
<1>1. RpcTypeOK /\ CallInv
  BY DEF RpcInv, Linked
<1>2. /\ Answered(t, state[t] = "done")
      /\ UNCHANGED <<vars, caller, up, links, shut, updates, applied, commit>>
  BY DEF Reply
<1>3. /\ up' \in [Workers -> Seq([task : Tasks, req : Requests])]
      /\ \A v \in Workers : \A i \in 1..Len(up'[v]) : caller[up'[v][i].task] = v
  BY <1>1, <1>2 DEF RpcTypeOK, CallInv
<1>4. ASSUME NEW ok \in BOOLEAN, ok = (state[t] = "done"), Answered(t, ok) PROVE Linked'
  BY <1>2, <1>3, <1>4, AnsweredLinked
<1> QED BY <1>2, <1>4

LEMMA ServeLinked ==
  ASSUME RpcInv, TypeOK', \A u \in Tasks : state[u] = "done" => state'[u] = "done",
         NEW w \in Workers, Serve(w)
  PROVE  Linked'
<1> DEFINE call == Head(up[w])
<1>1. RpcTypeOK /\ PortInv /\ CallInv /\ ReadsItsWrites
  BY DEF RpcInv, Linked
<1>2. /\ up[w] # <<>> /\ up' = [up EXCEPT ![w] = Tail(@)]
      /\ UNCHANGED <<caller, links, shut, updates, applied, commit>>
  BY DEF Serve
<1>3. up[w] \in Seq([task : Tasks, req : Requests])
  BY <1>1 DEF RpcTypeOK
<1>4. /\ call \in [task : Tasks, req : Requests] /\ call = up[w][1] /\ 1 \in 1..Len(up[w])
      /\ Tail(up[w]) \in Seq([task : Tasks, req : Requests])
      /\ \A i \in 1..Len(Tail(up[w])) : i + 1 \in 1..Len(up[w]) /\ Tail(up[w])[i] = up[w][i + 1]
  BY <1>2, <1>3, HeadType
<1>5. /\ up' \in [Workers -> Seq([task : Tasks, req : Requests])]
      /\ \A v \in Workers : \A i \in 1..Len(up'[v]) : caller[up'[v][i].task] = v
  <2>1. up \in [Workers -> Seq([task : Tasks, req : Requests])]
    BY <1>1 DEF RpcTypeOK
  <2>2. /\ up'[w] = Tail(up[w]) /\ \A v \in Workers \ {w} : up'[v] = up[v]
        /\ up' \in [Workers -> Seq([task : Tasks, req : Requests])]
    BY <1>2, <1>4, <2>1
  <2>3. \A v \in Workers : \A i \in 1..Len(up[v]) : caller[up[v][i].task] = v
    BY <1>1 DEF CallInv
  <2>4. ASSUME NEW v \in Workers, NEW i \in 1..Len(up'[v]) PROVE caller[up'[v][i].task] = v
    <3>1. CASE v = w
      <4>1. i + 1 \in 1..Len(up[w]) /\ up'[w][i] = up[w][i + 1]
        BY <1>4, <2>2, <2>4, <3>1
      <4> QED BY <2>3, <3>1, <4>1
    <3> QED BY <2>2, <2>3, <3>1
  <2> QED BY <2>2, <2>4
<1>6. call.task \in Tasks
  BY <1>4
<1>7. CASE Answered(call.task, FALSE) /\ UNCHANGED vars
  BY <1>2, <1>5, <1>6, <1>7, AnsweredLinked
<1>8. CASE UNCHANGED <<replied, down, promise>>
  <2>1. RpcTypeOK'
    BY <1>1, <1>2, <1>5, <1>8 DEF RpcTypeOK
  <2>2. CallInv'
    BY <1>1, <1>2, <1>5, <1>8 DEF CallInv, Settled
  <2>3. PortInv' /\ ReadsItsWrites'
    BY <1>1, <1>2, <1>8, QuietPorts, QuietReads DEF Keeps
  <2> QED BY <2>1, <2>2, <2>3 DEF Linked
<1> QED BY <1>7, <1>8 DEF Serve

-----------------------------------------------------------------------------
(* Updates, and what the workers receive. *)

\* A mutation at work is not one whose answer is on its way or arrived.
LEMMA WorkLinked ==
  ASSUME RpcInv, TypeOK', \A u \in Tasks : state[u] = "done" => state'[u] = "done",
         NEW t \in Tasks, Work(t)
  PROVE  Linked'
<1>1. RpcTypeOK /\ PortInv /\ CallInv /\ ReadsItsWrites /\ StoreInv
  BY DEF RpcInv, Linked
<1>2. UNCHANGED <<caller, promise, up, links, shut, replied, applied>> /\ state[t] # "done"
  BY <1>1, TurnState DEF Work
<1>3. CallInv'
  BY <1>1, <1>2 DEF CallInv, Settled
<1>4. CASE UNCHANGED <<updates, commit, down>>
  <2>1. RpcTypeOK'
    BY <1>1, <1>2, <1>4 DEF RpcTypeOK
  <2>2. PortInv' /\ ReadsItsWrites'
    BY <1>1, <1>2, <1>4, QuietPorts, QuietReads DEF Keeps
  <2> QED BY <1>3, <2>1, <2>2 DEF Linked
<1>5. CASE /\ updates' = updates + 1
           /\ commit' = [commit EXCEPT ![t] = updates + 1]
           /\ down' = [w \in Workers |-> IF w \in links THEN Append(down[w], None) ELSE down[w]]
  <2>1. None \in Answer \cup {None} /\ links \subseteq Workers
    BY <1>1, WorkerNames
  <2>2. /\ updates \in Nat /\ commit \in [Tasks -> Nat] /\ down \in [Workers -> Messages]
        /\ applied \in [Workers -> Nat]
    BY <1>1 DEF RpcTypeOK, Messages
  <2>3. ASSUME NEW w \in links
        PROVE  /\ w \in Workers /\ down'[w] = Append(down[w], None) /\ down[w] \in Messages
               /\ down'[w] \in Messages /\ Len(down[w]) \in Nat
               /\ Len(down'[w]) = Len(down[w]) + 1
               /\ \A i \in 1..Len(down[w]) : down'[w][i] = down[w][i]
               /\ down'[w][Len(down[w]) + 1] = None
               /\ \A n \in 0..Len(down[w]) : Updates(down'[w], n) = Updates(down[w], n)
               /\ Updates(down'[w], Len(down[w]) + 1) = Updates(down[w], Len(down[w])) + 1
    <3>1. w \in Workers /\ down'[w] = Append(down[w], None) /\ down[w] \in Messages
      BY <1>5, <2>1, <2>2
    <3> QED BY <1>1, <2>1, <3>1, UpdatesAppend, MessageType
  <2>4. \A w \in Workers \ links : down'[w] = down[w]
    BY <1>5
  <2>5. down' \in [Workers -> Messages]
    BY <1>5, <2>1, <2>2, <2>3
  <2>6. RpcTypeOK'
    <3>1. commit' \in [Tasks -> Nat] /\ updates' \in Nat
      BY <1>5, <2>2
    <3>2. down' \in [Workers -> Seq(Answer \cup {None})]
      BY <2>5 DEF Messages
    <3> QED BY <1>1, <1>2, <3>1, <3>2 DEF RpcTypeOK
  <2>7. \A u \in Tasks : state[u] = "done" => commit'[u] = commit[u]
    BY <1>2, <1>5, <2>2
  <2>8. ReadsItsWrites'
    BY <1>1, <1>2, <2>7 DEF ReadsItsWrites
  <2>9. \A u \in Tasks : commit'[u] <= updates'
    BY <1>1, <1>5, <2>2 DEF PortInv
  <2>10. ASSUME NEW w \in links PROVE updates' <= applied[w] + Updates(down'[w], Len(down'[w]))
    <3>1. updates <= applied[w] + Updates(down[w], Len(down[w]))
      BY <1>1 DEF PortInv
    <3>2. applied[w] \in Nat /\ Updates(down[w], Len(down[w])) \in Nat
      BY <1>1, <2>3, Numbers
    <3>3. Updates(down'[w], Len(down'[w])) = Updates(down[w], Len(down[w])) + 1
      BY <2>3
    <3> QED BY <1>5, <2>2, <3>1, <3>2, <3>3
  <2>11. ASSUME NEW w \in Workers, NEW i \in 1..Len(down'[w]), down'[w][i] # None
         PROVE  /\ i \in 1..Len(down[w]) /\ down'[w][i] = down[w][i]
                /\ Updates(down'[w], i - 1) = Updates(down[w], i - 1)
    <3>1. CASE w \in links
      <4>1. i \in 1..Len(down[w])
        BY <2>3, <2>11, <3>1
      <4>2. i - 1 \in 0..Len(down[w])
        BY <2>3, <3>1, <4>1
      <4> QED BY <2>3, <3>1, <4>1, <4>2
    <3>2. CASE w \notin links
      BY <2>4, <2>11, <3>2
    <3> QED BY <3>1, <3>2
  <2>12. ASSUME NEW w \in Workers, NEW i \in 1..Len(down'[w]), down'[w][i] # None
         PROVE  /\ caller'[down'[w][i].task] = w
                /\ down'[w][i].ok =>
                     /\ state'[down'[w][i].task] = "done"
                     /\ commit'[down'[w][i].task] <= applied[w] + Updates(down'[w], i - 1)
    <3>1. Timely(w, down[w][i], applied[w] + Updates(down[w], i - 1))
          /\ down[w][i].task \in Tasks
      BY <1>1, <2>11, <2>12, MessageType DEF PortInv, Answer
    <3> QED BY <1>2, <2>7, <2>11, <2>12, <3>1 DEF Timely
  <2>13. PortInv'
    BY <1>2, <2>9, <2>10, <2>12 DEF PortInv, Timely
  <2> QED BY <1>3, <2>6, <2>8, <2>13 DEF Linked
<1> QED BY <1>4, <1>5 DEF Work, Posted

\* An update moves from the port to what is applied; an answer finds the updates
\* before it applied.
LEMMA DeliverLinked ==
  ASSUME RpcInv, TypeOK', NEW w \in Workers, Deliver(w)
  PROVE  Linked'
<1>1. RpcTypeOK /\ PortInv /\ CallInv /\ ReadsItsWrites
  BY DEF RpcInv, Linked
<1>2. /\ down[w] # <<>> /\ down' = [down EXCEPT ![w] = Tail(@)]
      /\ UNCHANGED <<state, caller, up, links, shut, replied, updates, commit>>
  BY DEF Deliver, vars
<1> DEFINE s == down[w]
           msg == Head(s)
           one == IF msg = None THEN 1 ELSE 0
<1>3. /\ s \in Messages /\ down \in [Workers -> Messages] /\ applied \in [Workers -> Nat]
      /\ promise \in [Tasks -> {"none", "pending", "resolved", "rejected"}]
  BY <1>1 DEF RpcTypeOK, Messages
<1>4. /\ msg \in Answer \cup {None} /\ s[1] = msg
      /\ Tail(s) \in Messages /\ Len(s) = Len(Tail(s)) + 1 /\ Len(Tail(s)) \in Nat
      /\ \A i \in 1..Len(Tail(s)) : Tail(s)[i] = s[i + 1]
      /\ \A n \in 0..Len(Tail(s)) : Updates(s, n + 1) = Updates(Tail(s), n) + one
  BY <1>2, <1>3, UpdatesTail
<1>5. /\ down'[w] = Tail(s) /\ \A v \in Workers \ {w} : down'[v] = down[v]
      /\ down' \in [Workers -> Messages]
  BY <1>2, <1>3, <1>4
<1>6. /\ applied'[w] = applied[w] + one /\ \A v \in Workers \ {w} : applied'[v] = applied[v]
      /\ applied' \in [Workers -> Nat]
  BY <1>3 DEF Deliver
<1>7. PortInv'
  <2>1. \A t \in Tasks : commit'[t] <= updates'
    BY <1>1, <1>2 DEF PortInv
  <2>2. ASSUME NEW v \in links PROVE updates <= applied'[v] + Updates(down'[v], Len(down'[v]))
    <3>1. v \in Workers /\ updates <= applied[v] + Updates(down[v], Len(down[v]))
      BY <1>1, WorkerNames DEF PortInv
    <3>2. CASE v = w
      <4>1. Updates(s, Len(s)) = Updates(Tail(s), Len(Tail(s))) + one
        BY <1>4
      <4>2. Updates(Tail(s), Len(Tail(s))) \in Nat /\ applied[w] \in Nat /\ one \in Nat
        BY <1>3, <1>4, UpdatesType
      <4>3. updates <= applied[w] + Updates(s, Len(s)) /\ updates \in Nat
        BY <1>1, <3>1, <3>2, Numbers
      <4>4. updates <= (applied[w] + one) + Updates(Tail(s), Len(Tail(s)))
        BY <4>1, <4>2, <4>3
      <4> QED BY <1>5, <1>6, <3>2, <4>4
    <3> QED BY <1>5, <1>6, <3>1, <3>2
  <2>3. ASSUME NEW v \in Workers, NEW i \in 1..Len(down'[v]), down'[v][i] # None
        PROVE  Timely(v, down'[v][i], applied'[v] + Updates(down'[v], i - 1))
    <3>1. CASE v = w
      <4>1. /\ i \in 1..Len(Tail(s)) /\ Tail(s)[i] = s[i + 1] /\ i + 1 \in 1..Len(s)
            /\ i - 1 \in 0..Len(Tail(s))
        BY <1>4, <1>5, <2>3, <3>1
      <4>2. Updates(s, (i - 1) + 1) = Updates(Tail(s), i - 1) + one
        BY <1>4, <4>1
      <4>3. Timely(w, s[i + 1], applied[w] + Updates(s, (i + 1) - 1))
        BY <1>1, <1>5, <2>3, <3>1, <4>1 DEF PortInv
      <4>4. Updates(Tail(s), i - 1) \in Nat /\ applied[w] \in Nat /\ one \in Nat /\ i \in Nat
        <5>1. i - 1 \in Nat /\ i \in Nat
          BY <1>4, <4>1
        <5>2. Updates(Tail(s), i - 1) \in Nat
          BY <5>1, UpdatesType
        <5> QED BY <1>3, <5>1, <5>2
      <4>5. (i + 1) - 1 = (i - 1) + 1
        BY <4>4
      <4>6. applied[w] + Updates(s, (i + 1) - 1) = (applied[w] + one) + Updates(Tail(s), i - 1)
        BY <4>2, <4>4, <4>5
      <4> QED BY <1>5, <1>6, <3>1, <4>1, <4>3, <4>6
    <3>2. CASE v # w
      BY <1>1, <1>5, <1>6, <2>3, <3>2 DEF PortInv
    <3> QED BY <3>1, <3>2
  <2>4. ASSUME NEW v \in Workers, NEW i \in 1..Len(down'[v]), down'[v][i] # None
        PROVE  /\ caller'[down'[v][i].task] = v
               /\ down'[v][i].ok =>
                    /\ state'[down'[v][i].task] = "done"
                    /\ commit'[down'[v][i].task] <= applied'[v] + Updates(down'[v], i - 1)
    BY ZenonT(30), <1>2, <2>3, <2>4 DEF Timely
  <2>5. links' = links /\ updates' = updates
    BY <1>2
  <2> QED BY <2>1, <2>2, <2>4, <2>5 DEF PortInv, Timely
<1>8. CASE msg = None
  <2>1. UNCHANGED promise
    BY <1>8 DEF Deliver
  <2>2. RpcTypeOK'
    BY <1>1, <1>2, <1>5, <1>6, <2>1 DEF RpcTypeOK, Messages
  <2>3. CallInv'
    BY <1>1, <1>2, <2>1 DEF CallInv, Settled
  <2>4. ReadsItsWrites'
    <3>1. \A v \in Workers, t \in Tasks : applied[v] >= commit[t] => applied'[v] >= commit[t]
      BY <1>1, <1>6, Numbers
    <3> QED BY <1>1, <1>2, <2>1, <3>1 DEF ReadsItsWrites
  <2> QED BY <1>7, <2>2, <2>3, <2>4 DEF Linked
<1>9. CASE msg # None
  <2>1. msg \in Answer /\ msg.task \in Tasks /\ msg.ok \in BOOLEAN
    BY <1>4, <1>9 DEF Answer
  <2>2. caller[msg.task] = w /\ (msg.ok => state[msg.task] = "done" /\ commit[msg.task] <= applied[w])
    <3>1. Timely(w, s[1], applied[w] + Updates(s, 1 - 1))
      BY <1>1, <1>4, <1>9 DEF PortInv
    <3>2. applied[w] + Updates(s, 1 - 1) = applied[w]
      BY <1>3, NoUpdatesBefore
    <3> QED BY <1>4, <3>1, <3>2 DEF Timely
  <2>3. /\ promise' \in [Tasks -> {"none", "pending", "resolved", "rejected"}]
        /\ \A t \in Tasks \ {msg.task} : promise'[t] = promise[t]
        /\ \/ promise'[msg.task] = promise[msg.task]
           \/ promise'[msg.task] = IF msg.ok THEN "resolved" ELSE "rejected"
    <3>1. promise' = Handled(msg)
      BY <1>9 DEF Deliver
    <3> QED BY <1>3, <2>1, <3>1 DEF Handled
  <2>4. applied'[w] = applied[w] /\ \A v \in Workers : applied'[v] = applied[v]
    BY <1>3, <1>6, <1>9
  <2>5. RpcTypeOK'
    BY <1>1, <1>2, <1>5, <1>6, <2>3 DEF RpcTypeOK, Messages
  <2>6. CallInv'
    <3>1. \A t \in Tasks : caller'[t] = None => promise'[t] = "none"
      BY <1>1, <1>2, <2>2, <2>3, WorkerNames DEF CallInv
    <3>2. \A t \in Tasks : caller'[t] = Main /\ promise'[t] \in {"resolved", "rejected"} => t \in replied'
      BY <1>1, <1>2, <2>2, <2>3, WorkerNames DEF CallInv, Settled
    <3> QED BY <1>1, <1>2, <3>1, <3>2 DEF CallInv, Settled
  <2>7. ReadsItsWrites'
    <3>1. ASSUME NEW t \in Tasks, promise'[t] = "resolved", t # msg.task
          PROVE  state'[t] = "done" /\ (caller'[t] \in Workers => applied'[caller'[t]] >= commit'[t])
      BY <1>1, <1>2, <2>3, <2>4, <3>1 DEF ReadsItsWrites
    <3>2. ASSUME promise'[msg.task] = "resolved"
          PROVE  /\ state'[msg.task] = "done"
                 /\ caller'[msg.task] \in Workers => applied'[caller'[msg.task]] >= commit'[msg.task]
      <4>1. CASE promise[msg.task] = "resolved"
        BY <1>1, <1>2, <2>1, <2>4, <4>1 DEF ReadsItsWrites
      <4>2. CASE msg.ok
        <5>1. commit[msg.task] \in Nat /\ applied[w] \in Nat
          BY <1>1, <2>1, Numbers
        <5> QED BY <1>2, <2>2, <2>4, <4>2, <5>1
      <4> QED BY <2>3, <3>2, <4>1, <4>2
    <3> QED BY <3>1, <3>2 DEF ReadsItsWrites
  <2> QED BY <1>7, <2>5, <2>6, <2>7 DEF Linked
<1> QED BY <1>8, <1>9

-----------------------------------------------------------------------------
(* Theorems. *)

LEMMA NextRpcInv == ASSUME RpcInv, [RpcNext]_allVars PROVE RpcInv'
<1>1. RpcTypeOK /\ StoreInv /\ [Next]_vars
  BY StoreStep DEF RpcInv, Linked
<1>2. StoreInv' /\ TypeOK'
  BY <1>1, NextStore DEF StoreInv
<1>3. \A u \in Tasks : state[u] = "done" => state'[u] = "done"
  BY <1>1, DoneStays
<1>4. Linked'
  <2>1. ASSUME NEW t \in Tasks, NEW r \in Requests,
               CallMain(t, r) \/ \E w \in Workers : Send(w, t, r)
        PROVE  Linked'
    BY <1>2, <1>3, <2>1, CallMainLinked, SendLinked
  <2>2. ASSUME NEW t \in Tasks, Reply(t) \/ Work(t) PROVE Linked'
    BY <1>2, <1>3, <2>2, ReplyLinked, WorkLinked
  <2>3. ASSUME NEW w \in Workers, Serve(w) \/ Deliver(w) PROVE Linked'
    BY <1>2, <1>3, <2>3, ServeLinked, DeliverLinked
  <2>4. CASE CloseKernel \/ (\E w \in Workers : LinkCloses(w) \/ CloseClient(w)) \/ UNCHANGED allVars
    BY <1>2, <1>3, <2>4, ClosingLinked
  <2> QED BY <2>1, <2>2, <2>3, <2>4 DEF RpcNext
<1> QED BY <1>2, <1>4 DEF RpcInv

LEMMA InitRpcInv == ASSUME RpcInit PROVE RpcInv
<1>1. StoreInv /\ TypeOK
  BY InitStore DEF RpcInit, StoreInv
<1>2. RpcTypeOK
  BY <1>1 DEF RpcInit, RpcTypeOK
<1>3. \A w \in Workers : Len(down[w]) = 0 /\ Len(up[w]) = 0
  BY DEF RpcInit
<1>4. CallInv /\ ReadsItsWrites
  BY <1>3, WorkerNames, <1>2 DEF RpcInit, CallInv, Settled, ReadsItsWrites
<1>5. PortInv
  <2>1. \A w \in Workers : updates <= applied[w] + Updates(down[w], Len(down[w]))
    BY <1>3, NoUpdatesBefore DEF RpcInit
  <2>2. \A t \in Tasks : commit[t] <= updates
    BY DEF RpcInit
  <2> QED BY <1>2, <1>3, <2>1, <2>2, WorkerNames DEF PortInv
<1> QED BY <1>1, <1>2, <1>4, <1>5 DEF RpcInv, Linked

LEMMA RpcInductive == RpcSpec => []RpcInv
BY InitRpcInv, NextRpcInv, PTL DEF RpcSpec

\* Calls, messages and promises keep their types.
THEOREM RpcTyped == RpcSpec => []RpcTypeOK
<1>1. RpcInv => RpcTypeOK
  BY DEF RpcInv, Linked
<1> QED BY <1>1, RpcInductive, PTL

\* The store behind the links behaves as VirtualStore does, which therefore keeps
\* its promises to the workers: no file lies below another (HierarchyHolds), and
\* mutations act atomically while the kernel is ready (StoreActsAtomically).
THEOREM RpcKeepsStore == RpcSpec => Spec
<1>1. RpcInit => Init
  BY DEF RpcInit
<1>2. RpcInv /\ [RpcNext]_allVars => [Next]_vars
  BY StoreStep DEF RpcInv, Linked
<1> QED BY <1>1, <1>2, RpcInductive, PTL DEF RpcSpec, Spec

\* A thread that sees its mutation resolved reads what it did.
THEOREM ReadsItsWritesAlways == RpcSpec => []ReadsItsWrites
<1>1. RpcInv => ReadsItsWrites
  BY DEF RpcInv, Linked
<1> QED BY <1>1, RpcInductive, PTL

\* A step leaves what is settled.
LEMMA StepSettlesOnce ==
  ASSUME RpcInv, [RpcNext]_allVars, NEW t \in Tasks, promise[t] \in {"resolved", "rejected"}
  PROVE  promise'[t] = promise[t]
<1>1. /\ RpcTypeOK /\ CallInv /\ promise \in [Tasks -> {"none", "pending", "resolved", "rejected"}]
      /\ caller[t] # None
  BY DEF RpcInv, Linked, RpcTypeOK, CallInv
<1>2. ASSUME NEW u \in Tasks, NEW r \in Requests,
             CallMain(u, r) \/ \E w \in Workers : Send(w, u, r)
      PROVE  promise'[t] = promise[t]
  BY <1>1, <1>2 DEF CallMain, Send, Calls
<1>3. ASSUME NEW u \in Tasks, Reply(u) PROVE promise'[t] = promise[t]
  <2>1. CASE u = t /\ caller[t] = Main
    BY <1>1, <1>3, <2>1 DEF Reply, CallInv, Settled
  <2>2. CASE u # t \/ caller[t] # Main
    BY <1>1, <1>3, <2>2 DEF Reply, Answered
  <2> QED BY <2>1, <2>2
<1>4. ASSUME NEW w \in Workers, Serve(w) PROVE promise'[t] = promise[t]
  <2>1. up[w] \in Seq([task : Tasks, req : Requests]) /\ up[w] # <<>>
    BY <1>1, <1>4 DEF RpcTypeOK, Serve
  <2>2. Head(up[w]) = up[w][1] /\ 1 \in 1..Len(up[w])
    BY <2>1, HeadType
  <2>3. caller[Head(up[w]).task] = w
    BY <1>1, <2>2 DEF CallInv
  <2>4. caller[Head(up[w]).task] # Main
    BY <1>1, <2>3, WorkerNames
  <2> QED BY <1>4, <2>4 DEF Serve, Answered
<1>5. ASSUME NEW w \in Workers, Deliver(w) PROVE promise'[t] = promise[t]
  <2>1. CASE UNCHANGED promise
    BY <2>1
  <2>2. CASE promise' = Handled(Head(down[w]))
    BY <1>1, <2>2 DEF Handled
  <2> QED BY <1>5, <2>1, <2>2 DEF Deliver
<1>6. ASSUME NEW w \in Workers, CloseClient(w) PROVE promise'[t] = promise[t]
  BY <1>6 DEF CloseClient, Abandoned
<1>7. ASSUME NEW u \in Tasks, Work(u) PROVE promise'[t] = promise[t]
  BY <1>7 DEF Work
<1>8. ASSUME NEW w \in Workers, LinkCloses(w) PROVE promise'[t] = promise[t]
  BY <1>8 DEF LinkCloses
<1>9. CASE CloseKernel \/ UNCHANGED allVars
  BY <1>9 DEF CloseKernel, allVars, rpcVars
<1> QED BY <1>2, <1>3, <1>4, <1>5, <1>6, <1>7, <1>8, <1>9 DEF RpcNext

\* No promise settles twice, whatever still arrives on a link that ended.
THEOREM CallsSettleOnce == RpcSpec => SettlesOnce
<1>1. RpcInv /\ [RpcNext]_allVars
        => [\A t \in Tasks :
              promise[t] \in {"resolved", "rejected"} => promise'[t] = promise[t]]_allVars
  BY StepSettlesOnce
<1> QED BY <1>1, RpcInductive, PTL DEF RpcSpec, SettlesOnce

-----------------------------------------------------------------------------
(* The order of a thread's calls. *)

\* Tasks are numbered in the order of the calls; those in a port come in that
\* order, and nothing called after them has been accepted.
CalledInv ==
  /\ \A t, u \in Tasks : t < u /\ caller[u] # None => caller[t] # None
  /\ \A t \in Tasks : caller[t] = None => state[t] = "new"

CallsInOrder(w) ==
  /\ \A i \in 1..Len(up[w]) :
       \A u \in Tasks : caller[u] = w /\ up[w][i].task <= u => state[u] = "new"
  /\ \A i, j \in 1..Len(up[w]) : i < j => up[w][i].task < up[w][j].task

\* The later of two conflicting calls of a thread waits for the earlier one.
Behind(t, u) ==
  /\ t < u /\ caller[t] = caller[u] /\ Pending(t) /\ Pending(u)
  /\ Conflict(locks[t], locks[u])
WaitsInv == \A t, u \in Tasks : Behind(t, u) => t \in ahead[u]

SessionInv == CalledInv /\ (\A w \in Workers : CallsInOrder(w)) /\ WaitsInv

LEMMA Numbered == \A t \in Tasks : t \in Nat
<1>1. Cardinality(Tasks) \in Nat
  BY WorkersAssumption, FS_CardinalityType
<1> QED BY <1>1, WorkersAssumption

\* A turn is of a task that was accepted; nobody stops waiting for it before it is
\* over.
LEMMA TurnOrder ==
  ASSUME StoreInv, NEW t \in Tasks, Turn(t)
  PROVE  /\ state[t] # "new" /\ state'[t] # "new"
         /\ \A u \in Tasks \ {t} : state'[u] = state[u] /\ locks'[u] = locks[u]
         /\ \A u \in Tasks : \/ ahead'[u] = ahead[u]
                             \/ ahead'[u] = ahead[u] \ {t} /\ ~Pending(t)'
         /\ Pending(t) /\ (Pending(t)' => locks'[t] = locks[t])
<1>1. TypeOK /\ OrderInv
  BY DEF StoreInv
<1>2. CASE Start(t)
  <2>1. state[t] = "queued" /\ Pending(t)
    BY <1>2 DEF Start, ItsTurn, Pending
  <2>2. ASSUME NEW s \in {"done", "failed"}, Over(t, s)
        PROVE  /\ state'[t] = s /\ ~Pending(t)'
               /\ \A u \in Tasks \ {t} : state'[u] = state[u] /\ locks'[u] = locks[u]
               /\ \A u \in Tasks : ahead'[u] = ahead[u] \ {t}
    BY <1>1, <2>2, OverFacts
  <2>3. ASSUME NEW q \in Plan, Publishes(t, q)
        PROVE  /\ state'[t] = "publishing" /\ UNCHANGED <<locks, ahead>>
               /\ \A u \in Tasks \ {t} : state'[u] = state[u]
    BY <1>1, <2>1, <2>3, PublishesFacts
  <2>4. \/ Over(t, "failed") \/ Over(t, "done")
        \/ \E q \in Plan : Publishes(t, q)
    BY <1>1, <1>2, TurnOf DEF Refused, Begins, Drops, Removes, Ends
  <2> QED BY <2>1, <2>2, <2>3, <2>4
<1>3. CASE Stage(t)
  <2>1. state[t] = "publishing" /\ state' = [state EXCEPT ![t] = "staged"]
        /\ UNCHANGED <<locks, ahead>>
    BY <1>3 DEF Stage
  <2>2. state'[t] = "staged" /\ \A u \in Tasks \ {t} : state'[u] = state[u]
    BY <1>1, <2>1 DEF TypeOK
  <2> QED BY <2>1, <2>2 DEF Pending, Running
<1>4. CASE Flush(t) \/ Fail(t)
  <2>1. state[t] \in {"publishing", "staged"} /\ Pending(t)
    BY <1>4 DEF Flush, Fail, Pending, Running
  <2>2. \E s \in {"done", "failed"} : Over(t, s)
    BY <1>4 DEF Flush, Fail, PublicationEnds
  <2>3. PICK s \in {"done", "failed"} : Over(t, s)
    BY <2>2
  <2>4. /\ state'[t] = s /\ ~Pending(t)'
        /\ \A u \in Tasks \ {t} : state'[u] = state[u] /\ locks'[u] = locks[u]
        /\ \A u \in Tasks : ahead'[u] = ahead[u] \ {t}
    BY <1>1, <2>3, OverFacts
  <2> QED BY <2>1, <2>4
<1> QED BY <1>2, <1>3, <1>4 DEF Turn

LEMMA AcceptFacts ==
  ASSUME TypeOK, NEW t \in Tasks, NEW r, Accept(t, r)
  PROVE  /\ state[t] = "new" /\ state'[t] = "queued" /\ locks'[t] = LocksOf(r)
         /\ ahead'[t] = {u \in Tasks : Pending(u) /\ Conflict(locks[u], locks'[t])}
         /\ \A u \in Tasks \ {t} : /\ state'[u] = state[u] /\ locks'[u] = locks[u]
                                   /\ ahead'[u] = ahead[u]
BY DEF Accept, TypeOK

\* The task that is accepted finds no later call of its thread accepted.
LEMMA AcceptWaits ==
  ASSUME RpcTypeOK, WaitsInv, NEW t \in Tasks, NEW r, Accept(t, r),
         \A u \in Tasks : t < u /\ caller'[t] = caller'[u] => state[u] = "new",
         \A u \in Tasks \ {t} : caller'[u] = caller[u]
  PROVE  WaitsInv'
<1>1. TypeOK
  BY DEF RpcTypeOK
<1> SUFFICES ASSUME NEW u \in Tasks, NEW v \in Tasks, Behind(u, v)' PROVE u \in ahead'[v]
  BY DEF WaitsInv
<1>2. /\ u < v /\ caller'[u] = caller'[v] /\ Pending(u)' /\ Pending(v)'
      /\ Conflict(locks'[u], locks'[v])
  BY DEF Behind
<1>3. u # v
  BY <1>2, Numbered
<1>4. CASE v = t
  <2>1. Pending(u) /\ locks'[u] = locks[u]
    BY <1>1, <1>2, <1>3, <1>4, AcceptFacts DEF Pending, Running
  <2> QED BY <1>1, <1>2, <1>4, <2>1, AcceptFacts
<1>5. CASE u = t
  <2>1. state[v] = "new" /\ state'[v] = state[v]
    BY <1>1, <1>2, <1>3, <1>5, AcceptFacts
  <2> QED BY <1>2, <2>1 DEF Pending, Running
<1>6. CASE u # t /\ v # t
  <2>1. Behind(u, v) /\ ahead'[v] = ahead[v]
    BY <1>1, <1>2, <1>6, AcceptFacts DEF Behind, Pending, Running
  <2> QED BY <2>1 DEF WaitsInv
<1> QED BY <1>4, <1>5, <1>6

LEMMA CallMainSession ==
  ASSUME RpcInv, SessionInv, NEW t \in Tasks, NEW r \in Requests, CallMain(t, r)
  PROVE  SessionInv'
<1>1. RpcTypeOK /\ TypeOK /\ CallInv
  BY DEF RpcInv, Linked, RpcTypeOK
<1>2. /\ caller[t] = None /\ caller'[t] = Main /\ Main # None
      /\ \A u \in Tasks \ {t} : caller'[u] = caller[u]
      /\ \A u \in Tasks : u < t => caller[u] # None
  BY <1>1, CallsKeeps, WorkerNames DEF CallMain, Calls
<1>3. /\ state[t] = "new" /\ \A u \in Tasks \ {t} : state'[u] = state[u]
  BY <1>1, AcceptFacts DEF CallMain
<1>4. up' = up
  BY DEF CallMain
<1>5. CalledInv'
  BY <1>2, <1>3 DEF SessionInv, CalledInv
<1>6. ASSUME NEW w \in Workers PROVE CallsInOrder(w)'
  <2>1. w # Main
    BY <1>1, WorkerNames
  <2>2. \A u \in Tasks : caller'[u] = w => caller[u] = w /\ state'[u] = state[u]
    BY <1>2, <1>3, <2>1
  <2> QED BY <1>4, <2>2 DEF SessionInv, CallsInOrder
<1>7. WaitsInv'
  <2>1. \A u \in Tasks : t < u /\ caller'[t] = caller'[u] => state[u] = "new"
    BY <1>2, Numbered DEF SessionInv, CalledInv
  <2> QED BY <1>1, <1>2, <2>1, AcceptWaits DEF CallMain, SessionInv
<1> QED BY <1>5, <1>6, <1>7 DEF SessionInv

LEMMA SendSession ==
  ASSUME RpcInv, SessionInv, NEW w \in Workers, NEW t \in Tasks, NEW r \in Requests, Send(w, t, r)
  PROVE  SessionInv'
<1>1. RpcTypeOK /\ CallInv
  BY DEF RpcInv, Linked
<1>2. /\ caller[t] = None /\ caller'[t] = w /\ w # None
      /\ \A u \in Tasks \ {t} : caller'[u] = caller[u]
      /\ \A u \in Tasks : u < t => caller[u] # None
      /\ UNCHANGED <<state, locks, ahead>>
  BY <1>1, CallsKeeps, WorkerNames DEF Send, Calls, vars
<1>3. state[t] = "new" /\ \A u \in Tasks : t < u => caller[u] = None /\ state[u] = "new"
  BY <1>2 DEF SessionInv, CalledInv
<1>4. CalledInv'
  BY <1>2, <1>3 DEF SessionInv, CalledInv
<1>5. WaitsInv'
  <2> SUFFICES ASSUME NEW u \in Tasks, NEW v \in Tasks, Behind(u, v)' PROVE u \in ahead'[v]
    BY DEF WaitsInv
  <2>1. Pending(u) /\ Pending(v) /\ u # t /\ v # t
    BY <1>2, <1>3 DEF Behind, Pending, Running
  <2>2. Behind(u, v)
    BY <1>2, <2>1 DEF Behind
  <2> QED BY <1>2, <2>2 DEF SessionInv, WaitsInv
<1>6. ASSUME NEW v \in Workers PROVE CallsInOrder(v)'
  <2>1. \A u \in Tasks : caller'[u] = v => state'[u] = "new" \/ (caller[u] = v /\ state'[u] = state[u])
    BY <1>2, <1>3
  <2>2. CASE up'[v] = up[v]
    BY <2>1, <2>2 DEF SessionInv, CallsInOrder
  <2>3. CASE up'[v] # up[v]
    <3> DEFINE call == [task |-> t, req |-> r]
               Ask == [task : Tasks, req : Requests]
    <3>1. call.task = t /\ call \in Ask /\ up[v] \in Seq(Ask)
      BY <1>1 DEF RpcTypeOK
    <3>2. up' = [up EXCEPT ![w] = Append(@, call)] /\ v = w
      BY <1>1, <2>3 DEF Send, RpcTypeOK
    <3>3. up'[w] = Append(up[w], call)
      BY <1>1, <3>2 DEF RpcTypeOK
    <3>4. \A i \in 1..Len(up[w]) : up[w][i].task \in Tasks /\ caller[up[w][i].task] = w
      BY <1>1, CallTasks DEF CallInv
    <3>5. \A i \in 1..Len(up[w]) : up[w][i].task < t
      <4> SUFFICES ASSUME NEW i \in 1..Len(up[w]) PROVE up[w][i].task < t
        OBVIOUS
      <4>1. up[w][i].task \in Tasks /\ caller[up[w][i].task] # None
        BY <1>2, <3>4
      <4>2. up[w][i].task # t /\ ~(t < up[w][i].task)
        BY <1>2, <1>3, <4>1
      <4> QED BY <4>1, <4>2, Numbered
    <3> HIDE DEF call, Ask
    <3>6. /\ Len(up'[w]) = Len(up[w]) + 1 /\ Len(up[w]) \in Nat
          /\ \A i \in 1..Len(up[w]) : up'[w][i] = up[w][i]
          /\ up'[w][Len(up[w]) + 1] = call
      BY <3>1, <3>2, <3>3
    <3>7. ASSUME NEW i \in 1..Len(up'[w]), NEW u \in Tasks, caller'[u] = w, up'[w][i].task <= u
          PROVE  state'[u] = "new"
      <4>1. CASE i \in 1..Len(up[w])
        <5>1. state'[u] = "new" \/ (caller[u] = w /\ state'[u] = state[u])
          BY <2>1, <3>2, <3>7
        <5> QED BY <3>6, <3>7, <4>1, <5>1 DEF SessionInv, CallsInOrder
      <4>2. CASE i = Len(up[w]) + 1
        <5>1. t <= u
          BY <3>1, <3>6, <3>7, <4>2
        <5> QED BY <1>2, <1>3, <5>1, Numbered
      <4> QED BY <3>6, <3>7, <4>1, <4>2
    <3>8. ASSUME NEW i \in 1..Len(up'[w]), NEW j \in 1..Len(up'[w]), i < j
          PROVE  up'[w][i].task < up'[w][j].task
      <4>1. i \in 1..Len(up[w])
        BY <3>6, <3>8
      <4>2. CASE j \in 1..Len(up[w])
        BY <3>6, <3>8, <4>1, <4>2 DEF SessionInv, CallsInOrder
      <4>3. CASE j = Len(up[w]) + 1
        BY <3>1, <3>5, <3>6, <4>1, <4>3
      <4> QED BY <3>6, <3>8, <4>2, <4>3
    <3> QED BY <3>2, <3>7, <3>8 DEF CallsInOrder
  <2> QED BY <2>2, <2>3
<1> QED BY <1>4, <1>5, <1>6 DEF SessionInv

\* Calls are served in the order of the port.
LEMMA ServeSession ==
  ASSUME RpcInv, SessionInv, NEW w \in Workers, Serve(w)
  PROVE  SessionInv'
<1>1. RpcTypeOK /\ TypeOK /\ CallInv
  BY DEF RpcInv, Linked, RpcTypeOK
<1> DEFINE Ask == [task : Tasks, req : Requests]
<1>2. up \in [Workers -> Seq(Ask)] /\ up[w] # <<>> /\ up' = [up EXCEPT ![w] = Tail(@)]
  BY <1>1 DEF RpcTypeOK, Serve
<1>3. \A e \in Ask : e.task \in Tasks /\ e.req \in Requests
  OBVIOUS
<1> HIDE DEF Ask
<1>4. /\ Head(up[w]) \in Ask /\ up[w][1] = Head(up[w]) /\ 1 \in 1..Len(up[w])
      /\ Len(Tail(up[w])) = Len(up[w]) - 1 /\ Len(up[w]) \in Nat
      /\ \A i \in 1..Len(Tail(up[w])) : i + 1 \in 1..Len(up[w]) /\ Tail(up[w])[i] = up[w][i + 1]
  BY <1>2, HeadType
<1>5. PICK t \in Tasks : t = Head(up[w]).task
  BY <1>3, <1>4
<1>6. caller[t] = w /\ caller' = caller
  BY <1>1, <1>4, <1>5 DEF CallInv, Serve
<1>7. \A i \in 1..Len(Tail(up[w])) : Tail(up[w])[i].task \in Tasks /\ t < Tail(up[w])[i].task
  <2> SUFFICES ASSUME NEW i \in 1..Len(Tail(up[w]))
               PROVE  Tail(up[w])[i].task \in Tasks /\ t < Tail(up[w])[i].task
    OBVIOUS
  <2>1. i + 1 \in 1..Len(up[w]) /\ Tail(up[w])[i] = up[w][i + 1] /\ 1 < i + 1
    BY <1>4
  <2>2. up[w][1].task < up[w][i + 1].task
    BY <1>4, <2>1 DEF SessionInv, CallsInOrder
  <2> QED BY <1>1, <1>4, <1>5, <2>1, <2>2, CallTasks
<1>8. up'[w] = Tail(up[w]) /\ \A v \in Workers \ {w} : up'[v] = up[v]
  BY <1>2
<1>9. \A i, j \in 1..Len(Tail(up[w])) : i < j => Tail(up[w])[i].task < Tail(up[w])[j].task
  <2> SUFFICES ASSUME NEW i \in 1..Len(Tail(up[w])), NEW j \in 1..Len(Tail(up[w])), i < j
               PROVE  Tail(up[w])[i].task < Tail(up[w])[j].task
    OBVIOUS
  <2>1. /\ i + 1 \in 1..Len(up[w]) /\ j + 1 \in 1..Len(up[w]) /\ i + 1 < j + 1
        /\ Tail(up[w])[i] = up[w][i + 1] /\ Tail(up[w])[j] = up[w][j + 1]
    BY <1>4
  <2> QED BY <2>1 DEF SessionInv, CallsInOrder
<1>10. \A i \in 1..Len(Tail(up[w])), u \in Tasks :
         caller[u] = w /\ Tail(up[w])[i].task <= u => state[u] = "new" /\ u # t
  <2> SUFFICES ASSUME NEW i \in 1..Len(Tail(up[w])), NEW u \in Tasks, caller[u] = w,
                      Tail(up[w])[i].task <= u
               PROVE  state[u] = "new" /\ u # t
    OBVIOUS
  <2>1. i + 1 \in 1..Len(up[w]) /\ Tail(up[w])[i] = up[w][i + 1]
    BY <1>4
  <2>2. state[u] = "new"
    BY <2>1 DEF SessionInv, CallsInOrder
  <2>3. u # t
    BY <1>7, Numbered
  <2> QED BY <2>2, <2>3
<1>11. CASE UNCHANGED vars
  <2>1. CalledInv' /\ WaitsInv'
    BY <1>6, <1>11 DEF vars, SessionInv, CalledInv, WaitsInv, Behind, Pending, Running
  <2>2. ASSUME NEW v \in Workers PROVE CallsInOrder(v)'
    BY <1>6, <1>8, <1>9, <1>10, <1>11 DEF vars, SessionInv, CallsInOrder
  <2> QED BY <2>1, <2>2 DEF SessionInv
<1>12. ASSUME NEW r, Accept(t, r) PROVE SessionInv'
  <2>1. /\ state[t] = "new" /\ state'[t] = "queued"
        /\ \A u \in Tasks \ {t} : state'[u] = state[u]
    BY <1>1, <1>12, AcceptFacts
  <2>2. CalledInv'
    BY <1>1, <1>6, <2>1, WorkerNames DEF SessionInv, CalledInv
  <2>3. WaitsInv'
    <3>1. \A u \in Tasks : t < u /\ caller'[t] = caller'[u] => state[u] = "new"
      <4> SUFFICES ASSUME NEW u \in Tasks, t < u, caller[u] = w PROVE state[u] = "new"
        BY <1>6
      <4>1. up[w][1].task <= u
        BY <1>4, <1>5, Numbered
      <4> QED BY <1>4, <4>1 DEF SessionInv, CallsInOrder
    <3> QED BY <1>1, <1>6, <1>12, <3>1, AcceptWaits DEF SessionInv
  <2>4. ASSUME NEW v \in Workers PROVE CallsInOrder(v)'
    <3>1. CASE v = w
      BY <1>6, <1>8, <1>9, <1>10, <2>1, <3>1 DEF CallsInOrder
    <3>2. CASE v # w
      <4>1. \A u \in Tasks : caller'[u] = v => caller[u] = v /\ state'[u] = state[u]
        BY <1>6, <2>1, <3>2
      <4> QED BY <1>8, <3>2, <4>1 DEF SessionInv, CallsInOrder
    <3> QED BY <3>1, <3>2
  <2> QED BY <2>2, <2>3, <2>4 DEF SessionInv
<1> QED BY <1>5, <1>11, <1>12 DEF Serve

LEMMA WorkSession ==
  ASSUME RpcInv, SessionInv, NEW t \in Tasks, Work(t)
  PROVE  SessionInv'
<1>1. StoreInv /\ Turn(t) /\ UNCHANGED <<caller, up>>
  BY DEF RpcInv, Work
<1>2. /\ state[t] # "new" /\ state'[t] # "new"
      /\ \A u \in Tasks \ {t} : state'[u] = state[u] /\ locks'[u] = locks[u]
      /\ \A u \in Tasks : \/ ahead'[u] = ahead[u]
                          \/ ahead'[u] = ahead[u] \ {t} /\ ~Pending(t)'
      /\ Pending(t) /\ (Pending(t)' => locks'[t] = locks[t])
  BY <1>1, TurnOrder
<1>3. \A u \in Tasks : (state'[u] = "new" <=> state[u] = "new")
  BY <1>2
<1>4. CalledInv' /\ \A w \in Workers : CallsInOrder(w)'
  BY <1>1, <1>3 DEF SessionInv, CalledInv, CallsInOrder
<1>5. WaitsInv'
  <2> SUFFICES ASSUME NEW u \in Tasks, NEW v \in Tasks, Behind(u, v)' PROVE u \in ahead'[v]
    BY DEF WaitsInv
  <2>1. Behind(u, v)
    BY <1>1, <1>2 DEF Behind, Pending, Running
  <2>2. u \in ahead[v] /\ Pending(u)'
    BY <2>1 DEF SessionInv, WaitsInv, Behind
  <2> QED BY <1>2, <2>2
<1> QED BY <1>4, <1>5 DEF SessionInv

\* Calls of one thread that touch the same key run in the order of the calls.
THEOREM SessionOrderAlways == RpcSpec => []SessionOrder
<1>1. RpcInit => SessionInv
  <2> SUFFICES ASSUME RpcInit PROVE SessionInv
    OBVIOUS
  <2>1. /\ \A t \in Tasks : state[t] = "new" /\ caller[t] = None
        /\ \A w \in Workers : Len(up[w]) = 0
    BY DEF RpcInit, Init
  <2> QED BY <2>1 DEF SessionInv, CalledInv, CallsInOrder, WaitsInv, Behind, Pending, Running
<1>2. RpcInv /\ SessionInv /\ [RpcNext]_allVars => SessionInv'
  <2> SUFFICES ASSUME RpcInv, SessionInv, [RpcNext]_allVars PROVE SessionInv'
    OBVIOUS
  <2>1. ASSUME NEW t \in Tasks, NEW r \in Requests,
               CallMain(t, r) \/ \E w \in Workers : Send(w, t, r)
        PROVE  SessionInv'
    BY <2>1, CallMainSession, SendSession
  <2>2. ASSUME NEW t \in Tasks, Work(t) PROVE SessionInv'
    BY <2>2, WorkSession
  <2>3. ASSUME NEW w \in Workers, Serve(w) PROVE SessionInv'
    BY <2>3, ServeSession
  <2>4. CASE UNCHANGED <<state, locks, ahead, caller, up>>
    BY <2>4 DEF SessionInv, CalledInv, CallsInOrder, WaitsInv, Behind, Pending, Running
  <2>5. \/ (\E t \in Tasks : Reply(t)) \/ CloseKernel
        \/ (\E w \in Workers : LinkCloses(w) \/ Deliver(w) \/ CloseClient(w)) \/ UNCHANGED allVars
        => UNCHANGED <<state, locks, ahead, caller, up>>
    BY DEF Reply, CloseKernel, Close, LinkCloses, Deliver, CloseClient, allVars, vars, rpcVars
  <2> QED BY <2>1, <2>2, <2>3, <2>4, <2>5 DEF RpcNext
<1>3. RpcInv /\ SessionInv => SessionOrder
  <2> SUFFICES ASSUME RpcInv, SessionInv, NEW t \in Tasks, NEW u \in Tasks,
                      t < u, caller[t] = caller[u], Pending(t) \/ OnItsWay(t), Running(u),
                      OnItsWay(t) \/ Conflict(locks[t], locks[u])
               PROVE  FALSE
    BY DEF SessionOrder
  <2>1. CASE OnItsWay(t)
    <3>1. PICK w \in Workers : \E i \in DOMAIN up[w] : up[w][i].task = t
      BY <2>1 DEF OnItsWay
    <3>2. PICK i \in 1..Len(up[w]) : up[w][i].task = t
      BY <3>1 DEF RpcInv, Linked, RpcTypeOK
    <3>3. caller[u] = w /\ t <= u
      BY <3>2, Numbered DEF RpcInv, Linked, CallInv
    <3>4. state[u] = "new"
      BY <3>2, <3>3 DEF SessionInv, CallsInOrder
    <3> QED BY <3>4 DEF Running
  <2>2. CASE ~OnItsWay(t)
    <3>1. Behind(t, u)
      BY <2>2 DEF Behind, Pending
    <3>2. ahead[u] = {}
      BY DEF RpcInv, StoreInv, OrderInv
    <3> QED BY <3>1, <3>2 DEF SessionInv, WaitsInv
  <2> QED BY <2>1, <2>2
<1> QED BY <1>1, <1>2, <1>3, RpcInductive, PTL DEF RpcSpec
=============================================================================
