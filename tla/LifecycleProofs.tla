--------------------------- MODULE LifecycleProofs ---------------------------
(***************************************************************************)
(* For any places, files and lanes: Lifecycle is typed, initialize()       *)
(* publishes all that its origins returned or nothing (AllOrNothing), a    *)
(* rejected initialize() leaves a closed kernel that holds nothing         *)
(* (RejectedHoldsNothing), and a closed kernel publishes nothing           *)
(* (ClosedPublishesNothing).                                               *)
(*                                                                         *)
(* What an origin returned is at every moment staged, queued or in a lane, *)
(* unless a file has failed (FilesInv), and then initialize() rejects.     *)
(* Nothing is published before the one commit (StateInv).                  *)
(***************************************************************************)
EXTENDS Lifecycle, TLAPS

-----------------------------------------------------------------------------
(* The inductive invariant. *)

Idle(w) == lane[w] = <<>>
Flying == {lane[w][1] : w \in {v \in Lanes : ~Idle(v)}}

\* Where every file that was found is.
FilesInv ==
  /\ init \in {"none", "origin"} =>
       found = staged /\ queue = {} /\ ~failed /\ \A w \in Lanes : Idle(w)
  /\ init = "files" /\ ~failed =>
       /\ found = staged \cup queue \cup Flying
       /\ (\E w \in Lanes : Idle(w)) => queue = {}

\* Nothing is published before the commit, or by a closed kernel.
StateInv ==
  /\ init # "over" => index = {} /\ result = "none"
  /\ state = "new" => init = "none"
  /\ state = "closed" => index = {}
  /\ init # "over" => place <= Len(Order)

LifecycleInv == TypeOK /\ FilesInv /\ StateInv /\ AllOrNothing /\ RejectedHoldsNothing

-----------------------------------------------------------------------------
(* Lanes. *)

LEMMA NoEmptyFile == <<>> \notin File
BY DEF File

LEMMA LaneParts ==
  ASSUME TypeOK, NEW w \in Lanes, ~Idle(w)
  PROVE  lane[w] = <<lane[w][1], lane[w][2]>> /\ lane[w][1] \in File /\ lane[w][2] \in Phases
<1>1. lane[w] \in File \X Phases
  BY DEF TypeOK, Idle
<1> QED BY <1>1

LEMMA NextPhase ==
  ASSUME TypeOK, NEW w \in Lanes, ~Idle(w), NEW phase \in Phases,
         lane' = [lane EXCEPT ![w][2] = phase]
  PROVE  /\ lane' \in [Lanes -> {<<>>} \cup (File \X Phases)]
         /\ \A v \in Lanes : Idle(v)' <=> Idle(v)
         /\ Flying' = Flying
<1>1. lane[w] = <<lane[w][1], lane[w][2]>> /\ lane[w][1] \in File
  BY LaneParts
<1>2. [lane[w] EXCEPT ![2] = phase] = <<lane[w][1], phase>>
  <2> SUFFICES ASSUME NEW a, NEW b, lane[w] = <<a, b>>
               PROVE  [lane[w] EXCEPT ![2] = phase] = <<lane[w][1], phase>>
    BY <1>1
  <2> QED OBVIOUS
<1>3. /\ lane \in [Lanes -> {<<>>} \cup (File \X Phases)]
      /\ lane' = [lane EXCEPT ![w] = <<lane[w][1], phase>>]
  BY <1>2 DEF TypeOK
<1>4. /\ lane' \in [Lanes -> {<<>>} \cup (File \X Phases)]
      /\ lane'[w] = <<lane[w][1], phase>> /\ \A v \in Lanes \ {w} : lane'[v] = lane[v]
  BY <1>1, <1>3
<1>5. \A v \in Lanes : (Idle(v)' <=> Idle(v)) /\ (~Idle(v) => lane'[v][1] = lane[v][1])
  BY <1>4 DEF Idle
<1> QED BY <1>4, <1>5 DEF Flying

-----------------------------------------------------------------------------
(* Steps of initialize() and of close(). *)

\* Whoever shuts the kernel: what remains is what RejectedHoldsNothing asks for.
LEMMA ShutInv ==
  ASSUME LifecycleInv, Shut, UNCHANGED <<place, queue, lane, failed, staged, found>>,
         UNCHANGED <<init, result>> \/ (init' = "over" /\ result' = "rejected")
  PROVE  LifecycleInv'
<1>1. state' = "closed" /\ ~watcher' /\ sources' = {} /\ index' = {} /\ private' = {}
  BY DEF Shut
<1>2. TypeOK'
  BY <1>1 DEF LifecycleInv, TypeOK, Shut
<1>3. FilesInv'
  BY DEF LifecycleInv, FilesInv, Flying, Idle
<1>4. StateInv' /\ AllOrNothing' /\ RejectedHoldsNothing'
  BY <1>1 DEF LifecycleInv, StateInv, AllOrNothing, RejectedHoldsNothing
<1> QED BY <1>2, <1>3, <1>4 DEF LifecycleInv

LEMMA InitializeInv == ASSUME LifecycleInv, Initialize PROVE LifecycleInv'
<1>1. state = "new" /\ init = "none" /\ UNCHANGED <<place, queue, lane, failed, staged, found>>
  BY DEF Initialize, LifecycleInv, StateInv
<1>2. CASE GiveUp
  BY <1>1, <1>2, ShutInv DEF GiveUp
<1>3. CASE /\ state' = "initializing" /\ init' = "origin"
           /\ UNCHANGED <<result, watcher, sources, index, private>>
  <2>1. TypeOK'
    BY <1>1, <1>3 DEF LifecycleInv, TypeOK
  <2>2. FilesInv'
    BY <1>1, <1>3 DEF LifecycleInv, FilesInv, Flying, Idle
  <2>3. StateInv' /\ AllOrNothing' /\ RejectedHoldsNothing'
    BY <1>1, <1>3 DEF LifecycleInv, StateInv, AllOrNothing, RejectedHoldsNothing
  <2> QED BY <2>1, <2>2, <2>3 DEF LifecycleInv
<1> QED BY <1>2, <1>3 DEF Initialize

\* A place is done: what is staged is all that was found.
LEMMA GoOnInv ==
  ASSUME LifecycleInv, init \in {"origin", "files"}, NEW tracked \in SUBSET Disk,
         GoOn(tracked, staged), UNCHANGED <<queue, lane, failed, staged, private, found>>,
         found = staged, queue = {}, ~failed, \A w \in Lanes : Idle(w)
  PROVE  LifecycleInv'
<1>1. place' = place + 1 /\ sources' = tracked /\ index = {} /\ result = "none"
      /\ place \in Nat /\ place <= Len(Order) /\ Len(Order) \in Nat /\ place >= 1
  BY OrderAssumption DEF GoOn, LifecycleInv, StateInv, TypeOK
<1>2. \A w \in Lanes : Idle(w)'
  BY DEF Idle
<1>3. CASE place < Len(Order)
  <2>1. init' = "origin" /\ UNCHANGED <<state, result, index, watcher>>
    BY <1>3 DEF GoOn
  <2>2. TypeOK'
    BY <1>1, <1>3, <2>1 DEF LifecycleInv, TypeOK
  <2>3. FilesInv'
    BY <1>2, <2>1 DEF FilesInv
  <2>4. StateInv' /\ AllOrNothing' /\ RejectedHoldsNothing'
    BY <1>1, <1>3, <2>1 DEF LifecycleInv, StateInv, AllOrNothing, RejectedHoldsNothing
  <2> QED BY <2>2, <2>3, <2>4 DEF LifecycleInv
<1>4. CASE ~(place < Len(Order))
  <2>1. /\ init' = "over" /\ state' = "ready" /\ result' = "resolved"
        /\ index' = Flushed(staged) /\ watcher' = (Watch /\ tracked # {})
    BY <1>4 DEF GoOn
  <2>2. index' = {} \/ index' = staged
    BY <1>1, <2>1 DEF Flushed
  <2>3. watcher' \in BOOLEAN
    BY <2>1, OrderAssumption
  <2>4. TypeOK'
    BY <1>1, <2>1, <2>2, <2>3 DEF LifecycleInv, TypeOK
  <2>5. FilesInv' /\ StateInv' /\ AllOrNothing' /\ RejectedHoldsNothing'
    BY <2>1, <2>2 DEF FilesInv, StateInv, AllOrNothing, RejectedHoldsNothing
  <2> QED BY <2>4, <2>5 DEF LifecycleInv
<1> QED BY <1>3, <1>4

\* The lanes take their first files: each file of the place is in one or queued.
LEMMA BeginFiles ==
  ASSUME NEW files \in SUBSET File, Begin(files)
  PROVE  /\ lane' \in [Lanes -> {<<>>} \cup (File \X Phases)]
         /\ queue' \subseteq files /\ files = queue' \cup Flying'
         /\ (\E w \in Lanes : Idle(w)') => queue' = {}
<1>1. PICK start \in [Lanes -> files \cup {<<>>}] :
        LET taken == {start[w] : w \in Lanes} \ {<<>>}
        IN  /\ (\E w \in Lanes : start[w] = <<>>) => taken = files
            /\ lane' = [w \in Lanes |-> IF start[w] = <<>> THEN <<>> ELSE <<start[w], "input">>]
            /\ queue' = files \ taken
  BY DEF Begin
<1> DEFINE taken == {start[w] : w \in Lanes} \ {<<>>}
<1>2. /\ (\E w \in Lanes : start[w] = <<>>) => taken = files
      /\ queue' = files \ taken /\ taken \subseteq files
  BY <1>1
<1>3. ASSUME NEW w \in Lanes
      PROVE  /\ start[w] = <<>> => lane'[w] = <<>>
             /\ start[w] # <<>> => lane'[w] = <<start[w], "input">> /\ start[w] \in File
  BY <1>1
<1>4. \A w \in Lanes : Idle(w)' <=> start[w] = <<>>
  BY <1>3 DEF Idle
<1>5. lane' \in [Lanes -> {<<>>} \cup (File \X Phases)]
  BY <1>1, <1>3 DEF Phases
<1>6. Flying' = taken
  <2>1. \A w \in Lanes : start[w] # <<>> => lane'[w][1] = start[w]
    BY <1>3
  <2>2. Flying' = {lane'[w][1] : w \in {v \in Lanes : start[v] # <<>>}}
    BY <1>4 DEF Flying
  <2> QED BY <2>1, <2>2
<1> QED BY <1>2, <1>4, <1>5, <1>6

LEMMA OriginInv == ASSUME LifecycleInv, NEW names \in SUBSET Files, Origin(names) PROVE LifecycleInv'
<1> DEFINE p == Order[place]
           files == IF p \in Virtual THEN {} ELSE {p} \X names
<1>1. /\ init = "origin" /\ found' = found \cup files
      /\ UNCHANGED <<failed, staged, private>>
      /\ files = {} => GoOn(Tracked(p), staged) /\ UNCHANGED <<queue, lane>>
      /\ files # {} => /\ Begin(files) /\ init' = "files" /\ sources' = Tracked(p)
                       /\ UNCHANGED <<state, result, place, index, watcher>>
  BY DEF Origin
<1>2. p \in Disk \cup Sea \cup Virtual
  BY <1>1, OrderAssumption DEF LifecycleInv, StateInv, TypeOK
<1>3. files \in SUBSET File
  BY <1>2 DEF File
<1>4. Tracked(p) \in SUBSET Disk
  BY DEF Tracked, LifecycleInv, TypeOK
<1>5. found = staged /\ queue = {} /\ ~failed /\ \A w \in Lanes : Idle(w)
  BY <1>1 DEF LifecycleInv, FilesInv
<1> HIDE DEF files
<1>6. CASE files = {}
  BY <1>1, <1>4, <1>5, <1>6, GoOnInv
<1>7. CASE files # {}
  <2>1. /\ lane' \in [Lanes -> {<<>>} \cup (File \X Phases)]
        /\ queue' \subseteq files /\ files = queue' \cup Flying'
        /\ (\E w \in Lanes : Idle(w)') => queue' = {}
    BY <1>1, <1>3, <1>7, BeginFiles
  <2>2. init' = "files" /\ sources' = Tracked(p) /\ UNCHANGED <<state, result, place, index, watcher>>
    BY <1>1, <1>7
  <2>3. TypeOK'
    BY <1>1, <1>3, <1>4, <2>1, <2>2 DEF LifecycleInv, TypeOK
  <2>4. FilesInv'
    BY <1>1, <1>5, <2>1, <2>2 DEF FilesInv
  <2>5. StateInv' /\ AllOrNothing' /\ RejectedHoldsNothing'
    BY <1>1, <2>2 DEF LifecycleInv, StateInv, AllOrNothing, RejectedHoldsNothing
  <2> QED BY <2>3, <2>4, <2>5 DEF LifecycleInv
<1> QED BY <1>6, <1>7

LEMMA PublishedInv == ASSUME LifecycleInv, Published PROVE LifecycleInv'
<1>1. /\ init = "files" /\ ~failed /\ \A w \in Lanes : Idle(w)
      /\ GoOn(sources, staged) /\ UNCHANGED <<queue, lane, failed, staged, private, found>>
  BY DEF Published, Idle, publication
<1>2. queue = {} /\ Flying = {} /\ found = staged
  BY <1>1, OrderAssumption DEF LifecycleInv, FilesInv, Flying
<1>3. sources \in SUBSET Disk
  BY DEF LifecycleInv, TypeOK
<1> QED BY <1>1, <1>2, <1>3, GoOnInv

-----------------------------------------------------------------------------
(* Steps of a lane: initialize() awaits the files, or is over. *)

LEMMA LaneInv ==
  ASSUME LifecycleInv, NEW w \in Lanes, ~Idle(w),
         UNCHANGED <<state, init, result, place, index, sources, watcher, found>>,
         lane' \in [Lanes -> {<<>>} \cup (File \X Phases)],
         queue' \subseteq File, failed' \in BOOLEAN, staged' \subseteq File, private' \subseteq File,
         state = "closed" => private' \subseteq private,
         init = "files" /\ ~failed' =>
           /\ found = staged' \cup queue' \cup Flying'
           /\ (\E v \in Lanes : Idle(v)') => queue' = {}
  PROVE  LifecycleInv'
<1>1. init \notin {"none", "origin"}
  BY DEF LifecycleInv, FilesInv
<1>2. TypeOK' /\ FilesInv'
  BY <1>1 DEF LifecycleInv, TypeOK, FilesInv
<1>3. StateInv' /\ AllOrNothing' /\ RejectedHoldsNothing'
  BY DEF LifecycleInv, StateInv, AllOrNothing, RejectedHoldsNothing
<1> QED BY <1>2, <1>3 DEF LifecycleInv

LEMMA StepInv == ASSUME LifecycleInv, NEW w \in Lanes, Step(w) PROVE LifecycleInv'
<1>1. ~Idle(w) /\ TypeOK /\ FilesInv
  BY DEF Step, Input, Store, Build, Fail, Busy, Idle, LifecycleInv
<1>2. /\ lane[w] = <<lane[w][1], lane[w][2]>> /\ lane[w][1] \in File /\ lane[w][2] \in Phases
      /\ queue \subseteq File /\ staged \subseteq File /\ private \subseteq File /\ failed \in BOOLEAN
      /\ lane \in [Lanes -> {<<>>} \cup (File \X Phases)]
  BY <1>1, LaneParts DEF TypeOK
<1>3. CASE Input(w) \/ Store(w)
  <2>1. /\ UNCHANGED <<state, init, result, place, queue, failed, staged, index, sources, watcher, found>>
        /\ private' \in {private, private \cup {lane[w][1]}} /\ state # "closed"
    BY <1>3 DEF Input, Store, Alive
  <2>2. PICK phase \in Phases : lane' = [lane EXCEPT ![w][2] = phase]
    BY <1>3 DEF Input, Store, Phases
  <2>3. /\ lane' \in [Lanes -> {<<>>} \cup (File \X Phases)]
        /\ \A v \in Lanes : Idle(v)' <=> Idle(v)
        /\ Flying' = Flying
    BY <1>1, <2>2, NextPhase
  <2>4. init = "files" /\ ~failed' =>
           /\ found = staged' \cup queue' \cup Flying'
           /\ (\E v \in Lanes : Idle(v)') => queue' = {}
    BY <1>1, <2>1, <2>3 DEF FilesInv
  <2> QED BY <1>1, <1>2, <2>1, <2>3, <2>4, LaneInv
<1>4. CASE Build(w)
  <2>1. /\ UNCHANGED <<state, init, result, place, failed, index, sources, watcher, found>>
        /\ staged' = staged \cup {lane[w][1]} /\ private' = private \ {lane[w][1]}
    BY <1>4 DEF Build
  <2>2. PICK next \in {<<>>} \cup (File \X Phases) :
          /\ lane' = [lane EXCEPT ![w] = next]
          /\ \/ next = <<>> /\ Takes = {} /\ queue' = queue
             \/ /\ next # <<>> /\ next[1] \in Takes /\ queue' = queue \ {next[1]}
    <3>1. CASE Takes = {}
      BY <1>4, <3>1 DEF Build
    <3>2. CASE Takes # {}
      <4>1. PICK f \in Takes : lane' = [lane EXCEPT ![w] = <<f, "input">>] /\ queue' = queue \ {f}
        BY <1>4, <3>2 DEF Build
      <4>2. f \in File
        BY <1>2 DEF Takes
      <4>3. <<f, "input">> \in File \X Phases /\ <<f, "input">> # <<>> /\ <<f, "input">>[1] = f
        BY <4>2 DEF Phases
      <4> QED BY <4>1, <4>3
    <3> QED BY <3>1, <3>2
  <2>3. /\ lane' \in [Lanes -> {<<>>} \cup (File \X Phases)]
        /\ lane'[w] = next /\ \A v \in Lanes \ {w} : lane'[v] = lane[v]
    BY <1>2, <2>2
  <2>4. queue' \subseteq File /\ staged' \subseteq File /\ private' \subseteq File
    BY <1>2, <2>1, <2>2
  <2>5. ASSUME init = "files", ~failed'
        PROVE  /\ found = staged' \cup queue' \cup Flying'
               /\ (\E v \in Lanes : Idle(v)') => queue' = {}
    <3>1. /\ found = staged \cup queue \cup Flying /\ Takes = queue
          /\ (\E v \in Lanes : Idle(v)) => queue = {}
      BY <1>1, <2>1, <2>5 DEF FilesInv, Takes
    <3>2. \A v \in Lanes \ {w} : Idle(v)' <=> Idle(v)
      BY <2>3 DEF Idle
    <3>3. Idle(w)' <=> next = <<>>
      BY <2>3 DEF Idle
    <3>4. (\E v \in Lanes : Idle(v)') => queue' = {}
      BY <2>2, <3>1, <3>2, <3>3
    <3> DEFINE others == {lane[v][1] : v \in {u \in Lanes \ {w} : ~Idle(u)}}
    <3>5. Flying = others \cup {lane[w][1]}
      BY <1>1 DEF Flying
    <3>6. Flying' = others \cup (IF next = <<>> THEN {} ELSE {next[1]})
      BY <2>3, <3>2, <3>3 DEF Flying
    <3> HIDE DEF others
    <3>7. found = staged' \cup queue' \cup Flying'
      BY <2>1, <2>2, <3>1, <3>5, <3>6
    <3> QED BY <3>4, <3>7
  <2> QED BY <1>1, <1>2, <2>1, <2>3, <2>4, <2>5, LaneInv
<1>5. CASE Fail(w)
  <2>1. /\ UNCHANGED <<state, init, result, place, queue, staged, index, sources, watcher, found>>
        /\ lane' = [lane EXCEPT ![w] = <<>>] /\ private' = private \ {lane[w][1]} /\ failed' = TRUE
    BY <1>5 DEF Fail
  <2>2. lane' \in [Lanes -> {<<>>} \cup (File \X Phases)]
    BY <1>2, <2>1
  <2> QED BY <1>1, <1>2, <2>1, <2>2, LaneInv
<1> QED BY <1>3, <1>4, <1>5 DEF Step

-----------------------------------------------------------------------------
(* Theorems. *)

LEMMA InitInv == ASSUME Init PROVE LifecycleInv
<1>1. Len(Order) \in Nat /\ Len(Order) >= 1
  BY OrderAssumption
<1>2. TypeOK
  <2>1. place \in 1..(Len(Order) + 1)
    BY <1>1 DEF Init
  <2>2. lane \in [Lanes -> {<<>>} \cup (File \X Phases)]
    BY DEF Init
  <2> QED BY <2>1, <2>2 DEF Init, TypeOK
<1>3. FilesInv /\ StateInv /\ AllOrNothing /\ RejectedHoldsNothing
  BY <1>1 DEF Init, FilesInv, StateInv, AllOrNothing, RejectedHoldsNothing, Idle
<1> QED BY <1>2, <1>3 DEF LifecycleInv

LEMMA NextInv == ASSUME LifecycleInv, [Next]_vars PROVE LifecycleInv'
<1>1. CASE Close
  BY <1>1, ShutInv DEF Close
<1>2. CASE Reject \/ OriginFails
  BY <1>2, ShutInv DEF Reject, OriginFails, GiveUp
<1>3. CASE UNCHANGED vars
  <2>1. UNCHANGED <<state, init, result, place, queue, lane, failed, staged, private, index,
                    sources, watcher, found>>
    BY <1>3 DEF vars
  <2>2. TypeOK'
    BY <2>1 DEF LifecycleInv, TypeOK
  <2>3. FilesInv' /\ StateInv' /\ AllOrNothing' /\ RejectedHoldsNothing'
    BY <2>1 DEF LifecycleInv, FilesInv, StateInv, AllOrNothing, RejectedHoldsNothing, Flying, Idle
  <2> QED BY <2>2, <2>3 DEF LifecycleInv
<1> QED BY <1>1, <1>2, <1>3, InitializeInv, OriginInv, StepInv, PublishedInv DEF Next

LEMMA LifecycleInductive == Spec => []LifecycleInv
BY InitInv, NextInv, PTL DEF Spec

\* The kernel's state and the lanes' keep their types.
THEOREM LifecycleTyped == Spec => []TypeOK
<1>1. LifecycleInv => TypeOK
  BY DEF LifecycleInv
<1> QED BY <1>1, LifecycleInductive, PTL

\* initialize() publishes all its origins returned, or nothing.
THEOREM PublishesAllOrNothing == Spec => []AllOrNothing
<1>1. LifecycleInv => AllOrNothing
  BY DEF LifecycleInv
<1> QED BY <1>1, LifecycleInductive, PTL

\* Once initialize() has rejected nothing is held, whatever its lanes still do.
THEOREM RejectionHoldsNothing == Spec => []RejectedHoldsNothing
<1>1. LifecycleInv => RejectedHoldsNothing
  BY DEF LifecycleInv
<1> QED BY <1>1, LifecycleInductive, PTL

\* A step from a closed kernel to a closed kernel.
LEMMA ClosedStep ==
  ASSUME LifecycleInv, [Next]_vars, state = "closed", state' = "closed"
  PROVE  private' \subseteq private /\ staged' = staged /\ index' = index
<1>1. index = {}
  BY DEF LifecycleInv, StateInv
<1>2. CASE Initialize
  BY <1>2 DEF Initialize
<1>3. CASE \E names \in SUBSET Files : Origin(names)
  BY <1>3 DEF Origin, GoOn
<1>4. CASE OriginFails \/ Reject \/ Close
  BY <1>1, <1>4 DEF OriginFails, Reject, Close, GiveUp, Shut
<1>5. CASE \E w \in Lanes : Step(w)
  BY <1>5 DEF Step, Input, Store, Build, Fail, Alive
<1>6. CASE Published
  BY <1>6 DEF Published, publication, GoOn
<1>7. CASE UNCHANGED vars
  BY <1>7 DEF vars
<1> QED BY <1>2, <1>3, <1>4, <1>5, <1>6, <1>7 DEF Next

\* While the kernel is closed its lanes allocate, stage and publish nothing.
THEOREM NothingAfterClose == Spec => ClosedPublishesNothing
<1>1. LifecycleInv /\ [Next]_vars
        => [state = "closed" /\ state' = "closed" =>
              private' \subseteq private /\ staged' = staged /\ index' = index]_vars
  BY ClosedStep
<1> QED BY <1>1, LifecycleInductive, PTL DEF Spec, ClosedPublishesNothing
=============================================================================
