----------------------------- MODULE KeyedOrder -----------------------------
(***************************************************************************)
(* What the ordering of virtual mutations promises: a mutation runs as     *)
(* soon as, and not before, every mutation accepted earlier that touches   *)
(* one of its keys has settled; a subtree operation touches every key of   *)
(* its place.  Once the kernel is closed, what has not started is refused, *)
(* in any order.  There are no locks here.                                 *)
(***************************************************************************)
CONSTANTS Tasks, Places,
          Touches,     \* the requests: sets of keys, or the whole place
          Conflicts(_, _)

VARIABLES
  open,      \* the kernel takes mutations
  state,     \* task -> "new", "queued", "running", "settled"
  request,   \* task -> the place and the keys it touches
  ahead      \* task -> tasks it has to wait for

vars == <<open, state, request, ahead>>

Init ==
  /\ open = TRUE
  /\ state = [t \in Tasks |-> "new"]
  /\ request \in [Tasks -> Places \X Touches]
  /\ ahead = [t \in Tasks |-> {}]

Accept(t) ==
  /\ state[t] = "new"
  /\ state' = [state EXCEPT ![t] = "queued"]
  /\ ahead' = [ahead EXCEPT ![t] =
       {u \in Tasks : state[u] # "new" /\ Conflicts(request[u], request[t])}]
  /\ UNCHANGED <<open, request>>

\* Nothing t has to wait for is left.
ItsTurn(t) == \A u \in ahead[t] : state[u] = "settled"

Start(t) ==
  /\ open
  /\ state[t] = "queued"
  /\ ItsTurn(t)
  /\ state' = [state EXCEPT ![t] = "running"]
  /\ UNCHANGED <<open, request, ahead>>

Refuse(t) ==
  /\ ~open
  /\ state[t] = "queued"
  /\ state' = [state EXCEPT ![t] = "settled"]
  /\ UNCHANGED <<open, request, ahead>>

Settle(t) ==
  /\ state[t] = "running"
  /\ state' = [state EXCEPT ![t] = "settled"]
  /\ UNCHANGED <<open, request, ahead>>

Close ==
  /\ open
  /\ open' = FALSE
  /\ UNCHANGED <<state, request, ahead>>

Next ==
  \/ \E t \in Tasks : Accept(t) \/ Start(t) \/ Refuse(t) \/ Settle(t)
  \/ Close

Spec == Init /\ [][Next]_vars

\* A mutation may take for ever; one whose turn it is starts, or is refused.
FairSpec ==
  Spec /\ \A t \in Tasks : WF_vars(Start(t)) /\ WF_vars(ItsTurn(t) /\ Refuse(t))
=============================================================================
