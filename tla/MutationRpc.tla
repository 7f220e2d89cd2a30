----------------------------- MODULE MutationRpc -----------------------------
(***************************************************************************)
(* Workers mutate a shared virtual place over their link:                  *)
(* lib/mutation-rpc.js, #serveMutation, #mutate and the update part of     *)
(* #flush in lib/kernel.js.                                                *)
(*                                                                         *)
(* A call is a task of VirtualStore once the main kernel has accepted it.  *)
(* A link is a MessagePort: each direction is reliable and in order, and   *)
(* updates and answers share one.  A call of the main thread itself has no *)
(* message.  What a worker projects is known by the number of updates it   *)
(* applied.                                                                *)
(***************************************************************************)
EXTENDS VirtualStore, Integers

CONSTANTS
  Workers,   \* linked worker threads
  Main,      \* the main thread
  Invalid    \* requests #mutate refuses: no such place, not writable

Answer == [task : Tasks, ok : BOOLEAN]

ASSUME WorkersAssumption ==
  /\ Main \notin Workers /\ None \notin Workers \cup {Main}
  /\ Invalid \subseteq Requests /\ None \notin Answer
  /\ IsFiniteSet(Tasks) /\ Tasks = 1..Cardinality(Tasks)   \* in the order of the calls

VARIABLES
  caller,    \* task -> the thread that calls, None before
  promise,   \* task -> "none", "pending", "resolved", "rejected"
  up,        \* worker -> calls on their way to the main thread: [task, req]
  down,      \* worker -> what the main thread posted: "update" or an answer
  links,     \* workers the main kernel is linked to
  shut,      \* workers whose client has closed (#closed)
  replied,   \* tasks the main kernel has answered
  updates,   \* number of updates posted
  applied,   \* worker -> number of updates applied
  commit     \* history: task -> its update, 0 for none

rpcVars == <<caller, promise, up, down, links, shut, replied, updates, applied, commit>>
allVars == <<vars, rpcVars>>

RpcTypeOK ==
  /\ TypeOK
  /\ caller \in [Tasks -> Workers \cup {Main, None}]
  /\ promise \in [Tasks -> {"none", "pending", "resolved", "rejected"}]
  /\ up \in [Workers -> Seq([task : Tasks, req : Requests])]
  /\ down \in [Workers -> Seq(Answer \cup {None})]
  /\ links \subseteq Workers /\ shut \subseteq Workers
  /\ replied \subseteq Tasks
  /\ updates \in Nat
  /\ applied \in [Workers -> Nat]
  /\ commit \in [Tasks -> Nat]

RpcInit ==
  /\ Init
  /\ caller = [t \in Tasks |-> None]
  /\ promise = [t \in Tasks |-> "none"]
  /\ up = [w \in Workers |-> <<>>]
  /\ down = [w \in Workers |-> <<>>]
  /\ links = Workers
  /\ shut = {}
  /\ replied = {}
  /\ updates = 0
  /\ applied = [w \in Workers |-> 0]
  /\ commit = [t \in Tasks |-> 0]

-----------------------------------------------------------------------------
(* Calls. *)

Calls(t, who) ==
  /\ caller[t] = None
  /\ \A u \in Tasks : u < t => caller[u] # None
  /\ caller' = [caller EXCEPT ![t] = who]

\* MutationClient.send: refused at once on a closed link.
Send(w, t, r) ==
  /\ Calls(t, w)
  /\ IF w \in shut
     THEN promise' = [promise EXCEPT ![t] = "rejected"] /\ UNCHANGED up
     ELSE /\ promise' = [promise EXCEPT ![t] = "pending"]
          /\ up' = [up EXCEPT ![w] = Append(@, [task |-> t, req |-> r])]
  /\ UNCHANGED <<vars, down, links, shut, replied, updates, applied, commit>>

CallMain(t, r) ==
  /\ r \notin Invalid
  /\ Calls(t, Main)
  /\ Accept(t, r)
  /\ promise' = [promise EXCEPT ![t] = "pending"]
  /\ UNCHANGED <<up, down, links, shut, replied, updates, applied, commit>>

\* An answer is dropped when the link is gone.
Answered(t, ok) ==
  /\ replied' = replied \cup {t}
  /\ IF caller[t] = Main
     THEN /\ promise' = [promise EXCEPT ![t] = IF ok THEN "resolved" ELSE "rejected"]
          /\ UNCHANGED down
     ELSE /\ down' = IF caller[t] \in links
                     THEN [down EXCEPT ![caller[t]] = Append(@, [task |-> t, ok |-> ok])]
                     ELSE down
          /\ UNCHANGED promise

\* A request arrives: the store accepts it, or it is answered at once.
Serve(w) ==
  /\ w \in links /\ up[w] # <<>>
  /\ LET call == Head(up[w])
     IN  /\ up' = [up EXCEPT ![w] = Tail(@)]
         /\ IF call.req \in Invalid
            THEN Answered(call.task, FALSE) /\ UNCHANGED vars
            ELSE Accept(call.task, call.req) /\ UNCHANGED <<replied, down, promise>>
  /\ UNCHANGED <<caller, links, shut, updates, applied, commit>>

\* The promise of a mutation has settled: its reactions run.
BrokenReply(t) ==
  /\ state[t] \in {"staged", "done", "failed"} /\ t \notin replied
  /\ Answered(t, state[t] # "failed")
  /\ UNCHANGED <<vars, caller, up, links, shut, updates, applied, commit>>
Reply(t) ==
  /\ state[t] \in {"done", "failed"} /\ t \notin replied
  /\ Answered(t, state[t] = "done")
  /\ UNCHANGED <<vars, caller, up, links, shut, updates, applied, commit>>

-----------------------------------------------------------------------------
(* The main kernel at work. *)

\* A commit that publishes or removes something is one update, posted to every link.
Posted(t) ==
  IF ready /\ (files' # files \/ state[t] = "staged")
  THEN /\ updates' = updates + 1
       /\ commit' = [commit EXCEPT ![t] = updates + 1]
       /\ down' = [w \in Workers |-> IF w \in links THEN Append(down[w], None) ELSE down[w]]
  ELSE UNCHANGED <<updates, commit, down>>

Work(t) ==
  /\ Turn(t)
  /\ Posted(t)
  /\ UNCHANGED <<caller, promise, up, links, shut, replied, applied>>

\* The kernel closes: the ports of its links are closed.
CloseKernel ==
  /\ Close
  /\ links' = {}
  /\ UNCHANGED <<caller, promise, up, down, shut, replied, updates, applied, commit>>

\* The port of a worker that is gone closes, after what it had posted, or not all.
LinkCloses(w) ==
  /\ w \in links /\ w \in shut
  /\ links' = links \ {w}
  /\ UNCHANGED <<vars, caller, promise, up, down, shut, replied, updates, applied, commit>>

-----------------------------------------------------------------------------
(* A worker. *)

\* MutationClient.handle: an answer to a call that is settled is ignored.
BrokenHandled(msg) ==
  [promise EXCEPT ![msg.task] = IF msg.ok THEN "resolved" ELSE "rejected"]
Handled(msg) ==
  IF promise[msg.task] # "pending" THEN promise
  ELSE [promise EXCEPT ![msg.task] = IF msg.ok THEN "resolved" ELSE "rejected"]

\* A closed port may still deliver what it had received.
Deliver(w) ==
  /\ down[w] # <<>>
  /\ down' = [down EXCEPT ![w] = Tail(@)]
  /\ LET msg == Head(down[w])
     IN  IF msg = None
         THEN applied' = [applied EXCEPT ![w] = @ + 1] /\ UNCHANGED promise
         ELSE promise' = Handled(msg) /\ UNCHANGED applied
  /\ UNCHANGED <<vars, caller, up, links, shut, replied, updates, commit>>

\* MutationClient.close: the worker closes its kernel or exits, or learns that the
\* main kernel has closed, whatever was still on its way.
BrokenAbandoned(w) == promise
Abandoned(w) ==
  [t \in Tasks |-> IF caller[t] = w /\ promise[t] = "pending" THEN "rejected" ELSE promise[t]]

CloseClient(w) ==
  /\ w \notin shut
  /\ shut' = shut \cup {w}
  /\ promise' = Abandoned(w)
  /\ UNCHANGED <<vars, caller, up, down, links, replied, updates, applied, commit>>

RpcNext ==
  \/ \E t \in Tasks, r \in Requests : CallMain(t, r) \/ \E w \in Workers : Send(w, t, r)
  \/ \E t \in Tasks : Reply(t) \/ Work(t)
  \/ \E w \in Workers : Serve(w) \/ LinkCloses(w) \/ Deliver(w) \/ CloseClient(w)
  \/ CloseKernel

RpcSpec == RpcInit /\ [][RpcNext]_allVars

\* The main thread goes on while there is a publication to take further, a promise
\* reaction to run or a request to serve, whichever it takes; ports deliver; and a
\* port closed on one side closes on the other.
MainRuns == (\E t \in Tasks : Work(t) \/ Reply(t)) \/ \E w \in Workers : Serve(w)
RpcFairness ==
  /\ WF_allVars(MainRuns)
  /\ \A w \in Workers :
       WF_allVars(Deliver(w)) /\ WF_allVars(w \notin links /\ CloseClient(w))
RpcFairSpec == RpcSpec /\ RpcFairness

-----------------------------------------------------------------------------
(* Properties. *)

\* Whoever sees its mutation resolved finds it done and reads it: the update that
\* publishes it was applied in the worker before the answer settled the promise,
\* although other mutations commit and other answers are posted in between.
ReadsItsWrites ==
  \A t \in Tasks : promise[t] = "resolved" =>
    /\ state[t] = "done"
    /\ caller[t] \in Workers => applied[caller[t]] >= commit[t]

\* Calls of one thread that touch the same key run in the order of the calls.
OnItsWay(t) == \E w \in Workers : \E i \in DOMAIN up[w] : up[w][i].task = t
SessionOrder ==
  \A t, u \in Tasks :
    /\ t < u /\ caller[t] = caller[u]
    /\ Pending(t) \/ OnItsWay(t)
    => ~(Running(u) /\ (OnItsWay(t) \/ Conflict(locks[t], locks[u])))

\* What the end of a link rejected may have happened or not, but an answer that
\* still comes settles nothing again.
SettlesOnce ==
  [][\A t \in Tasks :
       promise[t] \in {"resolved", "rejected"} => promise'[t] = promise[t]]_allVars

\* Every call settles, also when the worker or the main kernel closes with calls,
\* publications or answers under way: there are finitely many, and again and again
\* none is pending.
EveryCallSettles == []<>(\A t \in Tasks : promise[t] # "pending")
=============================================================================
