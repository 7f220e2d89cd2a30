--------------------------- MODULE PublishedFiles ---------------------------
(***************************************************************************)
(* What the publication of files promises its readers: the publisher       *)
(* replaces the whole map of files by the next one; a reader starts from   *)
(* the map of the moment it joins and then sees every later map, each as a *)
(* whole, in the order they were published.  There is no memory here to    *)
(* share, reuse or compact; the kernel's update protocol is shown to       *)
(* implement this.                                                         *)
(***************************************************************************)
EXTENDS Sequences

CONSTANTS Keys, Values, Readers,
          Empty       \* the map of a reader, or a publisher, that is no more

VARIABLES
  latest,   \* the files as published last
  told,     \* readers that learn of every further publication
  view,     \* reader -> the files it sees
  ahead     \* reader -> publications it has yet to see

vars == <<latest, told, view, ahead>>

Init ==
  /\ latest = Empty
  /\ told = {}
  /\ view = [r \in Readers |-> Empty]
  /\ ahead = [r \in Readers |-> <<>>]

Publish(new) ==
  /\ latest' = new
  /\ ahead' = [r \in Readers |->
                 IF r \in told THEN Append(ahead[r], new) ELSE ahead[r]]
  /\ UNCHANGED <<told, view>>

Join(r) ==
  /\ r \notin told
  /\ told' = told \cup {r}
  /\ view' = [view EXCEPT ![r] = latest]
  /\ ahead' = [ahead EXCEPT ![r] = <<>>]
  /\ UNCHANGED latest

Advance(r) ==
  /\ ahead[r] # <<>>
  /\ view' = [view EXCEPT ![r] = Head(ahead[r])]
  /\ ahead' = [ahead EXCEPT ![r] = Tail(@)]
  /\ UNCHANGED <<latest, told>>

Leave(r) ==
  /\ told' = told \ {r}
  /\ view' = [view EXCEPT ![r] = Empty]
  /\ ahead' = [ahead EXCEPT ![r] = <<>>]
  /\ UNCHANGED latest

\* The publisher stops; readers go on with what was published.
Stop ==
  /\ latest' = Empty
  /\ told' = {}
  /\ UNCHANGED <<view, ahead>>

Next ==
  \/ \E new \in [Keys -> Values] : Publish(new)
  \/ \E r \in Readers : Join(r) \/ Advance(r) \/ Leave(r)
  \/ Stop

Spec == Init /\ [][Next]_vars
=============================================================================
