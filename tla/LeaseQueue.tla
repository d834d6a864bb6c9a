----------------------------- MODULE LeaseQueue -----------------------------
(***************************************************************************)
(* What the slice queue promises, without tasks, runs, tokens or time: a   *)
(* job is offered, taken by one client at a time, and finished, failed or  *)
(* released by the client that holds it and by nobody else.  A holder may  *)
(* vanish, and a job may be taken away from it at any moment (its lease    *)
(* ran out); a client that lost a job never gets to finish it under the    *)
(* old claim.  A finished or withdrawn job is over.                        *)
(***************************************************************************)
EXTENDS Naturals

CONSTANTS Jobs, Clients, Nobody

VARIABLES
  state,    \* what the queue says of a job
  holder,   \* the client that may still decide the job
  claims    \* how often the job was taken

vars == <<state, holder, claims>>

Init ==
  /\ state \in [Jobs -> {"absent", "available"}]
  /\ holder = [j \in Jobs |-> Nobody]
  /\ claims = [j \in Jobs |-> 0]

Moves(j, from, to) == state[j] = from /\ state'[j] = to
Claimed(j) == holder'[j] \in Clients /\ claims'[j] = claims[j] + 1
Dropped(j) == holder'[j] = Nobody /\ claims'[j] = claims[j]

Stay(j)     == state'[j] = state[j] /\ holder'[j] = holder[j] /\ claims'[j] = claims[j]
Offer(j)    == Moves(j, "absent", "available") /\ Dropped(j)
Take(j)     == Moves(j, "available", "leased") /\ Claimed(j)
Decide(j)   == /\ holder[j] # Nobody
               /\ \E to \in {"done", "failed", "available"} : Moves(j, "leased", to)
               /\ Dropped(j)
Vanish(j)   == Moves(j, "leased", "leased") /\ holder[j] # Nobody /\ Dropped(j)
TakeAway(j) == Moves(j, "leased", "available") /\ Dropped(j)
TakeOver(j) == Moves(j, "leased", "leased") /\ Claimed(j)
Withdraw(j) == Moves(j, "available", "withdrawn") /\ Dropped(j)
Requeue(j)  == Moves(j, "failed", "available") /\ Dropped(j)

\* One transaction may move several jobs, each by a step of its own.
JobStep(j) ==
  \/ Stay(j) \/ Offer(j) \/ Take(j) \/ Decide(j) \/ Vanish(j)
  \/ TakeAway(j) \/ TakeOver(j) \/ Withdraw(j) \/ Requeue(j)

Next == \A j \in Jobs : JobStep(j)

Spec == Init /\ [][Next]_vars
=============================================================================
