----------------------------- MODULE CallBudget -----------------------------
(***************************************************************************)
(* What a rate limiter promises to its callers: a call under a limit of n  *)
(* comes at least a Period after the n-th last one of the same process and *)
(* key, and a process that starts again starts with nothing used.          *)
(***************************************************************************)
EXTENDS Integers, Sequences

CONSTANTS
  Callers, \* a process and a key
  Limits,  \* what a call may be limited to: positive numbers
  Period   \* a positive number

VARIABLES
  now,
  log  \* the calls of a caller since its process started: [at, limit]

Init == now = 0 /\ log = [c \in Callers |-> <<>>]

\* Room for a call under a limit: the limit-th last call is a Period away.
Room(calls, limit) ==
  Len(calls) >= limit => now - calls[Len(calls) - limit + 1].at >= Period

Call(c, limit) ==
  /\ Room(log[c], limit)
  /\ log' = [log EXCEPT ![c] = Append(@, [at |-> now, limit |-> limit])]
  /\ UNCHANGED now

Restart(cs) ==
  /\ log' = [c \in Callers |-> IF c \in cs THEN <<>> ELSE log[c]]
  /\ UNCHANGED now

Tick == now' = now + 1 /\ UNCHANGED log

Next ==
  \/ \E c \in Callers : \E limit \in Limits : Call(c, limit)
  \/ \E cs \in SUBSET Callers : Restart(cs)
  \/ Tick

Spec == Init /\ [][Next]_<<now, log>>
=============================================================================
