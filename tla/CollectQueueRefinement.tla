----------------------- MODULE CollectQueueRefinement -----------------------
(***************************************************************************)
(* CollectQueue implements LeaseQueue: every step of the tables and the    *)
(* workers is, for each slice, a step the lease queue allows.              *)
(***************************************************************************)
EXTENDS CollectQueueProofs

USE QueueConstants

-----------------------------------------------------------------------------
(* The holder of a slice.                                                  *)

LEMMA HolderIs ==
  ASSUME QueueInv, NEW s \in Slices, NEW w \in Workers, Owns(w, s)
  PROVE  HolderOf(s) = w
<1>1. \A v \in Workers : Owns(v, s) => v = w
  BY DEF QueueInv, Tokens, Owns, HoldsLease
<1>. QED
  BY <1>1 DEF HolderOf

LEMMA HolderNone ==
  ASSUME NEW s \in Slices, \A w \in Workers : ~Owns(w, s)
  PROVE  HolderOf(s) = NoWorker
BY DEF HolderOf

LEMMA HolderSame ==
  ASSUME QueueInv, QueueInv', NEW s \in Slices,
         \A w \in Workers : Owns(w, s)' <=> Owns(w, s)
  PROVE  HolderOf(s)' = HolderOf(s)
<1>1. CASE \E w \in Workers : Owns(w, s)
  <2>1. PICK w \in Workers : Owns(w, s)
    BY <1>1
  <2>2. HolderOf(s) = w
    BY <2>1, HolderIs
  <2>3. HolderOf(s)' = w
    <3>1. \A v \in Workers : Owns(v, s)' => v = w
      BY <2>1 DEF QueueInv, Tokens, Owns, HoldsLease
    <3>. QED
      BY <2>1, <3>1 DEF HolderOf
  <2>. QED
    BY <2>2, <2>3
<1>2. CASE \A w \in Workers : ~Owns(w, s)
  BY <1>2 DEF HolderOf
<1>. QED
  BY <1>1, <1>2

-----------------------------------------------------------------------------
(* The kinds of steps of one slice.                                        *)

LEMMA StayStep ==
  ASSUME NEW s \in Slices, slice'[s] = slice[s], attempts'[s] = attempts[s],
         HolderOf(s)' = HolderOf(s)
  PROVE  Promise!JobStep(s)
<1>. QED
  BY DEF Promise!JobStep, Promise!Stay

\* A slice nobody holds moves to another status nobody holds.
LEMMA FreeStep ==
  ASSUME QueueInv, QueueInv', NEW s \in Slices, attempts'[s] = attempts[s],
         \/ slice[s] = "ABSENT" /\ slice'[s] = "PENDING"
         \/ slice[s] \in WaitingSlice /\ slice'[s] = "CANCELLED"
         \/ slice[s] = "FAILED" /\ slice'[s] = "PENDING"
  PROVE  Promise!JobStep(s)
<1>1. HolderOf(s)' = NoWorker
  BY DEF HolderOf, Owns, HoldsLease
<1>. QED
  BY <1>1 DEF WaitingSlice, JobStateOf, Promise!JobStep, Promise!Offer, Promise!Withdraw,
              Promise!Requeue, Promise!Moves, Promise!Dropped

\* The holder of a slice decides it.
LEMMA DecideStep ==
  ASSUME QueueInv, NEW s \in Slices, NEW w \in Workers, Owns(w, s),
         attempts'[s] = attempts[s], slice'[s] \in {"SUCCEEDED", "FAILED", "RETRY_WAIT"}
  PROVE  Promise!JobStep(s)
<1>1. HolderOf(s)' = NoWorker
  BY DEF HolderOf, Owns, HoldsLease
<1>2. HolderOf(s) # NoWorker
  BY HolderIs
<1>3. slice[s] = "RUNNING"
  BY DEF Owns, HoldsLease
<1>. QED
  BY <1>1, <1>2, <1>3 DEF WaitingSlice, JobStateOf, Promise!JobStep, Promise!Decide,
                          Promise!Moves, Promise!Dropped

\* The holder of a slice is gone.
LEMMA VanishStep ==
  ASSUME QueueInv, NEW s \in Slices, NEW w \in Workers, Owns(w, s),
         attempts'[s] = attempts[s], slice'[s] = slice[s], \A v \in Workers : ~Owns(v, s)'
  PROVE  Promise!JobStep(s)
<1>1. HolderOf(s)' = NoWorker
  BY DEF HolderOf
<1>2. HolderOf(s) # NoWorker
  BY HolderIs
<1>3. slice[s] = "RUNNING"
  BY DEF Owns, HoldsLease
<1>. QED
  BY <1>1, <1>2, <1>3 DEF WaitingSlice, JobStateOf, Promise!JobStep, Promise!Vanish,
                          Promise!Moves, Promise!Dropped

\* A slice is claimed, from the queue or from an expired lease.
LEMMA TakeStep ==
  ASSUME QueueInv', NEW s \in Slices, NEW w \in Workers, Owns(w, s)',
         attempts'[s] = attempts[s] + 1, slice'[s] = "RUNNING",
         slice[s] \in WaitingSlice \cup {"RUNNING"}
  PROVE  Promise!JobStep(s)
<1>1. HolderOf(s)' = w
  <2>1. \A v \in Workers : Owns(v, s)' => v = w
    BY DEF QueueInv, Tokens, Owns, HoldsLease
  <2>. QED
    BY <2>1 DEF HolderOf
<1>. QED
  BY <1>1 DEF WaitingSlice, JobStateOf, Promise!JobStep, Promise!Take, Promise!TakeOver,
              Promise!Moves, Promise!Claimed

\* An expired lease is recovered.
LEMMA TakeAwayStep ==
  ASSUME NEW s \in Slices, attempts'[s] = attempts[s],
         slice[s] = "RUNNING", slice'[s] = "RETRY_WAIT"
  PROVE  Promise!JobStep(s)
<1>1. HolderOf(s)' = NoWorker
  BY DEF HolderOf, Owns, HoldsLease
<1>. QED
  BY <1>1 DEF WaitingSlice, JobStateOf, Promise!JobStep, Promise!TakeAway,
              Promise!Moves, Promise!Dropped

-----------------------------------------------------------------------------
(* The steps of the queue.                                                 *)

\* The row of s is as it was, and w keeps its claim or forgets it.
LEMMA SameRowStep ==
  ASSUME QueueInv, QueueInv', NEW w \in Workers, NEW s \in Slices,
         slice'[s] = slice[s], lease'[s] = lease[s], attempts'[s] = attempts[s],
         \A v \in Workers \ {w} : wk'[v] = wk[v],
         wk[w].pc # "idle",
         \/ wk'[w].pc = "idle"
         \/ wk'[w].pc # "idle" /\ wk'[w].slice = wk[w].slice /\ wk'[w].tok = wk[w].tok
  PROVE  Promise!JobStep(s)
<1>1. \A v \in Workers \ {w} : Owns(v, s)' <=> Owns(v, s)
  BY DEF Owns, HoldsLease
<1>2. CASE wk'[w].pc = "idle" /\ Owns(w, s)
  <2>1. \A v \in Workers : ~Owns(v, s)'
    BY <1>1, <1>2 DEF QueueInv, Tokens, Owns, HoldsLease
  <2>. QED
    BY <1>2, <2>1, VanishStep
<1>3. CASE ~(wk'[w].pc = "idle" /\ Owns(w, s))
  <2>1. Owns(w, s)' <=> Owns(w, s)
    BY <1>3 DEF Owns, HoldsLease
  <2>. QED
    BY <1>1, <2>1, HolderSame, StayStep
<1>. QED
  BY <1>2, <1>3

LEMMA PollPromise ==
  ASSUME QueueInv, QueueInv', NEW w \in Workers, Poll(w), NEW s \in Slices
  PROVE  Promise!JobStep(s)
<1>1. TypeOK
  BY DEF QueueInv
<1>2. PICK C \in SUBSET Slices :
        /\ \A u \in C : /\ slice'[u] = "RUNNING" /\ slice[u] \in WaitingSlice \cup {"RUNNING"}
                        /\ slice[u] = "RUNNING" => u \in Recoverable
                        /\ lease'[u] = attempts[u] + 1 /\ attempts'[u] = attempts[u] + 1
                        /\ SliceRowFree(u) /\ BindingRowFree(BindingOf[TaskOf[u]])
                        /\ task'[TaskOf[u]] \in ClaimableTask
        /\ \A u \in Recoverable \ C : slice'[u] = "RETRY_WAIT"
        /\ \A u \in Slices \ (Recoverable \cup C) : slice'[u] = slice[u] /\ lease'[u] = lease[u]
        /\ \A u \in Slices \ C : attempts'[u] = attempts[u]
        /\ \A v \in Workers \ {w} : wk'[v] = wk[v]
        /\ \/ C = {} /\ wk' = wk
           \/ \E c \in Slices : /\ C = {c}
                               /\ wk'[w].pc = "claimed" /\ wk'[w].slice = c
                               /\ wk'[w].tok = attempts[c] + 1
  BY <1>1, PollEffect
<1>3. CASE s \in C
  <2>1. Owns(w, s)'
    BY <1>2, <1>3 DEF Owns, HoldsLease
  <2>. QED
    BY <1>2, <1>3, <2>1, TakeStep
<1>4. CASE s \in Recoverable \ C
  BY <1>2, <1>4, TakeAwayStep DEF Recoverable
<1>5. CASE s \notin Recoverable \cup C
  <2>1. \A v \in Workers : Owns(v, s)' <=> Owns(v, s)
    BY <1>2, <1>5 DEF Owns, HoldsLease, Poll
  <2>. QED
    BY <1>2, <1>5, <2>1, HolderSame, StayStep
<1>. QED
  BY <1>3, <1>4, <1>5

LEMMA MemoryPromise ==
  ASSUME QueueInv, QueueInv', NEW w \in Workers, NEW s \in Slices,
         \/ Load(w) \/ NumberRun(w) \/ OpenAttempt(w) \/ Raise(w) \/ Crash(w)
         \/ \E more \in BOOLEAN : CountSlices(w, more)
  PROVE  Promise!JobStep(s)
<1>1. /\ UNCHANGED rows /\ wk[w].pc # "idle"
      /\ \A v \in Workers \ {w} : wk'[v] = wk[v]
      /\ wk'[w] = Idle \/ (wk'[w].slice = wk[w].slice /\ wk'[w].tok = wk[w].tok)
  BY MemoryEffect DEF QueueInv
<1>2. \/ wk'[w].pc = "idle"
      \/ wk'[w].pc # "idle" /\ wk'[w].slice = wk[w].slice /\ wk'[w].tok = wk[w].tok
  BY <1>1 DEF Idle
<1>. QED
  BY <1>1, <1>2, SameRowStep DEF rows

LEMMA CommitPromise ==
  ASSUME QueueInv, QueueInv', NEW w \in Workers, CommitPage(w), NEW s \in Slices
  PROVE  Promise!JobStep(s)
<1>1. /\ wk[w].pc = "counted" /\ wk' = [wk EXCEPT ![w] = Idle]
      /\ slice' = SliceAfterPage(w, wk[w].more)
      /\ UNCHANGED <<lease, attempts>>
  BY DEF CommitPage
<1>2. wk'[w].pc = "idle" /\ \A v \in Workers \ {w} : wk'[v] = wk[v]
  BY <1>1 DEF QueueInv, TypeOK, Idle
<1>3. CASE s = wk[w].slice /\ HoldsLease(w)
  <2>1. slice'[s] = "SUCCEEDED" /\ Owns(w, s)
    BY <1>1, <1>3 DEF SliceAfterPage, Owns
  <2>. QED
    BY <1>1, <2>1, DecideStep
<1>4. CASE slice'[s] = slice[s]
  BY <1>1, <1>2, <1>4, SameRowStep
<1>5. CASE slice[s] = "ABSENT" /\ slice'[s] = "PENDING"
  BY <1>1, <1>5, FreeStep
<1>. QED
  BY <1>1, <1>3, <1>4, <1>5 DEF SliceAfterPage

LEMMA FailurePromise ==
  ASSUME QueueInv, QueueInv', NEW w \in Workers, NEW s \in Slices,
         \/ FailRetryable(w) \/ FailClaim(w)
         \/ \E blocks \in BOOLEAN : FailFinal(w, blocks)
  PROVE  Promise!JobStep(s)
<1>1. /\ attempts' = attempts
      /\ wk[w].pc # "idle" /\ wk' = [wk EXCEPT ![w] = Idle]
      /\ \/ UNCHANGED <<slice, lease>>
         \/ /\ HoldsLease(w)
            /\ slice'[wk[w].slice] \in {"RETRY_WAIT", "FAILED"}
            /\ \A u \in Slices \ {wk[w].slice} : slice'[u] = slice[u] /\ lease'[u] = lease[u]
  BY FailureEffect DEF QueueInv
<1>2. wk'[w].pc = "idle" /\ \A v \in Workers \ {w} : wk'[v] = wk[v]
  BY <1>1 DEF QueueInv, TypeOK, Idle
<1>3. CASE slice'[s] = slice[s] /\ lease'[s] = lease[s]
  BY <1>1, <1>2, <1>3, SameRowStep
<1>4. CASE s = wk[w].slice /\ HoldsLease(w) /\ slice'[s] \in {"RETRY_WAIT", "FAILED"}
  <2>1. Owns(w, s)
    BY <1>1, <1>4 DEF Owns
  <2>. QED
    BY <1>1, <1>4, <2>1, DecideStep
<1>. QED
  BY <1>1, <1>3, <1>4

LEMMA OperatorPromise ==
  ASSUME QueueInv, QueueInv', NEW o \in Operators, OperatorStep(o), NEW s \in Slices
  PROVE  Promise!JobStep(s)
<1>1. UNCHANGED <<lease, attempts, wk>>
  BY DEF OperatorStep, OpRead, OpWriteSlices, OpCommit, rows
<1>2. slice' = slice \/ slice' = SliceAfterRequest(o)
  BY DEF OperatorStep, OpRead, OpWriteSlices, OpCommit, rows
<1>3. CASE slice'[s] = slice[s]
  <2>1. \A v \in Workers : Owns(v, s)' <=> Owns(v, s)
    BY <1>1, <1>3 DEF Owns, HoldsLease
  <2>. QED
    BY <1>1, <1>3, <2>1, HolderSame, StayStep
<1>4. CASE s \in op[o].slices /\ slice' = SliceAfterRequest(o)
  <2>1. \/ slice[s] \in WaitingSlice /\ slice'[s] = "CANCELLED"
        \/ slice[s] = "FAILED" /\ slice'[s] = "PENDING"
    BY <1>4 DEF QueueInv, LockedRows, SliceAfterRequest
  <2>. QED
    BY <1>1, <2>1, FreeStep
<1>. QED
  BY <1>2, <1>3, <1>4 DEF SliceAfterRequest

LEMMA QuietPromise ==
  ASSUME QueueInv, QueueInv', UNCHANGED <<slice, lease, attempts, wk>>, NEW s \in Slices
  PROVE  Promise!JobStep(s)
<1>1. \A v \in Workers : Owns(v, s)' <=> Owns(v, s)
  BY DEF Owns, HoldsLease
<1>. QED
  BY <1>1, HolderSame, StayStep

LEMMA PromiseInit == Init => Promise!Init
<1>. SUFFICES ASSUME Init PROVE Promise!Init
  OBVIOUS
<1>1. ASSUME NEW s \in Slices PROVE HolderOf(s) = NoWorker
  BY HolderNone DEF Init, Idle, Owns
<1>2. ASSUME NEW s \in Slices PROVE JobStateOf(slice[s]) \in {"absent", "available"}
  BY DEF Init, JobStateOf, WaitingSlice
<1>. QED
  BY <1>1, <1>2 DEF Init, Promise!Init

LEMMA PromiseStep == QueueInv /\ QueueInv' /\ [Next]_vars => Promise!Next
<1>. SUFFICES ASSUME QueueInv, QueueInv', [Next]_vars, NEW s \in Slices
              PROVE  Promise!JobStep(s)
  BY DEF Promise!Next
<1>1. ASSUME NEW w \in Workers, WorkerStep(w) \/ Crash(w) PROVE Promise!JobStep(s)
  BY <1>1, PollPromise, MemoryPromise, CommitPromise, FailurePromise DEF WorkerStep, Outcome
<1>2. ASSUME NEW o \in Operators, OperatorStep(o) PROVE Promise!JobStep(s)
  BY <1>2, OperatorPromise
<1>3. CASE \/ \E u \in Slices : LeaseExpires(u) \/ RetryDue(u)
           \/ \E b \in Bindings, answer \in ProbeAnswers : ProbeBinding(b, answer)
           \/ UNCHANGED vars
  <2>1. UNCHANGED <<slice, lease, attempts, wk>>
    BY <1>3 DEF LeaseExpires, RetryDue, ProbeBinding, vars, rows
  <2>. QED
    BY <2>1, QuietPromise
<1>. QED
  BY <1>1, <1>2, <1>3 DEF Next

\* The tables and the workers implement the lease queue: whatever tasks,
\* operators, crashes and expiring leases do, each slice only takes the steps
\* LeaseQueue allows.
THEOREM QueueKeepsPromise == Spec => ImplementsPromise
<1>1. QueueInv /\ QueueInv' /\ [Next]_vars => [Promise!Next]_(Promise!vars)
  BY PromiseStep
<1>. QED
  BY <1>1, PromiseInit, QueueInvariant, PTL DEF Spec, ImplementsPromise, Promise!Spec
=============================================================================
