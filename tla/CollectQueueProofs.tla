------------------------- MODULE CollectQueueProofs -------------------------
(***************************************************************************)
(* Theorems about CollectQueue, for all workers, tasks, slices and bounds. *)
(***************************************************************************)
EXTENDS CollectQueue, TLAPS, SequenceTheorems

USE QueueConstants

-----------------------------------------------------------------------------
(* Facts about the helpers.                                                *)

LEMMA MapSeq ==
  ASSUME NEW S, NEW n \in Nat, NEW f \in [1..n -> S]
  PROVE  f \in Seq(S)
OBVIOUS

LEMMA HighestNat ==
  ASSUME NEW S, S \subseteq Nat
  PROVE  Highest(S) \in Nat
BY DEF Highest, IsHighest

LEMMA RunSeq ==
  ASSUME TypeOK, NEW t \in Tasks
  PROVE  /\ runs[t] \in Seq(Run) /\ Len(runs[t]) \in Nat
         /\ DOMAIN runs[t] = 1..Len(runs[t])
         /\ \A n \in DOMAIN runs[t] : runs[t][n] \in Run
<1>1. runs[t] \in Seq(Run)
  BY DEF TypeOK
<1>. QED
  BY <1>1, LenProperties, ElementOfSeq

\* Rewriting the status of one run row keeps the table well typed.
LEMMA SetRunType ==
  ASSUME TypeOK, NEW t \in Tasks, NEW n, NEW status \in RunStatus
  PROVE  [runs EXCEPT ![t][n].status = status] \in [Tasks -> Seq(Run)]
<1>1. /\ runs[t] \in [1..Len(runs[t]) -> Run] /\ Len(runs[t]) \in Nat
  BY RunSeq, LenProperties
<1>2. [runs[t] EXCEPT ![n].status = status] \in [1..Len(runs[t]) -> Run]
  BY <1>1 DEF Run
<1>3. [runs[t] EXCEPT ![n].status = status] \in Seq(Run)
  BY <1>1, <1>2, MapSeq
<1>. QED
  BY <1>3 DEF TypeOK

LEMMA AddRunType ==
  ASSUME TypeOK, NEW t \in Tasks, NEW r \in Run
  PROVE  [runs EXCEPT ![t] = Append(@, r)] \in [Tasks -> Seq(Run)]
<1>1. Append(runs[t], r) \in Seq(Run)
  BY RunSeq, AppendProperties
<1>. QED
  BY <1>1 DEF TypeOK

LEMMA RecoveryType ==
  ASSUME TypeOK, NEW R \in SUBSET Slices
  PROVE  /\ TaskAfterRecovery(R) \in [Tasks -> TaskStatus]
         /\ SliceAfterRecovery(R) \in [Slices -> SliceStatus \cup {"ABSENT"}]
         /\ RunsAfterRecovery(R) \in [Tasks -> Seq(Run)]
<1>1. TaskAfterRecovery(R) \in [Tasks -> TaskStatus]
  BY DEF TypeOK, TaskAfterRecovery, TaskStatus
<1>2. SliceAfterRecovery(R) \in [Slices -> SliceStatus \cup {"ABSENT"}]
  BY DEF TypeOK, SliceAfterRecovery, SliceStatus
<1>3. ASSUME NEW t \in Tasks PROVE RunsAfterRecovery(R)[t] \in Seq(Run)
  <2>0. \A n \in 1..Len(runs[t]) : runs[t][n] \in Run
    BY RunSeq
  <2>1. \A n \in 1..Len(runs[t]) : [runs[t][n] EXCEPT !.status = "LOST"] \in Run
    BY <2>0 DEF Run, RunStatus
  <2>2. RunsAfterRecovery(R)[t] \in [1..Len(runs[t]) -> Run]
    BY <2>0, <2>1, RunSeq DEF RunsAfterRecovery
  <2>. QED
    BY <2>2, RunSeq, MapSeq
<1>4. RunsAfterRecovery(R) \in [Tasks -> Seq(Run)]
  <2>1. RunsAfterRecovery(R) = [t \in Tasks |-> RunsAfterRecovery(R)[t]]
    BY DEF RunsAfterRecovery
  <2>. QED
    BY <2>1, <1>3
<1>. QED
  BY <1>1, <1>2, <1>4

-----------------------------------------------------------------------------
(* Type correctness.                                                       *)

LEMMA IdleType == Idle \in Worker
BY DEF Idle, Worker, TaskStatus, Capability

\* What the outcomes of a provider call write to the tables.
LEMMA OutcomeType ==
  ASSUME TypeOK, NEW w \in Workers, wk[w].pc # "idle", NEW status \in RunStatus
  PROVE  /\ TaskAt(w) \in Tasks
         /\ TaskKept(w) \in [Tasks -> TaskStatus]
         /\ \A st \in TaskStatus : TaskSetTo(w, st) \in [Tasks -> TaskStatus]
         /\ RunKept(w) \in [Tasks -> Seq(Run)]
         /\ RunSetTo(w, status) \in [Tasks -> Seq(Run)]
<1>1. TaskAt(w) \in Tasks
  BY DEF TypeOK, TaskAt
<1>2. TaskKept(w) \in [Tasks -> TaskStatus]
  BY <1>1 DEF TypeOK, TaskKept, TaskStatus
<1>3. \A st \in TaskStatus : TaskSetTo(w, st) \in [Tasks -> TaskStatus]
  BY <1>1, <1>2 DEF TypeOK, TaskSetTo
<1>4. RunKept(w) \in [Tasks -> Seq(Run)]
  <2>1. [status |-> "RUNNING", worker |-> w] \in Run
    BY DEF Run, RunStatus
  <2>. QED
    BY <1>1, <2>1, AddRunType DEF RunKept, TypeOK
<1>5. RunSetTo(w, status) \in [Tasks -> Seq(Run)]
  <2>1. [status |-> status, worker |-> w] \in Run
    BY DEF Run
  <2>. QED
    BY <1>1, <2>1, AddRunType, SetRunType DEF RunSetTo
<1>. QED
  BY <1>1, <1>2, <1>3, <1>4, <1>5

LEMMA LogType ==
  ASSUME TypeOK, NEW w \in Workers, wk[w].pc # "idle",
         NEW status \in AttemptStatus, LogAttempt(w, status)
  PROVE  attemptLog' \subseteq Attempt
BY DEF TypeOK, LogAttempt, Attempt, Worker

LEMMA ReturnType ==
  ASSUME TypeOK, NEW w \in Workers, wk[w].pc # "idle",
         NEW status \in SliceStatus, ReturnSlice(w, status)
  PROVE  /\ slice' \in [Slices -> SliceStatus \cup {"ABSENT"}]
         /\ lease' \in [Slices -> Nat]
         /\ leasedBy' \in [Slices -> Workers \cup {NoWorker}]
         /\ expired' \subseteq Slices
<1>1. wk[w].slice \in Slices
  BY DEF TypeOK
<1>2. CASE HoldsLease(w)
  <2>1. /\ slice' = [slice EXCEPT ![wk[w].slice] = status]
        /\ lease' = [lease EXCEPT ![wk[w].slice] = 0]
        /\ leasedBy' = [leasedBy EXCEPT ![wk[w].slice] = NoWorker]
        /\ expired' = expired \ {wk[w].slice}
    BY <1>2 DEF ReturnSlice
  <2>. QED
    BY <1>1, <2>1 DEF TypeOK
<1>3. CASE ~HoldsLease(w)
  BY <1>3 DEF TypeOK, ReturnSlice
<1>. QED
  BY <1>2, <1>3

LEMMA PollType ==
  ASSUME TypeOK, NEW w \in Workers, Poll(w)
  PROVE  TypeOK'
<1>. DEFINE R == Recoverable
<1>1. R \in SUBSET Slices
  BY DEF TypeOK, Recoverable
<1>2. task' \in [Tasks -> TaskStatus] /\ runs' \in [Tasks -> Seq(Run)]
  BY <1>1, RecoveryType DEF Poll
<1>3. SliceAfterRecovery(R) \in [Slices -> SliceStatus \cup {"ABSENT"}]
  BY <1>1, RecoveryType
<1>4. UNCHANGED <<cooling, attemptLog, capability, published, op>> /\ expired' \subseteq Slices
  BY DEF Poll, TypeOK
<1>5. CASE RecoverOnly(w, R)
  BY <1>2, <1>3, <1>4, <1>5 DEF RecoverOnly, TypeOK
<1>6. ASSUME NEW s \in Slices, ClaimSlice(w, R, s) PROVE TypeOK'
  <2>1. slice' \in [Slices -> SliceStatus \cup {"ABSENT"}]
    BY <1>3, <1>6 DEF ClaimSlice, SliceStatus
  <2>2. attempts' \in [Slices -> Nat] /\ attempts[s] + 1 \in Nat
    BY <1>6 DEF ClaimSlice, NewToken, TypeOK
  <2>3. lease' \in [Slices -> Nat] /\ leasedBy' \in [Slices -> Workers \cup {NoWorker}]
    BY <1>6, <2>2 DEF ClaimSlice, NewToken, TypeOK
  <2>4. [Idle EXCEPT !.pc = "claimed", !.slice = s, !.tok = attempts[s] + 1] \in Worker
    BY <2>2 DEF Idle, Worker, TaskStatus, Capability
  <2>5. wk' \in [Workers -> Worker]
    BY <1>6, <2>4 DEF ClaimSlice, NewToken, TypeOK
  <2>6. \A v \in Workers : wk'[v].pc # "idle" => wk'[v].slice \in Slices
    BY <1>6 DEF ClaimSlice, NewToken, TypeOK, Idle
  <2>. QED
    BY <1>2, <1>4, <2>1, <2>2, <2>3, <2>5, <2>6 DEF TypeOK
<1>. QED
  BY <1>5, <1>6 DEF Poll

\* The steps that only change what the worker holds in memory.
LEMMA MemoryType ==
  ASSUME TypeOK, NEW w \in Workers,
         \/ Load(w) \/ NumberRun(w) \/ OpenAttempt(w) \/ Raise(w) \/ Crash(w)
         \/ \E more \in BOOLEAN : CountSlices(w, more)
  PROVE  TypeOK'
<1>1. wk[w].pc # "idle"
  BY DEF Load, NumberRun, OpenAttempt, Raise, Crash, CountSlices
<1>2. wk[w] \in Worker /\ wk[w].slice \in Slices /\ TaskAt(w) \in Tasks
  BY <1>1 DEF TypeOK, TaskAt
<1>. DEFINE Becomes(r) == /\ r.pc = "idle" \/ r.slice = wk[w].slice
                          /\ wk' = [wk EXCEPT ![w] = r]
<1>3. \E r \in Worker : Becomes(r)
  <2>1. CASE Load(w)
    <3>1. Highest(RunningRuns(TaskAt(w))) \in Nat
      <4>1. RunningRuns(TaskAt(w)) \subseteq Nat
        BY <1>2, RunSeq DEF RunningRuns
      <4>. QED
        BY <4>1, HighestNat
    <3>2. attempts[wk[w].slice] \in Nat /\ task[TaskAt(w)] \in TaskStatus
          /\ capability[BindingOf[TaskAt(w)]] \in Capability
      BY <1>2 DEF TypeOK
    <3>. DEFINE r == [wk[w] EXCEPT
            !.pc = IF Highest(RunningRuns(TaskAt(w))) = 0 THEN "numbering" ELSE "opening",
            !.att = attempts[wk[w].slice], !.seen = task[TaskAt(w)],
            !.cap = capability[BindingOf[TaskAt(w)]],
            !.run = Highest(RunningRuns(TaskAt(w)))]
    <3>3. r \in Worker /\ r.slice = wk[w].slice
      BY <1>2, <3>1, <3>2 DEF Worker
    <3>4. wk' = [wk EXCEPT ![w] = r]
      BY <2>1 DEF Load, TypeOK
    <3>. HIDE DEF r
    <3>. QED
      BY <3>3, <3>4 DEF Worker
  <2>2. CASE NumberRun(w)
    <3>1. Len(runs[TaskAt(w)]) + 1 \in Nat
      BY <1>2, RunSeq
    <3>. DEFINE r == [wk[w] EXCEPT !.pc = "opening", !.fresh = TRUE,
                                   !.run = Len(runs[TaskAt(w)]) + 1]
    <3>2. r \in Worker /\ r.slice = wk[w].slice
      BY <1>2, <3>1 DEF Worker
    <3>3. wk' = [wk EXCEPT ![w] = r]
      BY <2>2 DEF NumberRun, TypeOK
    <3>. HIDE DEF r
    <3>. QED
      BY <3>2, <3>3 DEF Worker
  <2>3. CASE OpenAttempt(w) \/ Raise(w)
    <3>1. PICK pc \in {"failing", "executing"} : wk' = [wk EXCEPT ![w].pc = pc]
      BY <2>3 DEF OpenAttempt, Raise
    <3>2. [wk[w] EXCEPT !.pc = pc] \in Worker
      BY <1>2 DEF Worker
    <3>. QED
      BY <1>2, <3>1, <3>2 DEF TypeOK, Worker
  <2>4. CASE Crash(w)
    BY <2>4, IdleType DEF Crash, Idle
  <2>5. ASSUME NEW more \in BOOLEAN, CountSlices(w, more) PROVE \E r \in Worker : Becomes(r)
    <3>. DEFINE r == [wk[w] EXCEPT !.pc = "counted", !.more = more,
                                   !.left = Remaining(w, more) # {}]
    <3>1. r \in Worker /\ r.slice = wk[w].slice
      BY <1>2 DEF Worker
    <3>2. wk' = [wk EXCEPT ![w] = r]
      BY <2>5 DEF CountSlices, TypeOK
    <3>. HIDE DEF r
    <3>. QED
      BY <3>1, <3>2 DEF Worker
  <2>. QED
    BY <2>1, <2>2, <2>3, <2>4, <2>5
<1>4. UNCHANGED <<rows, op>>
  BY DEF Load, NumberRun, OpenAttempt, Raise, Crash, CountSlices
<1>5. wk' \in [Workers -> Worker] /\ \A v \in Workers : wk'[v].pc # "idle" => wk'[v].slice \in Slices
  BY <1>2, <1>3 DEF TypeOK
<1>. QED
  BY <1>4, <1>5 DEF TypeOK, rows

\* A worker that ends its turn holds nothing.
LEMMA IdleWk ==
  ASSUME TypeOK, NEW w \in Workers, wk' = [wk EXCEPT ![w] = Idle]
  PROVE  /\ wk' \in [Workers -> Worker]
         /\ \A v \in Workers : wk'[v].pc # "idle" => wk'[v].slice \in Slices
BY IdleType DEF TypeOK, Idle

LEMMA CommitType ==
  ASSUME TypeOK, NEW w \in Workers, CommitPage(w)
  PROVE  TypeOK'
<1>1. wk[w].pc # "idle" /\ TaskAt(w) \in Tasks /\ wk[w].slice \in Slices
  BY DEF CommitPage, TypeOK, TaskAt
<1>2. slice' \in [Slices -> SliceStatus \cup {"ABSENT"}] /\ expired' \subseteq Slices
  BY DEF CommitPage, SliceAfterPage, TypeOK, SliceStatus
<1>3. task' \in [Tasks -> TaskStatus] /\ runs' \in [Tasks -> Seq(Run)] /\ published' \subseteq Tasks
  <2>1. "CANCELLED" \in RunStatus /\ "SUCCEEDED" \in RunStatus /\ "SUCCEEDED" \in TaskStatus
    BY DEF RunStatus, TaskStatus
  <2>2. FinalizeTask(w)
    BY DEF CommitPage
  <2>. QED
    BY <1>1, <2>1, <2>2, OutcomeType DEF FinalizeTask, TypeOK
<1>4. attemptLog' \subseteq Attempt
  <2>1. PICK status \in AttemptStatus : LogAttempt(w, status)
    BY DEF CommitPage, AttemptStatus
  <2>. QED
    BY <1>1, <2>1, LogType
<1>5. capability' \in [Bindings -> Capability]
  BY <1>1 DEF CommitPage, TypeOK, Capability
<1>6. wk' = [wk EXCEPT ![w] = Idle] /\ UNCHANGED <<lease, leasedBy, attempts, cooling, op>>
  BY DEF CommitPage
<1>. QED
  BY <1>2, <1>3, <1>4, <1>5, <1>6, IdleWk DEF TypeOK

LEMMA FailureType ==
  ASSUME TypeOK, NEW w \in Workers,
         FailRetryable(w) \/ \E blocks \in BOOLEAN : FailFinal(w, blocks)
  PROVE  TypeOK'
<1>1. wk[w].pc # "idle" /\ TaskAt(w) \in Tasks /\ wk[w].slice \in Slices
  BY DEF FailRetryable, FailFinal, TypeOK, TaskAt
<1>2. "FAILED" \in AttemptStatus /\ "FAILED" \in RunStatus /\ "FAILED" \in TaskStatus
      /\ "FAILED" \in SliceStatus /\ "RETRY_WAIT" \in SliceStatus
  BY DEF AttemptStatus, RunStatus, TaskStatus, SliceStatus
<1>3. attemptLog' \subseteq Attempt
  BY <1>1, <1>2, LogType DEF FailRetryable, FailFinal
<1>4. /\ slice' \in [Slices -> SliceStatus \cup {"ABSENT"}]
      /\ lease' \in [Slices -> Nat]
      /\ leasedBy' \in [Slices -> Workers \cup {NoWorker}]
      /\ expired' \subseteq Slices
  <2>1. PICK status \in SliceStatus : ReturnSlice(w, status)
    BY <1>2 DEF FailRetryable, FailFinal
  <2>. QED
    BY <1>1, <2>1, ReturnType
<1>5. task' \in [Tasks -> TaskStatus] /\ runs' \in [Tasks -> Seq(Run)]
  BY <1>1, <1>2, OutcomeType DEF FailRetryable, FailFinal
<1>6. cooling' \subseteq Slices /\ capability' \in [Bindings -> Capability]
  BY <1>1 DEF FailRetryable, FailFinal, TypeOK, Capability
<1>7. wk' = [wk EXCEPT ![w] = Idle] /\ UNCHANGED <<attempts, published, op>>
  BY DEF FailRetryable, FailFinal
<1>. QED
  BY <1>3, <1>4, <1>5, <1>6, <1>7, IdleWk DEF TypeOK

LEMMA FailClaimType ==
  ASSUME TypeOK, NEW w \in Workers, FailClaim(w)
  PROVE  TypeOK'
<1>1. wk[w].pc # "idle" /\ TaskAt(w) \in Tasks
  BY DEF FailClaim, TypeOK, TaskAt
<1>2. /\ wk' = [wk EXCEPT ![w] = Idle]
      /\ UNCHANGED <<attempts, cooling, attemptLog, capability, published, op>>
  BY DEF FailClaim
<1>3. CASE UNCHANGED <<slice, lease, leasedBy, expired, task, runs>>
  BY <1>2, <1>3, IdleWk DEF TypeOK
<1>4. CASE /\ ReturnSlice(w, "FAILED")
           /\ task' = [task EXCEPT ![TaskAt(w)] = "FAILED"]
           /\ runs' = RunsAfterFailedClaim(w)
  <2>1. runs' \in [Tasks -> Seq(Run)]
    <3>1. "FAILED" \in RunStatus
      BY DEF RunStatus
    <3>. QED
      BY <1>1, <1>4, <3>1, SetRunType DEF RunsAfterFailedClaim, TypeOK
  <2>2. task' \in [Tasks -> TaskStatus]
    BY <1>1, <1>4 DEF TypeOK, TaskStatus
  <2>3. /\ slice' \in [Slices -> SliceStatus \cup {"ABSENT"}]
        /\ lease' \in [Slices -> Nat]
        /\ leasedBy' \in [Slices -> Workers \cup {NoWorker}]
        /\ expired' \subseteq Slices
    BY <1>1, <1>4, ReturnType DEF SliceStatus
  <2>. QED
    BY <1>2, <2>1, <2>2, <2>3, IdleWk DEF TypeOK
<1>. QED
  BY <1>3, <1>4 DEF FailClaim

LEMMA OperatorType ==
  ASSUME TypeOK, NEW o \in Operators, OperatorStep(o)
  PROVE  TypeOK'
<1>1. ASSUME NEW kind \in {"pause", "resume", "cancel", "retry"}, NEW t \in Tasks, OpRead(o, kind, t)
      PROVE  TypeOK'
  <2>1. [Quiet EXCEPT !.pc = "read", !.kind = kind, !.task = t] \in Request
    BY DEF Quiet, Request
  <2>2. op' \in [Operators -> Request] /\ \A p \in Operators : op'[p].pc # "idle" => op'[p].task \in Tasks
    BY <1>1, <2>1 DEF OpRead, TypeOK, Quiet
  <2>. QED
    BY <1>1, <2>2 DEF OpRead, TypeOK, rows
<1>2. CASE OpWriteSlices(o)
  <2>1. Quiet \in Request
    BY DEF Quiet, Request
  <2>2. op[o] \in Request /\ op[o].task \in Tasks
    BY <1>2 DEF OpWriteSlices, TypeOK
  <2>3. TargetSlices(op[o].kind, op[o].task) \subseteq Slices
    BY DEF TargetSlices, SlicesOf
  <2>4. CASE op' = [op EXCEPT ![o] = Quiet]
    <3>1. op' \in [Operators -> Request] /\ \A p \in Operators : op'[p].pc # "idle" => op'[p].task \in Tasks
      BY <2>1, <2>4 DEF TypeOK, Quiet
    <3>. QED
      BY <1>2, <3>1 DEF OpWriteSlices, TypeOK, rows
  <2>5. CASE op' = [op EXCEPT ![o].pc = "written", ![o].slices = TargetSlices(op[o].kind, op[o].task)]
    <3>. DEFINE r == [op[o] EXCEPT !.pc = "written", !.slices = TargetSlices(op[o].kind, op[o].task)]
    <3>1. r \in Request /\ r.task = op[o].task
      BY <2>2, <2>3 DEF Request
    <3>2. op' = [op EXCEPT ![o] = r]
      BY <2>5 DEF TypeOK
    <3>. HIDE DEF r
    <3>3. op' \in [Operators -> Request] /\ \A p \in Operators : op'[p].pc # "idle" => op'[p].task \in Tasks
      BY <2>2, <3>1, <3>2 DEF TypeOK
    <3>. QED
      BY <1>2, <3>3 DEF OpWriteSlices, TypeOK, rows
  <2>. QED
    BY <1>2, <2>4, <2>5 DEF OpWriteSlices
<1>3. CASE OpCommit(o)
  <2>1. Quiet \in Request /\ Quiet.pc = "idle"
    BY DEF Quiet, Request
  <2>2. op' \in [Operators -> Request] /\ \A p \in Operators : op'[p].pc # "idle" => op'[p].task \in Tasks
    BY <1>3, <2>1 DEF OpCommit, TypeOK
  <2>3. slice' \in [Slices -> SliceStatus \cup {"ABSENT"}]
    BY <1>3 DEF OpCommit, SliceAfterRequest, SliceStatus, TypeOK
  <2>4. task' \in [Tasks -> TaskStatus] /\ cooling' \subseteq Slices
    BY <1>3 DEF OpCommit, Target, TaskStatus, TypeOK
  <2>. QED
    BY <1>3, <2>2, <2>3, <2>4 DEF OpCommit, TypeOK
<1>. QED
  BY <1>1, <1>2, <1>3 DEF OperatorStep

LEMMA TimeType ==
  ASSUME TypeOK,
         \/ \E s \in Slices : LeaseExpires(s) \/ RetryDue(s)
         \/ \E b \in Bindings, answer \in ProbeAnswers : ProbeBinding(b, answer)
  PROVE  TypeOK'
BY DEF LeaseExpires, RetryDue, ProbeBinding, TypeOK, Capability

LEMMA TypeInit == Init => TypeOK
<1>. SUFFICES ASSUME Init PROVE TypeOK
  OBVIOUS
<1>1. [t \in Tasks |-> <<>>] \in [Tasks -> Seq(Run)]
  OBVIOUS
<1>2. Quiet \in Request /\ Quiet.pc = "idle"
  BY DEF Quiet, Request
<1>3. Idle.pc = "idle"
  BY DEF Idle
<1>. QED
  BY <1>1, <1>2, <1>3, IdleType DEF Init, TypeOK, TaskStatus, SliceStatus, Capability

LEMMA TypeStep == TypeOK /\ [Next]_vars => TypeOK'
<1>. SUFFICES ASSUME TypeOK, [Next]_vars PROVE TypeOK'
  OBVIOUS
<1>1. ASSUME NEW w \in Workers, WorkerStep(w) \/ Crash(w) PROVE TypeOK'
  BY <1>1, PollType, MemoryType, CommitType, FailureType, FailClaimType DEF WorkerStep, Outcome
<1>2. ASSUME NEW o \in Operators, OperatorStep(o) PROVE TypeOK'
  BY <1>2, OperatorType
<1>3. CASE UNCHANGED vars
  BY <1>3 DEF vars, rows, TypeOK
<1>. QED
  BY <1>1, <1>2, <1>3, TimeType DEF Next

\* Every value a row or a process of the queue ever holds is one the code can
\* store there, for any number of workers, tasks and requests.
THEOREM TypeCorrect == Spec => []TypeOK
<1>. QED
  BY TypeInit, TypeStep, PTL DEF Spec
-----------------------------------------------------------------------------
(* The inductive invariant.                                                *)

\* A step of w that leaves the tables alone: w forgets its claim, or goes on
\* under the same claim.
LEMMA MemoryEffect ==
  ASSUME TypeOK, NEW w \in Workers,
         \/ Load(w) \/ NumberRun(w) \/ OpenAttempt(w) \/ Raise(w) \/ Crash(w)
         \/ \E more \in BOOLEAN : CountSlices(w, more)
  PROVE  /\ UNCHANGED <<rows, op>>
         /\ wk[w].pc # "idle"
         /\ \A v \in Workers \ {w} : wk'[v] = wk[v]
         /\ \/ wk'[w] = Idle
            \/ /\ wk'[w].slice = wk[w].slice /\ wk'[w].tok = wk[w].tok
               /\ \/ wk'[w].pc = "failing"
                  \/ wk'[w].att = attempts[wk[w].slice] /\ wk[w].pc = "claimed"
                  \/ wk'[w].att = wk[w].att /\ wk[w].pc \notin {"claimed", "failing"}
         /\ \/ wk'[w].pc # "counted"
            \/ /\ wk[w].pc = "executing"
               /\ wk'[w].more => NextPage[wk[w].slice] # NoSlice
               /\ wk'[w].left <=> Remaining(w, wk'[w].more) # {}
<1>1. UNCHANGED <<rows, op>> /\ wk[w].pc # "idle"
  BY DEF Load, NumberRun, OpenAttempt, Raise, Crash, CountSlices
<1>2. wk[w] \in Worker
  BY DEF TypeOK
<1>3. CASE Load(w)
  BY <1>1, <1>2, <1>3 DEF Load, TypeOK, Worker
<1>4. CASE NumberRun(w)
  BY <1>1, <1>2, <1>4 DEF NumberRun, TypeOK, Worker
<1>5. CASE OpenAttempt(w)
  <2>1. PICK pc \in {"failing", "executing"} : wk' = [wk EXCEPT ![w].pc = pc]
    BY <1>5 DEF OpenAttempt
  <2>. QED
    BY <1>1, <1>2, <1>5, <2>1 DEF OpenAttempt, TypeOK, Worker
<1>6. CASE Raise(w)
  BY <1>1, <1>2, <1>6 DEF Raise, TypeOK, Worker
<1>7. CASE Crash(w)
  BY <1>1, <1>2, <1>7 DEF Crash, TypeOK, Idle
<1>8. ASSUME NEW more \in BOOLEAN, CountSlices(w, more)
      PROVE  /\ \A v \in Workers \ {w} : wk'[v] = wk[v]
             /\ wk'[w] = [wk[w] EXCEPT !.pc = "counted", !.more = more,
                                       !.left = Remaining(w, more) # {}]
  <2>1. wk' = [wk EXCEPT ![w] = [wk[w] EXCEPT !.pc = "counted", !.more = more,
                                       !.left = Remaining(w, more) # {}]]
    BY <1>8 DEF CountSlices, TypeOK
  <2>. QED
    BY <2>1 DEF TypeOK
<1>9. CASE \E more \in BOOLEAN : CountSlices(w, more)
  <2>1. PICK more \in BOOLEAN : CountSlices(w, more)
    BY <1>9
  <2>2. wk'[w] = [wk[w] EXCEPT !.pc = "counted", !.more = more,
                               !.left = Remaining(w, more) # {}]
    BY <2>1, <1>8
  <2>3. /\ wk'[w].slice = wk[w].slice /\ wk'[w].tok = wk[w].tok /\ wk'[w].att = wk[w].att
        /\ wk'[w].more = more /\ wk'[w].left = (Remaining(w, more) # {})
        /\ wk'[w].pc = "counted"
    BY <1>2, <2>2 DEF Worker
  <2>. QED
    BY <1>1, <1>8, <2>1, <2>3 DEF CountSlices
<1>. QED
  BY <1>3, <1>4, <1>5, <1>6, <1>7, <1>9

LEMMA MemoryInv ==
  ASSUME QueueInv, NEW w \in Workers,
         \/ Load(w) \/ NumberRun(w) \/ OpenAttempt(w) \/ Raise(w) \/ Crash(w)
         \/ \E more \in BOOLEAN : CountSlices(w, more)
  PROVE  QueueInv'
<1>. USE DEF QueueInv
<1>1. TypeOK'
  BY MemoryType
<1>2. UNCHANGED <<rows, op>> /\ wk[w].pc # "idle" /\ \A v \in Workers \ {w} : wk'[v] = wk[v]
  BY MemoryEffect
<1>3. Tokens'
  <2>1. \/ wk'[w].pc = "idle"
        \/ /\ wk'[w].slice = wk[w].slice /\ wk'[w].tok = wk[w].tok
           /\ \/ wk'[w].pc = "failing"
              \/ wk'[w].att = attempts[wk[w].slice]
              \/ wk'[w].att = wk[w].att /\ wk[w].pc \notin {"claimed", "failing"}
    BY MemoryEffect DEF Idle
  <2>2. wk[w].slice \in Slices
    BY <1>2 DEF TypeOK
  <2>. QED
    BY <1>2, <2>1, <2>2 DEF Tokens, HoldsLease, rows
<1>4. Counts'
  <2>1. ASSUME NEW v \in Workers, wk'[v].pc = "counted", v # w
        PROVE  Counts!(v)'
    BY <1>2, <2>1 DEF Counts, TaskAt, HoldsLease, rows, SlicesOf
  <2>2. ASSUME wk'[w].pc = "counted"
        PROVE  Counts!(w)'
    <3>1. /\ wk[w].pc = "executing"
          /\ wk'[w].more => NextPage[wk[w].slice] # NoSlice
          /\ wk'[w].left <=> Remaining(w, wk'[w].more) # {}
          /\ wk'[w].slice = wk[w].slice /\ wk'[w].tok = wk[w].tok
      <4>1. wk'[w] # Idle
        BY <2>2 DEF Idle
      <4>2. /\ wk[w].pc = "executing"
            /\ wk'[w].more => NextPage[wk[w].slice] # NoSlice
            /\ wk'[w].left <=> Remaining(w, wk'[w].more) # {}
        BY <2>2, MemoryEffect, Zenon
      <4>3. wk'[w].slice = wk[w].slice /\ wk'[w].tok = wk[w].tok
        BY <4>1, MemoryEffect, Zenon
      <4>. QED
        BY <4>2, <4>3
    <3>2. ASSUME ~wk'[w].left, NEW s \in SlicesOf(TaskAt(w))
          PROVE  \/ slice[s] \in DoneSlice
                 \/ s = wk[w].slice /\ HoldsLease(w)
                 \/ s \notin Planned /\ slice[s] \in {"ABSENT", "PENDING"}
      <4>1. SliceAfterPage(w, wk'[w].more)[s] \in DoneSlice \cup {"ABSENT"}
        BY <3>1, <3>2 DEF Remaining
      <4>. QED
        BY <4>1 DEF SliceAfterPage, SlicesOf, PlannedExist
    <3>. QED
      BY <1>2, <2>2, <3>1, <3>2 DEF Counts, TaskAt, HoldsLease, rows, SlicesOf
  <2>. QED
    BY <2>1, <2>2 DEF Counts
<1>5. LockedRows' /\ PlannedExist' /\ SuccessHasItsAttempt' /\ SucceededIsSettled'
      /\ NoPageLost' /\ PublishedIsSettled'
  BY <1>2 DEF rows, LockedRows, PlannedExist, SuccessHasItsAttempt, SucceededIsSettled,
              NoPageLost, PublishedIsSettled
<1>. QED
  BY <1>1, <1>3, <1>4, <1>5

\* What Poll does to each slice: C are the slices it claims, none or one.
LEMMA PollEffect ==
  ASSUME TypeOK, NEW w \in Workers, Poll(w)
  PROVE  \E C \in SUBSET Slices :
    /\ \A u \in C : /\ slice'[u] = "RUNNING" /\ slice[u] \in WaitingSlice \cup {"RUNNING"}
                    /\ slice[u] = "RUNNING" => u \in Recoverable
                    /\ lease'[u] = attempts[u] + 1 /\ attempts'[u] = attempts[u] + 1
                    /\ SliceRowFree(u) /\ BindingRowFree(BindingOf[TaskOf[u]])
                    /\ task'[TaskOf[u]] \in ClaimableTask
    /\ \A u \in Recoverable \ C : slice'[u] = "RETRY_WAIT"
    /\ \A u \in Slices \ (Recoverable \cup C) : slice'[u] = slice[u] /\ lease'[u] = lease[u]
    /\ \A u \in Slices \ C : attempts'[u] = attempts[u]
    /\ \A v \in Workers \ {w} : wk'[v] = wk[v]
    /\ \/ C = {} /\ wk' = wk
       \/ \E s \in Slices : /\ C = {s}
                           /\ wk'[w].pc = "claimed" /\ wk'[w].slice = s
                           /\ wk'[w].tok = attempts[s] + 1
<1>1. CASE RecoverOnly(w, Recoverable)
  <2>1. \A u \in Recoverable : slice'[u] = "RETRY_WAIT"
    BY <1>1 DEF RecoverOnly, SliceAfterRecovery, Recoverable, TypeOK
  <2>2. \A u \in Slices \ Recoverable : slice'[u] = slice[u] /\ lease'[u] = lease[u]
    BY <1>1 DEF RecoverOnly, SliceAfterRecovery
  <2>3. attempts' = attempts /\ wk' = wk
    BY <1>1 DEF RecoverOnly
  <2>4. {} \in SUBSET Slices
    OBVIOUS
  <2>. QED
    BY <2>1, <2>2, <2>3, <2>4
<1>2. ASSUME NEW s \in Slices, ClaimSlice(w, Recoverable, s)
      PROVE  /\ slice'[s] = "RUNNING" /\ slice[s] \in WaitingSlice \cup {"RUNNING"}
             /\ slice[s] = "RUNNING" => s \in Recoverable
             /\ lease'[s] = attempts[s] + 1 /\ attempts'[s] = attempts[s] + 1
             /\ SliceRowFree(s) /\ BindingRowFree(BindingOf[TaskOf[s]])
             /\ task'[TaskOf[s]] \in ClaimableTask
             /\ \A u \in Recoverable \ {s} : slice'[u] = "RETRY_WAIT"
             /\ \A u \in Slices \ (Recoverable \cup {s}) : slice'[u] = slice[u] /\ lease'[u] = lease[u]
             /\ \A u \in Slices \ {s} : attempts'[u] = attempts[u]
             /\ \A v \in Workers \ {w} : wk'[v] = wk[v]
             /\ wk'[w].pc = "claimed" /\ wk'[w].slice = s /\ wk'[w].tok = attempts[s] + 1
  <2>1. s \in Ready(Recoverable)
    BY <1>2 DEF ClaimSlice
  <2>2. slice[s] \in WaitingSlice \cup {"RUNNING"} /\ (slice[s] = "RUNNING" => s \in Recoverable)
    BY <2>1 DEF Ready, SliceAfterRecovery, Recoverable, WaitingSlice
  <2>3. SliceRowFree(s) /\ BindingRowFree(BindingOf[TaskOf[s]])
        /\ task'[TaskOf[s]] \in ClaimableTask
    BY <2>1 DEF Ready, Poll
  <2>4. /\ slice'[s] = "RUNNING"
        /\ \A u \in Recoverable \ {s} : slice'[u] = "RETRY_WAIT"
        /\ \A u \in Slices \ (Recoverable \cup {s}) : slice'[u] = slice[u]
    BY <1>2 DEF ClaimSlice, SliceAfterRecovery, Recoverable, TypeOK
  <2>5. /\ lease'[s] = attempts[s] + 1 /\ attempts'[s] = attempts[s] + 1
        /\ \A u \in Slices \ (Recoverable \cup {s}) : lease'[u] = lease[u]
        /\ \A u \in Slices \ {s} : attempts'[u] = attempts[u]
    BY <1>2 DEF ClaimSlice, NewToken, TypeOK
  <2>6. /\ \A v \in Workers \ {w} : wk'[v] = wk[v]
        /\ wk'[w].pc = "claimed" /\ wk'[w].slice = s /\ wk'[w].tok = attempts[s] + 1
    BY <1>2 DEF ClaimSlice, NewToken, TypeOK, Idle
  <2>. QED
    BY <2>2, <2>3, <2>4, <2>5, <2>6
<1>3. ASSUME NEW s \in Slices, ClaimSlice(w, Recoverable, s) PROVE {s} \in SUBSET Slices
  OBVIOUS
<1>4. CASE \E s \in Slices : ClaimSlice(w, Recoverable, s)
  <2>1. PICK s \in Slices : ClaimSlice(w, Recoverable, s)
    BY <1>4
  <2>. WITNESS {s} \in SUBSET Slices
  <2>. QED
    BY <2>1, <1>2
<1>. QED
  BY <1>1, <1>4 DEF Poll

LEMMA PollInv ==
  ASSUME QueueInv, NEW w \in Workers, Poll(w)
  PROVE  QueueInv'
<1>. USE DEF QueueInv
<1>1. TypeOK'
  BY PollType
<1>2. PICK C \in SUBSET Slices :
    /\ \A u \in C : /\ slice'[u] = "RUNNING" /\ slice[u] \in WaitingSlice \cup {"RUNNING"}
                    /\ slice[u] = "RUNNING" => u \in Recoverable
                    /\ lease'[u] = attempts[u] + 1 /\ attempts'[u] = attempts[u] + 1
                    /\ SliceRowFree(u) /\ BindingRowFree(BindingOf[TaskOf[u]])
                    /\ task'[TaskOf[u]] \in ClaimableTask
    /\ \A u \in Recoverable \ C : slice'[u] = "RETRY_WAIT"
    /\ \A u \in Slices \ (Recoverable \cup C) : slice'[u] = slice[u] /\ lease'[u] = lease[u]
    /\ \A u \in Slices \ C : attempts'[u] = attempts[u]
    /\ \A v \in Workers \ {w} : wk'[v] = wk[v]
    /\ \/ C = {} /\ wk' = wk
       \/ \E s \in Slices : /\ C = {s}
                           /\ wk'[w].pc = "claimed" /\ wk'[w].slice = s
                           /\ wk'[w].tok = attempts[s] + 1
  BY PollEffect
<1>3. /\ wk[w].pc = "idle" /\ task' = TaskAfterRecovery(Recoverable)
      /\ UNCHANGED <<attemptLog, published, op>>
  BY DEF Poll
<1>4. \A u \in Recoverable : u \in Slices /\ slice[u] = "RUNNING" /\ SliceRowFree(u)
  BY DEF Recoverable, TypeOK
<1>5. Tokens'
  <2>1. \A s \in Slices : slice'[s] = "RUNNING" => lease'[s] = attempts'[s]
    BY <1>2 DEF Tokens
  <2>2. \A v \in Workers : wk'[v].pc # "idle" =>
          wk'[v].tok >= 1 /\ wk'[v].tok <= attempts'[wk'[v].slice]
    <3>1. ASSUME NEW s \in Slices PROVE attempts[s] \in Nat /\ attempts'[s] >= attempts[s]
      <4>1. attempts[s] \in Nat
        BY DEF TypeOK
      <4>2. attempts'[s] = attempts[s] \/ attempts'[s] = attempts[s] + 1
        BY <1>2
      <4>. QED
        BY <4>1, <4>2
    <3>2. ASSUME NEW v \in Workers \ {w}, wk'[v].pc # "idle"
          PROVE  wk'[v].tok >= 1 /\ wk'[v].tok <= attempts'[wk'[v].slice]
      <4>1. wk'[v] = wk[v] /\ wk[v].slice \in Slices /\ wk[v].tok \in Nat
        BY <1>2, <3>2 DEF TypeOK, Worker
      <4>2. wk[v].tok >= 1 /\ wk[v].tok <= attempts[wk[v].slice]
        BY <3>2, <4>1 DEF Tokens
      <4>3. /\ attempts[wk[v].slice] \in Nat /\ attempts'[wk[v].slice] \in Nat
            /\ attempts'[wk[v].slice] >= attempts[wk[v].slice]
        BY <1>1, <3>1, <4>1 DEF TypeOK
      <4>. QED
        BY <4>1, <4>2, <4>3
    <3>3. ASSUME wk'[w].pc # "idle"
          PROVE  wk'[w].tok >= 1 /\ wk'[w].tok <= attempts'[wk'[w].slice]
      BY <1>2, <1>3, <3>1, <3>3
    <3>. QED
      BY <3>2, <3>3
  <2>3. \A u, v \in Workers :
          /\ wk'[u].pc # "idle" /\ wk'[v].pc # "idle"
          /\ wk'[u].slice = wk'[v].slice /\ wk'[u].tok = wk'[v].tok
          => u = v
    <3>1. ASSUME NEW s \in Slices, NEW v \in Workers \ {w}, wk[v].pc # "idle", wk[v].slice = s
          PROVE  wk[v].tok # attempts[s] + 1
      <4>1. wk[v].tok \in Nat /\ attempts[s] \in Nat /\ wk[v].tok <= attempts[s]
        BY <3>1 DEF TypeOK, Worker, Tokens
      <4>. QED
        BY <4>1
    <3>. QED
      BY <1>2, <1>3, <3>1 DEF Tokens
  <2>4. \A v \in Workers :
          wk'[v].pc \notin {"idle", "claimed", "failing"} /\ HoldsLease(v)' => wk'[v].att = wk'[v].tok
    <3>1. ASSUME NEW v \in Workers \ {w}, HoldsLease(v)', wk[v].pc # "idle"
          PROVE  HoldsLease(v)
      <4>1. wk'[v] = wk[v] /\ wk[v].slice \in Slices /\ wk[v].tok \in Nat
            /\ wk[v].tok <= attempts[wk[v].slice] /\ attempts[wk[v].slice] \in Nat
        BY <1>2, <3>1 DEF TypeOK, Worker, Tokens
      <4>2. wk[v].slice \notin C
        BY <1>2, <3>1, <4>1 DEF HoldsLease
      <4>3. wk[v].slice \notin Recoverable
        BY <1>2, <3>1, <4>1, <4>2 DEF HoldsLease
      <4>. QED
        BY <1>2, <3>1, <4>1, <4>2, <4>3 DEF HoldsLease
    <3>. QED
      BY <1>2, <1>3, <3>1 DEF Tokens
  <2>. QED
    BY <2>1, <2>2, <2>3, <2>4 DEF Tokens
<1>6. LockedRows'
  <2>1. \A o \in Operators, s \in Slices : s \in op[o].slices => s \notin Recoverable \cup C
    BY <1>2, <1>4 DEF SliceRowFree
  <2>. QED
    BY <1>2, <1>3, <2>1 DEF LockedRows
<1>7. Counts'
  <2>1. SUFFICES ASSUME NEW v \in Workers, wk'[v].pc = "counted" PROVE Counts!(v)'
    BY DEF Counts
  <2>2. v # w /\ wk'[v] = wk[v] /\ Executing(v) /\ wk[v].slice \in Slices
    BY <1>2, <1>3, <2>1 DEF Executing, TypeOK
  <2>3. wk[v].slice \notin Recoverable \cup C
    BY <1>2, <1>4, <2>2 DEF SliceRowFree
  <2>4. \A u \in C : TaskOf[u] # TaskAt(v)
    BY <1>2, <2>2 DEF BindingRowFree, TaskAt
  <2>5. ASSUME ~wk[v].left, NEW u \in SlicesOf(TaskAt(v))
        PROVE  \/ slice'[u] \in DoneSlice
               \/ u = wk[v].slice /\ HoldsLease(v)'
               \/ u \notin Planned /\ slice'[u] \in {"ABSENT", "PENDING"}
    <3>1. u \in Slices /\ u \notin C
      BY <2>4 DEF SlicesOf
    <3>2. \/ slice[u] \in DoneSlice
          \/ u = wk[v].slice /\ HoldsLease(v)
          \/ u \notin Planned /\ slice[u] \in {"ABSENT", "PENDING"}
      BY <2>1, <2>2, <2>5 DEF Counts
    <3>3. u \notin Recoverable
      BY <1>4, <2>3, <3>2 DEF DoneSlice
    <3>4. slice'[u] = slice[u] /\ lease'[u] = lease[u]
      BY <1>2, <3>1, <3>3
    <3>. QED
      BY <2>2, <3>2, <3>4 DEF HoldsLease
  <2>. QED
    BY <2>1, <2>2, <2>5 DEF Counts, TaskAt, SlicesOf
<1>8. PlannedExist'
  BY <1>2 DEF PlannedExist
<1>9. SuccessHasItsAttempt'
  BY <1>2, <1>3 DEF SuccessHasItsAttempt
<1>10. SucceededIsSettled'
  <2>1. SUFFICES ASSUME NEW s \in Slices, task'[TaskOf[s]] = "SUCCEEDED"
                 PROVE  slice'[s] \notin {"RUNNING", "RETRY_WAIT", "FAILED"}
    BY DEF SucceededIsSettled
  <2>2. task[TaskOf[s]] = "SUCCEEDED" /\ s \notin Recoverable
    BY <1>3, <2>1 DEF TaskAfterRecovery
  <2>3. s \notin C
    BY <1>2, <2>1 DEF ClaimableTask
  <2>. QED
    BY <1>2, <2>2, <2>3 DEF SucceededIsSettled
<1>11. NoPageLost'
  <2>1. \A u \in Slices : slice[u] # "ABSENT" => slice'[u] # "ABSENT"
    BY <1>2
  <2>2. ASSUME NEW a \in attemptLog, a.status = "MORE"
        PROVE  NextPage[a.slice] # NoSlice /\ slice'[NextPage[a.slice]] # "ABSENT"
    <3>1. NextPage[a.slice] \in Slices \cup {NoSlice}
      BY DEF TypeOK, Attempt
    <3>. QED
      BY <2>1, <2>2, <3>1 DEF NoPageLost
  <2>. QED
    BY <1>3, <2>2 DEF NoPageLost
<1>12. PublishedIsSettled'
  BY <1>2, <1>3, <1>4 DEF PublishedIsSettled, DoneSlice, WaitingSlice
<1>. QED
  BY <1>1, <1>5, <1>6, <1>7, <1>8, <1>9, <1>10, <1>11, <1>12

\* A worker that turns idle disturbs nothing the others hold.
LEMMA IdleTokens ==
  ASSUME QueueInv, NEW w \in Workers, wk' = [wk EXCEPT ![w] = Idle], attempts' = attempts,
         \A s \in Slices : slice'[s] = "RUNNING" => slice[s] = "RUNNING" /\ lease'[s] = lease[s]
  PROVE  Tokens'
<1>1. \A v \in Workers : wk'[v].pc # "idle" => v # w /\ wk'[v] = wk[v] /\ wk[v].slice \in Slices
  BY DEF QueueInv, TypeOK, Idle
<1>2. \A v \in Workers : wk'[v].pc # "idle" /\ HoldsLease(v)' => HoldsLease(v)
  BY <1>1 DEF HoldsLease
<1>. QED
  BY <1>1, <1>2 DEF QueueInv, Tokens

\* What the steps that return or fail a slice do to it.
LEMMA FailureEffect ==
  ASSUME TypeOK, NEW w \in Workers,
         \/ FailRetryable(w) \/ FailClaim(w)
         \/ \E blocks \in BOOLEAN : FailFinal(w, blocks)
  PROVE  /\ UNCHANGED <<attempts, published, op>>
         /\ wk[w].pc # "idle" /\ wk' = [wk EXCEPT ![w] = Idle]
         /\ attemptLog \subseteq attemptLog'
         /\ \A a \in attemptLog' \ attemptLog : a.status = "FAILED"
         /\ \/ UNCHANGED <<slice, lease>>
            \/ /\ HoldsLease(w)
               /\ slice'[wk[w].slice] \in {"RETRY_WAIT", "FAILED"}
               /\ \A s \in Slices \ {wk[w].slice} : slice'[s] = slice[s] /\ lease'[s] = lease[s]
         /\ \A t \in Tasks : task'[t] = "SUCCEEDED" => task[t] = "SUCCEEDED"
<1>1. /\ UNCHANGED <<attempts, published, op>>
      /\ wk[w].pc # "idle" /\ wk' = [wk EXCEPT ![w] = Idle]
      /\ attemptLog \subseteq attemptLog'
      /\ \A a \in attemptLog' \ attemptLog : a.status = "FAILED"
  BY DEF FailRetryable, FailClaim, FailFinal, LogAttempt
<1>2. wk[w].slice \in Slices /\ TaskAt(w) \in Tasks
  BY <1>1 DEF TypeOK, TaskAt
<1>3. \/ UNCHANGED <<slice, lease>>
      \/ /\ HoldsLease(w)
         /\ slice'[wk[w].slice] \in {"RETRY_WAIT", "FAILED"}
         /\ \A s \in Slices \ {wk[w].slice} : slice'[s] = slice[s] /\ lease'[s] = lease[s]
  <2>1. CASE UNCHANGED <<slice, lease>>
    BY <2>1
  <2>2. ASSUME NEW status \in {"RETRY_WAIT", "FAILED"}, ReturnSlice(w, status)
        PROVE  \/ UNCHANGED <<slice, lease>>
               \/ /\ HoldsLease(w)
                  /\ slice'[wk[w].slice] \in {"RETRY_WAIT", "FAILED"}
                  /\ \A s \in Slices \ {wk[w].slice} : slice'[s] = slice[s] /\ lease'[s] = lease[s]
    <3>1. CASE HoldsLease(w)
      <4>1. /\ slice' = [slice EXCEPT ![wk[w].slice] = status]
            /\ lease' = [lease EXCEPT ![wk[w].slice] = 0]
        BY <2>2, <3>1 DEF ReturnSlice
      <4>. QED
        BY <1>2, <3>1, <4>1 DEF TypeOK
    <3>2. CASE ~HoldsLease(w)
      BY <2>2, <3>2 DEF ReturnSlice
    <3>. QED
      BY <3>1, <3>2
  <2>. QED
    BY <2>1, <2>2 DEF FailRetryable, FailClaim, FailFinal
<1>4. ASSUME NEW t \in Tasks, task'[t] = "SUCCEEDED" PROVE task[t] = "SUCCEEDED"
  <2>1. \/ task' = task \/ task' = [task EXCEPT ![TaskAt(w)] = "RUNNING"]
        \/ task' = [task EXCEPT ![TaskAt(w)] = "FAILED"]
    BY DEF FailRetryable, FailClaim, FailFinal, TaskKept, TaskSetTo
  <2>. QED
    BY <1>4, <2>1 DEF TypeOK
<1>. QED
  BY <1>1, <1>3, <1>4

LEMMA FailureInv ==
  ASSUME QueueInv, NEW w \in Workers,
         \/ FailRetryable(w) \/ FailClaim(w)
         \/ \E blocks \in BOOLEAN : FailFinal(w, blocks)
  PROVE  QueueInv'
<1>. USE DEF QueueInv
<1>1. TypeOK'
  BY FailureType, FailClaimType
<1>2. /\ UNCHANGED <<attempts, published, op>>
      /\ wk[w].pc # "idle" /\ wk' = [wk EXCEPT ![w] = Idle]
      /\ attemptLog \subseteq attemptLog'
      /\ \A a \in attemptLog' \ attemptLog : a.status = "FAILED"
      /\ \A t \in Tasks : task'[t] = "SUCCEEDED" => task[t] = "SUCCEEDED"
  BY FailureEffect
<1>3. ASSUME NEW s \in Slices
      PROVE  \/ slice'[s] = slice[s] /\ lease'[s] = lease[s]
             \/ /\ s = wk[w].slice /\ HoldsLease(w) /\ slice[s] = "RUNNING"
                /\ slice'[s] \in {"RETRY_WAIT", "FAILED"}
  BY FailureEffect DEF HoldsLease
<1>4. Tokens'
  BY <1>2, <1>3, IdleTokens
<1>5. LockedRows'
  BY <1>2, <1>3 DEF LockedRows, WaitingSlice
<1>6. Counts'
  <2>1. SUFFICES ASSUME NEW v \in Workers, wk'[v].pc = "counted" PROVE Counts!(v)'
    BY DEF Counts
  <2>2. v # w /\ wk'[v] = wk[v] /\ wk[v].slice \in Slices
    BY <1>2, <2>1 DEF TypeOK, Idle
  <2>3. ASSUME NEW s \in Slices, s = wk[v].slice, HoldsLease(v)
        PROVE  slice'[s] = slice[s] /\ lease'[s] = lease[s]
    <3>1. ~(HoldsLease(w) /\ s = wk[w].slice)
      BY <1>2, <2>1, <2>2, <2>3 DEF HoldsLease, Tokens
    <3>. QED
      BY <1>3, <3>1
  <2>4. ASSUME ~wk[v].left, NEW s \in SlicesOf(TaskAt(v))
        PROVE  \/ slice'[s] \in DoneSlice
               \/ s = wk[v].slice /\ HoldsLease(v)'
               \/ s \notin Planned /\ slice'[s] \in {"ABSENT", "PENDING"}
    <3>1. s \in Slices
      BY DEF SlicesOf
    <3>2. \/ slice[s] \in DoneSlice
          \/ s = wk[v].slice /\ HoldsLease(v)
          \/ s \notin Planned /\ slice[s] \in {"ABSENT", "PENDING"}
      BY <2>1, <2>2, <2>4 DEF Counts
    <3>3. slice'[s] = slice[s] /\ lease'[s] = lease[s]
      BY <1>3, <2>3, <3>1, <3>2 DEF DoneSlice
    <3>. QED
      BY <2>2, <3>2, <3>3 DEF HoldsLease
  <2>. QED
    BY <2>1, <2>2, <2>4 DEF Counts, TaskAt, SlicesOf
<1>7. PlannedExist'
  BY <1>3 DEF PlannedExist
<1>8. SuccessHasItsAttempt'
  BY <1>2, <1>3 DEF SuccessHasItsAttempt
<1>9. SucceededIsSettled'
  BY <1>2, <1>3 DEF SucceededIsSettled
<1>10. NoPageLost'
  <2>1. ASSUME NEW a \in attemptLog', a.status = "MORE"
        PROVE  NextPage[a.slice] # NoSlice /\ slice'[NextPage[a.slice]] # "ABSENT"
    <3>1. a \in attemptLog /\ NextPage[a.slice] \in Slices \cup {NoSlice}
      BY <1>1, <1>2, <2>1 DEF TypeOK, Attempt
    <3>2. NextPage[a.slice] # NoSlice /\ slice[NextPage[a.slice]] # "ABSENT"
      BY <2>1, <3>1 DEF NoPageLost
    <3>. QED
      BY <1>3, <3>1, <3>2
  <2>. QED
    BY <2>1 DEF NoPageLost
<1>11. PublishedIsSettled'
  BY <1>2, <1>3 DEF PublishedIsSettled, DoneSlice
<1>. QED
  BY <1>1, <1>4, <1>5, <1>6, <1>7, <1>8, <1>9, <1>10, <1>11

LEMMA CommitInv ==
  ASSUME QueueInv, NEW w \in Workers, CommitPage(w)
  PROVE  QueueInv'
<1>. USE DEF QueueInv
<1>1. TypeOK'
  BY CommitType
<1>2. /\ wk[w].pc = "counted" /\ wk' = [wk EXCEPT ![w] = Idle]
      /\ slice' = SliceAfterPage(w, wk[w].more)
      /\ UNCHANGED <<lease, attempts, op>>
  BY DEF CommitPage
<1>3. wk[w].slice \in Slices /\ TaskAt(w) \in Tasks
  BY <1>2 DEF TypeOK, TaskAt
<1>4. ASSUME NEW s \in Slices
      PROVE  \/ slice'[s] = slice[s]
             \/ s = wk[w].slice /\ HoldsLease(w) /\ slice[s] = "RUNNING" /\ slice'[s] = "SUCCEEDED"
             \/ slice[s] = "ABSENT" /\ slice'[s] = "PENDING"
  BY <1>2 DEF SliceAfterPage, HoldsLease
<1>5. HoldsLease(w) => slice'[wk[w].slice] = "SUCCEEDED"
  BY <1>2, <1>3 DEF SliceAfterPage
<1>6. PICK status \in {"LAST", "MORE"} :
        /\ attemptLog' = attemptLog \cup {[slice |-> wk[w].slice, no |-> wk[w].att, status |-> status]}
        /\ status = "MORE" => wk[w].more
  BY DEF CommitPage, LogAttempt
\* The task turns SUCCEEDED, or is published, on a count of zero only.
<1>7. \/ /\ \A t \in Tasks : task'[t] = "SUCCEEDED" => task[t] = "SUCCEEDED"
         /\ published' = published
      \/ /\ ~wk[w].left
         /\ \A t \in Tasks : task'[t] = "SUCCEEDED" => task[t] = "SUCCEEDED" \/ t = TaskAt(w)
         /\ published' = published \cup {TaskAt(w)}
  <2>1. \/ task' = task \/ task' = [task EXCEPT ![TaskAt(w)] = "RUNNING"]
        \/ task' = [task EXCEPT ![TaskAt(w)] = "SUCCEEDED"] /\ ~wk[w].left
           /\ published' = published \cup {TaskAt(w)}
    BY DEF CommitPage, FinalizeTask, TaskKept, TaskSetTo
  <2>2. \/ published' = published
        \/ ~wk[w].left /\ published' = published \cup {TaskAt(w)}
    BY DEF CommitPage, FinalizeTask
  <2>. QED
    BY <1>3, <2>1, <2>2 DEF TypeOK
\* With no slice left, every slice of the task is over or a page added since.
<1>8. ASSUME ~wk[w].left, NEW s \in Slices, TaskOf[s] = TaskAt(w)
      PROVE  \/ slice'[s] \in DoneSlice
             \/ s \notin Planned /\ slice'[s] \in {"ABSENT", "PENDING"}
  <2>1. \/ slice[s] \in DoneSlice
        \/ s = wk[w].slice /\ HoldsLease(w)
        \/ s \notin Planned /\ slice[s] \in {"ABSENT", "PENDING"}
    BY <1>2, <1>8 DEF Counts, SlicesOf
  <2>2. \/ slice'[s] = slice[s]
        \/ s = wk[w].slice /\ HoldsLease(w) /\ slice[s] = "RUNNING" /\ slice'[s] = "SUCCEEDED"
        \/ slice[s] = "ABSENT" /\ slice'[s] = "PENDING"
    BY <1>4
  <2>. QED
    BY <1>5, <2>1, <2>2 DEF DoneSlice
<1>9. Tokens'
  BY <1>2, <1>4, IdleTokens
<1>10. LockedRows'
  BY <1>2, <1>4 DEF LockedRows, WaitingSlice
<1>11. Counts'
  <2>1. SUFFICES ASSUME NEW v \in Workers, wk'[v].pc = "counted" PROVE Counts!(v)'
    BY DEF Counts
  <2>2. v # w /\ wk'[v] = wk[v] /\ wk[v].slice \in Slices
    BY <1>2, <2>1 DEF TypeOK, Idle
  <2>3. HoldsLease(v) => HoldsLease(v)'
    <3>1. ~(HoldsLease(w) /\ HoldsLease(v) /\ wk[v].slice = wk[w].slice)
      BY <1>2, <2>1, <2>2 DEF HoldsLease, Tokens
    <3>. QED
      BY <1>2, <1>4, <2>2, <3>1 DEF HoldsLease
  <2>4. ASSUME ~wk[v].left, NEW s \in SlicesOf(TaskAt(v))
        PROVE  \/ slice'[s] \in DoneSlice
               \/ s = wk[v].slice /\ HoldsLease(v)'
               \/ s \notin Planned /\ slice'[s] \in {"ABSENT", "PENDING"}
    <3>1. s \in Slices
      BY DEF SlicesOf
    <3>2. \/ slice[s] \in DoneSlice
          \/ s = wk[v].slice /\ HoldsLease(v)
          \/ s \notin Planned /\ slice[s] \in {"ABSENT", "PENDING"}
      BY <2>1, <2>2, <2>4 DEF Counts
    <3>. QED
      BY <1>4, <2>3, <3>1, <3>2 DEF DoneSlice
  <2>. QED
    BY <2>1, <2>2, <2>4 DEF Counts, TaskAt, SlicesOf
<1>12. PlannedExist'
  BY <1>4 DEF PlannedExist
<1>13. SuccessHasItsAttempt'
  <2>1. SUFFICES ASSUME NEW s \in Slices, slice'[s] = "SUCCEEDED"
                 PROVE  \E a \in attemptLog' : /\ a.slice = s /\ a.no = attempts[s]
                                              /\ a.status \in {"LAST", "MORE"}
    BY <1>2 DEF SuccessHasItsAttempt
  <2>2. CASE slice[s] = "SUCCEEDED"
    BY <1>6, <2>2 DEF SuccessHasItsAttempt
  <2>3. CASE s = wk[w].slice /\ HoldsLease(w) /\ slice[s] = "RUNNING"
    <3>1. wk[w].att = attempts[s]
      BY <1>2, <2>3 DEF Tokens, HoldsLease
    <3>. DEFINE a == [slice |-> wk[w].slice, no |-> wk[w].att, status |-> status]
    <3>2. a \in attemptLog' /\ a.slice = s /\ a.no = attempts[s] /\ a.status \in {"LAST", "MORE"}
      BY <1>6, <2>3, <3>1
    <3>. QED
      BY <3>2
  <2>. QED
    BY <1>4, <2>1, <2>2, <2>3
<1>14. SucceededIsSettled'
  <2>1. SUFFICES ASSUME NEW s \in Slices, task'[TaskOf[s]] = "SUCCEEDED"
                 PROVE  slice'[s] \notin {"RUNNING", "RETRY_WAIT", "FAILED"}
    BY DEF SucceededIsSettled
  <2>2. CASE task[TaskOf[s]] = "SUCCEEDED"
    BY <1>4, <2>2 DEF SucceededIsSettled
  <2>3. CASE ~wk[w].left /\ TaskOf[s] = TaskAt(w)
    BY <1>8, <2>3 DEF DoneSlice
  <2>. QED
    BY <1>7, <2>1, <2>2, <2>3
<1>15. NoPageLost'
  <2>1. ASSUME NEW a \in attemptLog', a.status = "MORE"
        PROVE  NextPage[a.slice] # NoSlice /\ slice'[NextPage[a.slice]] # "ABSENT"
    <3>1. CASE a \in attemptLog
      <4>1. NextPage[a.slice] \in Slices \cup {NoSlice}
        BY <3>1 DEF TypeOK, Attempt
      <4>2. NextPage[a.slice] # NoSlice /\ slice[NextPage[a.slice]] # "ABSENT"
        BY <2>1, <3>1 DEF NoPageLost
      <4>. QED
        BY <1>4, <4>1, <4>2
    <3>2. CASE a = [slice |-> wk[w].slice, no |-> wk[w].att, status |-> "MORE"] /\ wk[w].more
      <4>1. a.slice = wk[w].slice /\ NextPage[wk[w].slice] # NoSlice
        BY <1>2, <3>2 DEF Counts
      <4>2. NextPage[wk[w].slice] \in Slices
        BY <1>3, <4>1
      <4>. QED
        BY <1>2, <3>2, <4>1, <4>2 DEF SliceAfterPage
    <3>. QED
      BY <1>6, <2>1, <3>1, <3>2
  <2>. QED
    BY <2>1 DEF NoPageLost
<1>16. PublishedIsSettled'
  <2>1. SUFFICES ASSUME NEW s \in Planned, TaskOf[s] \in published' PROVE slice'[s] \in DoneSlice
    BY DEF PublishedIsSettled
  <2>2. CASE TaskOf[s] \in published
    BY <1>4, <2>2 DEF PublishedIsSettled, DoneSlice
  <2>3. CASE ~wk[w].left /\ TaskOf[s] = TaskAt(w)
    BY <1>8, <2>3
  <2>. QED
    BY <1>7, <2>1, <2>2, <2>3
<1>. QED
  BY <1>1, <1>9, <1>10, <1>11, <1>12, <1>13, <1>14, <1>15, <1>16

\* Steps that leave every worker, and all the worker steps write, alone.
LEMMA OperatorInv ==
  ASSUME QueueInv, NEW o \in Operators, OperatorStep(o)
  PROVE  QueueInv'
<1>. USE DEF QueueInv
<1>1. TypeOK'
  BY OperatorType
<1>2. ASSUME NEW kind \in {"pause", "resume", "cancel", "retry"}, NEW t \in Tasks, OpRead(o, kind, t)
      PROVE  QueueInv'
  <2>1. UNCHANGED <<rows, wk>> /\ op'[o].slices = {} /\ \A p \in Operators \ {o} : op'[p] = op[p]
    BY <1>2 DEF OpRead, TypeOK, Quiet
  <2>2. LockedRows'
    BY <2>1 DEF LockedRows, rows
  <2>3. Tokens' /\ Counts' /\ PlannedExist' /\ SuccessHasItsAttempt' /\ SucceededIsSettled'
        /\ NoPageLost' /\ PublishedIsSettled'
    BY <2>1 DEF rows, Tokens, Counts, PlannedExist, SuccessHasItsAttempt, SucceededIsSettled,
                NoPageLost, PublishedIsSettled, HoldsLease, TaskAt
  <2>. QED
    BY <1>1, <2>2, <2>3
<1>3. CASE OpWriteSlices(o)
  <2>1. UNCHANGED <<rows, wk>> /\ \A p \in Operators \ {o} : op'[p] = op[p]
    BY <1>3 DEF OpWriteSlices, TypeOK
  <2>2. /\ op'[o].slices \subseteq TargetSlices(op[o].kind, op[o].task)
        /\ op'[o].slices # {} => op'[o].kind = op[o].kind /\ op'[o].task = op[o].task
    <3>1. op[o] \in Request
      BY DEF TypeOK
    <3>2. CASE op' = [op EXCEPT ![o] = Quiet]
      BY <3>2 DEF TypeOK, Quiet
    <3>3. CASE op' = [op EXCEPT ![o].pc = "written", ![o].slices = TargetSlices(op[o].kind, op[o].task)]
      <4>1. op'[o] = [op[o] EXCEPT !.pc = "written", !.slices = TargetSlices(op[o].kind, op[o].task)]
        BY <3>3 DEF TypeOK
      <4>. QED
        BY <3>1, <4>1 DEF Request
    <3>. QED
      BY <1>3, <3>2, <3>3 DEF OpWriteSlices
  <2>3. \A p \in Operators \ {o} : op[p].slices \cap TargetSlices(op[o].kind, op[o].task) = {}
    BY <1>3 DEF OpWriteSlices
  <2>4. LockedRows'
    <3>1. ASSUME NEW s \in op'[o].slices
          PROVE  /\ TaskOf[s] = op'[o].task
                 /\ \/ op'[o].kind = "cancel" /\ slice[s] \in WaitingSlice
                    \/ op'[o].kind = "retry" /\ slice[s] = "FAILED"
      BY <2>2, <3>1 DEF TargetSlices, SlicesOf
    <3>2. \A p, q \in Operators : p # q => op'[p].slices \cap op'[q].slices = {}
      BY <2>1, <2>2, <2>3 DEF LockedRows
    <3>. QED
      BY <2>1, <3>1, <3>2 DEF LockedRows, rows
  <2>5. Tokens' /\ Counts' /\ PlannedExist' /\ SuccessHasItsAttempt' /\ SucceededIsSettled'
        /\ NoPageLost' /\ PublishedIsSettled'
    BY <2>1 DEF rows, Tokens, Counts, PlannedExist, SuccessHasItsAttempt, SucceededIsSettled,
                NoPageLost, PublishedIsSettled, HoldsLease, TaskAt
  <2>. QED
    BY <1>1, <2>4, <2>5
<1>4. CASE OpCommit(o)
  <2>1. /\ UNCHANGED <<lease, attempts, attemptLog, published, wk>>
        /\ slice' = SliceAfterRequest(o)
        /\ task' = [task EXCEPT ![op[o].task] = Target(op[o].kind)]
        /\ op'[o].slices = {} /\ \A p \in Operators \ {o} : op'[p] = op[p]
    BY <1>4 DEF OpCommit, TypeOK, Quiet
  <2>2. ASSUME NEW s \in Slices
        PROVE  \/ s \notin op[o].slices /\ slice'[s] = slice[s]
               \/ /\ s \in op[o].slices /\ TaskOf[s] = op[o].task
                  /\ \/ slice[s] \in WaitingSlice /\ slice'[s] = "CANCELLED"
                     \/ slice[s] = "FAILED" /\ slice'[s] = "PENDING"
    BY <2>1 DEF SliceAfterRequest, LockedRows
  <2>3. Tokens'
    <3>1. \A s \in Slices : slice'[s] = "RUNNING" => slice[s] = "RUNNING"
      BY <2>2
    <3>2. ASSUME NEW v \in Workers, wk[v].pc # "idle", HoldsLease(v)' PROVE HoldsLease(v)
      <4>1. wk[v].slice \in Slices
        BY <3>2 DEF TypeOK
      <4>. QED
        BY <2>1, <3>1, <3>2, <4>1 DEF HoldsLease
    <3>. QED
      BY <2>1, <3>1, <3>2 DEF Tokens
  <2>4. LockedRows'
    BY <2>1, <2>2 DEF LockedRows
  <2>5. Counts'
    <3>1. \A v \in Workers : wk[v].pc # "idle" /\ HoldsLease(v) => HoldsLease(v)'
      BY <2>1, <2>2 DEF HoldsLease, TypeOK, WaitingSlice
    <3>2. ASSUME NEW v \in Workers, wk[v].pc = "counted", ~wk[v].left, NEW s \in SlicesOf(TaskAt(v))
          PROVE  \/ slice'[s] \in DoneSlice
                 \/ s = wk[v].slice /\ HoldsLease(v)'
                 \/ s \notin Planned /\ slice'[s] \in {"ABSENT", "PENDING"}
      <4>1. \/ slice[s] \in DoneSlice
            \/ s = wk[v].slice /\ HoldsLease(v)
            \/ s \notin Planned /\ slice[s] \in {"ABSENT", "PENDING"}
        BY <3>2 DEF Counts
      <4>2. s \in Slices
        BY DEF SlicesOf
      <4>. QED
        BY <2>2, <3>1, <3>2, <4>1, <4>2 DEF DoneSlice, WaitingSlice
    <3>. QED
      BY <2>1, <3>2 DEF Counts, TaskAt, SlicesOf
  <2>6. PlannedExist'
    BY <2>2 DEF PlannedExist
  <2>7. SuccessHasItsAttempt'
    BY <2>1, <2>2 DEF SuccessHasItsAttempt
  <2>8. SucceededIsSettled'
    <3>1. Target(op[o].kind) # "SUCCEEDED"
      BY DEF Target
    <3>2. \A t \in Tasks : task'[t] = "SUCCEEDED" => task[t] = "SUCCEEDED" /\ t # op[o].task
      BY <2>1, <3>1 DEF TypeOK
    <3>. QED
      BY <2>2, <3>2 DEF SucceededIsSettled
  <2>9. NoPageLost'
    <3>1. ASSUME NEW a \in attemptLog, a.status = "MORE"
          PROVE  NextPage[a.slice] # NoSlice /\ slice'[NextPage[a.slice]] # "ABSENT"
      <4>1. NextPage[a.slice] \in Slices \cup {NoSlice}
        BY DEF TypeOK, Attempt
      <4>. QED
        BY <2>2, <3>1, <4>1 DEF NoPageLost
    <3>. QED
      BY <2>1, <3>1 DEF NoPageLost
  <2>10. PublishedIsSettled'
    BY <2>1, <2>2 DEF PublishedIsSettled, DoneSlice, WaitingSlice
  <2>. QED
    BY <1>1, <2>3, <2>4, <2>5, <2>6, <2>7, <2>8, <2>9, <2>10
<1>. QED
  BY <1>2, <1>3, <1>4 DEF OperatorStep

LEMMA UnchangedInv ==
  ASSUME QueueInv, UNCHANGED <<task, slice, lease, attempts, attemptLog, published, wk, op>>, TypeOK'
  PROVE  QueueInv'
BY DEF QueueInv, Tokens, LockedRows, Counts, PlannedExist, SuccessHasItsAttempt,
       SucceededIsSettled, NoPageLost, PublishedIsSettled, HoldsLease, TaskAt

LEMMA InvInit == Init => QueueInv
<1>. SUFFICES ASSUME Init PROVE QueueInv
  OBVIOUS
<1>1. \A w \in Workers : wk[w].pc = "idle"
  BY DEF Init, Idle
<1>2. \A o \in Operators : op[o].slices = {}
  BY DEF Init, Quiet
<1>3. \A s \in Slices : slice[s] \in {"PENDING", "ABSENT"}
  BY DEF Init
<1>4. Tokens /\ LockedRows /\ Counts
  BY <1>1, <1>2, <1>3 DEF Tokens, LockedRows, Counts
<1>5. PlannedExist /\ SuccessHasItsAttempt /\ SucceededIsSettled /\ NoPageLost /\ PublishedIsSettled
  BY <1>3 DEF Init, PlannedExist, SuccessHasItsAttempt, SucceededIsSettled, NoPageLost,
              PublishedIsSettled
<1>. QED
  BY <1>4, <1>5, TypeInit DEF QueueInv

LEMMA InvStep == QueueInv /\ [Next]_vars => QueueInv'
<1>. SUFFICES ASSUME QueueInv, [Next]_vars PROVE QueueInv'
  OBVIOUS
<1>1. TypeOK'
  BY TypeStep DEF QueueInv
<1>2. ASSUME NEW w \in Workers, WorkerStep(w) \/ Crash(w) PROVE QueueInv'
  BY <1>2, PollInv, MemoryInv, CommitInv, FailureInv DEF WorkerStep, Outcome
<1>3. ASSUME NEW o \in Operators, OperatorStep(o) PROVE QueueInv'
  BY <1>3, OperatorInv
<1>4. CASE \/ \E s \in Slices : LeaseExpires(s) \/ RetryDue(s)
           \/ \E b \in Bindings, answer \in ProbeAnswers : ProbeBinding(b, answer)
  <2>1. UNCHANGED <<task, slice, lease, attempts, attemptLog, published, wk, op>>
    BY <1>4 DEF LeaseExpires, RetryDue, ProbeBinding
  <2>. QED
    BY <1>1, <2>1, UnchangedInv
<1>5. CASE UNCHANGED vars
  BY <1>1, <1>5, UnchangedInv DEF vars, rows
<1>. QED
  BY <1>2, <1>3, <1>4, <1>5 DEF Next

-----------------------------------------------------------------------------
(* What a step may never do.                                               *)

LEMMA DoneStep ==
  ASSUME QueueInv, [Next]_vars
  PROVE  \A s \in Slices : slice[s] \in DoneSlice => slice'[s] = slice[s]
<1>. USE DEF QueueInv, DoneSlice
<1>. SUFFICES ASSUME NEW s \in Slices, slice[s] \in DoneSlice PROVE slice'[s] = slice[s]
  OBVIOUS
<1>1. ASSUME NEW w \in Workers, Poll(w) PROVE slice'[s] = slice[s]
  BY <1>1, PollEffect DEF Recoverable, WaitingSlice
<1>2. ASSUME NEW w \in Workers,
             \/ Load(w) \/ NumberRun(w) \/ OpenAttempt(w) \/ Raise(w) \/ Crash(w)
             \/ \E more \in BOOLEAN : CountSlices(w, more)
      PROVE  slice'[s] = slice[s]
  BY <1>2 DEF Load, NumberRun, OpenAttempt, Raise, Crash, CountSlices, rows
<1>3. ASSUME NEW w \in Workers, CommitPage(w) PROVE slice'[s] = slice[s]
  BY <1>3 DEF CommitPage, SliceAfterPage, HoldsLease
<1>4. ASSUME NEW w \in Workers,
             \/ FailRetryable(w) \/ FailClaim(w)
             \/ \E blocks \in BOOLEAN : FailFinal(w, blocks)
      PROVE  slice'[s] = slice[s]
  BY <1>4, FailureEffect DEF HoldsLease
<1>5. ASSUME NEW o \in Operators, OperatorStep(o) PROVE slice'[s] = slice[s]
  <2>1. s \notin op[o].slices
    BY DEF LockedRows, WaitingSlice
  <2>. QED
    BY <1>5, <2>1 DEF OperatorStep, OpRead, OpWriteSlices, OpCommit, SliceAfterRequest, rows
<1>6. CASE \/ \E u \in Slices : LeaseExpires(u) \/ RetryDue(u)
           \/ \E b \in Bindings, answer \in ProbeAnswers : ProbeBinding(b, answer)
           \/ UNCHANGED vars
  BY <1>6 DEF LeaseExpires, RetryDue, ProbeBinding, vars, rows
<1>. QED
  BY <1>1, <1>2, <1>3, <1>4, <1>5, <1>6 DEF Next, WorkerStep, Outcome

\* How a slice may leave the claim it is RUNNING under.
ClaimEnded(s) ==
  \/ /\ s \in expired
     /\ slice'[s] = "RETRY_WAIT" \/ attempts'[s] = attempts[s] + 1
  \/ \E w \in Workers : Owns(w, s) /\ wk'[w].pc = "idle"

LEMMA ClaimStep ==
  ASSUME QueueInv, [Next]_vars, NEW s \in Slices,
         slice[s] = "RUNNING", slice'[s] # "RUNNING" \/ lease'[s] # lease[s]
  PROVE  ClaimEnded(s)
<1>. USE DEF QueueInv
<1>1. ASSUME NEW w \in Workers, Poll(w) PROVE ClaimEnded(s)
  <2>1. s \in Recoverable
    BY <1>1, PollEffect
  <2>. QED
    BY <1>1, <2>1, PollEffect DEF Recoverable, ClaimEnded
<1>2. ASSUME NEW w \in Workers, wk[w].pc # "idle", wk' = [wk EXCEPT ![w] = Idle],
             s = wk[w].slice, HoldsLease(w)
      PROVE  ClaimEnded(s)
  BY <1>2 DEF ClaimEnded, Owns, TypeOK, Idle
<1>3. ASSUME NEW w \in Workers, CommitPage(w) PROVE ClaimEnded(s)
  <2>1. s = wk[w].slice /\ HoldsLease(w)
    BY <1>3 DEF CommitPage, SliceAfterPage
  <2>. QED
    BY <1>2, <1>3, <2>1 DEF CommitPage
<1>4. ASSUME NEW w \in Workers,
             \/ FailRetryable(w) \/ FailClaim(w)
             \/ \E blocks \in BOOLEAN : FailFinal(w, blocks)
      PROVE  ClaimEnded(s)
  <2>1. s = wk[w].slice /\ HoldsLease(w)
    BY <1>4, FailureEffect
  <2>. QED
    BY <1>2, <1>4, <2>1, FailureEffect
<1>5. ASSUME NEW o \in Operators, OperatorStep(o) PROVE FALSE
  <2>1. s \notin op[o].slices
    BY DEF LockedRows, WaitingSlice
  <2>. QED
    BY <1>5, <2>1 DEF OperatorStep, OpRead, OpWriteSlices, OpCommit, SliceAfterRequest, rows
<1>6. CASE UNCHANGED <<slice, lease>>
  BY <1>6
<1>. QED
  BY <1>1, <1>3, <1>4, <1>5, <1>6
     DEF Next, WorkerStep, Outcome, Load, NumberRun, OpenAttempt, Raise, Crash, CountSlices,
         LeaseExpires, RetryDue, ProbeBinding, vars, rows

-----------------------------------------------------------------------------
\* The inductive invariant holds of every behaviour.
THEOREM QueueInvariant == Spec => []QueueInv
<1>. QED
  BY InvInit, InvStep, PTL DEF Spec

\* At most one worker acts under the lease of a slice, however leases expire,
\* workers crash and slices are claimed again.
THEOREM LeaseIsExclusive == Spec => []SingleOwner
<1>1. QueueInv => SingleOwner
  BY DEF QueueInv, Tokens, SingleOwner, Owns, HoldsLease
<1>. QED
  BY <1>1, QueueInvariant, PTL

\* A SUCCEEDED slice has the successful attempt of its last claim.
THEOREM SuccessIsEvidenced == Spec => []SuccessHasItsAttempt
<1>1. QueueInv => SuccessHasItsAttempt
  BY DEF QueueInv
<1>. QED
  BY <1>1, QueueInvariant, PTL

\* A SUCCEEDED task has no slice at work, waiting for a retry or failed.
THEOREM SuccessIsSettled == Spec => []SucceededIsSettled
<1>1. QueueInv => SucceededIsSettled
  BY DEF QueueInv
<1>. QED
  BY <1>1, QueueInvariant, PTL

\* No recorded full page lacks the slice that continues it.
THEOREM PagesAreContinued == Spec => []NoPageLost
<1>1. QueueInv => NoPageLost
  BY DEF QueueInv
<1>. QED
  BY <1>1, QueueInvariant, PTL

\* The watermark moves only for tasks whose planned slices are over.
THEOREM PublishedAreSettled == Spec => []PublishedIsSettled
<1>1. QueueInv => PublishedIsSettled
  BY DEF QueueInv
<1>. QED
  BY <1>1, QueueInvariant, PTL

\* SUCCEEDED and CANCELLED are final for a slice.
THEOREM DoneStaysDone == Spec => DoneIsFinal
<1>1. QueueInv /\ [Next]_vars =>
        [\A s \in Slices : slice[s] \in DoneSlice => slice'[s] = slice[s]]_slice
  BY DoneStep
<1>. QED
  BY <1>1, QueueInvariant, PTL DEF Spec, DoneIsFinal

\* A claim ends by the worker that holds its lease, or by its expiry.
THEOREM ClaimsEndProperly == Spec => ClaimEnds
<1>1. QueueInv /\ [Next]_vars =>
        [\A s \in Slices :
           slice[s] = "RUNNING" /\ (slice'[s] # "RUNNING" \/ lease'[s] # lease[s]) =>
             \/ s \in expired /\ (slice'[s] = "RETRY_WAIT" \/ attempts'[s] = attempts[s] + 1)
             \/ \E w \in Workers : Owns(w, s) /\ wk'[w].pc = "idle"]_vars
  BY ClaimStep DEF ClaimEnded
<1>. QED
  BY <1>1, QueueInvariant, PTL DEF Spec, ClaimEnds
=============================================================================
