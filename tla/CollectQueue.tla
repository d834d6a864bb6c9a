---------------------------- MODULE CollectQueue ----------------------------
(***************************************************************************)
(* The lease queue of app/collect: the rows of ops.collect_task,           *)
(* ops.request_slice, ops.collect_run and ops.slice_attempt, the worker    *)
(* loop that claims, executes and recovers slices, and the operator        *)
(* actions of app/ops/service.py, all on one PostgreSQL database at READ   *)
(* COMMITTED with SQLAlchemy sessions that do not autoflush.               *)
(*                                                                         *)
(* A worker runs one slice through several transactions: recover + claim   *)
(* (Poll), the execution transaction (Load, NumberRun, OpenAttempt and one *)
(* of the outcomes, which commits), and, after an exception, a separate    *)
(* failure transaction (FailClaim).  The execution transaction is split at *)
(* the points where another actor's commit changes what it sees: it reads  *)
(* the task once and decides on that copy after the provider has answered. *)
(*                                                                         *)
(* SQLAlchemy writes a column only when it differs from the value the      *)
(* session loaded, so every status the code assigns is written under       *)
(* "differs from the copy" here, and the row lock of an UPDATE that was    *)
(* flushed early is held until the transaction ends.                       *)
(***************************************************************************)
EXTENDS Integers, Sequences, FiniteSets

CONSTANTS
  Workers,      \* worker ids (QUANTSTOCK1_WORKER_ID)
  Operators,    \* concurrent requests of the operations API
  Tasks,        \* collect tasks, all of stage COLLECT
  Slices,       \* request slices, planned ones and later pages
  Bindings,     \* source bindings
  TaskOf,       \* request_slice.task_id
  BindingOf,    \* collect_task.source_binding_id
  Planned,      \* the slices the planner creates with the task
  NextPage,     \* the slice a full page continues in, or NoSlice
  Rank,         \* (priority, slice_order)
  MaxAttempts,  \* binding.config.retry_max_attempts
  ClaimBound,   \* bound of the model: claims of one slice
  ProbeAnswers, \* bound of the model: what a probe may find
  NoSlice, NoTask, NoWorker

ASSUME QueueConstants ==
  /\ NoSlice \notin Slices /\ NoTask \notin Tasks /\ NoWorker \notin Workers
  /\ TaskOf \in [Slices -> Tasks]
  /\ BindingOf \in [Tasks -> Bindings]
  /\ Planned \subseteq Slices
  /\ NextPage \in [Slices -> Slices \cup {NoSlice}]
  /\ Rank \in [Slices -> Int]
  /\ MaxAttempts \in Nat /\ ClaimBound \in Nat
  /\ ProbeAnswers \subseteq {"unknown", "available", "blocked"}

VARIABLES
  task,         \* collect_task.status
  slice,        \* request_slice.status, or "ABSENT"
  lease,        \* request_slice.lease_token, 0 for NULL
  leasedBy,     \* request_slice.leased_by
  attempts,     \* request_slice.attempt_count
  expired,      \* slices with lease_expires_at <= now
  cooling,      \* slices with next_retry_at > now
  runs,         \* collect_run rows of a task, by run_number
  attemptLog,   \* committed slice_attempt rows
  capability,   \* source_binding.capability_status
  published,    \* tasks whose completion moved the watermark and queued cleaning
  wk,           \* what each worker process holds in memory
  op            \* what each operator request holds in memory

rows    == <<task, slice, lease, leasedBy, attempts, expired, cooling,
             runs, attemptLog, capability, published>>
vars    == <<rows, wk, op>>

(***************************************************************************)
(* Statuses.  A lease token is a fresh uuid4 for each claim and            *)
(* attempt_count counts the claims, so the token of a claim is modelled by *)
(* the number of the claim.                                                *)
(***************************************************************************)
TaskStatus  == {"PENDING", "RUNNING", "PARTIAL", "PAUSED",
                "SUCCEEDED", "FAILED", "CANCELLED"}
SliceStatus == {"PENDING", "RUNNING", "RETRY_WAIT",
                "SUCCEEDED", "FAILED", "CANCELLED"}
RunStatus   == {"RUNNING", "SUCCEEDED", "FAILED", "CANCELLED", "LOST"}
\* "LAST" and "MORE" are SUCCEEDED attempts; "MORE" had a full page.
AttemptStatus == {"LAST", "MORE", "FAILED"}

\* "unknown" stands for every status that neither is "available" nor blocks
\* claims (unknown, rate_limited, provider_error); "blocked" for
\* permission_denied, schema_changed and temporarily_unavailable.
Capability == {"unknown", "available", "blocked"}

Run     == [status : RunStatus, worker : Workers]
Attempt == [slice : Slices, no : Nat, status : AttemptStatus]

ClaimableTask  == {"PENDING", "RUNNING", "PARTIAL"}
WaitingSlice   == {"PENDING", "RETRY_WAIT"}
DoneSlice      == {"SUCCEEDED", "CANCELLED"}

\* A worker between slices.
Idle == [pc |-> "idle", slice |-> NoSlice, tok |-> 0, att |-> 0,
         seen |-> "PENDING", cap |-> "unknown", run |-> 0, fresh |-> FALSE,
         more |-> FALSE, left |-> FALSE]
\* An operations request that is not running.
Quiet == [pc |-> "idle", kind |-> "pause", task |-> NoTask, slices |-> {}]

Worker == [pc : {"idle", "claimed", "numbering", "opening", "executing",
                 "counted", "failing"},
           slice : Slices \cup {NoSlice}, tok : Nat, att : Nat,
           seen : TaskStatus, cap : Capability,
           run : Nat, fresh : BOOLEAN, more : BOOLEAN, left : BOOLEAN]
Request == [pc : {"idle", "read", "written"},
            kind : {"pause", "resume", "cancel", "retry"},
            task : Tasks \cup {NoTask}, slices : SUBSET Slices]

TypeOK ==
  /\ task \in [Tasks -> TaskStatus]
  /\ slice \in [Slices -> SliceStatus \cup {"ABSENT"}]
  /\ lease \in [Slices -> Nat]
  /\ leasedBy \in [Slices -> Workers \cup {NoWorker}]
  /\ attempts \in [Slices -> Nat]
  /\ expired \subseteq Slices /\ cooling \subseteq Slices
  /\ runs \in [Tasks -> Seq(Run)]
  /\ attemptLog \subseteq Attempt
  /\ capability \in [Bindings -> Capability]
  /\ published \subseteq Tasks
  /\ wk \in [Workers -> Worker]
  /\ \A w \in Workers : wk[w].pc # "idle" => wk[w].slice \in Slices
  /\ op \in [Operators -> Request]
  /\ \A o \in Operators : op[o].pc # "idle" => op[o].task \in Tasks

Init ==
  /\ task = [t \in Tasks |-> "PENDING"]
  /\ slice = [s \in Slices |-> IF s \in Planned THEN "PENDING" ELSE "ABSENT"]
  /\ lease = [s \in Slices |-> 0]
  /\ leasedBy = [s \in Slices |-> NoWorker]
  /\ attempts = [s \in Slices |-> 0]
  /\ expired = {} /\ cooling = {}
  /\ runs = [t \in Tasks |-> <<>>]
  /\ attemptLog = {}
  /\ capability = [b \in Bindings |-> "unknown"]
  /\ published = {}
  /\ wk = [w \in Workers |-> Idle]
  /\ op = [o \in Operators |-> Quiet]

-----------------------------------------------------------------------------
(***************************************************************************)
(* Row locks other transactions hold.                                      *)
(***************************************************************************)
SlicesOf(t) == {s \in Slices : TaskOf[s] = t}
TaskAt(w)    == TaskOf[wk[w].slice]
\* The execution transaction is open and has written.
Executing(w) == wk[w].pc \in {"executing", "counted"}

\* A new run flushes task.status = "RUNNING", an UPDATE unless the copy says so.
HoldsTaskRow(w) == Executing(w) /\ wk[w].fresh /\ wk[w].seen # "RUNNING"
TaskRowFree(t)  == \A v \in Workers : HoldsTaskRow(v) => TaskAt(v) # t
TaskRowFreeFor(w, t) == \A v \in Workers \ {w} : HoldsTaskRow(v) => TaskAt(v) # t

\* A run that was found is flushed with its new heartbeat_at.
RunRowFree(t, n) ==
  \A v \in Workers : Executing(v) /\ ~wk[v].fresh /\ TaskAt(v) = t => wk[v].run # n

\* The slice_attempt row references slice and binding: FOR KEY SHARE on both,
\* which FOR UPDATE SKIP LOCKED skips.  A cancel or retry updated its slices.
UnclaimedRow(s) == \A v \in Workers : Executing(v) => wk[v].slice # s \* mutant: forgets operators
SliceRowFree(s) ==
  /\ \A v \in Workers : Executing(v) => wk[v].slice # s
  /\ \A o \in Operators : s \notin op[o].slices
BindingRowFree(b) ==
  \A v \in Workers : Executing(v) => BindingOf[TaskAt(v)] # b

\* The lease the worker was given is still the one in the row.
SliceRuns(w) == slice[wk[w].slice] = "RUNNING" \* mutant: no token compared
HoldsLease(w) ==
  /\ slice[wk[w].slice] = "RUNNING"
  /\ lease[wk[w].slice] = wk[w].tok

\* RUNNING runs of a task and the highest of a set of run numbers, 0 if none.
RunningRuns(t) == {n \in DOMAIN runs[t] : runs[t][n].status = "RUNNING"}
RunningRunsOf(t, w) == {n \in RunningRuns(t) : runs[t][n].worker = w}
IsHighest(n, S) == n \in S /\ \A m \in S : m <= n
Highest(S) == IF \E n \in S : IsHighest(n, S) THEN CHOOSE n \in S : IsHighest(n, S) ELSE 0

-----------------------------------------------------------------------------
(***************************************************************************)
(* Transaction A of the worker loop: recover_expired_claims, then          *)
(* claim_next_slice, committed together.                                   *)
(***************************************************************************)
RunsInRunningTask == \* mutant: only slices of RUNNING tasks
  {s \in expired : slice[s] = "RUNNING" /\ SliceRowFree(s) /\ task[TaskOf[s]] = "RUNNING"}
Recoverable ==
  {s \in expired : slice[s] = "RUNNING" /\ SliceRowFree(s)}

TaskAfterRecovery(R) ==
  [t \in Tasks |-> IF \E s \in R : TaskOf[s] = t THEN "PARTIAL" ELSE task[t]]
SliceAfterRecovery(R) ==
  [s \in Slices |-> IF s \in R THEN "RETRY_WAIT" ELSE slice[s]]
LostRun(s) == Highest(RunningRunsOf(TaskOf[s], leasedBy[s]))
RunsAfterRecovery(R) ==
  [t \in Tasks |-> [n \in DOMAIN runs[t] |->
     IF \E s \in R : TaskOf[s] = t /\ n = LostRun(s)
     THEN [runs[t][n] EXCEPT !.status = "LOST"] ELSE runs[t][n]]]

\* The slices claim_next_slice selects from, after recovering R.
ReadyIfNew(R) == \* mutant: slices waiting for a retry are forgotten
  {s \in Slices :
     /\ TaskAfterRecovery(R)[TaskOf[s]] \in ClaimableTask
     /\ capability[BindingOf[TaskOf[s]]] # "blocked"
     /\ slice[s] = "PENDING" /\ SliceRowFree(s) /\ BindingRowFree(BindingOf[TaskOf[s]])
     /\ attempts[s] < ClaimBound}
Ready(R) ==
  {s \in Slices :
     /\ TaskAfterRecovery(R)[TaskOf[s]] \in ClaimableTask
     /\ capability[BindingOf[TaskOf[s]]] # "blocked"
     /\ SliceAfterRecovery(R)[s] \in WaitingSlice
     /\ s \notin cooling
     /\ SliceRowFree(s) /\ BindingRowFree(BindingOf[TaskOf[s]])
     /\ attempts[s] < ClaimBound}

SharedToken(s) == 1 \* mutant: a token that several claims share
NewToken(s) == attempts[s] + 1

\* Nothing to claim: the recovery alone is committed.
RecoverOnly(w, R) ==
  /\ R # {} /\ Ready(R) = {}
  /\ slice' = SliceAfterRecovery(R)
  /\ lease' = [s \in Slices |-> IF s \in R THEN 0 ELSE lease[s]]
  /\ leasedBy' = [s \in Slices |-> IF s \in R THEN NoWorker ELSE leasedBy[s]]
  /\ UNCHANGED <<attempts, wk>>

ClaimSlice(w, R, s) ==
  /\ s \in Ready(R) /\ \A u \in Ready(R) : Rank[s] <= Rank[u]
  /\ slice' = [SliceAfterRecovery(R) EXCEPT ![s] = "RUNNING"]
  /\ attempts' = [attempts EXCEPT ![s] = @ + 1]
  /\ lease' = [u \in Slices |-> IF u = s THEN NewToken(s)
                                ELSE IF u \in R THEN 0 ELSE lease[u]]
  /\ leasedBy' = [u \in Slices |-> IF u = s THEN w
                                   ELSE IF u \in R THEN NoWorker ELSE leasedBy[u]]
  /\ wk' = [wk EXCEPT ![w] = [Idle EXCEPT !.pc = "claimed", !.slice = s,
                                          !.tok = NewToken(s)]]

Poll(w) ==
  /\ wk[w].pc = "idle"
  /\ \A s \in Recoverable : TaskRowFree(TaskOf[s]) /\ RunRowFree(TaskOf[s], LostRun(s))
  /\ \/ RecoverOnly(w, Recoverable)
     \/ \E s \in Slices : ClaimSlice(w, Recoverable, s)
  /\ task' = TaskAfterRecovery(Recoverable)
  /\ runs' = RunsAfterRecovery(Recoverable)
  /\ expired' = expired \ Recoverable
  /\ UNCHANGED <<cooling, attemptLog, capability, published, op>>

-----------------------------------------------------------------------------
(***************************************************************************)
(* Transaction C: CollectionExecutor.execute_claimed_slice.                *)
(***************************************************************************)
\* Read slice, task and binding, then look for a RUNNING run of the task.
Load(w) ==
  /\ wk[w].pc = "claimed"
  /\ LET t == TaskAt(w)
         r == Highest(RunningRuns(t))
     IN wk' = [wk EXCEPT ![w].pc = IF r = 0 THEN "numbering" ELSE "opening",
                         ![w].att = attempts[wk[w].slice],
                         ![w].seen = task[t],
                         ![w].cap = capability[BindingOf[t]],
                         ![w].run = r]
  /\ UNCHANGED <<rows, op>>

\* No RUNNING run: a second query takes max(run_number) + 1.
NumberRun(w) ==
  /\ wk[w].pc = "numbering"
  /\ wk' = [wk EXCEPT ![w].pc = "opening", ![w].fresh = TRUE,
                      ![w].run = Len(runs[TaskAt(w)]) + 1]
  /\ UNCHANGED <<rows, op>>

\* The flush waits for an open transaction that updated the run row it
\* updates, or inserted the unique key it inserts.
FlushWaits(w) ==
  \E v \in Workers \ {w} :
    /\ Executing(v)
    /\ \/ /\ ~wk[w].fresh /\ ~wk[v].fresh /\ TaskAt(v) = TaskAt(w)
          /\ wk[v].run = wk[w].run
       \/ /\ wk[w].fresh /\ wk[v].fresh /\ TaskAt(v) = TaskAt(w)
          /\ \/ wk[v].run = wk[w].run
             \/ HoldsTaskRow(v) /\ wk[w].seen # "RUNNING"
       \/ wk[v].slice = wk[w].slice /\ wk[v].att = wk[w].att

UniqueViolation(w) ==
  \/ wk[w].fresh /\ wk[w].run \in DOMAIN runs[TaskAt(w)]
  \/ \E a \in attemptLog : a.slice = wk[w].slice /\ a.no = wk[w].att

\* Flush the run (with task.status) and the slice_attempt row, both uncommitted.
OpenAttempt(w) ==
  /\ wk[w].pc = "opening"
  /\ ~FlushWaits(w)
  /\ wk' = [wk EXCEPT ![w].pc = IF UniqueViolation(w) THEN "failing" ELSE "executing"]
  /\ UNCHANGED <<rows, op>>

\* Any other exception in the transaction: rolled back before FailClaim.
Raise(w) ==
  /\ wk[w].pc \in {"claimed", "numbering", "opening", "executing", "counted"}
  /\ wk' = [wk EXCEPT ![w].pc = "failing"]
  /\ UNCHANGED <<rows, op>>

(***************************************************************************)
(* The outcomes of the provider call, each ending in COMMIT.  Current is   *)
(* task.status in the session; the UPDATE of the task row carries a status *)
(* only if it differs from what was loaded or flushed before.              *)
(***************************************************************************)
Current(w) == IF wk[w].fresh THEN "RUNNING" ELSE wk[w].seen

TaskKept(w) ==
  IF HoldsTaskRow(w) THEN [task EXCEPT ![TaskAt(w)] = "RUNNING"] ELSE task
TaskSetTo(w, status) ==
  IF Current(w) = status THEN TaskKept(w) ELSE [task EXCEPT ![TaskAt(w)] = status]

RunKept(w) ==
  IF wk[w].fresh
  THEN [runs EXCEPT ![TaskAt(w)] = Append(@, [status |-> "RUNNING", worker |-> w])]
  ELSE runs
RunSetTo(w, status) ==
  IF wk[w].fresh
  THEN [runs EXCEPT ![TaskAt(w)] = Append(@, [status |-> status, worker |-> w])]
  ELSE [runs EXCEPT ![TaskAt(w)][wk[w].run].status = status]

LogAttempt(w, status) ==
  attemptLog' = attemptLog \cup
    {[slice |-> wk[w].slice, no |-> wk[w].att, status |-> status]}

\* complete_slice, and _ensure_next_page_slice for a full page.
PageIfOwner(w, more) == \* mutant: the next page is skipped without the lease
  [s \in Slices |->
     IF s = wk[w].slice /\ HoldsLease(w) THEN "SUCCEEDED"
     ELSE IF more /\ HoldsLease(w) /\ s = NextPage[wk[w].slice] /\ slice[s] = "ABSENT"
     THEN "PENDING" ELSE slice[s]]
SliceAfterPage(w, more) ==
  [s \in Slices |->
     IF s = wk[w].slice /\ HoldsLease(w) THEN "SUCCEEDED"
     ELSE IF more /\ s = NextPage[wk[w].slice] /\ slice[s] = "ABSENT" THEN "PENDING"
     ELSE slice[s]]

\* The slices _finalize_task_if_complete counts: what this transaction wrote
\* and what others have committed.
Unstarted(w, more) == \* mutant: counts the slices that have not started
  {s \in SlicesOf(TaskAt(w)) : SliceAfterPage(w, more)[s] = "PENDING"}
Remaining(w, more) ==
  {s \in SlicesOf(TaskAt(w)) :
     SliceAfterPage(w, more)[s] \notin DoneSlice \cup {"ABSENT"}}

\* The provider answered: RAW rows, the next page, the slice and the count of
\* the slices left are written and read here, and committed later.
CountSlices(w, more) ==
  /\ wk[w].pc = "executing"
  /\ more => /\ NextPage[wk[w].slice] # NoSlice
             /\ \A v \in Workers : wk[v].pc = "counted" /\ wk[v].more =>
                                   wk[v].slice # wk[w].slice
  /\ wk' = [wk EXCEPT ![w].pc = "counted", ![w].more = more,
                      ![w].left = Remaining(w, more) # {}]
  /\ UNCHANGED <<rows, op>>

FinalizeTask(w) ==
  \/ /\ Current(w) = "CANCELLED"
     /\ runs' = RunSetTo(w, "CANCELLED") /\ task' = TaskKept(w)
     /\ UNCHANGED published
  \/ /\ Current(w) # "CANCELLED" /\ wk[w].left
     /\ runs' = RunKept(w) /\ task' = TaskKept(w)
     /\ UNCHANGED published
  \/ /\ Current(w) # "CANCELLED" /\ ~wk[w].left
     /\ Current(w) # "SUCCEEDED" => TaskRowFreeFor(w, TaskAt(w))
     /\ runs' = RunSetTo(w, "SUCCEEDED") /\ task' = TaskSetTo(w, "SUCCEEDED")
     /\ published' = published \cup {TaskAt(w)}

CommitPage(w) ==
  /\ wk[w].pc = "counted"
  /\ LogAttempt(w, IF wk[w].more THEN "MORE" ELSE "LAST")
  /\ slice' = SliceAfterPage(w, wk[w].more)
  /\ expired' = IF HoldsLease(w) THEN expired \ {wk[w].slice} ELSE expired
  /\ FinalizeTask(w)
  /\ capability' = IF wk[w].cap = "available" THEN capability
                   ELSE [capability EXCEPT ![BindingOf[TaskAt(w)]] = "available"]
  /\ wk' = [wk EXCEPT ![w] = Idle]
  /\ UNCHANGED <<lease, leasedBy, attempts, cooling, op>>

ReturnAnyway(w, status) == \* mutant: the UPDATE is not fenced by the token
  /\ slice' = [slice EXCEPT ![wk[w].slice] = status]
  /\ lease' = [lease EXCEPT ![wk[w].slice] = 0]
  /\ leasedBy' = [leasedBy EXCEPT ![wk[w].slice] = NoWorker]
  /\ expired' = expired \ {wk[w].slice}
\* release_slice_for_retry and fail_slice: the lease goes with the status.
ReturnSlice(w, status) ==
  LET s == wk[w].slice
  IN IF HoldsLease(w)
     THEN /\ slice' = [slice EXCEPT ![s] = status]
          /\ lease' = [lease EXCEPT ![s] = 0]
          /\ leasedBy' = [leasedBy EXCEPT ![s] = NoWorker]
          /\ expired' = expired \ {s}
     ELSE UNCHANGED <<slice, lease, leasedBy, expired>>

\* _handle_provider_failure, retryable with attempts left.
FailRetryable(w) ==
  /\ wk[w].pc = "executing"
  /\ wk[w].att < MaxAttempts
  /\ TaskRowFreeFor(w, TaskAt(w))
  /\ LogAttempt(w, "FAILED")
  /\ ReturnSlice(w, "RETRY_WAIT")
  /\ cooling' = IF HoldsLease(w) THEN cooling \cup {wk[w].slice} ELSE cooling
  /\ task' = TaskKept(w) /\ runs' = RunKept(w)
  /\ wk' = [wk EXCEPT ![w] = Idle]
  /\ UNCHANGED <<attempts, capability, published, op>>

\* _handle_provider_failure, final: PERMISSION_DENIED, SCHEMA_CHANGED and
\* AUTH_ERROR also block the binding.
FailFinal(w, blocks) ==
  /\ wk[w].pc = "executing"
  /\ TaskRowFreeFor(w, TaskAt(w))
  /\ LogAttempt(w, "FAILED")
  /\ ReturnSlice(w, "FAILED")
  /\ task' = TaskSetTo(w, "FAILED") /\ runs' = RunSetTo(w, "FAILED")
  /\ capability' = IF blocks /\ wk[w].cap # "blocked"
                   THEN [capability EXCEPT ![BindingOf[TaskAt(w)]] = "blocked"]
                   ELSE capability
  /\ wk' = [wk EXCEPT ![w] = Idle]
  /\ UNCHANGED <<attempts, cooling, published, op>>

(***************************************************************************)
(* Transaction D: fail_claim_after_unhandled.  Without the lease it        *)
(* returns before it changes anything.                                     *)
(***************************************************************************)
RunsAfterFailedClaim(w) ==
  LET t == TaskAt(w)
      n == Highest(RunningRunsOf(t, w))
  IN IF n = 0 THEN runs ELSE [runs EXCEPT ![t][n].status = "FAILED"]

FailClaim(w) ==
  /\ wk[w].pc = "failing"
  /\ \/ /\ ~HoldsLease(w)
        /\ UNCHANGED <<slice, lease, leasedBy, expired, task, runs>>
     \/ /\ HoldsLease(w)
        /\ SliceRowFree(wk[w].slice) /\ TaskRowFree(TaskAt(w))
        /\ RunRowFree(TaskAt(w), Highest(RunningRunsOf(TaskAt(w), w)))
        /\ ReturnSlice(w, "FAILED")
        /\ task' = [task EXCEPT ![TaskAt(w)] = "FAILED"]
        /\ runs' = RunsAfterFailedClaim(w)
  /\ wk' = [wk EXCEPT ![w] = Idle]
  /\ UNCHANGED <<attempts, cooling, attemptLog, capability, published, op>>

\* The process dies or is restarted; its open transaction is rolled back.
Crash(w) ==
  /\ wk[w].pc # "idle"
  /\ wk' = [wk EXCEPT ![w] = Idle]
  /\ UNCHANGED <<rows, op>>

-----------------------------------------------------------------------------
(***************************************************************************)
(* Time.  Nothing renews a lease while a slice executes.                   *)
(***************************************************************************)
LeaseExpires(s) ==
  /\ slice[s] = "RUNNING" /\ s \notin expired
  /\ expired' = expired \cup {s}
  /\ UNCHANGED <<task, slice, lease, leasedBy, attempts, cooling, runs,
                 attemptLog, capability, published, wk, op>>

RetryDue(s) ==
  /\ s \in cooling
  /\ cooling' = cooling \ {s}
  /\ UNCHANGED <<task, slice, lease, leasedBy, attempts, expired, runs,
                 attemptLog, capability, published, wk, op>>

(***************************************************************************)
(* The operations API: each request reads the task without a lock, updates *)
(* the slices (cancel, retry), and then writes the status it decided on.   *)
(***************************************************************************)
Admits(kind, status) ==
  CASE kind = "pause"  -> status \in {"PENDING", "RUNNING", "PARTIAL"}
    [] kind = "resume" -> status = "PAUSED"
    [] kind = "cancel" -> status \notin {"SUCCEEDED", "CANCELLED"}
    [] kind = "retry"  -> status \in {"FAILED", "PARTIAL"}

Target(kind) ==
  CASE kind = "pause"  -> "PAUSED"
    [] kind = "cancel" -> "CANCELLED"
    [] OTHER           -> "PENDING"

OpRead(o, kind, t) ==
  /\ op[o].pc = "idle"
  /\ Admits(kind, task[t])
  /\ op' = [op EXCEPT ![o] = [Quiet EXCEPT !.pc = "read", !.kind = kind, !.task = t]]
  /\ UNCHANGED <<rows, wk>>

\* The UPDATE of request_slice: its rows stay locked until the commit.
EverySlice(kind, t) == \* mutant: retry takes every slice that is not at work
  {s \in SlicesOf(t) :
     \/ kind = "cancel" /\ slice[s] \in WaitingSlice
     \/ kind = "retry" /\ slice[s] \in {"FAILED", "SUCCEEDED"}}
WorkingToo(kind, t) == \* mutant: cancel takes the slice a worker is at
  {s \in SlicesOf(t) :
     \/ kind = "cancel" /\ slice[s] \in WaitingSlice \cup {"RUNNING"}
     \/ kind = "retry" /\ slice[s] = "FAILED"}
TargetSlices(kind, t) ==
  {s \in SlicesOf(t) :
     \/ kind = "cancel" /\ slice[s] \in WaitingSlice
     \/ kind = "retry" /\ slice[s] = "FAILED"}

OpWriteSlices(o) ==
  /\ op[o].pc = "read"
  /\ \A p \in Operators \ {o} : op[p].slices \cap TargetSlices(op[o].kind, op[o].task) = {}
  /\ op' = IF op[o].kind = "retry" /\ TargetSlices("retry", op[o].task) = {}
           THEN [op EXCEPT ![o] = Quiet]   \* "task has no failed slices to retry"
           ELSE [op EXCEPT ![o].pc = "written",
                           ![o].slices = TargetSlices(op[o].kind, op[o].task)]
  /\ UNCHANGED <<rows, wk>>

SliceAfterRequest(o) ==
  [s \in Slices |-> IF s \notin op[o].slices THEN slice[s]
                    ELSE IF op[o].kind = "cancel" THEN "CANCELLED" ELSE "PENDING"]

OpCommit(o) ==
  /\ op[o].pc = "written"
  /\ TaskRowFree(op[o].task)
  /\ task' = [task EXCEPT ![op[o].task] = Target(op[o].kind)]
  /\ slice' = SliceAfterRequest(o)
  /\ cooling' = cooling \ op[o].slices
  /\ op' = [op EXCEPT ![o] = Quiet]
  /\ UNCHANGED <<lease, leasedBy, attempts, expired, runs, attemptLog,
                 capability, published, wk>>

\* The probe command: probe_binding stores what the provider answered.
ProbeBinding(b, answer) ==
  /\ answer # capability[b]
  /\ capability' = [capability EXCEPT ![b] = answer]
  /\ UNCHANGED <<task, slice, lease, leasedBy, attempts, expired, cooling,
                 runs, attemptLog, published, wk, op>>

-----------------------------------------------------------------------------
Outcome(w) ==
  \/ \E more \in BOOLEAN : CountSlices(w, more)
  \/ FailRetryable(w)
  \/ \E blocks \in BOOLEAN : FailFinal(w, blocks)

WorkerStep(w) ==
  \/ Poll(w) \/ Load(w) \/ NumberRun(w) \/ OpenAttempt(w)
  \/ Outcome(w) \/ CommitPage(w) \/ Raise(w) \/ FailClaim(w)

OperatorStep(o) ==
  \/ \E kind \in {"pause", "resume", "cancel", "retry"}, t \in Tasks : OpRead(o, kind, t)
  \/ OpWriteSlices(o)
  \/ OpCommit(o)

Next ==
  \/ \E w \in Workers : WorkerStep(w) \/ Crash(w)
  \/ \E s \in Slices : LeaseExpires(s) \/ RetryDue(s)
  \/ \E o \in Operators : OperatorStep(o)
  \/ \E b \in Bindings, answer \in ProbeAnswers : ProbeBinding(b, answer)

Spec == Init /\ [][Next]_vars

(***************************************************************************)
(* Workers keep stepping, provider calls return (the Tushare client has a  *)
(* request timeout), time passes, and a request handler that started       *)
(* finishes.                                                               *)
(* Crashes, exceptions, new requests and probes are not assumed to happen. *)
(***************************************************************************)
Fairness ==
  /\ \A w \in Workers :
       /\ WF_vars(Poll(w)) /\ WF_vars(Load(w)) /\ WF_vars(NumberRun(w))
       /\ WF_vars(OpenAttempt(w)) /\ WF_vars(Outcome(w)) /\ WF_vars(CommitPage(w))
       /\ WF_vars(FailClaim(w))
  /\ \A s \in Slices : WF_vars(LeaseExpires(s)) /\ WF_vars(RetryDue(s))
  /\ \A o \in Operators : WF_vars(OpWriteSlices(o)) /\ WF_vars(OpCommit(o))

FairSpec == Spec /\ Fairness

-----------------------------------------------------------------------------
(***************************************************************************)
(* Safety.                                                                 *)
(***************************************************************************)
\* The worker acts under the lease in the row.
Owns(w, s) == wk[w].pc # "idle" /\ wk[w].slice = s /\ HoldsLease(w)

\* No two workers ever act under the lease of one slice, whatever expired,
\* was recovered and was claimed again (FOR UPDATE SKIP LOCKED and the token).
SingleOwner ==
  \A s \in Slices : \A v, w \in Workers : Owns(v, s) /\ Owns(w, s) => v = w

\* A slice is SUCCEEDED only with a successful slice_attempt row of its last
\* claim: data of an older claim never completes it.
SuccessHasItsAttempt ==
  \A s \in Slices : slice[s] = "SUCCEEDED" =>
    \E a \in attemptLog : /\ a.slice = s /\ a.no = attempts[s]
                          /\ a.status \in {"LAST", "MORE"}

\* While a task says SUCCEEDED no slice of it is executing, waiting for a
\* retry or failed, whichever worker closed the task and whatever raced it.
SucceededIsSettled ==
  \A s \in Slices : task[TaskOf[s]] = "SUCCEEDED" =>
    slice[s] \notin {"RUNNING", "RETRY_WAIT", "FAILED"}

\* A full page is recorded together with the slice that continues it.
NoPageLost ==
  \A a \in attemptLog : a.status = "MORE" =>
    NextPage[a.slice] # NoSlice /\ slice[NextPage[a.slice]] # "ABSENT"

\* Once the watermark has moved for a task, each slice it was planned with is
\* collected or cancelled, for good.
PublishedIsSettled ==
  \A s \in Planned : TaskOf[s] \in published => slice[s] \in DoneSlice

(***************************************************************************)
(* The inductive invariant behind the safety properties above.             *)
(***************************************************************************)
\* The token in the row of a RUNNING slice is that of its last claim; every
\* worker holds the token of some claim, and no two hold the same; what Load
\* read as attempt number is the token unless the lease was lost since.
Tokens ==
  /\ \A s \in Slices : slice[s] = "RUNNING" => lease[s] = attempts[s]
  /\ \A w \in Workers : wk[w].pc # "idle" =>
       wk[w].tok >= 1 /\ wk[w].tok <= attempts[wk[w].slice]
  /\ \A v, w \in Workers :
       /\ wk[v].pc # "idle" /\ wk[w].pc # "idle"
       /\ wk[v].slice = wk[w].slice /\ wk[v].tok = wk[w].tok
       => v = w
  /\ \A w \in Workers :
       wk[w].pc \notin {"idle", "claimed", "failing"} /\ HoldsLease(w) => wk[w].att = wk[w].tok

\* A request keeps the slices it selected: nobody moves a locked row.
LockedRows ==
  /\ \A o \in Operators, s \in Slices : s \in op[o].slices =>
       /\ TaskOf[s] = op[o].task
       /\ \/ op[o].kind = "cancel" /\ slice[s] \in WaitingSlice
          \/ op[o].kind = "retry" /\ slice[s] = "FAILED"
  /\ \A o, p \in Operators : o # p => op[o].slices \cap op[p].slices = {}

\* A worker that counted no slice left stays right until it commits, except
\* for pages that others add meanwhile.
Counts ==
  \A w \in Workers : wk[w].pc = "counted" =>
    /\ wk[w].more => NextPage[wk[w].slice] # NoSlice
    /\ ~wk[w].left => \A s \in SlicesOf(TaskAt(w)) :
         \/ slice[s] \in DoneSlice
         \/ s = wk[w].slice /\ HoldsLease(w)
         \/ s \notin Planned /\ slice[s] \in {"ABSENT", "PENDING"}

PlannedExist == \A s \in Planned : slice[s] # "ABSENT"

QueueInv ==
  /\ TypeOK /\ Tokens /\ LockedRows /\ Counts /\ PlannedExist
  /\ SuccessHasItsAttempt /\ SucceededIsSettled /\ NoPageLost /\ PublishedIsSettled

(***************************************************************************)
(* What a step may never do.                                               *)
(***************************************************************************)
\* SUCCEEDED and CANCELLED slices are never reopened, by a late worker, a
\* lease recovery or a retry request.
DoneIsFinal ==
  [][\A s \in Slices : slice[s] \in DoneSlice => slice'[s] = slice[s]]_slice

\* A slice leaves the claim it is RUNNING under by a step of the worker that
\* holds its lease, or because that lease has expired.
ClaimEnds ==
  [][\A s \in Slices :
       slice[s] = "RUNNING" /\ (slice'[s] # "RUNNING" \/ lease'[s] # lease[s]) =>
         \/ s \in expired /\ (slice'[s] = "RETRY_WAIT" \/ attempts'[s] = attempts[s] + 1)
         \/ \E w \in Workers : Owns(w, s) /\ wk'[w].pc = "idle"]_vars

(***************************************************************************)
(* The queue implements LeaseQueue: the holder of a job is the worker that *)
(* acts under the lease token in the row.                                  *)
(***************************************************************************)
JobStateOf(status) ==
  CASE status = "ABSENT"     -> "absent"
    [] status \in WaitingSlice -> "available"
    [] status = "RUNNING"    -> "leased"
    [] status = "SUCCEEDED"  -> "done"
    [] status = "FAILED"     -> "failed"
    [] status = "CANCELLED"  -> "withdrawn"

HolderOf(s) ==
  IF \E w \in Workers : Owns(w, s) THEN CHOOSE w \in Workers : Owns(w, s) ELSE NoWorker

Promise == INSTANCE LeaseQueue WITH
  Jobs <- Slices, Clients <- Workers, Nobody <- NoWorker,
  state <- [s \in Slices |-> JobStateOf(slice[s])],
  holder <- [s \in Slices |-> HolderOf(s)],
  claims <- attempts

\* Every behaviour of the queue is one the lease queue promises.
ImplementsPromise == Promise!Spec

(***************************************************************************)
(* Liveness, under FairSpec.                                               *)
(***************************************************************************)
\* A claimed slice is always resolved: by its worker, or, when that worker
\* is gone, by another one that recovers the expired lease.
ClaimResolved ==
  \A s \in Slices : slice[s] = "RUNNING" ~> slice[s] # "RUNNING"

\* A slice that may be claimed does not wait forever, although claims skip
\* every row that another transaction has locked.
Waits(s) ==
  /\ slice[s] \in WaitingSlice /\ attempts[s] < ClaimBound
  /\ task[TaskOf[s]] \in ClaimableTask
  /\ capability[BindingOf[TaskOf[s]]] # "blocked"
NoStarvation == \A s \in Slices : ~<>[]Waits(s)
=============================================================================
