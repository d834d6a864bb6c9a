----------------------------- MODULE Governance -----------------------------
(***************************************************************************)
(* The clean and quality stages of app/governance, for one DataItem: the   *)
(* stage tasks that a closed collection puts on the lease queue, the       *)
(* CleanBatch each source task is normalised into, its candidate rows, and *)
(* the formal table of schema clean that a passing quality run updates.    *)
(*                                                                         *)
(* The stage tasks run on the queue of module CollectQueue; of that queue  *)
(* only what these stages depend on is kept: claims, leases, recovery, the *)
(* failure transaction, and operator requests, which are atomic here.      *)
(* All stage tasks have the same priority, so any waiting one may be next, *)
(* and claims ignore the capability of the source binding.                 *)
(*                                                                         *)
(* A worker runs a stage slice through four transactions: recover + claim  *)
(* (Poll), prepare_stage_run (Prepare), the executor (Load to a commit)    *)
(* and, after an exception, FailClaim.  The executor reads without locks;  *)
(* QualityExecutor holds the row of its batch from Validate on, and the    *)
(* rows of the formal table from Publish on.                               *)
(***************************************************************************)
EXTENDS Integers, Sequences, FiniteSets

CONSTANTS
  Workers,      \* worker ids
  Sources,      \* COLLECT tasks of the DataItem; each gets at most one CleanBatch
  ScopeOf,      \* clean_batch.scope_key of a source
  Keys, Vals,   \* business keys and business values
  Answers,      \* what the provider may answer: sets of rows
  Skipped,      \* rows normalisation skips with a reason
  Rejected,     \* rows that cannot be normalised
  Historic,     \* the item keeps a history table (stock_basic, stock_adj_factor)
  Requests,     \* bound of the model: kinds of operator requests
  ClaimBound,   \* bound of the model: claims of each slice
  NoJob, NoSource

Row  == [key : Keys, val : Vals]
OneRowPerKey(rows) == \A r, s \in rows : r.key = s.key => r = s
Jobs == {"CLEAN", "QUALITY"} \X Sources

ASSUME GovernanceConstants ==
  /\ NoJob \notin Jobs /\ NoSource \notin Sources
  /\ Answers \subseteq SUBSET Row
  /\ \A a \in Answers : OneRowPerKey(a)
  /\ Skipped \subseteq Row /\ Rejected \subseteq Row
  /\ Historic \in BOOLEAN
  /\ Requests \subseteq {"pause", "resume", "cancel", "retry"}
  /\ ClaimBound \in [Jobs -> Nat]

VARIABLES
  source,       \* collect_task.status of the sources, "OPEN" before they close
  collected,    \* the sources in the order they were closed
  answer,       \* the provider's answer of a source
  raw,          \* rows of the raw table under the RawBatches of a source
  task,         \* collect_task.status of the stage tasks, or "ABSENT"
  slice,        \* request_slice.status of their only slice, or "ABSENT"
  lease,        \* request_slice.lease_token, 0 for NULL
  attempts,     \* request_slice.attempt_count
  expired,      \* jobs with lease_expires_at <= now
  batch,        \* clean_batch.status, or "ABSENT"
  cand,         \* clean_candidate_row rows of a batch
  approved,     \* batches with a published_quality_run_id
  supersededBy, \* clean_batch.superseded_by_clean_batch_id
  table,        \* the formal table: at most one row of a key
  history,      \* the history table of the item
  wk            \* what each worker process holds in memory

sourceRows == <<source, collected, answer, raw>>
queueRows  == <<task, slice, lease, attempts, expired>>
batchRows  == <<batch, cand, approved, supersededBy, table, history>>
vars       == <<sourceRows, queueRows, batchRows, wk>>

SourceStatus == {"OPEN", "SUCCEEDED", "OTHER"}
TaskStatus   == {"ABSENT", "PENDING", "RUNNING", "PARTIAL", "PAUSED",
                 "SUCCEEDED", "FAILED", "CANCELLED"}
SliceStatus  == {"ABSENT", "PENDING", "RUNNING", "RETRY_WAIT",
                 "SUCCEEDED", "FAILED", "CANCELLED"}
\* VALIDATING is written and replaced within one transaction.
BatchStatus  == {"ABSENT", "CANDIDATE", "BLOCKED", "PUBLISHED", "SUPERSEDED"}
Judged       == {"BLOCKED", "PUBLISHED", "SUPERSEDED"}

\* A row of the formal table names the batch that wrote it (_clean_batch_id).
Published == [key : Keys, val : Vals, from : Sources]
Version   == [key : Keys, val : Vals, from : Sources, open : BOOLEAN]

Idle == [pc |-> "idle", job |-> NoJob, tok |-> 0, seen |-> "PENDING",
         fresh |-> FALSE, found |-> "ABSENT", changed |-> {}, closing |-> {},
         sup |-> {}]
Worker == [pc : {"idle", "claimed", "prepared", "loaded", "blocked", "passed",
                 "written", "failing"},
           job : Jobs \cup {NoJob}, tok : Nat, seen : TaskStatus,
           fresh : BOOLEAN, found : BatchStatus, changed : SUBSET Row,
           closing : SUBSET Version, sup : SUBSET Sources]

TypeOK ==
  /\ source \in [Sources -> SourceStatus] /\ collected \in Seq(Sources)
  /\ answer \in [Sources -> SUBSET Row] /\ raw \in [Sources -> SUBSET Row]
  /\ \A c \in Sources : OneRowPerKey(raw[c])
  /\ task \in [Jobs -> TaskStatus] /\ slice \in [Jobs -> SliceStatus]
  /\ lease \in [Jobs -> Nat] /\ attempts \in [Jobs -> Nat]
  /\ expired \subseteq Jobs
  /\ batch \in [Sources -> BatchStatus] /\ cand \in [Sources -> SUBSET Row]
  /\ approved \subseteq Sources
  /\ supersededBy \in [Sources -> Sources \cup {NoSource}]
  /\ table \subseteq Published /\ OneRowPerKey(table)
  /\ history \subseteq Version
  /\ wk \in [Workers -> Worker]
  /\ \A w \in Workers : wk[w].pc # "idle" => wk[w].job \in Jobs

Init ==
  /\ source = [c \in Sources |-> "OPEN"] /\ collected = <<>>
  /\ answer = [c \in Sources |-> {}] /\ raw = [c \in Sources |-> {}]
  /\ task = [j \in Jobs |-> "ABSENT"] /\ slice = [j \in Jobs |-> "ABSENT"]
  /\ lease = [j \in Jobs |-> 0] /\ attempts = [j \in Jobs |-> 0]
  /\ expired = {}
  /\ batch = [c \in Sources |-> "ABSENT"] /\ cand = [c \in Sources |-> {}]
  /\ approved = {} /\ supersededBy = [c \in Sources |-> NoSource]
  /\ table = {} /\ history = {}
  /\ wk = [w \in Workers |-> Idle]

-----------------------------------------------------------------------------
(***************************************************************************)
(* Row locks and leases.                                                   *)
(***************************************************************************)
StageAt(w)  == wk[w].job[1]
SourceAt(w) == wk[w].job[2]
Judging(w)  == wk[w].pc \in {"blocked", "passed", "written"}

\* A flushed status = "RUNNING" is an UPDATE unless the copy already says so.
HoldsTaskRow(w, j) ==
  /\ wk[w].pc # "idle" /\ wk[w].job = j /\ wk[w].seen # "RUNNING"
  /\ Judging(w) \/ (StageAt(w) = "CLEAN" /\ wk[w].pc = "loaded" /\ wk[w].fresh)
TaskRowFree(j)       == \A v \in Workers : ~HoldsTaskRow(v, j)
TaskRowFreeFor(w, j) == \A v \in Workers \ {w} : ~HoldsTaskRow(v, j)

\* The UPDATE to VALIDATING locks the batch until the transaction ends.
BatchRowFreeFor(w, c) == \A v \in Workers \ {w} : Judging(v) => SourceAt(v) # c

KeysIn(rows) == {r.key : r \in rows}
\* An upserted key is locked until the commit.
TableRowsFreeFor(w) ==
  \A v \in Workers \ {w} :
    wk[v].pc = "written" => KeysIn(wk[v].changed) \cap KeysIn(wk[w].changed) = {}

HoldsLease(w) ==
  /\ slice[wk[w].job] = "RUNNING"
  /\ lease[wk[w].job] = wk[w].tok

-----------------------------------------------------------------------------
(***************************************************************************)
(* Where stage tasks come from.                                            *)
(***************************************************************************)
\* _enqueue_stage_task: the idempotency key admits one task per job.
Enqueue(j) ==
  IF task[j] # "ABSENT" THEN UNCHANGED <<task, slice>>
  ELSE /\ task' = [task EXCEPT ![j] = "PENDING"]
       /\ slice' = [slice EXCEPT ![j] = "PENDING"]

RawTable == UNION {raw[c] : c \in Sources}

\* The source task closes.  A row the raw table already holds is not inserted
\* again (ON CONFLICT on the content hash DO NOTHING), so it stays with the
\* batch that brought it first.
Collect(c, a) ==
  /\ source[c] = "OPEN"
  /\ source' = [source EXCEPT ![c] = "SUCCEEDED"]
  /\ collected' = Append(collected, c)
  /\ answer' = [answer EXCEPT ![c] = a]
  /\ raw' = [raw EXCEPT ![c] = a \ RawTable]
  /\ Enqueue(<<"CLEAN", c>>)
  /\ UNCHANGED <<lease, attempts, expired, batchRows, wk>>

\* An operations request that read the status before the task closed writes
\* its own afterwards (module CollectQueue).
SourceChanged(c) ==
  /\ source[c] = "SUCCEEDED" /\ Requests # {}
  /\ source' = [source EXCEPT ![c] = "OTHER"]
  /\ UNCHANGED <<collected, answer, raw, queueRows, batchRows, wk>>

-----------------------------------------------------------------------------
(***************************************************************************)
(* Transaction A: recover_expired_claims, then claim_next_slice.           *)
(***************************************************************************)
RunsInRunningTask == {j \in expired : slice[j] = "RUNNING" /\ task[j] = "RUNNING"} \* mutant
Recoverable == {j \in expired : slice[j] = "RUNNING"}
TaskAfterRecovery ==
  [j \in Jobs |-> IF j \in Recoverable THEN "PARTIAL" ELSE task[j]]
SliceAfterRecovery ==
  [j \in Jobs |-> IF j \in Recoverable THEN "RETRY_WAIT" ELSE slice[j]]
Ready ==
  {j \in Jobs : /\ TaskAfterRecovery[j] \in {"PENDING", "RUNNING", "PARTIAL"}
                /\ SliceAfterRecovery[j] \in {"PENDING", "RETRY_WAIT"}
                /\ TaskRowFree(j)
                /\ attempts[j] < ClaimBound[j]}

NewToken(j) == attempts[j] + 1

ClaimSlice(w, j) ==
  /\ j \in Ready
  /\ slice' = [SliceAfterRecovery EXCEPT ![j] = "RUNNING"]
  /\ lease' = [i \in Jobs |-> IF i = j THEN NewToken(j)
                              ELSE IF i \in Recoverable THEN 0 ELSE lease[i]]
  /\ attempts' = [attempts EXCEPT ![j] = @ + 1]
  /\ wk' = [wk EXCEPT ![w] = [Idle EXCEPT !.pc = "claimed", !.job = j,
                                          !.tok = NewToken(j)]]

RecoverOnly ==
  /\ Recoverable # {} /\ Ready = {}
  /\ slice' = SliceAfterRecovery
  /\ lease' = [i \in Jobs |-> IF i \in Recoverable THEN 0 ELSE lease[i]]
  /\ UNCHANGED <<attempts, wk>>

Poll(w) ==
  /\ wk[w].pc = "idle"
  /\ \A j \in Recoverable : TaskRowFree(j)
  /\ RecoverOnly \/ \E j \in Jobs : ClaimSlice(w, j)
  /\ task' = TaskAfterRecovery
  /\ expired' = expired \ Recoverable
  /\ UNCHANGED <<sourceRows, batchRows>>

\* Transaction B: prepare_stage_run, whatever happened since the claim.
Prepare(w) ==
  /\ wk[w].pc = "claimed"
  /\ TaskRowFree(wk[w].job)
  /\ task' = [task EXCEPT ![wk[w].job] = "RUNNING"]
  /\ wk' = [wk EXCEPT ![w].pc = "prepared"]
  /\ UNCHANGED <<sourceRows, slice, lease, attempts, expired, batchRows>>

-----------------------------------------------------------------------------
(***************************************************************************)
(* Transaction C, both executors: read the task; a clean also checks its   *)
(* source and looks for its batch.  fresh: no RUNNING CleanRun was found,  *)
(* so a new one is flushed with task.status = "RUNNING".                   *)
(***************************************************************************)
SourceUnusable(w) == StageAt(w) = "CLEAN" /\ source[SourceAt(w)] # "SUCCEEDED"

Load(w, fresh) ==
  /\ wk[w].pc = "prepared"
  /\ ~SourceUnusable(w)
  /\ fresh => StageAt(w) = "CLEAN" /\ TaskRowFree(wk[w].job)
  /\ wk' = [wk EXCEPT ![w].pc = "loaded", ![w].fresh = fresh,
                      ![w].seen = task[wk[w].job],
                      ![w].found = batch[SourceAt(w)]]
  /\ UNCHANGED <<sourceRows, queueRows, batchRows>>

\* _complete_stage_task: only the slice is fenced by the lease token.  The
\* task is written unless its copy was SUCCEEDED all along.
Unfenced(w) == [slice EXCEPT ![wk[w].job] = "SUCCEEDED"] \* mutant: WHERE id alone
CompletedSlice(w) ==
  IF HoldsLease(w) THEN [slice EXCEPT ![wk[w].job] = "SUCCEEDED"] ELSE slice
CompletedTask(w) ==
  IF StageAt(w) = "CLEAN" /\ ~wk[w].fresh /\ wk[w].seen = "SUCCEEDED"
  THEN task ELSE [task EXCEPT ![wk[w].job] = "SUCCEEDED"]
CompletedExpiry(w) ==
  IF HoldsLease(w) THEN expired \ {wk[w].job} ELSE expired
CompleteStage(w) ==
  /\ TaskRowFreeFor(w, wk[w].job)
  /\ task' = CompletedTask(w) /\ slice' = CompletedSlice(w)
  /\ expired' = CompletedExpiry(w)
  /\ wk' = [wk EXCEPT ![w] = Idle]
  /\ UNCHANGED <<lease, attempts>>

-----------------------------------------------------------------------------
(***************************************************************************)
(* CleanExecutor.                                                          *)
(***************************************************************************)
Normalised(c) == raw[c] \ (Skipped \cup Rejected)
Cleaning(w) == wk[w].pc = "loaded" /\ StageAt(w) = "CLEAN"

\* The stage task of the quality run goes with the batch, in one transaction.
CompleteAndEnqueueQuality(w) ==
  LET q == <<"QUALITY", SourceAt(w)>>
  IN /\ TaskRowFreeFor(w, wk[w].job)
     /\ task' = IF task[q] # "ABSENT" THEN CompletedTask(w)
                ELSE [CompletedTask(w) EXCEPT ![q] = "PENDING"]
     /\ slice' = IF task[q] # "ABSENT" THEN CompletedSlice(w)
                 ELSE [CompletedSlice(w) EXCEPT ![q] = "PENDING"]
     /\ expired' = CompletedExpiry(w)
     /\ wk' = [wk EXCEPT ![w] = Idle]
     /\ UNCHANGED <<lease, attempts>>

\* mutant: no batch for an empty answer
BatchIfRows(c) ==
  IF Normalised(c) = {} THEN batch ELSE [batch EXCEPT ![c] = "CANDIDATE"]
NewBatch(c) == [batch EXCEPT ![c] = "CANDIDATE"]

CleanNew(w) ==
  /\ Cleaning(w) /\ wk[w].found = "ABSENT"
  /\ batch[SourceAt(w)] = "ABSENT"
  /\ batch' = NewBatch(SourceAt(w))
  /\ cand' = [cand EXCEPT ![SourceAt(w)] = Normalised(SourceAt(w))]
  /\ CompleteAndEnqueueQuality(w)
  /\ UNCHANGED <<sourceRows, approved, supersededBy, table, history>>

\* uq_clean_batch_source_scope_version: another worker made the batch since Load.
CleanConflict(w) ==
  /\ Cleaning(w) /\ wk[w].found = "ABSENT"
  /\ batch[SourceAt(w)] # "ABSENT"
  /\ wk' = [wk EXCEPT ![w].pc = "failing"]
  /\ UNCHANGED <<sourceRows, queueRows, batchRows>>

\* The batch is there from an earlier execution.
CleanAgain(w) ==
  /\ Cleaning(w) /\ wk[w].found # "ABSENT"
  /\ IF wk[w].found = "CANDIDATE" THEN CompleteAndEnqueueQuality(w) ELSE CompleteStage(w)
  /\ UNCHANGED <<sourceRows, batchRows>>

-----------------------------------------------------------------------------
(***************************************************************************)
(* QualityExecutor.                                                        *)
(***************************************************************************)
\* QB-CLEAN-001, QB-CLEAN-002 and QB-LIN-001; the rules about the data itself
\* may decide either way.  The candidates of a batch are all there or all
\* deleted, so comparing them stands for comparing their count.
\* mutant: rejected rows are passed over
BlockedByCount(c) == (raw[c] # {} /\ Normalised(c) = {}) \/ cand[c] # Normalised(c)
MustBlock(c) ==
  \/ raw[c] \cap Rejected # {}
  \/ raw[c] # {} /\ Normalised(c) = {}
  \/ cand[c] # Normalised(c)

ValueIn(r) == \E t \in table : t.key = r.key /\ t.val = r.val
Changed(c) == {r \in cand[c] : ~ValueIn(r)}
OpenVersions(rows) == {h \in history : h.open /\ h.key \in KeysIn(rows)}

\* Lock the batch by status = VALIDATING, whatever it was, validate, and read
\* the rows to compare with.
Validate(w, pass) ==
  LET c == SourceAt(w)
  IN /\ wk[w].pc = "loaded" /\ StageAt(w) = "QUALITY"
     /\ BatchRowFreeFor(w, c)
     /\ wk[w].seen # "RUNNING" => TaskRowFreeFor(w, wk[w].job)
     /\ IF pass /\ ~MustBlock(c)
        THEN wk' = [wk EXCEPT ![w].pc = "passed", ![w].changed = Changed(c),
                              ![w].closing = OpenVersions(Changed(c))]
        ELSE ~pass /\ wk' = [wk EXCEPT ![w].pc = "blocked"]
     /\ UNCHANGED <<sourceRows, queueRows, batchRows>>

\* BLOCK: the batch alone changes; its candidates stay.
QualityBlock(w) ==
  /\ wk[w].pc = "blocked"
  /\ batch' = [batch EXCEPT ![SourceAt(w)] = "BLOCKED"]
  /\ CompleteStage(w)
  /\ UNCHANGED <<sourceRows, cand, approved, supersededBy, table, history>>

\* _supersede_previous
OthersOfScope(w) == \* mutant: whatever their status
  {d \in Sources \ {SourceAt(w)} :
     batch[d] # "ABSENT" /\ ScopeOf[d] = ScopeOf[SourceAt(w)]}
Replaced(w) ==
  {d \in Sources \ {SourceAt(w)} :
     batch[d] = "PUBLISHED" /\ ScopeOf[d] = ScopeOf[SourceAt(w)]}

\* Upsert the changed rows, which waits for other open upserts of a key, then
\* select the batches to supersede.
Publish(w) ==
  /\ wk[w].pc = "passed"
  /\ TableRowsFreeFor(w)
  /\ wk' = [wk EXCEPT ![w].pc = "written", ![w].sup = Replaced(w)]
  /\ UNCHANGED <<sourceRows, queueRows, batchRows>>

UpsertedBy(w) ==
  {t \in table : t.key \notin KeysIn(wk[w].changed)}
    \cup {[key |-> r.key, val |-> r.val, from |-> SourceAt(w)] : r \in wk[w].changed}
\* mutant: the new version is closed with the old ones
VersionsClosed(w) ==
  IF ~Historic THEN history
  ELSE {h \in history : h \notin wk[w].closing}
         \cup {[h EXCEPT !.open = FALSE] : h \in history \cap wk[w].closing}
         \cup {[key |-> r.key, val |-> r.val, from |-> SourceAt(w), open |-> FALSE] :
                 r \in wk[w].changed}
VersionsBy(w) ==
  IF ~Historic THEN history
  ELSE {h \in history : h \notin wk[w].closing}
         \cup {[h EXCEPT !.open = FALSE] : h \in history \cap wk[w].closing}
         \cup {[key |-> r.key, val |-> r.val, from |-> SourceAt(w), open |-> TRUE] :
                 r \in wk[w].changed}

CandidatesStay(w) == cand \* mutant: the candidates are not deleted
CandidatesAfter(w) == [cand EXCEPT ![SourceAt(w)] = {}]

QualityCommit(w) ==
  LET c == SourceAt(w)
  IN /\ wk[w].pc = "written"
     /\ \A d \in wk[w].sup : BatchRowFreeFor(w, d)
     /\ table' = UpsertedBy(w) /\ history' = VersionsBy(w)
     /\ batch' = [d \in Sources |-> IF d = c THEN "PUBLISHED"
                                    ELSE IF d \in wk[w].sup THEN "SUPERSEDED"
                                    ELSE batch[d]]
     /\ supersededBy' = [d \in Sources |-> IF d \in wk[w].sup THEN c ELSE supersededBy[d]]
     /\ approved' = approved \cup {c}
     /\ cand' = CandidatesAfter(w)
     /\ CompleteStage(w)
     /\ UNCHANGED sourceRows

-----------------------------------------------------------------------------
(***************************************************************************)
(* Failures.                                                               *)
(***************************************************************************)
\* An exception inside the executor transaction, which is rolled back: a
\* source that is not SUCCEEDED, a deadlock PostgreSQL broke, or any other.
Raise(w) ==
  /\ wk[w].pc \notin {"idle", "claimed", "failing"}
  /\ wk' = [wk EXCEPT ![w].pc = "failing"]
  /\ UNCHANGED <<sourceRows, queueRows, batchRows>>
SourceMissing(w) == wk[w].pc = "prepared" /\ SourceUnusable(w) /\ Raise(w)

\* Transaction D: fail_claim_after_unhandled, nothing without the lease.
FailClaim(w) ==
  /\ wk[w].pc = "failing"
  /\ IF HoldsLease(w)
     THEN /\ TaskRowFree(wk[w].job)
          /\ slice' = [slice EXCEPT ![wk[w].job] = "FAILED"]
          /\ lease' = [lease EXCEPT ![wk[w].job] = 0]
          /\ task' = [task EXCEPT ![wk[w].job] = "FAILED"]
          /\ expired' = expired \ {wk[w].job}
     ELSE UNCHANGED <<slice, lease, task, expired>>
  /\ wk' = [wk EXCEPT ![w] = Idle]
  /\ UNCHANGED <<sourceRows, attempts, batchRows>>

\* The process dies, or prepare_stage_run raised outside the try block.
Crash(w) ==
  /\ wk[w].pc # "idle"
  /\ wk' = [wk EXCEPT ![w] = Idle]
  /\ UNCHANGED <<sourceRows, queueRows, batchRows>>

LeaseExpires(j) ==
  /\ slice[j] = "RUNNING" /\ j \notin expired
  /\ expired' = expired \cup {j}
  /\ UNCHANGED <<sourceRows, task, slice, lease, attempts, batchRows, wk>>

-----------------------------------------------------------------------------
(***************************************************************************)
(* Operator requests on a stage task (app/ops/service.py).                 *)
(***************************************************************************)
Admits(kind, status) ==
  CASE kind = "pause"  -> status \in {"PENDING", "RUNNING", "PARTIAL"}
    [] kind = "resume" -> status = "PAUSED"
    [] kind = "cancel" -> status \notin {"ABSENT", "SUCCEEDED", "CANCELLED"}
    [] kind = "retry"  -> status \in {"FAILED", "PARTIAL"}

Target(kind) ==
  CASE kind = "pause"  -> "PAUSED"
    [] kind = "cancel" -> "CANCELLED"
    [] OTHER           -> "PENDING"

SliceAfterRequest(kind, j) ==
  CASE kind = "cancel" /\ slice[j] \in {"PENDING", "RETRY_WAIT"} -> "CANCELLED"
    [] kind = "retry" -> "PENDING"
    [] OTHER -> slice[j]

Request(kind, j) ==
  /\ Admits(kind, task[j]) /\ TaskRowFree(j)
  /\ kind = "retry" => slice[j] = "FAILED"
  /\ task' = [task EXCEPT ![j] = Target(kind)]
  /\ slice' = [slice EXCEPT ![j] = SliceAfterRequest(kind, j)]
  /\ UNCHANGED <<sourceRows, lease, attempts, expired, batchRows, wk>>

-----------------------------------------------------------------------------
Execute(w) ==
  \/ \E fresh \in BOOLEAN : Load(w, fresh)
  \/ CleanNew(w) \/ CleanConflict(w) \/ CleanAgain(w)
  \/ \E pass \in BOOLEAN : Validate(w, pass)
  \/ QualityBlock(w) \/ Publish(w) \/ QualityCommit(w)

Next ==
  \/ \E c \in Sources : SourceChanged(c) \/ \E a \in Answers : Collect(c, a)
  \/ \E w \in Workers :
       Poll(w) \/ Prepare(w) \/ Execute(w) \/ Raise(w) \/ FailClaim(w) \/ Crash(w)
  \/ \E j \in Jobs : LeaseExpires(j) \/ \E kind \in Requests : Request(kind, j)

Spec == Init /\ [][Next]_vars

(***************************************************************************)
(* Workers keep stepping and time passes; a source that cannot be cleaned  *)
(* raises.  Crashes, other exceptions, requests and new collections are    *)
(* not assumed to happen.                                                  *)
(***************************************************************************)
Fairness ==
  /\ \A w \in Workers :
       /\ WF_vars(Poll(w)) /\ WF_vars(Prepare(w)) /\ WF_vars(Execute(w))
       /\ WF_vars(SourceMissing(w)) /\ WF_vars(FailClaim(w))
  /\ \A j \in Jobs : WF_vars(LeaseExpires(j))

FairSpec == Spec /\ Fairness
-----------------------------------------------------------------------------
(***************************************************************************)
(* Safety.                                                                 *)
(***************************************************************************)
\* Every row of the formal table was brought by an approved batch, as that
\* batch normalised it, and no row of that batch was rejected, although
\* executions of one slice may overlap and claims of others may be lost.
RowsWereApproved ==
  \A t \in table :
    /\ t.from \in approved
    /\ [key |-> t.key, val |-> t.val] \in Normalised(t.from)
    /\ raw[t.from] \cap Rejected = {}

\* A batch is created together with the quality task that judges it.
QualityFollowsClean ==
  \A c \in Sources : batch[c] # "ABSENT" <=> slice[<<"QUALITY", c>>] # "ABSENT"

\* A stage slice is SUCCEEDED only when the work it stands for was committed:
\* a batch for a clean, a verdict for a quality run.
DoneMeansDone ==
  \A c \in Sources :
    /\ slice[<<"CLEAN", c>>] = "SUCCEEDED" => batch[c] # "ABSENT"
    /\ slice[<<"QUALITY", c>>] = "SUCCEEDED" => batch[c] \in Judged

\* A batch keeps all its candidates until it is approved, and none of them
\* afterwards, so a second execution finds nothing to publish again.
CandidatesKept ==
  \A c \in Sources :
    cand[c] = IF batch[c] = "ABSENT" \/ c \in approved THEN {} ELSE Normalised(c)

\* Only an approved batch is PUBLISHED or SUPERSEDED, and it is superseded by
\* an approved batch of the same scope.
SupersededByApproved ==
  \A c \in Sources :
    /\ batch[c] \in {"PUBLISHED", "SUPERSEDED"} => c \in approved
    /\ batch[c] = "SUPERSEDED" =>
         \E d \in approved : supersededBy[c] = d /\ ScopeOf[d] = ScopeOf[c]

\* The row of a key in the formal table is also an open version in the
\* history table, whatever publications of the key overlapped.
CurrentVersionOpen ==
  Historic => \A t \in table :
    [key |-> t.key, val |-> t.val, from |-> t.from, open |-> TRUE] \in history

(***************************************************************************)
(* The inductive invariant behind them.                                    *)
(***************************************************************************)
\* What the rows of the queue say of the rest: a stage task has its slice, a
\* source that is still open has no stage and no batch, a worker is at a slice
\* that exists, and batches do not go away.
Bookkeeping ==
  /\ \A j \in Jobs : task[j] = "ABSENT" <=> slice[j] = "ABSENT"
  /\ \A c \in Sources : source[c] = "OPEN" =>
       batch[c] = "ABSENT" /\ slice[<<"CLEAN", c>>] = "ABSENT"
  /\ \A w \in Workers : wk[w].pc # "idle" => slice[wk[w].job] # "ABSENT"
  /\ \A w \in Workers : Cleaning(w) /\ wk[w].found # "ABSENT" =>
       batch[SourceAt(w)] # "ABSENT"
  /\ \A c \in approved : batch[c] # "ABSENT"

\* A worker judges its batch alone; what it is about to write is what it read
\* of the batch, the versions it closes are of keys it writes, and the batches
\* it supersedes were approved in the same scope.
JudgedAlone ==
  /\ \A w \in Workers : Judging(w) => StageAt(w) = "QUALITY"
  /\ \A v, w \in Workers :
       Judging(v) /\ Judging(w) /\ SourceAt(v) = SourceAt(w) => v = w
  /\ \A w \in Workers : wk[w].pc \in {"passed", "written"} =>
       /\ ~MustBlock(SourceAt(w)) /\ wk[w].changed \subseteq cand[SourceAt(w)]
       /\ KeysIn(wk[w].closing) \subseteq KeysIn(wk[w].changed)
  /\ \A w \in Workers : wk[w].pc = "written" =>
       \A d \in wk[w].sup : d \in approved /\ ScopeOf[d] = ScopeOf[SourceAt(w)]

GovernanceInv ==
  /\ TypeOK /\ Bookkeeping /\ JudgedAlone /\ QualityFollowsClean /\ DoneMeansDone
  /\ CandidatesKept /\ SupersededByApproved /\ RowsWereApproved /\ CurrentVersionOpen

(***************************************************************************)
(* What a step may never do.                                               *)
(***************************************************************************)
RowsOf(c) == {t \in table : t.from = c}

\* Rows enter the formal table only in the one step that approves their batch
\* and makes it PUBLISHED, and nothing else enters in that step.
AtomicPublication ==
  [][\A c \in Sources : ~(RowsOf(c)' \subseteq RowsOf(c)) =>
       /\ c \notin approved /\ approved' = approved \cup {c}
       /\ batch'[c] = "PUBLISHED"
       /\ \A d \in Sources \ {c} : RowsOf(d)' \subseteq RowsOf(d)]_vars

\* Claims, lost leases, overlapping executions and row locks add nothing to
\* what readers see: every step is one of the published store's, or changes
\* nothing there.
Store == INSTANCE PublishedStore WITH
           offer  <- [c \in Sources |-> Normalised(c)],
           faulty <- {c \in Sources : raw[c] \cap Rejected # {}}
ImplementsStore == Store!Spec

(***************************************************************************)
(* The stage tasks keep the promise of the lease queue that module         *)
(* CollectQueue keeps: the holder of a slice is the worker that acts under *)
(* the lease token in its row.                                             *)
(***************************************************************************)
Owns(w, j)  == wk[w].pc # "idle" /\ wk[w].job = j /\ HoldsLease(w)
HolderOf(j) == {w \in Workers : Owns(w, j)}

JobStateOf(status) ==
  CASE status = "ABSENT"    -> "absent"
    [] status \in {"PENDING", "RETRY_WAIT"} -> "available"
    [] status = "RUNNING"   -> "leased"
    [] status = "SUCCEEDED" -> "done"
    [] status = "FAILED"    -> "failed"
    [] status = "CANCELLED" -> "withdrawn"

StageQueue == INSTANCE LeaseQueue WITH
                Clients <- {{w} : w \in Workers}, Nobody <- {},
                state  <- [j \in Jobs |-> JobStateOf(slice[j])],
                holder <- [j \in Jobs |-> HolderOf(j)],
                claims <- attempts
ImplementsQueue == StageQueue!Spec

(***************************************************************************)
(* Liveness, under FairSpec.                                               *)
(***************************************************************************)
\* A candidate batch is judged, whichever workers die on the way, unless its
\* task was stopped by an operator, or its slice failed or used up the claims
\* of the model.
CandidateResolved ==
  \A c \in Sources :
    batch[c] = "CANDIDATE" ~>
      \/ batch[c] \in Judged
      \/ slice[<<"QUALITY", c>>] \in {"FAILED", "CANCELLED"}
      \/ task[<<"QUALITY", c>>] \in {"PAUSED", "CANCELLED"}
      \/ attempts[<<"QUALITY", c>>] = ClaimBound[<<"QUALITY", c>>]
=============================================================================
