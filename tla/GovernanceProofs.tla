-------------------------- MODULE GovernanceProofs --------------------------
(***************************************************************************)
(* Theorems about Governance, for all workers, sources, scopes, rows,      *)
(* answers and bounds.                                                     *)
(***************************************************************************)
EXTENDS Governance, TLAPS, SequenceTheorems

USE GovernanceConstants

-----------------------------------------------------------------------------
(* Facts about jobs, workers and the helpers.                              *)

LEMMA JobParts ==
  ASSUME NEW j \in Jobs
  PROVE  j[1] \in {"CLEAN", "QUALITY"} /\ j[2] \in Sources /\ j = <<j[1], j[2]>>
BY DEF Jobs

LEMMA WorkerJob ==
  ASSUME TypeOK, NEW w \in Workers, wk[w].pc # "idle"
  PROVE  /\ wk[w].job \in Jobs /\ wk[w].job = <<StageAt(w), SourceAt(w)>>
         /\ StageAt(w) \in {"CLEAN", "QUALITY"} /\ SourceAt(w) \in Sources
<1>1. wk[w].job \in Jobs
  BY DEF TypeOK
<1>. QED
  BY <1>1, JobParts DEF StageAt, SourceAt

LEMMA WorkerType ==
  ASSUME TypeOK, NEW w \in Workers
  PROVE  /\ wk[w] \in Worker
         /\ wk[w].job \in Jobs \cup {NoJob} /\ wk[w].tok \in Nat
         /\ wk[w].seen \in TaskStatus /\ wk[w].fresh \in BOOLEAN
         /\ wk[w].found \in BatchStatus /\ wk[w].changed \subseteq Row
         /\ wk[w].closing \subseteq Version /\ wk[w].sup \subseteq Sources
<1>1. wk[w] \in Worker
  BY DEF TypeOK
<1>. QED
  BY <1>1 DEF Worker

LEMMA IdleType == Idle \in Worker /\ Idle.pc = "idle"
BY DEF Idle, Worker, TaskStatus, BatchStatus

LEMMA RecoveryType ==
  ASSUME TypeOK
  PROVE  /\ TaskAfterRecovery \in [Jobs -> TaskStatus]
         /\ SliceAfterRecovery \in [Jobs -> SliceStatus]
BY DEF TypeOK, TaskAfterRecovery, SliceAfterRecovery, TaskStatus, SliceStatus

LEMMA CompletedType ==
  ASSUME TypeOK, NEW w \in Workers
  PROVE  /\ CompletedTask(w) \in [Jobs -> TaskStatus]
         /\ CompletedSlice(w) \in [Jobs -> SliceStatus]
         /\ CompletedExpiry(w) \subseteq Jobs
BY DEF TypeOK, CompletedTask, CompletedSlice, CompletedExpiry, TaskStatus, SliceStatus

\* A changed worker record keeps the workers well typed.
LEMMA WorkersType ==
  ASSUME TypeOK, NEW w \in Workers, NEW r \in Worker,
         r.pc # "idle" => r.job \in Jobs,
         wk' = [wk EXCEPT ![w] = r]
  PROVE  /\ wk' \in [Workers -> Worker]
         /\ \A v \in Workers : wk'[v].pc # "idle" => wk'[v].job \in Jobs
BY DEF TypeOK

-----------------------------------------------------------------------------
(* Frames: what is preserved when the parts it speaks of do not change.    *)

LEMMA DataKept ==
  ASSUME GovernanceInv, UNCHANGED raw, UNCHANGED batchRows
  PROVE  /\ CandidatesKept' /\ SupersededByApproved' /\ RowsWereApproved'
         /\ CurrentVersionOpen'
<1>. USE DEF GovernanceInv, batchRows, Normalised
<1>1. CandidatesKept'
  BY DEF CandidatesKept
<1>2. SupersededByApproved'
  BY DEF SupersededByApproved
<1>3. RowsWereApproved'
  BY DEF RowsWereApproved
<1>4. CurrentVersionOpen'
  BY DEF CurrentVersionOpen
<1>. QED
  BY <1>1, <1>2, <1>3, <1>4

\* A worker that is not judging afterwards does not disturb those who are.
LEMMA OthersJudge ==
  ASSUME GovernanceInv, NEW w \in Workers, UNCHANGED raw, UNCHANGED batchRows,
         \A v \in Workers \ {w} : wk'[v] = wk[v],
         wk'[w].pc \notin {"blocked", "passed", "written"}
  PROVE  JudgedAlone'
BY DEF GovernanceInv, JudgedAlone, Judging, StageAt, SourceAt, MustBlock, Normalised,
       batchRows

LEMMA WorkersRest ==
  ASSUME GovernanceInv, UNCHANGED wk, UNCHANGED raw, UNCHANGED batchRows
  PROVE  JudgedAlone'
BY DEF GovernanceInv, JudgedAlone, Judging, StageAt, SourceAt, MustBlock, Normalised,
       batchRows

\* The queue rows only move on: no slice disappears and none becomes
\* SUCCEEDED, and batches stay as they are.
LEMMA StagesKept ==
  ASSUME GovernanceInv, UNCHANGED batch,
         \A j \in Jobs : slice'[j] = "ABSENT" <=> slice[j] = "ABSENT",
         \A j \in Jobs : slice'[j] = "SUCCEEDED" => slice[j] = "SUCCEEDED"
  PROVE  QualityFollowsClean' /\ DoneMeansDone'
BY DEF GovernanceInv, QualityFollowsClean, DoneMeansDone, Jobs
\* A step of one worker that leaves source, raw table and batches alone, does
\* not judge afterwards and completes nothing.
LEMMA QueueStep ==
  ASSUME GovernanceInv, TypeOK', Bookkeeping', UNCHANGED raw, UNCHANGED batchRows,
         \A j \in Jobs : slice'[j] = "ABSENT" <=> slice[j] = "ABSENT",
         \A j \in Jobs : slice'[j] = "SUCCEEDED" => slice[j] = "SUCCEEDED",
         JudgedAlone'
  PROVE  GovernanceInv'
<1>1. QualityFollowsClean' /\ DoneMeansDone'
  BY StagesKept DEF batchRows
<1>. QED
  BY <1>1, DataKept DEF GovernanceInv

-----------------------------------------------------------------------------
(* The steps.                                                              *)

LEMMA InvInit == Init => GovernanceInv
<1>. SUFFICES ASSUME Init PROVE GovernanceInv
  OBVIOUS
<1>. USE DEF Init
<1>1. TypeOK
  <2>1. collected \in Seq(Sources)
    BY EmptySeq
  <2>2. wk \in [Workers -> Worker] /\ \A w \in Workers : wk[w].pc = "idle"
    BY IdleType
  <2>. QED
    BY <2>1, <2>2 DEF TypeOK, OneRowPerKey, SourceStatus, TaskStatus, SliceStatus, BatchStatus
<1>2. Bookkeeping /\ JudgedAlone
  BY IdleType DEF Bookkeeping, JudgedAlone, Judging, Cleaning, Jobs
<1>3. QualityFollowsClean /\ DoneMeansDone /\ CandidatesKept
  BY DEF QualityFollowsClean, DoneMeansDone, CandidatesKept, Jobs
<1>4. SupersededByApproved /\ RowsWereApproved /\ CurrentVersionOpen
  BY DEF SupersededByApproved, RowsWereApproved, CurrentVersionOpen
<1>. QED
  BY <1>1, <1>2, <1>3, <1>4 DEF GovernanceInv

LEMMA CollectInv ==
  ASSUME GovernanceInv, NEW c \in Sources, NEW a \in Answers, Collect(c, a)
  PROVE  GovernanceInv'
<1>. DEFINE q == <<"CLEAN", c>>
<1>0. q \in Jobs /\ TypeOK /\ Bookkeeping /\ UNCHANGED wk /\ UNCHANGED batchRows
  BY DEF Collect, Jobs, GovernanceInv
<1>1. /\ source[c] = "OPEN" /\ batch[c] = "ABSENT" /\ slice[q] = "ABSENT" /\ task[q] = "ABSENT"
  BY <1>0 DEF Collect, Bookkeeping
<1>2. /\ task' = [task EXCEPT ![q] = "PENDING"] /\ slice' = [slice EXCEPT ![q] = "PENDING"]
  BY <1>1 DEF Collect, Enqueue
<1>3. \A d \in Sources : d # c => raw'[d] = raw[d]
  BY <1>0 DEF Collect, TypeOK
<1>4. \A d \in Sources : batch[d] # "ABSENT" => d # c
  BY <1>1
<1>5. TypeOK'
  <2>1. collected' \in Seq(Sources)
    BY <1>0, AppendProperties DEF Collect, TypeOK
  <2>2. OneRowPerKey(raw'[c]) /\ raw' \in [Sources -> SUBSET Row]
    BY <1>0 DEF Collect, TypeOK, OneRowPerKey
  <2>3. \A d \in Sources : OneRowPerKey(raw'[d])
    BY <2>2, <1>3, <1>0 DEF TypeOK
  <2>4. source' \in [Sources -> SourceStatus] /\ answer' \in [Sources -> SUBSET Row]
    BY <1>0 DEF Collect, TypeOK, SourceStatus
  <2>5. task' \in [Jobs -> TaskStatus] /\ slice' \in [Jobs -> SliceStatus]
    BY <1>0, <1>2 DEF TypeOK, TaskStatus, SliceStatus
  <2>. QED
    BY <2>1, <2>2, <2>3, <2>4, <2>5, <1>0 DEF TypeOK, Collect, batchRows
<1>6. Bookkeeping'
  <2>1. \A j \in Jobs : task'[j] = "ABSENT" <=> slice'[j] = "ABSENT"
    BY <1>0, <1>2 DEF Bookkeeping, TypeOK
  <2>2. \A d \in Sources : source'[d] = "OPEN" => source[d] = "OPEN" /\ d # c
    BY <1>0 DEF Collect, TypeOK
  <2>3. \A j \in Jobs : j # q => slice'[j] = slice[j]
    BY <1>0, <1>2 DEF TypeOK
  <2>4. \A d \in Sources : source'[d] = "OPEN" => batch'[d] = "ABSENT" /\ slice'[<<"CLEAN", d>>] = "ABSENT"
    BY <1>0, <2>2, <2>3 DEF Bookkeeping, Jobs, batchRows
  <2>5. \A w \in Workers : wk[w].pc # "idle" => slice'[wk[w].job] # "ABSENT"
    BY <1>0, <2>3, WorkerJob, <1>2 DEF Bookkeeping, TypeOK
  <2>. QED
    BY <2>1, <2>4, <2>5, <1>0 DEF Bookkeeping, Cleaning, StageAt, SourceAt, batchRows
<1>7. JudgedAlone'
  <2>1. ASSUME NEW w \in Workers, Judging(w) PROVE batch[SourceAt(w)] # "ABSENT" /\ SourceAt(w) \in Sources
    <3>1. wk[w].pc # "idle" /\ StageAt(w) = "QUALITY"
      BY <2>1 DEF GovernanceInv, JudgedAlone, Judging
    <3>2. SourceAt(w) \in Sources /\ wk[w].job = <<"QUALITY", SourceAt(w)>>
      BY <3>1, <1>0, WorkerJob
    <3>. QED
      BY <3>1, <3>2, <1>0 DEF GovernanceInv, Bookkeeping, QualityFollowsClean
  <2>2. \A w \in Workers : Judging(w) => raw'[SourceAt(w)] = raw[SourceAt(w)]
    BY <2>1, <1>3, <1>4
  <2>. QED
    BY <2>2, <1>0 DEF GovernanceInv, JudgedAlone, Judging, StageAt, SourceAt, MustBlock,
                      Normalised, batchRows
<1>8. QualityFollowsClean' /\ DoneMeansDone'
  <2>1. \A d \in Sources : slice'[<<"QUALITY", d>>] = slice[<<"QUALITY", d>>]
    BY <1>0, <1>2 DEF TypeOK, Jobs
  <2>2. \A d \in Sources : slice'[<<"CLEAN", d>>] = "SUCCEEDED" => slice[<<"CLEAN", d>>] = "SUCCEEDED"
    BY <1>0, <1>2 DEF TypeOK, Jobs
  <2>. QED
    BY <2>1, <2>2, <1>0 DEF GovernanceInv, QualityFollowsClean, DoneMeansDone, batchRows
<1>9. CandidatesKept'
  BY <1>0, <1>3, <1>4 DEF GovernanceInv, CandidatesKept, Normalised, batchRows
<1>10. RowsWereApproved'
  <2>1. \A t \in table : t.from \in Sources /\ raw'[t.from] = raw[t.from]
    BY <1>0, <1>3, <1>4 DEF GovernanceInv, RowsWereApproved, Bookkeeping, TypeOK, Published
  <2>. QED
    BY <2>1, <1>0 DEF GovernanceInv, RowsWereApproved, Normalised, batchRows
<1>11. SupersededByApproved' /\ CurrentVersionOpen'
  BY <1>0 DEF GovernanceInv, SupersededByApproved, CurrentVersionOpen, batchRows
<1>. QED
  BY <1>5, <1>6, <1>7, <1>8, <1>9, <1>10, <1>11 DEF GovernanceInv

LEMMA SourceChangedInv ==
  ASSUME GovernanceInv, NEW c \in Sources, SourceChanged(c)
  PROVE  GovernanceInv'
<1>1. TypeOK'
  BY DEF GovernanceInv, TypeOK, SourceChanged, SourceStatus, queueRows, batchRows
<1>2. Bookkeeping'
  <2>1. \A d \in Sources : source'[d] = "OPEN" => source[d] = "OPEN"
    BY DEF GovernanceInv, TypeOK, SourceChanged
  <2>. QED
    BY <2>1 DEF GovernanceInv, Bookkeeping, Cleaning, StageAt, SourceAt, SourceChanged,
                queueRows, batchRows
<1>3. JudgedAlone'
  BY WorkersRest DEF SourceChanged
<1>. QED
  BY <1>1, <1>2, <1>3, QueueStep DEF SourceChanged, queueRows
\* The queue keeps every slice it has, and its task with it.
LEMMA PollInv ==
  ASSUME GovernanceInv, NEW w \in Workers, Poll(w)
  PROVE  GovernanceInv'
<1>0. TypeOK /\ Bookkeeping /\ UNCHANGED sourceRows /\ UNCHANGED batchRows
  BY DEF GovernanceInv, Poll
<1>1. /\ TaskAfterRecovery \in [Jobs -> TaskStatus]
      /\ SliceAfterRecovery \in [Jobs -> SliceStatus]
  BY <1>0, RecoveryType
<1>2. \A j \in Jobs :
        /\ SliceAfterRecovery[j] = "ABSENT" <=> slice[j] = "ABSENT"
        /\ SliceAfterRecovery[j] = "SUCCEEDED" <=> slice[j] = "SUCCEEDED"
        /\ TaskAfterRecovery[j] = "ABSENT" <=> task[j] = "ABSENT"
  BY <1>0 DEF SliceAfterRecovery, TaskAfterRecovery, Recoverable, Bookkeeping
<1>3. CASE RecoverOnly
  <2>1. TypeOK'
    <3>1. lease' \in [Jobs -> Nat]
      BY <1>0, <1>3 DEF RecoverOnly, TypeOK
    <3>. QED
      BY <3>1, <1>0, <1>1, <1>3 DEF TypeOK, Poll, RecoverOnly, sourceRows, batchRows
  <2>2. Bookkeeping'
    <3>1. \A v \in Workers : wk[v].pc # "idle" => slice'[wk[v].job] # "ABSENT"
      BY <1>0, <1>2, <1>3, WorkerJob DEF Bookkeeping, RecoverOnly
    <3>. QED
      BY <3>1, <1>0, <1>2, <1>3 DEF Bookkeeping, Poll, RecoverOnly, sourceRows, batchRows,
                                    Jobs, Cleaning, StageAt, SourceAt
  <2>3. JudgedAlone'
    BY <1>0, <1>3, WorkersRest DEF RecoverOnly, sourceRows
  <2>. QED
    BY <2>1, <2>2, <2>3, <1>0, <1>2, <1>3, QueueStep DEF RecoverOnly, sourceRows
<1>4. ASSUME NEW j \in Jobs, ClaimSlice(w, j) PROVE GovernanceInv'
  <2>. DEFINE r == [Idle EXCEPT !.pc = "claimed", !.job = j, !.tok = NewToken(j)]
  <2>1. r \in Worker /\ r.pc = "claimed" /\ r.job = j /\ wk' = [wk EXCEPT ![w] = r]
    <3>1. NewToken(j) \in Nat
      BY <1>0 DEF NewToken, TypeOK
    <3>2. r \in Worker /\ r.pc = "claimed" /\ r.job = j
      BY <3>1 DEF Idle, Worker, TaskStatus, BatchStatus
    <3>. QED
      BY <3>2, <1>4 DEF ClaimSlice
  <2>2. /\ wk' \in [Workers -> Worker]
        /\ \A v \in Workers : wk'[v].pc # "idle" => wk'[v].job \in Jobs
    BY <2>1, <1>0, WorkersType
  <2>3. \A v \in Workers \ {w} : wk'[v] = wk[v]
    BY <2>1, <1>0 DEF TypeOK
  <2>4. wk'[w] = r
    BY <2>1, <1>0 DEF TypeOK
  <2>5. slice' = [SliceAfterRecovery EXCEPT ![j] = "RUNNING"] /\ slice[j] # "ABSENT"
        /\ task' = TaskAfterRecovery
    BY <1>0, <1>2, <1>4 DEF ClaimSlice, Ready, Poll
  <2>6. \A i \in Jobs : /\ slice'[i] = "ABSENT" <=> slice[i] = "ABSENT"
                        /\ slice'[i] = "SUCCEEDED" => slice[i] = "SUCCEEDED"
    BY <2>5, <1>1, <1>2
  <2>7. TypeOK'
    <3>1. lease' \in [Jobs -> Nat] /\ attempts' \in [Jobs -> Nat]
      BY <1>0, <1>4 DEF ClaimSlice, NewToken, TypeOK
    <3>2. slice' \in [Jobs -> SliceStatus]
      BY <1>1, <2>5 DEF SliceStatus
    <3>. QED
      BY <3>1, <3>2, <2>2, <2>5, <1>0, <1>1 DEF TypeOK, Poll, sourceRows, batchRows
  <2>8. Bookkeeping'
    <3>1. \A v \in Workers : wk'[v].pc # "idle" => slice'[wk'[v].job] # "ABSENT"
      <4>1. slice'[wk'[w].job] # "ABSENT"
        BY <2>1, <2>4, <2>5, <2>6
      <4>2. \A v \in Workers \ {w} : wk[v].pc # "idle" =>
              wk[v].job \in Jobs /\ slice[wk[v].job] # "ABSENT"
        BY <1>0 DEF TypeOK, Bookkeeping
      <4>. QED
        BY <4>1, <4>2, <2>3, <2>6
    <3>2. \A v \in Workers : Cleaning(v)' => v # w /\ wk'[v] = wk[v]
      BY <2>1, <2>3, <2>4 DEF Cleaning
    <3>. QED
      BY <3>1, <3>2, <2>5, <2>6, <1>0, <1>2 DEF Bookkeeping, sourceRows, batchRows, Jobs,
                                           Cleaning, StageAt, SourceAt
  <2>9. JudgedAlone'
    BY <2>1, <2>3, <2>4, <1>0, OthersJudge DEF sourceRows
  <2>. QED
    BY <2>6, <2>7, <2>8, <2>9, <1>0, QueueStep DEF sourceRows
<1>. QED
  BY <1>3, <1>4 DEF Poll

\* A step of one worker that changes only its own record, does not judge, and
\* is not cleaning on a batch that is gone.
LEMMA OwnStep ==
  ASSUME GovernanceInv, NEW w \in Workers, NEW r \in Worker,
         r.pc # "idle" => r.job = wk[w].job /\ wk[w].pc # "idle",
         r.pc \notin {"blocked", "passed", "written"},
         r.pc = "loaded" => r.found = batch[SourceAt(w)],
         wk' = [wk EXCEPT ![w] = r],
         UNCHANGED <<source, raw, batchRows>>,
         collected' = collected, answer' = answer,
         task' \in [Jobs -> TaskStatus], slice' \in [Jobs -> SliceStatus],
         lease' \in [Jobs -> Nat], attempts' \in [Jobs -> Nat], expired' \subseteq Jobs,
         \A j \in Jobs : slice'[j] = "ABSENT" <=> slice[j] = "ABSENT",
         \A j \in Jobs : task'[j] = "ABSENT" <=> task[j] = "ABSENT",
         \A j \in Jobs : slice'[j] = "SUCCEEDED" => slice[j] = "SUCCEEDED"
  PROVE  GovernanceInv'
<1>0. TypeOK /\ Bookkeeping /\ UNCHANGED batchRows
  BY DEF GovernanceInv
<1>1. wk'[w] = r /\ \A v \in Workers \ {w} : wk'[v] = wk[v]
  BY <1>0 DEF TypeOK
<1>2. r.pc # "idle" => r.job \in Jobs /\ slice[r.job] # "ABSENT"
  BY <1>0, WorkerJob DEF Bookkeeping
<1>3. TypeOK'
  <2>1. /\ wk' \in [Workers -> Worker]
        /\ \A v \in Workers : wk'[v].pc # "idle" => wk'[v].job \in Jobs
    BY <1>0, <1>2, WorkersType
  <2>. QED
    BY <2>1, <1>0 DEF TypeOK, batchRows
<1>4. Bookkeeping'
  <2>1. \A v \in Workers : wk'[v].pc # "idle" => slice'[wk'[v].job] # "ABSENT"
    BY <1>0, <1>1, <1>2, WorkerJob DEF Bookkeeping
  <2>2. ASSUME Cleaning(w)', wk'[w].found # "ABSENT" PROVE batch'[SourceAt(w)'] # "ABSENT"
    <3>1. r.pc = "loaded" /\ wk'[w].found = batch[SourceAt(w)] /\ r.job = wk[w].job
      BY <2>2, <1>1 DEF Cleaning
    <3>. QED
      BY <2>2, <3>1, <1>0, <1>1 DEF SourceAt, batchRows
  <2>3. \A v \in Workers : Cleaning(v)' /\ wk'[v].found # "ABSENT" =>
          batch'[SourceAt(v)'] # "ABSENT"
    BY <2>2, <1>0, <1>1 DEF Bookkeeping, Cleaning, StageAt, SourceAt, batchRows
  <2>. QED
    BY <2>1, <2>3, <1>0 DEF Bookkeeping, batchRows, Jobs
<1>5. JudgedAlone'
  BY <1>0, <1>1, OthersJudge
<1>. QED
  BY <1>0, <1>3, <1>4, <1>5, QueueStep
LEMMA PrepareInv ==
  ASSUME GovernanceInv, NEW w \in Workers, Prepare(w)
  PROVE  GovernanceInv'
<1>. DEFINE r == [wk[w] EXCEPT !.pc = "prepared"]
<1>0. TypeOK /\ Bookkeeping /\ wk[w].pc = "claimed"
  BY DEF GovernanceInv, Prepare
<1>1. /\ r \in Worker /\ r.pc = "prepared" /\ r.job = wk[w].job
      /\ wk' = [wk EXCEPT ![w] = r]
  BY <1>0, WorkerType DEF Prepare, Worker
<1>2. /\ task' \in [Jobs -> TaskStatus]
      /\ \A j \in Jobs : task'[j] = "ABSENT" <=> task[j] = "ABSENT"
  BY <1>0, WorkerJob DEF Prepare, TypeOK, TaskStatus, Bookkeeping
<1>3. /\ UNCHANGED <<source, raw, batchRows>> /\ collected' = collected /\ answer' = answer
      /\ UNCHANGED <<slice, lease, attempts, expired>>
  BY DEF Prepare, sourceRows
<1>4. /\ slice' \in [Jobs -> SliceStatus] /\ lease' \in [Jobs -> Nat]
      /\ attempts' \in [Jobs -> Nat] /\ expired' \subseteq Jobs
  BY <1>0, <1>3 DEF TypeOK
<1>. HIDE DEF r
<1>. QED
  BY <1>0, <1>1, <1>2, <1>3, <1>4, OwnStep

LEMMA LoadedType ==
  ASSUME NEW x \in Worker, NEW f \in BOOLEAN, NEW s \in TaskStatus, NEW b \in BatchStatus
  PROVE  [x EXCEPT !.pc = "loaded", !.fresh = f, !.seen = s, !.found = b] \in Worker
<1>1. [x EXCEPT !.pc = "loaded"] \in Worker
  BY DEF Worker
<1>2. \A y \in Worker : [y EXCEPT !.fresh = f] \in Worker
  BY DEF Worker
<1>3. \A y \in Worker : [y EXCEPT !.seen = s] \in Worker
  BY DEF Worker
<1>4. \A y \in Worker : [y EXCEPT !.found = b] \in Worker
  BY DEF Worker
<1>. QED
  BY <1>1, <1>2, <1>3, <1>4

LEMMA LoadInv ==
  ASSUME GovernanceInv, NEW w \in Workers, NEW fresh \in BOOLEAN, Load(w, fresh)
  PROVE  GovernanceInv'
<1>. DEFINE r == [wk[w] EXCEPT !.pc = "loaded", !.fresh = fresh,
                               !.seen = task[wk[w].job], !.found = batch[SourceAt(w)]]
<1>0. TypeOK /\ wk[w].pc = "prepared"
  BY DEF GovernanceInv, Load
<1>1. /\ r \in Worker /\ r.pc = "loaded" /\ r.job = wk[w].job /\ r.found = batch[SourceAt(w)]
      /\ wk' = [wk EXCEPT ![w] = r]
  <2>1. task[wk[w].job] \in TaskStatus /\ batch[SourceAt(w)] \in BatchStatus
    BY <1>0, WorkerJob DEF TypeOK
  <2>2. wk' = [wk EXCEPT ![w] = r]
    BY DEF Load
  <2>3. r.pc = "loaded" /\ r.job = wk[w].job /\ r.found = batch[SourceAt(w)]
        /\ r.fresh = fresh /\ r.seen = task[wk[w].job]
    BY <1>0, WorkerType DEF Worker
  <2>4. r \in Worker
    BY <2>1, <1>0, WorkerType, LoadedType
  <2>. QED
    BY <2>2, <2>3, <2>4
<1>2. /\ UNCHANGED <<source, raw, batchRows>> /\ collected' = collected /\ answer' = answer
      /\ UNCHANGED <<task, slice, lease, attempts, expired>>
  BY DEF Load, sourceRows, queueRows
<1>3. /\ task' \in [Jobs -> TaskStatus] /\ slice' \in [Jobs -> SliceStatus]
      /\ lease' \in [Jobs -> Nat] /\ attempts' \in [Jobs -> Nat] /\ expired' \subseteq Jobs
  BY <1>0, <1>2 DEF TypeOK
<1>. HIDE DEF r
<1>. QED
  BY <1>0, <1>1, <1>2, <1>3, OwnStep

\* CleanConflict and Raise: the transaction is rolled back.
LEMMA FailingInv ==
  ASSUME GovernanceInv, NEW w \in Workers, wk[w].pc # "idle",
         wk' = [wk EXCEPT ![w].pc = "failing"],
         UNCHANGED <<sourceRows, queueRows, batchRows>>
  PROVE  GovernanceInv'
<1>. DEFINE r == [wk[w] EXCEPT !.pc = "failing"]
<1>0. TypeOK
  BY DEF GovernanceInv
<1>1. /\ r \in Worker /\ r.pc = "failing" /\ r.job = wk[w].job
      /\ wk' = [wk EXCEPT ![w] = r]
  BY <1>0, WorkerType DEF Worker
<1>. QED
  BY <1>0, <1>1, OwnStep DEF TypeOK, sourceRows, queueRows

LEMMA FailClaimInv ==
  ASSUME GovernanceInv, NEW w \in Workers, FailClaim(w)
  PROVE  GovernanceInv'
<1>0. TypeOK /\ Bookkeeping /\ wk[w].pc = "failing" /\ wk' = [wk EXCEPT ![w] = Idle]
  BY DEF GovernanceInv, FailClaim
<1>1. wk[w].job \in Jobs /\ slice[wk[w].job] # "ABSENT" /\ task[wk[w].job] # "ABSENT"
  BY <1>0, WorkerJob DEF Bookkeeping
<1>2. /\ task' \in [Jobs -> TaskStatus] /\ slice' \in [Jobs -> SliceStatus]
      /\ lease' \in [Jobs -> Nat] /\ expired' \subseteq Jobs
      /\ \A j \in Jobs : slice'[j] = "ABSENT" <=> slice[j] = "ABSENT"
      /\ \A j \in Jobs : task'[j] = "ABSENT" <=> task[j] = "ABSENT"
      /\ \A j \in Jobs : slice'[j] = "SUCCEEDED" => slice[j] = "SUCCEEDED"
  <2>1. CASE HoldsLease(w)
    <3>1. /\ slice' = [slice EXCEPT ![wk[w].job] = "FAILED"]
          /\ lease' = [lease EXCEPT ![wk[w].job] = 0]
          /\ task' = [task EXCEPT ![wk[w].job] = "FAILED"]
          /\ expired' = expired \ {wk[w].job}
      BY <2>1 DEF FailClaim
    <3>2. task' \in [Jobs -> TaskStatus] /\ slice' \in [Jobs -> SliceStatus]
          /\ lease' \in [Jobs -> Nat] /\ expired' \subseteq Jobs
      BY <3>1, <1>0 DEF TypeOK, TaskStatus, SliceStatus
    <3>. QED
      BY <3>1, <3>2, <1>0, <1>1 DEF TypeOK
  <2>2. CASE ~HoldsLease(w)
    BY <2>2, <1>0 DEF FailClaim, TypeOK
  <2>. QED
    BY <2>1, <2>2
<1>. QED
  BY <1>0, <1>2, IdleType, OwnStep DEF FailClaim, TypeOK, sourceRows

LEMMA CrashInv ==
  ASSUME GovernanceInv, NEW w \in Workers, Crash(w)
  PROVE  GovernanceInv'
<1>0. TypeOK /\ wk' = [wk EXCEPT ![w] = Idle]
  BY DEF GovernanceInv, Crash
<1>. QED
  BY <1>0, IdleType, OwnStep DEF Crash, TypeOK, sourceRows, queueRows

\* Steps of nobody's worker: leases expire and operators write.
LEMMA OutsideStep ==
  ASSUME GovernanceInv, UNCHANGED <<sourceRows, batchRows, wk, lease, attempts>>,
         task' \in [Jobs -> TaskStatus], slice' \in [Jobs -> SliceStatus],
         expired' \subseteq Jobs,
         \A j \in Jobs : slice'[j] = "ABSENT" <=> slice[j] = "ABSENT",
         \A j \in Jobs : task'[j] = "ABSENT" <=> task[j] = "ABSENT",
         \A j \in Jobs : slice'[j] = "SUCCEEDED" => slice[j] = "SUCCEEDED"
  PROVE  GovernanceInv'
<1>0. TypeOK /\ Bookkeeping /\ UNCHANGED batchRows
  BY DEF GovernanceInv
<1>1. TypeOK'
  BY <1>0 DEF TypeOK, sourceRows, batchRows
<1>2. Bookkeeping'
  <2>1. \A v \in Workers : wk[v].pc # "idle" => slice'[wk[v].job] # "ABSENT"
    BY <1>0 DEF TypeOK, Bookkeeping
  <2>. QED
    BY <2>1, <1>0 DEF Bookkeeping, Cleaning, StageAt, SourceAt, sourceRows, batchRows, Jobs
<1>3. JudgedAlone'
  BY <1>0, WorkersRest DEF sourceRows
<1>. QED
  BY <1>0, <1>1, <1>2, <1>3, QueueStep DEF sourceRows

LEMMA LeaseExpiresInv ==
  ASSUME GovernanceInv, NEW j \in Jobs, LeaseExpires(j)
  PROVE  GovernanceInv'
<1>0. TypeOK
  BY DEF GovernanceInv
<1>. QED
  BY <1>0, OutsideStep DEF LeaseExpires, TypeOK

LEMMA RequestInv ==
  ASSUME GovernanceInv, NEW kind \in Requests, NEW j \in Jobs, Request(kind, j)
  PROVE  GovernanceInv'
<1>0. TypeOK /\ Bookkeeping
  BY DEF GovernanceInv
<1>1. kind \in {"pause", "resume", "cancel", "retry"}
  OBVIOUS
<1>2. task[j] # "ABSENT" /\ slice[j] # "ABSENT"
  BY <1>0, <1>1 DEF Request, Admits, Bookkeeping
<1>3. Target(kind) \in TaskStatus /\ Target(kind) # "ABSENT"
  BY <1>1 DEF Target, TaskStatus
<1>4. /\ SliceAfterRequest(kind, j) \in SliceStatus
      /\ SliceAfterRequest(kind, j) # "ABSENT"
      /\ SliceAfterRequest(kind, j) = "SUCCEEDED" => slice[j] = "SUCCEEDED"
  BY <1>0, <1>1, <1>2 DEF SliceAfterRequest, SliceStatus, TypeOK
<1>5. /\ task' \in [Jobs -> TaskStatus] /\ slice' \in [Jobs -> SliceStatus]
      /\ \A i \in Jobs : slice'[i] = "ABSENT" <=> slice[i] = "ABSENT"
      /\ \A i \in Jobs : task'[i] = "ABSENT" <=> task[i] = "ABSENT"
      /\ \A i \in Jobs : slice'[i] = "SUCCEEDED" => slice[i] = "SUCCEEDED"
  BY <1>0, <1>2, <1>3, <1>4 DEF Request, TypeOK
<1>. QED
  BY <1>0, <1>5, OutsideStep DEF Request, TypeOK

-----------------------------------------------------------------------------
(* The steps that end a transaction of an executor.                        *)

\* What _complete_stage_task leaves of the queue rows.
LEMMA CompletedRows ==
  ASSUME GovernanceInv, NEW w \in Workers, wk[w].pc # "idle"
  PROVE  /\ CompletedTask(w) \in [Jobs -> TaskStatus]
         /\ CompletedSlice(w) \in [Jobs -> SliceStatus]
         /\ CompletedExpiry(w) \subseteq Jobs
         /\ \A j \in Jobs : CompletedSlice(w)[j] = "ABSENT" <=> slice[j] = "ABSENT"
         /\ \A j \in Jobs : CompletedTask(w)[j] = "ABSENT" <=> task[j] = "ABSENT"
         /\ \A j \in Jobs : CompletedSlice(w)[j] = "SUCCEEDED" =>
              slice[j] = "SUCCEEDED" \/ j = wk[w].job
<1>0. TypeOK /\ Bookkeeping
  BY DEF GovernanceInv
<1>1. wk[w].job \in Jobs /\ slice[wk[w].job] # "ABSENT" /\ task[wk[w].job] # "ABSENT"
  BY <1>0, WorkerJob DEF Bookkeeping
<1>2. /\ CompletedTask(w) \in [Jobs -> TaskStatus]
      /\ CompletedSlice(w) \in [Jobs -> SliceStatus]
      /\ CompletedExpiry(w) \subseteq Jobs
  BY <1>0, CompletedType
<1>3. \A j \in Jobs : CompletedTask(w)[j] = "ABSENT" <=> task[j] = "ABSENT"
  BY <1>0, <1>1 DEF CompletedTask, TypeOK
<1>. QED
  BY <1>0, <1>1, <1>2, <1>3 DEF CompletedSlice, TypeOK

\* A worker becomes idle; its last step may touch its batch and those it
\* supersedes, and make a quality stage.
LEMMA FinishBooks ==
  ASSUME GovernanceInv, NEW w \in Workers, wk' = [wk EXCEPT ![w] = Idle],
         UNCHANGED source,
         \A j \in Jobs : slice[j] # "ABSENT" => slice'[j] # "ABSENT",
         \A c \in Sources : slice'[<<"CLEAN", c>>] = "ABSENT" <=> slice[<<"CLEAN", c>>] = "ABSENT",
         \A j \in Jobs : task'[j] = "ABSENT" <=> slice'[j] = "ABSENT",
         \A c \in Sources : batch[c] # "ABSENT" => batch'[c] # "ABSENT",
         \A c \in Sources : source[c] = "OPEN" => batch'[c] = "ABSENT",
         \A c \in approved' : batch'[c] # "ABSENT"
  PROVE  Bookkeeping'
<1>0. TypeOK /\ Bookkeeping
  BY DEF GovernanceInv
<1>1. wk'[w].pc = "idle" /\ \A v \in Workers \ {w} : wk'[v] = wk[v]
  BY <1>0, IdleType DEF TypeOK
<1>2. \A v \in Workers : wk'[v].pc # "idle" => slice'[wk'[v].job] # "ABSENT"
  BY <1>0, <1>1 DEF TypeOK, Bookkeeping
<1>3. ASSUME NEW v \in Workers, Cleaning(v)', wk'[v].found # "ABSENT"
      PROVE  batch'[SourceAt(v)'] # "ABSENT"
  <2>1. v # w /\ wk'[v] = wk[v] /\ wk[v].pc # "idle"
    BY <1>1, <1>3 DEF Cleaning
  <2>2. SourceAt(v) \in Sources /\ SourceAt(v)' = SourceAt(v) /\ Cleaning(v)
    BY <1>0, <1>3, <2>1, WorkerJob DEF SourceAt, Cleaning, StageAt
  <2>. QED
    BY <1>0, <1>3, <2>1, <2>2 DEF Bookkeeping
<1>. QED
  BY <1>0, <1>2, <1>3 DEF Bookkeeping

LEMMA FinishJudged ==
  ASSUME GovernanceInv, NEW w \in Workers, wk' = [wk EXCEPT ![w] = Idle],
         UNCHANGED raw, approved \subseteq approved',
         \A v \in Workers \ {w} : Judging(v) => cand'[SourceAt(v)] = cand[SourceAt(v)]
  PROVE  JudgedAlone'
<1>0. TypeOK /\ JudgedAlone
  BY DEF GovernanceInv
<1>1. wk'[w].pc = "idle" /\ \A v \in Workers \ {w} : wk'[v] = wk[v]
  BY <1>0, IdleType DEF TypeOK
<1>2. \A v \in Workers : Judging(v)' => v # w /\ Judging(v) /\ SourceAt(v)' = SourceAt(v)
                                           /\ StageAt(v)' = StageAt(v)
  BY <1>1 DEF Judging, SourceAt, StageAt
<1>3. \A v \in Workers : wk'[v].pc \in {"passed", "written"} =>
        /\ wk'[v] = wk[v] /\ SourceAt(v)' = SourceAt(v)
        /\ cand'[SourceAt(v)] = cand[SourceAt(v)]
        /\ (MustBlock(SourceAt(v)))' = MustBlock(SourceAt(v))
  <2>1. \A v \in Workers : wk'[v].pc \in {"passed", "written"} => Judging(v)'
    BY DEF Judging
  <2>. QED
    BY <1>1, <1>2, <2>1 DEF MustBlock, Normalised
<1>4. \A v \in Workers : Judging(v)' => (StageAt(v) = "QUALITY")'
  BY <1>0, <1>2 DEF JudgedAlone
<1>5. \A u, v \in Workers :
        (Judging(u) /\ Judging(v) /\ SourceAt(u) = SourceAt(v))' => u = v
  BY <1>0, <1>2 DEF JudgedAlone
<1>6. \A v \in Workers : wk'[v].pc \in {"passed", "written"} =>
        (/\ ~MustBlock(SourceAt(v)) /\ wk[v].changed \subseteq cand[SourceAt(v)]
         /\ KeysIn(wk[v].closing) \subseteq KeysIn(wk[v].changed))'
  <2>. SUFFICES ASSUME NEW v \in Workers, wk'[v].pc \in {"passed", "written"}
                PROVE  /\ (~MustBlock(SourceAt(v)))'
                       /\ wk'[v].changed \subseteq cand'[SourceAt(v)']
                       /\ KeysIn(wk'[v].closing) \subseteq KeysIn(wk'[v].changed)
    OBVIOUS
  <2>1. /\ ~MustBlock(SourceAt(v)) /\ wk[v].changed \subseteq cand[SourceAt(v)]
        /\ KeysIn(wk[v].closing) \subseteq KeysIn(wk[v].changed)
    BY <1>0, <1>3 DEF JudgedAlone
  <2>2. (MustBlock(SourceAt(v)))' = MustBlock(SourceAt(v))
    BY <1>3
  <2>3. wk'[v] = wk[v] /\ cand'[SourceAt(v)'] = cand[SourceAt(v)]
    BY <1>3
  <2>. QED
    BY <2>1, <2>2, <2>3
<1>7. \A v \in Workers : wk'[v].pc = "written" =>
        (\A d \in wk[v].sup : d \in approved /\ ScopeOf[d] = ScopeOf[SourceAt(v)])'
  BY <1>0, <1>3 DEF JudgedAlone
<1>. QED
  BY <1>4, <1>5, <1>6, <1>7 DEF JudgedAlone

\* The batch of a judging worker exists: it is at a quality slice.
LEMMA JudgedBatch ==
  ASSUME GovernanceInv, NEW w \in Workers, wk[w].pc # "idle", StageAt(w) = "QUALITY"
  PROVE  SourceAt(w) \in Sources /\ batch[SourceAt(w)] # "ABSENT"
<1>1. SourceAt(w) \in Sources /\ wk[w].job = <<"QUALITY", SourceAt(w)>>
  BY WorkerJob DEF GovernanceInv
<1>2. slice[wk[w].job] # "ABSENT"
  BY DEF GovernanceInv, Bookkeeping
<1>3. slice[<<"QUALITY", SourceAt(w)>>] # "ABSENT"
  BY <1>1, <1>2
<1>. QED
  BY <1>1, <1>3 DEF GovernanceInv, QualityFollowsClean

-----------------------------------------------------------------------------
(* Steps of CleanExecutor.                                                 *)

\* The slice of a clean job becomes SUCCEEDED when its batch exists.
LEMMA CleanCompletes ==
  ASSUME GovernanceInv, NEW w \in Workers, CompleteStage(w), wk[w].pc # "idle",
         StageAt(w) = "CLEAN", batch[SourceAt(w)] # "ABSENT",
         UNCHANGED <<sourceRows, batchRows>>
  PROVE  GovernanceInv'
<1>0. TypeOK /\ Bookkeeping /\ UNCHANGED sourceRows /\ UNCHANGED batchRows
  BY DEF GovernanceInv
<1>1. /\ task' = CompletedTask(w) /\ slice' = CompletedSlice(w)
      /\ expired' = CompletedExpiry(w) /\ wk' = [wk EXCEPT ![w] = Idle]
      /\ UNCHANGED <<lease, attempts>>
  BY DEF CompleteStage
<1>2. wk[w].job = <<"CLEAN", SourceAt(w)>> /\ SourceAt(w) \in Sources
  BY <1>0, WorkerJob
<1>3. /\ task' \in [Jobs -> TaskStatus] /\ slice' \in [Jobs -> SliceStatus]
      /\ expired' \subseteq Jobs
      /\ \A j \in Jobs : slice'[j] = "ABSENT" <=> slice[j] = "ABSENT"
      /\ \A j \in Jobs : task'[j] = "ABSENT" <=> task[j] = "ABSENT"
      /\ \A j \in Jobs : slice'[j] = "SUCCEEDED" => slice[j] = "SUCCEEDED" \/ j = wk[w].job
  BY <1>1, CompletedRows
<1>9. ASSUME NEW c \in Sources
      PROVE  /\ slice'[<<"CLEAN", c>>] = "ABSENT" <=> slice[<<"CLEAN", c>>] = "ABSENT"
             /\ slice'[<<"QUALITY", c>>] = "ABSENT" <=> slice[<<"QUALITY", c>>] = "ABSENT"
             /\ slice'[<<"CLEAN", c>>] = "SUCCEEDED" =>
                  slice[<<"CLEAN", c>>] = "SUCCEEDED" \/ c = SourceAt(w)
             /\ slice'[<<"QUALITY", c>>] = "SUCCEEDED" => slice[<<"QUALITY", c>>] = "SUCCEEDED"
  <2>1. <<"CLEAN", c>> \in Jobs /\ <<"QUALITY", c>> \in Jobs
    BY DEF Jobs
  <2>2. <<"QUALITY", c>> # wk[w].job /\ (<<"CLEAN", c>> = wk[w].job => c = SourceAt(w))
    BY <1>2
  <2>. QED
    BY <2>1, <2>2, <1>3
<1>4. TypeOK'
  <2>1. /\ wk' \in [Workers -> Worker]
        /\ \A v \in Workers : wk'[v].pc # "idle" => wk'[v].job \in Jobs
    BY <1>0, <1>1, IdleType, WorkersType
  <2>. QED
    BY <2>1, <1>0, <1>1, <1>3 DEF TypeOK, sourceRows, batchRows
<1>5. Bookkeeping'
  <2>1. \A j \in Jobs : task'[j] = "ABSENT" <=> slice'[j] = "ABSENT"
    BY <1>0, <1>3 DEF Bookkeeping
  <2>2. UNCHANGED source /\ UNCHANGED batch /\ UNCHANGED approved
    BY <1>0 DEF sourceRows, batchRows
  <2>3. \A j \in Jobs : slice[j] # "ABSENT" => slice'[j] # "ABSENT"
    BY <1>3
  <2>4. /\ \A c \in Sources : source[c] = "OPEN" => batch'[c] = "ABSENT"
        /\ \A c \in approved' : batch'[c] # "ABSENT"
    BY <2>2, <1>0 DEF Bookkeeping
  <2>. QED
    BY <2>1, <2>2, <2>3, <2>4, <1>1, <1>9, FinishBooks
<1>6. JudgedAlone'
  BY <1>0, <1>1, FinishJudged DEF sourceRows, batchRows
<1>7. QualityFollowsClean'
  BY <1>0, <1>9 DEF GovernanceInv, QualityFollowsClean, batchRows
<1>8. DoneMeansDone'
  BY <1>0, <1>9 DEF GovernanceInv, DoneMeansDone, batchRows
<1>. QED
  BY <1>0, <1>4, <1>5, <1>6, <1>7, <1>8, DataKept DEF GovernanceInv, sourceRows

LEMMA CleanAgainInv ==
  ASSUME GovernanceInv, NEW w \in Workers, CleanAgain(w)
  PROVE  GovernanceInv'
<1>0. /\ TypeOK /\ Bookkeeping /\ wk[w].pc = "loaded" /\ StageAt(w) = "CLEAN"
      /\ wk[w].found # "ABSENT" /\ UNCHANGED <<sourceRows, batchRows>>
  BY DEF GovernanceInv, CleanAgain, Cleaning
<1>1. batch[SourceAt(w)] # "ABSENT"
  BY <1>0 DEF Bookkeeping, Cleaning
<1>2. <<"QUALITY", SourceAt(w)>> \in Jobs /\ task[<<"QUALITY", SourceAt(w)>>] # "ABSENT"
  <2>1. SourceAt(w) \in Sources
    BY <1>0, WorkerJob
  <2>2. slice[<<"QUALITY", SourceAt(w)>>] # "ABSENT"
    BY <2>1, <1>1 DEF GovernanceInv, QualityFollowsClean
  <2>. QED
    BY <2>1, <2>2, <1>0 DEF Bookkeeping, Jobs
<1>3. CompleteStage(w)
  BY <1>2 DEF CleanAgain, CompleteAndEnqueueQuality, CompleteStage
<1>. QED
  BY <1>0, <1>1, <1>3, CleanCompletes

\* The new batch, its candidates and its quality stage appear in one step.
LEMMA CleanNewInv ==
  ASSUME GovernanceInv, NEW w \in Workers, CleanNew(w)
  PROVE  GovernanceInv'
<1>. DEFINE c == SourceAt(w)
            q == <<"QUALITY", c>>
<1>0. /\ TypeOK /\ Bookkeeping /\ wk[w].pc = "loaded" /\ StageAt(w) = "CLEAN"
      /\ batch[c] = "ABSENT" /\ UNCHANGED sourceRows /\ UNCHANGED raw
      /\ UNCHANGED <<approved, supersededBy, table, history>>
      /\ batch' = [batch EXCEPT ![c] = "CANDIDATE"]
      /\ cand' = [cand EXCEPT ![c] = Normalised(c)]
      /\ expired' = CompletedExpiry(w) /\ wk' = [wk EXCEPT ![w] = Idle]
      /\ UNCHANGED <<lease, attempts>>
  BY DEF GovernanceInv, CleanNew, NewBatch, Cleaning, CompleteAndEnqueueQuality, sourceRows
<1>1. wk[w].job = <<"CLEAN", c>> /\ c \in Sources /\ q \in Jobs /\ wk[w].job \in Jobs
  BY <1>0, WorkerJob DEF Jobs
<1>2. slice[q] = "ABSENT" /\ task[q] = "ABSENT" /\ slice[wk[w].job] # "ABSENT"
  BY <1>0, <1>1 DEF GovernanceInv, QualityFollowsClean, Bookkeeping
<1>3. /\ task' = [CompletedTask(w) EXCEPT ![q] = "PENDING"]
      /\ slice' = [CompletedSlice(w) EXCEPT ![q] = "PENDING"]
  BY <1>2 DEF CleanNew, CompleteAndEnqueueQuality
<1>4. /\ CompletedTask(w) \in [Jobs -> TaskStatus]
      /\ CompletedSlice(w) \in [Jobs -> SliceStatus]
      /\ CompletedExpiry(w) \subseteq Jobs
      /\ \A j \in Jobs : CompletedSlice(w)[j] = "ABSENT" <=> slice[j] = "ABSENT"
      /\ \A j \in Jobs : CompletedTask(w)[j] = "ABSENT" <=> task[j] = "ABSENT"
      /\ \A j \in Jobs : CompletedSlice(w)[j] = "SUCCEEDED" =>
           slice[j] = "SUCCEEDED" \/ j = wk[w].job
  BY <1>0, CompletedRows
<1>5. /\ task' \in [Jobs -> TaskStatus] /\ slice' \in [Jobs -> SliceStatus]
      /\ \A j \in Jobs : j # q => /\ slice'[j] = "ABSENT" <=> slice[j] = "ABSENT"
                                  /\ task'[j] = "ABSENT" <=> task[j] = "ABSENT"
                                  /\ slice'[j] = "SUCCEEDED" => slice[j] = "SUCCEEDED" \/ j = wk[w].job
      /\ slice'[q] = "PENDING" /\ task'[q] = "PENDING"
  BY <1>1, <1>3, <1>4 DEF TaskStatus, SliceStatus
<1>6. /\ batch'[c] = "CANDIDATE" /\ cand'[c] = Normalised(c)
      /\ \A d \in Sources : d # c => batch'[d] = batch[d] /\ cand'[d] = cand[d]
  BY <1>0, <1>1 DEF TypeOK
<1>7. ASSUME NEW d \in Sources
      PROVE  /\ slice'[<<"CLEAN", d>>] = "ABSENT" <=> slice[<<"CLEAN", d>>] = "ABSENT"
             /\ slice'[<<"QUALITY", d>>] = "ABSENT" <=> (slice[<<"QUALITY", d>>] = "ABSENT" /\ d # c)
             /\ slice'[<<"CLEAN", d>>] = "SUCCEEDED" =>
                  slice[<<"CLEAN", d>>] = "SUCCEEDED" \/ d = c
             /\ slice'[<<"QUALITY", d>>] = "SUCCEEDED" =>
                  slice[<<"QUALITY", d>>] = "SUCCEEDED" /\ d # c
  <2>1. <<"CLEAN", d>> \in Jobs /\ <<"QUALITY", d>> \in Jobs /\ <<"CLEAN", d>> # q
    BY DEF Jobs
  <2>2. /\ <<"QUALITY", d>> # wk[w].job /\ (<<"CLEAN", d>> = wk[w].job => d = c)
        /\ (<<"QUALITY", d>> = q => d = c)
    BY <1>1
  <2>. QED
    BY <2>1, <2>2, <1>2, <1>5
<1>8. TypeOK'
  <2>1. /\ wk' \in [Workers -> Worker]
        /\ \A v \in Workers : wk'[v].pc # "idle" => wk'[v].job \in Jobs
    BY <1>0, IdleType, WorkersType
  <2>2. batch' \in [Sources -> BatchStatus] /\ cand' \in [Sources -> SUBSET Row]
    BY <1>0, <1>1 DEF TypeOK, BatchStatus, Normalised
  <2>. QED
    BY <2>1, <2>2, <1>0, <1>4, <1>5 DEF TypeOK, sourceRows
<1>9. Bookkeeping'
  <2>1. \A j \in Jobs : task'[j] = "ABSENT" <=> slice'[j] = "ABSENT"
    BY <1>0, <1>5 DEF Bookkeeping
  <2>2. \A j \in Jobs : slice[j] # "ABSENT" => slice'[j] # "ABSENT"
    BY <1>2, <1>5
  <2>3. \A d \in Sources : slice'[<<"CLEAN", d>>] = "ABSENT" <=> slice[<<"CLEAN", d>>] = "ABSENT"
    BY <1>7
  <2>4. \A d \in Sources : source[d] = "OPEN" => batch'[d] = "ABSENT"
    <3>1. source[c] # "OPEN"
      BY <1>0, <1>1, <1>2 DEF Bookkeeping
    <3>. QED
      BY <3>1, <1>0, <1>1, <1>6 DEF Bookkeeping
  <2>5. UNCHANGED source
    BY <1>0 DEF sourceRows
  <2>6. /\ \A d \in Sources : batch[d] # "ABSENT" => batch'[d] # "ABSENT"
        /\ \A d \in approved' : batch'[d] # "ABSENT"
    BY <1>0, <1>6 DEF Bookkeeping, TypeOK
  <2>. QED
    BY <2>1, <2>2, <2>3, <2>4, <2>5, <2>6, <1>0, FinishBooks
<1>10. JudgedAlone'
  <2>1. \A v \in Workers : Judging(v) => SourceAt(v) \in Sources /\ batch[SourceAt(v)] # "ABSENT"
    BY JudgedBatch DEF GovernanceInv, JudgedAlone, Judging
  <2>2. \A v \in Workers \ {w} : Judging(v) => cand'[SourceAt(v)] = cand[SourceAt(v)]
    BY <2>1, <1>0, <1>6
  <2>. QED
    BY <2>2, <1>0, FinishJudged
<1>11. QualityFollowsClean'
  <2>. SUFFICES ASSUME NEW d \in Sources
                PROVE  batch'[d] # "ABSENT" <=> slice'[<<"QUALITY", d>>] # "ABSENT"
    BY DEF QualityFollowsClean
  <2>1. batch[d] # "ABSENT" <=> slice[<<"QUALITY", d>>] # "ABSENT"
    BY DEF GovernanceInv, QualityFollowsClean
  <2>2. slice'[<<"QUALITY", d>>] = "ABSENT" <=> (slice[<<"QUALITY", d>>] = "ABSENT" /\ d # c)
    BY <1>7
  <2>3. IF d = c THEN batch'[d] = "CANDIDATE" ELSE batch'[d] = batch[d]
    BY <1>6
  <2>. QED
    BY <2>1, <2>2, <2>3
<1>12. DoneMeansDone'
  <2>1. \A d \in Sources : slice'[<<"CLEAN", d>>] = "SUCCEEDED" => batch'[d] # "ABSENT"
    BY <1>6, <1>7 DEF GovernanceInv, DoneMeansDone
  <2>2. \A d \in Sources : slice'[<<"QUALITY", d>>] = "SUCCEEDED" => batch'[d] \in Judged
    BY <1>6, <1>7 DEF GovernanceInv, DoneMeansDone
  <2>. QED
    BY <2>1, <2>2 DEF DoneMeansDone
<1>13. CandidatesKept'
  <2>1. c \notin approved
    BY <1>0 DEF Bookkeeping
  <2>. QED
    BY <2>1, <1>0, <1>6 DEF GovernanceInv, CandidatesKept, Normalised
<1>14. SupersededByApproved'
  BY <1>0, <1>6 DEF GovernanceInv, SupersededByApproved
<1>15. RowsWereApproved' /\ CurrentVersionOpen'
  BY <1>0 DEF GovernanceInv, RowsWereApproved, CurrentVersionOpen, Normalised
<1>. QED
  BY <1>8, <1>9, <1>10, <1>11, <1>12, <1>13, <1>14, <1>15 DEF GovernanceInv

-----------------------------------------------------------------------------
(* Steps of QualityExecutor.                                               *)

\* A worker begins or goes on judging its batch; only its own record changes.
LEMMA JudgeStep ==
  ASSUME GovernanceInv, NEW w \in Workers, wk[w].pc # "idle", StageAt(w) = "QUALITY",
         NEW r \in Worker, r.pc \in {"blocked", "passed", "written"}, r.job = wk[w].job,
         wk' = [wk EXCEPT ![w] = r],
         UNCHANGED <<sourceRows, queueRows, batchRows>>,
         \A v \in Workers \ {w} : Judging(v) => SourceAt(v) # SourceAt(w),
         r.pc \in {"passed", "written"} =>
           /\ ~MustBlock(SourceAt(w)) /\ r.changed \subseteq cand[SourceAt(w)]
           /\ KeysIn(r.closing) \subseteq KeysIn(r.changed),
         r.pc = "written" =>
           \A d \in r.sup : d \in approved /\ ScopeOf[d] = ScopeOf[SourceAt(w)]
  PROVE  GovernanceInv'
<1>0. /\ TypeOK /\ Bookkeeping /\ JudgedAlone /\ wk[w].job \in Jobs
      /\ UNCHANGED sourceRows /\ UNCHANGED queueRows /\ UNCHANGED batchRows
  BY WorkerJob DEF GovernanceInv
<1>1. wk'[w] = r /\ \A v \in Workers \ {w} : wk'[v] = wk[v]
  BY <1>0 DEF TypeOK
<1>2. \A v \in Workers : StageAt(v)' = StageAt(v) /\ SourceAt(v)' = SourceAt(v)
  BY <1>1 DEF StageAt, SourceAt
<1>3. TypeOK'
  <2>1. /\ wk' \in [Workers -> Worker]
        /\ \A v \in Workers : wk'[v].pc # "idle" => wk'[v].job \in Jobs
    BY <1>0, WorkersType
  <2>. QED
    BY <2>1, <1>0 DEF TypeOK, sourceRows, queueRows, batchRows
<1>4. Bookkeeping'
  <2>1. \A v \in Workers : wk'[v].pc # "idle" => slice[wk'[v].job] # "ABSENT"
    BY <1>0, <1>1 DEF Bookkeeping
  <2>2. \A v \in Workers : Cleaning(v)' => v # w /\ Cleaning(v)
    BY <1>1, <1>2 DEF Cleaning
  <2>. QED
    BY <2>1, <2>2, <1>0, <1>1, <1>2 DEF Bookkeeping, sourceRows, queueRows, batchRows
<1>5. JudgedAlone'
  <2>1. \A v \in Workers : Judging(v)' => Judging(v) \/ v = w
    BY <1>1 DEF Judging
  <2>2. \A v \in Workers : Judging(v)' => (StageAt(v) = "QUALITY")'
    BY <2>1, <1>0, <1>2 DEF JudgedAlone
  <2>3. ASSUME NEW u \in Workers, NEW v \in Workers, Judging(u)', Judging(v)',
               SourceAt(u)' = SourceAt(v)'
        PROVE  u = v
    BY <2>1, <2>3, <1>0, <1>2 DEF JudgedAlone
  <2>4. \A v \in Workers : (MustBlock(SourceAt(v)))' = MustBlock(SourceAt(v))
    BY <1>0, <1>2 DEF MustBlock, Normalised, sourceRows, batchRows
  <2>5. ASSUME NEW v \in Workers, wk'[v].pc \in {"passed", "written"}
        PROVE  /\ (~MustBlock(SourceAt(v)))'
               /\ wk'[v].changed \subseteq cand'[SourceAt(v)']
               /\ KeysIn(wk'[v].closing) \subseteq KeysIn(wk'[v].changed)
    <3>1. UNCHANGED cand
      BY <1>0 DEF batchRows
    <3>2. CASE v = w
      BY <3>1, <3>2, <2>4, <2>5, <1>1, <1>2
    <3>3. CASE v # w
      BY <3>1, <3>3, <2>4, <2>5, <1>0, <1>1, <1>2 DEF JudgedAlone
    <3>. QED
      BY <3>2, <3>3
  <2>6. ASSUME NEW v \in Workers, wk'[v].pc = "written"
        PROVE  \A d \in wk'[v].sup : d \in approved' /\ ScopeOf[d] = ScopeOf[SourceAt(v)']
    BY <2>6, <1>0, <1>1, <1>2 DEF JudgedAlone, batchRows
  <2>. QED
    BY <2>2, <2>3, <2>5, <2>6 DEF JudgedAlone
<1>. QED
  BY <1>3, <1>4, <1>5, <1>0, QueueStep DEF sourceRows, queueRows

LEMMA BlockedType ==
  ASSUME NEW x \in Worker
  PROVE  [x EXCEPT !.pc = "blocked"] \in Worker
BY DEF Worker

LEMMA PassedType ==
  ASSUME NEW x \in Worker, NEW ch \in SUBSET Row, NEW cl \in SUBSET Version
  PROVE  [x EXCEPT !.pc = "passed", !.changed = ch, !.closing = cl] \in Worker
<1>1. [x EXCEPT !.pc = "passed"] \in Worker
  BY DEF Worker
<1>2. \A y \in Worker : [y EXCEPT !.changed = ch] \in Worker
  BY DEF Worker
<1>3. \A y \in Worker : [y EXCEPT !.closing = cl] \in Worker
  BY DEF Worker
<1>. QED
  BY <1>1, <1>2, <1>3

LEMMA WrittenType ==
  ASSUME NEW x \in Worker, NEW s \in SUBSET Sources
  PROVE  [x EXCEPT !.pc = "written", !.sup = s] \in Worker
<1>1. [x EXCEPT !.pc = "written"] \in Worker
  BY DEF Worker
<1>2. \A y \in Worker : [y EXCEPT !.sup = s] \in Worker
  BY DEF Worker
<1>. QED
  BY <1>1, <1>2

LEMMA ValidateInv ==
  ASSUME GovernanceInv, NEW w \in Workers, NEW pass \in BOOLEAN, Validate(w, pass)
  PROVE  GovernanceInv'
<1>. DEFINE c  == SourceAt(w)
            ok == [wk[w] EXCEPT !.pc = "passed", !.changed = Changed(c),
                                !.closing = OpenVersions(Changed(c))]
            no == [wk[w] EXCEPT !.pc = "blocked"]
<1>0. /\ TypeOK /\ wk[w] \in Worker /\ wk[w].pc # "idle" /\ StageAt(w) = "QUALITY"
      /\ UNCHANGED <<sourceRows, queueRows, batchRows>>
  BY WorkerType DEF GovernanceInv, Validate
<1>1. \A v \in Workers \ {w} : Judging(v) => SourceAt(v) # c
  BY DEF Validate, BatchRowFreeFor
<1>2. CASE pass /\ ~MustBlock(c)
  <2>1. wk' = [wk EXCEPT ![w] = ok]
    BY <1>2 DEF Validate
  <2>2. Changed(c) \subseteq cand[c] /\ Changed(c) \subseteq Row
        /\ OpenVersions(Changed(c)) \subseteq Version
        /\ KeysIn(OpenVersions(Changed(c))) \subseteq KeysIn(Changed(c))
    <3>1. c \in Sources
      BY <1>0, WorkerJob
    <3>. QED
      BY <3>1, <1>0 DEF Changed, OpenVersions, KeysIn, TypeOK
  <2>3. ok \in Worker
    BY <2>2, <1>0, PassedType
  <2>4. ok.pc = "passed" /\ ok.job = wk[w].job /\ ok.changed = Changed(c)
        /\ ok.closing = OpenVersions(Changed(c))
    BY <1>0 DEF Worker
  <2>. HIDE DEF ok
  <2>. QED
    BY <2>1, <2>2, <2>3, <2>4, <1>0, <1>1, <1>2, JudgeStep
<1>3. CASE ~(pass /\ ~MustBlock(c))
  <2>1. wk' = [wk EXCEPT ![w] = no]
    BY <1>3 DEF Validate
  <2>2. no \in Worker /\ no.pc = "blocked" /\ no.job = wk[w].job
    BY <1>0, BlockedType DEF Worker
  <2>. HIDE DEF no
  <2>. QED
    BY <2>1, <2>2, <1>0, <1>1, JudgeStep
<1>. QED
  BY <1>2, <1>3

LEMMA PublishInv ==
  ASSUME GovernanceInv, NEW w \in Workers, Publish(w)
  PROVE  GovernanceInv'
<1>. DEFINE sup == Replaced(w)
            r   == [wk[w] EXCEPT !.pc = "written", !.sup = sup]
<1>0. /\ TypeOK /\ JudgedAlone /\ wk[w] \in Worker /\ wk[w].pc = "passed" /\ Judging(w)
      /\ StageAt(w) = "QUALITY" /\ UNCHANGED <<sourceRows, queueRows, batchRows>>
  BY WorkerType DEF GovernanceInv, Publish, Judging, JudgedAlone
<1>1. \A v \in Workers \ {w} : Judging(v) => SourceAt(v) # SourceAt(w)
  BY <1>0 DEF JudgedAlone
<1>2. wk' = [wk EXCEPT ![w] = r]
  BY DEF Publish
<1>3. r \in Worker
  BY <1>0, WrittenType DEF Replaced
<1>4. r.pc = "written" /\ r.job = wk[w].job /\ r.changed = wk[w].changed
      /\ r.closing = wk[w].closing /\ r.sup = sup
  BY <1>0 DEF Worker
<1>5. \A d \in sup : d \in approved /\ ScopeOf[d] = ScopeOf[SourceAt(w)]
  BY DEF Replaced, GovernanceInv, SupersededByApproved
<1>6. /\ ~MustBlock(SourceAt(w)) /\ wk[w].changed \subseteq cand[SourceAt(w)]
      /\ KeysIn(wk[w].closing) \subseteq KeysIn(wk[w].changed)
  BY <1>0 DEF JudgedAlone
<1>. HIDE DEF r, sup
<1>. QED
  BY <1>0, <1>1, <1>2, <1>3, <1>4, <1>5, <1>6, JudgeStep

\* A verdict is committed: the slice of the quality job may become SUCCEEDED,
\* its batch gets a status, and other batches keep theirs or are superseded.
LEMMA Judgement ==
  ASSUME GovernanceInv, NEW w \in Workers, wk[w].pc # "idle", StageAt(w) = "QUALITY",
         CompleteStage(w), UNCHANGED sourceRows,
         batch' \in [Sources -> BatchStatus], cand' \in [Sources -> SUBSET Row],
         approved' \subseteq Sources, supersededBy' \in [Sources -> Sources \cup {NoSource}],
         table' \subseteq Published, OneRowPerKey(table'), history' \subseteq Version,
         batch'[SourceAt(w)] \in Judged,
         \A d \in Sources : batch'[d] = batch[d] \/ (batch[d] # "ABSENT" /\ batch'[d] \in Judged),
         approved \subseteq approved', approved' \subseteq approved \cup {SourceAt(w)},
         \A v \in Workers \ {w} : Judging(v) => cand'[SourceAt(v)] = cand[SourceAt(v)]
  PROVE  TypeOK' /\ Bookkeeping' /\ JudgedAlone' /\ QualityFollowsClean' /\ DoneMeansDone'
<1>0. TypeOK /\ Bookkeeping /\ UNCHANGED source /\ UNCHANGED raw
  BY DEF GovernanceInv, sourceRows
<1>1. /\ task' = CompletedTask(w) /\ slice' = CompletedSlice(w)
      /\ expired' = CompletedExpiry(w) /\ wk' = [wk EXCEPT ![w] = Idle]
      /\ UNCHANGED <<lease, attempts>>
  BY DEF CompleteStage
<1>2. /\ wk[w].job = <<"QUALITY", SourceAt(w)>> /\ SourceAt(w) \in Sources
      /\ batch[SourceAt(w)] # "ABSENT"
  BY <1>0, WorkerJob, JudgedBatch
<1>3. /\ task' \in [Jobs -> TaskStatus] /\ slice' \in [Jobs -> SliceStatus]
      /\ expired' \subseteq Jobs
      /\ \A j \in Jobs : slice'[j] = "ABSENT" <=> slice[j] = "ABSENT"
      /\ \A j \in Jobs : task'[j] = "ABSENT" <=> task[j] = "ABSENT"
      /\ \A j \in Jobs : slice'[j] = "SUCCEEDED" => slice[j] = "SUCCEEDED" \/ j = wk[w].job
  BY <1>1, CompletedRows
<1>4. ASSUME NEW d \in Sources
      PROVE  /\ slice'[<<"CLEAN", d>>] = "ABSENT" <=> slice[<<"CLEAN", d>>] = "ABSENT"
             /\ slice'[<<"QUALITY", d>>] = "ABSENT" <=> slice[<<"QUALITY", d>>] = "ABSENT"
             /\ slice'[<<"CLEAN", d>>] = "SUCCEEDED" => slice[<<"CLEAN", d>>] = "SUCCEEDED"
             /\ slice'[<<"QUALITY", d>>] = "SUCCEEDED" =>
                  slice[<<"QUALITY", d>>] = "SUCCEEDED" \/ d = SourceAt(w)
  <2>1. <<"CLEAN", d>> \in Jobs /\ <<"QUALITY", d>> \in Jobs
    BY DEF Jobs
  <2>2. <<"CLEAN", d>> # wk[w].job /\ (<<"QUALITY", d>> = wk[w].job => d = SourceAt(w))
    BY <1>2
  <2>. QED
    BY <2>1, <2>2, <1>3
<1>5. \A d \in Sources : batch'[d] = "ABSENT" <=> batch[d] = "ABSENT"
  BY DEF Judged
<1>6. TypeOK'
  <2>1. /\ wk' \in [Workers -> Worker]
        /\ \A v \in Workers : wk'[v].pc # "idle" => wk'[v].job \in Jobs
    BY <1>0, <1>1, IdleType, WorkersType
  <2>. QED
    BY <2>1, <1>0, <1>1, <1>3 DEF TypeOK, sourceRows
<1>7. Bookkeeping'
  <2>1. \A j \in Jobs : task'[j] = "ABSENT" <=> slice'[j] = "ABSENT"
    BY <1>0, <1>3 DEF Bookkeeping
  <2>2. \A j \in Jobs : slice[j] # "ABSENT" => slice'[j] # "ABSENT"
    BY <1>3
  <2>3. /\ \A d \in Sources : batch[d] # "ABSENT" => batch'[d] # "ABSENT"
        /\ \A d \in Sources : source[d] = "OPEN" => batch'[d] = "ABSENT"
        /\ \A d \in approved' : batch'[d] # "ABSENT"
    BY <1>0, <1>2, <1>5 DEF Bookkeeping, TypeOK
  <2>. QED
    BY <2>1, <2>2, <2>3, <1>0, <1>1, <1>4, FinishBooks
<1>8. JudgedAlone'
  BY <1>0, <1>1, FinishJudged
<1>9. QualityFollowsClean'
  BY <1>4, <1>5 DEF GovernanceInv, QualityFollowsClean
<1>10. DoneMeansDone'
  <2>1. \A d \in Sources : slice'[<<"CLEAN", d>>] = "SUCCEEDED" => batch'[d] # "ABSENT"
    BY <1>4, <1>5 DEF GovernanceInv, DoneMeansDone
  <2>2. \A d \in Sources : slice'[<<"QUALITY", d>>] = "SUCCEEDED" => batch'[d] \in Judged
    BY <1>4 DEF GovernanceInv, DoneMeansDone
  <2>. QED
    BY <2>1, <2>2 DEF DoneMeansDone
<1>. QED
  BY <1>6, <1>7, <1>8, <1>9, <1>10

LEMMA QualityBlockInv ==
  ASSUME GovernanceInv, NEW w \in Workers, QualityBlock(w)
  PROVE  GovernanceInv'
<1>. DEFINE c == SourceAt(w)
<1>0. /\ TypeOK /\ JudgedAlone /\ wk[w].pc = "blocked" /\ StageAt(w) = "QUALITY"
      /\ CompleteStage(w) /\ UNCHANGED sourceRows /\ UNCHANGED raw
      /\ UNCHANGED <<cand, approved, supersededBy, table, history>>
      /\ batch' = [batch EXCEPT ![c] = "BLOCKED"]
  BY DEF GovernanceInv, QualityBlock, JudgedAlone, Judging, sourceRows
<1>1. c \in Sources /\ batch[c] # "ABSENT"
  BY <1>0, JudgedBatch
<1>2. batch'[c] = "BLOCKED" /\ \A d \in Sources : d # c => batch'[d] = batch[d]
  BY <1>0, <1>1 DEF TypeOK
<1>3. TypeOK' /\ Bookkeeping' /\ JudgedAlone' /\ QualityFollowsClean' /\ DoneMeansDone'
  <2>1. batch' \in [Sources -> BatchStatus] /\ batch'[c] \in Judged
    BY <1>0, <1>1, <1>2 DEF TypeOK, BatchStatus, Judged
  <2>2. \A d \in Sources : batch'[d] = batch[d] \/ (batch[d] # "ABSENT" /\ batch'[d] \in Judged)
    BY <2>1, <1>1, <1>2
  <2>3. /\ cand' \in [Sources -> SUBSET Row] /\ approved' \subseteq Sources
        /\ supersededBy' \in [Sources -> Sources \cup {NoSource}]
        /\ table' \subseteq Published /\ OneRowPerKey(table') /\ history' \subseteq Version
    BY <1>0 DEF TypeOK
  <2>. QED
    BY <2>1, <2>2, <2>3, <1>0, Judgement
<1>4. CandidatesKept'
  BY <1>0, <1>1, <1>2 DEF GovernanceInv, CandidatesKept, Normalised
<1>5. SupersededByApproved'
  BY <1>0, <1>2 DEF GovernanceInv, SupersededByApproved
<1>6. RowsWereApproved' /\ CurrentVersionOpen'
  BY <1>0 DEF GovernanceInv, RowsWereApproved, CurrentVersionOpen, Normalised
<1>. QED
  BY <1>3, <1>4, <1>5, <1>6 DEF GovernanceInv

\* The rows a publication writes were all normalised from its own RawBatch.
LEMMA WrittenRows ==
  ASSUME GovernanceInv, NEW w \in Workers, wk[w].pc = "written"
  PROVE  /\ SourceAt(w) \in Sources /\ ~MustBlock(SourceAt(w))
         /\ wk[w].changed \subseteq Normalised(SourceAt(w))
         /\ wk[w].changed \subseteq Row /\ OneRowPerKey(wk[w].changed)
         /\ wk[w].changed # {} => SourceAt(w) \notin approved
<1>. DEFINE c == SourceAt(w)
<1>0. /\ TypeOK /\ c \in Sources /\ ~MustBlock(c) /\ wk[w].changed \subseteq cand[c]
  BY WorkerJob DEF GovernanceInv, JudgedAlone
<1>1. cand[c] = IF batch[c] = "ABSENT" \/ c \in approved THEN {} ELSE Normalised(c)
  BY <1>0 DEF GovernanceInv, CandidatesKept
<1>2. wk[w].changed \subseteq Normalised(c)
  BY <1>0, <1>1
<1>3. Normalised(c) \subseteq raw[c] /\ raw[c] \subseteq Row /\ OneRowPerKey(raw[c])
  BY <1>0 DEF Normalised, TypeOK
<1>4. OneRowPerKey(wk[w].changed)
  BY <1>2, <1>3 DEF OneRowPerKey
<1>. QED
  BY <1>0, <1>1, <1>2, <1>3, <1>4

\* The upsert replaces the rows of the keys it writes and keeps the others.
LEMMA Upserted ==
  ASSUME GovernanceInv, NEW w \in Workers, wk[w].pc = "written"
  PROVE  /\ UpsertedBy(w) \subseteq Published /\ OneRowPerKey(UpsertedBy(w))
         /\ \A t \in UpsertedBy(w) :
              \/ t \in table /\ t.key \notin KeysIn(wk[w].changed)
              \/ /\ t.from = SourceAt(w)
                 /\ [key |-> t.key, val |-> t.val] \in wk[w].changed
<1>. DEFINE c == SourceAt(w)
            new == {[key |-> r.key, val |-> r.val, from |-> c] : r \in wk[w].changed}
            old == {t \in table : t.key \notin KeysIn(wk[w].changed)}
<1>0. /\ TypeOK /\ c \in Sources /\ wk[w].changed \subseteq Row /\ OneRowPerKey(wk[w].changed)
  BY WrittenRows DEF GovernanceInv
<1>1. UpsertedBy(w) = old \cup new
  BY DEF UpsertedBy
<1>2. \A r \in wk[w].changed : r = [key |-> r.key, val |-> r.val] /\ r.key \in Keys /\ r.val \in Vals
  BY <1>0 DEF Row
<1>3. ASSUME NEW t \in new
      PROVE  /\ t \in Published /\ t.from = c /\ t.key \in KeysIn(wk[w].changed)
             /\ [key |-> t.key, val |-> t.val] \in wk[w].changed
  <2>1. PICK r \in wk[w].changed : t = [key |-> r.key, val |-> r.val, from |-> c]
    OBVIOUS
  <2>2. t.key = r.key /\ t.val = r.val /\ t.from = c
    BY <2>1
  <2>. QED
    BY <2>1, <2>2, <1>0, <1>2 DEF Published, KeysIn
<1>4. OneRowPerKey(table) /\ table \subseteq Published
  BY <1>0 DEF TypeOK
<1>5. ASSUME NEW s \in new, NEW t \in new, s.key = t.key PROVE s = t
  <2>1. [key |-> s.key, val |-> s.val] = [key |-> t.key, val |-> t.val]
    BY <1>0, <1>3, <1>5 DEF OneRowPerKey
  <2>2. s.val = t.val /\ s.from = t.from
    BY <2>1, <1>3
  <2>. QED
    BY <2>2, <1>3, <1>5 DEF Published
<1>6. OneRowPerKey(UpsertedBy(w))
  BY <1>1, <1>3, <1>4, <1>5 DEF OneRowPerKey
<1>. QED
  BY <1>1, <1>3, <1>4, <1>6

\* The history keeps every open version of a key that is not written, and has
\* an open version of every row that is.
LEMMA Versioned ==
  ASSUME GovernanceInv, NEW w \in Workers, wk[w].pc = "written"
  PROVE  /\ VersionsBy(w) \subseteq Version
         /\ Historic =>
              /\ \A h \in history : h.key \notin KeysIn(wk[w].changed) => h \in VersionsBy(w)
              /\ \A r \in wk[w].changed :
                   [key |-> r.key, val |-> r.val, from |-> SourceAt(w), open |-> TRUE]
                     \in VersionsBy(w)
<1>. DEFINE new == {[key |-> r.key, val |-> r.val, from |-> SourceAt(w), open |-> TRUE] :
                      r \in wk[w].changed}
            closed == {[h EXCEPT !.open = FALSE] : h \in history \cap wk[w].closing}
<1>0. /\ history \subseteq Version /\ SourceAt(w) \in Sources /\ wk[w].changed \subseteq Row
      /\ KeysIn(wk[w].closing) \subseteq KeysIn(wk[w].changed)
  BY WrittenRows DEF GovernanceInv, TypeOK, JudgedAlone
<1>1. new \subseteq Version
  <2>1. \A r \in wk[w].changed : r.key \in Keys /\ r.val \in Vals
    BY <1>0 DEF Row
  <2>2. \A k \in Keys, v \in Vals :
          [key |-> k, val |-> v, from |-> SourceAt(w), open |-> TRUE] \in Version
    BY <1>0 DEF Version
  <2>. QED
    BY <2>1, <2>2
<1>2. closed \subseteq Version
  <2>1. \A h \in Version : [h EXCEPT !.open = FALSE] \in Version
    BY DEF Version
  <2>. QED
    BY <2>1, <1>0
<1>3. VersionsBy(w) \subseteq Version
  BY <1>0, <1>1, <1>2 DEF VersionsBy
<1>4. \A h \in wk[w].closing : h.key \in KeysIn(wk[w].changed)
  BY <1>0 DEF KeysIn
<1>. QED
  BY <1>3, <1>4 DEF VersionsBy

LEMMA QualityCommitInv ==
  ASSUME GovernanceInv, NEW w \in Workers, QualityCommit(w)
  PROVE  GovernanceInv'
<1>. DEFINE c == SourceAt(w)
            sup == wk[w].sup
<1>0. /\ TypeOK /\ Bookkeeping /\ JudgedAlone /\ wk[w].pc = "written" /\ Judging(w)
      /\ StageAt(w) = "QUALITY" /\ CompleteStage(w) /\ UNCHANGED sourceRows /\ UNCHANGED raw
      /\ table' = UpsertedBy(w) /\ history' = VersionsBy(w)
      /\ batch' = [d \in Sources |-> IF d = c THEN "PUBLISHED"
                                     ELSE IF d \in sup THEN "SUPERSEDED" ELSE batch[d]]
      /\ supersededBy' = [d \in Sources |-> IF d \in sup THEN c ELSE supersededBy[d]]
      /\ approved' = approved \cup {c} /\ cand' = [cand EXCEPT ![c] = {}]
  BY DEF GovernanceInv, QualityCommit, CandidatesAfter, JudgedAlone, Judging, sourceRows
<1>1. c \in Sources /\ batch[c] # "ABSENT" /\ ~MustBlock(c)
  BY <1>0, JudgedBatch, WrittenRows
<1>2. \A d \in sup : d \in approved /\ ScopeOf[d] = ScopeOf[c] /\ batch[d] # "ABSENT"
  BY <1>0 DEF JudgedAlone, Bookkeeping
<1>3. /\ batch'[c] = "PUBLISHED"
      /\ \A d \in Sources : d # c =>
           batch'[d] = IF d \in sup THEN "SUPERSEDED" ELSE batch[d]
      /\ \A d \in Sources : supersededBy'[d] = IF d \in sup THEN c ELSE supersededBy[d]
      /\ cand'[c] = {} /\ \A d \in Sources : d # c => cand'[d] = cand[d]
  BY <1>0, <1>1 DEF TypeOK
<1>4. TypeOK' /\ Bookkeeping' /\ JudgedAlone' /\ QualityFollowsClean' /\ DoneMeansDone'
  <2>1. batch' \in [Sources -> BatchStatus] /\ batch'[c] \in Judged
    BY <1>0, <1>1, <1>3 DEF TypeOK, BatchStatus, Judged
  <2>2. \A d \in Sources : batch'[d] = batch[d] \/ (batch[d] # "ABSENT" /\ batch'[d] \in Judged)
    BY <2>1, <1>1, <1>2, <1>3 DEF Judged
  <2>3. /\ cand' \in [Sources -> SUBSET Row] /\ approved' \subseteq Sources
        /\ supersededBy' \in [Sources -> Sources \cup {NoSource}]
    BY <1>0, <1>1 DEF TypeOK
  <2>4. table' \subseteq Published /\ OneRowPerKey(table') /\ history' \subseteq Version
    BY <1>0, Upserted, Versioned
  <2>5. \A v \in Workers \ {w} : Judging(v) => cand'[SourceAt(v)] = cand[SourceAt(v)]
    <3>1. \A v \in Workers \ {w} : Judging(v) => SourceAt(v) # c
      BY <1>0 DEF JudgedAlone
    <3>2. \A v \in Workers : Judging(v) => SourceAt(v) \in Sources
      BY <1>0, WorkerJob DEF Judging
    <3>. QED
      BY <3>1, <3>2, <1>3
  <2>6. approved \subseteq approved' /\ approved' \subseteq approved \cup {c}
    BY <1>0
  <2>. QED
    BY <2>1, <2>2, <2>3, <2>4, <2>5, <2>6, <1>0, Judgement
<1>5. CandidatesKept'
  <2>. SUFFICES ASSUME NEW d \in Sources
                PROVE  cand'[d] = IF batch'[d] = "ABSENT" \/ d \in approved'
                                  THEN {} ELSE Normalised(d)'
    BY DEF CandidatesKept
  <2>1. cand[d] = IF batch[d] = "ABSENT" \/ d \in approved THEN {} ELSE Normalised(d)
    BY DEF GovernanceInv, CandidatesKept
  <2>2. Normalised(d)' = Normalised(d)
    BY <1>0 DEF Normalised
  <2>3. CASE d = c
    BY <2>3, <1>0, <1>3
  <2>4. CASE d # c /\ d \in sup
    BY <2>1, <2>4, <1>0, <1>2, <1>3
  <2>5. CASE d # c /\ d \notin sup
    BY <2>1, <2>2, <2>5, <1>0, <1>3
  <2>. QED
    BY <2>3, <2>4, <2>5
<1>6. SupersededByApproved'
  <2>. SUFFICES ASSUME NEW d \in Sources
                PROVE  /\ batch'[d] \in {"PUBLISHED", "SUPERSEDED"} => d \in approved'
                       /\ batch'[d] = "SUPERSEDED" =>
                            \E e \in approved' : supersededBy'[d] = e /\ ScopeOf[e] = ScopeOf[d]
    BY DEF SupersededByApproved
  <2>1. /\ batch[d] \in {"PUBLISHED", "SUPERSEDED"} => d \in approved
        /\ batch[d] = "SUPERSEDED" =>
             \E e \in approved : supersededBy[d] = e /\ ScopeOf[e] = ScopeOf[d]
    BY DEF GovernanceInv, SupersededByApproved
  <2>2. CASE d = c
    BY <2>2, <1>0, <1>3
  <2>3. CASE d # c /\ d \in sup
    BY <2>3, <1>0, <1>2, <1>3
  <2>4. CASE d # c /\ d \notin sup
    BY <2>1, <2>4, <1>0, <1>3
  <2>. QED
    BY <2>2, <2>3, <2>4
<1>7. RowsWereApproved'
  <2>. SUFFICES ASSUME NEW t \in table'
                PROVE  /\ t.from \in approved'
                       /\ [key |-> t.key, val |-> t.val] \in Normalised(t.from)
                       /\ raw[t.from] \cap Rejected = {}
    BY <1>0 DEF RowsWereApproved, Normalised
  <2>1. CASE t \in table
    BY <2>1, <1>0 DEF GovernanceInv, RowsWereApproved
  <2>2. CASE t.from = c /\ [key |-> t.key, val |-> t.val] \in wk[w].changed
    BY <2>2, <1>0, <1>1, WrittenRows DEF MustBlock
  <2>. QED
    BY <2>1, <2>2, <1>0, Upserted
<1>8. CurrentVersionOpen'
  <2>. SUFFICES ASSUME Historic, NEW t \in table'
                PROVE  [key |-> t.key, val |-> t.val, from |-> t.from, open |-> TRUE] \in history'
    BY DEF CurrentVersionOpen
  <2>. DEFINE h == [key |-> t.key, val |-> t.val, from |-> t.from, open |-> TRUE]
  <2>1. CASE t \in table /\ t.key \notin KeysIn(wk[w].changed)
    <3>1. h \in history /\ h.key = t.key
      BY <2>1 DEF GovernanceInv, CurrentVersionOpen
    <3>. QED
      BY <2>1, <3>1, <1>0, Versioned
  <2>2. CASE t.from = c /\ [key |-> t.key, val |-> t.val] \in wk[w].changed
    BY <2>2, <1>0, Versioned
  <2>. QED
    BY <2>1, <2>2, <1>0, Upserted
<1>. QED
  BY <1>4, <1>5, <1>6, <1>7, <1>8 DEF GovernanceInv

-----------------------------------------------------------------------------
(* The theorems.                                                           *)

LEMMA InvStep == GovernanceInv /\ [Next]_vars => GovernanceInv'
<1>. SUFFICES ASSUME GovernanceInv, [Next]_vars PROVE GovernanceInv'
  OBVIOUS
<1>1. CASE UNCHANGED vars
  <2>1. UNCHANGED <<sourceRows, queueRows, batchRows, wk>>
    BY <1>1 DEF vars
  <2>. QED
    BY <2>1, OutsideStep DEF GovernanceInv, TypeOK, queueRows
<1>2. ASSUME NEW c \in Sources, SourceChanged(c) PROVE GovernanceInv'
  BY <1>2, SourceChangedInv
<1>3. ASSUME NEW c \in Sources, NEW a \in Answers, Collect(c, a) PROVE GovernanceInv'
  BY <1>3, CollectInv
<1>4. ASSUME NEW w \in Workers, Poll(w) PROVE GovernanceInv'
  BY <1>4, PollInv
<1>5. ASSUME NEW w \in Workers, Prepare(w) PROVE GovernanceInv'
  BY <1>5, PrepareInv
<1>6. ASSUME NEW w \in Workers, Execute(w) PROVE GovernanceInv'
  <2>1. ASSUME NEW fresh \in BOOLEAN, Load(w, fresh) PROVE GovernanceInv'
    BY <2>1, LoadInv
  <2>2. CASE CleanNew(w)
    BY <2>2, CleanNewInv
  <2>3. CASE CleanConflict(w)
    BY <2>3, FailingInv DEF CleanConflict, Cleaning
  <2>4. CASE CleanAgain(w)
    BY <2>4, CleanAgainInv
  <2>5. ASSUME NEW pass \in BOOLEAN, Validate(w, pass) PROVE GovernanceInv'
    BY <2>5, ValidateInv
  <2>6. CASE QualityBlock(w)
    BY <2>6, QualityBlockInv
  <2>7. CASE Publish(w)
    BY <2>7, PublishInv
  <2>8. CASE QualityCommit(w)
    BY <2>8, QualityCommitInv
  <2>. QED
    BY <1>6, <2>1, <2>2, <2>3, <2>4, <2>5, <2>6, <2>7, <2>8 DEF Execute
<1>7. ASSUME NEW w \in Workers, Raise(w) PROVE GovernanceInv'
  BY <1>7, FailingInv DEF Raise
<1>8. ASSUME NEW w \in Workers, FailClaim(w) PROVE GovernanceInv'
  BY <1>8, FailClaimInv
<1>9. ASSUME NEW w \in Workers, Crash(w) PROVE GovernanceInv'
  BY <1>9, CrashInv
<1>10. ASSUME NEW j \in Jobs, LeaseExpires(j) PROVE GovernanceInv'
  BY <1>10, LeaseExpiresInv
<1>11. ASSUME NEW kind \in Requests, NEW j \in Jobs, Request(kind, j) PROVE GovernanceInv'
  BY <1>11, RequestInv
<1>. QED
  BY <1>1, <1>2, <1>3, <1>4, <1>5, <1>6, <1>7, <1>8, <1>9, <1>10, <1>11 DEF Next

\* Whatever overlapping, dying and re-run executions of the stages do, the
\* conjunction of the safety properties of the clean and quality stages holds.
THEOREM GovernanceInvariant == Spec => []GovernanceInv
<1>. QED
  BY InvInit, InvStep, PTL DEF Spec

\* No row is ever in the formal table that its batch did not have approved:
\* overlapping executions and lost leases cannot publish anything else.
THEOREM ApprovedRows == Spec => []RowsWereApproved
<1>1. GovernanceInv => RowsWereApproved
  BY DEF GovernanceInv
<1>. QED
  BY <1>1, GovernanceInvariant, PTL

\* A SUPERSEDED batch was approved, and so was the batch of the same scope that
\* took its place, whichever of their publications committed first.
THEOREM OnlyApprovedSupersede == Spec => []SupersededByApproved
<1>1. GovernanceInv => SupersededByApproved
  BY DEF GovernanceInv
<1>. QED
  BY <1>1, GovernanceInvariant, PTL

\* A batch has all its candidates or, once approved, none, so that no second
\* execution of a quality run publishes it again.
THEOREM AllCandidatesOrNone == Spec => []CandidatesKept
<1>1. GovernanceInv => CandidatesKept
  BY DEF GovernanceInv
<1>. QED
  BY <1>1, GovernanceInvariant, PTL

\* A SUCCEEDED stage slice stands for committed work, although neither the task
\* nor the batch is fenced by the lease.
THEOREM StageWorkCommitted == Spec => []DoneMeansDone
<1>1. GovernanceInv => DoneMeansDone
  BY DEF GovernanceInv
<1>. QED
  BY <1>1, GovernanceInvariant, PTL

\* However publications of a key overlap, the row of the formal table is an
\* open version in the history.
THEOREM CurrentIsOpen == Spec => []CurrentVersionOpen
<1>1. GovernanceInv => CurrentVersionOpen
  BY DEF GovernanceInv
<1>. QED
  BY <1>1, GovernanceInvariant, PTL

\* Only the commit of a publication touches the formal table.
LEMMA TableWriter ==
  ASSUME [Next]_vars
  PROVE  UNCHANGED table \/ \E w \in Workers : QualityCommit(w)
BY DEF Next, vars, batchRows, SourceChanged, Collect, Poll, Prepare, Execute, Load,
       CleanNew, CleanConflict, CleanAgain, Validate, QualityBlock, Publish, Raise,
       FailClaim, Crash, LeaseExpires, Request

\* A publication is atomic: rows of a batch enter the table in the one step
\* that approves it, and with no row of another batch.
THEOREM PublicationIsAtomic == Spec => AtomicPublication
<1>1. ASSUME GovernanceInv, [Next]_vars, NEW c \in Sources, ~(RowsOf(c)' \subseteq RowsOf(c))
      PROVE  /\ c \notin approved /\ approved' = approved \cup {c}
             /\ batch'[c] = "PUBLISHED"
             /\ \A d \in Sources \ {c} : RowsOf(d)' \subseteq RowsOf(d)
  <2>1. PICK w \in Workers : QualityCommit(w)
    BY <1>1, TableWriter DEF RowsOf
  <2>2. /\ wk[w].pc = "written" /\ table' = UpsertedBy(w)
        /\ approved' = approved \cup {SourceAt(w)}
        /\ batch' = [d \in Sources |-> IF d = SourceAt(w) THEN "PUBLISHED"
                                       ELSE IF d \in wk[w].sup THEN "SUPERSEDED" ELSE batch[d]]
    BY <2>1 DEF QualityCommit
  <2>3. \A t \in table' : t \in table \/ (t.from = SourceAt(w) /\ wk[w].changed # {})
    BY <1>1, <2>2, Upserted
  <2>4. PICK t \in table' : t.from = c /\ t \notin table
    BY <1>1 DEF RowsOf
  <2>5. c = SourceAt(w) /\ wk[w].changed # {}
    BY <2>3, <2>4
  <2>6. c \notin approved
    BY <1>1, <2>2, <2>5, WrittenRows
  <2>7. \A d \in Sources \ {c} : RowsOf(d)' \subseteq RowsOf(d)
    BY <2>3, <2>5 DEF RowsOf
  <2>. QED
    BY <2>2, <2>5, <2>6, <2>7
<1>2. GovernanceInv /\ [Next]_vars =>
        [\A c \in Sources : ~(RowsOf(c)' \subseteq RowsOf(c)) =>
           /\ c \notin approved /\ approved' = approved \cup {c}
           /\ batch'[c] = "PUBLISHED"
           /\ \A d \in Sources \ {c} : RowsOf(d)' \subseteq RowsOf(d)]_vars
  BY <1>1
<1>. QED
  BY <1>2, GovernanceInvariant, PTL DEF Spec, AtomicPublication
=============================================================================
