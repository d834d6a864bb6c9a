------------------------ MODULE GovernanceRefinement ------------------------
(***************************************************************************)
(* Governance implements PublishedStore: a batch is staged where CleanNew  *)
(* commits, judged where QualityBlock or QualityCommit commits, and every  *)
(* other step of the workers and of the queue is hidden from the readers.  *)
(***************************************************************************)
EXTENDS GovernanceProofs

\* What the store's steps need besides GovernanceInv: a source brings rows
\* when it closes, the versions that are about to be closed were read as open
\* ones, and a batch does not replace itself.
StoreInv ==
  /\ \A c \in Sources : source[c] = "OPEN" => raw[c] = {}
  /\ \A w \in Workers : wk[w].pc \in {"passed", "written"} =>
       \A h \in wk[w].closing : h.open
  /\ \A w \in Workers : wk[w].pc = "written" => SourceAt(w) \notin wk[w].sup

-----------------------------------------------------------------------------
(* StoreInv is an invariant.                                               *)

LEMMA StoreInvInit == Init => StoreInv
BY DEF Init, StoreInv, Idle

\* A worker that writes nothing.
LEMMA StoreInvOwn ==
  ASSUME StoreInv, NEW w \in Workers, \A v \in Workers \ {w} : wk'[v] = wk[v],
         wk'[w].pc \notin {"passed", "written"}, UNCHANGED <<source, raw>>
  PROVE  StoreInv'
BY DEF StoreInv, SourceAt

LEMMA StoreInvRest ==
  ASSUME StoreInv, UNCHANGED <<source, raw, wk>>
  PROVE  StoreInv'
BY DEF StoreInv, SourceAt

LEMMA StoreInvCollect ==
  ASSUME StoreInv, TypeOK, NEW c \in Sources,
         SourceChanged(c) \/ \E a \in Answers : Collect(c, a)
  PROVE  StoreInv'
<1>1. /\ UNCHANGED wk /\ source'[c] # "OPEN"
      /\ \A d \in Sources \ {c} : source'[d] = source[d] /\ raw'[d] = raw[d]
  BY DEF TypeOK, SourceChanged, Collect
<1>. QED
  BY <1>1 DEF StoreInv, SourceAt

LEMMA StoreInvValidate ==
  ASSUME StoreInv, TypeOK, NEW w \in Workers, NEW pass \in BOOLEAN, Validate(w, pass)
  PROVE  StoreInv'
<1>1. \A v \in Workers \ {w} : wk'[v] = wk[v]
  BY DEF Validate, TypeOK
<1>2. UNCHANGED <<source, raw>>
  BY DEF Validate, sourceRows
<1>3. CASE pass
  <2>1. /\ wk'[w].pc = "passed"
        /\ wk'[w].closing = OpenVersions(Changed(SourceAt(w)))
    BY <1>3, WorkerType DEF Validate, TypeOK, Worker
  <2>2. \A h \in wk'[w].closing : h.open
    BY <2>1 DEF OpenVersions
  <2>. QED
    BY <1>1, <1>2, <2>1, <2>2 DEF StoreInv, SourceAt
<1>4. CASE ~pass
  <2>1. wk'[w].pc = "blocked"
    BY <1>4, WorkerType DEF Validate, TypeOK, Worker
  <2>. QED
    BY <1>1, <1>2, <2>1, StoreInvOwn
<1>. QED
  BY <1>3, <1>4

LEMMA StoreInvPublish ==
  ASSUME StoreInv, TypeOK, NEW w \in Workers, Publish(w)
  PROVE  StoreInv'
<1>1. \A v \in Workers \ {w} : wk'[v] = wk[v]
  BY DEF Publish, TypeOK
<1>2. UNCHANGED <<source, raw>>
  BY DEF Publish, sourceRows
<1>3. /\ wk'[w].closing = wk[w].closing /\ wk'[w].job = wk[w].job
      /\ wk'[w].sup = Replaced(w) /\ wk[w].pc = "passed"
  BY WorkerType DEF Publish, TypeOK, Worker
<1>4. SourceAt(w) \notin Replaced(w)
  BY DEF Replaced
<1>. QED
  BY <1>1, <1>2, <1>3, <1>4 DEF StoreInv, SourceAt

\* The steps that neither bring rows nor leave their worker about to write.
Quiet(w) ==
  \/ Poll(w) \/ Prepare(w) \/ \E fresh \in BOOLEAN : Load(w, fresh)
  \/ CleanNew(w) \/ CleanConflict(w) \/ CleanAgain(w) \/ QualityBlock(w) \/ QualityCommit(w)
  \/ Raise(w) \/ FailClaim(w) \/ Crash(w)

LEMMA StoreInvQuiet ==
  ASSUME StoreInv, TypeOK, NEW w \in Workers, Quiet(w)
  PROVE  StoreInv'
<1>0. UNCHANGED <<source, raw>>
  BY DEF Quiet, Poll, Prepare, Load, CleanNew, CleanConflict, CleanAgain, QualityBlock,
     QualityCommit, Raise, FailClaim, Crash, sourceRows
<1>1. CASE wk' = [wk EXCEPT ![w] = Idle]
  <2>1. wk'[w].pc = "idle" /\ \A v \in Workers \ {w} : wk'[v] = wk[v]
    BY <1>1, IdleType DEF TypeOK
  <2>. QED
    BY <1>0, <2>1, StoreInvOwn
<1>2. CASE UNCHANGED wk
  BY <1>0, <1>2, StoreInvRest
<1>3. ASSUME NEW j \in Jobs, ClaimSlice(w, j) PROVE StoreInv'
  <2>1. wk'[w].pc = "claimed" /\ \A v \in Workers \ {w} : wk'[v] = wk[v]
    BY <1>3, IdleType DEF ClaimSlice, TypeOK, Worker
  <2>. QED
    BY <1>0, <2>1, StoreInvOwn
<1>4. CASE Prepare(w) \/ (\E fresh \in BOOLEAN : Load(w, fresh)) \/ CleanConflict(w) \/ Raise(w)
  <2>1. /\ wk'[w].pc \in {"prepared", "loaded", "failing"}
        /\ \A v \in Workers \ {w} : wk'[v] = wk[v]
    <3>1. wk \in [Workers -> Worker] /\ wk[w] \in Worker
      BY DEF TypeOK
    <3>2. CASE Prepare(w) \/ CleanConflict(w) \/ Raise(w)
      BY <3>1, <3>2 DEF Prepare, CleanConflict, Raise, Worker
    <3>3. ASSUME NEW fresh \in BOOLEAN, Load(w, fresh)
          PROVE  wk'[w].pc = "loaded" /\ \A v \in Workers \ {w} : wk'[v] = wk[v]
      BY <3>1, <3>3 DEF Load, Worker
    <3>. QED
      BY <1>4, <3>2, <3>3
  <2>. QED
    BY <1>0, <2>1, StoreInvOwn
<1>. QED
  BY <1>1, <1>2, <1>3, <1>4 DEF Quiet, Poll, RecoverOnly, CleanNew, CleanAgain, QualityBlock,
     QualityCommit, FailClaim, Crash, CompleteStage, CompleteAndEnqueueQuality

LEMMA StoreInvStep == TypeOK /\ StoreInv /\ [Next]_vars => StoreInv'
<1>. SUFFICES ASSUME TypeOK, StoreInv, [Next]_vars PROVE StoreInv'
  OBVIOUS
<1>1. ASSUME NEW c \in Sources, SourceChanged(c) \/ \E a \in Answers : Collect(c, a)
      PROVE  StoreInv'
  BY <1>1, StoreInvCollect
<1>2. ASSUME NEW w \in Workers,
             Poll(w) \/ Prepare(w) \/ Execute(w) \/ Raise(w) \/ FailClaim(w) \/ Crash(w)
      PROVE  StoreInv'
  BY <1>2, StoreInvQuiet, StoreInvValidate, StoreInvPublish DEF Execute, Quiet
<1>3. ASSUME NEW j \in Jobs, LeaseExpires(j) \/ \E kind \in Requests : Request(kind, j)
      PROVE  StoreInv'
  BY <1>3, StoreInvRest DEF LeaseExpires, Request, sourceRows
<1>4. CASE UNCHANGED vars
  BY <1>4, StoreInvRest DEF vars, sourceRows
<1>. QED
  BY <1>1, <1>2, <1>3, <1>4 DEF Next

LEMMA StoreInvariant == Spec => []StoreInv
<1>1. GovernanceInv => TypeOK
  BY DEF GovernanceInv
<1>. QED
  BY <1>1, StoreInvInit, StoreInvStep, GovernanceInvariant, PTL DEF Spec

-----------------------------------------------------------------------------
(* The steps the readers see.                                              *)

\* What a source offers, and the sources that are faulty.
offers == [c \in Sources |-> Normalised(c)]
faults == {c \in Sources : raw[c] \cap Rejected # {}}

LEMMA Hidden ==
  ASSUME UNCHANGED raw, UNCHANGED batchRows
  PROVE  UNCHANGED Store!vars
BY DEF batchRows, Store!vars, Normalised

LEMMA OfferStep ==
  ASSUME GovernanceInv, StoreInv, NEW c \in Sources, NEW a \in Answers, Collect(c, a)
  PROVE  Store!Next
<1>1. /\ TypeOK /\ source[c] = "OPEN" /\ raw' = [raw EXCEPT ![c] = a \ RawTable]
      /\ UNCHANGED batchRows
  BY DEF GovernanceInv, Collect
<1>2. batch[c] = "ABSENT" /\ raw[c] = {}
  BY <1>1 DEF GovernanceInv, Bookkeeping, StoreInv
<1>3. raw'[c] \subseteq Row /\ \A d \in Sources \ {c} : raw'[d] = raw[d]
  BY <1>1, GovernanceConstants DEF TypeOK
<1>4. PICK rows \in SUBSET Store!Row : rows = raw'[c] \ (Skipped \cup Rejected)
  BY <1>3 DEF Row, Store!Row
<1>5. offers[c] = {} /\ c \notin faults
  BY <1>2 DEF offers, faults, Normalised
<1>6. offers' = [offers EXCEPT ![c] = rows]
  BY <1>3, <1>4 DEF offers, Normalised
<1>7. faults' = faults \/ faults' = faults \cup {c}
  BY <1>3, <1>5 DEF faults
<1>8. Store!Offer(c, rows)
  BY <1>1, <1>2, <1>5, <1>6, <1>7 DEF Store!Offer, batchRows, offers, faults
<1>. QED
  BY <1>8 DEF Store!Next

LEMMA StageStep ==
  ASSUME GovernanceInv, NEW w \in Workers, CleanNew(w)
  PROVE  Store!Next
<1>1. SourceAt(w) \in Sources
  BY WorkerJob DEF GovernanceInv, CleanNew, Cleaning
<1>2. /\ batch[SourceAt(w)] = "ABSENT" /\ batch' = [batch EXCEPT ![SourceAt(w)] = "CANDIDATE"]
      /\ raw' = raw /\ approved' = approved /\ supersededBy' = supersededBy
      /\ table' = table /\ history' = history
  BY DEF CleanNew, NewBatch, sourceRows
<1>3. offers' = offers /\ faults' = faults
  BY <1>2 DEF offers, faults, Normalised
<1>4. Store!Stage(SourceAt(w))
  BY <1>2, <1>3 DEF Store!Stage, offers, faults
<1>. QED
  BY <1>1, <1>4 DEF Store!Next

LEMMA BlockStep ==
  ASSUME GovernanceInv, NEW w \in Workers, QualityBlock(w)
  PROVE  Store!Next
<1>1. SourceAt(w) \in Sources /\ batch[SourceAt(w)] # "ABSENT"
  BY JudgedBatch DEF GovernanceInv, JudgedAlone, Judging, QualityBlock
<1>2. Store!Block(SourceAt(w))
  BY <1>1 DEF QualityBlock, Store!Block, sourceRows, Normalised
<1>. QED
  BY <1>1, <1>2 DEF Store!Next

LEMMA PublishStep ==
  ASSUME GovernanceInv, StoreInv, NEW w \in Workers, QualityCommit(w)
  PROVE  Store!Next
<1>. DEFINE c == SourceAt(w)
            rows == wk[w].changed
            closed == history \cap wk[w].closing
            replaced == wk[w].sup
<1>1. /\ wk[w].pc = "written" /\ UNCHANGED raw
      /\ table' = UpsertedBy(w) /\ history' = VersionsBy(w)
      /\ approved' = approved \cup {c}
      /\ batch' = [d \in Sources |-> IF d = c THEN "PUBLISHED"
                                     ELSE IF d \in replaced THEN "SUPERSEDED" ELSE batch[d]]
      /\ supersededBy' = [d \in Sources |-> IF d \in replaced THEN c ELSE supersededBy[d]]
  BY DEF QualityCommit, sourceRows
<1>2. c \in Sources /\ batch[c] # "ABSENT"
  BY <1>1, JudgedBatch DEF GovernanceInv, JudgedAlone, Judging
<1>3. rows \in SUBSET offers[c] /\ (c \in approved => rows = {}) /\ c \notin faults
  BY <1>1, WrittenRows DEF offers, faults, MustBlock
<1>4. closed \in SUBSET history /\ \A h \in closed : h.open /\ h.key \in Store!KeysIn(rows)
  BY <1>1 DEF GovernanceInv, JudgedAlone, StoreInv, KeysIn, Store!KeysIn
<1>5. replaced \in SUBSET Store!Replaceable(c)
  BY <1>1 DEF GovernanceInv, JudgedAlone, StoreInv, Store!Replaceable
<1>6. table' = Store!Upserted(c, rows)
  BY <1>1 DEF UpsertedBy, KeysIn, Store!Upserted, Store!KeysIn
<1>7. history' = IF Historic THEN Store!Versions(c, rows, closed) ELSE history
  <2>1. {h \in history : h \notin wk[w].closing} = {h \in history : h \notin closed}
    OBVIOUS
  <2>. QED
    BY <1>1, <2>1 DEF VersionsBy, Store!Versions
<1>8. UNCHANGED <<offers, faults>>
  BY <1>1 DEF offers, faults, Normalised
<1>9. Store!Publish(c, rows, closed, replaced)
  BY <1>1, <1>2, <1>3, <1>4, <1>6, <1>7, <1>8 DEF Store!Publish, offers, faults
<1>. QED
  BY <1>2, <1>3, <1>4, <1>5, <1>9 DEF Store!Next, offers

-----------------------------------------------------------------------------
LEMMA StoreInit == Init => Store!Init
BY DEF Init, Store!Init, Normalised

LEMMA StoreStep ==
  GovernanceInv /\ StoreInv /\ [Next]_vars => [Store!Next]_(Store!vars)
<1>. SUFFICES ASSUME GovernanceInv, StoreInv, [Next]_vars
              PROVE  Store!Next \/ UNCHANGED Store!vars
  OBVIOUS
<1>1. ASSUME NEW c \in Sources, NEW a \in Answers, Collect(c, a) PROVE Store!Next
  BY <1>1, OfferStep
<1>2. ASSUME NEW w \in Workers, CleanNew(w) \/ QualityBlock(w) \/ QualityCommit(w)
      PROVE  Store!Next
  BY <1>2, StageStep, BlockStep, PublishStep
<1>3. ASSUME NEW w \in Workers,
             \/ Poll(w) \/ Prepare(w) \/ \E fresh \in BOOLEAN : Load(w, fresh)
             \/ CleanConflict(w) \/ CleanAgain(w) \/ \E pass \in BOOLEAN : Validate(w, pass)
             \/ Publish(w) \/ Raise(w) \/ FailClaim(w) \/ Crash(w)
      PROVE  UNCHANGED Store!vars
  <2>1. UNCHANGED raw /\ UNCHANGED batchRows
    BY <1>3 DEF Poll, Prepare, Load, CleanConflict, CleanAgain, Validate, Publish, Raise,
       FailClaim, Crash, sourceRows
  <2>. QED
    BY <2>1, Hidden
<1>4. ASSUME \/ \E c \in Sources : SourceChanged(c)
             \/ \E j \in Jobs : LeaseExpires(j) \/ \E kind \in Requests : Request(kind, j)
             \/ UNCHANGED vars
      PROVE  UNCHANGED Store!vars
  <2>1. UNCHANGED raw /\ UNCHANGED batchRows
    BY <1>4 DEF SourceChanged, LeaseExpires, Request, vars, sourceRows
  <2>. QED
    BY <2>1, Hidden
<1>. QED
  BY <1>1, <1>2, <1>3, <1>4 DEF Next, Execute

\* Readers of schema clean see an atomic store of approved batches, whatever
\* the workers, their leases and the operators do meanwhile.
THEOREM GovernanceImplementsStore == Spec => ImplementsStore
BY StoreInit, StoreStep, GovernanceInvariant, StoreInvariant, PTL
   DEF Spec, ImplementsStore, Store!Spec

-----------------------------------------------------------------------------
(***************************************************************************)
(* Governance implements LeaseQueue.  A token is taken from the attempt    *)
(* counter of the slice, so no two workers at a slice have the same one,   *)
(* and at most one of them has the one in the row.                         *)
(***************************************************************************)
Tokens ==
  /\ \A w \in Workers : wk[w].pc # "idle" => wk[w].tok <= attempts[wk[w].job]
  /\ \A v, w \in Workers :
       wk[v].pc # "idle" /\ wk[w].pc # "idle" /\ wk[v].job = wk[w].job /\ wk[v].tok = wk[w].tok
         => v = w

StageQueueInv == TypeOK /\ Bookkeeping /\ Tokens

\* The worker keeps its claim, or is done with it.
KeepsClaim(w) ==
  /\ wk[w].pc # "idle"
  /\ \A v \in Workers \ {w} : wk'[v] = wk[v]
  /\ wk'[w].pc # "idle" => wk'[w].job = wk[w].job /\ wk'[w].tok = wk[w].tok

LEMMA KeepsByType ==
  ASSUME TypeOK, NEW w \in Workers
  PROVE  /\ wk[w].pc # "idle" /\ wk' = [wk EXCEPT ![w] = Idle] => KeepsClaim(w)
         /\ \/ Prepare(w) \/ \E fresh \in BOOLEAN : Load(w, fresh)
            \/ CleanConflict(w) \/ \E pass \in BOOLEAN : Validate(w, pass)
            \/ Publish(w) \/ Raise(w)
            => KeepsClaim(w) /\ UNCHANGED <<slice, lease, attempts>>
<1>1. wk \in [Workers -> Worker] /\ wk[w] \in Worker /\ Idle.pc = "idle"
  BY IdleType DEF TypeOK
<1>2. wk[w].pc # "idle" /\ wk' = [wk EXCEPT ![w] = Idle] => KeepsClaim(w)
  BY <1>1 DEF KeepsClaim
<1>3. Prepare(w) \/ CleanConflict(w) \/ Publish(w) \/ Raise(w) => KeepsClaim(w)
  BY <1>1 DEF Prepare, CleanConflict, Cleaning, Publish, Raise, KeepsClaim, Worker
<1>4. ASSUME NEW fresh \in BOOLEAN, Load(w, fresh) PROVE KeepsClaim(w)
  BY <1>1, <1>4 DEF Load, KeepsClaim, Worker
<1>5. ASSUME NEW pass \in BOOLEAN, Validate(w, pass) PROVE KeepsClaim(w)
  BY <1>1, <1>5 DEF Validate, KeepsClaim, Worker
<1>6. \/ Prepare(w) \/ \E fresh \in BOOLEAN : Load(w, fresh)
      \/ CleanConflict(w) \/ \E pass \in BOOLEAN : Validate(w, pass)
      \/ Publish(w) \/ Raise(w)
      => UNCHANGED <<slice, lease, attempts>>
  BY DEF Prepare, Load, CleanConflict, Validate, Publish, Raise, queueRows
<1>. QED
  BY <1>2, <1>3, <1>4, <1>5, <1>6

\* What the completion of a stage does to the slices: the worker's own, if it
\* still holds the lease, and the slice of a quality task that is new.
CompletesSlices(w) ==
  \/ slice' = CompletedSlice(w)
  \/ /\ slice[<<"QUALITY", SourceAt(w)>>] = "ABSENT"
     /\ slice' = [CompletedSlice(w) EXCEPT ![<<"QUALITY", SourceAt(w)>>] = "PENDING"]

LEMMA CompletionEffect ==
  ASSUME StageQueueInv, NEW w \in Workers,
         CleanNew(w) \/ CleanAgain(w) \/ QualityBlock(w) \/ QualityCommit(w)
  PROVE  /\ KeepsClaim(w) /\ wk'[w].pc = "idle" /\ UNCHANGED <<lease, attempts>>
         /\ CompletesSlices(w)
<1>1. wk[w].pc # "idle" /\ wk' = [wk EXCEPT ![w] = Idle] /\ UNCHANGED <<lease, attempts>>
  BY DEF CleanNew, CleanAgain, QualityBlock, QualityCommit, Cleaning, CompleteStage,
     CompleteAndEnqueueQuality
<1>2. SourceAt(w) \in Sources
  BY <1>1, WorkerJob DEF StageQueueInv
<1>3. <<"QUALITY", SourceAt(w)>> \in Jobs
  BY <1>2 DEF Jobs
<1>4. task[<<"QUALITY", SourceAt(w)>>] = "ABSENT" <=> slice[<<"QUALITY", SourceAt(w)>>] = "ABSENT"
  BY <1>3 DEF StageQueueInv, Bookkeeping
<1>5. CompleteAndEnqueueQuality(w) => CompletesSlices(w)
  BY <1>4 DEF CompleteAndEnqueueQuality, CompletesSlices
<1>6. CompleteStage(w) => CompletesSlices(w)
  BY DEF CompleteStage, CompletesSlices
<1>7. KeepsClaim(w) /\ wk'[w].pc = "idle"
  BY <1>1, KeepsByType, IdleType DEF StageQueueInv, TypeOK
<1>. QED
  BY <1>1, <1>5, <1>6, <1>7 DEF CleanNew, CleanAgain, QualityBlock, QualityCommit

LEMMA FailEffect ==
  ASSUME StageQueueInv, NEW w \in Workers, FailClaim(w) \/ Crash(w)
  PROVE  /\ KeepsClaim(w) /\ wk'[w].pc = "idle" /\ attempts' = attempts
         /\ \/ UNCHANGED <<slice, lease>>
            \/ /\ HoldsLease(w) /\ slice'[wk[w].job] = "FAILED"
               /\ \A j \in Jobs \ {wk[w].job} : slice'[j] = slice[j] /\ lease'[j] = lease[j]
<1>1. wk[w].pc # "idle" /\ wk' = [wk EXCEPT ![w] = Idle] /\ attempts' = attempts
  BY DEF FailClaim, Crash, queueRows
<1>2. wk[w].job \in Jobs /\ slice \in [Jobs -> SliceStatus] /\ lease \in [Jobs -> Nat]
  BY <1>1 DEF StageQueueInv, TypeOK
<1>3. KeepsClaim(w) /\ wk'[w].pc = "idle"
  BY <1>1, KeepsByType, IdleType DEF StageQueueInv, TypeOK
<1>4. CASE HoldsLease(w) /\ FailClaim(w)
  BY <1>1, <1>2, <1>3, <1>4 DEF FailClaim
<1>5. CASE ~(HoldsLease(w) /\ FailClaim(w))
  BY <1>1, <1>3, <1>5 DEF FailClaim, Crash, queueRows
<1>. QED
  BY <1>1, <1>3, <1>4, <1>5

LEMMA PollEffect ==
  ASSUME StageQueueInv, NEW w \in Workers, Poll(w)
  PROVE  \E C \in SUBSET Jobs :
           /\ \A j \in C : /\ slice'[j] = "RUNNING" /\ slice[j] \in {"PENDING", "RETRY_WAIT", "RUNNING"}
                           /\ lease'[j] = attempts[j] + 1 /\ attempts'[j] = attempts[j] + 1
           /\ \A j \in Recoverable \ C : slice'[j] = "RETRY_WAIT"
           /\ \A j \in Jobs \ (Recoverable \cup C) : slice'[j] = slice[j] /\ lease'[j] = lease[j]
           /\ \A j \in Jobs \ C : attempts'[j] = attempts[j]
           /\ \A v \in Workers \ {w} : wk'[v] = wk[v]
           /\ \/ C = {} /\ wk' = wk
              \/ \E j \in Jobs : /\ C = {j} /\ wk'[w].pc = "claimed" /\ wk'[w].job = j
                                 /\ wk'[w].tok = attempts[j] + 1
<1>1. /\ slice \in [Jobs -> SliceStatus] /\ lease \in [Jobs -> Nat]
      /\ attempts \in [Jobs -> Nat] /\ wk \in [Workers -> Worker] /\ Idle \in Worker
      /\ Recoverable \subseteq Jobs
  BY IdleType DEF StageQueueInv, TypeOK, Recoverable
<1>2. CASE RecoverOnly
  <2>1. /\ \A j \in Recoverable : slice'[j] = "RETRY_WAIT"
        /\ \A j \in Jobs \ Recoverable : slice'[j] = slice[j] /\ lease'[j] = lease[j]
        /\ attempts' = attempts /\ wk' = wk
    BY <1>1, <1>2 DEF RecoverOnly, SliceAfterRecovery
  <2>. QED
    BY <1>1, <2>1
<1>3. ASSUME NEW j \in Jobs, ClaimSlice(w, j)
      PROVE  /\ slice'[j] = "RUNNING" /\ slice[j] \in {"PENDING", "RETRY_WAIT", "RUNNING"}
             /\ lease'[j] = attempts[j] + 1 /\ attempts'[j] = attempts[j] + 1
             /\ \A i \in Recoverable \ {j} : slice'[i] = "RETRY_WAIT"
             /\ \A i \in Jobs \ (Recoverable \cup {j}) : slice'[i] = slice[i] /\ lease'[i] = lease[i]
             /\ \A i \in Jobs \ {j} : attempts'[i] = attempts[i]
             /\ \A v \in Workers \ {w} : wk'[v] = wk[v]
             /\ wk'[w].pc = "claimed" /\ wk'[w].job = j /\ wk'[w].tok = attempts[j] + 1
  <2>1. slice[j] \in {"PENDING", "RETRY_WAIT", "RUNNING"}
    BY <1>1, <1>3 DEF ClaimSlice, Ready, SliceAfterRecovery, Recoverable
  <2>2. /\ slice'[j] = "RUNNING" /\ attempts'[j] = attempts[j] + 1
        /\ \A i \in Jobs \ {j} : slice'[i] = SliceAfterRecovery[i] /\ attempts'[i] = attempts[i]
    BY <1>1, <1>3, RecoveryType DEF ClaimSlice, StageQueueInv
  <2>3. lease'[j] = attempts[j] + 1 /\ \A i \in Jobs \ (Recoverable \cup {j}) : lease'[i] = lease[i]
    BY <1>1, <1>3 DEF ClaimSlice, NewToken
  <2>4. /\ \A v \in Workers \ {w} : wk'[v] = wk[v]
        /\ wk'[w].pc = "claimed" /\ wk'[w].job = j /\ wk'[w].tok = attempts[j] + 1
    BY <1>1, <1>3 DEF ClaimSlice, NewToken, Worker
  <2>5. /\ \A i \in Recoverable : SliceAfterRecovery[i] = "RETRY_WAIT"
        /\ \A i \in Jobs \ Recoverable : SliceAfterRecovery[i] = slice[i]
    BY <1>1 DEF SliceAfterRecovery
  <2>. QED
    BY <1>1, <2>1, <2>2, <2>3, <2>4, <2>5
<1>4. CASE \E j \in Jobs : ClaimSlice(w, j)
  <2>1. PICK j \in Jobs : ClaimSlice(w, j)
    BY <1>4
  <2>. DEFINE C == {j}
  <2>2. C \in SUBSET Jobs /\ \A i \in C : i = j
    OBVIOUS
  <2>3. C = {j}
    OBVIOUS
  <2>. HIDE DEF C
  <2>4. \A i \in Recoverable \ C : slice'[i] = "RETRY_WAIT"
    BY <2>1, <2>3, <1>3
  <2>5. \A i \in Jobs \ (Recoverable \cup C) : slice'[i] = slice[i] /\ lease'[i] = lease[i]
    BY <2>1, <2>3, <1>3
  <2>6. \A i \in Jobs \ C : attempts'[i] = attempts[i]
    BY <2>1, <2>3, <1>3
  <2>. QED
    BY <2>1, <2>2, <2>3, <2>4, <2>5, <2>6, <1>3
<1>. QED
  BY <1>2, <1>4 DEF Poll

LEMMA TokensInit == Init => Tokens
BY DEF Init, Tokens, Idle

\* No token is new where a worker keeps its claim.
LEMMA TokensKept ==
  ASSUME StageQueueInv, NEW w \in Workers, KeepsClaim(w), attempts' = attempts
  PROVE  Tokens'
BY DEF StageQueueInv, Tokens, KeepsClaim

LEMMA TokensPoll ==
  ASSUME StageQueueInv, NEW w \in Workers, Poll(w)
  PROVE  Tokens'
<1>1. /\ attempts \in [Jobs -> Nat]
      /\ \A v \in Workers : wk[v].tok \in Nat /\ (wk[v].pc # "idle" => wk[v].job \in Jobs)
  BY WorkerType DEF StageQueueInv, TypeOK
<1>2. wk[w].pc = "idle"
  BY DEF Poll
<1>3. PICK C \in SUBSET Jobs :
        /\ \A j \in C : /\ slice'[j] = "RUNNING" /\ slice[j] \in {"PENDING", "RETRY_WAIT", "RUNNING"}
                        /\ lease'[j] = attempts[j] + 1 /\ attempts'[j] = attempts[j] + 1
        /\ \A j \in Recoverable \ C : slice'[j] = "RETRY_WAIT"
        /\ \A j \in Jobs \ (Recoverable \cup C) : slice'[j] = slice[j] /\ lease'[j] = lease[j]
        /\ \A j \in Jobs \ C : attempts'[j] = attempts[j]
        /\ \A v \in Workers \ {w} : wk'[v] = wk[v]
        /\ \/ C = {} /\ wk' = wk
           \/ \E j \in Jobs : /\ C = {j} /\ wk'[w].pc = "claimed" /\ wk'[w].job = j
                              /\ wk'[w].tok = attempts[j] + 1
  BY PollEffect
<1>4. CASE C = {} /\ wk' = wk
  BY <1>1, <1>3, <1>4 DEF StageQueueInv, Tokens
<1>5. ASSUME NEW j \in Jobs, C = {j}, wk'[w].pc = "claimed", wk'[w].job = j,
             wk'[w].tok = attempts[j] + 1
      PROVE  Tokens'
  <2>1. attempts'[j] = attempts[j] + 1 /\ \A i \in Jobs \ {j} : attempts'[i] = attempts[i]
    BY <1>3, <1>5
  <2>2. \A v \in Workers \ {w} : wk[v].pc # "idle" => wk[v].tok <= attempts[wk[v].job]
    BY DEF StageQueueInv, Tokens
  <2>3. ASSUME NEW v \in Workers, wk'[v].pc # "idle"
        PROVE  wk'[v].tok <= attempts'[wk'[v].job]
    <3>1. CASE v = w
      BY <1>1, <1>5, <2>1, <3>1
    <3>2. CASE v # w
      <4>1. wk'[v] = wk[v] /\ wk[v].job \in Jobs /\ wk[v].tok \in Nat
            /\ wk[v].tok <= attempts[wk[v].job]
        BY <1>1, <1>3, <2>2, <2>3, <3>2
      <4>2. attempts[wk[v].job] \in Nat /\ attempts[wk[v].job] <= attempts'[wk[v].job]
        BY <1>1, <2>1, <4>1
      <4>. QED
        BY <1>1, <2>1, <4>1, <4>2
    <3>. QED
      BY <3>1, <3>2
  <2>4. ASSUME NEW u \in Workers, NEW v \in Workers, wk'[u].pc # "idle", wk'[v].pc # "idle",
               wk'[u].job = wk'[v].job, wk'[u].tok = wk'[v].tok
        PROVE  u = v
    <3>1. \A x \in Workers \ {w} : wk'[x].pc # "idle" /\ wk'[x].job = j => wk'[x].tok <= attempts[j]
      BY <1>3, <2>2
    <3>2. \A x \in Workers \ {w} : wk'[x].pc # "idle" /\ wk'[x].job = j => wk'[x].tok # attempts[j] + 1
      BY <1>1, <1>3, <3>1
    <3>3. CASE u = w \/ v = w
      BY <1>5, <2>4, <3>2, <3>3
    <3>4. CASE u # w /\ v # w
      BY <1>3, <2>4, <3>4 DEF StageQueueInv, Tokens
    <3>. QED
      BY <3>3, <3>4
  <2>. QED
    BY <2>3, <2>4 DEF Tokens
<1>. QED
  BY <1>3, <1>4, <1>5

LEMMA TokensStep == StageQueueInv /\ [Next]_vars => Tokens'
<1>. SUFFICES ASSUME StageQueueInv, [Next]_vars PROVE Tokens'
  OBVIOUS
<1>1. ASSUME NEW w \in Workers,
             Prepare(w) \/ Execute(w) \/ Raise(w) \/ FailClaim(w) \/ Crash(w)
      PROVE  Tokens'
  <2>1. KeepsClaim(w) /\ attempts' = attempts
    BY <1>1, KeepsByType, CompletionEffect, FailEffect DEF Execute, StageQueueInv
  <2>. QED
    BY <2>1, TokensKept
<1>2. CASE \/ \E c \in Sources : SourceChanged(c) \/ \E a \in Answers : Collect(c, a)
           \/ \E j \in Jobs : LeaseExpires(j) \/ \E kind \in Requests : Request(kind, j)
           \/ UNCHANGED vars
  <2>1. attempts' = attempts /\ wk' = wk
    BY <1>2 DEF SourceChanged, Collect, LeaseExpires, Request, vars, queueRows
  <2>. QED
    BY <2>1 DEF StageQueueInv, Tokens
<1>. QED
  BY <1>1, <1>2, TokensPoll DEF Next

LEMMA StageQueueInvariant == Spec => []StageQueueInv
<1>1. GovernanceInv => TypeOK /\ Bookkeeping
  BY DEF GovernanceInv
<1>2. Init => Tokens
  BY TokensInit
<1>3. TypeOK /\ Bookkeeping /\ Tokens /\ [Next]_vars => Tokens'
  BY TokensStep DEF StageQueueInv
<1>4. TypeOK /\ Bookkeeping /\ Tokens => StageQueueInv
  BY DEF StageQueueInv
<1>. QED
  BY <1>1, <1>2, <1>3, <1>4, GovernanceInvariant, PTL DEF Spec

-----------------------------------------------------------------------------
(* The kinds of steps of one stage slice.                                  *)

LEMMA OneHolder ==
  ASSUME StageQueueInv, NEW j \in Jobs, NEW w \in Workers, Owns(w, j)
  PROVE  HolderOf(j) = {w}
BY DEF StageQueueInv, Tokens, Owns, HoldsLease, HolderOf

LEMMA SameHolders ==
  ASSUME NEW j \in Jobs, slice'[j] = slice[j], attempts'[j] = attempts[j],
         \A w \in Workers : Owns(w, j)' <=> Owns(w, j)
  PROVE  StageQueue!JobStep(j)
<1>1. HolderOf(j)' = HolderOf(j)
  BY DEF HolderOf
<1>. QED
  BY <1>1 DEF StageQueue!JobStep, StageQueue!Stay

\* A slice that is not RUNNING has no holder.
LEMMA NoHolder ==
  ASSUME NEW j \in Jobs, slice[j] # "RUNNING"
  PROVE  HolderOf(j) = {}
BY DEF HolderOf, Owns, HoldsLease

LEMMA NoHolderNext ==
  ASSUME NEW j \in Jobs, slice'[j] # "RUNNING"
  PROVE  HolderOf(j)' = {}
BY DEF HolderOf, Owns, HoldsLease

LEMMA FreeSliceStep ==
  ASSUME NEW j \in Jobs, attempts'[j] = attempts[j],
         \/ slice[j] = "ABSENT" /\ slice'[j] = "PENDING"
         \/ slice[j] \in {"PENDING", "RETRY_WAIT"} /\ slice'[j] = "CANCELLED"
         \/ slice[j] = "FAILED" /\ slice'[j] = "PENDING"
         \/ slice[j] = "RUNNING" /\ slice'[j] = "RETRY_WAIT"
  PROVE  StageQueue!JobStep(j)
<1>1. HolderOf(j)' = {}
  BY NoHolderNext
<1>. QED
  BY <1>1 DEF JobStateOf, StageQueue!JobStep, StageQueue!Offer, StageQueue!Withdraw,
     StageQueue!Requeue, StageQueue!TakeAway, StageQueue!Moves, StageQueue!Dropped

LEMMA DecideSliceStep ==
  ASSUME StageQueueInv, NEW j \in Jobs, NEW w \in Workers, Owns(w, j),
         attempts'[j] = attempts[j], slice'[j] \in {"SUCCEEDED", "FAILED"}
  PROVE  StageQueue!JobStep(j)
<1>1. HolderOf(j)' = {}
  BY NoHolderNext
<1>2. HolderOf(j) # {} /\ slice[j] = "RUNNING"
  BY DEF HolderOf, Owns, HoldsLease
<1>. QED
  BY <1>1, <1>2 DEF JobStateOf, StageQueue!JobStep, StageQueue!Decide, StageQueue!Moves,
     StageQueue!Dropped

LEMMA TakeSliceStep ==
  ASSUME StageQueueInv', NEW j \in Jobs, NEW w \in Workers, Owns(w, j)',
         attempts'[j] = attempts[j] + 1, slice'[j] = "RUNNING",
         slice[j] \in {"PENDING", "RETRY_WAIT", "RUNNING"}
  PROVE  StageQueue!JobStep(j)
<1>1. HolderOf(j)' = {w}
  BY DEF StageQueueInv, Tokens, Owns, HoldsLease, HolderOf
<1>. QED
  BY <1>1 DEF JobStateOf, StageQueue!JobStep, StageQueue!Take, StageQueue!TakeOver,
     StageQueue!Moves, StageQueue!Claimed

\* The row stays as it is; its holder may be gone.
LEMMA SameRowStep ==
  ASSUME StageQueueInv, NEW w \in Workers, NEW j \in Jobs, KeepsClaim(w),
         slice'[j] = slice[j], lease'[j] = lease[j], attempts'[j] = attempts[j]
  PROVE  StageQueue!JobStep(j)
<1>1. \A v \in Workers \ {w} : Owns(v, j)' <=> Owns(v, j)
  BY DEF Owns, HoldsLease, KeepsClaim
<1>2. CASE wk'[w].pc = "idle" /\ Owns(w, j)
  <2>1. HolderOf(j)' = {}
    BY <1>1, <1>2 DEF StageQueueInv, Tokens, Owns, HoldsLease, HolderOf
  <2>2. HolderOf(j) # {} /\ slice[j] = "RUNNING"
    BY <1>2 DEF HolderOf, Owns, HoldsLease
  <2>. QED
    BY <2>1, <2>2 DEF JobStateOf, StageQueue!JobStep, StageQueue!Vanish, StageQueue!Moves,
       StageQueue!Dropped
<1>3. CASE ~(wk'[w].pc = "idle" /\ Owns(w, j))
  <2>1. Owns(w, j)' <=> Owns(w, j)
    BY <1>3 DEF Owns, HoldsLease, KeepsClaim
  <2>. QED
    BY <1>1, <2>1, SameHolders
<1>. QED
  BY <1>2, <1>3

-----------------------------------------------------------------------------
(* The steps of the workers and of the queue.                              *)

LEMMA PollQueue ==
  ASSUME StageQueueInv, StageQueueInv', NEW w \in Workers, Poll(w), NEW j \in Jobs
  PROVE  StageQueue!JobStep(j)
<1>1. PICK C \in SUBSET Jobs :
        /\ \A i \in C : /\ slice'[i] = "RUNNING" /\ slice[i] \in {"PENDING", "RETRY_WAIT", "RUNNING"}
                        /\ lease'[i] = attempts[i] + 1 /\ attempts'[i] = attempts[i] + 1
        /\ \A i \in Recoverable \ C : slice'[i] = "RETRY_WAIT"
        /\ \A i \in Jobs \ (Recoverable \cup C) : slice'[i] = slice[i] /\ lease'[i] = lease[i]
        /\ \A i \in Jobs \ C : attempts'[i] = attempts[i]
        /\ \A v \in Workers \ {w} : wk'[v] = wk[v]
        /\ \/ C = {} /\ wk' = wk
           \/ \E i \in Jobs : /\ C = {i} /\ wk'[w].pc = "claimed" /\ wk'[w].job = i
                              /\ wk'[w].tok = attempts[i] + 1
  BY PollEffect
<1>2. CASE j \in C
  <2>1. Owns(w, j)'
    BY <1>1, <1>2 DEF Owns, HoldsLease
  <2>. QED
    BY <1>1, <1>2, <2>1, TakeSliceStep
<1>3. CASE j \in Recoverable \ C
  BY <1>1, <1>3, FreeSliceStep DEF Recoverable
<1>4. CASE j \notin Recoverable \cup C
  <2>1. wk[w].pc = "idle"
    BY DEF Poll
  <2>2. \A v \in Workers : Owns(v, j)' <=> Owns(v, j)
    BY <1>1, <1>4, <2>1 DEF Owns, HoldsLease
  <2>. QED
    BY <1>1, <1>4, <2>2, SameHolders
<1>. QED
  BY <1>2, <1>3, <1>4

LEMMA CompletionQueue ==
  ASSUME StageQueueInv, NEW w \in Workers, NEW j \in Jobs,
         CleanNew(w) \/ CleanAgain(w) \/ QualityBlock(w) \/ QualityCommit(w)
  PROVE  StageQueue!JobStep(j)
<1>1. KeepsClaim(w) /\ UNCHANGED <<lease, attempts>> /\ CompletesSlices(w)
  BY CompletionEffect
<1>2. slice \in [Jobs -> SliceStatus] /\ wk[w].job \in Jobs
  BY <1>1 DEF StageQueueInv, TypeOK, KeepsClaim
<1>3. CASE j = wk[w].job /\ HoldsLease(w)
  <2>1. Owns(w, j) /\ slice[j] = "RUNNING"
    BY <1>1, <1>3 DEF Owns, KeepsClaim, HoldsLease
  <2>2. slice'[j] = "SUCCEEDED"
    BY <1>1, <1>2, <1>3, <2>1 DEF CompletesSlices, CompletedSlice
  <2>. QED
    BY <1>1, <2>1, <2>2, DecideSliceStep
<1>4. CASE ~(j = wk[w].job /\ HoldsLease(w))
  <2>1. CompletedSlice(w)[j] = slice[j]
    BY <1>2, <1>4 DEF CompletedSlice
  <2>2. slice'[j] = slice[j] \/ (slice[j] = "ABSENT" /\ slice'[j] = "PENDING")
    BY <1>1, <1>2, <2>1 DEF CompletesSlices, CompletedSlice
  <2>. QED
    BY <1>1, <2>2, SameRowStep, FreeSliceStep
<1>. QED
  BY <1>3, <1>4

LEMMA FailQueue ==
  ASSUME StageQueueInv, NEW w \in Workers, NEW j \in Jobs, FailClaim(w) \/ Crash(w)
  PROVE  StageQueue!JobStep(j)
<1>1. /\ KeepsClaim(w) /\ attempts' = attempts
      /\ \/ UNCHANGED <<slice, lease>>
         \/ /\ HoldsLease(w) /\ slice'[wk[w].job] = "FAILED"
            /\ \A i \in Jobs \ {wk[w].job} : slice'[i] = slice[i] /\ lease'[i] = lease[i]
  BY FailEffect
<1>2. CASE slice'[j] = slice[j] /\ lease'[j] = lease[j]
  BY <1>1, <1>2, SameRowStep
<1>3. CASE j = wk[w].job /\ HoldsLease(w) /\ slice'[j] = "FAILED"
  <2>1. Owns(w, j)
    BY <1>1, <1>3 DEF Owns, KeepsClaim
  <2>. QED
    BY <1>1, <1>3, <2>1, DecideSliceStep
<1>. QED
  BY <1>1, <1>2, <1>3

\* Steps that no worker takes.
LEMMA OutsideQueue ==
  ASSUME StageQueueInv, NEW j \in Jobs,
         \/ \E c \in Sources : SourceChanged(c) \/ \E a \in Answers : Collect(c, a)
         \/ \E i \in Jobs : LeaseExpires(i) \/ \E kind \in Requests : Request(kind, i)
         \/ UNCHANGED vars
  PROVE  StageQueue!JobStep(j)
<1>1. UNCHANGED <<lease, attempts, wk>>
  BY DEF SourceChanged, Collect, LeaseExpires, Request, vars, queueRows
<1>2. slice \in [Jobs -> SliceStatus]
  BY DEF StageQueueInv, TypeOK
<1>3. CASE slice'[j] = slice[j]
  <2>1. \A w \in Workers : Owns(w, j)' <=> Owns(w, j)
    BY <1>1, <1>3 DEF Owns, HoldsLease
  <2>. QED
    BY <1>1, <1>3, <2>1, SameHolders
<1>4. ASSUME NEW c \in Sources, NEW a \in Answers, Collect(c, a), slice'[j] # slice[j]
      PROVE  slice[j] = "ABSENT" /\ slice'[j] = "PENDING"
  <2>1. <<"CLEAN", c>> \in Jobs
    BY DEF Jobs
  <2>2. task[<<"CLEAN", c>>] = "ABSENT" /\ slice' = [slice EXCEPT ![<<"CLEAN", c>>] = "PENDING"]
    BY <1>4 DEF Collect, Enqueue
  <2>. QED
    BY <1>2, <1>4, <2>1, <2>2 DEF StageQueueInv, Bookkeeping
<1>5. ASSUME NEW i \in Jobs, NEW kind \in Requests, Request(kind, i), slice'[j] # slice[j]
      PROVE  \/ slice[j] \in {"PENDING", "RETRY_WAIT"} /\ slice'[j] = "CANCELLED"
             \/ slice[j] = "FAILED" /\ slice'[j] = "PENDING"
  <2>1. i = j /\ slice'[j] = SliceAfterRequest(kind, j) /\ (kind = "retry" => slice[j] = "FAILED")
    BY <1>2, <1>5 DEF Request
  <2>2. CASE kind = "cancel"
    BY <2>1, <2>2, <1>5 DEF SliceAfterRequest
  <2>3. CASE kind = "retry"
    BY <2>1, <2>3 DEF SliceAfterRequest
  <2>4. CASE kind \notin {"cancel", "retry"}
    BY <2>1, <2>4, <1>5 DEF SliceAfterRequest
  <2>. QED
    BY <2>2, <2>3, <2>4
<1>. QED
  BY <1>1, <1>3, <1>4, <1>5, FreeSliceStep DEF SourceChanged, LeaseExpires, vars, queueRows

LEMMA StageQueueInit == Init => StageQueue!Init
<1>. SUFFICES ASSUME Init PROVE StageQueue!Init
  OBVIOUS
<1>1. ASSUME NEW j \in Jobs PROVE HolderOf(j) = {} /\ JobStateOf(slice[j]) = "absent"
  BY NoHolder DEF Init, JobStateOf
<1>. QED
  BY <1>1 DEF Init, StageQueue!Init

LEMMA StageQueueStep ==
  StageQueueInv /\ StageQueueInv' /\ [Next]_vars => StageQueue!Next
<1>. SUFFICES ASSUME StageQueueInv, StageQueueInv', [Next]_vars, NEW j \in Jobs
              PROVE  StageQueue!JobStep(j)
  BY DEF StageQueue!Next
<1>1. ASSUME NEW w \in Workers, Poll(w) PROVE StageQueue!JobStep(j)
  BY <1>1, PollQueue
<1>2. ASSUME NEW w \in Workers,
             \/ Prepare(w) \/ \E fresh \in BOOLEAN : Load(w, fresh)
             \/ CleanConflict(w) \/ \E pass \in BOOLEAN : Validate(w, pass)
             \/ Publish(w) \/ Raise(w)
      PROVE  StageQueue!JobStep(j)
  <2>1. KeepsClaim(w) /\ UNCHANGED <<slice, lease, attempts>>
    BY <1>2, KeepsByType DEF StageQueueInv
  <2>. QED
    BY <2>1, SameRowStep
<1>3. ASSUME NEW w \in Workers,
             \/ CleanNew(w) \/ CleanAgain(w) \/ QualityBlock(w) \/ QualityCommit(w)
             \/ FailClaim(w) \/ Crash(w)
      PROVE  StageQueue!JobStep(j)
  BY <1>3, CompletionQueue, FailQueue
<1>. QED
  BY <1>1, <1>2, <1>3, OutsideQueue DEF Next, Execute

\* The stage tasks run on a queue that keeps the promise of the collection's:
\* one worker at a time may decide a stage slice, and a worker that lost its
\* lease decides nothing, whatever it commits besides.
THEOREM GovernanceImplementsQueue == Spec => ImplementsQueue
<1>1. StageQueueInv /\ StageQueueInv' /\ [Next]_vars => [StageQueue!Next]_(StageQueue!vars)
  BY StageQueueStep
<1>. QED
  BY <1>1, StageQueueInit, StageQueueInvariant, PTL DEF Spec, ImplementsQueue, StageQueue!Spec
=============================================================================
